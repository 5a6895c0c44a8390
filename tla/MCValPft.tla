------------------------------ MODULE MCValPft ------------------------------
(* Instances of ValPft for TLC. *)
EXTENDS ValPft

\* Every Data has a signature of its own.
DistinctSig == [d \in Name |-> d]

\* apps/ndn-producer.cpp:121: the Producer application signs every Data with
\* the value of its Signature attribute, 0 unless configured.
FakeSig == [d \in Name |-> 0]
=============================================================================
