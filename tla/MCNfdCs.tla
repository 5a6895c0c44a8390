------------------------------ MODULE MCNfdCs ------------------------------
(* Two Data of the same name /A (5 is A, 6 is B, less than 5 a digest), and  *)
(* Data below it; lookups of every kind for three names.                     *)
EXTENDS NfdCs

MCUniverse == << <<5, 0>>, <<5, 1>>, <<5, 5, 0>>, <<5, 6, 0>>, <<5, 6, 5, 0>> >>
MCInterest == [name : {<<>>, <<5>>, <<5, 6>>},
               rightmost : BOOLEAN, canBePrefix : BOOLEAN, mustBeFresh : BOOLEAN]
=============================================================================
