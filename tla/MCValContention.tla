-------------------------- MODULE MCValContention --------------------------
(* Instances of ValContention for TLC. *)
EXTENDS ValContention

\* Both ends and neighbouring metres of the range of one hop and of eight, the
\* most a relay can have left when MAXHOPS is 9
Edges == {0, 1, 2, 55, 56, 109, 110, 111, 440, 441, 878, 879, 880, 881}
RelayHops == 1..8

\* The extremes of the random delay
Extremes == {MIN_DELAY, MAX_DELAY}
=============================================================================
