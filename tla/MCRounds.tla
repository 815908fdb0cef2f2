------------------------------ MODULE MCRounds ------------------------------
(* Instances of Rounds for TLC. *)
EXTENDS Rounds, TLC

\* One share each second.
EachSecond == [s \in Share |-> s]
\* Shares two and three in one second.
TwoInASecond == [s \in Share |-> IF s < 3 THEN s ELSE s - 1]
=============================================================================
