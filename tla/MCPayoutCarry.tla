--------------------------- MODULE MCPayoutCarry ---------------------------
(* Instances of PayoutCarry for TLC. *)
EXTENDS PayoutCarry, TLC

CONSTANTS w1, w2

\* One miner finds every block; no block pays it the minimum alone.
LoneMiner == [b \in Block |-> [w \in Wallet |-> 1]]
\* w2 has a part in the first block and in no other.
MixedRound == [b \in Block |-> IF b = 1 THEN (w1 :> 1 @@ w2 :> 3) ELSE (w1 :> 2 @@ w2 :> 0)]
=============================================================================
