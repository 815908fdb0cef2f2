--------------------------- MODULE MCPayoutLedger ---------------------------
(* Instances of PayoutLedger for TLC. *)
EXTENDS PayoutLedger

\* POOL ledger: different sets of candidates amount to different sums.
DistinctAmounts == [S \in SUBSET Candidate |-> S]
\* SOLO ledger: every block pays its finder the same reward.
EqualRewards == [S \in SUBSET Candidate |-> Cardinality(S)]
=============================================================================
