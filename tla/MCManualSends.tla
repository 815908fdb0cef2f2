--------------------------- MODULE MCManualSends ---------------------------
(* A small ledger with tools of the operator beside it. *)
EXTENDS ManualSends, TLC

CONSTANTS o1, o2, r1, h1, h2, b1, c1, w1, s1

\* Every set of candidates amounts to the same.
EqualRewards == [S \in SUBSET Candidate |-> Cardinality(S)]

\* Two invocations of the recovery differ in nothing.
Alike == Permutations(Recovery)
=============================================================================
