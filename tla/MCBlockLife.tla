--------------------------- MODULE MCBlockLife ---------------------------
(* Instances of BlockLife for TLC. *)
EXTENDS BlockLife

CONSTANTS c1, c2
=============================================================================
