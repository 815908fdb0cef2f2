------------------------------ MODULE MCSolo ------------------------------
(* Instances of Solo for TLC. *)
EXTENDS Solo

CONSTANTS b1
=============================================================================
