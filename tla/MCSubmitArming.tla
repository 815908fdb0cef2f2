--------------------------- MODULE MCSubmitArming ---------------------------
(* Small instances of SubmitArming for TLC: shells are numbers. *)
EXTENDS SubmitArming

OneShell == 1 .. 1
TwoShells == 1 .. 2
=============================================================================
