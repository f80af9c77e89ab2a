--------------------------- MODULE MCThreadLife ---------------------------
(* ThreadLife for TLC: the first thread and the slots of two more. *)
EXTENDS ThreadLife, TLC

CONSTANTS r, x, y

=============================================================================
