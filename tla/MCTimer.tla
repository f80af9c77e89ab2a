------------------------------- MODULE MCTimer -------------------------------
(* Timer for TLC. *)
EXTENDS Timer, TLC

CONSTANTS a, b, k, v
=============================================================================
