----------------------------- MODULE MCBarrier -----------------------------
(* Model checking of the thread barrier with a small set of threads. *)
EXTENDS Barrier
=============================================================================
