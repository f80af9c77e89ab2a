---------------------------- MODULE MCSchedMove ----------------------------
(* Model checking of thread moves: two CPUs. *)
EXTENDS SchedMove, TLC

CONSTANTS t1, t2, t3, c1, c2

MCFirstQueue == (c1 :> <<t1, t2>>) @@ (c2 :> <<t3>>)
=============================================================================
