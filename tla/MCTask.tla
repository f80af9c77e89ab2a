------------------------------- MODULE MCTask -------------------------------
(* Task for TLC: which CPU the producers, the pump and the idle thread are on. *)
EXTENDS Task, TLC

CONSTANTS c1, c2, p1, p2, s1, i1, t1, t2

\* The producers are on CPUs of their own, so that they share no reuse stack.
Apart == (p1 :> c1) @@ (p2 :> c2) @@ (s1 :> c1) @@ (i1 :> c1)

\* Everybody is on one CPU.
Together == (p1 :> c1) @@ (p2 :> c1) @@ (s1 :> c1) @@ (i1 :> c1)
=============================================================================
