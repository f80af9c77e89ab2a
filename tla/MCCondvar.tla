----------------------------- MODULE MCCondvar -----------------------------
(* Condvar for TLC: which thread uses which operations. *)
EXTENDS Condvar

CONSTANTS a, b, c, d

\* Waiters that meet signals, broadcasts and the end of the condition variable.
TwoWaiters ==
    (a :> {"wait"}) @@ (b :> {"wait"}) @@ (c :> {"signal", "bcast"}) @@ (d :> {"bcast", "destroy"})

\* One waiter and one signal.
OneWaiter == (a :> {"wait"}) @@ (c :> {"signal"})
=============================================================================
