------------------------------ MODULE MCSched ------------------------------
(***************************************************************************)
(* Model checking of the scheduler core: two CPUs, two threads.  Each      *)
(* thread and each interrupt handler starts a bounded number of operations *)
(* on wait queues: a test-and-set spinlock lets a CPU be overtaken for as  *)
(* long as others come back to it.                                         *)
(***************************************************************************)
EXTENDS Sched, TLC

CONSTANTS t1, t2, c1, c2,
          MaxOps,      \* bound: operations each thread starts
          MaxWakes     \* bound: operations each handler starts

VARIABLE ops

\* Both threads start on the first CPU.
MCFirstQueue == (c1 :> <<t1, t2>>) @@ (c2 :> <<>>)

Starts(a) == pc[a] \in {"run", "off"} /\ pc'[a] \notin {"run", "off"}

BoundedInit == Init /\ ops = [a \in Actors |-> IF a \in Threads THEN MaxOps ELSE MaxWakes]

BoundedNext ==
    /\ Next
    /\ ops' = [a \in Actors |-> IF Starts(a) THEN ops[a] - 1 ELSE ops[a]]
    /\ \A a \in Actors : ops'[a] >= 0

BoundedSpec == BoundedInit /\ [][BoundedNext]_<<vars, ops>> /\ Fairness
=============================================================================
