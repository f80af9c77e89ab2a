----------------------------- MODULE MCRealTime -----------------------------
EXTENDS RealTime

CONSTANTS t1, t2, t3

Periodic(phase, period, slice) ==
    [type |-> "PERIODIC", phase |-> phase, period |-> period, slice |-> slice]
Sporadic(phase, size, deadline) ==
    [type |-> "SPORADIC", phase |-> phase, size |-> size, deadline |-> deadline]

NoStarts == [t \in {} |-> None]

MCThreads == {t1, t2, t3}

\* Three threads of which no more than two fit; the first asks again.
Changing == [wants |-> (t1 :> {Periodic(0, 4, 2), Periodic(0, 5, 1), Aperiodic})
                       @@ (t2 :> {Periodic(1, 3, 1)}) @@ (t3 :> {Periodic(0, 5, 2)}),
             starts |-> NoStarts, sleepers |-> {}, leavers |-> {}, irqs |-> FALSE]

\* A sporadic thread joins two periodic ones, one of which leaves.
Joining == [wants |-> (t1 :> {Periodic(0, 4, 1)}) @@ (t2 :> {Periodic(0, 6, 2)}) @@ (t3 :> {}),
            starts |-> t3 :> Sporadic(2, 1, 8), sleepers |-> {}, leavers |-> {t2}, irqs |-> FALSE]

\* A periodic thread that sleeps and is woken, and one that is started elsewhere.
Sleeping == [wants |-> (t1 :> {Periodic(0, 4, 2)}) @@ (t2 :> {}) @@ (t3 :> {}),
             starts |-> (t2 :> Periodic(0, 5, 1)) @@ (t3 :> None),
             sleepers |-> {t1}, leavers |-> {}, irqs |-> FALSE]

\* Two sporadic threads that are started elsewhere.
Sporadics == [wants |-> (t1 :> {Periodic(0, 6, 3)}) @@ (t2 :> {}) @@ (t3 :> {}),
              starts |-> (t2 :> Sporadic(1, 1, 12)) @@ (t3 :> Sporadic(0, 1, 12)),
              sleepers |-> {}, leavers |-> {}, irqs |-> FALSE]

\* Device interrupts.
Interrupted == [wants |-> (t1 :> {Periodic(0, 6, 3)}) @@ (t2 :> {}) @@ (t3 :> {}),
                starts |-> (t2 :> Sporadic(1, 2, 12)) @@ (t3 :> None),
                sleepers |-> {}, leavers |-> {}, irqs |-> TRUE]

\* A thread that makes itself sporadic, early or late, and one that is periodic.
Promoting == [wants |-> (t1 :> {Sporadic(0, 2, 12), Sporadic(1, 1, 12)})
                        @@ (t2 :> {Periodic(0, 4, 2)}) @@ (t3 :> {}),
              starts |-> NoStarts, sleepers |-> {}, leavers |-> {}, irqs |-> FALSE]

MCWorkloads == {Changing, Joining, Sleeping, Sporadics, Interrupted, Promoting}
=============================================================================
