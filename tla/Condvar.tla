------------------------------- MODULE Condvar -------------------------------
(***************************************************************************)
(* Condition variables (src/nautilus/condvar.c): wait, signal, bcast and   *)
(* destroy on one condition variable used with one mutex.                  *)
(*                                                                         *)
(* What is one step is done with the condition variable's lock held.  A    *)
(* waiter drops that lock before it calls nk_wait_queue_sleep, and bcast   *)
(* before it wakes the waiters: those are steps of their own.  Putting     *)
(* oneself to sleep on the wait queue is one step: the queue's lock is     *)
(* held until the scheduling pass is over.                                 *)
(***************************************************************************)
EXTENDS Integers, Sequences, SequencesExt, FiniteSetsExt

CONSTANTS Threads,
          Ops,          \* the operations each thread uses
          MaxCalls,     \* how many calls each thread makes
          Locked,       \* whether signal and bcast are called with the mutex held
          Nobody

ASSUME CondvarAssumption ==
    /\ IsFiniteSet(Threads) /\ MaxCalls \in Nat /\ Locked \in BOOLEAN
    /\ \A t \in Threads : Ops[t] \subseteq {"wait", "signal", "bcast", "destroy"}
    /\ Nobody \notin Threads

VARIABLES nwaiters, main_seq, wakeup_seq, woken_seq, bcast_seq,
          wait_queue,
          waiting,     \* the threads with status NK_THR_WAITING
          mutex,       \* holder of the caller's mutex l
          seq, bc,     \* the waiters' locals
          destroyed, pc, calls

seqVars == <<nwaiters, main_seq, wakeup_seq, woken_seq, bcast_seq>>
queueVars == <<wait_queue, waiting>>
vars == <<seqVars, queueVars, mutex, seq, bc, destroyed, pc, calls>>

Init ==
    /\ nwaiters = 0 /\ main_seq = 0 /\ wakeup_seq = 0 /\ woken_seq = 0 /\ bcast_seq = 0
    /\ wait_queue = <<>> /\ waiting = {} /\ mutex = Nobody
    /\ seq = [t \in Threads |-> 0] /\ bc = [t \in Threads |-> 0]
    /\ destroyed = FALSE
    /\ pc = [t \in Threads |-> "idle"] /\ calls = [t \in Threads |-> 0]

Goto(t, from, to) == pc[t] = from /\ pc' = [pc EXCEPT ![t] = to]

Waiting == {"sleep", "asleep"}

\* Nobody but the threads inside wait will use the condition variable again.
Unused(t) ==
    \A u \in Threads \ {t} :
        pc[u] \in Waiting \cup {"relock", "idle"} /\ calls[u] = MaxCalls

\* A thread calls wait with the mutex, signal and bcast with or without it.
Call(t) ==
    /\ calls[t] < MaxCalls /\ ~destroyed
    /\ calls' = [calls EXCEPT ![t] = @ + 1]
    /\ \E o \in Ops[t] :
           /\ Goto(t, "idle", o)
           /\ o = "destroy" => Unused(t)
           /\ IF o = "wait" \/ (Locked /\ o # "destroy")
              THEN mutex = Nobody /\ mutex' = t
              ELSE UNCHANGED mutex
    /\ UNCHANGED <<seqVars, queueVars, seq, bc, destroyed>>

\* The caller releases the mutex it called signal or bcast with.
Release(t) == mutex' = IF mutex = t THEN Nobody ELSE mutex

-----------------------------------------------------------------------------
(* wait *)

\* The waiter is counted and notes the wake-ups it is not to mistake for its own.
WaitEnter(t) ==
    /\ Goto(t, "wait", "sleep")
    /\ mutex' = Nobody
    /\ nwaiters' = nwaiters + 1 /\ main_seq' = main_seq + 1
    /\ bc' = [bc EXCEPT ![t] = bcast_seq]
    /\ seq' = [seq EXCEPT ![t] = wakeup_seq]
    /\ UNCHANGED <<wakeup_seq, woken_seq, bcast_seq, queueVars, destroyed, calls>>

\* nk_wait_queue_sleep, with no lock held and no condition to check.
WaitSleep(t) ==
    /\ Goto(t, "sleep", "asleep")
    /\ wait_queue' = Append(wait_queue, t)
    /\ waiting' = waiting \cup {t}
    /\ UNCHANGED <<seqVars, mutex, seq, bc, destroyed, calls>>

\* Awake: leave after a broadcast, or if there is a wake-up to take; else sleep.
Recheck(t, bcast, signalled) ==
    /\ t \notin waiting
    /\ Goto(t, "asleep", IF bcast \/ signalled THEN "relock" ELSE "sleep")
    /\ nwaiters' = IF bcast \/ signalled THEN nwaiters - 1 ELSE nwaiters
    /\ woken_seq' = IF ~bcast /\ signalled THEN woken_seq + 1 ELSE woken_seq
    /\ UNCHANGED <<main_seq, wakeup_seq, bcast_seq, queueVars, mutex, seq, bc, destroyed, calls>>

WaitRecheck(t) ==
    Recheck(t, bc[t] # bcast_seq, wakeup_seq # seq[t] /\ wakeup_seq # woken_seq)

\* The mutex is taken again; the caller is assumed to release it some time.
WaitReturn(t) ==
    /\ mutex = Nobody
    /\ Goto(t, "relock", "idle")
    /\ UNCHANGED <<seqVars, queueVars, mutex, seq, bc, destroyed, calls>>

-----------------------------------------------------------------------------
(* signal and bcast *)

\* nk_wait_queue_wake_one, called with the condition variable's lock held.
nk_condvar_signal(t) ==
    /\ Goto(t, "signal", "idle")
    /\ IF main_seq > wakeup_seq
       THEN /\ wakeup_seq' = wakeup_seq + 1
            /\ wait_queue' = IF wait_queue = <<>> THEN <<>> ELSE Tail(wait_queue)
            /\ waiting' = IF wait_queue = <<>> THEN waiting ELSE waiting \ {Head(wait_queue)}
       ELSE UNCHANGED <<wakeup_seq, queueVars>>
    /\ Release(t)
    /\ UNCHANGED <<nwaiters, main_seq, woken_seq, bcast_seq, seq, bc, destroyed, calls>>

\* woken: what woken_seq is set to.
Bcast(t, woken) ==
    /\ IF main_seq > wakeup_seq
       THEN /\ Goto(t, "bcast", "wakeall")
            /\ woken_seq' = woken /\ wakeup_seq' = main_seq
            /\ bcast_seq' = bcast_seq + 1
            /\ UNCHANGED mutex
       ELSE /\ Goto(t, "bcast", "idle")
            /\ Release(t)
            /\ UNCHANGED <<woken_seq, wakeup_seq, bcast_seq>>
    /\ UNCHANGED <<nwaiters, main_seq, queueVars, seq, bc, destroyed, calls>>

\* Mutant: the waiters the broadcast releases are not counted as woken.
nk_condvar_bcast_Woken(t) == Bcast(t, woken_seq)

nk_condvar_bcast(t) == Bcast(t, main_seq)

\* nk_wait_queue_wake_all, after the condition variable's lock was released.
\* rest: what is left of the wait queue.
WakeAll(t, rest) ==
    /\ Goto(t, "wakeall", "idle")
    /\ wait_queue' = rest
    /\ waiting' = waiting \ (ToSet(wait_queue) \ ToSet(rest))
    /\ Release(t)
    /\ UNCHANGED <<seqVars, seq, bc, destroyed, calls>>

\* Mutant: only the first waiter is woken.
BcastWake_One(t) == WakeAll(t, IF wait_queue = <<>> THEN <<>> ELSE Tail(wait_queue))

BcastWake(t) == WakeAll(t, <<>>)

-----------------------------------------------------------------------------
(* destroy *)

\* Refused while there are waiters; the caller tries again.
Destroy(t, free) ==
    /\ pc[t] = "destroy" /\ free
    /\ Goto(t, "destroy", "idle")
    /\ destroyed' = TRUE
    /\ UNCHANGED <<seqVars, queueVars, mutex, seq, bc, calls>>

\* Mutant: looks for threads on the wait queue instead of waiters.
nk_condvar_destroy_Queue(t) == Destroy(t, wait_queue = <<>>)

nk_condvar_destroy(t) == Destroy(t, nwaiters = 0)

-----------------------------------------------------------------------------

Step(t) ==
    \/ WaitEnter(t) \/ WaitSleep(t) \/ WaitRecheck(t) \/ WaitReturn(t)
    \/ nk_condvar_signal(t) \/ nk_condvar_bcast(t) \/ BcastWake(t)
    \/ nk_condvar_destroy(t)

Next == \E t \in Threads : Call(t) \/ Step(t)

Spec == Init /\ [][Next]_vars

\* Threads keep running; calls are finite, so the spin locks come free for good.
FairSpec == Spec /\ \A t \in Threads : WF_vars(Step(t))

-----------------------------------------------------------------------------
(* Properties *)

\* The types of the sequence numbers, the wait queue and the callers.
TypeOK ==
    /\ nwaiters \in 0 .. Cardinality(Threads)
    /\ {main_seq, wakeup_seq, woken_seq, bcast_seq} \subseteq Nat
    /\ wait_queue \in Seq(Threads) /\ waiting \subseteq Threads
    /\ mutex \in Threads \cup {Nobody}
    /\ seq \in [Threads -> Nat] /\ bc \in [Threads -> Nat]
    /\ destroyed \in BOOLEAN

Waiters == {t \in Threads : pc[t] \in Waiting}

\* What makes the test in signal and bcast sound: the waiters no broadcast has
\* released are as many as were counted in and not yet counted out, and every
\* waiter, released or not, is known to destroy.  Wake-ups taken by waiters are
\* wake-ups that were given, and those were given to waiters: no wait returns
\* without a signal or a broadcast, although wake_all comes late, to waiters of
\* after the broadcast too.  (All state has its type.)
SeqsCountWaiters ==
    /\ TypeOK
    /\ main_seq - woken_seq = Cardinality({t \in Waiters : bc[t] = bcast_seq})
    /\ nwaiters = Cardinality(Waiters)
    /\ woken_seq <= wakeup_seq /\ wakeup_seq <= main_seq

\* No thread is in the condition variable's code once destroy has cleared it.
DestroyedUnused == destroyed => Waiters = {}

\* "do we have anyone to signal?": while a wake-up has been given and not been
\* taken, some waiter is awake to take it, or is about to be woken.
NoLostSignal ==
    wakeup_seq > woken_seq /\ (\A t \in Threads : pc[t] # "wakeall")
        => \E t \in Waiters : t \notin waiting

\* A broadcast gets every thread out of wait that sleeps when the broadcast
\* comes to wake the sleepers, unless the thread came after the broadcast.
BroadcastReleases ==
    \A t \in Threads :
        (/\ t \in waiting /\ bc[t] # bcast_seq
         /\ \E b \in Threads : pc[b] = "wakeall") ~> (pc[t] = "idle")
=============================================================================
