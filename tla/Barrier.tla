------------------------------- MODULE Barrier -------------------------------
(***************************************************************************)
(* The thread barrier of src/nautilus/barrier.c: nk_barrier_init,          *)
(* nk_barrier_wait and nk_barrier_destroy.                                 *)
(*                                                                         *)
(* The participants are exactly the threads the barrier was initialised    *)
(* for.  Each of them calls nk_barrier_wait MaxCalls times; one of them    *)
(* may afterwards destroy the barrier and free its memory, as              *)
(* nk_barrier_test does.  A step of a thread is one access to the shared   *)
(* barrier; the plain "--barrier->remaining" is a load and a store.        *)
(***************************************************************************)
EXTENDS Integers, FiniteSets

CONSTANTS Threads,    \* the participants
          MaxCalls    \* bound: calls of nk_barrier_wait per thread

ASSUME ThreadsAssumption == IsFiniteSet(Threads) /\ Threads # {}
ASSUME MaxCallsAssumption == MaxCalls \in Nat

VARIABLES lock,       \* barrier->lock
          remaining,  \* barrier->remaining
          notify,     \* barrier->notify
          pc,         \* where each thread is
          loaded,     \* the value a thread loaded for its plain decrement
          res,        \* the result of a thread's latest nk_barrier_wait
          arrived,    \* history: arrivals of each thread so far
          freed       \* the barrier was destroyed and its memory freed

vars == <<lock, remaining, notify, pc, loaded, res, arrived, freed>>

NK_BARRIER_LAST == 1

init_count == Cardinality(Threads)

Init ==
    /\ lock = 0
    /\ remaining = init_count
    /\ notify = 0
    /\ pc = [t \in Threads |-> "idle"]
    /\ loaded = [t \in Threads |-> 0]
    /\ res = [t \in Threads |-> 0]
    /\ arrived = [t \in Threads |-> 0]
    /\ freed = FALSE

Goto(t, from, to) == pc[t] = from /\ pc' = [pc EXCEPT ![t] = to]

-----------------------------------------------------------------------------
(* nk_barrier_wait *)

\* A thread that still has a round to go calls nk_barrier_wait: res = 0.
Call(t) ==
    /\ arrived[t] < MaxCalls
    /\ Goto(t, "idle", "lock")
    /\ res' = [res EXCEPT ![t] = 0]
    /\ UNCHANGED <<lock, remaining, notify, loaded, arrived, freed>>

bspin_lock(t) ==
    /\ lock = 0
    /\ lock' = 1
    /\ Goto(t, "lock", "load")
    /\ UNCHANGED <<remaining, notify, loaded, res, arrived, freed>>

\* The two halves of --barrier->remaining.
Load(t) ==
    /\ Goto(t, "load", "store")
    /\ loaded' = [loaded EXCEPT ![t] = remaining]
    /\ UNCHANGED <<lock, remaining, notify, res, arrived, freed>>

\* The last thread in keeps the lock; the others go on to release it.
Store(t) ==
    /\ remaining' = loaded[t] - 1
    /\ arrived' = [arrived EXCEPT ![t] = @ + 1]
    /\ IF loaded[t] = 1
       THEN /\ res' = [res EXCEPT ![t] = NK_BARRIER_LAST]
            /\ Goto(t, "store", "notify")
       ELSE /\ Goto(t, "store", "unlock")
            /\ UNCHANGED res
    /\ UNCHANGED <<lock, notify, loaded, freed>>

\* Mutant: the last thread in releases the lock as the others do.
Notify_Unlocks(t) ==
    /\ Goto(t, "notify", "inc")
    /\ notify' = 1
    /\ lock' = 0
    /\ UNCHANGED <<remaining, loaded, res, arrived, freed>>

\* atomic_cmpswap(barrier->notify, 0, 1)
Notify(t) ==
    /\ Goto(t, "notify", "inc")
    /\ notify' = IF notify = 0 THEN 1 ELSE notify
    /\ UNCHANGED <<lock, remaining, loaded, res, arrived, freed>>

bspin_unlock(t) ==
    /\ Goto(t, "unlock", "spin")
    /\ lock' = 0
    /\ UNCHANGED <<remaining, notify, loaded, res, arrived, freed>>

\* BARRIER_WHILE(barrier->notify != 1)
Spin(t) ==
    /\ notify = 1
    /\ Goto(t, "spin", "inc")
    /\ UNCHANGED <<lock, remaining, notify, loaded, res, arrived, freed>>

\* atomic_inc_val(barrier->remaining): the last thread out goes on to reset.
Inc(t) ==
    /\ remaining' = remaining + 1
    /\ Goto(t, "inc", IF remaining + 1 = init_count THEN "reset" ELSE "idle")
    /\ UNCHANGED <<lock, notify, loaded, res, arrived, freed>>

\* Mutant: notify stays set for the next round.
Reset_Missing(t) ==
    /\ Goto(t, "reset", "release")
    /\ UNCHANGED <<lock, remaining, notify, loaded, res, arrived, freed>>

\* atomic_cmpswap(barrier->notify, 1, 0)
Reset(t) ==
    /\ Goto(t, "reset", "release")
    /\ notify' = IF notify = 1 THEN 0 ELSE notify
    /\ UNCHANGED <<lock, remaining, loaded, res, arrived, freed>>

\* Mutant: the last thread out leaves the lock taken.
Release_Missing(t) ==
    /\ Goto(t, "release", "idle")
    /\ UNCHANGED <<lock, remaining, notify, loaded, res, arrived, freed>>

\* The last thread out releases the lock the last thread in acquired.
Release(t) ==
    /\ Goto(t, "release", "idle")
    /\ lock' = 0
    /\ UNCHANGED <<remaining, notify, loaded, res, arrived, freed>>

nk_barrier_wait(t) ==
    \/ Call(t) \/ bspin_lock(t) \/ Load(t) \/ Store(t) \/ Notify(t)
    \/ bspin_unlock(t) \/ Spin(t) \/ Inc(t) \/ Reset(t) \/ Release(t)

-----------------------------------------------------------------------------
(* nk_barrier_destroy, called by one thread after its last wait returned. *)

DestroyCall(t) ==
    /\ arrived[t] = MaxCalls
    /\ \A u \in Threads : pc[u] \notin {"dlock", "dcheck", "done", "failed"}
    /\ Goto(t, "idle", "dlock")
    /\ UNCHANGED <<lock, remaining, notify, loaded, res, arrived, freed>>

\* Mutant: the destroyer does not wait for the lock.
DestroyLock_Skips(t) ==
    /\ lock' = 1
    /\ Goto(t, "dlock", "dcheck")
    /\ UNCHANGED <<remaining, notify, loaded, res, arrived, freed>>

DestroyLock(t) ==
    /\ lock = 0
    /\ lock' = 1
    /\ Goto(t, "dlock", "dcheck")
    /\ UNCHANGED <<remaining, notify, loaded, res, arrived, freed>>

\* The check and bspin_unlock; when it returned 0 the caller frees the memory.
DestroyCheck(t) ==
    /\ lock' = 0
    /\ Goto(t, "dcheck", IF remaining = init_count THEN "done" ELSE "failed")
    /\ freed' = (remaining = init_count)
    /\ UNCHANGED <<remaining, notify, loaded, res, arrived>>

nk_barrier_destroy(t) == DestroyCall(t) \/ DestroyLock(t) \/ DestroyCheck(t)

-----------------------------------------------------------------------------

\* Everyone has returned from the last call and the barrier is gone.
Finished ==
    /\ \A t \in Threads : arrived[t] = MaxCalls /\ pc[t] \in {"idle", "done"}
    /\ freed
    /\ UNCHANGED vars

Step(t) == nk_barrier_wait(t) \/ nk_barrier_destroy(t)

Next == (\E t \in Threads : Step(t)) \/ Finished

Spec == Init /\ [][Next]_vars

\* Every thread keeps running: the participants are on CPUs of their own.
FairSpec == Spec /\ \A t \in Threads : WF_vars(Step(t))

-----------------------------------------------------------------------------
(* Properties *)

PC == {"idle", "lock", "load", "store", "notify", "unlock", "spin", "inc",
       "reset", "release", "dlock", "dcheck", "done", "failed"}

\* The types of the barrier's fields and of the threads' local state.
TypeOK ==
    /\ lock \in {0, 1}
    /\ remaining \in 0..init_count
    /\ notify \in {0, 1}
    /\ pc \in [Threads -> PC]
    /\ loaded \in [Threads -> Int]
    /\ res \in [Threads -> {0, NK_BARRIER_LAST}]
    /\ arrived \in [Threads -> 0..MaxCalls]
    /\ freed \in BOOLEAN

\* Threads that have arrived in the current round and not been let go.
Blocked(t) == pc[t] \in {"notify", "unlock", "spin"}

\* nk_barrier_wait synchronises: when a thread has been let go from its k-th
\* wait, every participant has arrived at its own k-th wait.
BarrierSync ==
    \A t, u \in Threads : ~Blocked(t) => arrived[t] <= arrived[u]

\* The lock handed from the last thread in to the last thread out protects
\* every plain access to barrier->remaining: no thread is about to increment
\* it atomically while another is in the middle of its plain decrement.
NoRemainingRace ==
    \A t, u \in Threads :
        pc[t] \in {"load", "store"} => /\ pc[u] # "inc"
                                       /\ u # t => pc[u] \notin {"load", "store"}

\* When all threads have returned from the same round, exactly one of them
\* was given NK_BARRIER_LAST.
ExactlyOneLast ==
    (\A t \in Threads : pc[t] \in {"idle", "dlock"} /\ arrived[t] > 0
                        /\ \A u \in Threads : arrived[u] = arrived[t])
        => \E t \in Threads : \A u \in Threads : res[u] = NK_BARRIER_LAST <=> u = t

\* After nk_barrier_destroy returned 0 no thread accesses the barrier: the
\* thread that destroyed it may free its memory.
NoUseAfterFree ==
    freed => \A t \in Threads : pc[t] \in {"idle", "done"}

\* A thread that destroys the barrier after its own last wait returned is not
\* told that someone still waits.
DestroySucceeds == \A t \in Threads : pc[t] # "failed"

\* Every thread that calls nk_barrier_wait returns from it.
EveryWaitReturns ==
    \A t \in Threads : pc[t] = "lock" ~> pc[t] = "idle"

\* The header comment of nk_barrier_wait: the thread that returns
\* NK_BARRIER_LAST is the last thread out of the barrier.
LastOut ==
    [][\A t \in Threads :
         (/\ pc[t] \in {"inc", "release"} /\ pc'[t] = "idle"
          /\ res[t] = NK_BARRIER_LAST)
         => \A u \in Threads \ {t} : pc[u] \notin {"spin", "inc", "reset", "release"}]_vars
=============================================================================
