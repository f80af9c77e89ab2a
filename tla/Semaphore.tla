------------------------------ MODULE Semaphore ------------------------------
(***************************************************************************)
(* Counting semaphores (src/nautilus/semaphore.c): up, down, try_up,       *)
(* try_down and down_timeout on one semaphore.                             *)
(*                                                                         *)
(* nk_semaphore_down hands units over through the count: it does not look  *)
(* again once it has been woken.  nk_semaphore_down_timeout retries, and   *)
(* sleeps on the semaphore's wait queue and on its timer's at once.        *)
(*                                                                         *)
(* What is one step holds a lock throughout.  The wait queue's own lock is *)
(* held across the scheduling pass of down_timeout but not across that of  *)
(* down, which relies on the semaphore's lock.                             *)
(***************************************************************************)
EXTENDS Integers, Sequences, FiniteSetsExt, WaitQueue

CONSTANTS Threads,
          InitCount,    \* the count the semaphore is created with
          Workloads,    \* the operations each thread uses, in each use of the semaphore
          MaxCalls,     \* how many calls each thread makes
          Nobody

ASSUME SemaphoreAssumption ==
    /\ IsFiniteSet(Threads)
    /\ InitCount \in Nat /\ MaxCalls \in Nat
    /\ Workloads \subseteq
           [Threads -> SUBSET {"up", "try_up", "down", "try_down", "down_timeout"}]
    /\ Nobody \notin Threads

VARIABLES count, prospective_count, lock, wait_queue,
          waiting,     \* the threads with status NK_THR_WAITING
          ops,         \* the workload
          pc, op, calls,
          timer,       \* state of the thread's timer
          onTimer,     \* the threads on their timer's wait queue
          firing,      \* the timers whose handler has yet to wake their waiter
          late,        \* the threads that have seen their deadline pass
          acquired, given    \* history: units taken and units put back

timerVars == <<timer, onTimer, firing, late>>
vars == <<count, prospective_count, lock, wait_queue, waiting, ops, pc, op, calls,
          timer, onTimer, firing, late, acquired, given>>

Init ==
    /\ count = InitCount /\ prospective_count = 0
    /\ lock = Nobody /\ wait_queue = <<>> /\ waiting = {}
    /\ ops \in Workloads
    /\ pc = [t \in Threads |-> "idle"]
    /\ op = [t \in Threads |-> "none"]
    /\ calls = [t \in Threads |-> 0]
    /\ timer = [t \in Threads |-> "INACTIVE"]
    /\ onTimer = {} /\ firing = {} /\ late = {}
    /\ acquired = 0 /\ given = 0

Goto(t, from, to) == pc[t] = from /\ pc' = [pc EXCEPT ![t] = to]

Call(t) ==
    /\ calls[t] < MaxCalls
    /\ \E o \in ops[t] : /\ op' = [op EXCEPT ![t] = o]
                         /\ Goto(t, "idle", o)
    /\ calls' = [calls EXCEPT ![t] = @ + 1]
    /\ UNCHANGED <<count, prospective_count, lock, wait_queue, waiting, ops, timerVars,
                   acquired, given>>

-----------------------------------------------------------------------------
(* up and try_up *)

\* The count goes up under the lock, and a waiter is woken after it if wake.
Up(t, wake) ==
    /\ op[t] \in {"up", "try_up"} /\ lock = Nobody
    /\ Goto(t, op[t], IF wake THEN "wake" ELSE "idle")
    /\ count' = count + 1
    /\ given' = given + 1
    /\ UNCHANGED <<prospective_count, lock, wait_queue, waiting, op, calls, timerVars, acquired>>

\* Mutant: wakes although nobody waits.
nk_semaphore_up_Zero(t) == Up(t, count <= 0 \/ prospective_count > 0)

\* Mutant: tests the count after the increment.
nk_semaphore_up_NewCount(t) == Up(t, count + 1 < 0 \/ prospective_count > 0)

\* The count before the increment tells whether somebody waits in down.
nk_semaphore_up(t) == Up(t, count < 0 \/ prospective_count > 0)

\* nk_wait_queue_wake_one, after the lock was dropped: the first thread is
\* taken off the queue and, if it still waits, made runnable.
WakeOne(t) ==
    /\ Goto(t, "wake", "idle")
    /\ wait_queue' = IF wait_queue = <<>> THEN <<>> ELSE Tail(wait_queue)
    /\ waiting' = IF wait_queue = <<>> THEN waiting ELSE waiting \ {Head(wait_queue)}
    /\ UNCHANGED <<count, prospective_count, lock, op, calls, timerVars, acquired, given>>

\* try_up and try_down return an error if the lock is taken.
TryLockFails(t) ==
    /\ op[t] \in {"try_up", "try_down"} /\ lock # Nobody
    /\ Goto(t, op[t], "idle")
    /\ UNCHANGED <<count, prospective_count, lock, wait_queue, waiting, op, calls, timerVars,
                   acquired, given>>

-----------------------------------------------------------------------------
(* down and try_down *)

nk_semaphore_try_down(t) ==
    /\ lock = Nobody
    /\ Goto(t, "try_down", "idle")
    /\ count' = IF count > 0 THEN count - 1 ELSE count
    /\ acquired' = IF count > 0 THEN acquired + 1 ELSE acquired
    /\ UNCHANGED <<prospective_count, lock, wait_queue, waiting, op, calls, timerVars, given>>

\* The count goes down; if it was positive the unit is taken, otherwise the
\* thread goes to sleep with the lock held.
Down(t, holder) ==
    /\ lock = Nobody
    /\ count' = count - 1
    /\ Goto(t, "down", IF count > 0 THEN "idle" ELSE "enqueue")
    /\ lock' = IF count > 0 THEN Nobody ELSE holder
    /\ acquired' = IF count > 0 THEN acquired + 1 ELSE acquired
    /\ UNCHANGED <<prospective_count, wait_queue, waiting, op, calls, timerVars, given>>

\* Mutant: the lock is dropped before the thread is on the wait queue.
nk_semaphore_down_Unlocked(t) == Down(t, Nobody)

nk_semaphore_down(t) == Down(t, t)

\* nk_wait_queue_enqueue takes and releases the wait queue's lock.
DownEnqueue(t) ==
    /\ Goto(t, "enqueue", "pass")
    /\ waiting' = waiting \cup {t}
    /\ wait_queue' = Append(wait_queue, t)
    /\ UNCHANGED <<count, prospective_count, lock, op, calls, timerVars, acquired, given>>

\* nk_sched_sleep(&s->lock): the pass, then the lock is released.
DownPass(t) ==
    /\ Goto(t, "pass", "asleep")
    /\ lock' = Nobody
    /\ UNCHANGED <<count, prospective_count, wait_queue, waiting, op, calls, timerVars,
                   acquired, given>>

\* "We are now back, which means we must be good to go."
DownReturn(t) ==
    /\ t \notin waiting
    /\ Goto(t, "asleep", "idle")
    /\ acquired' = acquired + 1
    /\ UNCHANGED <<count, prospective_count, lock, wait_queue, waiting, op, calls, timerVars,
                   given>>

-----------------------------------------------------------------------------
(* down_timeout *)

\* The retry: give up if the deadline has passed, else take a unit if there is
\* one, else get ready to sleep.
TimedTry(t) ==
    \/ /\ t \in late
       /\ Goto(t, "down_timeout", "idle")
       /\ late' = late \ {t}
       /\ UNCHANGED <<count, acquired, timer, prospective_count, lock, wait_queue, waiting, op,
                      calls, onTimer, firing, given>>
    \/ /\ t \notin late /\ lock = Nobody
       /\ Goto(t, "down_timeout", IF count > 0 THEN "idle" ELSE "arm")
       /\ count' = IF count > 0 THEN count - 1 ELSE count
       /\ acquired' = IF count > 0 THEN acquired + 1 ELSE acquired
       /\ UNCHANGED <<prospective_count, lock, wait_queue, waiting, op, calls, timerVars, given>>

\* nk_timer_set and nk_timer_start.
TimedArm(t) ==
    /\ Goto(t, "arm", "prospect")
    /\ timer' = [timer EXCEPT ![t] = "ACTIVE"]
    /\ UNCHANGED <<count, prospective_count, lock, wait_queue, waiting, op, calls, onTimer,
                   firing, late, acquired, given>>

TimedProspect(t) ==
    /\ Goto(t, "prospect", "sleep")
    /\ prospective_count' = prospective_count + 1
    /\ UNCHANGED <<count, lock, wait_queue, waiting, op, calls, timerVars, acquired, given>>

\* nk_wait_queue_sleep_extended_multiple: the conditions are checked with both
\* queues' locks held, which stay held until the thread is asleep.
SleepMultiple(t, ready, timerToo) ==
    /\ IF ready
       THEN /\ Goto(t, "sleep", "cancel")
            /\ UNCHANGED <<waiting, wait_queue, onTimer>>
       ELSE /\ Goto(t, "sleep", "timed")
            /\ waiting' = waiting \cup {t}
            /\ wait_queue' = Append(wait_queue, t)
            /\ onTimer' = onTimer \cup timerToo
    /\ UNCHANGED <<count, prospective_count, lock, op, calls, timer, firing, late, acquired, given>>

\* Mutant: does not check the count before it sleeps.
TimedSleep_NoCheck(t) == SleepMultiple(t, timer[t] = "SIGNALLED", {t})

\* check_count and check_timer.
TimedSleep(t) == SleepMultiple(t, count >= 1 \/ timer[t] = "SIGNALLED", {t})

\* Awake again: off both queues.
TimedRemove(t) ==
    /\ t \notin waiting
    /\ Goto(t, "timed", "cancel")
    /\ wait_queue' = Without(wait_queue, t)
    /\ onTimer' = onTimer \ {t}
    /\ UNCHANGED <<count, prospective_count, lock, waiting, op, calls, timer, firing, late,
                   acquired, given>>

\* nk_timer_cancel, the prospective count, and the clock is read again: it is
\* past the deadline if the timer has gone off, and may be if it has not yet.
TimedCancel(t) ==
    /\ Goto(t, "cancel", "down_timeout")
    /\ prospective_count' = prospective_count - 1
    /\ \/ late' = late \cup {t}
       \/ timer[t] = "ACTIVE" /\ UNCHANGED late
    /\ timer' = [timer EXCEPT ![t] = IF @ = "ACTIVE" THEN "SIGNALLED" ELSE "INACTIVE"]
    /\ UNCHANGED <<count, lock, wait_queue, waiting, op, calls, onTimer, firing, acquired, given>>

\* The timer interrupt: an expired timer is signalled, then its waiter woken.
TimerSignal(t) ==
    /\ timer[t] = "ACTIVE"
    /\ timer' = [timer EXCEPT ![t] = "SIGNALLED"]
    /\ firing' = firing \cup {t}
    /\ UNCHANGED <<count, prospective_count, lock, wait_queue, waiting, pc, op, calls, onTimer,
                   late, acquired, given>>

TimerWake(t) ==
    /\ t \in firing
    /\ firing' = firing \ {t}
    /\ onTimer' = onTimer \ {t}
    /\ waiting' = IF t \in onTimer THEN waiting \ {t} ELSE waiting
    /\ UNCHANGED <<count, prospective_count, lock, wait_queue, pc, op, calls, timer, late,
                   acquired, given>>

-----------------------------------------------------------------------------

Timed(t) ==
    \/ TimedTry(t) \/ TimedArm(t) \/ TimedProspect(t) \/ TimedSleep(t)
    \/ TimedRemove(t) \/ TimedCancel(t)

Step(t) ==
    /\ \/ nk_semaphore_up(t) \/ WakeOne(t) \/ TryLockFails(t)
       \/ nk_semaphore_try_down(t) \/ nk_semaphore_down(t)
       \/ DownEnqueue(t) \/ DownPass(t) \/ DownReturn(t) \/ Timed(t)
    /\ UNCHANGED ops

Timer(t) == (TimerSignal(t) \/ TimerWake(t)) /\ UNCHANGED ops

Next == \E t \in Threads : Call(t) \/ Step(t) \/ Timer(t)

Spec == Init /\ [][Next]_vars

\* Threads keep running and the timer interrupt keeps coming.
Fairness == \A t \in Threads : WF_vars(Step(t)) /\ WF_vars(Timer(t))

FairSpec == Spec /\ Fairness

-----------------------------------------------------------------------------
(* Properties *)

\* The types of the semaphore, the wait queues, the timers and the callers.  The
\* count is never more below zero than there are threads to wait in down.
TypeOK ==
    /\ count \in Int /\ count >= -Cardinality(Threads) /\ prospective_count \in Nat
    /\ lock \in Threads \cup {Nobody}
    /\ wait_queue \in Seq(Threads)
    /\ waiting \subseteq Threads
    /\ timer \in [Threads -> {"INACTIVE", "ACTIVE", "SIGNALLED"}]
    /\ onTimer \subseteq Threads /\ firing \subseteq Threads /\ late \subseteq Threads
    /\ acquired \in Nat /\ given \in Nat

\* No more units are taken than there were, plus those put back: what a thread
\* back from the wait queue in down relies on when it does not look again.
NoOverAdmission == acquired <= InitCount + given

Untimed == \A t \in Threads : "down_timeout" \notin ops[t]

Sleepers == {t \in Threads : pc[t] \in {"enqueue", "pass", "asleep"}}
Waking == {t \in Threads : pc[t] = "wake"}

\* The comment on count, "count <0 => -count waiters exist": if nobody waits with
\* a timeout, the threads inside down that have not been woken are those the
\* count knows of and those a waker is about to wake.  Nor does a waker find a
\* thread of down that has not yet gone through its scheduling pass, though the
\* wait queue's lock does not prevent it.  (All state has its type.)
CountKnowsWaiters ==
    /\ TypeOK
    /\ \A t \in Threads : pc[t] = "pass" => t \in waiting
    /\ Untimed => Cardinality({t \in Sleepers : pc[t] = "enqueue" \/ t \in waiting}) =
                      Cardinality(Waking) + (IF count < 0 THEN -count ELSE 0)

\* No thread stays asleep in down once the count says that nobody waits and no
\* waker is on its way: its unit was handed over.
NoStrandedDown ==
    count >= 0 /\ Waking = {} => \A t \in Threads : pc[t] = "asleep" => t \notin waiting

\* The threads awake inside down_timeout: they will look at the count again.
Looking == {t \in Threads : pc[t] \in {"down_timeout", "arm", "prospect", "sleep", "timed", "cancel"}}
               \ waiting

\* "count>0 => normal operation (down will not wait)": no thread is asleep in a
\* timed down while there are units, nobody is about to wake it and nobody is
\* on the way to take them.
NoIdleUnit ==
    count > 0 /\ Waking = {} /\ Looking = {}
        => \A t \in Threads : pc[t] = "timed" => t \notin waiting

\* A thread in down returns once the count says that its unit is there, and
\* down_timeout always returns: a wake-up or the timer gets it out.
WaitsReturn ==
    \A t \in Threads :
        /\ (pc[t] = "asleep" /\ count >= 0) ~> (pc[t] = "idle")
        /\ (pc[t] = "down_timeout") ~> (pc[t] = "idle")
=============================================================================
