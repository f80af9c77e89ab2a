------------------------------ MODULE MsgQueue ------------------------------
(***************************************************************************)
(* Message queues (src/nautilus/msg_queue.c): a ring of queue_size slots   *)
(* under a lock, with one wait queue for pushers and one for pullers.      *)
(*                                                                         *)
(* push and pull are the two sides of one algorithm: an attempt under the  *)
(* lock; if it succeeds a waiter of the other side is woken after the lock *)
(* is dropped, otherwise the thread sleeps and tries again.  The timed     *)
(* forms sleep on their timer's queue as well.                             *)
(***************************************************************************)
EXTENDS Integers, Sequences, FiniteSetsExt, WaitQueue

CONSTANTS Threads,
          queue_size,
          Workloads,    \* the operations each thread uses, in each use of the queue
          MaxCalls,     \* how many calls each thread makes
          Nobody

Sides == {"push", "pull"}
Kinds == {"try", "plain", "timeout"}

ASSUME MsgQueueAssumption ==
    /\ IsFiniteSet(Threads)
    /\ queue_size \in Nat \ {0} /\ MaxCalls \in Nat
    /\ Workloads \subseteq [Threads -> SUBSET (Sides \X Kinds)]
    /\ Nobody \notin Threads

VARIABLES msgs, cur_count, cur_push, cur_pull, lock,
          wait_queue,  \* per side: push_wait_queue and pull_wait_queue
          waiting,     \* the threads with status NK_THR_WAITING
          ops,         \* the workload
          pc, op, calls,
          timer, onTimer, firing, late,   \* as in Semaphore
          pulled       \* history: the messages pulled, in order

ringVars == <<msgs, cur_count, cur_push, cur_pull, pulled>>
timerVars == <<timer, onTimer, firing, late>>
vars == <<msgs, cur_count, cur_push, cur_pull, pulled, lock, wait_queue, waiting, ops, pc, op, calls,
          timer, onTimer, firing, late>>

\* A message says who pushed it and in which call.
Messages == Threads \X (1..MaxCalls)
Empty == <<Nobody, 0>>

Init ==
    /\ msgs = [i \in 0..queue_size - 1 |-> Empty]
    /\ cur_count = 0 /\ cur_push = 0 /\ cur_pull = 0 /\ pulled = <<>>
    /\ lock = Nobody /\ waiting = {}
    /\ wait_queue = [s \in Sides |-> <<>>]
    /\ ops \in Workloads
    /\ pc = [t \in Threads |-> "idle"]
    /\ op = [t \in Threads |-> <<"push", "try">>]
    /\ calls = [t \in Threads |-> 0]
    /\ timer = [t \in Threads |-> "INACTIVE"]
    /\ onTimer = {} /\ firing = {} /\ late = {}

Side(t) == op[t][1]
Kind(t) == op[t][2]
Other(s) == IF s = "push" THEN "pull" ELSE "push"
Goto(t, from, to) == pc[t] = from /\ pc' = [pc EXCEPT ![t] = to]

Call(t) ==
    /\ calls[t] < MaxCalls
    /\ Goto(t, "idle", "attempt")
    /\ \E o \in ops[t] : op' = [op EXCEPT ![t] = o]
    /\ calls' = [calls EXCEPT ![t] = @ + 1]
    /\ UNCHANGED <<ringVars, lock, wait_queue, waiting, ops, timerVars>>

-----------------------------------------------------------------------------
(* The ring *)

nk_msg_queue_full == cur_count = queue_size
nk_msg_queue_empty == cur_count = 0

\* Mutant: the slot is that of the number of messages.
_nk_msg_queue_try_push_AtCount(m) ==
    /\ msgs' = [msgs EXCEPT ![cur_count % queue_size] = m]
    /\ cur_push' = cur_push + 1
    /\ cur_count' = cur_count + 1
    /\ UNCHANGED <<cur_pull, pulled>>

_nk_msg_queue_try_push(m) ==
    /\ msgs' = [msgs EXCEPT ![cur_push % queue_size] = m]
    /\ cur_push' = cur_push + 1
    /\ cur_count' = cur_count + 1
    /\ UNCHANGED <<cur_pull, pulled>>

_nk_msg_queue_try_pull ==
    /\ pulled' = Append(pulled, msgs[cur_pull % queue_size])
    /\ cur_pull' = cur_pull + 1
    /\ cur_count' = cur_count - 1
    /\ UNCHANGED <<msgs, cur_push>>

\* The two conditions of the attempts.
Possible(s) == IF s = "push" THEN cur_count < queue_size ELSE cur_count > 0

-----------------------------------------------------------------------------
(* The operations *)

\* Where a thread goes after its attempt: the timed forms return without waking
\* anybody, try gives up, and the others sleep with the lock held.
AfterSuccess == [try |-> "wake", plain |-> "wake", timeout |-> "idle"]
AfterFailure == [try |-> "idle", plain |-> "enqueue", timeout |-> "arm"]

\* The attempt under the lock, by push, pull, try_push and try_pull and, before
\* the deadline, by the timed forms.
Attempt(t) ==
    /\ lock = Nobody /\ t \notin late
    /\ IF Possible(Side(t))
       THEN /\ Goto(t, "attempt", AfterSuccess[Kind(t)])
            /\ IF Side(t) = "push" THEN _nk_msg_queue_try_push(<<t, calls[t]>>)
                                   ELSE _nk_msg_queue_try_pull
            /\ UNCHANGED lock
       ELSE /\ Goto(t, "attempt", AfterFailure[Kind(t)])
            /\ lock' = IF Kind(t) = "plain" THEN t ELSE Nobody
            /\ UNCHANGED ringVars
    /\ UNCHANGED <<wait_queue, waiting, op, calls, timerVars>>

\* try_push and try_pull return an error if the lock is taken.
TryLockFails(t) ==
    /\ Kind(t) = "try" /\ lock # Nobody
    /\ Goto(t, "attempt", "idle")
    /\ UNCHANGED <<ringVars, lock, wait_queue, waiting, op, calls, timerVars>>

Wake(t, side) ==
    LET q == wait_queue[side]
    IN  /\ Goto(t, "wake", "idle")
        /\ wait_queue' = [wait_queue EXCEPT ![side] = IF q = <<>> THEN q ELSE Tail(q)]
        /\ waiting' = IF q = <<>> THEN waiting ELSE waiting \ {Head(q)}
        /\ UNCHANGED <<ringVars, lock, op, calls, timerVars>>

\* Mutant: wakes its own side.
WakeOther_Own(t) == Wake(t, Side(t))

\* nk_wait_queue_wake_one on the other side's queue, without the lock.
WakeOther(t) == Wake(t, Other(Side(t)))

\* nk_wait_queue_enqueue takes and releases the wait queue's lock.
Enqueue(t) ==
    /\ Goto(t, "enqueue", "pass")
    /\ waiting' = waiting \cup {t}
    /\ wait_queue' = [wait_queue EXCEPT ![Side(t)] = Append(@, t)]
    /\ UNCHANGED <<ringVars, lock, op, calls, timerVars>>

\* nk_sched_sleep(&q->lock): the pass, then the lock is released.
Pass(t) ==
    /\ Goto(t, "pass", "asleep")
    /\ lock' = Nobody
    /\ UNCHANGED <<ringVars, wait_queue, waiting, op, calls, timerVars>>

\* "now we are awake, so try again"
Retry(t) ==
    /\ t \notin waiting
    /\ Goto(t, "asleep", "attempt")
    /\ UNCHANGED <<ringVars, lock, wait_queue, waiting, op, calls, timerVars>>

-----------------------------------------------------------------------------
(* The timed forms *)

TimedOut(t) ==
    /\ t \in late
    /\ Goto(t, "attempt", "idle")
    /\ late' = late \ {t}
    /\ UNCHANGED <<ringVars, lock, wait_queue, waiting, op, calls, timer, onTimer, firing>>

\* nk_timer_set and nk_timer_start.
TimedArm(t) ==
    /\ Goto(t, "arm", "sleep")
    /\ timer' = [timer EXCEPT ![t] = "ACTIVE"]
    /\ UNCHANGED <<ringVars, lock, wait_queue, waiting, op, calls, onTimer, firing, late>>

SleepMultiple(t, ready) ==
    /\ IF ready
       THEN /\ Goto(t, "sleep", "cancel")
            /\ UNCHANGED <<waiting, wait_queue, onTimer>>
       ELSE /\ Goto(t, "sleep", "timed")
            /\ waiting' = waiting \cup {t}
            /\ wait_queue' = [wait_queue EXCEPT ![Side(t)] = Append(@, t)]
            /\ onTimer' = onTimer \cup {t}
    /\ UNCHANGED <<ringVars, lock, op, calls, timer, firing, late>>

\* check_queue, with the wait queues' locks but not the message queue's.
check_queue(s) == IF s = "pull" THEN ~nk_msg_queue_empty ELSE ~nk_msg_queue_full

\* Mutant: the timer is not checked before the thread sleeps.
TimedSleep_NoTimer(t) == SleepMultiple(t, check_queue(Side(t)))

\* nk_wait_queue_sleep_extended_multiple with check_queue and check_timer.
TimedSleep(t) == SleepMultiple(t, check_queue(Side(t)) \/ timer[t] = "SIGNALLED")

\* Awake again: off both queues.
TimedRemove(t) ==
    /\ t \notin waiting
    /\ Goto(t, "timed", "cancel")
    /\ wait_queue' = [wait_queue EXCEPT ![Side(t)] = Without(@, t)]
    /\ onTimer' = onTimer \ {t}
    /\ UNCHANGED <<ringVars, lock, waiting, op, calls, timer, firing, late>>

\* nk_timer_cancel, then the clock is read again: it is past the deadline if
\* the timer has gone off, and may be if it has not yet.
TimedCancel(t) ==
    /\ Goto(t, "cancel", "attempt")
    /\ \/ late' = late \cup {t}
       \/ timer[t] = "ACTIVE" /\ UNCHANGED late
    /\ timer' = [timer EXCEPT ![t] = IF @ = "ACTIVE" THEN "SIGNALLED" ELSE "INACTIVE"]
    /\ UNCHANGED <<ringVars, lock, wait_queue, waiting, op, calls, onTimer, firing>>

\* The timer interrupt: an expired timer is signalled, then its waiter woken.
TimerSignal(t) ==
    /\ timer[t] = "ACTIVE"
    /\ timer' = [timer EXCEPT ![t] = "SIGNALLED"]
    /\ firing' = firing \cup {t}
    /\ UNCHANGED <<ringVars, lock, wait_queue, waiting, pc, op, calls, onTimer, late>>

TimerWake(t) ==
    /\ t \in firing
    /\ firing' = firing \ {t}
    /\ onTimer' = onTimer \ {t}
    /\ waiting' = IF t \in onTimer THEN waiting \ {t} ELSE waiting
    /\ UNCHANGED <<ringVars, lock, wait_queue, pc, op, calls, timer, late>>

-----------------------------------------------------------------------------

Step(t) ==
    /\ \/ Attempt(t) \/ TryLockFails(t) \/ WakeOther(t)
       \/ Enqueue(t) \/ Pass(t) \/ Retry(t)
       \/ TimedOut(t) \/ TimedArm(t) \/ TimedSleep(t) \/ TimedRemove(t) \/ TimedCancel(t)
    /\ UNCHANGED ops

Timer(t) == (TimerSignal(t) \/ TimerWake(t)) /\ UNCHANGED ops

Next == \E t \in Threads : Call(t) \/ Step(t) \/ Timer(t)

Spec == Init /\ [][Next]_vars

\* Threads keep running and the timer interrupt keeps coming.
Fairness == \A t \in Threads : WF_vars(Step(t)) /\ WF_vars(Timer(t))

FairSpec == Spec /\ Fairness

-----------------------------------------------------------------------------
(* Properties *)

\* The types of the ring, the wait queues and the callers; the count is always
\* the distance between the two indices.
TypeOK ==
    /\ msgs \in [0..queue_size - 1 -> Messages \cup {Empty}]
    /\ cur_count \in 0..queue_size
    /\ cur_push \in Nat /\ cur_pull \in Nat /\ cur_push = cur_pull + cur_count
    /\ lock \in Threads \cup {Nobody}
    /\ wait_queue \in [Sides -> Seq(Threads)]
    /\ waiting \subseteq Threads /\ onTimer \subseteq Threads
    /\ firing \subseteq Threads /\ late \subseteq Threads

\* The ring as a queue: its messages from cur_pull on.
Fifo == INSTANCE BoundedFifo WITH
            Size <- queue_size,
            fifo <- [i \in 1..cur_count |-> msgs[(cur_pull + i - 1) % queue_size]],
            taken <- pulled

\* The ring implements a bounded FIFO queue: no message is lost, duplicated,
\* overwritten or overtaken, whoever pushes and pulls.
ImplementsFifo == Fifo!Spec

\* Some thread is awake and will try side s, or is about to wake somebody of
\* side s.
Stirring(s) ==
    \E t \in Threads :
        \/ pc[t] = "wake" /\ Side(t) = Other(s)
        \/ pc[t] \notin {"wake", "idle"} /\ Side(t) = s /\ t \notin waiting

Untimed == \A t \in Threads, s \in Sides : <<s, "timeout">> \notin ops[t]

\* "we may need to wake up someone trying to push" (or pull): as long as the timed
\* forms, which wake nobody, are not used, nobody sleeps on a side that could
\* proceed unless somebody is on the way.  (All state has its type.)
NobodyForgotten ==
    /\ TypeOK
    /\ Untimed => \A t \in Threads :
           pc[t] = "asleep" /\ t \in waiting /\ Possible(Side(t)) => Stirring(Side(t))

\* The timed forms always return; and as long as they are not used, a sleeper
\* whose operation stays possible returns from its sleep.
WaitsReturn ==
    \A t \in Threads :
        /\ (pc[t] = "attempt" /\ Kind(t) = "timeout") ~> (pc[t] = "idle")
        /\ Untimed => (pc[t] = "asleep" /\ Possible(Side(t)))
                          ~> (pc[t] # "asleep" \/ ~Possible(Side(t)))
=============================================================================
