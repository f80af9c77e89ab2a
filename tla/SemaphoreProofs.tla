-------------------------- MODULE SemaphoreProofs --------------------------
(***************************************************************************)
(* Proofs about the semaphore, for any finite set of threads, any initial  *)
(* count and any number of calls.  nk_semaphore_down does not look at the  *)
(* count again when it is woken, so that it is right depends on who may be *)
(* woken: the inductive invariant says which threads the count and the     *)
(* wakers on their way account for.                                        *)
(***************************************************************************)
EXTENDS Semaphore, FiniteSetTheorems, TLAPS

Places == {"idle", "up", "try_up", "down", "try_down", "down_timeout", "wake", "enqueue",
           "pass", "asleep", "arm", "prospect", "sleep", "timed", "cancel"}

\* Where the thread can be, by the operations it uses.
Within(t) ==
    /\ pc[t] \in {"down", "enqueue", "pass", "asleep"} => "down" \in ops[t]
    /\ pc[t] \in {"down_timeout", "arm", "prospect", "sleep", "timed", "cancel"}
           => "down_timeout" \in ops[t]

Placed ==
    /\ pc \in [Threads -> Places]
    /\ ops \in Workloads
    /\ \A t \in Threads : Within(t)

\* Whoever is inside down has been counted and has not yet got its unit.
Balanced ==
    /\ count \in Int /\ acquired \in Nat /\ given \in Nat
    /\ count = InitCount + given - acquired - Cardinality(Sleepers)

\* The threads inside down that nobody has woken.
Unwoken == {t \in Sleepers : pc[t] = "enqueue" \/ t \in waiting}

\* Nothing of down_timeout is in use.
NothingTimed ==
    /\ prospective_count = 0 /\ onTimer = {} /\ firing = {} /\ late = {}
    /\ timer = [t \in Threads |-> "INACTIVE"]

\* The lock protects the count until the thread is asleep, and it is asleep last
\* in the queue: the wakers find the others first.
Locked ==
    /\ lock \in Threads \cup {Nobody}
    /\ \A t \in Threads : pc[t] \in {"enqueue", "pass"} => lock = t /\ count < 0

\* The wait queue holds the threads that wait, each of them once.
Queued ==
    /\ wait_queue \in Seq(Threads)
    /\ waiting \subseteq Threads
    /\ \A t \in Threads : t \in waiting => pc[t] \in {"pass", "asleep"}
    /\ \A t \in Threads : pc[t] = "pass" => /\ t \in waiting
                                            /\ t = wait_queue[Len(wait_queue)]
    /\ \A i \in 1 .. Len(wait_queue) : wait_queue[i] \in waiting
    /\ \A t \in waiting : \E i \in 1 .. Len(wait_queue) : wait_queue[i] = t
    /\ \A i, j \in 1 .. Len(wait_queue) : wait_queue[i] = wait_queue[j] => i = j

\* Every thread to be woken is known to the count or to a waker.
Known == Cardinality(Unwoken) = Cardinality(Waking) + (IF count < 0 THEN -count ELSE 0)

UntimedInv == NothingTimed /\ Locked /\ Queued /\ Known

\* Nobody waits in down.
Undowned == \A t \in Threads : "down" \notin ops[t]
UndownedInv == count >= 0

Inv == Placed /\ Balanced /\ (Untimed => UntimedInv) /\ (Undowned => UndownedInv)
-----------------------------------------------------------------------------
USE ZenonT(30)

\* What the proofs need to know about the number of threads in a set.
LEMMA CardinalityFacts ==
    ASSUME NEW S \in SUBSET Threads
    PROVE  /\ Cardinality(S) \in Nat
           /\ Cardinality(S) <= Cardinality(Threads) /\ Cardinality(Threads) \in Nat
           /\ Cardinality(S) = 0 <=> S = {}
           /\ \A t \in Threads \ S : Cardinality(S \cup {t}) = Cardinality(S) + 1
           /\ \A t \in S : Cardinality(S \ {t}) = Cardinality(S) - 1
<1>1. IsFiniteSet(Threads)
    BY SMTT(30), SemaphoreAssumption
<1>2. IsFiniteSet(S) /\ Cardinality(S) <= Cardinality(Threads)
    BY <1>1, FS_Subset
<1> QED
    BY <1>1, <1>2, FS_CardinalityType, FS_EmptySet, FS_AddElement, FS_RemoveElement

\* The invariant holds initially.
LEMMA InitInv == Init => Inv
<1> SUFFICES ASSUME Init PROVE Inv
    OBVIOUS
<1>1. Sleepers = {} /\ Waking = {} /\ Unwoken = {}
    BY DEF Init, Sleepers, Waking, Unwoken
<1>2. Cardinality({}) = 0
    BY FS_EmptySet
<1>3. Placed /\ Balanced
    BY SMTT(30), <1>1, <1>2, SemaphoreAssumption DEF Init, Placed, Within, Balanced, Places
<1>4. UntimedInv
    BY SMTT(30), <1>1, <1>2, SemaphoreAssumption
    DEF Init, UntimedInv, NothingTimed, Locked, Queued, Known
<1>5. UndownedInv
    BY SMTT(30), <1>1, SemaphoreAssumption DEF Init, UndownedInv
<1> QED BY <1>3, <1>4, <1>5 DEF Inv

-----------------------------------------------------------------------------
(* Where the threads are *)

\* A thread goes on from one place to the next.
LEMMA MovePlaced ==
    ASSUME Placed, NEW t \in Threads, UNCHANGED ops, NEW p \in Places,
           pc' = [pc EXCEPT ![t] = p],
           p \in {"down", "enqueue", "pass", "asleep"} => "down" \in ops[t],
           p \in {"down_timeout", "arm", "prospect", "sleep", "timed", "cancel"}
               => "down_timeout" \in ops[t]
    PROVE  Placed'
BY DEF Placed, Within

LEMMA CallPlaced ==
    ASSUME Placed, NEW t \in Threads, Call(t)
    PROVE  Placed'
<1>1. PICK o \in ops[t] : pc' = [pc EXCEPT ![t] = o] /\ UNCHANGED ops
    BY DEF Call, Goto
<1>2. o \in {"up", "try_up", "down", "try_down", "down_timeout"}
    BY SemaphoreAssumption DEF Placed
<1> QED BY <1>1, <1>2, MovePlaced DEF Places

LEMMA StepPlaced ==
    ASSUME Placed, [Next]_vars
    PROVE  Placed'
<1>1. CASE UNCHANGED vars
    BY SMTT(30), <1>1 DEF vars, Placed, Within
<1>2. ASSUME NEW t \in Threads, Step(t) PROVE Placed'
    <2>1. UNCHANGED ops /\ Within(t)
        BY <1>2 DEF Step, Placed
    <2>2. CASE nk_semaphore_up(t) \/ WakeOne(t) \/ TryLockFails(t) \/ nk_semaphore_try_down(t)
        BY <2>1, <2>2, MovePlaced
        DEF nk_semaphore_up, Up, WakeOne, TryLockFails, nk_semaphore_try_down, Goto, Places
    <2>3. CASE nk_semaphore_down(t) \/ DownEnqueue(t) \/ DownPass(t) \/ DownReturn(t)
        BY <2>1, <2>3, MovePlaced
        DEF nk_semaphore_down, Down, DownEnqueue, DownPass, DownReturn, Goto, Places, Within
    <2>4. CASE Timed(t)
        <3>1. CASE TimedTry(t) \/ TimedArm(t) \/ TimedProspect(t)
            BY <2>1, <3>1, MovePlaced
            DEF TimedTry, TimedArm, TimedProspect, Goto, Places, Within
        <3>2. CASE TimedSleep(t) \/ TimedRemove(t) \/ TimedCancel(t)
            BY <2>1, <3>2, MovePlaced
            DEF TimedSleep, SleepMultiple, TimedRemove, TimedCancel, Goto, Places, Within
        <3> QED BY <2>4, <3>1, <3>2 DEF Timed
    <2> QED BY <1>2, <2>2, <2>3, <2>4 DEF Step
<1>3. ASSUME NEW t \in Threads, Timer(t) PROVE Placed'
    BY <1>3 DEF Timer, TimerSignal, TimerWake, Placed, Within
<1> QED BY <1>1, <1>2, <1>3, CallPlaced DEF Next

-----------------------------------------------------------------------------
(* The balance of units, whatever the workload *)

\* A step of thread t that neither enters nor leaves down and moves no unit.
Quiet(t) ==
    /\ \E p \in Places :
           /\ pc' = [pc EXCEPT ![t] = p]
           /\ pc[t] \in {"enqueue", "pass", "asleep"} <=> p \in {"enqueue", "pass", "asleep"}
    /\ UNCHANGED <<count, acquired, given, ops>>

LEMMA QuietBalanced ==
    ASSUME Placed, Balanced, NEW t \in Threads, Quiet(t)
    PROVE  Balanced' /\ Sleepers' = Sleepers
<1>1. Sleepers' = Sleepers
    BY DEF Placed, Quiet, Sleepers
<1> QED BY <1>1 DEF Balanced, Quiet

\* Which steps are quiet.
LEMMA QuietSteps ==
    ASSUME Placed, Balanced, NEW t \in Threads,
           \/ Call(t)
           \/ /\ UNCHANGED ops
              /\ \/ WakeOne(t) \/ TryLockFails(t) \/ DownEnqueue(t) \/ DownPass(t)
                 \/ TimedArm(t) \/ TimedProspect(t) \/ TimedSleep(t)
                 \/ TimedRemove(t) \/ TimedCancel(t)
           \/ Timer(t)
    PROVE  Quiet(t)
<1>1. CASE Call(t)
    <2>1. ops[t] \subseteq Places \ {"enqueue", "pass", "asleep"}
        BY SemaphoreAssumption DEF Placed, Places
    <2> QED BY <1>1, <2>1 DEF Call, Quiet, Goto
<1>2. CASE UNCHANGED ops /\ (WakeOne(t) \/ TryLockFails(t))
    BY <1>2 DEF WakeOne, TryLockFails, Quiet, Goto, Places
<1>3. CASE UNCHANGED ops /\ (DownEnqueue(t) \/ DownPass(t))
    BY <1>3 DEF DownEnqueue, DownPass, Quiet, Goto, Places
<1>4. CASE UNCHANGED ops /\ (TimedArm(t) \/ TimedProspect(t) \/ TimedCancel(t))
    BY <1>4 DEF TimedArm, TimedProspect, TimedCancel, Quiet, Goto, Places
<1>5. CASE UNCHANGED ops /\ (TimedSleep(t) \/ TimedRemove(t))
    BY <1>5 DEF TimedSleep, SleepMultiple, TimedRemove, Quiet, Goto, Places
<1>6. CASE Timer(t)
    <2>1. pc' = pc /\ UNCHANGED <<count, acquired, given, ops>>
        BY <1>6 DEF Timer, TimerSignal, TimerWake
    <2>2. pc' = [pc EXCEPT ![t] = pc[t]] /\ pc[t] \in Places
        BY <2>1 DEF Placed
    <2> QED BY <2>1, <2>2 DEF Quiet
<1> QED BY <1>1, <1>2, <1>3, <1>4, <1>5, <1>6

\* The steps that move a unit or enter or leave down.
LEMMA UnitSteps ==
    ASSUME Placed, Balanced, NEW t \in Threads, UNCHANGED ops,
           \/ nk_semaphore_up(t) \/ nk_semaphore_try_down(t) \/ nk_semaphore_down(t)
           \/ DownReturn(t) \/ TimedTry(t)
    PROVE  /\ Balanced'
           /\ Sleepers' = IF pc'[t] = "enqueue" THEN Sleepers \cup {t} ELSE Sleepers \ {t}
<1> DEFINE n == Cardinality(Sleepers)
<1>1. /\ n \in Nat
      /\ t \notin Sleepers => Cardinality(Sleepers \cup {t}) = n + 1
      /\ t \in Sleepers => Cardinality(Sleepers \ {t}) = n - 1
    BY CardinalityFacts DEF Sleepers
<1>2. CASE nk_semaphore_up(t)
    <2>1. Sleepers' = Sleepers /\ t \notin Sleepers /\ pc'[t] # "enqueue"
        BY <1>2 DEF nk_semaphore_up, Up, Goto, Sleepers, Placed
    <2> QED BY SMTT(30), <1>1, <1>2, <2>1, SemaphoreAssumption DEF nk_semaphore_up, Up, Balanced
<1>3. CASE nk_semaphore_try_down(t)
    <2>1. Sleepers' = Sleepers /\ t \notin Sleepers /\ pc'[t] # "enqueue"
        BY <1>3 DEF nk_semaphore_try_down, Goto, Sleepers, Placed
    <2> QED BY SMTT(30), <1>1, <1>3, <2>1, SemaphoreAssumption DEF nk_semaphore_try_down, Balanced
<1>4. CASE nk_semaphore_down(t)
    <2>1. /\ t \notin Sleepers
          /\ pc'[t] = IF count > 0 THEN "idle" ELSE "enqueue"
          /\ Sleepers' = IF count > 0 THEN Sleepers ELSE Sleepers \cup {t}
        BY <1>4 DEF nk_semaphore_down, Down, Goto, Sleepers, Placed
    <2>2. /\ count' = count - 1 /\ given' = given
          /\ acquired' = IF count > 0 THEN acquired + 1 ELSE acquired
        BY <1>4 DEF nk_semaphore_down, Down
    <2>3. CASE count > 0
        BY SMTT(30), <1>1, <2>1, <2>2, <2>3, SemaphoreAssumption DEF Balanced
    <2>4. CASE ~(count > 0)
        BY SMTT(30), <1>1, <2>1, <2>2, <2>4, SemaphoreAssumption DEF Balanced
    <2> QED BY <2>3, <2>4
<1>5. CASE DownReturn(t)
    <2>1. Sleepers' = Sleepers \ {t} /\ t \in Sleepers /\ pc'[t] # "enqueue"
        BY <1>5 DEF DownReturn, Goto, Sleepers, Placed
    <2> QED BY SMTT(30), <1>1, <1>5, <2>1, SemaphoreAssumption DEF DownReturn, Balanced
<1>6. CASE TimedTry(t)
    <2>1. Sleepers' = Sleepers /\ t \notin Sleepers /\ pc'[t] # "enqueue"
        BY <1>6 DEF TimedTry, Goto, Sleepers, Placed
    <2> QED BY SMTT(30), <1>1, <1>6, <2>1, SemaphoreAssumption DEF TimedTry, Balanced, timerVars
<1> QED BY <1>2, <1>3, <1>4, <1>5, <1>6

\* Units are balanced after every step.
LEMMA StepBalanced ==
    ASSUME Placed, Balanced, [Next]_vars
    PROVE  Balanced'
<1>1. CASE UNCHANGED vars
    BY <1>1 DEF vars, Balanced, Sleepers
<1>2. ASSUME NEW t \in Threads, Call(t) \/ Step(t) \/ Timer(t)
      PROVE  Balanced'
    BY <1>2, QuietSteps, QuietBalanced, UnitSteps DEF Step, Timed
<1> QED BY <1>1, <1>2 DEF Next

-----------------------------------------------------------------------------
(* Workloads without down *)

LEMMA UndownedStep ==
    ASSUME Placed, Balanced, Undowned => UndownedInv, [Next]_vars
    PROVE  Undowned' => UndownedInv'
<1>1. CASE UNCHANGED vars
    BY SMTT(30), <1>1 DEF vars, Undowned, UndownedInv
<1>2. ASSUME NEW t \in Threads, Call(t) \/ Step(t) \/ Timer(t), Undowned'
      PROVE  UndownedInv'
    <2>1. UNCHANGED ops /\ "down" \notin ops[t] /\ UndownedInv
        BY <1>2 DEF Call, Step, Timer, Undowned
    <2>2. ASSUME Quiet(t) PROVE UndownedInv'
        BY <2>1, <2>2 DEF Quiet, UndownedInv
    <2>3. CASE nk_semaphore_up(t) \/ nk_semaphore_try_down(t)
        BY SMTT(30), <2>1, <2>3 DEF nk_semaphore_up, Up, nk_semaphore_try_down, UndownedInv, Balanced
    <2>4. CASE nk_semaphore_down(t) \/ DownReturn(t)
        BY <2>1, <2>4 DEF nk_semaphore_down, Down, DownReturn, Goto, Placed, Within
    <2>5. CASE TimedTry(t)
        BY SMTT(30), <2>1, <2>5 DEF TimedTry, UndownedInv, Balanced
    <2> QED BY <1>2, <2>1, <2>2, <2>3, <2>4, <2>5, QuietSteps DEF Step, Timed
<1> QED BY <1>1, <1>2 DEF Next
-----------------------------------------------------------------------------
(* Workloads without down_timeout *)

\* A step outside the sleeping part of down.  It changes the count only with the
\* lock free, and only from one nonnegative value to another.
LEMMA OutsideUntimed ==
    ASSUME Placed, Balanced, UntimedInv, NEW t \in Threads, NEW p \in Places,
           pc' = [pc EXCEPT ![t] = p],
           pc[t] \notin {"wake", "enqueue", "pass", "asleep"},
           p \notin {"wake", "enqueue", "pass", "asleep"},
           count' = count \/ (lock = Nobody /\ count >= 0 /\ count' \in Nat),
           UNCHANGED <<prospective_count, lock, wait_queue, waiting, timerVars>>
    PROVE  UntimedInv'
<1>1. Sleepers' = Sleepers /\ Waking' = Waking /\ Unwoken' = Unwoken
    BY DEF Placed, Sleepers, Waking, Unwoken
<1>2. NothingTimed'
    BY DEF UntimedInv, NothingTimed, timerVars
<1>3. Locked'
    BY SemaphoreAssumption DEF Placed, UntimedInv, Locked
<1>4. Queued'
    BY DEF Placed, UntimedInv, Queued
<1>5. Known'
    BY SMTT(30), <1>1 DEF UntimedInv, Known, Balanced
<1> QED BY <1>2, <1>3, <1>4, <1>5 DEF UntimedInv

\* An up that has seen a waiter will wake one more thread.
LEMMA UpUntimed ==
    ASSUME Placed, Balanced, UntimedInv, NEW t \in Threads, nk_semaphore_up(t)
    PROVE  UntimedInv'
<1>1. /\ lock = Nobody /\ count' = count + 1 /\ pc[t] \in {"up", "try_up"}
      /\ pc' = [pc EXCEPT ![t] = IF count < 0 THEN "wake" ELSE "idle"]
      /\ UNCHANGED <<prospective_count, lock, wait_queue, waiting, timerVars>>
    BY SMTT(30) DEF nk_semaphore_up, Up, Goto, UntimedInv, NothingTimed
<1>2. CASE ~(count < 0)
    <2>1. /\ "idle" \in Places /\ pc' = [pc EXCEPT ![t] = "idle"]
          /\ lock = Nobody /\ count >= 0 /\ count' \in Nat
        BY SMTT(30), <1>1, <1>2 DEF Places, Balanced
    <2>2. UNCHANGED <<prospective_count, lock, wait_queue, waiting, timerVars>>
        BY <1>1, <1>2
    <2> QED BY <1>1, <2>1, <2>2, OutsideUntimed
<1>3. CASE count < 0
    <2>1. /\ Unwoken' = Unwoken /\ Waking' = Waking \cup {t} /\ t \notin Waking
        BY <1>1, <1>3 DEF Placed, Sleepers, Waking, Unwoken
    <2>2. Cardinality(Waking') = Cardinality(Waking) + 1 /\ Cardinality(Waking) \in Nat
        BY <2>1, CardinalityFacts DEF Waking
    <2>3. NothingTimed'
        BY <1>1 DEF UntimedInv, NothingTimed, timerVars
    <2>4. Locked'
        BY <1>1, SemaphoreAssumption DEF Placed, UntimedInv, Locked
    <2>5. Queued'
        BY <1>1, <1>3 DEF Placed, UntimedInv, Queued
    <2>6. Known'
        BY SMTT(30), <1>1, <1>3, <2>1, <2>2 DEF UntimedInv, Known, Balanced
    <2> QED BY <2>3, <2>4, <2>5, <2>6 DEF UntimedInv
<1> QED BY <1>2, <1>3

\* A down that finds no unit is one more thread the count knows of.
LEMMA DownUntimed ==
    ASSUME Placed, Balanced, UntimedInv, NEW t \in Threads, nk_semaphore_down(t)
    PROVE  UntimedInv'
<1>1. /\ lock = Nobody /\ count' = count - 1 /\ pc[t] = "down"
      /\ pc' = [pc EXCEPT ![t] = IF count > 0 THEN "idle" ELSE "enqueue"]
      /\ lock' = IF count > 0 THEN Nobody ELSE t
      /\ UNCHANGED <<prospective_count, wait_queue, waiting, timerVars>>
    BY SMTT(30) DEF nk_semaphore_down, Down, Goto
<1>2. CASE count > 0
    <2>1. /\ "idle" \in Places /\ pc' = [pc EXCEPT ![t] = "idle"]
          /\ lock = Nobody /\ count >= 0 /\ count' \in Nat
        BY SMTT(30), <1>1, <1>2 DEF Places, Balanced
    <2>2. UNCHANGED <<prospective_count, lock, wait_queue, waiting, timerVars>>
        BY <1>1, <1>2
    <2> QED BY <1>1, <2>1, <2>2, OutsideUntimed
<1>3. CASE ~(count > 0)
    <2>1. Unwoken' = Unwoken \cup {t} /\ t \notin Unwoken /\ Waking' = Waking
        BY <1>1, <1>3 DEF Placed, Sleepers, Waking, Unwoken
    <2>2. /\ Cardinality(Unwoken') = Cardinality(Unwoken) + 1
          /\ Cardinality(Unwoken) \in Nat /\ Cardinality(Waking) \in Nat
        BY SMTT(30), <2>1, CardinalityFacts DEF Unwoken, Sleepers, Waking
    <2>3. NothingTimed'
        BY <1>1 DEF UntimedInv, NothingTimed, timerVars
    <2>4. Locked'
        BY SMTT(30), <1>1, <1>3, SemaphoreAssumption DEF Placed, UntimedInv, Locked, Balanced
    <2>5. Queued'
        BY <1>1, <1>3 DEF Placed, UntimedInv, Queued
    <2>6. Known'
        BY SMTT(30), <1>1, <1>3, <2>1, <2>2 DEF UntimedInv, Known, Balanced
    <2> QED BY <2>3, <2>4, <2>5, <2>6 DEF UntimedInv
<1> QED BY <1>2, <1>3

\* The thread goes to the end of the queue.
LEMMA EnqueueUntimed ==
    ASSUME Placed, UntimedInv, NEW t \in Threads, DownEnqueue(t)
    PROVE  UntimedInv'
<1>1. /\ pc[t] = "enqueue" /\ pc' = [pc EXCEPT ![t] = "pass"]
      /\ waiting' = waiting \cup {t} /\ wait_queue' = Append(wait_queue, t)
      /\ UNCHANGED <<count, prospective_count, lock, timerVars>>
    BY DEF DownEnqueue, Goto
<1>2. Unwoken' = Unwoken /\ Waking' = Waking
    BY <1>1 DEF Placed, Sleepers, Waking, Unwoken
<1>3. NothingTimed'
    BY <1>1 DEF UntimedInv, NothingTimed, timerVars
<1>4. Locked'
    BY <1>1 DEF Placed, UntimedInv, Locked
<1>5. Known'
    BY <1>1, <1>2 DEF UntimedInv, Known
<1>6. Queued'
    <2> DEFINE n == Len(wait_queue)
    <2>1. /\ wait_queue \in Seq(Threads) /\ n \in Nat /\ t \notin waiting
          /\ \A i \in 1 .. n : wait_queue[i] # t
        BY SMTT(30), <1>1 DEF UntimedInv, Queued
    <2>2. /\ wait_queue' \in Seq(Threads) /\ Len(wait_queue') = n + 1
          /\ wait_queue'[n + 1] = t
          /\ \A i \in 1 .. n : wait_queue'[i] = wait_queue[i]
        BY SMTT(30), <1>1, <2>1
    <2>3. \A u \in Threads : pc'[u] = "pass" => u = t
        BY <1>1 DEF Placed, UntimedInv, Locked
    <2>4. \A u \in Threads : u \in waiting' => pc'[u] \in {"pass", "asleep"}
        BY <1>1 DEF Placed, UntimedInv, Queued
    <2>5. \A i \in 1 .. n + 1 : i = n + 1 \/ i \in 1 .. n
        BY SMTT(30), <2>1
    <2>6. \A i \in 1 .. n + 1 : wait_queue'[i] \in waiting'
        BY <1>1, <2>1, <2>2, <2>5 DEF UntimedInv, Queued
    <2>7. \A u \in waiting' : \E i \in 1 .. n + 1 : wait_queue'[i] = u
        BY SMTT(30), <1>1, <2>1, <2>2 DEF UntimedInv, Queued
    <2>8. \A i, j \in 1 .. n + 1 : wait_queue'[i] = wait_queue'[j] => i = j
        BY SMTT(30), <2>1, <2>2, <2>5 DEF UntimedInv, Queued
    <2>9. waiting' \subseteq Threads
        BY <1>1 DEF UntimedInv, Queued
    <2> HIDE DEF n
    <2> QED BY <1>1, <2>2, <2>3, <2>4, <2>6, <2>7, <2>8, <2>9 DEF Queued
<1> QED BY <1>3, <1>4, <1>5, <1>6 DEF UntimedInv

\* The thread is asleep and the lock is free.
LEMMA PassUntimed ==
    ASSUME Placed, UntimedInv, NEW t \in Threads, DownPass(t)
    PROVE  UntimedInv'
<1>1. /\ pc[t] = "pass" /\ pc' = [pc EXCEPT ![t] = "asleep"] /\ lock' = Nobody
      /\ UNCHANGED <<count, prospective_count, wait_queue, waiting, timerVars>>
    BY DEF DownPass, Goto
<1>2. Unwoken' = Unwoken /\ Waking' = Waking
    BY <1>1 DEF Placed, Sleepers, Waking, Unwoken
<1>3. NothingTimed'
    BY <1>1 DEF UntimedInv, NothingTimed, timerVars
<1>4. Locked'
    BY <1>1 DEF Placed, UntimedInv, Locked
<1>5. Known'
    BY <1>1, <1>2 DEF UntimedInv, Known
<1>6. Queued'
    BY <1>1 DEF Placed, UntimedInv, Queued
<1> QED BY <1>3, <1>4, <1>5, <1>6 DEF UntimedInv

\* A thread that returns from down had been woken.
LEMMA ReturnUntimed ==
    ASSUME Placed, UntimedInv, NEW t \in Threads, DownReturn(t)
    PROVE  UntimedInv'
<1>1. /\ pc[t] = "asleep" /\ pc' = [pc EXCEPT ![t] = "idle"] /\ t \notin waiting
      /\ UNCHANGED <<count, prospective_count, lock, wait_queue, waiting, timerVars>>
    BY DEF DownReturn, Goto
<1>2. Unwoken' = Unwoken /\ Waking' = Waking
    BY <1>1 DEF Placed, Sleepers, Waking, Unwoken
<1>3. NothingTimed'
    BY <1>1 DEF UntimedInv, NothingTimed, timerVars
<1>4. Locked'
    BY <1>1 DEF Placed, UntimedInv, Locked
<1>5. Known'
    BY <1>1, <1>2 DEF UntimedInv, Known
<1>6. Queued'
    BY <1>1 DEF Placed, UntimedInv, Queued
<1> QED BY <1>3, <1>4, <1>5, <1>6 DEF UntimedInv

\* A waker finds a thread at the head of the queue that is asleep: whoever
\* still has the lock in down came later than a thread the waker was sent for.
LEMMA WakeFindsAsleep ==
    ASSUME Placed, Balanced, UntimedInv, NEW t \in Threads, pc[t] = "wake"
    PROVE  /\ wait_queue # <<>>
           /\ Head(wait_queue) \in waiting /\ pc[Head(wait_queue)] = "asleep"
<1>1. /\ wait_queue \in Seq(Threads) /\ Len(wait_queue) \in Nat
      /\ \A i \in 1 .. Len(wait_queue) : wait_queue[i] \in waiting
      /\ \A u \in waiting : \E i \in 1 .. Len(wait_queue) : wait_queue[i] = u
    BY SMTT(30) DEF UntimedInv, Queued
<1>2. Cardinality(Waking) \in Nat /\ Cardinality(Waking) >= 1
    <2>1. Waking \in SUBSET Threads /\ Waking # {}
        BY DEF Waking
    <2> QED BY SMTT(30), <2>1, CardinalityFacts
<1>3. PICK u \in Unwoken : pc[u] \notin {"enqueue", "pass"}
    <2>1. Unwoken \in SUBSET Threads /\ Cardinality(Unwoken) \in Nat
        BY CardinalityFacts DEF Unwoken, Sleepers
    <2>2. CASE \A v \in Threads : pc[v] \notin {"enqueue", "pass"}
        <3>1. Cardinality(Unwoken) >= 1
            BY SMTT(30), <1>2, <2>1 DEF UntimedInv, Known, Balanced
        <3>2. Unwoken # {}
            BY SMTT(30), <3>1, <2>1, CardinalityFacts
        <3> QED BY <2>1, <2>2, <3>2
    <2>3. ASSUME NEW v \in Threads, pc[v] \in {"enqueue", "pass"}
          PROVE  \E u \in Unwoken : pc[u] \notin {"enqueue", "pass"}
        <3>1. count < 0 /\ \A w \in Threads : pc[w] \in {"enqueue", "pass"} => w = v
            BY <2>3 DEF UntimedInv, Locked
        <3>2. Cardinality(Unwoken) >= 2
            BY SMTT(30), <1>2, <2>1, <3>1 DEF UntimedInv, Known, Balanced
        <3>3. v \in Unwoken
            BY <2>3 DEF UntimedInv, Queued, Unwoken, Sleepers
        <3>4. Cardinality(Unwoken \ {v}) >= 1 /\ Unwoken \ {v} \in SUBSET Threads
            BY SMTT(30), <2>1, <3>2, <3>3, CardinalityFacts
        <3>5. Unwoken \ {v} # {}
            BY SMTT(30), <3>4, CardinalityFacts
        <3> QED BY <2>1, <3>1, <3>5
    <2> QED BY <2>2, <2>3
<1>4. u \in waiting /\ u \in Threads
    BY <1>3 DEF Unwoken, Sleepers
<1>5. PICK k \in 1 .. Len(wait_queue) : wait_queue[k] = u
    BY <1>1, <1>4
<1>6. /\ wait_queue # <<>> /\ Len(wait_queue) >= 1 /\ Head(wait_queue) = wait_queue[1]
      /\ wait_queue[1] \in waiting /\ wait_queue[1] \in Threads
    BY SMTT(30), <1>1, <1>5
<1>7. pc[wait_queue[1]] # "pass"
    <2>1. SUFFICES ASSUME pc[wait_queue[1]] = "pass" PROVE FALSE
        OBVIOUS
    <2>2. wait_queue[1] = wait_queue[Len(wait_queue)]
        BY <1>6, <2>1 DEF UntimedInv, Queued
    <2>3. Len(wait_queue) = 1
        <3>1. 1 \in 1 .. Len(wait_queue) /\ Len(wait_queue) \in 1 .. Len(wait_queue)
            BY SMTT(30), <1>1, <1>6
        <3> QED BY <2>2, <3>1 DEF UntimedInv, Queued
    <2>4. k = 1
        BY SMTT(30), <2>3
    <2> QED BY <1>3, <1>5, <2>1, <2>4
<1> QED BY SMTT(30), <1>6, <1>7 DEF UntimedInv, Queued

\* The waker has done its work, and the thread is no longer unwoken.
LEMMA WakeUntimed ==
    ASSUME Placed, Balanced, UntimedInv, NEW t \in Threads, WakeOne(t)
    PROVE  UntimedInv'
<1> DEFINE h == Head(wait_queue)
<1>1. /\ pc[t] = "wake" /\ pc' = [pc EXCEPT ![t] = "idle"]
      /\ UNCHANGED <<count, prospective_count, lock, timerVars>>
    BY DEF WakeOne, Goto
<1>2. wait_queue # <<>> /\ h \in waiting /\ pc[h] = "asleep"
    BY <1>1, WakeFindsAsleep
<1>3. wait_queue' = Tail(wait_queue) /\ waiting' = waiting \ {h}
    BY <1>2 DEF WakeOne
<1>4. waiting \subseteq Threads /\ h \in Threads /\ h # t
    BY <1>1, <1>2 DEF UntimedInv, Queued
<1>5. /\ Unwoken' = Unwoken \ {h} /\ h \in Unwoken
      /\ Waking' = Waking \ {t} /\ t \in Waking
    BY <1>1, <1>2, <1>3, <1>4 DEF Placed, Sleepers, Waking, Unwoken
<1>6. /\ Cardinality(Unwoken') = Cardinality(Unwoken) - 1 /\ Cardinality(Unwoken) \in Nat
      /\ Cardinality(Waking') = Cardinality(Waking) - 1 /\ Cardinality(Waking) \in Nat
    <2>1. Unwoken \in SUBSET Threads /\ Waking \in SUBSET Threads
        BY DEF Unwoken, Waking, Sleepers
    <2> QED BY <1>5, <2>1, CardinalityFacts
<1>7. NothingTimed'
    BY <1>1 DEF UntimedInv, NothingTimed, timerVars
<1>8. Locked'
    BY <1>1 DEF Placed, UntimedInv, Locked
<1>9. Known'
    BY SMTT(30), <1>1, <1>6 DEF UntimedInv, Known, Balanced
<1>10. Queued'
    <2> DEFINE q == wait_queue
               n == Len(wait_queue)
    <2>1. q \in Seq(Threads) /\ n \in Nat /\ n >= 1 /\ h = q[1]
        BY SMTT(30), <1>2 DEF UntimedInv, Queued
    <2>2. /\ q' \in Seq(Threads) /\ Len(q') = n - 1
          /\ \A i \in 1 .. n - 1 : q'[i] = q[i + 1] /\ i + 1 \in 1 .. n
        BY SMTT(30), <1>2, <1>3, <2>1
    <2>3. \A i \in 1 .. n - 1 : q'[i] \in waiting'
        <3> SUFFICES ASSUME NEW i \in 1 .. n - 1 PROVE q[i + 1] \in waiting \ {q[1]}
            BY <1>3, <2>1, <2>2
        <3>1. i + 1 \in 1 .. n /\ 1 \in 1 .. n /\ i + 1 # 1
            BY SMTT(30), <2>1
        <3> QED BY <3>1 DEF UntimedInv, Queued
    <2>4. \A u \in waiting' : \E i \in 1 .. n - 1 : q'[i] = u
        <3> SUFFICES ASSUME NEW u \in waiting, u # q[1]
                     PROVE  \E i \in 1 .. n - 1 : q'[i] = u
            BY <1>3, <2>1
        <3>1. PICK k \in 1 .. n : q[k] = u
            BY DEF UntimedInv, Queued
        <3>2. k - 1 \in 1 .. n - 1 /\ (k - 1) + 1 = k
            BY SMTT(30), <2>1, <3>1
        <3> QED BY <2>2, <3>1, <3>2
    <2>5. \A i, j \in 1 .. n - 1 : q'[i] = q'[j] => i = j
        <3> SUFFICES ASSUME NEW i \in 1 .. n - 1, NEW j \in 1 .. n - 1, q[i + 1] = q[j + 1]
                     PROVE  i = j
            BY <2>2
        <3>1. i + 1 \in 1 .. n /\ j + 1 \in 1 .. n
            BY SMTT(30), <2>1
        <3>2. i + 1 = j + 1
            BY <3>1 DEF UntimedInv, Queued
        <3> QED BY SMTT(30), <2>1, <3>2
    <2>6. ASSUME NEW u \in Threads, pc'[u] = "pass"
          PROVE  u \in waiting' /\ u = q'[n - 1] /\ n - 1 \in 1 .. n - 1
        <3>1. pc[u] = "pass" /\ u # h
            BY <1>1, <1>2, <2>6 DEF Placed
        <3>2. u \in waiting /\ u = q[n]
            BY <3>1 DEF UntimedInv, Queued
        <3>3. n # 1
            BY <2>1, <3>1, <3>2
        <3>4. n - 1 \in 1 .. n - 1 /\ (n - 1) + 1 = n
            <4>1. \A x \in Nat : x >= 1 /\ x # 1 => x - 1 \in 1 .. x - 1 /\ (x - 1) + 1 = x
                BY SMTT(30)
            <4> QED BY <2>1, <3>3, <4>1
        <3> QED BY <1>3, <2>2, <3>1, <3>2, <3>4
    <2>7. \A u \in Threads : u \in waiting' => pc'[u] \in {"pass", "asleep"}
        BY <1>1, <1>3 DEF Placed, UntimedInv, Queued
    <2>8. waiting' \subseteq Threads
        BY <1>3, <1>4
    <2>9. wait_queue' \in Seq(Threads) /\ Len(wait_queue') = n - 1
        BY <2>2
    <2>10. \A u \in Threads : pc'[u] = "pass" => u \in waiting' /\ u = wait_queue'[Len(wait_queue')]
        BY <2>6, <2>9
    <2> HIDE DEF n
    <2> QED BY <2>3, <2>4, <2>5, <2>7, <2>8, <2>9, <2>10 DEF Queued
<1> QED BY <1>7, <1>8, <1>9, <1>10 DEF UntimedInv

LEMMA UntimedStep ==
    ASSUME Placed, Balanced, Untimed => UntimedInv, [Next]_vars
    PROVE  Untimed' => UntimedInv'
<1>1. CASE UNCHANGED vars
    BY <1>1 DEF vars, Untimed, UntimedInv, NothingTimed, Locked, Queued, Known, Unwoken,
                Waking, Sleepers
<1>2. ASSUME NEW t \in Threads, Call(t) \/ Step(t) \/ Timer(t), Untimed'
      PROVE  UntimedInv'
    <2>1. "down_timeout" \notin ops[t] /\ UntimedInv
        BY <1>2 DEF Call, Step, Timer, Untimed
    <2>2. CASE Call(t)
        <3>1. PICK o \in ops[t] :
                  /\ pc[t] = "idle" /\ pc' = [pc EXCEPT ![t] = o] /\ count' = count
                  /\ UNCHANGED <<prospective_count, lock, wait_queue, waiting, timerVars>>
            BY <2>2 DEF Call, Goto
        <3>2. o \in Places /\ o \notin {"wake", "enqueue", "pass", "asleep"}
            BY SemaphoreAssumption DEF Placed, Places
        <3> QED BY <2>1, <3>1, <3>2, OutsideUntimed
    <2>3. CASE TryLockFails(t)
        <3>1. /\ pc[t] \in {"try_up", "try_down"} /\ "idle" \in Places
              /\ pc' = [pc EXCEPT ![t] = "idle"] /\ count' = count
              /\ UNCHANGED <<prospective_count, lock, wait_queue, waiting, timerVars>>
            BY <2>3 DEF TryLockFails, Goto, Places
        <3> QED BY <2>1, <3>1, OutsideUntimed
    <2>4. CASE nk_semaphore_try_down(t)
        <3>1. /\ pc[t] = "try_down" /\ "idle" \in Places /\ pc' = [pc EXCEPT ![t] = "idle"]
              /\ count' = count \/ (lock = Nobody /\ count >= 0 /\ count' \in Nat)
              /\ UNCHANGED <<prospective_count, lock, wait_queue, waiting, timerVars>>
            BY SMTT(30), <2>4 DEF nk_semaphore_try_down, Goto, Places, Balanced
        <3> QED BY <2>1, <3>1, OutsideUntimed
    <2>5. ~Timed(t)
        BY <2>1 DEF Placed, Within, Timed, TimedTry, TimedArm, TimedProspect, TimedSleep,
                    SleepMultiple, TimedRemove, TimedCancel, Goto
    <2>6. ~Timer(t)
        BY <2>1 DEF UntimedInv, NothingTimed, Timer, TimerSignal, TimerWake
    <2> QED BY <1>2, <2>1, <2>2, <2>3, <2>4, <2>5, <2>6, UpUntimed, WakeUntimed, DownUntimed,
               EnqueueUntimed, PassUntimed, ReturnUntimed DEF Step
<1> QED BY <1>1, <1>2 DEF Next

-----------------------------------------------------------------------------
(* A single thread that waits with a timeout *)

\* Only w waits, in down_timeout.
Lone(w) ==
    \A t \in Threads : "down" \notin ops[t] /\ (t # w => "down_timeout" \notin ops[t])

\* Whoever puts a unit back while w sleeps learns of it from the prospective
\* count and goes on to wake w, the only thread it can find.
LoneInv(w) ==
    /\ prospective_count = IF pc[w] \in {"sleep", "timed", "cancel"} THEN 1 ELSE 0
    /\ wait_queue = <<>> \/ (wait_queue = <<w>> /\ pc[w] = "timed")
    /\ waiting \subseteq {w}
    /\ w \in waiting => wait_queue = <<w>>
    /\ w \in waiting /\ count > 0 => \E t \in Threads : pc[t] = "wake"

\* What the wait queue's operations do to a queue that only w is ever on.
LEMMA LoneQueue ==
    ASSUME NEW w
    PROVE  /\ <<w>> # <<>> /\ Head(<<w>>) = w /\ Tail(<<w>>) = <<>> /\ Append(<<>>, w) = <<w>>
           /\ Without(<<>>, w) = <<>> /\ Without(<<w>>, w) = <<>>
<1>1. /\ <<w>> # <<>> /\ Head(<<w>>) = w /\ Tail(<<w>>) = <<>> /\ Append(<<>>, w) = <<w>>
      /\ Len(<<w>>) = 1 /\ <<w>>[1] = w /\ DOMAIN <<w>> = {1}
    BY SMTT(30)
<1>2. Without(<<>>, w) = <<>>
    BY SMTT(30) DEF Without, Range
<1>3. Without(<<w>>, w) = <<>>
    <2>1. w \in Range(<<w>>)
        BY <1>1 DEF Range
    <2>2. 1 .. (Len(<<w>>) - 1) = {}
        BY SMTT(30), <1>1
    <2> QED
        BY SMTT(30), <2>1, <2>2 DEF Without
<1> QED
    BY <1>1, <1>2, <1>3

\* A step that changes no count, no queue and nobody's waiting, and takes no
\* thread into or out of its sleep or its waking.
LEMMA LoneQuiet ==
    ASSUME Placed, NEW w \in Threads, LoneInv(w), NEW t \in Threads,
           UNCHANGED <<prospective_count, wait_queue, waiting>>,
           count' = count \/ count' = count - 1, count \in Int,
           NEW p, pc' = [pc EXCEPT ![t] = p],
           t = w => ({pc[w], p} \cap {"sleep", "timed", "cancel"} = {}),
           pc[t] # "wake"
    PROVE  LoneInv(w)'
<1>1. pc'[t] = p /\ \A u \in Threads : u # t => pc'[u] = pc[u]
    BY DEF Placed
<1>2. /\ pc'[w] \in {"sleep", "timed", "cancel"} <=> pc[w] \in {"sleep", "timed", "cancel"}
      /\ pc'[w] = "timed" <=> pc[w] = "timed"
    BY <1>1
<1>3. \A u \in Threads : pc[u] = "wake" => pc'[u] = "wake"
    BY <1>1
<1>4. count' > 0 => count > 0
    BY SMTT(30)
<1> QED
    BY <1>2, <1>3, <1>4 DEF LoneInv

LEMMA LoneStep ==
    ASSUME Placed, NEW w \in Threads, Lone(w), LoneInv(w), count \in Int,
           NEW t \in Threads, Step(t)
    PROVE  LoneInv(w)'
<1>1. /\ pc \in [Threads -> Places]
      /\ \A u \in Threads :
             /\ pc[u] \notin {"down", "enqueue", "pass", "asleep"}
             /\ u # w => pc[u] \notin {"down_timeout", "arm", "prospect", "sleep", "timed", "cancel"}
    BY DEF Placed, Within, Lone
<1>2. CASE nk_semaphore_up(t)
    <2>1. /\ pc[t] \in {"up", "try_up"} /\ count' = count + 1
          /\ pc' = [pc EXCEPT ![t] = IF count < 0 \/ prospective_count > 0 THEN "wake" ELSE "idle"]
          /\ UNCHANGED <<prospective_count, wait_queue, waiting>>
        BY <1>2 DEF nk_semaphore_up, Up, Goto
    <2>2. \A u \in Threads : u # t => pc'[u] = pc[u]
        BY <1>1, <2>1
    <2>3. pc'[t] \in {"wake", "idle"} /\ (prospective_count > 0 => pc'[t] = "wake")
        BY <1>1, <2>1
    <2>4. w \in waiting => prospective_count > 0
        BY SMTT(30) DEF LoneInv
    <2> QED
        BY <2>1, <2>2, <2>3, <2>4 DEF LoneInv
<1>3. CASE WakeOne(t)
    <2>1. /\ pc[t] = "wake" /\ pc' = [pc EXCEPT ![t] = "idle"]
          /\ wait_queue' = IF wait_queue = <<>> THEN <<>> ELSE Tail(wait_queue)
          /\ waiting' = IF wait_queue = <<>> THEN waiting ELSE waiting \ {Head(wait_queue)}
          /\ UNCHANGED <<count, prospective_count>>
        BY <1>3 DEF WakeOne, Goto
    <2>2. pc'[t] = "idle" /\ \A u \in Threads : u # t => pc'[u] = pc[u]
        BY <1>1, <2>1
    <2>3. wait_queue' = <<>> /\ waiting' = {}
        BY <2>1, LoneQueue DEF LoneInv
    <2> QED
        BY <2>1, <2>2, <2>3 DEF LoneInv
<1>4. CASE TryLockFails(t) \/ nk_semaphore_try_down(t)
    <2>1. /\ pc[t] \in {"try_up", "try_down"} /\ pc' = [pc EXCEPT ![t] = "idle"]
          /\ count' = count \/ count' = count - 1
          /\ UNCHANGED <<prospective_count, wait_queue, waiting>>
        BY <1>4 DEF TryLockFails, nk_semaphore_try_down, Goto
    <2> QED
        BY <2>1, LoneQuiet
<1>5. ASSUME nk_semaphore_down(t) \/ DownEnqueue(t) \/ DownPass(t) \/ DownReturn(t)
      PROVE  FALSE
    BY <1>1, <1>5 DEF nk_semaphore_down, Down, DownEnqueue, DownPass, DownReturn, Goto
<1>6. CASE TimedTry(t) \/ TimedArm(t)
    <2>1. /\ pc[t] \in {"down_timeout", "arm"}
          /\ \E p \in {"idle", "arm", "prospect"} : pc' = [pc EXCEPT ![t] = p]
          /\ count' = count \/ count' = count - 1
          /\ UNCHANGED <<prospective_count, wait_queue, waiting>>
        <3>1. CASE TimedTry(t)
            BY <3>1 DEF TimedTry, Goto
        <3>2. CASE TimedArm(t)
            BY <3>2 DEF TimedArm, Goto
        <3> QED BY <1>6, <3>1, <3>2
    <2>2. PICK p \in {"idle", "arm", "prospect"} : pc' = [pc EXCEPT ![t] = p]
        BY <2>1
    <2>3. t = w => ({pc[w], p} \cap {"sleep", "timed", "cancel"} = {})
        BY <2>1, <2>2
    <2> QED
        BY <2>1, <2>2, <2>3, LoneQuiet
<1>7. CASE TimedProspect(t)
    <2>1. t = w /\ pc[w] = "prospect" /\ pc'[w] = "sleep"
          /\ \A u \in Threads : u # w => pc'[u] = pc[u]
        BY <1>1, <1>7 DEF TimedProspect, Goto
    <2>2. prospective_count = 0 /\ prospective_count' = 1
        BY SMTT(30), <1>7, <2>1 DEF TimedProspect, LoneInv
    <2> QED
        BY <1>7, <2>1, <2>2 DEF TimedProspect, LoneInv
<1>8. CASE TimedSleep(t)
    <2>1. t = w /\ pc[w] = "sleep" /\ \A u \in Threads : u # w => pc'[u] = pc[u]
        BY <1>1, <1>8 DEF TimedSleep, SleepMultiple, Goto
    <2>2. \/ pc'[w] = "cancel" /\ UNCHANGED <<waiting, wait_queue>>
          \/ /\ pc'[w] = "timed" /\ ~(count >= 1)
             /\ waiting' = waiting \cup {w} /\ wait_queue' = Append(wait_queue, w)
        BY <1>1, <1>8, <2>1 DEF TimedSleep, SleepMultiple, Goto
    <2>3. wait_queue = <<>> /\ waiting = {}
        BY <2>1, LoneQueue DEF LoneInv
    <2>4. UNCHANGED <<count, prospective_count>>
        BY <1>8 DEF TimedSleep, SleepMultiple
    <2>5. ~(count >= 1) => ~(count > 0)
        BY SMTT(30)
    <2> QED
        BY <2>1, <2>2, <2>3, <2>4, <2>5, LoneQueue DEF LoneInv
<1>9. CASE TimedRemove(t)
    <2>1. /\ t = w /\ pc[w] = "timed" /\ pc'[w] = "cancel"
          /\ \A u \in Threads : u # w => pc'[u] = pc[u]
        BY <1>1, <1>9 DEF TimedRemove, Goto
    <2>2. /\ w \notin waiting /\ wait_queue' = Without(wait_queue, w)
          /\ UNCHANGED <<count, prospective_count, waiting>>
        BY <1>9, <2>1 DEF TimedRemove
    <2>3. wait_queue' = <<>>
        <3>1. CASE wait_queue = <<>>
            BY <2>2, <3>1, LoneQueue
        <3>2. CASE wait_queue = <<w>>
            BY <2>2, <3>2, LoneQueue
        <3> QED
            BY <3>1, <3>2 DEF LoneInv
    <2>4. prospective_count' = 1
        BY <2>1, <2>2 DEF LoneInv
    <2> QED
        BY <2>1, <2>2, <2>3, <2>4 DEF LoneInv
<1>10. CASE TimedCancel(t)
    <2>1. /\ t = w /\ pc[w] = "cancel" /\ pc'[w] = "down_timeout"
          /\ \A u \in Threads : u # w => pc'[u] = pc[u]
        BY <1>1, <1>10 DEF TimedCancel, Goto
    <2>2. prospective_count = 1 /\ prospective_count' = 0
        BY SMTT(30), <1>10, <2>1 DEF TimedCancel, LoneInv
    <2> QED
        BY <1>10, <2>1, <2>2, LoneQueue DEF TimedCancel, LoneInv
<1> QED
    BY <1>2, <1>3, <1>4, <1>5, <1>6, <1>7, <1>8, <1>9, <1>10 DEF Step, Timed

LEMMA LoneNext ==
    ASSUME Placed, NEW w \in Threads, Lone(w), LoneInv(w), count \in Int, [Next]_vars
    PROVE  LoneInv(w)'
<1>1. ASSUME NEW t \in Threads, Call(t) PROVE LoneInv(w)'
    <2>1. PICK o \in ops[t] : pc[t] = "idle" /\ pc' = [pc EXCEPT ![t] = o]
        BY <1>1 DEF Call, Goto
    <2>2. o \in {"up", "try_up", "down", "try_down", "down_timeout"}
        BY SemaphoreAssumption DEF Placed
    <2>3. UNCHANGED <<count, prospective_count, wait_queue, waiting>>
        BY <1>1 DEF Call
    <2> QED
        BY <2>1, <2>2, <2>3, LoneQuiet
<1>2. ASSUME NEW t \in Threads, TimerSignal(t) \/ TimerWake(t) PROVE LoneInv(w)'
    BY <1>2 DEF TimerSignal, TimerWake, LoneInv
<1>3. CASE UNCHANGED vars
    BY <1>3 DEF vars, LoneInv
<1> QED
    BY <1>1, <1>2, <1>3, LoneStep DEF Next, Timer

LEMMA InitLone ==
    ASSUME Init, NEW w \in Threads
    PROVE  LoneInv(w)
<1>1. pc[w] = "idle" /\ prospective_count = 0 /\ wait_queue = <<>> /\ waiting = {}
    BY DEF Init
<1> QED
    BY <1>1 DEF LoneInv

-----------------------------------------------------------------------------
(* The theorems *)

THEOREM Invariance == Spec => []Inv
<1>1. Inv /\ [Next]_vars => Inv'
    BY StepPlaced, StepBalanced, UntimedStep, UndownedStep DEF Inv
<1> QED BY <1>1, InitInv, PTL DEF Spec

\* "We are now back, which means we must be good to go" (semaphore.c:288): no
\* semaphore whose waiters all wait in down, or none of them does, ever hands out
\* more units than it has.
THEOREM NeverOverAdmits == Spec => [](Untimed \/ Undowned => NoOverAdmission)
<1>1. Inv => (Untimed \/ Undowned => NoOverAdmission)
    <2> SUFFICES ASSUME Inv, Untimed \/ Undowned PROVE NoOverAdmission
        OBVIOUS
    <2>1. Cardinality(Sleepers) \in Nat /\ Balanced /\ Placed
        BY CardinalityFacts DEF Sleepers, Inv
    <2>2. CASE Undowned
        BY SMTT(30), <2>1, <2>2, SemaphoreAssumption DEF Inv, UndownedInv, Balanced, NoOverAdmission
    <2>3. CASE Untimed
        <3>1. Cardinality(Unwoken) = Cardinality(Waking) + (IF count < 0 THEN -count ELSE 0)
            BY <2>3 DEF Inv, UntimedInv, Known
        <3>2. Cardinality(Unwoken) <= Cardinality(Sleepers) /\ Cardinality(Unwoken) \in Nat
            <4>1. Sleepers \in SUBSET Threads /\ Unwoken \in SUBSET Sleepers
                BY DEF Sleepers, Unwoken
            <4>2. IsFiniteSet(Sleepers)
                BY <4>1, SemaphoreAssumption, FS_Subset
            <4> QED BY <4>1, <4>2, FS_Subset, CardinalityFacts
        <3>3. Cardinality(Waking) \in Nat
            BY CardinalityFacts DEF Waking
        <3> QED BY SMTT(30), <2>1, <3>1, <3>2, <3>3, SemaphoreAssumption DEF Balanced, NoOverAdmission
    <2> QED BY <2>2, <2>3
<1> QED BY <1>1, Invariance, PTL

\* "count <0 => -count waiters exist" (semaphore.c): in a semaphore that nobody
\* waits for with a timeout, the count and the wakers on their way account for
\* every thread that sleeps in down, and none is woken before it sleeps.
THEOREM CountIsRight == Spec => [](Untimed => CountKnowsWaiters)
<1>1. Inv => (Untimed => CountKnowsWaiters)
    <2> SUFFICES ASSUME Inv, Untimed PROVE CountKnowsWaiters
        OBVIOUS
    <2>1. UntimedInv /\ Balanced /\ Placed
        BY DEF Inv
    <2>2. TypeOK
        <3>1. Cardinality(Unwoken) <= Cardinality(Threads) /\ Cardinality(Unwoken) \in Nat
              /\ Cardinality(Waking) \in Nat /\ Cardinality(Threads) \in Nat
            <4>1. Unwoken \in SUBSET Threads /\ Waking \in SUBSET Threads
                BY DEF Unwoken, Sleepers, Waking
            <4> QED BY <4>1, CardinalityFacts
        <3>2. count \in Int /\ count >= -Cardinality(Threads)
            BY SMTT(30), <2>1, <3>1 DEF UntimedInv, Known, Balanced
        <3> QED BY <2>1, <3>2
                DEF TypeOK, UntimedInv, NothingTimed, Locked, Queued, Balanced
    <2>3. \A t \in Threads : pc[t] = "pass" => t \in waiting
        BY <2>1 DEF UntimedInv, Queued
    <2>4. Cardinality({t \in Sleepers : pc[t] = "enqueue" \/ t \in waiting}) =
              Cardinality(Waking) + (IF count < 0 THEN -count ELSE 0)
        BY <2>1 DEF UntimedInv, Known, Unwoken
    <2> QED BY <2>2, <2>3, <2>4 DEF CountKnowsWaiters
<1> QED BY <1>1, Invariance, PTL

\* "count>0 => normal operation (down will not wait)" (semaphore.c): where at most
\* one thread waits, in nk_semaphore_down_timeout, no unit is left over while that
\* thread sleeps, unless somebody is about to wake it.
THEOREM NoUnitIsIdle ==
    Spec => []((Untimed \/ \E w \in Threads : Lone(w)) => NoIdleUnit)
<1> DEFINE LoneOK == \A w \in Threads : Lone(w) => LoneInv(w)
<1>1. Init => LoneOK
    BY InitLone
<1>2. Inv /\ LoneOK /\ [Next]_vars => LoneOK'
    <2> SUFFICES ASSUME Inv, LoneOK, [Next]_vars, NEW w \in Threads, Lone(w)'
                 PROVE  LoneInv(w)'
        BY DEF Inv
    <2>1. ops' = ops
        BY DEF Next, Call, Step, Timer, vars
    <2>2. Lone(w)
        BY <2>1 DEF Lone
    <2> QED
        BY <2>2, LoneNext DEF Inv, Balanced
<1>3. Inv /\ LoneOK => ((Untimed \/ \E w \in Threads : Lone(w)) => NoIdleUnit)
    <2>1. ASSUME Inv, Untimed, NEW t \in Threads, pc[t] = "timed" PROVE FALSE
        BY <2>1 DEF Inv, Placed, Within, Untimed
    <2>2. ASSUME NEW w \in Threads, LoneInv(w), NEW t \in Threads, t \in waiting,
                 count > 0, Waking = {}
          PROVE  FALSE
        BY <2>2 DEF LoneInv, Waking
    <2> QED
        BY <2>1, <2>2 DEF NoIdleUnit
<1> QED
    BY <1>1, <1>2, <1>3, Invariance, InitInv, PTL DEF Spec
=============================================================================
