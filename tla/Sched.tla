-------------------------------- MODULE Sched --------------------------------
(***************************************************************************)
(* The heart of the kernel: how a thread gives up its CPU, waits on one or *)
(* several wait queues, and is made runnable again by another thread or by *)
(* an interrupt handler (src/nautilus/scheduler.c, src/nautilus/           *)
(* waitqueue.c and include/nautilus/waitqueue.h).                          *)
(*                                                                         *)
(* Threads are aperiodic and scheduled round-robin, the default            *)
(* configuration.  A CPU's idle thread is not kept on the run queue: the   *)
(* round-robin policy skips it whenever there is another thread.           *)
(*                                                                         *)
(* A scheduling pass chooses the next thread under the CPU's scheduler     *)
(* lock and is one step.  The context switch that follows, after the locks *)
(* the caller asked to have released are released, is another step: until  *)
(* then the CPU still runs on the old thread's stack.                      *)
(***************************************************************************)
EXTENDS Integers, Sequences, Functions, WaitQueue

CONSTANTS Threads, CPUs,
          Queues,       \* the wait queues, numbered in the order they are locked
          SleepSets,    \* the sets of queues a thread may sleep on
          WakeOps,      \* the wake operations in use
          Idle,         \* stands for the idle thread of each CPU
          NoThread,
          FirstQueue    \* the run queue each CPU starts with

ASSUME SchedAssumption ==
    /\ Queues \subseteq Nat
    /\ SleepSets \subseteq SUBSET Queues
    /\ {} \notin SleepSets
    /\ WakeOps \subseteq {"wake_one", "wake_all"}
    /\ FirstQueue \in [CPUs -> Seq(Threads)]
    /\ \A c \in CPUs : IsInjective(FirstQueue[c])
    /\ \A c, d \in CPUs : c # d => Range(FirstQueue[c]) \cap Range(FirstQueue[d]) = {}
    /\ \A t \in Threads : \E c \in CPUs : t \in Range(FirstQueue[c])
    /\ Threads \cap CPUs = {}
    /\ {Idle, NoThread} \cap (Threads \cup CPUs) = {}
    /\ Idle # NoThread

VARIABLES status,    \* nk_thread.status
          rt,        \* rt_thread.status
          curCpu,    \* nk_thread.current_cpu
          rq,        \* the aperiodic run queue of each CPU
          current,   \* the thread on whose stack each CPU runs
          next,      \* the thread a CPU is about to switch to
          wq,        \* the waiting threads of each wait queue
          wqLock,    \* who holds each wait queue's lock
          cond,      \* the condition the threads on a wait queue wait for
          pc,        \* where each thread, and the handler of each CPU, is
          op,        \* what it is doing
          want,      \* the wait queues it is doing it to
          woken      \* the thread a waker has taken off a wait queue

schedVars == <<status, rt, curCpu, rq, current, next>>
queueVars == <<wq, wqLock, cond>>
localVars == <<pc, op, want, woken>>
vars == <<status, rt, curCpu, rq, current, next, wq, wqLock, cond,
          pc, op, want, woken>>

\* Wake-ups are done by threads and by interrupt handlers, one for each CPU.
Actors == Threads \cup CPUs

Init ==
    /\ status = [t \in Threads |-> "SUSPENDED"]
    /\ rt = [t \in Threads |-> "ADMITTED"]
    /\ curCpu = [t \in Threads |-> CHOOSE c \in CPUs : t \in Range(FirstQueue[c])]
    /\ rq = FirstQueue
    /\ current = [c \in CPUs |-> Idle]
    /\ next = [c \in CPUs |-> NoThread]
    /\ wq = [q \in Queues |-> <<>>]
    /\ wqLock = [q \in Queues |-> NoThread]
    /\ cond = [q \in Queues |-> FALSE]
    /\ pc = [a \in Actors |-> IF a \in Threads THEN "run" ELSE "off"]
    /\ op = [a \in Actors |-> "none"]
    /\ want = [a \in Actors |-> {}]
    /\ woken = [a \in Actors |-> NoThread]

-----------------------------------------------------------------------------
(* Who may take a step *)

\* Thread t is executing on CPU c.
Executes(t, c) == current[c] = t /\ next[c] = NoThread /\ pc[c] = "off"

\* CPU c may take an interrupt: the thread on it has interrupts enabled, as it
\* has at "put", between the two locks of nk_sched_thread_move.
IrqsOn(c) ==
    /\ next[c] = NoThread /\ pc[c] = "off"
    /\ current[c] \in Threads => pc[current[c]] \in {"run", "put"}

Active(a) == IF a \in CPUs THEN pc[a] # "off" ELSE \E c \in CPUs : Executes(a, c)

\* Where an operation that is complete returns to.
Return(a) == IF a \in CPUs THEN "off" ELSE "run"

Goto(a, from, to) == pc[a] = from /\ pc' = [pc EXCEPT ![a] = to]

\* The operation returns to its caller: its local variables are gone.
Finish(a, from) ==
    /\ Goto(a, from, Return(a))
    /\ op' = [op EXCEPT ![a] = "none"]
    /\ want' = [want EXCEPT ![a] = {}]

\* An operation on more than one wait queue.
Several(a) == \E p, q \in want[a] : p # q

Held(a) == {q \in Queues : wqLock[q] = a}

-----------------------------------------------------------------------------
(* The scheduling pass *)

\* What the pass does once the run queue is queue and the statuses are stat.
Choose(c, queue, stat) ==
    LET n == IF queue = <<>> THEN Idle ELSE Head(queue)
    IN  /\ rq' = [rq EXCEPT ![c] = IF queue = <<>> THEN queue ELSE Tail(queue)]
        /\ status' = IF n \in Threads /\ stat[n] # "WAITING"
                     THEN [stat EXCEPT ![n] = "RUNNING"]
                     ELSE stat
        /\ next' = [next EXCEPT ![c] = IF n = current[c] THEN NoThread ELSE n]
        /\ UNCHANGED <<rt, curCpu, current>>

\* Mutant: the old thread is put at the head of the run queue.
NeedResched_Front(c) ==
    LET t == current[c]
    IN  IF t \in Threads /\ rt[t] # "SLEEPING"
        THEN Choose(c, <<t>> \o rq[c], [status EXCEPT ![t] = "SUSPENDED"])
        ELSE Choose(c, rq[c], status)

\* _sched_need_resched on CPU c.  A thread going to sleep is not put back on
\* the run queue; any other thread is, behind the ones already there.
NeedResched(c) ==
    LET t == current[c]
    IN  IF t \in Threads /\ rt[t] # "SLEEPING"
        THEN Choose(c, Append(rq[c], t), [status EXCEPT ![t] = "SUSPENDED"])
        ELSE Choose(c, rq[c], status)

\* The pass at the end of a timer or kick interrupt, and of the idle thread.
Preempt(c) ==
    /\ IrqsOn(c)
    /\ rq[c] # <<>>
    /\ NeedResched(c)
    /\ UNCHANGED <<queueVars, localVars>>

\* nk_thread_switch: the old context is saved, the new one is restored.  A
\* thread in a special switch first runs the release callback.
Switch(c) ==
    /\ next[c] # NoThread
    /\ current[c] \in Threads => pc[current[c]] # "release"
    /\ current' = [current EXCEPT ![c] = next[c]]
    /\ next' = [next EXCEPT ![c] = NoThread]
    /\ UNCHANGED <<status, rt, curCpu, rq, queueVars, localVars>>

\* _sched_make_runnable with admit = 0, under the target CPU's lock.
MakeRunnable(t) ==
    /\ rq' = [rq EXCEPT ![curCpu[t]] = Append(@, t)]
    /\ status' = [status EXCEPT ![t] = "SUSPENDED"]
    /\ rt' = [rt EXCEPT ![t] = "ADMITTED"]

-----------------------------------------------------------------------------
(* Special switches: nk_sched_yield and nk_sched_sleep *)

Yield(t) ==
    /\ Active(t)
    /\ Goto(t, "run", "special")
    /\ op' = [op EXCEPT ![t] = "yield"]
    /\ want' = [want EXCEPT ![t] = {}]
    /\ UNCHANGED <<schedVars, queueVars, woken>>

\* Mutant: the wait queues' locks are released before the pass.
SpecialStatus_Releases(t) ==
    /\ Active(t)
    /\ Goto(t, "special", "pass")
    /\ rt' = [rt EXCEPT ![t] = IF op[t] = "yield" THEN "YIELDING" ELSE "SLEEPING"]
    /\ wqLock' = [q \in Queues |-> IF wqLock[q] = t THEN NoThread ELSE wqLock[q]]
    /\ UNCHANGED <<status, curCpu, rq, current, next, wq, cond, op, want, woken>>

\* handle_special_switch announces what the thread is up to, before it has
\* the scheduler lock.
SpecialStatus(t) ==
    /\ Active(t)
    /\ Goto(t, "special", "pass")
    /\ rt' = [rt EXCEPT ![t] = IF op[t] = "yield" THEN "YIELDING" ELSE "SLEEPING"]
    /\ UNCHANGED <<status, curCpu, rq, current, next, queueVars, op, want, woken>>

SpecialPass(t) ==
    \E c \in CPUs :
        /\ Executes(t, c)
        /\ Goto(t, "pass", IF Held(t) = {} THEN "back" ELSE "release")
        /\ NeedResched(c)
        /\ UNCHANGED <<queueVars, op, want, woken>>

\* The release callback, after the pass and before the context switch:
\* spin_unlock or wait_queue_release.
ReleaseCallback(t) ==
    \E q \in Held(t) :
        /\ \A p \in Held(t) : q <= p
        /\ Goto(t, "release", IF Held(t) = {q} THEN "back" ELSE "release")
        /\ wqLock' = [wqLock EXCEPT ![q] = NoThread]
        /\ UNCHANGED <<schedVars, wq, cond, op, want, woken>>

\* The thread is running again: handle_special_switch restores last_status.
\* A thread that slept on several queues goes on to remove itself from them.
Back(t) ==
    /\ Active(t)
    /\ IF Several(t)
       THEN Goto(t, "back", "relock") /\ UNCHANGED <<op, want>>
       ELSE Finish(t, "back")
    /\ rt' = [rt EXCEPT ![t] = "ADMITTED"]
    /\ UNCHANGED <<status, curCpu, rq, current, next, queueVars, woken>>

handle_special_switch(t) ==
    SpecialStatus(t) \/ SpecialPass(t) \/ ReleaseCallback(t) \/ Back(t)

-----------------------------------------------------------------------------
(* nk_wait_queue_sleep_extended and nk_wait_queue_sleep_extended_multiple *)

SleepCall(t) ==
    /\ Active(t)
    /\ Goto(t, "run", "lock")
    /\ op' = [op EXCEPT ![t] = "sleep"]
    /\ \E Q \in SleepSets : want' = [want EXCEPT ![t] = Q]
    /\ UNCHANGED <<schedVars, queueVars, woken>>

\* Interrupts are off; the queues' locks are taken in order.
SleepLock(t) ==
    /\ Active(t)
    /\ \E q \in want[t] \ Held(t) :
        /\ \A p \in want[t] \ Held(t) : q <= p
        /\ wqLock[q] = NoThread
        /\ wqLock' = [wqLock EXCEPT ![q] = t]
        /\ \/ Goto(t, "lock", IF want[t] \ Held(t) = {q} THEN "check" ELSE "lock")
           \/ Goto(t, "relock", IF want[t] \ Held(t) = {q} THEN "remove" ELSE "relock")
    /\ UNCHANGED <<schedVars, wq, cond, op, want, woken>>

\* Mutant: the condition is not checked again under the locks.
SleepCheck_Never(t) ==
    /\ Active(t)
    /\ Goto(t, "check", "special")
    /\ status' = [status EXCEPT ![t] = "WAITING"]
    /\ wq' = [q \in Queues |-> IF q \in want[t] THEN Append(wq[q], t) ELSE wq[q]]
    /\ UNCHANGED <<rt, curCpu, rq, current, next, wqLock, cond, op, want, woken>>

\* The condition is checked with all locks held; if it does not hold yet the
\* thread puts itself on every queue and keeps the locks.
SleepCheck(t) ==
    /\ Active(t)
    /\ IF \E q \in want[t] : cond[q]
       THEN /\ Goto(t, "check", "unlock")
            /\ UNCHANGED <<status, wq>>
       ELSE /\ Goto(t, "check", "special")
            /\ status' = [status EXCEPT ![t] = "WAITING"]
            /\ wq' = [q \in Queues |-> IF q \in want[t] THEN Append(wq[q], t) ELSE wq[q]]
    /\ UNCHANGED <<rt, curCpu, rq, current, next, wqLock, cond, op, want, woken>>

SleepUnlock(t) ==
    /\ Active(t)
    /\ \E q \in Held(t) :
        /\ \A p \in Held(t) : q <= p
        /\ wqLock' = [wqLock EXCEPT ![q] = NoThread]
        /\ IF Held(t) = {q}
           THEN Finish(t, "unlock")
           ELSE Goto(t, "unlock", "unlock") /\ UNCHANGED <<op, want>>
    /\ UNCHANGED <<schedVars, wq, cond, woken>>

\* nk_wait_queue_dequeue_multiple_extended, once the locks are held again.
SleepRemove(t) ==
    /\ Active(t)
    /\ Goto(t, "remove", "unlock")
    /\ wq' = [q \in Queues |-> IF q \in want[t] THEN Without(wq[q], t) ELSE wq[q]]
    /\ UNCHANGED <<schedVars, wqLock, cond, op, want, woken>>

nk_wait_queue_sleep(t) ==
    SleepCall(t) \/ SleepLock(t) \/ SleepCheck(t) \/ SleepUnlock(t) \/ SleepRemove(t)

-----------------------------------------------------------------------------
(* nk_wait_queue_wake_one and nk_wait_queue_wake_all, after the waker made *)
(* the condition true                                                      *)

WakeCall(a) ==
    /\ IF a \in CPUs THEN IrqsOn(a) ELSE Active(a)
    /\ Goto(a, Return(a), "wlock")
    /\ \E q \in Queues : /\ want' = [want EXCEPT ![a] = {q}]
                         /\ cond' = [cond EXCEPT ![q] = TRUE]
    /\ \E o \in WakeOps : op' = [op EXCEPT ![a] = o]
    /\ UNCHANGED <<schedVars, wq, wqLock, woken>>

WakeLock(a) ==
    /\ Active(a)
    /\ Goto(a, "wlock", "dequeue")
    /\ \E q \in want[a] : /\ wqLock[q] = NoThread
                          /\ wqLock' = [wqLock EXCEPT ![q] = a]
    /\ UNCHANGED <<schedVars, wq, cond, op, want, woken>>

\* Mutant: every thread found on the queue is made runnable.
WakeDequeue_NoCas(a) ==
    /\ Active(a)
    /\ \E q \in want[a] :
        IF wq[q] = <<>>
        THEN /\ Goto(a, "dequeue", "wunlock")
             /\ UNCHANGED <<status, wq, woken>>
        ELSE /\ Goto(a, "dequeue", "awaken")
             /\ wq' = [wq EXCEPT ![q] = Tail(@)]
             /\ status' = [status EXCEPT ![Head(wq[q])] = "SUSPENDED"]
             /\ woken' = [woken EXCEPT ![a] = Head(wq[q])]
    /\ UNCHANGED <<rt, curCpu, rq, current, next, wqLock, cond, op, want>>

\* The first waiting thread is taken off the queue.  Only if it is still
\* WAITING, and not already awoken through another queue, is this waker
\* responsible for getting it scheduled.
WakeDequeue(a) ==
    /\ Active(a)
    /\ \E q \in want[a] :
        IF wq[q] = <<>>
        THEN /\ Goto(a, "dequeue", "wunlock")
             /\ UNCHANGED <<status, wq, woken>>
        ELSE LET t == Head(wq[q])
             IN  /\ wq' = [wq EXCEPT ![q] = Tail(@)]
                 /\ IF status[t] = "WAITING"
                    THEN /\ status' = [status EXCEPT ![t] = "SUSPENDED"]
                         /\ woken' = [woken EXCEPT ![a] = t]
                         /\ Goto(a, "dequeue", "awaken")
                    ELSE /\ Goto(a, "dequeue",
                                 IF op[a] = "wake_all" THEN "dequeue" ELSE "wunlock")
                         /\ UNCHANGED <<status, woken>>
    /\ UNCHANGED <<rt, curCpu, rq, current, next, wqLock, cond, op, want>>

\* Mutant: the thread is put on the run queue of the waker's CPU.
WakeAwaken_Local(a) ==
    /\ Goto(a, "awaken", IF op[a] = "wake_all" THEN "dequeue" ELSE "wunlock")
    /\ \E c \in CPUs :
        /\ c = a \/ Executes(a, c)
        /\ rq' = [rq EXCEPT ![c] = Append(@, woken[a])]
        /\ curCpu' = [curCpu EXCEPT ![woken[a]] = c]
    /\ status' = [status EXCEPT ![woken[a]] = "SUSPENDED"]
    /\ rt' = [rt EXCEPT ![woken[a]] = "ADMITTED"]
    /\ woken' = [woken EXCEPT ![a] = NoThread]
    /\ UNCHANGED <<current, next, queueVars, op, want>>

\* nk_sched_awaken and the kick.
WakeAwaken(a) ==
    /\ Active(a)
    /\ Goto(a, "awaken", IF op[a] = "wake_all" THEN "dequeue" ELSE "wunlock")
    /\ MakeRunnable(woken[a])
    /\ woken' = [woken EXCEPT ![a] = NoThread]
    /\ UNCHANGED <<curCpu, current, next, queueVars, op, want>>

WakeUnlock(a) ==
    /\ Active(a)
    /\ Finish(a, "wunlock")
    /\ \E q \in want[a] : wqLock' = [wqLock EXCEPT ![q] = NoThread]
    /\ UNCHANGED <<schedVars, wq, cond, woken>>

nk_wait_queue_wake(a) ==
    WakeCall(a) \/ WakeLock(a) \/ WakeDequeue(a) \/ WakeAwaken(a) \/ WakeUnlock(a)

\* A thread makes the condition of a queue false again (it took the task, the
\* timer was set again).
Consume(t) ==
    /\ Active(t) /\ pc[t] = "run"
    /\ \E q \in Queues : cond[q] /\ cond' = [cond EXCEPT ![q] = FALSE]
    /\ UNCHANGED <<schedVars, wq, wqLock, localVars>>

-----------------------------------------------------------------------------

ThreadStep(t) ==
    Yield(t) \/ handle_special_switch(t) \/ nk_wait_queue_sleep(t) \/ Consume(t)

Next ==
    \/ \E t \in Threads : ThreadStep(t)
    \/ \E a \in Actors : nk_wait_queue_wake(a)
    \/ \E c \in CPUs : Preempt(c) \/ Switch(c)

Spec == Init /\ [][Next]_vars

\* The steps of an operation that has begun.
Continue(a) ==
    \/ a \in Threads /\ \/ handle_special_switch(a)
                        \/ SleepLock(a) \/ SleepCheck(a) \/ SleepUnlock(a) \/ SleepRemove(a)
    \/ WakeLock(a) \/ WakeDequeue(a) \/ WakeAwaken(a) \/ WakeUnlock(a)

\* CPUs keep executing, and the timer and the kicks keep interrupting them.
Fairness ==
    /\ \A a \in Actors : WF_vars(Continue(a))
    /\ \A c \in CPUs : WF_vars(Preempt(c)) /\ WF_vars(Switch(c))

-----------------------------------------------------------------------------
(* Properties *)

\* The types of the scheduler's, the queues' and the local state.
TypeOK ==
    /\ status \in [Threads -> {"RUNNING", "SUSPENDED", "WAITING"}]
    /\ rt \in [Threads -> {"ADMITTED", "YIELDING", "SLEEPING"}]
    /\ curCpu \in [Threads -> CPUs]
    /\ rq \in [CPUs -> Seq(Threads)]
    /\ current \in [CPUs -> Threads \cup {Idle}]
    /\ next \in [CPUs -> Threads \cup {Idle, NoThread}]
    /\ wq \in [Queues -> Seq(Threads)]
    /\ wqLock \in [Queues -> Actors \cup {NoThread}]
    /\ cond \in [Queues -> BOOLEAN]
    /\ pc \in [Actors -> {"run", "off", "special", "pass", "release", "back", "lock",
                          "check", "unlock", "relock", "remove", "wlock", "dequeue",
                          "awaken", "wunlock"}]
    /\ op \in [Actors -> {"none", "yield", "sleep", "wake_one", "wake_all"}]
    /\ want \in [Actors -> SUBSET Queues]
    /\ woken \in [Actors -> Threads \cup {NoThread}]

\* No thread's context is in use on, or chosen by, two CPUs.
OneCpuPerThread ==
    \A t \in Threads : \A c, d \in CPUs :
        t \in {current[c], next[c]} /\ t \in {current[d], next[d]} => c = d

\* A thread is on at most one run queue, there at most once, and never on the
\* run queue of a CPU other than the one still running on its stack.
QueuedOnce ==
    \A c \in CPUs :
        /\ IsInjective(rq[c])
        /\ \A t \in Range(rq[c]), d \in CPUs :
               /\ c # d => t \notin Range(rq[d])
               /\ t # next[d]
               /\ t = current[d] => c = d /\ next[d] # NoThread

\* No thread is forgotten: it is on a CPU, on a run queue, waiting on one of
\* the queues it went to sleep on, or in the hands of a waker.
NeverForgotten ==
    \A t \in Threads :
        \/ \E c \in CPUs : t \in {current[c], next[c]} \cup Range(rq[c])
        \/ status[t] = "WAITING" /\ \E q \in want[t] : t \in Range(wq[q])
        \/ \E a \in Actors : woken[a] = t

\* The situations in which _sched_need_resched and handle_special_switch
\* report an error do not arise: the thread chosen is not already running, and
\* going to sleep always switches to another thread.
NoSchedulerError ==
    /\ \A c \in CPUs : \A t \in Range(rq[c]) : status[t] # "RUNNING"
    /\ \A c \in CPUs, t \in Threads :
           (/\ current[c] = t /\ rt[t] = "SLEEPING"
            /\ pc[t] \in {"release", "back"}) => next[c] # NoThread

\* No wake-up is lost when every waker makes the condition true and then wakes
\* all: if a thread still waits on a queue whose condition is true, some waker
\* of that queue has yet to look at it.
NoLostWakeup ==
    \A q \in Queues : \A t \in Range(wq[q]) :
        cond[q] /\ status[t] = "WAITING" =>
            \E a \in Actors : /\ pc[a] \in {"wlock", "dequeue", "awaken"}
                              /\ want[a] = {q}

\* A thread on a run queue is eventually given a CPU.
RunnableRuns ==
    \A t \in Threads :
        (\E c \in CPUs : t \in Range(rq[c])) ~> (\E c \in CPUs : current[c] = t)

\* A thread that sleeps on a queue whose condition has become true returns
\* from nk_wait_queue_sleep, when wakers wake all.
SleepersReturn ==
    \A t \in Threads, q \in Queues :
        (cond[q] /\ t \in Range(wq[q])) ~> (pc[t] = "run")
=============================================================================
