--------------------------------- MODULE Task ---------------------------------
(***************************************************************************)
(* The tasks of the scheduler (src/nautilus/scheduler.c, task.h): deferred *)
(* calls that are queued per CPU and run by the CPUs' task threads, by the *)
(* scheduler when it has time to spare, and by the threads that wait for a *)
(* task.  A task's memory comes from the reuse stack of the CPU it was     *)
(* produced for, and goes back there.                                      *)
(*                                                                         *)
(* What is done under a task queue's or a reuse stack's lock is one step.  *)
(* Somebody who only tries the queue's lock may always fail to get it.     *)
(***************************************************************************)
EXTENDS Integers, Sequences, FiniteSetsExt, Functions

CONSTANTS CPUs, Tasks,
          Producers,   \* threads that produce tasks and wait for them
          Pumps,       \* the scheduler's passes, which run tasks of known size
          Idles,       \* idle threads, which run tasks of any size
          Home,        \* the CPU a producer produces for, a pump or an idle thread is on
          Detached,    \* producers that produce detached tasks
          Sizes, Avail, Limit,  \* sizes of tasks; a pump's time and search limit
          PoolSize,    \* NAUT_CONFIG_TASK_REUSE_POOL_SIZE
          MaxJobs,     \* how many tasks are produced in all
          Nothing

Actors == CPUs \cup Producers \cup Pumps \cup Idles    \* a CPU stands for its task thread

ASSUME TaskAssumption ==
    /\ IsFiniteSet(Tasks) /\ Detached \subseteq Producers
    /\ \A a \in Producers \cup Pumps \cup Idles : Home[a] \in CPUs
    /\ CPUs \cap Producers = {}
    /\ Sizes \subseteq Nat /\ {Avail, Limit, PoolSize, MaxJobs} \subseteq Nat
    /\ Nothing \notin Tasks

VARIABLES unsized_queue, sized_queue,   \* the task queues of each CPU
          free_stack, heap,   \* each CPU's reuse stack, and free memory
          task,        \* size, flags, output and home of each task
          sleeping,    \* the task threads that sleep on their CPU's waitq
          pc, cur,     \* what each actor does, and with which task
          mine,        \* the task each producer has produced
          want, got,   \* the job a producer waits for, and the output it was given
          dest,        \* whether its output pointer is still the caller's
          jobs,        \* how many tasks have been produced
          ran          \* history: how often each job was run

queueVars == <<unsized_queue, sized_queue>>
memVars == <<free_stack, heap>>
waitVars == <<mine, want, got, dest>>
vars == <<queueVars, memVars, task, sleeping, pc, cur, waitVars, jobs, ran>>

NoTask == [size |-> 0, detached |-> FALSE, completed |-> FALSE, job |-> 0, output |-> 0,
           home |-> Nothing]

Base(a) == IF a \in CPUs THEN "own" ELSE IF a \in Producers THEN "idle" ELSE "pump"

Init ==
    /\ unsized_queue = [c \in CPUs |-> <<>>] /\ sized_queue = [c \in CPUs |-> <<>>]
    /\ free_stack = [c \in CPUs |-> <<>>] /\ heap = Tasks
    /\ task = [t \in Tasks |-> NoTask]
    /\ sleeping = {}
    /\ pc = [a \in Actors |-> Base(a)] /\ cur = [a \in Actors |-> Nothing]
    /\ mine = [p \in Producers |-> Nothing]
    /\ want = [p \in Producers |-> 0] /\ got = [p \in Producers |-> 0]
    /\ dest = [p \in Producers |-> TRUE]
    /\ jobs = 0 /\ ran = [j \in 1 .. MaxJobs |-> 0]

Goto(a, from, to) == pc[a] = from /\ pc' = [pc EXCEPT ![a] = to]

-----------------------------------------------------------------------------
(* task_alloc, task_dealloc and nk_task_produce *)

\* The memory is cleared and set up; the producer is the only one to see it.
nk_task_produce(p) ==
    /\ jobs < MaxJobs /\ jobs' = jobs + 1
    /\ Goto(p, "idle", "enqueue")
    /\ \E t \in Tasks, s \in Sizes :
           /\ IF free_stack[Home[p]] # <<>>
              THEN /\ t = Head(free_stack[Home[p]])
                   /\ free_stack' = [free_stack EXCEPT ![Home[p]] = Tail(@)]
                   /\ UNCHANGED heap
              ELSE t \in heap /\ heap' = heap \ {t} /\ UNCHANGED free_stack
           /\ task' = [task EXCEPT ![t] =
                  [size |-> s, detached |-> p \in Detached, completed |-> FALSE,
                   job |-> jobs + 1, output |-> 0, home |-> Home[p]]]
           /\ mine' = [mine EXCEPT ![p] = t]
    /\ want' = [want EXCEPT ![p] = jobs + 1]
    /\ got' = [got EXCEPT ![p] = 0] /\ dest' = [dest EXCEPT ![p] = TRUE]
    /\ UNCHANGED <<queueVars, sleeping, cur, ran>>

Enqueue(p) ==
    /\ Goto(p, "enqueue", "wake")
    /\ IF task[mine[p]].size > 0
       THEN /\ sized_queue' = [sized_queue EXCEPT ![Home[p]] = Append(@, mine[p])]
            /\ UNCHANGED unsized_queue
       ELSE /\ unsized_queue' = [unsized_queue EXCEPT ![Home[p]] = Append(@, mine[p])]
            /\ UNCHANGED sized_queue
    /\ UNCHANGED <<memVars, task, sleeping, cur, waitVars, jobs, ran>>

\* nk_wait_queue_wake_all(ti->waitq)
ProduceWake(p) ==
    /\ Goto(p, "wake", IF p \in Detached THEN "idle" ELSE "wait")
    /\ sleeping' = sleeping \ {Home[p]}
    /\ UNCHANGED <<queueVars, memVars, task, cur, waitVars, jobs, ran>>

\* Back to the reuse stack, or to the heap if that is full.
task_dealloc(t) ==
    IF Len(free_stack[task[t].home]) >= PoolSize
    THEN heap' = heap \cup {t} /\ UNCHANGED free_stack
    ELSE free_stack' = [free_stack EXCEPT ![task[t].home] = <<t>> \o @] /\ UNCHANGED heap

-----------------------------------------------------------------------------
(* _nk_task_consume *)

\* The first of the tasks looked at that fits in the given time, or 0.
Fit(q, avail, limit) ==
    LET fits == {i \in 1 .. Len(q) : i <= limit /\ task[q[i]].size <= avail}
    IN IF fits = {} THEN 0 ELSE Min(fits)

\* Mutant: leaves the task on its queue.
TakeUnsized_Keeps(a, c) ==
    cur' = [cur EXCEPT ![a] = Head(unsized_queue[c])] /\ UNCHANGED queueVars

RemoveAt(q, i) == SubSeq(q, 1, i - 1) \o SubSeq(q, i + 1, Len(q))

\* The task leaves its queue and is now the actor's.
TakeUnsized(a, c) ==
    /\ cur' = [cur EXCEPT ![a] = Head(unsized_queue[c])]
    /\ unsized_queue' = [unsized_queue EXCEPT ![c] = Tail(@)]
    /\ UNCHANGED sized_queue
Dequeue(a, c, i, r) ==
    /\ cur' = [cur EXCEPT ![a] = sized_queue[c][i]]
    /\ sized_queue' = [sized_queue EXCEPT ![c] = RemoveAt(@, r)]
    /\ UNCHANGED unsized_queue

\* Mutant: removes the first task, not the one found.
TakeSized_First(a, c, i) == Dequeue(a, c, i, 1)

TakeSized(a, c, i) == Dequeue(a, c, i, i)

\* A task of any size, unsized ones first; none if the lock is not to be had.
Consume(a, c, none) ==
    /\ \/ pc' = [pc EXCEPT ![a] = none] /\ UNCHANGED <<cur, queueVars>>
       \/ /\ unsized_queue[c] # <<>>
          /\ pc' = [pc EXCEPT ![a] = "run"] /\ TakeUnsized(a, c)
       \/ /\ unsized_queue[c] = <<>> /\ sized_queue[c] # <<>>
          /\ pc' = [pc EXCEPT ![a] = "run"] /\ TakeSized(a, c, 1)
    /\ UNCHANGED <<memVars, task, sleeping, waitVars, jobs, ran>>

\* pump_sized_tasks: a task of this CPU that fits, if one is soon found.
PumpSized(a) ==
    LET i == Fit(sized_queue[Home[a]], Avail, Limit)
    IN /\ a \in Pumps /\ pc[a] = "pump" /\ i > 0
       /\ pc' = [pc EXCEPT ![a] = "run"]
       /\ TakeSized(a, Home[a], i)
       /\ UNCHANGED <<memVars, task, sleeping, waitVars, jobs, ran>>

\* The idle thread consumes its own CPU's tasks.
IdleConsume(a) == a \in Idles /\ pc[a] = "pump" /\ Consume(a, Home[a], "pump")

-----------------------------------------------------------------------------
(* Running a task, and nk_task_complete *)

Run(a) ==
    /\ Goto(a, "run", "output")
    /\ ran' = [ran EXCEPT ![task[cur[a]].job] = @ + 1]
    /\ UNCHANGED <<queueVars, memVars, task, sleeping, cur, waitVars, jobs>>

\* Mutant: the flag is set before the output.
CompleteOutput_Early(a) ==
    /\ Goto(a, "output", "flag")
    /\ task' = [task EXCEPT ![cur[a]].completed = TRUE]
    /\ UNCHANGED <<queueVars, memVars, sleeping, cur, waitVars, jobs, ran>>

\* The output is the job's number; a producer that runs it while it waits for
\* another loses the caller's pointer to where the output is to go.
CompleteOutput(a) ==
    /\ Goto(a, "output", "flag")
    /\ task' = [task EXCEPT ![cur[a]].output = task[cur[a]].job]
    /\ dest' = IF a \in Producers THEN [dest EXCEPT ![a] = FALSE] ELSE dest
    /\ UNCHANGED <<queueVars, memVars, sleeping, cur, mine, want, got, jobs, ran>>

CompleteFlag(a) ==
    /\ Goto(a, "flag", "after")
    /\ task' = [task EXCEPT ![cur[a]].completed = TRUE]
    /\ UNCHANGED <<queueVars, memVars, sleeping, cur, waitVars, jobs, ran>>

\* The flags are read again, and a detached task is deleted.
CompleteFree(a) ==
    /\ Goto(a, "after", IF a \in Producers THEN "wait" ELSE Base(a))
    /\ IF task[cur[a]].detached THEN task_dealloc(cur[a]) ELSE UNCHANGED memVars
    /\ cur' = [cur EXCEPT ![a] = Nothing]
    /\ UNCHANGED <<queueVars, task, sleeping, waitVars, jobs, ran>>

-----------------------------------------------------------------------------
(* The task thread of CPU c *)

TryOwn(c) == c \in CPUs /\ pc[c] = "own" /\ Consume(c, c, "other")

TryOther(c) == c \in CPUs /\ pc[c] = "other" /\ \E d \in CPUs : Consume(c, d, "sleep")

\* await_task is checked with the wait queue's lock held.
Sleep(c, ready) ==
    /\ c \in CPUs
    /\ Goto(c, "sleep", IF ready THEN "own" ELSE "asleep")
    /\ sleeping' = IF ready THEN sleeping ELSE sleeping \cup {c}
    /\ UNCHANGED <<queueVars, memVars, task, cur, waitVars, jobs, ran>>

\* Mutant: looks at the queue of unsized tasks only.
TaskSleep_Unsized(c) == Sleep(c, unsized_queue[c] # <<>>)

TaskSleep(c) == Sleep(c, unsized_queue[c] # <<>> \/ sized_queue[c] # <<>>)

TaskAwake(c) ==
    /\ c \in CPUs \ sleeping
    /\ Goto(c, "asleep", "own")
    /\ UNCHANGED <<queueVars, memVars, task, sleeping, cur, waitVars, jobs, ran>>

-----------------------------------------------------------------------------
(* _nk_task_wait *)

\* Not completed: other tasks are pumped meanwhile, this CPU's first.  (Of
\* nk_task_try_wait, nothing happens.)
WaitPump(p) ==
    /\ pc[p] = "wait"
    /\ ~task[mine[p]].completed
    /\ \E c \in CPUs : Consume(p, c, "wait")

\* Completed: the output is taken, and the task deleted.
WaitDone(p) ==
    /\ Goto(p, "wait", "idle")
    /\ task[mine[p]].completed
    /\ got' = [got EXCEPT ![p] = IF dest[p] THEN task[mine[p]].output ELSE @]
    /\ task_dealloc(mine[p])
    /\ mine' = [mine EXCEPT ![p] = Nothing]
    /\ UNCHANGED <<queueVars, task, sleeping, cur, want, dest, jobs, ran>>

-----------------------------------------------------------------------------

Producer(p) == Enqueue(p) \/ ProduceWake(p) \/ WaitPump(p) \/ WaitDone(p)
Complete(a) == Run(a) \/ CompleteOutput(a) \/ CompleteFlag(a) \/ CompleteFree(a)
Thread(c) == TryOwn(c) \/ TryOther(c) \/ TaskSleep(c) \/ TaskAwake(c)

Next ==
    \/ \E p \in Producers : nk_task_produce(p) \/ Producer(p)
    \/ \E a \in Pumps : PumpSized(a)
    \/ \E a \in Idles : IdleConsume(a)
    \/ \E c \in CPUs : Thread(c)
    \/ \E a \in Actors : Complete(a)

Spec == Init /\ [][Next]_vars

\* A task thread that keeps trying gets its own queue's lock some time.
GetsTask(c) == TryOwn(c) /\ pc'[c] = "run"

FairSpec ==
    /\ Spec
    /\ \A p \in Producers : WF_vars(Producer(p))
    /\ \A c \in CPUs : WF_vars(Thread(c)) /\ SF_vars(GetsTask(c))
    /\ \A a \in Actors : WF_vars(Complete(a))

-----------------------------------------------------------------------------
(* Properties *)

Queued(c) == Range(unsized_queue[c]) \cup Range(sized_queue[c])

\* The types of the queues, the reuse stacks, the tasks and the actors.
TypeOK ==
    /\ \A c \in CPUs : Queued(c) \cup Range(free_stack[c]) \subseteq Tasks
    /\ heap \subseteq Tasks /\ sleeping \subseteq CPUs
    /\ \A c \in CPUs : Len(free_stack[c]) <= PoolSize
    /\ cur \in [Actors -> Tasks \cup {Nothing}] /\ mine \in [Producers -> Tasks \cup {Nothing}]
    /\ jobs \in 0 .. MaxJobs /\ ran \in [1 .. MaxJobs -> Nat]

\* Where a task's memory is, each place counted.
Places(t) ==
    (IF t \in heap THEN 1 ELSE 0)
    + Quantify(CPUs, LAMBDA c : t \in Range(free_stack[c]))
    + Quantify(CPUs, LAMBDA c : t \in Queued(c))
    + Quantify(Actors, LAMBDA a : cur[a] = t /\ pc[a] \in {"run", "output", "flag"})

\* "A task is either in task queue, a reuse stack or in the process of being
\* created or destroyed": no memory is in two places at once, whatever is still
\* being done by those that completed a task.
OnePlace == \A t \in Tasks : Places(t) <= 1

\* No task is run twice, however many threads look for tasks.  (All state has its
\* type, and the reuse stacks keep within their limit.)
RunsOnce == TypeOK /\ \A j \in 1 .. MaxJobs : ran[j] <= 1

\* "setting the flag must occur *after* setting the output": who has waited for a
\* task, and has not run others meanwhile, has that task's output, although the
\* task's memory is used again.
WaitDelivers ==
    \A p \in Producers \ Detached : pc[p] = "idle" /\ dest[p] => got[p] = want[p]

\* "wait for a task to complete and optionally get its output": so has who ran
\* others meanwhile.
PumpingDelivers ==
    \A p \in Producers \ Detached : pc[p] = "idle" => got[p] = want[p]

\* Every task that is produced is run: the task thread of its CPU is not left
\* asleep, and the tasks others take are run as well.
EveryTaskRuns == \A j \in 1 .. MaxJobs : (jobs >= j) ~> (ran[j] > 0)
=============================================================================
