# Nautilus in TLA+

Nautilus is an Aerokernel: a small kernel, written in C, that runs a parallel
runtime in kernel mode with all threads in one address space. Its interesting
part is concurrent: a scheduler per CPU, threads that sleep on wait queues and
are woken by other threads or by interrupt handlers, and a family of
synchronisation objects built from these two and from spinlocks. This directory
holds TLA+ models of that part, the TLC runs that check them on small
instances, and TLAPS proofs of what matters most for every instance.

## 1. The system

### 1.1 Inventory

| Component (source) | State | Operations | What it uses | What is hard |
|---|---|---|---|---|
| Scheduler (`scheduler.c`, `scheduler.h`) | per-CPU run queue, pending and runnable real-time queues, `current`; per-thread scheduling status and `current_cpu`; a global thread list | make runnable, scheduling pass (`_sched_need_resched`), yield, sleep, exit, move, steal, change constraints, admission, reap, reanimate, stop/start world | spinlocks, timer, kick IPIs | a thread is on a run queue before its context is saved; a waker races with the pass; admission and queue limits |
| Wait queues (`waitqueue.c`, `waitqueue.h`) | lock, list of waiting threads, slots | enqueue, sleep (with condition, on several queues), wake one, wake all | scheduler sleep and awaken | condition check against a concurrent wake; a thread on two queues woken twice |
| Semaphores (`semaphore.c`) | lock, count, prospective count, wait queue | up, try up, down, try down, down with timeout, create, find, release | wait queue, timer, scheduler sleep | hand-off without recheck; timed waiters consuming wake-ups |
| Message queues (`msg_queue.c`) | lock, ring buffer, two wait queues | push, pull, try, timeout | wait queue, timer, scheduler sleep | full/empty edges, wake-ups of the other side |
| Condition variables (`condvar.c`) | lock, sequence numbers, waiters, wait queue | wait, signal, broadcast, destroy | wait queue | a signal between unlock and sleep |
| Timers (`timer.c`) | state per timer, list of active timers | set, start, cancel, reset, wait, handler | wait queue, scheduler clock | owner, canceller and handler race on one timer |
| Thread barrier (`barrier.c`) | lock, remaining, notify | init, wait, destroy | spin | reuse while draining, destroy and free |
| Core barrier (`barrier.c`) | active, remaining, notify | raise, wait, arrive, lower | cross-CPU calls | two raisers; re-raise before everyone left |
| Counting barrier (`barrier.h`) | two counters, phase | wait | spin | reuse; resetting the counter |
| Thread groups (`group.c`, `group_sched.c`) | members, leader, group barrier, broadcast message | join, leave, barrier, election, broadcast, change constraints of the group | barrier, scheduler | members leave while others wait |
| Threads (`thread.c`) | status, reference count, parent/child lists, output | create, run, exit, join, detach, destroy, fork, thread-local storage | scheduler, wait queue | exit races join, detach and the reaper |
| Tasks (`task.c`, `scheduler.c`) | per-CPU sized and unsized queues, flags per task | produce, consume, complete, wait, task thread | wait queue | completer and waiter race on the descriptor |
| Futures (`future.c`, `future.h`) | state, result, wait queue, pool | alloc, finish, check, wait, recycle, free | wait queue | result visible before state |
| Reader-writer lock (`rwlock.c`) | spinlock, readers | rd/wr lock and unlock | spinlock | writer waits for readers holding the lock |
| Spin and ticket locks (`spinlock.c`, `ticketlock.c`) | lock word, 16-bit tickets | lock, trylock, unlock | atomics | ticket wrap-around |
| Cross-CPU calls (`smp.c`) | one request queue per CPU, one no-wait slot | xcall, handler | IPIs | slot reused before it was served |
| Real-time scheduling (`scheduler.c`) | two heaps of threads by deadline, the aperiodic queue, run times, the one-shot timer | admission, arrival, pass, change of constraints | the CPU's timer | accounting, misses, admission against what is queued at that moment |
| Kernel memory (`mm/buddy.c`, `mm/kmem.c`) | free lists per order and tag bits per zone; one table of block headers | alloc, free, add memory, malloc, free | spinlock per zone, compare-and-swap on headers | split and merge bookkeeping; the unlocked header table |
| Fibers (`fiber.c`) | per-CPU fiber queues | create, run, yield, join | scheduler | cooperative switching |

### 1.2 Behaviours that are hard to test

* The scheduler picks the next thread, drops every lock, and only then saves
  the old thread's context; in between, other CPUs may find the old thread on a
  run queue or a wait queue.
* A wait queue's condition is checked under the queue's lock, the lock is held
  until the scheduling pass has put the thread to sleep, and is released by a
  callback. Semaphores and message queues release the wait queue's lock before
  the pass and hold their own lock instead.
* A thread may sleep on several wait queues (an object and a timer) and be
  woken through any of them, or through two.
* Barriers are reused, and destroyed, while threads are still leaving them.

### 1.3 Correctness properties wanted

No thread runs on two CPUs, none is queued twice, none is lost; no wake-up is
lost; barriers never mix rounds; semaphores never admit more than their count;
message queues deliver every message once and in order; every blocked call
returns once what it waits for has happened; admitted
real-time threads get their slice before every deadline; no memory is
handed out twice, and an allocation fails only when there is no room; a group
changes its constraints as one or not at all.

## 2. The modules

Each module's definitions keep the names of the C functions and fields they
stand for; `PROJECT.json` maps every definition to its lines. Sources are under
`src/src/nautilus/` unless a path says otherwise.

A step is what happens under one lock, or one access to memory that is shared
without a lock. Spinning is a guard: a spinning CPU changes nothing. Locals of a
caller are functions of the thread; `pc[t]` is where it is, with one value for
each point at which another CPU can interfere.

| Module | Models | State | Actions |
|---|---|---|---|
| `Barrier` | the thread barrier of `barrier.c` | `lock`, `remaining`, `notify`, and the result and register of each caller | `nk_barrier_wait` in ten steps (the plain decrement is a load and a store), `nk_barrier_destroy` followed by the caller's free |
| `Sched` | `scheduler.c`: run queues, `_sched_need_resched`, `handle_special_switch`, `_sched_make_runnable`; all of `waitqueue.c` that sleeps and wakes | `status`, `rt`, `curCpu` per thread; `rq`, `current`, `next` per CPU; `wq`, `wqLock`, `cond` per queue | yield, preemption by an interrupt, sleep on one or several queues with a condition, the release callback, the context switch, wake one and wake all by threads and by interrupt handlers |
| `WaitQueue` | the list of a wait queue, for the modules that keep one | none | taking a thread out of the list |
| `SchedMove` | `nk_sched_thread_move` on top of `Sched` | as `Sched` | take from the old CPU, put on the new one |
| `Semaphore` | `semaphore.c` | `count`, `prospective_count`, lock, wait queue, each caller's timer | up, down, try_up, try_down, down_timeout, the timer's signal and wake-up |
| `MsgQueue`, `BoundedFifo` | `msg_queue.c`, and the queue it promises to be | the ring with its three counters, two wait queues, timers | push, pull, their try and timed forms |
| `Timer` | `timer.c` | state, flags and time of each timer, active list, the handler's list of expired timers | `_sleep`, which is `nk_sleep` (waits asleep) and `nk_delay` (spins), `nk_timer_cancel`, `nk_timer_handler` in its phases, callbacks that restart their timer |
| `Condvar` | `condvar.c` | the four sequence numbers, `nwaiters`, mutex, wait queue | wait, signal, bcast, destroy |
| `ThreadLife` | `thread.c`, the thread list and the reaper of `scheduler.c`, the exit switch of `asm/thread_lowlevel.S` | which memory is allocated, listed, dead; reference counts, child lists, join queues | create and its failures, reanimate, run, join, exit, reap, destroy |
| `Task` | the tasks of `scheduler.c`, `task.h` and `idle.c` | both task queues and the reuse stack of each CPU, the descriptors | produce, consume by task threads, by the scheduler's pump, by idle threads and by waiters, complete, wait |
| `RealTime` | the real-time scheduler of one CPU in `scheduler.c` | the clock; the arrival and run heaps, the aperiodic queue and the timer; constraints, deadline and run time of each thread | timer and device interrupts, yield, sleep, exit, wake, start, `nk_sched_thread_change_constraints` with its requeue and re-admission, time passing |
| `Buddy`, `Kmem` | `mm/buddy.c` as operators on a pool, and `mm/kmem.c` over several pools | free lists, tags and the order words in free memory; the header table; who owns which block | malloc (each region in turn, header scan, release, fill in, complete) and free (find, buddy free, clear, unclaim) |
| `Group` | `group.c`, `group_sched.c` | members, leader, size and barrier of each group; the one static `group_state` and its lock | join, leave, delete, barrier, election, reset of the leader, `nk_group_sched_change_constraints` in its phases |

`Sched` is the detailed model of sleeping and waking. The modules of the objects
built on it treat going to sleep as one step where the code holds the wait
queue's lock through the scheduling pass, which is what `Sched` shows to be
safe, and in two where it does not. They keep their callers apart from the
scheduler: a thread that is not asleep can always take its next step.

What the models leave out on purpose: names, statistics, debug output, and the
order of steps inside a critical section that nobody can see. `Semaphore` and
`MsgQueue` use a timer that is armed, fires once and is cancelled by its owner;
what can go wrong inside the timer lists is the subject of `Timer`. `Group`
takes the change of one thread's constraints as admitted or refused, which is
`RealTime`'s subject. In `RealTime` one unit of time is the smallest slice the
code admits, and what the scheduler does takes no time. The 64-bit push and pull
counters of a message queue are natural numbers: they wrap after 2^64 messages.
`Group` has no join that fails for want of memory (`group.c:387`), which changes
no state, and no leave that does not find the member in its CPU's list
(`group.c:421-433`). In `Kmem` an owner overwrites its block once, with the same
word everywhere. In `ThreadLife` the memory of a child whose creation failed after
it was put on its creator's list (`undone`) is not allocated again: a list node
that is linked into two lists is beyond the model. `Timer` keeps the lists as
sets, which say nothing of the links once a node has been put on a second list
(`relinked`).

## 3. The runs

| Run | What it shows | States |
|---|---|---|
| `barrier` | three threads, three rounds, then one of them destroys and frees the barrier: rounds never mix (`BarrierSync`), the unprotected counter is never decremented while others increment it (`NoRemainingRace`), nothing touches freed memory (`NoUseAfterFree`), every wait returns (`EveryWaitReturns`) | 2,360 |
| `sched` | two threads and two interrupt handlers on two CPUs, two wait queues, sleeps on one or both: no thread is on two CPUs (`OneCpuPerThread`) or queued twice (`QueuedOnce`), the errors the scheduler reports cannot happen (`NoSchedulerError`), no wake-up is lost (`NoLostWakeup`), every runnable thread runs (`RunnableRuns`), every sleeper whose condition became true returns (`SleepersReturn`) | 94,150 |
| `sched_move` | three threads that sleep on two queues, wake-one wakers and moves at any time: the run queues stay consistent and lose nobody (`OneRunQueue`) | 1,890,474 |
| `semaphore` | three uses (everybody takes and puts back; two wait and two put back; one waits with a timeout): no unit is given twice (`NoOverAdmission`), a negative count is the number of waiters and wakers only meet sleepers (`CountKnowsWaiters`), no unit lies idle next to a sleeping timed waiter (`NoIdleUnit`), waits end (`WaitsReturn`) | 53,764 |
| `msg_queue` | three uses of a queue of two slots (producers and consumers that block; that poll; that have timeouts): the ring refines `BoundedFifo` (`ImplementsFifo`), nobody sleeps on a side that could proceed unless somebody is on the way (`NobodyForgotten`), waits end (`WaitsReturn`) | 31,709 |
| `timer` | two threads that sleep or spin twice, one callback timer, one thread that cancels: no sleep ends early; and until a thread starts a timer again that is still on the handler's list (section 5), each timer is on one list, active ones are on the active list (`ListedOnce`), and each sleep whose timer is not cancelled ends (`SleepReturns`) | 334,941 |
| `condvar` | two waiters, a signaller, a broadcaster that also destroys: the sequence numbers agree with the waiters (`SeqsCountWaiters`), destroy is safe (`DestroyedUnused`), a broadcast gets sleepers out (`BroadcastReleases`) | 52,309 |
| `thread_life` | three thread slots, three creations, every failure of a creation (no such CPU, no scheduler state, wait queue or list node, too many threads), concurrent reaps: no memory in use is freed or given away (`FreedUnused`), what the reaper collected stays dead (`PoolStaysDead`), a joined thread has exited and joins end (`JoinReturns`); all of it but for the children that a failed creation leaves freed on their creator's list (section 5) | 111,616 |
| `task` | two CPUs, two producers, task threads, a pump, an idle thread: no descriptor is in two places (`OnePlace`), tasks run once (`RunsOnce`), waiters get their output (`WaitDelivers`), every task runs (`EveryTaskRuns`) | 305,682 |
| `real_time` | three threads and six workloads (changes of class of which not all fit; a sporadic thread that joins; sleep and wake; sporadic threads started elsewhere; device interrupts; a thread that makes itself sporadic): no thread is lost and both heaps are heaps (`QueuesSound`), the earliest deadline runs (`EarliestDeadlineRuns`), nobody runs past its slice, and the assertion of `set_timer` holds except for threads that make themselves sporadic (`NeverOverruns`), in steady workloads every admitted thread gets its slice before each deadline (`SliceGuaranteed`) | 787,957 |
| `kmem` | three threads, two zones of which one is only partly usable, three headers: blocks and free memory partition each zone (`MemoryPartitioned`), an allocation fails only when no free run is large enough (`AllocFindsSpace`), every block is freed with the zone and order it was allocated with (`HeadersMatchBlocks`) | 1,280,162 |
| `group` | three threads, two groups that share one `group_state`, five workloads: a group change is all or nothing and two changes never share the state (`ChangeAllOrNothing`), a group is deleted after its last member is out (`DeletedUnused`), every call returns (`AllReturn`) | 423,566 |

The type invariants of `Barrier` and `Sched` are proved (section 4); that of each
other module that has one is the first conjunct of one of the invariants above.
Every property has been seen to fail under a change of
the code it is about; `PROJECT.json` names the changed definitions, which stand
beside the ones they replace.

### 3.1 Bounds, and why they are enough

`MaxCalls`, `MaxSleeps`, `MaxCreates`, `MaxReaps`, `MaxJobs`, `MaxChanges` and
`MaxTime` bound how often an operation is started or how long the clock runs,
never what happens inside an operation; `Kmem` and `Group` take the calls of
each thread from their workloads instead. Two calls per thread suffice for every
case in which an object is reused while an earlier call is still leaving it; the
barrier has three, so that a fast thread can be two rounds away from a slow one's
first. The clock of `timer` has two ticks and a sleep takes one, so that a second
sleep is begun while the handler is at work on the first. In `thread_life` there
may be a thread of the rest of the system (`Others`) beside those of the three
slots, so that the same creation may be vetoed or not. `Sched` needs no bound: its state is finite. `sched` still bounds the
operations each thread and handler starts (`MaxOps`, `MaxWakes`), because its
liveness needs it: a test-and-set spinlock lets a CPU be overtaken for as long as
others keep coming back. `sched_move` runs the same actions without a bound.

Two CPUs, two or three threads and two queues give every conflict the code has
between a waker, a sleeper and a bystander; the proofs remove the bounds for the
safety of `Barrier`, `Sched`, `Semaphore`, `MsgQueue`, `Condvar`, `Timer`,
`ThreadLife` and `Task`. Sizes of queues and
reuse stacks are 1 or 2, so that full, empty and wrapped around all happen. The
clock of `real_time` covers three periods of its shortest thread and the
deadline of every sporadic one. `kmem` has a zone of four blocks, which is the
smallest in which a buddy of the right address can have the wrong order, one with
a hole, and fewer headers than blocks.

No run uses symmetry: most check liveness, for which it is unsound. Deadlock is
checked in `barrier`, `sched_move`, `timer` and `real_time`. The other models stop
when the bounded calls have been made, or when a thread waits for an event nobody
will bring about (a `down` without an `up`), which is legitimate.

### 3.2 Fairness

Weak fairness of each thread's steps: CPUs keep executing, and every thread
inside an operation is scheduled again, which is what `RunnableRuns` shows of
the scheduler itself. Weak fairness of the timer interrupt and its handler. No
fairness on starting a call, except in `Group`, whose workloads are programs that
run to their end, in `Barrier` and `Timer`, where all participants come to every
round and every sleeper sleeps as often as it may, and in `ThreadLife`, where the
functions of threads return. In `Task` a task thread only tries the lock of its queue, and
strong fairness of a successful attempt says that one which keeps trying gets it
some time. `sched_move`, `real_time` and `kmem` check safety only.

## 4. The proofs

The proof modules show for every number of threads, CPUs and queues, every
initial count, size of ring and number of calls what the runs show on small
instances. They rest only on the named assumptions about the constants, each in
the module that declares them, and on the hypotheses their statements name.

**Barrier.** `Inv` is `TypeOK /\ Counting /\ Locking /\ Rounds /\ Destroying /\
Lasts`. `BarrierSync` alone is not inductive: that no thread is two rounds
ahead needs the count of threads inside to agree with `remaining` in both phases
of the barrier (`Counting`), and that needs the lock, which is taken by the last
thread in and released by the last one out, to be held for the whole time the
barrier drains (`Locking`). From `Inv` follow `TypeCorrect`, `Synchronises`,
`DecrementIsSafe`, `OneLastPerRound`, `FreeIsSafe` and `DestroyNeverFails` (a
thread that has returned from its last wait never gets the error of
`nk_barrier_destroy`).

**Scheduler.** `SchedProofs` has the inductive invariant, the facts about queues,
the proof that the steps of the pass, of sleeping and of waking preserve it, and
the theorems. A few lemmas say what leaves a main conjunct alone (`BusyKept`,
`AnnouncedKept`, `PlacedKept`, `LocksKept`), so that most actions need an argument
only for what they change. The invariant says where a thread is by its status (`Placed`), that a
thread in a waker's hands is nowhere else (`InHand`), who is on which wait queue
and who holds which lock (`Queued`, `Locks`), and that the pass sees what
`handle_special_switch` announced (`Announced`). The argument: only a CPU's own
passes take threads off its run queue, so a thread that is queued while its CPU
still runs on its stack cannot start elsewhere; and the locks of the wait queues
are held until the pass is over, so a waker only finds threads WAITING that are
off the run queue. From it follow `TypeCorrect`, `ThreadsRunOnOneCpu`,
`ThreadsAreQueuedOnce`, `ThreadsAreNeverForgotten` and
`SchedulerErrorsUnreachable`. `NoWakeupIsLost` adds that with wake-all wakers
nobody is left asleep with its condition true; its inductive step uses that the
condition is checked under the queue's lock.

**Semaphore.** `nk_semaphore_down` takes its unit before it sleeps and does not
look at the count again when it is woken. That this is right depends on who can
be woken, and the invariant of `SemaphoreProofs` counts: in every use of the
semaphore the count is the initial count plus the units given, less those
acquired and less the threads inside `down` (`Balanced`). If nobody uses
`down_timeout`, the threads nobody has woken yet are as many as the wakers on
their way plus the negative part of the count (`Known`), which needs that the
lock is held until the thread is asleep (`Locked`) and that the wait queue holds
exactly the waiting threads, each once and the newest last (`Queued`). From
it follow `CountIsRight` and, as an unwoken thread has not returned,
`NeverOverAdmits`, which also covers the uses in which nobody calls `down`. With
both kinds of waiters on one semaphore it does not hold (section 5), so the
theorem says so in its hypothesis. `NoUnitIsIdle` covers the uses in which nobody
has a timeout, and those in which one thread waits, with a timeout, beside any
number that release units. The first follows from `Known`; for the second
`LoneInv` says that the prospective count announces that thread for as long as it
may sleep, so that whoever puts a unit back meanwhile goes on to wake it and can
find nobody else. Two timed waiters break it (section 5).

**Message queue.** `RingInv` relates the three counters that the code keeps
separately, `cur_push = cur_pull + cur_count` with the count within the size.
From it a push appends to, and a pull takes the head off, the sequence of slots
between the two counters: two places less than the size of the ring apart are
different slots (`RemaindersDiffer`). `ImplementsBoundedFifo` is the refinement:
every step of every push and pull, blocking, trying or timed, is a step of
`BoundedFifo` or leaves its state alone. `NobodyIsForgotten` says that
without timed operations nobody sleeps on a side that could proceed unless
somebody is on the way: while threads sleep on a side, there are for every
message (or free slot) a thread of that side that is awake or one that is about
to wake one (`Enough`), which needs that a thread goes to sleep with the lock held
(`Locked`) and that each side's wait queue holds its sleepers (`Queued`).

**Condition variable.** `Inv` places every thread by its program counter and
counts (`Counted`): the waiters no broadcast has released are `main_seq -
woken_seq`, all of them `nwaiters`, and the wake-ups taken are at most those given.
`Cleared` adds that a cleared variable has no waiters. From it follow
`SeqsAreRight` and `DestroyIsFinal`. That the counts agree does not mean that
every signal arrives; it does not (`NoLostSignal`, section 5).

**Timer.** `OneListAtATime` shows for any number of sleeps that a timer's single
list node is never on two lists and that an active timer is on the active list, as
long as no thread has started a timer again that was still on the handler's list
(`relinked`, section 5). What has to be added is that the active list holds exactly
the active timers, and that a thread which is about to start its timer finds it
inactive or signalled (`InOneList`). `SleepIsNeverShort` has no exception but
cancellation: a signalled timer has expired or was cancelled, whatever has become of
the lists (`Signals`).

**Thread life cycle.** `FreedIsUnused` shows, for any number of threads, creations
and reapers and whatever creation fails, that memory is freed or reused only when no
CPU is on its stack, nobody joins the thread and no child list leads to it. Its one
exception is a child whose creation failed after it was listed: it is still no stack
and nobody has its lock, but its creator's list leads to it (`undone`, section 5).
`CollectedStaysDead` shows that a collected thread stays dead until it is destroyed,
and `JoinAssertionHolds` that the assertion in `nk_join` does hold. The invariant of
`ThreadLifeProofs` says who may hold a reference to a thread (its parent through the
child list or a join in progress, the exiting thread itself; `Holding`) and that the
reference count is never below the number of them (`Counting`). It may be above: the
plain decrements of `thread_detach` and `nk_thread_exit` may lose one another
(section 5), which leaks but never frees early.

**Tasks.** The invariant of `TaskProofs` gives a task's memory one place: the heap,
a reuse stack, a queue, the hands of its producer before it is queued, or those of
the one actor that runs it or will free it (`Exclusive`; `NoRepeats` says that it is
there once). `Jobs` says that tasks which were not run yet have jobs of their own,
and `Delivered` that a task somebody waits for stays what it is until the waiter has
it, completed only when its output is stored and nobody else has it. An action moves
at most one task (`Moves`), and that keeps the places apart (`ExclusiveMoved`).
One thing the code does not ensure by itself. Who completes a task reads its flags again
after the flag that lets the waiter free it (section 5), so the invariant holds as
long as no detached task is given memory that is still looked at in this way:
`InvarianceGivenSafeReuse` has that as its hypothesis (`SafeReuse`).
`MemoryIsReusedSafely` discharges it under a condition on the constants
(`Separate`): no tasks are detached, or the CPUs for which tasks to be waited for
are produced have no producers of detached ones, and no more producers than their
reuse stack has slots. Its invariant `AtHome` counts a CPU's share, the tasks on its
stack and those of its busy producers: the stack never overflows into the heap,
so such a task never leaves its CPU. `TasksAreInOnePlace`, `TasksRunOnce` and
`WaitersGetOutputs` are the run's three invariants under that condition, which
the run's constants satisfy.

**Only model-checked.** All liveness (the prover handles neither fairness nor
ENABLED); `OneRunQueue`, as with moves two CPUs may be on one stack and the
invariant of `SchedProofs` does not hold; `RealTime` and `Kmem`, as
heaps, utilisations and the splitting and merging of `Buddy` are recursive
computations, which the prover cannot reason about by induction; and `Group`,
whose properties hold for the workloads of its run and not in general (section 5).

## 5. Disagreements seen while modelling

They were found with the modules of this directory and the constants given; the
definition named states what the code or its comments say, and fails.

| Where | What | Reproduced by |
|---|---|---|
| `semaphore.c:288` | `down` trusts every wake-up, also one that `up` meant for a timed waiter, and then returns without a unit | `MCSemaphore` with `MixedWorkloads`: `NoOverAdmission` |
| `scheduler.c:4091` | "A task is either in task queue, a reuse stack or in the process of being created or destroyed" (`task.h:78`): who completes a waited-for task still reads its flags when the waiter has freed it and its memory is a new, detached task, and frees that | `MCTask` with one CPU, `Home <- Together`, no pump and no idle thread, `Sizes = {0}`, `PoolSize = 2`: `OnePlace` |
| `barrier.c:155` | `NK_BARRIER_LAST` goes to the last thread to arrive; the comment (139-142) says the last one out, which may clean up | `Barrier`: `LastOut` |
| `scheduler.c:2958` | "a running thread cannot be moved" (`scheduler.h:121`): a thread that the pass has queued but not yet switched away from can be | `SchedMove`: `RunningThreadNotMoved` |
| `msg_queue.c:407` | push and pull sleep without the wait queue's lock; a wake-up that comes after the status was announced and before the pass makes the pass queue the thread a second time | `Sched` with such a sleep added |
| `semaphore.c:357` | a timed waiter that is woken after its deadline leaves the unit and the wake-up, so that another sleeps on next to it | `Semaphore` with `TwoTimed`: `NoIdleUnit` |
| `semaphore.c:228` | a timed waiter takes the wake-up of a thread in `down`, which stays asleep | `Semaphore` with `Mixed`: `NoStrandedDown` |
| `msg_queue.c:513` | a timed operation that succeeds wakes nobody, though "we may need to wake up someone trying to push" (392) | `MsgQueue` with a thread in a timed pull beside two in a plain push: `NobodyForgotten` without its `Untimed` |
| `timer.c:388` | a sleeper that sees its timer signalled may restart it while it is still on the handler's list: one node on two lists. For the same reason a thread that returns, exits and is destroyed takes its timer with it while the handler still has it | `Timer`: `ListedOnce` without `relinked = {}` |
| `timer.c:236` | cancelling a timer that has gone off takes the signal back, and its waiter sleeps for ever | `Timer`, `SleepReturns` without its second disjunct |
| `condvar.c:103` | a waiter is counted, drops the lock and only then goes to sleep: a signal in between counts as given and wakes nobody | `Condvar` with `OneWaiter`: `NoLostSignal` |
| `thread.c:695` | the exiting thread and its joiner decrement the reference count at the same time; one decrement may be lost and the thread is never reaped | `ThreadLife`: `RefcountIsReferences` |
| `thread.c:414` | "from this point, if we are using a reanimated thread, and we fail, we can safely free the thread" (356): a creation that fails for want of a wait queue or scheduler state, or that the scheduler vetoes, frees a thread that is on its parent's child list already. Joining that child looks at freed memory and, while that stays as it was, does not end | `ThreadLife`: `FreedUnused` and `JoinReturns` without their exceptions (`undone`, `Stuck`) |
| `scheduler.c:1262` | `nk_sched_thread_post_create` returns 0 when it has no list node, and the thread runs unlisted | `ThreadLife`: `StartedIsListed` |
| `asm/thread_lowlevel.S:113` | with cache partitions, address spaces or hardware TLS the exit switch pushes on a stack that may already be reused | builds not modelled |
| `scheduler.c:4131` | a waiter that runs other tasks meanwhile overwrites its output parameter | `Task`: `PumpingDelivers` |
| `scheduler.c:2277` | the pass adds the time since the thread was started (2248) and then leaves early on an interrupt that is not the timer's, without a new start time: the next pass adds the same time again, and the thread gets less than its slice | `RealTime`, workload `Interrupted`: `SliceGuaranteed` without `Steady` |
| `scheduler.c:3485` | admission adds up what is queued; the running thread and sleeping ones are on no queue, so that more is admitted than fits | `RealTime` with two threads that ask for half of the CPU each, the first asleep or running while the second is admitted: both are, beyond the limit of 69% |
| `scheduler.c:3431` | a thread that makes itself sporadic is charged from start time 0 at its next pass; its timer then runs into the assertion at 1981, or it is demoted at once | `RealTime`, workload `Promoting`: `NeverOverruns` without `SelfMade` |
| `scheduler.c:3538` | the utilisation of a pending sporadic thread divides by the time between its phase and its deadline, which is zero or negative (unsigned: huge) when it has waited long enough; 3583 divides by the period before the limits are checked | arithmetic, seen while modelling `Util` |
| `mm/kmem.c:682` | the header of a block is cleared after the block is back in its pool: with two threads that free, a new owner of the address finds two headers for it, and a block is freed with the order of another | `Kmem` with a thread that allocates and frees order 1 beside one with order 0: `HeadersMatchBlocks` |
| `group.c:249` | a leave that releases two waiting members does not hold the lock while they drain, as the barrier itself does, so their next round may mix with this one; and the leave of the last member of all sets `notify` with nobody there to clear it, so the next users' first barrier does not wait | `Group`, such workloads: `ChangeAllOrNothing` |
| `group.c:406` | a leader that leaves stays leader: no other member is elected and the next group change has none | `Group`: `ChangeAllOrNothing` |
| `group.c:450` | the members of `src/test/groups.c:188` all call delete after they have left; the second one uses a group that is gone | `Group` with such a workload: `DeletedUnused` |
| `group.c:384` | a joiner is counted by the barrier before `group_size` counts it, so that a delete between the two frees the group under it; a leave by a thread that has moved to another CPU is not found in its list, and `group_size` stays as it is | seen while modelling; the second is not an action |
| `group.c:520` | the receivers of a broadcast assign the message to their parameter and drop it | seen while reading |

The runs that pass either stay clear of these or except them by name. `task` keeps
detached and waited-for tasks on different CPUs, so that they do not share a reuse
stack; `semaphore` does not mix timed and untimed waiters; in `kmem` one thread
frees; in `group` a leave finds at most one member waiting, and one thread deletes.
`timer`, `thread_life` and `real_time` do what the table says, and their properties
except its consequences: that timers are on one list and that sleeps end is claimed
up to the first timer that is started on the handler's list, and that sleeps end not
for a timer that was cancelled; `FreedUnused` and `JoinReturns` leave out the freed child on
its creator's list; `NeverOverruns` does not claim the assertion of `set_timer` for
a thread that made itself sporadic; and `SliceGuaranteed` is claimed for workloads
in `Steady`, in which no thread sleeps, makes itself sporadic or is interrupted by
a device.

## 6. Not modelled

`PROJECT.json` lists every part with its reason. In short:

* **No concurrency of its own.** Futures are a flag and a wake-all under the wait
  queue's lock, which is what `Sched` checks; reader-writer, spin and ticket locks
  are one atomic instruction, and the models take what is done under them as one
  step; idle threads only matter where they run tasks (`Task`).
* **No user, or set-up only.** The core barrier is called by the Lua bindings only; the
  counting barrier is used by the scheduler to stop and start the world
  (`scheduler.c:965-979`, `2185-2190`), by the monitor, by tests and by the OpenMP
  port, and left out with them; cross-CPU calls are one
  request at a time and appear to their users as a call; booting, interrupt tables,
  paging, NUMA and the other machine set-up happen once, in hardware tables.
* **Parts of modelled components.** Stealing of threads, stop and start
  of the world, the lottery and priority policies for aperiodic threads, sized
  tasks inside the pass, `realloc` and the mask walks of the memory allocator,
  broadcast in groups, `nk_thread_fork` (it copies a stack), thread-local storage,
  and the names and lists by which objects are found.
* **Hardware and people at the other end.** Drivers, consoles, the shell, the
  debugger stub, file systems and the network stack.
* **Ported code.** The run-time systems, the C library, Lua, the collectors.
