------------------------------ MODULE RealTime ------------------------------
(***************************************************************************)
(* The real-time scheduler of one CPU (src/src/nautilus/scheduler.c): the  *)
(* admission of periodic and sporadic threads, the arrival and run queues  *)
(* ordered by deadline, the scheduling pass with its accounting of run     *)
(* times, the one-shot timer, and the change of a thread's constraints.    *)
(*                                                                         *)
(* Time is discrete: one unit stands for SLICE_LOWER_LIMIT (10 us), so the *)
(* granularity test of the admission always passes.  Everything the        *)
(* scheduler does takes no time, and the timer interrupt is taken when it  *)
(* is due.                                                                 *)
(***************************************************************************)
EXTENDS Integers, Sequences, FiniteSets, SequencesExt, FiniteSetsExt, TLC

CONSTANTS Threads,      \* the threads of this CPU
          Idle,         \* its idle thread
          Workloads,    \* what may happen: [wants, starts, sleepers, leavers, irqs]
          Quantum,      \* cfg.aperiodic_quantum
          util_limit, aperiodic_reservation, sporadic_reservation,
          MaxTime,      \* bound on the clock
          MaxChanges    \* bound on the changes of constraints of each thread

VARIABLES now,       \* cur_time()
          sched,     \* rt_scheduler: runnable, pending, aperiodic, current, set_time
          rt,        \* rt_thread of each thread
          place,     \* "new", "ready" (on a queue or current), "asleep", "gone"
          asked,     \* the constraints a thread has yet to be re-admitted with
          changes,   \* how often each thread has changed its constraints
          load,      \* the workload
          got,       \* the time each thread really ran since its last arrival
          short      \* the threads that ever were given less than their slice

vars == <<now, sched, rt, place, asked, changes, load, got, short>>

All == Threads \cup {Idle}
UTIL_ONE == 1000000
PERIOD_LOWER_LIMIT == 2
SLICE_LOWER_LIMIT == 1
Never == MaxTime + 1000

Aperiodic == [type |-> "APERIODIC"]
None == [type |-> "NONE"]

\* The time an arrival of a real-time thread is good for.
Budget(c) == IF c.type = "PERIODIC" THEN c.slice ELSE c.size

IsRT(t) == rt[t].cons.type \in {"PERIODIC", "SPORADIC"}

-----------------------------------------------------------------------------
(* The queues: two heaps ordered by deadline, and one FIFO *)

Parent(i) == i \div 2
Left(i) == 2 * i

RECURSIVE SiftUp(_, _, _, _)
SiftUp(q, pos, t, r) ==
    IF pos # 1 /\ r[q[Parent(pos)]].deadline > r[t].deadline
    THEN SiftUp([q EXCEPT ![pos] = q[Parent(pos)]], Parent(pos), t, r)
    ELSE [q EXCEPT ![pos] = t]

rt_priority_queue_enqueue(q, t, r) == SiftUp(Append(q, t), Len(q) + 1, t, r)

\* The right child may be the entry behind the shortened heap, which still
\* holds the last thread.
RECURSIVE SiftDown(_, _, _)
SiftDown(q, pos, r) ==
    LET last == q[Len(q)]
        l == Left(pos)
    IN  IF l >= Len(q) THEN [q EXCEPT ![pos] = last]
        ELSE LET child == IF r[q[l + 1]].deadline < r[q[l]].deadline THEN l + 1 ELSE l
             IN  IF r[last].deadline > r[q[child]].deadline
                 THEN SiftDown([q EXCEPT ![pos] = q[child]], child, r)
                 ELSE [q EXCEPT ![pos] = last]

rt_priority_queue_dequeue(q, r) == Front(SiftDown(q, 1, r))

\* round_robin_get_next_aperiodic: the idle thread is skipped if possible.
Rotated(q) == IF Head(q) = Idle /\ Len(q) > 1 THEN Append(Tail(q), Idle) ELSE q

-----------------------------------------------------------------------------
(* Admission *)

rms_levels == <<1000000, 828427, 779763, 756828, 743491, 734772, 728626, 724061,
                720537, 717734, 715451, 713557, 711958, 710592, 709411, 708380>>

get_periodic_util_rms_limit(count) == IF count > 16 THEN 693147 ELSE rms_levels[count]

\* The differences passed to it are unsigned: a negative one has become huge.
Util(work, time) ==
    CASE time < 0 -> 0
      [] time >= 0 /\ work < 0 -> 1000 * UTIL_ONE
      [] OTHER -> (work * UTIL_ONE) \div time

\* Mutant: a thread that waits for its next arrival is not counted.
Queued_Runnable(s, r, type) == {t \in Range(s.runnable) : r[t].cons.type = type}

\* The threads that get_periodic_util and get_sporadic_util count.
Queued(s, r, type) == {t \in Range(s.runnable) \cup Range(s.pending) : r[t].cons.type = type}

get_periodic_util(s, r) ==
    MapThenSumSet(LAMBDA t : Util(r[t].cons.slice, r[t].cons.period),
                  Queued(s, r, "PERIODIC"))

\* A runnable thread is measured by what is left of it, a pending one whole.
get_sporadic_util(s, r) ==
    MapThenSumSet(LAMBDA t :
        IF t \in Range(s.runnable)
        THEN Util(r[t].cons.size - r[t].run_time, r[t].cons.deadline - now)
        ELSE Util(r[t].cons.size, r[t].cons.deadline - now - r[t].cons.phase),
        Queued(s, r, "SPORADIC"))

per_res == util_limit - aperiodic_reservation - sporadic_reservation

Admissible(s, r, c) ==
    CASE c.type = "APERIODIC" -> TRUE
      [] c.type = "PERIODIC" ->
            /\ c.period >= PERIOD_LOWER_LIMIT /\ c.slice >= SLICE_LOWER_LIMIT
            /\ LET n == Cardinality(Queued(s, r, "PERIODIC"))
               IN  get_periodic_util(s, r) + Util(c.slice, c.period)
                     < Min({get_periodic_util_rms_limit(n + 1), per_res})
      [] c.type = "SPORADIC" ->
            /\ c.size >= SLICE_LOWER_LIMIT
            /\ now + c.phase + c.size < c.deadline
            /\ get_sporadic_util(s, r) + Util(c.size, c.deadline - (now + c.phase))
                 < sporadic_reservation

\* reset_state, and the time of the first arrival.
Admitted(c) ==
    [cons |-> c, run_time |-> 0, start_time |-> 0,
     deadline |-> IF c.type = "APERIODIC" THEN 0 ELSE now + c.phase]

\* The queues after _sched_make_runnable of t.
MakeRunnable(s, r, t) ==
    IF r[t].cons.type = "APERIODIC"
    THEN [s EXCEPT !.aperiodic = Append(@, t)]
    ELSE [s EXCEPT !.pending = rt_priority_queue_enqueue(@, t, r)]

-----------------------------------------------------------------------------
(* The scheduling pass.  It works on a record x of the queues (s), the      *)
(* threads' scheduling state (r) and the two histories (got, short).        *)

\* Moves the threads that have arrived from the pending to the run queue.
RECURSIVE Arrivals(_)
Arrivals(x) ==
    IF x.s.pending = <<>> \/ x.r[Head(x.s.pending)].deadline > now THEN x
    ELSE LET t == Head(x.s.pending)
             c == x.r[t].cons
             arrived == IF c.type = "PERIODIC"
                        THEN [x.r EXCEPT ![t].deadline = @ + c.period, ![t].run_time = 0]
                        ELSE [x.r EXCEPT ![t].deadline = c.deadline]
         IN  Arrivals([x EXCEPT
                !.r = arrived,
                !.s.pending = rt_priority_queue_dequeue(@, x.r),
                !.s.runnable = rt_priority_queue_enqueue(@, t, arrived),
                !.got[t] = 0])

\* Mutant: a thread that changes its constraints is treated as preempted.
Special_NotChanging(what) == what \in {"SLEEPING", "EXITING"}

\* The current thread is not to be put on a queue by the pass.
Special(what) == what \in {"SLEEPING", "EXITING", "CHANGING"}

\* The current thread has used up its slice or size.
Done(x, c) ==
    /\ x.r[c].cons.type \in {"PERIODIC", "SPORADIC"}
    /\ x.r[c].run_time >= Budget(x.r[c].cons)

\* A current thread whose time is over, or that never had a claim on it, goes
\* to the queue it belongs to unless what it does keeps it off the queues.
PutBack(x, c, what) ==
    LET cons == x.r[c].cons
        missed == now > x.r[c].deadline
        again == [x.r EXCEPT ![c].deadline = @ + cons.period, ![c].run_time = 0]
        y == [x EXCEPT !.short = IF Done(x, c) /\ ~Special(what) /\ x.got[c] < Budget(cons)
                                 THEN @ \cup {c} ELSE @]
    IN  CASE cons.type = "APERIODIC" ->
                IF Special(what) THEN x ELSE [x EXCEPT !.s.aperiodic = Append(@, c)]
          [] cons.type = "SPORADIC" /\ Done(x, c) ->
                IF Special(what) THEN x
                ELSE [y EXCEPT !.r[c].cons = Aperiodic, !.s.aperiodic = Append(@, c)]
          [] cons.type = "PERIODIC" /\ Done(x, c) /\ missed ->
                IF Special(what) THEN [x EXCEPT !.r = again, !.got[c] = 0]
                ELSE [y EXCEPT !.r = again, !.got[c] = 0,
                               !.s.runnable = rt_priority_queue_enqueue(@, c, again)]
          [] cons.type = "PERIODIC" /\ Done(x, c) /\ ~missed ->
                IF Special(what) THEN x
                ELSE [y EXCEPT !.s.pending = rt_priority_queue_enqueue(@, c, x.r)]
          [] OTHER -> x

\* The thread to run next, with the queues it is taken from.
Pick(x, c, stays) ==
    LET run == x.s.runnable
        ap == Rotated(x.s.aperiodic)
    IN  CASE stays -> x
          [] ~stays /\ run # <<>> ->
                [x EXCEPT !.s.current = Head(run),
                          !.s.runnable = rt_priority_queue_dequeue(@, x.r)]
          [] OTHER -> [x EXCEPT !.s.current = Head(ap), !.s.aperiodic = Tail(ap)]

\* Mutant: what a preempted thread has already used is forgotten.
Remaining_Whole(x, n) == Budget(x.r[n].cons)

Remaining(x, n) == Budget(x.r[n].cons) - x.r[n].run_time

\* set_timer for the thread that was picked.
set_timer(x) ==
    LET n == x.s.current
        cons == x.r[n].cons
        arrival == IF x.s.pending = <<>> THEN Never ELSE x.r[Head(x.s.pending)].deadline
        preempt == IF cons.type = "APERIODIC" THEN now + Quantum
                   ELSE now + Remaining(x, n)
    IN  [x EXCEPT !.s.set_time = Min({arrival, preempt}),
                  !.r = [t \in All |-> [@[t] EXCEPT !.start_time = IF t = n THEN now ELSE 0]]]

\* The time the current thread ran is charged to it.  Round robin makes no
\* use of an aperiodic thread's run time.
Charged(s, r) ==
    LET c == s.current
    IN  IF r[c].cons.type = "APERIODIC" THEN r
        ELSE [r EXCEPT ![c].run_time = @ + (now - r[c].start_time)]

\* Mutant: a real-time thread is never preempted by another one.
Precedes_Never(x, t, c) == FALSE

\* Thread t of the run queue is to run before the current thread c.
Precedes(x, t, c) == x.r[c].deadline > x.r[t].deadline

\* The long path of _sched_need_resched.
NeedResched(what, s, r) ==
    LET c == s.current
        x == Arrivals([s |-> s, r |-> Charged(s, r), got |-> got, short |-> short])
        real == x.r[c].cons.type # "APERIODIC"
        first == IF x.s.runnable = <<>> THEN c ELSE Head(x.s.runnable)
        fast == what = "CHANGING" /\ real /\ x.s.runnable # <<>> /\ first = c
        claims == real /\ ~Done(x, c) /\ ~Special(what)
        stays == claims /\ (x.s.runnable = <<>> \/ ~Precedes(x, first, c))
        next == Pick(IF fast THEN x ELSE PutBack(x, c, what), c, stays)
    IN  set_timer(IF claims /\ ~stays
                  THEN [next EXCEPT !.s.runnable = rt_priority_queue_enqueue(@, c, x.r)]
                  ELSE next)

Resched(what, s, r) ==
    LET x == NeedResched(what, s, r)
    IN  /\ sched' = x.s
        /\ rt' = x.r
        /\ got' = x.got
        /\ short' = x.short

-----------------------------------------------------------------------------
(* What the threads, the interrupts and the other CPUs do *)

Runs(t) == sched.current = t /\ asked[t] = None

\* The timer interrupt.
Timer ==
    /\ now >= sched.set_time
    /\ Resched("ADMITTED", sched, rt)
    /\ UNCHANGED <<now, place, asked, changes, load>>

\* Any other interrupt.  Unless the idle thread is interrupted, the pass takes
\* its early exit, after it has charged the current thread.
Interrupt ==
    /\ load.irqs
    /\ now > rt[sched.current].start_time
    /\ now <= sched.set_time
    /\ IF sched.current = Idle
       THEN Resched("ADMITTED", sched, rt)
       ELSE /\ rt[sched.current].run_time <= MaxTime
            /\ rt' = Charged(sched, rt)
            /\ UNCHANGED <<sched, got, short>>
    /\ UNCHANGED <<now, place, asked, changes, load>>

nk_sched_yield(t) ==
    /\ Runs(t)
    /\ Resched("YIELDING", sched, rt)
    /\ UNCHANGED <<now, place, asked, changes, load>>

nk_sched_sleep(t) ==
    /\ Runs(t) /\ t \in load.sleepers
    /\ Resched("SLEEPING", sched, rt)
    /\ place' = [place EXCEPT ![t] = "asleep"]
    /\ UNCHANGED <<now, asked, changes, load>>

nk_sched_exit(t) ==
    /\ Runs(t) /\ t \in load.leavers
    /\ Resched("EXITING", sched, rt)
    /\ place' = [place EXCEPT ![t] = "gone"]
    /\ UNCHANGED <<now, asked, changes, load>>

\* _sched_make_runnable of a sleeping thread, without admission.
Wake(t) ==
    /\ place[t] = "asleep"
    /\ sched' = MakeRunnable(sched, rt, t)
    /\ place' = [place EXCEPT ![t] = "ready"]
    /\ UNCHANGED <<now, rt, asked, changes, load, got, short>>

\* _sched_make_runnable of a new thread.  A thread that is refused stays as it is.
Start(t) ==
    /\ place[t] = "new" /\ load.starts[t] # None
    /\ Admissible(sched, rt, load.starts[t])
    /\ rt' = [rt EXCEPT ![t] = Admitted(load.starts[t])]
    /\ sched' = MakeRunnable(sched, rt', t)
    /\ place' = [place EXCEPT ![t] = "ready"]
    /\ UNCHANGED <<now, asked, changes, load, got, short>>

\* The current thread is queued with constraints c, which were admitted, and
\* leaves the CPU unless it is picked again.
Requeue(t, c) ==
    LET r == [rt EXCEPT ![t] = Admitted(c)]
    IN  Resched("CHANGING", MakeRunnable(sched, r, t), r)

\* A thread that is refused its new constraints keeps the old, aperiodic ones.
Readmit(t, c) ==
    /\ Requeue(t, IF Admissible(sched, rt, c) THEN c ELSE rt[t].cons)
    /\ asked' = [asked EXCEPT ![t] = None]

\* nk_sched_thread_change_constraints.  From one real-time class to another a
\* thread first becomes aperiodic, and asks again once it has the CPU back.
ChangeConstraints(t) ==
    /\ Runs(t) /\ t \in Threads /\ changes[t] < MaxChanges
    /\ \E c \in load.wants[t] :
        IF IsRT(t) /\ c # Aperiodic
        THEN Requeue(t, Aperiodic) /\ asked' = [asked EXCEPT ![t] = c]
        ELSE Readmit(t, c)
    /\ changes' = [changes EXCEPT ![t] = @ + 1]
    /\ UNCHANGED <<now, place, load>>

ChangeAgain(t) ==
    /\ sched.current = t /\ asked[t] # None
    /\ Readmit(t, asked[t])
    /\ UNCHANGED <<now, place, changes, load>>

\* Time passes for the thread on the CPU.  The timer is not late.
Tick ==
    /\ now < sched.set_time /\ now < MaxTime
    /\ now' = now + 1
    /\ got' = [got EXCEPT ![sched.current] = IF IsRT(sched.current) THEN @ + 1 ELSE @]
    /\ UNCHANGED <<sched, rt, place, asked, changes, load, short>>

Init ==
    /\ load \in Workloads
    /\ now = 0
    /\ sched = [runnable |-> <<>>, pending |-> <<>>,
                aperiodic |-> SetToSeq(Threads \ DOMAIN load.starts),
                current |-> Idle, set_time |-> Quantum]
    /\ rt = [t \in All |-> [cons |-> Aperiodic, run_time |-> 0, start_time |-> 0, deadline |-> 0]]
    /\ place = [t \in All |-> IF t \in DOMAIN load.starts THEN "new" ELSE "ready"]
    /\ asked = [t \in All |-> None]
    /\ changes = [t \in Threads |-> 0]
    /\ got = [t \in All |-> 0]
    /\ short = {}

Next ==
    \/ Timer \/ Interrupt \/ Tick
    \/ \E t \in All : nk_sched_yield(t)
    \/ \E t \in Threads : \/ nk_sched_sleep(t) \/ nk_sched_exit(t) \/ Wake(t) \/ Start(t)
                          \/ ChangeConstraints(t) \/ ChangeAgain(t)

Spec == Init /\ [][Next]_vars

-----------------------------------------------------------------------------
(* Properties *)

IsHeap(q) == \A i \in 2..Len(q) : rt[q[Parent(i)]].deadline <= rt[q[i]].deadline

\* Every thread that is neither new nor asleep nor gone is current or on
\* exactly one queue, once, and on the queue of its class; both deadline
\* queues are heaps.  So whatever changes of constraints, arrivals, wake-ups
\* and preemptions follow each other, no thread is lost or scheduled twice.
QueuesSound ==
    LET queued == <<sched.current>> \o sched.runnable \o sched.pending \o sched.aperiodic
    IN  /\ IsInjective(queued)
        /\ Range(queued) = {t \in All : place[t] = "ready"}
        /\ \A t \in Range(sched.runnable) \cup Range(sched.pending) : IsRT(t)
        /\ \A t \in Range(sched.aperiodic) : ~IsRT(t)
        /\ IsHeap(sched.runnable) /\ IsHeap(sched.pending)

\* Earliest deadline first: an aperiodic thread runs only when no real-time
\* thread is runnable, and a real-time thread only when none that is runnable
\* has an earlier deadline.
EarliestDeadlineRuns ==
    \A t \in Range(sched.runnable) :
        /\ IsRT(sched.current)
        /\ rt[sched.current].deadline <= rt[t].deadline

\* A sporadic thread that has become so by its own request.
SelfMade(t) == rt[t].cons.type = "SPORADIC" /\ rt[t].cons \in load.wants[t]

\* No real-time thread that has arrived gets more than its slice or size before
\* its next arrival, and set_timer never meets a thread that has used more than that (its
\* ASSERTs).  The ASSERT is not claimed of a thread that made itself sporadic:
\* reset_state has set its start time to 0, the pass charges it with all the time
\* since then, and unlike a periodic thread's its run time is not reset when it
\* arrives.
NeverOverruns ==
    LET c == sched.current
    IN  /\ \A t \in Threads : IsRT(t) /\ t \notin Range(sched.pending) =>
               got[t] <= Budget(rt[t].cons)
        /\ IsRT(c) /\ rt[c].start_time = now /\ ~SelfMade(c) =>
               rt[c].run_time <= Budget(rt[c].cons)

Budgets == {Budget(c) : c \in UNION {load.wants[t] : t \in Threads} \ {Aperiodic}}

\* The workloads whose admission test sees all real-time threads and whose
\* arrivals the timer cannot miss: threads become periodic, not sporadic, by
\* their own request, none of them sleeps, no device interrupts them, and at most
\* one sporadic thread is started from elsewhere, with a phase the timer cannot
\* overshoot.
Steady ==
    /\ load.sleepers = {} /\ ~load.irqs
    /\ \A t \in Threads : \A c \in load.wants[t] : c.type # "SPORADIC"
    /\ Cardinality(DOMAIN load.starts) <= 1
    /\ \A t \in DOMAIN load.starts :
        /\ load.starts[t].type = "SPORADIC"
        /\ \A b \in Budgets \cup {Quantum} : load.starts[t].phase >= b

\* An admitted thread gets its whole slice between each arrival and the
\* deadline that belongs to it.
SliceGuaranteed ==
    Steady => /\ short = {}
              /\ \A t \in Range(sched.runnable) \cup {sched.current} :
                    IsRT(t) => now + Budget(rt[t].cons) - got[t] <= rt[t].deadline
=============================================================================
