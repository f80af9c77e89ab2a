------------------------------ MODULE SchedMove ------------------------------
(***************************************************************************)
(* nk_sched_thread_move on top of the scheduler core: a running thread, or *)
(* nk_sched_cpu_mug on behalf of a CPU with little to do, moves another    *)
(* thread to a different CPU.                                              *)
(*                                                                         *)
(* The move takes the thread off its run queue under the old CPU's         *)
(* scheduler lock and makes it runnable on the new CPU afterwards.  A move *)
(* that is refused changes nothing; with block set it is tried again.      *)
(***************************************************************************)
EXTENDS Sched

\* Mutant: the thread is not removed from its old run queue.
MoveTake_Stays(t) ==
    /\ Active(t)
    /\ Goto(t, "run", "put")
    /\ \E v \in Threads \ {t} : \E d \in CPUs \ {curCpu[v]} :
        /\ status[v] = "SUSPENDED" /\ rt[v] = "ADMITTED"
        /\ v \in Range(rq[curCpu[v]])
        /\ curCpu' = [curCpu EXCEPT ![v] = d]
        /\ woken' = [woken EXCEPT ![t] = v]
    /\ op' = [op EXCEPT ![t] = "move"]
    /\ UNCHANGED <<status, rt, rq, current, next, queueVars, want>>

\* The checks, the removal from the old run queue and the change of
\* current_cpu, all under the old CPU's lock.  A thread may be moved when it
\* is SUSPENDED, ADMITTED and on the run queue.
MoveTake(t) ==
    /\ Active(t)
    /\ Goto(t, "run", "put")
    /\ \E v \in Threads \ {t} : \E d \in CPUs \ {curCpu[v]} :
        /\ status[v] = "SUSPENDED" /\ rt[v] = "ADMITTED"
        /\ v \in Range(rq[curCpu[v]])
        /\ rq' = [rq EXCEPT ![curCpu[v]] = Without(@, v)]
        /\ curCpu' = [curCpu EXCEPT ![v] = d]
        /\ woken' = [woken EXCEPT ![t] = v]
    /\ op' = [op EXCEPT ![t] = "move"]
    /\ UNCHANGED <<status, rt, current, next, queueVars, want>>

\* _sched_make_runnable on the new CPU.
MovePut(t) ==
    /\ Active(t)
    /\ Finish(t, "put")
    /\ MakeRunnable(woken[t])
    /\ woken' = [woken EXCEPT ![t] = NoThread]
    /\ UNCHANGED <<curCpu, current, next, queueVars>>

nk_sched_thread_move(t) == MoveTake(t) \/ MovePut(t)

MoveNext == Next \/ \E t \in Threads : nk_sched_thread_move(t)

MoveSpec == Init /\ [][MoveNext]_vars

-----------------------------------------------------------------------------
(* Properties *)

\* However moves, passes and wake-ups interleave, a thread is on at most one
\* run queue and there at most once, and on none while a mover or a waker is
\* about to make it runnable; and a move never loses it: it is on a CPU, on a run
\* queue, on a wait queue, or in the hands of a waker or a mover.
OneRunQueue ==
    /\ NeverForgotten
    /\ \A c \in CPUs :
           /\ IsInjective(rq[c])
           /\ \A d \in CPUs : c # d => Range(rq[c]) \cap Range(rq[d]) = {}
           /\ \A a \in Actors : woken[a] \notin Range(rq[c])

\* The comment of nk_sched_thread_move, "a running thread cannot be moved":
\* a thread is not given to another CPU while the one it ran on still uses its
\* stack, so that no two CPUs ever run on the stack of the same thread.
RunningThreadNotMoved ==
    \A t \in Threads : \A c, d \in CPUs : current[c] = t /\ current[d] = t => c = d
=============================================================================
