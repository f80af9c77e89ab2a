------------------------------- MODULE Group -------------------------------
(***************************************************************************)
(* Thread groups (src/src/nautilus/group.c) and the change of scheduling   *)
(* constraints that all members of a group make together                   *)
(* (src/src/nautilus/group_sched.c).                                       *)
(*                                                                         *)
(* Several groups share one static group_state and one lock for it.  The   *)
(* group barrier is nk_barrier_wait with a number of participants that     *)
(* joins and leaves change.  What nk_sched_thread_change_constraints does  *)
(* to one thread is RealTime's; here it is admitted or refused, and a      *)
(* refusal leaves the thread aperiodic.  A critical section is one step.   *)
(***************************************************************************)
EXTENDS Integers, Sequences, FiniteSets

CONSTANTS Threads,
          Groups,
          Workloads    \* what each thread calls: [op, group, size]

ASSUME WorkloadsAssumption ==
    \A w \in Workloads : \A t \in Threads : \A i \in DOMAIN w[t] : w[t][i].group \in Groups

VARIABLES group,       \* nk_thread_group_t, with its barrier
          gs,          \* group_state, and the group whose change it describes
          gs_lock,     \* group_change_constraint_lock
          calls,       \* what each thread still has to call
          pc, after,   \* where each thread is, and goes after the barrier
          cons,        \* its constraints, seen from its latest group change
          results      \* history: what each thread's group changes returned

vars == <<group, gs, gs_lock, calls, pc, after, cons, results>>

NoLeader == "none"
Reset == [of |-> "none", fail |-> FALSE, old_fail |-> FALSE, count |-> 0]

NewGroup ==
    [lock |-> FALSE, init_count |-> 0, remaining |-> 0, notify |-> FALSE,
     group_size |-> 0, members |-> {}, leader |-> NoLeader, state |-> FALSE,
     exists |-> TRUE]

Init ==
    /\ calls \in Workloads
    /\ group = [g \in Groups |-> NewGroup]
    /\ gs = Reset
    /\ gs_lock = FALSE
    /\ pc = [t \in Threads |-> "idle"]
    /\ after = [t \in Threads |-> "idle"]
    /\ cons = [t \in Threads |-> "own"]
    /\ results = [t \in Threads |-> <<>>]

Goto(t, from, to) == pc[t] = from /\ pc' = [pc EXCEPT ![t] = to]

Call(t) == Head(calls[t])
G(t) == Call(t).group
Calls(t, op) == calls[t] # <<>> /\ Call(t).op = op

\* The step that ends the call.
Return(t, from) == Goto(t, from, "idle") /\ calls' = [calls EXCEPT ![t] = Tail(@)]

shared == <<gs, gs_lock, cons, results>>

-----------------------------------------------------------------------------
(* nk_thread_group_join, _leave and _delete *)

JoinBarrier(t) ==
    /\ Calls(t, "join")
    /\ ~group[G(t)].lock
    /\ Goto(t, "idle", "join")
    /\ group' = [group EXCEPT ![G(t)].init_count = @ + 1, ![G(t)].remaining = @ + 1]
    /\ UNCHANGED <<calls, after, shared>>

JoinList(t) ==
    /\ Return(t, "join")
    /\ group' = [group EXCEPT ![G(t)].group_size = @ + 1,
                              ![G(t)].members = @ \cup {t}]
    /\ UNCHANGED <<after, shared>>

\* A thread finds itself in the list of its CPU and takes itself out.
LeaveList(t) ==
    /\ Calls(t, "leave")
    /\ t \in group[G(t)].members
    /\ Goto(t, "idle", "leave_barrier")
    /\ group' = [group EXCEPT ![G(t)].members = @ \ {t}]
    /\ UNCHANGED <<calls, after, shared>>

\* Mutant: the barrier keeps its number of participants.
Left_Counted(b) == [b EXCEPT !.remaining = @ - 1, !.notify = @ \/ b.remaining = 1]

\* The effect of thread_group_barrier_leave: a leave may be what the waiting
\* members were waiting for.
Left(b) ==
    [b EXCEPT !.init_count = @ - 1, !.remaining = @ - 1,
              !.notify = @ \/ b.remaining = 1]

LeaveBarrier(t) ==
    /\ Goto(t, "leave_barrier", "leave_size")
    /\ ~group[G(t)].lock
    /\ group' = [group EXCEPT ![G(t)] = Left(@)]
    /\ UNCHANGED <<calls, after, shared>>

LeaveSize(t) ==
    /\ Return(t, "leave_size")
    /\ group' = [group EXCEPT ![G(t)].group_size = @ - 1]
    /\ UNCHANGED <<after, shared>>

\* Mutant: the caller counts itself as the last member.
Empty_ButOne(g) == group[g].group_size <= 1

Empty(g) == group[g].group_size = 0

DeleteCheck(t) ==
    /\ Calls(t, "delete")
    /\ IF Empty(G(t)) THEN Goto(t, "idle", "delete") /\ UNCHANGED calls
                      ELSE Return(t, "idle")
    /\ UNCHANGED <<group, after, shared>>

Delete(t) ==
    /\ Return(t, "delete")
    /\ group' = [group EXCEPT ![G(t)].exists = FALSE]
    /\ UNCHANGED <<after, shared>>

\* Callers wait until nk_thread_group_get_size has the value they expect.
AwaitSize(t) ==
    /\ Calls(t, "await")
    /\ group[G(t)].group_size = Call(t).size
    /\ Return(t, "idle")
    /\ UNCHANGED <<group, after, shared>>

Membership(t) ==
    \/ JoinBarrier(t) \/ JoinList(t) \/ LeaveList(t) \/ LeaveBarrier(t) \/ LeaveSize(t)
    \/ DeleteCheck(t) \/ Delete(t) \/ AwaitSize(t)

-----------------------------------------------------------------------------
(* nk_thread_group_barrier, nk_thread_group_reset_leader *)

\* Entering the barrier; the thread continues at label `to` after it.
Barrier(t, from, to) ==
    /\ Goto(t, from, "arrive")
    /\ after' = [after EXCEPT ![t] = to]

nk_thread_group_barrier(t) ==
    /\ Calls(t, "barrier")
    /\ Barrier(t, "idle", "return")
    /\ UNCHANGED <<group, calls, shared>>

\* The last one in keeps the lock and releases the others.
Arrive(t) ==
    LET last == group[G(t)].remaining = 1
    IN  /\ Goto(t, "arrive", IF last THEN "inc" ELSE "spin")
        /\ ~group[G(t)].lock
        /\ group' = [group EXCEPT ![G(t)].remaining = @ - 1,
                                  ![G(t)].lock = last,
                                  ![G(t)].notify = @ \/ last]
        /\ UNCHANGED <<calls, after, shared>>

Spin(t) ==
    /\ Goto(t, "spin", "inc")
    /\ group[G(t)].notify
    /\ UNCHANGED <<group, calls, after, shared>>

\* The last one out goes on to reset the barrier.
Inc(t) ==
    /\ Goto(t, "inc", IF group[G(t)].remaining + 1 = group[G(t)].init_count
                      THEN "reset" ELSE after[t])
    /\ group' = [group EXCEPT ![G(t)].remaining = @ + 1]
    /\ UNCHANGED <<calls, after, shared>>

ResetNotify(t) ==
    /\ Goto(t, "reset", "release")
    /\ group' = [group EXCEPT ![G(t)].notify = FALSE]
    /\ UNCHANGED <<calls, after, shared>>

Release(t) ==
    /\ Goto(t, "release", after[t])
    /\ group' = [group EXCEPT ![G(t)].lock = FALSE]
    /\ UNCHANGED <<calls, after, shared>>

BarrierReturns(t) ==
    /\ Return(t, "return")
    /\ UNCHANGED <<group, after, shared>>

thread_group_barrier_wait(t) ==
    \/ nk_thread_group_barrier(t) \/ Arrive(t) \/ Spin(t) \/ Inc(t) \/ ResetNotify(t)
    \/ Release(t) \/ BarrierReturns(t)

nk_thread_group_reset_leader(t) ==
    /\ Calls(t, "reset_leader")
    /\ Return(t, "idle")
    /\ group' = [group EXCEPT ![G(t)].leader = NoLeader]
    /\ UNCHANGED <<after, shared>>

-----------------------------------------------------------------------------
(* nk_group_sched_change_constraints *)

\* nk_thread_group_election: the first caller after a reset is the leader.
Election(t) ==
    /\ Calls(t, "change")
    /\ Goto(t, "idle", "check_leader")
    /\ group' = [group EXCEPT ![G(t)].leader = IF @ = NoLeader THEN t ELSE @]
    /\ cons' = [cons EXCEPT ![t] = "old"]
    /\ UNCHANGED <<gs, gs_lock, calls, after, results>>

CheckLeader(t) ==
    /\ pc[t] = "check_leader"
    /\ IF group[G(t)].leader = t
       THEN Goto(t, "check_leader", "lead") /\ UNCHANGED after
       ELSE Barrier(t, "check_leader", "try")
    /\ UNCHANGED <<group, calls, shared>>

\* The leader takes the lock, sets the state and attaches it to the group.
Lead(t) ==
    /\ Barrier(t, "lead", "try")
    /\ ~gs_lock
    /\ gs_lock' = TRUE
    /\ gs' = [Reset EXCEPT !.of = G(t), !.count = group[G(t)].group_size]
    /\ group' = [group EXCEPT ![G(t)].state = TRUE]
    /\ UNCHANGED <<calls, cons, results>>

\* Nobody tries once somebody has failed.
Try(t) ==
    /\ IF gs.fail THEN Barrier(t, "try", "check")
                  ELSE Goto(t, "try", "change") /\ UNCHANGED after
    /\ UNCHANGED <<group, calls, shared>>

\* nk_sched_thread_change_constraints, admitted or refused by this thread's CPU.
Change(t) ==
    /\ Barrier(t, "change", "check")
    /\ \E ok \in BOOLEAN :
        /\ cons' = [cons EXCEPT ![t] = IF ok THEN "new" ELSE "default"]
        /\ gs' = [gs EXCEPT !.fail = @ \/ ~ok]
    /\ UNCHANGED <<group, gs_lock, calls, results>>

Check(t) ==
    /\ Goto(t, "check", IF gs.fail THEN "roll_back" ELSE "finish")
    /\ UNCHANGED <<group, calls, after, shared>>

RollBack(t) ==
    /\ Barrier(t, "roll_back", "default")
    /\ \E ok \in BOOLEAN :
        /\ cons' = [cons EXCEPT ![t] = IF ok THEN "old" ELSE "default"]
        /\ gs' = [gs EXCEPT !.old_fail = @ \/ ~ok]
    /\ UNCHANGED <<group, gs_lock, calls, results>>

\* group_sched_roll_back_constraint, if one member could not go back.
Default(t) ==
    /\ Goto(t, "default", "finish_failed")
    /\ cons' = [cons EXCEPT ![t] = IF gs.old_fail THEN "default" ELSE @]
    /\ UNCHANGED <<group, gs, gs_lock, calls, after, results>>

\* Mutant: whoever is first to finish resets the state.
LastToFinish_First == TRUE

LastToFinish == gs.count = 1

\* The last one to finish goes on to reset the state and release the lock.
Finish(t) ==
    \E from \in {"finish", "finish_failed"} :
        /\ pc[t] = from
        /\ gs' = [gs EXCEPT !.count = @ - 1]
        /\ results' = [results EXCEPT ![t] =
                Append(@, [group |-> G(t), res |-> IF from = "finish" THEN 0 ELSE -1,
                           cons |-> cons[t]])]
        /\ IF LastToFinish THEN Goto(t, from, "detach") /\ UNCHANGED calls
                           ELSE Return(t, from)
        /\ UNCHANGED <<group, gs_lock, after, cons>>

Detach(t) ==
    /\ Return(t, "detach")
    /\ group' = [group EXCEPT ![G(t)].state = FALSE]
    /\ gs' = Reset
    /\ gs_lock' = FALSE
    /\ UNCHANGED <<after, cons, results>>

nk_group_sched_change_constraints(t) ==
    \/ Election(t) \/ CheckLeader(t) \/ Lead(t) \/ Try(t) \/ Change(t) \/ Check(t)
    \/ RollBack(t) \/ Default(t) \/ Finish(t) \/ Detach(t)

Step(t) ==
    \/ Membership(t) \/ thread_group_barrier_wait(t) \/ nk_thread_group_reset_leader(t)
    \/ nk_group_sched_change_constraints(t)

Next == \E t \in Threads : Step(t)

Spec == Init /\ [][Next]_vars

\* Every thread runs: none spins with interrupts off on another's CPU.
FairSpec == Spec /\ \A t \in Threads : WF_vars(Step(t))

-----------------------------------------------------------------------------
(* Properties *)

\* The calls that use group_state: from the first barrier to the decrement.
UsesState(t) == pc[t] \in {"try", "change", "check", "roll_back", "default", "finish",
                           "finish_failed", "detach"}

\* nk_group_sched_change_constraints is all or nothing.  Two members of a
\* group get the same result from the same change; when it is success both
\* have the new constraints, when it is failure both have their old ones or
\* both have the default.  And group_state describes the caller's own group
\* for as long as the caller reads it, whatever the other groups do.
ChangeAllOrNothing ==
    /\ \A t \in Threads : UsesState(t) => gs_lock /\ gs.of = G(t)
    /\ \A t, u \in Threads : \A i \in DOMAIN results[t] \cap DOMAIN results[u] :
            results[t][i].group = results[u][i].group =>
                /\ results[t][i] = results[u][i]
                /\ results[t][i].res = 0 <=> results[t][i].cons = "new"

\* A group is deleted only when nobody is in it, or still on the way out of
\* it: leaving a group ends with the decrement that makes it deletable.
DeletedUnused ==
    \A t \in Threads : pc[t] # "idle" => group[G(t)].exists

\* Every join, barrier, election, group change and leave returns, with
\* members that come and go between and during the barriers.
AllReturn == <>[](\A t \in Threads : calls[t] = <<>>)
=============================================================================
