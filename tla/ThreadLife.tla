------------------------------ MODULE ThreadLife ------------------------------
(***************************************************************************)
(* The life of threads (src/nautilus/thread.c and the scheduler's thread   *)
(* list): creation from new memory or from a dead thread, joining, exit,   *)
(* the switch away from the dying thread's stack, and reaping.             *)
(*                                                                         *)
(* A slot is the memory of a thread, its structure and its stack.  What is *)
(* done under the global scheduler lock, or under a wait queue's lock, is  *)
(* one step.  The reference count is plain memory: the exiting thread      *)
(* decrements it with its wait queue's lock held, its parent without it.   *)
(***************************************************************************)
EXTENDS Integers, Sequences, FiniteSets, Functions

CONSTANTS Slots, Root,  \* Root is the slot of the first thread, which never exits
          Kinds,        \* the values of is_detached that threads are created with
          Others,       \* how many threads of the rest of the system there may be
          MaxThreads,   \* NAUT_CONFIG_MAX_THREADS
          ReapAt,       \* number of threads from which thread creation reaps
          AllocsFail,   \* whether small allocations may fail: scheduler state, wait queue, list node
          MaxCreates, MaxReaps,  \* how many threads are created, how many reaps asked for
          Nobody

ASSUME ThreadLifeAssumption ==
    /\ IsFiniteSet(Slots) /\ Root \in Slots /\ Nobody \notin Slots
    /\ Kinds \subseteq BOOLEAN /\ AllocsFail \in BOOLEAN
    /\ Others \subseteq Nat /\ {MaxThreads, ReapAt, MaxCreates, MaxReaps} \subseteq Nat

VARIABLES allocated,   \* the slots that are not free memory
          undone,      \* history: the slots freed on their parent's child list
          status,      \* NK_THR_INIT, something in between, or NK_THR_EXITED
          reapable,    \* the slots with scheduler status REAPABLE
          refcount, children,
          wqLocked, waitq,   \* each thread's own wait queue
          waiting,     \* the threads with status NK_THR_WAITING
          thread_list, reaping, reap_pool,
          pc, target, new, reg, ret,   \* where the threads are, and their locals
          creates, reaps

memVars == <<allocated, undone, thread_list, reaping, reap_pool>>
wqVars == <<wqLocked, waitq, waiting>>
localVars == <<target, new, reg, ret>>
vars == <<memVars, status, reapable, refcount, children, wqVars, pc, localVars, creates, reaps>>

Init ==
    /\ allocated = {Root} /\ undone = {} /\ thread_list = {Root}
    /\ reaping = Nobody /\ reap_pool = {} /\ reapable = {}
    /\ status = [s \in Slots |-> IF s = Root THEN "LIVE" ELSE "INIT"]
    /\ refcount = [s \in Slots |-> IF s = Root THEN 1 ELSE 0]
    /\ children = [s \in Slots |-> <<>>]
    /\ wqLocked = {} /\ waitq = [s \in Slots |-> {}] /\ waiting = {}
    /\ pc = [s \in Slots |-> IF s = Root THEN "run" ELSE "none"]
    /\ target = [s \in Slots |-> Nobody] /\ new = [s \in Slots |-> Nobody]
    /\ reg = [s \in Slots |-> 0] /\ ret = [s \in Slots |-> "run"]
    /\ creates = 0 /\ reaps = 0

\* The values the count of the threads on the thread list may have.
num_threads == {n + Cardinality(thread_list) : n \in Others}

Goto(t, from, to) == pc[t] = from /\ pc' = [pc EXCEPT ![t] = to]

-----------------------------------------------------------------------------
(* nk_sched_reap *)

\* Mutant: does not wait for the thread to be off its stack.
Reapable_OnStack(s) == status[s] = "EXITED" /\ refcount[s] = 0

Reapable(s) == status[s] = "EXITED" /\ refcount[s] = 0 /\ s \in reapable

\* The unconditional reap a thread may ask for at any time.
CallReap(t) ==
    /\ reaps < MaxReaps /\ reaps' = reaps + 1
    /\ Goto(t, "run", "reap")
    /\ ret' = [ret EXCEPT ![t] = "run"]
    /\ UNCHANGED <<memVars, status, reapable, refcount, children, wqVars, target, new, reg, creates>>

\* The reap of thread creation is skipped while there are few threads; a reap
\* that finds another in progress waits for that one's end instead.
ReapEnter(t) ==
    /\ \E n \in num_threads :
           IF ret[t] = "node" /\ n < ReapAt
           THEN Goto(t, "reap", ret[t]) /\ UNCHANGED reaping
           ELSE IF reaping = Nobody
                THEN Goto(t, "reap", "collect") /\ reaping' = t
                ELSE Goto(t, "reap", "reapwait") /\ UNCHANGED reaping
    /\ UNCHANGED <<allocated, undone, thread_list, reap_pool, status, reapable, refcount,
                   children, wqVars, localVars, creates, reaps>>

ReapWaited(t) ==
    /\ reaping = Nobody
    /\ Goto(t, "reapwait", ret[t])
    /\ UNCHANGED <<memVars, status, reapable, refcount, children, wqVars, localVars,
                   creates, reaps>>

ReapCollect(t) ==
    /\ Goto(t, "collect", "destroy")
    /\ reap_pool' = {s \in thread_list : Reapable(s)}
    /\ UNCHANGED <<allocated, undone, thread_list, reaping, status, reapable, refcount,
                   children, wqVars, localVars, creates, reaps>>

\* nk_thread_destroy of one collected thread: off the thread list, then freed.
nk_thread_destroy(t) ==
    /\ pc[t] = "destroy"
    /\ \E s \in reap_pool :
           /\ reap_pool' = reap_pool \ {s}
           /\ thread_list' = thread_list \ {s}
           /\ allocated' = allocated \ {s}
           /\ reapable' = reapable \ {s}
    /\ UNCHANGED <<undone, reaping, status, refcount, children, wqVars, pc, localVars, creates,
                   reaps>>

ReapEnd(t) ==
    /\ reap_pool = {}
    /\ Goto(t, "destroy", ret[t])
    /\ reaping' = Nobody
    /\ UNCHANGED <<allocated, undone, thread_list, reap_pool, status, reapable, refcount,
                   children, wqVars, localVars, creates, reaps>>

-----------------------------------------------------------------------------
(* nk_thread_create and nk_thread_run *)

\* nk_sched_reanimate found a dead thread (whether its stack fits is left open):
\* it is taken off the thread list.
Reanimate(t, free) ==
    /\ free /\ creates < MaxCreates
    /\ Goto(t, "run", "init")
    /\ \E s \in thread_list :
           /\ Reapable(s)
           /\ thread_list' = thread_list \ {s}
           /\ new' = [new EXCEPT ![t] = s]
    /\ creates' = creates + 1
    /\ UNCHANGED <<allocated, undone, reaping, reap_pool, status, reapable, refcount, children,
                   wqVars, target, reg, ret, reaps>>

\* Mutant: does not keep the reaper out.
nk_sched_reanimate_Racing(t) == Reanimate(t, TRUE)

nk_sched_reanimate(t) == Reanimate(t, reaping = Nobody)

\* The search found none: new memory.  What is on a child list is not given out
\* again: a node that is linked into two lists is beyond this model.
Allocate(t) ==
    /\ creates < MaxCreates /\ reaping = Nobody
    /\ Goto(t, "run", "init")
    /\ \E s \in Slots \ (allocated \cup undone) :
           /\ allocated' = allocated \cup {s}
           /\ new' = [new EXCEPT ![t] = s]
    /\ creates' = creates + 1
    /\ UNCHANGED <<undone, thread_list, reaping, reap_pool, status, reapable, refcount, children,
                   wqVars, target, reg, ret, reaps>>

\* A thread references itself; one that is not detached goes on its parent's
\* list and is referenced by the parent as well.
SetUp(t) ==
    /\ \E detached \in Kinds :
           /\ refcount' = [refcount EXCEPT ![new[t]] = IF detached THEN 1 ELSE 2]
           /\ children' = [children EXCEPT ![new[t]] = <<>>,
                               ![t] = IF detached THEN @ ELSE Append(@, new[t])]
    /\ status' = [status EXCEPT ![new[t]] = "INIT"]

_nk_thread_init(t) ==
    /\ Goto(t, "init", "reap")
    /\ SetUp(t)
    /\ ret' = [ret EXCEPT ![t] = "node"]
    /\ reapable' = reapable \ {new[t]}
    /\ UNCHANGED <<memVars, wqVars, target, new, reg, creates, reaps>>

\* out_err of nk_thread_create: the thread is freed, be it on its parent's list.
Undo(t) ==
    /\ allocated' = allocated \ {new[t]}
    /\ undone' = undone \cup ({new[t]} \cap Range(children'[t]))
    /\ new' = [new EXCEPT ![t] = Nobody] /\ ret' = [ret EXCEPT ![t] = "run"]
    /\ UNCHANGED <<thread_list, reaping, reap_pool, reapable, wqVars, target, reg, creates, reaps>>

\* "Impossible CPU binding", before the thread is set up.  A dead thread that
\* was found is of the CPU asked for, which therefore exists.
InitRefused(t) ==
    /\ new[t] \notin reapable
    /\ Goto(t, "init", "run")
    /\ UNCHANGED <<status, refcount, children>>
    /\ Undo(t)

\* No scheduler state or no wait queue for the thread, when it has been set up.
\* A thread that is brought back has both.
InitFails(t) ==
    /\ AllocsFail /\ new[t] \notin reapable
    /\ Goto(t, "init", "run")
    /\ SetUp(t)
    /\ Undo(t)

\* nk_sched_thread_post_create, after its reap: the new thread goes on the
\* thread list, unless there are too many threads.
PostCreate(t) ==
    /\ \E n \in num_threads : n < MaxThreads
    /\ Goto(t, "node", "start")
    /\ thread_list' = thread_list \cup {new[t]}
    /\ UNCHANGED <<allocated, undone, reaping, reap_pool, status, reapable, refcount, children,
                   wqVars, localVars, creates, reaps>>

\* "Scheduler vetos thread creation": it is freed again.
PostCreateVeto(t) ==
    /\ \E n \in num_threads : n >= MaxThreads
    /\ Goto(t, "node", "run")
    /\ UNCHANGED <<status, refcount, children>>
    /\ Undo(t)

\* "Failed to allocate rt_node in post create", and returns 0.
PostCreateNoNode(t) ==
    /\ AllocsFail
    /\ Goto(t, "node", "start")
    /\ UNCHANGED <<memVars, status, reapable, refcount, children, wqVars, localVars,
                   creates, reaps>>

nk_thread_run(t) ==
    /\ pc[t] = "start"
    /\ pc' = [pc EXCEPT ![t] = "run", ![new[t]] = "run"]
    /\ status' = [status EXCEPT ![new[t]] = "LIVE"]
    /\ new' = [new EXCEPT ![t] = Nobody] /\ ret' = [ret EXCEPT ![t] = "run"]
    /\ UNCHANGED <<memVars, reapable, refcount, children, wqVars, target, reg, creates, reaps>>

-----------------------------------------------------------------------------
(* nk_join_all_children and nk_join *)

CallJoinAll(t) ==
    /\ Goto(t, "run", "joinall")
    /\ children[t] # <<>>
    /\ ret' = [ret EXCEPT ![t] = "run"]
    /\ UNCHANGED <<memVars, status, reapable, refcount, children, wqVars, target, new, reg,
                   creates, reaps>>

JoinNext(t) ==
    /\ IF children[t] = <<>>
       THEN Goto(t, "joinall", ret[t]) /\ UNCHANGED target
       ELSE /\ Goto(t, "joinall", "join")
            /\ target' = [target EXCEPT ![t] = Head(children[t])]
    /\ UNCHANGED <<memVars, status, reapable, refcount, children, wqVars, new, reg, ret,
                   creates, reaps>>

\* nk_wait_queue_sleep_extended on the child's wait queue, with exit_check done
\* under the queue's lock.
JoinSleep(t, exited) ==
    /\ target[t] \notin wqLocked
    /\ IF exited
       THEN Goto(t, "join", "detach") /\ UNCHANGED <<waitq, waiting>>
       ELSE /\ Goto(t, "join", "asleep")
            /\ waitq' = [waitq EXCEPT ![target[t]] = @ \cup {t}]
            /\ waiting' = waiting \cup {t}
    /\ UNCHANGED <<memVars, status, reapable, refcount, children, wqLocked, localVars,
                   creates, reaps>>

\* Mutant: goes to sleep without the check.
nk_join_NoCheck(t) == pc[t] = "join" /\ JoinSleep(t, FALSE)

nk_join(t) == pc[t] = "join" /\ JoinSleep(t, status[target[t]] = "EXITED")

JoinAwake(t) ==
    /\ t \notin waiting
    /\ Goto(t, "asleep", "detach")
    /\ UNCHANGED <<memVars, status, reapable, refcount, children, wqVars, localVars,
                   creates, reaps>>

\* thread_detach: off the child list, and the decrement, which is not atomic.
DetachRead(t) ==
    /\ Goto(t, "detach", "detached")
    /\ children' = [children EXCEPT ![t] = Tail(@)]
    /\ reg' = [reg EXCEPT ![t] = refcount[target[t]]]
    /\ UNCHANGED <<memVars, status, reapable, refcount, wqVars, target, new, ret, creates, reaps>>

DetachWrite(t) ==
    /\ Goto(t, "detached", "joinall")
    /\ refcount' = [refcount EXCEPT ![target[t]] = reg[t] - 1]
    /\ target' = [target EXCEPT ![t] = Nobody] /\ reg' = [reg EXCEPT ![t] = 0]
    /\ UNCHANGED <<memVars, status, reapable, children, wqVars, new, ret, creates, reaps>>

-----------------------------------------------------------------------------
(* nk_thread_exit *)

\* First of all the children are joined.
CallExit(t) ==
    /\ t # Root
    /\ Goto(t, "run", "joinall")
    /\ ret' = [ret EXCEPT ![t] = "exit"]
    /\ UNCHANGED <<memVars, status, reapable, refcount, children, wqVars, target, new, reg,
                   creates, reaps>>

\* The wait queue's lock is taken and kept, the status set, and everybody woken.
ExitWake(t) ==
    /\ Goto(t, "exit", "exitread")
    /\ wqLocked' = wqLocked \cup {t}
    /\ status' = [status EXCEPT ![t] = "EXITED"]
    /\ waiting' = waiting \ waitq[t]
    /\ waitq' = [waitq EXCEPT ![t] = {}]
    /\ UNCHANGED <<memVars, reapable, refcount, children, localVars, creates, reaps>>

\* The thread gives up its reference to itself.
ExitRead(t) ==
    /\ Goto(t, "exitread", "exitwrite")
    /\ reg' = [reg EXCEPT ![t] = refcount[t]]
    /\ UNCHANGED <<memVars, status, reapable, refcount, children, wqVars, target, new, ret,
                   creates, reaps>>

ExitWrite(t) ==
    /\ Goto(t, "exitwrite", "exitpass")
    /\ refcount' = [refcount EXCEPT ![t] = reg[t] - 1]
    /\ reg' = [reg EXCEPT ![t] = 0] /\ ret' = [ret EXCEPT ![t] = "run"]
    /\ UNCHANGED <<memVars, status, reapable, children, wqVars, target, new, creates, reaps>>

\* nk_sched_exit: the scheduling pass, then the wait queue's lock is released.
ExitPass(t) ==
    /\ Goto(t, "exitpass", "switch")
    /\ wqLocked' = wqLocked \ {t}
    /\ UNCHANGED <<memVars, status, reapable, refcount, children, waitq, waiting, localVars,
                   creates, reaps>>

\* nk_thread_switch_exit_helper: "We now mark ourselves as toast for the reaper".
\* The next instructions leave the stack for good in the builds modelled: those
\* without address spaces, cache partitions and hardware TLS.
nk_thread_switch_exit_helper(t) ==
    /\ Goto(t, "switch", "none")
    /\ reapable' = reapable \cup {t}
    /\ UNCHANGED <<memVars, status, refcount, children, wqVars, localVars, creates, reaps>>

-----------------------------------------------------------------------------

Reap(t) ==
    ReapEnter(t) \/ ReapWaited(t) \/ ReapCollect(t) \/ nk_thread_destroy(t) \/ ReapEnd(t)
Create(t) ==
    \/ _nk_thread_init(t) \/ InitRefused(t) \/ InitFails(t)
    \/ PostCreate(t) \/ PostCreateVeto(t) \/ PostCreateNoNode(t) \/ nk_thread_run(t)
Join(t) == JoinNext(t) \/ nk_join(t) \/ JoinAwake(t) \/ DetachRead(t) \/ DetachWrite(t)
Exit(t) ==
    \/ CallExit(t) \/ ExitWake(t) \/ ExitRead(t) \/ ExitWrite(t) \/ ExitPass(t)
    \/ nk_thread_switch_exit_helper(t)
Call(t) == CallReap(t) \/ nk_sched_reanimate(t) \/ Allocate(t) \/ CallJoinAll(t)

Step(t) == Reap(t) \/ Create(t) \/ Join(t) \/ Exit(t)

Next == \E t \in Slots : Call(t) \/ Step(t)

Spec == Init /\ [][Next]_vars

\* Threads are scheduled, and their functions return.
FairSpec == Spec /\ \A t \in Slots : WF_vars(Step(t))

-----------------------------------------------------------------------------
(* Properties *)

\* The types of the thread structures, the lists and the threads' locals.
TypeOK ==
    /\ allocated \subseteq Slots /\ thread_list \subseteq allocated
    /\ undone \subseteq Slots \ allocated
    /\ reapable \subseteq Slots /\ reap_pool \subseteq Slots
    /\ reaping \in Slots \cup {Nobody}
    /\ status \in [Slots -> {"INIT", "LIVE", "EXITED"}]
    /\ refcount \in [Slots -> 0 .. 2]
    /\ children \in [Slots -> Seq(Slots)]
    /\ wqLocked \subseteq Slots /\ waitq \in [Slots -> SUBSET Slots] /\ waiting \subseteq Slots

\* "as long as *we* don't use the stack, we should be OK": memory that has been
\* freed, or handed to a new thread, is no thread's stack, and no thread comes
\* across it: none waits for the thread that was there, is on the way to look at
\* it, or has it on its child list.  The exception is a child whose creation
\* failed after it had been listed, which stays on its creator's list.
FreedUnused ==
    \A s \in Slots :
        s \notin allocated \/ (\E t \in Slots : new[t] = s /\ pc[t] = "init") =>
            /\ pc[s] = "none" /\ s \notin wqLocked
            /\ s \notin undone =>
                   /\ waitq[s] = {}
                   /\ \A t \in Slots :
                          /\ pc[t] \in {"join", "asleep", "detach", "detached"} => target[t] # s
                          /\ s \notin Range(children[t])

\* What the reaper has collected stays dead until it is destroyed: nobody brings
\* it to life meanwhile.  (All state has its type.)
PoolStaysDead ==
    /\ TypeOK
    /\ \A s \in reap_pool : s \in thread_list /\ pc[s] = "none" /\ Reapable(s)

Past(s) == status[s] = "EXITED" /\ pc[s] \notin {"exitread", "exitwrite"}

\* "thread references itself as well": the count is the number of references
\* to the thread, its own until it exits and its parent's until it is joined.
RefcountIsReferences ==
    \A s \in thread_list :
        pc[s] # "exitwrite" /\ (\A t \in Slots : pc[t] = "detached" => target[t] # s) =>
            refcount[s] = (IF Past(s) THEN 0 ELSE 1)
                            + (IF \E t \in Slots : s \in Range(children[t]) THEN 1 ELSE 0)

\* "on error returns -EINVAL, returns 0 on success": a thread that runs is on the
\* scheduler's thread list, where the reaper will find it.
StartedIsListed == \A s \in Slots : pc[s] # "none" => s \in thread_list

\* The assertion after nk_join's sleep: a joined thread has exited, and its
\* structure has not been given to another thread before its parent let go.
JoinedHasExited ==
    \A t \in Slots : pc[t] \in {"detach", "detached"} => status[target[t]] = "EXITED"

\* A thread that joins a child whose creation failed.
Stuck(t) == pc[t] = "asleep" /\ target[t] \in undone

\* The assertion after nk_join's sleep holds, a thread that joins another gets past
\* it, and one that waits for somebody else's reap is not left waiting.  Only
\* joining a child whose creation failed does not end, and with it no other join
\* that waits for the thread that does so.
JoinReturns ==
    /\ []JoinedHasExited
    /\ \A t \in Slots :
           /\ pc[t] = "join" ~> pc[t] = "joinall" \/ \E u \in Slots : Stuck(u)
           /\ pc[t] = "reapwait" ~> pc[t] # "reapwait"
=============================================================================
