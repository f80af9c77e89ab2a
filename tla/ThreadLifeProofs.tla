-------------------------- MODULE ThreadLifeProofs --------------------------
(***************************************************************************)
(* The memory of a thread is not freed, and not given to another thread,   *)
(* while anybody still uses it, for every number of threads and whatever   *)
(* creation fails; what a creation that failed late has left behind is on  *)
(* its creator's child list and nowhere else.                              *)
(*                                                                         *)
(* The argument: the reference count of a thread may be too high, because  *)
(* the decrements of the thread itself and of its parent race, but it is   *)
(* never below the number of references.  Only a thread that has left its  *)
(* stack is marked reapable; with a count of zero, nobody refers to it.    *)
(* While a reaper is at work no thread is brought back to life, so what it *)
(* has collected stays as it was.                                          *)
(***************************************************************************)
EXTENDS ThreadLife, TLAPS

ReapPlaces == {"reap", "collect", "destroy", "reapwait"}
ExitPlaces == {"exit", "exitread", "exitwrite", "exitpass", "switch"}
JoinPlaces == {"joinall", "join", "asleep", "detach", "detached"}
Places == {"none", "run", "init", "node", "start"} \cup ReapPlaces \cup ExitPlaces \cup JoinPlaces

\* The reference of a parent to a child it has not let go of.
Holds(t, s) == s \in Range(children[t]) \/ (pc[t] = "detached" /\ target[t] = s)

\* The new thread s is set up, and not yet run.
Set(t, s) == new[t] = s /\ pc[t] # "init"

\* The reference of a thread to itself: until it has written the count it
\* decremented when it exited.
HoldsItself(s) == pc[s] \notin {"none", "exitpass", "switch"} \/ \E t \in Slots : Set(t, s)

Typed ==
    /\ TypeOK
    /\ pc \in [Slots -> Places] /\ ret \in [Slots -> {"run", "node", "exit"}]
    /\ target \in [Slots -> Slots \cup {Nobody}] /\ new \in [Slots -> Slots \cup {Nobody}]
    /\ reg \in [Slots -> 0 .. 2]

\* A thread that creates another has a slot for it that is nobody else's.
Making ==
    /\ \A t \in Slots : new[t] # Nobody <=>
           pc[t] \in {"init", "node", "start"} \/ (pc[t] \in ReapPlaces /\ ret[t] = "node")
    /\ \A t, u \in Slots : new[t] = new[u] /\ new[t] # Nobody => t = u
    /\ \A t, s \in Slots : new[t] = s =>
           /\ s \in allocated /\ pc[s] = "none"
           /\ pc[t] # "start" => s \notin thread_list
           /\ pc[t] # "init" => status[s] = "INIT" /\ s \notin reapable

\* Where memory is in use; what is marked reapable is not a stack.
Used ==
    /\ \A s \in Slots : pc[s] # "none" => s \in allocated /\ s \notin reapable
    /\ \A t \in Slots : pc[t] \in {"collect", "destroy"} <=> reaping = t
    /\ reaping = Nobody => reap_pool = {}
    /\ \A s \in reap_pool : s \in thread_list /\ Reapable(s)
    /\ \A t \in Slots : pc[t] \in ReapPlaces => ret[t] \in {"run", "node"}
    /\ \A t \in Slots : pc[t] \in JoinPlaces => ret[t] \in {"run", "exit"}

\* Whom threads refer to.
Holding ==
    /\ \A t \in Slots : IsInjective(children[t])
    /\ \A t \in Slots : pc[t] \in ExitPlaces \cup {"none"} => children[t] = <<>>
    /\ \A t \in Slots : pc[t] \in {"join", "asleep", "detach"} =>
           children[t] # <<>> /\ target[t] = Head(children[t])
    /\ \A t \in Slots : pc[t] = "detached" =>
           target[t] \in Slots /\ target[t] \notin Range(children[t])
    /\ \A t, u, s \in Slots : Holds(t, s) /\ Holds(u, s) => t = u
    /\ \A t, s \in Slots : Holds(t, s) => s \in allocated \cup undone
    /\ \A t, u, s \in Slots : Holds(t, s) /\ new[u] = s => t = u /\ pc[u] # "init"

\* The counts are at least the references, those that are about to be written too.
Counting ==
    /\ \A s \in Slots : HoldsItself(s) => refcount[s] >= 1
    /\ \A t, s \in Slots : Holds(t, s) => refcount[s] >= 1
    /\ \A t, s \in Slots : Holds(t, s) /\ HoldsItself(s) => refcount[s] >= 2
    /\ \A s \in Slots : pc[s] = "exitwrite" =>
           reg[s] >= 1 /\ \A t \in Slots : Holds(t, s) => reg[s] >= 2
    /\ \A t \in Slots : pc[t] = "detached" =>
           reg[t] >= 1 /\ (HoldsItself(target[t]) => reg[t] >= 2)

\* Who is locked or waited for, and that who was woken finds the thread exited.
Waited ==
    /\ \A s \in wqLocked : pc[s] \in {"exitread", "exitwrite", "exitpass"}
    /\ \A t, s \in Slots : t \in waitq[s] => pc[t] = "asleep" /\ target[t] = s /\ t \in waiting
    /\ \A t \in Slots : pc[t] = "asleep" =>
           t \in waitq[target[t]] \/ status[target[t]] = "EXITED"
    /\ \A t \in Slots : pc[t] \in {"detach", "detached"} => status[target[t]] = "EXITED"

Inv == Typed /\ Making /\ Used /\ Holding /\ Counting /\ Waited

\* The parts of the invariant, for the steps that need some of them.
LEMMA InvParts ==
    ASSUME Inv
    PROVE  Typed /\ Making /\ Used /\ Holding /\ Counting /\ Waited
BY DEF Inv

-----------------------------------------------------------------------------
(* The outcomes of the steps that decide something *)

\* The reap of thread creation is skipped.
SkipReap(t) ==
    /\ pc[t] = "reap" /\ ret[t] = "node" /\ pc' = [pc EXCEPT ![t] = "node"]
    /\ UNCHANGED <<memVars, status, reapable, refcount, children, wqVars, localVars>>

\* A reap begins.
BeginReap(t) ==
    /\ reaping = Nobody /\ reaping' = t
    /\ pc[t] = "reap" /\ pc' = [pc EXCEPT ![t] = "collect"]
    /\ UNCHANGED <<allocated, undone, thread_list, reap_pool, status, reapable, refcount, children,
                   wqVars, localVars>>

\* Another reap is waited for.
DeferReap(t) ==
    /\ pc[t] = "reap" /\ pc' = [pc EXCEPT ![t] = "reapwait"]
    /\ UNCHANGED <<memVars, status, reapable, refcount, children, wqVars, localVars>>

\* The new thread goes on the thread list.
ListNew(t) ==
    /\ pc[t] = "node" /\ pc' = [pc EXCEPT ![t] = "start"]
    /\ thread_list' = thread_list \cup {new[t]}
    /\ UNCHANGED <<allocated, undone, reaping, reap_pool, status, reapable, refcount, children,
                   wqVars, localVars>>

\* The creation is given up: before the thread is set up, or after its reap.
GivenUp(t) ==
    /\ pc[t] \in {"init", "node"} /\ pc' = [pc EXCEPT ![t] = "run"]
    /\ UNCHANGED <<status, refcount, children>>
    /\ Undo(t)

\* No child is left, or the first one is to be joined.
NoChild(t) ==
    /\ children[t] = <<>>
    /\ pc[t] = "joinall" /\ pc' = [pc EXCEPT ![t] = ret[t]]
    /\ UNCHANGED <<memVars, status, reapable, refcount, children, wqVars, localVars>>
FirstChild(t) ==
    /\ children[t] # <<>>
    /\ pc[t] = "joinall" /\ pc' = [pc EXCEPT ![t] = "join"]
    /\ target' = [target EXCEPT ![t] = Head(children[t])]
    /\ UNCHANGED <<memVars, status, reapable, refcount, children, wqVars, new, reg, ret>>

\* The child has exited, or is waited for.
JoinExited(t) ==
    /\ status[target[t]] = "EXITED"
    /\ pc[t] = "join" /\ pc' = [pc EXCEPT ![t] = "detach"]
    /\ UNCHANGED <<memVars, status, reapable, refcount, children, wqVars, localVars>>
JoinBlocks(t) ==
    /\ pc[t] = "join" /\ pc' = [pc EXCEPT ![t] = "asleep"]
    /\ target[t] \notin wqLocked
    /\ waitq' = [waitq EXCEPT ![target[t]] = @ \cup {t}] /\ waiting' = waiting \cup {t}
    /\ UNCHANGED <<memVars, status, reapable, refcount, children, wqLocked, localVars>>

\* Those are the outcomes.
LEMMA Outcomes ==
    ASSUME NEW t \in Slots
    PROVE  /\ ReapEnter(t) => SkipReap(t) \/ BeginReap(t) \/ DeferReap(t)
           /\ PostCreate(t) => ListNew(t)
           /\ InitRefused(t) \/ PostCreateVeto(t) => GivenUp(t)
           /\ JoinNext(t) => NoChild(t) \/ FirstChild(t)
           /\ nk_join(t) => JoinExited(t) \/ JoinBlocks(t)
<1>1. ReapEnter(t) => SkipReap(t) \/ BeginReap(t) \/ DeferReap(t)
    BY ZenonT(30) DEF ReapEnter, SkipReap, BeginReap, DeferReap, Goto, memVars
<1>2. PostCreate(t) => ListNew(t)
    BY ZenonT(30) DEF PostCreate, ListNew, Goto
<1>3. JoinNext(t) => NoChild(t) \/ FirstChild(t)
    BY ZenonT(30) DEF JoinNext, NoChild, FirstChild, Goto, localVars
<1>4. nk_join(t) => JoinExited(t) \/ JoinBlocks(t)
    BY ZenonT(30) DEF nk_join, JoinSleep, JoinExited, JoinBlocks, Goto, wqVars
<1>5. InitRefused(t) \/ PostCreateVeto(t) => GivenUp(t)
    BY ZenonT(30) DEF InitRefused, PostCreateVeto, GivenUp, Goto
<1> QED
    BY <1>1, <1>2, <1>3, <1>4, <1>5

-----------------------------------------------------------------------------
(* Child lists, and the threads' locals *)

\* A child is added at the end of the list, and taken off its head.
LEMMA ChildListFacts ==
    ASSUME NEW q \in Seq(Slots)
    PROVE  /\ \A s \in Slots :
                  /\ Append(q, s) \in Seq(Slots) /\ Range(Append(q, s)) = Range(q) \cup {s}
                  /\ IsInjective(q) /\ s \notin Range(q) => IsInjective(Append(q, s))
           /\ q # <<>> =>
                  /\ Head(q) \in Slots /\ Head(q) \in Range(q) /\ Tail(q) \in Seq(Slots)
                  /\ Range(Tail(q)) \subseteq Range(q)
                  /\ IsInjective(q) => IsInjective(Tail(q)) /\ Head(q) \notin Range(Tail(q))
           /\ Range(q) \subseteq Slots /\ (q = <<>> => Range(q) = {} /\ IsInjective(q))
<1>1. Len(q) \in Nat /\ DOMAIN q = 1 .. Len(q) /\ \A i \in 1 .. Len(q) : q[i] \in Slots
    OBVIOUS
<1>2. ASSUME NEW s \in Slots
      PROVE  /\ Append(q, s) \in Seq(Slots) /\ Range(Append(q, s)) = Range(q) \cup {s}
             /\ IsInjective(q) /\ s \notin Range(q) => IsInjective(Append(q, s))
    <2>1. /\ Append(q, s) \in Seq(Slots) /\ DOMAIN Append(q, s) = 1 .. (Len(q) + 1)
          /\ \A i \in 1 .. Len(q) : Append(q, s)[i] = q[i]
          /\ Append(q, s)[Len(q) + 1] = s
        OBVIOUS
    <2>2. 1 .. (Len(q) + 1) = 1 .. Len(q) \cup {Len(q) + 1}
        BY <1>1
    <2>3. Range(Append(q, s)) = Range(q) \cup {s}
        BY <1>1, <2>1, <2>2, ZenonT(30) DEF Range
    <2>4. IsInjective(q) /\ s \notin Range(q) => IsInjective(Append(q, s))
        BY <1>1, <2>1 DEF IsInjective, Range
    <2> QED BY <2>1, <2>3, <2>4
<1>3. ASSUME q # <<>>
      PROVE  /\ Head(q) \in Slots /\ Head(q) \in Range(q) /\ Tail(q) \in Seq(Slots)
             /\ Range(Tail(q)) \subseteq Range(q)
             /\ IsInjective(q) => IsInjective(Tail(q)) /\ Head(q) \notin Range(Tail(q))
    <2>1. /\ Len(q) > 0 /\ Head(q) = q[1] /\ Tail(q) \in Seq(Slots)
          /\ DOMAIN Tail(q) = 1 .. (Len(q) - 1)
          /\ \A i \in 1 .. (Len(q) - 1) : Tail(q)[i] = q[i + 1]
        BY <1>1, <1>3
    <2>2. Range(Tail(q)) \subseteq Range(q) /\ Head(q) \in Range(q)
        BY <1>1, <2>1 DEF Range
    <2>3. IsInjective(q) => IsInjective(Tail(q)) /\ Head(q) \notin Range(Tail(q))
        BY <1>1, <2>1 DEF IsInjective, Range
    <2> QED BY <1>1, <2>1, <2>2, <2>3
<1>4. Range(q) \subseteq Slots /\ (q = <<>> => Range(q) = {} /\ IsInjective(q))
    BY <1>1 DEF Range, IsInjective
<1> QED BY <1>2, <1>3, <1>4

\* A thread's locals name threads where they are used.
LEMMA Locals ==
    ASSUME Inv, NEW t \in Slots
    PROVE  /\ pc[t] \in {"init", "node", "start"} => new[t] \in Slots
           /\ pc[t] \in {"join", "asleep", "detach", "detached"} => target[t] \in Slots
           /\ children[t] \in Seq(Slots)
<1>1. children[t] \in Seq(Slots)
    BY InvParts DEF Typed, TypeOK
<1>2. children[t] # <<>> => Head(children[t]) \in Slots
    BY <1>1, ChildListFacts
<1> QED
    BY <1>1, <1>2, InvParts DEF Typed, Making, Holding

USE ZenonT(30)

\* Whoever joins a thread refers to it.
LEMMA Refers ==
    ASSUME Inv, NEW t \in Slots, pc[t] \in {"join", "asleep", "detach", "detached"}
    PROVE  target[t] \in Slots /\ Holds(t, target[t])
<1>1. target[t] \in Slots /\ children[t] \in Seq(Slots)
    BY Locals
<1>2. CASE pc[t] = "detached"
    BY <1>1, <1>2 DEF Holds
<1>3. CASE pc[t] \in {"join", "asleep", "detach"}
    <2>1. children[t] # <<>> /\ target[t] = Head(children[t])
        BY <1>3, InvParts DEF Holding
    <2> QED
        <3>1. Head(children[t]) \in Range(children[t])
            BY <1>1, <2>1, ChildListFacts
        <3> QED
            BY <1>1, <2>1, <3>1 DEF Holds
<1> QED
    BY <1>2, <1>3

\* What the set-up of a new thread does to the child lists: the new thread's is
\* emptied, and its parent's gets the new thread at its end if it is referenced.
LEMMA SetUpFacts ==
    ASSUME Inv, NEW t \in Slots, pc[t] = "init", SetUp(t)
    PROVE  /\ pc[t] = "init" /\ new[t] \in Slots /\ new[t] # t /\ pc[new[t]] = "none"
           /\ children' \in [Slots -> Seq(Slots)]
           /\ \A u \in Slots \ {t, new[t]} : children'[u] = children[u]
           /\ children'[new[t]] = <<>>
           /\ \A u \in Slots : u # new[t] => refcount'[u] = refcount[u]
           /\ \/ children'[t] = children[t] /\ refcount'[new[t]] = 1
              \/ children'[t] = Append(children[t], new[t]) /\ refcount'[new[t]] = 2
<1>1. pc[t] = "init" /\ new[t] \in Slots /\ new[t] # t /\ pc[new[t]] = "none"
    <2>1. new[t] \in Slots
        BY Locals
    <2>2. pc[new[t]] = "none"
        BY <2>1, InvParts DEF Making
    <2> QED BY <2>1, <2>2
<1>2. Append(children[t], new[t]) \in Seq(Slots) /\ <<>> \in Seq(Slots)
    <2>1. <<>> \in Seq(Slots)
        BY SMTT(30)
    <2> QED BY <1>1, <2>1, Locals, ChildListFacts
<1>3. PICK detached \in Kinds :
          /\ refcount' = [refcount EXCEPT ![new[t]] = IF detached THEN 1 ELSE 2]
          /\ children' = [children EXCEPT ![new[t]] = <<>>,
                              ![t] = IF detached THEN @ ELSE Append(@, new[t])]
    BY DEF SetUp
<1>4. children \in [Slots -> Seq(Slots)]
    BY InvParts DEF Typed, TypeOK
<1>5. /\ \A u \in Slots \ {t, new[t]} : children'[u] = children[u]
      /\ children'[new[t]] = <<>>
      /\ children'[t] = IF detached THEN children[t] ELSE Append(children[t], new[t])
    BY <1>1, <1>3, <1>4
<1>6. children' \in [Slots -> Seq(Slots)]
    <2>1. \A u \in Slots : children'[u] \in Seq(Slots)
        BY <1>2, <1>4, <1>5
    <2>2. children' = [u \in Slots |-> children'[u]]
        BY <1>3, <1>4
    <2> QED BY <2>1, <2>2
<1>7. /\ \A u \in Slots : u # new[t] => refcount'[u] = refcount[u]
      /\ refcount'[new[t]] = IF detached THEN 1 ELSE 2
    BY <1>1, <1>3, InvParts DEF Typed, TypeOK
<1> QED
    BY <1>1, <1>5, <1>6, <1>7

\* Nobody refers to the new thread before, and afterwards only its parent may.
LEMMA SetUpHolds ==
    ASSUME Inv, NEW t \in Slots, pc[t] = "init", SetUp(t), NEW s \in Slots, s = new[t],
           NEW p \in {"reap", "run"}, pc' = [pc EXCEPT ![t] = p], UNCHANGED target
    PROVE  /\ \A u \in Slots : ~Holds(u, s)
           /\ \A u \in Slots : IsInjective(children'[u])
           /\ \A u, x \in Slots :
                  Holds(u, x)' => Holds(u, x) \/ (u = t /\ x = s /\ refcount'[s] = 2)
<1>1. /\ pc[t] = "init" /\ s # t
      /\ \A u \in Slots \ {t, s} : children'[u] = children[u]
      /\ children'[s] = <<>>
      /\ children'[t] = children[t] \/ (children'[t] = Append(children[t], s) /\ refcount'[s] = 2)
    BY SetUpFacts
<1>2. \A u \in Slots : ~Holds(u, s)
    BY <1>1, InvParts DEF Holding
<1>3. /\ IsInjective(children'[t]) /\ IsInjective(children'[s]) /\ Range(children'[s]) = {}
      /\ \/ Range(children'[t]) = Range(children[t])
         \/ Range(children'[t]) = Range(children[t]) \cup {s} /\ refcount'[s] = 2
    <2>1. s \notin Range(children[t]) /\ IsInjective(children[t]) /\ children[t] \in Seq(Slots)
        BY <1>2, InvParts DEF Holds, Typed, TypeOK, Holding
    <2>2. IsInjective(<<>>) /\ Range(<<>>) = {}
        <3>1. <<>> \in Seq(Slots)
            BY SMTT(30)
        <3> QED BY <3>1, ChildListFacts
    <2>3. CASE children'[t] = children[t]
        BY <1>1, <2>1, <2>2, <2>3
    <2>4. CASE children'[t] = Append(children[t], s) /\ refcount'[s] = 2
        <3>1. /\ Range(Append(children[t], s)) = Range(children[t]) \cup {s}
              /\ IsInjective(Append(children[t], s))
            BY <2>1, ChildListFacts
        <3> QED BY <1>1, <2>2, <2>4, <3>1
    <2> QED
        BY <1>1, <2>3, <2>4
<1>4. ASSUME NEW u \in Slots, NEW x \in Slots, Holds(u, x)'
      PROVE  Holds(u, x) \/ (u = t /\ x = s /\ refcount'[s] = 2)
    <2>1. x \in Range(children'[u]) \/ (pc'[u] = "detached" /\ target'[u] = x)
        BY <1>4 DEF Holds
    <2>2. pc'[u] = "detached" => pc[u] = "detached" /\ target'[u] = target[u]
        BY InvParts DEF Typed
    <2>3. x \in Range(children'[u]) =>
              x \in Range(children[u]) \/ (u = t /\ x = s /\ refcount'[s] = 2)
        BY <1>1, <1>3
    <2> QED BY <2>1, <2>2, <2>3 DEF Holds
<1>5. \A u \in Slots : IsInjective(children'[u])
    BY <1>1, <1>3, InvParts DEF Holding
<1> QED
    BY <1>2, <1>4, <1>5

-----------------------------------------------------------------------------
(* Steps that concern no reference, no wait queue and no thread's status *)

Plain == {"run", "reap", "collect", "destroy", "reapwait", "node", "start", "joinall"}

Quiet(t) ==
    \/ CallReap(t) \/ CallJoinAll(t) \/ CallExit(t)
    \/ SkipReap(t) \/ BeginReap(t) \/ DeferReap(t) \/ ReapWaited(t) \/ ReapCollect(t) \/ ReapEnd(t)
    \/ ListNew(t) \/ PostCreateNoNode(t)

QuietMove(t, to) ==
    /\ pc[t] \in Plain /\ pc' = [pc EXCEPT ![t] = to]
    /\ UNCHANGED <<allocated, undone, status, refcount, children, wqVars, target, new, reg>>

\* What such a step is.
LEMMA QuietFacts ==
    ASSUME Inv, NEW t \in Slots, Quiet(t)
    PROVE  \E to \in Plain : QuietMove(t, to)
<1> USE DEF QuietMove, Plain, memVars, localVars
<1>1. CASE CallReap(t)
    BY <1>1 DEF CallReap, Goto
<1>2. CASE CallJoinAll(t)
    BY <1>2 DEF CallJoinAll, Goto
<1>3. CASE CallExit(t)
    BY <1>3 DEF CallExit, Goto
<1>4. CASE SkipReap(t)
    BY <1>4 DEF SkipReap
<1>5. CASE BeginReap(t)
    BY <1>5 DEF BeginReap
<1>6. CASE DeferReap(t)
    BY <1>6 DEF DeferReap
<1>7. CASE ReapWaited(t) \/ ReapEnd(t)
    <2>1. pc[t] \in ReapPlaces /\ pc' = [pc EXCEPT ![t] = ret[t]]
        BY <1>7 DEF ReapWaited, ReapEnd, Goto, ReapPlaces
    <2>2. ret[t] \in {"run", "node"}
        BY <2>1, InvParts DEF Used
    <2> QED
        BY <1>7, <2>1, <2>2 DEF ReapWaited, ReapEnd, Goto
<1>8. CASE ReapCollect(t)
    BY <1>8 DEF ReapCollect, Goto
<1>9. CASE ListNew(t)
    BY <1>9 DEF ListNew
<1>10. CASE PostCreateNoNode(t)
    BY <1>10 DEF PostCreateNoNode, Goto
<1> QED
    BY <1>1, <1>2, <1>3, <1>4, <1>5, <1>6, <1>7, <1>8, <1>9, <1>10 DEF Quiet

\* It keeps the references, the counts and who is waited for.
LEMMA QuietSteps ==
    ASSUME Inv, NEW t \in Slots, Quiet(t)
    PROVE  Holding' /\ Counting' /\ Waited'
<1>1. PICK to \in Plain : QuietMove(t, to)
    BY QuietFacts
<1>2. /\ \A u \in Slots : u # t => pc'[u] = pc[u]
      /\ pc[t] \in Plain /\ pc'[t] \in Plain
      /\ UNCHANGED <<allocated, undone, status, refcount, children, target, new, reg>>
      /\ UNCHANGED <<wqLocked, waitq, waiting>>
    BY <1>1, InvParts DEF QuietMove, Typed, wqVars
<1>3. \A u, s \in Slots : Holds(u, s)' <=> Holds(u, s)
    BY <1>2 DEF Holds, Plain
<1>4. \A s \in Slots : HoldsItself(s)' <=> HoldsItself(s)
    BY <1>2 DEF HoldsItself, Set, Plain
<1>5. Holding'
    BY <1>2, <1>3, InvParts DEF Holding, Plain, ExitPlaces
<1>6. Counting'
    <2>1. \A u \in Slots : pc'[u] = "detached" => pc[u] = "detached" /\ target[u] \in Slots
        BY <1>2, InvParts DEF Plain, Holding
    <2>2. \A u \in Slots : pc'[u] = "exitwrite" => pc[u] = "exitwrite"
        BY <1>2 DEF Plain
    <2> QED
        BY <1>2, <1>3, <1>4, <2>1, <2>2, InvParts DEF Counting
<1>7. Waited'
    <2>1. \A u \in Slots : pc[u] \notin Plain \/ pc'[u] \notin Plain => pc'[u] = pc[u]
        BY <1>2
    <2>2. (\A s \in wqLocked : pc[s] \in {"exitread", "exitwrite", "exitpass"})'
        <3>1. \A s \in wqLocked : s \in Slots /\ pc[s] \in {"exitread", "exitwrite", "exitpass"}
            BY InvParts DEF Typed, TypeOK, Waited
        <3>2. \A s \in wqLocked : pc[s] \notin Plain
            BY <3>1 DEF Plain
        <3> QED
            BY <1>2, <2>1, <3>1, <3>2
    <2>3. (\A u, s \in Slots : u \in waitq[s] => pc[u] = "asleep" /\ target[u] = s /\ u \in waiting)'
        BY SMTT(30), <1>2, <2>1, InvParts DEF Waited, Plain
    <2>4. /\ (\A u \in Slots : pc[u] = "asleep" =>
                  u \in waitq[target[u]] \/ status[target[u]] = "EXITED")'
          /\ (\A u \in Slots : pc[u] \in {"detach", "detached"} => status[target[u]] = "EXITED")'
        BY <1>2, <2>1, InvParts DEF Waited, Plain
    <2> QED
        BY <2>2, <2>3, <2>4 DEF Waited
<1> QED BY <1>5, <1>6, <1>7
-----------------------------------------------------------------------------
(* Each part of the invariant is kept by every step *)

\* Every step keeps the types.
LEMMA TypedStep == ASSUME Inv, NEW t \in Slots, Call(t) \/ Step(t) PROVE Typed'
<1>1. CASE CallReap(t)
    BY <1>1, InvParts DEF Typed, TypeOK, Places, ReapPlaces, ExitPlaces, JoinPlaces,
       CallReap, Goto, memVars, wqVars
<1>2. CASE nk_sched_reanimate(t)
    BY SMTT(30), <1>2, InvParts DEF Typed, TypeOK, Places, ReapPlaces, ExitPlaces,
       JoinPlaces, nk_sched_reanimate, Reanimate, Goto, wqVars
<1>3. CASE Allocate(t)
    BY SMTT(30), <1>3, InvParts DEF Typed, TypeOK, Places, ReapPlaces, ExitPlaces,
       JoinPlaces, Allocate, Goto, wqVars
<1>4. CASE CallJoinAll(t)
    BY <1>4, InvParts DEF Typed, TypeOK, Places, ReapPlaces, ExitPlaces, JoinPlaces,
       CallJoinAll, Goto, memVars, wqVars
<1>5. CASE SkipReap(t)
    BY <1>5, InvParts DEF Typed, TypeOK, Places, ReapPlaces, ExitPlaces, JoinPlaces,
       SkipReap, memVars, wqVars, localVars
<1>6. CASE BeginReap(t)
    BY <1>6, InvParts DEF Typed, TypeOK, Places, ReapPlaces, ExitPlaces, JoinPlaces,
       BeginReap, wqVars, localVars
<1>7. CASE DeferReap(t)
    BY <1>7, InvParts DEF Typed, TypeOK, Places, ReapPlaces, ExitPlaces, JoinPlaces,
       DeferReap, memVars, wqVars, localVars
<1>8. CASE ReapWaited(t)
    BY <1>8, InvParts DEF Typed, TypeOK, Places, ReapPlaces, ExitPlaces, JoinPlaces,
       Used, ReapWaited, Goto, memVars, wqVars, localVars
<1>9. CASE ReapCollect(t)
    BY <1>9, InvParts DEF Typed, TypeOK, Places, ReapPlaces, ExitPlaces, JoinPlaces,
       ReapCollect, Goto, wqVars, localVars
<1>10. CASE nk_thread_destroy(t)
    BY <1>10, InvParts DEF Typed, TypeOK, Places, ReapPlaces, ExitPlaces, JoinPlaces,
       nk_thread_destroy, wqVars, localVars
<1>11. CASE ReapEnd(t)
    BY <1>11, InvParts DEF Typed, TypeOK, Places, ReapPlaces, ExitPlaces, JoinPlaces,
       Used, ReapEnd, Goto, wqVars, localVars
<1>12. CASE _nk_thread_init(t)
    <2>1. new[t] \in Slots /\ children' \in [Slots -> Seq(Slots)]
        BY <1>12, SetUpFacts DEF _nk_thread_init, Goto
    <2>2. refcount' \in [Slots -> 0 .. 2]
        BY SMTT(30), <1>12, <2>1, InvParts DEF Typed, TypeOK, _nk_thread_init, SetUp
    <2>3. status' \in [Slots -> {"INIT", "LIVE", "EXITED"}] /\ reapable' \subseteq Slots
        BY <1>12, <2>1, InvParts DEF Typed, TypeOK, _nk_thread_init, SetUp
    <2>4. /\ pc' = [pc EXCEPT ![t] = "reap"] /\ ret' = [ret EXCEPT ![t] = "node"]
          /\ UNCHANGED <<memVars, wqVars, target, new, reg>>
        BY <1>12 DEF _nk_thread_init, Goto
    <2> QED
        BY <2>1, <2>2, <2>3, <2>4, InvParts DEF Typed, TypeOK, Places, ReapPlaces,
           memVars, wqVars
<1>13. CASE ListNew(t)
    BY SMTT(30), <1>13, Locals, InvParts DEF Typed, TypeOK, Places, ReapPlaces,
       ExitPlaces, JoinPlaces, Making, ListNew, wqVars, localVars
<1>14. CASE PostCreateNoNode(t)
    BY <1>14, InvParts DEF Typed, TypeOK, Places, ReapPlaces, ExitPlaces, JoinPlaces,
       PostCreateNoNode, Goto, memVars, wqVars, localVars
<1>15. CASE nk_thread_run(t)
    <2>1. new[t] \in Slots
        BY <1>15, Locals DEF nk_thread_run
    <2>2. pc' \in [Slots -> Places]
        BY <1>15, <2>1, InvParts DEF Typed, Places, nk_thread_run
    <2>3. status' \in [Slots -> {"INIT", "LIVE", "EXITED"}]
        BY <1>15, <2>1, InvParts DEF Typed, TypeOK, nk_thread_run
    <2>4. /\ new' = [new EXCEPT ![t] = Nobody] /\ ret' = [ret EXCEPT ![t] = "run"]
          /\ UNCHANGED <<memVars, reapable, refcount, children, wqVars, target, reg>>
        BY <1>15 DEF nk_thread_run
    <2> QED
        BY <2>2, <2>3, <2>4, InvParts DEF Typed, TypeOK, memVars, wqVars
<1>16. CASE NoChild(t)
    BY <1>16, InvParts DEF Typed, TypeOK, Places, ReapPlaces, ExitPlaces, JoinPlaces,
       Used, NoChild, memVars, wqVars, localVars
<1>17. CASE FirstChild(t)
    <2>1. Head(children[t]) \in Slots
        BY <1>17, Locals, ChildListFacts DEF FirstChild
    <2> QED
        BY <1>17, <2>1, InvParts DEF Typed, TypeOK, Places, JoinPlaces, FirstChild,
           memVars, wqVars
<1>18. CASE JoinExited(t)
    BY <1>18, InvParts DEF Typed, TypeOK, Places, ReapPlaces, ExitPlaces, JoinPlaces,
       JoinExited, memVars, wqVars, localVars
<1>19. CASE JoinBlocks(t)
    BY <1>19, Locals, InvParts DEF Typed, TypeOK, Places, ReapPlaces, ExitPlaces,
       JoinPlaces, JoinBlocks, memVars, localVars
<1>20. CASE JoinAwake(t)
    BY <1>20, InvParts DEF Typed, TypeOK, Places, ReapPlaces, ExitPlaces, JoinPlaces,
       JoinAwake, Goto, memVars, wqVars, localVars
<1>21. CASE DetachRead(t)
    <2>1. target[t] \in Slots /\ Tail(children[t]) \in Seq(Slots)
        <3>1. pc[t] = "detach" /\ children[t] # <<>>
            BY <1>21, InvParts DEF DetachRead, Goto, Holding
        <3> QED
            BY <3>1, Locals, ChildListFacts
    <2> QED
        BY <1>21, <2>1, InvParts DEF Typed, TypeOK, Places, JoinPlaces, DetachRead,
           Goto, memVars, wqVars
<1>22. CASE DetachWrite(t)
    <2>1. target[t] \in Slots /\ reg[t] - 1 \in 0 .. 2
        BY SMTT(30), <1>22, Locals, InvParts DEF Typed, Counting, DetachWrite, Goto
    <2> QED
        BY SMTT(30), <1>22, <2>1, InvParts DEF Typed, TypeOK, Places, JoinPlaces,
           DetachWrite, Goto, memVars, wqVars
<1>23. CASE CallExit(t)
    BY <1>23, InvParts DEF Typed, TypeOK, Places, ReapPlaces, ExitPlaces, JoinPlaces,
       CallExit, Goto, memVars, wqVars
<1>24. CASE ExitWake(t)
    BY <1>24, InvParts DEF Typed, TypeOK, Places, ReapPlaces, ExitPlaces, JoinPlaces,
       ExitWake, Goto, memVars, localVars
<1>25. CASE ExitRead(t)
    BY <1>25, InvParts DEF Typed, TypeOK, Places, ReapPlaces, ExitPlaces, JoinPlaces,
       ExitRead, Goto, memVars, wqVars
<1>26. CASE ExitWrite(t)
    <2>1. reg[t] - 1 \in 0 .. 2
        BY SMTT(30), <1>26, InvParts DEF Typed, Counting, ExitWrite, Goto
    <2> QED
        BY SMTT(30), <1>26, <2>1, InvParts DEF Typed, TypeOK, Places, ExitPlaces,
           ExitWrite, Goto, memVars, wqVars
<1>27. CASE ExitPass(t)
    BY <1>27, InvParts DEF Typed, TypeOK, Places, ReapPlaces, ExitPlaces, JoinPlaces,
       ExitPass, Goto, memVars, localVars
<1>28. CASE nk_thread_switch_exit_helper(t)
    BY <1>28, InvParts DEF Typed, TypeOK, Places, ReapPlaces, ExitPlaces, JoinPlaces,
       nk_thread_switch_exit_helper, Goto, memVars, wqVars, localVars
<1>29. CASE GivenUp(t)
    <2>1. new[t] \in Slots /\ new[t] \notin thread_list
        BY <1>29, Locals, InvParts DEF GivenUp, Making
    <2>2. /\ allocated' \subseteq Slots /\ thread_list' \subseteq allocated'
          /\ undone' \subseteq Slots \ allocated'
        BY <1>29, <2>1, InvParts DEF Typed, TypeOK, GivenUp, Undo
    <2> QED
        BY <1>29, <2>2, InvParts DEF Typed, TypeOK, Places, GivenUp, Undo, wqVars
<1>30. CASE InitFails(t)
    <2>1. new[t] \in Slots /\ new[t] \notin thread_list /\ children' \in [Slots -> Seq(Slots)]
        BY <1>30, SetUpFacts, InvParts DEF InitFails, Goto, Making
    <2>2. refcount' \in [Slots -> 0 .. 2]
        BY SMTT(30), <1>30, <2>1, InvParts DEF Typed, TypeOK, InitFails, SetUp
    <2>3. status' \in [Slots -> {"INIT", "LIVE", "EXITED"}]
        BY <1>30, <2>1, InvParts DEF Typed, TypeOK, InitFails, SetUp
    <2>4. /\ allocated' \subseteq Slots /\ thread_list' \subseteq allocated'
          /\ undone' \subseteq Slots \ allocated'
        BY <1>30, <2>1, InvParts DEF Typed, TypeOK, InitFails, Undo
    <2>5. /\ pc' = [pc EXCEPT ![t] = "run"] /\ ret' = [ret EXCEPT ![t] = "run"]
          /\ new' = [new EXCEPT ![t] = Nobody]
          /\ UNCHANGED <<reaping, reap_pool, reapable, wqVars, target, reg>>
        BY <1>30 DEF InitFails, Undo, Goto
    <2> QED
        BY <2>1, <2>2, <2>3, <2>4, <2>5, InvParts DEF Typed, TypeOK, Places, wqVars
<1> QED
    BY <1>1, <1>2, <1>3, <1>4, <1>5, <1>6, <1>7, <1>8, <1>9, <1>10, <1>11, <1>12, <1>13, <1>14,
       <1>15, <1>16, <1>17, <1>18, <1>19, <1>20, <1>21, <1>22, <1>23, <1>24, <1>25, <1>26, <1>27,
       <1>28, <1>29, <1>30, Outcomes DEF Call, Step, Reap, Create, Join, Exit

\* Every step keeps the slots of the threads being created apart.
LEMMA MakingStep == ASSUME Inv, NEW t \in Slots, Call(t) \/ Step(t) PROVE Making'
<1>1. CASE CallReap(t)
    BY SMTT(30), <1>1, InvParts DEF Typed, TypeOK, Making, Used, ReapPlaces,
       JoinPlaces, CallReap, Goto, memVars
<1>2. CASE nk_sched_reanimate(t)
    BY SMTT(30), <1>2, InvParts DEF Typed, TypeOK, Making, Used, ReapPlaces,
       JoinPlaces, Reapable, nk_sched_reanimate, Reanimate, Goto
<1>3. CASE Allocate(t)
    BY SMTT(30), <1>3, InvParts DEF Typed, TypeOK, Making, Used, ReapPlaces,
       JoinPlaces, Allocate, Goto
<1>4. CASE CallJoinAll(t)
    BY SMTT(30), <1>4, InvParts DEF Typed, TypeOK, Making, Used, ReapPlaces,
       JoinPlaces, CallJoinAll, Goto, memVars
<1>5. CASE SkipReap(t)
    BY SMTT(30), <1>5, InvParts DEF Typed, TypeOK, Making, Used, ReapPlaces,
       JoinPlaces, SkipReap, memVars, localVars
<1>6. CASE BeginReap(t)
    BY SMTT(30), <1>6, InvParts DEF Typed, TypeOK, Making, Used, ReapPlaces,
       JoinPlaces, BeginReap, localVars
<1>7. CASE DeferReap(t)
    BY SMTT(30), <1>7, InvParts DEF Typed, TypeOK, Making, Used, ReapPlaces,
       JoinPlaces, DeferReap, memVars, localVars
<1>8. CASE ReapWaited(t)
    BY SMTT(30), <1>8, InvParts DEF Typed, TypeOK, Making, Used, ReapPlaces,
       JoinPlaces, ReapWaited, Goto, memVars, localVars
<1>9. CASE ReapCollect(t)
    BY SMTT(30), <1>9, InvParts DEF Typed, TypeOK, Making, Used, ReapPlaces,
       JoinPlaces, ReapCollect, Goto, localVars
<1>10. CASE nk_thread_destroy(t)
    BY SMTT(30), <1>10, InvParts DEF Typed, TypeOK, Making, Used, ReapPlaces,
       JoinPlaces, Reapable, nk_thread_destroy, localVars
<1>11. CASE ReapEnd(t)
    BY SMTT(30), <1>11, InvParts DEF Typed, TypeOK, Making, Used, ReapPlaces,
       JoinPlaces, ReapEnd, Goto, localVars
<1>12. CASE _nk_thread_init(t)
    BY SMTT(30), <1>12, InvParts DEF Typed, TypeOK, Making, Used, ReapPlaces,
       JoinPlaces, _nk_thread_init, SetUp, Goto, memVars
<1>13. CASE ListNew(t)
    BY SMTT(30), <1>13, InvParts DEF Typed, TypeOK, Making, Used, ReapPlaces,
       JoinPlaces, ListNew, localVars
<1>14. CASE PostCreateNoNode(t)
    BY SMTT(30), <1>14, InvParts DEF Typed, TypeOK, Making, Used, ReapPlaces,
       JoinPlaces, PostCreateNoNode, Goto, memVars, localVars
<1>15. CASE nk_thread_run(t)
    <2>1. /\ new[t] \in Slots /\ new[t] # t /\ pc[new[t]] = "none" /\ new[new[t]] = Nobody
          /\ \A u \in Slots : u # t => new[u] # new[t]
        <3>1. new[t] \in Slots
            BY <1>15, Locals DEF nk_thread_run
        <3> QED
            BY <1>15, <3>1, InvParts DEF Typed, Making, nk_thread_run, ReapPlaces
    <2>2. /\ \A u \in Slots : pc'[u] = IF u \in {t, new[t]} THEN "run" ELSE pc[u]
          /\ \A u \in Slots : new'[u] = IF u = t THEN Nobody ELSE new[u]
          /\ \A u \in Slots : u # t => ret'[u] = ret[u]
          /\ \A s \in Slots : s # new[t] => status'[s] = status[s]
          /\ UNCHANGED <<allocated, thread_list, reapable>>
        BY <1>15, <2>1, InvParts DEF Typed, TypeOK, nk_thread_run, memVars
    <2> QED
        BY SMTT(30), <2>1, <2>2, ThreadLifeAssumption, InvParts DEF Typed, Making,
           ReapPlaces
<1>16. CASE NoChild(t)
    <2>1. ret[t] = "run" \/ ret[t] = "exit"
        BY <1>16, InvParts DEF Used, JoinPlaces, NoChild
    <2>2. pc[t] = "joinall" /\ (pc' = [pc EXCEPT ![t] = "run"] \/ pc' = [pc EXCEPT ![t] = "exit"])
        BY <1>16, <2>1 DEF NoChild
    <2> QED
        BY SMTT(30), <1>16, <2>2, InvParts DEF Typed, TypeOK, Making, ReapPlaces,
           NoChild, memVars, localVars
<1>17. CASE FirstChild(t)
    BY SMTT(30), <1>17, InvParts DEF Typed, TypeOK, Making, Used, ReapPlaces,
       JoinPlaces, FirstChild, memVars
<1>18. CASE JoinExited(t)
    BY SMTT(30), <1>18, InvParts DEF Typed, TypeOK, Making, Used, ReapPlaces,
       JoinPlaces, JoinExited, memVars, localVars
<1>19. CASE JoinBlocks(t)
    BY SMTT(30), <1>19, InvParts DEF Typed, TypeOK, Making, Used, ReapPlaces,
       JoinPlaces, JoinBlocks, memVars, localVars
<1>20. CASE JoinAwake(t)
    BY SMTT(30), <1>20, InvParts DEF Typed, TypeOK, Making, Used, ReapPlaces,
       JoinPlaces, JoinAwake, Goto, memVars, localVars
<1>21. CASE DetachRead(t)
    BY SMTT(30), <1>21, InvParts DEF Typed, TypeOK, Making, Used, ReapPlaces,
       JoinPlaces, DetachRead, Goto, memVars
<1>22. CASE DetachWrite(t)
    BY SMTT(30), <1>22, InvParts DEF Typed, TypeOK, Making, Used, ReapPlaces,
       JoinPlaces, DetachWrite, Goto, memVars
<1>23. CASE CallExit(t)
    BY SMTT(30), <1>23, InvParts DEF Typed, TypeOK, Making, Used, ReapPlaces,
       JoinPlaces, CallExit, Goto, memVars
<1>24. CASE ExitWake(t)
    BY SMTT(30), <1>24, InvParts DEF Typed, TypeOK, Making, Used, ReapPlaces,
       JoinPlaces, ExitWake, Goto, memVars, localVars
<1>25. CASE ExitRead(t)
    BY SMTT(30), <1>25, InvParts DEF Typed, TypeOK, Making, Used, ReapPlaces,
       JoinPlaces, ExitRead, Goto, memVars
<1>26. CASE ExitWrite(t)
    BY SMTT(30), <1>26, InvParts DEF Typed, TypeOK, Making, Used, ReapPlaces,
       JoinPlaces, ExitPlaces, ExitWrite, Goto, memVars
<1>27. CASE ExitPass(t)
    BY SMTT(30), <1>27, InvParts DEF Typed, TypeOK, Making, Used, ReapPlaces,
       JoinPlaces, ExitPass, Goto, memVars, localVars
<1>28. CASE nk_thread_switch_exit_helper(t)
    BY SMTT(30), <1>28, InvParts DEF Typed, TypeOK, Making, Used, ReapPlaces,
       JoinPlaces, nk_thread_switch_exit_helper, Goto, memVars, localVars
<1>29. CASE GivenUp(t) \/ InitFails(t)
    <2>1. /\ pc[t] \in {"init", "node"} /\ pc' = [pc EXCEPT ![t] = "run"]
          /\ new' = [new EXCEPT ![t] = Nobody] /\ allocated' = allocated \ {new[t]}
          /\ ret' = [ret EXCEPT ![t] = "run"] /\ UNCHANGED <<thread_list, reapable>>
        BY <1>29 DEF GivenUp, InitFails, Undo, Goto
    <2>2. \A s \in Slots : s # new[t] => status'[s] = status[s]
        BY <1>29, InvParts DEF GivenUp, InitFails, SetUp, Typed, TypeOK
    <2> QED
        BY SMTT(30), <2>1, <2>2, ThreadLifeAssumption, InvParts DEF Typed, TypeOK, Making, ReapPlaces
<1> QED
    BY <1>1, <1>2, <1>3, <1>4, <1>5, <1>6, <1>7, <1>8, <1>9, <1>10, <1>11, <1>12, <1>13, <1>14,
       <1>15, <1>16, <1>17, <1>18, <1>19, <1>20, <1>21, <1>22, <1>23, <1>24, <1>25, <1>26, <1>27,
       <1>28, <1>29, Outcomes DEF Call, Step, Reap, Create, Join, Exit

\* Every step keeps what the reaper has collected dead.
LEMMA UsedStep == ASSUME Inv, NEW t \in Slots, Call(t) \/ Step(t) PROVE Used'
<1>1. CASE CallReap(t)
    BY <1>1, InvParts DEF Typed, TypeOK, Used, ReapPlaces, JoinPlaces, Reapable,
       CallReap, Goto, memVars, wqVars
<1>2. CASE nk_sched_reanimate(t)
    BY SMTT(30), <1>2, InvParts DEF Typed, TypeOK, Used, ReapPlaces, JoinPlaces,
       Reapable, Making, nk_sched_reanimate, Reanimate, Goto, wqVars
<1>3. CASE Allocate(t)
    BY SMTT(30), <1>3, InvParts DEF Typed, TypeOK, Used, ReapPlaces, JoinPlaces,
       Reapable, Making, Allocate, Goto, wqVars
<1>4. CASE CallJoinAll(t)
    BY <1>4, InvParts DEF Typed, TypeOK, Used, ReapPlaces, JoinPlaces, Reapable,
       CallJoinAll, Goto, memVars, wqVars
<1>5. CASE SkipReap(t)
    BY <1>5, InvParts DEF Typed, TypeOK, Used, ReapPlaces, JoinPlaces, Reapable,
       SkipReap, memVars, wqVars, localVars
<1>6. CASE BeginReap(t)
    BY <1>6, ThreadLifeAssumption, InvParts DEF Typed, TypeOK, Used, ReapPlaces,
       JoinPlaces, Reapable, BeginReap, wqVars, localVars
<1>7. CASE DeferReap(t)
    BY <1>7, InvParts DEF Typed, TypeOK, Used, ReapPlaces, JoinPlaces, Reapable,
       DeferReap, memVars, wqVars, localVars
<1>8. CASE ReapWaited(t)
    BY <1>8, InvParts DEF Typed, TypeOK, Used, ReapPlaces, JoinPlaces, Reapable,
       ReapWaited, Goto, memVars, wqVars, localVars
<1>9. CASE ReapCollect(t)
    <2>1. reaping = t /\ t # Nobody /\ pc[t] = "collect"
        BY <1>9, ThreadLifeAssumption, InvParts DEF Used, ReapCollect, Goto
    <2>2. \A s \in reap_pool' : s \in thread_list' /\ Reapable(s)'
        BY <1>9 DEF ReapCollect, Reapable
    <2> QED
        BY <1>9, <2>1, <2>2, InvParts DEF Typed, TypeOK, Used, ReapPlaces, JoinPlaces,
           ReapCollect, Goto, localVars
<1>10. CASE nk_thread_destroy(t)
    BY <1>10, InvParts DEF Typed, TypeOK, Used, ReapPlaces, JoinPlaces, Reapable,
       nk_thread_destroy, wqVars, localVars
<1>11. CASE ReapEnd(t)
    <2>1. ret[t] = "run" \/ ret[t] = "node"
        BY <1>11, InvParts DEF Used, ReapPlaces, ReapEnd, Goto
    <2>2. pc[t] = "destroy" /\ (pc' = [pc EXCEPT ![t] = "run"] \/ pc' = [pc EXCEPT ![t] = "node"])
        BY <1>11, <2>1 DEF ReapEnd, Goto
    <2>3. reaping = t /\ reaping' = Nobody /\ Nobody \notin Slots /\ reap_pool' = {}
        BY <1>11, <2>2, ThreadLifeAssumption, InvParts DEF Used, ReapEnd
    <2>4. \A u \in Slots : pc'[u] \in {"collect", "destroy"} <=> reaping' = u
        BY <2>2, <2>3, InvParts DEF Typed, Used
    <2> QED
        BY <1>11, <2>2, <2>3, <2>4, InvParts DEF Typed, Used, ReapPlaces, JoinPlaces,
           ReapEnd, localVars
<1>12. CASE _nk_thread_init(t)
    <2>1. /\ pc[t] = "init" /\ pc' = [pc EXCEPT ![t] = "reap"] /\ SetUp(t)
          /\ ret' = [ret EXCEPT ![t] = "node"] /\ reapable' = reapable \ {new[t]}
          /\ UNCHANGED <<allocated, thread_list, reaping, reap_pool>>
        BY <1>12 DEF _nk_thread_init, Goto, memVars
    <2>2. new[t] \in Slots /\ pc[new[t]] = "none" /\ new[t] \notin thread_list
        BY <2>1, Locals, InvParts DEF Making
    <2>3. \A s \in Slots : s # new[t] => status'[s] = status[s] /\ refcount'[s] = refcount[s]
        <3>1. \A s \in Slots : s # new[t] => refcount'[s] = refcount[s]
            BY <2>1, SetUpFacts
        <3>2. \A s \in Slots : s # new[t] => status'[s] = status[s]
            BY <2>1, InvParts DEF SetUp, Typed, TypeOK
        <3> QED BY <3>1, <3>2
    <2>4. \A s \in reap_pool : s \in Slots /\ s # new[t]
        BY <2>2, InvParts DEF Typed, TypeOK, Used
    <2> QED
        BY SMTT(30), <2>1, <2>2, <2>3, <2>4, InvParts DEF Typed, Used, ReapPlaces, JoinPlaces, Reapable
<1>13. CASE ListNew(t)
    BY SMTT(30), <1>13, InvParts DEF Typed, TypeOK, Used, ReapPlaces, JoinPlaces,
       Reapable, Making, ListNew, wqVars, localVars
<1>14. CASE PostCreateNoNode(t)
    BY <1>14, InvParts DEF Typed, TypeOK, Used, ReapPlaces, JoinPlaces, Reapable,
       PostCreateNoNode, Goto, memVars, wqVars, localVars
<1>15. CASE nk_thread_run(t)
    <2>1. new[t] \in Slots /\ pc[t] = "start"
        BY <1>15, Locals DEF nk_thread_run
    <2>2. new[t] \in allocated /\ new[t] \notin reapable
        BY <2>1, InvParts DEF Making
    <2>3. \A u \in Slots : pc'[u] = (IF u \in {t, new[t]} THEN "run" ELSE pc[u])
        BY <1>15, <2>1, InvParts DEF Typed, nk_thread_run
    <2>4. pc[new[t]] = "none"
        BY <2>1, InvParts DEF Making
    <2>5. \A s \in reap_pool : s # new[t] /\ s \in Slots
        BY <2>2, InvParts DEF Typed, TypeOK, Used, Reapable
    <2>6. /\ \A s \in Slots : s # new[t] => status'[s] = status[s]
          /\ \A u \in Slots : u # t => ret'[u] = ret[u]
          /\ UNCHANGED <<allocated, thread_list, reaping, reap_pool, reapable, refcount>>
        BY <1>15, InvParts DEF Typed, TypeOK, nk_thread_run, memVars
    <2> QED
        BY SMTT(30), <2>1, <2>2, <2>3, <2>4, <2>5, <2>6, InvParts DEF Used,
           ReapPlaces, JoinPlaces, Reapable
<1>16. CASE NoChild(t)
    BY <1>16, InvParts DEF Typed, TypeOK, Used, ReapPlaces, JoinPlaces, Reapable,
       NoChild, memVars, wqVars, localVars
<1>17. CASE FirstChild(t)
    BY <1>17, InvParts DEF Typed, TypeOK, Used, ReapPlaces, JoinPlaces, Reapable,
       FirstChild, memVars, wqVars
<1>18. CASE JoinExited(t)
    BY SMTT(30), <1>18, InvParts DEF Typed, TypeOK, Used, ReapPlaces, JoinPlaces,
       Reapable, JoinExited, memVars, wqVars, localVars
<1>19. CASE JoinBlocks(t)
    BY <1>19, InvParts DEF Typed, TypeOK, Used, ReapPlaces, JoinPlaces, Reapable,
       JoinBlocks, memVars, localVars
<1>20. CASE JoinAwake(t)
    BY <1>20, InvParts DEF Typed, TypeOK, Used, ReapPlaces, JoinPlaces, Reapable,
       JoinAwake, Goto, memVars, wqVars, localVars
<1>21. CASE DetachRead(t)
    BY <1>21, InvParts DEF Typed, TypeOK, Used, ReapPlaces, JoinPlaces, Reapable,
       DetachRead, Goto, memVars, wqVars
<1>22. CASE DetachWrite(t)
    <2>1. target[t] \in Slots /\ target[t] \notin reap_pool
        BY SMTT(30), <1>22, Locals, InvParts DEF Typed, TypeOK, Used, Reapable, Holds,
           Counting, DetachWrite, Goto
    <2> QED
        BY <1>22, <2>1, InvParts DEF Typed, TypeOK, Used, ReapPlaces, JoinPlaces,
           Reapable, DetachWrite, Goto, memVars
<1>23. CASE CallExit(t)
    BY <1>23, InvParts DEF Typed, TypeOK, Used, ReapPlaces, JoinPlaces, Reapable,
       CallExit, Goto, memVars, wqVars
<1>24. CASE ExitWake(t)
    BY <1>24, InvParts DEF Typed, TypeOK, Used, ReapPlaces, JoinPlaces, Reapable,
       ExitWake, Goto, memVars, localVars
<1>25. CASE ExitRead(t)
    BY <1>25, InvParts DEF Typed, TypeOK, Used, ReapPlaces, JoinPlaces, Reapable,
       ExitRead, Goto, memVars, wqVars
<1>26. CASE ExitWrite(t)
    BY <1>26, InvParts DEF Typed, TypeOK, Used, ReapPlaces, JoinPlaces, Reapable,
       ExitWrite, Goto, memVars, wqVars
<1>27. CASE ExitPass(t)
    BY <1>27, InvParts DEF Typed, TypeOK, Used, ReapPlaces, JoinPlaces, Reapable,
       ExitPass, Goto, memVars, localVars
<1>28. CASE nk_thread_switch_exit_helper(t)
    BY <1>28, InvParts DEF Typed, TypeOK, Used, ReapPlaces, JoinPlaces, Reapable,
       nk_thread_switch_exit_helper, Goto, memVars, wqVars, localVars
<1>29. CASE GivenUp(t) \/ InitFails(t)
    <2>1. /\ pc[t] \in {"init", "node"} /\ pc' = [pc EXCEPT ![t] = "run"]
          /\ allocated' = allocated \ {new[t]} /\ ret' = [ret EXCEPT ![t] = "run"]
          /\ UNCHANGED <<thread_list, reaping, reap_pool, reapable>>
        BY <1>29 DEF GivenUp, InitFails, Undo, Goto
    <2>2. new[t] \in Slots /\ pc[new[t]] = "none" /\ new[t] \notin thread_list
        BY <2>1, Locals, InvParts DEF Making
    <2>3. \A s \in Slots : s # new[t] => status'[s] = status[s] /\ refcount'[s] = refcount[s]
        <3>1. CASE GivenUp(t)
            BY <3>1 DEF GivenUp
        <3>2. CASE InitFails(t)
            <4>1. pc[t] = "init" /\ SetUp(t)
                BY <3>2 DEF InitFails, Goto
            <4>2. \A s \in Slots : s # new[t] => refcount'[s] = refcount[s]
                BY <4>1, SetUpFacts
            <4>3. \A s \in Slots : s # new[t] => status'[s] = status[s]
                BY <4>1, InvParts DEF SetUp, Typed, TypeOK
            <4> QED BY <4>2, <4>3
        <3> QED BY <1>29, <3>1, <3>2
    <2>4. \A s \in reap_pool : s \in Slots /\ s # new[t]
        BY <2>2, InvParts DEF Typed, TypeOK, Used
    <2> QED
        BY SMTT(30), <2>1, <2>2, <2>3, <2>4, InvParts DEF Typed, Used, ReapPlaces, JoinPlaces, Reapable
<1> QED
    BY <1>1, <1>2, <1>3, <1>4, <1>5, <1>6, <1>7, <1>8, <1>9, <1>10, <1>11, <1>12, <1>13, <1>14,
       <1>15, <1>16, <1>17, <1>18, <1>19, <1>20, <1>21, <1>22, <1>23, <1>24, <1>25, <1>26, <1>27,
       <1>28, <1>29, Outcomes DEF Call, Step, Reap, Create, Join, Exit

\* A step of one thread that leaves the child lists and the new threads alone
\* keeps the references, if the thread has children to join where it joins them
\* and none where it exits.
LEMMA HoldingKept ==
    ASSUME Inv, NEW t \in Slots, NEW p, pc' = [pc EXCEPT ![t] = p],
           UNCHANGED <<allocated, undone, children, new>>,
           \A u \in Slots : u # t => target'[u] = target[u],
           p \notin {"init", "detached"},
           p \in ExitPlaces \cup {"none"} => children[t] = <<>>,
           p \in {"join", "asleep", "detach"} =>
               children[t] # <<>> /\ target'[t] = Head(children[t])
    PROVE  Holding'
<1>1. pc'[t] = p /\ \A u \in Slots : u # t => pc'[u] = pc[u]
    BY InvParts DEF Typed
<1>2. \A u, x \in Slots : Holds(u, x)' => Holds(u, x)
    BY <1>1 DEF Holds
<1>3. \A u \in Slots : pc'[u] = "init" => pc[u] = "init"
    BY <1>1
<1>4. /\ (\A u \in Slots : IsInjective(children[u]))'
      /\ (\A u, v, x \in Slots : Holds(u, x) /\ Holds(v, x) => u = v)'
      /\ (\A u, x \in Slots : Holds(u, x) => x \in allocated \cup undone)'
      /\ (\A u, v, x \in Slots : Holds(u, x) /\ new[v] = x => u = v /\ pc[v] # "init")'
    BY <1>2, <1>3, InvParts DEF Holding
<1>5. /\ (\A u \in Slots : pc[u] \in ExitPlaces \cup {"none"} => children[u] = <<>>)'
      /\ (\A u \in Slots : pc[u] \in {"join", "asleep", "detach"} =>
               children[u] # <<>> /\ target[u] = Head(children[u]))'
      /\ (\A u \in Slots : pc[u] = "detached" =>
               target[u] \in Slots /\ target[u] \notin Range(children[u]))'
    BY <1>1, InvParts DEF Holding
<1> QED BY <1>4, <1>5 DEF Holding

\* The set-up of a new thread keeps the references, if its parent's reference is
\* to memory that is allocated or known to have been freed.
LEMMA SetUpHolding ==
    ASSUME Inv, NEW t \in Slots, pc[t] = "init", SetUp(t),
           NEW p \in {"reap", "run"}, pc' = [pc EXCEPT ![t] = p], UNCHANGED target,
           \A u \in Slots : new'[u] = new[u] \/ new'[u] = Nobody,
           allocated \cup undone \subseteq allocated' \cup undone' \cup {new[t]},
           new[t] \in Range(children'[t]) => new[t] \in allocated' \cup undone'
    PROVE  Holding'
<1>0. PICK s \in Slots : s = new[t]
    BY SetUpFacts
<1>1. /\ pc[t] = "init" /\ s \in Slots /\ s # t /\ pc[s] = "none"
      /\ children' \in [Slots -> Seq(Slots)]
      /\ \A u \in Slots \ {t, s} : children'[u] = children[u]
      /\ children'[s] = <<>>
      /\ children'[t] = children[t] \/ children'[t] = Append(children[t], s)
    BY <1>0, SetUpFacts
<1>2. /\ \A u \in Slots : ~Holds(u, s)
      /\ \A u \in Slots : IsInjective(children'[u])
    BY <1>0, SetUpHolds
<1>4. \A u, x \in Slots :
          Holds(u, x)' => Holds(u, x) \/ (u = t /\ x = s /\ refcount'[s] = 2)
    BY <1>0, SetUpHolds
<1>5. \A u \in Slots : u # t => pc'[u] = pc[u]
    BY InvParts DEF Typed
<1>6. pc'[t] \in {"reap", "run"}
    BY InvParts DEF Typed
<1>7. (\A u \in Slots : pc[u] \in ExitPlaces \cup {"none"} => children[u] = <<>>)'
    <2>1. \A u \in Slots : pc'[u] \in ExitPlaces \cup {"none"} => u # t /\ pc'[u] = pc[u]
        BY <1>5, <1>6 DEF ExitPlaces
    <2> QED BY <1>1, <2>1, InvParts DEF Holding
<1>8. \A u \in Slots : pc'[u] \in {"join", "asleep", "detach", "detached"} =>
           pc'[u] = pc[u] /\ children'[u] = children[u]
    <2>1. \A u \in Slots : pc'[u] \in {"join", "asleep", "detach", "detached"} =>
              pc'[u] = pc[u] /\ u # t /\ u # s
        BY <1>1, <1>5, <1>6
    <2> QED BY <1>1, <2>1
<1>9. (\A u \in Slots : pc[u] \in {"join", "asleep", "detach"} =>
            children[u] # <<>> /\ target[u] = Head(children[u]))'
    BY <1>8, InvParts DEF Holding
<1>10. (\A u \in Slots : pc[u] = "detached" =>
            target[u] \in Slots /\ target[u] \notin Range(children[u]))'
    BY <1>8, InvParts DEF Holding
<1>11. (\A u, v, x \in Slots : Holds(u, x) /\ Holds(v, x) => u = v)'
    <2>1. \A u, v, x \in Slots : Holds(u, x) /\ Holds(v, x) => u = v
        BY InvParts DEF Holding
    <2>2. ASSUME NEW u \in Slots, NEW v \in Slots, NEW x \in Slots, Holds(u, x)', Holds(v, x)'
          PROVE  u = v
        <3>1. CASE x = s
            BY <1>2, <1>4, <2>2, <3>1
        <3>2. CASE x # s
            BY <1>4, <2>1, <2>2, <3>2
        <3> QED BY <3>1, <3>2
    <2> QED BY <2>2
<1>12. (\A u, x \in Slots : Holds(u, x) => x \in allocated \cup undone)'
    <2>1. \A u, x \in Slots : Holds(u, x) => x \in allocated \cup undone /\ x # s
        <3>1. \A u, x \in Slots : Holds(u, x) => x \in allocated \cup undone
            BY InvParts DEF Holding
        <3> QED BY <1>2, <3>1
    <2>2. Holds(t, s)' => s \in Range(children'[t])
        BY <1>6 DEF Holds
    <2> QED BY <1>0, <1>4, <2>1, <2>2
<1>13. (\A u, v, x \in Slots : Holds(u, x) /\ new[v] = x => u = v /\ pc[v] # "init")'
    <2>1. \A v \in Slots : v # t => new[v] # s
        <3>1. \A v \in Slots : new[v] = new[t] /\ new[v] # Nobody => v = t
            BY InvParts DEF Making
        <3>2. s # Nobody
            BY ThreadLifeAssumption
        <3> QED BY <1>0, <3>1, <3>2
    <2>2. \A v \in Slots : pc'[v] = "init" => pc[v] = "init" /\ v # t
        BY <1>5, <1>6
    <2>3. \A v, x \in Slots : new'[v] = x => new[v] = x
        BY ThreadLifeAssumption
    <2>4. ASSUME NEW u \in Slots, NEW v \in Slots, NEW x \in Slots, Holds(u, x)', new'[v] = x
          PROVE  u = v /\ pc'[v] # "init"
        <3>1. CASE x = s
            <4>1. u = t
                BY <1>2, <1>4, <2>4, <3>1
            <4>2. v = t
                BY <2>1, <2>3, <2>4, <3>1
            <4>3. pc'[t] # "init"
                BY <1>6
            <4> QED BY <4>1, <4>2, <4>3
        <3>2. CASE x # s
            BY <1>4, <2>2, <2>3, <2>4, <3>2, InvParts DEF Holding
        <3> QED BY <3>1, <3>2
    <2> QED BY <2>4
<1> QED
    BY <1>2, <1>7, <1>9, <1>10, <1>11, <1>12, <1>13 DEF Holding

\* Every step keeps each thread referenced by one parent at most.
LEMMA HoldingStep == ASSUME Inv, NEW t \in Slots, Call(t) \/ Step(t) PROVE Holding'
<1>1. CASE Quiet(t)
    BY <1>1, QuietSteps
<1>2. CASE nk_sched_reanimate(t)
    BY SMTT(30), <1>2, InvParts DEF Typed, Holding, Holds, ExitPlaces, TypeOK, Used,
       Reapable, Counting, nk_sched_reanimate, Reanimate, Goto, wqVars
<1>3. CASE Allocate(t)
    <2>1. PICK s \in Slots : /\ s \notin allocated /\ s \notin undone
                             /\ new' = [new EXCEPT ![t] = s] /\ allocated' = allocated \cup {s}
        BY <1>3 DEF Allocate
    <2>2. /\ pc[t] = "run" /\ pc' = [pc EXCEPT ![t] = "init"] /\ UNCHANGED <<undone, children, target>>
        BY <1>3 DEF Allocate, Goto
    <2>3. \A u, x \in Slots : Holds(u, x)' <=> Holds(u, x)
        BY <2>2, InvParts DEF Typed, Holds
    <2>4. (\A u, v, x \in Slots : Holds(u, x) /\ new[v] = x => u = v /\ pc[v] # "init")'
        <3>1. \A u, x \in Slots : Holds(u, x) => x # s
            BY <2>1, InvParts DEF Holding
        <3>2. \A v, x \in Slots : x # s /\ new'[v] = x => v # t /\ new[v] = x /\ pc'[v] = pc[v]
            BY <2>1, <2>2, InvParts DEF Typed
        <3>3. \A u, v, x \in Slots : Holds(u, x) /\ new[v] = x => u = v /\ pc[v] # "init"
            BY InvParts DEF Holding
        <3> QED
            BY <2>3, <3>1, <3>2, <3>3
    <2>5. pc'[t] = "init" /\ \A u \in Slots : u # t => pc'[u] = pc[u]
        BY <2>2, InvParts DEF Typed
    <2>6. /\ (\A u, v, x \in Slots : Holds(u, x) /\ Holds(v, x) => u = v)'
          /\ (\A u, x \in Slots : Holds(u, x) => x \in allocated \cup undone)'
        BY <2>1, <2>2, <2>3, InvParts DEF Holding
    <2> QED
        BY <2>2, <2>4, <2>5, <2>6, InvParts DEF Holding, ExitPlaces
<1>4. CASE nk_thread_destroy(t)
    <2>1. PICK s \in reap_pool : allocated' = allocated \ {s}
        BY <1>4 DEF nk_thread_destroy
    <2>2. UNCHANGED <<undone, children, pc, target, new>>
        BY <1>4 DEF nk_thread_destroy, localVars
    <2>3. refcount[s] = 0 /\ s \in Slots
        BY <2>1, InvParts DEF Used, Reapable, Typed, TypeOK
    <2>4. \A u \in Slots : ~Holds(u, s)
        <3>1. ~(0 >= 1)
            BY SMTT(30)
        <3> QED BY <2>3, <3>1, InvParts DEF Counting
    <2>5. \A u, x \in Slots : Holds(u, x)' <=> Holds(u, x)
        BY <2>2 DEF Holds
    <2>6. (\A u, x \in Slots : Holds(u, x) => x \in allocated \cup undone)'
        BY <2>1, <2>2, <2>4, <2>5, InvParts DEF Holding
    <2> QED
        BY <2>2, <2>5, <2>6, InvParts DEF Holding
<1>5. CASE _nk_thread_init(t)
    <2>1. /\ pc[t] = "init" /\ pc' = [pc EXCEPT ![t] = "reap"] /\ SetUp(t)
          /\ UNCHANGED <<allocated, undone, target, new>>
        BY <1>5 DEF _nk_thread_init, Goto, memVars
    <2>2. new[t] \in allocated
        BY <2>1, Locals, InvParts DEF Making
    <2> QED
        BY <2>1, <2>2, SetUpHolding
<1>6. CASE nk_thread_run(t)
    <2>1. PICK s \in Slots : s = new[t]
        BY <1>6, Locals DEF nk_thread_run
    <2>2. /\ pc' = [pc EXCEPT ![t] = "run", ![s] = "run"] /\ new' = [new EXCEPT ![t] = Nobody]
          /\ UNCHANGED <<allocated, undone, children, target>>
        BY <1>6, <2>1 DEF nk_thread_run, memVars
    <2>3. /\ \A u \in Slots : pc'[u] = "run" \/ pc'[u] = pc[u]
          /\ \A u \in Slots : new'[u] = Nobody \/ new'[u] = new[u]
        BY SMTT(30), <2>2, InvParts DEF Typed
    <2>4. \A u, x \in Slots : Holds(u, x)' => Holds(u, x)
        BY <2>2, <2>3 DEF Holds
    <2>5. \A u, x \in Slots : new'[u] = x => new[u] = x
        BY <2>3, ThreadLifeAssumption
    <2> QED
        BY <2>2, <2>3, <2>4, <2>5, InvParts DEF Holding, ExitPlaces
<1>7. CASE NoChild(t)
    <2>1. ret[t] \in {"run", "exit"}
        BY <1>7, InvParts DEF NoChild, Used, JoinPlaces
    <2> QED
        BY <1>7, <2>1, HoldingKept DEF NoChild, memVars, localVars
<1>8. CASE FirstChild(t)
    <2>1. /\ children[t] # <<>> /\ target'[t] = Head(children[t])
          /\ \A u \in Slots : u # t => target'[u] = target[u]
        BY <1>8, InvParts DEF FirstChild, Typed
    <2> QED
        BY <1>8, <2>1, HoldingKept DEF FirstChild, ExitPlaces, memVars
<1>9. CASE JoinExited(t) \/ JoinBlocks(t) \/ JoinAwake(t)
    <2>1. /\ pc[t] \in {"join", "asleep"} /\ UNCHANGED <<allocated, undone, children, new, target>>
          /\ \E p \in {"asleep", "detach"} : pc' = [pc EXCEPT ![t] = p]
        BY <1>9 DEF JoinExited, JoinBlocks, JoinAwake, Goto, memVars, localVars
    <2>2. children[t] # <<>> /\ target[t] = Head(children[t])
        BY <2>1, InvParts DEF Holding
    <2> QED
        BY <2>1, <2>2, HoldingKept DEF ExitPlaces
<1>10. CASE DetachRead(t)
    <2>1. /\ pc[t] = "detach" /\ target[t] \in Slots /\ children[t] # <<>>
          /\ target[t] = Head(children[t]) /\ IsInjective(children[t]) /\ children[t] \in Seq(Slots)
        BY <1>10, Locals, InvParts DEF DetachRead, Goto, Holding
    <2>2. /\ Tail(children[t]) \in Seq(Slots) /\ IsInjective(Tail(children[t]))
          /\ Range(Tail(children[t])) \subseteq Range(children[t])
          /\ target[t] \in Range(children[t]) /\ target[t] \notin Range(Tail(children[t]))
        <3>1. PICK q \in Seq(Slots) : q = children[t]
            BY <2>1
        <3>2. /\ Tail(q) \in Seq(Slots) /\ IsInjective(Tail(q)) /\ Range(Tail(q)) \subseteq Range(q)
              /\ Head(q) \in Range(q) /\ Head(q) \notin Range(Tail(q))
            BY <2>1, <3>1, ChildListFacts
        <3> QED BY <2>1, <3>1, <3>2
    <2>3. /\ children' = [children EXCEPT ![t] = Tail(children[t])]
          /\ pc' = [pc EXCEPT ![t] = "detached"] /\ UNCHANGED <<allocated, undone, target, new>>
        BY <1>10 DEF DetachRead, Goto, memVars
    <2>4. \A u, x \in Slots : Holds(u, x)' => Holds(u, x)
        BY <2>1, <2>2, <2>3, InvParts DEF Holds, Typed, TypeOK
    <2> QED
        BY <2>1, <2>2, <2>3, <2>4, InvParts DEF Typed, TypeOK, Holding, ExitPlaces
<1>11. CASE DetachWrite(t)
    <2>1. \A u \in Slots : u # t => target'[u] = target[u]
        BY <1>11, InvParts DEF DetachWrite, Typed
    <2> QED
        BY <1>11, <2>1, HoldingKept DEF DetachWrite, Goto, ExitPlaces, memVars
<1>12. CASE ExitWake(t) \/ ExitRead(t) \/ ExitWrite(t) \/ ExitPass(t)
            \/ nk_thread_switch_exit_helper(t)
    <2>1. /\ pc[t] \in ExitPlaces /\ UNCHANGED <<allocated, undone, children, new, target>>
          /\ \E p \in ExitPlaces \cup {"none"} : pc' = [pc EXCEPT ![t] = p]
        BY <1>12 DEF ExitWake, ExitRead, ExitWrite, ExitPass, nk_thread_switch_exit_helper,
           Goto, ExitPlaces, memVars, localVars
    <2>2. children[t] = <<>>
        BY <2>1, InvParts DEF Holding
    <2> QED
        BY <2>1, <2>2, HoldingKept DEF ExitPlaces
<1>13. CASE GivenUp(t)
    <2>1. PICK s \in Slots : s = new[t]
        BY <1>13, Locals DEF GivenUp
    <2>2. /\ pc[t] \in {"init", "node"} /\ pc' = [pc EXCEPT ![t] = "run"]
          /\ new' = [new EXCEPT ![t] = Nobody]
          /\ allocated' = allocated \ {s} /\ undone' = undone \cup ({s} \cap Range(children[t]))
          /\ UNCHANGED <<children, target>>
        BY <1>13, <2>1 DEF GivenUp, Undo
    <2>3. /\ pc'[t] = "run" /\ \A u \in Slots : u # t => pc'[u] = pc[u]
          /\ \A u \in Slots : new'[u] = Nobody \/ new'[u] = new[u]
        BY <2>2, InvParts DEF Typed
    <2>4. \A u, x \in Slots : Holds(u, x)' <=> Holds(u, x)
        BY <2>2, <2>3 DEF Holds
    <2>5. (\A u, x \in Slots : Holds(u, x) => x \in allocated \cup undone)'
        <3>1. \A u \in Slots : Holds(u, s) => s \in Range(children[t])
            BY <2>1, <2>2, InvParts DEF Holding, Holds
        <3>2. \A u, x \in Slots : Holds(u, x) => x \in allocated \cup undone
            BY InvParts DEF Holding
        <3> QED BY <2>2, <2>4, <3>1, <3>2
    <2>6. \A u, x \in Slots : new'[u] = x => new[u] = x
        BY <2>3, ThreadLifeAssumption
    <2>7. (\A u, v, x \in Slots : Holds(u, x) /\ Holds(v, x) => u = v)'
        BY <2>4, InvParts DEF Holding
    <2>9. (\A u, v, x \in Slots : Holds(u, x) /\ new[v] = x => u = v /\ pc[v] # "init")'
        <3>1. \A u \in Slots : pc'[u] = "init" => pc[u] = "init"
            BY <2>3
        <3> QED BY <2>4, <2>6, <3>1, InvParts DEF Holding
    <2>8. /\ (\A u \in Slots : IsInjective(children[u]))'
          /\ (\A u \in Slots : pc[u] \in ExitPlaces \cup {"none"} => children[u] = <<>>)'
          /\ (\A u \in Slots : pc[u] \in {"join", "asleep", "detach"} =>
                   children[u] # <<>> /\ target[u] = Head(children[u]))'
          /\ (\A u \in Slots : pc[u] = "detached" =>
                   target[u] \in Slots /\ target[u] \notin Range(children[u]))'
        BY <2>2, <2>3, InvParts DEF Holding, ExitPlaces
    <2> QED
        BY <2>5, <2>7, <2>8, <2>9 DEF Holding
<1>14. CASE InitFails(t)
    <2>1. /\ pc[t] = "init" /\ pc' = [pc EXCEPT ![t] = "run"] /\ SetUp(t) /\ UNCHANGED target
          /\ new' = [new EXCEPT ![t] = Nobody] /\ allocated' = allocated \ {new[t]}
          /\ undone' = undone \cup ({new[t]} \cap Range(children'[t]))
        BY <1>14 DEF InitFails, Undo, Goto
    <2>2. \A u \in Slots : new'[u] = new[u] \/ new'[u] = Nobody
        BY <2>1, InvParts DEF Typed
    <2> QED
        BY <2>1, <2>2, SetUpHolding
<1> QED
    BY <1>1, <1>2, <1>3, <1>4, <1>5, <1>6, <1>7, <1>8, <1>9, <1>10, <1>11, <1>12, <1>13, <1>14,
       Outcomes
       DEF Call, Step, Reap, Create, Join, Exit, Quiet

\* A step of one thread that takes no reference and writes no count keeps the counts
\* high enough; it may read its own count, to decrement it.
LEMMA CountingKept ==
    ASSUME Inv, NEW t \in Slots, NEW p, pc' = [pc EXCEPT ![t] = p],
           UNCHANGED <<refcount, children>>,
           \A u \in Slots : u # t =>
               target'[u] = target[u] /\ reg'[u] = reg[u] /\ new'[u] = new[u],
           p = "init" \/ new'[t] = Nobody \/ (pc[t] # "init" /\ new'[t] = new[t]),
           p # "detached", p = "exitwrite" => pc[t] = "exitread" /\ reg'[t] = refcount[t],
           p \in {"none", "exitpass", "switch"} \/ pc[t] \notin {"none", "exitpass", "switch"}
    PROVE  Counting'
<1>1. pc'[t] = p /\ \A u \in Slots : u # t => pc'[u] = pc[u]
    BY InvParts DEF Typed
<1>2. \A u, x \in Slots : Holds(u, x)' => Holds(u, x)
    BY <1>1 DEF Holds
<1>3. \A x \in Slots : HoldsItself(x)' => HoldsItself(x)
    <2>1. \A u, x \in Slots : Set(u, x)' => Set(u, x)
        <3>1. \A x \in Slots : Set(t, x)' => Set(t, x)
            BY SMTT(30), <1>1, ThreadLifeAssumption DEF Set
        <3>2. \A u, x \in Slots : u # t /\ Set(u, x)' => Set(u, x)
            BY <1>1 DEF Set
        <3> QED BY <3>1, <3>2
    <2>2. \A x \in Slots : pc'[x] \notin {"none", "exitpass", "switch"} =>
              pc[x] \notin {"none", "exitpass", "switch"}
        BY <1>1
    <2> QED BY <2>1, <2>2 DEF HoldsItself
<1>4. /\ (\A x \in Slots : HoldsItself(x) => refcount[x] >= 1)'
      /\ (\A u, x \in Slots : Holds(u, x) => refcount[x] >= 1)'
      /\ (\A u, x \in Slots : Holds(u, x) /\ HoldsItself(x) => refcount[x] >= 2)'
    BY <1>2, <1>3, InvParts DEF Counting
<1>5. (\A x \in Slots : pc[x] = "exitwrite" =>
           reg[x] >= 1 /\ \A u \in Slots : Holds(u, x) => reg[x] >= 2)'
    <2>1. p = "exitwrite" => HoldsItself(t)
        BY DEF HoldsItself
    <2>2. p = "exitwrite" =>
              reg'[t] >= 1 /\ \A u \in Slots : Holds(u, t) => reg'[t] >= 2
        BY <2>1, InvParts DEF Counting
    <2>3. \A x \in Slots : x # t /\ pc'[x] = "exitwrite" =>
              reg'[x] >= 1 /\ \A u \in Slots : Holds(u, x) => reg'[x] >= 2
        BY <1>1, InvParts DEF Counting
    <2> QED BY <1>1, <1>2, <2>2, <2>3
<1>6. (\A u \in Slots : pc[u] = "detached" =>
           reg[u] >= 1 /\ (HoldsItself(target[u]) => reg[u] >= 2))'
    <2>1. \A u \in Slots : pc'[u] = "detached" =>
              /\ pc[u] = "detached" /\ target'[u] = target[u] /\ reg'[u] = reg[u]
              /\ target[u] \in Slots
        BY <1>1, InvParts DEF Holding
    <2>2. \A u \in Slots : pc[u] = "detached" =>
              reg[u] >= 1 /\ (HoldsItself(target[u]) => reg[u] >= 2)
        BY InvParts DEF Counting
    <2> QED BY <1>3, <2>1, <2>2
<1> QED BY <1>4, <1>5, <1>6 DEF Counting

\* Every step keeps the counts at least as high as the references.
LEMMA CountingStep == ASSUME Inv, NEW t \in Slots, Call(t) \/ Step(t) PROVE Counting'
<1>1. CASE Quiet(t)
    BY <1>1, QuietSteps
<1>2. CASE nk_sched_reanimate(t) \/ Allocate(t)
    <2>1. /\ pc[t] = "run" /\ pc' = [pc EXCEPT ![t] = "init"]
          /\ UNCHANGED <<refcount, children, target, reg>>
        BY <1>2 DEF nk_sched_reanimate, Reanimate, Allocate, Goto
    <2>2. \E s : new' = [new EXCEPT ![t] = s]
        BY <1>2 DEF nk_sched_reanimate, Reanimate, Allocate
    <2>3. \A u \in Slots : u # t => new'[u] = new[u]
        BY <2>2, InvParts DEF Typed
    <2> QED BY <2>1, <2>3, CountingKept
<1>3. CASE nk_thread_destroy(t)
    BY <1>3, InvParts DEF Typed, TypeOK, Counting, Holding, Holds, HoldsItself, Set,
       nk_thread_destroy, wqVars, localVars
<1>4. CASE _nk_thread_init(t) \/ InitFails(t)
    <2>p. PICK p \in {"reap", "run"} : pc' = [pc EXCEPT ![t] = p]
        BY <1>4 DEF _nk_thread_init, InitFails, Goto
    <2>n. /\ pc[t] = "init" /\ SetUp(t) /\ UNCHANGED <<target, reg>>
          /\ new' = new \/ new' = [new EXCEPT ![t] = Nobody]
        BY <1>4 DEF _nk_thread_init, InitFails, Undo, Goto
    <2>0. PICK s \in Slots : s = new[t]
        BY <2>n, SetUpFacts
    <2>1. /\ pc[t] = "init" /\ s # t /\ pc[s] = "none" /\ refcount'[s] >= 1
          /\ \A x \in Slots : x # s => refcount'[x] = refcount[x]
        <3>1. /\ pc[t] = "init" /\ s # t /\ pc[s] = "none"
              /\ \A x \in Slots : x # s => refcount'[x] = refcount[x]
              /\ refcount'[s] = 1 \/ refcount'[s] = 2
            <4>1. pc[t] = "init" /\ new[t] # t /\ pc[new[t]] = "none"
                BY <2>n, SetUpFacts
            <4>2. \A x \in Slots : x # new[t] => refcount'[x] = refcount[x]
                BY <2>n, SetUpFacts
            <4>3. refcount'[new[t]] = 1 \/ refcount'[new[t]] = 2
                BY <2>n, SetUpFacts
            <4> QED BY <2>0, <4>1, <4>2, <4>3
        <3>2. refcount'[s] >= 1
            BY SMTT(30), <3>1
        <3> QED BY <3>1, <3>2
    <2>2. /\ \A u \in Slots : ~Holds(u, s)
          /\ \A u, x \in Slots :
                 Holds(u, x)' => Holds(u, x) \/ (u = t /\ x = s /\ refcount'[s] = 2)
        BY <2>p, <2>n, <2>0, SetUpHolds
    <2>3. /\ \A u \in Slots : u # t => pc'[u] = pc[u]
          /\ \A u, x \in Slots : new'[u] = x => new[u] = x
          /\ pc'[t] \in {"reap", "run"} /\ UNCHANGED <<target, reg>>
        BY <2>p, <2>n, ThreadLifeAssumption, InvParts DEF Typed
    <2>4. \A x \in Slots : HoldsItself(x)' => HoldsItself(x) \/ x = s
        BY <2>0, <2>1, <2>3 DEF HoldsItself, Set
    <2>5. \A u \in Slots : pc'[u] = "detached" =>
              pc[u] = "detached" /\ target[u] \in Slots /\ target[u] # s
        <3>1. \A u \in Slots : pc'[u] = "detached" => pc[u] = "detached"
            BY <2>3
        <3>2. \A u \in Slots : pc[u] = "detached" => target[u] \in Slots /\ Holds(u, target[u])
            BY Refers
        <3> QED BY <2>2, <3>1, <3>2
    <2>6. \A u \in Slots : pc'[u] = "exitwrite" => pc[u] = "exitwrite" /\ u # s
        BY <2>1, <2>3
    <2>7. /\ \A x \in Slots : HoldsItself(x) => refcount[x] >= 1
          /\ \A u, x \in Slots : Holds(u, x) => refcount[x] >= 1
          /\ \A u, x \in Slots : Holds(u, x) /\ HoldsItself(x) => refcount[x] >= 2
          /\ \A x \in Slots : pc[x] = "exitwrite" =>
                 reg[x] >= 1 /\ \A u \in Slots : Holds(u, x) => reg[x] >= 2
          /\ \A u \in Slots : pc[u] = "detached" =>
                 reg[u] >= 1 /\ (HoldsItself(target[u]) => reg[u] >= 2)
        BY InvParts DEF Counting
    <2>8. /\ (\A x \in Slots : HoldsItself(x) => refcount[x] >= 1)'
          /\ (\A u, x \in Slots : Holds(u, x) => refcount[x] >= 1)'
          /\ (\A u, x \in Slots : Holds(u, x) /\ HoldsItself(x) => refcount[x] >= 2)'
        <3>1. \A x \in Slots : HoldsItself(x)' => refcount'[x] >= 1
            BY <2>1, <2>4, <2>7
        <3>2. \A u, x \in Slots : Holds(u, x)' =>
                  \/ x # s /\ Holds(u, x) /\ refcount'[x] = refcount[x]
                  \/ x = s /\ refcount'[s] = 2
            BY <2>1, <2>2
        <3>3. refcount'[s] = 2 => refcount'[s] >= 1 /\ refcount'[s] >= 2
            BY SMTT(30)
        <3> QED
            BY <2>4, <2>7, <3>1, <3>2, <3>3
    <2>9. (\A x \in Slots : pc[x] = "exitwrite" =>
               reg[x] >= 1 /\ \A u \in Slots : Holds(u, x) => reg[x] >= 2)'
        <3>1. \A u, x \in Slots : x # s /\ Holds(u, x)' => Holds(u, x)
            BY <2>2
        <3> QED BY <2>3, <2>6, <2>7, <3>1
    <2>10. (\A u \in Slots : pc[u] = "detached" =>
               reg[u] >= 1 /\ (HoldsItself(target[u]) => reg[u] >= 2))'
        BY <2>1, <2>2, <2>3, <2>4, <2>5, <2>6, <2>7
    <2> QED
        BY <2>8, <2>9, <2>10 DEF Counting
<1>5. CASE nk_thread_run(t)
    <2>1. new[t] \in Slots /\ pc[new[t]] = "none" /\ pc[t] = "start"
        BY <1>5, Locals, InvParts DEF Making, nk_thread_run
    <2>2. \A u \in Slots : pc'[u] = IF u \in {t, new[t]} THEN "run" ELSE pc[u]
        BY <1>5, <2>1, InvParts DEF nk_thread_run, Typed
    <2>3. /\ \A u \in Slots : new'[u] = IF u = t THEN Nobody ELSE new[u]
          /\ UNCHANGED <<refcount, children, target, reg>>
        BY <1>5, InvParts DEF nk_thread_run, Typed
    <2>4. \A u, x \in Slots : Holds(u, x)' => Holds(u, x)
        BY <2>1, <2>2, <2>3 DEF Holds
    <2>5. \A x \in Slots : HoldsItself(x)' => HoldsItself(x)
        <3>1. HoldsItself(new[t]) /\ HoldsItself(t)
            BY <2>1 DEF HoldsItself, Set
        <3> QED
            BY SMTT(30), <2>1, <2>2, <2>3, <3>1, ThreadLifeAssumption DEF HoldsItself, Set
    <2>6. \A u \in Slots : pc'[u] \in {"detached", "exitwrite"} => pc'[u] = pc[u]
        BY <2>2
    <2>7. \A u \in Slots : pc[u] = "detached" => target[u] \in Slots
        BY InvParts DEF Holding
    <2>8. /\ \A x \in Slots : HoldsItself(x) => refcount[x] >= 1
          /\ \A u, x \in Slots : Holds(u, x) => refcount[x] >= 1
          /\ \A u, x \in Slots : Holds(u, x) /\ HoldsItself(x) => refcount[x] >= 2
          /\ \A x \in Slots : pc[x] = "exitwrite" =>
                 reg[x] >= 1 /\ \A u \in Slots : Holds(u, x) => reg[x] >= 2
          /\ \A u \in Slots : pc[u] = "detached" =>
                 reg[u] >= 1 /\ (HoldsItself(target[u]) => reg[u] >= 2)
        BY InvParts DEF Counting
    <2>9. /\ (\A x \in Slots : HoldsItself(x) => refcount[x] >= 1)'
          /\ (\A u, x \in Slots : Holds(u, x) => refcount[x] >= 1)'
          /\ (\A u, x \in Slots : Holds(u, x) /\ HoldsItself(x) => refcount[x] >= 2)'
        BY <2>3, <2>4, <2>5, <2>6, <2>7, <2>8
    <2>10. (\A x \in Slots : pc[x] = "exitwrite" =>
               reg[x] >= 1 /\ \A u \in Slots : Holds(u, x) => reg[x] >= 2)'
        BY <2>3, <2>4, <2>5, <2>6, <2>7, <2>8
    <2>11. (\A u \in Slots : pc[u] = "detached" =>
               reg[u] >= 1 /\ (HoldsItself(target[u]) => reg[u] >= 2))'
        BY <2>3, <2>4, <2>5, <2>6, <2>7, <2>8
    <2> QED
        BY <2>9, <2>10, <2>11 DEF Counting
<1>6. CASE NoChild(t)
    <2>1. ret[t] = "run" \/ ret[t] = "exit"
        BY <1>6, InvParts DEF Used, JoinPlaces, NoChild
    <2>2. /\ pc[t] = "joinall" /\ \E p \in {"run", "exit"} : pc' = [pc EXCEPT ![t] = p]
          /\ UNCHANGED <<refcount, children, target, new, reg>>
        BY <1>6, <2>1 DEF NoChild, localVars
    <2> QED BY <2>2, CountingKept
<1>7. CASE FirstChild(t)
    <2>1. /\ pc[t] = "joinall" /\ pc' = [pc EXCEPT ![t] = "join"]
          /\ UNCHANGED <<refcount, children, new, reg>>
        BY <1>7 DEF FirstChild
    <2>2. \A u \in Slots : u # t => target'[u] = target[u]
        BY <1>7, InvParts DEF FirstChild, Typed
    <2> QED BY <2>1, <2>2, CountingKept
<1>8. CASE JoinExited(t) \/ JoinBlocks(t) \/ JoinAwake(t)
    <2>1. /\ pc[t] \in {"join", "asleep"} /\ UNCHANGED <<refcount, children, target, new, reg>>
          /\ \E p \in {"asleep", "detach"} : pc' = [pc EXCEPT ![t] = p]
        BY <1>8 DEF JoinExited, JoinBlocks, JoinAwake, Goto, localVars
    <2> QED BY <2>1, CountingKept
<1>9. CASE DetachRead(t)
    <2>1. pc[t] = "detach" /\ target[t] \in Slots /\ Holds(t, target[t]) /\ children[t] # <<>>
        BY <1>9, Refers, InvParts DEF DetachRead, Goto, Holding
    <2>2. /\ children'[t] = Tail(children[t]) /\ pc'[t] = "detached" /\ reg'[t] = refcount[target[t]]
          /\ \A u \in Slots : u # t => /\ children'[u] = children[u] /\ pc'[u] = pc[u]
                                       /\ reg'[u] = reg[u]
          /\ UNCHANGED <<refcount, target, new>>
        BY <1>9, InvParts DEF DetachRead, Goto, Typed, TypeOK
    <2>3. \A u, x \in Slots : Holds(u, x)' => Holds(u, x)
        <3>1. Range(Tail(children[t])) \subseteq Range(children[t])
            BY <2>1, Locals, ChildListFacts
        <3> QED
            BY <2>1, <2>2, <3>1 DEF Holds
    <2>4. \A x \in Slots : HoldsItself(x)' <=> HoldsItself(x)
        BY SMTT(30), <2>1, <2>2 DEF HoldsItself, Set
    <2>5. \A u \in Slots : u # t /\ pc'[u] = "detached" => pc[u] = "detached" /\ target[u] \in Slots
        BY <2>2, InvParts DEF Holding
    <2>6. \A u \in Slots : pc'[u] = "exitwrite" => pc[u] = "exitwrite" /\ u # t
        BY <2>2
    <2>7. /\ \A x \in Slots : HoldsItself(x) => refcount[x] >= 1
          /\ \A u, x \in Slots : Holds(u, x) => refcount[x] >= 1
          /\ \A u, x \in Slots : Holds(u, x) /\ HoldsItself(x) => refcount[x] >= 2
          /\ \A x \in Slots : pc[x] = "exitwrite" =>
                 reg[x] >= 1 /\ \A u \in Slots : Holds(u, x) => reg[x] >= 2
          /\ \A u \in Slots : pc[u] = "detached" =>
                 reg[u] >= 1 /\ (HoldsItself(target[u]) => reg[u] >= 2)
        BY InvParts DEF Counting
    <2>8. /\ (\A x \in Slots : HoldsItself(x) => refcount[x] >= 1)'
          /\ (\A u, x \in Slots : Holds(u, x) => refcount[x] >= 1)'
          /\ (\A u, x \in Slots : Holds(u, x) /\ HoldsItself(x) => refcount[x] >= 2)'
        BY <2>1, <2>2, <2>3, <2>4, <2>5, <2>6, <2>7
    <2>9. (\A x \in Slots : pc[x] = "exitwrite" =>
               reg[x] >= 1 /\ \A u \in Slots : Holds(u, x) => reg[x] >= 2)'
        BY <2>1, <2>2, <2>3, <2>4, <2>5, <2>6, <2>7
    <2>10. (\A u \in Slots : pc[u] = "detached" =>
               reg[u] >= 1 /\ (HoldsItself(target[u]) => reg[u] >= 2))'
        BY <2>1, <2>2, <2>3, <2>4, <2>5, <2>6, <2>7
    <2> QED
        BY <2>8, <2>9, <2>10 DEF Counting
<1>10. CASE DetachWrite(t)
    <2>1. pc[t] = "detached" /\ target[t] \in Slots /\ Holds(t, target[t])
        BY <1>10, Refers DEF DetachWrite, Goto
    <2>2. /\ pc'[t] = "joinall" /\ refcount'[target[t]] = reg[t] - 1
          /\ \A x \in Slots : x # target[t] => refcount'[x] = refcount[x]
          /\ \A u \in Slots : u # t => pc'[u] = pc[u] /\ target'[u] = target[u] /\ reg'[u] = reg[u]
          /\ UNCHANGED <<children, new>>
        BY <1>10, <2>1, InvParts DEF DetachWrite, Goto, Typed, TypeOK
    <2>3. \A u, x \in Slots : Holds(u, x)' => Holds(u, x) /\ x # target[t]
        <3>1. \A u, x \in Slots : Holds(u, x)' => Holds(u, x)
            BY <2>1, <2>2 DEF Holds
        <3>2. \A u \in Slots : Holds(u, target[t]) => u = t
            BY <2>1, InvParts DEF Holding
        <3>3. target[t] \notin Range(children[t])
            BY <2>1, InvParts DEF Holding
        <3>4. \A x \in Slots : Holds(t, x)' => x # target[t]
            BY <2>2, <3>3 DEF Holds
        <3> QED BY <3>1, <3>2, <3>4
    <2>4. \A x \in Slots : HoldsItself(x)' <=> HoldsItself(x)
        BY SMTT(30), <2>1, <2>2 DEF HoldsItself, Set
    <2>5. \A u \in Slots : pc'[u] = "detached" =>
              /\ u # t /\ pc[u] = "detached" /\ target[u] \in Slots
              /\ target'[u] = target[u] /\ reg'[u] = reg[u]
        BY <2>2, InvParts DEF Holding
    <2>6. \A u \in Slots : pc'[u] = "exitwrite" => pc[u] = "exitwrite" /\ u # t /\ reg'[u] = reg[u]
        BY <2>2
    <2>7. HoldsItself(target[t]) => reg[t] - 1 >= 1
        BY SMTT(30), <2>1, InvParts DEF Typed, Counting
    <2>8. /\ \A x \in Slots : HoldsItself(x) => refcount[x] >= 1
          /\ \A u, x \in Slots : Holds(u, x) => refcount[x] >= 1
          /\ \A u, x \in Slots : Holds(u, x) /\ HoldsItself(x) => refcount[x] >= 2
          /\ \A x \in Slots : pc[x] = "exitwrite" =>
                 reg[x] >= 1 /\ \A u \in Slots : Holds(u, x) => reg[x] >= 2
          /\ \A u \in Slots : pc[u] = "detached" =>
                 reg[u] >= 1 /\ (HoldsItself(target[u]) => reg[u] >= 2)
        BY InvParts DEF Counting
    <2>9. /\ (\A x \in Slots : HoldsItself(x) => refcount[x] >= 1)'
          /\ (\A u, x \in Slots : Holds(u, x) => refcount[x] >= 1)'
          /\ (\A u, x \in Slots : Holds(u, x) /\ HoldsItself(x) => refcount[x] >= 2)'
        BY SMTT(30), <2>2, <2>3, <2>4, <2>5, <2>6, <2>7, <2>8
    <2>10. (\A x \in Slots : pc[x] = "exitwrite" =>
               reg[x] >= 1 /\ \A u \in Slots : Holds(u, x) => reg[x] >= 2)'
        BY <2>2, <2>3, <2>4, <2>5, <2>6, <2>7, <2>8
    <2>11. (\A u \in Slots : pc[u] = "detached" =>
               reg[u] >= 1 /\ (HoldsItself(target[u]) => reg[u] >= 2))'
        BY <2>2, <2>3, <2>4, <2>5, <2>6, <2>7, <2>8
    <2> QED
        BY <2>9, <2>10, <2>11 DEF Counting
<1>11. CASE ExitWake(t) \/ ExitPass(t) \/ nk_thread_switch_exit_helper(t)
    <2>1. /\ pc[t] # "init" /\ UNCHANGED <<refcount, children, target, new, reg>>
          /\ \/ pc[t] = "exit" /\ pc' = [pc EXCEPT ![t] = "exitread"]
             \/ \E p \in {"switch", "none"} : pc' = [pc EXCEPT ![t] = p]
        BY <1>11 DEF ExitWake, ExitPass, nk_thread_switch_exit_helper, Goto, localVars
    <2> QED BY <2>1, CountingKept
<1>12. CASE ExitRead(t)
    <2>1. /\ pc[t] = "exitread" /\ pc' = [pc EXCEPT ![t] = "exitwrite"]
          /\ UNCHANGED <<refcount, children, target, new>>
        BY <1>12 DEF ExitRead, Goto
    <2>2. reg'[t] = refcount[t] /\ \A u \in Slots : u # t => reg'[u] = reg[u]
        BY <1>12, InvParts DEF ExitRead, Typed
    <2> QED BY <2>1, <2>2, CountingKept
<1>13. CASE ExitWrite(t)
    <2>1. pc[t] = "exitwrite"
        BY <1>13 DEF ExitWrite, Goto
    <2>2. /\ pc'[t] = "exitpass" /\ refcount'[t] = reg[t] - 1
          /\ \A u \in Slots : u # t => /\ pc'[u] = pc[u] /\ refcount'[u] = refcount[u]
                                       /\ reg'[u] = reg[u]
          /\ UNCHANGED <<children, target, new>>
        BY <1>13, InvParts DEF ExitWrite, Goto, Typed, TypeOK
    <2>3. \A u, x \in Slots : Holds(u, x)' <=> Holds(u, x)
        BY <2>1, <2>2 DEF Holds
    <2>4. \A x \in Slots : HoldsItself(x)' => HoldsItself(x) /\ x # t
        <3>1. \A u \in Slots : new[u] # t
            BY <2>1, InvParts DEF Making
        <3> QED
            BY <2>1, <2>2, <3>1 DEF HoldsItself, Set
    <2>5. \A u \in Slots : pc'[u] = "detached" =>
              pc[u] = "detached" /\ target[u] \in Slots /\ reg'[u] = reg[u]
        BY <2>2, InvParts DEF Holding
    <2>6. \A u \in Slots : pc'[u] = "exitwrite" => pc[u] = "exitwrite" /\ u # t
        BY <2>2
    <2>7. \A u \in Slots : Holds(u, t) => reg[t] - 1 >= 1
        BY SMTT(30), <2>1, InvParts DEF Typed, Counting
    <2>8. /\ \A x \in Slots : HoldsItself(x) => refcount[x] >= 1
          /\ \A u, x \in Slots : Holds(u, x) => refcount[x] >= 1
          /\ \A u, x \in Slots : Holds(u, x) /\ HoldsItself(x) => refcount[x] >= 2
          /\ \A x \in Slots : pc[x] = "exitwrite" =>
                 reg[x] >= 1 /\ \A u \in Slots : Holds(u, x) => reg[x] >= 2
          /\ \A u \in Slots : pc[u] = "detached" =>
                 reg[u] >= 1 /\ (HoldsItself(target[u]) => reg[u] >= 2)
        BY InvParts DEF Counting
    <2>9. /\ (\A x \in Slots : HoldsItself(x) => refcount[x] >= 1)'
          /\ (\A u, x \in Slots : Holds(u, x) => refcount[x] >= 1)'
          /\ (\A u, x \in Slots : Holds(u, x) /\ HoldsItself(x) => refcount[x] >= 2)'
        BY <2>2, <2>3, <2>4, <2>5, <2>6, <2>7, <2>8
    <2>10. (\A x \in Slots : pc[x] = "exitwrite" =>
               reg[x] >= 1 /\ \A u \in Slots : Holds(u, x) => reg[x] >= 2)'
        BY <2>2, <2>3, <2>4, <2>5, <2>6, <2>7, <2>8
    <2>11. (\A u \in Slots : pc[u] = "detached" =>
               reg[u] >= 1 /\ (HoldsItself(target[u]) => reg[u] >= 2))'
        BY <2>2, <2>3, <2>4, <2>5, <2>6, <2>7, <2>8
    <2> QED
        BY <2>9, <2>10, <2>11 DEF Counting
<1>14. CASE GivenUp(t)
    <2>1. /\ pc[t] \in {"init", "node"} /\ pc' = [pc EXCEPT ![t] = "run"]
          /\ new' = [new EXCEPT ![t] = Nobody] /\ UNCHANGED <<refcount, children, target, reg>>
        BY <1>14 DEF GivenUp, Undo
    <2>2. new'[t] = Nobody /\ \A u \in Slots : u # t => new'[u] = new[u]
        BY <2>1, InvParts DEF Typed
    <2> QED BY <2>1, <2>2, CountingKept
<1> QED
    BY <1>1, <1>2, <1>3, <1>4, <1>5, <1>6, <1>7, <1>8, <1>9, <1>10, <1>11, <1>12, <1>13, <1>14,
       Outcomes
       DEF Call, Step, Reap, Create, Join, Exit, Quiet

\* A step of one thread, awake, that puts nobody to sleep and wakes nobody keeps the
\* wait queues right; it may release its own.
LEMMA WaitedKept ==
    ASSUME Inv, NEW t \in Slots, NEW p, pc' = [pc EXCEPT ![t] = p],
           UNCHANGED <<status, waitq, waiting>>, wqLocked' \subseteq wqLocked,
           \A u \in Slots : u # t => target'[u] = target[u],
           pc[t] # "asleep" \/ t \notin waiting, p # "asleep",
           pc[t] \in {"exitread", "exitwrite", "exitpass"} =>
               p \in {"exitread", "exitwrite", "exitpass"} \/ t \notin wqLocked',
           p \in {"detach", "detached"} => target'[t] = target[t] /\ status[target[t]] = "EXITED"
    PROVE  Waited'
<1>1. pc'[t] = p /\ \A u \in Slots : u # t => pc'[u] = pc[u]
    BY InvParts DEF Typed
<1>2. (\A s \in wqLocked : pc[s] \in {"exitread", "exitwrite", "exitpass"})'
    <2>1. \A s \in wqLocked : s \in Slots /\ pc[s] \in {"exitread", "exitwrite", "exitpass"}
        BY InvParts DEF Typed, TypeOK, Waited
    <2> QED BY <1>1, <2>1
<1>3. (\A u, s \in Slots : u \in waitq[s] => pc[u] = "asleep" /\ target[u] = s /\ u \in waiting)'
    <2>1. \A u, s \in Slots : u \in waitq[s] => pc[u] = "asleep" /\ target[u] = s /\ u \in waiting
        BY InvParts DEF Waited
    <2>2. \A s \in Slots : t \notin waitq[s]
        BY <2>1
    <2>3. \A u, s \in Slots : u \in waitq[s] =>
              pc'[u] = "asleep" /\ target'[u] = s /\ u \in waiting
        <3>1. \A u \in Slots : pc[u] = "asleep" /\ u # t =>
                  pc'[u] = "asleep" /\ target'[u] = target[u]
            BY <1>1
        <3>2. ASSUME NEW u \in Slots, NEW s \in Slots, u \in waitq[s]
              PROVE  pc'[u] = "asleep" /\ target'[u] = s /\ u \in waiting
            <4>1. pc[u] = "asleep" /\ target[u] = s /\ u \in waiting
                BY <2>1, <3>2
            <4>2. u # t
                BY <2>2, <3>2
            <4> QED BY <3>1, <4>1, <4>2
        <3> QED BY <3>2
    <2> QED BY SMTT(30), <2>3
<1>4. /\ (\A u \in Slots : pc[u] = "asleep" =>
              u \in waitq[target[u]] \/ status[target[u]] = "EXITED")'
      /\ (\A u \in Slots : pc[u] \in {"detach", "detached"} => status[target[u]] = "EXITED")'
    BY <1>1, InvParts DEF Waited
<1> QED BY <1>2, <1>3, <1>4 DEF Waited

\* Every step keeps the wait queues right.
LEMMA WaitedStep == ASSUME Inv, NEW t \in Slots, Call(t) \/ Step(t) PROVE Waited'
<1>1. CASE Quiet(t)
    BY <1>1, QuietSteps
<1>2. CASE nk_sched_reanimate(t) \/ Allocate(t)
    <2>1. /\ pc[t] = "run" /\ pc' = [pc EXCEPT ![t] = "init"]
          /\ UNCHANGED <<status, wqLocked, waitq, waiting, target>>
        BY <1>2 DEF nk_sched_reanimate, Reanimate, Allocate, Goto, wqVars
    <2> QED BY <2>1, WaitedKept
<1>3. CASE nk_thread_destroy(t)
    BY <1>3, InvParts DEF Typed, TypeOK, Holding, Waited, nk_thread_destroy, wqVars,
       localVars
<1>4. CASE _nk_thread_init(t) \/ InitFails(t)
    <2>0. /\ pc[t] = "init" /\ SetUp(t)
          /\ pc' = [pc EXCEPT ![t] = "reap"] \/ pc' = [pc EXCEPT ![t] = "run"]
          /\ UNCHANGED <<wqLocked, waitq, waiting, target>>
        BY <1>4 DEF _nk_thread_init, InitFails, Undo, Goto, wqVars
    <2>1. /\ new[t] \in Slots /\ pc[new[t]] = "none"
          /\ status' = [status EXCEPT ![new[t]] = "INIT"]
        BY <2>0, SetUpFacts DEF SetUp
    <2>2. \A u \in Slots : pc[u] \in {"join", "asleep", "detach", "detached"} =>
              target[u] \in Slots /\ Holds(u, target[u])
        BY Refers
    <2>3. \A u \in Slots : ~Holds(u, new[t])
        BY <2>0, <2>1, InvParts DEF Holding
    <2>4. \A u \in Slots : pc[u] \in {"join", "asleep", "detach", "detached"} =>
              target[u] \in Slots /\ status'[target[u]] = status[target[u]]
        BY <2>1, <2>2, <2>3, InvParts DEF Typed, TypeOK
    <2> QED
        <3>1. /\ \A u \in Slots : u # t => pc'[u] = pc[u]
              /\ pc'[t] = "reap" \/ pc'[t] = "run"
            BY <2>0, InvParts DEF Typed
        <3>2. /\ (\A u \in Slots : pc[u] = "asleep" =>
                      u \in waitq[target[u]] \/ status[target[u]] = "EXITED")'
              /\ (\A u \in Slots : pc[u] \in {"detach", "detached"} => status[target[u]] = "EXITED")'
            <4>1. \A u \in Slots : pc'[u] \in {"asleep", "detach", "detached"} => pc'[u] = pc[u]
                BY <3>1
            <4>2. /\ \A u \in Slots : pc[u] = "asleep" =>
                         u \in waitq[target[u]] \/ status[target[u]] = "EXITED"
                  /\ \A u \in Slots : pc[u] \in {"detach", "detached"} => status[target[u]] = "EXITED"
                BY InvParts DEF Waited
            <4> QED BY <2>0, <2>4, <4>1, <4>2
        <3>3. (\A u, s \in Slots : u \in waitq[s] => pc[u] = "asleep" /\ target[u] = s /\ u \in waiting)'
            BY SMTT(30), <2>0, <3>1, InvParts DEF Waited
        <3>4. (\A s \in wqLocked : pc[s] \in {"exitread", "exitwrite", "exitpass"})'
            BY <2>0, <3>1, InvParts DEF Typed, TypeOK, Waited
        <3> QED BY <3>2, <3>3, <3>4 DEF Waited
<1>5. CASE nk_thread_run(t)
    <2>1. new[t] \in Slots /\ pc[t] = "start" /\ pc[new[t]] = "none" /\ status[new[t]] = "INIT"
        BY <1>5, Locals, InvParts DEF Making, nk_thread_run
    <2>2. /\ \A u \in Slots : pc'[u] = IF u \in {t, new[t]} THEN "run" ELSE pc[u]
          /\ \A s \in Slots : s # new[t] => status'[s] = status[s]
          /\ UNCHANGED <<wqLocked, waitq, waiting, target>>
        BY <1>5, <2>1, InvParts DEF Typed, TypeOK, nk_thread_run, wqVars
    <2>3. \A u \in Slots : pc[u] \in {"asleep", "detach", "detached"} => target[u] \in Slots
        BY Refers
    <2>4. /\ \A s \in wqLocked : s \in Slots /\ pc[s] \in {"exitread", "exitwrite", "exitpass"}
          /\ \A u \in Slots : pc[u] = "asleep" => u \in waitq[target[u]] \/ status[target[u]] = "EXITED"
          /\ \A u \in Slots : pc[u] \in {"detach", "detached"} => status[target[u]] = "EXITED"
          /\ \A u, s \in Slots : u \in waitq[s] => pc[u] = "asleep" /\ target[u] = s /\ u \in waiting
        BY InvParts DEF Typed, TypeOK, Waited
    <2>5. (\A s \in wqLocked : pc[s] \in {"exitread", "exitwrite", "exitpass"})'
        BY <2>1, <2>2, <2>4
    <2>6. /\ (\A u \in Slots : pc[u] = "asleep" =>
                  u \in waitq[target[u]] \/ status[target[u]] = "EXITED")'
          /\ (\A u \in Slots : pc[u] \in {"detach", "detached"} => status[target[u]] = "EXITED")'
        BY SMTT(30), <2>1, <2>2, <2>3, <2>4
    <2>7. (\A u, s \in Slots : u \in waitq[s] => pc[u] = "asleep" /\ target[u] = s /\ u \in waiting)'
        BY SMTT(30), <2>1, <2>2, <2>4
    <2> QED
        BY <2>5, <2>6, <2>7 DEF Waited
<1>6. CASE NoChild(t)
    <2>1. ret[t] = "run" \/ ret[t] = "exit"
        BY <1>6, InvParts DEF Used, JoinPlaces, NoChild
    <2>2. /\ pc[t] = "joinall" /\ \E p \in {"run", "exit"} : pc' = [pc EXCEPT ![t] = p]
          /\ UNCHANGED <<status, wqLocked, waitq, waiting, target>>
        BY <1>6, <2>1 DEF NoChild, wqVars, localVars
    <2> QED BY <2>2, WaitedKept
<1>7. CASE FirstChild(t)
    <2>1. /\ pc[t] = "joinall" /\ pc' = [pc EXCEPT ![t] = "join"]
          /\ UNCHANGED <<status, wqLocked, waitq, waiting>>
        BY <1>7 DEF FirstChild, wqVars
    <2>2. \A u \in Slots : u # t => target'[u] = target[u]
        BY <1>7, InvParts DEF FirstChild, Typed
    <2> QED BY <2>1, <2>2, WaitedKept
<1>8. CASE JoinExited(t) \/ JoinAwake(t)
    <2>1. /\ pc' = [pc EXCEPT ![t] = "detach"]
          /\ UNCHANGED <<status, wqLocked, waitq, waiting, target>>
          /\ \/ pc[t] = "join" /\ status[target[t]] = "EXITED"
             \/ pc[t] = "asleep" /\ t \notin waiting
        BY <1>8 DEF JoinExited, JoinAwake, Goto, wqVars, localVars
    <2>2. target[t] \in Slots
        BY <2>1, Refers
    <2>3. status[target[t]] = "EXITED"
        BY <2>1, <2>2, InvParts DEF Waited
    <2> QED BY <2>1, <2>3, WaitedKept
<1>9. CASE JoinBlocks(t)
    <2>1. target[t] \in Slots
        BY <1>9, Locals DEF JoinBlocks
    <2> QED
        BY SMTT(30), <1>9, <2>1, InvParts DEF Typed, TypeOK, Waited, JoinBlocks,
           localVars
<1>10. CASE DetachRead(t)
    <2>1. /\ pc[t] = "detach" /\ pc' = [pc EXCEPT ![t] = "detached"]
          /\ UNCHANGED <<status, wqLocked, waitq, waiting, target>>
        BY <1>10 DEF DetachRead, Goto, wqVars
    <2>2. status[target[t]] = "EXITED"
        BY <2>1, InvParts DEF Waited
    <2> QED BY <2>1, <2>2, WaitedKept
<1>11. CASE DetachWrite(t)
    <2>1. /\ pc[t] = "detached" /\ pc' = [pc EXCEPT ![t] = "joinall"]
          /\ UNCHANGED <<status, wqLocked, waitq, waiting>>
        BY <1>11 DEF DetachWrite, Goto, wqVars
    <2>2. \A u \in Slots : u # t => target'[u] = target[u]
        BY <1>11, InvParts DEF DetachWrite, Typed
    <2> QED BY <2>1, <2>2, WaitedKept
<1>12. CASE ExitWake(t)
    BY SMTT(30), <1>12, InvParts DEF Typed, TypeOK, Holding, Waited, ExitWake, Goto,
       localVars
<1>13. CASE ExitRead(t) \/ ExitWrite(t)
    <2>1. /\ pc[t] # "asleep" /\ \E p \in {"exitwrite", "exitpass"} : pc' = [pc EXCEPT ![t] = p]
          /\ UNCHANGED <<status, wqLocked, waitq, waiting, target>>
        BY <1>13 DEF ExitRead, ExitWrite, Goto, wqVars
    <2> QED BY <2>1, WaitedKept
<1>14. CASE ExitPass(t)
    <2>1. /\ pc[t] = "exitpass" /\ pc' = [pc EXCEPT ![t] = "switch"]
          /\ wqLocked' = wqLocked \ {t} /\ UNCHANGED <<status, waitq, waiting, target>>
        BY <1>14 DEF ExitPass, Goto, localVars
    <2> QED BY <2>1, WaitedKept
<1>15. CASE nk_thread_switch_exit_helper(t)
    <2>1. /\ pc[t] = "switch" /\ pc' = [pc EXCEPT ![t] = "none"]
          /\ UNCHANGED <<status, wqLocked, waitq, waiting, target>>
        BY <1>15 DEF nk_thread_switch_exit_helper, Goto, wqVars, localVars
    <2> QED BY <2>1, WaitedKept
<1>16. CASE GivenUp(t)
    <2>1. /\ pc[t] \in {"init", "node"} /\ pc' = [pc EXCEPT ![t] = "run"]
          /\ UNCHANGED <<status, wqLocked, waitq, waiting, target>>
        BY <1>16 DEF GivenUp, Undo, wqVars
    <2> QED BY <2>1, WaitedKept
<1> QED
    BY <1>1, <1>2, <1>3, <1>4, <1>5, <1>6, <1>7, <1>8, <1>9, <1>10, <1>11, <1>12, <1>13, <1>14, <1>15,
       <1>16, Outcomes DEF Call, Step, Reap, Create, Join, Exit, Quiet

-----------------------------------------------------------------------------
(* The invariant, and the theorems *)

\* The invariant holds initially.
LEMMA InitInv == Init => Inv
<1> SUFFICES ASSUME Init PROVE Inv
    OBVIOUS
<1>1. Root \in Slots /\ Nobody \notin Slots
    BY ThreadLifeAssumption
<1>2. \A s \in Slots : children[s] = <<>> /\ IsInjective(children[s]) /\ Range(children[s]) = {}
    <2>1. <<>> \in Seq(Slots)
        BY SMTT(30)
    <2> QED BY <2>1, ChildListFacts DEF Init
<1>3. \A t, s \in Slots : ~Holds(t, s)
    BY <1>2 DEF Init, Holds
<1>4. Typed
    BY SMTT(30), <1>1 DEF Init, Typed, TypeOK, Places
<1>5. Making
    BY <1>1 DEF Init, Making, ReapPlaces
<1>6. Used
    BY <1>1 DEF Init, Used, ReapPlaces, JoinPlaces
<1>7. Holding
    BY <1>2, <1>3 DEF Init, Holding, ExitPlaces
<1>8. Counting
    BY SMTT(30), <1>1, <1>3 DEF Init, Counting, HoldsItself, Set
<1>9. Waited
    BY DEF Init, Waited
<1> QED
    BY <1>4, <1>5, <1>6, <1>7, <1>8, <1>9 DEF Inv

\* Every step keeps the invariant.
LEMMA InvStep == ASSUME Inv, [Next]_vars PROVE Inv'
<1>1. CASE Next
    <2>1. PICK t \in Slots : Call(t) \/ Step(t)
        BY <1>1 DEF Next
    <2> QED
        BY <2>1, TypedStep, MakingStep, UsedStep, HoldingStep, CountingStep, WaitedStep DEF Inv
<1>2. CASE UNCHANGED vars
    <2>1. /\ UNCHANGED <<allocated, undone, thread_list, reaping, reap_pool, status, reapable, refcount>>
          /\ UNCHANGED <<children, wqLocked, waitq, waiting, pc, target, new, reg, ret>>
        BY <1>2 DEF vars, memVars, wqVars, localVars
    <2>2. Typed'
        BY <2>1, InvParts DEF Typed, TypeOK
    <2>6. Making'
        BY SMTT(30), <2>1, InvParts DEF Making
    <2>3. Used' /\ Waited'
        BY <2>1, InvParts DEF Used, Waited, Reapable
    <2>4. Holding'
        BY <2>1, InvParts DEF Holding, Holds
    <2>5. Counting'
        <3>1. \A t, s \in Slots : Holds(t, s)' <=> Holds(t, s)
            BY <2>1 DEF Holds
        <3>2. \A s \in Slots : HoldsItself(s)' <=> HoldsItself(s)
            BY <2>1 DEF HoldsItself, Set
        <3>3. \A t \in Slots : pc[t] = "detached" => target[t] \in Slots
            BY InvParts DEF Holding
        <3> QED
            BY <2>1, <3>1, <3>2, <3>3, InvParts DEF Counting
    <2> QED
        BY <2>2, <2>3, <2>4, <2>5, <2>6 DEF Inv
<1> QED
    BY <1>1, <1>2

\* The invariant is all the properties need.
LEMMA InvImplies == ASSUME Inv PROVE FreedUnused /\ PoolStaysDead /\ JoinedHasExited
<1>1. FreedUnused
    <2>1. SUFFICES ASSUME NEW s \in Slots,
                          s \notin allocated \/ (\E t \in Slots : new[t] = s /\ pc[t] = "init")
                   PROVE  /\ pc[s] = "none" /\ s \notin wqLocked
                          /\ s \notin undone =>
                                 /\ waitq[s] = {}
                                 /\ \A t \in Slots :
                                        /\ pc[t] \in {"join", "asleep", "detach", "detached"} =>
                                               target[t] # s
                                        /\ s \notin Range(children[t])
        BY DEF FreedUnused
    <2>2. pc[s] = "none"
        BY <2>1, InvParts DEF Used, Making
    <2>3. s \notin wqLocked
        BY <2>2, InvParts DEF Waited
    <2>4. ASSUME s \notin undone
          PROVE  /\ waitq[s] = {}
                 /\ \A t \in Slots :
                        /\ pc[t] \in {"join", "asleep", "detach", "detached"} => target[t] # s
                        /\ s \notin Range(children[t])
        <3>1. \A t \in Slots : ~Holds(t, s)
            BY <2>1, <2>4, InvParts DEF Holding
        <3>2. \A t \in Slots : pc[t] \in {"join", "asleep", "detach", "detached"} => target[t] # s
            BY <3>1, Refers
        <3>3. waitq[s] = {}
            <4>1. waitq[s] \subseteq Slots
                BY InvParts DEF Typed, TypeOK
            <4>2. \A t \in Slots : t \notin waitq[s]
                BY <3>2, InvParts DEF Waited
            <4> QED BY <4>1, <4>2
        <3> QED
            BY <3>1, <3>2, <3>3 DEF Holds
    <2> QED
        BY <2>2, <2>3, <2>4
<1>2. PoolStaysDead
    BY InvParts DEF Typed, TypeOK, Used, Reapable, PoolStaysDead
<1>3. JoinedHasExited
    BY InvParts DEF Waited, JoinedHasExited
<1> QED BY <1>1, <1>2, <1>3

\* The invariant always holds.
LEMMA Invariance == Spec => []Inv
<1>1. Inv /\ [Next]_vars => Inv'
    BY InvStep
<1> QED
    BY <1>1, InitInv, PTL DEF Spec

\* Memory that has been freed, by the reaper or by a creation that failed, or that
\* nk_sched_reanimate has handed to a new thread, is no thread's stack, nobody
\* joins the thread that was there, and no child list leads to it, but for that of
\* the creator when the creation failed after the child had been listed.
THEOREM FreedIsUnused == Spec => []FreedUnused
    BY Invariance, InvImplies, PTL

\* What nk_sched_reap has collected stays dead until it is destroyed: it is never a
\* thread that nk_sched_reanimate has taken meanwhile.
THEOREM CollectedStaysDead == Spec => []PoolStaysDead
    BY Invariance, InvImplies, PTL

\* The assertion of nk_join never fails: whoever is past the sleep in nk_join finds
\* the thread it joins exited, also when that has given up its own reference and a
\* reaper is at work.
THEOREM JoinAssertionHolds == Spec => []JoinedHasExited
    BY Invariance, InvImplies, PTL
=============================================================================
