---------------------------- MODULE CondvarProofs ----------------------------
(***************************************************************************)
(* The sequence numbers of a condition variable count its waiters, and a   *)
(* condition variable that destroy has cleared has none, for every set of  *)
(* threads, whatever operations they use and however many calls they make. *)
(*                                                                         *)
(* The argument: a waiter that came before the last broadcast differs from *)
(* it in the broadcast number it noted, so a broadcast takes every waiter  *)
(* at once out of the count of the unreleased, which is what moving        *)
(* woken_seq up to main_seq says; a signal adds to wakeup_seq only below   *)
(* main_seq, and only a waiter that no broadcast has released takes it.    *)
(***************************************************************************)
EXTENDS Condvar, FiniteSetTheorems, TLAPS

Places == {"idle", "wait", "sleep", "asleep", "relock", "signal", "bcast", "wakeall", "destroy"}

\* The waiters that no broadcast has released.
Unreleased == {t \in Waiters : bc[t] = bcast_seq}

\* The state that has its type for reasons of its own, and where threads are.
Placed ==
    /\ main_seq \in Nat /\ wakeup_seq \in Nat /\ woken_seq \in Nat /\ bcast_seq \in Nat
    /\ wait_queue \in Seq(Threads) /\ waiting \subseteq Threads
    /\ mutex \in Threads \cup {Nobody}
    /\ seq \in [Threads -> Nat] /\ bc \in [Threads -> Nat]
    /\ destroyed \in BOOLEAN
    /\ pc \in [Threads -> Places] /\ calls \in [Threads -> Nat]

\* What the sequence numbers say; nobody noted a broadcast that has not been.
Counted ==
    /\ nwaiters = Cardinality(Waiters)
    /\ main_seq - woken_seq = Cardinality(Unreleased)
    /\ woken_seq <= wakeup_seq /\ wakeup_seq <= main_seq
    /\ \A t \in Threads : bc[t] <= bcast_seq

\* While a thread is in destroy, the others are at most on their way out of wait.
Cleared ==
    /\ \A t \in Threads : pc[t] = "destroy" => Unused(t)
    /\ destroyed => \A t \in Threads : pc[t] \in {"relock", "idle"}

Inv == Placed /\ Counted /\ Cleared

USE ZenonT(30)

\* What the proofs need to know about the number of threads in a set.
LEMMA CardinalityFacts ==
    ASSUME NEW S \in SUBSET Threads
    PROVE  /\ Cardinality(S) \in Nat
           /\ Cardinality(S) <= Cardinality(Threads) /\ Cardinality(Threads) \in Nat
           /\ Cardinality(S) = 0 <=> S = {}
           /\ \A t \in Threads \ S : Cardinality(S \cup {t}) = Cardinality(S) + 1
           /\ \A t \in S : Cardinality(S \ {t}) = Cardinality(S) - 1
<1>1. IsFiniteSet(Threads)
    BY SMTT(30), CondvarAssumption
<1>2. IsFiniteSet(S) /\ Cardinality(S) <= Cardinality(Threads)
    BY <1>1, FS_Subset
<1> QED
    BY <1>1, <1>2, FS_CardinalityType, FS_EmptySet, FS_AddElement, FS_RemoveElement

\* The invariant holds initially.
LEMMA InitInv == Init => Inv
<1> SUFFICES ASSUME Init PROVE Inv
    OBVIOUS
<1>1. Waiters = {} /\ Unreleased = {}
    BY DEF Init, Waiters, Waiting, Unreleased
<1>2. Cardinality({}) = 0
    BY FS_EmptySet
<1>3. Placed /\ Cleared
    <2>1. destroyed \in BOOLEAN /\ Cleared
        BY DEF Init, Cleared
    <2> QED BY SMTT(30), <2>1 DEF Init, Placed, Places
<1>4. Counted
    BY SMTT(30), <1>1, <1>2 DEF Init, Counted
<1> QED BY <1>3, <1>4 DEF Inv

-----------------------------------------------------------------------------
(* Types, and where threads are *)

\* Taking a thread off the wait queue leaves a queue of threads.
LEMMA TailType ==
    ASSUME NEW q \in Seq(Threads), q # <<>>
    PROVE  Tail(q) \in Seq(Threads)
BY SMTT(30)

LEMMA PlacedStep == ASSUME Inv, Next PROVE Placed'
<1> USE CondvarAssumption DEF Inv, Placed, Places, Goto, Release, seqVars, queueVars
<1> PICK t \in Threads : Call(t) \/ Step(t)
    BY DEF Next
<1>1. CASE Call(t)
    BY SMTT(30), <1>1 DEF Call
<1>2. CASE WaitEnter(t)
    BY SMTT(30), <1>2 DEF WaitEnter
<1>3. CASE WaitSleep(t)
    BY SMTT(30), <1>3 DEF WaitSleep
<1>4. CASE WaitRecheck(t)
    BY SMTT(30), <1>4 DEF WaitRecheck, Recheck
<1>5. CASE WaitReturn(t)
    BY SMTT(30), <1>5 DEF WaitReturn
<1>6. CASE nk_condvar_signal(t)
    <2>1. \/ wait_queue' = wait_queue /\ waiting' = waiting
          \/ wait_queue' = <<>> /\ waiting' = waiting
          \/ wait_queue # <<>> /\ wait_queue' = Tail(wait_queue) /\ waiting' \subseteq waiting
        BY <1>6 DEF nk_condvar_signal
    <2>2. wait_queue' \in Seq(Threads) /\ waiting' \subseteq Threads
        <3>1. <<>> \in Seq(Threads)
            BY SMTT(30)
        <3> QED BY <2>1, <3>1, TailType
    <2>3. wakeup_seq' \in {wakeup_seq, wakeup_seq + 1}
        BY <1>6 DEF nk_condvar_signal
    <2>4. wakeup_seq' \in Nat
        BY SMTT(30), <2>3
    <2> QED BY SMTT(30), <1>6, <2>2, <2>4 DEF nk_condvar_signal
<1>7. CASE nk_condvar_bcast(t)
    <2>1. /\ woken_seq' \in {main_seq, woken_seq} /\ wakeup_seq' \in {main_seq, wakeup_seq}
          /\ bcast_seq' \in {bcast_seq, bcast_seq + 1} /\ mutex' \in {mutex, Nobody}
          /\ \E p \in {"wakeall", "idle"} : pc' = [pc EXCEPT ![t] = p]
          /\ UNCHANGED <<main_seq, queueVars, seq, bc, destroyed, calls>>
        BY <1>7 DEF nk_condvar_bcast, Bcast
    <2> QED BY SMTT(30), <2>1
<1>8. CASE BcastWake(t)
    BY SMTT(30), <1>8 DEF BcastWake, WakeAll
<1>9. CASE nk_condvar_destroy(t)
    BY SMTT(30), <1>9 DEF nk_condvar_destroy, Destroy
<1> QED BY <1>1, <1>2, <1>3, <1>4, <1>5, <1>6, <1>7, <1>8, <1>9 DEF Step

-----------------------------------------------------------------------------
(* The sequence numbers *)

\* A thread that is not in wait, and does not enter it, leaves the waiters alone.
LEMMA SameWaiters ==
    ASSUME Placed, NEW t \in Threads, NEW p, pc[t] \notin Waiting, p \notin Waiting,
           pc' = [pc EXCEPT ![t] = p]
    PROVE  /\ Waiters' = Waiters
           /\ bc' = bc /\ bcast_seq' = bcast_seq => Unreleased' = Unreleased
BY DEF Placed, Waiters, Unreleased

\* wait counts its caller among the waiters, released by no broadcast yet.
LEMMA WaitEnterCounted == ASSUME Inv, NEW t \in Threads, WaitEnter(t) PROVE Counted'
<1>1. /\ t \notin Waiters /\ Waiters' = Waiters \cup {t}
      /\ t \notin Unreleased /\ Unreleased' = Unreleased \cup {t}
    <2>1. /\ pc[t] = "wait" /\ pc' = [pc EXCEPT ![t] = "sleep"]
          /\ bc' = [bc EXCEPT ![t] = bcast_seq] /\ bcast_seq' = bcast_seq
        BY DEF WaitEnter, Goto
    <2> QED BY SMTT(30), <2>1 DEF Inv, Placed, Waiters, Waiting, Unreleased
<1>2. /\ Cardinality(Waiters') = Cardinality(Waiters) + 1
      /\ Cardinality(Unreleased') = Cardinality(Unreleased) + 1
      /\ Cardinality(Waiters) \in Nat /\ Cardinality(Unreleased) \in Nat
    BY <1>1, CardinalityFacts DEF Waiters, Unreleased
<1> QED BY SMTT(30), <1>2 DEF Inv, Placed, Counted, WaitEnter

\* A waiter that leaves is taken out of the count of those a broadcast has
\* released, or takes one of the wake-ups that were given.
LEMMA WaitRecheckCounted == ASSUME Inv, NEW t \in Threads, WaitRecheck(t) PROVE Counted'
<1> DEFINE bcast == bc[t] # bcast_seq
           signalled == wakeup_seq # seq[t] /\ wakeup_seq # woken_seq
<1>1. /\ t \in Waiters
      /\ Waiters' = IF bcast \/ signalled THEN Waiters \ {t} ELSE Waiters
      /\ t \in Unreleased <=> ~bcast
      /\ Unreleased' = IF ~bcast /\ signalled THEN Unreleased \ {t} ELSE Unreleased
    <2>1. /\ pc[t] = "asleep" /\ bc' = bc /\ bcast_seq' = bcast_seq
          /\ pc' = [pc EXCEPT ![t] = IF bcast \/ signalled THEN "relock" ELSE "sleep"]
        BY DEF WaitRecheck, Recheck, Goto
    <2> HIDE DEF signalled
    <2> QED BY SMTT(30), <2>1 DEF Inv, Placed, Waiters, Waiting, Unreleased
<1>2. /\ nwaiters' = IF bcast \/ signalled THEN nwaiters - 1 ELSE nwaiters
      /\ woken_seq' = IF ~bcast /\ signalled THEN woken_seq + 1 ELSE woken_seq
      /\ UNCHANGED <<main_seq, wakeup_seq, bcast_seq, bc>>
    BY DEF WaitRecheck, Recheck
<1>3. /\ Cardinality(Waiters \ {t}) = Cardinality(Waiters) - 1
      /\ t \in Unreleased => Cardinality(Unreleased \ {t}) = Cardinality(Unreleased) - 1
      /\ Cardinality(Waiters) \in Nat /\ Cardinality(Unreleased) \in Nat
    BY <1>1, CardinalityFacts DEF Waiters, Unreleased
<1>4. CASE bcast
    BY SMTT(30), <1>1, <1>2, <1>3, <1>4 DEF Inv, Placed, Counted
<1>5. CASE ~bcast /\ signalled
    BY SMTT(30), <1>1, <1>2, <1>3, <1>5 DEF Inv, Placed, Counted
<1>6. CASE ~bcast /\ ~signalled
    BY SMTT(30), <1>1, <1>2, <1>3, <1>6 DEF Inv, Placed, Counted
<1> QED BY <1>4, <1>5, <1>6

\* A broadcast with somebody to wake releases all waiters: none of them has
\* noted the number it gives itself.
LEMMA BcastCounted == ASSUME Inv, NEW t \in Threads, nk_condvar_bcast(t) PROVE Counted'
<1>1. /\ pc[t] = "bcast" /\ bc' = bc /\ nwaiters' = nwaiters /\ main_seq' = main_seq
      /\ \E p \in {"wakeall", "idle"} : pc' = [pc EXCEPT ![t] = p]
    BY DEF nk_condvar_bcast, Bcast, Goto
<1>2. /\ Waiters' = Waiters
      /\ bcast_seq' = bcast_seq => Unreleased' = Unreleased
    BY <1>1, SameWaiters DEF Inv, Waiting
<1>3. CASE main_seq > wakeup_seq
    <2>1. woken_seq' = main_seq /\ wakeup_seq' = main_seq /\ bcast_seq' = bcast_seq + 1
        BY <1>3 DEF nk_condvar_bcast, Bcast
    <2>2. \A u \in Threads : bc[u] # bcast_seq + 1 /\ bc[u] <= bcast_seq + 1
        BY SMTT(30) DEF Inv, Placed, Counted
    <2>3. Unreleased' = {}
        BY <1>1, <2>1, <2>2 DEF Unreleased, Waiters
    <2>4. Cardinality({}) = 0
        BY FS_EmptySet
    <2> QED BY SMTT(30), <1>1, <1>2, <2>1, <2>2, <2>3, <2>4 DEF Inv, Placed, Counted
<1>4. CASE ~(main_seq > wakeup_seq)
    <2>1. UNCHANGED <<woken_seq, wakeup_seq, bcast_seq>>
        BY <1>4 DEF nk_condvar_bcast, Bcast
    <2> QED BY <1>1, <1>2, <2>1 DEF Inv, Counted
<1> QED BY <1>3, <1>4

LEMMA CountedStep == ASSUME Inv, Next PROVE Counted'
<1> USE DEF Inv, Goto, seqVars, queueVars
<1> PICK t \in Threads : Call(t) \/ Step(t)
    BY DEF Next
<1>1. ASSUME pc[t] \notin Waiting, NEW p, p \notin Waiting, pc' = [pc EXCEPT ![t] = p],
             UNCHANGED <<nwaiters, main_seq, woken_seq, wakeup_seq, bcast_seq, bc>>
      PROVE  Counted'
    BY <1>1, SameWaiters DEF Counted
<1>2. CASE Call(t)
    <2>1. PICK o \in {"wait", "signal", "bcast", "destroy"} :
              pc[t] = "idle" /\ pc' = [pc EXCEPT ![t] = o]
        BY <1>2, CondvarAssumption DEF Call
    <2> QED BY <1>1, <1>2, <2>1 DEF Call, Waiting
<1>3. CASE WaitSleep(t)
    <2>1. Waiters' = Waiters /\ Unreleased' = Unreleased
        BY <1>3 DEF WaitSleep, Placed, Waiters, Waiting, Unreleased
    <2> QED BY <1>3, <2>1 DEF WaitSleep, Counted
<1>4. CASE WaitReturn(t)
    BY <1>1, <1>4 DEF WaitReturn, Waiting
<1>5. CASE nk_condvar_signal(t)
    <2>1. /\ pc[t] = "signal" /\ pc' = [pc EXCEPT ![t] = "idle"]
          /\ UNCHANGED <<nwaiters, main_seq, woken_seq, bcast_seq, bc>>
          /\ \/ wakeup_seq' = wakeup_seq
             \/ main_seq > wakeup_seq /\ wakeup_seq' = wakeup_seq + 1
        BY <1>5 DEF nk_condvar_signal
    <2>2. Waiters' = Waiters /\ Unreleased' = Unreleased
        BY <2>1, SameWaiters DEF Waiting
    <2> QED BY SMTT(30), <2>1, <2>2 DEF Counted, Placed
<1>6. CASE BcastWake(t)
    BY <1>1, <1>6 DEF BcastWake, WakeAll, Waiting
<1>7. CASE nk_condvar_destroy(t)
    BY <1>1, <1>7 DEF nk_condvar_destroy, Destroy, Waiting
<1> QED
    BY <1>2, <1>3, <1>4, <1>5, <1>6, <1>7, WaitEnterCounted, WaitRecheckCounted, BcastCounted
       DEF Step
-----------------------------------------------------------------------------
(* The end of the condition variable *)

LEMMA ClearedStep == ASSUME Inv, Next PROVE Cleared'
<1> USE DEF Inv, Goto, Waiting
<1> PICK t \in Threads : Call(t) \/ Step(t)
    BY DEF Next
\* A step within wait: those who destroy do not mind, and after the end only
\* taking the mutex is left of it.
<1>1. ASSUME NEW p \in {"sleep", "asleep", "relock", "idle"}, pc' = [pc EXCEPT ![t] = p],
             calls' = calls, destroyed' = destroyed,
             pc[t] \in {"sleep", "asleep"} \/ (pc[t] = "relock" /\ p = "idle")
      PROVE  Cleared'
    <2>1. \A u \in Threads : u # t => pc'[u] = pc[u]
        BY <1>1 DEF Placed
    <2>2. pc'[t] = p
        BY <1>1 DEF Placed
    <2> QED BY <1>1, <2>1, <2>2 DEF Cleared, Unused
\* A step of another operation: nobody else destroys, and this is not the end.
<1>2. ASSUME NEW p \in Places \ {"destroy"}, pc' = [pc EXCEPT ![t] = p],
             calls' = calls, destroyed' = destroyed,
             pc[t] \in {"wait", "signal", "bcast", "wakeall"}
      PROVE  Cleared'
    <2>1. \A u \in Threads : u # t => pc'[u] = pc[u]
        BY <1>2 DEF Placed
    <2>2. pc'[t] = p
        BY <1>2 DEF Placed
    <2>3. ~destroyed /\ \A u \in Threads : pc[u] # "destroy"
        BY <1>2 DEF Cleared, Unused
    <2> QED BY <1>2, <2>1, <2>2, <2>3 DEF Cleared
<1>3. CASE Call(t)
    <2>1. PICK o \in Ops[t] :
              /\ pc[t] = "idle" /\ pc' = [pc EXCEPT ![t] = o]
              /\ o = "destroy" => Unused(t)
        BY <1>3 DEF Call
    <2>2. /\ pc'[t] = o /\ \A u \in Threads : u # t => pc'[u] = pc[u]
          /\ \A u \in Threads : u # t => calls'[u] = calls[u]
          /\ ~destroyed /\ destroyed' = destroyed /\ calls[t] # MaxCalls
        <3>1. calls[t] # MaxCalls
            BY SMTT(30), <1>3, CondvarAssumption DEF Call, Placed
        <3> QED BY <1>3, <2>1, <3>1 DEF Call, Placed
    <2>3. \A u \in Threads : pc[u] # "destroy"
        BY <2>1, <2>2 DEF Cleared, Unused
    <2>4. o = "destroy" => Unused(t)'
        BY <2>1, <2>2 DEF Unused
    <2> QED BY <2>2, <2>3, <2>4 DEF Cleared
<1>4. CASE WaitEnter(t)
    BY <1>2, <1>4 DEF WaitEnter, Places
<1>5. CASE WaitSleep(t)
    BY <1>1, <1>5 DEF WaitSleep
<1>6. CASE WaitRecheck(t)
    BY <1>1, <1>6 DEF WaitRecheck, Recheck
<1>7. CASE WaitReturn(t)
    BY <1>1, <1>7 DEF WaitReturn
<1>8. CASE nk_condvar_signal(t)
    BY <1>2, <1>8 DEF nk_condvar_signal, Places
<1>9. CASE nk_condvar_bcast(t)
    <2>1. \E p \in {"wakeall", "idle"} : pc[t] = "bcast" /\ pc' = [pc EXCEPT ![t] = p]
        BY <1>9 DEF nk_condvar_bcast, Bcast
    <2> QED BY <1>2, <1>9, <2>1 DEF nk_condvar_bcast, Bcast, Places
<1>10. CASE BcastWake(t)
    BY <1>2, <1>10 DEF BcastWake, WakeAll, Places
<1>11. CASE nk_condvar_destroy(t)
    <2>1. pc[t] = "destroy" /\ pc' = [pc EXCEPT ![t] = "idle"] /\ nwaiters = 0
        BY <1>11 DEF nk_condvar_destroy, Destroy
    <2>2. Waiters = {}
        BY <2>1, CardinalityFacts DEF Counted, Waiters
    <2>3. \A u \in Threads : u # t => pc[u] \in {"relock", "idle"}
        BY <2>1, <2>2 DEF Cleared, Unused, Waiters
    <2>4. \A u \in Threads : pc'[u] \in {"relock", "idle"}
        BY <2>1, <2>3 DEF Placed
    <2> QED BY <2>4 DEF Cleared
<1> QED
    BY <1>3, <1>4, <1>5, <1>6, <1>7, <1>8, <1>9, <1>10, <1>11 DEF Step

-----------------------------------------------------------------------------
(* The theorems *)

\* The invariant, whatever the threads do.
THEOREM Invariance == Spec => []Inv
<1>1. Inv /\ [Next]_vars => Inv'
    <2> SUFFICES ASSUME Inv, [Next]_vars PROVE Inv'
        OBVIOUS
    <2>1. CASE Next
        BY <2>1, PlacedStep, CountedStep, ClearedStep DEF Inv
    <2>2. CASE UNCHANGED vars
        BY <2>2 DEF vars, seqVars, queueVars, Inv, Placed, Counted, Cleared, Unused, Waiters,
                    Unreleased
    <2> QED BY <2>1, <2>2
<1> QED BY InitInv, <1>1, PTL DEF Spec

\* Counting in and out by sequence numbers is right: nk_condvar_signal and
\* nk_condvar_bcast find main_seq above wakeup_seq only if there are waiters,
\* and a wait returns only for a signal or a broadcast.
THEOREM SeqsAreRight == Spec => []SeqsCountWaiters
<1>1. Inv => SeqsCountWaiters
    <2> SUFFICES ASSUME Inv PROVE SeqsCountWaiters
        OBVIOUS
    <2>1. Cardinality(Waiters) \in 0 .. Cardinality(Threads)
        <3>1. /\ Cardinality(Waiters) \in Nat /\ Cardinality(Threads) \in Nat
              /\ Cardinality(Waiters) <= Cardinality(Threads)
            BY CardinalityFacts DEF Waiters
        <3> QED BY SMTT(30), <3>1
    <2>2. TypeOK
        BY <2>1 DEF Inv, Placed, Counted, TypeOK
    <2> QED BY <2>2 DEF Inv, Counted, SeqsCountWaiters, Unreleased
<1> QED BY Invariance, <1>1, PTL

\* No thread waits on a condition variable that nk_condvar_destroy has cleared.
THEOREM DestroyIsFinal == Spec => []DestroyedUnused
<1>1. Inv => DestroyedUnused
    BY DEF Inv, Cleared, DestroyedUnused, Waiters, Waiting
<1> QED BY Invariance, <1>1, PTL
=============================================================================
