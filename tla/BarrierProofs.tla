--------------------------- MODULE BarrierProofs ---------------------------
(***************************************************************************)
(* Proofs about the thread barrier, for any finite set of threads and any  *)
(* number of calls.  The inductive invariant Inv says what the lock that   *)
(* the last thread in hands to the last thread out protects.               *)
(***************************************************************************)
EXTENDS Barrier, FiniteSetTheorems, TLAPS

\* The threads counted out of remaining.
Inside == {t \in Threads : pc[t] \in {"notify", "unlock", "spin", "inc"}}

\* The threads that will release the lock they find taken.
Holding(t) == pc[t] \in {"load", "store", "notify", "unlock", "reset",
                         "release", "dcheck"}

Counting == remaining = init_count - Cardinality(Inside)

\* While the barrier drains (notify = 1) the lock is taken though no thread
\* needs to hold it.
Locking ==
    /\ \A t, u \in Threads : Holding(t) /\ Holding(u) => t = u
    /\ lock = 0 => notify = 0 /\ \A t \in Threads : ~Holding(t)
    /\ notify = 1 => \A t \in Threads : Holding(t) => pc[t] = "reset"
    /\ \A t \in Threads : pc[t] \in {"inc", "reset"} => notify = 1
    /\ \A t \in Threads : pc[t] = "store" => loaded[t] = remaining
    /\ \A t \in Threads : pc[t] = "notify" => Inside = Threads
    /\ \A t \in Threads : pc[t] \in {"reset", "release"} => Inside = {}

\* Filling: the threads inside are one round ahead of the others.
\* Draining: all threads have arrived equally often.
Rounds ==
    /\ notify = 1 => \A t, u \in Threads : arrived[t] = arrived[u]
    /\ notify = 0 => \A t, u \in Threads :
           arrived[t] + (IF u \in Inside THEN 1 ELSE 0)
               = arrived[u] + (IF t \in Inside THEN 1 ELSE 0)

Destroying ==
    /\ \A t \in Threads :
           pc[t] \in {"lock", "load", "store"} => arrived[t] < MaxCalls
    /\ \A t \in Threads :
           pc[t] \in {"dlock", "dcheck", "done", "failed"} => arrived[t] = MaxCalls
    /\ \A t, u \in Threads :
           /\ pc[t] \in {"dlock", "dcheck", "done", "failed"}
           /\ pc[u] \in {"dlock", "dcheck", "done", "failed"}
           => t = u
    /\ freed => /\ \E t \in Threads : pc[t] = "done"
                /\ \A t \in Threads : /\ pc[t] \in {"idle", "done"}
                                      /\ arrived[t] = MaxCalls
    /\ DestroySucceeds

Lasts ==
    /\ \A t \in Threads : pc[t] \in {"lock", "load", "store", "unlock"} => res[t] = 0
    /\ notify = 0 => \A t \in Threads : pc[t] = "spin" => res[t] = 0
    /\ \A t, u \in Threads : res[t] = NK_BARRIER_LAST /\ res[u] = NK_BARRIER_LAST => t = u
    /\ (/\ notify = 1 \/ Inside = {} \/ \E t \in Threads : pc[t] = "notify"
        /\ \A t \in Threads : arrived[t] > 0 /\ pc[t] \notin {"lock", "load", "store"})
       => \E t \in Threads : res[t] = NK_BARRIER_LAST

Inv == TypeOK /\ Counting /\ Locking /\ Rounds /\ Destroying /\ Lasts
-----------------------------------------------------------------------------
\* What the proofs need to know about the number of threads inside.
LEMMA CardinalityFacts ==
    ASSUME NEW S \in SUBSET Threads
    PROVE  /\ Cardinality(S) \in Nat
           /\ init_count \in Nat \ {0}
           /\ Cardinality(S) <= init_count
           /\ Cardinality(S) = 0 <=> S = {}
           /\ Cardinality(S) = init_count => S = Threads
           /\ \A t \in Threads \ S : Cardinality(S \cup {t}) = Cardinality(S) + 1
           /\ \A t \in S : Cardinality(S \ {t}) = Cardinality(S) - 1
<1>1. IsFiniteSet(S) /\ Cardinality(S) <= init_count /\ (Cardinality(S) = init_count => S = Threads)
    BY ThreadsAssumption, FS_Subset DEF init_count
<1>2. init_count \in Nat \ {0}
    BY ThreadsAssumption, FS_CardinalityType, FS_EmptySet DEF init_count
<1> QED
    BY <1>1, <1>2, FS_CardinalityType, FS_EmptySet, FS_AddElement, FS_RemoveElement

\* The inductive invariant holds initially.
LEMMA InitInv == Init => Inv
<1> SUFFICES ASSUME Init PROVE Inv
    OBVIOUS
<1>1. Inside = {}
    BY DEF Init, Inside
<1>2. TypeOK
    <2>1. init_count \in Nat
        BY <1>1, CardinalityFacts
    <2>2. freed \in BOOLEAN
        BY Zenon DEF Init
    <2>3. 0 \in 0..MaxCalls
        BY MaxCallsAssumption
    <2> QED
        BY <2>1, <2>2, <2>3 DEF Init, TypeOK, PC, NK_BARRIER_LAST
<1>3. Counting
    BY <1>1, CardinalityFacts, FS_EmptySet DEF Init, Counting
<1>4. Locking /\ Rounds
    BY <1>1 DEF Init, Locking, Rounds, Holding
<1>5. Destroying /\ Lasts
    BY ThreadsAssumption DEF Init, Destroying, Lasts, DestroySucceeds, NK_BARRIER_LAST
<1> QED
    BY <1>2, <1>3, <1>4, <1>5 DEF Inv

\* Every step preserves the inductive invariant: one lemma per shared access of
\* nk_barrier_wait and nk_barrier_destroy.
LEMMA CallInv == ASSUME NEW t \in Threads, Inv, Call(t) PROVE Inv'
<1> USE DEF Goto, NK_BARRIER_LAST
<1>1. Inside' = Inside
    BY DEF Call, Inside, Inv, TypeOK
<1>2. Inside \in SUBSET Threads /\ Inside' \in SUBSET Threads
    BY DEF Inside
<1>3. TypeOK'
    BY DEF Call, Inv, TypeOK, PC
<1>4. Counting'
    BY <1>1, <1>2, CardinalityFacts DEF Call, Inv, Counting, Locking, TypeOK
<1>5. Locking'
    BY <1>1, <1>2, <1>4, CardinalityFacts DEF Call, Inv, Counting, Locking, Holding, TypeOK, Inside
<1>6. Rounds'
    BY <1>1, <1>2 DEF Call, Inv, Rounds, Locking, Holding, TypeOK, Inside
<1>7. Destroying'
    BY <1>1 DEF Call, Inv, Destroying, DestroySucceeds, TypeOK
<1>8. Lasts'
    BY <1>1, <1>2 DEF Call, Inv, Lasts, Locking, Holding, TypeOK
<1> QED
    BY <1>3, <1>4, <1>5, <1>6, <1>7, <1>8 DEF Inv

LEMMA bspin_lockInv == ASSUME NEW t \in Threads, Inv, bspin_lock(t) PROVE Inv'
<1> USE DEF Goto, NK_BARRIER_LAST
<1>1. Inside' = Inside
    BY DEF bspin_lock, Inside, Inv, TypeOK
<1>2. Inside \in SUBSET Threads /\ Inside' \in SUBSET Threads
    BY DEF Inside
<1>3. TypeOK'
    BY DEF bspin_lock, Inv, TypeOK, PC
<1>4. Counting'
    BY <1>1, <1>2, CardinalityFacts DEF bspin_lock, Inv, Counting, Locking, TypeOK
<1>5. Locking'
    BY <1>1, <1>2, <1>4, CardinalityFacts DEF bspin_lock, Inv, Counting, Locking, Holding, TypeOK, Inside
<1>6. Rounds'
    BY <1>1, <1>2 DEF bspin_lock, Inv, Rounds, Locking, Holding, TypeOK, Inside
<1>7. Destroying'
    BY <1>1 DEF bspin_lock, Inv, Destroying, DestroySucceeds, TypeOK
<1>8. Lasts'
    BY <1>1, <1>2 DEF bspin_lock, Inv, Lasts, Locking, Holding, TypeOK
<1> QED
    BY <1>3, <1>4, <1>5, <1>6, <1>7, <1>8 DEF Inv

LEMMA LoadInv == ASSUME NEW t \in Threads, Inv, Load(t) PROVE Inv'
<1> USE DEF Goto, NK_BARRIER_LAST
<1>1. Inside' = Inside
    BY DEF Load, Inside, Inv, TypeOK
<1>2. Inside \in SUBSET Threads /\ Inside' \in SUBSET Threads
    BY DEF Inside
<1>3. TypeOK'
    BY DEF Load, Inv, TypeOK, PC
<1>4. Counting'
    BY <1>1, <1>2, CardinalityFacts DEF Load, Inv, Counting, Locking, TypeOK
<1>5. Locking'
    BY <1>1, <1>2, <1>4, CardinalityFacts DEF Load, Inv, Counting, Locking, Holding, TypeOK, Inside
<1>6. Rounds'
    BY <1>1, <1>2 DEF Load, Inv, Rounds, Locking, Holding, TypeOK, Inside
<1>7. Destroying'
    BY <1>1 DEF Load, Inv, Destroying, DestroySucceeds, TypeOK
<1>8. Lasts'
    BY <1>1, <1>2 DEF Load, Inv, Lasts, Locking, Holding, TypeOK
<1> QED
    BY <1>3, <1>4, <1>5, <1>6, <1>7, <1>8 DEF Inv

LEMMA StoreInv == ASSUME NEW t \in Threads, Inv, Store(t) PROVE Inv'
<1> USE DEF Goto, NK_BARRIER_LAST
<1>1. /\ pc[t] = "store" /\ t \notin Inside
      /\ Inside \in SUBSET Threads
    BY DEF Store, Inside
<1>2. Inside' = Inside \cup {t}
    <2>1. pc' = [pc EXCEPT ![t] = "notify"] \/ pc' = [pc EXCEPT ![t] = "unlock"]
        BY DEF Store
    <2> QED
        BY <2>1 DEF Inside, Inv, TypeOK
<1>3. notify = 0 /\ notify' = 0 /\ loaded[t] = remaining /\ lock' = lock
    BY <1>1 DEF Store, Inv, Locking, Holding, TypeOK
<1>4. \A u \in Threads : Holding(u) => u = t
    BY <1>1 DEF Inv, Locking, Holding
<1>5. Counting'
    BY <1>1, <1>2, <1>3, CardinalityFacts DEF Store, Inv, Counting
<1>6. TypeOK'
    <2>1. Inside' \in SUBSET Threads
        BY DEF Inside
    <2>2. remaining' \in 0..init_count
        BY <1>5, <2>1, CardinalityFacts DEF Counting
    <2> QED
        BY <1>1, <2>2, MaxCallsAssumption DEF Store, Inv, TypeOK, PC, Destroying
<1>7. pc'[t] = "notify" => Inside' = Threads
    <2>1. Inside' \in SUBSET Threads
        BY DEF Inside
    <2>2. pc'[t] = "notify" => remaining' = 0
        BY <1>1 DEF Store, Inv, TypeOK
    <2> QED
        BY <2>1, <2>2, <1>5, CardinalityFacts DEF Counting
<1>8. \A u \in Threads : u # t => pc'[u] = pc[u]
    BY DEF Store, Inv, TypeOK
<1>9. pc'[t] \in {"notify", "unlock"}
    BY DEF Store, Inv, TypeOK
<1>10. Locking'
    BY <1>1, <1>3, <1>4, <1>7, <1>8, <1>9 DEF Inv, Locking, Holding
<1>11. Rounds'
    <2>1. arrived' = [arrived EXCEPT ![t] = @ + 1]
        BY DEF Store
    <2> QED
        BY <1>1, <1>2, <1>3, <2>1 DEF Inv, Rounds, TypeOK
<1>12. Destroying'
    <2>1. ~freed /\ freed' = freed
        BY <1>1 DEF Store, Inv, Destroying
    <2>2. \A u \in Threads : u # t => arrived'[u] = arrived[u]
        BY DEF Store, Inv, TypeOK
    <2> QED
        BY <1>8, <1>9, <2>1, <2>2 DEF Inv, Destroying, DestroySucceeds
<1>13. Lasts'
    <2>1. CASE loaded[t] = 1
        <3>1. pc'[t] = "notify" /\ res' = [res EXCEPT ![t] = NK_BARRIER_LAST]
            BY <2>1 DEF Store, Inv, TypeOK
        <3>2. \A u \in Threads : u # t => u \in Inside /\ ~Holding(u)
            BY <3>1, <1>7, <1>2, <1>4
        <3>3. \A u \in Threads : u # t => pc[u] = "spin"
            BY <3>2, <1>3 DEF Inside, Holding, Inv, Locking
        <3> QED
            BY <3>1, <3>3, <1>3, <1>8 DEF Inv, Lasts, TypeOK
    <2>2. CASE loaded[t] # 1
        <3>1. pc'[t] = "unlock" /\ res' = res
            BY <2>2 DEF Store, Inv, TypeOK
        <3>2. \A u \in Threads : pc'[u] # "notify"
            BY <3>1, <1>4, <1>8 DEF Holding
        <3> QED
            BY <3>1, <3>2, <1>1, <1>2, <1>3, <1>8 DEF Inv, Lasts
    <2> QED
        BY <2>1, <2>2
<1> QED
    BY <1>5, <1>6, <1>10, <1>11, <1>12, <1>13 DEF Inv

LEMMA NotifyInv == ASSUME NEW t \in Threads, Inv, Notify(t) PROVE Inv'
<1> USE DEF Goto, NK_BARRIER_LAST
<1>1. Inside' = Inside
    BY DEF Notify, Inside, Inv, TypeOK
<1>2. Inside \in SUBSET Threads /\ Inside' \in SUBSET Threads
    BY DEF Inside
<1>3. TypeOK'
    BY DEF Notify, Inv, TypeOK, PC
<1>4. Counting'
    BY <1>1, <1>2, CardinalityFacts DEF Notify, Inv, Counting, Locking, TypeOK
<1>5. Locking'
    BY <1>1, <1>2, <1>4, CardinalityFacts DEF Notify, Inv, Counting, Locking, Holding, TypeOK, Inside
<1>6. Rounds'
    BY <1>1, <1>2 DEF Notify, Inv, Rounds, Locking, Holding, TypeOK, Inside
<1>7. Destroying'
    BY <1>1 DEF Notify, Inv, Destroying, DestroySucceeds, TypeOK
<1>8. Lasts'
    BY <1>1, <1>2 DEF Notify, Inv, Lasts, Locking, Holding, TypeOK
<1> QED
    BY <1>3, <1>4, <1>5, <1>6, <1>7, <1>8 DEF Inv

LEMMA bspin_unlockInv == ASSUME NEW t \in Threads, Inv, bspin_unlock(t) PROVE Inv'
<1> USE DEF Goto, NK_BARRIER_LAST
<1>1. Inside' = Inside
    BY DEF bspin_unlock, Inside, Inv, TypeOK
<1>2. Inside \in SUBSET Threads /\ Inside' \in SUBSET Threads
    BY DEF Inside
<1>3. TypeOK'
    BY DEF bspin_unlock, Inv, TypeOK, PC
<1>4. Counting'
    BY <1>1, <1>2, CardinalityFacts DEF bspin_unlock, Inv, Counting, Locking, TypeOK
<1>5. Locking'
    BY <1>1, <1>2, <1>4, CardinalityFacts DEF bspin_unlock, Inv, Counting, Locking, Holding, TypeOK, Inside
<1>6. Rounds'
    BY <1>1, <1>2 DEF bspin_unlock, Inv, Rounds, Locking, Holding, TypeOK, Inside
<1>7. Destroying'
    BY <1>1 DEF bspin_unlock, Inv, Destroying, DestroySucceeds, TypeOK
<1>8. Lasts'
    BY <1>1, <1>2 DEF bspin_unlock, Inv, Lasts, Locking, Holding, TypeOK
<1> QED
    BY <1>3, <1>4, <1>5, <1>6, <1>7, <1>8 DEF Inv

LEMMA SpinInv == ASSUME NEW t \in Threads, Inv, Spin(t) PROVE Inv'
<1> USE DEF Goto, NK_BARRIER_LAST
<1>1. Inside' = Inside
    BY DEF Spin, Inside, Inv, TypeOK
<1>2. Inside \in SUBSET Threads /\ Inside' \in SUBSET Threads
    BY DEF Inside
<1>3. TypeOK'
    BY DEF Spin, Inv, TypeOK, PC
<1>4. Counting'
    BY <1>1, <1>2, CardinalityFacts DEF Spin, Inv, Counting, Locking, TypeOK
<1>5. Locking'
    BY <1>1, <1>2, <1>4, CardinalityFacts DEF Spin, Inv, Counting, Locking, Holding, TypeOK, Inside
<1>6. Rounds'
    BY <1>1, <1>2 DEF Spin, Inv, Rounds, Locking, Holding, TypeOK, Inside
<1>7. Destroying'
    BY <1>1 DEF Spin, Inv, Destroying, DestroySucceeds, TypeOK
<1>8. Lasts'
    BY <1>1, <1>2 DEF Spin, Inv, Lasts, Locking, Holding, TypeOK
<1> QED
    BY <1>3, <1>4, <1>5, <1>6, <1>7, <1>8 DEF Inv

LEMMA IncInv == ASSUME NEW t \in Threads, Inv, Inc(t) PROVE Inv'
<1> USE DEF Goto, NK_BARRIER_LAST
<1>1. Inside' = Inside \ {t} /\ t \in Inside
    BY DEF Inc, Inside, Inv, TypeOK
<1>2. Inside \in SUBSET Threads /\ Inside' \in SUBSET Threads
    BY DEF Inside
<1>3. TypeOK'
    BY <1>1, <1>2, CardinalityFacts DEF Inc, Inv, TypeOK, PC, Counting
<1>4. Counting'
    BY <1>1, <1>2, CardinalityFacts DEF Inc, Inv, Counting, Locking, TypeOK
<1>5. Locking'
    <2>1. pc'[t] = "reset" => Inside' = {}
        BY <1>2, <1>4, CardinalityFacts DEF Inc, Inv, Counting, TypeOK
    <2>2. notify = 1 /\ notify' = 1 /\ lock' = lock /\ pc[t] = "inc"
        BY DEF Inc, Inv, Locking
    <2>3. pc'[t] \in {"reset", "idle"} /\ \A u \in Threads : u # t => pc'[u] = pc[u]
        BY DEF Inc, Inv, TypeOK
    <2>4. \A u \in Threads : ~Holding(u)
        BY <1>1, <2>2 DEF Inv, Locking
    <2> QED
        BY <1>1, <2>1, <2>2, <2>3, <2>4 DEF Inv, Locking, Holding
<1>6. Rounds'
    BY <1>1, <1>2 DEF Inc, Inv, Rounds, Locking, Holding, TypeOK, Inside
<1>7. Destroying'
    BY <1>1 DEF Inc, Inv, Destroying, DestroySucceeds, TypeOK
<1>8. Lasts'
    BY <1>1, <1>2 DEF Inc, Inv, Lasts, Locking, Holding, TypeOK
<1> QED
    BY <1>3, <1>4, <1>5, <1>6, <1>7, <1>8 DEF Inv

LEMMA ResetInv == ASSUME NEW t \in Threads, Inv, Reset(t) PROVE Inv'
<1> USE DEF Goto, NK_BARRIER_LAST
<1>1. Inside' = Inside
    BY DEF Reset, Inside, Inv, TypeOK
<1>2. Inside \in SUBSET Threads /\ Inside' \in SUBSET Threads
    BY DEF Inside
<1>3. TypeOK'
    BY DEF Reset, Inv, TypeOK, PC
<1>4. Counting'
    BY <1>1, <1>2, CardinalityFacts DEF Reset, Inv, Counting, Locking, TypeOK
<1>5. Locking'
    BY <1>1, <1>2, <1>4, CardinalityFacts DEF Reset, Inv, Counting, Locking, Holding, TypeOK, Inside
<1>6. Rounds'
    BY <1>1, <1>2 DEF Reset, Inv, Rounds, Locking, Holding, TypeOK, Inside
<1>7. Destroying'
    BY <1>1 DEF Reset, Inv, Destroying, DestroySucceeds, TypeOK
<1>8. Lasts'
    BY <1>1, <1>2 DEF Reset, Inv, Lasts, Locking, Holding, TypeOK, Inside
<1> QED
    BY <1>3, <1>4, <1>5, <1>6, <1>7, <1>8 DEF Inv

LEMMA ReleaseInv == ASSUME NEW t \in Threads, Inv, Release(t) PROVE Inv'
<1> USE DEF Goto, NK_BARRIER_LAST
<1>1. Inside' = Inside
    BY DEF Release, Inside, Inv, TypeOK
<1>2. Inside \in SUBSET Threads /\ Inside' \in SUBSET Threads
    BY DEF Inside
<1>3. TypeOK'
    BY DEF Release, Inv, TypeOK, PC
<1>4. Counting'
    BY <1>1, <1>2, CardinalityFacts DEF Release, Inv, Counting, Locking, TypeOK
<1>5. Locking'
    BY <1>1, <1>2, <1>4, CardinalityFacts DEF Release, Inv, Counting, Locking, Holding, TypeOK, Inside
<1>6. Rounds'
    BY <1>1, <1>2 DEF Release, Inv, Rounds, Locking, Holding, TypeOK, Inside
<1>7. Destroying'
    BY <1>1 DEF Release, Inv, Destroying, DestroySucceeds, TypeOK
<1>8. Lasts'
    BY <1>1, <1>2 DEF Release, Inv, Lasts, Locking, Holding, TypeOK
<1> QED
    BY <1>3, <1>4, <1>5, <1>6, <1>7, <1>8 DEF Inv

LEMMA DestroyCallInv == ASSUME NEW t \in Threads, Inv, DestroyCall(t) PROVE Inv'
<1> USE DEF Goto, NK_BARRIER_LAST
<1>1. Inside' = Inside
    BY DEF DestroyCall, Inside, Inv, TypeOK
<1>2. Inside \in SUBSET Threads /\ Inside' \in SUBSET Threads
    BY DEF Inside
<1>3. TypeOK'
    BY DEF DestroyCall, Inv, TypeOK, PC
<1>4. Counting'
    BY <1>1, <1>2, CardinalityFacts DEF DestroyCall, Inv, Counting, Locking, TypeOK
<1>5. Locking'
    BY <1>1, <1>2, <1>4, CardinalityFacts DEF DestroyCall, Inv, Counting, Locking, Holding, TypeOK, Inside
<1>6. Rounds'
    BY <1>1, <1>2 DEF DestroyCall, Inv, Rounds, Locking, Holding, TypeOK, Inside
<1>7. Destroying'
    BY <1>1 DEF DestroyCall, Inv, Destroying, DestroySucceeds, TypeOK
<1>8. Lasts'
    BY <1>1, <1>2 DEF DestroyCall, Inv, Lasts, Locking, Holding, TypeOK
<1> QED
    BY <1>3, <1>4, <1>5, <1>6, <1>7, <1>8 DEF Inv

LEMMA DestroyLockInv == ASSUME NEW t \in Threads, Inv, DestroyLock(t) PROVE Inv'
<1> USE DEF Goto, NK_BARRIER_LAST
<1>1. Inside' = Inside
    BY DEF DestroyLock, Inside, Inv, TypeOK
<1>2. Inside \in SUBSET Threads /\ Inside' \in SUBSET Threads
    BY DEF Inside
<1>3. TypeOK'
    BY DEF DestroyLock, Inv, TypeOK, PC
<1>4. Counting'
    BY <1>1, <1>2, CardinalityFacts DEF DestroyLock, Inv, Counting, Locking, TypeOK
<1>5. Locking'
    BY <1>1, <1>2, <1>4, CardinalityFacts DEF DestroyLock, Inv, Counting, Locking, Holding, TypeOK, Inside
<1>6. Rounds'
    BY <1>1, <1>2 DEF DestroyLock, Inv, Rounds, Locking, Holding, TypeOK, Inside
<1>7. Destroying'
    BY <1>1 DEF DestroyLock, Inv, Destroying, DestroySucceeds, TypeOK
<1>8. Lasts'
    BY <1>1, <1>2 DEF DestroyLock, Inv, Lasts, Locking, Holding, TypeOK
<1> QED
    BY <1>3, <1>4, <1>5, <1>6, <1>7, <1>8 DEF Inv

LEMMA DestroyCheckInv == ASSUME NEW t \in Threads, Inv, DestroyCheck(t) PROVE Inv'
<1> USE DEF Goto, NK_BARRIER_LAST
<1>1. Inside' = Inside
    BY DEF DestroyCheck, Inside, Inv, TypeOK
<1>2. Inside \in SUBSET Threads /\ Inside' \in SUBSET Threads
    BY DEF Inside
<1>3. TypeOK'
    BY DEF DestroyCheck, Inv, TypeOK, PC
<1>4. Counting'
    BY <1>1, <1>2, CardinalityFacts DEF DestroyCheck, Inv, Counting, Locking, TypeOK
<1>5. Locking'
    BY <1>1, <1>2, <1>4, CardinalityFacts DEF DestroyCheck, Inv, Counting, Locking, Holding, TypeOK, Inside
<1>6. Rounds'
    BY <1>1, <1>2 DEF DestroyCheck, Inv, Rounds, Locking, Holding, TypeOK, Inside
<1>7. Destroying'
    <2>1. pc[t] = "dcheck" /\ arrived[t] = MaxCalls /\ notify = 0
        BY DEF DestroyCheck, Inv, Destroying, Locking, Holding, TypeOK
    <2>2. \A u \in Threads : arrived[u] \in 0..MaxCalls
        BY DEF Inv, TypeOK
    <2>3. t \notin Inside
        BY <2>1 DEF Inside
    <2>4. Inside = {}
        BY <2>1, <2>2, <2>3, <1>2, MaxCallsAssumption DEF Inv, Rounds
    <2>5. remaining = init_count
        BY <2>4, <1>2, CardinalityFacts DEF Inv, Counting
    <2>6. \A u \in Threads : arrived[u] = MaxCalls
        BY <2>1, <2>2, <2>4, MaxCallsAssumption DEF Inv, Rounds
    <2>7. \A u \in Threads : u # t => pc[u] = "idle"
        BY <2>1, <2>4, <2>6, MaxCallsAssumption
            DEF Inv, Locking, Holding, Destroying, Inside, TypeOK, PC
    <2>8. pc' = [pc EXCEPT ![t] = "done"] /\ arrived' = arrived
        BY <2>5 DEF DestroyCheck
    <2> QED
        BY <2>1, <2>6, <2>7, <2>8 DEF Inv, Destroying, DestroySucceeds, TypeOK
<1>8. Lasts'
    BY <1>1, <1>2 DEF DestroyCheck, Inv, Lasts, Locking, Holding, TypeOK
<1> QED
    BY <1>3, <1>4, <1>5, <1>6, <1>7, <1>8 DEF Inv

\* Every step of every thread preserves the inductive invariant.
LEMMA NextInv == Inv /\ [Next]_vars => Inv'
<1> SUFFICES ASSUME Inv, [Next]_vars PROVE Inv'
    OBVIOUS
<1>1. CASE UNCHANGED vars
    <2>1. TypeOK' /\ Counting'
        BY <1>1 DEF vars, Inv, TypeOK, Counting, Inside
    <2>2. Locking' /\ Rounds'
        BY <1>1 DEF vars, Inv, Locking, Rounds, Inside, Holding
    <2>3. Destroying' /\ Lasts'
        BY <1>1 DEF vars, Inv, Destroying, Lasts, DestroySucceeds, Inside, Holding
    <2> QED BY <2>1, <2>2, <2>3 DEF Inv
<1>2. CASE \E t \in Threads : nk_barrier_wait(t)
    BY <1>2, CallInv, bspin_lockInv, LoadInv, StoreInv, NotifyInv, bspin_unlockInv,
       SpinInv, IncInv, ResetInv, ReleaseInv DEF nk_barrier_wait
<1>3. CASE \E t \in Threads : nk_barrier_destroy(t)
    BY <1>3, DestroyCallInv, DestroyLockInv, DestroyCheckInv DEF nk_barrier_destroy
<1> QED
    BY <1>1, <1>2, <1>3 DEF Next, Step, Finished

\* The inductive invariant holds in every reachable state.
THEOREM Invariance == Spec => []Inv
<1>1. Init => Inv
    BY InitInv
<1>2. Inv /\ [Next]_vars => Inv'
    BY NextInv
<1> QED
    BY <1>1, <1>2, PTL DEF Spec

\* The fields of the barrier and the threads' locals keep their types.
THEOREM TypeCorrect == Spec => []TypeOK
<1>1. Inv => TypeOK
    BY DEF Inv
<1> QED
    BY <1>1, Invariance, PTL

\* nk_barrier_wait synchronises any number of threads over any number of
\* rounds, although the barrier is reused while it drains.
THEOREM Synchronises == Spec => []BarrierSync
<1>1. Inv => BarrierSync
    <2> SUFFICES ASSUME Inv, NEW t \in Threads, NEW u \in Threads, ~Blocked(t)
                 PROVE  arrived[t] <= arrived[u]
        BY DEF BarrierSync
    <2>1. t \notin Inside \/ notify = 1
        BY DEF Inv, Locking, Blocked, Inside
    <2>2. arrived[t] \in Int /\ arrived[u] \in Int /\ notify \in {0, 1}
        BY DEF Inv, TypeOK
    <2> QED
        BY <2>1, <2>2 DEF Inv, Rounds
<1> QED
    BY <1>1, Invariance, PTL

\* The plain decrement of remaining never races with the atomic increments of
\* the threads leaving, nor with another decrement.
THEOREM DecrementIsSafe == Spec => []NoRemainingRace
<1>1. Inv => NoRemainingRace
    BY DEF Inv, NoRemainingRace, Locking, Holding, TypeOK
<1> QED
    BY <1>1, Invariance, PTL

\* Each round of nk_barrier_wait gives NK_BARRIER_LAST to exactly one thread.
THEOREM OneLastPerRound == Spec => []ExactlyOneLast
<1>1. Inv => ExactlyOneLast
    <2> SUFFICES ASSUME Inv,
                        \A t \in Threads : pc[t] \in {"idle", "dlock"} /\ arrived[t] > 0
                 PROVE  \E t \in Threads : \A u \in Threads :
                            res[u] = NK_BARRIER_LAST <=> u = t
        BY DEF ExactlyOneLast
    <2>1. Inside = {}
        BY DEF Inside
    <2>2. PICK t \in Threads : res[t] = NK_BARRIER_LAST
        BY <2>1 DEF Inv, Lasts
    <2> QED
        BY <2>2 DEF Inv, Lasts
<1> QED
    BY <1>1, Invariance, PTL

\* Once nk_barrier_destroy returned 0 the barrier's memory may be freed: no
\* thread will access it.
THEOREM FreeIsSafe == Spec => []NoUseAfterFree
<1>1. Inv => NoUseAfterFree
    BY DEF Inv, Destroying, NoUseAfterFree
<1> QED
    BY <1>1, Invariance, PTL

\* nk_barrier_destroy after the last wait never reports a waiting thread.
THEOREM DestroyNeverFails == Spec => []DestroySucceeds
<1>1. Inv => DestroySucceeds
    BY DEF Inv, Destroying
<1> QED
    BY <1>1, Invariance, PTL
=============================================================================
