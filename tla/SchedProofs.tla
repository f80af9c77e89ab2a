-------------------------- MODULE SchedProofs -------------------------------
(***************************************************************************)
(* The inductive invariant of the scheduler core, for any sets of threads, *)
(* CPUs and wait queues: that scheduling passes, switches, going to sleep  *)
(* and waking keep it, and what follows from it about where threads are,   *)
(* wakeups and the errors the scheduler would report.  The argument: only a CPU's own passes take threads off its run queue, so a  *)
(* thread that is queued while its CPU still runs on its stack cannot be   *)
(* picked up elsewhere; and the wait queues' locks are held until the pass *)
(* is over, so that only a thread that is off the run queue is ever found  *)
(* WAITING by a waker.                                                     *)
(***************************************************************************)
EXTENDS Sched, TLAPS

\* A thread is only ever placed on its own CPU.
Local ==
    \A t \in Threads, c \in CPUs :
        t = current[c] \/ t = next[c] \/ t \in Range(rq[c]) => c = curCpu[t]

\* Where a thread is, by its status.
Placed ==
    \A t \in Threads :
        /\ status[t] = "RUNNING" =>
               /\ \/ next[curCpu[t]] = t
                  \/ current[curCpu[t]] = t /\ next[curCpu[t]] = NoThread
               /\ t \notin Range(rq[curCpu[t]])
        /\ status[t] = "SUSPENDED" =>
               /\ t # next[curCpu[t]]
               /\ current[curCpu[t]] = t => next[curCpu[t]] # NoThread
               /\ t \in Range(rq[curCpu[t]]) \/ \E a \in Actors : woken[a] = t
        /\ status[t] = "WAITING" =>
               /\ t \notin Range(rq[curCpu[t]]) /\ t # next[curCpu[t]]
               /\ op[t] = "sleep" /\ want[t] # {}
               /\ \A q \in want[t] : t \in Range(wq[q])
               /\ \/ pc[t] \in {"special", "pass"}
                  \/ /\ pc[t] \in {"release", "back"}
                     /\ current[curCpu[t]] = t => next[curCpu[t]] # NoThread

\* A thread a waker has taken off a queue is nowhere else.
InHand ==
    \A a \in Actors :
        /\ woken[a] \in Threads <=> pc[a] = "awaken"
        /\ \A t \in Threads : woken[a] = t =>
               /\ status[t] = "SUSPENDED" /\ t \notin Range(rq[curCpu[t]])
               /\ pc[t] \in {"release", "back"}
               /\ \A b \in Actors : woken[b] = t => a = b

\* A thread in the middle of an operation has its CPU for itself.
Busy ==
    /\ \A c \in CPUs : pc[c] \in {"off", "wlock", "dequeue", "awaken", "wunlock"}
    /\ \A t \in Threads :
        /\ pc[t] # "off"
        /\ pc[t] \notin {"run", "back"} => current[curCpu[t]] = t /\ pc[curCpu[t]] = "off"
        /\ pc[t] \notin {"run", "back", "release"} => next[curCpu[t]] = NoThread

\* Who is on a wait queue.
Queued ==
    /\ \A q \in Queues : IsInjective(wq[q])
    /\ \A t \in Threads, q \in Queues : t \in Range(wq[q]) =>
           /\ q \in want[t] /\ op[t] = "sleep"
           /\ pc[t] \in {"special", "pass", "release", "back", "relock", "remove"}
           /\ ~Several(t) => status[t] = "WAITING"
    /\ \A t \in Threads :
           pc[t] \in {"special", "pass"} /\ op[t] = "sleep" => status[t] = "WAITING"

\* Whose locks are held.
Locks ==
    /\ \A t \in Threads :
           /\ \/ pc[t] \in {"check", "remove"}
              \/ pc[t] \in {"special", "pass"} /\ op[t] = "sleep"
           => \A q \in want[t] : wqLock[q] = t
    /\ \A t \in Threads : pc[t] \in {"special", "pass"} => op[t] \in {"yield", "sleep"}
    /\ \A t \in Threads : pc[t] \in {"lock", "check"} => op[t] = "sleep" /\ want[t] # {}
    /\ \A a \in Actors :
           /\ pc[a] \in {"dequeue", "awaken", "wunlock"} => \A q \in want[a] : wqLock[q] = a
           /\ pc[a] \in {"wlock", "dequeue", "awaken", "wunlock"} =>
                  op[a] \in WakeOps /\ \E q \in Queues : want[a] = {q}

\* What handle_special_switch announced is what the pass sees.
Announced ==
    \A t \in Threads :
        /\ rt[t] = "SLEEPING" =>
               \/ pc[t] = "pass"
               \/ /\ pc[t] \in {"release", "back"}
                  /\ status[t] = "WAITING" \/ \E a \in Actors : woken[a] = t
        /\ pc[t] = "pass" => (rt[t] = "SLEEPING" <=> op[t] = "sleep")

\* Each run queue holds a thread at most once.
QueuesInjective == \A c \in CPUs : IsInjective(rq[c])

Inv ==
    /\ TypeOK /\ Local /\ Placed /\ InHand /\ Busy /\ Queued /\ Locks
    /\ Announced /\ QueuesInjective

\* The parts of the invariant, for the steps that need some of them.
LEMMA InvParts ==
    ASSUME Inv
    PROVE  /\ TypeOK /\ Local /\ Placed /\ InHand /\ Busy /\ Queued /\ Locks
           /\ Announced /\ QueuesInjective
BY DEF Inv
-----------------------------------------------------------------------------
(* What the queue operations do to the set of threads on a queue *)

USE ZenonT(30)

\* sched and wait queue insertion at the tail.
LEMMA AppendFacts ==
    ASSUME NEW s \in Seq(Threads), NEW t \in Threads
    PROVE  /\ Append(s, t) \in Seq(Threads)
           /\ Append(s, t) # <<>>
           /\ Range(Append(s, t)) = Range(s) \cup {t}
           /\ IsInjective(s) /\ t \notin Range(s) => IsInjective(Append(s, t))
<1>1. /\ Append(s, t) \in Seq(Threads)
      /\ Len(Append(s, t)) = Len(s) + 1
      /\ DOMAIN Append(s, t) = 1 .. (Len(s) + 1)
      /\ \A i \in 1 .. Len(s) : Append(s, t)[i] = s[i]
      /\ Append(s, t)[Len(s) + 1] = t
      /\ Len(s) \in Nat /\ DOMAIN s = 1 .. Len(s)
    BY SMTT(30)
<1>2. Range(Append(s, t)) = Range(s) \cup {t}
    <2>1. ASSUME NEW x \in Range(Append(s, t)) PROVE x \in Range(s) \cup {t}
        BY SMTT(30), <1>1, <2>1 DEF Range
    <2>2. ASSUME NEW x \in Range(s) \cup {t} PROVE x \in Range(Append(s, t))
        <3>1. CASE x = t
            <4>1. Len(s) + 1 \in DOMAIN Append(s, t)
                BY SMTT(30), <1>1
            <4> QED
                BY <3>1, <4>1, <1>1 DEF Range
        <3>2. CASE x \in Range(s)
            BY SMTT(30), <3>2, <1>1 DEF Range
        <3> QED
            BY <2>2, <3>1, <3>2
    <2> QED
        BY <2>1, <2>2
<1>3. IsInjective(s) /\ t \notin Range(s) => IsInjective(Append(s, t))
    BY SMTT(30), <1>1 DEF IsInjective, Range
<1>4. Append(s, t) # <<>>
    BY SMTT(30), <1>1
<1> QED
    BY <1>1, <1>2, <1>3, <1>4

\* Taking the thread at the head.
LEMMA HeadFacts ==
    ASSUME NEW s \in Seq(Threads), IsInjective(s), s # <<>>
    PROVE  /\ Head(s) \in Threads
           /\ Head(s) \in Range(s)
           /\ Tail(s) \in Seq(Threads)
           /\ Range(Tail(s)) = Range(s) \ {Head(s)}
           /\ IsInjective(Tail(s))
<1>1. /\ Len(s) \in Nat \ {0} /\ DOMAIN s = 1 .. Len(s)
      /\ Head(s) = s[1] /\ Head(s) \in Threads
      /\ Tail(s) \in Seq(Threads)
      /\ DOMAIN Tail(s) = 1 .. (Len(s) - 1)
      /\ \A i \in 1 .. (Len(s) - 1) : Tail(s)[i] = s[i + 1]
    BY SMTT(30)
<1>2. Head(s) \in Range(s)
    BY SMTT(30), <1>1 DEF Range
<1>3. ASSUME NEW x \in Range(Tail(s)) PROVE x \in Range(s) \ {Head(s)}
    <2>1. PICK i \in 1 .. (Len(s) - 1) : x = s[i + 1]
        BY <1>1, <1>3 DEF Range
    <2>2. i + 1 \in DOMAIN s /\ 1 \in DOMAIN s /\ i + 1 # 1
        BY SMTT(30), <1>1
    <2> QED
        BY <1>1, <2>1, <2>2 DEF Range, IsInjective
<1>4. ASSUME NEW x \in Range(s) \ {Head(s)} PROVE x \in Range(Tail(s))
    <2>1. PICK j \in 1 .. Len(s) : x = s[j] /\ j # 1
        BY <1>1, <1>4 DEF Range
    <2>2. j - 1 \in 1 .. (Len(s) - 1) /\ (j - 1) + 1 = j
        BY SMTT(30), <1>1, <2>1
    <2>3. x = Tail(s)[j - 1]
        BY <1>1, <2>1, <2>2
    <2> QED
        BY Zenon, <1>1, <2>2, <2>3 DEF Range
<1>5. IsInjective(Tail(s))
    BY SMTT(30), <1>1 DEF IsInjective
<1> QED
    BY <1>1, <1>2, <1>3, <1>4, <1>5

\* Removing a thread wherever it is on the queue.
LEMMA WithoutFacts ==
    ASSUME NEW s \in Seq(Threads), NEW t \in Threads, IsInjective(s)
    PROVE  /\ Without(s, t) \in Seq(Threads)
           /\ Range(Without(s, t)) = Range(s) \ {t}
           /\ IsInjective(Without(s, t))
<1>1. CASE t \notin Range(s)
    BY <1>1 DEF Without
<1>2. CASE t \in Range(s)
    <2> DEFINE i == CHOOSE j \in DOMAIN s : s[j] = t
               r == [j \in 1 .. (Len(s) - 1) |-> IF j < i THEN s[j] ELSE s[j + 1]]
    <2>1. /\ Len(s) \in Nat \ {0} /\ DOMAIN s = 1 .. Len(s)
          /\ i \in 1 .. Len(s) /\ s[i] = t
        BY SMTT(30), <1>2 DEF Range
    <2>2. Without(s, t) = r
        BY <1>2 DEF Without
    <2> HIDE DEF i
    <2>3. \A j \in 1 .. (Len(s) - 1) : r[j] \in Threads
        BY SMTT(30), <2>1
    <2>4. r \in Seq(Threads)
        BY SMTT(30), <2>1, <2>3
    <2>5. DOMAIN r = 1 .. (Len(s) - 1)
        OBVIOUS
    <2>6. ASSUME NEW x \in Range(r) PROVE x \in Range(s) \ {t}
        <3>1. PICK j \in 1 .. (Len(s) - 1) : x = r[j]
            BY <2>5, <2>6 DEF Range
        <3>2. CASE j < i
            BY SMTT(30), <2>1, <3>1, <3>2 DEF Range, IsInjective
        <3>3. CASE ~(j < i)
            BY SMTT(30), <2>1, <3>1, <3>3 DEF Range, IsInjective
        <3> QED
            BY <3>2, <3>3
    <2>7. ASSUME NEW x \in Range(s) \ {t} PROVE x \in Range(r)
        <3>1. PICK j \in 1 .. Len(s) : x = s[j] /\ j # i
            BY <2>1, <2>7 DEF Range
        <3>2. CASE j < i
            <4>1. j \in 1 .. (Len(s) - 1) /\ r[j] = x
                BY SMTT(30), <2>1, <3>1, <3>2
            <4> QED
                BY <4>1, <2>5 DEF Range
        <3>3. CASE j > i
            <4>1. j - 1 \in 1 .. (Len(s) - 1) /\ r[j - 1] = x
                BY SMTT(30), <2>1, <3>1, <3>3
            <4> QED
                BY <4>1, <2>5 DEF Range
        <3> QED
            BY SMTT(30), <2>1, <3>1, <3>2, <3>3
    <2>8. IsInjective(r)
        <3>1. ASSUME NEW j \in 1 .. (Len(s) - 1), NEW k \in 1 .. (Len(s) - 1), r[j] = r[k]
              PROVE  j = k
            BY SMTT(30), <2>1, <3>1 DEF IsInjective
        <3> QED
            BY <3>1, <2>5 DEF IsInjective
    <2> QED
        BY <2>2, <2>4, <2>6, <2>7, <2>8
<1> QED
    BY <1>1, <1>2
-----------------------------------------------------------------------------
\* The inductive invariant holds initially.
LEMMA InitInv == Init => Inv
<1> SUFFICES ASSUME Init PROVE Inv
    OBVIOUS
<1> USE SchedAssumption DEF Init, Actors
<1>1. \A t \in Threads : curCpu[t] \in CPUs /\ t \in Range(rq[curCpu[t]])
    OBVIOUS
<1>2. ASSUME NEW q \in Queues
      PROVE  wq[q] \in Seq(Threads) /\ IsInjective(wq[q]) /\ Range(wq[q]) = {}
    BY SMTT(30) DEF IsInjective, Range
<1>3. cond \in [Queues -> BOOLEAN]
    BY Zenon
<1>4. TypeOK
    BY SMTT(30), <1>1, <1>3 DEF TypeOK
<1>5. Local
    BY <1>1 DEF Local
<1>6. Placed /\ InHand
    BY <1>1 DEF Placed, InHand
<1>7. Busy /\ Locks /\ Announced
    BY DEF Busy, Locks, Announced
<1>8. Queued
    BY <1>2 DEF Queued
<1> QED
    BY <1>4, <1>5, <1>6, <1>7, <1>8 DEF Inv, QueuesInjective

\* Threads, CPUs and the two null values are different things.
LEMMA Distinct ==
    /\ \A t \in Threads : t \in Actors /\ t \notin CPUs /\ t # NoThread /\ t # Idle
    /\ \A c \in CPUs : c \in Actors /\ c \notin Threads
    /\ \A a \in Actors : a # NoThread /\ a # Idle /\ (a \in Threads \/ a \in CPUs)
    /\ Idle # NoThread
BY SchedAssumption DEF Actors

\* The types, pointwise.
LEMMA Types ==
    ASSUME Inv
    PROVE  /\ \A t \in Threads : /\ curCpu[t] \in CPUs
                                 /\ status[t] \in {"RUNNING", "SUSPENDED", "WAITING"}
           /\ \A a \in Actors : \A q \in want[a] : q \in Queues
BY InvParts DEF TypeOK

LEMMA QueueTypes ==
    ASSUME Inv
    PROVE  /\ \A c \in CPUs : rq[c] \in Seq(Threads) /\ IsInjective(rq[c])
           /\ \A q \in Queues : wq[q] \in Seq(Threads) /\ IsInjective(wq[q])
BY InvParts DEF TypeOK, QueuesInjective, Queued

LEMMA NobodyQueued == Range(<<>>) = {}
BY SMTT(30) DEF Range

\* What is on a queue is a thread.
LEMMA QueueThreads ==
    ASSUME Inv
    PROVE  /\ \A c \in CPUs : Range(rq[c]) \subseteq Threads
           /\ \A q \in Queues : Range(wq[q]) \subseteq Threads
<1>1. ASSUME NEW s \in Seq(Threads) PROVE Range(s) \subseteq Threads
    BY SMTT(30) DEF Range
<1> QED
    BY <1>1, QueueTypes

\* The types of the arrays that most steps change, without the sets of labels.
LEMMA Arrays ==
    ASSUME Inv
    PROVE  \E L : pc \in [Actors -> L] /\ want \in [Actors -> SUBSET Queues]
                 /\ status \in [Threads -> {"RUNNING", "SUSPENDED", "WAITING"}]
BY InvParts DEF TypeOK

-----------------------------------------------------------------------------
(* What the invariant says, and how its parts are kept *)

LEMMA InvQueuedOnce == ASSUME Inv PROVE QueuedOnce
<1>1. \A c \in CPUs : \A t \in Range(rq[c]) :
          t \in Threads /\ c = curCpu[t] /\ status[t] = "SUSPENDED"
    <2>1. \A c \in CPUs : \A t \in Range(rq[c]) : t \in Threads /\ c = curCpu[t]
        BY QueueThreads, InvParts DEF Local
    <2>2. ASSUME NEW t \in Threads, t \in Range(rq[curCpu[t]])
          PROVE  status[t] = "SUSPENDED"
        BY <2>2, Types, InvParts DEF Placed
    <2> QED
        BY <2>1, <2>2
<1>2. \A c \in CPUs : \A t \in Range(rq[c]) :
          t # next[c] /\ (t = current[c] => next[c] # NoThread)
    <2>1. ASSUME NEW t \in Threads, status[t] = "SUSPENDED"
          PROVE  /\ t # next[curCpu[t]]
                 /\ t = current[curCpu[t]] => next[curCpu[t]] # NoThread
        BY <2>1, InvParts DEF Placed
    <2> QED
        BY SMTT(30), <1>1, <2>1
<1>3. \A c, d \in CPUs : \A t \in Range(rq[c]) :
          t \in Range(rq[d]) \/ t = next[d] \/ t = current[d] => c = d
    BY <1>1, InvParts DEF Local
<1> QED
    BY <1>2, <1>3, InvParts DEF QueuesInjective, QueuedOnce

LEMMA InvNeverForgotten == ASSUME Inv PROVE NeverForgotten
<1>1. ASSUME NEW t \in Threads
      PROVE  \/ \E c \in CPUs : t \in {current[c], next[c]} \cup Range(rq[c])
             \/ status[t] = "WAITING" /\ \E q \in want[t] : t \in Range(wq[q])
             \/ \E a \in Actors : woken[a] = t
    BY SMTT(30), Types, InvParts DEF Placed
<1> QED
    BY <1>1 DEF NeverForgotten

LEMMA InvNoSchedulerError == ASSUME Inv PROVE NoSchedulerError
<1>1. \A c \in CPUs : \A t \in Range(rq[c]) : t \in Threads /\ c = curCpu[t]
    <2>1. \A c \in CPUs : \A t \in Range(rq[c]) : t \in Threads
        BY QueueThreads
    <2> QED
        BY <2>1, InvParts DEF Local
<1>2. ASSUME NEW c \in CPUs, NEW t \in Threads, current[c] = t, rt[t] = "SLEEPING",
             pc[t] \in {"release", "back"}
      PROVE  next[c] # NoThread
    <2>1. c = curCpu[t]
        BY <1>2, InvParts DEF Local
    <2>2. status[t] = "WAITING" \/ \E a \in Actors : woken[a] = t
        BY <1>2, InvParts DEF Announced
    <2>3. status[t] = "WAITING" \/ status[t] = "SUSPENDED"
        BY <2>2, InvParts DEF InHand
    <2>4. /\ status[t] = "SUSPENDED" => (current[curCpu[t]] = t => next[curCpu[t]] # NoThread)
          /\ status[t] = "WAITING" =>
                 \/ pc[t] \in {"special", "pass"}
                 \/ current[curCpu[t]] = t => next[curCpu[t]] # NoThread
        BY InvParts DEF Placed
    <2> QED
        BY <1>2, <2>1, <2>3, <2>4
<1> QED
    BY SMTT(30), <1>1, <1>2, InvParts DEF Placed, NoSchedulerError

LEMMA StutterInv == ASSUME Inv, UNCHANGED vars PROVE Inv'
<1>1. UNCHANGED <<status, rt, curCpu, rq, current, next, wq, wqLock, cond, pc, op, want, woken>>
    BY DEF vars, schedVars, queueVars, localVars
<1>2. TypeOK'
    BY <1>1, InvParts DEF TypeOK
<1>3. Local'
    BY <1>1, InvParts DEF Local
<1>4. QueuesInjective'
    BY <1>1, InvParts DEF QueuesInjective
<1>5. Placed'
    BY SMTT(30), <1>1, InvParts DEF Placed
<1>6. InHand'
    BY SMTT(30), <1>1, InvParts DEF InHand
<1>7. Busy'
    BY <1>1, InvParts DEF Busy
<1>8. Queued'
    BY <1>1, InvParts DEF Queued, Several
<1>9. Locks'
    BY <1>1, InvParts DEF Locks
<1>10. Announced'
    BY <1>1, InvParts DEF Announced
<1> QED
    BY <1>2, <1>3, <1>4, <1>5, <1>6, <1>7, <1>8, <1>9, <1>10 DEF Inv

\* What a waker has in hand, when no thread changes its CPU.
LEMMA InHandStep ==
    ASSUME curCpu' = curCpu,
           \A b \in Actors : woken'[b] \in Threads <=> pc'[b] = "awaken",
           \A b \in Actors, u \in Threads : woken'[b] = u =>
               /\ status'[u] = "SUSPENDED" /\ u \notin Range(rq'[curCpu[u]])
               /\ pc'[u] \in {"release", "back"}
               /\ \A d \in Actors : woken'[d] = u => b = d
    PROVE  InHand'
BY DEF InHand

\* Thread u stays where it is,
StaysPut(u) ==
    /\ status'[u] = status[u]
    /\ u \in Range(rq'[curCpu[u]]) <=> u \in Range(rq[curCpu[u]])
    /\ (\E b \in Actors : woken[b] = u) => \E b \in Actors : woken'[b] = u
    /\ status[u] = "WAITING" =>
           /\ pc'[u] = pc[u]
           /\ \A q \in Queues : u \in Range(wq[q]) => u \in Range(wq'[q])

\* or is made ready, in a waker's hands or on its run queue.
IsReadied(t) ==
    /\ status'[t] = "SUSPENDED" /\ t # next[curCpu[t]]
    /\ current[curCpu[t]] = t => next[curCpu[t]] # NoThread
    /\ t \in Range(rq'[curCpu[t]]) \/ \E b \in Actors : woken'[b] = t

\* Every thread stays placed when at most one, t, is made ready.
LEMMA PlacedMoved ==
    ASSUME Inv, NEW t, curCpu' = curCpu, current' = current, next' = next, op' = op, want' = want,
           \A u \in Threads : u # t => StaysPut(u),
           t \in Threads => IsReadied(t)
    PROVE  Placed'
<1> USE DEF StaysPut, IsReadied
<1>1. ASSUME NEW u \in Threads, u # t, status[u] = "WAITING"
      PROVE  /\ op[u] = "sleep" /\ want[u] # {} /\ \A q \in want[u] : u \in Range(wq'[q])
             /\ \/ pc'[u] \in {"special", "pass"}
                \/ /\ pc'[u] \in {"release", "back"}
                   /\ current[curCpu[u]] = u => next[curCpu[u]] # NoThread
    <2>1. \A q \in want[u] : q \in Queues
        BY Distinct, Types
    <2>2. /\ op[u] = "sleep" /\ want[u] # {} /\ \A q \in want[u] : u \in Range(wq[q])
          /\ \/ pc[u] \in {"special", "pass"}
             \/ /\ pc[u] \in {"release", "back"}
                /\ current[curCpu[u]] = u => next[curCpu[u]] # NoThread
        BY <1>1, InvParts DEF Placed
    <2> QED
        BY <1>1, <2>1, <2>2
<1>2. \A u \in Threads :
          /\ status[u] = "RUNNING" =>
                 /\ \/ next[curCpu[u]] = u
                    \/ current[curCpu[u]] = u /\ next[curCpu[u]] = NoThread
                 /\ u \notin Range(rq[curCpu[u]])
          /\ status[u] = "SUSPENDED" =>
                 /\ u # next[curCpu[u]]
                 /\ current[curCpu[u]] = u => next[curCpu[u]] # NoThread
                 /\ u \in Range(rq[curCpu[u]]) \/ \E a \in Actors : woken[a] = u
          /\ status[u] = "WAITING" => u \notin Range(rq[curCpu[u]]) /\ u # next[curCpu[u]]
    BY InvParts DEF Placed
<1> QED
    BY SMTT(30), <1>1, <1>2 DEF Placed

\* The locks are still whose they were when only actor a does something, with locks
\* that no other has, and is then no sleeper and, if a waker, one with its lock.
LEMMA LocksKept ==
    ASSUME Inv, NEW a \in Actors,
           \A b \in Actors : b # a => pc'[b] = pc[b] /\ op'[b] = op[b] /\ want'[b] = want[b],
           \A b \in Actors, q \in Queues : b # a /\ wqLock[q] = b => wqLock'[q] = b,
           pc'[a] \notin {"lock", "check", "remove", "special", "pass"},
           pc'[a] \in {"dequeue", "awaken", "wunlock"} => \A q \in want'[a] : wqLock'[q] = a,
           pc'[a] \in {"wlock", "dequeue", "awaken", "wunlock"} =>
               op'[a] \in WakeOps /\ \E q \in Queues : want'[a] = {q}
    PROVE  Locks'
<1>1. \A b \in Actors : \A q \in want[b] : q \in Queues
    BY Types
<1>2. ASSUME NEW t \in Threads
      PROVE  /\ \/ pc'[t] \in {"check", "remove"}
                \/ pc'[t] \in {"special", "pass"} /\ op'[t] = "sleep"
             => \A q \in want'[t] : wqLock'[q] = t
    <2>1. CASE t = a
        BY <2>1
    <2>2. CASE t # a
        <3>1. t \in Actors /\ pc'[t] = pc[t] /\ op'[t] = op[t] /\ want'[t] = want[t]
            BY <2>2, Distinct
        <3>2. /\ \/ pc[t] \in {"check", "remove"}
                 \/ pc[t] \in {"special", "pass"} /\ op[t] = "sleep"
              => \A q \in want[t] : wqLock[q] = t
            BY InvParts DEF Locks
        <3> QED BY <1>1, <2>2, <3>1, <3>2
    <2> QED BY <2>1, <2>2
<1>3. ASSUME NEW t \in Threads
      PROVE  /\ pc'[t] \in {"special", "pass"} => op'[t] \in {"yield", "sleep"}
             /\ pc'[t] \in {"lock", "check"} => op'[t] = "sleep" /\ want'[t] # {}
    <2>1. CASE t = a
        BY <2>1
    <2>2. CASE t # a
        BY <2>2, Distinct, InvParts DEF Locks
    <2> QED BY <2>1, <2>2
<1>4. ASSUME NEW b \in Actors
      PROVE  /\ pc'[b] \in {"dequeue", "awaken", "wunlock"} => \A q \in want'[b] : wqLock'[q] = b
             /\ pc'[b] \in {"wlock", "dequeue", "awaken", "wunlock"} =>
                    op'[b] \in WakeOps /\ \E q \in Queues : want'[b] = {q}
    <2>1. CASE b = a
        BY <2>1
    <2>2. CASE b # a
        <3>1. /\ pc[b] \in {"dequeue", "awaken", "wunlock"} => \A q \in want[b] : wqLock[q] = b
              /\ pc[b] \in {"wlock", "dequeue", "awaken", "wunlock"} =>
                     op[b] \in WakeOps /\ \E q \in Queues : want[b] = {q}
            BY InvParts DEF Locks
        <3> QED BY <1>1, <2>2, <3>1
    <2> QED BY <2>1, <2>2
<1> QED
    BY <1>2, <1>3, <1>4 DEF Locks

\* A thread that executes has its CPU, is on no run queue and in no waker's
\* hands.
LEMMA ActiveFacts ==
    ASSUME Inv, NEW t \in Threads, Active(t)
    PROVE  /\ t \notin CPUs /\ t \in Actors
           /\ curCpu[t] \in CPUs
           /\ current[curCpu[t]] = t /\ next[curCpu[t]] = NoThread
           /\ pc[curCpu[t]] = "off"
           /\ status[t] # "SUSPENDED"
           /\ t \notin Range(rq[curCpu[t]])
           /\ \A a \in Actors : woken[a] # t
           /\ status[t] = "WAITING" => pc[t] \in {"special", "pass"}
<1>1. t \notin CPUs /\ t \in Actors /\ curCpu[t] \in CPUs
    BY Distinct, Types
<1>2. PICK c \in CPUs : Executes(t, c)
    BY <1>1 DEF Active
<1>3. c = curCpu[t]
    BY <1>2, InvParts DEF Executes, Local
<1>4. current[curCpu[t]] = t /\ next[curCpu[t]] = NoThread /\ pc[curCpu[t]] = "off"
    BY <1>2, <1>3 DEF Executes
<1>5. status[t] # "SUSPENDED"
    BY <1>1, <1>4, InvParts DEF Placed
<1>6. t \notin Range(rq[curCpu[t]])
    BY SMTT(30), <1>5, InvParts DEF TypeOK, Placed
<1>7. \A a \in Actors : woken[a] # t
    BY <1>5, InvParts DEF InHand
<1>8. status[t] = "WAITING" => pc[t] \in {"special", "pass"}
    BY <1>4, InvParts DEF Placed
<1> QED
    BY <1>1, <1>4, <1>5, <1>6, <1>7, <1>8

\* The threads in the hands of wakers stay there when an actor t, in no
\* waker's hands, takes a step that changes no status and no run queue.
LEMMA InHandUnmoved ==
    ASSUME Inv, NEW t \in Actors, \A a \in Actors : woken[a] # t,
           status' = status, curCpu' = curCpu, rq' = rq, woken' = woken,
           \A a \in Actors : a # t => pc'[a] = pc[a],
           pc[t] # "awaken", pc'[t] # "awaken"
    PROVE  InHand'
<1> USE Distinct, Types
<1>1. ASSUME NEW b \in Actors, NEW u \in Threads, woken[b] = u
      PROVE  /\ status[u] = "SUSPENDED" /\ u \notin Range(rq[curCpu[u]])
             /\ pc'[u] \in {"release", "back"}
             /\ \A d \in Actors : woken[d] = u => b = d
    BY <1>1, InvParts DEF InHand
<1>2. \A b \in Actors : woken[b] \in Threads <=> pc'[b] = "awaken"
    BY InvParts DEF InHand
<1> QED
    BY SMTT(30), <1>1, <1>2 DEF InHand

\* The same, for a thread.
LEMMA InHandKept ==
    ASSUME Inv, NEW t \in Threads, \A a \in Actors : woken[a] # t,
           status' = status, curCpu' = curCpu, rq' = rq, woken' = woken,
           \A a \in Actors : a # t => pc'[a] = pc[a],
           pc[t] # "awaken", pc'[t] # "awaken"
    PROVE  InHand'
BY InHandUnmoved, Distinct

\* A thread t that executes keeps its CPU, and so does every other thread,
\* through a step that moves nothing on any CPU.
LEMMA BusyKept ==
    ASSUME Inv, NEW t \in Threads, Active(t), pc'[t] # "off",
           curCpu' = curCpu, current' = current, next' = next,
           \A a \in Actors : a # t => pc'[a] = pc[a]
    PROVE  Busy'
<1>1. \A u \in Threads : curCpu[u] \in CPUs /\ curCpu[u] # t
    BY Distinct, Types
<1>2. \A c \in CPUs : pc'[c] = pc[c]
    BY Distinct
<1>3. pc'[t] # "off" /\ current[curCpu[t]] = t /\ pc'[curCpu[t]] = "off"
      /\ next[curCpu[t]] = NoThread
    BY <1>1, <1>2, ActiveFacts
<1>4. \A u \in Threads : u # t => pc'[u] = pc[u] /\ pc'[curCpu[u]] = pc[curCpu[u]]
    BY <1>1, <1>2, Distinct
<1> QED
    BY <1>1, <1>2, <1>3, <1>4, InvParts DEF Busy

\* What is announced stays so through a step of a thread t that has announced
\* nothing.
LEMMA AnnouncedKept ==
    ASSUME Inv, NEW t \in Actors,
           rt' = rt, woken' = woken, pc[t] \notin {"pass", "release", "back"}, pc'[t] # "pass",
           \A u \in Threads : u # t => /\ status'[u] = status[u]
                                       /\ pc'[u] = pc[u] /\ op'[u] = op[u]
    PROVE  Announced'
<1>1. ASSUME NEW u \in Threads, rt[u] = "SLEEPING"
      PROVE  \/ pc'[u] = "pass"
             \/ /\ pc'[u] \in {"release", "back"}
                /\ status'[u] = "WAITING" \/ \E b \in Actors : woken[b] = u
    <2>1. \/ pc[u] = "pass"
          \/ /\ pc[u] \in {"release", "back"}
             /\ status[u] = "WAITING" \/ \E b \in Actors : woken[b] = u
        BY <1>1, InvParts DEF Announced
    <2>2. u # t
        BY <2>1
    <2> QED BY <2>1, <2>2
<1>2. \A u \in Threads : pc'[u] = "pass" => (rt[u] = "SLEEPING" <=> op'[u] = "sleep")
    BY InvParts DEF Announced
<1> QED
    BY SMTT(30), <1>1, <1>2 DEF Announced

\* The same when actor a has made thread t runnable, which was announced before.
Announces(a, t) ==
    /\ pc[t] # "pass" /\ rt'[t] # "SLEEPING"
    /\ pc[a] \notin {"pass", "release", "back"} /\ pc'[a] # "pass" /\ op' = op
    /\ \A u \in Threads : status'[u] = status[u] /\ (u # a => pc'[u] = pc[u])
    /\ \A u \in Threads : u # t =>
           /\ rt'[u] = rt[u]
           /\ (\E b \in Actors : woken[b] = u) => \E b \in Actors : woken'[b] = u

LEMMA AnnouncedReady ==
    ASSUME Inv, NEW a \in Actors, NEW t \in Threads, Announces(a, t)
    PROVE  Announced'
<1> USE DEF Announces
<1>1. ASSUME NEW u \in Threads, rt'[u] = "SLEEPING"
      PROVE  \/ pc'[u] = "pass"
             \/ /\ pc'[u] \in {"release", "back"}
                /\ status'[u] = "WAITING" \/ \E b \in Actors : woken'[b] = u
    <2>1. u # t /\ rt[u] = "SLEEPING"
        BY <1>1
    <2>2. \/ pc[u] = "pass"
          \/ /\ pc[u] \in {"release", "back"}
             /\ status[u] = "WAITING" \/ \E b \in Actors : woken[b] = u
        BY <2>1, InvParts DEF Announced
    <2>3. pc'[u] = pc[u] /\ status'[u] = status[u]
        BY <2>2
    <2> QED BY <2>1, <2>2, <2>3
<1>2. ASSUME NEW u \in Threads, pc'[u] = "pass"
      PROVE  rt'[u] = "SLEEPING" <=> op'[u] = "sleep"
    <2>1. pc[u] = "pass" /\ u # t
        BY <1>2
    <2>2. rt[u] = "SLEEPING" <=> op[u] = "sleep"
        BY <2>1, InvParts DEF Announced
    <2> QED BY <2>1, <2>2
<1> QED
    BY <1>1, <1>2 DEF Announced

\* A step of actor a within, into or out of a wake operation leaves every
\* thread its CPU.
LEMMA WakerBusy ==
    ASSUME Inv, NEW a \in Actors,
           curCpu' = curCpu, current' = current, next' = next,
           \A b \in Actors : b # a => pc'[b] = pc[b],
           a \in Threads => Active(a) /\ pc'[a] # "off",
           a \in CPUs => /\ pc'[a] \in {"off", "wlock", "dequeue", "awaken", "wunlock"}
                         /\ pc[a] # "off" \/ IrqsOn(a)
    PROVE  Busy'
<1> USE Distinct, Types
<1>1. CASE a \in Threads
    BY <1>1, BusyKept
<1>2. CASE a \in CPUs
    <2>1. \A t \in Threads : pc[t] \notin {"run", "back"} => curCpu[t] # a
        <3>1. \A t \in Threads : pc[t] # "put"
            BY InvParts DEF TypeOK
        <3> QED
            BY SMTT(30), <1>2, <3>1, InvParts DEF Busy, IrqsOn
    <2> QED
        BY SMTT(30), <1>2, <2>1, InvParts DEF Busy
<1> QED
    BY <1>1, <1>2

\* Every thread stays placed when a running thread t, which has its CPU, takes
\* a step that moves no thread and takes no other thread off a wait queue.
LEMMA PlacedKept ==
    ASSUME Inv, NEW t \in Threads, status[t] = "RUNNING",
           status' = status, curCpu' = curCpu, rq' = rq, current' = current, next' = next,
           woken' = woken,
           \A u \in Threads : u # t => pc'[u] = pc[u] /\ op'[u] = op[u] /\ want'[u] = want[u],
           \A u \in Threads, q \in Queues :
               u # t /\ u \in Range(wq[q]) => u \in Range(wq'[q])
    PROVE  Placed'
<1>1. ASSUME NEW u \in Threads, status[u] = "WAITING"
      PROVE  /\ u \notin Range(rq[curCpu[u]]) /\ u # next[curCpu[u]]
             /\ op'[u] = "sleep" /\ want'[u] # {}
             /\ \A q \in want'[u] : u \in Range(wq'[q])
             /\ \/ pc'[u] \in {"special", "pass"}
                \/ /\ pc'[u] \in {"release", "back"}
                   /\ current[curCpu[u]] = u => next[curCpu[u]] # NoThread
    <2>1. u # t /\ \A q \in want[u] : q \in Queues
        BY <1>1, Distinct, Types
    <2>2. /\ u \notin Range(rq[curCpu[u]]) /\ u # next[curCpu[u]]
          /\ op[u] = "sleep" /\ want[u] # {} /\ \A q \in want[u] : u \in Range(wq[q])
          /\ \/ pc[u] \in {"special", "pass"}
             \/ /\ pc[u] \in {"release", "back"}
                /\ current[curCpu[u]] = u => next[curCpu[u]] # NoThread
        BY <1>1, InvParts DEF Placed
    <2> QED
        BY <2>1, <2>2
<1>2. \A u \in Threads :
          /\ status[u] = "RUNNING" =>
                 /\ \/ next[curCpu[u]] = u
                    \/ current[curCpu[u]] = u /\ next[curCpu[u]] = NoThread
                 /\ u \notin Range(rq[curCpu[u]])
          /\ status[u] = "SUSPENDED" =>
                 /\ u # next[curCpu[u]]
                 /\ current[curCpu[u]] = u => next[curCpu[u]] # NoThread
                 /\ u \in Range(rq[curCpu[u]]) \/ \E a \in Actors : woken[a] = u
    BY InvParts DEF Placed
<1> QED
    BY SMTT(30), <1>1, <1>2 DEF Placed

\* A step that only changes where actor a is in its own operation, between
\* states in which a thread is on no queue, leaves the scheduler's part of the
\* invariant alone.
LEMMA QuietStep ==
    ASSUME Inv, NEW a \in Actors,
           UNCHANGED <<status, rt, curCpu, rq, current, next, wq, woken>>,
           \A b \in Actors : b # a => pc'[b] = pc[b] /\ op'[b] = op[b] /\ want'[b] = want[b],
           pc[a] # "awaken", pc'[a] \notin {"awaken", "pass"},
           pc'[a] = "special" => op'[a] = "yield",
           a \in Threads => /\ Active(a)
                            /\ pc[a] \notin {"special", "pass", "release", "back", "relock", "remove"}
    PROVE  Local' /\ Placed' /\ InHand' /\ Queued' /\ Announced' /\ QueuesInjective'
<1> USE Distinct, Types
<1>1. /\ curCpu' = curCpu /\ rq' = rq /\ current' = current /\ next' = next
      /\ status' = status /\ rt' = rt /\ wq' = wq /\ woken' = woken
    OBVIOUS
<1>2. Local' /\ QueuesInjective'
    BY SMTT(30), <1>1, InvParts DEF Local, QueuesInjective
<1>3. a \in Threads => /\ status[a] = "RUNNING" /\ \A b \in Actors : woken[b] # a
                       /\ \A q \in Queues : a \notin Range(wq[q])
                       /\ rt[a] # "SLEEPING"
    BY ActiveFacts, InvParts DEF TypeOK, Queued, Announced
<1>4. Placed'
    BY SMTT(30), <1>1, <1>3, InvParts DEF Placed
<1>5. InHand'
    <2>1. ASSUME NEW b \in Actors, NEW u \in Threads, woken[b] = u
          PROVE  /\ status[u] = "SUSPENDED" /\ u \notin Range(rq[curCpu[u]])
                 /\ pc'[u] \in {"release", "back"}
                 /\ \A d \in Actors : woken[d] = u => b = d
        <3>1. /\ status[u] = "SUSPENDED" /\ u \notin Range(rq[curCpu[u]])
              /\ pc[u] \in {"release", "back"}
              /\ \A d \in Actors : woken[d] = u => b = d
            BY <2>1, InvParts DEF InHand
        <3> QED BY <1>3, <2>1, <3>1
    <2>2. \A b \in Actors : woken[b] \in Threads <=> pc'[b] = "awaken"
        BY InvParts DEF InHand
    <2> QED
        BY SMTT(30), <1>1, <2>1, <2>2 DEF InHand
<1>6. Queued'
    BY SMTT(30), <1>1, <1>3, InvParts DEF Queued, Several
<1>7. Announced'
    BY SMTT(30), <1>1, <1>3, InvParts DEF Announced
<1> QED
    BY <1>2, <1>4, <1>5, <1>6, <1>7

-----------------------------------------------------------------------------
(* The scheduling pass *)

\* The current thread goes back on the run queue unless it goes to sleep.
Requeued(c) == IF current[c] \in Threads /\ rt[current[c]] # "SLEEPING" THEN {current[c]} ELSE {}

\* Thread n is chosen from the run queue and the current thread.
LEMMA PassFacts ==
    ASSUME Inv, NEW c \in CPUs, next[c] = NoThread, NeedResched(c),
           \A t \in Requeued(c) : status[t] = "RUNNING"
    PROVE  \E n \in Threads \cup {Idle} :
               /\ \/ n \in Range(rq[c]) \cup Requeued(c)
                  \/ n = Idle /\ Range(rq[c]) \cup Requeued(c) = {}
               /\ rq' \in [CPUs -> Seq(Threads)] /\ IsInjective(rq'[c])
               /\ Range(rq'[c]) = (Range(rq[c]) \cup Requeued(c)) \ {n}
               /\ status' \in [Threads -> {"RUNNING", "SUSPENDED", "WAITING"}]
               /\ \A u \in Threads :
                      status'[u] = IF u = n THEN "RUNNING"
                                   ELSE IF u \in Requeued(c) THEN "SUSPENDED" ELSE status[u]
               /\ next' \in [CPUs -> Threads \cup {Idle, NoThread}]
               /\ next'[c] = IF n = current[c] THEN NoThread ELSE n
               /\ \A d \in CPUs : d # c => rq'[d] = rq[d] /\ next'[d] = next[d]
               /\ rt' = rt /\ curCpu' = curCpu /\ current' = current
<1> USE Distinct, Types, QueueTypes
<1> DEFINE t == current[c]
           queue == IF Requeued(c) = {} THEN rq[c] ELSE Append(rq[c], t)
           stat == IF Requeued(c) = {} THEN status ELSE [status EXCEPT ![t] = "SUSPENDED"]
           n == IF queue = <<>> THEN Idle ELSE Head(queue)
<1>1. Choose(c, queue, stat)
    BY DEF NeedResched, Requeued
<1>2. t \in Threads \cup {Idle} /\ Requeued(c) \subseteq {t} /\ Requeued(c) \subseteq Threads
    BY InvParts DEF Requeued, TypeOK
<1>3. \A u \in Range(rq[c]) : u \in Threads /\ c = curCpu[u] /\ status[u] = "SUSPENDED"
    <2>1. \A u \in Range(rq[c]) : u \in Threads
        BY SMTT(30) DEF Range
    <2> QED
        BY SMTT(30), <2>1, InvParts DEF Local, Placed
<1>4. /\ queue \in Seq(Threads) /\ IsInjective(queue)
      /\ Range(queue) = Range(rq[c]) \cup Requeued(c)
    <2>1. CASE Requeued(c) = {}
        BY <2>1, InvParts DEF QueuesInjective
    <2>2. CASE Requeued(c) # {}
        <3>1. t \in Threads /\ Requeued(c) = {t} /\ status[t] = "RUNNING"
            BY <1>2, <2>2
        <3>2. t \notin Range(rq[c])
            BY <1>3, <3>1
        <3> QED
            BY <2>2, <3>1, <3>2, AppendFacts, InvParts DEF QueuesInjective
    <2> QED
        BY <2>1, <2>2
<1>5. /\ stat \in [Threads -> {"RUNNING", "SUSPENDED", "WAITING"}]
      /\ \A u \in Threads : stat[u] = IF u \in Requeued(c) THEN "SUSPENDED" ELSE status[u]
    BY SMTT(30), <1>2, InvParts DEF TypeOK
<1> HIDE DEF queue, stat
<1>6. CASE queue = <<>>
    <2>1. Range(rq[c]) \cup Requeued(c) = {}
        BY SMTT(30), <1>4, <1>6 DEF Range
    <2>2. n = Idle
        BY <1>6
    <2>3. rq' = [rq EXCEPT ![c] = queue] /\ status' = stat
          /\ next' = [next EXCEPT ![c] = IF Idle = current[c] THEN NoThread ELSE Idle]
          /\ rt' = rt /\ curCpu' = curCpu /\ current' = current
        BY <1>1, <1>6 DEF Choose
    <2>4. /\ rq' \in [CPUs -> Seq(Threads)] /\ rq'[c] = queue
          /\ next' \in [CPUs -> Threads \cup {Idle, NoThread}]
          /\ next'[c] = IF Idle = current[c] THEN NoThread ELSE Idle
          /\ \A d \in CPUs : d # c => rq'[d] = rq[d] /\ next'[d] = next[d]
        BY <1>4, <2>3, InvParts DEF TypeOK
    <2> WITNESS Idle \in Threads \cup {Idle}
    <2> QED
        BY <1>4, <1>5, <2>1, <2>3, <2>4
<1>7. CASE queue # <<>>
    <2>1. n = Head(queue)
        BY <1>7
    <2>2. /\ n \in Threads /\ n \in Range(queue) /\ Tail(queue) \in Seq(Threads)
          /\ Range(Tail(queue)) = Range(queue) \ {n} /\ IsInjective(Tail(queue))
        BY <1>4, <1>7, <2>1, HeadFacts
    <2>3. stat[n] # "WAITING"
        BY <1>3, <1>4, <1>5, <2>2
    <2>4. /\ rq' = [rq EXCEPT ![c] = Tail(queue)]
          /\ status' = [stat EXCEPT ![n] = "RUNNING"]
          /\ next' = [next EXCEPT ![c] = IF n = current[c] THEN NoThread ELSE n]
          /\ rt' = rt /\ curCpu' = curCpu /\ current' = current
        BY <1>1, <1>7, <2>1, <2>2, <2>3 DEF Choose
    <2> HIDE DEF n
    <2>5. \A u \in Threads :
              status'[u] = IF u = n THEN "RUNNING"
                           ELSE IF u \in Requeued(c) THEN "SUSPENDED" ELSE status[u]
        BY <1>5, <2>2, <2>4
    <2>6. /\ rq' \in [CPUs -> Seq(Threads)] /\ rq'[c] = Tail(queue)
          /\ status' \in [Threads -> {"RUNNING", "SUSPENDED", "WAITING"}]
          /\ next' \in [CPUs -> Threads \cup {Idle, NoThread}]
          /\ next'[c] = IF n = current[c] THEN NoThread ELSE n
          /\ \A d \in CPUs : d # c => rq'[d] = rq[d] /\ next'[d] = next[d]
        BY SMTT(30), <1>5, <2>2, <2>4, InvParts DEF TypeOK
    <2>7. n \in Threads \cup {Idle}
        BY <2>2
    <2> WITNESS n \in Threads \cup {Idle}
    <2> QED
        BY <1>4, <2>2, <2>4, <2>5, <2>6
<1> QED
    BY <1>6, <1>7
\* The pass as such keeps the invariant, whether it ends an interrupt (the
\* thread is at "run") or belongs to a special switch (it is at "pass").
LEMMA PassInv ==
    ASSUME Inv, NEW c \in CPUs, next[c] = NoThread, NeedResched(c), pc[c] = "off",
           NEW t, current[c] = t,
           wq' = wq, wqLock' = wqLock, op' = op, want' = want, woken' = woken,
           \A a \in Actors : a # t => pc'[a] = pc[a],
           t \in Threads => \/ pc[t] = "run" /\ pc'[t] = "run"
                            \/ pc[t] = "pass" /\ pc'[t] \in {"release", "back"}
    PROVE  Local' /\ Placed' /\ InHand' /\ Busy' /\ Queued' /\ Locks' /\ Announced'
           /\ QueuesInjective'
           /\ status' \in [Threads -> {"RUNNING", "SUSPENDED", "WAITING"}]
           /\ rq' \in [CPUs -> Seq(Threads)]
           /\ next' \in [CPUs -> Threads \cup {Idle, NoThread}]
           /\ rt' = rt /\ curCpu' = curCpu /\ current' = current
<1> USE Distinct, Types
<1>1. /\ t \in Threads \cup {Idle}
      /\ t \in Threads => c = curCpu[t] /\ status[t] \in {"RUNNING", "WAITING"}
      /\ t \in Threads => t \notin Range(rq[c]) /\ \A a \in Actors : woken[a] # t
      /\ t \in Threads => (status[t] = "WAITING" <=> rt[t] = "SLEEPING")
    <2>1. t \in Threads \cup {Idle}
        BY InvParts DEF TypeOK
    <2>2. t \in Threads => c = curCpu[t]
        BY InvParts DEF Local
    <2>3. t \in Threads => status[t] \in {"RUNNING", "WAITING"}
        BY <2>2, InvParts DEF Placed
    <2>4. t \in Threads => t \notin Range(rq[c]) /\ \A a \in Actors : woken[a] # t
        <3>1. t \in Threads => t \notin Range(rq[curCpu[t]])
            BY <2>3, InvParts DEF Placed
        <3>2. t \in Threads => \A a \in Actors : woken[a] # t
            BY <2>3, InvParts DEF InHand
        <3> QED BY <2>2, <3>1, <3>2
    <2>5. ASSUME t \in Threads, status[t] = "WAITING" PROVE rt[t] = "SLEEPING"
        <3>1. pc[t] = "pass" /\ op[t] = "sleep"
            BY <2>5, InvParts DEF Placed
        <3> QED BY <2>5, <3>1, InvParts DEF Announced
    <2>6. ASSUME t \in Threads, rt[t] = "SLEEPING" PROVE status[t] = "WAITING"
        <3>1. pc[t] = "pass" /\ op[t] = "sleep"
            BY <2>6, InvParts DEF Announced
        <3> QED BY <2>6, <3>1, InvParts DEF Queued
    <2> QED
        BY <2>1, <2>2, <2>3, <2>4, <2>5, <2>6
<1>2. /\ Requeued(c) \subseteq {t} /\ Requeued(c) \subseteq Threads
      /\ t \in Threads /\ t \notin Requeued(c) => status[t] = "WAITING"
      /\ \A u \in Requeued(c) : status[u] = "RUNNING"
    BY <1>1 DEF Requeued
<1>3. PICK n \in Threads \cup {Idle} :
          /\ \/ n \in Range(rq[c]) \cup Requeued(c)
             \/ n = Idle /\ Range(rq[c]) \cup Requeued(c) = {}
          /\ rq' \in [CPUs -> Seq(Threads)] /\ IsInjective(rq'[c])
          /\ Range(rq'[c]) = (Range(rq[c]) \cup Requeued(c)) \ {n}
          /\ status' \in [Threads -> {"RUNNING", "SUSPENDED", "WAITING"}]
          /\ \A u \in Threads :
                 status'[u] = IF u = n THEN "RUNNING"
                              ELSE IF u \in Requeued(c) THEN "SUSPENDED" ELSE status[u]
          /\ next' \in [CPUs -> Threads \cup {Idle, NoThread}]
          /\ next'[c] = IF n = current[c] THEN NoThread ELSE n
          /\ \A d \in CPUs : d # c => rq'[d] = rq[d] /\ next'[d] = next[d]
          /\ rt' = rt /\ curCpu' = curCpu /\ current' = current
    BY <1>2, PassFacts
<1>same. /\ rt' = rt /\ curCpu' = curCpu /\ current' = current
         /\ \A d \in CPUs : d # c => rq'[d] = rq[d] /\ next'[d] = next[d]
    BY <1>3
<1>next. next'[c] = IF n = t THEN NoThread ELSE n
    BY <1>3
<1>range. Range(rq'[c]) = (Range(rq[c]) \cup Requeued(c)) \ {n}
    BY <1>3
<1>4. n \in Threads => /\ n = t \/ n \in Range(rq[c])
                       /\ c = curCpu[n] /\ status[n] # "WAITING"
                       /\ \A a \in Actors : woken[a] # n
    <2>1. ASSUME n \in Threads, n \in Range(rq[c])
          PROVE  c = curCpu[n] /\ status[n] # "WAITING" /\ \A a \in Actors : woken[a] # n
        <3>1. c = curCpu[n]
            BY <2>1, InvParts DEF Local
        <3>2. status[n] # "WAITING"
            BY <2>1, <3>1, InvParts DEF Placed
        <3>3. \A a \in Actors : woken[a] # n
            BY <2>1, <3>1, InvParts DEF InHand
        <3> QED
            BY <3>1, <3>2, <3>3
    <2> QED
        BY SMTT(30), <1>1, <1>2, <1>3, <2>1
<1>status. /\ n \in Threads => status'[n] = "RUNNING"
           /\ \A u \in Threads : u \in Requeued(c) /\ u # n => status'[u] = "SUSPENDED"
           /\ \A u \in Threads : u \notin Requeued(c) /\ u # n => status'[u] = status[u]
    BY <1>3
<1>5. Local' /\ QueuesInjective'
    <2>1. QueuesInjective'
        BY <1>3, InvParts DEF QueuesInjective
    <2>2. ASSUME NEW u \in Threads, NEW d \in CPUs,
                 u = current[d] \/ u = next'[d] \/ u \in Range(rq'[d])
          PROVE  d = curCpu[u]
        <3>1. CASE d # c
            BY SMTT(30), <1>same, <2>2, <3>1, InvParts DEF Local
        <3>2. CASE d = c
            <4>1. u = t \/ u = n \/ u \in Range(rq[c])
                BY <1>2, <1>next, <1>range, <2>2, <3>2
            <4> QED
                BY <1>1, <1>4, <3>2, <4>1, InvParts DEF Local
        <3> QED
            BY <3>1, <3>2
    <2> QED
        BY <1>same, <2>1, <2>2 DEF Local
<1>6. ASSUME NEW u \in Threads, u # n, u # t
      PROVE  /\ status'[u] = status[u] /\ pc'[u] = pc[u]
             /\ u \in Range(rq'[curCpu[u]]) <=> u \in Range(rq[curCpu[u]])
             /\ u = next'[curCpu[u]] <=> u = next[curCpu[u]]
             /\ current[curCpu[u]] = u => next'[curCpu[u]] = next[curCpu[u]]
    <2>1. status'[u] = status[u] /\ pc'[u] = pc[u]
        BY <1>2, <1>status, <1>6
    <2>2. CASE curCpu[u] = c
        <3>1. u \in Range(rq'[c]) <=> u \in Range(rq[c])
            BY <1>2, <1>range, <1>6
        <3>2. u # next'[c] /\ u # next[c] /\ current[c] # u
            BY <1>next, <1>6
        <3> QED BY <2>1, <2>2, <3>1, <3>2
    <2>3. CASE curCpu[u] # c
        <3>1. rq'[curCpu[u]] = rq[curCpu[u]] /\ next'[curCpu[u]] = next[curCpu[u]]
            BY <1>same, <2>3
        <3> QED
            BY <2>1, <3>1
    <2> QED
        BY <2>1, <2>2, <2>3
<1>7. Placed'
    <2>1. ASSUME NEW u \in Threads, status'[u] = "RUNNING"
          PROVE  /\ \/ next'[curCpu[u]] = u
                    \/ current[curCpu[u]] = u /\ next'[curCpu[u]] = NoThread
                 /\ u \notin Range(rq'[curCpu[u]])
        <3>1. CASE u = n
            BY <1>1, <1>3, <1>4, <3>1
        <3>2. CASE u # n
            <4>1. u # t
                BY <1>1, <1>2, <1>3, <2>1, <3>2
            <4>2. status[u] = "RUNNING"
                BY <1>6, <2>1, <3>2, <4>1
            <4>3. /\ \/ next[curCpu[u]] = u
                     \/ current[curCpu[u]] = u /\ next[curCpu[u]] = NoThread
                  /\ u \notin Range(rq[curCpu[u]])
                BY <4>2, InvParts DEF Placed
            <4> QED
                BY <1>6, <3>2, <4>1, <4>3
        <3> QED
            BY <3>1, <3>2
    <2>2. ASSUME NEW u \in Threads, status'[u] = "SUSPENDED"
          PROVE  /\ u # next'[curCpu[u]]
                 /\ current[curCpu[u]] = u => next'[curCpu[u]] # NoThread
                 /\ u \in Range(rq'[curCpu[u]]) \/ \E a \in Actors : woken[a] = u
        <3>1. u # n
            BY <1>3, <2>2
        <3>2. CASE u = t
            <4>1. u \in Requeued(c)
                BY <1>2, <1>status, <2>2, <3>1, <3>2
            <4>2. u \in Range(rq'[curCpu[u]]) /\ next'[curCpu[u]] = n
                BY <1>1, <1>next, <1>range, <3>1, <3>2, <4>1
            <4> QED BY <3>1, <4>2
        <3>3. CASE u # t
            <4>1. status[u] = "SUSPENDED"
                BY <1>6, <2>2, <3>1, <3>3
            <4>2. /\ u # next[curCpu[u]]
                  /\ current[curCpu[u]] = u => next[curCpu[u]] # NoThread
                  /\ u \in Range(rq[curCpu[u]]) \/ \E a \in Actors : woken[a] = u
                BY <4>1, InvParts DEF Placed
            <4> QED BY <1>6, <3>1, <3>3, <4>2
        <3> QED
            BY <3>2, <3>3
    <2>3. ASSUME NEW u \in Threads, status'[u] = "WAITING"
          PROVE  /\ u \notin Range(rq'[curCpu[u]]) /\ u # next'[curCpu[u]]
                 /\ op[u] = "sleep" /\ want[u] # {}
                 /\ \A q \in want[u] : u \in Range(wq[q])
                 /\ \/ pc'[u] \in {"special", "pass"}
                    \/ /\ pc'[u] \in {"release", "back"}
                       /\ current[curCpu[u]] = u => next'[curCpu[u]] # NoThread
        <3>1. u # n /\ u \notin Requeued(c) /\ status[u] = "WAITING"
            BY <1>2, <1>3, <2>3
        <3>2. CASE u = t
            <4>1. pc[u] = "pass"
                BY <3>1, <3>2, InvParts DEF Placed
            <4>2. u \notin Range(rq'[curCpu[u]]) /\ next'[curCpu[u]] = n
                BY <1>1, <1>3, <3>1, <3>2
            <4> QED
                BY <1>3, <3>1, <3>2, <4>1, <4>2, InvParts DEF Placed
        <3>3. CASE u # t
            <4>1. /\ u \notin Range(rq[curCpu[u]]) /\ u # next[curCpu[u]]
                  /\ op[u] = "sleep" /\ want[u] # {} /\ \A q \in want[u] : u \in Range(wq[q])
                  /\ \/ pc[u] \in {"special", "pass"}
                     \/ /\ pc[u] \in {"release", "back"}
                        /\ current[curCpu[u]] = u => next[curCpu[u]] # NoThread
                BY <3>1, InvParts DEF Placed
            <4> QED BY <1>6, <3>1, <3>3, <4>1
        <3> QED
            BY <3>2, <3>3
    <2>4. curCpu' = curCpu /\ current' = current /\ woken' = woken
        BY <1>same
    <2>5. \A u \in Threads : status'[u] = "RUNNING" =>
              /\ \/ next'[curCpu'[u]] = u
                 \/ current'[curCpu'[u]] = u /\ next'[curCpu'[u]] = NoThread
              /\ u \notin Range(rq'[curCpu'[u]])
        BY <2>1, <2>4
    <2>6. \A u \in Threads : status'[u] = "SUSPENDED" =>
              /\ u # next'[curCpu'[u]]
              /\ current'[curCpu'[u]] = u => next'[curCpu'[u]] # NoThread
              /\ u \in Range(rq'[curCpu'[u]]) \/ \E a \in Actors : woken'[a] = u
        BY SMTT(30), <2>2, <2>4
    <2>7. \A u \in Threads : status'[u] = "WAITING" =>
              /\ u \notin Range(rq'[curCpu'[u]]) /\ u # next'[curCpu'[u]]
              /\ op'[u] = "sleep" /\ want'[u] # {}
              /\ \A q \in want'[u] : u \in Range(wq'[q])
              /\ \/ pc'[u] \in {"special", "pass"}
                 \/ /\ pc'[u] \in {"release", "back"}
                    /\ current'[curCpu'[u]] = u => next'[curCpu'[u]] # NoThread
        BY <2>3, <2>4
    <2> QED
        BY <2>5, <2>6, <2>7 DEF Placed
<1>8. InHand'
    <2>1. ASSUME NEW b \in Actors, NEW u \in Threads, woken[b] = u
          PROVE  /\ status'[u] = "SUSPENDED" /\ u \notin Range(rq'[curCpu[u]])
                 /\ pc'[u] \in {"release", "back"}
                 /\ \A d \in Actors : woken[d] = u => b = d
        <3>1. u # t /\ u # n
            BY <1>1, <1>4, <2>1
        <3>2. /\ status[u] = "SUSPENDED" /\ u \notin Range(rq[curCpu[u]])
              /\ pc[u] \in {"release", "back"}
              /\ \A d \in Actors : woken[d] = u => b = d
            BY <2>1, InvParts DEF InHand
        <3> QED
            BY <1>6, <3>1, <3>2
    <2>2. \A b \in Actors : woken[b] \in Threads <=> pc'[b] = "awaken"
        BY SMTT(30), <1>1, InvParts DEF InHand
    <2> QED
        BY SMTT(30), <1>same, <2>1, <2>2 DEF InHand
<1>9. Busy'
    <2>1. \A d \in CPUs : pc'[d] = pc[d]
        BY <1>1
    <2>2. ASSUME NEW u \in Threads
          PROVE  /\ pc'[u] # "off"
                 /\ pc'[u] \notin {"run", "back"} =>
                        current[curCpu[u]] = u /\ pc[curCpu[u]] = "off"
                 /\ pc'[u] \notin {"run", "back", "release"} => next'[curCpu[u]] = NoThread
        <3>1. CASE u = t
            BY <1>1, <3>1
        <3>2. CASE u # t
            <4>1. pc'[u] = pc[u]
                BY <3>2
            <4>2. /\ pc[u] # "off"
                  /\ pc[u] \notin {"run", "back"} =>
                         current[curCpu[u]] = u /\ pc[curCpu[u]] = "off"
                  /\ pc[u] \notin {"run", "back", "release"} => next[curCpu[u]] = NoThread
                BY InvParts DEF Busy
            <4>3. pc[u] \notin {"run", "back", "release"} => curCpu[u] # c
                BY <3>2, <4>2
            <4> QED
                BY <1>same, <4>1, <4>2, <4>3
        <3> QED
            BY <3>1, <3>2
    <2>3. \A d \in CPUs : pc'[d] \in {"off", "wlock", "dequeue", "awaken", "wunlock"}
        BY <2>1, InvParts DEF Busy
    <2> QED
        BY SMTT(30), <1>same, <2>1, <2>2, <2>3 DEF Busy
<1>10. Queued'
    <2>1. \A u \in Threads : Several(u)' <=> Several(u)
        BY DEF Several
    <2>2. \A u \in Threads : status[u] = "WAITING" => status'[u] = "WAITING"
        BY <1>2, <1>3, <1>4
    <2>3. \A u \in Threads : u # t => pc'[u] = pc[u]
        OBVIOUS
    <2> QED
        BY <2>1, <2>2, <2>3, InvParts DEF Queued
<1>11. Locks'
    BY SMTT(30), <1>1, InvParts DEF Locks
<1>12. Announced'
    <2>1. ASSUME NEW u \in Threads, rt[u] = "SLEEPING"
          PROVE  \/ pc'[u] = "pass"
                 \/ /\ pc'[u] \in {"release", "back"}
                    /\ status'[u] = "WAITING" \/ \E a \in Actors : woken[a] = u
        <3>1. CASE u = t
            <4>1. status[u] = "WAITING" /\ pc[u] = "pass"
                BY <1>1, <2>1, <3>1, InvParts DEF Announced, Placed
            <4>2. u # n /\ u \notin Requeued(c)
                BY <1>2, <1>4, <4>1
            <4> QED
                BY <1>status, <3>1, <4>1, <4>2
        <3>2. CASE u # t
            <4>1. status[u] = "WAITING" => status'[u] = "WAITING"
                BY <1>2, <1>4, <1>status
            <4>2. \/ pc[u] = "pass"
                  \/ /\ pc[u] \in {"release", "back"}
                     /\ status[u] = "WAITING" \/ \E a \in Actors : woken[a] = u
                BY <2>1, InvParts DEF Announced
            <4> QED
                BY <3>2, <4>1, <4>2
        <3> QED
            BY <3>1, <3>2
    <2>2. \A u \in Threads : pc'[u] = "pass" => (rt[u] = "SLEEPING" <=> op[u] = "sleep")
        <3>1. \A u \in Threads : pc'[u] = "pass" => pc[u] = "pass"
            OBVIOUS
        <3> QED BY <3>1, InvParts DEF Announced
    <2> QED
        BY SMTT(30), <1>same, <2>1, <2>2 DEF Announced
<1> QED
    BY <1>3, <1>5, <1>7, <1>8, <1>9, <1>10, <1>11, <1>12

LEMMA PreemptInv == ASSUME NEW c \in CPUs, Inv, Preempt(c) PROVE Inv'
<1> USE Distinct, Types DEF queueVars, localVars
<1>1. /\ next[c] = NoThread /\ pc[c] = "off" /\ NeedResched(c)
      /\ current[c] \in Threads => pc[current[c]] = "run"
      /\ UNCHANGED <<wq, wqLock, cond, pc, op, want, woken>>
    BY InvParts DEF Preempt, IrqsOn, TypeOK
<1>2. /\ Local' /\ Placed' /\ InHand' /\ Busy' /\ Queued' /\ Locks' /\ Announced'
      /\ QueuesInjective'
      /\ status' \in [Threads -> {"RUNNING", "SUSPENDED", "WAITING"}]
      /\ rq' \in [CPUs -> Seq(Threads)]
      /\ next' \in [CPUs -> Threads \cup {Idle, NoThread}]
      /\ rt' = rt /\ curCpu' = curCpu /\ current' = current
    <2>1. PICK t : current[c] = t
        OBVIOUS
    <2>2. t \in Threads => pc[t] = "run"
        BY <1>1, <2>1
    <2>3. wq' = wq /\ wqLock' = wqLock /\ op' = op /\ want' = want /\ woken' = woken /\ pc' = pc
        BY <1>1
    <2> QED
        BY <1>1, <2>1, <2>2, <2>3, PassInv
<1>3. TypeOK'
    BY <1>1, <1>2, InvParts DEF TypeOK
<1> QED
    BY <1>2, <1>3 DEF Inv

LEMMA SpecialPassInv == ASSUME NEW t \in Threads, Inv, SpecialPass(t) PROVE Inv'
<1> USE Distinct, Types DEF queueVars
<1>1. PICK c \in CPUs :
          /\ Executes(t, c) /\ pc[t] = "pass" /\ NeedResched(c)
          /\ pc' = [pc EXCEPT ![t] = IF Held(t) = {} THEN "back" ELSE "release"]
          /\ UNCHANGED <<wq, wqLock, cond, op, want, woken>>
    BY DEF SpecialPass, Goto
<1>2. current[c] = t /\ next[c] = NoThread /\ pc[c] = "off"
    BY <1>1 DEF Executes
<1>3. /\ pc'[t] \in {"release", "back"}
      /\ \A a \in Actors : a # t => pc'[a] = pc[a]
      /\ pc' \in [Actors -> {"run", "off", "special", "pass", "release", "back", "lock",
                             "check", "unlock", "relock", "remove", "wlock", "dequeue",
                             "awaken", "wunlock"}]
    BY <1>1, InvParts DEF TypeOK
<1>4. /\ Local' /\ Placed' /\ InHand' /\ Busy' /\ Queued' /\ Locks' /\ Announced'
      /\ QueuesInjective'
      /\ status' \in [Threads -> {"RUNNING", "SUSPENDED", "WAITING"}]
      /\ rq' \in [CPUs -> Seq(Threads)]
      /\ next' \in [CPUs -> Threads \cup {Idle, NoThread}]
      /\ rt' = rt /\ curCpu' = curCpu /\ current' = current
    <2>1. NeedResched(c) /\ current[c] = t /\ next[c] = NoThread /\ pc[c] = "off"
        BY <1>1, <1>2
    <2>2. wq' = wq /\ wqLock' = wqLock /\ op' = op /\ want' = want /\ woken' = woken
        BY <1>1
    <2>3. t \in Threads => \/ pc[t] = "run" /\ pc'[t] = "run"
                           \/ pc[t] = "pass" /\ pc'[t] \in {"release", "back"}
        BY <1>1, <1>3
    <2>4. \A a \in Actors : a # t => pc'[a] = pc[a]
        BY <1>3
    <2> QED
        BY SMTT(30), <2>1, <2>2, <2>3, <2>4, PassInv
<1>5. TypeOK'
    BY <1>1, <1>3, <1>4, InvParts DEF TypeOK
<1> QED
    BY <1>4, <1>5 DEF Inv

LEMMA SwitchInv == ASSUME NEW c \in CPUs, Inv, Switch(c) PROVE Inv'
<1> USE Distinct, Types DEF queueVars, localVars
<1>1. /\ next[c] # NoThread
      /\ current[c] \in Threads => pc[current[c]] # "release"
      /\ UNCHANGED <<status, rt, curCpu, rq, wq, wqLock, cond, pc, op, want, woken>>
    BY DEF Switch
<1>2. /\ current'[c] = next[c] /\ next'[c] = NoThread
      /\ \A d \in CPUs : d # c => current'[d] = current[d] /\ next'[d] = next[d]
      /\ TypeOK'
    BY InvParts DEF Switch, TypeOK
<1>3. Local' /\ QueuesInjective'
    <2>1. \A u \in Threads, d \in CPUs : /\ u = current'[d] => u = current[d] \/ u = next[d]
                                         /\ u = next'[d] => u = next[d]
        BY <1>2
    <2>2. rq' = rq /\ curCpu' = curCpu
        BY <1>1
    <2> QED
        BY <2>1, <2>2, InvParts DEF Local, QueuesInjective
<1>4. Placed'
    <2>1. ASSUME NEW u \in Threads, curCpu[u] = c
          PROVE  /\ status[u] = "RUNNING" => current'[c] = u /\ next'[c] = NoThread
                 /\ status[u] # "RUNNING" => current'[c] # u /\ u # next'[c]
                 /\ status[u] = "WAITING" => pc[u] \in {"release", "back"}
        <3>1. status[u] = "RUNNING" => next[c] = u
            BY <1>1, <2>1, InvParts DEF Placed
        <3>2. status[u] # "RUNNING" => next[c] # u
            BY <2>1, InvParts DEF Placed
        <3>3. pc[u] \in {"special", "pass"} => next[c] = NoThread
            BY <2>1, InvParts DEF Busy
        <3>4. status[u] = "WAITING" => pc[u] \in {"release", "back"}
            BY <1>1, <3>3, InvParts DEF Placed
        <3> QED
            BY <1>2, <3>1, <3>2, <3>4
    <2>2. ASSUME NEW u \in Threads
          PROVE  /\ status[u] = "RUNNING" =>
                        /\ \/ next'[curCpu[u]] = u
                           \/ current'[curCpu[u]] = u /\ next'[curCpu[u]] = NoThread
                        /\ u \notin Range(rq[curCpu[u]])
                 /\ status[u] = "SUSPENDED" =>
                        /\ u # next'[curCpu[u]]
                        /\ current'[curCpu[u]] = u => next'[curCpu[u]] # NoThread
                        /\ u \in Range(rq[curCpu[u]]) \/ \E a \in Actors : woken[a] = u
                 /\ status[u] = "WAITING" =>
                        /\ u \notin Range(rq[curCpu[u]]) /\ u # next'[curCpu[u]]
                        /\ op[u] = "sleep" /\ want[u] # {}
                        /\ \A q \in want[u] : u \in Range(wq[q])
                        /\ \/ pc[u] \in {"special", "pass"}
                           \/ /\ pc[u] \in {"release", "back"}
                              /\ current'[curCpu[u]] = u => next'[curCpu[u]] # NoThread
        <3>1. CASE curCpu[u] = c
            BY <2>1, <3>1, InvParts DEF Placed
        <3>2. CASE curCpu[u] # c
            <4>1. current'[curCpu[u]] = current[curCpu[u]] /\ next'[curCpu[u]] = next[curCpu[u]]
                BY <1>2, <3>2
            <4> DEFINE cur == current[curCpu[u]]
                       nxt == next[curCpu[u]]
            <4>2. /\ status[u] = "RUNNING" =>
                         /\ nxt = u \/ (cur = u /\ nxt = NoThread)
                         /\ u \notin Range(rq[curCpu[u]])
                  /\ status[u] = "SUSPENDED" =>
                         /\ u # nxt /\ (cur = u => nxt # NoThread)
                         /\ u \in Range(rq[curCpu[u]]) \/ \E a \in Actors : woken[a] = u
                  /\ status[u] = "WAITING" =>
                         /\ u \notin Range(rq[curCpu[u]]) /\ u # nxt
                         /\ op[u] = "sleep" /\ want[u] # {}
                         /\ \A q \in want[u] : u \in Range(wq[q])
                         /\ \/ pc[u] \in {"special", "pass"}
                            \/ pc[u] \in {"release", "back"} /\ (cur = u => nxt # NoThread)
                BY InvParts DEF Placed
            <4> QED BY <4>1, <4>2
        <3> QED BY <3>1, <3>2
    <2>3. /\ status' = status /\ curCpu' = curCpu /\ rq' = rq /\ wq' = wq
          /\ pc' = pc /\ op' = op /\ want' = want /\ woken' = woken
        BY <1>1
    <2> QED
        BY SMTT(30), <2>2, <2>3 DEF Placed
<1>5. InHand'
    BY SMTT(30), <1>1, InvParts DEF InHand
<1>8. Locks'
    BY <1>1, InvParts DEF Locks
<1>9. Announced'
    BY SMTT(30), <1>1, InvParts DEF Announced
<1>7. Queued'
    BY <1>1, InvParts DEF Queued, Several
<1>6. Busy'
    <2>1. ASSUME NEW t \in Threads, curCpu[t] = c PROVE pc[t] \in {"run", "back"}
        <3>1. pc[t] # "release"
            BY <1>1, <2>1, InvParts DEF Busy
        <3>2. pc[t] \notin {"run", "back", "release"} => next[c] = NoThread
            BY <2>1, InvParts DEF Busy
        <3> QED
            BY <1>1, <3>1, <3>2
    <2> QED
        BY SMTT(30), <1>1, <1>2, <2>1, InvParts DEF Busy
<1> QED
    BY <1>2, <1>3, <1>4, <1>5, <1>6, <1>7, <1>8, <1>9 DEF Inv

-----------------------------------------------------------------------------
(* Steps of a special switch *)

LEMMA YieldInv == ASSUME NEW t \in Threads, Inv, Yield(t) PROVE Inv'
<1> USE Distinct, Types DEF Goto, schedVars, queueVars
<1>1. /\ Active(t) /\ pc[t] = "run"
      /\ UNCHANGED <<status, rt, curCpu, rq, current, next, wq, wqLock, cond, woken>>
    BY DEF Yield
<1>2. /\ pc'[t] = "special" /\ op'[t] = "yield"
      /\ \A a \in Actors : a # t => pc'[a] = pc[a] /\ op'[a] = op[a] /\ want'[a] = want[a]
      /\ TypeOK'
    BY InvParts DEF Yield, TypeOK
<1>3. Local' /\ Placed' /\ InHand' /\ Queued' /\ Announced' /\ QueuesInjective'
    BY <1>1, <1>2, QuietStep
<1>4. Busy'
    BY <1>1, <1>2, BusyKept
<1>5. Locks'
    BY SMTT(30), <1>1, <1>2, InvParts DEF Locks
<1> QED
    BY <1>2, <1>3, <1>4, <1>5 DEF Inv

LEMMA SpecialStatusInv == ASSUME NEW t \in Threads, Inv, SpecialStatus(t) PROVE Inv'
<1> USE Distinct, Types DEF Goto, queueVars
<1>1. /\ Active(t) /\ pc[t] = "special"
      /\ UNCHANGED <<status, curCpu, rq, current, next, wq, wqLock, cond, op, want, woken>>
    BY DEF SpecialStatus
<1>2. op[t] \in {"yield", "sleep"}
    BY <1>1, InvParts DEF Locks
<1>3. /\ pc'[t] = "pass"
      /\ \A a \in Actors : a # t => pc'[a] = pc[a]
      /\ rt'[t] = IF op[t] = "yield" THEN "YIELDING" ELSE "SLEEPING"
      /\ \A u \in Threads : u # t => rt'[u] = rt[u]
      /\ TypeOK'
    BY InvParts DEF SpecialStatus, TypeOK
<1>4. Local' /\ QueuesInjective'
    BY <1>1, InvParts DEF Local, QueuesInjective
<1>5. Placed'
    <2>1. \A u \in Threads : /\ pc[u] \in {"special", "pass"} => pc'[u] \in {"special", "pass"}
                             /\ pc[u] \in {"release", "back"} => pc'[u] \in {"release", "back"}
        BY <1>1, <1>3
    <2>2. Placed
        BY InvParts
    <2>3. \A u \in Threads : status[u] = "WAITING" =>
              \/ pc'[u] \in {"special", "pass"}
              \/ /\ pc'[u] \in {"release", "back"}
                 /\ current[curCpu[u]] = u => next[curCpu[u]] # NoThread
        BY <2>1, <2>2 DEF Placed
    <2>4. /\ status' = status /\ curCpu' = curCpu /\ rq' = rq /\ current' = current
          /\ next' = next /\ wq' = wq /\ op' = op /\ want' = want /\ woken' = woken
        BY <1>1
    <2> QED
        BY SMTT(30), <2>2, <2>3, <2>4 DEF Placed
<1>6. InHand'
    BY <1>1, <1>3, ActiveFacts, InHandKept
<1>7. Busy'
    BY <1>1, <1>3, BusyKept
<1>8. Queued'
    BY <1>1, <1>3, InvParts DEF Queued, Several
<1>9. Locks'
    BY <1>1, <1>3, InvParts DEF Locks
<1>10. Announced'
    <2>1. ASSUME NEW u \in Threads
          PROVE  /\ rt'[u] = "SLEEPING" =>
                        \/ pc'[u] = "pass"
                        \/ /\ pc'[u] \in {"release", "back"}
                           /\ status[u] = "WAITING" \/ \E a \in Actors : woken[a] = u
                 /\ pc'[u] = "pass" => (rt'[u] = "SLEEPING" <=> op[u] = "sleep")
        <3>1. CASE u = t
            BY <1>2, <1>3, <3>1
        <3>2. CASE u # t
            <4>1. pc'[u] = pc[u] /\ rt'[u] = rt[u]
                BY <1>3, <3>2
            <4>2. /\ rt[u] = "SLEEPING" =>
                         \/ pc[u] = "pass"
                         \/ /\ pc[u] \in {"release", "back"}
                            /\ status[u] = "WAITING" \/ \E a \in Actors : woken[a] = u
                  /\ pc[u] = "pass" => (rt[u] = "SLEEPING" <=> op[u] = "sleep")
                BY InvParts DEF Announced
            <4> QED
                BY <4>1, <4>2
        <3> QED
            BY <3>1, <3>2
    <2> QED
        BY <1>1, <2>1 DEF Announced
<1> QED
    BY <1>3, <1>4, <1>5, <1>6, <1>7, <1>8, <1>9, <1>10 DEF Inv

LEMMA BackInv == ASSUME NEW t \in Threads, Inv, Back(t) PROVE Inv'
<1> USE Distinct, Types DEF queueVars
<1>1. /\ Active(t) /\ pc[t] = "back"
      /\ rt' = [rt EXCEPT ![t] = "ADMITTED"]
      /\ UNCHANGED <<status, curCpu, rq, current, next, wq, wqLock, cond, woken>>
    BY DEF Back, Goto, Finish
<1>2. /\ status[t] = "RUNNING" /\ \A a \in Actors : woken[a] # t
      /\ current[curCpu[t]] = t /\ next[curCpu[t]] = NoThread /\ pc[curCpu[t]] = "off"
    BY <1>1, ActiveFacts, InvParts DEF TypeOK
<1>3. \/ /\ Several(t) /\ pc' = [pc EXCEPT ![t] = "relock"] /\ op' = op /\ want' = want
      \/ /\ ~Several(t) /\ pc' = [pc EXCEPT ![t] = "run"]
         /\ op' = [op EXCEPT ![t] = "none"] /\ want' = [want EXCEPT ![t] = {}]
    BY DEF Back, Goto, Finish, Return
<1>4. TypeOK'
    <2>1. CASE Several(t)
        BY <2>1, <1>1, <1>3 DEF Inv, TypeOK
    <2>2. CASE ~Several(t)
        <3>1. /\ pc' = [pc EXCEPT ![t] = "run"]
              /\ op' = [op EXCEPT ![t] = "none"] /\ want' = [want EXCEPT ![t] = {}]
            BY <2>2, <1>3
        <3> QED
            BY <3>1, <1>1, InvParts DEF TypeOK
    <2> QED
        BY <2>1, <2>2
<1>5. /\ pc'[t] \in {"relock", "run"}
      /\ \A a \in Actors : a # t => pc'[a] = pc[a] /\ op'[a] = op[a] /\ want'[a] = want[a]
      /\ \A u \in Threads : u # t => rt'[u] = rt[u]
      /\ rt'[t] = "ADMITTED"
    BY SMTT(30), <1>1, <1>3, InvParts DEF TypeOK
<1>6. Local' /\ QueuesInjective'
    BY <1>1, InvParts DEF Local, QueuesInjective
<1>7. Placed'
    BY <1>1, <1>2, <1>5, PlacedKept
<1>8. InHand'
    BY <1>1, <1>2, <1>5, InHandKept
<1>9. Busy'
    BY <1>1, <1>5, BusyKept
<1>10. Queued'
    <2>1. CASE Several(t)
        <3>1. op' = op /\ want' = want
            BY <2>1, <1>3
        <3>2. \A u \in Threads : Several(u)' <=> Several(u)
            BY <3>1 DEF Several
        <3>3. pc'[t] = "relock"
            BY <2>1, <1>3, InvParts DEF TypeOK
        <3> QED
            BY <3>1, <3>2, <3>3, <2>1, <1>1, <1>2, <1>5, InvParts DEF Queued
    <2>2. CASE ~Several(t)
        <3>1. \A q \in Queues : t \notin Range(wq[q])
            BY <2>2, <1>2, InvParts DEF Queued
        <3> QED
            BY SMTT(30), <3>1, <1>1, <1>2, <1>5, InvParts DEF Queued, Several
    <2> QED
        BY <2>1, <2>2
<1>11. Locks'
    BY SMTT(30), <1>1, <1>5, InvParts DEF Locks
<1>12. Announced'
    BY SMTT(30), <1>1, <1>5, InvParts DEF Announced
<1> QED
    BY <1>4, <1>6, <1>7, <1>8, <1>9, <1>10, <1>11, <1>12 DEF Inv

LEMMA ReleaseCallbackInv == ASSUME NEW t \in Threads, Inv, ReleaseCallback(t) PROVE Inv'
<1> USE Distinct, Types DEF Goto, schedVars
<1>1. PICK q \in Queues :
        /\ wqLock[q] = t /\ pc[t] = "release"
        /\ pc' = [pc EXCEPT ![t] = IF Held(t) = {q} THEN "back" ELSE "release"]
        /\ wqLock' = [wqLock EXCEPT ![q] = NoThread]
        /\ UNCHANGED <<status, rt, curCpu, rq, current, next, wq, cond, op, want, woken>>
    BY DEF ReleaseCallback, Held
<1>2. /\ pc'[t] \in {"release", "back"}
      /\ \A a \in Actors : a # t => pc'[a] = pc[a]
    BY <1>1, InvParts DEF TypeOK
<1>3. TypeOK'
    BY <1>1, InvParts DEF TypeOK
<1>4. Local' /\ QueuesInjective'
    BY <1>1, InvParts DEF Local, QueuesInjective
<1>5. Placed'
    BY SMTT(30), <1>1, <1>2, InvParts DEF Placed
<1>6. InHand'
    <2>1. ASSUME NEW a \in Actors, NEW u \in Threads, woken[a] = u
          PROVE  /\ status[u] = "SUSPENDED" /\ u \notin Range(rq[curCpu[u]])
                 /\ pc'[u] \in {"release", "back"}
                 /\ \A b \in Actors : woken[b] = u => a = b
        BY <1>2, <2>1, InvParts DEF InHand
    <2>2. \A a \in Actors : woken[a] \in Threads <=> pc'[a] = "awaken"
        BY SMTT(30), <1>1, <1>2, InvParts DEF InHand
    <2> QED
        BY SMTT(30), <1>1, <2>1, <2>2 DEF InHand
<1>7. Busy'
    BY SMTT(30), <1>1, <1>2, InvParts DEF Busy
<1>8. Queued'
    BY SMTT(30), <1>1, <1>2, InvParts DEF Queued, Several
<1>9. Locks'
    <2>1. \A a \in Actors, p \in Queues : a # t => (wqLock'[p] = a <=> wqLock[p] = a)
        BY <1>1, InvParts DEF TypeOK
    <2> QED
        BY SMTT(30), <1>1, <1>2, <2>1, InvParts DEF Locks
<1>10. Announced'
    BY SMTT(30), <1>1, <1>2, InvParts DEF Announced
<1> QED
    BY <1>3, <1>4, <1>5, <1>6, <1>7, <1>8, <1>9, <1>10 DEF Inv
-----------------------------------------------------------------------------
(* Steps of nk_wait_queue_sleep *)

LEMMA SleepCallInv == ASSUME NEW t \in Threads, Inv, SleepCall(t) PROVE Inv'
<1> USE Distinct, Types DEF Goto, schedVars, queueVars
<1>1. /\ Active(t) /\ pc[t] = "run"
      /\ UNCHANGED <<status, rt, curCpu, rq, current, next, wq, wqLock, cond, woken>>
    BY DEF SleepCall
<1>2. PICK Q \in SleepSets : want' = [want EXCEPT ![t] = Q]
    BY DEF SleepCall
<1>3. Q \in SUBSET Queues /\ Q # {}
    BY SchedAssumption
<1>4. /\ pc'[t] = "lock" /\ op'[t] = "sleep" /\ want'[t] = Q
      /\ \A a \in Actors : a # t => pc'[a] = pc[a] /\ op'[a] = op[a] /\ want'[a] = want[a]
      /\ TypeOK'
    BY <1>2, <1>3, InvParts DEF SleepCall, TypeOK
<1>5. Local' /\ Placed' /\ InHand' /\ Queued' /\ Announced' /\ QueuesInjective'
    BY <1>1, <1>4, QuietStep
<1>6. Busy'
    BY <1>1, <1>4, BusyKept
<1>7. Locks'
    BY SMTT(30), <1>1, <1>3, <1>4, InvParts DEF Locks
<1> QED
    BY <1>4, <1>5, <1>6, <1>7 DEF Inv

LEMMA SleepLockInv == ASSUME NEW t \in Threads, Inv, SleepLock(t) PROVE Inv'
<1> USE Distinct, Types DEF Goto, schedVars
<1>1. PICK q \in want[t] :
          /\ wqLock[q] = NoThread /\ wqLock' = [wqLock EXCEPT ![q] = t]
          /\ \/ /\ pc[t] = "lock"
                /\ pc' = [pc EXCEPT ![t] = IF want[t] \ Held(t) = {q} THEN "check" ELSE "lock"]
             \/ /\ pc[t] = "relock"
                /\ pc' = [pc EXCEPT ![t] = IF want[t] \ Held(t) = {q} THEN "remove" ELSE "relock"]
    BY DEF SleepLock
<1>2. /\ Active(t)
      /\ UNCHANGED <<status, rt, curCpu, rq, current, next, wq, cond, op, want, woken>>
    BY DEF SleepLock
<1>3. q \in Queues
    BY <1>1
<1>4. /\ \A a \in Actors : a # t => pc'[a] = pc[a]
      /\ \/ pc[t] = "lock" /\ pc'[t] \in {"lock", "check"}
         \/ pc[t] = "relock" /\ pc'[t] \in {"relock", "remove"}
      /\ pc'[t] \in {"check", "remove"} => want[t] \ Held(t) = {q}
    BY <1>1, InvParts DEF TypeOK
<1>5. /\ wqLock'[q] = t /\ \A p \in Queues : p # q => wqLock'[p] = wqLock[p]
      /\ TypeOK'
    BY <1>1, <1>2, <1>3, InvParts DEF TypeOK
<1>6. Local' /\ QueuesInjective'
    BY <1>2, InvParts DEF Local, QueuesInjective
<1>7. Placed'
    <2>1. status[t] = "RUNNING"
        BY <1>2, <1>4, ActiveFacts
    <2> QED
        BY <1>2, <1>4, <2>1, PlacedKept
<1>8. InHand'
    BY <1>2, <1>4, ActiveFacts, InHandKept
<1>9. Busy'
    BY <1>2, <1>4, BusyKept
<1>10. Queued'
    BY <1>2, <1>4, InvParts DEF Queued, Several
<1>11. Locks'
    <2>1. pc'[t] \in {"check", "remove"} => \A p \in want[t] : wqLock'[p] = t
        BY <1>4, <1>5 DEF Held
    <2>2. \A a \in Actors, p \in Queues : wqLock[p] = a => wqLock'[p] = a
        BY <1>1, <1>5
    <2> QED
        BY SMTT(30), <1>2, <1>4, <2>1, <2>2, InvParts DEF Locks
<1>12. Announced'
    BY <1>2, <1>4, AnnouncedKept
<1> QED
    BY <1>5, <1>6, <1>7, <1>8, <1>9, <1>10, <1>11, <1>12 DEF Inv

LEMMA SleepCheckInv == ASSUME NEW t \in Threads, Inv, SleepCheck(t) PROVE Inv'
<1> USE Distinct, Types DEF Goto
<1>1. /\ Active(t) /\ pc[t] = "check"
      /\ UNCHANGED <<rt, curCpu, rq, current, next, wqLock, cond, op, want, woken>>
    BY DEF SleepCheck
<1>2. /\ op[t] = "sleep" /\ want[t] # {} /\ \A q \in want[t] : wqLock[q] = t
      /\ \A q \in Queues : t \notin Range(wq[q])
    BY <1>1, InvParts DEF Locks, Queued
<1>3. /\ status[t] = "RUNNING" /\ \A a \in Actors : woken[a] # t
      /\ t \notin Range(rq[curCpu[t]]) /\ current[curCpu[t]] = t
      /\ next[curCpu[t]] = NoThread /\ pc[curCpu[t]] = "off"
    BY <1>1, ActiveFacts
<1>4. CASE \E q \in want[t] : cond[q]
    <2>1. /\ pc' = [pc EXCEPT ![t] = "unlock"] /\ UNCHANGED <<status, wq>>
        BY <1>4 DEF SleepCheck
    <2>2. /\ pc'[t] = "unlock" /\ \A a \in Actors : a # t => pc'[a] = pc[a]
          /\ TypeOK'
        BY <1>1, <2>1, InvParts DEF TypeOK
    <2>3. Local' /\ Placed' /\ InHand' /\ Queued' /\ Announced' /\ QueuesInjective'
        BY <1>1, <2>1, <2>2, QuietStep
    <2>4. Busy'
        BY <1>1, <2>2, BusyKept
    <2>5. Locks'
        BY <1>1, <2>2, InvParts DEF Locks
    <2> QED
        BY <2>2, <2>3, <2>4, <2>5 DEF Inv
<1>5. CASE ~\E q \in want[t] : cond[q]
    <2>1. /\ pc' = [pc EXCEPT ![t] = "special"]
          /\ status' = [status EXCEPT ![t] = "WAITING"]
          /\ wq' = [q \in Queues |-> IF q \in want[t] THEN Append(wq[q], t) ELSE wq[q]]
        BY <1>5 DEF SleepCheck
    <2>2. /\ pc'[t] = "special" /\ \A a \in Actors : a # t => pc'[a] = pc[a]
          /\ status'[t] = "WAITING" /\ \A u \in Threads : u # t => status'[u] = status[u]
        BY <1>1, <2>1, InvParts DEF TypeOK
    <2>3. ASSUME NEW q \in Queues
          PROVE  /\ wq'[q] \in Seq(Threads) /\ IsInjective(wq'[q])
                 /\ t \in Range(wq'[q]) <=> q \in want[t]
                 /\ \A u \in Threads : u # t => (u \in Range(wq'[q]) <=> u \in Range(wq[q]))
        BY SMTT(30), <1>2, <2>1, AppendFacts, QueueTypes
    <2>4. TypeOK'
        <3>1. wq' \in [Queues -> Seq(Threads)]
            BY <2>1, <2>3
        <3> QED
            BY <1>1, <2>1, <3>1, InvParts DEF TypeOK
    <2>5. Local' /\ QueuesInjective'
        BY <1>1, InvParts DEF Local, QueuesInjective
    <2>6. Placed'
        <3>1. /\ \A u \in Threads : status'[u] = "RUNNING" =>
                    /\ \/ next[curCpu[u]] = u
                       \/ current[curCpu[u]] = u /\ next[curCpu[u]] = NoThread
                    /\ u \notin Range(rq[curCpu[u]])
              /\ \A u \in Threads : status'[u] = "SUSPENDED" =>
                    /\ u # next[curCpu[u]]
                    /\ current[curCpu[u]] = u => next[curCpu[u]] # NoThread
                    /\ u \in Range(rq[curCpu[u]]) \/ \E a \in Actors : woken[a] = u
            <4>1. \A u \in Threads : status'[u] \in {"RUNNING", "SUSPENDED"} =>
                      status[u] = status'[u]
                BY <2>2
            <4> QED BY <4>1, InvParts DEF Placed
        <3>2. ASSUME NEW u \in Threads, status'[u] = "WAITING"
              PROVE  /\ u \notin Range(rq[curCpu[u]]) /\ u # next[curCpu[u]]
                     /\ op[u] = "sleep" /\ want[u] # {}
                     /\ \A q \in want[u] : u \in Range(wq'[q])
                     /\ \/ pc'[u] \in {"special", "pass"}
                        \/ /\ pc'[u] \in {"release", "back"}
                           /\ current[curCpu[u]] = u => next[curCpu[u]] # NoThread
            <4>1. CASE u = t
                BY <1>2, <1>3, <2>2, <2>3, <4>1
            <4>2. CASE u # t
                <5>1. status[u] = "WAITING" /\ pc'[u] = pc[u]
                    BY <2>2, <3>2, <4>2
                <5>2. /\ u \notin Range(rq[curCpu[u]]) /\ u # next[curCpu[u]]
                      /\ op[u] = "sleep" /\ want[u] # {} /\ \A q \in want[u] : u \in Range(wq[q])
                      /\ \/ pc[u] \in {"special", "pass"}
                         \/ /\ pc[u] \in {"release", "back"}
                            /\ current[curCpu[u]] = u => next[curCpu[u]] # NoThread
                    BY <5>1, InvParts DEF Placed
                <5> QED BY <2>3, <4>2, <5>1, <5>2
            <4> QED BY <4>1, <4>2
        <3> QED
            BY SMTT(30), <1>1, <3>1, <3>2 DEF Placed
    <2>7. InHand'
        <3>1. ASSUME NEW b \in Actors, NEW u \in Threads, woken[b] = u
              PROVE  /\ status'[u] = "SUSPENDED" /\ u \notin Range(rq[curCpu[u]])
                     /\ pc'[u] \in {"release", "back"}
                     /\ \A d \in Actors : woken[d] = u => b = d
            <4>1. /\ status[u] = "SUSPENDED" /\ u \notin Range(rq[curCpu[u]])
                  /\ pc[u] \in {"release", "back"}
                  /\ \A d \in Actors : woken[d] = u => b = d
                BY <3>1, InvParts DEF InHand
            <4> QED BY <1>3, <2>2, <3>1, <4>1
        <3>2. \A b \in Actors : woken[b] \in Threads <=> pc'[b] = "awaken"
            BY SMTT(30), <1>1, <2>2, InvParts DEF InHand
        <3>3. woken' = woken /\ rq' = rq /\ curCpu' = curCpu
            BY <1>1
        <3> QED
            BY SMTT(30), <3>1, <3>2, <3>3 DEF InHand
    <2>8. Busy'
        BY <1>1, <2>2, BusyKept
    <2>9. Queued'
        <3>1. \A u \in Threads : Several(u)' <=> Several(u)
            BY <1>1 DEF Several
        <3> QED
            BY <1>1, <1>2, <2>2, <2>3, <3>1, InvParts DEF Queued
    <2>10. Locks'
        BY <1>1, <1>2, <2>2, InvParts DEF Locks
    <2>11. Announced'
        BY <1>1, <2>2, AnnouncedKept
    <2> QED
        BY <2>4, <2>5, <2>6, <2>7, <2>8, <2>9, <2>10, <2>11 DEF Inv
<1> QED
    BY <1>4, <1>5
LEMMA SleepUnlockInv == ASSUME NEW t \in Threads, Inv, SleepUnlock(t) PROVE Inv'
<1> USE Distinct, Types DEF schedVars
<1>1. /\ Active(t) /\ pc[t] = "unlock"
      /\ UNCHANGED <<status, rt, curCpu, rq, current, next, wq, cond, woken>>
    BY DEF SleepUnlock, Goto, Finish
<1>2. PICK q \in Queues :
          /\ wqLock[q] = t /\ wqLock' = [wqLock EXCEPT ![q] = NoThread]
          /\ IF Held(t) = {q}
             THEN Finish(t, "unlock")
             ELSE Goto(t, "unlock", "unlock") /\ UNCHANGED <<op, want>>
    BY DEF SleepUnlock, Held
<1>3. \A a \in Actors, p \in Queues : a # t => (wqLock'[p] = a <=> wqLock[p] = a)
    BY <1>2, InvParts DEF TypeOK
<1>4. /\ pc'[t] \in {"run", "unlock"}
      /\ \A a \in Actors : a # t => pc'[a] = pc[a] /\ op'[a] = op[a] /\ want'[a] = want[a]
      /\ TypeOK'
    <2>1. CASE Held(t) = {q}
        <3>1. /\ pc' = [pc EXCEPT ![t] = "run"] /\ op' = [op EXCEPT ![t] = "none"]
              /\ want' = [want EXCEPT ![t] = {}]
            BY <1>2, <2>1 DEF Finish, Goto, Return
        <3> QED
            BY <1>1, <1>2, <3>1, InvParts DEF TypeOK
    <2>2. CASE Held(t) # {q}
        <3>1. pc' = [pc EXCEPT ![t] = "unlock"] /\ op' = op /\ want' = want
            BY <1>2, <2>2 DEF Goto
        <3> QED
            BY <1>1, <1>2, <3>1, InvParts DEF TypeOK
    <2> QED
        BY <2>1, <2>2
<1>5. Local' /\ Placed' /\ InHand' /\ Queued' /\ Announced' /\ QueuesInjective'
    BY <1>1, <1>4, QuietStep
<1>6. Busy'
    BY <1>1, <1>4, BusyKept
<1>7. Locks'
    <2>1. /\ t \in Actors /\ pc'[t] \notin {"lock", "check", "remove", "special", "pass"}
          /\ pc'[t] \notin {"dequeue", "awaken", "wunlock"}
          /\ pc'[t] \notin {"wlock", "dequeue", "awaken", "wunlock"}
        BY <1>4
    <2>2. \A b \in Actors, p \in Queues : b # t /\ wqLock[p] = b => wqLock'[p] = b
        BY <1>3
    <2>3. \A b \in Actors : b # t => pc'[b] = pc[b] /\ op'[b] = op[b] /\ want'[b] = want[b]
        BY <1>4
    <2> QED
        BY <2>1, <2>2, <2>3, LocksKept
<1> QED
    BY <1>4, <1>5, <1>6, <1>7 DEF Inv

LEMMA SleepRemoveInv == ASSUME NEW t \in Threads, Inv, SleepRemove(t) PROVE Inv'
<1> USE Distinct, Types DEF Goto, schedVars
<1>1. /\ Active(t) /\ pc[t] = "remove"
      /\ UNCHANGED <<status, rt, curCpu, rq, current, next, wqLock, cond, op, want, woken>>
      /\ wq' = [q \in Queues |-> IF q \in want[t] THEN Without(wq[q], t) ELSE wq[q]]
      /\ pc' = [pc EXCEPT ![t] = "unlock"]
    BY DEF SleepRemove
<1>2. pc'[t] = "unlock" /\ \A a \in Actors : a # t => pc'[a] = pc[a]
    BY <1>1, InvParts DEF TypeOK
<1>3. status[t] = "RUNNING"
    BY <1>1, ActiveFacts
<1>4. ASSUME NEW q \in Queues
      PROVE  /\ wq'[q] \in Seq(Threads) /\ IsInjective(wq'[q]) /\ t \notin Range(wq'[q])
             /\ \A u \in Threads : u # t => (u \in Range(wq'[q]) <=> u \in Range(wq[q]))
    <2>1. CASE q \in want[t]
        BY <1>1, <2>1, WithoutFacts, QueueTypes
    <2>2. CASE q \notin want[t]
        <3>1. t \notin Range(wq[q])
            BY <2>2, InvParts DEF Queued
        <3> QED
            BY <1>1, <2>2, <3>1, QueueTypes
    <2> QED
        BY <2>1, <2>2
<1>5. TypeOK'
    <2>1. wq' \in [Queues -> Seq(Threads)]
        BY <1>1, <1>4
    <2> QED
        BY <1>1, <2>1, InvParts DEF TypeOK
<1>6. Local' /\ QueuesInjective'
    BY <1>1, InvParts DEF Local, QueuesInjective
<1>7. Placed'
    BY <1>1, <1>2, <1>3, <1>4, PlacedKept
<1>8. InHand'
    BY <1>1, <1>2, ActiveFacts, InHandKept
<1>9. Busy'
    BY <1>1, <1>2, BusyKept
<1>10. Queued'
    <2>1. \A u \in Threads : Several(u)' <=> Several(u)
        BY <1>1 DEF Several
    <2> QED
        BY <1>1, <1>2, <1>4, <2>1, InvParts DEF Queued
<1>11. Locks'
    BY <1>1, <1>2, InvParts DEF Locks
<1>12. Announced'
    BY <1>1, <1>2, AnnouncedKept
<1> QED
    BY <1>5, <1>6, <1>7, <1>8, <1>9, <1>10, <1>11, <1>12 DEF Inv

-----------------------------------------------------------------------------

(* Steps of nk_wait_queue_wake, of a thread or of an interrupt handler *)

\* A waker that goes on with its loop keeps the queue's lock.
LEMMA WakerLocks ==
    ASSUME Inv, NEW a \in Actors, pc[a] \in {"dequeue", "awaken"},
           pc'[a] \in {"dequeue", "awaken", "wunlock"},
           \A b \in Actors : b # a => pc'[b] = pc[b],
           UNCHANGED <<wqLock, op, want>>
    PROVE  Locks'
<1>1. /\ \A q \in want[a] : wqLock[q] = a
      /\ op[a] \in WakeOps /\ \E q \in Queues : want[a] = {q}
    BY InvParts DEF Locks
<1> QED BY <1>1, LocksKept

LEMMA WakeCallInv == ASSUME NEW a \in Actors, Inv, WakeCall(a) PROVE Inv'
<1> USE Distinct, Types DEF Goto, schedVars
<1>1. /\ IF a \in CPUs THEN IrqsOn(a) ELSE Active(a)
      /\ pc[a] = Return(a) /\ pc' = [pc EXCEPT ![a] = "wlock"]
      /\ UNCHANGED <<status, rt, curCpu, rq, current, next, wq, wqLock, woken>>
    BY DEF WakeCall
<1>2. PICK q \in Queues : /\ want' = [want EXCEPT ![a] = {q}]
                          /\ cond' = [cond EXCEPT ![q] = TRUE]
    BY DEF WakeCall
<1>3. PICK o \in WakeOps : op' = [op EXCEPT ![a] = o]
    BY DEF WakeCall
<1>4. /\ pc'[a] = "wlock" /\ want'[a] = {q} /\ op'[a] = o /\ pc[a] \in {"run", "off"}
      /\ \A b \in Actors : b # a => pc'[b] = pc[b] /\ op'[b] = op[b] /\ want'[b] = want[b]
    BY <1>1, <1>2, <1>3, InvParts DEF TypeOK, Return
<1>5. TypeOK'
    <2>1. cond' \in [Queues -> BOOLEAN]
        BY <1>2, InvParts DEF TypeOK
    <2>2. o \in {"wake_one", "wake_all"}
        BY SchedAssumption
    <2>3. want' \in [Actors -> SUBSET Queues]
        BY <1>2, Arrays
    <2>5. op' \in [Actors -> {"none", "yield", "sleep", "wake_one", "wake_all"}]
        BY <1>3, <2>2, InvParts DEF TypeOK
    <2>4. pc' \in [Actors -> {"run", "off", "special", "pass", "release", "back", "lock",
                              "check", "unlock", "relock", "remove", "wlock", "dequeue",
                              "awaken", "wunlock"}]
        BY <1>1, InvParts DEF TypeOK
    <2> QED
        BY <1>1, <2>1, <2>3, <2>4, <2>5, InvParts DEF TypeOK
<1>6. Local' /\ Placed' /\ InHand' /\ Queued' /\ Announced' /\ QueuesInjective'
    BY <1>1, <1>4, QuietStep
<1>7. Busy'
    BY <1>1, <1>4, WakerBusy
<1>8. Locks'
    BY <1>1, <1>4, LocksKept
<1> QED
    BY <1>5, <1>6, <1>7, <1>8 DEF Inv

LEMMA WakeLockInv == ASSUME NEW a \in Actors, Inv, WakeLock(a) PROVE Inv'
<1> USE Distinct, Types DEF Goto, schedVars
<1>1. /\ Active(a) /\ pc[a] = "wlock" /\ pc' = [pc EXCEPT ![a] = "dequeue"]
      /\ UNCHANGED <<status, rt, curCpu, rq, current, next, wq, cond, op, want, woken>>
    BY DEF WakeLock
<1>2. PICK q \in want[a] : wqLock[q] = NoThread /\ wqLock' = [wqLock EXCEPT ![q] = a]
    BY DEF WakeLock
<1>3. /\ pc'[a] = "dequeue" /\ \A b \in Actors : b # a => pc'[b] = pc[b]
      /\ TypeOK'
    BY <1>1, <1>2, InvParts DEF TypeOK
<1>4. q \in Queues /\ want[a] = {q} /\ op[a] \in WakeOps
    <2>1. op[a] \in WakeOps /\ \E p \in Queues : want[a] = {p}
        BY <1>1, InvParts DEF Locks
    <2> QED BY <1>2, <2>1
<1>5. Local' /\ Placed' /\ InHand' /\ Queued' /\ Announced' /\ QueuesInjective'
    BY <1>1, <1>3, QuietStep
<1>6. Busy'
    BY <1>1, <1>3, WakerBusy
<1>7. Locks'
    <2>1. /\ wqLock'[q] = a
          /\ \A b \in Actors, p \in Queues : wqLock[p] = b => wqLock'[p] = b
        BY <1>2, InvParts DEF TypeOK
    <2> QED
        <3>1. /\ pc'[a] \notin {"lock", "check", "remove", "special", "pass"}
              /\ \A b \in Actors : b # a => pc'[b] = pc[b] /\ op'[b] = op[b] /\ want'[b] = want[b]
            BY <1>1, <1>3
        <3>2. op'[a] \in WakeOps /\ want'[a] = {q}
            BY <1>1, <1>4
        <3>3. /\ \A p \in want'[a] : wqLock'[p] = a
              /\ op'[a] \in WakeOps /\ \E p \in Queues : want'[a] = {p}
            BY <1>4, <2>1, <3>2
        <3>4. \A b \in Actors, p \in Queues : b # a /\ wqLock[p] = b => wqLock'[p] = b
            BY <2>1
        <3> QED
            BY <3>1, <3>3, <3>4, LocksKept
<1> QED
    BY <1>3, <1>5, <1>6, <1>7 DEF Inv

LEMMA WakeUnlockInv == ASSUME NEW a \in Actors, Inv, WakeUnlock(a) PROVE Inv'
<1> USE Distinct, Types DEF Goto, schedVars
<1>1. /\ Active(a) /\ pc[a] = "wunlock" /\ pc' = [pc EXCEPT ![a] = Return(a)]
      /\ op' = [op EXCEPT ![a] = "none"] /\ want' = [want EXCEPT ![a] = {}]
      /\ UNCHANGED <<status, rt, curCpu, rq, current, next, wq, cond, woken>>
    BY DEF WakeUnlock, Finish
<1>2. PICK q \in want[a] : wqLock' = [wqLock EXCEPT ![q] = NoThread]
    BY DEF WakeUnlock
<1>3. /\ pc'[a] = Return(a) /\ Return(a) \in {"run", "off"}
      /\ a \in Threads => Return(a) = "run" 
      /\ a \in CPUs => Return(a) = "off"
      /\ \A b \in Actors : b # a => pc'[b] = pc[b] /\ op'[b] = op[b] /\ want'[b] = want[b]
      /\ TypeOK'
    BY <1>1, <1>2, InvParts DEF TypeOK, Return
<1>4. Local' /\ Placed' /\ InHand' /\ Queued' /\ Announced' /\ QueuesInjective'
    BY <1>1, <1>3, QuietStep
<1>5. Busy'
    BY <1>1, <1>3, WakerBusy
<1>6. Locks'
    <2>1. wqLock[q] = a
        BY <1>1, <1>2, InvParts DEF Locks
    <2>2. \A b \in Actors, p \in Queues : b # a /\ wqLock[p] = b => wqLock'[p] = b
        BY <1>2, <2>1, InvParts DEF TypeOK
    <2>3. pc'[a] \notin {"lock", "check", "remove", "special", "pass", "wlock", "dequeue",
                         "awaken", "wunlock"}
        BY <1>3
    <2> QED
        BY <1>3, <2>2, <2>3, LocksKept
<1> QED
    BY <1>3, <1>4, <1>5, <1>6 DEF Inv

LEMMA WakeDequeueInv == ASSUME NEW a \in Actors, Inv, WakeDequeue(a) PROVE Inv'
<1> USE Distinct, Types
<1>1. /\ Active(a) /\ pc[a] = "dequeue"
      /\ UNCHANGED <<rt, curCpu, rq, current, next, wqLock, cond, op, want>>
    BY DEF WakeDequeue, Goto
<1>2. PICK q \in want[a] :
        IF wq[q] = <<>>
        THEN /\ Goto(a, "dequeue", "wunlock")
             /\ UNCHANGED <<status, wq, woken>>
        ELSE LET t == Head(wq[q])
             IN  /\ wq' = [wq EXCEPT ![q] = Tail(@)]
                 /\ IF status[t] = "WAITING"
                    THEN /\ status' = [status EXCEPT ![t] = "SUSPENDED"]
                         /\ woken' = [woken EXCEPT ![a] = t]
                         /\ Goto(a, "dequeue", "awaken")
                    ELSE /\ Goto(a, "dequeue",
                                 IF op[a] = "wake_all" THEN "dequeue" ELSE "wunlock")
                         /\ UNCHANGED <<status, woken>>
    BY DEF WakeDequeue
<1>3. /\ q \in Queues /\ want[a] = {q} /\ wqLock[q] = a /\ op[a] \in WakeOps
      /\ woken[a] \notin Threads
    <2>1. woken[a] \notin Threads
        BY <1>1, InvParts DEF InHand
    <2>2. /\ \A p \in want[a] : wqLock[p] = a
          /\ op[a] \in WakeOps /\ \E p \in Queues : want[a] = {p}
        BY <1>1, InvParts DEF Locks
    <2> QED
        BY <1>2, <2>1, <2>2
<1>4. CASE wq[q] = <<>>
    <2>1. pc' = [pc EXCEPT ![a] = "wunlock"] /\ UNCHANGED <<status, wq, woken>>
        BY <1>2, <1>4 DEF Goto
    <2>2. /\ pc'[a] = "wunlock" /\ \A b \in Actors : b # a => pc'[b] = pc[b]
          /\ TypeOK'
        BY <1>1, <2>1, InvParts DEF TypeOK
    <2>3. Local' /\ Placed' /\ InHand' /\ Queued' /\ Announced' /\ QueuesInjective'
        BY <1>1, <2>1, <2>2, QuietStep
    <2>4. Busy'
        BY <1>1, <2>2, WakerBusy
    <2>5. Locks'
        BY <1>1, <2>2, WakerLocks
    <2> QED
        BY <2>2, <2>3, <2>4, <2>5 DEF Inv
<1>5. CASE wq[q] # <<>>
    <2>1. PICK t : t = Head(wq[q])
        OBVIOUS
    <2>2. /\ t \in Threads /\ t \in Range(wq[q]) /\ Tail(wq[q]) \in Seq(Threads)
          /\ Range(Tail(wq[q])) = Range(wq[q]) \ {t} /\ IsInjective(Tail(wq[q]))
        BY <1>3, <1>5, <2>1, HeadFacts, QueueTypes
    <2>3. wq' = [wq EXCEPT ![q] = Tail(wq[q])]
        BY <1>2, <1>5
    <2>4. /\ \A p \in Queues : IsInjective(wq'[p])
          /\ \A p \in Queues, u \in Threads :
                 u \in Range(wq'[p]) <=> u \in Range(wq[p]) /\ ~(u = t /\ p = q)
          /\ wq' \in [Queues -> Seq(Threads)]
        <3>1. /\ wq'[q] = Tail(wq[q]) /\ \A p \in Queues : p # q => wq'[p] = wq[p]
              /\ wq' \in [Queues -> Seq(Threads)]
            BY <1>3, <2>2, <2>3, InvParts DEF TypeOK
        <3> QED
            BY <2>2, <3>1, QueueTypes
    <2>5. Local' /\ QueuesInjective'
        BY <1>1, InvParts DEF Local, QueuesInjective
    <2>6. \A u \in Threads : Several(u)' <=> Several(u)
        BY <1>1 DEF Several
    <2>7. q \in want[t] /\ t # a
        BY <1>1, <1>3, <2>2, InvParts DEF Queued
    <2>8. CASE status[t] = "WAITING"
        <3>1. /\ status' = [status EXCEPT ![t] = "SUSPENDED"]
              /\ woken' = [woken EXCEPT ![a] = t] /\ pc' = [pc EXCEPT ![a] = "awaken"]
            BY <1>2, <1>5, <2>1, <2>8 DEF Goto
        <3>2. /\ pc'[a] = "awaken" /\ \A b \in Actors : b # a => pc'[b] = pc[b]
              /\ status'[t] = "SUSPENDED" /\ \A u \in Threads : u # t => status'[u] = status[u]
              /\ woken'[a] = t /\ \A b \in Actors : b # a => woken'[b] = woken[b]
              /\ TypeOK'
            BY SMTT(30), <1>1, <2>2, <2>4, <3>1, InvParts DEF TypeOK
        <3>3. pc[t] \in {"release", "back"}
            <4>1. pc[t] \in {"special", "pass"} => wqLock[q] = t
                BY <2>2, <2>7, InvParts DEF Locks, Queued
            <4> QED
                BY <1>3, <2>2, <2>7, <2>8, <4>1, InvParts DEF Placed
        <3>4. /\ t \notin Range(rq[curCpu[t]]) /\ t # next[curCpu[t]]
              /\ current[curCpu[t]] = t => next[curCpu[t]] # NoThread
              /\ \A b \in Actors : woken[b] # t
            BY <2>2, <2>8, <3>3, InvParts DEF Placed, InHand
        <3>5. Placed'
            <4>1. ASSUME NEW u \in Threads, u # t
                  PROVE  /\ status'[u] = status[u]
                         /\ \A b \in Actors : woken[b] = u => woken'[b] = u
                         /\ \A p \in Queues : u \in Range(wq'[p]) <=> u \in Range(wq[p])
                         /\ status[u] = "WAITING" => pc'[u] = pc[u]
                <5>1. u = a => status[u] # "WAITING"
                    BY <1>1, InvParts DEF Placed
                <5>2. status'[u] = status[u]
                    BY <3>2, <4>1
                <5>3. \A b \in Actors : woken[b] = u => woken'[b] = u
                    <6>1. \A b \in Actors : b # a => woken'[b] = woken[b]
                        BY <3>2
                    <6>2. woken[a] # u
                        BY <1>3
                    <6> QED
                        BY <6>1, <6>2
                <5>4. \A p \in Queues : u \in Range(wq'[p]) <=> u \in Range(wq[p])
                    BY <2>4, <4>1
                <5>5. status[u] = "WAITING" => pc'[u] = pc[u]
                    BY <3>2, <5>1
                <5> QED
                    BY <5>2, <5>3, <5>4, <5>5
            <4>2. /\ curCpu' = curCpu /\ current' = current /\ next' = next
                  /\ op' = op /\ want' = want
                BY <1>1
            <4>3. status'[t] = "SUSPENDED" /\ \E b \in Actors : woken'[b] = t
                BY <1>1, <2>2, <3>2
            <4>4. \A u \in Threads : u # t => StaysPut(u)
                BY <1>1, <4>1 DEF StaysPut
            <4>5. IsReadied(t)
                BY <3>4, <4>3 DEF IsReadied
            <4> QED
                BY <4>2, <4>4, <4>5, PlacedMoved
        <3>6. InHand'
            <4>1. ASSUME NEW b \in Actors, NEW u \in Threads, woken'[b] = u
                  PROVE  /\ status'[u] = "SUSPENDED" /\ u \notin Range(rq'[curCpu'[u]])
                         /\ pc'[u] \in {"release", "back"}
                         /\ \A d \in Actors : woken'[d] = u => b = d
                <5>1. CASE u = t
                    <6>1. \A d \in Actors : woken'[d] = t => d = a
                        BY <3>2, <3>4
                    <6>2. u \notin Range(rq'[curCpu'[u]]) /\ pc'[u] = pc[u]
                        BY <1>1, <2>2, <2>7, <3>2, <3>4, <5>1
                    <6> QED BY <3>2, <3>3, <4>1, <5>1, <6>1, <6>2
                <5>2. CASE u # t
                    <6>1. b # a /\ woken[b] = u
                        BY <3>2, <4>1, <5>2
                    <6>2. u # a
                        BY <1>1, <6>1, InvParts DEF InHand
                    <6>3. /\ status[u] = "SUSPENDED" /\ u \notin Range(rq[curCpu[u]])
                          /\ pc[u] \in {"release", "back"}
                          /\ \A d \in Actors : woken[d] = u => b = d
                        BY <6>1, InvParts DEF InHand
                    <6>4. \A d \in Actors : woken'[d] = u => woken[d] = u
                        BY <3>2, <5>2
                    <6>5. pc'[u] = pc[u] /\ status'[u] = status[u]
                        BY <3>2, <5>2, <6>2
                    <6>6. u \notin Range(rq'[curCpu'[u]])
                        BY <1>1, <6>3
                    <6> QED
                        BY <6>3, <6>4, <6>5, <6>6
                <5> QED
                    BY <5>1, <5>2
            <4>2. \A b \in Actors : woken'[b] \in Threads <=> pc'[b] = "awaken"
                BY <2>2, <3>2, InvParts DEF InHand
            <4> QED
                BY <4>1, <4>2 DEF InHand
        <3>7. Busy'
            BY <1>1, <3>2, WakerBusy
        <3>8. Queued'
            <4>1. ASSUME NEW p \in Queues, t \in Range(wq'[p]) PROVE Several(t)
                <5>1. t \in Range(wq[p]) /\ p # q
                    BY <2>2, <2>4, <4>1
                <5>2. p \in want[t]
                    BY <2>2, <5>1, InvParts DEF Queued
                <5> QED
                    BY <2>7, <5>1, <5>2 DEF Several
            <4>2. \A u \in Threads, p \in Queues : u \in Range(wq[p]) => u # a
                BY <1>1, InvParts DEF Queued
            <4>3. ASSUME NEW u \in Threads, NEW p \in Queues, u \in Range(wq'[p])
                  PROVE  /\ p \in want[u] /\ op[u] = "sleep"
                         /\ pc'[u] \in {"special", "pass", "release", "back", "relock", "remove"}
                         /\ ~Several(u) => status'[u] = "WAITING"
                <5>1. u \in Range(wq[p]) /\ u # a
                    BY <2>4, <4>2, <4>3
                <5>2. u = t => Several(u)
                    BY <4>1, <4>3
                <5>3. /\ p \in want[u] /\ op[u] = "sleep"
                      /\ pc[u] \in {"special", "pass", "release", "back", "relock", "remove"}
                      /\ ~Several(u) => status[u] = "WAITING"
                    BY <5>1, InvParts DEF Queued
                <5> QED
                    BY <3>2, <5>1, <5>2, <5>3
            <4>4. ASSUME NEW u \in Threads, pc'[u] \in {"special", "pass"}, op[u] = "sleep"
                  PROVE  status'[u] = "WAITING"
                <5>1. u # a
                    BY <3>2, <4>4
                <5>2. pc[u] = pc'[u] /\ u # t
                    BY <3>2, <3>3, <4>4, <5>1
                <5>3. status[u] = "WAITING"
                    BY <4>4, <5>2, InvParts DEF Queued
                <5> QED
                    BY <3>2, <5>2, <5>3
            <4> QED
                BY <1>1, <2>4, <2>6, <4>3, <4>4 DEF Queued
        <3>9. Locks'
            BY <1>1, <3>2, WakerLocks
        <3>10. Announced'
            <4>1. \A u \in Threads : (\E b \in Actors : woken[b] = u) =>
                                       \E b \in Actors : woken'[b] = u
                BY <1>3, <3>2
            <4>2. \A u \in Threads : rt[u] = "SLEEPING" => u # a
                BY <1>1, InvParts DEF Announced
            <4>3. ASSUME NEW u \in Threads, rt'[u] = "SLEEPING"
                  PROVE  \/ pc'[u] = "pass"
                         \/ /\ pc'[u] \in {"release", "back"}
                            /\ status'[u] = "WAITING" \/ \E b \in Actors : woken'[b] = u
                <5>1. rt[u] = "SLEEPING" /\ pc'[u] = pc[u]
                    BY <1>1, <3>2, <4>2, <4>3
                <5>2. \/ pc[u] = "pass"
                      \/ /\ pc[u] \in {"release", "back"}
                         /\ status[u] = "WAITING" \/ \E b \in Actors : woken[b] = u
                    BY <5>1, InvParts DEF Announced
                <5>3. u # t => status'[u] = status[u]
                    BY <3>2
                <5>4. u = t => \E b \in Actors : woken'[b] = u
                    BY <3>2
                <5> QED BY <3>3, <4>1, <5>1, <5>2, <5>3, <5>4
            <4>4. ASSUME NEW u \in Threads, pc'[u] = "pass"
                  PROVE  rt'[u] = "SLEEPING" <=> op'[u] = "sleep"
                <5>1. pc[u] = "pass"
                    BY <3>2, <4>4
                <5> QED BY <1>1, <5>1, InvParts DEF Announced
            <4> QED
                BY <4>3, <4>4 DEF Announced
        <3> QED
            BY <2>5, <3>2, <3>5, <3>6, <3>7, <3>8, <3>9, <3>10 DEF Inv
    <2>9. CASE status[t] # "WAITING"
        <3>1. /\ status' = status /\ woken' = woken
              /\ pc' = [pc EXCEPT ![a] = IF op[a] = "wake_all" THEN "dequeue" ELSE "wunlock"]
            BY <1>2, <1>5, <2>1, <2>9 DEF Goto
        <3>2. /\ pc'[a] \in {"dequeue", "wunlock"}
              /\ \A b \in Actors : b # a => pc'[b] = pc[b]
              /\ TypeOK'
            BY <1>1, <2>4, <3>1, InvParts DEF TypeOK
        <3>3. Placed'
            <4>1. \A u \in Threads : status[u] = "WAITING" => u # a /\ u # t
                BY <1>1, <2>9, InvParts DEF Placed
            <4>2. /\ \A u \in Threads : status[u] = "WAITING" => pc'[u] = pc[u]
                  /\ \A u \in Threads : status[u] = "WAITING" =>
                         \A p \in Queues : u \in Range(wq'[p]) <=> u \in Range(wq[p])
                BY <2>4, <3>2, <4>1
            <4>3. /\ status' = status /\ woken' = woken /\ op' = op /\ want' = want /\ rq' = rq
                  /\ curCpu' = curCpu /\ current' = current /\ next' = next
                BY <1>1, <3>1
            <4>4. \A u \in Threads : StaysPut(u)
                BY <4>2, <4>3 DEF StaysPut
            <4>5. NoThread \notin Threads
                BY SchedAssumption
            <4> QED
                BY <4>3, <4>4, <4>5, PlacedMoved
        <3>4. InHand'
            <4>1. \A b \in Actors : woken[b] \in Threads \cup {NoThread}
                BY InvParts DEF TypeOK
            <4>2. a \in Threads => \A b \in Actors : woken[b] # a
                BY <1>1, InvParts DEF InHand
            <4>3. a # NoThread /\ pc'[a] # "awaken"
                BY <3>2
            <4>4. \A b \in Actors : woken[b] # a
                BY <4>1, <4>2, <4>3
            <4> QED BY <1>1, <3>1, <3>2, <4>3, <4>4, InHandUnmoved
        <3>5. Busy'
            BY <1>1, <3>2, WakerBusy
        <3>6. Queued'
            <4>1. \A u \in Threads, p \in Queues : u \in Range(wq[p]) => u # a
                BY <1>1, InvParts DEF Queued
            <4> QED
                BY <1>1, <2>4, <2>6, <3>1, <3>2, <4>1, InvParts DEF Queued
        <3>7. Locks'
            BY <1>1, <3>2, WakerLocks
        <3>8. Announced'
            BY <1>1, <3>1, <3>2, AnnouncedKept
        <3> QED
            BY <2>5, <3>2, <3>3, <3>4, <3>5, <3>6, <3>7, <3>8 DEF Inv
    <2> QED
        BY <2>8, <2>9
<1> QED
    BY <1>4, <1>5
LEMMA WakeAwakenInv == ASSUME NEW a \in Actors, Inv, WakeAwaken(a) PROVE Inv'
<1> USE Distinct, Types DEF Goto, queueVars
<1>1. /\ Active(a) /\ pc[a] = "awaken"
      /\ pc' = [pc EXCEPT ![a] = IF op[a] = "wake_all" THEN "dequeue" ELSE "wunlock"]
      /\ woken' = [woken EXCEPT ![a] = NoThread]
      /\ UNCHANGED <<curCpu, current, next, wq, wqLock, cond, op, want>>
    BY DEF WakeAwaken
<1>2. PICK t \in Threads : t = woken[a]
    BY <1>1, InvParts DEF InHand
<1>3. /\ status[t] = "SUSPENDED" /\ t \notin Range(rq[curCpu[t]])
      /\ pc[t] \in {"release", "back"} /\ t # a
      /\ \A b \in Actors : woken[b] = t => b = a
    BY <1>1, <1>2, InvParts DEF InHand
<1>4. /\ rq' = [rq EXCEPT ![curCpu[t]] = Append(rq[curCpu[t]], t)]
      /\ status' = [status EXCEPT ![t] = "SUSPENDED"]
      /\ rt' = [rt EXCEPT ![t] = "ADMITTED"]
    BY <1>2 DEF WakeAwaken, MakeRunnable
<1>5. /\ \A c \in CPUs : rq'[c] \in Seq(Threads) /\ IsInjective(rq'[c])
      /\ \A c \in CPUs, u \in Threads :
             u \in Range(rq'[c]) <=> u \in Range(rq[c]) \/ (u = t /\ c = curCpu[t])
      /\ rq' \in [CPUs -> Seq(Threads)]
    <2>1. /\ rq'[curCpu[t]] = Append(rq[curCpu[t]], t)
          /\ \A c \in CPUs : c # curCpu[t] => rq'[c] = rq[c]
          /\ Append(rq[curCpu[t]], t) \in Seq(Threads)
          /\ DOMAIN rq' = CPUs
        BY <1>4, QueueTypes, AppendFacts, InvParts DEF TypeOK
    <2>2. /\ Range(rq'[curCpu[t]]) = Range(rq[curCpu[t]]) \cup {t}
          /\ IsInjective(rq'[curCpu[t]])
        <3>1. rq[curCpu[t]] \in Seq(Threads) /\ IsInjective(rq[curCpu[t]])
            BY QueueTypes
        <3>2. /\ Range(Append(rq[curCpu[t]], t)) = Range(rq[curCpu[t]]) \cup {t}
              /\ IsInjective(Append(rq[curCpu[t]], t))
            BY <1>3, <3>1, AppendFacts
        <3> QED
            BY <2>1, <3>2
    <2>3. rq' \in [CPUs -> Seq(Threads)]
        BY <1>4, <2>1, InvParts DEF TypeOK
    <2> QED
        BY <2>1, <2>2, <2>3, QueueTypes
<1>6. /\ pc'[a] \in {"dequeue", "wunlock"} /\ \A b \in Actors : b # a => pc'[b] = pc[b]
      /\ \A u \in Threads : status'[u] = status[u]
      /\ rt'[t] = "ADMITTED" /\ \A u \in Threads : u # t => rt'[u] = rt[u]
      /\ woken'[a] = NoThread /\ \A b \in Actors : b # a => woken'[b] = woken[b]
    BY <1>1, <1>3, <1>4, InvParts DEF TypeOK
<1>7. TypeOK'
    BY <1>1, <1>4, <1>5, InvParts DEF TypeOK
<1>8. Local' /\ QueuesInjective'
    BY <1>1, <1>5, InvParts DEF Local, QueuesInjective
<1>9. \A u \in Threads : u # t => ((\E b \in Actors : woken[b] = u) =>
                                   \E b \in Actors : woken'[b] = u)
    BY <1>2, <1>6
<1>10. Placed'
    <2>1. ASSUME NEW u \in Threads, u # t
          PROVE  /\ u \in Range(rq'[curCpu[u]]) <=> u \in Range(rq[curCpu[u]])
                 /\ status[u] = "WAITING" => pc'[u] = pc[u]
        <3>1. status[u] = "WAITING" => u # a
            BY <1>1, InvParts DEF Placed
        <3> QED
            BY <1>5, <1>6, <2>1, <3>1
    <2>2. t \in Range(rq'[curCpu[t]])
        BY <1>5
    <2>3. /\ curCpu' = curCpu /\ current' = current /\ next' = next /\ wq' = wq
          /\ op' = op /\ want' = want
        BY <1>1
    <2>4. /\ status'[t] = "SUSPENDED" /\ t # next[curCpu[t]]
          /\ current[curCpu[t]] = t => next[curCpu[t]] # NoThread
        <3>1. /\ t # next[curCpu[t]]
              /\ current[curCpu[t]] = t => next[curCpu[t]] # NoThread
            BY <1>3, InvParts DEF Placed
        <3>2. status'[t] = "SUSPENDED"
            BY <1>3, <1>6
        <3> QED
            BY <3>1, <3>2
    <2>5. \A u \in Threads : u # t => StaysPut(u)
        BY <1>6, <1>9, <2>1, <2>3 DEF StaysPut
    <2>6. IsReadied(t)
        BY <2>2, <2>4 DEF IsReadied
    <2> QED
        BY <2>3, <2>5, <2>6, PlacedMoved
<1>11. InHand'
    <2>1. ASSUME NEW b \in Actors, NEW u \in Threads, woken'[b] = u
          PROVE  /\ status'[u] = "SUSPENDED" /\ u \notin Range(rq'[curCpu[u]])
                 /\ pc'[u] \in {"release", "back"}
                 /\ \A d \in Actors : woken'[d] = u => b = d
        <3>1. b # a /\ woken[b] = u
            BY <1>6, <2>1
        <3>2. u # t /\ u # a
            BY <1>1, <1>3, <3>1, InvParts DEF InHand
        <3>3. /\ status[u] = "SUSPENDED" /\ u \notin Range(rq[curCpu[u]])
              /\ pc[u] \in {"release", "back"}
              /\ \A d \in Actors : woken[d] = u => b = d
            BY <3>1, InvParts DEF InHand
        <3>4. u \notin Range(rq'[curCpu[u]])
            BY <1>5, <3>2, <3>3
        <3>6. status'[u] = "SUSPENDED" /\ pc'[u] = pc[u]
            BY <1>6, <3>2, <3>3
        <3>5. \A d \in Actors : woken'[d] = u => woken[d] = u
            BY <1>6
        <3> QED
            BY <3>3, <3>4, <3>5, <3>6
    <2>2. \A b \in Actors : woken'[b] \in Threads <=> pc'[b] = "awaken"
        <3>1. pc'[a] # "awaken" /\ woken'[a] \notin Threads
            BY <1>6
        <3>2. \A b \in Actors : b # a => woken'[b] = woken[b] /\ pc'[b] = pc[b]
            BY <1>6
        <3> QED BY <3>1, <3>2, InvParts DEF InHand
    <2>3. curCpu' = curCpu
        BY <1>1
    <2> QED
        BY <2>1, <2>2, <2>3, InHandStep
<1>12. Busy'
    BY <1>1, <1>6, WakerBusy
<1>13. Queued'
    <2>1. \A u \in Threads : Several(u)' <=> Several(u)
        BY <1>1 DEF Several
    <2>2. \A u \in Threads, q \in Queues : u \in Range(wq[q]) => u # a
        BY <1>1, InvParts DEF Queued
    <2>3. \A u \in Threads : u # a => pc'[u] = pc[u] /\ status'[u] = status[u]
        BY <1>6
    <2>4. pc'[a] \notin {"special", "pass"}
        BY <1>6
    <2> QED
        BY <1>1, <2>1, <2>2, <2>3, <2>4, InvParts DEF Queued
<1>14. Locks'
    BY <1>1, <1>6, WakerLocks
<1>15. Announced'
    <2>1. /\ pc[t] # "pass" /\ pc[a] \notin {"pass", "release", "back"} /\ pc'[a] # "pass"
          /\ op' = op
        BY <1>1, <1>3, <1>6
    <2>2. \A u \in Threads : status'[u] = status[u] /\ (u # a => pc'[u] = pc[u])
        BY <1>6
    <2>3. rt'[t] # "SLEEPING" /\ \A u \in Threads : u # t => rt'[u] = rt[u]
        BY <1>4, InvParts DEF TypeOK
    <2>4. Announces(a, t)
        BY <1>9, <2>1, <2>2, <2>3 DEF Announces
    <2> QED
        BY <2>4, AnnouncedReady
<1> QED
    BY <1>7, <1>8, <1>10, <1>11, <1>12, <1>13, <1>14, <1>15 DEF Inv

LEMMA ConsumeInv == ASSUME NEW t \in Threads, Inv, Consume(t) PROVE Inv'
<1> USE Distinct, Types DEF schedVars, localVars
<1>1. /\ Active(t) /\ pc[t] = "run"
      /\ UNCHANGED <<status, rt, curCpu, rq, current, next, wq, wqLock, pc, op, want, woken>>
    BY DEF Consume
<1>2. PICK q \in Queues : cond' = [cond EXCEPT ![q] = FALSE]
    BY DEF Consume
<1>3. cond' \in [Queues -> BOOLEAN]
    BY <1>2, InvParts DEF TypeOK
<1>4. TypeOK'
    BY <1>1, <1>3, InvParts DEF TypeOK
<1>5. Local' /\ Placed' /\ InHand' /\ Queued' /\ Announced' /\ QueuesInjective'
    BY <1>1, QuietStep
<1>6. Busy'
    BY <1>1, InvParts DEF Busy
<1>7. Locks'
    BY <1>1, InvParts DEF Locks
<1> QED
    BY <1>4, <1>5, <1>6, <1>7 DEF Inv

-----------------------------------------------------------------------------
(* The theorems *)

LEMMA NextInv == ASSUME Inv, [Next]_vars PROVE Inv'
<1>1. ASSUME NEW t \in Threads, ThreadStep(t) PROVE Inv'
    BY <1>1, YieldInv, SpecialStatusInv, SpecialPassInv, ReleaseCallbackInv, BackInv,
       SleepCallInv, SleepLockInv, SleepCheckInv, SleepUnlockInv, SleepRemoveInv, ConsumeInv
       DEF ThreadStep, handle_special_switch, nk_wait_queue_sleep
<1>2. ASSUME NEW a \in Actors, nk_wait_queue_wake(a) PROVE Inv'
    BY <1>2, WakeCallInv, WakeLockInv, WakeDequeueInv, WakeAwakenInv, WakeUnlockInv
       DEF nk_wait_queue_wake
<1>3. ASSUME NEW c \in CPUs, Preempt(c) \/ Switch(c) PROVE Inv'
    BY <1>3, PreemptInv, SwitchInv
<1>4. CASE UNCHANGED vars
    BY <1>4, StutterInv
<1> QED
    BY <1>1, <1>2, <1>3, <1>4 DEF Next

\* The scheduler core keeps its inductive invariant.
THEOREM Invariance == Spec => []Inv
BY InitInv, NextInv, PTL DEF Spec

\* The scheduler's, the queues' and the local state keep their types.
THEOREM TypeCorrect == Spec => []TypeOK
<1>1. Inv => TypeOK
    BY InvParts
<1> QED
    BY <1>1, Invariance, PTL

\* No thread's context is in use on two CPUs: the pass, the special switches
\* and the wake-ups of scheduler.c never hand a thread to a second CPU.
THEOREM ThreadsRunOnOneCpu == Spec => []OneCpuPerThread
<1>1. Inv => OneCpuPerThread
    BY InvParts DEF Local, OneCpuPerThread
<1> QED
    BY <1>1, Invariance, PTL

\* _sched_make_runnable never finds a thread already on a run queue.
THEOREM ThreadsAreQueuedOnce == Spec => []QueuedOnce
<1>1. Inv => QueuedOnce
    BY InvQueuedOnce
<1> QED
    BY <1>1, Invariance, PTL

\* Between giving up its CPU and being made runnable again a thread is always
\* where a pass or a waker will find it.
THEOREM ThreadsAreNeverForgotten == Spec => []NeverForgotten
<1>1. Inv => NeverForgotten
    BY InvNeverForgotten
<1> QED
    BY <1>1, Invariance, PTL

\* The error branches of _sched_need_resched and handle_special_switch are
\* unreachable.
THEOREM SchedulerErrorsUnreachable == Spec => []NoSchedulerError
<1>1. Inv => NoSchedulerError
    BY InvNoSchedulerError
<1> QED
    BY <1>1, Invariance, PTL

\* A step after which no thread newly waits for a true condition, and that no
\* waker with work left leaves, loses no wake-up.
LEMMA WakeupKept ==
    ASSUME NoLostWakeup,
           \A q \in Queues : \A t \in Range(wq'[q]) : cond'[q] /\ status'[t] = "WAITING" =>
               t \in Range(wq[q]) /\ cond[q] /\ status[t] = "WAITING",
           \A a \in Actors : pc[a] \in {"wlock", "dequeue", "awaken"} =>
               pc'[a] \in {"wlock", "dequeue", "awaken"} /\ want'[a] = want[a]
    PROVE  NoLostWakeup'
<1>1. ASSUME NEW q \in Queues, NEW t \in Range(wq'[q]), cond'[q] /\ status'[t] = "WAITING"
      PROVE  \E a \in Actors : pc'[a] \in {"wlock", "dequeue", "awaken"} /\ want'[a] = {q}
    <2>1. PICK a \in Actors : pc[a] \in {"wlock", "dequeue", "awaken"} /\ want[a] = {q}
        BY <1>1 DEF NoLostWakeup
    <2>2. pc'[a] \in {"wlock", "dequeue", "awaken"} /\ want'[a] = {q}
        BY <2>1
    <2> QED BY <2>2
<1> QED BY <1>1 DEF NoLostWakeup

\* The steps of a special switch, the passes and the context switches touch
\* neither the wait queues nor their conditions.
LEMMA SchedulingKeepsWakeups ==
    ASSUME Inv, NoLostWakeup,
           \/ \E t \in Threads : Yield(t) \/ handle_special_switch(t)
           \/ \E c \in CPUs : Preempt(c) \/ Switch(c)
    PROVE  NoLostWakeup'
<1> USE Distinct, Types DEF queueVars, localVars, schedVars
<1>1. wq' = wq /\ cond' = cond
    BY DEF Yield, handle_special_switch, SpecialStatus, SpecialPass, ReleaseCallback, Back,
           Preempt, Switch
<1>2. \A a \in Actors : pc[a] \in {"wlock", "dequeue", "awaken"} =>
          pc'[a] = pc[a] /\ want'[a] = want[a]
    <2>1. ASSUME NEW t \in Threads, Yield(t) \/ handle_special_switch(t)
          PROVE  /\ pc[t] \notin {"wlock", "dequeue", "awaken"}
                 /\ \A a \in Actors : a # t => pc'[a] = pc[a] /\ want'[a] = want[a]
        <3>1. CASE Yield(t) \/ SpecialStatus(t) \/ SpecialPass(t) \/ ReleaseCallback(t)
            BY <3>1, Arrays DEF Yield, SpecialStatus, SpecialPass, ReleaseCallback, Goto
        <3>2. CASE Back(t)
            <4>1. CASE Several(t)
                BY <3>2, <4>1, Arrays DEF Back, Goto
            <4>2. CASE ~Several(t)
                BY <3>2, <4>2, Arrays DEF Back, Finish, Goto
            <4> QED
                BY <4>1, <4>2
        <3> QED
            BY <2>1, <3>1, <3>2 DEF handle_special_switch
    <2>2. ASSUME NEW c \in CPUs, Preempt(c) \/ Switch(c) PROVE pc' = pc /\ want' = want
        BY <2>2 DEF Preempt, Switch
    <2> QED
        BY <2>1, <2>2
<1>3. ASSUME NEW q \in Queues, NEW t \in Range(wq[q]), status'[t] = "WAITING"
      PROVE  status[t] = "WAITING"
    <2>1. t \in Threads
        BY QueueThreads
    <2>2. ASSUME NEW c \in CPUs, NeedResched(c) PROVE status[t] = "WAITING"
        <3>1. ASSUME NEW queue, NEW stat \in [Threads -> {"RUNNING", "SUSPENDED", "WAITING"}],
                     Choose(c, queue, stat)
              PROVE  stat[t] = "WAITING"
            BY <1>3, <2>1, <3>1 DEF Choose
        <3>2. [status EXCEPT ![current[c]] = "SUSPENDED"]
                  \in [Threads -> {"RUNNING", "SUSPENDED", "WAITING"}]
              /\ status \in [Threads -> {"RUNNING", "SUSPENDED", "WAITING"}]
            BY InvParts DEF TypeOK
        <3>3. \/ [status EXCEPT ![current[c]] = "SUSPENDED"][t] = "WAITING"
              \/ status[t] = "WAITING"
            BY <2>2, <3>1, <3>2 DEF NeedResched
        <3> QED
            BY <2>1, <3>3, InvParts DEF TypeOK
    <2>3. status' = status \/ \E c \in CPUs : NeedResched(c)
        BY DEF Yield, handle_special_switch, SpecialStatus, SpecialPass, ReleaseCallback, Back,
               Preempt, Switch
    <2> QED
        BY <1>3, <2>2, <2>3
<1> QED
    BY <1>1, <1>2, <1>3, WakeupKept

\* A thread that goes to sleep checked the condition under the queue's lock.
LEMMA SleepingKeepsWakeups ==
    ASSUME Inv, NoLostWakeup, NEW t \in Threads, nk_wait_queue_sleep(t) \/ Consume(t)
    PROVE  NoLostWakeup'
<1> USE Distinct, Types DEF queueVars, localVars, schedVars
<1>1. /\ pc[t] \notin {"wlock", "dequeue", "awaken"}
      /\ \A a \in Actors : a # t => pc'[a] = pc[a] /\ want'[a] = want[a]
    <2>1. CASE SleepCall(t) \/ SleepLock(t) \/ SleepRemove(t) \/ Consume(t)
        <3>1. CASE SleepCall(t)
            BY <3>1, Arrays DEF SleepCall, Goto
        <3>2. CASE SleepLock(t)
            BY <3>2, Arrays DEF SleepLock, Goto
        <3>3. CASE SleepRemove(t)
            BY <3>3, Arrays DEF SleepRemove, Goto
        <3>4. CASE Consume(t)
            BY <3>4 DEF Consume
        <3> QED BY <2>1, <3>1, <3>2, <3>3, <3>4
    <2>2. CASE SleepCheck(t)
        BY <2>2, Arrays DEF SleepCheck, Goto
    <2>3. CASE SleepUnlock(t)
        <3>1. \/ Finish(t, "unlock")
              \/ Goto(t, "unlock", "unlock") /\ UNCHANGED <<op, want>>
            BY <2>3 DEF SleepUnlock
        <3> QED
            BY <3>1, Arrays DEF Finish, Goto
    <2> QED
        BY <2>1, <2>2, <2>3 DEF nk_wait_queue_sleep
<1>2. ASSUME NEW q \in Queues, NEW u \in Range(wq'[q]), cond'[q], status'[u] = "WAITING"
      PROVE  u \in Range(wq[q]) /\ cond[q] /\ status[u] = "WAITING"
    <2>1. CASE SleepCall(t) \/ SleepLock(t) \/ SleepUnlock(t)
        BY <1>2, <2>1 DEF SleepCall, SleepLock, SleepUnlock
    <2>2. CASE Consume(t)
        <3>1. PICK p \in Queues : cond' = [cond EXCEPT ![p] = FALSE]
            BY <2>2 DEF Consume
        <3>2. cond \in [Queues -> BOOLEAN]
            BY InvParts DEF TypeOK
        <3>3. cond[q]
            BY <1>2, <3>1, <3>2
        <3> QED
            BY <1>2, <2>2, <3>3 DEF Consume
    <2>3. CASE SleepRemove(t)
        <3>1. /\ wq' = [p \in Queues |-> IF p \in want[t] THEN Without(wq[p], t) ELSE wq[p]]
              /\ status' = status /\ cond' = cond
            BY <2>3 DEF SleepRemove
        <3>2. u \in Range(wq[q])
            <4>1. Range(Without(wq[q], t)) \subseteq Range(wq[q])
                BY QueueTypes, WithoutFacts
            <4>2. wq'[q] = IF q \in want[t] THEN Without(wq[q], t) ELSE wq[q]
                BY <3>1
            <4> QED BY <1>2, <4>1, <4>2
        <3> QED
            BY <1>2, <3>1, <3>2
    <2>4. CASE SleepCheck(t)
        <3>1. CASE \E p \in want[t] : cond[p]
            BY <1>2, <2>4, <3>1 DEF SleepCheck
        <3>2. CASE ~\E p \in want[t] : cond[p]
            <4>1. /\ wq' = [p \in Queues |-> IF p \in want[t] THEN Append(wq[p], t) ELSE wq[p]]
                  /\ status' = [status EXCEPT ![t] = "WAITING"] /\ cond' = cond
                BY <2>4, <3>2 DEF SleepCheck
            <4>2. q \notin want[t]
                BY <1>2, <3>2, <4>1
            <4>3. u \in Range(wq[q]) /\ u \in Threads
                BY <1>2, <4>1, <4>2, QueueThreads
            <4>4. u # t
                BY <4>2, <4>3, InvParts DEF Queued
            <4> QED
                BY <1>2, <4>1, <4>3, <4>4, InvParts DEF TypeOK
        <3> QED
            BY <3>1, <3>2
    <2> QED
        BY <2>1, <2>2, <2>3, <2>4 DEF nk_wait_queue_sleep
<1> QED
    BY <1>1, <1>2, WakeupKept

\* A waker that wakes all leaves a queue only when it is empty.
LEMMA WakingKeepsWakeups ==
    ASSUME WakeOps = {"wake_all"}, Inv, NoLostWakeup, NEW a \in Actors, nk_wait_queue_wake(a)
    PROVE  NoLostWakeup'
<1> USE Distinct, Types DEF queueVars, schedVars
<1>1. CASE WakeCall(a)
    <2>1. PICK q \in Queues : /\ want' = [want EXCEPT ![a] = {q}]
                              /\ cond' = [cond EXCEPT ![q] = TRUE]
        BY <1>1 DEF WakeCall
    <2>2. /\ pc[a] \in {"run", "off"} /\ pc'[a] = "wlock" /\ want'[a] = {q}
          /\ \A b \in Actors : b # a => pc'[b] = pc[b] /\ want'[b] = want[b]
          /\ wq' = wq /\ status' = status
        BY <1>1, <2>1, InvParts DEF WakeCall, Goto, Return, TypeOK
    <2>3. \A p \in Queues : p # q => cond'[p] = cond[p]
        BY <2>1, InvParts DEF TypeOK
    <2>4. ASSUME NEW p \in Queues, NEW t \in Range(wq'[p]), cond'[p], status'[t] = "WAITING"
          PROVE  \E b \in Actors : /\ pc'[b] \in {"wlock", "dequeue", "awaken"}
                                   /\ want'[b] = {p}
        <3>1. CASE p = q
            BY <2>2, <3>1
        <3>2. CASE p # q
            <4>1. PICK b \in Actors : pc[b] \in {"wlock", "dequeue", "awaken"} /\ want[b] = {p}
                BY <2>2, <2>3, <2>4, <3>2 DEF NoLostWakeup
            <4> QED
                BY <2>2, <4>1
        <3> QED
            BY <3>1, <3>2
    <2> QED
        BY <2>4 DEF NoLostWakeup
<1>2. CASE WakeLock(a) \/ WakeUnlock(a)
    <2>1. wq' = wq /\ cond' = cond /\ status' = status
        BY <1>2 DEF WakeLock, WakeUnlock
    <2>2. /\ \A b \in Actors : b # a => pc'[b] = pc[b] /\ want'[b] = want[b]
          /\ \/ pc[a] = "wlock" /\ pc'[a] = "dequeue" /\ want'[a] = want[a]
             \/ pc[a] = "wunlock"
        <3>1. CASE WakeLock(a)
            BY <3>1, Arrays DEF WakeLock, Goto
        <3>2. CASE WakeUnlock(a)
            BY <3>2, Arrays DEF WakeUnlock, Finish, Goto
        <3> QED BY <1>2, <3>1, <3>2
    <2> QED
        BY <2>1, <2>2, WakeupKept
<1>3. CASE WakeAwaken(a)
    <2>1. /\ wq' = wq /\ cond' = cond /\ want' = want /\ pc[a] = "awaken"
          /\ op[a] = "wake_all"
        BY <1>3, InvParts DEF WakeAwaken, Goto, Locks
    <2>2. pc'[a] = "dequeue" /\ \A b \in Actors : b # a => pc'[b] = pc[b]
        BY <1>3, <2>1, InvParts DEF WakeAwaken, Goto, TypeOK
    <2>3. \A t \in Threads : status'[t] = "WAITING" => status[t] = "WAITING"
        BY <1>3, InvParts DEF WakeAwaken, MakeRunnable, TypeOK
    <2>4. \A q \in Queues : \A t \in Range(wq[q]) : t \in Threads
        BY QueueThreads
    <2> QED
        BY <2>1, <2>2, <2>3, <2>4, WakeupKept
<1>4. CASE WakeDequeue(a)
    <2>1. /\ cond' = cond /\ want' = want /\ pc[a] = "dequeue" /\ op[a] = "wake_all"
        BY <1>4, InvParts DEF WakeDequeue, Goto, Locks
    <2>2. PICK q \in Queues :
              /\ want[a] = {q}
              /\ IF wq[q] = <<>>
                 THEN Goto(a, "dequeue", "wunlock") /\ UNCHANGED <<status, wq>>
                 ELSE /\ wq' = [wq EXCEPT ![q] = Tail(@)]
                      /\ \/ /\ status' = [status EXCEPT ![Head(wq[q])] = "SUSPENDED"]
                            /\ Goto(a, "dequeue", "awaken")
                         \/ status' = status /\ Goto(a, "dequeue", "dequeue")
        <3>1. PICK q \in Queues : want[a] = {q}
            BY <2>1, InvParts DEF Locks
        <3>2. PICK p \in want[a] :
                  IF wq[p] = <<>>
                  THEN Goto(a, "dequeue", "wunlock") /\ UNCHANGED <<status, wq>>
                  ELSE /\ wq' = [wq EXCEPT ![p] = Tail(@)]
                       /\ \/ /\ status' = [status EXCEPT ![Head(wq[p])] = "SUSPENDED"]
                             /\ Goto(a, "dequeue", "awaken")
                          \/ status' = status /\ Goto(a, "dequeue", "dequeue")
            BY <1>4, <2>1 DEF WakeDequeue
        <3> QED BY <3>1, <3>2
    <2>3. \A b \in Actors : b # a => pc'[b] = pc[b]
        BY <2>2, Arrays DEF Goto
    <2>4. CASE wq[q] = <<>>
        <3>1. wq' = wq /\ status' = status
            BY <2>2, <2>4
        <3>2. Range(wq[q]) = {}
            BY <2>4, NobodyQueued
        <3>3. ASSUME NEW p \in Queues, NEW t \in Range(wq[p]), cond[p], status[t] = "WAITING"
              PROVE  \E b \in Actors : /\ pc'[b] \in {"wlock", "dequeue", "awaken"}
                                       /\ want[b] = {p}
            <4>1. PICK b \in Actors : pc[b] \in {"wlock", "dequeue", "awaken"} /\ want[b] = {p}
                BY <3>3 DEF NoLostWakeup
            <4>2. b # a
                BY <2>2, <3>2, <3>3, <4>1
            <4> QED
                BY <2>3, <4>1, <4>2
        <3> QED
            BY <2>1, <3>1, <3>3 DEF NoLostWakeup
    <2>5. CASE wq[q] # <<>>
        <3>1. pc'[a] \in {"dequeue", "awaken"}
            BY <2>2, <2>5, Arrays DEF Goto
        <3>2. \A t \in Threads : status'[t] = "WAITING" => status[t] = "WAITING"
            BY <2>2, <2>5, Arrays
        <3>3. \A p \in Queues : Range(wq'[p]) \subseteq Range(wq[p]) /\ Range(wq[p]) \subseteq Threads
            <4>1. wq'[q] = Tail(wq[q]) /\ \A p \in Queues : p # q => wq'[p] = wq[p]
                BY <2>2, <2>5, InvParts DEF TypeOK
            <4>2. Range(Tail(wq[q])) \subseteq Range(wq[q])
                BY <2>5, QueueTypes, HeadFacts
            <4>3. \A p \in Queues : Range(wq[p]) \subseteq Threads
                BY QueueThreads
            <4> QED
                BY <4>1, <4>2, <4>3
        <3> QED
            BY <2>1, <2>3, <3>1, <3>2, <3>3, WakeupKept
    <2> QED
        BY <2>4, <2>5
<1> QED
    BY <1>1, <1>2, <1>3, <1>4 DEF nk_wait_queue_wake

\* When every waker makes the condition true and calls nk_wait_queue_wake_all,
\* no thread is left asleep with its condition true and no waker on its way.
THEOREM NoWakeupIsLost ==
    ASSUME WakeOps = {"wake_all"}
    PROVE  Spec => []NoLostWakeup
<1>1. Init => NoLostWakeup
    <2>1. ASSUME Init, NEW q \in Queues PROVE ~cond[q]
        BY <2>1 DEF Init
    <2> QED
        BY <2>1 DEF NoLostWakeup
<1>2. ASSUME Inv, NoLostWakeup, [Next]_vars PROVE NoLostWakeup'
    <2>1. ASSUME NEW t \in Threads, ThreadStep(t) PROVE NoLostWakeup'
        <3>1. CASE Yield(t) \/ handle_special_switch(t)
            BY <1>2, <3>1, SchedulingKeepsWakeups
        <3>2. CASE nk_wait_queue_sleep(t) \/ Consume(t)
            BY <1>2, <3>2, SleepingKeepsWakeups
        <3> QED
            BY <2>1, <3>1, <3>2 DEF ThreadStep
    <2>2. ASSUME NEW a \in Actors, nk_wait_queue_wake(a) PROVE NoLostWakeup'
        BY <1>2, <2>2, WakingKeepsWakeups
    <2>3. ASSUME NEW c \in CPUs, Preempt(c) \/ Switch(c) PROVE NoLostWakeup'
        BY <1>2, <2>3, SchedulingKeepsWakeups
    <2>4. CASE UNCHANGED vars
        BY <1>2, <2>4 DEF vars, NoLostWakeup
    <2> QED
        BY <1>2, <2>1, <2>2, <2>3, <2>4 DEF Next
<1> QED
    BY <1>1, <1>2, Invariance, PTL DEF Spec
=============================================================================
