------------------------------ MODULE TaskProofs ------------------------------
(***************************************************************************)
(* Proofs about the tasks, for any sets of CPUs, tasks and threads: a      *)
(* task's memory is in one place, no task is run twice, and who waits for  *)
(* a task is given its output.                                             *)
(*                                                                         *)
(* Who completes a task reads its flags again after the flag is set that   *)
(* lets the waiter free it.  All this holds while no detached task is      *)
(* given memory that somebody still looks at in this way (SafeReuse), and  *)
(* it never is if detached tasks have CPUs of their own (Separate).        *)
(***************************************************************************)
EXTENDS Task, TLAPS

\* The memory given to a detached task is not that of a task somebody is still
\* about to read the flags of.
SafeReuse ==
    \A p \in Detached : nk_task_produce(p) =>
        \A a \in Actors : pc[a] = "after" => cur[a] # mine'[p]

-----------------------------------------------------------------------------
(* The inductive invariant *)

\* a has a task in its hands: it runs it, or will free it.
Holding(a) ==
    \/ pc[a] \in {"run", "output", "flag"}
    \/ pc[a] = "after" /\ task[cur[a]].detached

\* The places a task can be in: a kind, and the CPU, the producer or the actor.
In(k, x, t) ==
    \/ k = "heap" /\ x = Nothing /\ t \in heap
    \/ k = "stack" /\ x \in CPUs /\ t \in Range(free_stack[x])
    \/ k = "unsized" /\ x \in CPUs /\ t \in Range(unsized_queue[x])
    \/ k = "sized" /\ x \in CPUs /\ t \in Range(sized_queue[x])
    \/ k = "made" /\ x \in Producers /\ pc[x] = "enqueue" /\ mine[x] = t
    \/ k = "held" /\ x \in Actors /\ Holding(x) /\ cur[x] = t

Kinds == {"heap", "stack", "unsized", "sized", "made", "held"}
Owners == Actors \cup {Nothing}

Injective(s) == \A i, j \in DOMAIN s : s[i] = s[j] => i = j

\* No task is in two places.
Exclusive ==
    \A t \in Tasks : \A k, l \in Kinds : \A x, y \in Owners :
        In(k, x, t) /\ In(l, y, t) => k = l /\ x = y

\* No task is twice in one queue or stack.
NoRepeats ==
    \A c \in CPUs : /\ Injective(free_stack[c])
                    /\ Injective(unsized_queue[c]) /\ Injective(sized_queue[c])

Labels == {"own", "idle", "pump", "enqueue", "wake", "wait", "run", "output", "flag", "after",
           "other", "sleep", "asleep"}

\* The types of the variables, and how far the reuse stacks grow.
Typed ==
    /\ unsized_queue \in [CPUs -> Seq(Tasks)] /\ sized_queue \in [CPUs -> Seq(Tasks)]
    /\ free_stack \in [CPUs -> Seq(Tasks)] /\ heap \in SUBSET Tasks
    /\ task \in [Tasks -> [size : Nat, detached : BOOLEAN, completed : BOOLEAN, job : Nat,
                           output : Nat, home : CPUs \cup {Nothing}]]
    /\ sleeping \in SUBSET CPUs
    /\ pc \in [Actors -> Labels] /\ cur \in [Actors -> Tasks \cup {Nothing}]
    /\ mine \in [Producers -> Tasks \cup {Nothing}]
    /\ want \in [Producers -> Nat] /\ got \in [Producers -> Nat]
    /\ dest \in [Producers -> BOOLEAN]
    /\ jobs \in 0 .. MaxJobs /\ ran \in [1 .. MaxJobs -> Nat]
    /\ \A c \in CPUs : Len(free_stack[c]) <= PoolSize

\* Who does what, and with which task.
Roles ==
    /\ \A p \in Producers : pc[p] \notin {"own", "pump", "other", "sleep", "asleep"}
    /\ \A p \in Detached : pc[p] \in {"idle", "enqueue", "wake"}
    /\ \A a \in Actors : a \notin Producers => pc[a] \notin {"idle", "enqueue", "wake", "wait"}
    /\ \A a \in Actors : pc[a] \in {"run", "output", "flag", "after"} => cur[a] \in Tasks
    /\ \A p \in Producers : pc[p] # "idle" => mine[p] \in Tasks
    /\ \A t \in Tasks : t \notin heap => task[t].home \in CPUs

\* A task that has yet to be run.
Fresh(t) ==
    \/ \E c \in CPUs : t \in Queued(c)
    \/ \E p \in Producers : pc[p] = "enqueue" /\ mine[p] = t
    \/ \E a \in Actors : pc[a] = "run" /\ cur[a] = t

\* The tasks that have yet to be run have jobs of their own that were not run.
Jobs ==
    /\ \A t \in Tasks : Fresh(t) => task[t].job \in 1 .. jobs /\ ran[task[t].job] = 0
    /\ \A t, u \in Tasks : Fresh(t) /\ Fresh(u) /\ task[t].job = task[u].job => t = u
    /\ \A j \in 1 .. MaxJobs : ran[j] <= 1 /\ (j > jobs => ran[j] = 0)

\* p waits, or will wait, for the task it produced.
Waits(p) == p \notin Detached /\ pc[p] # "idle"

\* A task that is waited for stays its producer's, and when it is completed nobody
\* else has it and its output is there.
Delivered ==
    /\ \A p \in Producers : Waits(p) =>
           /\ task[mine[p]].job = want[p] /\ ~task[mine[p]].detached
           /\ \A k \in Kinds, x \in Owners : In(k, x, mine[p]) =>
                  k \notin {"heap", "stack"} /\ ~task[mine[p]].completed
           /\ task[mine[p]].completed => task[mine[p]].output = task[mine[p]].job
    /\ \A p, q \in Producers : Waits(p) /\ Waits(q) /\ mine[p] = mine[q] => p = q
    /\ \A a \in Actors : pc[a] = "flag" => task[cur[a]].output = task[cur[a]].job

Inv == Typed /\ Roles /\ Exclusive /\ NoRepeats /\ Jobs /\ Delivered /\ WaitDelivers

LEMMA InvParts ==
    ASSUME Inv
    PROVE  /\ Typed /\ Roles /\ Exclusive /\ NoRepeats /\ Jobs /\ Delivered /\ WaitDelivers
BY DEF Inv

USE ZenonT(30)

-----------------------------------------------------------------------------
(* What the queue and stack operations do *)

\* A task that is added at the end of a queue or on top of a stack.
LEMMA AddedFacts ==
    ASSUME NEW s \in Seq(Tasks), NEW t \in Tasks, t \notin Range(s), Injective(s),
           NEW r, r = Append(s, t) \/ r = <<t>> \o s
    PROVE  /\ r \in Seq(Tasks) /\ Len(r) = Len(s) + 1 /\ Injective(r)
           /\ \A u \in Range(r) : u = t \/ u \in Range(s)
<1>1. Len(s) \in Nat /\ DOMAIN s = 1 .. Len(s)
    BY SMTT(30)
<1>2. CASE r = Append(s, t)
    <2>1. /\ r \in Seq(Tasks) /\ Len(r) = Len(s) + 1 /\ DOMAIN r = 1 .. (Len(s) + 1)
          /\ \A i \in 1 .. Len(s) : r[i] = s[i]
          /\ r[Len(s) + 1] = t
        BY SMTT(30), <1>2
    <2>2. \A i \in DOMAIN r : (i \in DOMAIN s /\ r[i] = s[i]) \/ (i = Len(s) + 1 /\ r[i] = t)
        BY SMTT(30), <1>1, <2>1
    <2>3. \A i \in DOMAIN s : s[i] # t
        BY DEF Range
    <2>4. Injective(r)
        BY <2>2, <2>3 DEF Injective
    <2> QED
        BY <2>1, <2>2, <2>4 DEF Range
<1>3. CASE r = <<t>> \o s
    <2>1. /\ r \in Seq(Tasks) /\ Len(r) = Len(s) + 1 /\ DOMAIN r = 1 .. (Len(s) + 1)
          /\ \A i \in 1 .. Len(s) : r[i + 1] = s[i]
          /\ r[1] = t
        BY SMTT(30), <1>3
    <2>2. \A i \in DOMAIN r : (i - 1 \in DOMAIN s /\ r[i] = s[i - 1]) \/ (i = 1 /\ r[i] = t)
        BY SMTT(30), <1>1, <2>1
    <2>3. \A i \in DOMAIN s : s[i] # t
        BY DEF Range
    <2>4. \A i, j \in DOMAIN r : i - 1 = j - 1 => i = j
        BY SMTT(30), <1>1, <2>1
    <2>5. Injective(r)
        BY <2>2, <2>3, <2>4 DEF Injective
    <2>6. ASSUME NEW u \in Range(r) PROVE u = t \/ u \in Range(s)
        <3>1. PICK i \in DOMAIN r : u = r[i]
            BY DEF Range
        <3> QED
            BY <2>2, <3>1 DEF Range
    <2> QED
        BY <2>1, <2>5, <2>6
<1> QED
    BY <1>2, <1>3

LEMMA LengthIsNat ==
    ASSUME NEW s \in Seq(Tasks)
    PROVE  Len(s) \in Nat
BY SMTT(30)

\* A CPU's share of n tasks: one goes from its stack to a producer, and back.
LEMMA ShareTaken ==
    ASSUME NEW s \in Seq(Tasks), NEW b \in Nat, NEW m, m = b + 1, NEW n \in Nat,
           Len(s) + b <= n, m <= n,
           NEW r, (s # <<>> /\ r = Tail(s)) \/ r = <<>>
    PROVE  Len(r) + m <= n
<1>1. Len(s) \in Nat /\ (s # <<>> => Len(Tail(s)) = Len(s) - 1) /\ Len(<<>>) = 0
    BY SMTT(30)
<1> QED BY SMTT(30), <1>1

LEMMA ShareGiven ==
    ASSUME NEW s \in Seq(Tasks), NEW b \in Nat, NEW m, m = b + 1, NEW n \in Nat,
           NEW k \in Nat, n <= k, Len(s) + m <= n
    PROVE  ~(Len(s) >= k) /\ \A r : Len(r) = Len(s) + 1 => Len(r) + b <= n
<1>1. Len(s) \in Nat
    BY SMTT(30)
<1> QED BY SMTT(30), <1>1

LEMMA Concatenation ==
    ASSUME NEW a \in Seq(Tasks), NEW b \in Seq(Tasks)
    PROVE  /\ a \o b \in Seq(Tasks) /\ Len(a \o b) = Len(a) + Len(b)
           /\ \A j \in 1 .. Len(a) + Len(b) :
                  (a \o b)[j] = IF j <= Len(a) THEN a[j] ELSE b[j - Len(a)]
BY SMTT(30)

\* A task that is taken out, from wherever it is.
LEMMA TakenFacts ==
    ASSUME NEW s \in Seq(Tasks), Injective(s), NEW i \in DOMAIN s,
           NEW r, r = RemoveAt(s, i)
    PROVE  /\ s[i] \in Tasks /\ s[i] \in Range(s)
           /\ r \in Seq(Tasks) /\ Len(r) <= Len(s) /\ Injective(r)
           /\ s[i] \notin Range(r) /\ \A u \in Range(r) : u \in Range(s)
<1>1. Len(s) \in Nat /\ DOMAIN s = 1 .. Len(s) /\ i \in 1 .. Len(s) /\ s[i] \in Tasks
    BY SMTT(30)
<1>2. /\ SubSeq(s, 1, i - 1) \in Seq(Tasks) /\ Len(SubSeq(s, 1, i - 1)) = i - 1
      /\ \A j \in 1 .. (i - 1) : SubSeq(s, 1, i - 1)[j] = s[j]
    BY SMTT(30), <1>1
<1>3. /\ SubSeq(s, i + 1, Len(s)) \in Seq(Tasks) /\ Len(SubSeq(s, i + 1, Len(s))) = Len(s) - i
      /\ \A j \in 1 .. (Len(s) - i) : SubSeq(s, i + 1, Len(s))[j] = s[i + j]
    BY SMTT(30), <1>1
<1>4. /\ r \in Seq(Tasks) /\ Len(r) = Len(s) - 1 /\ DOMAIN r = 1 .. (Len(s) - 1)
      /\ \A j \in 1 .. (Len(s) - 1) : r[j] = IF j < i THEN s[j] ELSE s[j + 1]
    <2> DEFINE a == SubSeq(s, 1, i - 1)
               b == SubSeq(s, i + 1, Len(s))
    <2>1. r = a \o b
        BY DEF RemoveAt
    <2>2. /\ a \in Seq(Tasks) /\ Len(a) = i - 1 /\ \A j \in 1 .. (i - 1) : a[j] = s[j]
          /\ b \in Seq(Tasks) /\ Len(b) = Len(s) - i
          /\ \A j \in 1 .. (Len(s) - i) : b[j] = s[i + j]
        BY <1>2, <1>3
    <2> HIDE DEF a, b
    <2>3. /\ r \in Seq(Tasks) /\ Len(r) = Len(a) + Len(b)
          /\ \A j \in 1 .. Len(a) : r[j] = a[j]
          /\ \A j \in (Len(a) + 1) .. (Len(a) + Len(b)) : r[j] = b[j - Len(a)]
        <3>1. a \in Seq(Tasks) /\ b \in Seq(Tasks)
            BY <2>2
        <3>2. /\ a \o b \in Seq(Tasks) /\ Len(a \o b) = Len(a) + Len(b)
              /\ \A j \in 1 .. Len(a) + Len(b) :
                     (a \o b)[j] = IF j <= Len(a) THEN a[j] ELSE b[j - Len(a)]
            BY <3>1, Concatenation
        <3> QED
            BY SMTT(30), <1>1, <2>1, <2>2, <3>2
    <2>4. Len(r) = Len(s) - 1 /\ DOMAIN r = 1 .. (Len(s) - 1)
        BY SMTT(30), <1>1, <2>2, <2>3
    <2>5. ASSUME NEW j \in 1 .. (Len(s) - 1), j < i PROVE r[j] = s[j]
        <3>1. j \in 1 .. Len(a) /\ j \in 1 .. (i - 1)
            BY SMTT(30), <1>1, <2>2, <2>5
        <3> QED
            BY <2>2, <2>3, <3>1
    <2>6. ASSUME NEW j \in 1 .. (Len(s) - 1), ~(j < i) PROVE r[j] = s[j + 1]
        <3>1. j \in (Len(a) + 1) .. (Len(a) + Len(b)) /\ j - Len(a) \in 1 .. (Len(s) - i)
              /\ i + (j - Len(a)) = j + 1
            BY SMTT(30), <1>1, <2>2, <2>6
        <3> QED
            BY <2>2, <2>3, <3>1
    <2> QED
        BY <2>3, <2>4, <2>5, <2>6
<1>5. ASSUME NEW j \in DOMAIN r
      PROVE  \E k \in DOMAIN s : k # i /\ r[j] = s[k] /\ k = IF j < i THEN j ELSE j + 1
    BY SMTT(30), <1>1, <1>4
<1>6. Injective(r)
    <2> SUFFICES ASSUME NEW j \in DOMAIN r, NEW k \in DOMAIN r, r[j] = r[k] PROVE j = k
        BY DEF Injective
    <2>1. (IF j < i THEN j ELSE j + 1) = (IF k < i THEN k ELSE k + 1)
        BY <1>5 DEF Injective
    <2> QED
        BY SMTT(30), <1>1, <1>4, <2>1
<1>7. Len(r) <= Len(s)
    BY SMTT(30), <1>1, <1>4
<1>8. \A u \in Range(r) : u \in Range(s) /\ u # s[i]
    <2> TAKE u \in Range(r)
    <2>1. PICK j \in DOMAIN r : u = r[j]
        BY DEF Range
    <2>2. PICK k \in DOMAIN s : k # i /\ u = s[k]
        BY <1>5, <2>1
    <2> QED
        BY <2>2 DEF Range, Injective
<1> QED
    BY <1>1, <1>4, <1>6, <1>7, <1>8 DEF Range

\* The task at the head of a queue or on top of a stack.
LEMMA TailFacts ==
    ASSUME NEW s \in Seq(Tasks), s # <<>>
    PROVE  1 \in DOMAIN s /\ Head(s) = s[1] /\ Tail(s) = RemoveAt(s, 1)
<1>1. 1 \in DOMAIN s /\ Head(s) = s[1]
    BY SMTT(30)
<1>2. SubSeq(s, 1, 1 - 1) = <<>> /\ SubSeq(s, 1 + 1, Len(s)) = Tail(s) /\ Tail(s) \in Seq(Tasks)
    BY SMTT(30)
<1>3. <<>> \o Tail(s) = Tail(s)
    BY SMTT(30), <1>2
<1> QED
    BY <1>1, <1>2, <1>3 DEF RemoveAt

LEMMA HeadFacts ==
    ASSUME NEW s \in Seq(Tasks), Injective(s), s # <<>>
    PROVE  /\ Head(s) \in Tasks /\ Head(s) \in Range(s)
           /\ Tail(s) \in Seq(Tasks) /\ Len(Tail(s)) <= Len(s) /\ Injective(Tail(s))
           /\ Head(s) \notin Range(Tail(s)) /\ \A u \in Range(Tail(s)) : u \in Range(s)
<1>1. 1 \in DOMAIN s /\ Head(s) = s[1] /\ Tail(s) = RemoveAt(s, 1)
    BY TailFacts
<1>2. /\ s[1] \in Tasks /\ s[1] \in Range(s)
      /\ RemoveAt(s, 1) \in Seq(Tasks) /\ Len(RemoveAt(s, 1)) <= Len(s)
      /\ Injective(RemoveAt(s, 1)) /\ s[1] \notin Range(RemoveAt(s, 1))
      /\ \A u \in Range(RemoveAt(s, 1)) : u \in Range(s)
    BY <1>1, TakenFacts
<1> QED BY <1>1, <1>2

-----------------------------------------------------------------------------
(* Where the tasks are *)

\* What is in one place is in no other.
LEMMA Only ==
    ASSUME Inv, NEW t \in Tasks, NEW k \in Kinds, NEW x \in Owners, In(k, x, t)
    PROVE  /\ t \in heap => k = "heap"
           /\ \A c \in CPUs : /\ t \in Range(free_stack[c]) => k = "stack" /\ x = c
                              /\ t \in Range(unsized_queue[c]) => k = "unsized" /\ x = c
                              /\ t \in Range(sized_queue[c]) => k = "sized" /\ x = c
           /\ \A p \in Producers : pc[p] = "enqueue" /\ mine[p] = t => k = "made" /\ x = p
           /\ \A a \in Actors : Holding(a) /\ cur[a] = t => k = "held" /\ x = a
<1>1. \A l \in Kinds, y \in Owners : In(l, y, t) => k = l /\ x = y
    BY InvParts DEF Exclusive
<1>2. t \in heap => k = "heap"
    BY <1>1 DEF In, Kinds, Owners
<1>3. ASSUME NEW c \in CPUs
      PROVE  /\ t \in Range(free_stack[c]) => k = "stack" /\ x = c
             /\ t \in Range(unsized_queue[c]) => k = "unsized" /\ x = c
             /\ t \in Range(sized_queue[c]) => k = "sized" /\ x = c
    <2>1. c \in Owners
        BY DEF Owners, Actors
    <2>2. /\ t \in Range(free_stack[c]) => In("stack", c, t)
          /\ t \in Range(unsized_queue[c]) => In("unsized", c, t)
          /\ t \in Range(sized_queue[c]) => In("sized", c, t)
        BY DEF In
    <2> QED BY <1>1, <2>1, <2>2 DEF Kinds
<1>4. ASSUME NEW p \in Producers, pc[p] = "enqueue" /\ mine[p] = t PROVE k = "made" /\ x = p
    <2>1. In("made", p, t) /\ p \in Owners
        BY <1>4 DEF In, Owners, Actors
    <2> QED BY <1>1, <2>1 DEF Kinds
<1>5. ASSUME NEW a \in Actors, Holding(a) /\ cur[a] = t PROVE k = "held" /\ x = a
    <2>1. In("held", a, t) /\ a \in Owners
        BY <1>5 DEF In, Owners
    <2> QED BY <1>1, <2>1 DEF Kinds
<1> QED
    BY <1>2, <1>3, <1>4, <1>5

\* So for a task on a queue,
LEMMA QueuedOnly ==
    ASSUME Inv, NEW t \in Tasks, NEW c \in CPUs, t \in Queued(c)
    PROVE  /\ t \notin heap /\ \A d \in CPUs : t \notin Range(free_stack[d])
           /\ \A p \in Producers : pc[p] = "enqueue" => mine[p] # t
           /\ \A b \in Actors : Holding(b) => cur[b] # t
<1>1. c \in Owners
    BY DEF Owners, Actors
<1>2. In("unsized", c, t) \/ In("sized", c, t)
    BY DEF In, Queued
<1>3. CASE In("unsized", c, t)
    BY <1>1, <1>3, Only DEF Kinds
<1>4. CASE In("sized", c, t)
    BY <1>1, <1>4, Only DEF Kinds
<1> QED BY <1>2, <1>3, <1>4

LEMMA OneQueue ==
    ASSUME Inv, NEW t \in Tasks, NEW c \in CPUs, NEW d \in CPUs
    PROVE  /\ t \in Range(sized_queue[c]) =>
                  t \notin Range(unsized_queue[d]) /\ (t \in Range(sized_queue[d]) => d = c)
           /\ t \in Range(unsized_queue[c]) =>
                  t \notin Range(sized_queue[d]) /\ (t \in Range(unsized_queue[d]) => d = c)
<1>1. c \in Owners
    BY DEF Owners, Actors
<1>2. ASSUME t \in Range(sized_queue[c])
      PROVE  t \notin Range(unsized_queue[d]) /\ (t \in Range(sized_queue[d]) => d = c)
    <2>1. In("sized", c, t) /\ "sized" \in Kinds
        BY <1>2 DEF In, Kinds
    <2>2. /\ t \in Range(unsized_queue[d]) => "sized" = "unsized"
          /\ t \in Range(sized_queue[d]) => c = d
        BY <1>1, <2>1, Only
    <2> QED BY <2>2
<1>3. ASSUME t \in Range(unsized_queue[c])
      PROVE  t \notin Range(sized_queue[d]) /\ (t \in Range(unsized_queue[d]) => d = c)
    <2>1. In("unsized", c, t) /\ "unsized" \in Kinds
        BY <1>3 DEF In, Kinds
    <2>2. /\ t \in Range(sized_queue[d]) => "unsized" = "sized"
          /\ t \in Range(unsized_queue[d]) => c = d
        BY <1>1, <2>1, Only
    <2> QED BY <2>2
<1> QED BY <1>2, <1>3

\* for a task in somebody's hands,
LEMMA HeldOnly ==
    ASSUME Inv, NEW a \in Actors, Holding(a), cur[a] \in Tasks
    PROVE  /\ cur[a] \notin heap
           /\ \A d \in CPUs : /\ cur[a] \notin Range(free_stack[d])
                              /\ cur[a] \notin Range(unsized_queue[d])
                              /\ cur[a] \notin Range(sized_queue[d])
           /\ \A p \in Producers : pc[p] = "enqueue" => mine[p] # cur[a]
           /\ \A b \in Actors : Holding(b) /\ cur[b] = cur[a] => b = a
<1>1. In("held", a, cur[a]) /\ a \in Owners
    BY DEF In, Owners
<1>2. "held" \in Kinds
    BY DEF Kinds
<1>3. /\ cur[a] \in heap => "held" = "heap"
      /\ \A d \in CPUs : /\ cur[a] \in Range(free_stack[d]) => "held" = "stack"
                         /\ cur[a] \in Range(unsized_queue[d]) => "held" = "unsized"
                         /\ cur[a] \in Range(sized_queue[d]) => "held" = "sized"
      /\ \A p \in Producers : pc[p] = "enqueue" /\ mine[p] = cur[a] => "held" = "made"
      /\ \A b \in Actors : Holding(b) /\ cur[b] = cur[a] => a = b
    BY SMTT(30), <1>1, <1>2, Only
<1> QED BY <1>3

\* for one that is being produced,
LEMMA MadeOnly ==
    ASSUME Inv, NEW p \in Producers, pc[p] = "enqueue", mine[p] \in Tasks
    PROVE  /\ mine[p] \notin heap
           /\ \A d \in CPUs : /\ mine[p] \notin Range(free_stack[d])
                              /\ mine[p] \notin Range(unsized_queue[d])
                              /\ mine[p] \notin Range(sized_queue[d])
           /\ \A q \in Producers : pc[q] = "enqueue" /\ mine[q] = mine[p] => q = p
           /\ \A b \in Actors : Holding(b) => cur[b] # mine[p]
<1>1. In("made", p, mine[p]) /\ p \in Owners
    BY DEF In, Owners, Actors
<1>2. "made" \in Kinds
    BY DEF Kinds
<1>3. /\ mine[p] \in heap => "made" = "heap"
      /\ \A d \in CPUs : /\ mine[p] \in Range(free_stack[d]) => "made" = "stack"
                         /\ mine[p] \in Range(unsized_queue[d]) => "made" = "unsized"
                         /\ mine[p] \in Range(sized_queue[d]) => "made" = "sized"
      /\ \A q \in Producers : pc[q] = "enqueue" /\ mine[q] = mine[p] => p = q
      /\ \A b \in Actors : Holding(b) /\ cur[b] = mine[p] => "made" = "held"
    BY SMTT(30), <1>1, <1>2, Only
<1> QED BY <1>3

\* and for one that is free.
LEMMA FreeOnly ==
    ASSUME Inv, NEW t \in Tasks, NEW k \in {"heap", "stack"}, NEW x \in Owners, In(k, x, t)
    PROVE  /\ t \in heap => k = "heap"
           /\ \A d \in CPUs : /\ t \in Range(free_stack[d]) => k = "stack" /\ x = d
                              /\ t \notin Range(unsized_queue[d])
                              /\ t \notin Range(sized_queue[d])
           /\ \A q \in Producers : pc[q] = "enqueue" => mine[q] # t
           /\ \A b \in Actors : Holding(b) => cur[b] # t
<1>1. k \in Kinds /\ k # "unsized" /\ k # "sized" /\ k # "made" /\ k # "held"
    BY DEF Kinds
<1>2. /\ t \in heap => k = "heap"
      /\ \A d \in CPUs : /\ t \in Range(free_stack[d]) => k = "stack" /\ x = d
                         /\ t \in Range(unsized_queue[d]) => k = "unsized"
                         /\ t \in Range(sized_queue[d]) => k = "sized"
      /\ \A q \in Producers : pc[q] = "enqueue" /\ mine[q] = t => k = "made"
      /\ \A b \in Actors : Holding(b) /\ cur[b] = t => k = "held"
    BY SMTT(30), <1>1, Only
<1> QED BY <1>1, <1>2

LEMMA FreeAlone ==
    ASSUME Inv, NEW t \in Tasks, \E k \in {"heap", "stack"}, x \in Owners : In(k, x, t)
    PROVE  /\ \A d \in CPUs : t \notin Range(unsized_queue[d]) /\ t \notin Range(sized_queue[d])
           /\ \A q \in Producers : pc[q] = "enqueue" => mine[q] # t
           /\ \A b \in Actors : Holding(b) => cur[b] # t
<1>1. PICK k \in {"heap", "stack"}, x \in Owners : In(k, x, t)
    OBVIOUS
<1>2. /\ \A d \in CPUs : t \notin Range(unsized_queue[d]) /\ t \notin Range(sized_queue[d])
      /\ \A q \in Producers : pc[q] = "enqueue" => mine[q] # t
      /\ \A b \in Actors : Holding(b) => cur[b] # t
    BY SMTT(30), <1>1, FreeOnly
<1> QED BY <1>2

\* A step moves task t to one place, if to any, and brings no other task anywhere.
Moves(t, k, x) ==
    \A l \in Kinds, y \in Owners :
        /\ In(l, y, t)' => l = k /\ y = x
        /\ \A u \in Tasks : u # t /\ In(l, y, u)' => In(l, y, u)

LEMMA MovesFrom ==
    ASSUME NEW t \in Tasks, NEW k, NEW x,
           \A u \in heap' : (u # t /\ u \in heap) \/ (u = t /\ k = "heap" /\ x = Nothing),
           \A c \in CPUs : \A u \in Range(free_stack'[c]) :
               (u # t /\ u \in Range(free_stack[c])) \/ (u = t /\ k = "stack" /\ x = c),
           \A c \in CPUs : \A u \in Range(unsized_queue'[c]) :
               (u # t /\ u \in Range(unsized_queue[c])) \/ (u = t /\ k = "unsized" /\ x = c),
           \A c \in CPUs : \A u \in Range(sized_queue'[c]) :
               (u # t /\ u \in Range(sized_queue[c])) \/ (u = t /\ k = "sized" /\ x = c),
           \A p \in Producers : pc'[p] = "enqueue" =>
               \/ mine'[p] # t /\ pc[p] = "enqueue" /\ mine[p] = mine'[p]
               \/ mine'[p] = t /\ k = "made" /\ x = p,
           \A a \in Actors : Holding(a)' =>
               \/ cur'[a] # t /\ Holding(a) /\ cur[a] = cur'[a]
               \/ cur'[a] = t /\ k = "held" /\ x = a
    PROVE  Moves(t, k, x)
<1> SUFFICES ASSUME NEW l \in Kinds, NEW y \in Owners, NEW u \in Tasks, In(l, y, u)'
             PROVE  IF u = t THEN l = k /\ y = x ELSE In(l, y, u)
    BY DEF Moves
<1>1. \/ l = "heap" /\ y = Nothing /\ u \in heap'
      \/ l = "stack" /\ y \in CPUs /\ u \in Range(free_stack'[y])
      \/ l = "unsized" /\ y \in CPUs /\ u \in Range(unsized_queue'[y])
      \/ l = "sized" /\ y \in CPUs /\ u \in Range(sized_queue'[y])
      \/ l = "made" /\ y \in Producers /\ pc'[y] = "enqueue" /\ mine'[y] = u
      \/ l = "held" /\ y \in Actors /\ Holding(y)' /\ cur'[y] = u
    BY DEF In
<1>2. CASE l = "heap" /\ y = Nothing /\ u \in heap'
    BY <1>2 DEF In
<1>3. CASE l = "stack" /\ y \in CPUs /\ u \in Range(free_stack'[y])
    BY <1>3 DEF In
<1>4. CASE l = "unsized" /\ y \in CPUs /\ u \in Range(unsized_queue'[y])
    BY <1>4 DEF In
<1>5. CASE l = "sized" /\ y \in CPUs /\ u \in Range(sized_queue'[y])
    BY <1>5 DEF In
<1>6. CASE l = "made" /\ y \in Producers /\ pc'[y] = "enqueue" /\ mine'[y] = u
    BY <1>6 DEF In
<1>7. CASE l = "held" /\ y \in Actors /\ Holding(y)' /\ cur'[y] = u
    BY <1>7 DEF In
<1> QED
    BY <1>1, <1>2, <1>3, <1>4, <1>5, <1>6, <1>7

\* A move leaves every task in at most one place.
LEMMA ExclusiveMoved ==
    ASSUME Inv, NEW t \in Tasks, NEW k, NEW x, Moves(t, k, x)
    PROVE  Exclusive'
<1> SUFFICES ASSUME NEW u \in Tasks, NEW l \in Kinds, NEW m \in Kinds,
                    NEW y \in Owners, NEW z \in Owners, In(l, y, u)', In(m, z, u)'
             PROVE  l = m /\ y = z
    BY DEF Exclusive
<1>1. CASE u = t
    BY <1>1 DEF Moves
<1>2. CASE u # t
    <2>1. In(l, y, u) /\ In(m, z, u)
        BY <1>2 DEF Moves
    <2> QED
        BY <2>1, InvParts DEF Exclusive
<1> QED
    BY <1>1, <1>2

\* What was run stays run, if no task becomes fresh.
LEMMA JobsKept ==
    ASSUME Inv, jobs' = jobs, ran' = ran,
           \A t \in Tasks : Fresh(t)' => Fresh(t) /\ task'[t].job = task[t].job
    PROVE  Jobs'
<1>1. \A t \in Tasks : Fresh(t)' =>
          task'[t].job \in 1 .. jobs /\ ran[task'[t].job] = 0
    BY InvParts DEF Jobs
<1>2. ASSUME NEW t \in Tasks, NEW u \in Tasks, Fresh(t)', Fresh(u)', task'[t].job = task'[u].job
      PROVE  t = u
    BY <1>2, InvParts DEF Jobs
<1>3. \A j \in 1 .. MaxJobs : ran[j] <= 1 /\ (j > jobs => ran[j] = 0)
    BY InvParts DEF Jobs
<1> QED
    BY <1>1, <1>2, <1>3 DEF Jobs

\* A waiter's task is as it was while nobody frees it or finds it again.
LEMMA DeliveredKept ==
    ASSUME Inv, task' = task,
           \A p \in Producers : Waits(p)' =>
               Waits(p) /\ mine'[p] = mine[p] /\ want'[p] = want[p],
           \A p \in Producers : Waits(p)' => \A l \in Kinds, y \in Owners :
               In(l, y, mine[p])' =>
                   l \notin {"heap", "stack"} /\ \E m \in Kinds, z \in Owners : In(m, z, mine[p]),
           \A a \in Actors : pc'[a] = "flag" => pc[a] = "flag" /\ cur'[a] = cur[a]
    PROVE  Delivered'
<1>1. ASSUME NEW p \in Producers, Waits(p)'
      PROVE  /\ task'[mine'[p]].job = want'[p] /\ ~task'[mine'[p]].detached
             /\ \A k \in Kinds, x \in Owners : In(k, x, mine[p])' =>
                    k \notin {"heap", "stack"} /\ ~task'[mine'[p]].completed
             /\ task'[mine'[p]].completed => task'[mine'[p]].output = task'[mine'[p]].job
             /\ mine'[p] = mine[p]
    <2>1. /\ Waits(p) /\ mine'[p] = mine[p] /\ want'[p] = want[p]
          /\ \A l \in Kinds, y \in Owners : In(l, y, mine[p])' =>
                 l \notin {"heap", "stack"} /\ \E m \in Kinds, z \in Owners : In(m, z, mine[p])
        BY <1>1
    <2>2. /\ task[mine[p]].job = want[p] /\ ~task[mine[p]].detached
          /\ \A k \in Kinds, x \in Owners : In(k, x, mine[p]) => ~task[mine[p]].completed
          /\ task[mine[p]].completed => task[mine[p]].output = task[mine[p]].job
        BY <2>1, InvParts DEF Delivered
    <2> QED
        BY <2>1, <2>2
<1>2. ASSUME NEW p \in Producers, NEW q \in Producers, Waits(p)', Waits(q)', mine'[p] = mine'[q]
      PROVE  p = q
    BY <1>2, InvParts DEF Delivered
<1>3. \A a \in Actors : pc'[a] = "flag" => task'[cur'[a]].output = task'[cur'[a]].job
    BY InvParts DEF Delivered
<1> QED
    BY <1>1, <1>2, <1>3 DEF Delivered

\* A step that only takes actor a, without a task in its hands, somewhere else.
LEMMA QuietStep ==
    ASSUME Inv, NEW a \in Actors,
           UNCHANGED <<queueVars, memVars, task, waitVars, jobs, ran>>,
           sleeping' \in SUBSET CPUs, pc' \in [Actors -> Labels],
           cur' \in [Actors -> Tasks \cup {Nothing}],
           \A b \in Actors : b # a => pc'[b] = pc[b] /\ cur'[b] = cur[b],
           ~Holding(a), pc'[a] \notin {"enqueue", "wake", "run", "output", "flag", "after"},
           a \in Producers => pc'[a] \in {"idle", "wait"} /\ pc[a] # "idle",
           a \in Producers => (a \in Detached <=> pc'[a] = "idle"),
           a \notin Producers => pc'[a] \notin {"idle", "wait"}
    PROVE  Inv'
<1> USE DEF queueVars, memVars, waitVars
<1>1. Producers \subseteq Actors /\ Detached \subseteq Producers
    BY TaskAssumption DEF Actors
<1>2. Typed'
    BY InvParts DEF Typed
<1>3. ~Holding(a)' /\ \A b \in Actors : b # a => (Holding(b)' <=> Holding(b))
    BY DEF Holding
<1>4. \A l \in Kinds, y \in Owners : \A u \in Tasks : In(l, y, u)' => In(l, y, u)
    <2> SUFFICES ASSUME NEW l \in Kinds, NEW y \in Owners, NEW u \in Tasks, In(l, y, u)'
                 PROVE  In(l, y, u)
        OBVIOUS
    <2>1. CASE l \notin {"made", "held"}
        BY <2>1 DEF In
    <2>2. CASE l = "made"
        <3>1. y \in Producers /\ pc'[y] = "enqueue" /\ mine[y] = u /\ y # a
            BY <2>2 DEF In
        <3> QED BY <1>1, <2>2, <3>1 DEF In
    <2>3. CASE l = "held"
        <3>1. y \in Actors /\ Holding(y)' /\ cur'[y] = u
            BY <2>3 DEF In
        <3> QED BY <1>3, <2>3, <3>1 DEF In
    <2> QED BY <2>1, <2>2, <2>3
<1>5. Exclusive'
    <2> SUFFICES ASSUME NEW u \in Tasks, NEW l \in Kinds, NEW m \in Kinds,
                        NEW y \in Owners, NEW z \in Owners, In(l, y, u)', In(m, z, u)'
                 PROVE  l = m /\ y = z
        BY DEF Exclusive
    <2>1. In(l, y, u) /\ In(m, z, u)
        BY <1>4
    <2> QED
        BY <2>1, InvParts DEF Exclusive
<1>6. NoRepeats'
    BY InvParts DEF NoRepeats
<1>7. Roles'
    BY <1>1, InvParts DEF Roles
<1>8. Jobs'
    <2>1. ASSUME NEW t \in Tasks, Fresh(t)' PROVE Fresh(t)
        BY <1>1, <2>1 DEF Fresh, Queued
    <2> QED BY <2>1, JobsKept
<1>9. Delivered'
    <2>1. \A p \in Producers : Waits(p)' => Waits(p) /\ mine[p] \in Tasks
        BY <1>1, InvParts DEF Waits, Roles
    <2>2. ASSUME NEW p \in Producers, Waits(p)', NEW l \in Kinds, NEW y \in Owners,
                 In(l, y, mine[p])'
          PROVE  l \notin {"heap", "stack"} /\ \E m \in Kinds, z \in Owners : In(m, z, mine[p])
        <3>1. In(l, y, mine[p]) /\ Waits(p)
            BY <1>4, <2>1, <2>2
        <3> QED BY <3>1, InvParts DEF Delivered
    <2> QED
        BY <2>1, <2>2, DeliveredKept
<1>10. WaitDelivers'
    BY <1>1, InvParts DEF WaitDelivers
<1> QED
    BY <1>2, <1>5, <1>6, <1>7, <1>8, <1>9, <1>10 DEF Inv

\* A task goes from a queue into an actor's hands.
LEMMA TakeStep ==
    ASSUME Inv, NEW a \in Actors, NEW t \in Tasks, NEW c \in CPUs, t \in Queued(c),
           cur' = [cur EXCEPT ![a] = t],
           pc[a] \notin {"idle", "enqueue", "run", "output", "flag", "after"},
           a \notin Detached, pc' = [pc EXCEPT ![a] = "run"],
           unsized_queue' \in [CPUs -> Seq(Tasks)], sized_queue' \in [CPUs -> Seq(Tasks)],
           \A d \in CPUs : Injective(unsized_queue'[d]) /\ Injective(sized_queue'[d]),
           \A d \in CPUs : \A u \in Range(unsized_queue'[d]) :
               u # t /\ u \in Range(unsized_queue[d]),
           \A d \in CPUs : \A u \in Range(sized_queue'[d]) : u # t /\ u \in Range(sized_queue[d]),
           UNCHANGED <<memVars, task, sleeping, waitVars, jobs, ran>>
    PROVE  Inv'
<1> USE DEF memVars, waitVars
<1>1. Producers \subseteq Actors /\ Detached \subseteq Producers
    BY TaskAssumption DEF Actors
<1>2. /\ pc'[a] = "run" /\ cur'[a] = t
      /\ \A b \in Actors : b # a => pc'[b] = pc[b] /\ cur'[b] = cur[b]
      /\ Typed'
    BY InvParts DEF Typed, Labels
<1>3. \A b \in Actors : b # a => (Holding(b)' <=> Holding(b))
    BY <1>2 DEF Holding
<1>4. \E k \in Kinds, x \in Owners : In(k, x, t)
    BY DEF In, Kinds, Owners, Actors, Queued
<1>5. Moves(t, "held", a)
    <2>5. /\ t \notin heap /\ \A d \in CPUs : t \notin Range(free_stack[d])
          /\ \A p \in Producers : pc[p] = "enqueue" => mine[p] # t
          /\ \A b \in Actors : Holding(b) => cur[b] # t
        BY QueuedOnly
    <2>1. \A u \in heap' : u # t /\ u \in heap
        BY <2>5
    <2>2. \A d \in CPUs : \A u \in Range(free_stack'[d]) : u # t /\ u \in Range(free_stack[d])
        BY <2>5
    <2>3. \A p \in Producers : pc'[p] = "enqueue" =>
              mine'[p] # t /\ pc[p] = "enqueue" /\ mine[p] = mine'[p]
        BY <1>1, <1>2, <2>5
    <2>4. ASSUME NEW b \in Actors, Holding(b)', b # a
          PROVE  cur'[b] # t /\ Holding(b) /\ cur[b] = cur'[b]
        BY <1>2, <1>3, <2>4, <2>5
    <2> QED
        BY <1>2, <2>1, <2>2, <2>3, <2>4, MovesFrom
<1>6. Exclusive'
    BY <1>5, ExclusiveMoved
<1>7. NoRepeats'
    BY InvParts DEF NoRepeats
<1>8. Roles'
    BY <1>1, <1>2, InvParts DEF Roles
<1>9. Jobs'
    <2>1. ASSUME NEW u \in Tasks, Fresh(u)' PROVE Fresh(u)
        <3>1. CASE u = t
            BY <3>1 DEF Fresh
        <3>2. CASE u # t
            BY <1>1, <1>2, <2>1, <3>2 DEF Fresh, Queued
        <3> QED BY <3>1, <3>2
    <2> QED BY <2>1, JobsKept
<1>10. Delivered'
    <2>1. \A p \in Producers : Waits(p)' => Waits(p) /\ mine[p] \in Tasks
        BY <1>1, <1>2, InvParts DEF Waits, Roles
    <2>2. ASSUME NEW p \in Producers, Waits(p)', NEW l \in Kinds, NEW y \in Owners,
                 In(l, y, mine[p])'
          PROVE  l \notin {"heap", "stack"} /\ \E m \in Kinds, z \in Owners : In(m, z, mine[p])
        <3>1. CASE mine[p] = t
            BY <1>4, <1>5, <2>2, <3>1 DEF Moves
        <3>2. CASE mine[p] # t
            <4>1. In(l, y, mine[p]) /\ Waits(p)
                BY <1>5, <2>1, <2>2, <3>2 DEF Moves
            <4> QED BY <4>1, InvParts DEF Delivered
        <3> QED BY <3>1, <3>2
    <2>3. \A b \in Actors : pc'[b] = "flag" => pc[b] = "flag" /\ cur'[b] = cur[b]
        BY <1>2
    <2> QED
        BY <2>1, <2>2, <2>3, DeliveredKept
<1>11. WaitDelivers'
    BY <1>1, <1>2, InvParts DEF WaitDelivers
<1> QED
    BY <1>2, <1>6, <1>7, <1>8, <1>9, <1>10, <1>11 DEF Inv

-----------------------------------------------------------------------------
(* The steps that keep the invariant: consuming tasks *)

LEMMA TakeSizedInv ==
    ASSUME Inv, NEW a \in Actors, NEW c \in CPUs, NEW i \in DOMAIN sized_queue[c],
           pc[a] \notin {"idle", "enqueue", "run", "output", "flag", "after"}, a \notin Detached,
           pc' = [pc EXCEPT ![a] = "run"], TakeSized(a, c, i),
           UNCHANGED <<memVars, task, sleeping, waitVars, jobs, ran>>
    PROVE  Inv'
<1> DEFINE t == sized_queue[c][i]
           r == RemoveAt(sized_queue[c], i)
<1>1. /\ cur' = [cur EXCEPT ![a] = t]
      /\ sized_queue' = [sized_queue EXCEPT ![c] = r] /\ unsized_queue' = unsized_queue
    BY DEF TakeSized, Dequeue
<1>2. /\ sized_queue \in [CPUs -> Seq(Tasks)] /\ unsized_queue \in [CPUs -> Seq(Tasks)]
      /\ \A d \in CPUs : Injective(unsized_queue[d]) /\ Injective(sized_queue[d])
    BY InvParts DEF Typed, NoRepeats
<1>3. /\ t \in Tasks /\ t \in Range(sized_queue[c]) /\ r \in Seq(Tasks) /\ Injective(r)
      /\ t \notin Range(r) /\ \A u \in Range(r) : u \in Range(sized_queue[c])
    BY <1>2, TakenFacts
<1> HIDE DEF t, r
<1>4. /\ sized_queue'[c] = r /\ \A d \in CPUs : d # c => sized_queue'[d] = sized_queue[d]
      /\ sized_queue' \in [CPUs -> Seq(Tasks)]
    BY <1>1, <1>2, <1>3
<1>5. t \in Queued(c)
    BY <1>3 DEF Queued
<1>6. \A d \in CPUs : t \notin Range(unsized_queue[d]) /\ (d # c => t \notin Range(sized_queue[d]))
    BY <1>3, OneQueue
<1>7. \A d \in CPUs : \A u \in Range(sized_queue'[d]) : u # t /\ u \in Range(sized_queue[d])
    BY <1>3, <1>4, <1>6
<1>8. \A d \in CPUs : \A u \in Range(unsized_queue'[d]) : u # t /\ u \in Range(unsized_queue[d])
    BY <1>1, <1>6
<1>9. \A d \in CPUs : Injective(unsized_queue'[d]) /\ Injective(sized_queue'[d])
    BY <1>1, <1>2, <1>3, <1>4
<1>10. unsized_queue' \in [CPUs -> Seq(Tasks)]
    BY <1>1, <1>2
<1> QED
    BY <1>1, <1>3, <1>4, <1>5, <1>7, <1>8, <1>9, <1>10, TakeStep

LEMMA TakeUnsizedInv ==
    ASSUME Inv, NEW a \in Actors, NEW c \in CPUs, unsized_queue[c] # <<>>,
           pc[a] \notin {"idle", "enqueue", "run", "output", "flag", "after"}, a \notin Detached,
           pc' = [pc EXCEPT ![a] = "run"], TakeUnsized(a, c),
           UNCHANGED <<memVars, task, sleeping, waitVars, jobs, ran>>
    PROVE  Inv'
<1> DEFINE t == Head(unsized_queue[c])
           r == Tail(unsized_queue[c])
<1>1. /\ cur' = [cur EXCEPT ![a] = t]
      /\ unsized_queue' = [unsized_queue EXCEPT ![c] = r] /\ sized_queue' = sized_queue
    BY DEF TakeUnsized
<1>2. /\ sized_queue \in [CPUs -> Seq(Tasks)] /\ unsized_queue \in [CPUs -> Seq(Tasks)]
      /\ \A d \in CPUs : Injective(unsized_queue[d]) /\ Injective(sized_queue[d])
    BY InvParts DEF Typed, NoRepeats
<1>3. /\ t \in Tasks /\ t \in Range(unsized_queue[c]) /\ r \in Seq(Tasks) /\ Injective(r)
      /\ t \notin Range(r) /\ \A u \in Range(r) : u \in Range(unsized_queue[c])
    BY <1>2, HeadFacts
<1> HIDE DEF t, r
<1>4. /\ unsized_queue'[c] = r /\ \A d \in CPUs : d # c => unsized_queue'[d] = unsized_queue[d]
      /\ unsized_queue' \in [CPUs -> Seq(Tasks)]
    BY <1>1, <1>2, <1>3
<1>5. t \in Queued(c)
    BY <1>3 DEF Queued
<1>6. \A d \in CPUs : t \notin Range(sized_queue[d]) /\ (d # c => t \notin Range(unsized_queue[d]))
    BY <1>3, OneQueue
<1>7. \A d \in CPUs : \A u \in Range(unsized_queue'[d]) : u # t /\ u \in Range(unsized_queue[d])
    BY <1>3, <1>4, <1>6
<1>8. \A d \in CPUs : \A u \in Range(sized_queue'[d]) : u # t /\ u \in Range(sized_queue[d])
    BY <1>1, <1>6
<1>9. \A d \in CPUs : Injective(unsized_queue'[d]) /\ Injective(sized_queue'[d])
    BY <1>1, <1>2, <1>3, <1>4
<1>10. sized_queue' \in [CPUs -> Seq(Tasks)]
    BY <1>1, <1>2
<1> QED
    BY <1>1, <1>3, <1>4, <1>5, <1>7, <1>8, <1>9, <1>10, TakeStep

\* _nk_task_consume: a task, if there is one and the lock is to be had.
LEMMA ConsumeInv ==
    ASSUME Inv, NEW a \in Actors, NEW c \in CPUs, NEW none, Consume(a, c, none),
           IF a \in Producers THEN pc[a] = "wait" /\ none = "wait"
           ELSE pc[a] \in {"own", "other", "pump"} /\ none \in {"other", "sleep", "pump"}
    PROVE  Inv'
<1> USE DEF queueVars
<1>1. a \notin Detached
    BY TaskAssumption, InvParts DEF Roles
<1>2. pc[a] \notin {"idle", "enqueue", "run", "output", "flag", "after"}
    OBVIOUS
<1>3. UNCHANGED <<memVars, task, sleeping, waitVars, jobs, ran>>
    BY DEF Consume
<1>4. CASE pc' = [pc EXCEPT ![a] = none] /\ UNCHANGED <<cur, queueVars>>
    <2>1. /\ pc \in [Actors -> Labels] /\ cur \in [Actors -> Tasks \cup {Nothing}]
          /\ sleeping \in SUBSET CPUs /\ none \in Labels
        BY InvParts DEF Typed, Labels
    <2>2. /\ pc' \in [Actors -> Labels] /\ pc'[a] = none
          /\ \A b \in Actors : b # a => pc'[b] = pc[b] /\ cur'[b] = cur[b]
          /\ cur' \in [Actors -> Tasks \cup {Nothing}] /\ sleeping' \in SUBSET CPUs
        BY <1>3, <1>4, <2>1
    <2>3. ~Holding(a)
        BY <1>2 DEF Holding
    <2>4. UNCHANGED <<queueVars, memVars, task, waitVars, jobs, ran>>
        BY <1>3, <1>4
    <2> QED
        BY <1>1, <2>2, <2>3, <2>4, QuietStep
<1>5. CASE unsized_queue[c] # <<>> /\ pc' = [pc EXCEPT ![a] = "run"] /\ TakeUnsized(a, c)
    BY <1>1, <1>2, <1>3, <1>5, TakeUnsizedInv
<1>6. CASE sized_queue[c] # <<>> /\ pc' = [pc EXCEPT ![a] = "run"] /\ TakeSized(a, c, 1)
    <2>1. 1 \in DOMAIN sized_queue[c]
        BY <1>6, TailFacts, InvParts DEF Typed
    <2> QED
        BY <1>1, <1>2, <1>3, <1>6, <2>1, TakeSizedInv
<1> QED
    BY <1>4, <1>5, <1>6 DEF Consume

\* The task threads and the idle threads.
LEMMA ConsumersInv ==
    ASSUME Inv, \/ \E c \in CPUs : TryOwn(c) \/ TryOther(c)
                \/ \E a \in Idles : IdleConsume(a)
    PROVE  Inv'
<1>1. CPUs \subseteq Actors /\ Idles \subseteq Actors
    BY DEF Actors
<1>2. \A a \in Actors : pc[a] \in {"own", "other", "pump"} => a \notin Producers
    BY InvParts DEF Roles
<1>3. ASSUME NEW c \in CPUs, TryOwn(c) PROVE Inv'
    BY <1>1, <1>2, <1>3, ConsumeInv DEF TryOwn
<1>4. ASSUME NEW c \in CPUs, TryOther(c) PROVE Inv'
    BY <1>1, <1>2, <1>4, ConsumeInv DEF TryOther
<1>5. ASSUME NEW a \in Idles, IdleConsume(a) PROVE Inv'
    <2>1. Home[a] \in CPUs
        BY TaskAssumption
    <2> QED
        BY <1>1, <1>2, <1>5, <2>1, ConsumeInv DEF IdleConsume
<1> QED
    BY <1>3, <1>4, <1>5

LEMMA SleepInv ==
    ASSUME Inv, NEW c \in CPUs, TaskSleep(c) \/ TaskAwake(c)
    PROVE  Inv'
<1>1. c \in Actors /\ c \notin Producers
    BY TaskAssumption DEF Actors
<1>2. /\ pc \in [Actors -> Labels] /\ cur \in [Actors -> Tasks \cup {Nothing}]
      /\ sleeping \in SUBSET CPUs
    BY InvParts DEF Typed
<1>3. \E l \in {"own", "asleep"} :
          /\ pc[c] \in {"sleep", "asleep"} /\ pc' = [pc EXCEPT ![c] = l]
          /\ sleeping' \in SUBSET CPUs
          /\ UNCHANGED <<queueVars, memVars, task, cur, waitVars, jobs, ran>>
    <2>1. CASE TaskSleep(c)
        <3>1. PICK ready : Sleep(c, ready)
            BY <2>1 DEF TaskSleep
        <3>2. CASE ready
            BY <1>2, <3>1, <3>2 DEF Sleep, Goto
        <3>3. CASE ~ready
            BY <1>2, <3>1, <3>3 DEF Sleep, Goto
        <3> QED BY <3>2, <3>3
    <2>2. CASE TaskAwake(c)
        BY <1>2, <2>2 DEF TaskAwake, Goto
    <2> QED BY <2>1, <2>2
<1>4. /\ pc[c] \in {"sleep", "asleep"} /\ pc' \in [Actors -> Labels] /\ pc'[c] \in {"own", "asleep"}
      /\ \A b \in Actors : b # c => pc'[b] = pc[b] /\ cur'[b] = cur[b]
      /\ cur' \in [Actors -> Tasks \cup {Nothing}] /\ sleeping' \in SUBSET CPUs
      /\ UNCHANGED <<queueVars, memVars, task, waitVars, jobs, ran>>
    BY <1>1, <1>2, <1>3 DEF Labels
<1>5. ~Holding(c)
    BY <1>4 DEF Holding
<1> QED
    BY <1>1, <1>4, <1>5, QuietStep

-----------------------------------------------------------------------------
(* Producing and waiting *)

LEMMA ProduceWakeInv ==
    ASSUME Inv, NEW p \in Producers, ProduceWake(p)
    PROVE  Inv'
<1>1. p \in Actors
    BY DEF Actors
<1>2. /\ pc \in [Actors -> Labels] /\ cur \in [Actors -> Tasks \cup {Nothing}]
      /\ sleeping \in SUBSET CPUs
    BY InvParts DEF Typed
<1>3. /\ pc[p] = "wake" /\ pc' = [pc EXCEPT ![p] = IF p \in Detached THEN "idle" ELSE "wait"]
      /\ sleeping' \in SUBSET CPUs
      /\ UNCHANGED <<queueVars, memVars, task, cur, waitVars, jobs, ran>>
    BY <1>2 DEF ProduceWake, Goto
<1>4. /\ pc' \in [Actors -> Labels] /\ pc'[p] = (IF p \in Detached THEN "idle" ELSE "wait")
      /\ \A b \in Actors : b # p => pc'[b] = pc[b] /\ cur'[b] = cur[b]
      /\ cur' \in [Actors -> Tasks \cup {Nothing}]
    BY <1>1, <1>2, <1>3 DEF Labels
<1>5. ~Holding(p)
    BY <1>3 DEF Holding
<1>6. pc'[p] \in {"idle", "wait"} /\ (p \in Detached <=> pc'[p] = "idle")
    BY <1>4
<1> QED
    BY <1>1, <1>3, <1>4, <1>5, <1>6, QuietStep

LEMMA WaitPumpInv ==
    ASSUME Inv, NEW p \in Producers, WaitPump(p)
    PROVE  Inv'
<1>1. p \in Actors
    BY DEF Actors
<1> QED BY <1>1, ConsumeInv DEF WaitPump

\* The task goes from its producer to the queue of its kind.
LEMMA EnqueueInv ==
    ASSUME Inv, NEW p \in Producers, Enqueue(p)
    PROVE  Inv'
<1> USE DEF memVars, waitVars
<1>1. /\ pc[p] = "enqueue" /\ pc' = [pc EXCEPT ![p] = "wake"]
      /\ UNCHANGED <<memVars, task, sleeping, cur, waitVars, jobs, ran>>
    BY DEF Enqueue, Goto
<1>2. /\ Producers \subseteq Actors /\ Detached \subseteq Producers /\ Home[p] \in CPUs
      /\ mine[p] \in Tasks
    BY <1>1, TaskAssumption, InvParts DEF Actors, Roles
<1> PICK t \in Tasks : t = mine[p]
    BY <1>2
<1>3. /\ t \notin heap
      /\ \A d \in CPUs : /\ t \notin Range(free_stack[d])
                         /\ t \notin Range(unsized_queue[d])
                         /\ t \notin Range(sized_queue[d])
      /\ \A q \in Producers : pc[q] = "enqueue" /\ mine[q] = t => q = p
      /\ \A b \in Actors : Holding(b) => cur[b] # t
    BY <1>1, MadeOnly
<1>4. PICK k \in {"unsized", "sized"} :
          /\ \A d \in CPUs : \A u \in Range(unsized_queue'[d]) :
                 \/ u # t /\ u \in Range(unsized_queue[d])
                 \/ u = t /\ k = "unsized" /\ Home[p] = d
          /\ \A d \in CPUs : \A u \in Range(sized_queue'[d]) :
                 \/ u # t /\ u \in Range(sized_queue[d])
                 \/ u = t /\ k = "sized" /\ Home[p] = d
          /\ unsized_queue' \in [CPUs -> Seq(Tasks)] /\ sized_queue' \in [CPUs -> Seq(Tasks)]
          /\ \A d \in CPUs : Injective(unsized_queue'[d]) /\ Injective(sized_queue'[d])
    <2>1. /\ sized_queue \in [CPUs -> Seq(Tasks)] /\ unsized_queue \in [CPUs -> Seq(Tasks)]
          /\ \A d \in CPUs : Injective(unsized_queue[d]) /\ Injective(sized_queue[d])
        BY InvParts DEF Typed, NoRepeats
    <2>2. CASE /\ sized_queue' = [sized_queue EXCEPT ![Home[p]] = Append(@, t)]
               /\ UNCHANGED unsized_queue
        <3> DEFINE r == Append(sized_queue[Home[p]], t)
        <3>1. /\ r \in Seq(Tasks) /\ Injective(r)
              /\ \A u \in Range(r) : u = t \/ u \in Range(sized_queue[Home[p]])
            <4>1. /\ sized_queue[Home[p]] \in Seq(Tasks) /\ Injective(sized_queue[Home[p]])
                  /\ t \notin Range(sized_queue[Home[p]])
                BY <1>2, <1>3, <2>1
            <4> QED BY <4>1, AddedFacts
        <3>2. /\ sized_queue'[Home[p]] = r /\ sized_queue' \in [CPUs -> Seq(Tasks)]
              /\ \A d \in CPUs : d # Home[p] => sized_queue'[d] = sized_queue[d]
            BY <1>2, <2>1, <2>2, <3>1
        <3> HIDE DEF r
        <3>3. ASSUME NEW d \in CPUs, NEW u \in Range(sized_queue'[d])
              PROVE  (u # t /\ u \in Range(sized_queue[d])) \/ (u = t /\ Home[p] = d)
            <4>1. CASE d = Home[p]
                BY <3>1, <3>2, <4>1
            <4>2. CASE d # Home[p]
                BY <1>3, <3>2, <4>2
            <4> QED BY <4>1, <4>2
        <3>4. \A d \in CPUs : \A u \in Range(unsized_queue'[d]) :
                  u # t /\ u \in Range(unsized_queue[d])
            BY <1>3, <2>2
        <3>5. \A d \in CPUs : Injective(unsized_queue'[d]) /\ Injective(sized_queue'[d])
            BY <2>1, <2>2, <3>1, <3>2
        <3>6. unsized_queue' \in [CPUs -> Seq(Tasks)]
            BY <2>1, <2>2
        <3> WITNESS "sized" \in {"unsized", "sized"}
        <3> QED BY <3>2, <3>3, <3>4, <3>5, <3>6
    <2>3. CASE /\ unsized_queue' = [unsized_queue EXCEPT ![Home[p]] = Append(@, t)]
               /\ UNCHANGED sized_queue
        <3> DEFINE r == Append(unsized_queue[Home[p]], t)
        <3>1. /\ r \in Seq(Tasks) /\ Injective(r)
              /\ \A u \in Range(r) : u = t \/ u \in Range(unsized_queue[Home[p]])
            <4>1. /\ unsized_queue[Home[p]] \in Seq(Tasks) /\ Injective(unsized_queue[Home[p]])
                  /\ t \notin Range(unsized_queue[Home[p]])
                BY <1>2, <1>3, <2>1
            <4> QED BY <4>1, AddedFacts
        <3>2. /\ unsized_queue'[Home[p]] = r /\ unsized_queue' \in [CPUs -> Seq(Tasks)]
              /\ \A d \in CPUs : d # Home[p] => unsized_queue'[d] = unsized_queue[d]
            BY <1>2, <2>1, <2>3, <3>1
        <3> HIDE DEF r
        <3>3. ASSUME NEW d \in CPUs, NEW u \in Range(unsized_queue'[d])
              PROVE  (u # t /\ u \in Range(unsized_queue[d])) \/ (u = t /\ Home[p] = d)
            <4>1. CASE d = Home[p]
                BY <3>1, <3>2, <4>1
            <4>2. CASE d # Home[p]
                BY <1>3, <3>2, <4>2
            <4> QED BY <4>1, <4>2
        <3>4. \A d \in CPUs : \A u \in Range(sized_queue'[d]) :
                  u # t /\ u \in Range(sized_queue[d])
            BY <1>3, <2>3
        <3>5. \A d \in CPUs : Injective(unsized_queue'[d]) /\ Injective(sized_queue'[d])
            BY <2>1, <2>3, <3>1, <3>2
        <3>6. sized_queue' \in [CPUs -> Seq(Tasks)]
            BY <2>1, <2>3
        <3> WITNESS "unsized" \in {"unsized", "sized"}
        <3> QED BY <3>2, <3>3, <3>4, <3>5, <3>6
    <2> QED
        BY <2>2, <2>3 DEF Enqueue
<1>5. /\ pc'[p] = "wake" /\ \A b \in Actors : b # p => pc'[b] = pc[b]
      /\ Typed'
    BY <1>1, <1>2, <1>4, InvParts DEF Typed, Labels
<1>6. \A b \in Actors : Holding(b)' <=> Holding(b)
    BY <1>1, <1>2, <1>5 DEF Holding
<1>7. Moves(t, k, Home[p])
    <2>1. \A u \in heap' : u # t /\ u \in heap
        BY <1>1, <1>3
    <2>2. \A d \in CPUs : \A u \in Range(free_stack'[d]) : u # t /\ u \in Range(free_stack[d])
        BY <1>1, <1>3
    <2>3. \A q \in Producers : pc'[q] = "enqueue" =>
              mine'[q] # t /\ pc[q] = "enqueue" /\ mine[q] = mine'[q]
        BY <1>1, <1>2, <1>3, <1>5
    <2>4. \A b \in Actors : Holding(b)' => cur'[b] # t /\ Holding(b) /\ cur[b] = cur'[b]
        BY <1>1, <1>3, <1>6
    <2> QED
        BY <1>2, <1>4, <2>1, <2>2, <2>3, <2>4, MovesFrom
<1>8. Exclusive'
    BY <1>2, <1>7, ExclusiveMoved
<1>9. NoRepeats'
    BY <1>1, <1>4, InvParts DEF NoRepeats
<1>10. Roles'
    BY <1>1, <1>2, <1>5, InvParts DEF Roles
<1>11. Jobs'
    <2>1. Fresh(t)
        BY <1>1 DEF Fresh
    <2>2. ASSUME NEW u \in Tasks, Fresh(u)', u # t PROVE Fresh(u)
        BY <1>1, <1>2, <1>4, <1>5, <2>2 DEF Fresh, Queued
    <2> QED BY <1>1, <2>1, <2>2, JobsKept
<1>12. Delivered'
    <2>1. \A q \in Producers : Waits(q)' => Waits(q) /\ mine[q] \in Tasks
        BY <1>1, <1>2, <1>5, InvParts DEF Waits, Roles
    <2>2. \E m \in Kinds, z \in Owners : In(m, z, t)
        BY <1>1, <1>2 DEF In, Kinds, Owners
    <2>3. ASSUME NEW q \in Producers, Waits(q)', NEW l \in Kinds, NEW y \in Owners,
                 In(l, y, mine[q])'
          PROVE  l \notin {"heap", "stack"} /\ \E m \in Kinds, z \in Owners : In(m, z, mine[q])
        <3>1. mine'[q] = mine[q]
            BY <1>1
        <3>2. CASE mine[q] = t
            BY <1>7, <2>2, <2>3, <3>1, <3>2 DEF Moves
        <3>3. CASE mine[q] # t
            <4>1. In(l, y, mine[q]) /\ Waits(q)
                BY <1>7, <2>1, <2>3, <3>1, <3>3 DEF Moves
            <4> QED BY <4>1, InvParts DEF Delivered
        <3> QED BY <3>2, <3>3
    <2>4. \A b \in Actors : pc'[b] = "flag" => pc[b] = "flag" /\ cur'[b] = cur[b]
        BY <1>1, <1>5
    <2> QED
        BY <1>1, <2>1, <2>3, <2>4, DeliveredKept
<1>13. WaitDelivers'
    BY <1>1, <1>2, <1>5, InvParts DEF WaitDelivers
<1> QED
    BY <1>5, <1>8, <1>9, <1>10, <1>11, <1>12, <1>13 DEF Inv

-----------------------------------------------------------------------------
(* Running and completing a task *)

\* Who has a task in its hands goes on with it.
LEMMA HoldStep ==
    ASSUME Inv, NEW a \in Actors, NEW t \in Tasks, cur[a] = t,
           pc[a] \in {"run", "output", "flag"}, pc'[a] \in {"output", "flag", "after"},
           \A b \in Actors : b # a => pc'[b] = pc[b],
           UNCHANGED <<queueVars, memVars, cur, mine>>,
           \A u \in Tasks : u # t => task'[u] = task[u],
           task'[t].detached = task[t].detached, task'[t].home = task[t].home
    PROVE  Exclusive' /\ NoRepeats' /\ Roles' /\ Moves(t, "held", a)
<1> USE DEF queueVars, memVars
<1>1. Producers \subseteq Actors /\ Detached \subseteq Producers
    BY TaskAssumption DEF Actors
<1>2. /\ t \notin heap
      /\ \A d \in CPUs : /\ t \notin Range(free_stack[d])
                         /\ t \notin Range(unsized_queue[d])
                         /\ t \notin Range(sized_queue[d])
      /\ \A p \in Producers : pc[p] = "enqueue" => mine[p] # t
      /\ \A b \in Actors : Holding(b) /\ cur[b] = t => b = a
    <2>1. Holding(a) /\ cur[a] \in Tasks
        BY DEF Holding
    <2> QED BY <2>1, HeldOnly
<1>3. ASSUME NEW b \in Actors, b # a PROVE Holding(b)' <=> Holding(b)
    <2>1. pc[b] = "after" => cur[b] \in Tasks
        BY InvParts DEF Roles
    <2>2. pc'[b] = pc[b] /\ cur'[b] = cur[b]
        BY <1>3
    <2>3. pc[b] = "after" => (task'[cur[b]].detached <=> task[cur[b]].detached)
        BY <2>1
    <2> QED BY <2>2, <2>3 DEF Holding
<1>4. Moves(t, "held", a)
    <2>1. \A p \in Producers : pc'[p] = "enqueue" =>
              mine'[p] # t /\ pc[p] = "enqueue" /\ mine[p] = mine'[p]
        BY <1>1, <1>2
    <2>2. ASSUME NEW b \in Actors, Holding(b)', b # a
          PROVE  cur'[b] # t /\ Holding(b) /\ cur[b] = cur'[b]
        BY <1>2, <1>3, <2>2
    <2>3. \A u \in heap' : u # t /\ u \in heap
        BY <1>2
    <2>4. \A d \in CPUs : /\ \A u \in Range(free_stack'[d]) : u # t /\ u \in Range(free_stack[d])
                          /\ \A u \in Range(unsized_queue'[d]) :
                                 u # t /\ u \in Range(unsized_queue[d])
                          /\ \A u \in Range(sized_queue'[d]) : u # t /\ u \in Range(sized_queue[d])
        BY <1>2
    <2>5. cur'[a] = t
        OBVIOUS
    <2> QED
        BY <2>1, <2>2, <2>3, <2>4, <2>5, MovesFrom
<1>5. NoRepeats'
    BY InvParts DEF NoRepeats
<1>6. Roles'
    <2>1. /\ \A p \in Producers : pc'[p] \notin {"own", "pump", "other", "sleep", "asleep"}
          /\ \A p \in Detached : pc'[p] \in {"idle", "enqueue", "wake"}
          /\ \A b \in Actors : b \notin Producers =>
                 pc'[b] \notin {"idle", "enqueue", "wake", "wait"}
        BY <1>1, InvParts DEF Roles
    <2>2. /\ \A b \in Actors : pc'[b] \in {"run", "output", "flag", "after"} => cur'[b] \in Tasks
          /\ \A p \in Producers : pc'[p] # "idle" => mine'[p] \in Tasks
        BY <1>1, InvParts DEF Roles
    <2>3. \A u \in Tasks : u \notin heap' => task'[u].home \in CPUs
        BY InvParts DEF Roles
    <2> QED BY <2>1, <2>2, <2>3 DEF Roles
<1> QED
    BY <1>4, <1>5, <1>6, ExclusiveMoved

\* What a waiter's task looks like, seen from who has it.
LEMMA HeldAwaited ==
    ASSUME Inv, NEW a \in Actors, NEW t \in Tasks, cur[a] = t, pc[a] \in {"run", "output", "flag"},
           NEW p \in Producers, Waits(p)
    PROVE  mine[p] \in Tasks /\ (mine[p] = t => ~task[t].completed /\ ~task[t].detached)
<1>1. In("held", a, t) /\ a \in Owners /\ "held" \in Kinds
    BY DEF In, Holding, Owners, Kinds
<1>2. mine[p] \in Tasks
    BY InvParts DEF Roles, Waits
<1> QED
    BY <1>1, <1>2, InvParts DEF Delivered

LEMMA RunInv ==
    ASSUME Inv, NEW a \in Actors, Run(a)
    PROVE  Inv'
<1> USE DEF queueVars, memVars, waitVars
<1>1. /\ pc[a] = "run" /\ pc' = [pc EXCEPT ![a] = "output"]
      /\ ran' = [ran EXCEPT ![task[cur[a]].job] = @ + 1]
      /\ UNCHANGED <<queueVars, memVars, task, sleeping, cur, waitVars, jobs>>
    BY DEF Run, Goto
<1> PICK t \in Tasks : t = cur[a]
    BY <1>1, InvParts DEF Roles
<1>2. pc'[a] = "output" /\ \A b \in Actors : b # a => pc'[b] = pc[b]
    BY <1>1, InvParts DEF Typed
<1>3. Exclusive' /\ NoRepeats' /\ Roles' /\ Moves(t, "held", a)
    BY <1>1, <1>2, HoldStep
<1>4. Fresh(t) /\ task[t].job \in 1 .. jobs /\ ran[task[t].job] = 0 /\ jobs \in 0 .. MaxJobs
    BY <1>1, InvParts DEF Fresh, Jobs, Typed
<1> DEFINE j == task[t].job
<1>5. /\ j \in 1 .. MaxJobs /\ ran'[j] = 1 /\ ran' \in [1 .. MaxJobs -> Nat]
      /\ \A i \in 1 .. MaxJobs : i # j => ran'[i] = ran[i]
    <2>1. ran \in [1 .. MaxJobs -> Nat] /\ MaxJobs \in Nat
        BY InvParts, TaskAssumption DEF Typed
    <2>2. j \in 1 .. MaxJobs
        BY SMTT(30), <1>4, <2>1
    <2>3. ran[j] + 1 = 1
        BY SMTT(30), <1>4
    <2>4. ran' = [ran EXCEPT ![j] = 1]
        BY <1>1, <2>3
    <2> HIDE DEF j
    <2> QED
        BY SMTT(30), <2>1, <2>2, <2>4
<1>6. Typed'
    BY <1>1, <1>5, InvParts DEF Typed, Labels
<1>7. Jobs'
    <2>1. ASSUME NEW u \in Tasks, Fresh(u)'
          PROVE  Fresh(u) /\ u # t
        <3>1. u # t
            <4>1. \A d \in CPUs : t \notin Range(unsized_queue[d]) /\ t \notin Range(sized_queue[d])
                BY <1>1, HeldOnly DEF Holding
            <4>2. \A p \in Producers : pc[p] = "enqueue" => mine[p] # t
                BY <1>1, HeldOnly DEF Holding
            <4>3. \A b \in Actors : pc[b] = "run" /\ cur[b] = t => b = a
                BY <1>1, HeldOnly DEF Holding
            <4> QED
                BY <1>1, <1>2, <2>1, <4>1, <4>2, <4>3, TaskAssumption DEF Fresh, Queued, Actors
        <3> QED
            BY <1>1, <1>2, <2>1, <3>1, TaskAssumption DEF Fresh, Queued, Actors
    <2>2. \A u \in Tasks : Fresh(u)' => /\ task'[u].job \in 1 .. jobs' /\ task'[u].job # j
                                        /\ ran[task'[u].job] = 0
        BY <1>1, <1>4, <2>1, InvParts DEF Jobs
    <2>3. \A u \in Tasks : Fresh(u)' => task'[u].job \in 1 .. MaxJobs
        BY SMTT(30), <1>1, <1>4, <2>2, TaskAssumption
    <2>4. \A u \in Tasks : Fresh(u)' => task'[u].job \in 1 .. jobs' /\ ran'[task'[u].job] = 0
        BY <1>5, <2>2, <2>3
    <2>5. ASSUME NEW u \in Tasks, NEW v \in Tasks, Fresh(u)', Fresh(v)',
                 task'[u].job = task'[v].job
          PROVE  u = v
        BY <1>1, <2>1, <2>5, InvParts DEF Jobs
    <2>6. ASSUME NEW i \in 1 .. MaxJobs PROVE ran'[i] <= 1 /\ (i > jobs' => ran'[i] = 0)
        <3>1. CASE i = j
            BY SMTT(30), <1>1, <1>4, <1>5, <3>1
        <3>2. CASE i # j
            BY <1>1, <1>5, <3>2, InvParts DEF Jobs
        <3> QED BY <3>1, <3>2
    <2> QED
        BY <2>4, <2>5, <2>6 DEF Jobs
<1>8. Delivered'
    <2>1. \A q \in Producers : Waits(q)' => Waits(q) /\ mine[q] \in Tasks
        BY <1>1, <1>2, InvParts, TaskAssumption DEF Waits, Roles, Actors
    <2>2. \E m \in Kinds, z \in Owners : In(m, z, t)
        BY <1>1 DEF In, Kinds, Owners, Holding
    <2>3. ASSUME NEW q \in Producers, Waits(q)', NEW l \in Kinds, NEW y \in Owners,
                 In(l, y, mine[q])'
          PROVE  l \notin {"heap", "stack"} /\ \E m \in Kinds, z \in Owners : In(m, z, mine[q])
        <3>1. mine'[q] = mine[q]
            BY <1>1
        <3>2. CASE mine[q] = t
            BY <1>3, <2>2, <2>3, <3>1, <3>2 DEF Moves
        <3>3. CASE mine[q] # t
            <4>1. In(l, y, mine[q]) /\ Waits(q)
                BY <1>3, <2>1, <2>3, <3>1, <3>3 DEF Moves
            <4> QED BY <4>1, InvParts DEF Delivered
        <3> QED BY <3>2, <3>3
    <2>4. \A b \in Actors : pc'[b] = "flag" => pc[b] = "flag" /\ cur'[b] = cur[b]
        BY <1>1, <1>2
    <2> QED
        BY <1>1, <2>1, <2>3, <2>4, DeliveredKept
<1>9. WaitDelivers'
    BY <1>1, <1>2, InvParts, TaskAssumption DEF WaitDelivers, Actors
<1> QED
    BY <1>3, <1>6, <1>7, <1>8, <1>9 DEF Inv

\* The steps of nk_task_complete make no task one that has yet to be run.
LEMMA CompleteJobs ==
    ASSUME Inv, NEW a \in Actors, pc'[a] # "run", pc'[a] # "enqueue",
           \A b \in Actors : b # a => pc'[b] = pc[b] /\ cur'[b] = cur[b],
           UNCHANGED <<queueVars, mine, jobs, ran>>,
           \A u \in Tasks : task'[u].job = task[u].job
    PROVE  Jobs'
<1>1. ASSUME NEW u \in Tasks, Fresh(u)' PROVE Fresh(u)
    BY <1>1, TaskAssumption DEF Fresh, Queued, Actors, queueVars
<1> QED BY <1>1, JobsKept

LEMMA OutputFields ==
    ASSUME Inv, NEW a \in Actors, NEW t \in Tasks, t = cur[a],
           task' = [task EXCEPT ![cur[a]].output = task[cur[a]].job]
    PROVE  /\ task' \in [Tasks -> [size : Nat, detached : BOOLEAN, completed : BOOLEAN, job : Nat,
                                   output : Nat, home : CPUs \cup {Nothing}]]
           /\ \A u \in Tasks : u # t => task'[u] = task[u]
           /\ task'[t].detached = task[t].detached /\ task'[t].home = task[t].home
           /\ task'[t].job = task[t].job /\ task'[t].completed = task[t].completed
           /\ task'[t].output = task[t].job
<1>1. task \in [Tasks -> [size : Nat, detached : BOOLEAN, completed : BOOLEAN, job : Nat,
                          output : Nat, home : CPUs \cup {Nothing}]]
    BY InvParts DEF Typed
<1>2. task' = [task EXCEPT ![t].output = task[t].job]
    OBVIOUS
<1> QED BY SMTT(30), <1>1, <1>2

\* The output is stored: for the task's waiter, if it has one, it is not there yet.
LEMMA CompleteOutputInv ==
    ASSUME Inv, NEW a \in Actors, CompleteOutput(a)
    PROVE  Inv'
<1>1. /\ pc[a] = "output" /\ pc' = [pc EXCEPT ![a] = "flag"]
      /\ task' = [task EXCEPT ![cur[a]].output = task[cur[a]].job]
      /\ UNCHANGED <<queueVars, memVars, sleeping, cur, mine, want, got, jobs, ran>>
    BY DEF CompleteOutput, Goto
<1> PICK t \in Tasks : t = cur[a]
    BY <1>1, InvParts DEF Roles
<1>2. pc'[a] = "flag" /\ \A b \in Actors : b # a => pc'[b] = pc[b]
    BY <1>1, InvParts DEF Typed
<1>3. /\ task' \in [Tasks -> [size : Nat, detached : BOOLEAN, completed : BOOLEAN, job : Nat,
                              output : Nat, home : CPUs \cup {Nothing}]]
      /\ \A u \in Tasks : u # t => task'[u] = task[u]
      /\ task'[t].detached = task[t].detached /\ task'[t].home = task[t].home
      /\ task'[t].job = task[t].job /\ task'[t].completed = task[t].completed
      /\ task'[t].output = task[t].job
    BY <1>1, OutputFields
<1>4. dest' \in [Producers -> BOOLEAN] /\ \A p \in Producers : p # a => dest'[p] = dest[p]
    <2>1. dest \in [Producers -> BOOLEAN]
        BY InvParts DEF Typed
    <2>2. CASE a \in Producers /\ dest' = [dest EXCEPT ![a] = FALSE]
        BY <2>1, <2>2
    <2>3. CASE dest' = dest
        BY <2>1, <2>3
    <2> QED BY <2>2, <2>3 DEF CompleteOutput
<1>5. Exclusive' /\ NoRepeats' /\ Roles' /\ Moves(t, "held", a)
    BY <1>1, <1>2, <1>3, HoldStep
<1>6. Typed'
    BY <1>1, <1>3, <1>4, InvParts DEF Typed, Labels, queueVars, memVars
<1>7. Jobs'
    <2>1. /\ pc'[a] # "run" /\ pc'[a] # "enqueue" /\ UNCHANGED <<queueVars, mine, jobs, ran>>
          /\ \A b \in Actors : b # a => pc'[b] = pc[b] /\ cur'[b] = cur[b]
        BY <1>1, <1>2
    <2>2. \A u \in Tasks : task'[u].job = task[u].job
        BY <1>3
    <2> QED BY <2>1, <2>2, CompleteJobs
<1>8. Delivered'
    <2>1. \A p \in Producers : Waits(p)' => Waits(p)
        BY <1>1, <1>2, TaskAssumption DEF Waits, Actors
    <2>2. ASSUME NEW p \in Producers, Waits(p)'
          PROVE  /\ task'[mine'[p]].job = want'[p] /\ ~task'[mine'[p]].detached
                 /\ \A k \in Kinds, x \in Owners : In(k, x, mine[p])' =>
                        k \notin {"heap", "stack"} /\ ~task'[mine'[p]].completed
                 /\ task'[mine'[p]].completed => task'[mine'[p]].output = task'[mine'[p]].job
        <3>1. mine[p] \in Tasks /\ (mine[p] = t => ~task[t].completed /\ ~task[t].detached)
            BY <1>1, <2>1, <2>2, HeldAwaited
        <3>2. /\ mine'[p] = mine[p] /\ want'[p] = want[p]
              /\ task[mine[p]].job = want[p] /\ ~task[mine[p]].detached
              /\ \A k \in Kinds, x \in Owners : In(k, x, mine[p]) =>
                     k \notin {"heap", "stack"} /\ ~task[mine[p]].completed
              /\ task[mine[p]].completed => task[mine[p]].output = task[mine[p]].job
            BY <1>1, <2>1, <2>2, InvParts DEF Delivered
        <3>3. CASE mine[p] = t
            BY <1>3, <1>5, <3>1, <3>2, <3>3 DEF Moves
        <3>4. CASE mine[p] # t
            <4>1. task'[mine'[p]] = task[mine[p]]
                BY <1>3, <3>1, <3>2, <3>4
            <4>2. \A k \in Kinds, x \in Owners : In(k, x, mine[p])' => In(k, x, mine[p])
                BY <1>5, <3>1, <3>2, <3>4 DEF Moves
            <4> QED BY <3>2, <4>1, <4>2
        <3> QED BY <3>3, <3>4
    <2>3. ASSUME NEW p \in Producers, NEW q \in Producers, Waits(p)', Waits(q)',
                 mine'[p] = mine'[q]
          PROVE  p = q
        BY <1>1, <2>1, <2>3, InvParts DEF Delivered
    <2>4. ASSUME NEW b \in Actors, pc'[b] = "flag"
          PROVE  task'[cur'[b]].output = task'[cur'[b]].job
        <3>1. CASE b = a
            BY <1>1, <1>3, <3>1
        <3>2. CASE b # a
            <4>1. pc[b] = "flag" /\ cur[b] \in Tasks /\ cur'[b] = cur[b]
                BY <1>1, <1>2, <2>4, <3>2, InvParts DEF Roles
            <4>2. cur[b] # t
                BY <1>1, <3>2, <4>1, HeldOnly DEF Holding
            <4>3. task[cur[b]].output = task[cur[b]].job
                BY <4>1, InvParts DEF Delivered
            <4> QED BY <1>3, <4>1, <4>2, <4>3
        <3> QED BY <3>1, <3>2
    <2> QED
        BY <2>2, <2>3, <2>4 DEF Delivered
<1>9. WaitDelivers'
    BY <1>1, <1>2, <1>4, InvParts, TaskAssumption DEF WaitDelivers, Actors
<1> QED
    BY <1>5, <1>6, <1>7, <1>8, <1>9 DEF Inv

LEMMA FlagFields ==
    ASSUME Inv, NEW a \in Actors, NEW t \in Tasks, t = cur[a],
           task' = [task EXCEPT ![cur[a]].completed = TRUE]
    PROVE  /\ task' \in [Tasks -> [size : Nat, detached : BOOLEAN, completed : BOOLEAN, job : Nat,
                                   output : Nat, home : CPUs \cup {Nothing}]]
           /\ \A u \in Tasks : u # t => task'[u] = task[u]
           /\ task'[t].detached = task[t].detached /\ task'[t].home = task[t].home
           /\ task'[t].job = task[t].job /\ task'[t].output = task[t].output
<1>1. task \in [Tasks -> [size : Nat, detached : BOOLEAN, completed : BOOLEAN, job : Nat,
                          output : Nat, home : CPUs \cup {Nothing}]]
    BY InvParts DEF Typed
<1>2. task' = [task EXCEPT ![t] = [task[t] EXCEPT !.completed = TRUE]]
    OBVIOUS
<1>3. [task[t] EXCEPT !.completed = TRUE] \in
          [size : Nat, detached : BOOLEAN, completed : BOOLEAN, job : Nat,
           output : Nat, home : CPUs \cup {Nothing}]
    BY <1>1
<1>4. /\ task'[t] = [task[t] EXCEPT !.completed = TRUE]
      /\ \A u \in Tasks : u # t => task'[u] = task[u]
    BY <1>1, <1>2
<1>5. /\ task'[t].detached = task[t].detached /\ task'[t].home = task[t].home
      /\ task'[t].job = task[t].job /\ task'[t].output = task[t].output
    <2> PICK r \in [size : Nat, detached : BOOLEAN, completed : BOOLEAN, job : Nat,
                    output : Nat, home : CPUs \cup {Nothing}] : r = task[t]
        BY <1>1
    <2>1. task'[t] = [r EXCEPT !.completed = TRUE]
        BY <1>4
    <2>2. /\ [r EXCEPT !.completed = TRUE].detached = r.detached
          /\ [r EXCEPT !.completed = TRUE].home = r.home
        OBVIOUS
    <2>3. /\ [r EXCEPT !.completed = TRUE].job = r.job
          /\ [r EXCEPT !.completed = TRUE].output = r.output
        OBVIOUS
    <2> QED BY <2>1, <2>2, <2>3
<1>6. task' \in [Tasks -> [size : Nat, detached : BOOLEAN, completed : BOOLEAN, job : Nat,
                           output : Nat, home : CPUs \cup {Nothing}]]
    BY <1>1, <1>2, <1>3
<1> QED BY <1>4, <1>5, <1>6

\* The flag is set: the waiter finds the output that was stored before.
LEMMA CompleteFlagInv ==
    ASSUME Inv, NEW a \in Actors, CompleteFlag(a)
    PROVE  Inv'
<1>1. /\ pc[a] = "flag" /\ pc' = [pc EXCEPT ![a] = "after"]
      /\ task' = [task EXCEPT ![cur[a]].completed = TRUE]
      /\ UNCHANGED <<queueVars, memVars, sleeping, cur, waitVars, jobs, ran>>
    BY DEF CompleteFlag, Goto
<1> PICK t \in Tasks : t = cur[a]
    BY <1>1, InvParts DEF Roles
<1>2. pc'[a] = "after" /\ \A b \in Actors : b # a => pc'[b] = pc[b]
    BY <1>1, InvParts DEF Typed
<1>3. /\ task' \in [Tasks -> [size : Nat, detached : BOOLEAN, completed : BOOLEAN, job : Nat,
                              output : Nat, home : CPUs \cup {Nothing}]]
      /\ \A u \in Tasks : u # t => task'[u] = task[u]
      /\ task'[t].detached = task[t].detached /\ task'[t].home = task[t].home
      /\ task'[t].job = task[t].job /\ task'[t].output = task[t].output
    BY <1>1, FlagFields
<1>4. mine' = mine /\ want' = want /\ got' = got /\ dest' = dest
    BY <1>1 DEF waitVars
<1>5. Exclusive' /\ NoRepeats' /\ Roles' /\ Moves(t, "held", a)
    <2>1. /\ pc[a] \in {"run", "output", "flag"} /\ pc'[a] \in {"output", "flag", "after"}
          /\ UNCHANGED <<queueVars, memVars, cur, mine>>
        BY <1>1, <1>2, <1>4
    <2> QED BY <1>2, <1>3, <2>1, HoldStep
<1>6. Typed'
    BY <1>1, <1>3, <1>4, InvParts DEF Typed, Labels, queueVars, memVars
<1>7. Jobs'
    <2>1. /\ pc'[a] # "run" /\ pc'[a] # "enqueue" /\ UNCHANGED <<queueVars, mine, jobs, ran>>
          /\ \A b \in Actors : b # a => pc'[b] = pc[b] /\ cur'[b] = cur[b]
        BY <1>1, <1>2, <1>4
    <2>2. \A u \in Tasks : task'[u].job = task[u].job
        BY <1>3
    <2> QED BY <2>1, <2>2, CompleteJobs
<1>8. Delivered'
    <2>1. \A p \in Producers : Waits(p)' => Waits(p)
        BY <1>1, <1>2, TaskAssumption DEF Waits, Actors
    <2>2. ASSUME NEW p \in Producers, Waits(p)'
          PROVE  /\ task'[mine'[p]].job = want'[p] /\ ~task'[mine'[p]].detached
                 /\ \A k \in Kinds, x \in Owners : In(k, x, mine[p])' =>
                        k \notin {"heap", "stack"} /\ ~task'[mine'[p]].completed
                 /\ task'[mine'[p]].completed => task'[mine'[p]].output = task'[mine'[p]].job
        <3>1. mine[p] \in Tasks /\ (mine[p] = t => ~task[t].completed /\ ~task[t].detached)
            BY <1>1, <2>1, <2>2, HeldAwaited
        <3>2. /\ mine'[p] = mine[p] /\ want'[p] = want[p]
              /\ task[mine[p]].job = want[p] /\ ~task[mine[p]].detached
              /\ \A k \in Kinds, x \in Owners : In(k, x, mine[p]) =>
                     k \notin {"heap", "stack"} /\ ~task[mine[p]].completed
              /\ task[mine[p]].completed => task[mine[p]].output = task[mine[p]].job
            BY <1>4, <2>1, <2>2, InvParts DEF Delivered
        <3>3. CASE mine[p] = t
            <4>1. ~Holding(a)'
                BY <1>1, <1>2, <1>3, <3>1, <3>3 DEF Holding
            <4>2. \A k \in Kinds, x \in Owners : ~In(k, x, mine[p])'
                <5> SUFFICES ASSUME NEW k \in Kinds, NEW x \in Owners, In(k, x, mine[p])'
                             PROVE  FALSE
                    OBVIOUS
                <5>0. In(k, x, t)'
                    BY <3>2, <3>3 DEF In
                <5>1. k = "held" /\ x = a
                    BY <1>5, <5>0 DEF Moves
                <5> QED BY <4>1, <5>1 DEF In
            <4>3. task[t].output = task[t].job
                BY <1>1, InvParts DEF Delivered
            <4> QED BY <1>3, <3>2, <3>3, <4>2, <4>3
        <3>4. CASE mine[p] # t
            <4>1. task'[mine'[p]] = task[mine[p]]
                BY <1>3, <3>1, <3>2, <3>4
            <4>2. \A k \in Kinds, x \in Owners : In(k, x, mine[p])' => In(k, x, mine[p])
                BY <1>5, <3>1, <3>2, <3>4 DEF Moves
            <4> QED BY <3>2, <4>1, <4>2
        <3> QED BY <3>3, <3>4
    <2>3. ASSUME NEW p \in Producers, NEW q \in Producers, Waits(p)', Waits(q)',
                 mine'[p] = mine'[q]
          PROVE  p = q
        BY <1>4, <2>1, <2>3, InvParts DEF Delivered
    <2>4. ASSUME NEW b \in Actors, pc'[b] = "flag"
          PROVE  task'[cur'[b]].output = task'[cur'[b]].job
        <3>1. pc[b] = "flag" /\ cur[b] \in Tasks /\ cur'[b] = cur[b] /\ b # a
            BY <1>1, <1>2, <2>4, InvParts DEF Roles
        <3>2. cur[b] # t
            BY <1>1, <3>1, HeldOnly DEF Holding
        <3>3. task[cur[b]].output = task[cur[b]].job
            BY <3>1, InvParts DEF Delivered
        <3> QED BY <1>3, <3>1, <3>2, <3>3
    <2> QED
        BY <2>2, <2>3, <2>4 DEF Delivered
<1>9. WaitDelivers'
    BY <1>1, <1>2, <1>4, InvParts, TaskAssumption DEF WaitDelivers, Actors
<1> QED
    BY <1>5, <1>6, <1>7, <1>8, <1>9 DEF Inv

-----------------------------------------------------------------------------
(* Freeing a task *)

\* task_dealloc puts a task that is not free on the stack of its CPU or on the heap.
LEMMA DeallocFacts ==
    ASSUME Inv, NEW t \in Tasks, task_dealloc(t), t \notin heap,
           \A d \in CPUs : t \notin Range(free_stack[d])
    PROVE  \E k \in {"heap", "stack"}, x \in Owners :
               /\ heap' \in SUBSET Tasks /\ heap \subseteq heap'
               /\ \A u \in heap' : (u # t /\ u \in heap) \/ (u = t /\ k = "heap" /\ x = Nothing)
               /\ free_stack' \in [CPUs -> Seq(Tasks)]
               /\ \A d \in CPUs : Injective(free_stack'[d]) /\ Len(free_stack'[d]) <= PoolSize
               /\ \A d \in CPUs : \A u \in Range(free_stack'[d]) :
                      (u # t /\ u \in Range(free_stack[d])) \/ (u = t /\ k = "stack" /\ x = d)
<1>1. /\ heap \in SUBSET Tasks /\ free_stack \in [CPUs -> Seq(Tasks)]
      /\ \A d \in CPUs : Injective(free_stack[d]) /\ Len(free_stack[d]) <= PoolSize
      /\ task[t].home \in CPUs
    BY InvParts DEF Typed, NoRepeats, Roles
<1> DEFINE c == task[t].home
           s == free_stack[c]
           r == <<t>> \o s
<1>2. CASE heap' = heap \cup {t} /\ UNCHANGED free_stack
    <2>1. /\ heap' \in SUBSET Tasks /\ heap \subseteq heap'
          /\ \A u \in heap' : (u # t /\ u \in heap) \/ u = t
          /\ free_stack' = free_stack /\ Nothing \in Owners
        BY <1>1, <1>2 DEF Owners
    <2>2. \A d \in CPUs : \A u \in Range(free_stack'[d]) : u # t /\ u \in Range(free_stack[d])
        BY <1>2
    <2> WITNESS "heap" \in {"heap", "stack"}
    <2> QED BY <1>1, <2>1, <2>2
<1>3. CASE /\ ~(Len(s) >= PoolSize) /\ free_stack' = [free_stack EXCEPT ![c] = r]
           /\ UNCHANGED heap
    <2>1. r \in Seq(Tasks) /\ Len(r) = Len(s) + 1 /\ Injective(r)
          /\ \A u \in Range(r) : u = t \/ u \in Range(s)
        <3>1. s \in Seq(Tasks) /\ t \notin Range(s) /\ Injective(s)
            BY <1>1
        <3> HIDE DEF s
        <3> QED BY <3>1, AddedFacts
    <2>2. Len(r) <= PoolSize
        <3>1. Len(s) \in Nat /\ PoolSize \in Nat
            <4>1. s \in Seq(Tasks)
                BY <1>1
            <4> HIDE DEF s
            <4> QED BY SMTT(30), <4>1, TaskAssumption
        <3> HIDE DEF s, r
        <3> QED BY SMTT(30), <1>3, <2>1, <3>1
    <2>3. c \in CPUs /\ c \in Owners
        BY <1>1 DEF Owners, Actors
    <2> HIDE DEF r, c
    <2>4. /\ free_stack' \in [CPUs -> Seq(Tasks)] /\ free_stack'[c] = r
          /\ \A d \in CPUs : d # c => free_stack'[d] = free_stack[d]
        BY <1>1, <1>3, <2>1, <2>3
    <2>5. \A d \in CPUs : Injective(free_stack'[d]) /\ Len(free_stack'[d]) <= PoolSize
        BY <1>1, <2>1, <2>2, <2>4
    <2>6. ASSUME NEW d \in CPUs, NEW u \in Range(free_stack'[d])
          PROVE  (u # t /\ u \in Range(free_stack[d])) \/ (u = t /\ c = d)
        <3>1. CASE d = c
            BY <2>1, <2>4, <2>6, <3>1
        <3>2. CASE d # c
            BY <2>4, <2>6, <3>2
        <3> QED BY <3>1, <3>2
    <2>7. heap' \in SUBSET Tasks /\ heap \subseteq heap' /\ \A u \in heap' : u # t /\ u \in heap
        BY <1>1, <1>3
    <2> USE <2>3
    <2> WITNESS "stack" \in {"heap", "stack"}, c \in Owners
    <2> QED BY <2>4, <2>5, <2>6, <2>7
<1> QED
    BY <1>2, <1>3 DEF task_dealloc

\* What stays so when a task that is nowhere else any more is freed.
LEMMA FreeStep ==
    ASSUME Inv, NEW t \in Tasks, task_dealloc(t), t \notin heap,
           \A d \in CPUs : /\ t \notin Range(free_stack[d])
                           /\ t \notin Range(unsized_queue[d]) /\ t \notin Range(sized_queue[d]),
           UNCHANGED <<queueVars, task, jobs, ran>>,
           \A p \in Producers : pc'[p] = "enqueue" =>
               mine'[p] # t /\ pc[p] = "enqueue" /\ mine[p] = mine'[p],
           \A b \in Actors : Holding(b)' => cur'[b] # t /\ Holding(b) /\ cur[b] = cur'[b],
           \A p \in Producers : Waits(p)' =>
               Waits(p) /\ mine'[p] = mine[p] /\ want'[p] = want[p] /\ mine[p] # t,
           \A b \in Actors : pc'[b] = "flag" => pc[b] = "flag" /\ cur'[b] = cur[b],
           \A b \in Actors : pc'[b] = "run" => pc[b] = "run" /\ cur'[b] = cur[b]
    PROVE  /\ Exclusive' /\ NoRepeats' /\ Jobs' /\ Delivered'
           /\ heap' \in SUBSET Tasks /\ heap \subseteq heap'
           /\ free_stack' \in [CPUs -> Seq(Tasks)]
           /\ \A d \in CPUs : Len(free_stack'[d]) <= PoolSize
<1>1. PICK k \in {"heap", "stack"}, x \in Owners :
          /\ heap' \in SUBSET Tasks /\ heap \subseteq heap'
          /\ \A u \in heap' : (u # t /\ u \in heap) \/ (u = t /\ k = "heap" /\ x = Nothing)
          /\ free_stack' \in [CPUs -> Seq(Tasks)]
          /\ \A d \in CPUs : Injective(free_stack'[d]) /\ Len(free_stack'[d]) <= PoolSize
          /\ \A d \in CPUs : \A u \in Range(free_stack'[d]) :
                 (u # t /\ u \in Range(free_stack[d])) \/ (u = t /\ k = "stack" /\ x = d)
    BY DeallocFacts
<1>2. unsized_queue' = unsized_queue /\ sized_queue' = sized_queue
    BY DEF queueVars
<1>3. Moves(t, k, x)
    BY <1>1, <1>2, MovesFrom
<1>4. Exclusive'
    BY <1>3, ExclusiveMoved
<1>5. NoRepeats'
    BY <1>1, <1>2, InvParts DEF NoRepeats
<1>6. Jobs'
    <2>1. ASSUME NEW u \in Tasks, Fresh(u)' PROVE Fresh(u)
        BY <1>2, <2>1 DEF Fresh, Queued
    <2> QED BY <2>1, JobsKept
<1>7. Delivered'
    <2>1. ASSUME NEW q \in Producers, Waits(q)', NEW l \in Kinds, NEW y \in Owners,
                 In(l, y, mine[q])'
          PROVE  l \notin {"heap", "stack"} /\ \E m \in Kinds, z \in Owners : In(m, z, mine[q])
        <3>1. Waits(q) /\ mine'[q] = mine[q] /\ mine[q] # t /\ mine[q] \in Tasks
            BY <2>1, InvParts DEF Roles, Waits
        <3>2. In(l, y, mine[q])
            BY <1>3, <2>1, <3>1 DEF Moves
        <3> QED BY <3>1, <3>2, InvParts DEF Delivered
    <2> QED
        BY <2>1, DeliveredKept
<1> QED
    BY <1>1, <1>4, <1>5, <1>6, <1>7

\* The waiter frees its task, which nobody else has: completed is set last.
LEMMA WaitDoneInv ==
    ASSUME Inv, NEW p \in Producers, WaitDone(p)
    PROVE  Inv'
<1>1. /\ pc[p] = "wait" /\ pc' = [pc EXCEPT ![p] = "idle"] /\ task[mine[p]].completed
      /\ got' = [got EXCEPT ![p] = IF dest[p] THEN task[mine[p]].output ELSE @]
      /\ task_dealloc(mine[p]) /\ mine' = [mine EXCEPT ![p] = Nothing]
      /\ UNCHANGED <<queueVars, task, sleeping, cur, want, dest, jobs, ran>>
    BY DEF WaitDone, Goto
<1>2. Producers \subseteq Actors /\ Detached \subseteq Producers
    BY TaskAssumption DEF Actors
<1> PICK t \in Tasks : t = mine[p]
    BY <1>1, InvParts DEF Roles
<1>3. Waits(p)
    BY <1>1, InvParts DEF Waits, Roles
<1>4. /\ task[t].job = want[p] /\ task[t].output = want[p] /\ ~task[t].detached
      /\ \A k \in Kinds, x \in Owners : ~In(k, x, t)
      /\ \A q \in Producers : Waits(q) /\ mine[q] = t => q = p
    BY <1>1, <1>3, InvParts DEF Delivered
<1>5. /\ t \notin heap
      /\ \A d \in CPUs : /\ t \notin Range(free_stack[d])
                         /\ t \notin Range(unsized_queue[d]) /\ t \notin Range(sized_queue[d])
      /\ \A q \in Producers : pc[q] = "enqueue" => mine[q] # t
      /\ \A b \in Actors : Holding(b) => cur[b] # t
    <2>1. t \notin heap
        BY <1>4 DEF In, Kinds, Owners
    <2>2. ASSUME NEW d \in CPUs
          PROVE  /\ t \notin Range(free_stack[d])
                 /\ t \notin Range(unsized_queue[d]) /\ t \notin Range(sized_queue[d])
        <3>1. d \in Owners /\ {"stack", "unsized", "sized"} \subseteq Kinds
            BY DEF Owners, Actors, Kinds
        <3>2. ~In("stack", d, t) /\ ~In("unsized", d, t) /\ ~In("sized", d, t)
            BY <1>4, <3>1
        <3> QED BY <3>2 DEF In
    <2>3. \A q \in Producers : pc[q] = "enqueue" => mine[q] # t
        BY <1>2, <1>4 DEF In, Kinds, Owners
    <2>4. \A b \in Actors : Holding(b) => cur[b] # t
        BY <1>4 DEF In, Kinds, Owners
    <2> QED BY <2>1, <2>2, <2>3, <2>4
<1>6. /\ pc'[p] = "idle" /\ \A b \in Actors : b # p => pc'[b] = pc[b]
      /\ pc' \in [Actors -> Labels]
      /\ \A q \in Producers : q # p => mine'[q] = mine[q] /\ got'[q] = got[q]
      /\ mine' \in [Producers -> Tasks \cup {Nothing}]
      /\ dest[p] => got'[p] = want[p]
    BY <1>1, <1>2, <1>4, InvParts DEF Typed, Labels
<1>7. got' \in [Producers -> Nat]
    <2>1. got \in [Producers -> Nat] /\ task[t].output \in Nat
        BY InvParts DEF Typed
    <2> QED BY <1>1, <2>1
<1>8. \A b \in Actors : Holding(b)' => Holding(b) /\ cur[b] = cur'[b]
    BY <1>1, <1>6 DEF Holding
<1>9. /\ Exclusive' /\ NoRepeats' /\ Jobs' /\ Delivered'
      /\ heap' \in SUBSET Tasks /\ heap \subseteq heap'
      /\ free_stack' \in [CPUs -> Seq(Tasks)]
      /\ \A d \in CPUs : Len(free_stack'[d]) <= PoolSize
    <2>1. \A q \in Producers : pc'[q] = "enqueue" =>
              mine'[q] # t /\ pc[q] = "enqueue" /\ mine[q] = mine'[q]
        BY <1>2, <1>5, <1>6
    <2>2. \A b \in Actors : Holding(b)' => cur'[b] # t /\ Holding(b) /\ cur[b] = cur'[b]
        BY <1>5, <1>8
    <2>3. \A q \in Producers : Waits(q)' =>
              Waits(q) /\ mine'[q] = mine[q] /\ want'[q] = want[q] /\ mine[q] # t
        BY <1>1, <1>2, <1>4, <1>6 DEF Waits
    <2>4. /\ \A b \in Actors : pc'[b] = "flag" => pc[b] = "flag" /\ cur'[b] = cur[b]
          /\ \A b \in Actors : pc'[b] = "run" => pc[b] = "run" /\ cur'[b] = cur[b]
        BY <1>1, <1>6
    <2> QED
        BY <1>1, <1>5, <2>1, <2>2, <2>3, <2>4, FreeStep
<1>10. Typed'
    BY <1>1, <1>6, <1>7, <1>9, InvParts DEF Typed, queueVars
<1>11. Roles'
    <2>1. \A u \in Tasks : u \notin heap' => task[u].home \in CPUs
        BY <1>9, InvParts DEF Roles
    <2>2. \A b \in Actors : pc'[b] \in {"run", "output", "flag", "after"} => cur'[b] \in Tasks
        BY <1>1, <1>2, <1>6, InvParts DEF Roles
    <2> QED
        BY <1>1, <1>2, <1>6, <2>1, <2>2, InvParts DEF Roles
<1>12. WaitDelivers'
    BY <1>1, <1>2, <1>6, InvParts DEF WaitDelivers
<1> QED
    BY <1>9, <1>10, <1>11, <1>12 DEF Inv

\* Who completed a task is done with it; a detached one it frees.
LEMMA CompleteFreeInv ==
    ASSUME Inv, NEW a \in Actors, CompleteFree(a)
    PROVE  Inv'
<1> DEFINE l == IF a \in Producers THEN "wait" ELSE Base(a)
<1>1. /\ pc[a] = "after" /\ pc' = [pc EXCEPT ![a] = l]
      /\ IF task[cur[a]].detached THEN task_dealloc(cur[a]) ELSE UNCHANGED memVars
      /\ cur' = [cur EXCEPT ![a] = Nothing]
      /\ UNCHANGED <<queueVars, task, sleeping, waitVars, jobs, ran>>
    BY DEF CompleteFree, Goto
<1>2. Producers \subseteq Actors /\ Detached \subseteq Producers
    BY TaskAssumption DEF Actors
<1>3. /\ a \in Producers => l = "wait" /\ a \notin Detached
      /\ a \notin Producers => l \in {"own", "pump"}
    BY <1>1, InvParts DEF Base, Roles
<1>4. l \in {"wait", "own", "pump"} /\ l \in Labels
    BY <1>3 DEF Labels
<1> HIDE DEF l
<1> PICK t \in Tasks : t = cur[a]
    BY <1>1, InvParts DEF Roles
<1>5. /\ pc'[a] = l /\ pc' \in [Actors -> Labels] /\ cur' \in [Actors -> Tasks \cup {Nothing}]
      /\ \A b \in Actors : b # a => pc'[b] = pc[b] /\ cur'[b] = cur[b]
    BY <1>1, <1>4, InvParts DEF Typed
<1>6. CASE ~task[t].detached
    <2>1. ~Holding(a)
        BY <1>1, <1>6 DEF Holding
    <2>2. UNCHANGED <<queueVars, memVars, task, waitVars, jobs, ran>> /\ sleeping' \in SUBSET CPUs
        BY <1>1, <1>6, InvParts DEF Typed
    <2>3. /\ pc'[a] \notin {"enqueue", "wake", "run", "output", "flag", "after"}
          /\ a \in Producers => pc'[a] \in {"idle", "wait"} /\ pc[a] # "idle"
          /\ a \in Producers => (a \in Detached <=> pc'[a] = "idle")
          /\ a \notin Producers => pc'[a] \notin {"idle", "wait"}
        BY <1>1, <1>3, <1>4, <1>5
    <2> QED
        BY <1>5, <2>1, <2>2, <2>3, QuietStep
<1>7. CASE task[t].detached
    <2>1. Holding(a) /\ task_dealloc(t)
        BY <1>1, <1>7 DEF Holding
    <2>2. /\ t \notin heap
          /\ \A d \in CPUs : /\ t \notin Range(free_stack[d])
                             /\ t \notin Range(unsized_queue[d]) /\ t \notin Range(sized_queue[d])
          /\ \A q \in Producers : pc[q] = "enqueue" => mine[q] # t
          /\ \A b \in Actors : Holding(b) /\ cur[b] = t => b = a
        BY <2>1, HeldOnly
    <2>3. mine' = mine /\ want' = want /\ got' = got /\ dest' = dest
        BY <1>1 DEF waitVars
    <2>4. \A b \in Actors : Holding(b)' => b # a /\ Holding(b) /\ cur[b] = cur'[b]
        BY <1>1, <1>4, <1>5 DEF Holding
    <2>5. \A q \in Producers : pc'[q] = "enqueue" =>
              mine'[q] # t /\ pc[q] = "enqueue" /\ mine[q] = mine'[q]
        BY <1>2, <1>4, <1>5, <2>2, <2>3
    <2>6. \A b \in Actors : Holding(b)' => cur'[b] # t /\ Holding(b) /\ cur[b] = cur'[b]
        BY <2>2, <2>4
    <2>7. ASSUME NEW q \in Producers, Waits(q)'
          PROVE  Waits(q) /\ mine'[q] = mine[q] /\ want'[q] = want[q] /\ mine[q] # t
        <3>1. Waits(q)
            BY <1>1, <1>2, <1>5, <2>7 DEF Waits
        <3>2. ~task[mine[q]].detached
            BY <3>1, InvParts DEF Delivered
        <3> QED BY <1>7, <2>3, <3>1, <3>2
    <2>8. /\ \A b \in Actors : pc'[b] = "flag" => pc[b] = "flag" /\ cur'[b] = cur[b]
          /\ \A b \in Actors : pc'[b] = "run" => pc[b] = "run" /\ cur'[b] = cur[b]
        BY <1>4, <1>5
    <2>9. /\ Exclusive' /\ NoRepeats' /\ Jobs' /\ Delivered'
          /\ heap' \in SUBSET Tasks /\ heap \subseteq heap'
          /\ free_stack' \in [CPUs -> Seq(Tasks)]
          /\ \A d \in CPUs : Len(free_stack'[d]) <= PoolSize
        BY <1>1, <2>1, <2>2, <2>5, <2>6, <2>7, <2>8, FreeStep
    <2>10. Typed'
        BY <1>1, <1>5, <2>3, <2>9, InvParts DEF Typed, queueVars
    <2>11. Roles'
        <3>1. /\ \A p \in Producers : pc'[p] \notin {"own", "pump", "other", "sleep", "asleep"}
              /\ \A p \in Detached : pc'[p] \in {"idle", "enqueue", "wake"}
              /\ \A b \in Actors : b \notin Producers =>
                     pc'[b] \notin {"idle", "enqueue", "wake", "wait"}
            BY <1>2, <1>3, <1>5, InvParts DEF Roles
        <3>2. /\ \A b \in Actors : pc'[b] \in {"run", "output", "flag", "after"} =>
                     cur'[b] \in Tasks
              /\ \A p \in Producers : pc'[p] # "idle" => mine'[p] \in Tasks
            BY <1>1, <1>2, <1>4, <1>5, <2>3, InvParts DEF Roles
        <3>3. \A u \in Tasks : u \notin heap' => task'[u].home \in CPUs
            BY <1>1, <2>9, InvParts DEF Roles
        <3> QED BY <3>1, <3>2, <3>3 DEF Roles
    <2>12. WaitDelivers'
        BY <1>2, <1>3, <1>5, <2>3, InvParts DEF WaitDelivers
    <2> QED
        BY <2>9, <2>10, <2>11, <2>12 DEF Inv
<1> QED
    BY <1>6, <1>7

-----------------------------------------------------------------------------
(* Producing a task *)

\* task_alloc takes a task that is free.
LEMMA AllocFacts ==
    ASSUME Inv, NEW p \in Producers, NEW t \in Tasks,
           IF free_stack[Home[p]] # <<>>
           THEN /\ t = Head(free_stack[Home[p]])
                /\ free_stack' = [free_stack EXCEPT ![Home[p]] = Tail(@)]
                /\ UNCHANGED heap
           ELSE t \in heap /\ heap' = heap \ {t} /\ UNCHANGED free_stack
    PROVE  /\ \E k \in {"heap", "stack"}, x \in Owners : In(k, x, t)
           /\ heap' \in SUBSET Tasks /\ \A u \in heap : u # t => u \in heap'
           /\ \A u \in heap' : u # t /\ u \in heap
           /\ free_stack' \in [CPUs -> Seq(Tasks)]
           /\ \A d \in CPUs : Injective(free_stack'[d]) /\ Len(free_stack'[d]) <= PoolSize
           /\ \A d \in CPUs : \A u \in Range(free_stack'[d]) : u # t /\ u \in Range(free_stack[d])
<1> DEFINE c == Home[p]
<1>1. /\ heap \in SUBSET Tasks /\ free_stack \in [CPUs -> Seq(Tasks)] /\ c \in CPUs
      /\ \A d \in CPUs : Injective(free_stack[d]) /\ Len(free_stack[d]) <= PoolSize
    BY InvParts, TaskAssumption DEF Typed, NoRepeats
<1>2. CASE free_stack[c] # <<>>
    <2> DEFINE s == free_stack[c]
               r == Tail(s)
    <2>1. /\ t = Head(s) /\ free_stack' = [free_stack EXCEPT ![c] = r] /\ heap' = heap
        BY <1>2
    <2>2. /\ Head(s) \in Tasks /\ Head(s) \in Range(s)
          /\ Tail(s) \in Seq(Tasks) /\ Len(Tail(s)) <= Len(s) /\ Injective(Tail(s))
          /\ Head(s) \notin Range(Tail(s)) /\ \A u \in Range(Tail(s)) : u \in Range(s)
        <3>1. s \in Seq(Tasks) /\ Injective(s) /\ s # <<>>
            BY <1>1, <1>2
        <3> HIDE DEF s
        <3> QED BY <3>1, HeadFacts
    <2>3. Len(r) <= PoolSize
        <3>1. s \in Seq(Tasks) /\ Len(s) <= PoolSize /\ PoolSize \in Nat
            BY <1>1, TaskAssumption
        <3> HIDE DEF s
        <3> QED BY SMTT(30), <2>2, <3>1
    <2>4. In("stack", c, t) /\ c \in Owners
        BY <1>1, <2>1, <2>2 DEF In, Owners, Actors
    <2>5. t \notin heap /\ \A d \in CPUs : t \in Range(free_stack[d]) => d = c
        <3>1. /\ t \in heap => "stack" = "heap"
              /\ \A d \in CPUs : t \in Range(free_stack[d]) => "stack" = "stack" /\ c = d
            BY <2>4, FreeOnly
        <3> QED BY <3>1
    <2> HIDE DEF c, r
    <2>6. /\ free_stack' \in [CPUs -> Seq(Tasks)] /\ free_stack'[c] = r
          /\ \A d \in CPUs : d # c => free_stack'[d] = free_stack[d]
        BY <1>1, <2>1, <2>2 DEF r
    <2>7. \A d \in CPUs : Injective(free_stack'[d]) /\ Len(free_stack'[d]) <= PoolSize
        BY <1>1, <2>2, <2>3, <2>6 DEF r
    <2>8. ASSUME NEW d \in CPUs, NEW u \in Range(free_stack'[d])
          PROVE  u # t /\ u \in Range(free_stack[d])
        <3>1. CASE d = c
            BY <2>1, <2>2, <2>6, <3>1 DEF r
        <3>2. CASE d # c
            BY <2>5, <2>6, <3>2
        <3> QED BY <3>1, <3>2
    <2>9. \E k \in {"heap", "stack"}, x \in Owners : In(k, x, t)
        BY <2>4
    <2> QED BY <1>1, <2>1, <2>5, <2>6, <2>7, <2>8, <2>9
<1>3. CASE ~(free_stack[c] # <<>>)
    <2>1. t \in heap /\ heap' = heap \ {t} /\ free_stack' = free_stack
        BY <1>3
    <2>2. In("heap", Nothing, t) /\ Nothing \in Owners
        BY <2>1 DEF In, Owners
    <2>3. \A d \in CPUs : t \notin Range(free_stack[d])
        BY <2>2, FreeOnly
    <2>4. \E k \in {"heap", "stack"}, x \in Owners : In(k, x, t)
        BY <2>2
    <2> QED BY <1>1, <2>1, <2>3, <2>4
<1> QED BY <1>2, <1>3

LEMMA NewTask ==
    ASSUME Inv, NEW p \in Producers, NEW t \in Tasks, NEW s \in Sizes, jobs + 1 \in Nat,
           task' = [task EXCEPT ![t] =
                 [size |-> s, detached |-> p \in Detached, completed |-> FALSE,
                  job |-> jobs + 1, output |-> 0, home |-> Home[p]]]
    PROVE  /\ task' \in [Tasks -> [size : Nat, detached : BOOLEAN, completed : BOOLEAN, job : Nat,
                                   output : Nat, home : CPUs \cup {Nothing}]]
           /\ \A u \in Tasks : u # t => task'[u] = task[u]
           /\ task'[t].home = Home[p] /\ task'[t].job = jobs + 1
           /\ task'[t].completed = FALSE /\ (task'[t].detached <=> p \in Detached)
<1> DEFINE Record == [size : Nat, detached : BOOLEAN, completed : BOOLEAN, job : Nat,
                      output : Nat, home : CPUs \cup {Nothing}]
           e == p \in Detached
           n == [size |-> s, detached |-> e, completed |-> FALSE, job |-> jobs + 1,
                 output |-> 0, home |-> Home[p]]
<1>1. task \in [Tasks -> Record]
    BY InvParts DEF Typed
<1>2. e \in BOOLEAN /\ (e <=> p \in Detached)
    BY SMTT(30)
<1>3. task' = [task EXCEPT ![t] = n]
    OBVIOUS
<1>4. s \in Nat /\ Home[p] \in CPUs
    BY TaskAssumption
<1> HIDE DEF e
<1>5. /\ n \in Record /\ n.home = Home[p] /\ n.job = jobs + 1 /\ n.completed = FALSE
      /\ n.detached = e
    BY SMTT(30), <1>2, <1>4
<1> HIDE DEF n, Record
<1>6. task' \in [Tasks -> Record] /\ task'[t] = n /\ \A u \in Tasks : u # t => task'[u] = task[u]
    BY <1>1, <1>3, <1>5
<1> QED BY <1>2, <1>5, <1>6 DEF Record

\* A task's memory is used again: nobody has it, except who still has to read its
\* flags, which SafeReuse keeps from freeing it.
LEMMA ProduceInv ==
    ASSUME Inv, NEW p \in Producers, nk_task_produce(p), SafeReuse
    PROVE  Inv'
<1>1. /\ pc[p] = "idle" /\ pc' = [pc EXCEPT ![p] = "enqueue"]
      /\ jobs < MaxJobs /\ jobs' = jobs + 1
      /\ want' = [want EXCEPT ![p] = jobs + 1]
      /\ got' = [got EXCEPT ![p] = 0] /\ dest' = [dest EXCEPT ![p] = TRUE]
      /\ unsized_queue' = unsized_queue /\ sized_queue' = sized_queue
      /\ sleeping' = sleeping /\ cur' = cur /\ ran' = ran
    BY DEF nk_task_produce, Goto, queueVars
<1>2. PICK t \in Tasks, s \in Sizes :
          /\ IF free_stack[Home[p]] # <<>>
             THEN /\ t = Head(free_stack[Home[p]])
                  /\ free_stack' = [free_stack EXCEPT ![Home[p]] = Tail(@)]
                  /\ UNCHANGED heap
             ELSE t \in heap /\ heap' = heap \ {t} /\ UNCHANGED free_stack
          /\ task' = [task EXCEPT ![t] =
                 [size |-> s, detached |-> p \in Detached, completed |-> FALSE,
                  job |-> jobs + 1, output |-> 0, home |-> Home[p]]]
          /\ mine' = [mine EXCEPT ![p] = t]
    BY DEF nk_task_produce
<1>3. /\ Producers \subseteq Actors /\ Detached \subseteq Producers /\ Home[p] \in CPUs
      /\ s \in Nat /\ MaxJobs \in Nat
    BY TaskAssumption DEF Actors
<1>4. /\ \E k \in {"heap", "stack"}, x \in Owners : In(k, x, t)
      /\ heap' \in SUBSET Tasks /\ \A u \in heap : u # t => u \in heap'
      /\ \A u \in heap' : u # t /\ u \in heap
      /\ free_stack' \in [CPUs -> Seq(Tasks)]
      /\ \A d \in CPUs : Injective(free_stack'[d]) /\ Len(free_stack'[d]) <= PoolSize
      /\ \A d \in CPUs : \A u \in Range(free_stack'[d]) : u # t /\ u \in Range(free_stack[d])
    BY <1>2, AllocFacts
<1>5. /\ \A d \in CPUs : t \notin Range(unsized_queue[d]) /\ t \notin Range(sized_queue[d])
      /\ \A q \in Producers : pc[q] = "enqueue" => mine[q] # t
      /\ \A b \in Actors : Holding(b) => cur[b] # t
    BY <1>4, FreeAlone
<1>6. jobs \in Nat /\ jobs + 1 \in 1 .. MaxJobs /\ jobs + 1 \in Nat /\ jobs + 1 > jobs
    <2>1. jobs \in 0 .. MaxJobs
        BY InvParts DEF Typed
    <2> QED BY SMTT(30), <1>1, <1>3, <2>1
<1>7. /\ task' \in [Tasks -> [size : Nat, detached : BOOLEAN, completed : BOOLEAN, job : Nat,
                              output : Nat, home : CPUs \cup {Nothing}]]
      /\ \A u \in Tasks : u # t => task'[u] = task[u]
      /\ task'[t].home = Home[p] /\ task'[t].job = jobs + 1
      /\ task'[t].completed = FALSE /\ (task'[t].detached <=> p \in Detached)
    BY <1>2, <1>6, NewTask
<1>8. /\ pc'[p] = "enqueue" /\ mine'[p] = t /\ want'[p] = jobs + 1
      /\ \A b \in Actors : b # p => pc'[b] = pc[b]
      /\ \A q \in Producers : q # p => /\ mine'[q] = mine[q] /\ want'[q] = want[q]
                                       /\ got'[q] = got[q] /\ dest'[q] = dest[q]
    BY <1>1, <1>2, <1>3, InvParts DEF Typed
<1>9. Typed'
    <2>1. /\ pc' \in [Actors -> Labels] /\ mine' \in [Producers -> Tasks \cup {Nothing}]
          /\ want' \in [Producers -> Nat] /\ got' \in [Producers -> Nat]
          /\ dest' \in [Producers -> BOOLEAN]
        BY <1>1, <1>2, <1>6, InvParts DEF Typed, Labels
    <2>2. jobs' \in 0 .. MaxJobs
        BY SMTT(30), <1>1, <1>3, <1>6
    <2> QED
        BY <1>1, <1>4, <1>7, <2>1, <2>2, InvParts DEF Typed
<1>10. Roles'
    <2>1. /\ \A q \in Producers : pc'[q] \notin {"own", "pump", "other", "sleep", "asleep"}
          /\ \A q \in Detached : pc'[q] \in {"idle", "enqueue", "wake"}
          /\ \A b \in Actors : b \notin Producers =>
                 pc'[b] \notin {"idle", "enqueue", "wake", "wait"}
        BY <1>3, <1>8, InvParts DEF Roles
    <2>2. /\ \A b \in Actors : pc'[b] \in {"run", "output", "flag", "after"} => cur'[b] \in Tasks
          /\ \A q \in Producers : pc'[q] # "idle" => mine'[q] \in Tasks
        BY <1>1, <1>3, <1>8, InvParts DEF Roles
    <2>3. \A u \in Tasks : u \notin heap' => task'[u].home \in CPUs
        BY <1>3, <1>4, <1>7, InvParts DEF Roles
    <2> QED BY <2>1, <2>2, <2>3 DEF Roles
<1>11. \A b \in Actors : Holding(b)' => cur[b] # t /\ Holding(b)
    <2> SUFFICES ASSUME NEW b \in Actors, Holding(b)' PROVE cur[b] # t /\ Holding(b)
        OBVIOUS
    <2>1. b # p /\ pc'[b] = pc[b]
        BY <1>8 DEF Holding
    <2>2. CASE pc[b] \in {"run", "output", "flag"}
        BY <1>5, <2>2 DEF Holding
    <2>3. CASE pc[b] = "after"
        <3>1. cur[b] \in Tasks /\ task'[cur[b]].detached
            BY <1>1, <2>1, <2>3, InvParts DEF Holding, Roles
        <3>2. cur[b] # t
            BY <1>7, <1>8, <2>3, <3>1 DEF SafeReuse
        <3> QED BY <1>7, <2>3, <3>1, <3>2 DEF Holding
    <2> QED BY <2>1, <2>2, <2>3 DEF Holding
<1>12. Moves(t, "made", p)
    <2>1. \A q \in Producers : pc'[q] = "enqueue" =>
              \/ mine'[q] # t /\ pc[q] = "enqueue" /\ mine[q] = mine'[q]
              \/ mine'[q] = t /\ q = p
        BY <1>3, <1>5, <1>8
    <2>2. \A b \in Actors : Holding(b)' => cur'[b] # t /\ Holding(b) /\ cur[b] = cur'[b]
        BY <1>1, <1>11
    <2>3. \A d \in CPUs : /\ \A u \in Range(unsized_queue'[d]) :
                                 u # t /\ u \in Range(unsized_queue[d])
                          /\ \A u \in Range(sized_queue'[d]) : u # t /\ u \in Range(sized_queue[d])
        BY <1>1, <1>5
    <2> QED
        BY <1>4, <2>1, <2>2, <2>3, MovesFrom
<1>13. Exclusive'
    BY <1>12, ExclusiveMoved
<1>14. NoRepeats'
    BY <1>1, <1>4, InvParts DEF NoRepeats
<1>15. Jobs'
    <2>1. ASSUME NEW u \in Tasks, Fresh(u)', u # t
          PROVE  Fresh(u) /\ task'[u].job = task[u].job
        <3>1. Fresh(u)
            BY <1>1, <1>3, <1>8, <2>1 DEF Fresh, Queued
        <3> QED BY <1>7, <2>1, <3>1
    <2>2. ASSUME NEW u \in Tasks, Fresh(u)', u # t
          PROVE  /\ task'[u].job \in 1 .. jobs' /\ ran'[task'[u].job] = 0
                 /\ task'[u].job # jobs + 1
        <3>1. task'[u].job \in 1 .. jobs /\ ran[task'[u].job] = 0
            BY <2>1, <2>2, InvParts DEF Jobs
        <3> QED BY SMTT(30), <1>1, <1>6, <3>1
    <2>3. task'[t].job \in 1 .. jobs' /\ ran'[task'[t].job] = 0
        <3>1. ran[jobs + 1] = 0
            BY <1>6, InvParts DEF Jobs
        <3>2. jobs + 1 \in 1 .. (jobs + 1)
            BY SMTT(30), <1>6
        <3> QED BY <1>1, <1>7, <3>1, <3>2
    <2>4. ASSUME NEW u \in Tasks, NEW v \in Tasks, Fresh(u)', Fresh(v)',
                 task'[u].job = task'[v].job
          PROVE  u = v
        <3>1. CASE u = t \/ v = t
            BY <1>7, <2>2, <2>4, <3>1
        <3>2. CASE u # t /\ v # t
            BY <2>1, <2>4, <3>2, InvParts DEF Jobs
        <3> QED BY <3>1, <3>2
    <2>5. ASSUME NEW j \in 1 .. MaxJobs PROVE ran'[j] <= 1 /\ (j > jobs' => ran'[j] = 0)
        <3>1. ran[j] <= 1 /\ (j > jobs => ran[j] = 0)
            BY InvParts DEF Jobs
        <3> QED BY SMTT(30), <1>1, <1>6, <3>1
    <2> QED
        BY <2>2, <2>3, <2>4, <2>5 DEF Jobs
<1>16. Delivered'
    <2>1. ASSUME NEW q \in Producers, Waits(q)', q # p
          PROVE  /\ Waits(q) /\ mine'[q] = mine[q] /\ want'[q] = want[q]
                 /\ mine[q] \in Tasks /\ mine[q] # t
        <3>1. Waits(q) /\ mine'[q] = mine[q] /\ want'[q] = want[q]
            BY <1>3, <1>8, <2>1 DEF Waits
        <3>2. mine[q] \in Tasks
            BY <3>1, InvParts DEF Roles, Waits
        <3>3. mine[q] # t
            BY <1>4, <3>1, InvParts DEF Delivered, Kinds
        <3> QED BY <3>1, <3>2, <3>3
    <2>2. ASSUME NEW q \in Producers, Waits(q)'
          PROVE  /\ task'[mine'[q]].job = want'[q] /\ ~task'[mine'[q]].detached
                 /\ \A k \in Kinds, x \in Owners : In(k, x, mine[q])' =>
                        k \notin {"heap", "stack"} /\ ~task'[mine'[q]].completed
                 /\ task'[mine'[q]].completed => task'[mine'[q]].output = task'[mine'[q]].job
        <3>1. CASE q = p
            <4>1. q \notin Detached /\ mine'[q] = t /\ want'[q] = jobs + 1
                BY <1>8, <2>2, <3>1 DEF Waits
            <4>2. \A k \in Kinds, x \in Owners : In(k, x, mine[q])' => k = "made"
                BY <1>12, <4>1 DEF Moves
            <4> QED BY <1>7, <3>1, <4>1, <4>2
        <3>2. CASE q # p
            <4>1. /\ Waits(q) /\ mine'[q] = mine[q] /\ want'[q] = want[q]
                  /\ task'[mine'[q]] = task[mine[q]]
                BY <1>7, <2>1, <2>2, <3>2
            <4>2. \A k \in Kinds, x \in Owners : In(k, x, mine[q])' => In(k, x, mine[q])
                BY <1>12, <2>1, <2>2, <3>2 DEF Moves
            <4>3. /\ task[mine[q]].job = want[q] /\ ~task[mine[q]].detached
                  /\ \A k \in Kinds, x \in Owners : In(k, x, mine[q]) =>
                         k \notin {"heap", "stack"} /\ ~task[mine[q]].completed
                  /\ task[mine[q]].completed => task[mine[q]].output = task[mine[q]].job
                BY <4>1, InvParts DEF Delivered
            <4> QED BY <4>1, <4>2, <4>3
        <3> QED BY <3>1, <3>2
    <2>3. ASSUME NEW q \in Producers, NEW r \in Producers, Waits(q)', Waits(r)',
                 mine'[q] = mine'[r]
          PROVE  q = r
        <3>1. CASE q = p \/ r = p
            BY <1>8, <2>1, <2>3, <3>1
        <3>2. CASE q # p /\ r # p
            BY <2>1, <2>3, <3>2, InvParts DEF Delivered
        <3> QED BY <3>1, <3>2
    <2>4. ASSUME NEW b \in Actors, pc'[b] = "flag"
          PROVE  task'[cur'[b]].output = task'[cur'[b]].job
        <3>1. pc[b] = "flag" /\ cur'[b] = cur[b] /\ cur[b] \in Tasks
            BY <1>1, <1>8, <2>4, InvParts DEF Roles
        <3>2. cur[b] # t
            BY <1>5, <3>1 DEF Holding
        <3>3. task[cur[b]].output = task[cur[b]].job
            BY <3>1, InvParts DEF Delivered
        <3> QED BY <1>7, <3>1, <3>2, <3>3
    <2> QED
        BY <2>2, <2>3, <2>4 DEF Delivered
<1>17. WaitDelivers'
    BY <1>3, <1>8, InvParts DEF WaitDelivers
<1> QED
    BY <1>9, <1>10, <1>13, <1>14, <1>15, <1>16, <1>17 DEF Inv

-----------------------------------------------------------------------------
(* Init, and steps that change nothing *)

LEMMA InitInv ==
    ASSUME Init
    PROVE  Inv
<1>1. /\ unsized_queue = [c \in CPUs |-> <<>>] /\ sized_queue = [c \in CPUs |-> <<>>]
      /\ free_stack = [c \in CPUs |-> <<>>] /\ heap = Tasks
      /\ task = [t \in Tasks |-> NoTask]
      /\ sleeping = {}
      /\ pc = [a \in Actors |-> Base(a)] /\ cur = [a \in Actors |-> Nothing]
      /\ mine = [q \in Producers |-> Nothing]
      /\ want = [q \in Producers |-> 0] /\ got = [q \in Producers |-> 0]
      /\ dest = [q \in Producers |-> TRUE]
      /\ jobs = 0 /\ ran = [j \in 1 .. MaxJobs |-> 0]
    BY DEF Init
<1>2. \A a \in Actors : /\ pc[a] \in {"own", "idle", "pump"}
                        /\ a \in Producers => pc[a] = "idle"
                        /\ a \notin Producers => pc[a] # "idle"
    BY <1>1, TaskAssumption DEF Base, Actors
<1>3. /\ Producers \subseteq Actors /\ Detached \subseteq Producers /\ MaxJobs \in Nat
      /\ PoolSize \in Nat
    BY TaskAssumption DEF Actors
<1>4. /\ <<>> \in Seq(Tasks) /\ Len(<<>>) = 0 /\ Range(<<>>) = {} /\ Injective(<<>>)
    BY SMTT(30) DEF Range, Injective
<1>5. NoTask \in [size : Nat, detached : BOOLEAN, completed : BOOLEAN, job : Nat,
                  output : Nat, home : CPUs \cup {Nothing}]
    BY SMTT(30) DEF NoTask
<1>6. 0 \in 0 .. MaxJobs /\ 0 \in Nat /\ 0 <= PoolSize /\ 0 <= 1
    BY SMTT(30), <1>3
<1>7. pc \in [Actors -> Labels]
    BY <1>1, <1>2 DEF Labels
<1>8. Typed
    <2>1. /\ unsized_queue \in [CPUs -> Seq(Tasks)] /\ sized_queue \in [CPUs -> Seq(Tasks)]
          /\ free_stack \in [CPUs -> Seq(Tasks)] /\ heap \in SUBSET Tasks
          /\ sleeping \in SUBSET CPUs /\ cur \in [Actors -> Tasks \cup {Nothing}]
          /\ mine \in [Producers -> Tasks \cup {Nothing}]
        BY <1>1, <1>4
    <2>2. /\ want \in [Producers -> Nat] /\ got \in [Producers -> Nat]
          /\ dest \in [Producers -> BOOLEAN]
          /\ jobs \in 0 .. MaxJobs /\ ran \in [1 .. MaxJobs -> Nat]
          /\ \A c \in CPUs : Len(free_stack[c]) <= PoolSize
        BY <1>1, <1>4, <1>6
    <2> HIDE DEF NoTask
    <2>3. task \in [Tasks -> [size : Nat, detached : BOOLEAN, completed : BOOLEAN, job : Nat,
                              output : Nat, home : CPUs \cup {Nothing}]]
        BY <1>1, <1>5
    <2> QED BY <1>7, <2>1, <2>2, <2>3 DEF Typed
<1>9. Roles
    BY <1>1, <1>2, <1>3 DEF Roles
<1>10. \A a \in Actors : ~Holding(a)
    BY <1>2 DEF Holding
<1>11. \A c \in CPUs : /\ Range(free_stack[c]) = {} /\ Range(unsized_queue[c]) = {}
                       /\ Range(sized_queue[c]) = {}
    BY <1>1, <1>4
<1>12. Exclusive
    <2>1. ASSUME NEW k \in Kinds, NEW x \in Owners, NEW t \in Tasks, In(k, x, t)
          PROVE  k = "heap" /\ x = Nothing
        BY <1>2, <1>3, <1>10, <1>11, <2>1 DEF In
    <2> QED BY <2>1 DEF Exclusive
<1>13. NoRepeats
    BY <1>1, <1>4 DEF NoRepeats
<1>14. Jobs
    <2>1. \A t \in Tasks : ~Fresh(t)
        BY <1>2, <1>3, <1>11 DEF Fresh, Queued
    <2> QED BY <1>1, <1>6, <2>1 DEF Jobs
<1>15. Delivered
    BY <1>2, <1>3 DEF Delivered, Waits
<1>16. WaitDelivers
    BY <1>1 DEF WaitDelivers
<1> QED
    BY <1>8, <1>9, <1>12, <1>13, <1>14, <1>15, <1>16 DEF Inv

LEMMA StutterInv ==
    ASSUME Inv, UNCHANGED vars
    PROVE  Inv'
<1>1. /\ UNCHANGED <<unsized_queue, sized_queue, free_stack, heap, task, sleeping, pc, cur>>
      /\ UNCHANGED <<mine, want, got, dest, jobs, ran>>
    BY DEF vars, queueVars, memVars, waitVars
<1>2. Typed' /\ Roles'
    BY <1>1, InvParts DEF Typed, Roles
<1> \A a : Holding(a)' <=> Holding(a)
    BY <1>1 DEF Holding
<1>3. \A k, x, t : In(k, x, t)' <=> In(k, x, t)
    BY SMTT(30), <1>1 DEF In
<1>4. Exclusive' /\ NoRepeats'
    BY <1>1, <1>3, InvParts DEF Exclusive, NoRepeats
<1>5. Jobs'
    <2>1. \A t : Fresh(t)' <=> Fresh(t)
        BY <1>1 DEF Fresh, Queued
    <2> QED BY <1>1, <2>1, InvParts DEF Jobs
<1>6. Delivered'
    <2>1. \A q : Waits(q)' <=> Waits(q)
        BY <1>1 DEF Waits
    <2>2. \A k, x, q : In(k, x, mine[q])' <=> In(k, x, mine[q])
        BY SMTT(30), <1>1 DEF In
    <2> QED BY <1>1, <2>1, <2>2, InvParts DEF Delivered
<1>7. WaitDelivers'
    BY <1>1, InvParts DEF WaitDelivers
<1> QED
    BY <1>2, <1>4, <1>5, <1>6, <1>7 DEF Inv

-----------------------------------------------------------------------------
(* Threads that produce detached tasks on CPUs of their own *)

On(c) == {q \in Producers : Home[q] = c}
Busy(c) == {q \in On(c) : pc[q] # "idle"}
WaitCPUs == {Home[q] : q \in Producers \ Detached}

\* A CPU that tasks to be waited for are produced for has no detached ones, and its
\* reuse stack has room for all its producers' tasks.
Spaced ==
    /\ IsFiniteSet(Producers)
    /\ \A q \in Producers \ Detached : /\ \A p \in Detached : Home[p] # Home[q]
                                       /\ Cardinality(On(Home[q])) <= PoolSize

\* No detached tasks at all, or none on the CPUs of the others.
Separate == Detached = {} \/ Spaced

\* The tasks that are waited for stay with their CPUs: none goes back to the heap
\* while somebody can still read its flags.
AtHome ==
    /\ \A t \in Tasks : t \notin heap => (task[t].detached <=> task[t].home \notin WaitCPUs)
    /\ \A c \in CPUs : \A t \in Range(free_stack[c]) : task[t].home = c
    /\ \A c \in WaitCPUs : Len(free_stack[c]) + Cardinality(Busy(c)) <= Cardinality(On(c))
    /\ \A a \in Actors : pc[a] = "after" /\ ~task[cur[a]].detached => cur[a] \notin heap
    /\ \A p \in Producers \ Detached : pc[p] # "idle" => task[mine[p]].home = Home[p]

LEMMA AtHomeParts ==
    ASSUME AtHome
    PROVE  /\ \A t \in Tasks : t \notin heap =>
                  (task[t].detached <=> task[t].home \notin WaitCPUs)
           /\ \A c \in CPUs : \A t \in Range(free_stack[c]) : task[t].home = c
           /\ \A c \in WaitCPUs : Len(free_stack[c]) + Cardinality(Busy(c)) <= Cardinality(On(c))
           /\ \A a \in Actors : pc[a] = "after" /\ ~task[cur[a]].detached => cur[a] \notin heap
           /\ \A p \in Producers \ Detached : pc[p] # "idle" => task[mine[p]].home = Home[p]
BY DEF AtHome

LEMMA ElementsOf ==
    ASSUME NEW s \in Seq(Tasks)
    PROVE  Range(s) \subseteq Tasks
BY SMTT(30) DEF Range

LEMMA SpacedFacts ==
    ASSUME Spaced
    PROVE  /\ WaitCPUs \subseteq CPUs /\ \A p \in Detached : Home[p] \notin WaitCPUs
           /\ \A c \in WaitCPUs : /\ \A q \in On(c) : q \notin Detached
                                  /\ Cardinality(On(c)) <= PoolSize
<1>1. WaitCPUs \subseteq CPUs /\ \A p \in Detached : Home[p] \notin WaitCPUs
    BY TaskAssumption DEF WaitCPUs, Spaced
<1>2. ASSUME NEW c \in WaitCPUs
      PROVE  (\A q \in On(c) : q \notin Detached) /\ Cardinality(On(c)) <= PoolSize
    BY <1>1 DEF WaitCPUs, Spaced, On
<1> QED BY <1>1, <1>2

\* Nothing is freed or produced, and no thread starts or stops to wait.
LEMMA AtHomeKept ==
    ASSUME Inv, AtHome, Spaced, UNCHANGED <<free_stack, heap, mine>>,
           \A t \in Tasks : /\ task'[t].home = task[t].home
                            /\ task'[t].detached = task[t].detached,
           \A q \in Producers \ Detached : pc'[q] = "idle" <=> pc[q] = "idle",
           \A a \in Actors : pc'[a] = "after" => cur'[a] = cur[a] /\ pc[a] \in {"flag", "after"}
    PROVE  AtHome'
<1>1. \A t \in Tasks : t \notin heap' => (task'[t].detached <=> task'[t].home \notin WaitCPUs)
    BY AtHomeParts
<1>2. \A c \in CPUs : \A t \in Range(free_stack'[c]) : task'[t].home = c
    <2>1. \A c \in CPUs : free_stack[c] \in Seq(Tasks)
        BY InvParts DEF Typed
    <2>2. \A c \in CPUs : Range(free_stack[c]) \subseteq Tasks
        BY <2>1, ElementsOf
    <2>3. \A c \in CPUs : \A t \in Range(free_stack[c]) : task[t].home = c
        BY AtHomeParts
    <2> QED BY <2>2, <2>3
<1>3. \A c \in WaitCPUs : Len(free_stack'[c]) + Cardinality(Busy(c)') <= Cardinality(On(c))
    <2> SUFFICES ASSUME NEW c \in WaitCPUs
                 PROVE  Len(free_stack'[c]) + Cardinality(Busy(c)') <= Cardinality(On(c))
        OBVIOUS
    <2>1. \A q \in On(c) : pc'[q] # "idle" <=> pc[q] # "idle"
        BY SpacedFacts DEF On
    <2>2. Busy(c)' = Busy(c)
        BY <2>1 DEF Busy, On
    <2> QED BY <2>2, AtHomeParts
<1>4. \A a \in Actors : pc'[a] = "after" /\ ~task'[cur'[a]].detached => cur'[a] \notin heap'
    <2> SUFFICES ASSUME NEW a \in Actors, pc'[a] = "after", ~task'[cur'[a]].detached
                 PROVE  cur[a] \notin heap
        OBVIOUS
    <2>1. cur'[a] = cur[a] /\ pc[a] \in {"flag", "after"} /\ cur[a] \in Tasks
        BY InvParts DEF Roles
    <2>2. CASE pc[a] = "flag"
        BY <2>1, <2>2, HeldOnly DEF Holding
    <2>3. CASE pc[a] = "after"
        BY <2>1, <2>3, AtHomeParts
    <2> QED BY <2>1, <2>2, <2>3
<1>5. \A q \in Producers \ Detached : pc'[q] # "idle" => task'[mine'[q]].home = Home[q]
    BY AtHomeParts, InvParts DEF Roles
<1> QED
    BY <1>1, <1>2, <1>3, <1>4, <1>5 DEF AtHome, On, WaitCPUs

LEMMA QuietAtHome ==
    ASSUME Inv, AtHome, Spaced,
           \/ \E p \in Producers : Enqueue(p) \/ ProduceWake(p) \/ WaitPump(p)
           \/ \E a \in Pumps : PumpSized(a)
           \/ \E a \in Idles : IdleConsume(a)
           \/ \E c \in CPUs : Thread(c)
           \/ \E a \in Actors : Run(a)
    PROVE  AtHome'
<1>1. PICK a \in Actors :
          /\ pc[a] # "idle" /\ \E to : pc' = [pc EXCEPT ![a] = to] /\ to # "after"
                                       /\ (a \in Producers \ Detached => to # "idle")
          /\ (cur' = cur \/ \E t : cur' = [cur EXCEPT ![a] = t])
          /\ UNCHANGED <<memVars, mine, task>>
    <2>1. ASSUME NEW a \in Actors, NEW c \in CPUs, NEW none, Consume(a, c, none), none # "after",
                 a \in Producers \ Detached => none # "idle"
          PROVE  /\ \E to : pc' = [pc EXCEPT ![a] = to] /\ to # "after"
                            /\ (a \in Producers \ Detached => to # "idle")
                 /\ cur' = cur \/ \E t : cur' = [cur EXCEPT ![a] = t]
                 /\ UNCHANGED <<memVars, mine, task>>
        BY <2>1 DEF Consume, TakeUnsized, TakeSized, Dequeue, waitVars
    <2>2. ASSUME NEW p \in Producers, Enqueue(p) \/ ProduceWake(p)
          PROVE  p \in Actors /\ pc[p] # "idle"
                 /\ (\E to : pc' = [pc EXCEPT ![p] = to] /\ to # "after"
                             /\ (p \in Producers \ Detached => to # "idle"))
                 /\ cur' = cur /\ UNCHANGED <<memVars, mine, task>>
        BY <2>2 DEF Enqueue, ProduceWake, Goto, waitVars, Actors
    <2>3. ASSUME NEW p \in Producers, WaitPump(p)
          PROVE  p \in Actors /\ pc[p] # "idle" /\ \E c \in CPUs : Consume(p, c, "wait")
        BY <2>3 DEF WaitPump, Actors
    <2>4. ASSUME NEW a \in Pumps, PumpSized(a)
          PROVE  /\ a \in Actors /\ pc[a] # "idle" /\ pc' = [pc EXCEPT ![a] = "run"]
                 /\ (\E t : cur' = [cur EXCEPT ![a] = t])
                 /\ UNCHANGED <<memVars, mine, task>>
        BY <2>4 DEF PumpSized, TakeSized, Dequeue, waitVars, Actors
    <2>5. ASSUME NEW a \in Idles, IdleConsume(a)
          PROVE  a \in Actors /\ pc[a] # "idle" /\ \E c \in CPUs : Consume(a, c, "pump")
        BY <2>5, TaskAssumption DEF IdleConsume, Actors
    <2>6. ASSUME NEW c \in CPUs, TryOwn(c) \/ TryOther(c)
          PROVE  /\ c \in Actors /\ pc[c] # "idle"
                 /\ \E d \in CPUs, none \in {"other", "sleep"} : Consume(c, d, none)
        BY <2>6 DEF TryOwn, TryOther, Actors
    <2>7. ASSUME NEW c \in CPUs, TaskSleep(c) \/ TaskAwake(c)
          PROVE  c \in Actors /\ pc[c] # "idle"
                 /\ (\E to \in {"own", "asleep"} : pc' = [pc EXCEPT ![c] = to])
                 /\ cur' = cur /\ UNCHANGED <<memVars, mine, task>>
        BY <2>7 DEF TaskSleep, TaskAwake, Sleep, Goto, waitVars, Actors
    <2>8. ASSUME NEW a \in Actors, Run(a)
          PROVE  pc[a] # "idle"
                 /\ (\E to : pc' = [pc EXCEPT ![a] = to] /\ to # "after"
                             /\ (a \in Producers \ Detached => to # "idle"))
                 /\ cur' = cur /\ UNCHANGED <<memVars, mine, task>>
        BY <2>8 DEF Run, Goto, waitVars
    <2>9. CASE \E p \in Producers : Enqueue(p) \/ ProduceWake(p)
        BY <2>2, <2>9
    <2>10. CASE \E p \in Producers : WaitPump(p)
        BY <2>1, <2>3, <2>10
    <2>11. CASE \E a \in Pumps : PumpSized(a)
        BY <2>4, <2>11
    <2>12. CASE \E a \in Idles : IdleConsume(a)
        BY <2>1, <2>5, <2>12
    <2>13. CASE \E c \in CPUs : TryOwn(c) \/ TryOther(c)
        BY <2>1, <2>6, <2>13
    <2>14. CASE \E c \in CPUs : TaskSleep(c) \/ TaskAwake(c)
        BY <2>7, <2>14
    <2>15. CASE \E a \in Actors : Run(a)
        BY <2>8, <2>15
    <2> QED BY <2>9, <2>10, <2>11, <2>12, <2>13, <2>14, <2>15 DEF Thread
<1>2. PICK to : /\ pc' = [pc EXCEPT ![a] = to] /\ to # "after"
                /\ a \in Producers \ Detached => to # "idle"
    BY <1>1
<1>3. /\ pc'[a] = to /\ \A b \in Actors : b # a => pc'[b] = pc[b] /\ cur'[b] = cur[b]
    BY <1>1, <1>2, InvParts DEF Typed
<1>4. UNCHANGED <<free_stack, heap, mine, task>>
    BY <1>1 DEF memVars
<1>5. \A q \in Producers \ Detached : pc'[q] = "idle" <=> pc[q] = "idle"
    BY <1>1, <1>2, <1>3 DEF Actors
<1>6. \A b \in Actors : pc'[b] = "after" => cur'[b] = cur[b] /\ pc[b] \in {"flag", "after"}
    BY <1>2, <1>3
<1> QED
    BY <1>4, <1>5, <1>6, AtHomeKept

LEMMA CompleteAtHome ==
    ASSUME Inv, AtHome, Spaced, NEW a \in Actors, CompleteOutput(a) \/ CompleteFlag(a)
    PROVE  AtHome'
<1>1. /\ pc[a] \in {"output", "flag"}
      /\ \E to \in {"flag", "after"} :
             pc' = [pc EXCEPT ![a] = to] /\ (to = "after" => pc[a] = "flag")
      /\ \/ task' = [task EXCEPT ![cur[a]].output = task[cur[a]].job]
         \/ task' = [task EXCEPT ![cur[a]].completed = TRUE]
      /\ UNCHANGED <<memVars, cur, mine>>
    BY DEF CompleteOutput, CompleteFlag, Goto, waitVars
<1> PICK t \in Tasks : t = cur[a]
    BY <1>1, InvParts DEF Roles
<1>2. /\ \A u \in Tasks : u # t => task'[u] = task[u]
      /\ task'[t].detached = task[t].detached /\ task'[t].home = task[t].home
    BY <1>1, OutputFields, FlagFields
<1>3. /\ pc'[a] \in {"flag", "after"} /\ (pc'[a] = "after" => pc[a] = "flag")
      /\ \A b \in Actors : b # a => pc'[b] = pc[b]
    BY <1>1, InvParts DEF Typed
<1>4. UNCHANGED <<free_stack, heap, mine, cur>>
    BY <1>1 DEF memVars
<1>5. \A u \in Tasks : task'[u].home = task[u].home /\ task'[u].detached = task[u].detached
    BY <1>2
<1>6. \A q \in Producers \ Detached : pc'[q] = "idle" <=> pc[q] = "idle"
    BY <1>1, <1>3 DEF Actors
<1>7. \A b \in Actors : pc'[b] = "after" => cur'[b] = cur[b] /\ pc[b] \in {"flag", "after"}
    BY <1>3, <1>4
<1> QED
    BY <1>4, <1>5, <1>6, <1>7, AtHomeKept

\* A detached task that is freed is not of a CPU with tasks that are waited for.
LEMMA CompleteFreeAtHome ==
    ASSUME Inv, AtHome, Spaced, NEW a \in Actors, CompleteFree(a)
    PROVE  AtHome'
<1>1. /\ pc[a] = "after"
      /\ pc' = [pc EXCEPT ![a] = IF a \in Producers THEN "wait" ELSE Base(a)]
      /\ IF task[cur[a]].detached THEN task_dealloc(cur[a]) ELSE UNCHANGED memVars
      /\ cur' = [cur EXCEPT ![a] = Nothing] /\ task' = task /\ mine' = mine
    BY DEF CompleteFree, Goto, waitVars
<1>2. Producers \subseteq Actors /\ Detached \subseteq Producers
    BY TaskAssumption DEF Actors
<1> PICK t \in Tasks : t = cur[a]
    BY <1>1, InvParts DEF Roles
<1>3. /\ pc'[a] # "after" /\ (a \in Producers => pc'[a] = "wait")
      /\ \A b \in Actors : b # a => pc'[b] = pc[b] /\ cur'[b] = cur[b]
    BY <1>1, InvParts DEF Typed, Base
<1>4. \A q \in Producers : pc'[q] # "idle" <=> pc[q] # "idle"
    BY <1>1, <1>2, <1>3
<1>5. CASE ~task[t].detached
    <2>1. UNCHANGED <<free_stack, heap, mine>>
        BY <1>1, <1>5 DEF memVars
    <2>2. \A b \in Actors : pc'[b] = "after" => cur'[b] = cur[b] /\ pc[b] \in {"flag", "after"}
        BY <1>3
    <2> QED BY <1>1, <1>4, <2>1, <2>2, AtHomeKept
<1>6. CASE task[t].detached
    <2> PICK c \in CPUs \cup {Nothing} : c = task[t].home
        BY InvParts DEF Typed
    <2>1. task_dealloc(t) /\ Holding(a)
        BY <1>1, <1>6 DEF Holding
    <2>2. t \notin heap /\ \A d \in CPUs : t \notin Range(free_stack[d])
        BY <2>1, HeldOnly
    <2>3. c \in CPUs /\ c \notin WaitCPUs
        BY <1>6, <2>2, AtHomeParts, InvParts DEF Roles
    <2>4. \/ heap' = heap \cup {t} /\ free_stack' = free_stack
          \/ heap' = heap /\ free_stack' = [free_stack EXCEPT ![c] = <<t>> \o @]
        BY <2>1 DEF task_dealloc
    <2>5. /\ \A d \in CPUs : d # c => free_stack'[d] = free_stack[d]
          /\ free_stack'[c] = free_stack[c] \/ free_stack'[c] = <<t>> \o free_stack[c]
        BY <2>3, <2>4, InvParts DEF Typed
    <2>6. \A u \in Range(free_stack'[c]) : u = t \/ u \in Range(free_stack[c])
        <3>1. /\ free_stack[c] \in Seq(Tasks) /\ Injective(free_stack[c])
              /\ t \notin Range(free_stack[c])
            BY <2>2, <2>3, InvParts DEF Typed, NoRepeats
        <3> QED BY <2>5, <3>1, AddedFacts
    <2>7. \A d \in CPUs : \A u \in Range(free_stack'[d]) : task'[u].home = d
        BY <1>1, <2>5, <2>6, AtHomeParts
    <2>8. ASSUME NEW d \in WaitCPUs
          PROVE  Len(free_stack'[d]) + Cardinality(Busy(d)') <= Cardinality(On(d))
        <3>1. Busy(d)' = Busy(d)
            BY <1>4 DEF Busy, On
        <3>2. free_stack'[d] = free_stack[d]
            BY <2>3, <2>5, SpacedFacts
        <3> QED BY <3>1, <3>2, AtHomeParts
    <2>9. ASSUME NEW b \in Actors, pc'[b] = "after", ~task'[cur'[b]].detached
          PROVE  cur'[b] \notin heap'
        <3>1. pc[b] = "after" /\ cur'[b] = cur[b]
            BY <1>3, <2>9
        <3>2. cur[b] # t /\ cur[b] \notin heap
            BY <1>1, <1>6, <2>9, <3>1, AtHomeParts
        <3>3. heap' \subseteq heap \cup {t}
            BY <2>4
        <3> QED BY <3>1, <3>2, <3>3
    <2>10. \A q \in Producers \ Detached : pc'[q] # "idle" => task'[mine'[q]].home = Home[q]
        BY <1>1, <1>4, AtHomeParts
    <2>11. \A u \in Tasks : u \notin heap' => (task'[u].detached <=> task'[u].home \notin WaitCPUs)
        BY <1>1, <2>4, AtHomeParts
    <2> QED
        BY <2>7, <2>8, <2>9, <2>10, <2>11 DEF AtHome, On, WaitCPUs
<1> QED BY <1>5, <1>6

LEMMA InvRunsOnce ==
    ASSUME Inv
    PROVE  RunsOnce
<1>1. \A c \in CPUs : Queued(c) \cup Range(free_stack[c]) \subseteq Tasks
    <2> SUFFICES ASSUME NEW c \in CPUs PROVE Queued(c) \cup Range(free_stack[c]) \subseteq Tasks
        OBVIOUS
    <2>1. /\ unsized_queue[c] \in Seq(Tasks) /\ sized_queue[c] \in Seq(Tasks)
          /\ free_stack[c] \in Seq(Tasks)
        BY InvParts DEF Typed
    <2> QED BY <2>1, ElementsOf DEF Queued
<1>2. TypeOK
    BY <1>1, InvParts DEF TypeOK, Typed
<1> QED
    BY <1>2, InvParts DEF RunsOnce, Jobs

\* The memory a detached task is given is of a CPU without tasks that are waited
\* for, or of the heap, where no task is that somebody still looks at.
LEMMA SafeProduce ==
    ASSUME Inv, AtHome, Spaced
    PROVE  SafeReuse
<1> SUFFICES ASSUME NEW p \in Detached, nk_task_produce(p),
                    NEW a \in Actors, pc[a] = "after"
             PROVE  cur[a] # mine'[p]
    BY DEF SafeReuse
<1>1. p \in Producers /\ Home[p] \in CPUs /\ Home[p] \notin WaitCPUs
    BY TaskAssumption, SpacedFacts
<1>2. PICK t \in Tasks :
          /\ IF free_stack[Home[p]] # <<>>
             THEN /\ t = Head(free_stack[Home[p]])
                  /\ free_stack' = [free_stack EXCEPT ![Home[p]] = Tail(@)]
                  /\ UNCHANGED heap
             ELSE t \in heap /\ heap' = heap \ {t} /\ UNCHANGED free_stack
          /\ mine' = [mine EXCEPT ![p] = t]
    BY DEF nk_task_produce
<1>3. mine'[p] = t
    BY <1>1, <1>2, InvParts DEF Typed
<1>4. \A b \in Actors : Holding(b) => cur[b] # t
    <2>1. \E k \in {"heap", "stack"}, x \in Owners : In(k, x, t)
        BY <1>1, <1>2, AllocFacts
    <2> QED BY <2>1, FreeAlone
<1>5. t \in heap \/ (t \in Tasks /\ task[t].home \notin WaitCPUs)
    <2>1. CASE free_stack[Home[p]] # <<>>
        <3>1. free_stack[Home[p]] \in Seq(Tasks) /\ Injective(free_stack[Home[p]])
            BY <1>1, InvParts DEF Typed, NoRepeats
        <3>2. Head(free_stack[Home[p]]) \in Range(free_stack[Home[p]])
            BY <2>1, <3>1, HeadFacts
        <3>3. t \in Range(free_stack[Home[p]])
            BY <1>2, <2>1, <3>2
        <3>4. task[t].home = Home[p]
            BY <1>1, <3>3, AtHomeParts
        <3> QED BY <1>1, <3>4
    <2>2. CASE free_stack[Home[p]] = <<>>
        BY <1>2, <2>2
    <2> QED BY <2>1, <2>2
<1>6. ASSUME cur[a] = t PROVE FALSE
    <2>1. ~task[cur[a]].detached
        BY <1>4, <1>6 DEF Holding
    <2>2. cur[a] \notin heap
        BY <2>1, AtHomeParts
    <2> QED BY <1>5, <1>6, <2>1, <2>2, AtHomeParts
<1> QED BY <1>3, <1>6

LEMMA BusySame ==
    ASSUME NEW c, \A q \in On(c) : pc'[q] = pc[q]
    PROVE  Busy(c)' = Busy(c)
BY DEF Busy, On

-----------------------------------------------------------------------------
(* What needs theorems about numbers and finite sets: the pump's search, and the *)
(* CPUs' shares of tasks                                                         *)

INSTANCE FiniteSetTheorems

\* The task that a pump's search finds is one on the queue.
LEMMA FitFacts ==
    ASSUME NEW q \in Seq(Tasks), Fit(q, Avail, Limit) > 0
    PROVE  Fit(q, Avail, Limit) \in DOMAIN q
<1> DEFINE fits == {i \in 1 .. Len(q) : i <= Limit /\ task[q[i]].size <= Avail}
<1>1. Fit(q, Avail, Limit) = IF fits = {} THEN 0 ELSE Min(fits)
    BY DEF Fit
<1>2. fits \subseteq Nat /\ fits \subseteq DOMAIN q
    BY SMTT(30)
<1> HIDE DEF fits
<1>3. fits # {}
    BY SMTT(30), <1>1
<1> DEFINE R == OpToRel(<, Nat)
<1>4. IsWellFoundedOn(R, Nat) /\ \A i, j \in Nat : j < i => <<j, i>> \in R
    <2>1. \A i, j \in Nat : <<j, i>> \in Nat \X Nat /\ <<j, i>>[1] = j /\ <<j, i>>[2] = i
        BY SMTT(30)
    <2> QED
        BY <2>1, NatLessThanWellFounded DEF OpToRel
<1> HIDE DEF R
<1>5. PICK i \in fits : \A j \in fits : ~(<<j, i>> \in R)
    BY <1>2, <1>3, <1>4, WFMin
<1>6. \A j \in fits : i <= j
    <2>1. \A j \in fits : ~(j < i) /\ i \in Nat /\ j \in Nat
        BY <1>2, <1>4, <1>5
    <2> QED
        BY SMTT(30), <2>1
<1>7. Min(fits) \in fits
    BY <1>6 DEF Min
<1> QED
    BY <1>1, <1>2, <1>3, <1>7

\* The scheduler's pump.
LEMMA PumpInv ==
    ASSUME Inv, NEW a \in Pumps, PumpSized(a)
    PROVE  Inv'
<1> DEFINE c == Home[a]
           i == Fit(sized_queue[c], Avail, Limit)
<1>1. /\ c \in CPUs /\ pc[a] = "pump" /\ i > 0 /\ pc' = [pc EXCEPT ![a] = "run"]
      /\ TakeSized(a, c, i)
      /\ UNCHANGED <<memVars, task, sleeping, waitVars, jobs, ran>>
    BY TaskAssumption DEF PumpSized
<1>2. i \in DOMAIN sized_queue[c]
    BY <1>1, FitFacts, InvParts DEF Typed
<1> HIDE DEF c, i
<1>3. a \in Actors /\ a \notin Detached
    BY <1>1, TaskAssumption, InvParts DEF Actors, Roles
<1> QED
    BY <1>1, <1>2, <1>3, TakeSizedInv

\* Every step keeps the invariant, if it gives no memory away that is still looked at.
LEMMA NextInv ==
    ASSUME Inv, Next, SafeReuse
    PROVE  Inv'
<1>1. CASE \E p \in Producers : nk_task_produce(p)
    BY <1>1, ProduceInv
<1>2. CASE \E p \in Producers : Producer(p)
    BY <1>2, EnqueueInv, ProduceWakeInv, WaitPumpInv, WaitDoneInv DEF Producer
<1>3. CASE \E a \in Pumps : PumpSized(a)
    BY <1>3, PumpInv
<1>4. CASE \E a \in Idles : IdleConsume(a)
    BY <1>4, ConsumersInv
<1>5. CASE \E c \in CPUs : Thread(c)
    BY <1>5, ConsumersInv, SleepInv DEF Thread
<1>6. CASE \E a \in Actors : Complete(a)
    BY <1>6, RunInv, CompleteOutputInv, CompleteFlagInv, CompleteFreeInv DEF Complete
<1> QED
    BY <1>1, <1>2, <1>3, <1>4, <1>5, <1>6 DEF Next

LEMMA OnFinite ==
    ASSUME Spaced, NEW c
    PROVE  IsFiniteSet(On(c)) /\ Cardinality(On(c)) \in Nat
<1>1. On(c) \in SUBSET Producers
    BY DEF On
<1>2. IsFiniteSet(On(c))
    BY <1>1, FS_Subset DEF Spaced
<1> QED BY <1>2, FS_CardinalityType

\* A thread that starts to wait and one that has waited: its CPU's share.
LEMMA BusyMore ==
    ASSUME Spaced, NEW c \in WaitCPUs, NEW p \in Producers, Home[p] = c,
           pc[p] = "idle", pc'[p] # "idle", \A q \in Producers : q # p => pc'[q] = pc[q]
    PROVE  /\ Cardinality(Busy(c)) \in Nat
           /\ Cardinality(Busy(c)') = Cardinality(Busy(c)) + 1
           /\ Cardinality(Busy(c)') <= Cardinality(On(c))
<1>1. IsFiniteSet(On(c))
    BY OnFinite
<1>2. Busy(c) \in SUBSET On(c) /\ Busy(c)' \in SUBSET On(c)
    BY DEF Busy, On
<1>3. IsFiniteSet(Busy(c))
    BY <1>1, <1>2, FS_Subset
<1>4. Busy(c)' = Busy(c) \cup {p} /\ p \notin Busy(c)
    BY DEF Busy, On
<1>5. Cardinality(Busy(c) \cup {p}) = Cardinality(Busy(c)) + 1
    BY <1>3, <1>4, FS_AddElement
<1>6. Cardinality(Busy(c)) \in Nat
    BY <1>3, FS_CardinalityType
<1>7. Cardinality(Busy(c)') <= Cardinality(On(c))
    BY <1>1, <1>2, FS_Subset
<1> QED BY <1>4, <1>5, <1>6, <1>7

LEMMA BusyLess ==
    ASSUME Spaced, NEW c \in WaitCPUs, NEW p \in Producers, Home[p] = c,
           pc[p] # "idle", pc'[p] = "idle", \A q \in Producers : q # p => pc'[q] = pc[q]
    PROVE  /\ Cardinality(Busy(c)') \in Nat
           /\ Cardinality(Busy(c)) = Cardinality(Busy(c)') + 1
<1>1. IsFiniteSet(On(c))
    BY OnFinite
<1>2. Busy(c)' \in SUBSET On(c)
    BY DEF Busy, On
<1>3. IsFiniteSet(Busy(c)')
    BY <1>1, <1>2, FS_Subset
<1>4. Busy(c) = Busy(c)' \cup {p} /\ p \notin Busy(c)'
    BY DEF Busy, On
<1>5. Cardinality(Busy(c)' \cup {p}) = Cardinality(Busy(c)') + 1
    BY <1>3, <1>4, FS_AddElement
<1>6. Cardinality(Busy(c)') \in Nat
    BY <1>3, FS_CardinalityType
<1> QED BY <1>4, <1>5, <1>6

\* The memory comes from the producer's own CPU or from the heap.
LEMMA ProduceAtHome ==
    ASSUME Inv, AtHome, Spaced, NEW p \in Producers, nk_task_produce(p)
    PROVE  AtHome'
<1>1. /\ pc[p] = "idle" /\ pc' = [pc EXCEPT ![p] = "enqueue"] /\ cur' = cur
    BY DEF nk_task_produce, Goto
<1>2. PICK t \in Tasks, s \in Sizes :
          /\ IF free_stack[Home[p]] # <<>>
             THEN /\ t = Head(free_stack[Home[p]])
                  /\ free_stack' = [free_stack EXCEPT ![Home[p]] = Tail(@)]
                  /\ UNCHANGED heap
             ELSE t \in heap /\ heap' = heap \ {t} /\ UNCHANGED free_stack
          /\ task' = [task EXCEPT ![t] =
                 [size |-> s, detached |-> p \in Detached, completed |-> FALSE,
                  job |-> jobs + 1, output |-> 0, home |-> Home[p]]]
          /\ mine' = [mine EXCEPT ![p] = t]
    BY DEF nk_task_produce
<1>3. /\ Producers \subseteq Actors /\ Detached \subseteq Producers /\ Home[p] \in CPUs
    BY TaskAssumption DEF Actors
<1>4. /\ \E k \in {"heap", "stack"}, x \in Owners : In(k, x, t)
      /\ \A u \in heap : u # t => u \in heap'
      /\ \A u \in heap' : u # t /\ u \in heap
      /\ \A d \in CPUs : \A u \in Range(free_stack'[d]) : u # t /\ u \in Range(free_stack[d])
    BY <1>2, AllocFacts
<1>5. jobs + 1 \in Nat
    <2>1. jobs \in 0 .. MaxJobs
        BY InvParts DEF Typed
    <2> QED BY SMTT(30), <2>1
<1>6. /\ \A u \in Tasks : u # t => task'[u] = task[u]
      /\ task'[t].home = Home[p] /\ (task'[t].detached <=> p \in Detached)
    BY <1>2, <1>5, NewTask
<1>7. /\ pc'[p] = "enqueue" /\ mine'[p] = t /\ \A b \in Actors : b # p => pc'[b] = pc[b]
      /\ \A q \in Producers : q # p => mine'[q] = mine[q]
    BY <1>1, <1>2, <1>3, InvParts DEF Typed
<1>8. p \in Detached <=> Home[p] \notin WaitCPUs
    BY SpacedFacts DEF WaitCPUs
<1>9. \A u \in Tasks : u \notin heap' => (task'[u].detached <=> task'[u].home \notin WaitCPUs)
    BY <1>4, <1>6, <1>8, AtHomeParts
<1>10. \A d \in CPUs : \A u \in Range(free_stack'[d]) : task'[u].home = d
    <2>1. \A d \in CPUs : free_stack[d] \in Seq(Tasks)
        BY InvParts DEF Typed
    <2>2. \A d \in CPUs : Range(free_stack[d]) \subseteq Tasks
        BY <2>1, ElementsOf
    <2> QED BY <1>4, <1>6, <2>2, AtHomeParts
<1>11. ASSUME NEW d \in WaitCPUs
       PROVE  Len(free_stack'[d]) + Cardinality(Busy(d)') <= Cardinality(On(d))
    <2>1. d \in CPUs /\ Cardinality(On(d)) \in Nat
        BY SpacedFacts, OnFinite
    <2>2. Len(free_stack[d]) + Cardinality(Busy(d)) <= Cardinality(On(d))
        BY AtHomeParts
    <2>3. free_stack[d] \in Seq(Tasks)
        BY <2>1, InvParts DEF Typed
    <2>4. CASE d # Home[p]
        <3>1. free_stack'[d] = free_stack[d]
            BY <1>2, <2>1, <2>4, InvParts DEF Typed
        <3>2. \A q \in On(d) : pc'[q] = pc[q]
            BY <1>3, <1>7, <2>4 DEF On
        <3> QED BY <2>2, <3>1, <3>2, BusySame
    <2>5. CASE d = Home[p]
        <3>1. /\ Cardinality(Busy(d)) \in Nat
              /\ Cardinality(Busy(d)') = Cardinality(Busy(d)) + 1
              /\ Cardinality(Busy(d)') <= Cardinality(On(d))
            <4>1. /\ Home[p] = d /\ pc[p] = "idle" /\ pc'[p] # "idle"
                  /\ \A q \in Producers : q # p => pc'[q] = pc[q]
                BY <1>1, <1>3, <1>7, <2>5
            <4> QED BY <4>1, BusyMore
        <3>2. \/ free_stack[d] # <<>> /\ free_stack'[d] = Tail(free_stack[d])
              \/ free_stack'[d] = <<>>
            BY <1>2, <2>1, <2>5, InvParts DEF Typed
        <3> HIDE DEF Busy, On
        <3> QED BY <2>1, <2>2, <2>3, <3>1, <3>2, ShareTaken
    <2> QED BY <2>4, <2>5
<1>12. \A a \in Actors : pc'[a] = "after" /\ ~task'[cur'[a]].detached => cur'[a] \notin heap'
    <2> SUFFICES ASSUME NEW a \in Actors, pc'[a] = "after", ~task'[cur'[a]].detached
                 PROVE  cur[a] \notin heap'
        BY <1>1
    <2>1. pc[a] = "after" /\ cur'[a] = cur[a] /\ cur[a] \in Tasks
        BY <1>1, <1>7, InvParts DEF Roles
    <2> QED BY <1>4, <1>6, <2>1, AtHomeParts
<1>13. \A q \in Producers \ Detached : pc'[q] # "idle" => task'[mine'[q]].home = Home[q]
    <2> SUFFICES ASSUME NEW q \in Producers \ Detached, pc'[q] # "idle", q # p
                 PROVE  task'[mine'[q]].home = Home[q]
        BY <1>6, <1>7
    <2>1. pc[q] # "idle" /\ mine'[q] = mine[q] /\ Waits(q) /\ mine[q] \in Tasks
        BY <1>3, <1>7, InvParts DEF Waits, Roles
    <2>2. mine[q] # t
        BY <1>4, <2>1, InvParts DEF Delivered, Kinds
    <2> QED BY <1>6, <2>1, <2>2, AtHomeParts
<1> QED
    BY <1>9, <1>10, <1>11, <1>12, <1>13 DEF AtHome, On, WaitCPUs

\* There is room for the task on its CPU's stack: its producer was one of those the
\* stack was measured for.
LEMMA WaitDoneAtHome ==
    ASSUME Inv, AtHome, Spaced, NEW p \in Producers, WaitDone(p)
    PROVE  AtHome'
<1>1. /\ pc[p] = "wait" /\ pc' = [pc EXCEPT ![p] = "idle"] /\ task_dealloc(mine[p])
      /\ mine' = [mine EXCEPT ![p] = Nothing] /\ task' = task /\ cur' = cur
    BY DEF WaitDone, Goto
<1>2. Producers \subseteq Actors /\ Detached \subseteq Producers
    BY TaskAssumption DEF Actors
<1> PICK t \in Tasks : t = mine[p]
    BY <1>1, InvParts DEF Roles
<1> PICK c \in CPUs : c = Home[p]
    BY TaskAssumption
<1>3. p \notin Detached /\ c \in WaitCPUs /\ task[t].home = c
    BY <1>1, AtHomeParts, InvParts DEF Roles, WaitCPUs
<1>4. /\ pc'[p] = "idle" /\ \A b \in Actors : b # p => pc'[b] = pc[b]
      /\ \A q \in Producers : q # p => mine'[q] = mine[q]
    BY <1>1, <1>2, InvParts DEF Typed
<1>5. Cardinality(Busy(c)') \in Nat /\ Cardinality(Busy(c)) = Cardinality(Busy(c)') + 1
    <2>1. /\ Home[p] = c /\ pc[p] # "idle" /\ pc'[p] = "idle"
          /\ \A q \in Producers : q # p => pc'[q] = pc[q]
        BY <1>1, <1>2, <1>4
    <2> QED BY <1>3, <2>1, BusyLess
<1>6. /\ free_stack[c] \in Seq(Tasks) /\ PoolSize \in Nat /\ Len(free_stack[c]) \in Nat
      /\ Cardinality(On(c)) \in Nat /\ Cardinality(On(c)) <= PoolSize
      /\ Len(free_stack[c]) + Cardinality(Busy(c)) <= Cardinality(On(c))
    <2>1. free_stack[c] \in Seq(Tasks) /\ PoolSize \in Nat
        BY TaskAssumption, InvParts DEF Typed
    <2>2. Len(free_stack[c]) \in Nat
        BY <2>1, LengthIsNat
    <2> QED BY <1>3, <2>1, <2>2, SpacedFacts, OnFinite, AtHomeParts
<1>7. ~(Len(free_stack[c]) >= PoolSize)
    <2> HIDE DEF Busy, On
    <2> QED BY <1>5, <1>6, ShareGiven
<1>8. heap' = heap /\ free_stack' = [free_stack EXCEPT ![c] = <<t>> \o @]
    BY <1>1, <1>3, <1>7 DEF task_dealloc
<1>9. /\ free_stack'[c] = <<t>> \o free_stack[c]
      /\ \A d \in CPUs : d # c => free_stack'[d] = free_stack[d]
    BY <1>8, InvParts DEF Typed
<1>10. /\ Len(free_stack'[c]) = Len(free_stack[c]) + 1
       /\ \A u \in Range(free_stack'[c]) : u = t \/ u \in Range(free_stack[c])
    <2>1. free_stack[c] \in Seq(Tasks) /\ Injective(free_stack[c])
        BY <1>6, InvParts DEF NoRepeats
    <2>2. t \notin Range(free_stack[c])
        <3>1. Waits(p)
            BY <1>1, <1>3 DEF Waits
        <3>2. "stack" \in Kinds /\ c \in Owners
            BY DEF Kinds, Owners, Actors
        <3>3. ~In("stack", c, t)
            BY <3>1, <3>2, InvParts DEF Delivered
        <3> QED BY <3>3 DEF In
    <2> QED BY <1>9, <2>1, <2>2, AddedFacts
<1>11. \A d \in CPUs : \A u \in Range(free_stack'[d]) : task'[u].home = d
    BY <1>1, <1>3, <1>9, <1>10, AtHomeParts
<1>12. ASSUME NEW d \in WaitCPUs
       PROVE  Len(free_stack'[d]) + Cardinality(Busy(d)') <= Cardinality(On(d))
    <2>1. d \in CPUs
        BY SpacedFacts
    <2>2. CASE d # c
        <3>1. \A q \in On(d) : pc'[q] = pc[q]
            BY <1>2, <1>4, <2>2 DEF On
        <3> QED BY <1>9, <2>1, <2>2, <3>1, AtHomeParts, BusySame
    <2>3. CASE d = c
        <3>1. Len(free_stack'[c]) + Cardinality(Busy(c)') <= Cardinality(On(c))
            <4> HIDE DEF Busy, On
            <4> QED BY <1>5, <1>6, <1>10, ShareGiven
        <3> QED BY <2>3, <3>1
    <2> QED BY <2>2, <2>3
<1>13. \A a \in Actors : pc'[a] = "after" /\ ~task'[cur'[a]].detached => cur'[a] \notin heap'
    BY <1>1, <1>4, <1>8, AtHomeParts
<1>14. \A q \in Producers \ Detached : pc'[q] # "idle" => task'[mine'[q]].home = Home[q]
    BY <1>1, <1>2, <1>4, AtHomeParts
<1>15. \A u \in Tasks : u \notin heap' => (task'[u].detached <=> task'[u].home \notin WaitCPUs)
    BY <1>1, <1>8, AtHomeParts
<1> QED
    BY <1>11, <1>12, <1>13, <1>14, <1>15 DEF AtHome, On, WaitCPUs

LEMMA InitAtHome ==
    ASSUME Init, Spaced
    PROVE  AtHome
<1>1. /\ free_stack = [c \in CPUs |-> <<>>] /\ heap = Tasks
      /\ pc = [a \in Actors |-> Base(a)]
    BY DEF Init
<1>2. Producers \subseteq Actors /\ CPUs \cap Producers = {}
    BY TaskAssumption DEF Actors
<1>3. /\ \A a \in Actors : pc[a] # "after" /\ (a \in Producers => pc[a] = "idle")
    BY <1>1, <1>2 DEF Base
<1>4. \A c \in CPUs : Range(free_stack[c]) = {} /\ Len(free_stack[c]) = 0
    <2>1. Range(<<>>) = {} /\ Len(<<>>) = 0
        BY SMTT(30) DEF Range
    <2> QED BY <1>1, <2>1
<1>5. ASSUME NEW c \in WaitCPUs
      PROVE  Len(free_stack[c]) + Cardinality(Busy(c)) <= Cardinality(On(c))
    <2>1. Busy(c) = {}
        BY <1>2, <1>3 DEF Busy, On
    <2>2. Cardinality(Busy(c)) = 0
        BY <2>1, FS_EmptySet
    <2>3. Len(free_stack[c]) = 0 /\ Cardinality(On(c)) \in Nat
        BY <1>4, SpacedFacts, OnFinite
    <2> HIDE DEF Busy, On
    <2> QED BY SMTT(30), <2>2, <2>3
<1> QED
    BY <1>1, <1>2, <1>3, <1>4, <1>5 DEF AtHome

LEMMA NextAtHome ==
    ASSUME Inv, AtHome, Spaced, [Next]_vars
    PROVE  AtHome'
<1>1. CASE \E p \in Producers : nk_task_produce(p)
    BY <1>1, ProduceAtHome
<1>2. CASE \E p \in Producers : WaitDone(p)
    BY <1>2, WaitDoneAtHome
<1>3. CASE \E a \in Actors : CompleteOutput(a) \/ CompleteFlag(a)
    BY <1>3, CompleteAtHome
<1>4. CASE \E a \in Actors : CompleteFree(a)
    BY <1>4, CompleteFreeAtHome
<1>5. CASE \/ \E p \in Producers : Enqueue(p) \/ ProduceWake(p) \/ WaitPump(p)
           \/ \E a \in Pumps : PumpSized(a)
           \/ \E a \in Idles : IdleConsume(a)
           \/ \E c \in CPUs : Thread(c)
           \/ \E a \in Actors : Run(a)
    BY <1>5, QuietAtHome
<1>6. CASE UNCHANGED vars
    <2>1. UNCHANGED <<free_stack, heap, mine, pc, cur, task>>
        BY <1>6 DEF vars, memVars, waitVars
    <2> QED BY <2>1, AtHomeKept
<1> QED
    BY <1>1, <1>2, <1>3, <1>4, <1>5, <1>6 DEF Next, Producer, Complete

LEMMA AtMostOne ==
    ASSUME NEW S, \A x, y \in S : x = y
    PROVE  (S = {} /\ Cardinality(S) = 0) \/ (S # {} /\ Cardinality(S) = 1)
<1>1. CASE S = {}
    BY <1>1, FS_EmptySet
<1>2. CASE S # {}
    <2> PICK x \in S : TRUE
        BY <1>2
    <2>1. S = {x}
        OBVIOUS
    <2> QED BY <1>2, <2>1, FS_Singleton
<1> QED BY <1>1, <1>2

LEMMA InvOnePlace ==
    ASSUME Inv
    PROVE  OnePlace
<1> SUFFICES ASSUME NEW t \in Tasks PROVE Places(t) <= 1
    BY DEF OnePlace
<1> DEFINE A == {c \in CPUs : t \in Range(free_stack[c])}
           B == {c \in CPUs : t \in Queued(c)}
           C == {a \in Actors : cur[a] = t /\ pc[a] \in {"run", "output", "flag"}}
           h == IF t \in heap THEN 1 ELSE 0
<1>1. /\ t \in heap => A = {} /\ B = {} /\ C = {}
      /\ A # {} => B = {} /\ C = {}
      /\ B # {} => C = {}
      /\ \A x, y \in A : x = y
    <2>1. Nothing \in Owners /\ \A c \in CPUs : c \in Owners
        BY DEF Owners, Actors
    <2>2. \A a \in C : a \in Actors /\ Holding(a) /\ cur[a] = t
        BY DEF Holding
    <2>3. \A x \in Owners, k \in {"heap", "stack"} : In(k, x, t) => B = {} /\ C = {}
        <3> SUFFICES ASSUME NEW x \in Owners, NEW k \in {"heap", "stack"}, In(k, x, t)
                     PROVE  B = {} /\ C = {}
            OBVIOUS
        <3>1. /\ \A d \in CPUs : t \notin Range(unsized_queue[d]) /\ t \notin Range(sized_queue[d])
              /\ \A b \in Actors : Holding(b) => cur[b] # t
            <4>1. \E l \in {"heap", "stack"}, y \in Owners : In(l, y, t)
                OBVIOUS
            <4> QED BY <4>1, FreeAlone
        <3> QED BY <2>2, <3>1 DEF Queued
    <2>4. t \in heap => In("heap", Nothing, t)
        BY DEF In
    <2>5. \A c \in A : In("stack", c, t) /\ c \in Owners
        BY <2>1 DEF In
    <2>6. t \in heap => A = {}
        <3>1. ASSUME t \in heap, NEW c \in A PROVE FALSE
            <4>1. \A d \in CPUs : t \in Range(free_stack[d]) => "heap" = "stack" /\ Nothing = d
                BY <2>1, <2>4, <3>1, FreeOnly
            <4> QED BY <3>1, <4>1
        <3> QED BY <3>1
    <2>7. ASSUME NEW x \in A, NEW y \in A PROVE x = y
        <3>1. \A d \in CPUs : t \in Range(free_stack[d]) => "stack" = "stack" /\ x = d
            BY <2>5, FreeOnly
        <3> QED BY <3>1
    <2>8. B # {} => C = {}
        BY <2>2, QueuedOnly
    <2> QED BY <2>1, <2>3, <2>4, <2>5, <2>6, <2>7, <2>8
<1>2. \A x, y \in B : x = y
    BY OneQueue DEF Queued
<1>3. \A x, y \in C : x = y
    BY HeldOnly DEF Holding
<1>4. Places(t) = h + Cardinality(A) + Cardinality(B) + Cardinality(C)
    BY DEF Places, Quantify
<1> HIDE DEF A, B, C
<1>5. /\ (A = {} /\ Cardinality(A) = 0) \/ (A # {} /\ Cardinality(A) = 1)
      /\ (B = {} /\ Cardinality(B) = 0) \/ (B # {} /\ Cardinality(B) = 1)
      /\ (C = {} /\ Cardinality(C) = 0) \/ (C # {} /\ Cardinality(C) = 1)
    BY <1>1, <1>2, <1>3, AtMostOne
<1> QED
    BY SMTT(30), <1>1, <1>4, <1>5

-----------------------------------------------------------------------------
(* Theorems *)

\* As long as no detached task is given memory whose flags somebody who completed
\* its last task is still about to read (nk_task_complete reads them after the flag
\* that lets the waiter free the task), a task's memory is in one place, no task is
\* run twice, and waiters are given their tasks' outputs, for any CPUs and threads.
THEOREM InvarianceGivenSafeReuse ==
    Spec /\ [][SafeReuse]_vars => [](OnePlace /\ RunsOnce /\ WaitDelivers)
<1>1. Init => Inv
    BY InitInv
<1>2. Inv /\ [Next]_vars /\ [SafeReuse]_vars => Inv'
    BY NextInv, StutterInv
<1>3. Inv => OnePlace /\ RunsOnce /\ WaitDelivers
    BY InvOnePlace, InvRunsOnce, InvParts
<1> QED BY <1>1, <1>2, <1>3, PTL DEF Spec

\* The invariant with what keeps tasks apart where there are detached ones.
SafeInv == Inv /\ (Detached # {} => AtHome)

LEMMA SafeStep ==
    ASSUME Separate, SafeInv
    PROVE  SafeReuse /\ ([Next]_vars => SafeInv')
<1>1. Inv /\ (Detached # {} => AtHome /\ Spaced)
    BY DEF SafeInv, Separate
<1>2. SafeReuse
    <2>1. CASE Detached = {}
        BY <2>1 DEF SafeReuse
    <2>2. CASE Detached # {}
        BY <1>1, <2>2, SafeProduce
    <2> QED BY <2>1, <2>2
<1>3. [Next]_vars => Inv'
    BY <1>1, <1>2, NextInv, StutterInv
<1>4. [Next]_vars => (Detached # {} => AtHome')
    BY <1>1, NextAtHome
<1> QED BY <1>2, <1>3, <1>4 DEF SafeInv

LEMMA SafeInvariance ==
    ASSUME Separate
    PROVE  Spec => []SafeInv
<1>1. Init => SafeInv
    BY InitInv, InitAtHome DEF SafeInv, Separate
<1>2. SafeInv /\ [Next]_vars => SafeInv'
    BY SafeStep
<1> QED BY <1>1, <1>2, PTL DEF Spec

\* If no tasks are detached, or those that are come from CPUs that produce no
\* others and the stacks of the other CPUs have room for all their producers'
\* tasks, task_alloc never hands out memory whose flags are still to be read.
THEOREM MemoryIsReusedSafely ==
    ASSUME Separate
    PROVE  Spec => [][SafeReuse]_vars
<1>1. SafeInv => SafeReuse
    BY SafeStep
<1> QED BY <1>1, SafeInvariance, PTL

\* Under that condition a task is in one queue, on one reuse stack, in the heap or in
\* the hands of one thread that runs it (_nk_task_consume), never in two places.
THEOREM TasksAreInOnePlace ==
    ASSUME Separate
    PROVE  Spec => []OnePlace
<1>1. SafeInv => OnePlace
    BY InvOnePlace DEF SafeInv
<1> QED BY <1>1, SafeInvariance, PTL

\* Under that condition no task is run twice, whichever of the task threads, pumps,
\* idle threads and waiters call _nk_task_consume.
THEOREM TasksRunOnce ==
    ASSUME Separate
    PROVE  Spec => []RunsOnce
<1>1. SafeInv => RunsOnce
    BY InvRunsOnce DEF SafeInv
<1> QED BY <1>1, SafeInvariance, PTL

\* Under that condition who has waited for a task (_nk_task_wait) has its output,
\* however its memory was used again.
THEOREM WaitersGetOutputs ==
    ASSUME Separate
    PROVE  Spec => []WaitDelivers
<1>1. SafeInv => WaitDelivers
    BY InvParts DEF SafeInv
<1> QED BY <1>1, SafeInvariance, PTL
=============================================================================
