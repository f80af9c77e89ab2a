--------------------------- MODULE MsgQueueProofs ---------------------------
(***************************************************************************)
(* The message queue implements a bounded FIFO queue, and its sleepers are *)
(* not forgotten, for every size of the ring, every set of threads and     *)
(* every workload.                                                         *)
(*                                                                         *)
(* The argument for the queue: the lock makes each attempt one step, the   *)
(* count is the distance of the two indices and never exceeds the size, so *)
(* the slots from cur_pull to cur_push - 1 are different slots of the ring *)
(* and a push writes to none of them.  For the sleepers: a thread goes to  *)
(* sleep with the lock held, when there is nothing for its side to do, and *)
(* from then on there are, for every message (or free slot), a thread that *)
(* is awake on that side or one that is about to wake one.                 *)
(***************************************************************************)
EXTENDS MsgQueue, SequenceTheorems, FiniteSetTheorems, TLAPS

Slots == 0 .. queue_size - 1
Values == Messages \cup {Empty}

\* The state of the ring, and that a thread in a call has made a call: what
\* makes the message it pushes one of Messages.
RingInv ==
    /\ msgs \in [Slots -> Values]
    /\ cur_count \in 0 .. queue_size
    /\ cur_pull \in Nat
    /\ cur_push = cur_pull + cur_count
    /\ pc = [t \in Threads |-> pc[t]]
    /\ calls \in [Threads -> 0 .. MaxCalls]
    /\ \A t \in Threads : pc[t] = "idle" \/ calls[t] >= 1

\* The ring as a sequence, as the refinement mapping has it.
Ring == [i \in 1 .. cur_count |-> msgs[(cur_pull + i - 1) % queue_size]]

-----------------------------------------------------------------------------
(* Remainders *)

\* A positive multiple of n is at least n.
LEMMA PositiveMultiple ==
    ASSUME NEW n \in Nat, NEW k \in Nat, k >= 1
    PROVE  n * k >= n
<1>1. PICK j \in Nat : k = j + 1
    BY SMTT(30)
<1>2. n * k = n * j + n
    BY <1>1, SMTT(30)
<1>3. n * j \in Nat
    BY <1>1, SMTT(30)
<1> QED BY <1>2, <1>3, SMTT(30)

\* Two numbers that are less than n apart have different remainders.
LEMMA RemaindersDiffer ==
    ASSUME NEW n \in Nat \ {0}, NEW a \in Nat, NEW b \in Nat, a < b, b - a < n
    PROVE  a % n # b % n
<1> DEFINE p == a \div n
           q == b \div n
<1>1. /\ p \in Nat /\ q \in Nat
      /\ a = n * p + (a % n) /\ b = n * q + (b % n)
    BY SMTT(30)
<1> SUFFICES ASSUME a % n = b % n PROVE FALSE
    OBVIOUS
<1> HIDE DEF p, q
<1>2. b - a = n * q - n * p
    BY <1>1, SMTT(30)
<1>3. CASE q > p
    <2>1. PICK k \in Nat : k >= 1 /\ q = p + k
        BY <1>1, <1>3, SMTT(30)
    <2>2. n * q = n * p + n * k
        BY <1>1, <2>1, SMTT(30)
    <2> QED BY <1>1, <1>2, <2>1, <2>2, PositiveMultiple, SMTT(30)
<1>4. CASE ~(q > p)
    <2>1. PICK k \in Nat : p = q + k
        BY <1>1, <1>4, SMTT(30)
    <2>2. n * p = n * q + n * k /\ n * k \in Nat
        BY <1>1, <2>1, SMTT(30)
    <2> QED BY <1>1, <1>2, <2>2, SMTT(30)
<1> QED BY <1>3, <1>4

\* An index of the ring is a slot.
LEMMA IsSlot ==
    ASSUME NEW a \in Nat
    PROVE  a % queue_size \in Slots
BY MsgQueueAssumption, SMTT(30) DEF Slots

-----------------------------------------------------------------------------
(* The ring as a sequence *)

\* The window of n slots from index p on.
Window(ms, n, p) == [i \in 1 .. n |-> ms[(p + i - 1) % queue_size]]

\* It is a sequence of n values.
LEMMA WindowIsSeq ==
    ASSUME NEW ms \in [Slots -> Values], NEW n \in Nat, NEW p \in Nat
    PROVE  Window(ms, n, p) \in Seq(Values) /\ Len(Window(ms, n, p)) = n
<1>1. \A i \in 1 .. n : ms[(p + i - 1) % queue_size] \in Values
    <2> TAKE i \in 1 .. n
    <2>1. p + i - 1 \in Nat
        BY SMTT(30)
    <2> QED BY <2>1, IsSlot
<1>2. Window(ms, n, p) \in [1 .. n -> Values]
    BY <1>1, ZenonT(30) DEF Window
<1> QED BY <1>2, SMTT(30)

\* A push appends to it.
LEMMA PushAppends ==
    ASSUME RingInv, RingInv', NEW m \in Messages, cur_count < queue_size,
           _nk_msg_queue_try_push(m)
    PROVE  Ring' = Append(Ring, m)
<1>1. /\ Ring \in Seq(Values) /\ Len(Ring) = cur_count
      /\ Ring' \in Seq(Values) /\ Len(Ring') = cur_count'
    <2>1. /\ msgs \in [Slots -> Values] /\ cur_count \in Nat /\ cur_pull \in Nat
          /\ msgs' \in [Slots -> Values] /\ cur_count' \in Nat /\ cur_pull' \in Nat
        BY MsgQueueAssumption, SMTT(30) DEF RingInv
    <2>2. Ring = Window(msgs, cur_count, cur_pull) /\ Ring' = Window(msgs', cur_count', cur_pull')
        BY DEF Ring, Window
    <2> QED BY <2>1, <2>2, WindowIsSeq
<1>2. m \in Values
    BY DEF Values
<1>3. /\ Append(Ring, m) \in Seq(Values) /\ Len(Append(Ring, m)) = cur_count + 1
      /\ \A i \in 1 .. cur_count : Append(Ring, m)[i] = Ring[i]
      /\ Append(Ring, m)[cur_count + 1] = m
    BY <1>1, <1>2, AppendProperties
<1>4. cur_count' = cur_count + 1 /\ cur_count \in Nat
    BY MsgQueueAssumption, SMTT(30) DEF RingInv, _nk_msg_queue_try_push
<1>5. ASSUME NEW i \in 1 .. cur_count + 1
      PROVE  Ring'[i] = Append(Ring, m)[i]
    <2> DEFINE slot == (cur_pull + i - 1) % queue_size
    <2>1. Ring'[i] = msgs'[slot]
        BY <1>4, <1>5 DEF Ring, _nk_msg_queue_try_push
    <2>2. cur_pull + i - 1 \in Nat /\ cur_push \in Nat
        BY <1>4, <1>5, SMTT(30) DEF RingInv
    <2>3. slot \in Slots /\ cur_push % queue_size \in Slots
        BY <2>2, IsSlot
    <2>4. CASE i = cur_count + 1
        <3>1. cur_pull + i - 1 = cur_push
            BY <2>4, <1>4, SMTT(30) DEF RingInv
        <3>2. msgs'[slot] = m
            BY <3>1, <2>3 DEF RingInv, _nk_msg_queue_try_push
        <3> QED BY <3>2, <2>1, <2>4, <1>3
    <2>5. CASE i # cur_count + 1
        <3>1. i \in 1 .. cur_count
            BY <2>5, <1>4, <1>5, SMTT(30)
        <3>2. /\ cur_pull + i - 1 < cur_push
              /\ cur_push - (cur_pull + i - 1) < queue_size
            BY <3>1, <1>4, MsgQueueAssumption, SMTT(30) DEF RingInv
        <3>3. slot # cur_push % queue_size
            BY <3>2, <2>2, RemaindersDiffer, MsgQueueAssumption
        <3>4. msgs'[slot] = msgs[slot]
            BY <3>3, <2>3 DEF RingInv, _nk_msg_queue_try_push
        <3> QED BY <3>1, <3>4, <2>1, <1>3, ZenonT(30) DEF Ring
    <2> QED BY <2>4, <2>5, ZenonT(30)
<1> QED BY <1>1, <1>3, <1>4, <1>5, SeqEqual

\* A pull takes the head off it.
LEMMA PullTakesHead ==
    ASSUME RingInv, RingInv', cur_count > 0, _nk_msg_queue_try_pull
    PROVE  /\ Ring # <<>>
           /\ Ring' = Tail(Ring)
           /\ pulled' = Append(pulled, Head(Ring))
<1>1. /\ Ring \in Seq(Values) /\ Len(Ring) = cur_count
      /\ Ring' \in Seq(Values) /\ Len(Ring') = cur_count'
    <2>1. /\ msgs \in [Slots -> Values] /\ cur_count \in Nat /\ cur_pull \in Nat
          /\ msgs' \in [Slots -> Values] /\ cur_count' \in Nat /\ cur_pull' \in Nat
        BY MsgQueueAssumption, SMTT(30) DEF RingInv
    <2>2. Ring = Window(msgs, cur_count, cur_pull) /\ Ring' = Window(msgs', cur_count', cur_pull')
        BY DEF Ring, Window
    <2> QED BY <2>1, <2>2, WindowIsSeq
<1>2. cur_count' = cur_count - 1 /\ cur_count \in Nat \ {0} /\ cur_pull' = cur_pull + 1
    BY MsgQueueAssumption, SMTT(30) DEF RingInv, _nk_msg_queue_try_pull
<1>3. Ring # <<>>
    BY <1>1, <1>2, EmptySeq
<1>4. /\ Tail(Ring) \in Seq(Values) /\ Len(Tail(Ring)) = cur_count - 1
      /\ \A i \in 1 .. cur_count - 1 : Tail(Ring)[i] = Ring[i + 1]
    BY <1>1, <1>3, HeadTailProperties
<1>5. ASSUME NEW i \in 1 .. cur_count - 1
      PROVE  Ring'[i] = Tail(Ring)[i]
    <2>1. Ring'[i] = msgs[(cur_pull + 1 + i - 1) % queue_size]
        BY <1>2, <1>5 DEF Ring, _nk_msg_queue_try_pull
    <2>2. cur_pull + 1 + i - 1 = cur_pull + (i + 1) - 1 /\ i + 1 \in 1 .. cur_count
        BY <1>2, <1>5, SMTT(30) DEF RingInv
    <2> QED BY <2>1, <2>2, <1>4, ZenonT(30) DEF Ring
<1>6. Ring' = Tail(Ring)
    BY <1>1, <1>2, <1>4, <1>5, SeqEqual
<1>7. Head(Ring) = msgs[cur_pull % queue_size]
    <2>1. Head(Ring) = Ring[1]
        BY <1>1, <1>3, SMTT(30)
    <2>2. 1 \in 1 .. cur_count /\ cur_pull + 1 - 1 = cur_pull
        BY <1>2, SMTT(30) DEF RingInv
    <2> QED BY <2>1, <2>2 DEF Ring
<1> QED BY <1>3, <1>6, <1>7 DEF _nk_msg_queue_try_pull

-----------------------------------------------------------------------------
(* The invariant *)

LEMMA InitRing == Init => RingInv
BY MsgQueueAssumption, SMTT(30) DEF Init, RingInv, Slots, Values

\* What an attempt does to the ring.
LEMMA AttemptRing ==
    ASSUME RingInv, NEW t \in Threads, Attempt(t)
    PROVE  RingInv'
<1> USE DEF RingInv
<1>1. /\ calls' = calls
      /\ pc[t] = "attempt" /\ \E to : pc' = [pc EXCEPT ![t] = to]
    BY DEF Attempt, Goto
<1>2. calls[t] \in 1 .. MaxCalls
    BY <1>1, MsgQueueAssumption, SMTT(30)
<1>3. /\ pc' = [u \in Threads |-> pc'[u]]
      /\ \A u \in Threads : pc'[u] = "idle" \/ calls'[u] >= 1
    BY <1>1, <1>2, SMTT(30)
<1>4. CASE Possible(Side(t)) /\ Side(t) = "push"
    <2>1. _nk_msg_queue_try_push(<<t, calls[t]>>) /\ cur_count < queue_size
        BY <1>4 DEF Attempt, Possible
    <2>2. <<t, calls[t]>> \in Values
        BY <1>2 DEF Values, Messages
    <2>3. cur_count \in Nat /\ cur_push \in Nat /\ queue_size \in Nat
        BY MsgQueueAssumption, SMTT(30)
    <2>4. msgs' \in [Slots -> Values]
        BY <2>1, <2>2, <2>3, IsSlot DEF _nk_msg_queue_try_push
    <2>5. cur_count' \in 0 .. queue_size /\ cur_pull' \in Nat /\ cur_push' = cur_pull' + cur_count'
        BY <2>1, <2>3, SMTT(30) DEF _nk_msg_queue_try_push
    <2> QED BY <2>4, <2>5, <1>1, <1>3
<1>5. CASE Possible(Side(t)) /\ Side(t) # "push"
    <2>1. _nk_msg_queue_try_pull /\ cur_count > 0
        BY <1>5 DEF Attempt, Possible
    <2>2. /\ msgs' = msgs /\ cur_count' \in 0 .. queue_size
          /\ cur_pull' \in Nat /\ cur_push' = cur_pull' + cur_count'
        BY <2>1, MsgQueueAssumption, SMTT(30) DEF _nk_msg_queue_try_pull
    <2> QED BY <2>2, <1>1, <1>3
<1>6. CASE ~Possible(Side(t))
    BY <1>6, <1>1, <1>3 DEF Attempt, ringVars
<1> QED BY <1>4, <1>5, <1>6

\* The other steps of a thread in a call leave the ring alone.
OtherStep(t) ==
    \/ TryLockFails(t) \/ WakeOther(t) \/ Enqueue(t) \/ Pass(t) \/ Retry(t)
    \/ TimedOut(t) \/ TimedArm(t) \/ TimedSleep(t) \/ TimedRemove(t) \/ TimedCancel(t)

LEMMA OtherStepRing ==
    ASSUME RingInv, NEW t \in Threads, OtherStep(t)
    PROVE  UNCHANGED ringVars /\ RingInv'
<1>1. /\ UNCHANGED ringVars /\ calls' = calls /\ pc[t] # "idle"
      /\ \E to : pc' = [pc EXCEPT ![t] = to]
    BY DEF OtherStep, TryLockFails, WakeOther, Wake, Enqueue, Pass, Retry, TimedOut, TimedArm,
           TimedSleep, SleepMultiple, TimedRemove, TimedCancel, Goto
<1> QED BY <1>1 DEF RingInv, ringVars

LEMMA CallRing ==
    ASSUME RingInv, NEW t \in Threads, Call(t)
    PROVE  UNCHANGED ringVars /\ RingInv'
<1>1. /\ UNCHANGED ringVars /\ calls[t] < MaxCalls
      /\ calls' = [calls EXCEPT ![t] = @ + 1] /\ pc' = [pc EXCEPT ![t] = "attempt"]
    BY DEF Call, Goto
<1>2. /\ calls' \in [Threads -> 0 .. MaxCalls]
      /\ \A u \in Threads : calls'[u] >= calls[u] /\ calls'[t] >= 1
    BY <1>1, MsgQueueAssumption, SMTT(30) DEF RingInv
<1>3. pc' = [u \in Threads |-> pc'[u]] /\ \A u \in Threads \ {t} : pc'[u] = pc[u]
    BY <1>1 DEF RingInv
<1>4. \A u \in Threads : pc'[u] = "idle" \/ calls'[u] >= 1
    BY <1>2, <1>3, MsgQueueAssumption, SMTT(30) DEF RingInv
<1> QED BY <1>1, <1>2, <1>3, <1>4 DEF RingInv, ringVars

LEMMA TimerRing ==
    ASSUME RingInv, NEW t \in Threads, Timer(t)
    PROVE  UNCHANGED ringVars /\ RingInv'
BY DEF Timer, TimerSignal, TimerWake, RingInv, ringVars

\* Every step is an attempt or leaves the ring alone, and keeps the invariant.
LEMMA StepRing ==
    ASSUME RingInv, [Next]_vars
    PROVE  /\ RingInv'
           /\ UNCHANGED ringVars \/ \E t \in Threads : Attempt(t)
<1>1. CASE UNCHANGED vars
    BY <1>1 DEF vars, ringVars, RingInv
<1>2. ASSUME NEW t \in Threads, Call(t) \/ Step(t) \/ Timer(t)
      PROVE  RingInv' /\ (UNCHANGED ringVars \/ Attempt(t))
    <2>1. CASE Call(t)
        BY <2>1, CallRing
    <2>2. CASE Step(t)
        <3>1. Attempt(t) \/ OtherStep(t)
            BY <2>2 DEF Step, OtherStep
        <3> QED BY <3>1, AttemptRing, OtherStepRing
    <2>3. CASE Timer(t)
        BY <2>3, TimerRing
    <2> QED BY <1>2, <2>1, <2>2, <2>3
<1> QED BY <1>1, <1>2 DEF Next

\* The state of the ring is consistent: the count is the distance of the two
\* indices and stays within the size of the ring.
THEOREM RingConsistent == Spec => []RingInv
<1>1. RingInv /\ [Next]_vars => RingInv'
    BY StepRing
<1> QED BY <1>1, InitRing, PTL DEF Spec

-----------------------------------------------------------------------------
(* The refinement *)

\* An attempt pushes, pulls or leaves the queue as it was.
LEMMA AttemptRefines ==
    ASSUME RingInv, RingInv', NEW t \in Threads, Attempt(t)
    PROVE  [Fifo!Next]_<<Ring, pulled>>
<1>1. CASE Possible(Side(t)) /\ Side(t) = "push"
    <2> DEFINE m == <<t, calls[t]>>
    <2>1. /\ _nk_msg_queue_try_push(m) /\ cur_count < queue_size
          /\ pc[t] = "attempt"
        BY <1>1 DEF Attempt, Possible, Goto
    <2>2. calls[t] \in 1 .. MaxCalls
        BY <2>1, MsgQueueAssumption, SMTT(30) DEF RingInv
    <2>3. m \in Messages
        BY <2>2 DEF Messages
    <2>4. Ring' = Append(Ring, m)
        BY <2>1, <2>3, PushAppends
    <2>5. Len(Ring) = cur_count
        <3>1. msgs \in [Slots -> Values] /\ cur_count \in Nat /\ cur_pull \in Nat
            BY MsgQueueAssumption, SMTT(30) DEF RingInv
        <3> QED BY <3>1, WindowIsSeq DEF Ring, Window
    <2>6. pulled' = pulled
        BY <2>1 DEF _nk_msg_queue_try_push
    <2>7. Fifo!Push
        BY <2>1, <2>3, <2>4, <2>5, <2>6, ZenonT(30) DEF Fifo!Push, Ring
    <2> QED BY <2>7 DEF Fifo!Next
<1>2. CASE Possible(Side(t)) /\ Side(t) # "push"
    <2>1. _nk_msg_queue_try_pull /\ cur_count > 0
        BY <1>2 DEF Attempt, Possible
    <2>2. Fifo!Pull
        BY <2>1, PullTakesHead, ZenonT(30) DEF Fifo!Pull, Ring
    <2> QED BY <2>2 DEF Fifo!Next
<1>3. CASE ~Possible(Side(t))
    BY <1>3 DEF Attempt, ringVars, Ring
<1> QED BY <1>1, <1>2, <1>3

\* "No message is lost, duplicated, overwritten or overtaken": the message
\* queue of msg_queue.c implements the bounded FIFO queue, whatever the size of
\* the ring, the threads and the operations they mix.
THEOREM ImplementsBoundedFifo == Spec => ImplementsFifo
<1>1. Init => Fifo!Init
    <2> SUFFICES ASSUME Init PROVE Fifo!Init
        OBVIOUS
    <2>1. Ring = <<>>
        <3>1. Ring = [i \in 1 .. 0 |-> msgs[(cur_pull + i - 1) % queue_size]] /\ 1 .. 0 = {}
            BY SMTT(30) DEF Init, Ring
        <3> QED BY <3>1, SMTT(30)
    <2> QED BY <2>1 DEF Fifo!Init, Ring, Init
<1>2. ASSUME RingInv, RingInv', [Next]_vars
      PROVE  [Fifo!Next]_<<Ring, pulled>>
    <2>1. CASE UNCHANGED ringVars
        BY <2>1 DEF ringVars, Ring
    <2>2. CASE \E t \in Threads : Attempt(t)
        BY <1>2, <2>2, AttemptRefines
    <2> QED BY <1>2, <2>1, <2>2, StepRing
<1>3. RingInv /\ RingInv' /\ [Next]_vars
         => [Fifo!Next]_<<[i \in 1 .. cur_count |-> msgs[(cur_pull + i - 1) % queue_size]], pulled>>
    BY <1>2 DEF Ring
<1> QED BY <1>1, <1>3, RingConsistent, PTL DEF Spec, ImplementsFifo, Fifo!Spec
-----------------------------------------------------------------------------
(* Nobody is forgotten *)

Places == {"idle", "attempt", "wake", "enqueue", "pass", "asleep", "arm", "sleep", "timed", "cancel"}

\* The types that do not depend on the ring.
Typed ==
    /\ lock \in Threads \cup {Nobody}
    /\ wait_queue \in [Sides -> Seq(Threads)]
    /\ waiting \subseteq Threads /\ onTimer \subseteq Threads
    /\ firing \subseteq Threads /\ late \subseteq Threads
    /\ pc \in [Threads -> Places] /\ op \in [Threads -> Sides \X Kinds] /\ ops \in Workloads

\* Nothing of the timed forms is in use.
NothingTimed ==
    /\ firing = {} /\ late = {} /\ timer = [t \in Threads |-> "INACTIVE"]
    /\ \A t \in Threads : /\ pc[t] \in {"idle", "attempt", "wake", "enqueue", "pass", "asleep"}
                          /\ Kind(t) # "timeout"

\* The lock protects the ring until the thread is asleep: its side stays stuck.
Locked ==
    \A t \in Threads :
        /\ pc[t] \in {"enqueue", "pass"} => lock = t /\ ~Possible(Side(t))
        /\ pc[t] \in {"enqueue", "pass", "asleep"} => Kind(t) = "plain"

\* The wait queues hold the threads that wait, each of them once, on its side.
Queued ==
    /\ \A t \in waiting : /\ pc[t] \in {"pass", "asleep"}
                          /\ \E i \in DOMAIN wait_queue[Side(t)] : wait_queue[Side(t)][i] = t
    /\ \A s \in Sides :
           /\ \A i \in DOMAIN wait_queue[s] :
                  wait_queue[s][i] \in waiting /\ Side(wait_queue[s][i]) = s
           /\ \A i, j \in DOMAIN wait_queue[s] : wait_queue[s][i] = wait_queue[s][j] => i = j

\* How often side s can proceed: the messages or the free slots.
Avail(s) == IF s = "push" THEN queue_size - cur_count ELSE cur_count

\* The threads that are about to wake somebody of side s, and those of side s
\* that are awake and do not give up.
Stir(s) ==
    {t \in Threads :
        \/ pc[t] = "wake" /\ Side(t) = Other(s)
        \/ /\ pc[t] \in {"attempt", "enqueue", "pass", "asleep"} /\ Side(t) = s
           /\ Kind(t) = "plain" /\ t \notin waiting}

\* While somebody sleeps on a side, no chance of that side is unaccounted for.
Enough ==
    \A s \in Sides :
        Cardinality(Stir(s)) >= Avail(s) \/ \A t \in waiting : Side(t) # s

UntimedInv == NothingTimed /\ Locked /\ Queued /\ Enough

Inv == RingInv /\ Typed /\ (Untimed => UntimedInv)

USE ZenonT(30)

\* What the proofs need to know about the number of threads in a set.
LEMMA CardinalityFacts ==
    ASSUME NEW S \in SUBSET Threads
    PROVE  /\ Cardinality(S) \in Nat
           /\ Cardinality(S) = 0 <=> S = {}
           /\ \A T \in SUBSET Threads : S \subseteq T => Cardinality(S) <= Cardinality(T)
           /\ \A t \in Threads \ S : Cardinality(S \cup {t}) = Cardinality(S) + 1
           /\ \A t \in S : Cardinality(S \ {t}) = Cardinality(S) - 1
<1>1. IsFiniteSet(Threads)
    BY SMTT(30), MsgQueueAssumption
<1>2. \A T \in SUBSET Threads : IsFiniteSet(T)
    BY <1>1, FS_Subset
<1> QED
    BY <1>2, FS_Subset, FS_CardinalityType, FS_EmptySet, FS_AddElement, FS_RemoveElement

\* A wait queue holds each of its sleepers once.
LEMMA QueueMembers ==
    ASSUME UntimedInv, NEW s \in Sides
    PROVE  /\ \A i \in DOMAIN wait_queue[s] : wait_queue[s][i] \in waiting
           /\ \A i, j \in DOMAIN wait_queue[s] : wait_queue[s][i] = wait_queue[s][j] => i = j
BY DEF UntimedInv, Queued

\* Taking a thread off a wait queue leaves a queue of threads.
LEMMA QueueTypes ==
    ASSUME NEW q \in Seq(Threads), NEW t \in Threads
    PROVE  /\ q # <<>> => Tail(q) \in Seq(Threads)
           /\ Append(q, t) \in Seq(Threads)
           /\ Without(q, t) \in Seq(Threads)
<1>1. (q # <<>> => Tail(q) \in Seq(Threads)) /\ Append(q, t) \in Seq(Threads)
    BY SMTT(30)
<1>2. CASE t \notin Range(q)
    BY <1>1, <1>2 DEF Without
<1>3. CASE t \in Range(q)
    <2> DEFINE i == CHOOSE j \in DOMAIN q : q[j] = t
               r == [j \in 1 .. (Len(q) - 1) |-> IF j < i THEN q[j] ELSE q[j + 1]]
    <2>1. /\ Len(q) \in Nat \ {0} /\ DOMAIN q = 1 .. Len(q)
          /\ i \in 1 .. Len(q)
        BY SMTT(30), <1>3 DEF Range
    <2>2. Without(q, t) = r
        BY <1>3 DEF Without
    <2> HIDE DEF i
    <2>3. \A j \in 1 .. (Len(q) - 1) : r[j] \in Threads
        BY SMTT(30), <2>1
    <2> QED BY SMTT(30), <1>1, <2>1, <2>2, <2>3
<1> QED BY <1>1, <1>2, <1>3

LEMMA InitTyped == Init => Typed /\ (Untimed => UntimedInv)
<1> SUFFICES ASSUME Init PROVE Typed /\ (Untimed => UntimedInv)
    OBVIOUS
<1>1. Typed
    BY SMTT(30), MsgQueueAssumption DEF Init, Typed, Sides, Kinds, Places
<1>2. NothingTimed
    BY DEF Init, NothingTimed, Kind
<1>3. Locked
    BY DEF Init, Locked
<1>4. Queued
    <2>1. DOMAIN <<>> = {}
        BY SMTT(30)
    <2> QED BY <2>1 DEF Init, Queued
<1>5. Enough
    BY DEF Init, Enough
<1> QED BY <1>1, <1>2, <1>3, <1>4, <1>5 DEF UntimedInv

\* Wait queues, locks and program counters keep their types.
LEMMA TypedStep == ASSUME Typed, Next PROVE Typed'
<1> USE DEF Goto
<1> PICK t \in Threads : Call(t) \/ Step(t) \/ Timer(t)
    BY DEF Next
<1>1. ASSUME NEW p \in Places, pc' = [pc EXCEPT ![t] = p],
             op' = op, ops' = ops, lock' \in {lock, t, Nobody},
             wait_queue' \in [Sides -> Seq(Threads)], waiting' \subseteq Threads,
             onTimer' \subseteq Threads, firing' \subseteq Threads, late' \subseteq Threads
      PROVE  Typed'
    <2>1. pc' \in [Threads -> Places]
        BY <1>1 DEF Typed
    <2> QED BY <1>1, <2>1 DEF Typed
<1>2. Side(t) \in Sides /\ Other(Side(t)) \in Sides /\ Kind(t) \in Kinds
    BY SMTT(30) DEF Typed, Side, Kind, Other, Sides
<1>3. \A s \in Sides : wait_queue[s] \in Seq(Threads)
    BY DEF Typed
<1>4. CASE Call(t)
    <2>1. \E o \in ops[t] : op' = [op EXCEPT ![t] = o]
        BY <1>4 DEF Call
    <2>2. ops[t] \subseteq Sides \X Kinds
        BY MsgQueueAssumption DEF Typed
    <2>3. op' \in [Threads -> Sides \X Kinds]
        BY <2>1, <2>2 DEF Typed
    <2> QED BY <1>4, <2>3 DEF Call, Typed, timerVars, Places
<1>5. CASE Attempt(t) /\ UNCHANGED ops
    <2>1. \A k \in Kinds : AfterSuccess[k] \in Places /\ AfterFailure[k] \in Places
        BY SMTT(30) DEF Kinds, AfterSuccess, AfterFailure, Places
    <2>2. \E p \in Places : pc' = [pc EXCEPT ![t] = p]
        BY <1>2, <1>5, <2>1 DEF Attempt
    <2>3. lock' \in {lock, t, Nobody}
        BY <1>5 DEF Attempt
    <2> QED BY <1>1, <1>5, <2>2, <2>3 DEF Attempt, Typed, timerVars
<1>6. CASE TryLockFails(t) /\ UNCHANGED ops
    BY <1>1, <1>6 DEF TryLockFails, Typed, timerVars, Places
<1>7. CASE WakeOther(t) /\ UNCHANGED ops
    <2> DEFINE s == Other(Side(t))
    <2>1. wait_queue' = [wait_queue EXCEPT
                            ![s] = IF wait_queue[s] = <<>> THEN wait_queue[s] ELSE Tail(wait_queue[s])]
        BY <1>7 DEF WakeOther, Wake
    <2>2. (IF wait_queue[s] = <<>> THEN wait_queue[s] ELSE Tail(wait_queue[s])) \in Seq(Threads)
        BY <1>2, <1>3, QueueTypes
    <2>3. wait_queue' \in [Sides -> Seq(Threads)]
        BY <2>1, <2>2 DEF Typed
    <2> QED BY <1>1, <1>7, <2>3 DEF WakeOther, Wake, Typed, timerVars, Places
<1>8. CASE Enqueue(t) /\ UNCHANGED ops
    <2>1. Append(wait_queue[Side(t)], t) \in Seq(Threads)
        BY <1>2, <1>3, QueueTypes
    <2>2. wait_queue' \in [Sides -> Seq(Threads)]
        BY <1>8, <2>1 DEF Typed, Enqueue
    <2> QED BY <1>1, <1>8, <2>2 DEF Enqueue, Typed, timerVars, Places
<1>9. CASE Pass(t) /\ UNCHANGED ops
    BY <1>1, <1>9 DEF Pass, Typed, timerVars, Places
<1>10. CASE Retry(t) /\ UNCHANGED ops
    BY <1>1, <1>10 DEF Retry, Typed, timerVars, Places
<1>11. CASE TimedOut(t) /\ UNCHANGED ops
    BY <1>1, <1>11 DEF TimedOut, Typed, Places
<1>12. CASE TimedArm(t) /\ UNCHANGED ops
    BY <1>1, <1>12 DEF TimedArm, Typed, Places
<1>13. CASE TimedSleep(t) /\ UNCHANGED ops
    <2>1. Append(wait_queue[Side(t)], t) \in Seq(Threads)
        BY <1>2, <1>3, QueueTypes
    <2>2. wait_queue' \in [Sides -> Seq(Threads)]
        BY <1>13, <2>1 DEF Typed, TimedSleep, SleepMultiple
    <2>3. /\ \E p \in Places : pc' = [pc EXCEPT ![t] = p]
          /\ waiting' \subseteq Threads /\ onTimer' \subseteq Threads
          /\ UNCHANGED <<op, lock, firing, late>>
        BY <1>13 DEF TimedSleep, SleepMultiple, Typed, Places
    <2> QED BY <1>1, <1>13, <2>2, <2>3 DEF Typed
<1>14. CASE TimedRemove(t) /\ UNCHANGED ops
    <2>1. Without(wait_queue[Side(t)], t) \in Seq(Threads)
        BY <1>2, <1>3, QueueTypes
    <2>2. wait_queue' \in [Sides -> Seq(Threads)]
        BY <1>14, <2>1 DEF Typed, TimedRemove
    <2> QED BY <1>1, <1>14, <2>2 DEF TimedRemove, Typed, Places
<1>15. CASE TimedCancel(t) /\ UNCHANGED ops
    BY <1>1, <1>15 DEF TimedCancel, Typed, Places
<1>16. CASE Timer(t)
    BY <1>16 DEF Timer, TimerSignal, TimerWake, Typed
<1> QED
    BY <1>4, <1>5, <1>6, <1>7, <1>8, <1>9, <1>10, <1>11, <1>12, <1>13, <1>14, <1>15, <1>16 DEF Step

\* A step that leaves the ring and the wait queues alone, and after which at
\* least the same threads stir.
LEMMA EnoughKept ==
    ASSUME Enough, cur_count' = cur_count, waiting' \subseteq waiting,
           \A u \in waiting' : Side(u)' = Side(u),
           \A s \in Sides : Stir(s) \subseteq Stir(s)',
           RingInv
    PROVE  Enough'
<1> SUFFICES ASSUME NEW s \in Sides, ~(\A u \in waiting' : Side(u)' # s)
             PROVE  Cardinality(Stir(s)') >= Avail(s)'
    BY DEF Enough
<1>1. Cardinality(Stir(s)) >= Avail(s) /\ Avail(s)' = Avail(s) /\ Avail(s) \in Int
    <2>1. Avail(s)' = Avail(s)
        BY DEF Avail
    <2>2. Avail(s) \in Int
        BY SMTT(30), MsgQueueAssumption DEF Avail, RingInv
    <2> QED BY <2>1, <2>2 DEF Enough
<1>2. /\ Cardinality(Stir(s)) <= Cardinality(Stir(s)')
      /\ Cardinality(Stir(s)) \in Nat /\ Cardinality(Stir(s)') \in Nat
    <2>1. Stir(s) \in SUBSET Threads /\ Stir(s)' \in SUBSET Threads
        BY DEF Stir
    <2> QED BY <2>1, CardinalityFacts
<1> QED BY SMTT(30), <1>1, <1>2

\* The queues if neither they nor the side of a waiting thread change, and
\* waiting threads go on waiting.
LEMMA QueuedKept ==
    ASSUME Queued, UNCHANGED <<wait_queue, waiting>>,
           \A u \in waiting : Side(u)' = Side(u) /\ pc'[u] \in {"pass", "asleep"}
    PROVE  Queued'
<1>1. \A u \in waiting' : /\ pc'[u] \in {"pass", "asleep"}
                          /\ \E i \in DOMAIN wait_queue'[Side(u)'] : wait_queue'[Side(u)'][i] = u
    BY DEF Queued
<1>2. ASSUME NEW s \in Sides, NEW i \in DOMAIN wait_queue'[s]
      PROVE  wait_queue'[s][i] \in waiting' /\ op'[wait_queue'[s][i]][1] = s
    <2> DEFINE u == wait_queue[s][i]
    <2>0. i \in DOMAIN wait_queue[s]
        BY <1>2
    <2>1. u \in waiting /\ Side(u) = s
        BY <2>0 DEF Queued
    <2> QED BY <2>1 DEF Side
<1>3. \A s \in Sides : \A i, j \in DOMAIN wait_queue'[s] :
          wait_queue'[s][i] = wait_queue'[s][j] => i = j
    BY DEF Queued
<1> QED BY <1>1, <1>2, <1>3 DEF Queued, Side

\* A call.
LEMMA CallUntimed ==
    ASSUME Inv, UntimedInv, Untimed, NEW t \in Threads, Call(t)
    PROVE  UntimedInv'
<1>1. /\ pc[t] = "idle" /\ pc' = [pc EXCEPT ![t] = "attempt"]
      /\ UNCHANGED <<cur_count, lock, wait_queue, waiting, timer, firing, late>>
    BY DEF Call, Goto, ringVars, timerVars
<1>2. PICK o \in ops[t] : op' = [op EXCEPT ![t] = o]
    BY DEF Call
<1>3. o \in Sides \X Kinds /\ o[2] # "timeout"
    <2>1. o \in Sides \X Kinds
        BY <1>2, MsgQueueAssumption DEF Inv, Typed
    <2>2. o = <<o[1], o[2]>> /\ o[1] \in Sides
        BY SMTT(30), <2>1
    <2> QED BY <1>2, <2>1, <2>2 DEF Untimed
<1>4. /\ pc'[t] = "attempt" /\ op'[t] = o
      /\ \A u \in Threads : u # t => pc'[u] = pc[u] /\ op'[u] = op[u]
    BY <1>1, <1>2 DEF Inv, Typed
<1>5. t \notin waiting /\ waiting \subseteq Threads
    BY <1>1 DEF UntimedInv, Queued, Inv, Typed
<1>6. NothingTimed'
    BY <1>1, <1>3, <1>4 DEF UntimedInv, NothingTimed, Kind
<1>7. Locked'
    BY <1>1, <1>4 DEF UntimedInv, Locked, Kind, Side, Possible
<1>8. \A u \in waiting : u \in Threads /\ u # t
    BY <1>5
<1>9. Queued'
    <2>1. \A u \in waiting : Side(u)' = Side(u) /\ pc'[u] \in {"pass", "asleep"}
        BY <1>4, <1>8 DEF Side, UntimedInv, Queued
    <2> QED BY <1>1, <2>1, QueuedKept DEF UntimedInv
<1>10. Enough'
    <2>1. \A s \in Sides : Stir(s) \subseteq Stir(s)'
        BY <1>1, <1>4 DEF Stir, Side, Kind
    <2>2. \A u \in waiting' : Side(u)' = Side(u)
        BY <1>1, <1>4, <1>8 DEF Side
    <2> QED BY <1>1, <2>1, <2>2, EnoughKept DEF UntimedInv, Inv
<1> QED BY <1>6, <1>7, <1>9, <1>10 DEF UntimedInv

\* A step that changes neither the ring nor the queues, after which the same
\* threads stir.
LEMMA QuietUntimed ==
    ASSUME Inv, UntimedInv, NEW t \in Threads,
           NEW p \in {"idle", "attempt", "enqueue", "asleep"}, pc' = [pc EXCEPT ![t] = p],
           UNCHANGED <<cur_count, wait_queue, waiting, op, timer, firing, late>>,
           \/ pc[t] = "attempt" /\ p = "idle" /\ Kind(t) = "try"
           \/ pc[t] = "attempt" /\ p = "enqueue" /\ Kind(t) = "plain"
           \/ pc[t] = "pass" /\ p = "asleep"
           \/ pc[t] = "asleep" /\ p = "attempt" /\ t \notin waiting,
           Locked'
    PROVE  UntimedInv'
<1>1. pc'[t] = p /\ \A u \in Threads : u # t => pc'[u] = pc[u]
    BY DEF Inv, Typed
<1>2. \A u \in Threads : Side(u)' = Side(u) /\ Kind(u)' = Kind(u)
    BY DEF Side, Kind
<1>3. waiting \subseteq Threads
    BY DEF Inv, Typed
<1>4. NothingTimed'
    BY <1>1, <1>2 DEF UntimedInv, NothingTimed
<1>5. Queued'
    <2>1. \A u \in waiting : Side(u)' = Side(u) /\ pc'[u] \in {"pass", "asleep"}
        BY <1>1, <1>2, <1>3 DEF UntimedInv, Queued
    <2> QED BY <2>1, QueuedKept DEF UntimedInv
<1>6. Enough'
    <2>1. \A s \in Sides : Stir(s) \subseteq Stir(s)'
        BY <1>1, <1>2 DEF Stir, UntimedInv, Locked
    <2>2. \A u \in waiting' : Side(u)' = Side(u)
        BY <1>2, <1>3
    <2> QED BY <2>1, <2>2, EnoughKept DEF UntimedInv, Inv
<1> QED BY <1>4, <1>5, <1>6 DEF UntimedInv

LEMMA QuietSteps ==
    ASSUME Inv, UntimedInv, NEW t \in Threads, TryLockFails(t) \/ Pass(t) \/ Retry(t)
    PROVE  UntimedInv'
<1>1. CASE TryLockFails(t)
    <2>1. /\ pc[t] = "attempt" /\ pc' = [pc EXCEPT ![t] = "idle"] /\ Kind(t) = "try"
          /\ UNCHANGED <<cur_count, lock, wait_queue, waiting, op, timer, firing, late>>
        BY <1>1 DEF TryLockFails, Goto, ringVars, timerVars
    <2>2. Locked'
        BY <2>1 DEF UntimedInv, Locked, Possible, Side, Kind, Inv, Typed
    <2> QED BY <2>1, <2>2, QuietUntimed
<1>2. CASE Pass(t)
    <2>1. /\ pc[t] = "pass" /\ pc' = [pc EXCEPT ![t] = "asleep"] /\ lock' = Nobody
          /\ UNCHANGED <<cur_count, wait_queue, waiting, op, timer, firing, late>>
        BY <1>2 DEF Pass, Goto, ringVars, timerVars
    <2>2. Locked'
        BY <2>1 DEF UntimedInv, Locked, Possible, Side, Kind, Inv, Typed
    <2> QED BY <2>1, <2>2, QuietUntimed
<1>3. CASE Retry(t)
    <2>1. /\ pc[t] = "asleep" /\ pc' = [pc EXCEPT ![t] = "attempt"] /\ t \notin waiting
          /\ UNCHANGED <<cur_count, lock, wait_queue, waiting, op, timer, firing, late>>
        BY <1>3 DEF Retry, Goto, ringVars, timerVars
    <2>2. Locked'
        BY <2>1 DEF UntimedInv, Locked, Possible, Side, Kind, Inv, Typed
    <2> QED BY <2>1, <2>2, QuietUntimed
<1> QED BY <1>1, <1>2, <1>3

\* An attempt that succeeds takes one chance from its side and gives one to the
\* other side, and its thread goes on to wake somebody there.
LEMMA SuccessUntimed ==
    ASSUME Inv, RingInv', UntimedInv, NEW t \in Threads, Attempt(t), Possible(Side(t))
    PROVE  UntimedInv'
<1>0. PICK a \in Sides : a = Side(t)
    BY SMTT(30) DEF Inv, Typed, Side
<1>1. /\ pc[t] = "attempt" /\ pc' = [pc EXCEPT ![t] = "wake"] /\ lock = Nobody
      /\ UNCHANGED <<lock, wait_queue, waiting, op, timer, firing, late>>
    <2>1. Kind(t) \in {"try", "plain"}
        BY SMTT(30) DEF UntimedInv, NothingTimed, Inv, Typed, Kinds, Kind
    <2>2. AfterSuccess[Kind(t)] = "wake"
        BY SMTT(30), <2>1 DEF AfterSuccess
    <2> QED BY <2>2 DEF Attempt, Goto, timerVars
<1>2. pc'[t] = "wake" /\ \A u \in Threads : u # t => pc'[u] = pc[u]
    BY <1>1 DEF Inv, Typed
<1>3. /\ \A u \in Threads : Side(u)' = Side(u) /\ Kind(u)' = Kind(u)
      /\ waiting \subseteq Threads /\ t \notin waiting
    BY <1>1 DEF Side, Kind, Inv, Typed, UntimedInv, Queued
<1>4. NothingTimed'
    BY <1>1, <1>2, <1>3 DEF UntimedInv, NothingTimed
<1>5. Locked'
    BY <1>1, <1>2, <1>3, MsgQueueAssumption DEF UntimedInv, Locked
<1>6. Queued'
    <2>1. \A u \in waiting : Side(u)' = Side(u) /\ pc'[u] \in {"pass", "asleep"}
        BY <1>1, <1>2, <1>3 DEF UntimedInv, Queued
    <2> QED BY <1>1, <2>1, QueuedKept DEF UntimedInv
<1>7. Other(a) \in Sides /\ Other(a) # a /\ Sides = {a, Other(a)}
    BY SMTT(30), <1>0 DEF Other, Sides
<1>8. /\ Avail(a)' = Avail(a) - 1 /\ Avail(Other(a))' = Avail(Other(a)) + 1
      /\ Avail(a) \in Int /\ Avail(Other(a)) \in Int
    <2>1. cur_count \in Int /\ queue_size \in Int
        BY SMTT(30), MsgQueueAssumption DEF Inv, RingInv
    <2>2. cur_count' = IF a = "push" THEN cur_count + 1 ELSE cur_count - 1
        BY <1>0 DEF Attempt, _nk_msg_queue_try_push, _nk_msg_queue_try_pull
    <2> QED BY SMTT(30), <1>0, <2>1, <2>2 DEF Avail, Sides, Other
<1>9. /\ Stir(a) \ {t} \subseteq Stir(a)'
      /\ t \notin Stir(Other(a)) /\ Stir(Other(a))' = Stir(Other(a)) \cup {t}
    <2>1. Other(Other(a)) = a
        BY SMTT(30), <1>7 DEF Other, Sides
    <2>2. Stir(a) \ {t} \subseteq Stir(a)'
        BY <1>1, <1>2, <1>3 DEF Stir
    <2>3. t \notin Stir(Other(a)) /\ t \in Stir(Other(a))'
        BY <1>0, <1>1, <1>2, <1>3, <1>7, <2>1 DEF Stir
    <2>4. ASSUME NEW u \in Threads, u # t PROVE u \in Stir(Other(a)) <=> u \in Stir(Other(a))'
        BY <1>1, <1>2, <1>3, <2>4 DEF Stir
    <2>5. Stir(Other(a)) \subseteq Threads /\ Stir(Other(a))' \subseteq Threads
        BY DEF Stir
    <2> QED BY <2>2, <2>3, <2>4, <2>5
<1>10. /\ Cardinality(Stir(a)') >= Cardinality(Stir(a)) - 1
       /\ Cardinality(Stir(Other(a))') = Cardinality(Stir(Other(a))) + 1
       /\ {Cardinality(Stir(a)'), Cardinality(Stir(a)), Cardinality(Stir(Other(a)))} \subseteq Nat
    <2>1. /\ Stir(a) \in SUBSET Threads /\ Stir(a)' \in SUBSET Threads
          /\ Stir(Other(a)) \in SUBSET Threads /\ Stir(a) \ {t} \in SUBSET Threads
        BY DEF Stir
    <2>2. /\ {Cardinality(Stir(a)'), Cardinality(Stir(a)), Cardinality(Stir(Other(a)))} \subseteq Nat
          /\ Cardinality(Stir(a) \ {t}) \in Nat
          /\ Cardinality(Stir(Other(a))') = Cardinality(Stir(Other(a))) + 1
          /\ Cardinality(Stir(a) \ {t}) <= Cardinality(Stir(a)')
        BY <1>9, <2>1, CardinalityFacts
    <2>3. \/ Cardinality(Stir(a) \ {t}) = Cardinality(Stir(a)) - 1
          \/ Stir(a) \ {t} = Stir(a)
        BY <2>1, CardinalityFacts
    <2> QED BY SMTT(30), <2>2, <2>3
<1>11. Enough'
    <2>1. ASSUME NEW s \in Sides, ~(\A u \in waiting' : Side(u)' # s)
          PROVE  Cardinality(Stir(s)') >= Avail(s)'
        <3>1. Cardinality(Stir(s)) >= Avail(s)
            BY <1>1, <1>3, <2>1 DEF UntimedInv, Enough
        <3>2. CASE s = a
            BY SMTT(30), <1>8, <1>10, <3>1, <3>2
        <3>3. CASE s = Other(a)
            BY SMTT(30), <1>8, <1>10, <3>1, <3>3
        <3> QED BY <1>7, <3>2, <3>3
    <2> QED BY <2>1 DEF Enough
<1> QED BY <1>4, <1>5, <1>6, <1>11 DEF UntimedInv

\* An attempt that fails gives up, or keeps the lock to go to sleep.
LEMMA FailureUntimed ==
    ASSUME Inv, UntimedInv, NEW t \in Threads, Attempt(t), ~Possible(Side(t))
    PROVE  UntimedInv'
<1>1. /\ pc[t] = "attempt" /\ lock = Nobody
      /\ UNCHANGED <<cur_count, wait_queue, waiting, op, timer, firing, late>>
    BY DEF Attempt, Goto, ringVars, timerVars
<1>2. CASE Kind(t) = "try"
    <2>1. pc' = [pc EXCEPT ![t] = "idle"] /\ lock' = Nobody
        <3>1. AfterFailure[Kind(t)] = "idle"
            BY SMTT(30), <1>2 DEF AfterFailure
        <3> QED BY <1>2, <3>1 DEF Attempt, Goto
    <2>2. Locked'
        BY <1>1, <2>1 DEF UntimedInv, Locked, Possible, Side, Kind, Inv, Typed
    <2> QED BY <1>1, <1>2, <2>1, <2>2, QuietUntimed
<1>3. CASE Kind(t) = "plain"
    <2>1. pc' = [pc EXCEPT ![t] = "enqueue"] /\ lock' = t
        <3>1. AfterFailure[Kind(t)] = "enqueue"
            BY SMTT(30), <1>3 DEF AfterFailure
        <3> QED BY <1>3, <3>1 DEF Attempt, Goto
    <2>2. Locked'
        <3>1. pc'[t] = "enqueue" /\ \A u \in Threads : u # t => pc'[u] = pc[u]
            BY <2>1 DEF Inv, Typed
        <3>2. \A u \in Threads : pc[u] \notin {"enqueue", "pass"}
            BY <1>1, MsgQueueAssumption DEF UntimedInv, Locked
        <3>3. \A u \in Threads : Side(u)' = Side(u) /\ Kind(u)' = Kind(u)
            BY <1>1 DEF Side, Kind
        <3>4. ~Possible(Side(t))'
            BY <1>1 DEF Possible, Side
        <3> QED BY <1>3, <2>1, <3>1, <3>2, <3>3, <3>4 DEF UntimedInv, Locked
    <2> QED BY <1>1, <1>3, <2>1, <2>2, QuietUntimed
<1>4. Kind(t) \in {"try", "plain"}
    BY SMTT(30) DEF UntimedInv, NothingTimed, Inv, Typed, Kinds, Kind
<1> QED BY <1>2, <1>3, <1>4

\* The thread goes to the end of its side's queue, and does not stir any more:
\* there is nothing for its side to do.
LEMMA EnqueueUntimed ==
    ASSUME Inv, UntimedInv, NEW t \in Threads, Enqueue(t)
    PROVE  UntimedInv'
<1>0. PICK a \in Sides : a = Side(t)
    BY SMTT(30) DEF Inv, Typed, Side
<1>1. /\ pc[t] = "enqueue" /\ pc' = [pc EXCEPT ![t] = "pass"]
      /\ waiting' = waiting \cup {t}
      /\ wait_queue' = [wait_queue EXCEPT ![a] = Append(wait_queue[a], t)]
      /\ UNCHANGED <<cur_count, lock, op, timer, firing, late>>
    BY <1>0 DEF Enqueue, Goto, ringVars, timerVars
<1>2. pc'[t] = "pass" /\ \A u \in Threads : u # t => pc'[u] = pc[u]
    BY <1>1 DEF Inv, Typed
<1>3. /\ \A u \in Threads : Side(u)' = Side(u) /\ Kind(u)' = Kind(u)
      /\ \A s \in Sides : Possible(s)' = Possible(s)
      /\ waiting \subseteq Threads /\ t \notin waiting
    BY <1>1 DEF Side, Kind, Possible, Inv, Typed, UntimedInv, Queued
<1>4. NothingTimed'
    BY <1>1, <1>2, <1>3 DEF UntimedInv, NothingTimed
<1>5. Locked'
    BY <1>1, <1>2 DEF UntimedInv, Locked, Side, Kind, Possible
<1>6. Queued'
    <2>0. PICK q \in Seq(Threads) : q = wait_queue[a]
        BY DEF Inv, Typed
    <2>1. /\ Len(q) \in Nat /\ DOMAIN q = 1 .. Len(q)
          /\ \A s \in Sides : s # a => wait_queue'[s] = wait_queue[s]
          /\ wait_queue'[a] = Append(q, t)
        BY SMTT(30), <1>1, <2>0 DEF Inv, Typed
    <2>2. /\ DOMAIN wait_queue'[a] = 1 .. Len(q) + 1 /\ wait_queue'[a][Len(q) + 1] = t
          /\ \A i \in 1 .. Len(q) : wait_queue'[a][i] = q[i]
        BY SMTT(30), <2>1
    <2>3. \A i \in 1 .. Len(q) + 1 : i = Len(q) + 1 \/ i \in 1 .. Len(q)
        BY SMTT(30), <2>1
    <2>4. op' = op /\ waiting' = waiting \cup {t}
        BY <1>1
    <2>5. ASSUME NEW u \in waiting'
          PROVE  /\ pc'[u] \in {"pass", "asleep"}
                 /\ \E i \in DOMAIN wait_queue'[Side(u)'] : wait_queue'[Side(u)'][i] = u
        <3>1. CASE u = t
            <4>1. Len(q) + 1 \in DOMAIN wait_queue'[a] /\ Side(u)' = a
                BY SMTT(30), <1>0, <1>3, <2>1, <2>2, <3>1
            <4> QED BY <1>2, <2>2, <3>1, <4>1
        <3>2. CASE u \in waiting
            <4>1. u \in Threads /\ u # t /\ pc'[u] = pc[u] /\ Side(u)' = Side(u)
                BY <1>2, <1>3, <3>2
            <4>2. PICK i \in DOMAIN wait_queue[Side(u)] : wait_queue[Side(u)][i] = u
                BY <3>2 DEF UntimedInv, Queued
            <4>3. CASE Side(u) = a
                <5>1. i \in DOMAIN wait_queue'[a] /\ wait_queue'[a][i] = u
                    BY SMTT(30), <2>0, <2>1, <2>2, <4>2, <4>3
                <5> QED BY <3>2, <4>1, <4>3, <5>1 DEF UntimedInv, Queued
            <4>4. CASE Side(u) # a
                <5>1. Side(u) \in Sides
                    BY SMTT(30), <4>1 DEF Inv, Typed, Side
                <5> QED BY <2>1, <3>2, <4>1, <4>2, <4>4, <5>1 DEF UntimedInv, Queued
            <4> QED BY <4>3, <4>4
        <3> QED BY <1>1, <2>5, <3>1, <3>2
    <2>6. ASSUME NEW s \in Sides, NEW i \in DOMAIN wait_queue'[s]
          PROVE  wait_queue'[s][i] \in waiting' /\ op'[wait_queue'[s][i]][1] = s
        <3>1. CASE s = a /\ i = Len(q) + 1
            <4>1. wait_queue'[s][i] = t
                BY <2>2, <3>1
            <4> QED BY <1>0, <2>4, <3>1, <4>1 DEF Side
        <3>2. CASE ~(s = a /\ i = Len(q) + 1)
            <4>1. i \in DOMAIN wait_queue[s] /\ wait_queue'[s][i] = wait_queue[s][i]
                <5>1. CASE s # a
                    BY <2>1, <2>6, <5>1
                <5>2. CASE s = a
                    <6>1. i \in 1 .. Len(q)
                        BY <2>2, <2>3, <2>6, <3>2, <5>2
                    <6> QED BY <2>0, <2>1, <2>2, <5>2, <6>1
                <5> QED BY <5>1, <5>2
            <4>2. wait_queue[s][i] \in waiting /\ Side(wait_queue[s][i]) = s
                BY <4>1 DEF UntimedInv, Queued
            <4> QED BY <2>4, <4>1, <4>2 DEF Side
        <3> QED BY <3>1, <3>2
    <2>7. ASSUME NEW s \in Sides, NEW i \in DOMAIN wait_queue'[s], NEW j \in DOMAIN wait_queue'[s],
                 wait_queue'[s][i] = wait_queue'[s][j]
          PROVE  i = j
        <3>1. CASE s # a
            BY <2>1, <2>7, <3>1 DEF UntimedInv, Queued
        <3>2. CASE s = a
            <4>1. \A k \in 1 .. Len(q) : q[k] # t
                <5>1. \A k \in 1 .. Len(q) : q[k] \in waiting
                    BY <2>0, <2>1, QueueMembers
                <5> QED BY <1>3, <5>1
            <4>2. \A k, l \in 1 .. Len(q) : q[k] = q[l] => k = l
                BY <2>0, <2>1, QueueMembers
            <4>3. (i = Len(q) + 1 \/ i \in 1 .. Len(q)) /\ (j = Len(q) + 1 \/ j \in 1 .. Len(q))
                BY <2>2, <2>3, <2>7, <3>2
            <4>4. wait_queue'[a][i] = wait_queue'[a][j]
                BY <2>7, <3>2
            <4>5. CASE i \in 1 .. Len(q) /\ j \in 1 .. Len(q)
                BY <2>2, <4>2, <4>4, <4>5
            <4>6. CASE i = Len(q) + 1 /\ j \in 1 .. Len(q)
                BY <2>2, <4>1, <4>4, <4>6
            <4>7. CASE i \in 1 .. Len(q) /\ j = Len(q) + 1
                BY <2>2, <4>1, <4>4, <4>7
            <4> QED BY <4>3, <4>5, <4>6, <4>7
        <3> QED BY <3>1, <3>2
    <2> QED BY <2>5, <2>6, <2>7 DEF Queued, Side
<1>7. Enough'
    <2>1. ASSUME NEW s \in Sides, ~(\A u \in waiting' : Side(u)' # s)
          PROVE  Cardinality(Stir(s)') >= Avail(s)'
        <3>1. Stir(s) \in SUBSET Threads /\ Stir(s)' \in SUBSET Threads
            BY DEF Stir
        <3>2. /\ Cardinality(Stir(s)) \in Nat /\ Cardinality(Stir(s)') \in Nat
              /\ Stir(s) \subseteq Stir(s)' => Cardinality(Stir(s)) <= Cardinality(Stir(s)')
            BY <3>1, CardinalityFacts
        <3>3. Avail(s) \in Nat /\ Avail(s)' = Avail(s)
            BY SMTT(30), <1>1, MsgQueueAssumption DEF Avail, Inv, RingInv
        <3>4. CASE s = a
            <4>1. ~Possible(a)
                BY <1>0, <1>1 DEF UntimedInv, Locked
            <4>2. Avail(s) = 0
                BY SMTT(30), <3>4, <4>1, MsgQueueAssumption DEF Avail, Possible, Inv, RingInv
            <4> QED BY SMTT(30), <3>2, <3>3, <4>2
        <3>5. CASE s # a
            <4>1. Stir(s) \subseteq Stir(s)'
                BY <1>0, <1>1, <1>2, <1>3, <3>5 DEF Stir
            <4>2. Cardinality(Stir(s)) >= Avail(s)
                BY <1>0, <1>1, <1>3, <2>1, <3>5 DEF UntimedInv, Enough
            <4> QED BY SMTT(30), <3>2, <3>3, <4>1, <4>2
        <3> QED BY <3>4, <3>5
    <2> QED BY <2>1 DEF Enough
<1> QED BY <1>4, <1>5, <1>6, <1>7 DEF UntimedInv

\* A waker takes the first thread off the other side's queue: that thread stirs
\* in its place, and if there is none nobody of that side sleeps.
LEMMA WakeUntimed ==
    ASSUME Inv, UntimedInv, NEW t \in Threads, WakeOther(t)
    PROVE  UntimedInv'
<1>1. PICK a \in Sides : a = Other(Side(t)) /\ Side(t) = Other(a) /\ a # Side(t)
    BY SMTT(30) DEF Inv, Typed, Side, Other, Sides
<1>2. PICK q \in Seq(Threads) : q = wait_queue[a]
    BY DEF Inv, Typed
<1>3. /\ pc[t] = "wake" /\ pc' = [pc EXCEPT ![t] = "idle"]
      /\ wait_queue' = [wait_queue EXCEPT ![a] = IF q = <<>> THEN q ELSE Tail(q)]
      /\ waiting' = IF q = <<>> THEN waiting ELSE waiting \ {Head(q)}
      /\ UNCHANGED <<cur_count, lock, op, timer, firing, late>>
    BY <1>1, <1>2 DEF WakeOther, Wake, Goto, ringVars, timerVars
<1>4. pc'[t] = "idle" /\ \A u \in Threads : u # t => pc'[u] = pc[u]
    BY <1>3 DEF Inv, Typed
<1>5. /\ \A u \in Threads : Side(u)' = Side(u) /\ Kind(u)' = Kind(u)
      /\ waiting \subseteq Threads /\ t \notin waiting
    BY <1>3 DEF Side, Kind, Inv, Typed, UntimedInv, Queued
<1>6. NothingTimed'
    BY <1>3, <1>4, <1>5 DEF UntimedInv, NothingTimed
<1>7. Locked'
    BY <1>3, <1>4 DEF UntimedInv, Locked, Side, Kind, Possible
<1>8. CASE q = <<>>
    <2>1. wait_queue' = wait_queue /\ waiting' = waiting
        BY <1>2, <1>3, <1>8 DEF Inv, Typed
    <2>2. \A u \in waiting : Side(u)' = Side(u) /\ pc'[u] \in {"pass", "asleep"}
        BY <1>4, <1>5 DEF UntimedInv, Queued
    <2>3. Queued'
        BY <2>1, <2>2, QueuedKept DEF UntimedInv
    <2>4. \A u \in waiting : Side(u) # a
        <3>1. DOMAIN q = {}
            BY SMTT(30), <1>8
        <3> QED BY <1>2, <3>1 DEF UntimedInv, Queued
    <2>5. ASSUME NEW s \in Sides, ~(\A u \in waiting' : Side(u)' # s)
          PROVE  Cardinality(Stir(s)') >= Avail(s)'
        <3>1. s # a /\ Cardinality(Stir(s)) >= Avail(s)
            BY <2>1, <2>2, <2>4, <2>5 DEF UntimedInv, Enough
        <3>2. Side(t) # Other(s)
            BY SMTT(30), <1>1, <3>1 DEF Other, Sides
        <3>3. Stir(s)' = Stir(s)
            BY <1>3, <1>4, <1>5, <2>1, <3>2 DEF Stir
        <3>4. Avail(s)' = Avail(s)
            BY <1>3 DEF Avail
        <3> QED BY <3>1, <3>3, <3>4
    <2>6. Enough'
        BY <2>5 DEF Enough
    <2> QED BY <1>6, <1>7, <2>3, <2>6 DEF UntimedInv
<1>9. CASE q # <<>>
    <2>1. PICK h \in Threads : h = Head(q)
        BY SMTT(30), <1>9
    <2>2. /\ Len(q) \in Nat \ {0} /\ DOMAIN q = 1 .. Len(q) /\ q[1] = h /\ 1 \in DOMAIN q
          /\ DOMAIN Tail(q) = 1 .. Len(q) - 1
          /\ \A i \in 1 .. Len(q) - 1 : Tail(q)[i] = q[i + 1]
        BY SMTT(30), <1>9, <2>1
    <2>3. /\ op' = op /\ waiting' = waiting \ {h} /\ wait_queue'[a] = Tail(q)
          /\ \A s \in Sides : s # a => wait_queue'[s] = wait_queue[s]
        BY <1>3, <1>9, <2>1 DEF Inv, Typed
    <2>4. h \in waiting /\ Side(h) = a /\ h # t /\ pc[h] \in {"pass", "asleep"} /\ Kind(h) = "plain"
        <3>1. h \in waiting /\ Side(h) = a
            BY <1>2, <2>2 DEF UntimedInv, Queued
        <3> QED BY <1>3, <3>1 DEF UntimedInv, Queued, Locked
    <2>5. ASSUME NEW u \in waiting'
          PROVE  /\ pc'[u] \in {"pass", "asleep"}
                 /\ \E i \in DOMAIN wait_queue'[Side(u)'] : wait_queue'[Side(u)'][i] = u
        <3>1. u \in waiting /\ u # h /\ u \in Threads /\ Side(u)' = Side(u) /\ pc'[u] = pc[u]
            BY <1>4, <1>5, <2>3, <2>5
        <3>2. PICK i \in DOMAIN wait_queue[Side(u)] : wait_queue[Side(u)][i] = u
            BY <3>1 DEF UntimedInv, Queued
        <3>3. CASE Side(u) = a
            <4>1. i \in 1 .. Len(q) /\ q[i] = u
                BY <1>2, <2>2, <3>2, <3>3
            <4>2. i - 1 \in 1 .. Len(q) - 1 /\ Tail(q)[i - 1] = u
                BY SMTT(30), <2>2, <3>1, <4>1
            <4>3. i - 1 \in DOMAIN wait_queue'[a] /\ wait_queue'[a][i - 1] = u
                BY <2>2, <2>3, <4>2
            <4>4. pc[u] \in {"pass", "asleep"}
                BY <3>1 DEF UntimedInv, Queued
            <4> QED BY <3>1, <3>3, <4>3, <4>4
        <3>4. CASE Side(u) # a
            <4>1. Side(u) \in Sides
                BY SMTT(30), <3>1 DEF Inv, Typed, Side
            <4>2. wait_queue'[Side(u)] = wait_queue[Side(u)]
                BY <2>3, <3>4, <4>1
            <4>3. pc[u] \in {"pass", "asleep"}
                BY <3>1 DEF UntimedInv, Queued
            <4> QED BY <3>1, <3>2, <4>2, <4>3
        <3> QED BY <3>3, <3>4
    <2>6. ASSUME NEW s \in Sides, NEW i \in DOMAIN wait_queue'[s]
          PROVE  \E j \in DOMAIN wait_queue[s] :
                    /\ j = (IF s = a THEN i + 1 ELSE i)
                    /\ wait_queue'[s][i] = wait_queue[s][j] /\ wait_queue[s][j] # h
        <3>1. CASE s = a
            <4>1. i + 1 \in 1 .. Len(q) /\ wait_queue'[a][i] = q[i + 1] /\ i + 1 # 1
                BY SMTT(30), <2>2, <2>3, <2>6, <3>1
            <4>2. q[i + 1] # h
                BY <1>2, <2>2, <4>1 DEF UntimedInv, Queued
            <4> QED BY <1>2, <2>2, <3>1, <4>1, <4>2
        <3>2. CASE s # a
            <4>1. Side(wait_queue[s][i]) = s
                BY <2>3, <2>6, <3>2 DEF UntimedInv, Queued
            <4> QED BY <2>3, <2>4, <2>6, <3>2, <4>1
        <3> QED BY <3>1, <3>2
    <2>7. ASSUME NEW s \in Sides, NEW i \in DOMAIN wait_queue'[s]
          PROVE  wait_queue'[s][i] \in waiting' /\ op'[wait_queue'[s][i]][1] = s
        <3>1. PICK j \in DOMAIN wait_queue[s] :
                  wait_queue'[s][i] = wait_queue[s][j] /\ wait_queue[s][j] # h
            BY <2>6, <2>7
        <3>2. wait_queue[s][j] \in waiting /\ Side(wait_queue[s][j]) = s
            BY <3>1 DEF UntimedInv, Queued
        <3> QED BY <2>3, <3>1, <3>2 DEF Side
    <2>8. ASSUME NEW s \in Sides, NEW i \in DOMAIN wait_queue'[s], NEW j \in DOMAIN wait_queue'[s],
                 wait_queue'[s][i] = wait_queue'[s][j]
          PROVE  i = j
        <3>1. CASE s = a
            <4>1. /\ i + 1 \in DOMAIN wait_queue[s] /\ wait_queue'[s][i] = wait_queue[s][i + 1]
                  /\ j + 1 \in DOMAIN wait_queue[s] /\ wait_queue'[s][j] = wait_queue[s][j + 1]
                BY <2>6, <2>8, <3>1
            <4>2. i + 1 = j + 1
                <5>1. \A k, l \in DOMAIN wait_queue[s] :
                          wait_queue[s][k] = wait_queue[s][l] => k = l
                    BY DEF UntimedInv, Queued
                <5> QED BY <2>8, <4>1, <5>1
            <4>3. i \in 1 .. Len(q) - 1 /\ j \in 1 .. Len(q) - 1
                BY <2>2, <2>3, <2>8, <3>1
            <4> QED BY SMTT(30), <2>2, <4>2, <4>3
        <3>2. CASE s # a
            BY <2>3, <2>8, <3>2 DEF UntimedInv, Queued
        <3> QED BY <3>1, <3>2
    <2>9. Queued'
        BY <2>5, <2>7, <2>8 DEF Queued, Side
    <2>10. ASSUME NEW s \in Sides, ~(\A u \in waiting' : Side(u)' # s)
           PROVE  Cardinality(Stir(s)') >= Avail(s)'
        <3>1. Cardinality(Stir(s)) >= Avail(s) /\ Avail(s)' = Avail(s)
            BY <1>3, <1>5, <2>3, <2>10 DEF UntimedInv, Enough, Avail
        <3>2. CASE s = a
            <4>1. /\ t \in Stir(a) /\ h \notin Stir(a) /\ Stir(a) \in SUBSET Threads
                  /\ Stir(a)' = (Stir(a) \ {t}) \cup {h}
                <5>1. t \in Stir(a) /\ h \notin Stir(a) /\ t \notin Stir(a)' /\ h \in Stir(a)'
                    BY <1>1, <1>3, <1>4, <1>5, <2>3, <2>4 DEF Stir
                <5>2. ASSUME NEW u \in Threads, u # t, u # h
                      PROVE  u \in Stir(a) <=> u \in Stir(a)'
                    BY <1>4, <1>5, <2>3, <5>2 DEF Stir
                <5>3. Stir(a) \subseteq Threads /\ Stir(a)' \subseteq Threads
                    BY DEF Stir
                <5> QED BY <5>1, <5>2, <5>3
            <4>2. Stir(a) \ {t} \in SUBSET Threads /\ h \notin Stir(a) \ {t}
                BY <4>1
            <4>3. /\ Cardinality(Stir(a)') = Cardinality(Stir(a) \ {t}) + 1
                  /\ Cardinality(Stir(a) \ {t}) = Cardinality(Stir(a)) - 1
                  /\ Cardinality(Stir(a)) \in Nat
                BY <4>1, <4>2, CardinalityFacts
            <4>4. Cardinality(Stir(a)') = Cardinality(Stir(a))
                BY SMTT(30), <4>3
            <4> QED BY <3>1, <3>2, <4>4
        <3>3. CASE s # a
            <4>1. Side(t) # Other(s)
                BY SMTT(30), <1>1, <3>3 DEF Other, Sides
            <4>2. Stir(s)' = Stir(s)
                BY <1>3, <1>4, <1>5, <2>3, <2>4, <3>3, <4>1 DEF Stir
            <4> QED BY <3>1, <4>2
        <3> QED BY <3>2, <3>3
    <2>11. Enough'
        BY <2>10 DEF Enough
    <2> QED BY <1>6, <1>7, <2>9, <2>11 DEF UntimedInv
<1> QED BY <1>8, <1>9

LEMMA InvStep == ASSUME Inv, [Next]_vars PROVE Inv'
<1>1. CASE UNCHANGED vars
    <2>1. RingInv'
        BY <1>1, StepRing DEF Inv
    <2>2. Typed'
        BY <1>1 DEF vars, Inv, Typed
    <2>3. Untimed' => Untimed
        BY <1>1 DEF vars, Untimed
    <2>4. ASSUME UntimedInv PROVE UntimedInv'
        <3>1. NothingTimed' /\ Locked'
            BY <1>1, <2>4 DEF vars, UntimedInv, NothingTimed, Locked, Possible, Side, Kind
        <3>2. Queued'
            BY <1>1, <2>4, QueuedKept DEF vars, UntimedInv, Queued, Side
        <3>3. Enough'
            <4>1. \A s \in Sides : Stir(s)' = Stir(s) /\ Avail(s)' = Avail(s)
                BY <1>1 DEF vars, Stir, Avail, Side, Kind
            <4> QED BY <1>1, <2>4, <4>1 DEF vars, UntimedInv, Enough, Side
        <3> QED BY <3>1, <3>2, <3>3 DEF UntimedInv
    <2> QED BY <2>1, <2>2, <2>3, <2>4 DEF Inv
<1>2. CASE Next
    <2>1. RingInv' /\ Typed'
        BY <1>2, StepRing, TypedStep DEF Inv
    <2>2. PICK t \in Threads : Call(t) \/ Step(t) \/ Timer(t)
        BY <1>2 DEF Next
    <2>3. ASSUME Untimed' PROVE UntimedInv'
        <3>1. Untimed /\ UntimedInv
            <4>1. ops' = ops
                BY <2>2 DEF Call, Step, Timer
            <4> QED BY <2>3, <4>1 DEF Untimed, Inv
        <3>2. ~Timer(t)
            <4>1. timer[t] = "INACTIVE" /\ firing = {}
                BY <3>1 DEF UntimedInv, NothingTimed
            <4> QED BY <4>1 DEF Timer, TimerSignal, TimerWake
        <3>3. ~(TimedOut(t) \/ TimedArm(t) \/ TimedSleep(t) \/ TimedRemove(t) \/ TimedCancel(t))
            <4>1. late = {} /\ pc[t] \notin {"arm", "sleep", "timed", "cancel"}
                BY <3>1 DEF UntimedInv, NothingTimed
            <4> QED BY <4>1 DEF TimedOut, TimedArm, TimedSleep, SleepMultiple, TimedRemove,
                                TimedCancel, Goto
        <3>4. CASE Call(t)
            BY <3>1, <3>4, CallUntimed
        <3>5. CASE Attempt(t)
            BY <2>1, <3>1, <3>5, SuccessUntimed, FailureUntimed
        <3>6. CASE WakeOther(t)
            BY <3>1, <3>6, WakeUntimed
        <3>7. CASE Enqueue(t)
            BY <3>1, <3>7, EnqueueUntimed
        <3>8. CASE TryLockFails(t) \/ Pass(t) \/ Retry(t)
            BY <3>1, <3>8, QuietSteps
        <3> QED BY <2>2, <3>2, <3>3, <3>4, <3>5, <3>6, <3>7, <3>8 DEF Step
    <2> QED BY <2>1, <2>3 DEF Inv
<1> QED BY <1>1, <1>2

\* "we may need to wake up someone trying to push" (or pull): if the timed forms
\* are not used, a thread sleeps in push or pull while its side could proceed
\* only if another one is awake to proceed or about to wake it, for any number
\* of threads, any mix of plain and try operations and any size of the ring.
THEOREM NobodyIsForgotten == Spec => []NobodyForgotten
<1>1. Init => Inv
    BY InitRing, InitTyped DEF Inv
<1>2. Inv /\ [Next]_vars => Inv'
    BY InvStep
<1>3. Inv => NobodyForgotten
    <2> SUFFICES ASSUME Inv PROVE NobodyForgotten
        OBVIOUS
    <2>1. TypeOK
        <3>1. cur_push \in Nat
            BY SMTT(30), MsgQueueAssumption DEF Inv, RingInv
        <3> QED BY <3>1 DEF Inv, RingInv, Typed, TypeOK, Slots, Values
    <2>2. ASSUME Untimed, NEW t \in Threads, pc[t] = "asleep", t \in waiting, Possible(Side(t))
          PROVE  Stirring(Side(t))
        <3>1. PICK s \in Sides : s = Side(t)
            BY SMTT(30) DEF Inv, Typed, Side
        <3>2. Avail(s) \in Int /\ Avail(s) > 0
            BY SMTT(30), <2>2, <3>1, MsgQueueAssumption DEF Inv, RingInv, Avail, Possible
        <3>3. Cardinality(Stir(s)) >= Avail(s)
            BY <2>2, <3>1 DEF Inv, UntimedInv, Enough
        <3>4. Stir(s) \in SUBSET Threads
            BY DEF Stir
        <3>5. Cardinality(Stir(s)) \in Nat /\ (Cardinality(Stir(s)) = 0 <=> Stir(s) = {})
            BY <3>4, CardinalityFacts
        <3>6. Stir(s) # {}
            BY SMTT(30), <3>2, <3>3, <3>5
        <3> QED BY <3>1, <3>6 DEF Stir, Stirring
    <2> QED BY <2>1, <2>2 DEF NobodyForgotten
<1> QED BY <1>1, <1>2, <1>3, PTL DEF Spec
=============================================================================
