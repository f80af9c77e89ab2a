----------------------------- MODULE TimerProofs -----------------------------
(***************************************************************************)
(* The theorems about timers, for any sets of threads and timers, any      *)
(* duration and any number of sleeps.  The argument: a timer is on the     *)
(* active list exactly while it is ACTIVE, and leaves it in the step that  *)
(* signals it, so that the handler's list holds none of them.  That a      *)
(* thread starts its timer only off that list is what the code does not    *)
(* see to, and the one thing that ends the argument.                       *)
(***************************************************************************)
EXTENDS Timer, TLAPS

\* The types, those of the threads included.
Types ==
    /\ TypeOK
    /\ pc \in [Sleepers -> {"idle", "start", "wait", "check", "sleep", "asleep", "done"}]

\* The active list holds the active timers and the handler's list others; a
\* thread that does not wait for its timer does not have it running.
InOneList ==
    /\ \A m \in Timers : m \in active_timer_list <=> state[m] = "ACTIVE"
    /\ active_timer_list \cap expired_list = {}
    /\ \A t \in Sleepers : pc[t] \in {"idle", "start", "done"} => state[t] # "ACTIVE"

\* So it is until a timer is started that the handler has yet to unlink.
Linked == relinked = {} => InOneList

\* What a signalled timer and a finished sleep say about the time.
Signals ==
    /\ \A t \in Sleepers : state[t] = "SIGNALLED" => Expired(t) \/ t \in cancelled
    /\ NeverEarly

USE ZenonT(30)

LEMMA InitHolds ==
    ASSUME Init
    PROVE  Types /\ Linked /\ Signals
<1> USE TimerAssumption DEF Init, Timers
<1>1. Types
    BY SMTT(30) DEF Types, TypeOK
<1>2. Linked
    BY DEF Linked, InOneList
<1>3. Signals
    BY DEF Signals, NeverEarly
<1> QED
    BY <1>1, <1>2, <1>3

\* No step breaks the types.
LEMMA TypesStep ==
    ASSUME Types, [Next]_vars
    PROVE  Types'
<1> USE TimerAssumption DEF Types, TypeOK, Goto, listVars, waitVars, callVars, vars, Timers
<1>1. CASE Tick
    BY SMTT(30), <1>1 DEF Tick
<1>2. ASSUME NEW t \in Sleepers, nk_timer_set(t) PROVE Types'
    BY SMTT(30), <1>2 DEF nk_timer_set
<1>3. ASSUME NEW t \in Sleepers, nk_timer_start(t) PROVE Types'
    BY SMTT(30), <1>3 DEF nk_timer_start, Started
<1>4. ASSUME NEW t \in Sleepers, WaitEnter(t) \/ WaitCheck(t) \/ WaitAwake(t) \/ SleepReturn(t)
      PROVE  Types'
    BY SMTT(30), <1>4 DEF WaitEnter, WaitCheck, WaitAwake, SleepReturn
<1>5. ASSUME NEW t \in Sleepers, WaitSleep(t) PROVE Types'
    BY SMTT(30), <1>5 DEF WaitSleep, Sleep
<1>6. ASSUME NEW c \in Cancellers, nk_timer_cancel(c) PROVE Types'
    BY SMTT(30), <1>6 DEF nk_timer_cancel, CancelTimer, CancelWake, WakeAll
<1>7. CASE Scan
    BY SMTT(30), <1>7 DEF Scan, MoveExpired
<1>8. CASE HandleWait
    BY SMTT(30), <1>8 DEF HandleWait, Unlink, WakeAll
<1>9. CASE HandleCallback
    BY SMTT(30), <1>9 DEF HandleCallback
<1>10. CASE HandlerReturn
    BY SMTT(30), <1>10 DEF HandlerReturn
<1>11. CASE UNCHANGED vars
    BY <1>11
<1> QED
    BY <1>1, <1>2, <1>3, <1>4, <1>5, <1>6, <1>7, <1>8, <1>9, <1>10, <1>11
       DEF Next, nk_timer_handler, _sleep

\* The lists stay in step with the timers' states as long as no timer is started
\* that the handler has yet to unlink.
LEMMA LinkedStep ==
    ASSUME Types, Linked, [Next]_vars
    PROVE  Linked'
<1> SUFFICES ASSUME relinked' = {} PROVE InOneList'
    BY DEF Linked
<1>0. relinked = {} /\ InOneList
    <2>1. relinked \subseteq relinked'
        BY DEF Next, nk_timer_handler, _sleep, nk_timer_cancel, Tick, nk_timer_set, nk_timer_start,
           Started, WaitEnter, WaitCheck, WaitSleep, Sleep, WaitAwake, SleepReturn, CancelTimer,
           CancelWake, Scan, MoveExpired, HandleWait, Unlink, HandleCallback, HandlerReturn,
           listVars, vars
    <2> QED BY <2>1 DEF Linked
<1> USE <1>0, TimerAssumption DEF Types, TypeOK, InOneList, Goto, listVars, waitVars, callVars, vars, Timers
<1>1. CASE Tick
    BY SMTT(30), <1>1 DEF Tick
<1>2. ASSUME NEW t \in Sleepers, nk_timer_set(t) PROVE InOneList'
    BY SMTT(30), <1>2 DEF nk_timer_set
<1>3. ASSUME NEW t \in Sleepers, nk_timer_start(t) PROVE InOneList'
    BY SMTT(30), <1>3 DEF nk_timer_start, Started
<1>4. ASSUME NEW t \in Sleepers, WaitEnter(t) \/ WaitCheck(t) \/ WaitAwake(t) \/ SleepReturn(t)
      PROVE  InOneList'
    BY SMTT(30), <1>4 DEF WaitEnter, WaitCheck, WaitAwake, SleepReturn
<1>5. ASSUME NEW t \in Sleepers, WaitSleep(t) PROVE InOneList'
    BY SMTT(30), <1>5 DEF WaitSleep, Sleep
<1>6. ASSUME NEW c \in Cancellers, nk_timer_cancel(c) PROVE InOneList'
    BY SMTT(30), <1>6 DEF nk_timer_cancel, CancelTimer, CancelWake
<1>7. CASE Scan
    BY SMTT(30), <1>7 DEF Scan, MoveExpired
<1>8. CASE HandleWait
    BY SMTT(30), <1>8 DEF HandleWait, Unlink
<1>9. CASE HandleCallback
    BY SMTT(30), <1>9 DEF HandleCallback
<1>10. CASE HandlerReturn
    BY SMTT(30), <1>10 DEF HandlerReturn
<1>11. CASE UNCHANGED vars
    BY <1>11
<1> QED
    BY <1>1, <1>2, <1>3, <1>4, <1>5, <1>6, <1>7, <1>8, <1>9, <1>10, <1>11
       DEF Next, nk_timer_handler, _sleep

\* Whatever the threads do, a timer is only signalled when it is due or cancelled.
LEMMA SignalsStep ==
    ASSUME Types, Signals, [Next]_vars
    PROVE  Signals'
<1> USE TimerAssumption DEF Types, TypeOK, Signals, NeverEarly, Expired, Goto, listVars, waitVars,
                            callVars, vars, Timers
<1>1. CASE Tick
    BY SMTT(30), <1>1 DEF Tick
<1>2. ASSUME NEW t \in Sleepers, nk_timer_set(t) PROVE Signals'
    BY SMTT(30), <1>2 DEF nk_timer_set
<1>3. ASSUME NEW t \in Sleepers, nk_timer_start(t) PROVE Signals'
    BY SMTT(30), <1>3 DEF nk_timer_start, Started
<1>4. ASSUME NEW t \in Sleepers, WaitEnter(t) \/ WaitCheck(t) \/ WaitAwake(t) \/ SleepReturn(t)
      PROVE  Signals'
    BY SMTT(30), <1>4 DEF WaitEnter, WaitCheck, WaitAwake, SleepReturn
<1>5. ASSUME NEW t \in Sleepers, WaitSleep(t) PROVE Signals'
    BY SMTT(30), <1>5 DEF WaitSleep, Sleep
<1>6. ASSUME NEW c \in Cancellers, nk_timer_cancel(c) PROVE Signals'
    BY SMTT(30), <1>6 DEF nk_timer_cancel, CancelTimer, CancelWake
<1>7. CASE Scan
    BY SMTT(30), <1>7 DEF Scan, MoveExpired
<1>8. CASE HandleWait
    BY SMTT(30), <1>8 DEF HandleWait, Unlink
<1>9. CASE HandleCallback
    BY SMTT(30), <1>9 DEF HandleCallback
<1>10. CASE HandlerReturn
    BY SMTT(30), <1>10 DEF HandlerReturn
<1>11. CASE UNCHANGED vars
    BY <1>11
<1> QED
    BY <1>1, <1>2, <1>3, <1>4, <1>5, <1>6, <1>7, <1>8, <1>9, <1>10, <1>11
       DEF Next, nk_timer_handler, _sleep

\* A timer's only list node is never on the active list and the handler's list at
\* once, and an active timer is on the active list, however often threads sleep,
\* callbacks restart their timers and timers are cancelled, until a thread starts a
\* timer again (nk_timer_start) that has gone off and that nk_timer_handler has
\* yet to unlink from its own list.
THEOREM OneListAtATime == Spec => []ListedOnce
<1>1. Init => Types /\ Linked
    BY InitHolds
<1>2. Types /\ Linked /\ [Next]_vars => (Types /\ Linked)'
    BY TypesStep, LinkedStep
<1>3. Types /\ Linked => ListedOnce
    BY DEF Types, Linked, InOneList, ListedOnce
<1> QED
    BY <1>1, <1>2, <1>3, PTL DEF Spec

\* nk_sleep and nk_delay never return before their time unless the timer was
\* cancelled, however often the threads sleep and whatever becomes of the lists.
THEOREM SleepIsNeverShort == Spec => []NeverEarly
<1>1. Init => Types /\ Signals
    BY InitHolds
<1>2. Types /\ Signals /\ [Next]_vars => (Types /\ Signals)'
    BY TypesStep, SignalsStep
<1>3. Signals => NeverEarly
    BY DEF Signals
<1> QED
    BY <1>1, <1>2, <1>3, PTL DEF Spec
=============================================================================
