-------------------------------- MODULE Timer --------------------------------
(***************************************************************************)
(* Timers (src/nautilus/timer.c): threads that nk_sleep or nk_delay on     *)
(* their own timer, callback timers that start themselves again,           *)
(* cancellation, and nk_timer_handler, the interrupt handler on CPU 0.     *)
(*                                                                         *)
(* The handler moves the expired timers to a list of its own under         *)
(* active_lock and then works through that list without the lock.          *)
(***************************************************************************)
EXTENDS Integers, FiniteSets

CONSTANTS Sleepers,     \* threads, each standing for its default timer too
          CallbackTimers,
          Cancellers,   \* threads that cancel another thread's timer, once
          MaxSleeps,    \* how often a thread sleeps
          Duration,     \* the time asked for
          MaxTime       \* the clock stops here

ASSUME TimerAssumption ==
    /\ IsFiniteSet(Sleepers) /\ IsFiniteSet(CallbackTimers)
    /\ Sleepers \cap CallbackTimers = {} /\ Sleepers \cap Cancellers = {}
    /\ MaxSleeps \in Nat /\ Duration \in Nat /\ MaxTime \in Nat

Timers == Sleepers \cup CallbackTimers

VARIABLES now, state, flags, time_ns,
          active_timer_list,  \* the timers linked into the active list
          expired_list,       \* the timers linked into the handler's list
          handler,            \* where the handler is
          waiting, waitq,     \* sleeping threads, and those on their timer's queue
          pc, sleeps,
          cancelling,         \* the timer a canceller has yet to wake up
          cancelled,          \* history: timers cancelled while active
          relinked            \* history: timers started while on the handler's list

listVars == <<active_timer_list, expired_list, relinked>>
waitVars == <<waiting, waitq>>
callVars == <<sleeps, cancelling, cancelled>>
vars == <<now, state, flags, time_ns, active_timer_list, expired_list, handler, waiting, waitq, pc,
          sleeps, cancelling, cancelled, relinked>>

None == "none"
Done == "done"

Init ==
    /\ now = 0
    /\ state = [m \in Timers |-> IF m \in CallbackTimers THEN "ACTIVE" ELSE "INACTIVE"]
    /\ flags = [t \in Sleepers |-> "WAIT_ALL"]
    /\ time_ns = [m \in Timers |-> IF m \in CallbackTimers THEN Duration ELSE 0]
    /\ active_timer_list = CallbackTimers /\ expired_list = {}
    /\ handler = "off"
    /\ waiting = {} /\ waitq = {}
    /\ pc = [t \in Sleepers |-> "idle"]
    /\ sleeps = [t \in Sleepers |-> 0]
    /\ cancelling = [c \in Cancellers |-> None]
    /\ cancelled = {} /\ relinked = {}

Tick ==
    /\ now < MaxTime
    /\ now' = now + 1
    /\ UNCHANGED <<state, flags, time_ns, listVars, handler, waitVars, pc, callVars>>

Goto(t, from, to) == pc[t] = from /\ pc' = [pc EXCEPT ![t] = to]

-----------------------------------------------------------------------------
(* nk_sleep and nk_delay: set, start, wait *)

nk_timer_set(t) ==
    /\ sleeps[t] < MaxSleeps /\ now + Duration <= MaxTime
    /\ Goto(t, "idle", "start")
    /\ sleeps' = [sleeps EXCEPT ![t] = @ + 1]
    /\ state' = [state EXCEPT ![t] = "INACTIVE"]
    /\ \E mode \in {"WAIT_ALL", "SPIN"} : flags' = [flags EXCEPT ![t] = mode]
    /\ time_ns' = [time_ns EXCEPT ![t] = now + Duration]
    /\ cancelled' = cancelled \ {t}
    /\ UNCHANGED <<now, listVars, handler, waitVars, cancelling>>

\* nk_timer_start, under active_lock; starting an active timer changes nothing.
\* A node that the handler has yet to unlink would be linked a second time: what
\* the two lists hold is right up to there.
Started(m) ==
    /\ state' = [state EXCEPT ![m] = "ACTIVE"]
    /\ IF state[m] = "ACTIVE"
       THEN UNCHANGED <<active_timer_list, relinked>>
       ELSE /\ active_timer_list' = active_timer_list \cup {m}
            /\ relinked' = relinked \cup ({m} \cap expired_list)

nk_timer_start(t) ==
    /\ Goto(t, "start", "wait")
    /\ Started(t)
    /\ UNCHANGED <<now, flags, time_ns, expired_list, handler, waitVars, callVars>>

\* nk_timer_wait refuses an inactive timer.
WaitEnter(t) ==
    /\ Goto(t, "wait", IF state[t] = "INACTIVE" THEN "idle" ELSE "check")
    /\ UNCHANGED <<now, flags, state, time_ns, listVars, handler, waitVars, callVars>>

\* while (!check(t)): a signalled timer ends the wait, a spinning one looks again.
WaitCheck(t) ==
    /\ Goto(t, "check", IF state[t] = "SIGNALLED" THEN "done"
                        ELSE IF flags[t] = "SPIN" THEN "check" ELSE "sleep")
    /\ UNCHANGED <<now, flags, state, time_ns, listVars, handler, waitVars, callVars>>

Sleep(t, ready) ==
    /\ IF ready
       THEN Goto(t, "sleep", "check") /\ UNCHANGED waitVars
       ELSE /\ Goto(t, "sleep", "asleep")
            /\ waiting' = waiting \cup {t} /\ waitq' = waitq \cup {t}
    /\ UNCHANGED <<now, flags, state, time_ns, listVars, handler, callVars>>

\* Mutant: the state is not checked again under the wait queue's lock.
WaitSleep_NoCheck(t) == Sleep(t, FALSE)

\* nk_wait_queue_sleep_extended(t->waitq, check, t)
WaitSleep(t) == Sleep(t, state[t] = "SIGNALLED")

WaitAwake(t) ==
    /\ t \notin waiting
    /\ Goto(t, "asleep", "check")
    /\ UNCHANGED <<now, flags, state, time_ns, listVars, handler, waitVars, callVars>>

SleepReturn(t) ==
    /\ Goto(t, "done", "idle")
    /\ UNCHANGED <<now, flags, state, time_ns, listVars, handler, waitVars, callVars>>

_sleep(t) ==
    \/ nk_timer_set(t) \/ nk_timer_start(t)
    \/ WaitEnter(t) \/ WaitCheck(t) \/ WaitSleep(t) \/ WaitAwake(t) \/ SleepReturn(t)

-----------------------------------------------------------------------------
(* nk_timer_cancel *)

\* nk_wait_queue_wake_all(t->waitq)
WakeAll(m) ==
    /\ waiting' = IF m \in waitq THEN waiting \ {m} ELSE waiting
    /\ waitq' = waitq \ {m}

\* Under active_lock: an active timer is unlinked and signalled, any other
\* timer is made inactive.
CancelTimer(c) ==
    /\ cancelling[c] = None
    /\ \E m \in Sleepers :
        /\ sleeps[m] > 0
        /\ state' = [state EXCEPT ![m] = IF @ = "ACTIVE" THEN "SIGNALLED" ELSE "INACTIVE"]
        /\ IF state[m] = "ACTIVE"
           THEN /\ active_timer_list' = active_timer_list \ {m}
                /\ cancelling' = [cancelling EXCEPT ![c] = m]
                /\ cancelled' = cancelled \cup {m}
           ELSE /\ cancelling' = [cancelling EXCEPT ![c] = Done]
                /\ UNCHANGED <<active_timer_list, cancelled>>
    /\ UNCHANGED <<now, flags, time_ns, expired_list, relinked, handler, waitVars, pc, sleeps>>

\* After the lock: the waiters are woken.
CancelWake(c) ==
    /\ cancelling[c] \notin {None, Done}
    /\ WakeAll(cancelling[c])
    /\ cancelling' = [cancelling EXCEPT ![c] = Done]
    /\ UNCHANGED <<now, flags, state, time_ns, listVars, handler, pc, sleeps, cancelled>>

nk_timer_cancel(c) == CancelTimer(c) \/ CancelWake(c)

-----------------------------------------------------------------------------
(* nk_timer_handler *)

Expired(m) == now >= time_ns[m]

MoveExpired(E) ==
    /\ handler = "off" /\ handler' = "handle"
    /\ state' = [m \in Timers |-> IF m \in E THEN "SIGNALLED" ELSE state[m]]
    /\ active_timer_list' = active_timer_list \ E
    /\ expired_list' = expired_list \cup E
    /\ UNCHANGED <<now, flags, time_ns, relinked, waitVars, pc, callVars>>

\* With active_lock held: expired timers are signalled and moved.
Scan == LET E == {m \in active_timer_list : Expired(m)} IN MoveExpired(E)

\* list_del_init takes the node out of whatever list it is linked into.
Unlink(m) ==
    /\ expired_list' = expired_list \ {m}
    /\ active_timer_list' = active_timer_list \ {m}
    /\ UNCHANGED relinked

\* Without the lock: an expired timer of a thread wakes it.  Nobody is on the
\* wait queue of a timer that is waited for by spinning.
HandleWait ==
    \E m \in expired_list \cap Sleepers :
        /\ handler = "handle"
        /\ Unlink(m)
        /\ WakeAll(m)
        /\ UNCHANGED <<now, flags, state, time_ns, handler, pc, callVars>>

\* Mutant: the callback restarts the timer before it is unlinked.
HandleCallback_Late ==
    \E m \in expired_list \cap CallbackTimers :
        /\ handler = "handle"
        /\ Unlink(m)
        /\ state' = [state EXCEPT ![m] = "ACTIVE"]
        /\ time_ns' = [time_ns EXCEPT ![m] = now + Duration]
        /\ UNCHANGED <<now, flags, handler, waitVars, pc, callVars>>

\* A callback timer is unlinked and its callback run, which resets the timer
\* and starts it again as the virtual console's does.
HandleCallback ==
    \E m \in expired_list \cap CallbackTimers :
        /\ handler = "handle"
        /\ expired_list' = expired_list \ {m}
        /\ active_timer_list' = active_timer_list \cup {m}
        /\ state' = [state EXCEPT ![m] = "ACTIVE"]
        /\ time_ns' = [time_ns EXCEPT ![m] = now + Duration]
        /\ UNCHANGED <<now, flags, relinked, handler, waitVars, pc, callVars>>

HandlerReturn ==
    /\ handler = "handle" /\ expired_list = {}
    /\ handler' = "off"
    /\ UNCHANGED <<now, flags, state, time_ns, listVars, waitVars, pc, callVars>>

nk_timer_handler == Scan \/ HandleWait \/ HandleCallback \/ HandlerReturn

-----------------------------------------------------------------------------

Next ==
    \/ Tick \/ nk_timer_handler
    \/ \E t \in Sleepers : _sleep(t)
    \/ \E c \in Cancellers : nk_timer_cancel(c)

Spec == Init /\ [][Next]_vars

\* Time passes, the timer interrupt keeps coming and its handler works through
\* its list, and threads keep running.
Fairness ==
    /\ WF_vars(Tick) /\ WF_vars(Scan) /\ WF_vars(HandlerReturn)
    /\ WF_vars(HandleWait) /\ WF_vars(HandleCallback)
    /\ \A t \in Sleepers : WF_vars(_sleep(t))
    /\ \A c \in Cancellers : WF_vars(CancelWake(c))

FairSpec == Spec /\ Fairness

-----------------------------------------------------------------------------
(* Properties *)

\* The types of the timers and the threads; the handler leaves no timer behind.
TypeOK ==
    /\ now \in 0..MaxTime
    /\ state \in [Timers -> {"INACTIVE", "ACTIVE", "SIGNALLED"}]
    /\ flags \in [Sleepers -> {"WAIT_ALL", "SPIN"}] /\ time_ns \in [Timers -> Nat]
    /\ active_timer_list \subseteq Timers /\ expired_list \subseteq Timers
    /\ handler \in {"off", "handle"} /\ (handler = "off" => expired_list = {})
    /\ waiting \subseteq waitq /\ waitq \subseteq Sleepers
    /\ sleeps \in [Sleepers -> 0..MaxSleeps] /\ relinked \subseteq Sleepers

\* "handle expired timers without holding the lock so that callbacks/etc can
\* restart the timer": a timer's only list node is never linked into the active
\* list and the handler's list at once, and an active timer is on the active list,
\* or it would never go off; not scan, callback, cancellation nor sleep can bring
\* that about, only a thread that starts a timer which has gone off and which the
\* handler has yet to unlink.  (All state has its type.)
ListedOnce ==
    /\ TypeOK
    /\ relinked = {} =>
           /\ active_timer_list \cap expired_list = {}
           /\ \A m \in Timers : state[m] = "ACTIVE" => m \in active_timer_list

\* nk_sleep and nk_delay do not return before their time unless the timer was
\* cancelled while it was active.
NeverEarly == \A t \in Sleepers : pc[t] = "done" => Expired(t) \/ t \in cancelled

\* "block on a timer for the time given": nk_sleep and nk_delay do not return
\* early, and they do return, each time a thread calls them, unless the timer is
\* cancelled after it has gone off, which takes the signal back, or a timer has
\* been started that the handler had yet to unlink.
SleepReturns ==
    /\ []NeverEarly
    /\ \A t \in Sleepers : (pc[t] = "wait") ~>
           (pc[t] = "idle" \/ state[t] = "INACTIVE" \/ relinked # {})
=============================================================================
