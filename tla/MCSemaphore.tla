----------------------------- MODULE MCSemaphore -----------------------------
(* Semaphore for TLC: which thread uses which operations. *)
EXTENDS Semaphore, TLC

CONSTANTS a, b, c, d

Uses(f) == [t \in {a, b, c, d} |-> IF t \in DOMAIN f THEN f[t] ELSE {}]

\* Everybody takes and puts back, waiting as long as it takes.
Plain == Uses([t \in {a, b, c} |-> {"up", "try_up", "down", "try_down"}])

\* Two wait, two put back.
Crossed == Uses([t \in {a, b} |-> {"down"}] @@ [t \in {c, d} |-> {"up"}])

\* One thread waits with a timeout.
OneTimed ==
    Uses((a :> {"down_timeout"}) @@ (b :> {"up", "try_down"}) @@ (c :> {"try_up", "try_down"}))

\* Threads with and without a timeout on one semaphore, and several with one: the
\* uses in which wake-ups go to threads they were not meant for.
Mixed == Uses((a :> {"down_timeout"}) @@ (b :> {"down"}) @@ (c :> {"up"}) @@ (d :> {"down"}))
TwoTimed == Uses((a :> {"down_timeout"}) @@ (b :> {"down_timeout"}) @@ (c :> {"up", "try_down"}))

MCWorkloads == {Plain, Crossed, OneTimed}
MixedWorkloads == {Mixed}
=============================================================================
