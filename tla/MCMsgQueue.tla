----------------------------- MODULE MCMsgQueue -----------------------------
(* MsgQueue for TLC: which thread uses which operations. *)
EXTENDS MsgQueue, TLC

CONSTANTS a, b, c, d

Uses(f) == [t \in {a, b, c, d} |-> IF t \in DOMAIN f THEN f[t] ELSE {}]
Only(side, kinds) == {side} \X kinds

\* Two producers and two consumers that wait as long as it takes.
Crossed ==
    Uses([t \in {a, b} |-> Only("push", {"plain"})] @@ [t \in {c, d} |-> Only("pull", {"plain"})])

\* Two producers and a consumer, which may poll.
Polled ==
    Uses([t \in {a, b} |-> Only("push", {"plain", "try"})] @@ (c :> Only("pull", {"plain", "try"})))

\* A producer and a consumer with a timeout, and one that polls.
Timed ==
    Uses((a :> Only("push", {"timeout"})) @@ (c :> Only("pull", {"try"})) @@ (d :> Only("pull", {"timeout"})))

MCWorkloads == {Crossed, Polled, Timed}
=============================================================================
