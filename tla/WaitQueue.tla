----------------------------- MODULE WaitQueue -----------------------------
(***************************************************************************)
(* What the modules with wait queues share (src/nautilus/waitqueue.c and   *)
(* include/nautilus/waitqueue.h).                                          *)
(***************************************************************************)
EXTENDS Integers, Sequences, Functions

\* nk_wait_queue_remove_specific: a thread is on a queue at most once.
Without(s, t) ==
    IF t \in Range(s)
    THEN LET i == CHOOSE j \in DOMAIN s : s[j] = t
         IN  [j \in 1 .. (Len(s) - 1) |-> IF j < i THEN s[j] ELSE s[j + 1]]
    ELSE s
=============================================================================
