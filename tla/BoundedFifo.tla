---------------------------- MODULE BoundedFifo ----------------------------
(***************************************************************************)
(* What a message queue promises: at most Size messages wait, they are     *)
(* pulled in the order in which they were pushed, each of them once.       *)
(***************************************************************************)
EXTENDS Naturals, Sequences

CONSTANTS Messages, Size

VARIABLES fifo, taken

Init == fifo = <<>> /\ taken = <<>>

Push == /\ Len(fifo) < Size
        /\ \E m \in Messages : fifo' = Append(fifo, m)
        /\ UNCHANGED taken

Pull == /\ fifo # <<>>
        /\ fifo' = Tail(fifo)
        /\ taken' = Append(taken, Head(fifo))

Next == Push \/ Pull

Spec == Init /\ [][Next]_<<fifo, taken>>
=============================================================================
