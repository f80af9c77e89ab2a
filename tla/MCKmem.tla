------------------------------- MODULE MCKmem -------------------------------
EXTENDS Kmem, TLC

CONSTANTS t1, t2, t3

MCMemory == [near |-> [order |-> 2, base |-> 0, size |-> 4],
             far |-> [order |-> 1, base |-> 1, size |-> 1]]
MCZones == {"near", "far"}
MCRegions == (t1 :> <<"near", "far">>) @@ (t2 :> <<"near">>) @@ (t3 :> <<"far", "near">>)

M(order, to) == [op |-> "malloc", order |-> order, to |-> to]
Free == [op |-> "free"]

MCWorkloads ==
    {(t1 :> <<M(0, t1), Free, Free, M(2, t1), Free>>)
        @@ (t2 :> <<M(1, t1), M(0, t1)>>) @@ (t3 :> <<M(0, t3), M(1, t1)>>),
     (t1 :> <<Free, Free, M(0, t1), Free>>)
        @@ (t2 :> <<M(0, t1), M(0, t1), M(2, t2)>>) @@ (t3 :> <<M(0, t1), M(1, t3)>>)}
=============================================================================
