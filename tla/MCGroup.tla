------------------------------ MODULE MCGroup ------------------------------
EXTENDS Group, TLC

CONSTANTS t1, t2, t3

Op(op, g) == [op |-> op, group |-> g, size |-> 0]
Await(g, n) == [op |-> "await", group |-> g, size |-> n]

\* Three members change their constraints together, once.
Three ==
    LET me == <<Op("join", "g"), Await("g", 3), Op("change", "g"), Op("leave", "g")>>
    IN  t1 :> me @@ t2 :> me @@ t3 :> me

\* Two members change twice, with a new election, beside another group.
Twice ==
    LET one == <<Op("join", "g"), Await("g", 2), Op("change", "g"), Op("barrier", "g")>>
        two == <<Op("barrier", "g"), Op("change", "g"), Op("leave", "g")>>
    IN  t1 :> one \o <<Op("reset_leader", "g")>> \o two
            @@ t2 :> one \o two
            @@ t3 :> <<Op("join", "h"), Op("change", "h"), Op("change", "h"), Op("leave", "h")>>

\* As above without the election between the changes.
SameLeader ==
    LET me == <<Op("join", "g"), Await("g", 2), Op("change", "g"), Op("change", "g")>>
    IN  t1 :> me @@ t2 :> me @@ t3 :> <<Op("join", "h"), Op("change", "h")>>

\* One member leaves while the other is, or is not yet, at a barrier.
Guest ==
    t1 :> <<Op("join", "g"), Op("barrier", "g"), Op("barrier", "g"), Op("leave", "g")>>
        @@ t2 :> <<Op("join", "g"), Op("leave", "g"), Op("join", "h"), Op("leave", "h")>>
        @@ t3 :> <<Op("join", "h"), Op("barrier", "h"), Op("leave", "h")>>

\* The members leave after a barrier, and one of them deletes the group.
Deleted ==
    LET me == <<Op("join", "g"), Await("g", 3), Op("barrier", "g"), Op("leave", "g")>>
    IN  t1 :> me \o <<Op("delete", "g")>> @@ t2 :> me @@ t3 :> me

MCWorkloads == {Three, Twice, SameLeader, Guest, Deleted}
=============================================================================
