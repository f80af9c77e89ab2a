-------------------------------- MODULE Kmem --------------------------------
(***************************************************************************)
(* Kernel memory (src/src/nautilus/mm/kmem.c): kmem_malloc and kmem_free   *)
(* on several CPUs, over buddy pools that are locked one call at a time    *)
(* and a shared table of block headers that is not locked at all.  Headers *)
(* are claimed by a compare-and-swap of their order.                       *)
(*                                                                         *)
(* A critical section under a pool's lock is one step.  So is the look-up  *)
(* of a header: entries of other addresses never match.                    *)
(***************************************************************************)
EXTENDS Buddy

CONSTANTS Threads,
          Zones,       \* the memory regions' pools
          Memory,      \* [Zones -> [order, base, size]]: each pool and the memory in it
          Regions,     \* [Threads -> Seq(Zones)]: ordered_regions of the thread's CPU
          NumEntries,  \* block_hash_num_entries
          Workloads    \* what each thread calls: [op, order, to]

VARIABLES pool,        \* the buddy pools
          hdr,         \* block_hash_entries
          owned,       \* the blocks each thread has been given and not freed
          calls,       \* what each thread still has to call
          pc, reg, first, entry, tries, block,    \* the threads' locals
          read         \* the zone and order kmem_free has read from the header

vars == <<pool, hdr, owned, calls, pc, reg, first, entry, tries, block, read>>
locals == <<reg, first, entry, tries, block, read>>

NoBlock == [zone |-> "none", addr |-> 0, order |-> 0]
FreeHeader == [addr |-> NoBlock, order |-> 0, zone |-> "none"]

\* A block is known by its address, the zone and place it lies at.
Addr(b) == [b EXCEPT !.order = 0]

\* block_hash_hash, of which only the order of the scan that starts there matters.
Start(b) == b.addr % NumEntries

Goto(t, from, to) == pc[t] = from /\ pc' = [pc EXCEPT ![t] = to]

Init ==
    /\ calls \in Workloads
    /\ pool = [z \in Zones |-> kmem_add_memory(buddy_init(Memory[z].order),
                                               Memory[z].base, Memory[z].size)]
    /\ hdr = [i \in 0..NumEntries - 1 |-> FreeHeader]
    /\ owned = [t \in Threads |-> {}]
    /\ pc = [t \in Threads |-> "idle"]
    /\ reg = [t \in Threads |-> 1]
    /\ first = [t \in Threads |-> TRUE]
    /\ entry = [t \in Threads |-> 0]
    /\ tries = [t \in Threads |-> 0]
    /\ block = [t \in Threads |-> NoBlock]
    /\ read = [t \in Threads |-> FreeHeader]

-----------------------------------------------------------------------------
(* kmem_malloc *)

Call(t) == Head(calls[t])

MallocCall(t) ==
    /\ calls[t] # <<>> /\ Call(t).op = "malloc"
    /\ Goto(t, "idle", "region")
    /\ UNCHANGED <<pool, hdr, owned, calls, locals>>

\* After the last region: one more round after the dead threads were reaped,
\* then NULL.
NextRegion(t, from) ==
    IF reg[t] < Len(Regions[t])
    THEN Goto(t, from, "region") /\ reg' = [reg EXCEPT ![t] = @ + 1]
         /\ UNCHANGED <<first, calls>>
    ELSE IF first[t]
    THEN Goto(t, from, "region") /\ reg' = [reg EXCEPT ![t] = 1]
         /\ first' = [first EXCEPT ![t] = FALSE] /\ UNCHANGED calls
    ELSE Goto(t, from, "idle") /\ calls' = [calls EXCEPT ![t] = Tail(@)]
         /\ reg' = [reg EXCEPT ![t] = 1] /\ first' = [first EXCEPT ![t] = TRUE]

\* buddy_alloc of the next region in order of affinity.
MallocAlloc(t) ==
    LET z == Regions[t][reg[t]]
        order == Call(t).order
    IN  /\ pc[t] = "region"
        /\ IF CanAlloc(pool[z], order)
           THEN /\ Goto(t, "region", "scan")
                /\ block' = [block EXCEPT ![t] = [zone |-> z, order |-> order,
                                                  addr |-> AllocBlock(pool[z], order)]]
                /\ pool' = [pool EXCEPT ![z] = buddy_alloc(@, order)]
                /\ entry' = [entry EXCEPT ![t] = Start(block'[t])]
                /\ UNCHANGED <<reg, first, calls>>
           ELSE /\ NextRegion(t, "region")
                /\ UNCHANGED <<pool, entry, block>>
        /\ UNCHANGED <<hdr, owned, tries, read>>

\* block_hash_alloc, one compare-and-swap.
MallocScan(t) ==
    /\ IF tries[t] = NumEntries
       THEN Goto(t, "scan", "release") /\ entry' = [entry EXCEPT ![t] = 0]
            /\ tries' = [tries EXCEPT ![t] = 0] /\ UNCHANGED hdr
       ELSE IF hdr[entry[t]].order = 0
       THEN Goto(t, "scan", "fill") /\ hdr' = [hdr EXCEPT ![entry[t]].order = 1]
            /\ tries' = [tries EXCEPT ![t] = 0] /\ UNCHANGED entry
       ELSE Goto(t, "scan", "scan") /\ entry' = [entry EXCEPT ![t] = (@ + 1) % NumEntries]
            /\ tries' = [tries EXCEPT ![t] = @ + 1] /\ UNCHANGED hdr
    /\ UNCHANGED <<pool, owned, calls, reg, first, block, read>>

\* No header is free: the block is given back.
MallocRelease(t) ==
    LET b == block[t]
    IN  /\ NextRegion(t, "release")
        /\ pool' = [pool EXCEPT ![b.zone] = buddy_free(@, b.addr, b.order)]
        /\ block' = [block EXCEPT ![t] = NoBlock]
        /\ UNCHANGED <<hdr, owned, entry, tries, read>>

MallocFill(t) ==
    /\ Goto(t, "fill", "complete")
    /\ hdr' = [hdr EXCEPT ![entry[t]].addr = Addr(block[t]),
                          ![entry[t]].zone = block[t].zone]
    /\ UNCHANGED <<pool, owned, calls, locals>>

\* The order is written last.  The caller, or the thread it hands the block
\* to, then writes what it likes to it.
MallocComplete(t) ==
    LET b == block[t]
    IN  /\ Goto(t, "complete", "idle")
        /\ hdr' = [hdr EXCEPT ![entry[t]].order = MIN_ORDER + b.order]
        /\ owned' = [owned EXCEPT ![Call(t).to] = @ \cup {b}]
        /\ \E word \in 0..pool[b.zone].pool_order :
            pool' = [pool EXCEPT ![b.zone].ord =
                [i \in DOMAIN @ |-> IF i \in Extent(b.addr, b.order) THEN word ELSE @[i]]]
        /\ block' = [block EXCEPT ![t] = NoBlock]
        /\ calls' = [calls EXCEPT ![t] = Tail(@)]
        /\ reg' = [reg EXCEPT ![t] = 1]
        /\ first' = [first EXCEPT ![t] = TRUE]
        /\ entry' = [entry EXCEPT ![t] = 0]
        /\ UNCHANGED <<tries, read>>

kmem_malloc(t) ==
    \/ MallocCall(t) \/ MallocAlloc(t) \/ MallocScan(t) \/ MallocRelease(t)
    \/ MallocFill(t) \/ MallocComplete(t)

-----------------------------------------------------------------------------
(* kmem_free *)

\* How far behind the start of the scan for b entry i comes.
Distance(b, i) == (i - Start(b)) % NumEntries

\* The entries that match an address.
Matching(b) == {i \in DOMAIN hdr : hdr[i].order >= MIN_ORDER /\ hdr[i].addr = Addr(b)}

\* The one block_hash_find_entry returns.
block_hash_find_entry(b) ==
    CHOOSE i \in Matching(b) : \A j \in Matching(b) : Distance(b, i) <= Distance(b, j)

\* The header is looked up and read.  Without one the call only complains.
FreeFind(t) ==
    /\ calls[t] # <<>> /\ Call(t).op = "free"
    /\ \E b \in owned[t] :
        /\ owned' = [owned EXCEPT ![t] = @ \ {b}]
        /\ IF Matching(b) = {}
           THEN Goto(t, "idle", "idle") /\ calls' = [calls EXCEPT ![t] = Tail(@)]
                /\ UNCHANGED <<entry, block, read>>
           ELSE /\ Goto(t, "idle", "check")
                /\ block' = [block EXCEPT ![t] = b]
                /\ entry' = [entry EXCEPT ![t] = block_hash_find_entry(b)]
                /\ read' = [read EXCEPT ![t] = hdr[block_hash_find_entry(b)]]
                /\ UNCHANGED calls
    /\ UNCHANGED <<pool, hdr, reg, first, tries>>

\* What looks like a double free is ignored; otherwise the block goes back.
FreeBuddy(t) ==
    LET r == read[t]
    IN  /\ IF r.zone \notin Zones \/ r.order < MIN_ORDER
           THEN Goto(t, "check", "idle") /\ calls' = [calls EXCEPT ![t] = Tail(@)]
                /\ UNCHANGED pool
           ELSE /\ Goto(t, "check", "clear")
                /\ pool' = [pool EXCEPT ![r.zone] =
                                buddy_free(@, block[t].addr, r.order - MIN_ORDER)]
                /\ UNCHANGED calls
        /\ UNCHANGED <<hdr, owned, locals>>

\* block_hash_free_entry: the address and the zone, then the order.
FreeClear(t) ==
    /\ Goto(t, "clear", "unclaim")
    /\ hdr' = [hdr EXCEPT ![entry[t]].addr = NoBlock, ![entry[t]].zone = "none"]
    /\ UNCHANGED <<pool, owned, calls, locals>>

Unclaim(t, order) ==
    /\ Goto(t, "unclaim", "idle")
    /\ hdr' = [hdr EXCEPT ![entry[t]].order = order]
    /\ block' = [block EXCEPT ![t] = NoBlock]
    /\ read' = [read EXCEPT ![t] = FreeHeader]
    /\ entry' = [entry EXCEPT ![t] = 0]
    /\ calls' = [calls EXCEPT ![t] = Tail(@)]
    /\ UNCHANGED <<pool, owned, reg, first, tries>>

\* Mutant: the header keeps its order and is never used again.
FreeUnclaim_Keeps(t) == Unclaim(t, hdr[entry[t]].order)

FreeUnclaim(t) == Unclaim(t, 0)

kmem_free(t) == FreeFind(t) \/ FreeBuddy(t) \/ FreeClear(t) \/ FreeUnclaim(t)

Next == \E t \in Threads : kmem_malloc(t) \/ kmem_free(t)

Spec == Init /\ [][Next]_vars

-----------------------------------------------------------------------------
(* Properties *)

\* The blocks that are not in a pool: those the threads own, and those in the
\* hands of a malloc before it returns or of a free before it gives them back.
Held ==
    UNION {owned[t] : t \in Threads}
        \cup {block[t] : t \in {u \in Threads : pc[u] \in {"scan", "release", "fill",
                                                           "complete", "check"}}}

\* Of every pool's memory, each piece is in exactly one place: on one free
\* list, or in one block that is held.  So no two callers of kmem_malloc are
\* ever given overlapping memory, and none is lost by splitting and merging
\* or when the table of headers is full.
MemoryPartitioned ==
    \A z \in Zones :
        LET mine == {b \in Held : b.zone = z}
            blocks == {<<b.addr, b.order>> : b \in mine}
            all == blocks \cup FreeList(pool[z])
        IN  /\ blocks \cap FreeList(pool[z]) = {}
            /\ \A f, g \in all : f # g => Extent(f[1], f[2]) \cap Extent(g[1], g[2]) = {}
            /\ UNION {Extent(f[1], f[2]) : f \in all}
                  = FreeMemory(kmem_add_memory(buddy_init(Memory[z].order),
                                               Memory[z].base, Memory[z].size))

\* An allocation fails only when no aligned run of free memory is as large as
\* the request: free buddies are always merged, whatever the stale tags and
\* the overwritten order words say.
AllocFindsSpace ==
    \A z \in Zones : \A k \in 0..Memory[z].order :
        HasFreeRun(pool[z], k) => CanAlloc(pool[z], k)

\* With one thread that frees, each block is freed with the zone and order it
\* was allocated with, although its address may appear in a second header
\* while an earlier free of the same memory has not cleared its own; and every
\* header that is not free belongs to a block that is owned or to a call.
HeadersMatchBlocks ==
    /\ \A t \in Threads : pc[t] = "check" =>
            read[t].zone = block[t].zone /\ read[t].order = MIN_ORDER + block[t].order
    /\ Cardinality({i \in DOMAIN hdr : hdr[i].order # 0})
          = Cardinality(UNION {owned[t] : t \in Threads})
            + Cardinality({t \in Threads : pc[t] \in {"fill", "complete", "check",
                                                      "clear", "unclaim"}})
=============================================================================
