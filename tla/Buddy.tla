------------------------------- MODULE Buddy -------------------------------
(***************************************************************************)
(* The buddy allocator of one memory zone (src/src/nautilus/mm/buddy.c).   *)
(*                                                                         *)
(* Memory is counted in blocks of the minimum order, so the orders here    *)
(* are relative to MIN_ORDER and a block is named by the number of its     *)
(* first minimum-sized block.  A pool is a record of its order, its free   *)
(* lists, its tag bits and the order words that free blocks carry in their *)
(* own memory: merging leaves tags behind inside a free block, and whoever *)
(* is given a block overwrites the order words in it.                      *)
(***************************************************************************)
EXTENDS Integers, Sequences, SequencesExt, FiniteSets

\* struct kmem_block_hdr: orders below MIN_ORDER mark a header that is free
\* or being filled in.
MIN_ORDER == 5

Blocks(mp) == 0 .. 2^mp.pool_order - 1
Extent(block, order) == block .. block + 2^order - 1

buddy_init(pool_order) ==
    [pool_order |-> pool_order,
     avail |-> [k \in 0..pool_order |-> <<>>],
     tags |-> {},
     ord |-> [b \in 0 .. 2^pool_order - 1 |-> 0]]

find_buddy(block, order) ==
    IF (block \div 2^order) % 2 = 0 THEN block + 2^order ELSE block - 2^order

\* list_add of a block to the free list of its order, and mark_available.
MakeAvailable(mp, block, order) ==
    [mp EXCEPT !.ord[block] = order,
               !.tags = @ \cup {block},
               !.avail[order] = <<block>> \o @]

-----------------------------------------------------------------------------
(* buddy_alloc *)

\* The upper half of a block of order j > order is given back, until the rest
\* has the order that was asked for.
RECURSIVE Trim(_, _, _, _)
Trim(mp, block, j, order) ==
    IF j = order THEN [mp EXCEPT !.ord[block] = order]
    ELSE Trim(MakeAvailable(mp, block + 2^(j - 1), j - 1), block, j - 1, order)

\* The orders whose free lists have a block for the request.
Fitting(mp, order) == {j \in order..mp.pool_order : mp.avail[j] # <<>>}

CanAlloc(mp, order) == Fitting(mp, order) # {}

Smallest(mp, order) == CHOOSE j \in Fitting(mp, order) : \A k \in Fitting(mp, order) : j <= k

\* The block that is returned.
AllocBlock(mp, order) == Head(mp.avail[Smallest(mp, order)])

\* The pool after it.
buddy_alloc(mp, order) ==
    LET j == Smallest(mp, order)
        block == AllocBlock(mp, order)
    IN  Trim([mp EXCEPT !.avail[j] = Tail(@), !.tags = @ \ {block}], block, j, order)

-----------------------------------------------------------------------------
(* buddy_free *)

\* Mutant: the order of the buddy is not compared.
Mergeable_AnyOrder(mp, block, order) ==
    /\ order < mp.pool_order
    /\ find_buddy(block, order) \in mp.tags

\* Mutant: buddies are never merged.
Mergeable_Never(mp, block, order) == FALSE

\* The buddy is available and has the same size.
Mergeable(mp, block, order) ==
    /\ order < mp.pool_order
    /\ find_buddy(block, order) \in mp.tags
    /\ mp.ord[find_buddy(block, order)] = order

\* Coalesces as far as possible.
RECURSIVE buddy_free(_, _, _)
buddy_free(mp, block, order) ==
    IF ~Mergeable(mp, block, order) THEN MakeAvailable(mp, block, order)
    ELSE LET buddy == find_buddy(block, order)
             lower == IF buddy < block THEN buddy ELSE block
         IN  buddy_free([mp EXCEPT
                !.avail = [k \in DOMAIN @ |-> SelectSeq(@[k], LAMBDA b : b # buddy)],
                !.ord[lower] = order + 1], lower, order + 1)

-----------------------------------------------------------------------------
(* Adding memory: chunks as large as the alignment of the start allows *)

Log2(n) == CHOOSE k \in 0..n : 2^k <= n /\ n < 2^(k + 1)

\* The largest power of two that divides n.
Alignment(n) == CHOOSE a \in {2^k : k \in 0..Log2(n)} :
                    n % a = 0 /\ n % (2 * a) # 0

RECURSIVE FreeChunks(_, _, _, _)
FreeChunks(mp, start, size, n) ==
    IF n = 0 THEN mp
    ELSE FreeChunks(buddy_free(mp, start, Log2(size)), start + size, size, n - 1)

kmem_add_memory(mp, base, size) ==
    LET max == IF base = 0 THEN size ELSE Alignment(base)
        chunk == IF max < size THEN max ELSE size
    IN  FreeChunks(mp, base, chunk, size \div chunk)

-----------------------------------------------------------------------------
(* What the allocator promises *)

\* The blocks on the free lists, with their orders.
FreeList(mp) == UNION {{<<b, k>> : b \in Range(mp.avail[k])} : k \in 0..mp.pool_order}

FreeMemory(mp) == UNION {Extent(f[1], f[2]) : f \in FreeList(mp)}

\* An aligned run of free memory of the given order exists.
HasFreeRun(mp, order) ==
    \E b \in Blocks(mp) : b % 2^order = 0 /\ Extent(b, order) \subseteq FreeMemory(mp)
=============================================================================
