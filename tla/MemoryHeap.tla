----------------------------- MODULE MemoryHeap -----------------------------
(***************************************************************************)
(* ppl7::MemoryHeap, which hands out elements of equal size from blocks    *)
(* that it keeps; AVLTree takes its nodes from it.                         *)
(*                                                                         *)
(* A new block becomes the head of the list of blocks, and the order of    *)
(* the others never changes: a block is known by the number of the         *)
(* increase() that made it, and the list is in descending order.  An       *)
(* element is known by its block and its position there.                   *)
(***************************************************************************)
EXTENDS Integers, Sequences, FiniteSets, Functions

CONSTANTS
    startnum, increment,    \* arguments of init(); increment is `increase'
    GrowPercent,            \* the same
    FreeLimit,              \* calls of free() between two cleanups: 1000
    HeaderBytes,            \* size of a HEAPBLOCK
    ElementBytes,           \* size of an element and of its HEAPELEMENT
    MaxBlocks, MaxReserve   \* bounds: blocks made, elements reserve() adds

(***************************************************************************)
(* The heap grows by at least one element: with increase 0, malloc() would *)
(* write outside of an empty block.                                        *)
(***************************************************************************)
ASSUME HeapAssumption ==
    /\ startnum \in Nat /\ increment \in Nat \ {0} /\ GrowPercent \in Nat
    /\ FreeLimit \in Nat /\ HeaderBytes \in Nat /\ ElementBytes \in Nat
    /\ MaxBlocks \in Nat /\ MaxReserve \in Nat

VARIABLES
    blocks,          \* the blocks there are, by number
    created,         \* number of the last block made
    increaseSize,    \* elements of the next block
    blocksAllocated, blocksUsed,  \* elements there are, and in use
    mem_allocated, mem_used,      \* in bytes, without the MemoryHeap itself
    freeCount,       \* calls of free() since the last cleanup
    used             \* history: the elements clients have, as <<block, position>>

memory == <<blocksAllocated, blocksUsed, mem_allocated, mem_used>>
hvars  == <<blocks, created, increaseSize, memory, freeCount, used>>

HEAPBLOCK == [elements : Nat, num_free : Nat, free : Seq(Nat)]

NewBlock(num) == [elements |-> num, num_free |-> num, free |-> [k \in 1..num |-> k]]

\* What increase(num) makes of the blocks.
With(b, block) == [c \in DOMAIN blocks \cup {b} |-> IF c = b THEN block ELSE blocks[c]]

HeapInit ==
    /\ created = (IF startnum > 0 THEN 1 ELSE 0)
    /\ blocks = [b \in 1..created |-> NewBlock(startnum)]
    /\ increaseSize = increment
    /\ blocksAllocated = startnum /\ blocksUsed = 0
    /\ mem_used = created * HeaderBytes
    /\ mem_allocated = created * HeaderBytes + startnum * ElementBytes
    /\ freeCount = 0 /\ used = {}

\* The first block of the list with a free element.
Serves(b) ==
    /\ b \in DOMAIN blocks /\ blocks[b].num_free > 0
    /\ \A c \in DOMAIN blocks : blocks[c].num_free > 0 => c <= b

\* Mutant of Taken: the element stays in the list.
TakenKept(block) == [block EXCEPT !.num_free = @ - 1]

\* The head of a block's free list is taken.
Taken(block) == [block EXCEPT !.num_free = @ - 1, !.free = Tail(@)]

Use(b, k) ==
    /\ used' = used \cup {<<b, k>>}
    /\ blocksUsed' = blocksUsed + 1

\* malloc() and calloc() while there is a free element ...
MallocFree ==
    \E b \in DOMAIN blocks :
        /\ Serves(b)
        /\ blocks' = [blocks EXCEPT ![b] = Taken(@)]
        /\ Use(b, Head(blocks[b].free))
        /\ mem_used' = mem_used + ElementBytes
        /\ UNCHANGED <<created, increaseSize, blocksAllocated, mem_allocated, freeCount>>

\* ... and when there is none.
MallocGrow ==
    /\ \A b \in DOMAIN blocks : ~Serves(b)
    /\ created < MaxBlocks
    /\ created' = created + 1
    /\ blocks' = With(created + 1, Taken(NewBlock(increaseSize)))
    /\ Use(created + 1, 1)
    /\ blocksAllocated' = blocksAllocated + increaseSize
    /\ mem_allocated' = mem_allocated + HeaderBytes + increaseSize * ElementBytes
    /\ mem_used' = mem_used + HeaderBytes + ElementBytes
    /\ increaseSize' = increaseSize + (increaseSize * GrowPercent) \div 100
    /\ UNCHANGED freeCount

\* reserve() of more elements than there are; of fewer it does nothing.
Reserve(more) ==
    /\ created < MaxBlocks
    /\ created' = created + 1
    /\ blocks' = With(created + 1, NewBlock(more))
    /\ blocksAllocated' = blocksAllocated + more
    /\ mem_allocated' = mem_allocated + HeaderBytes + more * ElementBytes
    /\ mem_used' = mem_used + HeaderBytes
    /\ UNCHANGED <<increaseSize, blocksUsed, freeCount, used>>

\* Blocks of which nothing is in use.
Spare(bs) == {b \in DOMAIN bs : bs[b].num_free = bs[b].elements}

\* Those that cleanup() gives back: all but the first of the list.
Surplus(bs) == {b \in Spare(bs) : \E c \in Spare(bs) : c > b}

ElementsOf(bs, S) == SumFunctionOnSet([b \in S |-> bs[b].elements], S)

\* Mutant of cleanup: blocksAllocated is not lowered.
cleanupKeepsCount(bs) ==
    /\ blocks' = [b \in DOMAIN bs \ Surplus(bs) |-> bs[b]]
    /\ mem_allocated' = mem_allocated - Cardinality(Surplus(bs)) * HeaderBytes
                        - ElementsOf(bs, Surplus(bs)) * ElementBytes
    /\ freeCount' = 0
    /\ UNCHANGED blocksAllocated

\* cleanup() of the blocks bs, but for mem_used.
cleanup(bs) ==
    /\ blocks' = [b \in DOMAIN bs \ Surplus(bs) |-> bs[b]]
    /\ blocksAllocated' = blocksAllocated - ElementsOf(bs, Surplus(bs))
    /\ mem_allocated' = mem_allocated - Cardinality(Surplus(bs)) * HeaderBytes
                        - ElementsOf(bs, Surplus(bs)) * ElementBytes
    /\ freeCount' = 0

\* The element becomes the head of its block's free list.
GivenBack(b, k) ==
    [blocks EXCEPT ![b].num_free = @ + 1, ![b].free = <<k>> \o @]

\* free() of an element its client has.
Free(b, k) ==
    LET bs == GivenBack(b, k) IN
    /\ <<b, k>> \in used
    /\ used' = used \ {<<b, k>>}
    /\ blocksUsed' = blocksUsed - 1
    /\ IF freeCount + 1 > FreeLimit
       THEN /\ cleanup(bs)
            /\ mem_used' = mem_used - ElementBytes - Cardinality(Surplus(bs)) * HeaderBytes
       ELSE /\ blocks' = bs
            /\ freeCount' = freeCount + 1
            /\ mem_used' = mem_used - ElementBytes
            /\ UNCHANGED <<blocksAllocated, mem_allocated>>
    /\ UNCHANGED <<created, increaseSize>>

\* cleanup() by a client
Cleanup ==
    /\ cleanup(blocks)
    /\ mem_used' = mem_used - Cardinality(Surplus(blocks)) * HeaderBytes
    /\ UNCHANGED <<created, increaseSize, blocksUsed, used>>

\* clear(): with it go the elements of the clients.
ClearHeap ==
    /\ blocks' = [b \in {} |-> NewBlock(0)]
    /\ used' = {}
    /\ blocksAllocated' = 0 /\ blocksUsed' = 0 /\ mem_allocated' = 0 /\ mem_used' = 0
    /\ freeCount' = 0
    /\ UNCHANGED <<created, increaseSize>>

HeapNext ==
    \/ MallocFree \/ MallocGrow \/ Cleanup \/ ClearHeap
    \/ \E more \in 1..MaxReserve : Reserve(more)
    \/ \E e \in used : Free(e[1], e[2])

HeapSpec == HeapInit /\ [][HeapNext]_hvars

-----------------------------------------------------------------------------
(* Properties                                                              *)

HeapTypeOK ==
    /\ created \in Nat /\ increaseSize \in Nat \ {0} /\ freeCount \in Nat
    /\ DOMAIN blocks \subseteq 1..created
    /\ \A b \in DOMAIN blocks : blocks[b] \in HEAPBLOCK
    /\ used \subseteq Nat \X Nat

\* Every element is either in use or in the free list of its block, and there
\* exactly once: malloc() never hands out what a client has, free() loses
\* nothing, and cleanup() never gives back a block that is in use.
Accounted ==
    /\ \A b \in DOMAIN blocks :
          /\ \A i, j \in DOMAIN blocks[b].free :
                blocks[b].free[i] = blocks[b].free[j] => i = j
          /\ \A i \in DOMAIN blocks[b].free :
                blocks[b].free[i] \in 1..blocks[b].elements
          /\ \A k \in 1..blocks[b].elements :
                <<b, k>> \in used <=> \A i \in DOMAIN blocks[b].free : blocks[b].free[i] # k
    /\ \A e \in used : e[1] \in DOMAIN blocks /\ e[2] \in 1..blocks[e[1]].elements

\* capacity(), count(), memoryAllocated() and memoryUsed() are what they say
\* they are, although each is kept by adding and subtracting.
CountersExact ==
    /\ \A b \in DOMAIN blocks : blocks[b].num_free = Len(blocks[b].free)
    /\ blocksUsed = Cardinality(used)
    /\ blocksAllocated = ElementsOf(blocks, DOMAIN blocks)
    /\ mem_used = Cardinality(DOMAIN blocks) * HeaderBytes + blocksUsed * ElementBytes
    /\ mem_allocated = Cardinality(DOMAIN blocks) * HeaderBytes + blocksAllocated * ElementBytes

=============================================================================
