---------------------------- MODULE MemoryGroup ----------------------------
(***************************************************************************)
(* ppl7::MemoryGroup: memory that is released all at once.  Every block    *)
(* carries a header that links it into a list, and the group counts blocks *)
(* and bytes.                                                              *)
(***************************************************************************)
EXTENDS Integers, Sequences, Functions

CONSTANTS
    Addresses,    \* where malloc(3) and realloc(3) may put a block
    BlockSizes,   \* sizes asked for
    BlockHeader,  \* mysize, the bytes of a header
    GroupBytes,   \* sizeof(MemoryGroup)
    Null

ASSUME GroupAssumption ==
    /\ Null \notin Addresses
    /\ BlockSizes \subseteq Nat /\ BlockHeader \in Nat /\ GroupBytes \in Nat

VARIABLES
    group,        \* headers of the blocks, first, last, totalSize, totalBlocks
    alive,        \* history: the blocks in use, by the time of their last (re)allocation
    torn          \* history: clear() has thrown

gvars == <<group, alive, torn>>

EmptyGroup == [header |-> [b \in {} |-> Null], first |-> Null, last |-> Null,
               totalSize |-> GroupBytes, totalBlocks |-> 0]

GroupInit == group = EmptyGroup /\ alive = <<>> /\ torn = FALSE

-----------------------------------------------------------------------------
(* The list                                                                *)

\* The header of block b is h, wherever it was before.
WithHeader(g, b, h) ==
    [g EXCEPT !.header = [c \in DOMAIN @ \cup {b} |-> IF c = b THEN h ELSE @[c]]]

\* The new last block.
addToList(g, b, size) ==
    LET linked == IF g.last = Null THEN g ELSE [g EXCEPT !.header[g.last].next = b]
        added  == WithHeader(linked, b, [size |-> size, previous |-> g.last, next |-> Null])
    IN  [added EXCEPT !.last = b,
                      !.first = IF @ = Null THEN b ELSE @,
                      !.totalSize = @ + size + BlockHeader,
                      !.totalBlocks = @ + 1]

\* Mutant of removeFromList: the end of the list is not moved.
removeFromListKeepsLast(g, b) ==
    LET m == g.header[b]
        h == [c \in DOMAIN g.header |->
                [g.header[c] EXCEPT !.next = IF c = m.previous THEN m.next ELSE @,
                                    !.previous = IF c = m.next THEN m.previous ELSE @]]
    IN  [g EXCEPT !.header = h,
                  !.first = IF b = @ THEN m.next ELSE @,
                  !.totalSize = @ - (m.size + BlockHeader),
                  !.totalBlocks = @ - 1]

\* The neighbours are linked to each other; the header itself is left.
removeFromList(g, b) ==
    LET m == g.header[b]
        h == [c \in DOMAIN g.header |->
                [g.header[c] EXCEPT !.next = IF c = m.previous THEN m.next ELSE @,
                                    !.previous = IF c = m.next THEN m.previous ELSE @]]
    IN  [g EXCEPT !.header = h,
                  !.first = IF b = @ THEN m.next ELSE @,
                  !.last = IF b = @ THEN m.previous ELSE @,
                  !.totalSize = @ - (m.size + BlockHeader),
                  !.totalBlocks = @ - 1]

\* free(3) of a block
Released(g, b) == [g EXCEPT !.header = [c \in DOMAIN @ \ {b} |-> @[c]]]

-----------------------------------------------------------------------------
(* Operations.  calloc, strdup and strndup differ from malloc in what they *)
(* write to the block; without memory they throw and change nothing.       *)

\* The blocks in use without b.
AliveWithout(b) ==
    LET k == CHOOSE k \in DOMAIN alive : alive[k] = b
    IN  SubSeq(alive, 1, k - 1) \o SubSeq(alive, k + 1, Len(alive))

malloc ==
    \E b \in Addresses \ DOMAIN group.header, size \in BlockSizes :
        /\ group' = addToList(group, b, size)
        /\ alive' = Append(alive, b)
        /\ UNCHANGED torn

\* The block stays where it is or moves.
realloc ==
    \E b \in DOMAIN group.header, size \in BlockSizes :
        LET removed == removeFromList(group, b) IN
        \E c \in {b} \cup (Addresses \ DOMAIN group.header) :
            /\ group' = addToList(Released(removed, b), c, size)
            /\ alive' = Append(AliveWithout(b), c)
            /\ UNCHANGED torn

\* Without memory the old block goes back into the list.
reallocFails ==
    \E b \in DOMAIN group.header :
        /\ group' = addToList(removeFromList(group, b), b, group.header[b].size)
        /\ alive' = Append(AliveWithout(b), b)
        /\ UNCHANGED torn

free ==
    \E b \in DOMAIN group.header :
        /\ group' = Released(removeFromList(group, b), b)
        /\ alive' = AliveWithout(b)
        /\ UNCHANGED torn

\* The free() that clear() calls is the one above, not free(3): it looks for a
\* header in front of the header, where there is none, and throws after the
\* first block has been taken out of the list at one end.  Only a group without
\* blocks is reset.
clear ==
    IF group.first = Null
    THEN group' = EmptyGroup /\ UNCHANGED <<alive, torn>>
    ELSE /\ group' = [group EXCEPT !.first = group.header[@].next]
         /\ torn' = TRUE
         /\ UNCHANGED alive

\* Bound: a group whose clear() has thrown is not used any more.
GroupNext == ~torn /\ (malloc \/ realloc \/ reallocFails \/ free \/ clear)

GroupSpec == GroupInit /\ [][GroupNext]_gvars

-----------------------------------------------------------------------------
(* Properties                                                              *)

\* The neighbours of the i-th of the blocks s, and the blocks at its ends.
NextOf(s, i) == IF i = Len(s) THEN Null ELSE s[i + 1]
PreviousOf(s, i) == IF i = 1 THEN Null ELSE s[i - 1]
FirstOf(s) == IF s = <<>> THEN Null ELSE s[1]
LastOf(s) == IF s = <<>> THEN Null ELSE s[Len(s)]

\* However often blocks are moved, resized or not resized for lack of memory,
\* the list holds in both directions the blocks in use and no other, and count()
\* and size() are theirs; a clear() that has thrown has lost one of them.
BlocksListed ==
    LET listed == IF torn THEN Tail(alive) ELSE alive
        h      == group.header
    IN  /\ group.first = FirstOf(listed) /\ group.last = LastOf(alive)
        /\ \A i \in DOMAIN listed : h[listed[i]].next = NextOf(listed, i)
        /\ \A i \in DOMAIN alive : h[alive[i]].previous = PreviousOf(alive, i)
        /\ Range(alive) = DOMAIN h
        /\ group.totalBlocks = Len(alive)
        /\ group.totalSize =
              GroupBytes + SumFunction([b \in DOMAIN h |-> h[b].size + BlockHeader])

=============================================================================
