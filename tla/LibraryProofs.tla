---------------------------- MODULE LibraryProofs ----------------------------
(***************************************************************************)
(* Proofs about parts of ppl7: MemoryHeap for every size and growth of the *)
(* blocks, MemoryGroup for every number of blocks, IPNetwork for every     *)
(* number of bytes and of bits in them, SuspendedThread for any number of  *)
(* callers.                                                                *)
(*                                                                         *)
(* What a single block of the heap owes its clients (Whole) is kept by     *)
(* taking an element and by giving one back; cleanup() recognises a block  *)
(* of which nothing is in use by its counter alone, because a free list    *)
(* without repetitions that is as long as the block holds every element.   *)
(* The list of a group is followed by position (Chained): a block that is  *)
(* taken out moves those behind it one forward.                            *)
(* A network goes from its address with zeros behind the prefix to the one *)
(* with ones; comparing from the first byte on finds those between, which  *)
(* byte by byte have the same quotient by a power of two.                  *)
(* No wakeup of a thread is lost although threadResume() signals without   *)
(* the mutex: whoever takes the reason to wait away either signals in the  *)
(* same critical section, or is known to be about to signal.               *)
(***************************************************************************)
EXTENDS MemoryHeap, MemoryGroup, IPNetwork, SuspendedThread, SumTheorems, SequenceTheorems

\* The free list f of a block of e elements accounts for those not in use.
Lists(f, e, inuse) ==
    /\ \A i, j \in DOMAIN f : f[i] = f[j] => i = j
    /\ \A i \in DOMAIN f : f[i] \in 1..e
    /\ \A k \in 1..e : k \in inuse <=> \A i \in DOMAIN f : f[i] # k

Whole(block, inuse) ==
    /\ block.num_free = Len(block.free)
    /\ Lists(block.free, block.elements, inuse)

InUse(us, b) == {k \in Nat : <<b, k>> \in us}

\* The blocks bs and the elements us that clients have fit together.
Sound(bs, us) ==
    /\ \A b \in DOMAIN bs : bs[b] \in HEAPBLOCK /\ Whole(bs[b], InUse(us, b))
    /\ us \subseteq Nat \X Nat
    /\ \A e \in us : e[1] \in DOMAIN bs /\ e[2] \in 1..bs[e[1]].elements

IInv ==
    /\ created \in Nat /\ increaseSize \in Nat \ {0} /\ freeCount \in Nat
    /\ DOMAIN blocks \subseteq 1..created
    /\ Sound(blocks, used)

-----------------------------------------------------------------------------
(* Free lists                                                              *)

LEMMA TailOf ==
    ASSUME NEW f \in Seq(Nat), f # <<>>
    PROVE  /\ Tail(f) \in Seq(Nat) /\ Head(f) = f[1]
           /\ DOMAIN f = 1..Len(f) /\ DOMAIN Tail(f) = 1..(Len(f) - 1)
           /\ Len(f) \in Nat \ {0} /\ Len(Tail(f)) = Len(f) - 1
           /\ \A i \in 1..(Len(f) - 1) : Tail(f)[i] = f[i + 1]
  OBVIOUS

LEMMA ConsOf ==
    ASSUME NEW f \in Seq(Nat), NEW k \in Nat
    PROVE  /\ <<k>> \o f \in Seq(Nat) /\ Len(f) \in Nat /\ Len(<<k>> \o f) = Len(f) + 1
           /\ DOMAIN f = 1..Len(f) /\ DOMAIN (<<k>> \o f) = 1..(Len(f) + 1)
           /\ (<<k>> \o f)[1] = k
           /\ \A i \in 2..(Len(f) + 1) : (<<k>> \o f)[i] = f[i - 1]
  OBVIOUS

\* A free list without its head, when the head is taken into use.
LEMMA TailLists ==
    ASSUME NEW f \in Seq(Nat), f # <<>>, NEW e \in Nat, NEW inuse, Lists(f, e, inuse)
    PROVE  Head(f) \in 1..e /\ Lists(Tail(f), e, inuse \cup {Head(f)})
<1> DEFINE t == Tail(f)
           n == Len(f)
<1>1. /\ Head(f) = f[1] /\ DOMAIN f = 1..n /\ DOMAIN t = 1..(n - 1)
      /\ n \in Nat \ {0} /\ \A i \in 1..(n - 1) : t[i] = f[i + 1]
  BY TailOf
<1>2. /\ \A i, j \in 1..n : f[i] = f[j] => i = j
      /\ \A i \in 1..n : f[i] \in 1..e
      /\ \A k \in 1..e : k \in inuse <=> \A i \in 1..n : f[i] # k
  BY <1>1 DEF Lists
<1> HIDE DEF t, n
<1>3. \A i \in 1..(n - 1) : i + 1 \in 1..n /\ i + 1 \in 2..n
  BY <1>1
<1>4. \A i \in 2..n : i - 1 \in 1..(n - 1) /\ t[i - 1] = f[i]
  BY <1>1
<1>5. \A i, j \in 1..(n - 1) : t[i] = t[j] => i = j
  <2> TAKE i, j \in 1..(n - 1)
  <2>1. t[i] = f[i + 1] /\ t[j] = f[j + 1]
    BY <1>1
  <2>2. f[i + 1] = f[j + 1] => i + 1 = j + 1
    BY <1>3, <1>2
  <2> QED BY <2>1, <2>2
<1>6. \A i \in 1..(n - 1) : t[i] \in 1..e
  BY <1>1, <1>2, <1>3
<1>7. 1 \in 1..n /\ \A i \in 1..n : i = 1 \/ i \in 2..n
  BY <1>1
<1>8. ASSUME NEW k \in 1..e
      PROVE  k \in inuse \cup {f[1]} <=> \A i \in 1..(n - 1) : t[i] # k
  <2>1. (\A i \in 1..(n - 1) : t[i] # k) <=> \A i \in 2..n : f[i] # k
    BY <1>1, <1>3, <1>4
  <2>2. k = f[1] => \A i \in 2..n : f[i] # k
    <3> SUFFICES ASSUME NEW i \in 2..n PROVE f[i] # f[1]
      OBVIOUS
    <3>1. i \in 1..n /\ i # 1
      OBVIOUS
    <3> QED BY <3>1, <1>2, <1>7
  <2>3. k \in inuse <=> \A i \in 1..n : f[i] # k
    BY <1>2
  <2>4. 2..n \subseteq 1..n
    OBVIOUS
  <2> QED BY <2>1, <2>2, <2>3, <2>4, <1>7
<1>9. Lists(t, e, inuse \cup {f[1]})
  BY <1>1, <1>5, <1>6, <1>8 DEF Lists
<1>10. f[1] \in 1..e
  BY <1>2, <1>7
<1> QED BY <1>1, <1>9, <1>10 DEF t

\* A free list with an element before its head that was in use.
LEMMA ConsLists ==
    ASSUME NEW f \in Seq(Nat), NEW e \in Nat, NEW inuse, Lists(f, e, inuse),
           NEW k \in 1..e, k \in inuse
    PROVE  Lists(<<k>> \o f, e, inuse \ {k})
<1> DEFINE g == <<k>> \o f
           n == Len(f)
<1>1. /\ n \in Nat /\ g[1] = k
      /\ DOMAIN f = 1..n /\ DOMAIN g = 1..(n + 1)
      /\ \A i \in 2..(n + 1) : g[i] = f[i - 1]
  BY ConsOf
<1>2. /\ \A i, j \in 1..n : f[i] = f[j] => i = j
      /\ \A i \in 1..n : f[i] \in 1..e
      /\ \A m \in 1..e : m \in inuse <=> \A i \in 1..n : f[i] # m
  BY <1>1 DEF Lists
<1> HIDE DEF g, n
<1>3. \A i \in 1..n : f[i] # k
  BY <1>2
<1>4. \A i \in 1..(n + 1) : i = 1 \/ (i \in 2..(n + 1) /\ i - 1 \in 1..n)
  BY <1>1
<1>5. \A i \in 1..(n + 1) : i = 1 \/ (i - 1 \in 1..n /\ g[i] = f[i - 1])
  BY <1>1, <1>4
<1>6. \A i, j \in 1..(n + 1) : g[i] = g[j] => i = j
  <2> TAKE i, j \in 1..(n + 1)
  <2>1. CASE i = 1 \/ j = 1
    BY <2>1, <1>1, <1>3, <1>5
  <2>2. CASE i # 1 /\ j # 1
    <3>1. f[i - 1] = f[j - 1] => i - 1 = j - 1
      BY <2>2, <1>5, <1>2
    <3> QED BY <3>1, <2>2, <1>5
  <2> QED BY <2>1, <2>2
<1>7. \A i \in 1..(n + 1) : g[i] \in 1..e
  BY <1>1, <1>2, <1>5
<1>8. ASSUME NEW m \in 1..e
      PROVE  m \in inuse \ {k} <=> \A i \in 1..(n + 1) : g[i] # m
  <2>1. ASSUME NEW i \in 1..n PROVE \E j \in 1..(n + 1) : g[j] = f[i]
    <3>1. i + 1 \in 2..(n + 1) /\ i + 1 \in 1..(n + 1) /\ (i + 1) - 1 = i
      BY <1>1
    <3>2. g[i + 1] = f[(i + 1) - 1]
      BY <3>1, <1>1
    <3> QED BY <3>1, <3>2
  <2>2. 1 \in 1..(n + 1)
    BY <1>1
  <2>3. m \in inuse <=> \A i \in 1..n : f[i] # m
    BY <1>2
  <2> QED BY <2>1, <2>2, <2>3, <1>1, <1>5
<1> QED BY <1>1, <1>6, <1>7, <1>8 DEF Lists, g

\* A free list as long as its block leaves nothing that is in use.
LEMMA FullLists ==
    ASSUME NEW f \in Seq(Nat), NEW inuse, Lists(f, Len(f), inuse)
    PROVE  \A k \in 1..Len(f) : k \notin inuse
<1> DEFINE n == Len(f)
           R == {f[i] : i \in 1..n}
<1>1. n \in Nat /\ DOMAIN f = 1..n /\ f \in [1..n -> Nat]
  OBVIOUS
<1>2. /\ \A i, j \in 1..n : f[i] = f[j] => i = j
      /\ \A i \in 1..n : f[i] \in 1..n
      /\ \A k \in 1..n : k \in inuse <=> \A i \in 1..n : f[i] # k
  BY <1>1 DEF Lists
<1> HIDE DEF n
<1>3. f \in Bijection(1..n, R)
  <2>1. f \in [1..n -> R]
    BY <1>1
  <2>2. \A i, j \in 1..n : f[i] = f[j] => i = j
    BY <1>2
  <2>3. \A r \in R : \E i \in 1..n : f[i] = r
    OBVIOUS
  <2> QED BY <2>1, <2>2, <2>3 DEF Bijection, Injection, Surjection, IsInjective
<1>4. IsFiniteSet(1..n) /\ Cardinality(1..n) = n
  <2>1. 1 \in Int /\ n \in Int
    BY <1>1
  <2>2. IsFiniteSet(1..n) /\ Cardinality(1..n) = IF 1 > n THEN 0 ELSE n - 1 + 1
    BY <2>1, FS_Interval
  <2> QED BY <2>2, <1>1
<1>5. ExistsBijection(1..n, R)
  BY <1>3 DEF ExistsBijection
<1>6. Cardinality(R) = n
  BY <1>4, <1>5, FS_Bijection
<1>7. R \in SUBSET (1..n)
  BY <1>2
<1>8. R = 1..n
  BY <1>4, <1>6, <1>7, FS_Subset
<1>9. ASSUME NEW k \in 1..n PROVE \E i \in 1..n : f[i] = k
  BY <1>8
<1> QED BY <1>9, <1>2 DEF n

-----------------------------------------------------------------------------
(* Blocks                                                                  *)

LEMMA NewBlockWhole ==
    ASSUME NEW num \in Nat
    PROVE  NewBlock(num) \in HEAPBLOCK /\ Whole(NewBlock(num), {})
<1>1. [k \in 1..num |-> k] \in Seq(Nat) /\ Len([k \in 1..num |-> k]) = num
  OBVIOUS
<1> QED BY <1>1 DEF NewBlock, HEAPBLOCK, Whole, Lists

Updated(block, num, f) == [block EXCEPT !.num_free = num, !.free = f]

LEMMA UpdatedFields ==
    ASSUME NEW block \in HEAPBLOCK, NEW num \in Nat, NEW f \in Seq(Nat)
    PROVE  /\ Updated(block, num, f) \in HEAPBLOCK
           /\ Updated(block, num, f).elements = block.elements
           /\ Updated(block, num, f).num_free = num
           /\ Updated(block, num, f).free = f
  BY DEF HEAPBLOCK, Updated

LEMMA Fields ==
    ASSUME NEW block \in HEAPBLOCK
    PROVE  block.free \in Seq(Nat) /\ block.elements \in Nat /\ block.num_free \in Nat
  BY DEF HEAPBLOCK

LEMMA TakenWhole ==
    ASSUME NEW block \in HEAPBLOCK, NEW inuse, Whole(block, inuse), block.num_free > 0
    PROVE  /\ Taken(block) \in HEAPBLOCK
           /\ Taken(block).elements = block.elements
           /\ Head(block.free) \in 1..block.elements
           /\ Whole(Taken(block), inuse \cup {Head(block.free)})
<1>1. block.free \in Seq(Nat) /\ block.elements \in Nat /\ block.num_free = Len(block.free)
  BY Fields DEF Whole
<1>2. block.free # <<>>
  BY <1>1
<1>3. Tail(block.free) \in Seq(Nat) /\ Len(Tail(block.free)) = block.num_free - 1
  BY <1>1, <1>2, TailOf
<1>4. block.num_free - 1 \in Nat
  BY <1>1, <1>2, TailOf
<1>5. /\ Taken(block) \in HEAPBLOCK /\ Taken(block).elements = block.elements
      /\ Taken(block).num_free = block.num_free - 1 /\ Taken(block).free = Tail(block.free)
  <2>1. Taken(block) = Updated(block, block.num_free - 1, Tail(block.free))
    BY DEF Taken, Updated
  <2>2. ASSUME NEW num \in Nat, NEW f \in Seq(Nat), Taken(block) = Updated(block, num, f)
        PROVE  /\ Taken(block) \in HEAPBLOCK /\ Taken(block).elements = block.elements
               /\ Taken(block).num_free = num /\ Taken(block).free = f
    BY <2>2, UpdatedFields
  <2> QED BY <2>1, <2>2, <1>3, <1>4
<1>6. Head(block.free) \in 1..block.elements
      /\ Lists(Tail(block.free), block.elements, inuse \cup {Head(block.free)})
  BY <1>1, <1>2, TailLists DEF Whole
<1> QED BY <1>3, <1>5, <1>6 DEF Whole

Longer(block, k) == Updated(block, block.num_free + 1, <<k>> \o block.free)

LEMMA GivenBackWhole ==
    ASSUME NEW block \in HEAPBLOCK, NEW inuse, Whole(block, inuse),
           NEW k \in 1..block.elements, k \in inuse
    PROVE  /\ Longer(block, k) \in HEAPBLOCK /\ Longer(block, k).elements = block.elements
           /\ Whole(Longer(block, k), inuse \ {k})
<1>1. /\ block.free \in Seq(Nat) /\ block.elements \in Nat
      /\ block.num_free = Len(block.free) /\ block.num_free + 1 \in Nat
  BY Fields DEF Whole
<1>2. k \in Nat
  BY <1>1
<1>3. <<k>> \o block.free \in Seq(Nat) /\ Len(<<k>> \o block.free) = block.num_free + 1
  BY <1>1, <1>2, ConsOf
<1>4. /\ Longer(block, k) \in HEAPBLOCK /\ Longer(block, k).elements = block.elements
      /\ Longer(block, k).num_free = block.num_free + 1 /\ Longer(block, k).free = <<k>> \o block.free
  <2>1. Longer(block, k) = Updated(block, block.num_free + 1, <<k>> \o block.free)
    BY DEF Longer
  <2>2. ASSUME NEW num \in Nat, NEW f \in Seq(Nat), Longer(block, k) = Updated(block, num, f)
        PROVE  /\ Longer(block, k) \in HEAPBLOCK /\ Longer(block, k).elements = block.elements
               /\ Longer(block, k).num_free = num /\ Longer(block, k).free = f
    BY <2>2, UpdatedFields
  <2> QED BY <2>1, <2>2, <1>1, <1>3
<1>5. Lists(<<k>> \o block.free, block.elements, inuse \ {k})
  BY <1>1, ConsLists DEF Whole
<1> QED BY <1>3, <1>4, <1>5 DEF Whole

\* A block whose counter says that all is free has nothing in use.
LEMMA SpareUnused ==
    ASSUME NEW block \in HEAPBLOCK, NEW inuse, Whole(block, inuse),
           block.num_free = block.elements
    PROVE  \A k \in 1..block.elements : k \notin inuse
  BY Fields, FullLists DEF Whole

-----------------------------------------------------------------------------
(* All blocks together                                                     *)

\* An element taken from the free list of its block.
LEMMA SoundTaken ==
    ASSUME NEW bs, NEW us, Sound(bs, us), NEW b \in DOMAIN bs, b \in Nat, bs[b].num_free > 0
    PROVE  Sound([bs EXCEPT ![b] = Taken(@)], us \cup {<<b, Head(bs[b].free)>>})
<1> DEFINE h  == Head(bs[b].free)
           cs == [bs EXCEPT ![b] = Taken(@)]
           vs == us \cup {<<b, h>>}
<1>1. bs[b] \in HEAPBLOCK /\ Whole(bs[b], InUse(us, b)) /\ us \subseteq Nat \X Nat
  BY DEF Sound
<1>2. /\ Taken(bs[b]) \in HEAPBLOCK /\ Taken(bs[b]).elements = bs[b].elements
      /\ h \in 1..bs[b].elements
      /\ Whole(Taken(bs[b]), InUse(us, b) \cup {h})
  BY <1>1, TakenWhole
<1>3. h \in Nat
  BY <1>1, <1>2, Fields
<1> HIDE DEF h
<1>4. DOMAIN cs = DOMAIN bs /\ cs[b] = Taken(bs[b]) /\ \A c \in DOMAIN bs \ {b} : cs[c] = bs[c]
  OBVIOUS
<1> HIDE DEF cs
<1>5. InUse(vs, b) = InUse(us, b) \cup {h} /\ \A c : c # b => InUse(vs, c) = InUse(us, c)
  BY <1>3 DEF InUse
<1>6. \A c \in DOMAIN cs : cs[c] \in HEAPBLOCK /\ Whole(cs[c], InUse(vs, c))
  BY <1>2, <1>4, <1>5 DEF Sound
<1>7. vs \subseteq Nat \X Nat
  BY <1>1, <1>3
<1>8. \A c \in DOMAIN bs : cs[c].elements = bs[c].elements
  BY <1>2, <1>4
<1>9. \A e \in vs : e[1] \in DOMAIN cs /\ e[2] \in 1..cs[e[1]].elements
  <2> TAKE e \in vs
  <2>1. CASE e \in us
    BY <2>1, <1>4, <1>8 DEF Sound
  <2>2. CASE e = <<b, h>>
    BY <2>2, <1>2, <1>4, <1>8
  <2> QED BY <2>1, <2>2
<1>10. Sound(cs, vs)
  BY <1>6, <1>7, <1>9 DEF Sound
<1> QED BY <1>10 DEF cs, h

\* A new block behind the others.
LEMMA SoundWith ==
    ASSUME NEW us, Sound(blocks, us), NEW b, b \notin DOMAIN blocks, NEW num \in Nat
    PROVE  Sound(With(b, NewBlock(num)), us)
<1> DEFINE cs == With(b, NewBlock(num))
<1>1. /\ DOMAIN cs = DOMAIN blocks \cup {b} /\ cs[b] = NewBlock(num)
      /\ \A c \in DOMAIN blocks : cs[c] = blocks[c]
  BY DEF With
<1>2. InUse(us, b) = {}
  <2> SUFFICES ASSUME NEW k \in Nat, <<b, k>> \in us PROVE FALSE
    BY DEF InUse
  <2> QED BY DEF Sound
<1>3. NewBlock(num) \in HEAPBLOCK /\ Whole(NewBlock(num), InUse(us, b))
  BY <1>2, NewBlockWhole
<1> HIDE DEF cs
<1>4. \A c \in DOMAIN cs : cs[c] \in HEAPBLOCK /\ Whole(cs[c], InUse(us, c))
  BY <1>1, <1>3 DEF Sound
<1>5. us \subseteq Nat \X Nat /\ \A e \in us : e[1] \in DOMAIN cs /\ e[2] \in 1..cs[e[1]].elements
  BY <1>1 DEF Sound
<1>6. Sound(cs, us)
  BY <1>4, <1>5 DEF Sound
<1> QED BY <1>6 DEF cs

\* An element given back to the free list of its block.
LEMMA SoundGivenBack ==
    ASSUME NEW us, Sound(blocks, us), NEW b, NEW k, <<b, k>> \in us
    PROVE  Sound(GivenBack(b, k), us \ {<<b, k>>}) /\ DOMAIN GivenBack(b, k) = DOMAIN blocks
<1> DEFINE cs == GivenBack(b, k)
           vs == us \ {<<b, k>>}
<1>1. us \subseteq Nat \X Nat /\ b \in DOMAIN blocks /\ k \in Nat /\ k \in 1..blocks[b].elements
  BY DEF Sound
<1>2. blocks[b] \in HEAPBLOCK /\ Whole(blocks[b], InUse(us, b)) /\ k \in InUse(us, b)
  BY <1>1 DEF Sound, InUse
<1>3. /\ Longer(blocks[b], k) \in HEAPBLOCK /\ Longer(blocks[b], k).elements = blocks[b].elements
      /\ Whole(Longer(blocks[b], k), InUse(us, b) \ {k})
  BY <1>1, <1>2, GivenBackWhole
<1>4. /\ DOMAIN cs = DOMAIN blocks /\ cs[b] = Longer(blocks[b], k)
      /\ \A c \in DOMAIN blocks \ {b} : cs[c] = blocks[c]
  BY <1>1 DEF GivenBack, Longer, Updated
<1> HIDE DEF cs
<1>5. InUse(vs, b) = InUse(us, b) \ {k} /\ \A c : c # b => InUse(vs, c) = InUse(us, c)
  BY DEF InUse
<1>6. \A c \in DOMAIN cs : cs[c] \in HEAPBLOCK /\ Whole(cs[c], InUse(vs, c))
  BY <1>3, <1>4, <1>5 DEF Sound
<1>7. \A c \in DOMAIN blocks : cs[c].elements = blocks[c].elements
  BY <1>3, <1>4
<1>8. vs \subseteq Nat \X Nat /\ \A e \in vs : e[1] \in DOMAIN cs /\ e[2] \in 1..cs[e[1]].elements
  BY <1>1, <1>4, <1>7 DEF Sound
<1>9. Sound(cs, vs)
  BY <1>6, <1>8 DEF Sound
<1> QED BY <1>4, <1>9 DEF cs

Remaining(bs) == [b \in DOMAIN bs \ Surplus(bs) |-> bs[b]]

\* cleanup() gives back only blocks of which nothing is in use.
LEMMA SoundCleanup ==
    ASSUME NEW bs, NEW us, Sound(bs, us)
    PROVE  Sound(Remaining(bs), us)
<1>1. /\ DOMAIN Remaining(bs) = DOMAIN bs \ Surplus(bs)
      /\ \A b \in DOMAIN Remaining(bs) : Remaining(bs)[b] = bs[b]
  BY DEF Remaining
<1>2. \A b \in DOMAIN Remaining(bs) :
          Remaining(bs)[b] \in HEAPBLOCK /\ Whole(Remaining(bs)[b], InUse(us, b))
  BY <1>1 DEF Sound
<1>3. ASSUME NEW e \in us, e[1] \in Surplus(bs)
      PROVE  FALSE
  <2>1. /\ e[1] \in DOMAIN bs /\ bs[e[1]].num_free = bs[e[1]].elements
        /\ bs[e[1]] \in HEAPBLOCK /\ Whole(bs[e[1]], InUse(us, e[1]))
        /\ e[2] \in 1..bs[e[1]].elements
    BY <1>3 DEF Surplus, Spare, Sound
  <2>2. e[2] \notin InUse(us, e[1])
    BY <2>1, SpareUnused
  <2>3. e \in Nat \X Nat
    BY DEF Sound
  <2> QED BY <2>2, <2>3 DEF InUse
<1>4. \A e \in us : e[1] \in DOMAIN Remaining(bs) /\ e[2] \in 1..Remaining(bs)[e[1]].elements
  BY <1>1, <1>3 DEF Sound
<1> QED BY <1>2, <1>4 DEF Sound

-----------------------------------------------------------------------------
(* The heap                                                                *)

LEMMA InitIInv == HeapInit => IInv
<1> SUFFICES ASSUME HeapInit PROVE IInv
  OBVIOUS
<1>1. created \in 0..1 /\ startnum \in Nat /\ increaseSize \in Nat \ {0} /\ freeCount \in Nat
  BY HeapAssumption DEF HeapInit
<1>2. DOMAIN blocks = 1..created /\ \A b \in DOMAIN blocks : blocks[b] = NewBlock(startnum)
  BY <1>1 DEF HeapInit
<1>3. \A b : InUse(used, b) = {}
  BY DEF HeapInit, InUse
<1>4. Sound(blocks, used)
  <2>1. \A b \in DOMAIN blocks : blocks[b] \in HEAPBLOCK /\ Whole(blocks[b], InUse(used, b))
    BY <1>1, <1>2, <1>3, NewBlockWhole
  <2>2. used = {}
    BY DEF HeapInit
  <2> QED BY <2>1, <2>2 DEF Sound
<1> QED BY <1>1, <1>2, <1>4 DEF IInv

\* The heap never grows by nothing.
LEMMA GrowsOn ==
    ASSUME NEW n \in Nat \ {0}, NEW g \in Nat
    PROVE  n + (n * g) \div 100 \in Nat \ {0}
<1>1. n * g \in Nat
  OBVIOUS
<1>2. \A m \in Nat : m \div 100 \in Nat
  OBVIOUS
<1>3. (n * g) \div 100 \in Nat
  BY <1>1, <1>2
<1>4. \A m \in Nat : n + m \in Nat \ {0}
  OBVIOUS
<1> QED BY <1>3, <1>4

LEMMA MallocFreeKeeps == IInv /\ MallocFree => IInv'
<1> SUFFICES ASSUME IInv, MallocFree PROVE IInv'
  OBVIOUS
<1>1. PICK b \in DOMAIN blocks :
          /\ Serves(b)
          /\ blocks' = [blocks EXCEPT ![b] = Taken(@)]
          /\ Use(b, Head(blocks[b].free))
          /\ UNCHANGED <<created, increaseSize, freeCount>>
  BY DEF MallocFree
<1>2. b \in Nat /\ blocks[b].num_free > 0
  BY <1>1 DEF IInv, Serves
<1>3. Sound(blocks', used')
  BY <1>1, <1>2, SoundTaken DEF IInv, Use
<1>4. DOMAIN blocks' = DOMAIN blocks
  BY <1>1
<1> QED BY <1>1, <1>3, <1>4 DEF IInv

LEMMA MallocGrowKeeps == IInv /\ MallocGrow => IInv'
<1> SUFFICES ASSUME IInv, MallocGrow PROVE IInv'
  OBVIOUS
<1> DEFINE new == NewBlock(increaseSize)
           bs  == With(created + 1, new)
<1>1. /\ created + 1 \in Nat /\ created + 1 \notin DOMAIN blocks /\ increaseSize \in Nat \ {0}
  BY DEF IInv
<1>2. Sound(bs, used)
  BY <1>1, SoundWith DEF IInv
<1>3. /\ DOMAIN bs = DOMAIN blocks \cup {created + 1} /\ bs[created + 1] = new
      /\ \A c \in DOMAIN blocks : bs[c] = blocks[c]
  BY <1>1 DEF With
<1>4. new.num_free > 0 /\ Head(new.free) = 1
  <2>1. [k \in 1..increaseSize |-> k] \in Seq(Nat) /\ Len([k \in 1..increaseSize |-> k]) = increaseSize
    BY <1>1
  <2>2. Head([k \in 1..increaseSize |-> k]) = 1
    BY <1>1, <2>1
  <2> QED BY <1>1, <2>2 DEF NewBlock
<1>5. blocks' = [bs EXCEPT ![created + 1] = Taken(@)]
  BY <1>3 DEF MallocGrow, With
<1> HIDE DEF bs, new
<1>6. Sound(blocks', used')
  <2>1. used' = used \cup {<<created + 1, Head(bs[created + 1].free)>>}
    BY <1>3, <1>4 DEF MallocGrow, Use
  <2> QED BY <1>1, <1>2, <1>3, <1>4, <1>5, <2>1, SoundTaken
<1>7. DOMAIN blocks' \subseteq 1..created'
  <2>1. DOMAIN blocks' = DOMAIN blocks \cup {created + 1} /\ created' = created + 1
    BY <1>3, <1>5 DEF MallocGrow
  <2> QED BY <2>1 DEF IInv
<1>8. increaseSize' \in Nat \ {0} /\ created' \in Nat /\ freeCount' \in Nat
  BY <1>1, GrowsOn, HeapAssumption DEF MallocGrow, IInv
<1> QED BY <1>6, <1>7, <1>8 DEF IInv

LEMMA ReserveKeeps ==
    ASSUME NEW more \in Nat, IInv, Reserve(more)
    PROVE  IInv'
<1>1. created + 1 \in Nat /\ created + 1 \notin DOMAIN blocks
  BY DEF IInv
<1>2. Sound(blocks', used')
  BY <1>1, SoundWith DEF IInv, Reserve
<1>3. DOMAIN blocks' \subseteq 1..created'
  <2>1. DOMAIN blocks' = DOMAIN blocks \cup {created + 1} /\ created' = created + 1
    BY DEF Reserve, With
  <2> QED BY <2>1 DEF IInv
<1>4. increaseSize' \in Nat \ {0} /\ created' \in Nat /\ freeCount' \in Nat
  BY DEF Reserve, IInv
<1> QED BY <1>2, <1>3, <1>4 DEF IInv

LEMMA FreeKeeps ==
    ASSUME NEW b, NEW k, IInv, Free(b, k)
    PROVE  IInv'
<1> DEFINE bs == GivenBack(b, k)
<1>1. <<b, k>> \in used /\ used' = used \ {<<b, k>>}
  BY DEF Free
<1>2. Sound(bs, used') /\ DOMAIN bs = DOMAIN blocks
  BY <1>1, SoundGivenBack DEF IInv
<1>3. \/ blocks' = bs /\ freeCount' = freeCount + 1
      \/ blocks' = Remaining(bs) /\ freeCount' = 0
  BY DEF Free, cleanup, Remaining
<1> HIDE DEF bs
<1>4. Sound(blocks', used')
  BY <1>2, <1>3, SoundCleanup
<1>5. DOMAIN blocks' \subseteq DOMAIN blocks
  BY <1>2, <1>3 DEF Remaining
<1>6. created' = created /\ increaseSize' = increaseSize /\ freeCount' \in Nat
  BY <1>3 DEF Free, IInv
<1> QED BY <1>4, <1>5, <1>6 DEF IInv

LEMMA CleanupKeeps == IInv /\ Cleanup => IInv'
<1> SUFFICES ASSUME IInv, Cleanup PROVE IInv'
  OBVIOUS
<1>1. /\ blocks' = Remaining(blocks) /\ freeCount' = 0
      /\ created' = created /\ increaseSize' = increaseSize /\ used' = used
  BY DEF Cleanup, cleanup, Remaining
<1>2. Sound(blocks', used')
  BY <1>1, SoundCleanup DEF IInv
<1>3. DOMAIN blocks' \subseteq DOMAIN blocks
  BY <1>1 DEF Remaining
<1> QED BY <1>1, <1>2, <1>3 DEF IInv

LEMMA ClearHeapKeeps == IInv /\ ClearHeap => IInv'
<1> SUFFICES ASSUME IInv, ClearHeap PROVE IInv'
  OBVIOUS
<1>1. /\ DOMAIN blocks' = {} /\ used' = {} /\ freeCount' = 0
      /\ created' = created /\ increaseSize' = increaseSize
  BY DEF ClearHeap
<1> QED BY <1>1 DEF IInv, Sound

LEMMA NextIInv == IInv /\ [HeapNext]_hvars => IInv'
<1> SUFFICES ASSUME IInv, [HeapNext]_hvars PROVE IInv'
  OBVIOUS
<1>1. CASE MallocFree
  BY <1>1, MallocFreeKeeps
<1>2. CASE MallocGrow
  BY <1>2, MallocGrowKeeps
<1>3. CASE Cleanup
  BY <1>3, CleanupKeeps
<1>4. CASE ClearHeap
  BY <1>4, ClearHeapKeeps
<1>5. ASSUME NEW more \in 1..MaxReserve, Reserve(more) PROVE IInv'
  BY <1>5, ReserveKeeps, HeapAssumption
<1>6. ASSUME NEW e \in used, Free(e[1], e[2]) PROVE IInv'
  BY <1>6, FreeKeeps
<1>7. CASE UNCHANGED hvars
  BY <1>7 DEF hvars, IInv, Sound, Whole, Lists, InUse, HEAPBLOCK
<1> QED BY <1>1, <1>2, <1>3, <1>4, <1>5, <1>6, <1>7 DEF HeapNext

LEMMA IInvImplies == IInv => HeapTypeOK /\ Accounted
<1> SUFFICES ASSUME IInv PROVE HeapTypeOK /\ Accounted
  OBVIOUS
<1>1. HeapTypeOK
  BY DEF IInv, Sound, HeapTypeOK
<1>2. ASSUME NEW b \in DOMAIN blocks
      PROVE  /\ \A i, j \in DOMAIN blocks[b].free :
                   blocks[b].free[i] = blocks[b].free[j] => i = j
             /\ \A i \in DOMAIN blocks[b].free :
                   blocks[b].free[i] \in 1..blocks[b].elements
             /\ \A k \in 1..blocks[b].elements :
                   <<b, k>> \in used <=> \A i \in DOMAIN blocks[b].free : blocks[b].free[i] # k
  <2>1. blocks[b] \in HEAPBLOCK /\ Lists(blocks[b].free, blocks[b].elements, InUse(used, b))
    BY DEF IInv, Sound, Whole
  <2>2. \A k \in 1..blocks[b].elements : k \in InUse(used, b) <=> <<b, k>> \in used
    BY <2>1, Fields DEF InUse
  <2> QED BY <2>1, <2>2 DEF Lists
<1>3. \A e \in used : e[1] \in DOMAIN blocks /\ e[2] \in 1..blocks[e[1]].elements
  BY DEF IInv, Sound
<1> QED BY <1>1, <1>2, <1>3 DEF Accounted

THEOREM HeapInvariant == HeapSpec => []IInv
  BY InitIInv, NextIInv, PTL DEF HeapSpec

\* The blocks, their free lists and the elements in use have their types: the
\* heap always grows by at least one element.
THEOREM HeapTypeCorrect == HeapSpec => []HeapTypeOK
  BY HeapInvariant, IInvImplies, PTL

\* malloc() never hands out an element that a client has, free() loses none,
\* and cleanup() never gives back a block in use, for every size of the blocks
\* and every order of the calls.
THEOREM EveryElementAccounted == HeapSpec => []Accounted
  BY HeapInvariant, IInvImplies, PTL

-----------------------------------------------------------------------------
(* The counters                                                            *)

Bytes(n, m) == n * HeaderBytes + m * ElementBytes

\* capacity() and the bytes are kept for the sizes of the blocks alone.
Capacity ==
    /\ IsFiniteSet(used) /\ blocksUsed = Cardinality(used)
    /\ blocksAllocated = ElementsOf(blocks, DOMAIN blocks)
    /\ mem_used = Bytes(Cardinality(DOMAIN blocks), blocksUsed)
    /\ mem_allocated = Bytes(Cardinality(DOMAIN blocks), blocksAllocated)

\* Every block has a size, and there are finitely many.
Sized(bs) == IsFiniteSet(DOMAIN bs) /\ \A b \in DOMAIN bs : bs[b].elements \in Nat

\* An element more or less.
LEMMA BytesOne ==
    ASSUME NEW n \in Int, NEW m \in Int
    PROVE  /\ Bytes(n, m + 1) = Bytes(n, m) + ElementBytes
           /\ Bytes(n, m - 1) = Bytes(n, m) - ElementBytes
           /\ Bytes(n, m) \in Int /\ HeaderBytes \in Int /\ ElementBytes \in Int
<1>1. HeaderBytes \in Int /\ ElementBytes \in Int
  BY HeapAssumption
<1>2. /\ \A h \in Int : (n + 1) * h = n * h + h /\ n * h \in Int
      /\ \A h \in Int : (m + 1) * h = m * h + h /\ (m - 1) * h = m * h - h /\ m * h \in Int
  OBVIOUS
<1> QED BY <1>1, <1>2 DEF Bytes

\* A block more, and elements or one of them or none.
LEMMA BytesMore ==
    ASSUME NEW n \in Int, NEW m \in Int, NEW y \in Int, NEW n1 \in Int, NEW m1 \in Int, n1 = n + 1
    PROVE  /\ m1 = m + y => Bytes(n1, m1) = Bytes(n, m) + HeaderBytes + y * ElementBytes
           /\ m1 = m + 1 => Bytes(n1, m1) = Bytes(n, m) + HeaderBytes + ElementBytes
           /\ m1 = m => Bytes(n1, m1) = Bytes(n, m) + HeaderBytes
<1>1. HeaderBytes \in Int /\ ElementBytes \in Int
  BY HeapAssumption
<1>2. /\ \A h \in Int : (n + 1) * h = n * h + h /\ n * h \in Int
      /\ \A h \in Int : (m + y) * h = m * h + y * h /\ m * h \in Int /\ y * h \in Int
      /\ \A h \in Int : (m + 1) * h = m * h + h
  OBVIOUS
<1> QED BY <1>1, <1>2 DEF Bytes

\* Blocks less, and then elements less.
LEMMA BytesLess ==
    ASSUME NEW n \in Int, NEW m \in Int, NEW x \in Int, NEW n1 \in Int, n1 = n - x
    PROVE  Bytes(n1, m) = Bytes(n, m) - x * HeaderBytes
<1>1. HeaderBytes \in Int /\ ElementBytes \in Int
  BY HeapAssumption
<1>2. /\ \A h \in Int : (n - x) * h = n * h - x * h /\ n * h \in Int /\ x * h \in Int
      /\ \A h \in Int : m * h \in Int
  OBVIOUS
<1> QED BY <1>1, <1>2 DEF Bytes

LEMMA BytesFewer ==
    ASSUME NEW n \in Int, NEW m \in Int, NEW y \in Int, NEW m1 \in Int, m1 = m - y
    PROVE  Bytes(n, m1) = Bytes(n, m) - y * ElementBytes
<1>1. HeaderBytes \in Int /\ ElementBytes \in Int
  BY HeapAssumption
<1>2. /\ \A h \in Int : (m - y) * h = m * h - y * h /\ m * h \in Int /\ y * h \in Int
      /\ \A h \in Int : n * h \in Int
  OBVIOUS
<1> QED BY <1>1, <1>2 DEF Bytes

LEMMA ElementsInt ==
    ASSUME NEW bs, Sized(bs), NEW T \in SUBSET DOMAIN bs
    PROVE  ElementsOf(bs, T) \in Nat
<1>1. IsFiniteSet(T) /\ \A b \in T : [c \in T |-> bs[c].elements][b] \in Nat
  BY FS_Subset DEF Sized
<1> QED BY <1>1, SumNat DEF ElementsOf

\* Blocks of the same sizes have as many elements together.
LEMMA ElementsSame ==
    ASSUME NEW bs, NEW T, IsFiniteSet(T), NEW cs,
           \A b \in T : cs[b].elements = bs[b].elements /\ bs[b].elements \in Nat
    PROVE  ElementsOf(cs, T) = ElementsOf(bs, T)
<1> DEFINE f == [b \in T |-> bs[b].elements]
           g == [b \in T |-> cs[b].elements]
<1>1. \A b \in T : f[b] \in Int /\ f[b] = g[b]
  OBVIOUS
<1> HIDE DEF f, g
<1>2. SumFunctionOnSet(f, T) = SumFunctionOnSet(g, T)
  BY <1>1, SumSame
<1> QED BY <1>2 DEF ElementsOf, f, g

\* Some of the blocks and the others make all.
LEMMA ElementsSplit ==
    ASSUME NEW bs, Sized(bs), NEW T \in SUBSET DOMAIN bs
    PROVE  ElementsOf(bs, DOMAIN bs) = ElementsOf(bs, T) + ElementsOf(bs, DOMAIN bs \ T)
<1> DEFINE D == DOMAIN bs
           f == [b \in D |-> bs[b].elements]
<1>1. IsFiniteSet(D) /\ \A b \in D : f[b] \in Int
  BY DEF Sized
<1>2. ASSUME NEW U \in SUBSET D
      PROVE  ElementsOf(bs, U) = SumFunctionOnSet(f, U)
  <2> DEFINE g == [b \in U |-> bs[b].elements]
  <2>1. IsFiniteSet(U) /\ \A b \in U : f[b] \in Int /\ f[b] = g[b]
    BY <1>1, FS_Subset
  <2> HIDE DEF f, g
  <2>2. SumFunctionOnSet(f, U) = SumFunctionOnSet(g, U)
    BY <2>1, SumSame
  <2> QED BY <2>2 DEF ElementsOf, g
<1>3. ElementsOf(bs, D) = SumFunctionOnSet(f, D)
  BY <1>2
<1>4. ElementsOf(bs, T) = SumFunctionOnSet(f, T)
  BY <1>2
<1>5. ElementsOf(bs, D \ T) = SumFunctionOnSet(f, D \ T)
  BY <1>2
<1>6. T \in SUBSET D
  OBVIOUS
<1> HIDE DEF f, D
<1>7. SumFunctionOnSet(f, D) = SumFunctionOnSet(f, T) + SumFunctionOnSet(f, D \ T)
  BY <1>1, <1>6, SumSplit
<1> QED BY <1>3, <1>4, <1>5, <1>7 DEF D

LEMMA SizedBlocks == IInv => Sized(blocks)
<1> SUFFICES ASSUME IInv PROVE Sized(blocks)
  OBVIOUS
<1>1. IsFiniteSet(1..created)
  BY FS_Interval DEF IInv
<1>2. IsFiniteSet(DOMAIN blocks)
  BY <1>1, FS_Subset DEF IInv
<1>3. \A b \in DOMAIN blocks : blocks[b].elements \in Nat
  BY Fields DEF IInv, Sound
<1> QED BY <1>2, <1>3 DEF Sized

\* A block more, behind the others.
LEMMA GrownElements ==
    ASSUME IInv, NEW b, b \notin DOMAIN blocks, NEW num \in Nat, NEW cs,
           DOMAIN cs = DOMAIN blocks \cup {b},
           \A c \in DOMAIN blocks : cs[c].elements = blocks[c].elements,
           cs[b].elements = num
    PROVE  /\ ElementsOf(cs, DOMAIN cs) = ElementsOf(blocks, DOMAIN blocks) + num
           /\ Cardinality(DOMAIN cs) = Cardinality(DOMAIN blocks) + 1
           /\ Cardinality(DOMAIN blocks) \in Nat
<1>1. Sized(blocks) /\ IsFiniteSet(DOMAIN blocks)
  BY SizedBlocks DEF Sized
<1>2. Cardinality(DOMAIN cs) = Cardinality(DOMAIN blocks) + 1 /\ IsFiniteSet(DOMAIN cs)
  BY <1>1, FS_AddElement
<1>3. Sized(cs)
  BY <1>1, <1>2 DEF Sized
<1>4. ElementsOf(cs, DOMAIN cs) = ElementsOf(cs, {b}) + ElementsOf(cs, DOMAIN blocks)
  <2>1. {b} \in SUBSET DOMAIN cs /\ DOMAIN cs \ {b} = DOMAIN blocks
    OBVIOUS
  <2> QED BY <1>3, <2>1, ElementsSplit
<1>5. ElementsOf(cs, DOMAIN blocks) = ElementsOf(blocks, DOMAIN blocks)
  BY <1>1, ElementsSame DEF Sized
<1>6. ElementsOf(cs, {b}) = num
  <2> DEFINE f == [c \in {b} |-> cs[c].elements]
  <2>1. f[b] = num /\ {b} \ {b} = {} /\ \A c \in {b} : f[c] \in Int
    OBVIOUS
  <2>2. ElementsOf(cs, {b}) = SumFunctionOnSet(f, {b})
    BY DEF ElementsOf
  <2> HIDE DEF f
  <2>3. SumFunctionOnSet(f, {b}) = f[b] + SumFunctionOnSet(f, {b} \ {b})
    BY <2>1, FS_Singleton, SumRemove
  <2>4. SumFunctionOnSet(f, {b} \ {b}) = 0
    BY <2>1, SumEmpty
  <2> QED BY <2>1, <2>2, <2>3, <2>4
<1>7. ElementsOf(blocks, DOMAIN blocks) \in Nat
  BY <1>1, ElementsInt
<1> QED BY <1>1, <1>2, <1>4, <1>5, <1>6, <1>7, FS_CardinalityType

\* cleanup() takes off exactly what its blocks added.
LEMMA CleanedElements ==
    ASSUME NEW bs, Sized(bs)
    PROVE  /\ ElementsOf(Remaining(bs), DOMAIN Remaining(bs))
                  = ElementsOf(bs, DOMAIN bs) - ElementsOf(bs, Surplus(bs))
           /\ Cardinality(DOMAIN Remaining(bs)) = Cardinality(DOMAIN bs) - Cardinality(Surplus(bs))
           /\ ElementsOf(bs, DOMAIN bs) \in Nat /\ ElementsOf(bs, Surplus(bs)) \in Nat
           /\ Cardinality(DOMAIN bs) \in Nat /\ Cardinality(Surplus(bs)) \in Nat
<1> DEFINE D == DOMAIN bs
           R == DOMAIN bs \ Surplus(bs)
<1>1. /\ Surplus(bs) \in SUBSET D /\ D \cap Surplus(bs) = Surplus(bs)
      /\ DOMAIN Remaining(bs) = R /\ IsFiniteSet(D)
      /\ \A b \in R : Remaining(bs)[b] = bs[b]
  BY DEF Surplus, Spare, Remaining, Sized
<1>2. IsFiniteSet(R) /\ IsFiniteSet(Surplus(bs))
  BY <1>1, FS_Subset
<1>3. ElementsOf(bs, D) = ElementsOf(bs, Surplus(bs)) + ElementsOf(bs, R)
  BY <1>1, ElementsSplit
<1>4. ElementsOf(Remaining(bs), R) = ElementsOf(bs, R)
  BY <1>1, <1>2, ElementsSame DEF Sized
<1>5. ElementsOf(bs, D) \in Nat /\ ElementsOf(bs, Surplus(bs)) \in Nat /\ ElementsOf(bs, R) \in Nat
  BY <1>1, ElementsInt
<1>6. Cardinality(R) = Cardinality(D) - Cardinality(Surplus(bs))
  BY <1>1, FS_Difference
<1>7. Cardinality(D) \in Nat /\ Cardinality(Surplus(bs)) \in Nat
  BY <1>1, <1>2, FS_CardinalityType
<1> HIDE DEF R
<1> QED BY <1>1, <1>3, <1>4, <1>5, <1>6, <1>7

LEMMA InitCapacity == HeapInit => Capacity
<1> SUFFICES ASSUME HeapInit PROVE Capacity
  OBVIOUS
<1>1. /\ created \in 0..1 /\ startnum \in Nat /\ (created = 0 <=> startnum = 0)
      /\ blocks = [b \in 1..created |-> NewBlock(startnum)]
  BY HeapAssumption DEF HeapInit
<1>2. IsFiniteSet(used) /\ Cardinality(used) = 0 /\ blocksUsed = 0
  BY FS_EmptySet DEF HeapInit
<1> DEFINE D == DOMAIN blocks
           f == [b \in D |-> blocks[b].elements]
<1>3. ElementsOf(blocks, D) = startnum /\ Cardinality(D) = created
  <2>1. CASE created = 0
    <3>1. D = {}
      BY <1>1, <2>1
    <3>2. SumFunctionOnSet(f, {}) = 0
      BY SumEmpty
    <3> HIDE DEF D
    <3> QED BY <1>1, <2>1, <3>1, <3>2, FS_EmptySet DEF ElementsOf
  <2>2. CASE created = 1
    <3>1. D = {1} /\ f[1] = startnum /\ \A c \in {1} : f[c] \in Int
      BY <1>1, <2>2 DEF NewBlock
    <3>2. ElementsOf(blocks, D) = SumFunctionOnSet(f, {1})
      BY <3>1 DEF ElementsOf
    <3> HIDE DEF f, D
    <3>3. SumFunctionOnSet(f, {1}) = f[1] + SumFunctionOnSet(f, {1} \ {1})
      BY <3>1, FS_Singleton, SumRemove
    <3>4. {1} \ {1} = {}
      OBVIOUS
    <3>5. SumFunctionOnSet(f, {1} \ {1}) = 0
      BY <3>4, SumEmpty
    <3>6. ElementsOf(blocks, D) = startnum
      BY <1>1, <3>1, <3>2, <3>3, <3>5
    <3>7. Cardinality(D) = created
      BY <2>2, <3>1, FS_Singleton
    <3> QED BY <3>6, <3>7
  <2> QED BY <1>1, <2>1, <2>2
<1>4. HeaderBytes \in Nat /\ ElementBytes \in Nat /\ 0 * ElementBytes = 0
  BY HeapAssumption
<1> QED BY <1>2, <1>3, <1>4 DEF HeapInit, Capacity, Bytes

\* An element more, of the first block with one.
LEMMA MallocFreeCounts == IInv /\ Capacity /\ MallocFree => Capacity'
<1> SUFFICES ASSUME IInv, Capacity, MallocFree PROVE Capacity'
  OBVIOUS
<1>1. PICK b \in DOMAIN blocks :
          /\ Serves(b)
          /\ blocks' = [blocks EXCEPT ![b] = Taken(@)]
          /\ Use(b, Head(blocks[b].free))
          /\ mem_used' = mem_used + ElementBytes
          /\ UNCHANGED <<blocksAllocated, mem_allocated>>
  BY DEF MallocFree
<1> DEFINE k == Head(blocks[b].free)
<1>2. /\ blocks[b] \in HEAPBLOCK /\ Whole(blocks[b], InUse(used, b)) /\ blocks[b].num_free > 0
  BY <1>1 DEF IInv, Sound, Serves
<1>3. Taken(blocks[b]).elements = blocks[b].elements
  BY <1>2, TakenWhole
<1>4. <<b, k>> \notin used
  <2>1. blocks[b].free \in Seq(Nat) /\ blocks[b].free # <<>>
    BY <1>2, Fields DEF Whole
  <2>2. k = blocks[b].free[1] /\ 1 \in DOMAIN blocks[b].free /\ k \in Nat
    BY <2>1, TailOf
  <2>3. k \in 1..blocks[b].elements /\ k \notin InUse(used, b)
    BY <1>2, <2>2 DEF Whole, Lists
  <2> QED BY <2>2, <2>3 DEF InUse
<1> HIDE DEF k
<1>5. IsFiniteSet(used') /\ Cardinality(used') = Cardinality(used) + 1
  BY <1>1, <1>4, FS_AddElement DEF Use, Capacity, k
<1>6. DOMAIN blocks' = DOMAIN blocks /\ ElementsOf(blocks', DOMAIN blocks') = ElementsOf(blocks, DOMAIN blocks)
  <2>1. /\ DOMAIN blocks' = DOMAIN blocks
        /\ \A c \in DOMAIN blocks : blocks'[c].elements = blocks[c].elements
    BY <1>1, <1>3
  <2> QED BY <2>1, SizedBlocks, ElementsSame DEF Sized
<1>7. Cardinality(DOMAIN blocks) \in Int /\ blocksUsed \in Int /\ Cardinality(used) \in Int
  BY SizedBlocks, FS_CardinalityType DEF Sized, Capacity
<1>8. mem_used' = Bytes(Cardinality(DOMAIN blocks), blocksUsed + 1)
  BY <1>1, <1>7, BytesOne DEF Capacity
<1> QED BY <1>1, <1>5, <1>6, <1>7, <1>8 DEF Capacity, Use

\* A new block and its first element.
LEMMA MallocGrowCounts == IInv /\ Capacity /\ MallocGrow => Capacity'
<1> SUFFICES ASSUME IInv, Capacity, MallocGrow PROVE Capacity'
  OBVIOUS
<1> DEFINE b == created + 1
           C == Cardinality(DOMAIN blocks)
           D == Cardinality(DOMAIN blocks')
<1>1. b \notin DOMAIN blocks /\ <<b, 1>> \notin used /\ increaseSize \in Nat
  BY DEF IInv, Sound
<1>2. /\ DOMAIN blocks' = DOMAIN blocks \cup {b}
      /\ \A c \in DOMAIN blocks : blocks'[c] = blocks[c]
      /\ blocks'[b] = Taken(NewBlock(increaseSize))
  BY <1>1 DEF MallocGrow, With
<1>3. blocks'[b].elements = increaseSize
  BY <1>2 DEF Taken, NewBlock
<1>4. IsFiniteSet(used') /\ Cardinality(used') = Cardinality(used) + 1
  BY <1>1, FS_AddElement DEF MallocGrow, Use, Capacity
<1> HIDE DEF b
<1>5. /\ ElementsOf(blocks', DOMAIN blocks') = ElementsOf(blocks, DOMAIN blocks) + increaseSize
      /\ D = C + 1 /\ C \in Nat
  <2>1. \A c \in DOMAIN blocks : blocks'[c].elements = blocks[c].elements
    BY <1>2
  <2>2. b \notin DOMAIN blocks /\ increaseSize \in Nat /\ DOMAIN blocks' = DOMAIN blocks \cup {b}
    BY <1>1, <1>2
  <2> HIDE DEF IInv, Capacity, MallocGrow
  <2> QED BY <1>3, <2>1, <2>2, GrownElements DEF C, D
<1>6. blocksUsed \in Int /\ blocksAllocated \in Int
  BY SizedBlocks, ElementsInt, FS_CardinalityType DEF Capacity
<1>7. /\ blocksAllocated' = blocksAllocated + increaseSize /\ blocksUsed' = blocksUsed + 1
      /\ mem_allocated' = Bytes(C, blocksAllocated) + HeaderBytes + increaseSize * ElementBytes
      /\ mem_used' = Bytes(C, blocksUsed) + HeaderBytes + ElementBytes
  BY DEF MallocGrow, Use, Capacity
<1> HIDE DEF C, D
<1>8. C \in Int /\ D \in Int /\ blocksAllocated' \in Int /\ blocksUsed' \in Int /\ increaseSize \in Int
  BY <1>1, <1>5, <1>6, <1>7
<1>9. mem_allocated' = Bytes(D, blocksAllocated')
  BY <1>5, <1>6, <1>7, <1>8, BytesMore
<1>10. mem_used' = Bytes(D, blocksUsed')
  BY <1>5, <1>6, <1>7, <1>8, BytesMore
<1> QED BY <1>4, <1>5, <1>7, <1>9, <1>10 DEF Capacity, D

LEMMA ReserveCounts ==
    ASSUME NEW more \in Nat, IInv, Capacity, Reserve(more)
    PROVE  Capacity'
<1> DEFINE b == created + 1
           C == Cardinality(DOMAIN blocks)
           D == Cardinality(DOMAIN blocks')
<1>1. b \notin DOMAIN blocks
  BY DEF IInv
<1>2. /\ DOMAIN blocks' = DOMAIN blocks \cup {b}
      /\ \A c \in DOMAIN blocks : blocks'[c].elements = blocks[c].elements
      /\ blocks'[b].elements = more
  BY <1>1 DEF Reserve, With, NewBlock
<1> HIDE DEF b
<1>3. /\ ElementsOf(blocks', DOMAIN blocks') = ElementsOf(blocks, DOMAIN blocks) + more
      /\ D = C + 1 /\ C \in Nat
  BY <1>1, <1>2, GrownElements
<1>4. blocksUsed \in Int /\ blocksAllocated \in Int
  BY SizedBlocks, ElementsInt, FS_CardinalityType DEF Capacity
<1>5. /\ blocksAllocated' = blocksAllocated + more /\ blocksUsed' = blocksUsed /\ used' = used
      /\ mem_allocated' = Bytes(C, blocksAllocated) + HeaderBytes + more * ElementBytes
      /\ mem_used' = Bytes(C, blocksUsed) + HeaderBytes
  BY DEF Reserve, Capacity
<1> HIDE DEF C, D
<1>6. C \in Int /\ D \in Int /\ blocksAllocated' \in Int
  BY <1>3, <1>4, <1>5
<1>7. mem_allocated' = Bytes(D, blocksAllocated')
  BY <1>3, <1>4, <1>5, <1>6, BytesMore
<1>8. mem_used' = Bytes(D, blocksUsed')
  BY <1>3, <1>4, <1>5, <1>6, BytesMore
<1> QED BY <1>3, <1>5, <1>7, <1>8 DEF Capacity, D

\* What cleanup() of the blocks bs leaves of the counters.
LEMMA CleanupCounts ==
    ASSUME NEW bs, Sized(bs), cleanup(bs), NEW n \in Int,
           blocksAllocated = ElementsOf(bs, DOMAIN bs),
           mem_allocated = Bytes(Cardinality(DOMAIN bs), blocksAllocated)
    PROVE  /\ blocksAllocated' = ElementsOf(blocks', DOMAIN blocks')
           /\ mem_allocated' = Bytes(Cardinality(DOMAIN blocks'), blocksAllocated')
           /\ Bytes(Cardinality(DOMAIN blocks'), n)
                  = Bytes(Cardinality(DOMAIN bs), n) - Cardinality(Surplus(bs)) * HeaderBytes
           /\ Bytes(Cardinality(DOMAIN blocks'), n - 1)
                  = Bytes(Cardinality(DOMAIN bs), n) - ElementBytes
                    - Cardinality(Surplus(bs)) * HeaderBytes
<1> DEFINE C == Cardinality(DOMAIN bs)
           D == Cardinality(DOMAIN blocks')
           x == Cardinality(Surplus(bs))
           y == ElementsOf(bs, Surplus(bs))
<1>1. blocks' = Remaining(bs)
  BY DEF cleanup, Remaining
<1>2. /\ ElementsOf(blocks', DOMAIN blocks') = ElementsOf(bs, DOMAIN bs) - y
      /\ D = C - x /\ ElementsOf(bs, DOMAIN bs) \in Nat /\ y \in Nat /\ C \in Nat /\ x \in Nat
  BY <1>1, CleanedElements
<1>3. /\ blocksAllocated' = blocksAllocated - y
      /\ mem_allocated' = Bytes(C, blocksAllocated) - x * HeaderBytes - y * ElementBytes
  BY DEF cleanup
<1> HIDE DEF C, D, x, y
<1>4. /\ C \in Int /\ D \in Int /\ x \in Int /\ y \in Int
      /\ blocksAllocated \in Int /\ blocksAllocated' \in Int
  BY <1>2, <1>3
<1>5. mem_allocated' = Bytes(D, blocksAllocated')
  <2>1. Bytes(D, blocksAllocated') = Bytes(D, blocksAllocated) - y * ElementBytes
    BY <1>3, <1>4, BytesFewer
  <2>2. Bytes(D, blocksAllocated) = Bytes(C, blocksAllocated) - x * HeaderBytes
    BY <1>2, <1>4, BytesLess
  <2> QED BY <1>3, <2>1, <2>2
<1>6. Bytes(D, n) = Bytes(C, n) - x * HeaderBytes
  BY <1>2, <1>4, BytesLess
<1>7. Bytes(D, n - 1) = Bytes(C, n) - ElementBytes - x * HeaderBytes
  <2>1. n - 1 \in Int
    OBVIOUS
  <2>2. Bytes(D, n - 1) = Bytes(C, n - 1) - x * HeaderBytes
    BY <1>2, <1>4, <2>1, BytesLess
  <2>3. Bytes(C, n - 1) = Bytes(C, n) - ElementBytes /\ Bytes(C, n) \in Int
    BY <1>4, BytesOne
  <2>4. x * HeaderBytes \in Int /\ ElementBytes \in Int
    BY <1>4, HeapAssumption
  <2> QED BY <1>4, <2>2, <2>3, <2>4
<1> QED BY <1>2, <1>3, <1>5, <1>6, <1>7 DEF C, D, x

\* An element given back changes the size of no block.
LEMMA GivenBackSizes ==
    ASSUME IInv, NEW b, NEW k, <<b, k>> \in used
    PROVE  /\ Sized(GivenBack(b, k)) /\ DOMAIN GivenBack(b, k) = DOMAIN blocks
           /\ ElementsOf(GivenBack(b, k), DOMAIN blocks) = ElementsOf(blocks, DOMAIN blocks)
<1> DEFINE bs == GivenBack(b, k)
<1>1. b \in DOMAIN blocks /\ blocks[b] \in HEAPBLOCK
  BY DEF IInv, Sound
<1>2. DOMAIN bs = DOMAIN blocks /\ \A c \in DOMAIN blocks : bs[c].elements = blocks[c].elements
  BY <1>1 DEF GivenBack, HEAPBLOCK
<1> HIDE DEF bs
<1>3. Sized(bs)
  BY <1>2, SizedBlocks DEF Sized
<1>4. ElementsOf(bs, DOMAIN blocks) = ElementsOf(blocks, DOMAIN blocks)
  BY <1>2, SizedBlocks, ElementsSame DEF Sized
<1> QED BY <1>2, <1>3, <1>4 DEF bs

LEMMA FreeCounts ==
    ASSUME NEW b, NEW k, IInv, Capacity, Free(b, k)
    PROVE  Capacity'
<1> DEFINE bs == GivenBack(b, k)
           C  == Cardinality(DOMAIN blocks)
<1>1. <<b, k>> \in used /\ used' = used \ {<<b, k>>} /\ blocksUsed' = blocksUsed - 1
  BY DEF Free
<1>2. IsFiniteSet(used') /\ Cardinality(used') = Cardinality(used) - 1
  BY <1>1, FS_RemoveElement DEF Capacity
<1>3. /\ Sized(bs) /\ DOMAIN bs = DOMAIN blocks
      /\ ElementsOf(bs, DOMAIN bs) = ElementsOf(blocks, DOMAIN blocks)
  BY <1>1, GivenBackSizes
<1>4. C \in Int /\ blocksUsed \in Int
  BY SizedBlocks, FS_CardinalityType DEF Sized, Capacity
<1>5. \/ /\ cleanup(bs)
         /\ mem_used' = mem_used - ElementBytes - Cardinality(Surplus(bs)) * HeaderBytes
      \/ /\ blocks' = bs /\ mem_used' = mem_used - ElementBytes
         /\ UNCHANGED <<blocksAllocated, mem_allocated>>
  BY DEF Free
<1>6. mem_used = Bytes(C, blocksUsed)
  BY DEF Capacity
<1> HIDE DEF bs
<1>7. CASE cleanup(bs) /\ mem_used' = mem_used - ElementBytes - Cardinality(Surplus(bs)) * HeaderBytes
  <2>1. /\ blocksAllocated = ElementsOf(bs, DOMAIN bs)
        /\ mem_allocated = Bytes(Cardinality(DOMAIN bs), blocksAllocated)
    BY <1>3 DEF Capacity
  <2>2. /\ blocksAllocated' = ElementsOf(blocks', DOMAIN blocks')
        /\ mem_allocated' = Bytes(Cardinality(DOMAIN blocks'), blocksAllocated')
        /\ Bytes(Cardinality(DOMAIN blocks'), blocksUsed - 1)
               = Bytes(Cardinality(DOMAIN bs), blocksUsed) - ElementBytes
                 - Cardinality(Surplus(bs)) * HeaderBytes
    BY <1>3, <1>4, <1>7, <2>1, CleanupCounts
  <2>3. mem_used' = Bytes(Cardinality(DOMAIN blocks'), blocksUsed')
    BY <1>1, <1>3, <1>6, <1>7, <2>2
  <2> QED BY <1>1, <1>2, <2>2, <2>3 DEF Capacity
<1>8. CASE blocks' = bs /\ mem_used' = mem_used - ElementBytes
           /\ UNCHANGED <<blocksAllocated, mem_allocated>>
  <2>1. mem_used' = Bytes(C, blocksUsed - 1)
    BY <1>4, <1>6, <1>8, BytesOne
  <2> QED BY <1>1, <1>2, <1>3, <1>8, <2>1 DEF Capacity
<1> QED BY <1>5, <1>7, <1>8

LEMMA ClientCleanupCounts == IInv /\ Capacity /\ Cleanup => Capacity'
<1> SUFFICES ASSUME IInv, Capacity, Cleanup PROVE Capacity'
  OBVIOUS
<1>1. /\ cleanup(blocks) /\ blocksUsed' = blocksUsed /\ used' = used
      /\ mem_used' = mem_used - Cardinality(Surplus(blocks)) * HeaderBytes
  BY DEF Cleanup
<1>2. blocksUsed \in Int
  BY FS_CardinalityType DEF Capacity
<1>3. /\ blocksAllocated = ElementsOf(blocks, DOMAIN blocks)
      /\ mem_allocated = Bytes(Cardinality(DOMAIN blocks), blocksAllocated)
      /\ mem_used = Bytes(Cardinality(DOMAIN blocks), blocksUsed)
  BY DEF Capacity
<1>4. /\ blocksAllocated' = ElementsOf(blocks', DOMAIN blocks')
      /\ mem_allocated' = Bytes(Cardinality(DOMAIN blocks'), blocksAllocated')
      /\ Bytes(Cardinality(DOMAIN blocks'), blocksUsed)
             = Bytes(Cardinality(DOMAIN blocks), blocksUsed)
               - Cardinality(Surplus(blocks)) * HeaderBytes
  BY <1>1, <1>2, <1>3, SizedBlocks, CleanupCounts
<1> QED BY <1>1, <1>3, <1>4 DEF Capacity

LEMMA ClearHeapCounts == ClearHeap => Capacity'
<1> SUFFICES ASSUME ClearHeap PROVE Capacity'
  OBVIOUS
<1>1. /\ DOMAIN blocks' = {} /\ used' = {} /\ blocksUsed' = 0 /\ blocksAllocated' = 0
      /\ mem_used' = 0 /\ mem_allocated' = 0
  BY DEF ClearHeap
<1>2. ElementsOf(blocks', {}) = 0
  BY SumEmpty DEF ElementsOf
<1>3. Bytes(0, 0) = 0
  BY HeapAssumption DEF Bytes
<1> QED BY <1>1, <1>2, <1>3, FS_EmptySet DEF Capacity

LEMMA NextCapacity == IInv /\ Capacity /\ [HeapNext]_hvars => Capacity'
<1> SUFFICES ASSUME IInv, Capacity, [HeapNext]_hvars PROVE Capacity'
  OBVIOUS
<1>1. CASE MallocFree
  BY <1>1, MallocFreeCounts
<1>2. CASE MallocGrow
  BY <1>2, MallocGrowCounts
<1>3. CASE Cleanup
  BY <1>3, ClientCleanupCounts
<1>4. CASE ClearHeap
  BY <1>4, ClearHeapCounts
<1>5. ASSUME NEW more \in 1..MaxReserve, Reserve(more) PROVE Capacity'
  BY <1>5, ReserveCounts, HeapAssumption
<1>6. ASSUME NEW e \in used, Free(e[1], e[2]) PROVE Capacity'
  BY <1>6, FreeCounts
<1>7. CASE UNCHANGED hvars
  BY <1>7 DEF hvars, memory, Capacity
<1> QED BY <1>1, <1>2, <1>3, <1>4, <1>5, <1>6, <1>7 DEF HeapNext

\* capacity(), count(), memoryAllocated() and memoryUsed() are exact after every
\* order of calls, for blocks of every size: what cleanup() takes off is what
\* the blocks it gives back had added.
THEOREM CountersAlwaysExact == HeapSpec => []CountersExact
<1>1. HeapSpec => []Capacity
  BY InitCapacity, NextCapacity, HeapInvariant, PTL DEF HeapSpec
<1>2. IInv /\ Capacity => CountersExact
  BY DEF IInv, Sound, Whole, Capacity, Bytes, CountersExact
<1> QED BY <1>1, <1>2, HeapInvariant, PTL

-----------------------------------------------------------------------------
(* MemoryGroup                                                             *)

Links == Addresses \cup {Null}
Headers == [size : Nat, previous : Links, next : Links]
Groups ==
    [header : UNION {[bs -> Headers] : bs \in SUBSET Addresses}, first : Links, last : Links,
     totalSize : Int, totalBlocks : Int]

\* The links of g lead through the blocks s, in both directions.
Chained(g, s) ==
    /\ s \in Seq(Addresses) /\ \A i, j \in DOMAIN s : s[i] = s[j] => i = j
    /\ \A i \in DOMAIN s : s[i] \in DOMAIN g.header
    /\ \A i \in DOMAIN s : g.header[s[i]].next = NextOf(s, i)
    /\ \A i \in DOMAIN s : g.header[s[i]].previous = PreviousOf(s, i)
    /\ g.first = FirstOf(s) /\ g.last = LastOf(s)

LEMMA HeaderType ==
    ASSUME NEW g \in Groups
    PROVE  /\ g.header \in [DOMAIN g.header -> Headers] /\ DOMAIN g.header \subseteq Addresses
           /\ g = [header |-> g.header, first |-> g.first, last |-> g.last,
                   totalSize |-> g.totalSize, totalBlocks |-> g.totalBlocks]
<1>1. PICK bs \in SUBSET Addresses : g.header \in [bs -> Headers]
  BY DEF Groups
<1>2. g = [header |-> g.header, first |-> g.first, last |-> g.last,
                   totalSize |-> g.totalSize, totalBlocks |-> g.totalBlocks]
  BY DEF Groups
<1> QED BY <1>1, <1>2

LEMMA GroupOf ==
    ASSUME NEW bs \in SUBSET Addresses, NEW h \in [bs -> Headers], NEW f \in Links, NEW l \in Links,
           NEW size \in Int, NEW n \in Int
    PROVE  [header |-> h, first |-> f, last |-> l, totalSize |-> size, totalBlocks |-> n] \in Groups
BY DEF Groups

\* What addToList() does to the headers.
LEMMA Added ==
    ASSUME NEW g \in Groups, NEW b \in Addresses, NEW size \in Nat,
           g.last \in DOMAIN g.header \cup {Null}, g.last # b
    PROVE  LET a == addToList(g, b, size) IN
           /\ a \in Groups /\ DOMAIN a.header = DOMAIN g.header \cup {b}
           /\ a.header[b] = [size |-> size, previous |-> g.last, next |-> Null]
           /\ \A c \in DOMAIN g.header \ {b} :
                 /\ a.header[c].size = g.header[c].size
                 /\ a.header[c].previous = g.header[c].previous
                 /\ a.header[c].next = IF c = g.last THEN b ELSE g.header[c].next
           /\ a.first = (IF g.first = Null THEN b ELSE g.first) /\ a.last = b
           /\ a.totalSize = g.totalSize + size + BlockHeader /\ a.totalBlocks = g.totalBlocks + 1
<1> DEFINE linked == IF g.last = Null THEN g ELSE [g EXCEPT !.header[g.last].next = b]
           new == [size |-> size, previous |-> g.last, next |-> Null]
           h == [c \in DOMAIN g.header \cup {b} |-> IF c = b THEN new ELSE linked.header[c]]
           a == [header |-> h, first |-> IF g.first = Null THEN b ELSE g.first, last |-> b,
                 totalSize |-> g.totalSize + size + BlockHeader, totalBlocks |-> g.totalBlocks + 1]
<1>1. /\ g.header \in [DOMAIN g.header -> Headers] /\ DOMAIN g.header \subseteq Addresses
      /\ g = [header |-> g.header, first |-> g.first, last |-> g.last,
              totalSize |-> g.totalSize, totalBlocks |-> g.totalBlocks]
  BY HeaderType
<1>2. Null \notin Addresses /\ BlockHeader \in Int
  BY GroupAssumption
<1>3. /\ g.first \in Links /\ g.last \in Links /\ g.totalSize \in Int /\ g.totalBlocks \in Int
  BY DEF Groups
<1>4. /\ linked = [header |-> linked.header, first |-> g.first, last |-> g.last,
                   totalSize |-> g.totalSize, totalBlocks |-> g.totalBlocks]
      /\ linked.header = IF g.last = Null THEN g.header
                         ELSE [g.header EXCEPT ![g.last] = [@ EXCEPT !.next = b]]
  BY <1>1
<1>5. /\ DOMAIN linked.header = DOMAIN g.header
      /\ \A c \in DOMAIN g.header :
            /\ linked.header[c] \in Headers
            /\ linked.header[c].size = g.header[c].size
            /\ linked.header[c].previous = g.header[c].previous
            /\ linked.header[c].next = IF c = g.last THEN b ELSE g.header[c].next
  <2>1. CASE g.last = Null
    BY <1>1, <1>2, <1>4, <2>1
  <2>2. CASE g.last # Null
    <3>1. g.last \in DOMAIN g.header
      BY <2>2
    <3>2. ASSUME NEW c \in DOMAIN g.header
          PROVE  /\ [g.header[c] EXCEPT !.next = b] \in Headers
                 /\ [g.header[c] EXCEPT !.next = b].size = g.header[c].size
                 /\ [g.header[c] EXCEPT !.next = b].previous = g.header[c].previous
                 /\ [g.header[c] EXCEPT !.next = b].next = b
      <4>1. g.header[c] \in Headers /\ b \in Links
        BY <1>1 DEF Links
      <4> QED BY <4>1 DEF Headers
    <3>3. linked.header = [g.header EXCEPT ![g.last] = [@ EXCEPT !.next = b]]
      BY <1>4, <2>2
    <3> HIDE DEF linked
    <3> QED BY <1>1, <3>1, <3>2, <3>3
  <2> QED BY <2>1, <2>2
<1>6. new \in Headers
  BY <1>3 DEF Headers, Links
<1> HIDE DEF linked, new
<1>7. addToList(g, b, size) = a
  <2>1. WithHeader(linked, b, new) = [header |-> h, first |-> g.first, last |-> g.last,
                   totalSize |-> g.totalSize, totalBlocks |-> g.totalBlocks]
    BY <1>4, <1>5 DEF WithHeader
  <2>2. addToList(g, b, size) =
          [WithHeader(linked, b, new) EXCEPT
             !.last = b, !.first = IF @ = Null THEN b ELSE @,
             !.totalSize = @ + size + BlockHeader, !.totalBlocks = @ + 1]
    BY DEF addToList, linked, new
  <2> DEFINE w == WithHeader(linked, b, new)
  <2>3. addToList(g, b, size) =
          [w EXCEPT !.last = b, !.first = IF @ = Null THEN b ELSE @,
                    !.totalSize = @ + size + BlockHeader, !.totalBlocks = @ + 1]
    BY <2>2
  <2>4. w = [header |-> h, first |-> g.first, last |-> g.last,
             totalSize |-> g.totalSize, totalBlocks |-> g.totalBlocks]
    BY <2>1
  <2> HIDE DEF w, h
  <2> QED BY <2>3, <2>4
<1>8. h \in [DOMAIN g.header \cup {b} -> Headers]
  BY <1>5, <1>6
<1>9. /\ \A c \in DOMAIN g.header \ {b} :
            /\ h[c].size = g.header[c].size
            /\ h[c].previous = g.header[c].previous
            /\ h[c].next = IF c = g.last THEN b ELSE g.header[c].next
      /\ h[b] = new
  BY <1>5
<1> HIDE DEF h
<1>10. a \in Groups
  <2>1. DOMAIN g.header \cup {b} \in SUBSET Addresses
    BY <1>1
  <2>2. (IF g.first = Null THEN b ELSE g.first) \in Links /\ b \in Links
    BY <1>3 DEF Links
  <2>3. g.totalSize + size + BlockHeader \in Int /\ g.totalBlocks + 1 \in Int
    BY <1>2, <1>3
  <2> QED BY <1>8, <2>1, <2>2, <2>3, GroupOf
<1> QED BY <1>7, <1>8, <1>9, <1>10 DEF new

\* What removeFromList() does to the headers.
LEMMA Removed ==
    ASSUME NEW g \in Groups, NEW b \in DOMAIN g.header
    PROVE  LET r == removeFromList(g, b)
               m == g.header[b] IN
           /\ r \in Groups /\ DOMAIN r.header = DOMAIN g.header
           /\ \A c \in DOMAIN g.header :
                 /\ r.header[c].size = g.header[c].size
                 /\ r.header[c].previous = IF c = m.next THEN m.previous ELSE g.header[c].previous
                 /\ r.header[c].next = IF c = m.previous THEN m.next ELSE g.header[c].next
           /\ r.first = (IF b = g.first THEN m.next ELSE g.first)
           /\ r.last = (IF b = g.last THEN m.previous ELSE g.last)
           /\ r.totalSize = g.totalSize - (m.size + BlockHeader)
           /\ r.totalBlocks = g.totalBlocks - 1
<1> DEFINE m == g.header[b]
           h == [c \in DOMAIN g.header |->
                   [g.header[c] EXCEPT !.next = IF c = m.previous THEN m.next ELSE @,
                                       !.previous = IF c = m.next THEN m.previous ELSE @]]
           r == [header |-> h, first |-> IF b = g.first THEN m.next ELSE g.first,
                 last |-> IF b = g.last THEN m.previous ELSE g.last,
                 totalSize |-> g.totalSize - (m.size + BlockHeader),
                 totalBlocks |-> g.totalBlocks - 1]
<1>1. /\ g.header \in [DOMAIN g.header -> Headers] /\ DOMAIN g.header \subseteq Addresses
      /\ g = [header |-> g.header, first |-> g.first, last |-> g.last,
              totalSize |-> g.totalSize, totalBlocks |-> g.totalBlocks]
  BY HeaderType
<1>2. m \in Headers /\ m.previous \in Links /\ m.next \in Links /\ m.size \in Nat
  BY <1>1 DEF Headers
<1>3. /\ g.first \in Links /\ g.last \in Links /\ g.totalSize \in Int /\ g.totalBlocks \in Int
      /\ BlockHeader \in Int
  BY GroupAssumption DEF Groups
<1>4. removeFromList(g, b) = r
  <2>1. removeFromList(g, b) =
          [g EXCEPT !.header = h, !.first = IF b = @ THEN m.next ELSE @,
                    !.last = IF b = @ THEN m.previous ELSE @,
                    !.totalSize = @ - (m.size + BlockHeader), !.totalBlocks = @ - 1]
    BY DEF removeFromList
  <2> HIDE DEF h, m
  <2> QED BY <1>1, <2>1
<1>5. ASSUME NEW c \in DOMAIN g.header
      PROVE  /\ h[c] \in Headers /\ h[c].size = g.header[c].size
             /\ h[c].previous = IF c = m.next THEN m.previous ELSE g.header[c].previous
             /\ h[c].next = IF c = m.previous THEN m.next ELSE g.header[c].next
  <2> HIDE DEF m
  <2>1. g.header[c] \in Headers
    BY <1>1
  <2>2. h[c] = [g.header[c] EXCEPT !.next = IF c = m.previous THEN m.next ELSE @,
                                   !.previous = IF c = m.next THEN m.previous ELSE @]
    OBVIOUS
  <2> HIDE DEF h
  <2> QED BY <1>2, <2>1, <2>2 DEF Headers
<1>6. h \in [DOMAIN g.header -> Headers]
  BY <1>5
<1> HIDE DEF h, m
<1>7. r \in Groups
  <2>1. /\ (IF b = g.first THEN m.next ELSE g.first) \in Links
        /\ (IF b = g.last THEN m.previous ELSE g.last) \in Links
        /\ g.totalSize - (m.size + BlockHeader) \in Int /\ g.totalBlocks - 1 \in Int
    BY <1>2, <1>3
  <2> QED BY <1>1, <1>6, <2>1, GroupOf
<1> QED BY <1>4, <1>5, <1>6, <1>7 DEF m

LEMMA ReleasedHeader ==
    ASSUME NEW g \in Groups, NEW b
    PROVE  LET r == Released(g, b) IN
           /\ r \in Groups /\ DOMAIN r.header = DOMAIN g.header \ {b}
           /\ \A c \in DOMAIN g.header \ {b} : r.header[c] = g.header[c]
           /\ r.first = g.first /\ r.last = g.last
           /\ r.totalSize = g.totalSize /\ r.totalBlocks = g.totalBlocks
<1>1. /\ g.header \in [DOMAIN g.header -> Headers] /\ DOMAIN g.header \subseteq Addresses
      /\ g = [header |-> g.header, first |-> g.first, last |-> g.last,
              totalSize |-> g.totalSize, totalBlocks |-> g.totalBlocks]
  BY HeaderType
<1> DEFINE h == [c \in DOMAIN g.header \ {b} |-> g.header[c]]
<1>2. Released(g, b) = [header |-> h, first |-> g.first, last |-> g.last,
                        totalSize |-> g.totalSize, totalBlocks |-> g.totalBlocks]
  BY <1>1 DEF Released
<1>3. h \in [DOMAIN g.header \ {b} -> Headers] /\ DOMAIN g.header \ {b} \in SUBSET Addresses
  BY <1>1
<1>4. /\ g.first \in Links /\ g.last \in Links /\ g.totalSize \in Int /\ g.totalBlocks \in Int
  BY DEF Groups
<1> QED BY <1>2, <1>3, <1>4, GroupOf

\* A sequence without its k-th element.
Cut(s, k) == [i \in 1..(Len(s) - 1) |-> IF i < k THEN s[i] ELSE s[i + 1]]

LEMMA CutIs ==
    ASSUME NEW S, NEW s \in Seq(S), NEW k \in 1..Len(s)
    PROVE  /\ Cut(s, k) \in Seq(S) /\ Len(Cut(s, k)) = Len(s) - 1
           /\ SubSeq(s, 1, k - 1) \o SubSeq(s, k + 1, Len(s)) = Cut(s, k)
<1> DEFINE front == SubSeq(s, 1, k - 1)
           back == SubSeq(s, k + 1, Len(s))
<1>1. Len(s) \in Nat /\ \A i \in 1..Len(s) : s[i] \in S
  OBVIOUS
<1>2. Cut(s, k) \in Seq(S) /\ Len(Cut(s, k)) = Len(s) - 1
  <2>1. \A i \in 1..(Len(s) - 1) : (IF i < k THEN s[i] ELSE s[i + 1]) \in S
    BY <1>1
  <2> QED BY <1>1, <2>1 DEF Cut
<1>3. /\ front \in Seq(S) /\ Len(front) = k - 1
      /\ \A i \in 1..(k - 1) : front[i] = s[i]
  <2>1. k - 1 \in Int /\ \A i \in 1..(k - 1) : s[i] \in S
    BY <1>1
  <2>2. /\ front \in Seq(S) /\ Len(front) = IF 1 <= k - 1 THEN k - 1 - 1 + 1 ELSE 0
        /\ \A i \in 1..(k - 1 - 1 + 1) : front[i] = s[1 + i - 1]
    BY <2>1, SubSeqProperties
  <2> HIDE DEF front
  <2> QED BY <2>2
<1>4. /\ back \in Seq(S) /\ Len(back) = Len(s) - k
      /\ \A i \in 1..(Len(s) - k) : back[i] = s[k + i]
  <2>1. k + 1 \in Int /\ Len(s) \in Int /\ \A i \in (k + 1)..Len(s) : s[i] \in S
    BY <1>1
  <2>2. /\ back \in Seq(S) /\ Len(back) = IF k + 1 <= Len(s) THEN Len(s) - (k + 1) + 1 ELSE 0
        /\ \A i \in 1..(Len(s) - (k + 1) + 1) : back[i] = s[k + 1 + i - 1]
    BY <2>1, SubSeqProperties
  <2> HIDE DEF back
  <2> QED BY <1>1, <2>2
<1> HIDE DEF front, back
<1>5. /\ front \o back \in Seq(S) /\ Len(front \o back) = Len(s) - 1
      /\ \A i \in 1..(Len(s) - 1) : (front \o back)[i] = IF i < k THEN s[i] ELSE s[i + 1]
  <2>1. /\ front \o back \in Seq(S) /\ Len(front \o back) = Len(front) + Len(back)
        /\ \A i \in 1..(Len(front) + Len(back)) :
              (front \o back)[i] = IF i <= Len(front) THEN front[i] ELSE back[i - Len(front)]
    BY <1>3, <1>4, ConcatProperties
  <2>2. ASSUME NEW i \in 1..(Len(s) - 1)
        PROVE  (front \o back)[i] = IF i < k THEN s[i] ELSE s[i + 1]
    <3>1. i \in 1..(Len(front) + Len(back))
      BY <1>1, <1>3, <1>4
    <3>2. CASE i < k
      BY <1>3, <2>1, <3>1, <3>2
    <3>3. CASE ~(i < k)
      <4>1. i - (k - 1) \in 1..(Len(s) - k) /\ k + (i - (k - 1)) = i + 1
        BY <1>1, <3>3
      <4>2. (front \o back)[i] = back[i - (k - 1)]
        BY <1>3, <2>1, <3>1, <3>3
      <4> QED BY <1>4, <3>3, <4>1, <4>2
    <3> QED BY <3>2, <3>3
  <2> QED BY <1>1, <1>3, <1>4, <2>1, <2>2
<1>6. front \o back = Cut(s, k)
  <2> DEFINE w == front \o back
  <2>1. w = [i \in 1..Len(w) |-> w[i]]
    <3>1. w \in Seq(S)
      BY <1>5
    <3> HIDE DEF w
    <3> QED BY <3>1
  <2>2. Len(w) = Len(s) - 1 /\ \A i \in 1..(Len(s) - 1) : w[i] = IF i < k THEN s[i] ELSE s[i + 1]
    BY <1>5
  <2> HIDE DEF w
  <2>3. w = Cut(s, k)
    BY <2>1, <2>2 DEF Cut
  <2> QED BY <2>3 DEF w
<1> QED BY <1>2, <1>6 DEF front, back

LEMMA ChainedAppend ==
    ASSUME NEW g \in Groups, NEW s, Chained(g, s), NEW b \in Addresses, NEW size \in Nat,
           \A i \in DOMAIN s : s[i] # b
    PROVE  /\ Chained(addToList(g, b, size), Append(s, b))
           /\ g.last \in DOMAIN g.header \cup {Null} /\ g.last # b
<1> DEFINE a == addToList(g, b, size)
           t == Append(s, b)
           n == Len(s)
<1>1. /\ s \in Seq(Addresses) /\ n \in Nat /\ DOMAIN s = 1..n
      /\ \A i \in 1..n : s[i] \in Addresses /\ s[i] # Null
      /\ b # Null
  BY GroupAssumption DEF Chained
<1>2. /\ t \in Seq(Addresses) /\ Len(t) = n + 1 /\ DOMAIN t = 1..(n + 1)
      /\ \A i \in 1..n : t[i] = s[i]
      /\ t[n + 1] = b
  BY <1>1
<1>3. g.last = (IF n = 0 THEN Null ELSE s[n]) /\ g.first = IF n = 0 THEN Null ELSE s[1]
  BY <1>1 DEF Chained, LastOf, FirstOf
<1>4. g.last \in DOMAIN g.header \cup {Null} /\ g.last # b
  BY <1>1, <1>3 DEF Chained
<1>5. /\ DOMAIN a.header = DOMAIN g.header \cup {b}
      /\ a.header[b].previous = g.last /\ a.header[b].next = Null
      /\ \A c \in DOMAIN g.header \ {b} :
            /\ a.header[c].previous = g.header[c].previous
            /\ a.header[c].next = IF c = g.last THEN b ELSE g.header[c].next
      /\ a.first = (IF g.first = Null THEN b ELSE g.first) /\ a.last = b
  <2>1. /\ DOMAIN a.header = DOMAIN g.header \cup {b}
        /\ a.header[b] = [size |-> size, previous |-> g.last, next |-> Null]
        /\ \A c \in DOMAIN g.header \ {b} :
              /\ a.header[c].previous = g.header[c].previous
              /\ a.header[c].next = IF c = g.last THEN b ELSE g.header[c].next
        /\ a.first = (IF g.first = Null THEN b ELSE g.first) /\ a.last = b
    BY <1>4, Added
  <2> HIDE DEF a
  <2> QED BY <2>1
<1> HIDE DEF a, t
<1>6. \A i, j \in DOMAIN t : t[i] = t[j] => i = j
  <2>1. \A i, j \in 1..n : s[i] = s[j] => i = j
    BY <1>1 DEF Chained
  <2> QED BY <1>1, <1>2, <2>1
<1>7. \A i \in 1..n : s[i] \in DOMAIN g.header \ {b}
  BY <1>1 DEF Chained
<1>8. ASSUME NEW i \in DOMAIN t
      PROVE  /\ t[i] \in DOMAIN a.header
             /\ a.header[t[i]].next = NextOf(t, i)
             /\ a.header[t[i]].previous = PreviousOf(t, i)
  <2>1. CASE i = n + 1
    BY <1>1, <1>2, <1>3, <1>5, <2>1 DEF NextOf, PreviousOf
  <2>2. CASE i # n + 1
    <3>1. i \in 1..n /\ t[i] = s[i] /\ s[i] \in DOMAIN g.header \ {b}
      BY <1>1, <1>2, <1>7, <2>2
    <3>2. /\ g.header[s[i]].next = (IF i = n THEN Null ELSE s[i + 1])
          /\ g.header[s[i]].previous = IF i = 1 THEN Null ELSE s[i - 1]
      BY <1>1, <3>1 DEF Chained, NextOf, PreviousOf
    <3>3. s[i] = g.last <=> i = n
      <4>1. n # 0 /\ n \in 1..n /\ g.last = s[n]
        BY <1>1, <1>3, <3>1
      <4> QED BY <1>1, <3>1, <4>1 DEF Chained
    <3>4. NextOf(t, i) = t[i + 1] /\ PreviousOf(t, i) = IF i = 1 THEN Null ELSE t[i - 1]
      BY <1>1, <1>2, <2>2, <3>1 DEF NextOf, PreviousOf
    <3>5. i = n => t[i + 1] = b
      BY <1>2
    <3>6. i # n => i + 1 \in 1..n
      BY <1>1, <3>1
    <3>7. i # 1 => i - 1 \in 1..n
      BY <1>1, <3>1
    <3>8. a.header[s[i]].next = NextOf(t, i)
      BY <1>2, <1>5, <3>1, <3>2, <3>3, <3>4, <3>5, <3>6
    <3>9. a.header[s[i]].previous = PreviousOf(t, i)
      BY <1>2, <1>5, <3>1, <3>2, <3>4, <3>7
    <3> QED BY <1>5, <3>1, <3>8, <3>9
  <2> QED BY <2>1, <2>2
<1>9. a.first = FirstOf(t) /\ a.last = LastOf(t)
  <2>1. t # <<>>
    BY <1>1, <1>2
  <2>2. n # 0 => 1 \in 1..n
    BY <1>1
  <2> QED BY <1>1, <1>2, <1>3, <1>5, <2>1, <2>2 DEF FirstOf, LastOf
<1>10. Chained(a, t)
  BY <1>2, <1>6, <1>8, <1>9 DEF Chained
<1> QED BY <1>4, <1>10 DEF a, t

LEMMA ChainedCut ==
    ASSUME NEW g \in Groups, NEW s, Chained(g, s), NEW k \in DOMAIN s
    PROVE  Chained(removeFromList(g, s[k]), Cut(s, k))
<1> DEFINE r == removeFromList(g, s[k])
           t == Cut(s, k)
           n == Len(s)
           m == g.header[s[k]]
<1>1. /\ s \in Seq(Addresses) /\ n \in Nat /\ DOMAIN s = 1..n /\ k \in 1..n
      /\ \A i \in 1..n : s[i] \in Addresses /\ s[i] # Null /\ s[i] \in DOMAIN g.header
      /\ \A i, j \in 1..n : s[i] = s[j] => i = j
  BY GroupAssumption DEF Chained
<1>2. /\ t \in Seq(Addresses) /\ Len(t) = n - 1 /\ DOMAIN t = 1..(n - 1)
      /\ \A i \in 1..(n - 1) : t[i] = IF i < k THEN s[i] ELSE s[i + 1]
  <2>1. t \in Seq(Addresses) /\ Len(t) = n - 1
    BY <1>1, CutIs
  <2> QED BY <1>1, <2>1 DEF Cut
<1>3. /\ m.next = (IF k = n THEN Null ELSE s[k + 1])
      /\ m.previous = IF k = 1 THEN Null ELSE s[k - 1]
  BY <1>1 DEF Chained, NextOf, PreviousOf
<1>4. /\ DOMAIN r.header = DOMAIN g.header
      /\ \A c \in DOMAIN g.header :
            /\ r.header[c].previous = IF c = m.next THEN m.previous ELSE g.header[c].previous
            /\ r.header[c].next = IF c = m.previous THEN m.next ELSE g.header[c].next
      /\ r.first = (IF s[k] = g.first THEN m.next ELSE g.first)
      /\ r.last = (IF s[k] = g.last THEN m.previous ELSE g.last)
  BY <1>1, Removed
<1>5. g.first = s[1] /\ g.last = s[n]
  BY <1>1 DEF Chained, FirstOf, LastOf
<1> HIDE DEF r, t, m
<1>6. \A i, j \in DOMAIN t : t[i] = t[j] => i = j
  <2>1. ASSUME NEW i \in 1..(n - 1), NEW j \in 1..(n - 1), t[i] = t[j]
        PROVE  i = j
    <3>1. i \in 1..n /\ i + 1 \in 1..n /\ j \in 1..n /\ j + 1 \in 1..n
      BY <1>1
    <3>2. (IF i < k THEN i ELSE i + 1) = (IF j < k THEN j ELSE j + 1)
      BY <1>1, <1>2, <2>1, <3>1
    <3> QED BY <1>1, <3>1, <3>2
  <2> QED BY <1>2, <2>1
<1>7. ASSUME NEW i \in 1..(n - 1)
      PROVE  /\ t[i] \in DOMAIN r.header
             /\ r.header[t[i]].next = NextOf(t, i)
             /\ r.header[t[i]].previous = PreviousOf(t, i)
  <2> DEFINE p == IF i < k THEN i ELSE i + 1
  <2>1. p \in 1..n /\ p # k /\ t[i] = s[p]
    BY <1>1, <1>2
  <2>2. s[p] = m.previous <=> k # 1 /\ p = k - 1
    BY <1>1, <1>3, <2>1
  <2>3. s[p] = m.next <=> k # n /\ p = k + 1
    BY <1>1, <1>3, <2>1
  <2>4. /\ g.header[s[p]].next = (IF p = n THEN Null ELSE s[p + 1])
        /\ g.header[s[p]].previous = IF p = 1 THEN Null ELSE s[p - 1]
    <3> HIDE DEF p
    <3> QED BY <1>1, <2>1 DEF Chained, NextOf, PreviousOf
  <2>5. r.header[t[i]].next = NextOf(t, i)
    <3>1. NextOf(t, i) = IF i = n - 1 THEN Null ELSE IF i + 1 < k THEN s[i + 1] ELSE s[i + 2]
      <4>1. NextOf(t, i) = IF i = n - 1 THEN Null ELSE t[i + 1]
        BY <1>2 DEF NextOf
      <4>2. i # n - 1 => i + 1 \in 1..(n - 1) /\ (i + 1) + 1 = i + 2
        <5>1. n \in Nat /\ i \in 1..(n - 1)
          BY <1>1
        <5> HIDE DEF n, p
        <5> QED BY <5>1
      <4> QED BY <1>2, <4>1, <4>2
    <3>2. r.header[s[p]].next = IF s[p] = m.previous THEN m.next ELSE g.header[s[p]].next
      BY <1>1, <1>4, <2>1
    <3>3. CASE i = k - 1
      <4>1. p = k - 1 /\ k # 1 /\ r.header[s[p]].next = m.next
        BY <1>1, <2>2, <3>2, <3>3
      <4>2. NextOf(t, i) = IF k = n THEN Null ELSE s[k + 1]
        BY <1>1, <3>1, <3>3
      <4> QED BY <1>3, <2>1, <4>1, <4>2
    <3>4. CASE i < k - 1
      <4>1. p = i /\ p # n /\ r.header[s[p]].next = g.header[s[p]].next
        <5>1. p = i /\ p # n /\ p # k - 1
          <6>1. n \in Nat /\ k \in 1..n /\ i \in 1..(n - 1)
            BY <1>1
          <6> QED BY <3>4, <6>1
        <5>2. s[p] # m.previous
          BY <2>2, <5>1
        <5> HIDE DEF p
        <5> QED BY <3>2, <5>1, <5>2
      <4>2. NextOf(t, i) = s[i + 1]
        <5>1. n \in Int /\ k \in 1..n /\ i \in 1..(n - 1)
          BY <1>1
        <5>2. i # n - 1 /\ i + 1 < k
          BY <3>4, <5>1
        <5> QED BY <3>1, <5>2
      <4> QED BY <2>1, <2>4, <4>1, <4>2
    <3>5. CASE i > k - 1
      <4>1. p = i + 1 /\ r.header[s[p]].next = g.header[s[p]].next
        BY <1>1, <2>2, <3>2, <3>5
      <4>2. NextOf(t, i) = IF p = n THEN Null ELSE s[p + 1]
        <5>1. n \in Int /\ k \in 1..n /\ i \in 1..(n - 1)
          BY <1>1
        <5>2. ~(i + 1 < k) /\ (i = n - 1 <=> i + 1 = n) /\ i + 2 = (i + 1) + 1
          BY <3>5, <5>1
        <5> HIDE DEF p
        <5> QED BY <3>1, <4>1, <5>2
      <4> QED BY <2>1, <2>4, <4>1, <4>2
    <3> QED BY <1>1, <3>3, <3>4, <3>5
  <2>6. r.header[t[i]].previous = PreviousOf(t, i)
    <3>1. PreviousOf(t, i) = IF i = 1 THEN Null ELSE IF i - 1 < k THEN s[i - 1] ELSE s[i]
      BY <1>1, <1>2 DEF PreviousOf
    <3>2. r.header[s[p]].previous = IF s[p] = m.next THEN m.previous ELSE g.header[s[p]].previous
      BY <1>1, <1>4, <2>1
    <3>3. CASE i = k
      <4>1. p = k + 1 /\ k # n /\ r.header[s[p]].previous = m.previous
        BY <1>1, <2>3, <3>2, <3>3
      <4>2. PreviousOf(t, i) = IF k = 1 THEN Null ELSE s[k - 1]
        BY <1>1, <3>1, <3>3
      <4> QED BY <1>3, <2>1, <4>1, <4>2
    <3>4. CASE i < k
      <4>1. p = i /\ r.header[s[p]].previous = g.header[s[p]].previous
        BY <1>1, <2>3, <3>2, <3>4
      <4>2. PreviousOf(t, i) = IF p = 1 THEN Null ELSE s[p - 1]
        BY <1>1, <3>1, <3>4, <4>1
      <4> QED BY <2>1, <2>4, <4>1, <4>2
    <3>5. CASE i > k
      <4>1. p = i + 1 /\ p # 1 /\ r.header[s[p]].previous = g.header[s[p]].previous
        BY <1>1, <2>3, <3>2, <3>5
      <4>2. PreviousOf(t, i) = s[i] /\ p - 1 = i
        BY <1>1, <3>1, <3>5, <4>1
      <4> QED BY <2>1, <2>4, <4>1, <4>2
    <3> QED BY <1>1, <3>3, <3>4, <3>5
  <2>7. t[i] \in DOMAIN r.header
    BY <1>1, <1>4, <2>1
  <2> QED BY <2>5, <2>6, <2>7
<1>8. r.first = FirstOf(t) /\ r.last = LastOf(t)
  <2>1. t = <<>> <=> n = 1
    BY <1>1, <1>2
  <2>2. (s[k] = g.first <=> k = 1) /\ (s[k] = g.last <=> k = n)
    BY <1>1, <1>5
  <2>3. FirstOf(t) = IF n = 1 THEN Null ELSE IF 1 < k THEN s[1] ELSE s[2]
    BY <1>1, <1>2, <2>1 DEF FirstOf
  <2>4. LastOf(t) = IF n = 1 THEN Null ELSE IF n - 1 < k THEN s[n - 1] ELSE s[n]
    BY <1>1, <1>2, <2>1 DEF LastOf
  <2> QED BY <1>1, <1>3, <1>4, <1>5, <2>2, <2>3, <2>4
<1>9. Chained(r, t)
  BY <1>2, <1>6, <1>7, <1>8 DEF Chained
<1> QED BY <1>9 DEF r, t

LEMMA ChainedReleased ==
    ASSUME NEW g \in Groups, NEW s, Chained(g, s), NEW b, \A i \in DOMAIN s : s[i] # b
    PROVE  Chained(Released(g, b), s)
<1> DEFINE r == Released(g, b)
<1>1. /\ DOMAIN r.header = DOMAIN g.header \ {b}
      /\ \A c \in DOMAIN g.header \ {b} : r.header[c] = g.header[c]
      /\ r.first = g.first /\ r.last = g.last
  BY ReleasedHeader
<1> HIDE DEF r
<1>2. \A i \in DOMAIN s : s[i] \in DOMAIN r.header /\ r.header[s[i]] = g.header[s[i]]
  BY <1>1 DEF Chained
<1>3. Chained(r, s)
  BY <1>1, <1>2 DEF Chained
<1> QED BY <1>3 DEF r

\* The bytes of some of the blocks.
BytesOf(g, bs) == SumFunctionOnSet([b \in bs |-> g.header[b].size + BlockHeader], bs)

\* A group that counts the blocks s.
Counts(g, s) == g.totalBlocks = Len(s) /\ g.totalSize = GroupBytes + BytesOf(g, Range(s))

LEMMA RangeFinite ==
    ASSUME NEW S, NEW s \in Seq(S)
    PROVE  IsFiniteSet(Range(s)) /\ Range(s) = {s[i] : i \in 1..Len(s)} /\ Range(s) \subseteq S
<1>1. Range(s) = {s[i] : i \in 1..Len(s)}
  BY DEF Range
<1>2. IsFiniteSet(1..Len(s))
  BY FS_Interval
<1>3. s \in Surjection(1..Len(s), Range(s))
  BY <1>1 DEF Surjection
<1>4. IsFiniteSet(Range(s))
  BY <1>2, <1>3, FS_Surjection
<1> QED BY <1>1, <1>4

LEMMA BytesInt ==
    ASSUME NEW g \in Groups, NEW bs \in SUBSET DOMAIN g.header, IsFiniteSet(bs)
    PROVE  /\ BytesOf(g, bs) \in Int
           /\ \A b \in bs : [c \in bs |-> g.header[c].size + BlockHeader][b] \in Int
<1>1. \A c \in DOMAIN g.header : g.header[c].size \in Nat
  BY HeaderType DEF Headers
<1>2. \A b \in bs : g.header[b].size + BlockHeader \in Int
  BY <1>1, GroupAssumption
<1> QED BY <1>2, SumInt DEF BytesOf

LEMMA BytesSame ==
    ASSUME NEW g \in Groups, NEW a \in Groups, NEW bs \in SUBSET DOMAIN g.header, IsFiniteSet(bs),
           \A b \in bs : a.header[b].size = g.header[b].size
    PROVE  BytesOf(a, bs) = BytesOf(g, bs)
<1>1. \A b \in bs : [c \in bs |-> g.header[c].size + BlockHeader][b] \in Int
  BY BytesInt
<1> QED BY <1>1, SumSame DEF BytesOf

LEMMA BytesRemove ==
    ASSUME NEW g \in Groups, NEW bs \in SUBSET DOMAIN g.header, IsFiniteSet(bs), NEW b \in bs
    PROVE  BytesOf(g, bs) = g.header[b].size + BlockHeader + BytesOf(g, bs \ {b})
<1> DEFINE f == [c \in bs |-> g.header[c].size + BlockHeader]
           f0 == [c \in bs \ {b} |-> g.header[c].size + BlockHeader]
<1>1. \A c \in bs : f[c] \in Int
  BY BytesInt
<1>2. SumFunctionOnSet(f, bs) = f[b] + SumFunctionOnSet(f, bs \ {b})
  <2> HIDE DEF f
  <2> QED BY <1>1, SumRemove
<1>3. SumFunctionOnSet(f, bs \ {b}) = SumFunctionOnSet(f0, bs \ {b})
  <2>1. \A c \in bs \ {b} : f[c] \in Int /\ f[c] = f0[c]
    BY <1>1
  <2>2. IsFiniteSet(bs \ {b})
    BY FS_RemoveElement
  <2> HIDE DEF f, f0
  <2> QED BY <2>1, <2>2, SumSame
<1>4. f[b] = g.header[b].size + BlockHeader
  OBVIOUS
<1> QED BY <1>2, <1>3, <1>4 DEF BytesOf

LEMMA CountsAppend ==
    ASSUME NEW g \in Groups, NEW s, Chained(g, s), Counts(g, s), NEW b \in Addresses,
           NEW size \in Nat, \A i \in DOMAIN s : s[i] # b
    PROVE  Counts(addToList(g, b, size), Append(s, b))
<1> DEFINE a == addToList(g, b, size)
           t == Append(s, b)
<1>1. s \in Seq(Addresses) /\ \A i \in DOMAIN s : s[i] \in DOMAIN g.header
  BY DEF Chained
<1>2. g.last \in DOMAIN g.header \cup {Null} /\ g.last # b
  BY ChainedAppend
<1>3. /\ a \in Groups /\ DOMAIN a.header = DOMAIN g.header \cup {b}
      /\ a.header[b] = [size |-> size, previous |-> g.last, next |-> Null]
      /\ \A c \in DOMAIN g.header \ {b} : a.header[c].size = g.header[c].size
      /\ a.totalSize = g.totalSize + size + BlockHeader /\ a.totalBlocks = g.totalBlocks + 1
  BY <1>2, Added
<1> HIDE DEF a
<1>4. /\ t \in Seq(Addresses) /\ Len(t) = Len(s) + 1 /\ t[Len(s) + 1] = b
      /\ \A i \in 1..Len(s) : t[i] = s[i]
  BY <1>1
<1>5. IsFiniteSet(Range(s)) /\ Range(s) \subseteq DOMAIN g.header \ {b}
  BY <1>1, RangeFinite
<1>6. Range(t) = Range(s) \cup {b}
  <2>1. Range(t) = {t[i] : i \in 1..(Len(s) + 1)} /\ Range(s) = {s[i] : i \in 1..Len(s)}
    BY <1>1, <1>4, RangeFinite
  <2> HIDE DEF t
  <2>2. \A i \in 1..(Len(s) + 1) : i \in 1..Len(s) \/ i = Len(s) + 1
    BY <1>1
  <2>3. \A i \in 1..Len(s) : i \in 1..(Len(s) + 1)
    BY <1>1
  <2>4. Len(s) + 1 \in 1..(Len(s) + 1)
    BY <1>1
  <2> QED BY <1>4, <2>1, <2>2, <2>3, <2>4
<1> HIDE DEF t
<1>7. BytesOf(a, Range(t)) = a.header[b].size + BlockHeader + BytesOf(a, Range(s))
  <2>1. IsFiniteSet(Range(t))
    BY <1>4, RangeFinite
  <2>2. Range(t) \subseteq DOMAIN a.header /\ b \in Range(t) /\ Range(t) \ {b} = Range(s)
    BY <1>3, <1>5, <1>6
  <2> QED BY <1>3, <2>1, <2>2, BytesRemove
<1>8. BytesOf(a, Range(s)) = BytesOf(g, Range(s)) /\ BytesOf(g, Range(s)) \in Int
  <2>1. \A c \in Range(s) : a.header[c].size = g.header[c].size
    BY <1>3, <1>5
  <2> QED BY <1>3, <1>5, <2>1, BytesSame, BytesInt
<1>9. a.header[b].size = size /\ BlockHeader \in Int /\ GroupBytes \in Int /\ Len(s) \in Int
  BY <1>1, <1>3, GroupAssumption
<1>10. Counts(a, t)
  BY <1>3, <1>4, <1>7, <1>8, <1>9 DEF Counts
<1> QED BY <1>10 DEF a, t

LEMMA CountsCut ==
    ASSUME NEW g \in Groups, NEW s, Chained(g, s), Counts(g, s), NEW k \in DOMAIN s
    PROVE  Counts(removeFromList(g, s[k]), Cut(s, k)) /\ Range(Cut(s, k)) = Range(s) \ {s[k]}
<1> DEFINE r == removeFromList(g, s[k])
           t == Cut(s, k)
           b == s[k]
<1>1. /\ s \in Seq(Addresses) /\ \A i \in DOMAIN s : s[i] \in DOMAIN g.header
      /\ \A i, j \in DOMAIN s : s[i] = s[j] => i = j
  BY DEF Chained
<1>2. /\ r \in Groups /\ DOMAIN r.header = DOMAIN g.header
      /\ \A c \in DOMAIN g.header : r.header[c].size = g.header[c].size
      /\ r.totalSize = g.totalSize - (g.header[b].size + BlockHeader)
      /\ r.totalBlocks = g.totalBlocks - 1
  BY <1>1, Removed
<1>3. /\ t \in Seq(Addresses) /\ Len(t) = Len(s) - 1
      /\ \A i \in 1..(Len(s) - 1) : t[i] = IF i < k THEN s[i] ELSE s[i + 1]
  <2>1. t \in Seq(Addresses) /\ Len(t) = Len(s) - 1
    <3>1. k \in 1..Len(s)
      BY <1>1
    <3> QED BY <1>1, <3>1, CutIs
  <2> QED BY <2>1 DEF Cut
<1> HIDE DEF r, t
<1>4. Range(t) = Range(s) \ {b}
  <2>1. /\ Range(t) = {t[i] : i \in 1..(Len(s) - 1)} /\ Range(s) = {s[i] : i \in 1..Len(s)}
        /\ Len(s) \in Nat /\ k \in 1..Len(s) /\ DOMAIN s = 1..Len(s)
    <3>1. /\ Len(s) \in Nat /\ k \in 1..Len(s) /\ DOMAIN s = 1..Len(s)
          /\ Len(t) = Len(s) - 1
      BY <1>1, <1>3
    <3>2. Range(t) = {t[i] : i \in 1..Len(t)} /\ Range(s) = {s[i] : i \in 1..Len(s)}
      BY <1>1, <1>3, RangeFinite
    <3> QED BY <3>1, <3>2
  <2>2. ASSUME NEW i \in 1..(Len(s) - 1)
        PROVE  t[i] \in Range(s) \ {b}
    <3>1. i \in 1..Len(s) /\ i + 1 \in 1..Len(s)
      BY <2>1
    <3>2. CASE i < k
      BY <1>1, <1>3, <2>1, <3>1, <3>2
    <3>3. CASE ~(i < k)
      <4>1. i + 1 # k /\ t[i] = s[i + 1]
        BY <1>3, <2>1, <3>3
      <4> QED BY <1>1, <2>1, <3>1, <4>1
    <3> QED BY <3>2, <3>3
  <2>3. ASSUME NEW j \in 1..Len(s), s[j] # b
        PROVE  s[j] \in Range(t)
    <3>1. CASE j < k
      <4>1. j \in 1..(Len(s) - 1) /\ t[j] = s[j]
        BY <1>3, <2>1, <3>1
      <4> QED BY <2>1, <4>1
    <3>2. CASE j > k
      <4>1. j - 1 \in 1..(Len(s) - 1) /\ ~(j - 1 < k) /\ j - 1 + 1 = j
        BY <2>1, <3>2
      <4>2. t[j - 1] = s[j]
        BY <1>3, <4>1
      <4> QED BY <2>1, <4>1, <4>2
    <3> QED BY <2>1, <2>3, <3>1, <3>2
  <2> QED BY <2>1, <2>2, <2>3
<1>5. IsFiniteSet(Range(s)) /\ Range(s) \subseteq DOMAIN g.header /\ b \in Range(s)
  BY <1>1, RangeFinite
<1>6. BytesOf(g, Range(s)) = g.header[b].size + BlockHeader + BytesOf(g, Range(t))
  BY <1>4, <1>5, BytesRemove
<1>7. BytesOf(r, Range(t)) = BytesOf(g, Range(t)) /\ BytesOf(g, Range(t)) \in Int
  <2>1. IsFiniteSet(Range(t)) /\ Range(t) \subseteq DOMAIN g.header
    BY <1>4, <1>5, FS_RemoveElement
  <2> QED BY <1>2, <2>1, BytesSame, BytesInt
<1>8. g.header[b].size \in Int /\ BlockHeader \in Int /\ GroupBytes \in Int /\ Len(s) \in Int
  <2>1. g.header[b] \in Headers
    BY <1>5, HeaderType
  <2> QED BY <1>1, <2>1, GroupAssumption DEF Headers
<1>9. Counts(r, t)
  <2>1. g.totalBlocks = Len(s) /\ g.totalSize = GroupBytes + BytesOf(g, Range(s))
    BY DEF Counts
  <2>2. r.totalBlocks = Len(t)
    BY <1>2, <1>3, <2>1
  <2>3. r.totalSize = GroupBytes + BytesOf(r, Range(t))
    <3> DEFINE size == g.header[b].size
               bytes == BytesOf(g, Range(t))
    <3>1. /\ r.totalSize = GroupBytes + (size + BlockHeader + bytes) - (size + BlockHeader)
          /\ size \in Int /\ BlockHeader \in Int /\ GroupBytes \in Int /\ bytes \in Int
      BY <1>2, <1>6, <1>7, <1>8, <2>1
    <3>2. BytesOf(r, Range(t)) = bytes
      BY <1>7
    <3> HIDE DEF size, bytes
    <3>3. r.totalSize = GroupBytes + bytes
      BY <3>1
    <3> QED BY <3>2, <3>3
  <2> QED BY <2>2, <2>3 DEF Counts
<1> QED BY <1>4, <1>9 DEF r, t, b

LEMMA CountsReleased ==
    ASSUME NEW g \in Groups, NEW s, Chained(g, s), Counts(g, s), NEW b,
           \A i \in DOMAIN s : s[i] # b
    PROVE  Counts(Released(g, b), s)
<1> DEFINE r == Released(g, b)
<1>1. /\ r \in Groups /\ DOMAIN r.header = DOMAIN g.header \ {b}
      /\ \A c \in DOMAIN g.header \ {b} : r.header[c] = g.header[c]
      /\ r.totalSize = g.totalSize /\ r.totalBlocks = g.totalBlocks
  BY ReleasedHeader
<1> HIDE DEF r
<1>2. s \in Seq(Addresses) /\ \A i \in DOMAIN s : s[i] \in DOMAIN g.header \ {b}
  BY DEF Chained
<1>3. IsFiniteSet(Range(s)) /\ Range(s) \subseteq DOMAIN g.header \ {b}
  BY <1>2, RangeFinite
<1>4. BytesOf(r, Range(s)) = BytesOf(g, Range(s))
  BY <1>1, <1>3, BytesSame
<1>5. Counts(r, s)
  BY <1>1, <1>4 DEF Counts
<1> QED BY <1>5 DEF r

-----------------------------------------------------------------------------

\* While no clear() has thrown, the group lists the blocks in use.
GroupInv ==
    /\ ~torn => /\ group \in Groups /\ Chained(group, alive) /\ Counts(group, alive)
                /\ Range(alive) = DOMAIN group.header
    /\ BlocksListed

LEMMA ListedIs ==
    ASSUME group \in Groups, Chained(group, alive), Counts(group, alive),
           Range(alive) = DOMAIN group.header, ~torn
    PROVE  BlocksListed
<1>1. SumFunction([b \in DOMAIN group.header |-> group.header[b].size + BlockHeader])
        = BytesOf(group, Range(alive))
  BY DEF SumFunction, BytesOf
<1> QED BY <1>1 DEF BlocksListed, Chained, Counts

\* The history of the blocks in use is that of the list.
LEMMA AliveCut ==
    ASSUME Chained(group, alive), Range(alive) = DOMAIN group.header, NEW b \in DOMAIN group.header
    PROVE  \E k \in DOMAIN alive : alive[k] = b /\ AliveWithout(b) = Cut(alive, k)
<1>1. alive \in Seq(Addresses) /\ \A i, j \in DOMAIN alive : alive[i] = alive[j] => i = j
  BY DEF Chained
<1>2. PICK k \in DOMAIN alive : alive[k] = b
  BY DEF Range
<1>3. (CHOOSE i \in DOMAIN alive : alive[i] = b) = k
  BY <1>1, <1>2
<1>4. AliveWithout(b) = SubSeq(alive, 1, k - 1) \o SubSeq(alive, k + 1, Len(alive))
  BY <1>3 DEF AliveWithout
<1>5. k \in 1..Len(alive)
  BY <1>1
<1> QED BY <1>1, <1>2, <1>4, <1>5, CutIs

\* A group that lists and counts the blocks s.
Holds(g, s) == g \in Groups /\ Chained(g, s) /\ Counts(g, s)

LEMMA HoldsAppend ==
    ASSUME NEW g, NEW s, Holds(g, s), NEW b \in Addresses, NEW size \in Nat,
           \A i \in DOMAIN s : s[i] # b
    PROVE  /\ Holds(addToList(g, b, size), Append(s, b))
           /\ DOMAIN addToList(g, b, size).header = DOMAIN g.header \cup {b}
           /\ Range(Append(s, b)) = Range(s) \cup {b}
<1>1. g \in Groups /\ Chained(g, s) /\ Counts(g, s)
  BY DEF Holds
<1>2. g.last \in DOMAIN g.header \cup {Null} /\ g.last # b
  BY <1>1, ChainedAppend
<1> DEFINE a == addToList(g, b, size)
<1>3. a \in Groups /\ DOMAIN a.header = DOMAIN g.header \cup {b}
  <2>1. g \in Groups
    BY <1>1
  <2>2. /\ a \in Groups /\ DOMAIN a.header = DOMAIN g.header \cup {b}
        /\ a.header[b] = [size |-> size, previous |-> g.last, next |-> Null]
        /\ \A c \in DOMAIN g.header \ {b} : a.header[c].size = g.header[c].size
        /\ a.totalSize = g.totalSize + size + BlockHeader /\ a.totalBlocks = g.totalBlocks + 1
    BY <1>2, <2>1, Added
  <2> QED BY <2>2
<1> HIDE DEF a
<1>4. Range(Append(s, b)) = Range(s) \cup {b}
  <2> DEFINE t == Append(s, b)
  <2>1. /\ s \in Seq(Addresses) /\ t \in Seq(Addresses) /\ Len(t) = Len(s) + 1
        /\ t[Len(s) + 1] = b /\ \A i \in 1..Len(s) : t[i] = s[i]
    BY <1>1 DEF Chained
  <2> HIDE DEF t
  <2>2. Range(t) = {t[i] : i \in 1..(Len(s) + 1)} /\ Range(s) = {s[i] : i \in 1..Len(s)}
    BY <2>1, RangeFinite
  <2>3. /\ \A i \in 1..(Len(s) + 1) : i \in 1..Len(s) \/ i = Len(s) + 1
        /\ \A i \in 1..Len(s) : i \in 1..(Len(s) + 1)
        /\ Len(s) + 1 \in 1..(Len(s) + 1)
    BY <2>1
  <2>4. Range(t) = Range(s) \cup {b}
    BY <2>1, <2>2, <2>3
  <2> QED BY <2>4 DEF t
<1>5. Chained(a, Append(s, b)) /\ Counts(a, Append(s, b))
  BY <1>1, ChainedAppend, CountsAppend DEF a
<1> QED BY <1>3, <1>4, <1>5 DEF Holds, a

LEMMA HoldsCut ==
    ASSUME NEW g, NEW s, Holds(g, s), NEW k \in DOMAIN s
    PROVE  /\ Holds(removeFromList(g, s[k]), Cut(s, k))
           /\ DOMAIN removeFromList(g, s[k]).header = DOMAIN g.header
           /\ Range(Cut(s, k)) = Range(s) \ {s[k]}
           /\ \A i \in DOMAIN Cut(s, k) : Cut(s, k)[i] # s[k]
<1>1. g \in Groups /\ Chained(g, s) /\ Counts(g, s)
  BY DEF Holds
<1>2. s[k] \in DOMAIN g.header
  BY <1>1 DEF Chained
<1>3. /\ removeFromList(g, s[k]) \in Groups
      /\ DOMAIN removeFromList(g, s[k]).header = DOMAIN g.header
  BY <1>1, <1>2, Removed
<1>4. Range(Cut(s, k)) = Range(s) \ {s[k]}
  BY <1>1, CountsCut
<1>5. \A i \in DOMAIN Cut(s, k) : Cut(s, k)[i] # s[k]
  BY <1>4 DEF Range
<1> QED BY <1>1, <1>3, <1>4, <1>5, ChainedCut, CountsCut DEF Holds

LEMMA HoldsReleased ==
    ASSUME NEW g, NEW s, Holds(g, s), NEW b, \A i \in DOMAIN s : s[i] # b
    PROVE  Holds(Released(g, b), s) /\ DOMAIN Released(g, b).header = DOMAIN g.header \ {b}
BY ReleasedHeader, ChainedReleased, CountsReleased DEF Holds

\* What holds of a group in use.
LEMMA GroupHolds ==
    ASSUME GroupInv, ~torn
    PROVE  Holds(group, alive) /\ Range(alive) = DOMAIN group.header /\ DOMAIN group.header \subseteq Addresses
<1>1. Holds(group, alive) /\ Range(alive) = DOMAIN group.header /\ group \in Groups
  BY DEF GroupInv, Holds
<1>2. DOMAIN group.header \subseteq Addresses
  BY <1>1, HeaderType
<1> QED BY <1>1, <1>2

LEMMA EmptyHolds == Holds(EmptyGroup, <<>>) /\ Range(<<>>) = DOMAIN EmptyGroup.header
<1> DEFINE none == [b \in {} |-> Null]
           g == [header |-> none, first |-> Null, last |-> Null,
                 totalSize |-> GroupBytes, totalBlocks |-> 0]
<1>1. g = EmptyGroup /\ DOMAIN none = {}
  BY DEF EmptyGroup
<1>2. none \in [{} -> Headers] /\ {} \in SUBSET Addresses
  OBVIOUS
<1>3. Null \in Links /\ GroupBytes \in Int /\ 0 \in Int
  BY GroupAssumption DEF Links
<1> HIDE DEF none
<1>4. g \in Groups
  BY <1>2, <1>3, GroupOf
<1>5. Chained(g, <<>>)
  BY DEF Chained, FirstOf, LastOf
<1>6. Range(<<>>) = {}
  BY DEF Range
<1>7. Counts(g, <<>>)
  <2>1. BytesOf(g, {}) = 0
    BY SumEmpty DEF BytesOf
  <2>2. /\ g.totalSize = GroupBytes /\ g.totalBlocks = 0
        /\ Len(<<>>) = 0 /\ GroupBytes + 0 = GroupBytes
    BY <1>3
  <2> HIDE DEF g
  <2> QED BY <1>6, <2>1, <2>2 DEF Counts
<1>8. Holds(g, <<>>) /\ Range(<<>>) = DOMAIN g.header
  BY <1>1, <1>4, <1>5, <1>6, <1>7 DEF Holds
<1> HIDE DEF g
<1> QED BY <1>1, <1>8

LEMMA GroupInitInv == GroupInit => GroupInv
BY EmptyHolds, ListedIs DEF GroupInit, GroupInv, Holds

LEMMA ListedNext ==
    ASSUME Holds(group, alive)', (Range(alive) = DOMAIN group.header)', ~torn'
    PROVE  GroupInv'
<1>1. (group \in Groups /\ Chained(group, alive) /\ Counts(group, alive))'
  BY DEF Holds
<1>2. SumFunction([b \in DOMAIN group'.header |-> group'.header[b].size + BlockHeader])
        = BytesOf(group', Range(alive'))
  BY DEF SumFunction, BytesOf
<1>3. BlocksListed'
  BY <1>1, <1>2 DEF BlocksListed, Chained, Counts
<1> QED BY <1>1, <1>3 DEF GroupInv

LEMMA mallocKeeps == GroupInv /\ ~torn /\ malloc => GroupInv'
<1> SUFFICES ASSUME GroupInv, ~torn, malloc PROVE GroupInv'
  OBVIOUS
<1>1. PICK b \in Addresses \ DOMAIN group.header, size \in BlockSizes :
          group' = addToList(group, b, size) /\ alive' = Append(alive, b) /\ torn' = torn
  BY DEF malloc
<1>2. Holds(group, alive) /\ Range(alive) = DOMAIN group.header
  BY GroupHolds
<1>3. size \in Nat /\ b \in Addresses /\ \A i \in DOMAIN alive : alive[i] # b
  BY <1>1, <1>2, GroupAssumption DEF Range
<1>4. Holds(group', alive') /\ Range(alive') = DOMAIN group'.header
  <2>1. /\ Holds(addToList(group, b, size), Append(alive, b))
        /\ DOMAIN addToList(group, b, size).header = DOMAIN group.header \cup {b}
        /\ Range(Append(alive, b)) = Range(alive) \cup {b}
    BY <1>2, <1>3, HoldsAppend
  <2> QED BY <1>1, <1>2, <2>1
<1> QED BY <1>1, <1>4, ListedNext

LEMMA reallocKeeps == GroupInv /\ ~torn /\ realloc => GroupInv'
<1> SUFFICES ASSUME GroupInv, ~torn, realloc PROVE GroupInv'
  OBVIOUS
<1> DEFINE Moved(b, size, c) ==
          /\ group' = addToList(Released(removeFromList(group, b), b), c, size)
          /\ alive' = Append(AliveWithout(b), c) /\ torn' = torn
<1>0. PICK b \in DOMAIN group.header, size \in BlockSizes :
          \E c \in {b} \cup (Addresses \ DOMAIN group.header) : Moved(b, size, c)
  BY DEF realloc
<1>1. PICK c \in {b} \cup (Addresses \ DOMAIN group.header) : Moved(b, size, c)
  BY <1>0
<1>2. Holds(group, alive) /\ Range(alive) = DOMAIN group.header /\ DOMAIN group.header \subseteq Addresses
  BY GroupHolds
<1>3. PICK k \in DOMAIN alive : alive[k] = b /\ AliveWithout(b) = Cut(alive, k)
  BY <1>2, AliveCut DEF Holds
<1> DEFINE r == removeFromList(group, b)
           t == Cut(alive, k)
           x == Released(r, b)
<1>4. /\ Holds(r, t) /\ DOMAIN r.header = DOMAIN group.header
      /\ Range(t) = DOMAIN group.header \ {b} /\ \A i \in DOMAIN t : t[i] # b
  BY <1>2, <1>3, HoldsCut
<1> HIDE DEF r, t
<1>5. Holds(x, t) /\ DOMAIN x.header = DOMAIN group.header \ {b}
  BY <1>4, HoldsReleased
<1>6. size \in Nat /\ c \in Addresses /\ \A i \in DOMAIN t : t[i] # c
  BY <1>1, <1>2, <1>4, GroupAssumption DEF Range
<1>7. group' = addToList(x, c, size) /\ alive' = Append(t, c)
  BY <1>1, <1>3 DEF r, t
<1> HIDE DEF x
<1>8. Holds(group', alive') /\ Range(alive') = DOMAIN group'.header
  <2>1. /\ Holds(addToList(x, c, size), Append(t, c))
        /\ DOMAIN addToList(x, c, size).header = DOMAIN x.header \cup {c}
        /\ Range(Append(t, c)) = Range(t) \cup {c}
    BY <1>5, <1>6, HoldsAppend
  <2> QED BY <1>4, <1>5, <1>7, <2>1
<1> QED BY <1>1, <1>8, ListedNext

LEMMA reallocFailsKeeps == GroupInv /\ ~torn /\ reallocFails => GroupInv'
<1> SUFFICES ASSUME GroupInv, ~torn, reallocFails PROVE GroupInv'
  OBVIOUS
<1>1. PICK b \in DOMAIN group.header :
          /\ group' = addToList(removeFromList(group, b), b, group.header[b].size)
          /\ alive' = Append(AliveWithout(b), b) /\ torn' = torn
  BY DEF reallocFails
<1>2. Holds(group, alive) /\ Range(alive) = DOMAIN group.header /\ DOMAIN group.header \subseteq Addresses
  BY GroupHolds
<1>3. PICK k \in DOMAIN alive : alive[k] = b /\ AliveWithout(b) = Cut(alive, k)
  BY <1>2, AliveCut DEF Holds
<1> DEFINE r == removeFromList(group, b)
           t == Cut(alive, k)
<1>4. /\ Holds(r, t) /\ DOMAIN r.header = DOMAIN group.header
      /\ Range(t) = DOMAIN group.header \ {b} /\ \A i \in DOMAIN t : t[i] # b
  BY <1>2, <1>3, HoldsCut
<1>5. group.header[b].size \in Nat /\ b \in Addresses
  <2>1. group.header[b] \in Headers
    BY <1>2, HeaderType DEF Holds
  <2> QED BY <1>2, <2>1 DEF Headers
<1>6. group' = addToList(r, b, group.header[b].size) /\ alive' = Append(t, b)
  BY <1>1, <1>3
<1> HIDE DEF r, t
<1>7. Holds(group', alive') /\ Range(alive') = DOMAIN group'.header
  <2> DEFINE size == group.header[b].size
  <2>1. /\ Holds(addToList(r, b, size), Append(t, b))
        /\ DOMAIN addToList(r, b, size).header = DOMAIN r.header \cup {b}
        /\ Range(Append(t, b)) = Range(t) \cup {b}
    <3> HIDE DEF size
    <3> QED BY <1>4, <1>5, HoldsAppend DEF size
  <2> QED BY <1>4, <1>6, <2>1
<1> QED BY <1>1, <1>7, ListedNext

LEMMA freeKeeps == GroupInv /\ ~torn /\ free => GroupInv'
<1> SUFFICES ASSUME GroupInv, ~torn, free PROVE GroupInv'
  OBVIOUS
<1>1. PICK b \in DOMAIN group.header :
          /\ group' = Released(removeFromList(group, b), b)
          /\ alive' = AliveWithout(b) /\ torn' = torn
  BY DEF free
<1>2. Holds(group, alive) /\ Range(alive) = DOMAIN group.header
  BY GroupHolds
<1>3. PICK k \in DOMAIN alive : alive[k] = b /\ AliveWithout(b) = Cut(alive, k)
  BY <1>2, AliveCut DEF Holds
<1> DEFINE r == removeFromList(group, b)
           t == Cut(alive, k)
<1>4. /\ Holds(r, t) /\ DOMAIN r.header = DOMAIN group.header
      /\ Range(t) = DOMAIN group.header \ {b} /\ \A i \in DOMAIN t : t[i] # b
  BY <1>2, <1>3, HoldsCut
<1>5. group' = Released(r, b) /\ alive' = t
  BY <1>1, <1>3
<1> HIDE DEF r, t
<1>6. Holds(group', alive') /\ Range(alive') = DOMAIN group'.header
  <2>1. Holds(Released(r, b), t) /\ DOMAIN Released(r, b).header = DOMAIN r.header \ {b}
    BY <1>4, HoldsReleased
  <2> QED BY <1>4, <1>5, <2>1
<1> QED BY <1>1, <1>6, ListedNext

\* clear() resets a group without blocks; it has taken the first block out of one
\* end of the list when it throws.
LEMMA clearKeeps == GroupInv /\ ~torn /\ clear => GroupInv'
<1> SUFFICES ASSUME GroupInv, ~torn, clear PROVE GroupInv'
  OBVIOUS
<1>1. /\ group \in Groups /\ Chained(group, alive) /\ BlocksListed
      /\ alive \in Seq(Addresses) /\ \A i \in 1..Len(alive) : alive[i] # Null
  BY GroupAssumption DEF GroupInv, Chained
<1>2. CASE group.first = Null
  <2>1. group' = EmptyGroup /\ alive' = alive /\ torn' = torn
    BY <1>2 DEF clear
  <2>2. alive = <<>>
    <3>1. alive # <<>> => 1 \in 1..Len(alive) /\ group.first = alive[1]
      BY <1>1 DEF Chained, FirstOf
    <3> QED BY <1>1, <1>2, <3>1
  <2> QED BY <2>1, <2>2, EmptyHolds, ListedNext
<1>3. CASE group.first # Null
  <2>1. /\ group' = [group EXCEPT !.first = group.header[@].next]
        /\ alive' = alive /\ torn' = TRUE
    BY <1>3 DEF clear
  <2>2. group = [header |-> group.header, first |-> group.first, last |-> group.last,
                 totalSize |-> group.totalSize, totalBlocks |-> group.totalBlocks]
    BY <1>1, HeaderType
  <2>3. /\ group'.header = group.header /\ group'.last = group.last
        /\ group'.totalSize = group.totalSize /\ group'.totalBlocks = group.totalBlocks
        /\ group'.first = group.header[group.first].next
    BY <2>1, <2>2
  <2>4. Len(alive) \in Nat \ {0} /\ 1 \in DOMAIN alive /\ group.first = alive[1]
    <3>1. alive # <<>> /\ group.first = alive[1]
      BY <1>1, <1>3 DEF Chained, FirstOf
    <3> QED BY <1>1, <3>1
  <2> DEFINE t == Tail(alive)
  <2>5. Len(t) = Len(alive) - 1 /\ \A i \in 1..(Len(alive) - 1) : t[i] = alive[i + 1]
    BY <1>1, <2>4
  <2>6. t \in Seq(Addresses) /\ DOMAIN t = 1..(Len(alive) - 1)
    BY <1>1, <2>4
  <2>7. t = <<>> <=> Len(alive) = 1
    <3>1. Len(t) = 0 <=> Len(alive) = 1
      BY <2>4, <2>5
    <3>2. t = <<>> <=> Len(t) = 0
      <4> HIDE DEF t
      <4> QED BY <2>6
    <3> QED BY <3>1, <3>2
  <2> HIDE DEF t
  <2>8. group'.first = FirstOf(t)
    <3>1. group'.first = NextOf(alive, 1)
      BY <1>1, <2>3, <2>4 DEF Chained
    <3>2. Len(alive) # 1 => 1 \in 1..(Len(alive) - 1)
      <4>1. \A n \in Nat \ {0} : n # 1 => 1 \in 1..(n - 1)
        OBVIOUS
      <4> QED BY <2>4, <4>1
    <3> QED BY <2>4, <2>5, <2>7, <3>1, <3>2 DEF NextOf, FirstOf
  <2>9. ASSUME NEW i \in DOMAIN t
        PROVE  group'.header[t[i]].next = NextOf(t, i)
    <3>1. i + 1 \in DOMAIN alive /\ t[i] = alive[i + 1] /\ i \in 1..(Len(alive) - 1)
      BY <1>1, <2>4, <2>5, <2>6
    <3>2. group.header[alive[i + 1]].next = IF i + 1 = Len(alive) THEN Null ELSE alive[i + 2]
      BY <1>1, <3>1 DEF Chained, NextOf
    <3>3. NextOf(t, i) = IF i = Len(alive) - 1 THEN Null ELSE alive[i + 2]
      <4>1. i # Len(alive) - 1 => i + 1 \in 1..(Len(alive) - 1) /\ i + 1 + 1 = i + 2
        BY <2>4, <3>1
      <4> QED BY <2>4, <2>5, <4>1 DEF NextOf
    <3> QED BY <2>3, <2>4, <3>1, <3>2, <3>3
  <2>10. BlocksListed'
    BY <1>1, <2>1, <2>3, <2>8, <2>9 DEF BlocksListed, t
  <2> QED BY <2>1, <2>10 DEF GroupInv
<1> QED BY <1>2, <1>3

LEMMA GroupNextInv == GroupInv /\ [GroupNext]_gvars => GroupInv'
<1> SUFFICES ASSUME GroupInv, [GroupNext]_gvars PROVE GroupInv'
  OBVIOUS
<1>1. CASE UNCHANGED gvars
  BY <1>1 DEF gvars, GroupInv, BlocksListed
<1> QED BY <1>1, mallocKeeps, reallocKeeps, reallocFailsKeeps, freeKeeps, clearKeeps DEF GroupNext

\* For any number of blocks of any sizes, moved by realloc() or left alone when it
\* fails: the list of a MemoryGroup holds the blocks in use in both directions, and
\* count() and size() are theirs, until a clear() of a group with blocks throws.
THEOREM BlocksAlwaysListed == GroupSpec => []BlocksListed
<1>1. GroupInv => BlocksListed
  BY DEF GroupInv
<1> QED BY <1>1, GroupInitInv, GroupNextInv, PTL DEF GroupSpec

-----------------------------------------------------------------------------
(* Powers of two                                                           *)

IsPowers(h, m) == h = [n \in 0..m |-> IF n = 0 THEN 1 ELSE 2 * h[n - 1]]

LEMMA PowersExist == \A m \in Nat : \E h : IsPowers(h, m)
<1> DEFINE Bad == {m \in Nat : ~\E h : IsPowers(h, m)}
<1> SUFFICES ASSUME Bad # {} PROVE FALSE
  OBVIOUS
<1>1. PICK m \in Bad : \A k \in Bad : m <= k
  <2> Bad \in SUBSET Nat
    OBVIOUS
  <2> HIDE DEF Bad
  <2> QED BY Least
<1>2. CASE m = 0
  <2>1. IsPowers([n \in 0..0 |-> 1], 0)
    BY DEF IsPowers
  <2> QED BY <1>2, <2>1
<1>3. CASE m # 0
  <2>1. PICK h : IsPowers(h, m - 1)
    BY <1>1, <1>3
  <2> DEFINE g == [n \in 0..m |-> IF n = m THEN 2 * h[m - 1] ELSE h[n]]
  <2>2. ASSUME NEW n \in 0..m PROVE g[n] = IF n = 0 THEN 1 ELSE 2 * g[n - 1]
    <3>1. CASE n = m
      BY <1>3, <3>1
    <3>2. CASE n # m
      <4>1. n \in 0..(m - 1) /\ g[n] = h[n]
        BY <3>2
      <4>2. h[n] = IF n = 0 THEN 1 ELSE 2 * h[n - 1]
        BY <2>1, <4>1 DEF IsPowers
      <4>3. n # 0 => n - 1 \in 0..m /\ n - 1 # m
        BY <4>1
      <4>4. n # 0 => g[n - 1] = h[n - 1]
        BY <4>3
      <4> QED BY <4>1, <4>2, <4>4
    <3> QED BY <3>1, <3>2
  <2>3. IsPowers(g, m)
    <3>1. g = [n \in 0..m |-> g[n]]
      OBVIOUS
    <3> HIDE DEF g
    <3> QED BY <2>2, <3>1 DEF IsPowers
  <2> QED BY <2>3
<1> QED BY <1>2, <1>3

LEMMA Pow2Is == Pow2 = [n \in 0..ByteBits |-> IF n = 0 THEN 1 ELSE 2 * Pow2[n - 1]]
<1>1. Pow2 = CHOOSE h : IsPowers(h, ByteBits)
  BY DEF Pow2, IsPowers
<1>2. \E h : IsPowers(h, ByteBits)
  BY PowersExist, NetworkAssumption
<1>3. IsPowers(Pow2, ByteBits)
  BY <1>1, <1>2
<1> QED BY <1>3 DEF IsPowers

LEMMA Pow2Step == Pow2[0] = 1 /\ \A n \in 1..ByteBits : Pow2[n] = 2 * Pow2[n - 1]
<1>1. 0 \in 0..ByteBits /\ \A n \in 1..ByteBits : n \in 0..ByteBits /\ n # 0
  BY NetworkAssumption
<1>2. \A n \in 0..ByteBits : Pow2[n] = IF n = 0 THEN 1 ELSE 2 * Pow2[n - 1]
  BY Pow2Is
<1> QED BY <1>1, <1>2

LEMMA Pow2Type == \A n \in 0..ByteBits : Pow2[n] \in Nat \ {0}
<1> DEFINE Bad == {n \in Nat : n <= ByteBits /\ Pow2[n] \notin Nat \ {0}}
<1> SUFFICES ASSUME Bad # {} PROVE FALSE
  BY NetworkAssumption
<1>1. PICK n \in Bad : \A k \in Bad : n <= k
  <2> Bad \in SUBSET Nat
    OBVIOUS
  <2> HIDE DEF Bad
  <2> QED BY Least
<1>2. n # 0
  BY Pow2Step
<1>3. n \in 1..ByteBits /\ n - 1 \in Nat /\ n - 1 <= ByteBits /\ ~(n <= n - 1)
  BY <1>2, NetworkAssumption
<1>4. Pow2[n - 1] \in Nat \ {0}
  BY <1>1, <1>3
<1> QED BY <1>3, <1>4, Pow2Step

\* A byte has a whole number of blocks of every size that a mask leaves.
LEMMA Pow2Divides ==
    \A n \in 0..ByteBits : \E q \in Nat \ {0} : Pow2[ByteBits] = q * Pow2[ByteBits - n]
<1> DEFINE P(n) == \E q \in Nat \ {0} : Pow2[ByteBits] = q * Pow2[ByteBits - n]
           Bad == {n \in Nat : n <= ByteBits /\ ~P(n)}
<1> SUFFICES ASSUME Bad # {} PROVE FALSE
  <2> HIDE DEF P
  <2>1. \A n \in 0..ByteBits : n \in Nat /\ n <= ByteBits
    BY NetworkAssumption
  <2>2. \A n \in 0..ByteBits : P(n)
    BY <2>1
  <2> QED BY <2>2 DEF P
<1>1. PICK n \in Bad : \A k \in Bad : n <= k
  <2> Bad \in SUBSET Nat
    OBVIOUS
  <2> HIDE DEF Bad
  <2> QED BY Least
<1>2. ByteBits \in Nat /\ n \in Nat /\ n <= ByteBits /\ ByteBits - 0 = ByteBits
  BY NetworkAssumption
<1>3. CASE n = 0
  <2>1. Pow2[ByteBits] \in Nat
    BY <1>2, Pow2Type
  <2>2. Pow2[ByteBits] = 1 * Pow2[ByteBits - 0]
    BY <1>2, <2>1
  <2> QED BY <1>3, <2>2
<1>4. CASE n # 0
  <2>1. n - 1 \in Nat /\ n - 1 <= ByteBits /\ ~(n <= n - 1)
    BY <1>2, <1>4
  <2>2. PICK q \in Nat \ {0} : Pow2[ByteBits] = q * Pow2[ByteBits - (n - 1)]
    BY <1>1, <2>1
  <2>3. /\ ByteBits - (n - 1) \in 1..ByteBits /\ ByteBits - n \in 0..ByteBits
        /\ (ByteBits - (n - 1)) - 1 = ByteBits - n
    BY <1>2, <1>4
  <2>4. Pow2[ByteBits - (n - 1)] = 2 * Pow2[ByteBits - n]
    BY <2>3, Pow2Step
  <2>5. Pow2[ByteBits - n] \in Nat
    BY <2>3, Pow2Type
  <2>6. \A p \in Nat : q * (2 * p) = (2 * q) * p
    OBVIOUS
  <2>7. 2 * q \in Nat \ {0} /\ Pow2[ByteBits] = (2 * q) * Pow2[ByteBits - n]
    BY <2>2, <2>4, <2>5, <2>6
  <2> QED BY <2>7
<1> QED BY <1>3, <1>4

LEMMA Pow2Grows ==
    ASSUME NEW i \in 0..ByteBits, NEW j \in 0..ByteBits, i < j
    PROVE  Pow2[i] < Pow2[j]
<1> DEFINE Bad == {k \in Nat : k <= ByteBits /\ i < k /\ ~(Pow2[i] < Pow2[k])}
<1> SUFFICES ASSUME Bad # {} PROVE FALSE
  BY NetworkAssumption
<1>1. PICK k \in Bad : \A m \in Bad : k <= m
  <2> Bad \in SUBSET Nat
    OBVIOUS
  <2> HIDE DEF Bad
  <2> QED BY Least
<1>2. ByteBits \in Nat /\ i \in Nat /\ k \in Nat /\ i < k /\ k <= ByteBits
  BY NetworkAssumption
<1>3. k \in 1..ByteBits /\ k - 1 \in 0..ByteBits /\ k - 1 \in Nat /\ ~(k <= k - 1) /\ k - 1 <= ByteBits
  BY <1>2
<1>4. Pow2[k] = 2 * Pow2[k - 1] /\ Pow2[k - 1] \in Nat \ {0} /\ Pow2[i] \in Nat \ {0}
  BY <1>3, Pow2Step, Pow2Type
<1>5. CASE k - 1 = i
  BY <1>4, <1>5
<1>6. CASE k - 1 # i
  <2>1. i < k - 1
    BY <1>2, <1>6
  <2>2. Pow2[i] < Pow2[k - 1]
    BY <1>1, <1>3, <2>1
  <2> QED BY <1>4, <2>2
<1> QED BY <1>5, <1>6

-----------------------------------------------------------------------------
(* Bytes under a mask                                                      *)

\* The quotient of a number by d > 0, and what it leaves.
LEMMA Quotient ==
    ASSUME NEW x \in Nat, NEW d \in Nat \ {0}
    PROVE  /\ x \div d \in Nat /\ x % d \in 0..(d - 1)
           /\ x = (x \div d) * d + (x % d)
<1> DEFINE q == x \div d
           r == x % d
<1>1. q \in Int /\ r \in 0..(d - 1) /\ x = d * q + r
  OBVIOUS
<1> HIDE DEF q, r
<1>2. q * d = d * q
  BY <1>1
<1>3. q >= 0
  <2> SUFFICES ASSUME q <= -1 PROVE FALSE
    BY <1>1
  <2>1. d * q <= d * (-1)
    BY <1>1
  <2> QED BY <1>1, <2>1
<1>4. q \in Nat /\ r \in 0..(d - 1) /\ x = q * d + r
  BY <1>1, <1>2, <1>3
<1> QED BY <1>4 DEF q, r

LEMMA QuotientIs ==
    ASSUME NEW x \in Nat, NEW d \in Nat \ {0}, NEW q \in Nat, q * d <= x, x < q * d + d
    PROVE  x \div d = q
<1> DEFINE p == x \div d
           r == x % d
<1>1. p \in Nat /\ r \in 0..(d - 1) /\ x = p * d + r
  BY Quotient
<1> HIDE DEF p, r
<1>2. p * d <= x /\ x < p * d + d
  BY <1>1
<1>3. \A a, b \in Nat : a < b => a * d + d <= b * d
  <2> TAKE a, b \in Nat
  <2> SUFFICES ASSUME a < b PROVE a * d + d <= b * d
    OBVIOUS
  <2>1. PICK c \in Nat : b = a + 1 + c
    <3>1. b - a - 1 \in Nat /\ b = a + 1 + (b - a - 1)
      OBVIOUS
    <3> QED BY <3>1
  <2>2. b * d = a * d + d + c * d /\ c * d \in Nat /\ a * d \in Nat
    BY <2>1
  <2> QED BY <2>2
<1>4. ~(p < q) /\ ~(q < p)
  BY <1>1, <1>2, <1>3
<1> QED BY <1>1, <1>4 DEF p

\* Halving a quotient is dividing by the double.
LEMMA HalfQuotient ==
    ASSUME NEW x \in Nat, NEW d \in Nat \ {0}
    PROVE  x \div (2 * d) = (x \div d) \div 2
<1> DEFINE p == x \div d
           h == p \div 2
<1>1. p \in Nat /\ p * d <= x /\ x < p * d + d
  <2> DEFINE r == x % d
  <2>1. r \in 0..(d - 1) /\ p \in Nat /\ x = p * d + r
    BY Quotient
  <2> HIDE DEF p, r
  <2>2. p * d \in Nat
    BY <2>1
  <2> QED BY <2>1, <2>2
<1> HIDE DEF p
<1>2. h \in Nat /\ (p = 2 * h \/ p = 2 * h + 1)
  BY <1>1
<1> HIDE DEF h
<1>3. 2 * d \in Nat \ {0} /\ h * (2 * d) = (2 * h) * d /\ (2 * h + 1) * d = (2 * h) * d + d
      /\ (2 * h) * d \in Nat
  BY <1>2
<1>4. h * (2 * d) <= x /\ x < h * (2 * d) + 2 * d
  BY <1>1, <1>2, <1>3
<1>5. x \div (2 * d) = h
  BY <1>2, <1>3, <1>4, QuotientIs
<1> QED BY <1>5 DEF h, p

\* The first n bits of two bytes are the same if and only if what is left of
\* the bytes without the others is the same.
LEMMA SameBits ==
    ASSUME NEW x \in ByteValues, NEW y \in ByteValues
    PROVE  \A n \in 0..ByteBits :
              (\A k \in 0..(n - 1) : (x \div Pow2[ByteBits - 1 - k]) % 2 = (y \div Pow2[ByteBits - 1 - k]) % 2)
              <=> x \div Pow2[ByteBits - n] = y \div Pow2[ByteBits - n]
<1> DEFINE Same(k) == (x \div Pow2[ByteBits - 1 - k]) % 2 = (y \div Pow2[ByteBits - 1 - k]) % 2
           Left(n) == x \div Pow2[ByteBits - n] = y \div Pow2[ByteBits - n]
           Bad == {n \in Nat : n <= ByteBits /\ ~((\A k \in 0..(n - 1) : Same(k)) <=> Left(n))}
<1>0. ByteBits \in Nat \ {0}
  BY NetworkAssumption
<1> HIDE DEF Same, Left
<1> SUFFICES ASSUME Bad # {} PROVE FALSE
  <2>1. \A n \in 0..ByteBits : n \in Nat /\ n <= ByteBits
    BY <1>0
  <2>2. \A n \in 0..ByteBits : (\A k \in 0..(n - 1) : Same(k)) <=> Left(n)
    BY <2>1
  <2> QED BY <2>2 DEF Same, Left
<1>1. PICK n \in Bad : \A k \in Bad : n <= k
  <2> Bad \in SUBSET Nat
    OBVIOUS
  <2> HIDE DEF Bad
  <2> QED BY Least
<1>2. x \in Nat /\ y \in Nat /\ x < Pow2[ByteBits] /\ y < Pow2[ByteBits]
  <2>1. Pow2[ByteBits] \in Nat \ {0}
    BY <1>0, Pow2Type
  <2> QED BY <2>1 DEF ByteValues
<1>3. n # 0
  <2>1. Left(0)
    <3>1. Pow2[ByteBits] \in Nat \ {0} /\ ByteBits - 0 = ByteBits
      BY <1>0, Pow2Type
    <3>2. 0 \in Nat /\ 0 * Pow2[ByteBits] = 0
      BY <3>1
    <3>3. x \div Pow2[ByteBits] = 0 /\ y \div Pow2[ByteBits] = 0
      BY <1>2, <3>1, <3>2, QuotientIs
    <3> QED BY <3>1, <3>3 DEF Left
  <2>2. 0..(0 - 1) = {}
    OBVIOUS
  <2> QED BY <2>1, <2>2
<1> DEFINE m == n - 1
           d == Pow2[ByteBits - n]
<1>4. /\ m \in Nat /\ m <= ByteBits /\ ~(n <= m) /\ ByteBits - n \in 0..ByteBits
      /\ ByteBits - m \in 1..ByteBits /\ (ByteBits - m) - 1 = ByteBits - n
      /\ ByteBits - 1 - m = ByteBits - n
      /\ 0..(n - 1) = 0..(m - 1) \cup {m}
  BY <1>0, <1>3
<1>5. (\A k \in 0..(m - 1) : Same(k)) <=> Left(m)
  BY <1>1, <1>4
<1>6. d \in Nat \ {0} /\ Pow2[ByteBits - m] = 2 * d
  BY <1>4, Pow2Step, Pow2Type
<1>7. /\ x \div (2 * d) = (x \div d) \div 2 /\ y \div (2 * d) = (y \div d) \div 2
      /\ x \div d \in Nat /\ y \div d \in Nat
  BY <1>2, <1>6, HalfQuotient, Quotient
<1>8. \A u, v \in Nat : u = v <=> u \div 2 = v \div 2 /\ u % 2 = v % 2
  OBVIOUS
<1>9. Left(n) <=> Left(m) /\ Same(m)
  BY <1>4, <1>6, <1>7, <1>8 DEF Left, Same
<1>10. (\A k \in 0..(n - 1) : Same(k)) <=> Left(n)
  BY <1>4, <1>5, <1>9
<1> QED BY <1>1, <1>10

\* A byte lies between what a mask leaves of another one and the last byte with
\* the same first bits if and only if it has these bits.
LEMMA BetweenMasked ==
    ASSUME NEW x \in Nat, NEW y \in Nat, NEW d \in Nat \ {0}
    PROVE  (x \div d) * d <= y /\ y <= (x \div d) * d + d - 1 <=> y \div d = x \div d
<1> DEFINE q == x \div d
<1>1. q \in Nat /\ q * d \in Nat
  <2>1. q \in Nat
    BY Quotient
  <2> HIDE DEF q
  <2> QED BY <2>1
<1>2. y % d \in 0..(d - 1) /\ y \div d \in Nat /\ y = (y \div d) * d + (y % d)
  BY Quotient
<1> HIDE DEF q
<1>3. q * d <= y /\ y <= q * d + d - 1 => y \div d = q
  <2> SUFFICES ASSUME q * d <= y, y <= q * d + d - 1 PROVE y \div d = q
    OBVIOUS
  <2>1. y < q * d + d
    BY <1>1
  <2> QED BY <1>1, <2>1, QuotientIs
<1>4. y \div d = q => q * d <= y /\ y <= q * d + d - 1
  BY <1>1, <1>2
<1> QED BY <1>3, <1>4 DEF q

-----------------------------------------------------------------------------
(* The bytes of a prefix                                                   *)

\* Where a prefix of p bits ends: in byte m, and before and behind it the bytes
\* are whole or not in it at all.
LEMMA PrefixEnds ==
    ASSUME NEW len \in Nat \ {0}, NEW p \in 0..(len * ByteBits)
    PROVE  /\ \A i \in 1..len : BitsIn(p, i) \in 0..ByteBits
           /\ \E m \in 1..len :
                 /\ \A i \in 1..(m - 1) : BitsIn(p, i) = ByteBits
                 /\ \A i \in (m + 1)..len : BitsIn(p, i) = 0
                 /\ p = (m - 1) * ByteBits + BitsIn(p, m)
                 /\ m < len => BitsIn(p, m) < ByteBits
<1>0. ByteBits \in Nat \ {0} /\ len * ByteBits \in Nat /\ p \in Nat /\ p <= len * ByteBits
  BY NetworkAssumption
<1>1. ASSUME NEW i \in 1..len
      PROVE  /\ (i - 1) * ByteBits \in Nat
             /\ BitsIn(p, i) = IF p - (i - 1) * ByteBits < 0 THEN 0
                               ELSE IF p - (i - 1) * ByteBits > ByteBits THEN ByteBits
                               ELSE p - (i - 1) * ByteBits
             /\ BitsIn(p, i) \in 0..ByteBits
  <2> DEFINE w == (i - 1) * ByteBits
  <2>1. w \in Nat
    BY <1>0
  <2>2. BitsIn(p, i) = IF p - w < 0 THEN 0 ELSE IF p - w > ByteBits THEN ByteBits ELSE p - w
    BY DEF BitsIn
  <2> HIDE DEF w
  <2>3. BitsIn(p, i) \in 0..ByteBits
    BY <1>0, <2>1, <2>2
  <2> QED BY <2>1, <2>2, <2>3 DEF w
<1> DEFINE q == p \div ByteBits
           r == p % ByteBits
<1>2. q \in Nat /\ r \in 0..(ByteBits - 1) /\ p = q * ByteBits + r /\ q * ByteBits \in Nat
  <2>1. q \in Nat /\ r \in 0..(ByteBits - 1) /\ p = q * ByteBits + r
    BY <1>0, Quotient
  <2> HIDE DEF q, r
  <2> QED BY <1>0, <2>1
<1> HIDE DEF q, r
<1>3. \A a, b \in Nat : a <= b => a * ByteBits <= b * ByteBits /\ a * ByteBits \in Nat
  <2> TAKE a, b \in Nat
  <2> SUFFICES ASSUME a <= b PROVE a * ByteBits <= b * ByteBits /\ a * ByteBits \in Nat
    OBVIOUS
  <2>1. PICK c \in Nat : b = a + c
    <3>1. b - a \in Nat /\ b = a + (b - a)
      OBVIOUS
    <3> QED BY <3>1
  <2>2. b * ByteBits = a * ByteBits + c * ByteBits /\ c * ByteBits \in Nat /\ a * ByteBits \in Nat
    BY <1>0, <2>1
  <2> QED BY <2>2
<1>4. q <= len
  <2> SUFFICES ASSUME len + 1 <= q PROVE FALSE
    BY <1>2
  <2>1. (len + 1) * ByteBits <= q * ByteBits /\ (len + 1) * ByteBits = len * ByteBits + ByteBits
    BY <1>0, <1>2, <1>3
  <2> QED BY <1>0, <1>2, <2>1
<1>5. ASSUME NEW m \in 1..len, NEW rest \in 0..ByteBits, p = (m - 1) * ByteBits + rest,
             m < len => rest < ByteBits
      PROVE  \E n \in 1..len :
                 /\ \A i \in 1..(n - 1) : BitsIn(p, i) = ByteBits
                 /\ \A i \in (n + 1)..len : BitsIn(p, i) = 0
                 /\ p = (n - 1) * ByteBits + BitsIn(p, n)
                 /\ n < len => BitsIn(p, n) < ByteBits
  <2> DEFINE w == (m - 1) * ByteBits
  <2>1. m - 1 \in Nat /\ w \in Nat /\ rest \in Nat /\ rest <= ByteBits /\ p = w + rest
    BY <1>0, <1>5
  <2>2. BitsIn(p, m) = rest
    <3>1. BitsIn(p, m) = IF p - w < 0 THEN 0 ELSE IF p - w > ByteBits THEN ByteBits ELSE p - w
      BY <1>1
    <3> HIDE DEF w
    <3> QED BY <1>0, <2>1, <3>1
  <2>3. ASSUME NEW i \in 1..(m - 1) PROVE BitsIn(p, i) = ByteBits
    <3> DEFINE v == (i - 1) * ByteBits
    <3>1. /\ v \in Nat /\ i \in 1..len /\ i * ByteBits = v + ByteBits /\ i * ByteBits <= w
      BY <1>0, <1>3, <2>1
    <3>2. BitsIn(p, i) = IF p - v < 0 THEN 0 ELSE IF p - v > ByteBits THEN ByteBits ELSE p - v
      BY <1>1, <3>1
    <3> HIDE DEF v, w
    <3>3. p >= v + ByteBits
      BY <1>0, <2>1, <3>1
    <3> QED BY <1>0, <2>1, <3>1, <3>2, <3>3
  <2>4. ASSUME NEW i \in (m + 1)..len PROVE BitsIn(p, i) = 0
    <3> DEFINE v == (i - 1) * ByteBits
    <3>1. v \in Nat /\ i \in 1..len /\ m \in Nat /\ i - 1 \in Nat /\ m <= i - 1
      BY <1>0
    <3>2. m * ByteBits = w + ByteBits /\ m * ByteBits <= v
      BY <1>0, <1>3, <3>1
    <3>3. BitsIn(p, i) = IF p - v < 0 THEN 0 ELSE IF p - v > ByteBits THEN ByteBits ELSE p - v
      BY <1>1, <3>1
    <3> HIDE DEF v, w
    <3> QED BY <1>0, <2>1, <3>1, <3>2, <3>3
  <2> QED BY <1>5, <2>1, <2>2, <2>3, <2>4
<1>6. CASE q < len
  <2>1. q + 1 \in 1..len /\ (q + 1) - 1 = q /\ r \in 0..ByteBits /\ r < ByteBits
    BY <1>0, <1>2, <1>6
  <2> QED BY <1>1, <1>2, <1>5, <2>1
<1>7. CASE q = len
  <2>1. /\ q * ByteBits = (len - 1) * ByteBits + ByteBits /\ (len - 1) * ByteBits \in Nat
        /\ len \in 1..len /\ ByteBits \in 0..ByteBits
    BY <1>0, <1>7
  <2>2. p = (len - 1) * ByteBits + ByteBits
    <3> DEFINE u == len * ByteBits
               w == (len - 1) * ByteBits
    <3>1. u \in Nat /\ w \in Nat /\ u = w + ByteBits /\ p <= u /\ p = u + r
      BY <1>0, <1>2, <1>7, <2>1
    <3> HIDE DEF u, w
    <3> QED BY <1>2, <3>1 DEF w
  <2>3. ~(len < len)
    OBVIOUS
  <2> QED BY <1>1, <1>5, <2>1, <2>2, <2>3
<1> HIDE DEF q
<1> QED BY <1>1, <1>2, <1>4, <1>6, <1>7

LEMMA AddressType ==
    ASSUME NEW a \in IPAddresses
    PROVE  /\ a.family \in {IPv4, IPv6} /\ addr_len(a.family) \in Nat \ {0}
           /\ a = [family |-> a.family, bytes |-> a.bytes]
           /\ a.bytes \in [1..addr_len(a.family) -> ByteValues]
           /\ DOMAIN a.bytes = 1..addr_len(a.family)
           /\ \A i \in 1..addr_len(a.family) : a.bytes[i] \in Nat /\ a.bytes[i] < Pow2[ByteBits]
<1>1. PICK f \in {IPv4, IPv6} : a \in [family : {f}, bytes : [1..addr_len(f) -> ByteValues]]
  BY DEF IPAddresses
<1>2. addr_len(f) \in Nat \ {0} /\ Pow2[ByteBits] \in Nat
  BY NetworkAssumption, Pow2Type DEF addr_len
<1>3. a.family = f /\ a = [family |-> a.family, bytes |-> a.bytes] /\ a.bytes \in [1..addr_len(f) -> ByteValues]
  BY <1>1
<1>4. \A x \in ByteValues : x \in Nat /\ x < Pow2[ByteBits]
  BY <1>2 DEF ByteValues
<1> QED BY <1>2, <1>3, <1>4

\* The bits of a prefix are those in the bytes, one byte after the other.
LEMMA PrefixBits ==
    ASSUME NEW a \in IPAddresses, NEW b \in IPAddresses, a.family = b.family,
           NEW p \in 0..(addr_len(a.family) * ByteBits)
    PROVE  (\A k \in 0..(p - 1) : Bit(a, k) = Bit(b, k))
           <=> \A i \in 1..addr_len(a.family) :
                  a.bytes[i] \div Pow2[ByteBits - BitsIn(p, i)] = b.bytes[i] \div Pow2[ByteBits - BitsIn(p, i)]
<1> DEFINE len == addr_len(a.family)
           BitOf(x, j) == (x \div Pow2[ByteBits - 1 - j]) % 2
<1>1. /\ len \in Nat \ {0} /\ ByteBits \in Nat \ {0} /\ p \in Nat /\ p <= len * ByteBits
      /\ a.bytes \in [1..len -> ByteValues] /\ b.bytes \in [1..len -> ByteValues]
      /\ len * ByteBits \in Nat
  <2>1. len \in Nat \ {0}
    BY AddressType
  <2> HIDE DEF len
  <2>2. len * ByteBits \in Nat
    BY <2>1, NetworkAssumption
  <2> QED BY <2>1, <2>2, AddressType, NetworkAssumption DEF len
<1>2. \A i \in 1..len : BitsIn(p, i) \in 0..ByteBits
  <2> HIDE DEF len
  <2> QED BY <1>1, PrefixEnds DEF len
<1>3. \A i \in 1..len :
         (\A j \in 0..(BitsIn(p, i) - 1) : BitOf(a.bytes[i], j) = BitOf(b.bytes[i], j))
         <=> a.bytes[i] \div Pow2[ByteBits - BitsIn(p, i)] = b.bytes[i] \div Pow2[ByteBits - BitsIn(p, i)]
  <2> TAKE i \in 1..len
  <2> DEFINE x == a.bytes[i]
             y == b.bytes[i]
             n == BitsIn(p, i)
  <2>1. x \in ByteValues /\ y \in ByteValues /\ n \in 0..ByteBits
    BY <1>1, <1>2
  <2> HIDE DEF x, y, n
  <2>2. (\A j \in 0..(n - 1) : BitOf(x, j) = BitOf(y, j))
        <=> x \div Pow2[ByteBits - n] = y \div Pow2[ByteBits - n]
    BY <2>1, SameBits
  <2> QED BY <2>2 DEF x, y, n
<1>4. \A c, k : Bit(c, k) = BitOf(c.bytes[k \div ByteBits + 1], k % ByteBits)
  BY DEF Bit
<1> HIDE DEF len, BitOf
<1>5. ASSUME NEW k \in 0..(p - 1)
      PROVE  /\ k \div ByteBits + 1 \in 1..len
             /\ k % ByteBits \in 0..(BitsIn(p, k \div ByteBits + 1) - 1)
  <2> DEFINE q == k \div ByteBits
             r == k % ByteBits
             w == q * ByteBits
  <2>1. q \in Nat /\ r \in 0..(ByteBits - 1) /\ k = w + r
    <3>1. k \in Nat /\ ByteBits \in Nat \ {0}
      BY <1>1
    <3> QED BY <3>1, Quotient
  <2> HIDE DEF q, r
  <2>2. q < len
    <3> SUFFICES ASSUME len <= q PROVE FALSE
      BY <1>1, <2>1
    <3>1. PICK c \in Nat : q = len + c
      <4>1. q - len \in Nat /\ q = len + (q - len)
        BY <1>1, <2>1
      <4> QED BY <4>1
    <3>2. w = len * ByteBits + c * ByteBits /\ c * ByteBits \in Nat
      BY <1>1, <3>1
    <3> HIDE DEF w
    <3> QED BY <1>1, <2>1, <3>2
  <2>3. (q + 1) - 1 = q /\ w \in Nat
    BY <1>1, <2>1
  <2>4. BitsIn(p, q + 1) = IF p - w < 0 THEN 0 ELSE IF p - w > ByteBits THEN ByteBits ELSE p - w
    BY <2>3 DEF BitsIn
  <2> HIDE DEF w
  <2>5. r \in 0..(BitsIn(p, q + 1) - 1)
    BY <1>1, <2>1, <2>3, <2>4
  <2>6. q + 1 \in 1..len
    BY <1>1, <2>1, <2>2
  <2> QED BY <2>5, <2>6 DEF q, r
<1>6. ASSUME NEW i \in 1..len, NEW j \in 0..(BitsIn(p, i) - 1)
      PROVE  \E k \in 0..(p - 1) : k \div ByteBits + 1 = i /\ k % ByteBits = j
  <2> DEFINE w == (i - 1) * ByteBits
             k == w + j
  <2>1. i - 1 \in Nat /\ w \in Nat /\ BitsIn(p, i) \in 0..ByteBits
    BY <1>1, <1>2
  <2>2. BitsIn(p, i) = IF p - w < 0 THEN 0 ELSE IF p - w > ByteBits THEN ByteBits ELSE p - w
    BY DEF BitsIn
  <2> HIDE DEF w
  <2>3. j \in Nat /\ j < ByteBits /\ k \in Nat /\ k \in 0..(p - 1)
    BY <1>1, <2>1, <2>2
  <2>4. w <= k /\ k < w + ByteBits
    BY <1>1, <2>1, <2>3
  <2> HIDE DEF k
  <2>5. k \div ByteBits = i - 1
    BY <1>1, <2>1, <2>3, <2>4, QuotientIs DEF w
  <2>6. k = (i - 1) * ByteBits + (k % ByteBits) /\ k % ByteBits \in 0..(ByteBits - 1)
    BY <1>1, <2>3, <2>5, Quotient
  <2>7. k % ByteBits = j
    <3> DEFINE r == k % ByteBits
    <3>1. k = w + r /\ r \in Int /\ k = w + j
      BY <1>1, <2>6 DEF w, k
    <3> HIDE DEF r
    <3> QED BY <2>1, <2>3, <3>1 DEF r
  <2>8. (i - 1) + 1 = i
    OBVIOUS
  <2> QED BY <2>3, <2>5, <2>7, <2>8
<1>7. (\A k \in 0..(p - 1) : Bit(a, k) = Bit(b, k))
      <=> \A i \in 1..len : \A j \in 0..(BitsIn(p, i) - 1) : BitOf(a.bytes[i], j) = BitOf(b.bytes[i], j)
  <2>1. ASSUME \A k \in 0..(p - 1) : Bit(a, k) = Bit(b, k), NEW i \in 1..len, NEW j \in 0..(BitsIn(p, i) - 1)
        PROVE  BitOf(a.bytes[i], j) = BitOf(b.bytes[i], j)
    <3>1. PICK k \in 0..(p - 1) : k \div ByteBits + 1 = i /\ k % ByteBits = j
      BY <1>6
    <3> QED BY <1>4, <2>1, <3>1
  <2>2. ASSUME \A i \in 1..len : \A j \in 0..(BitsIn(p, i) - 1) : BitOf(a.bytes[i], j) = BitOf(b.bytes[i], j),
               NEW k \in 0..(p - 1)
        PROVE  Bit(a, k) = Bit(b, k)
    BY <1>4, <1>5, <2>2
  <2> QED BY <2>1, <2>2
<1> QED BY <1>3, <1>7 DEF len

-----------------------------------------------------------------------------
(* Comparing                                                               *)

\* An address of len bytes, of which the comparison needs only that they are numbers.
OfLength(a, len) == DOMAIN a.bytes = 1..len /\ \A i \in 1..len : a.bytes[i] \in Nat

LEMMA Compared ==
    ASSUME NEW a, NEW b, NEW len \in Nat, OfLength(a, len), OfLength(b, len), a.family = b.family,
           a.family \in Nat
    PROVE  /\ cmp_addr(a, b) >= 0 <=> ~Less(a, b)
           /\ cmp_addr(a, b) <= 0 <=> ~Less(b, a)
<1>1. ~(a.family < b.family) /\ ~(b.family < a.family)
  OBVIOUS
<1>2. ASSUME Less(a, b), Less(b, a) PROVE FALSE
  <2>1. PICK i \in 1..len : a.bytes[i] < b.bytes[i] /\ \A k \in 1..(i - 1) : a.bytes[k] = b.bytes[k]
    BY <1>1, <1>2 DEF Less, OfLength
  <2>2. PICK j \in 1..len : b.bytes[j] < a.bytes[j] /\ \A k \in 1..(j - 1) : a.bytes[k] = b.bytes[k]
    BY <1>1, <1>2 DEF Less, OfLength
  <2>3. i \in 1..(j - 1) \/ j \in 1..(i - 1) \/ i = j
    OBVIOUS
  <2>4. a.bytes[i] \in Nat /\ b.bytes[i] \in Nat /\ a.bytes[j] \in Nat /\ b.bytes[j] \in Nat
    BY DEF OfLength
  <2> QED BY <2>1, <2>2, <2>3, <2>4
<1>3. cmp_addr(a, b) = IF Less(a, b) THEN -1 ELSE IF Less(b, a) THEN 1 ELSE 0
  BY DEF cmp_addr
<1> HIDE DEF cmp_addr, Less
<1>4. CASE Less(a, b)
  BY <1>2, <1>3, <1>4
<1>5. CASE ~Less(a, b)
  BY <1>3, <1>5
<1> QED BY <1>4, <1>5

\* Two ends that are the same before byte m, and behind it leave no byte out.
LEMMA Within ==
    ASSUME NEW a, NEW f, NEW t, NEW len \in Nat,
           OfLength(a, len), OfLength(f, len), OfLength(t, len),
           a.family = f.family, a.family = t.family, a.family \in Nat,
           NEW m \in 1..len, \A i \in 1..(m - 1) : f.bytes[i] = t.bytes[i],
           \A i \in (m + 1)..len : f.bytes[i] <= a.bytes[i] /\ a.bytes[i] <= t.bytes[i]
    PROVE  ~Less(a, f) /\ ~Less(t, a)
           <=> \A i \in 1..len : f.bytes[i] <= a.bytes[i] /\ a.bytes[i] <= t.bytes[i]
<1>1. \A i \in 1..len : a.bytes[i] \in Nat /\ f.bytes[i] \in Nat /\ t.bytes[i] \in Nat
  BY DEF OfLength
<1>2. /\ Less(a, f) <=> \E i \in 1..len : /\ a.bytes[i] < f.bytes[i]
                                          /\ \A k \in 1..(i - 1) : a.bytes[k] = f.bytes[k]
      /\ Less(t, a) <=> \E i \in 1..len : /\ t.bytes[i] < a.bytes[i]
                                          /\ \A k \in 1..(i - 1) : t.bytes[k] = a.bytes[k]
  <2>1. ~(a.family < f.family) /\ ~(t.family < a.family)
    OBVIOUS
  <2>2. DOMAIN a.bytes = 1..len /\ DOMAIN t.bytes = 1..len
    BY DEF OfLength
  <2> QED BY <2>1, <2>2 DEF Less
<1>3. ASSUME \A i \in 1..len : f.bytes[i] <= a.bytes[i] /\ a.bytes[i] <= t.bytes[i]
      PROVE  ~Less(a, f) /\ ~Less(t, a)
  <2>1. \A i \in 1..len : ~(a.bytes[i] < f.bytes[i]) /\ ~(t.bytes[i] < a.bytes[i])
    BY <1>1, <1>3
  <2> QED BY <1>2, <2>1
<1>4. ASSUME ~Less(a, f), ~Less(t, a)
      PROVE  \A i \in 1..len : f.bytes[i] <= a.bytes[i] /\ a.bytes[i] <= t.bytes[i]
  <2> DEFINE Bad == {i \in 1..(m - 1) : a.bytes[i] # f.bytes[i]}
  <2>1. ASSUME NEW i \in 1..m, \A k \in 1..(i - 1) : a.bytes[k] = f.bytes[k]
        PROVE  f.bytes[i] <= a.bytes[i] /\ a.bytes[i] <= t.bytes[i]
    <3>1. i \in 1..len /\ 1..(i - 1) \subseteq 1..(m - 1)
      OBVIOUS
    <3>2. \A k \in 1..(i - 1) : t.bytes[k] = a.bytes[k]
      BY <2>1, <3>1
    <3>3. ~(a.bytes[i] < f.bytes[i]) /\ ~(t.bytes[i] < a.bytes[i])
      BY <1>2, <1>4, <2>1, <3>1, <3>2
    <3> QED BY <1>1, <3>1, <3>3
  <2>2. Bad = {}
    <3> SUFFICES ASSUME Bad # {} PROVE FALSE
      OBVIOUS
    <3>1. PICK i \in Bad : \A k \in Bad : i <= k
      <4> Bad \in SUBSET Nat
        OBVIOUS
      <4> HIDE DEF Bad
      <4> QED BY Least
    <3>2. \A k \in 1..(i - 1) : k \in 1..(m - 1) /\ ~(i <= k)
      OBVIOUS
    <3>3. \A k \in 1..(i - 1) : a.bytes[k] = f.bytes[k]
      BY <3>1, <3>2
    <3>4. i \in 1..m /\ i \in 1..len /\ i \in 1..(m - 1)
      OBVIOUS
    <3>5. f.bytes[i] <= a.bytes[i] /\ a.bytes[i] <= t.bytes[i] /\ f.bytes[i] = t.bytes[i]
      BY <2>1, <3>3, <3>4
    <3> QED BY <1>1, <3>4, <3>5
  <2>3. \A k \in 1..(m - 1) : a.bytes[k] = f.bytes[k]
    BY <2>2
  <2>4. ASSUME NEW i \in 1..m PROVE f.bytes[i] <= a.bytes[i] /\ a.bytes[i] <= t.bytes[i]
    <3>1. 1..(i - 1) \subseteq 1..(m - 1)
      OBVIOUS
    <3> QED BY <2>1, <2>3, <3>1
  <2>5. \A i \in 1..len : i \in 1..m \/ i \in (m + 1)..len
    OBVIOUS
  <2> QED BY <2>4, <2>5
<1> QED BY <1>3, <1>4

-----------------------------------------------------------------------------
(* A network                                                               *)

\* The network that was made of an address g and a prefix of p bits.
NetworkOf(g, p) == [addr |-> mask(g, p), prefixlen |-> p]

\* Its first and last byte i, and byte i of its netmask
FirstByte(g, p, i) == masked(g.bytes[i], BitsIn(p, i))
LastByte(g, p, i)  == FirstByte(g, p, i) + Pow2[ByteBits - BitsIn(p, i)] - 1
MaskByte(p, i)     == Pow2[ByteBits] - Pow2[ByteBits - BitsIn(p, i)]

LEMMA MaskedByte ==
    ASSUME NEW x \in Nat, x < Pow2[ByteBits], NEW n \in 0..ByteBits
    PROVE  /\ Pow2[ByteBits - n] \in Nat \ {0} /\ Pow2[ByteBits] \in Nat
           /\ Pow2[ByteBits - n] <= Pow2[ByteBits]
           /\ masked(x, n) \in Nat
           /\ masked(x, n) + Pow2[ByteBits - n] <= Pow2[ByteBits]
<1> DEFINE d == Pow2[ByteBits - n]
           e == Pow2[ByteBits]
           q == x \div d
<1>1. ByteBits \in Nat /\ ByteBits - n \in 0..ByteBits /\ ByteBits \in 0..ByteBits
  BY NetworkAssumption
<1>2. d \in Nat \ {0} /\ e \in Nat \ {0}
  BY <1>1, Pow2Type
<1>3. PICK c \in Nat \ {0} : e = c * d
  BY <1>1, Pow2Divides
<1> HIDE DEF d, e
<1>4. q \in Nat /\ q * d <= x /\ q * d \in Nat
  <2> DEFINE r == x % d
  <2>1. q \in Nat /\ r \in 0..(d - 1) /\ x = q * d + r
    BY <1>2, Quotient
  <2> HIDE DEF q, r
  <2>2. q * d \in Nat
    BY <1>2, <2>1
  <2> QED BY <1>2, <2>1, <2>2
<1> HIDE DEF q
<1>5. q < c
  <2> SUFFICES ASSUME c <= q PROVE FALSE
    BY <1>4
  <2>1. PICK k \in Nat : q = c + k
    <3>1. q - c \in Nat /\ q = c + (q - c)
      BY <1>4
    <3> QED BY <3>1
  <2>2. q * d = c * d + k * d /\ k * d \in Nat /\ c * d \in Nat
    BY <1>2, <2>1
  <2>3. x < e
    BY DEF e
  <2> QED BY <1>2, <1>3, <1>4, <2>2, <2>3
<1>6. PICK k \in Nat : c = q + 1 + k
  <2>1. c - q - 1 \in Nat /\ c = q + 1 + (c - q - 1)
    BY <1>4, <1>5
  <2> QED BY <2>1
<1>7. c * d = q * d + d + k * d /\ k * d \in Nat
  BY <1>2, <1>4, <1>6
<1>8. masked(x, n) = q * d
  BY DEF masked, q, d
<1>9. q * d + d <= e /\ d <= e
  BY <1>2, <1>3, <1>4, <1>7
<1> QED BY <1>2, <1>4, <1>8, <1>9 DEF d, e

LEMMA NetworkIs ==
    ASSUME NEW g \in IPAddresses, NEW p \in 0..(addr_len(g.family) * ByteBits)
    PROVE  LET n   == NetworkOf(g, p)
               len == addr_len(g.family)
           IN  /\ first(n).family = g.family /\ OfLength(first(n), len)
               /\ last(n).family = g.family /\ OfLength(last(n), len)
               /\ netmask(n).family = g.family
               /\ \A i \in 1..len :
                     /\ first(n).bytes[i] = FirstByte(g, p, i)
                     /\ last(n).bytes[i] = LastByte(g, p, i)
                     /\ netmask(n).bytes[i] = MaskByte(p, i)
<1> DEFINE n   == NetworkOf(g, p)
           len == addr_len(g.family)
<1>1. /\ len \in Nat \ {0} /\ g = [family |-> g.family, bytes |-> g.bytes] /\ DOMAIN g.bytes = 1..len
      /\ \A i \in 1..len : g.bytes[i] \in Nat /\ g.bytes[i] < Pow2[ByteBits]
  BY AddressType
<1> HIDE DEF len
<1>2. \A i \in 1..len : BitsIn(p, i) \in 0..ByteBits
  BY <1>1, PrefixEnds DEF len
<1>3. first(n) = [family |-> g.family, bytes |-> [i \in 1..len |-> FirstByte(g, p, i)]]
  BY <1>1 DEF first, mask, FirstByte, NetworkOf
<1>4. netmask(n) = [family |-> g.family, bytes |-> [i \in 1..len |-> MaskByte(p, i)]]
  <2>1. n.addr = first(n) /\ n.prefixlen = p
    BY DEF first, NetworkOf
  <2>2. DOMAIN first(n).bytes = 1..len /\ first(n).family = g.family
    BY <1>3
  <2> HIDE DEF n
  <2> QED BY <2>1, <2>2 DEF netmask, bytemask, MaskByte
<1>5. ASSUME NEW i \in 1..len
      PROVE  /\ FirstByte(g, p, i) \in Nat /\ LastByte(g, p, i) \in Nat
             /\ (FirstByte(g, p, i) + Pow2[ByteBits] - 1 - MaskByte(p, i)) % Pow2[ByteBits] = LastByte(g, p, i)
  <2> DEFINE d == Pow2[ByteBits - BitsIn(p, i)]
             e == Pow2[ByteBits]
             f == FirstByte(g, p, i)
  <2>1. d \in Nat \ {0} /\ e \in Nat /\ d <= e /\ f \in Nat /\ f + d <= e
    BY <1>1, <1>2, MaskedByte DEF FirstByte
  <2>2. MaskByte(p, i) = e - d /\ LastByte(g, p, i) = f + d - 1
    BY DEF MaskByte, LastByte
  <2> HIDE DEF d, e, f
  <2>3. f + e - 1 - (e - d) = f + d - 1 /\ f + d - 1 \in 0..(e - 1)
    BY <2>1
  <2>4. \A y \in 0..(e - 1) : y % e = y
    BY <2>1
  <2> QED BY <2>1, <2>2, <2>3, <2>4 DEF e, f
<1>6. last(n) = [family |-> g.family, bytes |-> [i \in 1..len |-> LastByte(g, p, i)]]
  <2>1. n.addr = first(n)
    BY DEF first, NetworkOf
  <2>2. last(n) = [n.addr EXCEPT !.bytes = [i \in DOMAIN @ |->
                      (@[i] + Pow2[ByteBits] - 1 - netmask(n).bytes[i]) % Pow2[ByteBits]]]
    BY DEF last
  <2> HIDE DEF n
  <2>3. last(n) = [family |-> g.family, bytes |-> [i \in 1..len |->
                      (FirstByte(g, p, i) + Pow2[ByteBits] - 1 - MaskByte(p, i)) % Pow2[ByteBits]]]
    <3> DEFINE fs == [i \in 1..len |-> FirstByte(g, p, i)]
               ms == [i \in 1..len |-> MaskByte(p, i)]
               e  == Pow2[ByteBits]
    <3>1. n.addr = [family |-> g.family, bytes |-> fs] /\ netmask(n).bytes = ms
      BY <1>3, <1>4, <2>1
    <3>2. DOMAIN fs = 1..len
      OBVIOUS
    <3> HIDE DEF fs, ms, e
    <3>3. last(n) = [family |-> g.family, bytes |-> [i \in 1..len |-> (fs[i] + e - 1 - ms[i]) % e]]
      <4>1. \A w : [n.addr EXCEPT !.bytes = w] = [family |-> g.family, bytes |-> w]
        BY <3>1
      <4>2. last(n) = [n.addr EXCEPT !.bytes = [i \in DOMAIN n.addr.bytes |->
                          (n.addr.bytes[i] + e - 1 - netmask(n).bytes[i]) % e]]
        BY <2>2 DEF e
      <4>3. n.addr.bytes = fs
        BY <3>1
      <4>4. [i \in DOMAIN n.addr.bytes |-> (n.addr.bytes[i] + e - 1 - netmask(n).bytes[i]) % e]
            = [i \in 1..len |-> (fs[i] + e - 1 - ms[i]) % e]
        BY <3>1, <3>2, <4>3
      <4> QED BY <4>1, <4>2, <4>4
    <3> QED BY <3>3 DEF fs, ms, e
  <2> QED BY <1>5, <2>3
<1>7. OfLength(first(n), len) /\ OfLength(last(n), len)
  BY <1>3, <1>5, <1>6 DEF OfLength
<1> QED BY <1>3, <1>4, <1>6, <1>7 DEF len

LEMMA OtherFamily ==
    ASSUME NEW a, NEW b, a.family \in Nat, b.family \in Nat, a.family # b.family
    PROVE  cmp_addr(a, b) = IF a.family < b.family THEN -1 ELSE 1
BY DEF cmp_addr, Less

\* The bytes of the first address and of the last one.
LEMMA EndsMeet ==
    ASSUME NEW g \in IPAddresses, NEW p \in 0..(addr_len(g.family) * ByteBits)
    PROVE  LET len == addr_len(g.family)
           IN  /\ \A i \in 1..len : BitsIn(p, i) \in 0..ByteBits
               /\ \A i \in 1..len : FirstByte(g, p, i) \in Nat /\ FirstByte(g, p, i) <= LastByte(g, p, i)
               /\ \A i \in 1..len :
                     /\ BitsIn(p, i) = ByteBits => FirstByte(g, p, i) = LastByte(g, p, i)
                     /\ BitsIn(p, i) = 0 => FirstByte(g, p, i) = 0 /\ LastByte(g, p, i) = Pow2[ByteBits] - 1
<1> DEFINE len == addr_len(g.family)
<1>1. len \in Nat \ {0} /\ \A i \in 1..len : g.bytes[i] \in Nat /\ g.bytes[i] < Pow2[ByteBits]
  BY AddressType
<1> HIDE DEF len
<1>2. \A i \in 1..len : BitsIn(p, i) \in 0..ByteBits
  BY <1>1, PrefixEnds DEF len
<1>3. ASSUME NEW i \in 1..len
      PROVE  /\ FirstByte(g, p, i) \in Nat /\ FirstByte(g, p, i) <= LastByte(g, p, i)
             /\ BitsIn(p, i) = ByteBits => FirstByte(g, p, i) = LastByte(g, p, i)
             /\ BitsIn(p, i) = 0 => FirstByte(g, p, i) = 0 /\ LastByte(g, p, i) = Pow2[ByteBits] - 1
  <2> DEFINE n == BitsIn(p, i)
             f == FirstByte(g, p, i)
             d == Pow2[ByteBits - n]
             e == Pow2[ByteBits]
  <2>1. d \in Nat \ {0} /\ e \in Nat /\ f \in Nat /\ f + d <= e
    BY <1>1, <1>2, MaskedByte DEF FirstByte
  <2>2. LastByte(g, p, i) = f + d - 1
    BY DEF LastByte
  <2>3. n = ByteBits => d = 1
    <3>1. ByteBits - ByteBits = 0
      BY NetworkAssumption
    <3> QED BY <3>1, Pow2Step
  <2>4. n = 0 => d = e
    <3>1. ByteBits - 0 = ByteBits
      BY NetworkAssumption
    <3> QED BY <3>1
  <2> HIDE DEF n, f, d, e
  <2>5. /\ f <= f + d - 1
        /\ d = 1 => f = f + d - 1
        /\ d = e => f = 0 /\ f + d - 1 = e - 1
    BY <2>1
  <2> QED BY <2>1, <2>2, <2>3, <2>4, <2>5 DEF n, f, e
<1> QED BY <1>2, <1>3 DEF len

\* The network has the addresses with the same first bits.
LEMMA ContainsPrefix ==
    ASSUME NEW g \in IPAddresses, NEW p \in 0..(addr_len(g.family) * ByteBits),
           NEW a \in IPAddresses \cup {NoAddress}
    PROVE  contains(NetworkOf(g, p), a)
           <=> a.family = g.family /\ \A k \in 0..(p - 1) : Bit(a, k) = Bit(g, k)
<1> DEFINE n   == NetworkOf(g, p)
           len == addr_len(g.family)
           F   == first(n)
           T   == last(n)
<1>1. /\ F.family = g.family /\ T.family = g.family /\ OfLength(F, len) /\ OfLength(T, len)
      /\ \A i \in 1..len : F.bytes[i] = FirstByte(g, p, i) /\ T.bytes[i] = LastByte(g, p, i)
  BY NetworkIs
<1>2. /\ len \in Nat \ {0} /\ g.family \in Nat /\ a.family \in Nat
      /\ \A i \in 1..len : g.bytes[i] \in Nat /\ g.bytes[i] < Pow2[ByteBits]
  BY AddressType DEF NoAddress, UNKNOWN, IPv4, IPv6
<1>3. contains(n, a) <=> cmp_addr(a, F) >= 0 /\ cmp_addr(a, T) <= 0
  BY DEF contains
<1> HIDE DEF n, F, T
<1>4. CASE a.family # g.family
  <2>1. ~(cmp_addr(a, F) >= 0 /\ cmp_addr(a, T) <= 0)
    <3>1. cmp_addr(a, F) = (IF a.family < g.family THEN -1 ELSE 1)
          /\ cmp_addr(a, T) = (IF a.family < g.family THEN -1 ELSE 1)
      BY <1>1, <1>2, <1>4, OtherFamily
    <3>2. CASE a.family < g.family
      BY <3>1, <3>2
    <3>3. CASE ~(a.family < g.family)
      BY <3>1, <3>3
    <3> QED BY <3>2, <3>3
  <2> QED BY <1>3, <1>4, <2>1 DEF n
<1>5. CASE a.family = g.family
  <2>1. a \in IPAddresses
    BY <1>5, AddressType DEF NoAddress, UNKNOWN, IPv4, IPv6
  <2>2. OfLength(a, len) /\ \A i \in 1..len : a.bytes[i] \in Nat /\ a.bytes[i] < Pow2[ByteBits]
    BY <1>5, <2>1, AddressType DEF OfLength
  <2> HIDE DEF len
  <2>3. contains(n, a) <=> ~Less(a, F) /\ ~Less(T, a)
    BY <1>1, <1>2, <1>3, <1>5, <2>2, Compared
  <2>4. \A i \in 1..len : BitsIn(p, i) \in 0..ByteBits
    BY <1>2, PrefixEnds DEF len
  <2>5. PICK m \in 1..len : /\ \A i \in 1..(m - 1) : BitsIn(p, i) = ByteBits
                            /\ \A i \in (m + 1)..len : BitsIn(p, i) = 0
    BY <1>2, PrefixEnds DEF len
  <2>6. \A i \in 1..(m - 1) : F.bytes[i] = T.bytes[i]
    <3>1. \A i \in 1..(m - 1) : i \in 1..len
      BY <1>2
    <3> QED BY <1>1, <2>5, <3>1, EndsMeet DEF len
  <2>7. \A i \in (m + 1)..len : F.bytes[i] <= a.bytes[i] /\ a.bytes[i] <= T.bytes[i]
    <3> TAKE i \in (m + 1)..len
    <3>1. i \in 1..len
      BY <1>2
    <3>2. F.bytes[i] = 0 /\ T.bytes[i] = Pow2[ByteBits] - 1
      BY <1>1, <2>5, <3>1, EndsMeet DEF len
    <3>3. a.bytes[i] \in Nat /\ a.bytes[i] < Pow2[ByteBits] /\ Pow2[ByteBits] \in Nat
      BY <2>2, <3>1, Pow2Type, NetworkAssumption
    <3> QED BY <3>2, <3>3
  <2>8. ~Less(a, F) /\ ~Less(T, a)
        <=> \A i \in 1..len : F.bytes[i] <= a.bytes[i] /\ a.bytes[i] <= T.bytes[i]
    <3>1. OfLength(F, len) /\ OfLength(T, len) /\ a.family = F.family /\ a.family = T.family /\ len \in Nat
      BY <1>1, <1>2, <1>5 DEF len
    <3> QED BY <1>2, <2>2, <2>6, <2>7, <3>1, Within
  <2>9. ASSUME NEW i \in 1..len
        PROVE  F.bytes[i] <= a.bytes[i] /\ a.bytes[i] <= T.bytes[i]
               <=> a.bytes[i] \div Pow2[ByteBits - BitsIn(p, i)] = g.bytes[i] \div Pow2[ByteBits - BitsIn(p, i)]
    <3> DEFINE d == Pow2[ByteBits - BitsIn(p, i)]
    <3>1. d \in Nat \ {0} /\ a.bytes[i] \in Nat /\ g.bytes[i] \in Nat
      BY <1>2, <2>2, <2>4, MaskedByte
    <3>2. F.bytes[i] = (g.bytes[i] \div d) * d /\ T.bytes[i] = (g.bytes[i] \div d) * d + d - 1
      BY <1>1 DEF FirstByte, LastByte, masked
    <3> HIDE DEF d
    <3>3. F.bytes[i] <= a.bytes[i] /\ a.bytes[i] <= T.bytes[i] <=> a.bytes[i] \div d = g.bytes[i] \div d
      <4> DEFINE x == g.bytes[i]
                 y == a.bytes[i]
      <4>1. x \in Nat /\ y \in Nat
        BY <3>1
      <4> HIDE DEF x, y
      <4>2. (x \div d) * d <= y /\ y <= (x \div d) * d + d - 1 <=> y \div d = x \div d
        BY <3>1, <4>1, BetweenMasked
      <4> QED BY <3>2, <4>2 DEF x, y
    <3> QED BY <3>3 DEF d
  <2>10. (\A k \in 0..(p - 1) : Bit(a, k) = Bit(g, k))
         <=> \A i \in 1..len :
                a.bytes[i] \div Pow2[ByteBits - BitsIn(p, i)] = g.bytes[i] \div Pow2[ByteBits - BitsIn(p, i)]
    BY <1>5, <2>1, PrefixBits DEF len
  <2> QED BY <1>5, <2>3, <2>8, <2>9, <2>10 DEF n
<1> QED BY <1>4, <1>5

\* The first address is not behind the last.
LEMMA EndsInOrder ==
    ASSUME NEW g \in IPAddresses, NEW p \in 0..(addr_len(g.family) * ByteBits)
    PROVE  cmp_addr(first(NetworkOf(g, p)), last(NetworkOf(g, p))) <= 0
<1> DEFINE n   == NetworkOf(g, p)
           len == addr_len(g.family)
           F   == first(n)
           T   == last(n)
<1>1. /\ F.family = g.family /\ T.family = g.family /\ OfLength(F, len) /\ OfLength(T, len)
      /\ \A i \in 1..len : F.bytes[i] = FirstByte(g, p, i) /\ T.bytes[i] = LastByte(g, p, i)
  BY NetworkIs
<1>2. len \in Nat /\ g.family \in Nat
  BY AddressType DEF IPv4, IPv6
<1> HIDE DEF n, F, T
<1>3. \A i \in 1..len : ~(T.bytes[i] < F.bytes[i])
  <2> TAKE i \in 1..len
  <2>1. F.bytes[i] <= T.bytes[i]
    BY <1>1, EndsMeet
  <2>2. F.bytes[i] \in Nat /\ T.bytes[i] \in Nat
    BY <1>1 DEF OfLength
  <2> QED BY <2>1, <2>2
<1> HIDE DEF len
<1>4. ~Less(T, F)
  BY <1>1, <1>2, <1>3 DEF Less, OfLength
<1>5. cmp_addr(F, T) <= 0
  BY <1>1, <1>2, <1>4, Compared
<1> QED BY <1>5 DEF n, F, T

\* The length of a netmask is counted right.
LEMMA NetmaskLength ==
    ASSUME NEW g \in IPAddresses, NEW p \in 0..(addr_len(g.family) * ByteBits)
    PROVE  getPrefixlenFromNetmask(netmask(NetworkOf(g, p))) = p
<1> DEFINE a == netmask(NetworkOf(g, p))
           len == addr_len(g.family)
           e == Pow2[ByteBits]
           IsFull(i) == a.bytes[i] = e - 1
<1>1. a.family = g.family /\ \A i \in 1..len : a.bytes[i] = MaskByte(p, i)
  BY NetworkIs
<1>2. len \in Nat \ {0} /\ ByteBits \in Nat \ {0} /\ e \in Nat \ {0}
  BY AddressType, NetworkAssumption, Pow2Type
<1> HIDE DEF a, len
<1>3. \A i \in 1..len : BitsIn(p, i) \in 0..ByteBits
  BY <1>2, PrefixEnds DEF len
<1>4. PICK m \in 1..len :
         /\ \A i \in 1..(m - 1) : BitsIn(p, i) = ByteBits
         /\ \A i \in (m + 1)..len : BitsIn(p, i) = 0
         /\ p = (m - 1) * ByteBits + BitsIn(p, m)
         /\ m < len => BitsIn(p, m) < ByteBits
  BY <1>2, PrefixEnds DEF len
<1>5. ASSUME NEW i \in 1..len
      PROVE  /\ IsFull(i) <=> BitsIn(p, i) = ByteBits
             /\ BitsIn(p, i) = 0 => a.bytes[i] = 0
  <2> DEFINE n == BitsIn(p, i)
             k == ByteBits - n
             d == Pow2[k]
  <2>1. n \in 0..ByteBits /\ a.bytes[i] = e - d
    BY <1>1, <1>3 DEF MaskByte
  <2> HIDE DEF n
  <2>2. k \in 0..ByteBits /\ 0 \in 0..ByteBits /\ (k = 0 <=> n = ByteBits) /\ (n = 0 => k = ByteBits)
    BY <1>2, <2>1
  <2>3. Pow2[0] = 1 /\ d \in Nat
    BY <2>2, Pow2Step, Pow2Type
  <2>4. 0 < k => 1 < d
    BY <2>2, <2>3, Pow2Grows
  <2>5. d = 1 <=> k = 0
    BY <2>2, <2>3, <2>4
  <2>6. n = 0 => d = e
    BY <2>2
  <2> HIDE DEF d, e
  <2>7. (e - d = e - 1 <=> d = 1) /\ (d = e => e - d = 0)
    BY <1>2, <2>3
  <2> QED BY <2>1, <2>2, <2>5, <2>6, <2>7 DEF n
<1>6. addr_len(a.family) = len
  BY <1>1 DEF len
<1> HIDE DEF IsFull
<1> DEFINE stop == CHOOSE i \in 1..len : ~IsFull(i) /\ \A k \in 1..(i - 1) : IsFull(k)
           bits == validateNetmaskByte(a.bytes[stop])
<1>7. getPrefixlenFromNetmask(a) =
         IF \A i \in 1..len : IsFull(i) THEN len * ByteBits
         ELSE IF bits = -1 \/ \E i \in (stop + 1)..len : a.bytes[i] # 0 THEN -1
         ELSE (stop - 1) * ByteBits + bits
  BY <1>6 DEF getPrefixlenFromNetmask, IsFull
<1>8. \A i \in 1..len : i \in 1..(m - 1) \/ i = m \/ i \in (m + 1)..len
  BY <1>2
<1>9. CASE BitsIn(p, m) = ByteBits
  <2>1. m = len
    BY <1>2, <1>4, <1>9
  <2>2. \A i \in 1..len : i = m \/ i \in 1..(m - 1)
    BY <1>2, <2>1
  <2>3. \A i \in 1..len : IsFull(i)
    BY <1>4, <1>5, <1>9, <2>2
  <2>4. (len - 1) * ByteBits + ByteBits = len * ByteBits
    BY <1>2
  <2> HIDE DEF stop, bits
  <2> QED BY <1>4, <1>7, <1>9, <2>1, <2>3, <2>4 DEF a
<1>10. CASE BitsIn(p, m) # ByteBits
  <2> DEFINE n == BitsIn(p, m)
  <2>1. n \in 0..(ByteBits - 1)
    BY <1>2, <1>3, <1>10
  <2>2. \A i \in 1..(m - 1) : i \in 1..len
    BY <1>2
  <2>3. ~IsFull(m) /\ \A i \in 1..(m - 1) : IsFull(i)
    BY <1>4, <1>5, <1>10, <2>2
  <2>4. ASSUME NEW i \in 1..len, ~IsFull(i), \A k \in 1..(i - 1) : IsFull(k) PROVE i = m
    <3>1. i \in 1..(m - 1) \/ i = m \/ m \in 1..(i - 1)
      BY <1>2
    <3> QED BY <2>3, <2>4, <3>1
  <2>5. stop = m
    BY <2>3, <2>4
  <2> HIDE DEF stop
  <2>6. \A i \in (stop + 1)..len : a.bytes[i] = 0
    <3>1. \A i \in (m + 1)..len : i \in 1..len
      BY <1>2
    <3> QED BY <1>4, <1>5, <2>5, <3>1
  <2>7. bits = n
    <3>1. a.bytes[stop] = bytemask(n)
      BY <1>1, <2>5 DEF bytemask, MaskByte
    <3>2. ASSUME NEW k \in 0..(ByteBits - 1), bytemask(k) = bytemask(n) PROVE k = n
      <4> HIDE DEF n
      <4> DEFINE u == ByteBits - k
                 v == ByteBits - n
      <4>1. u \in 0..ByteBits /\ v \in 0..ByteBits
        BY <1>2, <2>1
      <4>2. Pow2[u] \in Nat /\ Pow2[v] \in Nat
        BY <4>1, Pow2Type
      <4>3. e - Pow2[u] = e - Pow2[v]
        BY <3>2 DEF bytemask
      <4>4. Pow2[u] = Pow2[v]
        BY <1>2, <4>2, <4>3
      <4>5. ~(u < v) /\ ~(v < u)
        BY <4>1, <4>2, <4>4, Pow2Grows
      <4> QED BY <1>2, <2>1, <4>1, <4>5
    <3> HIDE DEF n
    <3>3. (CHOOSE k \in 0..(ByteBits - 1) : bytemask(k) = bytemask(n)) = n
      BY <2>1, <3>2
    <3>4. \E k \in 0..(ByteBits - 1) : bytemask(k) = bytemask(n)
      BY <2>1
    <3> QED BY <3>1, <3>3, <3>4 DEF validateNetmaskByte
  <2> HIDE DEF bits
  <2>8. bits # -1
    BY <2>1, <2>7
  <2>9. getPrefixlenFromNetmask(a) = (stop - 1) * ByteBits + bits
    BY <1>7, <2>3, <2>6, <2>8
  <2> QED BY <1>4, <2>5, <2>7, <2>9 DEF a
<1> QED BY <1>9, <1>10

-----------------------------------------------------------------------------
(* The invariant                                                           *)

NetInv ==
    /\ addr \in IPAddresses \cup {NoAddress}
    /\ \/ net = NoNetwork
       \/ /\ given.addr \in IPAddresses
          /\ given.prefixlen \in 0..(addr_len(given.addr.family) * ByteBits)
          /\ net = NetworkOf(given.addr, given.prefixlen)

LEMMA SetNetworkKeeps ==
    ASSUME NetInv, NEW p, p \in Int, setNetwork(addr, p)
    PROVE  NetInv'
<1>1. CASE ValidPrefixlen(addr, p)
  <2>1. addr \in IPAddresses
    BY <1>1 DEF NetInv, ValidPrefixlen, NoAddress
  <2>2. p \in 0..(addr_len(addr.family) * ByteBits)
    <3> DEFINE w == addr_len(addr.family) * ByteBits
    <3>1. addr_len(addr.family) \in Nat
      BY <2>1, AddressType
    <3>2. w \in Nat
      BY <3>1, NetworkAssumption
    <3>3. p >= 0 /\ p <= w
      BY <1>1 DEF ValidPrefixlen
    <3> HIDE DEF w
    <3>4. p \in 0..w
      BY <3>2, <3>3
    <3> QED BY <3>4 DEF w
  <2>3. /\ addr' = addr /\ given' = [addr |-> addr, prefixlen |-> p]
        /\ net' = [addr |-> mask(addr, p), prefixlen |-> p]
    BY <1>1 DEF setNetwork
  <2>4. given'.addr = addr /\ given'.prefixlen = p /\ net' = NetworkOf(addr, p)
    BY <2>3 DEF NetworkOf
  <2> QED BY <2>1, <2>2, <2>3, <2>4 DEF NetInv
<1>2. CASE ~ValidPrefixlen(addr, p)
  BY <1>2 DEF setNetwork, NetInv
<1> QED BY <1>1, <1>2

\* What is counted in a netmask is a number.
LEMMA PrefixlenInt ==
    ASSUME NEW a \in IPAddresses
    PROVE  getPrefixlenFromNetmask(a) \in Int
<1> DEFINE len == addr_len(a.family)
           IsFull(i) == a.bytes[i] = Pow2[ByteBits] - 1
           stop == CHOOSE i \in 1..len : ~IsFull(i) /\ \A k \in 1..(i - 1) : IsFull(k)
           bits == validateNetmaskByte(a.bytes[stop])
<1>1. len \in Nat \ {0} /\ ByteBits \in Nat
  BY AddressType, NetworkAssumption
<1>2. getPrefixlenFromNetmask(a) =
         IF \A i \in 1..len : IsFull(i) THEN len * ByteBits
         ELSE IF bits = -1 \/ \E i \in (stop + 1)..len : a.bytes[i] # 0 THEN -1
         ELSE (stop - 1) * ByteBits + bits
  BY DEF getPrefixlenFromNetmask
<1>3. bits \in Int
  <2>1. \A x : validateNetmaskByte(x) \in Int
    BY <1>1 DEF validateNetmaskByte
  <2> QED BY <2>1
<1> HIDE DEF len, IsFull, bits
<1>4. CASE \A i \in 1..len : IsFull(i)
  <2>1. len * ByteBits \in Int
    BY <1>1
  <2> HIDE DEF stop
  <2> QED BY <1>2, <1>4, <2>1
<1>5. CASE ~\A i \in 1..len : IsFull(i)
  <2> DEFINE Open == {i \in 1..len : ~IsFull(i)}
  <2>1. PICK i \in Open : \A k \in Open : i <= k
    <3>1. Open \in SUBSET Nat /\ Open # {}
      BY <1>1, <1>5
    <3> HIDE DEF Open
    <3> QED BY <3>1, Least
  <2>2. \A k \in 1..(i - 1) : k \in 1..len /\ ~(i <= k)
    BY <1>1
  <2>3. ~IsFull(i) /\ \A k \in 1..(i - 1) : IsFull(k)
    BY <2>1, <2>2
  <2>4. stop \in 1..len
    BY <2>3
  <2> HIDE DEF stop
  <2>5. (stop - 1) * ByteBits + bits \in Int
    BY <1>1, <1>3, <2>4
  <2> QED BY <1>2, <1>5, <2>5
<1> QED BY <1>4, <1>5

LEMMA NetInitInv == NetworkInit => NetInv
BY DEF NetworkInit, NetInv

LEMMA NetNextInv == NetInv /\ [NetworkNext]_<<addr, net, given>> => NetInv'
<1> SUFFICES ASSUME NetInv, [NetworkNext]_<<addr, net, given>> PROVE NetInv'
  OBVIOUS
<1>1. CASE SetAddress
  BY <1>1 DEF SetAddress, NetInv
<1>2. CASE SetByLength
  BY <1>2, SetNetworkKeeps, NetworkAssumption DEF SetByLength
<1>3. CASE SetByNetmask
  BY <1>3, SetNetworkKeeps, PrefixlenInt DEF SetByNetmask
<1>4. CASE UNCHANGED <<addr, net, given>>
  BY <1>4 DEF NetInv
<1> QED BY <1>1, <1>2, <1>3, <1>4 DEF NetworkNext

LEMMA NetInvShares == NetInv => MembersShareThePrefix
<1> SUFFICES ASSUME NetInv, net.prefixlen >= 0 PROVE MembersShareThePrefix
  BY DEF MembersShareThePrefix
<1>1. ~(-1 >= 0) /\ NoNetwork.prefixlen = -1
  BY DEF NoNetwork
<1>2. /\ addr \in IPAddresses \cup {NoAddress} /\ given.addr \in IPAddresses
      /\ given.prefixlen \in 0..(addr_len(given.addr.family) * ByteBits)
      /\ net = NetworkOf(given.addr, given.prefixlen)
  BY <1>1 DEF NetInv
<1> QED BY <1>2, ContainsPrefix, EndsInOrder, NetmaskLength DEF MembersShareThePrefix

\* For bytes of any number of bits and addresses of any numbers of bytes: a
\* network contains exactly the addresses of its family that have the first bits
\* of the one it was made of, and its netmask has the length it was made with.
THEOREM NetworksKeepThePrefix == NetworkSpec => []MembersShareThePrefix
<1>1. NetworkInit => NetInv
  BY NetInitInv
<1>2. NetInv /\ [NetworkNext]_<<addr, net, given>> => NetInv'
  BY NetNextInv
<1>3. NetInv => MembersShareThePrefix
  BY NetInvShares
<1> QED BY <1>1, <1>2, <1>3, PTL DEF NetworkSpec

-----------------------------------------------------------------------------
(* SuspendedThread                                                         *)

SuspensionInv == TypeOK /\ NoLostWakeup

LEMMA SuspensionInit == Init => SuspensionInv
BY DEF Init, SuspensionInv, TypeOK, NoLostWakeup, TPc, CPc

\* What the thread does by itself.
LEMMA ThreadKeepsSuspension == SuspensionInv /\ (threadStart \/ Thread \/ SpuriousWakeup) => SuspensionInv'
<1> SUFFICES ASSUME SuspensionInv, threadStart \/ Thread \/ SpuriousWakeup PROVE SuspensionInv'
  OBVIOUS
<1> USE DEF SuspensionInv, TypeOK, NoLostWakeup, threadKeeps, state, TPc
<1>1. CASE threadStart
  BY <1>1 DEF threadStart
<1>2. CASE threadStartUp
  BY <1>2 DEF threadStartUp
<1>3. CASE threadShouldStop
  BY <1>3 DEF threadShouldStop
<1>4. CASE threadWaitSuspended
  BY <1>4 DEF threadWaitSuspended, WaitOrReturn, Suspending
<1>5. CASE Wakened
  BY <1>5 DEF Wakened, WaitOrReturn, Suspending
<1>6. CASE threadSleep
  BY <1>6 DEF threadSleep
<1>7. CASE SleepEnds
  BY <1>7 DEF SleepEnds
<1>8. CASE threadExit
  BY <1>8 DEF threadExit
<1>9. CASE SpuriousWakeup
  BY <1>9 DEF SpuriousWakeup
<1> QED BY <1>1, <1>2, <1>3, <1>4, <1>5, <1>6, <1>7, <1>8, <1>9 DEF Thread

\* What the callers do to it.
LEMMA CallerKeepsSuspension == ASSUME NEW c \in Callers PROVE SuspensionInv /\ Caller(c) => SuspensionInv'
<1> SUFFICES ASSUME SuspensionInv, Caller(c) PROVE SuspensionInv'
  OBVIOUS
<1> USE DEF SuspensionInv, TypeOK, NoLostWakeup, callerKeeps, Call, Goto, signal, Suspending, CPc
<1>1. CASE threadSuspend(c)
  BY <1>1 DEF threadSuspend
<1>2. CASE threadResume(c)
  \* the signal is still to come if the thread waits
  <2>1. tpc = "waitSuspended" => cpc'[c] = "resume"
    BY <1>2 DEF threadResume
  <2> QED BY <1>2, <2>1 DEF threadResume
<1>3. CASE ResumeSignal(c)
  BY <1>3 DEF ResumeSignal
<1>4. CASE threadSignalStop(c)
  BY <1>4 DEF threadSignalStop
<1>5. CASE threadStop(c)
  BY <1>5 DEF threadStop
<1>6. CASE StopPoll(c)
  BY <1>6 DEF StopPoll
<1>7. CASE LockAgain(c)
  BY <1>7 DEF LockAgain
<1> QED BY <1>1, <1>2, <1>3, <1>4, <1>5, <1>6, <1>7 DEF Caller

LEMMA SuspensionStep == SuspensionInv /\ [Next]_vars => SuspensionInv'
<1> SUFFICES ASSUME SuspensionInv, [Next]_vars PROVE SuspensionInv'
  OBVIOUS
<1>1. CASE threadStart \/ Thread \/ SpuriousWakeup
  BY <1>1, ThreadKeepsSuspension
<1>2. ASSUME NEW c \in Callers, Caller(c) PROVE SuspensionInv'
  BY <1>2, CallerKeepsSuspension
<1>3. CASE UNCHANGED vars
  BY <1>3 DEF vars, state, thread, SuspensionInv, TypeOK, NoLostWakeup, Suspending
<1> QED BY <1>1, <1>2, <1>3 DEF Next

LEMMA SpecSuspensionInv == Spec => []SuspensionInv
<1> QED BY SuspensionInit, SuspensionStep, PTL DEF Spec

\* IsRunning and IsSuspended, which other threads read, tell where the thread
\* is (threadStartUp, threadWaitSuspended, threadSleep).
THEOREM SuspensionTypeCorrect == Spec => []TypeOK
<1>1. SuspensionInv => TypeOK
  BY DEF SuspensionInv
<1> QED BY SpecSuspensionInv, <1>1, PTL

\* However many callers suspend, resume and stop the thread at the same time, no
\* wakeup is lost: threadResume() may unlock before it signals.
THEOREM WakeupNotLost == Spec => []NoLostWakeup
<1>1. SuspensionInv => NoLostWakeup
  BY DEF SuspensionInv
<1> QED BY SpecSuspensionInv, <1>1, PTL

\* threadWaitSuspended() returns only when the thread is not to be suspended,
\* whatever wakes it.
THEOREM SuspensionObeyed == Spec => SuspendObeyed
<1> DEFINE Obeyed == (tpc \in {"suspend", "waitSuspended"} /\ tpc' = "nap") => ~Suspending
<1>1. SuspensionInv /\ [Next]_vars => Obeyed
  <2> SUFFICES ASSUME SuspensionInv, [Next]_vars, tpc \in {"suspend", "waitSuspended"}, tpc' = "nap"
               PROVE  ~Suspending
    OBVIOUS
  <2>1. threadWaitSuspended \/ Wakened
    BY DEF Next, Thread, threadStart, threadStartUp, threadShouldStop, threadSleep, SleepEnds,
           threadExit, SpuriousWakeup, Caller, threadSuspend, threadResume, ResumeSignal,
           threadSignalStop, threadStop, StopPoll, LockAgain, callerKeeps, threadKeeps, state,
           vars, thread
  <2> QED BY <2>1 DEF threadWaitSuspended, Wakened, WaitOrReturn
<1>2. SuspensionInv /\ [Next]_vars => [Obeyed]_vars
  BY <1>1
<1> QED BY SpecSuspensionInv, <1>2, PTL DEF Spec, SuspendObeyed

=============================================================================
