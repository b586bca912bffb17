----------------------------- MODULE TextProofs -----------------------------
(***************************************************************************)
(* Proofs about ppl7::Array for every value and growth, and about          *)
(* ppl7::String for every alphabet, text, size and growth of its buffer.   *)
(*                                                                         *)
(* An array owns its strings (Owned) and has the value Get at every row.   *)
(* A string that holds a text has its zero behind it and one byte more in  *)
(* the buffer (Keeps), which is where trim() may write.  Every operation   *)
(* on such a string makes one that holds what the operation makes of the   *)
(* text; a search finds the positions of the needle in the text, because   *)
(* no letter of it is a zero.                                              *)
(*                                                                         *)
(* A loop is a function that a recursion defines; it keeps what its first  *)
(* state satisfies and every turn keeps (LoopRuns).  Where the code and    *)
(* its definition go through a text in different turns, as replace() does  *)
(* from match to match and ReplacedIn from letter to letter, the invariant *)
(* of the one says where the other is (MatchesTaken).                      *)
(***************************************************************************)
EXTENDS Array, String, SumTheorems, SequenceTheorems

-----------------------------------------------------------------------------
(* Array: rows and the strings that they own                               *)

Rows == Seq(Nat \cup {NoString})
Heaps == UNION {[D -> Values \ {0}] : D \in SUBSET Nat}

\* Every string is that of exactly one row.
Owns(r, h) ==
    /\ \A i \in DOMAIN r : r[i] # NoString => r[i] \in DOMAIN h
    /\ \A p \in DOMAIN h : \E i \in DOMAIN r : r[i] = p
    /\ \A i, j \in DOMAIN r : r[i] = r[j] /\ r[i] # NoString => i = j

Element(r, h, i) == IF r[i] = NoString THEN 0 ELSE h[r[i]]

ARRAY == [rows : Rows, numElements : Nat, strings : Heaps]

Held(a) == a \in ARRAY /\ Owns(a.rows, a.strings)

\* Rows behind the last element are empty.
Owned(a) ==
    /\ Held(a) /\ a.numElements <= Len(a.rows)
    /\ \A i \in DOMAIN a.rows : i > a.numElements => a.rows[i] = NoString

Elem(a, i) == Element(a.rows, a.strings, i)

LEMMA HeapType ==
    ASSUME NEW h \in Heaps
    PROVE  DOMAIN h \subseteq Nat /\ \A p \in DOMAIN h : h[p] \in Values \ {0}
BY DEF Heaps

LEMMA RowsType ==
    ASSUME NEW r \in Rows
    PROVE  /\ Len(r) \in Nat /\ DOMAIN r = 1..Len(r)
           /\ \A i \in DOMAIN r : r[i] \in Nat \cup {NoString}
BY DEF Rows

LEMMA IsHeap ==
    ASSUME NEW D \in SUBSET Nat, NEW h \in [D -> Values \ {0}]
    PROVE  h \in Heaps
BY DEF Heaps

LEMMA FreshString ==
    ASSUME NEW a, Held(a)
    PROVE  NewString(a) \in Nat /\ NewString(a) \notin DOMAIN a.strings
<1> DEFINE D == DOMAIN a.strings
           n == Len(a.rows)
           T == 1..(Cardinality(D) + 1)
<1>1. a.rows \in Rows /\ a.strings \in Heaps /\ Owns(a.rows, a.strings)
  BY DEF Held, ARRAY
<1>2. n \in Nat /\ DOMAIN a.rows = 1..n
  BY <1>1, RowsType
<1>3. IsFiniteSet(D)
  <2> DEFINE I == {i \in 1..n : a.rows[i] # NoString}
             f == [i \in I |-> a.rows[i]]
  <2>1. f \in Surjection(I, D)
    <3>1. \A i \in I : a.rows[i] \in D
      BY <1>1, <1>2 DEF Owns
    <3>2. \A p \in D : \E i \in I : a.rows[i] = p
      <4>1. \A p \in D : p \in Nat /\ \E i \in 1..n : a.rows[i] = p
        BY <1>1, <1>2, HeapType DEF Owns
      <4> QED BY <4>1, ArrayAssumption
    <3> QED BY <3>1, <3>2 DEF Surjection
  <2>2. IsFiniteSet(I)
    <3>1. IsFiniteSet(1..n)
      BY <1>2, FS_Interval, 1 \in Int, n \in Int
    <3> QED BY <3>1, FS_Subset, I \in SUBSET (1..n)
  <2> QED BY <2>1, <2>2, FS_Surjection
<1>4. Cardinality(D) \in Nat
  BY <1>3, FS_CardinalityType
<1>5. IsFiniteSet(T) /\ Cardinality(T) = Cardinality(D) + 1
  <2>1. 1 \in Int /\ Cardinality(D) + 1 \in Int /\ ~(1 > Cardinality(D) + 1)
    BY <1>4
  <2> QED BY <1>4, <2>1, FS_Interval
<1>6. \E p \in T : p \notin D
  <2> SUFFICES ASSUME T \in SUBSET D PROVE FALSE
    OBVIOUS
  <2>1. Cardinality(T) <= Cardinality(D)
    <3> HIDE DEF T, D
    <3> QED BY <1>3, FS_Subset
  <2> QED BY <1>4, <1>5, <2>1
<1>7. T \subseteq Nat
  BY <1>4
<1> QED BY <1>6, <1>7 DEF NewString

PutRow(r, i, p) == [r EXCEPT ![i] = p]
PutString(h, p, v) == [q \in DOMAIN h \cup {p} |-> IF q = p THEN v ELSE h[q]]
DropString(h, p) == [q \in DOMAIN h \ {p} |-> h[q]]

\* A row that gets a string, or the one whose string is set.
LEMMA PutOwns ==
    ASSUME NEW r \in Rows, NEW h \in Heaps, Owns(r, h), NEW i \in DOMAIN r,
           NEW v \in Values \ {0}, NEW p \in Nat,
           p = r[i] \/ (r[i] = NoString /\ p \notin DOMAIN h),
           NEW r2, r2 = PutRow(r, i, p), NEW h2, h2 = PutString(h, p, v)
    PROVE  /\ r2 \in Rows /\ h2 \in Heaps /\ Owns(r2, h2) /\ Len(r2) = Len(r)
           /\ \A j \in DOMAIN r : r2[j] = IF j = i THEN p ELSE r[j]
           /\ \A j \in DOMAIN r : Element(r2, h2, j) = IF j = i THEN v ELSE Element(r, h, j)
<1>1. /\ DOMAIN h \subseteq Nat /\ \A q \in DOMAIN h : h[q] \in Values \ {0}
      /\ NoString \notin Nat
  BY HeapType, ArrayAssumption
<1>2. /\ r2 \in Rows /\ Len(r2) = Len(r) /\ DOMAIN r2 = DOMAIN r
      /\ \A j \in DOMAIN r : r2[j] = IF j = i THEN p ELSE r[j]
  BY DEF Rows, PutRow
<1>3. /\ DOMAIN h2 = DOMAIN h \cup {p} /\ h2[p] = v
      /\ \A q \in DOMAIN h : q # p => h2[q] = h[q]
      /\ h2 = [q \in DOMAIN h2 |-> h2[q]]
  BY DEF PutString
<1>4. h2 \in Heaps
  BY <1>1, <1>3, IsHeap, DOMAIN h \cup {p} \in SUBSET Nat
<1>5. /\ \A j \in DOMAIN r : r[j] # NoString => r[j] \in DOMAIN h
      /\ \A q \in DOMAIN h : \E j \in DOMAIN r : r[j] = q
      /\ \A j, k \in DOMAIN r : r[j] = r[k] /\ r[j] # NoString => j = k
  BY DEF Owns
<1>6. \A j \in DOMAIN r : j # i => r[j] # p
  BY <1>1, <1>5
<1>7. Owns(r2, h2)
  <2>1. \A j \in DOMAIN r2 : r2[j] # NoString => r2[j] \in DOMAIN h2
    BY <1>2, <1>3, <1>5
  <2>2. \A q \in DOMAIN h2 : \E j \in DOMAIN r2 : r2[j] = q
    BY <1>1, <1>2, <1>3, <1>5
  <2>3. \A j, k \in DOMAIN r2 : r2[j] = r2[k] /\ r2[j] # NoString => j = k
    BY <1>2, <1>5, <1>6
  <2> QED BY <2>1, <2>2, <2>3 DEF Owns
<1>8. \A j \in DOMAIN r : Element(r2, h2, j) = IF j = i THEN v ELSE Element(r, h, j)
  BY <1>1, <1>2, <1>3, <1>5, <1>6 DEF Element
<1> QED BY <1>2, <1>4, <1>7, <1>8

\* A row whose string is deleted.
LEMMA DropOwns ==
    ASSUME NEW r \in Rows, NEW h \in Heaps, Owns(r, h), NEW i \in DOMAIN r,
           NEW r2, r2 = PutRow(r, i, NoString), NEW h2, h2 = DropString(h, r[i])
    PROVE  /\ r2 \in Rows /\ h2 \in Heaps /\ Owns(r2, h2) /\ Len(r2) = Len(r)
           /\ \A j \in DOMAIN r : r2[j] = IF j = i THEN NoString ELSE r[j]
           /\ \A j \in DOMAIN r : Element(r2, h2, j) = IF j = i THEN 0 ELSE Element(r, h, j)
<1>1. /\ DOMAIN h \subseteq Nat /\ \A q \in DOMAIN h : h[q] \in Values \ {0}
      /\ NoString \notin Nat
  BY HeapType, ArrayAssumption
<1>2. /\ r2 \in Rows /\ Len(r2) = Len(r) /\ DOMAIN r2 = DOMAIN r
      /\ \A j \in DOMAIN r : r2[j] = IF j = i THEN NoString ELSE r[j]
  BY DEF Rows, PutRow
<1>3. /\ DOMAIN h2 = DOMAIN h \ {r[i]} /\ \A q \in DOMAIN h : q # r[i] => h2[q] = h[q]
      /\ h2 = [q \in DOMAIN h2 |-> h2[q]]
  BY DEF DropString
<1>4. h2 \in Heaps
  BY <1>1, <1>3, IsHeap, DOMAIN h \ {r[i]} \in SUBSET Nat
<1>5. /\ \A j \in DOMAIN r : r[j] # NoString => r[j] \in DOMAIN h
      /\ \A q \in DOMAIN h : \E j \in DOMAIN r : r[j] = q
      /\ \A j, k \in DOMAIN r : r[j] = r[k] /\ r[j] # NoString => j = k
  BY DEF Owns
<1>7. Owns(r2, h2)
  <2>1. \A j \in DOMAIN r2 : r2[j] # NoString => r2[j] \in DOMAIN h2
    BY <1>2, <1>3, <1>5
  <2>2. \A q \in DOMAIN h2 : \E j \in DOMAIN r2 : r2[j] = q
    BY <1>1, <1>2, <1>3, <1>5
  <2>3. \A j, k \in DOMAIN r2 : r2[j] = r2[k] /\ r2[j] # NoString => j = k
    BY <1>2, <1>5
  <2> QED BY <2>1, <2>2, <2>3 DEF Owns
<1>8. \A j \in DOMAIN r : Element(r2, h2, j) = IF j = i THEN 0 ELSE Element(r, h, j)
  BY <1>1, <1>2, <1>3, <1>5 DEF Element
<1> QED BY <1>2, <1>4, <1>7, <1>8

\* Rows that change their places: row k comes from row from[k], or is empty.
Moves(r, r2, from) ==
    /\ \A k \in DOMAIN r2 : \/ from[k] = 0 /\ r2[k] = NoString
                            \/ from[k] \in DOMAIN r /\ r2[k] = r[from[k]]
    /\ \A j, k \in DOMAIN r2 : from[j] = from[k] /\ from[j] # 0 => j = k
    /\ \A i \in DOMAIN r : r[i] # NoString => \E k \in DOMAIN r2 : from[k] = i

LEMMA MoveOwns ==
    ASSUME NEW r \in Rows, NEW h \in Heaps, Owns(r, h), NEW r2 \in Rows, NEW from,
           Moves(r, r2, from)
    PROVE  /\ Owns(r2, h)
           /\ \A k \in DOMAIN r2 :
                 Element(r2, h, k) = IF from[k] = 0 THEN 0 ELSE Element(r, h, from[k])
<1>1. /\ \A j \in DOMAIN r : r[j] # NoString => r[j] \in DOMAIN h
      /\ \A q \in DOMAIN h : \E j \in DOMAIN r : r[j] = q
      /\ \A j, k \in DOMAIN r : r[j] = r[k] /\ r[j] # NoString => j = k
  BY DEF Owns
<1> USE DEF Moves
<1>2. DOMAIN h \subseteq Nat /\ NoString \notin Nat /\ 0 \notin DOMAIN r
  BY HeapType, RowsType, ArrayAssumption
<1>3. \A k \in DOMAIN r2 : r2[k] # NoString => r2[k] \in DOMAIN h
  BY <1>1
<1>4. \A q \in DOMAIN h : \E k \in DOMAIN r2 : r2[k] = q
  <2> TAKE q \in DOMAIN h
  <2>1. PICK i \in DOMAIN r : r[i] = q
    BY <1>1
  <2>2. PICK k \in DOMAIN r2 : from[k] = i
    BY <1>2, <2>1
  <2> QED BY <1>2, <2>1, <2>2
<1>5. \A j, k \in DOMAIN r2 : r2[j] = r2[k] /\ r2[j] # NoString => j = k
  BY <1>1, <1>2
<1> QED BY <1>2, <1>3, <1>4, <1>5 DEF Owns, Element

-----------------------------------------------------------------------------
(* Array: the operations on rows                                           *)

\* What get() returns for an index, from 1, also behind the last element.
Get(a, i) == IF i <= a.numElements THEN Elem(a, i) ELSE 0

LEMMA OwnedType ==
    ASSUME NEW a, Owned(a)
    PROVE  /\ a.rows \in Rows /\ a.strings \in Heaps /\ a.numElements \in Nat
           /\ Owns(a.rows, a.strings)
           /\ Len(a.rows) \in Nat /\ DOMAIN a.rows = 1..Len(a.rows)
           /\ a.numElements <= Len(a.rows)
BY RowsType DEF Owned, Held, ARRAY

LEMMA ElementType ==
    ASSUME NEW r \in Rows, NEW h \in Heaps, Owns(r, h), NEW i \in DOMAIN r
    PROVE  Element(r, h, i) \in Values
BY HeapType, ArrayAssumption DEF Owns, Element

LEMMA ElemBehind ==
    ASSUME NEW a, Owned(a), NEW i \in DOMAIN a.rows
    PROVE  Elem(a, i) = Get(a, i) /\ Get(a, i) \in Values
<1>1. a.numElements \in Nat /\ i \in Nat
  BY OwnedType
<1>2. CASE i <= a.numElements
  BY <1>2, OwnedType, ElementType DEF Get, Elem
<1>3. CASE i > a.numElements
  BY <1>1, <1>3, ArrayAssumption DEF Owned, Get, Elem, Element
<1> QED BY <1>1, <1>2, <1>3

LEMMA ContentsOf ==
    ASSUME NEW a, Owned(a)
    PROVE  /\ Contents(a) \in Seq(Values) /\ Len(Contents(a)) = a.numElements
           /\ \A i \in 1..a.numElements : Contents(a)[i] = Get(a, i)
<1>1. a.numElements \in Nat /\ \A i \in 1..a.numElements : i \in DOMAIN a.rows
  BY OwnedType
<1>2. \A i \in 1..a.numElements : Get(a, i) \in Values /\ Get(a, i) = Elem(a, i)
  BY <1>1, ElemBehind
<1>3. Contents(a) = [i \in 1..a.numElements |-> Elem(a, i)]
  BY DEF Contents, Elem, Element
<1> QED BY <1>1, <1>2, <1>3

\* Two arrays with the same elements.
LEMMA SameContents ==
    ASSUME NEW a, Owned(a), NEW s \in Seq(Values), Len(s) = a.numElements,
           \A i \in 1..Len(s) : s[i] = Get(a, i)
    PROVE  Contents(a) = s
BY ContentsOf

LEMMA ReserveOwned ==
    ASSUME NEW a, Owned(a), NEW size \in Nat, NEW b, b = reserve(a, size)
    PROVE  /\ Owned(b) /\ b.numElements = a.numElements
           /\ Len(b.rows) >= Len(a.rows) /\ Len(b.rows) >= size
           /\ \A i \in DOMAIN a.rows : b.rows[i] = a.rows[i]
           /\ \A i \in Nat \ {0} : Get(b, i) = Get(a, i)
<1> DEFINE r == a.rows
           n == Len(r)
           new == [i \in 1..(size - n) |-> NoString]
           r2 == r \o new
<1>1. /\ r \in Rows /\ a.strings \in Heaps /\ a.numElements \in Nat /\ Owns(r, a.strings)
      /\ n \in Nat /\ DOMAIN r = 1..n /\ a.numElements <= n
  BY OwnedType
<1>2. CASE size <= n
  BY <1>1, <1>2 DEF reserve, numCapacity
<1>3. CASE size > n
  <2>1. size - n \in Nat /\ new \in Seq(Nat \cup {NoString}) /\ Len(new) = size - n
    BY <1>1, <1>3
  <2>2. /\ r2 \in Rows /\ Len(r2) = size /\ DOMAIN r2 = 1..size
        /\ \A i \in 1..size : r2[i] = IF i <= n THEN r[i] ELSE NoString
    BY <1>1, <1>3, <2>1 DEF Rows
  <2>3. b = [a EXCEPT !.rows = r2]
    BY <1>1, <1>3 DEF reserve, numCapacity
  <2>4. b \in ARRAY /\ b.rows = r2 /\ b.numElements = a.numElements /\ b.strings = a.strings
    <3> HIDE DEF r2
    <3> QED BY <2>2, <2>3 DEF Owned, Held, ARRAY
  <2> DEFINE from == [k \in 1..size |-> IF k <= n THEN k ELSE 0]
  <2>5. /\ Owns(r2, a.strings)
        /\ \A k \in 1..size : Element(r2, a.strings, k)
                                  = IF from[k] = 0 THEN 0 ELSE Element(r, a.strings, from[k])
    <3>1. \A k \in DOMAIN r2 : \/ from[k] = 0 /\ r2[k] = NoString
                               \/ from[k] \in DOMAIN r /\ r2[k] = r[from[k]]
      BY <1>1, <1>3, <2>2
    <3>2. \A j, k \in DOMAIN r2 : from[j] = from[k] /\ from[j] # 0 => j = k
      BY <1>1, <1>3, <2>2
    <3>3. \A i \in DOMAIN r : i \in DOMAIN r2 /\ from[i] = i
      BY <1>1, <1>3, <2>2
    <3>4. r \in Rows /\ a.strings \in Heaps /\ Owns(r, a.strings) /\ r2 \in Rows
      BY <1>1, <2>2
    <3>6. Moves(r, r2, from)
      BY <3>1, <3>2, <3>3 DEF Moves
    <3> HIDE DEF r2, r, from
    <3>5. /\ Owns(r2, a.strings)
          /\ \A k \in DOMAIN r2 : Element(r2, a.strings, k)
                                    = IF from[k] = 0 THEN 0 ELSE Element(r, a.strings, from[k])
      BY <3>4, <3>6, MoveOwns
    <3> QED BY <2>2, <3>5
  <2>6. \A i \in Nat \ {0} : i <= a.numElements => Elem(b, i) = Elem(a, i)
    <3> TAKE i \in Nat \ {0}
    <3> HAVE i <= a.numElements
    <3>1. i \in 1..size /\ from[i] = i
      BY <1>1, <1>3
    <3>2. Element(r2, a.strings, i) = Element(r, a.strings, i)
      <4> HIDE DEF from, r2, r
      <4> QED BY <2>5, <3>1
    <3> QED BY <2>4, <3>2 DEF Elem
  <2>7. Owned(b)
    <3> HIDE DEF r2
    <3> QED BY <1>1, <1>3, <2>2, <2>4, <2>5 DEF Owned, Held
  <2>8. \A i \in DOMAIN r : b.rows[i] = r[i]
    BY <1>1, <1>3, <2>2, <2>4
  <2>9. Len(b.rows) >= Len(a.rows) /\ Len(b.rows) >= size
    <3> HIDE DEF r2, r
    <3>1. Len(b.rows) = size /\ size >= n
      BY <1>1, <1>3, <2>2, <2>4
    <3> QED BY <3>1 DEF r
  <2>10. \A i \in Nat \ {0} : Get(b, i) = Get(a, i)
    BY <2>4, <2>6 DEF Get
  <2> HIDE DEF r2, from
  <2> QED BY <2>4, <2>7, <2>8, <2>9, <2>10
<1> QED BY <1>1, <1>2, <1>3

LEMMA HoldingHeld ==
    ASSUME NEW a, Held(a), NEW i \in DOMAIN a.rows, NEW v \in Values \ {0}, NEW p \in Nat,
           p = a.rows[i] \/ (a.rows[i] = NoString /\ p \notin DOMAIN a.strings),
           NEW b, b = Holding(a, i, p, v)
    PROVE  /\ Held(b) /\ b.numElements = a.numElements /\ Len(b.rows) = Len(a.rows)
           /\ \A j \in DOMAIN a.rows : b.rows[j] = IF j = i THEN p ELSE a.rows[j]
           /\ \A j \in DOMAIN a.rows : Elem(b, j) = IF j = i THEN v ELSE Elem(a, j)
<1> DEFINE r2 == PutRow(a.rows, i, p)
           h2 == PutString(a.strings, p, v)
<1>1. a \in ARRAY /\ a.rows \in Rows /\ a.strings \in Heaps /\ Owns(a.rows, a.strings)
  BY DEF Held, ARRAY
<1>2. /\ r2 \in Rows /\ h2 \in Heaps /\ Owns(r2, h2) /\ Len(r2) = Len(a.rows)
      /\ \A j \in DOMAIN a.rows : r2[j] = IF j = i THEN p ELSE a.rows[j]
      /\ \A j \in DOMAIN a.rows : Element(r2, h2, j) = IF j = i THEN v ELSE Elem(a, j)
  BY <1>1, PutOwns DEF Elem
<1>3. b = [a EXCEPT !.rows = r2, !.strings = h2]
  BY <1>1 DEF Holding, PutRow, PutString, ARRAY
<1> HIDE DEF r2, h2
<1>4. b \in ARRAY /\ b.rows = r2 /\ b.strings = h2 /\ b.numElements = a.numElements
  BY <1>1, <1>2, <1>3 DEF ARRAY
<1> QED BY <1>2, <1>4 DEF Held, Elem

\* Row i without the string that it has pointed to.
Dropped(a, i) == [a EXCEPT !.rows[i] = NoString, !.strings = Deleted(a, a.rows[i])]

LEMMA DroppedHeld ==
    ASSUME NEW a, Held(a), NEW i \in DOMAIN a.rows, NEW b, b = Dropped(a, i)
    PROVE  /\ Held(b) /\ b.numElements = a.numElements /\ Len(b.rows) = Len(a.rows)
           /\ \A j \in DOMAIN a.rows : b.rows[j] = IF j = i THEN NoString ELSE a.rows[j]
           /\ \A j \in DOMAIN a.rows : Elem(b, j) = IF j = i THEN 0 ELSE Elem(a, j)
<1> DEFINE r2 == PutRow(a.rows, i, NoString)
           h2 == DropString(a.strings, a.rows[i])
<1>1. a \in ARRAY /\ a.rows \in Rows /\ a.strings \in Heaps /\ Owns(a.rows, a.strings)
  BY DEF Held, ARRAY
<1>2. /\ r2 \in Rows /\ h2 \in Heaps /\ Owns(r2, h2) /\ Len(r2) = Len(a.rows)
      /\ \A j \in DOMAIN a.rows : r2[j] = IF j = i THEN NoString ELSE a.rows[j]
      /\ \A j \in DOMAIN a.rows : Element(r2, h2, j) = IF j = i THEN 0 ELSE Elem(a, j)
  BY <1>1, DropOwns DEF Elem
<1>3. b = [a EXCEPT !.rows = r2, !.strings = h2]
  BY <1>1 DEF Dropped, Deleted, PutRow, DropString, ARRAY
<1> HIDE DEF r2, h2
<1>4. b \in ARRAY /\ b.rows = r2 /\ b.strings = h2 /\ b.numElements = a.numElements
  BY <1>1, <1>2, <1>3 DEF ARRAY
<1> QED BY <1>2, <1>4 DEF Held, Elem

\* An array in which only the number of elements is different.
LEMMA Recounted ==
    ASSUME NEW a, Held(a), NEW n \in Nat, n <= Len(a.rows),
           \A i \in DOMAIN a.rows : i > n => a.rows[i] = NoString,
           NEW b, b = [a EXCEPT !.numElements = n]
    PROVE  /\ Owned(b) /\ b.numElements = n /\ b.rows = a.rows /\ b.strings = a.strings
           /\ \A i : Elem(b, i) = Elem(a, i)
<1>1. a \in ARRAY /\ Owns(a.rows, a.strings)
  BY DEF Held
<1>2. b \in ARRAY /\ b.rows = a.rows /\ b.strings = a.strings /\ b.numElements = n
  BY <1>1 DEF ARRAY
<1> QED BY <1>1, <1>2 DEF Owned, Held, Elem

LEMMA SetOwned ==
    ASSUME NEW a, Owned(a), NEW i \in Nat \ {0}, NEW v \in Values, NEW b, b = set(a, i, v)
    PROVE  /\ Owned(b)
           /\ b.numElements = IF i > a.numElements THEN i ELSE a.numElements
           /\ Len(b.rows) >= Len(a.rows)
           /\ \A k \in Nat \ {0} : Get(b, k) = IF k = i THEN v ELSE Get(a, k)
<1> DEFINE size == IF i > numCapacity(a) THEN i - 1 + Growth ELSE 0
           x == reserve(a, size)
           n == IF i > x.numElements THEN i ELSE x.numElements
           c == [x EXCEPT !.numElements = n]
           p == IF c.rows[i] = NoString THEN NewString(c) ELSE c.rows[i]
           d == Holding(c, i, p, v)
           e == Dropped(c, i)
<1>1. b = IF v # 0 THEN d ELSE e
  <2>1. c = [x EXCEPT !.numElements = IF i > @ THEN i ELSE @]
    OBVIOUS
  <2> QED BY <2>1 DEF set, Dropped
<1>2. a.numElements \in Nat /\ Len(a.rows) \in Nat /\ size \in Nat /\ (i <= Len(a.rows) \/ i <= size)
  BY OwnedType, ArrayAssumption DEF numCapacity
<1>3. /\ Owned(x) /\ x.numElements = a.numElements
      /\ Len(x.rows) >= Len(a.rows) /\ Len(x.rows) >= size
      /\ \A k \in Nat \ {0} : Get(x, k) = Get(a, k)
  <2> HIDE DEF size, x
  <2> QED BY <1>2, ReserveOwned DEF x
<1> HIDE DEF size, x
<1>4. /\ x.rows \in Rows /\ Len(x.rows) \in Nat /\ DOMAIN x.rows = 1..Len(x.rows)
      /\ Held(x) /\ i \in DOMAIN x.rows /\ x.numElements <= Len(x.rows)
      /\ n \in Nat /\ n <= Len(x.rows) /\ n >= i /\ n >= a.numElements
      /\ \A j \in DOMAIN x.rows : j > x.numElements => x.rows[j] = NoString
  BY <1>2, <1>3, OwnedType DEF Owned
<1>5. /\ Owned(c) /\ c.numElements = n /\ c.rows = x.rows /\ c.strings = x.strings
      /\ \A j : Elem(c, j) = Elem(x, j)
  <2>1. \A j \in DOMAIN x.rows : j > n => x.rows[j] = NoString
    BY <1>2, <1>3, <1>4
  <2> HIDE DEF n
  <2> QED BY <1>4, <2>1, Recounted
<1> HIDE DEF c
<1>6. \A k \in 1..Len(x.rows) : Elem(c, k) = Get(a, k)
  BY <1>3, <1>4, <1>5, ElemBehind
<1>7. Held(c) /\ DOMAIN c.rows = 1..Len(x.rows) /\ i \in DOMAIN c.rows
  BY <1>4, <1>5 DEF Owned
<1>8. /\ Held(b) /\ b.numElements = n /\ Len(b.rows) = Len(x.rows)
      /\ \A j \in 1..Len(x.rows) : j # i => b.rows[j] = x.rows[j]
      /\ \A j \in 1..Len(x.rows) : Elem(b, j) = IF j = i THEN v ELSE Get(a, j)
  <2>1. CASE v # 0
    <3>1. c.rows \in Rows /\ c.rows[i] \in Nat \cup {NoString} /\ NewString(c) \in Nat
          /\ NewString(c) \notin DOMAIN c.strings
      BY <1>4, <1>5, <1>7, RowsType, FreshString
    <3>2. p \in Nat /\ (p = c.rows[i] \/ (c.rows[i] = NoString /\ p \notin DOMAIN c.strings))
      BY <3>1
    <3>3. b = d /\ v \in Values \ {0}
      BY <1>1, <2>1
    <3> HIDE DEF p
    <3>4. /\ Held(b) /\ b.numElements = c.numElements /\ Len(b.rows) = Len(c.rows)
          /\ \A j \in DOMAIN c.rows : b.rows[j] = IF j = i THEN p ELSE c.rows[j]
          /\ \A j \in DOMAIN c.rows : Elem(b, j) = IF j = i THEN v ELSE Elem(c, j)
      BY <1>7, <3>2, <3>3, HoldingHeld
    <3> QED BY <1>5, <1>6, <1>7, <3>4
  <2>2. CASE v = 0
    <3>1. b = Dropped(c, i)
      BY <1>1, <2>2
    <3>2. /\ Held(b) /\ b.numElements = c.numElements /\ Len(b.rows) = Len(c.rows)
          /\ \A j \in DOMAIN c.rows : b.rows[j] = IF j = i THEN NoString ELSE c.rows[j]
          /\ \A j \in DOMAIN c.rows : Elem(b, j) = IF j = i THEN 0 ELSE Elem(c, j)
      BY <1>7, <3>1, DroppedHeld
    <3> QED BY <1>5, <1>6, <1>7, <2>2, <3>2
  <2> QED BY <2>1, <2>2
<1>9. Owned(b) /\ DOMAIN b.rows = 1..Len(x.rows)
  <2>1. b.rows \in Rows
    BY <1>8 DEF Held, ARRAY
  <2>2. DOMAIN b.rows = 1..Len(x.rows)
    BY <1>8, <2>1, RowsType
  <2>3. \A j \in 1..Len(x.rows) : j > n => b.rows[j] = NoString
    BY <1>2, <1>3, <1>4, <1>8
  <2> QED BY <1>4, <1>8, <2>2, <2>3 DEF Owned
<1>10. \A k \in Nat \ {0} : Get(b, k) = IF k = i THEN v ELSE Get(a, k)
  <2> TAKE k \in Nat \ {0}
  <2>1. CASE k <= n
    BY <1>4, <1>8, <2>1 DEF Get
  <2>2. CASE k > n
    <3>1. k # i /\ k > a.numElements
      BY <1>2, <1>4, <2>2
    <3>2. Get(a, k) = 0 /\ Get(b, k) = 0
      BY <1>2, <1>4, <1>8, <2>2, <3>1 DEF Get
    <3> QED BY <3>1, <3>2
  <2> QED BY <1>4, <2>1, <2>2
<1> QED BY <1>2, <1>3, <1>4, <1>8, <1>9, <1>10

\* Rows from i on that move back by d.
LEMMA ShiftHeld ==
    ASSUME NEW a, Owned(a), NEW i \in 1..a.numElements, NEW d \in Nat \ {0},
           a.numElements + d <= Len(a.rows), NEW b, b = shift(a, i, d)
    PROVE  /\ Held(b) /\ b.numElements = a.numElements /\ Len(b.rows) = Len(a.rows)
           /\ \A k \in DOMAIN a.rows :
                 (k \in i..(i + d - 1) \/ k > a.numElements + d) => b.rows[k] = NoString
           /\ \A k \in DOMAIN a.rows :
                 Elem(b, k) = IF k < i THEN Get(a, k) ELSE IF k < i + d THEN 0 ELSE Get(a, k - d)
<1> DEFINE n == a.numElements
           r == a.rows
           r2 == [k \in DOMAIN r |-> IF k < i \/ k > n + d THEN r[k]
                                     ELSE IF k < i + d THEN NoString ELSE r[k - d]]
           from == [k \in DOMAIN r |-> IF k < i THEN k
                                       ELSE IF k < i + d \/ k > n + d THEN 0 ELSE k - d]
<1>1. /\ r \in Rows /\ a.strings \in Heaps /\ n \in Nat /\ Owns(r, a.strings)
      /\ Len(r) \in Nat /\ DOMAIN r = 1..Len(r) /\ n <= Len(r) /\ i \in Nat /\ d \in Nat
      /\ \A k \in DOMAIN r : k > n => r[k] = NoString
      /\ a \in ARRAY
  BY OwnedType DEF Owned, Held
<1>2. /\ r2 \in Rows /\ Len(r2) = Len(r) /\ DOMAIN r2 = DOMAIN r
  <2>1. \A k \in 1..Len(r) : r2[k] \in Nat \cup {NoString}
    <3> TAKE k \in 1..Len(r)
    <3>1. k \in DOMAIN r /\ (k > i /\ k >= i + d /\ k <= n + d => k - d \in DOMAIN r)
      BY <1>1
    <3>2. \A j \in DOMAIN r : r[j] \in Nat \cup {NoString}
      BY <1>1, RowsType
    <3> QED BY <1>1, <3>1, <3>2
  <2>2. r2 = [k \in 1..Len(r) |-> r2[k]]
    BY <1>1
  <2>3. Len(r) \in Nat /\ DOMAIN r = 1..Len(r)
    BY <1>1
  <2> HIDE DEF r2, r
  <2> QED BY <2>1, <2>2, <2>3 DEF Rows
<1>3. \A k \in DOMAIN r2 : \/ from[k] = 0 /\ r2[k] = NoString
                           \/ from[k] \in DOMAIN r /\ r2[k] = r[from[k]]
  BY <1>1, <1>2
<1>4. \A j, k \in DOMAIN r2 : from[j] = from[k] /\ from[j] # 0 => j = k
  BY <1>1, <1>2
<1>5. \A j \in DOMAIN r : r[j] # NoString => \E k \in DOMAIN r2 : from[k] = j
  <2> TAKE j \in DOMAIN r
  <2> HAVE r[j] # NoString
  <2>1. j <= n /\ j \in Nat
    BY <1>1
  <2>2. CASE j < i
    BY <1>1, <1>2, <2>2
  <2>3. CASE j >= i
    <3>1. j + d \in DOMAIN r /\ from[j + d] = j
      BY <1>1, <2>1, <2>3
    <3> QED BY <1>2, <3>1
  <2> QED BY <1>1, <2>1, <2>2, <2>3
<1>6. \A k \in DOMAIN r : /\ from[k] = 0 => k > n + d \/ k \in i..(i + d - 1)
                          /\ k \in i..(i + d - 1) => from[k] = 0 /\ r2[k] = NoString
                          /\ k > n + d => from[k] = 0 /\ r2[k] = NoString
                          /\ k < i => from[k] = k
                          /\ k >= i + d /\ k <= n + d => from[k] = k - d
  BY <1>1
<1>7. b = [a EXCEPT !.rows = r2]
  BY <1>1 DEF shift, ARRAY
<1> HIDE DEF r2, from
<1>8. /\ Owns(r2, a.strings)
      /\ \A k \in DOMAIN r2 : Element(r2, a.strings, k)
                                 = IF from[k] = 0 THEN 0 ELSE Element(r, a.strings, from[k])
  <2>1. Moves(r, r2, from)
    BY <1>3, <1>4, <1>5 DEF Moves
  <2> QED BY <1>1, <1>2, <2>1, MoveOwns
<1>9. b \in ARRAY /\ b.rows = r2 /\ b.strings = a.strings /\ b.numElements = n
  BY <1>1, <1>2, <1>7 DEF ARRAY
<1>10. Held(b)
  BY <1>8, <1>9 DEF Held
<1>11. ASSUME NEW k \in DOMAIN r
       PROVE  Elem(b, k) = IF k < i THEN Get(a, k) ELSE IF k < i + d THEN 0 ELSE Get(a, k - d)
  <2>1. Elem(b, k) = IF from[k] = 0 THEN 0 ELSE Elem(a, from[k])
    BY <1>2, <1>8, <1>9 DEF Elem
  <2>2. k \in Nat /\ k > 0
    BY <1>1
  <2>3. CASE k < i
    BY <1>1, <1>6, <2>1, <2>2, <2>3 DEF Get
  <2>4. CASE k >= i /\ k < i + d
    BY <1>1, <1>6, <2>1, <2>2, <2>4
  <2>5. CASE k >= i + d /\ k <= n + d
    BY <1>1, <1>6, <2>1, <2>2, <2>5 DEF Get
  <2>6. CASE k >= i + d /\ k > n + d
    <3>1. from[k] = 0 /\ ~(k - d <= n)
      BY <1>1, <1>6, <2>2, <2>6
    <3> QED BY <1>1, <2>1, <2>6, <3>1 DEF Get
  <2> QED BY <1>1, <2>2, <2>3, <2>4, <2>5, <2>6
<1> QED BY <1>2, <1>6, <1>9, <1>10, <1>11

LEMMA EraseOwned ==
    ASSUME NEW a, Owned(a), NEW i \in 1..a.numElements, NEW b, b = erase(a, i)
    PROVE  /\ Owned(b) /\ b.numElements = a.numElements - 1
           /\ \A k \in Nat \ {0} : Get(b, k) = IF k < i THEN Get(a, k) ELSE Get(a, k + 1)
<1> DEFINE n == a.numElements
           x == Dropped(a, i)
           r == x.rows
           r2 == [k \in DOMAIN a.rows |-> IF k = n THEN NoString
                                          ELSE IF k >= i /\ k < n THEN a.rows[k + 1]
                                          ELSE a.rows[k]]
           from == [k \in DOMAIN a.rows |-> IF k < i THEN k ELSE IF k < n THEN k + 1 ELSE 0]
<1>1. /\ n \in Nat /\ Len(a.rows) \in Nat /\ DOMAIN a.rows = 1..Len(a.rows)
      /\ n <= Len(a.rows) /\ i \in DOMAIN a.rows /\ i \in Nat /\ i > 0 /\ i <= n
      /\ \A k \in DOMAIN a.rows : k > n => a.rows[k] = NoString
      /\ a \in ARRAY /\ a.rows \in Rows /\ Held(a)
  BY OwnedType DEF Owned, Held
<1>2. /\ Held(x) /\ Len(r) = Len(a.rows)
      /\ \A j \in DOMAIN a.rows : r[j] = IF j = i THEN NoString ELSE a.rows[j]
      /\ \A j \in DOMAIN a.rows : Elem(x, j) = IF j = i THEN 0 ELSE Elem(a, j)
  BY <1>1, DroppedHeld
<1>3. x.strings = Deleted(a, a.rows[i]) /\ x \in ARRAY /\ r \in Rows /\ DOMAIN r = DOMAIN a.rows
      /\ x.strings \in Heaps /\ Owns(r, x.strings)
  <2>1. x \in ARRAY /\ r \in Rows /\ x.strings \in Heaps /\ Owns(r, x.strings)
    <3> HIDE DEF x
    <3> QED BY <1>2 DEF Held, ARRAY
  <2>2. DOMAIN r = 1..Len(r)
    <3> HIDE DEF x
    <3> QED BY <2>1, RowsType
  <2>3. x.strings = Deleted(a, a.rows[i])
    BY <1>1 DEF Dropped, ARRAY
  <2> QED BY <1>1, <1>2, <2>1, <2>2, <2>3
<1>4. /\ r2 \in Rows /\ Len(r2) = Len(r) /\ DOMAIN r2 = DOMAIN a.rows
  <2>1. \A k \in 1..Len(a.rows) : r2[k] \in Nat \cup {NoString}
    <3> TAKE k \in 1..Len(a.rows)
    <3>1. k \in DOMAIN a.rows /\ (k < n => k + 1 \in DOMAIN a.rows)
      BY <1>1
    <3>2. \A j \in DOMAIN a.rows : a.rows[j] \in Nat \cup {NoString}
      BY <1>1, RowsType
    <3> QED BY <1>1, <3>1, <3>2
  <2>2. r2 = [k \in 1..Len(a.rows) |-> r2[k]]
    BY <1>1
  <2> HIDE DEF r2
  <2>3. r2 \in [1..Len(a.rows) -> Nat \cup {NoString}]
    BY <2>1, <2>2
  <2>4. r2 \in Rows /\ Len(r2) = Len(a.rows)
    BY <1>1, <2>3 DEF Rows
  <2>5. DOMAIN r2 = DOMAIN a.rows
    BY <1>1, <2>3
  <2> QED BY <1>2, <2>4, <2>5
<1>5. b = [a EXCEPT !.rows = r2, !.strings = x.strings, !.numElements = n - 1]
  BY <1>1, <1>3 DEF erase, ARRAY
<1> HIDE DEF x
<1>6. \A k \in DOMAIN r2 : \/ from[k] = 0 /\ r2[k] = NoString
                           \/ from[k] \in DOMAIN r /\ r2[k] = r[from[k]]
  <2> TAKE k \in DOMAIN r2
  <2>1. /\ k \in DOMAIN a.rows /\ k \in Nat /\ k \in DOMAIN r
        /\ from[k] = IF k < i THEN k ELSE IF k < n THEN k + 1 ELSE 0
        /\ r2[k] = IF k = n THEN NoString ELSE IF k >= i /\ k < n THEN a.rows[k + 1] ELSE a.rows[k]
    BY <1>1, <1>3, <1>4
  <2> HIDE DEF from, r2, r
  <2>2. CASE k < i
    <3>1. k # n /\ k # i /\ ~(k >= i)
      BY <1>1, <2>1, <2>2
    <3> QED BY <1>2, <2>1, <2>2, <3>1
  <2>3. CASE ~(k < i) /\ k < n
    <3>1. k >= i /\ k # n /\ k + 1 \in DOMAIN a.rows /\ k + 1 # i
      BY <1>1, <2>1, <2>3
    <3> QED BY <1>2, <1>3, <2>1, <2>3, <3>1
  <2>4. CASE ~(k < i) /\ ~(k < n)
    <3>1. from[k] = 0
      BY <2>1, <2>4
    <3>2. k = n \/ k > n
      BY <1>1, <2>1, <2>4
    <3> QED BY <1>1, <2>1, <2>4, <3>1, <3>2
  <2> QED BY <2>2, <2>3, <2>4
<1>7. \A j, k \in DOMAIN r2 : from[j] = from[k] /\ from[j] # 0 => j = k
  BY <1>1, <1>4
<1>8. \A j \in DOMAIN r : r[j] # NoString => \E k \in DOMAIN r2 : from[k] = j
  <2> TAKE j \in DOMAIN r
  <2> HAVE r[j] # NoString
  <2>1. j <= n /\ j \in Nat /\ j # i /\ j > 0
    BY <1>1, <1>2, <1>3
  <2>2. CASE j < i
    BY <1>1, <1>3, <1>4, <2>2
  <2>3. CASE j > i
    <3>1. j - 1 \in DOMAIN a.rows /\ from[j - 1] = j
      BY <1>1, <2>1, <2>3
    <3> QED BY <1>4, <3>1
  <2> QED BY <1>1, <2>1, <2>2, <2>3
<1>9. \A k \in DOMAIN a.rows : /\ k < i => from[k] = k
                               /\ k >= i /\ k < n => from[k] = k + 1
                               /\ k > n - 1 => from[k] = 0 /\ r2[k] = NoString
  BY <1>1
<1> HIDE DEF r2, from, r
<1>10. /\ Owns(r2, x.strings)
       /\ \A k \in DOMAIN r2 : Element(r2, x.strings, k)
                                  = IF from[k] = 0 THEN 0 ELSE Element(r, x.strings, from[k])
  <2>1. Moves(r, r2, from)
    BY <1>6, <1>7, <1>8 DEF Moves
  <2> QED BY <1>3, <1>4, <2>1, MoveOwns
<1>11. b \in ARRAY /\ b.rows = r2 /\ b.strings = x.strings /\ b.numElements = n - 1
  <2>1. n - 1 \in Nat /\ r2 \in Rows /\ x.strings \in Heaps /\ a \in ARRAY
    BY <1>1, <1>3, <1>4
  <2> QED BY <1>5, <2>1 DEF ARRAY
<1>12. Owned(b)
  BY <1>1, <1>2, <1>4, <1>9, <1>10, <1>11 DEF Owned, Held
<1>13. ASSUME NEW k \in Nat \ {0}
       PROVE  Get(b, k) = IF k < i THEN Get(a, k) ELSE Get(a, k + 1)
  <2>1. CASE k > n - 1
    BY <1>1, <1>11, <2>1 DEF Get
  <2>2. CASE k <= n - 1
    <3>1. k \in DOMAIN a.rows /\ k + 1 \in DOMAIN a.rows /\ k \in DOMAIN r2
      BY <1>1, <1>4, <2>2
    <3>2. Get(b, k) = IF from[k] = 0 THEN 0 ELSE Elem(x, from[k])
      BY <1>10, <1>11, <2>2, <3>1 DEF Elem, Get, r
    <3> QED BY <1>1, <1>2, <1>9, <2>2, <3>1, <3>2 DEF Get
  <2> QED BY <1>1, <2>1, <2>2
<1> QED BY <1>11, <1>12, <1>13

LEMMA PopOwned ==
    ASSUME NEW a, Owned(a), a.numElements > 0, NEW b, b = pop(a)
    PROVE  /\ Owned(b) /\ b.numElements = a.numElements - 1
           /\ \A k \in Nat \ {0} : k < a.numElements => Get(b, k) = Get(a, k)
<1> DEFINE n == a.numElements
           x == Dropped(a, n)
<1>1. /\ n \in Nat /\ n \in DOMAIN a.rows /\ Held(a) /\ n <= Len(a.rows)
      /\ DOMAIN a.rows = 1..Len(a.rows) /\ Len(a.rows) \in Nat
      /\ \A k \in DOMAIN a.rows : k > n => a.rows[k] = NoString
  BY OwnedType DEF Owned
<1>2. /\ Held(x) /\ x.numElements = n /\ Len(x.rows) = Len(a.rows)
      /\ \A j \in DOMAIN a.rows : x.rows[j] = IF j = n THEN NoString ELSE a.rows[j]
      /\ \A j \in DOMAIN a.rows : Elem(x, j) = IF j = n THEN 0 ELSE Elem(a, j)
  BY <1>1, DroppedHeld
<1>3. b = [x EXCEPT !.numElements = n - 1]
  BY <1>1 DEF pop, Dropped, Held, ARRAY
<1> HIDE DEF x
<1>4. DOMAIN x.rows = DOMAIN a.rows
  <2>1. x.rows \in Rows
    BY <1>2 DEF Held, ARRAY
  <2> QED BY <1>1, <1>2, <2>1, RowsType
<1>5. \A j \in DOMAIN x.rows : j > n - 1 => x.rows[j] = NoString
  BY <1>1, <1>2, <1>4
<1>6. Owned(b) /\ b.numElements = n - 1 /\ \A j : Elem(b, j) = Elem(x, j)
  <2>1. n - 1 \in Nat /\ n - 1 <= Len(x.rows)
    BY <1>1, <1>2
  <2> QED BY <1>2, <1>3, <1>5, <2>1, Recounted
<1>7. \A k \in Nat \ {0} : k < n => Get(b, k) = Get(a, k)
  BY <1>1, <1>2, <1>6 DEF Get
<1> QED BY <1>6, <1>7

InsertedMoved(a, i, v) == insert(a, i, v, TRUE)
Inserted(a, i, v) == insert(a, i, v, FALSE)

\* insert() of one string when reserve() has moved the rows that it shifts: the
\* array still owns its strings.
LEMMA InsertMoved ==
    ASSUME NEW a, Owned(a), NEW i \in Nat \ {0}, NEW v \in Values, i <= a.numElements
    PROVE  Owned(InsertedMoved(a, i, v))
<1> DEFINE n == a.numElements
           x == reserve(a, n + 2)
           c == [x EXCEPT !.numElements = n + 1]
<1>1. n \in Nat /\ n + 2 \in Nat
  BY OwnedType
<1>2. Owned(x) /\ x.numElements = n /\ Len(x.rows) >= n + 2
  BY <1>1, ReserveOwned
<1> HIDE DEF x
<1>3. /\ Held(x) /\ DOMAIN x.rows = 1..Len(x.rows) /\ Len(x.rows) \in Nat
      /\ \A k \in DOMAIN x.rows : k > n => x.rows[k] = NoString
  BY <1>2, OwnedType DEF Owned
<1>4. InsertedMoved(a, i, v) = set(c, i, v)
  BY <1>1, <1>2 DEF InsertedMoved, insert, x
<1>5. Owned(c)
  <2>1. n + 1 \in Nat /\ n + 1 <= Len(x.rows)
        /\ \A k \in DOMAIN x.rows : k > n + 1 => x.rows[k] = NoString
    BY <1>1, <1>2, <1>3
  <2> QED BY <1>3, <2>1, Recounted
<1> HIDE DEF c
<1> QED BY <1>4, <1>5, SetOwned

\* insert() of one string when the rows have stayed where they are.
LEMMA InsertOwned ==
    ASSUME NEW a, Owned(a), NEW i \in Nat \ {0}, NEW v \in Values,
           NEW b, b = Inserted(a, i, v)
    PROVE  /\ Owned(b)
           /\ i <= a.numElements =>
                 /\ b.numElements = a.numElements + 1
                 /\ \A k \in Nat \ {0} :
                       Get(b, k) = IF k < i THEN Get(a, k)
                                   ELSE IF k = i THEN v ELSE Get(a, k - 1)
           /\ i > a.numElements =>
                 /\ b.numElements = i
                 /\ \A k \in Nat \ {0} : Get(b, k) = IF k = i THEN v ELSE Get(a, k)
<1> DEFINE n == a.numElements
           x == reserve(a, n + 2)
           y == shift(x, i, 1)
<1>1. n \in Nat /\ n + 2 \in Nat
  BY OwnedType
<1>2. /\ Owned(x) /\ x.numElements = n /\ Len(x.rows) >= n + 2
      /\ \A k \in Nat \ {0} : Get(x, k) = Get(a, k)
  BY <1>1, ReserveOwned
<1> HIDE DEF x
<1>3. /\ Held(x) /\ DOMAIN x.rows = 1..Len(x.rows) /\ Len(x.rows) \in Nat
      /\ \A k \in DOMAIN x.rows : k > n => x.rows[k] = NoString
  BY <1>2, OwnedType DEF Owned
<1>4. CASE i > n
  <2>1. b = set(x, i, v)
    BY <1>4 DEF Inserted, insert, x
  <2>2. /\ Owned(b) /\ b.numElements = i
        /\ \A k \in Nat \ {0} : Get(b, k) = IF k = i THEN v ELSE Get(x, k)
    BY <1>2, <1>4, <2>1, SetOwned
  <2> QED BY <1>1, <1>2, <1>4, <2>2
<1>5. CASE i <= n
  <2> DEFINE c == [y EXCEPT !.numElements = n + 1]
  <2>1. i \in 1..n /\ n + 1 <= Len(x.rows)
    BY <1>1, <1>2, <1>5
  <2>2. /\ Held(y) /\ y.numElements = n /\ Len(y.rows) = Len(x.rows)
        /\ \A k \in DOMAIN x.rows : (k \in i..(i + 1 - 1) \/ k > n + 1) => y.rows[k] = NoString
        /\ \A k \in DOMAIN x.rows :
              Elem(y, k) = IF k < i THEN Get(x, k) ELSE IF k < i + 1 THEN 0 ELSE Get(x, k - 1)
    BY <1>2, <2>1, ShiftHeld
  <2> HIDE DEF y
  <2>3. b = set(c, i, v)
    BY <1>1, <1>5, <2>2 DEF Inserted, insert, x, y
  <2>4. y.rows \in Rows /\ DOMAIN y.rows = DOMAIN x.rows
    <3>1. y.rows \in Rows
      BY <2>2 DEF Held, ARRAY
    <3> QED BY <1>3, <2>2, <3>1, RowsType
  <2>5. Owned(c) /\ c.numElements = n + 1 /\ \A k : Elem(c, k) = Elem(y, k)
    <3>1. n + 1 \in Nat /\ n + 1 <= Len(y.rows)
          /\ \A k \in DOMAIN y.rows : k > n + 1 => y.rows[k] = NoString
      BY <1>1, <2>1, <2>2, <2>4
    <3> QED BY <2>2, <3>1, Recounted
  <2> HIDE DEF c
  <2>6. /\ Owned(b) /\ b.numElements = n + 1
        /\ \A k \in Nat \ {0} : Get(b, k) = IF k = i THEN v ELSE Get(c, k)
    <3>1. /\ Owned(b) /\ b.numElements = IF i > c.numElements THEN i ELSE c.numElements
          /\ \A k \in Nat \ {0} : Get(b, k) = IF k = i THEN v ELSE Get(c, k)
      BY <2>3, <2>5, SetOwned
    <3> QED BY <1>1, <1>5, <2>5, <3>1
  <2>7. ASSUME NEW k \in Nat \ {0}
        PROVE  Get(b, k) = IF k < i THEN Get(a, k) ELSE IF k = i THEN v ELSE Get(a, k - 1)
    <3>1. CASE k > n + 1
      <4>1. Get(b, k) = 0 /\ k - 1 > n /\ ~(k < i) /\ k # i
        BY <1>1, <2>1, <2>6, <3>1 DEF Get
      <4>2. Get(a, k - 1) = 0
        BY <1>1, <4>1 DEF Get
      <4> QED BY <4>1, <4>2
    <3>2. CASE k <= n + 1
      <4>1. k \in DOMAIN x.rows
        BY <1>1, <1>3, <2>1, <3>2
      <4>2. Get(c, k) = IF k < i THEN Get(x, k) ELSE IF k < i + 1 THEN 0 ELSE Get(x, k - 1)
        BY <2>2, <2>5, <3>2, <4>1 DEF Get
      <4>3. k < i => Get(x, k) = Get(a, k)
        BY <1>2
      <4>4. k > i => Get(x, k - 1) = Get(a, k - 1)
        BY <1>2, k > i => k - 1 \in Nat \ {0}
      <4> QED BY <2>6, <4>2, <4>3, <4>4
    <3> QED BY <1>1, <3>1, <3>2
  <2> QED BY <1>1, <1>5, <2>6, <2>7
<1> QED BY <1>1, <1>4, <1>5

-----------------------------------------------------------------------------
(* Array: the loops                                                        *)

IsStored(f, a, i, s) ==
    f = [k \in 0..Len(s) |->
            IF k = 0 THEN a
            ELSE IF s[k] = 0 THEN f[k - 1]
            ELSE Holding(f[k - 1], i + k - 1, NewString(f[k - 1]), s[k])]

LEMMA StoredChosen ==
    ASSUME NEW a, NEW i, NEW s
    PROVE  Stored(a, i, s) = (CHOOSE f : IsStored(f, a, i, s))[Len(s)]
BY DEF Stored, IsStored

\* Strings that are put into empty rows.
LEMMA StoredHeld ==
    ASSUME NEW a, Held(a), NEW i \in Nat \ {0}, NEW s \in Seq(Values),
           \A k \in i..(i + Len(s) - 1) : k \in DOMAIN a.rows /\ a.rows[k] = NoString,
           NEW b, b = Stored(a, i, s)
    PROVE  /\ Held(b) /\ b.numElements = a.numElements /\ Len(b.rows) = Len(a.rows)
           /\ \A k \in DOMAIN a.rows : k < i \/ k >= i + Len(s) => b.rows[k] = a.rows[k]
           /\ \A k \in DOMAIN a.rows :
                 Elem(b, k) = IF k < i \/ k >= i + Len(s) THEN Elem(a, k) ELSE s[k - i + 1]
<1> DEFINE n == Len(s)
           Inv(x, m) ==
               /\ Held(x) /\ x.numElements = a.numElements /\ Len(x.rows) = Len(a.rows)
               /\ \A k \in DOMAIN a.rows : k < i \/ k >= i + m => x.rows[k] = a.rows[k]
               /\ \A k \in DOMAIN a.rows :
                     Elem(x, k) = IF k < i \/ k >= i + m THEN Elem(a, k) ELSE s[k - i + 1]
           S == [m \in 0..n |-> {x \in ARRAY : Inv(x, m)}]
           Step(m, x) == IF s[m] = 0 THEN x ELSE Holding(x, i + m - 1, NewString(x), s[m])
           g == [e \in (1..n) \X ARRAY |-> Step(e[1], e[2])]
<1>1. n \in Nat /\ \A m \in 1..n : s[m] \in Values
  OBVIOUS
<1>2. a.rows \in Rows /\ DOMAIN a.rows = 1..Len(a.rows) /\ Len(a.rows) \in Nat /\ a \in ARRAY
  BY RowsType DEF Held, ARRAY
<1>3. a \in S[0]
  <2>1. Inv(a, 0)
    BY <1>2
  <2> HIDE DEF Inv
  <2> QED BY <1>1, <1>2, <2>1
<1>4. ASSUME NEW m \in 1..n, NEW x \in ARRAY, Inv(x, m - 1)
      PROVE  Inv(Step(m, x), m) /\ Step(m, x) \in ARRAY
  <2> DEFINE j == i + m - 1
             p == NewString(x)
  <2>1. j \in DOMAIN a.rows /\ a.rows[j] = NoString /\ j \in Nat
    BY <1>1
  <2>2. x.rows \in Rows /\ DOMAIN x.rows = DOMAIN a.rows
    <3>1. x.rows \in Rows
      BY DEF ARRAY
    <3> QED BY <1>2, <1>4, <3>1, RowsType
  <2>3. x.rows[j] = NoString /\ Elem(x, j) = 0
    <3>1. x.rows[j] = NoString
      BY <1>1, <1>4, <2>1
    <3> QED BY <3>1 DEF Elem, Element
  <2>4. \A k \in DOMAIN a.rows : /\ k \in Nat
                                 /\ k # j => (k >= i + m <=> k >= i + (m - 1))
                                 /\ k = j => ~(k < i) /\ ~(k >= i + m) /\ k - i + 1 = m
    BY <1>1, <1>2
  <2>5. CASE s[m] = 0
    <3>1. Elem(x, j) = s[m]
      BY <2>3, <2>5
    <3>2. \A k \in DOMAIN a.rows : k < i \/ k >= i + m => x.rows[k] = a.rows[k]
      BY <1>4, <2>4
    <3>3. \A k \in DOMAIN a.rows :
             Elem(x, k) = IF k < i \/ k >= i + m THEN Elem(a, k) ELSE s[k - i + 1]
      BY <1>4, <2>4, <3>1
    <3> QED BY <1>4, <2>5, <3>2, <3>3
  <2>6. CASE s[m] # 0
    <3> DEFINE y == Holding(x, j, p, s[m])
    <3>1. s[m] \in Values \ {0}
      BY <1>1, <2>6
    <3>2. p \in Nat /\ p \notin DOMAIN x.strings
      BY <1>4, FreshString
    <3>3. /\ Held(y) /\ y.numElements = x.numElements /\ Len(y.rows) = Len(x.rows)
          /\ \A k \in DOMAIN x.rows : y.rows[k] = IF k = j THEN p ELSE x.rows[k]
          /\ \A k \in DOMAIN x.rows : Elem(y, k) = IF k = j THEN s[m] ELSE Elem(x, k)
      <4> HIDE DEF p, j
      <4> QED BY <1>4, <2>1, <2>2, <2>3, <3>1, <3>2, HoldingHeld
    <3>4. \A k \in DOMAIN a.rows : k < i \/ k >= i + m => y.rows[k] = a.rows[k]
      <4> HIDE DEF y, p, j
      <4> QED BY <1>4, <2>2, <2>4, <3>3
    <3>5. \A k \in DOMAIN a.rows :
             Elem(y, k) = IF k < i \/ k >= i + m THEN Elem(a, k) ELSE s[k - i + 1]
      <4> HIDE DEF y, p, j
      <4> QED BY <1>4, <2>2, <2>4, <3>3
    <3>6. Step(m, x) = y
      BY <2>6
    <3> HIDE DEF y, Step
    <3> QED BY <1>4, <3>3, <3>4, <3>5, <3>6 DEF Held
  <2> QED BY <2>5, <2>6
<1>5. \A m \in 1..n : \A x \in S[m - 1] : g[<<m, x>>] \in S[m] /\ g[<<m, x>>] = Step(m, x)
  <2> TAKE m \in 1..n
  <2> TAKE x \in S[m - 1]
  <2>1. m - 1 \in 0..n /\ m \in 0..n
    BY <1>1
  <2>2. x \in ARRAY /\ Inv(x, m - 1)
    <3> HIDE DEF Inv
    <3> QED BY <2>1
  <2>3. g[<<m, x>>] = Step(m, x)
    <3> HIDE DEF Step
    <3> QED BY <2>2
  <2>4. Inv(Step(m, x), m) /\ Step(m, x) \in ARRAY
    <3> HIDE DEF Inv, Step
    <3> QED BY <1>4, <2>2
  <2> HIDE DEF Inv, Step, g
  <2> QED BY <2>1, <2>3, <2>4
<1> HIDE DEF S, g
<1>6. PICK f : IsRun(f, n, a, g) /\ \A k \in 0..n : f[k] \in S[k]
  <2>1. \A m \in 1..n : \A x \in S[m - 1] : g[<<m, x>>] \in S[m]
    <3> HIDE DEF Step
    <3> QED BY <1>5
  <2> HIDE DEF n
  <2> QED BY <1>1, <1>3, <2>1, LoopRuns
<1>7. \A k \in 1..n : k # 0 /\ k \in 0..n /\ k - 1 \in 0..n
  BY <1>1
<1>8. IsStored(f, a, i, s)
  <2>1. \A k \in 1..n : g[<<k, f[k - 1]>>] = Step(k, f[k - 1])
    <3> HIDE DEF Step
    <3> QED BY <1>5, <1>6, <1>7
  <2>2. f = [k \in 0..n |-> IF k = 0 THEN a ELSE Step(k, f[k - 1])]
    <3>1. \A k \in 0..n : k = 0 \/ k \in 1..n
      BY <1>1
    <3> HIDE DEF Step, n
    <3> QED BY <1>6, <2>1, <3>1 DEF IsRun
  <2> HIDE DEF n
  <2> QED BY <2>2 DEF IsStored, n
<1> DEFINE h == CHOOSE h : IsStored(h, a, i, s)
<1>9. IsStored(h, a, i, s)
  BY <1>8
<1>10. h[0] = a /\ \A k \in 1..n : h[k] = Step(k, h[k - 1])
  <2> HIDE DEF h
  <2> QED BY <1>1, <1>7, <1>9, 0 \in 0..n DEF IsStored
<1>11. \A k \in 0..n : h[k] \in S[k]
  <2> HIDE DEF h, Step
  <2>1. \A k \in 1..n : h[k - 1] \in S[k - 1] => h[k] \in S[k]
    BY <1>5, <1>10
  <2> QED BY <1>1, <1>3, <1>10, <2>1, LoopKeeps
<1>12. b = h[n]
  BY StoredChosen
<1>13. Inv(b, n)
  <2> HIDE DEF h, Inv
  <2> QED BY <1>1, <1>11, <1>12 DEF S
<1> QED BY <1>13

IsAdded(f, a, s) ==
    f = [k \in 0..Len(s) |->
            IF k = 0 THEN a ELSE set(f[k - 1], f[k - 1].numElements + 1, s[k])]

LEMMA AddedChosen ==
    ASSUME NEW a, NEW s
    PROVE  addEach(a, s) = (CHOOSE f : IsAdded(f, a, s))[Len(s)]
BY DEF addEach, IsAdded

\* Strings that are added one by one.
LEMMA AddEachOwned ==
    ASSUME NEW a, Owned(a), NEW s \in Seq(Values), NEW b, b = addEach(a, s)
    PROVE  /\ Owned(b) /\ b.numElements = a.numElements + Len(s)
           /\ \A k \in Nat \ {0} :
                 Get(b, k) = IF k > a.numElements /\ k <= a.numElements + Len(s)
                             THEN s[k - a.numElements] ELSE Get(a, k)
<1> DEFINE n == Len(s)
           Inv(x, m) ==
               /\ Owned(x) /\ x.numElements = a.numElements + m
               /\ \A k \in Nat \ {0} :
                     Get(x, k) = IF k > a.numElements /\ k <= a.numElements + m
                                 THEN s[k - a.numElements] ELSE Get(a, k)
           S == [m \in 0..n |-> {x \in ARRAY : Inv(x, m)}]
           Step(m, x) == set(x, x.numElements + 1, s[m])
           g == [e \in (1..n) \X ARRAY |-> Step(e[1], e[2])]
<1>1. n \in Nat /\ a.numElements \in Nat /\ \A m \in 1..n : s[m] \in Values
  BY OwnedType
<1>3. a \in S[0]
  <2>1. Inv(a, 0)
    BY <1>1
  <2>2. a \in ARRAY
    BY DEF Owned, Held
  <2> HIDE DEF Inv
  <2> QED BY <1>1, <2>1, <2>2
<1>4. ASSUME NEW m \in 1..n, NEW x \in ARRAY, Inv(x, m - 1)
      PROVE  Inv(Step(m, x), m) /\ Step(m, x) \in ARRAY
  <2> DEFINE j == a.numElements + m
             y == Step(m, x)
  <2>1. j \in Nat \ {0} /\ x.numElements + 1 = j /\ s[m] \in Values /\ j > x.numElements
    BY <1>1, <1>4
  <2>2. y = set(x, j, s[m])
    BY <2>1
  <2> HIDE DEF y, j, Step
  <2>3. /\ Owned(y) /\ y.numElements = j
        /\ \A k \in Nat \ {0} : Get(y, k) = IF k = j THEN s[m] ELSE Get(x, k)
    <3>1. Owned(x)
      BY <1>4
    <3>2. /\ Owned(y) /\ y.numElements = IF j > x.numElements THEN j ELSE x.numElements
          /\ \A k \in Nat \ {0} : Get(y, k) = IF k = j THEN s[m] ELSE Get(x, k)
      <4> DEFINE v == s[m]
      <4>1. v \in Values /\ y = set(x, j, v)
        BY <2>1, <2>2
      <4> HIDE DEF v
      <4>2. /\ Owned(y) /\ y.numElements = IF j > x.numElements THEN j ELSE x.numElements
            /\ \A k \in Nat \ {0} : Get(y, k) = IF k = j THEN v ELSE Get(x, k)
        <5>1. j \in Nat \ {0}
          BY <2>1
        <5> QED BY <3>1, <4>1, <5>1, SetOwned
      <4> QED BY <4>2 DEF v
    <3> QED BY <2>1, <3>2
  <2>4. \A k \in Nat \ {0} : Get(y, k) = IF k > a.numElements /\ k <= a.numElements + m
                                         THEN s[k - a.numElements] ELSE Get(a, k)
    <3> TAKE k \in Nat \ {0}
    <3>1. CASE k = j
      <4>1. k > a.numElements /\ k <= a.numElements + m /\ k - a.numElements = m
        BY <1>1, <3>1 DEF j
      <4> QED BY <2>3, <3>1, <4>1
    <3>2. CASE k # j
      <4>1. k <= a.numElements + m <=> k <= a.numElements + (m - 1)
        BY <1>1, <3>2 DEF j
      <4> QED BY <1>4, <2>3, <3>2, <4>1
    <3> QED BY <3>1, <3>2
  <2>5. y \in ARRAY
    BY <2>3 DEF Owned, Held
  <2> QED BY <2>3, <2>4, <2>5 DEF y, j
<1>5. \A m \in 1..n : \A x \in S[m - 1] : g[<<m, x>>] \in S[m] /\ g[<<m, x>>] = Step(m, x)
  <2> TAKE m \in 1..n
  <2> TAKE x \in S[m - 1]
  <2>1. m - 1 \in 0..n /\ m \in 0..n
    BY <1>1
  <2>2. x \in ARRAY /\ Inv(x, m - 1)
    <3> HIDE DEF Inv
    <3> QED BY <2>1
  <2>3. g[<<m, x>>] = Step(m, x)
    <3> HIDE DEF Step
    <3> QED BY <2>2
  <2>4. Inv(Step(m, x), m) /\ Step(m, x) \in ARRAY
    <3> HIDE DEF Inv, Step
    <3> QED BY <1>4, <2>2
  <2> HIDE DEF Inv, Step, g
  <2> QED BY <2>1, <2>3, <2>4
<1> HIDE DEF S, g
<1>6. PICK f : IsRun(f, n, a, g) /\ \A k \in 0..n : f[k] \in S[k]
  <2>1. \A m \in 1..n : \A x \in S[m - 1] : g[<<m, x>>] \in S[m]
    <3> HIDE DEF Step
    <3> QED BY <1>5
  <2> HIDE DEF n
  <2> QED BY <1>1, <1>3, <2>1, LoopRuns
<1>7. \A k \in 1..n : k # 0 /\ k \in 0..n /\ k - 1 \in 0..n
  BY <1>1
<1>8. IsAdded(f, a, s)
  <2>1. \A k \in 1..n : g[<<k, f[k - 1]>>] = Step(k, f[k - 1])
    <3> HIDE DEF Step
    <3> QED BY <1>5, <1>6, <1>7
  <2>2. f = [k \in 0..n |-> IF k = 0 THEN a ELSE Step(k, f[k - 1])]
    <3>1. \A k \in 0..n : k = 0 \/ k \in 1..n
      BY <1>1
    <3> HIDE DEF Step, n
    <3> QED BY <1>6, <2>1, <3>1 DEF IsRun
  <2> HIDE DEF n
  <2> QED BY <2>2 DEF IsAdded, n
<1> DEFINE h == CHOOSE h : IsAdded(h, a, s)
<1>9. IsAdded(h, a, s)
  BY <1>8
<1>10. h[0] = a /\ \A k \in 1..n : h[k] = Step(k, h[k - 1])
  <2> HIDE DEF h
  <2> QED BY <1>1, <1>7, <1>9, 0 \in 0..n DEF IsAdded
<1>11. \A k \in 0..n : h[k] \in S[k]
  <2> HIDE DEF h, Step
  <2>1. \A k \in 1..n : h[k - 1] \in S[k - 1] => h[k] \in S[k]
    BY <1>5, <1>10
  <2> QED BY <1>1, <1>3, <1>10, <2>1, LoopKeeps
<1>12. b = h[n]
  BY AddedChosen
<1>13. Inv(b, n)
  <2> HIDE DEF h, Inv
  <2> QED BY <1>1, <1>11, <1>12 DEF S
<1> QED BY <1>13

IsSetAll(f, a, i, s) ==
    f = [k \in 0..Len(s) |->
            IF k = 0 THEN a
            ELSE IF s[k] = 0 THEN f[k - 1] ELSE set(f[k - 1], i + k - 1, s[k])]

LEMMA SetAllChosen ==
    ASSUME NEW a, NEW i, NEW s
    PROVE  SetAll(a, i, s) = (CHOOSE f : IsSetAll(f, a, i, s))[Len(s)]
BY DEF SetAll, IsSetAll

\* The strings of another array behind the last element; the empty ones at its
\* end are not counted.
LEMMA SetAllOwned ==
    ASSUME NEW a, Owned(a), NEW i, i = a.numElements + 1, NEW s \in Seq(Values),
           NEW b, b = SetAll(a, i, s)
    PROVE  /\ Owned(b)
           /\ s = <<>> \/ s[Len(s)] # 0 => b.numElements = a.numElements + Len(s)
           /\ \A k \in Nat \ {0} :
                 Get(b, k) = IF k > a.numElements /\ k <= a.numElements + Len(s)
                             THEN s[k - a.numElements] ELSE Get(a, k)
<1> DEFINE n == Len(s)
           Inv(x, m) ==
               /\ Owned(x)
               /\ x.numElements >= a.numElements /\ x.numElements <= a.numElements + m
               /\ m > 0 /\ s[m] # 0 => x.numElements = a.numElements + m
               /\ \A k \in Nat \ {0} :
                     Get(x, k) = IF k > a.numElements /\ k <= a.numElements + m
                                 THEN s[k - a.numElements] ELSE Get(a, k)
           S == [m \in 0..n |-> {x \in ARRAY : Inv(x, m)}]
           Step(m, x) == IF s[m] = 0 THEN x ELSE set(x, i + m - 1, s[m])
           g == [e \in (1..n) \X ARRAY |-> Step(e[1], e[2])]
<1>1. n \in Nat /\ a.numElements \in Nat /\ \A m \in 1..n : s[m] \in Values
  BY OwnedType
<1>3. a \in S[0]
  <2>1. Inv(a, 0)
    BY <1>1
  <2>2. a \in ARRAY
    BY DEF Owned, Held
  <2> HIDE DEF Inv
  <2> QED BY <1>1, <2>1, <2>2
<1>4. ASSUME NEW m \in 1..n, NEW x \in ARRAY, Inv(x, m - 1)
      PROVE  Inv(Step(m, x), m) /\ Step(m, x) \in ARRAY
  <2> DEFINE j == a.numElements + m
             y == Step(m, x)
  <2>1. /\ j \in Nat \ {0} /\ i + m - 1 = j /\ s[m] \in Values /\ m \in Nat
        /\ x.numElements \in Nat /\ j > x.numElements
    <3>1. x.numElements \in Nat
      BY <1>4, OwnedType
    <3>2. m \in Nat /\ m > 0 /\ x.numElements <= a.numElements + (m - 1) /\ s[m] \in Values
      BY <1>1, <1>4
    <3>3. i = a.numElements + 1
      OBVIOUS
    <3> HIDE DEF Inv
    <3> QED BY <1>1, <3>1, <3>2, <3>3
  <2>2. y = IF s[m] = 0 THEN x ELSE set(x, j, s[m])
    BY <2>1
  <2> HIDE DEF y, j, Step
  <2>3. /\ Owned(y) /\ y.numElements >= a.numElements /\ y.numElements <= a.numElements + m
        /\ s[m] # 0 => y.numElements = a.numElements + m
        /\ \A k \in Nat \ {0} : Get(y, k) = IF k = j THEN s[m] ELSE Get(x, k)
    <3>1. CASE s[m] = 0
      <4>1. Get(x, j) = 0
        BY <1>1, <2>1 DEF Get
      <4> QED BY <1>1, <1>4, <2>1, <2>2, <3>1, <4>1
    <3>2. CASE s[m] # 0
      <4>1. /\ Owned(y) /\ y.numElements = j
            /\ \A k \in Nat \ {0} : Get(y, k) = IF k = j THEN s[m] ELSE Get(x, k)
        <5>1. Owned(x)
          BY <1>4
        <5>2. /\ Owned(y) /\ y.numElements = IF j > x.numElements THEN j ELSE x.numElements
              /\ \A k \in Nat \ {0} : Get(y, k) = IF k = j THEN s[m] ELSE Get(x, k)
          <6> DEFINE v == s[m]
          <6>1. v \in Values /\ y = set(x, j, v)
            BY <2>1, <2>2, <3>2
          <6> HIDE DEF v
          <6>2. /\ Owned(y) /\ y.numElements = IF j > x.numElements THEN j ELSE x.numElements
                /\ \A k \in Nat \ {0} : Get(y, k) = IF k = j THEN v ELSE Get(x, k)
            <7>1. j \in Nat \ {0}
              BY <2>1
            <7> QED BY <5>1, <6>1, <7>1, SetOwned
          <6> QED BY <6>2 DEF v
        <5> QED BY <2>1, <5>2
      <4> QED BY <1>1, <2>1, <4>1 DEF j
    <3> QED BY <3>1, <3>2
  <2>4. \A k \in Nat \ {0} : Get(y, k) = IF k > a.numElements /\ k <= a.numElements + m
                                         THEN s[k - a.numElements] ELSE Get(a, k)
    <3> TAKE k \in Nat \ {0}
    <3>1. CASE k = j
      <4>1. k > a.numElements /\ k <= a.numElements + m /\ k - a.numElements = m
        BY <1>1, <3>1 DEF j
      <4> QED BY <2>3, <3>1, <4>1
    <3>2. CASE k # j
      <4>1. k <= a.numElements + m <=> k <= a.numElements + (m - 1)
        BY <1>1, <2>1, <3>2 DEF j
      <4> QED BY <1>4, <2>3, <3>2, <4>1
    <3> QED BY <3>1, <3>2
  <2>5. y \in ARRAY
    BY <2>3 DEF Owned, Held
  <2> QED BY <2>3, <2>4, <2>5 DEF y
<1>5. \A m \in 1..n : \A x \in S[m - 1] : g[<<m, x>>] \in S[m] /\ g[<<m, x>>] = Step(m, x)
  <2> TAKE m \in 1..n
  <2> TAKE x \in S[m - 1]
  <2>1. m - 1 \in 0..n /\ m \in 0..n
    BY <1>1
  <2>2. x \in ARRAY /\ Inv(x, m - 1)
    <3> HIDE DEF Inv
    <3> QED BY <2>1
  <2>3. g[<<m, x>>] = Step(m, x)
    <3> HIDE DEF Step
    <3> QED BY <2>2
  <2>4. Inv(Step(m, x), m) /\ Step(m, x) \in ARRAY
    <3> HIDE DEF Inv, Step
    <3> QED BY <1>4, <2>2
  <2> HIDE DEF Inv, Step, g
  <2> QED BY <2>1, <2>3, <2>4
<1> HIDE DEF S, g
<1>6. PICK f : IsRun(f, n, a, g) /\ \A k \in 0..n : f[k] \in S[k]
  <2>1. \A m \in 1..n : \A x \in S[m - 1] : g[<<m, x>>] \in S[m]
    <3> HIDE DEF Step
    <3> QED BY <1>5
  <2> HIDE DEF n
  <2> QED BY <1>1, <1>3, <2>1, LoopRuns
<1>7. \A k \in 1..n : k # 0 /\ k \in 0..n /\ k - 1 \in 0..n
  BY <1>1
<1>8. IsSetAll(f, a, i, s)
  <2>1. \A k \in 1..n : g[<<k, f[k - 1]>>] = Step(k, f[k - 1])
    <3> HIDE DEF Step
    <3> QED BY <1>5, <1>6, <1>7
  <2>2. f = [k \in 0..n |-> IF k = 0 THEN a ELSE Step(k, f[k - 1])]
    <3>1. \A k \in 0..n : k = 0 \/ k \in 1..n
      BY <1>1
    <3> HIDE DEF Step, n
    <3> QED BY <1>6, <2>1, <3>1 DEF IsRun
  <2> HIDE DEF n
  <2> QED BY <2>2 DEF IsSetAll, n
<1> DEFINE h == CHOOSE h : IsSetAll(h, a, i, s)
<1>9. IsSetAll(h, a, i, s)
  BY <1>8
<1>10. h[0] = a /\ \A k \in 1..n : h[k] = Step(k, h[k - 1])
  <2> HIDE DEF h
  <2> QED BY <1>1, <1>7, <1>9, 0 \in 0..n DEF IsSetAll
<1>11. \A k \in 0..n : h[k] \in S[k]
  <2> HIDE DEF h, Step
  <2>1. \A k \in 1..n : h[k - 1] \in S[k - 1] => h[k] \in S[k]
    BY <1>5, <1>10
  <2> QED BY <1>1, <1>3, <1>10, <2>1, LoopKeeps
<1>12. b = h[n]
  BY SetAllChosen
<1>13. Inv(b, n)
  <2> HIDE DEF h, Inv
  <2> QED BY <1>1, <1>11, <1>12 DEF S
<1>14. s = <<>> => b.numElements = a.numElements + n
  <2> HAVE s = <<>>
  <2>1. n = 0
    OBVIOUS
  <2>2. b.numElements \in Nat
    BY <1>13, OwnedType
  <2> QED BY <1>1, <1>13, <2>1, <2>2
<1>15. s # <<>> => n > 0
  OBVIOUS
<1> QED BY <1>13, <1>14, <1>15

LEMMA AddArrayOwned ==
    ASSUME NEW a, Owned(a), NEW s \in Seq(Values), NEW b, b = addArray(a, s)
    PROVE  /\ Owned(b)
           /\ s = <<>> \/ s[Len(s)] # 0 => b.numElements = a.numElements + Len(s)
           /\ \A k \in Nat \ {0} :
                 Get(b, k) = IF k > a.numElements /\ k <= a.numElements + Len(s)
                             THEN s[k - a.numElements] ELSE Get(a, k)
<1> DEFINE x == reserve(a, a.numElements + Len(s))
<1>1. a.numElements \in Nat /\ a.numElements + Len(s) \in Nat
  BY OwnedType
<1>2. /\ Owned(x) /\ x.numElements = a.numElements
      /\ \A k \in Nat \ {0} : Get(x, k) = Get(a, k)
  BY <1>1, ReserveOwned
<1>3. b = SetAll(x, x.numElements + 1, s)
  BY <1>2 DEF addArray
<1> HIDE DEF x
<1>4. /\ Owned(b)
      /\ s = <<>> \/ s[Len(s)] # 0 => b.numElements = x.numElements + Len(s)
      /\ \A k \in Nat \ {0} :
            Get(b, k) = IF k > x.numElements /\ k <= x.numElements + Len(s)
                        THEN s[k - x.numElements] ELSE Get(x, k)
  BY <1>2, <1>3, SetAllOwned
<1> QED BY <1>2, <1>4

\* insert() of another array
LEMMA InsertArrayOwned ==
    ASSUME NEW a, Owned(a), NEW i \in Nat \ {0}, i <= a.numElements + 3,
           NEW s \in Seq(Values), s # <<>>, NEW b, b = insertArray(a, i, s)
    PROVE  /\ Owned(b)
           /\ b.numElements = (IF i > a.numElements THEN i - 1 ELSE a.numElements) + Len(s)
           /\ \A k \in Nat \ {0} :
                 Get(b, k) = IF k < i THEN Get(a, k)
                             ELSE IF k < i + Len(s) THEN s[k - i + 1]
                             ELSE IF i > a.numElements THEN 0 ELSE Get(a, k - Len(s))
<1> DEFINE n == a.numElements
           d == Len(s)
           x == reserve(a, n + d + 2)
           y == IF i > n THEN x ELSE shift(x, i, d)
           z == Stored(y, i, s)
           m == (IF i > n THEN i - 1 ELSE n) + d
<1>1. n \in Nat /\ d \in Nat \ {0} /\ n + d + 2 \in Nat
  BY OwnedType
<1> HIDE DEF d
<1>2. /\ Owned(x) /\ x.numElements = n /\ Len(x.rows) >= n + d + 2
      /\ \A k \in Nat \ {0} : Get(x, k) = Get(a, k)
  BY <1>1, ReserveOwned
<1> HIDE DEF x
<1>3. /\ Held(x) /\ DOMAIN x.rows = 1..Len(x.rows) /\ Len(x.rows) \in Nat
      /\ \A k \in DOMAIN x.rows : k > n => x.rows[k] = NoString
      /\ \A k \in DOMAIN x.rows : Elem(x, k) = Get(x, k)
  BY <1>2, OwnedType, ElemBehind DEF Owned
<1>4. /\ Held(y) /\ y.numElements = n /\ Len(y.rows) = Len(x.rows)
      /\ \A k \in DOMAIN x.rows : (k \in i..(i + d - 1) \/ k > m) => y.rows[k] = NoString
      /\ \A k \in DOMAIN x.rows : k < i => Elem(y, k) = Get(a, k)
      /\ \A k \in DOMAIN x.rows :
            k >= i + d => Elem(y, k) = IF i > n THEN 0 ELSE Get(a, k - d)
  <2>1. CASE i > n
    <3>1. y = x
      BY <2>1
    <3>2. \A k \in DOMAIN x.rows : k \in Nat \ {0} /\ (k >= i => Get(x, k) = 0)
      BY <1>1, <1>2, <1>3, <2>1 DEF Get
    <3> HIDE DEF y
    <3> QED BY <1>1, <1>2, <1>3, <2>1, <3>1, <3>2
  <2>2. CASE i <= n
    <3>1. y = shift(x, i, d)
      BY <1>1, <2>2
    <3>2. i \in 1..x.numElements /\ x.numElements + d <= Len(x.rows)
      BY <1>1, <1>2, <1>3, <2>2
    <3> HIDE DEF y
    <3>3. /\ Held(y) /\ y.numElements = n /\ Len(y.rows) = Len(x.rows)
          /\ \A k \in DOMAIN x.rows : (k \in i..(i + d - 1) \/ k > n + d) => y.rows[k] = NoString
          /\ \A k \in DOMAIN x.rows :
                Elem(y, k) = IF k < i THEN Get(x, k) ELSE IF k < i + d THEN 0 ELSE Get(x, k - d)
      <4>1. /\ Held(y) /\ y.numElements = x.numElements /\ Len(y.rows) = Len(x.rows)
            /\ \A k \in DOMAIN x.rows :
                  (k \in i..(i + d - 1) \/ k > x.numElements + d) => y.rows[k] = NoString
            /\ \A k \in DOMAIN x.rows :
                  Elem(y, k) = IF k < i THEN Get(x, k) ELSE IF k < i + d THEN 0 ELSE Get(x, k - d)
        <5>1. Owned(x) /\ d \in Nat \ {0}
          BY <1>1, <1>2
        <5> QED BY <3>1, <3>2, <5>1, ShiftHeld
      <4> QED BY <1>2, <4>1
    <3>4. \A k \in DOMAIN x.rows : /\ k \in Nat \ {0}
                                   /\ k >= i + d => k - d \in Nat \ {0} /\ ~(k < i) /\ ~(k < i + d)
      <4> TAKE k \in DOMAIN x.rows
      <4>1. k \in Nat /\ k > 0
        BY <1>3
      <4> QED BY <1>1, <4>1
    <3>5. m = n + d /\ ~(i > n)
      BY <1>1, <2>2
    <3> HIDE DEF m, n
    <3> QED BY <1>2, <3>3, <3>4, <3>5
  <2> QED BY <1>1, <2>1, <2>2
<1> HIDE DEF y
<1>5. DOMAIN y.rows = DOMAIN x.rows
  <2>1. y.rows \in Rows
    BY <1>4 DEF Held, ARRAY
  <2> QED BY <1>3, <1>4, <2>1, RowsType
<1>6. /\ Held(z) /\ z.numElements = n /\ Len(z.rows) = Len(y.rows)
      /\ \A k \in DOMAIN y.rows : k < i \/ k >= i + d => z.rows[k] = y.rows[k]
      /\ \A k \in DOMAIN y.rows :
            Elem(z, k) = IF k < i \/ k >= i + d THEN Elem(y, k) ELSE s[k - i + 1]
  <2>1. \A k \in i..(i + d - 1) : k \in DOMAIN y.rows /\ y.rows[k] = NoString
    <3>1. \A k \in i..(i + d - 1) : k \in 1..Len(x.rows)
      <4> DEFINE l == Len(x.rows)
      <4>1. l \in Nat /\ l >= n + d + 2 /\ i \in Nat /\ i > 0 /\ i <= n + 3
        BY <1>2, <1>3
      <4> HIDE DEF l, n
      <4>2. i + d - 1 <= l
        BY <1>1, <4>1
      <4>3. \A k \in i..(i + d - 1) : k \in 1..l
        BY <1>1, <4>1, <4>2
      <4> QED BY <4>3 DEF l
    <3> QED BY <1>3, <1>4, <1>5, <3>1
  <2> QED BY <1>4, <2>1, StoredHeld DEF d
<1>7. b = [z EXCEPT !.numElements = m]
  <2>1. b = [z EXCEPT !.numElements = @ + (IF i > n THEN i - 1 - n ELSE 0) + d]
    BY <1>2 DEF insertArray, d, x, y
  <2>2. n + (IF i > n THEN i - 1 - n ELSE 0) + d = m
    BY <1>1
  <2> HIDE DEF z
  <2> QED BY <1>6, <2>1, <2>2 DEF Held, ARRAY
<1> HIDE DEF z
<1>8. DOMAIN z.rows = DOMAIN x.rows
  <2>1. z.rows \in Rows
    BY <1>6 DEF Held, ARRAY
  <2> QED BY <1>3, <1>4, <1>6, <2>1, RowsType
<1>9. Owned(b) /\ b.numElements = m /\ \A k : Elem(b, k) = Elem(z, k)
  <2>1. m \in Nat /\ m <= Len(z.rows)
    <3>1. Len(z.rows) = Len(x.rows) /\ Len(x.rows) >= n + d + 2
      BY <1>2, <1>4, <1>6
    <3>2. m \in Nat /\ m <= n + d + 2
      BY <1>1
    <3>3. Len(z.rows) \in Nat
      BY <1>3, <3>1
    <3> HIDE DEF m, n
    <3> QED BY <1>1, <3>1, <3>2, <3>3
  <2>2. \A k \in DOMAIN z.rows : k > m => z.rows[k] = NoString
    <3> TAKE k \in DOMAIN z.rows
    <3> HAVE k > m
    <3>1. k \in Nat /\ k >= i + d
      <4>1. k \in Nat
        BY <1>3, <1>8
      <4>2. k > (IF i > n THEN i - 1 ELSE n) + d
        BY DEF m
      <4> HIDE DEF n
      <4> QED BY <1>1, <4>1, <4>2
    <3> QED BY <1>4, <1>5, <1>6, <1>8, <3>1
  <2> HIDE DEF m
  <2> QED BY <1>6, <1>7, <2>1, <2>2, Recounted
<1>10. ASSUME NEW k \in Nat \ {0}
       PROVE  Get(b, k) = IF k < i THEN Get(a, k)
                          ELSE IF k < i + d THEN s[k - i + 1]
                          ELSE IF i > n THEN 0 ELSE Get(a, k - d)
  <2>1. CASE k > m
    <3>1. k >= i + d /\ Get(b, k) = 0 /\ (i <= n => k - d > n)
      BY <1>1, <1>9, <2>1 DEF Get
    <3>2. i <= n => Get(a, k - d) = 0
      BY <1>1, <3>1 DEF Get
    <3> QED BY <1>1, <3>1, <3>2
  <2>2. CASE k <= m
    <3>1. k \in DOMAIN x.rows
      <4>1. m <= n + d + 2
        BY <1>1
      <4>2. Len(x.rows) >= n + d + 2 /\ Len(x.rows) \in Nat /\ DOMAIN x.rows = 1..Len(x.rows)
        BY <1>2, <1>3
      <4>3. m \in Nat
        BY <1>1
      <4> DEFINE L == Len(x.rows)
      <4>4. L >= n + d + 2 /\ L \in Nat /\ DOMAIN x.rows = 1..L
        BY <4>2
      <4> HIDE DEF m, n, L
      <4> QED BY <1>1, <2>2, <4>1, <4>3, <4>4
    <3>2. Get(b, k) = Elem(z, k)
      BY <1>9, <2>2 DEF Get
    <3> HIDE DEF m, n
    <3> QED BY <1>1, <1>4, <1>5, <1>6, <3>1, <3>2
  <2> QED BY <1>1, <2>1, <2>2
<1> QED BY <1>9, <1>10 DEF d

-----------------------------------------------------------------------------
(* Array: orders, and the first occurrence of every value                  *)

\* Elements of a finite set up to one of them, in an order that is total.
Below(P, R, k) == {j \in P : <<j, k>> \in R}

TotalOn(R, P) ==
    /\ \A j, k \in P : <<j, k>> \in R \/ <<k, j>> \in R
    /\ \A j, k \in P : <<j, k>> \in R /\ <<k, j>> \in R => j = k
    /\ \A i, j, k \in P : <<i, j>> \in R /\ <<j, k>> \in R => <<i, k>> \in R

\* Their number tells the elements apart, and is every number up to their count.
LEMMA Ranked ==
    ASSUME NEW P, IsFiniteSet(P), NEW R, TotalOn(R, P)
    PROVE  /\ \A k \in P : Cardinality(Below(P, R, k)) \in 1..Cardinality(P)
           /\ \A j, k \in P : Cardinality(Below(P, R, j)) = Cardinality(Below(P, R, k)) => j = k
           /\ \A m \in 1..Cardinality(P) : \E k \in P : Cardinality(Below(P, R, k)) = m
<1> DEFINE n == Cardinality(P)
           f == [k \in P |-> Cardinality(Below(P, R, k))]
<1>1. n \in Nat
  BY FS_CardinalityType
<1>2. ASSUME NEW k \in P
      PROVE  /\ k \in Below(P, R, k) /\ Below(P, R, k) \in SUBSET P
             /\ IsFiniteSet(Below(P, R, k)) /\ Cardinality(Below(P, R, k)) \in 1..n
  <2>1. k \in Below(P, R, k) /\ Below(P, R, k) \in SUBSET P
    BY DEF Below, TotalOn
  <2>2. IsFiniteSet(Below(P, R, k)) /\ Cardinality(Below(P, R, k)) <= n
    BY <2>1, FS_Subset
  <2>3. Cardinality(Below(P, R, k)) \in Nat /\ Cardinality(Below(P, R, k)) # 0
    BY <2>1, <2>2, FS_CardinalityType, FS_EmptySet
  <2> QED BY <1>1, <2>1, <2>2, <2>3
<1>3. ASSUME NEW j \in P, NEW k \in P, <<j, k>> \in R,
             Cardinality(Below(P, R, j)) = Cardinality(Below(P, R, k))
      PROVE  j = k
  <2>1. Below(P, R, j) \in SUBSET Below(P, R, k)
    BY <1>3 DEF Below, TotalOn
  <2>2. Below(P, R, j) = Below(P, R, k)
    BY <1>2, <1>3, <2>1, FS_Subset
  <2>3. <<k, j>> \in R
    BY <1>2, <2>2 DEF Below
  <2> QED BY <1>3, <2>3 DEF TotalOn
<1>4. \A j, k \in P : f[j] = f[k] => j = k
  BY <1>3 DEF TotalOn
<1>5. f \in Injection(P, 1..n)
  <2>1. f \in [P -> 1..n]
    BY <1>2
  <2> QED BY <1>4, <2>1 DEF Injection, IsInjective
<1>6. IsFiniteSet(1..n) /\ Cardinality(1..n) = n
  <2>1. 1 \in Int /\ n \in Int /\ (n = 0 \/ ~(1 > n))
    BY <1>1
  <2>2. IsFiniteSet(1..n) /\ Cardinality(1..n) = IF 1 > n THEN 0 ELSE n - 1 + 1
    BY <2>1, FS_Interval
  <2> QED BY <1>1, <2>1, <2>2
<1>7. f \in Surjection(P, 1..n)
  <2> HIDE DEF f, n
  <2> QED BY <1>5, <1>6, FS_Injection DEF n
<1>8. \A m \in 1..n : \E k \in P : f[k] = m
  BY <1>7 DEF Surjection
<1> QED BY <1>2, <1>4, <1>8

\* Positions in their order
LessEqual == {e \in Nat \X Nat : e[1] <= e[2]}
Position(at, m) == CHOOSE k \in at : Cardinality({j \in at : j <= k}) = m

LEMMA InOrder ==
    ASSUME NEW at \in SUBSET Nat, IsFiniteSet(at)
    PROVE  /\ Cardinality(at) \in Nat
           /\ \A k \in at : Cardinality({j \in at : j <= k}) \in 1..Cardinality(at)
           /\ \A j, k \in at :
                 Cardinality({i \in at : i <= j}) = Cardinality({i \in at : i <= k}) => j = k
           /\ \A m \in 1..Cardinality(at) :
                 /\ Position(at, m) \in at
                 /\ Cardinality({j \in at : j <= Position(at, m)}) = m
<1>1. TotalOn(LessEqual, at)
  <2>1. \A j, k \in at : <<j, k>> \in LessEqual <=> j <= k
    BY DEF LessEqual
  <2>2. \A j \in at : j \in Nat
    OBVIOUS
  <2>3. /\ \A j, k \in at : j <= k \/ k <= j
        /\ \A j, k \in at : j <= k /\ k <= j => j = k
        /\ \A i, j, k \in at : i <= j /\ j <= k => i <= k
    BY <2>2
  <2> QED BY <2>1, <2>3 DEF TotalOn
<1>2. \A k \in at : Below(at, LessEqual, k) = {j \in at : j <= k}
  BY DEF Below, LessEqual
<1>3. /\ \A k \in at : Cardinality({j \in at : j <= k}) \in 1..Cardinality(at)
      /\ \A j, k \in at :
            Cardinality({i \in at : i <= j}) = Cardinality({i \in at : i <= k}) => j = k
      /\ \A m \in 1..Cardinality(at) : \E k \in at : Cardinality({j \in at : j <= k}) = m
  <2>1. \A k \in at : Cardinality(Below(at, LessEqual, k)) \in 1..Cardinality(at)
    BY <1>1, Ranked
  <2>2. \A j, k \in at : Cardinality(Below(at, LessEqual, j))
                            = Cardinality(Below(at, LessEqual, k)) => j = k
    BY <1>1, Ranked
  <2>3. \A m \in 1..Cardinality(at) : \E k \in at : Cardinality(Below(at, LessEqual, k)) = m
    BY <1>1, Ranked
  <2>4. \A k \in at : Cardinality({j \in at : j <= k}) \in 1..Cardinality(at)
    BY <1>2, <2>1
  <2>5. ASSUME NEW j \in at, NEW k \in at,
               Cardinality({i \in at : i <= j}) = Cardinality({i \in at : i <= k})
        PROVE  j = k
    BY <1>2, <2>2, <2>5
  <2>6. ASSUME NEW m \in 1..Cardinality(at)
        PROVE  \E k \in at : Cardinality({j \in at : j <= k}) = m
    BY <1>2, <2>3
  <2> QED BY <2>4, <2>5, <2>6
<1>4. \A m \in 1..Cardinality(at) :
         /\ Position(at, m) \in at
         /\ Cardinality({j \in at : j <= Position(at, m)}) = m
  BY <1>3 DEF Position
<1> QED BY <1>3, <1>4, FS_CardinalityType

LEMMA KeptOf ==
    ASSUME NEW s \in Seq(Values), NEW at \in SUBSET (1..Len(s))
    PROVE  /\ IsFiniteSet(at) /\ Cardinality(at) \in Nat
           /\ Kept(s, at) \in Seq(Values) /\ Len(Kept(s, at)) = Cardinality(at)
           /\ \A m \in 1..Cardinality(at) : Kept(s, at)[m] = s[Position(at, m)]
<1>1. IsFiniteSet(at)
  <2>1. IsFiniteSet(1..Len(s))
    BY FS_Interval, 1 \in Int, Len(s) \in Int
  <2> QED BY <2>1, FS_Subset
<1>2. Cardinality(at) \in Nat /\ \A m \in 1..Cardinality(at) : Position(at, m) \in at
  BY <1>1, InOrder, at \in SUBSET Nat
<1>3. Kept(s, at) = [m \in 1..Cardinality(at) |-> s[Position(at, m)]]
  BY DEF Kept, Position
<1>4. \A m \in 1..Cardinality(at) : s[Position(at, m)] \in Values
  <2>1. \A k \in 1..Len(s) : s[k] \in Values
    OBVIOUS
  <2>2. \A k \in at : k \in 1..Len(s)
    OBVIOUS
  <2> QED BY <1>2, <2>1, <2>2
<1> QED BY <1>1, <1>2, <1>3, <1>4

\* One position more, behind the others
LEMMA KeptMore ==
    ASSUME NEW s \in Seq(Values), NEW k \in 1..Len(s), NEW at \in SUBSET (1..(k - 1))
    PROVE  /\ Cardinality(at \cup {k}) = Cardinality(at) + 1
           /\ \A m \in 1..Cardinality(at) : Kept(s, at \cup {k})[m] = Kept(s, at)[m]
           /\ Kept(s, at \cup {k})[Cardinality(at) + 1] = s[k]
<1> DEFINE c == Cardinality(at)
           more == at \cup {k}
<1>1. at \in SUBSET (1..Len(s)) /\ more \in SUBSET (1..Len(s)) /\ k \notin at /\ k \in Nat
  OBVIOUS
<1>2. /\ IsFiniteSet(at) /\ c \in Nat /\ IsFiniteSet(more)
      /\ \A m \in 1..c : Kept(s, at)[m] = s[Position(at, m)]
      /\ \A m \in 1..Cardinality(more) : Kept(s, more)[m] = s[Position(more, m)]
  BY <1>1, KeptOf
<1>3. Cardinality(more) = c + 1
  BY <1>1, <1>2, FS_AddElement
<1>4. /\ \A j \in at : Cardinality({i \in at : i <= j}) \in 1..c
      /\ \A i, j \in at :
            Cardinality({h \in at : h <= i}) = Cardinality({h \in at : h <= j}) => i = j
      /\ \A m \in 1..c : /\ Position(at, m) \in at
                         /\ Cardinality({j \in at : j <= Position(at, m)}) = m
  BY <1>1, <1>2, InOrder, at \in SUBSET Nat
<1>5. \A m \in 1..(c + 1) : /\ Position(more, m) \in more
                            /\ Cardinality({j \in more : j <= Position(more, m)}) = m
  <2> HIDE DEF more
  <2> QED BY <1>1, <1>2, <1>3, InOrder, more \in SUBSET Nat
<1>6. \A j \in at : {i \in more : i <= j} = {i \in at : i <= j}
  BY <1>1
<1>7. {i \in more : i <= k} = more
  <2>1. \A i \in more : i <= k
    BY <1>1
  <2> QED BY <2>1
<1>8. \A m \in 1..c : Position(more, m) = Position(at, m)
  <2> TAKE m \in 1..c
  <2>1. m \in 1..(c + 1) /\ m # c + 1
    BY <1>2
  <2>2. Position(more, m) # k
    BY <1>3, <1>5, <1>7, <2>1
  <2>3. Position(more, m) \in at
    BY <1>5, <2>1, <2>2
  <2>4. Cardinality({j \in at : j <= Position(more, m)}) = m
    BY <1>5, <1>6, <2>1, <2>3
  <2> QED BY <1>4, <2>3, <2>4
<1>9. Position(more, c + 1) = k
  <2>1. c + 1 \in 1..(c + 1) /\ c + 1 \notin 1..c
    BY <1>2
  <2>2. Position(more, c + 1) \notin at
    <3> SUFFICES ASSUME Position(more, c + 1) \in at PROVE FALSE
      OBVIOUS
    <3>1. Cardinality({j \in at : j <= Position(more, c + 1)}) = c + 1
      BY <1>5, <1>6, <2>1
    <3> QED BY <1>4, <2>1, <3>1
  <2> QED BY <1>5, <2>1, <2>2
<1>10. \A m \in 1..c : m \in 1..(c + 1)
  BY <1>2
<1>11. c + 1 \in 1..(c + 1)
  BY <1>2
<1> HIDE DEF more
<1> QED BY <1>2, <1>3, <1>8, <1>9, <1>10, <1>11 DEF more

\* What sort() makes of a sequence are values, and as many.
LEMMA SortedOf ==
    ASSUME NEW s \in Seq(Values)
    PROVE  Sorted(s) \in Seq(Values)
<1> DEFINE P == DOMAIN s
           R == {e \in P \X P : s[e[1]] < s[e[2]] \/ (s[e[1]] = s[e[2]] /\ e[1] <= e[2])}
           At(m) == CHOOSE k \in P : Cardinality({j \in P : s[j] < s[k] \/ (s[j] = s[k] /\ j <= k)}) = m
<1>1. /\ P = 1..Len(s) /\ Len(s) \in Nat
      /\ \A k \in P : s[k] \in Values /\ s[k] \in Nat /\ k \in Nat
  <2>1. P = 1..Len(s) /\ Len(s) \in Nat /\ \A k \in 1..Len(s) : s[k] \in Values
    OBVIOUS
  <2>2. \A v \in Values : v \in Nat
    BY ArrayAssumption
  <2> HIDE DEF P
  <2> QED BY <2>1, <2>2
<1>2. IsFiniteSet(P) /\ Cardinality(P) = Len(s)
  <2>1. 1 \in Int /\ Len(s) \in Int
    OBVIOUS
  <2>2. IsFiniteSet(1..Len(s)) /\ Cardinality(1..Len(s)) = IF 1 > Len(s) THEN 0 ELSE Len(s) - 1 + 1
    BY <2>1, FS_Interval
  <2> QED BY <1>1, <2>2
<1>3. \A j, k \in P : <<j, k>> \in R <=> s[j] < s[k] \/ (s[j] = s[k] /\ j <= k)
  OBVIOUS
<1>4. TotalOn(R, P)
  <2> HIDE DEF R, P
  <2>1. \A j, k \in P : <<j, k>> \in R \/ <<k, j>> \in R
    <3> TAKE j, k \in P
    <3>1. s[j] \in Nat /\ s[k] \in Nat /\ j \in Nat /\ k \in Nat
      BY <1>1
    <3> QED BY <1>3, <3>1
  <2>2. \A j, k \in P : <<j, k>> \in R /\ <<k, j>> \in R => j = k
    BY <1>1, <1>3
  <2>3. \A i, j, k \in P : <<i, j>> \in R /\ <<j, k>> \in R => <<i, k>> \in R
    BY <1>1, <1>3
  <2> QED BY <2>1, <2>2, <2>3 DEF TotalOn
<1>5. \A k \in P : Below(P, R, k) = {j \in P : s[j] < s[k] \/ (s[j] = s[k] /\ j <= k)}
  <2> HIDE DEF R, P
  <2> QED BY <1>3 DEF Below
<1>6. \A m \in P : \E k \in P :
          Cardinality({j \in P : s[j] < s[k] \/ (s[j] = s[k] /\ j <= k)}) = m
  <2>1. \A m \in 1..Cardinality(P) : \E k \in P : Cardinality(Below(P, R, k)) = m
    <3> HIDE DEF R, P
    <3> QED BY <1>2, <1>4, Ranked
  <2> HIDE DEF R
  <2> QED BY <1>1, <1>2, <1>5, <2>1
<1>7. \A m \in P : At(m) \in P
  BY <1>6
<1>8. Sorted(s) = [m \in P |-> s[At(m)]]
  BY DEF Sorted
<1> HIDE DEF At
<1> QED BY <1>1, <1>7, <1>8

\* A turn of makeUnique()
UniqueTurn(t) ==
    LET v == Contents(t.array)[t.at]
    IN  IF v \in t.seen THEN [t EXCEPT !.array = erase(@, t.at)]
        ELSE [t EXCEPT !.at = @ + 1, !.seen = @ \cup {v}]

IsUnique(f, a) ==
    f = [k \in 0..a.numElements |->
            IF k = 0 THEN [array |-> a, at |-> 1, seen |-> {}] ELSE UniqueTurn(f[k - 1])]

LEMMA UniqueChosen ==
    ASSUME NEW a
    PROVE  Unique(a) = (CHOOSE f : IsUnique(f, a))[a.numElements].array
BY DEF Unique, IsUnique, UniqueTurn

\* Positions up to m where a value is for the first time
FirstsTo(s, m) == {k \in 1..m : \A j \in 1..(k - 1) : s[j] # s[k]}

TURN == [array : ARRAY, at : Nat, seen : SUBSET Values]

\* After m turns: the first occurrences among m elements, and then the others.
AfterTurns(t, s, m) ==
    LET c == Cardinality(FirstsTo(s, m))
    IN  /\ Owned(t.array) /\ t.at = c + 1 /\ t.seen = {s[j] : j \in 1..m}
        /\ t.array.numElements = c + Len(s) - m
        /\ \A k \in 1..c : Get(t.array, k) = Kept(s, FirstsTo(s, m))[k]
        /\ \A k \in 1..(Len(s) - m) : Get(t.array, c + k) = s[m + k]

LEMMA FirstsGrow ==
    ASSUME NEW s \in Seq(Values), NEW m \in 1..Len(s)
    PROVE  /\ FirstsTo(s, m - 1) \in SUBSET (1..(m - 1))
           /\ FirstsTo(s, m) = IF s[m] \in {s[j] : j \in 1..(m - 1)} THEN FirstsTo(s, m - 1)
                               ELSE FirstsTo(s, m - 1) \cup {m}
<1>1. m \in Nat \ {0} /\ 1..m = 1..(m - 1) \cup {m} /\ m \notin 1..(m - 1)
  OBVIOUS
<1>2. \A j \in 1..(m - 1) : j \in Nat /\ j <= m - 1
  OBVIOUS
<1> QED BY <1>1, <1>2 DEF FirstsTo

LEMMA TurnKeeps ==
    ASSUME NEW s \in Seq(Values), NEW m \in 1..Len(s), NEW t \in TURN,
           AfterTurns(t, s, m - 1)
    PROVE  UniqueTurn(t) \in TURN /\ AfterTurns(UniqueTurn(t), s, m)
<1> DEFINE P == FirstsTo(s, m - 1)
           Q == FirstsTo(s, m)
           c == Cardinality(P)
           n == Len(s)
           a == t.array
           u == UniqueTurn(t)
<1>1. /\ Owned(a) /\ t.at = c + 1 /\ t.seen = {s[j] : j \in 1..(m - 1)}
      /\ a.numElements = c + n - (m - 1)
      /\ \A k \in 1..c : Get(a, k) = Kept(s, P)[k]
      /\ \A k \in 1..(n - (m - 1)) : Get(a, c + k) = s[m - 1 + k]
  BY DEF AfterTurns
<1>2. n \in Nat /\ m \in Nat /\ m > 0 /\ m <= n /\ s[m] \in Values /\ m \in 1..n
  OBVIOUS
<1>3. /\ P \in SUBSET (1..(m - 1)) /\ P \in SUBSET (1..n)
      /\ Q = IF s[m] \in t.seen THEN P ELSE P \cup {m}
  <2>1. P \in SUBSET (1..(m - 1))
    BY FirstsGrow
  <2>2. Q = IF s[m] \in {s[j] : j \in 1..(m - 1)} THEN P ELSE P \cup {m}
    BY FirstsGrow
  <2>3. \A k \in 1..(m - 1) : k \in 1..n
    BY <1>2
  <2> HIDE DEF P, Q
  <2> QED BY <1>1, <2>1, <2>2, <2>3
<1>4. c \in Nat
  BY <1>3, KeptOf
<1> HIDE DEF P, Q, c, a, u
<1>5. Contents(a)[t.at] = s[m] /\ t.at \in 1..a.numElements /\ t.at \in Nat
  <2>1. t.at \in 1..a.numElements /\ 1 \in 1..(n - (m - 1)) /\ m - 1 + 1 = m
    BY <1>1, <1>2, <1>4
  <2>2. Contents(a)[t.at] = Get(a, c + 1)
    BY <1>1, <2>1, ContentsOf
  <2> QED BY <1>1, <2>1, <2>2
<1>6. {s[j] : j \in 1..m} = t.seen \cup {s[m]}
  <2>1. 1..m = 1..(m - 1) \cup {m}
    BY <1>2
  <2> HIDE DEF n
  <2> QED BY <1>1, <2>1
<1>7. CASE s[m] \in t.seen
  <2> DEFINE b == erase(a, t.at)
  <2>1. u = [t EXCEPT !.array = b]
    BY <1>5, <1>7 DEF UniqueTurn, u, a
  <2>2. /\ Owned(b) /\ b.numElements = a.numElements - 1
        /\ \A k \in Nat \ {0} : Get(b, k) = IF k < t.at THEN Get(a, k) ELSE Get(a, k + 1)
    BY <1>1, <1>5, EraseOwned
  <2> HIDE DEF b
  <2>3. b \in ARRAY
    BY <2>2 DEF Owned, Held
  <2>4. u \in TURN /\ u.array = b /\ u.at = t.at /\ u.seen = t.seen
    BY <2>1, <2>3 DEF TURN
  <2>5. Q = P /\ {s[j] : j \in 1..m} = t.seen
    BY <1>3, <1>6, <1>7
  <2>6. b.numElements = c + n - m
    BY <1>1, <1>2, <1>4, <2>2
  <2>7. ASSUME NEW k \in 1..c PROVE Get(b, k) = Kept(s, Q)[k]
    <3>1. k \in Nat \ {0} /\ k < t.at
      BY <1>1, <1>4
    <3>2. Get(b, k) = Get(a, k)
      BY <2>2, <3>1
    <3> QED BY <1>1, <2>5, <3>2
  <2>8. ASSUME NEW k \in 1..(n - m) PROVE Get(b, c + k) = s[m + k]
    <3>1. /\ c + k \in Nat \ {0} /\ ~(c + k < c + 1) /\ k + 1 \in 1..(n - (m - 1))
          /\ c + k + 1 = c + (k + 1) /\ m - 1 + (k + 1) = m + k
      BY <1>2, <1>4
    <3>2. Get(b, c + k) = Get(a, c + (k + 1))
      BY <1>1, <2>2, <3>1
    <3>3. Get(a, c + (k + 1)) = s[m - 1 + (k + 1)]
      BY <1>1, <3>1
    <3> QED BY <3>1, <3>2, <3>3
  <2> QED BY <1>1, <2>2, <2>4, <2>5, <2>6, <2>7, <2>8 DEF AfterTurns, u, Q, c, P
<1>8. CASE s[m] \notin t.seen
  <2>1. u = [t EXCEPT !.at = @ + 1, !.seen = @ \cup {s[m]}]
    BY <1>5, <1>8 DEF UniqueTurn, u, a
  <2>2. u \in TURN /\ u.array = a /\ u.at = c + 2 /\ u.seen = t.seen \cup {s[m]}
    <3>1. t.at + 1 \in Nat /\ t.at + 1 = c + 2 /\ t.seen \cup {s[m]} \in SUBSET Values
      BY <1>1, <1>2, <1>4 DEF TURN
    <3> QED BY <2>1, <3>1 DEF TURN, a
  <2>3. /\ Q = P \cup {m} /\ Cardinality(Q) = c + 1
        /\ \A k \in 1..c : Kept(s, Q)[k] = Kept(s, P)[k]
        /\ Kept(s, Q)[c + 1] = s[m]
    <3>1. Q = P \cup {m}
      BY <1>3, <1>8
    <3>2. /\ Cardinality(P \cup {m}) = Cardinality(P) + 1
          /\ \A k \in 1..Cardinality(P) : Kept(s, P \cup {m})[k] = Kept(s, P)[k]
          /\ Kept(s, P \cup {m})[Cardinality(P) + 1] = s[m]
      BY <1>3, KeptMore
    <3> QED BY <3>1, <3>2 DEF c
  <2>4. a.numElements = Cardinality(Q) + n - m /\ u.at = Cardinality(Q) + 1
    BY <1>1, <1>2, <1>4, <2>2, <2>3
  <2>5. Get(a, c + 1) = s[m]
    <3>1. 1 \in 1..(n - (m - 1)) /\ m - 1 + 1 = m
      BY <1>2
    <3> QED BY <1>1, <3>1
  <2>6. \A k \in 1..Cardinality(Q) : Get(a, k) = Kept(s, Q)[k]
    <3>1. \A k \in 1..Cardinality(Q) : k \in 1..c \/ k = c + 1
      BY <1>4, <2>3
    <3> QED BY <1>1, <2>3, <2>5, <3>1
  <2>7. ASSUME NEW k \in 1..(n - m) PROVE Get(a, Cardinality(Q) + k) = s[m + k]
    <3>1. k + 1 \in 1..(n - (m - 1)) /\ c + 1 + k = c + (k + 1) /\ m - 1 + (k + 1) = m + k
      BY <1>2, <1>4
    <3>2. Get(a, c + (k + 1)) = s[m - 1 + (k + 1)]
      BY <1>1, <3>1
    <3> QED BY <2>3, <3>1, <3>2
  <2> QED BY <1>1, <1>6, <2>2, <2>4, <2>6, <2>7 DEF AfterTurns, u, Q
<1> QED BY <1>7, <1>8 DEF u

LEMMA UniqueOwned ==
    ASSUME NEW a, Owned(a), NEW b, b = Unique(a)
    PROVE  Owned(b) /\ Contents(b) = Firsts(Contents(a))
<1> DEFINE s == Contents(a)
           n == a.numElements
           t0 == [array |-> a, at |-> 1, seen |-> {}]
           S == [m \in 0..n |-> {t \in TURN : AfterTurns(t, s, m)}]
           g == [e \in (1..n) \X TURN |-> UniqueTurn(e[2])]
<1>1. /\ n \in Nat /\ s \in Seq(Values) /\ Len(s) = n
      /\ \A i \in 1..n : s[i] = Get(a, i)
  BY OwnedType, ContentsOf
<1> HIDE DEF s
<1>2. \A m \in 0..n : FirstsTo(s, m) \in SUBSET (1..n)
  <2>1. \A m \in 0..n : \A k \in 1..m : k \in 1..n
    BY <1>1
  <2> QED BY <2>1 DEF FirstsTo
<1>3. t0 \in S[0]
  <2>1. t0 \in TURN
    <3>1. a \in ARRAY
      BY DEF Owned, Held
    <3> QED BY <3>1 DEF TURN
  <2>2. FirstsTo(s, 0) = {} /\ Cardinality(FirstsTo(s, 0)) = 0 /\ {s[j] : j \in 1..0} = {}
    BY FS_EmptySet DEF FirstsTo
  <2>3. AfterTurns(t0, s, 0)
    BY <1>1, <2>2 DEF AfterTurns
  <2> QED BY <1>1, <2>1, <2>3
<1>4. \A m \in 1..n : \A t \in S[m - 1] : g[<<m, t>>] \in S[m] /\ g[<<m, t>>] = UniqueTurn(t)
  <2> TAKE m \in 1..n
  <2> TAKE t \in S[m - 1]
  <2>1. m - 1 \in 0..n /\ m \in 0..n
    BY <1>1
  <2>2. t \in TURN /\ AfterTurns(t, s, m - 1)
    BY <2>1
  <2>3. g[<<m, t>>] = UniqueTurn(t)
    BY <2>2
  <2>4. UniqueTurn(t) \in TURN /\ AfterTurns(UniqueTurn(t), s, m)
    BY <1>1, <2>2, TurnKeeps
  <2> HIDE DEF g
  <2> QED BY <2>1, <2>3, <2>4
<1> HIDE DEF S, g
<1>5. PICK f : IsRun(f, n, t0, g) /\ \A k \in 0..n : f[k] \in S[k]
  <2> HIDE DEF t0, n
  <2> QED BY <1>1, <1>3, <1>4, LoopRuns
<1>6. \A k \in 1..n : k # 0 /\ k \in 0..n /\ k - 1 \in 0..n
  BY <1>1
<1>7. IsUnique(f, a)
  <2>1. \A k \in 1..n : g[<<k, f[k - 1]>>] = UniqueTurn(f[k - 1])
    BY <1>4, <1>5, <1>6
  <2>2. f = [k \in 0..n |-> IF k = 0 THEN t0 ELSE UniqueTurn(f[k - 1])]
    <3>1. \A k \in 0..n : k = 0 \/ k \in 1..n
      BY <1>1
    <3> HIDE DEF t0, n
    <3> QED BY <1>5, <2>1, <3>1 DEF IsRun
  <2> HIDE DEF t0, n
  <2> QED BY <2>2 DEF IsUnique, t0, n
<1> DEFINE h == CHOOSE h : IsUnique(h, a)
<1>8. IsUnique(h, a)
  BY <1>7
<1>9. h[0] = t0 /\ \A k \in 1..n : h[k] = UniqueTurn(h[k - 1])
  <2> HIDE DEF h
  <2> QED BY <1>1, <1>6, <1>8, 0 \in 0..n DEF IsUnique
<1>10. \A k \in 0..n : h[k] \in S[k]
  <2> HIDE DEF h, t0
  <2>1. \A k \in 1..n : h[k - 1] \in S[k - 1] => h[k] \in S[k]
    BY <1>4, <1>9
  <2> QED BY <1>1, <1>3, <1>9, <2>1, LoopKeeps
<1>11. b = h[n].array
  BY UniqueChosen
<1>12. AfterTurns(h[n], s, n)
  <2>1. n \in 0..n
    BY <1>1
  <2> HIDE DEF h, n
  <2> QED BY <1>10, <2>1 DEF S
<1> HIDE DEF h
<1> DEFINE P == FirstsTo(s, n)
           c == Cardinality(P)
<1>13. Owned(b) /\ b.numElements = c + n - n /\ \A k \in 1..c : Get(b, k) = Kept(s, P)[k]
  BY <1>1, <1>11, <1>12 DEF AfterTurns
<1>14. c \in Nat /\ Kept(s, P) \in Seq(Values) /\ Len(Kept(s, P)) = c
  BY <1>1, <1>2, KeptOf
<1>15. Firsts(s) = Kept(s, P)
  <2>1. DOMAIN s = 1..n
    BY <1>1
  <2> QED BY <2>1 DEF Firsts, FirstsTo
<1>16. Contents(b) = Kept(s, P)
  <2> HIDE DEF P
  <2>1. c + n - n = c
    BY <1>1, <1>14
  <2> QED BY <1>13, <1>14, <2>1, SameContents
<1> QED BY <1>13, <1>15, <1>16 DEF s

-----------------------------------------------------------------------------
(* Array: every operation does what its documentation says                 *)

HoldsAs(a, s) == Owned(a) /\ Contents(a) = s

LEMMA HoldsOf ==
    ASSUME NEW a, NEW s, HoldsAs(a, s)
    PROVE  /\ Owned(a) /\ s \in Seq(Values) /\ Len(s) = a.numElements /\ Len(s) \in Nat
           /\ \A k \in 1..Len(s) : s[k] = Get(a, k)
           /\ \A k \in Nat : k > Len(s) => Get(a, k) = 0
<1>1. Owned(a) /\ a.numElements \in Nat
  BY OwnedType DEF HoldsAs
<1>2. \A k \in Nat : k > a.numElements => Get(a, k) = 0
  BY <1>1 DEF Get
<1> QED BY <1>1, <1>2, ContentsOf DEF HoldsAs

LEMMA ExtendedOf ==
    ASSUME NEW s \in Seq(Values), NEW n \in Nat
    PROVE  /\ Extended(s, n) \in Seq(Values)
           /\ Len(Extended(s, n)) = IF n > Len(s) THEN n ELSE Len(s)
           /\ \A k \in 1..Len(Extended(s, n)) :
                 Extended(s, n)[k] = IF k <= Len(s) THEN s[k] ELSE 0
<1> DEFINE d == IF n > Len(s) THEN n - Len(s) ELSE 0
           z == [k \in 1..d |-> 0]
<1>1. d \in Nat /\ Len(s) \in Nat
  OBVIOUS
<1> HIDE DEF d
<1>2. z \in Seq(Values) /\ Len(z) = d /\ \A k \in 1..d : z[k] = 0
  BY <1>1, ArrayAssumption
<1>3. Extended(s, n) = s \o z
  BY DEF Extended, d
<1> HIDE DEF z
<1>4. /\ s \o z \in Seq(Values) /\ Len(s \o z) = Len(s) + d
      /\ \A k \in 1..(Len(s) + d) : (s \o z)[k] = IF k <= Len(s) THEN s[k] ELSE z[k - Len(s)]
  BY <1>1, <1>2
<1>5. \A k \in 1..(Len(s) + d) : ~(k <= Len(s)) => k - Len(s) \in 1..d
  BY <1>1
<1>6. Len(s) + d = IF n > Len(s) THEN n ELSE Len(s)
  BY <1>1 DEF d
<1> QED BY <1>2, <1>3, <1>4, <1>5, <1>6

Joined(x, y) == x \o y

LEMMA JoinedOf ==
    ASSUME NEW x \in Seq(Values), NEW y \in Seq(Values)
    PROVE  /\ Joined(x, y) \in Seq(Values)
           /\ Len(Joined(x, y)) = Len(x) + Len(y) /\ Len(x) \in Nat /\ Len(y) \in Nat
           /\ \A k \in Nat \ {0} : k <= Len(x) => Joined(x, y)[k] = x[k]
           /\ \A k \in Nat \ {0} :
                 k > Len(x) /\ k <= Len(x) + Len(y) => Joined(x, y)[k] = y[k - Len(x)]
<1> DEFINE t == Joined(x, y)
<1>1. Len(x) \in Nat /\ Len(y) \in Nat
  OBVIOUS
<1>2. /\ t \in Seq(Values) /\ Len(t) = Len(x) + Len(y)
      /\ \A k \in 1..(Len(x) + Len(y)) : t[k] = IF k <= Len(x) THEN x[k] ELSE y[k - Len(x)]
  BY ConcatProperties, Zenon DEF Joined
<1> HIDE DEF t
<1>3. ASSUME NEW k \in Nat \ {0}, k <= Len(x) PROVE t[k] = x[k]
  <2>1. k \in 1..(Len(x) + Len(y))
    BY <1>1, <1>3
  <2> QED BY <1>2, <1>3, <2>1
<1>4. ASSUME NEW k \in Nat \ {0}, k > Len(x), k <= Len(x) + Len(y) PROVE t[k] = y[k - Len(x)]
  <2>1. k \in 1..(Len(x) + Len(y)) /\ ~(k <= Len(x))
    BY <1>1, <1>4
  <2> QED BY <1>2, <2>1
<1> QED BY <1>1, <1>2, <1>3, <1>4 DEF t

\* A sequence that is put into another one.
Splice(e, i, u) == SubSeq(e, 1, i - 1) \o u \o SubSeq(e, i, Len(e))

LEMMA Spliced ==
    ASSUME NEW e \in Seq(Values), NEW u \in Seq(Values), NEW i \in 1..(Len(e) + 1)
    PROVE  /\ Splice(e, i, u) \in Seq(Values) /\ Len(Splice(e, i, u)) = Len(e) + Len(u)
           /\ \A k \in 1..(Len(e) + Len(u)) :
                 Splice(e, i, u)[k] = IF k < i THEN e[k]
                                      ELSE IF k < i + Len(u) THEN u[k - i + 1]
                                      ELSE e[k - Len(u)]
<1> DEFINE t == Splice(e, i, u)
<1> DEFINE x == SubSeq(e, 1, i - 1)
           y == SubSeq(e, i, Len(e))
<1>1. Len(e) \in Nat /\ Len(u) \in Nat /\ i \in Nat /\ i > 0 /\ i <= Len(e) + 1
  OBVIOUS
<1>2. x \in Seq(Values) /\ Len(x) = i - 1 /\ \A k \in 1..(i - 1) : x[k] = e[k]
  BY <1>1
<1>3. /\ y \in Seq(Values) /\ Len(y) = Len(e) - i + 1
      /\ \A k \in 1..(Len(e) - i + 1) : y[k] = e[k + i - 1]
  BY <1>1
<1> DEFINE xu == Joined(x, u)
<1>4. t = Joined(xu, y)
  BY DEF Splice, Joined
<1> HIDE DEF x, y, t
<1>5. /\ xu \in Seq(Values) /\ Len(xu) = Len(x) + Len(u)
      /\ \A k \in Nat \ {0} : k <= Len(x) => xu[k] = x[k]
      /\ \A k \in Nat \ {0} : k > Len(x) /\ k <= Len(x) + Len(u) => xu[k] = u[k - Len(x)]
  BY <1>2, JoinedOf
<1> HIDE DEF xu
<1>6. /\ t \in Seq(Values) /\ Len(t) = Len(xu) + Len(y)
      /\ \A k \in Nat \ {0} : k <= Len(xu) => t[k] = xu[k]
      /\ \A k \in Nat \ {0} : k > Len(xu) /\ k <= Len(xu) + Len(y) => t[k] = y[k - Len(xu)]
  <2>1. xu \in Seq(Values) /\ y \in Seq(Values)
    BY <1>3, <1>5
  <2> QED BY <1>4, <2>1, JoinedOf
<1>7. Len(xu) = i - 1 + Len(u)
  BY <1>2, <1>5
<1>8. Len(t) = Len(e) + Len(u)
  BY <1>1, <1>3, <1>6, <1>7
<1>9. ASSUME NEW k \in 1..(Len(e) + Len(u))
      PROVE  t[k] = IF k < i THEN e[k] ELSE IF k < i + Len(u) THEN u[k - i + 1]
                    ELSE e[k - Len(u)]
  <2>0. k \in Nat \ {0} /\ k <= Len(e) + Len(u)
    BY <1>1
  <2>1. CASE k < i
    <3>1. k \in 1..(i - 1) /\ k <= Len(x) /\ k <= Len(xu)
      BY <1>1, <1>2, <1>7, <2>0, <2>1
    <3>2. t[k] = e[k]
      BY <1>2, <1>5, <1>6, <2>0, <3>1
    <3> QED BY <2>1, <3>2
  <2>2. CASE k >= i /\ k < i + Len(u)
    <3>1. /\ k <= Len(xu) /\ k > Len(x) /\ k <= Len(x) + Len(u) /\ ~(k < i)
          /\ k - Len(x) = k - i + 1
      BY <1>1, <1>2, <1>7, <2>0, <2>2
    <3>2. t[k] = u[k - Len(x)]
      BY <1>5, <1>6, <2>0, <3>1
    <3> QED BY <2>2, <3>1, <3>2
  <2>3. CASE k >= i + Len(u)
    <3>1. /\ k > Len(xu) /\ k <= Len(xu) + Len(y) /\ ~(k < i) /\ ~(k < i + Len(u))
          /\ k - Len(xu) \in 1..(Len(e) - i + 1) /\ k - Len(xu) + i - 1 = k - Len(u)
      BY <1>1, <1>3, <1>7, <2>0, <2>3
    <3>2. t[k] = y[k - Len(xu)]
      BY <1>6, <2>0, <3>1
    <3>3. y[k - Len(xu)] = e[k - Len(xu) + i - 1]
      BY <1>3, <3>1
    <3> QED BY <3>1, <3>2, <3>3
  <2> QED BY <1>1, <2>0, <2>1, <2>2, <2>3
<1> QED BY <1>6, <1>8, <1>9 DEF t

LEMMA SetHolds ==
    ASSUME NEW a, NEW s, HoldsAs(a, s), NEW i \in Nat \ {0}, NEW v \in Values
    PROVE  HoldsAs(set(a, i, v), [Extended(s, i) EXCEPT ![i] = v])
<1> DEFINE b == set(a, i, v)
           e == Extended(s, i)
           t == [e EXCEPT ![i] = v]
<1>1. /\ Owned(a) /\ s \in Seq(Values) /\ Len(s) = a.numElements /\ Len(s) \in Nat
      /\ \A k \in 1..Len(s) : s[k] = Get(a, k)
      /\ \A k \in Nat : k > Len(s) => Get(a, k) = 0
  BY HoldsOf
<1>2. /\ Owned(b) /\ b.numElements = IF i > a.numElements THEN i ELSE a.numElements
      /\ \A k \in Nat \ {0} : Get(b, k) = IF k = i THEN v ELSE Get(a, k)
  BY <1>1, SetOwned
<1>3. /\ e \in Seq(Values) /\ Len(e) = IF i > Len(s) THEN i ELSE Len(s)
      /\ \A k \in 1..Len(e) : e[k] = IF k <= Len(s) THEN s[k] ELSE 0
  BY <1>1, ExtendedOf
<1> HIDE DEF b, e
<1>4. /\ t \in Seq(Values) /\ Len(t) = Len(e)
      /\ \A k \in 1..Len(e) : t[k] = IF k = i THEN v ELSE e[k]
  BY <1>3
<1>5. \A k \in 1..Len(e) : t[k] = Get(b, k)
  <2> TAKE k \in 1..Len(e)
  <2>1. k \in Nat \ {0} /\ (k <= Len(s) => k \in 1..Len(s)) /\ (~(k <= Len(s)) => k > Len(s))
    BY <1>1, <1>3
  <2> HIDE DEF t
  <2> QED BY <1>1, <1>2, <1>3, <1>4, <2>1
<1>6. Len(t) = b.numElements
  BY <1>1, <1>2, <1>3, <1>4
<1> HIDE DEF t
<1>7. HoldsAs(b, t)
  BY <1>2, <1>4, <1>5, <1>6, SameContents DEF HoldsAs
<1> QED BY <1>7 DEF b, e, t

LEMMA InsertHolds ==
    ASSUME NEW a, NEW s, HoldsAs(a, s), NEW i \in Nat \ {0}, NEW v \in Values
    PROVE  HoldsAs(Inserted(a, i, v), InsertAt(Extended(s, i - 1), i, v))
<1> DEFINE b == Inserted(a, i, v)
           e == Extended(s, i - 1)
           u == <<v>>
           t == InsertAt(e, i, v)
<1>1. /\ Owned(a) /\ s \in Seq(Values) /\ Len(s) = a.numElements /\ Len(s) \in Nat
      /\ \A k \in 1..Len(s) : s[k] = Get(a, k)
      /\ \A k \in Nat : k > Len(s) => Get(a, k) = 0
  BY HoldsOf
<1>2. /\ Owned(b)
      /\ i <= a.numElements =>
            /\ b.numElements = a.numElements + 1
            /\ \A k \in Nat \ {0} :
                  Get(b, k) = IF k < i THEN Get(a, k) ELSE IF k = i THEN v ELSE Get(a, k - 1)
      /\ i > a.numElements =>
            /\ b.numElements = i
            /\ \A k \in Nat \ {0} : Get(b, k) = IF k = i THEN v ELSE Get(a, k)
  <2>1. b = Inserted(a, i, v) /\ Owned(a)
    BY <1>1
  <2> HIDE DEF b, e, t, u
  <2> QED BY <2>1, InsertOwned
<1>3. /\ e \in Seq(Values) /\ Len(e) = IF i - 1 > Len(s) THEN i - 1 ELSE Len(s)
      /\ \A k \in 1..Len(e) : e[k] = IF k <= Len(s) THEN s[k] ELSE 0
  BY <1>1, ExtendedOf, i - 1 \in Nat
<1>4. u \in Seq(Values) /\ Len(u) = 1 /\ u[1] = v
  OBVIOUS
<1>5. t = Splice(e, i, u)
  BY DEF InsertAt, Splice
<1> HIDE DEF b, e, t, u
<1>6. i \in 1..(Len(e) + 1)
  BY <1>1, <1>3
<1>7. /\ t \in Seq(Values) /\ Len(t) = Len(e) + 1
      /\ \A k \in 1..Len(t) : t[k] = IF k < i THEN e[k]
                                     ELSE IF k < i + 1 THEN u[k - i + 1] ELSE e[k - 1]
  <2>1. /\ t \in Seq(Values) /\ Len(t) = Len(e) + Len(u)
        /\ \A k \in 1..(Len(e) + Len(u)) : t[k] = IF k < i THEN e[k]
                                       ELSE IF k < i + Len(u) THEN u[k - i + 1]
                                       ELSE e[k - Len(u)]
    BY <1>3, <1>4, <1>5, <1>6, Spliced
  <2> HIDE DEF t, u, e
  <2> QED BY <1>4, <2>1
<1>8. Len(t) = b.numElements
  BY <1>1, <1>2, <1>3, <1>7
<1>9. ASSUME NEW k \in 1..Len(t) PROVE t[k] = Get(b, k)
  <2>1. k \in Nat \ {0} /\ k <= Len(e) + 1
    BY <1>3, <1>7
  <2>2. CASE k < i
    <3>1. t[k] = e[k] /\ k \in 1..Len(e) /\ Get(b, k) = Get(a, k)
      BY <1>1, <1>2, <1>3, <1>6, <1>7, <2>1, <2>2
    <3> QED BY <1>1, <1>3, <2>1, <3>1
  <2>3. CASE k = i
    <3>1. k - i + 1 = 1 /\ ~(k < i) /\ k < i + 1
      BY <2>1, <2>3
    <3>2. Get(b, k) = v
      BY <1>1, <1>2, <2>1, <2>3
    <3> QED BY <1>4, <1>7, <3>1, <3>2
  <2>4. CASE k > i
    <3>1. /\ ~(k < i) /\ ~(k < i + 1) /\ k # i /\ k - 1 \in 1..Len(e) /\ i <= a.numElements
          /\ k - 1 <= Len(s) /\ k - 1 \in 1..Len(s)
      BY <1>1, <1>3, <2>1, <2>4
    <3>2. t[k] = s[k - 1]
      BY <1>3, <1>7, <3>1
    <3>3. Get(b, k) = Get(a, k - 1)
      BY <1>2, <2>1, <3>1
    <3> QED BY <1>1, <3>1, <3>2, <3>3
  <2> QED BY <2>1, <2>2, <2>3, <2>4
<1>10. HoldsAs(b, t)
  BY <1>2, <1>7, <1>8, <1>9, SameContents DEF HoldsAs
<1> QED BY <1>10 DEF b, e, t

LEMMA InsertArrayHolds ==
    ASSUME NEW a, NEW s, HoldsAs(a, s), NEW i \in Nat \ {0}, i <= a.numElements + 3,
           NEW u \in Seq(Values), u # <<>>, NEW e, e = Extended(s, i - 1)
    PROVE  HoldsAs(insertArray(a, i, u), Splice(e, i, u))
<1> DEFINE b == insertArray(a, i, u)
           t == Splice(e, i, u)
<1>1. /\ Owned(a) /\ s \in Seq(Values) /\ Len(s) = a.numElements /\ Len(s) \in Nat
      /\ \A k \in 1..Len(s) : s[k] = Get(a, k)
      /\ \A k \in Nat : k > Len(s) => Get(a, k) = 0
  BY HoldsOf
<1>2. /\ Owned(b)
      /\ b.numElements = (IF i > a.numElements THEN i - 1 ELSE a.numElements) + Len(u)
      /\ \A k \in Nat \ {0} :
            Get(b, k) = IF k < i THEN Get(a, k)
                        ELSE IF k < i + Len(u) THEN u[k - i + 1]
                        ELSE IF i > a.numElements THEN 0 ELSE Get(a, k - Len(u))
  BY <1>1, InsertArrayOwned
<1>3. /\ e \in Seq(Values) /\ Len(e) = IF i - 1 > Len(s) THEN i - 1 ELSE Len(s)
      /\ \A k \in 1..Len(e) : e[k] = IF k <= Len(s) THEN s[k] ELSE 0
  BY <1>1, ExtendedOf, i - 1 \in Nat
<1>4. Len(u) \in Nat
  OBVIOUS
<1>6. i \in 1..(Len(e) + 1)
  BY <1>1, <1>3
<1>7. /\ t \in Seq(Values) /\ Len(t) = Len(e) + Len(u)
      /\ \A k \in 1..(Len(e) + Len(u)) : t[k] = IF k < i THEN e[k]
                                     ELSE IF k < i + Len(u) THEN u[k - i + 1]
                                     ELSE e[k - Len(u)]
  BY <1>3, <1>6, Spliced
<1> HIDE DEF b, t
<1>8. Len(t) = b.numElements
  <2>1. Len(t) = Len(e) + Len(u)
    BY <1>7
  <2>2. Len(e) = IF i > a.numElements THEN i - 1 ELSE a.numElements
    BY <1>1, <1>3
  <2> QED BY <1>2, <2>1, <2>2
<1>9. ASSUME NEW k \in 1..(Len(e) + Len(u)) PROVE t[k] = Get(b, k)
  <2>1. k \in Nat \ {0} /\ k <= Len(e) + Len(u)
    BY <1>3, <1>4, <1>7
  <2>2. CASE k < i
    <3>1. t[k] = e[k] /\ k \in 1..Len(e) /\ Get(b, k) = Get(a, k)
      BY <1>1, <1>2, <1>3, <1>6, <1>7, <2>1, <2>2
    <3> QED BY <1>1, <1>3, <2>1, <3>1
  <2>3. CASE k >= i /\ k < i + Len(u)
    BY <1>2, <1>7, <2>1, <2>3
  <2>4. CASE k >= i + Len(u)
    <3>1. /\ ~(k < i) /\ ~(k < i + Len(u)) /\ k - Len(u) \in 1..Len(e) /\ ~(i > a.numElements)
          /\ k - Len(u) <= Len(s) /\ k - Len(u) \in 1..Len(s)
      BY <1>1, <1>3, <1>4, <2>1, <2>4
    <3>2. t[k] = s[k - Len(u)]
      BY <1>3, <1>7, <3>1
    <3>3. Get(b, k) = Get(a, k - Len(u))
      BY <1>2, <2>1, <3>1
    <3> QED BY <1>1, <3>1, <3>2, <3>3
  <2> QED BY <1>4, <2>1, <2>2, <2>3, <2>4
<1>10. HoldsAs(b, t)
  BY <1>2, <1>7, <1>8, <1>9, SameContents DEF HoldsAs
<1> QED BY <1>10 DEF b, t

\* Strings at the end
LEMMA Appended ==
    ASSUME NEW a, NEW s, HoldsAs(a, s), NEW u \in Seq(Values), NEW b, Owned(b),
           b.numElements = a.numElements + Len(u),
           \A k \in Nat \ {0} : Get(b, k) = IF k > a.numElements /\ k <= a.numElements + Len(u)
                                            THEN u[k - a.numElements] ELSE Get(a, k)
    PROVE  HoldsAs(b, s \o u)
<1> DEFINE t == s \o u
<1>1. /\ s \in Seq(Values) /\ Len(s) = a.numElements /\ Len(s) \in Nat
      /\ \A k \in 1..Len(s) : s[k] = Get(a, k)
  BY HoldsOf
<1>2. t = Joined(s, u)
  BY DEF Joined
<1> HIDE DEF t
<1>3. /\ t \in Seq(Values) /\ Len(t) = Len(s) + Len(u) /\ Len(u) \in Nat
      /\ \A k \in Nat \ {0} : k <= Len(s) => t[k] = s[k]
      /\ \A k \in Nat \ {0} : k > Len(s) /\ k <= Len(s) + Len(u) => t[k] = u[k - Len(s)]
  BY <1>1, <1>2, JoinedOf
<1>4. ASSUME NEW k \in 1..Len(t) PROVE t[k] = Get(b, k)
  <2>1. k \in Nat \ {0} /\ k <= Len(s) + Len(u)
    BY <1>1, <1>3
  <2>2. CASE k <= Len(s)
    <3>1. k \in 1..Len(s) /\ ~(k > a.numElements)
      BY <1>1, <2>1, <2>2
    <3>2. Get(b, k) = Get(a, k)
      BY <2>1, <3>1
    <3> QED BY <1>1, <1>3, <2>1, <2>2, <3>1, <3>2
  <2>3. CASE k > Len(s)
    <3>1. k > a.numElements /\ k <= a.numElements + Len(u)
      BY <1>1, <2>1, <2>3
    <3>2. Get(b, k) = u[k - a.numElements]
      BY <2>1, <3>1
    <3>3. t[k] = u[k - Len(s)]
      BY <1>3, <2>1, <2>3
    <3> QED BY <1>1, <3>2, <3>3
  <2> QED BY <1>1, <2>1, <2>2, <2>3
<1>5. Len(t) = b.numElements
  BY <1>1, <1>3
<1>6. HoldsAs(b, t)
  BY <1>3, <1>4, <1>5, SameContents DEF HoldsAs
<1> QED BY <1>6 DEF t

LEMMA EmptyArrayHolds == HoldsAs(EmptyArray, <<>>)
<1> DEFINE h == [p \in {} |-> 0]
<1>1. h \in Heaps
  <2>1. h \in [{} -> Values \ {0}]
    OBVIOUS
  <2> QED BY <2>1, IsHeap, {} \in SUBSET Nat
<1>2. DOMAIN h = {}
  OBVIOUS
<1>3. EmptyArray = [rows |-> <<>>, numElements |-> 0, strings |-> h]
  BY DEF EmptyArray
<1> HIDE DEF h
<1>4. Owned(EmptyArray)
  BY <1>1, <1>2, <1>3 DEF Owned, Held, ARRAY, Rows, Owns
<1>5. EmptyArray.numElements = 0
  BY <1>3
<1> DEFINE e == <<>>
<1>6. e \in Seq(Values) /\ Len(e) = 0
  OBVIOUS
<1> HIDE DEF e
<1>7. \A k \in 1..Len(e) : e[k] = Get(EmptyArray, k)
  BY <1>6
<1>8. HoldsAs(EmptyArray, e)
  BY <1>4, <1>5, <1>6, <1>7, SameContents DEF HoldsAs
<1> QED BY <1>8 DEF e

LEMMA AddEachHolds ==
    ASSUME NEW a, NEW s, HoldsAs(a, s), NEW u \in Seq(Values)
    PROVE  HoldsAs(addEach(a, u), s \o u)
<1> DEFINE b == addEach(a, u)
<1>1. /\ Owned(b) /\ b.numElements = a.numElements + Len(u)
      /\ \A k \in Nat \ {0} : Get(b, k) = IF k > a.numElements /\ k <= a.numElements + Len(u)
                                          THEN u[k - a.numElements] ELSE Get(a, k)
  BY HoldsOf, AddEachOwned
<1> HIDE DEF b
<1>2. HoldsAs(b, s \o u)
  BY <1>1, Appended
<1> QED BY <1>2 DEF b

LEMMA AddedAnew ==
    ASSUME NEW u \in Seq(Values)
    PROVE  HoldsAs(addEach(EmptyArray, u), u)
<1>1. HoldsAs(addEach(EmptyArray, u), <<>> \o u)
  BY EmptyArrayHolds, AddEachHolds
<1>2. <<>> \o u = u
  OBVIOUS
<1> QED BY <1>1, <1>2

LEMMA AddArrayHolds ==
    ASSUME NEW a, NEW s, HoldsAs(a, s), NEW u \in Seq(Values)
    PROVE  /\ Owned(addArray(a, u))
           /\ ~(u # <<>> /\ Last(u) = 0) => HoldsAs(addArray(a, u), s \o u)
<1> DEFINE b == addArray(a, u)
<1>1. /\ Owned(b)
      /\ u = <<>> \/ u[Len(u)] # 0 => b.numElements = a.numElements + Len(u)
      /\ \A k \in Nat \ {0} : Get(b, k) = IF k > a.numElements /\ k <= a.numElements + Len(u)
                                          THEN u[k - a.numElements] ELSE Get(a, k)
  BY HoldsOf, AddArrayOwned
<1> HIDE DEF b
<1>2. ASSUME ~(u # <<>> /\ Last(u) = 0) PROVE HoldsAs(b, s \o u)
  <2>1. b.numElements = a.numElements + Len(u)
    BY <1>1, <1>2 DEF Last
  <2> QED BY <1>1, <2>1, Appended
<1> QED BY <1>1, <1>2 DEF b

LEMMA EraseHolds ==
    ASSUME NEW a, NEW s, HoldsAs(a, s), NEW i \in 1..a.numElements
    PROVE  HoldsAs(erase(a, i), RemoveAt(s, i))
<1> DEFINE b == erase(a, i)
           t == RemoveAt(s, i)
           n == Len(s)
           x == SubSeq(s, 1, i - 1)
           y == SubSeq(s, i + 1, n)
<1>1. /\ Owned(a) /\ s \in Seq(Values) /\ n = a.numElements /\ n \in Nat
      /\ \A k \in 1..n : s[k] = Get(a, k)
  BY HoldsOf
<1>2. /\ Owned(b) /\ b.numElements = n - 1
      /\ \A k \in Nat \ {0} : Get(b, k) = IF k < i THEN Get(a, k) ELSE Get(a, k + 1)
  BY <1>1, EraseOwned
<1>3. i \in Nat /\ i > 0 /\ i <= n
  BY <1>1
<1>4. x \in Seq(Values) /\ Len(x) = i - 1 /\ \A k \in 1..(i - 1) : x[k] = s[k]
  BY <1>1, <1>3
<1>5. y \in Seq(Values) /\ Len(y) = n - i /\ \A k \in 1..(n - i) : y[k] = s[k + i]
  BY <1>1, <1>3
<1>6. t = Joined(x, y)
  BY DEF RemoveAt, Joined
<1> HIDE DEF b, t, x, y
<1>7. /\ t \in Seq(Values) /\ Len(t) = n - 1
      /\ \A k \in 1..(n - 1) : t[k] = IF k <= i - 1 THEN x[k] ELSE y[k - (i - 1)]
  <2>1. /\ t \in Seq(Values) /\ Len(t) = Len(x) + Len(y)
        /\ \A k \in Nat \ {0} : k <= Len(x) => t[k] = x[k]
        /\ \A k \in Nat \ {0} : k > Len(x) /\ k <= Len(x) + Len(y) => t[k] = y[k - Len(x)]
    BY <1>4, <1>5, <1>6, JoinedOf
  <2>2. Len(x) + Len(y) = n - 1 /\ Len(x) = i - 1
    BY <1>1, <1>3, <1>4, <1>5
  <2>3. ASSUME NEW k \in 1..(n - 1)
        PROVE  t[k] = IF k <= i - 1 THEN x[k] ELSE y[k - (i - 1)]
    <3>1. k \in Nat \ {0} /\ (~(k <= i - 1) => k > i - 1) /\ k <= n - 1
      BY <1>1, <1>3
    <3> QED BY <2>1, <2>2, <3>1
  <2> QED BY <2>1, <2>2, <2>3
<1>8. ASSUME NEW k \in 1..(n - 1) PROVE t[k] = Get(b, k)
  <2>1. k \in Nat \ {0} /\ k <= n - 1
    BY <1>1
  <2>2. CASE k < i
    <3>1. k <= i - 1 /\ k \in 1..(i - 1) /\ k \in 1..n
      BY <1>1, <1>3, <2>1, <2>2
    <3> QED BY <1>1, <1>2, <1>4, <1>7, <2>1, <2>2, <3>1
  <2>3. CASE k >= i
    <3>1. /\ ~(k <= i - 1) /\ k - (i - 1) \in 1..(n - i) /\ k - (i - 1) + i = k + 1
          /\ k + 1 \in 1..n /\ ~(k < i)
      BY <1>1, <1>3, <2>1, <2>3
    <3> QED BY <1>1, <1>2, <1>5, <1>7, <2>1, <3>1
  <2> QED BY <1>3, <2>1, <2>2, <2>3
<1>9. HoldsAs(b, t)
  BY <1>2, <1>7, <1>8, SameContents DEF HoldsAs
<1> QED BY <1>9 DEF b, t

LEMMA PopHolds ==
    ASSUME NEW a, NEW s, HoldsAs(a, s), a.numElements > 0
    PROVE  HoldsAs(pop(a), Front(s))
<1> DEFINE b == pop(a)
           t == Front(s)
           n == Len(s)
<1>1. /\ Owned(a) /\ s \in Seq(Values) /\ n = a.numElements /\ n \in Nat
      /\ \A k \in 1..n : s[k] = Get(a, k)
  BY HoldsOf
<1>2. /\ Owned(b) /\ b.numElements = n - 1
      /\ \A k \in Nat \ {0} : k < n => Get(b, k) = Get(a, k)
  BY <1>1, PopOwned
<1>3. t \in Seq(Values) /\ Len(t) = n - 1 /\ \A k \in 1..(n - 1) : t[k] = s[k]
  BY <1>1 DEF Front
<1> HIDE DEF b, t
<1>4. \A k \in 1..(n - 1) : k \in 1..n /\ k \in Nat \ {0} /\ k < n
  BY <1>1
<1>5. \A k \in 1..(n - 1) : t[k] = Get(b, k)
  BY <1>1, <1>2, <1>3, <1>4
<1>6. HoldsAs(b, t)
  BY <1>2, <1>3, <1>5, SameContents DEF HoldsAs
<1> QED BY <1>6 DEF b, t

LEMMA ReserveHolds ==
    ASSUME NEW a, NEW s, HoldsAs(a, s), NEW size \in Nat
    PROVE  HoldsAs(reserve(a, size), s)
<1> DEFINE b == reserve(a, size)
<1>1. /\ Owned(a) /\ s \in Seq(Values) /\ Len(s) = a.numElements /\ Len(s) \in Nat
      /\ \A k \in 1..Len(s) : s[k] = Get(a, k)
  BY HoldsOf
<1>2. /\ Owned(b) /\ b.numElements = a.numElements
      /\ \A k \in Nat \ {0} : Get(b, k) = Get(a, k)
  BY <1>1, ReserveOwned
<1> HIDE DEF b
<1>3. \A k \in 1..Len(s) : s[k] = Get(b, k)
  BY <1>1, <1>2
<1>4. HoldsAs(b, s)
  BY <1>1, <1>2, <1>3, SameContents DEF HoldsAs
<1> QED BY <1>4 DEF b

-----------------------------------------------------------------------------
(* Array: what a step does                                                 *)

\* A sequence that is sorted anew, backwards or without what it repeats.
LEMMA ReversedOf ==
    ASSUME NEW s \in Seq(Values)
    PROVE  Reverse(s) \in Seq(Values)
<1> DEFINE n == Len(s)
<1>1. n \in Nat /\ \A k \in 1..n : s[k] \in Values
  OBVIOUS
<1>2. \A k \in 1..n : n - k + 1 \in 1..n
  BY <1>1
<1>3. [k \in 1..n |-> s[n - k + 1]] \in [1..n -> Values]
  BY <1>1, <1>2
<1>4. Reverse(s) \in [1..n -> Values]
  BY <1>3 DEF Reverse
<1> QED BY <1>1, <1>4

LEMMA FirstsOf ==
    ASSUME NEW s \in Seq(Values)
    PROVE  Firsts(s) \in Seq(Values)
<1> DEFINE P == {k \in DOMAIN s : \A j \in 1..(k - 1) : s[j] # s[k]}
<1>1. P \in SUBSET (1..Len(s))
  OBVIOUS
<1>2. Firsts(s) = Kept(s, P)
  BY DEF Firsts
<1> HIDE DEF P
<1> QED BY <1>1, <1>2, KeptOf

LEMMA AddedSorted ==
    ASSUME NEW s \in Seq(Values)
    PROVE  /\ HoldsAs(addEach(EmptyArray, Sorted(s)), Sorted(s))
           /\ HoldsAs(addEach(EmptyArray, Reverse(Sorted(s))), Reverse(Sorted(s)))
           /\ HoldsAs(addEach(EmptyArray, Sorted(Firsts(s))), Sorted(Firsts(s)))
<1>1. Sorted(s) \in Seq(Values)
  BY SortedOf
<1>2. Reverse(Sorted(s)) \in Seq(Values)
  BY <1>1, ReversedOf
<1>3. Sorted(Firsts(s)) \in Seq(Values)
  BY FirstsOf, SortedOf
<1> QED BY <1>1, <1>2, <1>3, AddedAnew

\* The fields of a text that explode() takes
FieldsTaken(s, limit, skip) ==
    LET fields == IF skip THEN Kept(s, {k \in DOMAIN s : s[k] # 0}) ELSE s
    IN  IF limit = 0 THEN fields ELSE SubSeq(fields, 1, Min({limit, Len(fields)}))

LEMMA LeastOf ==
    ASSUME NEW a \in Nat, NEW b \in Nat
    PROVE  Min({a, b}) \in 0..b
<1> DEFINE m == IF a <= b THEN a ELSE b
<1>1. m \in {a, b} /\ \A y \in {a, b} : m <= y
  OBVIOUS
<1>2. Min({a, b}) \in {a, b} /\ \A y \in {a, b} : Min({a, b}) <= y
  BY <1>1 DEF Min
<1> QED BY <1>2

LEMMA FieldsTakenOf ==
    ASSUME NEW s \in Seq(Values), NEW limit \in Nat, NEW skip
    PROVE  FieldsTaken(s, limit, skip) \in Seq(Values)
<1> DEFINE P == {k \in DOMAIN s : s[k] # 0}
           f == IF skip THEN Kept(s, P) ELSE s
           m == Min({limit, Len(f)})
<1>1. P \in SUBSET (1..Len(s))
  OBVIOUS
<1>2. FieldsTaken(s, limit, skip) = IF limit = 0 THEN f ELSE SubSeq(f, 1, m)
  BY Zenon DEF FieldsTaken
<1>3. f \in Seq(Values)
  <2>1. Kept(s, P) \in Seq(Values)
    <3> HIDE DEF P
    <3> QED BY <1>1, KeptOf
  <2> HIDE DEF P
  <2> QED BY <2>1
<1> HIDE DEF f
<1>4. Len(f) \in Nat
  BY <1>3
<1>5. m \in 0..Len(f)
  BY <1>4, LeastOf
<1> HIDE DEF m
<1>6. SubSeq(f, 1, m) \in Seq(Values)
  BY <1>3, <1>4, <1>5
<1> QED BY <1>2, <1>3, <1>6

LEMMA OtherOf ==
    ASSUME NEW s \in Others
    PROVE  s \in Seq(Values)
BY ArrayAssumption

\* Does the action Do(a, e) with HoldsAs(a, e): the array does.
LEMMA Done ==
    ASSUME NEW a, NEW e, Do(a, e), HoldsAs(a, e)
    PROVE  HoldsAs(arr', expected')
BY DEF Do

LEMMA SetStep ==
    ASSUME HoldsAs(arr, expected), NEW i \in Nat \ {0}, NEW v \in Values, Set(i, v)
    PROVE  HoldsAs(arr', expected')
BY SetHolds, Done DEF Set

LEMMA InsertStep ==
    ASSUME HoldsAs(arr, expected), NEW i \in Nat \ {0}, NEW v \in Values, Insert(i, v)
    PROVE  HoldsAs(arr', expected')
<1> DEFINE documented == InsertAt(Extended(expected, i - 1), i, v)
<1>1. Owned(arr)
  BY DEF HoldsAs
<1>2. \/ i <= arr.numElements /\ Do(InsertedMoved(arr, i, v), Contents(InsertedMoved(arr, i, v)))
      \/ Do(Inserted(arr, i, v), documented)
  <2>1. PICK moved \in BOOLEAN :
          /\ moved => i <= arr.numElements
          /\ Do(insert(arr, i, v, moved),
                IF moved THEN Contents(insert(arr, i, v, moved)) ELSE documented)
    BY Zenon DEF Insert
  <2>2. CASE moved = TRUE
    BY <2>1, <2>2, Zenon DEF InsertedMoved
  <2>3. CASE moved = FALSE
    BY <2>1, <2>3, Zenon DEF Inserted
  <2> QED BY <2>2, <2>3
<1>3. HoldsAs(Inserted(arr, i, v), documented)
  BY InsertHolds
<1>4. i <= arr.numElements =>
        HoldsAs(InsertedMoved(arr, i, v), Contents(InsertedMoved(arr, i, v)))
  BY <1>1, InsertMoved DEF HoldsAs
<1> HIDE DEF documented
<1> QED BY <1>2, <1>3, <1>4, Done

LEMMA InsertArrayStep ==
    ASSUME HoldsAs(arr, expected), NEW i \in Nat \ {0}, NEW s \in Others, InsertArray(i, s)
    PROVE  HoldsAs(arr', expected')
<1> DEFINE e == Extended(expected, i - 1)
<1>1. /\ s # <<>> /\ i <= arr.numElements + 3
      /\ Do(insertArray(arr, i, s), Splice(e, i, s))
  BY DEF InsertArray, Splice
<1>2. HoldsAs(insertArray(arr, i, s), Splice(e, i, s))
  <2>1. s \in Seq(Values)
    BY OtherOf
  <2>2. e = Extended(expected, i - 1)
    OBVIOUS
  <2> HIDE DEF e
  <2> QED BY <1>1, <2>1, <2>2, InsertArrayHolds
<1> HIDE DEF e
<1> QED BY <1>1, <1>2, Done

LEMMA AddArrayStep ==
    ASSUME HoldsAs(arr, expected), NEW s \in Others, AddArray(s)
    PROVE  HoldsAs(arr', expected')
<1> DEFINE a == addArray(arr, s)
<1>1. Owned(a) /\ (~(s # <<>> /\ Last(s) = 0) => HoldsAs(a, expected \o s))
  BY OtherOf, AddArrayHolds
<1>2. Do(a, IF s # <<>> /\ Last(s) = 0 THEN Contents(a) ELSE expected \o s)
  BY DEF AddArray
<1> HIDE DEF a
<1>3. CASE s # <<>> /\ Last(s) = 0
  <2>1. Do(a, Contents(a)) /\ HoldsAs(a, Contents(a))
    BY <1>1, <1>2, <1>3 DEF HoldsAs
  <2> QED BY <2>1, Done
<1>4. CASE ~(s # <<>> /\ Last(s) = 0)
  <2>1. Do(a, expected \o s) /\ HoldsAs(a, expected \o s)
    BY <1>1, <1>2, <1>4
  <2> QED BY <2>1, Done
<1> QED BY <1>3, <1>4

LEMMA CopyStep ==
    ASSUME NEW s \in Others, Copy(s)
    PROVE  HoldsAs(arr', expected')
<1> DEFINE a == addArray(EmptyArray, s)
<1>0. s \in Seq(Values)
  BY OtherOf
<1>1. Owned(a) /\ (~(s # <<>> /\ Last(s) = 0) => HoldsAs(a, <<>> \o s))
  BY <1>0, EmptyArrayHolds, AddArrayHolds
<1>2. Do(a, IF s # <<>> /\ Last(s) = 0 THEN Contents(a) ELSE s)
  BY DEF Copy
<1>3. <<>> \o s = s
  BY <1>0
<1> HIDE DEF a
<1>4. CASE s # <<>> /\ Last(s) = 0
  <2>1. Do(a, Contents(a)) /\ HoldsAs(a, Contents(a))
    BY <1>1, <1>2, <1>4 DEF HoldsAs
  <2> QED BY <2>1, Done
<1>5. CASE ~(s # <<>> /\ Last(s) = 0)
  <2>1. Do(a, s) /\ HoldsAs(a, s)
    BY <1>1, <1>2, <1>3, <1>5
  <2> QED BY <2>1, Done
<1> QED BY <1>4, <1>5

LEMMA ExplodeStep ==
    ASSUME HoldsAs(arr, expected), NEW s \in Others, NEW limit \in Nat, NEW skip,
           Explode(s, limit, skip)
    PROVE  HoldsAs(arr', expected')
<1> DEFINE taken == FieldsTaken(s, limit, skip)
<1>1. Do(addEach(arr, taken), expected \o taken)
  BY Zenon DEF Explode, FieldsTaken
<1>2. taken \in Seq(Values)
  BY OtherOf, FieldsTakenOf
<1> HIDE DEF taken
<1>3. HoldsAs(addEach(arr, taken), expected \o taken)
  BY <1>2, AddEachHolds
<1> QED BY <1>1, <1>3, Done

LEMMA EraseStep ==
    ASSUME HoldsAs(arr, expected), NEW i \in Nat \ {0}, Erase(i)
    PROVE  HoldsAs(arr', expected')
<1>1. i \in 1..arr.numElements
  BY HoldsOf DEF Erase
<1> QED BY <1>1, EraseHolds, Done DEF Erase

LEMMA SortStep ==
    ASSUME HoldsAs(arr, expected), Sort \/ SortReverse \/ SortUnique
    PROVE  HoldsAs(arr', expected')
<1>1. expected \in Seq(Values) /\ Contents(arr) = expected
  BY HoldsOf DEF HoldsAs
<1>2. \/ Do(addEach(EmptyArray, Sorted(expected)), Sorted(expected))
      \/ Do(addEach(EmptyArray, Reverse(Sorted(expected))), Reverse(Sorted(expected)))
      \/ Do(addEach(EmptyArray, Sorted(Firsts(expected))), Sorted(Firsts(expected)))
  BY <1>1, Zenon DEF Sort, SortReverse, SortUnique
<1> QED BY <1>1, <1>2, AddedSorted, Done

LEMMA MakeUniqueStep ==
    ASSUME HoldsAs(arr, expected), MakeUnique
    PROVE  HoldsAs(arr', expected')
<1>1. Owned(arr) /\ Contents(arr) = expected
  BY DEF HoldsAs
<1>2. Owned(Unique(arr)) /\ Contents(Unique(arr)) = Firsts(expected)
  BY <1>1, UniqueOwned
<1>3. HoldsAs(Unique(arr), Firsts(expected))
  BY <1>2 DEF HoldsAs
<1> QED BY <1>3, Done DEF MakeUnique

LEMMA ArrayStep ==
    ASSUME HoldsAs(arr, expected), [ArrayNext]_avars
    PROVE  HoldsAs(arr', expected')
<1>1. CASE UNCHANGED avars
  BY <1>1 DEF avars
<1>2. ASSUME NEW i \in 1..(MaxElements + 1), NEW v \in Values, Set(i, v) \/ Insert(i, v)
      PROVE  HoldsAs(arr', expected')
  <2>1. i \in Nat \ {0}
    BY ArrayAssumption
  <2> QED BY <1>2, <2>1, SetStep, InsertStep
<1>3. ASSUME NEW i \in 1..(MaxElements + 1), NEW s \in Others, InsertArray(i, s)
      PROVE  HoldsAs(arr', expected')
  <2>1. i \in Nat \ {0}
    BY ArrayAssumption
  <2> QED BY <1>3, <2>1, InsertArrayStep
<1>4. ASSUME NEW s \in Others, AddArray(s) \/ Copy(s)
      PROVE  HoldsAs(arr', expected')
  BY <1>4, AddArrayStep, CopyStep
<1>5. ASSUME NEW s \in Others, NEW limit \in 0..2, NEW skip \in BOOLEAN, Explode(s, limit, skip)
      PROVE  HoldsAs(arr', expected')
  <2>1. limit \in Nat
    OBVIOUS
  <2> QED BY <1>5, <2>1, ExplodeStep, Zenon
<1>6. ASSUME NEW i \in 1..MaxElements, Erase(i) \/ ReserveRows(i)
      PROVE  HoldsAs(arr', expected')
  <2>1. i \in Nat \ {0} /\ i \in Nat
    BY ArrayAssumption
  <2>2. CASE Erase(i)
    BY <2>1, <2>2, EraseStep
  <2>3. CASE ReserveRows(i)
    BY <2>1, <2>3, ReserveHolds, Done DEF ReserveRows
  <2> QED BY <1>6, <2>2, <2>3
<1>7. CASE Pop
  BY <1>7, PopHolds, Done DEF Pop
<1>8. CASE ClearArray
  BY <1>8, EmptyArrayHolds, Done DEF ClearArray
<1>9. CASE Sort \/ SortReverse \/ SortUnique
  BY <1>9, SortStep
<1>10. CASE MakeUnique
  BY <1>10, MakeUniqueStep
<1> QED
  BY <1>1, <1>2, <1>3, <1>4, <1>5, <1>6, <1>7, <1>8, <1>9, <1>10, Zenon DEF ArrayNext

LEMMA ArrayExpected ==
    ASSUME HoldsAs(arr, expected)
    PROVE  HoldsExpected
<1>1. /\ Held(arr) /\ Contents(arr) = expected /\ arr.numElements \in Nat
      /\ \A i \in DOMAIN arr.rows : i > arr.numElements => arr.rows[i] = NoString
  BY OwnedType DEF HoldsAs, Owned
<1>2. /\ \A i \in DOMAIN arr.rows : i \in Nat
      /\ \A i \in DOMAIN arr.rows : arr.rows[i] # NoString => arr.rows[i] \in DOMAIN arr.strings
      /\ \A p \in DOMAIN arr.strings : \E i \in DOMAIN arr.rows : arr.rows[i] = p
      /\ \A i, j \in DOMAIN arr.rows : arr.rows[i] = arr.rows[j] /\ arr.rows[i] # NoString => i = j
  <2>1. DOMAIN arr.rows = 1..Len(arr.rows)
    BY <1>1 DEF Held, ARRAY, Rows
  <2> QED BY <1>1, <2>1 DEF Held, Owns
<1>3. arr.strings \in Heaps
  BY <1>1 DEF Held, ARRAY
<1>4. \A p \in DOMAIN arr.strings : p # NoString /\ arr.strings[p] # 0
  BY <1>3, HeapType, ArrayAssumption
<1>5. ASSUME NEW p \in DOMAIN arr.strings
      PROVE  Cardinality({i \in DOMAIN arr.rows : arr.rows[i] = p}) = 1
  <2>1. PICK i \in DOMAIN arr.rows : arr.rows[i] = p
    BY <1>2
  <2>2. {j \in DOMAIN arr.rows : arr.rows[j] = p} = {i}
    BY <1>2, <1>4, <2>1
  <2> QED BY <2>2, FS_Singleton
<1>6. \A i \in DOMAIN arr.rows : arr.rows[i] # NoString => i <= arr.numElements
  BY <1>1, <1>2
<1> QED BY <1>1, <1>2, <1>4, <1>5, <1>6 DEF HoldsExpected, RowsOwned

\* Whatever is set, inserted, added, copied, exploded, erased, popped, sorted or
\* made unique, in any order, every string belongs to exactly one row, none is
\* leaked or deleted twice, and the array holds what its documentation says.
THEOREM ArraysHoldWhatIsExpected == ArraySpec => []HoldsExpected
<1>1. ArrayInit => HoldsAs(arr, expected)
  BY EmptyArrayHolds DEF ArrayInit
<1>2. HoldsAs(arr, expected) /\ [ArrayNext]_avars => HoldsAs(arr, expected)'
  BY ArrayStep DEF HoldsAs
<1>3. HoldsAs(arr, expected) => HoldsExpected
  BY ArrayExpected
<1> QED BY <1>1, <1>2, <1>3, PTL DEF ArraySpec

-----------------------------------------------------------------------------
(* String: the buffer                                                      *)

BUFFER == [ptr : Seq(Int), s : Nat, stringlen : Nat]

\* The buffer of x holds the text t and a zero behind it, and the byte behind
\* that one, which trim() may write, is in the buffer as well.
Keeps(x, t) ==
    /\ x \in BUFFER /\ t \in Seq(Letters)
    /\ Len(x.ptr) = x.s /\ x.stringlen = Len(t)
    /\ \A k \in 1..Len(t) : x.ptr[k] = t[k]
    /\ Len(t) > 0 => Len(t) + 2 <= x.s /\ x.ptr[Len(t) + 1] = 0

LEMMA KeepsType ==
    ASSUME NEW x, NEW t, Keeps(x, t)
    PROVE  /\ x \in BUFFER /\ x.ptr \in Seq(Int) /\ x.s \in Nat /\ x.stringlen \in Nat
           /\ t \in Seq(Letters) /\ Len(t) \in Nat /\ x.stringlen = Len(t) /\ Len(x.ptr) = x.s
           /\ \A k \in 1..Len(t) : x.ptr[k] = t[k]
           /\ Len(t) > 0 => Len(t) + 2 <= x.s /\ x.ptr[Len(t) + 1] = 0
           /\ Len(t) <= x.s
<1>1. /\ x \in BUFFER /\ x.ptr \in Seq(Int) /\ x.s \in Nat /\ x.stringlen \in Nat
      /\ t \in Seq(Letters) /\ Len(t) \in Nat
  BY DEF Keeps, BUFFER
<1> QED BY <1>1 DEF Keeps

LEMMA LetterType ==
    ASSUME NEW t \in Seq(Letters)
    PROVE  t \in Seq(Int) /\ Len(t) \in Nat /\ \A k \in 1..Len(t) : t[k] \in Letters /\ t[k] # 0 /\ t[k] \in Int
<1>1. Len(t) \in Nat /\ \A k \in 1..Len(t) : t[k] \in Letters
  OBVIOUS
<1>2. \A c \in Letters : c # 0 /\ c \in Int
  BY StringAssumption
<1>3. t \in [1..Len(t) -> Int]
  BY <1>1, <1>2
<1> QED BY <1>1, <1>2, <1>3

LEMMA GreatestOf ==
    ASSUME NEW a \in Int, NEW b \in Int
    PROVE  Max({a, b}) = IF a <= b THEN b ELSE a
<1> DEFINE m == IF a <= b THEN b ELSE a
<1>1. m \in {a, b} /\ \A y \in {a, b} : m >= y
  OBVIOUS
<1>2. Max({a, b}) \in {a, b} /\ \A y \in {a, b} : Max({a, b}) >= y
  BY <1>1 DEF Max
<1> QED BY <1>2

LEMMA SmallestOf ==
    ASSUME NEW a \in Int, NEW b \in Int
    PROVE  Min({a, b}) = IF a <= b THEN a ELSE b
<1> DEFINE m == IF a <= b THEN a ELSE b
<1>1. m \in {a, b} /\ \A y \in {a, b} : m <= y
  OBVIOUS
<1>2. Min({a, b}) \in {a, b} /\ \A y \in {a, b} : Min({a, b}) <= y
  BY <1>1 DEF Min
<1> QED BY <1>2

\* Bytes that are written within a buffer
LEMMA WriteOf ==
    ASSUME NEW p \in Seq(Int), NEW at \in Nat, NEW b \in Seq(Int), at + Len(b) <= Len(p)
    PROVE  /\ Write(p, at, b) \in Seq(Int) /\ Len(Write(p, at, b)) = Len(p)
           /\ \A k \in 1..Len(p) :
                 Write(p, at, b)[k] = IF k > at /\ k <= at + Len(b) THEN b[k - at] ELSE p[k]
<1> DEFINE n == Len(p)
           w == [k \in 1..n |-> IF k > at /\ k <= at + Len(b) THEN b[k - at]
                                ELSE IF k <= Len(p) THEN p[k] ELSE Junk]
<1>1. n \in Nat /\ Len(b) \in Nat /\ \A k \in 1..n : p[k] \in Int
  OBVIOUS
<1>2. Max({Len(p), at + Len(b)}) = n
  <2>1. at + Len(b) \in Int /\ Len(p) \in Int
    BY <1>1
  <2>2. Max({Len(p), at + Len(b)}) = IF Len(p) <= at + Len(b) THEN at + Len(b) ELSE Len(p)
    BY <2>1, GreatestOf
  <2> QED BY <1>1, <2>2
<1>3. Write(p, at, b) = w
  BY <1>2 DEF Write
<1>4. \A k \in 1..n : w[k] = IF k > at /\ k <= at + Len(b) THEN b[k - at] ELSE p[k]
  BY <1>1
<1>5. \A k \in 1..n : w[k] \in Int
  <2> TAKE k \in 1..n
  <2>1. k > at /\ k <= at + Len(b) => k - at \in 1..Len(b)
    BY <1>1
  <2>2. \A j \in 1..Len(b) : b[j] \in Int
    OBVIOUS
  <2> HIDE DEF w
  <2> QED BY <1>1, <1>4, <2>1, <2>2
<1>6. w = [k \in 1..n |-> w[k]]
  OBVIOUS
<1> HIDE DEF w
<1>7. w \in [1..n -> Int]
  BY <1>5, <1>6
<1>8. w \in Seq(Int) /\ Len(w) = n
  <2>1. n \in Nat
    BY <1>1
  <2> HIDE DEF n
  <2> QED BY <1>7, <2>1
<1> QED BY <1>3, <1>4, <1>8

LEMMA ReadOf ==
    ASSUME NEW p \in Seq(Int), NEW at \in Nat, NEW n \in Nat, at + n <= Len(p)
    PROVE  /\ Read(p, at, n) \in Seq(Int) /\ Len(Read(p, at, n)) = n
           /\ \A k \in 1..n : Read(p, at, n)[k] = p[at + k]
<1>1. \A k \in 1..n : at + k <= Len(p) /\ at + k \in 1..Len(p)
  OBVIOUS
<1>2. Read(p, at, n) \in [1..n -> Int] /\ \A k \in 1..n : Read(p, at, n)[k] = p[at + k]
  BY <1>1 DEF Read
<1> QED BY <1>2

LEMMA MemmoveOf ==
    ASSUME NEW p \in Seq(Int), NEW to \in Nat, NEW from \in Nat, NEW n \in Nat,
           to + n <= Len(p), from + n <= Len(p)
    PROVE  /\ memmove(p, to, from, n) \in Seq(Int) /\ Len(memmove(p, to, from, n)) = Len(p)
           /\ \A k \in 1..Len(p) :
                 memmove(p, to, from, n)[k] =
                     IF k > to /\ k <= to + n THEN p[k - to + from] ELSE p[k]
<1> DEFINE r == Read(p, from, n)
           w == Write(p, to, r)
<1>1. r \in Seq(Int) /\ Len(r) = n /\ \A k \in 1..n : r[k] = p[from + k]
  BY ReadOf
<1> HIDE DEF r
<1>2. /\ w \in Seq(Int) /\ Len(w) = Len(p)
      /\ \A k \in 1..Len(p) : w[k] = IF k > to /\ k <= to + n THEN r[k - to] ELSE p[k]
  <2>1. to + Len(r) <= Len(p)
    BY <1>1
  <2>2. /\ w \in Seq(Int) /\ Len(w) = Len(p)
        /\ \A k \in 1..Len(p) : w[k] = IF k > to /\ k <= to + Len(r) THEN r[k - to] ELSE p[k]
    BY <1>1, <2>1, WriteOf
  <2> HIDE DEF w
  <2> QED BY <1>1, <2>2
<1>3. memmove(p, to, from, n) = w
  BY DEF memmove, r
<1> HIDE DEF w
<1>4. ASSUME NEW k \in 1..Len(p), k > to, k <= to + n PROVE r[k - to] = p[k - to + from]
  <2>1. k - to \in 1..n /\ from + (k - to) = k - to + from
    BY <1>4
  <2> QED BY <1>1, <2>1
<1> QED BY <1>2, <1>3, <1>4

\* The length of a text that a zero ends
LEMMA StrlenOf ==
    ASSUME NEW p \in Seq(Int), NEW n \in Nat, n + 1 <= Len(p), p[n + 1] = 0,
           \A k \in 1..n : p[k] # 0
    PROVE  strlen(p) = n
<1> DEFINE ends == {k \in DOMAIN p : p[k] = 0}
<1>1. n + 1 \in ends /\ \A k \in ends : n + 1 <= k /\ k \in Nat
  <2>1. DOMAIN p = 1..Len(p) /\ Len(p) \in Nat
    OBVIOUS
  <2>2. ASSUME NEW k \in 1..Len(p), p[k] = 0 PROVE n + 1 <= k
    <3>1. k \notin 1..n
      BY <2>2
    <3> QED BY <3>1
  <2> QED BY <2>1, <2>2
<1> HIDE DEF ends
<1>2. Min(ends) = n + 1
  <2>1. \A m \in ends : (\A y \in ends : m <= y) => m = n + 1
    BY <1>1
  <2>2. Min(ends) \in ends /\ \A y \in ends : Min(ends) <= y
    BY <1>1 DEF Min
  <2> QED BY <2>1, <2>2
<1>3. strlen(p) = Min(ends) - 1
  BY <1>1 DEF strlen, ends
<1> QED BY <1>2, <1>3

-----------------------------------------------------------------------------
(* String: texts that are stored                                           *)

LEMMA EndedKeeps ==
    ASSUME NEW x \in BUFFER, Len(x.ptr) = x.s, NEW t \in Seq(Letters), NEW n, n = Len(t),
           n + 1 <= x.s, n > 0 => n + 2 <= x.s, \A k \in 1..n : x.ptr[k] = t[k]
    PROVE  Keeps(EndedAt(x, n), t)
<1> DEFINE y == EndedAt(x, n)
           w == Write(x.ptr, n, <<0>>)
<1>1. x.ptr \in Seq(Int) /\ x.s \in Nat /\ n \in Nat
  BY DEF BUFFER
<1>2. /\ w \in Seq(Int) /\ Len(w) = x.s
      /\ \A k \in 1..x.s : w[k] = IF k > n /\ k <= n + 1 THEN <<0>>[k - n] ELSE x.ptr[k]
  <2> DEFINE z == <<0>>
  <2>1. z \in Seq(Int) /\ Len(z) = 1
    OBVIOUS
  <2> HIDE DEF z
  <2>2. /\ Write(x.ptr, n, z) \in Seq(Int) /\ Len(Write(x.ptr, n, z)) = Len(x.ptr)
        /\ \A k \in 1..Len(x.ptr) :
              Write(x.ptr, n, z)[k] = IF k > n /\ k <= n + Len(z) THEN z[k - n] ELSE x.ptr[k]
    <3> DEFINE p == x.ptr
    <3>1. p \in Seq(Int) /\ n \in Nat /\ n + Len(z) <= Len(p)
      BY <1>1, <2>1
    <3> HIDE DEF p
    <3>2. /\ Write(p, n, z) \in Seq(Int) /\ Len(Write(p, n, z)) = Len(p)
          /\ \A k \in 1..Len(p) :
                Write(p, n, z)[k] = IF k > n /\ k <= n + Len(z) THEN z[k - n] ELSE p[k]
      BY <2>1, <3>1, WriteOf
    <3> QED BY <3>2 DEF p
  <2> QED BY <2>1, <2>2 DEF z
<1> HIDE DEF w
<1>3. y = [x EXCEPT !.ptr = w, !.stringlen = n]
  BY DEF EndedAt, BUFFER, w
<1>4. y \in BUFFER /\ y.ptr = w /\ y.s = x.s /\ y.stringlen = n
  BY <1>1, <1>2, <1>3 DEF BUFFER
<1> HIDE DEF y
<1>5. \A k \in 1..n : w[k] = t[k]
  <2> TAKE k \in 1..n
  <2>1. k \in 1..x.s /\ ~(k > n)
    BY <1>1
  <2> QED BY <1>2, <2>1
<1>6. w[n + 1] = 0
  <2>1. n + 1 \in 1..x.s /\ n + 1 > n /\ n + 1 <= n + 1 /\ (n + 1) - n = 1
    BY <1>1
  <2>2. w[n + 1] = <<0>>[(n + 1) - n]
    BY <1>2, <2>1
  <2> QED BY <2>1, <2>2
<1>7. Keeps(y, t)
  BY <1>2, <1>4, <1>5, <1>6 DEF Keeps
<1> QED BY <1>7 DEF y

LEMMA EmptyKeeps == Keeps(Empty, <<>>)
<1> DEFINE e == <<>>
<1>1. e \in Seq(Int) /\ e \in Seq(Letters) /\ Len(e) = 0
  OBVIOUS
<1>2. Empty = [ptr |-> e, s |-> 0, stringlen |-> 0]
  BY DEF Empty
<1> HIDE DEF e
<1>3. Empty \in BUFFER /\ Empty.ptr = e /\ Empty.s = 0 /\ Empty.stringlen = 0
  BY <1>1, <1>2 DEF BUFFER
<1>4. Keeps(Empty, e)
  BY <1>1, <1>3 DEF Keeps
<1> QED BY <1>4 DEF e

LEMMA RoundedUp ==
    ASSUME NEW o \in Nat
    PROVE  /\ (o \div InitialBuffersize + 1) * InitialBuffersize \in Nat
           /\ (o \div InitialBuffersize + 1) * InitialBuffersize >= o + 1
<1> DEFINE d == InitialBuffersize
           q == o \div d
           r == o % d
<1>1. d \in Nat \ {0}
  BY StringAssumption
<1>2. q \in Nat /\ r \in Nat /\ r < d /\ o = d * q + r
  BY <1>1
<1> HIDE DEF d, q, r
<1>3. (q + 1) * d = d * q + d
  BY <1>1, <1>2
<1>4. d * q \in Nat
  BY <1>1, <1>2
<1>5. (q + 1) * d \in Nat /\ (q + 1) * d >= o + 1
  BY <1>1, <1>2, <1>3, <1>4
<1> QED BY <1>5 DEF q, d

LEMMA NewSizeOf ==
    ASSUME NEW x \in BUFFER, NEW o \in Nat
    PROVE  newSize(x, o) \in Nat /\ newSize(x, o) >= o + 1
<1> DEFINE z == (o \div InitialBuffersize + 1) * InitialBuffersize
<1>1. z \in Nat /\ z >= o + 1
  BY RoundedUp
<1>2. x.s \in Nat /\ InitialBuffersize \in Nat
  BY StringAssumption DEF BUFFER
<1>3. newSize(x, o) = IF o < x.s THEN x.s
                      ELSE IF o < InitialBuffersize THEN InitialBuffersize ELSE z + 1
  BY DEF newSize
<1> HIDE DEF z
<1> QED BY <1>1, <1>2, <1>3

LEMMA TimesOf ==
    ASSUME NEW c, NEW n \in Nat
    PROVE  /\ Len(Times(c, n)) = n /\ \A k \in 1..n : Times(c, n)[k] = c
           /\ c \in Int => Times(c, n) \in Seq(Int)
           /\ c \in Letters => Times(c, n) \in Seq(Letters)
<1>1. Times(c, n) = [k \in 1..n |-> c]
  BY DEF Times
<1> QED BY <1>1

LEMMA SetKeeps ==
    ASSUME NEW x \in BUFFER, Len(x.ptr) = x.s, NEW t \in Seq(Letters)
    PROVE  Keeps(setText(x, t), t)
<1> DEFINE n == Len(t)
           size == newSize(x, n + 1)
           p == IF size = x.s THEN x.ptr ELSE Times(Junk, size)
           w == Write(p, 0, t)
           y == [x EXCEPT !.s = size, !.ptr = w]
<1>1. CASE t = <<>>
  <2>1. setText(x, t) = Empty
    BY <1>1 DEF setText
  <2> QED BY <1>1, <2>1, EmptyKeeps
<1>2. CASE t # <<>>
  <2>1. n \in Nat /\ n > 0 /\ n + 1 \in Nat
    BY <1>2
  <2>2. size \in Nat /\ size >= n + 2
    <3>1. newSize(x, n + 1) \in Nat /\ newSize(x, n + 1) >= n + 1 + 1
      BY <2>1, NewSizeOf
    <3> QED BY <2>1, <3>1
  <2> HIDE DEF size
  <2>3. p \in Seq(Int) /\ Len(p) = size
    <3>1. Junk \in Int
      BY DEF Junk
    <3>2. Times(Junk, size) \in Seq(Int) /\ Len(Times(Junk, size)) = size
      BY <2>2, <3>1, TimesOf
    <3> QED BY <3>2 DEF BUFFER
  <2>4. setText(x, t) = EndedAt(y, n)
    BY <1>2 DEF setText, size
  <2> HIDE DEF p, n
  <2>5. /\ w \in Seq(Int) /\ Len(w) = size
        /\ \A k \in 1..size : w[k] = IF k > 0 /\ k <= 0 + n THEN t[k - 0] ELSE p[k]
    <3>1. t \in Seq(Int) /\ 0 + Len(t) <= Len(p)
      BY <2>1, <2>2, <2>3, LetterType DEF n
    <3> QED BY <2>3, <3>1, 0 \in Nat, WriteOf DEF n
  <2> HIDE DEF w
  <2>6. y \in BUFFER /\ y.ptr = w /\ y.s = size
    BY <2>2, <2>5 DEF BUFFER
  <2> HIDE DEF y
  <2>7. \A k \in 1..n : y.ptr[k] = t[k]
    <3> TAKE k \in 1..n
    <3>1. k \in 1..size /\ k > 0 /\ k <= 0 + n /\ k - 0 = k
      BY <2>1, <2>2
    <3> QED BY <2>5, <2>6, <3>1
  <2>8. n = Len(t) /\ n + 1 <= y.s /\ n + 2 <= y.s /\ Len(y.ptr) = y.s
    BY <2>1, <2>2, <2>5, <2>6 DEF n
  <2>9. Keeps(EndedAt(y, n), t)
    BY <2>6, <2>7, <2>8, EndedKeeps
  <2> QED BY <2>4, <2>9
<1> QED BY <1>1, <1>2

LEMMA KeepsCharacters ==
    ASSUME NEW x, NEW t, Keeps(x, t)
    PROVE  Characters(x) = t
<1> DEFINE n == Len(t)
<1>1. /\ n \in Nat /\ x.stringlen = n /\ n <= Len(x.ptr) /\ t \in Seq(Letters)
      /\ \A k \in 1..n : x.ptr[k] = t[k]
  BY KeepsType
<1>2. t = [k \in 1..n |-> t[k]]
  BY <1>1
<1>3. SubSeq(x.ptr, 1, n) = [k \in 1..n |-> x.ptr[k]]
  BY <1>1
<1>4. [k \in 1..n |-> x.ptr[k]] = [k \in 1..n |-> t[k]]
  BY <1>1
<1> QED BY <1>1, <1>2, <1>3, <1>4 DEF Characters

TextOf(x, y) == x \o y

LEMMA TextOfType ==
    ASSUME NEW x \in Seq(Letters), NEW y \in Seq(Letters)
    PROVE  /\ TextOf(x, y) \in Seq(Letters)
           /\ Len(TextOf(x, y)) = Len(x) + Len(y) /\ Len(x) \in Nat /\ Len(y) \in Nat
           /\ \A k \in Nat \ {0} : k <= Len(x) => TextOf(x, y)[k] = x[k]
           /\ \A k \in Nat \ {0} :
                 k > Len(x) /\ k <= Len(x) + Len(y) => TextOf(x, y)[k] = y[k - Len(x)]
<1> DEFINE t == TextOf(x, y)
<1>1. Len(x) \in Nat /\ Len(y) \in Nat
  OBVIOUS
<1>2. /\ t \in Seq(Letters) /\ Len(t) = Len(x) + Len(y)
      /\ \A k \in 1..(Len(x) + Len(y)) : t[k] = IF k <= Len(x) THEN x[k] ELSE y[k - Len(x)]
  BY ConcatProperties, Zenon DEF TextOf
<1> HIDE DEF t
<1>3. ASSUME NEW k \in Nat \ {0}, k <= Len(x) PROVE t[k] = x[k]
  <2>1. k \in 1..(Len(x) + Len(y))
    BY <1>1, <1>3
  <2> QED BY <1>2, <1>3, <2>1
<1>4. ASSUME NEW k \in Nat \ {0}, k > Len(x), k <= Len(x) + Len(y) PROVE t[k] = y[k - Len(x)]
  <2>1. k \in 1..(Len(x) + Len(y)) /\ ~(k <= Len(x))
    BY <1>1, <1>4
  <2> QED BY <1>2, <2>1
<1> QED BY <1>1, <1>2, <1>3, <1>4 DEF t

LEMMA ResizedOf ==
    ASSUME NEW x, NEW t, Keeps(x, t), NEW size \in Nat, size >= x.s, NEW g, g = resized(x, size)
    PROVE  /\ g \in BUFFER /\ g.ptr \in Seq(Int) /\ Len(g.ptr) = size /\ g.s = size
           /\ g.stringlen = Len(t)
           /\ \A k \in 1..x.s : g.ptr[k] = x.ptr[k]
<1> DEFINE d == size - x.s
           z == Times(Junk, d)
           p == x.ptr \o z
<1>1. /\ x \in BUFFER /\ x.ptr \in Seq(Int) /\ x.s \in Nat /\ x.stringlen = Len(t)
      /\ Len(x.ptr) = x.s /\ Len(t) \in Nat
  BY KeepsType
<1>2. d \in Nat /\ Junk \in Int
  BY <1>1 DEF Junk
<1>3. z \in Seq(Int) /\ Len(z) = d
  BY <1>2, TimesOf
<1>4. g = [x EXCEPT !.s = size, !.ptr = p]
  BY <1>1 DEF resized, BUFFER
<1> HIDE DEF z
<1>5. /\ p \in Seq(Int) /\ Len(p) = Len(x.ptr) + Len(z)
      /\ \A k \in 1..(Len(x.ptr) + Len(z)) :
            p[k] = IF k <= Len(x.ptr) THEN x.ptr[k] ELSE z[k - Len(x.ptr)]
  <2> DEFINE q == x.ptr
  <2>1. q \in Seq(Int) /\ z \in Seq(Int)
    BY <1>1, <1>3
  <2> HIDE DEF q
  <2>2. /\ q \o z \in Seq(Int) /\ Len(q \o z) = Len(q) + Len(z)
        /\ \A k \in 1..(Len(q) + Len(z)) : (q \o z)[k] = IF k <= Len(q) THEN q[k] ELSE z[k - Len(q)]
    BY <2>1, ConcatProperties, Zenon
  <2> QED BY <2>2, Zenon DEF q
<1> HIDE DEF p
<1>6. Len(p) = size /\ \A k \in 1..x.s : p[k] = x.ptr[k]
  <2>1. \A k \in 1..x.s : k \in 1..(Len(x.ptr) + Len(z)) /\ k <= Len(x.ptr)
    BY <1>1, <1>2, <1>3
  <2> QED BY <1>1, <1>2, <1>3, <1>5, <2>1
<1> QED BY <1>1, <1>4, <1>5, <1>6 DEF BUFFER

LEMMA GrownOf ==
    ASSUME NEW x, NEW t, Keeps(x, t), NEW n \in Nat, NEW g, g = grown(x, n)
    PROVE  /\ g \in BUFFER /\ g.ptr \in Seq(Int) /\ Len(g.ptr) = g.s /\ g.s \in Nat
           /\ g.stringlen = Len(t) /\ g.s >= Len(t) + n + 2 /\ g.s >= x.s
           /\ \A k \in 1..x.s : g.ptr[k] = x.ptr[k]
<1> DEFINE o == n + x.stringlen + 1
           z == (o \div InitialBuffersize + 1) * InitialBuffersize
<1>1. /\ x \in BUFFER /\ x.ptr \in Seq(Int) /\ x.s \in Nat /\ x.stringlen = Len(t)
      /\ Len(x.ptr) = x.s /\ Len(t) \in Nat
  BY KeepsType
<1>2. o \in Nat /\ o = Len(t) + n + 1
  BY <1>1
<1>3. z \in Nat /\ z >= o + 1
  BY <1>2, RoundedUp
<1>4. g = IF o < x.s THEN x ELSE resized(x, z + Slack)
  BY DEF grown
<1> HIDE DEF z, o
<1>5. CASE o < x.s
  BY <1>1, <1>2, <1>4, <1>5
<1>6. CASE o >= x.s
  <2>1. z + Slack \in Nat /\ z + Slack >= x.s /\ z + Slack >= Len(t) + n + 2
    BY <1>1, <1>2, <1>3, <1>6, StringAssumption
  <2>2. g = resized(x, z + Slack)
    BY <1>1, <1>2, <1>4, <1>6
  <2> DEFINE size == z + Slack
  <2> HIDE DEF size
  <2>3. /\ g \in BUFFER /\ g.ptr \in Seq(Int) /\ Len(g.ptr) = size /\ g.s = size
        /\ g.stringlen = Len(t) /\ \A k \in 1..x.s : g.ptr[k] = x.ptr[k]
    BY <2>1, <2>2, ResizedOf DEF size
  <2> QED BY <2>1, <2>3 DEF size
<1> QED BY <1>1, <1>2, <1>5, <1>6

LEMMA AppendKeeps ==
    ASSUME NEW x, NEW t, Keeps(x, t), NEW b \in Seq(Letters)
    PROVE  Keeps(append(x, b), TextOf(t, b))
<1> DEFINE n == Len(b)
           m == Len(t)
           g == grown(x, n)
           w == Write(g.ptr, m, b)
           y == [g EXCEPT !.ptr = w]
           u == TextOf(t, b)
<1>1. /\ x \in BUFFER /\ x.s \in Nat /\ x.stringlen = m /\ m \in Nat /\ Len(x.ptr) = x.s
      /\ m <= x.s /\ t \in Seq(Letters) /\ \A k \in 1..m : x.ptr[k] = t[k]
  BY KeepsType
<1>2. n \in Nat /\ b \in Seq(Int)
  BY LetterType
<1>3. CASE x.ptr = <<>>
  <2>1. m = 0 /\ u = b
    <3>1. m = 0
      BY <1>1, <1>3
    <3>2. t = <<>>
      BY <1>1, <3>1
    <3> QED BY <3>1, <3>2 DEF TextOf
  <2>2. append(x, b) = setText(x, b)
    BY <1>3 DEF append
  <2> QED BY <1>1, <2>1, <2>2, SetKeeps
<1>4. CASE x.ptr # <<>>
  <2>1. /\ g \in BUFFER /\ g.ptr \in Seq(Int) /\ Len(g.ptr) = g.s /\ g.s \in Nat
        /\ g.stringlen = m /\ g.s >= m + n + 2 /\ g.s >= x.s
        /\ \A k \in 1..x.s : g.ptr[k] = x.ptr[k]
    BY <1>2, GrownOf
  <2>2. append(x, b) = EndedAt(y, m + n)
    BY <1>1, <1>4, <2>1 DEF append, BUFFER
  <2> HIDE DEF g
  <2>3. /\ w \in Seq(Int) /\ Len(w) = g.s
        /\ \A k \in 1..g.s : w[k] = IF k > m /\ k <= m + n THEN b[k - m] ELSE g.ptr[k]
    <3> DEFINE p == g.ptr
    <3>1. p \in Seq(Int) /\ m \in Nat /\ m + Len(b) <= Len(p)
      BY <1>1, <1>2, <2>1
    <3> HIDE DEF p
    <3>2. /\ Write(p, m, b) \in Seq(Int) /\ Len(Write(p, m, b)) = Len(p)
          /\ \A k \in 1..Len(p) :
                Write(p, m, b)[k] = IF k > m /\ k <= m + Len(b) THEN b[k - m] ELSE p[k]
      BY <1>2, <3>1, WriteOf
    <3> QED BY <2>1, <3>2 DEF p
  <2> HIDE DEF w
  <2>4. y \in BUFFER /\ y.ptr = w /\ y.s = g.s
    BY <2>1, <2>3 DEF BUFFER
  <2>5. /\ u \in Seq(Letters) /\ Len(u) = m + n
        /\ \A k \in Nat \ {0} : k <= m => u[k] = t[k]
        /\ \A k \in Nat \ {0} : k > m /\ k <= m + n => u[k] = b[k - m]
    BY <1>1, TextOfType
  <2> HIDE DEF y, u
  <2>6. ASSUME NEW k \in 1..(m + n) PROVE y.ptr[k] = u[k]
    <3>1. k \in Nat \ {0} /\ k \in 1..g.s
      BY <1>1, <1>2, <2>1
    <3>2. CASE k <= m
      <4>1. k \in 1..x.s /\ k \in 1..m /\ ~(k > m)
        BY <1>1, <3>1, <3>2
      <4> QED BY <1>1, <2>1, <2>3, <2>4, <2>5, <3>1, <3>2, <4>1
    <3>3. CASE k > m
      BY <2>3, <2>4, <2>5, <3>1, <3>3
    <3> QED BY <1>1, <3>1, <3>2, <3>3
  <2> DEFINE l == m + n
  <2>7. l = Len(u) /\ l + 1 <= y.s /\ l + 2 <= y.s /\ Len(y.ptr) = y.s
    BY <1>1, <1>2, <2>1, <2>3, <2>4, <2>5
  <2> HIDE DEF l
  <2>8. Keeps(EndedAt(y, l), u)
    BY <2>4, <2>5, <2>6, <2>7, EndedKeeps DEF l
  <2> QED BY <2>2, <2>8 DEF l, u
<1> QED BY <1>3, <1>4

LEMMA PrependKeeps ==
    ASSUME NEW x, NEW t, Keeps(x, t), NEW b \in Seq(Letters)
    PROVE  Keeps(prepend(x, b), TextOf(b, t))
<1> DEFINE n == Len(b)
           m == Len(t)
           g == grown(x, n)
           v == memmove(g.ptr, n, 0, m)
           w == Write(v, 0, b)
           y == [g EXCEPT !.ptr = w]
           u == TextOf(b, t)
<1>1. /\ x \in BUFFER /\ x.s \in Nat /\ x.stringlen = m /\ m \in Nat /\ Len(x.ptr) = x.s
      /\ m <= x.s /\ t \in Seq(Letters) /\ \A k \in 1..m : x.ptr[k] = t[k]
  BY KeepsType
<1>2. n \in Nat /\ b \in Seq(Int)
  BY LetterType
<1>3. CASE x.ptr = <<>>
  <2>1. m = 0 /\ u = b
    <3>1. m = 0
      BY <1>1, <1>3
    <3>2. t = <<>>
      BY <1>1, <3>1
    <3> QED BY <3>1, <3>2 DEF TextOf
  <2>2. prepend(x, b) = setText(x, b)
    BY <1>3 DEF prepend
  <2> QED BY <1>1, <2>1, <2>2, SetKeeps
<1>4. CASE x.ptr # <<>>
  <2>1. /\ g \in BUFFER /\ g.ptr \in Seq(Int) /\ Len(g.ptr) = g.s /\ g.s \in Nat
        /\ g.stringlen = m /\ g.s >= m + n + 2 /\ g.s >= x.s
        /\ \A k \in 1..x.s : g.ptr[k] = x.ptr[k]
    BY <1>2, GrownOf
  <2>2. prepend(x, b) = EndedAt(y, m + n)
    BY <1>1, <1>4, <2>1 DEF prepend, BUFFER
  <2> HIDE DEF g
  <2>3. /\ v \in Seq(Int) /\ Len(v) = g.s
        /\ \A k \in 1..g.s : v[k] = IF k > n /\ k <= n + m THEN g.ptr[k - n + 0] ELSE g.ptr[k]
    <3> DEFINE p == g.ptr
    <3>1. p \in Seq(Int) /\ n + m <= Len(p) /\ 0 + m <= Len(p) /\ 0 \in Nat /\ Len(p) = g.s
      BY <1>1, <1>2, <2>1
    <3> HIDE DEF p, n, m
    <3>2. /\ memmove(p, n, 0, m) \in Seq(Int) /\ Len(memmove(p, n, 0, m)) = Len(p)
          /\ \A k \in 1..Len(p) :
                memmove(p, n, 0, m)[k] = IF k > n /\ k <= n + m THEN p[k - n + 0] ELSE p[k]
      BY <1>1, <1>2, <3>1, MemmoveOf
    <3> QED BY <3>1, <3>2 DEF p
  <2> HIDE DEF v
  <2>4. /\ w \in Seq(Int) /\ Len(w) = g.s
        /\ \A k \in 1..g.s : w[k] = IF k > 0 /\ k <= 0 + n THEN b[k - 0] ELSE v[k]
    <3>1. 0 + Len(b) <= Len(v) /\ 0 \in Nat
      BY <1>1, <1>2, <2>1, <2>3
    <3>2. /\ w \in Seq(Int) /\ Len(w) = Len(v)
          /\ \A k \in 1..Len(v) : w[k] = IF k > 0 /\ k <= 0 + Len(b) THEN b[k - 0] ELSE v[k]
      BY <1>2, <2>3, <3>1, WriteOf
    <3> QED BY <2>3, <3>2
  <2> HIDE DEF w
  <2>5. y \in BUFFER /\ y.ptr = w /\ y.s = g.s
    BY <2>1, <2>4 DEF BUFFER
  <2>6. /\ u \in Seq(Letters) /\ Len(u) = n + m
        /\ \A k \in Nat \ {0} : k <= n => u[k] = b[k]
        /\ \A k \in Nat \ {0} : k > n /\ k <= n + m => u[k] = t[k - n]
    BY <1>1, TextOfType
  <2> HIDE DEF y, u
  <2>7. ASSUME NEW k \in 1..(m + n) PROVE y.ptr[k] = u[k]
    <3>1. k \in Nat \ {0} /\ k \in 1..g.s
      BY <1>1, <1>2, <2>1
    <3>2. CASE k <= n
      <4>1. k > 0 /\ k <= 0 + n /\ k - 0 = k
        BY <1>2, <3>1, <3>2
      <4> QED BY <2>4, <2>5, <2>6, <3>1, <3>2, <4>1
    <3>3. CASE k > n
      <4>1. /\ ~(k <= 0 + n) /\ k <= n + m /\ k - n + 0 = k - n /\ k - n \in 1..m
            /\ k - n \in 1..x.s
        BY <1>1, <1>2, <3>1, <3>3
      <4>2. y.ptr[k] = g.ptr[k - n]
        BY <2>3, <2>4, <2>5, <3>1, <3>3, <4>1
      <4>3. g.ptr[k - n] = t[k - n]
        BY <1>1, <2>1, <4>1
      <4> QED BY <2>6, <3>1, <3>3, <4>1, <4>2, <4>3
    <3> QED BY <1>2, <3>1, <3>2, <3>3
  <2> DEFINE l == m + n
  <2>8. l = Len(u) /\ l + 1 <= y.s /\ l + 2 <= y.s /\ Len(y.ptr) = y.s
    BY <1>1, <1>2, <2>1, <2>4, <2>5, <2>6
  <2> HIDE DEF l
  <2>9. Keeps(EndedAt(y, l), u)
    BY <2>5, <2>6, <2>7, <2>8, EndedKeeps DEF l
  <2> QED BY <2>2, <2>9 DEF l, u
<1> QED BY <1>3, <1>4

LEMMA ReserveKeeps ==
    ASSUME NEW x, NEW t, Keeps(x, t), NEW size \in Nat
    PROVE  Keeps(reserveBytes(x, size), t)
<1> DEFINE g == resized(x, size + 1)
<1>1. /\ x \in BUFFER /\ x.s \in Nat /\ Len(x.ptr) = x.s /\ t \in Seq(Letters) /\ Len(t) \in Nat
      /\ Len(t) <= x.s /\ \A k \in 1..Len(t) : x.ptr[k] = t[k]
      /\ Len(t) > 0 => Len(t) + 2 <= x.s /\ x.ptr[Len(t) + 1] = 0
  BY KeepsType
<1>2. CASE x.s >= size + 1
  BY <1>2 DEF reserveBytes
<1>3. CASE ~(x.s >= size + 1)
  <2>1. size + 1 \in Nat /\ size + 1 >= x.s
    BY <1>1, <1>3
  <2>2. /\ g \in BUFFER /\ Len(g.ptr) = size + 1 /\ g.s = size + 1 /\ g.stringlen = Len(t)
        /\ \A k \in 1..x.s : g.ptr[k] = x.ptr[k]
    BY <2>1, ResizedOf
  <2> HIDE DEF g
  <2>3. \A k \in 1..Len(t) : k \in 1..x.s
    BY <1>1
  <2>4. Len(t) > 0 => Len(t) + 1 \in 1..x.s /\ Len(t) + 2 <= size + 1
    BY <1>1, <2>1
  <2>5. Keeps(g, t)
    BY <1>1, <2>2, <2>3, <2>4 DEF Keeps
  <2> QED BY <1>3, <2>5 DEF reserveBytes, g
<1> QED BY <1>2, <1>3

\* A letter in the middle
LEMMA LetterKeeps ==
    ASSUME NEW x, NEW t, Keeps(x, t), NEW i \in 0..(Len(t) - 1), NEW c \in Letters
    PROVE  Keeps([x EXCEPT !.ptr = Write(@, i, <<c>>)], [t EXCEPT ![i + 1] = c])
<1> DEFINE b == <<c>>
           w == Write(x.ptr, i, b)
           y == [x EXCEPT !.ptr = w]
           u == [t EXCEPT ![i + 1] = c]
           n == Len(t)
<1>1. /\ x \in BUFFER /\ x.ptr \in Seq(Int) /\ x.s \in Nat /\ Len(x.ptr) = x.s
      /\ t \in Seq(Letters) /\ n \in Nat /\ n <= x.s /\ \A k \in 1..n : x.ptr[k] = t[k]
      /\ n > 0 => n + 2 <= x.s /\ x.ptr[n + 1] = 0
      /\ x.stringlen = n
  BY KeepsType
<1>2. i \in Nat /\ i + 1 \in 1..n /\ n > 0
  BY <1>1
<1>3. b \in Seq(Int) /\ Len(b) = 1 /\ b[1] = c
  BY StringAssumption
<1> HIDE DEF b
<1>4. /\ w \in Seq(Int) /\ Len(w) = x.s
      /\ \A k \in 1..x.s : w[k] = IF k > i /\ k <= i + 1 THEN b[k - i] ELSE x.ptr[k]
  <2> DEFINE p == x.ptr
  <2>1. p \in Seq(Int) /\ Len(p) = x.s /\ i + Len(b) <= Len(p)
    BY <1>1, <1>2, <1>3
  <2> HIDE DEF p
  <2>2. /\ Write(p, i, b) \in Seq(Int) /\ Len(Write(p, i, b)) = Len(p)
        /\ \A k \in 1..Len(p) :
              Write(p, i, b)[k] = IF k > i /\ k <= i + Len(b) THEN b[k - i] ELSE p[k]
    BY <1>2, <1>3, <2>1, WriteOf
  <2> QED BY <1>3, <2>1, <2>2 DEF p
<1> HIDE DEF w
<1>5. y \in BUFFER /\ y.ptr = w /\ y.s = x.s /\ y.stringlen = n
  BY <1>1, <1>4 DEF BUFFER
<1>6. /\ u \in Seq(Letters) /\ Len(u) = n
      /\ \A k \in 1..n : u[k] = IF k = i + 1 THEN c ELSE t[k]
  BY <1>1, <1>2
<1> HIDE DEF y, u, n
<1>7. ASSUME NEW k \in 1..n PROVE w[k] = u[k]
  <2>1. k \in 1..x.s /\ (k > i /\ k <= i + 1 <=> k = i + 1) /\ (i + 1) - i = 1
    <3>1. n \in Nat /\ n <= x.s /\ x.s \in Nat /\ i \in Nat
      BY <1>1, <1>2
    <3> QED BY <3>1
  <2>2. CASE k = i + 1
    BY <1>3, <1>4, <1>6, <2>1, <2>2
  <2>3. CASE k # i + 1
    BY <1>1, <1>4, <1>6, <2>1, <2>3
  <2> QED BY <2>2, <2>3
<1>8. w[n + 1] = 0
  <2>1. n + 1 \in 1..x.s /\ ~(n + 1 <= i + 1)
    BY <1>1, <1>2
  <2> QED BY <1>1, <1>2, <1>4, <2>1
<1>9. Keeps(y, u)
  BY <1>1, <1>2, <1>4, <1>5, <1>6, <1>7, <1>8 DEF Keeps
<1>10. [x EXCEPT !.ptr = Write(@, i, <<c>>)] = y
  BY <1>1 DEF BUFFER, y, w, b
<1> QED BY <1>9, <1>10 DEF u

-----------------------------------------------------------------------------
(* String: parts                                                           *)

LEMMA SameText ==
    ASSUME NEW u \in Seq(Letters), NEW v \in Seq(Letters), Len(u) = Len(v),
           \A k \in 1..Len(u) : u[k] = v[k]
    PROVE  u = v
<1>1. u = [k \in 1..Len(u) |-> u[k]] /\ v = [k \in 1..Len(v) |-> v[k]]
  OBVIOUS
<1>2. [k \in 1..Len(u) |-> u[k]] = [k \in 1..Len(v) |-> v[k]]
  OBVIOUS
<1> QED BY <1>1, <1>2

LEMMA SubOf ==
    ASSUME NEW t \in Seq(Letters), NEW m \in Nat \ {0}, NEW n \in Int, n <= Len(t)
    PROVE  /\ SubSeq(t, m, n) \in Seq(Letters)
           /\ Len(SubSeq(t, m, n)) = IF m <= n THEN n - m + 1 ELSE 0
           /\ \A k \in Nat \ {0} : k <= n - m + 1 => SubSeq(t, m, n)[k] = t[m + k - 1]
<1>1. \A k \in m..n : t[k] \in Letters
  OBVIOUS
<1>2. /\ SubSeq(t, m, n) \in Seq(Letters)
      /\ Len(SubSeq(t, m, n)) = IF m <= n THEN n - m + 1 ELSE 0
      /\ \A k \in 1..(n - m + 1) : SubSeq(t, m, n)[k] = t[m + k - 1]
  BY <1>1, SubSeqProperties, m \in Int
<1>3. \A k \in Nat \ {0} : k <= n - m + 1 => k \in 1..(n - m + 1)
  OBVIOUS
<1> QED BY <1>2, <1>3

LEMMA NoLetters ==
    ASSUME NEW u \in Seq(Letters), Len(u) = 0
    PROVE  u = <<>>
OBVIOUS

\* What the documentation calls the letters on the left, on the right and between
LeftText(t, n)  == [k \in 1..Min({n, Len(t)}) |-> t[k]]
RightText(t, n) == Reverse([k \in 1..Min({n, Len(t)}) |-> Reverse(t)[k]])
MidText(t, start, n) ==
    [k \in 1..(IF start > Len(t) THEN 0 ELSE Min({n, Len(t) - start})) |-> t[start + k]]

LEMMA LeftOf ==
    ASSUME NEW x, NEW t, Keeps(x, t), NEW n \in Nat
    PROVE  left(x, n) \in Seq(Letters) /\ left(x, n) = LeftText(t, n)
<1> DEFINE m == Min({n, Len(t)})
<1>1. t \in Seq(Letters) /\ Len(t) \in Nat /\ x.stringlen = Len(t) /\ Characters(x) = t
  BY KeepsType, KeepsCharacters
<1>2. m \in Nat /\ m <= Len(t)
  <2>1. m = IF n <= Len(t) THEN n ELSE Len(t)
    BY <1>1, SmallestOf
  <2> QED BY <1>1, <2>1
<1>3. left(x, n) = SubSeq(t, 1, m)
  BY <1>1 DEF left
<1> HIDE DEF m
<1>4. SubSeq(t, 1, m) \in Seq(Letters) /\ SubSeq(t, 1, m) = [k \in 1..m |-> t[k]]
  BY <1>1, <1>2
<1> QED BY <1>3, <1>4 DEF m, LeftText

LEMMA ReverseText ==
    ASSUME NEW t \in Seq(Letters)
    PROVE  /\ Reverse(t) \in Seq(Letters) /\ Len(Reverse(t)) = Len(t)
           /\ \A k \in 1..Len(t) : Reverse(t)[k] = t[Len(t) - k + 1]
<1> DEFINE n == Len(t)
           r == [k \in 1..n |-> t[n - k + 1]]
<1>1. n \in Nat /\ \A k \in 1..n : t[k] \in Letters
  OBVIOUS
<1>2. \A k \in 1..n : n - k + 1 \in 1..n
  BY <1>1
<1>3. r \in [1..n -> Letters]
  BY <1>1, <1>2
<1>4. Reverse(t) = r
  BY DEF Reverse
<1>5. \A k \in 1..n : r[k] = t[n - k + 1]
  OBVIOUS
<1> HIDE DEF r, n
<1>6. r \in Seq(Letters) /\ Len(r) = n
  BY <1>1, <1>3
<1> QED BY <1>4, <1>5, <1>6 DEF n

LEMMA RightOf ==
    ASSUME NEW x, NEW t, Keeps(x, t), NEW n \in Nat
    PROVE  right(x, n) \in Seq(Letters) /\ right(x, n) = RightText(t, n)
<1> DEFINE m == Min({n, Len(t)})
           l == Len(t)
           v == [k \in 1..m |-> Reverse(t)[k]]
           u == SubSeq(t, l - m + 1, l)
<1>1. t \in Seq(Letters) /\ l \in Nat /\ x.stringlen = l /\ Characters(x) = t
  BY KeepsType, KeepsCharacters
<1>2. m \in Nat /\ m <= l
  <2>1. m = IF n <= l THEN n ELSE l
    BY <1>1, SmallestOf
  <2> QED BY <1>1, <2>1
<1>3. right(x, n) = u
  BY <1>1 DEF right
<1> HIDE DEF m
<1>4. /\ Reverse(t) \in Seq(Letters) /\ Len(Reverse(t)) = l
      /\ \A k \in 1..l : Reverse(t)[k] = t[l - k + 1]
  BY <1>1, ReverseText
<1>5. /\ v \in Seq(Letters) /\ Len(v) = m /\ \A k \in 1..m : v[k] = t[l - k + 1]
  <2>1. \A k \in 1..m : k \in 1..l
    BY <1>1, <1>2
  <2>2. \A k \in 1..l : Reverse(t)[k] \in Letters
    BY <1>4
  <2>3. v \in [1..m -> Letters] /\ \A k \in 1..m : v[k] = t[l - k + 1]
    BY <1>4, <2>1, <2>2
  <2> HIDE DEF v
  <2> QED BY <1>2, <2>3
<1> HIDE DEF v
<1>6. /\ Reverse(v) \in Seq(Letters) /\ Len(Reverse(v)) = m
      /\ \A k \in 1..m : Reverse(v)[k] = v[m - k + 1]
  BY <1>5, ReverseText
<1>7. /\ u \in Seq(Letters) /\ Len(u) = m
      /\ \A k \in Nat \ {0} : k <= m => u[k] = t[l - m + k]
  <2> DEFINE j == l - m + 1
  <2>1. j \in Nat \ {0} /\ l \in Int /\ l <= Len(t)
    BY <1>1, <1>2
  <2> HIDE DEF j
  <2>2. /\ SubSeq(t, j, l) \in Seq(Letters)
        /\ Len(SubSeq(t, j, l)) = IF j <= l THEN l - j + 1 ELSE 0
        /\ \A k \in Nat \ {0} : k <= l - j + 1 => SubSeq(t, j, l)[k] = t[j + k - 1]
    BY <1>1, <2>1, SubOf
  <2>3. l - j + 1 = m /\ (~(j <= l) => m = 0)
    BY <1>1, <1>2 DEF j
  <2>4. \A k \in Nat \ {0} : j + k - 1 = l - m + k
    BY <1>1, <1>2 DEF j
  <2>5. u = SubSeq(t, j, l)
    BY DEF j
  <2> HIDE DEF u, l
  <2> QED BY <2>2, <2>3, <2>4, <2>5
<1> HIDE DEF u
<1>8. \A k \in 1..m : u[k] = Reverse(v)[k]
  <2> TAKE k \in 1..m
  <2>1. k \in Nat \ {0} /\ k <= m /\ m - k + 1 \in 1..m /\ l - (m - k + 1) + 1 = l - m + k
    BY <1>1, <1>2
  <2> QED BY <1>5, <1>6, <1>7, <2>1
<1>9. u = Reverse(v)
  BY <1>6, <1>7, <1>8, SameText
<1> QED BY <1>3, <1>7, <1>9 DEF v, m, RightText

LEMMA MidOf ==
    ASSUME NEW x, NEW t, Keeps(x, t), NEW start \in Nat, NEW n \in Nat
    PROVE  mid(x, start, n) \in Seq(Letters) /\ mid(x, start, n) = MidText(t, start, n)
<1> DEFINE l == Len(t)
           m == IF start > l THEN 0 ELSE Min({n, l - start})
           u == mid(x, start, n)
           v == [k \in 1..m |-> t[start + k]]
<1>1. t \in Seq(Letters) /\ l \in Nat /\ x.stringlen = l /\ Characters(x) = t
  BY KeepsType, KeepsCharacters
<1>2. m = IF start > l THEN 0 ELSE IF n <= l - start THEN n ELSE l - start
  <2>1. start <= l => l - start \in Int
    BY <1>1
  <2>2. start <= l => Min({n, l - start}) = IF n <= l - start THEN n ELSE l - start
    BY <2>1, SmallestOf
  <2> QED BY <1>1, <2>2
<1>3. m \in Nat /\ (m > 0 => start + m <= l)
  BY <1>1, <1>2
<1>4. Min({start + n, l}) = IF start + n <= l THEN start + n ELSE l
  <2>1. start + n \in Int /\ l \in Int
    BY <1>1
  <2> QED BY <2>1, SmallestOf
<1> HIDE DEF m
<1>5. v \in Seq(Letters) /\ Len(v) = m /\ \A k \in 1..m : v[k] = t[start + k]
  <2>1. \A k \in 1..m : start + k \in 1..l
    BY <1>1, <1>3
  <2>2. \A k \in 1..l : t[k] \in Letters
    BY <1>1
  <2>3. v \in [1..m -> Letters] /\ \A k \in 1..m : v[k] = t[start + k]
    BY <2>1, <2>2
  <2> HIDE DEF v
  <2> QED BY <1>3, <2>3
<1>6. u \in Seq(Letters) /\ Len(u) = m /\ \A k \in 1..m : u[k] = t[start + k]
  <2>1. CASE start >= l
    <3>1. u = <<>> /\ m = 0
      BY <1>1, <1>2, <2>1 DEF mid
    <3> HIDE DEF u
    <3> QED BY <3>1
  <2>2. CASE start < l
    <3> DEFINE j == start + 1
               e == IF start + n <= l THEN start + n ELSE l
    <3>0. ~(start >= x.stringlen) /\ Min({start + n, x.stringlen}) = e
      BY <1>1, <1>4, <2>2
    <3>1. u = SubSeq(t, j, e)
      BY <1>1, <3>0 DEF mid
    <3>2. j \in Nat \ {0} /\ e \in Int /\ e <= Len(t) /\ e - j + 1 = m /\ (~(j <= e) => m = 0)
      BY <1>1, <1>2, <2>2
    <3> HIDE DEF e, j, u
    <3>3. /\ SubSeq(t, j, e) \in Seq(Letters)
          /\ Len(SubSeq(t, j, e)) = IF j <= e THEN e - j + 1 ELSE 0
          /\ \A k \in Nat \ {0} : k <= e - j + 1 => SubSeq(t, j, e)[k] = t[j + k - 1]
      BY <1>1, <3>2, SubOf
    <3>4. \A k \in 1..m : k \in Nat \ {0} /\ k <= m /\ j + k - 1 = start + k
      BY <1>3 DEF j
    <3> HIDE DEF l
    <3> QED BY <3>1, <3>2, <3>3, <3>4
  <2> QED BY <1>1, <2>1, <2>2
<1> HIDE DEF u, v
<1>7. u = v
  BY <1>5, <1>6, SameText
<1> QED BY <1>6, <1>7 DEF u, v, m, MidText

\* A text that ends earlier
LEMMA ShortenedKeeps ==
    ASSUME NEW x, NEW t, Keeps(x, t), Len(t) > 0, NEW n \in 0..Len(t)
    PROVE  Keeps(EndedAt(x, n), SubSeq(t, 1, n))
<1> DEFINE u == SubSeq(t, 1, n)
<1>1. /\ x \in BUFFER /\ Len(x.ptr) = x.s /\ x.s \in Nat /\ t \in Seq(Letters) /\ Len(t) \in Nat
      /\ Len(t) + 2 <= x.s /\ \A k \in 1..Len(t) : x.ptr[k] = t[k]
  BY KeepsType
<1>2. n \in Nat /\ n <= Len(t) /\ n \in Int /\ 1 \in Nat \ {0}
  BY <1>1
<1>3. /\ u \in Seq(Letters) /\ Len(u) = (IF 1 <= n THEN n - 1 + 1 ELSE 0)
      /\ \A k \in Nat \ {0} : k <= n - 1 + 1 => u[k] = t[1 + k - 1]
  BY <1>1, <1>2, SubOf
<1> HIDE DEF u
<1>4. Len(u) = n /\ \A k \in 1..n : x.ptr[k] = u[k]
  <2>1. \A k \in 1..n : k \in Nat \ {0} /\ k <= n - 1 + 1 /\ 1 + k - 1 = k /\ k \in 1..Len(t)
    BY <1>2
  <2> QED BY <1>1, <1>2, <1>3, <2>1
<1>5. n + 1 <= x.s /\ n + 2 <= x.s
  BY <1>1, <1>2
<1>6. Keeps(EndedAt(x, n), u)
  BY <1>1, <1>3, <1>4, <1>5, EndedKeeps
<1> QED BY <1>6 DEF u

LEMMA MinOf ==
    ASSUME NEW S \in SUBSET Nat, S # {}
    PROVE  Min(S) \in S /\ \A y \in S : Min(S) <= y
<1>1. \E m \in S : \A y \in S : m <= y
  BY Least
<1> QED BY <1>1 DEF Min

LEMMA MaxOf ==
    ASSUME NEW n \in Nat, NEW S \in SUBSET (0..n), S # {}
    PROVE  Max(S) \in S /\ \A y \in S : Max(S) >= y
<1> DEFINE T == {n - k : k \in S}
<1>1. T \in SUBSET Nat /\ T # {}
  <2>1. \A k \in S : n - k \in Nat
    OBVIOUS
  <2>2. PICK k \in S : TRUE
    OBVIOUS
  <2> QED BY <2>1, <2>2
<1>2. PICK m \in T : \A y \in T : m <= y
  <2> HIDE DEF T
  <2> QED BY <1>1, Least
<1>3. PICK k \in S : m = n - k
  BY <1>2
<1>4. \A y \in S : k >= y
  <2> TAKE y \in S
  <2>1. n - y \in T /\ y \in Int /\ k \in Int
    BY <1>3
  <2>2. m <= n - y
    BY <1>2, <2>1
  <2> QED BY <1>3, <2>1, <2>2
<1> QED BY <1>3, <1>4 DEF Max

\* A text whose zero was written, and whose length is counted
LEMMA CountedKeeps ==
    ASSUME NEW x \in BUFFER, NEW p \in Seq(Int), Len(p) = x.s, NEW u \in Seq(Letters),
           NEW n, n = Len(u), n + 2 <= x.s,
           \A k \in 1..n : p[k] = u[k], p[n + 1] = 0
    PROVE  Keeps(EndedByZero(x, p), u)
<1> DEFINE y == EndedByZero(x, p)
<1>1. n \in Nat /\ x.s \in Nat /\ \A k \in 1..n : u[k] # 0
  BY LetterType DEF BUFFER
<1>2. strlen(p) = n
  <2>1. n + 1 <= Len(p) /\ \A k \in 1..n : p[k] # 0
    BY <1>1
  <2> QED BY <1>1, <2>1, StrlenOf
<1>3. y = [x EXCEPT !.ptr = p, !.stringlen = n]
  BY <1>2 DEF EndedByZero
<1>4. y \in BUFFER /\ y.ptr = p /\ y.s = x.s /\ y.stringlen = n
  BY <1>1, <1>3 DEF BUFFER
<1> HIDE DEF y
<1>5. Keeps(y, u)
  BY <1>1, <1>4 DEF Keeps
<1> QED BY <1>5 DEF y

\* The part of a text that begins behind i and ends with j
LEMMA PartOf ==
    ASSUME NEW t \in Seq(Letters), NEW i \in Nat, NEW j \in Nat, i <= j, j <= Len(t)
    PROVE  /\ SubSeq(t, i + 1, j) \in Seq(Letters) /\ Len(SubSeq(t, i + 1, j)) = j - i
           /\ \A k \in 1..(j - i) : SubSeq(t, i + 1, j)[k] = t[i + k]
<1> DEFINE m == i + 1
<1>1. m \in Nat \ {0} /\ j \in Int
  OBVIOUS
<1> HIDE DEF m
<1>2. /\ SubSeq(t, m, j) \in Seq(Letters)
      /\ Len(SubSeq(t, m, j)) = IF m <= j THEN j - m + 1 ELSE 0
      /\ \A k \in Nat \ {0} : k <= j - m + 1 => SubSeq(t, m, j)[k] = t[m + k - 1]
  BY <1>1, SubOf
<1>3. /\ (IF m <= j THEN j - m + 1 ELSE 0) = j - i
      /\ \A k \in 1..(j - i) : k \in Nat \ {0} /\ k <= j - m + 1 /\ m + k - 1 = i + k
  BY DEF m
<1>4. Len(SubSeq(t, m, j)) = j - i /\ \A k \in 1..(j - i) : SubSeq(t, m, j)[k] = t[i + k]
  BY <1>2, <1>3
<1> QED BY <1>2, <1>4 DEF m

LEMMA NoPart ==
    ASSUME NEW t \in Seq(Letters), NEW i \in Nat \ {0}, NEW j \in Int, j < i, j <= Len(t)
    PROVE  SubSeq(t, i, j) = <<>>
<1>1. SubSeq(t, i, j) \in Seq(Letters) /\ Len(SubSeq(t, i, j)) = 0
  BY SubOf
<1> QED BY <1>1, NoLetters

LEMMA WholePart ==
    ASSUME NEW t \in Seq(Letters)
    PROVE  SubSeq(t, 1, Len(t)) = t
<1>1. /\ SubSeq(t, 0 + 1, Len(t)) \in Seq(Letters) /\ Len(SubSeq(t, 0 + 1, Len(t))) = Len(t) - 0
      /\ \A k \in 1..(Len(t) - 0) : SubSeq(t, 0 + 1, Len(t))[k] = t[0 + k]
  BY PartOf, 0 \in Nat
<1>2. Len(t) - 0 = Len(t) /\ 0 + 1 = 1 /\ \A k \in 1..Len(t) : 0 + k = k
  OBVIOUS
<1>3. /\ SubSeq(t, 1, Len(t)) \in Seq(Letters) /\ Len(SubSeq(t, 1, Len(t))) = Len(t)
      /\ \A k \in 1..Len(t) : SubSeq(t, 1, Len(t))[k] = t[k]
  BY <1>1, <1>2
<1> QED BY <1>3, SameText

LEMMA ChopKeeps ==
    ASSUME NEW x, NEW t, Keeps(x, t), NEW n \in Nat
    PROVE  Keeps(chop(x, n), SubSeq(t, 1, Len(t) - n))
<1> DEFINE l == Len(t)
           m == l - Min({n, l})
<1>1. l \in Nat /\ x.stringlen = l /\ t \in Seq(Letters)
  BY KeepsType
<1>2. CASE l = 0
  <2>1. t = <<>> /\ SubSeq(t, 1, l - n) = <<>>
    BY <1>1, <1>2, NoLetters, NoPart
  <2> QED BY <1>1, <1>2, <2>1 DEF chop
<1>3. CASE l > 0
  <2>1. Min({n, l}) = IF n <= l THEN n ELSE l
    BY <1>1, SmallestOf
  <2>2. m \in 0..l
    BY <1>1, <2>1
  <2>3. SubSeq(t, 1, l - n) = SubSeq(t, 1, m)
    <3>1. CASE n <= l
      BY <2>1, <3>1
    <3>2. CASE n > l
      <4>1. m = 0 /\ l - n \in Int /\ l - n < 1 /\ l - n <= l /\ 1 \in Nat \ {0} /\ 0 \in Int /\ 0 <= l
        BY <1>1, <2>1, <3>2
      <4>2. SubSeq(t, 1, l - n) = <<>>
        BY <1>1, <4>1, NoPart
      <4>3. SubSeq(t, 1, 0) = <<>>
        BY <1>1, <4>1, NoPart
      <4> QED BY <4>1, <4>2, <4>3
    <3>3. n <= l \/ n > l
      BY <1>1
    <3> HIDE DEF m, l
    <3> QED BY <3>1, <3>2, <3>3
  <2>4. chop(x, n) = EndedAt(x, m)
    BY <1>1, <1>3 DEF chop
  <2> HIDE DEF m
  <2> QED BY <1>3, <2>2, <2>3, <2>4, ShortenedKeeps
<1> QED BY <1>1, <1>2, <1>3

LEMMA ChopLeftKeeps ==
    ASSUME NEW x, NEW t, Keeps(x, t), NEW n \in Nat
    PROVE  Keeps(chopLeft(x, n), SubSeq(t, n + 1, Len(t)))
<1> DEFINE l == Len(t)
           m == Min({n, l})
           r == l - m
           w == memmove(x.ptr, 0, m, r)
           y == [x EXCEPT !.ptr = w]
           u == SubSeq(t, m + 1, l)
<1>1. /\ l \in Nat /\ x.stringlen = l /\ t \in Seq(Letters) /\ x \in BUFFER /\ x.ptr \in Seq(Int)
      /\ Len(x.ptr) = x.s /\ x.s \in Nat /\ \A k \in 1..l : x.ptr[k] = t[k]
      /\ l > 0 => l + 2 <= x.s
  BY KeepsType
<1>2. m = IF n <= l THEN n ELSE l
  <2>1. l \in Int /\ n \in Int
    BY <1>1
  <2> HIDE DEF l
  <2>2. Min({n, l}) = IF n <= l THEN n ELSE l
    BY <2>1, SmallestOf
  <2> QED BY <2>2
<1>3. m \in Nat /\ m <= l /\ r \in Nat /\ r + m = l
  BY <1>1, <1>2
<1>4. SubSeq(t, n + 1, l) = u
  <2>1. CASE n <= l
    BY <1>2, <2>1
  <2>2. CASE n > l
    <3>1. SubSeq(t, n + 1, l) = <<>> /\ SubSeq(t, l + 1, l) = <<>>
      BY <1>1, <2>2, NoPart
    <3> QED BY <1>2, <2>2, <3>1
  <2>3. n <= l \/ n > l
    BY <1>1
  <2> HIDE DEF m, l, u
  <2> QED BY <2>1, <2>2, <2>3
<1> HIDE DEF m
<1>5. CASE l = 0
  <2>1. t = <<>> /\ u = <<>>
    BY <1>1, <1>3, <1>5, NoLetters, NoPart
  <2> QED BY <1>1, <1>4, <1>5, <2>1 DEF chopLeft
<1>6. CASE l > 0
  <2>1. chopLeft(x, n) = EndedAt(y, r)
    BY <1>1, <1>6 DEF chopLeft, m, BUFFER
  <2>2. /\ w \in Seq(Int) /\ Len(w) = x.s
        /\ \A k \in 1..x.s : w[k] = IF k > 0 /\ k <= 0 + r THEN x.ptr[k - 0 + m] ELSE x.ptr[k]
    <3> DEFINE p == x.ptr
    <3>1. p \in Seq(Int) /\ 0 + r <= Len(p) /\ m + r <= Len(p) /\ 0 \in Nat /\ Len(p) = x.s
      BY <1>1, <1>3, <1>6
    <3> HIDE DEF p, r
    <3>2. /\ memmove(p, 0, m, r) \in Seq(Int) /\ Len(memmove(p, 0, m, r)) = Len(p)
          /\ \A k \in 1..Len(p) :
                memmove(p, 0, m, r)[k] = IF k > 0 /\ k <= 0 + r THEN p[k - 0 + m] ELSE p[k]
      BY <1>3, <3>1, MemmoveOf
    <3> QED BY <3>1, <3>2 DEF p
  <2> HIDE DEF w
  <2>3. y \in BUFFER /\ y.ptr = w /\ y.s = x.s
    BY <1>1, <2>2 DEF BUFFER
  <2>4. u \in Seq(Letters) /\ Len(u) = r /\ \A k \in 1..r : u[k] = t[m + k]
    <3>1. l <= Len(t)
      BY <1>1
    <3> HIDE DEF l
    <3> QED BY <1>1, <1>3, <3>1, PartOf
  <2> HIDE DEF y, u, r
  <2>5. ASSUME NEW k \in 1..r PROVE y.ptr[k] = u[k]
    <3>1. k \in Nat /\ k > 0 /\ k <= r /\ r \in Nat
      BY <1>3, <2>5
    <3>2. k - 0 + m = m + k /\ k <= 0 + r /\ m + k \in 1..l /\ k <= l
      <4>1. r + m = l /\ m \in Nat /\ l \in Nat
        BY <1>1, <1>3
      <4> HIDE DEF l
      <4> QED BY <3>1, <4>1
    <3>3. k \in 1..x.s
      <4>1. l <= x.s /\ l \in Nat /\ x.s \in Nat
        BY <1>1, <1>6
      <4> HIDE DEF l
      <4> QED BY <3>1, <3>2, <4>1
    <3>4. w[k] = x.ptr[m + k]
      BY <2>2, <3>1, <3>2, <3>3
    <3>5. x.ptr[m + k] = t[m + k]
      BY <1>1, <3>2
    <3> QED BY <2>3, <2>4, <3>4, <3>5
  <2>6. r + 1 <= y.s /\ r + 2 <= y.s /\ Len(y.ptr) = y.s
    BY <1>1, <1>3, <1>6, <2>2, <2>3
  <2>7. Keeps(EndedAt(y, r), u)
    BY <2>3, <2>4, <2>5, <2>6, EndedKeeps
  <2> QED BY <1>4, <2>1, <2>7
<1> QED BY <1>1, <1>5, <1>6

LEMMA CutKeeps ==
    ASSUME NEW x, NEW t, Keeps(x, t), NEW n \in Nat
    PROVE  Keeps(cut(x, n), IF n > Len(t) THEN t ELSE SubSeq(t, 1, n))
<1>1. Len(t) \in Nat /\ x.stringlen = Len(t) /\ t \in Seq(Letters)
  BY KeepsType
<1>2. CASE n > Len(t)
  BY <1>1, <1>2 DEF cut
<1>3. CASE n <= Len(t) /\ Len(t) = 0
  <2>1. t = <<>> /\ SubSeq(t, 1, n) = <<>>
    BY <1>1, <1>3, NoLetters, NoPart
  <2> QED BY <1>1, <1>3, <2>1 DEF cut
<1>4. CASE n <= Len(t) /\ Len(t) > 0
  <2>1. cut(x, n) = EndedAt(x, n)
    BY <1>1, <1>4 DEF cut
  <2>2. n \in 0..Len(t)
    BY <1>1, <1>4
  <2> QED BY <1>1, <1>4, <2>1, <2>2, ShortenedKeeps
<1> QED BY <1>1, <1>2, <1>3, <1>4

-----------------------------------------------------------------------------
(* String: trim                                                            *)

\* What is cut off a text on the left, and on the right
LeftEnd(t, cutset, i) ==
    /\ i \in 0..Len(t) /\ \A k \in 1..i : t[k] \in cutset
    /\ i < Len(t) => t[i + 1] \notin cutset
RightEnd(t, cutset, j) ==
    /\ j \in 0..Len(t) /\ \A k \in 1..Len(t) : k > j => t[k] \in cutset
    /\ j > 0 => t[j] \notin cutset

LEMMA LeftEnds ==
    ASSUME NEW t \in Seq(Letters), NEW cutset
    PROVE  \E i : LeftEnd(t, cutset, i)
<1> DEFINE l == Len(t)
           S == {k \in 0..l : k < l => t[k + 1] \notin cutset}
<1>1. l \in Nat /\ l \in S
  OBVIOUS
<1>2. PICK i \in S : \A y \in S : i <= y
  <2> S \in SUBSET Nat
    OBVIOUS
  <2> HIDE DEF S
  <2> QED BY <1>1, Least
<1>3. \A k \in 1..i : t[k] \in cutset
  <2> TAKE k \in 1..i
  <2>1. i \in 0..l
    BY <1>2
  <2>2. k - 1 \in 0..l /\ k - 1 < l /\ (k - 1) + 1 = k /\ ~(i <= k - 1)
    BY <1>1, <2>1
  <2>3. k - 1 \notin S
    BY <1>2, <2>2
  <2> QED BY <2>2, <2>3
<1> QED BY <1>2, <1>3 DEF LeftEnd

LEMMA RightEnds ==
    ASSUME NEW t \in Seq(Letters), NEW cutset
    PROVE  \E j : RightEnd(t, cutset, j)
<1> DEFINE l == Len(t)
           S == {0} \cup {k \in 1..l : t[k] \notin cutset}
           j == Max(S)
<1>1. l \in Nat /\ 0 \in S /\ S \in SUBSET (0..l)
  OBVIOUS
<1>2. j \in S /\ \A y \in S : j >= y
  <2> HIDE DEF S
  <2> QED BY <1>1, MaxOf
<1>3. \A k \in 1..l : k > j => t[k] \in cutset
  <2> TAKE k \in 1..l
  <2>1. k > j => k \notin S
    <3>1. j \in 0..l
      BY <1>1, <1>2
    <3> HIDE DEF S, j
    <3> QED BY <1>2, <3>1
  <2> HIDE DEF j
  <2> QED BY <2>1
<1>4. j \in 0..l /\ (j > 0 => t[j] \notin cutset)
  <2> HIDE DEF j
  <2> QED BY <1>1, <1>2
<1> HIDE DEF j
<1> QED BY <1>3, <1>4 DEF RightEnd

LEMMA CutLeftOf ==
    ASSUME NEW t \in Seq(Letters), NEW cutset, NEW i, LeftEnd(t, cutset, i)
    PROVE  CutLeft(t, cutset) = SubSeq(t, i + 1, Len(t))
<1> DEFINE l == Len(t)
           S == {k \in 1..(l + 1) : k <= l => t[k] \notin cutset}
<1>1. l \in Nat /\ i \in 0..l /\ \A k \in 1..i : t[k] \in cutset
  BY DEF LeftEnd
<1>2. i + 1 \in S
  <2>1. i + 1 \in 1..(l + 1) /\ (i + 1 <= l => i < l)
    BY <1>1
  <2> QED BY <2>1 DEF LeftEnd
<1>3. \A k \in S : i + 1 <= k /\ k \in Nat
  <2> TAKE k \in S
  <2>1. k \in 1..(l + 1) /\ (k <= l => t[k] \notin cutset)
    OBVIOUS
  <2>2. k \notin 1..i
    BY <1>1, <2>1
  <2> HIDE DEF l
  <2> QED BY <1>1, <2>1, <2>2
<1>4. CutLeft(t, cutset) = SubSeq(t, Min(S), l)
  BY DEF CutLeft
<1> HIDE DEF S
<1>5. Min(S) = i + 1
  <2>1. Min(S) \in S /\ \A y \in S : Min(S) <= y
    <3> S \in SUBSET Nat /\ S # {}
      BY <1>2, <1>3
    <3> QED BY MinOf
  <2>2. Min(S) <= i + 1 /\ i + 1 <= Min(S) /\ Min(S) \in Nat
    BY <1>2, <1>3, <2>1
  <2> QED BY <1>1, <2>2
<1> QED BY <1>4, <1>5

LEMMA CutRightOf ==
    ASSUME NEW t \in Seq(Letters), NEW cutset, NEW j, RightEnd(t, cutset, j)
    PROVE  CutRight(t, cutset) = SubSeq(t, 1, j)
<1> DEFINE l == Len(t)
           S == {0} \cup {k \in 1..l : t[k] \notin cutset}
<1>1. l \in Nat /\ j \in 0..l /\ \A k \in 1..l : k > j => t[k] \in cutset
  BY DEF RightEnd
<1>2. j \in S
  <2>1. j = 0 \/ (j > 0 /\ j \in 1..l)
    BY <1>1
  <2> QED BY <2>1 DEF RightEnd
<1>3. \A k \in S : k <= j /\ k \in 0..l
  <2> TAKE k \in S
  <2>1. k = 0 \/ (k \in 1..l /\ t[k] \notin cutset)
    OBVIOUS
  <2> HIDE DEF l
  <2> QED BY <1>1, <2>1
<1>4. CutRight(t, cutset) = SubSeq(t, 1, Max(S))
  <2>1. DOMAIN t = 1..l
    OBVIOUS
  <2> QED BY <2>1 DEF CutRight
<1> HIDE DEF S
<1>5. Max(S) = j
  <2>1. Max(S) \in S /\ \A y \in S : Max(S) >= y
    <3>1. S \in SUBSET (0..l) /\ S # {}
      BY <1>2, <1>3
    <3> HIDE DEF l
    <3> QED BY <1>1, <3>1, MaxOf
  <2>2. Max(S) <= j /\ Max(S) >= j /\ Max(S) \in 0..l
    BY <1>2, <1>3, <2>1
  <2> QED BY <1>1, <2>2
<1> QED BY <1>4, <1>5

\* A text cut on both sides, in whichever order
LEMMA CutBothOf ==
    ASSUME NEW t \in Seq(Letters), NEW cutset, NEW i, LeftEnd(t, cutset, i),
           NEW j, RightEnd(t, cutset, j)
    PROVE  /\ j > 0 => i < j
           /\ CutLeft(CutRight(t, cutset), cutset) = IF j = 0 THEN <<>> ELSE SubSeq(t, i + 1, j)
           /\ CutRight(CutLeft(t, cutset), cutset) = IF j = 0 THEN <<>> ELSE SubSeq(t, i + 1, j)
<1> DEFINE l == Len(t)
           p == SubSeq(t, i + 1, l)
           q == SubSeq(t, 1, j)
           r == SubSeq(t, i + 1, j)
<1>1. /\ l \in Nat /\ i \in 0..l /\ \A k \in 1..i : t[k] \in cutset
      /\ i < l => t[i + 1] \notin cutset
  BY DEF LeftEnd
<1>2. /\ j \in 0..l /\ \A k \in 1..l : k > j => t[k] \in cutset
      /\ j > 0 => t[j] \notin cutset
  BY DEF RightEnd
<1>3. CutLeft(t, cutset) = p /\ CutRight(t, cutset) = q
  BY CutLeftOf, CutRightOf
<1>4. p \in Seq(Letters) /\ Len(p) = l - i /\ \A k \in 1..(l - i) : p[k] = t[i + k]
  <2>1. i \in Nat /\ l \in Nat /\ i <= l /\ l <= Len(t)
    BY <1>1
  <2> HIDE DEF l
  <2> QED BY <2>1, PartOf
<1>5. q \in Seq(Letters) /\ Len(q) = j /\ \A k \in 1..j : q[k] = t[k]
  <2>1. j \in Nat /\ 0 \in Nat /\ 0 <= j /\ j <= Len(t) /\ 0 + 1 = 1 /\ j - 0 = j
    BY <1>1, <1>2
  <2>2. /\ SubSeq(t, 0 + 1, j) \in Seq(Letters) /\ Len(SubSeq(t, 0 + 1, j)) = j - 0
        /\ \A k \in 1..(j - 0) : SubSeq(t, 0 + 1, j)[k] = t[0 + k]
    BY <2>1, PartOf
  <2>3. \A k \in 1..j : 0 + k = k
    OBVIOUS
  <2> QED BY <2>1, <2>2, <2>3
<1>6. CASE j = 0
  <2>1. i = l
    <3>1. i < l => i + 1 \in 1..l /\ i + 1 > j
      BY <1>1, <1>6
    <3> QED BY <1>1, <1>2, <3>1
  <2>2. p = <<>> /\ q = <<>>
    <3> HIDE DEF p, q
    <3> QED BY <1>1, <1>4, <1>5, <1>6, <2>1, NoLetters
  <2>3. CutLeft(<<>>, cutset) = <<>> /\ CutRight(<<>>, cutset) = <<>>
    <3> DEFINE e == <<>>
    <3>1. e \in Seq(Letters) /\ Len(e) = 0
      OBVIOUS
    <3> HIDE DEF e
    <3>2. LeftEnd(e, cutset, 0) /\ RightEnd(e, cutset, 0)
      BY <3>1 DEF LeftEnd, RightEnd
    <3>3. CutLeft(e, cutset) = SubSeq(e, 0 + 1, 0) /\ CutRight(e, cutset) = SubSeq(e, 1, 0)
      BY <3>1, <3>2, CutLeftOf, CutRightOf
    <3>4. SubSeq(e, 1, 0) = <<>>
      BY <3>1, NoPart
    <3> QED BY <3>3, <3>4 DEF e
  <2>4. CutLeft(q, cutset) = <<>> /\ CutRight(p, cutset) = <<>> /\ ~(j > 0)
    <3> HIDE DEF p, q
    <3> QED BY <1>6, <2>2, <2>3
  <2> HIDE DEF p, q
  <2> QED BY <1>3, <1>6, <2>4
<1>7. CASE j > 0
  <2>1. i < j
    <3>1. j \in 1..l /\ j \notin 1..i
      BY <1>1, <1>2, <1>7
    <3> QED BY <1>1, <3>1
  <2>2. r \in Seq(Letters) /\ Len(r) = j - i /\ \A k \in 1..(j - i) : r[k] = t[i + k]
    <3>1. i \in Nat /\ j \in Nat /\ i <= j /\ j <= Len(t)
      BY <1>1, <1>2, <2>1
    <3> QED BY <3>1, PartOf
  <2>3. LeftEnd(q, cutset, i)
    <3>1. \A k \in 1..i : k \in 1..j
      BY <1>1, <1>2, <2>1
    <3>2. i + 1 \in 1..j /\ i < l /\ i \in 0..j
      BY <1>1, <1>2, <2>1
    <3> HIDE DEF q
    <3> QED BY <1>1, <1>5, <3>1, <3>2 DEF LeftEnd
  <2>4. RightEnd(p, cutset, j - i)
    <3>1. j - i \in 1..(l - i) /\ j - i \in 0..(l - i) /\ i + (j - i) = j
      BY <1>1, <1>2, <2>1
    <3>2. ASSUME NEW k \in 1..(l - i), k > j - i PROVE p[k] \in cutset
      <4>1. i + k \in 1..l /\ i + k > j
        BY <1>1, <1>2, <3>2
      <4> HIDE DEF p, l
      <4> QED BY <1>2, <1>4, <4>1
    <3> HIDE DEF p, l
    <3> QED BY <1>2, <1>4, <1>7, <3>1, <3>2 DEF RightEnd
  <2>5. CutLeft(q, cutset) = SubSeq(q, i + 1, j)
    <3> HIDE DEF q
    <3> QED BY <1>5, <2>3, CutLeftOf
  <2>6. CutRight(p, cutset) = SubSeq(p, 1, j - i)
    <3> HIDE DEF p
    <3> QED BY <1>4, <2>4, CutRightOf
  <2>7. SubSeq(q, i + 1, j) = r
    <3> HIDE DEF q, r
    <3>1. i \in Nat /\ j \in Nat /\ i <= j /\ j <= Len(q)
      BY <1>1, <1>2, <1>5, <2>1
    <3> DEFINE z == SubSeq(q, i + 1, j)
    <3>2. z \in Seq(Letters) /\ Len(z) = j - i /\ \A k \in 1..(j - i) : z[k] = q[i + k]
      BY <1>5, <3>1, PartOf
    <3> HIDE DEF z
    <3>3. \A k \in 1..(j - i) : i + k \in 1..j
      BY <3>1
    <3>4. z = r
      BY <1>5, <2>2, <3>2, <3>3, SameText
    <3> QED BY <3>4 DEF z
  <2>8. SubSeq(p, 1, j - i) = r
    <3> HIDE DEF p, r
    <3> DEFINE m == j - i
    <3>1. m \in Nat /\ 0 \in Nat /\ 0 <= m /\ m <= Len(p) /\ 0 + 1 = 1 /\ m - 0 = m
      BY <1>1, <1>2, <1>4, <2>1
    <3>2. \A k \in 1..m : 0 + k = k /\ k \in 1..(l - i)
      BY <1>1, <1>2, <2>1
    <3> HIDE DEF m
    <3>3. /\ SubSeq(p, 0 + 1, m) \in Seq(Letters) /\ Len(SubSeq(p, 0 + 1, m)) = m - 0
          /\ \A k \in 1..(m - 0) : SubSeq(p, 0 + 1, m)[k] = p[0 + k]
      BY <1>4, <3>1, PartOf
    <3> DEFINE z == SubSeq(p, 1, m)
    <3>4. z \in Seq(Letters) /\ Len(z) = m /\ \A k \in 1..m : z[k] = t[i + k]
      BY <1>4, <3>1, <3>2, <3>3
    <3> HIDE DEF z
    <3>5. z = r
      BY <2>2, <3>4, SameText DEF m
    <3> QED BY <3>5 DEF z, m
  <2>9. CutLeft(q, cutset) = r /\ CutRight(p, cutset) = r /\ j # 0
    <3> HIDE DEF p, q, r
    <3> QED BY <1>2, <1>7, <2>5, <2>6, <2>7, <2>8
  <2> HIDE DEF p, q
  <2> QED BY <1>3, <2>1, <2>9
<1> QED BY <1>2, <1>6, <1>7

LEMMA LeadingOf ==
    ASSUME NEW x, NEW t, Keeps(x, t), NEW cutset
    PROVE  LeftEnd(t, cutset, leading(x, cutset))
<1> DEFINE l == Len(t)
           S == {k \in 0..l : k = l \/ x.ptr[k + 1] \notin cutset}
           i == Min(S)
<1>1. l \in Nat /\ x.stringlen = l /\ \A k \in 1..l : x.ptr[k] = t[k]
  BY KeepsType
<1>2. i \in S /\ \A y \in S : i <= y
  <2>1. S \in SUBSET Nat /\ l \in S
    BY <1>1
  <2> HIDE DEF S
  <2> QED BY <2>1, MinOf
<1>3. leading(x, cutset) = i
  BY <1>1 DEF leading
<1>4. i \in 0..l /\ (i < l => t[i + 1] \notin cutset)
  <2>1. i \in 0..l /\ (i = l \/ x.ptr[i + 1] \notin cutset)
    BY <1>2
  <2> HIDE DEF i, l
  <2> QED BY <1>1, <2>1
<1>5. \A k \in 1..i : t[k] \in cutset
  <2> TAKE k \in 1..i
  <2> HIDE DEF i
  <2>1. k - 1 \in 0..l /\ k - 1 # l /\ (k - 1) + 1 = k /\ ~(i <= k - 1) /\ k \in 1..l
    BY <1>1, <1>4
  <2>2. k - 1 \notin S
    BY <1>2, <2>1
  <2> HIDE DEF l
  <2> QED BY <1>1, <2>1, <2>2
<1> HIDE DEF i
<1> QED BY <1>3, <1>4, <1>5 DEF LeftEnd

LEMMA RemainingOf ==
    ASSUME NEW x, NEW t, Keeps(x, t), NEW cutset
    PROVE  RightEnd(t, cutset, remaining(x, cutset))
<1> DEFINE l == Len(t)
           S == {0} \cup {k \in 1..l : x.ptr[k] \notin cutset}
           j == Max(S)
<1>1. l \in Nat /\ x.stringlen = l /\ \A k \in 1..l : x.ptr[k] = t[k]
  BY KeepsType
<1>2. j \in S /\ \A y \in S : j >= y
  <2>1. S \in SUBSET (0..l) /\ 0 \in S
    BY <1>1
  <2> HIDE DEF S
  <2> QED BY <1>1, <2>1, MaxOf
<1>3. remaining(x, cutset) = j
  BY <1>1 DEF remaining
<1> HIDE DEF j
<1>4. j \in 0..l /\ (j > 0 => t[j] \notin cutset)
  <2>1. j = 0 \/ (j \in 1..l /\ x.ptr[j] \notin cutset)
    BY <1>2
  <2> HIDE DEF l
  <2> QED BY <1>1, <2>1
<1>5. \A k \in 1..l : k > j => t[k] \in cutset
  <2> TAKE k \in 1..l
  <2>1. k > j => k \notin S
    <3> HIDE DEF S
    <3> QED BY <1>1, <1>2, <1>4
  <2> HIDE DEF l
  <2> QED BY <1>1, <2>1
<1> QED BY <1>3, <1>4, <1>5 DEF RightEnd

LEMMA TrimLeftKeeps ==
    ASSUME NEW x, NEW t, Keeps(x, t), NEW cutset
    PROVE  Keeps(trimLeft(x, cutset), CutLeft(t, cutset))
<1> DEFINE l == Len(t)
           i == leading(x, cutset)
           n == l - i + 1
           w == memmove(x.ptr, 0, i, n)
           u == SubSeq(t, i + 1, l)
<1>1. /\ l \in Nat /\ x.stringlen = l /\ t \in Seq(Letters) /\ x \in BUFFER /\ x.ptr \in Seq(Int)
      /\ Len(x.ptr) = x.s /\ x.s \in Nat /\ \A k \in 1..l : x.ptr[k] = t[k]
      /\ l > 0 => l + 2 <= x.s /\ x.ptr[l + 1] = 0
  BY KeepsType
<1>2. LeftEnd(t, cutset, i)
  BY LeadingOf
<1>3. CutLeft(t, cutset) = u /\ i \in Nat /\ i <= l
  <2>1. i \in 0..l
    BY <1>2 DEF LeftEnd
  <2> HIDE DEF i
  <2>2. CutLeft(t, cutset) = SubSeq(t, i + 1, Len(t))
    BY <1>1, <1>2, CutLeftOf
  <2> QED BY <1>1, <2>1, <2>2
<1> HIDE DEF i
<1>4. u \in Seq(Letters) /\ Len(u) = l - i /\ \A k \in 1..(l - i) : u[k] = t[i + k]
  <2>1. l <= Len(t)
    BY <1>1
  <2> HIDE DEF l
  <2> QED BY <1>1, <1>3, <2>1, PartOf
<1>5. CASE l = 0
  <2>1. t = <<>> /\ u = <<>>
    BY <1>1, <1>3, <1>5, NoLetters, NoPart
  <2> QED BY <1>1, <1>3, <1>5, <2>1 DEF trimLeft
<1>6. CASE l > 0
  <2>1. trimLeft(x, cutset) = EndedByZero(x, w)
    BY <1>1, <1>6 DEF trimLeft, i
  <2>2. /\ w \in Seq(Int) /\ Len(w) = x.s
        /\ \A k \in 1..x.s : w[k] = IF k > 0 /\ k <= 0 + n THEN x.ptr[k - 0 + i] ELSE x.ptr[k]
    <3> DEFINE p == x.ptr
    <3>1. /\ p \in Seq(Int) /\ 0 + n <= Len(p) /\ i + n <= Len(p) /\ 0 \in Nat /\ n \in Nat
          /\ Len(p) = x.s
      BY <1>1, <1>3, <1>6
    <3> HIDE DEF p, n
    <3>2. /\ memmove(p, 0, i, n) \in Seq(Int) /\ Len(memmove(p, 0, i, n)) = Len(p)
          /\ \A k \in 1..Len(p) :
                memmove(p, 0, i, n)[k] = IF k > 0 /\ k <= 0 + n THEN p[k - 0 + i] ELSE p[k]
      BY <1>3, <3>1, MemmoveOf
    <3> QED BY <3>1, <3>2 DEF p
  <2> HIDE DEF w, u
  <2>3. ASSUME NEW k \in 1..(l - i) PROVE w[k] = u[k]
    <3>1. k \in Nat /\ k > 0 /\ k <= 0 + n /\ k - 0 + i = i + k /\ i + k \in 1..l /\ k <= l
      <4>1. l \in Nat /\ i \in Nat /\ i <= l
        BY <1>1, <1>3
      <4> HIDE DEF l
      <4> QED BY <4>1
    <3>2. k \in 1..x.s
      <4>1. l <= x.s /\ l \in Nat /\ x.s \in Nat
        BY <1>1, <1>6
      <4> HIDE DEF l
      <4> QED BY <3>1, <4>1
    <3>3. w[k] = x.ptr[i + k]
      BY <2>2, <3>1, <3>2
    <3> QED BY <1>1, <1>4, <3>1, <3>3
  <2>4. w[(l - i) + 1] = 0
    <3> DEFINE k == (l - i) + 1
    <3>1. k \in 1..x.s /\ k > 0 /\ k <= 0 + n /\ k - 0 + i = l + 1
      BY <1>1, <1>3, <1>6
    <3> HIDE DEF k
    <3>2. w[k] = 0
      BY <1>1, <1>6, <2>2, <3>1
    <3> QED BY <3>2 DEF k
  <2> DEFINE m == l - i
  <2>5. m = Len(u) /\ m + 2 <= x.s
    BY <1>1, <1>3, <1>4, <1>6
  <2> HIDE DEF m
  <2>6. Keeps(EndedByZero(x, w), u)
    BY <1>1, <1>4, <2>2, <2>3, <2>4, <2>5, CountedKeeps DEF m
  <2> QED BY <1>3, <2>1, <2>6
<1> QED BY <1>1, <1>5, <1>6

\* The zero that ends a text
LEMMA ZeroWritten ==
    ASSUME NEW p \in Seq(Int), NEW j \in Nat, j + 1 <= Len(p), NEW w, w = Write(p, j, << 0 >>)
    PROVE  /\ w \in Seq(Int) /\ Len(w) = Len(p)
           /\ \A k \in 1..Len(p) : w[k] = IF k = j + 1 THEN 0 ELSE p[k]
<1> DEFINE z == <<0>>
<1>1. z \in Seq(Int) /\ Len(z) = 1 /\ z[1] = 0
  OBVIOUS
<1> HIDE DEF z
<1>2. w = Write(p, j, z) /\ j + Len(z) <= Len(p)
  BY <1>1 DEF z
<1>3. /\ w \in Seq(Int) /\ Len(w) = Len(p)
      /\ \A k \in 1..Len(p) : w[k] = IF k > j /\ k <= j + Len(z) THEN z[k - j] ELSE p[k]
  <2> DEFINE v == Write(p, j, z)
  <2>1. /\ v \in Seq(Int) /\ Len(v) = Len(p)
        /\ \A k \in 1..Len(p) : v[k] = IF k > j /\ k <= j + Len(z) THEN z[k - j] ELSE p[k]
    BY <1>1, <1>2, WriteOf
  <2> HIDE DEF v
  <2> QED BY <1>2, <2>1 DEF v
<1>4. \A k \in 1..Len(p) : (k > j /\ k <= j + Len(z) <=> k = j + 1) /\ (j + 1) - j = 1
  BY <1>1
<1> QED BY <1>1, <1>3, <1>4

LEMMA TrimRightKeeps ==
    ASSUME NEW x, NEW t, Keeps(x, t), NEW cutset
    PROVE  Keeps(trimRight(x, cutset), CutRight(t, cutset))
<1> DEFINE l == Len(t)
           j == remaining(x, cutset)
           w == Write(x.ptr, j, <<0>>)
           u == SubSeq(t, 1, j)
<1>1. /\ l \in Nat /\ x.stringlen = l /\ t \in Seq(Letters) /\ x \in BUFFER /\ x.ptr \in Seq(Int)
      /\ Len(x.ptr) = x.s /\ x.s \in Nat /\ \A k \in 1..l : x.ptr[k] = t[k]
      /\ l > 0 => l + 2 <= x.s
  BY KeepsType
<1>2. RightEnd(t, cutset, j)
  BY RemainingOf
<1>3. CutRight(t, cutset) = u /\ j \in Nat /\ j <= l
  <2>1. j \in 0..l
    BY <1>2 DEF RightEnd
  <2> HIDE DEF j
  <2> QED BY <1>1, <1>2, <2>1, CutRightOf
<1> HIDE DEF j
<1>4. u \in Seq(Letters) /\ Len(u) = j /\ \A k \in 1..j : u[k] = t[k]
  <2>1. 0 \in Nat /\ 0 <= j /\ j <= Len(t) /\ 0 + 1 = 1 /\ j - 0 = j
    BY <1>1, <1>3
  <2>2. /\ SubSeq(t, 0 + 1, j) \in Seq(Letters) /\ Len(SubSeq(t, 0 + 1, j)) = j - 0
        /\ \A k \in 1..(j - 0) : SubSeq(t, 0 + 1, j)[k] = t[0 + k]
    BY <1>1, <1>3, <2>1, PartOf
  <2>3. \A k \in 1..j : 0 + k = k
    OBVIOUS
  <2> QED BY <2>1, <2>2, <2>3
<1>5. CASE l = 0
  <2>1. t = <<>> /\ u = <<>>
    BY <1>1, <1>3, <1>4, <1>5, NoLetters
  <2> QED BY <1>1, <1>3, <1>5, <2>1 DEF trimRight
<1>6. CASE l > 0
  <2>1. trimRight(x, cutset) = EndedByZero(x, w)
    BY <1>1, <1>6 DEF trimRight, j
  <2>2. /\ w \in Seq(Int) /\ Len(w) = x.s
        /\ \A k \in 1..x.s : w[k] = IF k = j + 1 THEN 0 ELSE x.ptr[k]
    <3>1. j + 1 <= Len(x.ptr)
      BY <1>1, <1>3, <1>6
    <3> DEFINE p == x.ptr
    <3> HIDE DEF p
    <3>2. p \in Seq(Int) /\ j + 1 <= Len(p) /\ Len(p) = x.s /\ w = Write(p, j, <<0>>)
      BY <1>1, <3>1 DEF p
    <3> HIDE DEF w
    <3>3. /\ w \in Seq(Int) /\ Len(w) = Len(p)
          /\ \A k \in 1..Len(p) : w[k] = IF k = j + 1 THEN 0 ELSE p[k]
      BY <1>3, <3>2, ZeroWritten
    <3> QED BY <3>2, <3>3 DEF p
  <2> HIDE DEF w, u
  <2>3. ASSUME NEW k \in 1..j PROVE w[k] = u[k]
    <3>1. k \in 1..x.s /\ k # j + 1 /\ k \in 1..l
      BY <1>1, <1>3, <1>6
    <3> QED BY <1>1, <1>4, <2>2, <3>1
  <2>4. w[j + 1] = 0 /\ j = Len(u) /\ j + 2 <= x.s
    <3>1. j + 1 \in 1..x.s /\ j + 2 <= x.s
      BY <1>1, <1>3, <1>6
    <3> QED BY <1>4, <2>2, <3>1
  <2>5. Keeps(EndedByZero(x, w), u)
    BY <1>1, <1>4, <2>2, <2>3, <2>4, CountedKeeps
  <2> QED BY <1>3, <2>1, <2>5
<1> QED BY <1>1, <1>5, <1>6

LEMMA TrimCharsKeeps ==
    ASSUME NEW x, NEW t, Keeps(x, t), NEW cutset
    PROVE  Keeps(trimChars(x, cutset), CutLeft(CutRight(t, cutset), cutset))
<1>1. t \in Seq(Letters)
  BY KeepsType
<1>2. PICK i : LeftEnd(t, cutset, i)
  BY <1>1, LeftEnds
<1>3. PICK j : RightEnd(t, cutset, j)
  BY <1>1, RightEnds
<1>4. CutRight(CutLeft(t, cutset), cutset) = CutLeft(CutRight(t, cutset), cutset)
  BY <1>1, <1>2, <1>3, CutBothOf
<1> DEFINE y == trimLeft(x, cutset)
           u == CutLeft(t, cutset)
<1>5. Keeps(y, u)
  BY TrimLeftKeeps
<1>6. trimChars(x, cutset) = trimRight(y, cutset)
  BY DEF trimChars
<1> HIDE DEF y, u
<1>7. Keeps(trimRight(y, cutset), CutRight(u, cutset))
  BY <1>5, TrimRightKeeps
<1> QED BY <1>4, <1>6, <1>7 DEF u

LEMMA TrimKeeps ==
    ASSUME NEW x, NEW t, Keeps(x, t)
    PROVE  Keeps(trim(x), CutLeft(CutRight(t, {Blank}), {Blank}))
<1> DEFINE c == {Blank}
           l == Len(t)
           i == leading(x, c)
           j == remaining(x, c)
           e == IF j = 0 THEN l ELSE j - 1
           v == Write(x.ptr, e + 1, <<0>>)
           n == e - i + 2
           w == IF i = 0 THEN v ELSE memmove(v, 0, i, n)
           u == CutLeft(CutRight(t, c), c)
<1>1. /\ l \in Nat /\ x.stringlen = l /\ t \in Seq(Letters) /\ x \in BUFFER /\ x.ptr \in Seq(Int)
      /\ Len(x.ptr) = x.s /\ x.s \in Nat /\ \A k \in 1..l : x.ptr[k] = t[k]
      /\ l > 0 => l + 2 <= x.s /\ x.ptr[l + 1] = 0
  BY KeepsType
<1>2. LeftEnd(t, c, i) /\ RightEnd(t, c, j)
  <2> HIDE DEF c
  <2> QED BY LeadingOf, RemainingOf
<1>3. trim(x) = IF l = 0 THEN x ELSE EndedByZero(x, w)
  BY <1>1 DEF trim
<1> HIDE DEF c, i, j
<1>4. (j > 0 => i < j) /\ u = IF j = 0 THEN <<>> ELSE SubSeq(t, i + 1, j)
  BY <1>1, <1>2, CutBothOf
<1> HIDE DEF u
<1>5. i \in 0..l /\ j \in 0..l
  BY <1>2 DEF LeftEnd, RightEnd
<1>6. CASE l = 0
  <2>1. t = <<>> /\ u = <<>>
    BY <1>1, <1>4, <1>5, <1>6, NoLetters
  <2> QED BY <1>3, <1>6, <2>1 DEF u, c
<1>7. CASE l > 0
  <2>1. e + 1 \in Nat /\ e + 2 <= x.s /\ i <= e + 1 /\ e \in Int
    BY <1>1, <1>4, <1>5, <1>7
  <2>2. /\ v \in Seq(Int) /\ Len(v) = x.s
        /\ \A k \in 1..x.s : v[k] = IF k = e + 2 THEN 0 ELSE x.ptr[k]
    <3> DEFINE p == x.ptr
               o == e + 1
    <3>1. v = Write(p, o, <<0>>)
      OBVIOUS
    <3> HIDE DEF e, v
    <3>2. p \in Seq(Int) /\ o \in Nat /\ o + 1 <= Len(p) /\ Len(p) = x.s /\ o + 1 = e + 2
      BY <1>1, <2>1
    <3> HIDE DEF p, o
    <3>3. /\ v \in Seq(Int) /\ Len(v) = Len(p)
          /\ \A k \in 1..Len(p) : v[k] = IF k = o + 1 THEN 0 ELSE p[k]
      <4>1. p \in Seq(Int) /\ o \in Nat /\ o + 1 <= Len(p)
        BY <3>2
      <4> HIDE DEF l, n, w
      <4> QED BY <3>1, <4>1, ZeroWritten
    <3>4. /\ Len(v) = x.s /\ \A k \in 1..x.s : v[k] = IF k = e + 2 THEN 0 ELSE p[k]
      BY <3>2, <3>3
    <3> QED BY <3>3, <3>4 DEF p
  <2> HIDE DEF v
  <2>3. \* What is left begins behind i, also if nothing was in front of it.
        /\ w \in Seq(Int) /\ Len(w) = x.s
        /\ \A k \in 1..x.s : k <= n => w[k] = v[i + k]
    <3>1. CASE i = 0
      <4>1. w = v /\ \A k \in 1..x.s : i + k = k
        BY <3>1
      <4> HIDE DEF w, n
      <4> QED BY <2>2, <4>1
    <3>2. CASE i > 0
      <4>1. w = memmove(v, 0, i, n)
        BY <3>2
      <4> HIDE DEF e
      <4>2. n \in Nat /\ 0 + n <= Len(v) /\ i + n <= Len(v) /\ 0 \in Nat /\ i \in Nat
        BY <1>1, <1>5, <2>1, <2>2
      <4> HIDE DEF w, n
      <4> DEFINE z == memmove(v, 0, i, n)
      <4>5. /\ z \in Seq(Int) /\ Len(z) = Len(v)
            /\ \A k \in 1..Len(v) : z[k] = IF k > 0 /\ k <= 0 + n THEN v[k - 0 + i] ELSE v[k]
        BY <2>2, <4>2, MemmoveOf
      <4> HIDE DEF z
      <4>3. /\ w \in Seq(Int) /\ Len(w) = Len(v)
            /\ \A k \in 1..Len(v) : w[k] = IF k > 0 /\ k <= 0 + n THEN v[k - 0 + i] ELSE v[k]
        BY <4>1, <4>5 DEF z
      <4>4. \A k \in 1..x.s : k <= n => k > 0 /\ k <= 0 + n /\ k - 0 + i = i + k
        BY <4>2
      <4> QED BY <2>2, <4>3, <4>4
    <3> HIDE DEF w, n
    <3> QED BY <1>5, <3>1, <3>2
  <2> HIDE DEF w
  <2>4. CASE j = 0
    <3>1. i = l
      <4>1. i < l => i + 1 \in 1..l /\ i + 1 > j
        BY <1>1, <1>5, <2>4
      <4> QED BY <1>2, <1>5, <4>1 DEF LeftEnd, RightEnd
    <3>2. n = 2 /\ 1 \in 1..x.s /\ 1 <= n /\ i + 1 = l + 1 /\ l + 1 \in 1..x.s /\ l + 1 # e + 2
      BY <1>1, <1>7, <2>4, <3>1
    <3>3. w[1] = 0
      BY <1>1, <1>7, <2>2, <2>3, <3>2
    <3> DEFINE z == <<>>
    <3>4. z \in Seq(Letters) /\ 0 = Len(z) /\ u = z
      BY <1>4, <2>4
    <3> HIDE DEF z
    <3>5. 0 + 2 <= x.s /\ w[0 + 1] = 0 /\ \A k \in 1..0 : w[k] = z[k]
      BY <1>1, <1>7, <3>3
    <3>6. Keeps(EndedByZero(x, w), u)
      BY <1>1, <2>3, <3>4, <3>5, CountedKeeps
    <3> QED BY <1>3, <1>7, <3>6 DEF u, c
  <2>5. CASE j > 0
    <3> DEFINE m == j - i
    <3>1. i \in Nat /\ j \in Nat /\ i <= j /\ j <= Len(t) /\ m \in Nat /\ j # 0 /\ i + m = j
      BY <1>1, <1>4, <1>5, <2>5
    <3>2. u \in Seq(Letters) /\ Len(u) = m /\ \A k \in 1..m : u[k] = t[i + k]
      BY <1>1, <1>4, <3>1, PartOf
    <3>3. n = m + 1 /\ m + 2 <= x.s /\ e + 2 = j + 1
      BY <1>1, <1>5, <1>7, <2>5, <3>1
    <3> HIDE DEF n, e, m, l
    <3>7. j <= l /\ l + 2 <= x.s
      BY <1>1, <1>7, <3>1 DEF l
    <3>8. i \in Nat /\ j \in Nat /\ m \in Nat /\ i + m = j /\ n = m + 1 /\ l \in Nat /\ x.s \in Nat
      BY <1>1, <3>1, <3>3
    <3>4. ASSUME NEW k \in 1..m PROVE w[k] = u[k]
      <4>1. k \in 1..x.s /\ k <= n /\ i + k \in 1..x.s /\ i + k # j + 1 /\ i + k \in 1..l
        BY <3>7, <3>8
      <4>2. w[k] = v[i + k] /\ v[i + k] = x.ptr[i + k]
        BY <2>2, <2>3, <3>3, <4>1
      <4> QED BY <1>1, <3>2, <4>1, <4>2
    <3>5. w[m + 1] = 0
      <4>1. m + 1 \in 1..x.s /\ m + 1 <= n /\ i + (m + 1) = j + 1 /\ j + 1 \in 1..x.s
        BY <3>7, <3>8
      <4>2. w[m + 1] = v[i + (m + 1)]
        BY <2>3, <4>1
      <4> QED BY <2>2, <3>3, <4>1, <4>2
    <3>6. Keeps(EndedByZero(x, w), u)
      BY <1>1, <2>3, <3>2, <3>3, <3>4, <3>5, CountedKeeps
    <3> QED BY <1>3, <1>7, <3>6 DEF u, c
  <2> QED BY <1>5, <2>4, <2>5
<1> QED BY <1>1, <1>6, <1>7

-----------------------------------------------------------------------------
(* String: searching                                                       *)

LEMMA PositionsType ==
    ASSUME NEW t \in Seq(Letters), NEW needle \in Seq(Letters), Len(needle) > 0,
           NEW P, P = Positions(t, needle)
    PROVE  /\ Len(needle) \in Nat /\ Len(t) \in Nat
           /\ P \in SUBSET Nat /\ \A k \in P : k + Len(needle) <= Len(t)
<1>1. Len(needle) \in Nat /\ Len(t) \in Nat
  OBVIOUS
<1>2. \A k \in P : k \in 0..(Len(t) - Len(needle))
  BY DEF Positions
<1> QED BY <1>1, <1>2

LEMMA FirstOne ==
    ASSUME NEW P \in SUBSET Nat, NEW k, k = FirstPosition(P)
    PROVE  /\ k \in Int
           /\ P = {} => k = -1
           /\ P # {} => k \in P /\ k >= 0 /\ \A y \in P : k <= y
<1>1. P # {} => Min(P) \in P /\ \A y \in P : Min(P) <= y
  BY MinOf
<1>2. k = IF P = {} THEN -1 ELSE Min(P)
  BY DEF FirstPosition
<1>3. CASE P = {}
  BY <1>2, <1>3
<1>4. CASE P # {}
  <2>1. k = Min(P)
    BY <1>2, <1>4
  <2>2. k \in P /\ \A y \in P : k <= y
    BY <1>1, <1>4, <2>1
  <2> QED BY <1>4, <2>2
<1> QED BY <1>3, <1>4

LEMMA CountedLength ==
    ASSUME NEW x, NEW t, Keeps(x, t), Len(t) > 0
    PROVE  strlen(x.ptr) = Len(t)
<1> DEFINE n == Len(t)
           p == x.ptr
<1>1. /\ p \in Seq(Int) /\ Len(p) = x.s /\ n \in Nat /\ n + 2 <= x.s /\ p[n + 1] = 0
      /\ t \in Seq(Letters) /\ \A k \in 1..n : p[k] = t[k]
      /\ x.s \in Nat
  BY KeepsType
<1>2. \A k \in 1..n : t[k] # 0
  BY <1>1, LetterType
<1> HIDE DEF n, p
<1>3. n + 1 <= Len(p) /\ \A k \in 1..n : p[k] # 0
  BY <1>1, <1>2
<1>4. strlen(p) = n
  BY <1>1, <1>3, StrlenOf
<1> QED BY <1>4 DEF n, p

\* strstr() on a text that is not empty
LEMMA SearchOf ==
    ASSUME NEW x, NEW t, Keeps(x, t), Len(t) > 0, NEW needle \in Seq(Letters), Len(needle) > 0,
           NEW from \in Nat
    PROVE  strstr(x.ptr, needle, from) = FirstPosition({k \in Positions(t, needle) : k >= from})
<1> DEFINE n == Len(t)
           m == Len(needle)
           P == {k \in Positions(t, needle) : k >= from}
           Q == {k \in from..(n - m) : SubSeq(t, k + 1, k + m) = needle}
<1>1. t \in Seq(Letters) /\ n \in Nat /\ m \in Nat \ {0} /\ x.stringlen = n
  BY KeepsType
<1>2. strlen(x.ptr) = n /\ SubSeq(x.ptr, 1, n) = t
  BY <1>1, CountedLength, KeepsCharacters DEF Characters
<1>3. strstr(x.ptr, needle, from) = IF Q = {} THEN -1 ELSE Min(Q)
  BY <1>2 DEF strstr
<1>4. \A k \in 0..(n - m) :
         SubSeq(t, k + 1, k + m) = needle <=> \A j \in 1..m : t[k + j] = needle[j]
  <2> TAKE k \in 0..(n - m)
  <2> DEFINE e == k + m
             z == SubSeq(t, k + 1, e)
  <2>1. k \in Nat /\ e \in Nat /\ k <= e /\ e <= Len(t) /\ e - k = m
    BY <1>1
  <2> HIDE DEF e
  <2>2. z \in Seq(Letters) /\ Len(z) = e - k /\ \A j \in 1..(e - k) : z[j] = t[k + j]
    BY <1>1, <2>1, PartOf
  <2> HIDE DEF z
  <2>3. (\A j \in 1..m : z[j] = needle[j]) => z = needle
    <3> HIDE DEF m
    <3> SUFFICES ASSUME \A j \in 1..m : z[j] = needle[j] PROVE z = needle
      OBVIOUS
    <3>1. Len(z) = Len(needle) /\ \A j \in 1..Len(z) : z[j] = needle[j]
      BY <2>1, <2>2 DEF m
    <3> QED BY <2>2, <3>1, SameText
  <2>4. z = needle <=> \A j \in 1..m : t[k + j] = needle[j]
    <3> HIDE DEF m
    <3>1. \A j \in 1..m : z[j] = t[k + j]
      BY <2>1, <2>2
    <3> QED BY <2>3, <3>1
  <2> QED BY <2>4 DEF z, e
<1>5. Q = P
  <2>1. \A k : k \in from..(n - m) <=> k \in 0..(n - m) /\ k >= from
    BY <1>1
  <2>2. \A k : k \in Positions(t, needle) <=> k \in 0..(n - m) /\ \A j \in 1..m : t[k + j] = needle[j]
    BY DEF Positions
  <2>3. \A k : k \in Q <=> k \in from..(n - m) /\ SubSeq(t, k + 1, k + m) = needle
    OBVIOUS
  <2>4. \A k : k \in P <=> k \in Positions(t, needle) /\ k >= from
    OBVIOUS
  <2>5. \A k : k \in Q <=> k \in P
    <3> HIDE DEF Q, P, n, m
    <3> QED BY <1>4, <2>1, <2>2, <2>3, <2>4
  <2> HIDE DEF Q, P
  <2> QED BY <2>5
<1> HIDE DEF Q
<1> QED BY <1>3, <1>5 DEF FirstPosition

LEMMA InstrOf ==
    ASSUME NEW x, NEW t, Keeps(x, t), NEW needle \in Seq(Letters), Len(needle) > 0,
           NEW start \in Nat
    PROVE  instr(x, needle, start) = FirstPosition({k \in Positions(t, needle) : k >= start})
<1> DEFINE P == {k \in Positions(t, needle) : k >= start}
<1>1. t \in Seq(Letters) /\ Len(t) \in Nat /\ x.stringlen = Len(t) /\ needle # <<>>
  BY KeepsType
<1>2. CASE start >= Len(t)
  <2>1. P = {}
    <3>1. \A k \in Positions(t, needle) : k \in Nat /\ k + Len(needle) <= Len(t)
      BY <1>1, PositionsType
    <3> QED BY <1>1, <1>2, <3>1
  <2>2. instr(x, needle, start) = -1
    BY <1>1, <1>2 DEF instr
  <2> QED BY <2>1, <2>2 DEF FirstPosition
<1>3. CASE start < Len(t)
  <2>1. Len(t) > 0 /\ ~(start >= Len(t))
    BY <1>1, <1>3
  <2>2. instr(x, needle, start) = strstr(x.ptr, needle, start)
    BY <1>1, <2>1 DEF instr
  <2> QED BY <2>1, <2>2, SearchOf
<1> QED BY <1>1, <1>2, <1>3

LEMMA FindForwards ==
    ASSUME NEW x, NEW t, Keeps(x, t), NEW needle \in Seq(Letters), Len(needle) > 0,
           NEW start \in Nat
    PROVE  find(x, needle, start) = FirstPosition({k \in Positions(t, needle) : k >= start})
<1>1. t \in Seq(Letters) /\ Len(t) \in Nat /\ x.stringlen = Len(t) /\ needle # <<>>
  BY KeepsType
<1>2. find(x, needle, start) = instr(x, needle, start)
  <2>1. start >= 0 /\ ~(Len(t) + start < 0)
    BY <1>1
  <2> QED BY <1>1, <2>1 DEF find, instr
<1> QED BY <1>2, InstrOf

LEMMA HasOf ==
    ASSUME NEW x, NEW t, Keeps(x, t), Len(t) > 0, NEW needle \in Seq(Letters), Len(needle) > 0
    PROVE  has(x, needle) <=> Positions(t, needle) # {}
<1> DEFINE P == Positions(t, needle)
           k == FirstPosition(P)
<1>1. t \in Seq(Letters) /\ x.stringlen = Len(t) /\ needle # <<>>
  BY KeepsType
<1>2. P \in SUBSET Nat
  BY <1>1, PositionsType
<1>3. P = {j \in P : j >= 0}
  <2> HIDE DEF P
  <2>1. \A j \in P : j >= 0
    BY <1>2
  <2> QED BY <2>1, Zenon
<1>4. strstr(x.ptr, needle, 0) = FirstPosition({j \in P : j >= 0})
  BY SearchOf, 0 \in Nat
<1>5. strstr(x.ptr, needle, 0) = k
  BY <1>3, <1>4
<1>6. k \in Int /\ (P = {} => k = -1) /\ (P # {} => k >= 0)
  <2> HIDE DEF P
  <2> QED BY <1>2, FirstOne
<1> HIDE DEF k, P
<1> QED BY <1>1, <1>5, <1>6 DEF has, P

LEMMA CutAtKeeps ==
    ASSUME NEW x, NEW t, Keeps(x, t), NEW needle \in Seq(Letters),
           NEW p, p = FirstPosition(Positions(t, needle))
    PROVE  Keeps(cutAt(x, needle), IF needle = <<>> \/ p = -1 THEN t ELSE SubSeq(t, 1, p))
<1> DEFINE P == Positions(t, needle)
<1>1. CASE needle = <<>>
  BY <1>1 DEF cutAt
<1>2. CASE needle # <<>>
  <2>1. t \in Seq(Letters) /\ Len(t) \in Nat /\ Len(needle) > 0 /\ Len(needle) \in Nat
    BY <1>2, KeepsType, NoLetters
  <2>2. P \in SUBSET Nat /\ \A k \in P : k + Len(needle) <= Len(t)
    BY <2>1, PositionsType
  <2>3. P = {j \in P : j >= 0}
    <3> HIDE DEF P
    <3>1. \A j \in P : j >= 0
      BY <2>2
    <3> QED BY <3>1, Zenon
  <2>4. instr(x, needle, 0) = FirstPosition({j \in P : j >= 0})
    BY <2>1, InstrOf, 0 \in Nat
  <2>5. instr(x, needle, 0) = p
    BY <2>3, <2>4
  <2>6. p \in Int /\ (p = -1 \/ (p \in P /\ p >= 0))
    <3> HIDE DEF P
    <3> QED BY <2>2, FirstOne DEF P
  <2> HIDE DEF P
  <2>7. CASE p = -1
    BY <1>2, <2>5, <2>7 DEF cutAt
  <2>8. CASE p \in P /\ p >= 0
    <3>1. p \in 0..Len(t) /\ Len(t) > 0 /\ ~(p < 0) /\ p # -1
      BY <2>1, <2>2, <2>6, <2>8
    <3>2. cutAt(x, needle) = EndedAt(x, p)
      BY <1>2, <2>5, <3>1 DEF cutAt
    <3> QED BY <1>2, <3>1, <3>2, ShortenedKeeps
  <2> QED BY <2>6, <2>7, <2>8
<1> QED BY <1>1, <1>2

-----------------------------------------------------------------------------
(* String: loops                                                           *)

\* A loop whose turns stay in T has a run ...
LEMMA LoopRun ==
    ASSUME NEW n \in Nat, NEW T, NEW a \in T, NEW g, \A k \in 1..n : \A e \in T : g[<<k, e>>] \in T
    PROVE  \E f : IsRun(f, n, a, g) /\ \A k \in 0..n : f[k] \in T
<1> DEFINE S == [k \in 0..n |-> T]
<1>1. a \in S[0]
  BY 0 \in 0..n
<1>2. \A k \in 1..n : \A b \in S[k - 1] : g[<<k, b>>] \in S[k]
  <2> TAKE k \in 1..n
  <2>1. k \in 0..n /\ k - 1 \in 0..n
    OBVIOUS
  <2>2. S[k - 1] = T /\ S[k] = T
    BY <2>1
  <2> HIDE DEF S
  <2> QED BY <2>2
<1>3. \A k \in 0..n : S[k] = T
  OBVIOUS
<1> HIDE DEF S
<1>4. PICK f : IsRun(f, n, a, g) /\ \A k \in 0..n : f[k] \in S[k]
  BY <1>1, <1>2, LoopRuns
<1> QED BY <1>3, <1>4

\* ... and every run stays in T.
LEMMA LoopStays ==
    ASSUME NEW n \in Nat, NEW T, NEW h, h[0] \in T, \A k \in 1..n : h[k - 1] \in T => h[k] \in T
    PROVE  \A k \in 0..n : h[k] \in T
<1> DEFINE S == [k \in 0..n |-> T]
<1>1. \A k \in 0..n : S[k] = T
  OBVIOUS
<1> HIDE DEF S
<1>2. h[0] \in S[0]
  BY <1>1, 0 \in 0..n
<1>3. \A k \in 1..n : h[k - 1] \in S[k - 1] => h[k] \in S[k]
  <2> TAKE k \in 1..n
  <2>1. k \in 0..n /\ k - 1 \in 0..n
    OBVIOUS
  <2> QED BY <1>1, <2>1
<1>4. \A k \in 0..n : h[k] \in S[k]
  BY <1>2, <1>3, LoopKeeps
<1> QED BY <1>1, <1>4

-----------------------------------------------------------------------------
(* String: the last match                                                  *)

LastTurn(p, needle, limit, t) ==
    LET found == strstr(p, needle, t + 1)
    IN  IF found = -1 \/ found + Len(needle) > limit THEN t ELSE found

IsLast(f, p, needle, limit) ==
    f = [k \in 0..Len(p) |-> IF k = 0 THEN -1 ELSE LastTurn(p, needle, limit, f[k - 1])]

LEMMA LastChosen ==
    ASSUME NEW p, NEW needle, NEW limit
    PROVE  LastMatch(p, needle, limit) = (CHOOSE f : IsLast(f, p, needle, limit))[Len(p)]
BY DEF LastMatch, IsLast, LastTurn

LEMMA FindBackwards ==
    ASSUME NEW x, NEW t, Keeps(x, t), Len(t) > 0, NEW needle \in Seq(Letters), Len(needle) > 0,
           NEW limit \in Int
    PROVE  LastMatch(x.ptr, needle, limit)
               = LastPosition({k \in Positions(t, needle) : k + Len(needle) <= limit})
<1> DEFINE p == x.ptr
           n == Len(p)
           m == Len(needle)
           P == Positions(t, needle)
           A == {k \in P : k + m <= limit}
           T == Nat \cup {-1}
           Step(e) == LastTurn(p, needle, limit, e)
           g == [e \in (1..n) \X T |-> Step(e[2])]
           h == CHOOSE f : IsLast(f, p, needle, limit)
<1>1. t \in Seq(Letters) /\ p \in Seq(Int) /\ n \in Nat /\ Len(t) + 2 <= n /\ m \in Nat \ {0}
  BY KeepsType
<1>2. P \in SUBSET Nat /\ \A k \in P : k + m <= Len(t) /\ k < n - 1
  <2>1. P \in SUBSET Nat /\ Len(t) \in Nat /\ \A k \in P : k + m <= Len(t)
    BY <1>1, PositionsType
  <2> HIDE DEF P, n, m
  <2> QED BY <1>1, <2>1
<1>3. \A e \in T : /\ strstr(p, needle, e + 1) = FirstPosition({k \in P : k >= e + 1})
                   /\ e + 1 \in Nat /\ e \in Int
  <2> TAKE e \in T
  <2>1. e + 1 \in Nat /\ e \in Int
    OBVIOUS
  <2> QED BY <2>1, SearchOf
<1> HIDE DEF p, n, P
<1>4. \* A turn goes on to the next match, or there is none.
      ASSUME NEW e \in T
      PROVE  /\ Step(e) \in T /\ Step(e) >= e
             /\ Step(e) = e => \A k \in A : k <= e
             /\ Step(e) # e => Step(e) \in A
  <2> DEFINE R == {k \in P : k >= e + 1}
             found == FirstPosition(R)
  <2>1. e \in Int /\ e + 1 \in Nat /\ strstr(p, needle, e + 1) = found
    BY <1>3
  <2>2. found \in Int /\ (R = {} => found = -1)
        /\ (R # {} => found \in R /\ found >= 0 /\ \A y \in R : found <= y)
    <3>1. R \in SUBSET Nat
      BY <1>2
    <3> HIDE DEF R
    <3> QED BY <3>1, FirstOne
  <2>3. Step(e) = IF found = -1 \/ found + m > limit THEN e ELSE found
    BY <2>1 DEF LastTurn
  <2> HIDE DEF found, Step, m
  <2>4. CASE found = -1
    <3>1. R = {}
      BY <2>2, <2>4
    <3>2. \A k \in A : k \in P /\ k \in Int /\ ~(k >= e + 1)
      BY <1>2, <3>1
    <3> QED BY <2>1, <2>3, <2>4, <3>2
  <2>5. CASE found # -1 /\ found + m > limit
    <3>1. R # {} /\ \A y \in R : found <= y
      BY <2>2, <2>5
    <3>2. ASSUME NEW k \in A PROVE k <= e
      <4>1. k \in P /\ k \in Int /\ k + m <= limit /\ (k >= e + 1 => k \in R)
        BY <1>2
      <4> QED BY <1>1, <2>1, <2>2, <2>5, <3>1, <4>1
    <3> QED BY <2>1, <2>3, <2>5, <3>2
  <2>6. CASE found # -1 /\ ~(found + m > limit)
    <3>1. found \in R
      BY <2>2, <2>6
    <3>2. found \in P /\ found >= e + 1 /\ found + m <= limit /\ found \in Nat
      BY <1>1, <1>2, <2>2, <2>6, <3>1
    <3> QED BY <2>1, <2>3, <2>6, <3>2
  <2> QED BY <2>4, <2>5, <2>6
<1> HIDE DEF Step, A
<1>5. PICK f : IsRun(f, n, -1, g) /\ \A k \in 0..n : f[k] \in T
  <2> DEFINE a == -1
  <2>1. a \in T /\ \A k \in 1..n : \A e \in T : g[<<k, e>>] \in T
    BY <1>4
  <2> HIDE DEF g, T, a
  <2>2. \E f : IsRun(f, n, a, g) /\ \A k \in 0..n : f[k] \in T
    BY <1>1, <2>1, LoopRun
  <2> QED BY <2>2 DEF a
<1>6. IsLast(f, p, needle, limit)
  <2>1. \A k \in 0..n : k # 0 => k \in 1..n /\ f[k - 1] \in T
    <3>1. \A k \in 0..n : k # 0 => k \in 1..n /\ k - 1 \in 0..n
      BY <1>1
    <3> HIDE DEF T
    <3> QED BY <1>5, <3>1
  <2>2. \A k \in 0..n : k # 0 => g[<<k, f[k - 1]>>] = Step(f[k - 1])
    <3> HIDE DEF T
    <3> QED BY <2>1
  <2> HIDE DEF g
  <2>3. f = [k \in 0..n |-> IF k = 0 THEN -1 ELSE Step(f[k - 1])]
    BY <1>5, <2>2 DEF IsRun
  <2> QED BY <2>3 DEF IsLast, Step, n
<1>7. h[0] = -1 /\ \A k \in 1..n : h[k] = Step(h[k - 1])
  <2>1. IsLast(h, p, needle, limit)
    BY <1>6
  <2> HIDE DEF h
  <2>2. h = [k \in 0..n |-> IF k = 0 THEN -1 ELSE Step(h[k - 1])]
    BY <2>1 DEF IsLast, Step, n
  <2>3. 0 \in 0..n /\ \A k \in 1..n : k \in 0..n /\ k # 0
    BY <1>1
  <2> QED BY <2>2, <2>3
<1> HIDE DEF h
<1>8. \A k \in 0..n : /\ h[k] \in T
                      /\ h[k] = -1 \/ h[k] \in A
                      /\ h[k] >= k - 1 \/ \A j \in A : j <= h[k]
  <2> DEFINE S == [k \in 0..n |-> {e \in T : /\ e = -1 \/ e \in A
                                             /\ e >= k - 1 \/ \A j \in A : j <= e}]
  <2>1. h[0] \in S[0]
    BY <1>1, <1>7
  <2>2. \A k \in 1..n : h[k - 1] \in S[k - 1] => h[k] \in S[k]
    <3> TAKE k \in 1..n
    <3> SUFFICES ASSUME h[k - 1] \in S[k - 1] PROVE h[k] \in S[k]
      OBVIOUS
    <3> DEFINE e == h[k - 1]
    <3>1. k - 1 \in 0..n /\ k \in 0..n /\ k \in Int
      BY <1>1
    <3>2. e \in T /\ (e = -1 \/ e \in A) /\ (e >= (k - 1) - 1 \/ \A j \in A : j <= e)
      BY <3>1
    <3>3. h[k] = Step(e)
      BY <1>7
    <3> HIDE DEF e
    <3>4. /\ Step(e) \in T /\ Step(e) >= e
          /\ Step(e) = e => \A j \in A : j <= e
          /\ Step(e) # e => Step(e) \in A
      BY <1>4, <3>2
    <3>5. \A j \in A : j \in Int
      BY <1>2 DEF A
    <3>6. Step(e) = -1 \/ Step(e) \in A
      BY <3>2, <3>4
    <3>7. Step(e) >= k - 1 \/ \A j \in A : j <= Step(e)
      <4>1. CASE Step(e) = e
        BY <3>4, <4>1
      <4>2. CASE Step(e) # e
        <5>1. e \in Int /\ Step(e) \in Int /\ Step(e) > e
          BY <3>2, <3>4, <4>2
        <5>2. CASE e >= (k - 1) - 1
          BY <3>1, <5>1, <5>2
        <5>3. CASE \A j \in A : j <= e
          BY <3>4, <4>2, <5>1, <5>3
        <5> QED BY <3>2, <5>2, <5>3
      <4> QED BY <4>1, <4>2
    <3> QED BY <3>1, <3>3, <3>4, <3>6, <3>7
  <2>3. \A k \in 0..n : h[k] \in S[k]
    <3> HIDE DEF S
    <3> QED BY <1>1, <2>1, <2>2, LoopKeeps
  <2> QED BY <2>3
<1> DEFINE r == h[n]
<1>9. r \in T /\ (r = -1 \/ r \in A) /\ \A j \in A : j <= r
  <2>1. n \in 0..n
    BY <1>1
  <2>2. r \in T /\ (r = -1 \/ r \in A) /\ (r >= n - 1 \/ \A j \in A : j <= r)
    BY <1>8, <2>1
  <2> HIDE DEF r
  <2>3. \A j \in A : j < n - 1 /\ j \in Nat
    BY <1>2 DEF A
  <2>4. r >= n - 1 => \A j \in A : j <= r
    BY <1>1, <2>2, <2>3
  <2> QED BY <2>2, <2>4
<1>10. LastMatch(p, needle, limit) = r
  BY LastChosen DEF h, n
<1> HIDE DEF r
<1>11. r = LastPosition(A)
  <2>1. CASE A = {}
    BY <1>9, <2>1 DEF LastPosition
  <2>2. CASE A # {}
    <3>1. \A j \in A : j \in Nat
      BY <1>2 DEF A
    <3>2. r \in A
      <4>1. PICK j \in A : TRUE
        BY <2>2
      <4> QED BY <1>9, <3>1, <4>1
    <3>3. Max(A) \in A /\ \A y \in A : Max(A) >= y
      <4>1. \A y \in A : r >= y
        BY <1>9, <3>1, <3>2
      <4> QED BY <3>2, <4>1 DEF Max
    <3>4. r = Max(A)
      <4>1. r <= Max(A) /\ Max(A) <= r /\ r \in Nat /\ Max(A) \in Nat
        BY <1>9, <3>1, <3>2, <3>3
      <4> QED BY <4>1
    <3> QED BY <2>2, <3>4 DEF LastPosition
  <2> QED BY <2>1, <2>2
<1> QED BY <1>10, <1>11 DEF A, P, p

-----------------------------------------------------------------------------
(* String: what is replaced, letter by letter                              *)

LETTERWISE == [out : Seq(Letters), skip : Nat]

LetterTurn(t, search, replacement, e, k) ==
    IF e.skip > 0 THEN [e EXCEPT !.skip = @ - 1]
    ELSE IF k - 1 \in Positions(t, search)
    THEN [out |-> e.out \o replacement, skip |-> Len(search) - 1]
    ELSE [e EXCEPT !.out = Append(@, t[k])]

IsReplacedIn(f, t, search, replacement) ==
    f = [k \in 0..Len(t) |-> IF k = 0 THEN [out |-> <<>>, skip |-> 0]
                             ELSE LetterTurn(t, search, replacement, f[k - 1], k)]

LEMMA ReplacedInChosen ==
    ASSUME NEW t, NEW search, NEW replacement
    PROVE  ReplacedIn(t, search, replacement)
               = (CHOOSE f : IsReplacedIn(f, t, search, replacement))[Len(t)].out
BY DEF ReplacedIn, IsReplacedIn, LetterTurn

\* Letter by letter: what has been put out behind each of them
Replacing(h, t, search, replacement) ==
    /\ ReplacedIn(t, search, replacement) = h[Len(t)].out
    /\ h[0] = [out |-> <<>>, skip |-> 0]
    /\ \A k \in 1..Len(t) : h[k] = LetterTurn(t, search, replacement, h[k - 1], k)
    /\ \A k \in 0..Len(t) : h[k] \in LETTERWISE

LEMMA TextAppended ==
    ASSUME NEW u \in Seq(Letters), NEW c \in Letters
    PROVE  /\ Append(u, c) \in Seq(Letters) /\ Len(Append(u, c)) = Len(u) + 1 /\ Len(u) \in Nat
           /\ \A k \in 1..Len(u) : Append(u, c)[k] = u[k]
           /\ Append(u, c)[Len(u) + 1] = c
OBVIOUS

LEMMA ReplacedInRun ==
    ASSUME NEW t \in Seq(Letters), NEW search \in Seq(Letters), Len(search) > 0,
           NEW replacement \in Seq(Letters)
    PROVE  \E h : Replacing(h, t, search, replacement)
<1> DEFINE n == Len(t)
           a == [out |-> <<>>, skip |-> 0]
           Step(e, k) == LetterTurn(t, search, replacement, e, k)
           g == [e \in (1..n) \X LETTERWISE |-> Step(e[2], e[1])]
           h == CHOOSE f : IsReplacedIn(f, t, search, replacement)
<1>1. n \in Nat /\ Len(search) \in Nat /\ \A k \in 1..n : t[k] \in Letters
  OBVIOUS
<1>2. a \in LETTERWISE
  BY DEF LETTERWISE
<1>3. ASSUME NEW k \in 1..n, NEW e \in LETTERWISE PROVE Step(e, k) \in LETTERWISE
  <2>1. e.out \in Seq(Letters) /\ e.skip \in Nat /\ e = [out |-> e.out, skip |-> e.skip]
    BY DEF LETTERWISE
  <2>2. CASE e.skip > 0
    <3>1. Step(e, k) = [out |-> e.out, skip |-> e.skip - 1]
      BY <2>1, <2>2 DEF LetterTurn
    <3> QED BY <2>1, <2>2, <3>1 DEF LETTERWISE
  <2>3. CASE ~(e.skip > 0) /\ k - 1 \in Positions(t, search)
    <3>1. Step(e, k) = [out |-> TextOf(e.out, replacement), skip |-> Len(search) - 1]
      BY <2>3 DEF LetterTurn, TextOf
    <3>2. TextOf(e.out, replacement) \in Seq(Letters)
      BY <2>1, TextOfType
    <3> QED BY <1>1, <3>1, <3>2 DEF LETTERWISE
  <2>4. CASE ~(e.skip > 0) /\ k - 1 \notin Positions(t, search)
    <3>1. Step(e, k) = [out |-> Append(e.out, t[k]), skip |-> e.skip]
      BY <2>1, <2>4 DEF LetterTurn
    <3>2. Append(e.out, t[k]) \in Seq(Letters)
      BY <1>1, <2>1, TextAppended
    <3> QED BY <2>1, <3>1, <3>2 DEF LETTERWISE
  <2> QED BY <2>2, <2>3, <2>4
<1> HIDE DEF Step, a
<1>4. PICK f : IsRun(f, n, a, g) /\ \A k \in 0..n : f[k] \in LETTERWISE
  <2>1. \A k \in 1..n : \A e \in LETTERWISE : g[<<k, e>>] \in LETTERWISE
    BY <1>3
  <2> HIDE DEF g, n
  <2> QED BY <1>1, <1>2, <2>1, LoopRun
<1>5. IsReplacedIn(f, t, search, replacement)
  <2>1. \A k \in 0..n : k # 0 => k \in 1..n /\ k - 1 \in 0..n
    BY <1>1
  <2>2. \A k \in 0..n : k # 0 => g[<<k, f[k - 1]>>] = Step(f[k - 1], k)
    <3> HIDE DEF n
    <3> QED BY <1>4, <2>1
  <2> HIDE DEF g
  <2>3. f = [k \in 0..n |-> IF k = 0 THEN a ELSE Step(f[k - 1], k)]
    <3> HIDE DEF n
    <3> QED BY <1>4, <2>2 DEF IsRun
  <2> QED BY <2>3 DEF IsReplacedIn, Step, a
<1>6. h[0] = a /\ \A k \in 1..n : h[k] = Step(h[k - 1], k)
  <2>1. IsReplacedIn(h, t, search, replacement)
    BY <1>5
  <2> HIDE DEF h
  <2>2. h = [k \in 0..n |-> IF k = 0 THEN a ELSE Step(h[k - 1], k)]
    BY <2>1 DEF IsReplacedIn, Step, a
  <2>3. 0 \in 0..n /\ \A k \in 1..n : k \in 0..n /\ k # 0
    BY <1>1
  <2> HIDE DEF n
  <2> QED BY <2>2, <2>3
<1>7. ReplacedIn(t, search, replacement) = h[n].out
  BY ReplacedInChosen
<1> HIDE DEF h
<1>8. \A k \in 0..n : h[k] \in LETTERWISE
  <2>1. \A k \in 1..n : h[k - 1] \in LETTERWISE => h[k] \in LETTERWISE
    BY <1>3, <1>6
  <2> HIDE DEF n
  <2> QED BY <1>1, <1>2, <1>6, <2>1, LoopStays
<1>9. Replacing(h, t, search, replacement)
  BY <1>6, <1>7, <1>8 DEF Step, a, Replacing
<1> QED BY <1>9

-----------------------------------------------------------------------------
(* String: backslashes                                                     *)

EscapeTurn(x, i, e) == (IF x.ptr[i] = Slash THEN Append(e, Slash) ELSE e) \o <<x.ptr[i]>>

IsEscaped(f, x) == f = [i \in 0..x.stringlen |-> IF i = 0 THEN <<>> ELSE EscapeTurn(x, i, f[i - 1])]

LEMMA EscapedChosen ==
    ASSUME NEW x
    PROVE  Escaped(x) = (CHOOSE f : IsEscaped(f, x))[x.stringlen]
BY DEF Escaped, IsEscaped, EscapeTurn

\* One letter behind a text
LEMMA OneLetter ==
    ASSUME NEW u \in Seq(Letters), NEW c \in Letters
    PROVE  TextOf(u, <<c>>) = Append(u, c)
<1> DEFINE o == <<c>>
           v == TextOf(u, o)
           w == Append(u, c)
<1>1. o \in Seq(Letters) /\ Len(o) = 1 /\ o[1] = c
  OBVIOUS
<1> HIDE DEF o
<1>2. /\ v \in Seq(Letters) /\ Len(v) = Len(u) + 1 /\ Len(u) \in Nat
      /\ \A k \in Nat \ {0} : k <= Len(u) => v[k] = u[k]
      /\ \A k \in Nat \ {0} : k > Len(u) /\ k <= Len(u) + 1 => v[k] = o[k - Len(u)]
  <2>1. /\ v \in Seq(Letters) /\ Len(v) = Len(u) + Len(o) /\ Len(u) \in Nat
        /\ \A k \in Nat \ {0} : k <= Len(u) => v[k] = u[k]
        /\ \A k \in Nat \ {0} : k > Len(u) /\ k <= Len(u) + Len(o) => v[k] = o[k - Len(u)]
    BY <1>1, TextOfType
  <2> HIDE DEF v
  <2> QED BY <1>1, <2>1
<1>3. /\ w \in Seq(Letters) /\ Len(w) = Len(u) + 1
      /\ \A k \in 1..Len(u) : w[k] = u[k]
      /\ w[Len(u) + 1] = c
  BY TextAppended
<1> HIDE DEF v, w
<1>4. ASSUME NEW k \in 1..Len(v) PROVE v[k] = w[k]
  <2>1. CASE k <= Len(u)
    BY <1>2, <1>3, <2>1
  <2>2. CASE k > Len(u)
    <3>1. k = Len(u) + 1 /\ k - Len(u) = 1
      BY <1>2, <2>2
    <3> QED BY <1>1, <1>2, <1>3, <2>2, <3>1
  <2> QED BY <1>2, <2>1, <2>2
<1>5. v = w
  BY <1>2, <1>3, <1>4, SameText
<1> QED BY <1>5 DEF v, w, o

LEMMA TwoLetters ==
    ASSUME NEW u \in Seq(Letters), NEW c \in Letters, NEW d \in Letters
    PROVE  TextOf(u, <<c, d>>) = Append(Append(u, c), d)
<1> DEFINE o == <<c, d>>
           v == TextOf(u, o)
           w == Append(u, c)
           z == Append(w, d)
           n == Len(u)
<1>1. o \in Seq(Letters) /\ Len(o) = 2 /\ o[1] = c /\ o[2] = d
  OBVIOUS
<1> HIDE DEF o
<1>2. /\ v \in Seq(Letters) /\ Len(v) = n + 2 /\ n \in Nat
      /\ \A k \in Nat \ {0} : k <= n => v[k] = u[k]
      /\ \A k \in Nat \ {0} : k > n /\ k <= n + 2 => v[k] = o[k - n]
  <2>1. /\ v \in Seq(Letters) /\ Len(v) = n + Len(o) /\ n \in Nat
        /\ \A k \in Nat \ {0} : k <= n => v[k] = u[k]
        /\ \A k \in Nat \ {0} : k > n /\ k <= n + Len(o) => v[k] = o[k - n]
    BY <1>1, TextOfType
  <2> HIDE DEF v, n
  <2> QED BY <1>1, <2>1
<1>3. /\ w \in Seq(Letters) /\ Len(w) = n + 1
      /\ \A k \in 1..n : w[k] = u[k]
      /\ w[n + 1] = c
  BY TextAppended
<1> HIDE DEF v, w
<1>4. /\ z \in Seq(Letters) /\ Len(z) = Len(w) + 1
      /\ \A k \in 1..Len(w) : z[k] = w[k]
      /\ z[Len(w) + 1] = d
  BY <1>3, TextAppended
<1> HIDE DEF z, n
<1>5. Len(z) = n + 2 /\ z[n + 2] = d /\ z[n + 1] = c /\ \A k \in 1..n : z[k] = u[k]
  <2>1. Len(w) + 1 = n + 2 /\ n + 1 \in 1..Len(w) /\ \A k \in 1..n : k \in 1..Len(w)
    BY <1>2, <1>3
  <2> QED BY <1>3, <1>4, <2>1
<1>6. ASSUME NEW k \in 1..Len(v) PROVE v[k] = z[k]
  <2>1. CASE k <= n
    BY <1>2, <1>5, <2>1
  <2>2. CASE k = n + 1
    <3>1. k - n = 1 /\ k > n /\ k <= n + 2 /\ k \in Nat \ {0}
      BY <1>2, <2>2
    <3> QED BY <1>1, <1>2, <1>5, <2>2, <3>1
  <2>3. CASE k = n + 2
    <3>1. k - n = 2 /\ k > n /\ k <= n + 2 /\ k \in Nat \ {0}
      BY <1>2, <2>3
    <3> QED BY <1>1, <1>2, <1>5, <2>3, <3>1
  <2> QED BY <1>2, <2>1, <2>2, <2>3
<1>7. v = z
  BY <1>2, <1>4, <1>5, <1>6, SameText
<1> QED BY <1>7 DEF v, z, w, o

LEMMA EscapedOf ==
    ASSUME NEW x, NEW t, Keeps(x, t)
    PROVE  /\ Escaped(x) = ReplacedIn(t, <<Slash>>, <<Slash, Slash>>)
           /\ Escaped(x) \in Seq(Letters)
           /\ Len(t) = 0 => Escaped(x) = <<>>
<1> DEFINE n == Len(t)
           s == <<Slash>>
           r == <<Slash, Slash>>
           h == CHOOSE f : IsEscaped(f, x)
<1>1. /\ t \in Seq(Letters) /\ n \in Nat /\ x.stringlen = n /\ \A k \in 1..n : x.ptr[k] = t[k]
      /\ \A k \in 1..n : t[k] \in Letters
      /\ Slash \in Letters
  <2>1. t \in Seq(Letters) /\ x.stringlen = n /\ \A k \in 1..n : x.ptr[k] = t[k]
    BY KeepsType
  <2> QED BY <2>1, StringAssumption
<1>2. s \in Seq(Letters) /\ Len(s) = 1 /\ s[1] = Slash /\ r \in Seq(Letters)
  BY <1>1
<1>13. PICK d : Replacing(d, t, s, r)
  <2>1. Len(s) > 0
    BY <1>2
  <2> HIDE DEF s, r
  <2> QED BY <1>1, <1>2, <2>1, ReplacedInRun
<1>3. /\ ReplacedIn(t, s, r) = d[n].out
      /\ d[0] = [out |-> <<>>, skip |-> 0]
      /\ \A k \in 1..n : d[k] = LetterTurn(t, s, r, d[k - 1], k)
      /\ \A k \in 0..n : d[k] \in LETTERWISE
  BY <1>13 DEF Replacing
<1>4. \A k \in 1..n : k - 1 \in Positions(t, s) <=> t[k] = Slash
  <2> TAKE k \in 1..n
  <2>1. k - 1 \in 0..(n - 1) /\ (k - 1) + 1 = k
    BY <1>1
  <2> HIDE DEF s, n
  <2>2. k - 1 \in Positions(t, s) <=> \A j \in 1..1 : t[(k - 1) + j] = s[j]
    BY <1>2, <2>1 DEF Positions, n
  <2>3. (\A j \in 1..1 : t[(k - 1) + j] = s[j]) <=> t[(k - 1) + 1] = s[1]
    OBVIOUS
  <2> QED BY <1>2, <2>1, <2>2, <2>3
<1> HIDE DEF s
<1>5. ASSUME NEW k \in 1..n, d[k - 1].skip = 0
      PROVE  d[k].skip = 0 /\ d[k].out = EscapeTurn(x, k, d[k - 1].out)
  <2> DEFINE e == d[k - 1]
             u == e.out
  <2>1. e \in LETTERWISE /\ k - 1 \in 0..n
    <3>1. k - 1 \in 0..n
      BY <1>1
    <3> HIDE DEF n
    <3> QED BY <1>3, <3>1
  <2>2. u \in Seq(Letters) /\ e.skip = 0 /\ e = [out |-> u, skip |-> 0]
    BY <1>5, <2>1 DEF LETTERWISE
  <2>3. d[k] = LetterTurn(t, s, r, e, k)
    BY <1>3
  <2>4. t[k] \in Letters /\ x.ptr[k] = t[k]
    BY <1>1
  <2> HIDE DEF e, n
  <2>5. CASE t[k] = Slash
    <3>1. d[k] = [out |-> TextOf(u, r), skip |-> 0]
      BY <1>2, <1>4, <2>2, <2>3, <2>5 DEF LetterTurn, TextOf
    <3>2. EscapeTurn(x, k, u) = TextOf(Append(u, Slash), <<Slash>>)
      BY <2>4, <2>5 DEF EscapeTurn, TextOf
    <3>3. Append(u, Slash) \in Seq(Letters)
      BY <1>1, <2>2, TextAppended
    <3>4. TextOf(Append(u, Slash), <<Slash>>) = Append(Append(u, Slash), Slash)
      BY <1>1, <3>3, OneLetter
    <3>5. TextOf(u, r) = Append(Append(u, Slash), Slash)
      BY <1>1, <2>2, TwoLetters
    <3> HIDE DEF u, r
    <3>6. d[k].skip = 0 /\ d[k].out = EscapeTurn(x, k, u)
      BY <3>1, <3>2, <3>4, <3>5
    <3> QED BY <3>6 DEF u, e
  <2>6. CASE t[k] # Slash
    <3>1. d[k] = [out |-> Append(u, t[k]), skip |-> 0]
      <4>1. k - 1 \notin Positions(t, s) /\ ~(e.skip > 0)
        BY <1>4, <2>2, <2>6
      <4>2. d[k] = [e EXCEPT !.out = Append(@, t[k])]
        BY <2>3, <4>1 DEF LetterTurn
      <4> QED BY <2>2, <4>2
    <3>2. EscapeTurn(x, k, u) = TextOf(u, <<t[k]>>)
      BY <2>4, <2>6 DEF EscapeTurn, TextOf
    <3>3. TextOf(u, <<t[k]>>) = Append(u, t[k])
      BY <2>2, <2>4, OneLetter
    <3> HIDE DEF u
    <3>4. d[k].skip = 0 /\ d[k].out = EscapeTurn(x, k, u)
      BY <3>1, <3>2, <3>3
    <3> QED BY <3>4 DEF u, e
  <2> QED BY <2>5, <2>6
<1>6. \A k \in 0..n : d[k].skip = 0
  <2> DEFINE S == [k \in 0..n |-> {e \in LETTERWISE : e.skip = 0}]
  <2>1. d[0] \in S[0]
    BY <1>1, <1>3
  <2>2. \A k \in 1..n : d[k - 1] \in S[k - 1] => d[k] \in S[k]
    <3> TAKE k \in 1..n
    <3>1. k - 1 \in 0..n /\ k \in 0..n
      BY <1>1
    <3>2. d[k] \in LETTERWISE
      <4> HIDE DEF n
      <4> QED BY <1>3, <3>1
    <3> QED BY <1>5, <3>1, <3>2
  <2>3. \A k \in 0..n : d[k] \in S[k]
    <3> HIDE DEF S, n
    <3> QED BY <1>1, <2>1, <2>2, LoopKeeps
  <2> QED BY <2>3
<1>7. \A k \in 1..n : d[k].out = EscapeTurn(x, k, d[k - 1].out)
  <2> TAKE k \in 1..n
  <2>1. k - 1 \in 0..n
    BY <1>1
  <2> HIDE DEF n
  <2> QED BY <1>5, <1>6, <2>1
<1>8. \E f : IsEscaped(f, x)
  <2> DEFINE f == [k \in 0..n |-> d[k].out]
  <2>1. \A k \in 0..n : k # 0 => k \in 1..n /\ k - 1 \in 0..n
    BY <1>1
  <2>2. \A k \in 0..n : f[k] = IF k = 0 THEN <<>> ELSE EscapeTurn(x, k, f[k - 1])
    <3> TAKE k \in 0..n
    <3>1. CASE k = 0
      BY <1>3, <3>1
    <3>2. CASE k # 0
      <4>1. k \in 1..n /\ k - 1 \in 0..n
        BY <2>1, <3>2
      <4>2. f[k - 1] = d[k - 1].out /\ f[k] = d[k].out
        BY <4>1
      <4> HIDE DEF f, n
      <4> QED BY <1>7, <3>2, <4>1, <4>2
    <3> QED BY <3>1, <3>2
  <2>3. f = [k \in 0..n |-> f[k]]
    OBVIOUS
  <2> HIDE DEF f
  <2>4. f = [k \in 0..n |-> IF k = 0 THEN <<>> ELSE EscapeTurn(x, k, f[k - 1])]
    <3> HIDE DEF n
    <3> QED BY <2>2, <2>3
  <2> QED BY <1>1, <2>4 DEF IsEscaped
<1>9. h[0] = <<>> /\ \A k \in 1..n : h[k] = EscapeTurn(x, k, h[k - 1])
  <2>1. IsEscaped(h, x)
    BY <1>8
  <2> HIDE DEF h
  <2>2. h = [k \in 0..n |-> IF k = 0 THEN <<>> ELSE EscapeTurn(x, k, h[k - 1])]
    BY <1>1, <2>1 DEF IsEscaped
  <2>3. 0 \in 0..n /\ \A k \in 1..n : k \in 0..n /\ k # 0
    BY <1>1
  <2> HIDE DEF n
  <2> QED BY <2>2, <2>3
<1>10. Escaped(x) = h[n]
  BY <1>1, EscapedChosen
<1> HIDE DEF h
<1>11. \A k \in 0..n : h[k] = d[k].out
  <2> DEFINE S == [k \in 0..n |-> {d[k].out}]
  <2>1. h[0] \in S[0]
    <3>1. d[0].out = <<>> /\ 0 \in 0..n
      BY <1>1, <1>3
    <3> QED BY <1>9, <3>1
  <2>2. \A k \in 1..n : h[k - 1] \in S[k - 1] => h[k] \in S[k]
    <3> TAKE k \in 1..n
    <3>1. k - 1 \in 0..n /\ k \in 0..n
      BY <1>1
    <3>2. S[k - 1] = {d[k - 1].out} /\ S[k] = {d[k].out}
      BY <3>1
    <3> HIDE DEF S, n
    <3> QED BY <1>7, <1>9, <3>2
  <2>3. \A k \in 0..n : h[k] \in S[k]
    <3> HIDE DEF S, n
    <3> QED BY <1>1, <2>1, <2>2, LoopKeeps
  <2> QED BY <2>3
<1>12. h[n] = d[n].out /\ d[n].out \in Seq(Letters) /\ (n = 0 => d[n].out = <<>>)
  <2>1. n \in 0..n
    BY <1>1
  <2> HIDE DEF n
  <2>2. d[n] \in LETTERWISE /\ h[n] = d[n].out
    BY <1>3, <1>11, <2>1
  <2>3. n = 0 => d[n].out = <<>>
    BY <1>3
  <2> QED BY <2>2, <2>3 DEF LETTERWISE
<1> QED BY <1>3, <1>10, <1>12 DEF s

LEMMA EscapeKeeps ==
    ASSUME NEW x, NEW t, Keeps(x, t)
    PROVE  Keeps(pregEscape(x), ReplacedIn(t, <<Slash>>, <<Slash, Slash>>))
<1> DEFINE e == Escaped(x)
<1>1. /\ e = ReplacedIn(t, <<Slash>>, <<Slash, Slash>>) /\ e \in Seq(Letters)
      /\ Len(t) = 0 => e = <<>>
  BY EscapedOf
<1>2. /\ x \in BUFFER /\ Len(x.ptr) = x.s /\ t \in Seq(Letters) /\ x.stringlen = Len(t)
      /\ Characters(x) = t
  BY KeepsType, KeepsCharacters
<1>3. pregEscape(x) = IF Len(t) = 0 \/ e = t THEN x ELSE setText(x, e)
  BY <1>2 DEF pregEscape
<1> HIDE DEF e
<1>4. CASE Len(t) = 0 \/ e = t
  <2>1. e = t
    BY <1>1, <1>2, <1>4, NoLetters
  <2> QED BY <1>1, <1>3, <1>4, <2>1
<1>5. CASE ~(Len(t) = 0 \/ e = t)
  <2>1. Keeps(setText(x, e), e)
    BY <1>1, <1>2, SetKeeps
  <2>2. pregEscape(x) = setText(x, e)
    BY <1>3, <1>5
  <2> QED BY <1>1, <2>1, <2>2
<1> QED BY <1>4, <1>5

IsStripped(f, t) ==
    f = [k \in 0..Len(t) |->
            IF k = 0 THEN <<>>
            ELSE IF t[k] = Slash /\ k < Len(t) THEN f[k - 1] ELSE Append(f[k - 1], t[k])]

LEMMA StrippedChosen ==
    ASSUME NEW t
    PROVE  Stripped(t) = (CHOOSE f : IsStripped(f, t))[Len(t)]
BY DEF Stripped, IsStripped

LEMMA StrippedRun ==
    ASSUME NEW t \in Seq(Letters), NEW d, d = CHOOSE f : IsStripped(f, t)
    PROVE  /\ Stripped(t) = d[Len(t)] /\ d[0] = <<>>
           /\ \A k \in 1..Len(t) :
                 d[k] = IF t[k] = Slash /\ k < Len(t) THEN d[k - 1] ELSE Append(d[k - 1], t[k])
           /\ \A k \in 0..Len(t) : d[k] \in Seq(Letters)
<1> DEFINE n == Len(t)
           T == Seq(Letters)
           Step(e, k) == IF t[k] = Slash /\ k < n THEN e ELSE Append(e, t[k])
           g == [e \in (1..n) \X T |-> Step(e[2], e[1])]
           a == <<>>
<1>1. n \in Nat /\ \A k \in 1..n : t[k] \in Letters
  OBVIOUS
<1>2. a \in T
  OBVIOUS
<1>3. ASSUME NEW k \in 1..n, NEW e \in T PROVE Step(e, k) \in T
  <2>1. Append(e, t[k]) \in T
    BY <1>1, TextAppended
  <2> QED BY <2>1
<1> HIDE DEF Step, a, T
<1>4. PICK f : IsRun(f, n, a, g) /\ \A k \in 0..n : f[k] \in T
  <2>1. \A k \in 1..n : \A e \in T : g[<<k, e>>] \in T
    BY <1>3
  <2> HIDE DEF g, n
  <2> QED BY <1>1, <1>2, <2>1, LoopRun
<1>5. IsStripped(f, t)
  <2>1. \A k \in 0..n : k # 0 => k \in 1..n /\ k - 1 \in 0..n
    BY <1>1
  <2>2. \A k \in 0..n : k # 0 => g[<<k, f[k - 1]>>] = Step(f[k - 1], k)
    <3> HIDE DEF n
    <3> QED BY <1>4, <2>1
  <2> HIDE DEF g
  <2>3. f = [k \in 0..n |-> IF k = 0 THEN a ELSE Step(f[k - 1], k)]
    <3> HIDE DEF n
    <3> QED BY <1>4, <2>2 DEF IsRun
  <2> QED BY <2>3 DEF IsStripped, Step, a
<1>6. d[0] = a /\ \A k \in 1..n : d[k] = Step(d[k - 1], k)
  <2>1. IsStripped(d, t)
    BY <1>5
  <2>2. d = [k \in 0..n |-> IF k = 0 THEN a ELSE Step(d[k - 1], k)]
    BY <2>1 DEF IsStripped, Step, a
  <2>3. 0 \in 0..n /\ \A k \in 1..n : k \in 0..n /\ k # 0
    BY <1>1
  <2> HIDE DEF n
  <2> QED BY <2>2, <2>3
<1>7. Stripped(t) = d[n]
  BY StrippedChosen
<1>8. \A k \in 0..n : d[k] \in T
  <2>1. \A k \in 1..n : d[k - 1] \in T => d[k] \in T
    BY <1>3, <1>6
  <2> HIDE DEF n
  <2> QED BY <1>1, <1>2, <1>6, <2>1, LoopStays
<1> QED BY <1>6, <1>7, <1>8 DEF Step, a, T

\* The letters that have been written when the one at p is read
IsWritten(f, x, n) ==
    f = [p \in 0..n |->
            IF p <= 1 THEN <<>>
            ELSE IF x.ptr[p - 1] = Slash THEN f[p - 1] ELSE Append(f[p - 1], x.ptr[p - 1])]

WrittenRun(x, n) == CHOOSE f : IsWritten(f, x, n)

LEMMA WrittenChosen ==
    ASSUME NEW x
    PROVE  stripSlashes(x) =
               LET n   == strlen(x.ptr)
                   h   == WrittenRun(x, n)
                   all == IF n = 0 THEN h[n] ELSE Append(h[n], x.ptr[n])
               IN  IF x.stringlen = 0 THEN x
                   ELSE EndedAt([x EXCEPT !.ptr = Write(@, 0, all)], Len(all))
BY DEF stripSlashes, IsWritten, WrittenRun

\* A text that is written over the one that is longer
LEMMA OverwrittenKeeps ==
    ASSUME NEW x, NEW t, Keeps(x, t), Len(t) > 0, NEW u \in Seq(Letters), Len(u) <= Len(t)
    PROVE  Keeps(EndedAt([x EXCEPT !.ptr = Write(@, 0, u)], Len(u)), u)
<1> DEFINE n == Len(u)
           w == Write(x.ptr, 0, u)
           y == [x EXCEPT !.ptr = w]
<1>1. /\ x \in BUFFER /\ x.ptr \in Seq(Int) /\ Len(x.ptr) = x.s /\ x.s \in Nat
      /\ Len(t) \in Nat /\ Len(t) + 2 <= x.s
  BY KeepsType
<1>2. n \in Nat /\ u \in Seq(Int) /\ n + 2 <= x.s
  BY <1>1, LetterType
<1>3. /\ w \in Seq(Int) /\ Len(w) = x.s
      /\ \A k \in 1..x.s : w[k] = IF k > 0 /\ k <= 0 + n THEN u[k - 0] ELSE x.ptr[k]
  <2> DEFINE p == x.ptr
  <2>3. 0 + Len(u) <= x.s
    <3>1. \A a, b \in Nat : a + 2 <= b => 0 + a <= b
      OBVIOUS
    <3> QED BY <1>1, <1>2, <3>1
  <2>1. p \in Seq(Int) /\ 0 \in Nat /\ 0 + Len(u) <= Len(p) /\ Len(p) = x.s
    BY <1>1, <2>3
  <2> HIDE DEF p
  <2>2. /\ Write(p, 0, u) \in Seq(Int) /\ Len(Write(p, 0, u)) = Len(p)
        /\ \A k \in 1..Len(p) :
              Write(p, 0, u)[k] = IF k > 0 /\ k <= 0 + Len(u) THEN u[k - 0] ELSE p[k]
    BY <1>2, <2>1, WriteOf
  <2> QED BY <2>1, <2>2 DEF p
<1> HIDE DEF w
<1>4. y \in BUFFER /\ y.ptr = w /\ y.s = x.s
  BY <1>1, <1>3 DEF BUFFER
<1>5. [x EXCEPT !.ptr = Write(@, 0, u)] = y
  BY <1>1 DEF BUFFER, w
<1> HIDE DEF y
<1>6. \A k \in 1..n : y.ptr[k] = u[k]
  <2> TAKE k \in 1..n
  <2> HIDE DEF n
  <2>1. k \in 1..x.s /\ k > 0 /\ k <= 0 + n /\ k - 0 = k
    BY <1>1, <1>2
  <2> QED BY <1>3, <1>4, <2>1
<1> HIDE DEF n
<1>7. n = Len(u) /\ n + 1 <= y.s /\ Len(y.ptr) = y.s /\ n + 2 <= y.s
  BY <1>1, <1>2, <1>3, <1>4 DEF n
<1>8. Keeps(EndedAt(y, n), u)
  BY <1>4, <1>6, <1>7, EndedKeeps
<1> QED BY <1>5, <1>8 DEF n

LEMMA StripKeeps ==
    ASSUME NEW x, NEW t, Keeps(x, t)
    PROVE  Keeps(stripSlashes(x), Stripped(t))
<1> DEFINE n == Len(t)
           d == CHOOSE f : IsStripped(f, t)
           h == WrittenRun(x, n)
<1>1. /\ t \in Seq(Letters) /\ n \in Nat /\ x.stringlen = n /\ \A k \in 1..n : x.ptr[k] = t[k]
      /\ \A k \in 1..n : t[k] \in Letters
  <2>1. t \in Seq(Letters) /\ x.stringlen = n /\ \A k \in 1..n : x.ptr[k] = t[k]
    BY KeepsType
  <2> QED BY <2>1
<1>2. /\ Stripped(t) = d[n] /\ d[0] = <<>>
      /\ \A k \in 1..n : d[k] = IF t[k] = Slash /\ k < n THEN d[k - 1] ELSE Append(d[k - 1], t[k])
      /\ \A k \in 0..n : d[k] \in Seq(Letters)
  BY <1>1, StrippedRun
<1> HIDE DEF d
<1>3. CASE n = 0
  <2>1. t = <<>> /\ Stripped(t) = <<>>
    BY <1>1, <1>2, <1>3, NoLetters
  <2> QED BY <1>1, <1>3, <2>1 DEF stripSlashes
<1>4. CASE n > 0
  <2>1. strlen(x.ptr) = n
    BY <1>4, CountedLength
  <2>2. \A k \in 1..n : k > 1 => /\ k - 1 \in 1..n /\ k - 1 < n /\ x.ptr[k - 1] = t[k - 1]
                                 /\ d[k - 1] = IF t[k - 1] = Slash THEN d[k - 2]
                                               ELSE Append(d[k - 2], t[k - 1])
    <3> TAKE k \in 1..n
    <3> SUFFICES ASSUME k > 1
                 PROVE  /\ k - 1 \in 1..n /\ k - 1 < n /\ x.ptr[k - 1] = t[k - 1]
                        /\ d[k - 1] = IF t[k - 1] = Slash THEN d[k - 2]
                                      ELSE Append(d[k - 2], t[k - 1])
      OBVIOUS
    <3>1. k - 1 \in 1..n /\ k - 1 < n /\ (k - 1) - 1 = k - 2
      BY <1>1
    <3> HIDE DEF n
    <3>2. d[k - 1] = IF t[k - 1] = Slash /\ k - 1 < n THEN d[(k - 1) - 1]
                     ELSE Append(d[(k - 1) - 1], t[k - 1])
      BY <1>2, <3>1
    <3> QED BY <1>1, <3>1, <3>2
  <2>3. \E f : IsWritten(f, x, n)
    <3> DEFINE f == [p \in 0..n |-> IF p = 0 THEN <<>> ELSE d[p - 1]]
    <3>1. \A p \in 0..n : f[p] = IF p <= 1 THEN <<>>
                                 ELSE IF x.ptr[p - 1] = Slash THEN f[p - 1]
                                      ELSE Append(f[p - 1], x.ptr[p - 1])
      <4> TAKE p \in 0..n
      <4>1. CASE p = 0
        BY <4>1
      <4>2. CASE p = 1
        <5>1. p - 1 = 0 /\ p # 0 /\ p <= 1
          BY <4>2
        <5> QED BY <1>2, <5>1
      <4>3. CASE p > 1
        <5>1. p \in 1..n /\ p - 1 \in 0..n /\ p # 0 /\ p - 1 # 0 /\ (p - 1) - 1 = p - 2 /\ ~(p <= 1)
          BY <1>1, <4>3
        <5>2. f[p - 1] = d[p - 2] /\ f[p] = d[p - 1]
          BY <5>1
        <5> HIDE DEF f, n
        <5> QED BY <2>2, <4>3, <5>1, <5>2
      <4> QED BY <4>1, <4>2, <4>3
    <3>2. f = [p \in 0..n |-> f[p]]
      OBVIOUS
    <3> HIDE DEF f, n
    <3>3. f = [p \in 0..n |-> IF p <= 1 THEN <<>>
                              ELSE IF x.ptr[p - 1] = Slash THEN f[p - 1]
                                   ELSE Append(f[p - 1], x.ptr[p - 1])]
      BY <3>1, <3>2
    <3> QED BY <3>3 DEF IsWritten
  <2>4. \A p \in 0..n : h[p] = IF p <= 1 THEN <<>>
                               ELSE IF x.ptr[p - 1] = Slash THEN h[p - 1]
                                    ELSE Append(h[p - 1], x.ptr[p - 1])
    <3>1. IsWritten(h, x, n)
      BY <2>3 DEF WrittenRun
    <3> HIDE DEF h, n
    <3> QED BY <3>1 DEF IsWritten
  <2>5. stripSlashes(x) = LET all == IF n = 0 THEN h[n] ELSE Append(h[n], x.ptr[n])
                          IN  EndedAt([x EXCEPT !.ptr = Write(@, 0, all)], Len(all))
    <3> QED BY <1>1, <1>4, <2>1, WrittenChosen
  <2> HIDE DEF h
  <2>6. \A p \in 1..n : h[p] = d[p - 1] /\ Len(h[p]) <= p - 1
    <3> DEFINE S == [p \in 0..n |->
                        {e \in Seq(Letters) : p > 0 => e = d[p - 1] /\ Len(e) <= p - 1}]
    <3>1. h[0] \in S[0]
      <4>1. h[0] = <<>> /\ 0 \in 0..n
        BY <1>1, <2>4
      <4> QED BY <4>1
    <3>2. \A p \in 1..n : h[p - 1] \in S[p - 1] => h[p] \in S[p]
      <4> TAKE p \in 1..n
      <4> SUFFICES ASSUME h[p - 1] \in S[p - 1] PROVE h[p] \in S[p]
        OBVIOUS
      <4>1. p - 1 \in 0..n /\ p \in 0..n
        BY <1>1
      <4>2. h[p - 1] \in Seq(Letters) /\ (p - 1 > 0 => h[p - 1] = d[(p - 1) - 1] /\ Len(h[p - 1]) <= (p - 1) - 1)
        BY <4>1
      <4>3. CASE p = 1
        <5>1. h[p] = <<>> /\ d[p - 1] = <<>>
          BY <1>2, <2>4, <4>1, <4>3
        <5>2. h[p] \in Seq(Letters) /\ h[p] = d[p - 1] /\ Len(h[p]) <= p - 1
          BY <4>3, <5>1
        <5> QED BY <4>1, <5>2
      <4>4. CASE p > 1
        <5>1. /\ ~(p <= 1) /\ (p - 1) - 1 = p - 2 /\ p - 1 > 0 /\ p - 1 \in 1..n
          BY <4>1, <4>4
        <5>2. h[p - 1] = d[p - 2] /\ Len(h[p - 1]) <= p - 2 /\ h[p - 1] \in Seq(Letters)
          BY <4>2, <5>1
        <5>3. h[p] = IF x.ptr[p - 1] = Slash THEN h[p - 1] ELSE Append(h[p - 1], x.ptr[p - 1])
          <6> HIDE DEF n
          <6> QED BY <2>4, <4>1, <5>1
        <5>4. /\ x.ptr[p - 1] = t[p - 1] /\ t[p - 1] \in Letters
              /\ d[p - 1] = IF t[p - 1] = Slash THEN d[p - 2] ELSE Append(d[p - 2], t[p - 1])
          <6> HIDE DEF n
          <6> QED BY <1>1, <2>2, <4>4, <5>1
        <5>5. h[p] = d[p - 1]
          BY <5>2, <5>3, <5>4
        <5>6. h[p] \in Seq(Letters) /\ Len(h[p]) <= p - 1
          <6>1. CASE x.ptr[p - 1] = Slash
            BY <4>1, <5>2, <5>3, <6>1
          <6>2. CASE x.ptr[p - 1] # Slash
            <7>1. h[p] = Append(h[p - 1], t[p - 1])
              BY <5>3, <5>4, <6>2
            <7>2. h[p] \in Seq(Letters) /\ Len(h[p]) = Len(h[p - 1]) + 1 /\ Len(h[p - 1]) \in Nat
              BY <5>2, <5>4, <7>1, TextAppended
            <7> QED BY <4>1, <5>2, <7>2
          <6> QED BY <6>1, <6>2
        <5> QED BY <4>1, <5>5, <5>6
      <4> QED BY <4>1, <4>3, <4>4
    <3>3. \A p \in 0..n : h[p] \in S[p]
      <4> HIDE DEF S, n
      <4> QED BY <1>1, <3>1, <3>2, LoopKeeps
    <3> QED BY <3>3
  <2> DEFINE u == Append(h[n], x.ptr[n])
  <2>7. /\ u = Stripped(t) /\ u \in Seq(Letters) /\ Len(u) <= n
    <3>1. n \in 1..n /\ n - 1 \in 0..n /\ ~(n < n)
      BY <1>1, <1>4
    <3>2. h[n] = d[n - 1] /\ Len(h[n]) <= n - 1 /\ d[n - 1] \in Seq(Letters)
      <4> HIDE DEF n
      <4> QED BY <1>2, <2>6, <3>1
    <3>3. d[n] = Append(d[n - 1], t[n]) /\ x.ptr[n] = t[n] /\ t[n] \in Letters
      <4> HIDE DEF n
      <4> QED BY <1>1, <1>2, <3>1
    <3>4. u = d[n]
      BY <3>2, <3>3
    <3>5. Append(d[n - 1], t[n]) \in Seq(Letters) /\ Len(Append(d[n - 1], t[n])) = Len(d[n - 1]) + 1
      BY <3>2, <3>3, TextAppended
    <3> HIDE DEF u, n
    <3> QED BY <1>1, <1>2, <3>2, <3>3, <3>4, <3>5
  <2>8. stripSlashes(x) = EndedAt([x EXCEPT !.ptr = Write(@, 0, u)], Len(u))
    BY <1>4, <2>5
  <2> HIDE DEF u
  <2>9. Keeps(EndedAt([x EXCEPT !.ptr = Write(@, 0, u)], Len(u)), u)
    BY <1>4, <2>7, OverwrittenKeeps
  <2> QED BY <2>7, <2>8, <2>9
<1> QED BY <1>1, <1>3, <1>4

-----------------------------------------------------------------------------
(* String: what is replaced, match by match                                *)

LEMMA PartExtended ==
    ASSUME NEW t \in Seq(Letters), NEW i \in Nat, NEW j \in Nat, i <= j, j + 1 <= Len(t)
    PROVE  SubSeq(t, i + 1, j + 1) = Append(SubSeq(t, i + 1, j), t[j + 1])
<1> DEFINE v == SubSeq(t, i + 1, j)
           n == j + 1
           w == SubSeq(t, i + 1, n)
           c == t[n]
           a == Append(v, c)
<1>1. v \in Seq(Letters) /\ Len(v) = j - i /\ \A k \in 1..(j - i) : v[k] = t[i + k]
  <2>1. j <= Len(t)
    OBVIOUS
  <2> QED BY <2>1, PartOf
<1>2. n \in Nat /\ i <= n /\ n <= Len(t) /\ n - i = (j - i) + 1 /\ i + (n - i) = n /\ n \in 1..Len(t)
  OBVIOUS
<1>3. c \in Letters
  <2> HIDE DEF n
  <2> QED BY <1>2
<1> HIDE DEF v, c
<1>4. w \in Seq(Letters) /\ Len(w) = n - i /\ \A k \in 1..(n - i) : w[k] = t[i + k]
  <2> HIDE DEF n
  <2> QED BY <1>2, PartOf
<1> HIDE DEF w, n
<1>5. /\ a \in Seq(Letters) /\ Len(a) = Len(v) + 1 /\ \A k \in 1..Len(v) : a[k] = v[k]
      /\ a[Len(v) + 1] = c
  BY <1>1, <1>3, TextAppended
<1> HIDE DEF a
<1>6. \A k \in 1..Len(w) : w[k] = a[k]
  <2> TAKE k \in 1..Len(w)
  <2>1. CASE k <= Len(v)
    <3>1. k \in 1..Len(v) /\ k \in 1..(j - i) /\ k \in 1..(n - i)
      BY <1>1, <1>2, <1>4, <2>1
    <3> QED BY <1>1, <1>4, <1>5, <3>1
  <2>2. CASE k = Len(v) + 1
    <3>1. i + k = n /\ k \in 1..(n - i)
      BY <1>1, <1>2, <1>4, <2>2
    <3> QED BY <1>4, <1>5, <2>2, <3>1 DEF c
  <2> QED BY <1>1, <1>2, <1>4, <2>1, <2>2
<1>7. w = a
  <2>1. Len(w) = Len(a)
    BY <1>1, <1>2, <1>4, <1>5
  <2> QED BY <1>4, <1>5, <1>6, <2>1, SameText
<1> QED BY <1>7 DEF w, a, v, c, n

LEMMA TextOfAppend ==
    ASSUME NEW u \in Seq(Letters), NEW v \in Seq(Letters), NEW c \in Letters
    PROVE  TextOf(u, Append(v, c)) = Append(TextOf(u, v), c)
<1> DEFINE a == Append(v, c)
           l == TextOf(u, a)
           b == TextOf(u, v)
           r == Append(b, c)
           m == Len(u)
           n == Len(v)
<1>1. /\ a \in Seq(Letters) /\ Len(a) = n + 1 /\ n \in Nat /\ \A k \in 1..n : a[k] = v[k]
      /\ a[n + 1] = c
  BY TextAppended
<1> HIDE DEF a
<1>2. /\ l \in Seq(Letters) /\ Len(l) = m + Len(a) /\ m \in Nat
      /\ \A k \in Nat \ {0} : k <= m => l[k] = u[k]
      /\ \A k \in Nat \ {0} : k > m /\ k <= m + Len(a) => l[k] = a[k - m]
  BY <1>1, TextOfType
<1>3. /\ b \in Seq(Letters) /\ Len(b) = m + n
      /\ \A k \in Nat \ {0} : k <= m => b[k] = u[k]
      /\ \A k \in Nat \ {0} : k > m /\ k <= m + n => b[k] = v[k - m]
  BY TextOfType
<1> HIDE DEF l, b
<1>4. /\ r \in Seq(Letters) /\ Len(r) = Len(b) + 1 /\ \A k \in 1..Len(b) : r[k] = b[k]
      /\ r[Len(b) + 1] = c
  BY <1>3, TextAppended
<1> HIDE DEF r, m, n
<1>5. Len(l) = m + n + 1 /\ Len(r) = m + n + 1 /\ m + n \in Nat
  BY <1>1, <1>2, <1>3, <1>4
<1>6. \A k \in 1..Len(l) : l[k] = r[k]
  <2> TAKE k \in 1..Len(l)
  <2>1. k \in Nat \ {0} /\ k <= m + n + 1
    BY <1>5
  <2>2. CASE k <= m
    <3>1. k \in 1..Len(b)
      BY <1>1, <1>2, <1>3, <2>1, <2>2
    <3> QED BY <1>2, <1>3, <1>4, <2>1, <2>2, <3>1
  <2>3. CASE k > m /\ k <= m + n
    <3>1. k \in 1..Len(b) /\ k - m \in 1..n /\ k <= m + Len(a)
      <4>1. n \in Nat /\ m \in Nat /\ Len(b) = m + n /\ Len(a) = n + 1
        BY <1>1, <1>2, <1>3
      <4> QED BY <2>1, <2>3, <4>1
    <3> QED BY <1>1, <1>2, <1>3, <1>4, <2>1, <2>3, <3>1
  <2>4. CASE k = m + n + 1
    <3>1. k = Len(b) + 1 /\ k - m = n + 1 /\ k > m /\ k <= m + Len(a)
      <4>1. n \in Nat /\ m \in Nat /\ Len(b) = m + n /\ Len(a) = n + 1
        BY <1>1, <1>2, <1>3
      <4> QED BY <2>1, <2>4, <4>1
    <3> QED BY <1>1, <1>2, <1>4, <2>1, <3>1
  <2> QED BY <1>1, <1>2, <2>1, <2>2, <2>3, <2>4
<1>7. l = r
  BY <1>2, <1>4, <1>5, <1>6, SameText
<1> QED BY <1>7 DEF l, r, a, b

\* The part that mid() takes ...
PartText(t, i, j) == SubSeq(t, i + 1, j)

LEMMA MidLetters ==
    ASSUME NEW x, NEW t, Keeps(x, t), NEW i \in Nat, NEW j \in Nat, i <= j, j <= Len(t),
           NEW n \in Nat, (IF n <= Len(t) - i THEN n ELSE Len(t) - i) = j - i
    PROVE  mid(x, i, n) = PartText(t, i, j)
<1> DEFINE u == mid(x, i, n)
           v == SubSeq(t, i + 1, j)
           d == j - i
           l == Len(t)
<1>1. t \in Seq(Letters) /\ l \in Nat
  BY KeepsType
<1>2. v \in Seq(Letters) /\ Len(v) = d /\ \A k \in 1..d : v[k] = t[i + k]
  BY <1>1, PartOf
<1>3. (IF i > l THEN 0 ELSE Min({n, l - i})) = d
  <2>1. l - i \in Int /\ n \in Int
    BY <1>1
  <2>2. Min({n, l - i}) = IF n <= l - i THEN n ELSE l - i
    <3> DEFINE e == l - i
    <3>1. e \in Int /\ n \in Int
      BY <2>1
    <3> HIDE DEF e
    <3>2. Min({n, e}) = IF n <= e THEN n ELSE e
      BY <3>1, SmallestOf
    <3> QED BY <3>2 DEF e
  <2> DEFINE z == Min({n, l - i})
  <2>3. z = IF n <= l - i THEN n ELSE l - i
    BY <2>2
  <2> HIDE DEF z
  <2>4. (IF i > l THEN 0 ELSE z) = d
    BY <1>1, <2>3
  <2> QED BY <2>4 DEF z
<1>4. u \in Seq(Letters) /\ u = [k \in 1..d |-> t[i + k]]
  <2>1. mid(x, i, n) \in Seq(Letters)
    BY MidOf
  <2>2. mid(x, i, n) = MidText(t, i, n)
    BY MidOf
  <2> DEFINE z == IF i > l THEN 0 ELSE Min({n, l - i})
  <2>3. u = [k \in 1..z |-> t[i + k]]
    BY <2>2 DEF MidText
  <2>4. z = d
    BY <1>3
  <2> HIDE DEF z, d
  <2> QED BY <2>1, <2>3, <2>4
<1> HIDE DEF u, v
<1>5. d \in Nat
  OBVIOUS
<1> HIDE DEF d
<1>6. Len(u) = d /\ \A k \in 1..d : u[k] = t[i + k]
  BY <1>4, <1>5
<1>7. u = v
  BY <1>2, <1>4, <1>6, SameText
<1> QED BY <1>7 DEF u, v, PartText

\* ... is the part that is asked for, or all that is left.
LEMMA MidPart ==
    ASSUME NEW x, NEW t, Keeps(x, t), NEW i \in Nat, NEW j \in Nat, i <= j, j <= Len(t),
           NEW n \in Nat, n = j - i
    PROVE  mid(x, i, n) = PartText(t, i, j)
<1> DEFINE l == Len(t)
<1>1. l \in Nat
  BY KeepsType
<1>2. (IF n <= l - i THEN n ELSE l - i) = j - i
  BY <1>1
<1> QED BY <1>2, MidLetters

LEMMA MidRest ==
    ASSUME NEW x, NEW t, Keeps(x, t), NEW i \in Nat, NEW j \in Nat, j = Len(t), i <= j,
           NEW n \in Nat, n >= j - i
    PROVE  mid(x, i, n) = PartText(t, i, j)
<1>1. (IF n <= Len(t) - i THEN n ELSE Len(t) - i) = j - i
  OBVIOUS
<1>2. j <= Len(t)
  OBVIOUS
<1> QED BY <1>1, <1>2, MidLetters

\* Letters that are no match are put out one after the other.
LEMMA BetweenMatches ==
    ASSUME NEW t \in Seq(Letters), NEW s \in Seq(Letters), NEW r, NEW d, Replacing(d, t, s, r),
           NEW i \in Nat, NEW j \in Nat, i <= j, j <= Len(t), d[i].skip = 0,
           \A k \in Positions(t, s) : ~(k >= i /\ k < j)
    PROVE  d[j].skip = 0 /\ d[j].out = TextOf(d[i].out, SubSeq(t, i + 1, j))
<1> DEFINE n == Len(t)
           u == d[i].out
           Q(e, k) == e.skip = 0 /\ e.out = TextOf(u, SubSeq(t, i + 1, k))
           S == [k \in 0..n |-> {e \in LETTERWISE : k >= i /\ k <= j => Q(e, k)}]
<1>1. /\ n \in Nat /\ \A k \in 1..n : d[k] = LetterTurn(t, s, r, d[k - 1], k)
      /\ \A k \in 0..n : d[k] \in LETTERWISE
      /\ \A k \in 1..n : t[k] \in Letters
  BY DEF Replacing
<1>2. d[i] \in LETTERWISE /\ u \in Seq(Letters)
  <2>1. i \in 0..n
    BY <1>1
  <2> HIDE DEF n
  <2>2. d[i] \in LETTERWISE
    BY <1>1, <2>1
  <2> QED BY <2>2 DEF LETTERWISE
<1>3. Q(d[i], i)
  <2> DEFINE v == SubSeq(t, i + 1, i)
  <2>1. v = <<>>
    BY <1>1, NoPart
  <2>2. TextOf(u, <<>>) = u
    <3> HIDE DEF u
    <3> QED BY <1>2 DEF TextOf
  <2> QED BY <2>1, <2>2
<1> HIDE DEF u
<1>4. ASSUME NEW k \in 1..n, k > i, k <= j, Q(d[k - 1], k - 1) PROVE Q(d[k], k)
  <2> DEFINE e == d[k - 1]
             m == k - 1
             v == SubSeq(t, i + 1, m)
  <2>1. m \in Nat /\ i <= m /\ m + 1 <= Len(t) /\ m + 1 = k /\ m \in 0..n /\ m >= i /\ m < j
    BY <1>1, <1>4
  <2>2. e \in LETTERWISE /\ e.skip = 0 /\ e.out = TextOf(u, v)
    <3> HIDE DEF n
    <3> QED BY <1>1, <1>4, <2>1
  <2> HIDE DEF e, m, v, n
  <2>3. d[k] = LetterTurn(t, s, r, e, k)
    BY <1>1 DEF e
  <2>4. k - 1 \notin Positions(t, s)
    BY <2>1 DEF m
  <2>5. d[k] = [e EXCEPT !.out = Append(@, t[k])]
    BY <2>2, <2>3, <2>4 DEF LetterTurn
  <2>6. d[k].skip = 0 /\ d[k].out = Append(TextOf(u, v), t[k])
    BY <2>2, <2>5 DEF LETTERWISE
  <2>7. v \in Seq(Letters)
    <3>1. m <= Len(t)
      BY <2>1
    <3> QED BY <2>1, <3>1, PartOf DEF v
  <2>8. SubSeq(t, i + 1, k) = Append(v, t[k])
    <3>1. SubSeq(t, i + 1, m + 1) = Append(SubSeq(t, i + 1, m), t[m + 1])
      BY <2>1, PartExtended
    <3> QED BY <2>1, <3>1 DEF v
  <2>9. TextOf(u, Append(v, t[k])) = Append(TextOf(u, v), t[k])
    BY <1>1, <1>2, <2>7, TextOfAppend
  <2> QED BY <2>6, <2>8, <2>9
<1> HIDE DEF Q
<1>5. \A k \in 0..n : d[k] \in S[k]
  <2>1. d[0] \in S[0]
    <3>1. 0 \in 0..n /\ d[0] \in LETTERWISE
      BY <1>1
    <3>2. 0 >= i => i = 0
      OBVIOUS
    <3>3. 0 >= i /\ 0 <= j => Q(d[0], 0)
      BY <1>3, <3>2
    <3> HIDE DEF n
    <3> QED BY <3>1, <3>3
  <2>2. \A k \in 1..n : d[k - 1] \in S[k - 1] => d[k] \in S[k]
    <3> TAKE k \in 1..n
    <3> SUFFICES ASSUME d[k - 1] \in S[k - 1] PROVE d[k] \in S[k]
      OBVIOUS
    <3>1. k - 1 \in 0..n /\ k \in 0..n
      BY <1>1
    <3>2. k - 1 >= i /\ k - 1 <= j => Q(d[k - 1], k - 1)
      BY <3>1
    <3>3. k >= i /\ k <= j => Q(d[k], k)
      <4>1. CASE k = i
        BY <1>3, <4>1
      <4>2. CASE k > i /\ k <= j
        <5>1. k - 1 >= i /\ k - 1 <= j
          BY <1>1, <4>2
        <5> HIDE DEF n
        <5> QED BY <1>4, <3>2, <4>2, <5>1
      <4>3. k >= i /\ k <= j => k = i \/ (k > i /\ k <= j)
        BY <1>1
      <4> QED BY <4>1, <4>2, <4>3
    <3>4. d[k] \in LETTERWISE
      <4> HIDE DEF n
      <4> QED BY <1>1, <3>1
    <3> QED BY <3>1, <3>3, <3>4
  <2> HIDE DEF S, n
  <2> QED BY <1>1, <2>1, <2>2, LoopKeeps
<1>6. Q(d[j], j)
  <2>1. j \in 0..n /\ j >= i /\ j <= j
    BY <1>1
  <2> HIDE DEF n
  <2> QED BY <1>5, <2>1
<1> QED BY <1>6 DEF Q, u

\* A match is skipped, and the replacement put out.
LEMMA OverMatch ==
    ASSUME NEW t \in Seq(Letters), NEW s \in Seq(Letters), Len(s) > 0, NEW r \in Seq(Letters),
           NEW d, Replacing(d, t, s, r), NEW i \in Positions(t, s), d[i].skip = 0
    PROVE  /\ i \in Nat /\ i + Len(s) <= Len(t)
           /\ d[i + Len(s)].skip = 0 /\ d[i + Len(s)].out = TextOf(d[i].out, r)
<1> DEFINE n == Len(t)
           m == Len(s)
           j == i + m
           u == TextOf(d[i].out, r)
           Q(e, k) == e.skip = j - k /\ e.out = u
           S == [k \in 0..n |-> {e \in LETTERWISE : k > i /\ k <= j => Q(e, k)}]
<1>1. /\ n \in Nat /\ \A k \in 1..n : d[k] = LetterTurn(t, s, r, d[k - 1], k)
      /\ \A k \in 0..n : d[k] \in LETTERWISE
  BY DEF Replacing
<1>2. i \in Nat /\ m \in Nat \ {0} /\ j <= n /\ j \in Nat /\ i + 1 \in 1..n /\ i + 1 <= j
  <2>1. m \in Nat /\ i \in Nat /\ i + m <= n
    <3> HIDE DEF m, n
    <3> QED BY PositionsType DEF m, n
  <2> HIDE DEF m, n
  <2>2. m > 0
    BY DEF m
  <2> QED BY <1>1, <2>1, <2>2
<1>3. Q(d[i + 1], i + 1)
  <2> DEFINE k == i + 1
             e == d[i]
  <2>1. k - 1 = i /\ k \in 1..n /\ i \in 0..n /\ j - k = m - 1
    BY <1>1, <1>2
  <2> HIDE DEF k, n
  <2>2. d[k] = LetterTurn(t, s, r, d[k - 1], k)
    BY <1>1, <2>1
  <2>3. ~(e.skip > 0) /\ k - 1 \in Positions(t, s) /\ d[k - 1] = e
    BY <2>1
  <2> HIDE DEF e
  <2>4. d[k] = [out |-> TextOf(e.out, r), skip |-> m - 1]
    BY <2>2, <2>3 DEF LetterTurn, TextOf
  <2>5. d[k].skip = m - 1 /\ d[k].out = TextOf(e.out, r)
    <3> HIDE DEF m
    <3> QED BY <2>4
  <2> QED BY <2>1, <2>5 DEF e, k
<1> HIDE DEF u
<1>4. ASSUME NEW k \in 1..n, k > i + 1, k <= j, Q(d[k - 1], k - 1) PROVE Q(d[k], k)
  <2> DEFINE e == d[k - 1]
  <2>1. e \in LETTERWISE /\ e.skip = j - (k - 1) /\ e.out = u
    <3>1. k - 1 \in 0..n
      BY <1>1
    <3> HIDE DEF n, j
    <3> QED BY <1>1, <1>4, <3>1
  <2>2. e.skip > 0 /\ e.skip - 1 = j - k
    <3> HIDE DEF n, j, e
    <3> QED BY <1>1, <1>2, <1>4, <2>1
  <2>3. d[k] = LetterTurn(t, s, r, e, k)
    <3> HIDE DEF n
    <3> QED BY <1>1
  <2> HIDE DEF e, j, n
  <2>4. d[k] = [e EXCEPT !.skip = @ - 1]
    BY <2>2, <2>3 DEF LetterTurn
  <2>5. d[k].skip = e.skip - 1 /\ d[k].out = e.out
    BY <2>1, <2>4 DEF LETTERWISE
  <2> QED BY <2>1, <2>2, <2>5
<1> HIDE DEF Q, j
<1>5. \A k \in 0..n : d[k] \in S[k]
  <2>1. d[0] \in S[0]
    <3>1. 0 \in 0..n /\ d[0] \in LETTERWISE /\ ~(0 > i)
      BY <1>1, <1>2
    <3> HIDE DEF n
    <3> QED BY <3>1
  <2>2. \A k \in 1..n : d[k - 1] \in S[k - 1] => d[k] \in S[k]
    <3> TAKE k \in 1..n
    <3> SUFFICES ASSUME d[k - 1] \in S[k - 1] PROVE d[k] \in S[k]
      OBVIOUS
    <3>1. k - 1 \in 0..n /\ k \in 0..n
      BY <1>1
    <3>2. k - 1 > i /\ k - 1 <= j => Q(d[k - 1], k - 1)
      BY <3>1
    <3>3. k > i /\ k <= j => Q(d[k], k)
      <4>1. CASE k = i + 1
        BY <1>3, <4>1
      <4>2. CASE k > i + 1 /\ k <= j
        <5>1. k - 1 > i /\ k - 1 <= j
          BY <1>1, <1>2, <4>2
        <5> HIDE DEF n
        <5> QED BY <1>4, <3>2, <4>2, <5>1
      <4>3. k > i /\ k <= j => k = i + 1 \/ (k > i + 1 /\ k <= j)
        BY <1>1, <1>2
      <4> QED BY <4>1, <4>2, <4>3
    <3>4. d[k] \in LETTERWISE
      <4> HIDE DEF n
      <4> QED BY <1>1, <3>1
    <3> QED BY <3>1, <3>3, <3>4
  <2> HIDE DEF S, n
  <2> QED BY <1>1, <2>1, <2>2, LoopKeeps
<1>6. Q(d[j], j)
  <2>1. j \in 0..n /\ j > i /\ j <= j
    BY <1>1, <1>2
  <2> HIDE DEF n
  <2> QED BY <1>5, <2>1
<1>7. d[j].skip = 0 /\ d[j].out = u
  BY <1>2, <1>6 DEF Q
<1> QED BY <1>2, <1>7 DEF u, j

MATCHWISE == [start : Nat, ms : Seq(Letters)]

MatchTurn(x, search, replacement, e) ==
    LET end == find(x, search, e.start)
    IN  IF end < 0 THEN e
        ELSE [start |-> end + Len(search),
              ms    |-> e.ms \o mid(x, e.start, end - e.start) \o replacement]

IsReplaced(f, x, search, replacement) ==
    f = [k \in 0..x.stringlen |-> IF k = 0 THEN [start |-> 0, ms |-> <<>>]
                                  ELSE MatchTurn(x, search, replacement, f[k - 1])]

MatchRun(x, search, replacement) == CHOOSE f : IsReplaced(f, x, search, replacement)

LEMMA ReplacedChosen ==
    ASSUME NEW x, NEW search, NEW replacement
    PROVE  Replaced(x, search, replacement)
               = LET done == MatchRun(x, search, replacement)[x.stringlen]
                 IN  done.ms \o mid(x, done.start, x.stringlen)
BY DEF Replaced, IsReplaced, MatchTurn, MatchRun

\* So far the matches have been taken as they are found letter by letter, and
\* j of them, or all.
MatchesTaken(e, j, t, s, d) ==
    /\ e \in MATCHWISE /\ e.start <= Len(t)
    /\ d[e.start].skip = 0 /\ d[e.start].out = e.ms
    /\ e.start >= j \/ \A k \in Positions(t, s) : k < e.start

LEMMA MatchTaken ==
    ASSUME NEW x, NEW t, Keeps(x, t), NEW s \in Seq(Letters), Len(s) > 0,
           NEW r \in Seq(Letters), NEW d, Replacing(d, t, s, r),
           NEW j \in Nat, NEW e, MatchesTaken(e, j, t, s, d)
    PROVE  MatchesTaken(MatchTurn(x, s, r, e), j + 1, t, s, d)
<1> DEFINE i == e.start
           P == Positions(t, s)
           R == {k \in P : k >= i}
           q == FirstPosition(R)
           m == Len(s)
           n == Len(t)
           w == MatchTurn(x, s, r, e)
<1>1. t \in Seq(Letters) /\ n \in Nat /\ m \in Nat \ {0}
  BY KeepsType
<1>2. /\ i \in Nat /\ e.ms \in Seq(Letters) /\ i <= n /\ d[i].skip = 0 /\ d[i].out = e.ms
      /\ i >= j \/ \A k \in P : k < i
      /\ e \in MATCHWISE
  BY DEF MatchesTaken, MATCHWISE
<1>3. P \in SUBSET Nat /\ \A k \in P : k + m <= n
  BY <1>1, PositionsType
<1>4. find(x, s, i) = q
  <2> HIDE DEF i
  <2> QED BY <1>2, FindForwards
<1>5. /\ q \in Int /\ (R = {} => q = -1)
      /\ (R # {} => q \in R /\ q >= 0 /\ \A y \in R : q <= y)
  <2>1. R \in SUBSET Nat
    BY <1>3
  <2> HIDE DEF R
  <2> QED BY <2>1, FirstOne
<1> HIDE DEF i, P, q
<1>6. CASE q < 0
  <2>1. w = e
    BY <1>4, <1>6 DEF MatchTurn, i
  <2>2. \A k \in P : k < i
    <3>1. R = {}
      BY <1>5, <1>6
    <3> TAKE k \in P
    <3>2. ~(k >= i) /\ k \in Nat
      BY <1>3, <3>1
    <3> QED BY <1>2, <3>2
  <2>3. MatchesTaken(e, j + 1, t, s, d)
    BY <1>2, <2>2 DEF MatchesTaken, i, P
  <2> QED BY <2>1, <2>3
<1>7. CASE q >= 0
  <2>1. q \in P /\ q >= i /\ q \in Nat /\ q + m <= n /\ \A y \in R : q <= y
    <3>1. R # {}
      BY <1>5, <1>7
    <3>2. q \in R
      BY <1>5, <3>1
    <3> QED BY <1>3, <1>5, <3>1, <3>2
  <2> DEFINE v == SubSeq(t, i + 1, q)
             a == q - i
             o == TextOf(TextOf(e.ms, v), r)
  <2>2. d[q].skip = 0 /\ d[q].out = TextOf(d[i].out, v)
    <3>1. \A k \in Positions(t, s) : ~(k >= i /\ k < q)
      <4> TAKE k \in Positions(t, s)
      <4>1. k \in P /\ k \in Nat
        BY <1>3 DEF P
      <4>2. k >= i => q <= k
        BY <2>1, <4>1
      <4> QED BY <2>1, <4>1, <4>2
    <3>2. q <= Len(t)
      BY <1>1, <2>1
    <3> QED BY <1>1, <1>2, <2>1, <3>1, <3>2, BetweenMatches
  <2>3. d[q + m].skip = 0 /\ d[q + m].out = TextOf(d[q].out, r)
    <3>1. q \in Positions(t, s)
      BY <2>1 DEF P
    <3> QED BY <1>1, <2>2, <3>1, OverMatch
  <2>4. mid(x, i, a) = v
    <3>1. a \in Nat /\ q <= Len(t) /\ a = q - i /\ i <= q /\ i \in Nat /\ q \in Nat
      BY <1>1, <1>2, <2>1
    <3> HIDE DEF a
    <3>2. mid(x, i, a) = PartText(t, i, q)
      BY <3>1, MidPart
    <3> QED BY <3>2 DEF PartText
  <2>5. v \in Seq(Letters)
    <3>1. q <= Len(t)
      BY <1>1, <2>1
    <3> QED BY <1>1, <1>2, <2>1, <3>1, PartOf
  <2> HIDE DEF v, a
  <2>6. TextOf(e.ms, v) \in Seq(Letters) /\ o \in Seq(Letters)
    <3>1. TextOf(e.ms, v) \in Seq(Letters)
      <4> DEFINE z == e.ms
      <4>1. z \in Seq(Letters)
        BY <1>2
      <4> HIDE DEF z
      <4>2. TextOf(z, v) \in Seq(Letters)
        BY <2>5, <4>1, TextOfType
      <4> QED BY <4>2 DEF z
    <3> DEFINE z == TextOf(e.ms, v)
    <3> HIDE DEF z
    <3>2. z \in Seq(Letters)
      BY <3>1 DEF z
    <3>3. TextOf(z, r) \in Seq(Letters)
      BY <3>2, TextOfType
    <3> QED BY <3>1, <3>3 DEF z
  <2>7. w = [start |-> q + m, ms |-> o]
    <3>1. w = [start |-> q + m, ms |-> e.ms \o mid(x, i, a) \o r]
      <4>1. ~(q < 0)
        BY <1>5, <1>7
      <4> QED BY <1>4, <4>1 DEF MatchTurn, i, a
    <3>2. e.ms \o mid(x, i, a) \o r = o
      BY <2>4 DEF TextOf
    <3> QED BY <3>1, <3>2
  <2> HIDE DEF o, w
  <2>8. w.start = q + m /\ w.ms = o /\ w \in MATCHWISE
    BY <1>1, <2>1, <2>6, <2>7 DEF MATCHWISE
  <2>9. w.start >= j + 1 \/ \A k \in P : k < w.start
    <3>1. q >= i /\ q \in Nat /\ i \in Nat /\ m > 0 /\ m \in Nat
      BY <1>1, <1>2, <2>1
    <3>2. CASE i >= j
      BY <2>8, <3>1, <3>2
    <3>3. CASE \A k \in P : k < i
      <4>1. \A k \in P : k \in Nat /\ k < i
        BY <1>3, <3>3
      <4> QED BY <2>8, <3>1, <4>1
    <3> QED BY <1>2, <3>2, <3>3
  <2>10. d[w.start].skip = 0 /\ d[w.start].out = w.ms
    BY <1>2, <2>2, <2>3, <2>8 DEF o
  <2>11. MatchesTaken(w, j + 1, t, s, d)
    BY <1>1, <2>1, <2>8, <2>9, <2>10 DEF MatchesTaken, P
  <2> QED BY <2>11 DEF w
<1> QED BY <1>5, <1>6, <1>7

\* The code, which looks for the next match, replaces what is replaced letter
\* by letter.
LEMMA ReplacedOf ==
    ASSUME NEW x, NEW t, Keeps(x, t), NEW s \in Seq(Letters), Len(s) > 0, NEW r \in Seq(Letters)
    PROVE  /\ Replaced(x, s, r) = ReplacedIn(t, s, r)
           /\ ReplacedIn(t, s, r) \in Seq(Letters)
           /\ Len(t) = 0 => ReplacedIn(t, s, r) = <<>>
<1> DEFINE n == Len(t)
           a == [start |-> 0, ms |-> <<>>]
           h == MatchRun(x, s, r)
<1>1. t \in Seq(Letters) /\ n \in Nat /\ x.stringlen = n
  BY KeepsType
<1>2. PICK d : Replacing(d, t, s, r)
  BY <1>1, ReplacedInRun
<1>3. /\ ReplacedIn(t, s, r) = d[n].out /\ d[0] = [out |-> <<>>, skip |-> 0]
      /\ \A k \in 0..n : d[k] \in LETTERWISE
  BY <1>2 DEF Replacing
<1> DEFINE Step(e) == MatchTurn(x, s, r, e)
           Inv(e, k) == MatchesTaken(e, k, t, s, d)
           S == [k \in 0..n |-> {e \in MATCHWISE : Inv(e, k)}]
           g == [e \in (1..n) \X MATCHWISE |-> Step(e[2])]
<1>4. a \in MATCHWISE /\ Inv(a, 0)
  <2>1. a \in MATCHWISE /\ a.start = 0 /\ a.ms = <<>>
    BY DEF MATCHWISE
  <2>2. d[0].skip = 0 /\ d[0].out = <<>>
    BY <1>3
  <2> HIDE DEF a
  <2> QED BY <1>1, <2>1, <2>2 DEF MatchesTaken
<1>5. ASSUME NEW k \in 1..n, NEW e \in MATCHWISE, Inv(e, k - 1)
      PROVE  Step(e) \in MATCHWISE /\ Inv(Step(e), k)
  <2>1. k - 1 \in Nat /\ (k - 1) + 1 = k
    BY <1>1
  <2> DEFINE j == k - 1
  <2> HIDE DEF j
  <2>2. j \in Nat /\ j + 1 = k /\ MatchesTaken(e, j, t, s, d)
    BY <1>5, <2>1 DEF j
  <2>3. MatchesTaken(MatchTurn(x, s, r, e), j + 1, t, s, d)
    BY <1>2, <2>2, MatchTaken
  <2> QED BY <2>2, <2>3 DEF MatchesTaken
<1> HIDE DEF Step, Inv, a
<1>6. a \in S[0] /\ \A k \in 1..n : \A e \in S[k - 1] : g[<<k, e>>] = Step(e) /\ g[<<k, e>>] \in S[k]
  <2>1. a \in S[0]
    BY <1>1, <1>4
  <2>2. ASSUME NEW k \in 1..n, NEW e \in S[k - 1] PROVE g[<<k, e>>] = Step(e) /\ g[<<k, e>>] \in S[k]
    <3>1. k - 1 \in 0..n /\ k \in 0..n
      BY <1>1
    <3>2. e \in MATCHWISE /\ Inv(e, k - 1)
      BY <3>1
    <3>3. g[<<k, e>>] = Step(e)
      BY <3>2
    <3>4. Step(e) \in MATCHWISE /\ Inv(Step(e), k)
      BY <1>5, <3>2
    <3> HIDE DEF g, n
    <3> QED BY <3>1, <3>3, <3>4
  <2> QED BY <2>1, <2>2
<1> HIDE DEF S, g
<1>7. PICK f : IsRun(f, n, a, g) /\ \A k \in 0..n : f[k] \in S[k]
  <2> HIDE DEF n
  <2> QED BY <1>1, <1>6, LoopRuns
<1>8. IsReplaced(f, x, s, r)
  <2>1. \A k \in 0..n : k # 0 => k \in 1..n /\ k - 1 \in 0..n
    BY <1>1
  <2>2. \A k \in 0..n : k # 0 => g[<<k, f[k - 1]>>] = Step(f[k - 1])
    <3> HIDE DEF n
    <3> QED BY <1>6, <1>7, <2>1
  <2>3. f = [k \in 0..n |-> IF k = 0 THEN a ELSE Step(f[k - 1])]
    <3> HIDE DEF n
    <3> QED BY <1>7, <2>2 DEF IsRun
  <2> QED BY <1>1, <2>3 DEF IsReplaced, Step, a
<1>9. h[0] = a /\ \A k \in 1..n : h[k] = Step(h[k - 1])
  <2>1. IsReplaced(h, x, s, r)
    BY <1>8 DEF MatchRun
  <2> HIDE DEF h
  <2>2. h = [k \in 0..n |-> IF k = 0 THEN a ELSE Step(h[k - 1])]
    BY <1>1, <2>1 DEF IsReplaced, Step, a
  <2>3. 0 \in 0..n /\ \A k \in 1..n : k \in 0..n /\ k # 0
    BY <1>1
  <2> HIDE DEF n
  <2> QED BY <2>2, <2>3
<1> HIDE DEF h
<1>10. \A k \in 0..n : h[k] \in S[k]
  <2>1. \A k \in 1..n : h[k - 1] \in S[k - 1] => h[k] \in S[k]
    BY <1>6, <1>9
  <2> HIDE DEF n
  <2> QED BY <1>1, <1>6, <1>9, <2>1, LoopKeeps
<1> DEFINE e == h[n]
           i == e.start
           v == SubSeq(t, i + 1, n)
<1>11. MatchesTaken(e, n, t, s, d)
  <2>1. n \in 0..n
    BY <1>1
  <2>2. e \in S[n]
    <3> HIDE DEF n
    <3> QED BY <1>10, <2>1
  <2> HIDE DEF e
  <2> QED BY <2>1, <2>2 DEF S, Inv
<1>12. Replaced(x, s, r) = e.ms \o mid(x, i, n)
  BY <1>1, ReplacedChosen DEF h
<1> HIDE DEF e
<1>13. /\ i \in Nat /\ i <= n /\ e.ms \in Seq(Letters) /\ d[i].skip = 0 /\ d[i].out = e.ms
       /\ i >= n \/ \A k \in Positions(t, s) : k < i
  BY <1>11 DEF MatchesTaken, MATCHWISE
<1> HIDE DEF i
<1>14. d[n].out = TextOf(d[i].out, v)
  <2>1. \A k \in Positions(t, s) : ~(k >= i /\ k < n)
    <3>1. \A k \in Positions(t, s) : k \in Nat
      BY <1>1, PositionsType
    <3> QED BY <1>1, <1>13, <3>1
  <2>2. n <= Len(t)
    BY <1>1
  <2> HIDE DEF n
  <2> QED BY <1>1, <1>2, <1>13, <2>1, <2>2, BetweenMatches
<1>15. mid(x, i, n) = v
  <2>1. n = Len(t) /\ n >= n - i
    BY <1>1, <1>13
  <2> HIDE DEF n
  <2>2. mid(x, i, n) = PartText(t, i, n)
    BY <1>1, <1>13, <2>1, MidRest
  <2> QED BY <2>2 DEF PartText
<1>16. Replaced(x, s, r) = d[n].out
  <2> HIDE DEF v, n
  <2> QED BY <1>12, <1>13, <1>14, <1>15 DEF TextOf
<1>17. d[n].out \in Seq(Letters) /\ (n = 0 => d[n].out = <<>>)
  <2>1. n \in 0..n
    BY <1>1
  <2>2. d[n] \in LETTERWISE
    <3> HIDE DEF n
    <3> QED BY <1>3, <2>1
  <2>3. n = 0 => d[n].out = <<>>
    BY <1>3
  <2> QED BY <2>2, <2>3 DEF LETTERWISE
<1> QED BY <1>3, <1>16, <1>17

LEMMA ReplaceKeeps ==
    ASSUME NEW x, NEW t, Keeps(x, t), NEW s \in Seq(Letters), NEW r \in Seq(Letters)
    PROVE  Keeps(replace(x, s, r), IF s = <<>> THEN t ELSE ReplacedIn(t, s, r))
<1>1. /\ x \in BUFFER /\ Len(x.ptr) = x.s /\ t \in Seq(Letters) /\ x.stringlen = Len(t)
  BY KeepsType
<1>2. CASE s = <<>>
  BY <1>2 DEF replace
<1>3. CASE s # <<>>
  <2> DEFINE u == ReplacedIn(t, s, r)
  <2>1. Len(s) > 0
    BY <1>3
  <2>2. Replaced(x, s, r) = u /\ u \in Seq(Letters) /\ (Len(t) = 0 => u = <<>>)
    BY <2>1, ReplacedOf
  <2> HIDE DEF u
  <2>3. CASE Len(t) = 0
    <3>1. t = u
      BY <1>1, <2>2, <2>3, NoLetters
    <3>2. replace(x, s, r) = x
      BY <1>1, <2>3 DEF replace
    <3> QED BY <1>3, <3>1, <3>2 DEF u
  <2>4. CASE Len(t) # 0
    <3>1. replace(x, s, r) = setText(x, u)
      BY <1>1, <1>3, <2>2, <2>4 DEF replace
    <3>2. Keeps(setText(x, u), u)
      BY <1>1, <2>2, SetKeeps
    <3> QED BY <1>3, <3>1, <3>2 DEF u
  <2> QED BY <2>3, <2>4
<1> QED BY <1>2, <1>3

-----------------------------------------------------------------------------
(* String: repeating and shifting                                          *)

CopyLetter(b, k) == b[((k - 1) % Len(b)) + 1]
CopiesText(b, n) == [k \in 1..n |-> b[((k - 1) % Len(b)) + 1]]

LEMMA RestOf ==
    ASSUME NEW i \in Nat, NEW m \in Nat \ {0}, NEW j \in Nat, j < m
    PROVE  (i * m + j) % m = j
<1> DEFINE x == i * m + j
           q == x \div m
           r == x % m
<1>1. x \in Nat
  <2>1. i * m \in Nat
    OBVIOUS
  <2> QED BY <2>1
<1>2. q \in Nat /\ r \in 0..(m - 1) /\ x = q * m + r
  <2>1. \A y \in Nat, w \in Nat \ {0} : y \div w \in Nat /\ y % w \in 0..(w - 1) /\ y = (y \div w) * w + (y % w)
    OBVIOUS
  <2> HIDE DEF x
  <2> QED BY <1>1, <2>1
<1>3. x = i * m + j
  OBVIOUS
<1> HIDE DEF x, q, r
<1> DEFINE d == q - i
<1>4. d \in Int /\ d * m = j - r
  <2>1. (q - i) * m = q * m - i * m
    BY <1>2
  <2>2. q * m \in Int /\ i * m \in Int
    BY <1>2
  <2> QED BY <1>2, <1>3, <2>1, <2>2
<1> HIDE DEF d
<1>5. d = 0
  <2>1. d >= 1 => d * m >= m
    BY <1>4
  <2>2. d <= -1 => d * m <= -m
    BY <1>4
  <2> QED BY <1>2, <1>4, <2>1, <2>2
<1>6. r = j
  BY <1>2, <1>4, <1>5
<1> QED BY <1>6 DEF r, x

LEMMA CopyLetterType ==
    ASSUME NEW b \in Seq(Letters), Len(b) > 0, NEW k \in Nat \ {0}
    PROVE  CopyLetter(b, k) \in Letters /\ (k <= Len(b) => CopyLetter(b, k) = b[k])
<1> DEFINE m == Len(b)
           j == k - 1
<1>1. m \in Nat \ {0} /\ j \in Nat
  OBVIOUS
<1>2. \A l \in 1..m : b[l] \in Letters
  OBVIOUS
<1>3. j % m \in 0..(m - 1) /\ (j < m => j % m = j)
  <2> HIDE DEF m, j
  <2> QED BY <1>1
<1>4. (j % m) + 1 \in 1..m /\ (k <= m => (j % m) + 1 = k)
  BY <1>1, <1>3
<1>5. CopyLetter(b, k) = b[(j % m) + 1]
  BY DEF CopyLetter
<1> HIDE DEF m, j
<1> QED BY <1>2, <1>4, <1>5 DEF m

LEMMA CopiesTextOf ==
    ASSUME NEW b \in Seq(Letters), Len(b) > 0, NEW n \in Nat
    PROVE  /\ CopiesText(b, n) \in Seq(Letters) /\ Len(CopiesText(b, n)) = n
           /\ \A k \in 1..n : CopiesText(b, n)[k] = CopyLetter(b, k)
<1>1. CopiesText(b, n) = [k \in 1..n |-> CopyLetter(b, k)]
  BY DEF CopiesText, CopyLetter
<1>2. \A k \in 1..n : CopyLetter(b, k) \in Letters
  BY CopyLetterType
<1> QED BY <1>1, <1>2

IsCopied(e, b, n) == e \in Seq(Letters) /\ Len(e) = n /\ \A k \in 1..n : e[k] = CopyLetter(b, k)

\* One copy more
LEMMA CopyTaken ==
    ASSUME NEW b \in Seq(Letters), Len(b) > 0, NEW i \in Nat, NEW e, IsCopied(e, b, i * Len(b))
    PROVE  IsCopied(TextOf(e, b), b, (i + 1) * Len(b))
<1> DEFINE m == Len(b)
           l == i * m
           u == TextOf(e, b)
<1>1. m \in Nat /\ m > 0 /\ l \in Nat /\ (i + 1) * m = l + m
  OBVIOUS
<1>2. e \in Seq(Letters) /\ Len(e) = l /\ \A k \in 1..l : e[k] = CopyLetter(b, k)
  BY DEF IsCopied
<1>3. \A j \in Nat : j < m => (l + j) % m = j
  <2> TAKE j \in Nat
  <2> HAVE j < m
  <2> HIDE DEF m
  <2> QED BY <1>1, RestOf
<1> HIDE DEF l
<1>4. /\ u \in Seq(Letters) /\ Len(u) = l + m
      /\ \A k \in Nat \ {0} : k <= l => u[k] = e[k]
      /\ \A k \in Nat \ {0} : k > l /\ k <= l + m => u[k] = b[k - l]
  BY <1>2, TextOfType
<1> HIDE DEF u
<1>5. ASSUME NEW k \in 1..(l + m) PROVE u[k] = CopyLetter(b, k)
  <2>1. CASE k <= l
    <3>1. k \in 1..l /\ k \in Nat \ {0}
      BY <2>1
    <3> QED BY <1>2, <1>4, <2>1, <3>1
  <2>2. CASE k > l
    <3> DEFINE j == k - l - 1
    <3>1. j \in Nat /\ j < m /\ l + j = k - 1 /\ j + 1 = k - l /\ k \in Nat \ {0} /\ k <= l + m
      BY <1>1, <2>2
    <3>2. (k - 1) % m = j
      <4> HIDE DEF j, m
      <4> QED BY <1>3, <3>1
    <3>3. CopyLetter(b, k) = b[((k - 1) % m) + 1]
      BY DEF CopyLetter
    <3>4. u[k] = b[k - l]
      BY <1>4, <2>2, <3>1
    <3> HIDE DEF j, m
    <3> QED BY <3>1, <3>2, <3>3, <3>4
  <2> QED BY <1>1, <2>1, <2>2
<1>6. IsCopied(u, b, l + m)
  BY <1>4, <1>5 DEF IsCopied
<1> QED BY <1>1, <1>6 DEF u

IsCopies(f, b, n) == f = [i \in 0..n |-> IF i = 0 THEN <<>> ELSE TextOf(f[i - 1], b)]

LEMMA CopiesChosen ==
    ASSUME NEW b, NEW n
    PROVE  Copies(b, n) = (CHOOSE f : IsCopies(f, b, n))[n]
BY DEF Copies, IsCopies, TextOf

LEMMA CopiesOf ==
    ASSUME NEW b \in Seq(Letters), Len(b) > 0, NEW n \in Nat
    PROVE  IsCopied(Copies(b, n), b, n * Len(b))
<1> DEFINE m == Len(b)
           T == Seq(Letters)
           S == [k \in 0..n |-> {e \in T : IsCopied(e, b, k * m)}]
           g == [e \in (1..n) \X T |-> TextOf(e[2], b)]
           a == <<>>
           h == CHOOSE f : IsCopies(f, b, n)
<1>1. m \in Nat /\ m > 0
  OBVIOUS
<1>2. a \in T /\ IsCopied(a, b, 0 * m)
  <2>1. 0 * m = 0 /\ a \in T /\ Len(a) = 0
    BY <1>1
  <2> HIDE DEF a, m
  <2> QED BY <2>1 DEF IsCopied
<1>3. ASSUME NEW k \in 1..n, NEW e, IsCopied(e, b, (k - 1) * m)
      PROVE  TextOf(e, b) \in T /\ IsCopied(TextOf(e, b), b, k * m)
  <2> DEFINE j == k - 1
  <2>1. j \in Nat /\ j + 1 = k
    OBVIOUS
  <2> HIDE DEF j
  <2>2. IsCopied(TextOf(e, b), b, (j + 1) * m)
    BY <1>3, <2>1, CopyTaken DEF j
  <2> QED BY <2>1, <2>2 DEF IsCopied
<1> HIDE DEF a
<1>4. a \in S[0] /\ \A k \in 1..n : \A e \in S[k - 1] : g[<<k, e>>] = TextOf(e, b) /\ g[<<k, e>>] \in S[k]
  <2>1. a \in S[0]
    BY <1>2
  <2>2. ASSUME NEW k \in 1..n, NEW e \in S[k - 1] PROVE g[<<k, e>>] = TextOf(e, b) /\ g[<<k, e>>] \in S[k]
    <3>1. k - 1 \in 0..n /\ k \in 0..n
      OBVIOUS
    <3>2. e \in T /\ IsCopied(e, b, (k - 1) * m)
      BY <3>1
    <3>3. g[<<k, e>>] = TextOf(e, b)
      BY <3>2
    <3>4. TextOf(e, b) \in T /\ IsCopied(TextOf(e, b), b, k * m)
      BY <1>3, <3>2
    <3> HIDE DEF g, m, T
    <3> QED BY <3>1, <3>3, <3>4
  <2> QED BY <2>1, <2>2
<1> HIDE DEF S, g
<1>5. PICK f : IsRun(f, n, a, g) /\ \A k \in 0..n : f[k] \in S[k]
  BY <1>4, LoopRuns
<1>6. IsCopies(f, b, n)
  <2>1. \A k \in 0..n : k # 0 => k \in 1..n /\ k - 1 \in 0..n
    OBVIOUS
  <2>2. \A k \in 0..n : k # 0 => g[<<k, f[k - 1]>>] = TextOf(f[k - 1], b)
    BY <1>4, <1>5, <2>1
  <2>3. f = [k \in 0..n |-> IF k = 0 THEN a ELSE TextOf(f[k - 1], b)]
    BY <1>5, <2>2 DEF IsRun
  <2> QED BY <2>3 DEF IsCopies, a
<1>7. h[0] = a /\ \A k \in 1..n : h[k] = TextOf(h[k - 1], b)
  <2>1. IsCopies(h, b, n)
    BY <1>6
  <2> HIDE DEF h
  <2>2. h = [k \in 0..n |-> IF k = 0 THEN a ELSE TextOf(h[k - 1], b)]
    BY <2>1 DEF IsCopies, a
  <2>3. 0 \in 0..n /\ \A k \in 1..n : k \in 0..n /\ k # 0
    OBVIOUS
  <2> QED BY <2>2, <2>3
<1>8. Copies(b, n) = h[n]
  BY CopiesChosen
<1> HIDE DEF h
<1>9. \A k \in 0..n : h[k] \in S[k]
  <2>1. \A k \in 1..n : h[k - 1] \in S[k - 1] => h[k] \in S[k]
    BY <1>4, <1>7
  <2> QED BY <1>4, <1>7, <2>1, LoopKeeps
<1>10. h[n] \in S[n] /\ n \in 0..n
  BY <1>9
<1> QED BY <1>8, <1>10 DEF S

\* A new buffer, of which the first letters are the text
LEMMA RebuiltKeeps ==
    ASSUME NEW w \in Seq(Letters), NEW u \in Seq(Letters), Len(u) <= Len(w),
           \A k \in 1..Len(u) : w[k] = u[k]
    PROVE  Keeps(rebuilt(w, Len(u)), u)
<1> DEFINE n == Len(u)
           l == Len(w)
           size == l + Slack
           p == Times(Junk, size)
           v == Write(p, 0, w)
           y == [ptr |-> v, s |-> size, stringlen |-> n]
<1>1. l \in Nat /\ n \in Nat /\ size \in Nat /\ l + 2 <= size /\ n <= l
  BY StringAssumption
<1> HIDE DEF size
<1>2. p \in Seq(Int) /\ Len(p) = size
  <2>1. Junk \in Int
    BY DEF Junk
  <2> QED BY <1>1, <2>1, TimesOf
<1> HIDE DEF p
<1>3. /\ v \in Seq(Int) /\ Len(v) = size
      /\ \A k \in 1..size : v[k] = IF k > 0 /\ k <= 0 + l THEN w[k - 0] ELSE p[k]
  <2>1. w \in Seq(Int) /\ 0 + Len(w) <= Len(p)
    BY <1>1, <1>2, LetterType
  <2> QED BY <1>2, <2>1, 0 \in Nat, WriteOf
<1> HIDE DEF v
<1>4. y \in BUFFER /\ y.ptr = v /\ y.s = size
  BY <1>1, <1>3 DEF BUFFER
<1> HIDE DEF y
<1>5. \A k \in 1..n : y.ptr[k] = u[k]
  <2> TAKE k \in 1..n
  <2>1. k \in 1..size /\ k > 0 /\ k <= 0 + l /\ k - 0 = k
    BY <1>1
  <2>2. v[k] = w[k]
    BY <1>3, <2>1
  <2> QED BY <1>4, <2>2
<1>6. n = Len(u) /\ n + 1 <= y.s /\ n + 2 <= y.s /\ Len(y.ptr) = y.s
  BY <1>1, <1>3, <1>4
<1> HIDE DEF n
<1>7. Keeps(EndedAt(y, n), u)
  BY <1>4, <1>5, <1>6, EndedKeeps
<1>8. rebuilt(w, n) = EndedAt(y, n)
  BY DEF rebuilt, y, v, p, size
<1> QED BY <1>7, <1>8 DEF n

RepeatedText(t, n) == CopiesText(t, n * Len(t))

LEMMA RepeatKeeps ==
    ASSUME NEW x, NEW t, Keeps(x, t), NEW n \in Nat
    PROVE  Keeps(repeat(x, n), RepeatedText(t, n))
<1> DEFINE m == Len(t)
           u == RepeatedText(t, n)
           w == Copies(t, n)
<1>1. t \in Seq(Letters) /\ m \in Nat /\ x.stringlen = m /\ Characters(x) = t
  BY KeepsType, KeepsCharacters
<1>2. CASE m = 0
  <2>1. repeat(x, n) = x /\ t = <<>>
    BY <1>1, <1>2, NoLetters DEF repeat
  <2>2. n * m = 0
    BY <1>2
  <2>3. u = [k \in 1..0 |-> t[((k - 1) % m) + 1]]
    BY <2>2 DEF RepeatedText, CopiesText
  <2>4. u = <<>>
    <3> HIDE DEF m, u
    <3>1. u \in Seq(Letters) /\ Len(u) = 0
      BY <2>3
    <3> QED BY <3>1, NoLetters
  <2> QED BY <2>1, <2>4
<1>3. CASE m > 0 /\ n = 0
  <2>1. repeat(x, n) = Empty
    BY <1>1, <1>3 DEF repeat
  <2>2. n * m = 0 /\ 0 \in Nat
    BY <1>1, <1>3
  <2>3. u \in Seq(Letters) /\ Len(u) = 0
    BY <1>1, <1>3, <2>2, CopiesTextOf DEF RepeatedText
  <2>4. u = <<>>
    <3> HIDE DEF u
    <3> QED BY <2>3, NoLetters
  <2> QED BY <2>1, <2>4, EmptyKeeps
<1>4. CASE m > 0 /\ n > 0
  <2> DEFINE z == n * m
  <2>1. z \in Nat
    BY <1>1
  <2>2. repeat(x, n) = rebuilt(w, z)
    <3>1. m * n = z
      BY <1>1
    <3> QED BY <1>1, <1>4, <3>1 DEF repeat
  <2>3. w \in Seq(Letters) /\ Len(w) = z /\ \A k \in 1..z : w[k] = CopyLetter(t, k)
    BY <1>1, <1>4, CopiesOf DEF IsCopied
  <2> HIDE DEF z
  <2>4. u \in Seq(Letters) /\ Len(u) = z /\ \A k \in 1..z : u[k] = CopyLetter(t, k)
    BY <1>1, <1>4, <2>1, CopiesTextOf DEF RepeatedText, z
  <2> HIDE DEF u, w
  <2>5. Keeps(rebuilt(w, Len(u)), u)
    BY <2>1, <2>3, <2>4, RebuiltKeeps
  <2>6. Keeps(repeat(x, n), u)
    BY <2>2, <2>4, <2>5
  <2> QED BY <2>6 DEF u
<1> QED BY <1>1, <1>2, <1>3, <1>4

LEMMA RepeatCharKeeps ==
    ASSUME NEW c \in Letters, NEW n \in Nat
    PROVE  Keeps(repeatChar(c, n), Times(c, n))
<1> DEFINE u == Times(c, n)
<1>1. u \in Seq(Letters) /\ Len(u) = n
  BY TimesOf
<1>2. CASE n = 0
  <2>1. repeatChar(c, n) = Empty
    BY <1>2 DEF repeatChar
  <2>2. u = <<>>
    <3> HIDE DEF u
    <3> QED BY <1>1, <1>2, NoLetters
  <2> QED BY <2>1, <2>2, EmptyKeeps
<1>3. CASE n # 0
  <2>1. repeatChar(c, n) = rebuilt(u, n)
    BY <1>3 DEF repeatChar
  <2> HIDE DEF u
  <2>2. Keeps(rebuilt(u, Len(u)), u)
    BY <1>1, RebuiltKeeps
  <2>3. Keeps(rebuilt(u, n), u)
    BY <1>1, <2>2
  <2> QED BY <2>1, <2>3 DEF u
<1> QED BY <1>2, <1>3

FirstCopies(b, n) == [k \in 1..(IF b = <<>> THEN 0 ELSE n) |-> b[((k - 1) % Len(b)) + 1]]

LEMMA RepeatTextKeeps ==
    ASSUME NEW b \in Seq(Letters), NEW n \in Nat
    PROVE  Keeps(repeatText(b, n), FirstCopies(b, n))
<1> DEFINE m == Len(b)
           u == FirstCopies(b, n)
           w == Copies(b, n)
<1>1. m \in Nat /\ (b # <<>> => m > 0)
  OBVIOUS
<1>2. CASE b = <<>> \/ n = 0
  <2>1. repeatText(b, n) = Empty
    BY <1>2 DEF repeatText
  <2>2. u = [k \in 1..0 |-> b[((k - 1) % m) + 1]]
    BY <1>2 DEF FirstCopies
  <2>3. u = <<>>
    <3> HIDE DEF m, u
    <3>1. u \in Seq(Letters) /\ Len(u) = 0
      BY <2>2
    <3> QED BY <3>1, NoLetters
  <2> QED BY <2>1, <2>3, EmptyKeeps
<1>3. CASE b # <<>> /\ n # 0
  <2>1. repeatText(b, n) = rebuilt(w, n) /\ u = CopiesText(b, n)
    BY <1>3 DEF repeatText, FirstCopies, CopiesText
  <2>2. w \in Seq(Letters) /\ Len(w) = n * m /\ \A k \in 1..(n * m) : w[k] = CopyLetter(b, k)
    BY <1>1, <1>3, CopiesOf DEF IsCopied
  <2>3. u \in Seq(Letters) /\ Len(u) = n /\ \A k \in 1..n : u[k] = CopyLetter(b, k)
    BY <1>1, <1>3, <2>1, CopiesTextOf
  <2>4. n <= n * m /\ n * m \in Nat
    BY <1>1, <1>3
  <2> DEFINE z == n * m
  <2>5. z \in Nat /\ n <= z /\ Len(w) = z /\ \A k \in 1..z : w[k] = CopyLetter(b, k)
    BY <2>2, <2>4
  <2> HIDE DEF u, w, z
  <2>6. Len(u) <= Len(w) /\ \A k \in 1..Len(u) : w[k] = u[k]
    <3>1. \A k \in 1..n : k \in 1..z
      BY <2>5
    <3> QED BY <2>3, <2>5, <3>1
  <2>7. Keeps(rebuilt(w, Len(u)), u)
    BY <2>2, <2>3, <2>6, RebuiltKeeps
  <2> QED BY <2>1, <2>3, <2>7 DEF u
<1> QED BY <1>2, <1>3

Filled(c, n) == IF c = 0 THEN <<>> ELSE Times(c, n)

LEMMA ShlKeeps ==
    ASSUME NEW x, NEW t, Keeps(x, t), NEW c \in Letters \cup {0}, NEW n \in Nat,
           NEW size \in Nat, n = Min({size, Len(t)})
    PROVE  Keeps(shl(x, c, size), TextOf(SubSeq(t, n + 1, Len(t)), Filled(c, n)))
<1> DEFINE l == Len(t)
           v == SubSeq(t, n + 1, l)
           f == Filled(c, n)
           u == TextOf(v, f)
<1>1. /\ t \in Seq(Letters) /\ l \in Nat /\ x.stringlen = l
      /\ x \in BUFFER /\ Len(x.ptr) = x.s
  BY KeepsType
<1>2. n <= l
  <2>1. n = IF size <= l THEN size ELSE l
    <3>1. size \in Int /\ l \in Int
      BY <1>1
    <3> QED BY <3>1, SmallestOf
  <2> QED BY <1>1, <2>1
<1>3. f \in Seq(Letters) /\ (n = 0 => f = <<>>)
  <2>1. c # 0 => Times(c, n) \in Seq(Letters) /\ Len(Times(c, n)) = n
    BY TimesOf
  <2>2. c # 0 /\ n = 0 => Times(c, n) = <<>>
    BY <2>1, NoLetters
  <2>3. <<>> \in Seq(Letters)
    OBVIOUS
  <2> QED BY <2>1, <2>2, <2>3 DEF Filled
<1>4. v \in Seq(Letters)
  <2>1. l <= Len(t)
    BY <1>1
  <2> HIDE DEF l
  <2> QED BY <1>1, <1>2, <2>1, PartOf
<1>5. CASE n = 0
  <2>1. shl(x, c, size) = x
    BY <1>1, <1>5 DEF shl
  <2>2. v = t
    <3>1. n + 1 = 1
      BY <1>5
    <3>2. v = SubSeq(t, 1, l)
      BY <3>1
    <3> QED BY <1>1, <3>2, WholePart
  <2>3. u = t
    <3>1. f = <<>>
      BY <1>3, <1>5
    <3> HIDE DEF f, v
    <3> QED BY <1>1, <2>2, <3>1 DEF TextOf
  <2> QED BY <2>1, <2>3
<1>6. CASE n # 0
  <2>1. mid(x, n, x.stringlen) = v
    <3>1. l = Len(t) /\ l >= l - n
      BY <1>1, <1>2
    <3> HIDE DEF l
    <3>2. mid(x, n, l) = PartText(t, n, l)
      BY <1>1, <1>2, <3>1, MidRest
    <3> QED BY <1>1, <3>2 DEF PartText
  <2>2. shl(x, c, size) = setText(x, mid(x, n, x.stringlen) \o f)
    BY <1>1, <1>6 DEF shl, Filled
  <2>3. shl(x, c, size) = setText(x, u)
    BY <2>1, <2>2 DEF TextOf
  <2> HIDE DEF v, f
  <2>4. u \in Seq(Letters)
    BY <1>3, <1>4, TextOfType
  <2> HIDE DEF u
  <2>5. Keeps(setText(x, u), u)
    BY <1>1, <2>4, SetKeeps
  <2>6. Keeps(shl(x, c, size), u)
    BY <2>3, <2>5
  <2> QED BY <2>6 DEF u, v, f
<1> QED BY <1>5, <1>6

LEMMA ShrKeeps ==
    ASSUME NEW x, NEW t, Keeps(x, t), NEW c \in Letters \cup {0}, NEW n \in Nat,
           NEW size \in Nat, n = Min({size, Len(t)})
    PROVE  Keeps(shr(x, c, size), IF n = 0 \/ c = 0 THEN t ELSE Times(c, n))
<1> DEFINE l == Len(t)
           f == Times(c, n)
           r == left(x, l - n)
           w == TextOf(f, r)
<1>1. /\ t \in Seq(Letters) /\ l \in Nat /\ x.stringlen = l
      /\ x \in BUFFER /\ Len(x.ptr) = x.s
  BY KeepsType
<1>2. n <= l
  <2>1. n = IF size <= l THEN size ELSE l
    <3>1. size \in Int /\ l \in Int
      BY <1>1
    <3> QED BY <3>1, SmallestOf
  <2> QED BY <1>1, <2>1
<1>3. CASE n = 0 \/ c = 0
  BY <1>1, <1>3 DEF shr
<1>4. CASE n # 0 /\ c # 0
  <2>1. f \in Seq(Letters) /\ Len(f) = n
    BY <1>4, TimesOf
  <2>2. r \in Seq(Letters)
    <3>1. l - n \in Nat
      BY <1>1, <1>2
    <3> QED BY <3>1, LeftOf
  <2>3. shr(x, c, size) = setText(x, SubSeq(w, 1, n))
    BY <1>1, <1>4 DEF shr, TextOf
  <2> HIDE DEF f, r
  <2>4. /\ w \in Seq(Letters) /\ Len(w) = n + Len(r) /\ Len(r) \in Nat
        /\ \A k \in Nat \ {0} : k <= n => w[k] = f[k]
    <3>1. /\ w \in Seq(Letters) /\ Len(w) = Len(f) + Len(r) /\ Len(r) \in Nat
          /\ \A k \in Nat \ {0} : k <= Len(f) => w[k] = f[k]
      <4> HIDE DEF l
      <4> QED BY <2>1, <2>2, TextOfType
    <3> QED BY <2>1, <3>1
  <2> HIDE DEF w
  <2> DEFINE o == SubSeq(w, 1, n)
  <2>5. o \in Seq(Letters) /\ Len(o) = n /\ \A k \in 1..n : o[k] = w[k]
    <3>1. /\ SubSeq(w, 0 + 1, n) \in Seq(Letters) /\ Len(SubSeq(w, 0 + 1, n)) = n - 0
          /\ \A k \in 1..(n - 0) : SubSeq(w, 0 + 1, n)[k] = w[0 + k]
      <4>1. 0 \in Nat /\ 0 <= n /\ n <= Len(w)
        BY <2>4
      <4> QED BY <2>4, <4>1, PartOf
    <3>2. 0 + 1 = 1 /\ n - 0 = n /\ \A k \in 1..n : 0 + k = k
      OBVIOUS
    <3> QED BY <3>1, <3>2
  <2> HIDE DEF o
  <2>6. o = f
    <3>1. \A k \in 1..n : k \in Nat \ {0} /\ k <= n
      OBVIOUS
    <3>2. \A k \in 1..n : o[k] = f[k]
      BY <2>4, <2>5, <3>1
    <3> QED BY <2>1, <2>5, <3>2, SameText
  <2>7. Keeps(setText(x, f), f)
    BY <1>1, <2>1, SetKeeps
  <2>8. Keeps(shr(x, c, size), f)
    BY <2>3, <2>6, <2>7 DEF o
  <2> QED BY <1>4, <2>8 DEF f
<1> QED BY <1>3, <1>4

-----------------------------------------------------------------------------
(* String: the operations                                                  *)

LEMMA StoreKeeps ==
    ASSUME Keeps(str, text), Store
    PROVE  Keeps(str', text')
<1>1. PICK t \in Texts :
          \/ Becomes(setText(str, t), t)
          \/ Becomes(append(str, t), TextOf(text, t))
          \/ Becomes(prepend(str, t), TextOf(t, text))
  BY DEF Store, TextOf
<1>2. t \in Seq(Letters) /\ str \in BUFFER /\ Len(str.ptr) = str.s
  BY StringAssumption, KeepsType
<1>3. /\ Keeps(setText(str, t), t)
      /\ Keeps(append(str, t), TextOf(text, t))
      /\ Keeps(prepend(str, t), TextOf(t, text))
  BY <1>2, SetKeeps, AppendKeeps, PrependKeeps
<1> QED BY <1>1, <1>3 DEF Becomes

LEMMA SetLetterKeeps ==
    ASSUME Keeps(str, text), SetLetter
    PROVE  Keeps(str', text')
<1>1. PICK k \in 0..(str.stringlen - 1), c \in Letters :
          Becomes([str EXCEPT !.ptr = Write(@, k, <<c>>)], [text EXCEPT ![k + 1] = c])
  BY DEF SetLetter
<1>2. k \in 0..(Len(text) - 1)
  BY KeepsType
<1>3. Keeps([str EXCEPT !.ptr = Write(@, k, <<c>>)], [text EXCEPT ![k + 1] = c])
  BY <1>2, LetterKeeps
<1> QED BY <1>1, <1>3 DEF Becomes

LEMMA ReserveBytesKeeps ==
    ASSUME Keeps(str, text), ReserveBytes
    PROVE  Keeps(str', text')
<1>1. PICK n \in Nat : Becomes(reserveBytes(str, n), text)
  BY StringAssumption DEF ReserveBytes
<1>2. Keeps(reserveBytes(str, n), text)
  BY ReserveKeeps
<1> QED BY <1>1, <1>2 DEF Becomes

LEMMA PartKeeps ==
    ASSUME Keeps(str, text), Part
    PROVE  Keeps(str', text')
<1>1. PICK n \in Nat :
          \/ Becomes(setText(str, left(str, n)), LeftText(text, n))
          \/ Becomes(setText(str, right(str, n)), RightText(text, n))
          \/ \E start \in Nat : Becomes(setText(str, mid(str, start, n)), MidText(text, start, n))
  <2>1. 0..MaxLength \subseteq Nat
    BY StringAssumption
  <2> QED BY <2>1 DEF Part, LeftText, RightText, MidText
<1>2. \A u \in Seq(Letters) : Keeps(setText(str, u), u)
  <2>1. str \in BUFFER /\ Len(str.ptr) = str.s
    BY KeepsType
  <2> QED BY <2>1, SetKeeps
<1>3. CASE Becomes(setText(str, left(str, n)), LeftText(text, n))
  <2>1. left(str, n) \in Seq(Letters) /\ left(str, n) = LeftText(text, n)
    BY LeftOf
  <2> QED BY <1>2, <1>3, <2>1 DEF Becomes
<1>4. CASE Becomes(setText(str, right(str, n)), RightText(text, n))
  <2>1. right(str, n) \in Seq(Letters) /\ right(str, n) = RightText(text, n)
    BY RightOf
  <2> QED BY <1>2, <1>4, <2>1 DEF Becomes
<1>5. ASSUME NEW start \in Nat, Becomes(setText(str, mid(str, start, n)), MidText(text, start, n))
      PROVE  Keeps(str', text')
  <2>1. mid(str, start, n) \in Seq(Letters) /\ mid(str, start, n) = MidText(text, start, n)
    BY MidOf
  <2> QED BY <1>2, <1>5, <2>1 DEF Becomes
<1> QED BY <1>1, <1>3, <1>4, <1>5

LEMMA TrimmedKeeps ==
    ASSUME Keeps(str, text), Trim
    PROVE  Keeps(str', text')
<1>1. CASE Becomes(trim(str), CutLeft(CutRight(text, {Blank}), {Blank}))
  <2>1. Keeps(trim(str), CutLeft(CutRight(text, {Blank}), {Blank}))
    BY TrimKeeps
  <2> QED BY <1>1, <2>1 DEF Becomes
<1>2. ASSUME NEW cutset,
             \/ Becomes(trimLeft(str, cutset), CutLeft(text, cutset))
             \/ Becomes(trimRight(str, cutset), CutRight(text, cutset))
             \/ Becomes(trimChars(str, cutset), CutLeft(CutRight(text, cutset), cutset))
      PROVE  Keeps(str', text')
  <2>1. /\ Keeps(trimLeft(str, cutset), CutLeft(text, cutset))
        /\ Keeps(trimRight(str, cutset), CutRight(text, cutset))
        /\ Keeps(trimChars(str, cutset), CutLeft(CutRight(text, cutset), cutset))
    BY TrimLeftKeeps, TrimRightKeeps, TrimCharsKeeps
  <2> QED BY <1>2, <2>1 DEF Becomes
<1> QED BY <1>1, <1>2 DEF Trim

LEMMA ChoppedKeeps ==
    ASSUME Keeps(str, text), Chop
    PROVE  Keeps(str', text')
<1>1. PICK n \in Nat :
          \/ Becomes(chop(str, n), SubSeq(text, 1, Len(text) - n))
          \/ Becomes(chopLeft(str, n), SubSeq(text, n + 1, Len(text)))
          \/ Becomes(cut(str, n), IF n > Len(text) THEN text ELSE SubSeq(text, 1, n))
  <2>1. 0..MaxLength \subseteq Nat
    BY StringAssumption
  <2> QED BY <2>1 DEF Chop
<1>2. /\ Keeps(chop(str, n), SubSeq(text, 1, Len(text) - n))
      /\ Keeps(chopLeft(str, n), SubSeq(text, n + 1, Len(text)))
      /\ Keeps(cut(str, n), IF n > Len(text) THEN text ELSE SubSeq(text, 1, n))
  BY ChopKeeps, ChopLeftKeeps, CutKeeps
<1> QED BY <1>1, <1>2 DEF Becomes

LEMMA CutAtLetterKeeps ==
    ASSUME Keeps(str, text), CutAt
    PROVE  Keeps(str', text')
<1>1. PICK t \in Texts :
          Becomes(cutAt(str, t),
              IF t = <<>> \/ FirstPosition(Positions(text, t)) = -1 THEN text
              ELSE SubSeq(text, 1, FirstPosition(Positions(text, t))))
  BY DEF CutAt
<1>2. t \in Seq(Letters)
  BY StringAssumption
<1>3. Keeps(cutAt(str, t),
          IF t = <<>> \/ FirstPosition(Positions(text, t)) = -1 THEN text
          ELSE SubSeq(text, 1, FirstPosition(Positions(text, t))))
  BY <1>2, CutAtKeeps
<1> QED BY <1>1, <1>3 DEF Becomes

LEMMA ReplaceAllKeeps ==
    ASSUME Keeps(str, text), Replace
    PROVE  Keeps(str', text')
<1>1. PICK s \in Texts, r \in Texts :
          Becomes(replace(str, s, r), IF s = <<>> THEN text ELSE ReplacedIn(text, s, r))
  BY DEF Replace
<1>2. s \in Seq(Letters) /\ r \in Seq(Letters)
  BY StringAssumption
<1>3. Keeps(replace(str, s, r), IF s = <<>> THEN text ELSE ReplacedIn(text, s, r))
  BY <1>2, ReplaceKeeps
<1> QED BY <1>1, <1>3 DEF Becomes

LEMMA RepeatedKeeps ==
    ASSUME Keeps(str, text), Repeat
    PROVE  Keeps(str', text')
<1>1. PICK n \in Nat :
          \/ Becomes(repeat(str, n), RepeatedText(text, n))
          \/ \E c \in Letters : Becomes(repeatChar(c, n), Times(c, n))
          \/ \E t \in Texts : Becomes(repeatText(t, n), FirstCopies(t, n))
  <2>1. 0..MaxLength \subseteq Nat
    BY StringAssumption
  <2> QED BY <2>1 DEF Repeat, RepeatedText, CopiesText, FirstCopies
<1>2. CASE Becomes(repeat(str, n), RepeatedText(text, n))
  <2>1. Keeps(repeat(str, n), RepeatedText(text, n))
    BY RepeatKeeps
  <2> QED BY <1>2, <2>1 DEF Becomes
<1>3. ASSUME NEW c \in Letters, Becomes(repeatChar(c, n), Times(c, n))
      PROVE  Keeps(str', text')
  <2>1. Keeps(repeatChar(c, n), Times(c, n))
    BY RepeatCharKeeps
  <2> QED BY <1>3, <2>1 DEF Becomes
<1>4. ASSUME NEW t \in Texts, Becomes(repeatText(t, n), FirstCopies(t, n))
      PROVE  Keeps(str', text')
  <2>1. t \in Seq(Letters)
    BY StringAssumption
  <2>2. Keeps(repeatText(t, n), FirstCopies(t, n))
    BY <2>1, RepeatTextKeeps
  <2> QED BY <1>4, <2>2 DEF Becomes
<1> QED BY <1>1, <1>2, <1>3, <1>4

LEMMA ShiftKeeps ==
    ASSUME Keeps(str, text), Shift
    PROVE  Keeps(str', text')
<1>1. PICK c \in Letters \cup {0}, size \in Nat :
          LET n == Min({size, Len(text)}) IN
          \/ Becomes(shl(str, c, size), TextOf(SubSeq(text, n + 1, Len(text)), Filled(c, n)))
          \/ Becomes(shr(str, c, size), IF n = 0 \/ c = 0 THEN text ELSE Times(c, n))
  <2>1. 0..MaxLength \subseteq Nat
    BY StringAssumption
  <2> QED BY <2>1 DEF Shift, TextOf, Filled
<1> DEFINE n == Min({size, Len(text)})
<1>2. n \in Nat
  <2>1. Len(text) \in Nat
    BY KeepsType
  <2> DEFINE l == Len(text)
  <2>2. l \in Int /\ l \in Nat /\ size \in Int
    BY <2>1
  <2> HIDE DEF l
  <2>3. Min({size, l}) = IF size <= l THEN size ELSE l
    BY <2>2, SmallestOf
  <2>4. Min({size, l}) \in Nat
    BY <2>2, <2>3
  <2> QED BY <2>4 DEF l
<1>3. \/ Becomes(shl(str, c, size), TextOf(SubSeq(text, n + 1, Len(text)), Filled(c, n)))
      \/ Becomes(shr(str, c, size), IF n = 0 \/ c = 0 THEN text ELSE Times(c, n))
  BY <1>1
<1>4. n = Min({size, Len(text)})
  OBVIOUS
<1> HIDE DEF n
<1>5. /\ Keeps(shl(str, c, size), TextOf(SubSeq(text, n + 1, Len(text)), Filled(c, n)))
      /\ Keeps(shr(str, c, size), IF n = 0 \/ c = 0 THEN text ELSE Times(c, n))
  BY <1>2, <1>4, ShlKeeps, ShrKeeps
<1> QED BY <1>3, <1>5 DEF Becomes

LEMMA OperationKeeps ==
    ASSUME Keeps(str, text), [StringNext]_strvars
    PROVE  Keeps(str', text')
<1>1. CASE UNCHANGED strvars
  BY <1>1 DEF strvars
<1>2. CASE StripSlashes
  <2>1. Keeps(stripSlashes(str), Stripped(text))
    BY StripKeeps
  <2> QED BY <1>2, <2>1 DEF StripSlashes, Becomes
<1>3. CASE Escape
  <2>1. Keeps(pregEscape(str), ReplacedIn(text, <<Slash>>, <<Slash, Slash>>))
    BY EscapeKeeps
  <2> QED BY <1>3, <2>1 DEF Escape, Becomes
<1>4. CASE Clear
  BY <1>4, EmptyKeeps DEF Clear, Becomes
<1> QED BY <1>1, <1>2, <1>3, <1>4, StoreKeeps, SetLetterKeeps, ReserveBytesKeeps, PartKeeps,
           TrimmedKeeps, ChoppedKeeps, CutAtLetterKeeps, ReplaceAllKeeps, RepeatedKeeps,
           ShiftKeeps DEF StringNext

\* Whatever operations are called, the buffer holds the text that they make on
\* sequences of letters, with a zero behind it, and nothing is written behind
\* the buffer.
THEOREM TextIsKept == StringSpec => []TextKept
<1>1. StringInit => Keeps(str, text)
  BY EmptyKeeps DEF StringInit
<1>2. Keeps(str, text) /\ [StringNext]_strvars => Keeps(str, text)'
  BY OperationKeeps
<1>3. Keeps(str, text) => TextKept
  <2> SUFFICES ASSUME Keeps(str, text) PROVE TextKept
    OBVIOUS
  <2>1. Characters(str) = text
    BY KeepsCharacters
  <2>2. Len(str.ptr) = str.s /\ (str.stringlen > 0 => str.ptr[str.stringlen + 1] = 0)
    BY KeepsType
  <2> QED BY <2>1, <2>2 DEF TextKept
<1> QED BY <1>1, <1>2, <1>3, PTL DEF StringSpec

\* find(), instr() and has() return what the definition of a match says, from
\* the start forwards or, if that is negative, from the end backwards.
THEOREM NeedleIsFound == StringSpec => []NeedleFound
<1>1. StringInit => Keeps(str, text)
  BY EmptyKeeps DEF StringInit
<1>2. Keeps(str, text) /\ [StringNext]_strvars => Keeps(str, text)'
  BY OperationKeeps
<1>3. Keeps(str, text) => NeedleFound
  <2> SUFFICES ASSUME Keeps(str, text) PROVE NeedleFound
    OBVIOUS
  <2>1. text \in Seq(Letters) /\ Len(text) \in Nat /\ str.stringlen = Len(text)
    BY KeepsType
  <2> SUFFICES ASSUME NEW needle \in Texts, NEW start \in -MaxLength..MaxLength,
                      text # <<>>, needle # <<>>
               PROVE  LET at == Positions(text, needle)
                          first == FirstPosition({k \in at : k >= start})
                          last  == LastPosition({k \in at : k + Len(needle) <= Len(text) + start + 1})
                      IN  /\ start >= 0 => find(str, needle, start) = first /\ instr(str, needle, start) = first
                          /\ start < 0 => find(str, needle, start) = last
                          /\ has(str, needle) <=> at # {}
    BY DEF NeedleFound
  <2>2. needle \in Seq(Letters) /\ Len(needle) \in Nat /\ Len(needle) > 0 /\ Len(text) > 0 /\ start \in Int
    BY <2>1, StringAssumption
  <2> DEFINE at    == Positions(text, needle)
             first == FirstPosition({k \in at : k >= start})
             limit == Len(text) + start + 1
             below == {k \in at : k + Len(needle) <= limit}
  <2>3. start >= 0 => find(str, needle, start) = first /\ instr(str, needle, start) = first
    <3> SUFFICES ASSUME start \in Nat
                 PROVE  find(str, needle, start) = first /\ instr(str, needle, start) = first
      BY <2>2
    <3> QED BY <2>2, FindForwards, InstrOf
  <2>4. has(str, needle) <=> at # {}
    BY <2>2, HasOf
  <2>5. limit \in Int
    BY <2>1, <2>2
  <2>6. start < 0 => find(str, needle, start) = LastPosition(below)
    <3> SUFFICES ASSUME start < 0 PROVE find(str, needle, start) = LastPosition(below)
      OBVIOUS
    <3>1. CASE str.stringlen + start < 0
      <4>1. find(str, needle, start) = -1
        BY <2>1, <2>2, <3>1 DEF find
      <4>2. \A k \in at : k \in Nat
        <5>1. at \in SUBSET Nat
          BY <2>1, <2>2, PositionsType
        <5> QED BY <5>1
      <4> HIDE DEF at
      <4>3. below = {}
        BY <2>1, <2>2, <3>1, <4>2
      <4> QED BY <4>1, <4>3 DEF LastPosition
    <3>2. CASE ~(str.stringlen + start < 0)
      <4>1. find(str, needle, start) = LastMatch(str.ptr, needle, limit)
        BY <2>1, <2>2, <3>2 DEF find
      <4> HIDE DEF limit
      <4>2. LastMatch(str.ptr, needle, limit)
                = LastPosition({k \in Positions(text, needle) : k + Len(needle) <= limit})
        BY <2>2, <2>5, FindBackwards
      <4> QED BY <4>1, <4>2
    <3> QED BY <3>1, <3>2
  <2> QED BY <2>3, <2>4, <2>6
<1> QED BY <1>1, <1>2, <1>3, PTL DEF StringSpec

=============================================================================
