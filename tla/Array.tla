-------------------------------- MODULE Array --------------------------------
(***************************************************************************)
(* ppl7::Array, the array of strings in which the programs keep rates and  *)
(* addresses: rows of pointers to strings that the array owns.             *)
(*                                                                         *)
(* A string is a number, and 0 the empty one, for which a row holds no     *)
(* pointer.  The values that are read (get, indexOf, iterators) change     *)
(* nothing and are left out.                                               *)
(***************************************************************************)
EXTENDS Integers, SequencesExt, FiniteSetsExt

CONSTANTS
    Values,       \* strings that are stored, 0 among them
    Others,       \* arrays that are inserted, added and exploded: sequences
    Growth,       \* by how much set() exceeds the index when it reserves: 10
    MaxElements,  \* bound
    NoString      \* the null pointer

ASSUME ArrayAssumption ==
    /\ Values \subseteq Nat /\ 0 \in Values
    /\ Others \subseteq Seq(Values)
    /\ Growth \in Nat \ {0} /\ MaxElements \in Nat
    /\ NoString \notin Nat

VARIABLES
    arr,          \* rows, numElements, and the strings on the heap
    expected      \* history: what the documentation says the array holds

avars == <<arr, expected>>

EmptyArray == [rows |-> <<>>, numElements |-> 0, strings |-> [p \in {} |-> 0]]

ArrayInit == arr = EmptyArray /\ expected = <<>>

\* Row i + 1 is rows[i] of the code; numCapacity is the number of rows.
numCapacity(a) == Len(a.rows)

Contents(a) ==
    [i \in 1..a.numElements |-> IF a.rows[i] = NoString THEN 0 ELSE a.strings[a.rows[i]]]

-----------------------------------------------------------------------------
reserve(a, size) ==
    IF size <= numCapacity(a) THEN a
    ELSE [a EXCEPT !.rows = @ \o [i \in 1..(size - numCapacity(a)) |-> NoString]]

\* A pointer that operator new returns.
NewString(a) == CHOOSE p \in 1..(Cardinality(DOMAIN a.strings) + 1) : p \notin DOMAIN a.strings

\* delete of the string of a row
Deleted(a, p) == [q \in DOMAIN a.strings \ {p} |-> a.strings[q]]

\* Row i points to the string p, which holds value.
Holding(a, i, p, value) ==
    [a EXCEPT !.rows[i] = p,
              !.strings = [q \in DOMAIN @ \cup {p} |-> IF q = p THEN value ELSE @[q]]]

\* set(index, value), with indexes from 1.
set(a, i, value) ==
    LET b == reserve(a, IF i > numCapacity(a) THEN i - 1 + Growth ELSE 0)
        c == [b EXCEPT !.numElements = IF i > @ THEN i ELSE @]
    IN  IF value # 0
        THEN Holding(c, i, IF c.rows[i] = NoString THEN NewString(c) ELSE c.rows[i], value)
        ELSE [c EXCEPT !.rows[i] = NoString, !.strings = Deleted(c, c.rows[i])]

\* The rows from i on move back by d, and the rows from i to i + d - 1 are empty.
shift(a, i, d) ==
    [a EXCEPT !.rows = [k \in DOMAIN @ |->
        IF k < i \/ k > a.numElements + d THEN @[k]
        ELSE IF k < i + d THEN NoString ELSE @[k - d]]]

\* insert(index, value).  `moved': reserve() has moved the rows, and what is
\* shifted are the rows of before, which have been freed.
insert(a, i, value, moved) ==
    LET b == reserve(a, a.numElements + 2)
        c == IF i > a.numElements THEN b
             ELSE [(IF moved THEN b ELSE shift(b, i, 1)) EXCEPT !.numElements = @ + 1]
    IN  set(c, i, value)

\* new strings for the non-empty elements of s, from row i on
Stored(a, i, s) ==
    LET done[k \in 0..Len(s)] ==
            IF k = 0 THEN a
            ELSE IF s[k] = 0 THEN done[k - 1]
            ELSE Holding(done[k - 1], i + k - 1, NewString(done[k - 1]), s[k])
    IN  done[Len(s)]

\* Mutant of insertArray: a gap before the inserted array is not counted.
insertArrayUncounted(a, i, s) ==
    LET b == reserve(a, a.numElements + Len(s) + 2)
        c == IF i > a.numElements THEN b ELSE shift(b, i, Len(s))
    IN  [Stored(c, i, s) EXCEPT !.numElements = @ + Len(s)]

\* insert(index, other)
insertArray(a, i, s) ==
    LET b == reserve(a, a.numElements + Len(s) + 2)
        c == IF i > a.numElements THEN b ELSE shift(b, i, Len(s))
        gap == IF i > a.numElements THEN i - 1 - a.numElements ELSE 0
    IN  [Stored(c, i, s) EXCEPT !.numElements = @ + gap + Len(s)]

\* set(first + i, ...) of every non-empty element
SetAll(a, i, s) ==
    LET done[k \in 0..Len(s)] ==
            IF k = 0 THEN a
            ELSE IF s[k] = 0 THEN done[k - 1] ELSE set(done[k - 1], i + k - 1, s[k])
    IN  done[Len(s)]

\* add(other)
addArray(a, s) == SetAll(reserve(a, a.numElements + Len(s)), a.numElements + 1, s)

\* add(value) of every element
addEach(a, s) ==
    LET done[k \in 0..Len(s)] ==
            IF k = 0 THEN a ELSE set(done[k - 1], done[k - 1].numElements + 1, s[k])
    IN  done[Len(s)]

\* erase(index), and shift() for the first one
erase(a, i) ==
    LET n == a.numElements
    IN  [a EXCEPT !.rows = [k \in DOMAIN @ |->
                      IF k = n THEN NoString ELSE IF k >= i /\ k < n THEN @[k + 1] ELSE @[k]],
                  !.strings = Deleted(a, a.rows[i]),
                  !.numElements = @ - 1]

\* pop(); what it returns is read from the row behind the last one.
pop(a) ==
    LET n == a.numElements
    IN  [a EXCEPT !.rows[n] = NoString, !.strings = Deleted(a, a.rows[n]), !.numElements = @ - 1]

\* makeUnique(): from the front, every value that was there before is erased.
Unique(a) ==
    LET Turn(t) ==
            LET v == Contents(t.array)[t.at]
            IN  IF v \in t.seen THEN [t EXCEPT !.array = erase(@, t.at)]
                ELSE [t EXCEPT !.at = @ + 1, !.seen = @ \cup {v}]
        turn[k \in 0..a.numElements] ==
            IF k = 0 THEN [array |-> a, at |-> 1, seen |-> {}] ELSE Turn(turn[k - 1])
    IN  turn[a.numElements].array

\* sort(), sortReverse() and sortUnique(): the keys of a tree are added anew.
Sorted(s) ==
    LET Before(j, k) == s[j] < s[k] \/ (s[j] = s[k] /\ j <= k)
    IN  [n \in DOMAIN s |->
            s[CHOOSE k \in DOMAIN s : Cardinality({j \in DOMAIN s : Before(j, k)}) = n]]

\* The elements of s at some positions, in their order.
Kept(s, at) ==
    [n \in 1..Cardinality(at) |-> s[CHOOSE k \in at : Cardinality({j \in at : j <= k}) = n]]

\* Every value of s where it is for the first time.
Firsts(s) == Kept(s, {k \in DOMAIN s : \A j \in 1..(k - 1) : s[j] # s[k]})

-----------------------------------------------------------------------------
\* An operation, and what the documentation says of it.
Do(a, documented) == arr' = a /\ expected' = documented

\* A sequence that is extended by empty elements up to length n.
Extended(s, n) == s \o [k \in 1..(IF n > Len(s) THEN n - Len(s) ELSE 0) |-> 0]

Set(i, v) == Do(set(arr, i, v), [Extended(expected, i) EXCEPT ![i] = v])

\* "Alle vorhandenen Elemente ... werden um eins nach hinten verschoben"; not so
\* if realloc() has moved them.  (What else the writes to the freed rows may do
\* is left out.)
Insert(i, v) ==
    \E moved \in BOOLEAN :
        LET a == insert(arr, i, v, moved) IN
        /\ moved => i <= arr.numElements /\ arr.numElements + 2 > numCapacity(arr)
        /\ Do(a, IF moved THEN Contents(a) ELSE InsertAt(Extended(expected, i - 1), i, v))

\* An index more than two behind the end would write behind the rows.
InsertArray(i, s) ==
    /\ s # <<>> /\ i <= arr.numElements + 3
    /\ LET e == Extended(expected, i - 1)
       IN  Do(insertArray(arr, i, s), SubSeq(e, 1, i - 1) \o s \o SubSeq(e, i, Len(e)))

\* "Der Inhalt des Arrays ... wird angehangen"; but not empty elements at its end.
AddArray(s) ==
    LET a == addArray(arr, s)
    IN  Do(a, IF s # <<>> /\ Last(s) = 0 THEN Contents(a) ELSE expected \o s)

\* operator= and the copy constructor
Copy(s) ==
    LET a == addArray(EmptyArray, s)
    IN  Do(a, IF s # <<>> /\ Last(s) = 0 THEN Contents(a) ELSE s)

\* explode() of a text with these fields between its delimiters, at most limit
\* of them; an empty text has none.
Explode(s, limit, skipemptylines) ==
    LET fields == IF skipemptylines THEN Kept(s, {k \in DOMAIN s : s[k] # 0}) ELSE s
        taken  == IF limit = 0 THEN fields ELSE SubSeq(fields, 1, Min({limit, Len(fields)}))
    IN  /\ s # <<0>>
        /\ Do(addEach(arr, taken), expected \o taken)

Erase(i) == i <= arr.numElements /\ Do(erase(arr, i), RemoveAt(expected, i))
Pop == arr.numElements > 0 /\ Do(pop(arr), Front(expected))
ReserveRows(size) == Do(reserve(arr, size), expected)
ClearArray == Do(EmptyArray, <<>>)

Sort == Do(addEach(EmptyArray, Sorted(Contents(arr))), Sorted(expected))
SortReverse == Do(addEach(EmptyArray, Reverse(Sorted(Contents(arr)))), Reverse(Sorted(expected)))
SortUnique ==
    Do(addEach(EmptyArray, Sorted(Firsts(Contents(arr)))), Sorted(Firsts(expected)))

\* "Die Reihenfolge der Elemente bleibt bestehen"
MakeUnique == Do(Unique(arr), Firsts(expected))

Fits == arr'.numElements <= MaxElements /\ numCapacity(arr') <= 2 * MaxElements

ArrayNext ==
    /\ \/ \E i \in 1..(MaxElements + 1), v \in Values : Set(i, v) \/ Insert(i, v)
       \/ \E i \in 1..(MaxElements + 1), s \in Others : InsertArray(i, s)
       \/ \E s \in Others : AddArray(s) \/ Copy(s)
       \/ \E s \in Others, limit \in 0..2, skip \in BOOLEAN : Explode(s, limit, skip)
       \/ \E i \in 1..MaxElements : Erase(i) \/ ReserveRows(i)
       \/ Pop \/ ClearArray \/ Sort \/ SortReverse \/ SortUnique \/ MakeUnique
    /\ Fits

ArraySpec == ArrayInit /\ [][ArrayNext]_avars

-----------------------------------------------------------------------------
(* Properties                                                              *)

\* Every string belongs to exactly one row, none is leaked and none is deleted
\* twice, and rows behind the last element are empty, so that the array may grow.
RowsOwned ==
    /\ \A p \in DOMAIN arr.strings :
          Cardinality({i \in DOMAIN arr.rows : arr.rows[i] = p}) = 1
    /\ \A i \in DOMAIN arr.rows :
          arr.rows[i] # NoString => arr.rows[i] \in DOMAIN arr.strings /\ i <= arr.numElements
    /\ \A p \in DOMAIN arr.strings : arr.strings[p] # 0

\* The array owns its strings and holds what its documentation says, through
\* every growth and every shift of its rows, except for an insert() that moves
\* the rows, and empty elements at the end of an array that is added or copied.
HoldsExpected == RowsOwned /\ Contents(arr) = expected

=============================================================================
