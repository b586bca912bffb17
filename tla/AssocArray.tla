----------------------------- MODULE AssocArray -----------------------------
(***************************************************************************)
(* ppl7::AssocArray, the tree of keys and values into which counters and   *)
(* sensor data are exported (UDPEchoCounter, SystemStat): a path of keys   *)
(* leads through nested arrays to a string, and the key "[]" stands for    *)
(* the next number.                                                        *)
(*                                                                         *)
(* Keys are numbers and names that begin with a letter, which compare()    *)
(* orders, so that the std::map below is a function; keys that differ in   *)
(* case are one key.  Other kinds of values (byte arrays, dates ...) are   *)
(* stored as strings are.                                                  *)
(***************************************************************************)
EXTENDS Integers, SequencesExt, FiniteSetsExt

CONSTANTS
    Names,        \* keys that are not numbers
    NextKey,      \* the key "[]"
    Paths,        \* paths that are written, sequences of keys
    Texts,        \* strings that are stored, as sequences
    Concat,       \* what append() puts between two strings
    Documents,    \* configurations: sequences of lines
    MaxKeys       \* bound: numbers used as keys of one array

VARIABLES
    assoc,        \* the array
    promised      \* history: what the documentation says can be read, by path

assocvars == <<assoc, promised>>

EmptyAssoc == [kind |-> "array", tree |-> [k \in {} |-> 0], maxint |-> 0]
Text(s)    == [kind |-> "string", value |-> s]

AssocInit == assoc = EmptyAssoc /\ promised = [p \in {} |-> <<>>]

-----------------------------------------------------------------------------
(* Reading and writing                                                     *)

\* What a path leads to, as a set with one element or none.
RECURSIVE findInternal(_, _)
findInternal(a, path) ==
    IF path = <<>> \/ Head(path) \notin DOMAIN a.tree THEN {}
    ELSE LET node == a.tree[Head(path)]
         IN  IF Len(path) = 1 THEN {node}
             ELSE IF node.kind = "array" THEN findInternal(node, Tail(path)) ELSE {}

\* The number that comes next, once k is a key.
maxintAfter(maxint, k) == IF k \notin Names /\ k >= maxint THEN k + 1 ELSE maxint

\* Mutant of createTree: an array that is there is built anew.
RECURSIVE createTreeAnew(_, _, _)
createTreeAnew(a, path, var) ==
    IF path = <<>> THEN a
    ELSE LET first == IF Head(path) = NextKey THEN a.maxint ELSE Head(path)
             node  == IF Len(path) = 1 THEN var ELSE createTreeAnew(EmptyAssoc, Tail(path), var)
         IN  [a EXCEPT !.tree = [k \in DOMAIN @ \cup {first} |-> IF k = first THEN node ELSE @[k]],
                       !.maxint = maxintAfter(@, first)]

\* The value at a path; on the way a string gives way to an array.  Without a
\* path InvalidKeyException leaves everything as it was.
RECURSIVE createTree(_, _, _)
createTree(a, path, var) ==
    IF path = <<>> THEN a
    ELSE LET first == IF Head(path) = NextKey THEN a.maxint ELSE Head(path)
             below == IF first \in DOMAIN a.tree /\ a.tree[first].kind = "array"
                      THEN a.tree[first] ELSE EmptyAssoc
             node  == IF Len(path) = 1 THEN var ELSE createTree(below, Tail(path), var)
         IN  [a EXCEPT !.tree = [k \in DOMAIN @ \cup {first} |-> IF k = first THEN node ELSE @[k]],
                       !.maxint = maxintAfter(@, first)]

\* append(): to a string that is there, or else set(); an array throws.
appendText(a, path, s, concat) ==
    LET found == findInternal(a, path) IN
    IF found = {} THEN createTree(a, path, Text(s))
    ELSE LET node == CHOOSE n \in found : TRUE
         IN  IF node.kind = "string" THEN createTree(a, path, Text(node.value \o concat \o s)) ELSE a

\* erase(): an array that becomes empty stays.
RECURSIVE eraseFrom(_, _)
eraseFrom(a, path) ==
    IF path = <<>> \/ Head(path) \notin DOMAIN a.tree THEN a
    ELSE LET k == Head(path) IN
         IF Len(path) = 1 THEN [a EXCEPT !.tree = [j \in DOMAIN @ \ {k} |-> @[j]]]
         ELSE IF a.tree[k].kind = "array" THEN [a EXCEPT !.tree[k] = eraseFrom(@, Tail(path))]
         ELSE a

\* add(other): set() of a copy of each value; copies are made in the same way.
RECURSIVE Copy(_), addAll(_, _)
Copy(node) == IF node.kind = "string" THEN node ELSE addAll(EmptyAssoc, node)
addAll(a, other) ==
    FoldSet(LAMBDA k, b : createTree(b, <<k>>, Copy(other.tree[k])), a, DOMAIN other.tree)

-----------------------------------------------------------------------------
(* The binary form.  Bytes are grouped in fields [data, size, stored]:     *)
(* exportBinary() computes the position of each in any case and stores it  *)
(* if it finds that it fits; keys are of one byte.                         *)

\* A field of `size' bytes at position p is stored if p + guard < buffersize.
Field(data, size, p, guard, buffersize) ==
    <<[data |-> data, size |-> size, stored |-> p + guard < buffersize]>>

SizeOf(fields) == FoldLeft(LAMBDA sum, f : sum + f.size, 0, fields)

\* The fields of an array of which the buffer begins at 0.  The recursion gets
\* the rest of the buffer.
RECURSIVE exportBinary(_, _)
exportBinary(a, buffersize) ==
    LET Entry(sofar, k) ==
            LET p      == SizeOf(sofar)
                node   == a.tree[k]
                head   == Field(node.kind, 1, p, 0, buffersize)
                          \o Field("keylen", 2, p + 1, 4, buffersize)
                          \o Field(k, 1, p + 3, 1, buffersize)
            IN  sofar \o head \o
                (IF node.kind = "array" THEN exportBinary(node, buffersize - (p + 4))
                 ELSE Field(Len(node.value), 4, p + 4, 4, buffersize)
                      \o Field(node.value, Len(node.value), p + 8, Len(node.value), buffersize))
        entries == FoldLeft(Entry, Field("PPLASOC", 7, 0, 7, buffersize), SetToSeq(DOMAIN a.tree))
    IN  entries \o Field("end", 1, SizeOf(entries), 0, buffersize)

\* Reads entries from field i on into a; the result also tells the field behind.
RECURSIVE importEntries(_, _, _)
importEntries(fields, i, a) ==
    IF fields[i].data = "end" THEN [array |-> a, next |-> i + 1]
    ELSE LET key == fields[i + 2].data IN
         IF fields[i].data = "array"
         THEN LET na == importEntries(fields, i + 4, EmptyAssoc)
              IN  importEntries(fields, na.next, createTree(a, <<key>>, Copy(na.array)))
         ELSE importEntries(fields, i + 5, createTree(a, <<key>>, Text(fields[i + 4].data)))

importBinary(fields) == importEntries(fields, 2, EmptyAssoc).array

\* exportBinary(ByteArray&): the size first, then a buffer of that size; a field
\* that was not stored is garbage, and the result nothing that was promised.
Reimported(a) ==
    LET fields == exportBinary(a, SizeOf(exportBinary(a, 0)))
    IN  IF \A i \in DOMAIN fields : fields[i].stored THEN importBinary(fields) ELSE EmptyAssoc

-----------------------------------------------------------------------------
(* Configurations.  A line is a section, a pair of a path and a text, or   *)
(* something else (a comment, an empty line, one without separator).       *)

\* set() or, if pairs are to be concatenated, append().
store(a, path, s, concat) ==
    IF concat = <<>> THEN createTree(a, path, Text(s)) ELSE appendText(a, path, s, concat)

\* The pairs of a document with the paths they are stored at: fromConfig() puts
\* the section in front, to fromTemplate() a section is something else.
pairs(document, sections) ==
    FoldLeft(LAMBDA r, l :
                IF l.kind = "section" /\ sections THEN [r EXCEPT !.section = l.path]
                ELSE IF l.kind = "pair"
                     THEN [r EXCEPT !.list = Append(@, [path |-> r.section \o l.path, text |-> l.text])]
                ELSE r,
             [section |-> <<>>, list |-> <<>>], document).list

-----------------------------------------------------------------------------
(* What is promised                                                        *)

\* The path that is written: "[]" becomes the next number of its array.
RECURSIVE Resolved(_, _)
Resolved(a, path) ==
    IF path = <<>> THEN <<>>
    ELSE LET first == IF Head(path) = NextKey THEN a.maxint ELSE Head(path)
             below == IF first \in DOMAIN a.tree /\ a.tree[first].kind = "array"
                      THEN a.tree[first] ELSE EmptyAssoc
         IN  <<first>> \o Resolved(below, Tail(path))

\* Writing s at p replaces all that was there and makes arrays on the way.
Write(f, p, s) ==
    IF p = <<>> THEN f
    ELSE LET ways == {SubSeq(p, 1, i) : i \in 1..(Len(p) - 1)}
             kept == {q \in DOMAIN f : ~IsPrefix(p, q)}
         IN  [q \in kept \cup ways \cup {p} |->
                 IF q = p THEN Text(s) ELSE IF q \in ways THEN [kind |-> "array"] ELSE f[q]]

\* Appending keeps the text that is there, and does not touch an array.
Extend(f, p, s, concat) ==
    IF p \in DOMAIN f /\ concat # <<>>
    THEN IF f[p].kind = "array" THEN f ELSE [f EXCEPT ![p] = Text(@.value \o concat \o s)]
    ELSE Write(f, p, s)

-----------------------------------------------------------------------------
(* Operations                                                              *)

Set ==
    \E path \in Paths, s \in Texts :
        /\ assoc' = createTree(assoc, path, Text(s))
        /\ promised' = Write(promised, Resolved(assoc, path), s)

append ==
    \E path \in Paths, s \in Texts :
        /\ assoc' = appendText(assoc, path, s, Concat)
        /\ promised' = Extend(promised, Resolved(assoc, path), s, Concat)

erase ==
    \E path \in Paths :
        /\ assoc' = eraseFrom(assoc, path)
        /\ promised' = [q \in {r \in DOMAIN promised : path = <<>> \/ ~IsPrefix(path, r)} |-> promised[q]]

\* add() of an array with one path: the whole branch is replaced.
add ==
    \E path \in Paths \ {<<>>}, s \in Texts :
        LET other == createTree(EmptyAssoc, path, Text(s))
            p     == Resolved(EmptyAssoc, path)
        IN  /\ assoc' = addAll(assoc, other)
            /\ promised' = Write([q \in {r \in DOMAIN promised : r[1] # p[1]} |-> promised[q]], p, s)

\* The copy constructor, and export to a buffer that is imported again.
copy == assoc' = Copy(assoc) /\ UNCHANGED promised
exportImport == assoc' = Reimported(assoc) /\ UNCHANGED promised

clear == assoc' = EmptyAssoc /\ promised' = [p \in {} |-> <<>>]

\* fromConfig() and fromTemplate(), with and without concatenation.
fromConfig ==
    \E document \in Documents, sections \in BOOLEAN, concat \in {<<>>, Concat} :
        LET after == FoldLeft(LAMBDA r, l :
                        [a |-> store(r.a, l.path, l.text, concat),
                         f |-> Extend(r.f, Resolved(r.a, l.path), l.text, concat)],
                        [a |-> assoc, f |-> promised], pairs(document, sections))
        IN  assoc' = after.a /\ promised' = after.f

\* Bounds: numbers as keys, and one concatenation per text.
Bounded ==
    \A p \in DOMAIN promised' :
        /\ \A i \in DOMAIN p : p[i] \notin Names => p[i] < MaxKeys
        /\ promised'[p].kind = "string" => Len(promised'[p].value) <= 3

AssocNext ==
    /\ Set \/ append \/ erase \/ add \/ copy \/ exportImport \/ clear \/ fromConfig
    /\ Bounded

-----------------------------------------------------------------------------
(* Properties                                                              *)

\* count(true)
RECURSIVE count(_)
count(a) ==
    MapThenSumSet(LAMBDA k : IF a.tree[k].kind = "array" THEN 1 + count(a.tree[k]) ELSE 1,
                  DOMAIN a.tree)

\* Whatever was set, appended, erased, copied, read from a configuration or
\* exported and imported again: each path leads to what was last stored there,
\* there is nothing else, and "[]" never meets a key that is in use.
HoldsPromised ==
    /\ count(assoc) = Cardinality(DOMAIN promised)
    /\ \A p \in DOMAIN promised :
          LET parent == IF Len(p) = 1 THEN {assoc} ELSE findInternal(assoc, Front(p)) IN
          /\ \E n \in findInternal(assoc, p) :
                n.kind = promised[p].kind /\ (n.kind = "string" => n = promised[p])
          /\ Last(p) \notin Names => \A a \in parent : Last(p) < a.maxint

=============================================================================
