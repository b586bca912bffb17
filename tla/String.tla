------------------------------- MODULE String -------------------------------
(***************************************************************************)
(* ppl7::String, on which all texts of the programs are kept: a buffer of  *)
(* s bytes that is replaced when a text does not fit, and that holds the   *)
(* text and a zero behind it.                                              *)
(*                                                                         *)
(* A blank stands for all that trim() cuts off.  A byte of a new buffer is *)
(* Junk until it is written, and so is one that is read from behind the    *)
(* buffer; a write behind the buffer makes ptr longer than s.              *)
(*                                                                         *)
(* The text that an operation is called with is not part of this string    *)
(* (append() would read from a buffer that it has given back).             *)
(***************************************************************************)
EXTENDS Integers, SequencesExt, FiniteSetsExt

CONSTANTS
    Letters,            \* bytes that texts consist of
    Blank, Slash,       \* two of them: what trim() cuts off, and the backslash
    Texts,              \* texts that operations are called with
    InitialBuffersize,  \* 128
    Slack,              \* bytes that append(), prepend() and repeat() add: 16
    MaxLength           \* bound: letters of a string

ASSUME StringAssumption ==
    /\ Letters \subseteq Nat \ {0} /\ Blank \in Letters /\ Slash \in Letters
    /\ Texts \subseteq Seq(Letters)
    /\ InitialBuffersize \in Nat \ {0} /\ MaxLength \in Nat
    /\ Slack \in Nat /\ Slack >= 2

VARIABLES
    str,                \* [ptr, s, stringlen]; ptr is empty for empty_string
    text                \* history: what the operations so far have made of it

strvars == <<str, text>>

Junk == -1

Empty == [ptr |-> <<>>, s |-> 0, stringlen |-> 0]

StringInit == str = Empty /\ text = <<>>

-----------------------------------------------------------------------------
(* The buffer                                                              *)

Times(c, n) == [k \in 1..n |-> c]

\* The bytes written from position `at' on, and n bytes read from there.
Write(p, at, bytes) ==
    [k \in 1..Max({Len(p), at + Len(bytes)}) |->
        IF k > at /\ k <= at + Len(bytes) THEN bytes[k - at]
        ELSE IF k <= Len(p) THEN p[k] ELSE Junk]
Read(p, at, n) == [k \in 1..n |-> IF at + k <= Len(p) THEN p[at + k] ELSE Junk]

memmove(p, to, from, n) == Write(p, to, Read(p, from, n))

strlen(p) == LET ends == {k \in DOMAIN p : p[k] = 0}
             IN  IF ends = {} THEN Len(p) ELSE Min(ends) - 1

\* The first match that does not begin before `from', or -1.
strstr(p, needle, from) ==
    LET hay     == SubSeq(p, 1, strlen(p))
        matches == {k \in from..(Len(hay) - Len(needle)) :
                       SubSeq(hay, k + 1, k + Len(needle)) = needle}
    IN  IF matches = {} THEN -1 ELSE Min(matches)

Characters(x) == SubSeq(x.ptr, 1, x.stringlen)

\* The zero behind the text, from which its length follows or is counted anew.
EndedAt(x, n) == [x EXCEPT !.ptr = Write(@, n, <<0>>), !.stringlen = n]
EndedByZero(x, p) == [x EXCEPT !.ptr = p, !.stringlen = strlen(p)]

-----------------------------------------------------------------------------
(* set, append, prepend, reserve                                           *)

\* Mutant of newSize: a buffer that the text fills is not replaced.
newSizeTight(x, outbytes) ==
    IF outbytes <= x.s THEN x.s
    ELSE IF outbytes < InitialBuffersize THEN InitialBuffersize
    ELSE (outbytes \div InitialBuffersize + 1) * InitialBuffersize + 1

\* The buffer that set() takes for a text of outbytes with its zero.
newSize(x, outbytes) ==
    IF outbytes < x.s THEN x.s
    ELSE IF outbytes < InitialBuffersize THEN InitialBuffersize
    ELSE (outbytes \div InitialBuffersize + 1) * InitialBuffersize + 1

setText(x, bytes) ==
    LET size == newSize(x, Len(bytes) + 1)
        p    == IF size = x.s THEN x.ptr ELSE Times(Junk, size)
    IN  IF bytes = <<>> THEN Empty
        ELSE EndedAt([x EXCEPT !.s = size, !.ptr = Write(p, 0, bytes)], Len(bytes))

\* realloc(3) to size bytes
resized(x, size) == [x EXCEPT !.s = size, !.ptr = @ \o Times(Junk, size - Len(@))]

\* The buffer with room for n more letters.
grown(x, n) ==
    LET outbytes == n + x.stringlen + 1
    IN  IF outbytes < x.s THEN x
        ELSE resized(x, (outbytes \div InitialBuffersize + 1) * InitialBuffersize + Slack)

append(x, bytes) ==
    LET g == grown(x, Len(bytes))
    IN  IF x.ptr = <<>> THEN setText(x, bytes)
        ELSE EndedAt([g EXCEPT !.ptr = Write(@, x.stringlen, bytes)], x.stringlen + Len(bytes))

prepend(x, bytes) ==
    LET n == Len(bytes)
        g == grown(x, n)
    IN  IF x.ptr = <<>> THEN setText(x, bytes)
        ELSE EndedAt([g EXCEPT !.ptr = Write(memmove(@, n, 0, x.stringlen), 0, bytes)],
                     x.stringlen + n)

\* The zero is not written: the buffer of a string that was empty holds junk.
reserveBytes(x, size) == IF x.s >= size + 1 THEN x ELSE resized(x, size + 1)

-----------------------------------------------------------------------------
(* Parts of a string                                                       *)

left(x, n)  == SubSeq(Characters(x), 1, Min({n, x.stringlen}))
right(x, n) == SubSeq(Characters(x), x.stringlen - Min({n, x.stringlen}) + 1, x.stringlen)
mid(x, start, n) ==
    IF start >= x.stringlen THEN <<>>
    ELSE SubSeq(Characters(x), start + 1, Min({start + n, x.stringlen}))

\* Letters at the start, or up to the last that is not one of cutset.
leading(x, cutset) ==
    Min({k \in 0..x.stringlen : k = x.stringlen \/ x.ptr[k + 1] \notin cutset})
remaining(x, cutset) ==
    Max({0} \cup {k \in 1..x.stringlen : x.ptr[k] \notin cutset})

trim(x) ==
    LET start == leading(x, {Blank})
        last  == remaining(x, {Blank})
        ende  == IF last = 0 THEN x.stringlen ELSE last - 1
        cut   == Write(x.ptr, ende + 1, <<0>>)
    IN  IF x.stringlen = 0 THEN x
        ELSE EndedByZero(x, IF start = 0 THEN cut ELSE memmove(cut, 0, start, ende - start + 2))

trimLeft(x, cutset) ==
    LET start == leading(x, cutset)
    IN  IF x.stringlen = 0 THEN x
        ELSE EndedByZero(x, memmove(x.ptr, 0, start, x.stringlen - start + 1))

trimRight(x, cutset) ==
    IF x.stringlen = 0 THEN x ELSE EndedByZero(x, Write(x.ptr, remaining(x, cutset), <<0>>))

\* trim(chars), and chomp()
trimChars(x, cutset) == trimRight(trimLeft(x, cutset), cutset)

chop(x, n) == IF x.stringlen = 0 THEN x ELSE EndedAt(x, x.stringlen - Min({n, x.stringlen}))

chopLeft(x, n) ==
    LET num  == Min({n, x.stringlen})
        rest == x.stringlen - num
    IN  IF x.stringlen = 0 THEN x ELSE EndedAt([x EXCEPT !.ptr = memmove(@, 0, num, rest)], rest)

cut(x, pos) == IF x.stringlen = 0 \/ pos > x.stringlen THEN x ELSE EndedAt(x, pos)

-----------------------------------------------------------------------------
(* Searching and replacing                                                 *)

\* Matches are taken one after the other, while they end before `limit'.
LastMatch(p, needle, limit) ==
    LET Turn(t) ==
            LET found == strstr(p, needle, t + 1)
            IN  IF found = -1 \/ found + Len(needle) > limit THEN t ELSE found
        tmp[k \in 0..Len(p)] == IF k = 0 THEN -1 ELSE Turn(tmp[k - 1])
    IN  tmp[Len(p)]

\* Mutant of find: a start of -1 is one letter before the end.
findBeforeEnd(x, needle, start) ==
    IF x.stringlen = 0 THEN -1
    ELSE IF needle = <<>> THEN 0
    ELSE IF start >= x.stringlen \/ x.stringlen + start < 0 THEN -1
    ELSE IF start >= 0 THEN strstr(x.ptr, needle, start)
    ELSE LastMatch(x.ptr, needle, x.stringlen + start)

\* A negative start searches backwards, from the end if it is -1.
find(x, needle, start) ==
    IF x.stringlen = 0 THEN -1
    ELSE IF needle = <<>> THEN 0
    ELSE IF start >= x.stringlen \/ x.stringlen + start < 0 THEN -1
    ELSE IF start >= 0 THEN strstr(x.ptr, needle, start)
    ELSE LastMatch(x.ptr, needle, x.stringlen + start + 1)

instr(x, needle, start) ==
    IF x.stringlen = 0 THEN -1
    ELSE IF needle = <<>> THEN 0
    ELSE IF start >= x.stringlen THEN -1 ELSE strstr(x.ptr, needle, start)

has(x, needle) == x.stringlen > 0 /\ needle # <<>> /\ strstr(x.ptr, needle, 0) >= 0

cutAt(x, letter) ==
    LET p == instr(x, letter, 0)
    IN  IF letter = <<>> \/ p < 0 THEN x ELSE EndedAt(x, p)

\* The pieces between the matches, and the replacement for each of these.
Replaced(x, search, replacement) ==
    LET Turn(t) ==
            LET end == find(x, search, t.start)
            IN  IF end < 0 THEN t
                ELSE [start |-> end + Len(search),
                      ms    |-> t.ms \o mid(x, t.start, end - t.start) \o replacement]
        turn[k \in 0..x.stringlen] ==
            IF k = 0 THEN [start |-> 0, ms |-> <<>>] ELSE Turn(turn[k - 1])
        done == turn[x.stringlen]
    IN  done.ms \o mid(x, done.start, x.stringlen)

replace(x, search, replacement) ==
    IF x.stringlen = 0 \/ search = <<>> THEN x ELSE setText(x, Replaced(x, search, replacement))

\* A letter is written when the one behind it is read, unless it is a backslash.
stripSlashes(x) ==
    LET n == strlen(x.ptr)
        out[p \in 0..n] ==
            IF p <= 1 THEN <<>>
            ELSE IF x.ptr[p - 1] = Slash THEN out[p - 1] ELSE Append(out[p - 1], x.ptr[p - 1])
        all == IF n = 0 THEN out[n] ELSE Append(out[n], x.ptr[n])
    IN  IF x.stringlen = 0 THEN x ELSE EndedAt([x EXCEPT !.ptr = Write(@, 0, all)], Len(all))

\* Slash stands for every letter that is escaped.
Escaped(x) ==
    LET t[i \in 0..x.stringlen] ==
            IF i = 0 THEN <<>>
            ELSE (IF x.ptr[i] = Slash THEN Append(t[i - 1], Slash) ELSE t[i - 1]) \o <<x.ptr[i]>>
    IN  t[x.stringlen]

pregEscape(x) ==
    IF x.stringlen = 0 \/ Escaped(x) = Characters(x) THEN x ELSE setText(x, Escaped(x))

-----------------------------------------------------------------------------
(* Repeating and shifting                                                  *)

\* The same bytes num times
Copies(bytes, num) ==
    LET buf[i \in 0..num] == IF i = 0 THEN <<>> ELSE buf[i - 1] \o bytes
    IN  buf[num]

\* A new buffer with `bytes', of which the first n are the string.
rebuilt(bytes, n) ==
    LET size == Len(bytes) + Slack
    IN  EndedAt([ptr |-> Write(Times(Junk, size), 0, bytes), s |-> size, stringlen |-> n], n)

repeat(x, num) ==
    IF x.stringlen = 0 THEN x
    ELSE IF num = 0 THEN Empty
    ELSE rebuilt(Copies(Characters(x), num), x.stringlen * num)

repeatChar(c, num) == IF num = 0 THEN Empty ELSE rebuilt(Times(c, num), num)

\* The length is num, whatever the length of what is repeated.
repeatText(bytes, num) ==
    IF bytes = <<>> \/ num = 0 THEN Empty ELSE rebuilt(Copies(bytes, num), num)

\* The string c is appended size times to what is left; not if c is 0.
shl(x, c, size) ==
    LET n == Min({size, x.stringlen})
    IN  IF n = 0 THEN x
        ELSE setText(x, mid(x, n, x.stringlen) \o (IF c = 0 THEN <<>> ELSE Times(c, n)))

\* What was put together is cut to size, and not to the length of before.
shr(x, c, size) ==
    LET n == Min({size, x.stringlen})
    IN  IF n = 0 \/ c = 0 THEN x
        ELSE setText(x, SubSeq(Times(c, n) \o left(x, x.stringlen - n), 1, n))

-----------------------------------------------------------------------------
(* The same operations on sequences, from the documentation                *)

\* Positions at which needle is in t
Positions(t, needle) ==
    {k \in 0..(Len(t) - Len(needle)) : \A j \in 1..Len(needle) : t[k + j] = needle[j]}

FirstPosition(positions) == IF positions = {} THEN -1 ELSE Min(positions)
LastPosition(positions)  == IF positions = {} THEN -1 ELSE Max(positions)

\* Letter by letter: where `search' is, it is skipped and the replacement taken.
ReplacedIn(t, search, replacement) ==
    LET Turn(e, k) ==
            IF e.skip > 0 THEN [e EXCEPT !.skip = @ - 1]
            ELSE IF k - 1 \in Positions(t, search)
            THEN [out |-> e.out \o replacement, skip |-> Len(search) - 1]
            ELSE [e EXCEPT !.out = Append(@, t[k])]
        done[k \in 0..Len(t)] ==
            IF k = 0 THEN [out |-> <<>>, skip |-> 0] ELSE Turn(done[k - 1], k)
    IN  done[Len(t)].out

\* From the first letter, and up to the last one, that is not in cutset.
CutLeft(t, cutset)  ==
    SubSeq(t, Min({k \in 1..(Len(t) + 1) : k <= Len(t) => t[k] \notin cutset}), Len(t))
CutRight(t, cutset) == SubSeq(t, 1, Max({0} \cup {k \in DOMAIN t : t[k] \notin cutset}))

\* Of backslashes one after the other none is kept, but one at the end.
Stripped(t) ==
    LET out[k \in 0..Len(t)] ==
            IF k = 0 THEN <<>>
            ELSE IF t[k] = Slash /\ k < Len(t) THEN out[k - 1] ELSE Append(out[k - 1], t[k])
    IN  out[Len(t)]

-----------------------------------------------------------------------------
(* Operations, and what they make of the text                              *)

Becomes(x, t) == str' = x /\ text' = t

Store ==
    \E t \in Texts :
        \/ Becomes(setText(str, t), t)
        \/ Becomes(append(str, t), text \o t)
        \/ Becomes(prepend(str, t), t \o text)

SetLetter ==
    \E k \in 0..(str.stringlen - 1), c \in Letters :
        Becomes([str EXCEPT !.ptr = Write(@, k, <<c>>)], [text EXCEPT ![k + 1] = c])

ReserveBytes == \E n \in 0..MaxLength : Becomes(reserveBytes(str, n), text)

\* A string that is assigned a part of itself: the part is a string of its own.
Part ==
    \E n \in 0..MaxLength :
        \/ Becomes(setText(str, left(str, n)), [k \in 1..Min({n, Len(text)}) |-> text[k]])
        \/ Becomes(setText(str, right(str, n)),
              Reverse([k \in 1..Min({n, Len(text)}) |-> Reverse(text)[k]]))
        \/ \E start \in 0..MaxLength :
              Becomes(setText(str, mid(str, start, n)),
                 [k \in 1..(IF start > Len(text) THEN 0 ELSE Min({n, Len(text) - start})) |->
                     text[start + k]])

Trim ==
    \/ Becomes(trim(str), CutLeft(CutRight(text, {Blank}), {Blank}))
    \/ \E cutset \in {{Blank}, {Blank, Slash}} :
          \/ Becomes(trimLeft(str, cutset), CutLeft(text, cutset))
          \/ Becomes(trimRight(str, cutset), CutRight(text, cutset))
          \/ Becomes(trimChars(str, cutset), CutLeft(CutRight(text, cutset), cutset))

Chop ==
    \E n \in 0..MaxLength :
        \/ Becomes(chop(str, n), SubSeq(text, 1, Len(text) - n))
        \/ Becomes(chopLeft(str, n), SubSeq(text, n + 1, Len(text)))
        \/ Becomes(cut(str, n), IF n > Len(text) THEN text ELSE SubSeq(text, 1, n))

CutAt ==
    \E t \in Texts :
        LET p == FirstPosition(Positions(text, t))
        IN  Becomes(cutAt(str, t), IF t = <<>> \/ p = -1 THEN text ELSE SubSeq(text, 1, p))

Replace ==
    \E search, replacement \in Texts :
        Becomes(replace(str, search, replacement),
           IF search = <<>> THEN text ELSE ReplacedIn(text, search, replacement))

StripSlashes == Becomes(stripSlashes(str), Stripped(text))

Escape == Becomes(pregEscape(str), ReplacedIn(text, <<Slash>>, <<Slash, Slash>>))

\* "wiederholt", except that of a repeated text only num letters are left.
Repeat ==
    \E n \in 0..MaxLength :
        \/ Becomes(repeat(str, n), [k \in 1..(n * Len(text)) |-> text[((k - 1) % Len(text)) + 1]])
        \/ \E c \in Letters : Becomes(repeatChar(c, n), Times(c, n))
        \/ \E t \in Texts :
              Becomes(repeatText(t, n),
                 [k \in 1..(IF t = <<>> THEN 0 ELSE n) |-> t[((k - 1) % Len(t)) + 1]])

\* "um die mit size angegebenen Zeichen ... verschoben"; by no more than its
\* length, and to the right only the letters that fill it are left.
Shift ==
    \E c \in Letters \cup {0}, size \in 0..MaxLength :
        LET n == Min({size, Len(text)}) IN
        \/ Becomes(shl(str, c, size),
              SubSeq(text, n + 1, Len(text)) \o (IF c = 0 THEN <<>> ELSE Times(c, n)))
        \/ Becomes(shr(str, c, size), IF n = 0 \/ c = 0 THEN text ELSE Times(c, n))

Clear == Becomes(Empty, <<>>)

StringNext ==
    /\ \/ Store \/ SetLetter \/ ReserveBytes \/ Part \/ Trim \/ Chop \/ CutAt \/ Replace
       \/ StripSlashes \/ Escape \/ Repeat \/ Shift \/ Clear
    /\ Len(text') <= MaxLength

StringSpec == StringInit /\ [][StringNext]_strvars

-----------------------------------------------------------------------------
(* Properties                                                              *)

\* Through every sequence of operations the buffer holds the text that they make
\* on sequences of letters, and a zero behind it, and none of them has written
\* behind the buffer: not where trim() writes its zero, nor where a text fits
\* exactly into what reserve() or the operation before has left.
TextKept ==
    /\ Characters(str) = text
    /\ Len(str.ptr) = str.s
    /\ str.stringlen > 0 => str.ptr[str.stringlen + 1] = 0

\* find() and instr() return the first match from start on, or, if start is
\* negative, the last that ends by it, counted from the end.
NeedleFound ==
    \A needle \in Texts, start \in -MaxLength..MaxLength :
        LET at == Positions(text, needle)
            first == FirstPosition({k \in at : k >= start})
            last  == LastPosition({k \in at : k + Len(needle) <= Len(text) + start + 1})
        IN  text # <<>> /\ needle # <<>> =>
                /\ start >= 0 => find(str, needle, start) = first /\ instr(str, needle, start) = first
                /\ start < 0 => find(str, needle, start) = last
                /\ has(str, needle) <=> at # {}

=============================================================================
