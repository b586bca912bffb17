----------------------------- MODULE SenderSetup -----------------------------
(***************************************************************************)
(* How udpsender prepares a measurement: its source addresses from a file  *)
(* (readSourceIPList), the rates of its load levels from option -r         *)
(* (getQueryRates), and which thread uses which of the addresses           *)
(* (prepareThreads).  EchoSession begins where this ends.                  *)
(***************************************************************************)
EXTENDS Integers, Sequences, FiniteSets, Functions

CONSTANTS
    MaxUInt64,     \* the largest number of the type of the loop's counter
    Ranges,        \* ranges that option -r may ask for, <<from, to, step>>
    SourceFiles,   \* files of source addresses: sequences of kinds of lines
    Numbers        \* of threads that option -n may ask for

ASSUME SetupAssumption ==
    /\ MaxUInt64 \in Nat
    /\ Ranges \subseteq (0..MaxUInt64) \X (0..MaxUInt64) \X (0..MaxUInt64)
    /\ \A lines_of \in SourceFiles : lines_of \in Seq({"address", "comment", "empty"})
    /\ Numbers \subseteq Nat

VARIABLES
    phase,         \* "sources", "rates", "threads" or "prepared"
    file, lineno, SourceIpList,         \* readSourceIPList; an address is its line's number
    range, i, rates,                    \* getQueryRates
    ThreadCount, si, source             \* prepareThreads: next address, those of the threads

qvars == <<range, i, rates>>
lvars == <<file, lineno, SourceIpList>>
svars == <<phase, qvars, lvars, ThreadCount, si, source>>

SetupInit ==
    /\ phase = "sources"
    /\ range \in Ranges /\ i = range[1] /\ rates = <<>>
    /\ file \in SourceFiles /\ lineno = 1 /\ SourceIpList = <<>>
    /\ ThreadCount \in Numbers /\ si = 1 /\ source = <<>>

\* A turn of the loop of readSourceIPList(): neither empty lines nor comments.
ReadLine ==
    /\ phase = "sources" /\ lineno <= Len(file)
    /\ SourceIpList' = IF file[lineno] = "address" THEN Append(SourceIpList, lineno) ELSE SourceIpList
    /\ lineno' = lineno + 1
    /\ UNCHANGED <<phase, qvars, file, ThreadCount, si, source>>

\* The exception at the end of the file ends the loop.
SourcesRead ==
    /\ phase = "sources" /\ lineno > Len(file)
    /\ phase' = "rates"
    /\ UNCHANGED <<qvars, lvars, ThreadCount, si, source>>

\* Mutant of InRange: the end of the range is left out.
InRangeOpen == i < range[2]

InRange == i <= range[2]

\* A turn of the loop of getQueryRates(); i is unsigned and may wrap around.
AddRate ==
    /\ phase = "rates" /\ InRange
    /\ Len(rates) <= MaxUInt64   \* bound: the list of a range that never ends
    /\ rates' = Append(rates, i)
    /\ i' = (i + range[3]) % (MaxUInt64 + 1)
    /\ UNCHANGED <<phase, range, lvars, ThreadCount, si, source>>

RatesDone ==
    /\ phase = "rates" /\ ~InRange
    /\ phase' = "threads"
    /\ UNCHANGED <<qvars, lvars, ThreadCount, si, source>>

\* Mutant of NextSource: the last address is never used.
NextSourceSkipsLast == IF si + 1 >= Len(SourceIpList) THEN 1 ELSE si + 1

NextSource == IF si + 1 > Len(SourceIpList) THEN 1 ELSE si + 1

\* A turn of the loop of prepareThreads(); 0: the thread has no source address.
PrepareThread ==
    /\ phase = "threads" /\ Len(source) < ThreadCount
    /\ IF SourceIpList = <<>> THEN source' = Append(source, 0) /\ UNCHANGED si
       ELSE source' = Append(source, SourceIpList[si]) /\ si' = NextSource
    /\ UNCHANGED <<phase, qvars, lvars, ThreadCount>>

Prepared ==
    /\ phase = "threads" /\ Len(source) = ThreadCount
    /\ phase' = "prepared"
    /\ UNCHANGED <<qvars, lvars, ThreadCount, si, source>>

SetupNext == ReadLine \/ SourcesRead \/ AddRate \/ RatesDone \/ PrepareThread \/ Prepared

SetupSpec == SetupInit /\ [][SetupNext]_svars

-----------------------------------------------------------------------------
(* Properties                                                              *)

\* The loop's counter leaves the range before it would wrap around.
RangeEnds == range[3] > 0 /\ range[2] + range[3] <= MaxUInt64

\* "Range (von rate - bis rate, Schrittweite)" (help): the list of levels is the
\* whole range in ascending order, both ends included, and the loop ends, if the
\* counter does not wrap around on its way out of the range; with a step of 0 it
\* never does.
RangeListed ==
    /\ RangeEnds =>
          /\ \A k \in DOMAIN rates : rates[k] = range[1] + (k - 1) * range[3]
          /\ Range(rates) \subseteq range[1]..range[2] /\ Len(rates) <= MaxUInt64
          /\ phase \in {"threads", "prepared"} =>
                \A r \in range[1]..range[2] : (r - range[1]) % range[3] = 0 => r \in Range(rates)
    /\ range[3] = 0 /\ range[1] <= range[2] => phase \in {"sources", "rates"}

\* The threads share the source addresses evenly, and use every address that
\* the file has if there are threads enough.
SourcesEven ==
    phase = "prepared" =>
        LET addresses == {k \in DOMAIN file : file[k] = "address"}
            users(k)  == Cardinality({t \in DOMAIN source : source[t] = k})
        IN  /\ addresses # {} => \A k \in addresses :
                  users(k) - (ThreadCount \div Cardinality(addresses)) \in {0, 1}
            /\ addresses = {} => Range(source) \subseteq {0}

=============================================================================
