------------------------ MODULE SenderProgramProofs ------------------------
(***************************************************************************)
(* Proofs about what udpsender does around the work of its threads:        *)
(* SenderSetup for every range, file of addresses and number of threads,   *)
(* the status lines of SampleSensorData for every number of interfaces and *)
(* width of the counters, and ThreadPool for any number of threads, levels *)
(* and rounds, provided that the sleep after startThreads() outlasts the   *)
(* start of the threads (Settles).                                         *)
(*                                                                         *)
(* The share of an address is inductive with the number of turns that the  *)
(* iterator si has made around the list (Shares); the list of levels with  *)
(* the counter of its loop (RatesListed); and a status line with counters  *)
(* that differ from the sample before by what was counted since, modulo    *)
(* their width (Moved).                                                    *)
(* The invariant of the pool says what IsRunning tells the owner: a thread *)
(* in run() is in `running', a thread that has not set IsRunning yet       *)
(* exists only until the owner has slept, and only the current level has   *)
(* active threads.  What the owner has seen in its scan so far is then     *)
(* true of the threads.                                                    *)
(***************************************************************************)
EXTENDS SenderSetup, SampleSensorData, ThreadPool, SumTheorems

-----------------------------------------------------------------------------
(* The preparation: the inductive invariant                                *)

Kinds == {"address", "comment", "empty"}

SetupType ==
    /\ phase \in {"sources", "rates", "threads", "prepared"}
    /\ range \in Ranges /\ i \in 0..MaxUInt64 /\ rates \in Seq(Nat)
    /\ file \in SourceFiles /\ lineno \in Nat /\ SourceIpList \in Seq(Nat)
    /\ ThreadCount \in Nat /\ si \in Nat /\ source \in Seq(Nat)

\* The list holds the addresses of the lines before lineno, once each.
Listed ==
    /\ lineno \in 1..(Len(file) + 1)
    /\ \A a, b \in DOMAIN SourceIpList : SourceIpList[a] = SourceIpList[b] => a = b
    /\ \A a \in DOMAIN SourceIpList :
          SourceIpList[a] \in 1..(lineno - 1) /\ file[SourceIpList[a]] = "address"
    /\ \A k \in 1..(lineno - 1) :
          file[k] = "address" => \E a \in DOMAIN SourceIpList : SourceIpList[a] = k
    /\ phase # "sources" => lineno = Len(file) + 1

Users(s, k) == {t \in DOMAIN s : s[t] = k}

\* After q turns around the list every address has q threads, and those before
\* si have one more.
Turn(q) ==
    LET n == Len(SourceIpList) IN
    /\ si \in 1..n /\ Len(source) = q * n + (si - 1)
    /\ \A a \in 1..n :
          Cardinality(Users(source, SourceIpList[a])) = q + (IF a < si THEN 1 ELSE 0)

Shares ==
    /\ phase = "sources" \/ phase = "rates" => source = <<>> /\ si = 1
    /\ phase # "sources" /\ SourceIpList # <<>> => \E q \in Nat : Turn(q)
    /\ phase # "sources" /\ SourceIpList = <<>> => \A t \in DOMAIN source : source[t] = 0
    /\ phase = "prepared" => Len(source) = ThreadCount

RatesListed ==
    /\ phase = "sources" => rates = <<>> /\ i = range[1]
    /\ RangeEnds =>
          /\ i = range[1] + Len(rates) * range[3]
          /\ \A k \in DOMAIN rates : rates[k] = range[1] + (k - 1) * range[3] /\ rates[k] <= range[2]
    /\ range[3] = 0 => i = range[1]
    /\ phase = "threads" \/ phase = "prepared" => range[2] < i

SetupInv == SetupType /\ Listed /\ Shares /\ RatesListed

LEMMA RangeType ==
    ASSUME SetupType
    PROVE  /\ range[1] \in 0..MaxUInt64 /\ range[2] \in 0..MaxUInt64 /\ range[3] \in 0..MaxUInt64
           /\ MaxUInt64 \in Nat
<1>1. range \in (0..MaxUInt64) \X (0..MaxUInt64) \X (0..MaxUInt64)
  BY SetupAssumption DEF SetupType
<1> QED BY <1>1, SetupAssumption

LEMMA FileType ==
    ASSUME SetupType
    PROVE  /\ file \in Seq(Kinds) /\ Len(file) \in Nat /\ DOMAIN file = 1..Len(file)
<1>1. file \in Seq(Kinds)
  BY SetupAssumption DEF SetupType, Kinds
<1> QED BY <1>1

LEMMA SetupInitInv == SetupInit => SetupInv
<1> SUFFICES ASSUME SetupInit PROVE SetupInv
  OBVIOUS
<1>1. /\ phase = "sources" /\ rates = <<>> /\ SourceIpList = <<>> /\ source = <<>>
      /\ lineno = 1 /\ si = 1 /\ range \in Ranges /\ i = range[1] /\ file \in SourceFiles
      /\ ThreadCount \in Numbers
  BY DEF SetupInit
<1>2. range \in (0..MaxUInt64) \X (0..MaxUInt64) \X (0..MaxUInt64)
  BY <1>1, SetupAssumption
<1>3. i \in 0..MaxUInt64
  BY <1>1, <1>2
<1>4. <<>> \in Seq(Nat) /\ Len(<<>>) = 0 /\ DOMAIN <<>> = {}
  OBVIOUS
<1>5. SetupType
  BY <1>1, <1>3, <1>4, SetupAssumption DEF SetupType
<1>6. Listed
  BY <1>1, <1>4, <1>5, FileType DEF Listed
<1>7. Shares
  BY <1>1 DEF Shares
<1>8. RatesListed
  <2>1. range[1] \in Nat /\ range[3] \in Nat /\ 0 * range[3] = 0
    BY <1>2
  <2> QED BY <1>1, <1>4, <2>1 DEF RatesListed
<1> QED BY <1>5, <1>6, <1>7, <1>8 DEF SetupInv

-----------------------------------------------------------------------------
(* The preparation: its steps                                              *)

LEMMA AppendOf ==
    ASSUME NEW s \in Seq(Nat), NEW x \in Nat
    PROVE  /\ Append(s, x) \in Seq(Nat) /\ Len(s) \in Nat /\ Len(Append(s, x)) = Len(s) + 1
           /\ DOMAIN s = 1..Len(s) /\ DOMAIN Append(s, x) = 1..(Len(s) + 1)
           /\ \A k \in 1..Len(s) : Append(s, x)[k] = s[k]
           /\ Append(s, x)[Len(s) + 1] = x
  OBVIOUS

LEMMA ReadLineKeeps == SetupInv /\ ReadLine => SetupInv'
<1> SUFFICES ASSUME SetupInv, ReadLine PROVE SetupInv'
  OBVIOUS
<1>1. /\ phase = "sources" /\ lineno <= Len(file) /\ lineno' = lineno + 1
      /\ UNCHANGED <<phase, range, i, rates, file, ThreadCount, si, source>>
      /\ SourceIpList' = IF file[lineno] = "address" THEN Append(SourceIpList, lineno) ELSE SourceIpList
  BY DEF ReadLine, qvars
<1>2. lineno \in Nat /\ SourceIpList \in Seq(Nat) /\ Len(file) \in Nat /\ lineno \in 1..(Len(file) + 1)
  BY FileType DEF SetupInv, SetupType, Listed
<1> DEFINE new == Append(SourceIpList, lineno)
           n == Len(SourceIpList)
<1>3. /\ new \in Seq(Nat) /\ n \in Nat /\ Len(new) = n + 1
      /\ DOMAIN SourceIpList = 1..n /\ DOMAIN new = 1..(n + 1)
      /\ \A k \in 1..n : new[k] = SourceIpList[k]
      /\ new[n + 1] = lineno
  BY <1>2, AppendOf
<1> HIDE DEF new, n
<1>4. SetupType'
  BY <1>1, <1>2, <1>3 DEF SetupInv, SetupType, new
<1>5. Listed'
  <2>1. lineno' \in 1..(Len(file) + 1) /\ lineno' - 1 = lineno /\ phase' = "sources" /\ file' = file
    BY <1>1, <1>2 DEF SetupInv, SetupType
  <2>2. CASE file[lineno] = "address"
    <3>1. SourceIpList' = new
      BY <1>1, <2>2 DEF new
    <3>2. \A a \in 1..n : SourceIpList[a] \in 1..(lineno - 1) /\ file[SourceIpList[a]] = "address"
      BY <1>3 DEF SetupInv, Listed
    <3>3. \A k \in 1..(lineno - 1) : k \in 1..lineno /\ k # lineno
      BY <1>2
    <3>4. \A a, b \in 1..(n + 1) : new[a] = new[b] => a = b
      <4>1. \A a \in 1..(n + 1) : a = n + 1 \/ a \in 1..n
        BY <1>3
      <4>2. \A a \in 1..n : new[a] # lineno
        BY <1>3, <3>2, <3>3
      <4>3. \A a, b \in 1..n : new[a] = new[b] => a = b
        BY <1>3 DEF SetupInv, Listed
      <4> QED BY <1>3, <4>1, <4>2, <4>3
    <3>5. \A a \in 1..(n + 1) : new[a] \in 1..lineno /\ file[new[a]] = "address"
      <4>1. \A a \in 1..(n + 1) : a = n + 1 \/ a \in 1..n
        BY <1>3
      <4>2. \A a \in 1..n : new[a] \in 1..lineno /\ file[new[a]] = "address"
        BY <1>3, <3>2, <3>3
      <4>3. lineno \in 1..lineno
        BY <1>2
      <4> QED BY <1>3, <2>2, <4>1, <4>2, <4>3
    <3>6. \A k \in 1..lineno : file[k] = "address" => \E a \in 1..(n + 1) : new[a] = k
      <4>1. \A k \in 1..lineno : k = lineno \/ k \in 1..(lineno - 1)
        BY <1>2
      <4>2. \A k \in 1..(lineno - 1) : file[k] = "address" => \E a \in 1..n : new[a] = k
        BY <1>3 DEF SetupInv, Listed
      <4>3. n + 1 \in 1..(n + 1) /\ \A a \in 1..n : a \in 1..(n + 1)
        BY <1>3
      <4> QED BY <1>3, <4>1, <4>2, <4>3
    <3> QED BY <1>3, <2>1, <3>1, <3>4, <3>5, <3>6 DEF Listed
  <2>3. CASE file[lineno] # "address"
    <3>1. SourceIpList' = SourceIpList
      BY <1>1, <2>3
    <3>2. \A k \in 1..lineno : k = lineno \/ k \in 1..(lineno - 1)
      BY <1>2
    <3>3. \A k \in 1..(lineno - 1) : k \in 1..lineno
      BY <1>2
    <3> QED BY <2>1, <2>3, <3>1, <3>2, <3>3 DEF Listed, SetupInv
  <2> QED BY <2>2, <2>3
<1>6. Shares'
  BY <1>1 DEF SetupInv, Shares
<1>7. RatesListed'
  BY <1>1 DEF SetupInv, RatesListed, RangeEnds
<1> QED BY <1>4, <1>5, <1>6, <1>7 DEF SetupInv

\* With the end of the file the first turn begins, of which no thread is.
LEMMA SourcesReadKeeps == SetupInv /\ SourcesRead => SetupInv'
<1> SUFFICES ASSUME SetupInv, SourcesRead PROVE SetupInv'
  OBVIOUS
<1>1. /\ phase = "sources" /\ lineno > Len(file) /\ phase' = "rates"
      /\ UNCHANGED <<range, i, rates, file, lineno, SourceIpList, ThreadCount, si, source>>
  BY DEF SourcesRead, qvars, lvars
<1>2. SetupType'
  BY <1>1 DEF SetupInv, SetupType
<1>3. Listed'
  <2>1. lineno = Len(file) + 1
    BY <1>1, FileType DEF SetupInv, Listed
  <2> QED BY <1>1, <2>1 DEF SetupInv, Listed
<1>4. Shares'
  <2>1. source = <<>> /\ si = 1
    BY <1>1 DEF SetupInv, Shares
  <2>2. SourceIpList # <<>> => Turn(0)
    <3> SUFFICES ASSUME SourceIpList # <<>> PROVE Turn(0)
      OBVIOUS
    <3> DEFINE n == Len(SourceIpList)
    <3>1. n \in Nat \ {0}
      BY DEF SetupInv, SetupType
    <3>2. \A k : Users(source, k) = {}
      BY <2>1 DEF Users
    <3>3. Len(source) = 0
      BY <2>1
    <3> HIDE DEF n
    <3>4. \A a \in 1..n : Cardinality(Users(source, SourceIpList[a])) = 0 + (IF a < si THEN 1 ELSE 0)
      BY <2>1, <3>1, <3>2, FS_EmptySet
    <3>5. si \in 1..n /\ Len(source) = 0 * n + (si - 1)
      BY <2>1, <3>1, <3>3
    <3> QED BY <3>4, <3>5 DEF Turn, n
  <2>3. Turn(0)' <=> Turn(0)
    BY <1>1 DEF Turn, Users
  <2> QED BY <1>1, <2>1, <2>2, <2>3 DEF Shares
<1>5. RatesListed'
  BY <1>1 DEF SetupInv, RatesListed, RangeEnds
<1> QED BY <1>2, <1>3, <1>4, <1>5 DEF SetupInv

\* A turn of the loop of getQueryRates() that does not wrap around adds the next
\* level of the range.
LEMMA AddRateKeeps == SetupInv /\ AddRate => SetupInv'
<1> SUFFICES ASSUME SetupInv, AddRate PROVE SetupInv'
  OBVIOUS
<1> DEFINE L == Len(rates)
           step == range[3]
<1>1. /\ phase = "rates" /\ i <= range[2] /\ rates' = Append(rates, i)
      /\ i' = (i + step) % (MaxUInt64 + 1)
      /\ UNCHANGED <<phase, range, file, lineno, SourceIpList, ThreadCount, si, source>>
  BY DEF AddRate, InRange, lvars
<1>2. /\ range[1] \in Nat /\ range[2] \in Nat /\ step \in Nat /\ MaxUInt64 \in Nat
      /\ i \in 0..MaxUInt64 /\ rates \in Seq(Nat)
  BY RangeType DEF SetupInv, SetupType
<1>3. /\ rates' \in Seq(Nat) /\ L \in Nat /\ Len(rates') = L + 1
      /\ DOMAIN rates = 1..L /\ DOMAIN rates' = 1..(L + 1)
      /\ \A k \in 1..L : rates'[k] = rates[k]
      /\ rates'[L + 1] = i
  BY <1>1, <1>2, AppendOf
<1>4. i' \in 0..MaxUInt64 /\ (i + step <= MaxUInt64 => i' = i + step)
  <2>1. \A m, w \in Nat : m % (w + 1) \in 0..w /\ (m <= w => m % (w + 1) = m)
    OBVIOUS
  <2>2. i + step \in Nat
    BY <1>2
  <2> QED BY <1>1, <1>2, <2>1, <2>2
<1>5. SetupType'
  BY <1>1, <1>3, <1>4 DEF SetupInv, SetupType
<1>6. Listed'
  BY <1>1 DEF SetupInv, Listed
<1>7. Shares'
  BY <1>1 DEF SetupInv, Shares, Turn, Users
<1>8. RatesListed'
  <2>1. ASSUME RangeEnds
        PROVE  /\ i' = range[1] + (L + 1) * step
               /\ \A k \in 1..(L + 1) : rates'[k] = range[1] + (k - 1) * step /\ rates'[k] <= range[2]
    <3>1. /\ i = range[1] + L * step
          /\ \A k \in 1..L : rates[k] = range[1] + (k - 1) * step /\ rates[k] <= range[2]
      BY <1>3, <2>1 DEF SetupInv, RatesListed
    <3> HIDE DEF L
    <3>2. i + step <= MaxUInt64
      BY <1>1, <1>2, <2>1 DEF RangeEnds
    <3>3. L * step \in Nat /\ (L + 1) * step = L * step + step
      <4>1. \A x, y \in Nat : x * y \in Nat /\ (x + 1) * y = x * y + y
        OBVIOUS
      <4> QED BY <1>2, <1>3, <4>1
    <3>4. i' = range[1] + (L + 1) * step
      BY <1>2, <1>4, <3>1, <3>2, <3>3
    <3>5. \A k \in 1..(L + 1) : k = L + 1 \/ k \in 1..L
      BY <1>3
    <3>6. (L + 1) - 1 = L
      BY <1>3
    <3> QED BY <1>1, <1>3, <3>1, <3>4, <3>5, <3>6
  <2>2. ASSUME step = 0
        PROVE  i' = range[1]
    <3>1. i = range[1] /\ i + step = i /\ i <= MaxUInt64
      BY <1>2, <2>2 DEF SetupInv, RatesListed
    <3> QED BY <1>2, <1>4, <3>1
  <2> QED BY <1>1, <1>3, <2>1, <2>2 DEF RatesListed, RangeEnds
<1> QED BY <1>5, <1>6, <1>7, <1>8 DEF SetupInv

LEMMA RatesDoneKeeps == SetupInv /\ RatesDone => SetupInv'
<1> SUFFICES ASSUME SetupInv, RatesDone PROVE SetupInv'
  OBVIOUS
<1>1. /\ phase = "rates" /\ ~(i <= range[2]) /\ phase' = "threads"
      /\ UNCHANGED <<range, i, rates, file, lineno, SourceIpList, ThreadCount, si, source>>
  BY DEF RatesDone, InRange, qvars, lvars
<1>2. SetupType' /\ Listed'
  BY <1>1 DEF SetupInv, SetupType, Listed
<1>3. Shares'
  BY <1>1 DEF SetupInv, Shares, Turn, Users
<1>4. RatesListed'
  <2>1. range[2] < i
    BY <1>1, RangeType DEF SetupInv, SetupType
  <2> QED BY <1>1, <2>1 DEF SetupInv, RatesListed, RangeEnds
<1> QED BY <1>2, <1>3, <1>4 DEF SetupInv

\* A thread more for one address.
LEMMA UsersAppend ==
    ASSUME NEW s \in Seq(Nat), NEW x \in Nat, NEW k
    PROVE  /\ IsFiniteSet(Users(s, k)) /\ Cardinality(Users(s, k)) \in Nat
           /\ Cardinality(Users(Append(s, x), k))
                  = Cardinality(Users(s, k)) + (IF k = x THEN 1 ELSE 0)
<1> DEFINE t == Append(s, x)
           n == Len(s)
<1>1. /\ n \in Nat /\ DOMAIN s = 1..n /\ DOMAIN t = 1..(n + 1)
      /\ \A m \in 1..n : t[m] = s[m]
      /\ t[n + 1] = x
  BY AppendOf
<1> HIDE DEF t, n
<1>2. Users(s, k) \subseteq 1..n /\ n + 1 \notin Users(s, k)
  BY <1>1 DEF Users
<1>3. IsFiniteSet(Users(s, k))
  <2>1. IsFiniteSet(1..n)
    BY <1>1, FS_Interval
  <2> QED BY <1>2, <2>1, FS_Subset
<1>4. \A m \in 1..(n + 1) : m = n + 1 \/ m \in 1..n
  BY <1>1
<1>5. n + 1 \in 1..(n + 1) /\ 1..n \subseteq 1..(n + 1)
  BY <1>1
<1>6. CASE k = x
  <2>1. Users(t, k) = Users(s, k) \cup {n + 1}
    BY <1>1, <1>4, <1>5, <1>6 DEF Users
  <2>2. Cardinality(Users(t, k)) = Cardinality(Users(s, k)) + 1
    BY <1>2, <1>3, <2>1, FS_AddElement
  <2> QED BY <1>3, <1>6, <2>2, FS_CardinalityType DEF t
<1>7. CASE k # x
  <2>1. Users(t, k) = Users(s, k)
    BY <1>1, <1>4, <1>5, <1>7 DEF Users
  <2>2. Cardinality(Users(s, k)) \in Nat
    BY <1>3, FS_CardinalityType
  <2> QED BY <1>3, <1>7, <2>1, <2>2 DEF t
<1> QED BY <1>6, <1>7

\* The next address has one thread more, which is the one before si that it was
\* not yet; behind the last one a new turn begins.
LEMMA NextTurn ==
    ASSUME SetupType, Listed, SourceIpList # <<>>, NEW q \in Nat, Turn(q),
           source' = Append(source, SourceIpList[si]), si' = NextSource,
           SourceIpList' = SourceIpList
    PROVE  si' \in Nat /\ source' \in Seq(Nat) /\ (Turn(q)' \/ Turn(q + 1)')
<1> DEFINE n == Len(SourceIpList)
           U(a) == Cardinality(Users(source, SourceIpList[a]))
           V(a) == Cardinality(Users(source', SourceIpList[a]))
<1>1. /\ n \in Nat \ {0} /\ DOMAIN SourceIpList = 1..n /\ \A a \in 1..n : SourceIpList[a] \in Nat
      /\ source \in Seq(Nat)
  BY DEF SetupType
<1>2. /\ si \in 1..n /\ Len(source) = q * n + (si - 1)
      /\ \A a \in 1..n : U(a) = q + (IF a < si THEN 1 ELSE 0)
  BY DEF Turn
<1>3. source' \in Seq(Nat) /\ Len(source') = Len(source) + 1 /\ SourceIpList[si] \in Nat
  BY <1>1, <1>2, AppendOf
<1>4. \A a \in 1..n : V(a) = U(a) + (IF a = si THEN 1 ELSE 0)
  <2> TAKE a \in 1..n
  <2>1. SourceIpList[a] = SourceIpList[si] <=> a = si
    BY <1>1, <1>2 DEF Listed
  <2>2. V(a) = U(a) + (IF SourceIpList[a] = SourceIpList[si] THEN 1 ELSE 0)
    BY <1>1, <1>3, UsersAppend
  <2> QED BY <2>1, <2>2
<1>5. si' = IF si + 1 > n THEN 1 ELSE si + 1
  BY DEF NextSource
<1> HIDE DEF n, U, V
<1>6. q * n \in Nat /\ (q + 1) * n = q * n + n
  BY <1>1
<1>7. CASE si + 1 > n
  <2>1. si = n /\ si' = 1 /\ Len(source') = (q + 1) * n + (si' - 1) /\ si' \in 1..n
    BY <1>1, <1>2, <1>3, <1>5, <1>6, <1>7
  <2>2. ASSUME NEW a \in 1..n
        PROVE  V(a) = q + 1 + (IF a < si' THEN 1 ELSE 0)
    <3>1. ~(a < si') /\ (a < si <=> a # si)
      BY <1>1, <2>1
    <3>2. V(a) = q + (IF a < si THEN 1 ELSE 0) + (IF a = si THEN 1 ELSE 0)
      BY <1>2, <1>4
    <3> QED BY <3>1, <3>2
  <2>3. Turn(q + 1)'
    BY <2>1, <2>2 DEF Turn, n, V
  <2> QED BY <1>3, <2>1, <2>3
<1>8. CASE ~(si + 1 > n)
  <2>1. si' = si + 1 /\ Len(source') = q * n + (si' - 1) /\ si' \in 1..n
    BY <1>1, <1>2, <1>3, <1>5, <1>6, <1>8
  <2>2. ASSUME NEW a \in 1..n
        PROVE  V(a) = q + (IF a < si' THEN 1 ELSE 0)
    <3>1. (a < si' <=> (a < si \/ a = si)) /\ ~(a < si /\ a = si)
      BY <1>1, <1>2, <2>1
    <3>2. V(a) = q + (IF a < si THEN 1 ELSE 0) + (IF a = si THEN 1 ELSE 0)
      BY <1>2, <1>4
    <3> QED BY <3>1, <3>2
  <2>3. Turn(q)'
    BY <2>1, <2>2 DEF Turn, n, V
  <2> QED BY <1>3, <2>1, <2>3
<1> QED BY <1>7, <1>8

LEMMA PrepareThreadKeeps == SetupInv /\ PrepareThread => SetupInv'
<1> SUFFICES ASSUME SetupInv, PrepareThread PROVE SetupInv'
  OBVIOUS
<1>1. /\ phase = "threads" /\ phase' = "threads" /\ SourceIpList' = SourceIpList
      /\ UNCHANGED <<range, i, rates, file, lineno, ThreadCount>>
  BY DEF PrepareThread, qvars, lvars
<1>2. Listed' /\ RatesListed'
  BY <1>1 DEF SetupInv, Listed, RatesListed, RangeEnds
<1>3. CASE SourceIpList = <<>>
  <2>1. source' = Append(source, 0) /\ si' = si
    BY <1>3 DEF PrepareThread
  <2>2. source \in Seq(Nat) /\ \A t \in DOMAIN source : source[t] = 0
    BY <1>1, <1>3 DEF SetupInv, SetupType, Shares
  <2>3. source' \in Seq(Nat) /\ \A t \in DOMAIN source' : source'[t] = 0
    BY <2>1, <2>2, AppendOf
  <2> QED BY <1>1, <1>2, <1>3, <2>1, <2>3 DEF SetupInv, SetupType, Shares
<1>4. CASE SourceIpList # <<>>
  <2>1. source' = Append(source, SourceIpList[si]) /\ si' = NextSource
    BY <1>4 DEF PrepareThread
  <2>2. PICK q \in Nat : Turn(q)
    BY <1>1, <1>4 DEF SetupInv, Shares
  <2>3. si' \in Nat /\ source' \in Seq(Nat) /\ (Turn(q)' \/ Turn(q + 1)')
    BY <1>1, <1>4, <2>1, <2>2, NextTurn DEF SetupInv
  <2>4. \E r \in Nat : Turn(r)'
    BY <2>3
  <2> QED BY <1>1, <1>2, <1>4, <2>3, <2>4 DEF SetupInv, SetupType, Shares
<1> QED BY <1>3, <1>4

LEMMA PreparedKeeps == SetupInv /\ Prepared => SetupInv'
<1> SUFFICES ASSUME SetupInv, Prepared PROVE SetupInv'
  OBVIOUS
<1>1. /\ phase = "threads" /\ Len(source) = ThreadCount /\ phase' = "prepared"
      /\ UNCHANGED <<range, i, rates, file, lineno, SourceIpList, ThreadCount, si, source>>
  BY DEF Prepared, qvars, lvars
<1>2. SetupType' /\ Listed' /\ RatesListed'
  BY <1>1 DEF SetupInv, SetupType, Listed, RatesListed, RangeEnds
<1>3. Shares'
  BY <1>1 DEF SetupInv, Shares, Turn, Users
<1> QED BY <1>2, <1>3 DEF SetupInv

LEMMA SetupNextInv == SetupInv /\ [SetupNext]_svars => SetupInv'
<1> SUFFICES ASSUME SetupInv, [SetupNext]_svars PROVE SetupInv'
  OBVIOUS
<1>1. CASE UNCHANGED svars
  <2>1. UNCHANGED <<phase, range, i, rates, file, lineno, SourceIpList, ThreadCount, si, source>>
    BY <1>1 DEF svars, qvars, lvars
  <2>2. SetupType' /\ Listed'
    BY <2>1 DEF SetupInv, SetupType, Listed
  <2>3. Shares'
    BY <2>1 DEF SetupInv, Shares, Turn, Users
  <2>4. RatesListed'
    BY <2>1 DEF SetupInv, RatesListed, RangeEnds
  <2> QED BY <2>2, <2>3, <2>4 DEF SetupInv
<1> QED BY <1>1, ReadLineKeeps, SourcesReadKeeps, AddRateKeeps, RatesDoneKeeps,
           PrepareThreadKeeps, PreparedKeeps DEF SetupNext

THEOREM SetupInvariant == SetupSpec => []SetupInv
  BY SetupInitInv, SetupNextInv, PTL DEF SetupSpec

-----------------------------------------------------------------------------
(* The preparation: what it has made                                       *)

\* The list of sources is as long as the file has addresses.
LEMMA ListIsComplete ==
    ASSUME SetupInv, phase # "sources"
    PROVE  LET addresses == {k \in DOMAIN file : file[k] = "address"}
           IN  /\ Cardinality(addresses) = Len(SourceIpList)
               /\ \A k \in addresses : \E a \in 1..Len(SourceIpList) : SourceIpList[a] = k
               /\ SourceIpList = <<>> <=> addresses = {}
<1> DEFINE n == Len(SourceIpList)
           A == {k \in DOMAIN file : file[k] = "address"}
<1>1. /\ n \in Nat /\ DOMAIN SourceIpList = 1..n /\ SourceIpList \in [1..n -> Nat]
      /\ lineno = Len(file) + 1 /\ Len(file) \in Nat /\ DOMAIN file = 1..Len(file)
  BY FileType DEF SetupInv, SetupType, Listed
<1>2. lineno - 1 = Len(file)
  BY <1>1
<1>3. \A a \in 1..n : SourceIpList[a] \in A
  BY <1>1, <1>2 DEF SetupInv, Listed
<1>4. \A k \in A : \E a \in 1..n : SourceIpList[a] = k
  BY <1>1, <1>2 DEF SetupInv, Listed
<1>5. \A a, b \in 1..n : SourceIpList[a] = SourceIpList[b] => a = b
  BY <1>1 DEF SetupInv, Listed
<1>6. SourceIpList = <<>> <=> n = 0
  BY DEF SetupInv, SetupType
<1> HIDE DEF n, A
<1>7. SourceIpList \in Bijection(1..n, A)
  BY <1>1, <1>3, <1>4, <1>5 DEF Bijection, Injection, Surjection, IsInjective
<1>8. IsFiniteSet(1..n) /\ Cardinality(1..n) = n
  <2>1. IsFiniteSet(1..n) /\ Cardinality(1..n) = IF 1 > n THEN 0 ELSE n - 1 + 1
    BY <1>1, FS_Interval
  <2> QED BY <1>1, <2>1
<1>9. ExistsBijection(1..n, A)
  BY <1>7 DEF ExistsBijection
<1>10. Cardinality(A) = n
  BY <1>8, <1>9, FS_Bijection
<1>11. n = 0 <=> A = {}
  <2>1. n = 0 => 1..n = {}
    OBVIOUS
  <2>2. n # 0 => 1 \in 1..n
    BY <1>1
  <2> QED BY <1>3, <1>4, <2>1, <2>2
<1> QED BY <1>4, <1>6, <1>10, <1>11 DEF n, A

\* The threads share the source addresses evenly, for every file and every
\* number of threads.
THEOREM SourcesSharedEvenly == SetupSpec => []SourcesEven
<1>1. SetupInv => SourcesEven
  <2> SUFFICES ASSUME SetupInv, phase = "prepared" PROVE SourcesEven
    BY DEF SourcesEven
  <2> DEFINE A == {k \in DOMAIN file : file[k] = "address"}
             n == Len(SourceIpList)
             users(k) == Cardinality({t \in DOMAIN source : source[t] = k})
  <2>1. /\ Cardinality(A) = n /\ (SourceIpList = <<>> <=> A = {})
        /\ \A k \in A : \E a \in 1..n : SourceIpList[a] = k
    BY ListIsComplete
  <2>2. ASSUME A # {}, NEW k \in A
        PROVE  users(k) - (ThreadCount \div Cardinality(A)) \in {0, 1}
    <3>1. PICK q \in Nat : Turn(q)
      BY <2>1, <2>2 DEF SetupInv, Shares
    <3>2. PICK a \in 1..n : SourceIpList[a] = k
      BY <2>1, <2>2
    <3>3. /\ n \in Nat \ {0} /\ si \in 1..n /\ ThreadCount = q * n + (si - 1)
          /\ users(k) = q + (IF a < si THEN 1 ELSE 0)
      <4>1. n \in Nat \ {0} /\ ThreadCount = Len(source)
        BY <2>1, <2>2 DEF SetupInv, SetupType, Shares
      <4>2. si \in 1..n /\ Len(source) = q * n + (si - 1)
        BY <3>1 DEF Turn
      <4>3. Cardinality(Users(source, SourceIpList[a])) = q + (IF a < si THEN 1 ELSE 0)
        BY <3>1, <3>2 DEF Turn
      <4>4. users(k) = Cardinality(Users(source, SourceIpList[a]))
        BY <3>2 DEF Users
      <4> QED BY <4>1, <4>2, <4>3, <4>4
    <3>4. ThreadCount \div n = q
      <4>1. ASSUME NEW c \in Nat, c < n PROVE (q * n + c) \div n = q
        BY <3>3, <4>1
      <4>2. si - 1 \in Nat /\ si - 1 < n
        BY <3>3
      <4> QED BY <3>3, <4>1, <4>2
    <3> HIDE DEF users, n
    <3> QED BY <2>1, <3>3, <3>4
  <2>3. ASSUME A = {} PROVE Range(source) \subseteq {0}
    BY <2>1, <2>3 DEF SetupInv, Shares, Range
  <2> QED BY <2>2, <2>3 DEF SourcesEven
<1> QED BY <1>1, SetupInvariant, PTL

\* The list of query rates is the range that was asked for, for every range
\* whose end the counter passes before it wraps around.
THEOREM WholeRangeListed == SetupSpec => []RangeListed
<1>1. SetupInv => RangeListed
  <2> SUFFICES ASSUME SetupInv PROVE RangeListed
    OBVIOUS
  <2> DEFINE L == Len(rates)
             step == range[3]
             lo == range[1]
             hi == range[2]
  <2>1. /\ lo \in Nat /\ hi \in Nat /\ step \in Nat /\ MaxUInt64 \in Nat /\ L \in Nat
        /\ DOMAIN rates = 1..L
    BY RangeType DEF SetupInv, SetupType
  <2>2. \A x, y \in Nat : x * y \in Nat /\ (y > 0 => x <= x * y)
    OBVIOUS
  <2>3. ASSUME RangeEnds
        PROVE  /\ \A k \in DOMAIN rates : rates[k] = lo + (k - 1) * step
               /\ Range(rates) \subseteq lo..hi /\ L <= MaxUInt64
               /\ phase \in {"threads", "prepared"} =>
                     \A r \in lo..hi : (r - lo) % step = 0 => r \in Range(rates)
    <3>1. /\ i = lo + L * step /\ step > 0 /\ hi + step <= MaxUInt64
          /\ \A k \in 1..L : rates[k] = lo + (k - 1) * step /\ rates[k] <= hi
      BY <2>1, <2>3 DEF SetupInv, RatesListed, RangeEnds
    <3>2. \A k \in 1..L : k - 1 \in Nat /\ (k - 1) * step \in Nat /\ k - 1 <= (k - 1) * step
      <4>1. \A k \in 1..L : k - 1 \in Nat
        BY <2>1
      <4> QED BY <2>1, <2>2, <3>1, <4>1
    <3> HIDE DEF L, step, lo, hi
    <3>3. \A k \in 1..L : rates[k] \in lo..hi
      BY <2>1, <3>1, <3>2
    <3>4. L <= MaxUInt64
      <4>1. CASE L = 0
        BY <2>1, <4>1
      <4>2. CASE L # 0
        <5>1. L \in 1..L
          BY <2>1, <4>2
        <5>2. lo + (L - 1) * step <= hi /\ L - 1 <= (L - 1) * step /\ (L - 1) * step \in Nat
          BY <3>1, <3>2, <5>1
        <5> QED BY <2>1, <3>1, <5>2
      <4> QED BY <4>1, <4>2
    <3>5. ASSUME phase \in {"threads", "prepared"}, NEW r \in lo..hi, (r - lo) % step = 0
          PROVE  r \in Range(rates)
      <4> DEFINE k == (r - lo) \div step
      <4>1. k \in Nat /\ r = lo + k * step
        <5>1. r - lo \in Nat /\ step \in Nat \ {0}
          BY <2>1, <3>1
        <5>2. \A m \in Nat, w \in Nat \ {0} : m \div w \in Nat /\ (m % w = 0 => m = (m \div w) * w)
          OBVIOUS
        <5> QED BY <2>1, <3>5, <5>1, <5>2
      <4>2. hi < lo + L * step
        BY <3>1, <3>5 DEF SetupInv, RatesListed, hi
      <4> HIDE DEF k
      <4>3. k < L
        <5>1. \A x, y \in Nat : x <= y => x * step <= y * step
          BY <2>1
        <5>2. k * step \in Nat /\ L * step \in Nat
          BY <2>1, <2>2, <4>1
        <5> QED BY <2>1, <4>1, <4>2, <5>1, <5>2
      <4>4. k + 1 \in 1..L /\ (k + 1) - 1 = k
        BY <2>1, <4>1, <4>3
      <4>5. rates[k + 1] = r
        BY <3>1, <4>1, <4>4
      <4> QED BY <2>1, <4>4, <4>5 DEF Range
    <3>6. Range(rates) \subseteq lo..hi
      BY <2>1, <3>3 DEF Range
    <3> QED BY <2>1, <3>1, <3>4, <3>5, <3>6
  <2>4. step = 0 /\ lo <= hi => phase \in {"sources", "rates"}
    BY <2>1 DEF SetupInv, SetupType, RatesListed
  <2> QED BY <2>3, <2>4 DEF RangeListed
<1> QED BY <1>1, SetupInvariant, PTL

-----------------------------------------------------------------------------
(* The status lines: counters modulo their width                           *)

Count == 0..(Width - 1)

\* A counter has gone from b to a while `by' were counted, and may have wrapped.
Moved(a, b, by) == \E k \in Int : a = b + by + k * Width

LEMMA WidthType ==
    /\ Width \in Nat \ {0} /\ MaxTraffic \in Nat /\ MaxTraffic < Width
    /\ Width = 2 * (Width \div 2) /\ Width \div 2 \in Nat /\ MaxTraffic < Width \div 2
<1>1. Width \in Nat /\ MaxTraffic \in Nat /\ 2 * MaxTraffic < Width /\ Width % 2 = 0
  BY SensorAssumption
<1>2. Width = 2 * (Width \div 2) /\ Width \div 2 \in Nat
  BY <1>1
<1> QED BY <1>1, <1>2

LEMMA ModOf ==
    ASSUME NEW r \in Count, NEW k \in Int
    PROVE  (r + k * Width) % Width = r
<1> DEFINE x == r + k * Width
           q == x \div Width
           m == x % Width
<1>1. Width \in Nat \ {0} /\ r \in 0..(Width - 1)
  BY WidthType DEF Count
<1>2. k * Width \in Int
  BY <1>1
<1>3. x \in Int
  BY <1>1, <1>2
<1>4. q \in Int /\ m \in 0..(Width - 1) /\ x = q * Width + m
  <2>1. \A y \in Int, w \in Nat \ {0} : y \div w \in Int /\ y % w \in 0..(w - 1) /\ y = (y \div w) * w + (y % w)
    OBVIOUS
  <2> HIDE DEF x
  <2> QED BY <1>1, <1>3, <2>1
<1>5. x = r + k * Width
  OBVIOUS
<1> HIDE DEF x, q, m
<1>6. q * Width \in Int /\ q * Width - k * Width = r - m
  BY <1>1, <1>2, <1>4, <1>5
<1>7. (q - k) * Width = q * Width - k * Width
  <2>1. \A y, z, w \in Int : (y - z) * w = y * w - z * w
    OBVIOUS
  <2> QED BY <1>1, <1>4, <2>1
<1>8. q = k
  <2>1. \A d \in Int, w \in Nat : (d >= 1 => d * w >= w) /\ (d <= -1 => d * w <= -w)
    OBVIOUS
  <2>2. q - k \in Int /\ (q - k) * Width < Width /\ (q - k) * Width > -Width
    BY <1>1, <1>4, <1>6, <1>7
  <2>3. ~(q - k >= 1) /\ ~(q - k <= -1)
    BY <1>1, <2>1, <2>2
  <2> QED BY <1>4, <2>2, <2>3
<1>9. m = r
  BY <1>1, <1>4, <1>5, <1>8, <1>2
<1> QED BY <1>9 DEF m, x

\* A difference modulo the width is what was counted, in either direction.
LEMMA Differences ==
    ASSUME NEW a \in Int, NEW b \in Int, NEW by \in Count, Moved(a, b, by)
    PROVE  /\ (a - b) % Width = by
           /\ (b - a) % Width = IF by = 0 THEN 0 ELSE Width - by
<1>1. PICK k \in Int : a = b + by + k * Width
  BY DEF Moved
<1>2. Width \in Nat \ {0} /\ by \in 0..(Width - 1) /\ k * Width \in Int
  BY WidthType DEF Count
<1>3. a - b = by + k * Width
  BY <1>1, <1>2
<1>4. (-k) * Width = -(k * Width) /\ (-k - 1) * Width = -(k * Width) - Width
  <2>1. \A y, w \in Int : (-y) * w = -(y * w) /\ (-y - 1) * w = -(y * w) - w
    OBVIOUS
  <2> QED BY <1>2, <2>1
<1>5. CASE by = 0
  <2>1. b - a = 0 + (-k) * Width /\ 0 \in Count /\ -k \in Int
    BY <1>1, <1>2, <1>4, <1>5 DEF Count
  <2>2. (0 + (-k) * Width) % Width = 0
    BY <2>1, ModOf
  <2> QED BY <1>3, <1>5, <2>1, <2>2, ModOf
<1>6. CASE by # 0
  <2>1. b - a = (Width - by) + (-k - 1) * Width /\ Width - by \in Count /\ -k - 1 \in Int
    BY <1>1, <1>2, <1>4, <1>6 DEF Count
  <2>2. ((Width - by) + (-k - 1) * Width) % Width = Width - by
    BY <2>1, ModOf
  <2> QED BY <1>3, <1>6, <2>1, <2>2, ModOf
<1> QED BY <1>5, <1>6

\* A counter counts one more.
LEMMA Counting ==
    ASSUME NEW c \in Count
    PROVE  /\ (c + 1) % Width \in Count
           /\ \E k \in Int : (c + 1) % Width = c + 1 + k * Width
<1>1. Width \in Nat \ {0} /\ c \in 0..(Width - 1)
  BY WidthType DEF Count
<1>2. CASE c + 1 < Width
  <2>1. c + 1 \in Count /\ 0 * Width = 0 /\ c + 1 + 0 * Width = c + 1
    BY <1>1, <1>2 DEF Count
  <2>2. (c + 1 + 0 * Width) % Width = c + 1
    BY <2>1, ModOf
  <2> QED BY <2>1, <2>2
<1>3. CASE ~(c + 1 < Width)
  <2>1. 0 \in Count /\ c + 1 = 0 + 1 * Width /\ 0 = c + 1 + (-1) * Width
    BY <1>1, <1>3 DEF Count
  <2>2. (0 + 1 * Width) % Width = 0
    BY <2>1, ModOf
  <2> QED BY <2>1, <2>2
<1> QED BY <1>2, <1>3

LEMMA MovedOn ==
    ASSUME NEW a \in Int, NEW b \in Int, NEW by \in Int, Moved(a, b, by),
           NEW a1 \in Int, NEW k1 \in Int, a1 = a + 1 + k1 * Width
    PROVE  Moved(a1, b, by + 1)
<1>1. PICK k \in Int : a = b + by + k * Width
  BY DEF Moved
<1>2. Width \in Int
  BY WidthType
<1>3. (k + k1) * Width = k * Width + k1 * Width /\ k * Width \in Int /\ k1 * Width \in Int
  <2>1. \A y, z, w \in Int : (y + z) * w = y * w + z * w /\ y * w \in Int
    OBVIOUS
  <2> QED BY <1>2, <2>1
<1>4. a1 = b + (by + 1) + (k + k1) * Width /\ k + k1 \in Int
  BY <1>1, <1>3
<1> QED BY <1>4 DEF Moved

Total(d) == SumFunctionOnSet(d, DOMAIN d)

DeviceType == DOMAIN device \subseteq Nics /\ device \in [DOMAIN device -> Count]

SensorType ==
    /\ DeviceType /\ cpu \in [busy : Count, idle : Count]
    /\ stat_start.cpu \in [busy : Count, idle : Count] /\ stat_start.net_total \in Count
    /\ now_seen \in [packets : Nat, busy : Nat, idle : Nat] /\ Seen <= MaxTraffic
    /\ replugged \in BOOLEAN

\* What has been counted since the last sample is what the counters moved by.
SinceSample ==
    /\ Moved(cpu.busy, stat_start.cpu.busy, now_seen.busy)
    /\ Moved(cpu.idle, stat_start.cpu.idle, now_seen.idle)
    /\ ~replugged => Moved(Total(device), stat_start.net_total, now_seen.packets)

SensorInv == SensorType /\ SinceSample /\ LineShowsTraffic

LEMMA DeviceTotal ==
    ASSUME DeviceType
    PROVE  IsFiniteSet(DOMAIN device) /\ Total(device) \in Int /\ \A c \in DOMAIN device : device[c] \in Int
<1>1. IsFiniteSet(DOMAIN device)
  BY FS_Subset, SensorAssumption DEF DeviceType
<1>2. \A c \in DOMAIN device : device[c] \in Int
  BY WidthType DEF Count, DeviceType
<1> QED BY <1>1, <1>2, SumInt DEF Total

\* The total of a sample is the sum of the counters, modulo the width.
LEMMA SampleTotal ==
    ASSUME NEW stat, DeviceType
    PROVE  /\ sampleSensorData(stat).cpu = cpu
           /\ sampleSensorData(stat).net_total \in Count
           /\ \E k \in Int : sampleSensorData(stat).net_total = Total(device) + k * Width
<1>1. sampleSensorData(stat).net_total = Total(device) % Width /\ sampleSensorData(stat).cpu = cpu
  BY DEF sampleSensorData, net_total, SumFunction, Total
<1>2. Total(device) \in Int /\ Width \in Nat \ {0}
  BY DeviceTotal, WidthType
<1> DEFINE q == Total(device) \div Width
<1>3. /\ Total(device) % Width \in 0..(Width - 1) /\ q \in Int
      /\ Total(device) = q * Width + (Total(device) % Width)
  <2>1. \A y \in Int, w \in Nat \ {0} : y \div w \in Int /\ y % w \in 0..(w - 1) /\ y = (y \div w) * w + (y % w)
    OBVIOUS
  <2> QED BY <1>2, <2>1
<1> HIDE DEF q
<1>4. (-q) * Width = -(q * Width) /\ q * Width \in Int /\ -q \in Int
  <2>1. \A y, w \in Int : (-y) * w = -(y * w) /\ y * w \in Int
    OBVIOUS
  <2> QED BY <1>2, <1>3, <2>1
<1>5. Total(device) % Width = Total(device) + (-q) * Width
  BY <1>2, <1>3, <1>4
<1> QED BY <1>1, <1>3, <1>4, <1>5 DEF Count

LEMMA MovedMod ==
    ASSUME NEW a \in Int, NEW b \in Int, NEW by \in Int, NEW c \in Int,
           Moved(a, b, by), \E k \in Int : c = a + k * Width
    PROVE  Moved(c, b, by)
<1>1. PICK k \in Int : a = b + by + k * Width
  BY DEF Moved
<1>2. PICK m \in Int : c = a + m * Width
  OBVIOUS
<1>3. (k + m) * Width = k * Width + m * Width /\ k * Width \in Int /\ m * Width \in Int
  <2>1. \A y, z, w \in Int : (y + z) * w = y * w + z * w /\ y * w \in Int
    OBVIOUS
  <2> QED BY <2>1, WidthType
<1>4. c = b + by + (k + m) * Width /\ k + m \in Int
  BY <1>1, <1>2, <1>3
<1> QED BY <1>4 DEF Moved

\* Two counters together move by what both have counted.
LEMMA MovedSum ==
    ASSUME NEW a \in Int, NEW b \in Int, NEW by \in Int, Moved(a, b, by),
           NEW c \in Int, NEW d \in Int, NEW dy \in Int, Moved(c, d, dy)
    PROVE  Moved(a + c, b + d, by + dy)
<1>1. PICK k \in Int : a = b + by + k * Width
  BY DEF Moved
<1>2. PICK m \in Int : c = d + dy + m * Width
  BY DEF Moved
<1>3. (k + m) * Width = k * Width + m * Width /\ k * Width \in Int /\ m * Width \in Int
  <2>1. \A y, z, w \in Int : (y + z) * w = y * w + z * w /\ y * w \in Int
    OBVIOUS
  <2> QED BY <2>1, WidthType
<1>4. a + c = (b + d) + (by + dy) + (k + m) * Width /\ k + m \in Int
  BY <1>1, <1>2, <1>3
<1> QED BY <1>4 DEF Moved

\* A sample that is just taken.
LEMMA NothingMoved ==
    ASSUME NEW a \in Int, NEW b \in Int, \E k \in Int : b = a + k * Width
    PROVE  Moved(a, b, 0)
<1>1. PICK k \in Int : b = a + k * Width
  OBVIOUS
<1>2. (-k) * Width = -(k * Width) /\ k * Width \in Int
  <2>1. \A y, w \in Int : (-y) * w = -(y * w) /\ y * w \in Int
    OBVIOUS
  <2> QED BY <2>1, WidthType
<1>3. a = b + 0 + (-k) * Width /\ -k \in Int
  BY <1>1, <1>2
<1> QED BY <1>3 DEF Moved

LEMMA CountInt == Count \subseteq Int /\ \A c \in Count : Moved(c, c, 0)
<1>1. Count \subseteq Int
  BY WidthType DEF Count
<1>2. 0 \in Int /\ 0 * Width = 0
  BY WidthType
<1> QED BY <1>1, <1>2 DEF Moved

LEMMA SensorInitInv == SensorInit => SensorInv
<1> SUFFICES ASSUME SensorInit PROVE SensorInv
  OBVIOUS
<1>1. /\ device \in [Nics -> {0, Width - 1}] /\ cpu = [busy |-> Width - 2, idle |-> 0]
      /\ stat_start = sampleSensorData(NoSample)
      /\ line = [shown |-> Nothing, exact |-> Nothing, delta |-> 0]
      /\ now_seen = Nothing /\ replugged = FALSE
  BY DEF SensorInit
<1>2. 0 \in Count /\ Width - 1 \in Count /\ Width - 2 \in Count
  BY WidthType DEF Count
<1>3. DeviceType /\ cpu \in [busy : Count, idle : Count]
  BY <1>1, <1>2 DEF DeviceType
<1>4. /\ stat_start.cpu = cpu /\ stat_start.net_total \in Count
      /\ \E k \in Int : stat_start.net_total = Total(device) + k * Width
  BY <1>1, <1>3, SampleTotal
<1>5. SensorType
  <2>1. now_seen \in [packets : Nat, busy : Nat, idle : Nat] /\ Seen = 0
    BY <1>1 DEF Nothing, Seen
  <2>2. Seen <= MaxTraffic
    BY <2>1, WidthType
  <2>3. stat_start.cpu \in [busy : Count, idle : Count] /\ replugged \in BOOLEAN
    BY <1>1, <1>3, <1>4
  <2> QED BY <1>3, <1>4, <2>1, <2>2, <2>3 DEF SensorType
<1>6. SinceSample
  <2>1. Moved(Total(device), stat_start.net_total, 0)
    BY <1>3, <1>4, DeviceTotal, CountInt, NothingMoved
  <2>2. now_seen.packets = 0 /\ now_seen.busy = 0 /\ now_seen.idle = 0
    BY <1>1 DEF Nothing
  <2>3. cpu.busy \in Count /\ cpu.idle \in Count
    BY <1>3
  <2> QED BY <1>4, <2>1, <2>2, <2>3, CountInt DEF SinceSample
<1>7. LineShowsTraffic
  BY <1>1 DEF LineShowsTraffic, Nothing
<1> QED BY <1>5, <1>6, <1>7 DEF SensorInv

LEMMA PacketKeeps == SensorInv /\ Packet => SensorInv'
<1> SUFFICES ASSUME SensorInv, Packet PROVE SensorInv'
  OBVIOUS
<1>1. PICK c \in DOMAIN device : device' = [device EXCEPT ![c] = (@ + 1) % Width]
  BY DEF Packet
<1>2. /\ Seen < MaxTraffic /\ now_seen' = [now_seen EXCEPT !.packets = @ + 1]
      /\ UNCHANGED <<cpu, stat_start, line, replugged>>
  BY DEF Packet
<1>3. /\ now_seen \in [packets : Nat, busy : Nat, idle : Nat]
      /\ DeviceType /\ device[c] \in Count /\ stat_start.net_total \in Int
  BY CountInt DEF SensorInv, SensorType, DeviceType
<1>4. /\ now_seen' \in [packets : Nat, busy : Nat, idle : Nat]
      /\ now_seen'.packets = now_seen.packets + 1
      /\ now_seen'.busy = now_seen.busy /\ now_seen'.idle = now_seen.idle
  BY <1>2, <1>3
<1>5. Seen' <= MaxTraffic
  BY <1>2, <1>3, <1>4, WidthType DEF Seen
<1>6. PICK k \in Int : device'[c] = device[c] + 1 + k * Width
  BY <1>1, <1>3, Counting
<1>7. DeviceType' /\ DOMAIN device' = DOMAIN device
      /\ \A d \in DOMAIN device : d # c => device'[d] = device[d]
  BY <1>1, <1>3, Counting DEF DeviceType
<1>8. SensorType'
  BY <1>2, <1>4, <1>5, <1>7 DEF SensorInv, SensorType
<1>9. Total(device') = Total(device) + 1 + k * Width
  <2>1. Total(device') = Total(device) + device'[c] - device[c]
    BY <1>3, <1>7, DeviceTotal, SumChange, \A d \in DOMAIN device : device'[d] \in Count, CountInt
    DEF Total, DeviceType
  <2>2. Total(device) \in Int /\ device[c] \in Int /\ k * Width \in Int
    BY <1>3, DeviceTotal, WidthType
  <2> QED BY <1>6, <2>1, <2>2
<1>10. ASSUME ~replugged
       PROVE  Moved(Total(device'), stat_start.net_total, now_seen.packets + 1)
  <2>1. Moved(Total(device), stat_start.net_total, now_seen.packets)
    BY <1>10 DEF SensorInv, SinceSample
  <2>2. Total(device) \in Int /\ Total(device') \in Int
    <3>1. Total(device) \in Int /\ k * Width \in Int
      BY <1>3, DeviceTotal, WidthType
    <3> QED BY <1>9, <3>1
  <2> QED BY <1>3, <1>9, <2>1, <2>2, MovedOn
<1>11. SinceSample'
  BY <1>2, <1>4, <1>10 DEF SensorInv, SinceSample
<1>12. LineShowsTraffic'
  BY <1>2 DEF SensorInv, LineShowsTraffic
<1> QED BY <1>8, <1>11, <1>12 DEF SensorInv

LEMMA TickKeeps == SensorInv /\ Tick => SensorInv'
<1> SUFFICES ASSUME SensorInv, Tick PROVE SensorInv'
  OBVIOUS
<1>1. PICK kind \in {"busy", "idle"} :
          /\ cpu' = [cpu EXCEPT ![kind] = (@ + 1) % Width]
          /\ now_seen' = [now_seen EXCEPT ![kind] = @ + 1]
  BY DEF Tick
<1>2. Seen < MaxTraffic /\ UNCHANGED <<device, stat_start, line, replugged>>
  BY DEF Tick
<1>3. /\ now_seen \in [packets : Nat, busy : Nat, idle : Nat] /\ cpu \in [busy : Count, idle : Count]
      /\ stat_start.cpu \in [busy : Count, idle : Count]
      /\ Moved(cpu.busy, stat_start.cpu.busy, now_seen.busy)
      /\ Moved(cpu.idle, stat_start.cpu.idle, now_seen.idle)
  BY DEF SensorInv, SensorType, SinceSample
<1>4. /\ cpu.busy \in Count /\ cpu.idle \in Count
      /\ stat_start.cpu.busy \in Int /\ stat_start.cpu.idle \in Int
      /\ now_seen.busy \in Int /\ now_seen.idle \in Int
  <2>1. /\ cpu.busy \in Count /\ cpu.idle \in Count
        /\ stat_start.cpu.busy \in Count /\ stat_start.cpu.idle \in Count
        /\ now_seen.busy \in Nat /\ now_seen.idle \in Nat
    BY <1>3
  <2>2. \A c \in Count : c \in Int
    BY CountInt
  <2> QED BY <2>1, <2>2
<1>5. ASSUME NEW a \in Count, NEW b \in Int, NEW by \in Int, Moved(a, b, by)
      PROVE  (a + 1) % Width \in Count /\ Moved((a + 1) % Width, b, by + 1)
  BY <1>5, Counting, MovedOn, CountInt
<1>6. /\ cpu' \in [busy : Count, idle : Count] /\ now_seen' \in [packets : Nat, busy : Nat, idle : Nat]
      /\ Seen' = Seen + 1 /\ now_seen'.packets = now_seen.packets
      /\ Moved(cpu'.busy, stat_start.cpu.busy, now_seen'.busy)
      /\ Moved(cpu'.idle, stat_start.cpu.idle, now_seen'.idle)
  <2>1. CASE kind = "busy"
    <3>1. /\ cpu'.busy = (cpu.busy + 1) % Width /\ cpu'.idle = cpu.idle
          /\ now_seen'.busy = now_seen.busy + 1 /\ now_seen'.idle = now_seen.idle
          /\ now_seen'.packets = now_seen.packets
          /\ now_seen' \in [packets : Nat, busy : Nat, idle : Nat]
      BY <1>1, <1>3, <2>1
    <3>2. (cpu.busy + 1) % Width \in Count
          /\ Moved((cpu.busy + 1) % Width, stat_start.cpu.busy, now_seen.busy + 1)
      BY <1>3, <1>4, <1>5
    <3>3. cpu' \in [busy : Count, idle : Count]
      BY <1>1, <1>3, <2>1, <3>2
    <3>4. Seen' = Seen + 1
      BY <1>3, <3>1 DEF Seen
    <3> QED BY <1>3, <3>1, <3>2, <3>3, <3>4
  <2>2. CASE kind = "idle"
    <3>1. /\ cpu'.idle = (cpu.idle + 1) % Width /\ cpu'.busy = cpu.busy
          /\ now_seen'.idle = now_seen.idle + 1 /\ now_seen'.busy = now_seen.busy
          /\ now_seen'.packets = now_seen.packets
          /\ now_seen' \in [packets : Nat, busy : Nat, idle : Nat]
      BY <1>1, <1>3, <2>2
    <3>2. (cpu.idle + 1) % Width \in Count
          /\ Moved((cpu.idle + 1) % Width, stat_start.cpu.idle, now_seen.idle + 1)
      BY <1>3, <1>4, <1>5
    <3>3. cpu' \in [busy : Count, idle : Count]
      BY <1>1, <1>3, <2>2, <3>2
    <3>4. Seen' = Seen + 1
      BY <1>3, <3>1 DEF Seen
    <3> QED BY <1>3, <3>1, <3>2, <3>3, <3>4
  <2> QED BY <1>1, <2>1, <2>2
<1>7. Seen' <= MaxTraffic
  BY <1>2, <1>3, <1>6, WidthType DEF Seen
<1>8. SensorType'
  BY <1>2, <1>6, <1>7 DEF SensorInv, SensorType, DeviceType
<1>9. SinceSample'
  BY <1>2, <1>6 DEF SensorInv, SinceSample
<1>10. LineShowsTraffic'
  BY <1>2 DEF SensorInv, LineShowsTraffic
<1> QED BY <1>8, <1>9, <1>10 DEF SensorInv

\* After an interface has come or gone nothing is claimed of the packets until
\* the next sample.
LEMMA ReplugKeeps == SensorInv /\ Replug => SensorInv'
<1> SUFFICES ASSUME SensorInv, Replug PROVE SensorInv'
  OBVIOUS
<1>1. PICK c \in Nics :
          device' = [d \in (DOMAIN device \ {c}) \cup ({c} \ DOMAIN device) |->
                        IF d = c THEN 0 ELSE device[d]]
  BY DEF Replug
<1>2. replugged' = TRUE /\ UNCHANGED <<cpu, stat_start, line, now_seen>>
  BY DEF Replug
<1>3. 0 \in Count
  BY WidthType DEF Count
<1>4. DeviceType'
  <2>1. DOMAIN device \subseteq Nics /\ \A d \in DOMAIN device : device[d] \in Count
    BY DEF SensorInv, SensorType, DeviceType
  <2> QED BY <1>1, <1>3, <2>1 DEF DeviceType
<1>5. SensorType'
  BY <1>2, <1>4 DEF SensorInv, SensorType, Seen
<1>6. SinceSample' /\ LineShowsTraffic'
  BY <1>2 DEF SensorInv, SinceSample, LineShowsTraffic
<1> QED BY <1>5, <1>6 DEF SensorInv

\* getUsage() shows what the processors did, in spite of the order in which it
\* gets the samples.
LEMMA UsageOf ==
    ASSUME NEW a \in Int, NEW b \in Int, NEW by \in 0..MaxTraffic, Moved(a, b, by)
    PROVE  (IF Signed(b, a) < 0 THEN -Signed(b, a) ELSE Signed(b, a)) = by
<1> DEFINE d == (b - a) % Width
           half == Width \div 2
<1>1. /\ Width \in Nat \ {0} /\ MaxTraffic \in Nat /\ Width = 2 * half /\ half \in Nat
      /\ MaxTraffic < half /\ MaxTraffic < Width
  BY WidthType
<1>2. by \in Count
  BY <1>1 DEF Count
<1>3. d = IF by = 0 THEN 0 ELSE Width - by
  BY <1>2, Differences
<1>4. Signed(b, a) = IF d >= half THEN d - Width ELSE d
  BY DEF Signed
<1> HIDE DEF d, half
<1> QED BY <1>1, <1>3, <1>4

\* getDelta() shows one packet too few when the total has wrapped.
LEMMA DeltaOf ==
    ASSUME NEW a \in Count, NEW b \in Count, NEW by \in Count, Moved(a, b, by)
    PROVE  delta_with_overflow(b, a) \in {by, by - 1}
<1>1. Width \in Nat \ {0} /\ a \in 0..(Width - 1) /\ b \in 0..(Width - 1) /\ by \in 0..(Width - 1)
  BY WidthType DEF Count
<1>2. (a - b) % Width = by
  BY <1>1, Differences
<1>3. CASE a >= b
  <2>1. a - b \in Count /\ a - b + 0 * Width = a - b
    BY <1>1, <1>3 DEF Count
  <2>2. (a - b + 0 * Width) % Width = a - b
    BY <2>1, ModOf
  <2>3. a - b = by
    BY <1>2, <2>1, <2>2
  <2> QED BY <1>3, <2>3 DEF delta_with_overflow
<1>4. CASE ~(a >= b)
  <2>1. a - b + Width \in Count /\ (a - b + Width) + (-1) * Width = a - b
    BY <1>1, <1>4 DEF Count
  <2>2. ((a - b + Width) + (-1) * Width) % Width = a - b + Width
    BY <2>1, ModOf
  <2>3. a - b + Width = by
    BY <1>2, <2>1, <2>2
  <2>4. Width - 1 - b + a = by - 1
    BY <1>1, <2>3
  <2> QED BY <1>4, <2>4 DEF delta_with_overflow
<1> QED BY <1>3, <1>4

\* A status line: each of its differences is what has been counted, and the
\* next sample starts from the counters as they are.
LEMMA StatusLineKeeps == SensorInv /\ StatusLine => SensorInv'
<1> SUFFICES ASSUME SensorInv, StatusLine PROVE SensorInv'
  OBVIOUS
<1> DEFINE end == sampleSensorData(stat_end)
           usage == Usage(end.cpu, stat_start.cpu)
           busy == now_seen.busy
           idle == now_seen.idle
           packets == now_seen.packets
<1>1. /\ stat_start' = end /\ now_seen' = Nothing /\ replugged' = FALSE
      /\ device' = device /\ cpu' = cpu
      /\ line' = [shown |-> [packets |-> Unsigned(end.net_total, stat_start.net_total),
                             busy |-> usage.busy, idle |-> usage.all - usage.busy],
                  exact |-> IF replugged THEN [now_seen EXCEPT !.packets = -1] ELSE now_seen,
                  delta |-> delta_with_overflow(stat_start.net_total, end.net_total)]
  BY DEF StatusLine
<1>2. /\ DeviceType /\ cpu \in [busy : Count, idle : Count]
      /\ stat_start.cpu \in [busy : Count, idle : Count] /\ stat_start.net_total \in Count
      /\ now_seen \in [packets : Nat, busy : Nat, idle : Nat] /\ Seen <= MaxTraffic
  BY DEF SensorInv, SensorType
<1>3. /\ end.cpu = cpu /\ end.net_total \in Count
      /\ \E k \in Int : end.net_total = Total(device) + k * Width
  BY <1>2, SampleTotal
<1> HIDE DEF end, usage
<1>4. /\ busy \in 0..MaxTraffic /\ idle \in 0..MaxTraffic
      /\ busy + idle \in 0..MaxTraffic /\ packets \in 0..MaxTraffic
  BY <1>2, WidthType DEF Seen
<1>5. packets \in Count /\ Total(device) \in Int /\ packets \in Int
  BY <1>2, <1>4, DeviceTotal, WidthType DEF Count
<1>6. /\ cpu.busy \in Int /\ cpu.idle \in Int /\ stat_start.cpu.busy \in Int
      /\ stat_start.cpu.idle \in Int /\ stat_start.net_total \in Int /\ end.net_total \in Int
  <2>1. /\ cpu.busy \in Count /\ cpu.idle \in Count
        /\ stat_start.cpu.busy \in Count /\ stat_start.cpu.idle \in Count
    BY <1>2
  <2>2. \A c \in Count : c \in Int
    BY CountInt
  <2> QED BY <1>2, <1>3, <2>1, <2>2
<1>7. /\ Moved(cpu.busy, stat_start.cpu.busy, busy)
      /\ Moved(cpu.idle, stat_start.cpu.idle, idle)
      /\ ~replugged => Moved(Total(device), stat_start.net_total, packets)
  BY DEF SensorInv, SinceSample
<1>8. usage.busy = busy /\ usage.all = busy + idle
  <2>1. Moved(cpu.busy + cpu.idle, stat_start.cpu.busy + stat_start.cpu.idle, busy + idle)
    <3>1. busy \in Int /\ idle \in Int
      BY <1>4, WidthType
    <3> QED BY <1>6, <1>7, <3>1, MovedSum
  <2>2. /\ cpu.busy + cpu.idle \in Int
        /\ stat_start.cpu.busy + stat_start.cpu.idle \in Int
    BY <1>6
  <2>3. (IF Signed(stat_start.cpu.busy, cpu.busy) < 0
           THEN -Signed(stat_start.cpu.busy, cpu.busy)
           ELSE Signed(stat_start.cpu.busy, cpu.busy)) = busy
    BY <1>4, <1>6, <1>7, UsageOf
  <2> DEFINE before == stat_start.cpu.busy + stat_start.cpu.idle
             after == cpu.busy + cpu.idle
  <2>4. (IF Signed(before, after) < 0 THEN -Signed(before, after)
           ELSE Signed(before, after)) = busy + idle
    <3> HIDE DEF before, after, busy, idle
    <3> QED BY <1>4, <2>1, <2>2, UsageOf DEF before, after
  <2> QED BY <1>3, <2>3, <2>4 DEF usage, Usage
<1>9. ASSUME ~replugged
      PROVE  /\ Unsigned(end.net_total, stat_start.net_total) = packets
             /\ delta_with_overflow(stat_start.net_total, end.net_total) \in {packets, packets - 1}
  <2>1. Moved(end.net_total, stat_start.net_total, packets)
    BY <1>3, <1>5, <1>6, <1>7, <1>9, MovedMod
  <2>2. (end.net_total - stat_start.net_total) % Width = packets
    BY <1>5, <1>6, <2>1, Differences
  <2> QED BY <1>2, <1>3, <1>5, <2>1, <2>2, DeltaOf DEF Unsigned
<1>10. LineShowsTraffic'
  <2>1. /\ line'.shown.busy = usage.busy /\ line'.shown.idle = usage.all - usage.busy
        /\ line'.shown.packets = Unsigned(end.net_total, stat_start.net_total)
        /\ line'.delta = delta_with_overflow(stat_start.net_total, end.net_total)
    BY <1>1
  <2>2. /\ line'.exact.busy = busy /\ line'.exact.idle = idle
        /\ replugged => line'.exact.packets = -1
        /\ ~replugged => line'.exact.packets = packets
    BY <1>1, <1>2
  <2>3. usage.all - usage.busy = idle
    BY <1>4, <1>8
  <2> QED BY <1>8, <1>9, <2>1, <2>2, <2>3 DEF LineShowsTraffic
<1>11. now_seen'.packets = 0 /\ now_seen'.busy = 0 /\ now_seen'.idle = 0
  BY <1>1 DEF Nothing
<1>12. SensorType'
  <2>1. now_seen' \in [packets : Nat, busy : Nat, idle : Nat] /\ Seen' = 0
    BY <1>1 DEF Nothing, Seen
  <2>2. Seen' <= MaxTraffic
    BY <2>1, WidthType
  <2>3. /\ stat_start'.cpu \in [busy : Count, idle : Count] /\ stat_start'.net_total \in Count
        /\ cpu' \in [busy : Count, idle : Count]
    BY <1>1, <1>2, <1>3
  <2>4. DeviceType' /\ replugged' \in BOOLEAN
    BY <1>1, <1>2 DEF DeviceType
  <2> QED BY <2>1, <2>2, <2>3, <2>4 DEF SensorType
<1>13. SinceSample'
  <2>1. Moved(Total(device), end.net_total, 0)
    BY <1>3, <1>5, <1>6, NothingMoved
  <2>2. Moved(cpu.busy, cpu.busy, 0) /\ Moved(cpu.idle, cpu.idle, 0)
    BY <1>2, CountInt
  <2> QED BY <1>1, <1>3, <1>11, <2>1, <2>2 DEF SinceSample
<1> QED BY <1>10, <1>12, <1>13 DEF SensorInv

LEMMA SensorNextInv == SensorInv /\ [SensorNext]_sensorvars => SensorInv'
<1> SUFFICES ASSUME SensorInv, [SensorNext]_sensorvars PROVE SensorInv'
  OBVIOUS
<1>1. CASE UNCHANGED sensorvars
  <2>1. UNCHANGED <<device, cpu, stat_start, line, now_seen, replugged>>
    BY <1>1 DEF sensorvars
  <2> QED BY <2>1 DEF SensorInv, SensorType, DeviceType, Seen, SinceSample, LineShowsTraffic
<1> QED BY <1>1, PacketKeeps, TickKeeps, ReplugKeeps, StatusLineKeeps DEF SensorNext

\* However often the counters of the interfaces and of the processors wrap, each
\* status line shows what was counted since the line before, though the samples
\* are taken into a structure that still lists the interfaces of the first one.
THEOREM StatusLinesExact == SensorSpec => []LineShowsTraffic
<1>1. SensorInv => LineShowsTraffic
  BY DEF SensorInv
<1> QED BY <1>1, SensorInitInv, SensorNextInv, PTL DEF SensorSpec

-----------------------------------------------------------------------------
(* The pool: what its owner knows                                          *)

\* IsRunning and the current level.
Bodies ==
    /\ \A p \in Pthreads : Active(p) => p[2] = level
    /\ \A p \in Pthreads : at[p] \in {"run", "out"} => p[1] \in running

\* What the owner knows in each of its phases.
Phases ==
    /\ \A p \in Pthreads :
           at[p] = "born" => opc \in {"start", "settle", "failed", "terminated"}
    /\ opc = "start" => level # 0
    /\ opc \in {"start", "failed"} => poolMutex = TRUE
    /\ opc = "start" => \A p \in Pthreads : p[1] \in todo => ~Active(p)
    /\ opc \in {"wait", "poll"} => \A p \in Pthreads : p[1] \notin todo => ~Active(p)
    /\ NoneLeft

IInv == TypeOK /\ Bodies /\ Phases

\* A pthread is a pair of an object and a level.
LEMMA PthreadPairs ==
  /\ \A p \in Pthreads : p[1] \in Threads /\ p[2] \in 1..Levels /\ p = <<p[1], p[2]>>
  /\ \A t \in Threads, k \in 1..Levels : <<t, k>> \in Pthreads
BY DEF Pthreads

LEMMA InitIInv == Init => IInv
<1> SUFFICES ASSUME Init PROVE IInv
  OBVIOUS
<1> USE DEF Init
<1>1. TypeOK
  <2>1. at \in [Pthreads -> {"none", "born", "run", "out", "left", "ended"}]
    OBVIOUS
  <2>2. level \in 0..Levels /\ rounds \in Nat \ {0}
    BY PoolAssumption
  <2>3. poolMutex \in BOOLEAN /\ opc = "ready"
    OBVIOUS
  <2> QED BY <2>1, <2>2, <2>3 DEF TypeOK
<1>2. \A p \in Pthreads : at[p] = "none"
  OBVIOUS
<1>3. Bodies /\ Phases
  BY <1>2 DEF Bodies, Phases, NoneLeft, Active
<1> QED BY <1>1, <1>3 DEF IInv

\* A pthread moves on: only its own place changes.
LEMMA GoPlace ==
  ASSUME TypeOK, NEW p \in Pthreads, NEW s \in {"born", "run", "out", "left", "ended"}, Go(p, s)
  PROVE  /\ at' \in [Pthreads -> {"none", "born", "run", "out", "left", "ended"}]
         /\ at'[p] = s
         /\ \A q \in Pthreads : q # p => at'[q] = at[q]
BY DEF TypeOK, Go

LEMMA StartUpStep == ASSUME NEW p \in Pthreads, IInv, StartUp(p) PROVE IInv'
<1> USE DEF IInv, StartUp, owner
<1>1. /\ at' \in [Pthreads -> {"none", "born", "run", "out", "left", "ended"}]
      /\ at'[p] = "run"
      /\ \A q \in Pthreads : q # p => at'[q] = at[q]
  BY GoPlace
<1>2. TypeOK'
  BY <1>1, PthreadPairs DEF TypeOK
<1>3. Bodies'
  BY <1>1, PthreadPairs DEF Bodies, Active
<1>4. Phases'
  BY <1>1, PthreadPairs DEF Bodies, Phases, NoneLeft, Active
<1> QED BY <1>2, <1>3, <1>4

LEMMA ReturnStep == ASSUME NEW p \in Pthreads, IInv, Return(p) PROVE IInv'
<1> USE DEF IInv, Return, owner
<1>1. /\ at' \in [Pthreads -> {"none", "born", "run", "out", "left", "ended"}]
      /\ at'[p] = "out"
      /\ \A q \in Pthreads : q # p => at'[q] = at[q]
  BY GoPlace
<1>2. TypeOK'
  BY <1>1, PthreadPairs DEF TypeOK
<1>3. Bodies'
  BY <1>1, PthreadPairs DEF Bodies, Active
<1>4. Phases'
  BY <1>1, PthreadPairs DEF Bodies, Phases, NoneLeft, Active
<1> QED BY <1>2, <1>3, <1>4

LEMMA ExitStep == ASSUME NEW p \in Pthreads, IInv, Exit(p) PROVE IInv'
<1> USE DEF IInv, Exit, owner
<1>1. /\ at' \in [Pthreads -> {"none", "born", "run", "out", "left", "ended"}]
      /\ at'[p] = "left"
      /\ \A q \in Pthreads : q # p => at'[q] = at[q]
  BY GoPlace
<1>2. TypeOK'
  BY <1>1, PthreadPairs DEF TypeOK
<1>3. Bodies'
  BY <1>1, PthreadPairs DEF Bodies, Active
<1>4. Phases'
  BY <1>1, PthreadPairs DEF Bodies, Phases, NoneLeft, Active
<1> QED BY <1>2, <1>3, <1>4

LEMMA LeaveStep == ASSUME NEW p \in Pthreads, IInv, Leave(p) PROVE IInv'
<1> USE DEF IInv, Leave, owner
<1>1. /\ at' \in [Pthreads -> {"none", "born", "run", "out", "left", "ended"}]
      /\ at'[p] = "ended"
      /\ \A q \in Pthreads : q # p => at'[q] = at[q]
  BY GoPlace
<1>2. TypeOK'
  BY <1>1, PthreadPairs DEF TypeOK
<1>3. Bodies'
  BY <1>1, PthreadPairs DEF Bodies, Active
<1>4. Phases'
  BY <1>1, PthreadPairs DEF Bodies, Phases, NoneLeft, Active
<1> QED BY <1>2, <1>3, <1>4

LEMMA StartThreadsStep == ASSUME IInv, StartThreads PROVE IInv'
<1> USE DEF IInv, StartThreads, thread
<1>1. TypeOK'
  BY PoolAssumption DEF TypeOK
<1>2. Bodies'
  BY PoolAssumption DEF TypeOK, Bodies, Phases, NoneLeft, Active
<1>3. Phases'
  BY PoolAssumption, PthreadPairs DEF TypeOK, Bodies, Phases, NoneLeft, Active
<1> QED BY <1>1, <1>2, <1>3

LEMMA StartThreadStep == ASSUME NEW t \in Threads, IInv, StartThread(t) PROVE IInv'
<1> USE DEF IInv, StartThread, Visit
<1>1. level \in 1..Levels /\ <<t, level>> \in Pthreads
  BY PthreadPairs, PoolAssumption DEF TypeOK, Phases
<1>2. CASE t \in running
  <2>1. TypeOK' /\ Bodies'
    BY <1>2 DEF TypeOK, Bodies, Active
  <2>2. Phases'
    BY <1>2 DEF Phases, NoneLeft, Active
  <2> QED BY <2>1, <2>2
<1>3. CASE t \notin running
  <2>1. /\ at' \in [Pthreads -> {"none", "born", "run", "out", "left", "ended"}]
        /\ at'[<<t, level>>] = "born"
        /\ \A q \in Pthreads : q # <<t, level>> => at'[q] = at[q]
    BY <1>1, <1>3, GoPlace
  <2>2. TypeOK'
    BY <2>1 DEF TypeOK
  <2>3. Bodies'
    BY <2>1, PthreadPairs DEF Bodies, Active
  <2>4. Phases'
    BY <2>1, PthreadPairs DEF Phases, NoneLeft, Active
  <2> QED BY <2>2, <2>3, <2>4
<1> QED BY <1>2, <1>3

LEMMA StartFailsStep == ASSUME NEW t \in Threads, IInv, StartFails(t) PROVE IInv'
<1> USE DEF IInv, StartFails, thread
<1>1. TypeOK'
  BY PoolAssumption DEF TypeOK
<1>2. Bodies'
  BY PoolAssumption DEF TypeOK, Bodies, Phases, NoneLeft, Active
<1>3. Phases'
  BY PoolAssumption, PthreadPairs DEF TypeOK, Bodies, Phases, NoneLeft, Active
<1> QED BY <1>1, <1>2, <1>3

LEMMA SettleStep == ASSUME Settles, IInv, Settle PROVE IInv'
<1> USE DEF IInv, Settle, thread
<1>1. TypeOK'
  BY PoolAssumption DEF TypeOK
<1>2. Bodies'
  BY PoolAssumption DEF TypeOK, Bodies, Phases, NoneLeft, Active
<1>3. Phases'
  BY PoolAssumption, PthreadPairs DEF TypeOK, Bodies, Phases, NoneLeft, Active
<1> QED BY <1>1, <1>2, <1>3

LEMMA PollStep == ASSUME NEW t \in Threads, IInv, Poll(t) PROVE IInv'
<1> USE DEF IInv, Poll, Visit, thread
<1>1. TypeOK' /\ Bodies'
  BY DEF TypeOK, Bodies, Active
<1>2. t \notin running => \A p \in Pthreads : p[1] = t => ~Active(p)
  BY DEF Bodies, Phases, Active
<1>3. Phases'
  BY <1>2, PthreadPairs DEF TypeOK, Phases, NoneLeft, Active
<1> QED BY <1>1, <1>3

LEMMA InterruptStep == ASSUME IInv, Interrupt PROVE IInv'
<1> USE DEF IInv, Interrupt, BeginStop, thread
<1>1. TypeOK'
  BY PoolAssumption DEF TypeOK
<1>2. Bodies'
  BY PoolAssumption DEF TypeOK, Bodies, Phases, NoneLeft, Active
<1>3. Phases'
  BY PoolAssumption, PthreadPairs DEF TypeOK, Bodies, Phases, NoneLeft, Active
<1> QED BY <1>1, <1>2, <1>3

LEMMA AllLevelsDoneStep == ASSUME IInv, AllLevelsDone PROVE IInv'
<1> USE DEF IInv, AllLevelsDone, BeginStop, thread
<1>1. TypeOK'
  BY PoolAssumption DEF TypeOK
<1>2. Bodies'
  BY PoolAssumption DEF TypeOK, Bodies, Phases, NoneLeft, Active
<1>3. Phases'
  BY PoolAssumption, PthreadPairs DEF TypeOK, Bodies, Phases, NoneLeft, Active
<1> QED BY <1>1, <1>2, <1>3

LEMMA SignalStopStep == ASSUME NEW t \in Threads, IInv, SignalStop(t) PROVE IInv'
<1> USE DEF IInv, SignalStop, Visit
<1>1. TypeOK'
  BY PoolAssumption DEF TypeOK
<1>2. Bodies'
  BY PoolAssumption DEF TypeOK, Bodies, Phases, NoneLeft, Active
<1>3. Phases'
  BY PoolAssumption, PthreadPairs DEF TypeOK, Bodies, Phases, NoneLeft, Active
<1> QED BY <1>1, <1>2, <1>3

LEMMA StopAgainStep == ASSUME IInv, StopAgain PROVE IInv'
<1> USE DEF IInv, StopAgain, BeginStop, thread
<1>1. TypeOK'
  BY PoolAssumption DEF TypeOK
<1>2. Bodies'
  BY PoolAssumption DEF TypeOK, Bodies, Phases, NoneLeft, Active
<1>3. Phases'
  BY PoolAssumption, PthreadPairs DEF TypeOK, Bodies, Phases, NoneLeft, Active
<1> QED BY <1>1, <1>2, <1>3

LEMMA BeginDeleteStep == ASSUME IInv, BeginDelete PROVE IInv'
<1> USE DEF IInv, BeginDelete, thread
<1>1. TypeOK'
  BY PoolAssumption DEF TypeOK
<1>2. Bodies'
  BY PoolAssumption DEF TypeOK, Bodies, Phases, NoneLeft, Active
<1>3. Phases'
  BY PoolAssumption, PthreadPairs DEF TypeOK, Bodies, Phases, NoneLeft, Active
<1> QED BY <1>1, <1>2, <1>3

LEMMA DestroyStep == ASSUME NEW t \in Threads, IInv, Destroy(t) PROVE IInv'
<1> USE DEF IInv, Destroy
<1>1. TypeOK'
  BY PoolAssumption DEF TypeOK
<1>2. Bodies'
  BY PoolAssumption DEF TypeOK, Bodies, Phases, NoneLeft, Active
<1>3. Phases'
  BY PoolAssumption, PthreadPairs DEF TypeOK, Bodies, Phases, NoneLeft, Active
<1> QED BY <1>1, <1>2, <1>3

LEMMA DeleteStep == ASSUME IInv, Delete PROVE IInv'
<1> USE DEF IInv, Delete
<1>1. TypeOK'
  BY PoolAssumption DEF TypeOK
<1>2. Bodies'
  BY PoolAssumption DEF TypeOK, Bodies, Phases, NoneLeft, Active
<1>3. Phases'
  BY PoolAssumption, PthreadPairs DEF TypeOK, Bodies, Phases, NoneLeft, Active
<1> QED BY <1>1, <1>2, <1>3

LEMMA UnwindStep == ASSUME IInv, Unwind PROVE IInv'
<1> USE DEF IInv, Unwind, thread
<1>1. opc = "failed" /\ poolMutex
  BY DEF Phases
<1>2. opc' = "terminated" /\ UNCHANGED <<poolMutex, todo, rounds>>
  BY <1>1
<1>3. TypeOK'
  BY <1>2 DEF TypeOK
<1>4. Bodies' /\ Phases'
  BY <1>2 DEF Bodies, Phases, NoneLeft, Active
<1> QED BY <1>3, <1>4

LEMMA StutterStep == IInv /\ UNCHANGED vars => IInv'
BY DEF IInv, TypeOK, Bodies, Phases, NoneLeft, Active, vars, thread, owner

LEMMA NextStep == Settles /\ IInv /\ [Next]_vars => IInv'
<1> SUFFICES ASSUME Settles, IInv, [Next]_vars PROVE IInv'
  OBVIOUS
<1>1. ASSUME NEW p \in Pthreads, Pthread(p) PROVE IInv'
  BY <1>1, StartUpStep, ReturnStep, ExitStep, LeaveStep DEF Pthread
<1>2. CASE OwnerStep
  BY <1>2, StartThreadsStep, SettleStep, AllLevelsDoneStep, StopAgainStep, BeginDeleteStep,
     DeleteStep, UnwindStep, StartThreadStep, PollStep, SignalStopStep, DestroyStep DEF OwnerStep
<1>3. CASE Interrupt
  BY <1>3, InterruptStep
<1>4. ASSUME NEW t \in Threads, StartFails(t) PROVE IInv'
  BY <1>4, StartFailsStep
<1>5. CASE Over \/ UNCHANGED vars
  BY <1>5, StutterStep DEF Over
<1> QED BY <1>1, <1>2, <1>3, <1>4, <1>5 DEF Next

\* The inductive invariant holds in every reachable state.
THEOREM Invariance == ASSUME Settles PROVE Spec => []IInv
<1>1. IInv /\ [Next]_vars => IInv'
  BY NextStep
<1> QED BY <1>1, InitIInv, PTL DEF Spec

\* Type correctness of threads and owner.
THEOREM TypeCorrect == ASSUME Settles PROVE Spec => []TypeOK
<1>1. IInv => TypeOK
  BY DEF IInv
<1> QED BY <1>1, Invariance, PTL

\* No thread is active when the owner starts the next level, when stopThreads()
\* has returned, or while objects are deleted.
THEOREM OwnerSeesAll == ASSUME Settles PROVE Spec => []NoneLeft
<1>1. IInv => NoneLeft
  BY DEF IInv, Phases
<1> QED BY <1>1, Invariance, PTL

\* No object is ever executed by two threads.
THEOREM OneThreadPerObject == ASSUME Settles PROVE Spec => []OneBody
<1>1. IInv => OneBody
  BY PthreadPairs DEF IInv, Bodies, Active, OneBody
<1> QED BY <1>1, Invariance, PTL

=============================================================================
