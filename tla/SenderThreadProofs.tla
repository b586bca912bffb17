------------------------- MODULE SenderThreadProofs -------------------------
(***************************************************************************)
(* Proofs about SenderThread, for every value of its constants: the type   *)
(* invariant, the even and punctual distribution of the packets, the       *)
(* reaction to a stop, the positive duration and the joined receiver; and  *)
(* that the thread implements LoadPhase.                                   *)
(*                                                                         *)
(* None of these is inductive by itself.  IInv adds where the thread is on *)
(* its plan while a slice is being sent (PlanInv), how the slice ends, the *)
(* check times and the clock are related (TimeInv, SliceInv), how old the  *)
(* next check time can be once a stop is requested (StopInv), and how old  *)
(* a created receiver can be (ReceiverInv).                                *)
(***************************************************************************)
EXTENDS SenderRefinement, TLAPS

-----------------------------------------------------------------------------
(* The inductive invariant                                                 *)

\* The earliest end of k slices of a level begun at b.
SliceTime(b, k) == b + k * Zeitscheibe

\* The local `start' of run() has been read.
BegunPc == Pc \ {"idle", "run", "begin"}

\* Inside one of the three loops, all of its locals set.
LoopPc == {"slice", "send", "sleep", "check", "check_end",
           "select", "free_send", "free_now", "free_check", "timeout"}

TimeInv ==
    /\ now <= clock
    /\ pc \in BegunPc => begin <= clock
    /\ pc \in LoopPc => begin <= LoopStart /\ LoopStart <= clock
    /\ pc \in LoopPc \cup {"rate_end"} =>
          /\ begin + CheckInterval <= next_checktime
          /\ next_checktime <= clock + CheckInterval
    /\ pc = "loaded" => begin < clock
    /\ pc \in TailPc => duration > 0

SliceInv ==
    /\ pc \in {"rate_end", "slice"} =>
          SliceTime(begin, z) <= naechste_zeitscheibe /\ naechste_zeitscheibe <= clock
    /\ pc \in {"send", "sleep"} =>
          SliceTime(begin, z) <= clock /\ SliceTime(begin, z + 1) <= naechste_zeitscheibe
    /\ pc \in {"check", "check_end"} => SliceTime(begin, z + 1) <= clock
                                     /\ SliceTime(begin, z + 1) <= naechste_zeitscheibe
                                     /\ naechste_zeitscheibe <= clock

PlanInv ==
    /\ pc \in RatePc => queryrate > 0
    /\ pc \in FreePc => queryrate = 0
    /\ pc \in {"begin", "rate_now", "rate_end"} => Attempts = 0
    /\ pc = "rate_end" => z = 0 /\ queries_rest = Queries(queryrate)
    /\ pc = "slice" =>
          /\ z <= total_zeitscheiben
          /\ Attempts = Plan(queryrate, z)
          /\ queries_rest = Queries(queryrate) - Plan(queryrate, z)
    /\ pc = "send" =>
          /\ z < total_zeitscheiben
          /\ i <= queries_pro_zeitscheibe
          /\ Attempts = Plan(queryrate, z) + i
          /\ queries_pro_zeitscheibe = Plan(queryrate, z + 1) - Plan(queryrate, z)
          /\ queries_rest = Queries(queryrate) - Plan(queryrate, z)
    /\ pc \in {"sleep", "check", "check_end"} =>
          /\ z < total_zeitscheiben
          /\ Attempts = Plan(queryrate, z + 1)
          /\ queries_rest = Queries(queryrate) - Plan(queryrate, z + 1)

QuotaInv ==
    /\ pc \in TailPc \cup {"loaded"} /\ queryrate > 0 => Attempts <= Queries(queryrate)
    /\ pc = "loaded" => \/ queryrate > 0 /\ Attempts = Queries(queryrate)
                        \/ stopFlag
                        \/ clock - begin >= RuntimeTicks
    /\ pc \in TailPc /\ queryrate > 0 =>
          Attempts = Queries(queryrate) \/ stopFlag \/ duration >= RuntimeTicks

StopInv ==
    /\ flags => stopFlag /\ stoppedAt <= clock
    /\ flags /\ pc \in LoopPc =>
          \/ next_checktime <= stoppedAt + CheckInterval
          \/ next_checktime <= LoopStart + CheckInterval
    /\ flags /\ pc \in {"slice", "check_end", "select", "timeout"} =>
          \/ now <= stoppedAt + CheckInterval
          \/ now <= LoopStart + CheckInterval

ReceiverInv ==
    /\ receiver = "created" =>
          receiverBorn <= clock /\ clock <= receiverBorn + StartLatency
    /\ receiver = "created" /\ pc \in BegunPc => receiverBorn <= begin
    /\ pc \in {"stop_receiver", "join"} => receiver # "created"
    /\ pc \in {"exit", "idle", "run"} => receiver = "none"

IInv == TypeOK /\ TimeInv /\ SliceInv /\ PlanInv /\ QuotaInv /\ StopInv /\ ReceiverInv

-----------------------------------------------------------------------------
(* Arithmetic of the plan                                                  *)

\* The constants of runWithRateLimit: at least one slice, and waiting phases
\* at least as long as the check interval.
LEMMA ConstantFacts ==
    /\ total_zeitscheiben \in Nat
    /\ total_zeitscheiben >= 1
    /\ RuntimeTicks \in Nat
    /\ RuntimeTicks >= CheckInterval
    /\ TimeoutTicks \in Nat
    /\ TimeoutTicks >= CheckInterval
    /\ Zeitscheibe \in Nat /\ Zeitscheibe >= 1
    /\ CheckInterval \in Nat /\ CheckInterval >= 1
    /\ StartLatency \in Nat /\ StartLatency < CheckInterval
<1> DEFINE RT == RuntimeTicks
<1>1. Runtime * Second \in Nat /\ Runtime * Second >= Second
  BY TimingAssumption
<1>2. Timeout * Second \in Nat /\ Timeout * Second >= Second
  BY TimingAssumption
<1>3. RT \in Nat /\ RT >= Zeitscheibe /\ RT >= CheckInterval
  BY <1>1, TimingAssumption DEF RuntimeTicks
<1>4. total_zeitscheiben \in Nat /\ total_zeitscheiben >= 1
  <2> HIDE DEF RT
  <2> SUFFICES RT \div Zeitscheibe \in Nat /\ RT \div Zeitscheibe >= 1
    BY DEF RT, total_zeitscheiben
  <2> QED BY <1>3, TimingAssumption
<1> QED BY <1>2, <1>3, <1>4, TimingAssumption DEF TimeoutTicks

\* k slices that share Q packets evenly: what is left after k slices, divided
\* by the slices left, is what the plan gives to slice k.
LEMMA ShareOfPlan ==
  ASSUME NEW F \in Nat, NEW r \in Nat, NEW n \in Nat, NEW k \in Nat, r < n, k < n,
         NEW rest \in Int,
         rest = (F * n + r) - (k * F + (IF k > n - r THEN k - (n - r) ELSE 0))
  PROVE  /\ rest \in Nat
         /\ k < n - r => rest \div (n - k) = F
         /\ k >= n - r => rest \div (n - k) = F + 1
         /\ n - k = 1 /\ k < n - r => rest = F
         /\ n - k = 1 /\ k >= n - r => rest = F + 1
<1> DEFINE m == n - k
<1>1. m \in Nat /\ m >= 1
  OBVIOUS
<1>2. F * n - k * F = F * m
  OBVIOUS
<1>3. CASE k < n - r
  <2>1. rest = F * m + r /\ r < m
    BY <1>2, <1>3
  <2>2. F * m \in Nat /\ F * m + r < (F + 1) * m
    BY <1>1, <2>1
  <2>3. m = 1 => r = 0
    BY <1>1, <2>1
  <2>4. (F * m + r) \div m = F
    <3> HIDE DEF m
    <3> QED BY <1>1, <2>1, <2>2
  <2> QED BY <1>1, <1>3, <2>1, <2>2, <2>3, <2>4
<1>4. CASE k >= n - r
  <2>1. rest = F * m + m
    BY <1>2, <1>4
  <2>2. rest = (F + 1) * m /\ F * m \in Nat
    BY <1>1, <2>1
  <2>3. ((F + 1) * m) \div m = F + 1
    <3> HIDE DEF m
    <3> QED BY <1>1
  <2> QED BY <1>1, <1>4, <2>2, <2>3
<1> QED BY <1>3, <1>4

\* The base share and the remainder of the quota of a level.
LEMMA QuotaParts ==
  ASSUME NEW rate \in Nat
  PROVE  LET F == Queries(rate) \div total_zeitscheiben
             r == Queries(rate) % total_zeitscheiben
         IN  /\ Queries(rate) \in Nat
             /\ F \in Nat /\ r \in Nat /\ r < total_zeitscheiben
             /\ Queries(rate) = F * total_zeitscheiben + r
<1> DEFINE Q == Queries(rate)
           n == total_zeitscheiben
<1>1. Q \in Nat
  BY TimingAssumption DEF Queries
<1>2. n \in Nat /\ n >= 1
  BY ConstantFacts
<1> HIDE DEF Q, n
<1>3. Q \div n \in Nat /\ Q % n \in Nat /\ Q % n < n /\ Q = (Q \div n) * n + (Q % n)
  BY <1>1, <1>2
<1> QED BY <1>1, <1>3 DEF Q, n

\* Plan without its LET.
LEMMA PlanUnfold ==
  ASSUME NEW rate \in Nat, NEW k \in Nat,
         NEW F, F = Queries(rate) \div total_zeitscheiben,
         NEW r, r = Queries(rate) % total_zeitscheiben
  PROVE  Plan(rate, k) =
            k * F + (IF k > total_zeitscheiben - r THEN k - (total_zeitscheiben - r) ELSE 0)
BY DEF Plan

\* The plan starts at 0, and as long as a slice is left, the share computed by
\* runWithRateLimit from the rest is the plan's next increment.
LEMMA PlanStep ==
  ASSUME NEW rate \in Nat, NEW k \in Nat, k < total_zeitscheiben,
         NEW rest, rest = Queries(rate) - Plan(rate, k)
  PROVE  /\ Plan(rate, k) \in Nat /\ Plan(rate, k + 1) \in Nat
         /\ Plan(rate, k) <= Plan(rate, k + 1)
         /\ rest \in Nat
         /\ (IF total_zeitscheiben - k = 1 THEN rest ELSE rest \div (total_zeitscheiben - k))
               = Plan(rate, k + 1) - Plan(rate, k)
         /\ Plan(rate, k + 1) <= Queries(rate)
<1> DEFINE n == total_zeitscheiben
           F == Queries(rate) \div n
           r == Queries(rate) % n
           extra(j) == IF j > n - r THEN j - (n - r) ELSE 0
<1>1. /\ n \in Nat /\ n >= 1 /\ F \in Nat /\ r \in Nat /\ r < n
      /\ Queries(rate) \in Nat /\ Queries(rate) = F * n + r
  BY ConstantFacts, QuotaParts
<1>2. Plan(rate, k) = k * F + extra(k) /\ Plan(rate, k + 1) = (k + 1) * F + extra(k + 1)
  BY PlanUnfold
<1> HIDE DEF F, r, n
<1>3. k \in Nat /\ k < n
  BY DEF n
<1>4. k * F \in Nat /\ (k + 1) * F = k * F + F
  BY <1>1
<1>5. Plan(rate, k) \in Nat /\ Plan(rate, k + 1) \in Nat
  BY <1>1, <1>2, <1>4
<1>6. rest \in Int /\ rest = (F * n + r) - (k * F + extra(k))
  BY <1>1, <1>2, <1>5
<1>7. /\ rest \in Nat
      /\ k < n - r => rest \div (n - k) = F
      /\ k >= n - r => rest \div (n - k) = F + 1
      /\ n - k = 1 /\ k < n - r => rest = F
      /\ n - k = 1 /\ k >= n - r => rest = F + 1
  BY <1>1, <1>3, <1>6, ShareOfPlan
<1>8. k < n - r => Plan(rate, k + 1) - Plan(rate, k) = F
  BY <1>1, <1>2, <1>3, <1>4
<1>9. k >= n - r => Plan(rate, k + 1) - Plan(rate, k) = F + 1
  BY <1>1, <1>2, <1>3, <1>4
<1>10. (IF n - k = 1 THEN rest ELSE rest \div (n - k)) = Plan(rate, k + 1) - Plan(rate, k)
  BY <1>1, <1>3, <1>7, <1>8, <1>9
<1>11. Plan(rate, k + 1) <= Queries(rate)
  <2>1. F * n - k * F = F * (n - k)
    BY <1>1, <1>3
  <2>2. F * (n - k) >= F
    BY <1>1, <1>3
  <2> QED BY <1>1, <1>2, <1>3, <1>4, <2>1, <2>2
<1> QED BY <1>1, <1>5, <1>7, <1>8, <1>9, <1>10, <1>11 DEF n

\* Both ends of the plan.
LEMMA PlanEnds ==
  ASSUME NEW rate \in Nat
  PROVE  Plan(rate, 0) = 0 /\ Plan(rate, total_zeitscheiben) = Queries(rate)
<1> DEFINE n == total_zeitscheiben
           F == Queries(rate) \div n
           r == Queries(rate) % n
<1>1. /\ n \in Nat /\ n >= 1 /\ F \in Nat /\ r \in Nat /\ r < n
      /\ Queries(rate) = F * n + r
  BY ConstantFacts, QuotaParts
<1>2. /\ Plan(rate, 0) = 0 * F + (IF 0 > n - r THEN 0 - (n - r) ELSE 0)
      /\ Plan(rate, n) = n * F + (IF n > n - r THEN n - (n - r) ELSE 0)
  BY <1>1, PlanUnfold
<1> HIDE DEF F, r, n
<1>3. Plan(rate, 0) = 0 /\ Plan(rate, n) = Queries(rate)
  BY <1>1, <1>2
<1> QED BY <1>3 DEF n

\* A later slice is never planned with fewer packets.
LEMMA PlanMonotone ==
  ASSUME NEW rate \in Nat, NEW j \in Nat, NEW k \in Nat, j <= k
  PROVE  /\ Plan(rate, j) \in Nat /\ Plan(rate, k) \in Nat
         /\ Plan(rate, j) <= Plan(rate, k)
<1> DEFINE n == total_zeitscheiben
           F == Queries(rate) \div n
           r == Queries(rate) % n
           extra(m) == IF m > n - r THEN m - (n - r) ELSE 0
<1>1. n \in Nat /\ n >= 1 /\ F \in Nat /\ r \in Nat /\ r < n
  BY ConstantFacts, QuotaParts
<1>2. Plan(rate, j) = j * F + extra(j) /\ Plan(rate, k) = k * F + extra(k)
  BY PlanUnfold
<1> HIDE DEF F, r, n
<1>3. j * F \in Nat /\ k * F \in Nat /\ j * F <= k * F
  BY <1>1
<1>4. extra(j) \in Nat /\ extra(k) \in Nat /\ extra(j) <= extra(k)
  BY <1>1
<1> QED BY <1>2, <1>3, <1>4

\* Slice boundaries follow each other at a distance of one Zeitscheibe.
LEMMA SliceTimeFacts ==
  ASSUME NEW b \in Nat, NEW k \in Nat
  PROVE  /\ SliceTime(b, 0) = b
         /\ SliceTime(b, k) \in Nat /\ SliceTime(b, k) >= b
         /\ SliceTime(b, k + 1) \in Nat
         /\ SliceTime(b, k + 1) = SliceTime(b, k) + Zeitscheibe
         /\ k >= 1 => SliceTime(b, k) > b
<1>1. Zeitscheibe \in Nat /\ Zeitscheibe >= 1
  BY ConstantFacts
<1>2. /\ k * Zeitscheibe \in Nat /\ (k + 1) * Zeitscheibe = k * Zeitscheibe + Zeitscheibe
      /\ 0 * Zeitscheibe = 0
      /\ k >= 1 => k * Zeitscheibe >= 1
  BY <1>1
<1> QED BY <1>1, <1>2 DEF SliceTime

-----------------------------------------------------------------------------
(* Every step preserves IInv                                               *)

\* Every call of sendPacket is counted exactly once.
LEMMA SendCounted == TypeOK /\ sendPacket => Attempts' = Attempts + 1
BY DEF TypeOK, sendPacket, SendFull, SendError, SendNothing, Attempts

\* sendPacket keeps the counters' types.
LEMMA SendTyped ==
    TypeOK /\ sendPacket =>
        /\ counter_send' \in Nat /\ errors' \in Nat /\ counter_0bytes' \in Nat
        /\ counter_errorcodes' \in [Errnos -> Nat]
BY DEF TypeOK, sendPacket, SendFull, SendError, SendNothing

\* The slice boundaries around the current slice.
LEMMA SliceTimesNow ==
    TypeOK =>
        /\ SliceTime(begin, 0) = begin
        /\ SliceTime(begin, z) \in Nat /\ SliceTime(begin, z + 1) \in Nat
        /\ SliceTime(begin, z) >= begin
        /\ SliceTime(begin, z + 1) = SliceTime(begin, z) + Zeitscheibe
        /\ z >= 1 => SliceTime(begin, z) > begin
BY SliceTimeFacts DEF TypeOK

\* The plan around the current slice.
LEMMA PlanNow ==
    TypeOK /\ z < total_zeitscheiben =>
        /\ Plan(queryrate, z) \in Nat /\ Plan(queryrate, z + 1) \in Nat
        /\ Plan(queryrate, z) <= Plan(queryrate, z + 1)
        /\ Plan(queryrate, z + 1) <= Queries(queryrate)
        /\ Queries(queryrate) \in Nat
BY PlanStep, QuotaParts DEF TypeOK

\* The share of the slice about to begin is the next increment of the plan.
LEMMA ShareNow ==
    TypeOK /\ PlanInv /\ pc = "slice" /\ z < total_zeitscheiben =>
        /\ SliceShare \in Nat
        /\ SliceShare = Plan(queryrate, z + 1) - Plan(queryrate, z)
<1> SUFFICES ASSUME TypeOK, PlanInv, pc = "slice", z < total_zeitscheiben
             PROVE  /\ SliceShare \in Nat
                    /\ SliceShare = Plan(queryrate, z + 1) - Plan(queryrate, z)
  OBVIOUS
<1>1. queries_rest = Queries(queryrate) - Plan(queryrate, z)
  BY DEF PlanInv
<1>2. queryrate \in Nat /\ z \in Nat
  BY DEF TypeOK
<1>3. SliceShare = Plan(queryrate, z + 1) - Plan(queryrate, z)
  BY <1>1, <1>2, PlanStep DEF SliceShare, restscheiben
<1> QED BY <1>3, PlanNow

\* After the last slice the whole quota has been attempted.
LEMMA QuotaSpent ==
    TypeOK /\ PlanInv /\ pc = "slice" /\ ~(z < total_zeitscheiben) =>
        Attempts = Queries(queryrate) /\ Queries(queryrate) \in Nat
<1> SUFFICES ASSUME TypeOK, PlanInv, pc = "slice", ~(z < total_zeitscheiben)
             PROVE  Attempts = Queries(queryrate) /\ Queries(queryrate) \in Nat
  OBVIOUS
<1>1. z = total_zeitscheiben /\ Attempts = Plan(queryrate, z)
  BY ConstantFacts DEF PlanInv, TypeOK
<1> QED BY <1>1, PlanEnds, QuotaParts DEF TypeOK

LEMMA InitIInv == Init => IInv
<1> SUFFICES ASSUME Init PROVE IInv
  OBVIOUS
<1> USE DEF Init
<1>1. TypeOK
  BY DEF TypeOK, Pc, Attempts
<1>2. TimeInv
  BY DEF TimeInv, BegunPc, LoopPc, TailPc
<1>3. SliceInv /\ PlanInv /\ QuotaInv
  BY DEF SliceInv, PlanInv, QuotaInv, RatePc, FreePc, TailPc
<1>4. StopInv /\ ReceiverInv
  BY DEF StopInv, ReceiverInv, BegunPc, Pc
<1> QED BY <1>1, <1>2, <1>3, <1>4 DEF IInv

LEMMA StartStep == IInv /\ Start => IInv'
<1> SUFFICES ASSUME IInv, Start PROVE IInv'
  OBVIOUS
<1> USE ConstantFacts, RateAssumption DEF IInv, TypeOK, Start, Attempts,
        control, counters, loop, slices, rcv,
        Pc, RatePc, FreePc, TailPc, BegunPc, LoopPc, LoopStart
<1>1. TypeOK'
  BY DEF TimeInv, PlanInv
<1>2. TimeInv'
  BY DEF TimeInv, SliceInv
<1>3. SliceInv'
  BY DEF SliceInv, TimeInv
<1>4. PlanInv'
  BY DEF PlanInv
<1>5. QuotaInv'
  BY DEF QuotaInv, PlanInv, TimeInv
<1>6. StopInv'
  BY DEF StopInv, TimeInv
<1>7. ReceiverInv'
  BY DEF ReceiverInv, TimeInv
<1> QED BY <1>1, <1>2, <1>3, <1>4, <1>5, <1>6, <1>7

LEMMA RequestStopStep == IInv /\ RequestStop => IInv'
<1> SUFFICES ASSUME IInv, RequestStop PROVE IInv'
  OBVIOUS
<1> USE ConstantFacts, RateAssumption DEF IInv, TypeOK, RequestStop, Attempts,
        control, counters, loop, slices, rcv,
        Pc, RatePc, FreePc, TailPc, BegunPc, LoopPc, LoopStart
<1>1. TypeOK'
  BY DEF TimeInv, PlanInv
<1>2. TimeInv'
  BY DEF TimeInv, SliceInv
<1>3. SliceInv'
  BY DEF SliceInv, TimeInv
<1>4. PlanInv'
  BY DEF PlanInv
<1>5. QuotaInv'
  BY DEF QuotaInv, PlanInv, TimeInv
<1>6. StopInv'
  BY DEF StopInv, TimeInv
<1>7. ReceiverInv'
  BY DEF ReceiverInv, TimeInv
<1> QED BY <1>1, <1>2, <1>3, <1>4, <1>5, <1>6, <1>7

LEMMA TickStep == IInv /\ Tick => IInv'
<1> SUFFICES ASSUME IInv, Tick PROVE IInv'
  OBVIOUS
<1> USE ConstantFacts, RateAssumption DEF IInv, TypeOK, Tick, Waiting, Attempts,
        control, counters, loop, slices, rcv,
        Pc, RatePc, FreePc, TailPc, BegunPc, LoopPc, LoopStart
<1>1. TypeOK'
  BY DEF TimeInv, PlanInv
<1>2. TimeInv'
  BY DEF TimeInv, SliceInv
<1>3. SliceInv'
  BY SliceTimesNow DEF SliceInv, TimeInv
<1>4. PlanInv'
  BY DEF PlanInv
<1>5. QuotaInv'
  BY DEF QuotaInv, PlanInv, TimeInv
<1>6. StopInv'
  BY DEF StopInv, TimeInv
<1>7. ReceiverInv'
  BY DEF ReceiverInv, TimeInv
<1> QED BY <1>1, <1>2, <1>3, <1>4, <1>5, <1>6, <1>7

LEMMA ReceiverStartUpStep == IInv /\ ReceiverStartUp => IInv'
<1> SUFFICES ASSUME IInv, ReceiverStartUp PROVE IInv'
  OBVIOUS
<1> USE ConstantFacts, RateAssumption DEF IInv, TypeOK, ReceiverStartUp, Attempts,
        control, counters, loop, slices, rcv,
        Pc, RatePc, FreePc, TailPc, BegunPc, LoopPc, LoopStart
<1>1. TypeOK'
  BY DEF TimeInv, PlanInv
<1>2. TimeInv'
  BY DEF TimeInv, SliceInv
<1>3. SliceInv'
  BY DEF SliceInv, TimeInv
<1>4. PlanInv'
  BY DEF PlanInv
<1>5. QuotaInv'
  BY DEF QuotaInv, PlanInv, TimeInv
<1>6. StopInv'
  BY DEF StopInv, TimeInv
<1>7. ReceiverInv'
  BY DEF ReceiverInv, TimeInv
<1> QED BY <1>1, <1>2, <1>3, <1>4, <1>5, <1>6, <1>7

LEMMA ReceiverExitStep == IInv /\ ReceiverExit => IInv'
<1> SUFFICES ASSUME IInv, ReceiverExit PROVE IInv'
  OBVIOUS
<1> USE ConstantFacts, RateAssumption DEF IInv, TypeOK, ReceiverExit, Attempts,
        control, counters, loop, slices, rcv,
        Pc, RatePc, FreePc, TailPc, BegunPc, LoopPc, LoopStart
<1>1. TypeOK'
  BY DEF TimeInv, PlanInv
<1>2. TimeInv'
  BY DEF TimeInv, SliceInv
<1>3. SliceInv'
  BY DEF SliceInv, TimeInv
<1>4. PlanInv'
  BY DEF PlanInv
<1>5. QuotaInv'
  BY DEF QuotaInv, PlanInv, TimeInv
<1>6. StopInv'
  BY DEF StopInv, TimeInv
<1>7. ReceiverInv'
  BY DEF ReceiverInv, TimeInv
<1> QED BY <1>1, <1>2, <1>3, <1>4, <1>5, <1>6, <1>7

LEMMA RunResetStep == IInv /\ RunReset => IInv'
<1> SUFFICES ASSUME IInv, RunReset PROVE IInv'
  OBVIOUS
<1> USE ConstantFacts, RateAssumption DEF IInv, TypeOK, RunReset, Attempts,
        control, counters, loop, slices, rcv,
        Pc, RatePc, FreePc, TailPc, BegunPc, LoopPc, LoopStart
<1>1. TypeOK'
  BY DEF TimeInv, PlanInv
<1>2. TimeInv'
  BY DEF TimeInv, SliceInv
<1>3. SliceInv'
  BY DEF SliceInv, TimeInv
<1>4. PlanInv'
  BY DEF PlanInv
<1>5. QuotaInv'
  BY DEF QuotaInv, PlanInv, TimeInv
<1>6. StopInv'
  BY DEF StopInv, TimeInv
<1>7. ReceiverInv'
  BY DEF ReceiverInv, TimeInv
<1> QED BY <1>1, <1>2, <1>3, <1>4, <1>5, <1>6, <1>7

LEMMA RunBeginStep == IInv /\ RunBegin => IInv'
<1> SUFFICES ASSUME IInv, RunBegin PROVE IInv'
  OBVIOUS
<1> USE ConstantFacts, RateAssumption DEF IInv, TypeOK, RunBegin, Attempts,
        control, counters, loop, slices, rcv,
        Pc, RatePc, FreePc, TailPc, BegunPc, LoopPc, LoopStart
<1>1. TypeOK'
  BY DEF TimeInv, PlanInv
<1>2. TimeInv'
  BY DEF TimeInv, SliceInv
<1>3. SliceInv'
  BY DEF SliceInv, TimeInv
<1>4. PlanInv'
  BY DEF PlanInv
<1>5. QuotaInv'
  BY DEF QuotaInv, PlanInv, TimeInv
<1>6. StopInv'
  BY DEF StopInv, TimeInv
<1>7. ReceiverInv'
  BY DEF ReceiverInv, TimeInv
<1> QED BY <1>1, <1>2, <1>3, <1>4, <1>5, <1>6, <1>7

LEMMA RunDurationStep == IInv /\ RunDuration => IInv'
<1> SUFFICES ASSUME IInv, RunDuration PROVE IInv'
  OBVIOUS
<1> USE ConstantFacts, RateAssumption DEF IInv, TypeOK, RunDuration, ForgetLoop, ForgetSlices, Attempts,
        control, counters, loop, slices, rcv,
        Pc, RatePc, FreePc, TailPc, BegunPc, LoopPc, LoopStart
<1>1. TypeOK'
  BY DEF TimeInv, PlanInv
<1>2. TimeInv'
  BY DEF TimeInv, SliceInv
<1>3. SliceInv'
  BY DEF SliceInv, TimeInv
<1>4. PlanInv'
  BY DEF PlanInv
<1>5. QuotaInv'
  BY DEF QuotaInv, PlanInv, TimeInv
<1>6. StopInv'
  BY DEF StopInv, TimeInv
<1>7. ReceiverInv'
  BY DEF ReceiverInv, TimeInv
<1> QED BY <1>1, <1>2, <1>3, <1>4, <1>5, <1>6, <1>7

LEMMA RunStopReceiverStep == IInv /\ RunStopReceiver => IInv'
<1> SUFFICES ASSUME IInv, RunStopReceiver PROVE IInv'
  OBVIOUS
<1> USE ConstantFacts, RateAssumption DEF IInv, TypeOK, RunStopReceiver, ForgetLoop, Attempts,
        control, counters, loop, slices, rcv,
        Pc, RatePc, FreePc, TailPc, BegunPc, LoopPc, LoopStart
<1>1. TypeOK'
  BY DEF TimeInv, PlanInv
<1>2. TimeInv'
  BY DEF TimeInv, SliceInv
<1>3. SliceInv'
  BY DEF SliceInv, TimeInv
<1>4. PlanInv'
  BY DEF PlanInv
<1>5. QuotaInv'
  BY DEF QuotaInv, PlanInv, TimeInv
<1>6. StopInv'
  BY DEF StopInv, TimeInv
<1>7. ReceiverInv'
  BY DEF ReceiverInv, TimeInv
<1> QED BY <1>1, <1>2, <1>3, <1>4, <1>5, <1>6, <1>7

LEMMA RunJoinReceiverStep == IInv /\ RunJoinReceiver => IInv'
<1> SUFFICES ASSUME IInv, RunJoinReceiver PROVE IInv'
  OBVIOUS
<1> USE ConstantFacts, RateAssumption DEF IInv, TypeOK, RunJoinReceiver, Attempts,
        control, counters, loop, slices, rcv,
        Pc, RatePc, FreePc, TailPc, BegunPc, LoopPc, LoopStart
<1>1. TypeOK'
  BY DEF TimeInv, PlanInv
<1>2. TimeInv'
  BY DEF TimeInv, SliceInv
<1>3. SliceInv'
  BY DEF SliceInv, TimeInv
<1>4. PlanInv'
  BY DEF PlanInv
<1>5. QuotaInv'
  BY DEF QuotaInv, PlanInv, TimeInv
<1>6. StopInv'
  BY DEF StopInv, TimeInv
<1>7. ReceiverInv'
  BY DEF ReceiverInv, TimeInv
<1> QED BY <1>1, <1>2, <1>3, <1>4, <1>5, <1>6, <1>7

LEMMA RunExitStep == IInv /\ RunExit => IInv'
<1> SUFFICES ASSUME IInv, RunExit PROVE IInv'
  OBVIOUS
<1> USE ConstantFacts, RateAssumption DEF IInv, TypeOK, RunExit, Attempts,
        control, counters, loop, slices, rcv,
        Pc, RatePc, FreePc, TailPc, BegunPc, LoopPc, LoopStart
<1>1. TypeOK'
  BY DEF TimeInv, PlanInv
<1>2. TimeInv'
  BY DEF TimeInv, SliceInv
<1>3. SliceInv'
  BY DEF SliceInv, TimeInv
<1>4. PlanInv'
  BY DEF PlanInv
<1>5. QuotaInv'
  BY DEF QuotaInv, PlanInv, TimeInv
<1>6. StopInv'
  BY DEF StopInv, TimeInv
<1>7. ReceiverInv'
  BY DEF ReceiverInv, TimeInv
<1> QED BY <1>1, <1>2, <1>3, <1>4, <1>5, <1>6, <1>7

LEMMA RateNowStep == IInv /\ RateNow => IInv'
<1> SUFFICES ASSUME IInv, RateNow PROVE IInv'
  OBVIOUS
<1> USE ConstantFacts, RateAssumption DEF IInv, TypeOK, RateNow, Attempts,
        control, counters, loop, slices, rcv,
        Pc, RatePc, FreePc, TailPc, BegunPc, LoopPc, LoopStart
<1>1. TypeOK'
  BY QuotaParts
<1>2. TimeInv'
  BY DEF TimeInv, SliceInv
<1>3. SliceInv'
  BY SliceTimesNow DEF SliceInv, TimeInv
<1>4. PlanInv'
  BY DEF PlanInv
<1>5. QuotaInv'
  BY DEF QuotaInv, PlanInv, TimeInv
<1>6. StopInv'
  BY DEF StopInv, TimeInv
<1>7. ReceiverInv'
  BY DEF ReceiverInv, TimeInv
<1> QED BY <1>1, <1>2, <1>3, <1>4, <1>5, <1>6, <1>7

LEMMA RateEndStep == IInv /\ RateEnd => IInv'
<1> SUFFICES ASSUME IInv, RateEnd PROVE IInv'
  OBVIOUS
<1> USE ConstantFacts, RateAssumption DEF IInv, TypeOK, RateEnd, Attempts,
        control, counters, loop, slices, rcv,
        Pc, RatePc, FreePc, TailPc, BegunPc, LoopPc, LoopStart
<1>1. TypeOK'
  BY DEF TimeInv, PlanInv
<1>2. TimeInv'
  BY DEF TimeInv, SliceInv
<1>3. SliceInv'
  BY DEF SliceInv, TimeInv
<1>4. PlanInv'
  BY PlanEnds, QuotaParts DEF PlanInv
<1>5. QuotaInv'
  BY DEF QuotaInv, PlanInv, TimeInv
<1>6. StopInv'
  BY DEF StopInv, TimeInv
<1>7. ReceiverInv'
  BY DEF ReceiverInv, TimeInv
<1> QED BY <1>1, <1>2, <1>3, <1>4, <1>5, <1>6, <1>7

LEMMA RateSliceStep == IInv /\ RateSlice => IInv'
<1> SUFFICES ASSUME IInv, RateSlice PROVE IInv'
  OBVIOUS
<1> USE ConstantFacts, RateAssumption DEF IInv, TypeOK, RateSlice, Attempts,
        control, counters, loop, slices, rcv,
        Pc, RatePc, FreePc, TailPc, BegunPc, LoopPc, LoopStart
<1>1. TypeOK'
  <2>1. CASE z < total_zeitscheiben
    BY <2>1, ShareNow
  <2>2. CASE ~(z < total_zeitscheiben)
    BY <2>2, ConstantFacts
  <2> QED BY <2>1, <2>2
<1>2. TimeInv'
  BY SliceTimesNow DEF SliceInv, TimeInv
<1>3. SliceInv'
  BY SliceTimesNow DEF SliceInv, TimeInv
<1>4. PlanInv'
  <2>1. CASE z < total_zeitscheiben
    BY <2>1, ShareNow DEF PlanInv
  <2>2. CASE ~(z < total_zeitscheiben)
    BY <2>2, ConstantFacts DEF PlanInv
  <2> QED BY <2>1, <2>2
<1>5. QuotaInv'
  <2>1. CASE z < total_zeitscheiben
    BY <2>1, ConstantFacts DEF QuotaInv
  <2>2. CASE ~(z < total_zeitscheiben)
    <3>1. pc = "slice" /\ queryrate > 0
      BY DEF PlanInv
    <3>2. pc' = "loaded" /\ Attempts' = Attempts /\ queryrate' = queryrate
      BY <2>2
    <3> QED BY <2>2, <3>1, <3>2, QuotaSpent DEF QuotaInv
  <2> QED BY <2>1, <2>2
<1>6. StopInv'
  BY DEF StopInv, TimeInv
<1>7. ReceiverInv'
  BY DEF ReceiverInv, TimeInv
<1> QED BY <1>1, <1>2, <1>3, <1>4, <1>5, <1>6, <1>7

LEMMA RateSendStep == IInv /\ RateSend => IInv'
<1> SUFFICES ASSUME IInv, RateSend PROVE IInv'
  OBVIOUS
<1> USE ConstantFacts, RateAssumption DEF IInv, TypeOK, RateSend,
        control, counters, loop, slices, rcv,
        Pc, RatePc, FreePc, TailPc, BegunPc, LoopPc, LoopStart
<1>1. TypeOK'
  BY SendTyped
<1>2. TimeInv'
  BY DEF TimeInv, SliceInv
<1>3. SliceInv'
  BY DEF SliceInv, TimeInv
<1>4. PlanInv'
  BY SendCounted, PlanNow DEF PlanInv
<1>5. QuotaInv'
  BY DEF QuotaInv, PlanInv, TimeInv
<1>6. StopInv'
  BY DEF StopInv, TimeInv
<1>7. ReceiverInv'
  BY DEF ReceiverInv, TimeInv
<1> QED BY <1>1, <1>2, <1>3, <1>4, <1>5, <1>6, <1>7

LEMMA RateSentStep == IInv /\ RateSent => IInv'
<1> SUFFICES ASSUME IInv, RateSent PROVE IInv'
  OBVIOUS
<1> USE ConstantFacts, RateAssumption DEF IInv, TypeOK, RateSent, Attempts,
        control, counters, loop, slices, rcv,
        Pc, RatePc, FreePc, TailPc, BegunPc, LoopPc, LoopStart
<1>1. TypeOK'
  BY PlanNow DEF PlanInv
<1>2. TimeInv'
  BY DEF TimeInv, SliceInv
<1>3. SliceInv'
  BY DEF SliceInv, TimeInv
<1>4. PlanInv'
  BY PlanNow DEF PlanInv
<1>5. QuotaInv'
  BY DEF QuotaInv, PlanInv, TimeInv
<1>6. StopInv'
  BY DEF StopInv, TimeInv
<1>7. ReceiverInv'
  BY DEF ReceiverInv, TimeInv
<1> QED BY <1>1, <1>2, <1>3, <1>4, <1>5, <1>6, <1>7

LEMMA RateSleepStep == IInv /\ RateSleep => IInv'
<1> SUFFICES ASSUME IInv, RateSleep PROVE IInv'
  OBVIOUS
<1> USE ConstantFacts, RateAssumption DEF IInv, TypeOK, RateSleep, Attempts,
        control, counters, loop, slices, rcv,
        Pc, RatePc, FreePc, TailPc, BegunPc, LoopPc, LoopStart
<1>1. TypeOK'
  BY DEF TimeInv, PlanInv
<1>2. TimeInv'
  BY DEF TimeInv, SliceInv
<1>3. SliceInv'
  BY SliceTimesNow DEF SliceInv, TimeInv
<1>4. PlanInv'
  BY DEF PlanInv
<1>5. QuotaInv'
  BY DEF QuotaInv, PlanInv, TimeInv
<1>6. StopInv'
  BY DEF StopInv, TimeInv
<1>7. ReceiverInv'
  BY DEF ReceiverInv, TimeInv
<1> QED BY <1>1, <1>2, <1>3, <1>4, <1>5, <1>6, <1>7

LEMMA RateCheckStep == IInv /\ RateCheck => IInv'
<1> SUFFICES ASSUME IInv, RateCheck PROVE IInv'
  OBVIOUS
<1> USE ConstantFacts, RateAssumption DEF IInv, TypeOK, RateCheck, NextSlice, Attempts,
        control, counters, loop, slices, rcv,
        Pc, RatePc, FreePc, TailPc, BegunPc, LoopPc, LoopStart
<1>1. TypeOK'
  BY DEF TimeInv, PlanInv
<1>2. TimeInv'
  BY DEF TimeInv, SliceInv
<1>3. SliceInv'
  BY DEF SliceInv, TimeInv
<1>4. PlanInv'
  BY DEF PlanInv
<1>5. QuotaInv'
  BY PlanNow DEF PlanInv, QuotaInv, StopInv
<1>6. StopInv'
  BY DEF StopInv, TimeInv
<1>7. ReceiverInv'
  BY DEF ReceiverInv, TimeInv
<1> QED BY <1>1, <1>2, <1>3, <1>4, <1>5, <1>6, <1>7

LEMMA RateCheckEndStep == IInv /\ RateCheckEnd => IInv'
<1> SUFFICES ASSUME IInv, RateCheckEnd PROVE IInv'
  OBVIOUS
<1> USE ConstantFacts, RateAssumption DEF IInv, TypeOK, RateCheckEnd, NextSlice, Attempts,
        control, counters, loop, slices, rcv,
        Pc, RatePc, FreePc, TailPc, BegunPc, LoopPc, LoopStart
<1>1. TypeOK'
  BY DEF TimeInv, PlanInv
<1>2. TimeInv'
  BY DEF TimeInv, SliceInv
<1>3. SliceInv'
  BY DEF SliceInv, TimeInv
<1>4. PlanInv'
  BY DEF PlanInv
<1>5. QuotaInv'
  BY PlanNow DEF PlanInv, QuotaInv, TimeInv
<1>6. StopInv'
  BY DEF StopInv, TimeInv
<1>7. ReceiverInv'
  BY DEF ReceiverInv, TimeInv
<1> QED BY <1>1, <1>2, <1>3, <1>4, <1>5, <1>6, <1>7

LEMMA FreeInitStep == IInv /\ FreeInit => IInv'
<1> SUFFICES ASSUME IInv, FreeInit PROVE IInv'
  OBVIOUS
<1> USE ConstantFacts, RateAssumption DEF IInv, TypeOK, FreeInit, Attempts,
        control, counters, loop, slices, rcv,
        Pc, RatePc, FreePc, TailPc, BegunPc, LoopPc, LoopStart
<1>1. TypeOK'
  BY DEF TimeInv, PlanInv
<1>2. TimeInv'
  BY DEF TimeInv, SliceInv
<1>3. SliceInv'
  BY DEF SliceInv, TimeInv
<1>4. PlanInv'
  BY DEF PlanInv
<1>5. QuotaInv'
  BY DEF QuotaInv, PlanInv, TimeInv
<1>6. StopInv'
  BY DEF StopInv, TimeInv
<1>7. ReceiverInv'
  BY DEF ReceiverInv, TimeInv
<1> QED BY <1>1, <1>2, <1>3, <1>4, <1>5, <1>6, <1>7

LEMMA FreeSelectStep == IInv /\ FreeSelect => IInv'
<1> SUFFICES ASSUME IInv, FreeSelect PROVE IInv'
  OBVIOUS
<1> USE ConstantFacts, RateAssumption DEF IInv, TypeOK, FreeSelect, Attempts,
        control, counters, loop, slices, rcv,
        Pc, RatePc, FreePc, TailPc, BegunPc, LoopPc, LoopStart
<1>1. TypeOK'
  BY DEF TimeInv, PlanInv
<1>2. TimeInv'
  BY DEF TimeInv, SliceInv
<1>3. SliceInv'
  BY DEF SliceInv, TimeInv
<1>4. PlanInv'
  BY DEF PlanInv
<1>5. QuotaInv'
  BY DEF QuotaInv, PlanInv, TimeInv
<1>6. StopInv'
  BY DEF StopInv, TimeInv
<1>7. ReceiverInv'
  BY DEF ReceiverInv, TimeInv
<1> QED BY <1>1, <1>2, <1>3, <1>4, <1>5, <1>6, <1>7

LEMMA FreeSendStep == IInv /\ FreeSend => IInv'
<1> SUFFICES ASSUME IInv, FreeSend PROVE IInv'
  OBVIOUS
<1> USE ConstantFacts, RateAssumption DEF IInv, TypeOK, FreeSend,
        control, counters, loop, slices, rcv,
        Pc, RatePc, FreePc, TailPc, BegunPc, LoopPc, LoopStart
<1>1. TypeOK'
  BY SendTyped
<1>2. TimeInv'
  BY DEF TimeInv, SliceInv
<1>3. SliceInv'
  BY DEF SliceInv, TimeInv
<1>4. PlanInv'
  BY DEF PlanInv
<1>5. QuotaInv'
  BY DEF QuotaInv, PlanInv, TimeInv
<1>6. StopInv'
  BY DEF StopInv, TimeInv
<1>7. ReceiverInv'
  BY DEF ReceiverInv, TimeInv
<1> QED BY <1>1, <1>2, <1>3, <1>4, <1>5, <1>6, <1>7

LEMMA FreeNowStep == IInv /\ FreeNow => IInv'
<1> SUFFICES ASSUME IInv, FreeNow PROVE IInv'
  OBVIOUS
<1> USE ConstantFacts, RateAssumption DEF IInv, TypeOK, FreeNow, Attempts,
        control, counters, loop, slices, rcv,
        Pc, RatePc, FreePc, TailPc, BegunPc, LoopPc, LoopStart
<1>1. TypeOK'
  BY DEF TimeInv, PlanInv
<1>2. TimeInv'
  BY DEF TimeInv, SliceInv
<1>3. SliceInv'
  BY DEF SliceInv, TimeInv
<1>4. PlanInv'
  BY DEF PlanInv
<1>5. QuotaInv'
  BY DEF QuotaInv, PlanInv, TimeInv
<1>6. StopInv'
  BY DEF StopInv, TimeInv
<1>7. ReceiverInv'
  BY DEF ReceiverInv, TimeInv
<1> QED BY <1>1, <1>2, <1>3, <1>4, <1>5, <1>6, <1>7

LEMMA FreeCheckStep == IInv /\ FreeCheck => IInv'
<1> SUFFICES ASSUME IInv, FreeCheck PROVE IInv'
  OBVIOUS
<1> USE ConstantFacts, RateAssumption DEF IInv, TypeOK, FreeCheck, Attempts,
        control, counters, loop, slices, rcv,
        Pc, RatePc, FreePc, TailPc, BegunPc, LoopPc, LoopStart
<1>1. TypeOK'
  BY DEF TimeInv, PlanInv
<1>2. TimeInv'
  BY DEF TimeInv, SliceInv
<1>3. SliceInv'
  BY DEF SliceInv, TimeInv
<1>4. PlanInv'
  BY DEF PlanInv
<1>5. QuotaInv'
  <2>1. pc' = "loaded" => flags \/ now > end
    OBVIOUS
  <2>2. flags => stopFlag
    BY DEF StopInv
  <2>3. pc' = "loaded" => stopFlag \/ clock - begin >= RuntimeTicks
    BY <2>1, <2>2 DEF TimeInv
  <2> QED BY <2>3 DEF QuotaInv, PlanInv
<1>6. StopInv'
  BY DEF StopInv, TimeInv
<1>7. ReceiverInv'
  BY DEF ReceiverInv, TimeInv
<1> QED BY <1>1, <1>2, <1>3, <1>4, <1>5, <1>6, <1>7

LEMMA TimeoutInitStep == IInv /\ TimeoutInit => IInv'
<1> SUFFICES ASSUME IInv, TimeoutInit PROVE IInv'
  OBVIOUS
<1> USE ConstantFacts, RateAssumption DEF IInv, TypeOK, TimeoutInit, Attempts,
        control, counters, loop, slices, rcv,
        Pc, RatePc, FreePc, TailPc, BegunPc, LoopPc, LoopStart
<1>1. TypeOK'
  BY DEF TimeInv, PlanInv
<1>2. TimeInv'
  BY DEF TimeInv, SliceInv
<1>3. SliceInv'
  BY DEF SliceInv, TimeInv
<1>4. PlanInv'
  BY DEF PlanInv
<1>5. QuotaInv'
  BY DEF QuotaInv, PlanInv, TimeInv
<1>6. StopInv'
  BY DEF StopInv, TimeInv
<1>7. ReceiverInv'
  BY DEF ReceiverInv, TimeInv
<1> QED BY <1>1, <1>2, <1>3, <1>4, <1>5, <1>6, <1>7

LEMMA TimeoutPollStep == IInv /\ TimeoutPoll => IInv'
<1> SUFFICES ASSUME IInv, TimeoutPoll PROVE IInv'
  OBVIOUS
<1> USE ConstantFacts, RateAssumption DEF IInv, TypeOK, TimeoutPoll, Attempts,
        control, counters, loop, slices, rcv,
        Pc, RatePc, FreePc, TailPc, BegunPc, LoopPc, LoopStart
<1>1. TypeOK'
  BY DEF TimeInv, PlanInv
<1>2. TimeInv'
  BY DEF TimeInv, SliceInv
<1>3. SliceInv'
  BY DEF SliceInv, TimeInv
<1>4. PlanInv'
  BY DEF PlanInv
<1>5. QuotaInv'
  BY DEF QuotaInv, PlanInv, TimeInv
<1>6. StopInv'
  BY DEF StopInv, TimeInv
<1>7. ReceiverInv'
  BY DEF ReceiverInv, TimeInv
<1> QED BY <1>1, <1>2, <1>3, <1>4, <1>5, <1>6, <1>7

LEMMA StutterStep == IInv /\ UNCHANGED vars => IInv'
BY DEF IInv, TypeOK, TimeInv, SliceInv, PlanInv, QuotaInv, StopInv, ReceiverInv,
       LoopStart, Attempts, vars, control, counters, loop, slices, rcv

LEMMA ThreadStep == IInv /\ Thread => IInv'
BY RunResetStep, RunBeginStep, RunDurationStep, RunStopReceiverStep, RunJoinReceiverStep,
   RunExitStep, RateNowStep, RateEndStep, RateSliceStep, RateSendStep, RateSentStep,
   RateSleepStep, RateCheckStep, RateCheckEndStep, FreeInitStep, FreeSelectStep,
   FreeSendStep, FreeNowStep, FreeCheckStep, TimeoutInitStep, TimeoutPollStep DEF Thread

LEMMA NextStep == IInv /\ [Next]_vars => IInv'
<1> SUFFICES ASSUME IInv, [Next]_vars PROVE IInv'
  OBVIOUS
<1>1. CASE Start \/ RequestStop \/ Tick \/ ReceiverStartUp \/ ReceiverExit
  BY <1>1, StartStep, RequestStopStep, TickStep, ReceiverStartUpStep, ReceiverExitStep
<1>2. CASE Thread
  BY <1>2, ThreadStep
<1>3. CASE Finished
  BY <1>3, StutterStep DEF Finished
<1>4. CASE UNCHANGED vars
  BY <1>4, StutterStep
<1> QED BY <1>1, <1>2, <1>3, <1>4 DEF Next

\* The inductive invariant holds in every reachable state of the thread.
THEOREM Invariance == Spec => []IInv
BY InitIInv, NextStep, PTL DEF Spec

-----------------------------------------------------------------------------
(* The properties                                                          *)

\* Type correctness; in particular queries_rest never becomes negative and the
\* clock readings that are subtracted never give a negative duration.
THEOREM TypeCorrect == Spec => []TypeOK
<1>1. IInv => TypeOK
  BY DEF IInv
<1> QED BY <1>1, Invariance, PTL

\* runWithRateLimit follows the even plan at every slice boundary, for every
\* rate, runtime and slice length.
THEOREM FollowsPlan == Spec => []OnPlan
<1>1. IInv => OnPlan
  <2> SUFFICES ASSUME IInv, pc = "slice"
               PROVE  /\ Attempts = Plan(queryrate, z)
                      /\ queries_rest = Queries(queryrate) - Attempts
    BY DEF OnPlan
  <2> QED BY DEF IInv, PlanInv
<1> QED BY <1>1, Invariance, PTL

\* The number of slice ends that have passed.
LEMMA SlicesElapsed ==
  ASSUME NEW b \in Nat, NEW c \in Nat, NEW k \in Nat, SliceTime(b, k) <= c
  PROVE  /\ (c - b) \div Zeitscheibe \in Nat
         /\ k <= (c - b) \div Zeitscheibe
<1> DEFINE d == c - b
<1>1. Zeitscheibe \in Nat /\ Zeitscheibe >= 1
  BY ConstantFacts
<1>2. k * Zeitscheibe \in Nat /\ k * Zeitscheibe <= d /\ d \in Nat
  BY <1>1 DEF SliceTime
<1> HIDE DEF d
<1>3. d \div Zeitscheibe \in Nat /\ d < (d \div Zeitscheibe + 1) * Zeitscheibe
  BY <1>1, <1>2
<1>4. k * Zeitscheibe < (d \div Zeitscheibe + 1) * Zeitscheibe
  BY <1>1, <1>2, <1>3
<1>5. k < d \div Zeitscheibe + 1
  BY <1>1, <1>3, <1>4
<1> QED BY <1>3, <1>5 DEF d

\* However the thread stalls and catches up, it never sends before its time.
LEMMA NeverAheadNow == IInv => NeverAheadOfPlan
<1> DEFINE over == (clock - begin) \div Zeitscheibe
<1> SUFFICES ASSUME IInv, pc \in RatePc \ {"rate_now", "rate_end"}
             PROVE  Attempts <= Plan(queryrate, over + 1)
  BY DEF NeverAheadOfPlan
<1>1. TypeOK /\ queryrate \in Nat /\ z \in Nat /\ begin \in Nat /\ clock \in Nat
  BY DEF IInv, TypeOK
<1>2. SliceTime(begin, z) <= clock
  BY <1>1, SliceTimesNow, ConstantFacts DEF IInv, SliceInv, RatePc, TypeOK
<1>3. over \in Nat /\ z <= over
  BY <1>1, <1>2, SlicesElapsed
<1> HIDE DEF over
<1>4. /\ Plan(queryrate, z) \in Nat /\ Plan(queryrate, z + 1) \in Nat
      /\ Plan(queryrate, z) <= Plan(queryrate, z + 1)
      /\ Plan(queryrate, over + 1) \in Nat
      /\ Plan(queryrate, z + 1) <= Plan(queryrate, over + 1)
  <2>1. z + 1 \in Nat /\ over + 1 \in Nat /\ z <= z + 1 /\ z + 1 <= over + 1
    BY <1>1, <1>3
  <2>2. /\ Plan(queryrate, z) \in Nat /\ Plan(queryrate, z + 1) \in Nat
        /\ Plan(queryrate, z) <= Plan(queryrate, z + 1)
    BY <1>1, <2>1, PlanMonotone
  <2>3. /\ Plan(queryrate, over + 1) \in Nat
        /\ Plan(queryrate, z + 1) <= Plan(queryrate, over + 1)
    BY <1>1, <2>1, PlanMonotone
  <2> QED BY <2>2, <2>3
<1>5. Attempts <= Plan(queryrate, z + 1)
  <2> DEFINE P == Plan(queryrate, z)
             R == Plan(queryrate, z + 1)
  <2>1. PlanInv /\ i \in Nat
    BY DEF IInv, TypeOK
  <2>2. CASE pc = "slice"
    <3>1. Attempts = P
      BY <2>1, <2>2 DEF PlanInv
    <3> QED BY <1>4, <3>1
  <2>3. CASE pc = "send"
    <3>1. Attempts = P + i /\ i <= queries_pro_zeitscheibe /\ queries_pro_zeitscheibe = R - P
      BY <2>1, <2>3 DEF PlanInv
    <3> HIDE DEF P, R
    <3>2. P \in Nat /\ R \in Nat
      BY <1>4 DEF P, R
    <3>3. Attempts <= R
      BY <2>1, <3>1, <3>2
    <3> QED BY <3>3 DEF R
  <2>4. CASE pc \in {"sleep", "check", "check_end"}
    <3>1. Attempts = R
      BY <2>1, <2>4 DEF PlanInv
    <3> QED BY <1>4, <3>1
  <2> QED BY <2>2, <2>3, <2>4 DEF RatePc
<1>6. Attempts \in Nat
  BY <1>1 DEF TypeOK, Attempts
<1> QED BY <1>4, <1>5, <1>6

\* No behaviour ever runs ahead of the plan.
THEOREM NeverAhead == Spec => []NeverAheadOfPlan
BY NeverAheadNow, Invariance, PTL

\* A rate-limited level attempts its whole quota unless it was interrupted or
\* ran out of time.
THEOREM QuotaMet == Spec => []QuotaOrReason
<1>1. IInv => QuotaOrReason
  BY DEF IInv, QuotaInv, QuotaOrReason, TailPc
<1> QED BY <1>1, Invariance, PTL

\* Every loop reacts to a stop within the check interval.
THEOREM StopIsHonoured == Spec => []StopHonoured
<1>1. IInv => StopHonoured
  BY DEF IInv, StopInv, StopHonoured
<1> QED BY <1>1, Invariance, PTL

\* The results are never divided by a duration of 0.
THEOREM PositiveDuration == Spec => []DurationPositive
<1>1. IInv => DurationPositive
  BY DEF IInv, TimeInv, DurationPositive
<1> QED BY <1>1, Invariance, PTL

\* No receiver survives its level.
THEOREM ReceiverJoined == Spec => []NoOrphanReceiver
<1>1. IInv => NoOrphanReceiver
  BY DEF IInv, ReceiverInv, NoOrphanReceiver
<1> QED BY <1>1, Invariance, PTL

-----------------------------------------------------------------------------
(* The refinement: the mapping of SenderRefinement turns each action of    *)
(* the thread into one step of a level or none.  The steps that matter are *)
(* those that send a packet, which must keep to the quota and to the plan, *)
(* and the one that ends the load: both follow from IInv.                  *)

\* The plan of LoadPhase is that of the thread's slices.
LEMMA PlansAgree ==
    /\ Level!Quota = Queries(queryrate)
    /\ \A k \in Nat : Level!Planned(k) = Plan(queryrate, k)
    /\ Level!Allowed = Plan(queryrate, elapsed \div Zeitscheibe + 1)
BY DEF Level!Quota, Level!Planned, Level!Allowed, Queries, Plan, total_zeitscheiben

\* A packet of a slice is one that the quota and the time still allow.
LEMMA SendAllowed ==
    IInv /\ NeverAheadOfPlan' /\ RateSend =>
        Attempts < Level!Quota /\ Attempts < Level!Allowed
<1> SUFFICES ASSUME IInv, NeverAheadOfPlan', RateSend
             PROVE  /\ Attempts < Queries(queryrate)
                    /\ Attempts < Plan(queryrate, elapsed \div Zeitscheibe + 1)
  BY PlansAgree
<1>1. Attempts \in Nat /\ Attempts' = Attempts + 1
  <2>1. Attempts \in Nat
    BY DEF IInv, TypeOK, Attempts
  <2> QED BY <2>1, SendCounted DEF RateSend, IInv
<1>2. Attempts < Queries(queryrate)
  <2> DEFINE P == Plan(queryrate, z)
             R == Plan(queryrate, z + 1)
  <2>1. /\ Attempts = P + i /\ queries_pro_zeitscheibe = R - P /\ i \in Nat
        /\ i < queries_pro_zeitscheibe /\ z < total_zeitscheiben
    BY DEF IInv, TypeOK, PlanInv, RateSend
  <2>2. P \in Nat /\ R \in Nat /\ R <= Queries(queryrate) /\ Queries(queryrate) \in Nat
    BY <2>1, PlanNow DEF IInv
  <2> HIDE DEF P, R
  <2> QED BY <2>1, <2>2
<1>3. Attempts' <= Plan(queryrate', ((clock - begin) \div Zeitscheibe + 1))
  <2>1. pc' = "send" /\ clock' = clock /\ begin' = begin
    BY DEF RateSend
  <2> QED BY <2>1 DEF NeverAheadOfPlan, RatePc
<1>4. elapsed = clock - begin /\ queryrate' = queryrate
  BY DEF RateSend, elapsed, phase, TailPc, control
<1>5. Attempts + 1 <= Plan(queryrate, elapsed \div Zeitscheibe + 1)
  BY <1>1, <1>3, <1>4
<1>6. elapsed \div Zeitscheibe \in Nat
  <2>1. clock - begin \in Nat
    BY DEF IInv, TypeOK, TimeInv, BegunPc, Pc, RatePc, RateSend
  <2>2. Zeitscheibe \in Nat /\ Zeitscheibe >= 1
    BY ConstantFacts
  <2> QED BY <1>4, <2>1, <2>2
<1>7. Plan(queryrate, elapsed \div Zeitscheibe + 1) \in Nat
  <2> DEFINE k == elapsed \div Zeitscheibe + 1
  <2>1. k \in Nat /\ k <= k /\ queryrate \in Nat
    BY <1>6 DEF IInv, TypeOK
  <2> HIDE DEF k
  <2>2. Plan(queryrate, k) \in Nat
    BY <2>1, PlanMonotone
  <2> QED BY <2>2 DEF k
<1> QED BY <1>1, <1>2, <1>5, <1>7

\* Steps that no level sees: within the load, or within the wait for answers.
LEMMA HiddenStep ==
    /\ pc # "idle" /\ pc' # "idle" /\ pc # "run" /\ pc' # "run"
    /\ pc # "begin" /\ pc' # "begin"
    /\ pc \in TailPc <=> pc' \in TailPc
    /\ UNCHANGED <<clock, control, counters, duration, begin>>
    => UNCHANGED Level!vars
BY DEF Level!vars, phase, elapsed, control, counters, Attempts

\* Every step of the program is a step of the level or leaves it alone.
LEMMA StepImplements ==
    IInv /\ NeverAheadOfPlan' /\ [Next]_vars => [Level!Next]_Level!vars
<1> SUFFICES ASSUME IInv, NeverAheadOfPlan', [Next]_vars PROVE [Level!Next]_Level!vars
  OBVIOUS
<1> DEFINE Hidden == UNCHANGED Level!vars
<1>1. CASE UNCHANGED vars
  <2>1. UNCHANGED <<pc, clock, control, counters, duration, begin>>
    BY <1>1 DEF vars
  <2> QED BY <2>1 DEF Level!vars, phase, elapsed, control, counters, Attempts
<1>2. CASE Start
  <2>1. Level!Configure
    BY <1>2 DEF Start, Level!Configure, phase, elapsed, Attempts, counters, TailPc
  <2> QED BY <2>1 DEF Level!Next
<1>3. CASE RequestStop
  <2>1. Level!Interrupt
    BY <1>3 DEF RequestStop, Level!Interrupt, phase, elapsed, Attempts, counters, TailPc
  <2> QED BY <2>1 DEF Level!Next
<1>4. CASE Tick
  <2>1. CASE phase = "load" /\ pc # "begin"
    <3>1. elapsed = clock - begin /\ elapsed' = (clock + 1) - begin /\ phase' = "load"
      <4>1. pc' = pc /\ clock' = clock + 1 /\ begin' = begin
        BY <1>4 DEF Tick
      <4>2. phase' = phase
        BY <4>1 DEF phase, TailPc
      <4>3. elapsed = clock - begin
        BY <2>1 DEF elapsed
      <4>4. elapsed' = clock' - begin'
        BY <2>1, <4>1, <4>2 DEF elapsed
      <4> QED BY <2>1, <4>1, <4>2, <4>3, <4>4
    <3>2. elapsed \in Nat
      BY <2>1, <3>1 DEF IInv, TypeOK, TimeInv, BegunPc, phase
    <3>3. elapsed' \in Nat /\ elapsed' >= elapsed
      BY <3>1, <3>2 DEF IInv, TypeOK
    <3>4. UNCHANGED <<queryrate, Attempts, stopFlag>>
      BY <1>4 DEF Tick, control, counters, Attempts
    <3>5. Level!TimePasses
      BY <2>1, <3>1, <3>3, <3>4 DEF Level!TimePasses
    <3> QED BY <3>5 DEF Level!Next
  <2>2. CASE ~(phase = "load" /\ pc # "begin")
    BY <1>4, <2>2 DEF Tick, Level!vars, phase, elapsed, control, counters, Attempts
  <2> QED BY <2>1, <2>2
<1>5. CASE ReceiverStartUp \/ ReceiverExit \/ Finished
  BY <1>5 DEF ReceiverStartUp, ReceiverExit, Finished, vars, Level!vars, phase, elapsed,
              control, counters, Attempts
<1>6. CASE RunReset
  <2>1. Level!Begin
    BY <1>6 DEF RunReset, Level!Begin, phase, elapsed, Attempts, control, TailPc
  <2> QED BY <2>1 DEF Level!Next
<1>7. CASE RunBegin
  <2>1. elapsed = 0 /\ elapsed' = 0
    BY <1>7 DEF RunBegin, IInv, TypeOK, elapsed, phase, TailPc
  <2> QED BY <1>7, <2>1 DEF RunBegin, Level!vars, phase, TailPc, control, counters, Attempts
<1>8. CASE RunDuration
  <2>1. phase = "load" /\ phase' = "drain" /\ elapsed = clock - begin /\ elapsed' = clock - begin
    BY <1>8 DEF RunDuration, phase, elapsed, TailPc
  <2>2. elapsed > 0
    BY <1>8, <2>1 DEF RunDuration, IInv, TimeInv, TypeOK
  <2>3. (queryrate > 0 /\ Attempts = Level!Quota) \/ elapsed >= RuntimeTicks \/ stopFlag
    BY <1>8, <2>1, PlansAgree DEF RunDuration, IInv, QuotaInv
  <2>4. UNCHANGED <<queryrate, Attempts, stopFlag>>
    BY <1>8 DEF RunDuration, control, counters, Attempts
  <2>5. Level!Loaded
    BY <2>1, <2>2, <2>3, <2>4 DEF Level!Loaded
  <2> QED BY <2>5 DEF Level!Next
<1>9. CASE RunExit
  <2>1. Level!Drained
    BY <1>9 DEF RunExit, Level!Drained, phase, elapsed, Attempts, counters, TailPc
  <2> QED BY <2>1 DEF Level!Next
<1>10. CASE RateSend
  <2>1. phase = "load" /\ phase' = "load" /\ elapsed' = elapsed
    BY <1>10 DEF RateSend, phase, elapsed, TailPc
  <2>2. Attempts' = Attempts + 1 /\ UNCHANGED <<queryrate, stopFlag>>
    BY <1>10, SendCounted DEF RateSend, IInv, control
  <2>3. Level!Send
    BY <1>10, <2>1, <2>2, SendAllowed DEF Level!Send
  <2> QED BY <2>3 DEF Level!Next
<1>11. CASE FreeSend
  <2>1. phase = "load" /\ phase' = "load" /\ elapsed' = elapsed
    BY <1>11 DEF FreeSend, phase, elapsed, TailPc
  <2>2. Attempts' = Attempts + 1 /\ UNCHANGED <<queryrate, stopFlag>>
    BY <1>11, SendCounted DEF FreeSend, IInv, control
  <2>3. ~(queryrate > 0)
    BY <1>11 DEF FreeSend, IInv, PlanInv, FreePc, TypeOK
  <2>4. Level!Send
    BY <2>1, <2>2, <2>3 DEF Level!Send
  <2> QED BY <2>4 DEF Level!Next
<1>12. CASE RateNow \/ RateEnd \/ RateSlice \/ RateSent \/ RateSleep \/ RateCheck \/ RateCheckEnd
  BY <1>12, HiddenStep DEF RateNow, RateEnd, RateSlice, RateSent, RateSleep, RateCheck,
                           RateCheckEnd, NextSlice, TailPc
<1>13. CASE FreeInit \/ FreeSelect \/ FreeNow \/ FreeCheck
  BY <1>13, HiddenStep DEF FreeInit, FreeSelect, FreeNow, FreeCheck, TailPc
<1>14. CASE TimeoutInit \/ TimeoutPoll \/ RunStopReceiver \/ RunJoinReceiver
  BY <1>14, HiddenStep DEF TimeoutInit, TimeoutPoll, RunStopReceiver, RunJoinReceiver, TailPc
<1> QED
  BY <1>1, <1>2, <1>3, <1>4, <1>5, <1>6, <1>7, <1>8, <1>9, <1>10, <1>11, <1>12, <1>13, <1>14
  DEF Next, Thread

\* A sender thread implements the abstract load level.
THEOREM Refinement == Spec => ImplementsLoadPhase
<1>1. Init => Level!Init
  BY DEF Init, Level!Init, phase, elapsed, Attempts, TailPc
<1>2. IInv /\ NeverAheadOfPlan' /\ [Next]_vars => [Level!Next]_Level!vars
  BY StepImplements
<1> QED BY <1>1, <1>2, Invariance, NeverAhead, PTL DEF Spec, Level!Spec, ImplementsLoadPhase

=============================================================================
