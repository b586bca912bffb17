-------------------------- MODULE EchoSessionProofs --------------------------
(***************************************************************************)
(* For any number of threads, any load levels, any round trip times and    *)
(* any losses and duplicates of the network, the safety properties of      *)
(* EchoSession hold.                                                       *)
(***************************************************************************)
EXTENDS EchoSession, SumTheorems

-----------------------------------------------------------------------------
(* The inductive invariant                                                 *)

InLevel == mpc \in {"settle", "wait", "stopping", "results", "interrupted"}

\* A counter, as far as it belongs to this level: a thread that has not begun
\* still has those of the level before.
Live(f) == [t \in Threads |-> IF tpc[t] = "born" THEN 0 ELSE f[t]]

\* Answers of this level that are still to come.
Coming == [t \in Threads |-> underway[t][level]]

MainType ==
    /\ mpc \in {"ready", "share", "settle", "wait", "stopping", "results", "interrupted", "over"}
    /\ level \in 0..Len(QueryRates)
    /\ InLevel \/ mpc = "share" => level \in Levels
    /\ stopFlag \in BOOLEAN
    /\ queryrate \in [Threads -> Nat]
    /\ result.packages_lost \in Int
    /\ previous_counter \in [send : Nat, received : Nat]
    /\ unreportedSent \in Int /\ unreportedRead \in Int /\ overdue \in Nat
    /\ duplicates \in Nat

ThreadType ==
    /\ tpc \in [Threads -> {"ended", "born", "load", "join"}]
    /\ rpc \in [Threads -> {"ended", "born", "loop"}]
    /\ rstop \in [Threads -> BOOLEAN]
    /\ counter_send \in [Threads -> Nat] /\ counter_received \in [Threads -> Nat]
    /\ rtt_total \in [Threads -> Nat]
    /\ rtt_min \in [Threads -> Nat] /\ rtt_max \in [Threads -> Nat]
    /\ heard \in [Threads -> SUBSET (Nat \ {0})]
    /\ underway \in [Threads -> [Levels -> Nat]]

\* Where a thread and its receiver can be at the same time.
Joined ==
    \A t \in Threads :
        /\ tpc[t] \in {"ended", "born"} => rpc[t] = "ended" /\ ~rstop[t]
        /\ tpc[t] = "load" => rpc[t] \in {"born", "loop"} /\ ~rstop[t]
        /\ tpc[t] = "join" => rpc[t] \in {"loop", "ended"} /\ rstop[t]

\* What main knows of the threads.
Phases ==
    /\ mpc \notin {"settle", "wait", "stopping"} => \A t \in Threads : tpc[t] = "ended"
    /\ mpc \in {"wait", "stopping"} =>
           \A t \in Threads : tpc[t] # "born" /\ rpc[t] # "born"

\* The rate is distributed from the first thread on; q * k and (q + 1) * k bound
\* what is left for the last k threads.
Shared == [t \in Threads |-> IF t < next_thread THEN queryrate[t] ELSE 0]

Sharing ==
    LET q == QueryRates[level] \div ThreadCount
        k == ThreadCount - next_thread + 1
    IN  InLevel \/ mpc = "share" =>
            /\ next_thread \in 1..(ThreadCount + 1)
            /\ InLevel => next_thread = ThreadCount + 1
            /\ queries_rest \in Nat
            /\ q * k <= queries_rest /\ queries_rest <= (q + 1) * k
            /\ Counted(Shared) + queries_rest = QueryRates[level]
            /\ \A t \in Threads : t < next_thread => queryrate[t] - q \in {0, 1}

\* What is sent and read in this level is in the counters, and nothing is left of
\* another one.
Books ==
    /\ unreportedSent = IF InLevel THEN Counted(Live(counter_send)) ELSE 0
    /\ unreportedRead = IF InLevel THEN Counted(Live(counter_received)) ELSE 0
    /\ \A t \in Threads : rpc[t] = "born" => counter_received[t] = 0

\* No datagram of a level is under way before its thread sends one.
NothingEarly ==
    \A t \in Threads :
        /\ \A l \in Levels : l > level => underway[t][l] = 0
        /\ mpc = "share" \/ tpc[t] = "born" => underway[t][level] = 0

\* An answer that was read, or is still to come, was sent in this level, or is a
\* duplicate, or is overdue.
Balance ==
    /\ InLevel =>
           Counted(Live(counter_received)) + Counted(Coming)
               <= Counted(Live(counter_send)) + duplicates + overdue
    /\ LostExplained

\* The counters of the last status line.
Lines == (mpc \in {"share", "settle"} => previous_counter = NoCounter) /\ StatusMonotone

\* The statistics of one receiver.
Measured(n, total, least, greatest, S) ==
    IF n = 0 THEN total = 0 /\ least = 0 /\ greatest = 0 /\ S = {}
    ELSE /\ least \in S /\ greatest \in S
         /\ \A h \in S : least <= h /\ h <= greatest
         /\ least * n <= total /\ total <= greatest * n

Statistics ==
    \A t \in Threads :
        Measured(counter_received[t], rtt_total[t], rtt_min[t], rtt_max[t], heard[t])

Control == MainType /\ ThreadType /\ Joined /\ Phases

IInv ==
    Control /\ Sharing /\ Books /\ NothingEarly /\ Balance /\ Lines /\ Statistics

-----------------------------------------------------------------------------
(* Facts about the session's sums                                          *)

LEMMA ThreadsFinite == IsFiniteSet(Threads) /\ Threads \subseteq Nat /\ ThreadCount \in Nat \ {0}
BY SessionAssumption, FS_Interval DEF Threads

LEMMA CountedNat == ASSUME NEW f \in [Threads -> Nat] PROVE Counted(f) \in Nat
BY ThreadsFinite, SumNat DEF Counted

LEMMA CountedZero == ASSUME NEW f, \A t \in Threads : f[t] = 0 PROVE Counted(f) = 0
BY ThreadsFinite, SumZero DEF Counted

LEMMA CountedSame ==
    ASSUME NEW f \in [Threads -> Nat], NEW g, \A t \in Threads : f[t] = g[t]
    PROVE  Counted(f) = Counted(g)
<1>1. \A t \in Threads : f[t] \in Int /\ f[t] = g[t]
  OBVIOUS
<1> QED BY <1>1, ThreadsFinite, SumSame DEF Counted

LEMMA CountedMonotone ==
    ASSUME NEW f \in [Threads -> Nat], NEW g \in [Threads -> Nat],
           \A t \in Threads : f[t] <= g[t]
    PROVE  Counted(f) <= Counted(g)
<1>1. \A t \in Threads : f[t] \in Int /\ g[t] \in Int /\ f[t] <= g[t]
  OBVIOUS
<1> QED BY <1>1, ThreadsFinite, SumMonotone DEF Counted

LEMMA CountedChange ==
    ASSUME NEW f \in [Threads -> Nat], NEW g \in [Threads -> Nat], NEW t \in Threads,
           \A u \in Threads : u # t => g[u] = f[u]
    PROVE  Counted(g) = Counted(f) + g[t] - f[t]
<1>1. \A u \in Threads : f[u] \in Int /\ g[u] \in Int
  OBVIOUS
<1>2. SumFunctionOnSet(g, Threads) = SumFunctionOnSet(f, Threads) + g[t] - f[t]
  <2> DEFINE S == Threads
  <2>1. IsFiniteSet(S) /\ t \in S
    BY ThreadsFinite
  <2>2. \A u \in S : f[u] \in Int /\ g[u] \in Int
    BY <1>1
  <2>3. \A u \in S : u # t => g[u] = f[u]
    OBVIOUS
  <2> HIDE DEF S
  <2>4. SumFunctionOnSet(g, S) = SumFunctionOnSet(f, S) + g[t] - f[t]
    BY ONLY <2>1, <2>2, <2>3, SumChange
  <2> QED BY <2>4 DEF S
<1> QED BY <1>2 DEF Counted

LEMMA LiveNat == ASSUME NEW f \in [Threads -> Nat] PROVE Live(f) \in [Threads -> Nat]
BY DEF Live

\* A thread that takes its k-th part of what is left leaves enough, and not too
\* much, for the others.
LEMMA PartOfRest ==
    ASSUME NEW q \in Nat, NEW k \in Nat \ {0}, NEW rest \in Nat,
           q * k <= rest, rest <= (q + 1) * k
    PROVE  /\ rest \div k \in Nat /\ rest \div k - q \in {0, 1} /\ rest \div k <= rest
           /\ q * (k - 1) <= rest - (rest \div k)
           /\ rest - (rest \div k) <= (q + 1) * (k - 1)
<1> DEFINE s == rest \div k
           m == rest % k
<1>1. s \in Int /\ m \in 0..(k - 1) /\ rest = k * s + m
  OBVIOUS
<1>2. q * k \in Int /\ (q + 1) * k = q * k + k /\ q * (k - 1) = q * k - q
      /\ (q + 1) * (k - 1) = q * k + k - q - 1
  OBVIOUS
<1> HIDE DEF s, m
<1>3. s >= q
  <2> SUFFICES ASSUME s <= q - 1 PROVE FALSE
    BY <1>1
  <2>1. k * s <= k * (q - 1)
    BY <1>1
  <2> QED BY <1>1, <1>2, <2>1
<1>4. s <= q + 1
  <2> SUFFICES ASSUME s >= q + 2 PROVE FALSE
    BY <1>1
  <2>1. k * s >= k * (q + 2)
    BY <1>1
  <2> QED BY <1>1, <1>2, <2>1
<1>5. s = q \/ s = q + 1
  BY <1>1, <1>3, <1>4
<1>6. CASE s = q
  <2>1. rest = q * k + m
    BY <1>1, <1>6
  <2>2. s <= q * k
    BY <1>1, <1>6
  <2> QED BY <1>1, <1>2, <1>6, <2>1, <2>2 DEF s
<1>7. CASE s = q + 1
  <2>1. rest = q * k + k + m
    BY <1>1, <1>2, <1>7
  <2>2. q <= q * k
    BY <1>1
  <2> QED BY <1>1, <1>2, <1>7, <2>1, <2>2 DEF s
<1> QED BY <1>5, <1>6, <1>7

-----------------------------------------------------------------------------
(* Initially                                                               *)

LEMMA InitIInv == Init => IInv
<1> SUFFICES ASSUME Init PROVE IInv
  OBVIOUS
<1> USE DEF Init, Everywhere, InLevel
<1>1. Control
  <2>1. MainType
    <3>1. level \in 0..Len(QueryRates)
      BY SessionAssumption
    <3>2. queryrate \in [Threads -> Nat]
      OBVIOUS
    <3>3. result.packages_lost \in Int
      OBVIOUS
    <3>4. previous_counter \in [send : Nat, received : Nat]
      BY DEF NoCounter
    <3> QED BY <3>1, <3>2, <3>3, <3>4 DEF MainType
  <2>2. ThreadType
    BY DEF ThreadType
  <2> QED BY <2>1, <2>2 DEF Control, Joined, Phases
<1>2. Sharing /\ Books /\ Lines
  BY DEF Sharing, Books, Lines, StatusMonotone
<1>3. NothingEarly /\ Statistics
  BY DEF NothingEarly, Statistics, Measured
<1>4. Balance
  BY DEF Balance, LostExplained
<1> QED BY <1>1, <1>2, <1>3, <1>4 DEF IInv

-----------------------------------------------------------------------------
(* The rate is shared                                                      *)

\* A turn of the loop in UDPSender::run that distributes the rate.
LEMMA ShareDivides ==
    ASSUME Control, Sharing, Share
    PROVE  queries_thread \in Nat /\ Sharing'
<1> DEFINE R == QueryRates[level]
           q == R \div ThreadCount
           k == ThreadCount - next_thread + 1
           n == next_thread
<1>1. /\ level \in Levels /\ mpc = "share" /\ ~InLevel
      /\ queryrate \in [Threads -> Nat]
  BY DEF Control, MainType, Share, InLevel
<1>2. R \in Nat /\ q \in Nat
  <2>1. R \in Nat
    BY <1>1, SessionAssumption DEF Levels
  <2> HIDE DEF R
  <2> QED BY <2>1, ThreadsFinite
<1>3. /\ n \in 1..(ThreadCount + 1)
      /\ queries_rest \in Nat
      /\ q * k <= queries_rest /\ queries_rest <= (q + 1) * k
      /\ Counted(Shared) + queries_rest = R
      /\ \A t \in Threads : t < n => queryrate[t] - q \in {0, 1}
  BY <1>1 DEF Sharing
<1>4. /\ n \in Threads /\ k \in Nat \ {0} /\ threads_rest = k
      /\ n + 1 \in 1..(ThreadCount + 1) /\ ThreadCount - (n + 1) + 1 = k - 1
  BY <1>3, ThreadsFinite DEF Share, Threads, threads_rest
<1> DEFINE s == queries_rest \div k
<1>5. queries_thread = s
  BY <1>4 DEF queries_thread
<1>6. /\ s \in Nat /\ s - q \in {0, 1} /\ s <= queries_rest
      /\ q * (k - 1) <= queries_rest - s /\ queries_rest - s <= (q + 1) * (k - 1)
  <2> HIDE DEF q, k
  <2> QED BY <1>2, <1>3, <1>4, PartOfRest
<1>7. /\ queryrate' = [queryrate EXCEPT ![n] = s]
      /\ queries_rest' = queries_rest - s /\ next_thread' = n + 1
      /\ level' = level /\ mpc' = mpc
  BY <1>5 DEF Share
<1>8. Counted(Shared)' = Counted(Shared) + s
  <2>1. Shared \in [Threads -> Nat]
    BY <1>1 DEF Shared
  <2>2. Shared' = [t \in Threads |-> IF t < n + 1 THEN queryrate'[t] ELSE 0]
    BY <1>7 DEF Shared
  <2>3. Shared' \in [Threads -> Nat]
    <3> HIDE DEF s
    <3> QED BY <1>1, <1>6, <1>7, <2>2
  <2>4. \A u \in Threads : u # n => Shared'[u] = Shared[u]
    <3> HIDE DEF s
    <3> QED BY <1>1, <1>4, <1>7, <2>2, ThreadsFinite DEF Shared
  <2>5. Shared[n] = 0 /\ Shared'[n] = s
    <3> HIDE DEF s
    <3> QED BY <1>1, <1>4, <1>7, <2>2, ThreadsFinite DEF Shared
  <2>6. Counted(Shared') = Counted(Shared) + Shared'[n] - Shared[n]
    BY <1>4, <2>1, <2>3, <2>4, CountedChange
  <2>7. Counted(Shared) \in Nat
    BY <2>1, CountedNat
  <2> HIDE DEF s
  <2> QED BY <1>6, <2>5, <2>6, <2>7
<1>9. \A t \in Threads : t < n + 1 => queryrate'[t] - q \in {0, 1}
  <2> HIDE DEF s, q
  <2> QED BY <1>1, <1>3, <1>4, <1>6, <1>7, ThreadsFinite
<1>10. Counted(Shared)' + queries_rest' = R
  <2>1. Counted(Shared) \in Nat
    BY <1>1, CountedNat, Shared \in [Threads -> Nat] DEF Shared
  <2> HIDE DEF s, R
  <2> QED BY <1>3, <1>6, <1>7, <1>8, <2>1
<1>11. InLevel' = FALSE
  BY <1>1, <1>7 DEF InLevel
<1> HIDE DEF s
<1>12. Sharing'
  BY <1>4, <1>6, <1>7, <1>9, <1>10, <1>11 DEF Sharing
<1> QED BY <1>5, <1>6, <1>12

\* A level starts with the whole rate.
LEMMA StartLevelShares == ASSUME Control, StartLevel PROVE Sharing'
<1> DEFINE R == QueryRates[level + 1]
<1>1. /\ mpc' = "share" /\ level' = level + 1 /\ next_thread' = 1 /\ queries_rest' = R
  BY DEF StartLevel
<1>2. R \in Nat /\ level + 1 \in Levels
  BY SessionAssumption DEF Control, MainType, StartLevel, Levels
<1> HIDE DEF R
<1>3. /\ (R \div ThreadCount) * ThreadCount <= R
      /\ R <= (R \div ThreadCount + 1) * ThreadCount
      /\ R \div ThreadCount \in Nat
  BY <1>2, ThreadsFinite
<1>4. Counted(Shared)' = 0
  <2>1. \A t \in Threads : Shared'[t] = 0
    BY <1>1, ThreadsFinite DEF Shared, Threads
  <2>2. Counted(Shared') = 0
    BY <2>1, CountedZero
  <2> QED BY <2>2
<1> QED BY <1>1, <1>2, <1>3, <1>4, ThreadsFinite DEF Sharing, InLevel, R, Threads

LEMMA NextKeepsSharing == IInv /\ [Next]_vars => Sharing'
<1> SUFFICES ASSUME IInv, [Next]_vars PROVE Sharing'
  OBVIOUS
<1>1. CASE StartLevel
  BY <1>1, StartLevelShares DEF IInv
<1>2. CASE Share
  BY <1>2, ShareDivides DEF IInv
<1>3. CASE StartThreads
  <2>1. next_thread = ThreadCount + 1
    BY <1>3, ThreadsFinite DEF StartThreads, IInv, Sharing
  <2>2. Counted(Shared)' = Counted(Shared)
    BY <1>3 DEF StartThreads, share, Shared
  <2> QED BY <1>3, <2>1, <2>2 DEF StartThreads, share, IInv, Sharing, InLevel
<1>4. CASE \/ Settle \/ StatusLine \/ LevelOver \/ Stopped \/ GetResults \/ AllLevelsDone
           \/ SignalHandler \/ Sleeps \/ Over \/ UNCHANGED vars
           \/ \E t \in Threads : Thread(t) \/ Traffic(t)
  <2>1. UNCHANGED <<share, level>> /\ (InLevel' \/ mpc' = "share" => mpc' = mpc \/ InLevel)
    BY <1>4 DEF Settle, MainTo, StatusLine, LevelOver, Stopped, GetResults, AllLevelsDone,
        SignalHandler, Sleeps, Over, Thread, Traffic, RunReset, StopReceiver, RunExit,
        ReceiverReset, ReceiverEnds, SendPacket, Receive, Duplicate, mainKeeps, vars, InLevel
  <2>2. Counted(Shared)' = Counted(Shared)
    BY <2>1 DEF share, Shared
  <2> QED BY <2>1, <2>2 DEF share, IInv, Sharing, InLevel
<1> QED BY <1>1, <1>2, <1>3, <1>4 DEF Next, Main

-----------------------------------------------------------------------------
(* Where main and the threads are                                          *)

LEMMA MainKeepsControl == IInv /\ (Main \/ SignalHandler) => Control'
<1> SUFFICES ASSUME IInv, Main \/ SignalHandler PROVE Control'
  OBVIOUS
<1> USE SessionAssumption DEF IInv, Control, MainType, ThreadType, Joined, Phases, InLevel,
        Levels, share, stats, network, history, threads
<1>1. CASE StartLevel
  BY <1>1 DEF StartLevel, NoCounter
<1>2. CASE Share
  <2>1. queries_thread \in Nat
    BY <1>2, ShareDivides
  <2> QED BY <1>2, <2>1 DEF Share
<1>3. CASE StartThreads
  BY <1>3 DEF StartThreads
<1>4. CASE Settle
  BY <1>4 DEF Settle, MainTo
<1>5. CASE StatusLine
  <2>1. Counted(counter_send) \in Nat /\ Counted(counter_received) \in Nat
    BY CountedNat
  <2> QED BY <1>5, <2>1 DEF StatusLine, getCounter
<1>6. CASE LevelOver
  BY <1>6 DEF LevelOver, MainTo, running
<1>7. CASE Stopped
  BY <1>7 DEF Stopped, MainTo, running
<1>8. CASE GetResults
  <2>1. packages_lost \in Int
    <3>1. Counted(counter_send) \in Nat /\ Counted(counter_received) \in Nat
      BY CountedNat
    <3> QED BY <3>1 DEF packages_lost
  <2>2. unreportedSent' \in Int /\ unreportedRead' \in Int
    BY <1>8, CountedNat DEF GetResults
  <2> QED BY <1>8, <2>1, <2>2 DEF GetResults
<1>9. CASE AllLevelsDone
  BY <1>9 DEF AllLevelsDone, MainTo
<1>10. CASE SignalHandler
  BY <1>10 DEF SignalHandler
<1> QED BY <1>1, <1>2, <1>3, <1>4, <1>5, <1>6, <1>7, <1>8, <1>9, <1>10 DEF Main

LEMMA TrafficKeepsType ==
    ASSUME Control, NEW t \in Threads, Traffic(t)
    PROVE  ThreadType' /\ UNCHANGED <<tpc, rpc, rstop, mpc>>
<1>1. ThreadType
  BY DEF Control
<1>2. CASE SendPacket(t)
  <2>1. level \in Levels
    BY <1>2 DEF SendPacket, Control, Phases, MainType, InLevel
  <2>2. /\ UNCHANGED <<tpc, rpc, rstop, mpc, stats>>
        /\ counter_send' = [counter_send EXCEPT ![t] = @ + 1]
        /\ underway' = [underway EXCEPT ![t][level] = @ + 1]
    BY <1>2 DEF SendPacket, mainKeeps
  <2> QED BY ONLY <1>1, <2>1, <2>2 DEF ThreadType, stats
<1>3. ASSUME NEW l \in Levels, Receive(t, l)
      PROVE  ThreadType' /\ UNCHANGED <<tpc, rpc, rstop, mpc>>
  <2>1. /\ UNCHANGED <<tpc, rpc, rstop, mpc, counter_send>> /\ underway[t][l] > 0
        /\ underway' = [underway EXCEPT ![t][l] = @ - 1]
    BY <1>3 DEF Receive, mainKeeps
  <2>2. PICK rtt \in RoundTrips : countPacket(t, rtt)
    BY <1>3 DEF Receive
  <2>3. rtt \in Nat \ {0}
    BY SessionAssumption
  <2>4. counter_received' \in [Threads -> Nat] /\ rtt_total' \in [Threads -> Nat]
    BY ONLY <1>1, <2>2, <2>3 DEF ThreadType, countPacket
  <2>5. rtt_min' \in [Threads -> Nat] /\ rtt_max' \in [Threads -> Nat]
    BY ONLY <1>1, <2>2, <2>3 DEF ThreadType, countPacket, rtt_minNext
  <2>6. heard' \in [Threads -> SUBSET (Nat \ {0})]
    BY ONLY <1>1, <2>2, <2>3 DEF ThreadType, countPacket
  <2>7. underway' \in [Threads -> [Levels -> Nat]]
    BY ONLY <1>1, <2>1 DEF ThreadType
  <2> QED BY <1>1, <2>1, <2>4, <2>5, <2>6, <2>7 DEF ThreadType
<1>4. ASSUME NEW l \in Levels, Duplicate(t, l)
      PROVE  ThreadType' /\ UNCHANGED <<tpc, rpc, rstop, mpc>>
  <2>1. /\ UNCHANGED <<tpc, rpc, rstop, mpc, counter_send, stats>>
        /\ underway' = [underway EXCEPT ![t][l] = @ + 1]
    BY <1>4 DEF Duplicate, mainKeeps
  <2>2. underway' \in [Threads -> [Levels -> Nat]]
    BY ONLY <1>1, <2>1 DEF ThreadType
  <2> QED BY <1>1, <2>1, <2>2 DEF ThreadType, stats
<1> QED BY <1>2, <1>3, <1>4 DEF Traffic

LEMMA ThreadKeepsControl ==
    ASSUME NEW t \in Threads PROVE Control /\ (Thread(t) \/ Traffic(t)) => Control'
<1> SUFFICES ASSUME Control, Thread(t) \/ Traffic(t) PROVE Control'
  OBVIOUS
<1> USE SessionAssumption DEF Control, MainType, ThreadType, Joined, Phases, InLevel,
        mainKeeps, share, stats, network, history
<1>1. CASE RunReset(t)
  BY <1>1 DEF RunReset, ResetCounter
<1>2. CASE StopReceiver(t)
  BY <1>2 DEF StopReceiver
<1>3. CASE RunExit(t)
  BY <1>3 DEF RunExit
<1>4. CASE ReceiverReset(t)
  BY <1>4 DEF ReceiverReset, ResetCounter
<1>5. CASE ReceiverEnds(t)
  BY <1>5 DEF ReceiverEnds
<1>6. CASE Traffic(t)
  <2>1. ThreadType' /\ UNCHANGED <<tpc, rpc, rstop, mpc>>
    BY <1>6, TrafficKeepsType
  <2>2. /\ UNCHANGED <<level, stopFlag, queryrate, previous_counter, result>>
        /\ unreportedSent' \in Int /\ unreportedRead' \in Int /\ overdue' \in Nat
        /\ duplicates' \in Nat
    <3>1. CASE SendPacket(t)
      BY <3>1 DEF SendPacket
    <3>2. CASE \E l \in Levels : Receive(t, l)
      BY <3>2 DEF Receive
    <3>3. CASE \E l \in Levels : Duplicate(t, l)
      BY <3>3 DEF Duplicate
    <3> QED BY <1>6, <3>1, <3>2, <3>3 DEF Traffic
  <2> QED BY <2>1, <2>2
<1> QED BY <1>1, <1>2, <1>3, <1>4, <1>5, <1>6 DEF Thread

-----------------------------------------------------------------------------
(* What a step does to the sums                                            *)

Sent == Counted(Live(counter_send))
Read == Counted(Live(counter_received))

LEMMA SumsAreNat == Control => Sent \in Nat /\ Read \in Nat
BY LiveNat, CountedNat DEF Control, ThreadType, Sent, Read

\* When every thread has begun, the sums are those of getCounter().
LEMMA AllLive ==
    ASSUME Control, \A t \in Threads : tpc[t] # "born"
    PROVE  Sent = Counted(counter_send) /\ Read = Counted(counter_received)
<1>1. Live(counter_send) = counter_send /\ Live(counter_received) = counter_received
  BY DEF Control, ThreadType, Live
<1> QED BY <1>1 DEF Sent, Read

LEMMA StartThreadsCounts == ASSUME Control, StartThreads PROVE Sent' = 0 /\ Read' = 0
<1>1. \A t \in Threads : tpc'[t] = "born"
  BY DEF Control, Phases, StartThreads
<1>2. \A t \in Threads : Live(counter_send)'[t] = 0 /\ Live(counter_received)'[t] = 0
  BY <1>1 DEF Live
<1>3. Counted(Live(counter_send)') = 0 /\ Counted(Live(counter_received)') = 0
  BY <1>2, CountedZero
<1> QED BY <1>3 DEF Sent, Read

LEMMA SendPacketCounts ==
    ASSUME Control, NEW t \in Threads, SendPacket(t)
    PROVE  Sent' = Sent + 1 /\ Read' = Read
<1>1. /\ counter_send' = [counter_send EXCEPT ![t] = @ + 1] /\ tpc[t] = "load"
      /\ UNCHANGED <<tpc, counter_received>>
  BY DEF SendPacket, stats
<1>2. /\ counter_send \in [Threads -> Nat]
      /\ counter_send' \in [Threads -> Nat]
  BY <1>1 DEF Control, ThreadType
<1> DEFINE f == Live(counter_send)
           g == Live(counter_send)'
<1>3. f \in [Threads -> Nat] /\ g \in [Threads -> Nat]
  BY <1>2 DEF Live
<1>4. /\ \A u \in Threads : u # t => g[u] = f[u]
      /\ g[t] = f[t] + 1
  BY <1>1, <1>2 DEF Live
<1> HIDE DEF f, g
<1>5. Counted(g) = Counted(f) + g[t] - f[t] /\ Counted(f) \in Nat
  BY <1>3, <1>4, CountedChange, CountedNat
<1>6. Counted(g) = Counted(f) + 1
  BY <1>3, <1>4, <1>5
<1>7. Live(counter_received)' = Live(counter_received)
  BY <1>1 DEF Live
<1> QED BY <1>6, <1>7 DEF Sent, Read, f, g

LEMMA ReceiveCounts ==
    ASSUME Control, NEW t \in Threads, NEW l \in Levels, Receive(t, l)
    PROVE  Sent' = Sent /\ Read' = Read + 1
<1>1. /\ counter_received' = [counter_received EXCEPT ![t] = @ + 1] /\ tpc[t] # "born"
      /\ UNCHANGED <<tpc, counter_send>>
  BY DEF Receive, countPacket, Control, Joined, ThreadType
<1>2. /\ counter_received \in [Threads -> Nat]
      /\ counter_received' \in [Threads -> Nat]
  BY <1>1 DEF Control, ThreadType
<1> DEFINE f == Live(counter_received)
           g == Live(counter_received)'
<1>3. f \in [Threads -> Nat] /\ g \in [Threads -> Nat]
  BY <1>2 DEF Live
<1>4. /\ \A u \in Threads : u # t => g[u] = f[u]
      /\ g[t] = f[t] + 1
  BY <1>1, <1>2 DEF Live
<1> HIDE DEF f, g
<1>5. Counted(g) = Counted(f) + g[t] - f[t] /\ Counted(f) \in Nat
  BY <1>3, <1>4, CountedChange, CountedNat
<1>6. Counted(g) = Counted(f) + 1
  BY <1>3, <1>4, <1>5
<1>7. Live(counter_send)' = Live(counter_send)
  BY <1>1 DEF Live
<1> QED BY <1>6, <1>7 DEF Sent, Read, f, g

\* No other step of a thread loses or repeats what is not reported: the resets come
\* before the thread counts anything.
LEMMA ThreadCounts ==
    ASSUME Control, Books, NEW t \in Threads, Thread(t)
    PROVE  Sent' = Sent /\ Read' = Read
<1> SUFFICES Live(counter_send)' = Live(counter_send)
             /\ Live(counter_received)' = Live(counter_received)
  BY DEF Sent, Read
<1>1. CASE RunReset(t)
  BY <1>1 DEF RunReset, ResetCounter, Live, Control, ThreadType
<1>2. CASE StopReceiver(t)
  BY <1>2 DEF StopReceiver, stats, Live, Control, ThreadType
<1>3. CASE RunExit(t)
  BY <1>3 DEF RunExit, stats, Live, Control, ThreadType
<1>4. CASE ReceiverReset(t)
  BY <1>4 DEF ReceiverReset, ResetCounter, Live, Control, ThreadType, Books
<1>5. CASE ReceiverEnds(t)
  BY <1>5 DEF ReceiverEnds, stats, Live
<1> QED BY <1>1, <1>2, <1>3, <1>4, <1>5 DEF Thread

\* main itself counts nothing.
LEMMA MainCounts ==
    ASSUME \/ StartLevel \/ Share \/ Settle \/ StatusLine \/ LevelOver \/ Stopped \/ GetResults
           \/ AllLevelsDone \/ SignalHandler \/ Sleeps \/ Over \/ UNCHANGED vars
    PROVE  UNCHANGED <<threads, Sent, Read>>
<1>1. UNCHANGED threads
  BY DEF StartLevel, Share, Settle, MainTo, StatusLine, LevelOver, Stopped, GetResults,
      AllLevelsDone, SignalHandler, Sleeps, Over, vars
<1>2. Live(counter_send)' = Live(counter_send) /\ Live(counter_received)' = Live(counter_received)
  BY <1>1 DEF threads, stats, Live
<1> QED BY <1>1, <1>2 DEF Sent, Read

-----------------------------------------------------------------------------
(* The books of what is reported                                           *)

LEMMA NextKeepsBooks == IInv /\ [Next]_vars => Books'
<1> SUFFICES ASSUME IInv, [Next]_vars PROVE Books'
  OBVIOUS
<1>0. /\ Control /\ Books /\ Sent \in Nat /\ Read \in Nat
      /\ unreportedSent \in Int /\ unreportedRead \in Int
  BY SumsAreNat DEF IInv, Control, MainType
<1> SUFFICES /\ unreportedSent' = IF InLevel' THEN Sent' ELSE 0
             /\ unreportedRead' = IF InLevel' THEN Read' ELSE 0
             /\ \A t \in Threads : rpc'[t] = "born" => counter_received'[t] = 0
  BY DEF Books, Sent, Read
<1>1. CASE StartThreads
  <2>1. Sent' = 0 /\ Read' = 0
    BY <1>0, <1>1, StartThreadsCounts
  <2>2. ~InLevel /\ UNCHANGED <<unreportedSent, unreportedRead, rpc, counter_received>>
    BY <1>1 DEF StartThreads, InLevel, history, stats
  <2> QED BY <1>0, <2>1, <2>2 DEF Books, Sent, Read
<1>2. CASE GetResults
  <2>1. Sent = Counted(counter_send) /\ Read = Counted(counter_received) /\ InLevel
    BY <1>0, <1>2, AllLive DEF Control, Phases, GetResults, InLevel
  <2>2. ~InLevel' /\ unreportedSent' = unreportedSent - Sent /\ unreportedRead' = unreportedRead - Read
    BY <1>2, <2>1 DEF GetResults, InLevel
  <2>3. UNCHANGED <<rpc, counter_received>>
    BY <1>2 DEF GetResults, threads, stats
  <2> QED BY <1>0, <2>1, <2>2, <2>3 DEF Books, Sent, Read
<1>3. CASE \/ StartLevel \/ Share \/ Settle \/ StatusLine \/ LevelOver \/ Stopped
           \/ AllLevelsDone \/ SignalHandler \/ Sleeps \/ Over \/ UNCHANGED vars
  <2>1. UNCHANGED <<threads, Sent, Read>>
    BY <1>3, MainCounts
  <2>2. InLevel' = InLevel /\ UNCHANGED <<unreportedSent, unreportedRead>>
    BY <1>3 DEF StartLevel, Share, Settle, MainTo, StatusLine, LevelOver, Stopped,
        AllLevelsDone, SignalHandler, Sleeps, Over, vars, history, InLevel
  <2> QED BY <1>0, <2>1, <2>2 DEF Books, Sent, Read, threads, stats
<1>4. ASSUME NEW t \in Threads, Thread(t) \/ Traffic(t)
      PROVE  /\ unreportedSent' = IF InLevel' THEN Sent' ELSE 0
             /\ unreportedRead' = IF InLevel' THEN Read' ELSE 0
             /\ \A u \in Threads : rpc'[u] = "born" => counter_received'[u] = 0
  <2>1. CASE Thread(t)
    <3>1. /\ Sent' = Sent /\ Read' = Read
          /\ InLevel' = InLevel /\ UNCHANGED <<unreportedSent, unreportedRead>>
      BY <1>0, <2>1, ThreadCounts DEF Thread, RunReset, StopReceiver, RunExit, ReceiverReset,
          ReceiverEnds, mainKeeps, InLevel, history
    <3>2. \A u \in Threads : rpc'[u] = "born" => counter_received'[u] = 0
      BY <1>0, <2>1 DEF Control, ThreadType, Books, Thread, RunReset, ResetCounter, StopReceiver,
          RunExit, ReceiverReset, ReceiverEnds, stats
    <3> QED BY <1>0, <3>1, <3>2 DEF Books, Sent, Read
  <2>2. CASE SendPacket(t)
    <3>1. InLevel /\ InLevel'
      BY <1>0, <2>2 DEF SendPacket, mainKeeps, Control, Phases, InLevel
    <3>2. Sent' = Sent + 1 /\ Read' = Read
      BY <1>0, <2>2, SendPacketCounts
    <3>3. unreportedSent' = unreportedSent + 1 /\ UNCHANGED <<unreportedRead, rpc, counter_received>>
      BY <2>2 DEF SendPacket, stats
    <3> QED BY <1>0, <3>1, <3>2, <3>3 DEF Books, Sent, Read
  <2>3. ASSUME NEW l \in Levels, Receive(t, l)
        PROVE  /\ unreportedSent' = IF InLevel' THEN Sent' ELSE 0
               /\ unreportedRead' = IF InLevel' THEN Read' ELSE 0
               /\ \A u \in Threads : rpc'[u] = "born" => counter_received'[u] = 0
    <3>1. InLevel /\ InLevel'
      BY <1>0, <2>3 DEF Receive, mainKeeps, Control, MainType, Joined, ThreadType, Phases, InLevel
    <3>2. Sent' = Sent /\ Read' = Read + 1
      BY <1>0, <2>3, ReceiveCounts
    <3>3. unreportedRead' = unreportedRead + 1 /\ UNCHANGED unreportedSent
      BY <2>3 DEF Receive
    <3>4. \A u \in Threads : rpc'[u] = "born" => counter_received'[u] = 0
      BY <1>0, <2>3 DEF Receive, countPacket, Control, ThreadType, Books
    <3> QED BY <1>0, <3>1, <3>2, <3>3, <3>4 DEF Books, Sent, Read
  <2>4. ASSUME NEW l \in Levels, Duplicate(t, l)
        PROVE  /\ unreportedSent' = IF InLevel' THEN Sent' ELSE 0
               /\ unreportedRead' = IF InLevel' THEN Read' ELSE 0
               /\ \A u \in Threads : rpc'[u] = "born" => counter_received'[u] = 0
    <3>1. UNCHANGED <<mpc, tpc, counter_send, counter_received, rpc, unreportedSent, unreportedRead>>
      BY <2>4 DEF Duplicate, mainKeeps, stats, history
    <3>2. Sent' = Sent /\ Read' = Read /\ InLevel' = InLevel
      BY <3>1 DEF Sent, Read, Live, InLevel
    <3> QED BY <1>0, <3>1, <3>2 DEF Books, Sent, Read
  <2> QED BY <1>4, <2>1, <2>2, <2>3, <2>4 DEF Traffic
<1> QED BY <1>1, <1>2, <1>3, <1>4 DEF Next, Main

-----------------------------------------------------------------------------
(* What is under way                                                       *)

LEMMA NextKeepsNothingEarly == IInv /\ [Next]_vars => NothingEarly'
<1> SUFFICES ASSUME IInv, [Next]_vars PROVE NothingEarly'
  OBVIOUS
<1> USE DEF IInv, Control, MainType, ThreadType, Phases, NothingEarly, InLevel
<1>1. CASE StartLevel
  BY <1>1, SessionAssumption DEF StartLevel, threads, network, Levels
<1>2. CASE StartThreads
  BY <1>2 DEF StartThreads, network
<1>3. CASE \/ Share \/ Settle \/ StatusLine \/ LevelOver \/ Stopped \/ GetResults
           \/ AllLevelsDone \/ SignalHandler \/ Sleeps \/ Over \/ UNCHANGED vars
  <2>1. UNCHANGED <<tpc, underway, level>> /\ (mpc' = "share" => mpc = "share")
    BY <1>3 DEF Share, Settle, MainTo, StatusLine, LevelOver, Stopped, GetResults, AllLevelsDone,
        SignalHandler, Sleeps, Over, vars, threads, network
  <2> QED BY <2>1
<1>4. ASSUME NEW t \in Threads, Thread(t) PROVE NothingEarly'
  <2>1. /\ UNCHANGED <<mpc, underway, level>>
        /\ \A u \in Threads : tpc'[u] = "born" => tpc[u] = "born"
    BY <1>4 DEF Thread, RunReset, StopReceiver, RunExit, ReceiverReset, ReceiverEnds, mainKeeps,
        network
  <2> QED BY <2>1
<1>5. ASSUME NEW t \in Threads, SendPacket(t) PROVE NothingEarly'
  <2>1. /\ UNCHANGED <<mpc, tpc, level>> /\ tpc[t] = "load" /\ mpc # "share"
        /\ underway' = [underway EXCEPT ![t][level] = @ + 1] /\ level \in Levels
    BY <1>5 DEF SendPacket, mainKeeps
  <2>2. underway \in [Threads -> [Levels -> Nat]] /\ level \in Nat
    BY <2>1 DEF Levels
  <2>3. \A u \in Threads, k \in Levels : u # t \/ k # level => underway'[u][k] = underway[u][k]
    BY <2>1, <2>2
  <2>4. \A k \in Levels : k > level => k # level
    BY <2>2 DEF Levels
  <2>5. \A u \in Threads : mpc' = "share" \/ tpc'[u] = "born" => u # t /\ tpc[u] = "born"
    BY <2>1
  <2>6. NothingEarly
    OBVIOUS
  <2> HIDE DEF IInv, Control, MainType, ThreadType, Phases, InLevel
  <2> QED BY <2>1, <2>3, <2>4, <2>5, <2>6 DEF NothingEarly
<1>6. ASSUME NEW t \in Threads, NEW l \in Levels, Receive(t, l) \/ Duplicate(t, l)
      PROVE  NothingEarly'
  <2>1. /\ UNCHANGED <<mpc, tpc, level>> /\ underway[t][l] > 0
        /\ \/ underway' = [underway EXCEPT ![t][l] = @ - 1]
           \/ underway' = [underway EXCEPT ![t][l] = @ + 1]
    BY <1>6 DEF Receive, Duplicate, mainKeeps
  <2>2. underway \in [Threads -> [Levels -> Nat]] /\ level \in Nat /\ Levels \subseteq Nat
    <3>1. Control
      OBVIOUS
    <3>2. Len(QueryRates) \in Nat
      BY SessionAssumption
    <3> HIDE DEF IInv, Control, NothingEarly
    <3>3. underway \in [Threads -> [Levels -> Nat]] /\ level \in Nat
      BY <3>1 DEF Control
    <3> QED BY <3>2, <3>3 DEF Levels
  <2>3. /\ \A u \in Threads, k \in Levels : k > level => underway[u][k] = 0
        /\ \A u \in Threads : mpc = "share" \/ tpc[u] = "born" => underway[u][level] = 0
    OBVIOUS
  <2> HIDE DEF IInv, Control, MainType, ThreadType, Phases, NothingEarly, InLevel
  <2>4. l <= level
    BY <2>1, <2>2, <2>3
  <2>5. \A u \in Threads, k \in Levels : u # t \/ k # l => underway'[u][k] = underway[u][k]
    BY <2>1, <2>2
  <2>6. ASSUME NEW u \in Threads, NEW k \in Levels, k > level PROVE underway'[u][k] = 0
    <3>1. k # l
      BY <2>2, <2>4, <2>6
    <3> QED BY <2>3, <2>5, <2>6, <3>1
  <2>7. ASSUME NEW u \in Threads, mpc = "share" \/ tpc[u] = "born"
        PROVE  underway'[u][level] = 0
    <3>1. level \in Levels
      BY <2>7 DEF IInv, Control, MainType, Phases, InLevel
    <3>2. u # t \/ level # l
      BY <2>1, <2>3, <2>7
    <3> QED BY <2>3, <2>5, <2>7, <3>1, <3>2
  <2> QED BY <2>1, <2>6, <2>7 DEF NothingEarly
<1> QED BY <1>1, <1>2, <1>3, <1>4, <1>5, <1>6 DEF Next, Main, Traffic

-----------------------------------------------------------------------------
(* What was sent explains what was read                                    *)

\* Only the datagrams of one thread change in a step of the network.
LEMMA ComingChange ==
    ASSUME Control, ThreadType', level' = level, level \in Levels, NEW t \in Threads,
           \A u \in Threads : u # t => underway'[u][level] = underway[u][level]
    PROVE  /\ Counted(Coming)' = Counted(Coming) + underway'[t][level] - underway[t][level]
           /\ Counted(Coming) \in Nat
<1> DEFINE f == Coming
           g == Coming'
<1>1. f \in [Threads -> Nat] /\ g \in [Threads -> Nat]
  BY DEF Control, ThreadType, Coming
<1>2. /\ \A u \in Threads : u # t => g[u] = f[u]
      /\ g[t] = underway'[t][level] /\ f[t] = underway[t][level]
  BY DEF Coming
<1> HIDE DEF f, g
<1>3. Counted(g) = Counted(f) + g[t] - f[t] /\ Counted(f) \in Nat
  BY <1>1, <1>2, CountedChange, CountedNat
<1>4. Counted(g) = Counted(Coming)' /\ Counted(f) = Counted(Coming)
  BY DEF f, g
<1> QED BY <1>2, <1>3, <1>4

LEMMA ComingNat == Control /\ level \in Levels => Counted(Coming) \in Nat
<1> SUFFICES ASSUME Control, level \in Levels PROVE Counted(Coming) \in Nat
  OBVIOUS
<1>1. Coming \in [Threads -> Nat]
  BY DEF Control, ThreadType, Coming
<1> QED BY <1>1, CountedNat

InBalance == InLevel => Read + Counted(Coming) <= Sent + duplicates + overdue

\* A thread begins; if it is the first of the level, nothing was sent and nothing
\* can come, and what is overdue is counted from now.
LEMMA RunResetBalance ==
    ASSUME IInv, NEW t \in Threads, RunReset(t) PROVE InBalance'
<1>1. /\ Control /\ Sent \in Nat /\ Read \in Nat /\ duplicates \in Nat
      /\ InLevel /\ InLevel' /\ level \in Levels
  BY SumsAreNat DEF IInv, Control, MainType, Phases, RunReset, mainKeeps, InLevel
<1>2. Sent' = Sent /\ Read' = Read
  BY <1>1, ThreadCounts DEF IInv, Thread
<1>3. Coming' = Coming /\ UNCHANGED duplicates
  BY DEF RunReset, mainKeeps, network, Coming
<1>4. CASE \A u \in Threads : tpc[u] = "born"
  <2>1. \A u \in Threads : Coming[u] = 0 /\ Live(counter_received)[u] = 0
    BY <1>4, <1>1 DEF IInv, NothingEarly, Coming, Live
  <2>2. Counted(Coming) = 0 /\ Read = 0
    BY <2>1, CountedZero DEF Read
  <2>3. overdue' = 0
    BY <1>4 DEF RunReset
  <2> QED BY <1>1, <1>2, <1>3, <2>2, <2>3 DEF InBalance
<1>5. CASE ~\A u \in Threads : tpc[u] = "born"
  <2>1. overdue' = overdue
    BY <1>5 DEF RunReset
  <2> QED BY <1>1, <1>2, <1>3, <2>1 DEF InBalance, IInv, Balance, Sent, Read
<1> QED BY <1>4, <1>5

LEMMA TrafficBalance ==
    ASSUME IInv, NEW t \in Threads, Traffic(t) PROVE InBalance'
<1>1. Control /\ InBalance /\ Sent \in Nat /\ Read \in Nat /\ duplicates \in Nat /\ overdue \in Nat
  BY SumsAreNat DEF IInv, Control, MainType, Balance, InBalance, Sent, Read
<1>2. ThreadType'
  BY <1>1, ThreadKeepsControl DEF Control
<1>3. UNCHANGED <<mpc, level>> /\ InLevel' = InLevel
  BY DEF Traffic, SendPacket, Receive, Duplicate, mainKeeps, InLevel
<1> SUFFICES ASSUME InLevel, level \in Levels PROVE InBalance'
  BY <1>1, <1>3 DEF InBalance, Control, MainType
<1> USE DEF Control, ThreadType
<1>4. CASE SendPacket(t)
  <2>1. Sent' = Sent + 1 /\ Read' = Read
    BY <1>1, <1>4, SendPacketCounts
  <2>2. /\ underway' = [underway EXCEPT ![t][level] = @ + 1]
        /\ UNCHANGED <<duplicates, overdue>>
    BY <1>4 DEF SendPacket
  <2>3. /\ underway'[t][level] = underway[t][level] + 1 /\ underway[t][level] \in Nat
        /\ \A u \in Threads : u # t => underway'[u][level] = underway[u][level]
    BY <1>1, <2>2
  <2>4. Counted(Coming)' = Counted(Coming) + underway'[t][level] - underway[t][level]
        /\ Counted(Coming) \in Nat
    BY <1>1, <1>2, <1>3, <2>3, ComingChange
  <2>5. Counted(Coming)' = Counted(Coming) + 1
    BY <2>3, <2>4
  <2> QED BY <1>1, <2>1, <2>2, <2>4, <2>5 DEF InBalance
<1>5. ASSUME NEW l \in Levels, Receive(t, l) PROVE InBalance'
  <2>1. Sent' = Sent /\ Read' = Read + 1
    BY <1>1, <1>5, ReceiveCounts
  <2>2. /\ underway' = [underway EXCEPT ![t][l] = @ - 1] /\ underway[t][l] > 0
        /\ UNCHANGED duplicates /\ overdue' = IF l < level THEN overdue + 1 ELSE overdue
    BY <1>5 DEF Receive
  <2>3. l <= level
    BY <2>2 DEF IInv, NothingEarly, Levels
  <2>4. /\ underway'[t][level] = IF l = level THEN underway[t][level] - 1 ELSE underway[t][level]
        /\ underway[t][level] \in Nat
        /\ \A u \in Threads : u # t => underway'[u][level] = underway[u][level]
    BY <1>1, <2>2
  <2>5. Counted(Coming)' = Counted(Coming) + underway'[t][level] - underway[t][level]
        /\ Counted(Coming) \in Nat
    BY <1>1, <1>2, <1>3, <2>4, ComingChange
  <2>6. Counted(Coming)' = IF l = level THEN Counted(Coming) - 1 ELSE Counted(Coming)
    BY <2>4, <2>5
  <2>7. Read + Counted(Coming) <= Sent + duplicates + overdue
    BY <1>1 DEF InBalance
  <2>8. l \in Int /\ level \in Int
    BY DEF Levels
  <2> HIDE DEF Control, ThreadType
  <2>9. Read' + Counted(Coming)' <= Sent' + duplicates' + overdue'
    <3> DEFINE c == Counted(Coming)
               d == Counted(Coming)'
               S == Sent
               T == Sent'
               Q == Read
               R == Read'
    <3>1. /\ c \in Nat /\ Q \in Nat /\ S \in Nat /\ duplicates \in Nat /\ overdue \in Nat
          /\ duplicates' = duplicates /\ Q + c <= S + duplicates + overdue /\ T = S /\ R = Q + 1
      BY <1>1, <2>1, <2>2, <2>5, <2>7
    <3>2. d = (IF l = level THEN c - 1 ELSE c) /\ overdue' = IF l < level THEN overdue + 1 ELSE overdue
      BY <2>2, <2>6
    <3> HIDE DEF c, d, S, T, Q, R
    <3>3. R + d <= T + duplicates' + overdue'
      BY <2>3, <2>8, <3>1, <3>2
    <3> QED BY <3>3 DEF d, T, R
  <2> QED BY <2>9 DEF InBalance
<1>6. ASSUME NEW l \in Levels, Duplicate(t, l) PROVE InBalance'
  <2>1. Sent' = Sent /\ Read' = Read
    BY <1>6 DEF Duplicate, stats, Sent, Read, Live
  <2>2. /\ underway' = [underway EXCEPT ![t][l] = @ + 1]
        /\ duplicates' = duplicates + 1 /\ UNCHANGED overdue
    BY <1>6 DEF Duplicate, history
  <2>3. /\ underway'[t][level] = IF l = level THEN underway[t][level] + 1 ELSE underway[t][level]
        /\ underway[t][level] \in Nat
        /\ \A u \in Threads : u # t => underway'[u][level] = underway[u][level]
    BY <1>1, <2>2
  <2>4. Counted(Coming)' = Counted(Coming) + underway'[t][level] - underway[t][level]
        /\ Counted(Coming) \in Nat
    BY <1>1, <1>2, <1>3, <2>3, ComingChange
  <2>5. Counted(Coming)' = IF l = level THEN Counted(Coming) + 1 ELSE Counted(Coming)
    BY <2>3, <2>4
  <2> QED BY <1>1, <2>1, <2>2, <2>4, <2>5 DEF InBalance
<1> QED BY <1>4, <1>5, <1>6 DEF Traffic

LEMMA StartThreadsBalance == ASSUME IInv, StartThreads PROVE InBalance'
<1>1. Sent' = 0 /\ Read' = 0
  BY StartThreadsCounts DEF IInv
<1>2. /\ mpc = "share" /\ level \in Levels /\ UNCHANGED <<level, underway, duplicates, overdue>>
      /\ duplicates \in Nat /\ overdue \in Nat
  BY DEF StartThreads, IInv, Control, MainType, network, history
<1>3. \A t \in Threads : Coming'[t] = 0
  BY <1>2 DEF IInv, NothingEarly, Coming
<1>4. Counted(Coming') = 0
  BY <1>3, CountedZero
<1>5. Counted(Coming)' = 0
  BY <1>4
<1> QED BY <1>1, <1>2, <1>5 DEF InBalance

\* The results of a level: what is lost is bounded by the balance.
LEMMA GetResultsExplains == ASSUME IInv, GetResults PROVE LostExplained'
<1>1. /\ Control /\ InLevel /\ level \in Levels
      /\ Sent = Counted(counter_send) /\ Read = Counted(counter_received)
  BY AllLive DEF IInv, Control, MainType, Phases, GetResults, InLevel
<1>2. /\ Sent \in Nat /\ Read \in Nat /\ Counted(Coming) \in Nat
      /\ duplicates \in Nat /\ overdue \in Nat
  BY <1>1, SumsAreNat, ComingNat DEF Control, MainType
<1>3. Read + Counted(Coming) <= Sent + duplicates + overdue
  BY <1>1 DEF IInv, Balance, Sent, Read
<1>4. result'.packages_lost = Sent - Read /\ UNCHANGED <<duplicates, overdue>>
  BY <1>1 DEF GetResults, packages_lost, threads, network
<1> QED BY <1>2, <1>3, <1>4 DEF LostExplained

LEMMA NextKeepsBalance == IInv /\ [Next]_vars => Balance'
<1> SUFFICES ASSUME IInv, [Next]_vars PROVE InBalance' /\ LostExplained'
  BY DEF Balance, InBalance, Sent, Read
<1>0. /\ Control /\ InBalance /\ LostExplained
      /\ duplicates \in Nat /\ overdue \in Nat /\ result.packages_lost \in Int
  BY DEF IInv, Control, MainType, Balance, InBalance, Sent, Read
<1>1. CASE StartThreads
  <2>1. LostExplained'
    BY <1>1 DEF StartThreads, LostExplained
  <2> QED BY <1>1, <2>1, StartThreadsBalance
<1>2. CASE GetResults
  <2>1. ~InLevel'
    BY <1>2 DEF GetResults, InLevel
  <2> QED BY <1>2, <2>1, GetResultsExplains DEF InBalance
<1>3. CASE StartLevel
  BY <1>3 DEF StartLevel, InBalance, InLevel, LostExplained
<1>4. CASE \/ Share \/ Settle \/ StatusLine \/ LevelOver \/ Stopped
           \/ AllLevelsDone \/ SignalHandler \/ Sleeps \/ Over \/ UNCHANGED vars
  <2>1. UNCHANGED <<threads, Sent, Read>>
    BY <1>4, MainCounts
  <2>2. /\ InLevel' = InLevel /\ UNCHANGED <<level, overdue, result>>
        /\ mpc' \in {"ready", "over"} => mpc \in {"ready", "over"}
    BY <1>4 DEF Share, Settle, MainTo, StatusLine, LevelOver, Stopped,
        AllLevelsDone, SignalHandler, Sleeps, Over, vars, history, InLevel
  <2>3. Coming' = Coming /\ UNCHANGED duplicates
    BY <2>1, <2>2 DEF threads, network, Coming
  <2>4. InBalance'
    BY <1>0, <2>1, <2>2, <2>3 DEF InBalance
  <2>5. LostExplained'
    BY <1>0, <2>2, <2>3 DEF LostExplained
  <2> QED BY <2>4, <2>5
<1>5. ASSUME NEW t \in Threads, Thread(t) PROVE InBalance' /\ LostExplained'
  <2>1. InBalance'
    <3>1. CASE RunReset(t)
      BY <3>1, RunResetBalance
    <3>2. CASE StopReceiver(t) \/ RunExit(t) \/ ReceiverReset(t) \/ ReceiverEnds(t)
      <4>1. Sent' = Sent /\ Read' = Read
        BY <1>0, <1>5, ThreadCounts DEF IInv
      <4>2. UNCHANGED <<mpc, level, underway, duplicates, overdue>>
        BY <3>2 DEF StopReceiver, RunExit, ReceiverReset, ReceiverEnds, mainKeeps, network, history
      <4> QED BY <1>0, <4>1, <4>2 DEF InBalance, InLevel, Coming
    <3> QED BY <1>5, <3>1, <3>2 DEF Thread
  <2>2. mpc \notin {"ready", "over"} /\ mpc' = mpc
    BY <1>0, <1>5 DEF Control, ThreadType, Joined, Phases, Thread, RunReset, StopReceiver, RunExit,
        ReceiverReset, ReceiverEnds, mainKeeps
  <2> QED BY <2>1, <2>2 DEF LostExplained
<1>6. ASSUME NEW t \in Threads, Traffic(t) PROVE InBalance' /\ LostExplained'
  <2>1. InBalance'
    BY <1>6, TrafficBalance
  <2>2. \/ mpc \notin {"ready", "over"} /\ mpc' = mpc
        \/ UNCHANGED <<mpc, result, overdue>> /\ duplicates' = duplicates + 1
    <3>1. CASE SendPacket(t)
      BY <1>0, <3>1 DEF Control, Phases, SendPacket, mainKeeps
    <3>2. ASSUME NEW l \in Levels, Receive(t, l) PROVE mpc \notin {"ready", "over"} /\ mpc' = mpc
      BY <1>0, <3>2 DEF Control, ThreadType, Joined, Phases, Receive, mainKeeps
    <3>3. ASSUME NEW l \in Levels, Duplicate(t, l)
          PROVE  UNCHANGED <<mpc, result, overdue>> /\ duplicates' = duplicates + 1
      BY <3>3 DEF Duplicate, mainKeeps, history
    <3> QED BY <1>6, <3>1, <3>2, <3>3 DEF Traffic
  <2>3. LostExplained'
    BY <1>0, <2>2 DEF LostExplained
  <2> QED BY <2>1, <2>3
<1> QED BY <1>1, <1>2, <1>3, <1>4, <1>5, <1>6 DEF Next, Main

-----------------------------------------------------------------------------
(* The status lines                                                        *)

LEMMA NextKeepsLines == IInv /\ [Next]_vars => Lines'
<1> SUFFICES ASSUME IInv, [Next]_vars PROVE Lines'
  OBVIOUS
<1>0. /\ Control /\ Lines
      /\ Counted(counter_send) \in Nat /\ Counted(counter_received) \in Nat
  BY CountedNat DEF IInv, Control, ThreadType
<1> USE DEF Lines, StatusMonotone
<1>1. CASE StartLevel
  BY <1>1 DEF StartLevel
<1>2. CASE Settle
  BY <1>0, <1>2 DEF Settle, MainTo, threads, stats, NoCounter
<1>3. CASE StatusLine
  <2>1. Counted(counter_send)' = Counted(counter_send)
        /\ Counted(counter_received)' = Counted(counter_received)
    BY <1>3 DEF StatusLine, threads, stats
  <2> QED BY <1>0, <1>3, <2>1 DEF StatusLine, getCounter
<1>4. CASE \/ Share \/ StartThreads \/ LevelOver \/ Stopped \/ GetResults
           \/ AllLevelsDone \/ SignalHandler \/ Sleeps \/ Over \/ UNCHANGED vars
  <2>1. UNCHANGED <<counter_send, counter_received, previous_counter>>
    BY <1>4 DEF Share, StartThreads, MainTo, LevelOver, Stopped, GetResults, AllLevelsDone,
        SignalHandler, Sleeps, Over, vars, threads, stats
  <2>2. /\ mpc' \in {"share", "settle"} => mpc \in {"share", "settle"}
        /\ mpc' = "wait" => mpc = "wait"
    BY <1>4 DEF Share, StartThreads, MainTo, LevelOver, Stopped, GetResults, AllLevelsDone,
        SignalHandler, Sleeps, Over, vars
  <2> QED BY <1>0, <2>1, <2>2
<1>5. ASSUME NEW t \in Threads, Thread(t) \/ Traffic(t) PROVE Lines'
  <2>1. UNCHANGED <<mpc, previous_counter>>
    BY <1>5 DEF Thread, Traffic, RunReset, StopReceiver, RunExit, ReceiverReset, ReceiverEnds,
        SendPacket, Receive, Duplicate, mainKeeps
  <2> SUFFICES ASSUME mpc = "wait"
               PROVE  /\ Counted(counter_send) <= Counted(counter_send)'
                      /\ Counted(counter_received) <= Counted(counter_received)'
    <3>1. mpc # "wait" => Lines'
      BY <1>0, <2>1
    <3>2. ASSUME mpc = "wait", Counted(counter_send) <= Counted(counter_send)',
                 Counted(counter_received) <= Counted(counter_received)'
          PROVE  Lines'
      <4>1. Control'
        BY <1>5, ThreadKeepsControl DEF IInv
      <4>2. Counted(counter_send)' \in Nat /\ Counted(counter_received)' \in Nat
        BY <4>1, CountedNat DEF Control, ThreadType
      <4>3. /\ previous_counter.send \in Nat /\ previous_counter.received \in Nat
            /\ previous_counter.send <= Counted(counter_send)
            /\ previous_counter.received <= Counted(counter_received)
        BY <1>0, <3>2 DEF Control, MainType
      <4>4. /\ previous_counter.send <= Counted(counter_send)'
            /\ previous_counter.received <= Counted(counter_received)'
        BY <1>0, <3>2, <4>2, <4>3
      <4> QED BY <2>1, <3>2, <4>4
    <3> QED BY <3>1, <3>2
  <2>2. Control'
    BY <1>5, ThreadKeepsControl DEF IInv
  <2>3. \A u \in Threads : /\ counter_send[u] <= counter_send'[u]
                           /\ counter_received[u] <= counter_received'[u]
    <3>1. ~RunReset(t) /\ ~ReceiverReset(t)
      BY <1>0 DEF Control, Phases, RunReset, ReceiverReset
    <3>2. CASE StopReceiver(t) \/ RunExit(t) \/ ReceiverEnds(t) \/ \E l \in Levels : Duplicate(t, l)
      BY <1>0, <3>2 DEF StopReceiver, RunExit, ReceiverEnds, Duplicate, stats, Control, ThreadType
    <3>3. CASE SendPacket(t)
      BY <1>0, <3>3 DEF SendPacket, stats, Control, ThreadType
    <3>4. CASE \E l \in Levels : Receive(t, l)
      BY <1>0, <3>4 DEF Receive, countPacket, Control, ThreadType
    <3> QED BY <1>5, <3>1, <3>2, <3>3, <3>4 DEF Thread, Traffic
  <2>4. Counted(counter_send) <= Counted(counter_send')
        /\ Counted(counter_received) <= Counted(counter_received')
    BY <1>0, <2>2, <2>3, CountedMonotone DEF Control, ThreadType
  <2> QED BY <2>4
<1> QED BY <1>1, <1>2, <1>3, <1>4, <1>5 DEF Next, Main

-----------------------------------------------------------------------------
(* The statistics of a receiver                                            *)

\* One more round trip; the products grow with it.
LEMMA CountPacketMeasures ==
    ASSUME NEW n \in Nat, NEW total \in Nat, NEW least \in Nat, NEW greatest \in Nat,
           NEW S \in SUBSET (Nat \ {0}), Measured(n, total, least, greatest, S),
           NEW rtt \in Nat \ {0}
    PROVE  Measured(n + 1, total + rtt, rtt_minNext(least, rtt),
                    IF rtt > greatest THEN rtt ELSE greatest, S \cup {rtt})
<1> DEFINE lo == rtt_minNext(least, rtt)
           hi == IF rtt > greatest THEN rtt ELSE greatest
<1>1. CASE n = 0
  <2>1. total = 0 /\ least = 0 /\ greatest = 0 /\ S = {}
    BY <1>1 DEF Measured
  <2> QED BY <1>1, <2>1 DEF Measured, rtt_minNext
<1>2. CASE n # 0
  <2>1. /\ least \in S /\ greatest \in S /\ \A h \in S : least <= h /\ h <= greatest
        /\ least * n <= total /\ total <= greatest * n
    BY <1>2 DEF Measured
  <2>2. /\ lo \in Nat /\ hi \in Nat /\ lo <= least /\ lo <= rtt /\ hi >= greatest /\ hi >= rtt
        /\ lo \in {least, rtt} /\ hi \in {greatest, rtt}
    BY <2>1 DEF rtt_minNext
  <2> HIDE DEF lo, hi
  <2>3. lo * n <= least * n /\ greatest * n <= hi * n
    BY <2>2
  <2>4. /\ lo * (n + 1) = lo * n + lo /\ hi * (n + 1) = hi * n + hi
        /\ lo * n \in Int /\ hi * n \in Int /\ least * n \in Int /\ greatest * n \in Int
    BY <2>2
  <2>5. lo * (n + 1) <= total + rtt /\ total + rtt <= hi * (n + 1)
    BY <2>1, <2>2, <2>3, <2>4
  <2>6. \A h \in S \cup {rtt} : lo <= h /\ h <= hi
    BY <2>1, <2>2
  <2>7. lo \in S \cup {rtt} /\ hi \in S \cup {rtt}
    BY <2>1, <2>2
  <2>8. n + 1 # 0
    OBVIOUS
  <2> QED BY <2>5, <2>6, <2>7, <2>8 DEF Measured, lo, hi
<1> QED BY <1>1, <1>2

LEMMA NextKeepsStatistics == IInv /\ [Next]_vars => Statistics'
<1> SUFFICES ASSUME IInv, [Next]_vars PROVE Statistics'
  OBVIOUS
<1>0. Control /\ Statistics
  BY DEF IInv
<1>1. CASE StartThreads
  BY <1>0, <1>1 DEF StartThreads, stats, Statistics
<1>2. CASE \/ StartLevel \/ Share \/ Settle \/ StatusLine \/ LevelOver \/ Stopped \/ GetResults
           \/ AllLevelsDone \/ SignalHandler \/ Sleeps \/ Over \/ UNCHANGED vars
  BY <1>0, <1>2, MainCounts DEF threads, stats, Statistics
<1>3. ASSUME NEW t \in Threads, RunReset(t) \/ ReceiverReset(t) PROVE Statistics'
  <2>1. ResetCounter(t)
    BY <1>3 DEF RunReset, ReceiverReset
  <2> QED BY <1>0, <2>1 DEF ResetCounter, Statistics, Measured, Control, ThreadType
<1>4. ASSUME NEW t \in Threads, NEW l \in Levels, Receive(t, l) PROVE Statistics'
  <2>1. PICK rtt \in RoundTrips : countPacket(t, rtt)
    BY <1>4 DEF Receive
  <2>2. rtt \in Nat \ {0}
    BY SessionAssumption
  <2>3. ASSUME NEW u \in Threads
        PROVE  Measured(counter_received'[u], rtt_total'[u], rtt_min'[u], rtt_max'[u], heard'[u])
    <3>1. CASE u = t
      <4>1. /\ counter_received'[u] = counter_received[u] + 1
            /\ rtt_total'[u] = rtt_total[u] + rtt
            /\ rtt_min'[u] = rtt_minNext(rtt_min[u], rtt)
            /\ rtt_max'[u] = IF rtt > rtt_max[u] THEN rtt ELSE rtt_max[u]
            /\ heard'[u] = heard[u] \cup {rtt}
        BY <1>0, <2>1, <3>1 DEF countPacket, Control, ThreadType
      <4>2. Measured(counter_received[u], rtt_total[u], rtt_min[u], rtt_max[u], heard[u])
        BY <1>0 DEF Statistics
      <4>3. /\ counter_received[u] \in Nat /\ rtt_total[u] \in Nat /\ rtt_min[u] \in Nat
            /\ rtt_max[u] \in Nat /\ heard[u] \in SUBSET (Nat \ {0})
        BY <1>0 DEF Control, ThreadType
      <4>4. Measured(counter_received[u] + 1, rtt_total[u] + rtt, rtt_minNext(rtt_min[u], rtt),
                     IF rtt > rtt_max[u] THEN rtt ELSE rtt_max[u], heard[u] \cup {rtt})
        BY ONLY <2>2, <4>2, <4>3, CountPacketMeasures
      <4> QED BY <4>1, <4>4
    <3>2. CASE u # t
      BY <1>0, <2>1, <3>2 DEF countPacket, Control, ThreadType, Statistics
    <3> QED BY <3>1, <3>2
  <2> QED BY <2>3 DEF Statistics
<1>5. ASSUME NEW t \in Threads,
             \/ StopReceiver(t) \/ RunExit(t) \/ ReceiverEnds(t) \/ SendPacket(t)
             \/ \E l \in Levels : Duplicate(t, l)
      PROVE  Statistics'
  BY <1>0, <1>5 DEF StopReceiver, RunExit, ReceiverEnds, SendPacket, Duplicate, stats, Statistics
<1> QED BY <1>1, <1>2, <1>3, <1>4, <1>5 DEF Next, Main, Thread, Traffic

-----------------------------------------------------------------------------
(* The invariant, and what follows from it                                 *)

LEMMA NextKeepsControl == IInv /\ [Next]_vars => Control'
<1> SUFFICES ASSUME IInv, [Next]_vars PROVE Control'
  OBVIOUS
<1>1. CASE Main \/ SignalHandler
  BY <1>1, MainKeepsControl
<1>2. CASE \E t \in Threads : Thread(t) \/ Traffic(t)
  BY <1>2, ThreadKeepsControl DEF IInv
<1>3. CASE UNCHANGED vars
  BY <1>3 DEF IInv, Control, MainType, ThreadType, Joined, Phases, InLevel, vars, share, threads,
      stats, network, history
<1> QED BY <1>1, <1>2, <1>3 DEF Next, Sleeps, Over

LEMMA SpecIInv == Spec => []IInv
<1>1. IInv /\ [Next]_vars => IInv'
  BY NextKeepsControl, NextKeepsSharing, NextKeepsBooks, NextKeepsNothingEarly, NextKeepsBalance,
     NextKeepsLines, NextKeepsStatistics DEF IInv
<1> QED BY InitIInv, <1>1, PTL DEF Spec

\* However many threads there are and whatever the rate is: when the threads are
\* started, the loop in UDPSender::run has distributed all of it, and evenly.
THEOREM SharesEven == Spec => []EvenShares
<1>1. IInv => EvenShares
  <2> SUFFICES ASSUME IInv, InLevel
               PROVE  /\ queries_rest = 0
                      /\ Counted(queryrate) = QueryRates[level]
                      /\ \A t \in Threads :
                            queryrate[t] - (QueryRates[level] \div ThreadCount) \in {0, 1}
    BY DEF EvenShares, InLevel
  <2>1. /\ next_thread = ThreadCount + 1 /\ queries_rest \in Nat
        /\ queries_rest <= (QueryRates[level] \div ThreadCount + 1) * 0
        /\ Counted(Shared) + queries_rest = QueryRates[level]
        /\ \A t \in Threads :
              t < next_thread => queryrate[t] - (QueryRates[level] \div ThreadCount) \in {0, 1}
    BY ThreadsFinite DEF IInv, Sharing
  <2>2. QueryRates[level] \div ThreadCount \in Nat
    <3>1. QueryRates[level] \in Nat
      BY SessionAssumption DEF IInv, Control, MainType, Levels
    <3> QED BY <3>1, ThreadsFinite
  <2>3. queries_rest = 0
    BY <2>1, <2>2
  <2>4. \A t \in Threads : t < next_thread
    BY <2>1, ThreadsFinite DEF Threads
  <2>5. Shared = queryrate
    BY <2>4 DEF Shared, IInv, Control, MainType
  <2>6. Counted(queryrate) \in Nat
    BY CountedNat DEF IInv, Control, MainType
  <2> QED BY <2>1, <2>3, <2>4, <2>5, <2>6
<1> QED BY SpecIInv, <1>1, PTL

\* No counter is reset before its level's results were taken, none is reported
\* twice, and nothing is counted after the results (getResults, stopThreads).
THEOREM EverythingReportedOnce == Spec => []ReportedOnce
<1>1. IInv => ReportedOnce
  BY DEF IInv, Books, InLevel, ReportedOnce
<1> QED BY SpecIInv, <1>1, PTL

\* Whatever the network loses, delays and duplicates: packages_lost is negative
\* only by duplicates and by answers to an earlier level.
THEOREM LossesExplained == Spec => []LostExplained
<1>1. IInv => LostExplained
  BY DEF IInv, Balance
<1> QED BY SpecIInv, <1>1, PTL

\* The counters that main reads without a lock, once a second, never go back
\* within a level.
THEOREM StatusNeverGoesBack == Spec => []StatusMonotone
<1>1. IInv => StatusMonotone
  BY DEF IInv, Lines
<1> QED BY SpecIInv, <1>1, PTL

\* countPacket() keeps minimum, maximum and sum of all round trips measured since
\* resetCounter(), for any number of them.
THEOREM StatisticsExact == Spec => []RttExact
<1>1. IInv => RttExact
  <2> SUFFICES ASSUME IInv, NEW t \in Threads
               PROVE  IF counter_received[t] = 0
                      THEN rtt_min[t] = 0 /\ rtt_max[t] = 0 /\ rtt_total[t] = 0
                      ELSE /\ rtt_min[t] = Min(heard[t]) /\ rtt_max[t] = Max(heard[t])
                           /\ rtt_min[t] * counter_received[t] <= rtt_total[t]
                           /\ rtt_total[t] <= rtt_max[t] * counter_received[t]
    BY DEF RttExact
  <2>1. Measured(counter_received[t], rtt_total[t], rtt_min[t], rtt_max[t], heard[t])
    BY DEF IInv, Statistics
  <2>2. heard[t] \in SUBSET Nat
    BY DEF IInv, Control, ThreadType
  <2>3. CASE counter_received[t] # 0
    <3>1. /\ rtt_min[t] \in heard[t] /\ rtt_max[t] \in heard[t]
          /\ \A h \in heard[t] : rtt_min[t] <= h /\ h <= rtt_max[t]
      BY <2>1, <2>3 DEF Measured
    <3>2. rtt_min[t] = Min(heard[t]) /\ rtt_max[t] = Max(heard[t])
      BY <2>2, <3>1 DEF Min, Max
    <3> QED BY <2>1, <2>3, <3>2 DEF Measured
  <2> QED BY <2>1, <2>3 DEF Measured
<1> QED BY SpecIInv, <1>1, PTL
=============================================================================
