----------------------------- MODULE EchoSession -----------------------------
(***************************************************************************)
(* A whole measurement of udpsender: UDPSender::main with its load levels, *)
(* the sender threads, their receivers, the network and the bouncer at the *)
(* other end.                                                              *)
(*                                                                         *)
(* SenderThread has the clockwork of a sender thread, and LoadPhase what   *)
(* it promises; of a level only its phases are left here.  What is new is  *)
(* what crosses the borders between threads and levels: the shares of the  *)
(* rate, datagrams that are lost, duplicated or late (the socket stays     *)
(* open from level to level), counters reset by one thread, written by     *)
(* another and read by a third, and the results of a level.                *)
(*                                                                         *)
(* A datagram is known by its thread and its level, and is under way from  *)
(* the sender's send() to the receiver's recv(); the bouncer is part of    *)
(* the way.  One that is lost stays under way for ever.  Clocks are left   *)
(* out: a round trip takes one of RoundTrips, a phase ends when it likes.  *)
(***************************************************************************)
EXTENDS Integers, FiniteSets, SequencesExt, FiniteSetsExt

CONSTANTS
    ThreadCount,   \* option -n
    QueryRates,    \* the rates of the load levels, a sequence (getQueryRates)
    Laufzeit,      \* option -l, seconds of load
    RoundTrips,    \* the round trip times the network may have, in ticks
    MaxUnlimited,  \* bound: packets a thread sends in a level without limit
    MaxDuplicates  \* bound: datagrams the network duplicates

(***************************************************************************)
(* No answer comes back within the same tick: 0 is also the mark for no    *)
(* minimum in countPacket().                                               *)
(***************************************************************************)
ASSUME SessionAssumption ==
    /\ ThreadCount \in Nat \ {0} /\ Laufzeit \in Nat \ {0}
    /\ Len(QueryRates) \in Nat
    /\ \A l \in 1..Len(QueryRates) : QueryRates[l] \in Nat
    /\ RoundTrips \subseteq Nat \ {0}
    /\ MaxUnlimited \in Nat /\ MaxDuplicates \in Nat

Threads == 1..ThreadCount
Levels == 1..Len(QueryRates)

VARIABLES
    \* UDPSender
    mpc,         \* where main is
    level,       \* index of the current rate
    stopFlag,    \* set by the signal handler
    next_thread, queries_rest,  \* the loop that distributes the rate
    previous_counter,           \* counters of the last status line
    result,      \* UDPSender::Results of the last level
    \* UDPEchoSenderThread, by thread
    tpc, queryrate, counter_send,
    \* UDPEchoReceiverThread, by thread
    rpc, rstop, counter_received, rtt_total, rtt_min, rtt_max,
    \* the network: datagrams under way, by thread and level
    underway, duplicates,
    \* history
    unreportedSent, unreportedRead, \* packets sent and answers read that no result has
    overdue,     \* answers counted in this level that belong to an earlier one
    heard        \* round trips measured in this level, by thread

share   == <<next_thread, queries_rest, queryrate>>
stats   == <<counter_received, rtt_total, rtt_min, rtt_max, heard>>
network == <<underway, duplicates>>
history == <<unreportedSent, unreportedRead, overdue>>
threads == <<tpc, counter_send, rpc, rstop, stats, network>>
vars    == <<mpc, level, stopFlag, share, previous_counter, result, threads, history>>

Everywhere(v) == [t \in Threads |-> v]

NoCounter == [send |-> 0, received |-> 0]

Init ==
    /\ mpc = "ready" /\ level = 0 /\ stopFlag = FALSE
    /\ next_thread = 1 /\ queries_rest = 0 /\ queryrate = Everywhere(0)
    /\ previous_counter = NoCounter
    /\ result = [packages_lost |-> 0, rtt_min |-> 0, rtt_max |-> 0]
    /\ tpc = Everywhere("ended") /\ counter_send = Everywhere(0)
    /\ rpc = Everywhere("ended") /\ rstop = Everywhere(FALSE)
    /\ counter_received = Everywhere(0) /\ rtt_total = Everywhere(0)
    /\ rtt_min = Everywhere(0) /\ rtt_max = Everywhere(0) /\ heard = Everywhere({})
    /\ underway = Everywhere([l \in Levels |-> 0]) /\ duplicates = 0
    /\ unreportedSent = 0 /\ unreportedRead = 0 /\ overdue = 0

-----------------------------------------------------------------------------
(* UDPSender::run and main                                                 *)

\* main goes on, and does nothing else.
MainTo(pc) ==
    /\ mpc' = pc
    /\ UNCHANGED <<level, stopFlag, share, previous_counter, result, threads, history>>

\* The next rate; the counters of the status lines start at 0.
StartLevel ==
    /\ mpc = "ready" /\ level < Len(QueryRates)
    /\ level' = level + 1
    /\ queries_rest' = QueryRates[level + 1]
    /\ next_thread' = 1
    /\ previous_counter' = NoCounter
    /\ mpc' = "share"
    /\ UNCHANGED <<stopFlag, queryrate, result, threads, history>>

threads_rest == ThreadCount - next_thread + 1

\* Mutants of queries_thread: the divisor is not lowered; always rounded up.
queries_threadOfAll == queries_rest \div ThreadCount
queries_thread == queries_rest \div threads_rest

\* The loop that gives every thread its share of what is left.
Share ==
    /\ mpc = "share" /\ next_thread <= ThreadCount
    /\ queryrate' = [queryrate EXCEPT ![next_thread] = queries_thread]
    /\ queries_rest' = queries_rest - queries_thread
    /\ next_thread' = next_thread + 1
    /\ UNCHANGED <<mpc, level, stopFlag, previous_counter, result, threads, history>>

StartThreads ==
    /\ mpc = "share" /\ next_thread > ThreadCount
    /\ tpc' = [t \in Threads |-> IF tpc[t] = "ended" THEN "born" ELSE tpc[t]]
    /\ mpc' = "settle"
    /\ UNCHANGED <<level, stopFlag, share, previous_counter, result, counter_send, rpc, rstop,
                   stats, network, history>>

\* Mutant of Settle: no sleep.
SettleNot == mpc = "settle" /\ MainTo("wait")

\* MSleep(500): by then every thread, and every receiver, has begun and has
\* reset its counters (the assumption called Settles in ThreadPool).
Settle ==
    /\ mpc = "settle"
    /\ \A t \in Threads : tpc[t] # "born" /\ rpc[t] # "born"
    /\ MainTo("wait")

\* threadpool.running()
running == \E t \in Threads : tpc[t] \notin {"ended", "born"}

\* getCounter(), thread by thread without a lock.
Counted(f) == SumFunctionOnSet(f, Threads)
getCounter == [send |-> Counted(counter_send), received |-> Counted(counter_received)]

\* A status line, once a second.  The head of the loop is 100 ms ago: since
\* then the threads may have ended, and a stop may have come.
StatusLine ==
    /\ mpc = "wait"
    /\ previous_counter' = getCounter
    /\ UNCHANGED <<mpc, level, stopFlag, share, result, threads, history>>

\* The loop ends; after an interrupt stopThreads() is called.
LevelOver ==
    /\ mpc = "wait" /\ (~running \/ stopFlag)
    /\ MainTo(IF stopFlag THEN "stopping" ELSE "results")

\* Mutant of Stopped: does not wait for the threads.
StoppedNot == mpc = "stopping" /\ MainTo("interrupted")

\* stopThreads() has returned; OperationInterruptedException.
Stopped == mpc = "stopping" /\ ~running /\ MainTo("interrupted")

\* The minimum over the first n threads of the pool as getResults() computes it.
MinUpTo[n \in 0..ThreadCount] ==
    IF n = 0 THEN 0
    ELSE IF MinUpTo[n - 1] = 0 \/ rtt_min[n] < MinUpTo[n - 1] THEN rtt_min[n]
    ELSE MinUpTo[n - 1]

\* Mutant of packages_lost: swapped.
packages_lostSwapped == Counted(counter_received) - Counted(counter_send)

packages_lost == Counted(counter_send) - Counted(counter_received)

\* getResults(), and what is printed and saved of it.
GetResults ==
    /\ mpc \in {"results", "interrupted"}
    /\ result' = [packages_lost |-> packages_lost,
                  rtt_min |-> MinUpTo[ThreadCount],
                  rtt_max |-> Max({rtt_max[t] : t \in Threads})]
    /\ unreportedSent' = unreportedSent - Counted(counter_send)
    /\ unreportedRead' = unreportedRead - Counted(counter_received)
    /\ mpc' = IF mpc = "results" THEN "ready" ELSE "over"
    /\ UNCHANGED <<level, stopFlag, share, previous_counter, threads, overdue>>

AllLevelsDone == mpc = "ready" /\ level = Len(QueryRates) /\ MainTo("over")

\* sighandler()
SignalHandler ==
    /\ mpc # "over" /\ ~stopFlag
    /\ stopFlag' = TRUE
    /\ UNCHANGED <<mpc, level, share, previous_counter, result, threads, history>>

-----------------------------------------------------------------------------
(* UDPEchoSenderThread                                                     *)

mainKeeps == UNCHANGED <<mpc, level, stopFlag, share, previous_counter, result>>

\* receiver.resetCounter()
ResetCounter(t) ==
    /\ counter_received' = [counter_received EXCEPT ![t] = 0]
    /\ rtt_total' = [rtt_total EXCEPT ![t] = 0]
    /\ rtt_min' = [rtt_min EXCEPT ![t] = 0]
    /\ rtt_max' = [rtt_max EXCEPT ![t] = 0]
    /\ heard' = [heard EXCEPT ![t] = {}]

\* The head of run(): counters, and the receiver's start.
RunReset(t) ==
    /\ tpc[t] = "born"
    /\ ResetCounter(t)
    /\ rpc' = [rpc EXCEPT ![t] = "born"]
    /\ counter_send' = [counter_send EXCEPT ![t] = 0]
    /\ tpc' = [tpc EXCEPT ![t] = "load"]
    /\ overdue' = IF \A u \in Threads : tpc[u] = "born" THEN 0 ELSE overdue
    /\ mainKeeps
    /\ UNCHANGED <<unreportedSent, unreportedRead, rstop, network>>

\* What a level may send: a rate of 0 means as much as possible.
Quota(t) == IF queryrate[t] > 0 THEN Laufzeit * queryrate[t] ELSE MaxUnlimited

\* sendPacket(): the datagram leaves.  A send() that fails uses up some of the
\* quota, which here is a load that ends early.
SendPacket(t) ==
    /\ tpc[t] = "load" /\ counter_send[t] < Quota(t)
    /\ counter_send' = [counter_send EXCEPT ![t] = @ + 1]
    /\ unreportedSent' = unreportedSent + 1
    /\ underway' = [underway EXCEPT ![t][level] = @ + 1]
    /\ mainKeeps
    /\ UNCHANGED <<tpc, rpc, rstop, stats, duplicates, unreportedRead, overdue>>

\* Mutant of StopReceiver: the receiver is not told.
StopReceiverUnsignalled(t) ==
    /\ tpc[t] = "load" /\ rpc[t] # "born"
    /\ tpc' = [tpc EXCEPT ![t] = "join"]
    /\ mainKeeps
    /\ UNCHANGED <<counter_send, rpc, rstop, stats, network, history>>

\* The quota is used up, the time is over, or a stop was seen (LoadPhase); then
\* waitForTimeout(), and receiver.threadStop().  The receiver is up by then
\* (NoOrphanReceiver in SenderThread).
StopReceiver(t) ==
    /\ tpc[t] = "load" /\ rpc[t] # "born"
    /\ tpc' = [tpc EXCEPT ![t] = "join"]
    /\ rstop' = [rstop EXCEPT ![t] = TRUE]
    /\ mainKeeps
    /\ UNCHANGED <<counter_send, rpc, stats, network, history>>

\* Mutant of RunExit: does not wait for the receiver.
RunExitAtOnce(t) ==
    /\ tpc[t] = "join"
    /\ tpc' = [tpc EXCEPT ![t] = "ended"]
    /\ mainKeeps
    /\ UNCHANGED <<counter_send, rpc, rstop, stats, network, history>>

\* threadStop() returns when the receiver has ended; so does run().
RunExit(t) ==
    /\ tpc[t] = "join" /\ rpc[t] = "ended"
    /\ rstop' = [rstop EXCEPT ![t] = FALSE]
    /\ tpc' = [tpc EXCEPT ![t] = "ended"]
    /\ mainKeeps
    /\ UNCHANGED <<counter_send, rpc, stats, network, history>>

-----------------------------------------------------------------------------
(* UDPEchoReceiverThread                                                   *)

\* run() resets the counters once more before its loop.
ReceiverReset(t) ==
    /\ rpc[t] = "born"
    /\ ResetCounter(t)
    /\ rpc' = [rpc EXCEPT ![t] = "loop"]
    /\ mainKeeps
    /\ UNCHANGED <<tpc, counter_send, rstop, network, history>>

rtt_minNext(m, rtt) == IF m = 0 \/ rtt < m THEN rtt ELSE m

\* Mutant of countPacket: the sum keeps the last round trip only.
countPacketLast(t, rtt) ==
    /\ counter_received' = [counter_received EXCEPT ![t] = @ + 1]
    /\ rtt_total' = [rtt_total EXCEPT ![t] = rtt]
    /\ rtt_min' = [rtt_min EXCEPT ![t] = rtt_minNext(@, rtt)]
    /\ rtt_max' = [rtt_max EXCEPT ![t] = IF rtt > @ THEN rtt ELSE @]
    /\ heard' = [heard EXCEPT ![t] = @ \cup {rtt}]

countPacket(t, rtt) ==
    /\ counter_received' = [counter_received EXCEPT ![t] = @ + 1]
    /\ rtt_total' = [rtt_total EXCEPT ![t] = @ + rtt]
    /\ rtt_min' = [rtt_min EXCEPT ![t] = rtt_minNext(@, rtt)]
    /\ rtt_max' = [rtt_max EXCEPT ![t] = IF rtt > @ THEN rtt ELSE @]
    /\ heard' = [heard EXCEPT ![t] = @ \cup {rtt}]

\* recv() returns an answer, of whatever level.
Receive(t, l) ==
    /\ rpc[t] = "loop" /\ underway[t][l] > 0
    /\ underway' = [underway EXCEPT ![t][l] = @ - 1]
    /\ \E rtt \in RoundTrips : countPacket(t, rtt)
    /\ unreportedRead' = unreportedRead + 1
    /\ overdue' = IF l < level THEN overdue + 1 ELSE overdue
    /\ mainKeeps
    /\ UNCHANGED <<tpc, counter_send, rpc, rstop, duplicates, unreportedSent>>

\* The look at the stop flag once a second.
ReceiverEnds(t) ==
    /\ rpc[t] = "loop" /\ rstop[t]
    /\ rpc' = [rpc EXCEPT ![t] = "ended"]
    /\ mainKeeps
    /\ UNCHANGED <<tpc, counter_send, rstop, stats, network, history>>

-----------------------------------------------------------------------------
\* The network delivers a datagram twice.
Duplicate(t, l) ==
    /\ underway[t][l] > 0 /\ duplicates < MaxDuplicates
    /\ underway' = [underway EXCEPT ![t][l] = @ + 1]
    /\ duplicates' = duplicates + 1
    /\ mainKeeps
    /\ UNCHANGED <<tpc, counter_send, rpc, rstop, stats, history>>

Main ==
    \/ StartLevel \/ Share \/ StartThreads \/ Settle \/ StatusLine \/ LevelOver \/ Stopped
    \/ GetResults \/ AllLevelsDone

Thread(t) == RunReset(t) \/ StopReceiver(t) \/ RunExit(t) \/ ReceiverReset(t) \/ ReceiverEnds(t)

Traffic(t) == SendPacket(t) \/ \E l \in Levels : Receive(t, l) \/ Duplicate(t, l)

\* run() and stopThreads() sleep and look again; the program is over.
Sleeps == mpc \in {"wait", "stopping"} /\ running /\ UNCHANGED vars
Over == mpc = "over" /\ UNCHANGED vars

Next == Main \/ SignalHandler \/ Sleeps \/ Over \/ \E t \in Threads : Thread(t) \/ Traffic(t)

Spec == Init /\ [][Next]_vars

(***************************************************************************)
(* main and the threads are scheduled; every phase of a level is bounded   *)
(* by the clock, as SenderThread shows.  The network owes nothing.         *)
(***************************************************************************)
FairSpec ==
    /\ Spec
    /\ WF_vars(Main)
    /\ \A t \in Threads :
          /\ WF_vars(RunReset(t)) /\ WF_vars(StopReceiver(t)) /\ WF_vars(RunExit(t))
          /\ WF_vars(ReceiverReset(t)) /\ WF_vars(ReceiverEnds(t))

-----------------------------------------------------------------------------
(* Properties                                                              *)

\* "Konfiguriert die Workerthreads mit der gewuenschten Last" (UDPSender::run):
\* the whole rate is distributed, and no two threads differ by more than one.
EvenShares ==
    mpc \in {"settle", "wait", "stopping", "results", "interrupted"} =>
        /\ queries_rest = 0
        /\ Counted(queryrate) = QueryRates[level]
        /\ \A t \in Threads :
              queryrate[t] - (QueryRates[level] \div ThreadCount) \in {0, 1}

\* Every packet sent and every answer read from a socket is reported in the
\* results of exactly one level: no counter is reset before it was reported or
\* reported twice, and no receiver counts after the results were taken, not
\* even when the program is interrupted.
ReportedOnce ==
    mpc \in {"ready", "share", "over"} =>
        unreportedSent = 0 /\ unreportedRead = 0

\* packages_lost is below zero only by duplicates and by answers that belong to
\* an earlier level.
LostExplained ==
    mpc \in {"ready", "over"} => result.packages_lost + duplicates + overdue >= 0

\* A status line never shows less than the one before: the counters of the
\* previous level are gone when main first reads them.
StatusMonotone ==
    mpc = "wait" =>
        /\ previous_counter.send <= Counted(counter_send)
        /\ previous_counter.received <= Counted(counter_received)

\* The statistics of a receiver are those of the round trips it has measured.
RttExact ==
    \A t \in Threads :
        IF counter_received[t] = 0
        THEN rtt_min[t] = 0 /\ rtt_max[t] = 0 /\ rtt_total[t] = 0
        ELSE /\ rtt_min[t] = Min(heard[t]) /\ rtt_max[t] = Max(heard[t])
             /\ rtt_min[t] * counter_received[t] <= rtt_total[t]
             /\ rtt_total[t] <= rtt_max[t] * counter_received[t]

\* The measurement comes to an end, whatever the network does.
SessionEnds == <>(mpc = "over")

\* "-r # Queryrate" (help): a level with a rate does not send more than that.
RateRespected ==
    level > 0 /\ QueryRates[level] > 0 /\ mpc \in {"wait", "results"} =>
        Counted(counter_send) <= Laufzeit * QueryRates[level]

\* "berechnet das Gesamtergebnis" (getResults): the minimum of a level is the
\* shortest round trip one of its threads has measured.
MinimumMeasured ==
    mpc = "ready" /\ result.rtt_max > 0 => result.rtt_min = Min(UNION {heard[t] : t \in Threads})

=============================================================================
