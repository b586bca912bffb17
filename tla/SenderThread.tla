---------------------------- MODULE SenderThread ----------------------------
(***************************************************************************)
(* One load-generating thread of udpsender: class UDPEchoSenderThread      *)
(* (src/src/UDPEchoSenderThread.cpp), run once per load level by           *)
(* UDPSender::main.  The thread sends packets for `runtime' seconds, either *)
(* spread over time slices (runWithRateLimit) or as fast as the socket     *)
(* takes them (runWithoutRateLimit), waits `timeout' seconds for late      *)
(* replies (waitForTimeout) and stops its receiver thread.                 *)
(*                                                                         *)
(* Time is an integer number of ticks.  Every call of GetMicrotime() or    *)
(* getNsec() is a step of its own, so the clock may advance by any amount  *)
(* between two readings (a stall, a preemption, a slow system call).       *)
(***************************************************************************)
EXTENDS Integers

CONSTANTS
    Second,          \* ticks per second
    Runtime,         \* setRuntime: seconds of load (option -l)
    Zeitscheibe,     \* setZeitscheibe: ticks per time slice (option -i)
    Timeout,         \* setTimeout: seconds to wait for replies (option -t)
    CheckInterval,   \* the 0.1 s between two looks at the stop flag
    StartLatency,    \* ticks a created receiver needs at most to get going
    QueryRates,      \* this thread's shares of the rates of the load levels
    IgnoreResponses, \* setIgnoreResponses: no receiver thread (--ignore)
    Errnos,          \* errno values below 255 that send() may report
    MaxLevels,       \* bound: load levels in a behaviour
    MaxClock,        \* bound: last tick at which a busy thread may stall
    MaxUnlimited     \* bound: packets of a level without rate limit

(***************************************************************************)
(* UDPSender::main replaces a runtime or timeout of 0 by its default, and  *)
(* setZeitscheibe refuses 0 and more than a second.  The receiver is       *)
(* assumed to be scheduled within the 0.1 s check interval.                *)
(***************************************************************************)
ASSUME TimingAssumption ==
    /\ Second \in Nat \ {0}
    /\ Runtime \in Nat \ {0}
    /\ Timeout \in Nat \ {0}
    /\ Zeitscheibe \in 1..Second
    /\ CheckInterval \in 1..Second
    /\ StartLatency \in 0..(CheckInterval - 1)

ASSUME RateAssumption ==
    /\ QueryRates \subseteq Nat
    /\ IgnoreResponses \in BOOLEAN

ASSUME BoundAssumption ==
    /\ MaxLevels \in Nat
    /\ MaxClock \in Nat
    /\ MaxUnlimited \in Nat

VARIABLES
    pc,        \* where the thread is in run()
    clock,     \* the system clock
    stopFlag,  \* main's stopFlag: the program was interrupted
    flags,     \* bit 0 of Thread::flags: the thread is asked to stop
    queryrate, \* setQueryRate: 0 means no rate limit
    level,     \* load levels started so far
    counter_send, errors, counter_0bytes, counter_errorcodes,
    duration,  \* length of the load phase, the divisor of the results
    begin,     \* local `start' of run()
    now, end, next_checktime,      \* locals of the three loops
    naechste_zeitscheibe, z, i, queries_rest, queries_pro_zeitscheibe,
    receiver,       \* the receiver thread: "none", "created" or "running"
    receiverStop,   \* its stop flag
    receiverBorn,   \* when it was created
    stoppedAt       \* history: when the stop was requested

counters == <<counter_send, errors, counter_0bytes, counter_errorcodes>>
loop     == <<now, end, next_checktime>>
slices   == <<naechste_zeitscheibe, z, i, queries_rest, queries_pro_zeitscheibe>>
rcv      == <<receiver, receiverStop, receiverBorn>>
control  == <<stopFlag, flags, queryrate, level, stoppedAt>>
vars     == <<pc, clock, control, counters, duration, begin, loop, slices, rcv>>

RatePc == {"rate_now", "rate_end", "slice", "send", "sleep", "check", "check_end"}
FreePc == {"free_init", "select", "free_send", "free_now", "free_check"}
TailPc == {"timeout_init", "timeout", "stop_receiver", "join", "exit"}
Pc == {"idle", "run", "begin", "loaded"} \cup RatePc \cup FreePc \cup TailPc

RuntimeTicks == Runtime * Second
TimeoutTicks == Timeout * Second

\* int64_t total_zeitscheiben=runtime*1000/(Zeitscheibe*1000.0)
total_zeitscheiben == RuntimeTicks \div Zeitscheibe

\* runtime*queryrate
Queries(rate) == Runtime * rate

Init ==
    /\ pc = "idle"
    /\ clock = 0
    /\ stopFlag = FALSE /\ flags = FALSE /\ queryrate = 0 /\ level = 0 /\ stoppedAt = 0
    /\ counter_send = 0 /\ errors = 0 /\ counter_0bytes = 0
    /\ counter_errorcodes = [e \in Errnos |-> 0]
    /\ duration = 0 /\ begin = 0
    /\ now = 0 /\ end = 0 /\ next_checktime = 0
    /\ naechste_zeitscheibe = 0 /\ z = 0 /\ i = 0
    /\ queries_rest = 0 /\ queries_pro_zeitscheibe = 0
    /\ receiver = "none" /\ receiverStop = FALSE /\ receiverBorn = 0

-----------------------------------------------------------------------------
(* The surroundings: main, the clock and the receiver thread.              *)

\* UDPSender::run: setQueryRate and startThreads for the next load level; after
\* an interrupt main starts no further level.
Start ==
    /\ pc = "idle"
    /\ level < MaxLevels
    /\ ~stopFlag
    /\ \E q \in QueryRates : queryrate' = q
    /\ level' = level + 1
    /\ pc' = "run"
    /\ UNCHANGED <<clock, stopFlag, flags, stoppedAt, counters, duration, begin, loop, slices, rcv>>

\* The signal handler sets stopFlag; UDPSender::run polls it and calls
\* stopThreads, which sets the flag of every running thread and waits for it.
RequestStop ==
    /\ pc # "idle"
    /\ ~stopFlag
    /\ stopFlag' = TRUE
    /\ flags' = TRUE
    /\ stoppedAt' = clock
    /\ UNCHANGED <<pc, clock, queryrate, level, counters, duration, begin, loop, slices, rcv>>

\* The thread is in select(), nanosleep() or MSleep(): time passes up to the
\* deadline it waits for.
Waiting ==
    \/ pc = "select" /\ clock <= end
    \/ pc = "sleep" /\ clock < naechste_zeitscheibe
    \/ pc = "timeout" /\ clock < end

\* Time is observed by a running thread only; it may stall, or oversleep, up to
\* MaxClock.
Tick ==
    /\ Waiting \/ (clock < MaxClock /\ pc # "idle")
    /\ receiver = "created" => clock < receiverBorn + StartLatency
    /\ clock' = clock + 1
    /\ UNCHANGED <<pc, control, counters, duration, begin, loop, slices, rcv>>

\* The receiver's threadStartUp sets IsRunning.
ReceiverStartUp ==
    /\ receiver = "created"
    /\ receiver' = "running"
    /\ receiverBorn' = 0
    /\ UNCHANGED <<pc, clock, control, counters, duration, begin, loop, slices, receiverStop>>

\* The receiver's run() sees threadShouldStop() and returns.
ReceiverExit ==
    /\ receiver = "running"
    /\ receiverStop
    /\ receiver' = "none"
    /\ receiverStop' = FALSE
    /\ UNCHANGED <<pc, clock, control, counters, duration, begin, loop, slices, receiverBorn>>

-----------------------------------------------------------------------------
(* UDPEchoSenderThread::run                                                *)

\* Locals of a function that has returned.
ForgetLoop == now' = 0 /\ end' = 0 /\ next_checktime' = 0
ForgetSlices ==
    /\ naechste_zeitscheibe' = 0 /\ z' = 0 /\ i' = 0
    /\ queries_rest' = 0 /\ queries_pro_zeitscheibe' = 0

\* Mutant of RunReset: the error counters survive from level to level.
RunResetKeepsErrors ==
    /\ pc = "run"
    /\ IF IgnoreResponses
       THEN UNCHANGED rcv
       ELSE /\ receiver' = "created"
            /\ receiverBorn' = clock
            /\ UNCHANGED receiverStop
    /\ counter_send' = 0
    /\ duration' = 0
    /\ pc' = "begin"
    /\ UNCHANGED <<clock, control, errors, counter_0bytes, counter_errorcodes, begin, loop, slices>>

\* Starts the receiver unless responses are ignored, and clears the counters.
RunReset ==
    /\ pc = "run"
    /\ IF IgnoreResponses
       THEN UNCHANGED rcv
       ELSE /\ receiver' = "created"
            /\ receiverBorn' = clock
            /\ UNCHANGED receiverStop
    /\ counter_send' = 0 /\ errors' = 0 /\ counter_0bytes' = 0
    /\ counter_errorcodes' = [e \in Errnos |-> 0]
    /\ duration' = 0
    /\ pc' = "begin"
    /\ UNCHANGED <<clock, control, begin, loop, slices>>

\* start=GetMicrotime(), then the branch on queryrate>0.
RunBegin ==
    /\ pc = "begin"
    /\ begin' = clock
    /\ pc' = IF queryrate > 0 THEN "rate_now" ELSE "free_init"
    /\ UNCHANGED <<clock, control, counters, duration, loop, slices, rcv>>

\* Mutant of RunDuration: the length is taken from the last reading of the loop.
RunDurationFromLoop ==
    /\ pc = "loaded"
    /\ duration' = clock - now
    /\ ForgetSlices
    /\ ForgetLoop
    /\ pc' = "timeout_init"
    /\ UNCHANGED <<clock, control, counters, begin, rcv>>

\* The load loop has returned (its locals are gone): duration=GetMicrotime()-start.
RunDuration ==
    /\ pc = "loaded"
    /\ duration' = clock - begin
    /\ ForgetSlices
    /\ ForgetLoop
    /\ pc' = "timeout_init"
    /\ UNCHANGED <<clock, control, counters, begin, rcv>>

\* Mutant of RunStopReceiver: the receiver is awaited without being told to stop.
RunStopReceiverUnsignalled ==
    /\ pc = "stop_receiver"
    /\ ForgetLoop
    /\ pc' = "join"
    /\ UNCHANGED <<clock, control, counters, duration, begin, slices, rcv>>

\* receiver.threadStop(): raise the flag ...
RunStopReceiver ==
    /\ pc = "stop_receiver"
    /\ receiverStop' = TRUE
    /\ ForgetLoop
    /\ pc' = "join"
    /\ UNCHANGED <<clock, control, counters, duration, begin, slices, receiver, receiverBorn>>

\* Mutant of RunJoinReceiver: threadSignalStop in place of threadStop.
RunJoinReceiverAtOnce ==
    /\ pc = "join"
    /\ pc' = "exit"
    /\ UNCHANGED <<clock, control, counters, duration, begin, loop, slices, rcv>>

\* ... and poll until IsRunning is 0, then lower the flag.
RunJoinReceiver ==
    /\ pc = "join"
    /\ receiver # "running"
    /\ receiverStop' = FALSE
    /\ pc' = "exit"
    /\ UNCHANGED <<clock, control, counters, duration, begin, loop, slices,
                   receiver, receiverBorn>>

\* threadStartUp after run(): flags=0, IsRunning=0.
RunExit ==
    /\ pc = "exit"
    /\ flags' = FALSE
    /\ stoppedAt' = 0
    /\ pc' = "idle"
    /\ UNCHANGED <<clock, stopFlag, queryrate, level, counters, duration, begin, loop,
                   slices, rcv>>

-----------------------------------------------------------------------------
(* sendPacket: every call ends in exactly one of three counters.           *)

SendFull ==
    /\ counter_send' = counter_send + 1
    /\ UNCHANGED <<errors, counter_0bytes, counter_errorcodes>>

SendError ==
    /\ errors' = errors + 1
    /\ \E e \in Errnos :
          counter_errorcodes' = [counter_errorcodes EXCEPT ![e] = @ + 1]
    /\ UNCHANGED <<counter_send, counter_0bytes>>

SendNothing ==
    /\ counter_0bytes' = counter_0bytes + 1
    /\ UNCHANGED <<counter_send, errors, counter_errorcodes>>

sendPacket == SendFull \/ SendError \/ SendNothing

\* Calls of sendPacket since the counters were cleared.
Attempts == counter_send + errors + counter_0bytes

-----------------------------------------------------------------------------
(* runWithRateLimit                                                        *)

RateNow ==
    /\ pc = "rate_now"
    /\ queries_rest' = Queries(queryrate)
    /\ now' = clock
    /\ naechste_zeitscheibe' = clock
    /\ next_checktime' = clock + CheckInterval
    /\ z' = 0 /\ i' = 0 /\ queries_pro_zeitscheibe' = 0
    /\ pc' = "rate_end"
    /\ UNCHANGED <<clock, control, counters, duration, begin, end, rcv>>

RateEnd ==
    /\ pc = "rate_end"
    /\ end' = clock + RuntimeTicks
    /\ pc' = "slice"
    /\ UNCHANGED <<clock, control, counters, duration, begin, now, next_checktime, slices, rcv>>

restscheiben == total_zeitscheiben - z

\* Mutants of SliceShare: the average over all slices; one packet too many.
SliceShareOfTotal ==
    IF restscheiben = 1 THEN queries_rest ELSE queries_rest \div total_zeitscheiben
SliceShareRoundedUp ==
    IF restscheiben = 1 THEN queries_rest ELSE queries_rest \div restscheiben + 1

\* Packets of the slice that is about to begin.
SliceShare == IF restscheiben = 1 THEN queries_rest ELSE queries_rest \div restscheiben

\* The head of the for loop: another slice, or the end of the load phase.
RateSlice ==
    /\ pc = "slice"
    /\ IF z < total_zeitscheiben
       THEN /\ naechste_zeitscheibe' = naechste_zeitscheibe + Zeitscheibe
            /\ queries_pro_zeitscheibe' = SliceShare
            /\ i' = 0
            /\ pc' = "send"
            /\ UNCHANGED <<z, queries_rest>>
       ELSE /\ pc' = "loaded"
            /\ UNCHANGED slices
    /\ UNCHANGED <<clock, control, counters, duration, begin, loop, rcv>>

RateSend ==
    /\ pc = "send"
    /\ i < queries_pro_zeitscheibe
    /\ sendPacket
    /\ i' = i + 1
    /\ UNCHANGED <<pc, clock, control, duration, begin, loop, naechste_zeitscheibe, z,
                   queries_rest, queries_pro_zeitscheibe, rcv>>

RateSent ==
    /\ pc = "send"
    /\ i >= queries_pro_zeitscheibe
    /\ queries_rest' = queries_rest - queries_pro_zeitscheibe
    /\ pc' = "sleep"
    /\ UNCHANGED <<clock, control, counters, duration, begin, loop, naechste_zeitscheibe, z,
                   i, queries_pro_zeitscheibe, rcv>>

\* Mutant of RateSleep: does not wait for the end of the slice.
RateSleepNot ==
    /\ pc = "sleep"
    /\ now' = clock
    /\ pc' = "check"
    /\ UNCHANGED <<clock, control, counters, duration, begin, end, next_checktime, slices, rcv>>

\* The inner while: sleeps until a reading of the clock is past the slice.
RateSleep ==
    /\ pc = "sleep"
    /\ clock >= naechste_zeitscheibe
    /\ now' = clock
    /\ pc' = "check"
    /\ UNCHANGED <<clock, control, counters, duration, begin, end, next_checktime, slices, rcv>>

NextSlice ==
    /\ z' = z + 1
    /\ pc' = "slice"
    /\ UNCHANGED <<naechste_zeitscheibe, i, queries_rest, queries_pro_zeitscheibe>>

\* Mutant of RateCheck: the stop flag is not looked at.
RateCheckDeaf ==
    /\ pc = "check"
    /\ \/ /\ now > next_checktime
          /\ next_checktime' = now + CheckInterval
          /\ pc' = "check_end"
          /\ UNCHANGED slices
       \/ /\ now <= next_checktime
          /\ NextSlice
          /\ UNCHANGED next_checktime
    /\ UNCHANGED <<clock, control, counters, duration, begin, now, end, rcv>>

\* Looks at the stop flag, at most every CheckInterval.
RateCheck ==
    /\ pc = "check"
    /\ \/ /\ now > next_checktime
          /\ next_checktime' = now + CheckInterval
          /\ pc' = IF flags THEN "loaded" ELSE "check_end"
          /\ UNCHANGED slices
       \/ /\ now <= next_checktime
          /\ NextSlice
          /\ UNCHANGED next_checktime
    /\ UNCHANGED <<clock, control, counters, duration, begin, now, end, rcv>>

\* Mutant of RateCheckEnd: compares with the end of the slice.
RateCheckEndOfSlice ==
    /\ pc = "check_end"
    /\ \/ /\ clock >= naechste_zeitscheibe
          /\ pc' = "loaded"
          /\ UNCHANGED slices
       \/ /\ clock < naechste_zeitscheibe
          /\ NextSlice
    /\ UNCHANGED <<clock, control, counters, duration, begin, loop, rcv>>

\* if (ppl7::GetMicrotime()>=end) break;
RateCheckEnd ==
    /\ pc = "check_end"
    /\ \/ /\ clock >= end
          /\ pc' = "loaded"
          /\ UNCHANGED slices
       \/ /\ clock < end
          /\ NextSlice
    /\ UNCHANGED <<clock, control, counters, duration, begin, loop, rcv>>

-----------------------------------------------------------------------------
(* runWithoutRateLimit                                                     *)

FreeInit ==
    /\ pc = "free_init"
    /\ end' = clock + RuntimeTicks
    /\ next_checktime' = clock + CheckInterval
    /\ pc' = "select"
    /\ UNCHANGED <<clock, control, counters, duration, begin, now, slices, rcv>>

\* socketReady(): writable, or select() timed out or failed.
FreeSelect ==
    /\ pc = "select"
    /\ \/ Attempts < MaxUnlimited /\ pc' = "free_send"
       \/ pc' = "free_now"
    /\ UNCHANGED <<clock, control, counters, duration, begin, loop, slices, rcv>>

FreeSend ==
    /\ pc = "free_send"
    /\ sendPacket
    /\ pc' = "free_now"
    /\ UNCHANGED <<clock, control, duration, begin, loop, slices, rcv>>

FreeNow ==
    /\ pc = "free_now"
    /\ now' = clock
    /\ pc' = "free_check"
    /\ UNCHANGED <<clock, control, counters, duration, begin, end, next_checktime, slices, rcv>>

\* Mutant of FreeCheck: the check time moves on without a look at the flag.
FreeCheckDeaf ==
    /\ pc = "free_check"
    /\ next_checktime' = IF now > next_checktime THEN now + CheckInterval ELSE next_checktime
    /\ pc' = IF now > end THEN "loaded" ELSE "select"
    /\ UNCHANGED <<clock, control, counters, duration, begin, now, end, slices, rcv>>

FreeCheck ==
    /\ pc = "free_check"
    /\ next_checktime' = IF now > next_checktime THEN now + CheckInterval ELSE next_checktime
    /\ pc' = IF (now > next_checktime /\ flags) \/ now > end THEN "loaded" ELSE "select"
    /\ UNCHANGED <<clock, control, counters, duration, begin, now, end, slices, rcv>>

-----------------------------------------------------------------------------
(* waitForTimeout                                                          *)

TimeoutInit ==
    /\ pc = "timeout_init"
    /\ end' = clock + TimeoutTicks
    /\ next_checktime' = clock + CheckInterval
    /\ pc' = "timeout"
    /\ UNCHANGED <<clock, control, counters, duration, begin, now, slices, rcv>>

\* One turn of the loop: read the clock, look at the flag when it is time,
\* sleep 10 ms.
TimeoutPoll ==
    /\ pc = "timeout"
    /\ now' = clock
    /\ \/ /\ clock >= end
          /\ pc' = "stop_receiver"
          /\ UNCHANGED next_checktime
       \/ /\ clock < end
          /\ clock > next_checktime
          /\ next_checktime' = clock + CheckInterval
          /\ pc' = IF flags THEN "stop_receiver" ELSE "timeout"
       \/ /\ clock < end
          /\ clock <= next_checktime
          /\ UNCHANGED <<pc, next_checktime>>
    /\ UNCHANGED <<clock, control, counters, duration, begin, end, slices, rcv>>

-----------------------------------------------------------------------------
\* The steps of the thread itself.
Thread ==
    \/ RunReset \/ RunBegin \/ RunDuration \/ RunStopReceiver \/ RunJoinReceiver \/ RunExit
    \/ RateNow \/ RateEnd \/ RateSlice \/ RateSend \/ RateSent \/ RateSleep
    \/ RateCheck \/ RateCheckEnd
    \/ FreeInit \/ FreeSelect \/ FreeSend \/ FreeNow \/ FreeCheck
    \/ TimeoutInit \/ TimeoutPoll

\* main has no further load level: the process ends.
Finished ==
    /\ pc = "idle"
    /\ level = MaxLevels \/ stopFlag
    /\ UNCHANGED vars

Next == Start \/ RequestStop \/ Tick \/ ReceiverStartUp \/ ReceiverExit \/ Thread \/ Finished

Spec == Init /\ [][Next]_vars

(***************************************************************************)
(* The kernel schedules both threads, and time does not stand still: a     *)
(* loop that sleeps again and again sees the clock advance.                *)
(***************************************************************************)
FairSpec ==
    /\ Spec
    /\ WF_vars(Thread)
    /\ SF_vars(Tick)
    /\ WF_vars(ReceiverStartUp)
    /\ WF_vars(ReceiverExit)

-----------------------------------------------------------------------------
(* Properties                                                              *)

\* Every variable keeps its type; the counters of UDPEchoSenderThread never
\* become negative.
TypeOK ==
    /\ pc \in Pc
    /\ clock \in Nat /\ stoppedAt \in Nat
    /\ stopFlag \in BOOLEAN /\ flags \in BOOLEAN
    /\ queryrate \in Nat /\ level \in Nat
    /\ counter_send \in Nat /\ errors \in Nat /\ counter_0bytes \in Nat
    /\ counter_errorcodes \in [Errnos -> Nat]
    /\ duration \in Nat /\ begin \in Nat
    /\ now \in Nat /\ end \in Nat /\ next_checktime \in Nat
    /\ naechste_zeitscheibe \in Nat /\ z \in Nat /\ i \in Nat
    /\ queries_rest \in Nat /\ queries_pro_zeitscheibe \in Nat
    /\ receiver \in {"none", "created", "running"}
    /\ receiverStop \in BOOLEAN /\ receiverBorn \in Nat

\* Packets an even distribution of the quota sends in the first k slices: every
\* slice gets the floor of the average, the last Queries % total one more.
Plan(rate, k) ==
    LET base  == Queries(rate) \div total_zeitscheiben
        first == total_zeitscheiben - (Queries(rate) % total_zeitscheiben)
    IN  k * base + (IF k > first THEN k - first ELSE 0)

\* "gleichmaessig auf die Sekunde verteilen" (setQueryRate): although the share
\* of a slice is computed from what is left, at the start of every slice exactly
\* the planned number of sendPacket calls has been made and counted, and the
\* rest is still to be sent.
OnPlan ==
    pc = "slice" => /\ Attempts = Plan(queryrate, z)
                    /\ queries_rest = Queries(queryrate) - Attempts

\* Rate limiting never runs ahead: at any moment the packets attempted are at
\* most those planned for the slices begun by then, however the thread stalls
\* and catches up.
NeverAheadOfPlan ==
    pc \in RatePc \ {"rate_now", "rate_end"} =>
        Attempts <= Plan(queryrate, (clock - begin) \div Zeitscheibe + 1)

\* When the load phase of a rate-limited level is over, either the whole quota
\* runtime*queryrate was attempted, or the program was interrupted, or the load
\* phase took at least the runtime; the quota is never exceeded.
QuotaOrReason ==
    pc \in TailPc /\ queryrate > 0 =>
        /\ Attempts <= Queries(queryrate)
        /\ Attempts = Queries(queryrate) \/ stopFlag \/ duration >= RuntimeTicks

\* When the running loop was entered.
LoopStart == end - (IF pc = "timeout" THEN TimeoutTicks ELSE RuntimeTicks)

\* A stop is honoured within the check interval: once a reading of the clock is
\* more than 0.1 s after the stop request (and the start of the loop), none of
\* the three loops begins another round.
StopHonoured ==
    flags /\ pc \in {"slice", "select", "timeout"} =>
        \/ now <= stoppedAt + CheckInterval
        \/ now <= LoopStart + CheckInterval

\* The duration by which presentResults and saveResultsToCsv divide is never 0,
\* not even when the level is interrupted at once.
DurationPositive == pc \in TailPc => duration > 0

\* The receiver never outlives the run of its sender: between two levels there
\* is none, so that its next threadStart cannot throw and no old receiver
\* counts packets of a new level.
NoOrphanReceiver == pc \in {"idle", "run"} => receiver = "none"

\* Every started level ends: runWithRateLimit, runWithoutRateLimit and
\* waitForTimeout terminate and the receiver is joined.
LevelEnds == pc = "run" ~> pc = "idle"

=============================================================================
