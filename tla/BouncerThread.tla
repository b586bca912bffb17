---------------------------- MODULE BouncerThread ----------------------------
(***************************************************************************)
(* The echo server udpbouncer: worker threads (UDPEchoBouncerThread::run)  *)
(* that receive, echo and count datagrams, and the main thread             *)
(* (bouncer.cpp) that once a second collects and clears the counters of    *)
(* all workers (UDPEchoBouncer::getCounter, getAndClearCounter) and in the *)
(* end stops them.                                                         *)
(*                                                                         *)
(* The workers update their counters without the mutex: its lock() and     *)
(* unlock() are commented out in run().  Each `+=' is therefore a load and *)
(* a store, and the collector's copy and clear of the record access one    *)
(* field at a time, in any order.                                          *)
(***************************************************************************)
EXTENDS Integers, Sequences, FiniteSets, Functions

CONSTANTS
    Workers,     \* the threads of the pool (option -n)
    Sizes,       \* sizes of the datagrams clients send
    BufferSize,  \* the 4096 bytes recvfrom() may fill
    NoEcho,      \* setNoEcho (option --noecho)
    PacketSize,  \* setPacketSize (option -p), 0: as large as the request
    MaxPackets,  \* bound: datagrams in a behaviour
    MaxPasses,   \* bound: status lines the main thread prints
    MaxLag       \* bound: seconds a worker may be late with its check

ASSUME BouncerAssumption ==
    /\ IsFiniteSet(Workers)
    /\ Sizes \subseteq Nat \ {0}
    /\ BufferSize \in Nat \ {0}
    /\ NoEcho \in BOOLEAN
    /\ PacketSize \in Nat
    /\ MaxPackets \in Nat /\ MaxPasses \in Nat /\ MaxLag \in Nat

Fields == {"packets_received", "packets_send", "bytes_received", "bytes_send"}

\* The order in which run() updates the counters.
CountOrder == <<"bytes_send", "packets_send", "bytes_received", "packets_received">>

Zero == [f \in Fields |-> 0]

VARIABLES
    socket,   \* received datagrams not yet read, per worker
    wpc,      \* where a worker is in run()
    request,  \* size of the datagram a worker handles
    n,        \* what recvfrom() returned for it
    reply,    \* size of the last datagram passed to sendto()
    pos, reg, \* the counter being updated and the value loaded for it
    counter,  \* UDPEchoCounter of a worker
    lag,      \* seconds since next_check fell due, per worker
    flags,    \* the workers asked to stop (bit 0 of Thread::flags)
    mpc,      \* where the main thread is
    left,     \* workers still to be collected in this pass
    cur, todo, ret, \* getAndClearCounter: worker, fields to access, result
    total,    \* local `counter' of UDPEchoBouncer::getCounter
    packets, passes, \* datagrams sent, passes begun
    counted,  \* history: all a worker added to each field
    reported, \* history: all that was collected of each field of a worker
    raced     \* history: workers with an update that a collection overlapped

worker    == <<wpc, request, n, reply, pos, reg>>
collector == <<mpc, left, cur, todo, ret, total, passes>>
history   == <<counted, reported, raced>>
vars      == <<socket, worker, counter, lag, flags, collector, packets, history>>

Init ==
    /\ socket = [w \in Workers |-> <<>>]
    /\ wpc = [w \in Workers |-> "recv"]
    /\ request = [w \in Workers |-> 0]
    /\ n = [w \in Workers |-> 0]
    /\ reply = [w \in Workers |-> 0]
    /\ pos = [w \in Workers |-> 1]
    /\ reg = [w \in Workers |-> 0]
    /\ counter = [w \in Workers |-> Zero]
    /\ lag = [w \in Workers |-> 0]
    /\ flags = {}
    /\ mpc = "sleep" /\ left = {} /\ cur \in Workers /\ todo = {}
    /\ ret = Zero /\ total = Zero
    /\ packets = 0 /\ passes = 0
    /\ counted = [w \in Workers |-> Zero]
    /\ reported = [w \in Workers |-> Zero]
    /\ raced = {}

\* A worker is between its first load and its last store.
Counting(w) == wpc[w] \in {"load", "store"}

\* The main thread is in getAndClearCounter of worker w.
Collecting(w) == mpc \in {"copy", "clear"} /\ cur = w

-----------------------------------------------------------------------------
(* The surroundings                                                        *)

\* The kernel hands a datagram to one of the sockets bound to the port.
Datagram(w) ==
    /\ packets < MaxPackets
    /\ packets' = packets + 1
    /\ \E s \in Sizes : socket' = [socket EXCEPT ![w] = Append(@, s)]
    /\ UNCHANGED <<worker, counter, lag, flags, collector, history>>

\* time(NULL) advances by a second.
SecondPasses ==
    /\ \E w \in Workers : lag[w] < MaxLag
    /\ lag' = [w \in Workers |-> IF lag[w] < MaxLag THEN lag[w] + 1 ELSE lag[w]]
    /\ UNCHANGED <<socket, worker, counter, flags, collector, packets, history>>

-----------------------------------------------------------------------------
(* UDPEchoBouncerThread::run                                               *)

\* n=recvfrom(..., 4096, ...): the rest of a larger datagram is lost.
Receive(w) ==
    /\ wpc[w] = "recv"
    /\ socket[w] # <<>>
    /\ socket' = [socket EXCEPT ![w] = Tail(@)]
    /\ request' = [request EXCEPT ![w] = Head(socket[w])]
    /\ n' = [n EXCEPT ![w] =
                IF Head(socket[w]) < BufferSize THEN Head(socket[w]) ELSE BufferSize]
    /\ reply' = [reply EXCEPT ![w] = 0]
    /\ wpc' = [wpc EXCEPT ![w] = "echo"]
    /\ UNCHANGED <<pos, reg, counter, lag, flags, collector, packets, history>>

\* Nothing to read: waitForSocketReadable(), for at most half a second.
WaitReadable(w) ==
    /\ wpc[w] = "recv"
    /\ socket[w] = <<>>
    /\ wpc' = [wpc EXCEPT ![w] = "check"]
    /\ UNCHANGED <<socket, request, n, reply, pos, reg, counter, lag, flags, collector,
                   packets, history>>

\* sendto() unless noEcho; its result is ignored.
Echo(w) ==
    /\ wpc[w] = "echo"
    /\ reply' = [reply EXCEPT ![w] =
                    IF NoEcho THEN 0 ELSE IF PacketSize = 0 THEN n[w] ELSE PacketSize]
    /\ pos' = [pos EXCEPT ![w] = 1]
    /\ wpc' = [wpc EXCEPT ![w] = "load"]
    /\ raced' = IF Collecting(w) THEN raced \cup {w} ELSE raced
    /\ UNCHANGED <<socket, request, n, reg, counter, lag, flags, collector, packets,
                   counted, reported>>

\* What run() adds to a field: packets_send only if the packet was echoed.
Added(w, f) ==
    CASE f \in {"bytes_send", "bytes_received"} -> n[w]
      [] f = "packets_received" -> 1
      [] OTHER -> IF NoEcho THEN 0 ELSE 1

\* First half of counter.f+=...
Load(w) ==
    /\ wpc[w] = "load"
    /\ reg' = [reg EXCEPT ![w] = counter[w][CountOrder[pos[w]]]]
    /\ wpc' = [wpc EXCEPT ![w] = "store"]
    /\ UNCHANGED <<socket, request, n, reply, pos, counter, lag, flags, collector, packets,
                   history>>

\* Mutant of Store: counts bytes as packets.
StoreBytes(w) ==
    /\ wpc[w] = "store"
    /\ counter' = [counter EXCEPT ![w][CountOrder[pos[w]]] = reg[w] + n[w]]
    /\ counted' = [counted EXCEPT ![w][CountOrder[pos[w]]] = @ + Added(w, CountOrder[pos[w]])]
    /\ pos' = [pos EXCEPT ![w] = IF @ = 4 THEN 1 ELSE @ + 1]
    /\ wpc' = [wpc EXCEPT ![w] = IF pos[w] = 4 THEN "check" ELSE "load"]
    /\ reg' = [reg EXCEPT ![w] = 0]
    /\ UNCHANGED <<socket, request, n, reply, lag, flags, collector, packets, reported, raced>>

\* Second half, then the next counter.
Store(w) ==
    LET f == CountOrder[pos[w]] IN
    /\ wpc[w] = "store"
    /\ counter' = [counter EXCEPT ![w][f] = reg[w] + Added(w, f)]
    /\ counted' = [counted EXCEPT ![w][f] = @ + Added(w, f)]
    /\ pos' = [pos EXCEPT ![w] = IF @ = 4 THEN 1 ELSE @ + 1]
    /\ wpc' = [wpc EXCEPT ![w] = IF pos[w] = 4 THEN "check" ELSE "load"]
    /\ reg' = [reg EXCEPT ![w] = 0]
    /\ UNCHANGED <<socket, request, n, reply, lag, flags, collector, packets, reported, raced>>

\* The locals of one turn of the loop.
ForgetDatagram(w) ==
    /\ request' = [request EXCEPT ![w] = 0]
    /\ n' = [n EXCEPT ![w] = 0]
    /\ reply' = [reply EXCEPT ![w] = 0]

\* Mutants of Check: the check is not tied to the clock; the flag is ignored.
CheckAlways(w) ==
    /\ wpc[w] = "check"
    /\ lag' = [lag EXCEPT ![w] = @ - 1]
    /\ wpc' = [wpc EXCEPT ![w] = IF w \in flags THEN "done" ELSE "recv"]
    /\ ForgetDatagram(w)
    /\ UNCHANGED <<socket, pos, reg, counter, flags, collector, packets, history>>
CheckDeaf(w) ==
    /\ wpc[w] = "check"
    /\ lag' = [lag EXCEPT ![w] = IF @ > 0 THEN @ - 1 ELSE @]
    /\ wpc' = [wpc EXCEPT ![w] = "recv"]
    /\ ForgetDatagram(w)
    /\ UNCHANGED <<socket, pos, reg, counter, flags, collector, packets, history>>

\* if (time(NULL)>=next_check) { next_check+=1; if (threadShouldStop()) break; }
Check(w) ==
    /\ wpc[w] = "check"
    /\ lag' = [lag EXCEPT ![w] = IF @ > 0 THEN @ - 1 ELSE @]
    /\ wpc' = [wpc EXCEPT ![w] = IF lag[w] > 0 /\ w \in flags THEN "done" ELSE "recv"]
    /\ ForgetDatagram(w)
    /\ UNCHANGED <<socket, pos, reg, counter, flags, collector, packets, history>>

Worker(w) ==
    Receive(w) \/ WaitReadable(w) \/ Echo(w) \/ Load(w) \/ Store(w) \/ Check(w)

-----------------------------------------------------------------------------
(* The main thread                                                         *)

\* A second is over: getCounter() begins.
Sample ==
    /\ mpc = "sleep"
    /\ passes < MaxPasses
    /\ passes' = passes + 1
    /\ total' = Zero
    /\ left' = Workers
    /\ mpc' = "pick"
    /\ UNCHANGED <<socket, worker, counter, lag, flags, cur, todo, ret, packets, history>>

\* getAndClearCounter() of the next worker in the pool.
Pick ==
    /\ mpc = "pick"
    /\ \E w \in left :
          /\ cur' = w
          /\ raced' = IF Counting(w) THEN raced \cup {w} ELSE raced
    /\ todo' = Fields
    /\ mpc' = "copy"
    /\ UNCHANGED <<socket, worker, counter, lag, flags, left, ret, total, passes, packets,
                   counted, reported>>

\* ret=counter, field by field.
Copy ==
    /\ mpc = "copy"
    /\ \E f \in todo :
          /\ ret' = [ret EXCEPT ![f] = counter[cur][f]]
          /\ IF todo = {f}
             THEN todo' = Fields /\ mpc' = "clear"
             ELSE todo' = todo \ {f} /\ UNCHANGED mpc
    /\ UNCHANGED <<socket, worker, counter, lag, flags, left, cur, total, passes, packets,
                   history>>

\* Mutant of Clear: bytes_send is not reset.
ClearKeepsBytes ==
    /\ mpc = "clear"
    /\ \E f \in todo :
          /\ counter' = [counter EXCEPT ![cur][f] = IF f = "bytes_send" THEN @ ELSE 0]
          /\ todo' = todo \ {f}
          /\ IF todo = {f} THEN mpc' = "add" ELSE UNCHANGED mpc
    /\ UNCHANGED <<socket, worker, lag, flags, left, cur, ret, total, passes, packets, history>>

\* counter.f=0 for each field.
Clear ==
    /\ mpc = "clear"
    /\ \E f \in todo :
          /\ counter' = [counter EXCEPT ![cur][f] = 0]
          /\ todo' = todo \ {f}
          /\ IF todo = {f} THEN mpc' = "add" ELSE UNCHANGED mpc
    /\ UNCHANGED <<socket, worker, lag, flags, left, cur, ret, total, passes, packets, history>>

\* Mutant of Add: the loop does not move on to the next worker.
AddStays ==
    /\ mpc = "add"
    /\ total' = [f \in Fields |-> total[f] + ret[f]]
    /\ reported' = [reported EXCEPT ![cur] = [f \in Fields |-> @[f] + ret[f]]]
    /\ ret' = Zero
    /\ mpc' = "pick"
    /\ UNCHANGED <<socket, worker, counter, lag, flags, left, cur, todo, passes, packets,
                   counted, raced>>

\* Back in getCounter(): the sums, and the next worker if there is one.
Add ==
    /\ mpc = "add"
    /\ total' = [f \in Fields |-> total[f] + ret[f]]
    /\ reported' = [reported EXCEPT ![cur] = [f \in Fields |-> @[f] + ret[f]]]
    /\ ret' = Zero
    /\ left' = left \ {cur}
    /\ mpc' = IF left = {cur} THEN "sleep" ELSE "pick"
    /\ UNCHANGED <<socket, worker, counter, lag, flags, cur, todo, passes, packets,
                   counted, raced>>

\* The signal handler has set stopFlag: bouncer.stop() signals all workers ...
Interrupt ==
    /\ mpc = "sleep"
    /\ mpc' = "stopping"
    /\ flags' = Workers
    /\ UNCHANGED <<socket, worker, counter, lag, left, cur, todo, ret, total, passes, packets,
                   history>>

\* ... and returns when all of them have ended.
Stopped ==
    /\ mpc = "stopping"
    /\ \A w \in Workers : wpc[w] = "done"
    /\ mpc' = "stopped"
    /\ UNCHANGED <<socket, worker, counter, lag, flags, left, cur, todo, ret, total, passes,
                   packets, history>>

Main == Sample \/ Pick \/ Copy \/ Clear \/ Add \/ Interrupt \/ Stopped

Next ==
    \/ \E w \in Workers : Datagram(w) \/ Worker(w)
    \/ SecondPasses
    \/ Main

Spec == Init /\ [][Next]_vars

(***************************************************************************)
(* The kernel schedules every worker and the main thread, and time passes; *)
(* whether a signal ever arrives is left open.                             *)
(***************************************************************************)
FairSpec ==
    /\ Spec
    /\ \A w \in Workers : WF_vars(Worker(w))
    /\ WF_vars(SecondPasses)
    /\ WF_vars(Pick \/ Copy \/ Clear \/ Add \/ Stopped)

-----------------------------------------------------------------------------
(* Properties                                                              *)

Counters == [Fields -> Nat]

\* Every variable keeps its type.
TypeOK ==
    /\ socket \in [Workers -> Seq(Sizes)]
    /\ wpc \in [Workers -> {"recv", "echo", "load", "store", "check", "done"}]
    /\ request \in [Workers -> Nat] /\ n \in [Workers -> Nat]
    /\ reply \in [Workers -> Nat]
    /\ pos \in [Workers -> 1..4] /\ reg \in [Workers -> Nat]
    /\ counter \in [Workers -> Counters]
    /\ lag \in [Workers -> Nat] /\ flags \subseteq Workers
    /\ mpc \in {"sleep", "pick", "copy", "clear", "add", "stopping", "stopped"}
    /\ left \subseteq Workers /\ cur \in Workers /\ todo \subseteq Fields
    /\ ret \in Counters /\ total \in Counters
    /\ packets \in Nat /\ passes \in Nat
    /\ counted \in [Workers -> Counters] /\ reported \in [Workers -> Counters]
    /\ raced \subseteq Workers

\* Even though updates race with the clearing, no counter ever shows more than
\* its worker has really added to it, and so no single value collected from it.
CounterBounded ==
    \A w \in Workers, f \in Fields :
        /\ counter[w][f] <= counted[w][f]
        /\ mpc = "add" => ret[f] <= counted[cur][f]

\* Nor does the sum of one pass exceed what all workers have counted by then.
ReportBounded ==
    \A f \in Fields : total[f] <= SumFunction([w \in Workers |-> counted[w][f]])

\* "ausgelesen und auf 0 zurueckgesetzt" (getAndClearCounter): outside of a
\* collection, what was collected and what is still in the counter add up to
\* what was counted, unless a collection overlapped an update.
ExactUnlessRaced ==
    \A w \in Workers, f \in Fields :
        w \notin raced /\ (mpc \in {"copy", "clear", "add"} => cur # w) =>
            reported[w][f] + counter[w][f] = counted[w][f]

\* The same without the exception: each packet is in exactly one status line.
ReportsExact ==
    \A w \in Workers, f \in Fields :
        ~Counting(w) /\ (mpc \in {"copy", "clear", "add"} => cur # w) =>
            reported[w][f] + counter[w][f] = counted[w][f]

\* "nur gezaehlt, aber nicht beantwortet" (setNoEcho): without echoes no bytes
\* are reported as sent.
SilentSendsNothing ==
    NoEcho => \A w \in Workers : counter[w]["bytes_send"] = 0

\* "genauso gross, wie die eingehenden Pakete" (setPacketSize): with packet
\* size 0 a reply is as large as its request.
ReplyAsLargeAsRequest ==
    PacketSize = 0 /\ ~NoEcho => \A w \in Workers : Counting(w) => reply[w] = request[w]

\* After an interrupt the workers end and bouncer.stop() returns, whatever
\* traffic is left.
StopEnds == mpc = "stopping" ~> mpc = "stopped"

=============================================================================
