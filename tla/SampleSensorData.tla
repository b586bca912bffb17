-------------------------- MODULE SampleSensorData --------------------------
(***************************************************************************)
(* The status lines of udpsender and udpbouncer: sampleSensorData() adds   *)
(* up the counters of all network interfaces and reads the times of the    *)
(* processors, and the line shows what has changed since the sample before *)
(* (UDPSender::run, run() of bouncer.cpp).                                 *)
(*                                                                         *)
(* One packet counter stands for the eight of an interface.  Counters have *)
(* Width values: unsigned long for packets, int for processor times, which *)
(* wraps as the compiled sums and differences do.                          *)
(***************************************************************************)
EXTENDS Integers, FiniteSets, Functions

CONSTANTS
    Nics,         \* names of network interfaces
    Width,        \* number of values of a counter
    MaxTraffic,   \* bound: packets and ticks between two samples
    MaxLines      \* bound: status lines

(***************************************************************************)
(* Between two status lines a counter moves by less than half its values.  *)
(***************************************************************************)
ASSUME SensorAssumption ==
    /\ IsFiniteSet(Nics)
    /\ Width \in Nat /\ MaxTraffic \in Nat /\ MaxLines \in Nat
    /\ 2 * MaxTraffic < Width /\ Width % 2 = 0

VARIABLES
    device,       \* /proc/net/dev: counter of each interface there is
    cpu,          \* /proc/stat: ticks spent working and idle
    stat_start, stat_end,
    line, lines,  \* what the last status line shows, and how many there were
    now_seen,     \* history: packets, working and idle ticks since the sample
    replugged     \* history: an interface has come or gone since then

sensorvars == <<device, cpu, stat_start, stat_end, line, lines, now_seen, replugged>>

Nothing == [packets |-> 0, busy |-> 0, idle |-> 0]

\* Sum of the counters, as an unsigned long.
net_total(interfaces) == SumFunction(interfaces) % Width

\* Mutant of sampleSensorData: the total is taken from the list.
sampleSensorDataOfList(stat) ==
    LET list == [c \in DOMAIN stat.interfaces \cup DOMAIN device |->
                    IF c \in DOMAIN stat.interfaces THEN stat.interfaces[c] ELSE device[c]]
    IN  [net_total |-> net_total(list), interfaces |-> list, cpu |-> cpu]

\* A sample into a SystemStat that is used again and again: the total is
\* cleared first, but insert() leaves an interface alone that is there already.
sampleSensorData(stat) ==
    [net_total |-> net_total(device),
     interfaces |-> [c \in DOMAIN stat.interfaces \cup DOMAIN device |->
                        IF c \in DOMAIN stat.interfaces THEN stat.interfaces[c] ELSE device[c]],
     cpu |-> cpu]

NoSample == [net_total |-> 0, interfaces |-> [c \in {} |-> 0], cpu |-> [busy |-> 0, idle |-> 0]]

SensorInit ==
    /\ device \in [Nics -> {0, Width - 1}]
    /\ cpu = [busy |-> Width - 2, idle |-> 0]
    /\ stat_start = sampleSensorData(NoSample)
    /\ stat_end = NoSample
    /\ line = [shown |-> Nothing, exact |-> Nothing, delta |-> 0]
    /\ lines = 0
    /\ now_seen = Nothing /\ replugged = FALSE

-----------------------------------------------------------------------------
(* The system                                                              *)

Seen == now_seen.packets + now_seen.busy + now_seen.idle

Packet ==
    /\ Seen < MaxTraffic
    /\ \E c \in DOMAIN device : device' = [device EXCEPT ![c] = (@ + 1) % Width]
    /\ now_seen' = [now_seen EXCEPT !.packets = @ + 1]
    /\ UNCHANGED <<cpu, stat_start, stat_end, line, lines, replugged>>

Tick ==
    /\ Seen < MaxTraffic
    /\ \E kind \in {"busy", "idle"} :
          /\ cpu' = [cpu EXCEPT ![kind] = (@ + 1) % Width]
          /\ now_seen' = [now_seen EXCEPT ![kind] = @ + 1]
    /\ UNCHANGED <<device, stat_start, stat_end, line, lines, replugged>>

\* An interface is removed, or comes and counts from 0.
Replug ==
    /\ ~replugged
    /\ \E c \in Nics :
          device' = [d \in (DOMAIN device \ {c}) \cup ({c} \ DOMAIN device) |->
                        IF d = c THEN 0 ELSE device[d]]
    /\ replugged' = TRUE
    /\ UNCHANGED <<cpu, stat_start, stat_end, line, lines, now_seen>>

-----------------------------------------------------------------------------
(* The program                                                             *)

\* An unsigned difference, and one of int.
Unsigned(a, b) == (a - b) % Width
Signed(a, b) == LET d == (a - b) % Width IN IF d >= Width \div 2 THEN d - Width ELSE d

\* delta_with_overflow(), the difference that getDelta() shows.
delta_with_overflow(sample1, sample2) ==
    IF sample2 >= sample1 THEN sample2 - sample1 ELSE Width - 1 - sample1 + sample2

\* getUsage() divides two differences, both of which have the sign of the order
\* in which it gets the samples: fabs() and the quotient take it away.
Usage(sample1, sample2) ==
    LET Abs(d) == IF d < 0 THEN -d ELSE d IN
    [busy |-> Abs(Signed(sample2.busy, sample1.busy)),
     all  |-> Abs(Signed(sample2.busy + sample2.idle, sample1.busy + sample1.idle))]

\* A second is over: the next sample, the line, and stat_start = stat_end.
StatusLine ==
    LET end   == sampleSensorData(stat_end)
        usage == Usage(end.cpu, stat_start.cpu)
    IN  /\ lines < MaxLines /\ lines' = lines + 1
        /\ stat_end' = end
        /\ stat_start' = end
        /\ line' = [shown |-> [packets |-> Unsigned(end.net_total, stat_start.net_total),
                               busy |-> usage.busy, idle |-> usage.all - usage.busy],
                    exact |-> IF replugged THEN [now_seen EXCEPT !.packets = -1] ELSE now_seen,
                    delta |-> delta_with_overflow(stat_start.net_total, end.net_total)]
        /\ now_seen' = Nothing /\ replugged' = FALSE
        /\ UNCHANGED <<device, cpu>>

SensorNext == Packet \/ Tick \/ Replug \/ StatusLine

SensorSpec == SensorInit /\ [][SensorNext]_sensorvars

-----------------------------------------------------------------------------
(* Properties                                                              *)

\* Over wraps of any counter of any interface, a status line shows the packets
\* and the processor times since the line before, unless an interface has come
\* or gone; getDelta() would show one packet too few when the total wraps.
LineShowsTraffic ==
    /\ line.shown.busy = line.exact.busy /\ line.shown.idle = line.exact.idle
    /\ line.exact.packets # -1 =>
          /\ line.shown.packets = line.exact.packets
          /\ line.delta \in {line.exact.packets, line.exact.packets - 1}

=============================================================================
