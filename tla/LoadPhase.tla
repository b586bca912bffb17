----------------------------- MODULE LoadPhase -----------------------------
(***************************************************************************)
(* What a sender thread promises of a load level, without saying how: the  *)
(* thread is configured with a rate, generates load, waits for late        *)
(* answers and is done.  Packets are spread evenly over time slices, never *)
(* ahead of time and never more than the quota; the load ends when the     *)
(* quota is used up, the time is over or the program is interrupted.       *)
(*                                                                         *)
(* SenderRefinement shows that SenderThread implements this module.        *)
(***************************************************************************)
EXTENDS Integers

CONSTANTS
    Rates,        \* packets per second that may be asked for; 0: no limit
    Seconds,      \* length of the load in seconds
    LoadTime,     \* the same in ticks
    Slice         \* length of a time slice in ticks

VARIABLES
    phase,       \* "idle", "ready", "load" or "drain"
    rate,        \* packets per second of this level
    sent,        \* packets handed to the socket in this level
    elapsed,     \* ticks since the load began; then its length
    interrupted  \* the program was told to stop

vars == <<phase, rate, sent, elapsed, interrupted>>

Init ==
    /\ phase = "idle"
    /\ rate = 0 /\ sent = 0 /\ elapsed = 0
    /\ interrupted = FALSE

Quota == Seconds * rate

\* Packets of the first k slices when the quota is spread evenly, the slices
\* with one packet more than the others being the last.
Planned(k) ==
    LET slices == LoadTime \div Slice
        first  == slices - (Quota % slices)
    IN  k * (Quota \div slices) + (IF k > first THEN k - first ELSE 0)

\* What may have been sent by now.
Allowed == Planned(elapsed \div Slice + 1)

Configure ==
    /\ phase = "idle" /\ ~interrupted
    /\ rate' \in Rates
    /\ phase' = "ready"
    /\ UNCHANGED <<sent, elapsed, interrupted>>

Begin ==
    /\ phase = "ready"
    /\ phase' = "load"
    /\ sent' = 0 /\ elapsed' = 0
    /\ UNCHANGED <<rate, interrupted>>

Send ==
    /\ phase = "load"
    /\ rate > 0 => sent < Quota /\ sent < Allowed
    /\ sent' = sent + 1
    /\ UNCHANGED <<phase, rate, elapsed, interrupted>>

TimePasses ==
    /\ phase = "load"
    /\ elapsed' \in Nat /\ elapsed' >= elapsed
    /\ UNCHANGED <<phase, rate, sent, interrupted>>

Loaded ==
    /\ phase = "load" /\ elapsed > 0
    /\ (rate > 0 /\ sent = Quota) \/ elapsed >= LoadTime \/ interrupted
    /\ phase' = "drain"
    /\ UNCHANGED <<rate, sent, elapsed, interrupted>>

\* The results of the level stay until the next one begins.
Drained ==
    /\ phase = "drain"
    /\ phase' = "idle"
    /\ UNCHANGED <<rate, sent, elapsed, interrupted>>

Interrupt ==
    /\ phase # "idle" /\ ~interrupted
    /\ interrupted' = TRUE
    /\ UNCHANGED <<phase, rate, sent, elapsed>>

Next == Configure \/ Begin \/ Send \/ TimePasses \/ Loaded \/ Drained \/ Interrupt

Spec == Init /\ [][Next]_vars

=============================================================================
