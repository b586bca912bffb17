-------------------------- MODULE SenderRefinement --------------------------
(***************************************************************************)
(* SenderThread implements LoadPhase: its slices, clock readings, stalls   *)
(* and receiver are hidden behind the phase the thread is in, the packets  *)
(* it has handed to the socket and the time since run() read `start'.      *)
(***************************************************************************)
EXTENDS SenderThread

\* The phase of a level, by where the thread is.
phase ==
    IF pc = "idle" THEN "idle"
    ELSE IF pc = "run" THEN "ready"
    ELSE IF pc \in TailPc THEN "drain"
    ELSE "load"

\* The load begins at the first reading of the clock, and has ended with the
\* duration that run() has computed.
elapsed ==
    IF pc = "begin" THEN 0
    ELSE IF phase = "load" THEN clock - begin
    ELSE duration

Level == INSTANCE LoadPhase WITH
    Rates <- QueryRates, Seconds <- Runtime, LoadTime <- RuntimeTicks, Slice <- Zeitscheibe,
    rate <- queryrate, sent <- Attempts, interrupted <- stopFlag

\* Every step of the thread, and whatever time does to it, is a step a load
\* level allows, or none: UDPEchoSenderThread::run generates the load that
\* setRuntime, setQueryRate and setZeitscheibe ask for.
ImplementsLoadPhase == Level!Spec

=============================================================================
