---------------------------- MODULE MCEchoSession ----------------------------
(***************************************************************************)
(* Instances of EchoSession for TLC: two load levels, of which the first   *)
(* does not divide evenly, and a single packet for two threads.            *)
(***************************************************************************)
EXTENDS EchoSession

TwoLevels == <<1, 2>>
OnePacket == <<1>>

=============================================================================
