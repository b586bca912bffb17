------------------------- MODULE MCSuspendedThread -------------------------
(***************************************************************************)
(* Instances of SuspendedThread for TLC, with model values for callers.    *)
(***************************************************************************)
EXTENDS SuspendedThread
=============================================================================
