--------------------------- MODULE MCSenderThread ---------------------------
(***************************************************************************)
(* Instances of SenderThread for TLC: MCSenderRate.cfg (one rate-limited   *)
(* level, more slices than stall-free ticks) and MCSenderLevels.cfg (two   *)
(* levels, with and without rate limit).                                   *)
(***************************************************************************)
EXTENDS SenderRefinement
=============================================================================
