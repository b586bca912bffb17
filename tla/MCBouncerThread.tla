--------------------------- MODULE MCBouncerThread ---------------------------
(***************************************************************************)
(* Instances of BouncerThread for TLC.  The workers and their sockets are  *)
(* interchangeable, so the safety runs use Permutations(Workers).          *)
(***************************************************************************)
EXTENDS BouncerThread, TLC

Symmetry == Permutations(Workers)
=============================================================================
