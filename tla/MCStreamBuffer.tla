--------------------------- MODULE MCStreamBuffer ---------------------------
(***************************************************************************)
(* Instances of StreamBuffer: a few local bytes, so that a package fills   *)
(* or overflows them and several make the heap buffer grow and shift.      *)
(***************************************************************************)
EXTENDS StreamBuffer
=============================================================================
