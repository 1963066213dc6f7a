--------------------------- MODULE MCConcurrentFIFO -------------------------
(***************************************************************************)
(* Instances of ConcurrentFIFO.                                            *)
(***************************************************************************)
EXTENDS ConcurrentFIFO
=============================================================================
