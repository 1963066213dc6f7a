--------------------------- MODULE MCReactorWakeup --------------------------
(***************************************************************************)
(* An instance of ReactorWakeup: three threads and three promises, two of  *)
(* them awaited and one that breaks the loop.                              *)
(***************************************************************************)
EXTENDS ReactorWakeup

CONSTANTS p1, p2, p3
=============================================================================
