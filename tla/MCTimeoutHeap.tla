---------------------------- MODULE MCTimeoutHeap ---------------------------
(***************************************************************************)
(* Instances of TimeoutHeap.  Six events are the least with which remove   *)
(* moves the last element up.                                              *)
(***************************************************************************)
EXTENDS TimeoutHeap, TLC

Timers == Permutations(Event)
=============================================================================
