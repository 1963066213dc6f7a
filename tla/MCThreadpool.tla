---------------------------- MODULE MCThreadpool ----------------------------
(***************************************************************************)
(* An instance of Threadpool: three workers, a graph of two                *)
(* containers, and more tasks than workers.                                *)
(***************************************************************************)
EXTENDS Threadpool
=============================================================================
