------------------------------ MODULE MCReactor -----------------------------
(***************************************************************************)
(* An instance of Reactor with a READ, a WRITE and a TIMEOUT event.        *)
(***************************************************************************)
EXTENDS Reactor

CONSTANTS r, w, t

MCKind == [e \in Event |-> CASE e = r -> "READ"
                             [] e = w -> "WRITE"
                             [] e = t -> "TIMEOUT"]
=============================================================================
