------------------------------ MODULE Doubling ------------------------------
(***************************************************************************)
(* How a capacity grows in DtCraft: it is doubled until it is enough.      *)
(* Select::_recap and OutputStreamBuffer::_write hold the same loop.       *)
(***************************************************************************)
EXTENDS Integers, FiniteSetsExt

Pow2[k \in Nat] == IF k = 0 THEN 1 ELSE 2 * Pow2[k - 1]

\* while(size < need) size *= 2
Doubled(size, need) == Min({s \in {size * Pow2[k] : k \in 0 .. need} : s >= need})
=============================================================================
