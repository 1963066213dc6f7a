------------------------------ MODULE MCSelect ------------------------------
(***************************************************************************)
(* An instance of Select whose masks are words of two bits: descriptors    *)
(* 0 .. 3 need two of them, so that the arrays grow and the highest        *)
(* descriptor is the first or the last of a word.                          *)
(***************************************************************************)
EXTENDS Select
=============================================================================
