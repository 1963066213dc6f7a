--------------------------- MODULE MCOutputStream ---------------------------
(***************************************************************************)
(* Instances of OutputStream.  What tells two runs apart is whether the    *)
(* buffer is empty; a few bytes let it empty and fill again around         *)
(* remove_on_flush.                                                        *)
(***************************************************************************)
EXTENDS OutputStream
=============================================================================
