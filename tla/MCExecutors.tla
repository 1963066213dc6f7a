---------------------------- MODULE MCExecutors -----------------------------
(***************************************************************************)
(* Graphs of two vertices, a and b, in two executors or in one, where b    *)
(* may be a program.  They have a stream s1 from a to b and most of them a *)
(* stream s2 back; one of the streams may be critical.                     *)
(***************************************************************************)
EXTENDS Executors

CONSTANTS x1, x2, a, b, s1, s2

From == [s \in Stream |-> IF s = s1 THEN a ELSE b]
To == [s \in Stream |-> IF s = s1 THEN b ELSE a]

Apart == [v \in Vertex |-> IF v = a THEN x1 ELSE x2]
Together == [v \in Vertex |-> x1]

GraphOf(where, program, streams, critical) ==
  [where |-> where, program |-> program, streams |-> streams, critical |-> critical]

\* A program in the executor of the vertex it has its streams with.
ProgramInside == {GraphOf(Together, {b}, Stream, {})}

MCGraphs ==
  {GraphOf(Together, {}, Stream, {})}
  \union {GraphOf(Apart, {}, {s1}, C) : C \in {{}, {s1}}}
  \union {GraphOf(Apart, {b}, Stream, C) : C \in {{}, {s1}, {s2}}}
  \union ProgramInside
=============================================================================
