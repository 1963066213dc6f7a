------------------------------ MODULE Topology ------------------------------
(***************************************************************************)
(* The part of pb::Topology (src/protobuf/topology.cpp) that decides which *)
(* streams of a graph cross containers.  A graph's topology is a set of    *)
(* vertices, each in one container, and a set of streams from a tail       *)
(* vertex to a head vertex.  The master extracts one topology per          *)
(* container; the agents look only at the extracted ones.  A container of  *)
(* a given graph is a task.                                                *)
(***************************************************************************)
EXTENDS FiniteSets

CONSTANTS
  Task,         \* TaskID: the (graph, container) pairs
  Vertex,
  Stream,
  ContainerOf,  \* the task whose container holds a vertex
  TailOf,       \* the vertex that writes a stream
  HeadOf        \* the vertex that reads a stream

ASSUME TopologyAssumption ==
  /\ ContainerOf \in [Vertex -> Task]
  /\ TailOf \in [Stream -> Vertex]
  /\ HeadOf \in [Stream -> Vertex]

\* Topology::extract: the vertices of the container, and every stream with an
\* end in it.
extract(t) ==
  [vertices |-> {v \in Vertex : ContainerOf[v] = t},
   streams  |-> {s \in Stream : ContainerOf[TailOf[s]] = t
                                \/ ContainerOf[HeadOf[s]] = t}]

has_vertex(tpg, v) == v \in tpg.vertices

\* has_inter_stream(key, ios_base::in): only the reading end is here.
has_inter_stream_in(tpg, s) ==
  s \in tpg.streams /\ has_vertex(tpg, HeadOf[s]) /\ ~has_vertex(tpg, TailOf[s])

\* has_inter_stream(key, ios_base::out): only the writing end is here.
has_inter_stream_out(tpg, s) ==
  s \in tpg.streams /\ has_vertex(tpg, TailOf[s]) /\ ~has_vertex(tpg, HeadOf[s])

In(t) == {s \in Stream : has_inter_stream_in(extract(t), s)}
Out(t) == {s \in Stream : has_inter_stream_out(extract(t), s)}

\* Mutated form of num_inter_streams: the out streams are not counted.
num_inter_streams_in(tpg) ==
  Cardinality({s \in tpg.streams : has_inter_stream_in(tpg, s)})

num_inter_streams(tpg) ==
  Cardinality({s \in tpg.streams : has_inter_stream_in(tpg, s)
                                   \/ has_inter_stream_out(tpg, s)})
=============================================================================
