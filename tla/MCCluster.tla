------------------------------ MODULE MCCluster -----------------------------
(***************************************************************************)
(* An instance of Cluster: two agents and a graph of two containers, which *)
(* fit on one agent or on both.  Two streams, s1 and s2, form a cycle      *)
(* between the containers and s3 is inside one.                            *)
(***************************************************************************)
EXTENDS Cluster, FiniteSetsExt

CONSTANTS a1, a2, g1, t1, t2, v1, v2, v3, s1, s2, s3

Vec(c, m, s) ==
  [k \in {"num_cpus", "memory_limit_in_bytes", "space_limit_in_bytes"} |->
     CASE k = "num_cpus" -> c
       [] k = "memory_limit_in_bytes" -> m
       [] k = "space_limit_in_bytes" -> s]

MCGraphOf == [t \in Task |-> g1]
MCDemand == [t \in Task |-> IF t = t1 THEN Vec(1, 2, 1) ELSE Vec(1, 1, 1)]
MCCapacity == [a \in Agent |-> IF a = a1 THEN Vec(2, 3, 2) ELSE Vec(1, 2, 1)]
MCLoad == [S \in SUBSET Task |->
             [k \in DOMAIN Vec(0, 0, 0) |->
                MapThenSumSet(LAMBDA t : MCDemand[t][k], S)]]
MCContainerOf == [v \in Vertex |-> IF v = v2 THEN t2 ELSE t1]
MCTailOf == [s \in Stream |-> IF s = s2 THEN v2 ELSE v1]
MCHeadOf == [s \in Stream |-> CASE s = s1 -> v2 [] s = s2 -> v1 [] s = s3 -> v3]
=============================================================================
