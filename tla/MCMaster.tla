------------------------------ MODULE MCMaster ------------------------------
(***************************************************************************)
(* Two instances of Master.  In the first, three graphs compete for one    *)
(* agent: the two tasks of g1 fill it, that of g2 leaves room for one of   *)
(* them, and that of g3 needs all CPUs.  So graphs have to wait behind     *)
(* each other, and searches fail half-way and have to be undone.           *)
(*                                                                         *)
(* In the second there are two agents, neither of which is smaller.  Both  *)
(* graphs need both agents; g2 fits in any order, but if t1 of g1 goes to  *)
(* a1, nothing is left that t2 fits on.                                    *)
(***************************************************************************)
EXTENDS Master, FiniteSetsExt

CONSTANTS a1, a2, g1, g2, g3, t1, t2, t3, t4

Vec(c, m, s) ==
  [k \in Kinds |-> CASE k = "num_cpus" -> c
                     [] k = "memory_limit_in_bytes" -> m
                     [] k = "space_limit_in_bytes" -> s]

MCLoad == [S \in SUBSET Task |->
             [k \in Kinds |-> MapThenSumSet(LAMBDA t : Demand[t][k], S)]]

MCGraphOf == [t \in Task |-> CASE t \in {t1, t2} -> g1
                               [] t = t3 -> g2
                               [] t = t4 -> g3]

MCDemand == [t \in Task |-> CASE t \in {t1, t3} -> Vec(1, 2, 1)
                              [] t = t2 -> Vec(1, 1, 1)
                              [] t = t4 -> Vec(2, 2, 2)]

MCCapacity == [a \in Agent |-> Vec(2, 3, 2)]

TwoGraphOf == [t \in Task |-> IF t \in {t1, t2} THEN g1 ELSE g2]

TwoDemand == [t \in Task |-> IF t = t2 THEN Vec(2, 1, 1) ELSE Vec(1, 1, 1)]

TwoCapacity == [a \in Agent |-> IF a = a1 THEN Vec(2, 1, 1) ELSE Vec(1, 2, 1)]
=============================================================================
