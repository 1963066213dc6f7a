------------------------------ MODULE Resource ------------------------------
(***************************************************************************)
(* The resource vectors the master schedules with: pb::Resource of         *)
(* src/protobuf/resource.cpp.  A vector has three counters, and every      *)
(* comparison of the source is the conjunction over the three, so the      *)
(* order is partial: two vectors may be incomparable under each of < and   *)
(* >=.  The host name, which no comparison looks at, is left out.          *)
(***************************************************************************)
EXTENDS Naturals

Kinds == {"num_cpus", "memory_limit_in_bytes", "space_limit_in_bytes"}

ResourceType == [Kinds -> Nat]

NoResource == [k \in Kinds |-> 0]

\* operator >=
Geq(x, y) == \A k \in Kinds : x[k] >= y[k]

\* operator <
Less(x, y) == \A k \in Kinds : x[k] < y[k]

\* operator +=
Plus(x, y) == [k \in Kinds |-> x[k] + y[k]]

\* operator -=, which throws unless x >= y: every use is guarded by Geq(x, y)
Minus(x, y) == [k \in Kinds |-> x[k] - y[k]]
=============================================================================
