---------------------------- MODULE BoundedQueue ----------------------------
(***************************************************************************)
(* What a bounded queue promises: an item is pushed and popped in one      *)
(* step, first in first out.                                               *)
(***************************************************************************)
EXTENDS Naturals, Sequences

CONSTANTS Item, Bound

VARIABLES
  queue,    \* the items in the queue
  result    \* the item that the latest pop returned

vars == <<queue, result>>

Push(x) ==
  /\ Len(queue) < Bound
  /\ queue' = Append(queue, x)
  /\ UNCHANGED result

Pop ==
  /\ queue # <<>>
  /\ result' = Head(queue)
  /\ queue' = Tail(queue)

Next == Pop \/ \E x \in Item : Push(x)

Spec == queue = <<>> /\ [][Next]_vars
=============================================================================
