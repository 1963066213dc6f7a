--------------------------- MODULE ConcurrentFIFO ---------------------------
(***************************************************************************)
(* The lock-free ring of include/dtc/concurrent/fifo.hpp, with a producer  *)
(* and a consumer (unittest/concurrent.cpp).                               *)
(*                                                                         *)
(* _array is not atomic.  Each thread alone stores one of the indices and  *)
(* loads its own relaxed; it loads the other with acquire, which pairs     *)
(* with the release store of the other thread.  So steps can be taken in   *)
(* the order of the program, each access to shared memory a step, as long  *)
(* as no slot is written and read at a time.                               *)
(***************************************************************************)
EXTENDS Integers, Sequences

CONSTANTS
  C,       \* the number of slots
  Item,
  Junk     \* what an empty slot, or one that was moved from, holds

ASSUME FIFOAssumption == C \in Nat /\ C > 1 /\ Junk \notin Item

VARIABLES
  array,    \* _array
  tail,     \* _tail
  head,     \* _head
  ppc,      \* where the producer is: "idle", or about to "write" or to "store"
  item,     \* what it pushes
  cpc,      \* where the consumer is: "idle", or about to "read" or to "store"
  got,      \* what it has moved out of its slot
  result    \* what the latest pop returned

ringVars == <<array, tail, head, ppc, item, cpc, got, result>>

\* _forward
Forward(idx) == (idx + 1) % C

\* size
Size == (tail - head + C) % C

RingInit ==
  /\ array = [i \in 0 .. C - 1 |-> Junk]
  /\ tail = 0 /\ head = 0
  /\ ppc = "idle" /\ item = Junk
  /\ cpc = "idle" /\ got = Junk
  /\ result = Junk
-----------------------------------------------------------------------------
(* push, by the producer *)

\* Mutated form of PushLoad: full is taken to be when the indices meet.
PushLoadFull(x) ==
  /\ ppc = "idle"
  /\ item' = x
  /\ ppc' = "write"
  /\ UNCHANGED <<array, tail, head, cpc, got, result>>

\* It loads _head; if there is no room it returns false.
PushLoad(x) ==
  /\ ppc = "idle"
  /\ item' = x
  /\ ppc' = IF Forward(tail) # head THEN "write" ELSE "idle"
  /\ UNCHANGED <<array, tail, head, cpc, got, result>>

PushWrite ==
  /\ ppc = "write"
  /\ array' = [array EXCEPT ![tail] = item]
  /\ ppc' = "store"
  /\ UNCHANGED <<tail, head, item, cpc, got, result>>

PushStore ==
  /\ ppc = "store"
  /\ tail' = Forward(tail)
  /\ ppc' = "idle"
  /\ UNCHANGED <<array, head, item, cpc, got, result>>
-----------------------------------------------------------------------------
(* pop, by the consumer *)

\* Mutated form of PopLoad: _tail is loaded once the slot of the producer is written.
PopLoadEarly ==
  /\ cpc = "idle"
  /\ cpc' = IF head # tail \/ ppc # "idle" THEN "read" ELSE "idle"
  /\ UNCHANGED <<array, tail, head, ppc, item, got, result>>

\* It loads _tail; if there is nothing it returns false.
PopLoad ==
  /\ cpc = "idle"
  /\ cpc' = IF head # tail THEN "read" ELSE "idle"
  /\ UNCHANGED <<array, tail, head, ppc, item, got, result>>

\* The item is moved out of its slot.
PopRead ==
  /\ cpc = "read"
  /\ got' = array[head]
  /\ array' = [array EXCEPT ![head] = Junk]
  /\ cpc' = "store"
  /\ UNCHANGED <<tail, head, ppc, item, result>>

PopStore ==
  /\ cpc = "store"
  /\ head' = Forward(head)
  /\ result' = got
  /\ cpc' = "idle"
  /\ UNCHANGED <<array, tail, ppc, item, got>>

RingNext ==
  \/ PushWrite \/ PushStore \/ PopLoad \/ PopRead \/ PopStore
  \/ \E x \in Item : PushLoad(x)

RingSpec == RingInit /\ [][RingNext]_ringVars
-----------------------------------------------------------------------------
(* Properties *)

\* No slot of _array, whose accesses are not atomic, is written by push while pop may
\* move out of it: there is no data race.
NoRace == ~(ppc = "write" /\ cpc = "read" /\ tail = head)

\* The items in the ring.  The first may have been moved out already.
Contents ==
  [k \in 1 .. Size |->
     IF k = 1 /\ cpc = "store" THEN got ELSE array[(head + k - 1) % C]]

\* The ring implements a queue of C - 1 items: no item is lost, doubled, reordered or
\* read before it is written, also when the indices wrap around.
Queue == INSTANCE BoundedQueue WITH queue <- Contents, Bound <- C - 1
QueueSpec == Queue!Spec
=============================================================================
