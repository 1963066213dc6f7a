--------------------------- MODULE PoolTimerProofs --------------------------
(***************************************************************************)
(* Proofs about what a reactor is made of: its pool of threads and the     *)
(* heap of its timers.                                                     *)
(*                                                                         *)
(* The pool (Threadpool) conserves work and its shutdown drains the queue, *)
(* for any number of workers and tasks.                                    *)
(*                                                                         *)
(* The heap (TimeoutHeap), for any number of timers: the path of           *)
(* _bubble_up and _bubble_down is the recursive function it was defined to *)
(* be and leads up or down the tree; the moves along it keep the           *)
(* satellites inverse to the array and put it in order; so the heap        *)
(* implements the queue of TimerQueue.  An induction is the search for a   *)
(* least counterexample.                                                   *)
(***************************************************************************)
EXTENDS Threadpool, TimeoutHeap, FiniteSetTheorems, WellFoundedInduction, TLAPS

-----------------------------------------------------------------------------
(* Threadpool *)

IInv == TypeOK /\ WorkConserving

\* spawn() starts with an empty queue.
LEMMA InitIInv == Init => IInv
  <1> SUFFICES ASSUME Init
               PROVE  IInv
    OBVIOUS
  <1> USE ThreadpoolAssumption DEF Init
  <1>1. num \in [States -> Nat]
    OBVIOUS
  <1>2. num["waiting"] = 0
    BY DEF States
  <1>3. queue \in Seq(Kinds)
    OBVIOUS
  <1>4. signals \in Nat /\ left \in Nat /\ tasks \in 0 .. MaxTasks /\ asks \in 0 .. MaxAsks
    OBVIOUS
  <1>5. signal \in BOOLEAN /\ opc \in OPC
    BY DEF OPC
  <1>6. TypeOK
    BY <1>1, <1>3, <1>4, <1>5 DEF TypeOK
  <1> QED
    BY <1>2, <1>6 DEF IInv, WorkConserving

\* What a worker's change of state does to the counts.
LEMMA MoveFact ==
  ASSUME num \in [States -> Nat], NEW from \in States, NEW to \in States, from # to,
         Move(from, to)
  PROVE  /\ num' \in [States -> Nat]
         /\ num'[from] = num[from] - 1
         /\ num'[to] = num[to] + 1
         /\ \A s \in States \ {from, to} : num'[s] = num[s]
  BY DEF Move

\* A signal wakes a sleeping worker or there is none.
LEMMA NotifyOneFact ==
  ASSUME num \in [States -> Nat], NotifyOne
  PROVE  /\ num' \in [States -> Nat]
         /\ \/ num'["waiting"] = num["waiting"] - 1 /\ num'["ready"] = num["ready"] + 1
            \/ num["waiting"] = 0 /\ num' = num
  <1>1. "waiting" \in States /\ "ready" \in States
    BY DEF States
  <1>2. CASE num["waiting"] > 0
    BY <1>1, <1>2, MoveFact DEF NotifyOne
  <1>3. CASE ~(num["waiting"] > 0)
    BY <1>1, <1>3 DEF NotifyOne
  <1> QED
    BY <1>2, <1>3

\* A worker that changes its state without taking a task or going to sleep.
LEMMA QuietMove ==
  ASSUME IInv, UNCHANGED <<queue, signals, signal, opc, left, tasks, asks>>,
         num' \in [States -> Nat],
         num'["ready"] >= num["ready"], num'["waiting"] <= num["waiting"]
  PROVE  IInv'
  <1>1. TypeOK'
    BY DEF IInv, TypeOK
  <1>2. "waiting" \in States /\ "ready" \in States
    BY DEF States
  <1>3. WorkConserving'
    BY <1>2 DEF IInv, TypeOK, WorkConserving, Sent
  <1> QED
    BY <1>1, <1>3 DEF IInv

\* Every step keeps the balance of tasks against workers awake and signals to come.
LEMMA NextIInv == IInv /\ [Next]_vars => IInv'
  <1> SUFFICES ASSUME IInv, [Next]_vars
               PROVE  IInv'
    OBVIOUS
  <1> USE ThreadpoolAssumption DEF IInv
  <1>0. /\ TypeOK /\ WorkConserving
        /\ "ready" \in States /\ "waiting" \in States /\ Kinds \subseteq States
    BY DEF States
  <1>1. CASE Async
    <2>1. PICK k \in Kinds : queue' = Append(queue, k)
      BY <1>1 DEF Async, Enqueue, Kinds
    <2>2. queue' \in Seq(Kinds) /\ Len(queue') = Len(queue) + 1
      BY <2>1 DEF TypeOK
    <2>3. TypeOK'
      BY <1>1, <2>2 DEF Async, TypeOK
    <2>4. WorkConserving'
      BY <1>1, <2>2 DEF Async, TypeOK, WorkConserving, Sent, States
    <2> QED
      BY <2>3, <2>4
  <1>2. CASE Notify
    BY <1>2, NotifyOneFact DEF Notify, TypeOK, WorkConserving, Sent, States
  <1>3. CASE OwnerNotify
    <2>1. TypeOK'
      BY <1>3, NotifyOneFact DEF OwnerNotify, TypeOK
    <2>2. Sent' = Sent - 1 /\ Sent \in Nat
      BY <1>3 DEF OwnerNotify, TypeOK, Sent
    <2>3. WorkConserving'
      BY <1>3, <1>0, <2>1, <2>2, NotifyOneFact DEF OwnerNotify, TypeOK, WorkConserving
    <2> QED
      BY <2>1, <2>3
  <1>4. ASSUME NEW k \in {"plain", "ask"}, Activate(k)
        PROVE  IInv'
    <2>1. queue' \in Seq(Kinds) /\ Len(queue') = Len(queue) + 1
      BY <1>4 DEF Activate, Enqueue, TypeOK, Kinds
    <2>2. TypeOK'
      BY <1>4, <2>1 DEF Activate, TypeOK
    <2>3. WorkConserving'
      BY <1>4, <2>1 DEF Activate, TypeOK, WorkConserving, Sent, States
    <2> QED
      BY <2>2, <2>3
  <1>5. CASE Fill
    <2>1. PICK k \in Kinds : queue' = Append(queue, k)
      BY <1>5 DEF Fill, Enqueue, Kinds
    <2>2. queue' \in Seq(Kinds) /\ Len(queue') = Len(queue) + 1
      BY <2>1 DEF TypeOK
    <2>3. TypeOK'
      BY <1>5, <2>2 DEF Fill, TypeOK
    <2>4. WorkConserving'
      BY <1>5, <2>2 DEF Fill, TypeOK, WorkConserving, Sent, States
    <2> QED
      BY <2>3, <2>4
  <1>6. CASE Take
    <2>1. PICK k \in Kinds : k = Head(queue)
      BY <1>6 DEF Take, TypeOK
    <2>2. queue' \in Seq(Kinds) /\ Len(queue') = Len(queue) - 1
      BY <1>6 DEF Take, TypeOK
    <2>3. num["ready"] > 0 /\ num' = [num EXCEPT !["ready"] = @ - 1, ![k] = @ + 1]
      BY <1>6, <2>1 DEF Take, Move
    <2>4. k # "ready" /\ k # "waiting" /\ k \in States
      BY DEF Kinds, States
    <2>5. num' \in [States -> Nat]
      BY <2>3, <2>4 DEF TypeOK, States
    <2>6. num'["ready"] = num["ready"] - 1 /\ num'["waiting"] = num["waiting"]
      BY <2>3, <2>4, <1>0 DEF TypeOK
    <2>7. TypeOK'
      BY <1>6, <2>2, <2>5 DEF Take, TypeOK
    <2>8. WorkConserving'
      BY <1>6, <2>2, <2>6, <1>0 DEF Take, TypeOK, WorkConserving, Sent
    <2> QED
      BY <2>7, <2>8
  <1>7. CASE Sleep
    <2>1. num' \in [States -> Nat]
      BY <1>7, <1>0, MoveFact DEF Sleep, TypeOK
    <2>2. TypeOK'
      BY <1>7, <2>1 DEF Sleep, TypeOK
    <2>3. Len(queue') = 0 /\ Sent' \in Nat
      BY <1>7 DEF Sleep, TypeOK, Sent
    <2>4. WorkConserving'
      BY <1>0, <2>1, <2>3 DEF WorkConserving
    <2> QED
      BY <2>2, <2>4
  <1>8. CASE WakeUp
    <2>1. "waiting" \in States /\ "ready" \in States
      BY DEF States, Kinds
    <2> QED
      BY <1>8, <1>0, <2>1, MoveFact, QuietMove DEF WakeUp, TypeOK
  <1>9. CASE Ask
    <2>1. "ask" \in States /\ "blocked" \in States
      BY DEF States, Kinds
    <2>2. Move("ask", "blocked") /\ num \in [States -> Nat]
      BY <1>9, <1>0 DEF Ask, TypeOK
    <2>3. /\ num' \in [States -> Nat]
          /\ \A s \in States \ {"ask", "blocked"} : num'[s] = num[s]
      BY <2>1, <2>2, MoveFact
    <2>4. num'["ready"] >= num["ready"] /\ num'["waiting"] <= num["waiting"]
      BY <1>0, <2>2, <2>3
    <2> QED
      BY <1>9, <2>3, <2>4, QuietMove DEF Ask
  <1>10. CASE Die
    <2>1. "stop" \in States /\ "dead" \in States
      BY DEF States, Kinds
    <2>2. Move("stop", "dead") /\ num \in [States -> Nat]
      BY <1>10, <1>0 DEF Die, TypeOK
    <2>3. /\ num' \in [States -> Nat]
          /\ \A s \in States \ {"stop", "dead"} : num'[s] = num[s]
      BY <2>1, <2>2, MoveFact
    <2>4. num'["ready"] >= num["ready"] /\ num'["waiting"] <= num["waiting"]
      BY <1>0, <2>2, <2>3
    <2> QED
      BY <1>10, <2>3, <2>4, QuietMove DEF Die
  <1>11. ASSUME NEW k \in Kinds, Finish(k)
         PROVE  IInv'
    <2>1. k \in States /\ k # "ready" /\ k # "waiting"
      BY <1>11 DEF Finish, States, Kinds
    <2> QED
      BY <1>11, <1>0, <2>1, MoveFact, QuietMove DEF Finish, TypeOK
  <1>12. CASE CarryOn
    <2>1. "blocked" \in States /\ "plain" \in States
      BY DEF States, Kinds
    <2>2. Move("blocked", "plain") /\ num \in [States -> Nat]
      BY <1>12, <1>0 DEF CarryOn, TypeOK
    <2>3. /\ num' \in [States -> Nat]
          /\ \A s \in States \ {"blocked", "plain"} : num'[s] = num[s]
      BY <2>1, <2>2, MoveFact
    <2>4. num'["ready"] >= num["ready"] /\ num'["waiting"] <= num["waiting"]
      BY <1>0, <2>2, <2>3
    <2> QED
      BY <1>12, <2>3, <2>4, QuietMove DEF CarryOn
  <1>13. CASE StartWait
    BY <1>13 DEF StartWait, TypeOK, WorkConserving, Sent, OPC
  <1>14. CASE Shutdown
    BY <1>14 DEF Shutdown, TypeOK, WorkConserving, Sent, OPC
  <1>15. CASE FillDone
    BY <1>15 DEF FillDone, TypeOK, WorkConserving, Sent, OPC
  <1>16. CASE EndWait
    BY <1>16 DEF EndWait, TypeOK, WorkConserving, Sent, OPC
  <1>17. CASE Join
    BY <1>17 DEF Join, TypeOK, WorkConserving, Sent, OPC
  <1>18. CASE UNCHANGED vars
    BY <1>18 DEF vars, TypeOK, WorkConserving, Sent
  <1> QED
    BY <1>1, <1>2, <1>3, <1>4, <1>5, <1>6, <1>7, <1>8, <1>9, <1>10, <1>11, <1>12,
       <1>13, <1>14, <1>15, <1>16, <1>17, <1>18 DEF Next, Owner

\* The inductive invariant holds of every behaviour.
THEOREM Invariance == Spec => []IInv
  BY InitIInv, NextIInv, PTL DEF Spec

\* The queue, the workers and the owner keep their types.
THEOREM TypeCorrect == Spec => []TypeOK
  <1>1. IInv => TypeOK
    BY DEF IInv
  <1> QED
    BY <1>1, Invariance, PTL

\* No task is left to sleeping workers.
THEOREM PoolConservesWork == Spec => []WorkConserving
  <1>1. IInv => WorkConserving
    BY DEF IInv
  <1> QED
    BY <1>1, Invariance, PTL
-----------------------------------------------------------------------------
(* shutdown() drains the queue.  What was enqueued before it stands in front of the *)
(* stop tasks, and the stop tasks in the queue, with the workers that took one, are *)
(* never more than the workers: so when all are dead none is left.                  *)

Rear == {"stop", "late"}

Ending == opc \in {"stop", "join", "gone"}

StopsIn(q) == {i \in 1 .. Len(q) : q[i] = "stop"}

StopTasks == Cardinality(StopsIn(queue))

NoStopYet ==
  ~Ending => /\ \A i \in 1 .. Len(queue) : queue[i] \notin Rear
             /\ num["stop"] = 0 /\ num["dead"] = 0

RearLast ==
  \A i, j \in 1 .. Len(queue) : i < j /\ queue[i] \in Rear => queue[j] \in Rear

FirstServed ==
  \A i \in 1 .. Len(queue) :
    queue[i] \notin Rear => num["stop"] = 0 /\ num["dead"] = 0

StopsCounted ==
  Ending => StopTasks + num["stop"] + num["dead"] + left <= Workers

AllDead == opc = "gone" => num["dead"] >= Workers

DrainInv == NoStopYet /\ RearLast /\ FirstServed /\ StopsCounted /\ AllDead

\* A queue holds finitely many stop tasks.
LEMMA StopsFinite ==
  ASSUME NEW q \in Seq(Kinds)
  PROVE  /\ IsFiniteSet(StopsIn(q))
         /\ Cardinality(StopsIn(q)) \in Nat
  <1>1. IsFiniteSet(1 .. Len(q))
    BY FS_Interval
  <1>2. StopsIn(q) \in SUBSET (1 .. Len(q))
    BY DEF StopsIn
  <1>3. IsFiniteSet(StopsIn(q))
    BY <1>1, <1>2, FS_Subset
  <1> QED
    BY <1>3, FS_CardinalityType

\* Enqueueing a task adds a stop task if it is one.
LEMMA StopsAppend ==
  ASSUME NEW q \in Seq(Kinds), NEW k \in Kinds
  PROVE  Cardinality(StopsIn(Append(q, k))) =
           Cardinality(StopsIn(q)) + IF k = "stop" THEN 1 ELSE 0
  <1>1. CASE k = "stop"
    <2>1. StopsIn(Append(q, k)) = StopsIn(q) \union {Len(q) + 1}
      BY <1>1 DEF StopsIn
    <2>2. Len(q) + 1 \notin StopsIn(q)
      BY DEF StopsIn
    <2> QED
      BY <1>1, <2>1, <2>2, StopsFinite, FS_AddElement
  <1>2. CASE k # "stop"
    <2>1. StopsIn(Append(q, k)) = StopsIn(q)
      BY <1>2 DEF StopsIn
    <2> QED
      BY <1>2, <2>1, StopsFinite
  <1> QED
    BY <1>1, <1>2

\* Taking the first task removes a stop task if it is one.
LEMMA StopsTail ==
  ASSUME NEW q \in Seq(Kinds), q # <<>>
  PROVE  Cardinality(StopsIn(Tail(q))) + (IF Head(q) = "stop" THEN 1 ELSE 0)
           <= Cardinality(StopsIn(q))
  <1> DEFINE T == StopsIn(Tail(q))
             S == StopsIn(q) \ {1}
             f == [i \in T |-> i + 1]
  <1>1. \A i \in T : i + 1 \in S
    BY DEF StopsIn
  <1>2. \A i, j \in T : i + 1 = j + 1 => i = j
    BY DEF StopsIn
  <1>3. f \in Injection(T, S)
    BY <1>1, <1>2 DEF Injection, IsInjective
  <1>4. IsFiniteSet(S) /\ Cardinality(S) =
          IF 1 \in StopsIn(q) THEN Cardinality(StopsIn(q)) - 1 ELSE Cardinality(StopsIn(q))
    BY StopsFinite, FS_RemoveElement
  <1>5. Cardinality(T) <= Cardinality(S)
    BY <1>3, <1>4, FS_Injection
  <1>6. 1 \in StopsIn(q) <=> Head(q) = "stop"
    BY DEF StopsIn
  <1>7. Tail(q) \in Seq(Kinds)
    OBVIOUS
  <1>8. Cardinality(T) \in Nat /\ Cardinality(StopsIn(q)) \in Nat
    BY <1>7, StopsFinite
  <1> HIDE DEF T, S
  <1>9. Cardinality(T) + (IF Head(q) = "stop" THEN 1 ELSE 0) <= Cardinality(StopsIn(q))
    BY <1>4, <1>5, <1>6, <1>8
  <1> QED
    BY <1>9 DEF T

\* A task is enqueued: one of the rear if and only if shutdown() has begun, and a stop
\* task at the cost of one that the owner has yet to enqueue.
LEMMA DrainEnqueue ==
  ASSUME TypeOK, DrainInv, NEW k \in Kinds, queue' = Append(queue, k),
         UNCHANGED <<num, opc>>, left' \in Nat,
         k \in Rear <=> Ending,
         left' + (IF k = "stop" THEN 1 ELSE 0) <= left \/ ~Ending
  PROVE  DrainInv'
  <1> DEFINE n == Len(queue)
  <1>1. /\ queue \in Seq(Kinds) /\ left \in Nat
        /\ num["stop"] \in Nat /\ num["dead"] \in Nat
    BY DEF TypeOK, States, Kinds
  <1>2. /\ n \in Nat /\ Len(queue') = n + 1
        /\ queue'[n + 1] = k
        /\ \A i \in 1 .. n : queue'[i] = queue[i]
    BY <1>1
  <1>3. Ending' <=> Ending
    BY DEF Ending
  <1>4. NoStopYet'
    BY <1>2, <1>3 DEF DrainInv, NoStopYet
  <1>5. RearLast'
    <2>1. CASE Ending
      BY <1>2, <2>1 DEF DrainInv, RearLast
    <2>2. CASE ~Ending
      BY <1>2, <2>2 DEF DrainInv, NoStopYet, RearLast
    <2> QED
      BY <2>1, <2>2
  <1>6. FirstServed'
    BY <1>2 DEF DrainInv, NoStopYet, FirstServed
  <1>7. StopsCounted'
    <2>1. StopTasks' = StopTasks + IF k = "stop" THEN 1 ELSE 0
      BY <1>1, StopsAppend DEF StopTasks, StopsIn
    <2>2. StopTasks \in Nat
      BY <1>1, StopsFinite DEF StopTasks
    <2> SUFFICES ASSUME Ending'
                 PROVE  (StopTasks + num["stop"] + num["dead"] + left <= Workers)'
      BY DEF StopsCounted
    <2>3. StopTasks + num["stop"] + num["dead"] + left <= Workers
      BY <1>3 DEF DrainInv, StopsCounted
    <2>4. left' + (IF k = "stop" THEN 1 ELSE 0) <= left
      BY <1>3
    <2> DEFINE s == StopTasks'
               l == left'
    <2>5. l \in Nat /\ s = StopTasks + (IF k = "stop" THEN 1 ELSE 0)
      BY <2>1
    <2>6. l + (IF k = "stop" THEN 1 ELSE 0) <= left
      BY <2>4
    <2> HIDE DEF s, l
    <2>7. s \in Nat /\ s + num["stop"] + num["dead"] + l <= Workers
      BY <1>1, <2>2, <2>3, <2>5, <2>6, ThreadpoolAssumption
    <2> QED
      BY <2>7 DEF s, l
  <1>8. AllDead'
    BY DEF DrainInv, AllDead
  <1> QED
    BY <1>4, <1>5, <1>6, <1>7, <1>8 DEF DrainInv

\* A worker changes its state: only one that runs a stop task may die.
LEMMA DrainMove ==
  ASSUME TypeOK, DrainInv, UNCHANGED <<queue, opc, left>>,
         num'["stop"] \in Nat, num'["dead"] \in Nat, num'["dead"] >= num["dead"],
         num'["stop"] + num'["dead"] = num["stop"] + num["dead"]
  PROVE  DrainInv'
  <1>1. /\ queue \in Seq(Kinds) /\ left \in Nat
        /\ num["stop"] \in Nat /\ num["dead"] \in Nat
    BY DEF TypeOK, States, Kinds
  <1>2. num["stop"] = 0 /\ num["dead"] = 0 => num'["stop"] = 0 /\ num'["dead"] = 0
    BY <1>1
  <1>3. Ending' <=> Ending
    BY DEF Ending
  <1>4. NoStopYet'
    BY <1>2, <1>3 DEF DrainInv, NoStopYet
  <1>5. RearLast'
    BY DEF DrainInv, RearLast
  <1>6. FirstServed'
    BY <1>2 DEF DrainInv, FirstServed
  <1>7. StopsCounted'
    <2>1. StopTasks \in Nat /\ StopTasks' = StopTasks
      BY <1>1, StopsFinite DEF StopTasks, StopsIn
    <2> SUFFICES ASSUME Ending'
                 PROVE  (StopTasks + num["stop"] + num["dead"] + left <= Workers)'
      BY DEF StopsCounted
    <2>2. StopTasks + num["stop"] + num["dead"] + left <= Workers
      BY <1>3 DEF DrainInv, StopsCounted
    <2> DEFINE a == num'["stop"]
               b == num'["dead"]
    <2>3. a \in Nat /\ b \in Nat /\ a + b = num["stop"] + num["dead"]
      OBVIOUS
    <2> HIDE DEF a, b
    <2>4. StopTasks + a + b + left <= Workers
      BY <1>1, <2>1, <2>2, <2>3, ThreadpoolAssumption
    <2> QED
      BY <2>1, <2>4 DEF a, b
  <1>8. AllDead'
    BY <1>1, ThreadpoolAssumption DEF DrainInv, AllDead
  <1> QED
    BY <1>4, <1>5, <1>6, <1>7, <1>8 DEF DrainInv

\* The owner goes on to another of its loops: what it has yet to enqueue grows only
\* when shutdown() begins, and it is gone only when all workers are dead.
LEMMA DrainOwner ==
  ASSUME TypeOK, DrainInv, UNCHANGED <<queue, num>>, left' \in Nat,
         Ending => Ending' /\ left' <= left,
         Ending' => Ending \/ left' <= Workers,
         opc' = "gone" => num["dead"] >= Workers
  PROVE  DrainInv'
  <1>1. /\ queue \in Seq(Kinds) /\ left \in Nat
        /\ num["stop"] \in Nat /\ num["dead"] \in Nat
    BY DEF TypeOK, States, Kinds
  <1>2. NoStopYet' /\ RearLast' /\ FirstServed' /\ AllDead'
    BY DEF DrainInv, NoStopYet, RearLast, FirstServed, AllDead
  <1>3. StopsCounted'
    <2>1. StopTasks \in Nat /\ StopTasks' = StopTasks
      BY <1>1, StopsFinite DEF StopTasks, StopsIn
    <2> SUFFICES ASSUME Ending'
                 PROVE  (StopTasks + num["stop"] + num["dead"] + left <= Workers)'
      BY DEF StopsCounted
    <2>2. CASE Ending
      <3> DEFINE l == left'
      <3>1. l \in Nat /\ l <= left
        BY <2>2
      <3>2. StopTasks + num["stop"] + num["dead"] + left <= Workers
        BY <2>2 DEF DrainInv, StopsCounted
      <3> HIDE DEF l
      <3>3. StopTasks + num["stop"] + num["dead"] + l <= Workers
        BY <1>1, <2>1, <3>1, <3>2, ThreadpoolAssumption
      <3> QED
        BY <2>1, <3>3 DEF l
    <2>3. CASE ~Ending
      <3>1. StopsIn(queue) = {} /\ num["stop"] = 0 /\ num["dead"] = 0 /\ left' <= Workers
        BY <2>3 DEF DrainInv, NoStopYet, StopsIn, Rear
      <3>2. StopTasks = 0
        BY <3>1, FS_EmptySet DEF StopTasks
      <3> DEFINE l == left'
      <3>3. l \in Nat /\ l <= Workers
        BY <3>1
      <3> HIDE DEF l
      <3>4. 0 + 0 + 0 + l <= Workers
        BY <3>3, ThreadpoolAssumption
      <3> QED
        BY <2>1, <3>1, <3>2, <3>4 DEF l
    <2> QED
      BY <2>2, <2>3
  <1> QED
    BY <1>2, <1>3 DEF DrainInv

\* A worker takes the first task: a stop task only when none of the front is left.
LEMMA DrainTake ==
  ASSUME TypeOK, DrainInv, Take
  PROVE  DrainInv'
  <1> DEFINE n == Len(queue)
             k == Head(queue)
  <1>1. /\ queue \in Seq(Kinds) /\ queue # <<>> /\ left \in Nat /\ k \in Kinds
        /\ num \in [States -> Nat] /\ num["stop"] \in Nat /\ num["dead"] \in Nat
    BY DEF Take, TypeOK, States, Kinds
  <1>2. /\ n \in Nat \ {0} /\ Len(queue') = n - 1 /\ queue[1] = k
        /\ \A i \in 1 .. n - 1 : queue'[i] = queue[i + 1]
    BY <1>1 DEF Take
  <1>3. /\ num'["dead"] = num["dead"]
        /\ num'["stop"] = num["stop"] + IF k = "stop" THEN 1 ELSE 0
    <2>1. Move("ready", k) /\ "ready" \in States /\ k \in States /\ k # "ready"
      BY <1>1 DEF Take, States, Kinds
    <2>2. /\ num'[k] = num[k] + 1
          /\ \A s \in States \ {"ready", k} : num'[s] = num[s]
      BY <1>1, <2>1, MoveFact
    <2>3. "stop" \in States /\ "dead" \in States /\ k # "dead"
      BY <1>1 DEF States, Kinds
    <2> QED
      BY <1>1, <2>2, <2>3
  <1>4. (Ending' <=> Ending) /\ opc' = opc /\ left' = left
    BY DEF Take, Ending
  <1>5. k = "stop" => \A i \in 1 .. n : queue[i] \in Rear
    BY <1>2 DEF DrainInv, RearLast, Rear
  <1>6. NoStopYet'
    <2> SUFFICES ASSUME ~Ending'
                 PROVE  (/\ \A i \in 1 .. Len(queue) : queue[i] \notin Rear
                         /\ num["stop"] = 0 /\ num["dead"] = 0)'
      BY DEF NoStopYet
    <2>1. /\ \A i \in 1 .. n : queue[i] \notin Rear
          /\ num["stop"] = 0 /\ num["dead"] = 0
      BY <1>4 DEF DrainInv, NoStopYet
    <2>2. k # "stop"
      BY <1>2, <2>1 DEF Rear
    <2> QED
      BY <1>1, <1>2, <1>3, <2>1, <2>2
  <1>7. RearLast'
    <2> SUFFICES ASSUME NEW i \in 1 .. n - 1, NEW j \in 1 .. n - 1, i < j, queue'[i] \in Rear
                 PROVE  queue'[j] \in Rear
      BY <1>2 DEF RearLast
    <2>1. i + 1 \in 1 .. n /\ j + 1 \in 1 .. n /\ i + 1 < j + 1 /\ queue[i + 1] \in Rear
      BY <1>2
    <2>2. queue[j + 1] \in Rear
      BY <2>1 DEF DrainInv, RearLast
    <2> QED
      BY <1>2, <2>2
  <1>8. FirstServed'
    <2> SUFFICES ASSUME NEW i \in 1 .. n - 1, queue'[i] \notin Rear
                 PROVE  num'["stop"] = 0 /\ num'["dead"] = 0
      BY <1>2 DEF FirstServed
    <2>1. i + 1 \in 1 .. n /\ queue[i + 1] \notin Rear
      BY <1>2
    <2>2. num["stop"] = 0 /\ num["dead"] = 0 /\ k # "stop"
      BY <1>5, <2>1 DEF DrainInv, FirstServed
    <2> QED
      BY <1>1, <1>3, <2>2
  <1>9. StopsCounted'
    <2>1. StopTasks' + (IF k = "stop" THEN 1 ELSE 0) <= StopTasks
      BY <1>1, StopsTail DEF Take, StopTasks, StopsIn
    <2>2. StopTasks \in Nat /\ StopTasks' \in Nat
      <3>1. queue' \in Seq(Kinds)
        BY <1>1 DEF Take
      <3> QED
        BY <1>1, <3>1, StopsFinite DEF StopTasks, StopsIn
    <2> SUFFICES ASSUME Ending'
                 PROVE  (StopTasks + num["stop"] + num["dead"] + left <= Workers)'
      BY DEF StopsCounted
    <2>3. StopTasks + num["stop"] + num["dead"] + left <= Workers
      BY <1>4 DEF DrainInv, StopsCounted
    <2> DEFINE s == StopTasks'
               e == IF k = "stop" THEN 1 ELSE 0
    <2>4. s \in Nat /\ s + e <= StopTasks /\ e \in Nat /\ num'["stop"] = num["stop"] + e
      BY <1>3, <2>1, <2>2
    <2> HIDE DEF s, e
    <2>5. s + (num["stop"] + e) + num["dead"] + left <= Workers
      BY <1>1, <2>2, <2>3, <2>4, ThreadpoolAssumption
    <2> QED
      BY <1>3, <1>4, <2>4, <2>5 DEF s
  <1>10. AllDead'
    BY <1>3, <1>4 DEF DrainInv, AllDead
  <1> QED
    BY <1>6, <1>7, <1>8, <1>9, <1>10 DEF DrainInv

\* spawn() starts before any shutdown.
LEMMA InitDrain == Init => DrainInv
  <1> SUFFICES ASSUME Init
               PROVE  DrainInv
    OBVIOUS
  <1>1. Len(queue) = 0 /\ ~Ending /\ opc # "gone"
    BY DEF Init, Ending
  <1>2. num["stop"] = 0 /\ num["dead"] = 0
    BY DEF Init, States, Kinds
  <1> QED
    BY <1>1, <1>2 DEF DrainInv, NoStopYet, RearLast, FirstServed, StopsCounted, AllDead

\* Every step keeps the order of the queue and the count of the stop tasks.
LEMMA NextDrain == TypeOK /\ TypeOK' /\ DrainInv /\ [Next]_vars => DrainInv'
  <1> SUFFICES ASSUME TypeOK, TypeOK', DrainInv, [Next]_vars
               PROVE  DrainInv'
    OBVIOUS
  <1>0. /\ left \in Nat /\ left' \in Nat /\ num \in [States -> Nat]
        /\ num' \in [States -> Nat] /\ opc \in OPC
        /\ "stop" \in States /\ "dead" \in States
        /\ num'["stop"] \in Nat /\ num'["dead"] \in Nat
        /\ num["stop"] \in Nat /\ num["dead"] \in Nat
    BY DEF TypeOK, States, Kinds
  <1>1. CASE Async
    <2>1. /\ UNCHANGED <<num, opc>> /\ left' = left /\ opc # "gone"
          /\ queue' = Append(queue, IF opc \in {"stop", "join"} THEN "late" ELSE "plain")
      BY <1>1 DEF Async, Enqueue
    <2>2. CASE Ending
      <3>1. queue' = Append(queue, "late") /\ "late" \in Kinds /\ "late" \in Rear
        BY <2>1, <2>2 DEF Ending, Kinds, Rear
      <3>2. left' + (IF "late" = "stop" THEN 1 ELSE 0) <= left
        BY <1>0, <2>1
      <3> QED
        BY <1>0, <2>1, <2>2, <3>1, <3>2, DrainEnqueue
    <2>3. CASE ~Ending
      <3>1. queue' = Append(queue, "plain") /\ "plain" \in Kinds /\ "plain" \notin Rear
        BY <2>1, <2>3 DEF Ending, Kinds, Rear
      <3> QED
        BY <1>0, <2>1, <2>3, <3>1, DrainEnqueue
    <2> QED
      BY <2>2, <2>3
  <1>2. ASSUME NotifyOne, UNCHANGED <<queue, opc, left>>
        PROVE  DrainInv'
    <2>1. num'["stop"] = num["stop"] /\ num'["dead"] = num["dead"]
      BY <1>0, <1>2 DEF NotifyOne, Move
    <2> QED
      BY <1>0, <1>2, <2>1, DrainMove
  <1>3. CASE Notify
    BY <1>2, <1>3 DEF Notify
  <1>4. CASE OwnerNotify
    BY <1>2, <1>4 DEF OwnerNotify
  <1>5. ASSUME NEW k \in {"plain", "ask"}, Activate(k)
        PROVE  DrainInv'
    <2>1. /\ UNCHANGED <<num, opc>> /\ ~Ending
          /\ queue' = Append(queue, k) /\ k \in Kinds /\ k \notin Rear
      BY <1>5 DEF Activate, Enqueue, Ending, Kinds, Rear
    <2> QED
      BY <1>0, <2>1, DrainEnqueue
  <1>6. CASE Fill
    <2>1. /\ UNCHANGED <<num, opc>> /\ opc \in {"fill", "stop"}
          /\ queue' = Append(queue, IF opc = "fill" THEN "future" ELSE "stop")
          /\ left > 0 /\ left' = left - 1
      BY <1>6 DEF Fill, Enqueue
    <2>2. CASE opc = "fill"
      <3>1. /\ ~Ending /\ queue' = Append(queue, "future")
            /\ "future" \in Kinds /\ "future" \notin Rear
        BY <2>1, <2>2 DEF Ending, Kinds, Rear
      <3> QED
        BY <1>0, <2>1, <3>1, DrainEnqueue
    <2>3. CASE opc = "stop"
      <3>1. Ending /\ queue' = Append(queue, "stop") /\ "stop" \in Kinds /\ "stop" \in Rear
        BY <2>1, <2>3 DEF Ending, Kinds, Rear
      <3>2. left' + (IF "stop" = "stop" THEN 1 ELSE 0) <= left
        BY <1>0, <2>1
      <3> QED
        BY <1>0, <2>1, <3>1, <3>2, DrainEnqueue
    <2> QED
      BY <2>1, <2>2, <2>3
  <1>7. CASE Take
    BY <1>7, DrainTake
  <1>8. ASSUME NEW from \in States, NEW to \in States, Move(from, to), from # to,
               from \notin {"stop", "dead"}, to \notin {"stop", "dead"},
               UNCHANGED <<queue, opc, left>>
        PROVE  DrainInv'
    <2>1. \A s \in States \ {from, to} : num'[s] = num[s]
      BY <1>0, <1>8, MoveFact
    <2>2. num'["stop"] = num["stop"] /\ num'["dead"] = num["dead"]
      BY <1>0, <1>8, <2>1
    <2> QED
      BY <1>0, <1>8, <2>2, DrainMove
  <1>9. CASE Sleep
    <2>1. "ready" \in States /\ "waiting" \in States
      BY DEF States
    <2> QED
      BY <1>8, <1>9, <2>1 DEF Sleep
  <1>10. CASE WakeUp
    <2>1. "ready" \in States /\ "waiting" \in States
      BY DEF States
    <2> QED
      BY <1>8, <1>10, <2>1 DEF WakeUp
  <1>11. CASE Ask
    <2>1. "ask" \in States /\ "blocked" \in States
      BY DEF States, Kinds
    <2> QED
      BY <1>8, <1>11, <2>1 DEF Ask
  <1>12. CASE CarryOn
    <2>1. "blocked" \in States /\ "plain" \in States
      BY DEF States, Kinds
    <2> QED
      BY <1>8, <1>12, <2>1 DEF CarryOn
  <1>13. ASSUME NEW k \in Kinds, Finish(k)
         PROVE  DrainInv'
    <2>1. k \in States /\ "ready" \in States /\ k # "ready" /\ k \notin {"stop", "dead"}
      BY <1>13 DEF Finish, States, Kinds
    <2> QED
      BY <1>8, <1>13, <2>1 DEF Finish
  <1>14. CASE Die
    <2>1. num'["stop"] = num["stop"] - 1 /\ num'["dead"] = num["dead"] + 1
      BY <1>0, <1>14, MoveFact DEF Die
    <2>2. /\ num'["stop"] + num'["dead"] = num["stop"] + num["dead"]
          /\ num'["dead"] >= num["dead"]
      BY <1>0, <2>1
    <2> QED
      BY <1>0, <1>14, <2>2, DrainMove DEF Die
  <1>15. CASE StartWait
    <2>1. ~Ending /\ ~Ending' /\ UNCHANGED <<queue, num>> /\ opc' # "gone"
      BY <1>15 DEF StartWait, Ending
    <2> QED
      BY <1>0, <2>1, DrainOwner
  <1>16. CASE Shutdown
    <2>1. ~Ending /\ Ending' /\ UNCHANGED <<queue, num>> /\ opc' # "gone" /\ left' = Workers
      BY <1>16 DEF Shutdown, Ending
    <2>2. left' <= Workers
      BY <2>1, ThreadpoolAssumption
    <2> QED
      BY <1>0, <2>1, <2>2, DrainOwner
  <1>17. CASE FillDone
    <2>1. /\ Ending' <=> Ending
          /\ UNCHANGED <<queue, num>> /\ opc' # "gone" /\ left' = left
      BY <1>17 DEF FillDone, Ending
    <2>2. left' <= left
      BY <1>0, <2>1
    <2> QED
      BY <1>0, <2>1, <2>2, DrainOwner
  <1>18. CASE EndWait
    <2>1. ~Ending /\ ~Ending' /\ UNCHANGED <<queue, num>> /\ opc' # "gone"
      BY <1>18 DEF EndWait, Ending
    <2> QED
      BY <1>0, <2>1, DrainOwner
  <1>19. CASE Join
    <2>1. /\ Ending /\ Ending' /\ UNCHANGED <<queue, num>> /\ left' = left
          /\ num["dead"] = Workers
      BY <1>19 DEF Join, Ending
    <2>2. left' <= left /\ num["dead"] >= Workers
      BY <1>0, <2>1, ThreadpoolAssumption
    <2> QED
      BY <1>0, <2>1, <2>2, DrainOwner
  <1>20. CASE UNCHANGED vars
    <2>1. UNCHANGED <<queue, num, opc, left>>
      BY <1>20 DEF vars
    <2>2. /\ num'["stop"] + num'["dead"] = num["stop"] + num["dead"]
          /\ num'["dead"] >= num["dead"]
      BY <1>0, <2>1
    <2> QED
      BY <1>0, <2>1, <2>2, DrainMove
  <1> QED
    BY <1>1, <1>3, <1>4, <1>5, <1>6, <1>7, <1>9, <1>10, <1>11, <1>12, <1>13, <1>14,
       <1>15, <1>16, <1>17, <1>18, <1>19, <1>20 DEF Next, Owner

\* When all workers are dead every stop task was taken, and so was all before them.
LEMMA DrainedWhenGone == TypeOK /\ DrainInv => ShutdownDrains
  <1> SUFFICES ASSUME TypeOK, DrainInv, opc = "gone", NEW i \in 1 .. Len(queue)
               PROVE  queue[i] = "late"
    BY DEF ShutdownDrains
  <1>1. /\ queue \in Seq(Kinds) /\ left \in Nat
        /\ num["stop"] \in Nat /\ num["dead"] \in Nat
    BY DEF TypeOK, States, Kinds
  <1>2. Ending /\ num["dead"] >= Workers
    BY DEF Ending, DrainInv, AllDead
  <1>3. queue[i] \in Rear
    BY <1>1, <1>2, ThreadpoolAssumption DEF DrainInv, FirstServed
  <1>4. IsFiniteSet(StopsIn(queue)) /\ StopTasks \in Nat
    BY <1>1, StopsFinite DEF StopTasks
  <1>5. StopTasks + num["stop"] + num["dead"] + left <= Workers
    BY <1>2 DEF DrainInv, StopsCounted
  <1>6. StopTasks = 0
    BY <1>1, <1>2, <1>4, <1>5, ThreadpoolAssumption
  <1>7. StopsIn(queue) = {}
    BY <1>4, <1>6, FS_EmptySet DEF StopTasks
  <1> QED
    BY <1>3, <1>7 DEF StopsIn, Rear

\* Every task that was enqueued before shutdown() is taken before the pool is gone.
THEOREM PoolDrains == Spec => []ShutdownDrains
  BY InitDrain, NextDrain, TypeCorrect, DrainedWhenGone, PTL DEF Spec
-----------------------------------------------------------------------------
(* TimeoutHeap *)
(* Paths through the tree *)

\* Every set of numbers that is not empty has a least element.
LEMMA Least ==
  ASSUME NEW S \in SUBSET Nat, S # {}
  PROVE  \E m \in S : \A n \in S : m <= n
<1>1. PICK m \in S : \A n \in S : ~(<<n, m>> \in OpToRel(<, Nat))
  BY NatLessThanWellFounded, WFMin
<1>2. \A n \in S : ~(n < m)
  BY <1>1 DEF OpToRel
<1> QED
  BY <1>2

\* f maps each place to the path from there: it ends at once in a place of halt and
\* goes on at next elsewhere.  val names the places.
Walk(n, halt, next, val, f) ==
  f = [i \in 0 .. n |-> IF i \in halt THEN <<val[i]>> ELSE <<val[i]>> \o f[next[i]]]

\* There is such a function if next goes down.
LEMMA WalkExists ==
  ASSUME NEW N \in Nat, NEW halt, NEW next \in [0 .. N -> Nat], NEW val,
         \A i \in 0 .. N : i \notin halt => next[i] < i
  PROVE  \E f : Walk(N, halt, next, val, f)
<1> DEFINE S == {n \in Nat : n <= N /\ ~\E f : Walk(n, halt, next, val, f)}
<1> SUFFICES ASSUME S # {} PROVE FALSE
  <2>1. N <= N
    OBVIOUS
  <2> QED
    BY <2>1
<1>1. PICK m \in S : \A n \in S : m <= n
  BY Least
<1> DEFINE at(g) == IF m \in halt THEN <<val[m]>> ELSE <<val[m]>> \o g[next[m]]
<1>2. ASSUME NEW g, \A i \in 0 .. m - 1 :
               g[i] = IF i \in halt THEN <<val[i]>> ELSE <<val[i]>> \o g[next[i]]
      PROVE  FALSE
  <2> DEFINE f == [i \in 0 .. m |-> IF i = m THEN at(g) ELSE g[i]]
  <2>1. ASSUME NEW i \in 0 .. m
        PROVE  f[i] = IF i \in halt THEN <<val[i]>> ELSE <<val[i]>> \o f[next[i]]
    <3>1. i \notin halt => next[i] \in 0 .. m - 1 /\ f[next[i]] = g[next[i]]
      BY <2>1
    <3>2. CASE i = m
      BY <3>1, <3>2
    <3>3. CASE i # m
      <4>1. i \in 0 .. m - 1 /\ f[i] = g[i]
        BY <3>3
      <4> QED
        BY <1>2, <3>1, <4>1
    <3> QED
      BY <3>2, <3>3
  <2>2. f = [i \in 0 .. m |-> IF i \in halt THEN <<val[i]>> ELSE <<val[i]>> \o f[next[i]]]
    BY <2>1
  <2> HIDE DEF f
  <2> QED
    BY <2>2 DEF Walk
<1>3. CASE m = 0
  BY <1>2, <1>3
<1>4. CASE m # 0
  <2>1. m - 1 \in Nat /\ m - 1 <= N /\ m - 1 \notin S
    BY <1>1, <1>4
  <2>2. PICK g : Walk(m - 1, halt, next, val, g)
    BY <2>1
  <2>3. \A i \in 0 .. m - 1 :
          g[i] = IF i \in halt THEN <<val[i]>> ELSE <<val[i]>> \o g[next[i]]
    BY <2>2 DEF Walk
  <2> QED
    BY <1>2, <2>3
<1> QED
  BY <1>3, <1>4

\* The path from the place i.
PathOf(halt, next, val, N, i, p) ==
  /\ p \in Seq(Nat) /\ Len(p) > 0
  /\ p[1] = val[i]
  /\ \A k \in 1 .. Len(p) - 1 :
       \E j \in 0 .. N : j \notin halt /\ p[k] = val[j] /\ p[k + 1] = val[next[j]]
  /\ \E j \in 0 .. N : j \in halt /\ p[Len(p)] = val[j]

LEMMA WalkPaths ==
  ASSUME NEW N \in Nat, NEW halt, NEW next \in [0 .. N -> Nat], NEW val \in [0 .. N -> Nat],
         \A i \in 0 .. N : i \notin halt => next[i] < i,
         NEW f, Walk(N, halt, next, val, f)
  PROVE  \A i \in 0 .. N : PathOf(halt, next, val, N, i, f[i])
<1> DEFINE S == {i \in Nat : i <= N /\ ~PathOf(halt, next, val, N, i, f[i])}
<1> SUFFICES ASSUME S # {} PROVE FALSE
  OBVIOUS
<1>1. PICK i \in S : \A j \in S : i <= j
  BY Least
<1>2. i \in 0 .. N /\ ~PathOf(halt, next, val, N, i, f[i])
  OBVIOUS
<1>3. CASE i \in halt
  <2>1. f[i] = <<val[i]>>
    BY <1>2, <1>3 DEF Walk
  <2> QED
    BY <1>2, <1>3, <2>1 DEF PathOf
<1>4. CASE i \notin halt
  <2> DEFINE q == f[next[i]]
             p == f[i]
  <2>1. p = <<val[i]>> \o q
    BY <1>2, <1>4 DEF Walk
  <2>2. next[i] \in 0 .. N /\ next[i] \notin S
    BY <1>1, <1>2, <1>4
  <2>3. PathOf(halt, next, val, N, next[i], q)
    BY <2>2
  <2> HIDE DEF p, q
  <2>4. q \in Seq(Nat) /\ Len(q) > 0
    BY <2>3 DEF PathOf
  <2>5. /\ p \in Seq(Nat) /\ Len(p) = Len(q) + 1 /\ p[1] = val[i]
        /\ \A k \in 2 .. Len(p) : p[k] = q[k - 1]
        /\ Len(q) \in Nat
    BY <1>2, <2>1, <2>4
  <2>6. ASSUME NEW k \in 1 .. Len(p) - 1
        PROVE  \E j \in 0 .. N : j \notin halt /\ p[k] = val[j] /\ p[k + 1] = val[next[j]]
    <3>1. CASE k = 1
      <4>1. p[k] = val[i] /\ p[k + 1] = val[next[i]]
        BY <2>3, <2>4, <2>5, <3>1 DEF PathOf
      <4> QED
        BY <1>2, <1>4, <4>1
    <3>2. CASE k # 1
      <4>1. /\ k - 1 \in 1 .. Len(q) - 1 /\ k \in 2 .. Len(p) /\ k + 1 \in 2 .. Len(p)
            /\ (k - 1) + 1 = k /\ (k + 1) - 1 = k
        BY <2>5, <3>2
      <4>2. p[k] = q[k - 1] /\ p[k + 1] = q[k]
        BY <2>5, <4>1
      <4>3. \E j \in 0 .. N :
              j \notin halt /\ q[k - 1] = val[j] /\ q[(k - 1) + 1] = val[next[j]]
        BY <2>3, <4>1 DEF PathOf
      <4> QED
        BY <4>1, <4>2, <4>3
    <3> QED
      BY <3>1, <3>2
  <2>7. \E j \in 0 .. N : j \in halt /\ p[Len(p)] = val[j]
    <3>1. Len(p) \in 2 .. Len(p) /\ Len(p) - 1 = Len(q)
      BY <2>4, <2>5
    <3>2. p[Len(p)] = q[Len(q)]
      BY <2>5, <3>1
    <3> QED
      BY <2>3, <3>2 DEF PathOf
  <2>8. PathOf(halt, next, val, N, i, p)
    <3>1. Len(p) > 0
      BY <2>4, <2>5
    <3> QED
      BY <2>5, <2>6, <2>7, <3>1 DEF PathOf
  <2> QED
    BY <1>2, <2>8 DEF p
<1> QED
  BY <1>3, <1>4

-----------------------------------------------------------------------------
(* The paths of the two loops *)

Rises(p, a, idx, e) ==
  /\ p \in Seq(Nat) /\ Len(p) > 0 /\ p[1] = idx
  /\ \A k \in 1 .. Len(p) - 1 :
       p[k] # 0 /\ p[k + 1] = Parent(p[k]) /\ Less(e, a[p[k + 1]])
  /\ p[Len(p)] = 0 \/ ~Less(e, a[Parent(p[Len(p)])])

Sinks(p, a, n, idx, e) ==
  /\ p \in Seq(Nat) /\ Len(p) > 0 /\ p[1] = idx
  /\ \A k \in 1 .. Len(p) - 1 :
       p[k + 1] = MinChild(a, p[k]) /\ p[k + 1] < n /\ Less(a[p[k + 1]], e)
  /\ MinChild(a, p[Len(p)]) >= n \/ ~Less(a[MinChild(a, p[Len(p)])], e)

\* _bubble_up goes from idx through the parents.
LEMMA UpPathRises ==
  ASSUME NEW idx \in Nat, NEW a, NEW e
  PROVE  Rises(UpPath(a, idx, e), a, idx, e)
<1> DEFINE halt == {i \in 0 .. idx : i = 0 \/ ~Less(e, a[Parent(i)])}
           next == [i \in 0 .. idx |-> IF i = 0 THEN 0 ELSE Parent(i)]
           val == [i \in 0 .. idx |-> i]
           up == CHOOSE f : f = [i \in 0 .. idx |->
                   IF i = 0 THEN <<0>>
                   ELSE IF ~Less(e, a[Parent(i)]) THEN <<i>>
                   ELSE <<i>> \o f[Parent(i)]]
           p == up[idx]
<1>1. UpPath(a, idx, e) = p
  BY DEF UpPath
<1>2. \A i \in 0 .. idx : i # 0 => Parent(i) \in 0 .. idx /\ Parent(i) < i
  BY DEF Parent
<1>3. /\ next \in [0 .. idx -> Nat] /\ val \in [0 .. idx -> Nat]
      /\ \A i \in 0 .. idx : i \notin halt => next[i] < i
  BY <1>2
<1>4. PICK g : Walk(idx, halt, next, val, g)
  <2> HIDE DEF halt, next, val
  <2> QED
    BY <1>3, WalkExists
<1>5. \A f : Walk(idx, halt, next, val, f) <=>
        f = [i \in 0 .. idx |->
                   IF i = 0 THEN <<0>>
                   ELSE IF ~Less(e, a[Parent(i)]) THEN <<i>>
                   ELSE <<i>> \o f[Parent(i)]]
  <2> SUFFICES ASSUME NEW f, NEW i \in 0 .. idx
               PROVE  (IF i \in halt THEN <<val[i]>> ELSE <<val[i]>> \o f[next[i]]) =
                      (IF i = 0 THEN <<0>>
                       ELSE IF ~Less(e, a[Parent(i)]) THEN <<i>>
                       ELSE <<i>> \o f[Parent(i)])
    BY Zenon DEF Walk
  <2>1. CASE i = 0
    BY <2>1
  <2>2. CASE i # 0
    BY <2>2
  <2> QED
    BY <2>1, <2>2
<1>6. Walk(idx, halt, next, val, up)
  BY <1>4, <1>5
<1>7. PathOf(halt, next, val, idx, idx, p)
  <2>1. \A i \in 0 .. idx : PathOf(halt, next, val, idx, i, up[i])
    <3> HIDE DEF halt, next, val, up
    <3> QED
      BY <1>3, <1>6, WalkPaths
  <2> HIDE DEF halt, next, val, up
  <2> QED
    BY <2>1
<1> HIDE DEF up, p
<1>8. p \in Seq(Nat) /\ Len(p) > 0 /\ p[1] = idx
  BY <1>7 DEF PathOf
<1>9. ASSUME NEW k \in 1 .. Len(p) - 1
      PROVE  p[k] # 0 /\ p[k + 1] = Parent(p[k]) /\ Less(e, a[p[k + 1]])
  <2>1. PICK j \in 0 .. idx : j \notin halt /\ p[k] = val[j] /\ p[k + 1] = val[next[j]]
    BY <1>7 DEF PathOf
  <2>2. p[k] = j /\ j # 0 /\ p[k + 1] = Parent(j) /\ Less(e, a[Parent(j)])
    BY <1>2, <2>1
  <2> QED
    BY <2>2
<1>10. p[Len(p)] = 0 \/ ~Less(e, a[Parent(p[Len(p)])])
  BY <1>7 DEF PathOf
<1> QED
  BY <1>1, <1>8, <1>9, <1>10 DEF Rises

LEMMA MinChildIs ==
  ASSUME NEW a, Size(a) \in Nat, NEW i \in Nat
  PROVE  /\ MinChild(a, i) \in {2 * i + 1, 2 * i + 2}
         /\ MinChild(a, i) >= Size(a) => 2 * i + 1 >= Size(a)
BY DEF MinChild

\* _bubble_down goes from idx through the children it looks at.
LEMMA DownPathSinks ==
  ASSUME NEW a, NEW n \in Nat, Size(a) = n, NEW idx \in 0 .. n, NEW e
  PROVE  Sinks(DownPath(a, idx, e), a, n, idx, e)
<1> DEFINE c(i) == MinChild(a, i)
           stop(i) == c(i) >= n \/ ~Less(a[c(i)], e)
           halt == {k \in 0 .. n : stop(n - k)}
           next == [k \in 0 .. n |-> IF k \in halt THEN 0 ELSE n - c(n - k)]
           val == [k \in 0 .. n |-> n - k]
           down == CHOOSE f : f = [k \in 0 .. n |->
                     IF stop(n - k) THEN <<n - k>> ELSE <<n - k>> \o f[n - c(n - k)]]
           p == down[n - idx]
<1>1. DownPath(a, idx, e) = p
  BY DEF DownPath
<1>2. \A k \in 0 .. n : n - k \in Nat /\ c(n - k) \in Nat /\ c(n - k) > n - k
  <2> SUFFICES ASSUME NEW k \in 0 .. n
               PROVE  n - k \in Nat /\ c(n - k) \in Nat /\ c(n - k) > n - k
    OBVIOUS
  <2>1. n - k \in Nat
    OBVIOUS
  <2>2. c(n - k) \in {2 * (n - k) + 1, 2 * (n - k) + 2}
    BY <2>1, MinChildIs
  <2> HIDE DEF c
  <2> QED
    BY <2>1, <2>2
<1> HIDE DEF c
<1>3. /\ next \in [0 .. n -> Nat] /\ val \in [0 .. n -> Nat]
      /\ \A k \in 0 .. n : k \notin halt => next[k] < k /\ next[k] \in 0 .. n
  <2> SUFFICES ASSUME NEW k \in 0 .. n
               PROVE  /\ next[k] \in Nat /\ val[k] \in Nat
                      /\ k \notin halt => next[k] < k /\ next[k] \in 0 .. n
    OBVIOUS
  <2>1. CASE k \in halt
    BY <2>1
  <2>2. CASE k \notin halt
    <3>1. ~(c(n - k) >= n)
      BY <2>2
    <3>2. next[k] = n - c(n - k)
      BY <2>2
    <3> HIDE DEF halt, next
    <3> QED
      BY <1>2, <2>2, <3>1, <3>2
  <2> QED
    BY <2>1, <2>2
<1>4. PICK g : Walk(n, halt, next, val, g)
  <2> HIDE DEF halt, next, val
  <2> QED
    BY <1>3, WalkExists
<1>5. \A f : Walk(n, halt, next, val, f) <=>
        f = [k \in 0 .. n |->
               IF stop(n - k) THEN <<n - k>> ELSE <<n - k>> \o f[n - c(n - k)]]
  <2> SUFFICES ASSUME NEW f, NEW k \in 0 .. n
               PROVE  (IF k \in halt THEN <<val[k]>> ELSE <<val[k]>> \o f[next[k]]) =
                      (IF stop(n - k) THEN <<n - k>> ELSE <<n - k>> \o f[n - c(n - k)])
    BY Zenon DEF Walk
  <2> HIDE DEF stop
  <2> QED
    OBVIOUS
<1>6. Walk(n, halt, next, val, down)
  <2> HIDE DEF stop, halt, next, val
  <2> QED
    BY <1>4, <1>5
<1>7. PathOf(halt, next, val, n, n - idx, p)
  <2>1. \A i \in 0 .. n : PathOf(halt, next, val, n, i, down[i])
    <3> HIDE DEF halt, next, val, down
    <3> QED
      BY <1>3, <1>6, WalkPaths
  <2> HIDE DEF halt, next, val, down
  <2> QED
    BY <2>1
<1> HIDE DEF down, p
<1>8. p \in Seq(Nat) /\ Len(p) > 0 /\ p[1] = idx
  <2>1. p \in Seq(Nat) /\ Len(p) > 0 /\ p[1] = val[n - idx]
    BY <1>7 DEF PathOf
  <2>2. val[n - idx] = idx
    OBVIOUS
  <2> QED
    BY <2>1, <2>2
<1>9. ASSUME NEW k \in 1 .. Len(p) - 1
      PROVE  p[k + 1] = c(p[k]) /\ p[k + 1] < n /\ Less(a[p[k + 1]], e)
  <2>1. PICK j \in 0 .. n : j \notin halt /\ p[k] = val[j] /\ p[k + 1] = val[next[j]]
    BY <1>7 DEF PathOf
  <2>2. ~(c(n - j) >= n) /\ Less(a[c(n - j)], e)
    BY <2>1
  <2>3. p[k] = n - j
    BY <2>1
  <2>4. next[j] = n - c(n - j) /\ next[j] \in 0 .. n
    BY <1>3, <2>1
  <2>5. p[k + 1] = n - (n - c(n - j))
    BY <2>1, <2>4
  <2>6. p[k + 1] = c(n - j) /\ c(n - j) < n
    <3> HIDE DEF halt, next, val
    <3> QED
      BY <1>2, <2>2, <2>5
  <2> QED
    BY <2>2, <2>3, <2>6
<1>10. stop(p[Len(p)])
  <2>1. PICK j \in 0 .. n : j \in halt /\ p[Len(p)] = val[j]
    BY <1>7 DEF PathOf
  <2> HIDE DEF stop
  <2> QED
    BY <2>1
<1> QED
  BY <1>1, <1>8, <1>9, <1>10 DEF Sinks, c

-----------------------------------------------------------------------------
(* What the moves along a path leave behind *)

\* No loop meets an index twice.
Simple(p) == p \in Seq(Nat) /\ Len(p) > 0 /\ \A j, k \in 1 .. Len(p) : p[j] = p[k] => j = k

Falling(p) == p \in Seq(Nat) /\ \A k \in 1 .. Len(p) - 1 : p[k + 1] < p[k]
Growing(p) == p \in Seq(Nat) /\ \A k \in 1 .. Len(p) - 1 : p[k] < p[k + 1]

LEMMA FallingAll ==
  ASSUME NEW p, Falling(p), NEW j \in 1 .. Len(p), NEW k \in 1 .. Len(p), j < k
  PROVE  p[k] < p[j]
<1>1. p \in Seq(Nat) /\ Len(p) \in Nat
  BY DEF Falling
<1> DEFINE S == {m \in Nat : j < m /\ m <= Len(p) /\ ~(p[m] < p[j])}
<1> SUFFICES ASSUME S # {} PROVE FALSE
  BY <1>1
<1>2. PICK m \in S : \A i \in S : m <= i
  BY Least
<1>3. m \in Nat /\ j < m /\ m <= Len(p) /\ ~(p[m] < p[j])
  OBVIOUS
<1>4. /\ m - 1 \in 1 .. Len(p) - 1 /\ m - 1 \in 1 .. Len(p) /\ m \in 1 .. Len(p)
      /\ m - 1 \notin S /\ (m - 1) + 1 = m
  BY <1>1, <1>2, <1>3
<1>5. p[m] < p[m - 1]
  BY <1>4 DEF Falling
<1>6. p[m] \in Nat /\ p[m - 1] \in Nat /\ p[j] \in Nat
  <2> HIDE DEF S
  <2>1. \A i \in 1 .. Len(p) : p[i] \in Nat
    BY <1>1
  <2> QED
    BY <1>4, <2>1
<1>7. p[m - 1] <= p[j]
  <2>1. CASE m - 1 = j
    BY <1>6, <2>1
  <2>2. CASE m - 1 # j
    <3>1. p[m - 1] < p[j]
      BY <1>1, <1>3, <1>4, <2>2
    <3> QED
      BY <1>6, <3>1
  <2> QED
    BY <2>1, <2>2
<1> QED
  BY <1>3, <1>5, <1>6, <1>7

LEMMA GrowingAll ==
  ASSUME NEW p, Growing(p), NEW j \in 1 .. Len(p), NEW k \in 1 .. Len(p), j < k
  PROVE  p[j] < p[k]
<1>1. p \in Seq(Nat) /\ Len(p) \in Nat
  BY DEF Growing
<1> DEFINE S == {m \in Nat : j < m /\ m <= Len(p) /\ ~(p[j] < p[m])}
<1> SUFFICES ASSUME S # {} PROVE FALSE
  BY <1>1
<1>2. PICK m \in S : \A i \in S : m <= i
  BY Least
<1>3. m \in Nat /\ j < m /\ m <= Len(p) /\ ~(p[j] < p[m])
  OBVIOUS
<1>4. /\ m - 1 \in 1 .. Len(p) - 1 /\ m - 1 \in 1 .. Len(p) /\ m \in 1 .. Len(p)
      /\ m - 1 \notin S /\ (m - 1) + 1 = m
  BY <1>1, <1>2, <1>3
<1>5. p[m - 1] < p[m]
  BY <1>4 DEF Growing
<1>6. p[m] \in Nat /\ p[m - 1] \in Nat /\ p[j] \in Nat
  <2> HIDE DEF S
  <2>1. \A i \in 1 .. Len(p) : p[i] \in Nat
    BY <1>1
  <2> QED
    BY <1>4, <2>1
<1>7. p[j] <= p[m - 1]
  <2>1. CASE m - 1 = j
    BY <1>6, <2>1
  <2>2. CASE m - 1 # j
    <3>1. p[j] < p[m - 1]
      BY <1>1, <1>3, <1>4, <2>2
    <3> QED
      BY <1>6, <3>1
  <2> QED
    BY <2>1, <2>2
<1> QED
  BY <1>3, <1>5, <1>6, <1>7

LEMMA RisesSimple ==
  ASSUME NEW p, NEW a, NEW idx \in Nat, NEW e, Rises(p, a, idx, e)
  PROVE  Falling(p) /\ Simple(p) /\ \A k \in 1 .. Len(p) : p[k] \in 0 .. idx
<1>1. p \in Seq(Nat) /\ Len(p) > 0 /\ Len(p) \in Nat /\ p[1] = idx
  BY DEF Rises
<1>2. Falling(p)
  <2> SUFFICES ASSUME NEW k \in 1 .. Len(p) - 1 PROVE p[k + 1] < p[k]
    BY <1>1 DEF Falling
  <2>1. p[k] # 0 /\ p[k + 1] = Parent(p[k]) /\ p[k] \in Nat
    BY <1>1 DEF Rises
  <2> QED
    BY <2>1 DEF Parent
<1>3. ASSUME NEW j \in 1 .. Len(p), NEW k \in 1 .. Len(p), p[j] = p[k]
      PROVE  j = k
  <2>1. p[j] \in Nat /\ p[k] \in Nat
    BY <1>1
  <2>2. ~(j < k) /\ ~(k < j)
    BY <1>2, <1>3, <2>1, FallingAll
  <2> QED
    BY <2>2
<1>4. ASSUME NEW k \in 1 .. Len(p)
      PROVE  p[k] \in 0 .. idx
  <2>1. p[k] \in Nat /\ (k = 1 \/ 1 < k) /\ 1 \in 1 .. Len(p)
    BY <1>1
  <2>2. k = 1 \/ p[k] < p[1]
    BY <1>2, <2>1, FallingAll
  <2> QED
    BY <1>1, <2>1, <2>2
<1> QED
  BY <1>1, <1>2, <1>3, <1>4 DEF Simple

LEMMA SinksSimple ==
  ASSUME NEW p, NEW a, NEW n \in Nat, Size(a) = n, NEW idx \in 0 .. n, NEW e,
         Sinks(p, a, n, idx, e)
  PROVE  Growing(p) /\ Simple(p) /\ \A k \in 2 .. Len(p) : p[k] \in 0 .. n - 1
<1>1. p \in Seq(Nat) /\ Len(p) > 0 /\ Len(p) \in Nat /\ p[1] = idx
  BY DEF Sinks
<1>2. Growing(p)
  <2> SUFFICES ASSUME NEW k \in 1 .. Len(p) - 1 PROVE p[k] < p[k + 1]
    BY <1>1 DEF Growing
  <2>1. p[k + 1] = MinChild(a, p[k]) /\ p[k] \in Nat
    BY <1>1 DEF Sinks
  <2>2. p[k + 1] \in {2 * p[k] + 1, 2 * p[k] + 2}
    BY <2>1, MinChildIs
  <2> QED
    BY <2>1, <2>2
<1>3. ASSUME NEW j \in 1 .. Len(p), NEW k \in 1 .. Len(p), p[j] = p[k]
      PROVE  j = k
  <2>1. p[j] \in Nat /\ p[k] \in Nat
    BY <1>1
  <2>2. ~(j < k) /\ ~(k < j)
    BY <1>2, <1>3, <2>1, GrowingAll
  <2> QED
    BY <2>2
<1>4. ASSUME NEW k \in 2 .. Len(p)
      PROVE  p[k] \in 0 .. n - 1
  <2>1. k - 1 \in 1 .. Len(p) - 1 /\ (k - 1) + 1 = k /\ p[k] \in Nat
    BY <1>1
  <2>2. p[(k - 1) + 1] < n
    BY <2>1 DEF Sinks
  <2> QED
    BY <2>1, <2>2
<1> QED
  BY <1>1, <1>2, <1>3, <1>4 DEF Simple

\* b is a after the moves along p.
Shift(b, a, n, p, e) ==
  /\ b = [i \in 0 .. n - 1 |-> b[i]]
  /\ \A k \in 1 .. Len(p) :
       p[k] \in 0 .. n - 1 => b[p[k]] = IF k = Len(p) THEN e ELSE a[p[k + 1]]
  /\ \A i \in 0 .. n - 1 : (\A k \in 1 .. Len(p) : p[k] # i) => b[i] = a[i]

LEMMA MovedAt ==
  ASSUME NEW n \in Nat, NEW a, DOMAIN a = 0 .. n - 1, NEW e, NEW p, Simple(p)
  PROVE  Shift(Moved(a, p, e), a, n, p, e)
<1> DEFINE b == Moved(a, p, e)
<1>1. DOMAIN p = 1 .. Len(p)
  BY DEF Simple
<1>2. b = [i \in 0 .. n - 1 |-> b[i]]
  BY DEF Moved
<1>3. ASSUME NEW k \in 1 .. Len(p), p[k] \in 0 .. n - 1
      PROVE  b[p[k]] = IF k = Len(p) THEN e ELSE a[p[k + 1]]
  <2>1. \A j \in DOMAIN p : p[j] = p[k] => j = k
    BY <1>1 DEF Simple
  <2>2. (CHOOSE j \in DOMAIN p : p[j] = p[k]) = k
    BY <1>1, <2>1
  <2>3. b[p[k]] = LET j == CHOOSE j \in DOMAIN p : p[j] = p[k]
                  IN  IF j = Len(p) THEN e ELSE a[p[j + 1]]
    BY <1>1, <1>3 DEF Moved
  <2> QED
    BY <2>2, <2>3
<1>4. ASSUME NEW i \in 0 .. n - 1, \A k \in 1 .. Len(p) : p[k] # i
      PROVE  b[i] = a[i]
  BY <1>1, <1>4 DEF Moved
<1> HIDE DEF b
<1>5. Shift(b, a, n, p, e)
  BY <1>2, <1>3, <1>4 DEF Shift
<1> QED
  BY <1>5 DEF b

\* b and s hold what a did, with e for the element at idx, each at its own index.
Follows(b, s, a, n, idx, e) ==
  /\ b \in [0 .. n - 1 -> Event] /\ s \in [Event -> Int]
  /\ \A i \in 0 .. n - 1 : s[b[i]] = i
  /\ Range(b) = {a[i] : i \in (0 .. n - 1) \ {idx}} \union {e}
  /\ \A f \in Event : f \notin Range(b) => s[f] = satellite[f]

\* The moves along a path without repetition keep the satellites inverse to the array.
LEMMA PlacedInverts ==
  ASSUME NEW n \in Nat, NEW a \in [0 .. n - 1 -> Event], NEW e \in Event, NEW p, Simple(p),
         satellite \in [Event -> Int],
         \A k \in 1 .. Len(p) : p[k] \in 0 .. n - 1,
         \A i, j \in 0 .. n - 1 : a[i] = a[j] => i = j,
         \A i \in 0 .. n - 1 : i # p[1] => satellite[a[i]] = i /\ a[i] # e
  PROVE  Follows(Moved(a, p, e), Placed(a, p, e), a, n, p[1], e)
<1> DEFINE b == Moved(a, p, e)
           s == Placed(a, p, e)
           L == Len(p)
<1>1. L \in Nat /\ L > 0 /\ \A k \in 1 .. L : p[k] \in 0 .. n - 1
  BY DEF Simple
<1>2. /\ b = [i \in 0 .. n - 1 |-> b[i]]
      /\ \A k \in 1 .. L : b[p[k]] = IF k = L THEN e ELSE a[p[k + 1]]
      /\ \A i \in 0 .. n - 1 : (\A k \in 1 .. L : p[k] # i) => b[i] = a[i]
  <2>1. DOMAIN a = 0 .. n - 1 /\ Simple(p)
    BY <1>1
  <2>2. Shift(b, a, n, p, e)
    BY <2>1, MovedAt
  <2> HIDE DEF b
  <2> QED
    BY <1>1, <2>2 DEF Shift
<1>3. /\ \A j, k \in 1 .. L : p[j] = p[k] => j = k
      /\ 1 \in 1 .. L /\ L \in 1 .. L
      /\ \A k \in 2 .. L : k \in 1 .. L /\ p[k] # p[1]
  BY <1>1 DEF Simple
<1>4. s[e] = p[L]
  BY DEF Placed
<1>5. ASSUME NEW k \in 2 .. L
      PROVE  s[a[p[k]]] = p[k - 1] /\ a[p[k]] # e
  <2>1. a[p[k]] \in Event /\ a[p[k]] # e
    BY <1>1, <1>3
  <2>2. \A j \in 2 .. L : a[p[j]] = a[p[k]] => j = k
    BY <1>1, <1>3
  <2>3. (CHOOSE j \in 2 .. L : a[p[j]] = a[p[k]]) = k
    BY <2>2
  <2>4. s[a[p[k]]] = p[(CHOOSE j \in 2 .. L : a[p[j]] = a[p[k]]) - 1]
    BY <2>1 DEF Placed
  <2> QED
    BY <2>1, <2>3, <2>4
<1>6. ASSUME NEW f \in Event, f # e, \A k \in 2 .. L : a[p[k]] # f
      PROVE  s[f] = satellite[f]
  BY <1>6 DEF Placed
<1> HIDE DEF b, s
<1>7. s \in [Event -> Int]
  <2>1. s = [f \in Event |-> s[f]]
    BY DEF s, Placed
  <2>2. ASSUME NEW f \in Event PROVE s[f] \in Int
    <3>1. CASE f = e
      BY <1>1, <1>3, <1>4, <3>1
    <3>2. CASE \E k \in 2 .. L : a[p[k]] = f
      <4>1. PICK k \in 2 .. L : a[p[k]] = f
        BY <3>2
      <4>2. p[k - 1] \in 0 .. n - 1
        <5>1. k - 1 \in 1 .. L
          BY <1>1
        <5> QED
          BY <1>1, <5>1
      <4>3. s[f] = p[k - 1]
        BY <1>5, <4>1
      <4> QED
        BY <4>2, <4>3
    <3>3. CASE f # e /\ \A k \in 2 .. L : a[p[k]] # f
      BY <1>6, <3>3
    <3> QED
      BY <3>1, <3>2, <3>3
  <2> QED
    BY <2>1, <2>2
<1>8. ASSUME NEW i \in 0 .. n - 1
      PROVE  /\ b[i] \in Event /\ s[b[i]] = i
             /\ b[i] \in {a[j] : j \in (0 .. n - 1) \ {p[1]}} \union {e}
  <2>1. CASE \A k \in 1 .. L : p[k] # i
    <3>1. b[i] = a[i] /\ i # p[1]
      BY <1>2, <1>3, <2>1
    <3>2. a[i] \in Event /\ a[i] # e /\ satellite[a[i]] = i
      BY <3>1
    <3>3. \A k \in 2 .. L : a[p[k]] # a[i]
      BY <1>1, <1>3, <2>1
    <3> QED
      BY <1>6, <3>1, <3>2, <3>3
  <2>2. CASE \E k \in 1 .. L : p[k] = i
    <3>1. PICK k \in 1 .. L : p[k] = i
      BY <2>2
    <3>2. CASE k = L
      BY <1>2, <1>4, <3>1, <3>2
    <3>3. CASE k # L
      <4>1. k + 1 \in 2 .. L /\ (k + 1) - 1 = k
        BY <1>1, <3>3
      <4>2. b[i] = a[p[k + 1]]
        BY <1>2, <3>1, <3>3
      <4>3. s[a[p[k + 1]]] = p[k]
        BY <1>5, <4>1
      <4>4. p[k + 1] \in (0 .. n - 1) \ {p[1]}
        BY <1>1, <1>3, <4>1
      <4> QED
        BY <3>1, <4>2, <4>3, <4>4
    <3> QED
      BY <3>2, <3>3
  <2> QED
    BY <2>1, <2>2
<1>9. b \in [0 .. n - 1 -> Event]
  BY <1>2, <1>8
<1>10. ASSUME NEW j \in (0 .. n - 1) \ {p[1]}
       PROVE  \E i \in 0 .. n - 1 : b[i] = a[j]
  <2>1. CASE \A k \in 1 .. L : p[k] # j
    BY <1>2, <2>1
  <2>2. CASE \E k \in 1 .. L : p[k] = j
    <3>1. PICK k \in 1 .. L : p[k] = j
      BY <2>2
    <3>2. k - 1 \in 1 .. L /\ k - 1 # L /\ (k - 1) + 1 = k
      BY <1>1, <3>1
    <3>3. b[p[k - 1]] = a[p[k]]
      <4>1. b[p[k - 1]] = a[p[(k - 1) + 1]]
        BY <1>2, <3>2
      <4> QED
        BY <3>2, <4>1
    <3> QED
      BY <1>1, <3>1, <3>2, <3>3
  <2> QED
    BY <2>1, <2>2
<1>11. b[p[L]] = e /\ p[L] \in 0 .. n - 1
  BY <1>1, <1>2, <1>3
<1>12. Range(b) = {a[i] : i \in (0 .. n - 1) \ {p[1]}} \union {e}
  <2>1. Range(b) = {b[i] : i \in 0 .. n - 1}
    BY <1>9 DEF Range
  <2> QED
    BY <1>8, <1>10, <1>11, <2>1
<1>13. ASSUME NEW f \in Event, f \notin Range(b)
       PROVE  s[f] = satellite[f]
  <2>1. f # e
    BY <1>12, <1>13
  <2>2. \A k \in 2 .. L : a[p[k]] # f
    BY <1>1, <1>3, <1>12, <1>13
  <2> QED
    BY <1>6, <2>1, <2>2
<1>14. Follows(b, s, a, n, p[1], e)
  BY <1>7, <1>8, <1>9, <1>12, <1>13 DEF Follows
<1> QED
  BY <1>14 DEF b, s

\* The heap order, in an array of n elements and away from the index that is filled.
Ordered(a, n) == \A i \in 1 .. n - 1 : timeout[a[Parent(i)]] <= timeout[a[i]]
OrderedBut(a, n, idx) ==
  \A i \in 1 .. n - 1 : i # idx /\ Parent(i) # idx => timeout[a[Parent(i)]] <= timeout[a[i]]

\* An element that is in the right place but for its parents bubbles up.
LEMMA RiseOrders ==
  ASSUME NEW n \in Nat, NEW a \in [0 .. n - 1 -> Event], NEW e \in Event,
         timeout \in [Event -> Nat],
         NEW idx \in 0 .. n - 1, NEW p, Rises(p, a, idx, e),
         OrderedBut(a, n, idx),
         \A i \in 1 .. n - 1 : Parent(i) = idx =>
           /\ idx # 0 /\ Less(e, a[Parent(idx)])
           /\ timeout[a[Parent(idx)]] <= timeout[a[i]]
  PROVE  Ordered(Moved(a, p, e), n)
<1> DEFINE b == Moved(a, p, e)
           L == Len(p)
<1>1. /\ Simple(p) /\ L \in Nat /\ L > 0 /\ p[1] = idx /\ Falling(p)
      /\ \A k \in 1 .. L : p[k] \in 0 .. n - 1
      /\ \A j, k \in 1 .. L : p[j] = p[k] => j = k
  <2>0. idx \in Nat
    OBVIOUS
  <2>1. \A k \in 1 .. L : p[k] \in 0 .. idx
    BY <2>0, RisesSimple
  <2>2. Simple(p) /\ Falling(p)
    BY <2>0, RisesSimple
  <2>3. L \in Nat /\ L > 0 /\ p[1] = idx
    BY DEF Rises
  <2>4. \A j, k \in 1 .. L : p[j] = p[k] => j = k
    BY <2>2 DEF Simple
  <2> QED
    BY <2>1, <2>2, <2>3, <2>4
<1>2. /\ \A k \in 1 .. L : b[p[k]] = IF k = L THEN e ELSE a[p[k + 1]]
      /\ \A i \in 0 .. n - 1 : (\A k \in 1 .. L : p[k] # i) => b[i] = a[i]
  <2>1. DOMAIN a = 0 .. n - 1 /\ Simple(p)
    BY <1>1
  <2>2. Shift(b, a, n, p, e)
    BY <2>1, MovedAt
  <2> HIDE DEF b
  <2> QED
    BY <1>1, <2>2 DEF Shift
<1> HIDE DEF b
<1>3. \A i \in 1 .. n - 1 : Parent(i) \in 0 .. n - 1 /\ Parent(i) < i /\ i \in 0 .. n - 1
  BY DEF Parent
<1>4. \A i \in 0 .. n - 1 : timeout[a[i]] \in Nat
  OBVIOUS
<1>5. timeout[e] \in Nat
  OBVIOUS
<1>6. \A k \in 1 .. L - 1 : /\ k \in 1 .. L /\ k + 1 \in 1 .. L /\ k # L
                            /\ p[k] # 0 /\ p[k + 1] = Parent(p[k])
                            /\ timeout[e] < timeout[a[p[k + 1]]]
  <2> SUFFICES ASSUME NEW k \in 1 .. L - 1
               PROVE  /\ k \in 1 .. L /\ k + 1 \in 1 .. L /\ k # L
                      /\ p[k] # 0 /\ p[k + 1] = Parent(p[k])
                      /\ timeout[e] < timeout[a[p[k + 1]]]
    OBVIOUS
  <2>1. k \in 1 .. L /\ k + 1 \in 1 .. L /\ k # L
    BY <1>1
  <2>2. p[k] # 0 /\ p[k + 1] = Parent(p[k]) /\ timeout[e] < timeout[a[p[k + 1]]]
    BY DEF Rises, Less
  <2> QED
    BY <2>1, <2>2
<1> SUFFICES ASSUME NEW i \in 1 .. n - 1
             PROVE  timeout[b[Parent(i)]] <= timeout[b[i]]
  BY DEF Ordered, b
<1> DEFINE j == Parent(i)
<1>7. j \in 0 .. n - 1 /\ j < i /\ i \in 0 .. n - 1
  BY <1>3
<1>8. ASSUME NEW k \in 1 .. L, p[k] = i
      PROVE  timeout[b[j]] <= timeout[b[i]]
  <2>1. CASE k = L
    <3>1. b[i] = e
      BY <1>2, <1>8, <2>1
    <3>2. \A m \in 1 .. L : p[m] # j
      <4> SUFFICES ASSUME NEW m \in 1 .. L, p[m] = j PROVE FALSE
        OBVIOUS
      <4>1. m < L
        BY <1>1, <1>7, <1>8, <2>1
      <4>2. p[L] < p[m]
        BY <1>1, <2>1, <4>1, FallingAll
      <4> QED
        BY <1>7, <1>8, <2>1, <4>2
    <3>3. b[j] = a[j]
      BY <1>2, <1>7, <3>2
    <3>4. ~(timeout[e] < timeout[a[j]])
      BY <1>8, <2>1 DEF Rises, Less
    <3> QED
      BY <1>4, <1>5, <1>7, <3>1, <3>3, <3>4
  <2>2. CASE k # L
    <3>1. k \in 1 .. L - 1
      BY <1>1, <2>2
    <3>2. p[k + 1] = j /\ timeout[e] < timeout[a[j]] /\ k + 1 \in 1 .. L
      BY <1>6, <1>8, <3>1
    <3>3. b[i] = a[j]
      BY <1>2, <1>8, <2>2, <3>2
    <3>4. CASE k + 1 = L
      <4>1. b[j] = e
        BY <1>2, <3>2, <3>4
      <4> QED
        BY <1>4, <1>5, <1>7, <3>2, <3>3, <4>1
    <3>5. CASE k + 1 # L
      <4>1. k + 1 \in 1 .. L - 1
        BY <1>1, <3>1, <3>5
      <4>2. j # 0 /\ p[(k + 1) + 1] = Parent(j)
        BY <1>6, <3>2, <4>1
      <4>3. b[j] = a[Parent(j)]
        BY <1>2, <3>2, <3>5, <4>2
      <4>4. j # idx /\ Parent(j) # idx
        <5>1. k + 1 # 1 /\ (k + 1) + 1 # 1 /\ (k + 1) + 1 \in 1 .. L /\ 1 \in 1 .. L
          BY <1>1, <3>1, <4>1
        <5> QED
          BY <1>1, <3>2, <4>2, <5>1
      <4>5. timeout[a[Parent(j)]] <= timeout[a[j]]
        <5>1. j \in 1 .. n - 1
          BY <1>7, <4>2
        <5> QED
          BY <4>4, <5>1 DEF OrderedBut
      <4> QED
        BY <3>3, <4>3, <4>5
    <3> QED
      BY <3>4, <3>5
  <2> QED
    BY <2>1, <2>2
<1>9. ASSUME \A k \in 1 .. L : p[k] # i, NEW k \in 1 .. L, p[k] = j
      PROVE  timeout[b[j]] <= timeout[b[i]]
  <2>1. b[i] = a[i] /\ i # idx
    <3>1. 1 \in 1 .. L
      BY <1>1
    <3> QED
      BY <1>1, <1>2, <1>7, <1>9, <3>1
  <2>2. CASE k = 1
    <3>1. /\ j = idx /\ idx # 0 /\ Less(e, a[Parent(idx)])
          /\ timeout[a[Parent(idx)]] <= timeout[a[i]]
      BY <1>1, <1>9, <2>2
    <3>2. L # 1
      <4> SUFFICES ASSUME L = 1 PROVE FALSE
        OBVIOUS
      <4> QED
        BY <1>1, <3>1 DEF Rises
    <3>3. p[2] = Parent(idx) /\ 1 \in 1 .. L
      <4>0. L \in Nat /\ L > 0
        BY <1>1
      <4>1. 1 \in 1 .. L - 1 /\ 1 \in 1 .. L
        BY <4>0, <3>2
      <4>2. p[1 + 1] = Parent(p[1])
        BY <1>6, <4>1
      <4> QED
        BY <1>1, <4>1, <4>2
    <3>4. b[j] = a[Parent(idx)]
      <4>1. b[p[1]] = IF 1 = L THEN e ELSE a[p[1 + 1]]
        BY <1>2, <3>3
      <4>2. b[p[1]] = a[p[2]]
        BY <3>2, <4>1
      <4> QED
        BY <1>9, <2>2, <3>3, <4>2
    <3> QED
      BY <2>1, <3>1, <3>4
  <2>3. CASE k # 1
    <3>1. k - 1 \in 1 .. L - 1 /\ (k - 1) + 1 = k /\ 1 \in 1 .. L
      BY <1>1, <2>3
    <3>2. timeout[e] < timeout[a[j]]
      BY <1>6, <1>9, <3>1
    <3>3. j # idx
      BY <1>1, <1>9, <2>3, <3>1
    <3>4. timeout[a[j]] <= timeout[a[i]]
      BY <2>1, <3>3 DEF OrderedBut
    <3>5. CASE k = L
      <4>1. b[j] = e
        BY <1>2, <1>9, <3>5
      <4> QED
        BY <1>4, <1>5, <1>7, <2>1, <3>2, <3>4, <4>1
    <3>6. CASE k # L
      <4>1. k \in 1 .. L - 1
        BY <1>1, <3>6
      <4>2. j # 0 /\ p[k + 1] = Parent(j) /\ k + 1 \in 1 .. L /\ k + 1 # 1
        <5>1. k + 1 # 1
          BY <4>1
        <5> QED
          BY <1>6, <1>9, <4>1, <5>1
      <4>3. b[j] = a[Parent(j)]
        BY <1>2, <1>9, <3>6, <4>2
      <4>4. Parent(j) # idx
        BY <1>1, <3>1, <4>2
      <4>5. j \in 1 .. n - 1
        BY <1>7, <4>2
      <4>6. timeout[a[Parent(j)]] <= timeout[a[j]] /\ timeout[a[Parent(j)]] \in Nat
        BY <1>3, <1>4, <3>3, <4>4, <4>5 DEF OrderedBut
      <4> QED
        BY <1>4, <1>7, <2>1, <3>4, <4>3, <4>6
    <3> QED
      BY <3>5, <3>6
  <2> QED
    BY <2>2, <2>3
<1>10. ASSUME \A k \in 1 .. L : p[k] # i, \A k \in 1 .. L : p[k] # j
       PROVE  timeout[b[j]] <= timeout[b[i]]
  <2>1. b[i] = a[i] /\ b[j] = a[j] /\ i # idx /\ j # idx
    <3>1. 1 \in 1 .. L
      BY <1>1
    <3> QED
      BY <1>1, <1>2, <1>7, <1>10, <3>1
  <2> QED
    BY <2>1 DEF OrderedBut
<1> QED
  BY <1>8, <1>9, <1>10

\* The child that _bubble_down looks at is the lesser one.
LEMMA ChildLeast ==
  ASSUME NEW n \in Nat, NEW a \in [0 .. n - 1 -> Event], Size(a) = n,
         timeout \in [Event -> Nat], NEW i \in 1 .. n - 1
  PROVE  /\ MinChild(a, Parent(i)) \in 1 .. n - 1
         /\ Parent(MinChild(a, Parent(i))) = Parent(i)
         /\ timeout[a[MinChild(a, Parent(i))]] <= timeout[a[i]]
<1> DEFINE j == Parent(i)
           r == 2 * (j + 1)
           c == MinChild(a, j)
<1>1. j \in Nat /\ i \in {r - 1, r} /\ r \in Nat /\ r >= 2
  BY DEF Parent
<1>2. Parent(r - 1) = j /\ Parent(r) = j
  BY <1>1 DEF Parent
<1>3. c = IF r >= n \/ Less(a[r - 1], a[r]) THEN r - 1 ELSE r
  BY DEF MinChild
<1> HIDE DEF j, r, c
<1>4. \A k \in 0 .. n - 1 : timeout[a[k]] \in Nat
  OBVIOUS
<1>5. c \in 1 .. n - 1 /\ c \in {r - 1, r}
  BY <1>1, <1>3
<1>6. timeout[a[c]] <= timeout[a[i]]
  <2>1. CASE r >= n
    <3>1. i = c
      BY <1>1, <1>3, <2>1
    <3> QED
      BY <1>4, <3>1
  <2>2. CASE r < n
    <3>1. r - 1 \in 0 .. n - 1 /\ r \in 0 .. n - 1 /\ ~(r >= n)
      BY <1>1, <2>2
    <3>2. timeout[a[r - 1]] \in Nat /\ timeout[a[r]] \in Nat
      BY <1>4, <3>1
    <3>3. CASE timeout[a[r - 1]] < timeout[a[r]]
      <4>1. c = r - 1
        BY <1>3, <3>3 DEF Less
      <4> QED
        BY <1>1, <3>2, <3>3, <4>1
    <3>4. CASE ~(timeout[a[r - 1]] < timeout[a[r]])
      <4>1. c = r
        BY <1>3, <3>1, <3>4 DEF Less
      <4> QED
        BY <1>1, <3>2, <3>4, <4>1
    <3> QED
      BY <3>3, <3>4
  <2> QED
    BY <1>1, <2>1, <2>2
<1> QED
  BY <1>2, <1>5, <1>6 DEF j, c

\* One that is but for its children bubbles down.
LEMMA SinkOrders ==
  ASSUME NEW n \in Nat, NEW a \in [0 .. n - 1 -> Event], Size(a) = n, NEW e \in Event,
         timeout \in [Event -> Nat],
         NEW idx \in 0 .. n, NEW p, Sinks(p, a, n, idx, e),
         OrderedBut(a, n, idx),
         idx # 0 /\ idx < n => timeout[a[Parent(idx)]] <= timeout[e],
         \A i \in 1 .. n - 1 : Parent(i) = idx /\ idx # 0 =>
           timeout[a[Parent(idx)]] <= timeout[a[i]]
  PROVE  Ordered(Moved(a, p, e), n)
<1> DEFINE b == Moved(a, p, e)
           L == Len(p)
<1>1. /\ Simple(p) /\ L \in Nat /\ L > 0 /\ p[1] = idx /\ Growing(p)
      /\ \A k \in 2 .. L : p[k] \in 0 .. n - 1
      /\ \A j, k \in 1 .. L : p[j] = p[k] => j = k
  <2>1. Simple(p) /\ Growing(p) /\ \A k \in 2 .. L : p[k] \in 0 .. n - 1
    BY SinksSimple
  <2>2. L \in Nat /\ L > 0 /\ p[1] = idx
    BY DEF Sinks
  <2>3. \A j, k \in 1 .. L : p[j] = p[k] => j = k
    BY <2>1 DEF Simple
  <2> QED
    BY <2>1, <2>2, <2>3
<1>2. /\ \A k \in 1 .. L : p[k] \in 0 .. n - 1 => b[p[k]] = IF k = L THEN e ELSE a[p[k + 1]]
      /\ \A i \in 0 .. n - 1 : (\A k \in 1 .. L : p[k] # i) => b[i] = a[i]
  <2>1. DOMAIN a = 0 .. n - 1 /\ Simple(p)
    BY <1>1
  <2>2. Shift(b, a, n, p, e)
    BY <2>1, MovedAt
  <2> HIDE DEF b
  <2> QED
    BY <2>2 DEF Shift
<1> HIDE DEF b
<1>3. \A i \in 1 .. n - 1 : Parent(i) \in 0 .. n - 1 /\ Parent(i) < i /\ i \in 0 .. n - 1
  BY DEF Parent
<1>4. \A i \in 0 .. n - 1 : timeout[a[i]] \in Nat
  OBVIOUS
<1>5. timeout[e] \in Nat
  OBVIOUS
<1>6. \A k \in 1 .. L - 1 : /\ k \in 1 .. L /\ k + 1 \in 1 .. L /\ k # L
                            /\ p[k + 1] = MinChild(a, p[k])
                            /\ p[k + 1] \in 1 .. n - 1 /\ Parent(p[k + 1]) = p[k]
                            /\ timeout[a[p[k + 1]]] < timeout[e]
  <2> SUFFICES ASSUME NEW k \in 1 .. L - 1
               PROVE  /\ k \in 1 .. L /\ k + 1 \in 1 .. L /\ k # L
                      /\ p[k + 1] = MinChild(a, p[k])
                      /\ p[k + 1] \in 1 .. n - 1 /\ Parent(p[k + 1]) = p[k]
                      /\ timeout[a[p[k + 1]]] < timeout[e]
    OBVIOUS
  <2>1. k \in 1 .. L /\ k + 1 \in 1 .. L /\ k + 1 \in 2 .. L /\ k # L
    BY <1>1
  <2>2. p[k + 1] = MinChild(a, p[k]) /\ timeout[a[p[k + 1]]] < timeout[e]
    BY DEF Sinks, Less
  <2>3. p[k] \in Nat /\ p[k + 1] \in 0 .. n - 1
    <3>1. p \in Seq(Nat)
      BY DEF Sinks
    <3> QED
      BY <1>1, <2>1, <3>1
  <2>4. p[k + 1] \in {2 * p[k] + 1, 2 * p[k] + 2}
    BY <2>2, <2>3, MinChildIs
  <2>5. p[k + 1] \in 1 .. n - 1 /\ Parent(p[k + 1]) = p[k]
    <3> DEFINE u == p[k]
               v == p[k + 1]
    <3>1. u \in Nat /\ v \in 0 .. n - 1 /\ v \in {2 * u + 1, 2 * u + 2}
      BY <2>3, <2>4
    <3> HIDE DEF u, v
    <3>2. v \in 1 .. n - 1 /\ (v - 1) \div 2 = u
      BY <3>1
    <3> QED
      BY <3>2 DEF Parent, u, v
  <2> QED
    BY <2>1, <2>2, <2>5
<1> SUFFICES ASSUME NEW i \in 1 .. n - 1
             PROVE  timeout[b[Parent(i)]] <= timeout[b[i]]
  BY DEF Ordered, b
<1> DEFINE j == Parent(i)
<1>7. j \in 0 .. n - 1 /\ j < i /\ i \in 0 .. n - 1
  BY <1>3
<1>8. ASSUME NEW k \in 1 .. L, p[k] = i
      PROVE  timeout[b[j]] <= timeout[b[i]]
  <2>1. CASE k = 1
    <3>1. i = idx /\ idx # 0 /\ idx < n
      BY <1>1, <1>8, <2>1
    <3>2. \A m \in 1 .. L : p[m] # j
      <4> SUFFICES ASSUME NEW m \in 1 .. L, p[m] = j PROVE FALSE
        OBVIOUS
      <4>1. 1 < m /\ 1 \in 1 .. L
        BY <1>1, <1>7, <3>1
      <4>2. p[1] < p[m]
        BY <1>1, <4>1, GrowingAll
      <4> QED
        BY <1>1, <1>7, <3>1, <4>2
    <3>3. b[j] = a[j]
      BY <1>2, <1>7, <3>2
    <3>4. CASE L = 1
      <4>1. b[i] = e
        BY <1>2, <1>7, <1>8, <2>1, <3>4
      <4> QED
        BY <3>1, <3>3, <4>1
    <3>5. CASE L # 1
      <4>0. L \in Nat /\ L > 0
        BY <1>1
      <4>1. 1 \in 1 .. L - 1
        BY <4>0, <3>5
      <4>2. p[1 + 1] \in 1 .. n - 1 /\ Parent(p[1 + 1]) = p[1]
        BY <1>6, <4>1
      <4>3. b[i] = a[p[1 + 1]]
        BY <1>2, <1>7, <1>8, <2>1, <3>5
      <4>4. timeout[a[j]] <= timeout[a[p[1 + 1]]]
        BY <1>1, <3>1, <4>2
      <4> QED
        BY <3>3, <4>3, <4>4
    <3> QED
      BY <3>4, <3>5
  <2>2. CASE k # 1
    <3>1. k - 1 \in 1 .. L - 1 /\ (k - 1) + 1 = k
      BY <1>1, <2>2
    <3>2. /\ p[k - 1] = j /\ k - 1 \in 1 .. L /\ k - 1 # L
          /\ timeout[a[i]] < timeout[e]
      BY <1>6, <1>8, <3>1
    <3>3. b[j] = a[i]
      <4>1. b[p[k - 1]] = a[p[(k - 1) + 1]]
        BY <1>2, <1>7, <3>2
      <4> QED
        BY <1>8, <3>1, <3>2, <4>1
    <3>4. CASE k = L
      <4>1. b[i] = e
        BY <1>2, <1>7, <1>8, <3>4
      <4> QED
        BY <1>4, <1>5, <1>7, <3>2, <3>3, <4>1
    <3>5. CASE k # L
      <4>1. k \in 1 .. L - 1
        BY <1>1, <3>5
      <4>2. p[k + 1] \in 1 .. n - 1 /\ Parent(p[k + 1]) = i /\ k + 1 \in 1 .. L /\ k + 1 # 1
        <5>1. k + 1 # 1
          BY <4>1
        <5> QED
          BY <1>6, <1>8, <4>1, <5>1
      <4>3. b[i] = a[p[k + 1]]
        BY <1>2, <1>7, <1>8, <3>5
      <4>4. i # idx /\ p[k + 1] # idx
        <5>1. 1 \in 1 .. L
          BY <1>1
        <5> QED
          BY <1>1, <1>8, <2>2, <4>2, <5>1
      <4>5. timeout[a[i]] <= timeout[a[p[k + 1]]]
        BY <4>2, <4>4 DEF OrderedBut
      <4> QED
        BY <3>3, <4>3, <4>5
    <3> QED
      BY <3>4, <3>5
  <2> QED
    BY <2>1, <2>2
<1>9. ASSUME \A k \in 1 .. L : p[k] # i, NEW k \in 1 .. L, p[k] = j
      PROVE  timeout[b[j]] <= timeout[b[i]]
  <2>1. b[i] = a[i]
    BY <1>2, <1>7, <1>9
  <2> DEFINE c == MinChild(a, j)
  <2>2. c \in 1 .. n - 1 /\ timeout[a[c]] <= timeout[a[i]]
    BY ChildLeast
  <2>3. CASE k = L
    <3>1. b[j] = e
      BY <1>2, <1>7, <1>9, <2>3
    <3>2. ~(timeout[a[c]] < timeout[e])
      <4>1. c >= n \/ ~Less(a[c], e)
        BY <1>9, <2>3 DEF Sinks
      <4> HIDE DEF c
      <4> QED
        BY <2>2, <4>1 DEF Less
    <3>3. timeout[a[c]] \in Nat
      <4> HIDE DEF c
      <4> QED
        BY <1>4, <2>2
    <3> HIDE DEF c
    <3> QED
      BY <1>4, <1>5, <1>7, <2>1, <2>2, <3>1, <3>2, <3>3
  <2>4. CASE k # L
    <3>1. k \in 1 .. L - 1
      BY <1>1, <2>4
    <3>2. p[k + 1] = c
      BY <1>6, <1>9, <3>1
    <3>3. b[j] = a[c]
      BY <1>2, <1>7, <1>9, <2>4, <3>2
    <3> QED
      BY <2>1, <2>2, <3>3
  <2> QED
    BY <2>3, <2>4
<1>10. ASSUME \A k \in 1 .. L : p[k] # i, \A k \in 1 .. L : p[k] # j
       PROVE  timeout[b[j]] <= timeout[b[i]]
  <2>1. b[i] = a[i] /\ b[j] = a[j] /\ i # idx /\ j # idx
    <3>1. 1 \in 1 .. L
      BY <1>1
    <3> QED
      BY <1>1, <1>2, <1>7, <1>10, <3>1
  <2> QED
    BY <2>1 DEF OrderedBut
<1> QED
  BY <1>8, <1>9, <1>10

\* The top of a heap is a least element.
LEMMA TopLeast ==
  ASSUME NEW n \in Nat, NEW a \in [0 .. n - 1 -> Event], timeout \in [Event -> Nat],
         Ordered(a, n), NEW k \in 0 .. n - 1
  PROVE  timeout[a[0]] <= timeout[a[k]]
<1> DEFINE S == {m \in Nat : m <= n - 1 /\ ~(timeout[a[0]] <= timeout[a[m]])}
<1> SUFFICES ASSUME S # {} PROVE FALSE
  OBVIOUS
<1>1. PICK m \in S : \A i \in S : m <= i
  BY Least
<1>2. m \in 0 .. n - 1 /\ ~(timeout[a[0]] <= timeout[a[m]])
  OBVIOUS
<1>3. \A i \in 0 .. n - 1 : timeout[a[i]] \in Nat
  OBVIOUS
<1>4. m # 0
  BY <1>2, <1>3
<1>5. Parent(m) \in 0 .. n - 1 /\ Parent(m) < m
  BY <1>2, <1>4 DEF Parent
<1>6. Parent(m) \notin S
  BY <1>1, <1>2, <1>5
<1>7. timeout[a[0]] <= timeout[a[Parent(m)]]
  BY <1>5, <1>6
<1> HIDE DEF S
<1>8. timeout[a[Parent(m)]] <= timeout[a[m]]
  BY <1>2, <1>4 DEF Ordered
<1> QED
  BY <1>2, <1>3, <1>5, <1>7, <1>8
-----------------------------------------------------------------------------
(* The operations of the heap *)

\* An array and satellites that make a heap.
Heap(a, s) ==
  /\ Size(a) \in Nat /\ a \in [0 .. Size(a) - 1 -> Event]
  /\ s \in [Event -> Int]
  /\ \A i \in DOMAIN a : s[a[i]] = i
  /\ \A e \in Event : s[e] # -1 => e \in Range(a)
  /\ Ordered(a, Size(a))

LEMMA SizeIs ==
  ASSUME NEW n \in Nat, NEW a, DOMAIN a = 0 .. n - 1
  PROVE  Size(a) = n
<1>1. Cardinality(0 .. n - 1) = IF 0 > n - 1 THEN 0 ELSE (n - 1) - 0 + 1
  BY FS_Interval
<1> QED
  BY <1>1 DEF Size

LEMMA HeapFacts ==
  ASSUME Heap(array, satellite)
  PROVE  /\ Size(array) \in Nat /\ DOMAIN array = 0 .. Size(array) - 1
         /\ \A i \in 0 .. Size(array) - 1 : array[i] \in Event /\ satellite[array[i]] = i
         /\ \A i, j \in 0 .. Size(array) - 1 : array[i] = array[j] => i = j
         /\ Range(array) = {array[i] : i \in 0 .. Size(array) - 1}
         /\ \A e \in Event : e \in Range(array) <=> satellite[e] # -1
<1>1. /\ Size(array) \in Nat /\ DOMAIN array = 0 .. Size(array) - 1
      /\ \A i \in 0 .. Size(array) - 1 : array[i] \in Event /\ satellite[array[i]] = i
  BY DEF Heap
<1>2. \A i, j \in 0 .. Size(array) - 1 : array[i] = array[j] => i = j
  BY <1>1
<1>3. Range(array) = {array[i] : i \in 0 .. Size(array) - 1}
  BY <1>1 DEF Range
<1>4. \A e \in Event : e \in Range(array) => satellite[e] # -1
  BY <1>1, <1>3
<1> QED
  BY <1>1, <1>2, <1>3, <1>4 DEF Heap

\* The array and the satellites after the moves make a heap.
LEMMA MovesMake ==
  ASSUME NEW n \in Nat, NEW b \in [0 .. n - 1 -> Event], NEW s \in [Event -> Int],
         \A i \in 0 .. n - 1 : s[b[i]] = i,
         \A e \in Event : e \notin Range(b) => s[e] = -1,
         Ordered(b, n)
  PROVE  Heap(b, s)
<1>1. Size(b) = n /\ DOMAIN b = 0 .. n - 1
  BY SizeIs
<1> QED
  BY <1>1 DEF Heap

\* insert of an event that is not in the heap.
LEMMA InsertMakes ==
  ASSUME Heap(array, satellite), timeout \in [Event -> Nat],
         NEW e \in Event, satellite[e] = -1, HeapInsert(e)
  PROVE  Heap(array', satellite') /\ Range(array') = Range(array) \union {e}
<1> DEFINE n == Size(array)
           m == n + 1
           a == [i \in 0 .. n |-> IF i = n THEN e ELSE array[i]]
           p == UpPath(a, n, e)
           b == Moved(a, p, e)
           s == Placed(a, p, e)
<1>1. array' = b /\ satellite' = s
  BY DEF HeapInsert
<1>2. /\ n \in Nat
      /\ \A i \in 0 .. n - 1 : array[i] \in Event /\ satellite[array[i]] = i
      /\ \A i, j \in 0 .. n - 1 : array[i] = array[j] => i = j
      /\ Range(array) = {array[i] : i \in 0 .. n - 1}
      /\ \A f \in Event : f \in Range(array) <=> satellite[f] # -1
      /\ satellite \in [Event -> Int]
      /\ Ordered(array, n)
  BY HeapFacts DEF Heap
<1>3. Rises(p, a, n, e)
  BY <1>2, UpPathRises
<1> HIDE DEF n, p
<1>4. /\ m \in Nat /\ m - 1 = n /\ n \in 0 .. m - 1
      /\ a \in [0 .. m - 1 -> Event] /\ a[n] = e
      /\ \A i \in 0 .. m - 1 : i # n => i \in 0 .. n - 1 /\ a[i] = array[i]
  BY <1>2
<1>5. Simple(p) /\ p[1] = n /\ \A k \in 1 .. Len(p) : p[k] \in 0 .. m - 1
  <2>1. Simple(p) /\ \A k \in 1 .. Len(p) : p[k] \in 0 .. n
    BY <1>2, <1>3, RisesSimple
  <2> QED
    BY <1>3, <1>4, <2>1 DEF Rises
<1>6. \A i \in 0 .. n - 1 : array[i] # e
  BY <1>2
<1>7. \A i \in 0 .. m - 1 : i # n => satellite[a[i]] = i /\ a[i] # e
  BY <1>2, <1>4, <1>6
<1>8. \A i, j \in 0 .. m - 1 : a[i] = a[j] => i = j
  BY <1>2, <1>4, <1>6
<1> HIDE DEF a, m
<1>9. /\ b \in [0 .. m - 1 -> Event] /\ s \in [Event -> Int]
      /\ \A i \in 0 .. m - 1 : s[b[i]] = i
      /\ Range(b) = {a[i] : i \in (0 .. m - 1) \ {n}} \union {e}
      /\ \A f \in Event : f \notin Range(b) => s[f] = satellite[f]
  <2>1. Follows(b, s, a, m, p[1], e)
    BY <1>2, <1>4, <1>5, <1>7, <1>8, PlacedInverts
  <2> QED
    BY <1>5, <2>1 DEF Follows
<1>10. Ordered(b, m)
  <2>1. \A i \in 1 .. m - 1 : Parent(i) \in 0 .. n - 1 /\ Parent(i) # n /\ i \in 1 .. n
    BY <1>2, <1>4 DEF Parent
  <2>2. OrderedBut(a, m, n)
    <3> SUFFICES ASSUME NEW i \in 1 .. m - 1, i # n
                 PROVE  timeout[a[Parent(i)]] <= timeout[a[i]]
      BY DEF OrderedBut
    <3>1. i \in 1 .. n - 1 /\ i \in 0 .. m - 1 /\ Parent(i) \in 0 .. m - 1
      BY <1>2, <1>4, <2>1
    <3>2. a[i] = array[i] /\ a[Parent(i)] = array[Parent(i)]
      BY <1>4, <2>1, <3>1
    <3> QED
      BY <1>2, <3>1, <3>2 DEF Ordered
  <2> QED
    BY <1>3, <1>4, <2>1, <2>2, RiseOrders
<1>11. Range(b) = Range(array) \union {e}
  <2>1. (0 .. m - 1) \ {n} = 0 .. n - 1
    BY <1>2, <1>4
  <2>2. {a[i] : i \in (0 .. m - 1) \ {n}} = {array[i] : i \in 0 .. n - 1}
    BY <1>4, <2>1
  <2> QED
    BY <1>2, <1>9, <2>2
<1> HIDE DEF b, s
<1>12. \A f \in Event : f \notin Range(b) => s[f] = -1
  BY <1>2, <1>9, <1>11
<1>13. Heap(b, s)
  BY <1>4, <1>9, <1>10, <1>12, MovesMake
<1> QED
  BY <1>1, <1>11, <1>13

\* remove of one that is.
LEMMA RemoveMakes ==
  ASSUME Heap(array, satellite), timeout \in [Event -> Nat],
         NEW e \in Event, satellite[e] # -1, HeapRemove(e)
  PROVE  Heap(array', satellite') /\ Range(array') = Range(array) \ {e}
<1> DEFINE n == Size(array)
           m == n - 1
           last == Last(array)
           a == PopBack(array)
           idx == satellite[e]
           up == idx # 0 /\ Less(last, a[Parent(idx)])
           p == IF up THEN UpPath(a, idx, last) ELSE DownPath(a, idx, last)
           b == Moved(a, p, last)
           s == Placed(a, p, last)
<1>1. array' = b /\ satellite' = [s EXCEPT ![e] = -1]
  BY DEF HeapRemove
<1>2. /\ n \in Nat
      /\ \A i \in 0 .. n - 1 : array[i] \in Event /\ satellite[array[i]] = i
      /\ \A i, j \in 0 .. n - 1 : array[i] = array[j] => i = j
      /\ Range(array) = {array[i] : i \in 0 .. n - 1}
      /\ \A f \in Event : f \in Range(array) <=> satellite[f] # -1
      /\ satellite \in [Event -> Int]
  BY HeapFacts DEF Heap
<1>3. \A i \in 1 .. n - 1 : timeout[array[Parent(i)]] <= timeout[array[i]]
  BY DEF Heap, Ordered
<1>4. idx \in 0 .. n - 1 /\ array[idx] = e
  BY <1>2
<1>5. last = array[n - 1] /\ a = [i \in 0 .. n - 2 |-> array[i]]
  BY DEF Last, PopBack, Restrict
<1> HIDE DEF n, last, a, idx
<1>6. /\ m \in Nat /\ n = m + 1 /\ m \in 0 .. n - 1 /\ idx \in 0 .. m
      /\ a \in [0 .. m - 1 -> Event] /\ last \in Event /\ last = array[m]
      /\ \A i \in 0 .. m - 1 : a[i] = array[i] /\ i \in 0 .. n - 1 /\ i # m
  BY <1>2, <1>4, <1>5
<1>7. Size(a) = m
  <2>1. DOMAIN a = 0 .. m - 1
    BY <1>6
  <2> HIDE DEF m
  <2> QED
    BY <1>6, <2>1, SizeIs
<1> HIDE DEF m
<1>8. \A i \in 0 .. m - 1 : satellite[a[i]] = i /\ a[i] # last
  BY <1>2, <1>6
<1>9. \A i, j \in 0 .. m - 1 : a[i] = a[j] => i = j
  BY <1>2, <1>6
<1>10. \A i \in 1 .. m - 1 : /\ Parent(i) \in 0 .. m - 1 /\ i \in 0 .. m - 1
                             /\ timeout[a[Parent(i)]] <= timeout[a[i]]
  <2> SUFFICES ASSUME NEW i \in 1 .. m - 1
               PROVE  /\ Parent(i) \in 0 .. m - 1 /\ i \in 0 .. m - 1
                      /\ timeout[a[Parent(i)]] <= timeout[a[i]]
    OBVIOUS
  <2>1. Parent(i) \in 0 .. m - 1 /\ i \in 0 .. m - 1 /\ i \in 1 .. n - 1
    BY <1>2, <1>6 DEF Parent
  <2> QED
    BY <1>3, <1>6, <2>1
<1>11. OrderedBut(a, m, idx)
  BY <1>10 DEF OrderedBut
<1>12. idx # 0 => /\ Parent(idx) \in 0 .. m - 1
                  /\ timeout[a[Parent(idx)]] <= timeout[array[idx]]
  <2> SUFFICES ASSUME idx # 0
               PROVE  /\ Parent(idx) \in 0 .. m - 1
                      /\ timeout[a[Parent(idx)]] <= timeout[array[idx]]
    OBVIOUS
  <2>1. Parent(idx) \in 0 .. m - 1 /\ idx \in 1 .. n - 1
    BY <1>4, <1>6 DEF Parent
  <2> QED
    BY <1>3, <1>6, <2>1
<1>13. \A f \in Event : timeout[f] \in Nat
  OBVIOUS
<1>14. CASE idx = m
  <2>1. e = last
    BY <1>4, <1>6, <1>14
  <2>2. ~up
    <3> SUFFICES ASSUME idx # 0 PROVE ~Less(last, a[Parent(idx)])
      OBVIOUS
    <3>1. timeout[a[Parent(idx)]] <= timeout[last] /\ a[Parent(idx)] \in Event
      BY <1>6, <1>12, <1>14
    <3> QED
      BY <1>6, <1>13, <3>1 DEF Less
  <2>3. Sinks(p, a, m, m, last)
    <3>1. p = DownPath(a, m, last)
      BY <1>14, <2>2
    <3>2. m \in 0 .. m
      BY <1>6
    <3> HIDE DEF p
    <3> QED
      BY <1>6, <1>7, <3>1, <3>2, DownPathSinks
  <2> HIDE DEF p
  <2>4. /\ Simple(p) /\ Growing(p) /\ p[1] = m /\ Len(p) \in Nat /\ Len(p) > 0
        /\ \A k \in 2 .. Len(p) : p[k] \in 0 .. m - 1
    <3>1. m \in 0 .. m
      BY <1>6
    <3>2. Simple(p) /\ Growing(p) /\ \A k \in 2 .. Len(p) : p[k] \in 0 .. m - 1
      BY <1>6, <1>7, <2>3, <3>1, SinksSimple
    <3> QED
      BY <2>3, <3>2 DEF Sinks
  <2>5. Len(p) = 1
    <3> SUFFICES ASSUME Len(p) # 1 PROVE FALSE
      OBVIOUS
    <3>1. 1 \in 1 .. Len(p) /\ 2 \in 1 .. Len(p) /\ 2 \in 2 .. Len(p) /\ 1 < 2
      BY <2>4
    <3>2. p[1] < p[2]
      BY <2>4, <3>1, GrowingAll
    <3> QED
      BY <1>6, <2>4, <3>1, <3>2
  <2>6. b = a
    <3>1. DOMAIN a = 0 .. m - 1
      BY <1>6
    <3>2. Shift(b, a, m, p, last)
      BY <1>6, <2>4, <3>1, MovedAt
    <3>3. \A i \in 0 .. m - 1 : b[i] = a[i]
      <4>1. \A i \in 0 .. m - 1 : \A k \in 1 .. Len(p) : p[k] # i
        BY <1>6, <2>4, <2>5
      <4> QED
        BY <3>2, <4>1 DEF Shift
    <3> HIDE DEF b
    <3> QED
      BY <1>6, <3>2, <3>3 DEF Shift
  <2>7. satellite' = [satellite EXCEPT ![e] = -1]
    <3>1. 2 .. Len(p) = {}
      BY <2>5
    <3>2. s = [f \in Event |-> IF f = last THEN p[Len(p)] ELSE satellite[f]]
      BY <3>1 DEF Placed
    <3> HIDE DEF s
    <3> QED
      BY <1>1, <1>2, <2>1, <3>2
  <2>8. Range(a) = Range(array) \ {e}
    <3>1. Range(a) = {array[i] : i \in 0 .. m - 1}
      BY <1>6 DEF Range
    <3>2. \A i \in 0 .. n - 1 : i = m \/ i \in 0 .. m - 1
      BY <1>6
    <3>3. \A i \in 0 .. m - 1 : array[i] # e /\ i \in 0 .. n - 1
      BY <1>6, <1>8, <2>1
    <3> QED
      BY <1>2, <1>6, <2>1, <3>1, <3>2, <3>3
  <2>9. Heap(a, satellite')
    <3>1. \A i \in 0 .. m - 1 : satellite'[a[i]] = i
      BY <1>2, <1>6, <1>8, <2>1, <2>7
    <3>2. \A f \in Event : f \notin Range(a) => satellite'[f] = -1
      BY <1>2, <2>7, <2>8
    <3>3. Ordered(a, m)
      BY <1>10 DEF Ordered
    <3>4. satellite' \in [Event -> Int]
      BY <1>2, <2>7
    <3> QED
      BY <1>6, <3>1, <3>2, <3>3, <3>4, MovesMake
  <2> HIDE DEF b
  <2> QED
    BY <1>1, <2>6, <2>8, <2>9
<1>15. CASE idx # m
  <2>1. idx \in 0 .. m - 1 /\ a[idx] = e /\ idx \in Nat
    BY <1>4, <1>6, <1>15
  <2>2. /\ Simple(p) /\ p[1] = idx /\ \A k \in 1 .. Len(p) : p[k] \in 0 .. m - 1
        /\ Ordered(b, m)
    <3>1. CASE up
      <4>1. p = UpPath(a, idx, last)
        BY <3>1
      <4> HIDE DEF p
      <4>2. Rises(p, a, idx, last)
        BY <2>1, <4>1, UpPathRises
      <4>3. Simple(p) /\ p[1] = idx /\ \A k \in 1 .. Len(p) : p[k] \in 0 .. idx
        BY <2>1, <4>2, RisesSimple DEF Rises
      <4>4. \A k \in 1 .. Len(p) : p[k] \in 0 .. m - 1
        BY <1>6, <2>1, <4>3
      <4>5. ASSUME NEW i \in 1 .. m - 1, Parent(i) = idx
            PROVE  timeout[a[Parent(idx)]] <= timeout[a[i]]
        <5>1. timeout[a[idx]] <= timeout[a[i]] /\ timeout[a[Parent(idx)]] <= timeout[a[idx]]
          BY <1>4, <1>10, <1>12, <2>1, <3>1, <4>5
        <5>2. /\ timeout[a[idx]] \in Nat /\ timeout[a[i]] \in Nat
              /\ timeout[a[Parent(idx)]] \in Nat
          BY <1>6, <1>10, <1>12, <1>13, <2>1, <3>1
        <5> QED
          BY <5>1, <5>2
      <4>6. Ordered(b, m)
        BY <1>6, <1>11, <2>1, <3>1, <4>2, <4>5, RiseOrders
      <4> QED
        BY <4>3, <4>4, <4>6
    <3>2. CASE ~up
      <4>1. p = DownPath(a, idx, last)
        BY <3>2
      <4> HIDE DEF p
      <4>2. Sinks(p, a, m, idx, last)
        BY <1>6, <1>7, <4>1, DownPathSinks
      <4>3. Simple(p) /\ p[1] = idx /\ \A k \in 2 .. Len(p) : p[k] \in 0 .. m - 1
        BY <1>6, <1>7, <4>2, SinksSimple DEF Sinks
      <4>4. \A k \in 1 .. Len(p) : p[k] \in 0 .. m - 1
        <5>1. \A k \in 1 .. Len(p) : k = 1 \/ k \in 2 .. Len(p)
          BY <4>3 DEF Simple
        <5> QED
          BY <2>1, <4>3, <5>1
      <4>5. idx # 0 => timeout[a[Parent(idx)]] <= timeout[last]
        <5> SUFFICES ASSUME idx # 0 PROVE timeout[a[Parent(idx)]] <= timeout[last]
          OBVIOUS
        <5>1. ~(timeout[last] < timeout[a[Parent(idx)]])
          BY <3>2 DEF Less
        <5>2. timeout[last] \in Nat /\ timeout[a[Parent(idx)]] \in Nat
          BY <1>6, <1>12, <1>13
        <5> QED
          BY <5>1, <5>2
      <4>6. ASSUME NEW i \in 1 .. m - 1, Parent(i) = idx, idx # 0
            PROVE  timeout[a[Parent(idx)]] <= timeout[a[i]]
        <5>1. timeout[a[idx]] <= timeout[a[i]] /\ timeout[a[Parent(idx)]] <= timeout[a[idx]]
          BY <1>4, <1>10, <1>12, <2>1, <4>6
        <5>2. /\ timeout[a[idx]] \in Nat /\ timeout[a[i]] \in Nat
              /\ timeout[a[Parent(idx)]] \in Nat
          BY <1>6, <1>10, <1>12, <1>13, <2>1, <4>6
        <5> QED
          BY <5>1, <5>2
      <4>7. Ordered(b, m)
        BY <1>6, <1>7, <1>11, <4>2, <4>5, <4>6, SinkOrders
      <4> QED
        BY <4>3, <4>4, <4>7
    <3> QED
      BY <3>1, <3>2
  <2> HIDE DEF p
  <2>3. Follows(b, s, a, m, p[1], last)
    BY <1>2, <1>6, <1>8, <1>9, <2>2, PlacedInverts
  <2>4. Range(b) = Range(array) \ {e}
    <3>1. Range(b) = {a[i] : i \in (0 .. m - 1) \ {idx}} \union {last}
      BY <2>2, <2>3 DEF Follows
    <3>2. \A i \in 0 .. n - 1 : i = m \/ i \in 0 .. m - 1
      BY <1>6
    <3>3. \A i \in (0 .. m - 1) \ {idx} :
            a[i] = array[i] /\ array[i] # e /\ i \in 0 .. n - 1
      BY <1>6, <1>9, <2>1
    <3>4. last # e
      BY <1>8, <2>1
    <3>5. ASSUME NEW f \in Range(b) PROVE f \in Range(array) /\ f # e
      <4>1. CASE f = last
        BY <1>2, <1>6, <3>4, <4>1
      <4>2. CASE f # last
        <5>1. PICK i \in (0 .. m - 1) \ {idx} : f = a[i]
          BY <3>1, <3>5, <4>2
        <5>2. f = array[i] /\ array[i] # e /\ i \in 0 .. n - 1
          BY <3>3, <5>1
        <5> QED
          BY <1>2, <5>2
      <4> QED
        BY <4>1, <4>2
    <3>6. ASSUME NEW i \in 0 .. n - 1, array[i] # e PROVE array[i] \in Range(b)
      <4>1. CASE i = m
        BY <1>6, <3>1, <4>1
      <4>2. CASE i \in 0 .. m - 1
        <5>1. i # idx /\ a[i] = array[i]
          BY <1>4, <1>6, <3>6, <4>2
        <5> QED
          BY <3>1, <4>2, <5>1
      <4> QED
        BY <3>2, <4>1, <4>2
    <3> HIDE DEF b
    <3> QED
      BY <1>2, <3>5, <3>6
  <2> HIDE DEF b, s
  <2>5. Heap(b, satellite')
    <3>1. /\ b \in [0 .. m - 1 -> Event] /\ s \in [Event -> Int]
          /\ \A i \in 0 .. m - 1 : s[b[i]] = i
          /\ \A f \in Event : f \notin Range(b) => s[f] = satellite[f]
      BY <2>3 DEF Follows
    <3>2. \A i \in 0 .. m - 1 : b[i] \in Range(b)
      BY <3>1 DEF Range
    <3>3. \A i \in 0 .. m - 1 : satellite'[b[i]] = i
      BY <1>1, <2>4, <3>1, <3>2
    <3>4. \A f \in Event : f \notin Range(b) => satellite'[f] = -1
      BY <1>1, <1>2, <2>4, <3>1
    <3>5. satellite' \in [Event -> Int]
      BY <1>1, <3>1
    <3> QED
      BY <1>6, <2>2, <3>1, <3>3, <3>4, <3>5, MovesMake
  <2> QED
    BY <1>1, <2>4, <2>5
<1> QED
  BY <1>14, <1>15

\* pop removes the top.
LEMMA PopRemoves ==
  ASSUME Heap(array, satellite), array # <<>>, HeapPop
  PROVE  array[0] \in Event /\ satellite[array[0]] = 0 /\ HeapRemove(array[0])
<1>1. Size(array) \in Nat /\ array \in [0 .. Size(array) - 1 -> Event]
  BY DEF Heap
<1>2. Size(array) # 0
  <2> SUFFICES ASSUME Size(array) = 0 PROVE FALSE
    OBVIOUS
  <2>1. DOMAIN array = {}
    BY <1>1
  <2> QED
    BY <1>1, <2>1
<1>3. 0 \in 0 .. Size(array) - 1
  BY <1>1, <1>2
<1>4. array[0] \in Event /\ satellite[array[0]] = 0
  BY <1>3, HeapFacts
<1> QED
  BY <1>4 DEF HeapPop, HeapRemove

\* clear
LEMMA ClearMakes ==
  ASSUME Heap(array, satellite), HeapClear
  PROVE  Heap(array', satellite') /\ Range(array') = {}
<1>1. array' = <<>>
  BY DEF HeapClear
<1>2. array' \in [0 .. 0 - 1 -> Event] /\ Range(array') = {}
  BY <1>1 DEF Range
<1>3. satellite' \in [Event -> Int] /\ \A e \in Event : satellite'[e] = -1
  BY HeapFacts DEF HeapClear, Heap
<1>4. Ordered(array', 0)
  BY DEF Ordered
<1>5. \A i \in 0 .. 0 - 1 : satellite'[array'[i]] = i
  OBVIOUS
<1>6. 0 \in Nat
  OBVIOUS
<1>7. Heap(array', satellite')
  BY <1>2, <1>3, <1>4, <1>5, <1>6, MovesMake
<1> QED
  BY <1>2, <1>7
-----------------------------------------------------------------------------
(* The reactor *)

\* The inductive invariant: an event is in the heap, in a callback or in a promise and
\* only in one of them, so that no key changes in the heap; one in a callback was due.
TimerInv ==
  /\ Heap(array, satellite)
  /\ timeout \in [Event -> Nat] /\ now \in Nat
  /\ made \in SUBSET Event /\ eventset \in SUBSET made
  /\ running \in SUBSET made /\ ended \in SUBSET made /\ Range(array) \in SUBSET made
  /\ running \intersect ended = {}
  /\ Range(array) \intersect running = {} /\ Range(array) \intersect ended = {}
  /\ \A e \in running : timeout[e] <= now

LEMMA TimerInitially == TimerInit => TimerInv
<1> SUFFICES ASSUME TimerInit PROVE TimerInv
  OBVIOUS
<1>1. array \in [0 .. 0 - 1 -> Event] /\ Range(array) = {}
  BY DEF TimerInit, Range
<1>2. satellite \in [Event -> Int] /\ \A e \in Event : satellite[e] = -1
  BY DEF TimerInit
<1>3. Ordered(array, 0)
  BY DEF Ordered
<1>4. \A i \in 0 .. 0 - 1 : satellite[array[i]] = i
  OBVIOUS
<1>5. 0 \in Nat
  OBVIOUS
<1>6. Heap(array, satellite)
  BY <1>1, <1>2, <1>3, <1>4, <1>5, MovesMake
<1>7. timeout \in [Event -> Nat]
  BY TimeoutHeapAssumption DEF TimerInit
<1> QED
  BY <1>1, <1>6, <1>7 DEF TimerInit, TimerInv

\* A step that leaves the keys alone keeps the heap it has made.
LEMMA HeapPrimed ==
  ASSUME timeout' = timeout, Heap(array', satellite')
  PROVE  Heap(array, satellite)'
BY DEF Heap, Ordered

\* insert and remove of any event.
LEMMA HeapInserts ==
  ASSUME TimerInv, NEW e \in Event, HeapInsert(e)
  PROVE  Heap(array', satellite') /\ Range(array') = Range(array) \union {e}
<1>1. CASE satellite[e] = -1
  BY <1>1, InsertMakes DEF TimerInv
<1>2. CASE satellite[e] # -1
  <2>1. UNCHANGED <<array, satellite>>
    BY <1>2 DEF HeapInsert, heapVars
  <2>2. e \in Range(array)
    BY <1>2, HeapFacts DEF TimerInv
  <2> QED
    BY <2>1, <2>2 DEF TimerInv
<1> QED
  BY <1>1, <1>2

LEMMA HeapRemoves ==
  ASSUME TimerInv, NEW e \in Event, HeapRemove(e)
  PROVE  Heap(array', satellite') /\ Range(array') = Range(array) \ {e}
<1>1. CASE satellite[e] # -1
  BY <1>1, RemoveMakes DEF TimerInv
<1>2. CASE satellite[e] = -1
  <2>1. UNCHANGED <<array, satellite>>
    BY <1>2 DEF HeapRemove, heapVars
  <2>2. e \notin Range(array)
    BY <1>2, HeapFacts DEF TimerInv
  <2> QED
    BY <2>1, <2>2 DEF TimerInv
<1> QED
  BY <1>1, <1>2

\* An iteration of _poll_timeout_events takes a timer that no other precedes.
LEMMA PollTakes ==
  ASSUME TimerInv, Poll
  PROVE  /\ array[0] \in Range(array) /\ array[0] \in Event /\ timeout[array[0]] <= now
         /\ Heap(array', satellite') /\ Range(array') = Range(array) \ {array[0]}
         /\ \A f \in Range(array) : timeout[array[0]] <= timeout[f]
<1>1. array # <<>> /\ ~(timeout[array[0]] > now) /\ HeapPop
  BY DEF Poll, PollEnds
<1>2. array[0] \in Event /\ satellite[array[0]] = 0 /\ HeapRemove(array[0])
  BY <1>1, PopRemoves DEF TimerInv
<1>3. array[0] \in Range(array)
  BY <1>2, HeapFacts DEF TimerInv
<1>4. timeout[array[0]] <= now
  BY <1>1, <1>2 DEF TimerInv
<1>5. Heap(array', satellite') /\ Range(array') = Range(array) \ {array[0]}
  BY <1>2, HeapRemoves
<1>6. \A i \in 0 .. Size(array) - 1 : timeout[array[0]] <= timeout[array[i]]
  BY TopLeast DEF TimerInv, Heap
<1>7. Range(array) = {array[i] : i \in 0 .. Size(array) - 1}
  BY HeapFacts DEF TimerInv
<1> QED
  BY <1>2, <1>3, <1>4, <1>5, <1>6, <1>7

LEMMA TimerStep ==
  ASSUME ~ThawInCallback, TimerInv, [TimerNext]_timerVars
  PROVE  TimerInv'
<1>1. ASSUME NEW e \in Event, Insert(e) PROVE TimerInv'
  <2>1. Heap(array', satellite') /\ Range(array') = Range(array) \union {e}
    BY <1>1, HeapInserts DEF Insert
  <2>2. Heap(array, satellite)'
    BY <1>1, <2>1, HeapPrimed DEF Insert
  <2> QED
    BY <1>1, <2>1, <2>2 DEF Insert, TimerInv
<1>2. ASSUME NEW e \in Event, Remove(e) \/ Freeze(e) PROVE TimerInv'
  <2>1. Heap(array', satellite') /\ Range(array') = Range(array) \ {e}
    BY <1>2, HeapRemoves DEF Remove, Freeze
  <2>2. Heap(array, satellite)'
    BY <1>2, <2>1, HeapPrimed DEF Remove, Freeze
  <2> QED
    BY <1>2, <2>1, <2>2 DEF Remove, Freeze, TimerInv
<1>3. ASSUME NEW e \in Event, Thaw(e) PROVE TimerInv'
  <2>1. Heap(array', satellite') /\ Range(array') = Range(array) \union {e}
    BY <1>3, HeapInserts DEF Thaw
  <2>2. Heap(array, satellite)'
    BY <1>3, <2>1, HeapPrimed DEF Thaw
  <2>3. e \notin running /\ e \notin ended /\ e \in made
    BY <1>3 DEF Thaw, TimerInv
  <2> QED
    BY <1>3, <2>1, <2>2, <2>3 DEF Thaw, TimerInv
<1>4. ASSUME NEW e \in Event, Reinsert(e) PROVE TimerInv'
  <2>1. /\ Heap(array', satellite')
        /\ Range(array') = Range(array) \union {e} \/ Range(array') = Range(array)
    <3>1. CASE e \in eventset
      BY <1>4, <3>1, HeapInserts DEF Reinsert
    <3>2. CASE e \notin eventset
      BY <1>4, <3>2 DEF Reinsert, heapVars, TimerInv
    <3> QED
      BY <3>1, <3>2
  <2>2. Heap(array, satellite)'
    BY <1>4, <2>1, HeapPrimed DEF Reinsert
  <2>3. e \notin running /\ e \in made
    BY <1>4 DEF Reinsert, TimerInv
  <2> QED
    BY <1>4, <2>1, <2>2, <2>3 DEF Reinsert, TimerInv
<1>5. ASSUME NEW e \in Event, Default(e) PROVE TimerInv'
  <2>1. e \in running /\ e \notin Range(array) /\ e \in made
    BY <1>5 DEF Default, TimerInv
  <2>2. timeout' \in [Event -> Nat] /\ \A f \in Event : f # e => timeout'[f] = timeout[f]
    BY <1>5, TimeoutHeapAssumption DEF Default, TimerInv
  <2>3. Heap(array, satellite)'
    <3>1. array' = array /\ satellite' = satellite
      BY <1>5 DEF Default, heapVars
    <3>2. \A i \in 0 .. Size(array) - 1 : array[i] # e /\ array[i] \in Event
      BY <2>1, HeapFacts DEF TimerInv
    <3>3. \A i \in 1 .. Size(array) - 1 : Parent(i) \in 0 .. Size(array) - 1
                                          /\ i \in 0 .. Size(array) - 1
      BY HeapFacts DEF TimerInv, Parent
    <3>4. \A i \in 1 .. Size(array) - 1 : timeout'[array[Parent(i)]] <= timeout'[array[i]]
      BY <2>2, <3>2, <3>3 DEF TimerInv, Heap, Ordered
    <3> QED
      BY <3>1, <3>4 DEF TimerInv, Heap, Ordered
  <2>4. \A f \in running \ {e} : timeout'[f] <= now
    BY <2>2 DEF TimerInv
  <2> QED
    BY <1>5, <2>1, <2>2, <2>3, <2>4 DEF Default, TimerInv, heapVars
<1>6. ASSUME NEW e \in Event, End(e) PROVE TimerInv'
  <2>1. Heap(array, satellite)'
    BY <1>6 DEF End, heapVars, TimerInv, Heap, Ordered
  <2> QED
    BY <1>6, <2>1 DEF End, heapVars, TimerInv
<1>7. CASE Clear
  <2>1. Heap(array', satellite') /\ Range(array') = {}
    BY <1>7, ClearMakes DEF Clear, TimerInv
  <2>2. Heap(array, satellite)'
    BY <1>7, <2>1, HeapPrimed DEF Clear
  <2> QED
    BY <1>7, <2>1, <2>2 DEF Clear, TimerInv
<1>8. CASE SyncTime
  <2>1. now' \in Nat /\ now <= now'
    BY <1>8, TimeoutHeapAssumption DEF SyncTime, TimerInv
  <2>2. Heap(array, satellite)'
    BY <1>8 DEF SyncTime, heapVars, TimerInv, Heap, Ordered
  <2>3. \A e \in running : timeout[e] <= now'
    <3> SUFFICES ASSUME NEW e \in running PROVE timeout[e] <= now'
      OBVIOUS
    <3>1. timeout[e] \in Nat /\ timeout[e] <= now /\ now \in Nat
      BY DEF TimerInv
    <3> QED
      BY <2>1, <3>1
  <2> QED
    BY <1>8, <2>1, <2>2, <2>3 DEF SyncTime, heapVars, TimerInv
<1>9. CASE Poll
  <2>1. /\ array[0] \in Range(array) /\ timeout[array[0]] <= now
        /\ Heap(array', satellite') /\ Range(array') = Range(array) \ {array[0]}
    BY <1>9, PollTakes
  <2>2. Heap(array, satellite)'
    BY <1>9, <2>1, HeapPrimed DEF Poll
  <2> DEFINE t == array[0]
  <2>3. /\ t \in Range(array) /\ timeout[t] <= now /\ Range(array') = Range(array) \ {t}
        /\ running' = running \union {t}
    BY <1>9, <2>1 DEF Poll
  <2> HIDE DEF t
  <2> QED
    BY <1>9, <2>2, <2>3 DEF Poll, TimerInv
<1>10. CASE PollDone
  <2>1. Heap(array, satellite)'
    BY <1>10 DEF PollDone, heapVars, TimerInv, Heap, Ordered
  <2> QED
    BY <1>10, <2>1 DEF PollDone, heapVars, TimerInv
<1>11. CASE UNCHANGED timerVars
  <2>1. Heap(array, satellite)'
    BY <1>11 DEF timerVars, TimerInv, Heap, Ordered
  <2> QED
    BY <1>11, <2>1 DEF timerVars, TimerInv
<1> QED
  BY <1>1, <1>2, <1>3, <1>4, <1>5, <1>6, <1>7, <1>8, <1>9, <1>10, <1>11 DEF TimerNext

\* In every behaviour of the reactor and its timers the invariant holds, if no event is
\* thawed during its callback (that would have a worker change a key in the heap).
THEOREM TimerInductive ==
  ASSUME ~ThawInCallback
  PROVE  TimerSpec => []TimerInv
<1>1. TimerInv /\ [TimerNext]_timerVars => TimerInv'
  BY TimerStep
<1> QED
  BY <1>1, TimerInitially, PTL DEF TimerSpec

\* insert, remove, pop and clear leave every timer with its own index in the array.
THEOREM SatellitesInvertHolds ==
  ASSUME ~ThawInCallback
  PROVE  TimerSpec => []SatellitesInvert
<1>1. TimerInv => SatellitesInvert
  BY DEF TimerInv, Heap, SatellitesInvert
<1> QED
  BY <1>1, TimerInductive, PTL

\* No timer is above one that is due before it, whatever is inserted and removed and
\* whichever timeouts the callbacks of periodic events write.
THEOREM HeapOrderedHolds ==
  ASSUME ~ThawInCallback
  PROVE  TimerSpec => []HeapOrdered
<1>1. TimerInv => HeapOrdered
  <2> SUFFICES ASSUME TimerInv, NEW i \in DOMAIN array \ {0}
               PROVE  timeout[array[Parent(i)]] <= timeout[array[i]]
    BY DEF HeapOrdered
  <2>1. i \in 1 .. Size(array) - 1
    BY HeapFacts DEF TimerInv
  <2> QED
    BY <2>1 DEF TimerInv, Heap, Ordered
<1> QED
  BY <1>1, TimerInductive, PTL

\* The heap implements the abstract queue: _poll_timeout_events takes timers in the order
\* of their timeouts, and only those that are due.
THEOREM HeapIsQueue ==
  ASSUME ~ThawInCallback
  PROVE  TimerSpec => QueueSpec
<1>1. TimerInit => Range(array) = {} /\ running = {}
  BY DEF TimerInit, Range
<1>2. TimerInv /\ [TimerNext]_timerVars => [Queue!Next]_(Queue!vars)
  <2> SUFFICES ASSUME TimerInv, [TimerNext]_timerVars
               PROVE  Queue!Next \/ UNCHANGED Queue!vars
    OBVIOUS
  <2> USE DEF Queue!vars, Queue!Next
  <2>1. ASSUME NEW e \in Event, Insert(e) \/ Thaw(e) PROVE Queue!Add(e)
    BY <2>1, HeapInserts DEF Insert, Thaw, Queue!Add
  <2>2. ASSUME NEW e \in Event, Remove(e) \/ Freeze(e) PROVE Queue!Drop(e)
    BY <2>2, HeapRemoves DEF Remove, Freeze, Queue!Drop
  <2>3. ASSUME NEW e \in Event, Reinsert(e) PROVE Queue!Add(e) \/ UNCHANGED Queue!vars
    <3>1. CASE e \in eventset
      BY <2>3, <3>1, HeapInserts DEF Reinsert, Queue!Add
    <3>2. CASE e \notin eventset
      BY <2>3, <3>2 DEF Reinsert, heapVars
    <3> QED
      BY <3>1, <3>2
  <2>4. ASSUME NEW e \in Event, Default(e) PROVE Queue!End(e)
    <3>1. e \in running /\ e \notin Range(array) /\ timeout[e] <= now
      BY <2>4 DEF Default, TimerInv
    <3>2. /\ timeout' = [timeout EXCEPT ![e] = now + Duration] /\ timeout \in [Event -> Nat]
          /\ now \in Nat /\ Duration \in Nat
      BY <2>4, TimeoutHeapAssumption DEF Default, TimerInv
    <3>3. timeout'[e] = now + Duration
      BY <3>2
    <3>4. timeout'[e] >= timeout[e]
      BY <3>1, <3>2, <3>3
    <3> QED
      BY <2>4, <3>1, <3>2, <3>3, <3>4 DEF Default, heapVars, Queue!End
  <2>5. ASSUME NEW e \in Event, End(e) PROVE Queue!End(e)
    <3>1. e \in running /\ e \notin Range(array) /\ timeout \in [Event -> Nat]
      BY <2>5 DEF End, TimerInv
    <3>2. timeout' = timeout
      BY <2>5 DEF End
    <3>3. timeout'[e] >= timeout[e] /\ timeout' = [timeout EXCEPT ![e] = timeout'[e]]
      BY <3>1, <3>2
    <3> QED
      BY <2>5, <3>1, <3>3 DEF End, heapVars, Queue!End
  <2>6. CASE Clear
    <3>1. Range(array') = {}
      BY <2>6, ClearMakes DEF Clear, TimerInv
    <3> QED
      BY <2>6, <3>1 DEF Clear, Queue!Empty
  <2>7. CASE SyncTime
    <3>1. now' \in Nat /\ now <= now' /\ now \in Nat
      BY <2>7, TimeoutHeapAssumption DEF SyncTime, TimerInv
    <3>2. now' = now \/ now' > now
      BY <3>1
    <3> QED
      BY <2>7, <3>1, <3>2 DEF SyncTime, heapVars, Queue!Tick
  <2>8. CASE Poll
    <3>1. Queue!Take(array[0]) /\ array[0] \in Event
      BY <2>8, PollTakes DEF Poll, Queue!Take
    <3> QED
      BY <3>1
  <2>9. CASE PollDone
    BY <2>9 DEF PollDone, heapVars
  <2>10. CASE UNCHANGED timerVars
    BY <2>10 DEF timerVars
  <2> QED
    BY <2>1, <2>2, <2>3, <2>4, <2>5, <2>6, <2>7, <2>8, <2>9, <2>10 DEF TimerNext
<1> QED
  BY <1>1, <1>2, TimerInductive, PTL DEF TimerSpec, QueueSpec, Queue!Spec
=============================================================================
