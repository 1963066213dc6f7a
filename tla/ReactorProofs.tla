---------------------------- MODULE ReactorProofs ---------------------------
(***************************************************************************)
(* Proofs about Reactor, for any number of events and of requests: the     *)
(* demultiplexer and the heap only hold events the reactor owns, and the   *)
(* callback of an event that is never thawed runs once at a time; no event *)
(* is forgotten.                                                           *)
(***************************************************************************)
EXTENDS Reactor, TLAPS

\* An event is inserted once: until then nothing has happened to it.
InsertedOnce ==
  \A e \in Event :
    /\ asked["insert"][e] <= 1
    /\ asked["insert"][e] = 1 => e \in made
    /\ (e \notin made \/ asked["insert"][e] = 1) =>
         /\ e \notin eventset
         /\ e \notin thawed
         /\ active[e] = 0
         /\ reinsert[e] = 0

ReactorInv == TypeOK /\ InsertedOnce /\ PolledAlive /\ OneCallback

\* In every behaviour the invariant holds: what PolledAlive and OneCallback rest on
\* is that insert constructs its event, so that a promise to insert it finds it
\* untouched.
THEOREM ReactorInductive == Spec => []ReactorInv
<1>1. Init => ReactorInv
  BY ReactorAssumption
  DEF Init, ReactorInv, TypeOK, InsertedOnce, PolledAlive, OneCallback, OPC, Op
<1>2. ReactorInv /\ [Next]_vars => ReactorInv'
  <2> SUFFICES ASSUME ReactorInv, [Next]_vars PROVE ReactorInv'
    OBVIOUS
  <2> USE ReactorAssumption DEF ReactorInv
  <2>1. ASSUME NEW o \in Op, NEW e \in Event, OwnerCall(o, e) PROVE ReactorInv'
    <3>1. CASE o = "insert"
      BY <2>1, <3>1 DEF OwnerCall, Call, Apply, InsertEvent, RemoveEvent, FreezeEvent,
        ThawEvent, TypeOK, InsertedOnce, PolledAlive, OneCallback, Op, OPC
    <3>2. CASE o = "remove"
      BY <2>1, <3>2 DEF OwnerCall, Call, Apply, RemoveEvent,
        TypeOK, InsertedOnce, PolledAlive, OneCallback, Op, OPC
    <3>3. CASE o = "freeze"
      BY <2>1, <3>3 DEF OwnerCall, Call, Apply, FreezeEvent,
        TypeOK, InsertedOnce, PolledAlive, OneCallback, Op, OPC
    <3>4. CASE o = "thaw"
      BY <2>1, <3>4 DEF OwnerCall, Call, Apply, ThawEvent,
        TypeOK, InsertedOnce, PolledAlive, OneCallback, Op, OPC
    <3> QED BY <3>1, <3>2, <3>3, <3>4 DEF Op
  <2>2. ASSUME NEW o \in Op, NEW e \in Event, ThreadCall(o, e) PROVE ReactorInv'
    <3>1. CASE o = "insert"
      BY <2>2, <3>1 DEF ThreadCall, Call, TypeOK, InsertedOnce, PolledAlive,
        OneCallback, Op, OPC
    <3>2. CASE o # "insert"
      BY <2>2, <3>2 DEF ThreadCall, Call, TypeOK, InsertedOnce, PolledAlive,
        OneCallback, Op, OPC
    <3> QED BY <3>1, <3>2
  <2>3. ASSUME NEW o \in Op, NEW e \in Event, CarryOn(o, e) PROVE ReactorInv'
    <3>1. CASE o = "insert"
      BY <2>3, <3>1 DEF CarryOn, Apply, InsertEvent,
        TypeOK, InsertedOnce, PolledAlive, OneCallback, Op, OPC
    <3>2. CASE o = "remove"
      BY <2>3, <3>2 DEF CarryOn, Apply, RemoveEvent,
        TypeOK, InsertedOnce, PolledAlive, OneCallback, Op, OPC
    <3>3. CASE o = "freeze"
      BY <2>3, <3>3 DEF CarryOn, Apply, FreezeEvent,
        TypeOK, InsertedOnce, PolledAlive, OneCallback, Op, OPC
    <3>4. CASE o = "thaw"
      BY <2>3, <3>4 DEF CarryOn, Apply, ThawEvent,
        TypeOK, InsertedOnce, PolledAlive, OneCallback, Op, OPC
    <3> QED BY <3>1, <3>2, <3>3, <3>4 DEF Op
  <2>4. ASSUME NEW e \in Event, Reinsert(e) PROVE ReactorInv'
    <3>1. /\ UNCHANGED <<made, eventset, active, asked, calls, frozen, thawed,
                       notifier, opc>>
          /\ reinsert[e] > 0
          /\ reinsert' = [reinsert EXCEPT ![e] = @ - 1]
      BY <2>4 DEF Reinsert
    <3>2. \A x \in polled' : x \in polled \/ (x = e /\ e \in eventset)
      BY <2>4 DEF Reinsert
    <3>3. reinsert' \in [Event -> Nat]
      BY <3>1 DEF TypeOK
    <3>4. polled' \in SUBSET Event
      BY <3>2 DEF TypeOK
    <3>5. TypeOK'
      BY <3>1, <3>3, <3>4 DEF TypeOK
    <3>6. \A x \in Event : reinsert'[x] <= reinsert[x]
      BY <3>1 DEF TypeOK
    <3>7. InsertedOnce'
      BY <3>1, <3>3, <3>6 DEF TypeOK, InsertedOnce, Op
    <3>8. PolledAlive'
      BY <3>1, <3>2 DEF PolledAlive
    <3>9. ASSUME NEW x \in Event \ thawed
          PROVE  /\ active[x] + reinsert'[x] <= 1
                 /\ x \in polled' => active[x] + reinsert'[x] = 0
      <4>1. /\ active[x] \in Nat
            /\ reinsert[x] \in Nat
            /\ active[x] + reinsert[x] <= 1
            /\ x \in polled => active[x] + reinsert[x] = 0
        BY DEF TypeOK, OneCallback
      <4>2. CASE x = e
        <5>1. reinsert'[x] = reinsert[x] - 1 /\ reinsert[x] > 0
          BY <3>1, <4>2 DEF TypeOK
        <5> QED BY <4>1, <5>1
      <4>3. CASE x # e
        <5>1. reinsert'[x] = reinsert[x]
          BY <3>1, <4>3 DEF TypeOK
        <5>2. x \in polled' => x \in polled
          BY <3>2, <4>3
        <5> QED BY <4>1, <5>1, <5>2
      <4> QED BY <4>2, <4>3
    <3> QED BY <3>1, <3>5, <3>7, <3>8, <3>9 DEF OneCallback
  <2>5. ASSUME NEW e \in Event, Poll(e) PROVE ReactorInv'
    BY <2>5 DEF Poll, PollIO, PollTimeout, Activate,
      TypeOK, InsertedOnce, PolledAlive, OneCallback, Op, OPC
  <2>6. ASSUME NEW e \in Event, Default(e) PROVE ReactorInv'
    BY <2>6 DEF Default, TypeOK, InsertedOnce, PolledAlive, OneCallback, Op, OPC
  <2>7. ASSUME NEW e \in Event, Remove(e) PROVE ReactorInv'
    BY <2>7 DEF Remove, TypeOK, InsertedOnce, PolledAlive, OneCallback, Op, OPC
  <2>8. CASE Clear
    BY <2>8 DEF Clear, TypeOK, InsertedOnce, PolledAlive, OneCallback, Op, OPC
  <2>9. CASE \/ CarryOnDone \/ Stop \/ Continue \/ SelectReturns \/ PollDone
             \/ StartDispatch \/ BreakLoop \/ UNCHANGED vars
    BY <2>9 DEF CarryOnDone, Stop, Continue, SelectReturns, PollDone, StartDispatch,
      BreakLoop, vars, TypeOK, InsertedOnce, PolledAlive, OneCallback, Op, OPC
  <2> QED
    BY <2>1, <2>2, <2>3, <2>4, <2>5, <2>6, <2>7, <2>8, <2>9
    DEF Next, Loop, Request, Callback
<1> QED BY <1>1, <1>2, PTL DEF Spec

\* No pointer in the demultiplexer or the heap outlives its event (_remove against
\* the promises of callbacks that end).
THEOREM PolledAliveHolds == Spec => []PolledAlive
  BY ReactorInductive, PTL DEF ReactorInv

\* The callback of an event that is not thawed never overlaps itself.
THEOREM OneCallbackHolds == Spec => []OneCallback
  BY ReactorInductive, PTL DEF ReactorInv

\* The tables of the reactor keep their types; no count of promises is negative.
THEOREM TypeCorrect == Spec => []TypeOK
  BY ReactorInductive, PTL DEF ReactorInv

\* No event is forgotten: each way out of the demultiplexer or the heap that is not
\* a freeze leaves a callback or a promise behind that puts the event back or removes it.
THEOREM NeverForgottenHolds == Spec => []NeverForgotten
<1>1. Init => NeverForgotten
  BY DEF Init, NeverForgotten
<1>2. TypeOK /\ NeverForgotten /\ [Next]_vars => NeverForgotten'
  <2> SUFFICES ASSUME TypeOK, NeverForgotten, [Next]_vars PROVE NeverForgotten'
    OBVIOUS
  <2> USE DEF NeverForgotten
  <2>1. ASSUME NEW o \in Op, NEW e \in Event, Apply(o, e),
               UNCHANGED <<active, reinsert>>,
               \A x \in Event : x # e \/ o # "remove" => asked'["remove"][x] >= asked["remove"][x],
               asked' \in [Op -> [Event -> Int]]
        PROVE  NeverForgotten'
    <3>1. CASE o = "insert"
      BY <2>1, <3>1 DEF Apply, InsertEvent, TypeOK, Op
    <3>2. CASE o = "remove"
      BY <2>1, <3>2 DEF Apply, RemoveEvent, TypeOK, Op
    <3>3. CASE o = "freeze"
      BY <2>1, <3>3 DEF Apply, FreezeEvent, TypeOK, Op
    <3>4. CASE o = "thaw"
      BY <2>1, <3>4 DEF Apply, ThawEvent, TypeOK, Op
    <3> QED BY <3>1, <3>2, <3>3, <3>4 DEF Op
  <2>2. ASSUME NEW o \in Op, NEW e \in Event, OwnerCall(o, e) PROVE NeverForgotten'
    BY <2>1, <2>2 DEF OwnerCall, TypeOK, Op
  <2>3. ASSUME NEW o \in Op, NEW e \in Event, ThreadCall(o, e) PROVE NeverForgotten'
    BY <2>3 DEF ThreadCall, TypeOK, Op
  <2>4. ASSUME NEW o \in Op, NEW e \in Event, CarryOn(o, e) PROVE NeverForgotten'
    BY <2>1, <2>4 DEF CarryOn, TypeOK, Op
  <2>5. ASSUME NEW e \in Event, Reinsert(e) PROVE NeverForgotten'
    BY <2>5 DEF Reinsert, TypeOK, Op
  <2>6. ASSUME NEW e \in Event, Poll(e) PROVE NeverForgotten'
    BY <2>6 DEF Poll, PollIO, PollTimeout, Activate, TypeOK, Op
  <2>7. ASSUME NEW e \in Event, Default(e) PROVE NeverForgotten'
    BY <2>7 DEF Default, TypeOK, Op
  <2>8. ASSUME NEW e \in Event, Remove(e) PROVE NeverForgotten'
    BY <2>8 DEF Remove, TypeOK, Op
  <2>9. CASE Clear
    BY <2>9 DEF Clear
  <2>10. CASE \/ CarryOnDone \/ Stop \/ Continue \/ SelectReturns \/ PollDone
              \/ StartDispatch \/ BreakLoop \/ UNCHANGED vars
    BY <2>10 DEF CarryOnDone, Stop, Continue, SelectReturns, PollDone, StartDispatch,
      BreakLoop, vars
  <2> QED
    BY <2>2, <2>3, <2>4, <2>5, <2>6, <2>7, <2>8, <2>9, <2>10
    DEF Next, Loop, Request, Callback
<1> QED BY <1>1, <1>2, TypeCorrect, PTL DEF Spec
=============================================================================
