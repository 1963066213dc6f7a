--------------------------- MODULE LockFreeProofs ---------------------------
(***************************************************************************)
(* Proofs about what threads share without a lock: the queue, flag and     *)
(* eventfd that wake the owner of a reactor (ReactorWakeup), for any       *)
(* number of threads and promises, and the ring between one producer and   *)
(* one consumer (ConcurrentFIFO), for any capacity.                        *)
(*                                                                         *)
(* The two properties of the wakeup are inductive together.  A thread that *)
(* finds the flag set skips its own write; FlagHasWriter says that the     *)
(* write it relies on is still in the eventfd or still to come, unless the *)
(* owner is between the drain and the end of the carry loop, and that loop *)
(* ends only when the queue is empty.                                      *)
(*                                                                         *)
(* The ring is race free and implements the queue of BoundedQueue.         *)
(***************************************************************************)
EXTENDS ReactorWakeup, ConcurrentFIFO, SequenceTheorems, TLAPS

-----------------------------------------------------------------------------
(* ReactorWakeup *)

\* The Boolean variables are apart from the others: no single backend does both.
BoolOK == notified \in BOOLEAN /\ break_loop \in BOOLEAN

RestOK ==
  /\ made \in SUBSET Promise
  /\ promises \in SUBSET made
  /\ eventfd \in Nat
  /\ wpc \in [Worker -> WPC]
  /\ call \in [Worker -> Promise \union {NoPromise}]
  /\ opc \in OPC

LEMMA TypeInitially == Init => TypeOK
<1>1. Init => BoolOK
  BY DEF Init, BoolOK
<1>2. Init => RestOK
  BY DEF Init, RestOK, WPC, OPC
<1> QED
  BY <1>1, <1>2 DEF TypeOK, BoolOK, RestOK

\* promise(), notify() and dispatch() keep the reactor's state well formed.
THEOREM TypeCorrect == Spec => []TypeOK
<1>1. TypeOK /\ [Next]_vars => TypeOK'
  <2> SUFFICES ASSUME TypeOK, [Next]_vars PROVE TypeOK'
    OBVIOUS
  <2>1. BoolOK'
    BY Zenon DEF TypeOK, BoolOK, Next, vars, Enqueue, Notify, NotifyTest, NotifySet,
           NotifyWrite, Return, Get, Dispatch, CarryOn, CarryOnDone, Check,
           PollNotifier, PollOther, Drain, DrainDone, Clear
  <2>2. RestOK'
    <3>1. RestOK
      BY DEF TypeOK, RestOK
    <3> USE DEF RestOK, WPC, OPC
    <3>2. CASE UNCHANGED vars
      BY <3>1, <3>2 DEF vars
    <3>3. ASSUME NEW w \in Worker, NEW p \in Promise, Enqueue(w, p) PROVE RestOK'
      BY <3>1, <3>3 DEF Enqueue
    <3>4. ASSUME NEW w \in Worker, Notify(w) PROVE RestOK'
      BY <3>1, <3>4 DEF Notify, NotifyTest, NotifySet, NotifyWrite, Return, Get
    <3>5. CASE Dispatch \/ PollOther
      BY <3>1, <3>5 DEF Dispatch, CarryOn, CarryOnDone, Check, PollNotifier,
                        PollOther, Drain, DrainDone, Clear
    <3> QED
      BY <3>2, <3>3, <3>4, <3>5 DEF Next
  <2> QED
    BY <2>1, <2>2 DEF TypeOK, BoolOK, RestOK
<1> QED
  BY <1>1, TypeInitially, PTL DEF Spec

\* The inductive invariant.
WakeupInv == TypeOK /\ FlagHasWriter /\ NoLostWakeup

LEMMA WakeupInitially == Init => WakeupInv
BY TypeInitially DEF Init, WakeupInv, FlagHasWriter, NoLostWakeup

\* A step of a thread keeps the flag honest and every wakeup due.
LEMMA ThreadStep ==
  ASSUME WakeupInv, TypeOK',
         NEW w \in Worker,
         Notify(w) \/ \E p \in Promise : Enqueue(w, p)
  PROVE  FlagHasWriter' /\ NoLostWakeup'
<1> USE DEF WakeupInv, TypeOK, WPC, OPC
<1>1. CASE \E p \in Promise : Enqueue(w, p)
  BY <1>1 DEF Enqueue, FlagHasWriter, NoLostWakeup
<1>2. CASE NotifyTest(w)
  <2>1. FlagHasWriter'
    BY <1>2 DEF NotifyTest, FlagHasWriter
  <2>2. CASE notified
    \* The thread leaves notify(): what it relied on is there.
    BY <1>2, <2>1, <2>2 DEF NotifyTest, FlagHasWriter, NoLostWakeup
  <2>3. CASE ~notified
    <3>1. wpc'[w] = "set"
      BY <1>2, <2>3 DEF NotifyTest
    <3> QED
      BY <2>1, <3>1 DEF NoLostWakeup
  <2> QED
    BY <2>2, <2>3
<1>3. CASE NotifySet(w)
  <2>1. wpc'[w] = "write"
    BY <1>3 DEF NotifySet
  <2> QED
    BY <2>1 DEF FlagHasWriter, NoLostWakeup
<1>4. CASE NotifyWrite(w)
  <2>1. eventfd' > 0
    BY <1>4 DEF NotifyWrite
  <2> QED
    BY <2>1 DEF FlagHasWriter, NoLostWakeup
<1>5. CASE Return(w) \/ Get(w)
  <2>1. \A v \in Worker : wpc[v] \in {"test", "set", "write"} => wpc'[v] = wpc[v]
    BY <1>5 DEF Return, Get
  <2> QED
    BY <1>5, <2>1 DEF Return, Get, FlagHasWriter, NoLostWakeup
<1> QED
  BY <1>1, <1>2, <1>3, <1>4, <1>5 DEF Notify

\* So does a step of the owner.
LEMMA OwnerStep ==
  ASSUME WakeupInv, TypeOK', Dispatch \/ PollOther
  PROVE  FlagHasWriter' /\ NoLostWakeup'
<1> USE DEF WakeupInv, TypeOK, WPC, OPC
<1>1. CASE \E p \in Promise : CarryOn(p)
  BY <1>1 DEF CarryOn, FlagHasWriter, NoLostWakeup
<1>2. CASE CarryOnDone \/ Check \/ PollOther
  BY <1>2 DEF CarryOnDone, Check, PollOther, FlagHasWriter, NoLostWakeup
<1>3. CASE PollNotifier \/ Drain \/ DrainDone
  BY <1>3 DEF PollNotifier, Drain, DrainDone, FlagHasWriter, NoLostWakeup
<1>4. CASE Clear
  BY <1>4 DEF Clear, FlagHasWriter, NoLostWakeup
<1> QED
  BY <1>1, <1>2, <1>3, <1>4 DEF Dispatch

\* WakeupInv holds in every reachable state of the reactor.
THEOREM WakeupInductive == Spec => []WakeupInv
<1>1. WakeupInv /\ TypeOK' /\ [Next]_vars => WakeupInv'
  <2> SUFFICES ASSUME WakeupInv, TypeOK', [Next]_vars
               PROVE  FlagHasWriter' /\ NoLostWakeup'
    BY DEF WakeupInv
  <2>1. CASE UNCHANGED vars
    BY <2>1 DEF vars, WakeupInv, FlagHasWriter, NoLostWakeup
  <2>2. CASE \E w \in Worker : Notify(w) \/ \E p \in Promise : Enqueue(w, p)
    BY <2>2, ThreadStep
  <2>3. CASE Dispatch \/ PollOther
    BY <2>3, OwnerStep
  <2> QED
    BY <2>1, <2>2, <2>3 DEF Next
<1> QED
  BY <1>1, WakeupInitially, TypeCorrect, PTL DEF Spec

\* While notify() is suppressed by the flag, the owner's wakeup is due.
THEOREM FlagHasWriterHolds == Spec => []FlagHasWriter
<1>1. WakeupInv => FlagHasWriter
  BY DEF WakeupInv
<1> QED
  BY <1>1, WakeupInductive, PTL

\* The owner never sleeps on a queued promise with no wakeup due.
THEOREM NoLostWakeupHolds == Spec => []NoLostWakeup
<1>1. WakeupInv => NoLostWakeup
  BY DEF WakeupInv
<1> QED
  BY <1>1, WakeupInductive, PTL
-----------------------------------------------------------------------------
(* ConcurrentFIFO *)

Slot == 0 .. C - 1

\* The indices are modulo C: the remainder of a number below 2C is a matter of cases.
LEMMA Remainder ==
  ASSUME NEW a \in Int, 0 <= a, a < 2 * C
  PROVE  a % C = IF a < C THEN a ELSE a - C
  <1>1. C \in Nat /\ C > 1
    BY FIFOAssumption
  <1>2. /\ a % C \in 0 .. C - 1
        /\ a = C * (a \div C) + (a % C)
        /\ a \div C \in Int
    BY <1>1, SMT
  <1>3. a \div C = 0 \/ a \div C = 1
    BY <1>1, <1>2, SMT
  <1>4. QED
    BY <1>1, <1>2, <1>3, SMT

Cell == Item \union {Junk}

\* What the indices, the places of the two threads and the slot being filled say of
\* each other.
FIFOInv ==
  /\ array \in [Slot -> Cell]
  /\ tail \in Slot /\ head \in Slot
  /\ ppc \in {"idle", "write", "store"} /\ cpc \in {"idle", "read", "store"}
  /\ item \in Cell /\ got \in Cell
  /\ ppc # "idle" => Forward(tail) # head /\ item \in Item
  /\ ppc = "store" => array[tail] = item
  /\ cpc # "idle" => head # tail

LEMMA Forwards ==
  ASSUME NEW i \in Slot
  PROVE  /\ Forward(i) = IF i = C - 1 THEN 0 ELSE i + 1
         /\ Forward(i) \in Slot
  <1>1. C \in Nat /\ C > 1
    BY FIFOAssumption
  <1>2. (i + 1) % C = IF i + 1 < C THEN i + 1 ELSE i + 1 - C
    BY <1>1, Remainder, SMT DEF Slot
  <1>3. QED
    BY <1>1, <1>2, SMT DEF Slot, Forward

LEMMA FIFOInit == RingInit => FIFOInv
  <1>1. C \in Nat /\ C > 1
    BY FIFOAssumption
  <1>2. QED
    BY <1>1, SMT DEF RingInit, FIFOInv, Slot, Cell

LEMMA FIFOStep == FIFOInv /\ [RingNext]_ringVars => FIFOInv'
  <1> SUFFICES ASSUME FIFOInv, [RingNext]_ringVars
               PROVE  FIFOInv'
    OBVIOUS
  <1> USE DEF FIFOInv, Cell
  <1>1. ASSUME NEW x \in Item, PushLoad(x)
        PROVE  FIFOInv'
    BY <1>1, SMT DEF PushLoad, Forward
  <1>2. CASE PushWrite
    BY <1>2, SMT DEF PushWrite, Forward
  <1>3. CASE PushStore
    <2>1. Forward(tail) \in Slot /\ Forward(tail) # head
      BY <1>3, Forwards, SMT DEF PushStore
    <2>2. QED
      BY <1>3, <2>1, SMT DEF PushStore
  <1>4. CASE PopLoad
    BY <1>4, SMT DEF PopLoad, Forward
  <1>5. CASE PopRead
    BY <1>5, SMT DEF PopRead, Forward
  <1>6. CASE PopStore
    <2>1. Forward(head) \in Slot /\ head # tail
      BY <1>6, Forwards, SMT DEF PopStore
    <2>2. Forward(head) # Forward(tail)
      BY <2>1, Forwards, FIFOAssumption, SMT DEF Slot
    <2>3. Forward(tail)' = Forward(tail)
      BY <1>6 DEF PopStore, Forward
    <2>4. QED
      BY <1>6, <2>1, <2>2, <2>3, SMT DEF PopStore
  <1>7. CASE UNCHANGED ringVars
    BY <1>7, SMT DEF ringVars, Forward
  <1>8. QED
    BY <1>1, <1>2, <1>3, <1>4, <1>5, <1>6, <1>7 DEF RingNext

THEOREM FIFOInductive == RingSpec => []FIFOInv
  BY FIFOInit, FIFOStep, PTL DEF RingSpec

\* push never writes the slot that pop moves out of.
THEOREM NoRaceHolds == RingSpec => []NoRace
  <1>1. FIFOInv => NoRace
    BY SMT DEF FIFOInv, NoRace
  <1>2. QED
    BY <1>1, FIFOInductive, PTL
-----------------------------------------------------------------------------
(* The refinement.  The contents are compared item by item.                *)

\* The slot of the k-th item.
At(k) == (head + k - 1) % C

LEMMA Sizes ==
  ASSUME FIFOInv
  PROVE  /\ Size = IF tail >= head THEN tail - head ELSE tail - head + C
         /\ Size \in 0 .. C - 1
         /\ \A k \in 1 .. Size :
              /\ At(k) = IF head + k - 1 < C THEN head + k - 1 ELSE head + k - 1 - C
              /\ At(k) \in Slot /\ At(k) # tail
              /\ At(k) = head <=> k = 1
  <1>1. C \in Nat /\ C > 1 /\ tail \in Slot /\ head \in Slot
    BY FIFOAssumption DEF FIFOInv
  <1>2. (tail - head + C) % C =
          IF tail - head + C < C THEN tail - head + C ELSE tail - head + C - C
    BY <1>1, Remainder, SMT DEF Slot
  <1>3. Size = IF tail >= head THEN tail - head ELSE tail - head + C
    BY <1>1, <1>2, SMT DEF Size, Slot
  <1>4. Size \in 0 .. C - 1
    BY <1>1, <1>3, SMT DEF Slot
  <1>5. ASSUME NEW k \in 1 .. Size
        PROVE  At(k) = IF head + k - 1 < C THEN head + k - 1 ELSE head + k - 1 - C
    BY <1>1, <1>4, Remainder, SMT DEF Slot, At
  <1>6. QED
    BY <1>1, <1>3, <1>4, <1>5, SMT DEF Slot

LEMMA ContentsType ==
  ASSUME FIFOInv
  PROVE  /\ Contents \in Seq(Cell)
         /\ Len(Contents) = Size
         /\ \A k \in 1 .. Size :
              Contents[k] = IF k = 1 /\ cpc = "store" THEN got ELSE array[At(k)]
  <1>1. Size \in Nat
    BY Sizes, FIFOAssumption, SMT
  <1>2. \A k \in 1 .. Size : At(k) \in Slot
    BY Sizes
  <1>3. \A k \in 1 .. Size :
          Contents[k] = IF k = 1 /\ cpc = "store" THEN got ELSE array[At(k)]
    BY DEF Contents, At
  <1>4. \A k \in 1 .. Size : Contents[k] \in Cell
    BY <1>2, <1>3, SMT DEF FIFOInv
  <1>5. Contents \in [1 .. Size -> Cell]
    BY <1>4 DEF Contents
  <1>6. Contents \in Seq(Cell) /\ Len(Contents) = Size
    BY <1>1, <1>5, SMT
  <1>7. QED
    BY <1>3, <1>6

\* What the two lemmas say of a state.
ContentsOK ==
  /\ Size = IF tail >= head THEN tail - head ELSE tail - head + C
  /\ Size \in 0 .. C - 1
  /\ \A k \in 1 .. Size :
       /\ At(k) = IF head + k - 1 < C THEN head + k - 1 ELSE head + k - 1 - C
       /\ At(k) \in Slot /\ At(k) # tail
       /\ At(k) = head <=> k = 1
  /\ Contents \in Seq(Cell)
  /\ Len(Contents) = Size
  /\ \A k \in 1 .. Size :
       Contents[k] = IF k = 1 /\ cpc = "store" THEN got ELSE array[At(k)]

LEMMA ContentsNow == FIFOInv => ContentsOK
  BY Sizes, ContentsType DEF ContentsOK

LEMMA ContentsNext == FIFOInv' => ContentsOK'
  BY ContentsNow, PTL

\* The part of it that is about the indices alone.
SizeOK ==
  /\ Size = IF tail >= head THEN tail - head ELSE tail - head + C
  /\ Size \in 0 .. C - 1

LEMMA SizeNow == FIFOInv => SizeOK
  BY Sizes DEF SizeOK

LEMMA SizeNext == FIFOInv' => SizeOK'
  BY SizeNow, PTL

\* Contents of one size that agree are equal.
LEMMA SameContents ==
  ASSUME FIFOInv, FIFOInv',
         Size' = Size,
         \A k \in 1 .. Size : Contents[k]' = Contents[k]
  PROVE  Contents' = Contents
  BY DEF Contents

LEMMA PushRefines ==
  ASSUME FIFOInv, FIFOInv', PushStore
  PROVE  Queue!Push(item)
  <1>1. C \in Nat /\ C > 1 /\ tail \in Slot /\ head \in Slot /\ item \in Item
    BY FIFOAssumption DEF FIFOInv, PushStore
  <1>2. tail' = (IF tail = C - 1 THEN 0 ELSE tail + 1) /\ tail' # head
    BY <1>1, Forwards DEF FIFOInv, PushStore
  <1>3. Size' = Size + 1 /\ Size < C - 1 /\ Size \in Nat
    <2>1. SizeOK /\ SizeOK' /\ head' = head
      BY SizeNow, SizeNext DEF PushStore
    <2>2. QED
      BY <1>1, <1>2, <2>1, SMT DEF Slot, SizeOK
  <1> ContentsOK /\ ContentsOK'
    BY ContentsNow, ContentsNext
  <1>4. \A k \in 1 .. Size' : At(k)' = At(k)
    BY DEF PushStore, At
  <1>5. ASSUME NEW k \in 1 .. Size
        PROVE  Contents'[k] = Contents[k]
    <2>1. k \in 1 .. Size'
      BY <1>3, SMT
    <2>2. Contents[k] = IF k = 1 /\ cpc = "store" THEN got ELSE array[At(k)]
      BY DEF ContentsOK
    <2>3. Contents'[k] = IF k = 1 /\ cpc' = "store" THEN got' ELSE array'[At(k)']
      BY <2>1 DEF ContentsOK
    <2>4. QED
      BY <1>4, <2>1, <2>2, <2>3 DEF PushStore
  <1>6. ASSUME NEW k, k = Size + 1
        PROVE  Contents'[k] = item
    <2>1. k \in 1 .. Size'
      BY <1>3, <1>6, SMT
    <2>2. At(k)' = tail
      <3>1. head' = head /\ SizeOK
        BY SizeNow DEF PushStore
      <3>2. At(k)' = IF head' + k - 1 < C THEN head' + k - 1 ELSE head' + k - 1 - C
        BY <2>1 DEF ContentsOK
      <3>3. QED
        BY <1>1, <1>6, <3>1, <3>2, SMT DEF SizeOK, Slot
    <2>3. array' = array /\ array[tail] = item
      BY DEF FIFOInv, PushStore
    <2>4. ~(k = 1 /\ cpc' = "store")
      <3>1. CASE cpc = "store"
        <4>1. head # tail
          BY <3>1 DEF FIFOInv
        <4>2. Size # 0
          <5>1. SizeOK
            BY SizeNow
          <5>2. QED
            BY <1>1, <4>1, <5>1, SMT DEF SizeOK, Slot
        <4>3. QED
          BY <1>3, <1>6, <4>2, SMT
      <3>2. QED
        BY <3>1 DEF PushStore
    <2>5. QED
      BY <2>1, <2>2, <2>3, <2>4 DEF ContentsOK
  <1>7. Contents' = Append(Contents, item)
    <2>1. item \in Cell
      BY <1>1 DEF Cell
    <2>2. /\ Append(Contents, item) \in Seq(Cell)
          /\ Len(Append(Contents, item)) = Size + 1
          /\ \A k \in 1 .. Size : Append(Contents, item)[k] = Contents[k]
          /\ Append(Contents, item)[Size + 1] = item
      BY <2>1, AppendProperties DEF ContentsOK
    <2>3. Contents' \in Seq(Cell) /\ Len(Contents') = Size + 1
      BY <1>3 DEF ContentsOK
    <2>4. \A k \in 1 .. Size + 1 : Contents'[k] = Append(Contents, item)[k]
      BY <1>3, <1>5, <1>6, <2>2, SMT
    <2>5. QED
      BY <2>2, <2>3, <2>4, SeqEqual
  <1>8. Len(Contents) = Size
    BY DEF ContentsOK
  <1>9. QED
    BY <1>3, <1>7, <1>8 DEF PushStore, Queue!Push

LEMMA PopRefines ==
  ASSUME FIFOInv, FIFOInv', PopStore
  PROVE  Queue!Pop
  <1>1. C \in Nat /\ C > 1 /\ tail \in Slot /\ head \in Slot /\ head # tail
    BY FIFOAssumption DEF FIFOInv, PopStore
  <1>2. head' = (IF head = C - 1 THEN 0 ELSE head + 1)
    BY <1>1, Forwards DEF PopStore
  <1>3. Size' = Size - 1 /\ Size \in Nat /\ Size > 0
    <2>1. SizeOK /\ SizeOK' /\ tail' = tail
      BY SizeNow, SizeNext DEF PopStore
    <2>2. QED
      BY <1>1, <1>2, <2>1, SMT DEF Slot, SizeOK
  <1> ContentsOK /\ ContentsOK'
    BY ContentsNow, ContentsNext
  <1>4. Contents[1] = got
    <2>1. 1 \in 1 .. Size
      BY <1>3, SMT
    <2>2. QED
      BY <2>1 DEF PopStore, ContentsOK
  <1>5. ASSUME NEW k \in 1 .. Size - 1
        PROVE  At(k)' = At(k + 1)
    <2>1. k + 1 \in 1 .. Size /\ k \in 1 .. Size'
      BY <1>3, SMT
    <2>2. At(k + 1) = IF head + (k + 1) - 1 < C THEN head + (k + 1) - 1
                                                ELSE head + (k + 1) - 1 - C
      BY <2>1 DEF ContentsOK
    <2>3. At(k)' = IF head' + k - 1 < C THEN head' + k - 1 ELSE head' + k - 1 - C
      BY <2>1 DEF ContentsOK
    <2>4. SizeOK
      BY SizeNow
    <2>5. QED
      BY <1>1, <1>2, <1>3, <2>1, <2>2, <2>3, <2>4, SMT DEF Slot, SizeOK
  <1>6. ASSUME NEW k \in 1 .. Size - 1
        PROVE  Contents'[k] = Contents[k + 1]
    <2>1. k + 1 \in 1 .. Size /\ k + 1 # 1 /\ k \in 1 .. Size'
      BY <1>3, SMT
    <2>2. Contents[k + 1] = array[At(k + 1)]
      BY <2>1 DEF ContentsOK
    <2>3. Contents'[k] = array'[At(k)']
      BY <2>1 DEF ContentsOK, PopStore
    <2>4. QED
      BY <1>5, <2>2, <2>3 DEF PopStore
  <1>7. Contents # <<>>
    <2>1. Contents \in Seq(Cell) /\ Len(Contents) = Size
      BY DEF ContentsOK
    <2>2. QED
      BY <1>3, <2>1, SMT
  <1>8. Contents' = Tail(Contents)
    <2>2. /\ Tail(Contents) \in Seq(Cell)
          /\ Len(Tail(Contents)) = Size - 1
          /\ \A k \in 1 .. Size - 1 : Tail(Contents)[k] = Contents[k + 1]
      BY <1>7, HeadTailProperties DEF ContentsOK
    <2>3. Contents' \in Seq(Cell) /\ Len(Contents') = Size - 1
      BY <1>3 DEF ContentsOK
    <2>4. \A k \in 1 .. Size - 1 : Contents'[k] = Tail(Contents)[k]
      BY <1>6, <2>2
    <2>5. QED
      BY <2>2, <2>3, <2>4, SeqEqual
  <1>9. QED
    BY <1>4, <1>7, <1>8 DEF PopStore, Queue!Pop

LEMMA StutterRefines ==
  ASSUME FIFOInv, FIFOInv',
         \/ \E x \in Item : PushLoad(x)
         \/ PushWrite \/ PopLoad \/ PopRead \/ UNCHANGED ringVars
  PROVE  UNCHANGED Queue!vars
  <1> ContentsOK /\ ContentsOK'
    BY ContentsNow, ContentsNext
  <1>1. result' = result /\ head' = head /\ tail' = tail
    BY DEF PushLoad, PushWrite, PopLoad, PopRead, ringVars
  <1>2. Size' = Size
    BY <1>1 DEF Size
  <1>3. \A k \in 1 .. Size : At(k)' = At(k)
    BY <1>1 DEF At
  <1>4. ASSUME NEW k \in 1 .. Size
        PROVE  Contents[k]' = Contents[k]
    <2>0. /\ At(k)' = At(k) /\ At(k) \in Slot /\ At(k) # tail /\ (At(k) = head <=> k = 1)
          /\ Contents[k] = IF k = 1 /\ cpc = "store" THEN got ELSE array[At(k)]
          /\ Contents[k]' = IF k = 1 /\ cpc' = "store" THEN got' ELSE array'[At(k)']
      BY <1>2, <1>3 DEF ContentsOK
    <2>1. CASE (\E x \in Item : PushLoad(x)) \/ PopLoad \/ UNCHANGED ringVars
      BY <2>0, <2>1, SMT DEF PushLoad, PopLoad, ringVars
    <2>2. CASE PushWrite
      BY <2>0, <2>2, SMT DEF PushWrite, FIFOInv
    <2>3. CASE PopRead
      BY <2>0, <2>3, SMT DEF PopRead, FIFOInv
    <2>4. QED
      BY <2>1, <2>2, <2>3
  <1>5. Contents' = Contents
    BY <1>2, <1>4, SameContents
  <1>6. QED
    BY <1>1, <1>5 DEF Queue!vars

\* The ring implements the queue.
THEOREM RingIsQueue == RingSpec => QueueSpec
  <1>1. RingInit => Contents = <<>>
    <2>1. ASSUME RingInit PROVE Size = 0
      BY <2>1, FIFOInit, ContentsNow, SMT DEF RingInit, ContentsOK
    <2>2. QED
      BY <2>1, FIFOInit, ContentsNow, SMT DEF ContentsOK
  <1>2. FIFOInv /\ FIFOInv' /\ [RingNext]_ringVars => [Queue!Next]_(Queue!vars)
    <2>1. ASSUME FIFOInv, FIFOInv', PushStore
          PROVE  Queue!Next
      <3>1. item \in Item
        BY <2>1 DEF FIFOInv, PushStore
      <3>2. QED
        BY <2>1, <3>1, PushRefines DEF Queue!Next
    <2>2. ASSUME FIFOInv, FIFOInv', PopStore
          PROVE  Queue!Next
      BY <2>2, PopRefines DEF Queue!Next
    <2>3. QED
      BY <2>1, <2>2, StutterRefines DEF RingNext
  <1>3. QED
    BY <1>1, <1>2, FIFOInductive, PTL DEF RingSpec, QueueSpec, Queue!Spec
=============================================================================
