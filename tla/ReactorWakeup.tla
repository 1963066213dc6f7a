---------------------------- MODULE ReactorWakeup ---------------------------
(***************************************************************************)
(* How threads hand work to the owner of a reactor and wake it up:         *)
(* Reactor::promise, notify, _carry_on_promises and the notifier's branch  *)
(* of _activate_event (include/dtc/event/reactor.hpp and                   *)
(* src/event/reactor.cpp).                                                 *)
(*                                                                         *)
(* A thread enqueues a closure and then notifies: it tests the flag        *)
(* _notified, sets it and writes to an eventfd.  These are three separate  *)
(* accesses to shared memory, and the owner, woken by the eventfd, drains  *)
(* it and clears the flag in two more, so every interleaving of them is a  *)
(* behaviour here.  Promises the owner makes itself run on the spot and do *)
(* not appear.                                                             *)
(***************************************************************************)
EXTENDS Integers, FiniteSets

CONSTANTS
  Worker,     \* the threads other than the owner
  Promise,    \* the promises they make, each at most once
  Breaking,   \* those made by break_loop
  Awaited,    \* those whose future the caller waits for
  NoPromise

ASSUME WakeupAssumption ==
  /\ Breaking \subseteq Promise
  /\ Awaited \subseteq Promise
  /\ NoPromise \notin Promise

VARIABLES
  made,        \* the promises made so far
  promises,    \* _promises: enqueued and not yet run
  notified,    \* _notified
  eventfd,     \* the counter of the notifier's eventfd
  break_loop,  \* _break_loop
  wpc,         \* where a thread is in promise()
  call,        \* the promise it is making
  opc          \* where the owner is in dispatch()

vars == <<made, promises, notified, eventfd, break_loop, wpc, call, opc>>

WPC == {"out", "test", "set", "write", "return", "get"}
OPC == {"carry", "check", "poll", "drain", "clear", "stopped"}

Init ==
  /\ made = {}
  /\ promises = {}
  /\ notified = FALSE
  /\ eventfd = 0
  /\ break_loop = FALSE
  /\ wpc = [w \in Worker |-> "out"]
  /\ call = [w \in Worker |-> NoPromise]
  /\ opc = "carry"
-----------------------------------------------------------------------------
(* promise() and notify(), called by a thread that is not the owner *)

\* Mutated form of Enqueue: the thread returns without notify().
EnqueueSilently(w, p) ==
  /\ wpc[w] = "out"
  /\ p \in Promise \ made
  /\ made' = made \union {p}
  /\ promises' = promises \union {p}
  /\ wpc' = [wpc EXCEPT ![w] = "return"]
  /\ call' = [call EXCEPT ![w] = p]
  /\ UNCHANGED <<notified, eventfd, break_loop, opc>>

Enqueue(w, p) ==
  /\ wpc[w] = "out"
  /\ p \in Promise \ made
  /\ made' = made \union {p}
  /\ promises' = promises \union {p}
  /\ wpc' = [wpc EXCEPT ![w] = "test"]
  /\ call' = [call EXCEPT ![w] = p]
  /\ UNCHANGED <<notified, eventfd, break_loop, opc>>

NotifyTest(w) ==
  /\ wpc[w] = "test"
  /\ wpc' = [wpc EXCEPT ![w] = IF notified THEN "return" ELSE "set"]
  /\ UNCHANGED <<made, promises, notified, eventfd, break_loop, call, opc>>

NotifySet(w) ==
  /\ wpc[w] = "set"
  /\ notified' = TRUE
  /\ wpc' = [wpc EXCEPT ![w] = "write"]
  /\ UNCHANGED <<made, promises, eventfd, break_loop, call, opc>>

NotifyWrite(w) ==
  /\ wpc[w] = "write"
  /\ eventfd' = eventfd + 1
  /\ wpc' = [wpc EXCEPT ![w] = "return"]
  /\ UNCHANGED <<made, promises, notified, break_loop, call, opc>>

\* promise() returns its future, which the caller drops or waits for.
Return(w) ==
  /\ wpc[w] = "return"
  /\ wpc' = [wpc EXCEPT ![w] = IF call[w] \in Awaited THEN "get" ELSE "out"]
  /\ UNCHANGED <<made, promises, notified, eventfd, break_loop, call, opc>>

Get(w) ==
  /\ wpc[w] = "get"
  /\ call[w] \notin promises
  /\ wpc' = [wpc EXCEPT ![w] = "out"]
  /\ UNCHANGED <<made, promises, notified, eventfd, break_loop, call, opc>>
-----------------------------------------------------------------------------
(* dispatch(), run by the owner *)

\* One iteration of _carry_on_promises.
CarryOn(p) ==
  /\ opc = "carry"
  /\ p \in promises
  /\ promises' = promises \ {p}
  /\ break_loop' = (break_loop \/ p \in Breaking)
  /\ UNCHANGED <<made, notified, eventfd, wpc, call, opc>>

\* Mutated form of CarryOnDone: the loop may end with promises left.
CarryOnSome ==
  /\ opc = "carry"
  /\ opc' = "check"
  /\ UNCHANGED <<made, promises, notified, eventfd, break_loop, wpc, call>>

CarryOnDone ==
  /\ opc = "carry"
  /\ promises = {}
  /\ opc' = "check"
  /\ UNCHANGED <<made, promises, notified, eventfd, break_loop, wpc, call>>

Check ==
  /\ opc = "check"
  /\ opc' = IF break_loop THEN "stopped" ELSE "poll"
  /\ UNCHANGED <<made, promises, notified, eventfd, break_loop, wpc, call>>

\* select returns with the notifier readable, perhaps among other events.
PollNotifier ==
  /\ opc = "poll"
  /\ eventfd > 0
  /\ opc' = "drain"
  /\ UNCHANGED <<made, promises, notified, eventfd, break_loop, wpc, call>>

\* select returns for other reasons, an event or a timeout.
PollOther ==
  /\ opc = "poll"
  /\ opc' = "carry"
  /\ UNCHANGED <<made, promises, notified, eventfd, break_loop, wpc, call>>

\* A read of the eventfd takes the whole counter.
Drain ==
  /\ opc = "drain"
  /\ eventfd > 0
  /\ eventfd' = 0
  /\ UNCHANGED <<made, promises, notified, break_loop, wpc, call, opc>>

DrainDone ==
  /\ opc = "drain"
  /\ eventfd = 0
  /\ opc' = "clear"
  /\ UNCHANGED <<made, promises, notified, eventfd, break_loop, wpc, call>>

Clear ==
  /\ opc = "clear"
  /\ notified' = FALSE
  /\ opc' = "carry"
  /\ UNCHANGED <<made, promises, eventfd, break_loop, wpc, call>>
-----------------------------------------------------------------------------
Notify(w) ==
  NotifyTest(w) \/ NotifySet(w) \/ NotifyWrite(w) \/ Return(w) \/ Get(w)

Dispatch ==
  \/ \E p \in Promise : CarryOn(p)
  \/ CarryOnDone \/ Check \/ PollNotifier \/ Drain \/ DrainDone \/ Clear

Next ==
  \/ \E w \in Worker : \/ \E p \in Promise : Enqueue(w, p)
                       \/ Notify(w)
  \/ Dispatch
  \/ PollOther

Spec == Init /\ [][Next]_vars

\* Threads and the owner keep running.  Nothing obliges a thread to make a
\* promise, and nothing but the notifier obliges select to return.
Fairness ==
  /\ \A w \in Worker : WF_vars(Notify(w))
  /\ WF_vars(Dispatch)

FairSpec == Spec /\ Fairness
-----------------------------------------------------------------------------
(* Properties *)

TypeOK ==
  /\ made \in SUBSET Promise
  /\ promises \in SUBSET made
  /\ notified \in BOOLEAN
  /\ eventfd \in Nat
  /\ break_loop \in BOOLEAN
  /\ wpc \in [Worker -> WPC]
  /\ call \in [Worker -> Promise \union {NoPromise}]
  /\ opc \in OPC

\* No wakeup is lost: an owner that has stopped carrying out promises and goes to
\* sleep while one is queued finds its eventfd readable, or a thread is still on
\* its way through notify().
NoLostWakeup ==
  opc \in {"check", "poll"} /\ promises # {} =>
    \/ eventfd > 0
    \/ \E w \in Worker : wpc[w] \in {"test", "set", "write"}

\* The flag is never stuck: as long as it suppresses notifications, one is due.
FlagHasWriter ==
  notified => \/ eventfd > 0
              \/ \E w \in Worker : wpc[w] = "write"
              \/ opc \in {"drain", "clear"}

\* Every promise is carried out, unless the loop has been broken.
PromiseKept ==
  \A p \in Promise : p \in promises ~> (p \notin promises \/ opc = "stopped")

=============================================================================
