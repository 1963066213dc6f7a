------------------------------- MODULE Reactor ------------------------------
(***************************************************************************)
(* The life of the events of a reactor: src/event/reactor.cpp and          *)
(* include/dtc/event/reactor.hpp.                                          *)
(*                                                                         *)
(* An event that is in the reactor (eventset) is polled, or it is in its   *)
(* callback on a worker, or on its way back.  The owner alone changes      *)
(* these sets.  Other threads, the callbacks among them, ask it to by      *)
(* promises, so a callback that ends, a removal, a freeze and a thaw of    *)
(* the same event take effect in any order.                                *)
(*                                                                         *)
(* How a promise reaches the owner is the subject of ReactorWakeup.  Here  *)
(* promises wait in a bag: the queue keeps the order of each thread only,  *)
(* and nothing below depends on it.  Which timers are due is left open.    *)
(***************************************************************************)
EXTENDS Integers, FiniteSets

CONSTANTS
  Event,       \* every event is inserted at most once: insert constructs it
  Kind,        \* Event::type
  Threshold,   \* _threshold
  MaxCalls     \* bound: how many removals, freezes and thaws are asked for

ASSUME ReactorAssumption ==
  /\ Kind \in [Event -> {"READ", "WRITE", "TIMEOUT", "PERIODIC"}]
  /\ Threshold \in Nat
  /\ MaxCalls \in Nat

VARIABLES
  made,       \* events constructed so far
  eventset,   \* _eventset, which owns the events
  polled,     \* READ and WRITE events in _demux, timers in _timeoutpq: bare pointers
  active,     \* how many callbacks of an event are in the thread pool
  asked,      \* promises of insert, remove, freeze and thaw not yet carried out
  reinsert,   \* promises of callbacks that ended to poll their event again
  calls,      \* removals, freezes and thaws asked for so far
  frozen,     \* events whose last _freeze is not followed by a _thaw
  thawed,     \* events that have been thawed
  notifier,   \* _notifier is in _demux
  opc         \* where the owner is: "out" of dispatch(), or in its loop

vars == <<made, eventset, polled, active, asked, reinsert, calls, frozen, thawed,
          notifier, opc>>

Op == {"insert", "remove", "freeze", "thaw"}
OPC == {"out", "carry", "check", "select", "io", "timeouts"}

Timer(e) == Kind[e] \in {"TIMEOUT", "PERIODIC"}

Init ==
  /\ made = {}
  /\ eventset = {}
  /\ polled = {}
  /\ active = [e \in Event |-> 0]
  /\ asked = [o \in Op |-> [e \in Event |-> 0]]
  /\ reinsert = [e \in Event |-> 0]
  /\ calls = 0
  /\ frozen = {}
  /\ thawed = {}
  /\ notifier = TRUE
  /\ opc = "out"
-----------------------------------------------------------------------------
(* What the owner does with a request *)

\* insert: a WRITE event waits to be thawed.
InsertEvent(e) ==
  /\ eventset' = eventset \union {e}
  /\ polled' = IF Kind[e] = "WRITE" THEN polled ELSE polled \union {e}
  /\ UNCHANGED <<frozen, thawed>>

\* _remove
RemoveEvent(e) ==
  /\ eventset' = eventset \ {e}
  /\ polled' = IF e \in eventset THEN polled \ {e} ELSE polled
  /\ UNCHANGED <<frozen, thawed>>

\* _freeze
FreezeEvent(e) ==
  /\ IF e \in eventset
       THEN polled' = polled \ {e} /\ frozen' = frozen \union {e}
       ELSE UNCHANGED <<polled, frozen>>
  /\ UNCHANGED <<eventset, thawed>>

\* _thaw
ThawEvent(e) ==
  /\ IF e \in eventset
       THEN /\ polled' = polled \union {e}
            /\ frozen' = frozen \ {e}
            /\ thawed' = thawed \union {e}
       ELSE UNCHANGED <<polled, frozen, thawed>>
  /\ UNCHANGED eventset

Apply(o, e) ==
  \/ o = "insert" /\ InsertEvent(e)
  \/ o = "remove" /\ RemoveEvent(e)
  \/ o = "freeze" /\ FreezeEvent(e)
  \/ o = "thaw" /\ ThawEvent(e)

\* A request that can be made: insert constructs a new event, the others are
\* about an event that was constructed.
Call(o, e) ==
  \/ /\ o = "insert"
     /\ e \notin made
     /\ made' = made \union {e}
     /\ UNCHANGED calls
  \/ /\ o # "insert"
     /\ e \in made
     /\ calls < MaxCalls
     /\ calls' = calls + 1
     /\ UNCHANGED made
-----------------------------------------------------------------------------
(* Requests *)

\* The owner, outside dispatch() or in a promise it carries on: a promise of its own
\* runs on the spot.
OwnerCall(o, e) ==
  /\ opc \in {"out", "carry"}
  /\ Call(o, e)
  /\ Apply(o, e)
  /\ UNCHANGED <<active, asked, reinsert, notifier, opc>>

\* Any other thread, at any time.
ThreadCall(o, e) ==
  /\ Call(o, e)
  /\ asked' = [asked EXCEPT ![o][e] = @ + 1]
  /\ UNCHANGED <<eventset, polled, active, reinsert, frozen, thawed, notifier,
                 opc>>

\* clear(), which the owner calls outside dispatch().  It empties _demux, of the
\* notifier too, and nothing puts that back.
Clear ==
  /\ opc = "out"
  /\ eventset' = {}
  /\ polled' = {}
  /\ notifier' = FALSE
  /\ UNCHANGED <<made, active, asked, reinsert, calls, frozen, thawed, opc>>
-----------------------------------------------------------------------------
(* dispatch(), run by the owner *)

StartDispatch ==
  /\ opc = "out"
  /\ opc' = "carry"
  /\ UNCHANGED <<made, eventset, polled, active, asked, reinsert, calls, frozen,
                 thawed, notifier>>

\* One iteration of _carry_on_promises, for a request.
CarryOn(o, e) ==
  /\ opc = "carry"
  /\ asked[o][e] > 0
  /\ asked' = [asked EXCEPT ![o][e] = @ - 1]
  /\ Apply(o, e)
  /\ UNCHANGED <<made, active, reinsert, calls, notifier, opc>>

\* Mutated form of Reinsert: an event that has been removed is polled again.
ReinsertAlways(e) ==
  /\ opc = "carry"
  /\ reinsert[e] > 0
  /\ reinsert' = [reinsert EXCEPT ![e] = @ - 1]
  /\ polled' = polled \union {e}
  /\ UNCHANGED <<made, eventset, active, asked, calls, frozen, thawed, notifier,
                 opc>>

\* The same for the promise of a callback that has ended.
Reinsert(e) ==
  /\ opc = "carry"
  /\ reinsert[e] > 0
  /\ reinsert' = [reinsert EXCEPT ![e] = @ - 1]
  /\ polled' = IF e \in eventset THEN polled \union {e} ELSE polled
  /\ UNCHANGED <<made, eventset, active, asked, calls, frozen, thawed, notifier,
                 opc>>

\* _promises is not empty.
Promised ==
  \E e \in Event : reinsert[e] > 0 \/ \E o \in Op : asked[o][e] > 0

CarryOnDone ==
  /\ opc = "carry"
  /\ ~Promised
  /\ opc' = "check"
  /\ UNCHANGED <<made, eventset, polled, active, asked, reinsert, calls, frozen,
                 thawed, notifier>>

\* The loop ends at the threshold.
Stop ==
  /\ opc = "check"
  /\ Cardinality(eventset) <= Threshold
  /\ opc' = "out"
  /\ UNCHANGED <<made, eventset, polled, active, asked, reinsert, calls, frozen,
                 thawed, notifier>>

\* It may also end because break_loop() was called or break_loop_on holds.
BreakLoop ==
  /\ opc = "check"
  /\ opc' = "out"
  /\ UNCHANGED <<made, eventset, polled, active, asked, reinsert, calls, frozen,
                 thawed, notifier>>

Continue ==
  /\ opc = "check"
  /\ Cardinality(eventset) > Threshold
  /\ opc' = "select"
  /\ UNCHANGED <<made, eventset, polled, active, asked, reinsert, calls, frozen,
                 thawed, notifier>>

\* The select of Select::_poll returns: something is ready or time is up.
SelectReturns ==
  /\ opc = "select"
  /\ opc' = "io"
  /\ UNCHANGED <<made, eventset, polled, active, asked, reinsert, calls, frozen,
                 thawed, notifier>>

\* Mutated form of Activate: the event stays where it is polled.
ActivateInPlace(e) ==
  /\ e \in polled
  /\ active' = [active EXCEPT ![e] = @ + 1]
  /\ UNCHANGED <<made, eventset, polled, asked, reinsert, calls, frozen, thawed,
                 notifier, opc>>

\* _activate_event, for an event that _poll_io_events finds ready or that
\* _poll_timeout_events pops: its callback goes to the thread pool.
Activate(e) ==
  /\ e \in polled
  /\ polled' = polled \ {e}
  /\ active' = [active EXCEPT ![e] = @ + 1]
  /\ UNCHANGED <<made, eventset, asked, reinsert, calls, frozen, thawed,
                 notifier, opc>>

PollIO(e) == opc = "io" /\ ~Timer(e) /\ Activate(e)

PollTimeout(e) == opc = "timeouts" /\ Timer(e) /\ Activate(e)

PollDone ==
  /\ opc \in {"io", "timeouts"}
  /\ opc' = IF opc = "io" THEN "timeouts" ELSE "carry"
  /\ UNCHANGED <<made, eventset, polled, active, asked, reinsert, calls, frozen,
                 thawed, notifier>>
-----------------------------------------------------------------------------
(* The thread pool *)

\* Mutated form of Default: a callback that ends is forgotten.
DefaultForgets(e) ==
  /\ active[e] > 0
  /\ Kind[e] # "TIMEOUT"
  /\ active' = [active EXCEPT ![e] = @ - 1]
  /\ UNCHANGED <<made, eventset, polled, asked, reinsert, calls, frozen, thawed,
                 notifier, opc>>

\* A callback returns DEFAULT: the event is to be polled again, but for a WRITE
\* event, which waits for the next thaw.
Default(e) ==
  /\ active[e] > 0
  /\ Kind[e] # "TIMEOUT"
  /\ active' = [active EXCEPT ![e] = @ - 1]
  /\ reinsert' = IF Kind[e] = "WRITE" THEN reinsert
                                       ELSE [reinsert EXCEPT ![e] = @ + 1]
  /\ UNCHANGED <<made, eventset, polled, asked, calls, frozen, thawed, notifier,
                 opc>>

\* Mutated form of Remove: a timeout event is not removed after its callback.
RemoveForgets(e) ==
  /\ active[e] > 0
  /\ active' = [active EXCEPT ![e] = @ - 1]
  /\ asked' = IF Kind[e] = "TIMEOUT" THEN asked
                                      ELSE [asked EXCEPT !["remove"][e] = @ + 1]
  /\ UNCHANGED <<made, eventset, polled, reinsert, calls, frozen, thawed,
                 notifier, opc>>

\* A callback returns REMOVE, or was that of a timeout.
Remove(e) ==
  /\ active[e] > 0
  /\ active' = [active EXCEPT ![e] = @ - 1]
  /\ asked' = [asked EXCEPT !["remove"][e] = @ + 1]
  /\ UNCHANGED <<made, eventset, polled, reinsert, calls, frozen, thawed,
                 notifier, opc>>
-----------------------------------------------------------------------------
Loop ==
  \/ \E e \in Event : Reinsert(e) \/ \E o \in Op : CarryOn(o, e)
  \/ CarryOnDone \/ Stop \/ Continue \/ SelectReturns \/ PollDone

Poll(e) == PollIO(e) \/ PollTimeout(e)

Callback(e) == Default(e) \/ Remove(e)

Request ==
  \/ \E o \in Op, e \in Event : OwnerCall(o, e) \/ ThreadCall(o, e)
  \/ Clear \/ StartDispatch \/ BreakLoop

Next == Loop \/ Request \/ \E e \in Event : Poll(e) \/ Callback(e)

Spec == Init /\ [][Next]_vars

\* What obliges Select::_poll to return: a notification of a promise, a timer, or
\* having no file descriptor to wait for.
Wakes ==
  \/ notifier /\ Promised
  \/ \E e \in polled : Timer(e)
  \/ ~notifier /\ \A e \in polled : Timer(e)

\* The owner goes round its loop, callbacks end, and a timer that stays in the
\* heap falls due.  I/O need never be ready.
Fairness ==
  /\ WF_vars((opc = "select" => Wakes) /\ Loop)
  /\ \A e \in Event : WF_vars(Callback(e)) /\ SF_vars(PollTimeout(e))

FairSpec == Spec /\ Fairness
-----------------------------------------------------------------------------
(* Properties *)

TypeOK ==
  /\ made \in SUBSET Event
  /\ eventset \in SUBSET made
  /\ polled \in SUBSET Event
  /\ active \in [Event -> Nat]
  /\ asked \in [Op -> [Event -> Nat]]
  /\ reinsert \in [Event -> Nat]
  /\ calls \in 0 .. MaxCalls
  /\ frozen \in SUBSET Event
  /\ thawed \in SUBSET Event
  /\ notifier \in BOOLEAN
  /\ opc \in OPC

\* The demultiplexer and the timer heap hold bare pointers: what they point to is
\* always an event the reactor owns, however removals and ending callbacks race.
PolledAlive == polled \subseteq eventset

\* A callback never runs twice at a time, nor does a worker's promise poll an
\* event that is already polled or running, unless the event was thawed.
OneCallback ==
  \A e \in Event \ thawed :
    /\ active[e] + reinsert[e] <= 1
    /\ e \in polled => active[e] + reinsert[e] = 0

\* What the cookbook says of every event: "When an event is in the context of its
\* callback, the reactor will not poll it in the subsequent loops."  _activate_event takes
\* the event out of the demultiplexer and the heap; _thaw does not ask for a callback.
UnpolledInCallback == \A e \in polled : active[e] = 0

\* The reactor forgets no event: one it owns and nobody froze is polled, in its
\* callback, or on its way back or out.  (A WRITE event rests between thaws.)
NeverForgotten ==
  \A e \in eventset : Kind[e] # "WRITE" /\ e \notin frozen =>
    \/ e \in polled
    \/ active[e] > 0
    \/ reinsert[e] > 0
    \/ asked["remove"][e] > 0

\* A timeout event leaves the reactor, unless it is frozen, the loop ends or the
\* owner cannot be woken.
TimeoutLeaves ==
  \A e \in Event : Kind[e] = "TIMEOUT" =>
    (e \in eventset ~>
       (e \notin eventset \/ e \in frozen \/ opc = "out" \/ ~notifier))
=============================================================================
