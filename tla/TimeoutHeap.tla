---------------------------- MODULE TimeoutHeap -----------------------------
(***************************************************************************)
(* TimeoutEventHeap, the binary heap of the timers of a reactor            *)
(* (src/event/event.cpp), under the use the reactor makes of it            *)
(* (src/event/reactor.cpp).                                                *)
(*                                                                         *)
(* Each event keeps its index in the array (satellite), which has to       *)
(* follow the event when the bubbling moves it.  The keys are the timeouts *)
(* of the events; a worker gives a periodic event its next one when its    *)
(* callback ends.                                                          *)
(***************************************************************************)
EXTENDS Integers, Sequences, FiniteSets, Functions

CONSTANTS
  Event,            \* the timeout and periodic events
  Duration,         \* what a callback adds to _sync_time_point
  MaxTime,          \* bound: the last time
  MaxThaws,         \* bound: how many freezes and thaws are asked for
  ThawInCallback    \* an event is thawed while its callback runs

ASSUME TimeoutHeapAssumption ==
  /\ Duration \in Nat /\ MaxTime \in Nat /\ MaxThaws \in Nat
  /\ ThawInCallback \in BOOLEAN

VARIABLES
  array,       \* _array, a function from 0 .. size - 1
  satellite,   \* Timer::satellite of each event
  timeout,     \* Timer::timeout
  eventset,    \* the timers in _eventset
  made,        \* events that have been inserted
  running,     \* events whose callback is in the thread pool
  ended,       \* events whose promise to be inserted again waits
  now,         \* _sync_time_point
  polling,     \* the owner is in _poll_timeout_events
  thaws

heapVars == <<array, satellite>>
timerVars == <<array, satellite, timeout, eventset, made, running, ended, now,
               polling, thaws>>

Less(e, f) == timeout[e] < timeout[f]

Size(a) == Cardinality(DOMAIN a)
Parent(i) == (i - 1) \div 2
-----------------------------------------------------------------------------
(* Bubbling.  A path is the list of the indices the loop goes through: an  *)
(* element moves from each index to the one before it, and e to the last.  *)

\* Mutated form of UpPath: the loop stops one level early.
UpPathShort(a, idx, e) ==
  IF idx = 0 \/ ~Less(e, a[Parent(idx)]) THEN <<idx>> ELSE <<idx, Parent(idx)>>

\* _bubble_up
UpPath(a, idx, e) ==
  LET up[i \in 0 .. idx] ==
        IF i = 0 THEN <<0>>
        ELSE IF ~Less(e, a[Parent(i)]) THEN <<i>>
        ELSE <<i>> \o up[Parent(i)]
  IN  up[idx]

\* The child _bubble_down looks at: the right one unless it is not there or the left
\* one is less.
MinChild(a, i) ==
  LET right == 2 * (i + 1)
  IN  IF right >= Size(a) \/ Less(a[right - 1], a[right]) THEN right - 1 ELSE right

\* _bubble_down
DownPath(a, idx, e) ==
  LET down[k \in 0 .. Size(a)] ==
        LET i == Size(a) - k   \* counts down, so that the function is well founded
        IN  IF MinChild(a, i) >= Size(a) \/ ~Less(a[MinChild(a, i)], e) THEN <<i>>
            ELSE <<i>> \o down[Size(a) - MinChild(a, i)]
  IN  down[Size(a) - idx]

\* The array after the moves along a path.  A write at the index that was just popped
\* is lost.
Moved(a, path, e) ==
  [i \in DOMAIN a |->
     IF \E k \in DOMAIN path : path[k] = i
       THEN LET k == CHOOSE k \in DOMAIN path : path[k] = i
            IN  IF k = Len(path) THEN e ELSE a[path[k + 1]]
       ELSE a[i]]

\* Mutated form of Placed: the elements that move keep their old index.
PlacedLast(a, path, e) ==
  [f \in Event |-> IF f = e THEN path[Len(path)] ELSE satellite[f]]

\* The satellites after the same moves.
Placed(a, path, e) ==
  [f \in Event |->
     IF f = e THEN path[Len(path)]
     ELSE IF \E k \in 2 .. Len(path) : a[path[k]] = f
       THEN path[(CHOOSE k \in 2 .. Len(path) : a[path[k]] = f) - 1]
       ELSE satellite[f]]

Last(a) == a[Size(a) - 1]
PopBack(a) == Restrict(a, 0 .. Size(a) - 2)
-----------------------------------------------------------------------------
(* The operations of the heap *)

HeapInsert(e) ==
  IF satellite[e] # -1 THEN UNCHANGED heapVars
  ELSE LET a == [i \in 0 .. Size(array) |-> IF i = Size(array) THEN e ELSE array[i]]
           path == UpPath(a, Size(array), e)
       IN  array' = Moved(a, path, e) /\ satellite' = Placed(a, path, e)

\* Mutated form of HeapRemove: the last element only moves down.
HeapRemoveDown(e) ==
  IF satellite[e] = -1 THEN UNCHANGED heapVars
  ELSE LET last == Last(array)
           a == PopBack(array)
           path == DownPath(a, satellite[e], last)
       IN  /\ array' = Moved(a, path, last)
           /\ satellite' = [Placed(a, path, last) EXCEPT ![e] = -1]

\* remove: the last element takes the place of e and moves up or down from there.
HeapRemove(e) ==
  IF satellite[e] = -1 THEN UNCHANGED heapVars
  ELSE LET last == Last(array)
           a == PopBack(array)
           idx == satellite[e]
           path == IF idx # 0 /\ Less(last, a[Parent(idx)])
                     THEN UpPath(a, idx, last) ELSE DownPath(a, idx, last)
       IN  /\ array' = Moved(a, path, last)
           /\ satellite' = [Placed(a, path, last) EXCEPT ![e] = -1]

\* pop
HeapPop ==
  LET a == PopBack(array)
      path == DownPath(a, 0, Last(array))
  IN  /\ array' = Moved(a, path, Last(array))
      /\ satellite' = [Placed(a, path, Last(array)) EXCEPT ![array[0]] = -1]

\* clear
HeapClear ==
  /\ array' = <<>>
  /\ satellite' = [e \in Event |-> IF e \in Range(array) THEN -1 ELSE satellite[e]]
-----------------------------------------------------------------------------
(* The reactor *)

TimerInit ==
  /\ array = <<>>
  /\ satellite = [e \in Event |-> -1]
  /\ timeout \in [Event -> 0 .. MaxTime]
  /\ eventset = {} /\ made = {} /\ running = {} /\ ended = {}
  /\ now = 0
  /\ polling = FALSE
  /\ thaws = 0

\* insert
Insert(e) ==
  /\ ~polling
  /\ e \notin made
  /\ made' = made \union {e}
  /\ eventset' = eventset \union {e}
  /\ HeapInsert(e)
  /\ UNCHANGED <<timeout, running, ended, now, polling, thaws>>

\* _remove, asked for by a thread or by a callback that ended.
Remove(e) ==
  /\ ~polling
  /\ e \in eventset
  /\ eventset' = eventset \ {e}
  /\ HeapRemove(e)
  /\ UNCHANGED <<timeout, made, running, ended, now, polling, thaws>>

\* _freeze
Freeze(e) ==
  /\ ~polling
  /\ thaws < MaxThaws
  /\ e \in eventset
  /\ thaws' = thaws + 1
  /\ HeapRemove(e)
  /\ UNCHANGED <<timeout, eventset, made, running, ended, now, polling>>

\* _thaw
Thaw(e) ==
  /\ ~polling
  /\ thaws < MaxThaws
  /\ e \in eventset
  /\ e \in running \union ended => ThawInCallback
  /\ thaws' = thaws + 1
  /\ HeapInsert(e)
  /\ UNCHANGED <<timeout, eventset, made, running, ended, now, polling>>

\* The promise of a periodic callback that returned DEFAULT.
Reinsert(e) ==
  /\ ~polling
  /\ e \in ended
  /\ ended' = ended \ {e}
  /\ IF e \in eventset THEN HeapInsert(e) ELSE UNCHANGED heapVars
  /\ UNCHANGED <<timeout, eventset, made, running, now, polling, thaws>>

\* Reactor::clear
Clear ==
  /\ ~polling
  /\ eventset # {}
  /\ eventset' = {}
  /\ HeapClear
  /\ UNCHANGED <<timeout, made, running, ended, now, polling, thaws>>

\* dispatch synchronizes the time and polls the timers.
SyncTime ==
  /\ ~polling
  /\ polling' = TRUE
  /\ now' \in now .. MaxTime
  /\ UNCHANGED <<heapVars, timeout, eventset, made, running, ended, thaws>>

\* The heap is empty or its top is not due.
PollEnds == array # <<>> => timeout[array[0]] > now

\* An iteration of _poll_timeout_events.
Poll ==
  /\ polling
  /\ ~PollEnds
  /\ running' = running \union {array[0]}
  /\ HeapPop
  /\ UNCHANGED <<timeout, eventset, made, ended, now, polling, thaws>>

PollDone ==
  /\ polling
  /\ PollEnds
  /\ polling' = FALSE
  /\ UNCHANGED <<heapVars, timeout, eventset, made, running, ended, now, thaws>>

\* A periodic callback returns DEFAULT: the worker writes the timeout.
Default(e) ==
  /\ e \in running
  /\ now + Duration <= MaxTime
  /\ running' = running \ {e}
  /\ timeout' = [timeout EXCEPT ![e] = now + Duration]
  /\ ended' = ended \union {e}
  /\ UNCHANGED <<heapVars, eventset, made, now, polling, thaws>>

\* The callback of a timeout event ends, or one returns REMOVE.  What it asks for is
\* a Remove, which any thread may ask for at any time.
End(e) ==
  /\ e \in running
  /\ running' = running \ {e}
  /\ UNCHANGED <<heapVars, timeout, eventset, made, ended, now, polling, thaws>>

TimerNext ==
  \/ \E e \in Event :
       \/ Insert(e) \/ Remove(e) \/ Freeze(e) \/ Thaw(e) \/ Reinsert(e)
       \/ Default(e) \/ End(e)
  \/ Clear \/ SyncTime \/ Poll \/ PollDone

TimerSpec == TimerInit /\ [][TimerNext]_timerVars
-----------------------------------------------------------------------------
(* Properties *)

\* The satellites invert the array: every removal, wherever in the heap it is and
\* whichever way the last element moves, leaves each timer with its own index.
SatellitesInvert ==
  /\ \A i \in DOMAIN array : satellite[array[i]] = i
  /\ \A e \in Event : satellite[e] # -1 => e \in Range(array)

\* No timer is due before the one above it: what top() and the loop of
\* _poll_timeout_events rely on, after removals from anywhere in the heap too.
HeapOrdered ==
  \A i \in DOMAIN array \ {0} : timeout[array[Parent(i)]] <= timeout[array[i]]

\* The heap implements a queue that the reactor takes timers from in their order.
Queue == INSTANCE TimerQueue WITH queued <- Range(array)
QueueSpec == Queue!Spec
=============================================================================
