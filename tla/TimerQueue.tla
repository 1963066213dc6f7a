----------------------------- MODULE TimerQueue -----------------------------
(***************************************************************************)
(* What the reactor needs of its timers: a set of events from which the    *)
(* ones that fall due are taken in the order of their timeouts.            *)
(***************************************************************************)
EXTENDS Integers

CONSTANT Event

VARIABLES
  queued,     \* the events that wait for their timeout
  timeout,    \* the key of each event
  running,    \* events taken out of the queue whose callback has not ended
  now

vars == <<queued, timeout, running, now>>

Add(e) == queued' = queued \union {e} /\ UNCHANGED <<timeout, running, now>>

Drop(e) == queued' = queued \ {e} /\ UNCHANGED <<timeout, running, now>>

\* A minimal element that is due.
Take(e) ==
  /\ e \in queued
  /\ timeout[e] <= now
  /\ \A f \in queued : timeout[e] <= timeout[f]
  /\ queued' = queued \ {e}
  /\ running' = running \union {e}
  /\ UNCHANGED <<timeout, now>>

\* The callback of an event ends; a periodic event is given its next timeout.
End(e) ==
  /\ e \in running
  /\ e \notin queued
  /\ running' = running \ {e}
  /\ timeout'[e] >= timeout[e]
  /\ timeout' = [timeout EXCEPT ![e] = timeout'[e]]
  /\ UNCHANGED <<queued, now>>

Empty == queued' = {} /\ UNCHANGED <<timeout, running, now>>

Tick == now' \in Nat /\ now' > now /\ UNCHANGED <<queued, timeout, running>>

Next ==
  \/ \E e \in Event : Add(e) \/ Drop(e) \/ Take(e) \/ End(e)
  \/ Empty \/ Tick

Spec == queued = {} /\ running = {} /\ [][Next]_vars
=============================================================================
