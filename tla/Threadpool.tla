----------------------------- MODULE Threadpool -----------------------------
(***************************************************************************)
(* The thread pool of a reactor, include/dtc/concurrent/threadpool.hpp,    *)
(* and the three ways its owner depends on it: the loop hands callbacks to *)
(* the pool and carries out the promises they make (src/event/             *)
(* reactor.cpp), Master::_try_dequeue waits for futures of its own workers *)
(* (src/kernel/scheduler.cpp), and ~Reactor joins the workers.             *)
(*                                                                         *)
(* A callback may itself wait for the owner: that of the web interface     *)
(* calls cluster_info().get() (src/kernel/master.cpp), a listener calls    *)
(* insert(...).get() (src/kernel/manager.cpp).                             *)
(*                                                                         *)
(* Workers in one state are alike, so they are counted.  The queue holds   *)
(* the kinds of the tasks.  Holding the mutex is one step.                 *)
(***************************************************************************)
EXTENDS Integers, Sequences

CONSTANTS
  Workers,     \* how many threads spawn() started
  Futures,     \* how many futures _try_dequeue waits for: containers of a graph
  MaxTasks,    \* bound: callbacks and tasks of other threads
  MaxAsks      \* bound: how many of the callbacks wait for the owner

ASSUME ThreadpoolAssumption ==
  /\ Workers \in Nat \ {0}
  /\ Futures \in Nat /\ MaxTasks \in Nat /\ MaxAsks \in Nat

VARIABLES
  queue,     \* _task_queue
  num,       \* how many workers are in which state
  signals,   \* calls of _worker_signal.notify_one() still to be made by other threads
  signal,    \* the same of the owner
  opc,       \* where the owner is
  left,      \* tasks of the present loop the owner has yet to enqueue
  tasks,     \* tasks enqueued so far
  asks       \* how many of them wait for the owner

vars == <<queue, num, signals, signal, opc, left, tasks, asks>>

\* A task that is enqueued after shutdown() has begun is "late".
Kinds == {"plain", "ask", "future", "stop", "late"}

\* A worker is about to look at the queue, waits for _worker_signal, runs a task,
\* waits for the owner in one, or has left its loop.
States == {"ready", "waiting", "blocked", "dead"} \union Kinds

OPC == {"loop", "fill", "wait", "stop", "join", "gone"}

Init ==
  /\ queue = <<>>
  /\ num = [s \in States |-> IF s = "ready" THEN Workers ELSE 0]
  /\ signals = 0
  /\ signal = FALSE
  /\ opc = "loop"
  /\ left = 0
  /\ tasks = 0
  /\ asks = 0

Move(from, to) ==
  /\ num[from] > 0
  /\ num' = [num EXCEPT ![from] = @ - 1, ![to] = @ + 1]

\* A task of a kind is in the queue or a worker runs it.
Unfinished(k) == num[k] > 0 \/ \E i \in 1 .. Len(queue) : queue[i] = k
-----------------------------------------------------------------------------
(* async: the task is enqueued under the lock, the signal is sent after it. *)

Enqueue(k) == queue' = Append(queue, k)

\* Any other thread.
Async ==
  /\ opc # "gone"
  /\ tasks < MaxTasks
  /\ tasks' = tasks + 1
  /\ Enqueue(IF opc \in {"stop", "join"} THEN "late" ELSE "plain")
  /\ signals' = signals + 1
  /\ UNCHANGED <<num, signal, opc, left, asks>>

\* notify_one
NotifyOne == IF num["waiting"] > 0 THEN Move("waiting", "ready") ELSE UNCHANGED num

Notify ==
  /\ signals > 0
  /\ signals' = signals - 1
  /\ NotifyOne
  /\ UNCHANGED <<queue, signal, opc, left, tasks, asks>>

\* Mutated form of OwnerNotify: the signal is not sent.
OwnerNotifyNot ==
  /\ signal
  /\ signal' = FALSE
  /\ UNCHANGED <<queue, num, signals, opc, left, tasks, asks>>

OwnerNotify ==
  /\ signal
  /\ signal' = FALSE
  /\ NotifyOne
  /\ UNCHANGED <<queue, signals, opc, left, tasks, asks>>
-----------------------------------------------------------------------------
(* The owner *)

\* The loop activates an event whose callback is of kind k.
Activate(k) ==
  /\ opc = "loop" /\ ~signal
  /\ tasks < MaxTasks
  /\ k = "ask" => asks < MaxAsks
  /\ tasks' = tasks + 1
  /\ asks' = IF k = "ask" THEN asks + 1 ELSE asks
  /\ Enqueue(k)
  /\ signal' = TRUE
  /\ UNCHANGED <<num, signals, opc, left>>

\* It carries out the promise of a worker, which goes on.
CarryOn ==
  /\ opc = "loop" /\ ~signal
  /\ Move("blocked", "plain")
  /\ UNCHANGED <<queue, signals, signal, opc, left, tasks, asks>>

\* _try_dequeue begins to spawn tasks.
StartWait ==
  /\ opc = "loop" /\ ~signal
  /\ opc' = "fill"
  /\ left' = Futures
  /\ UNCHANGED <<queue, num, signals, signal, tasks, asks>>

\* shutdown, called by ~Reactor.
Shutdown ==
  /\ opc = "loop" /\ ~signal
  /\ opc' = "stop"
  /\ left' = Workers
  /\ UNCHANGED <<queue, num, signals, signal, tasks, asks>>

\* An iteration of either loop.
Fill ==
  /\ opc \in {"fill", "stop"} /\ ~signal
  /\ left > 0
  /\ left' = left - 1
  /\ Enqueue(IF opc = "fill" THEN "future" ELSE "stop")
  /\ signal' = TRUE
  /\ UNCHANGED <<num, signals, opc, tasks, asks>>

FillDone ==
  /\ opc \in {"fill", "stop"} /\ ~signal
  /\ left = 0
  /\ opc' = IF opc = "fill" THEN "wait" ELSE "join"
  /\ UNCHANGED <<queue, num, signals, signal, left, tasks, asks>>

\* The futures are ready.
EndWait ==
  /\ opc = "wait"
  /\ ~Unfinished("future")
  /\ opc' = "loop"
  /\ UNCHANGED <<queue, num, signals, signal, left, tasks, asks>>

\* All threads are joined.
Join ==
  /\ opc = "join"
  /\ num["dead"] = Workers
  /\ opc' = "gone"
  /\ UNCHANGED <<queue, num, signals, signal, left, tasks, asks>>
-----------------------------------------------------------------------------
(* The loop of a worker *)

\* Mutated form of Take: the latest task first.
TakeBack ==
  /\ queue # <<>>
  /\ Move("ready", queue[Len(queue)])
  /\ queue' = SubSeq(queue, 1, Len(queue) - 1)
  /\ UNCHANGED <<signals, signal, opc, left, tasks, asks>>

Take ==
  /\ queue # <<>>
  /\ Move("ready", Head(queue))
  /\ queue' = Tail(queue)
  /\ UNCHANGED <<signals, signal, opc, left, tasks, asks>>

Sleep ==
  /\ queue = <<>>
  /\ Move("ready", "waiting")
  /\ UNCHANGED <<queue, signals, signal, opc, left, tasks, asks>>

\* A condition variable may wake up without a signal.
WakeUp ==
  /\ Move("waiting", "ready")
  /\ UNCHANGED <<queue, signals, signal, opc, left, tasks, asks>>

Finish(k) ==
  /\ k \in {"plain", "future", "late"}
  /\ Move(k, "ready")
  /\ UNCHANGED <<queue, signals, signal, opc, left, tasks, asks>>

\* The task makes a promise and calls get() on its future.
Ask ==
  /\ Move("ask", "blocked")
  /\ UNCHANGED <<queue, signals, signal, opc, left, tasks, asks>>

\* Mutated form of Die: the worker goes on after SHUTDOWN.
DieNot ==
  /\ Move("stop", "ready")
  /\ UNCHANGED <<queue, signals, signal, opc, left, tasks, asks>>

Die ==
  /\ Move("stop", "dead")
  /\ UNCHANGED <<queue, signals, signal, opc, left, tasks, asks>>
-----------------------------------------------------------------------------
Owner ==
  \/ OwnerNotify \/ CarryOn \/ Fill \/ FillDone \/ EndWait \/ Join

Next ==
  \/ Async \/ Notify \/ Owner \/ StartWait \/ Shutdown
  \/ \E k \in {"plain", "ask"} : Activate(k)
  \/ Take \/ Sleep \/ WakeUp \/ Ask \/ Die
  \/ \E k \in Kinds : Finish(k)

Spec == Init /\ [][Next]_vars

\* Threads run.  The owner takes promises in their order, so one is not passed over
\* for ever.  Nothing obliges a condition variable to wake up by itself.
Fairness ==
  /\ WF_vars(Owner) /\ SF_vars(CarryOn) /\ WF_vars(Notify)
  /\ WF_vars(Take) /\ WF_vars(Sleep) /\ WF_vars(Ask) /\ WF_vars(Die)
  /\ \A k \in Kinds : WF_vars(Finish(k))

FairSpec == Spec /\ Fairness
-----------------------------------------------------------------------------
(* Properties *)

TypeOK ==
  /\ queue \in Seq(Kinds)
  /\ num \in [States -> Nat]
  /\ signals \in Nat /\ signal \in BOOLEAN
  /\ opc \in OPC
  /\ left \in Nat /\ tasks \in 0 .. MaxTasks /\ asks \in 0 .. MaxAsks

Sent == signals + (IF signal THEN 1 ELSE 0)

\* The pool conserves work: no worker sleeps on tasks in the queue that no other
\* worker, awake or about to be signalled, will look at.  The signal is sent outside
\* the lock, and a worker that finishes a task may take one that another was woken for.
WorkConserving == num["waiting"] > 0 => Len(queue) <= num["ready"] + Sent

\* shutdown() runs every task that was enqueued before it: each worker takes one stop
\* task and no worker takes two.
ShutdownDrains ==
  opc = "gone" => \A i \in 1 .. Len(queue) : queue[i] = "late"

\* The owner comes back from waiting for the futures of its own workers ("Synchronize
\* all tasks"), unless every worker has come to wait for the owner.
WaitReturns == opc = "wait" ~> (opc # "wait" \/ num["blocked"] = Workers)

\* "Make sure all threads are dead before reactor is destroyed": shutdown() returns,
\* unless a worker waits for a promise, which nobody carries out any more.
ShutdownReturns == opc = "join" ~> (opc = "gone" \/ num["blocked"] > 0)

=============================================================================
