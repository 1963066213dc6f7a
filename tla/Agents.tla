------------------------------- MODULE Agents -------------------------------
(***************************************************************************)
(* The agents of a DtCraft cluster: src/kernel/agent.cpp.                  *)
(*                                                                         *)
(* An agent turns each Topology of the master into a task, connects the    *)
(* task's inter-streams with the agents at their other ends, and runs the  *)
(* task in a container once all of them are there.  Two threads of an      *)
(* agent matter: the worker that holds the master's read event (one at a   *)
(* time), which constructs tasks, and the owner of the reactor, which      *)
(* keeps _tasks and _frontiers and waits for containers.                   *)
(*                                                                         *)
(* Of an inter-stream, the agent of the reading end (in) connects to the   *)
(* agent of the writing end (out) and sends a FrontierPacket; that agent   *)
(* matches the packet with its task or, if the task has not come yet,      *)
(* keeps it in _frontiers.                                                 *)
(*                                                                         *)
(* The master's side of the connections is Master; Cluster joins the two.  *)
(***************************************************************************)
EXTENDS Topology, Naturals

CONSTANTS Agent, Graph, GraphOf, NoKey

TasksOf(g) == {t \in Task : GraphOf[t] = g}

\* The task a frontier of stream s has to be matched with: Task::match accepts
\* the one whose extracted topology has s as an out stream.
Owner(s) == ContainerOf[TailOf[s]]

VARIABLES
  m2a, a2m,   \* messages between the master and the agents
  reports,    \* how many TaskInfos have been sent of a task
  aproc,      \* agent process: "new", "up" or "down"
  hosts,      \* runtime.vertex_hosts: the agent each dispatched task went to
  reading,    \* the task an agent's reading worker is constructing
  stage,      \* where a task is in its agent
  frontiers,  \* Hatchery::frontiers of a task, by stream
  sockets,    \* connections to an agent's frontier port, by stream
  packets,    \* those whose FrontierPacket has been written
  orphans,    \* _frontiers of an agent, by stream
  kill,       \* the remove_task(t, true) promise: "none", "pending", "done"
  container,  \* the container process of a task
  waiting     \* the task whose container an agent's owner waits for

taskVars == <<stage, frontiers, kill, container>>
agentVars == <<hosts, reading, sockets, packets, orphans, waiting, taskVars>>
sent == <<a2m, reports>>
vars == <<m2a, sent, aproc, agentVars>>

\* The stages of a task:
\*   none          not received
\*   constructing  Task::Task runs in the reading worker
\*   constructed   the promise of insert_task is queued
\*   hatchery, executor   in _tasks
\*   removing      out of _tasks, the owner waits for its container
\*   gone          reported
\* A container is "none", "running", "closed" (the process has closed its channel but
\* still runs), or has exited, "ok" or "bad".

\* The TaskInfo an agent writes to the master when a task leaves it.
Send(t, e) ==
  /\ a2m' = a2m \union {[type |-> "TaskInfo", agent |-> hosts[t], task |-> t,
                          error |-> e]}
  /\ reports' = [reports EXCEPT ![t] = @ + 1]

\* Mutated form of InTasks: a task that has left is still found.
InTasksForEver(t) == stage[t] # "none"

\* The task is in _tasks.
InTasks(t) == stage[t] \in {"hatchery", "executor"}

Exited(t) == container[t] \in {"ok", "bad"}

\* No task has come.  The messages and the processes are the cluster's.
Init ==
  /\ reports = [t \in Task |-> 0]
  /\ hosts = [t \in Task |-> NoKey]
  /\ reading = [a \in Agent |-> NoKey]
  /\ stage = [t \in Task |-> "none"]
  /\ frontiers = [t \in Task |-> {}]
  /\ sockets = {}
  /\ packets = {}
  /\ orphans = [a \in Agent |-> {}]
  /\ kill = [t \in Task |-> "none"]
  /\ container = [t \in Task |-> "none"]
  /\ waiting = [a \in Agent |-> NoKey]
-----------------------------------------------------------------------------
(* The reading worker *)

\* insert_task, first part: the constructor starts.
ReadTopology(m) ==
  /\ m \in m2a
  /\ m.type = "Topology"
  /\ reading[m.agent] = NoKey
  /\ m2a' = m2a \ {m}
  /\ reading' = [reading EXCEPT ![m.agent] = m.task]
  /\ stage' = [stage EXCEPT ![m.task] = "constructing"]
  /\ UNCHANGED <<sent, aproc, hosts, frontiers, sockets, packets, orphans, kill,
                 container, waiting>>

\* make_socket_client to the frontier port of the agent at the writing end.
Connect(t, s) ==
  /\ stage[t] = "constructing"
  /\ s \in In(t) \ frontiers[t]
  /\ sockets \intersect In(t) \subseteq packets
  /\ aproc[hosts[Owner(s)]] = "up"
  /\ sockets' = sockets \union {s}
  /\ UNCHANGED <<m2a, sent, aproc, hosts, reading, packets, orphans, waiting,
                 taskVars>>


\* The FrontierPacket is flushed and the frontier kept in the hatchery.
SendPacket(t, s) ==
  /\ stage[t] = "constructing"
  /\ s \in (In(t) \intersect sockets) \ frontiers[t]
  /\ packets' = packets \union {s}
  /\ frontiers' = [frontiers EXCEPT ![t] = @ \union {s}]
  /\ UNCHANGED <<m2a, sent, aproc, hosts, reading, stage, sockets, orphans, kill,
                 container, waiting>>

\* The constructor is done: the promise that runs _insert_task is queued.
HandOver(t) ==
  /\ stage[t] = "constructing"
  /\ In(t) \subseteq frontiers[t]
  /\ stage' = [stage EXCEPT ![t] = "constructed"]
  /\ reading' = [reading EXCEPT ![hosts[t]] = NoKey]
  /\ UNCHANGED <<m2a, sent, aproc, hosts, frontiers, sockets, packets, orphans,
                 kill, container, waiting>>

\* A KillTask is read: the promise of remove_task(t, true) is queued.
ReadKill(m) ==
  /\ m \in m2a
  /\ m.type = "KillTask"
  /\ [m EXCEPT !.type = "Topology"] \notin m2a
  /\ reading[m.agent] = NoKey
  /\ m2a' = m2a \ {m}
  /\ kill' = [kill EXCEPT ![m.task] = "pending"]
  /\ UNCHANGED <<sent, aproc, hosts, reading, stage, frontiers, sockets, packets,
                 orphans, container, waiting>>

\* The constructor throws (a connection is refused): insert_task reports the task
\* from the worker, and the connections it had made close with it.
ConstructFail(t) ==
  /\ stage[t] = "constructing"
  /\ sockets \intersect In(t) \subseteq packets
  /\ stage' = [stage EXCEPT ![t] = "gone"]
  /\ reading' = [reading EXCEPT ![hosts[t]] = NoKey]
  /\ Send(t, TRUE)
  /\ UNCHANGED <<m2a, aproc, hosts, frontiers, sockets, packets, orphans, kill,
                 container, waiting>>
-----------------------------------------------------------------------------
(* The owner.  It runs one promise at a time, and none while it waits. *)

OwnerFree(a) == aproc[a] = "up" /\ waiting[a] = NoKey

\* Mutated form of Ready: one frontier may be missing.
ReadyEarly(t, F) == Cardinality(F) + 1 >= num_inter_streams(extract(t))

\* Task::ready
Ready(t, F) == Cardinality(F) = num_inter_streams(extract(t))

\* A task that now has the frontiers F stays in the hatchery until it is ready.
\* Then it is deployed, or the deployment throws and the task is removed (its
\* container, if there is one, killed and reaped) and reported with an error.
Settle(t, F) ==
  /\ frontiers' = [frontiers EXCEPT ![t] = F]
  /\ \/ /\ ~Ready(t, F)
        /\ stage' = [stage EXCEPT ![t] = "hatchery"]
        /\ UNCHANGED <<container, sent>>
     \/ /\ Ready(t, F)
        /\ stage' = [stage EXCEPT ![t] = "executor"]
        /\ container' = [container EXCEPT ![t] = "running"]
        /\ UNCHANGED sent
     \/ /\ Ready(t, F)
        /\ stage' = [stage EXCEPT ![t] = "gone"]
        /\ Send(t, TRUE)
        /\ UNCHANGED container

\* Mutated form of InsertTask: the early frontiers are not spliced.
InsertTaskUnspliced(t) ==
  /\ stage[t] = "constructed"
  /\ OwnerFree(hosts[t])
  /\ Settle(t, frontiers[t])
  /\ UNCHANGED <<m2a, aproc, hosts, reading, sockets, packets, orphans, kill,
                 waiting>>

\* _insert_task: splice the frontiers that came early.
InsertTask(t) ==
  LET a == hosts[t]
      early == orphans[a] \intersect Out(t)
  IN  /\ stage[t] = "constructed"
      /\ OwnerFree(a)
      /\ orphans' = [orphans EXCEPT ![a] = @ \ early]
      /\ Settle(t, frontiers[t] \union early)
      /\ UNCHANGED <<m2a, aproc, hosts, reading, sockets, packets, kill, waiting>>

\* A worker reads the packet of a new connection and the owner runs
\* _insert_frontier.  For a task that is already an executor std::get would throw:
\* FrontierFindsHatchery shows that it never comes to that.
InsertFrontier(s) ==
  LET t == Owner(s)
      a == hosts[t]
  IN  /\ s \in packets
      /\ OwnerFree(a)
      /\ sockets' = sockets \ {s}
      /\ packets' = packets \ {s}
      /\ \/ /\ ~InTasks(t)
            /\ orphans' = [orphans EXCEPT ![a] = @ \union {s}]
            /\ UNCHANGED <<frontiers, stage, container, sent>>
         \/ /\ stage[t] = "hatchery"
            /\ Settle(t, frontiers[t] \union {s})
            /\ UNCHANGED orphans
      /\ UNCHANGED <<m2a, aproc, hosts, reading, kill, waiting>>

\* remove_task(t, true).  A hatchery reports -1; a container is killed and reaped,
\* and its status is that of the kill unless it had already exited.
KillTask(t) ==
  /\ kill[t] = "pending"
  /\ stage[t] # "constructed"
  /\ OwnerFree(hosts[t])
  /\ kill' = [kill EXCEPT ![t] = "done"]
  /\ IF InTasks(t)
       THEN /\ stage' = [stage EXCEPT ![t] = "gone"]
            /\ container' = [container EXCEPT ![t] = IF @ \in {"running", "closed"}
                                                       THEN "bad" ELSE @]
            /\ Send(t, container[t] # "ok")
       ELSE UNCHANGED <<stage, container, sent>>
  /\ UNCHANGED <<m2a, aproc, hosts, reading, frontiers, sockets, packets,
                 orphans, waiting>>

\* Mutated form of RemoveTask: the task is reported before its process is reaped.
RemoveTaskReports(t) ==
  LET a == hosts[t]
  IN  /\ stage[t] = "executor"
      /\ container[t] # "running"
      /\ OwnerFree(a)
      /\ stage' = [stage EXCEPT ![t] = "removing"]
      /\ waiting' = [waiting EXCEPT ![a] = t]
      /\ Send(t, FALSE)
      /\ UNCHANGED <<m2a, aproc, hosts, reading, frontiers, sockets, packets,
                     orphans, kill, container>>

\* The channel to the container breaks: remove_task(t, false).  The owner takes
\* the task out of _tasks and waits for the process.
RemoveTask(t) ==
  LET a == hosts[t]
  IN  /\ stage[t] = "executor"
      /\ container[t] # "running"
      /\ OwnerFree(a)
      /\ stage' = [stage EXCEPT ![t] = "removing"]
      /\ waiting' = [waiting EXCEPT ![a] = t]
      /\ UNCHANGED <<m2a, sent, aproc, hosts, reading, frontiers, sockets, packets,
                     orphans, kill, container>>

\* Container::wait returns and the task is reported.
Reap(t) ==
  /\ stage[t] = "removing"
  /\ Exited(t)
  /\ stage' = [stage EXCEPT ![t] = "gone"]
  /\ waiting' = [waiting EXCEPT ![hosts[t]] = NoKey]
  /\ Send(t, container[t] = "bad")
  /\ UNCHANGED <<m2a, aproc, hosts, reading, frontiers, sockets, packets, orphans,
                 kill, container>>
-----------------------------------------------------------------------------
(* Containers and failures *)

\* The executor closes its channel on the way out, then exits; it may also crash.
ContainerClose(t) ==
  /\ container[t] = "running"
  /\ container' = [container EXCEPT ![t] = "closed"]
  /\ UNCHANGED <<m2a, sent, aproc, hosts, reading, stage, frontiers, sockets,
                 packets, orphans, kill, waiting>>

ContainerExit(t, c) ==
  /\ container[t] \in {"running", "closed"}
  /\ c \in {"ok", "bad"}
  /\ container' = [container EXCEPT ![t] = c]
  /\ UNCHANGED <<m2a, sent, aproc, hosts, reading, stage, frontiers, sockets,
                 packets, orphans, kill, waiting>>

\* An agent process dies, and with it its connections; its containers lose their
\* channel and exit.
Die(a) ==
  LET mine == {t \in Task : hosts[t] = a /\ stage[t] # "none"}
  IN  /\ aproc' = [aproc EXCEPT ![a] = "down"]
      /\ m2a' = {m \in m2a : m.agent # a}
      /\ stage' = [t \in Task |-> IF t \in mine THEN "gone" ELSE stage[t]]
      /\ container' = [t \in Task |-> IF t \in mine /\ container[t] # "none"
                                        THEN "bad" ELSE container[t]]
      /\ reading' = [reading EXCEPT ![a] = NoKey]
      /\ waiting' = [waiting EXCEPT ![a] = NoKey]
      /\ orphans' = [orphans EXCEPT ![a] = {}]
      /\ sockets' = {s \in sockets : hosts[Owner(s)] # a}
      /\ packets' = {s \in packets : hosts[Owner(s)] # a}
      /\ UNCHANGED <<sent, hosts, frontiers, kill>>

AgentDown(a) ==
  /\ aproc[a] = "up"
  /\ Die(a)

\* A connection whose peer died before it wrote the packet: Device::purge throws
\* in the worker of the frontier's read event, where nothing catches it.
BrokenFrontier(s) ==
  /\ s \in sockets \ packets
  /\ aproc[hosts[ContainerOf[HeadOf[s]]]] = "down"
  /\ Die(hosts[Owner(s)])
-----------------------------------------------------------------------------
ReaderStep ==
  \/ \E m \in m2a : ReadTopology(m) \/ ReadKill(m)
  \/ \E t \in Task : HandOver(t) \/ ConstructFail(t)
  \/ \E t \in Task, s \in Stream : Connect(t, s) \/ SendPacket(t, s)

OwnerStep ==
  \/ \E t \in Task : InsertTask(t) \/ KillTask(t) \/ RemoveTask(t) \/ Reap(t)
  \/ \E s \in Stream : InsertFrontier(s)

ContainerStep ==
  \E t \in Task : ContainerClose(t) \/ \E c \in {"ok", "bad"} : ContainerExit(t, c)

Failure ==
  \/ \E a \in Agent : AgentDown(a)
  \/ \E s \in Stream : BrokenFrontier(s)

Next == ReaderStep \/ OwnerStep \/ ContainerStep \/ Failure

\* What has to go on: the threads of an agent run, and a container that has closed its
\* channel exits.  A container may run for ever.
Progress ==
  \/ ReaderStep \/ OwnerStep
  \/ \E t \in Task, c \in {"ok", "bad"} : container[t] = "closed" /\ ContainerExit(t, c)
-----------------------------------------------------------------------------
(* Properties *)

\* No frontier ever arrives for a task that already runs: std::get<Hatchery> in
\* _insert_frontier would throw out of the event loop.
FrontierFindsHatchery ==
  \A s \in sockets : stage[Owner(s)] \notin {"executor", "removing"}

\* A task is run only with all of its inter-streams connected, each of them also
\* held by the task at the other end (Task::ready and _deploy).
DeployedConnected ==
  \A t \in Task : stage[t] \in {"executor", "removing"} =>
    /\ frontiers[t] = In(t) \union Out(t)
    /\ \A s \in Out(t) : s \in frontiers[ContainerOf[HeadOf[s]]]

\* A task is reported exactly once, when it leaves its agent, however its end, its
\* kill and its failures race (_remove_task and the handler of insert_task).
ReportedOnce ==
  \A t \in Task :
    /\ reports[t] <= 1
    /\ reports[t] = 1 => stage[t] = "gone"
    /\ stage[t] = "gone" /\ aproc[hosts[t]] = "up" => reports[t] = 1

\* No rendezvous deadlock: the tasks of a dispatched graph all get deployed unless
\* one of them ends first or an agent is lost, even if their streams form a cycle.
Rendezvous ==
  []<>(\A t \in Task : hosts[t] # NoKey =>
         \/ stage[t] \in {"executor", "removing"}
         \/ \E x \in TasksOf(GraphOf[t]) : stage[x] = "gone"
         \/ \E a \in Agent : aproc[a] = "down")
=============================================================================
