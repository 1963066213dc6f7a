------------------------------- MODULE Cluster ------------------------------
(***************************************************************************)
(* A whole cluster: the master and its scheduler (Master) with the agents  *)
(* themselves (Agents) at the other ends of its connections, instead of    *)
(* the promise Master makes about them.  The two components share the      *)
(* messages m2a and a2m and the life of the agent processes aproc; every   *)
(* step is a step of one of them.                                          *)
(*                                                                         *)
(* The refinement Cluster => Master shows that the agents keep that        *)
(* promise, so that what is shown of Master holds of the whole.            *)
(***************************************************************************)
EXTENDS Topology, Naturals, Sequences

CONSTANTS Agent, Graph, GraphOf, Demand, Capacity, Load, NoKey

\* Streams stay inside a graph.
ASSUME ClusterAssumption ==
  /\ GraphOf \in [Task -> Graph]
  /\ NoKey \notin Agent \union Task
  /\ IsFiniteSet(Stream)
  /\ \A s \in Stream :
       GraphOf[ContainerOf[TailOf[s]]] = GraphOf[ContainerOf[HeadOf[s]]]

VARIABLES
  \* the master, its owner thread, its connections, as in Master
  agents, known, resource, released, tasks, graphs, topology, placement, outcome,
  queue, pc, cur, c2a, c2m, m2c, cproc,
  \* shared
  m2a, a2m, aproc,
  \* the agents, as in Agents
  reports, hosts, reading, stage, frontiers, sockets, packets, orphans, kill,
  container, waiting

masterVars == <<agents, known, resource, released, tasks, graphs, topology,
                placement, outcome, queue, pc, cur, c2a, c2m, m2c, cproc>>
agentVars == <<reports, hosts, reading, stage, frontiers, sockets, packets,
               orphans, kill, container, waiting>>
vars == <<masterVars, m2a, a2m, aproc, agentVars>>

\* What the master may assume of an agent: the tasks it has received and not yet
\* reported, and those it has been told to kill.
Held ==
  [a \in Agent |-> {t \in Task : hosts[t] = a /\ stage[t] \notin {"none", "gone"}}]
Doomed == {t \in Task : kill[t] # "none"}

M == INSTANCE Master WITH held <- Held, doomed <- Doomed
A == INSTANCE Agents

\* The constants the master is given are those of Master.
ASSUME MasterAssumption == M!ConstantsAssumption /\ M!LoadAssumption

Init == A!Init /\ M!Init

\* The topologies _try_dequeue writes carry the hosts of all vertices.
Dispatch ==
  /\ hosts' = [t \in Task |-> IF GraphOf[t] = cur THEN c2a[t] ELSE hosts[t]]
  /\ UNCHANGED <<reports, reading, stage, frontiers, sockets, packets, orphans,
                 kill, container, waiting>>
  /\ M!Dispatch

MasterStep ==
  \/ /\ UNCHANGED agentVars
     /\ \/ M!Handle
        \/ \E t \in Task : \/ M!TryEnqueue(t) \/ M!RestoreResource(t)
                           \/ M!TryDequeue(t) \/ M!RestoreReleased(t)
        \/ M!TryEnqueueDone \/ M!Enqueue \/ M!Refuse
        \/ M!DequeueEmpty \/ M!DequeueStale \/ M!DequeueFront \/ M!GiveUp
  \/ Dispatch

ConnectionStep ==
  /\ UNCHANGED agentVars
  /\ \/ M!Accept
     \/ \E g \in Graph : M!ClientSubmit(g) \/ M!ClientDown(g)

AgentStep ==
  /\ UNCHANGED masterVars
  /\ A!ReaderStep \/ A!OwnerStep \/ A!ContainerStep

AgentFailure ==
  /\ UNCHANGED masterVars
  /\ A!Failure

Next == MasterStep \/ ConnectionStep \/ AgentStep \/ AgentFailure

Spec == Init /\ [][Next]_vars

\* The master's owner and the threads of the agents keep running.
Fairness == WF_vars(MasterStep) /\ WF_vars(UNCHANGED masterVars /\ A!Progress)

FairSpec == Spec /\ Fairness
-----------------------------------------------------------------------------
(* Properties.  Those of Agents are checked under this master, which       *)
(* dispatches a graph once and kills what its client left behind.          *)

\* No frontier arrives for a task that already runs (_insert_frontier).
FrontierFindsHatchery == A!FrontierFindsHatchery

\* A task runs only with all of its inter-streams connected (Task::ready, _deploy).
DeployedConnected == A!DeployedConnected

\* A task is reported once, when it leaves its agent (_remove_task).
ReportedOnce == A!ReportedOnce

\* The tasks of a dispatched graph do not wait for each other for ever.
Rendezvous == A!Rendezvous

\* The agents keep the promise the master relies on: each step of the cluster is
\* a step of Master or changes nothing Master sees.
MasterSpec == M!Spec

\* Nothing stays behind when the clients are gone, whatever failed on the way: no
\* agent the master knows keeps a task, on either side of the connection, and
\* with Accounting each has its whole capacity back.
AllReleased ==
  []((\A g \in Graph : cproc[g] = "down") =>
       <>(\/ pc = "crashed"
          \/ \A a \in agents : tasks[a] = {} /\ Held[a] = {}))
=============================================================================
