---------------------------- MODULE ClusterProofs ---------------------------
(***************************************************************************)
(* Proofs about the whole cluster, for any agents, graphs, tasks and       *)
(* streams: the agents keep the promise the master relies on (Cluster      *)
(* implements Master, so that every theorem of MasterProofs holds of the   *)
(* cluster), no frontier meets a task that already runs, a task runs only  *)
(* with all of its inter-streams connected, and it is reported once.       *)
(*                                                                         *)
(* The inductive invariant joins that of the master, MasterInv, with       *)
(*   TypeOK    the types of the agents' variables;                         *)
(*   Hosting   a task has a host from the dispatch of its graph on, and    *)
(*             reaches its agent after that;                               *)
(*   Mail      messages are on their way to live agents only, a Topology   *)
(*             to the host of a task that has not come yet;                *)
(*   Wiring    a stream is connected, kept by the agent of its writing end *)
(*             and held by the task there one after the other, and the     *)
(*             reading end holds it before the writing end can;            *)
(*   Complete  a task that runs holds every one of its inter-streams.      *)
(***************************************************************************)
EXTENDS Cluster, FiniteSetTheorems, TLAPS

MP == INSTANCE MasterProofs WITH held <- Held, doomed <- Doomed

Stage == {"none", "constructing", "constructed", "hatchery", "executor",
          "removing", "gone"}

TypeOK ==
  /\ reports \in [Task -> Nat]
  /\ hosts \in [Task -> Agent \union {NoKey}]
  /\ reading \in [Agent -> Task \union {NoKey}]
  /\ stage \in [Task -> Stage]
  /\ frontiers \in [Task -> SUBSET Stream]
  /\ sockets \in SUBSET Stream
  /\ packets \in SUBSET sockets
  /\ orphans \in [Agent -> SUBSET Stream]
  /\ kill \in [Task -> {"none", "pending", "done"}]
  /\ container \in [Task -> {"none", "running", "closed", "ok", "bad"}]
  /\ waiting \in [Agent -> Task \union {NoKey}]

\* All the tasks of a graph get their hosts when it is dispatched, and a task
\* reaches its agent, which has connected, after that.
Hosting ==
  /\ \A t \in Task : MP!NotStarted(GraphOf[t]) => hosts[t] = NoKey
  /\ \A t, u \in Task : GraphOf[t] = GraphOf[u] /\ hosts[t] # NoKey => hosts[u] # NoKey
  /\ \A t \in Task : stage[t] # "none" => hosts[t] # NoKey /\ aproc[hosts[t]] # "new"

\* Messages are on their way to live agents; a Topology goes to the host of its
\* task, and only one does.
Mail ==
  \A m \in m2a :
    /\ aproc[m.agent] = "up"
    /\ m.type = "Topology" => hosts[m.task] = m.agent /\ stage[m.task] = "none"

\* The task at the reading end of a stream, which connects it.
Reader(s) == ContainerOf[HeadOf[s]]

\* The stream crosses containers.
Inter(s) == Reader(s) # A!Owner(s)

\* A connection leads to a live agent.  What has left it, for _frontiers or for the
\* task at the writing end, does not come again, for the reading end holds it.
Wiring ==
  /\ \A s \in sockets :
       /\ Inter(s)
       /\ hosts[A!Owner(s)] # NoKey
       /\ aproc[hosts[A!Owner(s)]] = "up"
       /\ s \notin frontiers[A!Owner(s)]
       /\ \A a \in Agent : s \notin orphans[a]
  /\ \A s \in packets : s \in frontiers[Reader(s)]
  /\ \A a \in Agent : \A s \in orphans[a] : s \in frontiers[Reader(s)]
  /\ \A t \in Task : \A s \in frontiers[t] :
       /\ Inter(s)
       /\ t \in {Reader(s), A!Owner(s)}
       /\ s \in frontiers[Reader(s)]

\* A task that runs holds every one of its inter-streams.
Complete ==
  \A t \in Task : stage[t] \in {"executor", "removing"} =>
    frontiers[t] = A!In(t) \union A!Out(t)

AgentInv == TypeOK /\ Hosting /\ Mail /\ Wiring /\ Complete /\ ReportedOnce

ClusterInv == MP!MasterInv /\ AgentInv
-----------------------------------------------------------------------------
(* The master of the cluster is the one MasterProofs is about *)

LEMMA MasterConstants == MP!ConstantsAssumption /\ MP!LoadAssumption
BY MasterAssumption
   DEF M!ConstantsAssumption, MP!ConstantsAssumption, M!LoadAssumption,
       MP!LoadAssumption, M!ResourceType, MP!ResourceType, M!Kinds, MP!Kinds, M!Plus,
       MP!Plus, M!NoResource, MP!NoResource

LEMMA SameInit == M!Init => MP!Init
BY DEF M!Init, MP!Init, M!NoMap, MP!NoMap, M!NoResource, MP!NoResource, M!Kinds,
       MP!Kinds

LEMMA SameVars == UNCHANGED M!vars => UNCHANGED MP!vars
BY DEF M!vars, MP!vars, M!masterVars, MP!masterVars, M!ownerVars, MP!ownerVars,
       M!netVars, MP!netVars, M!procVars, MP!procVars

LEMMA SameNext == M!Next => MP!Next
<1> USE DEF M!masterVars, MP!masterVars, M!ownerVars, MP!ownerVars, M!netVars,
            MP!netVars, M!procVars, MP!procVars
<1> USE DEF M!TasksOf, MP!TasksOf, M!Deliver, MP!Deliver, M!Kills, MP!Kills,
            M!SolutionOf, MP!SolutionOf, M!RemoveGraphs, MP!RemoveGraphs,
            M!Unassigned, MP!Unassigned, M!Assigned, MP!Assigned, M!NoMap, MP!NoMap,
            M!NoResource, MP!NoResource, M!Plus, MP!Plus, M!Minus, MP!Minus,
            M!Geq, MP!Geq, M!Less, MP!Less, M!Best, MP!Best, M!Kinds, MP!Kinds
<1>1. M!Handle => MP!Handle
  <2>1. \A a : M!OnResource(a) => MP!OnResource(a)
    BY DEF M!OnResource, MP!OnResource
  <2>2. \A a : M!RemoveAgent(a) => MP!RemoveAgent(a)
    BY DEF M!RemoveAgent, MP!RemoveAgent
  <2>3. \A m : M!OnTaskInfo(m) => MP!OnTaskInfo(m)
    BY DEF M!OnTaskInfo, MP!OnTaskInfo
  <2>4. \A g : M!OnTopology(g) => MP!OnTopology(g)
    BY DEF M!OnTopology, MP!OnTopology
  <2>5. \A g : M!RemoveGraph(g) => MP!RemoveGraph(g)
    BY DEF M!RemoveGraph, MP!RemoveGraph
  <2> QED
    BY <2>1, <2>2, <2>3, <2>4, <2>5 DEF M!Handle, MP!Handle
<1>2. M!Accept => MP!Accept
  BY DEF M!Accept, MP!Accept, M!InsertAgent, MP!InsertAgent, M!InsertGraph,
         MP!InsertGraph
<1>3. M!Schedule => MP!Schedule
  <2>1. \A t : M!TryEnqueue(t) => MP!TryEnqueue(t)
    BY DEF M!TryEnqueue, MP!TryEnqueue
  <2>2. \A t : M!RestoreResource(t) => MP!RestoreResource(t)
    BY DEF M!RestoreResource, MP!RestoreResource
  <2>3. \A t : M!TryDequeue(t) => MP!TryDequeue(t)
    BY DEF M!TryDequeue, MP!TryDequeue
  <2>4. \A t : M!RestoreReleased(t) => MP!RestoreReleased(t)
    BY DEF M!RestoreReleased, MP!RestoreReleased
  <2>5. M!TryEnqueueDone => MP!TryEnqueueDone
    BY DEF M!TryEnqueueDone, MP!TryEnqueueDone
  <2>6. M!Enqueue => MP!Enqueue
    BY DEF M!Enqueue, MP!Enqueue
  <2>7. M!Refuse => MP!Refuse
    BY DEF M!Refuse, MP!Refuse
  <2>8. M!DequeueEmpty => MP!DequeueEmpty
    BY DEF M!DequeueEmpty, MP!DequeueEmpty
  <2>9. M!DequeueStale => MP!DequeueStale
    BY DEF M!DequeueStale, MP!DequeueStale
  <2>10. M!DequeueFront => MP!DequeueFront
    BY DEF M!DequeueFront, MP!DequeueFront
  <2>11. M!GiveUp => MP!GiveUp
    BY DEF M!GiveUp, MP!GiveUp
  <2>12. M!Dispatch => MP!Dispatch
    BY DEF M!Dispatch, MP!Dispatch
  <2> QED
    BY <2>1, <2>2, <2>3, <2>4, <2>5, <2>6, <2>7, <2>8, <2>9, <2>10, <2>11, <2>12
       DEF M!Schedule, MP!Schedule
<1>4. M!Receive => MP!Receive
  BY DEF M!Receive, MP!Receive, M!AgentReceive, MP!AgentReceive
<1>5. M!Report => MP!Report
  BY DEF M!Report, MP!Report, M!AgentReport, MP!AgentReport
<1>6. M!Environment => MP!Environment
  BY DEF M!Environment, MP!Environment, M!AgentDown, MP!AgentDown, M!ClientSubmit,
         MP!ClientSubmit, M!ClientDown, MP!ClientDown
<1> QED
  BY <1>1, <1>2, <1>3, <1>4, <1>5, <1>6 DEF M!Next, MP!Next

LEMMA MasterInitially == M!Init => MP!MasterInv
BY MasterConstants, SameInit, MP!MasterInitially

LEMMA MasterInvStep == MP!MasterInv /\ [M!Next]_(M!vars) => MP!MasterInv'
BY MasterConstants, SameNext, SameVars, MP!MasterStep
-----------------------------------------------------------------------------
(* Streams *)

LEMMA StreamEnds ==
  ASSUME NEW s \in Stream
  PROVE  /\ Reader(s) \in Task
         /\ A!Owner(s) \in Task
         /\ GraphOf[Reader(s)] = GraphOf[A!Owner(s)]
BY TopologyAssumption, ClusterAssumption DEF Reader, A!Owner

LEMMA InterStreams ==
  ASSUME NEW t \in Task
  PROVE  /\ A!In(t) = {s \in Stream : Inter(s) /\ t = Reader(s)}
         /\ A!Out(t) = {s \in Stream : Inter(s) /\ t = A!Owner(s)}
BY TopologyAssumption
   DEF A!In, A!Out, A!has_inter_stream_in, A!has_inter_stream_out, A!extract,
       A!has_vertex, Inter, Reader, A!Owner

\* Task::ready only counts: a task has all its inter-streams when it has as many.
LEMMA FullWhenReady ==
  ASSUME NEW t \in Task, NEW F \in SUBSET (A!In(t) \union A!Out(t)), A!Ready(t, F)
  PROVE  F = A!In(t) \union A!Out(t)
<1> DEFINE S == A!In(t) \union A!Out(t)
<1>1. {s \in A!extract(t).streams : \/ A!has_inter_stream_in(A!extract(t), s)
                                   \/ A!has_inter_stream_out(A!extract(t), s)} = S
  BY DEF A!In, A!Out, A!has_inter_stream_in, A!has_inter_stream_out, A!extract
<1>2. Cardinality(F) = Cardinality(S)
  <2>1. A!Cardinality(F) = A!Cardinality(S)
    BY <1>1 DEF A!Ready, A!num_inter_streams
  <2> QED
    BY <2>1 DEF A!Cardinality, Cardinality
<1>3. S \in SUBSET Stream
  BY DEF A!In, A!Out
<1>4. IsFiniteSet(S)
  BY <1>3, ClusterAssumption, FS_Subset
<1> HIDE DEF S
<1> QED
  BY <1>2, <1>4, FS_Subset DEF S
-----------------------------------------------------------------------------
(* The agents keep the promise *)

LEMMA HeldSame ==
  ASSUME hosts' = hosts,
         \A t \in Task : stage'[t] \in {"none", "gone"} <=> stage[t] \in {"none", "gone"}
  PROVE  Held' = Held
BY DEF Held

LEMMA DoomedSame ==
  ASSUME \A t \in Task : kill'[t] = "none" <=> kill[t] = "none"
  PROVE  Doomed' = Doomed
BY DEF Doomed

LEMMA HiddenStep ==
  ASSUME UNCHANGED <<masterVars, m2a, a2m, aproc, Held, Doomed>>
  PROVE  UNCHANGED M!vars
BY DEF masterVars, M!vars, M!masterVars, M!ownerVars, M!netVars, M!procVars

\* A task leaves its agent, with the TaskInfo.
LEMMA ReportStep ==
  ASSUME TypeOK, Hosting, NEW t \in Task, stage[t] \notin {"none", "gone"},
         stage' = [stage EXCEPT ![t] = "gone"], NEW e \in BOOLEAN, A!Send(t, e),
         UNCHANGED <<masterVars, m2a, aproc, hosts, Doomed>>
  PROVE  M!Next
<1>1. hosts[t] \in Agent
  BY DEF TypeOK, Hosting
<1>2. t \in Held[hosts[t]] /\ Held' = [Held EXCEPT ![hosts[t]] = @ \ {t}]
  BY <1>1 DEF Held, TypeOK
<1>3. M!AgentReport(hosts[t], t, e)
  BY <1>2 DEF M!AgentReport, A!Send, masterVars, M!masterVars, M!ownerVars
<1> QED
  BY <1>1, <1>3 DEF M!Next, M!Report

LEMMA ReaderRefines ==
  ASSUME MP!MasterInv, TypeOK, Hosting, Mail, UNCHANGED masterVars, A!ReaderStep
  PROVE  [M!Next]_(M!vars)
<1> USE DEF A!taskVars, A!sent
<1>1. ASSUME NEW m \in m2a, A!ReadTopology(m)
      PROVE  M!Next
  <2>1. m.agent \in Agent /\ m.task \in Task
    BY DEF MP!MasterInv, MP!TypeOK, MP!ToAgent
  <2>2. hosts[m.task] = m.agent
    BY <1>1 DEF A!ReadTopology, Mail
  <2>3. Held' = [Held EXCEPT ![m.agent] = @ \union {m.task}]
    <3> DEFINE G(S, a) == {t \in Task : hosts[t] = a /\ S[t] \notin {"none", "gone"}}
    <3>1. hosts' = hosts /\ stage' = [stage EXCEPT ![m.task] = "constructing"]
      BY <1>1 DEF A!ReadTopology
    <3>2. G(stage', m.agent) = G(stage, m.agent) \union {m.task}
      BY <2>1, <2>2, <3>1 DEF TypeOK
    <3>3. \A a \in Agent : a # m.agent => G(stage', a) = G(stage, a)
      BY <2>1, <2>2, <3>1 DEF TypeOK
    <3> QED
      BY <2>1, <3>1, <3>2, <3>3 DEF Held
  <2>4. Doomed' = Doomed
    BY <1>1 DEF A!ReadTopology, Doomed
  <2>5. M!AgentReceive(m)
    BY <1>1, <2>3, <2>4
       DEF A!ReadTopology, M!AgentReceive, masterVars, M!masterVars, M!ownerVars
  <2> QED
    BY <2>5 DEF M!Next, M!Receive
<1>2. ASSUME NEW m \in m2a, A!ReadKill(m)
      PROVE  M!Next
  <2>1. m.task \in Task
    BY DEF MP!MasterInv, MP!TypeOK, MP!ToAgent
  <2>2. Held' = Held
    BY <1>2, HeldSame DEF A!ReadKill
  <2>3. Doomed' = Doomed \union {m.task}
    BY <1>2, <2>1 DEF A!ReadKill, Doomed, TypeOK
  <2>4. M!AgentReceive(m)
    BY <1>2, <2>2, <2>3
       DEF A!ReadKill, M!AgentReceive, masterVars, M!masterVars, M!ownerVars
  <2> QED
    BY <2>4 DEF M!Next, M!Receive
<1>3. ASSUME NEW t \in Task, A!HandOver(t)
      PROVE  UNCHANGED M!vars
  <2>1. Held' = Held
    BY <1>3, HeldSame DEF A!HandOver, TypeOK
  <2>2. Doomed' = Doomed
    BY <1>3, DoomedSame DEF A!HandOver
  <2> QED
    BY <1>3, <2>1, <2>2, HiddenStep DEF A!HandOver
<1>4. ASSUME NEW t \in Task, A!ConstructFail(t)
      PROVE  M!Next
  <2>1. Doomed' = Doomed
    BY <1>4, DoomedSame DEF A!ConstructFail
  <2> QED
    BY <1>4, <2>1, ReportStep DEF A!ConstructFail
<1>5. ASSUME NEW t \in Task, NEW s \in Stream, A!Connect(t, s) \/ A!SendPacket(t, s)
      PROVE  UNCHANGED M!vars
  <2>1. Held' = Held /\ Doomed' = Doomed
    BY <1>5, HeldSame, DoomedSame DEF A!Connect, A!SendPacket
  <2> QED
    BY <1>5, <2>1, HiddenStep DEF A!Connect, A!SendPacket
<1> QED
  BY <1>1, <1>2, <1>3, <1>4, <1>5 DEF A!ReaderStep

\* A task settles in the hatchery or the executor, or leaves.
LEMMA SettleRefines ==
  ASSUME TypeOK, Hosting, NEW t \in Task, stage[t] \notin {"none", "gone"}, NEW F,
         A!Settle(t, F), UNCHANGED <<masterVars, m2a, aproc, hosts, kill>>
  PROVE  [M!Next]_(M!vars)
<1>1. Doomed' = Doomed
  BY DoomedSame
<1>2. CASE stage' = [stage EXCEPT ![t] = "gone"] /\ A!Send(t, TRUE)
  BY <1>1, <1>2, ReportStep
<1>3. CASE /\ \E x \in {"hatchery", "executor"} : stage' = [stage EXCEPT ![t] = x]
           /\ UNCHANGED A!sent
  <2>1. Held' = Held
    BY <1>3, HeldSame DEF TypeOK
  <2> QED
    BY <1>1, <1>3, <2>1, HiddenStep DEF A!sent
<1> QED
  BY <1>2, <1>3 DEF A!Settle, A!sent

LEMMA OwnerRefines ==
  ASSUME TypeOK, Hosting, UNCHANGED masterVars, A!OwnerStep
  PROVE  [M!Next]_(M!vars)
<1> USE DEF A!sent
<1>1. ASSUME NEW t \in Task, A!InsertTask(t)
      PROVE  [M!Next]_(M!vars)
  BY <1>1, SettleRefines DEF A!InsertTask
<1>2. ASSUME NEW t \in Task, A!KillTask(t)
      PROVE  [M!Next]_(M!vars)
  <2>1. Doomed' = Doomed
    BY <1>2, DoomedSame DEF A!KillTask, TypeOK
  <2>2. CASE A!InTasks(t)
    BY <1>2, <2>1, <2>2, ReportStep DEF A!KillTask, A!InTasks
  <2>3. CASE ~A!InTasks(t)
    <3>1. Held' = Held
      BY <1>2, <2>3, HeldSame DEF A!KillTask
    <3> QED
      BY <1>2, <2>1, <2>3, <3>1, HiddenStep DEF A!KillTask
  <2> QED
    BY <2>2, <2>3
<1>3. ASSUME NEW t \in Task, A!RemoveTask(t)
      PROVE  UNCHANGED M!vars
  <2>1. Held' = Held /\ Doomed' = Doomed
    BY <1>3, HeldSame, DoomedSame DEF A!RemoveTask, TypeOK
  <2> QED
    BY <1>3, <2>1, HiddenStep DEF A!RemoveTask
<1>4. ASSUME NEW t \in Task, A!Reap(t)
      PROVE  M!Next
  <2>1. Doomed' = Doomed
    BY <1>4, DoomedSame DEF A!Reap
  <2> QED
    BY <1>4, <2>1, ReportStep DEF A!Reap
<1>5. ASSUME NEW s \in Stream, A!InsertFrontier(s)
      PROVE  [M!Next]_(M!vars)
  <2>1. CASE /\ stage[A!Owner(s)] = "hatchery"
             /\ A!Settle(A!Owner(s), frontiers[A!Owner(s)] \union {s})
    BY <1>5, <2>1, StreamEnds, SettleRefines DEF A!InsertFrontier
  <2>2. CASE UNCHANGED <<stage, A!sent>>
    <3>1. Held' = Held /\ Doomed' = Doomed
      BY <1>5, <2>2, HeldSame, DoomedSame DEF A!InsertFrontier
    <3> QED
      BY <1>5, <2>2, <3>1, HiddenStep DEF A!InsertFrontier
  <2> QED
    BY <1>5, <2>1, <2>2 DEF A!InsertFrontier
<1> QED
  BY <1>1, <1>2, <1>3, <1>4, <1>5 DEF A!OwnerStep

\* A process that dies, whatever it held, is an agent going down.
LEMMA DieRefines ==
  ASSUME TypeOK, NEW a \in Agent, aproc[a] = "up", A!Die(a), UNCHANGED masterVars
  PROVE  M!Next
<1>1. Held' = [Held EXCEPT ![a] = {}]
  BY DEF Held, A!Die, TypeOK
<1>2. Doomed' = Doomed
  BY DoomedSame DEF A!Die
<1>3. M!AgentDown(a)
  BY <1>1, <1>2
     DEF A!Die, A!sent, M!AgentDown, masterVars, M!masterVars, M!ownerVars
<1> QED
  BY <1>3 DEF M!Next, M!Environment

LEMMA FailureRefines ==
  ASSUME TypeOK, Wiring, UNCHANGED masterVars, A!Failure
  PROVE  M!Next
<1>1. ASSUME NEW a \in Agent, A!AgentDown(a)
      PROVE  M!Next
  BY <1>1, DieRefines DEF A!AgentDown
<1>2. ASSUME NEW s \in Stream, A!BrokenFrontier(s)
      PROVE  M!Next
  <2>1. hosts[A!Owner(s)] \in Agent /\ aproc[hosts[A!Owner(s)]] = "up"
    BY <1>2, StreamEnds DEF A!BrokenFrontier, Wiring, TypeOK
  <2> QED
    BY <1>2, <2>1, DieRefines DEF A!BrokenFrontier
<1> QED
  BY <1>1, <1>2 DEF A!Failure

LEMMA StepRefines ==
  ASSUME MP!MasterInv, TypeOK, Hosting, Mail, Wiring, [Next]_vars
  PROVE  [M!Next]_(M!vars)
<1>1. CASE UNCHANGED vars
  <2>1. Held' = Held /\ Doomed' = Doomed
    BY <1>1, HeldSame, DoomedSame DEF vars, agentVars
  <2> QED
    BY <1>1, <2>1, HiddenStep DEF vars
<1>2. CASE MasterStep
  BY <1>2 DEF MasterStep, Dispatch, M!Next, M!Schedule
<1>3. CASE ConnectionStep
  BY <1>3 DEF ConnectionStep, M!Next, M!Environment
<1>4. CASE AgentStep
  <2>1. CASE A!ContainerStep
    <3>1. UNCHANGED <<m2a, a2m, aproc, hosts, stage, kill>>
      BY <2>1 DEF A!ContainerStep, A!ContainerClose, A!ContainerExit, A!sent
    <3>2. Held' = Held /\ Doomed' = Doomed
      BY <3>1, HeldSame, DoomedSame
    <3> QED
      BY <1>4, <3>1, <3>2, HiddenStep DEF AgentStep
  <2> QED
    BY <1>4, <2>1, ReaderRefines, OwnerRefines DEF AgentStep
<1>5. CASE AgentFailure
  BY <1>5, FailureRefines DEF AgentFailure
<1> QED
  BY <1>1, <1>2, <1>3, <1>4, <1>5 DEF Next
-----------------------------------------------------------------------------
(* Steps of the master *)

\* A graph that the scheduler is through with stays so.
LEMMA StartedForEver ==
  ASSUME MP!MasterInv, [M!Next]_(M!vars)
  PROVE  \A t \in Task : MP!NotStarted(GraphOf[t])' => MP!NotStarted(GraphOf[t])
<1>1. [MP!Next]_(MP!vars)
  BY SameNext, SameVars
<1>2. \A g \in Graph : MP!NotStarted(g)' => MP!NotStarted(g)
  BY <1>1, MasterConstants, MP!NotStartedShrinks DEF MP!MasterInv
<1> QED
  BY <1>2, ClusterAssumption

\* What the agents see of the master unless it dispatches: kills, sent to the living.
LEMMA MasterMail ==
  ASSUME \/ M!Handle \/ M!Accept
         \/ \E t \in Task : \/ M!TryEnqueue(t) \/ M!RestoreResource(t)
                            \/ M!TryDequeue(t) \/ M!RestoreReleased(t)
         \/ M!TryEnqueueDone \/ M!Enqueue \/ M!Refuse
         \/ M!DequeueEmpty \/ M!DequeueStale \/ M!DequeueFront \/ M!GiveUp
         \/ \E g \in Graph : M!ClientSubmit(g) \/ M!ClientDown(g),
         MP!TypeOK
  PROVE  /\ \A m \in m2a' : m \in m2a \/ (m.type = "KillTask" /\ aproc[m.agent] = "up")
         /\ \A a \in Agent : aproc'[a] = aproc[a] \/ (aproc[a] = "new" /\ aproc'[a] = "up")
<1> USE DEF M!netVars, M!procVars
<1>1. ASSUME NEW G, NEW P, NEW T, NEW O, NEW w, M!RemoveGraphs(G, P, T, O, w)
      PROVE  \A m \in m2a' : m \in m2a \/ (m.type = "KillTask" /\ aproc[m.agent] = "up")
  BY <1>1 DEF M!RemoveGraphs, M!Deliver, M!Kills
<1>2. CASE M!Handle
  <2>1. ASSUME NEW a \in Agent, M!OnResource(a)
        PROVE  UNCHANGED <<m2a, aproc>>
    BY <2>1 DEF M!OnResource
  <2>2. ASSUME NEW g \in Graph, M!OnTopology(g)
        PROVE  UNCHANGED <<m2a, aproc>>
    BY <2>2 DEF M!OnTopology
  <2>3. ASSUME NEW a \in Agent, M!RemoveAgent(a)
        PROVE  /\ UNCHANGED aproc
               /\ \E G, P, T, O, w : M!RemoveGraphs(G, P, T, O, w)
    BY <2>3 DEF M!RemoveAgent
  <2>4. ASSUME NEW m \in a2m, M!OnTaskInfo(m)
        PROVE  /\ UNCHANGED aproc
               /\ \E G, P, T, O, w : M!RemoveGraphs(G, P, T, O, w)
    BY <2>4 DEF M!OnTaskInfo
  <2>5. ASSUME NEW g \in Graph, M!RemoveGraph(g)
        PROVE  /\ UNCHANGED aproc
               /\ \E G, P, T, O, w : M!RemoveGraphs(G, P, T, O, w)
    BY <2>5 DEF M!RemoveGraph
  <2> QED
    BY <1>1, <1>2, <2>1, <2>2, <2>3, <2>4, <2>5 DEF M!Handle
<1>3. CASE M!Accept
  BY <1>3 DEF M!Accept, M!InsertAgent, M!InsertGraph, MP!TypeOK
<1>4. CASE \E t \in Task : \/ M!TryEnqueue(t) \/ M!RestoreResource(t)
                          \/ M!TryDequeue(t) \/ M!RestoreReleased(t)
  BY <1>4 DEF M!TryEnqueue, M!RestoreResource, M!TryDequeue, M!RestoreReleased
<1>5. CASE M!TryEnqueueDone \/ M!Enqueue \/ M!DequeueEmpty
  BY <1>5 DEF M!TryEnqueueDone, M!Enqueue, M!DequeueEmpty
<1>6. CASE M!DequeueStale \/ M!DequeueFront \/ M!GiveUp
  BY <1>6 DEF M!DequeueStale, M!DequeueFront, M!GiveUp
<1>7. CASE M!Refuse
  BY <1>1, <1>7 DEF M!Refuse
<1>8. CASE \E g \in Graph : M!ClientSubmit(g) \/ M!ClientDown(g)
  BY <1>8 DEF M!ClientSubmit, M!ClientDown
<1> QED
  BY <1>2, <1>3, <1>4, <1>5, <1>6, <1>7, <1>8

LEMMA QuietStep ==
  ASSUME MP!MasterInv, AgentInv, UNCHANGED agentVars, [M!Next]_(M!vars),
         \A m \in m2a' : m \in m2a \/ (m.type = "KillTask" /\ aproc[m.agent] = "up"),
         \A a \in Agent : aproc'[a] = aproc[a] \/ (aproc[a] = "new" /\ aproc'[a] = "up")
  PROVE  AgentInv'
<1> USE DEF AgentInv, agentVars
<1>1. TypeOK'
  BY DEF TypeOK
<1>2. \A t \in Task : hosts[t] # NoKey => hosts[t] \in Agent
  BY DEF TypeOK
<1>3. \A m \in m2a' : m.agent \in Agent
  BY MasterInvStep DEF MP!MasterInv, MP!TypeOK, MP!ToAgent
<1>4. Hosting'
  <2>1. \A t \in Task : MP!NotStarted(GraphOf[t])' => hosts[t] = NoKey
    BY StartedForEver DEF Hosting
  <2>2. \A t \in Task : stage[t] # "none" => hosts[t] # NoKey /\ aproc'[hosts[t]] # "new"
    BY <1>2 DEF Hosting
  <2> QED
    BY <2>1, <2>2 DEF Hosting
<1>5. Mail'
  BY <1>3 DEF Mail
<1>6. Wiring'
  BY <1>2, StreamEnds DEF Wiring, TypeOK
<1>7. Complete'
  BY DEF Complete
<1>8. ReportedOnce'
  BY <1>2 DEF Hosting, ReportedOnce, A!ReportedOnce
<1> QED
  BY <1>1, <1>4, <1>5, <1>6, <1>7, <1>8

LEMMA DispatchStep ==
  ASSUME MP!MasterInv, AgentInv, Dispatch
  PROVE  AgentInv'
<1> USE DEF AgentInv
<1>1. UNCHANGED <<reports, reading, stage, frontiers, sockets, packets, orphans, kill,
                 container, waiting, aproc>>
  BY DEF Dispatch, M!Dispatch, M!procVars
<1>2. hosts' = [t \in Task |-> IF GraphOf[t] = cur THEN c2a[t] ELSE hosts[t]]
  BY DEF Dispatch
<1>3. \A t \in Task : GraphOf[t] = cur => hosts[t] = NoKey /\ stage[t] = "none"
  BY DEF Hosting, MP!NotStarted
<1>4. \A t \in Task : GraphOf[t] = cur => c2a[t] \in Agent
  BY DEF Dispatch, M!Dispatch, M!Unassigned, M!TasksOf, MP!MasterInv, MP!TypeOK
<1>5. NoKey \notin Agent
  BY ClusterAssumption
<1>6. \A t \in Task : hosts[t] # NoKey => hosts[t] \in Agent /\ hosts'[t] = hosts[t]
  BY <1>2, <1>3 DEF TypeOK
<1>7. \A t \in Task : GraphOf[t] = cur => hosts'[t] = c2a[t]
  BY <1>2
<1>8. TypeOK'
  BY <1>1, <1>2, <1>4 DEF TypeOK
<1>9. Hosting'
  <2>1. \A t \in Task : MP!NotStarted(GraphOf[t])' => hosts'[t] = NoKey
    <3>1. M!Next
      BY DEF Dispatch, M!Next, M!Schedule
    <3>2. MP!Dispatch
      BY DEF Dispatch, M!Dispatch, MP!Dispatch, M!Unassigned, MP!Unassigned, M!TasksOf,
             MP!TasksOf, M!Deliver, MP!Deliver, M!NoMap, MP!NoMap, M!procVars, MP!procVars
    <3>3. \A g \in Graph : MP!NotStarted(g)' => g # cur
      BY <3>2, MasterConstants, MP!DispatchStarts DEF MP!MasterInv
    <3> QED
      BY <1>2, <3>1, <3>3, StartedForEver, ClusterAssumption DEF Hosting
  <2>2. \A t, u \in Task :
          GraphOf[t] = GraphOf[u] /\ hosts'[t] # NoKey => hosts'[u] # NoKey
    BY <1>2, <1>3, <1>4, <1>5 DEF Hosting
  <2>3. \A t \in Task : stage[t] # "none" => hosts'[t] # NoKey /\ aproc[hosts'[t]] # "new"
    BY <1>6 DEF Hosting
  <2> QED
    BY <1>1, <2>1, <2>2, <2>3 DEF Hosting
<1>10. Mail'
  <2> SUFFICES ASSUME NEW m \in m2a'
               PROVE  /\ aproc[m.agent] = "up"
                      /\ m.type = "Topology" =>
                           hosts'[m.task] = m.agent /\ stage[m.task] = "none"
    BY <1>1 DEF Mail
  <2>1. CASE m \in m2a
    <3>1. m.agent \in Agent /\ m.task \in Task
      BY <2>1 DEF MP!MasterInv, MP!TypeOK, MP!ToAgent
    <3> QED
      BY <1>5, <1>6, <2>1, <3>1 DEF Mail
  <2>2. CASE m \notin m2a
    <3>1. PICK t \in Task : /\ GraphOf[t] = cur
                            /\ m = [type |-> "Topology", agent |-> c2a[t], task |-> t]
                            /\ aproc[m.agent] = "up"
      BY <2>2 DEF Dispatch, M!Dispatch, M!Deliver, M!TasksOf
    <3> QED
      BY <1>3, <1>7, <3>1
  <2> QED
    BY <2>1, <2>2
<1>11. Wiring'
  BY <1>1, <1>6, StreamEnds DEF Wiring, TypeOK
<1>12. Complete'
  BY <1>1 DEF Complete
<1>13. ReportedOnce'
  BY <1>1, <1>6 DEF Hosting, ReportedOnce, A!ReportedOnce
<1> QED
  BY <1>8, <1>9, <1>10, <1>11, <1>12, <1>13
-----------------------------------------------------------------------------
(* Steps of the agents *)

\* What becomes of a task that has the frontiers F.
LEMMA Settled ==
  ASSUME NEW t \in Task, NEW F, A!Settle(t, F)
  PROVE  \E x \in {"hatchery", "executor", "gone"} :
           /\ stage' = [stage EXCEPT ![t] = x]
           /\ x = "executor" => A!Ready(t, F)
           /\ x = "gone" => A!Send(t, TRUE)
           /\ x # "gone" => UNCHANGED <<a2m, reports>>
BY DEF A!Settle, A!sent

LEMMA SendType ==
  ASSUME TypeOK, NEW t \in Task, NEW e, A!Send(t, e)
  PROVE  reports' \in [Task -> Nat]
BY DEF TypeOK, A!Send

LEMMA SettleType ==
  ASSUME TypeOK, NEW t \in Task, NEW F \in SUBSET Stream, A!Settle(t, F)
  PROVE  /\ reports' \in [Task -> Nat]
         /\ stage' \in [Task -> Stage]
         /\ frontiers' \in [Task -> SUBSET Stream]
         /\ container' \in [Task -> {"none", "running", "closed", "ok", "bad"}]
<1>1. reports' \in [Task -> Nat]
  BY SendType DEF A!Settle, A!sent, TypeOK
<1>2. stage' \in [Task -> Stage] /\ frontiers' \in [Task -> SUBSET Stream]
  BY DEF A!Settle, TypeOK, Stage
<1>3. container' \in [Task -> {"none", "running", "closed", "ok", "bad"}]
  BY DEF A!Settle, TypeOK
<1> QED
  BY <1>1, <1>2, <1>3

LEMMA AgentTypeStep ==
  ASSUME MP!TypeOK, TypeOK,
         \/ A!ReaderStep \/ A!OwnerStep \/ A!ContainerStep \/ A!Failure
  PROVE  TypeOK'
<1> USE DEF A!sent, A!taskVars
<1>1. ASSUME NEW m \in m2a, A!ReadTopology(m) \/ A!ReadKill(m)
      PROVE  TypeOK'
  <2>1. m.agent \in Agent /\ m.task \in Task
    BY DEF MP!TypeOK, MP!ToAgent
  <2> QED
    BY <1>1, <2>1 DEF A!ReadTopology, A!ReadKill, TypeOK, Stage
<1>2. ASSUME NEW t \in Task, A!HandOver(t)
      PROVE  TypeOK'
  BY <1>2 DEF A!HandOver, TypeOK, Stage
<1>3. ASSUME NEW t \in Task, A!ConstructFail(t)
      PROVE  TypeOK'
  BY <1>3, SendType DEF A!ConstructFail, TypeOK, Stage
<1>4. ASSUME NEW t \in Task, NEW s \in Stream, A!Connect(t, s) \/ A!SendPacket(t, s)
      PROVE  TypeOK'
  BY <1>4 DEF A!Connect, A!SendPacket, TypeOK
<1>5. ASSUME NEW t \in Task, A!InsertTask(t)
      PROVE  TypeOK'
  <2> DEFINE early == orphans[hosts[t]] \intersect A!Out(t)
  <2>1. A!Out(t) \in SUBSET Stream
    BY DEF A!Out
  <2>2. A!Settle(t, frontiers[t] \union early)
    BY <1>5 DEF A!InsertTask
  <2>3. frontiers[t] \union early \in SUBSET Stream
    BY <2>1 DEF TypeOK
  <2>4. orphans' \in [Agent -> SUBSET Stream]
    BY <1>5 DEF A!InsertTask, TypeOK
  <2>5. UNCHANGED <<hosts, reading, sockets, packets, kill, waiting>>
    BY <1>5 DEF A!InsertTask
  <2> HIDE DEF early
  <2> QED
    BY <2>2, <2>3, <2>4, <2>5, SettleType DEF TypeOK
<1>6. ASSUME NEW t \in Task, A!KillTask(t)
      PROVE  TypeOK'
  <2>1. stage' \in [Task -> Stage] /\ kill' \in [Task -> {"none", "pending", "done"}]
    BY <1>6 DEF A!KillTask, TypeOK, Stage
  <2>2. container' \in [Task -> {"none", "running", "closed", "ok", "bad"}]
    BY <1>6 DEF A!KillTask, TypeOK
  <2>3. reports' \in [Task -> Nat]
    BY <1>6, SendType DEF A!KillTask, TypeOK
  <2> QED
    BY <1>6, <2>1, <2>2, <2>3 DEF A!KillTask, TypeOK
<1>7. ASSUME NEW t \in Task, A!RemoveTask(t)
      PROVE  TypeOK'
  BY <1>7 DEF A!RemoveTask, TypeOK, Stage
<1>8. ASSUME NEW t \in Task, A!Reap(t)
      PROVE  TypeOK'
  BY <1>8, SendType DEF A!Reap, TypeOK, Stage
<1>9. ASSUME NEW s \in Stream, A!InsertFrontier(s)
      PROVE  TypeOK'
  <2>1. /\ UNCHANGED <<hosts, reading, kill, waiting>>
        /\ sockets' = sockets \ {s} /\ packets' = packets \ {s}
    BY <1>9 DEF A!InsertFrontier
  <2>2. orphans' \in [Agent -> SUBSET Stream]
    BY <1>9 DEF A!InsertFrontier, TypeOK
  <2>3. CASE A!Settle(A!Owner(s), frontiers[A!Owner(s)] \union {s})
    <3>1. A!Owner(s) \in Task /\ frontiers[A!Owner(s)] \union {s} \in SUBSET Stream
      BY StreamEnds DEF TypeOK
    <3> QED
      BY <2>1, <2>2, <2>3, <3>1, SettleType DEF TypeOK
  <2>4. CASE UNCHANGED <<frontiers, stage, container, A!sent>>
    BY <2>1, <2>2, <2>4 DEF TypeOK
  <2> QED
    BY <1>9, <2>3, <2>4 DEF A!InsertFrontier
<1>10. CASE A!ContainerStep
  BY <1>10 DEF A!ContainerStep, A!ContainerClose, A!ContainerExit, TypeOK
<1>11. ASSUME NEW a, A!Die(a)
       PROVE  TypeOK'
  BY <1>11 DEF A!Die, TypeOK, Stage
<1>12. CASE A!Failure
  BY <1>11, <1>12 DEF A!Failure, A!AgentDown, A!BrokenFrontier
<1> QED
  BY <1>1, <1>2, <1>3, <1>4, <1>5, <1>6, <1>7, <1>8, <1>9, <1>10, <1>12
     DEF A!ReaderStep, A!OwnerStep

\* What a step of an agent changes of the life of a task, and only in live agents:
\* one task comes, or one moves on, or an agent dies with all of its tasks.
LEMMA AgentFrame ==
  ASSUME MP!TypeOK, TypeOK, Mail,
         \/ A!ReaderStep \/ A!OwnerStep \/ A!ContainerStep
  PROVE  /\ hosts' = hosts /\ aproc' = aproc /\ m2a' \in SUBSET m2a
         /\ \A t \in Task : stage'[t] # stage[t] =>
              \/ stage[t] \notin {"none", "gone"} /\ stage'[t] # "none"
              \/ /\ stage[t] = "none"
                 /\ \A m \in m2a' : m.type = "Topology" => m.task # t
                 /\ hosts[t] \in Agent /\ aproc[hosts[t]] = "up"
<1> USE DEF A!sent, A!taskVars
<1>1. ASSUME NEW m \in m2a, A!ReadTopology(m)
      PROVE  /\ hosts' = hosts /\ aproc' = aproc /\ m2a' \in SUBSET m2a
             /\ \A t \in Task : stage'[t] # stage[t] =>
                 /\ stage[t] = "none"
                 /\ \A n \in m2a' : n.type = "Topology" => n.task # t
                 /\ hosts[t] \in Agent /\ aproc[hosts[t]] = "up"
  <2>1. m.agent \in Agent /\ m.task \in Task
    BY DEF MP!TypeOK, MP!ToAgent
  <2>2. hosts[m.task] = m.agent /\ stage[m.task] = "none" /\ aproc[m.agent] = "up"
    BY <1>1 DEF A!ReadTopology, Mail
  <2>3. \A n \in m2a : n.type = "Topology" /\ n.task = m.task => n = m
    <3>1. ASSUME NEW n \in m2a, n.type = "Topology", n.task = m.task
          PROVE  n = m
      <4>1. n.agent = m.agent /\ m.type = "Topology"
        BY <1>1, <2>2, <3>1 DEF Mail, A!ReadTopology
      <4>2. m = [type |-> m.type, agent |-> m.agent, task |-> m.task]
        BY DEF MP!TypeOK, MP!ToAgent
      <4>3. n = [type |-> n.type, agent |-> n.agent, task |-> n.task]
        BY DEF MP!TypeOK, MP!ToAgent
      <4> QED
        BY <3>1, <4>1, <4>2, <4>3
    <3> QED
      BY <3>1
  <2>4. hosts' = hosts /\ aproc' = aproc /\ m2a' = m2a \ {m}
    BY <1>1 DEF A!ReadTopology
  <2>5. \A t \in Task : stage'[t] # stage[t] => t = m.task
    BY <1>1, <2>1 DEF A!ReadTopology, TypeOK
  <2> QED
    BY <2>1, <2>2, <2>3, <2>4, <2>5
<1>2. ASSUME NEW m \in m2a, A!ReadKill(m)
      PROVE  UNCHANGED <<hosts, aproc, stage>> /\ m2a' \in SUBSET m2a
  BY <1>2 DEF A!ReadKill
<1>3. ASSUME NEW t \in Task, NEW x \in Stage \ {"none"}, stage[t] \notin {"none", "gone"},
             stage' = [stage EXCEPT ![t] = x]
      PROVE  \A u \in Task : stage'[u] # stage[u] =>
               stage[u] \notin {"none", "gone"} /\ stage'[u] # "none"
  BY <1>3 DEF TypeOK
<1>4. ASSUME NEW t \in Task, \/ A!HandOver(t) \/ A!ConstructFail(t) \/ A!InsertTask(t)
                             \/ A!KillTask(t) \/ A!RemoveTask(t) \/ A!Reap(t)
      PROVE  UNCHANGED <<hosts, aproc, m2a>>
  BY <1>4 DEF A!HandOver, A!ConstructFail, A!InsertTask, A!KillTask, A!RemoveTask, A!Reap
<1>5. ASSUME NEW t \in Task, \/ A!HandOver(t) \/ A!ConstructFail(t)
                             \/ A!RemoveTask(t) \/ A!Reap(t)
      PROVE  \A u \in Task : stage'[u] # stage[u] =>
               stage[u] \notin {"none", "gone"} /\ stage'[u] # "none"
  BY <1>3, <1>5 DEF A!HandOver, A!ConstructFail, A!RemoveTask, A!Reap, Stage
<1>6. ASSUME NEW t \in Task, A!KillTask(t)
      PROVE  \A u \in Task : stage'[u] # stage[u] =>
               stage[u] \notin {"none", "gone"} /\ stage'[u] # "none"
  BY <1>3, <1>6 DEF A!KillTask, A!InTasks, Stage
<1>7. ASSUME NEW t \in Task, NEW F, stage[t] \notin {"none", "gone"}, A!Settle(t, F)
      PROVE  \A u \in Task : stage'[u] # stage[u] =>
               stage[u] \notin {"none", "gone"} /\ stage'[u] # "none"
  BY <1>3, <1>7, Settled DEF Stage
<1>8. ASSUME NEW t \in Task, A!InsertTask(t)
      PROVE  \A u \in Task : stage'[u] # stage[u] =>
               stage[u] \notin {"none", "gone"} /\ stage'[u] # "none"
  BY <1>7, <1>8 DEF A!InsertTask
<1>9. ASSUME NEW s \in Stream, A!InsertFrontier(s)
      PROVE  /\ UNCHANGED <<hosts, aproc, m2a>>
             /\ \A u \in Task : stage'[u] # stage[u] =>
                  stage[u] \notin {"none", "gone"} /\ stage'[u] # "none"
  BY <1>7, <1>9, StreamEnds DEF A!InsertFrontier
<1>10. CASE A!ContainerStep
  BY <1>10 DEF A!ContainerStep, A!ContainerClose, A!ContainerExit
<1>11. ASSUME NEW t \in Task, NEW s \in Stream, A!Connect(t, s) \/ A!SendPacket(t, s)
       PROVE  UNCHANGED <<hosts, aproc, m2a, stage>>
  BY <1>11 DEF A!Connect, A!SendPacket
<1>12. CASE A!ReaderStep
  BY <1>1, <1>2, <1>4, <1>5, <1>11, <1>12 DEF A!ReaderStep
<1>13. CASE A!OwnerStep
  BY <1>4, <1>5, <1>6, <1>8, <1>9, <1>13 DEF A!OwnerStep
<1> QED
  BY <1>10, <1>12, <1>13

\* An agent dies: what was hosted there and had come is gone.
LEMMA DieFrame ==
  ASSUME TypeOK, MP!TypeOK, NEW a \in Agent, A!Die(a)
  PROVE  /\ hosts' = hosts
         /\ m2a' = {m \in m2a : m.agent # a}
         /\ aproc'[a] = "down"
         /\ \A b \in Agent : b # a => aproc'[b] = aproc[b]
         /\ \A t \in Task : stage'[t] = IF hosts[t] = a /\ stage[t] # "none"
                                         THEN "gone" ELSE stage[t]
         /\ reports' = reports /\ frontiers' = frontiers
         /\ sockets' = {s \in sockets : hosts[A!Owner(s)] # a}
         /\ packets' \in SUBSET packets
         /\ \A b \in Agent : orphans'[b] \in SUBSET orphans[b]
BY DEF A!Die, A!sent, TypeOK, MP!TypeOK

\* Every failure is the death of one agent.
LEMMA FailureDies ==
  ASSUME TypeOK, Wiring, A!Failure
  PROVE  \E a \in Agent : A!Die(a)
<1>1. ASSUME NEW s \in Stream, A!BrokenFrontier(s)
      PROVE  \E a \in Agent : A!Die(a)
  BY <1>1, StreamEnds DEF A!BrokenFrontier, Wiring, TypeOK
<1> QED
  BY <1>1 DEF A!Failure, A!AgentDown

LEMMA HostingStep ==
  ASSUME MP!MasterInv, TypeOK, Hosting, Mail, Wiring, [M!Next]_(M!vars),
         \/ A!ReaderStep \/ A!OwnerStep \/ A!ContainerStep \/ A!Failure
  PROVE  Hosting'
<1> USE DEF MP!MasterInv
<1>1. \A t \in Task : hosts[t] # NoKey => hosts[t] \in Agent
  BY DEF TypeOK
<1>2. CASE A!Failure
  <2>1. PICK a \in Agent : A!Die(a)
    BY <1>2, FailureDies
  <2>2. \A t \in Task : stage'[t] # "none" => hosts[t] # NoKey /\ aproc'[hosts[t]] # "new"
    BY <1>1, <2>1, DieFrame DEF Hosting
  <2> QED
    BY <2>1, <2>2, DieFrame, StartedForEver DEF Hosting
<1>3. CASE A!ReaderStep \/ A!OwnerStep \/ A!ContainerStep
  <2>1. \A t \in Task : stage'[t] # "none" => hosts[t] # NoKey /\ aproc'[hosts[t]] # "new"
    BY <1>3, AgentFrame, ClusterAssumption DEF Hosting
  <2> QED
    BY <1>3, <2>1, AgentFrame, StartedForEver DEF Hosting
<1> QED
  BY <1>2, <1>3

LEMMA MailStep ==
  ASSUME MP!MasterInv, TypeOK, Mail, Wiring,
         \/ A!ReaderStep \/ A!OwnerStep \/ A!ContainerStep \/ A!Failure
  PROVE  Mail'
<1> USE DEF MP!MasterInv
<1>1. \A m \in m2a : m.agent \in Agent /\ m.task \in Task
  BY DEF MP!TypeOK, MP!ToAgent
<1>2. CASE A!Failure
  <2>1. PICK a \in Agent : A!Die(a)
    BY <1>2, FailureDies
  <2> QED
    BY <1>1, <2>1, DieFrame DEF Mail
<1>3. CASE A!ReaderStep \/ A!OwnerStep \/ A!ContainerStep
  BY <1>1, <1>3, AgentFrame DEF Mail
<1> QED
  BY <1>2, <1>3

LEMMA ReportedStep ==
  ASSUME MP!MasterInv, TypeOK, Hosting, Mail, Wiring, ReportedOnce,
         \/ A!ReaderStep \/ A!OwnerStep \/ A!ContainerStep \/ A!Failure
  PROVE  ReportedOnce'
<1> USE DEF MP!MasterInv, ReportedOnce, A!ReportedOnce, A!sent, A!taskVars
<1>1. CASE A!Failure
  <2>1. PICK a \in Agent : A!Die(a)
    BY <1>1, FailureDies
  <2>2. \A t \in Task : stage[t] # "none" => hosts[t] \in Agent
    BY DEF Hosting, TypeOK
  <2> QED
    BY <2>1, <2>2, DieFrame DEF TypeOK
<1>2. ASSUME NEW t \in Task, stage[t] \notin {"none", "gone"}, NEW e, A!Send(t, e),
             stage' = [stage EXCEPT ![t] = "gone"], UNCHANGED <<hosts, aproc>>
      PROVE  ReportedOnce'
  <2>1. reports[t] = 0
    BY <1>2 DEF TypeOK
  <2>2. reports' = [reports EXCEPT ![t] = 1]
    BY <1>2, <2>1 DEF A!Send, TypeOK
  <2> QED
    BY <1>2, <2>2 DEF TypeOK
<1>3. ASSUME NEW t \in Task, NEW x \in Stage \ {"gone"}, stage[t] # "gone",
             stage' = [stage EXCEPT ![t] = x], UNCHANGED <<reports, hosts, aproc>>
      PROVE  ReportedOnce'
  BY <1>3 DEF TypeOK
<1>4. ASSUME NEW m \in m2a, A!ReadTopology(m)
      PROVE  ReportedOnce'
  <2>1. m.task \in Task /\ stage[m.task] = "none"
    BY <1>4 DEF Mail, A!ReadTopology, MP!TypeOK, MP!ToAgent
  <2> QED
    BY <1>3, <1>4, <2>1 DEF A!ReadTopology, Stage
<1>5. ASSUME NEW t \in Task, A!HandOver(t) \/ A!RemoveTask(t)
      PROVE  ReportedOnce'
  BY <1>3, <1>5 DEF A!HandOver, A!RemoveTask, Stage
<1>6. ASSUME NEW t \in Task, A!ConstructFail(t) \/ A!Reap(t)
      PROVE  ReportedOnce'
  BY <1>2, <1>6 DEF A!ConstructFail, A!Reap
<1>7. ASSUME NEW t \in Task, A!KillTask(t)
      PROVE  ReportedOnce'
  <2>1. CASE A!InTasks(t)
    BY <1>2, <1>7, <2>1 DEF A!KillTask, A!InTasks
  <2>2. CASE ~A!InTasks(t)
    BY <1>7, <2>2 DEF A!KillTask
  <2> QED
    BY <2>1, <2>2
<1>8. ASSUME NEW t \in Task, NEW F, stage[t] \notin {"none", "gone"}, A!Settle(t, F),
             UNCHANGED <<hosts, aproc>>
      PROVE  ReportedOnce'
  BY <1>2, <1>3, <1>8, Settled DEF Stage
<1>9. ASSUME NEW t \in Task, A!InsertTask(t)
      PROVE  ReportedOnce'
  BY <1>8, <1>9 DEF A!InsertTask
<1>10. ASSUME NEW s \in Stream, A!InsertFrontier(s)
       PROVE  ReportedOnce'
  BY <1>8, <1>10, StreamEnds DEF A!InsertFrontier
<1>11. ASSUME UNCHANGED <<reports, stage, hosts, aproc>>
       PROVE  ReportedOnce'
  BY <1>11
<1>12. CASE A!ContainerStep
  BY <1>11, <1>12 DEF A!ContainerStep, A!ContainerClose, A!ContainerExit
<1>13. ASSUME NEW t \in Task, NEW s \in Stream, A!Connect(t, s) \/ A!SendPacket(t, s)
       PROVE  ReportedOnce'
  BY <1>11, <1>13 DEF A!Connect, A!SendPacket
<1>14. ASSUME NEW m \in m2a, A!ReadKill(m)
       PROVE  ReportedOnce'
  BY <1>11, <1>14 DEF A!ReadKill
<1>15. CASE A!ReaderStep
  BY <1>4, <1>5, <1>6, <1>13, <1>14, <1>15 DEF A!ReaderStep
<1>16. CASE A!OwnerStep
  BY <1>5, <1>6, <1>7, <1>9, <1>10, <1>16 DEF A!OwnerStep
<1> QED
  BY <1>1, <1>12, <1>15, <1>16

\* Steps that leave the streams alone.
LEMMA WiringSame ==
  ASSUME Wiring, UNCHANGED <<hosts, aproc, frontiers, sockets, packets, orphans>>
  PROVE  Wiring'
BY DEF Wiring

LEMMA WiringStep ==
  ASSUME MP!MasterInv, TypeOK, Hosting, Wiring,
         \/ A!ReaderStep \/ A!OwnerStep \/ A!ContainerStep \/ A!Failure
  PROVE  Wiring'
<1> USE DEF A!sent, A!taskVars
<1>1. CASE A!Failure
  <2>1. PICK a \in Agent : A!Die(a)
    BY <1>1, FailureDies
  <2>2. \A s \in sockets : A!Owner(s) \in Task
    BY StreamEnds DEF TypeOK
  <2>3. \A s \in sockets : hosts[A!Owner(s)] \in Agent
    BY <2>2 DEF Wiring, TypeOK
  <2>4. /\ UNCHANGED <<hosts, frontiers>>
        /\ \A b \in Agent : b # a => aproc'[b] = aproc[b]
        /\ sockets' = {s \in sockets : hosts[A!Owner(s)] # a}
        /\ packets' \in SUBSET packets
        /\ \A b \in Agent : orphans'[b] \in SUBSET orphans[b]
    BY <2>1, DieFrame DEF MP!MasterInv
  <2>5. \A s \in sockets' : aproc'[hosts[A!Owner(s)]] = "up"
    BY <2>3, <2>4 DEF Wiring
  <2> QED
    BY <2>4, <2>5 DEF Wiring
<1>2. ASSUME NEW t \in Task, NEW s \in Stream, A!Connect(t, s)
      PROVE  Wiring'
  <2>1. t = Reader(s) /\ Inter(s) /\ s \notin frontiers[t]
    BY <1>2, InterStreams DEF A!Connect
  <2>2. hosts[A!Owner(s)] # NoKey
    BY <1>2, <2>1, StreamEnds DEF A!Connect, Hosting
  <2>3. s \notin frontiers[A!Owner(s)] /\ \A a \in Agent : s \notin orphans[a]
    BY <2>1, StreamEnds DEF Wiring
  <2> QED
    BY <1>2, <2>1, <2>2, <2>3 DEF A!Connect, Wiring
<1>3. ASSUME NEW t \in Task, NEW s \in Stream, A!SendPacket(t, s)
      PROVE  Wiring'
  <2>1. t = Reader(s) /\ Inter(s)
    BY <1>3, InterStreams DEF A!SendPacket
  <2>2. /\ UNCHANGED <<hosts, aproc, sockets, orphans>>
        /\ packets' = packets \union {s}
        /\ frontiers' = [frontiers EXCEPT ![t] = @ \union {s}]
    BY <1>3 DEF A!SendPacket
  <2>3. \A x \in sockets : x \in Stream /\ A!Owner(x) \in Task /\ Reader(x) \in Task
    BY StreamEnds DEF TypeOK
  <2>4. \A u \in Task : \A x : x \in frontiers'[u] <=> x \in frontiers[u] \/ (u = t /\ x = s)
    BY <2>2 DEF TypeOK
  <2>5. \A x \in sockets : x \notin frontiers'[A!Owner(x)]
    BY <2>1, <2>3, <2>4 DEF Wiring, Inter
  <2>6. \A u \in Task : \A x \in frontiers[u] : Reader(x) \in Task
    BY StreamEnds DEF TypeOK
  <2>7. \A a \in Agent : \A x \in orphans[a] : Reader(x) \in Task
    BY StreamEnds DEF TypeOK
  <2>8. \A x \in packets : Reader(x) \in Task
    BY <2>3 DEF TypeOK
  <2> QED
    BY <2>1, <2>2, <2>4, <2>5, <2>6, <2>7, <2>8 DEF Wiring
<1>4. ASSUME NEW t \in Task, NEW E \in SUBSET Stream, NEW F, F = frontiers[t] \union E,
             frontiers' = [frontiers EXCEPT ![t] = F], UNCHANGED <<hosts, aproc>>,
             sockets' \in SUBSET sockets, packets' \in SUBSET packets,
             \A a \in Agent : orphans'[a] \in SUBSET orphans[a],
             \A s \in E : /\ Inter(s) /\ t = A!Owner(s)
                          /\ s \in frontiers[Reader(s)] /\ s \notin sockets'
      PROVE  Wiring'
  <2>1. \A x \in sockets : A!Owner(x) \in Task /\ Reader(x) \in Task
    BY StreamEnds DEF TypeOK
  <2>2. \A u \in Task : \A x : x \in frontiers'[u] <=> x \in frontiers[u] \/ (u = t /\ x \in E)
    BY <1>4 DEF TypeOK
  <2>3. \A x \in sockets' : x \notin frontiers'[A!Owner(x)]
    BY <1>4, <2>1, <2>2 DEF Wiring
  <2>4. \A u \in Task : \A x \in frontiers[u] : Reader(x) \in Task
    BY StreamEnds DEF TypeOK
  <2>5. \A x \in E : Reader(x) \in Task
    BY StreamEnds
  <2>6. \A a \in Agent : \A x \in orphans[a] : Reader(x) \in Task
    BY StreamEnds DEF TypeOK
  <2>7. \A x \in packets : Reader(x) \in Task
    BY <2>1 DEF TypeOK
  <2>8. \A u \in Task : \A x \in frontiers'[u] :
          Inter(x) /\ u \in {Reader(x), A!Owner(x)} /\ x \in frontiers'[Reader(x)]
    BY <1>4, <2>2, <2>4, <2>5 DEF Wiring
  <2> QED
    BY <1>4, <2>2, <2>3, <2>6, <2>7, <2>8 DEF Wiring
<1>5. ASSUME NEW t \in Task, A!InsertTask(t)
      PROVE  Wiring'
  <2> DEFINE early == orphans[hosts[t]] \intersect A!Out(t)
  <2>1. hosts[t] \in Agent
    BY <1>5 DEF A!InsertTask, Hosting, TypeOK
  <2>2. frontiers' = [frontiers EXCEPT ![t] = frontiers[t] \union early]
    BY <1>5 DEF A!InsertTask, A!Settle
  <2>3. UNCHANGED <<hosts, aproc, sockets, packets>>
    BY <1>5 DEF A!InsertTask
  <2>4. \A a \in Agent : orphans'[a] \in SUBSET orphans[a]
    BY <1>5 DEF A!InsertTask, TypeOK
  <2>5. early \in SUBSET Stream /\ \A s \in early : Inter(s) /\ t = A!Owner(s)
    BY InterStreams
  <2>6. \A s \in early : s \in frontiers[Reader(s)] /\ s \notin sockets
    BY <2>1 DEF Wiring
  <2> HIDE DEF early
  <2> QED
    BY <1>4, <2>2, <2>3, <2>4, <2>5, <2>6
<1>6. ASSUME NEW s \in Stream, A!InsertFrontier(s)
      PROVE  Wiring'
  <2>1. /\ s \in packets /\ s \in sockets
        /\ sockets' = sockets \ {s} /\ packets' = packets \ {s}
        /\ UNCHANGED <<hosts, aproc>>
    BY <1>6 DEF A!InsertFrontier, TypeOK
  <2>2. Inter(s) /\ s \in frontiers[Reader(s)] /\ A!Owner(s) \in Task
    BY <2>1, StreamEnds DEF Wiring
  <2>3. CASE /\ UNCHANGED frontiers
             /\ orphans' = [orphans EXCEPT ![hosts[A!Owner(s)]] = @ \union {s}]
    <3>1. \A a \in Agent : orphans'[a] \in SUBSET (orphans[a] \union {s})
      BY <2>3 DEF TypeOK
    <3> QED
      BY <2>1, <2>2, <2>3, <3>1 DEF Wiring
  <2>4. CASE /\ UNCHANGED orphans
             /\ A!Settle(A!Owner(s), frontiers[A!Owner(s)] \union {s})
    <3>1. frontiers' = [frontiers EXCEPT ![A!Owner(s)] = frontiers[A!Owner(s)] \union {s}]
      BY <2>4 DEF A!Settle
    <3> QED
      BY <1>4, <2>1, <2>2, <2>4, <3>1
  <2> QED
    BY <1>6, <2>3, <2>4 DEF A!InsertFrontier
<1>7. ASSUME NEW m \in m2a, A!ReadTopology(m) \/ A!ReadKill(m)
      PROVE  Wiring'
  BY <1>7, WiringSame DEF A!ReadTopology, A!ReadKill
<1>8. ASSUME NEW t \in Task, \/ A!HandOver(t) \/ A!ConstructFail(t)
                             \/ A!KillTask(t) \/ A!RemoveTask(t) \/ A!Reap(t)
      PROVE  Wiring'
  BY <1>8, WiringSame
     DEF A!HandOver, A!ConstructFail, A!KillTask, A!RemoveTask, A!Reap
<1>9. CASE A!ContainerStep
  BY <1>9, WiringSame DEF A!ContainerStep, A!ContainerClose, A!ContainerExit
<1>10. CASE A!ReaderStep
  BY <1>2, <1>3, <1>7, <1>8, <1>10 DEF A!ReaderStep
<1>11. CASE A!OwnerStep
  BY <1>5, <1>6, <1>8, <1>11 DEF A!OwnerStep
<1> QED
  BY <1>1, <1>9, <1>10, <1>11

LEMMA CompleteStep ==
  ASSUME MP!MasterInv, TypeOK, Hosting, Mail, Wiring, Complete, Wiring', TypeOK',
         \/ A!ReaderStep \/ A!OwnerStep \/ A!ContainerStep \/ A!Failure
  PROVE  Complete'
<1> USE DEF A!sent, A!taskVars
<1>1. CASE A!Failure
  <2>1. PICK a \in Agent : A!Die(a)
    BY <1>1, FailureDies
  <2> QED
    BY <2>1, DieFrame DEF Complete, MP!MasterInv
<1>2. ASSUME NEW t \in Task, NEW F, A!Settle(t, F)
      PROVE  Complete'
  <2>1. PICK x \in {"hatchery", "executor", "gone"} :
          stage' = [stage EXCEPT ![t] = x] /\ (x = "executor" => A!Ready(t, F))
    BY <1>2, Settled
  <2>2. frontiers' = [frontiers EXCEPT ![t] = F]
    BY <1>2 DEF A!Settle
  <2>3. F = frontiers'[t]
    BY <2>2 DEF TypeOK
  <2>4. F \in SUBSET (A!In(t) \union A!Out(t))
    <3>1. \A s \in frontiers'[t] :
            s \in Stream /\ Inter(s) /\ t \in {Reader(s), A!Owner(s)}
      BY DEF Wiring, TypeOK
    <3> QED
      BY <2>3, <3>1, InterStreams
  <2>5. x = "executor" => F = A!In(t) \union A!Out(t)
    BY <2>1, <2>4, FullWhenReady
  <2>6. \A u \in Task : u # t => stage'[u] = stage[u] /\ frontiers'[u] = frontiers[u]
    BY <2>1, <2>2 DEF TypeOK
  <2>7. stage'[t] = x
    BY <2>1 DEF TypeOK
  <2> QED
    BY <2>3, <2>5, <2>6, <2>7 DEF Complete
<1>3. ASSUME NEW t \in Task, NEW x \in Stage, stage' = [stage EXCEPT ![t] = x],
             x # "executor", x = "removing" => stage[t] = "executor", UNCHANGED frontiers
      PROVE  Complete'
  BY <1>3 DEF Complete, TypeOK
<1>4. ASSUME UNCHANGED <<stage, frontiers>>
      PROVE  Complete'
  BY <1>4 DEF Complete
<1>5. ASSUME NEW m \in m2a, A!ReadTopology(m)
      PROVE  Complete'
  <2>1. m.task \in Task
    BY DEF MP!MasterInv, MP!TypeOK, MP!ToAgent
  <2> QED
    BY <1>3, <1>5, <2>1 DEF A!ReadTopology, Stage
<1>6. ASSUME NEW m \in m2a, A!ReadKill(m)
      PROVE  Complete'
  BY <1>4, <1>6 DEF A!ReadKill
<1>7. ASSUME NEW t \in Task, \/ A!HandOver(t) \/ A!ConstructFail(t)
                             \/ A!RemoveTask(t) \/ A!Reap(t)
      PROVE  Complete'
  BY <1>3, <1>7 DEF A!HandOver, A!ConstructFail, A!RemoveTask, A!Reap, Stage
<1>8. ASSUME NEW t \in Task, A!KillTask(t)
      PROVE  Complete'
  BY <1>3, <1>4, <1>8 DEF A!KillTask, Stage
<1>9. ASSUME NEW t \in Task, NEW s \in Stream, A!Connect(t, s)
      PROVE  Complete'
  BY <1>4, <1>9 DEF A!Connect
<1>10. ASSUME NEW t \in Task, NEW s \in Stream, A!SendPacket(t, s)
       PROVE  Complete'
  BY <1>10 DEF A!SendPacket, Complete, TypeOK
<1>11. ASSUME NEW t \in Task, A!InsertTask(t)
       PROVE  Complete'
  BY <1>2, <1>11 DEF A!InsertTask
<1>12. ASSUME NEW s \in Stream, A!InsertFrontier(s)
       PROVE  Complete'
  BY <1>2, <1>4, <1>12, StreamEnds DEF A!InsertFrontier
<1>13. CASE A!ContainerStep
  BY <1>4, <1>13 DEF A!ContainerStep, A!ContainerClose, A!ContainerExit
<1>14. CASE A!ReaderStep
  BY <1>5, <1>6, <1>7, <1>9, <1>10, <1>14 DEF A!ReaderStep
<1>15. CASE A!OwnerStep
  BY <1>7, <1>8, <1>11, <1>12, <1>15 DEF A!OwnerStep
<1> QED
  BY <1>1, <1>13, <1>14, <1>15
-----------------------------------------------------------------------------
(* The theorems *)

LEMMA ClusterInitially == Init => ClusterInv
<1> SUFFICES ASSUME A!Init, M!Init PROVE ClusterInv
  BY DEF Init
<1>1. MP!MasterInv
  BY MasterInitially
<1>2. TypeOK
  BY DEF A!Init, TypeOK, Stage
<1>3. Hosting /\ Complete
  BY DEF A!Init, Hosting, Complete
<1>4. Mail
  BY DEF M!Init, Mail
<1>5. Wiring
  BY DEF A!Init, Wiring
<1>6. ReportedOnce
  BY DEF A!Init, ReportedOnce, A!ReportedOnce
<1> QED
  BY <1>1, <1>2, <1>3, <1>4, <1>5, <1>6 DEF ClusterInv, AgentInv

LEMMA ClusterStep == ClusterInv /\ [Next]_vars => ClusterInv'
<1> SUFFICES ASSUME MP!MasterInv, AgentInv, [Next]_vars PROVE ClusterInv'
  BY DEF ClusterInv
<1>1. [M!Next]_(M!vars)
  BY StepRefines DEF AgentInv
<1>2. MP!MasterInv'
  BY <1>1, MasterInvStep
<1>3. AgentInv'
  <2>1. CASE UNCHANGED vars
    BY <1>1, <2>1, QuietStep DEF vars
  <2>2. CASE Dispatch
    BY <2>2, DispatchStep
  <2>3. CASE (MasterStep /\ ~Dispatch) \/ ConnectionStep
    BY <1>1, <2>3, MasterMail, QuietStep DEF MasterStep, ConnectionStep, MP!MasterInv
  <2>4. CASE AgentStep \/ AgentFailure
    <3>1. A!ReaderStep \/ A!OwnerStep \/ A!ContainerStep \/ A!Failure
      BY <2>4 DEF AgentStep, AgentFailure
    <3>2. TypeOK'
      BY <3>1, AgentTypeStep DEF AgentInv, MP!MasterInv
    <3>3. Hosting' /\ Mail' /\ ReportedOnce'
      BY <1>1, <3>1, HostingStep, MailStep, ReportedStep DEF AgentInv
    <3>4. Wiring'
      BY <3>1, WiringStep DEF AgentInv
    <3>5. Complete'
      BY <3>1, <3>2, <3>4, CompleteStep DEF AgentInv
    <3> QED
      BY <3>2, <3>3, <3>4, <3>5 DEF AgentInv
  <2> QED
    BY <2>1, <2>2, <2>3, <2>4 DEF Next
<1> QED
  BY <1>2, <1>3 DEF ClusterInv

\* ClusterInv holds in every reachable state of the cluster.
THEOREM ClusterInductive == Spec => []ClusterInv
BY ClusterInitially, ClusterStep, PTL DEF Spec

\* The agents of agent.cpp keep the promise the master relies on: the cluster
\* implements Master, with the tasks an agent has not reported as held and those
\* whose KillTask it has read as doomed.
THEOREM ClusterImplementsMaster == Spec => MasterSpec
<1>1. Init => M!Init
  BY DEF Init
<1>2. ClusterInv /\ [Next]_vars => [M!Next]_(M!vars)
  BY StepRefines DEF ClusterInv, AgentInv
<1> QED
  BY <1>1, <1>2, ClusterInductive, PTL DEF Spec, MasterSpec, M!Spec

\* What is proved of the master alone holds with real agents at the other ends:
\* nothing is over-committed, leaked or forgotten, a solution without errors tells the
\* truth and no graph waits for nothing (Agent::released, Graph::placement, _remove_graph).
THEOREM MasterHolds ==
  Spec => [](/\ M!Accounting /\ M!PlacementConsistent /\ M!OrphansKilled
             /\ M!CleanSolutionComplete /\ M!WaitsBehindWork)
<1>1. Spec => [](M!Accounting /\ M!PlacementConsistent /\ M!OrphansKilled)
  <2>1. ClusterInv => M!Accounting /\ M!PlacementConsistent /\ M!OrphansKilled
    BY DEF ClusterInv, MP!MasterInv, M!Accounting, MP!Accounting, M!Reserved,
           MP!Reserved, M!Plus, MP!Plus, M!Kinds, MP!Kinds, M!PlacementConsistent,
           MP!PlacementConsistent, M!OrphansKilled, MP!OrphansKilled
  <2> QED
    BY <2>1, ClusterInductive, PTL
<1>2. Spec => MP!Spec
  <2>1. M!Init => MP!Init
    BY SameInit
  <2>2. [M!Next]_(M!vars) => [MP!Next]_(MP!vars)
    BY SameNext, SameVars
  <2> QED
    BY <2>1, <2>2, ClusterImplementsMaster, PTL DEF MasterSpec, M!Spec, MP!Spec
<1>3. MP!Spec => []MP!CleanSolutionComplete
  BY MasterConstants, MP!CleanSolutionHolds
<1>4. MP!CleanSolutionComplete => M!CleanSolutionComplete
  BY DEF M!CleanSolutionComplete, MP!CleanSolutionComplete, M!TasksOf, MP!TasksOf
<1>5. MP!Spec => []MP!WaitsBehindWork
  BY MasterConstants, MP!WaitsBehindWorkHolds
<1>6. MP!WaitsBehindWork => M!WaitsBehindWork
  BY Zenon
     DEF M!WaitsBehindWork, MP!WaitsBehindWork, M!Cornered, MP!Cornered, M!Greedy,
         MP!Greedy, M!IdleLeft, MP!IdleLeft, M!Best, MP!Best, M!Geq, MP!Geq, M!Less,
         MP!Less, M!Minus, MP!Minus, M!Kinds, MP!Kinds, M!TasksOf, MP!TasksOf
<1> QED
  BY <1>1, <1>2, <1>3, <1>4, <1>5, <1>6, PTL

\* _insert_frontier never meets a task that already runs.
THEOREM FrontierFindsHatcheryHolds == Spec => []FrontierFindsHatchery
<1>1. ClusterInv => FrontierFindsHatchery
  BY StreamEnds, InterStreams
     DEF ClusterInv, AgentInv, TypeOK, Wiring, Complete, FrontierFindsHatchery,
         A!FrontierFindsHatchery
<1> QED
  BY <1>1, ClusterInductive, PTL

\* _deploy starts a task only when all its inter-streams are connected, at both ends,
\* although Task::ready only counts them.
THEOREM DeployedConnectedHolds == Spec => []DeployedConnected
<1>1. ClusterInv => DeployedConnected
  BY InterStreams
     DEF ClusterInv, AgentInv, Wiring, Complete, DeployedConnected,
         A!DeployedConnected, Reader
<1> QED
  BY <1>1, ClusterInductive, PTL

\* Every task that leaves a live agent has been reported exactly once.
THEOREM ReportedOnceHolds == Spec => []ReportedOnce
<1>1. ClusterInv => ReportedOnce
  BY DEF ClusterInv, AgentInv
<1> QED
  BY <1>1, ClusterInductive, PTL
=============================================================================
