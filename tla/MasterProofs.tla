----------------------------- MODULE MasterProofs ---------------------------
(***************************************************************************)
(* Proofs about the master, for any agents, graphs, tasks, demands and     *)
(* capacities: its state is well formed, no resource is over-committed or  *)
(* leaked, the two tables of placed tasks agree, no graph is placed twice, *)
(* no task outlives its graph unnoticed, a solution without errors tells   *)
(* the truth, and no graph waits for nothing.                              *)
(*                                                                         *)
(* The inductive invariant MasterInv adds to those properties what they    *)
(* rest on:                                                                *)
(*   CurOK, OwnerPhase  what the owner has in hand in each phase of a      *)
(*                      handler;                                           *)
(*   Lifecycle          which processes and graphs the tables may mention; *)
(*   QueueInv           a graph is queued once, after it was submitted and *)
(*                      before it is placed;                               *)
(*   Unstarted          until then none of its tasks is placed anywhere;   *)
(*   Traces             a task is known to one agent only, so that a       *)
(*                      report comes from the agent the task is charged to.*)
(* On top of it, SolutionInv follows a task from its Topology to the       *)
(* solution of its graph, and WaitingInv a graph from the queue to its     *)
(* dispatch.                                                               *)
(***************************************************************************)
EXTENDS Master, TLAPS

\* The owner has a graph in hand whenever it is inside the scheduler, the head
\* of the queue when it is inside _try_dequeue.
CurOK ==
  /\ pc \notin {"idle", "dequeue", "crashed"} => cur \in Graph
  /\ pc \in {"allocate", "giveback"} => queue # <<>>

\* Outside the scheduler the owner has no graph in hand and nothing is reserved;
\* inside, the graph is live and only its tasks are reserved, on known agents.
OwnerPhase ==
  /\ pc \in {"idle", "dequeue", "crashed"} =>
       cur = NoKey /\ \A t \in Task : c2a[t] = NoKey
  /\ pc \notin {"idle", "dequeue", "crashed"} => cur \in graphs
  /\ \A t \in Task : c2a[t] # NoKey => GraphOf[t] = cur /\ c2a[t] \in known
  /\ pc \in {"allocate", "giveback"} => queue # <<>> /\ cur = Head(queue)

\* The tables mention only what is there: tasks are charged to known agents, an
\* agent reports its resource once, placed tasks belong to live graphs.
Lifecycle ==
  /\ \A a \in Agent : aproc[a] = "new" => a \notin agents
  /\ \A a \in Agent : tasks[a] # {} => a \in known
  /\ \A a \in known : [type |-> "Resource", agent |-> a] \notin a2m
  /\ \A g \in graphs : cproc[g] # "new"
  /\ \A g \in c2m : cproc[g] \notin {"new", "up"}
  /\ \A t \in Task : placement[t] # NoKey => GraphOf[t] \in graphs

\* The topology of g has not reached the owner.
Unsubmitted(g) == cproc[g] \in {"new", "up"} \/ g \in c2m

Queued(g) == \E i \in DOMAIN queue : queue[i] = g

\* No graph is queued twice, ahead of its submission, or while it is tried by
\* _try_enqueue.
QueueInv ==
  /\ \A i, j \in DOMAIN queue : queue[i] = queue[j] => i = j
  /\ \A i \in DOMAIN queue : ~Unsubmitted(queue[i])
  /\ cur # NoKey => ~Unsubmitted(cur)
  /\ pc \in {"enqueue", "accept", "refuse"} => ~Queued(cur)

\* The scheduler is not through with g.
NotStarted(g) == Unsubmitted(g) \/ g = cur \/ Queued(g)

Unstarted ==
  \A t \in Task :
    NotStarted(GraphOf[t]) =>
      placement[t] = NoKey /\ \A a \in Agent : t \notin tasks[a]

Reports(a, t) == {m \in a2m : m.type = "TaskInfo" /\ m.agent = a /\ m.task = t}

\* Agent a has been told of task t and the master has not handled its report.
Trace(a, t) ==
  \/ [type |-> "Topology", agent |-> a, task |-> t] \in m2a
  \/ t \in held[a]
  \/ Reports(a, t) # {}

Traces ==
  \A a \in Agent, t \in Task : Trace(a, t) =>
    ~NotStarted(GraphOf[t]) /\ \A b \in Agent : t \in tasks[b] => b = a

MasterInv ==
  /\ TypeOK /\ CurOK /\ OwnerPhase /\ Lifecycle /\ QueueInv /\ Unstarted /\ Traces
  /\ PlacementConsistent /\ OrphansKilled /\ Accounting
-----------------------------------------------------------------------------
(* Resource vectors *)

LEMMA PlusType ==
  ASSUME NEW x \in ResourceType, NEW y \in ResourceType
  PROVE  Plus(x, y) \in ResourceType
BY DEF ResourceType, Plus

\* operator -= does not underflow where it does not throw.
LEMMA MinusType ==
  ASSUME NEW x \in ResourceType, NEW y \in ResourceType, Geq(x, y)
  PROVE  Minus(x, y) \in ResourceType
BY DEF ResourceType, Minus, Geq

LEMMA BestType ==
  ASSUME NEW avail, NEW d, NEW a \in Best(avail, d)
  PROVE  a \in known /\ Geq(avail[a], d)
BY DEF Best
-----------------------------------------------------------------------------
(* Type correctness *)

LEMMA SolutionType ==
  ASSUME NEW g, NEW O \in [Task -> Outcome], NEW w \in BOOLEAN
  PROVE  SolutionOf(g, O, w) \in Solution
BY DEF SolutionOf, Solution, Outcome

LEMMA KillsType ==
  ASSUME TypeOK, NEW G, NEW P, NEW T
  PROVE  Kills(G, P, T) \subseteq ToAgent
BY DEF Kills, ToAgent, TypeOK

LEMMA DeliverType ==
  ASSUME TypeOK, NEW M \in SUBSET ToAgent
  PROVE  Deliver(M) \in SUBSET ToAgent
BY DEF Deliver, TypeOK

\* What _remove_graph changes keeps its type.
LEMMA RemoveGraphsType ==
  ASSUME TypeOK, NEW G, NEW T, NEW w \in BOOLEAN,
         NEW P \in [Task -> Agent \union {NoKey}],
         NEW O \in [Task -> Outcome],
         RemoveGraphs(G, P, T, O, w)
  PROVE  /\ graphs' \in SUBSET Graph
         /\ topology' \in SUBSET graphs'
         /\ placement' \in [Task -> Agent \union {NoKey}]
         /\ m2a' \in SUBSET ToAgent
         /\ m2c' \in [Graph -> SUBSET Solution]
         /\ outcome' \in [Task -> Outcome]
<1>1. /\ graphs' \in SUBSET Graph
      /\ topology' \in SUBSET graphs'
      /\ placement' \in [Task -> Agent \union {NoKey}]
      /\ outcome' \in [Task -> Outcome]
  BY DEF RemoveGraphs, TypeOK
<1>2. m2a' \in SUBSET ToAgent
  BY KillsType, DeliverType DEF RemoveGraphs
<1>3. m2c' \in [Graph -> SUBSET Solution]
  BY SolutionType DEF RemoveGraphs, TypeOK
<1> QED
  BY <1>1, <1>2, <1>3

LEMMA TypeInitially == Init => TypeOK
BY ConstantsAssumption
   DEF Init, TypeOK, NoResource, ResourceType, NoMap, PC, Outcome

\* The steps that neither remove a graph nor move resources.
LEMMA PlainTypeStep ==
  ASSUME TypeOK, CurOK,
         \/ \E a \in Agent : InsertAgent(a) \/ OnResource(a) \/ AgentDown(a)
         \/ \E g \in Graph : \/ InsertGraph(g) \/ OnTopology(g)
                            \/ ClientSubmit(g) \/ ClientDown(g)
         \/ TryEnqueueDone \/ Enqueue \/ DequeueEmpty \/ DequeueStale
         \/ DequeueFront \/ GiveUp \/ Receive \/ Report
         \/ UNCHANGED vars
  PROVE  TypeOK'
<1> USE ConstantsAssumption DEF PC
<1>1. CASE UNCHANGED vars
  BY <1>1 DEF vars, masterVars, ownerVars, netVars, procVars, TypeOK
<1>2. ASSUME NEW a \in Agent, InsertAgent(a) PROVE TypeOK'
  BY <1>2 DEF InsertAgent, TypeOK, ownerVars, ToMaster
<1>3. ASSUME NEW a \in Agent, OnResource(a) PROVE TypeOK'
  BY <1>3 DEF OnResource, TypeOK, procVars
<1>4. ASSUME NEW a \in Agent, AgentDown(a) PROVE TypeOK'
  BY <1>4 DEF AgentDown, TypeOK, masterVars, ownerVars
<1>5. ASSUME NEW g \in Graph, InsertGraph(g) PROVE TypeOK'
  BY <1>5 DEF InsertGraph, TypeOK, ownerVars, netVars
<1>6. ASSUME NEW g \in Graph, OnTopology(g) PROVE TypeOK'
  BY <1>6 DEF OnTopology, TypeOK, procVars, Outcome
<1>7. ASSUME NEW g \in Graph, ClientSubmit(g) \/ ClientDown(g) PROVE TypeOK'
  BY <1>7 DEF ClientSubmit, ClientDown, TypeOK, masterVars, ownerVars, netVars
<1>8. CASE TryEnqueueDone \/ DequeueEmpty \/ GiveUp
  BY <1>8 DEF TryEnqueueDone, DequeueEmpty, GiveUp, TypeOK, masterVars, netVars,
              procVars
<1>9. CASE Enqueue
  <2>1. cur \in Graph
    BY <1>9 DEF Enqueue, CurOK
  <2>2. queue' \in Seq(Graph)
    BY <1>9, <2>1 DEF Enqueue, TypeOK
  <2> QED
    BY <1>9, <2>2 DEF Enqueue, TypeOK, netVars, procVars
<1>10. CASE DequeueStale
  BY <1>10 DEF DequeueStale, TypeOK, ownerVars, netVars, procVars
<1>11. CASE DequeueFront
  <2>1. cur' \in Graph
    BY <1>11 DEF DequeueFront, TypeOK
  <2> QED
    BY <1>11, <2>1 DEF DequeueFront, TypeOK, masterVars, netVars, procVars
<1>12. CASE Receive
  <2>1. PICK m \in m2a : AgentReceive(m)
    BY <1>12 DEF Receive
  <2>2. m.agent \in Agent /\ m.task \in Task /\ m.type \in {"Topology", "KillTask"}
    BY DEF TypeOK, ToAgent
  <2>3. held' \in [Agent -> SUBSET Task] /\ doomed' \in SUBSET Task
    BY <2>1, <2>2 DEF AgentReceive, TypeOK
  <2> QED
    BY <2>1, <2>3 DEF AgentReceive, TypeOK, masterVars, ownerVars
<1>13. CASE Report
  BY <1>13 DEF Report, AgentReport, TypeOK, masterVars, ownerVars, ToMaster,
               TaskInfo
<1> QED
  BY <1>1, <1>2, <1>3, <1>4, <1>5, <1>6, <1>7, <1>8, <1>9, <1>10, <1>11, <1>12,
     <1>13

\* The steps that remove graphs.
LEMMA RemovalTypeStep ==
  ASSUME TypeOK, CurOK,
         \/ \E a \in Agent : RemoveAgent(a)
         \/ \E g \in Graph : RemoveGraph(g)
         \/ \E m \in a2m : m.type = "TaskInfo" /\ OnTaskInfo(m)
         \/ Refuse
  PROVE  TypeOK'
<1> USE ConstantsAssumption DEF PC
<1>1. ASSUME NEW a \in Agent, RemoveAgent(a) PROVE TypeOK'
  <2>1. placement \in [Task -> Agent \union {NoKey}] /\ outcome \in [Task -> Outcome]
    BY DEF TypeOK
  <2>2. /\ graphs' \in SUBSET Graph
        /\ topology' \in SUBSET graphs'
        /\ placement' \in [Task -> Agent \union {NoKey}]
        /\ m2a' \in SUBSET ToAgent
        /\ m2c' \in [Graph -> SUBSET Solution]
        /\ outcome' \in [Task -> Outcome]
    BY <1>1, <2>1, RemoveGraphsType DEF RemoveAgent
  <2>3. NoResource \in ResourceType
    BY DEF NoResource, ResourceType
  <2> QED
    BY <1>1, <2>2, <2>3 DEF RemoveAgent, TypeOK, ownerVars, procVars
<1>2. ASSUME NEW g \in Graph, RemoveGraph(g) PROVE TypeOK'
  <2>1. placement \in [Task -> Agent \union {NoKey}] /\ outcome \in [Task -> Outcome]
    BY DEF TypeOK
  <2>2. /\ graphs' \in SUBSET Graph
        /\ topology' \in SUBSET graphs'
        /\ placement' \in [Task -> Agent \union {NoKey}]
        /\ m2a' \in SUBSET ToAgent
        /\ m2c' \in [Graph -> SUBSET Solution]
        /\ outcome' \in [Task -> Outcome]
    BY <1>2, <2>1, RemoveGraphsType DEF RemoveGraph
  <2> QED
    BY <1>2, <2>2 DEF RemoveGraph, TypeOK, procVars
<1>3. ASSUME NEW m \in a2m, m.type = "TaskInfo", OnTaskInfo(m) PROVE TypeOK'
  <2>1. m \in TaskInfo
    BY <1>3 DEF TypeOK, ToMaster
  <2>2. m.agent \in Agent /\ m.task \in Task
    BY <2>1 DEF TaskInfo
  <2> DEFINE t == m.task
             g == GraphOf[t]
             mine == m.agent \in agents /\ t \in tasks[m.agent]
             T == IF mine THEN [tasks EXCEPT ![m.agent] = @ \ {t}] ELSE tasks
             hit == g \in graphs /\ placement[t] # NoKey
             P == IF hit THEN [placement EXCEPT ![t] = NoKey] ELSE placement
             O == IF hit THEN [outcome EXCEPT ![t] = IF m.error THEN "error" ELSE "ok"]
                         ELSE outcome
             done == /\ g \in graphs
                     /\ m.error \/ \A x \in TasksOf(g) : P[x] = NoKey
             G == IF done THEN {g} ELSE {}
  <2>3. P \in [Task -> Agent \union {NoKey}] /\ O \in [Task -> Outcome]
    BY <2>2 DEF TypeOK, Outcome
  <2>4. RemoveGraphs(G, P, T, O, FALSE)
    BY <1>3 DEF OnTaskInfo
  <2>5. /\ graphs' \in SUBSET Graph
        /\ topology' \in SUBSET graphs'
        /\ placement' \in [Task -> Agent \union {NoKey}]
        /\ m2a' \in SUBSET ToAgent
        /\ m2c' \in [Graph -> SUBSET Solution]
        /\ outcome' \in [Task -> Outcome]
    <3> HIDE DEF G, P, T, O
    <3> QED
      BY <2>3, <2>4, RemoveGraphsType
  <2>6. tasks' \in [Agent -> SUBSET Task]
    BY <1>3, <2>2 DEF OnTaskInfo, TypeOK
  <2>7. released' \in [Agent -> ResourceType]
    BY <1>3, <2>2, PlusType DEF OnTaskInfo, TypeOK
  <2>8. a2m' \in SUBSET ToMaster /\ pc' \in PC
    BY <1>3 DEF OnTaskInfo, TypeOK
  <2> HIDE DEF t, g, mine, T, hit, P, O, done, G
  <2>9. UNCHANGED <<agents, known, resource, queue, cur, c2a, c2m, procVars>>
    BY <1>3 DEF OnTaskInfo
  <2> QED
    BY <2>5, <2>6, <2>7, <2>8, <2>9 DEF TypeOK, procVars
<1>4. CASE Refuse
  <2>1. placement \in [Task -> Agent \union {NoKey}] /\ outcome \in [Task -> Outcome]
    BY DEF TypeOK
  <2>2. /\ graphs' \in SUBSET Graph
        /\ topology' \in SUBSET graphs'
        /\ placement' \in [Task -> Agent \union {NoKey}]
        /\ m2a' \in SUBSET ToAgent
        /\ m2c' \in [Graph -> SUBSET Solution]
        /\ outcome' \in [Task -> Outcome]
    BY <1>4, <2>1, RemoveGraphsType DEF Refuse
  <2> QED
    BY <1>4, <2>2 DEF Refuse, TypeOK, procVars
<1> QED
  BY <1>1, <1>2, <1>3, <1>4

\* The steps of the search, which move resources, and the dispatch that ends it.
LEMMA SearchTypeStep ==
  ASSUME TypeOK, CurOK,
         \/ \E t \in Task : \/ TryEnqueue(t) \/ RestoreResource(t)
                           \/ TryDequeue(t) \/ RestoreReleased(t)
         \/ Dispatch
  PROVE  TypeOK'
<1> USE ConstantsAssumption DEF PC
<1>1. ASSUME NEW t \in Task, TryEnqueue(t) PROVE TypeOK'
  <2>1. CASE \E a \in Best(resource, Demand[t]) :
                /\ c2a' = [c2a EXCEPT ![t] = a]
                /\ resource' = [resource EXCEPT ![a] = Minus(@, Demand[t])]
                /\ UNCHANGED pc
    <3>1. PICK a \in Best(resource, Demand[t]) :
                /\ c2a' = [c2a EXCEPT ![t] = a]
                /\ resource' = [resource EXCEPT ![a] = Minus(@, Demand[t])]
                /\ UNCHANGED pc
      BY <2>1
    <3>2. a \in known /\ Geq(resource[a], Demand[t])
      BY BestType
    <3>3. a \in Agent /\ resource[a] \in ResourceType /\ Demand[t] \in ResourceType
      BY <3>2 DEF TypeOK
    <3>4. Minus(resource[a], Demand[t]) \in ResourceType
      BY <3>2, <3>3, MinusType
    <3>5. resource' \in [Agent -> ResourceType] /\ c2a' \in [Task -> Agent \union {NoKey}]
      BY <3>1, <3>3, <3>4 DEF TypeOK
    <3> QED
      BY <1>1, <3>1, <3>5 DEF TryEnqueue, TypeOK, netVars, procVars
  <2>2. CASE pc' = "refuse" /\ UNCHANGED <<c2a, resource>>
    BY <1>1, <2>2 DEF TryEnqueue, TypeOK, netVars, procVars
  <2> QED
    BY <1>1, <2>1, <2>2 DEF TryEnqueue
<1>2. ASSUME NEW t \in Task, RestoreResource(t) PROVE TypeOK'
  <2>1. c2a[t] \in Agent
    BY <1>2 DEF RestoreResource, Assigned, TypeOK
  <2>2. resource' \in [Agent -> ResourceType]
    BY <1>2, <2>1, PlusType DEF RestoreResource, TypeOK
  <2> QED
    BY <1>2, <2>2 DEF RestoreResource, TypeOK, netVars, procVars
<1>3. ASSUME NEW t \in Task, TryDequeue(t) PROVE TypeOK'
  <2>1. CASE \E a \in Best(released, Demand[t]) :
                /\ c2a' = [c2a EXCEPT ![t] = a]
                /\ released' = [released EXCEPT ![a] = Minus(@, Demand[t])]
                /\ UNCHANGED pc
    <3>1. PICK a \in Best(released, Demand[t]) :
                /\ c2a' = [c2a EXCEPT ![t] = a]
                /\ released' = [released EXCEPT ![a] = Minus(@, Demand[t])]
                /\ UNCHANGED pc
      BY <2>1
    <3>2. a \in known /\ Geq(released[a], Demand[t])
      BY BestType
    <3>3. a \in Agent /\ released[a] \in ResourceType /\ Demand[t] \in ResourceType
      BY <3>2 DEF TypeOK
    <3>4. Minus(released[a], Demand[t]) \in ResourceType
      BY <3>2, <3>3, MinusType
    <3>5. released' \in [Agent -> ResourceType] /\ c2a' \in [Task -> Agent \union {NoKey}]
      BY <3>1, <3>3, <3>4 DEF TypeOK
    <3> QED
      BY <1>3, <3>1, <3>5 DEF TryDequeue, TypeOK, netVars, procVars
  <2>2. CASE pc' = "giveback" /\ UNCHANGED <<c2a, released>>
    BY <1>3, <2>2 DEF TryDequeue, TypeOK, netVars, procVars
  <2> QED
    BY <1>3, <2>1, <2>2 DEF TryDequeue
<1>4. ASSUME NEW t \in Task, RestoreReleased(t) PROVE TypeOK'
  <2>1. c2a[t] \in Agent
    BY <1>4 DEF RestoreReleased, Assigned, TypeOK
  <2>2. released' \in [Agent -> ResourceType]
    BY <1>4, <2>1, PlusType DEF RestoreReleased, TypeOK
  <2> QED
    BY <1>4, <2>2 DEF RestoreReleased, TypeOK, netVars, procVars
<1>5. CASE Dispatch
  <2>1. \A t \in TasksOf(cur) : t \in Task /\ c2a[t] \in Agent
    BY <1>5 DEF Dispatch, Unassigned, TasksOf, TypeOK
  <2>2. {[type |-> "Topology", agent |-> c2a[t], task |-> t] : t \in TasksOf(cur)}
          \in SUBSET ToAgent
    BY <2>1 DEF ToAgent
  <2>3. m2a' \in SUBSET ToAgent
    BY <1>5, <2>2, DeliverType DEF Dispatch
  <2>4. placement' \in [Task -> Agent \union {NoKey}]
    BY <1>5 DEF Dispatch, TypeOK
  <2>5. tasks' \in [Agent -> SUBSET Task]
    BY <1>5 DEF Dispatch, TypeOK, TasksOf
  <2>6. queue' \in Seq(Graph)
    BY <1>5 DEF Dispatch, TypeOK, CurOK
  <2> QED
    BY <1>5, <2>3, <2>4, <2>5, <2>6 DEF Dispatch, TypeOK, NoMap, procVars
<1> QED
  BY <1>1, <1>2, <1>3, <1>4, <1>5

LEMMA CurStep ==
  ASSUME TypeOK, CurOK, [Next]_vars
  PROVE  CurOK'
<1> USE DEF CurOK, PC
<1>1. CASE UNCHANGED vars
  BY <1>1 DEF vars, masterVars, ownerVars
<1>2. CASE Handle
  BY <1>2 DEF Handle, OnResource, OnTaskInfo, RemoveAgent, OnTopology, RemoveGraph,
              ownerVars
<1>3. CASE Accept
  BY <1>3 DEF Accept, InsertAgent, InsertGraph, ownerVars
<1>4. CASE Schedule
  <2>1. ASSUME NEW t \in Task,
               \/ TryEnqueue(t) \/ RestoreResource(t)
               \/ TryDequeue(t) \/ RestoreReleased(t)
        PROVE  CurOK'
    BY <2>1 DEF TryEnqueue, RestoreResource, TryDequeue, RestoreReleased
  <2>2. CASE TryEnqueueDone \/ Enqueue \/ Refuse \/ DequeueEmpty
    BY <2>2 DEF TryEnqueueDone, Enqueue, Refuse, DequeueEmpty, masterVars
  <2>3. CASE DequeueStale \/ GiveUp \/ Dispatch
    BY <2>3 DEF DequeueStale, GiveUp, Dispatch, masterVars, ownerVars
  <2>4. CASE DequeueFront
    BY <2>4 DEF DequeueFront, masterVars, TypeOK
  <2> QED
    BY <1>4, <2>1, <2>2, <2>3, <2>4 DEF Schedule
<1>5. CASE Receive \/ Report \/ Environment
  BY <1>5 DEF Receive, AgentReceive, Report, AgentReport, Environment, AgentDown,
              ClientSubmit, ClientDown, masterVars, ownerVars
<1> QED
  BY <1>1, <1>2, <1>3, <1>4, <1>5 DEF Next

LEMMA TypeStep == TypeOK /\ CurOK /\ [Next]_vars => (TypeOK /\ CurOK)'
<1> SUFFICES ASSUME TypeOK, CurOK, [Next]_vars PROVE TypeOK' /\ CurOK'
  OBVIOUS
<1>1. TypeOK'
  BY PlainTypeStep, RemovalTypeStep, SearchTypeStep
     DEF Next, Handle, Accept, Schedule, Environment
<1> QED
  BY <1>1, CurStep

\* Every handler of the master and every step of the scheduler keeps the master's
\* tables well formed; in particular no subtraction of resources underflows.
THEOREM TypeCorrect == Spec => [](TypeOK /\ CurOK)
<1>1. Init => CurOK
  BY DEF Init, CurOK
<1> QED
  BY <1>1, TypeInitially, TypeStep, PTL DEF Spec
-----------------------------------------------------------------------------
(* The owner, the processes and the queue *)

LEMMA OwnerPhaseStep ==
  ASSUME TypeOK, CurOK, OwnerPhase, [Next]_vars
  PROVE  OwnerPhase'
<1> USE ConstantsAssumption DEF OwnerPhase, PC
<1>1. CASE UNCHANGED vars
  BY <1>1 DEF vars, masterVars, ownerVars
<1>2. CASE Handle
  <2>1. ASSUME NEW a \in Agent, OnResource(a) \/ RemoveAgent(a) PROVE OwnerPhase'
    BY <2>1 DEF OnResource, RemoveAgent, RemoveGraphs, ownerVars, TypeOK
  <2>2. ASSUME NEW m \in a2m, OnTaskInfo(m) PROVE OwnerPhase'
    BY <2>2 DEF OnTaskInfo, RemoveGraphs
  <2>3. ASSUME NEW g \in Graph, OnTopology(g) \/ RemoveGraph(g) PROVE OwnerPhase'
    BY <2>3 DEF OnTopology, RemoveGraph
  <2> QED
    BY <1>2, <2>1, <2>2, <2>3 DEF Handle
<1>3. CASE Accept
  BY <1>3 DEF Accept, InsertAgent, InsertGraph, ownerVars
<1>4. CASE Schedule
  <2>1. ASSUME NEW t \in Task, TryEnqueue(t) \/ TryDequeue(t) PROVE OwnerPhase'
    BY <2>1, BestType DEF TryEnqueue, TryDequeue, Unassigned, TasksOf, TypeOK
  <2>2. ASSUME NEW t \in Task, RestoreResource(t) \/ RestoreReleased(t)
        PROVE  OwnerPhase'
    BY <2>2 DEF RestoreResource, RestoreReleased, TypeOK
  <2>3. CASE TryEnqueueDone \/ DequeueEmpty \/ DequeueStale \/ DequeueFront
    BY <2>3 DEF TryEnqueueDone, DequeueEmpty, DequeueStale, DequeueFront, masterVars,
                ownerVars
  <2>4. CASE Enqueue \/ Refuse \/ GiveUp
    BY <2>4 DEF Enqueue, Refuse, GiveUp, Assigned, masterVars
  <2>5. CASE Dispatch
    BY <2>5 DEF Dispatch, NoMap
  <2> QED
    BY <1>4, <2>1, <2>2, <2>3, <2>4, <2>5 DEF Schedule
<1>5. CASE Receive \/ Report \/ Environment
  BY <1>5 DEF Receive, AgentReceive, Report, AgentReport, Environment, AgentDown,
              ClientSubmit, ClientDown, masterVars, ownerVars
<1> QED
  BY <1>1, <1>2, <1>3, <1>4, <1>5 DEF Next

LEMMA LifecycleStep ==
  ASSUME TypeOK, CurOK, OwnerPhase, Lifecycle, [Next]_vars
  PROVE  Lifecycle'
<1> USE ConstantsAssumption DEF Lifecycle
<1>1. CASE UNCHANGED vars
  BY <1>1 DEF vars, masterVars, netVars, procVars
<1>2. CASE Handle
  <2>1. ASSUME NEW a \in Agent, OnResource(a) PROVE Lifecycle'
    BY <2>1 DEF OnResource, procVars, TypeOK
  <2>2. ASSUME NEW a \in Agent, RemoveAgent(a) PROVE Lifecycle'
    BY <2>2 DEF RemoveAgent, RemoveGraphs, procVars, TypeOK
  <2>3. ASSUME NEW m \in a2m, m.type = "TaskInfo", OnTaskInfo(m) PROVE Lifecycle'
    BY <2>3 DEF OnTaskInfo, RemoveGraphs, procVars, TypeOK
  <2>4. ASSUME NEW g \in Graph, OnTopology(g) \/ RemoveGraph(g) PROVE Lifecycle'
    BY <2>4 DEF OnTopology, RemoveGraph, RemoveGraphs, procVars
  <2> QED
    BY <1>2, <2>1, <2>2, <2>3, <2>4 DEF Handle
<1>3. CASE Accept
  BY <1>3 DEF Accept, InsertAgent, InsertGraph, netVars, TypeOK
<1>4. CASE Schedule
  <2>1. ASSUME NEW t \in Task,
               \/ TryEnqueue(t) \/ RestoreResource(t)
               \/ TryDequeue(t) \/ RestoreReleased(t)
        PROVE  Lifecycle'
    BY <2>1 DEF TryEnqueue, RestoreResource, TryDequeue, RestoreReleased, netVars,
                procVars
  <2>2. CASE TryEnqueueDone \/ DequeueEmpty \/ DequeueStale \/ DequeueFront
    BY <2>2 DEF TryEnqueueDone, DequeueEmpty, DequeueStale, DequeueFront, masterVars,
                netVars, procVars
  <2>3. CASE Enqueue \/ Refuse \/ GiveUp
    BY <2>3 DEF Enqueue, Refuse, RemoveGraphs, GiveUp, masterVars, netVars, procVars
  <2>4. CASE Dispatch
    BY <2>4 DEF Dispatch, TasksOf, OwnerPhase, procVars, TypeOK
  <2> QED
    BY <1>4, <2>1, <2>2, <2>3, <2>4 DEF Schedule
<1>5. CASE Receive
  BY <1>5 DEF Receive, AgentReceive, masterVars
<1>6. CASE Report
  BY <1>6 DEF Report, AgentReport, masterVars
<1>7. CASE Environment
  BY <1>7 DEF Environment, AgentDown, ClientSubmit, ClientDown, masterVars, netVars,
              TypeOK
<1> QED
  BY <1>1, <1>2, <1>3, <1>4, <1>5, <1>6, <1>7 DEF Next

\* What Tail and Append do to the elements of a sequence.
LEMMA TailElements ==
  ASSUME NEW S, NEW q \in Seq(S), q # <<>>
  PROVE  /\ DOMAIN Tail(q) = 1..(Len(q) - 1)
         /\ \A i \in DOMAIN Tail(q) : i + 1 \in DOMAIN q /\ Tail(q)[i] = q[i + 1]
         /\ 1 \in DOMAIN q /\ q[1] = Head(q)
OBVIOUS

LEMMA AppendElements ==
  ASSUME NEW S, NEW q \in Seq(S), NEW x \in S
  PROVE  /\ DOMAIN Append(q, x) = DOMAIN q \union {Len(q) + 1}
         /\ Len(q) + 1 \notin DOMAIN q
         /\ \A i \in DOMAIN q : Append(q, x)[i] = q[i]
         /\ Append(q, x)[Len(q) + 1] = x
OBVIOUS

LEMMA QueueStep ==
  ASSUME TypeOK, CurOK, OwnerPhase, Lifecycle, QueueInv, [Next]_vars
  PROVE  QueueInv'
<1> USE ConstantsAssumption DEF QueueInv, Queued, Unsubmitted, PC
<1>1. CASE UNCHANGED vars
  BY <1>1 DEF vars, masterVars, ownerVars, netVars, procVars
<1>2. CASE Handle
  <2>1. ASSUME NEW a \in Agent, OnResource(a) \/ RemoveAgent(a) PROVE QueueInv'
    BY <2>1 DEF OnResource, RemoveAgent, ownerVars, procVars
  <2>2. ASSUME NEW m \in a2m, OnTaskInfo(m) PROVE QueueInv'
    BY <2>2 DEF OnTaskInfo, procVars
  <2>3. ASSUME NEW g \in Graph, OnTopology(g) PROVE QueueInv'
    BY <2>3 DEF OnTopology, procVars, Lifecycle
  <2>4. ASSUME NEW g \in Graph, RemoveGraph(g) PROVE QueueInv'
    BY <2>4 DEF RemoveGraph, procVars
  <2> QED
    BY <1>2, <2>1, <2>2, <2>3, <2>4 DEF Handle
<1>3. CASE Accept
  BY <1>3 DEF Accept, InsertAgent, InsertGraph, ownerVars, netVars, TypeOK
<1>4. CASE Schedule
  <2>1. ASSUME NEW t \in Task,
               \/ TryEnqueue(t) \/ RestoreResource(t)
               \/ TryDequeue(t) \/ RestoreReleased(t)
        PROVE  QueueInv'
    BY <2>1 DEF TryEnqueue, RestoreResource, TryDequeue, RestoreReleased, netVars,
                procVars
  <2>2. CASE TryEnqueueDone \/ DequeueEmpty \/ Refuse \/ GiveUp
    BY <2>2 DEF TryEnqueueDone, DequeueEmpty, Refuse, GiveUp, masterVars, netVars,
                procVars
  <2>3. CASE DequeueFront
    BY <2>3, TailElements DEF DequeueFront, masterVars, netVars, procVars, TypeOK
  <2>4. CASE DequeueStale \/ Dispatch
    <3>1. queue \in Seq(Graph) /\ queue # <<>> /\ queue' = Tail(queue)
      BY <2>4 DEF DequeueStale, Dispatch, TypeOK, CurOK
    <3> QED
      BY <2>4, <3>1, TailElements DEF DequeueStale, Dispatch, ownerVars, netVars,
                                      procVars
  <2>5. CASE Enqueue
    <3>1. queue \in Seq(Graph) /\ cur \in Graph /\ queue' = Append(queue, cur)
      BY <2>5 DEF Enqueue, TypeOK, CurOK
    <3> QED
      BY <2>5, <3>1, AppendElements DEF Enqueue, netVars, procVars
  <2> QED
    BY <1>4, <2>1, <2>2, <2>3, <2>4, <2>5 DEF Schedule
<1>5. CASE Receive \/ Report
  BY <1>5 DEF Receive, AgentReceive, Report, AgentReport, masterVars, ownerVars
<1>6. CASE Environment
  BY <1>6 DEF Environment, AgentDown, ClientSubmit, ClientDown, masterVars,
              ownerVars, netVars, TypeOK
<1> QED
  BY <1>1, <1>2, <1>3, <1>4, <1>5, <1>6 DEF Next

\* A graph that the scheduler is through with is never submitted, queued or tried
\* again.
LEMMA NotStartedShrinks ==
  ASSUME TypeOK, CurOK, OwnerPhase, Lifecycle, QueueInv, [Next]_vars
  PROVE  \A g \in Graph : NotStarted(g)' => NotStarted(g)
<1> USE ConstantsAssumption DEF NotStarted, Queued, Unsubmitted, PC
<1>1. CASE UNCHANGED vars
  BY <1>1 DEF vars, masterVars, ownerVars, netVars, procVars
<1>2. CASE Handle
  BY <1>2 DEF Handle, OnResource, RemoveAgent, OnTaskInfo, OnTopology, RemoveGraph,
              ownerVars, procVars
<1>3. CASE Accept
  BY <1>3 DEF Accept, InsertAgent, InsertGraph, ownerVars, netVars, TypeOK
<1>4. CASE Schedule
  <2>1. CASE \E t \in Task : \/ TryEnqueue(t) \/ RestoreResource(t)
                            \/ TryDequeue(t) \/ RestoreReleased(t)
    BY <2>1 DEF TryEnqueue, RestoreResource, TryDequeue, RestoreReleased, netVars,
                procVars
  <2>2. CASE TryEnqueueDone \/ DequeueEmpty \/ GiveUp \/ Refuse
    BY <2>2 DEF TryEnqueueDone, DequeueEmpty, GiveUp, Refuse, masterVars, netVars,
                procVars
  <2>3. CASE DequeueFront
    BY <2>3, TailElements DEF DequeueFront, masterVars, netVars, procVars, TypeOK
  <2>4. CASE DequeueStale \/ Dispatch
    <3>1. queue \in Seq(Graph) /\ queue # <<>> /\ queue' = Tail(queue)
      BY <2>4 DEF DequeueStale, Dispatch, TypeOK, CurOK
    <3> QED
      BY <2>4, <3>1, TailElements DEF DequeueStale, Dispatch, ownerVars, netVars,
                                      procVars
  <2>5. CASE Enqueue
    <3>1. queue \in Seq(Graph) /\ cur \in Graph /\ queue' = Append(queue, cur)
      BY <2>5 DEF Enqueue, TypeOK, CurOK
    <3> QED
      BY <2>5, <3>1, AppendElements DEF Enqueue, netVars, procVars
  <2> QED
    BY <1>4, <2>1, <2>2, <2>3, <2>4, <2>5 DEF Schedule
<1>5. CASE Receive \/ Report
  BY <1>5 DEF Receive, AgentReceive, Report, AgentReport, masterVars, ownerVars
<1>6. CASE Environment
  BY <1>6 DEF Environment, AgentDown, ClientSubmit, ClientDown, masterVars,
              ownerVars, netVars, TypeOK
<1> QED
  BY <1>1, <1>2, <1>3, <1>4, <1>5, <1>6 DEF Next

\* _try_dequeue is through with the graph it dispatches: the queue holds it once.
LEMMA DispatchStarts ==
  ASSUME TypeOK, CurOK, OwnerPhase, QueueInv, Dispatch
  PROVE  \A g \in Graph : NotStarted(g)' => g # cur
<1>1. queue \in Seq(Graph) /\ queue # <<>> /\ queue' = Tail(queue)
  BY DEF Dispatch, TypeOK, CurOK
<1>2. cur = queue[1] /\ cur \in Graph /\ cur # NoKey
  BY <1>1, TailElements, ConstantsAssumption DEF Dispatch, OwnerPhase, CurOK
<1>3. \A i \in DOMAIN queue' : queue'[i] # cur
  BY <1>1, <1>2, TailElements DEF QueueInv
<1>4. ~Unsubmitted(cur)
  BY <1>2 DEF QueueInv
<1>5. cur' = NoKey /\ UNCHANGED <<cproc, c2m>>
  BY DEF Dispatch, procVars
<1> QED
  BY <1>2, <1>3, <1>4, <1>5 DEF NotStarted, Queued, Unsubmitted

\* What the handler of a TaskInfo does to the tables, with its local names gone.
LEMMA OnTaskInfoTables ==
  ASSUME TypeOK, NEW m \in a2m, m.type = "TaskInfo", OnTaskInfo(m)
  PROVE  /\ m.agent \in Agent /\ m.task \in Task
         /\ pc = "idle" /\ pc' = "dequeue"
         /\ UNCHANGED <<agents, known, resource, queue, cur, c2a, aproc, doomed>>
         /\ a2m' = a2m \ {m}
         /\ \A a \in Agent : tasks'[a] \subseteq tasks[a]
         /\ \A a \in Agent : \A t \in tasks[a] : t \in tasks'[a] \/ t = m.task
         /\ \A a \in Agent \ {m.agent} : tasks'[a] = tasks[a]
         /\ m.agent \in agents => tasks'[m.agent] = tasks[m.agent] \ {m.task}
         /\ m.agent \in agents => m.task \notin tasks'[m.agent]
         /\ released' = IF m.agent \in agents /\ m.task \in tasks[m.agent]
              THEN [released EXCEPT ![m.agent] = Plus(@, Demand[m.task])]
              ELSE released
         /\ \E G, P, O :
              /\ G \subseteq {GraphOf[m.task]}
              /\ \A t \in Task \ {m.task} : P[t] = placement[t]
              /\ P[m.task] = IF GraphOf[m.task] \in graphs THEN NoKey
                                                            ELSE placement[m.task]
              /\ RemoveGraphs(G, P, tasks', O, FALSE)
<1> DEFINE t == m.task
           g == GraphOf[t]
           mine == m.agent \in agents /\ t \in tasks[m.agent]
           T == IF mine THEN [tasks EXCEPT ![m.agent] = @ \ {t}] ELSE tasks
           hit == g \in graphs /\ placement[t] # NoKey
           P == IF hit THEN [placement EXCEPT ![t] = NoKey] ELSE placement
           O == IF hit THEN [outcome EXCEPT ![t] = IF m.error THEN "error" ELSE "ok"]
                       ELSE outcome
           done == /\ g \in graphs
                   /\ m.error \/ \A x \in TasksOf(g) : P[x] = NoKey
           G == IF done THEN {g} ELSE {}
<1>1. m.agent \in Agent /\ m.task \in Task
  BY DEF TypeOK, ToMaster, TaskInfo
<1>2. pc = "idle" /\ pc' = "dequeue" /\ a2m' = a2m \ {m}
  BY DEF OnTaskInfo
<1>3. UNCHANGED <<agents, known, resource, queue, cur, c2a, aproc, doomed>>
  BY DEF OnTaskInfo, procVars
<1>4. tasks' = T
  BY DEF OnTaskInfo
<1>5. /\ \A a \in Agent : T[a] \subseteq tasks[a]
      /\ \A a \in Agent : \A x \in tasks[a] : x \in T[a] \/ x = m.task
      /\ \A a \in Agent \ {m.agent} : T[a] = tasks[a]
      /\ m.agent \in agents => T[m.agent] = tasks[m.agent] \ {m.task}
      /\ m.agent \in agents => m.task \notin T[m.agent]
  BY <1>1 DEF TypeOK
<1>6. released' = IF mine THEN [released EXCEPT ![m.agent] = Plus(@, Demand[t])]
                          ELSE released
  BY DEF OnTaskInfo
<1>7. RemoveGraphs(G, P, T, O, FALSE)
  BY DEF OnTaskInfo
<1>8. /\ \A x \in Task \ {m.task} : P[x] = placement[x]
      /\ P[m.task] = IF GraphOf[m.task] \in graphs THEN NoKey ELSE placement[m.task]
  BY <1>1 DEF TypeOK
<1>9. G \subseteq {GraphOf[m.task]}
  OBVIOUS
<1>10. RemoveGraphs(G, P, tasks', O, FALSE)
  BY <1>4, <1>7
<1>11. \E GG, PP, OO :
          /\ GG \subseteq {GraphOf[m.task]}
          /\ \A x \in Task \ {m.task} : PP[x] = placement[x]
          /\ PP[m.task] = IF GraphOf[m.task] \in graphs THEN NoKey
                                                         ELSE placement[m.task]
          /\ RemoveGraphs(GG, PP, tasks', OO, FALSE)
  <2> HIDE DEF P, O, G
  <2> QED
    BY <1>8, <1>9, <1>10
<1> HIDE DEF T, P, O, G
<1> QED
  BY <1>1, <1>2, <1>3, <1>4, <1>5, <1>6, <1>11

LEMMA UnstartedStep ==
  ASSUME TypeOK, CurOK, OwnerPhase, Lifecycle, QueueInv, Unstarted, [Next]_vars
  PROVE  Unstarted'
<1>1. SUFFICES
        ASSUME NEW t \in Task, NotStarted(GraphOf[t])'
        PROVE  /\ placement[t] = NoKey => placement'[t] = NoKey
               /\ \A a \in Agent : t \in tasks'[a] => t \in tasks[a]
  BY NotStartedShrinks, ConstantsAssumption DEF Unstarted
<1>2. CASE UNCHANGED vars
  BY <1>2 DEF vars, masterVars
<1>3. CASE Handle
  <2>1. CASE \E a \in Agent : OnResource(a) \/ RemoveAgent(a)
    <3>1. PICK a \in Agent : OnResource(a) \/ RemoveAgent(a)
      BY <2>1
    <3>2. placement[t] = NoKey => placement'[t] = NoKey
      BY <3>1 DEF OnResource, RemoveAgent, RemoveGraphs
    <3>3. tasks' = tasks \/ tasks' = [tasks EXCEPT ![a] = {}]
      BY <3>1 DEF OnResource, RemoveAgent
    <3> QED
      BY <3>2, <3>3 DEF TypeOK
  <2>2. CASE \E m \in a2m : m.type = "TaskInfo" /\ OnTaskInfo(m)
    <3>1. PICK m \in a2m : m.type = "TaskInfo" /\ OnTaskInfo(m)
      BY <2>2
    <3>2. \A a \in Agent : tasks'[a] \subseteq tasks[a]
      BY <3>1, OnTaskInfoTables
    <3>3. PICK G, P, O :
            /\ \A x \in Task \ {m.task} : P[x] = placement[x]
            /\ P[m.task] = IF GraphOf[m.task] \in graphs THEN NoKey
                                                          ELSE placement[m.task]
            /\ RemoveGraphs(G, P, tasks', O, FALSE)
      BY <3>1, OnTaskInfoTables
    <3>4. placement'[t] = IF GraphOf[t] \in G THEN NoKey ELSE P[t]
      BY <3>3 DEF RemoveGraphs
    <3> QED
      BY <3>2, <3>3, <3>4
  <2>3. CASE \E g \in Graph : OnTopology(g) \/ RemoveGraph(g)
    BY <2>3 DEF OnTopology, RemoveGraph, RemoveGraphs
  <2> QED
    BY <1>3, <2>1, <2>2, <2>3 DEF Handle
<1>4. CASE Dispatch
  <2>1. GraphOf[t] # cur
    BY <1>1, <1>4, DispatchStarts, ConstantsAssumption
  <2> QED
    BY <1>4, <2>1 DEF Dispatch, TasksOf
<1>5. CASE Schedule /\ ~Dispatch
  BY <1>5 DEF Schedule, TryEnqueue, RestoreResource, TryDequeue, RestoreReleased,
              TryEnqueueDone, Enqueue, Refuse, RemoveGraphs, DequeueEmpty,
              DequeueStale, DequeueFront, GiveUp, masterVars
<1>6. CASE Accept \/ Receive \/ Report \/ Environment
  BY <1>6 DEF Accept, InsertAgent, InsertGraph, Receive, AgentReceive, Report,
              AgentReport, Environment, AgentDown, ClientSubmit, ClientDown,
              masterVars
<1> QED
  BY <1>2, <1>3, <1>4, <1>5, <1>6 DEF Next
-----------------------------------------------------------------------------
(* Where tasks run *)

\* A removal sends no topology.
LEMMA RemoveGraphsTopologies ==
  ASSUME NEW G, NEW P, NEW T, NEW O, NEW w, RemoveGraphs(G, P, T, O, w)
  PROVE  \A m \in m2a' : m.type = "Topology" => m \in m2a
BY DEF RemoveGraphs, Deliver, Kills

\* Only the dispatch of a graph makes an agent hear of a task.
LEMMA TraceShrinks ==
  ASSUME TypeOK, [Next]_vars, ~Dispatch,
         NEW a \in Agent, NEW t \in Task, Trace(a, t)'
  PROVE  Trace(a, t)
<1> USE DEF Trace, Reports
<1>1. CASE UNCHANGED vars
  BY <1>1 DEF vars, netVars, procVars
<1>2. CASE Handle
  <2>1. ASSUME NEW b \in Agent, OnResource(b) PROVE Trace(a, t)
    BY <2>1 DEF OnResource, procVars
  <2>2. ASSUME NEW b \in Agent, RemoveAgent(b) PROVE Trace(a, t)
    <3>1. \A m \in m2a' : m.type = "Topology" => m \in m2a
      BY <2>2, RemoveGraphsTopologies DEF RemoveAgent
    <3>2. a2m' \subseteq a2m /\ UNCHANGED held
      BY <2>2 DEF RemoveAgent, procVars
    <3> QED
      BY <3>1, <3>2
  <2>3. ASSUME NEW m \in a2m, m.type = "TaskInfo", OnTaskInfo(m) PROVE Trace(a, t)
    <3>1. \A n \in m2a' : n.type = "Topology" => n \in m2a
      BY <2>3, OnTaskInfoTables, RemoveGraphsTopologies
    <3>2. a2m' \subseteq a2m /\ UNCHANGED held
      BY <2>3 DEF OnTaskInfo, procVars
    <3> QED
      BY <3>1, <3>2
  <2>4. ASSUME NEW g \in Graph, OnTopology(g) PROVE Trace(a, t)
    BY <2>4 DEF OnTopology, procVars
  <2>5. ASSUME NEW g \in Graph, RemoveGraph(g) PROVE Trace(a, t)
    <3>1. \A m \in m2a' : m.type = "Topology" => m \in m2a
      BY <2>5, RemoveGraphsTopologies DEF RemoveGraph
    <3> QED
      BY <2>5, <3>1 DEF RemoveGraph, procVars
  <2> QED
    BY <1>2, <2>1, <2>2, <2>3, <2>4, <2>5 DEF Handle
<1>3. CASE Accept
  BY <1>3 DEF Accept, InsertAgent, InsertGraph, netVars
<1>4. CASE Refuse
  <2>1. \A m \in m2a' : m.type = "Topology" => m \in m2a
    BY <1>4, RemoveGraphsTopologies DEF Refuse
  <2> QED
    BY <1>4, <2>1 DEF Refuse, procVars
<1>5. CASE Schedule /\ ~Refuse
  BY <1>5 DEF Schedule, TryEnqueue, RestoreResource, TryDequeue, RestoreReleased,
              TryEnqueueDone, Enqueue, DequeueEmpty, DequeueStale, DequeueFront,
              GiveUp, netVars, procVars
<1>6. CASE Receive
  BY <1>6 DEF Receive, AgentReceive, TypeOK, ToAgent
<1>7. CASE Report
  BY <1>7 DEF Report, AgentReport, TypeOK
<1>8. CASE Environment
  BY <1>8 DEF Environment, AgentDown, ClientSubmit, ClientDown, netVars, TypeOK
<1> QED
  BY <1>1, <1>2, <1>3, <1>4, <1>5, <1>6, <1>7, <1>8 DEF Next

\* Only the dispatch of a graph adds to the table of an agent.
LEMMA TasksShrink ==
  ASSUME TypeOK, [Next]_vars, ~Dispatch, NEW a \in Agent
  PROVE  tasks'[a] \subseteq tasks[a]
<1>1. CASE UNCHANGED vars
  BY <1>1 DEF vars, masterVars
<1>2. CASE Handle
  <2>1. ASSUME NEW b \in Agent, OnResource(b) \/ RemoveAgent(b)
        PROVE  tasks'[a] \subseteq tasks[a]
    <3>1. tasks' = tasks \/ tasks' = [tasks EXCEPT ![b] = {}]
      BY <2>1 DEF OnResource, RemoveAgent
    <3> QED
      BY <3>1 DEF TypeOK
  <2>2. ASSUME NEW m \in a2m, m.type = "TaskInfo", OnTaskInfo(m)
        PROVE  tasks'[a] \subseteq tasks[a]
    BY <2>2, OnTaskInfoTables
  <2>3. ASSUME NEW g \in Graph, OnTopology(g) \/ RemoveGraph(g)
        PROVE  tasks'[a] \subseteq tasks[a]
    BY <2>3 DEF OnTopology, RemoveGraph
  <2> QED
    BY <1>2, <2>1, <2>2, <2>3 DEF Handle
<1>3. CASE Schedule
  BY <1>3 DEF Schedule, TryEnqueue, RestoreResource, TryDequeue, RestoreReleased,
              TryEnqueueDone, Enqueue, Refuse, DequeueEmpty, DequeueStale,
              DequeueFront, GiveUp, masterVars
<1>4. CASE Accept \/ Receive \/ Report \/ Environment
  BY <1>4 DEF Accept, InsertAgent, InsertGraph, Receive, AgentReceive, Report,
              AgentReport, Environment, AgentDown, ClientSubmit, ClientDown,
              masterVars
<1> QED
  BY <1>1, <1>2, <1>3, <1>4 DEF Next

LEMMA TracesStep ==
  ASSUME TypeOK, CurOK, OwnerPhase, Lifecycle, QueueInv, Unstarted, Traces,
         [Next]_vars
  PROVE  Traces'
<1> USE ConstantsAssumption
<1>1. CASE ~Dispatch
  BY <1>1, TraceShrinks, TasksShrink, NotStartedShrinks DEF Traces
<1>2. CASE Dispatch
  <2>1. SUFFICES ASSUME NEW a \in Agent, NEW t \in Task, Trace(a, t)'
                 PROVE  /\ ~NotStarted(GraphOf[t])'
                        /\ \A b \in Agent : t \in tasks'[b] => b = a
    BY DEF Traces
  <2>2. CASE GraphOf[t] = cur
    <3>1. ~Trace(a, t)
      BY <2>2 DEF Traces, NotStarted
    <3>2. c2a[t] = a
      BY <1>2, <2>1, <2>2, <3>1 DEF Dispatch, Trace, Reports, Deliver, procVars
    <3>3. \A b \in Agent : t \in tasks'[b] => b = a
      BY <1>2, <2>2, <3>2 DEF Dispatch, TasksOf, Unstarted, NotStarted
    <3> QED
      BY <1>2, <2>2, <3>3, DispatchStarts
  <2>3. CASE GraphOf[t] # cur
    <3>1. Trace(a, t)
      BY <1>2, <2>1, <2>3 DEF Dispatch, Trace, Reports, Deliver, TasksOf, procVars
    <3>2. \A b \in Agent : t \in tasks'[b] => t \in tasks[b]
      BY <1>2, <2>3 DEF Dispatch, TasksOf
    <3> QED
      BY <3>1, <3>2, NotStartedShrinks DEF Traces
  <2> QED
    BY <2>2, <2>3
<1> QED
  BY <1>1, <1>2

\* A report of a task comes from the agent that lists it.
LEMMA ReporterListsTask ==
  ASSUME TypeOK, Traces, NEW m \in a2m, m.type = "TaskInfo",
         NEW b \in Agent, m.task \in tasks[b]
  PROVE  b = m.agent
<1>1. m.agent \in Agent /\ m.task \in Task
  BY DEF TypeOK, ToMaster, TaskInfo
<1>2. Trace(m.agent, m.task)
  BY DEF Trace, Reports
<1> QED
  BY <1>1, <1>2 DEF Traces

LEMMA TasksInAgents ==
  ASSUME TypeOK, Lifecycle, NEW a \in Agent, tasks[a] # {}
  PROVE  a \in agents
BY DEF TypeOK, Lifecycle

LEMMA PlacementStep ==
  ASSUME TypeOK, CurOK, OwnerPhase, Lifecycle, QueueInv, Unstarted, Traces,
         PlacementConsistent, [Next]_vars
  PROVE  PlacementConsistent'
<1> USE ConstantsAssumption DEF PlacementConsistent
<1>1. CASE UNCHANGED vars
  BY <1>1 DEF vars, masterVars
<1>2. CASE Handle
  <2>1. ASSUME NEW a \in Agent, OnResource(a) PROVE PlacementConsistent'
    BY <2>1 DEF OnResource
  <2>2. ASSUME NEW a \in Agent, RemoveAgent(a) PROVE PlacementConsistent'
    <3> DEFINE G == {GraphOf[t] : t \in tasks[a]} \intersect graphs
    <3>1. /\ graphs' = graphs \ G
          /\ placement' = [t \in Task |-> IF GraphOf[t] \in G THEN NoKey
                                                             ELSE placement[t]]
          /\ agents' = agents \ {a}
          /\ tasks' = [tasks EXCEPT ![a] = {}]
      BY <2>2 DEF RemoveAgent, RemoveGraphs
    <3>2. \A t \in tasks[a] : GraphOf[t] \in graphs => GraphOf[t] \in G
      OBVIOUS
    <3> HIDE DEF G
    <3> QED
      BY <3>1, <3>2 DEF Lifecycle, TypeOK
  <2>3. ASSUME NEW m \in a2m, m.type = "TaskInfo", OnTaskInfo(m)
        PROVE  PlacementConsistent'
    <3>1. /\ m.agent \in Agent /\ m.task \in Task
          /\ agents' = agents
          /\ \A a \in Agent : tasks'[a] \subseteq tasks[a]
          /\ \A a \in Agent : \A t \in tasks[a] : t \in tasks'[a] \/ t = m.task
          /\ m.agent \in agents => m.task \notin tasks'[m.agent]
      BY <2>3, OnTaskInfoTables
    <3>2. PICK G, P, O :
              /\ G \subseteq {GraphOf[m.task]}
              /\ \A t \in Task \ {m.task} : P[t] = placement[t]
              /\ P[m.task] = IF GraphOf[m.task] \in graphs THEN NoKey
                                                            ELSE placement[m.task]
              /\ RemoveGraphs(G, P, tasks', O, FALSE)
      BY <2>3, OnTaskInfoTables
    <3>3. /\ graphs' = graphs \ G
          /\ placement' = [t \in Task |-> IF GraphOf[t] \in G THEN NoKey ELSE P[t]]
      BY <3>2 DEF RemoveGraphs
    <3>4. \A b \in Agent : m.task \in tasks[b] => b = m.agent
      BY <2>3, ReporterListsTask
    <3>5. ASSUME NEW t \in Task, placement'[t] # NoKey
          PROVE  placement'[t] \in agents' /\ t \in tasks'[placement'[t]]
      <4>1. t # m.task /\ placement'[t] = placement[t]
        BY <3>1, <3>2, <3>3, <3>5 DEF Lifecycle
      <4>2. placement[t] \in agents /\ t \in tasks[placement[t]]
        BY <3>5, <4>1
      <4> QED
        BY <3>1, <4>1, <4>2 DEF TypeOK
    <3>6. ASSUME NEW b \in Agent, NEW t \in tasks'[b], GraphOf[t] \in graphs'
          PROVE  placement'[t] = b
      <4>1. t \in tasks[b] /\ t \in Task /\ b \in agents
        BY <3>1, <3>6, TasksInAgents DEF TypeOK
      <4>2. t # m.task
        BY <3>1, <3>4, <3>6, <4>1
      <4> QED
        BY <3>2, <3>3, <3>6, <4>1, <4>2
    <3> QED
      BY <3>5, <3>6
  <2>4. ASSUME NEW g \in Graph, OnTopology(g) PROVE PlacementConsistent'
    BY <2>4 DEF OnTopology
  <2>5. ASSUME NEW g \in Graph, RemoveGraph(g) PROVE PlacementConsistent'
    BY <2>5 DEF RemoveGraph, RemoveGraphs, TypeOK
  <2> QED
    BY <1>2, <2>1, <2>2, <2>3, <2>4, <2>5 DEF Handle
<1>3. ASSUME NEW a \in Agent, InsertAgent(a) PROVE PlacementConsistent'
  BY <1>3 DEF InsertAgent
<1>4. ASSUME NEW g \in Graph, InsertGraph(g) PROVE PlacementConsistent'
  BY <1>4 DEF InsertGraph, Unstarted, NotStarted, Unsubmitted, TypeOK
<1>5. CASE Schedule
  <2>1. ASSUME NEW t \in Task,
               \/ TryEnqueue(t) \/ RestoreResource(t)
               \/ TryDequeue(t) \/ RestoreReleased(t)
        PROVE  PlacementConsistent'
    BY <2>1 DEF TryEnqueue, RestoreResource, TryDequeue, RestoreReleased
  <2>2. CASE TryEnqueueDone \/ DequeueEmpty \/ GiveUp \/ DequeueFront
    BY <2>2 DEF TryEnqueueDone, DequeueEmpty, GiveUp, DequeueFront, masterVars
  <2>3. CASE Refuse
    BY <2>3 DEF Refuse, RemoveGraphs, TypeOK
  <2>4. CASE DequeueStale \/ Enqueue
    BY <2>4 DEF DequeueStale, Enqueue
  <2>5. CASE Dispatch
    <3>1. \A t \in TasksOf(cur) : c2a[t] \in known /\ \A a \in Agent : t \notin tasks[a]
      BY <2>5 DEF Dispatch, Unassigned, TasksOf, OwnerPhase, Unstarted, NotStarted,
                 TypeOK
    <3> QED
      BY <2>5, <3>1 DEF Dispatch, TasksOf, TypeOK
  <2> QED
    BY <1>5, <2>1, <2>2, <2>3, <2>4, <2>5 DEF Schedule
<1>6. CASE Receive \/ Report \/ Environment
  BY <1>6 DEF Receive, AgentReceive, Report, AgentReport, Environment, AgentDown,
              ClientSubmit, ClientDown, masterVars
<1> QED
  BY <1>1, <1>2, <1>3, <1>4, <1>5, <1>6 DEF Next, Accept

\* Removing graphs leaves no orphan behind, whatever part T of the task tables the
\* handler has kept, as long as their tasks are still placed.
LEMMA OrphansAfterRemoval ==
  ASSUME TypeOK, PlacementConsistent, OrphansKilled,
         NEW G, NEW P, NEW T,
         graphs' = graphs \ G, m2a' = Deliver(Kills(G, P, T)),
         NEW a \in agents, NEW t \in T[a], T[a] \subseteq tasks[a],
         P[t] = placement[t],
         GraphOf[t] \notin graphs', aproc[a] = "up"
  PROVE  \/ [type |-> "KillTask", agent |-> a, task |-> t] \in m2a'
         \/ t \in doomed
         \/ \E m \in a2m : m.type = "TaskInfo" /\ m.agent = a /\ m.task = t
<1>1. m2a \subseteq m2a'
  BY DEF Deliver
<1>2. a \in Agent /\ t \in Task /\ t \in tasks[a]
  BY DEF TypeOK
<1>3. CASE GraphOf[t] \in graphs
  <2>1. GraphOf[t] \in G /\ P[t] = a
    BY <1>1, <1>2, <1>3 DEF PlacementConsistent
  <2> QED
    BY <1>2, <2>1 DEF Deliver, Kills
<1>4. CASE GraphOf[t] \notin graphs
  BY <1>1, <1>2, <1>4 DEF OrphansKilled
<1> QED
  BY <1>3, <1>4

LEMMA OrphansUnchanged ==
  ASSUME TypeOK, PlacementConsistent, OrphansKilled,
         NEW G, graphs' = graphs \ G, m2a' = Deliver(Kills(G, placement, tasks)),
         UNCHANGED <<agents, tasks, a2m, aproc, doomed>>
  PROVE  OrphansKilled'
<1>1. SUFFICES ASSUME NEW a \in agents, NEW t \in tasks[a],
                      GraphOf[t] \notin graphs', aproc[a] = "up"
               PROVE  \/ [type |-> "KillTask", agent |-> a, task |-> t] \in m2a'
                      \/ t \in doomed
                      \/ \E m \in a2m : m.type = "TaskInfo" /\ m.agent = a /\ m.task = t
  BY DEF OrphansKilled
<1> QED
  BY <1>1, OrphansAfterRemoval

LEMMA OrphansStep ==
  ASSUME TypeOK, CurOK, OwnerPhase, Lifecycle, Unstarted, Traces,
         PlacementConsistent, OrphansKilled, [Next]_vars
  PROVE  OrphansKilled'
<1> USE ConstantsAssumption DEF OrphansKilled
<1>1. CASE UNCHANGED vars
  BY <1>1 DEF vars, masterVars, netVars, procVars
<1>2. CASE Handle
  <2>1. ASSUME NEW a \in Agent, OnResource(a) PROVE OrphansKilled'
    BY <2>1 DEF OnResource, procVars
  <2>2. ASSUME NEW a \in Agent, RemoveAgent(a) PROVE OrphansKilled'
    <3> DEFINE G == {GraphOf[t] : t \in tasks[a]} \intersect graphs
    <3>1. RemoveGraphs(G, placement, tasks, outcome, FALSE)
      BY <2>2 DEF RemoveAgent
    <3>2. /\ agents' = agents \ {a}
          /\ tasks' = [tasks EXCEPT ![a] = {}]
          /\ \A m \in a2m : m.agent # a => m \in a2m'
          /\ UNCHANGED <<aproc, doomed>>
      BY <2>2 DEF RemoveAgent, procVars
    <3> HIDE DEF G
    <3>3. SUFFICES ASSUME NEW b \in agents', NEW t \in tasks'[b],
                          GraphOf[t] \notin graphs', aproc[b] = "up"
                   PROVE  \/ [type |-> "KillTask", agent |-> b, task |-> t] \in m2a'
                          \/ t \in doomed
                          \/ \E n \in a2m' : /\ n.type = "TaskInfo"
                                             /\ n.agent = b /\ n.task = t
      BY <3>2
    <3>4. b \in agents /\ b # a /\ t \in tasks[b]
      BY <3>2, <3>3 DEF TypeOK
    <3>5. \/ [type |-> "KillTask", agent |-> b, task |-> t] \in m2a'
          \/ t \in doomed
          \/ \E n \in a2m : n.type = "TaskInfo" /\ n.agent = b /\ n.task = t
      <4>1. graphs' = graphs \ G /\ m2a' = Deliver(Kills(G, placement, tasks))
        BY <3>1 DEF RemoveGraphs
      <4> QED
        BY <3>3, <3>4, <4>1, OrphansAfterRemoval
    <3> QED
      BY <3>2, <3>4, <3>5
  <2>3. ASSUME NEW m \in a2m, m.type = "TaskInfo", OnTaskInfo(m)
        PROVE  OrphansKilled'
    <3>1. PICK G, P, O :
              /\ \A t \in Task \ {m.task} : P[t] = placement[t]
              /\ RemoveGraphs(G, P, tasks', O, FALSE)
      BY <2>3, OnTaskInfoTables
    <3>2. /\ m.agent \in Agent /\ m.task \in Task
          /\ UNCHANGED <<agents, aproc, doomed>>
          /\ \A b \in Agent : tasks'[b] \subseteq tasks[b]
          /\ m.agent \in agents => m.task \notin tasks'[m.agent]
          /\ a2m' = a2m \ {m}
      BY <2>3, OnTaskInfoTables
    <3>3. SUFFICES ASSUME NEW b \in agents, NEW t \in tasks'[b],
                          GraphOf[t] \notin graphs', aproc[b] = "up"
                   PROVE  \/ [type |-> "KillTask", agent |-> b, task |-> t] \in m2a'
                          \/ t \in doomed
                          \/ \E n \in a2m' : /\ n.type = "TaskInfo"
                                             /\ n.agent = b /\ n.task = t
      BY <3>2
    <3>4. b \in Agent /\ t \in tasks[b] /\ tasks'[b] \subseteq tasks[b] /\ t \in Task
      BY <3>2, <3>3 DEF TypeOK
    <3>5. t # m.task
      BY <2>3, <3>2, <3>3, <3>4, ReporterListsTask
    <3>6. \/ [type |-> "KillTask", agent |-> b, task |-> t] \in m2a'
          \/ t \in doomed
          \/ \E n \in a2m : n.type = "TaskInfo" /\ n.agent = b /\ n.task = t
      <4>1. P[t] = placement[t]
        BY <3>1, <3>4, <3>5
      <4>2. graphs' = graphs \ G /\ m2a' = Deliver(Kills(G, P, tasks'))
        BY <3>1 DEF RemoveGraphs
      <4> QED
        BY <3>3, <3>4, <4>1, <4>2, OrphansAfterRemoval
    <3> QED
      BY <3>2, <3>5, <3>6
  <2>4. ASSUME NEW g \in Graph, OnTopology(g) PROVE OrphansKilled'
    BY <2>4 DEF OnTopology, procVars
  <2>5. ASSUME NEW g \in Graph, RemoveGraph(g) PROVE OrphansKilled'
    <3>1. graphs' = graphs \ {g} /\ m2a' = Deliver(Kills({g}, placement, tasks))
      BY <2>5 DEF RemoveGraph, RemoveGraphs
    <3>3. UNCHANGED <<agents, tasks, a2m, aproc, doomed>>
      BY <2>5 DEF RemoveGraph, procVars
    <3> QED
      BY <3>1, <3>3, OrphansUnchanged
  <2> QED
    BY <1>2, <2>1, <2>2, <2>3, <2>4, <2>5 DEF Handle
<1>3. ASSUME NEW a \in Agent, InsertAgent(a) PROVE OrphansKilled'
  BY <1>3 DEF InsertAgent, Lifecycle, TypeOK
<1>4. ASSUME NEW g \in Graph, InsertGraph(g) PROVE OrphansKilled'
  BY <1>4 DEF InsertGraph, netVars
<1>5. CASE Schedule
  <2>1. ASSUME NEW t \in Task,
               \/ TryEnqueue(t) \/ RestoreResource(t)
               \/ TryDequeue(t) \/ RestoreReleased(t)
        PROVE  OrphansKilled'
    BY <2>1 DEF TryEnqueue, RestoreResource, TryDequeue, RestoreReleased, netVars,
                procVars
  <2>2. CASE TryEnqueueDone \/ DequeueEmpty \/ GiveUp \/ DequeueFront
    BY <2>2 DEF TryEnqueueDone, DequeueEmpty, GiveUp, DequeueFront, masterVars,
                netVars, procVars
  <2>3. CASE Refuse
    <3>1. graphs' = graphs \ {cur} /\ m2a' = Deliver(Kills({cur}, placement, tasks))
      BY <2>3 DEF Refuse, RemoveGraphs
    <3>3. UNCHANGED <<agents, tasks, a2m, aproc, doomed>>
      BY <2>3 DEF Refuse, procVars
    <3> QED
      BY <3>1, <3>3, OrphansUnchanged
  <2>4. CASE DequeueStale \/ Enqueue
    BY <2>4 DEF DequeueStale, Enqueue, netVars, procVars
  <2>5. CASE Dispatch
    <3>1. cur \in graphs /\ m2a \subseteq m2a'
      BY <2>5 DEF Dispatch, Deliver, OwnerPhase
    <3>2. UNCHANGED <<agents, graphs, a2m, aproc, doomed>>
      BY <2>5 DEF Dispatch, procVars
    <3>3. \A a \in Agent : \A t \in tasks'[a] : t \in tasks[a] \/ GraphOf[t] = cur
      BY <2>5 DEF Dispatch, TasksOf
    <3> QED
      BY <3>1, <3>2, <3>3 DEF TypeOK
  <2> QED
    BY <1>5, <2>1, <2>2, <2>3, <2>4, <2>5 DEF Schedule
<1>6. CASE Receive
  BY <1>6 DEF Receive, AgentReceive, masterVars
<1>7. CASE Report
  BY <1>7 DEF Report, AgentReport, masterVars
<1>8. CASE Environment
  BY <1>8 DEF Environment, AgentDown, ClientSubmit, ClientDown, masterVars, netVars,
              TypeOK
<1> QED
  BY <1>1, <1>2, <1>3, <1>4, <1>5, <1>6, <1>7, <1>8 DEF Next, Accept
-----------------------------------------------------------------------------
(* The accounting of resources *)

LEMMA PlusNothing ==
  ASSUME NEW x \in ResourceType
  PROVE  Plus(x, NoResource) = x
BY DEF ResourceType, Plus, NoResource

\* Moving d from what is left, x, to what is taken, y, keeps the sum.
LEMMA TakeKeepsSum ==
  ASSUME NEW x \in ResourceType, NEW y \in ResourceType, NEW d \in ResourceType,
         Geq(x, d)
  PROVE  Plus(Minus(x, d), Plus(y, d)) = Plus(x, y)
BY DEF ResourceType, Plus, Minus, Geq

\* So does moving it back.
LEMMA GiveKeepsSum ==
  ASSUME NEW x \in ResourceType, NEW y \in ResourceType, NEW d \in ResourceType
  PROVE  Plus(Plus(x, d), y) = Plus(x, Plus(y, d))
BY DEF ResourceType, Plus

LEMMA LoadWithout ==
  ASSUME NEW S \in SUBSET Task, NEW t \in S
  PROVE  Load[S] = Plus(Load[S \ {t}], Demand[t])
<1>1. (S \ {t}) \union {t} = S
  OBVIOUS
<1>2. S \ {t} \in SUBSET Task /\ t \in Task \ (S \ {t})
  OBVIOUS
<1> QED
  BY <1>1, <1>2, LoadAssumption

LEMMA LoadOfNothing == Load[{}] = NoResource
BY LoadAssumption

\* The books of one agent, in and out of _try_dequeue.
Busy(a) ==
  /\ Reserved(a) \intersect tasks[a] = {}
  /\ Plus(released[a], Load[tasks[a] \union Reserved(a)]) = Capacity[a]
  /\ resource[a] = Capacity[a]

Calm(a) ==
  /\ Plus(released[a], Load[tasks[a]]) = Capacity[a]
  /\ Plus(resource[a], Load[Reserved(a)]) = Capacity[a]

\* A step that touches no book, and enters or leaves no _try_dequeue.
LEMMA AccountingFrame ==
  ASSUME Accounting,
         known' \subseteq known,
         UNCHANGED <<resource, released, tasks, c2a>>,
         pc \in {"allocate", "giveback"} <=> pc' \in {"allocate", "giveback"}
  PROVE  Accounting'
<1>1. \A a : Reserved(a)' = Reserved(a)
  BY DEF Reserved
<1> QED
  BY <1>1 DEF Accounting

\* With no search under way nothing is reserved.
LEMMA NothingReserved ==
  ASSUME OwnerPhase, pc \in {"idle", "dequeue", "crashed"} \/ Assigned = {},
         NEW a \in Agent
  PROVE  Reserved(a) = {}
BY ConstantsAssumption DEF OwnerPhase, Reserved, Assigned

LEMMA BookTypes ==
  ASSUME TypeOK, NEW a \in Agent
  PROVE  /\ resource[a] \in ResourceType /\ released[a] \in ResourceType
         /\ tasks[a] \in SUBSET Task /\ Reserved(a) \in SUBSET Task
         /\ Capacity[a] \in ResourceType
         /\ \A S \in SUBSET Task : Load[S] \in ResourceType
         /\ \A t \in Task : Demand[t] \in ResourceType
BY ConstantsAssumption, LoadAssumption DEF TypeOK, Reserved

LEMMA OnResourceAccounting ==
  ASSUME TypeOK, OwnerPhase, Lifecycle, Accounting, NEW a \in Agent, OnResource(a)
  PROVE  Accounting'
<1>1. pc = "idle" /\ pc' = "dequeue" /\ UNCHANGED <<tasks, c2a>>
  BY DEF OnResource
<1>2. SUFFICES ASSUME NEW b \in known' PROVE Calm(b)'
  BY <1>1 DEF Accounting, Calm
<1>3. Reserved(b)' = Reserved(b)
  BY <1>1 DEF Reserved
<1>4. CASE b \in known /\ UNCHANGED <<resource[b], released[b]>>
  BY <1>1, <1>3, <1>4 DEF Accounting, Calm
<1>5. CASE ~(b \in known /\ UNCHANGED <<resource[b], released[b]>>)
  <2>1. /\ b = a /\ b \in Agent /\ tasks[b] = {}
        /\ resource'[b] = Capacity[b] /\ released'[b] = Capacity[b]
    BY <1>2, <1>5 DEF OnResource, Lifecycle, TypeOK
  <2>2. Reserved(b) = {}
    BY <1>1, <2>1, NothingReserved
  <2>3. Plus(Capacity[b], NoResource) = Capacity[b]
    BY <2>1, BookTypes, PlusNothing
  <2> QED
    BY <1>1, <1>3, <2>1, <2>2, <2>3, LoadOfNothing DEF Calm
<1> QED
  BY <1>4, <1>5

LEMMA RemoveAgentAccounting ==
  ASSUME TypeOK, Accounting, NEW a \in Agent, RemoveAgent(a)
  PROVE  Accounting'
<1>1. /\ pc = "idle" /\ UNCHANGED <<pc, c2a>> /\ known' = known \ {a}
      /\ tasks' = [tasks EXCEPT ![a] = {}]
      /\ resource' = [resource EXCEPT ![a] = NoResource]
      /\ released' = [released EXCEPT ![a] = NoResource]
  BY DEF RemoveAgent, ownerVars
<1>2. SUFFICES ASSUME NEW b \in known' PROVE Calm(b)'
  BY <1>1 DEF Accounting, Calm
<1>3. Reserved(b)' = Reserved(b)
  BY <1>1 DEF Reserved
<1>4. b \in known /\ UNCHANGED <<tasks[b], resource[b], released[b]>>
  BY <1>1, <1>2 DEF TypeOK
<1>5. Calm(b)
  BY <1>1, <1>4 DEF Accounting, Calm
<1> QED
  BY <1>3, <1>4, <1>5 DEF Calm

\* Agent::remove gives back exactly what the reported task had taken.
LEMMA OnTaskInfoAccounting ==
  ASSUME TypeOK, Lifecycle, Accounting,
         NEW m \in a2m, m.type = "TaskInfo", OnTaskInfo(m)
  PROVE  Accounting'
<1>1. /\ m.agent \in Agent /\ m.task \in Task
      /\ pc = "idle" /\ pc' = "dequeue"
      /\ UNCHANGED <<agents, known, resource, c2a>>
      /\ \A a \in Agent \ {m.agent} : tasks'[a] = tasks[a]
      /\ m.agent \in agents => tasks'[m.agent] = tasks[m.agent] \ {m.task}
  BY OnTaskInfoTables
<1>2. released' = IF m.agent \in agents /\ m.task \in tasks[m.agent]
                    THEN [released EXCEPT ![m.agent] = Plus(@, Demand[m.task])]
                    ELSE released
  BY OnTaskInfoTables
<1>3. SUFFICES ASSUME NEW b \in known PROVE Calm(b)'
  BY <1>1 DEF Accounting, Calm
<1>4. b \in Agent /\ b \in agents /\ Reserved(b)' = Reserved(b) /\ Calm(b)
  BY <1>1, <1>3 DEF Reserved, Accounting, Calm, TypeOK
<1>5. CASE b = m.agent /\ m.task \in tasks[b]
  <2>1. released'[b] = Plus(released[b], Demand[m.task])
    BY <1>1, <1>2, <1>4, <1>5 DEF TypeOK
  <2>2. tasks'[b] = tasks[b] \ {m.task}
    BY <1>1, <1>4, <1>5
  <2>3. Load[tasks[b]] = Plus(Load[tasks'[b]], Demand[m.task])
    BY <1>4, <1>5, <2>2, BookTypes, LoadWithout
  <2>4. /\ released[b] \in ResourceType /\ Load[tasks'[b]] \in ResourceType
        /\ Demand[m.task] \in ResourceType
    BY <1>1, <1>4, <2>2, BookTypes
  <2>5. Plus(released'[b], Load[tasks'[b]]) = Plus(released[b], Load[tasks[b]])
    BY <2>1, <2>3, <2>4, GiveKeepsSum
  <2> QED
    BY <1>1, <1>4, <2>5 DEF Calm
<1>6. CASE ~(b = m.agent /\ m.task \in tasks[b])
  <2>1. tasks'[b] = tasks[b]
    BY <1>1, <1>4, <1>6
  <2>2. released'[b] = released[b]
    BY <1>1, <1>2, <1>4, <1>6 DEF TypeOK
  <2> QED
    BY <1>1, <1>4, <2>1, <2>2 DEF Calm
<1> QED
  BY <1>5, <1>6

\* _try_enqueue reserves on the full resource of an agent, _try_dequeue on what
\* is left of it; both move a demand from one side of the sum to the other.
LEMMA TryEnqueueAccounting ==
  ASSUME TypeOK, Accounting, NEW t \in Task, TryEnqueue(t)
  PROVE  Accounting'
<1>1. /\ pc = "enqueue" /\ c2a[t] = NoKey
      /\ UNCHANGED <<known, released, tasks>>
  BY DEF TryEnqueue, Unassigned
<1>2. CASE pc' = "refuse" /\ UNCHANGED <<c2a, resource>>
  BY <1>1, <1>2, AccountingFrame
<1>3. CASE \E a \in Best(resource, Demand[t]) :
              /\ c2a' = [c2a EXCEPT ![t] = a]
              /\ resource' = [resource EXCEPT ![a] = Minus(@, Demand[t])]
              /\ UNCHANGED pc
  <2>1. PICK a \in Best(resource, Demand[t]) :
              /\ c2a' = [c2a EXCEPT ![t] = a]
              /\ resource' = [resource EXCEPT ![a] = Minus(@, Demand[t])]
              /\ UNCHANGED pc
    BY <1>3
  <2>2. a \in known /\ a \in Agent /\ Geq(resource[a], Demand[t])
    BY BestType DEF TypeOK
  <2>3. SUFFICES ASSUME NEW b \in known PROVE Calm(b)'
    BY <1>1, <2>1 DEF Accounting, Calm
  <2>4. b \in Agent /\ Calm(b)
    BY <1>1, <2>3 DEF Accounting, Calm, TypeOK
  <2>5. CASE b # a
    <3>1. Reserved(b)' = Reserved(b)
      BY <1>1, <2>1, <2>4, <2>5, ConstantsAssumption DEF Reserved, TypeOK
    <3>2. resource'[b] = resource[b]
      BY <2>1, <2>2, <2>4, <2>5 DEF TypeOK
    <3> QED
      BY <1>1, <2>4, <3>1, <3>2 DEF Calm
  <2>6. CASE b = a
    <3>1. Reserved(b)' = Reserved(b) \union {t} /\ t \notin Reserved(b)
      BY <1>1, <2>1, <2>2, <2>6, ConstantsAssumption DEF Reserved, TypeOK
    <3>2. resource'[b] = Minus(resource[b], Demand[t])
      BY <2>1, <2>2, <2>6 DEF TypeOK
    <3>3. Load[Reserved(b)'] = Plus(Load[Reserved(b)], Demand[t])
      BY <2>4, <3>1, BookTypes, LoadAssumption
    <3>4. /\ resource[b] \in ResourceType /\ Load[Reserved(b)] \in ResourceType
          /\ Demand[t] \in ResourceType
      BY <2>4, BookTypes
    <3>5. Plus(resource'[b], Load[Reserved(b)']) = Plus(resource[b], Load[Reserved(b)])
      BY <2>2, <2>6, <3>2, <3>3, <3>4, TakeKeepsSum
    <3> QED
      BY <1>1, <2>4, <3>5 DEF Calm
  <2> QED
    BY <2>5, <2>6
<1> QED
  BY <1>2, <1>3 DEF TryEnqueue

LEMMA RestoreResourceAccounting ==
  ASSUME TypeOK, Accounting, NEW t \in Task, RestoreResource(t)
  PROVE  Accounting'
<1> DEFINE a == c2a[t]
<1>1. /\ pc \in {"accept", "refuse"} /\ a # NoKey
      /\ UNCHANGED <<pc, known, released, tasks>>
      /\ resource' = [resource EXCEPT ![a] = Plus(@, Demand[t])]
      /\ c2a' = [c2a EXCEPT ![t] = NoKey]
  BY DEF RestoreResource, Assigned
<1>2. a \in Agent
  BY <1>1 DEF TypeOK
<1>3. SUFFICES ASSUME NEW b \in known PROVE Calm(b)'
  BY <1>1 DEF Accounting, Calm
<1>4. b \in Agent /\ Calm(b)
  BY <1>1, <1>3 DEF Accounting, Calm, TypeOK
<1>5. CASE b # a
  <2>1. Reserved(b)' = Reserved(b)
    BY <1>1, <1>4, <1>5, ConstantsAssumption DEF Reserved, TypeOK
  <2>2. resource'[b] = resource[b]
    BY <1>1, <1>2, <1>4, <1>5 DEF TypeOK
  <2> QED
    BY <1>1, <1>4, <2>1, <2>2 DEF Calm
<1>6. CASE b = a
  <2>1. Reserved(b)' = Reserved(b) \ {t} /\ t \in Reserved(b)
    BY <1>1, <1>2, <1>6, ConstantsAssumption DEF Reserved, TypeOK
  <2>2. resource'[b] = Plus(resource[b], Demand[t])
    BY <1>1, <1>2, <1>6 DEF TypeOK
  <2>3. Load[Reserved(b)] = Plus(Load[Reserved(b)'], Demand[t])
    BY <1>4, <2>1, BookTypes, LoadWithout
  <2>4. /\ resource[b] \in ResourceType /\ Load[Reserved(b)'] \in ResourceType
        /\ Demand[t] \in ResourceType
    BY <1>4, <2>1, BookTypes
  <2>5. Plus(resource'[b], Load[Reserved(b)']) = Plus(resource[b], Load[Reserved(b)])
    BY <2>2, <2>3, <2>4, GiveKeepsSum
  <2> QED
    BY <1>1, <1>4, <2>5 DEF Calm
<1> QED
  BY <1>5, <1>6

LEMMA TryDequeueAccounting ==
  ASSUME TypeOK, OwnerPhase, Unstarted, Accounting, NEW t \in Task, TryDequeue(t)
  PROVE  Accounting'
<1>1. /\ pc = "allocate" /\ c2a[t] = NoKey /\ GraphOf[t] = cur
      /\ UNCHANGED <<known, resource, tasks>>
  BY DEF TryDequeue, Unassigned, TasksOf
<1>2. CASE pc' = "giveback" /\ UNCHANGED <<c2a, released>>
  BY <1>1, <1>2, AccountingFrame
<1>3. CASE \E a \in Best(released, Demand[t]) :
              /\ c2a' = [c2a EXCEPT ![t] = a]
              /\ released' = [released EXCEPT ![a] = Minus(@, Demand[t])]
              /\ UNCHANGED pc
  <2>1. PICK a \in Best(released, Demand[t]) :
              /\ c2a' = [c2a EXCEPT ![t] = a]
              /\ released' = [released EXCEPT ![a] = Minus(@, Demand[t])]
              /\ UNCHANGED pc
    BY <1>3
  <2>2. a \in known /\ a \in Agent /\ Geq(released[a], Demand[t])
    BY BestType DEF TypeOK
  <2>3. SUFFICES ASSUME NEW b \in known PROVE Busy(b)'
    BY <1>1, <2>1 DEF Accounting, Busy
  <2>4. b \in Agent /\ Busy(b)
    BY <1>1, <2>3 DEF Accounting, Busy, TypeOK
  <2>5. CASE b # a
    <3>1. Reserved(b)' = Reserved(b)
      BY <1>1, <2>1, <2>4, <2>5, ConstantsAssumption DEF Reserved, TypeOK
    <3>2. released'[b] = released[b]
      BY <2>1, <2>2, <2>4, <2>5 DEF TypeOK
    <3> QED
      BY <1>1, <2>4, <3>1, <3>2 DEF Busy
  <2>6. CASE b = a
    <3> DEFINE S == tasks[b] \union Reserved(b)
    <3>1. Reserved(b)' = Reserved(b) \union {t} /\ t \notin Reserved(b)
      BY <1>1, <2>1, <2>2, <2>6, ConstantsAssumption DEF Reserved, TypeOK
    <3>2. t \notin tasks[b]
      BY <1>1, <2>4 DEF Unstarted, NotStarted
    <3>3. released'[b] = Minus(released[b], Demand[t])
      BY <2>1, <2>2, <2>6 DEF TypeOK
    <3>4. (tasks[b] \union Reserved(b))' = S \union {t} /\ S \in SUBSET Task /\ t \notin S
      BY <1>1, <2>4, <3>1, <3>2, BookTypes
    <3>5. Load[S \union {t}] = Plus(Load[S], Demand[t])
      BY <3>4, LoadAssumption
    <3>6. /\ released[b] \in ResourceType /\ Load[S] \in ResourceType
          /\ Demand[t] \in ResourceType
      BY <2>4, <3>4, BookTypes
    <3>7. Plus(released'[b], Load[S \union {t}]) = Plus(released[b], Load[S])
      BY <2>2, <2>6, <3>3, <3>5, <3>6, TakeKeepsSum
    <3>8. Reserved(b)' \intersect tasks[b] = {}
      BY <2>4, <3>1, <3>2 DEF Busy
    <3> QED
      BY <1>1, <2>4, <3>4, <3>7, <3>8 DEF Busy
  <2> QED
    BY <2>5, <2>6
<1> QED
  BY <1>2, <1>3 DEF TryDequeue

LEMMA RestoreReleasedAccounting ==
  ASSUME TypeOK, Accounting, NEW t \in Task, RestoreReleased(t)
  PROVE  Accounting'
<1> DEFINE a == c2a[t]
<1>1. /\ pc = "giveback" /\ a # NoKey
      /\ UNCHANGED <<pc, known, resource, tasks>>
      /\ released' = [released EXCEPT ![a] = Plus(@, Demand[t])]
      /\ c2a' = [c2a EXCEPT ![t] = NoKey]
  BY DEF RestoreReleased, Assigned
<1>2. a \in Agent
  BY <1>1 DEF TypeOK
<1>3. SUFFICES ASSUME NEW b \in known PROVE Busy(b)'
  BY <1>1 DEF Accounting, Busy
<1>4. b \in Agent /\ Busy(b)
  BY <1>1, <1>3 DEF Accounting, Busy, TypeOK
<1>5. CASE b # a
  <2>1. Reserved(b)' = Reserved(b)
    BY <1>1, <1>4, <1>5, ConstantsAssumption DEF Reserved, TypeOK
  <2>2. released'[b] = released[b]
    BY <1>1, <1>2, <1>4, <1>5 DEF TypeOK
  <2> QED
    BY <1>1, <1>4, <2>1, <2>2 DEF Busy
<1>6. CASE b = a
  <2> DEFINE S == tasks[b] \union Reserved(b)
  <2>1. Reserved(b)' = Reserved(b) \ {t} /\ t \in Reserved(b)
    BY <1>1, <1>2, <1>6, ConstantsAssumption DEF Reserved, TypeOK
  <2>2. (tasks[b] \union Reserved(b))' = S \ {t} /\ S \in SUBSET Task /\ t \in S
    BY <1>1, <1>4, <2>1, BookTypes DEF Busy
  <2>3. released'[b] = Plus(released[b], Demand[t])
    BY <1>1, <1>2, <1>6 DEF TypeOK
  <2>4. Load[S] = Plus(Load[S \ {t}], Demand[t])
    BY <2>2, LoadWithout
  <2>5. /\ released[b] \in ResourceType /\ Load[S \ {t}] \in ResourceType
        /\ Demand[t] \in ResourceType
    BY <1>4, <2>2, BookTypes
  <2>6. Plus(released'[b], Load[S \ {t}]) = Plus(released[b], Load[S])
    BY <2>3, <2>4, <2>5, GiveKeepsSum
  <2>7. Reserved(b)' \intersect tasks[b] = {}
    BY <1>4, <2>1 DEF Busy
  <2> QED
    BY <1>1, <1>4, <2>2, <2>6, <2>7 DEF Busy
<1> QED
  BY <1>5, <1>6

\* Entering and leaving _try_dequeue.
LEMMA TurnAccounting ==
  ASSUME TypeOK, OwnerPhase, Accounting, DequeueFront \/ GiveUp
  PROVE  Accounting'
<1>1. UNCHANGED <<known, resource, released, tasks, c2a>>
  BY DEF DequeueFront, GiveUp, masterVars
<1>2. ASSUME NEW b \in known
      PROVE  /\ b \in Agent /\ Reserved(b) = {} /\ Reserved(b)' = {}
             /\ Plus(resource[b], Load[{}]) = resource[b]
             /\ tasks[b] \union {} = tasks[b]
  <2>1. b \in Agent
    BY <1>2 DEF TypeOK
  <2>2. Reserved(b) = {}
    BY <2>1, NothingReserved DEF DequeueFront, GiveUp
  <2>3. Reserved(b)' = Reserved(b)
    BY <1>1 DEF Reserved
  <2>4. Plus(resource[b], Load[{}]) = resource[b]
    BY <2>1, BookTypes, PlusNothing, LoadOfNothing
  <2> QED
    BY <2>1, <2>2, <2>3, <2>4
<1>3. CASE DequeueFront
  <2>1. pc = "dequeue" /\ pc' = "allocate"
    BY <1>3 DEF DequeueFront
  <2>2. \A b \in known : Calm(b)
    BY <2>1 DEF Accounting, Calm
  <2>3. \A b \in known : Busy(b)'
    BY <1>1, <1>2, <2>2 DEF Calm, Busy
  <2> QED
    BY <1>1, <2>1, <2>3 DEF Accounting, Busy
<1>4. CASE GiveUp
  <2>1. pc = "giveback" /\ pc' = "idle"
    BY <1>4 DEF GiveUp
  <2>2. \A b \in known : Busy(b)
    BY <2>1 DEF Accounting, Busy
  <2>3. \A b \in known : Calm(b)'
    BY <1>1, <1>2, <2>2 DEF Calm, Busy
  <2> QED
    BY <1>1, <2>1, <2>3 DEF Accounting, Calm
<1> QED
  BY <1>3, <1>4

LEMMA DispatchAccounting ==
  ASSUME TypeOK, OwnerPhase, Accounting, Dispatch
  PROVE  Accounting'
<1>1. /\ pc = "allocate" /\ pc' = "dequeue"
      /\ UNCHANGED <<known, resource, released>> /\ c2a' = NoMap
  BY DEF Dispatch
<1>2. SUFFICES ASSUME NEW b \in known PROVE Calm(b)'
  BY <1>1 DEF Accounting, Calm
<1>3. b \in Agent /\ Busy(b)
  BY <1>1, <1>2 DEF Accounting, Busy, TypeOK
<1>4. tasks'[b] = tasks[b] \union Reserved(b)
  <2>1. {t \in TasksOf(cur) : c2a[t] = b} = Reserved(b)
    BY <1>3, ConstantsAssumption DEF TasksOf, Reserved, OwnerPhase
  <2> QED
    BY <1>3, <2>1 DEF Dispatch
<1>5. Reserved(b)' = {}
  BY <1>1, <1>3, ConstantsAssumption DEF Reserved, NoMap
<1>6. Plus(resource[b], Load[{}]) = resource[b]
  BY <1>3, BookTypes, PlusNothing, LoadOfNothing
<1> QED
  BY <1>1, <1>3, <1>4, <1>5, <1>6 DEF Busy, Calm

LEMMA AccountingStep ==
  ASSUME TypeOK, CurOK, OwnerPhase, Lifecycle, QueueInv, Unstarted, Accounting,
         [Next]_vars
  PROVE  Accounting'
<1>1. CASE UNCHANGED vars
  BY <1>1, AccountingFrame DEF vars, masterVars, ownerVars
<1>2. CASE Handle
  <2>1. ASSUME NEW g \in Graph, OnTopology(g) \/ RemoveGraph(g) PROVE Accounting'
    <3>1. /\ UNCHANGED <<known, resource, released, tasks, c2a>>
          /\ pc = "idle" /\ pc' \in {"idle", "enqueue", "crashed"}
      BY <2>1 DEF OnTopology, RemoveGraph
    <3> QED
      BY <3>1, AccountingFrame
  <2> QED
    BY <1>2, <2>1, OnResourceAccounting, RemoveAgentAccounting, OnTaskInfoAccounting
       DEF Handle
<1>3. CASE Accept \/ Receive \/ Report \/ Environment
  <2>1. UNCHANGED <<known, resource, released, tasks, c2a, pc>>
    BY <1>3 DEF Accept, InsertAgent, InsertGraph, Receive, AgentReceive, Report,
                AgentReport, Environment, AgentDown, ClientSubmit, ClientDown,
                masterVars, ownerVars
  <2> QED
    BY <2>1, AccountingFrame
<1>4. CASE TryEnqueueDone \/ Enqueue \/ Refuse \/ DequeueEmpty \/ DequeueStale
  <2>1. /\ UNCHANGED <<known, resource, released, tasks, c2a>>
        /\ pc \notin {"allocate", "giveback"} /\ pc' \notin {"allocate", "giveback"}
    BY <1>4 DEF TryEnqueueDone, Enqueue, Refuse, DequeueEmpty, DequeueStale,
                masterVars, ownerVars
  <2> QED
    BY <2>1, AccountingFrame
<1> QED
  BY <1>1, <1>2, <1>3, <1>4, TryEnqueueAccounting, RestoreResourceAccounting,
     TryDequeueAccounting, RestoreReleasedAccounting, TurnAccounting,
     DispatchAccounting
     DEF Next, Schedule
-----------------------------------------------------------------------------
(* The theorems *)

LEMMA MasterInitially == Init => MasterInv
<1> SUFFICES ASSUME Init PROVE MasterInv
  OBVIOUS
<1> USE ConstantsAssumption DEF Init
<1>1. TypeOK /\ CurOK
  BY TypeInitially DEF CurOK
<1>2. OwnerPhase
  BY DEF OwnerPhase, NoMap
<1>3. Lifecycle
  BY DEF Lifecycle, NoMap
<1>4. QueueInv
  BY DEF QueueInv
<1>5. Unstarted
  BY DEF Unstarted, NoMap
<1>6. Traces
  BY DEF Traces, Trace, Reports
<1>7. PlacementConsistent /\ OrphansKilled /\ Accounting
  BY DEF PlacementConsistent, OrphansKilled, Accounting, NoMap
<1> QED
  BY <1>1, <1>2, <1>3, <1>4, <1>5, <1>6, <1>7 DEF MasterInv

LEMMA MasterStep == MasterInv /\ [Next]_vars => MasterInv'
BY TypeStep, OwnerPhaseStep, LifecycleStep, QueueStep, UnstartedStep, TracesStep,
   PlacementStep, OrphansStep, AccountingStep
   DEF MasterInv

\* MasterInv holds in every reachable state of the master.
THEOREM MasterInductive == Spec => []MasterInv
BY MasterInitially, MasterStep, PTL DEF Spec

\* _try_enqueue, _try_dequeue, Agent::remove and _remove_agent never over-commit
\* an agent and never lose a resource, for any agents, graphs, demands and
\* capacities.
THEOREM AccountingHolds == Spec => []Accounting
<1>1. MasterInv => Accounting
  BY DEF MasterInv
<1> QED
  BY <1>1, MasterInductive, PTL

\* Graph::placement and Agent::tasks agree in every reachable state.
THEOREM PlacementHolds == Spec => []PlacementConsistent
<1>1. MasterInv => PlacementConsistent
  BY DEF MasterInv
<1> QED
  BY <1>1, MasterInductive, PTL

\* The assertion of _try_dequeue never fails: no graph is placed twice.
THEOREM FreshPlacementHolds == Spec => []FreshPlacement
<1>1. MasterInv => FreshPlacement
  BY ConstantsAssumption
     DEF MasterInv, Unstarted, NotStarted, FreshPlacement, TasksOf
<1> QED
  BY <1>1, MasterInductive, PTL

\* Whatever removes a graph, every task it leaves behind on a live agent has its
\* KillTask or its report under way.
THEOREM OrphansKilledHolds == Spec => []OrphansKilled
<1>1. MasterInv => OrphansKilled
  BY DEF MasterInv
<1> QED
  BY <1>1, MasterInductive, PTL
-----------------------------------------------------------------------------
(* What a client may conclude from its solution.  A task leaves one trace, which moves *)
(* from the Topology to the agent and back in the report; while its graph lives the    *)
(* trace is where the task is placed, and a task that is placed no more succeeded.     *)

Told(a, t) == [type |-> "Topology", agent |-> a, task |-> t] \in m2a

OneTrace ==
  \A a \in Agent, t \in Task :
    /\ Told(a, t) => t \notin held[a] /\ Reports(a, t) = {}
    /\ t \in held[a] => Reports(a, t) = {}
    /\ \A m, n \in Reports(a, t) : m = n

TracesPlaced ==
  \A a \in Agent, t \in Task :
    Trace(a, t) /\ GraphOf[t] \in graphs => placement[t] = a

StartedPlaced ==
  \A t \in Task :
    /\ GraphOf[t] \in graphs
    /\ cproc[GraphOf[t]] # "down"
    /\ ~NotStarted(GraphOf[t])
    => placement[t] # NoKey \/ outcome[t] = "ok"

\* Only a dispatch, an agent that reads and an agent that reports move a trace.
LEMMA TracePartsShrink ==
  ASSUME TypeOK, [Next]_vars, ~Dispatch, ~Receive, ~Report
  PROVE  /\ \A m \in m2a' : m.type = "Topology" => m \in m2a
         /\ \A a \in Agent : held'[a] \subseteq held[a]
         /\ \A m \in a2m' : m.type = "TaskInfo" => m \in a2m
<1>1. CASE UNCHANGED vars
  BY <1>1 DEF vars, netVars, procVars
<1>2. CASE Handle
  <2>1. CASE \E a \in Agent : OnResource(a)
    BY <2>1 DEF OnResource, procVars
  <2>2. CASE \E a \in Agent : RemoveAgent(a)
    <3>1. \A m \in m2a' : m.type = "Topology" => m \in m2a
      BY <2>2, RemoveGraphsTopologies DEF RemoveAgent
    <3> QED
      BY <2>2, <3>1 DEF RemoveAgent, procVars
  <2>3. CASE \E m \in a2m : m.type = "TaskInfo" /\ OnTaskInfo(m)
    <3>1. PICK m \in a2m : m.type = "TaskInfo" /\ OnTaskInfo(m)
      BY <2>3
    <3>2. \A n \in m2a' : n.type = "Topology" => n \in m2a
      BY <3>1, OnTaskInfoTables, RemoveGraphsTopologies
    <3>3. a2m' \subseteq a2m /\ UNCHANGED held
      BY <3>1 DEF OnTaskInfo, procVars
    <3> QED
      BY <3>2, <3>3
  <2>4. CASE \E g \in Graph : OnTopology(g)
    BY <2>4 DEF OnTopology, procVars
  <2>5. CASE \E g \in Graph : RemoveGraph(g)
    <3>1. \A m \in m2a' : m.type = "Topology" => m \in m2a
      BY <2>5, RemoveGraphsTopologies DEF RemoveGraph
    <3> QED
      BY <2>5, <3>1 DEF RemoveGraph, procVars
  <2> QED
    BY <1>2, <2>1, <2>2, <2>3, <2>4, <2>5 DEF Handle
<1>3. CASE Accept
  BY <1>3 DEF Accept, InsertAgent, InsertGraph, netVars
<1>4. CASE Refuse
  <2>1. \A m \in m2a' : m.type = "Topology" => m \in m2a
    BY <1>4, RemoveGraphsTopologies DEF Refuse
  <2> QED
    BY <1>4, <2>1 DEF Refuse, procVars
<1>5. CASE Schedule /\ ~Refuse
  BY <1>5 DEF Schedule, TryEnqueue, RestoreResource, TryDequeue, RestoreReleased,
              TryEnqueueDone, Enqueue, DequeueEmpty, DequeueStale, DequeueFront,
              GiveUp, netVars, procVars
<1>6. CASE Environment
  BY <1>6 DEF Environment, AgentDown, ClientSubmit, ClientDown, netVars, TypeOK
<1> QED
  BY <1>1, <1>2, <1>3, <1>4, <1>5, <1>6 DEF Next

\* An agent is told of a task once and reports it once.
LEMMA OneTraceStep ==
  ASSUME TypeOK, Traces, OneTrace, [Next]_vars
  PROVE  OneTrace'
<1> SUFFICES ASSUME NEW a \in Agent, NEW t \in Task
             PROVE  (/\ Told(a, t) => t \notin held[a] /\ Reports(a, t) = {}
                     /\ t \in held[a] => Reports(a, t) = {}
                     /\ \A m, n \in Reports(a, t) : m = n)'
  BY DEF OneTrace
<1>1. /\ Told(a, t) => t \notin held[a] /\ Reports(a, t) = {}
      /\ t \in held[a] => Reports(a, t) = {}
      /\ \A m, n \in Reports(a, t) : m = n
  BY DEF OneTrace
<1>2. CASE Dispatch
  <2>1. UNCHANGED <<a2m, held>>
    BY <1>2 DEF Dispatch, procVars
  <2>2. CASE GraphOf[t] = cur
    <3>1. ~Trace(a, t)
      BY <2>2 DEF Traces, NotStarted
    <3> QED
      BY <2>1, <3>1 DEF Trace, Reports
  <2>3. CASE GraphOf[t] # cur
    <3>1. Told(a, t)' => Told(a, t)
      BY <1>2, <2>3 DEF Dispatch, Deliver, TasksOf, Told
    <3> QED
      BY <1>1, <2>1, <3>1 DEF Reports
  <2> QED
    BY <2>2, <2>3
<1>3. CASE Receive
  <2>1. PICK m \in m2a : AgentReceive(m)
    BY <1>3 DEF Receive
  <2>2. m \in ToAgent /\ m2a' = m2a \ {m} /\ a2m' = a2m
    BY <2>1 DEF AgentReceive, TypeOK
  <2>3. CASE m.type = "Topology"
    <3>1. m = [type |-> "Topology", agent |-> m.agent, task |-> m.task] /\ m.agent \in Agent
      BY <2>2, <2>3 DEF ToAgent
    <3>2. held' = [held EXCEPT ![m.agent] = @ \union {m.task}]
      BY <2>1, <2>3 DEF AgentReceive
    <3>3. t \in held'[a] => t \in held[a] \/ (a = m.agent /\ t = m.task)
      BY <3>1, <3>2 DEF TypeOK
    <3>4. Told(a, t)' => Told(a, t) /\ ~(a = m.agent /\ t = m.task)
      BY <2>2, <3>1 DEF Told
    <3>5. a = m.agent /\ t = m.task => Told(a, t)
      BY <3>1 DEF Told
    <3> QED
      BY <1>1, <2>2, <3>3, <3>4, <3>5 DEF Reports
  <2>4. CASE m.type # "Topology"
    <3>1. UNCHANGED held
      BY <2>1, <2>4 DEF AgentReceive
    <3> QED
      BY <1>1, <2>2, <3>1 DEF Reports, Told
  <2> QED
    BY <2>3, <2>4
<1>4. CASE Report
  <2>1. PICK b \in Agent, u \in Task, e \in BOOLEAN : AgentReport(b, u, e)
    BY <1>4 DEF Report
  <2> DEFINE r == [type |-> "TaskInfo", agent |-> b, task |-> u, error |-> e]
  <2>2. /\ u \in held[b] /\ held' = [held EXCEPT ![b] = @ \ {u}]
        /\ a2m' = a2m \union {r} /\ m2a' = m2a
    BY <2>1 DEF AgentReport
  <2>3. r.type = "TaskInfo" /\ r.agent = b /\ r.task = u
    OBVIOUS
  <2> HIDE DEF r
  <2>4. CASE a = b /\ t = u
    <3>1. t \notin held'[a] /\ t \in held[a]
      BY <2>2, <2>4 DEF TypeOK
    <3>2. Reports(a, t) = {} /\ ~Told(a, t)
      BY <1>1, <3>1
    <3>3. Reports(a, t)' \subseteq {r}
      BY <2>2, <3>2 DEF Reports
    <3> QED
      BY <2>2, <3>1, <3>2, <3>3 DEF Told
  <2>5. CASE ~(a = b /\ t = u)
    <3>1. Reports(a, t)' = Reports(a, t)
      BY <2>2, <2>3, <2>5 DEF Reports
    <3>2. t \in held'[a] => t \in held[a]
      BY <2>2 DEF TypeOK
    <3> QED
      BY <1>1, <2>2, <2>5, <3>1, <3>2 DEF Told, TypeOK
  <2> QED
    BY <2>4, <2>5
<1>5. CASE ~Dispatch /\ ~Receive /\ ~Report
  <2>1. /\ \A m \in m2a' : m.type = "Topology" => m \in m2a
        /\ held'[a] \subseteq held[a]
        /\ \A m \in a2m' : m.type = "TaskInfo" => m \in a2m
    BY <1>5, TracePartsShrink
  <2>2. Told(a, t)' => Told(a, t)
    BY <2>1 DEF Told
  <2>3. Reports(a, t)' \subseteq Reports(a, t)
    BY <2>1 DEF Reports
  <2> QED
    BY <1>1, <2>1, <2>2, <2>3
<1> QED
  BY <1>2, <1>3, <1>4, <1>5

\* What the handler of a TaskInfo does to the outcomes and answers.
LEMMA OnTaskInfoOutcome ==
  ASSUME TypeOK, NEW m \in a2m, m.type = "TaskInfo", OnTaskInfo(m)
  PROVE  /\ \A t \in Task \ {m.task} : outcome'[t] = outcome[t]
         /\ outcome'[m.task] =
              IF GraphOf[m.task] \in graphs /\ placement[m.task] # NoKey
                THEN IF m.error THEN "error" ELSE "ok"
                ELSE outcome[m.task]
         /\ m.error => GraphOf[m.task] \notin graphs'
         /\ \A g \in Graph : \A s \in m2c'[g] : s \notin m2c[g] =>
              /\ g = GraphOf[m.task] /\ g \in graphs
              /\ \A t \in TasksOf(g) : s.tasks[t] = outcome'[t]
              /\ m.error \/ \A t \in TasksOf(g) : t = m.task \/ placement[t] = NoKey
<1> DEFINE u == m.task
           h == GraphOf[u]
           mine == m.agent \in agents /\ u \in tasks[m.agent]
           T == IF mine THEN [tasks EXCEPT ![m.agent] = @ \ {u}] ELSE tasks
           hit == h \in graphs /\ placement[u] # NoKey
           P == IF hit THEN [placement EXCEPT ![u] = NoKey] ELSE placement
           O == IF hit THEN [outcome EXCEPT ![u] = IF m.error THEN "error" ELSE "ok"]
                       ELSE outcome
           done == /\ h \in graphs
                   /\ m.error \/ \A x \in TasksOf(h) : P[x] = NoKey
           G == IF done THEN {h} ELSE {}
<1>1. m.task \in Task
  BY DEF TypeOK, ToMaster, TaskInfo
<1>2. RemoveGraphs(G, P, T, O, FALSE)
  BY DEF OnTaskInfo
<1>3. /\ \A t \in Task \ {u} : O[t] = outcome[t]
      /\ O[u] = IF hit THEN IF m.error THEN "error" ELSE "ok" ELSE outcome[u]
  BY <1>1 DEF TypeOK
<1>4. \A t \in Task \ {u} : P[t] = placement[t]
  BY DEF TypeOK
<1>5. /\ m.error => h \in G \/ h \notin graphs
      /\ \A g \in G : /\ g = h /\ g \in graphs
                      /\ m.error \/ \A x \in TasksOf(g) : P[x] = NoKey
  OBVIOUS
<1> HIDE DEF T, P, O, done, G
<1>6. /\ outcome' = O /\ graphs' = graphs \ G
      /\ m2c' = [g \in Graph |->
                   IF g \in G THEN m2c[g] \union {SolutionOf(g, O, FALSE)} ELSE m2c[g]]
  BY <1>2 DEF RemoveGraphs
<1>7. ASSUME NEW g \in Graph, NEW s \in m2c'[g], s \notin m2c[g]
      PROVE  /\ g = GraphOf[m.task] /\ g \in graphs
             /\ \A t \in TasksOf(g) : s.tasks[t] = outcome'[t]
             /\ m.error \/ \A t \in TasksOf(g) : t = m.task \/ placement[t] = NoKey
  <2>1. g \in G /\ s = SolutionOf(g, O, FALSE)
    BY <1>6, <1>7
  <2>2. \A t \in TasksOf(g) : s.tasks[t] = O[t]
    BY <2>1 DEF SolutionOf, TasksOf
  <2>3. m.error \/ \A t \in TasksOf(g) : t = m.task \/ placement[t] = NoKey
    BY <1>4, <1>5, <2>1 DEF TasksOf
  <2> QED
    BY <1>5, <1>6, <2>1, <2>2, <2>3
<1> QED
  BY <1>3, <1>5, <1>6, <1>7

\* While its graph lives a task stays placed, and its outcome the same, until the
\* graph is dispatched or the task is reported.
LEMMA PlacementKept ==
  ASSUME TypeOK, [Next]_vars, ~Dispatch, NEW t \in Task, GraphOf[t] \in graphs',
         \A m \in a2m : m.type = "TaskInfo" /\ m.task = t => ~OnTaskInfo(m)
  PROVE  /\ placement'[t] = placement[t]
         /\ outcome'[t] = outcome[t] \/ GraphOf[t] = cur'
<1>1. CASE UNCHANGED vars
  BY <1>1 DEF vars, masterVars
<1>2. CASE \E a \in Agent : OnResource(a) \/ RemoveAgent(a)
  BY <1>2 DEF OnResource, RemoveAgent, RemoveGraphs
<1>3. CASE \E m \in a2m : m.type = "TaskInfo" /\ OnTaskInfo(m)
  <2>1. PICK m \in a2m : m.type = "TaskInfo" /\ OnTaskInfo(m)
    BY <1>3
  <2>2. t # m.task
    BY <2>1
  <2>3. PICK G, P, O :
          /\ \A x \in Task \ {m.task} : P[x] = placement[x]
          /\ RemoveGraphs(G, P, tasks', O, FALSE)
    BY <2>1, OnTaskInfoTables
  <2>4. placement'[t] = P[t]
    BY <2>3 DEF RemoveGraphs
  <2>5. outcome'[t] = outcome[t]
    BY <2>1, <2>2, OnTaskInfoOutcome
  <2> QED
    BY <2>2, <2>3, <2>4, <2>5
<1>4. CASE \E g \in Graph : OnTopology(g)
  BY <1>4 DEF OnTopology
<1>5. CASE \E g \in Graph : RemoveGraph(g)
  BY <1>5 DEF RemoveGraph, RemoveGraphs
<1>6. CASE Refuse
  BY <1>6 DEF Refuse, RemoveGraphs
<1>7. CASE Schedule /\ ~Refuse
  BY <1>7 DEF Schedule, TryEnqueue, RestoreResource, TryDequeue, RestoreReleased,
              TryEnqueueDone, Enqueue, DequeueEmpty, DequeueStale, DequeueFront,
              GiveUp, masterVars
<1>8. CASE Accept \/ Receive \/ Report \/ Environment
  BY <1>8 DEF Accept, InsertAgent, InsertGraph, Receive, AgentReceive, Report,
              AgentReport, Environment, AgentDown, ClientSubmit, ClientDown,
              masterVars
<1> QED
  BY <1>1, <1>2, <1>3, <1>4, <1>5, <1>6, <1>7, <1>8 DEF Next, Handle

\* A graph that appears in the tables has not been submitted.
LEMMA GraphsGrow ==
  ASSUME TypeOK, [Next]_vars, NEW g \in graphs', g \notin graphs
  PROVE  cproc[g] = "new" /\ cproc'[g] = "up"
<1>1. CASE UNCHANGED vars
  BY <1>1 DEF vars, masterVars
<1>2. CASE Handle
  BY <1>2 DEF Handle, OnResource, RemoveAgent, OnTaskInfo, OnTopology, RemoveGraph,
              RemoveGraphs
<1>3. CASE Accept
  BY <1>3 DEF Accept, InsertAgent, InsertGraph, TypeOK
<1>4. CASE Schedule
  BY <1>4 DEF Schedule, TryEnqueue, RestoreResource, TryDequeue, RestoreReleased,
              TryEnqueueDone, Enqueue, Refuse, RemoveGraphs, DequeueEmpty,
              DequeueStale, DequeueFront, GiveUp, Dispatch, masterVars
<1>5. CASE Receive \/ Report \/ Environment
  BY <1>5 DEF Receive, AgentReceive, Report, AgentReport, Environment, AgentDown,
              ClientSubmit, ClientDown, masterVars
<1> QED
  BY <1>1, <1>2, <1>3, <1>4, <1>5 DEF Next

\* A task of a live graph is heard of only where it is placed.
LEMMA TracesPlacedStep ==
  ASSUME TypeOK, CurOK, OwnerPhase, Lifecycle, QueueInv, Traces, OneTrace,
         TracesPlaced, [Next]_vars
  PROVE  TracesPlaced'
<1> USE ConstantsAssumption
<1> SUFFICES ASSUME NEW a \in Agent, NEW t \in Task, Trace(a, t)', GraphOf[t] \in graphs'
             PROVE  placement'[t] = a
  BY DEF TracesPlaced
<1>1. CASE Dispatch
  <2>1. graphs' = graphs
    BY <1>1 DEF Dispatch
  <2>2. CASE GraphOf[t] = cur
    <3>1. ~Trace(a, t)
      BY <2>2 DEF Traces, NotStarted
    <3>2. c2a[t] = a
      BY <1>1, <2>2, <3>1 DEF Dispatch, Trace, Reports, Deliver, procVars
    <3> QED
      BY <1>1, <2>2, <3>2 DEF Dispatch
  <2>3. CASE GraphOf[t] # cur
    <3>1. Trace(a, t)
      BY <1>1, <2>3 DEF Dispatch, Trace, Reports, Deliver, TasksOf, procVars
    <3>2. placement'[t] = placement[t]
      BY <1>1, <2>3 DEF Dispatch
    <3> QED
      BY <2>1, <3>1, <3>2 DEF TracesPlaced
  <2> QED
    BY <2>2, <2>3
<1>2. CASE ~Dispatch
  <2>1. Trace(a, t)
    BY <1>2, TraceShrinks
  <2>2. GraphOf[t] \in graphs
    <3>1. ~NotStarted(GraphOf[t])
      BY <2>1 DEF Traces
    <3> QED
      BY <3>1, GraphsGrow DEF NotStarted, Unsubmitted
  <2>3. placement[t] = a
    BY <2>1, <2>2 DEF TracesPlaced
  <2>4. ASSUME NEW m \in a2m, m.type = "TaskInfo", m.task = t, OnTaskInfo(m)
        PROVE  FALSE
    <3>1. m.agent \in Agent /\ m \in Reports(m.agent, t)
      BY <2>4 DEF Reports, TypeOK, ToMaster, TaskInfo
    <3>2. Trace(m.agent, t)
      BY <3>1 DEF Trace
    <3>3. m.agent = a
      BY <2>2, <2>3, <3>1, <3>2 DEF TracesPlaced
    <3>4. /\ ~Told(a, t) /\ t \notin held[a]
          /\ \A n \in Reports(a, t) : n = m
      BY <3>1, <3>3 DEF OneTrace
    <3>5. a2m' = a2m \ {m} /\ UNCHANGED held
      BY <2>4 DEF OnTaskInfo, procVars
    <3>6. \A n \in m2a' : n.type = "Topology" => n \in m2a
      BY <2>4, OnTaskInfoTables, RemoveGraphsTopologies
    <3>7. Reports(a, t)' = {}
      BY <3>4, <3>5 DEF Reports
    <3>8. ~Told(a, t)'
      BY <3>4, <3>6 DEF Told
    <3> QED
      BY <3>4, <3>5, <3>7, <3>8 DEF Trace, Told
  <2> QED
    BY <1>2, <2>3, <2>4, PlacementKept
<1> QED
  BY <1>1, <1>2

\* The scheduler is through with a graph whose client waits only when it dispatches it
\* or the graph is gone.
LEMMA StartedByDispatch ==
  ASSUME TypeOK, CurOK, OwnerPhase, Lifecycle, QueueInv, [Next]_vars,
         NEW g \in graphs', cproc'[g] # "down", NotStarted(g), ~NotStarted(g)'
  PROVE  Dispatch /\ g = cur
<1> USE ConstantsAssumption DEF NotStarted, Queued, Unsubmitted
<1>0. g \in Graph
  <2>1. CASE g \in graphs
    BY <2>1 DEF TypeOK
  <2>2. CASE g \notin graphs
    BY <2>2, GraphsGrow
  <2> QED
    BY <2>1, <2>2
<1>1. CASE UNCHANGED vars
  BY <1>1 DEF vars, masterVars, ownerVars, netVars, procVars
<1>2. CASE Handle
  <2>1. CASE \E a \in Agent : OnResource(a) \/ RemoveAgent(a)
    BY <2>1 DEF OnResource, RemoveAgent, ownerVars, procVars
  <2>2. CASE \E m \in a2m : m.type = "TaskInfo" /\ OnTaskInfo(m)
    BY <2>2 DEF OnTaskInfo, procVars
  <2>3. ASSUME NEW h \in Graph, OnTopology(h) PROVE FALSE
    <3>1. cur = NoKey
      BY <2>3 DEF OnTopology, OwnerPhase
    <3> QED
      BY <1>0, <2>3, <3>1 DEF OnTopology, procVars
  <2>4. CASE \E h \in Graph : RemoveGraph(h)
    BY <2>4 DEF RemoveGraph, procVars
  <2> QED
    BY <1>2, <2>1, <2>2, <2>3, <2>4 DEF Handle
<1>3. CASE Accept
  BY <1>0, <1>3 DEF Accept, InsertAgent, InsertGraph, ownerVars, netVars, TypeOK
<1>4. CASE Schedule
  <2>1. CASE \E t \in Task : \/ TryEnqueue(t) \/ RestoreResource(t)
                            \/ TryDequeue(t) \/ RestoreReleased(t)
    BY <2>1 DEF TryEnqueue, RestoreResource, TryDequeue, RestoreReleased, netVars,
                procVars
  <2>2. CASE TryEnqueueDone \/ DequeueEmpty
    BY <2>2 DEF TryEnqueueDone, DequeueEmpty, masterVars, netVars, procVars
  <2>3. CASE GiveUp
    <3>1. queue \in Seq(Graph) /\ queue # <<>> /\ cur = Head(queue)
      BY <2>3 DEF GiveUp, OwnerPhase, TypeOK
    <3>2. 1 \in DOMAIN queue /\ queue[1] = cur
      BY <3>1, TailElements
    <3> QED
      BY <2>3, <3>2 DEF GiveUp, masterVars, netVars, procVars
  <2>4. CASE Refuse
    <3>1. g # cur
      BY <2>4 DEF Refuse, RemoveGraphs
    <3> QED
      BY <2>4, <3>1 DEF Refuse, procVars
  <2>5. CASE DequeueFront
    <3>1. cur = NoKey
      BY <2>5 DEF DequeueFront, OwnerPhase
    <3> QED
      BY <1>0, <2>5, <3>1 DEF DequeueFront, masterVars, netVars, procVars
  <2>6. CASE DequeueStale \/ Dispatch
    <3>1. queue \in Seq(Graph) /\ queue # <<>> /\ queue' = Tail(queue)
      BY <2>6 DEF DequeueStale, Dispatch, TypeOK, CurOK
    <3>2. \A i \in DOMAIN queue : i = 1 \/ \E j \in DOMAIN queue' : queue'[j] = queue[i]
      <4>1. \A i \in 1 .. Len(queue) : i # 1 => i - 1 \in 1 .. Len(queue) - 1
        BY <3>1
      <4>2. DOMAIN queue = 1 .. Len(queue) /\ DOMAIN queue' = 1 .. Len(queue) - 1
        BY <3>1
      <4>3. \A i \in 1 .. Len(queue) - 1 : queue'[i] = queue[i + 1]
        BY <3>1
      <4>4. \A i \in 1 .. Len(queue) : i # 1 => queue'[i - 1] = queue[i]
        BY <3>1, <4>1, <4>3
      <4> QED
        BY <4>1, <4>2, <4>4
    <3>3. queue[1] = Head(queue)
      BY <3>1
    <3>4. CASE DequeueStale
      <4>1. Head(queue) \notin graphs /\ graphs' = graphs /\ UNCHANGED <<cur, cproc, c2m>>
        BY <3>4 DEF DequeueStale, ownerVars, netVars, procVars
      <4> QED
        BY <3>2, <3>3, <4>1
    <3>5. CASE Dispatch
      <4>1. cur = Head(queue) /\ UNCHANGED <<cproc, c2m>>
        BY <3>5 DEF Dispatch, OwnerPhase, procVars
      <4> QED
        BY <3>2, <3>3, <3>5, <4>1
    <3> QED
      BY <2>6, <3>4, <3>5
  <2>7. CASE Enqueue
    <3>1. queue \in Seq(Graph) /\ cur \in Graph /\ queue' = Append(queue, cur)
      BY <2>7 DEF Enqueue, TypeOK, CurOK
    <3> QED
      BY <2>7, <3>1, AppendElements DEF Enqueue, netVars, procVars
  <2> QED
    BY <1>4, <2>1, <2>2, <2>3, <2>4, <2>5, <2>6, <2>7 DEF Schedule
<1>5. CASE Receive \/ Report
  BY <1>5 DEF Receive, AgentReceive, Report, AgentReport, masterVars, ownerVars
<1>6. CASE Environment
  BY <1>0, <1>6 DEF Environment, AgentDown, ClientSubmit, ClientDown, masterVars,
                    ownerVars, netVars, TypeOK
<1> QED
  BY <1>1, <1>2, <1>3, <1>4, <1>5, <1>6 DEF Next

\* Processes do not come back.
LEMMA DownForEver ==
  ASSUME TypeOK, [Next]_vars
  PROVE  /\ \A g \in Graph : cproc[g] = "down" => cproc'[g] = "down"
         /\ \A a \in Agent : aproc[a] = "down" => aproc'[a] = "down"
<1>1. CASE UNCHANGED vars
  BY <1>1 DEF vars, procVars
<1>2. CASE Handle
  BY <1>2 DEF Handle, OnResource, RemoveAgent, OnTaskInfo, OnTopology, RemoveGraph,
              procVars
<1>3. CASE Accept
  BY <1>3 DEF Accept, InsertAgent, InsertGraph, TypeOK
<1>4. CASE Schedule
  BY <1>4 DEF Schedule, TryEnqueue, RestoreResource, TryDequeue, RestoreReleased,
              TryEnqueueDone, Enqueue, Refuse, DequeueEmpty, DequeueStale,
              DequeueFront, GiveUp, Dispatch, procVars
<1>5. CASE Receive \/ Report \/ Environment
  BY <1>5 DEF Receive, AgentReceive, Report, AgentReport, Environment, AgentDown,
              ClientSubmit, ClientDown, TypeOK
<1> QED
  BY <1>1, <1>2, <1>3, <1>4, <1>5 DEF Next

\* A task of a dispatched graph is placed until it has succeeded.
LEMMA StartedPlacedStep ==
  ASSUME TypeOK, CurOK, OwnerPhase, Lifecycle, QueueInv, StartedPlaced, [Next]_vars
  PROVE  StartedPlaced'
<1> USE ConstantsAssumption
<1> SUFFICES ASSUME NEW t \in Task, GraphOf[t] \in graphs',
                    cproc'[GraphOf[t]] # "down", ~NotStarted(GraphOf[t])'
             PROVE  placement'[t] # NoKey \/ outcome'[t] = "ok"
  BY DEF StartedPlaced
<1> DEFINE g == GraphOf[t]
<1>0. g \in Graph /\ g \in graphs /\ cproc[g] # "down"
  <2>1. g \in graphs
    BY GraphsGrow DEF NotStarted, Unsubmitted
  <2> QED
    BY <2>1, DownForEver
<1>1. CASE NotStarted(g)
  <2>1. Dispatch /\ g = cur
    BY <1>1, StartedByDispatch
  <2>2. t \in TasksOf(cur)
    BY <2>1 DEF TasksOf
  <2>3. c2a[t] # NoKey
    BY <2>1, <2>2 DEF Dispatch, Unassigned
  <2> QED
    BY <2>1, <2>3 DEF Dispatch
<1>2. CASE ~NotStarted(g)
  <2>1. placement[t] # NoKey \/ outcome[t] = "ok"
    BY <1>0, <1>2 DEF StartedPlaced
  <2>2. CASE Dispatch
    <3>1. g # cur
      BY <1>2 DEF NotStarted
    <3> QED
      BY <2>1, <2>2, <3>1 DEF Dispatch
  <2>3. CASE \E m \in a2m : m.type = "TaskInfo" /\ m.task = t /\ OnTaskInfo(m)
    <3>1. PICK m \in a2m : m.type = "TaskInfo" /\ m.task = t /\ OnTaskInfo(m)
      BY <2>3
    <3>2. ~m.error
      BY <3>1, OnTaskInfoOutcome
    <3>3. outcome'[t] = IF placement[t] # NoKey THEN "ok" ELSE outcome[t]
      BY <1>0, <3>1, <3>2, OnTaskInfoOutcome
    <3> QED
      BY <2>1, <3>3
  <2>4. CASE ~Dispatch /\ ~\E m \in a2m : m.type = "TaskInfo" /\ m.task = t /\ OnTaskInfo(m)
    <3>1. /\ placement'[t] = placement[t]
          /\ outcome'[t] = outcome[t] \/ g = cur'
      BY <2>4, PlacementKept
    <3>2. g # cur'
      BY DEF NotStarted
    <3> QED
      BY <2>1, <3>1, <3>2
  <2> QED
    BY <2>2, <2>3, <2>4
<1> QED
  BY <1>1, <1>2

\* Where the solutions come from that a step sends.
LEMMA SolutionsSent ==
  ASSUME TypeOK, [Next]_vars, NEW g \in Graph, NEW s \in m2c'[g], s \notin m2c[g]
  PROVE  \/ s.what
         \/ cproc[g] = "down"
         \/ \E a \in Agent : aproc[a] = "down"
         \/ \E m \in a2m : m.type = "TaskInfo" /\ OnTaskInfo(m)
<1>1. CASE UNCHANGED vars
  BY <1>1 DEF vars, netVars
<1>2. CASE Handle
  <2>1. CASE \E a \in Agent : OnResource(a)
    BY <2>1 DEF OnResource
  <2>2. CASE \E a \in Agent : RemoveAgent(a)
    BY <2>2 DEF RemoveAgent
  <2>3. CASE \E h \in Graph : OnTopology(h)
    BY <2>3 DEF OnTopology
  <2>4. CASE \E h \in Graph : RemoveGraph(h)
    BY <2>4 DEF RemoveGraph, RemoveGraphs
  <2> QED
    BY <1>2, <2>1, <2>2, <2>3, <2>4 DEF Handle
<1>3. CASE Accept
  BY <1>3 DEF Accept, InsertAgent, InsertGraph, netVars
<1>4. CASE Refuse
  <2>1. s = SolutionOf(g, outcome, TRUE)
    BY <1>4 DEF Refuse, RemoveGraphs
  <2> QED
    BY <2>1 DEF SolutionOf
<1>5. CASE Schedule /\ ~Refuse
  BY <1>5 DEF Schedule, TryEnqueue, RestoreResource, TryDequeue, RestoreReleased,
              TryEnqueueDone, Enqueue, DequeueEmpty, DequeueStale, DequeueFront,
              GiveUp, Dispatch, netVars
<1>6. CASE Receive \/ Report \/ Environment
  BY <1>6 DEF Receive, AgentReceive, Report, AgentReport, Environment, AgentDown,
              ClientSubmit, ClientDown, netVars
<1> QED
  BY <1>1, <1>2, <1>3, <1>4, <1>5, <1>6 DEF Next

\* A solution without errors that a report completes tells of every task's success.
LEMMA CleanSolutionStep ==
  ASSUME TypeOK, Traces, TracesPlaced, StartedPlaced, CleanSolutionComplete,
         [Next]_vars
  PROVE  CleanSolutionComplete'
<1> USE ConstantsAssumption
<1> SUFFICES ASSUME NEW g \in Graph, NEW s \in m2c'[g], cproc'[g] # "down", ~s.what,
                    \A t \in TasksOf(g) : s.tasks[t] # "error",
                    \A a \in Agent : aproc'[a] # "down"
             PROVE  \A t \in TasksOf(g) : s.tasks[t] = "ok"
  BY DEF CleanSolutionComplete
<1>1. cproc[g] # "down" /\ \A a \in Agent : aproc[a] # "down"
  BY DownForEver
<1>2. CASE s \in m2c[g]
  BY <1>1, <1>2 DEF CleanSolutionComplete
<1>3. CASE s \notin m2c[g]
  <2>1. PICK m \in a2m : m.type = "TaskInfo" /\ OnTaskInfo(m)
    BY <1>1, <1>3, SolutionsSent
  <2>2. /\ g = GraphOf[m.task] /\ g \in graphs
        /\ \A t \in TasksOf(g) : s.tasks[t] = outcome'[t]
        /\ m.error \/ \A t \in TasksOf(g) : t = m.task \/ placement[t] = NoKey
    BY <1>3, <2>1, OnTaskInfoOutcome
  <2>3. m.agent \in Agent /\ m.task \in TasksOf(g)
    BY <2>1, <2>2 DEF TypeOK, ToMaster, TaskInfo, TasksOf
  <2>4. Trace(m.agent, m.task)
    BY <2>1 DEF Trace, Reports
  <2>5. placement[m.task] # NoKey /\ ~NotStarted(g)
    BY <2>2, <2>3, <2>4 DEF TracesPlaced, Traces, TasksOf
  <2>6. outcome'[m.task] = IF m.error THEN "error" ELSE "ok"
    BY <2>1, <2>2, <2>5, OnTaskInfoOutcome
  <2>7. ~m.error
    BY <2>2, <2>3, <2>6
  <2>8. ASSUME NEW t \in TasksOf(g), t # m.task
        PROVE  outcome'[t] = "ok"
    <3>1. placement[t] = NoKey /\ t \in Task /\ GraphOf[t] = g
      BY <2>2, <2>7, <2>8 DEF TasksOf
    <3>2. outcome[t] = "ok"
      BY <1>1, <2>2, <2>5, <3>1 DEF StartedPlaced
    <3> QED
      BY <2>1, <2>8, <3>1, <3>2, OnTaskInfoOutcome
  <2> QED
    BY <2>2, <2>6, <2>7, <2>8
<1> QED
  BY <1>2, <1>3

SolutionInv == OneTrace /\ TracesPlaced /\ StartedPlaced /\ CleanSolutionComplete

LEMMA SolutionInitially == Init => SolutionInv
<1> SUFFICES ASSUME Init PROVE SolutionInv
  OBVIOUS
<1> USE ConstantsAssumption DEF Init
<1>1. OneTrace /\ TracesPlaced
  BY DEF OneTrace, TracesPlaced, Told, Trace, Reports
<1>2. StartedPlaced /\ CleanSolutionComplete
  BY DEF StartedPlaced, CleanSolutionComplete
<1> QED
  BY <1>1, <1>2 DEF SolutionInv

LEMMA SolutionStep == MasterInv /\ SolutionInv /\ [Next]_vars => SolutionInv'
BY OneTraceStep, TracesPlacedStep, StartedPlacedStep, CleanSolutionStep
   DEF MasterInv, SolutionInv

\* A client that is still there and reads a solution without errors has had all its
\* tasks run to their end, unless an agent was lost on the way.
THEOREM CleanSolutionHolds == Spec => []CleanSolutionComplete
<1>1. SolutionInv => CleanSolutionComplete
  BY DEF SolutionInv
<1> QED
  BY <1>1, SolutionInitially, SolutionStep, MasterInductive, PTL DEF Spec
-----------------------------------------------------------------------------
(* Nothing waits for nothing.  When nothing runs, what _try_dequeue has left of an    *)
(* agent is its capacity less what this very search has placed there, so a search     *)
(* that fails then shows that its graph can be cornered.  Every search that leaves a  *)
(* graph in the queue therefore fails beside running work or for a cornered graph,    *)
(* and all that ends the work, or makes the agents more, begins with another search.  *)

Lost == \E a \in Agent : aproc[a] = "down"

Working == \E a \in agents : tasks[a] # {}

\* The search under way is one that idle agents allow.
GreedyInv == pc = "allocate" /\ ~Working => Greedy(c2a)

\* WaitsBehindWork, in every phase that does not end in a search of _try_dequeue.
WaitsInv ==
  /\ pc \in {"idle", "enqueue", "accept", "refuse", "giveback"}
  /\ \E i \in DOMAIN queue : queue[i] \in graphs
  => Working \/ Lost \/ Cornered(Head(queue))

WaitingInv == GreedyInv /\ WaitsInv

LEMMA LeftOver ==
  ASSUME NEW x \in ResourceType, NEW y \in ResourceType, NEW c, Plus(x, y) = c
  PROVE  Minus(c, y) = x
BY DEF ResourceType, Plus, Minus

\* Best looks at known agents only.
LEMMA BestAgrees ==
  ASSUME NEW x, NEW y, NEW d, \A a \in known : x[a] = y[a]
  PROVE  Best(x, d) = Best(y, d)
BY DEF Best

\* What idle agents have left depends only on the containers that count.
LEMMA IdleLeftAgrees ==
  ASSUME NEW P, NEW Q, NEW S, \A t \in S : P[t] = Q[t]
  PROVE  IdleLeft(P, S) = IdleLeft(Q, S)
<1>1. \A a : {t \in S : P[t] = a} = {t \in S : Q[t] = a}
  OBVIOUS
<1> QED
  BY <1>1 DEF IdleLeft

\* When nothing runs, released is what the search itself has left.
LEMMA ReleasedIsLeft ==
  ASSUME TypeOK, Accounting, pc = "allocate", ~Working, NEW d
  PROVE  Best(released, d) = Best(IdleLeft(c2a, Assigned), d)
<1>1. ASSUME NEW a \in known PROVE released[a] = IdleLeft(c2a, Assigned)[a]
  <2>1. a \in Agent /\ a \in agents /\ tasks[a] = {}
    BY <1>1 DEF TypeOK, Working
  <2>2. Plus(released[a], Load[Reserved(a)]) = Capacity[a]
    <3>1. tasks[a] \union Reserved(a) = Reserved(a)
      BY <2>1
    <3> QED
      BY <1>1, <3>1 DEF Accounting
  <2>3. Minus(Capacity[a], Load[Reserved(a)]) = released[a]
    BY <2>1, <2>2, BookTypes, LeftOver
  <2>4. {t \in Assigned : c2a[t] = a} = Reserved(a)
    BY <2>1, ConstantsAssumption DEF Assigned, Reserved
  <2> QED
    BY <2>1, <2>3, <2>4 DEF IdleLeft
<1> QED
  BY <1>1, BestAgrees

\* A search that has placed nothing is greedy.
LEMMA GreedyStart ==
  ASSUME NEW P, \A t \in Task : P[t] = NoKey
  PROVE  Greedy(P)
<1> DEFINE placed == {t \in Task : P[t] # NoKey}
<1>1. placed = {}
  OBVIOUS
<1>2. [t \in placed |-> {}] \in [placed -> SUBSET placed]
  OBVIOUS
<1> QED
  BY <1>1, <1>2 DEF Greedy

\* A greedy search that gives one more container to a best agent is still greedy.
LEMMA GreedyGrows ==
  ASSUME NEW P \in [Task -> Agent \union {NoKey}], Greedy(P),
         NEW t \in Task, P[t] = NoKey,
         NEW a \in Best(IdleLeft(P, {x \in Task : P[x] # NoKey}), Demand[t]),
         a # NoKey
  PROVE  Greedy([P EXCEPT ![t] = a])
<1> DEFINE Q == [P EXCEPT ![t] = a]
           placed == {x \in Task : P[x] # NoKey}
           more == {x \in Task : Q[x] # NoKey}
<1>1. more = placed \union {t} /\ t \notin placed
  OBVIOUS
<1>2. PICK before \in [placed -> SUBSET placed] :
        \A x \in placed :
          /\ P[x] \in Best(IdleLeft(P, before[x]), Demand[x])
          /\ x \notin before[x]
          /\ \A u \in placed \ {x} : (u \in before[x]) <=> (x \notin before[u])
          /\ \A u \in before[x] : before[u] \subseteq before[x]
  BY DEF Greedy
<1> DEFINE after == [x \in more |-> IF x = t THEN placed ELSE before[x]]
<1>3. after \in [more -> SUBSET more]
  BY <1>1
<1>4. after[t] = placed /\ \A x \in placed : after[x] = before[x] /\ x # t
  BY <1>1
<1>5. \A x \in placed : Q[x] = P[x]
  BY <1>1
<1>6. Q[t] = a
  OBVIOUS
<1>7. ASSUME NEW x \in more
      PROVE  /\ Q[x] \in Best(IdleLeft(Q, after[x]), Demand[x])
             /\ x \notin after[x]
             /\ \A u \in more \ {x} : (u \in after[x]) <=> (x \notin after[u])
             /\ \A u \in after[x] : after[u] \subseteq after[x]
  <2> HIDE DEF Q, after, more, placed
  <2>1. CASE x = t
    <3>1. IdleLeft(Q, placed) = IdleLeft(P, placed)
      BY <1>5, IdleLeftAgrees
    <3>2. a \in Best(IdleLeft(P, placed), Demand[t])
      BY DEF placed
    <3>3. \A u \in placed : before[u] \subseteq placed /\ t \notin before[u]
      BY <1>1, <1>2
    <3> QED
      BY <1>1, <1>4, <1>6, <2>1, <3>1, <3>2, <3>3
  <2>2. CASE x \in placed
    <3>1. before[x] \subseteq placed
      BY <2>2
    <3>2. IdleLeft(Q, before[x]) = IdleLeft(P, before[x])
      BY <1>5, <3>1, IdleLeftAgrees
    <3>3. Q[x] \in Best(IdleLeft(Q, after[x]), Demand[x])
      BY <1>2, <1>4, <1>5, <2>2, <3>2
    <3>4. \A u \in more \ {x} : (u \in after[x]) <=> (x \notin after[u])
      BY <1>1, <1>2, <1>4, <2>2, <3>1
    <3> QED
      BY <1>2, <1>4, <2>2, <3>1, <3>3, <3>4
  <2> QED
    BY <1>1, <2>1, <2>2
<1> HIDE DEF Q, after
<1>8. Greedy(Q)
  BY <1>3, <1>7 DEF Greedy
<1> QED
  BY <1>8 DEF Q

\* A search that fails when nothing runs has cornered its graph.
LEMMA FailsCornered ==
  ASSUME TypeOK, OwnerPhase, Accounting, GreedyInv, pc = "allocate", ~Working,
         NEW t \in Unassigned, Best(released, Demand[t]) = {}
  PROVE  Cornered(cur)
<1>1. c2a \in [Task -> known \union {NoKey}]
  BY DEF TypeOK, OwnerPhase
<1>2. \A x \in Task : c2a[x] # NoKey => GraphOf[x] = cur
  BY DEF OwnerPhase
<1>3. Greedy(c2a)
  BY DEF GreedyInv
<1>4. t \in TasksOf(cur) /\ c2a[t] = NoKey
  BY DEF Unassigned
<1>5. Best(IdleLeft(c2a, {x \in Task : c2a[x] # NoKey}), Demand[t]) = {}
  BY ReleasedIsLeft DEF Assigned
<1> QED
  BY <1>1, <1>2, <1>3, <1>4, <1>5 DEF Cornered

\* What may be cornered depends on the known agents only.
LEMMA GreedyKept ==
  ASSUME UNCHANGED known
  PROVE  Greedy(c2a)' = Greedy(c2a')
BY DEF Greedy, IdleLeft, Best

LEMMA CorneredKept ==
  ASSUME UNCHANGED <<known, queue>>
  PROVE  Cornered(Head(queue))' = Cornered(Head(queue))
BY DEF Cornered, Greedy, IdleLeft, Best, TasksOf

\* Agents stay known, and the tables keep their tasks, except in the steps named.
LEMMA KnownGrows ==
  ASSUME TypeOK, [Next]_vars
  PROVE  Lost' \/ (known \subseteq known' /\ agents \subseteq agents')
<1>1. CASE \E a \in Agent : RemoveAgent(a)
  BY <1>1 DEF RemoveAgent, Lost, procVars
<1>2. CASE UNCHANGED vars
  BY <1>2 DEF vars, masterVars
<1>3. CASE Handle /\ ~\E a \in Agent : RemoveAgent(a)
  BY <1>3 DEF Handle, OnResource, OnTaskInfo, OnTopology, RemoveGraph
<1>4. CASE Accept
  BY <1>4 DEF Accept, InsertAgent, InsertGraph
<1>5. CASE Schedule
  BY <1>5 DEF Schedule, TryEnqueue, RestoreResource, TryDequeue, RestoreReleased,
              TryEnqueueDone, Enqueue, Refuse, DequeueEmpty, DequeueStale,
              DequeueFront, GiveUp, Dispatch, masterVars
<1>6. CASE Receive \/ Report \/ Environment
  BY <1>6 DEF Receive, AgentReceive, Report, AgentReport, Environment, AgentDown,
              ClientSubmit, ClientDown, masterVars
<1> QED
  BY <1>1, <1>2, <1>3, <1>4, <1>5, <1>6 DEF Next

LEMMA GreedyStep ==
  ASSUME TypeOK, OwnerPhase, Accounting, GreedyInv, [Next]_vars
  PROVE  GreedyInv'
<1> USE ConstantsAssumption
<1> SUFFICES ASSUME pc' = "allocate", ~Working' PROVE Greedy(c2a)'
  BY DEF GreedyInv
<1>1. ASSUME pc = "allocate", UNCHANGED <<known, agents, tasks, c2a>> PROVE Greedy(c2a)'
  <2>1. Greedy(c2a)
    BY <1>1 DEF GreedyInv, Working
  <2>2. c2a' = c2a
    BY <1>1
  <2> QED
    BY <1>1, <2>1, <2>2, GreedyKept
<1>2. CASE UNCHANGED vars
  BY <1>1, <1>2 DEF vars, masterVars, ownerVars
<1>3. CASE Handle \/ Accept
  BY <1>3 DEF Handle, OnResource, RemoveAgent, OnTaskInfo, OnTopology, RemoveGraph,
              Accept, InsertAgent, InsertGraph, ownerVars
<1>4. CASE Receive \/ Report \/ Environment
  BY <1>1, <1>4 DEF Receive, AgentReceive, Report, AgentReport, Environment, AgentDown,
              ClientSubmit, ClientDown, masterVars, ownerVars
<1>5. CASE DequeueFront
  <2>1. \A t \in Task : c2a'[t] = NoKey
    BY <1>5 DEF DequeueFront, OwnerPhase
  <2>2. Greedy(c2a')
    BY <2>1, GreedyStart
  <2>3. UNCHANGED known
    BY <1>5 DEF DequeueFront, masterVars
  <2> QED
    BY <2>2, <2>3, GreedyKept
<1>6. ASSUME NEW t \in Task, TryDequeue(t) PROVE Greedy(c2a)'
  <2>1. /\ pc = "allocate" /\ t \in Unassigned
        /\ UNCHANGED <<known, agents, tasks>>
    BY <1>6 DEF TryDequeue
  <2>2. PICK a \in Best(released, Demand[t]) : c2a' = [c2a EXCEPT ![t] = a]
    BY <1>6 DEF TryDequeue
  <2>3. ~Working
    BY <2>1 DEF Working
  <2>4. a \in Best(IdleLeft(c2a, {x \in Task : c2a[x] # NoKey}), Demand[t])
    BY <2>1, <2>2, <2>3, ReleasedIsLeft DEF Assigned
  <2>5. a \in Agent /\ a # NoKey
    BY <2>2, BestType DEF TypeOK
  <2>6. c2a \in [Task -> Agent \union {NoKey}] /\ c2a[t] = NoKey
    BY <2>1 DEF TypeOK, Unassigned
  <2>7. Greedy([c2a EXCEPT ![t] = a])
    BY <2>1, <2>3, <2>4, <2>5, <2>6, GreedyGrows DEF GreedyInv
  <2> QED
    BY <2>1, <2>2, <2>7, GreedyKept
<1>7. CASE Schedule /\ ~DequeueFront /\ ~\E t \in Task : TryDequeue(t)
  BY <1>7 DEF Schedule, TryEnqueue, RestoreResource, RestoreReleased, TryEnqueueDone,
              Enqueue, Refuse, DequeueEmpty, DequeueStale, GiveUp, Dispatch, ownerVars
<1> QED
  BY <1>2, <1>3, <1>4, <1>5, <1>6, <1>7 DEF Next

LEMMA WaitsStep ==
  ASSUME TypeOK, OwnerPhase, QueueInv, Accounting, WaitingInv, [Next]_vars
  PROVE  WaitsInv'
<1> USE ConstantsAssumption
<1> DEFINE Excused == Working \/ Cornered(Head(queue))
<1> SUFFICES ASSUME pc' \in {"idle", "enqueue", "accept", "refuse", "giveback"},
                    NEW i \in DOMAIN queue', queue'[i] \in graphs',
                    ~Lost'
             PROVE  Excused'
  BY DEF WaitsInv
<1>1. ~Lost /\ agents \subseteq agents'
  BY DownForEver, KnownGrows DEF Lost
<1>2. \A a \in Agent : aproc[a] # "down"
  BY <1>1 DEF Lost
<1>3. ASSUME Excused, UNCHANGED <<tasks, queue, known>> PROVE Excused'
  <2>1. Working => Working'
    BY <1>1, <1>3 DEF Working
  <2> QED
    BY <1>3, <2>1, CorneredKept
<1>4. ASSUME pc \in {"idle", "enqueue", "accept", "refuse", "giveback"},
             graphs' \subseteq graphs, UNCHANGED <<tasks, queue, known>>
      PROVE  Excused'
  BY <1>1, <1>3, <1>4 DEF WaitingInv, WaitsInv
<1> HIDE DEF Excused
<1>5. CASE UNCHANGED vars
  BY <1>4, <1>5 DEF vars, masterVars, ownerVars
<1>6. CASE Handle
  <2>1. CASE \E a \in Agent : OnResource(a) \/ RemoveAgent(a)
    BY <1>2, <2>1 DEF OnResource, RemoveAgent
  <2>2. CASE \E m \in a2m : m.type = "TaskInfo" /\ OnTaskInfo(m)
    BY <2>2 DEF OnTaskInfo
  <2>3. CASE \E g \in Graph : OnTopology(g) \/ RemoveGraph(g)
    BY <1>4, <2>3 DEF OnTopology, RemoveGraph, RemoveGraphs
  <2> QED
    BY <1>6, <2>1, <2>2, <2>3 DEF Handle
<1>7. CASE \E a \in Agent : InsertAgent(a)
  BY <1>4, <1>7 DEF InsertAgent, ownerVars
<1>8. CASE \E g \in Graph : InsertGraph(g)
  <2>1. pc = "idle" /\ UNCHANGED <<queue, tasks, known>>
    BY <1>8 DEF InsertGraph
  <2>2. queue[i] \in graphs
    <3>1. ~Unsubmitted(queue[i])
      BY <2>1 DEF QueueInv
    <3> QED
      BY <2>1, <3>1, GraphsGrow DEF Unsubmitted
  <2>3. Excused
    BY <1>1, <2>1, <2>2 DEF WaitingInv, WaitsInv, Excused
  <2> QED
    BY <1>3, <2>1, <2>3
<1>9. ASSUME NEW t \in Task, TryDequeue(t) PROVE Excused'
  <2>1. /\ pc = "allocate" /\ t \in Unassigned /\ UNCHANGED <<tasks, queue, known>>
        /\ Best(released, Demand[t]) = {}
    BY <1>9 DEF TryDequeue
  <2>2. cur = Head(queue)
    BY <2>1 DEF OwnerPhase
  <2>3. Excused
    BY <2>1, <2>2, FailsCornered DEF WaitingInv, Excused
  <2> QED
    BY <1>3, <2>1, <2>3
<1>10. ASSUME NEW t \in Task, TryEnqueue(t) \/ RestoreResource(t) \/ RestoreReleased(t)
       PROVE  Excused'
  BY <1>4, <1>10 DEF TryEnqueue, RestoreResource, RestoreReleased
<1>11. CASE TryEnqueueDone \/ GiveUp \/ Refuse
  BY <1>4, <1>11 DEF TryEnqueueDone, GiveUp, Refuse, RemoveGraphs, masterVars
<1>12. CASE DequeueEmpty
  BY <1>12 DEF DequeueEmpty, masterVars
<1>13. CASE Enqueue \/ DequeueStale \/ DequeueFront \/ Dispatch
  BY <1>13 DEF Enqueue, DequeueStale, DequeueFront, Dispatch, ownerVars
<1>14. CASE Receive \/ Report \/ Environment
  BY <1>4, <1>14 DEF Receive, AgentReceive, Report, AgentReport, Environment,
              AgentDown, ClientSubmit, ClientDown, masterVars, ownerVars
<1> QED
  BY <1>5, <1>6, <1>7, <1>8, <1>9, <1>10, <1>11, <1>12, <1>13, <1>14
     DEF Next, Accept, Schedule

LEMMA WaitingInitially == Init => WaitingInv
BY DEF Init, WaitingInv, GreedyInv, WaitsInv

LEMMA WaitingStep == MasterInv /\ WaitingInv /\ [Next]_vars => WaitingInv'
BY GreedyStep, WaitsStep DEF MasterInv, WaitingInv

\* With the owner idle a live graph waits only behind running tasks, whatever the agents
\* and graphs: _dequeue is called again after all that can make room.  The exceptions are
\* those of WaitsBehindWork, a lost agent and a head of the queue that the greedy search
\* of _try_dequeue can fail to place on idle agents.
THEOREM WaitsBehindWorkHolds == Spec => []WaitsBehindWork
<1>1. WaitingInv => WaitsBehindWork
  BY DEF WaitingInv, WaitsInv, WaitsBehindWork, Working, Lost
<1> QED
  BY <1>1, WaitingStep, WaitingInitially, MasterInductive, PTL DEF Spec
=============================================================================
