------------------------------- MODULE Master -------------------------------
(***************************************************************************)
(* The master of a DtCraft cluster: src/kernel/master.cpp and              *)
(* src/kernel/scheduler.cpp.                                               *)
(*                                                                         *)
(* All of the master's state is read and written by one thread, the owner  *)
(* of its reactor; workers read messages from the sockets and hand them to *)
(* the owner as promises.  A handler is therefore one action here, except  *)
(* where it loops: the greedy allocation of the scheduler and the draining *)
(* of the graph queue are one step per iteration, with the owner's program *)
(* counter in pc, so that each loop's state is visible to the invariants.  *)
(*                                                                         *)
(* Agents and clients (the programs that submit a graph) are external.     *)
(* They are modelled by the promise the master relies on: an agent sends   *)
(* its resource once, answers every Topology it receives with exactly one  *)
(* TaskInfo, and may go down at any time, silently losing what it holds.   *)
(***************************************************************************)
EXTENDS Resource, Sequences

CONSTANTS
  Agent,      \* the keys _insert_agent hands out, one per connection
  Graph,      \* the keys _insert_graph hands out, one per connection
  Task,       \* TaskID: the (graph, container) pairs
  GraphOf,    \* the graph a task belongs to
  Demand,     \* the resource a task's container asks for
  Capacity,   \* the resource an agent reports when it connects
  Load,       \* Topology::resource(): the sum of the demands of a set of tasks
  NoKey       \* the key -1, which _insert_agent and _insert_graph never hand out

ASSUME ConstantsAssumption ==
  /\ GraphOf \in [Task -> Graph]
  /\ Demand \in [Task -> ResourceType]
  /\ Capacity \in [Agent -> ResourceType]
  /\ NoKey \notin Agent \union Graph

\* Load sums: the empty set weighs nothing and a task adds its own demand.
ASSUME LoadAssumption ==
  /\ Load \in [SUBSET Task -> ResourceType]
  /\ Load[{}] = NoResource
  /\ \A S \in SUBSET Task : \A t \in Task \ S :
       Load[S \union {t}] = Plus(Load[S], Demand[t])

TasksOf(g) == {t \in Task : GraphOf[t] = g}

\* The messages of the two directions of an agent's connection.
ToAgent == [type : {"Topology", "KillTask"}, agent : Agent, task : Task]
TaskInfo == [type : {"TaskInfo"}, agent : Agent, task : Task, error : BOOLEAN]
ToMaster == [type : {"Resource"}, agent : Agent] \union TaskInfo

\* What a solution says of a task, and a solution.
Outcome == {"none", "ok", "error"}
Solution == [tasks : [Task -> Outcome], what : BOOLEAN]

VARIABLES
  \* Master
  agents,     \* keys of _agents
  known,      \* the agents whose resource and released are engaged
  resource,   \* Agent::resource
  released,   \* Agent::released
  tasks,      \* Agent::tasks (every task also sits in cpu_bins[0])
  graphs,     \* keys of _graphs
  topology,   \* the graphs whose topology and solution are engaged
  placement,  \* Graph::placement of all graphs, NoKey where absent
  outcome,    \* Solution::taskinfos of all graphs
  queue,      \* _queue
  \* The owner thread inside a handler
  pc,
  cur,        \* the graph the scheduler works on
  c2a,        \* the scheduler's container-to-agent map, NoKey where absent
  \* The connections and the processes behind them
  m2a, a2m,   \* messages written to and by agents, not yet handled
  c2m,        \* graphs whose topology is on its way to the master
  m2c,        \* the solutions written to the client of each graph
  aproc,      \* agent process: "new", "up" or "down"
  cproc,      \* client process: "new", "up", "sent" or "down"
  held,       \* tasks an agent process has received and not yet reported
  doomed      \* tasks whose KillTask an agent process has received

masterVars == <<agents, known, resource, released, tasks, graphs, topology,
                placement, outcome, queue>>
ownerVars == <<pc, cur, c2a>>
netVars == <<m2a, a2m, c2m, m2c>>
procVars == <<aproc, cproc, held, doomed>>
vars == <<masterVars, ownerVars, netVars, procVars>>

PC == {"idle", "enqueue", "accept", "refuse",
       "dequeue", "allocate", "giveback", "crashed"}

NoMap == [t \in Task |-> NoKey]

Init ==
  /\ agents = {}
  /\ known = {}
  /\ resource = [a \in Agent |-> NoResource]
  /\ released = [a \in Agent |-> NoResource]
  /\ tasks = [a \in Agent |-> {}]
  /\ graphs = {}
  /\ topology = {}
  /\ placement = NoMap
  /\ outcome = [t \in Task |-> "none"]
  /\ queue = <<>>
  /\ pc = "idle"
  /\ cur = NoKey
  /\ c2a = NoMap
  /\ m2a = {}
  /\ a2m = {}
  /\ c2m = {}
  /\ m2c = [g \in Graph |-> {}]
  /\ aproc = [a \in Agent |-> "new"]
  /\ cproc = [g \in Graph |-> "new"]
  /\ held = [a \in Agent |-> {}]
  /\ doomed = {}
-----------------------------------------------------------------------------
(* Helpers *)

\* What is written to the connection of a process that is gone is lost.
Deliver(M) == m2a \union {m \in M : aproc[m.agent] = "up"}

\* The agents the scheduler's search may settle on for demand d.  It walks
\* _agents in the order of the hash table and replaces its candidate by a
\* fitting agent whose vector is strictly smaller, so it can end on exactly
\* the minimal ones among the agents that fit.
Best(avail, d) ==
  LET fits == {a \in known : Geq(avail[a], d)}
  IN  {a \in fits : \A b \in fits : ~Less(avail[b], avail[a])}

Unassigned == {t \in TasksOf(cur) : c2a[t] = NoKey}
Assigned == {t \in Task : c2a[t] # NoKey}

\* Mutated form of Kills: the remaining tasks are not shut down.
NoKills(G, P, T) == {}

\* The KillTask messages _remove_graph writes for the graphs G: one for every
\* placed task that its agent, still connected, has not reported.
Kills(G, P, T) ==
  {[type |-> "KillTask", agent |-> P[t], task |-> t] :
     t \in {x \in Task : /\ GraphOf[x] \in G
                         /\ P[x] \in agents
                         /\ x \in T[P[x]]}}

\* Mutated form of SolutionOf: what is never set.
SilentSolutionOf(g, O, w) ==
  [tasks |-> [t \in Task |-> IF GraphOf[t] = g THEN O[t] ELSE "none"],
   what |-> FALSE]

SolutionOf(g, O, w) ==
  [tasks |-> [t \in Task |-> IF GraphOf[t] = g THEN O[t] ELSE "none"],
   what |-> w]

\* _remove_graph for every graph of G, from the placement P, the task tables T
\* and the collected outcomes O that the handler has computed so far.
RemoveGraphs(G, P, T, O, w) ==
  /\ graphs' = graphs \ G
  /\ topology' = topology \ G
  /\ placement' = [t \in Task |-> IF GraphOf[t] \in G THEN NoKey ELSE P[t]]
  /\ m2a' = Deliver(Kills(G, P, T))
  /\ m2c' = [g \in Graph |->
               IF g \in G THEN m2c[g] \union {SolutionOf(g, O, w)} ELSE m2c[g]]
  /\ outcome' = O
-----------------------------------------------------------------------------
(* Handlers of the agents' connections *)

\* A connection accepted on the agent port.  The agent writes its resource
\* before anything else.
InsertAgent(a) ==
  /\ pc = "idle"
  /\ aproc[a] = "new"
  /\ aproc' = [aproc EXCEPT ![a] = "up"]
  /\ agents' = agents \union {a}
  /\ a2m' = a2m \union {[type |-> "Resource", agent |-> a]}
  /\ UNCHANGED <<known, resource, released, tasks, graphs, topology, placement,
                 outcome, queue, ownerVars, m2a, c2m, m2c, cproc, held, doomed>>

OnResource(a) ==
  /\ pc = "idle"
  /\ [type |-> "Resource", agent |-> a] \in a2m
  /\ a2m' = a2m \ {[type |-> "Resource", agent |-> a]}
  /\ IF a \in agents
       THEN /\ known' = known \union {a}
            /\ resource' = [resource EXCEPT ![a] = Capacity[a]]
            /\ released' = [released EXCEPT ![a] = Capacity[a]]
       ELSE UNCHANGED <<known, resource, released>>
  /\ pc' = "dequeue"
  /\ UNCHANGED <<agents, tasks, graphs, topology, placement, outcome, queue,
                 cur, c2a, m2a, c2m, m2c, procVars>>

\* Agent::remove, then Graph::update, then _remove_graph if the task failed or
\* was the last one, and the scheduler in any case.
OnTaskInfo(m) ==
  LET t == m.task
      g == GraphOf[t]
      mine == m.agent \in agents /\ t \in tasks[m.agent]
      T == IF mine THEN [tasks EXCEPT ![m.agent] = @ \ {t}] ELSE tasks
      hit == g \in graphs /\ placement[t] # NoKey
      P == IF hit THEN [placement EXCEPT ![t] = NoKey] ELSE placement
      O == IF hit THEN [outcome EXCEPT ![t] = IF m.error THEN "error" ELSE "ok"]
                  ELSE outcome
      done == /\ g \in graphs
              /\ m.error \/ \A x \in TasksOf(g) : P[x] = NoKey
  IN  /\ pc = "idle"
      /\ m \in a2m
      /\ a2m' = a2m \ {m}
      /\ tasks' = T
      /\ released' = IF mine
                       THEN [released EXCEPT ![m.agent] = Plus(@, Demand[t])]
                       ELSE released
      /\ RemoveGraphs(IF done THEN {g} ELSE {}, P, T, O, FALSE)
      /\ pc' = "dequeue"
      /\ UNCHANGED <<agents, known, resource, queue, cur, c2a, c2m, procVars>>

\* BrokenIO on an agent's connection.  Every graph with a task there is removed.
\* Messages of the agent that no worker has read are lost with its stream; those
\* already handed to the owner are handled later.
RemoveAgent(a) ==
  /\ pc = "idle"
  /\ a \in agents
  /\ aproc[a] = "down"
  /\ RemoveGraphs({GraphOf[t] : t \in tasks[a]} \intersect graphs,
                  placement, tasks, outcome, FALSE)
  /\ agents' = agents \ {a}
  /\ known' = known \ {a}
  /\ tasks' = [tasks EXCEPT ![a] = {}]
  /\ resource' = [resource EXCEPT ![a] = NoResource]
  /\ released' = [released EXCEPT ![a] = NoResource]
  /\ \E unread \in SUBSET {m \in a2m : m.agent = a} : a2m' = a2m \ unread
  /\ UNCHANGED <<queue, ownerVars, c2m, procVars>>
-----------------------------------------------------------------------------
(* Handlers of the clients' connections *)

\* A connection accepted on the graph port.
InsertGraph(g) ==
  /\ pc = "idle"
  /\ cproc[g] = "new"
  /\ cproc' = [cproc EXCEPT ![g] = "up"]
  /\ graphs' = graphs \union {g}
  /\ UNCHANGED <<agents, known, resource, released, tasks, topology, placement,
                 outcome, queue, ownerVars, netVars, aproc, held, doomed>>

\* The topology of a graph arrives; _enqueue starts its search.
OnTopology(g) ==
  /\ pc = "idle"
  /\ g \in c2m
  /\ c2m' = c2m \ {g}
  /\ IF g \in graphs
       THEN /\ topology' = topology \union {g}
            /\ outcome' = [t \in Task |-> IF GraphOf[t] = g THEN "none"
                                                            ELSE outcome[t]]
            /\ pc' = "enqueue"
            /\ cur' = g
       ELSE UNCHANGED <<topology, outcome, pc, cur>>
  /\ UNCHANGED <<agents, known, resource, released, tasks, graphs, placement,
                 queue, c2a, m2a, a2m, m2c, procVars>>

\* BrokenIO on a client's connection.  _remove_graph moves from the optional
\* solution, which is empty when no topology has come: undefined behaviour, from
\* which the master survives or does not.
RemoveGraph(g) ==
  /\ pc = "idle"
  /\ g \in graphs
  /\ cproc[g] = "down"
  /\ RemoveGraphs({g}, placement, tasks, outcome, FALSE)
  /\ pc' \in IF g \in topology THEN {"idle"} ELSE {"idle", "crashed"}
  /\ UNCHANGED <<agents, known, resource, released, tasks, queue, cur, c2a,
                 a2m, c2m, procVars>>
-----------------------------------------------------------------------------
(* The scheduler *)

\* One iteration of the loop of _try_enqueue: take some container, reserve it on
\* the full resource of the best agent.
TryEnqueue(t) ==
  /\ pc = "enqueue"
  /\ t \in Unassigned
  /\ \/ \E a \in Best(resource, Demand[t]) :
          /\ c2a' = [c2a EXCEPT ![t] = a]
          /\ resource' = [resource EXCEPT ![a] = Minus(@, Demand[t])]
          /\ UNCHANGED pc
     \/ /\ Best(resource, Demand[t]) = {}
        /\ pc' = "refuse"
        /\ UNCHANGED <<c2a, resource>>
  /\ UNCHANGED <<agents, known, released, tasks, graphs, topology, placement,
                 outcome, queue, cur, netVars, procVars>>

TryEnqueueDone ==
  /\ pc = "enqueue"
  /\ Unassigned = {}
  /\ pc' = "accept"
  /\ UNCHANGED <<masterVars, cur, c2a, netVars, procVars>>

\* One iteration of the loop of _try_enqueue that restores the resources.
RestoreResource(t) ==
  /\ pc \in {"accept", "refuse"}
  /\ t \in Assigned
  /\ resource' = [resource EXCEPT ![c2a[t]] = Plus(@, Demand[t])]
  /\ c2a' = [c2a EXCEPT ![t] = NoKey]
  /\ UNCHANGED <<agents, known, released, tasks, graphs, topology, placement,
                 outcome, queue, pc, cur, netVars, procVars>>

\* Mutated form of Enqueue: _on_topology does not go on to _dequeue.
EnqueueOnly ==
  /\ pc = "accept"
  /\ Assigned = {}
  /\ queue' = Append(queue, cur)
  /\ pc' = "idle"
  /\ cur' = NoKey
  /\ UNCHANGED <<agents, known, resource, released, tasks, graphs, topology,
                 placement, outcome, c2a, netVars, procVars>>

\* _enqueue pushes the graph and _on_topology goes on to _dequeue.
Enqueue ==
  /\ pc = "accept"
  /\ Assigned = {}
  /\ queue' = Append(queue, cur)
  /\ pc' = "dequeue"
  /\ cur' = NoKey
  /\ UNCHANGED <<agents, known, resource, released, tasks, graphs, topology,
                 placement, outcome, c2a, netVars, procVars>>

\* _on_topology removes a graph that does not fit, with what set.
Refuse ==
  /\ pc = "refuse"
  /\ Assigned = {}
  /\ RemoveGraphs({cur}, placement, tasks, outcome, TRUE)
  /\ pc' = "idle"
  /\ cur' = NoKey
  /\ UNCHANGED <<agents, known, resource, released, tasks, queue, c2a, a2m, c2m,
                 procVars>>

\* The head of the loop of _dequeue: an empty queue ends it, a graph that is no
\* longer there is popped, any other one is tried.
DequeueEmpty ==
  /\ pc = "dequeue"
  /\ queue = <<>>
  /\ pc' = "idle"
  /\ UNCHANGED <<masterVars, cur, c2a, netVars, procVars>>

\* Mutated form of DequeueStale: a graph that is gone ends the loop.
DequeueStaleBreaks ==
  /\ pc = "dequeue"
  /\ queue # <<>>
  /\ Head(queue) \notin graphs
  /\ pc' = "idle"
  /\ UNCHANGED <<masterVars, cur, c2a, netVars, procVars>>

DequeueStale ==
  /\ pc = "dequeue"
  /\ queue # <<>>
  /\ Head(queue) \notin graphs
  /\ queue' = Tail(queue)
  /\ UNCHANGED <<agents, known, resource, released, tasks, graphs, topology,
                 placement, outcome, ownerVars, netVars, procVars>>

DequeueFront ==
  /\ pc = "dequeue"
  /\ queue # <<>>
  /\ Head(queue) \in graphs
  /\ pc' = "allocate"
  /\ cur' = Head(queue)
  /\ UNCHANGED <<masterVars, c2a, netVars, procVars>>

\* One iteration of the loop of _try_dequeue, on what is left of each agent.
TryDequeue(t) ==
  /\ pc = "allocate"
  /\ t \in Unassigned
  /\ \/ \E a \in Best(released, Demand[t]) :
          /\ c2a' = [c2a EXCEPT ![t] = a]
          /\ released' = [released EXCEPT ![a] = Minus(@, Demand[t])]
          /\ UNCHANGED pc
     \/ /\ Best(released, Demand[t]) = {}
        /\ pc' = "giveback"
        /\ UNCHANGED <<c2a, released>>
  /\ UNCHANGED <<agents, known, resource, tasks, graphs, topology, placement,
                 outcome, queue, cur, netVars, procVars>>

\* Mutated form of RestoreReleased: what the failed search took is not given back.
RestoreNothing(t) ==
  /\ pc = "giveback"
  /\ t \in Assigned
  /\ c2a' = [c2a EXCEPT ![t] = NoKey]
  /\ UNCHANGED <<masterVars, pc, cur, netVars, procVars>>

\* _try_dequeue failed: restore, and leave the graph at the head of the queue.
RestoreReleased(t) ==
  /\ pc = "giveback"
  /\ t \in Assigned
  /\ released' = [released EXCEPT ![c2a[t]] = Plus(@, Demand[t])]
  /\ c2a' = [c2a EXCEPT ![t] = NoKey]
  /\ UNCHANGED <<agents, known, resource, tasks, graphs, topology, placement,
                 outcome, queue, pc, cur, netVars, procVars>>

GiveUp ==
  /\ pc = "giveback"
  /\ Assigned = {}
  /\ pc' = "idle"
  /\ cur' = NoKey
  /\ UNCHANGED <<masterVars, c2a, netVars, procVars>>

\* _try_dequeue succeeded: every topology is extracted and written to its agent
\* (by workers, whose futures the owner awaits), placement and task tables are
\* filled in, and _dequeue pops the graph.
Dispatch ==
  /\ pc = "allocate"
  /\ Unassigned = {}
  /\ m2a' = Deliver({[type |-> "Topology", agent |-> c2a[t], task |-> t] :
                       t \in TasksOf(cur)})
  /\ placement' = [t \in Task |-> IF GraphOf[t] = cur THEN c2a[t]
                                                       ELSE placement[t]]
  /\ tasks' = [a \in Agent |-> tasks[a] \union {t \in TasksOf(cur) : c2a[t] = a}]
  /\ queue' = Tail(queue)
  /\ pc' = "dequeue"
  /\ cur' = NoKey
  /\ c2a' = NoMap
  /\ UNCHANGED <<agents, known, resource, released, graphs, topology, outcome,
                 a2m, c2m, m2c, procVars>>
-----------------------------------------------------------------------------
(* The processes at the other ends *)

\* An agent takes a message.  Its stream is a FIFO, so a KillTask is never read
\* ahead of the Topology it follows; messages about different tasks may be taken
\* in either order, which allows more than the stream does.
AgentReceive(m) ==
  /\ m \in m2a
  /\ m2a' = m2a \ {m}
  /\ \/ /\ m.type = "Topology"
        /\ held' = [held EXCEPT ![m.agent] = @ \union {m.task}]
        /\ UNCHANGED doomed
     \/ /\ m.type = "KillTask"
        /\ [m EXCEPT !.type = "Topology"] \notin m2a
        /\ doomed' = doomed \union {m.task}
        /\ UNCHANGED held
  /\ UNCHANGED <<masterVars, ownerVars, a2m, c2m, m2c, aproc, cproc>>

\* An agent reports a task it holds, once: it ended, failed to start or was killed.
AgentReport(a, t, e) ==
  /\ t \in held[a]
  /\ held' = [held EXCEPT ![a] = @ \ {t}]
  /\ a2m' = a2m \union {[type |-> "TaskInfo", agent |-> a, task |-> t,
                          error |-> e]}
  /\ UNCHANGED <<masterVars, ownerVars, m2a, c2m, m2c, aproc, cproc, doomed>>

\* An agent process or its connection dies.
AgentDown(a) ==
  /\ aproc[a] = "up"
  /\ aproc' = [aproc EXCEPT ![a] = "down"]
  /\ held' = [held EXCEPT ![a] = {}]
  /\ m2a' = {m \in m2a : m.agent # a}
  /\ UNCHANGED <<masterVars, ownerVars, a2m, c2m, m2c, cproc, doomed>>

\* A client writes its topology.
ClientSubmit(g) ==
  /\ cproc[g] = "up"
  /\ cproc' = [cproc EXCEPT ![g] = "sent"]
  /\ c2m' = c2m \union {g}
  /\ UNCHANGED <<masterVars, ownerVars, m2a, a2m, m2c, aproc, held, doomed>>

\* A client leaves: it has its solution, or gives up, or dies.
ClientDown(g) ==
  /\ cproc[g] \in {"up", "sent"}
  /\ cproc' = [cproc EXCEPT ![g] = "down"]
  /\ UNCHANGED <<masterVars, ownerVars, netVars, aproc, held, doomed>>
-----------------------------------------------------------------------------
\* The promises workers hand to the owner.
Handle ==
  \/ \E a \in Agent : OnResource(a) \/ RemoveAgent(a)
  \/ \E m \in a2m : m.type = "TaskInfo" /\ OnTaskInfo(m)
  \/ \E g \in Graph : OnTopology(g) \/ RemoveGraph(g)

Accept ==
  \/ \E a \in Agent : InsertAgent(a)
  \/ \E g \in Graph : InsertGraph(g)

Schedule ==
  \/ \E t \in Task : \/ TryEnqueue(t) \/ RestoreResource(t)
                     \/ TryDequeue(t) \/ RestoreReleased(t)
  \/ TryEnqueueDone \/ Enqueue \/ Refuse
  \/ DequeueEmpty \/ DequeueStale \/ DequeueFront \/ GiveUp \/ Dispatch

Receive == \E m \in m2a : AgentReceive(m)

Report == \E a \in Agent, t \in Task, e \in BOOLEAN : AgentReport(a, t, e)

Environment ==
  \/ \E a \in Agent : AgentDown(a)
  \/ \E g \in Graph : ClientSubmit(g) \/ ClientDown(g)

Next == Handle \/ Accept \/ Schedule \/ Receive \/ Report \/ Environment

Spec == Init /\ [][Next]_vars

\* The owner keeps running promises, agents keep reading and every task ends.
\* Nothing obliges a process to connect, to leave or to die.
Fairness ==
  /\ WF_vars(Handle \/ Schedule)
  /\ WF_vars(Receive)
  /\ WF_vars(Report)

FairSpec == Spec /\ Fairness
-----------------------------------------------------------------------------
(* Properties *)

TypeOK ==
  /\ agents \in SUBSET Agent
  /\ known \in SUBSET agents
  /\ resource \in [Agent -> ResourceType]
  /\ released \in [Agent -> ResourceType]
  /\ tasks \in [Agent -> SUBSET Task]
  /\ graphs \in SUBSET Graph
  /\ topology \in SUBSET graphs
  /\ placement \in [Task -> Agent \union {NoKey}]
  /\ outcome \in [Task -> Outcome]
  /\ queue \in Seq(Graph)
  /\ pc \in PC
  /\ cur \in Graph \union {NoKey}
  /\ c2a \in [Task -> Agent \union {NoKey}]
  /\ m2a \in SUBSET ToAgent
  /\ a2m \in SUBSET ToMaster
  /\ c2m \in SUBSET Graph
  /\ m2c \in [Graph -> SUBSET Solution]
  /\ aproc \in [Agent -> {"new", "up", "down"}]
  /\ cproc \in [Graph -> {"new", "up", "sent", "down"}]
  /\ held \in [Agent -> SUBSET Task]
  /\ doomed \in SUBSET Task

\* The tasks reserved on an agent by the search under way.
Reserved(a) == {t \in Task : c2a[t] = a}

\* No agent is over-committed and nothing leaks: what an agent has left plus what
\* its tasks and the running search have taken is its capacity, through every
\* allocation, failed allocation, report and removal (released and resource of
\* Master::Agent).
Accounting ==
  \A a \in known :
    IF pc \in {"allocate", "giveback"}
      THEN /\ Reserved(a) \intersect tasks[a] = {}
           /\ Plus(released[a], Load[tasks[a] \union Reserved(a)]) = Capacity[a]
           /\ resource[a] = Capacity[a]
      ELSE /\ Plus(released[a], Load[tasks[a]]) = Capacity[a]
           /\ Plus(resource[a], Load[Reserved(a)]) = Capacity[a]

\* The two tables that record where a task runs agree: a live graph's placement
\* points to an agent that is connected and lists the task, and a listed task of
\* a live graph is placed there (Graph::placement against Agent::tasks).
PlacementConsistent ==
  /\ \A t \in Task : placement[t] # NoKey =>
       placement[t] \in agents /\ t \in tasks[placement[t]]
  /\ \A a \in Agent : \A t \in tasks[a] :
       GraphOf[t] \in graphs => placement[t] = a

\* A graph is placed only when none of its tasks is: the assertion
\* graph.placement.empty() of _try_dequeue, and nothing of it still runs.
FreshPlacement ==
  pc = "allocate" => \A t \in TasksOf(cur) :
    /\ placement[t] = NoKey
    /\ \A a \in Agent : t \notin tasks[a]

\* A task whose graph is gone does not keep its resources for ever: as long as its
\* agent is up the kill is on its way, has arrived, or the report is already on
\* its way back (_remove_graph kills what it leaves behind).
OrphansKilled ==
  \A a \in agents : \A t \in tasks[a] :
    GraphOf[t] \notin graphs /\ aproc[a] = "up" =>
      \/ [type |-> "KillTask", agent |-> a, task |-> t] \in m2a
      \/ t \in doomed
      \/ \E m \in a2m : m.type = "TaskInfo" /\ m.agent = a /\ m.task = t

\* A client that is still there and reads a solution without errors has had every
\* task succeed, unless an agent was lost: _remove_agent answers with the
\* outcomes collected so far and records no error.
CleanSolutionComplete ==
  \A g \in Graph : \A s \in m2c[g] :
    cproc[g] # "down" /\ ~s.what /\ (\A t \in TasksOf(g) : s.tasks[t] # "error") =>
      \/ \A t \in TasksOf(g) : s.tasks[t] = "ok"
      \/ \E a \in Agent : aproc[a] = "down"

\* What _try_dequeue has left of each agent when nothing runs and it has placed the
\* containers S as the map P says.
IdleLeft(P, S) ==
  [a \in Agent |-> Minus(Capacity[a], Load[{t \in S : P[t] = a}])]

\* The greedy search of _try_dequeue can come to the map P when nothing runs: it took the
\* containers in some order, before[t] ahead of t, each to an agent that was best for it.
Greedy(P) ==
  LET placed == {t \in Task : P[t] # NoKey}
  IN  \E before \in [placed -> SUBSET placed] :
        \A t \in placed :
          /\ P[t] \in Best(IdleLeft(P, before[t]), Demand[t])
          /\ t \notin before[t]
          /\ \A u \in placed \ {t} : (u \in before[t]) <=> (t \notin before[u])
          /\ \A u \in before[t] : before[u] \subseteq before[t]

\* The search for graph g can fail when nothing runs: it has spent on some containers
\* what another one needs.
Cornered(g) ==
  \E P \in [Task -> known \union {NoKey}] :
    /\ \A t \in Task : P[t] # NoKey => GraphOf[t] = g
    /\ Greedy(P)
    /\ \E t \in TasksOf(g) :
         /\ P[t] = NoKey
         /\ Best(IdleLeft(P, {x \in Task : P[x] # NoKey}), Demand[t]) = {}

\* A graph waits only behind running work: with the owner idle and a live graph in
\* the queue some agent has a task to report.  So no release of resources goes by
\* without a search, no stale key ends one and nothing is lost to failed ones.  Two
\* cases are excepted.  An agent was lost (neither _remove_agent nor _remove_graph calls
\* _dequeue).  Or the graph at the head, even one that has left since, is one for which
\* the greedy search fails on idle agents if it takes them, or the containers, in an
\* unlucky order: _try_enqueue accepted it, _try_dequeue did not place it, and no event
\* is left that would make it try again.
WaitsBehindWork ==
  pc = "idle" /\ (\E i \in DOMAIN queue : queue[i] \in graphs) =>
    \/ \E a \in agents : tasks[a] # {}
    \/ \E a \in Agent : aproc[a] = "down"
    \/ Cornered(Head(queue))

\* Every submitted graph is answered, whatever the other clients do, unless its
\* client leaves, an agent is lost or the master is, or the head of the queue is a graph
\* for which the search of _try_dequeue can fail on idle agents.
Answered ==
  []<>(\A g \in Graph :
         cproc[g] = "sent" => \/ m2c[g] # {}
                              \/ pc = "crashed"
                              \/ \E a \in Agent : aproc[a] = "down"
                              \/ queue # <<>> /\ Cornered(Head(queue)))
=============================================================================
