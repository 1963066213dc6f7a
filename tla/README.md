# TLA+ models of DtCraft

DtCraft runs stream graphs on a cluster. A *client* program describes a graph of
vertices and streams, split into containers, and submits it to the *master*. The
master places each container on an *agent* with enough CPUs, memory and disk. The
agents connect the streams that cross containers and run each container as an
*executor* process. All of these programs are built on one *reactor*: an event loop
with an owner thread, worker threads for callbacks, and a queue of promises through
which workers hand work to the owner.

This directory has TLA+ modules for the parts where order, failure and concurrency
matter, the TLC configurations that check them, and TLAPS proofs of the most important
safety properties. `PROJECT.json` maps each definition to the lines it models (paths
there start with the checkout directory `src/`; here they are relative to the
repository).

## Inventory

| Component | State | Operations | Talks to | Hard part |
|---|---|---|---|---|
| Master (`src/kernel/master.cpp`) | `_agents`, `_graphs`, `_queue` | insert/remove agent and graph, `_on_resource`, `_on_topology`, `_on_taskinfo`, `_enqueue`, `_dequeue`, web UI queries | agents and clients by messages | tables that must agree after any loss |
| Scheduler (`src/kernel/scheduler.cpp`) | the two resource vectors of each agent, a local map | `_try_enqueue`, `_try_dequeue` | part of Master | failed searches have to be undone |
| Agent (`src/kernel/agent.cpp`) | `_tasks`, `_frontiers`, containers | `insert_task`, `_insert_frontier`, `_deploy`, `_remove_task` | master, other agents, containers | rendezvous of tasks with connections; races to report |
| Topology, Resource (`src/protobuf`) | values | `extract`, stream predicates, vector order and arithmetic | used by all | partial order |
| Reactor (`src/event/reactor.cpp`) | `_eventset`, `_demux`, `_timeoutpq`, `_promises`, `_notified` | `insert`, `remove`, `freeze`, `thaw`, `clear`, `promise`, `notify`, `break_loop`, `dispatch` | callbacks in the thread pool | lost wakeups; callbacks that end after a removal |
| Select, TimeoutEventHeap (`src/event`) | masks and tables by descriptor; binary heap with positions | insert, remove, poll; insert, remove, pop | Reactor | index bookkeeping |
| Executor, Graph, Stream, Vertex (`src/kernel`) | vertices, programs, both ends of each stream | run a vertex once, spawn, close an end, `remove_istream`, `remove_ostream` | agent, other executors | when a run is over |
| OutputStream (`src/ipc/ipc.cpp`) | `_notified`, `_disabled`, a buffer | write, write callback, `remove_on_flush` | Reactor | flag against callback |
| Stream buffers, packages (`src/ipc/streambuf.cpp`, `archive/binary.hpp`) | data, base and put pointers, local or on the heap | write, `sync`, package and unpackage | devices | moving, growing, cut packages |
| Thread pool (`include/dtc/concurrent/threadpool.hpp`) | task queue, workers | `async`, `spawn`, `shutdown` | Reactor | owner and workers wait for each other |
| FIFO (`include/dtc/concurrent/fifo.hpp`) | a ring with two atomic indices | push, pop | | memory not protected by a lock |
| Channels, listeners (`include/dtc/kernel/manager.hpp`) | an event pair per socket | `insert_channel`, `insert_listener` | all kernels | broken connections |

What makes each of them correct:

- **Master and scheduler.** An agent's capacity is its free part plus what its tasks
  hold. Where a task runs is recorded twice and the records agree. A graph is placed
  once. Tasks of a removed graph are killed. Every client gets an answer, and an answer
  without errors is complete.
- **Agent.** A task runs only with all its streams connected. No connection is lost and
  no two agents wait for each other for ever. Each task is reported once.
- **Reactor.** A promise reaches the owner. Polled events are alive. A callback does
  not overlap itself. No event is forgotten. Timers are taken in their order. Every
  ready descriptor has its event activated.
- **OutputStream and buffers.** What is written is sent, and sent before the stream
  leaves. Packages arrive whole and in order wherever the device cuts them.
- **Thread pool.** No task lies in the queue with every worker asleep; `shutdown` runs what
  was queued before it and returns.
- **Executor.** It ends when, and only when, its vertices have run, its programs are gone
  and its streams closed. Closing one end of a stream closes the other.
- **FIFO.** A bounded queue, with no slot written and read at a time.

The hazards that these properties are aimed at are listed with their lines in
`PROJECT.json`.

## Modules

```
Resource <- Master <- MasterProofs          Topology <- Agents
               ^           ^                               ^
               +---------- | ----- Cluster ----------------+
                           |          ^
                           +--- ClusterProofs

Reactor      <- ReactorProofs               ReactorWakeup, ConcurrentFIFO <- LockFreeProofs
OutputStream <- OutputStreamProofs          Threadpool, TimeoutHeap <- PoolTimerProofs
Executors    <- ExecutorsProofs             Doubling <- Select, StreamBuffer <- DoublingProofs

TimeoutHeap => TimerQueue                   ConcurrentFIFO => BoundedQueue
```

`<-` is use, `=>` is implementation of an abstract specification (`Cluster => Master` is
another). Agents is not a specification of its own: its actions run in Cluster, under the
real master. A module of proofs may be about two components that have something in
common; one of the two then has its name in `Init`, `Next`, `Spec` and `vars`
(`SelectSpec`, `TimerSpec`, `RingSpec`).

Each component has an `MC...` module with the constants of its small instances.
Definitions commented "Mutated form of X" are X with a plausible bug in it. No
specification uses them: they are substituted for X to see that a property notices.

### Resource, Topology

`Resource` is `pb::Resource` without the host name: vectors of three counters, whose
`<` and `>=` are componentwise and therefore partial. `Minus` is guarded by `Geq` at
each of its uses, as `operator -=` throws otherwise. The proof of `TypeOK` shows that
no counter becomes negative. Counters are unbounded: the source has 64 bits, and
`Accounting` keeps sums below the capacity an agent reports.

`Topology` has `extract` and the predicates that tell inter-streams and their ends, over
a fixed assignment of vertices to containers. A container of a given graph is a task.

### Master

All of the master's tables are touched by the owner thread only, so a handler is one
action; but the loops of `_try_enqueue`, `_try_dequeue` and `_dequeue` take one step per
iteration, with the owner's place in `pc`. That makes half-done searches visible to the
invariants.

| Code | Model |
|---|---|
| `_agents`, `Agent::resource/released/tasks` | `agents`, `known`, `resource`, `released`, `tasks` |
| `_graphs`, `Graph::topology/solution/placement`, `_queue` | `graphs`, `topology`, `outcome`, `placement`, `queue` |
| `_insert_agent`, `_remove_agent`, `_on_resource`, `_on_taskinfo` | `InsertAgent`, `RemoveAgent`, `OnResource`, `OnTaskInfo` |
| `_insert_graph`, `_remove_graph`, `_on_topology` | `InsertGraph`, `RemoveGraph`, `RemoveGraphs`, `OnTopology` |
| `_enqueue`/`_try_enqueue` | `TryEnqueue`, `TryEnqueueDone`, `RestoreResource`, `Enqueue`, `Refuse` |
| `_dequeue`/`_try_dequeue` | `DequeueEmpty`, `DequeueStale`, `DequeueFront`, `TryDequeue`, `RestoreReleased`, `GiveUp`, `Dispatch` |

The search walks hash tables, whose order is unspecified. `Best` is therefore the set of
all agents it may settle on, and the containers are taken in any order. `Dispatch` is
one step although the messages are written by workers: the owner waits for all of them
(`fu.get()`) and touches nothing in between.

Agents and clients are external to this module. An agent is a promise: it sends its
resource, reports each task it received once, and may die at any time with what it
holds. Messages to a dead process are lost. Those that a worker of the master has
already read are handled even after the agent's removal, so `RemoveAgent` loses any
subset of them. `a2m` and `m2a` are sets: order matters only between a task's Topology
and its KillTask, and `AgentReceive` keeps that order.

Two places where the code does something odd are modelled as they are. `_remove_graph`
dereferences an empty `solution` if the client leaves before its topology arrives; this
is undefined, so `RemoveGraph` may end in `crashed`. And a lost agent makes
`_remove_agent` answer its graphs with the outcomes collected so far, without an error:
`CleanSolutionComplete` therefore excepts runs in which an agent was lost.

A topology with no container, which `_dequeue` would place and never answer, is outside
the model's properties: graphs in the instances have at least one task.

### Agents

Per agent, the worker that reads the master's channel (it constructs tasks: `ReadTopology`,
`Connect`, `SendPacket`, `HandOver`, `ConstructFail`, `ReadKill`) and the owner
(`InsertTask`, `InsertFrontier`, `KillTask`, `RemoveTask`, `Reap`) are interleaved. The
owner runs one promise at a time and none while it waits for a container
(`waiting`). `stage` says where a task is: in construction, in the promise queue, in
`_tasks` as hatchery or executor, being removed, or gone. A container may crash, or close
its channel and exit later. `BrokenFrontier` is a peer that dies between its connection
and its packet: `Device::purge` throws where nothing catches it, and the agent dies.

The comment of `_init_frontier_listener` says that the write end of a stream connects and
the read end waits. The constructor of `Task` does it the other way round, and says so;
the model follows the code.

Of a killed task's Topology, the promise that inserts it precedes the promise that kills
it, as both come from the same worker in this order: hence the guard of `KillTask` on
`constructed`. The ghost variable `reports` counts TaskInfos.

### Cluster

Master and Agents joined: they share `m2a`, `a2m` and `aproc`, and each step is a step of
one of them. `MasterSpec` is the refinement: with `held` mapped to the tasks an agent has
received and not reported, and `doomed` to those with a kill, every step of the cluster is
a step of Master or stutters. So the real agents keep the promise Master relies on, and
its safety properties hold of the cluster.

### ReactorWakeup

`promise` and `notify` on the side of threads, `dispatch` on the side of the owner, at
the grain of single accesses: enqueue, test of `_notified`, its setting, the write; drain,
clear. `_notified` is `std::atomic` with sequentially consistent order, so for it interleaving
is the right semantics. The vendored queue publishes an item with a release store; the model
takes it as a bag whose operations are atomic, and does not show that its weaker order is
enough. The loop ends when a
promise of `break_loop` was carried out. The notifier is assumed to be polled: that
`clear()` breaks this is shown in `Reactor`.

### Reactor

The life of each event: in `eventset` (owned), in `polled` (bare pointers of the
demultiplexer and the timer heap), in `active` callbacks, or in promises on their way to
the owner (`asked` by threads, `reinsert` by callbacks that end). Requests come from the
owner, outside `dispatch()` or in a promise it carries on, and from any thread at any
time. Callbacks run on workers: the constructor's comment asks for at least one. Promises form a bag, which
allows more orders than the queue does. Timer values and descriptors are left out: which
event is ready or due is open. `Threshold` is `_threshold`. `MaxCalls` bounds the
removals, freezes and thaws that are asked for.

### TimeoutHeap, TimerQueue

`array`, `satellite` and `timeout` are `_array` and the fields of `Timer`. The bubbling is
the path an element takes (`UpPath`, `DownPath`, recursive functions) and one update of the
array and the satellites along it (`Moved`, `Placed`). The actions around the heap are
those of the reactor that reach it: insertion, removal, freeze and thaw, the loop of
`_poll_timeout_events`, one timer a step, and the callback of a periodic event that writes
the next timeout and then promises to insert the event again. `TimerQueue` is what the
reactor needs: a set from which timers that are due leave in the order of their timeouts.
With the constant `ThawInCallback` an event may also be thawed during its callback; see
Disagreements.

### Doubling

The loop that doubles a capacity until it is enough, which `Select::_recap` and
`OutputStreamBuffer::_write` both have. `Pow2` is a recursive function.

### Select

The masks are sets of events (`mask` for `_R[0]` and `_W[0]`, `found` for `_R[1]` and `_W[1]`), their allocated length is `cap`, and `pos` is the place of
the loop of `_poll`, which goes down the descriptors, read before write. The handler it
calls takes the event out (`Reactor::_activate_event`), except the notifier: that lowers
`_max_fd` and clears `_fd2ev` under the running loop. `MaskBytes` and `ByteBits` scale
`fd_mask` down.

### OutputStream

One stream in use by any number of writers, with what the reactor has of it: promises to
thaw and to remove it, whether it is polled, and the callbacks in the pool, counted by how
far they have come (`disabled?`, `assert`, user code, `_notify`, `_remove_on_flush`). Bytes
are counted too. A section under the stream's mutex is one step; the unlocked reads of
`_disabled` and `_notified` are steps of their own.

### StreamBuffer

Bytes are numbered items of packages, so that a byte lost, doubled or overwritten is
visible. A buffer has its memory, its base and its put pointer; `Spacious` is the choice
between enough room, a move to the start and a doubling. `Regrown` writes the size of the
new chunk into the union it shares with the local data, in the order of the code.
`Local`, `Overlap` and `Header` stand for 31, 7 and 8 bytes. The device is a pipe of
`PipeSize` bytes that takes and gives any part of what it is offered. The read callback
reads once and then unpackages until it finds no whole package. An output buffer may be
made into an input buffer, by move or copy. Left out: `copy`, `drop` and `purge` by hand.

### Threadpool

Workers in one state are alike and counted; so are the signals still to be given by
threads that have released the lock. The queue holds the kinds of tasks: plain ones,
callbacks that ask the owner and wait, tasks whose futures the owner waits for, orders to
stop, and `late` tasks, queued after the shutdown began. A worker may wake up spuriously.
The owner runs the loop of the reactor, `_try_dequeue`'s wait, and `~Reactor`. A pool
without workers, in which `async` calls the task itself, is left out.

### Executors

The executors of a graph after they have made their part of it. Which vertex is in which
container, which are programs, and which streams there are and are critical is chosen in
`Init` from a set of graphs (`Graphs`) and then fixed (`graph`). For each vertex the
`once_flag` of its callback, its timeout event and, for a program, its process; for each
stream both ends, with the events in the reactor, callbacks in progress and promises to
remove them. `dispatch()` ends when only the channel to the agent is left (`Over`). Data
are left out: a reader may find some again and again. An `Exit` is that of a critical
stream or a failed program; a `Crash` may happen at any time and closes all ends. Requests
that would find nothing to close are left out.

### ConcurrentFIFO, BoundedQueue

Each access to shared memory is a step. The indices are stored with release and loaded
with acquire, so an access in program order is sound as long as `NoRace` holds, which is
therefore a property and a proof. `BoundedQueue` is the abstract queue of `C - 1` items; a
push takes effect at its store of `_tail`, a pop at its store of `_head`.

## Runs

| Run | Instance | Shows |
|---|---|---|
| `master` | 1 agent, 3 graphs, 4 tasks | `Accounting`, `OrphansKilled`, `CleanSolutionComplete`, `WaitsBehindWork`, `Answered` |
| `cluster` | 2 agents, a graph of 2 tasks, a stream each way and one inside | `FrontierFindsHatchery`, `DeployedConnected`, `ReportedOnce`, `MasterSpec`, `Rendezvous`, `AllReleased` |
| `reactor_wakeup` | 3 threads, 3 promises, one that breaks the loop, two awaited | `NoLostWakeup`, `PromiseKept` |
| `reactor_events` | a read, a write and a timeout event, 2 requests | `PolledAlive`, `OneCallback`, `NeverForgotten`, `TimeoutLeaves` |
| `outputstream` | 6 bytes | `UserExclusive`, `NoStall`, `FlushedBeforeRemoval`, `Drained`, `Leaves` |
| `outputstream_assert` | 3 bytes | violation of `AssertHolds`, see Findings |
| `timeout_heap` | 6 timers, 2 instants, a freeze or thaw | `SatellitesInvert`, `HeapOrdered`, `QueueSpec` |
| `select` | descriptors 0 to 3, words of 2 bits | `InBounds`, `ReadyActivated` |
| `threadpool` | 3 workers, 2 futures, 4 tasks, 3 of which may ask the owner | `WorkConserving`, `ShutdownDrains`, `WaitReturns`, `ShutdownReturns` |
| `executors` | 7 graphs of 2 vertices, in 1 or 2 executors, with 1 or 2 streams, a program, a critical stream | `EndsComplete`, `CriticalNotDone`, `OtherEndCloses`, `Ends` |
| `stream_buffer` | 4 packages of up to 3 bytes, 4 local bytes, a pipe of 3 | `ReceivedInOrder`, `BrokenIsLast`, `Delivered` |
| `fifo` | 4 slots, 3 items | `NoRace`, `QueueSpec` |

Three more configurations stand beside these runs:

- `MCMasterTwo.cfg` checks `WaitsBehindWork` and `Answered` of `Master`, without an error, on
  two agents that offer (2,1,1) and (1,2,1), neither of which is smaller, and two graphs that
  need both agents. One graph fits however the search goes; the other is accepted or
  refused, and then placed or not, depending on the order of the search.
- `MCExecutorsProgram.cfg` and `MCReactorThaw.cfg` have TLC find the second and third of the
  Disagreements, as violations of `ProgramForcesClose` and `UnpolledInCallback`.

The bounds are chosen so that the interesting cases occur.

- `master`: one graph runs, one blocks the head of the queue and one waits behind it, and
  any of them can leave, so that its key goes stale in the queue. The search for `g1` can
  fail after its first container and has to be undone. A kill can cross a report. Each
  process connects once: a key is never handed out again, so a reconnection is another
  agent. With one agent no graph is ever cornered: the exception of `WaitsBehindWork` and
  `Answered` comes into play in `MCMasterTwo.cfg` only, whose two graphs in turn are too few
  for a live graph behind a stale key.
- `cluster`: the streams form a cycle, so that an early frontier, a late frontier and a
  deadlock would all be possible, and the tasks fit on one agent or on two.
- `reactor_wakeup`: three threads let one find the flag set by a second while a third is
  between its test and its write.
- `reactor_events`: one event of each way a callback ends; periodic events are in
  `timeout_heap` and in the proofs.
- `timeout_heap`: six timers are the least with which `remove` moves the last element up.
- `select`: the arrays grow, and the highest descriptor is the first or last of a word.
- `threadpool`: one worker more than futures, so that the owner can wait with none, some or
  all workers blocked.
- `executors`: each graph has what closes streams by code of its own and hides what the others
  do. Without a program and a critical stream, an end is closed by user code, by the loss of
  the other end or by a crash, and an executor is done only in the normal way, its ends
  closed by promises in any order and its writers flushed: in one executor with a stream
  each way, where one promise closes both ends and promises for both may be on the way, and
  in two executors with a stream between them. The same stream as a critical one. Then a
  vertex and a program in two executors, with no critical stream or either one critical: the
  spawning against the end of the loop, and what the program's exit, its failure to start or
  the death of its executor does to the vertex's two ends. Last, a program beside its vertex.
- `stream_buffer`: a package fills the local data exactly, overflows them, makes the heap
  buffer grow or move, and a header is cut in two.
- `fifo`: the ring is full with three items, empty, and wraps around.

Deadlock is checked in `select` and `fifo`. The other systems may come to rest, with every
client answered, every task gone, or no request or byte left within the bounds.

### Fairness

Some liveness properties have the form `[]<>P` where "whatever asks for it is answered" is
the condition `P` over all agents, graphs or streams: what asks and what answers are both
for ever there, so that recurring is the same as lasting, and TLC checks one formula
instead of one for each of them.

- Master: the owner carries on promises and finishes its loops (weak fairness of its
  handlers together), agents read, and tasks end and are reported. Connecting, leaving
  and dying are never obliged. `Answered` needs tasks that end, and excepts the loss of an
  agent, since `_remove_agent` does not reinvoke `_dequeue`, and a queue whose head is a
  graph that the search may fail to place on idle agents (`Cornered`, see Disagreements).
- Cluster: the master's owner goes on, and so do both threads of the agents; a container
  that has closed its channel exits. A container may run for ever, and nobody has to leave.
- ReactorWakeup: threads inside `promise()` and the owner run on. Only a readable eventfd
  obliges `select` to return (`PollOther` is not fair), so no property is due to a lucky
  timeout.
- Reactor: the owner's loop runs on, but its `select` returns only if there is a reason
  (`Wakes`: a notification, a timer, or no descriptor at all). Callbacks end. A timer that
  is again and again in the heap falls due (strong fairness: the owner leaves the timer
  part of its loop in between). I/O need never be ready.
- OutputStream: promises are carried out, a polled stream becomes writable, callbacks end.
  A device that is asked again and again takes something (strong fairness): a peer that
  never reads again leaves a stream full, and nothing can be promised of it.
- Threadpool: workers and owner run on. Promises are carried out in their order, so one
  that waits whenever the owner is in its loop is not passed over for ever (strong
  fairness of `CarryOn`). Spurious wakeups and the return of callbacks that wait are not
  obliged.
- Executors: each promise is carried out, since the owner drains its queue; each vertex and
  each user callback returns; and each stream that has lost its other end is seen, since
  `select` reports every ready descriptor and starves none. Fairness is therefore stated
  stream by stream. (What can happen finitely often only, the steps of vertices and the ends
  of executors, is one condition.) A reader may find data first: a dead writer has left a
  finite amount (strong fairness of `ReaderBroken`). Nobody has to write or to close, and
  programs need not exit.
- StreamBuffer: both sides are called as long as there is something to send or to read.

## Findings

- `AssertHolds` (`outputstream_assert`): `assert(_notified == true)` in the write callback
  (`include/dtc/ipc/ipc.hpp:102`) can fail. A callback reads `_disabled` as false; then
  `remove_on_flush` disables and thaws the stream, a second callback flushes it and
  resets the flag, and the first comes to its assertion. `AssertInUse`, proved, says that
  it holds as long as the stream has not been disabled.

### Disagreements

Other places where code and text differ, met while modelling. The models follow the code,
and the properties except the case by name.

- The scheduler's comment says that it finds the largest bin (`src/kernel/scheduler.cpp:29`
  and `:73`); it takes a smallest one that fits (`:76`, `Best`).
- "When the external program finishes, it closes all adjacent streams which in turn forces all
  other ends to close" (`docs/cookbook/stream_graph.html:378`; line 110 says of every stream
  that closing one end forces the other to close). If the program reads a stream inside its
  executor, the writing end stays until somebody writes or closes it: only tails of inter
  streams watch their device (`src/kernel/executor.cpp:427`). The executor then does not end.
  `ProgramForcesClose` states what the cookbook says, and `MCExecutorsProgram.cfg` has TLC
  find this; `OtherEndCloses` excepts such streams.
- "When an event is in the context of its callback, the reactor will not poll it in the
  subsequent loops" (`docs/cookbook/event_driven_programming.html:183`; line 116 calls all
  methods thread-safe). A thaw that is carried out during the callback polls it
  (`src/event/reactor.cpp:103`), and the callback may then run twice at a time.
  `UnpolledInCallback` states what the cookbook says, and `MCReactorThaw.cfg` has TLC find
  this; `OneCallback` is about events that are not thawed. If the event is periodic, it is in
  the heap when the callback writes its next timeout: with `ThawInCallback = TRUE` its key
  changes in place and `QueueSpec` fails.
- A freeze carried out during the event's callback is undone by the promise with which the
  callback ends, which looks at `_eventset` only (`src/event/reactor.cpp:302`).
- `_try_enqueue` tells a client whether its graph can run on the cluster, and the queue is
  served in order; but a graph that it accepted may never be placed. Take two agents with
  resources (2,1,1) and (1,2,1), which `<` does not compare, and a graph with containers of
  (1,1,1) and (2,1,1). `_try_enqueue` puts the first container on the second agent and
  accepts the graph. `_try_dequeue` walks the hash table of agents again; if by then it is
  in another order (a third agent that connects may rehash it), the search settles on the
  first agent for the first container and has none for the second. The graph stays at the
  head of the queue, nothing runs whose end would start another search, and all graphs
  behind it wait too: only another submission or the resource of another agent wakes the
  scheduler. The configuration `MCMasterTwo.cfg` has this very cluster. `Cornered(g)` says
  that some order of the search leads there, and `WaitsBehindWork` and `Answered` except a
  head of the queue that is cornered, by name; without the exception TLC finds the scenario
  there.
- `clear()` also removes the notifier from the demultiplexer (`reactor.cpp:52`). If the
  reactor is used again and sleeps on some descriptor, promises do not wake it.
  `TimeoutLeaves` excepts `~notifier`.
- `_try_dequeue` blocks the owner in `fu.get()` ("Synchronize all tasks",
  `scheduler.cpp:133`). If every worker waits for the owner meanwhile, as callbacks of the
  web UI do (`src/kernel/master.cpp:489`), nobody goes on: the exception in `WaitReturns`.
- `~Reactor` joins the workers (`reactor.cpp:45`). One that waits for a promise when the
  loop has ended is never answered: the exception in `ShutdownReturns`.

## Proofs

All proofs are checked by TLAPS from the named assumptions only. They hold for any sets
of agents, graphs, tasks, threads, promises, events, vertices and streams, any number of
workers, and any capacity and size. The theorems about the timer heap have a hypothesis that
the code does not guarantee, `~ThawInCallback`; it is discussed below, with what goes wrong
without it.

**MasterProofs** assumes `ConstantsAssumption` (types of the constants, `NoKey` is no key)
and `LoadAssumption` (`Load` is additive: it stands for `Topology::resource()`, whose
definition as a sum would need induction over sets). The inductive invariant `MasterInv`
conjoins `TypeOK` with

- `CurOK`, `OwnerPhase`: what `pc`, `cur`, `c2a` and the head of the queue say of each
  other; reservations are those of the graph in hand, on known agents;
- `Lifecycle`: tasks are charged to known agents only, an agent reports its resource once
  (a second one would reset `released`), and placed tasks belong to live graphs;
- `QueueInv`, `Unstarted`: no graph is queued twice or before its submission, and one
  the scheduler is not through with has no task placed or charged. `FreshPlacement`
  follows, and `Accounting` needs it to keep reserved and running tasks apart;
- `Traces`: as long as an agent has been told of a task and the master has not handled the
  report, the task is charged to no other agent. So a report credits what was debited,
  and `OrphansKilled` can follow a kill to the end;
- `PlacementConsistent`, `OrphansKilled`, `Accounting` themselves.

`TypeCorrect`, `AccountingHolds`, `PlacementHolds`, `FreshPlacementHolds` and
`OrphansKilledHolds` follow. Two more invariants stand on `MasterInv`:

- `SolutionInv`, for `CleanSolutionHolds`. A task leaves one trace, which moves from its
  Topology to the agent and back in the report (`OneTrace`); while its graph lives the
  trace is where the task is placed (`TracesPlaced`), and a task that is placed no more
  succeeded (`StartedPlaced`).
- `WaitingInv`, for `WaitsBehindWorkHolds`. As long as nothing is charged to an agent, what a
  search in progress has assigned is what the greedy search can come to on idle agents
  (`GreedyInv`): so if it fails, its graph is cornered. Whatever ends with a graph in the
  queue ends with a search that failed beside running work or for a cornered head
  (`WaitsInv`); stale keys are passed over and a failed search gives back all it took.

`WaitsBehindWorkHolds` has no hypothesis on the cluster: the agents may have any resources
and a graph may need any number of them. Its exceptions are those of the property, an agent
that was lost and a cornered head.

**ClusterProofs** proves that the whole cluster implements Master
(`ClusterImplementsMaster == Spec => MasterSpec`), `FrontierFindsHatchery`,
`DeployedConnected` and `ReportedOnce`, for any streams between any tasks. It uses the
proofs about Master through an INSTANCE with the agents' tables in the place of `held` and
`doomed`; `MasterAssumption` in Cluster states Master's assumptions for it. The inductive
invariant `ClusterInv` joins `MasterInv` with `Hosting` (a task has a host from the
dispatch of its graph on), `Mail` (a Topology is on its way to the host of a task that has
not come yet), `Wiring` (a stream is connected, kept by the agent of its writing end, and
held by the task there one after the other, and the reading end holds it before the
writing end can) and `Complete` (a task that runs has all its streams). `MasterInv` is
needed among them: that a graph is dispatched once, and that until then none of its tasks
is on an agent, are facts about the master. `MasterHolds` concludes that what is proved of
the master, `WaitsBehindWork` included, holds in the cluster.

**ReactorProofs** proves `TypeOK`, `PolledAlive`, `OneCallback` and `NeverForgotten`. The
strengthening is `InsertedOnce`: an event whose insertion is still a promise has not been
polled, called back or thawed.

**LockFreeProofs** is about what threads share without a lock.

- ReactorWakeup: `TypeOK`, `NoLostWakeup` and `FlagHasWriter`. Neither of the last two is
  inductive alone. A thread that finds the flag set skips its own write, and
  `FlagHasWriter` says that the write it relies on is still in the eventfd or still to
  come, unless the owner is between the drain and the end of the loop that carries on
  promises; and that loop ends only with an empty queue.
- ConcurrentFIFO: `NoRace` and the refinement `RingIsQueue == RingSpec => QueueSpec`: every
  step of the ring, seen through its slots from head to tail, is a push, a pop or nothing
  of the abstract queue.

**PoolTimerProofs** is about what a reactor is made of.

- Threadpool: `TypeOK` and `WorkConserving` are inductive together: for every task in the
  queue beyond the workers about to look, there is a signal to come, or nobody sleeps.
  `PoolDrains` proves `ShutdownDrains` with `DrainInv`: what was enqueued before the
  shutdown stands in front of the stop tasks (`RearLast`), no worker has stopped while
  some of it is there (`FirstServed`), and the stop tasks, with the workers that took one,
  are never more than the workers (`StopsCounted`), so that none is left when all are dead.
- TimeoutHeap: `SatellitesInvertHolds`, `HeapOrderedHolds` and the refinement
  `HeapIsQueue == TimerSpec => QueueSpec`. First the recursive functions `UpPath` and
  `DownPath` are shown to exist and to lead up or down the tree; then that moving the
  elements along such a path keeps the satellites inverse to the array, and repairs an
  array that is in order except at the place where the path begins; so each operation of
  the heap takes a heap to a heap. The invariant `TimerInv` adds that an event is in the
  heap, in a callback or in a promise and only in one of them, so that no key changes
  inside the heap. That is where the hypothesis `~ThawInCallback` comes in: a periodic
  event that is thawed during its callback has its timeout written while it is in the
  heap, which is then out of order, and a removal of the last element can even start its
  way up from outside the array. Nothing in the code or the cookbook excludes such a thaw; the
  cookbook says that an event in its callback is not polled, which the code does not keep.

**DoublingProofs** is about the two places that double a capacity. `Pow2` is shown to be
the function of its definition and to exceed every number, so `Doubled` is enough.

- Select: `ReadyActivatedHolds` and `InBoundsHolds`. By `PollInv` the events the loop of
  `_poll` has passed have been activated exactly if they were ready, and those ahead are
  ready exactly if their bit and slot are still there, whatever the handler took out. By
  `CapInv` the arrays hold the descriptors up to `_max_fd` and the one the loop is at,
  though `_max_fd` goes down meanwhile.
- StreamBuffer: `ReceivedInOrderHolds` and `BrokenIsLastHolds`. A buffer is reduced to the
  sequence of its live bytes, and each operation on its memory (write, move, growth, fill in
  of the length, sync) to one on that sequence: `Holds(b, l)`. By `StreamInv` the live bytes
  of the reader, the bytes in the device and the live bytes of the writer are, in this
  order, those of the packages not received yet, without a gap (`Flows`), to the last one
  sent as long as the writer is there; and outside the callback's loop no whole package is
  left at the reader. The header at the front then has to be that of the next package.

**OutputStreamProofs** proves all invariants of OutputStream. The heart of its invariant is
`Counted`: thaws, polls and callbacks together are at most one for a set flag and one for
`remove_on_flush`. `Flagged` says that the flag is up while there are bytes and stands for
a run to come, and `Reason` that a stream is removed only if it broke or has sent what it
had to. `NoStall`, `FlushedBeforeRemoval` and the bound on callbacks follow.

**ExecutorsProofs** proves `EndsComplete`, `VertexFirst` and `CriticalNotDone`, for any graph. The
invariant `ExecutorsInv` adds `TimerLast` (the timeout event of a vertex leaves only after
its callback has run and its program has been spawned), `Bridges` (an end at a
program is a bridge until the program is spawned and the child's while it runs) and
`CriticalOpen` (while an executor runs, the ends it holds of critical streams are open).

Induction over numbers, where it is needed (powers of two, paths in a heap, the writes of
an archive), is the search for a least counterexample: the library's `WFMin` takes a set
and no predicate, and so can be used where the induction theorems cannot.

Every safety property that a passing run checks, and every refinement, has a theorem. Not
proved, only model-checked, are the liveness properties (`Answered`, `Rendezvous`,
`AllReleased`, `PromiseKept`, `TimeoutLeaves`, `Drained`, `Leaves`, `WaitReturns`,
`ShutdownReturns`, `OtherEndCloses`, `Ends`, `Delivered`), since fairness is out of the
prover's reach. Proved and in no run: the type invariants, `PlacementConsistent`,
`FreshPlacement`, `FlagHasWriter`, `RunsBounded`, `AssertInUse`, `VertexFirst`.

## Not modelled

- Most lines of the repository are vendored: Eigen, nlohmann json (twice), Catch,
  http_parser and moodycamel's `ConcurrentQueue`, which the models use as a bag. They are
  no part of DtCraft's own logic.
- The web UI reads the master's tables and changes nothing. Its one effect, a worker that
  waits for the owner, is in Threadpool.
- Machine learning, cells and feeders: numerical and application code, sequential.
- The archivers of single types: compile-time templates without state. Their framing is in
  StreamBuffer.
- Epoll is not compiled in; shared memory is commented out; control groups, statistics,
  policy, CSV and tables are system calls and formatting.
- The builders of a graph and the set-up of the executor's modes: they run before anything
  concurrent does.
- `ConcurrentDeque` and the guards: a mutex around one object.

## Plan

1. The hazards without a property: frontiers that stay for ever in `_frontiers`
   (`agent.cpp:236`), and the race for a vertex's callback (`vertex.cpp:48`).
2. The safety part of liveness arguments as theorems: a queued promise, a ready stream and a
   dispatched task always have an action that serves them.
3. For which clusters no graph is ever `Cornered`: agents whose resources can all be compared
   are a candidate. The model has to be told first that both searches walk the containers of
   a graph in the same, though unspecified, order.
