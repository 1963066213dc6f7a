-------------------------- MODULE ExecutorsProofs ---------------------------
(***************************************************************************)
(* Proofs about Executors, for any graph and any placement of it: an       *)
(* executor ends only when its part of the graph is complete, stream       *)
(* callbacks find their vertices initialised, and an executor whose        *)
(* critical stream closed does not end as if it had not.                   *)
(***************************************************************************)
EXTENDS Executors, TLAPS

Typed ==
  /\ graph \in Graphs
  /\ opc \in [Executor -> {"loop", "done", "dead"}]
  /\ once \in [Vertex -> {"no", "busy", "done"}]
  /\ timer \in [Vertex -> {"in", "on", "spawn", "remove", "out"}]
  /\ prog \in [Vertex -> {"none", "alive", "exited", "reaped", "gone"}]
  /\ reader \in [Stream -> {"in", "out", "bridge", "child"}]
  /\ writer \in [Stream -> {"in", "flush", "out", "bridge", "child"}]
  /\ sense \in [Stream -> {"in", "out"}]
  /\ rcb \in [Stream -> {"idle", "vertex", "user"}]
  /\ wcb \in [Stream -> {"idle", "vertex", "user"}]

\* The promises a timeout event ends with come after its vertex, and a program has
\* been spawned when the event is to go.
TimerLast ==
  \A v \in Vertex :
    /\ timer[v] \in {"spawn", "remove", "out"} => once[v] = "done"
    /\ timer[v] \in {"remove", "out"} /\ v \in Program => prog[v] # "none"
    /\ timer[v] = "spawn" \/ prog[v] # "none" => v \in Program

\* An end at a program is a bridge until it is spawned and the child's while it runs.
Bridges ==
  \A s \in Stream :
    /\ reader[s] \in {"bridge", "child"} => Head[s] \in Program
    /\ reader[s] = "bridge" => prog[Head[s]] = "none"
    /\ reader[s] = "child" => prog[Head[s]] = "alive"
    /\ writer[s] \in {"bridge", "child"} => Tail[s] \in Program
    /\ writer[s] = "bridge" => prog[Tail[s]] = "none"
    /\ writer[s] = "child" => prog[Tail[s]] = "alive"

\* While an executor runs, the ends it holds of critical streams are open.
CriticalOpen ==
  \A s \in Critical :
    /\ Head[s] \notin Program =>
         opc[AtHead(s)] # "done" /\ (opc[AtHead(s)] = "loop" => reader[s] = "in")
    /\ Tail[s] \notin Program =>
         opc[AtTail(s)] # "done" /\ (opc[AtTail(s)] = "loop" => writer[s] = "in")

ExecutorsInv ==
  Typed /\ TimerLast /\ Bridges /\ CriticalOpen /\ VertexFirst /\ EndsComplete
-----------------------------------------------------------------------------
\* What a graph is made of, and that it stays the same while it runs.
LEMMA GraphTyped ==
  ASSUME graph \in Graphs
  PROVE  /\ Where \in [Vertex -> Executor]
         /\ Program \subseteq Vertex /\ Critical \subseteq Streams /\ Streams \subseteq Stream
  BY ExecutorsAssumption DEF Where, Program, Streams, Critical

LEMMA GraphFixed ==
  ASSUME UNCHANGED graph
  PROVE  UNCHANGED <<Where, Program, Critical>>
  BY DEF Where, Program, Critical

\* The end of the loop finds the graph complete.
LEMMA EndStep ==
  ASSUME ExecutorsInv, NEW x \in Executor, End(x)
  PROVE  ExecutorsInv'
<1> USE ExecutorsAssumption DEF ExecutorsInv
<1>a. UNCHANGED graph
  BY DEF End
<1>b. /\ Where \in [Vertex -> Executor] /\ Program \subseteq Vertex /\ Critical \subseteq Stream
      /\ UNCHANGED <<Where, Program, Critical>>
  BY <1>a, GraphTyped, GraphFixed DEF Typed
<1> USE <1>a, <1>b
<1>1. /\ \A v \in Vertex : Where[v] = x => timer[v] = "out" /\ prog[v] \in {"none", "gone"}
      /\ \A s \in Stream : AtHead(s) = x => reader[s] # "in"
      /\ \A s \in Stream : AtTail(s) = x => writer[s] \notin {"in", "flush"}
  BY DEF End, Over
<1>2. UNCHANGED <<vertexVars, streamVars>> /\ opc' = [opc EXCEPT ![x] = "done"] /\ opc[x] = "loop"
  BY DEF End
<1>3. Typed' /\ TimerLast' /\ Bridges' /\ VertexFirst'
  BY <1>2 DEF vertexVars, streamVars, Typed, TimerLast, Bridges, VertexFirst
<1>4. CriticalOpen'
  BY <1>1, <1>2 DEF vertexVars, streamVars, Typed, CriticalOpen, AtHead, AtTail
<1>5. \A v \in Vertex : Where[v] = x => once[v] = "done" /\ (v \in Program => prog[v] = "gone")
  BY <1>1 DEF TimerLast, Typed
<1>6. \A s \in Stream : AtHead(s) = x => reader[s] = "out"
  BY <1>1 DEF Bridges, TimerLast, Typed, AtHead
<1>7. \A s \in Stream : AtTail(s) = x => writer[s] = "out"
  BY <1>1 DEF Bridges, TimerLast, Typed, AtTail
<1>8. EndsComplete'
  BY <1>2, <1>5, <1>6, <1>7
  DEF vertexVars, streamVars, Typed, EndsComplete, AtHead, AtTail, ReadClosed, WriteClosed
<1> QED BY <1>3, <1>4, <1>8

\* std::exit closes the ends the executor holds.
LEMMA ExitStep ==
  ASSUME ExecutorsInv, NEW x \in Executor, opc[x] = "loop", Exit(x)
  PROVE  ExecutorsInv'
<1> USE ExecutorsAssumption DEF ExecutorsInv
<1>a. UNCHANGED graph
  BY DEF Exit
<1>b. /\ Where \in [Vertex -> Executor] /\ Program \subseteq Vertex /\ Critical \subseteq Stream
      /\ UNCHANGED <<Where, Program, Critical>>
  BY <1>a, GraphTyped, GraphFixed DEF Typed
<1> USE <1>a, <1>b
<1>1. Typed'
  BY DEF Exit, Typed
<1>2. TimerLast' /\ VertexFirst'
  BY DEF Exit, TimerLast, VertexFirst, Typed, AtHead, AtTail
<1>3. Bridges'
  BY DEF Exit, Bridges, Typed
<1>4. CriticalOpen'
  BY DEF Exit, CriticalOpen, Typed, AtHead, AtTail
<1>5. EndsComplete'
  BY DEF Exit, EndsComplete, Typed, AtHead, AtTail, ReadClosed, WriteClosed
<1> QED BY <1>1, <1>2, <1>3, <1>4, <1>5

\* A step of a vertex that leaves the streams alone.
LEMMA VertexOnly ==
  ASSUME ExecutorsInv, NEW v \in Vertex,
         \/ CallVertex(v) \/ VertexReturns(v) \/ TimerFires(v) \/ TimerEnds(v)
         \/ RemoveTimer(v) \/ ReapProgram(v) \/ RemoveProgram(v)
  PROVE  ExecutorsInv'
<1> USE ExecutorsAssumption DEF ExecutorsInv, streamVars
<1>a. UNCHANGED graph
  BY DEF CallVertex, VertexReturns, TimerFires, TimerEnds, RemoveTimer, ReapProgram, RemoveProgram
<1>b. /\ Where \in [Vertex -> Executor] /\ Program \subseteq Vertex /\ Critical \subseteq Stream
      /\ UNCHANGED <<Where, Program, Critical>>
  BY <1>a, GraphTyped, GraphFixed DEF Typed
<1> USE <1>a, <1>b
<1>1. /\ UNCHANGED streamVars /\ UNCHANGED opc /\ opc[Where[v]] = "loop"
  BY DEF CallVertex, VertexReturns, TimerFires, TimerEnds, RemoveTimer, ReapProgram, RemoveProgram
<1>2. Typed'
  <2>1. CASE CallVertex(v) BY <2>1 DEF CallVertex, Typed
  <2>2. CASE VertexReturns(v) BY <2>2 DEF VertexReturns, Typed
  <2>3. CASE TimerFires(v) BY <2>3 DEF TimerFires, Typed
  <2>4. CASE TimerEnds(v) BY <2>4 DEF TimerEnds, Typed
  <2>5. CASE RemoveTimer(v) BY <2>5 DEF RemoveTimer, Typed
  <2>6. CASE ReapProgram(v) BY <2>6 DEF ReapProgram, Typed
  <2>7. CASE RemoveProgram(v) BY <2>7 DEF RemoveProgram, Typed
  <2> QED BY <2>1, <2>2, <2>3, <2>4, <2>5, <2>6, <2>7
<1>3. TimerLast'
  <2>1. CASE CallVertex(v) BY <2>1 DEF CallVertex, Typed, TimerLast
  <2>2. CASE VertexReturns(v) BY <2>2 DEF VertexReturns, Typed, TimerLast
  <2>3. CASE TimerFires(v) BY <2>3 DEF TimerFires, Typed, TimerLast
  <2>4. CASE TimerEnds(v) BY <2>4 DEF TimerEnds, Typed, TimerLast
  <2>5. CASE RemoveTimer(v) BY <2>5 DEF RemoveTimer, Typed, TimerLast
  <2>6. CASE ReapProgram(v) BY <2>6 DEF ReapProgram, Typed, TimerLast
  <2>7. CASE RemoveProgram(v) BY <2>7 DEF RemoveProgram, Typed, TimerLast
  <2> QED BY <2>1, <2>2, <2>3, <2>4, <2>5, <2>6, <2>7
<1>4. \A w \in Vertex : \/ prog'[w] = prog[w]
                        \/ prog[w] \in {"exited", "reaped"} /\ prog'[w] \in {"reaped", "gone"}
  BY DEF CallVertex, VertexReturns, TimerFires, TimerEnds, RemoveTimer, ReapProgram,
    RemoveProgram, Typed
<1>5. Bridges'
  BY <1>1, <1>4 DEF Bridges
<1>6. \A w \in Vertex : once[w] = "done" => once'[w] = "done"
  BY DEF CallVertex, VertexReturns, TimerFires, TimerEnds, RemoveTimer, ReapProgram,
    RemoveProgram, Typed
<1>7. VertexFirst'
  BY <1>1, <1>6 DEF VertexFirst
<1>8. CriticalOpen'
  BY <1>1 DEF CriticalOpen, AtHead, AtTail
<1>9. EndsComplete'
  BY <1>1, <1>4, <1>6 DEF EndsComplete, AtHead, AtTail, ReadClosed, WriteClosed
<1> QED BY <1>2, <1>3, <1>5, <1>7, <1>8, <1>9

\* The bridges go to the child, and are closed when it exits.
LEMMA ProgramStep ==
  ASSUME ExecutorsInv, NEW v \in Vertex, Spawn(v) \/ ProgramExits(v)
  PROVE  ExecutorsInv'
<1> USE ExecutorsAssumption DEF ExecutorsInv
<1>a. UNCHANGED graph
  BY DEF Spawn, ProgramExits
<1>b. /\ Where \in [Vertex -> Executor] /\ Program \subseteq Vertex /\ Critical \subseteq Stream
      /\ UNCHANGED <<Where, Program, Critical>>
  BY <1>a, GraphTyped, GraphFixed DEF Typed
<1> USE <1>a, <1>b
<1>1. CASE Spawn(v)
  <2>1. Typed'
    BY <1>1 DEF Spawn, Typed
  <2>2. TimerLast' /\ VertexFirst'
    BY <1>1 DEF Spawn, Typed, TimerLast, VertexFirst
  <2>3. Bridges'
    BY <1>1 DEF Spawn, Typed, Bridges, TimerLast
  <2>4. CriticalOpen'
    BY <1>1 DEF Spawn, Typed, CriticalOpen, AtHead, AtTail
  <2>5. EndsComplete'
    BY <1>1 DEF Spawn, Typed, EndsComplete, AtHead, AtTail, ReadClosed, WriteClosed
  <2> QED BY <2>1, <2>2, <2>3, <2>4, <2>5
<1>2. CASE ProgramExits(v)
  <2>1. Typed'
    BY <1>2 DEF ProgramExits, Typed
  <2>2. TimerLast' /\ VertexFirst'
    BY <1>2 DEF ProgramExits, Typed, TimerLast, VertexFirst
  <2>3. Bridges'
    BY <1>2 DEF ProgramExits, Typed, Bridges
  <2>4. CriticalOpen'
    BY <1>2 DEF ProgramExits, Typed, TimerLast, CriticalOpen, AtHead, AtTail
  <2>5. EndsComplete'
    BY <1>2 DEF ProgramExits, Typed, EndsComplete, AtHead, AtTail, ReadClosed, WriteClosed
  <2> QED BY <2>1, <2>2, <2>3, <2>4, <2>5
<1> QED BY <1>1, <1>2

\* A step of a stream's callback or a request of the user only moves the callback and
\* makes promises.
LEMMA CallbackStep ==
  ASSUME ExecutorsInv, NEW s \in Stream,
         \/ UserCloses(s) \/ ReaderReady(s) \/ ReaderBroken(s) \/ WriterReady(s)
         \/ WriterBroken(s) \/ SenseBroken(s) \/ Callback(s)
  PROVE  ExecutorsInv'
<1> USE ExecutorsAssumption DEF ExecutorsInv, vertexVars
<1>a. UNCHANGED graph
  BY DEF UserCloses, ReaderReady, ReaderBroken, WriterReady, WriterBroken, SenseBroken,
    Callback, UserReads, UserWrites, UserReadEnds, UserWriteEnds
<1>b. /\ Where \in [Vertex -> Executor] /\ Program \subseteq Vertex /\ Critical \subseteq Stream
      /\ UNCHANGED <<Where, Program, Critical>>
  BY <1>a, GraphTyped, GraphFixed DEF Typed
<1> USE <1>a, <1>b
<1>1. UNCHANGED <<opc, once, timer, prog, reader, writer, sense>>
  BY DEF UserCloses, ReaderReady, ReaderBroken, WriterReady, WriterBroken, SenseBroken,
    Callback, UserReads, UserWrites, UserReadEnds, UserWriteEnds
<1>2. rcb' \in [Stream -> {"idle", "vertex", "user"}] /\ wcb' \in [Stream -> {"idle", "vertex", "user"}]
  BY DEF UserCloses, ReaderReady, ReaderBroken, WriterReady, WriterBroken, SenseBroken,
    Callback, UserReads, UserWrites, UserReadEnds, UserWriteEnds, Typed
<1>3. Typed' /\ TimerLast' /\ Bridges' /\ CriticalOpen' /\ EndsComplete'
  BY <1>1, <1>2 DEF Typed, TimerLast, Bridges, CriticalOpen, EndsComplete, AtHead, AtTail,
    ReadClosed, WriteClosed
<1>4. \A u \in Stream : rcb'[u] = "user" => rcb[u] = "user" \/ once[Head[u]] = "done"
  BY DEF UserCloses, ReaderReady, ReaderBroken, WriterReady, WriterBroken, SenseBroken,
    Callback, UserReads, UserWrites, UserReadEnds, UserWriteEnds, Ready, Typed
<1>5. \A u \in Stream : wcb'[u] = "user" => wcb[u] = "user" \/ once[Tail[u]] = "done"
  BY DEF UserCloses, ReaderReady, ReaderBroken, WriterReady, WriterBroken, SenseBroken,
    Callback, UserReads, UserWrites, UserReadEnds, UserWriteEnds, Ready, Typed
<1>6. VertexFirst'
  BY <1>1, <1>4, <1>5 DEF VertexFirst
<1> QED BY <1>3, <1>6

\* A promise closes ends of streams that are not critical, at the executor that made it.
LEMMA PromiseStep ==
  ASSUME ExecutorsInv, NEW s \in Stream, RemoveIstream(s) \/ RemoveOstream(s) \/ FlushDone(s)
  PROVE  ExecutorsInv'
<1> USE ExecutorsAssumption DEF ExecutorsInv, vertexVars
<1>a. UNCHANGED graph
  BY DEF RemoveIstream, RemoveOstream, FlushDone
<1>b. /\ Where \in [Vertex -> Executor] /\ Program \subseteq Vertex /\ Critical \subseteq Stream
      /\ UNCHANGED <<Where, Program, Critical>>
  BY <1>a, GraphTyped, GraphFixed DEF Typed
<1> USE <1>a, <1>b
<1>1. UNCHANGED <<opc, once, timer, prog, rcb, wcb>>
  BY DEF RemoveIstream, RemoveOstream, FlushDone
<1>2. /\ reader' = reader \/ (reader' = Close(reader, s) /\ s \notin Critical)
      /\ \/ writer' = writer
         \/ writer' = Close(writer, s) /\ (s \notin Critical \/ writer[s] = "flush")
         \/ writer' = [writer EXCEPT ![s] = IF @ = "in" THEN "flush" ELSE @] /\ s \notin Critical
  <2>1. CASE RemoveIstream(s) BY <2>1, Zenon DEF RemoveIstream
  <2>2. CASE RemoveOstream(s) BY <2>2 DEF RemoveOstream
  <2>3. CASE FlushDone(s) BY <2>3, Zenon DEF FlushDone
  <2> QED BY <2>1, <2>2, <2>3
<1>3. /\ reader' \in [Stream -> {"in", "out", "bridge", "child"}]
      /\ \A u \in Stream : \/ reader'[u] = reader[u]
                           \/ reader[u] = "in" /\ reader'[u] = "out" /\ u \notin Critical
  <2>1. CASE reader' = reader BY <2>1 DEF Typed
  <2>2. CASE reader' = Close(reader, s) /\ s \notin Critical BY <2>2 DEF Close, Typed
  <2> QED BY <1>2, <2>1, <2>2
<1>4. /\ writer' \in [Stream -> {"in", "flush", "out", "bridge", "child"}]
      /\ \A u \in Stream : \/ writer'[u] = writer[u]
                           \/ /\ writer[u] \in {"in", "flush"} /\ writer'[u] \in {"flush", "out"}
                              /\ writer[u] = "in" => u \notin Critical
  <2>1. CASE writer' = writer BY <2>1 DEF Typed
  <2>2. CASE writer' = Close(writer, s) /\ (s \notin Critical \/ writer[s] = "flush")
    BY <2>2 DEF Close, Typed
  <2>3. CASE /\ writer' = [writer EXCEPT ![s] = IF @ = "in" THEN "flush" ELSE @]
             /\ s \notin Critical
    BY <2>3 DEF Typed
  <2> QED BY <1>2, <2>1, <2>2, <2>3
<1>5. sense' \in [Stream -> {"in", "out"}]
  BY DEF RemoveIstream, RemoveOstream, FlushDone, Close, Typed
<1>6. Typed' /\ TimerLast' /\ VertexFirst'
  BY <1>1, <1>3, <1>4, <1>5 DEF Typed, TimerLast, VertexFirst
<1>7. Bridges'
  BY <1>1, <1>3, <1>4 DEF Bridges
<1>8. CriticalOpen'
  BY <1>1, <1>3, <1>4 DEF CriticalOpen, Typed, AtHead, AtTail
<1>9. EndsComplete'
  BY <1>1, <1>3, <1>4 DEF EndsComplete, AtHead, AtTail, ReadClosed, WriteClosed
<1> QED BY <1>6, <1>7, <1>8, <1>9
-----------------------------------------------------------------------------
\* In every behaviour the invariant holds: a timeout event outlives the vertex and the
\* spawning of the program it stands for, and a program's ends are closed with it.
THEOREM ExecutorsInductive == Spec => []ExecutorsInv
<1>1. Init => ExecutorsInv
  <2> SUFFICES ASSUME Init PROVE ExecutorsInv
    OBVIOUS
  <2> USE ExecutorsAssumption DEF Init
  <2>a. /\ Where \in [Vertex -> Executor]
        /\ Program \subseteq Vertex /\ Critical \subseteq Streams /\ Streams \subseteq Stream
    BY GraphTyped
  <2>1. Typed
    BY DEF Typed
  <2>2. TimerLast /\ Bridges /\ VertexFirst
    BY DEF TimerLast, Bridges, VertexFirst
  <2>3. CriticalOpen
    BY <2>a DEF CriticalOpen, AtHead, AtTail, Hosts
  <2>4. EndsComplete
    BY <2>a DEF EndsComplete, AtHead, AtTail, Hosts
  <2> QED BY <2>1, <2>2, <2>3, <2>4 DEF ExecutorsInv
<1>2. ExecutorsInv /\ [Next]_vars => ExecutorsInv'
  <2> SUFFICES ASSUME ExecutorsInv, [Next]_vars PROVE ExecutorsInv'
    OBVIOUS
  <2>a. Where \in [Vertex -> Executor]
    BY GraphTyped DEF ExecutorsInv, Typed
  <2>1. ASSUME NEW x \in Executor, End(x) \/ Crash(x) PROVE ExecutorsInv'
    BY <2>1, EndStep, ExitStep DEF Crash
  <2>2. ASSUME NEW v \in Vertex, VertexStep(v) \/ ProgramExits(v) PROVE ExecutorsInv'
    <3>1. CASE SpawnFails(v) \/ ProgramFailed(v)
      BY <2>a, <3>1, ExitStep DEF SpawnFails, ProgramFailed
    <3>2. CASE ~(SpawnFails(v) \/ ProgramFailed(v))
      BY <2>2, <3>2, VertexOnly, ProgramStep DEF VertexStep
    <3> QED BY <3>1, <3>2
  <2>3. ASSUME NEW s \in Stream, Promise(s) PROVE ExecutorsInv'
    <3>1. CASE CriticalExit(s)
      BY <2>a, <3>1, ExitStep, ExecutorsAssumption DEF CriticalExit, AtHead, AtTail
    <3>2. CASE ~CriticalExit(s)
      BY <2>3, <3>2, PromiseStep DEF Promise
    <3> QED BY <3>1, <3>2
  <2>4. ASSUME NEW s \in Stream,
               \/ UserCloses(s) \/ ReaderReady(s) \/ WriterReady(s) \/ WriterBroken(s)
               \/ ReaderBroken(s) \/ SenseBroken(s) \/ Callback(s)
        PROVE  ExecutorsInv'
    BY <2>4, CallbackStep
  <2>5. CASE UNCHANGED vars
    BY <2>5, GraphFixed DEF vars, ExecutorsInv, Typed, TimerLast, Bridges, CriticalOpen, VertexFirst,
      EndsComplete, AtHead, AtTail, ReadClosed, WriteClosed
  <2> QED BY <2>1, <2>2, <2>3, <2>4, <2>5 DEF Next
<1> QED BY <1>1, <1>2, PTL DEF Spec

\* The threshold of two events stops an executor only when its part of the graph is
\* complete, whatever else fails, closes or exits.
THEOREM EndsCompleteHolds == Spec => []EndsComplete
  BY ExecutorsInductive, PTL DEF ExecutorsInv

\* std::call_once puts the callback of a vertex before every use of it by a stream.
THEOREM VertexFirstHolds == Spec => []VertexFirst
  BY ExecutorsInductive, PTL DEF ExecutorsInv

\* An executor that holds an end of a critical stream does not end normally once the
\* end is closed.
THEOREM CriticalNotDoneHolds == Spec => []CriticalNotDone
<1>1. ExecutorsInv => CriticalNotDone
  BY GraphTyped DEF ExecutorsInv, Typed, CriticalOpen, CriticalNotDone
<1> QED BY <1>1, ExecutorsInductive, PTL
=============================================================================
