------------------------------ MODULE Executors -----------------------------
(***************************************************************************)
(* The executors of a stream graph, one for each container: src/kernel/    *)
(* executor.cpp, stream.cpp and vertex.cpp.                                *)
(*                                                                         *)
(* An executor runs the callback of each of its vertices once, from a      *)
(* timeout event or from the first stream callback that needs the vertex;  *)
(* it runs vertex programs as child processes, and closes streams.  Its    *)
(* dispatch loop ends when only the channel to the agent is left in its    *)
(* reactor.  A stream inside an executor is a socket pair, one between two *)
(* executors is the connection the agents made.                            *)
(*                                                                         *)
(* The model begins when the executors have made their part of the graph.  *)
(* Data are left out: a reader whose peer has closed may still find some.  *)
(* That a stream told to remove_on_flush does leave the reactor is shown   *)
(* in OutputStream; an end whose event has left is closed.                 *)
(***************************************************************************)
EXTENDS Integers, FiniteSets

CONSTANTS
  Executor, Vertex, Stream,
  Tail, Head,  \* the vertices of each stream
  Graphs       \* the graphs that may be submitted: the executor, that is the container, of
               \* each vertex, the vertices that are programs, the streams there are, and
               \* those of them marked as critical

ASSUME ExecutorsAssumption ==
  /\ Tail \in [Stream -> Vertex] /\ Head \in [Stream -> Vertex]
  /\ Graphs \subseteq {g \in [where : [Vertex -> Executor], program : SUBSET Vertex,
                              streams : SUBSET Stream, critical : SUBSET Stream] :
                        g.critical \subseteq g.streams}

VARIABLES
  graph,    \* the graph that is run, one for each behaviour
  opc,      \* of each executor: in its "loop", "done", or "dead" after std::exit
  once,     \* _once_flag of each vertex: "no", "busy" or "done"
  timer,    \* the timeout event of each vertex and the promises it ends with
  prog,     \* the child process of each program and the event for its pipe
  reader,   \* the reading end of each stream
  writer,   \* its writing end
  sense,    \* the InputStream by which the tail of an inter stream learns of EOF
  rcb,      \* the callback for the reading end: "idle", at the "vertex" or in "user" code
  wcb,      \* the same for the writing end
  asked     \* promises of remove_istream and remove_ostream

vars == <<graph, opc, once, timer, prog, reader, writer, sense, rcb, wcb, asked>>
streamVars == <<reader, writer, sense, rcb, wcb, asked>>
vertexVars == <<once, timer, prog>>

Where == graph.where
Program == graph.program
Streams == graph.streams
Critical == graph.critical

\* is_intra_stream, and where the two ends are.
Intra(s) == Where[Tail[s]] = Where[Head[s]]
AtTail(s) == Where[Tail[s]]
AtHead(s) == Where[Head[s]]

\* Executors are started for containers, and a container has a vertex.
Hosts(x) == \E v \in Vertex : Where[v] = x

\* An end is an event "in" the reactor, being flushed, or closed ("out"); or the device
\* is kept as a bridge for a program, and then is the child's.  The ends of a stream that
\* the graph does not have are closed from the start.
WriteClosed(s) == writer[s] = "out"
ReadClosed(s) == reader[s] = "out"

\* Mutated form of Init: the tail of an inter stream does not read.
InitNoSense ==
  /\ graph \in Graphs
  /\ opc = [x \in Executor |-> IF Hosts(x) THEN "loop" ELSE "done"]
  /\ once = [v \in Vertex |-> "no"]
  /\ timer = [v \in Vertex |-> "in"]
  /\ prog = [v \in Vertex |-> "none"]
  /\ reader = [s \in Stream |-> CASE s \notin Streams -> "out"
                               [] s \in Streams /\ Head[s] \in Program -> "bridge"
                               [] OTHER -> "in"]
  /\ writer = [s \in Stream |-> CASE s \notin Streams -> "out"
                               [] s \in Streams /\ Tail[s] \in Program -> "bridge"
                               [] OTHER -> "in"]
  /\ sense = [s \in Stream |-> "out"]
  /\ rcb = [s \in Stream |-> "idle"]
  /\ wcb = [s \in Stream |-> "idle"]
  /\ asked = {}

\* _insert_streams and _insert_vertices.
Init ==
  /\ graph \in Graphs
  /\ opc = [x \in Executor |-> IF Hosts(x) THEN "loop" ELSE "done"]
  /\ once = [v \in Vertex |-> "no"]
  /\ timer = [v \in Vertex |-> "in"]
  /\ prog = [v \in Vertex |-> "none"]
  /\ reader = [s \in Stream |-> CASE s \notin Streams -> "out"
                               [] s \in Streams /\ Head[s] \in Program -> "bridge"
                               [] OTHER -> "in"]
  /\ writer = [s \in Stream |-> CASE s \notin Streams -> "out"
                               [] s \in Streams /\ Tail[s] \in Program -> "bridge"
                               [] OTHER -> "in"]
  /\ sense = [s \in Stream |-> IF s \notin Streams \/ Intra(s) \/ Tail[s] \in Program
                             THEN "out" ELSE "in"]
  /\ rcb = [s \in Stream |-> "idle"]
  /\ wcb = [s \in Stream |-> "idle"]
  /\ asked = {}

\* Mutated form of Over: a stream that is only to be flushed does not count.
OverNoFlush(x) ==
  /\ \A v \in Vertex : Where[v] = x => timer[v] = "out" /\ prog[v] \in {"none", "gone"}
  /\ \A s \in Stream : /\ reader[s] = "in" => AtHead(s) # x
                       /\ sense[s] = "in" \/ writer[s] = "in" => AtTail(s) # x

\* No event is left in the reactor of an executor but those of its channel to the agent.
Over(x) ==
  /\ \A v \in Vertex : Where[v] = x => timer[v] = "out" /\ prog[v] \in {"none", "gone"}
  /\ \A s \in Stream : /\ reader[s] = "in" => AtHead(s) # x
                       /\ sense[s] = "in" \/ writer[s] \in {"in", "flush"} => AtTail(s) # x
-----------------------------------------------------------------------------
(* The end of an executor *)

\* threshold(2): the two events of the channel to the agent.
End(x) ==
  /\ opc[x] = "loop"
  /\ Over(x)
  /\ opc' = [opc EXCEPT ![x] = "done"]
  /\ UNCHANGED <<graph, vertexVars, streamVars>>

\* std::exit, or the container is killed: every end it holds is closed, and what its
\* threads and its owner had to do is forgotten.
Exit(x) ==
  /\ opc' = [opc EXCEPT ![x] = "dead"]
  /\ reader' = [s \in Stream |->
       IF AtHead(s) = x /\ reader[s] # "child" THEN "out" ELSE reader[s]]
  /\ writer' = [s \in Stream |->
       IF AtTail(s) = x /\ writer[s] # "child" THEN "out" ELSE writer[s]]
  /\ sense' = [s \in Stream |-> IF AtTail(s) = x THEN "out" ELSE sense[s]]
  /\ rcb' = [s \in Stream |-> IF AtHead(s) = x THEN "idle" ELSE rcb[s]]
  /\ wcb' = [s \in Stream |-> IF AtTail(s) = x THEN "idle" ELSE wcb[s]]
  /\ asked' = asked \ ({<<"istream", s>> : s \in {s \in Stream : AtHead(s) = x}}
                       \union {<<"ostream", s>> : s \in {s \in Stream : AtTail(s) = x}})
  /\ once' = [v \in Vertex |-> IF Where[v] = x THEN "no" ELSE once[v]]
  /\ timer' = [v \in Vertex |-> IF Where[v] = x THEN "in" ELSE timer[v]]
  /\ UNCHANGED <<graph, prog>>

Crash(x) == opc[x] = "loop" /\ Exit(x)
-----------------------------------------------------------------------------
(* Vertices *)

\* Somebody needs the vertex: its timeout event or a stream callback.
Called(v) ==
  \/ timer[v] = "on"
  \/ \E s \in Stream : \/ Head[s] = v /\ rcb[s] = "vertex"
                       \/ Tail[s] = v /\ wcb[s] = "vertex"

\* Vertex::operator(): the first caller runs the callback, the others wait for it.
CallVertex(v) ==
  /\ opc[Where[v]] = "loop"
  /\ once[v] = "no"
  /\ Called(v)
  /\ once' = [once EXCEPT ![v] = "busy"]
  /\ UNCHANGED <<graph, opc, timer, prog, streamVars>>

VertexReturns(v) ==
  /\ opc[Where[v]] = "loop"
  /\ once[v] = "busy"
  /\ once' = [once EXCEPT ![v] = "done"]
  /\ UNCHANGED <<graph, opc, timer, prog, streamVars>>

TimerFires(v) ==
  /\ opc[Where[v]] = "loop"
  /\ timer[v] = "in"
  /\ timer' = [timer EXCEPT ![v] = "on"]
  /\ UNCHANGED <<graph, opc, once, prog, streamVars>>

\* The callback of the timeout event ends: for a program it has made the promise to
\* spawn it; the reactor then makes the promise to remove the event.
TimerEnds(v) ==
  /\ opc[Where[v]] = "loop"
  /\ timer[v] = "on"
  /\ once[v] = "done"
  /\ timer' = [timer EXCEPT ![v] = IF v \in Program THEN "spawn" ELSE "remove"]
  /\ UNCHANGED <<graph, opc, once, prog, streamVars>>

\* Mutated form of RemoveTimer: the event is removed before the program is spawned.
RemoveTimerFirst(v) ==
  /\ opc[Where[v]] = "loop"
  /\ timer[v] \in {"spawn", "remove"}
  /\ timer' = [timer EXCEPT ![v] = "out"]
  /\ UNCHANGED <<graph, opc, once, prog, streamVars>>

RemoveTimer(v) ==
  /\ opc[Where[v]] = "loop"
  /\ timer[v] = "remove"
  /\ timer' = [timer EXCEPT ![v] = "out"]
  /\ UNCHANGED <<graph, opc, once, prog, streamVars>>

\* _spawn: the bridges go to the child.
Spawn(v) ==
  /\ opc[Where[v]] = "loop"
  /\ timer[v] = "spawn"
  /\ timer' = [timer EXCEPT ![v] = "remove"]
  /\ prog' = [prog EXCEPT ![v] = "alive"]
  /\ reader' = [s \in Stream |-> IF Head[s] = v /\ reader[s] = "bridge" THEN "child" ELSE reader[s]]
  /\ writer' = [s \in Stream |-> IF Tail[s] = v /\ writer[s] = "bridge" THEN "child" ELSE writer[s]]
  /\ UNCHANGED <<graph, opc, once, sense, rcb, wcb, asked>>

\* _spawn fails.
SpawnFails(v) ==
  /\ opc[Where[v]] = "loop"
  /\ timer[v] = "spawn"
  /\ Exit(Where[v])

ProgramExits(v) ==
  /\ prog[v] = "alive"
  /\ prog' = [prog EXCEPT ![v] = "exited"]
  /\ reader' = [s \in Stream |-> IF Head[s] = v THEN "out" ELSE reader[s]]
  /\ writer' = [s \in Stream |-> IF Tail[s] = v THEN "out" ELSE writer[s]]
  /\ UNCHANGED <<graph, opc, once, timer, sense, rcb, wcb, asked>>

\* The event for the pipe finds EOF and waits for the child: it succeeded.
ReapProgram(v) ==
  /\ opc[Where[v]] = "loop"
  /\ prog[v] = "exited"
  /\ prog' = [prog EXCEPT ![v] = "reaped"]
  /\ UNCHANGED <<graph, opc, once, timer, streamVars>>

\* It failed.
ProgramFailed(v) ==
  /\ opc[Where[v]] = "loop"
  /\ prog[v] = "exited"
  /\ Exit(Where[v])

RemoveProgram(v) ==
  /\ opc[Where[v]] = "loop"
  /\ prog[v] = "reaped"
  /\ prog' = [prog EXCEPT ![v] = "gone"]
  /\ UNCHANGED <<graph, opc, once, timer, streamVars>>
-----------------------------------------------------------------------------
(* Stream callbacks, on the workers *)

\* The promises of remove_istream and remove_ostream.  One that would find nothing to
\* close, and not a critical stream either, changes nothing and is left out.
AskI(s) ==
  asked' = IF s \in Critical \/ reader[s] = "in" \/ (Intra(s) /\ writer[s] \in {"in", "flush"})
             THEN asked \union {<<"istream", s>>} ELSE asked
AskO(s) ==
  asked' = IF s \in Critical \/ writer[s] = "in" \/ sense[s] = "in"
             THEN asked \union {<<"ostream", s>>} ELSE asked

\* User code of a vertex closes a stream of it, by remove_istream or remove_ostream.
InUserCode(v) ==
  \/ once[v] = "busy"
  \/ \E s \in Stream : \/ Head[s] = v /\ rcb[s] = "user"
                       \/ Tail[s] = v /\ wcb[s] = "user"

UserCloses(s) ==
  /\ \/ opc[AtHead(s)] = "loop" /\ InUserCode(Head[s]) /\ AskI(s)
     \/ opc[AtTail(s)] = "loop" /\ InUserCode(Tail[s]) /\ AskO(s)
  /\ UNCHANGED <<graph, opc, vertexVars, reader, writer, sense, rcb, wcb>>

\* The reader is readable: its callback needs the vertex.
ReaderReady(s) ==
  /\ opc[AtHead(s)] = "loop"
  /\ reader[s] = "in" /\ rcb[s] = "idle"
  /\ rcb' = [rcb EXCEPT ![s] = "vertex"]
  /\ UNCHANGED <<graph, opc, vertexVars, reader, writer, sense, wcb, asked>>

\* It finds EOF: the functor for BrokenIO.
ReaderBroken(s) ==
  /\ opc[AtHead(s)] = "loop"
  /\ reader[s] = "in" /\ rcb[s] = "idle"
  /\ WriteClosed(s)
  /\ AskI(s)
  /\ UNCHANGED <<graph, opc, vertexVars, reader, writer, sense, rcb, wcb>>

\* The writer has something to send and can: a socket pair whose peer is closed takes
\* nothing, a connection still may.
WriterReady(s) ==
  /\ opc[AtTail(s)] = "loop"
  /\ writer[s] = "in" /\ wcb[s] = "idle"
  /\ ~(Intra(s) /\ ReadClosed(s))
  /\ wcb' = [wcb EXCEPT ![s] = "vertex"]
  /\ UNCHANGED <<graph, opc, vertexVars, reader, writer, sense, rcb, asked>>

\* It has something to send and the peer is gone.
WriterBroken(s) ==
  /\ opc[AtTail(s)] = "loop"
  /\ writer[s] = "in" /\ wcb[s] = "idle"
  /\ ReadClosed(s)
  /\ AskO(s)
  /\ UNCHANGED <<graph, opc, vertexVars, reader, writer, sense, rcb, wcb>>

\* The tail of an inter stream reads EOF.
SenseBroken(s) ==
  /\ opc[AtTail(s)] = "loop"
  /\ sense[s] = "in"
  /\ ReadClosed(s)
  /\ AskO(s)
  /\ UNCHANGED <<graph, opc, vertexVars, reader, writer, sense, rcb, wcb>>

\* (*_head)() or (*_tail)() returns.
Ready(v) == once[v] = "done"

UserReads(s) ==
  /\ opc[AtHead(s)] = "loop"
  /\ rcb[s] = "vertex" /\ Ready(Head[s])
  /\ rcb' = [rcb EXCEPT ![s] = "user"]
  /\ UNCHANGED <<graph, opc, vertexVars, reader, writer, sense, wcb, asked>>

UserWrites(s) ==
  /\ opc[AtTail(s)] = "loop"
  /\ wcb[s] = "vertex" /\ Ready(Tail[s])
  /\ wcb' = [wcb EXCEPT ![s] = "user"]
  /\ UNCHANGED <<graph, opc, vertexVars, reader, writer, sense, rcb, asked>>

\* The user's callback returns DEFAULT or REMOVE.
UserReadEnds(s) ==
  /\ opc[AtHead(s)] = "loop"
  /\ rcb[s] = "user"
  /\ rcb' = [rcb EXCEPT ![s] = "idle"]
  /\ UNCHANGED asked \/ AskI(s)
  /\ UNCHANGED <<graph, opc, vertexVars, reader, writer, sense, wcb>>

UserWriteEnds(s) ==
  /\ opc[AtTail(s)] = "loop"
  /\ wcb[s] = "user"
  /\ wcb' = [wcb EXCEPT ![s] = "idle"]
  /\ UNCHANGED asked \/ AskO(s)
  /\ UNCHANGED <<graph, opc, vertexVars, reader, writer, sense, rcb>>
-----------------------------------------------------------------------------
(* The promises, on the owner *)

Close(ends, s) == [ends EXCEPT ![s] = IF @ \in {"in", "flush"} THEN "out" ELSE @]

\* Mutated form of RemoveIstream: the writing end of an intra stream stays.
RemoveIstreamOnly(s) ==
  /\ opc[AtHead(s)] = "loop"
  /\ <<"istream", s>> \in asked
  /\ s \notin Critical
  /\ asked' = asked \ {<<"istream", s>>}
  /\ reader' = Close(reader, s)
  /\ UNCHANGED <<graph, opc, vertexVars, writer, sense, rcb, wcb>>

\* _remove_istream
RemoveIstream(s) ==
  /\ opc[AtHead(s)] = "loop"
  /\ <<"istream", s>> \in asked
  /\ s \notin Critical
  /\ asked' = asked \ {<<"istream", s>>}
  /\ reader' = Close(reader, s)
  /\ writer' = IF Intra(s) THEN Close(writer, s) ELSE writer
  /\ UNCHANGED <<graph, opc, vertexVars, sense, rcb, wcb>>

\* Mutated form of RemoveOstream: the reader at the tail stays.
RemoveOstreamOnly(s) ==
  /\ opc[AtTail(s)] = "loop"
  /\ <<"ostream", s>> \in asked
  /\ s \notin Critical
  /\ asked' = asked \ {<<"ostream", s>>}
  /\ writer' = [writer EXCEPT ![s] = IF @ = "in" THEN "flush" ELSE @]
  /\ UNCHANGED <<graph, opc, vertexVars, reader, sense, rcb, wcb>>

\* Mutated form of RemoveOstream: a critical stream is closed like any other.
RemoveOstreamUnchecked(s) ==
  /\ opc[AtTail(s)] = "loop"
  /\ <<"ostream", s>> \in asked
  /\ asked' = asked \ {<<"ostream", s>>}
  /\ sense' = Close(sense, s)
  /\ writer' = [writer EXCEPT ![s] = IF @ = "in" THEN "flush" ELSE @]
  /\ UNCHANGED <<graph, opc, vertexVars, reader, rcb, wcb>>

\* _remove_ostream
RemoveOstream(s) ==
  /\ opc[AtTail(s)] = "loop"
  /\ <<"ostream", s>> \in asked
  /\ s \notin Critical
  /\ asked' = asked \ {<<"ostream", s>>}
  /\ sense' = Close(sense, s)
  /\ writer' = [writer EXCEPT ![s] = IF @ = "in" THEN "flush" ELSE @]
  /\ UNCHANGED <<graph, opc, vertexVars, reader, rcb, wcb>>

\* Either of them, for a critical stream.
CriticalExit(s) ==
  /\ s \in Critical
  /\ \/ <<"istream", s>> \in asked /\ opc[AtHead(s)] = "loop" /\ Exit(AtHead(s))
     \/ <<"ostream", s>> \in asked /\ opc[AtTail(s)] = "loop" /\ Exit(AtTail(s))

\* The flushed stream leaves the reactor.
FlushDone(s) ==
  /\ opc[AtTail(s)] = "loop"
  /\ writer[s] = "flush"
  /\ writer' = Close(writer, s)
  /\ UNCHANGED <<graph, opc, vertexVars, reader, sense, rcb, wcb, asked>>
-----------------------------------------------------------------------------
VertexStep(v) ==
  \/ CallVertex(v) \/ VertexReturns(v) \/ TimerFires(v) \/ TimerEnds(v) \/ RemoveTimer(v)
  \/ Spawn(v) \/ SpawnFails(v) \/ ReapProgram(v) \/ ProgramFailed(v) \/ RemoveProgram(v)

Callback(s) ==
  \/ UserReads(s) \/ UserWrites(s) \/ UserReadEnds(s) \/ UserWriteEnds(s)

Promise(s) ==
  \/ RemoveIstream(s) \/ RemoveOstream(s) \/ CriticalExit(s) \/ FlushDone(s)

Next ==
  \/ \E x \in Executor : End(x) \/ Crash(x)
  \/ \E v \in Vertex : VertexStep(v) \/ ProgramExits(v)
  \/ \E s \in Stream :
       \/ UserCloses(s) \/ ReaderReady(s) \/ WriterReady(s) \/ WriterBroken(s)
       \/ ReaderBroken(s) \/ SenseBroken(s) \/ Callback(s) \/ Promise(s)

Spec == Init /\ [][Next]_vars

\* Reactors poll and carry out promises, each of them, and callbacks return.  Every
\* stream whose peer is gone is seen by select, though a reader may find data first:
\* finitely often once its peer has closed.  Nobody need write, close a stream, exit or
\* crash.  (A vertex takes finitely many steps and an executor ends once, so that fairness
\* to all of them together is fairness to each.)
Fairness ==
  /\ WF_vars((\E x \in Executor : End(x)) \/ (\E v \in Vertex : VertexStep(v)))
  /\ \A s \in Stream : /\ WF_vars(Promise(s))
                       /\ WF_vars(SenseBroken(s)) /\ SF_vars(ReaderBroken(s))
                       /\ WF_vars(UserReads(s) \/ UserReadEnds(s))
                       /\ WF_vars(UserWrites(s) \/ UserWriteEnds(s))

FairSpec == Spec /\ Fairness
-----------------------------------------------------------------------------
(* Properties *)

\* An executor ends when its part of the graph is complete and not before: every vertex
\* callback ran to its end, every program was spawned and has exited, and every stream
\* end is closed.  The last event may go while a program is still to be spawned.
EndsComplete ==
  \A x \in Executor : opc[x] = "done" =>
    /\ \A v \in Vertex : Where[v] = x =>
         once[v] = "done" /\ (v \in Program => prog[v] = "gone")
    /\ \A s \in Stream : (AtHead(s) = x => ReadClosed(s)) /\ (AtTail(s) = x => WriteClosed(s))

\* No code of a stream sees a vertex whose callback has not returned.
VertexFirst ==
  \A s \in Stream : (rcb[s] = "user" => once[Head[s]] = "done")
                 /\ (wcb[s] = "user" => once[Tail[s]] = "done")

\* A critical stream does not survive its executor: an executor that closed one did
\* not end as if nothing had happened.
CriticalNotDone ==
  \A s \in Critical : /\ reader[s] = "out" /\ Head[s] \notin Program => opc[AtHead(s)] # "done"
                      /\ writer[s] = "out" /\ Tail[s] \notin Program => opc[AtTail(s)] # "done"

\* Whoever closes an end, user code, a failure, a crash or the exit of a program, the
\* other end closes too: "Closing one end of a stream will automatically force the other
\* end to close" (_remove_istream, _remove_ostream and the reader at the tail of an inter
\* stream).  Excepted are ends a program holds, and the end that writes to a program in
\* the same executor: see ProgramForcesClose.  (A closed end stays closed, so the state
\* that recurs is one that lasts.)
OtherEndCloses ==
  []<>(\A s \in Stream :
         /\ WriteClosed(s) => ReadClosed(s) \/ Head[s] \in Program
         /\ ReadClosed(s) => \/ WriteClosed(s) \/ Tail[s] \in Program
                             \/ Intra(s) /\ Head[s] \in Program)

\* An executor with nothing left to run ends: when all its streams have lost their
\* other ends and its programs have exited, no event is left over that keeps its
\* dispatch loop from coming to the threshold.
Ends ==
  []<>(\A x \in Executor :
         (\A s \in Stream : (AtHead(s) = x => WriteClosed(s)) /\ (AtTail(s) = x => ReadClosed(s)))
           => \/ opc[x] # "loop"
              \/ \E v \in Program : Where[v] = x /\ prog[v] \in {"none", "alive"})

\* What the cookbook says of a vertex program: "When the external program finishes, it
\* closes all adjacent streams which in turn forces all other ends to close."  The tail of
\* a stream inside an executor has no reader to learn of it (_insert_ostream).
ProgramForcesClose ==
  []<>(\A s \in Stream :
         /\ Head[s] \in Program /\ ReadClosed(s) => WriteClosed(s)
         /\ Tail[s] \in Program /\ WriteClosed(s) => ReadClosed(s))
=============================================================================
