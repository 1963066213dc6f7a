---------------------------- MODULE StreamBuffer ----------------------------
(***************************************************************************)
(* The buffers of a channel: OutputStreamBuffer and InputStreamBuffer      *)
(* (src/ipc/streambuf.cpp), the packages the archive puts into them        *)
(* (include/dtc/archive/binary.hpp) and the read callback of a channel     *)
(* (include/dtc/kernel/manager.hpp).                                       *)
(*                                                                         *)
(* A buffer starts in the object itself: a union of 32 bytes holds the     *)
(* size in its first byte and the data in the other 31, so that the size   *)
(* of a buffer on the heap is written over data.  It is doubled, or its    *)
(* contents moved to its start, when space runs out.  A package is its own *)
(* length, filled in after the rest has been written, and its items.       *)
(***************************************************************************)
EXTENDS Integers, Sequences, FiniteSets, FiniteSetsExt, Doubling

CONSTANTS
  Local,        \* the size of the local data, 31
  Overlap,      \* bytes of the local data that _size.value covers, 7
  Header,       \* the size of a std::streamsize
  Payload,      \* the lengths of what is packaged
  PipeSize,     \* bytes the device holds
  MaxPackages   \* bound: packages that are sent

ASSUME StreamBufferAssumption ==
  /\ Local \in Nat \ {0} /\ Overlap \in 0 .. Local /\ Header \in Nat \ {0}
  /\ Payload \subseteq Nat /\ PipeSize \in Nat \ {0} /\ MaxPackages \in Nat

VARIABLES
  out,        \* the OutputStreamBuffer of the writer
  pipe,       \* what is in the device
  in,         \* the InputStreamBuffer of the reader
  sent,       \* the lengths of the packages sent
  received,   \* what the reader got for each package
  reading,    \* the read callback is in its loop over the packages
  closed,     \* the writer is gone
  broken      \* the reader has been told of it, by BrokenIO

vars == <<out, pipe, in, sent, received, reading, closed, broken>>

\* A byte is known by its package and its place there; those of the header tell the
\* length, -1 before it is filled in.
Byte(p, i, n) == [package |-> p, at |-> i, length |-> n]
Junk == Byte(0, 0, -1)
Bytes(p, i, j, n) == [k \in 1 .. j - i |-> Byte(p, i + k - 1, n)]

Package(p, n) == Bytes(p, 0, Header, n) \o Bytes(p, Header, n, 0)
-----------------------------------------------------------------------------
(* Buffers: data of the given size, of which those from base to ptr are    *)
(* live (_pbase and _pptr, or _gptr and _egptr).  What is not live is      *)
(* junk once the data have moved.                                          *)

Memory(size, bytes) == [i \in 0 .. size - 1 |-> IF i < Len(bytes) THEN bytes[i + 1] ELSE Junk]

Filled(local, size, bytes) ==
  [local |-> local, size |-> size, data |-> Memory(size, bytes), base |-> 0, ptr |-> Len(bytes)]

Fresh == Filled(TRUE, Local, <<>>)

\* out_avail and in_avail
Avail(b) == b.ptr - b.base
Live(b) == [k \in 1 .. Avail(b) |-> b.data[b.base + k - 1]]

\* The contents move to the start.
Shifted(b) == Filled(b.local, b.size, Live(b))

\* Mutated form of Regrown: the size is set before the data are copied.
RegrownClobbered(b, size) ==
  LET hit == [i \in DOMAIN b.data |-> IF b.local /\ i < Overlap THEN Junk ELSE b.data[i]]
  IN  Filled(FALSE, size, Live([b EXCEPT !.data = hit]))

\* The contents move to a new chunk; then _size.value is set.
Regrown(b, size) == Filled(FALSE, size, Live(b))

\* The first part of _write.
Spacious(b, count) ==
  IF b.size >= b.ptr + count THEN b
  ELSE IF b.size >= Avail(b) + count THEN Shifted(b)
  ELSE Regrown(b, Doubled(b.size, Avail(b) + count))

\* _write
Write(b, bytes) ==
  LET s == Spacious(b, Len(bytes))
  IN  [s EXCEPT !.data = [i \in DOMAIN @ |->
                            IF i - s.ptr \in 0 .. Len(bytes) - 1 THEN bytes[i - s.ptr + 1] ELSE @[i]],
                !.ptr = @ + Len(bytes)]

\* The first part of InputStreamBuffer::_sync, before the device is read.
Roomy(b) ==
  IF b.ptr < b.size THEN b
  ELSE IF b.base > b.size \div 2 THEN Shifted(b)
  ELSE Regrown(b, 2 * b.size)

Room(b) == b.size - b.ptr
-----------------------------------------------------------------------------
(* Packages *)

\* The archive writes the length, which is not known yet, and then the items.
Archived(b, p, n) ==
  LET written[k \in Header .. n] ==
        IF k = Header THEN Write(b, Bytes(p, 0, Header, -1))
                      ELSE Write(written[k - 1], <<Byte(p, k - 1, 0)>>)
  IN  written[n]

\* BinaryOutputPackager goes back from _pptr to fill the length in.
Patched(archived, p, n) ==
  LET at == archived.ptr - n
  IN  [archived EXCEPT !.data = [i \in DOMAIN @ |->
         IF i - at \in 0 .. Header - 1 THEN Byte(p, i - at, n) ELSE @[i]]]

\* The bytes at _gptr read as a length: that of a package if they are its header.
Length(b) ==
  LET first == b.data[b.base]
  IN  IF \A k \in 0 .. Header - 1 : b.data[b.base + k] = [first EXCEPT !.at = k]
        THEN first.length ELSE -1

\* BinaryInputPackager finds a whole package at _gptr.
Complete(b) == Avail(b) >= Header /\ Avail(b) >= Length(b)
-----------------------------------------------------------------------------
Init ==
  /\ out = Fresh /\ pipe = <<>> /\ in = Fresh
  /\ sent = <<>> /\ received = <<>>
  /\ reading = FALSE /\ closed = FALSE /\ broken = FALSE

\* BinaryOutputPackager, with the mutex held throughout.
Send(n) ==
  LET p == Len(sent) + 1
  IN  /\ ~closed
      /\ Len(sent) < MaxPackages
      /\ sent' = Append(sent, n)
      /\ out' = Patched(Archived(out, p, n), p, n)
      /\ UNCHANGED <<pipe, in, received, reading, closed, broken>>

\* OutputStreamBuffer::_sync: the device takes some.  flush does it again and again.
SyncOut(k) ==
  /\ ~closed
  /\ k \in 1 .. Min({Avail(out), PipeSize - Len(pipe)})
  /\ pipe' = pipe \o SubSeq(Live(out), 1, k)
  /\ out' = [out EXCEPT !.base = @ + k]
  /\ UNCHANGED <<in, sent, received, reading, closed, broken>>

\* ~OutputStream: it flushes until the device is full or throws, and what is left is lost.
Destroy(k) ==
  /\ ~closed
  /\ closed' = TRUE
  /\ k \in 0 .. Min({Avail(out), PipeSize - Len(pipe)})
  /\ pipe' = pipe \o SubSeq(Live(out), 1, k)
  /\ out' = Fresh
  /\ UNCHANGED <<in, sent, received, reading, broken>>

\* The read callback begins with InputStreamBuffer::sync, which reads once; for k = 0
\* the device would block.
SyncIn(k) ==
  /\ ~reading /\ ~broken
  /\ k \in 0 .. Min({Room(Roomy(in)), Len(pipe)})
  /\ k = 0 => pipe = <<>> /\ ~closed
  /\ in' = [Roomy(in) EXCEPT
              !.data = [i \in DOMAIN @ |->
                          IF i - Roomy(in).ptr \in 0 .. k - 1 THEN pipe[i - Roomy(in).ptr + 1] ELSE @[i]],
              !.ptr = @ + k]
  /\ pipe' = SubSeq(pipe, k + 1, Len(pipe))
  /\ reading' = TRUE
  /\ UNCHANGED <<out, sent, received, closed, broken>>

\* The device reads nothing, throws, and the functor for BrokenIO is called.
ReadBroken ==
  /\ ~reading /\ ~broken
  /\ closed /\ pipe = <<>>
  /\ in' = Roomy(in)
  /\ broken' = TRUE
  /\ UNCHANGED <<out, pipe, sent, received, reading, closed>>

\* An iteration of the loop: BinaryInputPackager reads a package.
Receive ==
  /\ reading
  /\ Complete(in)
  /\ received' = Append(received, SubSeq(Live(in), 1, Length(in)))
  /\ in' = [in EXCEPT !.base = @ + Length(in)]
  /\ UNCHANGED <<out, pipe, sent, reading, closed, broken>>

\* Mutated form of LoopEnds: only one package is read.
LoopEndsEarly ==
  /\ reading
  /\ reading' = FALSE
  /\ UNCHANGED <<out, pipe, in, sent, received, closed, broken>>

\* The package is not complete.
LoopEnds ==
  /\ reading
  /\ ~Complete(in)
  /\ reading' = FALSE
  /\ UNCHANGED <<out, pipe, in, sent, received, closed, broken>>

\* A new InputStreamBuffer in the place of one that is used up, made from the output
\* buffer and then given the device: InputStreamBuffer(OutputStreamBuffer&&), or
\* InputStreamBuffer(const OutputStreamBuffer&) with the original destroyed.
Replaceable == ~reading /\ ~closed /\ Avail(in) = 0 /\ pipe = <<>>

MoveBuffer ==
  /\ Replaceable
  /\ in' = Filled(out.local, out.size, Live(out))
  /\ out' = Fresh
  /\ reading' = TRUE
  /\ UNCHANGED <<pipe, sent, received, closed, broken>>

CopyBuffer ==
  /\ Replaceable
  /\ in' = IF Avail(out) < Local THEN Filled(TRUE, Local, Live(out))
           ELSE Filled(FALSE, Avail(out), Live(out))
  /\ out' = Fresh
  /\ reading' = TRUE
  /\ UNCHANGED <<pipe, sent, received, closed, broken>>

Next ==
  \/ \E n \in Payload : Send(Header + n)
  \/ \E k \in 0 .. PipeSize : SyncOut(k) \/ SyncIn(k) \/ Destroy(k)
  \/ ReadBroken \/ Receive \/ LoopEnds \/ MoveBuffer \/ CopyBuffer

Spec == Init /\ [][Next]_vars

\* The write event fires while the buffer is not empty and the read event while the
\* device has bytes; callbacks end.
Fairness ==
  /\ WF_vars(\E k \in 1 .. PipeSize : SyncOut(k))
  /\ WF_vars(\E k \in 1 .. PipeSize : SyncIn(k))
  /\ WF_vars(Receive) /\ WF_vars(LoopEnds) /\ WF_vars(ReadBroken)

FairSpec == Spec /\ Fairness
-----------------------------------------------------------------------------
(* Properties *)

\* The reader gets the packages that were sent, whole, in their order and nothing else,
\* wherever the buffers had been moved or grown and the device had cut the stream.
ReceivedInOrder ==
  /\ Len(received) <= Len(sent)
  /\ \A p \in DOMAIN received : received[p] = Package(p, sent[p])

\* When BrokenIO is reported, every package that came whole has been handed over.
BrokenIsLast == broken => pipe = <<>> /\ ~Complete(in)

\* Every package that is sent is received, unless its writer is destroyed: the reader
\* catches up again and again.
Delivered == []<>(Len(received) = Len(sent) \/ closed)
=============================================================================
