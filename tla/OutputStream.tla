---------------------------- MODULE OutputStream ----------------------------
(***************************************************************************)
(* One OutputStream attached to a reactor: include/dtc/ipc/ipc.hpp and     *)
(* src/ipc/ipc.cpp, with the callback that KernelBase::insert_channel      *)
(* gives it (include/dtc/kernel/manager.hpp).                              *)
(*                                                                         *)
(* Threads write into its buffer; the first byte asks the reactor to thaw  *)
(* the stream; the reactor polls it, and when the device is writable a     *)
(* worker runs the callback, which drains the buffer into the device and   *)
(* asks for the next thaw.  remove_on_flush lets the buffer drain before   *)
(* the stream leaves the reactor.                                          *)
(*                                                                         *)
(* Bytes are counted: the buffer holds those written and not yet sent.     *)
(* Of the reactor the module has what concerns this one WRITE event, as in *)
(* Reactor: the promises it has to carry out, whether it polls the event,  *)
(* and the callbacks in the thread pool.  Where in its loop the owner is   *)
(* is left open.  Callbacks of one stage are alike, so they are counted.   *)
(***************************************************************************)
EXTENDS Integers

CONSTANT MaxBytes    \* bound: how many bytes are written in all

ASSUME OutputStreamAssumption == MaxBytes \in Nat

VARIABLES
  written,    \* bytes written into osbuf so far
  sent,       \* bytes the device has taken out of it
  notified,   \* _notified
  disabled,   \* _disabled
  attached,   \* the stream is in the reactor: reactor() is not null
  thaws,      \* promises to thaw the stream, not yet carried out
  removes,    \* the same to remove it
  closing,    \* a promise of Executor::remove_ostream waits: remove_on_flush on the
              \* owner.  (A second one changes nothing, so they are not counted.)
  polled,     \* the stream is in _demux
  cb,         \* how many callbacks of the stream have got how far
  due,        \* history: bytes written when remove_on_flush disabled the stream
  broken      \* history: the device has failed, or a callback returned REMOVE

Stage == {"start", "assert", "user", "end", "flush", "flushed"}

reactorVars == <<attached, thaws, removes, closing, polled>>
vars == <<written, sent, notified, disabled, reactorVars, cb, due, broken>>

out_avail == written - sent

\* Callbacks that found the stream enabled and are before their last section.
InUser == cb["assert"] + cb["user"] + cb["end"]
Running == InUser + cb["start"] + cb["flush"] + cb["flushed"]

\* What leads to a run of the callback, or is one.
Tokens == thaws + (IF polled THEN 1 ELSE 0) + Running

Init ==
  /\ written = 0
  /\ sent = 0
  /\ notified = FALSE
  /\ disabled = FALSE
  /\ attached = TRUE
  /\ thaws = 0
  /\ removes = 0
  /\ closing = FALSE
  /\ polled = FALSE
  /\ cb = [s \in Stage |-> 0]
  /\ due = 0
  /\ broken = FALSE
-----------------------------------------------------------------------------
(* _notify, of a thread that is not the owner.  flag is _notified before.  *)

Notify(flag, avail) ==
  IF flag \/ ~attached \/ avail = 0
    THEN notified' = flag /\ UNCHANGED thaws
    ELSE notified' = TRUE /\ thaws' = thaws + 1

Move(from, to) ==
  /\ cb[from] > 0
  /\ cb' = [cb EXCEPT ![from] = @ - 1, ![to] = @ + 1]

\* The callback returns.
Leave(from) ==
  /\ cb[from] > 0
  /\ cb' = [cb EXCEPT ![from] = @ - 1]
-----------------------------------------------------------------------------
(* Writers *)

\* Mutated form of Write: the writer does not notify.
WriteQuiet ==
  /\ written < MaxBytes
  /\ written' = written + 1
  /\ UNCHANGED <<sent, notified, disabled, reactorVars, cb, due, broken>>

\* osbuf.write by a thread, with _on_write under the lock.
Write ==
  /\ written < MaxBytes
  /\ written' = written + 1
  /\ Notify(notified, out_avail + 1)
  /\ UNCHANGED <<sent, disabled, attached, removes, closing, polled, cb, due, broken>>

\* The same by the owner, whose thaw takes effect at once.
OwnerWrite ==
  /\ written < MaxBytes
  /\ written' = written + 1
  /\ notified' = (notified \/ attached)
  /\ polled' = (polled \/ (~notified /\ attached))
  /\ UNCHANGED <<sent, disabled, attached, thaws, removes, closing, cb, due, broken>>

\* Executor::remove_ostream, by a thread.
RemoveOstream ==
  /\ ~closing
  /\ closing' = TRUE
  /\ UNCHANGED <<written, sent, notified, disabled, attached, thaws, removes, polled,
                 cb, due, broken>>
-----------------------------------------------------------------------------
(* The owner *)

\* Mutated form of Close: the stream is removed whatever its buffer holds.
CloseAtOnce ==
  /\ closing
  /\ closing' = FALSE
  /\ disabled' = TRUE
  /\ due' = IF disabled THEN due ELSE written
  /\ attached' = FALSE /\ polled' = FALSE
  /\ UNCHANGED <<written, sent, notified, thaws, removes, cb, broken>>

\* remove_on_flush, which the owner runs as a promise of remove_ostream.
Close ==
  /\ closing
  /\ closing' = FALSE
  /\ IF disabled \/ ~attached
       THEN UNCHANGED <<disabled, due, attached, polled>>
       ELSE /\ disabled' = TRUE
            /\ due' = written
            /\ attached' = (out_avail > 0)
            /\ polled' = (out_avail > 0)
  /\ UNCHANGED <<written, sent, notified, thaws, removes, cb, broken>>

\* A promise to thaw the stream.
Thaw ==
  /\ thaws > 0
  /\ thaws' = thaws - 1
  /\ polled' = (polled \/ attached)
  /\ UNCHANGED <<written, sent, notified, disabled, attached, removes, closing, cb, due,
                 broken>>

\* A promise to remove it.
Remove ==
  /\ removes > 0
  /\ removes' = removes - 1
  /\ attached' = FALSE
  /\ polled' = FALSE
  /\ UNCHANGED <<written, sent, notified, disabled, thaws, closing, cb, due, broken>>

\* The device is writable: the callback goes to the thread pool.
Activate ==
  /\ polled
  /\ polled' = FALSE
  /\ cb' = [cb EXCEPT !["start"] = @ + 1]
  /\ UNCHANGED <<written, sent, notified, disabled, attached, thaws, removes, closing,
                 due, broken>>
-----------------------------------------------------------------------------
(* The callback, on a worker *)

\* It reads _disabled without the lock.
ReadDisabled ==
  /\ Move("start", IF disabled THEN "flush" ELSE "assert")
  /\ UNCHANGED <<written, sent, notified, disabled, reactorVars, due, broken>>

\* Mutated form of PassAssert: the flag is unmarked before the callback.
PassAssertUnmarks ==
  /\ Move("assert", "user")
  /\ notified' = FALSE
  /\ UNCHANGED <<written, sent, disabled, reactorVars, due, broken>>

\* The assertion, compiled out of a release build.
PassAssert ==
  /\ Move("assert", "user")
  /\ UNCHANGED <<written, sent, notified, disabled, reactorVars, due, broken>>

\* The callback syncs: the device takes n bytes, or would block.
Sync(n) ==
  /\ n <= out_avail
  /\ Move("user", "end")
  /\ sent' = sent + n
  /\ UNCHANGED <<written, notified, disabled, reactorVars, due, broken>>

\* sync throws: the functor for a BrokenIO calls remove_ostream.
SyncBreaks ==
  /\ Move("user", "end")
  /\ broken' = TRUE
  /\ closing' = TRUE
  /\ UNCHANGED <<written, sent, notified, disabled, attached, thaws, removes, polled, due>>

\* A callback may also return REMOVE.
UserRemoves ==
  /\ Leave("user")
  /\ removes' = removes + 1
  /\ broken' = TRUE
  /\ UNCHANGED <<written, sent, notified, disabled, attached, thaws, closing, polled, due>>

\* Mutated form of EndUser: the flag stays up.
EndUserFlagged ==
  /\ Leave("end")
  /\ UNCHANGED <<written, sent, notified, disabled, reactorVars, due, broken>>

\* The section that unmarks the flag at the very end.
EndUser ==
  /\ Leave("end")
  /\ Notify(FALSE, out_avail)
  /\ UNCHANGED <<written, sent, disabled, attached, removes, closing, polled, due, broken>>

\* _remove_on_flush: flush sends n bytes.
Flush(n) ==
  /\ n <= out_avail
  /\ Move("flush", "flushed")
  /\ sent' = sent + n
  /\ UNCHANGED <<written, notified, disabled, reactorVars, due, broken>>

\* flush throws.
FlushBreaks ==
  /\ out_avail > 0
  /\ Leave("flush")
  /\ broken' = TRUE
  /\ removes' = removes + 1
  /\ UNCHANGED <<written, sent, notified, disabled, attached, thaws, closing, polled, due>>

\* Mutated form of EndFlush: the stream is not removed.
EndFlushStays ==
  /\ Leave("flushed")
  /\ Notify(FALSE, out_avail)
  /\ UNCHANGED <<written, sent, disabled, attached, removes, closing, polled, due, broken>>

\* The rest of _remove_on_flush, under the lock.
EndFlush ==
  /\ Leave("flushed")
  /\ Notify(FALSE, out_avail)
  /\ removes' = IF thaws' = thaws THEN removes + 1 ELSE removes
  /\ UNCHANGED <<written, sent, disabled, attached, closing, polled, due, broken>>
-----------------------------------------------------------------------------
Promises == Close \/ Thaw \/ Remove

Callback ==
  \/ ReadDisabled \/ PassAssert
  \/ \E n \in 0 .. MaxBytes : Sync(n) \/ Flush(n)
  \/ SyncBreaks \/ UserRemoves \/ EndUser \/ FlushBreaks \/ EndFlush

Next == Write \/ OwnerWrite \/ RemoveOstream \/ Promises \/ Activate \/ Callback

Spec == Init /\ [][Next]_vars

\* The owner carries out promises, workers run what is in the pool.  A device on
\* which the peer reads is writable again and again, and takes something now and
\* then; a callback may always send nothing, because it would block.
Fairness ==
  /\ WF_vars(Close) /\ WF_vars(Thaw) /\ WF_vars(Remove) /\ WF_vars(Activate)
  /\ WF_vars(ReadDisabled) /\ WF_vars(PassAssert)
  /\ WF_vars(EndUser) /\ WF_vars(EndFlush)
  /\ WF_vars(SyncBreaks \/ UserRemoves \/ \E n \in 0 .. MaxBytes : Sync(n))
  /\ WF_vars(FlushBreaks \/ \E n \in 0 .. MaxBytes : Flush(n))
  /\ SF_vars(\E n \in 1 .. MaxBytes : Sync(n))
  /\ SF_vars(\E n \in 1 .. MaxBytes : Flush(n))

FairSpec == Spec /\ Fairness
-----------------------------------------------------------------------------
(* Properties *)

TypeOK ==
  /\ written \in 0 .. MaxBytes
  /\ sent \in 0 .. written
  /\ notified \in BOOLEAN /\ disabled \in BOOLEAN /\ attached \in BOOLEAN
  /\ thaws \in Nat /\ removes \in Nat
  /\ closing \in BOOLEAN /\ polled \in BOOLEAN
  /\ cb \in [Stage -> Nat]
  /\ due \in 0 .. written
  /\ broken \in BOOLEAN

\* Two workers never are in the user's callback of a stream, although every write,
\* the callback itself and remove_on_flush ask for thaws.
UserExclusive == InUser <= 1

\* The reactor is never asked for more than one run at a time of the callback of a
\* stream in use, nor for more than two once remove_on_flush has asked for its own.
RunsBounded == Tokens <= IF disabled THEN 2 ELSE 1

\* No bytes are left in the buffer of an attached stream that nothing will send:
\* no write is lost between the end of a callback and the reset of the flag.
NoStall == attached /\ out_avail > 0 => Tokens > 0 \/ removes > 0

\* remove_on_flush: the bytes that were in the buffer are sent before the stream
\* leaves the reactor, unless the device failed or the user removed it.
FlushedBeforeRemoval == disabled /\ ~attached /\ ~broken => sent >= due

\* The assertion of the callback holds as long as the stream has not been disabled.
AssertInUse == cb["assert"] > 0 /\ ~disabled => notified

\* The assertion of the callback.
AssertHolds == cb["assert"] > 0 => notified

\* "The reactor keeps invoking the callback until all data are flushed."
Drained == out_avail > 0 ~> (out_avail = 0 \/ ~attached)

\* A stream that is disabled leaves the reactor.
Leaves == disabled ~> ~attached
=============================================================================
