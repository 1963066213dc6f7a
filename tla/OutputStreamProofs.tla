------------------------- MODULE OutputStreamProofs -------------------------
(***************************************************************************)
(* Proofs of the safety properties of OutputStream, for any number of      *)
(* bytes.                                                                  *)
(***************************************************************************)
EXTENDS OutputStream, TLAPS

\* Every thaw is accounted for by the flag, but for the one remove_on_flush asks for.
Counted == Tokens <= (IF notified THEN 1 ELSE 0) + (IF disabled THEN 1 ELSE 0)

\* The flag is up while there are bytes, and stands for a run to come.
Flagged ==
  attached => /\ out_avail > 0 => notified
              /\ notified => Tokens > 0 \/ removes > 0

\* The flush stages belong to a disabled stream.
FlushDisabled == ~disabled => cb["flush"] = 0 /\ cb["flushed"] = 0

\* A stream is removed, or about to be, for a reason.
Reason ==
  removes > 0 \/ ~attached => broken \/ (disabled /\ sent >= due)

\* The two parts of the type invariant, which different provers handle.
Counters ==
  /\ written \in 0 .. MaxBytes
  /\ sent \in 0 .. written
  /\ thaws \in Nat /\ removes \in Nat
  /\ cb \in [Stage -> Nat]
  /\ due \in 0 .. written

Flags ==
  /\ notified \in BOOLEAN /\ disabled \in BOOLEAN /\ attached \in BOOLEAN
  /\ closing \in BOOLEAN /\ polled \in BOOLEAN /\ broken \in BOOLEAN

IInv == Counters /\ Flags /\ UserExclusive /\ Counted /\ Flagged /\ FlushDisabled /\ Reason

\* A fresh stream.
LEMMA InitIInv == Init => IInv
  <1> SUFFICES ASSUME Init
               PROVE  IInv
    OBVIOUS
  <1> USE OutputStreamAssumption DEF Init, Stage, out_avail
  <1>1. Counters /\ FlushDisabled /\ Reason
    BY DEF Counters, FlushDisabled, Reason
  <1>2. Flags
    BY DEF Flags
  <1>3. Running = 0 /\ InUser = 0
    BY DEF InUser, Running
  <1>4. UserExclusive /\ Counted /\ Flagged
    BY <1>3 DEF UserExclusive, Counted, Flagged, Tokens
  <1> QED
    BY <1>1, <1>2, <1>4 DEF IInv

\* Every step of a writer, the owner or a worker keeps the accounts.
LEMMA NextIInv == IInv /\ [Next]_vars => IInv'
  <1> SUFFICES ASSUME IInv, [Next]_vars
               PROVE  IInv'
    OBVIOUS
  <1> USE OutputStreamAssumption
  <1> USE DEF IInv, Counters, Flags, UserExclusive, Counted, Flagged, FlushDisabled, Reason, Stage,
              InUser, Running, Tokens, out_avail, reactorVars
  <1>1. CASE Write
    <2>1. Counters'
      BY <1>1 DEF Write, Notify
    <2>2. (UserExclusive /\ FlushDisabled)'
      BY <1>1 DEF Write, Notify
    <2>3. Counted'
      BY <1>1 DEF Write, Notify
    <2>4. Flagged'
      BY <1>1 DEF Write, Notify
    <2>5. Reason'
      BY <1>1 DEF Write, Notify
    <2>6. Flags'
      BY <1>1 DEF Write, Notify
    <2> QED
      BY <2>1, <2>2, <2>3, <2>4, <2>5, <2>6
  <1>2. CASE OwnerWrite
    <2>1. Counters'
      BY <1>2 DEF OwnerWrite
    <2>2. (UserExclusive /\ FlushDisabled)'
      BY <1>2 DEF OwnerWrite
    <2>3. Counted'
      BY <1>2 DEF OwnerWrite
    <2>4. Flagged'
      <3>1. CASE notified
        BY <1>2, <3>1 DEF OwnerWrite
      <3>2. CASE ~notified /\ attached
        <4>1. polled' = TRUE /\ notified' = TRUE
          BY <1>2, <3>2 DEF OwnerWrite
        <4> QED
          BY <1>2, <4>1 DEF OwnerWrite
      <3>3. CASE ~notified /\ ~attached
        BY <1>2, <3>3 DEF OwnerWrite
      <3> QED
        BY <3>1, <3>2, <3>3
    <2>5. Reason'
      BY <1>2 DEF OwnerWrite
    <2>6. Flags'
      BY <1>2 DEF OwnerWrite
    <2> QED
      BY <2>1, <2>2, <2>3, <2>4, <2>5, <2>6
  <1>3. CASE RemoveOstream
    BY <1>3 DEF RemoveOstream
  <1>4. CASE Close
    <2>1. Counters'
      BY <1>4 DEF Close
    <2>2. (UserExclusive /\ FlushDisabled)'
      BY <1>4 DEF Close
    <2>3. Counted'
      BY <1>4 DEF Close
    <2>4. Flagged'
      <3>1. CASE disabled \/ ~attached
        BY <1>4, <3>1 DEF Close
      <3>2. CASE ~(disabled \/ ~attached) /\ out_avail > 0
        <4>1. polled' = TRUE /\ attached' = TRUE
          BY <1>4, <3>2 DEF Close
        <4> QED
          BY <1>4, <3>2, <4>1 DEF Close
      <3>3. CASE ~(disabled \/ ~attached) /\ ~(out_avail > 0)
        <4>1. attached' = FALSE
          BY <1>4, <3>3 DEF Close
        <4> QED
          BY <4>1
      <3> QED
        BY <3>1, <3>2, <3>3
    <2>5. Reason'
      BY <1>4 DEF Close
    <2>6. Flags'
      <3>1. CASE disabled \/ ~attached
        BY <1>4, <3>1 DEF Close
      <3>2. CASE ~(disabled \/ ~attached)
        <4>1. /\ closing' = FALSE /\ disabled' = TRUE
              /\ UNCHANGED <<notified, broken>>
          BY <1>4, <3>2 DEF Close
        <4>2. attached' \in BOOLEAN /\ polled' \in BOOLEAN
          <5>1. CASE out_avail > 0
            BY <1>4, <3>2, <5>1 DEF Close
          <5>2. CASE ~(out_avail > 0)
            BY <1>4, <3>2, <5>2 DEF Close
          <5> QED
            BY <5>1, <5>2
        <4> QED
          BY <4>1, <4>2
      <3> QED
        BY <3>1, <3>2
    <2> QED
      BY <2>1, <2>2, <2>3, <2>4, <2>5, <2>6
  <1>5. CASE Thaw
    <2>1. Counters'
      BY <1>5 DEF Thaw
    <2>2. (UserExclusive /\ FlushDisabled)'
      BY <1>5 DEF Thaw
    <2>3. Counted'
      BY <1>5 DEF Thaw
    <2>4. Flagged'
      BY <1>5 DEF Thaw
    <2>5. Reason'
      BY <1>5 DEF Thaw
    <2>6. Flags'
      BY <1>5 DEF Thaw
    <2> QED
      BY <2>1, <2>2, <2>3, <2>4, <2>5, <2>6
  <1>6. CASE Remove
    <2>1. Counters'
      BY <1>6 DEF Remove
    <2>2. (UserExclusive /\ FlushDisabled)'
      BY <1>6 DEF Remove
    <2>3. Counted'
      BY <1>6 DEF Remove
    <2>4. Flagged'
      BY <1>6 DEF Remove
    <2>5. Reason'
      BY <1>6 DEF Remove
    <2>6. Flags'
      BY <1>6 DEF Remove
    <2> QED
      BY <2>1, <2>2, <2>3, <2>4, <2>5, <2>6
  <1>7. CASE Activate
    <2>1. Counters'
      BY <1>7 DEF Activate
    <2>2. (UserExclusive /\ FlushDisabled)'
      BY <1>7 DEF Activate
    <2>3. Counted'
      BY <1>7 DEF Activate
    <2>4. Flagged'
      BY <1>7 DEF Activate
    <2>5. Reason'
      BY <1>7 DEF Activate
    <2>6. Flags'
      BY <1>7 DEF Activate
    <2> QED
      BY <2>1, <2>2, <2>3, <2>4, <2>5, <2>6
  <1>8. CASE ReadDisabled
    BY <1>8 DEF ReadDisabled, Move
  <1>9. CASE PassAssert
    BY <1>9 DEF PassAssert, Move
  <1>10. ASSUME NEW n \in 0 .. MaxBytes, Sync(n)
         PROVE  IInv'
    BY <1>10 DEF Sync, Move
  <1>11. ASSUME NEW n \in 0 .. MaxBytes, Flush(n)
         PROVE  IInv'
    BY <1>11 DEF Flush, Move
  <1>12. CASE SyncBreaks
    BY <1>12 DEF SyncBreaks, Move
  <1>13. CASE UserRemoves
    BY <1>13 DEF UserRemoves, Leave
  <1>14. CASE EndUser
    <2>1. Counters'
      BY <1>14 DEF EndUser, Leave, Notify
    <2>2. (UserExclusive /\ FlushDisabled)'
      BY <1>14 DEF EndUser, Leave, Notify
    <2>3. Counted'
      BY <1>14 DEF EndUser, Leave, Notify
    <2>4. Flagged'
      BY <1>14 DEF EndUser, Leave, Notify
    <2>5. Reason'
      BY <1>14 DEF EndUser, Leave, Notify
    <2>6. Flags'
      BY <1>14 DEF EndUser, Leave, Notify
    <2> QED
      BY <2>1, <2>2, <2>3, <2>4, <2>5, <2>6
  <1>15. CASE FlushBreaks
    BY <1>15 DEF FlushBreaks, Leave
  <1>16. CASE EndFlush
    <2>1. Counters'
      BY <1>16 DEF EndFlush, Leave, Notify
    <2>2. (UserExclusive /\ FlushDisabled)'
      BY <1>16 DEF EndFlush, Leave, Notify
    <2>3. Counted'
      BY <1>16 DEF EndFlush, Leave, Notify
    <2>4. Flagged'
      BY <1>16 DEF EndFlush, Leave, Notify
    <2>5. Reason'
      BY <1>16 DEF EndFlush, Leave, Notify
    <2>6. Flags'
      BY <1>16 DEF EndFlush, Leave, Notify
    <2> QED
      BY <2>1, <2>2, <2>3, <2>4, <2>5, <2>6
  <1>17. CASE UNCHANGED vars
    BY <1>17 DEF vars
  <1> QED
    BY <1>1, <1>2, <1>3, <1>4, <1>5, <1>6, <1>7, <1>8, <1>9, <1>10, <1>11, <1>12,
       <1>13, <1>14, <1>15, <1>16, <1>17 DEF Next, Promises, Callback

\* The inductive invariant holds of every behaviour.
THEOREM Invariance == Spec => []IInv
  BY InitIInv, NextIInv, PTL DEF Spec

\* The stream, its flags and the reactor's promises keep their types.
THEOREM TypeCorrect == Spec => []TypeOK
  <1>1. IInv => TypeOK
    BY DEF IInv, Counters, Flags, TypeOK
  <1> QED
    BY <1>1, Invariance, PTL

\* The user's callback of a stream is run by one worker at a time.
THEOREM CallbackExclusive == Spec => []UserExclusive
  <1>1. IInv => UserExclusive
    BY DEF IInv
  <1> QED
    BY <1>1, Invariance, PTL

\* One run of the callback is under way at a time, two once the stream is disabled.
THEOREM CallbacksBounded == Spec => []RunsBounded
  <1>1. IInv => RunsBounded
    BY DEF IInv, Counters, Counted, RunsBounded, Tokens, Running, InUser, Stage
  <1> QED
    BY <1>1, Invariance, PTL

\* The reactor owes an attached stream with bytes in its buffer a run or a removal.
THEOREM NothingStalls == Spec => []NoStall
  <1>1. IInv => NoStall
    BY DEF IInv, Flagged, NoStall
  <1> QED
    BY <1>1, Invariance, PTL

\* remove_on_flush loses none of the bytes that were in the buffer.
THEOREM RemovalFlushes == Spec => []FlushedBeforeRemoval
  <1>1. IInv => FlushedBeforeRemoval
    BY DEF IInv, Reason, FlushedBeforeRemoval
  <1> QED
    BY <1>1, Invariance, PTL

\* The assertion of the callback can fail only once the stream is disabled.
THEOREM AssertionInUse == Spec => []AssertInUse
  <1>1. IInv => AssertInUse
    BY DEF IInv, Counters, Counted, AssertInUse, Tokens, Running, InUser, Stage
  <1> QED
    BY <1>1, Invariance, PTL
=============================================================================
