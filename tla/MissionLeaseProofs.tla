-------------------------- MODULE MissionLeaseProofs --------------------------
(***************************************************************************)
(* Proofs about MissionLease, for any set of runs and workers, any time to *)
(* live and any number of transactions.                                    *)
(*                                                                         *)
(* The safety properties are about the log of commits, which says nothing  *)
(* of the runs that may still append to it.  The inductive invariant IInv  *)
(* adds what ties the three together: no fence is ahead of the row, the    *)
(* row's token names the only run whose fence is the row's epoch, and the  *)
(* run inside a transaction is the one holding the row lock, under a token *)
(* that cannot change while it does.                                       *)
(***************************************************************************)
EXTENDS MissionLease, SequenceTheorems, TLAPS

FenceInv ==
  /\ \A r \in Run : fence[r] <= lease.epoch
  /\ \A r \in Run : lease.token = r => fence[r] = lease.epoch
  /\ queued => lease = NoRow

LockInv ==
  /\ \A r \in Run : locker = r => work[r] = "inTx" /\ lease.token = r
  /\ \A r \in Run : work[r] = "inTx" => locker = r

LogInv ==
  /\ \A i \in 1 .. Len(log) : log[i].epoch <= lease.epoch
  /\ \A i \in 1 .. Len(log) : log[i].epoch = lease.epoch => log[i].run = lease.token
  /\ queued => log = <<>>

IInv == TypeOK /\ FenceInv /\ LockInv /\ LogInv /\ WritesFollowLeases /\ OneWriterPerLease

-----------------------------------------------------------------------------
\* A fence is valid only for the run whose token the row holds.
LEMMA ValidFenceHoldsToken ==
  ASSUME NEW r \in Run, FenceValid(r)
  PROVE  lease.token = r /\ lease.epoch = fence[r] /\ ~lease.released /\ lease.left > 0
BY DEF FenceValid

LEMMA AbandonedType ==
  ASSUME TypeOK, NEW r \in Run
  PROVE  Abandoned(r) \in RenewalState
BY DEF Abandoned, RenewalState

LEMMA LogEntries ==
  ASSUME TypeOK
  PROVE  Len(log) \in Nat /\ \A i \in 1 .. Len(log) : log[i].epoch \in Nat
<1>1. log \in Seq([epoch : Nat, run : Run])
  BY DEF TypeOK
<1>2. \A i \in 1 .. Len(log) : log[i] \in [epoch : Nat, run : Run]
  BY <1>1, ElementOfSeq
<1>3. QED BY <1>1, <1>2, LenProperties

\* Renewing, expiring and releasing change one field of the row.
LEMMA RowLeft ==
  ASSUME NEW row \in LeaseRow, NEW n \in 0 .. Ttl
  PROVE  [row EXCEPT !.left = n] \in LeaseRow
BY Zenon DEF LeaseRow

LEMMA RowReleased ==
  ASSUME NEW row \in LeaseRow
  PROVE  [row EXCEPT !.released = TRUE] \in LeaseRow
BY Zenon DEF LeaseRow

LEMMA RowFields ==
  ASSUME NEW row \in LeaseRow
  PROVE  /\ row.left \in 0 .. Ttl /\ row.epoch \in Nat
         /\ row.token \in Run \cup {NoRun}
BY DEF LeaseRow

-----------------------------------------------------------------------------
LEMMA TypeInit == Init => TypeOK
BY RunAssumption, BoundAssumption
   DEF Init, TypeOK, NoRow, LeaseRow, MainState, WorkState, RenewalState

\* Every step keeps every variable in its type.
LEMMA TypeStep == TypeOK /\ [Next]_vars => TypeOK'
<1> SUFFICES ASSUME TypeOK, [Next]_vars PROVE TypeOK'
  OBVIOUS
<1> USE RunAssumption, OwnerAssumption, BoundAssumption
        DEF TypeOK, MainState, WorkState
<1>1. ASSUME NEW r \in Run, Acquire(r) PROVE TypeOK'
  <2>1. lease' \in LeaseRow /\ fence' \in [Run -> Nat]
    BY <1>1 DEF Acquire, NextEpoch, LeaseRow
  <2>2. main' \in [Run -> MainState] /\ work' \in [Run -> WorkState]
    BY <1>1 DEF Acquire
  <2>3. QED BY <1>1, <2>1, <2>2 DEF Acquire
<1>2. ASSUME NEW r \in Run, AcquireRefused(r) PROVE TypeOK'
  BY <1>2 DEF AcquireRefused
<1>3. ASSUME NEW r \in Run, RenewStart(r) PROVE TypeOK'
  BY <1>3 DEF RenewStart, RenewalState
<1>4. ASSUME NEW r \in Run, RenewApply(r) PROVE TypeOK'
  <2>1. lease' \in LeaseRow
    <3>1. Ttl \in 0 .. Ttl
      OBVIOUS
    <3>2. QED BY <1>4, <3>1, RowLeft DEF RenewApply
  <2>2. renewal' \in [Run -> RenewalState]
    BY <1>4 DEF RenewApply, RenewalState
  <2>3. QED BY <1>4, <2>1, <2>2 DEF RenewApply
<1>5. ASSUME NEW r \in Run, Fail(r) PROVE TypeOK'
  BY <1>5, AbandonedType DEF Fail
<1>6. ASSUME NEW r \in Run, RenewReturn(r) PROVE TypeOK'
  BY <1>6, <1>5 DEF RenewReturn, RenewalState
<1>7. ASSUME NEW r \in Run, RenewTimeout(r) \/ JobAbort(r) PROVE TypeOK'
  BY <1>7, <1>5 DEF RenewTimeout, JobAbort
<1>8. ASSUME NEW r \in Run, HeartbeatSettle(r) \/ StopDone(r) \/ ReleaseError(r) PROVE TypeOK'
  BY <1>8 DEF HeartbeatSettle, StopDone, ReleaseError
<1>9. ASSUME NEW r \in Run, Release(r) PROVE TypeOK'
  <2>1. lease' \in LeaseRow
    BY <1>9, RowReleased DEF Release
  <2>2. main' \in [Run -> MainState]
    BY <1>9 DEF Release
  <2>3. QED BY <1>9, <2>1, <2>2 DEF Release
<1>10. ASSUME NEW r \in Run, WorkAssert(r) PROVE TypeOK'
  <2>1. work' \in [Run -> WorkState] /\ begun' \in [Run -> Nat]
    BY <1>10 DEF WorkAssert
  <2>2. QED BY <1>10, <2>1 DEF WorkAssert
<1>11. ASSUME NEW r \in Run, WorkFinish(r) PROVE TypeOK'
  BY <1>11 DEF WorkFinish
<1>12. ASSUME NEW r \in Run, TxBegin(r) PROVE TypeOK'
  <2>1. locker' \in Run \cup {NoRun} /\ work' \in [Run -> WorkState]
    BY <1>12 DEF TxBegin
  <2>2. QED BY <1>12, <2>1 DEF TxBegin
<1>13. ASSUME NEW r \in Run, TxCommit(r) PROVE TypeOK'
  BY <1>13 DEF TxCommit
<1>14. ASSUME NEW r \in Run, TxRollback(r) PROVE TypeOK'
  <2>1. work' \in [Run -> WorkState]
    BY <1>14 DEF TxRollback
  <2>2. begun' \in [Run -> Nat]
    BY <1>14 DEF TxRollback
  <2>3. locker' \in Run \cup {NoRun}
    BY <1>14 DEF TxRollback
  <2>4. QED BY <1>14, <2>1, <2>2, <2>3 DEF TxRollback
<1>15. ASSUME NEW w \in Worker, Crash(w) PROVE TypeOK'
  BY <1>15, AbandonedType DEF Crash
<1>16. CASE Tick
  <2>1. lease' \in LeaseRow
    <3>1. lease.left - 1 \in 0 .. Ttl
      BY <1>16, RowFields DEF Tick
    <3>2. QED BY <1>16, <3>1, RowLeft DEF Tick
  <2>2. QED BY <1>16, <2>1 DEF Tick
<1>17. CASE UNCHANGED vars
  BY <1>17 DEF vars
<1>18. QED
  BY <1>1, <1>2, <1>3, <1>4, <1>6, <1>7, <1>8, <1>9, <1>10, <1>11, <1>12, <1>13, <1>14,
     <1>15, <1>16, <1>17
     DEF Next, RunNext, HeartbeatStep, WorkStep

\* Type correctness of the lease row and of every run.
THEOREM LeaseTypeCorrect == Spec => []TypeOK
<1>1. QED BY TypeInit, TypeStep, PTL DEF Spec

-----------------------------------------------------------------------------
LEMMA InvInit == Init => IInv
<1> SUFFICES ASSUME Init PROVE IInv
  OBVIOUS
<1>1. TypeOK
  BY TypeInit
<1>2. FenceInv /\ LockInv /\ LogInv
  BY RunAssumption DEF Init, NoRow, FenceInv, LockInv, LogInv
<1>3. WritesFollowLeases /\ OneWriterPerLease
  BY DEF Init, WritesFollowLeases, OneWriterPerLease
<1>4. QED BY <1>1, <1>2, <1>3 DEF IInv

\* Acquiring gives the run an epoch no fence and no log entry has yet.
LEMMA AcquireInv ==
  ASSUME IInv, TypeOK', NEW r \in Run, Acquire(r)
  PROVE  IInv'
<1> USE RunAssumption DEF IInv, TypeOK
<1>1. lease.epoch \in Nat
  BY RowFields
<1>2. /\ lease'.epoch = lease.epoch + 1 /\ lease'.token = r
      /\ fence' = [fence EXCEPT ![r] = lease.epoch + 1]
      /\ log' = log /\ locker' = NoRun /\ locker = NoRun /\ queued' = FALSE
      /\ work' = [work EXCEPT ![r] = "ready"]
  BY DEF Acquire, NextEpoch, Unlocked
<1>3. FenceInv'
  BY <1>1, <1>2 DEF FenceInv
<1>4. LockInv'
  BY <1>2 DEF LockInv
<1>5. \A i \in 1 .. Len(log) : log[i].epoch \in Nat
  BY LogEntries
<1>6. LogInv'
  BY <1>1, <1>2, <1>5 DEF LogInv
<1>7. WritesFollowLeases' /\ OneWriterPerLease'
  BY <1>2 DEF WritesFollowLeases, OneWriterPerLease
<1>8. QED BY <1>3, <1>4, <1>6, <1>7

\* A commit is made by the run the row names, under the row's epoch: its entry
\* is the newest, and agrees with every entry of the same epoch.
LEMMA CommitInv ==
  ASSUME IInv, TypeOK', NEW r \in Run, TxCommit(r)
  PROVE  IInv'
<1> USE RunAssumption DEF IInv, TypeOK
<1>1. lease.token = r /\ fence[r] = lease.epoch /\ lease.epoch \in Nat
  BY RowFields DEF TxCommit, LockInv, FenceInv
<1>2. \A q \in Run : work[q] = "inTx" => q = r
  BY DEF TxCommit, LockInv
<1>3. ~queued
  BY <1>1 DEF FenceInv, NoRow
<1>4. log' = Append(log, [epoch |-> lease.epoch, run |-> r])
  BY <1>1 DEF TxCommit
<1>5. /\ lease' = lease /\ queued' = queued /\ fence' = fence
      /\ locker' = NoRun /\ work' = [work EXCEPT ![r] = "ready"]
  BY DEF TxCommit
<1>6. FenceInv'
  BY <1>5 DEF FenceInv
<1>7. LockInv'
  BY <1>5, <1>2 DEF LockInv
<1>8. Len(log) \in Nat /\ \A i \in 1 .. Len(log) : log[i].epoch \in Nat
  BY LogEntries
<1>9. /\ Len(log') = Len(log) + 1
      /\ log'[Len(log) + 1] = [epoch |-> lease.epoch, run |-> r]
      /\ \A i \in 1 .. Len(log) : log'[i] = log[i]
  BY <1>4
<1>10. LogInv /\ WritesFollowLeases /\ OneWriterPerLease
  OBVIOUS
<1> HIDE DEF IInv, TypeOK
<1>11. LogInv'
  BY <1>1, <1>3, <1>5, <1>9, <1>8, <1>10 DEF LogInv
<1>12. WritesFollowLeases'
  BY <1>1, <1>9, <1>8, <1>10 DEF WritesFollowLeases, LogInv
<1>13. OneWriterPerLease'
  BY <1>1, <1>3, <1>5, <1>9, <1>8, <1>10 DEF OneWriterPerLease, LogInv
<1> USE DEF IInv
<1>14. QED BY <1>6, <1>7, <1>11, <1>12, <1>13

\* Any other step keeps the row's epoch and token, every fence and the log; it
\* may close the transaction that holds the lock, or open one for the run whose
\* token the row holds.
LEMMA FrameInv ==
  ASSUME IInv, TypeOK',
         lease'.epoch = lease.epoch, lease'.token = lease.token,
         lease = NoRow => lease' = NoRow,
         queued' = queued, fence' = fence, log' = log,
         LockInv'
  PROVE  IInv'
<1>1. FenceInv' /\ LogInv'
  BY DEF IInv, FenceInv, LogInv
<1>2. WritesFollowLeases' /\ OneWriterPerLease'
  BY DEF IInv, FenceInv, WritesFollowLeases, OneWriterPerLease
<1>3. QED BY <1>1, <1>2 DEF IInv

\* Steps that do not touch the row, the lock or the work preserve the invariant.
LEMMA UntouchedInv ==
  ASSUME IInv, TypeOK', lease' = lease, queued' = queued, fence' = fence, log' = log,
         locker' = locker, work' = work
  PROVE  IInv'
<1>1. LockInv'
  BY DEF IInv, LockInv
<1>2. QED BY <1>1, FrameInv

\* Steps that renew, expire or release the row: only `left' and `released' change.
LEMMA RowStepInv ==
  ASSUME IInv, TypeOK', queued' = queued, fence' = fence, log' = log,
         locker' = locker, work' = work,
         \/ lease' = lease
         \/ \E n \in 0 .. Ttl : lease' = [lease EXCEPT !.left = n] /\ lease.left > 0
         \/ lease' = [lease EXCEPT !.released = TRUE] /\ ~lease.released
  PROVE  IInv'
<1>1. lease \in LeaseRow
  BY DEF IInv, TypeOK
<1>2. lease'.epoch = lease.epoch /\ lease'.token = lease.token
  BY <1>1 DEF LeaseRow
<1>3. lease = NoRow => lease' = NoRow
  BY DEF NoRow
<1>4. LockInv'
  BY <1>2 DEF IInv, LockInv
<1>5. QED BY <1>2, <1>3, <1>4, FrameInv

LEMMA InvStep == IInv /\ [Next]_vars => IInv'
<1> SUFFICES ASSUME IInv, [Next]_vars PROVE IInv'
  OBVIOUS
<1>0. TypeOK /\ TypeOK'
  BY TypeStep DEF IInv
<1>1. ASSUME NEW r \in Run, AcquireRefused(r) \/ RenewStart(r) \/ Fail(r) PROVE IInv'
  BY <1>0, <1>1, UntouchedInv DEF AcquireRefused, RenewStart, Fail
<1>2. ASSUME NEW r \in Run, RenewReturn(r) \/ RenewTimeout(r) \/ JobAbort(r) PROVE IInv'
  BY <1>0, <1>1, <1>2, UntouchedInv DEF RenewReturn, RenewTimeout, JobAbort
<1>3. ASSUME NEW r \in Run, HeartbeatSettle(r) \/ StopDone(r) \/ ReleaseError(r) PROVE IInv'
  BY <1>0, <1>3, UntouchedInv DEF HeartbeatSettle, StopDone, ReleaseError
<1>4. ASSUME NEW r \in Run, RenewApply(r) PROVE IInv'
  <2>1. Ttl \in 0 .. Ttl
    BY BoundAssumption
  <2>2. FenceValid(r) => lease.left > 0
    BY DEF FenceValid
  <2>3. QED BY <1>0, <1>4, <2>1, <2>2, RowStepInv DEF RenewApply
<1>5. ASSUME NEW r \in Run, Release(r) PROVE IInv'
  <2>1. FenceValid(r) => ~lease.released
    BY DEF FenceValid
  <2>2. QED BY <1>0, <1>5, <2>1, RowStepInv DEF Release
<1>6. CASE Tick
  <2>1. lease.left - 1 \in 0 .. Ttl
    BY <1>0, <1>6, RowFields, BoundAssumption DEF Tick, TypeOK
  <2>2. QED BY <1>0, <1>6, <2>1, RowStepInv DEF Tick
<1>7. ASSUME NEW r \in Run, WorkAssert(r) \/ WorkFinish(r) PROVE IInv'
  <2>1. LockInv'
    BY <1>0, <1>7 DEF WorkAssert, WorkFinish, IInv, LockInv, TypeOK
  <2>2. QED BY <1>0, <1>7, <2>1, FrameInv DEF WorkAssert, WorkFinish
<1>8. ASSUME NEW r \in Run, TxBegin(r) PROVE IInv'
  <2>1. LockInv'
    BY <1>0, <1>8, ValidFenceHoldsToken, RunAssumption
       DEF TxBegin, Unlocked, IInv, LockInv, TypeOK
  <2>2. QED BY <1>0, <1>8, <2>1, FrameInv DEF TxBegin
<1>9. ASSUME NEW r \in Run, TxRollback(r) PROVE IInv'
  <2>1. locker' = NoRun /\ lease' = lease
    BY <1>9 DEF TxRollback
  <2>2. work'[r] # "inTx" /\ \A q \in Run \ {r} : work'[q] = work[q]
    BY <1>0, <1>9 DEF TxRollback, TypeOK
  <2>3. \A q \in Run : work[q] = "inTx" => q = r
    BY <1>9 DEF TxRollback, IInv, LockInv
  <2>4. LockInv'
    BY <2>1, <2>2, <2>3, RunAssumption DEF LockInv
  <2>5. QED BY <1>0, <1>9, <2>4, FrameInv DEF TxRollback
<1>10. ASSUME NEW w \in Worker, Crash(w) PROVE IInv'
  <2>1. LockInv'
    BY <1>0, <1>10, RunAssumption DEF Crash, IInv, LockInv, TypeOK
  <2>2. QED BY <1>0, <1>10, <2>1, FrameInv DEF Crash
<1>11. CASE UNCHANGED vars
  BY <1>0, <1>11, UntouchedInv DEF vars
<1>12. QED
  BY <1>0, <1>1, <1>2, <1>3, <1>4, <1>5, <1>6, <1>7, <1>8, <1>9, <1>10, <1>11,
     AcquireInv, CommitInv
     DEF Next, RunNext, HeartbeatStep, WorkStep

LEMMA Invariance == Spec => []IInv
<1>1. QED BY InvInit, InvStep, PTL DEF Spec

\* A writer of an earlier lease never commits after a later lease has written.
THEOREM FencingOrdersWrites == Spec => []WritesFollowLeases
<1>1. IInv => WritesFollowLeases
  BY DEF IInv
<1>2. QED BY <1>1, Invariance, PTL

\* One lease, one writer, and none before the first lease.
THEOREM FencingSeparatesWriters == Spec => []OneWriterPerLease
<1>1. IInv => OneWriterPerLease
  BY DEF IInv
<1>2. QED BY <1>1, Invariance, PTL

-----------------------------------------------------------------------------
\* Only an acquisition makes a free row held again.
LEMMA RevivalStep ==
  ASSUME TypeOK, [Next]_vars, Available
  PROVE  Available' \/ lease'.epoch = lease.epoch + 1
<1>1. ASSUME NEW r \in Run, Acquire(r) PROVE lease'.epoch = lease.epoch + 1
  BY <1>1 DEF Acquire, NextEpoch
<1>2. ASSUME NEW r \in Run, RenewApply(r) PROVE lease' = lease
  BY <1>2 DEF RenewApply, FenceValid, Available
<1>3. ASSUME NEW r \in Run, Release(r) PROVE lease' = lease
  BY <1>3 DEF Release, FenceValid, Available
<1>4. CASE Tick
  <2>1. lease.released
    BY <1>4, RowFields DEF Tick, Available, TypeOK
  <2>2. lease'.released
    BY <1>4, <2>1 DEF Tick, TypeOK, LeaseRow
  <2>3. QED BY <2>2 DEF Available
<1>5. lease' = lease => Available'
  BY DEF Available
<1>6. QED
  BY <1>1, <1>2, <1>3, <1>4, <1>5
     DEF Next, RunNext, HeartbeatStep, WorkStep, AcquireRefused, RenewStart, RenewReturn,
         RenewTimeout, JobAbort, Fail, HeartbeatSettle, StopDone, ReleaseError, WorkAssert,
         WorkFinish, TxBegin, TxCommit, TxRollback, Crash, vars

\* Released or expired, a lease is over until the row is acquired again.
THEOREM RenewalRevivesNothing == Spec => LeaseNeverRevives
<1>1. TypeOK /\ [Next]_vars => [Available => Available' \/ lease'.epoch = lease.epoch + 1]_vars
  BY RevivalStep
<1>2. QED BY <1>1, LeaseTypeCorrect, PTL DEF LeaseNeverRevives, Spec

\* The row is released by the run that holds it, at the end of its attempt.
LEMMA ReleaseStep ==
  ASSUME TypeOK, [Next]_vars, ~lease.released, lease'.released
  PROVE  main[lease.token] = "releasing" /\ main'[lease.token] = "done"
<1>1. ASSUME NEW r \in Run, Release(r)
      PROVE  main[lease.token] = "releasing" /\ main'[lease.token] = "done"
  BY <1>1 DEF Release, FenceValid, TypeOK
<1>2. ASSUME NEW r \in Run, Acquire(r) PROVE FALSE
  BY <1>2 DEF Acquire
<1>3. ASSUME NEW r \in Run, RenewApply(r) PROVE FALSE
  BY <1>3 DEF RenewApply, TypeOK, LeaseRow
<1>4. ASSUME Tick PROVE FALSE
  BY <1>4 DEF Tick, TypeOK, LeaseRow
<1>5. QED
  BY <1>1, <1>2, <1>3, <1>4
     DEF Next, RunNext, HeartbeatStep, WorkStep, AcquireRefused, RenewStart, RenewReturn,
         RenewTimeout, JobAbort, Fail, HeartbeatSettle, StopDone, ReleaseError, WorkAssert,
         WorkFinish, TxBegin, TxCommit, TxRollback, Crash, vars

\* A run that lost its lease leaves the lease of its successor alone.
THEOREM OnlyHolderReleases == Spec => ReleaseByHolder
<1>1. TypeOK /\ [Next]_vars =>
        [~lease.released /\ lease'.released =>
           main[lease.token] = "releasing" /\ main'[lease.token] = "done"]_vars
  BY ReleaseStep
<1>2. QED BY <1>1, LeaseTypeCorrect, PTL DEF ReleaseByHolder, Spec

-----------------------------------------------------------------------------
\* The refinement of FencedLog: an acquisition is a grant, a commit a write by
\* the newest grant, and every other step changes neither epoch, token nor log.
LEMMA LogInit == Init => Log!Init
BY DEF Init, NoRow, Log!Init

LEMMA LogStep ==
  ASSUME IInv, [Next]_vars
  PROVE  [Log!Next]_(Log!vars)
<1> DEFINE Same == UNCHANGED <<lease.epoch, lease.token, log>>
<1>1. ASSUME NEW r \in Run, Acquire(r) PROVE Log!Grant(r)
  BY <1>1 DEF Acquire, NextEpoch, Log!Grant
<1>2. ASSUME NEW r \in Run, TxCommit(r) PROVE Log!Write
  BY <1>2 DEF TxCommit, IInv, LockInv, FenceInv, Log!Write
<1>3. ASSUME NEW r \in Run, RenewApply(r) \/ Release(r) PROVE Same
  BY <1>3 DEF RenewApply, Release, IInv, TypeOK, LeaseRow
<1>4. ASSUME Tick PROVE Same
  BY <1>4 DEF Tick, IInv, TypeOK, LeaseRow
<1>5. (lease' = lease /\ log' = log) => Same
  OBVIOUS
<1>6. Log!Next \/ Same
  BY <1>1, <1>2, <1>3, <1>4, <1>5
     DEF Next, RunNext, HeartbeatStep, WorkStep, AcquireRefused, RenewStart, RenewReturn,
         RenewTimeout, JobAbort, Fail, HeartbeatSettle, StopDone, ReleaseError, WorkAssert,
         WorkFinish, TxBegin, TxRollback, Crash, vars, Log!Next
<1>7. QED BY <1>6 DEF Log!vars

\* The lease implements the log it promises: every write is made by the newest
\* grant.
THEOREM LeaseImplementsLog == Spec => WritesByNewestLease
<1>1. IInv /\ [Next]_vars => [Log!Next]_(Log!vars)
  BY LogStep
<1>2. QED BY <1>1, LogInit, Invariance, PTL DEF WritesByNewestLease, Log!Spec, Spec
=============================================================================
