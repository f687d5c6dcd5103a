---------------------------- MODULE MissionLease ----------------------------
(***************************************************************************)
(* The lease on one mission, and the worker job attempts ("runs") that     *)
(* acquire it, keep it alive with a heartbeat, write mission state through *)
(* fenced transactions, and release it.                                    *)
(*                                                                         *)
(* The mission_leases row is never deleted.  A run's fence is the epoch    *)
(* the row had when the run acquired it, the run's owner (the worker       *)
(* process) and a token drawn afresh for every acquisition; a run acquires *)
(* at most once, so the token is the run itself.  Several runs may belong  *)
(* to one worker: a redelivered job runs again in the same process.        *)
(*                                                                         *)
(* Every comparison the database makes is with its own wall clock, so the  *)
(* row keeps the time left instead of the instant of expiry: `left' is 0   *)
(* exactly when expires_at <= clock_timestamp().                           *)
(***************************************************************************)
EXTENDS Naturals, Sequences

CONSTANTS Run,        \* attempts of the mission.resume job, over all workers
          NoRun,      \* no run: the token of the row before it exists
          Worker,     \* worker processes: the lease's owner ids
          NoWorker,   \* no worker: the owner of the row before it exists
          OwnerOf,    \* the worker process that executes a run
          Ttl,        \* the lease's time to live, in clock ticks
          MaxTx       \* bound: fenced transactions a run may begin

ASSUME RunAssumption == NoRun \notin Run /\ NoWorker \notin Worker
ASSUME OwnerAssumption == OwnerOf \in [Run -> Worker]
ASSUME BoundAssumption == Ttl \in Nat \ {0} /\ MaxTx \in Nat

VARIABLES
  lease,     \* the row: [owner, epoch, token, left, released]
  queued,    \* the mission still waits for its first lease
  log,       \* history: the fenced commits, [epoch, run], in commit order
  locker,    \* the run whose open transaction holds the row lock, or NoRun
  fence,     \* the epoch in each run's fence, 0 before it has one
  main,      \* where each run's heartbeat loop is
  work,      \* where the mission work the run started is
  aborted,   \* each run's abort signal
  renewal,   \* each run's renewal request
  begun      \* transactions each run has begun

vars == <<lease, queued, log, locker, fence, main, work, aborted, renewal, begun>>

\* idle: not started; beating: work under a running timer; stopping: timer
\* stopped, the renewal in flight awaited; releasing: in the finally block;
\* done: the job attempt ended; dead: the process died under it.
MainState == {"idle", "beating", "stopping", "releasing", "done", "dead"}

\* ready: between mutations; asserted: past the signal check of one;
\* inTx: fence validated, row locked, not yet committed.
WorkState == {"off", "ready", "asserted", "inTx", "over"}

\* sent, applied and refused are awaited by the run; nobody awaits an orphan,
\* which the database may still execute.
RenewalState == {"none", "sent", "applied", "refused", "orphan"}

LeaseRow == [owner : Worker \cup {NoWorker}, epoch : Nat, token : Run \cup {NoRun},
             left : 0 .. Ttl, released : BOOLEAN]

\* Before the first acquisition there is no row; a released row of epoch 0
\* is acquired in the same way, and gets epoch 1.
NoRow == [owner |-> NoWorker, epoch |-> 0, token |-> NoRun, left |-> 0, released |-> TRUE]

Init == /\ lease = NoRow
        /\ queued \in BOOLEAN
        /\ log = <<>>
        /\ locker = NoRun
        /\ fence = [r \in Run |-> 0]
        /\ main = [r \in Run |-> "idle"]
        /\ work = [r \in Run |-> "off"]
        /\ aborted = [r \in Run |-> FALSE]
        /\ renewal = [r \in Run |-> "none"]
        /\ begun = [r \in Run |-> 0]

-----------------------------------------------------------------------------
\* The conditions the database evaluates.

Available == lease.released \/ lease.left = 0

\* Mutants: a fence that forgets the expiry; one that compares the owner alone.
FenceIgnoresExpiry(r) ==
  lease.owner = OwnerOf[r] /\ lease.epoch = fence[r] /\ lease.token = r /\ ~lease.released
FenceOwnerOnly(r) ==
  lease.owner = OwnerOf[r] /\ ~lease.released /\ lease.left > 0

\* renew, release and runFenced compare the same five things.
FenceValid(r) == /\ lease.owner = OwnerOf[r]
                 /\ lease.epoch = fence[r]
                 /\ lease.token = r
                 /\ ~lease.released
                 /\ lease.left > 0

\* Mutant: the row is read without FOR UPDATE.
ReadWithoutLock == TRUE

\* The row is read FOR UPDATE everywhere: an open transaction excludes others.
Unlocked == locker = NoRun

\* Mutant: a taken-over row keeps its epoch.
EpochKept == IF lease.epoch = 0 THEN 1 ELSE lease.epoch

NextEpoch == lease.epoch + 1

-----------------------------------------------------------------------------
\* The worker job: acquire, then heartbeat and work side by side.

Acquire(r) ==
  /\ main[r] = "idle" /\ Unlocked /\ Available
  /\ lease' = [owner |-> OwnerOf[r], epoch |-> NextEpoch, token |-> r,
               left |-> Ttl, released |-> FALSE]
  /\ queued' = FALSE
  /\ fence' = [fence EXCEPT ![r] = NextEpoch]
  /\ main' = [main EXCEPT ![r] = "beating"]
  /\ work' = [work EXCEPT ![r] = "ready"]
  /\ UNCHANGED <<log, locker, aborted, renewal, begun>>

\* LeaseUnavailableError: the attempt fails, the queue tries again later.
AcquireRefused(r) ==
  /\ main[r] = "idle" /\ Unlocked /\ ~Available
  /\ main' = [main EXCEPT ![r] = "done"]
  /\ UNCHANGED <<lease, queued, log, locker, fence, work, aborted, renewal, begun>>

\* The timer fires; at most one renewal is in flight.
RenewStart(r) ==
  /\ main[r] = "beating" /\ renewal[r] = "none"
  /\ renewal' = [renewal EXCEPT ![r] = "sent"]
  /\ UNCHANGED <<lease, queued, log, locker, fence, main, work, aborted, begun>>

\* Mutant: a renewal adds to the expiry instead of counting from now.
RenewAdds(r) ==
  /\ renewal[r] \in {"sent", "orphan"} /\ Unlocked
  /\ lease' = IF FenceValid(r) THEN [lease EXCEPT !.left = @ + Ttl] ELSE lease
  /\ renewal' = [renewal EXCEPT ![r] = IF @ = "orphan" THEN "none" ELSE "applied"]
  /\ UNCHANGED <<queued, log, locker, fence, main, work, aborted, begun>>

\* The database executes a renewal, whether or not anyone still awaits it.
RenewApply(r) ==
  /\ renewal[r] \in {"sent", "orphan"} /\ Unlocked
  /\ lease' = IF FenceValid(r) THEN [lease EXCEPT !.left = Ttl] ELSE lease
  /\ renewal' = [renewal EXCEPT ![r] =
                   IF @ = "orphan" THEN "none"
                   ELSE IF FenceValid(r) THEN "applied" ELSE "refused"]
  /\ UNCHANGED <<queued, log, locker, fence, main, work, aborted, begun>>

\* A renewal nobody awaits any more.
Abandoned(r) == IF renewal[r] \in {"sent", "orphan"} THEN "orphan" ELSE "none"

\* fail(): stop the timer, abort the work and the renewal in flight.
Fail(r) ==
  /\ aborted' = [aborted EXCEPT ![r] = TRUE]
  /\ main' = [main EXCEPT ![r] = "stopping"]
  /\ renewal' = [renewal EXCEPT ![r] = Abandoned(r)]
  /\ UNCHANGED <<lease, queued, log, locker, fence, work, begun>>

RenewReturn(r) ==
  /\ main[r] \in {"beating", "stopping"}
  /\ \/ /\ renewal[r] = "applied"
        /\ renewal' = [renewal EXCEPT ![r] = "none"]
        /\ UNCHANGED <<lease, queued, log, locker, fence, main, work, aborted, begun>>
     \/ /\ renewal[r] = "refused"
        /\ Fail(r)

\* The answer does not arrive within the renewal timeout, or is an error.
RenewTimeout(r) ==
  /\ main[r] \in {"beating", "stopping"}
  /\ renewal[r] \in {"sent", "applied", "refused"}
  /\ Fail(r)

\* The queue aborts the job: expiry or shutdown.
JobAbort(r) == main[r] = "beating" /\ Fail(r)

\* Mutant: the loop waits for the failure alone, not for the work.
SettleOnFailure(r) ==
  /\ main[r] = "beating" /\ work[r] = "over" /\ aborted[r]
  /\ main' = [main EXCEPT ![r] = "stopping"]
  /\ UNCHANGED <<lease, queued, log, locker, fence, work, aborted, renewal, begun>>

\* The work settled first: the timer stops.
HeartbeatSettle(r) ==
  /\ main[r] = "beating" /\ work[r] = "over"
  /\ main' = [main EXCEPT ![r] = "stopping"]
  /\ UNCHANGED <<lease, queued, log, locker, fence, work, aborted, renewal, begun>>

StopDone(r) ==
  /\ main[r] = "stopping" /\ renewal[r] \in {"none", "orphan"}
  /\ main' = [main EXCEPT ![r] = "releasing"]
  /\ UNCHANGED <<lease, queued, log, locker, fence, work, aborted, renewal, begun>>

Release(r) ==
  /\ main[r] = "releasing" /\ Unlocked
  /\ lease' = IF FenceValid(r) THEN [lease EXCEPT !.released = TRUE] ELSE lease
  /\ main' = [main EXCEPT ![r] = "done"]
  /\ UNCHANGED <<queued, log, locker, fence, work, aborted, renewal, begun>>

\* The release transaction fails: the row waits for its expiry.
ReleaseError(r) ==
  /\ main[r] = "releasing"
  /\ main' = [main EXCEPT ![r] = "done"]
  /\ UNCHANGED <<lease, queued, log, locker, fence, work, aborted, renewal, begun>>

-----------------------------------------------------------------------------
\* The mission work.  It outlives the heartbeat loop that gave up on it.

\* assertMissionExecutionContext: the signal is checked before the transaction.
WorkAssert(r) ==
  /\ work[r] = "ready" /\ ~aborted[r] /\ begun[r] < MaxTx
  /\ work' = [work EXCEPT ![r] = "asserted"]
  /\ begun' = [begun EXCEPT ![r] = @ + 1]
  /\ UNCHANGED <<lease, queued, log, locker, fence, main, aborted, renewal>>

\* The work returns, or throws at the signal check.
WorkFinish(r) ==
  /\ work[r] = "ready"
  /\ work' = [work EXCEPT ![r] = "over"]
  /\ UNCHANGED <<lease, queued, log, locker, fence, main, aborted, renewal, begun>>

\* runFenced locks the row and validates the fence; a stale one is rejected.
TxBegin(r) ==
  /\ work[r] = "asserted" /\ Unlocked
  /\ IF FenceValid(r)
     THEN /\ locker' = r
          /\ work' = [work EXCEPT ![r] = "inTx"]
     ELSE /\ locker' = locker
          /\ work' = [work EXCEPT ![r] = "over"]
  /\ UNCHANGED <<lease, queued, log, fence, main, aborted, renewal, begun>>

TxCommit(r) ==
  /\ work[r] = "inTx"
  /\ log' = Append(log, [epoch |-> fence[r], run |-> r])
  /\ locker' = NoRun
  /\ work' = [work EXCEPT ![r] = "ready"]
  /\ UNCHANGED <<lease, queued, fence, main, aborted, renewal, begun>>

\* A serialization failure is retried from the fence check; another error, or
\* the last retry, ends the work.
TxRollback(r) ==
  /\ work[r] = "inTx"
  /\ locker' = NoRun
  /\ \/ /\ begun[r] < MaxTx
        /\ begun' = [begun EXCEPT ![r] = @ + 1]
        /\ work' = [work EXCEPT ![r] = "asserted"]
     \/ /\ work' = [work EXCEPT ![r] = "over"]
        /\ UNCHANGED begun
  /\ UNCHANGED <<lease, queued, log, fence, main, aborted, renewal>>

-----------------------------------------------------------------------------
\* The environment.

\* The process dies: its runs stop where they are, an open transaction rolls
\* back and frees the row; a renewal already sent may still execute.
Crash(w) ==
  LET Lost == {r \in Run : OwnerOf[r] = w /\ main[r] # "idle"} IN
  /\ \E r \in Lost : main[r] # "dead"
  /\ main' = [r \in Run |-> IF r \in Lost THEN "dead" ELSE main[r]]
  /\ work' = [r \in Run |-> IF r \in Lost THEN "over" ELSE work[r]]
  /\ renewal' = [r \in Run |-> IF r \in Lost THEN Abandoned(r) ELSE renewal[r]]
  /\ locker' = IF locker \in Lost THEN NoRun ELSE locker
  /\ UNCHANGED <<lease, queued, log, fence, aborted, begun>>

Tick ==
  /\ lease.left > 0
  /\ lease' = [lease EXCEPT !.left = @ - 1]
  /\ UNCHANGED <<queued, log, locker, fence, main, work, aborted, renewal, begun>>

HeartbeatStep(r) == RenewReturn(r) \/ HeartbeatSettle(r) \/ StopDone(r) \/ Release(r)
WorkStep(r) == WorkAssert(r) \/ WorkFinish(r) \/ TxBegin(r) \/ TxCommit(r)

RunNext(r) ==
  \/ Acquire(r) \/ AcquireRefused(r)
  \/ RenewStart(r) \/ RenewApply(r) \/ RenewTimeout(r) \/ JobAbort(r)
  \/ HeartbeatStep(r) \/ ReleaseError(r)
  \/ WorkStep(r) \/ TxRollback(r)

Next == \/ \E r \in Run : RunNext(r)
        \/ \E w \in Worker : Crash(w)
        \/ Tick

Spec == Init /\ [][Next]_vars

\* The clock advances; an event loop that is not dead runs its callbacks; the
\* database answers.  Nothing obliges a process to crash, a job to be aborted
\* or an answer to be late.
Fairness == /\ WF_vars(Tick)
            /\ \A r \in Run : /\ WF_vars(HeartbeatSettle(r))
                              /\ WF_vars(HeartbeatStep(r))
                              /\ WF_vars(WorkStep(r))
                              /\ WF_vars(RenewApply(r))

FairSpec == Spec /\ Fairness

-----------------------------------------------------------------------------
\* Properties.

\* Type invariant.
TypeOK == /\ lease \in LeaseRow
          /\ queued \in BOOLEAN
          /\ log \in Seq([epoch : Nat, run : Run])
          /\ locker \in Run \cup {NoRun}
          /\ fence \in [Run -> Nat]
          /\ main \in [Run -> MainState]
          /\ work \in [Run -> WorkState]
          /\ aborted \in [Run -> BOOLEAN]
          /\ renewal \in [Run -> RenewalState]
          /\ begun \in [Run -> Nat]

\* The commits of the mission's writers follow the order of their leases: once
\* a later lease has written, no run of an earlier one commits, however late it
\* wakes up (fencing by runFenced, with the clock free to pass the expiry
\* between its check and the commit).
WritesFollowLeases ==
  \A i, j \in 1 .. Len(log) : i < j => log[i].epoch <= log[j].epoch

\* Two runs never write under one lease, not even two of the same worker, and
\* nothing is written before the first lease takes the mission off the queue.
OneWriterPerLease ==
  /\ \A i, j \in 1 .. Len(log) : log[i].epoch = log[j].epoch => log[i].run = log[j].run
  /\ queued => log = <<>> /\ lease = NoRow

\* A lease that has been released or has expired stays so until the row is
\* acquired again: a renewal that was delayed, or outlived its worker, never
\* revives it.
LeaseNeverRevives ==
  [][Available => Available' \/ lease'.epoch = lease.epoch + 1]_vars

\* Only the run that holds the row releases it: the release in the finally
\* block of a run that lost its lease leaves a successor's lease alone.
ReleaseByHolder ==
  [][~lease.released /\ lease'.released =>
       main[lease.token] = "releasing" /\ main'[lease.token] = "done"]_vars

\* The lease refines the log whose entries are all written by the newest grant.
Log == INSTANCE FencedLog WITH Writer <- Run, NoWriter <- NoRun,
                               epoch <- lease.epoch, holder <- lease.token
WritesByNewestLease == Log!Spec

\* However runs end (finished, aborted, timed out, crashed), the mission does
\* not stay leased for ever: some later run can take it.
LeaseEventuallyFree == []<>Available
=============================================================================
