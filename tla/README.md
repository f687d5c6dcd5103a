# TrashPal: specifications of the mission runtime

TrashPal runs long "missions" for a household of devices. A mission is a durable
state machine in PostgreSQL; workers, driven by a pg-boss queue that is fed from a
transactional outbox, advance it; a gateway executes device commands and answers
with signed callbacks. This directory holds TLA+ models of that runtime, the TLC
configurations that check them and TLAPS proofs about them. Paths below are
relative to `src/`; `application/`, `core/`, `db/`, `agent/` stand for
`packages/<name>/src/`.

## Inventory

| Component | State it keeps | Operations | What is hard | What makes it correct |
|---|---|---|---|---|
| Mission lease (`application/mission-lease-service.ts`, `mission-fence.ts`, `apps/worker/src/heartbeat.ts`, `worker-runtime.ts`, `db/repositories.ts` 4284-4490, 5419-5482) | lease row: run, owner, epoch, expiry | acquire, renew, release, runFenced | work that outlives its heartbeat, late renewals, the clock passing the expiry inside a transaction | only the newest holder writes; a dead holder does not keep the lease |
| Gateway effects (`operation-dispatch-service.ts`, `callback-service.ts`, `db/repositories.ts` 2598-3645) | effect, dispatch generations, attempts, polls, callbacks | claim, call, finalize, reconcile, applyCallback, cancelPending | redelivered jobs, lost answers, callbacks out of order, cancellation in flight | one call per authorization; retry only in doubt; outcomes are final |
| Mission execution (`operation-service.ts`, `execution-*.ts`, `cancellation-service.ts`, `callback-service.ts`, `verification-service.ts`, `core/missions.ts`) | mission status and phase, operation, execution and milestones, cancellation record | approve, activate, reconcile, arrival, callback, deadline, verify, cancel | every handler may find the mission in a state another one left; errors roll back | cancellation stops and settles; verdicts are about executions that are over; an observing mission is verified |
| Gateway simulator (`apps/gateway-simulator`) | commands and devices in memory, callback queue, inbox | command, fault schedule, deliver, drain | a restart loses memory; a bounded queue evicts | a command is executed once |
| Outbox relay (`outbox-service.ts`, `apps/worker/src/outbox-pump.ts`, `db/repositories.ts` 2242-2315, 5484-5539) | outbox rows with claims | insert, claimDue, publish, markDispatched, release, withdraw | several sweeps under one owner id, claims that expire while a sweep publishes | dispatched means accepted; copies are bounded by claims; nothing is lost |
| Worker process (`worker-runtime.ts`, `pg-boss-adapter.ts`) | job registrations, queue options | start, drain, stop | jobs that outlive `expireInSeconds` | jobs end or come again |
| Approvals (`approval-service.ts`) | approvals, protected resource versions | request, decide, invalidate | expiry between decision and activation | what runs is what was approved |
| Plans, routines, verification (`plan-service.ts`, `verification-service.ts`, `deterministic-verifier.ts`) | plan and routine versions, verifications | submit, supersede, verify | two transactions with an evaluation between | a verdict is about the current plan |
| Human tasks, clarifications (`clarification-service.ts`) | tasks and answers | request, answer, expire | an answer that comes before the run is paused for it | an answer is heard |
| Tool ledger (`tool-dispatcher.ts`, `db/repositories.ts` 5772-6116) | invocation by call id, evidence, receipt | claim, take over, execute or resolve, complete, replay | a caller that outlives its claim, a death between completion and receipt | a write runs once; everyone is told the same |
| Caretaker host, run ledger (`agent/caretaker-host.ts`, `caretaker-worker-adapters.ts`, `application/caretaker-run-ledger.ts`, `db/caretaker-run-repository.ts`) | run with its status, phase, counters, pending call, checkpoints; decision loop | start, take over, succeed, checkpoint, invoke, pause, finalize | lost leases between a tool's transaction and the run's; users and jobs that move the mission under it | no executed call is forgotten; budgets hold across runs; ended missions end their run |
| Identity telemetry (`identity-telemetry-service.ts`) | arrivals, readings | ingest, arrive | order and duplicates | one arrival per event |
| Sessions, credentials, decision engines, context, SmartThings connector, MCP server, web, observability | - | - | I/O and pure data | not modelled |

How they interact: every handler is one database transaction, serializable where it
matters, that reads and writes the mission's aggregate and leaves *messages in the
outbox*. The relay moves messages to the queue, the queue delivers *jobs* to
workers, at least once. `mission.resume` jobs run a caretaker under the mission's
lease. An activation creates an execution and its first device effect; each effect
is a `gateway.dispatch` job that calls the gateway between two transactions; the
gateway's signed *callbacks* complete the effect, the execution's milestone, and
perhaps plan the next effect; the execution's end, or its deadline, asks for a
verification. A cancellation may come at any time and withdraws, flags or preserves
what it finds.

## Modules

| Module | What it is |
|---|---|
| `FencedLog` | abstract: numbered grants, every write by the newest holder |
| `MissionLease` | the lease row, the heartbeat loop, the work under it, fenced transactions; refines `FencedLog` |
| `MissionLeaseProofs` | proofs about it |
| `LogicalCommand` | abstract: a device command is authorized and called within a budget, again only while in doubt, until its outcome |
| `DeviceEffect` | abstract: one device effect as the mission and the gateway's record agree on it: sent while open, retried only after a poll, recorded once, stopped by a cancellation |
| `GatewayEffect` | one command's database aggregate, its jobs, workers, the gateway, the callbacks; refines `LogicalCommand` and `DeviceEffect` |
| `GatewayEffectProofs` | proofs about it |
| `MissionPromise` | abstract: what a mission promises the household: what it starts it owes an outcome, an unlocked door its lock, and it ends only as it may |
| `MissionExecution` | one mission from plan to end, with its operation, execution, four effects and jobs; refines `MissionPromise`, and `DeviceEffect` for each effect |
| `MissionExecutionProofs` | proofs of its invariants |
| `MissionPromiseProofs` | proofs of its two refinements |
| `ToolCall` | abstract: one tool call, of which a write runs at most once, with one recorded outcome |
| `ToolLedger` | the invocation row, its callers, evidence and receipt; refines `ToolCall` |
| `ToolLedgerProofs` | proofs about it |
| `MessageRelay` | abstract: a message waits, is done, or is withdrawn, for good |
| `OutboxRelay` | outbox rows, sweeps, the queue's keys; refines `MessageRelay` |
| `OutboxRelayProofs` | proofs about it |
| `DurableRun` | abstract: the record of a mission's caretaker: one call at a time, counted, run at most once, kept until its result is, and budgets that are never given back |
| `CaretakerRun` | a mission's run, the activation that drives it, its tools, and what others do to the mission; refines `DurableRun` |
| `CaretakerRunProofs` | proofs about it |
| `MC*` | the instances TLC checks |

How they fit together: `MissionLease` says that an old activation writes nothing once
a new one has the lease, so `CaretakerRun` has one activation; `ToolLedger` says that a
call's handler runs once however often it is invoked, so `HandlerRuns` of
`CaretakerRun` is one step; `OutboxRelay` gives the `jobs` and `wakes` of the other
modules; `MissionExecution` is what `WorkProceeds` and `Verify` of `CaretakerRun`
abbreviate. What `MissionExecution` and `GatewayEffect` have in common is
`DeviceEffect`: both are proved to implement it, the first for each of its four
effects. The mission's view of an effect is therefore no freer than the record's, and
no stricter in what it does after a cancellation. `DeviceEffect` does not speak of the
gateway: a gateway that restarts and executes a command again is in `GatewayEffect`
only, and the `gateway` of `MissionExecution` acts once.

The `map` of `PROJECT.json` names, for every definition, the lines it translates.

### MissionLease

Variables: the lease row (`epoch`, `token`, `left` until expiry, `released`), the
log of commits, and for each run (an attempt of a `mission.resume` job) its
heartbeat loop (`main`, `renewal`, `aborted`), its work and its fence. `Acquire`,
`RenewApply` and `Release` are the three statements on the row; `TxBegin` is the
fence check under the row's lock and `TxCommit` the commit, with `Tick` between
them. `RenewTimeout` leaves a renewal on its way to the database, `Fail` and
`JobAbort` end the loop, `Crash` ends a worker. A lease is exclusive by its fence
and not by its expiry: `WritesFollowLeases` and `OneWriterPerLease` hold although a
transaction may commit after the expiry.

### GatewayEffect

Variables: the aggregate (`effect`, `dispatches`, `attempts`, `polls`, `stored`),
the `jobs`, the `gateway`'s memory and the callbacks on the `wire`. `Claim`,
`GatewayHandle`/`CallTimeout`, `Finalize` are the dispatch handler's two
transactions and the call between them; `WorkerCrash` may come in between.
`Acknowledge` ends a job or leaves it to be delivered again. `Reconcile` is the
repository transaction; what the service then does to the mission is
`ReconcileEffect` of `MissionExecution`. `ApplyCallback` always succeeds here,
although the ingestion around it may roll back: a rejected callback is one not yet
delivered, and no fairness is assumed of callbacks. `exhausted` is the result
`intervention_required`. As a `DeviceEffect` the record is *pending* or *cancelled*
like its newest dispatch and *sent* in every other state of it; it is *stopped* when
its mission is cancelled and its policy lets the cancellation withdraw it.

Two branches of the code are shown to be unreachable: a claim that finds a
cancelled mission's dispatch still pending (`WithdrawInv`: the cancellation has
already withdrawn it), and a finalization of a superseded generation (lemma
`UnfinishedIsCurrent`).

### MissionExecution

Variables: `mission` (status and phase), `approval`, `operation`, `lost` (an attempt
whose response was lost), `cancelled`, `execution` and `overdue`, `milestone` by
name, and by effect `dispatch` (of the current generation), `called` and what the
`gateway` made of it; `verdict` is what a verification has found and not yet
stored; `jobs` are the messages that drive the mission. `Transition(event)` is
`resolveMissionTransition`: an event without a row throws, the handler rolls back,
and the action is not enabled. Only events that some code sends are in the table;
`reconcile_retry_authorized`, `reconcile_stopped`, `corrective_work_requested`,
`terminal_result_acknowledged`, `safe_correction_available` and
`execution_non_retryable_failure` have no sender, so a mission that waits for its
user in `reconcile` or `verify` can only be cancelled.

Abstractions: one operation with one execution (the verifier demands exactly that);
an effect's outcome is its milestone's (one transaction writes both); the polls of
an effect are counted in `GatewayEffect`, here the budget may be exhausted whenever
an effect has no outcome; operation reconciliation always finds the commit, since
attempts become unknown only where the operation committed (`OperationAttemptService`,
which could do otherwise, is not wired). The clarification round trip in `plan` and
the caretaker's runs are in `CaretakerRun`.

To the household (`Ending`, `Owed`, `Promise`) the mission is open, asks its user,
succeeded or was cancelled, and owes every effect it materialized, did not withdraw and
has no outcome of. `MissionPromise` does not promise that a cancelled mission never
succeeds, nor that nothing withdrawn happens after all, since the code does not.

### ToolLedger

Variables: the `class` of the tool, the invocation's `row`, the `callers` under way
(a job delivered again, a client that retries), the `evidence` of abandoned
generations, the `receipt`, and two histories: the generations that ran the handler
and the answers given. `Claim`, `Execute` (or `Refuse`, or `RecordEvidence`),
`Complete` and `AppendReceipt` are an invocation's transactions. A claim that has
expired does not stop its owner; `Complete` is where it finds out. A generation
stands for its owner token. "Call in progress" and errors are not answers.

### OutboxRelay

Variables: the `rows`, the queue (`accepted` jobs by message, keys that are `live`)
and the `sweeps`. `Claim` takes a batch of due rows; `Publish`, `Mark` and `Release`
are the three steps of one message. A row names its owner, which is the worker and not
the sweep (`Mine`): a sweep that is late may mark or release what another sweep of its
worker has claimed since, but not another worker's claim (`ClaimStaysWithWorker`).
`Withdraw` is the cancellation's update, which asks nobody. `by` and the counts in
`accepted` are histories.

### CaretakerRun

Variables: the `mission`, its latest `run`, whether the `handled` call's transaction
is done, the activation (`host`) with what it has `seen`, and the `wakes`. `Acquire`
to `Activate` is the worker's start: `Ended`, `Finalizes`, `Synchronizes`, `TakesOver`
and `Succeeds` are the cases of `start`, anything else is `RefuseStart`. `Save` is
`#saveCheckpoint` with the preconditions of the repository (`Accepted`); one that is
refused throws, and the job comes again. The loop's parts follow the host's: a pending
call first, then the budget, the projection, the mission's end or wait, then the
decision. Between a transaction on the mission and the run's next checkpoint there is
always a step, where the activation can be lost.

Abstractions: run ids, versions and mutation keys are dropped (one activation writes
at a time, by `MissionLease`); the kind of the last checkpoint and what it reserved are
one field, `action`; tools that change nothing are one tool, simulation counts as
validation; the decision engine may choose anything the host allows; the active runtime
counts in units, of which every slow step may take any number up to the ceiling. A
refused or throwing job comes again or, when refused, may have used up its retries.
Events that nothing in the running system sends (`user_response_expired`, human review)
are not there, as in `MissionExecution`.

As a `DurableRun` the pending call is *reserved* under a plan revision's or a poll's
checkpoint, *counted* under a tool call's, *ran* when its handler committed; the
activation that is about to retain a result is the one that *answered*. Activations,
jobs, phases and the decision loop are not visible there.

## Runs

| Run | Instance | Shows |
|---|---|---|
| `MissionLeaseSafety` | two attempts in one worker, lease of 2 ticks, 2 transactions each, fairness | order and exclusivity of writes, no revival, release by the holder, refinement of `FencedLog`; the lease is free again and again |
| `GatewayEffectSafety` | budget of 2 attempts, one redelivery, one gateway restart, all callbacks, fairness | one call per generation, budget of calls and polls, follow-up, callbacks, finality, refinement of `LogicalCommand` and of `DeviceEffect`, cancelled or not; a finished call in doubt is settled |
| `GatewayEffectLostResponse` | budget of 2, one redelivery, no progress callbacks, fairness | *violated*: a worker that dies between claim and finalize leaves a call nobody looks at |
| `MissionExecutionSafety` | responses may be lost; the unlock's and the relock's calls may be in doubt; fairness | verdicts, cancellation, the jobs of a waiting mission, refinement of `DeviceEffect` by each effect and of `MissionPromise`; an observing mission is verified |
| `MissionExecutionCancelled` | responses may be lost | *violated*: a cancelled mission succeeds |
| `MissionExecutionWithdrawn` | the unlock's call may be in doubt | *violated*: a cancellation withdraws a retry and does not reconcile the call before it |
| `MissionExecutionLapsed` | no lost response, fairness | *violated*: an approval that lapses before its activation is never revised |
| `MissionExecutionRelock` | no lost response, fairness | *violated*: an unlock completed after the execution's end has no relock |
| `ToolLedger` | two callers, three deaths or expiries under a live owner, reads and writes, fairness | one answer for all, true evidence, no owner turned away, refinement of `ToolCall`; the call is answered |
| `OutboxRelay` | two messages (one withdrawable), two sweeps of one worker and one of another, two faults, fairness | claims end by their own worker and are taken over only when expired, one job unless something failed, refinement of `MessageRelay`; a committed message is relayed |
| `CaretakerRun` | four calls, two plans, one clarification, one poll, two units of time, one fault, fairness | refinement of `DurableRun` (executed calls are kept, budgets hold), answers are heard; calls are retained, ended missions end their run |
| `CaretakerRunLostLease` | one of each, fairness | *violated*: an activation lost between the mission's step and its own checkpoint is not resumed |

Each violated property states what a document of the repository says; the finding in
`PROJECT.json` quotes it and tells the trace.

Bounds. Two runs are enough for every pair of writers; two ticks separate a live
from an expired lease, and two transactions let a zombie write before and after a
takeover. A budget of 2 has a retry and the last attempt, and the poll after it
(safety is proved for every budget); one redelivery puts two handlers on one job; one
restart lets the gateway execute a command again. `MissionExecution` has no counters:
`Doubtful` limits which effects go through retries (the unlock, which plans another
effect, and the relock, which survives cancellations), and the runs have the whole
state space. With three disturbances two callers of `ToolLedger` take a call over from
each other and back. Two sweeps of one worker share an owner id and a third has
another, and two messages let a batch hold one row while the other is taken. In
`CaretakerRun` a plan can be revised once after its validation failed, there is a call
left after each pause, a wait takes the last unit of time, and a successor inherits
counters that are not zero. Deadlock is not checked where a system may stop:
transactions are bounded, commands get their outcome, calls their answer and missions
end.

Fairness. *Lease*: the clock advances, a live event loop runs its callbacks, the
database answers; nothing obliges a process to crash or an answer to be late.
*Gateway*: the queue delivers jobs (`retryLimit`, backoff and the outbox sweep; a job
that fails to its limit is dropped only where the model drops it), a worker that is
not dead goes on; callbacks, the gateway's answers and device safety are not assumed.
*Mission*: time passes, the queue delivers, a verification that found its verdict
stores it or its job comes again, and the gateway delivers a callback until it is
accepted; no one has to plan, approve, activate, arrive or cancel. *Tool ledger*: a
caller without an answer invokes again, one that has claimed goes on unless it dies,
claims expire. *Relay*: a sweep that holds a batch goes on, claims and backoffs
expire, and a message that is due again and again is taken by some sweep (they run
for ever, oldest first; strong, because another sweep's lock skips a row). *Caretaker*:
the job comes again and a live activation goes on; a tool that is called again and
again answers in the end, and the projection succeeds in the end (strong: the loss of
the activation disables both); users, jobs on the mission and faults owe nothing.

`ObservationIsVerified` excludes lost responses because the code does: when the
reconciliation of a lost response takes longer than the execution's deadline, the
deadline's job finds the mission in `reconcile`, does nothing, and the mission then
observes without anything to wake it. `CallIsRetained` excludes, as an assumption, the
runs that are `Wedged`: an activation lost between a tool's transaction on the mission
and its own checkpoint leaves a phase, or a wait, that no later activation accepts.
That this happens is what `CaretakerRunLostLease` shows.

## Proofs

All theorems are for every value of the constants, under the `ASSUME`s of the
modules (sets of runs and workers, positive time to live and budget, and so on).

*Lease.* `IInv` adds to the log's properties what ties the log to the runs that may
still append to it: no fence is ahead of the row, the row's token names the only run
whose fence is the row's epoch (`FenceInv`), and whoever is inside a transaction
holds the row's lock (`LockInv`), so the token cannot change before the commit.
Proved: `TypeOK`, `WritesFollowLeases`, `OneWriterPerLease`, `LeaseNeverRevives`,
`ReleaseByHolder` and that every step is a step or a stutter of `FencedLog`.

*Gateway.* The properties speak of generations, attempts and polls; `CallInv` says
that there is one attempt per generation that was claimed and what its worker's
state says of the dispatch row, `DoubtInv` that superseded generations ended in
doubt, and `WithdrawInv` what a cancellation left behind. `CalledInv`, which the
refinement of `DeviceEffect` needs, says that the gateway only calls back about what it
was sent. `GenerationInv` bounds the generations by the polls before them. `PollInv` bounds
the polls: several chains may spend one budget (the command's, a cancellation's and one
for each redelivered job), so it counts the chains still under way and those that have
ended, and says that only a chain that ends polls beyond the budget; hence
`BudgetHolds`. Proved: every safety and action property of `GatewayEffectSafety` and the
refinements of `LogicalCommand` and `DeviceEffect`; and `RetryOnlyWhenInDoubt` and
`CancelledStaysQuiet`, which no run checks by themselves since the refinements imply
them.

*Mission.* `MissionInv` lists the states a mission can be in; `CancelInv` says where
a cancelled mission can be and that it has no optional effect left to send;
`EffectInv` that a recorded outcome is the one of a call the gateway received;
`ExecutionInv` that an execution ended as `observed` exactly with all milestones
completed. `RecordedUnlockHasRelock` is needed by `CancelledIsSettled`: a completed
unlock makes the cancellation wait for the relock. `JobsInv` ties jobs to time: the
deadline's job is there until the deadline has passed, and longer where the mission
observes without a lost response; from it follows `MissionIsDriven`, the safety half of
`ObservationIsVerified`. Proved: every safety and action property of
`MissionExecutionSafety`, and `CancelledStartsNothing`, `RecordedUnlockHasRelock` and
`LostResponseIsDriven`, which the checked ones imply. `LossAloneRevives` proves that
`CancelledNeverSucceeds`, which `MissionExecutionCancelled` violates, holds where no
response is lost: the finding has that one cause. The lemmas `Steps`, `CallbackMission`,
`ReconcileMission` and `CancelMoves` say what each handler does to the mission; each
part of the invariant then has one lemma with a step per action.

*Promise.* `StartedInv` says what is not there yet: no execution before the activation,
no pathway light or unlock before the arrival, no relock before the unlock, nothing
withdrawn before the cancellation. With it each handler is one step of `MissionPromise`
(a callback that completes the unlock is the one that makes the relock owed), and one
step or none of each `DeviceEffect`.

*Tool ledger.* `CallerOK` says what a caller that has claimed knows of the row,
`Distinct` that no two callers hold the same generation, `RowOK` that status, result,
runs and the row's generation agree and `AnswerOK` that an answer is the row's outcome. An
owner that lost its claim still executes: what keeps a write from running twice is
that its successor resolves instead of executing. `OwnerInv` says what the owner of a
claim that was taken over is at: it does not execute, and has its evidence when it
completes. So `OwnersAreHeard`: the database's check of that evidence, and the conflict
of receipts, turn away only callers that lost their claim.

*Outbox relay.* `BatchInv` says what a sweep knows of the rows in its batch;
`ClaimsInv` that a message's accepted jobs and the sweeps that may still publish it
are together at most its claims; `QuietInv` that without a fault no one else has a
batch's row. Proved: every safety and action property of the run, the refinement of
`MessageRelay`, and `JobsNeedClaims` (the jobs of a message are at most its delivery
attempts), which no run checks by itself.

*Caretaker.* `CallInv` says that a pending call is one a checkpoint reserved or
completed and that every call a tool has executed is among the run's counted calls;
`HostInv` that an activation in its loop has an active run, and none pending where it
decides; `PauseInv` where the mission can be while the run is paused for a clarification
or an approval. `AnswerIsHeard` is inductive with them. For the refinement of
`DurableRun`, `AnswerInv` adds that only a counted call is invoked or answered; every
accepted checkpoint is then one abstract step, by its kind (`CheckpointStep`), every
refused one a stutter or the loss of an answer (`QuietStep`), and each action is one of
these. Proved for every value of the budgets; `OpenCallIsKept` and
`MissionStaysInBudget` are proved too, and no run checks them by name since
`ImplementsRun` implies them.

The inductive invariants were checked by TLC on the instances above before they were
proved. Only model-checked: the liveness properties (`LeaseEventuallyFree`,
`DoubtIsSettled`, `ObservationIsVerified`, `CallIsAnswered`, `MessageIsRelayed`,
`CallIsRetained`, `TerminalMissionIsFinalized`), which need fairness and ENABLED, and
the violated ones.

## Plan

1. *Done:* mission lease, gateway effects, mission execution, with their abstract
   specifications (`FencedLog`, `LogicalCommand`) and safety proofs.
2. *Done:* the tool ledger and the outbox relay with theirs (`ToolCall`,
   `MessageRelay`), and the caretaker's runs, with safety proofs.
3. *Done:* the abstract specifications of what a mission promises (`MissionPromise`),
   of one effect (`DeviceEffect`, implemented by both modules that have it) and of a
   caretaker's record (`DurableRun`), with the refinements proved.
4. `ApprovalGate`: request, decide, expiry, plan supersession and protected versions
   against the activation; what is activated is what was approved.
5. When a run can be left wedged: the safety half of `CallIsRetained`, for which the
   places where an activation can be lost or refused have to be told apart.

## Not modelled

The simulator's callback queue, its retries and eviction belong to a test double of
the gateway; in `GatewayEffect` any callback may be missing, late or repeated, which
includes what the queue can do. Identity telemetry (arrivals, readings) checks order
and duplicates in one transaction under one row's lock; what an arrival does to the
mission is in `MissionExecution`. Starting and stopping a worker's parts in order, and
its health server, are process plumbing; what a stop in mid-job leaves is the crash of
the other modules. Human tasks are modelled as the clarification of `CaretakerRun`;
reviews have no sender.

Sessions, credentials and row-level tenancy are data checks with little
interleaving; context compilation, decision engines and knowledge are pure functions
over large data; the SmartThings connector, MCP server, web application and
observability are I/O. Formats, signatures and hashes are not modelled: a callback
is authentic, a plan hash identifies its plan. The hauler program has the same
execution shape as the homecoming program that `MissionExecution` models.
