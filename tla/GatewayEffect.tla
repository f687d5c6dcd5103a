---------------------------- MODULE GatewayEffect ----------------------------
(***************************************************************************)
(* One gateway command of a mission: the database aggregate (effect,       *)
(* dispatch generations, attempts, reconciliation polls, callbacks), the   *)
(* jobs that refer to it, the workers that execute them, the gateway that  *)
(* receives the calls, and the callbacks it sends back.                    *)
(*                                                                         *)
(* Every transaction locks the mission and the aggregate and is            *)
(* serializable, so it is one action.  A worker calls the gateway between  *)
(* two transactions, where it can die.  A job is delivered at least once:  *)
(* it stays in `jobs' while a handler runs, and may stay after it ended.   *)
(* `jobs' holds a message from the transaction that writes it to the       *)
(* outbox until the queue has no more of it.                               *)
(***************************************************************************)
EXTENDS Naturals, Sequences

CONSTANTS MaximumAttempts,   \* reconciliation polls of one command
          ProgressStatuses,  \* nonterminal callbacks the gateway sends
          MaxRedeliveries,   \* bound: jobs delivered again after their handler ended
          MaxRestarts        \* bound: restarts of the gateway

ASSUME BudgetAssumption == MaximumAttempts \in Nat \ {0}
ASSUME ProgressAssumption == ProgressStatuses \subseteq {"acknowledged", "executing"}
ASSUME BoundAssumption == MaxRedeliveries \in Nat /\ MaxRestarts \in Nat

VARIABLES
  policy,       \* the effect's cancellation policy
  gate,         \* whether a claim finds it due, and its target safe to command
  cancelled,    \* the mission has a cancellation record
  effect,       \* the effect row: [status, cancellationRequested]
  dispatches,   \* by generation: [status, attempt], the latest is the current one
  attempts,     \* in order: [generation, status, worker, answer, request]
  polls,        \* reconciliation polls recorded
  exhausted,    \* one of them found the budget exhausted
  stored,       \* callbacks stored for the command
  jobs,         \* messages and jobs: [topic, generation, key]
  redeliveries,
  gateway,      \* [incarnation, result]: its record of the command
  wire          \* callbacks the gateway has signed and may deliver, again and again

aggregate == <<effect, dispatches, attempts, polls, exhausted, stored>>
queue == <<jobs, redeliveries>>
outside == <<gateway, wire>>
vars == <<policy, gate, cancelled, aggregate, queue, outside>>

Terminal == {"completed", "failed"}
EffectStatus == {"pending", "acknowledged", "executing"} \cup Terminal

\* A dispatch or an attempt that failed carries its `retryable' flag: failed is
\* final, offline is retryable.
Result == {"accepted", "unknown", "failed", "offline"}
Retryable == {"unknown", "offline"}
DispatchStatus == {"pending", "dispatching", "cancelled"} \cup Result

Callback == [status : ProgressStatuses \cup Terminal, payload : Nat]

\* calling: between the two transactions; answered: about to finalize.
Attempt == [generation : Nat \ {0}, status : {"pending"} \cup Result,
            worker : {"calling", "answered", "over", "dead"},
            answer : Result \cup {"none"}, request : {"sent", "received"}]

Job == [topic : {"dispatch", "reconcile"}, generation : Nat \ {0}, key : Nat]
DispatchJob(g) == [topic |-> "dispatch", generation |-> g, key |-> 0]

\* Mutant: a message numbered from one too few.
KeyedBefore(g, k) == [topic |-> "reconcile", generation |-> g, key |-> k - 1]

ReconcileJob(g, k) == [topic |-> "reconcile", generation |-> g, key |-> k]

\* The key of a cancellation's message; no waiting poll has this number.
CancelKey == MaximumAttempts

Init == /\ policy \in {"optional", "mandatory_relock"}
        /\ gate \in {"not_due", "open"}
        /\ cancelled = FALSE
        /\ effect = [status |-> "pending", cancellationRequested |-> FALSE]
        /\ dispatches = <<[status |-> "pending", attempt |-> 0]>>
        /\ attempts = <<>>
        /\ polls = 0
        /\ exhausted = FALSE
        /\ stored = {}
        /\ jobs = {DispatchJob(1)}
        /\ redeliveries = 0
        /\ gateway = [incarnation |-> 1, result |-> "none"]
        /\ wire = {}

-----------------------------------------------------------------------------
generation == Len(dispatches)
dispatch == dispatches[generation]

EffectOpen == effect.status \notin Terminal

\* The mission was cancelled, and this effect does not survive that.
Withdrawn == cancelled /\ policy # "mandatory_relock"

\* The current dispatch gets a status and an attempt; attempt a becomes the given row.
SetDispatch(s, a) ==
  dispatches' = [dispatches EXCEPT ![generation] = [status |-> s, attempt |-> a]]
SetAttempt(a, row) == attempts' = [attempts EXCEPT ![a] = row]

\* A handler of job j ended and enqueued `more': the queue drops j, or the
\* worker died before the queue knew, and it comes again.
Acknowledge(j, more) ==
  \/ /\ jobs' = (jobs \ {j}) \cup more
     /\ UNCHANGED redeliveries
  \/ /\ redeliveries < MaxRedeliveries
     /\ redeliveries' = redeliveries + 1
     /\ jobs' = jobs \cup more

-----------------------------------------------------------------------------
\* gateway.dispatch: claim, call, finalize.

\* Mutant: a claim that does not look at the dispatch row.
ClaimAnyState(g) == g = generation /\ EffectOpen /\ gate = "open"

\* Generation g is the one waiting to be dispatched, and it is due.
DuePending(g) == /\ g = generation
                 /\ EffectOpen
                 /\ dispatch.status = "pending"
                 /\ gate # "not_due"

Claimable(g) == DuePending(g) /\ ~Withdrawn /\ gate # "unsafe"

NewAttempt(g) == [generation |-> g, status |-> "pending", worker |-> "calling",
                  answer |-> "none", request |-> "sent"]

Claim(j) ==
  /\ j \in jobs /\ j.topic = "dispatch" /\ Claimable(j.generation)
  /\ attempts' = Append(attempts, NewAttempt(j.generation))
  /\ SetDispatch("dispatching", Len(attempts) + 1)
  /\ UNCHANGED <<policy, gate, cancelled, effect, polls, exhausted, stored, queue, outside>>

\* The handler ends without a call, whatever the reason.
NotClaimed(j) ==
  /\ j \in jobs /\ j.topic = "dispatch" /\ ~Claimable(j.generation)
  /\ IF DuePending(j.generation) /\ Withdrawn THEN SetDispatch("cancelled", 0)
                                              ELSE UNCHANGED dispatches
  /\ Acknowledge(j, {})
  /\ UNCHANGED <<policy, gate, cancelled, effect, attempts, polls, exhausted, stored, outside>>

\* No answer within the timeout, or the connection failed.
CallTimeout(a) ==
  /\ attempts[a].worker = "calling"
  /\ SetAttempt(a, [attempts[a] EXCEPT !.worker = "answered", !.answer = "unknown"])
  /\ UNCHANGED <<policy, gate, cancelled, effect, dispatches, polls, exhausted, stored, queue,
                 outside>>

\* Mutant: a lost response is taken for a definite failure, and not followed up.
FollowUpFailuresOnly(r) == r = "offline"

\* An answer that leaves the effect in doubt is followed up.
NeedsReconciliation(r) == r \in Retryable

Finalize(a) ==
  LET at == attempts[a]
      current == /\ at.generation = generation
                 /\ dispatch.status = "dispatching" /\ dispatch.attempt = a
                 /\ at.status = "pending"
  IN
  /\ at.worker = "answered"
  /\ SetAttempt(a, [at EXCEPT !.worker = "over", !.status = IF current THEN at.answer ELSE @])
  /\ IF current THEN SetDispatch(at.answer, a) ELSE UNCHANGED dispatches
  /\ Acknowledge(DispatchJob(at.generation),
                 IF current /\ NeedsReconciliation(at.answer)
                 THEN {ReconcileJob(at.generation, 0)} ELSE {})
  /\ UNCHANGED <<policy, gate, cancelled, effect, polls, exhausted, stored, outside>>

\* The worker dies between its two transactions.  The job comes again.
WorkerCrash(a) ==
  /\ attempts[a].worker \in {"calling", "answered"}
  /\ SetAttempt(a, [attempts[a] EXCEPT !.worker = "dead"])
  /\ UNCHANGED <<policy, gate, cancelled, effect, dispatches, polls, exhausted, stored, queue,
                 outside>>

-----------------------------------------------------------------------------
\* gateway.effect.reconcile.

\* Mutants: a poll that retries whatever has no outcome yet, and one that ignores
\* the cancellation.
RetryAnything(seq) == seq < MaximumAttempts
RetryAfterCancel(seq) == dispatch.status \in Retryable /\ seq < MaximumAttempts

RetryAuthorized(seq) == /\ dispatch.status \in Retryable
                        /\ ~effect.cancellationRequested
                        /\ seq < MaximumAttempts

\* Mutant: only the poll that spends the last of the budget ends its chain.
ExhaustedOnce(seq) ==
  IF ~EffectOpen \/ dispatch.status = "cancelled" THEN "terminal_found"
  ELSE IF RetryAuthorized(seq) THEN "retry_authorized"
  ELSE IF seq = MaximumAttempts THEN "budget_exhausted" ELSE "waiting"

\* The poll's resolution; polls are numbered from 1.
Resolution(seq) ==
  IF ~EffectOpen \/ dispatch.status = "cancelled" THEN "terminal_found"
  ELSE IF RetryAuthorized(seq) THEN "retry_authorized"
  ELSE IF seq >= MaximumAttempts THEN "budget_exhausted" ELSE "waiting"

\* What the poll leaves in the outbox.
FollowUp(resolution, seq) ==
  CASE resolution = "retry_authorized" -> {DispatchJob(generation + 1)}
    [] resolution = "waiting" -> {ReconcileJob(generation, seq)}
    [] OTHER -> {}

Reconcile(j) ==
  LET seq == polls + 1
      resolution == Resolution(seq)
  IN
  /\ j \in jobs /\ j.topic = "reconcile" /\ j.generation = generation
  /\ polls' = seq
  /\ exhausted' = (exhausted \/ resolution = "budget_exhausted")
  /\ dispatches' = IF resolution = "retry_authorized"
                   THEN Append(dispatches, [status |-> "pending", attempt |-> 0])
                   ELSE dispatches
  /\ Acknowledge(j, FollowUp(resolution, seq))
  /\ UNCHANGED <<policy, gate, cancelled, effect, attempts, stored, outside>>

\* The aggregate has moved on: NotFoundError, until the queue gives the job up.
ReconcileStale(j) ==
  /\ j \in jobs /\ j.topic = "reconcile" /\ j.generation # generation
  /\ jobs' = jobs \ {j}
  /\ UNCHANGED <<policy, gate, cancelled, aggregate, redeliveries, outside>>

-----------------------------------------------------------------------------
\* Callbacks.

\* A pending effect precedes every callback; a terminal one comes last.
Rank == [pending |-> 0, acknowledged |-> 1, executing |-> 2, completed |-> 3, failed |-> 3]

\* Mutants: a terminal state may be contradicted; the order is ignored.
AllowContradiction(s) == Rank[s] >= Rank[effect.status]
AnyOrder(s) == EffectOpen

\* The transition is an advance: neither a replay, a regression nor a
\* contradiction of a terminal state.
Advances(s) == EffectOpen /\ Rank[s] > Rank[effect.status]

\* A stored callback of this identity, nonce or status: a duplicate or a conflict.
Reused(c) == \E old \in stored : old.status = c.status

ApplyCallback(c) ==
  /\ c \in wire /\ ~Reused(c) /\ Advances(c.status)
  /\ stored' = stored \cup {c}
  /\ effect' = [effect EXCEPT !.status = c.status]
  /\ UNCHANGED <<policy, gate, cancelled, dispatches, attempts, polls, exhausted, queue, outside>>

-----------------------------------------------------------------------------
\* Cancellation of the mission, as far as it touches this command.

CancelMission ==
  LET stoppable == policy # "mandatory_relock" /\ EffectOpen IN
  /\ ~cancelled
  /\ cancelled' = TRUE
  /\ \/ /\ ~stoppable
        /\ UNCHANGED <<effect, dispatches, jobs>>
     \/ \* the message is withdrawn too, unless the queue already has it
        /\ stoppable /\ dispatch.status = "pending"
        /\ SetDispatch("cancelled", 0)
        /\ jobs' \in {jobs, jobs \ {DispatchJob(generation)}}
        /\ UNCHANGED effect
     \/ /\ stoppable /\ dispatch.status # "pending"
        /\ effect' = [effect EXCEPT !.cancellationRequested = TRUE]
        /\ jobs' = jobs \cup {ReconcileJob(generation, CancelKey)}
        /\ UNCHANGED dispatches
  /\ UNCHANGED <<policy, gate, attempts, polls, exhausted, stored, redeliveries, outside>>

-----------------------------------------------------------------------------
\* The gateway and the world.

\* What a new command can come to: the result answered, the callbacks sent.
Outcome == [result : {"accepted", "unknown"}, callbacks : {ProgressStatuses \cup {"completed"}}]
             \cup [result : {"offline", "failed"}, callbacks : {{"failed"}}]
             \cup [result : {"failed"}, callbacks : {{}}]

\* The gateway executes a command once, and answers a repeated one from its
\* record.  The answer may come too late, or be unreadable (a final failure).
GatewayHandle(a) ==
  /\ attempts[a].request = "sent"
  /\ \E o \in Outcome :
       LET new == gateway.result = "none"
           result == IF new THEN o.result ELSE gateway.result
       IN
       /\ gateway' = [gateway EXCEPT !.result = result]
       /\ wire' = IF new THEN wire \cup [status : o.callbacks, payload : {gateway.incarnation}]
                         ELSE wire
       /\ \/ /\ attempts[a].worker = "calling"
             /\ \E answer \in {result, "failed"} :
                  SetAttempt(a, [attempts[a] EXCEPT !.request = "received",
                                                    !.worker = "answered", !.answer = answer])
          \/ SetAttempt(a, [attempts[a] EXCEPT !.request = "received"])
  /\ UNCHANGED <<policy, gate, cancelled, effect, dispatches, polls, exhausted, stored, queue>>

\* The gateway keeps its record of commands in memory.
GatewayRestart ==
  /\ gateway.incarnation <= MaxRestarts
  /\ gateway' = [incarnation |-> gateway.incarnation + 1, result |-> "none"]
  /\ UNCHANGED <<policy, gate, cancelled, aggregate, queue, wire>>

\* The effect comes due; its device, capability or identity tag changes.
GateChange ==
  /\ gate' \in IF gate = "open" THEN {"unsafe"} ELSE {"open"}
  /\ UNCHANGED <<policy, cancelled, aggregate, queue, outside>>

-----------------------------------------------------------------------------
HandleJob(j) == Claim(j) \/ NotClaimed(j) \/ Reconcile(j) \/ ReconcileStale(j)

Next == \/ \E j \in jobs : HandleJob(j)
        \/ \E a \in 1 .. Len(attempts) :
             CallTimeout(a) \/ Finalize(a) \/ WorkerCrash(a) \/ GatewayHandle(a)
        \/ \E c \in wire : ApplyCallback(c)
        \/ CancelMission \/ GatewayRestart \/ GateChange

Spec == Init /\ [][Next]_vars

\* The queue delivers every job, and a worker that is not dead goes on.  Nothing
\* obliges a worker to die, the gateway to answer or call back, a mission to be
\* cancelled or a device to be safe again.
Fairness == /\ \A g \in 1 .. MaximumAttempts : WF_vars(HandleJob(DispatchJob(g)))
            /\ \A g \in 1 .. MaximumAttempts : \A k \in 0 .. MaximumAttempts :
                 WF_vars(HandleJob(ReconcileJob(g, k)))
            /\ \A a \in 1 .. MaximumAttempts :
                 WF_vars(a <= Len(attempts) /\ (CallTimeout(a) \/ Finalize(a)))

FairSpec == Spec /\ Fairness

-----------------------------------------------------------------------------
\* Properties.

\* Type invariant.
TypeOK == /\ policy \in {"optional", "mandatory_relock"}
          /\ gate \in {"not_due", "open", "unsafe"}
          /\ cancelled \in BOOLEAN
          /\ effect \in [status : EffectStatus, cancellationRequested : BOOLEAN]
          /\ dispatches \in Seq([status : DispatchStatus, attempt : Nat])
          /\ Len(dispatches) > 0
          /\ attempts \in Seq(Attempt)
          /\ polls \in Nat
          /\ exhausted \in BOOLEAN
          /\ stored \subseteq Callback
          /\ jobs \subseteq Job
          /\ redeliveries \in Nat
          /\ gateway \in [incarnation : Nat, result : Result \cup {"none"}]
          /\ wire \subseteq Callback

\* However often a dispatch job is delivered, alone or to two workers at once,
\* before or after a crash, one generation calls the gateway once.
OneCallPerGeneration ==
  \A a, b \in 1 .. Len(attempts) : attempts[a].generation = attempts[b].generation => a = b

\* A later generation exists only where the earlier ones ended in doubt: no two
\* are ever under way, and an accepted or refused call is never repeated.
RetryOnlyWhenInDoubt ==
  \A g \in 1 .. Len(dispatches) - 1 :
    /\ dispatches[g].status \in Retryable
    /\ attempts[dispatches[g].attempt].worker = "over"

\* Several chains of polls may spend one budget: the command's own, a
\* cancellation's, and one for each job that is delivered again.  The command
\* calls the gateway at most MaximumAttempts times, and each of the other chains
\* polls at most once beyond the budget: the poll that ends it.
BudgetHolds == /\ generation <= MaximumAttempts /\ generation <= polls + 1
               /\ polls <= MaximumAttempts + redeliveries + (IF cancelled THEN 1 ELSE 0)

\* While the current call's result is in doubt, the effect has no outcome and
\* the budget is not exhausted, some message will look at it again.
DoubtIsFollowedUp ==
  dispatch.status \in Retryable /\ EffectOpen /\ ~exhausted =>
    \E j \in jobs : j.topic = "reconcile" /\ j.generation = generation

\* Callbacks may come in any order, twice, or from a gateway that lost its
\* memory: the effect is the furthest of the stored ones, of which one at most
\* is terminal.
EffectFollowsCallbacks ==
  /\ effect.status # "pending" =>
       \E c \in stored : c.status = effect.status
  /\ \A c \in stored : /\ effect.status # "pending"
                       /\ Rank[c.status] <= Rank[effect.status]
  /\ \A c, d \in stored : c.status \in Terminal /\ d.status \in Terminal => c = d

\* An effect's outcome never changes, and no call begins or is authorized after it.
OutcomeIsFinal ==
  [][~EffectOpen => /\ effect'.status = effect.status
                    /\ Len(attempts') = Len(attempts)
                    /\ Len(dispatches') = Len(dispatches)]_vars

\* After the cancellation of its mission an optional effect is not dispatched
\* again: neither a job already in the queue nor a poll for an earlier call
\* gets past it.
CancelledStaysQuiet ==
  [][Withdrawn => /\ Len(attempts') = Len(attempts)
                  /\ Len(dispatches') = Len(dispatches)]_vars

\* The record refines a logical command.
Command == INSTANCE LogicalCommand
             WITH Outcome <- Terminal, Open <- "open", Budget <- MaximumAttempts,
                  authorized <- generation, called <- Len(attempts),
                  doubt <- dispatch.status \in Retryable,
                  outcome <- IF EffectOpen THEN "open" ELSE effect.status,
                  withdrawn <- Withdrawn
ImplementsCommand == Command!Spec

\* The mission's view of the same record: the device effect that MissionExecution
\* works with.  A dispatch that was claimed, whatever came of it, is sent.
SentOrNot == IF dispatch.status \in {"pending", "cancelled"} THEN dispatch.status ELSE "sent"
Device == INSTANCE DeviceEffect
            WITH dispatch <- SentOrNot, called <- Len(attempts) > 0,
                 outcome <- IF EffectOpen THEN "pending" ELSE effect.status,
                 stopped <- Withdrawn
ImplementsDevice == Device!Spec

\* A call whose result is in doubt is retried, resolved by a callback, or handed
\* to a person when the budget is exhausted.
DoubtIsSettled ==
  \A g \in 1 .. MaximumAttempts :
    g <= generation /\ dispatches[g].status \in Retryable
      ~> ~EffectOpen \/ generation > g \/ exhausted

\* As the decision record states it: a lost response (here, its worker died)
\* remains in doubt until a callback or reconciliation resolves it.
ResponseLost(g) ==
  \E a \in 1 .. Len(attempts) : attempts[a].generation = g /\ attempts[a].worker = "dead"
LostResponseIsResolved ==
  \A g \in 1 .. MaximumAttempts :
    ResponseLost(g) ~> ~EffectOpen \/ generation > g \/ exhausted
=============================================================================
