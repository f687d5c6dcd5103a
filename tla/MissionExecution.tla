--------------------------- MODULE MissionExecution ---------------------------
(***************************************************************************)
(* One homecoming mission, from its plan to its end: the mission's state,  *)
(* the operation that activates the routine, the execution with its five   *)
(* milestones, the four device effects that complete them, the jobs that   *)
(* drive them, and the gateway that carries the effects out.               *)
(*                                                                         *)
(* Every handler is one serializable transaction and one action (the       *)
(* verification has two).  A handler that throws rolls back, and changes   *)
(* nothing but the queue, which delivers the job again until it gives up.  *)
(* How an effect is dispatched and polled is GatewayEffect: here its       *)
(* current dispatch is pending or sent, and a retry makes it pending again. *)
(***************************************************************************)
EXTENDS Naturals, FiniteSets

CONSTANTS ResponseMayBeLost,   \* the transport fault policy loses committed responses
          Doubtful             \* bound: the effects whose call may be left in doubt

ASSUME PolicyAssumption == ResponseMayBeLost \in BOOLEAN

VARIABLES
  mission,      \* [status, phase]
  approval,     \* of the plan: none, approved, lapsed (expired or stale), refused
  operation,    \* none, pending, committed, cancelled
  lost,         \* the operation has an attempt whose response was lost
  cancelled,    \* the mission has a cancellation record
  execution,    \* none, running, observed, failed
  overdue,      \* the execution's deadline has passed
  milestone,    \* by name: pending, completed, failed; an effect's outcome is its milestone's
  dispatch,     \* by effect, the current one: none (not materialized), pending, sent, cancelled
  called,       \* effects with an attempt: a call that may have reached the gateway
  verdict,      \* what a verification found and has not yet stored
  jobs,         \* messages in the outbox or the queue
  gateway       \* by effect, what the gateway made of it: none, completed, failed

record == <<mission, approval, operation, lost, cancelled, execution, milestone, dispatch,
            called>>
vars == <<record, overdue, verdict, jobs, gateway>>

Effect == {"preheat", "pathway_lighting", "unlock", "relock"}
Milestone == Effect \cup {"verified_arrival"}
Optional == Effect \ {"relock"}     \* policy cancel_if_pending; relock: mandatory_relock

ASSUME DoubtAssumption == Doubtful \subseteq Effect

Topic == {"operation.reconcile", "execution.deadline", "mission.verify"}

State(status, phase) == [status |-> status, phase |-> phase]

Planning      == State("running", "plan")
Validating    == State("running", "validate")
Approving     == State("waiting_for_user", "approve")
Executing     == State("running", "execute")
Reconciling   == State("running", "reconcile")
Observing     == State("waiting_for_system", "observe")
Verifying     == State("running", "verify")
Succeeded     == State("succeeded", "verify")
AskReconcile  == State("waiting_for_user", "reconcile")
AskVerify     == State("waiting_for_user", "verify")

TerminalStatus == {"succeeded", "failed", "cancelled"}

\* Mutant: a cancelled mission goes on observing.
StillObserving ==
  { <<Executing, "cancel_reconciliation_required", Reconciling>>,
    <<Reconciling, "cancel_reconciliation_required", Reconciling>>,
    <<Observing, "cancel_reconciliation_required", Observing>>,
    <<Reconciling, "cancel_reconciliation_completed", State("cancelled", "reconcile")>> }

CANCELLATION_TRANSITIONS ==
  { <<Executing, "cancel_reconciliation_required", Reconciling>>,
    <<Reconciling, "cancel_reconciliation_required", Reconciling>>,
    <<Observing, "cancel_reconciliation_required", Reconciling>>,
    <<Reconciling, "cancel_reconciliation_completed", State("cancelled", "reconcile")>> }

\* The transitions whose events the running system sends, from `plan' on.  (One
\* more, from `execute' back to `plan', always rolls back: ActivateLapsed.)
MISSION_TRANSITIONS ==
  CANCELLATION_TRANSITIONS \cup
  { <<Planning, "candidate_persisted", Validating>>,
    <<Validating, "validation_failed", Planning>>,
    <<Validating, "validation_passed", Approving>>,
    <<Approving, "approval_rejected", Planning>>,
    <<Approving, "approval_expired_or_stale", Planning>>,
    <<Approving, "approval_granted", Executing>>,
    <<Executing, "execution_committed", Observing>>,
    <<Executing, "execution_unknown", Reconciling>>,
    <<Reconciling, "reconcile_commit_found", Observing>>,
    <<Reconciling, "reconcile_budget_exhausted", AskReconcile>>,
    <<Observing, "evidence_arrived", Verifying>>,
    <<Observing, "observation_deadline_expired", Verifying>>,
    <<Verifying, "verification_passed", Succeeded>>,
    <<Verifying, "intervention_required", AskVerify>> }

PlanningEvents == {"candidate_persisted", "validation_failed", "validation_passed",
                   "approval_rejected", "approval_expired_or_stale"}

\* resolveMissionTransition: an event that is not valid from here throws.
Transition(event) ==
  IF event = "cancel_requested"
  THEN /\ mission.status \notin TerminalStatus
       /\ mission' = [mission EXCEPT !.status = "cancelled"]
  ELSE \E t \in MISSION_TRANSITIONS :
         t[1] = mission /\ t[2] = event /\ mission' = t[3]

Init == /\ mission = Planning
        /\ approval = "none"
        /\ operation = "none"
        /\ lost = FALSE
        /\ cancelled = FALSE
        /\ execution = "none"
        /\ overdue = FALSE
        /\ milestone = [m \in Milestone |-> "pending"]
        /\ dispatch = [e \in Effect |-> "none"]
        /\ called = {}
        /\ verdict = "none"
        /\ jobs = {}
        /\ gateway = [e \in Effect |-> "none"]

\* A handler of job j ended, or threw until the queue gave up; or its worker
\* died before the queue knew, and it comes again.
Consume(j, more) == jobs' \in {(jobs \ {j}) \cup more, jobs \cup more}

-----------------------------------------------------------------------------
\* Plan, approve, activate.

Plan(event) ==
  /\ Transition(event)
  /\ UNCHANGED <<called, approval, operation, lost, cancelled, execution, overdue, milestone, dispatch,
                 verdict, jobs, gateway>>

ApprovalGranted ==
  /\ Transition("approval_granted")
  /\ approval' = "approved"
  /\ operation' = "pending"
  /\ UNCHANGED <<called, lost, cancelled, execution, overdue, milestone, dispatch, verdict, jobs, gateway>>

\* It expires, or a protected routine changes.
ApprovalLapses ==
  /\ approval = "approved" /\ operation = "pending"
  /\ approval' = "lapsed"
  /\ UNCHANGED <<called, mission, operation, lost, cancelled, execution, overdue, milestone, dispatch,
                 verdict, jobs, gateway>>

\* The activation invalidates the approval; the database lets no decided
\* approval change, and everything rolls back.
ActivateLapsed ==
  /\ approval = "lapsed" /\ operation = "pending"
  /\ approval' = "refused"
  /\ UNCHANGED <<called, mission, operation, lost, cancelled, execution, overdue, milestone, dispatch,
                 verdict, jobs, gateway>>

\* Mutants: a lost response is not followed up; a topic that has no handler.
NotFollowedUp(responseLost) == {"execution.deadline"}
UnknownTopic(responseLost) == {"operation.activated"}

\* What an activation leaves in the outbox.
Activated(responseLost) ==
  {"execution.deadline"} \cup IF responseLost THEN {"operation.reconcile"} ELSE {}

Activate(responseLost) ==
  /\ approval = "approved" /\ operation = "pending"
  /\ responseLost => ResponseMayBeLost
  /\ operation' = "committed"
  /\ lost' = responseLost
  /\ execution' = "running"
  /\ dispatch' = [dispatch EXCEPT !["preheat"] = "pending"]
  /\ jobs' = jobs \cup Activated(responseLost)
  /\ Transition(IF responseLost THEN "execution_unknown" ELSE "execution_committed")
  /\ UNCHANGED <<called, approval, cancelled, overdue, milestone, verdict, gateway>>

\* operation.reconcile: an attempt is lost only when its operation committed,
\* and stays unresolved; polls find the commit however often they come.
ReconcileOperation ==
  /\ "operation.reconcile" \in jobs /\ lost
  /\ Transition("reconcile_commit_found")
  /\ Consume("operation.reconcile", {})
  /\ UNCHANGED <<called, approval, operation, lost, cancelled, execution, overdue, milestone, dispatch,
                 verdict, gateway>>

\* The mission is not at the checkpoint of the job: it throws, and in the end is dropped.
GiveUp ==
  /\ \/ "operation.reconcile" \in jobs /\ mission # Reconciling
        /\ jobs' = jobs \ {"operation.reconcile"}
     \/ "mission.verify" \in jobs /\ mission # Verifying
        /\ jobs' = jobs \ {"mission.verify"}
  /\ UNCHANGED <<record, overdue, verdict, gateway>>

-----------------------------------------------------------------------------
\* Observe: arrival, callbacks, deadline.

\* Mutant: cancellation is not looked at.
RunningOnly == execution = "running"

\* Nothing new starts once the execution ended or the mission was cancelled.
MayStart == execution = "running" /\ ~cancelled

\* A verified arrival; a second one, with other evidence, throws.
Arrival ==
  /\ operation = "committed" /\ MayStart
  /\ milestone["verified_arrival"] = "pending"
  /\ milestone' = [milestone EXCEPT !["verified_arrival"] = "completed"]
  /\ dispatch' = [dispatch EXCEPT !["pathway_lighting"] = "pending", !["unlock"] = "pending"]
  /\ UNCHANGED <<called, mission, approval, operation, lost, cancelled, execution, overdue, verdict, jobs,
                 gateway>>

\* The call leaves the worker.  Its result may be in doubt.
Send(e) ==
  /\ dispatch[e] = "pending" /\ milestone[e] = "pending"
  /\ dispatch' = [dispatch EXCEPT ![e] = "sent"]
  /\ called' = called \cup {e}
  /\ jobs' \in {jobs, jobs \cup ({e} \cap Doubtful)}
  /\ UNCHANGED <<mission, approval, operation, lost, cancelled, execution, overdue, milestone,
                 verdict, gateway>>

\* The gateway executes a command once, however late it receives it.
GatewayActs(e) ==
  /\ e \in called /\ gateway[e] = "none"
  /\ \E outcome \in {"completed", "failed"} : gateway' = [gateway EXCEPT ![e] = outcome]
  /\ UNCHANGED <<record, overdue, verdict, jobs>>

Readiness(m) ==
  CASE \E x \in Milestone : m[x] = "failed" -> "known_failure"
    [] \A x \in Milestone : m[x] = "completed" -> "all_completed"
    [] OTHER -> IF overdue THEN "deadline_elapsed" ELSE "not_ready"

\* evaluateReadiness: an execution that ended stays as it is.
Ended(reason) ==
  IF execution = "running" /\ reason # "not_ready"
  THEN IF reason = "all_completed" THEN "observed" ELSE "failed"
  ELSE execution

Ready(reason) == reason # "not_ready" /\ mission = Observing

\* advanceMissionWhenReady.
AdvanceMission(reason) ==
  IF Ready(reason)
  THEN Transition(IF reason = "deadline_elapsed" THEN "observation_deadline_expired"
                                                 ELSE "evidence_arrived")
  ELSE UNCHANGED mission

\* Mutant: a deadline asks for no verification.
EvidenceOnly(reason) ==
  IF Ready(reason) /\ reason # "deadline_elapsed" THEN {"mission.verify"} ELSE {}

\* ... and its message.  A mission that is in `verify' already has one: the key
\* is the mission's version.
AskVerification(reason) == IF Ready(reason) THEN {"mission.verify"} ELSE {}

\* Mutant: an effect in doubt counts as stopped.
DispatchedIsSafe(m, d) == \A e \in Effect : d[e] # "pending"

\* Every effect has its outcome or was withdrawn before it was sent.
CancellationIsSafe(m, d) ==
  \A e \in Effect : m[e] # "pending" \/ d[e] \in {"none", "cancelled"}

\* Mutant: the execution may have ended.
AnyExecution == execution # "none"

\* advanceMilestone sets the execution to `running' again: if it ended, the
\* table's CHECK rejects that, and the callback with it.
AcceptsMilestones == execution = "running"

\* A terminal callback; the gateway delivers it again until it is accepted.
Callback(e) ==
  /\ gateway[e] # "none" /\ milestone[e] = "pending" /\ AcceptsMilestones
  /\ milestone' = [milestone EXCEPT ![e] = gateway[e]]
  /\ dispatch' = IF e = "unlock" /\ gateway[e] = "completed"
                 THEN [dispatch EXCEPT !["relock"] = "pending"] ELSE dispatch
  /\ execution' = Ended(Readiness(milestone'))
  /\ IF cancelled /\ mission = Reconciling /\ CancellationIsSafe(milestone', dispatch')
     THEN Transition("cancel_reconciliation_completed") /\ UNCHANGED jobs
     ELSE /\ AdvanceMission(Readiness(milestone'))
          /\ jobs' = jobs \cup AskVerification(Readiness(milestone'))
  /\ UNCHANGED <<called, approval, operation, lost, cancelled, overdue, verdict, gateway>>

DeadlinePasses ==
  /\ execution # "none" /\ ~overdue
  /\ overdue' = TRUE
  /\ UNCHANGED <<record, verdict, jobs, gateway>>

ExecutionDeadline ==
  /\ "execution.deadline" \in jobs /\ overdue
  /\ execution' = Ended(Readiness(milestone))
  /\ AdvanceMission(Readiness(milestone))
  /\ Consume("execution.deadline", AskVerification(Readiness(milestone)))
  /\ UNCHANGED <<called, approval, operation, lost, cancelled, overdue, milestone, dispatch, verdict,
                 gateway>>

-----------------------------------------------------------------------------
\* Verify: read everything, evaluate, and store if the mission did not change.

\* The assertions need the evidence of every milestone, and their timing.
Verifiable == \A x \in Milestone : milestone[x] = "completed"

VerificationRead ==
  /\ "mission.verify" \in jobs /\ mission = Verifying
  /\ verdict' \in IF Verifiable THEN {"passed", "failed"} ELSE {"failed"}
  /\ UNCHANGED <<record, overdue, jobs, gateway>>

VerificationStore ==
  /\ verdict # "none" /\ mission = Verifying
  /\ Transition(IF verdict = "passed" THEN "verification_passed" ELSE "intervention_required")
  /\ verdict' = "none"
  /\ Consume("mission.verify", {})
  /\ UNCHANGED <<called, approval, operation, lost, cancelled, execution, overdue, milestone, dispatch,
                 gateway>>

-----------------------------------------------------------------------------
\* Cancel.

\* Mutant: the relock is withdrawn with the rest.
PendingOnly(e) == milestone[e] = "pending" /\ dispatch[e] = "pending"

\* cancelPendingForMission: withdrawn, to be reconciled, or preserved.
Withdrawable(e) == e \in Optional /\ milestone[e] = "pending" /\ dispatch[e] = "pending"
InDoubt(e) == e \in Optional /\ milestone[e] = "pending" /\ dispatch[e] = "sent"

RequiresReconciliation == \E e \in Effect : dispatch[e] # "none" /\ ~Withdrawable(e)

Cancel ==
  /\ ~cancelled
  /\ Transition(IF RequiresReconciliation THEN "cancel_reconciliation_required"
                                          ELSE "cancel_requested")
  /\ cancelled' = TRUE
  /\ operation' = IF operation = "pending" THEN "cancelled" ELSE operation
  /\ dispatch' = [e \in Effect |-> IF Withdrawable(e) THEN "cancelled" ELSE dispatch[e]]
  /\ jobs' = jobs \cup {e \in Effect : InDoubt(e)}
  /\ UNCHANGED <<called, approval, lost, execution, overdue, milestone, verdict, gateway>>

\* gateway.effect.reconcile.  While the effect has no outcome it is retried
\* (not once its cancellation was requested), polled again, or its budget is
\* exhausted; when it has one, the cancellation may be complete.  A job whose
\* dispatch is not the current one ends in vain.
ReconcileEffect(e) ==
  /\ e \in jobs
  /\ \/ /\ dispatch[e] = "sent" /\ milestone[e] = "pending"
        /\ ~cancelled \/ e \notin Optional
        /\ dispatch' = [dispatch EXCEPT ![e] = "pending"]
        /\ UNCHANGED mission
        /\ jobs' = jobs \ {e}
     \/ /\ dispatch[e] = "sent" /\ milestone[e] = "pending"
        /\ IF mission = Reconciling THEN Transition("reconcile_budget_exhausted")
                                    ELSE UNCHANGED mission
        /\ UNCHANGED dispatch
        /\ Consume(e, {})
     \/ /\ dispatch[e] = "sent" /\ milestone[e] # "pending"
        /\ IF cancelled /\ mission = Reconciling /\ CancellationIsSafe(milestone, dispatch)
           THEN Transition("cancel_reconciliation_completed")
           ELSE UNCHANGED mission
        /\ UNCHANGED dispatch
        /\ Consume(e, {})
     \/ /\ UNCHANGED <<mission, dispatch>>
        /\ jobs' = jobs \ {e}
  /\ UNCHANGED <<called, approval, operation, lost, cancelled, execution, overdue, milestone,
                 verdict, gateway>>

-----------------------------------------------------------------------------
Next == \/ \E event \in PlanningEvents : Plan(event)
        \/ ApprovalGranted \/ ApprovalLapses \/ ActivateLapsed
        \/ \E responseLost \in BOOLEAN : Activate(responseLost)
        \/ ReconcileOperation \/ GiveUp
        \/ Arrival \/ DeadlinePasses \/ ExecutionDeadline
        \/ \E e \in Effect : Send(e) \/ GatewayActs(e) \/ Callback(e) \/ ReconcileEffect(e)
        \/ VerificationRead \/ VerificationStore
        \/ Cancel

Spec == Init /\ [][Next]_vars

\* Time passes, the queue delivers every job, a verification that found its
\* verdict stores it (or its job comes again), and the gateway delivers its callbacks until they are
\* accepted.  Nobody has to plan, approve, activate, arrive or cancel.
Fairness == /\ WF_vars(DeadlinePasses)
            /\ WF_vars(ReconcileOperation)
            /\ WF_vars(ExecutionDeadline)
            /\ WF_vars(verdict = "none" /\ VerificationRead)
            /\ WF_vars(VerificationStore)
            /\ \A e \in Effect : WF_vars(Callback(e))

FairSpec == Spec /\ Fairness

-----------------------------------------------------------------------------
\* Properties.

\* Type invariant.
TypeOK == /\ mission \in {t[3] : t \in MISSION_TRANSITIONS} \cup
                          [status : {"cancelled"}, phase : {t[1].phase : t \in MISSION_TRANSITIONS}]
          /\ approval \in {"none", "approved", "lapsed", "refused"}
          /\ operation \in {"none", "pending", "committed", "cancelled"}
          /\ lost \in BOOLEAN
          /\ cancelled \in BOOLEAN
          /\ execution \in {"none", "running", "observed", "failed"}
          /\ overdue \in BOOLEAN
          /\ milestone \in [Milestone -> {"pending", "completed", "failed"}]
          /\ dispatch \in [Effect -> {"none", "pending", "sent", "cancelled"}]
          /\ called \subseteq Effect
          /\ verdict \in {"none", "passed", "failed"}
          /\ jobs \subseteq Topic \cup Effect
          /\ gateway \in [Effect -> {"none", "completed", "failed"}]

\* A mission is verified only when its execution has ended, and succeeds only
\* with all five milestones completed: no callback, however late, reopens the
\* execution the verdict is about.
VerifiedWhenOver ==
  /\ mission.phase = "verify" => execution \in {"observed", "failed"}
  /\ mission.status = "succeeded" =>
       execution = "observed" /\ \A x \in Milestone : milestone[x] = "completed"

\* After the cancellation nothing is activated, and no optional effect is
\* materialized or leaves the worker: not by an arrival, a callback or a job
\* that was already on its way.
CancelledStartsNothing ==
  [][cancelled => /\ operation' = operation
                  /\ \A e \in Optional : dispatch'[e] = dispatch[e]]_vars

\* A cancelled mission leaves nothing open behind it but the calls it withdrew:
\* no other optional effect is still to be sent or to come from the gateway, and
\* a door it unlocked it also had locked again, or the failure to do so is on
\* record.
CancelledIsSettled ==
  mission.status = "cancelled" =>
    /\ \A e \in Optional : dispatch[e] \in {"pending", "sent"} => milestone[e] # "pending"
    /\ gateway["unlock"] = "completed" /\ dispatch["unlock"] # "cancelled" =>
         milestone["relock"] # "pending"

\* A recorded unlock has its relock, which no cancellation withdraws.
RecordedUnlockHasRelock ==
  milestone["unlock"] = "completed" => dispatch["relock"] \in {"pending", "sent"}

\* A mission that reconciles a lost response has a job that will find the commit.
LostResponseIsDriven ==
  mission = Reconciling /\ ~cancelled => "operation.reconcile" \in jobs

\* A mission that waits for its devices, or for its verdict, has the job that
\* takes it further, whatever jobs were handled before; so has one that
\* reconciles a lost response.  (Having reconciled it past the deadline, it may
\* observe without one.)
MissionIsDriven ==
  /\ LostResponseIsDriven
  /\ mission = Observing /\ ~(lost /\ overdue) => "execution.deadline" \in jobs
  /\ mission = Verifying => "mission.verify" \in jobs

\* Without a lost response a cancelled mission is only ever reconciled, handed
\* to its user or ended as cancelled.
CancelledIsNotResumed ==
  cancelled /\ ~lost => mission.status = "cancelled" \/ mission \in {Reconciling, AskReconcile}

Device(e) == INSTANCE DeviceEffect WITH
  dispatch <- dispatch[e], called <- e \in called, outcome <- milestone[e],
  stopped <- cancelled /\ e \in Optional

\* Each effect, whatever the others, the execution and the mission do, is one
\* that GatewayEffect implements.
ImplementsDevices ==
  /\ \A e \in Effect : Device(e)!Init
  /\ [][\A e \in Effect : [Device(e)!Next]_(Device(e)!vars)]_vars

\* To the household the mission is open, asks its user, succeeded or was
\* cancelled, and owes the effects it materialized, did not withdraw and has no
\* outcome of.
Ending == CASE mission.status = "succeeded" -> "succeeded"
            [] mission.status = "cancelled" -> "cancelled"
            [] mission \in {AskReconcile, AskVerify} -> "asking"
            [] OTHER -> "open"
Owed == {e \in Effect : dispatch[e] \in {"pending", "sent"} /\ milestone[e] = "pending"}

Promise == INSTANCE MissionPromise
             WITH Unlock <- "unlock", Relock <- "relock",
                  ending <- Ending, stopped <- cancelled, owed <- Owed, result <- milestone
ImplementsPromise == Promise!Spec

\* A mission that observes gets its verdict, by its evidence or by its deadline,
\* unless it is cancelled.  (A lost response may outlast the deadline.)
ObservationIsVerified ==
  mission = Observing /\ ~lost ~> cancelled \/ mission \in {Succeeded, AskVerify}

\* BUILD_SPEC 8.6: after a cancellation further actions are stopped.
CancelledNeverSucceeds == cancelled => mission.status # "succeeded"

\* BUILD_SPEC 8.6: after gateway dispatch, a cancellation reconciles the
\* dispatched effect: the mission does not end before its outcome is recorded.
DispatchedIsReconciled ==
  mission.status = "cancelled" => \A e \in called : milestone[e] # "pending"

\* BUILD_SPEC 8.4: an approval that expires, or whose protected state is stale,
\* requires a new revision.
LapsedApprovalIsRevised == approval = "refused" ~> mission.phase = "plan" \/ cancelled

\* BUILD_SPEC 4.4: after an unlock the locked state is requested.
UnlockIsRelocked == gateway["unlock"] = "completed" ~> dispatch["relock"] # "none"
=============================================================================
