------------------------ MODULE MissionExecutionProofs ------------------------
(***************************************************************************)
(* Proofs about MissionExecution, whichever effects may be left in doubt   *)
(* and whether or not responses are lost.                                  *)
(*                                                                         *)
(* The properties relate the mission's state to what was recorded of its   *)
(* effects.  The inductive invariant IInv adds where a cancelled mission   *)
(* can be and what it left to do (CancelInv), that a recorded outcome is   *)
(* the one of a call the gateway received (EffectInv), and what the end of *)
(* the execution says of the milestones (ExecutionInv).                    *)
(***************************************************************************)
EXTENDS MissionExecution, TLAPS

Phase == {"plan", "validate", "approve", "execute", "reconcile", "observe", "verify"}
Early == {Planning, Validating, Approving}
Late == {Reconciling, AskReconcile, Observing, Verifying, Succeeded, AskVerify}
Ends == [status : {"cancelled"}, phase : Phase]

AllCompleted == \A x \in Milestone : milestone[x] = "completed"

MissionInv == mission \in Early \cup {Executing} \cup Late \cup Ends

CancelInv ==
  /\ mission \in Ends => cancelled
  /\ cancelled => operation # "pending" /\ mission \in Late \cup Ends
  /\ cancelled => \A e \in Optional : dispatch[e] = "pending" => milestone[e] # "pending"

EffectInv ==
  /\ \A e \in Effect : gateway[e] # "none" => e \in called
  /\ \A e \in Effect : milestone[e] # "pending" => milestone[e] = gateway[e]
  /\ \A e \in Effect : e \in called => dispatch[e] # "none"
  /\ dispatch["relock"] # "cancelled"

ExecutionInv ==
  /\ execution = "none" => /\ ~lost /\ mission \notin Late
                           /\ \A e \in Effect : dispatch[e] = "none"
  /\ execution = "observed" => AllCompleted
  /\ execution = "failed" => ~AllCompleted
  /\ verdict = "passed" => AllCompleted

IInv == /\ TypeOK /\ MissionInv /\ CancelInv /\ EffectInv /\ ExecutionInv
        /\ VerifiedWhenOver /\ RecordedUnlockHasRelock /\ CancelledIsSettled
        /\ LostResponseIsDriven /\ CancelledIsNotResumed

-----------------------------------------------------------------------------
\* What each event does to the mission.
LEMMA Steps ==
  ASSUME NEW event, Transition(event)
  PROVE  /\ event \in PlanningEvents => mission \in Early /\ mission' \in Early
         /\ event = "approval_granted" => mission = Approving /\ mission' = Executing
         /\ event = "execution_committed" => mission = Executing /\ mission' = Observing
         /\ event = "execution_unknown" => mission = Executing /\ mission' = Reconciling
         /\ event = "reconcile_commit_found" => mission = Reconciling /\ mission' = Observing
         /\ event = "reconcile_budget_exhausted" =>
              mission = Reconciling /\ mission' = AskReconcile
         /\ event \in {"evidence_arrived", "observation_deadline_expired"} =>
              mission = Observing /\ mission' = Verifying
         /\ event = "verification_passed" => mission = Verifying /\ mission' = Succeeded
         /\ event = "intervention_required" => mission = Verifying /\ mission' = AskVerify
         /\ event = "cancel_reconciliation_required" =>
              mission \in {Executing, Reconciling, Observing} /\ mission' = Reconciling
         /\ event = "cancel_reconciliation_completed" =>
              mission = Reconciling /\ mission' = State("cancelled", "reconcile")
         /\ event = "cancel_requested" =>
              mission.status \notin TerminalStatus /\ mission' = [mission EXCEPT !.status = "cancelled"]
<1>1. CASE event = "cancel_requested"
  BY <1>1 DEF Transition, PlanningEvents
<1>2. CASE event # "cancel_requested"
  <2>1. PICK t \in MISSION_TRANSITIONS : t[1] = mission /\ t[2] = event /\ mission' = t[3]
    BY <1>2 DEF Transition
  <2>2. QED BY <1>2, <2>1
            DEF MISSION_TRANSITIONS, CANCELLATION_TRANSITIONS, PlanningEvents, Early
<1>3. QED BY <1>1, <1>2

\* The mission's states are different from each other.
LEMMA States ==
  /\ \A s \in Early \cup {Executing} : s.phase \in {"plan", "validate", "approve", "execute"}
  /\ \A s \in Early \cup {Executing} \cup Late : s.phase \in Phase /\ s.status # "cancelled"
  /\ \A s \in {Reconciling, AskReconcile} : s.phase = "reconcile"
  /\ Observing.phase = "observe"
  /\ \A s \in {Verifying, Succeeded, AskVerify} : s.phase = "verify"
  /\ \A s \in Early \cup {Executing} \cup Late : s.status = "succeeded" <=> s = Succeeded
  /\ Reconciling # AskReconcile /\ Reconciling.status = "running"
  /\ \A s \in Ends : s.status = "cancelled" /\ s.phase \in Phase
  /\ State("cancelled", "reconcile") \in Ends
BY DEF Early, Late, Ends, Phase, State, Planning, Validating, Approving, Executing, Reconciling,
       Observing, Verifying, Succeeded, AskReconcile, AskVerify

\* A cancelled mission keeps its phase.
LEMMA CancelledState ==
  ASSUME MissionInv, mission.status \notin TerminalStatus
  PROVE  /\ [mission EXCEPT !.status = "cancelled"] \in Ends
         /\ [mission EXCEPT !.status = "cancelled"].phase = mission.phase
BY DEF MissionInv, TerminalStatus, Early, Late, Ends, Phase, State, Planning, Validating, Approving,
       Executing, Reconciling, Observing, Verifying, Succeeded, AskReconcile, AskVerify

\* The states that MissionInv lists are those of the type invariant.
LEMMA MissionType ==
  Early \cup {Executing} \cup Late \cup Ends \subseteq
    {t[3] : t \in MISSION_TRANSITIONS} \cup
    [status : {"cancelled"}, phase : {t[1].phase : t \in MISSION_TRANSITIONS}]
<1> DEFINE targets == {t[3] : t \in MISSION_TRANSITIONS}
           phases == {t[1].phase : t \in MISSION_TRANSITIONS}
<1>1. Early \cup {Executing} \cup Late \subseteq targets
  <2>1. \A t \in MISSION_TRANSITIONS : t[3] \in targets
    OBVIOUS
  <2>2. QED BY <2>1 DEF MISSION_TRANSITIONS, CANCELLATION_TRANSITIONS, Early, Late
<1>2. Phase \subseteq phases
  <2>1. \A t \in MISSION_TRANSITIONS : t[1].phase \in phases
    OBVIOUS
  <2>2. QED BY <2>1 DEF MISSION_TRANSITIONS, CANCELLATION_TRANSITIONS, Phase, State, Planning,
                        Validating, Approving, Executing, Reconciling, Observing, Verifying
<1>3. QED BY <1>1, <1>2 DEF Ends

-----------------------------------------------------------------------------
\* A mission moves on to its verification only from `observe', when ready.
LEMMA Advance ==
  ASSUME NEW reason, AdvanceMission(reason)
  PROVE  \/ mission' = mission /\ AskVerification(reason) = {}
         \/ /\ reason # "not_ready" /\ mission = Observing /\ mission' = Verifying
            /\ AskVerification(reason) = {"mission.verify"}
<1>1. CASE Ready(reason)
  <2>1. CASE reason = "deadline_elapsed"
    <3>1. Transition("observation_deadline_expired")
      BY <1>1, <2>1 DEF AdvanceMission
    <3>2. QED BY <1>1, <3>1, Steps DEF Ready, AskVerification
  <2>2. CASE reason # "deadline_elapsed"
    <3>1. Transition("evidence_arrived")
      BY <1>1, <2>2 DEF AdvanceMission
    <3>2. QED BY <1>1, <3>1, Steps DEF Ready, AskVerification
  <2>3. QED BY <2>1, <2>2
<1>2. CASE ~Ready(reason)
  BY <1>2 DEF AdvanceMission, AskVerification
<1>3. QED BY <1>1, <1>2

\* A callback completes the cancellation, or moves the mission to its verification.
LEMMA CallbackMission ==
  ASSUME NEW e \in Effect, Callback(e)
  PROVE  \/ /\ cancelled /\ CancellationIsSafe(milestone', dispatch') /\ jobs' = jobs
            /\ mission = Reconciling /\ mission' = State("cancelled", "reconcile")
         \/ mission' = mission /\ jobs' = jobs
         \/ /\ Readiness(milestone') # "not_ready" /\ jobs' = jobs \cup {"mission.verify"}
            /\ mission = Observing /\ mission' = Verifying
<1>1. CASE cancelled /\ mission = Reconciling /\ CancellationIsSafe(milestone', dispatch')
  <2>1. Transition("cancel_reconciliation_completed") /\ jobs' = jobs
    BY <1>1 DEF Callback
  <2>2. QED BY <1>1, <2>1, Steps
<1>2. CASE ~(cancelled /\ mission = Reconciling /\ CancellationIsSafe(milestone', dispatch'))
  <2>1. /\ AdvanceMission(Readiness(milestone'))
        /\ jobs' = jobs \cup AskVerification(Readiness(milestone'))
    BY <1>2 DEF Callback
  <2>2. QED BY <2>1, Advance
<1>3. QED BY <1>1, <1>2

\* A cancellation ends the mission only if nothing has to be reconciled.
LEMMA CancelMoves ==
  ASSUME MissionInv, Cancel
  PROVE  \/ /\ RequiresReconciliation
            /\ mission \in {Executing, Reconciling, Observing} /\ mission' = Reconciling
         \/ /\ ~RequiresReconciliation /\ mission.status \notin TerminalStatus
            /\ mission' \in Ends /\ mission'.phase = mission.phase
<1>1. CASE RequiresReconciliation
  <2>1. Transition("cancel_reconciliation_required")
    BY <1>1 DEF Cancel
  <2>2. QED BY <1>1, <2>1, Steps
<1>2. CASE ~RequiresReconciliation
  <2>1. Transition("cancel_requested")
    BY <1>2 DEF Cancel
  <2>2. QED BY <1>2, <2>1, Steps, CancelledState
<1>3. QED BY <1>1, <1>2

\* The poll of an effect: retry, budget exhausted, outcome found, stale job.
LEMMA ReconcileMission ==
  ASSUME NEW e \in Effect, ReconcileEffect(e)
  PROVE  \/ /\ dispatch[e] = "sent" /\ milestone[e] = "pending" /\ (cancelled => e \notin Optional)
            /\ dispatch' = [dispatch EXCEPT ![e] = "pending"] /\ mission' = mission
         \/ dispatch' = dispatch /\ mission' = mission
         \/ dispatch' = dispatch /\ mission = Reconciling /\ mission' = AskReconcile
         \/ /\ dispatch' = dispatch /\ cancelled /\ CancellationIsSafe(milestone, dispatch)
            /\ mission = Reconciling /\ mission' = State("cancelled", "reconcile")
<1>1. \/ UNCHANGED mission
      \/ mission = Reconciling /\ Transition("reconcile_budget_exhausted") /\ UNCHANGED dispatch
      \/ /\ cancelled /\ CancellationIsSafe(milestone, dispatch) /\ UNCHANGED dispatch
         /\ Transition("cancel_reconciliation_completed")
  BY DEF ReconcileEffect
<1>2. \/ UNCHANGED dispatch
      \/ /\ dispatch[e] = "sent" /\ milestone[e] = "pending" /\ (cancelled => e \notin Optional)
         /\ dispatch' = [dispatch EXCEPT ![e] = "pending"] /\ mission' = mission
  BY DEF ReconcileEffect
<1>3. QED BY <1>1, <1>2, Steps

-----------------------------------------------------------------------------
LEMMA MissionStep == MissionInv /\ [Next]_vars => MissionInv'
<1> SUFFICES ASSUME MissionInv, [Next]_vars
             PROVE  mission' \in Early \cup {Executing} \cup Late \cup Ends
  BY DEF MissionInv
<1> USE Steps, States DEF MissionInv, Late
<1>1. ASSUME NEW event \in PlanningEvents, Plan(event) PROVE mission' \in Early
  BY <1>1 DEF Plan
<1>2. CASE ApprovalGranted
  BY <1>2 DEF ApprovalGranted
<1>3. CASE \/ ApprovalLapses \/ ActivateLapsed \/ GiveUp \/ Arrival \/ DeadlinePasses
           \/ VerificationRead \/ UNCHANGED vars
  BY <1>3 DEF ApprovalLapses, ActivateLapsed, GiveUp, Arrival, DeadlinePasses, VerificationRead,
              record, vars
<1>4. ASSUME NEW responseLost \in BOOLEAN, Activate(responseLost) PROVE mission' \in Late
  <2>1. Transition("execution_unknown") \/ Transition("execution_committed")
    BY <1>4 DEF Activate
  <2>2. QED BY <2>1
<1>5. CASE ReconcileOperation
  BY <1>5 DEF ReconcileOperation
<1>6. CASE ExecutionDeadline
  BY <1>6, Advance DEF ExecutionDeadline
<1>7. ASSUME NEW e \in Effect, Send(e) \/ GatewayActs(e) PROVE mission' = mission
  BY <1>7 DEF Send, GatewayActs, record
<1>8. ASSUME NEW e \in Effect, Callback(e) PROVE mission' \in {mission} \cup Late \cup Ends
  BY <1>8, CallbackMission
<1>9. ASSUME NEW e \in Effect, ReconcileEffect(e) PROVE mission' \in {mission} \cup Late \cup Ends
  BY <1>9, ReconcileMission
<1>10. CASE VerificationStore
  <2>1. Transition("verification_passed") \/ Transition("intervention_required")
    BY <1>10 DEF VerificationStore
  <2>2. QED BY <2>1
<1>11. CASE Cancel
  BY <1>11, CancelMoves
<1>12. QED BY <1>1, <1>2, <1>3, <1>4, <1>5, <1>6, <1>7, <1>8, <1>9, <1>10, <1>11 DEF Next

LEMMA TypeInit == Init => TypeOK /\ MissionInv
<1> SUFFICES ASSUME Init PROVE TypeOK /\ MissionInv
  OBVIOUS
<1>1. mission \in Early
  BY DEF Init, Early
<1>2. QED BY <1>1, MissionType DEF Init, TypeOK, MissionInv

LEMMA EndedType ==
  ASSUME NEW reason, TypeOK
  PROVE  Ended(reason) \in {"none", "running", "observed", "failed"}
BY DEF Ended, TypeOK

LEMMA ConsumeType ==
  ASSUME TypeOK, NEW j, NEW more \in SUBSET (Topic \cup Effect), Consume(j, more)
  PROVE  jobs' \subseteq Topic \cup Effect
BY DEF Consume, TypeOK

\* Every step keeps every variable in its type.
LEMMA TypeStep == TypeOK /\ MissionInv /\ [Next]_vars => TypeOK'
<1> SUFFICES ASSUME TypeOK, MissionInv, [Next]_vars PROVE TypeOK'
  OBVIOUS
<1> DEFINE Types == {t[3] : t \in MISSION_TRANSITIONS} \cup
                    [status : {"cancelled"}, phase : {t[1].phase : t \in MISSION_TRANSITIONS}]
<1>0. mission' \in Types
  BY MissionStep, MissionType DEF MissionInv
<1> HIDE DEF Types
<1> SUFFICES ASSUME mission' \in Types PROVE TypeOK'
  BY <1>0
<1> USE DEF TypeOK
<1>1. ASSUME NEW event \in PlanningEvents, Plan(event) PROVE TypeOK'
  BY <1>1 DEF Plan, Types
<1>2. CASE ApprovalGranted \/ ApprovalLapses \/ ActivateLapsed
  BY <1>2 DEF ApprovalGranted, ApprovalLapses, ActivateLapsed, Types
<1>3. ASSUME NEW responseLost \in BOOLEAN, Activate(responseLost) PROVE TypeOK'
  BY <1>3 DEF Activate, Activated, Topic, Effect, Types
<1>4. CASE ReconcileOperation
  BY <1>4, ConsumeType DEF ReconcileOperation, Types
<1>5. CASE GiveUp
  BY <1>5 DEF GiveUp, record, Types
<1>6. CASE Arrival
  BY <1>6 DEF Arrival, Effect, Types
<1>7. CASE DeadlinePasses
  BY <1>7 DEF DeadlinePasses, record, Types
<1>8. CASE ExecutionDeadline
  <2>1. AskVerification(Readiness(milestone)) \in SUBSET (Topic \cup Effect)
    BY DEF AskVerification, Topic
  <2>2. jobs' \subseteq Topic \cup Effect
    BY <1>8, <2>1, ConsumeType DEF ExecutionDeadline
  <2>3. QED BY <1>8, <2>2, EndedType DEF ExecutionDeadline, Types
<1>9. ASSUME NEW e \in Effect, Send(e) \/ GatewayActs(e) PROVE TypeOK'
  BY <1>9 DEF Send, GatewayActs, record, Types
<1>10. ASSUME NEW e \in Effect, Callback(e) PROVE TypeOK'
  <2>1. jobs' \subseteq Topic \cup Effect
    BY <1>10, CallbackMission DEF Topic
  <2>2. milestone' \in [Milestone -> {"pending", "completed", "failed"}]
    BY <1>10 DEF Callback
  <2>3. dispatch' \in [Effect -> {"none", "pending", "sent", "cancelled"}]
    BY <1>10 DEF Callback
  <2>4. QED BY <1>10, <2>1, <2>2, <2>3, EndedType DEF Callback, Types
<1>11. ASSUME NEW e \in Effect, ReconcileEffect(e) PROVE TypeOK'
  <2>1. jobs' \subseteq Topic \cup Effect
    BY <1>11, ConsumeType DEF ReconcileEffect
  <2>2. dispatch' \in [Effect -> {"none", "pending", "sent", "cancelled"}]
    BY <1>11 DEF ReconcileEffect
  <2>3. QED BY <1>11, <2>1, <2>2 DEF ReconcileEffect, Types
<1>12. CASE VerificationRead
  BY <1>12 DEF VerificationRead, record, Types
<1>13. CASE VerificationStore
  BY <1>13, ConsumeType DEF VerificationStore, Types
<1>14. CASE Cancel
  BY <1>14 DEF Cancel, Types
<1>15. CASE UNCHANGED vars
  BY <1>15 DEF vars, record, Types
<1>16. QED BY <1>1, <1>2, <1>3, <1>4, <1>5, <1>6, <1>7, <1>8, <1>9, <1>10, <1>11, <1>12, <1>13, <1>14,
              <1>15 DEF Next

-----------------------------------------------------------------------------
\* Where a cancelled mission can be, and what it left to do.
LEMMA CancelStep ==
  TypeOK /\ MissionInv /\ CancelInv /\ [Next]_vars => CancelInv'
<1> SUFFICES ASSUME TypeOK, MissionInv, CancelInv, [Next]_vars PROVE CancelInv'
  OBVIOUS
<1> USE DEF CancelInv
<1>1. ASSUME NEW event \in PlanningEvents, Plan(event) PROVE CancelInv'
  <2>1. mission \in Early /\ mission' \in Early
    BY <1>1, Steps DEF Plan
  <2>2. ~cancelled
    BY <2>1, States DEF Late
  <2>3. QED BY <1>1, <2>1, <2>2, States DEF Plan
<1>2. CASE ApprovalGranted
  <2>1. mission = Approving /\ mission' = Executing
    BY <1>2, Steps DEF ApprovalGranted
  <2>2. ~cancelled /\ mission' \notin Ends
    BY <2>1, States DEF Late, Early
  <2>3. QED BY <1>2, <2>1, <2>2 DEF ApprovalGranted
<1>3. CASE ApprovalLapses \/ ActivateLapsed \/ UNCHANGED vars
  BY <1>3 DEF ApprovalLapses, ActivateLapsed, vars, record
<1>4. ASSUME NEW responseLost \in BOOLEAN, Activate(responseLost) PROVE CancelInv'
  <2>1. Transition("execution_unknown") \/ Transition("execution_committed")
    BY <1>4 DEF Activate
  <2>2. ~cancelled /\ cancelled' = cancelled
    BY <1>4 DEF Activate
  <2>3. mission' \notin Ends
    BY <2>1, Steps, States DEF Late
  <2>4. QED BY <2>2, <2>3
<1>5. CASE ReconcileOperation
  <2>1. mission' = Observing
    BY <1>5, Steps DEF ReconcileOperation
  <2>2. QED BY <1>5, <2>1, States DEF ReconcileOperation, Late
<1>6. CASE GiveUp \/ DeadlinePasses \/ VerificationRead
  BY <1>6 DEF GiveUp, DeadlinePasses, VerificationRead, record
<1>7. CASE Arrival
  <2>1. ~cancelled /\ cancelled' = cancelled
    BY <1>7 DEF Arrival, MayStart
  <2>2. QED BY <1>7, <2>1 DEF Arrival
<1>8. CASE ExecutionDeadline
  <2>1. mission' \in {mission, Verifying}
    BY <1>8, Advance DEF ExecutionDeadline
  <2>2. QED BY <1>8, <2>1, States DEF ExecutionDeadline, Late
<1>9. ASSUME NEW e \in Effect, Send(e) PROVE CancelInv'
  BY <1>9 DEF Send, TypeOK, Optional
<1>10. ASSUME NEW e \in Effect, GatewayActs(e) PROVE CancelInv'
  BY <1>10 DEF GatewayActs, record
<1>11. ASSUME NEW e \in Effect, Callback(e) PROVE CancelInv'
  <2>1. \/ mission' \in {mission, Verifying}
        \/ cancelled /\ mission' = State("cancelled", "reconcile")
    BY <1>11, CallbackMission
  <2>2. \A x \in Optional : dispatch'[x] = dispatch[x]
    BY <1>11 DEF Callback, TypeOK, Optional
  <2>3. \A x \in Optional : milestone[x] # "pending" => milestone'[x] # "pending"
    BY <1>11 DEF Callback, TypeOK, Optional, Milestone
  <2>4. QED BY <1>11, <2>1, <2>2, <2>3, States DEF Callback, Late
<1>12. ASSUME NEW e \in Effect, ReconcileEffect(e) PROVE CancelInv'
  <2>1. \/ mission' \in {mission, AskReconcile}
        \/ cancelled /\ mission' = State("cancelled", "reconcile")
    BY <1>12, ReconcileMission
  <2>2. cancelled => \A x \in Optional : dispatch'[x] = dispatch[x]
    BY <1>12, ReconcileMission DEF TypeOK, Optional
  <2>3. QED BY <1>12, <2>1, <2>2, States DEF ReconcileEffect, Late
<1>13. CASE VerificationStore
  <2>1. Transition("verification_passed") \/ Transition("intervention_required")
    BY <1>13 DEF VerificationStore
  <2>2. mission' \in {Succeeded, AskVerify}
    BY <2>1, Steps
  <2>3. QED BY <1>13, <2>2, States DEF VerificationStore, Late
<1>14. CASE Cancel
  <2>1. mission' \in {Reconciling} \cup Ends
    BY <1>14, CancelMoves
  <2>2. operation' # "pending" /\ cancelled'
    BY <1>14 DEF Cancel
  <2>3. \A x \in Optional : dispatch'[x] = "pending" => milestone'[x] # "pending"
    BY <1>14 DEF Cancel, Withdrawable, Optional
  <2>4. QED BY <2>1, <2>2, <2>3 DEF Late
<1>15. QED BY <1>1, <1>2, <1>3, <1>4, <1>5, <1>6, <1>7, <1>8, <1>9, <1>10, <1>11, <1>12, <1>13, <1>14
           DEF Next

\* A recorded outcome is the gateway's, of a call it received.
LEMMA EffectStep ==
  TypeOK /\ EffectInv /\ [Next]_vars => EffectInv'
<1> SUFFICES ASSUME TypeOK, EffectInv, [Next]_vars PROVE EffectInv'
  OBVIOUS
<1> USE DEF EffectInv, TypeOK, Effect
<1>1. ASSUME NEW event \in PlanningEvents, Plan(event) PROVE EffectInv'
  BY <1>1 DEF Plan
<1>2. CASE ApprovalGranted \/ ApprovalLapses \/ ActivateLapsed \/ ReconcileOperation
  BY <1>2 DEF ApprovalGranted, ApprovalLapses, ActivateLapsed, ReconcileOperation
<1>3. ASSUME NEW responseLost \in BOOLEAN, Activate(responseLost) PROVE EffectInv'
  BY <1>3 DEF Activate
<1>4. CASE GiveUp \/ DeadlinePasses \/ VerificationRead \/ UNCHANGED vars
  BY <1>4 DEF GiveUp, DeadlinePasses, VerificationRead, vars, record
<1>5. CASE Arrival
  BY <1>5 DEF Arrival, Milestone
<1>6. CASE ExecutionDeadline \/ VerificationStore
  BY <1>6 DEF ExecutionDeadline, VerificationStore
<1>7. ASSUME NEW e \in Effect, Send(e) PROVE EffectInv'
  BY <1>7 DEF Send
<1>8. ASSUME NEW e \in Effect, GatewayActs(e) PROVE EffectInv'
  BY <1>8 DEF GatewayActs, Milestone, record
<1>9. ASSUME NEW e \in Effect, Callback(e) PROVE EffectInv'
  BY <1>9 DEF Callback, Milestone
<1>10. ASSUME NEW e \in Effect, ReconcileEffect(e) PROVE EffectInv'
  <2>1. dispatch' = dispatch \/ dispatch' = [dispatch EXCEPT ![e] = "pending"]
    BY <1>10 DEF ReconcileEffect
  <2>2. QED BY <1>10, <2>1 DEF ReconcileEffect
<1>11. CASE Cancel
  BY <1>11 DEF Cancel, Withdrawable, Optional
<1>12. QED BY <1>1, <1>2, <1>3, <1>4, <1>5, <1>6, <1>7, <1>8, <1>9, <1>10, <1>11 DEF Next

-----------------------------------------------------------------------------
\* An execution ends as observed exactly when every milestone is completed.
LEMMA EndOfExecution ==
  ASSUME NEW m, execution' = Ended(Readiness(m))
  PROVE  \/ execution' = execution /\ (execution = "running" => Readiness(m) = "not_ready")
         \/ /\ execution = "running" /\ execution' = "observed"
            /\ \A x \in Milestone : m[x] = "completed"
         \/ /\ execution = "running" /\ execution' = "failed"
            /\ ~(\A x \in Milestone : m[x] = "completed")
<1>1. Readiness(m) = "all_completed" => \A x \in Milestone : m[x] = "completed"
  BY DEF Readiness
<1>2. Readiness(m) # "all_completed" /\ Readiness(m) # "not_ready" =>
        ~(\A x \in Milestone : m[x] = "completed")
  BY DEF Readiness
<1>3. QED BY <1>1, <1>2 DEF Ended

\* What the end of the execution, and a verdict, say of the milestones.
LEMMA ExecutionStep ==
  TypeOK /\ MissionInv /\ ExecutionInv /\ VerifiedWhenOver /\ [Next]_vars =>
    ExecutionInv' /\ VerifiedWhenOver'
<1> SUFFICES ASSUME TypeOK, MissionInv, ExecutionInv, VerifiedWhenOver, [Next]_vars
             PROVE  ExecutionInv' /\ VerifiedWhenOver'
  OBVIOUS
<1> DEFINE Goal == ExecutionInv' /\ VerifiedWhenOver'
<1> USE DEF ExecutionInv, VerifiedWhenOver, AllCompleted
<1>1. ASSUME NEW event \in PlanningEvents, Plan(event) PROVE Goal
  <2>1. mission' \in Early
    BY <1>1, Steps DEF Plan
  <2>2. mission' \notin Late /\ mission'.phase # "verify" /\ mission'.status # "succeeded"
    BY <2>1, States DEF Late
  <2>3. QED BY <1>1, <2>2 DEF Plan
<1>2. CASE ApprovalGranted
  <2>1. mission' = Executing
    BY <1>2, Steps DEF ApprovalGranted
  <2>2. mission' \notin Late /\ mission'.phase # "verify" /\ mission'.status # "succeeded"
    BY <2>1, States DEF Late
  <2>3. QED BY <1>2, <2>2 DEF ApprovalGranted
<1>3. CASE ApprovalLapses \/ ActivateLapsed \/ UNCHANGED vars
  BY <1>3 DEF ApprovalLapses, ActivateLapsed, vars, record
<1>4. ASSUME NEW responseLost \in BOOLEAN, Activate(responseLost) PROVE Goal
  <2>1. Transition("execution_unknown") \/ Transition("execution_committed")
    BY <1>4 DEF Activate
  <2>2. mission' \in {Reconciling, Observing}
    BY <2>1, Steps
  <2>3. mission'.phase # "verify" /\ mission'.status # "succeeded"
    BY <2>2, States DEF Late
  <2>4. QED BY <1>4, <2>3 DEF Activate
<1>5. CASE ReconcileOperation
  <2>1. mission' = Observing
    BY <1>5, Steps DEF ReconcileOperation
  <2>2. mission'.phase # "verify" /\ mission'.status # "succeeded"
    BY <2>1, States DEF Late
  <2>3. QED BY <1>5, <2>2 DEF ReconcileOperation
<1>6. CASE GiveUp \/ DeadlinePasses
  BY <1>6 DEF GiveUp, DeadlinePasses, record
<1>7. CASE Arrival
  <2>1. execution = "running" /\ UNCHANGED <<execution, mission, lost, verdict>>
    BY <1>7 DEF Arrival, MayStart
  <2>2. \A x \in Milestone : milestone[x] = "completed" => milestone'[x] = "completed"
    BY <1>7 DEF Arrival, TypeOK
  <2>3. QED BY <2>1, <2>2
<1>8. CASE ExecutionDeadline
  <2>1. \/ mission' = mission
        \/ Readiness(milestone) # "not_ready" /\ mission = Observing /\ mission' = Verifying
    BY <1>8, Advance DEF ExecutionDeadline
  <2>2. execution' = Ended(Readiness(milestone))
    BY <1>8 DEF ExecutionDeadline
  <2>3. UNCHANGED <<milestone, dispatch, lost, verdict>>
    BY <1>8 DEF ExecutionDeadline
  <2>4. Verifying.status # "succeeded" /\ Observing \in Late
    BY DEF State, Verifying, Late
  <2>5. QED BY <2>1, <2>2, <2>3, <2>4, EndOfExecution DEF TypeOK
<1>9. ASSUME NEW e \in Effect, Send(e) PROVE Goal
  BY <1>9 DEF Send
<1>10. ASSUME NEW e \in Effect, GatewayActs(e) PROVE Goal
  BY <1>10 DEF GatewayActs, record
<1>11. ASSUME NEW e \in Effect, Callback(e) PROVE Goal
  <2>1. \/ mission' \in {mission, State("cancelled", "reconcile")}
        \/ Readiness(milestone') # "not_ready" /\ mission = Observing /\ mission' = Verifying
    BY <1>11, CallbackMission
  <2>2. execution' = Ended(Readiness(milestone')) /\ execution = "running"
    BY <1>11 DEF Callback, AcceptsMilestones
  <2>3. execution' # "none"
    BY <2>2, EndOfExecution
  <2>4. UNCHANGED <<lost, verdict>>
    BY <1>11 DEF Callback
  <2>5. \A x \in Milestone : milestone[x] = "completed" => milestone'[x] = "completed"
    BY <1>11 DEF Callback, TypeOK
  <2>6. /\ Verifying.status # "succeeded"
        /\ State("cancelled", "reconcile").phase # "verify"
        /\ State("cancelled", "reconcile").status # "succeeded"
    BY DEF State, Verifying
  <2>7. QED BY <2>1, <2>2, <2>3, <2>4, <2>5, <2>6, EndOfExecution
<1>12. ASSUME NEW e \in Effect, ReconcileEffect(e) PROVE Goal
  <2>1. \/ mission' = mission
        \/ mission = Reconciling /\ mission' \in {AskReconcile, State("cancelled", "reconcile")}
    BY <1>12, ReconcileMission
  <2>2. \A x \in Effect : dispatch[x] = "none" => dispatch'[x] = "none"
    BY <1>12, ReconcileMission DEF TypeOK
  <2>3. UNCHANGED <<execution, milestone, lost, verdict>>
    BY <1>12 DEF ReconcileEffect
  <2>4. /\ Reconciling \in Late /\ AskReconcile.phase # "verify" /\ AskReconcile.status # "succeeded"
        /\ State("cancelled", "reconcile").phase # "verify"
        /\ State("cancelled", "reconcile").status # "succeeded"
    BY DEF State, AskReconcile, Late
  <2>5. QED BY <2>1, <2>2, <2>3, <2>4
<1>13. CASE VerificationRead
  BY <1>13 DEF VerificationRead, Verifiable, record
<1>14. CASE VerificationStore
  <2>1. mission = Verifying /\ (verdict = "passed" \/ Transition("intervention_required"))
    BY <1>14 DEF VerificationStore
  <2>2. Transition("verification_passed") \/ Transition("intervention_required")
    BY <1>14 DEF VerificationStore
  <2>3. mission' \in {Succeeded, AskVerify} /\ (mission' = Succeeded => verdict = "passed")
    BY <2>1, <2>2, Steps DEF Succeeded, AskVerify, State
  <2>4. AskVerify.status # "succeeded" /\ Verifying.phase = "verify" /\ Verifying \in Late
    BY DEF State, AskVerify, Verifying, Late
  <2>5. UNCHANGED <<execution, milestone, dispatch, lost>> /\ verdict' = "none"
    BY <1>14 DEF VerificationStore
  <2>6. QED BY <2>1, <2>3, <2>4, <2>5
<1>15. CASE Cancel
  <2>1. UNCHANGED <<execution, milestone, lost, verdict>>
    BY <1>15 DEF Cancel
  <2>2. CASE RequiresReconciliation
    <3>1. execution # "none"
      BY <2>2 DEF RequiresReconciliation
    <3>2. mission' = Reconciling
      BY <1>15, <2>2, CancelMoves
    <3>3. QED BY <2>1, <3>1, <3>2 DEF Reconciling, State
  <2>3. CASE ~RequiresReconciliation
    <3>1. mission' \in Ends /\ mission'.phase = mission.phase
      BY <1>15, <2>3, CancelMoves
    <3>2. mission' \notin Late /\ mission'.status # "succeeded"
      BY <3>1, States DEF Late
    <3>3. execution = "none" => \A x \in Effect : dispatch'[x] = "none"
      BY <1>15 DEF Cancel, Withdrawable
    <3>4. QED BY <2>1, <3>1, <3>2, <3>3
  <2>4. QED BY <2>2, <2>3
<1>16. QED BY <1>1, <1>2, <1>3, <1>4, <1>5, <1>6, <1>7, <1>8, <1>9, <1>10, <1>11, <1>12, <1>13,
              <1>14, <1>15 DEF Next

-----------------------------------------------------------------------------
\* A callback that records the unlock materializes the relock with it, and
\* nothing withdraws a relock.
LEMMA RelockStep ==
  TypeOK /\ RecordedUnlockHasRelock /\ [Next]_vars => RecordedUnlockHasRelock'
<1> SUFFICES ASSUME TypeOK, RecordedUnlockHasRelock, [Next]_vars PROVE RecordedUnlockHasRelock'
  OBVIOUS
<1> USE DEF RecordedUnlockHasRelock
<1>1. ASSUME NEW event \in PlanningEvents, Plan(event) PROVE RecordedUnlockHasRelock'
  BY <1>1 DEF Plan
<1>2. CASE \/ ApprovalGranted \/ ApprovalLapses \/ ActivateLapsed \/ ReconcileOperation
           \/ ExecutionDeadline \/ VerificationStore
  BY <1>2 DEF ApprovalGranted, ApprovalLapses, ActivateLapsed, ReconcileOperation,
              ExecutionDeadline, VerificationStore
<1>3. CASE GiveUp \/ DeadlinePasses \/ VerificationRead \/ UNCHANGED vars
  BY <1>3 DEF GiveUp, DeadlinePasses, VerificationRead, vars, record
<1>4. ASSUME NEW responseLost \in BOOLEAN, Activate(responseLost) PROVE RecordedUnlockHasRelock'
  BY <1>4 DEF Activate, TypeOK, Effect
<1>5. CASE Arrival
  BY <1>5 DEF Arrival, TypeOK, Effect, Milestone
<1>6. ASSUME NEW e \in Effect, Send(e) PROVE RecordedUnlockHasRelock'
  BY <1>6 DEF Send, TypeOK, Effect
<1>7. ASSUME NEW e \in Effect, GatewayActs(e) PROVE RecordedUnlockHasRelock'
  BY <1>7 DEF GatewayActs, record
<1>8. ASSUME NEW e \in Effect, Callback(e) PROVE RecordedUnlockHasRelock'
  BY <1>8 DEF Callback, TypeOK, Effect, Milestone
<1>9. ASSUME NEW e \in Effect, ReconcileEffect(e) PROVE RecordedUnlockHasRelock'
  <2>1. dispatch' = dispatch \/ dispatch' = [dispatch EXCEPT ![e] = "pending"]
    BY <1>9 DEF ReconcileEffect
  <2>2. QED BY <1>9, <2>1 DEF ReconcileEffect, TypeOK, Effect
<1>10. CASE Cancel
  BY <1>10 DEF Cancel, Withdrawable, Optional, Effect
<1>11. QED BY <1>1, <1>2, <1>3, <1>4, <1>5, <1>6, <1>7, <1>8, <1>9, <1>10 DEF Next

\* What CancelledIsSettled says holds as soon as every effect has its outcome or
\* was withdrawn.
LEMMA SafeIsSettled ==
  ASSUME NEW m, NEW d, NEW g, CancellationIsSafe(m, d),
         \A e \in Effect : m[e] # "pending" => m[e] = g[e],
         \A e \in Effect : g[e] # "none" => d[e] # "none",
         m["unlock"] = "completed" => d["relock"] \in {"pending", "sent"}
  PROVE  /\ \A e \in Optional : d[e] \in {"pending", "sent"} => m[e] # "pending"
         /\ g["unlock"] = "completed" /\ d["unlock"] # "cancelled" => m["relock"] # "pending"
BY DEF CancellationIsSafe, Optional, Effect

\* A step that leaves the mission where it is, does not rewrite outcomes or
\* optional dispatches, and adds no call of the unlock, leaves a settled
\* cancellation settled.
LEMMA SettledStays ==
  ASSUME CancelledIsSettled, mission' = mission,
         mission.status = "cancelled" =>
           /\ \A e \in Optional : dispatch'[e] = dispatch[e]
           /\ \A e \in Effect : milestone[e] # "pending" => milestone'[e] # "pending"
           /\ gateway'["unlock"] = gateway["unlock"]
  PROVE  CancelledIsSettled'
BY DEF CancelledIsSettled, Optional, Effect

LEMMA SettledStep ==
  /\ TypeOK /\ MissionInv /\ CancelInv /\ EffectInv /\ RecordedUnlockHasRelock
  /\ EffectInv' /\ RecordedUnlockHasRelock'
  /\ CancelledIsSettled /\ [Next]_vars
  => CancelledIsSettled'
<1> SUFFICES ASSUME TypeOK, MissionInv, CancelInv, EffectInv, RecordedUnlockHasRelock,
                    EffectInv', RecordedUnlockHasRelock', CancelledIsSettled, [Next]_vars
             PROVE  CancelledIsSettled'
  OBVIOUS
<1>0. mission.status = "cancelled" => cancelled
  BY States DEF MissionInv, CancelInv
<1>1. ASSUME NEW event \in PlanningEvents, Plan(event) PROVE CancelledIsSettled'
  BY <1>1, Steps, States DEF Plan, CancelledIsSettled
<1>2. CASE \/ ApprovalGranted \/ ReconcileOperation \/ VerificationStore
           \/ \E responseLost \in BOOLEAN : Activate(responseLost)
  <2>1. mission' \in {Executing, Observing, Reconciling, Succeeded, AskVerify}
    <3>1. \/ Transition("approval_granted") \/ Transition("reconcile_commit_found")
          \/ Transition("verification_passed") \/ Transition("intervention_required")
          \/ Transition("execution_unknown") \/ Transition("execution_committed")
      BY <1>2 DEF ApprovalGranted, ReconcileOperation, VerificationStore, Activate
    <3>2. QED BY <3>1, Steps
  <2>2. QED BY <2>1, States DEF CancelledIsSettled, Late
<1>3. CASE \/ ApprovalLapses \/ ActivateLapsed \/ GiveUp \/ DeadlinePasses \/ VerificationRead
           \/ UNCHANGED vars
  BY <1>3, SettledStays DEF ApprovalLapses, ActivateLapsed, GiveUp, DeadlinePasses, VerificationRead,
                            record, vars
<1>4. CASE Arrival
  BY <1>4, <1>0, SettledStays DEF Arrival, MayStart
<1>5. CASE ExecutionDeadline
  <2>1. mission' \in {mission, Verifying}
    BY <1>5, Advance DEF ExecutionDeadline
  <2>2. QED BY <1>5, <2>1, SettledStays, States DEF ExecutionDeadline, CancelledIsSettled, Late
<1>6. ASSUME NEW e \in Effect, Send(e) PROVE CancelledIsSettled'
  <2>1. mission.status = "cancelled" => \A x \in Optional : dispatch'[x] = dispatch[x]
    BY <1>6, <1>0 DEF Send, CancelInv, TypeOK, Optional
  <2>2. QED BY <1>6, <2>1, SettledStays DEF Send
<1>7. ASSUME NEW e \in Effect, GatewayActs(e) PROVE CancelledIsSettled'
  <2>1. CASE mission.status = "cancelled" /\ e = "unlock"
    <3>1. gateway["unlock"] = "none" /\ dispatch["unlock"] # "none"
      BY <1>7, <2>1 DEF GatewayActs, EffectInv
    <3>2. milestone["unlock"] = "pending"
      BY <3>1 DEF EffectInv, TypeOK, Effect, Milestone
    <3>3. dispatch["unlock"] = "cancelled"
      BY <2>1, <3>1, <3>2 DEF CancelledIsSettled, TypeOK, Optional, Effect
    <3>4. UNCHANGED <<mission, milestone, dispatch>>
      BY <1>7 DEF GatewayActs, record
    <3>5. QED BY <3>3, <3>4 DEF CancelledIsSettled
  <2>2. CASE ~(mission.status = "cancelled" /\ e = "unlock")
    BY <1>7, <2>2, SettledStays DEF GatewayActs, TypeOK, Effect, record
  <2>3. QED BY <2>1, <2>2
<1>8. ASSUME NEW e \in Effect, Callback(e) PROVE CancelledIsSettled'
  <2>1. CASE mission' = mission
    <3>1. \A x \in Optional : dispatch'[x] = dispatch[x]
      BY <1>8 DEF Callback, TypeOK, Optional, Effect
    <3>2. \A x \in Effect : milestone[x] # "pending" => milestone'[x] # "pending"
      BY <1>8 DEF Callback, TypeOK, Milestone
    <3>3. QED BY <1>8, <2>1, <3>1, <3>2, SettledStays DEF Callback
  <2>2. CASE mission' = Verifying
    BY <2>2, States DEF CancelledIsSettled, Late
  <2>3. CASE CancellationIsSafe(milestone', dispatch')
    BY <2>3, SafeIsSettled DEF EffectInv, RecordedUnlockHasRelock, CancelledIsSettled
  <2>4. QED BY <1>8, <2>1, <2>2, <2>3, CallbackMission
<1>9. ASSUME NEW e \in Effect, ReconcileEffect(e) PROVE CancelledIsSettled'
  <2>1. UNCHANGED <<milestone, gateway>>
    BY <1>9 DEF ReconcileEffect
  <2>2. CASE mission' = mission
    <3>1. cancelled => \A x \in Optional : dispatch'[x] = dispatch[x]
      BY <1>9, ReconcileMission DEF TypeOK, Optional
    <3>2. QED BY <1>0, <2>1, <2>2, <3>1, SettledStays
  <2>3. CASE mission' = AskReconcile
    BY <2>3, States DEF CancelledIsSettled, Late
  <2>4. CASE CancellationIsSafe(milestone, dispatch) /\ dispatch' = dispatch
    BY <2>1, <2>4, SafeIsSettled DEF EffectInv, RecordedUnlockHasRelock, CancelledIsSettled
  <2>5. QED BY <1>9, <2>2, <2>3, <2>4, ReconcileMission
<1>10. CASE Cancel
  <2>1. CASE mission' = Reconciling
    BY <2>1, States DEF CancelledIsSettled, Late
  <2>2. CASE ~RequiresReconciliation
    <3>1. \A e \in Effect : dispatch'[e] \in {"none", "cancelled"}
      BY <1>10, <2>2 DEF Cancel, RequiresReconciliation
    <3>2. CancellationIsSafe(milestone', dispatch')
      BY <3>1 DEF CancellationIsSafe
    <3>3. QED BY <3>2, SafeIsSettled DEF EffectInv, RecordedUnlockHasRelock, CancelledIsSettled
  <2>3. QED BY <1>10, <2>1, <2>2, CancelMoves
<1>11. QED BY <1>1, <1>2, <1>3, <1>4, <1>5, <1>6, <1>7, <1>8, <1>9, <1>10 DEF Next

-----------------------------------------------------------------------------
\* The lost response's job outlives every step that leaves its mission in `reconcile'.
LEMMA DrivenStep ==
  MissionInv /\ CancelInv /\ LostResponseIsDriven /\ [Next]_vars => LostResponseIsDriven'
<1> SUFFICES ASSUME MissionInv, CancelInv, LostResponseIsDriven, [Next]_vars
             PROVE  LostResponseIsDriven'
  OBVIOUS
<1> USE DEF LostResponseIsDriven
<1>0. /\ Reconciling \notin Early \cup {Executing, Observing, Verifying, Succeeded, AskVerify, AskReconcile}
      /\ State("cancelled", "reconcile") # Reconciling
  BY DEF Early, Planning, Validating, Approving, Executing, Observing, Verifying, Succeeded, AskVerify,
         AskReconcile, Reconciling, State
<1>1. ASSUME NEW event \in PlanningEvents, Plan(event) PROVE LostResponseIsDriven'
  BY <1>0, <1>1, Steps DEF Plan
<1>2. CASE ApprovalGranted \/ ReconcileOperation \/ VerificationStore
  <2>1. \/ Transition("approval_granted") \/ Transition("reconcile_commit_found")
        \/ Transition("verification_passed") \/ Transition("intervention_required")
    BY <1>2 DEF ApprovalGranted, ReconcileOperation, VerificationStore
  <2>2. QED BY <1>0, <2>1, Steps
<1>3. CASE ApprovalLapses \/ ActivateLapsed \/ Arrival \/ DeadlinePasses \/ VerificationRead
           \/ UNCHANGED vars
  BY <1>3 DEF ApprovalLapses, ActivateLapsed, Arrival, DeadlinePasses, VerificationRead, record, vars
<1>4. ASSUME NEW responseLost \in BOOLEAN, Activate(responseLost) PROVE LostResponseIsDriven'
  <2>1. CASE responseLost
    BY <1>4, <2>1 DEF Activate, Activated
  <2>2. CASE ~responseLost
    <3>1. Transition("execution_committed")
      BY <1>4, <2>2 DEF Activate
    <3>2. QED BY <1>0, <3>1, Steps
  <2>3. QED BY <2>1, <2>2
<1>5. CASE GiveUp
  BY <1>5 DEF GiveUp, record
<1>6. CASE ExecutionDeadline
  <2>1. mission' \in {mission, Verifying} /\ cancelled' = cancelled
    BY <1>6, Advance DEF ExecutionDeadline
  <2>2. "operation.reconcile" \in jobs => "operation.reconcile" \in jobs'
    BY <1>6 DEF ExecutionDeadline, Consume
  <2>3. QED BY <1>0, <2>1, <2>2
<1>7. ASSUME NEW e \in Effect, Send(e) \/ GatewayActs(e) PROVE LostResponseIsDriven'
  BY <1>7 DEF Send, GatewayActs, record
<1>8. ASSUME NEW e \in Effect, Callback(e) PROVE LostResponseIsDriven'
  BY <1>0, <1>8, CallbackMission DEF Callback
<1>9. ASSUME NEW e \in Effect, ReconcileEffect(e) PROVE LostResponseIsDriven'
  <2>1. mission' \in {mission, AskReconcile, State("cancelled", "reconcile")}
    BY <1>9, ReconcileMission
  <2>2. "operation.reconcile" \in jobs => "operation.reconcile" \in jobs'
    BY <1>9 DEF ReconcileEffect, Consume, Effect
  <2>3. QED BY <1>0, <1>9, <2>1, <2>2 DEF ReconcileEffect
<1>10. CASE Cancel
  BY <1>10 DEF Cancel
<1>11. QED BY <1>1, <1>2, <1>3, <1>4, <1>5, <1>6, <1>7, <1>8, <1>9, <1>10 DEF Next

LEMMA NotResumedStep ==
  MissionInv /\ CancelInv /\ CancelledIsNotResumed /\ [Next]_vars => CancelledIsNotResumed'
<1> SUFFICES ASSUME MissionInv, CancelInv, CancelledIsNotResumed, [Next]_vars
             PROVE  CancelledIsNotResumed'
  OBVIOUS
<1> USE DEF CancelledIsNotResumed
<1>0. \A s \in {Approving, Executing, Observing, Verifying} \cup Early :
        s.status # "cancelled" /\ s \notin {Reconciling, AskReconcile}
  BY DEF Early, Planning, Validating, Approving, Executing, Observing, Verifying, AskReconcile,
         Reconciling, State
<1>1. ASSUME NEW event \in PlanningEvents, Plan(event) PROVE CancelledIsNotResumed'
  BY <1>0, <1>1, Steps DEF Plan
<1>2. CASE ApprovalGranted \/ VerificationStore
  <2>1. mission \in {Approving, Verifying} /\ UNCHANGED <<cancelled, lost>>
    BY <1>2, Steps DEF ApprovalGranted, VerificationStore
  <2>2. QED BY <1>0, <2>1
<1>3. CASE \/ ApprovalLapses \/ ActivateLapsed \/ GiveUp \/ Arrival \/ DeadlinePasses
           \/ VerificationRead \/ UNCHANGED vars
  BY <1>3 DEF ApprovalLapses, ActivateLapsed, GiveUp, Arrival, DeadlinePasses, VerificationRead,
              record, vars
<1>4. ASSUME NEW responseLost \in BOOLEAN, Activate(responseLost) PROVE CancelledIsNotResumed'
  BY <1>4 DEF Activate, CancelInv
<1>5. CASE ReconcileOperation
  BY <1>5 DEF ReconcileOperation
<1>6. CASE ExecutionDeadline
  BY <1>0, <1>6, Advance DEF ExecutionDeadline
<1>7. ASSUME NEW e \in Effect, Send(e) \/ GatewayActs(e) PROVE CancelledIsNotResumed'
  BY <1>7 DEF Send, GatewayActs, record
<1>8. ASSUME NEW e \in Effect, Callback(e) PROVE CancelledIsNotResumed'
  BY <1>0, <1>8, CallbackMission, States DEF Callback
<1>9. ASSUME NEW e \in Effect, ReconcileEffect(e) PROVE CancelledIsNotResumed'
  BY <1>9, ReconcileMission, States DEF ReconcileEffect
<1>10. CASE Cancel
  BY <1>10, CancelMoves, States
<1>11. QED BY <1>1, <1>2, <1>3, <1>4, <1>5, <1>6, <1>7, <1>8, <1>9, <1>10 DEF Next

\* A cancelled mission's optional effects keep their dispatches, and its
\* operation its status.
LEMMA StartsNothing ==
  TypeOK /\ MissionInv /\ CancelInv /\ [Next]_vars =>
    (cancelled => operation' = operation /\ \A e \in Optional : dispatch'[e] = dispatch[e])
<1> SUFFICES ASSUME TypeOK, MissionInv, CancelInv, [Next]_vars, cancelled
             PROVE  operation' = operation /\ \A e \in Optional : dispatch'[e] = dispatch[e]
  OBVIOUS
<1> DEFINE Kept == operation' = operation /\ \A e \in Optional : dispatch'[e] = dispatch[e]
<1>1. ASSUME NEW event \in PlanningEvents, Plan(event) PROVE Kept
  BY <1>1 DEF Plan
<1>2. CASE ApprovalGranted
  <2>1. Approving \notin Late \cup Ends
    BY DEF Late, Ends, Approving, Reconciling, AskReconcile, Observing, Verifying, Succeeded, AskVerify,
           State
  <2>2. QED BY <1>2, <2>1, Steps DEF ApprovalGranted, CancelInv
<1>3. CASE \/ ApprovalLapses \/ ActivateLapsed \/ ReconcileOperation \/ ExecutionDeadline
           \/ VerificationStore
  BY <1>3 DEF ApprovalLapses, ActivateLapsed, ReconcileOperation, ExecutionDeadline, VerificationStore
<1>4. CASE GiveUp \/ DeadlinePasses \/ VerificationRead \/ UNCHANGED vars
  BY <1>4 DEF GiveUp, DeadlinePasses, VerificationRead, record, vars
<1>5. ASSUME NEW responseLost \in BOOLEAN, Activate(responseLost) PROVE FALSE
  BY <1>5 DEF Activate, CancelInv
<1>6. CASE Arrival
  BY <1>6 DEF Arrival, MayStart
<1>7. ASSUME NEW e \in Effect, Send(e) PROVE Kept
  BY <1>7 DEF Send, CancelInv, TypeOK, Optional
<1>8. ASSUME NEW e \in Effect, GatewayActs(e) PROVE Kept
  BY <1>8 DEF GatewayActs, record
<1>9. ASSUME NEW e \in Effect, Callback(e) PROVE Kept
  BY <1>9 DEF Callback, TypeOK, Optional
<1>10. ASSUME NEW e \in Effect, ReconcileEffect(e) PROVE Kept
  BY <1>10, ReconcileMission DEF ReconcileEffect, TypeOK, Optional
<1>11. CASE Cancel
  BY <1>11 DEF Cancel
<1>12. QED BY <1>1, <1>2, <1>3, <1>4, <1>5, <1>6, <1>7, <1>8, <1>9, <1>10, <1>11 DEF Next

-----------------------------------------------------------------------------
LEMMA InvInit == Init => IInv
<1> SUFFICES ASSUME Init PROVE IInv
  OBVIOUS
<1>1. TypeOK /\ MissionInv
  BY TypeInit
<1>2. CancelInv
  BY DEF Init, CancelInv, Ends, Planning, State
<1>3. EffectInv
  BY DEF Init, EffectInv, Milestone, Effect
<1>4. mission \notin Late /\ mission.phase # "verify" /\ mission.status \notin {"succeeded", "cancelled"}
      /\ mission # Reconciling
  BY DEF Init, Late, Planning, Reconciling, AskReconcile, Observing, Verifying, Succeeded, AskVerify,
         State
<1>5. ExecutionInv /\ VerifiedWhenOver
  BY <1>4 DEF Init, ExecutionInv, VerifiedWhenOver
<1>6. RecordedUnlockHasRelock /\ CancelledIsSettled /\ LostResponseIsDriven /\ CancelledIsNotResumed
  BY <1>4 DEF Init, RecordedUnlockHasRelock, CancelledIsSettled, LostResponseIsDriven,
              CancelledIsNotResumed, Milestone, Effect
<1>7. QED BY <1>1, <1>2, <1>3, <1>5, <1>6 DEF IInv

LEMMA InvStep == IInv /\ [Next]_vars => IInv'
BY TypeStep, MissionStep, CancelStep, EffectStep, ExecutionStep, RelockStep, SettledStep, DrivenStep,
   NotResumedStep DEF IInv

\* The invariant the theorems below are read off.
THEOREM MissionInvariant == Spec => []IInv
BY InvInit, InvStep, PTL DEF Spec

\* The mission's variables keep their types.
THEOREM MissionTypeCorrect == Spec => []TypeOK
<1>1. IInv => TypeOK
  BY DEF IInv
<1>2. QED BY <1>1, MissionInvariant, PTL

\* A verdict is about an execution that is over, whatever callback comes late.
THEOREM VerdictsAreFinal == Spec => []VerifiedWhenOver
<1>1. IInv => VerifiedWhenOver
  BY DEF IInv
<1>2. QED BY <1>1, MissionInvariant, PTL

\* After a cancellation nothing is activated, materialized or sent but the relock.
THEOREM CancellationStops == Spec => CancelledStartsNothing
<1>1. IInv /\ [Next]_vars =>
        [cancelled => /\ operation' = operation
                      /\ \A e \in Optional : dispatch'[e] = dispatch[e]]_vars
  BY StartsNothing DEF IInv
<1>2. QED BY <1>1, MissionInvariant, PTL DEF Spec, CancelledStartsNothing

\* A cancelled mission has settled everything but the calls it withdrew.
THEOREM CancellationSettles == Spec => []CancelledIsSettled
<1>1. IInv => CancelledIsSettled
  BY DEF IInv
<1>2. QED BY <1>1, MissionInvariant, PTL

\* A recorded unlock has its relock, cancelled or not.
THEOREM UnlocksHaveRelocks == Spec => []RecordedUnlockHasRelock
<1>1. IInv => RecordedUnlockHasRelock
  BY DEF IInv
<1>2. QED BY <1>1, MissionInvariant, PTL

\* A lost response is always followed by its reconciliation job.
THEOREM LostResponsesAreDriven == Spec => []LostResponseIsDriven
<1>1. IInv => LostResponseIsDriven
  BY DEF IInv
<1>2. QED BY <1>1, MissionInvariant, PTL

\* Without a lost response no cancelled mission goes back to work.
THEOREM CancelledStaysCancelled == Spec => []CancelledIsNotResumed
<1>1. IInv => CancelledIsNotResumed
  BY DEF IInv
<1>2. QED BY <1>1, MissionInvariant, PTL

-----------------------------------------------------------------------------
\* The deadline's job stays until the deadline, and longer where the mission
\* observes; the verification's stays while the mission verifies.
JobsInv ==
  /\ execution # "none" /\ ~overdue => "execution.deadline" \in jobs
  /\ mission = Observing /\ ~lost => "execution.deadline" \in jobs
  /\ mission = Verifying => "mission.verify" \in jobs

\* A deadline's job that is handled late finds the mission ready, if it observes.
LEMMA LateIsReady ==
  ASSUME overdue, mission = Observing
  PROVE  Ready(Readiness(milestone))
BY DEF Readiness, Ready

\* What a step does to the mission where it may begin to observe or to verify.
LEMMA WorkSteps ==
  ASSUME MissionInv, [Next]_vars
  PROVE  /\ mission' = Observing =>
              \/ mission = Observing \/ ReconcileOperation
              \/ Activate(FALSE)
         /\ mission' = Verifying =>
              \/ mission = Verifying \/ ExecutionDeadline
              \/ \E e \in Effect : Callback(e)
<1>0. /\ {Observing, Verifying} \cap (Early \cup {Executing, Reconciling, Succeeded, AskVerify,
                                                  AskReconcile} \cup Ends) = {}
      /\ Observing # Verifying /\ Executing \notin Early
  BY DEF Early, Ends, Planning, Validating, Approving, Executing, Observing, Verifying, Succeeded,
         AskVerify, AskReconcile, Reconciling, State
<1>1. ASSUME NEW event \in PlanningEvents, Plan(event) PROVE mission' \in Early
  BY <1>1, Steps DEF Plan
<1>2. ApprovalGranted => mission' = Executing
  BY Steps DEF ApprovalGranted
<1>3. ASSUME \/ ApprovalLapses \/ ActivateLapsed \/ GiveUp \/ Arrival \/ DeadlinePasses
             \/ VerificationRead \/ UNCHANGED vars \/ \E e \in Effect : Send(e) \/ GatewayActs(e)
      PROVE  mission' = mission
  BY <1>3 DEF ApprovalLapses, ActivateLapsed, GiveUp, Arrival, DeadlinePasses, VerificationRead,
              Send, GatewayActs, record, vars
<1>4. ASSUME NEW responseLost \in BOOLEAN, Activate(responseLost)
      PROVE  IF responseLost THEN mission' = Reconciling ELSE mission' = Observing
  BY <1>4, Steps DEF Activate
<1>5. ReconcileOperation => mission' = Observing
  BY Steps DEF ReconcileOperation
<1>6. ExecutionDeadline => mission' \in {mission, Verifying}
  BY Advance DEF ExecutionDeadline
<1>7. ASSUME NEW e \in Effect, Callback(e) PROVE mission' \in {mission, Verifying} \cup Ends
  BY <1>7, CallbackMission, States
<1>8. ASSUME NEW e \in Effect, ReconcileEffect(e) PROVE mission' \in {mission, AskReconcile} \cup Ends
  BY <1>8, ReconcileMission, States
<1>9. VerificationStore => mission' \in {Succeeded, AskVerify}
  BY Steps DEF VerificationStore
<1>10. Cancel => mission' \in {Reconciling} \cup Ends
  BY CancelMoves
<1>11. QED BY <1>0, <1>1, <1>2, <1>3, <1>4, <1>5, <1>6, <1>7, <1>8, <1>9, <1>10 DEF Next

\* A job that is still needed is not consumed.
LEMMA JobsStay ==
  ASSUME MissionInv, [Next]_vars
  PROVE  /\ "execution.deadline" \in jobs => "execution.deadline" \in jobs' \/ ExecutionDeadline
         /\ "mission.verify" \in jobs =>
              "mission.verify" \in jobs' \/ VerificationStore \/ mission # Verifying
<1>1. ASSUME NEW event \in PlanningEvents, Plan(event) PROVE jobs' = jobs
  BY <1>1 DEF Plan
<1>2. ASSUME \/ ApprovalGranted \/ ApprovalLapses \/ ActivateLapsed \/ Arrival \/ DeadlinePasses
             \/ VerificationRead \/ UNCHANGED vars \/ \E e \in Effect : GatewayActs(e)
      PROVE  jobs' = jobs
  BY <1>2 DEF ApprovalGranted, ApprovalLapses, ActivateLapsed, Arrival, DeadlinePasses,
              VerificationRead, GatewayActs, vars
<1>3. ASSUME \/ \E responseLost \in BOOLEAN : Activate(responseLost)
             \/ \E e \in Effect : Send(e) \/ Callback(e)
             \/ Cancel
      PROVE  jobs \subseteq jobs'
  <2>1. ASSUME NEW e \in Effect, Callback(e) PROVE jobs \subseteq jobs'
    BY <2>1, CallbackMission
  <2>2. QED BY <1>3, <2>1 DEF Activate, Send, Cancel
<1>4. ASSUME NEW e \in Effect, ReconcileEffect(e)
      PROVE  \A t \in {"execution.deadline", "mission.verify"} : t \in jobs => t \in jobs'
  BY <1>4 DEF ReconcileEffect, Consume, Effect
<1>5. ASSUME ReconcileOperation \/ GiveUp
      PROVE  /\ "execution.deadline" \in jobs => "execution.deadline" \in jobs'
             /\ "mission.verify" \in jobs => "mission.verify" \in jobs' \/ mission # Verifying
  BY <1>5 DEF ReconcileOperation, GiveUp, Consume
<1>6. ExecutionDeadline => ("mission.verify" \in jobs => "mission.verify" \in jobs')
  BY DEF ExecutionDeadline, Consume
<1>7. VerificationStore => ("execution.deadline" \in jobs => "execution.deadline" \in jobs')
  BY DEF VerificationStore, Consume
<1>8. QED BY <1>1, <1>2, <1>3, <1>4, <1>5, <1>6, <1>7 DEF Next

LEMMA JobsStep == IInv /\ JobsInv /\ [Next]_vars => JobsInv'
<1> SUFFICES ASSUME IInv, JobsInv, [Next]_vars PROVE JobsInv'
  OBVIOUS
<1> USE DEF IInv, JobsInv
<1>1. ASSUME ExecutionDeadline PROVE JobsInv'
  <2>1. overdue /\ UNCHANGED <<overdue, lost>>
    BY <1>1 DEF ExecutionDeadline
  <2>2. mission' = Observing => mission = Observing
    BY <1>1, Advance DEF ExecutionDeadline, Observing, Verifying, State
  <2>3. mission = Observing => mission' = Verifying /\ "mission.verify" \in jobs'
    <3>1. SUFFICES ASSUME mission = Observing
                   PROVE  mission' = Verifying /\ "mission.verify" \in jobs'
      OBVIOUS
    <3>2. AskVerification(Readiness(milestone)) = {"mission.verify"}
      BY <2>1, <3>1, LateIsReady DEF AskVerification
    <3>3. QED BY <1>1, <3>2, Advance DEF ExecutionDeadline, Consume
  <2>4. mission' = Verifying /\ mission # Observing => mission = Verifying
    BY <1>1, Advance DEF ExecutionDeadline
  <2>5. Observing # Verifying
    BY DEF Observing, Verifying, State
  <2>6. "mission.verify" \in jobs => "mission.verify" \in jobs'
    BY <1>1 DEF ExecutionDeadline, Consume
  <2>7. QED BY <2>1, <2>2, <2>3, <2>4, <2>5, <2>6
<1>2. ASSUME NEW responseLost \in BOOLEAN, Activate(responseLost) PROVE JobsInv'
  <2>1. "execution.deadline" \in jobs' /\ mission' \in {Reconciling, Observing}
    BY <1>2, Steps DEF Activate, Activated
  <2>2. Verifying \notin {Reconciling, Observing}
    BY DEF Reconciling, Observing, Verifying, State
  <2>3. QED BY <2>1, <2>2
<1>3. ASSUME ~ExecutionDeadline, ~ \E responseLost \in BOOLEAN : Activate(responseLost)
      PROVE  JobsInv'
  <2>1. lost' = lost /\ (execution' # "none" => execution # "none") /\ (overdue => overdue')
    <3>1. ASSUME NEW event \in PlanningEvents, Plan(event)
          PROVE  UNCHANGED <<lost, execution, overdue>>
      BY <3>1 DEF Plan
    <3>2. ASSUME NEW e \in Effect, Callback(e)
          PROVE  UNCHANGED <<lost, overdue>> /\ execution # "none"
      BY <3>2 DEF Callback, AcceptsMilestones
    <3>3. ASSUME NEW e \in Effect, Send(e) \/ GatewayActs(e) \/ ReconcileEffect(e)
          PROVE  UNCHANGED <<lost, execution, overdue>>
      BY <3>3 DEF Send, GatewayActs, ReconcileEffect, record
    <3>4. ASSUME \/ ApprovalGranted \/ ApprovalLapses \/ ActivateLapsed \/ ReconcileOperation
                 \/ GiveUp \/ Arrival \/ VerificationRead \/ VerificationStore \/ Cancel
                 \/ UNCHANGED vars
          PROVE  UNCHANGED <<lost, execution, overdue>>
      BY <3>4 DEF ApprovalGranted, ApprovalLapses, ActivateLapsed, ReconcileOperation, GiveUp,
                  Arrival, VerificationRead, VerificationStore, Cancel, record, vars
    <3>5. DeadlinePasses => UNCHANGED <<lost, execution>> /\ overdue'
      BY DEF DeadlinePasses, record
    <3>6. QED BY <1>3, <3>1, <3>2, <3>3, <3>4, <3>5 DEF Next
  <2>2. "execution.deadline" \in jobs => "execution.deadline" \in jobs'
    BY <1>3, JobsStay
  <2>3. mission' = Observing /\ ~lost => mission = Observing
    BY <1>3, WorkSteps DEF ReconcileOperation
  <2>4. mission' = Verifying => "mission.verify" \in jobs'
    <3>1. CASE mission = Verifying
      <4>1. VerificationStore => mission' \in {Succeeded, AskVerify}
        BY Steps DEF VerificationStore
      <4>2. Verifying \notin {Succeeded, AskVerify}
        BY DEF Verifying, Succeeded, AskVerify, State
      <4>3. QED BY <3>1, <4>1, <4>2, JobsStay
    <3>2. ASSUME NEW e \in Effect, Callback(e), mission # Verifying
          PROVE  mission' = Verifying => "mission.verify" \in jobs'
      <4>1. State("cancelled", "reconcile") # Verifying
        BY DEF State, Verifying
      <4>2. QED BY <3>2, <4>1, CallbackMission
    <3>3. QED BY <1>3, <3>1, <3>2, WorkSteps
  <2>5. QED BY <2>1, <2>2, <2>3, <2>4
<1>4. QED BY <1>1, <1>2, <1>3

LEMMA JobsInit == Init => JobsInv
BY DEF Init, JobsInv, Planning, Observing, Verifying, State

\* A mission that observes, verifies or reconciles a lost response has its job.
THEOREM MissionsAreDriven == Spec => []MissionIsDriven
<1>1. IInv /\ JobsInv => MissionIsDriven
  <2>1. mission = Observing => mission \in Late
    BY DEF Late
  <2>2. QED BY <2>1 DEF IInv, JobsInv, MissionIsDriven, ExecutionInv
<1>2. Spec => [](IInv /\ JobsInv)
  BY InvInit, InvStep, JobsInit, JobsStep, PTL DEF Spec
<1>3. QED BY <1>1, <1>2, PTL

\* A cancelled mission comes to succeed by a lost response only: under a transport
\* that loses none, no interleaving of arrivals, callbacks, deadlines and
\* verifications with the cancellation lets it.
THEOREM LossAloneRevives == ~ResponseMayBeLost => (Spec => []CancelledNeverSucceeds)
<1> DEFINE NoLoss == ~lost
<1>1. SUFFICES ASSUME ~ResponseMayBeLost PROVE Spec => []CancelledNeverSucceeds
  OBVIOUS
<1>2. Init => NoLoss
  BY DEF Init
<1>3. NoLoss /\ [Next]_vars => NoLoss'
  <2>1. SUFFICES ASSUME ~lost, [Next]_vars PROVE ~lost'
    OBVIOUS
  <2>2. ASSUME NEW responseLost \in BOOLEAN, Activate(responseLost) PROVE ~lost'
    BY <1>1, <2>2 DEF Activate
  <2>3. ASSUME NEW event \in PlanningEvents, Plan(event) PROVE ~lost'
    BY <2>1, <2>3 DEF Plan
  <2>4. ASSUME NEW e \in Effect, Send(e) \/ GatewayActs(e) \/ Callback(e) \/ ReconcileEffect(e)
        PROVE  ~lost'
    BY <2>1, <2>4 DEF Send, GatewayActs, Callback, ReconcileEffect, record
  <2>5. ASSUME \/ ApprovalGranted \/ ApprovalLapses \/ ActivateLapsed \/ ReconcileOperation
               \/ GiveUp \/ Arrival \/ DeadlinePasses \/ ExecutionDeadline \/ VerificationRead
               \/ VerificationStore \/ Cancel \/ UNCHANGED vars
        PROVE  ~lost'
    BY <2>1, <2>5 DEF ApprovalGranted, ApprovalLapses, ActivateLapsed, ReconcileOperation, GiveUp,
                      Arrival, DeadlinePasses, ExecutionDeadline, VerificationRead,
                      VerificationStore, Cancel, record, vars
  <2>6. QED BY <2>1, <2>2, <2>3, <2>4, <2>5 DEF Next
<1>4. CancelledIsNotResumed /\ NoLoss => CancelledNeverSucceeds
  BY DEF CancelledIsNotResumed, CancelledNeverSucceeds, Reconciling, AskReconcile, State
<1>5. QED BY <1>2, <1>3, <1>4, CancelledStaysCancelled, PTL DEF Spec
=============================================================================
