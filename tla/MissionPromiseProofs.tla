------------------------- MODULE MissionPromiseProofs -------------------------
(***************************************************************************)
(* MissionExecution keeps what a mission promises (MissionPromise), and    *)
(* each of its effects follows the rules that the gateway's record of one  *)
(* implements too (DeviceEffect, proved of it in GatewayEffectProofs).     *)
(*                                                                         *)
(* Besides IInv of MissionExecutionProofs the steps need that nothing is   *)
(* materialized twice: StartedInv says which part of the execution's       *)
(* record shows that an effect was not materialized yet, and that only a   *)
(* cancellation withdraws one.                                             *)
(***************************************************************************)
EXTENDS MissionExecutionProofs

StartedInv ==
  /\ mission \in Early \cup {Executing} => execution = "none"
  /\ operation # "committed" => execution = "none"
  /\ milestone["verified_arrival"] = "pending" =>
       dispatch["pathway_lighting"] = "none" /\ dispatch["unlock"] = "none"
  /\ milestone["unlock"] # "completed" => dispatch["relock"] = "none"
  /\ \A e \in Effect : dispatch[e] = "cancelled" => cancelled

\* Mission states before an activation are not reached again.
LEMMA BeforeActivation ==
  ASSUME MissionInv
  PROVE  /\ (Early \cup {Executing}) \cap (Late \cup Ends) = {}
         /\ mission \in Early \cup {Executing} \cup Late \cup Ends
BY States DEF MissionInv, Early, Late, Ends, Planning, Validating, Approving, Executing, Reconciling,
              AskReconcile, Observing, Verifying, Succeeded, AskVerify, State

LEMMA StartedStep ==
  IInv /\ StartedInv /\ [Next]_vars => StartedInv'
<1> SUFFICES ASSUME IInv, StartedInv, [Next]_vars PROVE StartedInv'
  OBVIOUS
<1> USE DEF IInv, StartedInv
<1>0. /\ (Early \cup {Executing}) \cap (Late \cup Ends) = {}
      /\ "verified_arrival" \notin Effect /\ Milestone = Effect \cup {"verified_arrival"}
      /\ {"pathway_lighting", "unlock", "relock"} \subseteq Effect
  BY BeforeActivation DEF Effect, Milestone
<1>1. ASSUME NEW event \in PlanningEvents, Plan(event) PROVE StartedInv'
  BY <1>1, Steps DEF Plan
<1>2. CASE ApprovalGranted
  BY <1>2, Steps DEF ApprovalGranted, Early
<1>3. CASE ApprovalLapses \/ ActivateLapsed \/ UNCHANGED vars
  BY <1>3 DEF ApprovalLapses, ActivateLapsed, vars, record
<1>4. ASSUME NEW responseLost \in BOOLEAN, Activate(responseLost) PROVE StartedInv'
  <2>1. Transition("execution_unknown") \/ Transition("execution_committed")
    BY <1>4 DEF Activate
  <2>2. mission' \in Late
    BY <2>1, Steps DEF Late
  <2>3. \A e \in Effect \ {"preheat"} : dispatch'[e] = dispatch[e]
    BY <1>4 DEF Activate, TypeOK
  <2>4. dispatch'["preheat"] = "pending"
    BY <1>4 DEF Activate, TypeOK, Effect
  <2>5. UNCHANGED <<cancelled, milestone>> /\ operation' = "committed"
    BY <1>4 DEF Activate
  <2>6. QED BY <1>0, <2>2, <2>3, <2>4, <2>5
<1>5. CASE ReconcileOperation
  BY <1>0, <1>5, Steps DEF ReconcileOperation, Late
<1>6. CASE GiveUp \/ DeadlinePasses \/ VerificationRead
  BY <1>6 DEF GiveUp, DeadlinePasses, VerificationRead, record
<1>7. CASE Arrival
  <2>1. /\ milestone'["verified_arrival"] = "completed" /\ milestone'["unlock"] = milestone["unlock"]
        /\ dispatch'["relock"] = dispatch["relock"]
    BY <1>7 DEF Arrival, TypeOK, Effect, Milestone
  <2>2. \A x \in Effect : dispatch'[x] \in {dispatch[x], "pending"}
    BY <1>7 DEF Arrival, TypeOK
  <2>3. QED BY <1>7, <2>1, <2>2 DEF Arrival
<1>8. CASE ExecutionDeadline
  <2>1. mission' = mission \/ mission' = Verifying
    BY <1>8, Advance DEF ExecutionDeadline
  <2>2. execution = "none" => execution' = "none"
    BY <1>8 DEF ExecutionDeadline, Ended
  <2>3. QED BY <1>0, <1>8, <2>1, <2>2 DEF ExecutionDeadline, Late
<1>9. ASSUME NEW e \in Effect, Send(e) PROVE StartedInv'
  BY <1>0, <1>9 DEF Send, TypeOK
<1>10. ASSUME NEW e \in Effect, GatewayActs(e) PROVE StartedInv'
  BY <1>10 DEF GatewayActs, record
<1>11. ASSUME NEW e \in Effect, Callback(e) PROVE StartedInv'
  <2>1. mission' = mission \/ mission' \in Late \cup Ends
    BY <1>11, CallbackMission, States DEF Late
  <2>2. execution = "running" /\ operation' = operation
    BY <1>11 DEF Callback, AcceptsMilestones
  <2>3. /\ milestone'["verified_arrival"] = milestone["verified_arrival"]
        /\ \A x \in Effect \ {"relock"} : dispatch'[x] = dispatch[x]
    BY <1>0, <1>11 DEF Callback, TypeOK
  <2>4. milestone'["unlock"] # "completed" => dispatch'["relock"] = "none"
    BY <1>0, <1>11 DEF Callback, TypeOK
  <2>5. dispatch'["relock"] # "cancelled" /\ cancelled' = cancelled
    BY <1>11 DEF Callback, TypeOK, EffectInv
  <2>6. QED BY <1>0, <2>1, <2>2, <2>3, <2>4, <2>5
<1>12. ASSUME NEW e \in Effect, ReconcileEffect(e) PROVE StartedInv'
  <2>1. mission' = mission \/ mission' \in Late \cup Ends
    BY <1>12, ReconcileMission, States DEF Late
  <2>2. \A x \in Effect : dispatch[x] = "none" => dispatch'[x] = "none"
    BY <1>12, ReconcileMission DEF TypeOK
  <2>3. UNCHANGED <<execution, operation, milestone, cancelled>>
    BY <1>12 DEF ReconcileEffect
  <2>4. \A x \in Effect : dispatch'[x] = "cancelled" => dispatch[x] = "cancelled"
    BY <1>12, ReconcileMission DEF TypeOK
  <2>5. QED BY <1>0, <2>1, <2>2, <2>3, <2>4
<1>13. CASE VerificationStore
  <2>1. Transition("verification_passed") \/ Transition("intervention_required")
    BY <1>13 DEF VerificationStore
  <2>2. mission' \in Late
    BY <2>1, Steps DEF Late
  <2>3. QED BY <1>0, <1>13, <2>2 DEF VerificationStore
<1>14. CASE Cancel
  <2>1. mission' \in Late \cup Ends
    BY <1>14, CancelMoves DEF Late
  <2>2. operation # "committed" => operation' # "committed"
    BY <1>14 DEF Cancel
  <2>3. \A x \in Effect : dispatch[x] = "none" => dispatch'[x] = "none"
    BY <1>14 DEF Cancel, Withdrawable
  <2>4. operation' = operation \/ operation = "pending"
    BY <1>14 DEF Cancel
  <2>5. QED BY <1>0, <1>14, <2>1, <2>3, <2>4 DEF Cancel
<1>15. QED BY <1>1, <1>2, <1>3, <1>4, <1>5, <1>6, <1>7, <1>8, <1>9, <1>10, <1>11, <1>12, <1>13,
              <1>14 DEF Next

LEMMA StartedInit == Init => StartedInv
BY DEF Init, StartedInv, Effect, Milestone

THEOREM StartedInvariant == Spec => [](IInv /\ StartedInv)
BY StartedInit, StartedStep, InvInit, InvStep, PTL DEF Spec

-----------------------------------------------------------------------------
\* An effect that was not materialized has no call and no outcome.
LEMMA NotStarted ==
  ASSUME IInv, NEW e \in Effect, dispatch[e] = "none"
  PROVE  e \notin called /\ milestone[e] = "pending"
BY DEF IInv, EffectInv, TypeOK, Milestone, Effect

\* Every effect follows the rules of DeviceEffect: activation, arrival and the
\* recorded unlock materialize it, the poll of a call in doubt retries it, a
\* callback records it, a cancellation stops it.
LEMMA DeviceInit == Init => \A e \in Effect : Device(e)!Init
BY DEF Init, Device!Init, Effect, Milestone

LEMMA DeviceStep ==
  ASSUME IInv, StartedInv, [Next]_vars, NEW x \in Effect
  PROVE  [Device(x)!Next]_(Device(x)!vars)
<1> DEFINE Goal == [Device(x)!Next]_(Device(x)!vars)
           Same == UNCHANGED Device(x)!vars
<1> USE DEF IInv
<1>1. ASSUME UNCHANGED <<called, cancelled, milestone, dispatch>> PROVE Same
  BY <1>1 DEF Device!vars
<1>2. CASE \/ \E event \in PlanningEvents : Plan(event)
           \/ ApprovalGranted \/ ApprovalLapses \/ ActivateLapsed \/ ReconcileOperation
           \/ ExecutionDeadline \/ VerificationStore
  BY <1>1, <1>2 DEF Plan, ApprovalGranted, ApprovalLapses, ActivateLapsed, ReconcileOperation,
                    ExecutionDeadline, VerificationStore
<1>3. CASE \/ GiveUp \/ DeadlinePasses \/ VerificationRead \/ UNCHANGED vars
           \/ \E e \in Effect : GatewayActs(e)
  BY <1>1, <1>3 DEF GiveUp, DeadlinePasses, VerificationRead, GatewayActs, vars, record
<1>4. ASSUME NEW responseLost \in BOOLEAN, Activate(responseLost) PROVE Goal
  <2>1. /\ operation = "pending" /\ UNCHANGED <<called, cancelled, milestone>>
        /\ dispatch' = [dispatch EXCEPT !["preheat"] = "pending"]
    BY <1>4 DEF Activate
  <2>2. ~cancelled /\ dispatch["preheat"] = "none"
    BY <2>1 DEF CancelInv, StartedInv, ExecutionInv, Effect
  <2>3. CASE x = "preheat"
    <3>1. Device(x)!Materialize
      BY <2>1, <2>2, <2>3 DEF Device!Materialize, TypeOK
    <3>2. QED BY <3>1 DEF Device!Next
  <2>4. CASE x # "preheat"
    BY <2>1, <2>4 DEF Device!vars, TypeOK
  <2>5. QED BY <2>3, <2>4
<1>5. CASE Arrival
  <2>1. /\ ~cancelled /\ milestone["verified_arrival"] = "pending" /\ UNCHANGED <<called, cancelled>>
        /\ dispatch' = [dispatch EXCEPT !["pathway_lighting"] = "pending", !["unlock"] = "pending"]
        /\ milestone' = [milestone EXCEPT !["verified_arrival"] = "completed"]
    BY <1>5 DEF Arrival, MayStart
  <2>2. milestone'[x] = milestone[x]
    BY <2>1 DEF TypeOK, Effect, Milestone
  <2>3. CASE x \in {"pathway_lighting", "unlock"}
    <3>1. dispatch[x] = "none" /\ dispatch'[x] = "pending"
      BY <2>1, <2>3 DEF StartedInv, TypeOK
    <3>2. Device(x)!Materialize
      BY <2>1, <2>2, <3>1 DEF Device!Materialize
    <3>3. QED BY <3>2 DEF Device!Next
  <2>4. CASE x \notin {"pathway_lighting", "unlock"}
    BY <2>1, <2>2, <2>4 DEF Device!vars, TypeOK
  <2>5. QED BY <2>3, <2>4
<1>6. ASSUME NEW e \in Effect, Send(e) PROVE Goal
  <2>1. /\ dispatch[e] = "pending" /\ milestone[e] = "pending" /\ UNCHANGED <<cancelled, milestone>>
        /\ dispatch' = [dispatch EXCEPT ![e] = "sent"] /\ called' = called \cup {e}
    BY <1>6 DEF Send
  <2>2. CASE x = e
    <3>1. Device(x)!Send
      BY <2>1, <2>2 DEF Device!Send, TypeOK, CancelInv
    <3>2. QED BY <3>1 DEF Device!Next
  <2>3. CASE x # e
    BY <2>1, <2>3 DEF Device!vars, TypeOK
  <2>4. QED BY <2>2, <2>3
<1>7. ASSUME NEW e \in Effect, Callback(e) PROVE Goal
  <2>1. /\ gateway[e] # "none" /\ milestone[e] = "pending" /\ UNCHANGED <<called, cancelled>>
        /\ milestone' = [milestone EXCEPT ![e] = gateway[e]]
        /\ dispatch' = IF e = "unlock" /\ gateway[e] = "completed"
                       THEN [dispatch EXCEPT !["relock"] = "pending"] ELSE dispatch
    BY <1>7 DEF Callback
  <2>2. CASE x = e
    <3>1. x \in called /\ gateway[x] \in {"completed", "failed"} /\ dispatch'[x] = dispatch[x]
      BY <2>1, <2>2 DEF EffectInv, TypeOK
    <3>2. Device(x)!Record
      BY <2>1, <2>2, <3>1 DEF Device!Record, TypeOK, Milestone, Effect
    <3>3. QED BY <3>2 DEF Device!Next
  <2>3. CASE x # e /\ dispatch'[x] # dispatch[x]
    <3>1. x = "relock" /\ e = "unlock"
      BY <2>1, <2>3 DEF TypeOK
    <3>2. dispatch[x] = "none" /\ dispatch'[x] = "pending" /\ x \notin Optional
      BY <2>1, <2>3, <3>1 DEF StartedInv, TypeOK, Optional
    <3>3. milestone'[x] = milestone[x]
      BY <2>1, <2>3 DEF TypeOK
    <3>4. Device(x)!Materialize
      BY <2>1, <3>2, <3>3 DEF Device!Materialize
    <3>5. QED BY <3>4 DEF Device!Next
  <2>4. CASE x # e /\ dispatch'[x] = dispatch[x]
    BY <2>1, <2>4 DEF Device!vars, TypeOK
  <2>5. QED BY <2>2, <2>3, <2>4
<1>8. ASSUME NEW e \in Effect, ReconcileEffect(e) PROVE Goal
  <2>1. UNCHANGED <<called, cancelled, milestone>>
    BY <1>8 DEF ReconcileEffect
  <2>2. CASE dispatch' = dispatch
    BY <1>1, <2>1, <2>2
  <2>3. CASE /\ dispatch[e] = "sent" /\ milestone[e] = "pending" /\ (cancelled => e \notin Optional)
             /\ dispatch' = [dispatch EXCEPT ![e] = "pending"]
    <3>1. CASE x = e
      <4>1. Device(x)!Retry
        BY <2>1, <2>3, <3>1 DEF Device!Retry, TypeOK
      <4>2. QED BY <4>1 DEF Device!Next
    <3>2. CASE x # e
      BY <2>1, <2>3, <3>2 DEF Device!vars, TypeOK
    <3>3. QED BY <3>1, <3>2
  <2>4. QED BY <1>8, <2>2, <2>3, ReconcileMission
<1>9. CASE Cancel
  <2>1. /\ ~cancelled /\ cancelled' = TRUE /\ UNCHANGED <<called, milestone>>
        /\ dispatch'[x] = IF Withdrawable(x) THEN "cancelled" ELSE dispatch[x]
    BY <1>9 DEF Cancel
  <2>2. CASE x \in Optional
    <3>1. Device(x)!Stop
      BY <2>1, <2>2 DEF Device!Stop, Withdrawable
    <3>2. QED BY <3>1 DEF Device!Next
  <2>3. CASE x \notin Optional
    BY <2>1, <2>3 DEF Device!vars, Withdrawable
  <2>4. QED BY <2>2, <2>3
<1>10. QED BY <1>2, <1>3, <1>4, <1>5, <1>6, <1>7, <1>8, <1>9 DEF Next

\* Each of the mission's effects follows the rules that the gateway's record of
\* it implements: started, sent and retried while it is not stopped, recorded once.
THEOREM EffectsFollowTheirRules == Spec => ImplementsDevices
<1>1. IInv /\ StartedInv /\ [Next]_vars =>
        [\A e \in Effect : [Device(e)!Next]_(Device(e)!vars)]_vars
  BY DeviceStep
<1>2. QED BY <1>1, DeviceInit, StartedInvariant, PTL DEF ImplementsDevices, Spec

-----------------------------------------------------------------------------
\* The household's view of the mission's states.
LEMMA EndingOf ==
  /\ mission \in Early \cup {Executing, Reconciling, Observing, Verifying} => Ending = "open"
  /\ mission \in {AskReconcile, AskVerify} => Ending = "asking"
  /\ mission = Succeeded => Ending = "succeeded"
  /\ mission \in Ends => Ending = "cancelled"
BY DEF Ending, Early, Ends, Planning, Validating, Approving, Executing, Reconciling, Observing,
       Verifying, AskReconcile, AskVerify, Succeeded, State

\* While the execution runs and the mission is not cancelled, it has not ended.
LEMMA RunningIsOpen ==
  ASSUME IInv, ~cancelled, execution # "observed"
  PROVE  Ending \in {"open", "asking"}
<1>1. mission \notin Ends /\ mission.status # "succeeded"
  BY DEF IInv, CancelInv, VerifiedWhenOver
<1>2. mission # Succeeded
  BY <1>1 DEF Succeeded, State
<1>3. QED BY <1>1, <1>2, EndingOf DEF IInv, MissionInv, Late

\* When every effect has its outcome or was withdrawn, nothing is owed.
LEMMA SafeOwesNothing ==
  ASSUME CancellationIsSafe(milestone, dispatch)
  PROVE  Owed = {}
BY DEF CancellationIsSafe, Owed

\* How a step leaves the mission: Ending, in the words of MissionPromise.
LEMMA EndingStep ==
  ASSUME IInv, StartedInv, [Next]_vars
  PROVE  Promise!Ending
<1> USE DEF IInv
<1> DEFINE Open == Early \cup {Executing, Reconciling, Observing, Verifying}
<1>1. ASSUME mission' = mission PROVE Promise!Ending
  BY <1>1 DEF Promise!Ending, Ending
<1>2. ASSUME mission \in Open, mission' \in Open PROVE Promise!Ending
  <2>1. Ending = "open"
    BY <1>2, EndingOf
  <2>2. Ending' = "open"
    BY <1>2 DEF Ending, Early, Planning, Validating, Approving, Executing, Reconciling, Observing,
                Verifying, AskReconcile, AskVerify, State
  <2>3. QED BY <2>1, <2>2 DEF Promise!Ending
<1>3. ASSUME mission \in Open, mission' \in {AskReconcile, AskVerify} PROVE Promise!Ending
  <2>1. Ending = "open"
    BY <1>3, EndingOf
  <2>2. Ending' = "asking"
    BY <1>3 DEF Ending, AskReconcile, AskVerify, State
  <2>3. QED BY <2>1, <2>2 DEF Promise!Ending
<1>4. ASSUME mission \in Open \cup {AskReconcile, AskVerify}, mission' \in Ends, cancelled', Owed' = {}
      PROVE  Promise!Ending
  <2>1. Ending \in {"open", "asking"}
    BY <1>4, EndingOf
  <2>2. Ending' = "cancelled"
    BY <1>4 DEF Ending, Ends, AskReconcile, AskVerify, State
  <2>3. QED BY <1>4, <2>1, <2>2 DEF Promise!Ending
<1>5. ASSUME NEW event \in PlanningEvents, Plan(event) PROVE Promise!Ending
  BY <1>2, <1>5, Steps DEF Plan
<1>6. CASE ApprovalGranted
  BY <1>2, <1>6, Steps DEF ApprovalGranted, Early
<1>7. CASE \/ ApprovalLapses \/ ActivateLapsed \/ GiveUp \/ Arrival \/ DeadlinePasses
           \/ VerificationRead \/ UNCHANGED vars \/ \E e \in Effect : Send(e) \/ GatewayActs(e)
  BY <1>1, <1>7 DEF ApprovalLapses, ActivateLapsed, GiveUp, Arrival, DeadlinePasses, VerificationRead,
                    Send, GatewayActs, record, vars
<1>8. ASSUME NEW responseLost \in BOOLEAN, Activate(responseLost) PROVE Promise!Ending
  <2>1. Transition("execution_unknown") \/ Transition("execution_committed")
    BY <1>8 DEF Activate
  <2>2. QED BY <1>2, <2>1, Steps
<1>9. CASE ReconcileOperation
  BY <1>2, <1>9, Steps DEF ReconcileOperation
<1>10. CASE ExecutionDeadline
  BY <1>1, <1>2, <1>10, Advance DEF ExecutionDeadline
<1>11. ASSUME NEW e \in Effect, Callback(e) PROVE Promise!Ending
  <2>1. CASE /\ cancelled /\ CancellationIsSafe(milestone', dispatch')
             /\ mission = Reconciling /\ mission' = State("cancelled", "reconcile")
    <3>1. Owed' = {}
      BY <2>1 DEF CancellationIsSafe, Owed
    <3>2. cancelled' = cancelled
      BY <1>11 DEF Callback
    <3>3. QED BY <1>4, <2>1, <3>1, <3>2, States
  <2>2. QED BY <1>1, <1>2, <1>11, <2>1, CallbackMission
<1>12. ASSUME NEW e \in Effect, ReconcileEffect(e) PROVE Promise!Ending
  <2>1. CASE /\ dispatch' = dispatch /\ cancelled /\ CancellationIsSafe(milestone, dispatch)
             /\ mission = Reconciling /\ mission' = State("cancelled", "reconcile")
    <3>1. UNCHANGED <<cancelled, milestone>>
      BY <1>12 DEF ReconcileEffect
    <3>2. Owed' = Owed
      BY <2>1, <3>1 DEF Owed
    <3>3. QED BY <1>4, <2>1, <3>1, <3>2, SafeOwesNothing, States
  <2>2. QED BY <1>1, <1>3, <1>12, <2>1, ReconcileMission
<1>13. CASE VerificationStore
  <2>1. mission = Verifying /\ (verdict = "passed" \/ Transition("intervention_required"))
    BY <1>13 DEF VerificationStore
  <2>2. CASE mission' = AskVerify
    BY <1>3, <2>1, <2>2
  <2>3. CASE Transition("verification_passed") /\ verdict = "passed"
    <3>1. mission' = Succeeded /\ AllCompleted /\ milestone' = milestone
      BY <1>13, <2>3, Steps DEF VerificationStore, ExecutionInv
    <3>2. Ending = "open"
      BY <2>1, EndingOf
    <3>3. Ending' = "succeeded"
      BY <3>1 DEF Ending, Succeeded, AskReconcile, AskVerify, State
    <3>4. QED BY <3>1, <3>2, <3>3 DEF Promise!Ending, AllCompleted
  <2>4. QED BY <1>13, <2>1, <2>2, <2>3, Steps DEF VerificationStore
<1>14. CASE Cancel
  <2>1. CASE RequiresReconciliation
    BY <1>2, <1>14, <2>1, CancelMoves
  <2>2. CASE ~RequiresReconciliation
    <3>1. mission.status \notin TerminalStatus /\ mission' \in Ends
      BY <1>14, <2>2, CancelMoves
    <3>2. mission \in Open \cup {AskReconcile, AskVerify}
      BY <3>1, States DEF MissionInv, Late, TerminalStatus, Succeeded, State
    <3>3. \A e \in Effect : dispatch'[e] \in {"none", "cancelled"}
      BY <1>14, <2>2 DEF Cancel, RequiresReconciliation
    <3>4. Owed' = {} /\ cancelled'
      BY <1>14, <3>3 DEF Owed, Cancel
    <3>5. QED BY <1>4, <3>1, <3>2, <3>4
  <2>3. QED BY <2>1, <2>2
<1>15. QED BY <1>5, <1>6, <1>7, <1>8, <1>9, <1>10, <1>11, <1>12, <1>13, <1>14 DEF Next

\* What a step does to the debts: a start, a record, a stop, or nothing.
LEMMA DebtStep ==
  ASSUME IInv, StartedInv, [Next]_vars
  PROVE  \/ \E S \in SUBSET Effect, M \in SUBSET (Milestone \ Effect) : Promise!Start(S, M)
         \/ \E e \in Effect, r \in {"completed", "failed"} : Promise!Record(e, r)
         \/ \E S \in SUBSET Effect : Promise!Stop(S)
         \/ UNCHANGED <<cancelled, Owed, milestone>>
<1> DEFINE Same == UNCHANGED <<cancelled, Owed, milestone>>
           Starts == \E S \in SUBSET Effect, M \in SUBSET (Milestone \ Effect) : Promise!Start(S, M)
<1> USE DEF IInv
<1>1. ASSUME UNCHANGED <<cancelled, milestone, dispatch>> PROVE Same
  BY <1>1 DEF Owed
<1>2. CASE \/ \E event \in PlanningEvents : Plan(event)
           \/ ApprovalGranted \/ ApprovalLapses \/ ActivateLapsed \/ ReconcileOperation
           \/ ExecutionDeadline \/ VerificationStore
  BY <1>1, <1>2 DEF Plan, ApprovalGranted, ApprovalLapses, ActivateLapsed, ReconcileOperation,
                    ExecutionDeadline, VerificationStore
<1>3. CASE \/ GiveUp \/ DeadlinePasses \/ VerificationRead \/ UNCHANGED vars
           \/ \E e \in Effect : GatewayActs(e)
  BY <1>1, <1>3 DEF GiveUp, DeadlinePasses, VerificationRead, GatewayActs, vars, record
<1>4. ASSUME NEW responseLost \in BOOLEAN, Activate(responseLost) PROVE Starts
  <2>1. /\ operation = "pending" /\ UNCHANGED <<cancelled, milestone>>
        /\ dispatch' = [dispatch EXCEPT !["preheat"] = "pending"]
    BY <1>4 DEF Activate
  <2>2. ~cancelled /\ execution = "none" /\ dispatch["preheat"] = "none"
    BY <2>1 DEF CancelInv, StartedInv, ExecutionInv, Effect
  <2>3. milestone["preheat"] = "pending" /\ "preheat" \in Effect
    BY <2>2, NotStarted DEF Effect
  <2>4. Owed' = Owed \cup {"preheat"}
    BY <2>1, <2>3 DEF Owed, TypeOK
  <2>5. milestone' = [m \in Milestone |-> IF m \in {} THEN "completed" ELSE milestone[m]]
    BY <2>1 DEF TypeOK
  <2>6. Promise!Start({"preheat"}, {})
    BY <2>1, <2>2, <2>3, <2>4, <2>5, RunningIsOpen DEF Promise!Start
  <2>7. QED BY <2>3, <2>6
<1>5. CASE Arrival
  <2>1. /\ ~cancelled /\ milestone["verified_arrival"] = "pending" /\ UNCHANGED cancelled
        /\ execution = "running"
        /\ dispatch' = [dispatch EXCEPT !["pathway_lighting"] = "pending", !["unlock"] = "pending"]
        /\ milestone' = [milestone EXCEPT !["verified_arrival"] = "completed"]
    BY <1>5 DEF Arrival, MayStart
  <2>2. \A e \in {"pathway_lighting", "unlock"} : e \in Effect /\ milestone[e] = "pending"
    BY <2>1, NotStarted DEF StartedInv, Effect
  <2>3. "verified_arrival" \in Milestone \ Effect /\ Effect \subseteq Milestone
    BY DEF Milestone, Effect
  <2>4. \A e \in Effect : milestone'[e] = milestone[e]
    BY <2>1, <2>3 DEF TypeOK
  <2>5. Owed' = Owed \cup {"pathway_lighting", "unlock"}
    BY <2>1, <2>2, <2>4 DEF Owed, TypeOK
  <2>6. milestone' = [m \in Milestone |->
                       IF m \in {"verified_arrival"} THEN "completed" ELSE milestone[m]]
    BY <2>1 DEF TypeOK
  <2>7. Promise!Start({"pathway_lighting", "unlock"}, {"verified_arrival"})
    BY <2>1, <2>2, <2>5, <2>6, RunningIsOpen DEF Promise!Start
  <2>8. QED BY <2>2, <2>3, <2>7
<1>6. ASSUME NEW e \in Effect, Send(e) PROVE Same
  BY <1>6 DEF Send, Owed, TypeOK
<1>7. ASSUME NEW e \in Effect, Callback(e) PROVE Promise!Record(e, gateway[e]) /\ gateway[e] \in {"completed", "failed"}
  <2>1. /\ gateway[e] # "none" /\ milestone[e] = "pending" /\ UNCHANGED cancelled
        /\ milestone' = [milestone EXCEPT ![e] = gateway[e]]
        /\ dispatch' = IF e = "unlock" /\ gateway[e] = "completed"
                       THEN [dispatch EXCEPT !["relock"] = "pending"] ELSE dispatch
    BY <1>7 DEF Callback
  <2>2. gateway[e] \in {"completed", "failed"}
    BY <2>1 DEF TypeOK
  <2>3. \A x \in Effect : milestone'[x] = IF x = e THEN gateway[e] ELSE milestone[x]
    BY <2>1 DEF TypeOK, Milestone
  <2>4. e \in Owed \/ (cancelled /\ e # "relock")
    <3>1. dispatch[e] \in {"pending", "sent", "cancelled"}
      BY <2>1 DEF EffectInv, TypeOK
    <3>2. CASE dispatch[e] = "cancelled"
      BY <3>2 DEF EffectInv, StartedInv
    <3>3. QED BY <2>1, <3>1, <3>2 DEF Owed
  <2>5. CASE e = "unlock" /\ gateway[e] = "completed"
    <3>1. dispatch["relock"] = "none" /\ milestone["relock"] = "pending" /\ "relock" \in Effect
      BY <2>1, <2>5, NotStarted DEF StartedInv, Effect
    <3>2. \A x \in Effect : dispatch'[x] = IF x = "relock" THEN "pending" ELSE dispatch[x]
      BY <2>1, <2>5 DEF TypeOK
    <3>3. Owed' = (Owed \ {e}) \cup {"relock"}
      BY <2>2, <2>3, <2>5, <3>1, <3>2 DEF Owed
    <3>4. QED BY <2>4, <2>1, <2>2, <2>5, <3>3 DEF Promise!Record
  <2>6. CASE ~(e = "unlock" /\ gateway[e] = "completed")
    <3>1. Owed' = Owed \ {e}
      BY <2>1, <2>2, <2>3, <2>6 DEF Owed
    <3>2. QED BY <2>4, <2>1, <2>2, <2>6, <3>1 DEF Promise!Record
  <2>7. QED BY <2>5, <2>6
<1>8. ASSUME NEW e \in Effect, ReconcileEffect(e) PROVE Same
  <2>1. UNCHANGED <<cancelled, milestone>>
    BY <1>8 DEF ReconcileEffect
  <2>2. \/ dispatch' = dispatch
        \/ dispatch[e] = "sent" /\ dispatch' = [dispatch EXCEPT ![e] = "pending"]
    BY <1>8, ReconcileMission
  <2>3. QED BY <2>1, <2>2 DEF Owed, TypeOK
<1>9. CASE Cancel
  <2> DEFINE S == {e \in Effect : Withdrawable(e)}
  <2>1. /\ ~cancelled /\ cancelled' = TRUE /\ UNCHANGED milestone
        /\ \A e \in Effect : dispatch'[e] = IF Withdrawable(e) THEN "cancelled" ELSE dispatch[e]
    BY <1>9 DEF Cancel
  <2>2. S \subseteq Owed \ {"relock"}
    BY DEF Withdrawable, Owed, Optional
  <2>3. Owed' = Owed \ S
    BY <2>1 DEF Owed
  <2>4. Promise!Stop(S)
    BY <2>1, <2>2, <2>3 DEF Promise!Stop
  <2>5. QED BY <2>4
<1>10. QED BY <1>2, <1>3, <1>4, <1>5, <1>6, <1>7, <1>8, <1>9 DEF Next

\* The mission keeps its promise: what it starts it owes until it is recorded or
\* withdrawn, the lock of an unlocked door always, and it ends once, and settled.
THEOREM MissionKeepsItsPromise == Spec => ImplementsPromise
<1>1. Init => Promise!Init
  <2>1. SUFFICES ASSUME Init PROVE Promise!Init
    OBVIOUS
  <2>2. Ending = "open" /\ Owed = {}
    BY <2>1 DEF Init, Ending, Owed, Planning, AskReconcile, AskVerify, State
  <2>3. QED BY <2>1, <2>2 DEF Init, Promise!Init
<1>2. IInv /\ StartedInv /\ [Next]_vars => [Promise!Next]_(Promise!vars)
  BY EndingStep, DebtStep DEF Promise!Next
<1>3. QED BY <1>1, <1>2, StartedInvariant, PTL DEF ImplementsPromise, Promise!Spec, Spec
=============================================================================
