---------------------------- MODULE CaretakerRun ----------------------------
(***************************************************************************)
(* The Caretaker of one mission: the run it keeps in the database, the     *)
(* activation of a worker that drives it from checkpoint to checkpoint,    *)
(* and the mission, which its own tools, its user and the other jobs move  *)
(* meanwhile.                                                              *)
(*                                                                         *)
(* An activation holds the mission's lease from Acquire to its end; when   *)
(* it loses the lease every further write of it is fenced (MissionLease),  *)
(* so only the current activation is here.  A tool's handler runs once for *)
(* a call however often it is invoked (ToolLedger).  What the decision     *)
(* engine chooses, and how long things take, is free.                      *)
(***************************************************************************)
EXTENDS Naturals

CONSTANTS MaxToolCalls, MaxPlanRevisions, MaxClarifications, MaxPolls,  \* CARETAKER_BUDGETS
          MaxRuntime,  \* ... and the active runtime, in units of it
          MaxFaults    \* bound: lost leases and interrupted activations

ASSUME BudgetAssumption ==
  /\ MaxToolCalls \in Nat /\ MaxPlanRevisions \in Nat /\ MaxClarifications \in Nat
  /\ MaxPolls \in Nat /\ MaxRuntime \in Nat
ASSUME FaultAssumption == MaxFaults \in Nat

VARIABLES
  mission,  \* [status, phase]
  run,      \* the mission's latest run
  handled,  \* the handler of the pending call ran
  ran,      \* how many calls of this mission had their handler run
  cancelled,  \* the mission has a cancellation record
  host,     \* the activation under way: [pc, seen]
  wakes,    \* mission.resume jobs: `new', or `again' for an activation that was cut short
  faults

vars == <<mission, run, handled, ran, cancelled, host, wakes, faults>>

Status == {"queued", "running", "waiting_for_user", "waiting_for_system",
           "succeeded", "failed", "cancelled"}
Phase == {"understand", "plan", "validate", "approve", "execute", "reconcile", "observe", "verify"}
MissionState == [status : Status, phase : Phase]

State(status, phase) == [status |-> status, phase |-> phase]
Queued        == State("queued", "understand")
Understanding == State("running", "understand")
Planning      == State("running", "plan")
Validating    == State("running", "validate")
Executing     == State("running", "execute")
Reconciling   == State("running", "reconcile")
Verifying     == State("running", "verify")
Clarifying    == State("waiting_for_user", "plan")
Approving     == State("waiting_for_user", "approve")
Observing     == State("waiting_for_system", "observe")

TerminalStatus == {"succeeded", "failed", "cancelled"}
Terminal(m) == m.status \in TerminalStatus

\* Tools by what they do to the mission; `read' stands for all that do nothing,
\* `validate' for the simulation too, `get' is operations.get.
Tool == {"read", "propose", "validate", "request_approval", "activate", "get"}

AllowedPhases ==
  [read |-> {"understand", "plan", "validate", "observe", "reconcile", "verify"},
   propose |-> {"plan"}, validate |-> {"validate"}, request_approval |-> {"validate"},
   activate |-> {"execute"}, get |-> {"execute", "reconcile"}]

\* What the services behind the tools may do to a mission.
PlanProposed == {<<Planning, Validating>>}
PlanRefused == {<<Validating, Planning>>}
ApprovalRequested == {<<Validating, Approving>>}
PlanActivated == {Executing} \X {Observing, Reconciling}

\* By tool; a handler that refuses does nothing.
Effects == [read |-> {}, propose |-> PlanProposed, validate |-> PlanRefused,
            request_approval |-> ApprovalRequested, activate |-> PlanActivated, get |-> {}]

Pause == {"clarification_pause", "approval_pause", "human_review_pause", "budget_exhausted"}
Refusal == {"failed", "safe_refusal", "host_failed"}
Reservation == {"tool_call", "plan_revision", "reconciliation_poll"}
Kind == {"activated", "completed", "cancelled", "external_wait", "decision_attempt",
         "state_persisted", "tool_wait"} \cup Pause \cup Refusal \cup Reservation

\* caretakerRunStatusForCheckpoint
StatusOf(kind) == CASE kind \in Pause -> "paused" [] kind = "completed" -> "completed"
                    [] kind \in Refusal -> "failed" [] kind = "cancelled" -> "cancelled"
                    [] OTHER -> "active"

\* action: the kind of the last checkpoint that is not a change of lease.
Run == [status : {"none", "active", "paused", "completed", "failed", "cancelled"}, phase : Phase,
        action : Kind, pending : Tool \cup {"none"}, calls : 0 .. MaxToolCalls,
        revisions : 0 .. MaxPlanRevisions, clarifications : 0 .. MaxClarifications,
        polls : 0 .. MaxPolls, runtime : 0 .. MaxRuntime]

NoRun == [status |-> "none", phase |-> "understand", action |-> "activated", pending |-> "none",
          calls |-> 0, revisions |-> 0, clarifications |-> 0, polls |-> 0, runtime |-> 0]

Host == [pc : {"off", "starting", "looping", "invoking", "answered", "waiting", "projected",
               "understood", "deciding", "clarified"},
         seen : MissionState]

At(pc) == host' = [pc |-> pc, seen |-> Queued]
See(pc, m) == host' = [pc |-> pc, seen |-> m]

Init == /\ mission = Queued
        /\ run = NoRun
        /\ handled = FALSE
        /\ ran = 0
        /\ cancelled = FALSE
        /\ host = [pc |-> "off", seen |-> Queued]
        /\ wakes = {"new"}
        /\ faults = 0

-----------------------------------------------------------------------------
\* The run's checkpoint, which locks the mission and checks it.

\* assertCaretakerMissionStateForCheckpoint
MissionAllows(kind, clears) ==
  CASE kind = "completed"           -> mission = State("succeeded", "verify")
    [] kind \in {"failed", "cancelled"} -> mission.status = kind
    [] kind = "clarification_pause" -> mission = Clarifying
    [] kind = "approval_pause"      -> mission = Approving
    [] kind = "external_wait"       -> mission \in {Observing, Reconciling}
    [] kind \in {"decision_attempt", "human_review_pause", "safe_refusal", "host_failed",
                 "budget_exhausted"} -> ~Terminal(mission)
    [] OTHER -> \/ mission.status = "running"
                \/ kind = "state_persisted" /\ clears /\ ~Terminal(mission)

\* A plan revision and a poll are reserved twice: as such, and as a tool call.
HalfReserved == run.action \in {"plan_revision", "reconciliation_poll"}

\* assertCaretakerPendingToolCallTransition and assertCaretakerToolWaitPayloadTransition
PendingAllows(kind, next) ==
  IF run.pending = "none"
  THEN IF next = "none" THEN kind \notin Reservation
       ELSE \/ kind = "tool_call"
            \/ kind = "plan_revision" /\ next = "propose"
            \/ kind = "reconciliation_poll" /\ next = "get"
  ELSE IF HalfReserved
       THEN kind = "tool_call" /\ next = run.pending
       ELSE /\ run.action \in {"tool_call", "tool_wait"}
            /\ \/ kind = "tool_wait" /\ next = run.pending /\ run.phase = mission.phase
               \/ kind = "state_persisted" /\ next = "none"

\* CaretakerRunCountersSchema and assertCaretakerCounterTransition
CountersAllow(kind, r) ==
  /\ kind = "tool_call" => run.calls < MaxToolCalls
  /\ kind = "plan_revision" => run.revisions < MaxPlanRevisions
  /\ kind = "clarification_pause" => run.clarifications < MaxClarifications
  /\ kind = "reconciliation_poll" => run.polls < MaxPolls
  /\ kind = "tool_wait" => r > run.runtime

Accepted(kind, next, r) == /\ MissionAllows(kind, run.pending # "none" /\ next = "none")
                           /\ PendingAllows(kind, next)
                           /\ CountersAllow(kind, r)

One(condition) == IF condition THEN 1 ELSE 0

Saved(kind, next, r) ==
  [status |-> StatusOf(kind), phase |-> mission.phase, action |-> kind, pending |-> next,
   calls |-> run.calls + One(kind = "tool_call"),
   revisions |-> run.revisions + One(kind = "plan_revision"),
   clarifications |-> run.clarifications + One(kind = "clarification_pause"),
   polls |-> run.polls + One(kind = "reconciliation_poll"),
   runtime |-> r]

\* The activation throws: its job is delivered again.
Throw == At("off") /\ wakes' = wakes \cup {"again"} /\ UNCHANGED run

\* A checkpoint and what the activation does next; `off': it returns, and its
\* job is done.
Save(kind, next, r, pc, seen) ==
  IF Accepted(kind, next, r)
  THEN run' = Saved(kind, next, r) /\ See(pc, seen) /\ UNCHANGED wakes
  ELSE Throw

\* Mutant: the time an activation took is added past the ceiling.
Unclamped == run.runtime .. MaxRuntime + 1

Later == run.runtime .. MaxRuntime   \* the active runtime, after something that takes time

-----------------------------------------------------------------------------
\* The worker and the start of an activation.

Acquire(w) ==
  /\ host.pc = "off" /\ w \in wakes
  /\ wakes' = wakes \ {w}
  /\ mission' = IF mission = Queued THEN Understanding ELSE mission
  /\ At("starting")
  /\ UNCHANGED <<run, handled, ran, cancelled, faults>>

Ended == run.status \in {"completed", "failed", "cancelled"}

\* Mutant: a paused run is not opened again when its mission has ended.
ActiveOnly == run.status = "active" /\ Terminal(mission)

\* A mission that ended has its open run taken up, to end it too.
Finalizes == run.status \in {"active", "paused"} /\ Terminal(mission)

\* The states a mission is waited for in, whose phase a takeover copies.
Synchronizes == run.status = "active" /\ mission \in {Observing, Clarifying, Approving}

TakesOver == run.status = "active" /\ mission.status = "running" /\ run.phase = mission.phase

Succeeds == /\ run.status \in {"none", "paused"} /\ mission.status = "running"
            /\ run.action # "budget_exhausted" /\ run.pending = "none"

\* Mutant: the successor of a paused run starts with a fresh budget.
FreshBudget == [NoRun EXCEPT !.status = "active", !.phase = mission.phase]

\* The run, active in the mission's phase; its budget and its call are carried over.
Opened(action) ==
  [status |-> "active", phase |-> mission.phase, action |-> action, pending |-> run.pending,
   calls |-> run.calls, revisions |-> run.revisions, clarifications |-> run.clarifications,
   polls |-> run.polls, runtime |-> run.runtime]

Successor == Opened("activated")
TakenOver == Opened(run.action)

Startable == Ended \/ Finalizes \/ Synchronizes \/ TakesOver \/ Succeeds

Activate ==
  /\ host.pc = "starting"
  /\ \/ Ended /\ At("off") /\ UNCHANGED run                         \* replayed
     \/ (Finalizes \/ Synchronizes \/ TakesOver) /\ run' = TakenOver /\ At("looping")
     \/ Succeeds /\ run' = Successor /\ At("looping")
  /\ UNCHANGED <<mission, handled, ran, cancelled, wakes, faults>>

\* A refused job is delivered again, and dropped when its retries are used up.
RefuseStart ==
  /\ host.pc = "starting" /\ ~Startable
  /\ wakes' \in {wakes, wakes \cup {"again"}}
  /\ At("off")
  /\ UNCHANGED <<mission, run, handled, ran, cancelled, faults>>

-----------------------------------------------------------------------------
\* The pending tool call.

ReserveCall ==
  /\ host.pc = "looping" /\ run.pending # "none"
  /\ IF HalfReserved
     THEN Save("tool_call", run.pending, run.runtime, "invoking", Queued)
     ELSE At("invoking") /\ UNCHANGED <<run, wakes>>
  /\ UNCHANGED <<mission, handled, ran, cancelled, faults>>

\* The handler's transaction.  It may commit after the host stopped waiting.
HandlerRuns ==
  /\ host.pc \in {"invoking", "waiting"} /\ run.pending # "none" /\ ~handled
  /\ mission' \in {mission} \cup {e[2] : e \in {x \in Effects[run.pending] : x[1] = mission}}
  /\ handled' = TRUE
  /\ ran' = ran + 1
  /\ UNCHANGED <<run, cancelled, host, wakes, faults>>

\* A result with its receipt: of the handler, now or earlier, or a refusal, or
\* that the outcome is unknown.
ToolAnswers ==
  /\ host.pc = "invoking"
  /\ At("answered")
  /\ UNCHANGED <<mission, run, handled, ran, cancelled, wakes, faults>>

\* No result, or not one to keep.
ToolWaits ==
  /\ host.pc = "invoking"
  /\ \E r \in Later : IF Accepted("tool_wait", run.pending, r)
                      THEN run' = Saved("tool_wait", run.pending, r)
                      ELSE UNCHANGED run
  /\ At("waiting")
  /\ UNCHANGED <<mission, handled, ran, cancelled, wakes, faults>>

RetainResult ==
  /\ host.pc = "answered"
  /\ \E r \in Later : Save("state_persisted", "none", r, "looping", Queued)
  /\ handled' = (handled /\ run'.pending # "none")
  /\ UNCHANGED <<mission, ran, cancelled, faults>>

\* Mutant: an activation that has to wait leaves it at that.
NoSuccessor == {}

\* publishSuccessor
SuccessorJob == {"again"}

\* The activation ends before the work does.
Leave ==
  /\ host.pc = "waiting"
  /\ At("off")
  /\ wakes' = wakes \cup SuccessorJob
  /\ UNCHANGED <<mission, run, handled, ran, cancelled, faults>>

-----------------------------------------------------------------------------
\* The projection of the mission, and what follows from it.

\* The host's clock ran out, or a dependency's deadline did.
OutOfTime(r) == r = MaxRuntime

\* Nothing pending: the host projects, pauses for its budget, or fails to
\* project, which ends the run unless the activation itself was interrupted.
Project ==
  /\ host.pc = "looping" /\ run.pending = "none"
  /\ ~OutOfTime(run.runtime)
  /\ See("projected", mission)
  /\ UNCHANGED <<mission, run, handled, ran, cancelled, wakes, faults>>

DoNotProject ==
  /\ host.pc = "looping" /\ run.pending = "none"
  /\ \E r \in Later :
       Save(IF OutOfTime(r) THEN "budget_exhausted" ELSE "host_failed", "none", r, "off", Queued)
  /\ UNCHANGED <<mission, handled, ran, cancelled, faults>>

\* checkpointTerminalMission
EndOf(m) == IF m.status = "succeeded" THEN "completed" ELSE m.status

\* checkpointExternalPause; an external wait leaves the run active.
PauseOf(m) == CASE m = Clarifying -> "clarification_pause"
                [] m = Approving  -> "approval_pause"
                [] m = Observing  -> "external_wait"
                [] OTHER          -> "none"

FollowMission ==
  LET m == host.seen IN
  /\ host.pc = "projected"
  /\ IF Terminal(m) THEN \E r \in Later : Save(EndOf(m), "none", r, "off", Queued)
     ELSE /\ PauseOf(m) # "none"
          /\ \E r \in Later : Save(PauseOf(m), "none", r, "off", Queued)
  /\ UNCHANGED <<mission, handled, ran, cancelled, faults>>

GoesOn == host.pc = "projected" /\ ~Terminal(host.seen) /\ PauseOf(host.seen) = "none"

\* context_sufficient, then its checkpoint: two transactions.
Understand ==
  /\ GoesOn /\ host.seen = Understanding
  /\ IF mission = Understanding
     THEN mission' = Planning /\ At("understood") /\ UNCHANGED <<run, wakes>>
     ELSE Throw /\ UNCHANGED mission
  /\ UNCHANGED <<handled, ran, cancelled, faults>>

Understood ==
  /\ host.pc = "understood"
  /\ \E r \in Later : Save("state_persisted", "none", r, "looping", Queued)
  /\ UNCHANGED <<mission, handled, ran, cancelled, faults>>

\* While the mission is still to be understood, discovery may go on.
AttemptDecision ==
  /\ GoesOn
  /\ \E r \in Later : IF OutOfTime(r)
                      THEN Save("budget_exhausted", "none", r, "off", Queued)
                      ELSE Save("decision_attempt", "none", r, "deciding", host.seen)
  /\ UNCHANGED <<mission, handled, ran, cancelled, faults>>

-----------------------------------------------------------------------------
\* The decision.

ReservationOf(tool) == CASE tool = "propose" -> "plan_revision"
                         [] tool = "get" -> "reconciliation_poll"
                         [] OTHER -> "tool_call"

Allowed(tool) == /\ host.seen.phase \in AllowedPhases[tool]
                 /\ run.calls < MaxToolCalls
                 /\ tool = "propose" => run.revisions < MaxPlanRevisions
                 /\ tool = "get" => run.polls < MaxPolls

ReserveTool ==
  /\ host.pc = "deciding"
  /\ \E tool \in Tool, r \in Later :
       /\ Allowed(tool) /\ ~OutOfTime(r)
       /\ Save(ReservationOf(tool), tool, r, "looping", Queued)
  /\ UNCHANGED <<mission, handled, ran, cancelled, faults>>

\* The clarification is one transaction, the run's pause the next.
Clarify ==
  /\ host.pc = "deciding" /\ run.clarifications < MaxClarifications
  /\ IF mission = Planning
     THEN mission' = Clarifying /\ At("clarified") /\ UNCHANGED <<run, wakes>>
     ELSE Throw /\ UNCHANGED mission
  /\ UNCHANGED <<handled, ran, cancelled, faults>>

PauseForClarification ==
  /\ host.pc = "clarified"
  /\ \E r \in Later : Save("clarification_pause", "none", r, "off", Queued)
  /\ UNCHANGED <<mission, handled, ran, cancelled, faults>>

BudgetUsed == \/ run.calls = MaxToolCalls \/ run.revisions = MaxPlanRevisions
              \/ run.clarifications = MaxClarifications \/ run.polls = MaxPolls

\* A pause, an escalation, a refusal, a decision the host rejects, or none in time.
Conclude ==
  /\ host.pc = "deciding"
  /\ \E kind \in {"external_wait", "human_review_pause", "safe_refusal", "host_failed",
                  "budget_exhausted"}, r \in Later :
       /\ kind = "external_wait" => host.seen = Reconciling
       /\ kind = "budget_exhausted" => OutOfTime(r) \/ BudgetUsed
       /\ OutOfTime(r) => kind = "budget_exhausted"
       /\ Save(kind, "none", r, "off", Queued)
  /\ UNCHANGED <<mission, handled, ran, cancelled, faults>>

\* A summary that concludes nothing: the state is kept, and the job comes again.
Summarize ==
  /\ host.pc = "deciding"
  /\ \E r \in Later : ~OutOfTime(r) /\ Save("state_persisted", "none", r, "waiting", Queued)
  /\ UNCHANGED <<mission, handled, ran, cancelled, faults>>

-----------------------------------------------------------------------------
\* Faults.

Fault == faults < MaxFaults /\ faults' = faults + 1

\* The worker dies, or the lease is lost.
Lose ==
  /\ host.pc # "off"
  /\ Fault
  /\ At("off")
  /\ wakes' = wakes \cup {"again"}
  /\ UNCHANGED <<mission, run, handled, ran, cancelled>>

\* The worker is shut down while it projects or decides: one more checkpoint.
Interrupt ==
  /\ host.pc \in {"looping", "deciding"} /\ run.pending = "none"
  /\ Fault
  /\ \E r \in Later :
       LET kind == IF OutOfTime(r) THEN "budget_exhausted" ELSE "state_persisted" IN
       IF Accepted(kind, "none", r) THEN run' = Saved(kind, "none", r) ELSE UNCHANGED run
  /\ At("off")
  /\ wakes' = wakes \cup {"again"}
  /\ UNCHANGED <<mission, handled, ran, cancelled>>

-----------------------------------------------------------------------------
\* What others do to the mission.

\* Mutant: an answer resumes nobody.
Unheard(m) == {}

\* enqueueMissionResume
ResumeJob(m) == {"new"}

Move(to, jobs) == /\ mission' = to
                  /\ wakes' = wakes \cup jobs
                  /\ UNCHANGED <<run, handled, ran, cancelled, host, faults>>

AnswerClarification == mission = Clarifying /\ Move(Planning, ResumeJob(Planning))

\* Granted; rejected, expired or stale.
DecideApproval ==
  mission = Approving /\ \E to \in {Executing, Planning} : Move(to, ResumeJob(to))

\* What was cancelled at once, or after what was dispatched is reconciled.
Stopped(m) == State("cancelled", m.phase)

\* operation.reconcile, gateway effects, the deadline, callbacks: MissionExecution.
WorkProceeds ==
  \/ /\ mission = Reconciling
     /\ \E to \in {Observing, State("waiting_for_user", "reconcile")} : Move(to, {})
  \/ mission = Observing /\ Move(Verifying, {})
  \/ mission = Reconciling /\ cancelled /\ Move(Stopped(mission), {})

Verify ==
  /\ mission = Verifying
  /\ \E to \in {State("succeeded", "verify"), State("waiting_for_user", "verify")} :
       Move(to, ResumeJob(to))

\* A cancellation resumes nobody.
Cancel ==
  /\ ~cancelled
  /\ cancelled' = TRUE
  /\ mission' \in IF mission \in {Observing, Reconciling} THEN {Stopped(mission), Reconciling}
                   ELSE {Stopped(mission)}
  /\ ~Terminal(mission)
  /\ UNCHANGED <<run, handled, ran, host, wakes, faults>>

-----------------------------------------------------------------------------
Proceed ==
  \/ Activate \/ RefuseStart
  \/ ReserveCall \/ ToolAnswers \/ ToolWaits \/ RetainResult \/ Leave
  \/ Project \/ DoNotProject \/ FollowMission \/ Understand \/ Understood \/ AttemptDecision
  \/ ReserveTool \/ Clarify \/ PauseForClarification \/ Conclude \/ Summarize

Others == AnswerClarification \/ DecideApproval \/ WorkProceeds \/ Verify \/ Cancel

Next == (\E w \in {"new", "again"} : Acquire(w)) \/ Proceed \/ HandlerRuns
        \/ Lose \/ Interrupt \/ Others

Spec == Init /\ [][Next]_vars

\* The queue delivers, an activation goes on, a tool invoked again and again
\* answers in the end, and the mission can be projected in the end.
Fairness == /\ WF_vars(\E w \in {"new", "again"} : Acquire(w))
            /\ WF_vars(Proceed)
            /\ SF_vars(ToolAnswers)
            /\ SF_vars(Project)

FairSpec == Spec /\ Fairness

-----------------------------------------------------------------------------
\* Properties.

\* Type invariant.
TypeOK == /\ mission \in MissionState
          /\ run \in Run
          /\ handled \in BOOLEAN
          /\ ran \in 0 .. MaxToolCalls
          /\ cancelled \in BOOLEAN
          /\ host \in Host
          /\ wakes \subseteq {"new", "again"}
          /\ faults \in 0 .. MaxFaults

\* A call whose handler ran is the pending call of the run, under its tool-call
\* checkpoint, until its result is retained: no takeover, pause, end or
\* successor loses it, whatever its own effects and others did to the mission.
OpenCallIsKept ==
  handled => run.pending # "none" /\ run.action \in {"tool_call", "tool_wait"}

\* Over all its activations, lost leases and successors, a mission has no more
\* handlers run than calls counted, and no more calls counted than its budget.
MissionStaysInBudget == ran <= run.calls /\ run.calls <= MaxToolCalls

\* An answer of the user that makes the mission run again while its run is
\* paused for that answer has a job to resume it, or an activation at work.
AnswerIsHeard ==
  run.status = "paused" /\ run.action \in {"clarification_pause", "approval_pause"}
    /\ mission.status = "running" => wakes # {} \/ host.pc # "off"

\* To the mission's owner the run is one durable record, of one call at a time.
CallState ==
  IF run.pending = "none" THEN "none"
  ELSE IF HalfReserved THEN "reserved" ELSE IF handled THEN "ran" ELSE "counted"

Record == INSTANCE DurableRun
            WITH MaxCalls <- MaxToolCalls,
                 Ceiling <- [revisions |-> MaxPlanRevisions, clarifications |-> MaxClarifications,
                             polls |-> MaxPolls, runtime |-> MaxRuntime],
                 status <- run.status, call <- CallState, answered <- host.pc = "answered",
                 calls <- run.calls,
                 used <- [revisions |-> run.revisions, clarifications |-> run.clarifications,
                          polls |-> run.polls, runtime |-> run.runtime],
                 mission <- IF Terminal(mission) THEN mission.status ELSE "open"

\* Whatever workers drive it in turn, lose it or are cut short, and whatever its
\* user and other jobs do to its mission, the run is kept as DurableRun says.
ImplementsRun == Record!Spec

\* No worker can take the run up where its last activation left it, or it can
\* and finds a call half reserved that it may not reserve now.
Wedged == /\ host.pc \in {"off", "starting"} /\ run.status = "active"
          /\ ~Startable \/ (HalfReserved /\ mission.status # "running")

\* Where no run is ever wedged, a reserved call has its result retained in
\* the end, unless the mission ends first: however often its activation is lost,
\* it waits or is shut down, a job carries it on.
CallIsRetained ==
  []~Wedged => (run.pending # "none" ~> run.pending = "none" \/ Terminal(mission))

\* The build specification's promise that a new worker resumes after a lost lease:
\* an activation that finds a run active in a phase that is the Caretaker's alone
\* gets to work, or the mission leaves that phase.
LostLeaseIsResumed ==
  \A phase \in {"understand", "plan", "validate", "execute"} :
    host.pc = "starting" /\ run.status = "active" /\ mission = State("running", phase)
      ~> host.pc = "looping" \/ mission # State("running", phase)

\* A mission that ended with a job due has its open run ended too, unless a
\* call is pending or no time is left.
TerminalMissionIsFinalized ==
  Terminal(mission) /\ wakes # {} /\ run.status \in {"active", "paused"} /\ run.pending = "none"
    /\ run.runtime < MaxRuntime ~> Ended
=============================================================================
