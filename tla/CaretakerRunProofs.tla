------------------------- MODULE CaretakerRunProofs -------------------------
(***************************************************************************)
(* Proofs about CaretakerRun, for any budget and any number of faults.     *)
(*                                                                         *)
(* A call is reserved, and then counted, before its handler can run; so    *)
(* the handlers run and the one that still may are no more than the calls  *)
(* counted (CallInv).  An activation works on an active run only, and is   *)
(* past its pending call when it projects (HostInv).  A paused run has no  *)
(* call, and its mission is where it paused or where an answer put it      *)
(* (PauseInv).                                                             *)
(***************************************************************************)
EXTENDS CaretakerRun, TLAPS

Open == {"tool_call", "tool_wait"}
Reserved == run.pending # "none" /\ run.action \in Open

CallInv ==
  /\ run.pending # "none" => run.action \in Open \cup {"plan_revision", "reconciliation_poll"}
  /\ OpenCallIsKept
  /\ ran + One(Reserved /\ ~handled) <= run.calls

HostInv ==
  /\ host.pc \notin {"off", "starting"} => run.status = "active"
  /\ host.pc \in {"projected", "understood", "deciding", "clarified"} => run.pending = "none"
  /\ host.pc \in {"invoking", "waiting"} /\ run.pending # "none" => run.action \in Open

PauseInv ==
  run.status = "paused" =>
    /\ run.pending = "none"
    /\ run.action = "clarification_pause" => mission \in {Clarifying, Planning} \/ Terminal(mission)
    /\ run.action = "approval_pause" =>
         mission \in {Approving, Executing, Planning} \/ Terminal(mission)

IInv == TypeOK /\ CallInv /\ HostInv /\ PauseInv /\ AnswerIsHeard

-----------------------------------------------------------------------------
\* The named states differ, and are states.
LEMMA NamedStates ==
  /\ {Queued, Understanding, Planning, Validating, Executing, Reconciling, Verifying, Clarifying,
      Approving, Observing} \subseteq MissionState
  /\ \A m \in {Queued, Understanding, Planning, Validating, Executing, Reconciling, Verifying,
               Clarifying, Approving, Observing} : ~Terminal(m)
  /\ Queued.status = "queued"
  /\ \A m \in {Understanding, Planning, Validating, Executing, Reconciling, Verifying} :
       m.status = "running"
  /\ Clarifying.status = "waiting_for_user" /\ Approving.status = "waiting_for_user"
  /\ Observing.status = "waiting_for_system"
  /\ Planning.phase = "plan" /\ Clarifying.phase = "plan" /\ Approving.phase = "approve"
  /\ Executing.phase = "execute" /\ Reconciling.phase = "reconcile" /\ Verifying.phase = "verify"
  /\ Validating.phase = "validate" /\ Understanding.phase = "understand"
BY DEF Queued, Understanding, Planning, Validating, Executing, Reconciling, Verifying, Clarifying,
       Approving, Observing, State, MissionState, Status, Phase, Terminal, TerminalStatus

LEMMA Fields ==
  ASSUME TypeOK
  PROVE  /\ mission \in MissionState /\ mission.status \in Status /\ mission.phase \in Phase
         /\ run.status \in {"none", "active", "paused", "completed", "failed", "cancelled"}
         /\ run.phase \in Phase /\ run.action \in Kind /\ run.pending \in Tool \cup {"none"}
         /\ run.calls \in Nat /\ run.calls <= MaxToolCalls
         /\ run.revisions \in Nat /\ run.revisions <= MaxPlanRevisions
         /\ run.clarifications \in Nat /\ run.clarifications <= MaxClarifications
         /\ run.polls \in Nat /\ run.polls <= MaxPolls
         /\ run.runtime \in Nat /\ run.runtime <= MaxRuntime
         /\ ran \in Nat /\ ran <= MaxToolCalls /\ handled \in BOOLEAN
         /\ host.pc \in {"off", "starting", "looping", "invoking", "answered", "waiting",
                         "projected", "understood", "deciding", "clarified"}
         /\ host.seen \in MissionState
BY BudgetAssumption DEF TypeOK, Run, MissionState, Host

\* A checkpoint that is accepted keeps the run within its budget.
LEMMA SavedInRun ==
  ASSUME TypeOK, NEW kind \in Kind, NEW next \in Tool \cup {"none"}, NEW r \in Later,
         Accepted(kind, next, r)
  PROVE  Saved(kind, next, r) \in Run
<1>1. StatusOf(kind) \in {"active", "paused", "completed", "failed", "cancelled"}
  BY DEF StatusOf
<1>2. r \in 0 .. MaxRuntime
  BY Fields, BudgetAssumption DEF Later
<1>3. /\ run.calls + One(kind = "tool_call") \in 0 .. MaxToolCalls
      /\ run.revisions + One(kind = "plan_revision") \in 0 .. MaxPlanRevisions
      /\ run.clarifications + One(kind = "clarification_pause") \in 0 .. MaxClarifications
      /\ run.polls + One(kind = "reconciliation_poll") \in 0 .. MaxPolls
  BY Fields, BudgetAssumption DEF Accepted, CountersAllow, One
<1>4. QED BY <1>1, <1>2, <1>3, Fields DEF Saved, Run

\* What an accepted checkpoint makes of the run.
LEMMA SavedKeeps ==
  ASSUME IInv, NEW kind \in Kind, NEW next \in Tool \cup {"none"}, NEW r \in Later,
         Accepted(kind, next, r), run.pending = "none" \/ kind \in Open,
         run' = Saved(kind, next, r), UNCHANGED <<mission, handled, ran>>
  PROVE  /\ run' \in Run /\ CallInv' /\ PauseInv'
         /\ run'.status = StatusOf(kind) /\ run'.action = kind /\ run'.pending = next
<1>1. /\ run' \in Run /\ run'.status = StatusOf(kind) /\ run'.action = kind
      /\ run'.pending = next /\ run'.calls = run.calls + One(kind = "tool_call")
  BY SavedInRun DEF IInv, Saved
<1>2. next # "none" => kind \in Open \cup {"plan_revision", "reconciliation_poll"}
  BY DEF Accepted, PendingAllows, Open
<1>3. OpenCallIsKept'
  <2>1. handled => ~HalfReserved /\ run.pending # "none"
    BY DEF IInv, CallInv, OpenCallIsKept, HalfReserved
  <2>2. handled => kind \in Open /\ next # "none"
    BY <2>1, Fields DEF Accepted, PendingAllows, Open, Tool, IInv
  <2>3. QED BY <1>1, <2>2 DEF OpenCallIsKept, Open
<1>4. (ran + One(Reserved /\ ~handled) <= run.calls)'
  <2>1. CASE kind = "tool_call"
    <3>1. ~Reserved
      BY <2>1, Fields DEF Accepted, PendingAllows, Reserved, Open, HalfReserved, IInv
    <3>2. QED BY <1>1, <2>1, <3>1, Fields DEF One, IInv, CallInv
  <2>2. CASE kind = "tool_wait"
    <3>1. next # "none" => Reserved
      BY <2>2, Fields DEF Accepted, PendingAllows, Reserved, Open, HalfReserved, IInv, Reservation
    <3>2. Reserved' => Reserved
      BY <1>1, <3>1 DEF Reserved
    <3>3. QED BY <1>1, <2>2, <3>2, Fields DEF One, IInv, CallInv
  <2>3. CASE kind \notin Open
    <3>1. ~Reserved'
      BY <1>1, <2>3 DEF Reserved
    <3>2. QED BY <1>1, <2>3, <3>1, Fields DEF One, IInv, CallInv, Open
  <2>4. QED BY <2>1, <2>2, <2>3 DEF Open
<1>5. PauseInv'
  <2>1. StatusOf(kind) = "paused" => kind \in Pause
    BY DEF StatusOf
  <2>2. kind \in Pause => next = "none"
    BY <1>2 DEF Pause, Open
  <2>3. /\ kind = "clarification_pause" => mission = Clarifying
        /\ kind = "approval_pause" => mission = Approving
    BY DEF Accepted, MissionAllows
  <2>4. QED BY <1>1, <2>1, <2>2, <2>3 DEF PauseInv
<1>6. QED BY <1>1, <1>2, <1>3, <1>4, <1>5 DEF CallInv

\* Where an activation may go on after a checkpoint.
Lands(kind, next, pc) ==
  \/ pc = "off"
  \/ /\ StatusOf(kind) = "active"
     /\ \/ pc = "looping"
        \/ pc \in {"deciding", "waiting"} /\ next = "none"
        \/ pc = "invoking" /\ kind = "tool_call"

LEMMA ThrowKeeps ==
  ASSUME IInv, Throw, UNCHANGED <<mission, handled, ran, cancelled, faults>> PROVE IInv'
<1>1. host' = [pc |-> "off", seen |-> Queued] /\ wakes' = wakes \cup {"again"} /\ run' = run
  BY DEF Throw, At
<1>2. TypeOK'
  BY <1>1, NamedStates DEF IInv, TypeOK, Host
<1>3. CallInv' /\ HostInv' /\ PauseInv' /\ AnswerIsHeard'
  BY <1>1 DEF IInv, CallInv, HostInv, PauseInv, AnswerIsHeard, OpenCallIsKept, Reserved, One
<1>4. QED BY <1>2, <1>3 DEF IInv

LEMMA SaveKeeps ==
  ASSUME IInv, NEW kind \in Kind, NEW next \in Tool \cup {"none"}, NEW r \in Later,
         NEW pc, NEW seen \in MissionState, Save(kind, next, r, pc, seen), Lands(kind, next, pc),
         run.pending = "none" \/ kind \in Open,
         UNCHANGED <<mission, handled, ran, cancelled, faults>>
  PROVE  IInv'
<1>1. CASE ~Accepted(kind, next, r)
  BY <1>1, ThrowKeeps DEF Save
<1>2. CASE Accepted(kind, next, r)
  <2>1. run' = Saved(kind, next, r) /\ host' = [pc |-> pc, seen |-> seen] /\ wakes' = wakes
    BY <1>2 DEF Save, See
  <2>2. /\ run' \in Run /\ CallInv' /\ PauseInv'
        /\ run'.status = StatusOf(kind) /\ run'.action = kind /\ run'.pending = next
    BY <1>2, <2>1, SavedKeeps
  <2>3. TypeOK'
    BY <2>1, <2>2 DEF IInv, TypeOK, Host, Lands
  <2>4. HostInv'
    BY <2>1, <2>2 DEF HostInv, Lands, Open
  <2>5. AnswerIsHeard'
    <3>1. /\ kind = "clarification_pause" => mission = Clarifying
          /\ kind = "approval_pause" => mission = Approving
      BY <1>2 DEF Accepted, MissionAllows
    <3>2. QED BY <2>1, <2>2, <3>1, NamedStates DEF AnswerIsHeard
  <2>6. QED BY <2>2, <2>3, <2>4, <2>5 DEF IInv
<1>3. QED BY <1>1, <1>2

-----------------------------------------------------------------------------
\* Steps that only move the host leave the rest as it is.
LEMMA HostKeeps ==
  ASSUME IInv, NEW pc, NEW seen \in MissionState, host' = [pc |-> pc, seen |-> seen],
         UNCHANGED <<mission, run, handled, ran, cancelled, wakes, faults>>,
         \/ pc \in {"looping", "answered"} /\ host.pc \notin {"off", "starting"}
         \/ pc = "projected" /\ host.pc = "looping" /\ run.pending = "none"
         \/ pc = "invoking" /\ host.pc = "looping" /\ run.action \in Open
  PROVE  IInv'
<1>1. TypeOK'
  BY DEF IInv, TypeOK, Host
<1>2. HostInv'
  BY DEF IInv, HostInv, Open
<1>3. CallInv' /\ PauseInv' /\ AnswerIsHeard'
  BY DEF IInv, CallInv, PauseInv, AnswerIsHeard, OpenCallIsKept, Reserved, One
<1>4. QED BY <1>1, <1>2, <1>3 DEF IInv

LEMMA AcquireKeeps == ASSUME IInv, NEW w \in {"new", "again"}, Acquire(w) PROVE IInv'
<1>1. /\ host' = [pc |-> "starting", seen |-> Queued] /\ wakes' \subseteq wakes
      /\ mission' \in {mission, Understanding}
      /\ mission' # mission => mission = Queued
      /\ UNCHANGED <<run, handled, ran, cancelled, faults>>
  BY DEF Acquire, At
<1>2. TypeOK'
  BY <1>1, NamedStates DEF IInv, TypeOK, Host
<1>3. CallInv' /\ HostInv' /\ AnswerIsHeard'
  BY <1>1 DEF IInv, CallInv, HostInv, AnswerIsHeard, OpenCallIsKept, Reserved, One
<1>4. PauseInv'
  <2>1. Queued \notin {Clarifying, Planning, Approving, Executing} /\ ~Terminal(Queued)
    BY NamedStates
  <2>2. CASE mission' = mission
    BY <1>1, <2>2 DEF IInv, PauseInv, Terminal
  <2>3. CASE mission = Queued
    BY <1>1, <2>1, <2>3 DEF IInv, PauseInv, Terminal
  <2>4. QED BY <1>1, <2>2, <2>3
<1>5. QED BY <1>2, <1>3, <1>4 DEF IInv

LEMMA OpenedKeeps ==
  ASSUME IInv, host.pc = "starting", NEW action \in {run.action, "activated"}, run' = Opened(action),
         action = run.action \/ run.pending = "none",
         host' = [pc |-> "looping", seen |-> Queued],
         UNCHANGED <<mission, handled, ran, cancelled, wakes, faults>>
  PROVE  IInv'
<1>1. /\ run'.status = "active" /\ run'.action = action /\ run'.pending = run.pending
      /\ run'.calls = run.calls
  BY DEF Opened
<1>2. run' \in Run
  BY Fields, BudgetAssumption DEF Opened, Run, Kind, IInv
<1>3. TypeOK'
  BY <1>2, NamedStates DEF IInv, TypeOK, Host
<1>4. Reserved' <=> Reserved
  BY <1>1 DEF Reserved
<1>5. CallInv' /\ HostInv' /\ PauseInv' /\ AnswerIsHeard'
  BY <1>1, <1>4 DEF IInv, CallInv, HostInv, PauseInv, AnswerIsHeard, OpenCallIsKept, One
<1>6. QED BY <1>3, <1>5 DEF IInv

LEMMA ActivateKeeps == ASSUME IInv, Activate PROVE IInv'
<1>1. /\ host.pc = "starting"
      /\ UNCHANGED <<mission, handled, ran, cancelled, wakes, faults>>
  BY DEF Activate
<1>2. CASE Ended /\ At("off") /\ UNCHANGED run
  <2>1. TypeOK'
    BY <1>1, <1>2, NamedStates DEF IInv, TypeOK, Host, At
  <2>2. CallInv' /\ HostInv' /\ PauseInv' /\ AnswerIsHeard'
    BY <1>1, <1>2 DEF IInv, CallInv, HostInv, PauseInv, AnswerIsHeard, OpenCallIsKept, Reserved,
                      One, At, Ended
  <2>3. QED BY <2>1, <2>2 DEF IInv
<1>3. CASE run' = TakenOver /\ At("looping")
  BY <1>1, <1>3, OpenedKeeps DEF TakenOver, At
<1>4. CASE Succeeds /\ run' = Successor /\ At("looping")
  BY <1>1, <1>4, OpenedKeeps DEF Successor, Succeeds, At
<1>5. QED BY <1>2, <1>3, <1>4 DEF Activate

\* An activation is refused only where no answer of the user waits to be heard.
LEMMA RefuseKeeps == ASSUME IInv, RefuseStart PROVE IInv'
<1>1. /\ host.pc = "starting" /\ ~Startable /\ host' = [pc |-> "off", seen |-> Queued]
      /\ UNCHANGED <<mission, run, handled, ran, cancelled, faults>>
      /\ wakes' \subseteq wakes \cup {"again"}
  BY DEF RefuseStart, At
<1>2. TypeOK'
  BY <1>1, NamedStates DEF IInv, TypeOK, Host
<1>3. CallInv' /\ HostInv' /\ PauseInv'
  BY <1>1 DEF IInv, CallInv, HostInv, PauseInv, OpenCallIsKept, Reserved, One
<1>4. AnswerIsHeard'
  <2>1. run.status = "paused" /\ run.action # "budget_exhausted" /\ mission.status = "running" =>
          Startable
    BY DEF Startable, Succeeds, IInv, PauseInv
  <2>2. QED BY <1>1, <2>1 DEF AnswerIsHeard
<1>5. QED BY <1>2, <1>3, <1>4 DEF IInv

-----------------------------------------------------------------------------
\* The pending call.
LEMMA ReserveCallKeeps == ASSUME IInv, ReserveCall PROVE IInv'
<1>1. /\ host.pc = "looping" /\ run.pending # "none"
      /\ UNCHANGED <<mission, handled, ran, cancelled, faults>>
  BY DEF ReserveCall
<1>2. CASE HalfReserved
  <2>1. Save("tool_call", run.pending, run.runtime, "invoking", Queued)
    BY <1>2 DEF ReserveCall
  <2>2. /\ run.runtime \in Later /\ run.pending \in Tool \cup {"none"} /\ "tool_call" \in Kind
        /\ Queued \in MissionState
    BY Fields, BudgetAssumption, NamedStates DEF Later, Kind, Reservation, IInv
  <2>3. Lands("tool_call", run.pending, "invoking") /\ "tool_call" \in Open
    BY DEF Lands, StatusOf, Pause, Refusal, Open
  <2>4. QED BY <1>1, <2>1, <2>2, <2>3, SaveKeeps
<1>3. CASE ~HalfReserved
  <2>1. run.action \in Open
    BY <1>1, <1>3 DEF HalfReserved, IInv, CallInv, Open
  <2>2. QED BY <1>1, <1>3, <2>1, HostKeeps, NamedStates DEF ReserveCall, At
<1>4. QED BY <1>2, <1>3

\* A handler runs for a call that was counted, and not yet for this one.
LEMMA HandlerKeeps == ASSUME IInv, HandlerRuns PROVE IInv'
<1>1. /\ host.pc \in {"invoking", "waiting"} /\ run.pending # "none" /\ ~handled
      /\ handled' = TRUE /\ ran' = ran + 1
      /\ UNCHANGED <<run, cancelled, host, wakes, faults>>
  BY DEF HandlerRuns
<1>2. /\ run.action \in Open /\ run.status = "active" /\ Reserved
  BY <1>1 DEF IInv, HostInv, Reserved
<1>3. ran + 1 <= run.calls
  BY <1>1, <1>2, Fields DEF IInv, CallInv, One
<1>4. mission' \in MissionState
  <2>1. \A t \in Tool : Effects[t] \subseteq MissionState \X MissionState
    BY NamedStates DEF Tool, Effects, PlanProposed, PlanRefused, ApprovalRequested, PlanActivated
  <2>2. run.pending \in Tool
    BY <1>1, Fields DEF IInv
  <2>3. \A x \in Effects[run.pending] : x[2] \in MissionState
    BY <2>1, <2>2
  <2>4. QED BY <2>3, Fields DEF HandlerRuns, IInv
<1>5. TypeOK'
  BY <1>1, <1>3, <1>4, Fields, BudgetAssumption DEF IInv, TypeOK
<1>6. CallInv'
  BY <1>1, <1>2, <1>3, Fields DEF IInv, CallInv, OpenCallIsKept, One, Reserved, Open
<1>7. HostInv' /\ PauseInv' /\ AnswerIsHeard'
  BY <1>1, <1>2 DEF IInv, HostInv, PauseInv, AnswerIsHeard
<1>8. QED BY <1>5, <1>6, <1>7 DEF IInv

LEMMA WaitKeeps == ASSUME IInv, ToolWaits PROVE IInv'
<1>1. /\ host.pc = "invoking" /\ host' = [pc |-> "waiting", seen |-> Queued]
      /\ UNCHANGED <<mission, handled, ran, cancelled, wakes, faults>>
  BY DEF ToolWaits, At
<1>2. PICK r \in Later : IF Accepted("tool_wait", run.pending, r)
                         THEN run' = Saved("tool_wait", run.pending, r)
                         ELSE UNCHANGED run
  BY DEF ToolWaits
<1>3. /\ run' \in Run /\ CallInv' /\ PauseInv'
      /\ run'.status = "active" /\ run'.pending = run.pending
      /\ run.pending # "none" => run'.action \in Open
  <2>1. CASE Accepted("tool_wait", run.pending, r)
    <3>1. "tool_wait" \in Kind /\ "tool_wait" \in Open /\ run.pending \in Tool \cup {"none"}
      BY Fields DEF Kind, Open, IInv
    <3>2. StatusOf("tool_wait") = "active"
      BY DEF StatusOf, Pause, Refusal
    <3>3. QED BY <1>1, <1>2, <2>1, <3>1, <3>2, SavedKeeps
  <2>2. CASE ~Accepted("tool_wait", run.pending, r)
    <3>1. UNCHANGED run
      BY <1>2, <2>2
    <3>2. QED BY <1>1, <3>1 DEF IInv, TypeOK, CallInv, PauseInv, HostInv, OpenCallIsKept, Reserved,
                                One
  <2>3. QED BY <2>1, <2>2
<1>4. TypeOK'
  BY <1>1, <1>3, NamedStates DEF IInv, TypeOK, Host
<1>5. HostInv' /\ AnswerIsHeard'
  BY <1>1, <1>3 DEF HostInv, AnswerIsHeard
<1>6. QED BY <1>3, <1>4, <1>5 DEF IInv

\* The result's checkpoint closes the call, or leaves everything as it was.
LEMMA RetainKeeps == ASSUME IInv, RetainResult PROVE IInv'
<1>1. /\ host.pc = "answered" /\ handled' = (handled /\ run'.pending # "none")
      /\ UNCHANGED <<mission, ran, cancelled, faults>>
  BY DEF RetainResult
<1>2. PICK r \in Later : Save("state_persisted", "none", r, "looping", Queued)
  BY DEF RetainResult
<1>3. CASE Accepted("state_persisted", "none", r)
  <2>1. /\ run' = Saved("state_persisted", "none", r) /\ wakes' = wakes
        /\ host' = [pc |-> "looping", seen |-> Queued]
    BY <1>2, <1>3 DEF Save, See
  <2>2. StatusOf("state_persisted") = "active"
    BY DEF StatusOf, Pause, Refusal
  <2>3. /\ run'.status = "active" /\ run'.pending = "none" /\ run'.calls = run.calls
        /\ handled' = FALSE /\ ~Reserved'
    <3>1. /\ run'.status = "active" /\ run'.pending = "none"
          /\ run'.calls = run.calls + One("state_persisted" = "tool_call")
      BY <2>1, <2>2 DEF Saved
    <3>2. run'.calls = run.calls
      BY <3>1, Fields DEF One, IInv
    <3>3. handled' = FALSE
      BY <1>1, <3>1
    <3>4. QED BY <3>1, <3>2, <3>3 DEF Reserved
  <2>4. run' \in Run
    <3>1. "state_persisted" \in Kind /\ "none" \in Tool \cup {"none"}
      BY DEF Kind
    <3>2. QED BY <1>3, <2>1, <3>1, SavedInRun DEF IInv
  <2>5. TypeOK'
    BY <1>1, <2>1, <2>3, <2>4, NamedStates DEF IInv, TypeOK, Host
  <2>6. ran <= run.calls
    BY Fields DEF IInv, CallInv, One
  <2>7. CallInv' /\ HostInv' /\ PauseInv' /\ AnswerIsHeard'
    BY <1>1, <2>1, <2>3, <2>6, Fields DEF CallInv, HostInv, PauseInv, AnswerIsHeard,
                                          OpenCallIsKept, One, IInv
  <2>8. QED BY <2>5, <2>7 DEF IInv
<1>4. CASE ~Accepted("state_persisted", "none", r)
  <2>1. Throw
    BY <1>2, <1>4 DEF Save
  <2>2. handled' = handled
    BY <1>1, <2>1 DEF Throw, IInv, CallInv, OpenCallIsKept, TypeOK
  <2>3. QED BY <1>1, <2>1, <2>2, ThrowKeeps
<1>5. QED BY <1>3, <1>4

\* The activation ends, and its job comes again.
LEMMA OffKeeps ==
  ASSUME IInv, host' = [pc |-> "off", seen |-> Queued], wakes' = wakes \cup {"again"},
         UNCHANGED <<mission, run, handled, ran, cancelled>>, faults' \in 0 .. MaxFaults
  PROVE  IInv'
<1>1. TypeOK'
  BY NamedStates DEF IInv, TypeOK, Host
<1>2. CallInv' /\ HostInv' /\ PauseInv' /\ AnswerIsHeard'
  BY DEF IInv, CallInv, HostInv, PauseInv, AnswerIsHeard, OpenCallIsKept, Reserved, One
<1>3. QED BY <1>1, <1>2 DEF IInv

-----------------------------------------------------------------------------
\* The projection and the decision: each ends in a checkpoint without a call.
LEMMA ChecksKeep ==
  ASSUME IInv, run.pending = "none",
         NEW kind \in Kind \ Reservation, NEW r \in Later, NEW pc, NEW seen \in MissionState,
         Save(kind, "none", r, pc, seen),
         pc = "off" \/ (StatusOf(kind) = "active" /\ pc \in {"looping", "waiting", "deciding"}),
         UNCHANGED <<mission, handled, ran, cancelled, faults>>
  PROVE  IInv'
<1>1. Lands(kind, "none", pc)
  BY DEF Lands
<1>2. kind \in Kind /\ "none" \in Tool \cup {"none"}
  OBVIOUS
<1>3. QED BY <1>1, <1>2, SaveKeeps

\* Two transactions: what the first does to the mission, before its checkpoint.
LEMMA MoveKeeps ==
  ASSUME IInv, host.pc \notin {"off", "starting"}, run.pending = "none",
         NEW pc \in {"understood", "clarified"}, host' = [pc |-> pc, seen |-> Queued],
         mission' \in {Planning, Clarifying},
         UNCHANGED <<run, handled, ran, cancelled, wakes, faults>>
  PROVE  IInv'
<1>1. TypeOK'
  BY NamedStates DEF IInv, TypeOK, Host
<1>2. CallInv' /\ HostInv' /\ PauseInv' /\ AnswerIsHeard'
  BY DEF IInv, CallInv, HostInv, PauseInv, AnswerIsHeard, OpenCallIsKept, Reserved, One
<1>3. QED BY <1>1, <1>2 DEF IInv

LEMMA Kinds ==
  /\ {"decision_attempt", "state_persisted", "external_wait", "host_failed", "budget_exhausted",
      "clarification_pause", "approval_pause", "human_review_pause", "safe_refusal", "completed",
      "failed", "cancelled"} \subseteq Kind \ Reservation
  /\ \A kind \in {"decision_attempt", "state_persisted", "external_wait"} :
       StatusOf(kind) = "active"
BY DEF Kind, Pause, Refusal, Reservation, StatusOf

LEMMA ProjectionKeeps ==
  ASSUME IInv, Project \/ DoNotProject \/ FollowMission \/ Understand \/ Understood
                 \/ AttemptDecision
  PROVE  IInv'
<1>1. CASE Project
  BY <1>1, HostKeeps, Fields DEF Project, See, IInv
<1>2. CASE DoNotProject
  <2>1. PICK r \in Later :
          Save(IF OutOfTime(r) THEN "budget_exhausted" ELSE "host_failed", "none", r, "off", Queued)
    BY <1>2 DEF DoNotProject
  <2>2. (IF OutOfTime(r) THEN "budget_exhausted" ELSE "host_failed") \in Kind \ Reservation
    BY Kinds
  <2>3. QED BY <1>2, <2>1, <2>2, ChecksKeep, NamedStates DEF DoNotProject
<1>3. CASE FollowMission
  <2>1. PICK kind \in Kind \ Reservation, r \in Later : Save(kind, "none", r, "off", Queued)
    <3>1. CASE Terminal(host.seen)
      <4>1. EndOf(host.seen) \in {"completed", "failed", "cancelled"}
        BY <3>1 DEF EndOf, Terminal, TerminalStatus
      <4>2. QED BY <1>3, <3>1, <4>1, Kinds DEF FollowMission
    <3>2. CASE ~Terminal(host.seen)
      <4>1. PauseOf(host.seen) \in
              {"clarification_pause", "approval_pause", "external_wait", "none"}
        BY DEF PauseOf
      <4>2. QED BY <1>3, <3>2, <4>1, Kinds DEF FollowMission
    <3>3. QED BY <3>1, <3>2
  <2>2. run.pending = "none"
    BY <1>3 DEF FollowMission, IInv, HostInv
  <2>3. QED BY <1>3, <2>1, <2>2, ChecksKeep, NamedStates DEF FollowMission
<1>4. CASE Understand
  <2>1. host.pc = "projected" /\ run.pending = "none"
    BY <1>4 DEF Understand, GoesOn, IInv, HostInv
  <2>2. CASE mission = Understanding
    BY <1>4, <2>1, <2>2, MoveKeeps DEF Understand, At
  <2>3. CASE mission # Understanding
    BY <1>4, <2>3, ThrowKeeps DEF Understand
  <2>4. QED BY <2>2, <2>3
<1>5. CASE Understood
  <2>1. run.pending = "none"
    BY <1>5 DEF Understood, IInv, HostInv
  <2>2. QED BY <1>5, <2>1, Kinds, ChecksKeep, NamedStates DEF Understood
<1>6. CASE AttemptDecision
  <2>1. run.pending = "none" /\ host.seen \in MissionState
    BY <1>6, Fields DEF AttemptDecision, GoesOn, IInv, HostInv
  <2>2. PICK r \in Later : IF OutOfTime(r)
                           THEN Save("budget_exhausted", "none", r, "off", Queued)
                           ELSE Save("decision_attempt", "none", r, "deciding", host.seen)
    BY <1>6 DEF AttemptDecision
  <2>3. QED BY <1>6, <2>1, <2>2, Kinds, ChecksKeep, NamedStates DEF AttemptDecision
<1>7. QED BY <1>1, <1>2, <1>3, <1>4, <1>5, <1>6

LEMMA DecisionKeeps ==
  ASSUME IInv, ReserveTool \/ Clarify \/ PauseForClarification \/ Conclude \/ Summarize
  PROVE  IInv'
<1>1. run.pending = "none"
  BY DEF ReserveTool, Clarify, PauseForClarification, Conclude, Summarize, IInv, HostInv
<1>2. CASE ReserveTool
  <2>1. PICK tool \in Tool, r \in Later : Save(ReservationOf(tool), tool, r, "looping", Queued)
    BY <1>2 DEF ReserveTool
  <2>2. /\ ReservationOf(tool) \in Kind /\ tool \in Tool \cup {"none"}
        /\ StatusOf(ReservationOf(tool)) = "active"
    BY DEF ReservationOf, Kind, Reservation, StatusOf, Pause, Refusal
  <2>3. Lands(ReservationOf(tool), tool, "looping")
    BY <2>2 DEF Lands
  <2>4. QED BY <1>1, <1>2, <2>1, <2>2, <2>3, SaveKeeps, NamedStates DEF ReserveTool
<1>3. CASE Clarify
  <2>1. host.pc = "deciding"
    BY <1>3 DEF Clarify
  <2>2. CASE mission = Planning
    BY <1>1, <1>3, <2>1, <2>2, MoveKeeps DEF Clarify, At
  <2>3. CASE mission # Planning
    BY <1>3, <2>3, ThrowKeeps DEF Clarify
  <2>4. QED BY <2>2, <2>3
<1>4. CASE PauseForClarification
  BY <1>1, <1>4, Kinds, ChecksKeep, NamedStates DEF PauseForClarification
<1>5. CASE Conclude
  <2>1. PICK kind \in {"external_wait", "human_review_pause", "safe_refusal", "host_failed",
                       "budget_exhausted"}, r \in Later : Save(kind, "none", r, "off", Queued)
    BY <1>5 DEF Conclude
  <2>2. QED BY <1>1, <1>5, <2>1, Kinds, ChecksKeep, NamedStates DEF Conclude
<1>6. CASE Summarize
  BY <1>1, <1>6, Kinds, ChecksKeep, NamedStates DEF Summarize
<1>7. QED BY <1>2, <1>3, <1>4, <1>5, <1>6

-----------------------------------------------------------------------------
\* Faults, and what others do.
LEMMA FaultKeeps == ASSUME IInv, Lose \/ Interrupt PROVE IInv'
<1>1. faults' \in 0 .. MaxFaults
  BY FaultAssumption DEF Lose, Interrupt, Fault, IInv, TypeOK
<1>2. CASE Lose
  BY <1>1, <1>2, OffKeeps DEF Lose, At
<1>3. CASE Interrupt
  <2>1. /\ host' = [pc |-> "off", seen |-> Queued] /\ wakes' = wakes \cup {"again"}
        /\ run.pending = "none" /\ UNCHANGED <<mission, handled, ran, cancelled>>
    BY <1>3 DEF Interrupt, At
  <2>2. PICK kind \in {"budget_exhausted", "state_persisted"}, r \in Later :
          IF Accepted(kind, "none", r) THEN run' = Saved(kind, "none", r) ELSE UNCHANGED run
    BY <1>3 DEF Interrupt
  <2>3. CASE Accepted(kind, "none", r)
    <3>1. kind \in Kind /\ "none" \in Tool \cup {"none"}
      BY Kinds
    <3>2. /\ run' \in Run /\ CallInv' /\ PauseInv'
      BY <2>1, <2>2, <2>3, <3>1, SavedKeeps
    <3>3. TypeOK'
      BY <1>1, <2>1, <3>2, NamedStates DEF IInv, TypeOK, Host
    <3>4. HostInv' /\ AnswerIsHeard'
      BY <2>1 DEF HostInv, AnswerIsHeard
    <3>5. QED BY <3>2, <3>3, <3>4 DEF IInv
  <2>4. CASE ~Accepted(kind, "none", r)
    BY <1>1, <2>1, <2>2, <2>4, OffKeeps
  <2>5. QED BY <2>3, <2>4
<1>4. QED BY <1>2, <1>3

LEMMA LeaveKeeps == ASSUME IInv, Leave PROVE IInv'
<1>1. faults' \in 0 .. MaxFaults
  BY DEF Leave, IInv, TypeOK
<1>2. QED BY <1>1, OffKeeps DEF Leave, At, SuccessorJob

\* A move of the mission that leaves a run that waits for the user where it
\* paused, or with a job to resume it.
LEMMA MissionMoves ==
  ASSUME IInv, NEW to \in MissionState, mission' = to, NEW jobs \in SUBSET {"new"},
         wakes' = wakes \cup jobs, cancelled' \in BOOLEAN,
         UNCHANGED <<run, handled, ran, host, faults>>,
         \/ Terminal(to)
         \/ mission = Clarifying /\ to = Planning /\ jobs = {"new"}
         \/ mission = Approving /\ to \in {Executing, Planning} /\ jobs = {"new"}
         \/ mission \in {Reconciling, Observing, Verifying}
  PROVE  IInv'
<1>1. TypeOK'
  BY DEF IInv, TypeOK
<1>2. CallInv' /\ HostInv'
  BY DEF IInv, CallInv, HostInv, OpenCallIsKept, Reserved, One
<1>3. PauseInv' /\ AnswerIsHeard'
  <2>1. CASE Terminal(to)
    <3>1. Terminal(mission)' /\ mission'.status # "running"
      BY <2>1 DEF Terminal, TerminalStatus
    <3>2. QED BY <3>1 DEF IInv, PauseInv, AnswerIsHeard
  <2>2. CASE ~Terminal(to) /\ mission \in {Clarifying, Approving}
    <3>1. /\ jobs = {"new"} /\ Clarifying # Approving /\ ~Terminal(mission)
          /\ mission = Clarifying => to = Planning
          /\ mission = Approving => to \in {Executing, Planning}
      BY <2>2, NamedStates
    <3>2. {Clarifying, Planning} \cap {Approving, Executing} = {}
      BY NamedStates
    <3>3. PauseInv'
      BY <2>2, <3>1, <3>2, NamedStates DEF IInv, PauseInv, Terminal
    <3>4. AnswerIsHeard'
      BY <3>1 DEF AnswerIsHeard
    <3>5. QED BY <3>3, <3>4
  <2>3. CASE ~Terminal(to) /\ mission \in {Reconciling, Observing, Verifying}
    <3>1. ~Terminal(mission) /\ mission \notin {Clarifying, Planning, Approving, Executing}
      BY <2>3, NamedStates
    <3>2. run.status = "paused" => run.action \notin {"clarification_pause", "approval_pause"}
      BY <3>1 DEF IInv, PauseInv
    <3>3. QED BY <3>2 DEF IInv, PauseInv, AnswerIsHeard
  <2>4. QED BY <2>1, <2>2, <2>3
<1>4. QED BY <1>1, <1>2, <1>3 DEF IInv

LEMMA StoppedIsState == /\ Stopped(mission) = State("cancelled", mission.phase)
                        /\ TypeOK => Stopped(mission) \in MissionState
                        /\ Terminal(Stopped(mission))
BY Fields DEF Stopped, State, MissionState, Status, Terminal, TerminalStatus

LEMMA OthersKeep == ASSUME IInv, Others PROVE IInv'
<1>1. cancelled \in BOOLEAN
  BY DEF IInv, TypeOK
<1>2. ASSUME NEW to \in MissionState, NEW jobs \in SUBSET {"new"}, Move(to, jobs),
             \/ Terminal(to)
             \/ mission = Clarifying /\ to = Planning /\ jobs = {"new"}
             \/ mission = Approving /\ to \in {Executing, Planning} /\ jobs = {"new"}
             \/ mission \in {Reconciling, Observing, Verifying}
      PROVE  IInv'
  <2>1. /\ mission' = to /\ wakes' = wakes \cup jobs /\ cancelled' \in BOOLEAN
        /\ UNCHANGED <<run, handled, ran, host, faults>>
    BY <1>1, <1>2 DEF Move
  <2>2. QED BY <1>2, <2>1, MissionMoves
<1>3. CASE AnswerClarification
  BY <1>2, <1>3, NamedStates DEF AnswerClarification, ResumeJob
<1>4. CASE DecideApproval
  BY <1>2, <1>4, NamedStates DEF DecideApproval, ResumeJob
<1>5. CASE WorkProceeds
  <2>1. State("waiting_for_user", "reconcile") \in MissionState
    BY DEF State, MissionState, Status, Phase
  <2>2. PICK to \in MissionState :
          Move(to, {}) /\ mission \in {Reconciling, Observing, Verifying}
    BY <1>5, <2>1, NamedStates, StoppedIsState DEF WorkProceeds, IInv
  <2>3. QED BY <1>2, <2>2
<1>6. CASE Verify
  <2>1. {State("succeeded", "verify"), State("waiting_for_user", "verify")} \subseteq MissionState
    BY DEF State, MissionState, Status, Phase
  <2>2. QED BY <1>2, <1>6, <2>1 DEF Verify, ResumeJob
<1>7. CASE Cancel
  <2>1. PICK to \in MissionState :
          /\ mission' = to
          /\ Terminal(to) \/ mission \in {Reconciling, Observing, Verifying}
    BY <1>7, NamedStates, StoppedIsState DEF Cancel, IInv
  <2>2. wakes' = wakes \cup {} /\ cancelled' \in BOOLEAN /\ {} \in SUBSET {"new"}
    BY <1>7 DEF Cancel
  <2>3. QED BY <1>7, <2>1, <2>2, MissionMoves DEF Cancel
<1>8. QED BY <1>3, <1>4, <1>5, <1>6, <1>7 DEF Others

-----------------------------------------------------------------------------
LEMMA IInvInit == Init => IInv
<1>1. SUFFICES ASSUME Init PROVE IInv
  OBVIOUS
<1>2. NoRun \in Run
  BY BudgetAssumption DEF NoRun, Run, Phase, Kind, Tool
<1>3. TypeOK
  <2>1. host \in Host /\ mission \in MissionState
    BY <1>1, NamedStates DEF Init, Host
  <2>2. ran \in 0 .. MaxToolCalls /\ faults \in 0 .. MaxFaults
    BY <1>1, BudgetAssumption, FaultAssumption DEF Init
  <2>3. QED BY <1>1, <1>2, <2>1, <2>2 DEF Init, TypeOK
<1>4. CallInv /\ HostInv /\ PauseInv /\ AnswerIsHeard
  <2>1. /\ run.pending = "none" /\ run.status = "none" /\ run.calls = 0 /\ ran = 0
        /\ host.pc = "off" /\ ~handled
    BY <1>1 DEF Init, NoRun
  <2>2. CallInv
    BY <2>1 DEF CallInv, OpenCallIsKept, Reserved, One
  <2>3. QED BY <2>1, <2>2 DEF HostInv, PauseInv, AnswerIsHeard
<1>5. QED BY <1>3, <1>4 DEF IInv

LEMMA IInvStep == IInv /\ [Next]_vars => IInv'
<1>1. SUFFICES ASSUME IInv, [Next]_vars PROVE IInv'
  OBVIOUS
<1>2. ASSUME NEW w \in {"new", "again"}, Acquire(w) PROVE IInv'
  BY <1>1, <1>2, AcquireKeeps
<1>3. CASE Proceed
  <2>1. CASE Activate \/ RefuseStart
    BY <1>1, <2>1, ActivateKeeps, RefuseKeeps
  <2>2. CASE ToolAnswers
    BY <1>1, <2>2, HostKeeps, NamedStates DEF ToolAnswers, At
  <2>3. CASE ReserveCall \/ ToolWaits \/ RetainResult \/ Leave
    BY <1>1, <2>3, ReserveCallKeeps, WaitKeeps, RetainKeeps, LeaveKeeps
  <2>4. CASE Project \/ DoNotProject \/ FollowMission \/ Understand \/ Understood
               \/ AttemptDecision
    BY <1>1, <2>4, ProjectionKeeps
  <2>5. CASE ReserveTool \/ Clarify \/ PauseForClarification \/ Conclude \/ Summarize
    BY <1>1, <2>5, DecisionKeeps
  <2>6. QED BY <1>3, <2>1, <2>2, <2>3, <2>4, <2>5 DEF Proceed
<1>4. CASE HandlerRuns
  BY <1>1, <1>4, HandlerKeeps
<1>5. CASE Lose \/ Interrupt
  BY <1>1, <1>5, FaultKeeps
<1>6. CASE Others
  BY <1>1, <1>6, OthersKeep
<1>7. CASE UNCHANGED vars
  BY <1>1, <1>7 DEF vars, IInv, TypeOK, CallInv, HostInv, PauseInv, AnswerIsHeard, OpenCallIsKept,
                    Reserved, One, Terminal
<1>8. QED BY <1>1, <1>2, <1>3, <1>4, <1>5, <1>6, <1>7 DEF Next

LEMMA IInvAlways == Spec => []IInv
<1>1. QED BY IInvInit, IInvStep, PTL DEF Spec

\* Every counter of the run stays within its ceiling, and the rest has its type.
THEOREM TypeCorrect == Spec => []TypeOK
<1>1. IInv => TypeOK
  BY DEF IInv
<1>2. QED BY <1>1, IInvAlways, PTL

\* A call whose handler ran stays the run's pending call until its result is
\* retained, across takeovers, shutdowns and whatever its mission does.
THEOREM CallStaysOpen == Spec => []OpenCallIsKept
<1>1. IInv => OpenCallIsKept
  BY DEF IInv, CallInv
<1>2. QED BY <1>1, IInvAlways, PTL

\* All activations of a mission together run no more handlers than its budget.
THEOREM MissionWithinBudget == Spec => []MissionStaysInBudget
<1>1. IInv => MissionStaysInBudget
  <2>1. ASSUME IInv PROVE ran <= run.calls
    <3>1. ran \in Nat /\ run.calls \in Nat
      BY <2>1, Fields DEF IInv
    <3>2. QED BY <2>1, <3>1 DEF IInv, CallInv, One
  <2>2. ASSUME IInv PROVE run.calls <= MaxToolCalls
    BY <2>2, Fields DEF IInv
  <2>3. QED BY <2>1, <2>2 DEF MissionStaysInBudget
<1>2. QED BY <1>1, IInvAlways, PTL

\* A paused run whose user has answered is resumed: no refused activation, no
\* late job and no other move of the mission swallows the answer.
THEOREM AnswersAreHeard == Spec => []AnswerIsHeard
<1>1. IInv => AnswerIsHeard
  BY DEF IInv
<1>2. QED BY <1>1, IInvAlways, PTL

-----------------------------------------------------------------------------
\* The refinement of DurableRun.  An accepted checkpoint is one of its steps, by
\* its kind; a refused one, like a lost activation, loses at most the answer.

AnswerInv ==
  host.pc \in {"invoking", "answered"} => run.pending # "none" /\ run.action \in Open

Answered == host.pc = "answered"
Used == [revisions |-> run.revisions, clarifications |-> run.clarifications,
         polls |-> run.polls, runtime |-> run.runtime]
EndedAs == IF Terminal(mission) THEN mission.status ELSE "open"
View == <<run.status, CallState, Answered, run.calls, ran, Used, EndedAs>>
Step == Record!Next \/ UNCHANGED View

LEMMA ViewIsVars == UNCHANGED View => UNCHANGED Record!vars
BY DEF View, Record!vars, Answered, Used, EndedAs

\* What an accepted checkpoint does to the counters.
LEMMA SavedCounts ==
  ASSUME TypeOK, NEW kind \in Kind, NEW next \in Tool \cup {"none"}, NEW r \in Later,
         Accepted(kind, next, r), run' = Saved(kind, next, r)
  PROVE  /\ Record!Use
         /\ run'.calls = run.calls + One(kind = "tool_call")
         /\ kind = "tool_call" => run.calls < MaxToolCalls
<1>1. /\ run'.revisions = run.revisions + One(kind = "plan_revision")
      /\ run'.clarifications = run.clarifications + One(kind = "clarification_pause")
      /\ run'.polls = run.polls + One(kind = "reconciliation_poll")
      /\ run'.runtime = r /\ run'.calls = run.calls + One(kind = "tool_call")
  BY DEF Saved
<1>2. /\ run.revisions <= run'.revisions /\ run'.revisions <= MaxPlanRevisions
      /\ run.clarifications <= run'.clarifications /\ run'.clarifications <= MaxClarifications
      /\ run.polls <= run'.polls /\ run'.polls <= MaxPolls
  BY <1>1, Fields, BudgetAssumption DEF Accepted, CountersAllow, One
<1>3. run.runtime <= run'.runtime /\ run'.runtime <= MaxRuntime
  BY <1>1, Fields, BudgetAssumption DEF Later
<1>4. Record!Use
  BY <1>2, <1>3 DEF Record!Use
<1>5. QED BY <1>1, <1>4 DEF Accepted, CountersAllow

\* The kinds of checkpoint, by the status they leave.
LEMMA StatusByKind ==
  ASSUME NEW kind \in Kind
  PROVE  /\ kind \in Pause => StatusOf(kind) = "paused"
         /\ kind \in Refusal => StatusOf(kind) = "failed"
         /\ kind = "completed" => StatusOf(kind) = "completed"
         /\ kind = "cancelled" => StatusOf(kind) = "cancelled"
         /\ kind \notin Pause \cup Refusal \cup {"completed", "cancelled"} => StatusOf(kind) = "active"
         /\ Pause \cap Refusal = {}
         /\ (Pause \cup Refusal \cup {"completed", "cancelled"}) \cap (Reservation \cup Open) = {}
BY DEF StatusOf, Pause, Refusal, Reservation, Open, Kind

\* A checkpoint that ends a run agrees with its mission.
LEMMA EndAgrees ==
  ASSUME NEW kind \in Refusal \cup {"completed", "cancelled"}, NEW next, NEW r,
         Accepted(kind, next, r)
  PROVE  /\ kind = "completed" => EndedAs = "succeeded"
         /\ kind = "cancelled" => EndedAs = "cancelled"
         /\ kind \in Refusal => EndedAs \in {"open", "failed"}
BY DEF Accepted, MissionAllows, EndedAs, Terminal, TerminalStatus, State, Refusal

\* A checkpoint of an activation that has no answer to keep.
LEMMA CheckpointStep ==
  ASSUME IInv, NEW kind \in Kind, NEW next \in Tool \cup {"none"}, NEW r \in Later,
         Accepted(kind, next, r), run.pending = "none" \/ kind \in Open,
         run' = Saved(kind, next, r), UNCHANGED <<mission, handled, ran>>,
         run.status = "active", ~Answered, ~Answered'
  PROVE  Record!Next
<1>1. /\ run'.status = StatusOf(kind) /\ run'.action = kind /\ run'.pending = next
      /\ run'.calls = run.calls + One(kind = "tool_call")
      /\ Record!Use /\ EndedAs' = EndedAs
  BY SavedCounts DEF IInv, Saved, EndedAs, Terminal
<1>2. PendingAllows(kind, next)
  BY DEF Accepted
<1>3. handled => run.pending # "none" /\ run.action \in Open
  BY DEF IInv, CallInv, OpenCallIsKept, Open
<1>4. CASE kind = "tool_call"
  <2>1. CallState \in {"none", "reserved"} /\ CallState' = "counted"
    BY <1>1, <1>2, <1>3, <1>4, Fields
       DEF CallState, HalfReserved, PendingAllows, Open, Reservation, Tool, IInv
  <2>2. run.calls < MaxToolCalls /\ run'.calls = run.calls + 1 /\ run'.status = "active"
    BY <1>1, <1>4, SavedCounts, StatusByKind DEF One, Open, IInv
  <2>3. Record!Count
    BY <1>1, <2>1, <2>2 DEF Record!Count, Answered, EndedAs
  <2>4. QED BY <2>3 DEF Record!Next
<1>5. CASE kind \in {"plan_revision", "reconciliation_poll"}
  <2>1. CallState = "none" /\ CallState' = "reserved"
    BY <1>1, <1>2, <1>5 DEF CallState, HalfReserved, PendingAllows, Open, Reservation
  <2>2. run'.calls = run.calls /\ run'.status = "active"
    BY <1>1, <1>5, StatusByKind, Fields DEF One, Reservation, IInv
  <2>3. Record!Reserve
    BY <1>1, <2>1, <2>2 DEF Record!Reserve, Answered, EndedAs
  <2>4. QED BY <2>3 DEF Record!Next
<1>6. CASE kind = "tool_wait"
  <2>1. CallState' = CallState
    BY <1>1, <1>2, <1>3, <1>6 DEF CallState, HalfReserved, PendingAllows, Open, Reservation
  <2>2. run'.calls = run.calls /\ run'.status = "active"
    BY <1>1, <1>6, StatusByKind, Fields DEF One, Open, IInv
  <2>3. Record!Note
    BY <1>1, <2>1, <2>2 DEF Record!Note, Answered, EndedAs
  <2>4. QED BY <2>3 DEF Record!Next
<1>7. CASE kind \notin Open \cup Reservation
  <2>1. run.pending = "none" /\ next = "none" /\ run'.calls = run.calls
    BY <1>1, <1>2, <1>7, Fields DEF PendingAllows, Open, Reservation, One, IInv
  <2>2. CallState = "none" /\ CallState' = "none"
    BY <1>1, <2>1 DEF CallState
  <2>3. CASE kind \in Pause
    <3>1. Record!Pause
      BY <1>1, <2>1, <2>2, <2>3, StatusByKind DEF Record!Pause, Answered, EndedAs
    <3>2. QED BY <3>1 DEF Record!Next
  <2>4. CASE kind \in Refusal \cup {"completed", "cancelled"}
    <3>1. Record!End
      BY <1>1, <2>1, <2>2, <2>4, StatusByKind, EndAgrees DEF Record!End, Answered, EndedAs
    <3>2. QED BY <3>1 DEF Record!Next
  <2>5. CASE kind \notin Pause \cup Refusal \cup {"completed", "cancelled"}
    <3>1. Record!Note
      BY <1>1, <2>1, <2>2, <2>5, StatusByKind DEF Record!Note, Answered, EndedAs
    <3>2. QED BY <3>1 DEF Record!Next
  <2>6. QED BY <2>3, <2>4, <2>5
<1>8. QED BY <1>4, <1>5, <1>6, <1>7 DEF Open, Reservation

\* An activation that ends or goes on with neither a checkpoint nor a move.
LEMMA QuietStep ==
  ASSUME IInv, UNCHANGED <<mission, run, handled, ran>>, ~Answered'
  PROVE  Step
<1>1. UNCHANGED <<run.status, CallState, run.calls, ran, Used, EndedAs>>
  BY DEF CallState, HalfReserved, Used, EndedAs, Terminal
<1>2. CASE Answered
  BY <1>1, <1>2 DEF Step, Record!Next, Record!Lose, Answered, Used, EndedAs
<1>3. CASE ~Answered
  BY <1>1, <1>3 DEF Step, View, Answered
<1>4. QED BY <1>2, <1>3

LEMMA SaveStep ==
  ASSUME IInv, NEW kind \in Kind, NEW next \in Tool \cup {"none"}, NEW r \in Later,
         NEW pc, NEW seen, Save(kind, next, r, pc, seen), pc # "answered",
         run.pending = "none" \/ kind \in Open, UNCHANGED <<mission, handled, ran>>,
         host.pc \notin {"off", "starting", "answered"}
  PROVE  Step
<1>1. CASE Accepted(kind, next, r)
  <2>1. run' = Saved(kind, next, r) /\ ~Answered /\ ~Answered' /\ run.status = "active"
    BY <1>1 DEF Save, See, Answered, IInv, HostInv
  <2>2. QED BY <1>1, <2>1, CheckpointStep DEF Step
<1>2. CASE ~Accepted(kind, next, r)
  BY <1>2, QuietStep DEF Save, Throw, At, Answered
<1>3. QED BY <1>1, <1>2

\* Only a counted call is invoked, and only an invoked one answered.
LEMMA AnswerStep == IInv /\ AnswerInv /\ [Next]_vars => AnswerInv'
<1>1. SUFFICES ASSUME IInv, AnswerInv, [Next]_vars PROVE AnswerInv'
  OBVIOUS
<1>2. CASE host'.pc \notin {"invoking", "answered"}
  BY <1>2 DEF AnswerInv
<1>3. CASE ReserveCall
  <2>1. run.pending # "none"
    BY <1>3 DEF ReserveCall
  <2>2. CASE HalfReserved
    <3>1. CASE Accepted("tool_call", run.pending, run.runtime)
      BY <1>3, <2>1, <2>2, <3>1 DEF ReserveCall, Save, Saved, AnswerInv, Open
    <3>2. CASE ~Accepted("tool_call", run.pending, run.runtime)
      BY <1>3, <2>2, <3>2 DEF ReserveCall, Save, Throw, At, AnswerInv
    <3>3. QED BY <3>1, <3>2
  <2>3. CASE ~HalfReserved
    BY <1>1, <1>3, <2>1, <2>3 DEF ReserveCall, HalfReserved, IInv, CallInv, AnswerInv, Open, At
  <2>4. QED BY <2>2, <2>3
<1>4. CASE ToolAnswers
  BY <1>1, <1>4 DEF ToolAnswers, AnswerInv
<1>5. CASE UNCHANGED <<run, host>>
  BY <1>1, <1>5 DEF AnswerInv
<1>6. CASE Proceed /\ ~ReserveCall /\ ~ToolAnswers
  <2>1. CASE Activate \/ RefuseStart \/ Leave \/ Project \/ Understand \/ Clarify \/ ToolWaits
    BY <1>2, <2>1 DEF Activate, RefuseStart, Leave, Project, Understand, Clarify, ToolWaits, At, See,
                      Throw
  <2>2. CASE RetainResult \/ DoNotProject \/ FollowMission \/ Understood \/ AttemptDecision
             \/ ReserveTool \/ PauseForClarification \/ Conclude \/ Summarize
    BY <1>2, <2>2 DEF RetainResult, DoNotProject, FollowMission, Understood, AttemptDecision,
                      ReserveTool, PauseForClarification, Conclude, Summarize, Save, See, Throw, At
  <2>3. QED BY <1>6, <2>1, <2>2 DEF Proceed
<1>7. CASE (\E w \in {"new", "again"} : Acquire(w)) \/ Lose \/ Interrupt
  BY <1>2, <1>7 DEF Acquire, Lose, Interrupt, At
<1>8. CASE HandlerRuns \/ Others \/ UNCHANGED vars
  BY <1>5, <1>8 DEF HandlerRuns, Others, AnswerClarification, DecideApproval, WorkProceeds, Verify,
                    Cancel, Move, vars
<1>9. QED BY <1>1, <1>3, <1>4, <1>6, <1>7, <1>8 DEF Next

LEMMA RecordInit == Init => Record!Init /\ AnswerInv
<1>1. SUFFICES ASSUME Init PROVE Record!Init /\ AnswerInv
  OBVIOUS
<1>2. Used = [c \in {"revisions", "clarifications", "polls", "runtime"} |-> 0]
  BY <1>1 DEF Init, NoRun, Used
<1>3. ~Terminal(mission)
  BY <1>1, NamedStates DEF Init
<1>4. QED BY <1>1, <1>2, <1>3 DEF Init, NoRun, Record!Init, CallState, Used, AnswerInv

\* What moves a mission that goes on, and not its run, is not seen.
LEMMA MovesOn ==
  ASSUME IInv, ~Terminal(mission), ~Terminal(mission)', UNCHANGED <<run, handled, ran>>,
         ~Answered, ~Answered'
  PROVE  Step
BY DEF Step, View, CallState, HalfReserved, Used, EndedAs, Answered

LEMMA AcquireStep == ASSUME IInv, NEW w \in {"new", "again"}, Acquire(w) PROVE Step
<1>1. ~Answered /\ ~Answered' /\ UNCHANGED <<run, handled, ran>>
  BY DEF Acquire, At, Answered
<1>2. CASE mission = Queued
  BY <1>1, <1>2, MovesOn, NamedStates DEF Acquire, Terminal
<1>3. CASE mission # Queued
  BY <1>1, <1>3, QuietStep DEF Acquire
<1>4. QED BY <1>2, <1>3

LEMMA OpenedStep ==
  ASSUME IInv, ~Answered, ~Answered', UNCHANGED <<mission, handled, ran>>,
         run.status \in {"none", "active", "paused"},
         NEW action \in {run.action, "activated"}, run' = Opened(action),
         action = run.action \/ run.pending = "none"
  PROVE  Step
<1>1. /\ run'.status = "active" /\ run'.pending = run.pending /\ run'.action = action
      /\ UNCHANGED <<run.calls, ran, Used, EndedAs>>
  BY DEF Opened, Used, EndedAs, Terminal
<1>2. CallState' = CallState
  BY <1>1 DEF CallState, HalfReserved
<1>3. CASE run.status = "active"
  BY <1>1, <1>2, <1>3 DEF Step, View, Answered
<1>4. CASE run.status # "active"
  <2>1. Record!Open
    BY <1>1, <1>2, <1>4 DEF Record!Open, Answered, Used, EndedAs
  <2>2. QED BY <2>1 DEF Step, Record!Next
<1>5. QED BY <1>3, <1>4

LEMMA StartStep == ASSUME IInv, Activate \/ RefuseStart PROVE Step
<1>1. ~Answered /\ ~Answered' /\ UNCHANGED <<mission, handled, ran>>
  BY DEF Activate, RefuseStart, At, Answered
<1>2. CASE UNCHANGED run
  BY <1>1, <1>2, QuietStep
<1>3. CASE (Finalizes \/ Synchronizes \/ TakesOver) /\ run' = TakenOver
  BY <1>1, <1>3, OpenedStep DEF TakenOver, Finalizes, Synchronizes, TakesOver
<1>4. CASE Succeeds /\ run' = Successor
  BY <1>1, <1>4, OpenedStep DEF Successor, Succeeds
<1>5. QED BY <1>2, <1>3, <1>4 DEF Activate, RefuseStart

\* A call is invoked, or waited for, once it is counted.
LEMMA CallStep ==
  ASSUME IInv, AnswerInv, ReserveCall \/ ToolAnswers \/ ToolWaits \/ Leave
  PROVE  Step
<1>1. UNCHANGED <<mission, handled, ran>> /\ host.pc \in {"looping", "invoking", "waiting"}
  BY DEF ReserveCall, ToolAnswers, ToolWaits, Leave
<1>2. run.status = "active"
  BY <1>1 DEF IInv, HostInv
<1>3. CASE ReserveCall
  <2>1. CASE HalfReserved
    <3>1. /\ run.runtime \in Later /\ run.pending \in Tool \cup {"none"} /\ "tool_call" \in Kind
          /\ "tool_call" \in Open
      BY Fields, BudgetAssumption DEF Later, Kind, Reservation, IInv, Open
    <3>2. Save("tool_call", run.pending, run.runtime, "invoking", Queued)
      BY <1>3, <2>1 DEF ReserveCall
    <3>3. QED BY <1>1, <3>1, <3>2, SaveStep
  <2>2. CASE ~HalfReserved
    BY <1>1, <1>3, <2>2, QuietStep DEF ReserveCall, At, Answered
  <2>3. QED BY <2>1, <2>2
<1>4. CASE ToolAnswers
  <2>1. /\ host.pc = "invoking" /\ host'.pc = "answered" /\ UNCHANGED run
        /\ run.pending # "none" /\ run.action \in Open
    BY <1>4 DEF ToolAnswers, At, AnswerInv
  <2>2. CallState \in {"counted", "ran"} /\ CallState' = CallState
    BY <1>1, <2>1 DEF CallState, HalfReserved, Open
  <2>3. Record!Answer
    BY <1>1, <1>2, <2>1, <2>2 DEF Record!Answer, Terminal
  <2>4. QED BY <2>3 DEF Step, Record!Next
<1>5. CASE ToolWaits
  <2>1. ~Answered /\ ~Answered'
    BY <1>5 DEF ToolWaits, At, Answered
  <2>2. PICK r \in Later : IF Accepted("tool_wait", run.pending, r)
                           THEN run' = Saved("tool_wait", run.pending, r)
                           ELSE UNCHANGED run
    BY <1>5 DEF ToolWaits
  <2>3. CASE Accepted("tool_wait", run.pending, r)
    <3>1. "tool_wait" \in Kind /\ "tool_wait" \in Open /\ run.pending \in Tool \cup {"none"}
      BY Fields DEF Kind, Open, IInv
    <3>2. QED BY <1>1, <1>2, <2>1, <2>2, <2>3, <3>1, CheckpointStep DEF Step
  <2>4. CASE ~Accepted("tool_wait", run.pending, r)
    BY <1>1, <2>1, <2>2, <2>4, QuietStep
  <2>5. QED BY <2>3, <2>4
<1>6. CASE Leave
  BY <1>6, QuietStep DEF Leave, At, Answered
<1>7. QED BY <1>3, <1>4, <1>5, <1>6

\* A handler runs while its call is counted, and leaves its mission going on.
LEMMA HandlerStep == ASSUME IInv, HandlerRuns PROVE Step
<1>1. /\ host.pc \in {"invoking", "waiting"} /\ run.pending # "none" /\ ~handled
      /\ handled' = TRUE /\ ran' = ran + 1 /\ UNCHANGED <<run, host>>
      /\ run.action \in Open /\ run.status = "active"
  BY DEF HandlerRuns, IInv, HostInv
<1>2. EndedAs' = EndedAs
  <2>1. \A t \in Tool : \A e \in Effects[t] : ~Terminal(e[1]) /\ ~Terminal(e[2])
    BY NamedStates DEF Tool, Effects, PlanProposed, PlanRefused, ApprovalRequested, PlanActivated
  <2>2. run.pending \in Tool
    BY <1>1, Fields DEF IInv
  <2>3. mission' = mission \/ (~Terminal(mission) /\ ~Terminal(mission)')
    BY <2>1, <2>2 DEF HandlerRuns, Terminal
  <2>4. QED BY <2>3 DEF EndedAs, Terminal
<1>3. CallState = "counted" /\ CallState' = "ran" /\ ~Answered /\ ~Answered'
  BY <1>1 DEF CallState, HalfReserved, Open, Answered
<1>4. Record!Run
  BY <1>1, <1>2, <1>3 DEF Record!Run, Answered, EndedAs
<1>5. QED BY <1>4 DEF Step, Record!Next

LEMMA RetainStep == ASSUME IInv, AnswerInv, RetainResult PROVE Step
<1>1. /\ host.pc = "answered" /\ UNCHANGED <<mission, ran>> /\ run.status = "active"
      /\ run.pending # "none" /\ run.action \in Open /\ handled' = (handled /\ run'.pending # "none")
  BY DEF RetainResult, AnswerInv, IInv, HostInv
<1>2. PICK r \in Later : Save("state_persisted", "none", r, "looping", Queued)
  BY DEF RetainResult
<1>3. CASE Accepted("state_persisted", "none", r)
  <2>1. run' = Saved("state_persisted", "none", r) /\ Answered /\ ~Answered'
    BY <1>1, <1>2, <1>3 DEF Save, See, Answered
  <2>2. "state_persisted" \in Kind /\ "none" \in Tool \cup {"none"}
    BY Kinds
  <2>3. /\ run'.status = "active" /\ run'.pending = "none" /\ run'.calls = run.calls
        /\ Record!Use /\ EndedAs' = EndedAs
    <3>1. run'.calls = run.calls + 0 /\ Record!Use
      BY <1>3, <2>1, <2>2, SavedCounts DEF One, IInv
    <3>2. run'.status = "active" /\ run'.pending = "none"
      BY <2>1, Kinds DEF Saved
    <3>3. QED BY <1>1, <3>1, <3>2, Fields DEF IInv, EndedAs, Terminal
  <2>4. CallState' = "none"
    BY <2>3 DEF CallState
  <2>5. Record!Retain
    BY <1>1, <2>1, <2>3, <2>4 DEF Record!Retain, Answered, EndedAs
  <2>6. QED BY <2>5 DEF Step, Record!Next
<1>4. CASE ~Accepted("state_persisted", "none", r)
  <2>1. UNCHANGED run /\ ~Answered'
    BY <1>2, <1>4 DEF Save, Throw, At, Answered
  <2>2. handled' = handled
    BY <1>1, <2>1 DEF IInv, TypeOK
  <2>3. QED BY <1>1, <2>1, <2>2, QuietStep
<1>5. QED BY <1>3, <1>4

\* An activation without a call: each of its steps is one checkpoint, or none.
LEMMA ChecksStep ==
  ASSUME IInv, host.pc \in {"looping", "projected", "understood", "deciding", "clarified"},
         run.pending = "none", UNCHANGED <<mission, handled, ran>>,
         NEW kind \in Kind, NEW next \in Tool \cup {"none"}, NEW r \in Later,
         NEW pc \in {"off", "looping", "deciding", "waiting"}, NEW seen,
         Save(kind, next, r, pc, seen)
  PROVE  Step
<1>1. pc # "answered" /\ host.pc \notin {"off", "starting", "answered"}
  OBVIOUS
<1>2. QED BY <1>1, SaveStep

LEMMA ProjectionStep ==
  ASSUME IInv, Project \/ DoNotProject \/ FollowMission \/ Understand \/ Understood
                 \/ AttemptDecision
  PROVE  Step
<1>1. /\ host.pc \in {"looping", "projected", "understood"} /\ run.pending = "none"
      /\ UNCHANGED <<handled, ran>> /\ "none" \in Tool \cup {"none"}
  BY DEF Project, DoNotProject, FollowMission, Understand, Understood, AttemptDecision, GoesOn,
         IInv, HostInv
<1>2. CASE Project
  BY <1>2, QuietStep DEF Project, See, Answered
<1>3. CASE DoNotProject
  <2>1. PICK r \in Later :
          Save(IF OutOfTime(r) THEN "budget_exhausted" ELSE "host_failed", "none", r, "off", Queued)
    BY <1>3 DEF DoNotProject
  <2>2. (IF OutOfTime(r) THEN "budget_exhausted" ELSE "host_failed") \in Kind
    BY Kinds
  <2>3. QED BY <1>1, <1>3, <2>1, <2>2, ChecksStep DEF DoNotProject
<1>4. CASE FollowMission
  <2>1. PICK kind \in Kind, r \in Later : Save(kind, "none", r, "off", Queued)
    <3>1. CASE Terminal(host.seen)
      <4>1. EndOf(host.seen) \in Kind
        BY <3>1, Kinds DEF EndOf, Terminal, TerminalStatus
      <4>2. QED BY <1>4, <3>1, <4>1 DEF FollowMission
    <3>2. CASE ~Terminal(host.seen)
      <4>1. PauseOf(host.seen) \in Kind \cup {"none"}
        BY Kinds DEF PauseOf
      <4>2. QED BY <1>4, <3>2, <4>1 DEF FollowMission
    <3>3. QED BY <3>1, <3>2
  <2>2. QED BY <1>1, <1>4, <2>1, ChecksStep DEF FollowMission
<1>5. CASE Understand
  <2>1. CASE mission = Understanding
    <3>1. ~Terminal(mission) /\ ~Terminal(mission)' /\ UNCHANGED run
      BY <1>5, <2>1, NamedStates DEF Understand, Terminal
    <3>2. ~Answered /\ ~Answered'
      BY <1>5, <2>1 DEF Understand, GoesOn, At, Answered
    <3>3. QED BY <1>1, <3>1, <3>2, MovesOn
  <2>2. CASE mission # Understanding
    BY <1>5, <2>2, QuietStep DEF Understand, Throw, At, Answered
  <2>3. QED BY <2>1, <2>2
<1>6. CASE Understood
  BY <1>1, <1>6, Kinds, ChecksStep DEF Understood
<1>7. CASE AttemptDecision
  <2>1. PICK r \in Later : IF OutOfTime(r)
                           THEN Save("budget_exhausted", "none", r, "off", Queued)
                           ELSE Save("decision_attempt", "none", r, "deciding", host.seen)
    BY <1>7 DEF AttemptDecision
  <2>2. QED BY <1>1, <1>7, <2>1, Kinds, ChecksStep DEF AttemptDecision
<1>8. QED BY <1>2, <1>3, <1>4, <1>5, <1>6, <1>7

LEMMA DecisionStep ==
  ASSUME IInv, ReserveTool \/ Clarify \/ PauseForClarification \/ Conclude \/ Summarize
  PROVE  Step
<1>1. /\ host.pc \in {"deciding", "clarified"} /\ run.pending = "none"
      /\ UNCHANGED <<handled, ran>> /\ "none" \in Tool \cup {"none"}
  BY DEF ReserveTool, Clarify, PauseForClarification, Conclude, Summarize, IInv, HostInv
<1>2. CASE ReserveTool
  <2>1. PICK tool \in Tool, r \in Later : Save(ReservationOf(tool), tool, r, "looping", Queued)
    BY <1>2 DEF ReserveTool
  <2>2. ReservationOf(tool) \in Kind /\ tool \in Tool \cup {"none"}
    BY DEF ReservationOf, Kind, Reservation
  <2>3. QED BY <1>1, <1>2, <2>1, <2>2, ChecksStep DEF ReserveTool
<1>3. CASE Clarify
  <2>1. CASE mission = Planning
    <3>1. ~Terminal(mission) /\ ~Terminal(mission)' /\ UNCHANGED run
      BY <1>3, <2>1, NamedStates DEF Clarify, Terminal
    <3>2. ~Answered /\ ~Answered'
      BY <1>3, <2>1 DEF Clarify, At, Answered
    <3>3. QED BY <1>1, <3>1, <3>2, MovesOn
  <2>2. CASE mission # Planning
    BY <1>3, <2>2, QuietStep DEF Clarify, Throw, At, Answered
  <2>3. QED BY <2>1, <2>2
<1>4. CASE PauseForClarification
  BY <1>1, <1>4, Kinds, ChecksStep DEF PauseForClarification
<1>5. CASE Conclude
  <2>1. PICK kind \in {"external_wait", "human_review_pause", "safe_refusal", "host_failed",
                       "budget_exhausted"}, r \in Later : Save(kind, "none", r, "off", Queued)
    BY <1>5 DEF Conclude
  <2>2. QED BY <1>1, <1>5, <2>1, Kinds, ChecksStep DEF Conclude
<1>6. CASE Summarize
  BY <1>1, <1>6, Kinds, ChecksStep DEF Summarize
<1>7. QED BY <1>2, <1>3, <1>4, <1>5, <1>6

\* An activation that is lost loses its answer; one that is shut down has none.
LEMMA FaultStep == ASSUME IInv, Lose \/ Interrupt PROVE Step
<1>1. UNCHANGED <<mission, handled, ran>> /\ ~Answered'
  BY DEF Lose, Interrupt, At, Answered
<1>2. CASE Lose
  BY <1>1, <1>2, QuietStep DEF Lose
<1>3. CASE Interrupt
  <2>1. run.pending = "none" /\ ~Answered /\ run.status = "active"
    BY <1>3 DEF Interrupt, Answered, IInv, HostInv
  <2>2. PICK kind \in {"budget_exhausted", "state_persisted"}, r \in Later :
          IF Accepted(kind, "none", r) THEN run' = Saved(kind, "none", r) ELSE UNCHANGED run
    BY <1>3 DEF Interrupt
  <2>3. kind \in Kind /\ "none" \in Tool \cup {"none"}
    BY Kinds
  <2>4. CASE Accepted(kind, "none", r)
    BY <1>1, <2>1, <2>2, <2>3, <2>4, CheckpointStep DEF Step
  <2>5. CASE ~Accepted(kind, "none", r)
    BY <1>1, <2>2, <2>5, QuietStep
  <2>6. QED BY <2>4, <2>5
<1>4. QED BY <1>2, <1>3

\* Others move a mission that goes on, or end it.
LEMMA OthersStep == ASSUME IInv, Others PROVE Step
<1>1. UNCHANGED <<run, handled, ran, host>> /\ ~Terminal(mission)
  BY NamedStates DEF Others, AnswerClarification, DecideApproval, WorkProceeds, Verify, Cancel, Move
<1>2. /\ UNCHANGED <<run.status, CallState, Answered, run.calls, ran, Used>>
      /\ EndedAs = "open"
  BY <1>1 DEF CallState, HalfReserved, Answered, Used, EndedAs
<1>3. CASE ~Terminal(mission)'
  BY <1>1, <1>2, <1>3 DEF Step, View, EndedAs
<1>4. CASE Terminal(mission)'
  <2>1. EndedAs' \in {"succeeded", "failed", "cancelled"}
    BY <1>4 DEF EndedAs, Terminal, TerminalStatus
  <2>2. Record!MissionEnds
    BY <1>2, <2>1 DEF Record!MissionEnds, Answered, Used, EndedAs
  <2>3. QED BY <2>2 DEF Step, Record!Next
<1>5. QED BY <1>3, <1>4

LEMMA RecordStep == IInv /\ AnswerInv /\ [Next]_vars => [Record!Next]_Record!vars
<1>1. SUFFICES ASSUME IInv, AnswerInv, [Next]_vars PROVE Step
  BY ViewIsVars DEF Step
<1>2. ASSUME NEW w \in {"new", "again"}, Acquire(w) PROVE Step
  BY <1>1, <1>2, AcquireStep
<1>3. CASE Proceed
  <2>1. CASE Activate \/ RefuseStart
    BY <1>1, <2>1, StartStep
  <2>2. CASE ReserveCall \/ ToolAnswers \/ ToolWaits \/ Leave
    BY <1>1, <2>2, CallStep
  <2>3. CASE RetainResult
    BY <1>1, <2>3, RetainStep
  <2>4. CASE Project \/ DoNotProject \/ FollowMission \/ Understand \/ Understood
               \/ AttemptDecision
    BY <1>1, <2>4, ProjectionStep
  <2>5. CASE ReserveTool \/ Clarify \/ PauseForClarification \/ Conclude \/ Summarize
    BY <1>1, <2>5, DecisionStep
  <2>6. QED BY <1>3, <2>1, <2>2, <2>3, <2>4, <2>5 DEF Proceed
<1>4. CASE HandlerRuns
  BY <1>1, <1>4, HandlerStep
<1>5. CASE Lose \/ Interrupt
  BY <1>1, <1>5, FaultStep
<1>6. CASE Others
  BY <1>1, <1>6, OthersStep
<1>7. CASE UNCHANGED vars
  BY <1>7 DEF vars, Step, View, CallState, HalfReserved, Answered, Used, EndedAs, Terminal
<1>8. QED BY <1>1, <1>2, <1>3, <1>4, <1>5, <1>6, <1>7 DEF Next

\* Every activation, takeover, lost lease, shutdown and late handler of the
\* Caretaker, and every move of its mission, is a step of one durable record or
\* is not seen in it: a call is counted, run at most once and kept until its
\* result is retained, no budget is given back, and a run ends as its mission did.
THEOREM RunImplemented == Spec => ImplementsRun
<1>1. Init => IInv /\ AnswerInv /\ Record!Init
  BY IInvInit, RecordInit
<1>2. IInv /\ AnswerInv /\ [Next]_vars => IInv' /\ AnswerInv' /\ [Record!Next]_Record!vars
  BY IInvStep, AnswerStep, RecordStep
<1>3. QED BY <1>1, <1>2, PTL DEF ImplementsRun, Record!Spec, Spec
=============================================================================
