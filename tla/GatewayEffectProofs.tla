------------------------- MODULE GatewayEffectProofs -------------------------
(***************************************************************************)
(* Proofs about GatewayEffect, for any budget and any number of polls,     *)
(* redeliveries, callbacks and restarts.                                   *)
(*                                                                         *)
(* The dispatch row and the attempt row are written by two transactions    *)
(* with a call between them.  The inductive invariant IInv ties the two    *)
(* sequences together: attempt a belongs to generation a, it is unfinished *)
(* exactly while that dispatch is `dispatching', and only the current      *)
(* generation can be anything but in doubt (CallInv, DoubtInv).  That an   *)
(* answered call is always the current one is a consequence.  WithdrawInv  *)
(* is what the transactions that come after a cancellation rely on.        *)
(***************************************************************************)
EXTENDS GatewayEffect, SequenceTheorems, FiniteSetTheorems, TLAPS

\* Attempt a, and the dispatch it belongs to.
CallOK(a) ==
  /\ attempts[a].generation = a
  /\ dispatches[a].attempt = a
  /\ attempts[a].worker = "over" <=> dispatches[a].status # "dispatching"
  /\ attempts[a].worker # "over" => attempts[a].status = "pending"
  /\ attempts[a].worker = "answered" => attempts[a].answer \in Result

CallInv ==
  /\ Len(attempts) = IF dispatch.status \in {"pending", "cancelled"} THEN generation - 1
                                                                     ELSE generation
  /\ \A a \in 1 .. Len(attempts) : CallOK(a)

DoubtInv == \A g \in 1 .. generation - 1 : dispatches[g].status \in Retryable

WithdrawInv ==
  Withdrawn /\ EffectOpen => /\ dispatch.status # "pending"
                             /\ dispatch.status # "cancelled" => effect.cancellationRequested

GenerationInv == generation <= MaximumAttempts /\ generation <= polls + 1

\* The chains of polls under way, the one a call that is not finished may still
\* begin, and the polls from the one that spent the budget on, of which each ended
\* a chain: no more than were ever begun.
Chains == {j \in jobs : j.topic = "reconcile" /\ j.generation = generation}
Awaited == IF dispatch.status \in {"pending", "dispatching"} THEN 1 ELSE 0
Ended == IF polls < MaximumAttempts THEN 0 ELSE polls - MaximumAttempts + 1
Begun == 1 + redeliveries + (IF cancelled THEN 1 ELSE 0)

PollInv == /\ IsFiniteSet(Chains) /\ Cardinality(Chains) + Awaited + Ended <= Begun
           /\ \A j \in jobs : j.topic = "reconcile" => j.generation <= generation

IInv == /\ TypeOK /\ CallInv /\ DoubtInv /\ WithdrawInv
        /\ GenerationInv /\ PollInv /\ DoubtIsFollowedUp /\ EffectFollowsCallbacks

DispatchRow == [status : DispatchStatus, attempt : Nat]

-----------------------------------------------------------------------------
\* What the type invariant says of single rows.

LEMMA Rows ==
  ASSUME TypeOK
  PROVE  /\ generation \in Nat \ {0} /\ Len(attempts) \in Nat /\ Len(dispatches) > 0
         /\ dispatches \in Seq(DispatchRow) /\ attempts \in Seq(Attempt)
         /\ \A g \in 1 .. generation : dispatches[g] \in DispatchRow
         /\ \A a \in 1 .. Len(attempts) : attempts[a] \in Attempt
         /\ dispatch \in DispatchRow
<1>1. dispatches \in Seq(DispatchRow) /\ attempts \in Seq(Attempt) /\ Len(dispatches) > 0
  BY DEF TypeOK, DispatchRow
<1>2. Len(dispatches) \in Nat /\ Len(attempts) \in Nat
  BY <1>1, LenProperties
<1>3. /\ \A g \in 1 .. Len(dispatches) : dispatches[g] \in DispatchRow
      /\ \A a \in 1 .. Len(attempts) : attempts[a] \in Attempt
  BY <1>1, ElementOfSeq
<1>4. QED BY <1>1, <1>2, <1>3 DEF generation, dispatch

\* A change of the current dispatch's status disturbs nothing else.
LEMMA DispatchSet ==
  ASSUME TypeOK, NEW s \in DispatchStatus, NEW n \in Nat, SetDispatch(s, n)
  PROVE  /\ dispatches' \in Seq(DispatchRow) /\ generation' = generation
         /\ dispatches'[generation].status = s /\ dispatches'[generation].attempt = n
         /\ \A g \in 1 .. generation - 1 : dispatches'[g] = dispatches[g]
<1> DEFINE row == [status |-> s, attempt |-> n]
<1>1. row \in DispatchRow
  BY DEF DispatchRow
<1>2. generation \in 1 .. Len(dispatches)
  BY Rows DEF generation
<1>3. dispatches' = [dispatches EXCEPT ![generation] = row]
  BY DEF SetDispatch
<1>4. row.status = s /\ row.attempt = n
  OBVIOUS
<1> HIDE DEF row
<1>5. QED BY <1>1, <1>2, <1>3, <1>4, Rows, ExceptSeq DEF generation

LEMMA DispatchTyped ==
  ASSUME TypeOK, NEW s \in DispatchStatus, NEW n \in Nat, SetDispatch(s, n)
  PROVE  dispatches' \in Seq(DispatchRow) /\ Len(dispatches') > 0
<1>1. dispatches' \in Seq(DispatchRow) /\ generation' = generation
  BY DispatchSet
<1>2. QED BY <1>1, Rows DEF generation

LEMMA Statuses == {"pending", "dispatching", "cancelled"} \cup Result \subseteq DispatchStatus
BY DEF DispatchStatus

LEMMA AttemptSet ==
  ASSUME TypeOK, NEW a \in 1 .. Len(attempts), NEW row \in Attempt, SetAttempt(a, row)
  PROVE  /\ attempts' \in Seq(Attempt) /\ Len(attempts') = Len(attempts)
         /\ attempts'[a] = row
         /\ \A b \in 1 .. Len(attempts) : b # a => attempts'[b] = attempts[b]
<1>1. attempts' = [attempts EXCEPT ![a] = row]
  BY DEF SetAttempt
<1>2. QED BY <1>1, Rows, ExceptSeq

LEMMA AttemptAdded ==
  ASSUME TypeOK, NEW g \in Nat \ {0}, attempts' = Append(attempts, NewAttempt(g))
  PROVE  /\ attempts' \in Seq(Attempt) /\ Len(attempts') = Len(attempts) + 1
         /\ attempts'[Len(attempts) + 1] = NewAttempt(g)
         /\ \A b \in 1 .. Len(attempts) : attempts'[b] = attempts[b]
<1>1. NewAttempt(g) \in Attempt
  BY DEF NewAttempt, Attempt
<1>2. QED BY <1>1, Rows, AppendProperties

LEMMA GenerationAdded ==
  ASSUME TypeOK, dispatches' = Append(dispatches, [status |-> "pending", attempt |-> 0])
  PROVE  /\ dispatches' \in Seq(DispatchRow) /\ generation' = generation + 1
         /\ dispatches'[generation + 1] = [status |-> "pending", attempt |-> 0]
         /\ \A g \in 1 .. generation : dispatches'[g] = dispatches[g]
<1>1. [status |-> "pending", attempt |-> 0] \in DispatchRow
  BY DEF DispatchRow, DispatchStatus
<1>2. QED BY <1>1, Rows, AppendProperties DEF generation

\* A handler that ends leaves jobs and the count of redeliveries typed.
LEMMA Acknowledged ==
  ASSUME TypeOK, NEW j, NEW more, more \subseteq Job, Acknowledge(j, more)
  PROVE  jobs' \subseteq Job /\ redeliveries' \in Nat /\ more \subseteq jobs'
         /\ \A k \in jobs : k # j => k \in jobs'
BY DEF Acknowledge, TypeOK

LEMMA JobType ==
  ASSUME NEW g \in Nat \ {0}, NEW k \in Nat
  PROVE  DispatchJob(g) \in Job /\ ReconcileJob(g, k) \in Job
BY DEF DispatchJob, ReconcileJob, Job

\* Attempts change in these ways.
LEMMA AttemptOver ==
  ASSUME NEW at \in Attempt, NEW s \in {"pending"} \cup Result
  PROVE  [at EXCEPT !.worker = "over", !.status = s] \in Attempt
BY Zenon DEF Attempt

LEMMA AttemptAnswered ==
  ASSUME NEW at \in Attempt, NEW r \in Result
  PROVE  /\ [at EXCEPT !.worker = "answered", !.answer = r] \in Attempt
         /\ [at EXCEPT !.request = "received", !.worker = "answered", !.answer = r] \in Attempt
BY Zenon DEF Attempt

LEMMA AttemptReceived ==
  ASSUME NEW at \in Attempt
  PROVE  /\ [at EXCEPT !.request = "received"] \in Attempt
         /\ [at EXCEPT !.worker = "dead"] \in Attempt
BY Zenon DEF Attempt

LEMMA EffectFields ==
  ASSUME TypeOK
  PROVE  /\ effect.status \in EffectStatus
         /\ effect.cancellationRequested \in BOOLEAN
BY Zenon DEF TypeOK

LEMMA EffectChanges ==
  ASSUME TypeOK, NEW s \in EffectStatus
  PROVE  /\ [effect EXCEPT !.status = s] \in [status : EffectStatus, cancellationRequested : BOOLEAN]
         /\ [effect EXCEPT !.cancellationRequested = TRUE]
              \in [status : EffectStatus, cancellationRequested : BOOLEAN]
BY Zenon DEF TypeOK

LEMMA GatewayChanges ==
  ASSUME TypeOK, NEW r \in Result \cup {"none"}
  PROVE  [gateway EXCEPT !.result = r] \in [incarnation : Nat, result : Result \cup {"none"}]
BY Zenon DEF TypeOK

-----------------------------------------------------------------------------
LEMMA TypeInit == Init => TypeOK
<1> SUFFICES ASSUME Init PROVE TypeOK
  OBVIOUS
<1>1. dispatches \in Seq([status : DispatchStatus, attempt : Nat]) /\ Len(dispatches) = 1
  BY DEF Init, DispatchStatus
<1>2. attempts \in Seq(Attempt)
  BY DEF Init
<1>3. effect \in [status : EffectStatus, cancellationRequested : BOOLEAN]
  BY Zenon DEF Init, EffectStatus
<1>4. jobs \subseteq Job
  BY JobType DEF Init, DispatchJob, Job
<1>5. gateway \in [incarnation : Nat, result : Result \cup {"none"}]
  BY DEF Init
<1>6. /\ policy \in {"optional", "mandatory_relock"} /\ gate \in {"not_due", "open", "unsafe"}
      /\ cancelled \in BOOLEAN /\ polls \in Nat /\ exhausted \in BOOLEAN /\ redeliveries \in Nat
      /\ stored \subseteq Callback /\ wire \subseteq Callback
  BY DEF Init
<1>7. QED BY <1>1, <1>2, <1>3, <1>4, <1>5, <1>6 DEF TypeOK

\* The callbacks of an outcome are of the type; they are the wire's.
LEMMA CallbackType ==
  ASSUME TypeOK, NEW o \in Outcome
  PROVE  /\ o.result \in Result
         /\ [status : o.callbacks, payload : {gateway.incarnation}] \subseteq Callback
BY ProgressAssumption DEF TypeOK, Outcome, Result, Callback, Terminal

\* What a poll enqueues is a set of jobs.
LEMMA FollowUpType ==
  ASSUME TypeOK, NEW r
  PROVE  FollowUp(r, polls + 1) \subseteq Job
<1>1. DispatchJob(generation + 1) \in Job /\ ReconcileJob(generation, polls + 1) \in Job
  BY Rows, JobType DEF TypeOK
<1>2. QED BY <1>1 DEF FollowUp

\* A step that only rewrites an attempt with a row of the type.
LEMMA AttemptTyped ==
  ASSUME TypeOK, NEW a \in 1 .. Len(attempts), NEW row \in Attempt, SetAttempt(a, row),
         UNCHANGED <<policy, gate, cancelled, effect, dispatches, polls, exhausted, stored, queue,
                     outside>>
  PROVE  TypeOK'
BY AttemptSet DEF TypeOK, queue, outside

LEMMA TypeStep == TypeOK /\ CallInv /\ [Next]_vars => TypeOK'
<1> SUFFICES ASSUME TypeOK, CallInv, [Next]_vars PROVE TypeOK'
  OBVIOUS
<1> USE DEF queue, outside, aggregate
<1> USE Rows
<1>1. ASSUME NEW j \in jobs, Claim(j) PROVE TypeOK'
  <2>1. j.generation \in Nat \ {0} /\ j.generation = generation
    BY <1>1 DEF TypeOK, Job, Claim, Claimable, DuePending
  <2>2. attempts' \in Seq(Attempt)
    BY <1>1, <2>1, AttemptAdded DEF Claim
  <2>3. dispatches' \in Seq(DispatchRow) /\ Len(dispatches') > 0
    <3>1. SetDispatch("dispatching", Len(attempts) + 1)
      BY <1>1 DEF Claim
    <3>2. "dispatching" \in DispatchStatus /\ Len(attempts) + 1 \in Nat
      BY Statuses
    <3>3. QED BY <3>1, <3>2, DispatchTyped
  <2>4. QED BY <1>1, <2>2, <2>3 DEF Claim, TypeOK, DispatchRow
<1>2. ASSUME NEW j \in jobs, NotClaimed(j) PROVE TypeOK'
  <2>1. jobs' \subseteq Job /\ redeliveries' \in Nat
    BY <1>2, Acknowledged DEF NotClaimed
  <2>2. dispatches' \in Seq(DispatchRow) /\ Len(dispatches') > 0
    <3>1. SetDispatch("cancelled", 0) \/ UNCHANGED dispatches
      BY <1>2 DEF NotClaimed
    <3>2. QED BY <3>1, DispatchTyped, Statuses
  <2>3. QED BY <1>2, <2>1, <2>2 DEF NotClaimed, TypeOK, DispatchRow
<1>3. ASSUME NEW j \in jobs, Reconcile(j) PROVE TypeOK'
  <2>1. jobs' \subseteq Job /\ redeliveries' \in Nat
    BY <1>3, Acknowledged, FollowUpType DEF Reconcile
  <2>2. dispatches' \in Seq(DispatchRow) /\ Len(dispatches') > 0
    BY <1>3, GenerationAdded DEF Reconcile, generation
  <2>3. QED BY <1>3, <2>1, <2>2 DEF Reconcile, TypeOK, DispatchRow
<1>4. ASSUME NEW j \in jobs, ReconcileStale(j) PROVE TypeOK'
  BY <1>4 DEF ReconcileStale, TypeOK
<1>5. ASSUME NEW a \in 1 .. Len(attempts), CallTimeout(a) PROVE TypeOK'
  BY <1>5, AttemptAnswered, AttemptTyped DEF CallTimeout, Result
<1>6. ASSUME NEW a \in 1 .. Len(attempts), WorkerCrash(a) PROVE TypeOK'
  BY <1>6, AttemptReceived, AttemptTyped DEF WorkerCrash
<1>7. ASSUME NEW a \in 1 .. Len(attempts), Finalize(a) PROVE TypeOK'
  <2>1. attempts[a].answer \in Result /\ attempts[a].generation \in Nat \ {0}
    BY <1>7 DEF Finalize, CallInv, CallOK, Attempt
  <2>2. PICK s \in {"pending"} \cup Result :
          SetAttempt(a, [attempts[a] EXCEPT !.worker = "over", !.status = s])
    BY <1>7, <2>1 DEF Finalize, Attempt
  <2>3. attempts' \in Seq(Attempt)
    BY <2>2, AttemptSet, AttemptOver
  <2>4. dispatches' \in Seq(DispatchRow) /\ Len(dispatches') > 0
    <3>1. SetDispatch(attempts[a].answer, a) \/ UNCHANGED dispatches
      BY <1>7 DEF Finalize
    <3>2. QED BY <2>1, <3>1, DispatchTyped, Statuses
  <2>5. jobs' \subseteq Job /\ redeliveries' \in Nat
    BY <1>7, <2>1, JobType, Acknowledged DEF Finalize
  <2>6. QED BY <1>7, <2>3, <2>4, <2>5 DEF Finalize, TypeOK, DispatchRow
<1>8. ASSUME NEW a \in 1 .. Len(attempts), GatewayHandle(a) PROVE TypeOK'
  <2>1. PICK o \in Outcome :
          LET new == gateway.result = "none"
              result == IF new THEN o.result ELSE gateway.result
          IN
          /\ gateway' = [gateway EXCEPT !.result = result]
          /\ wire' = IF new THEN wire \cup [status : o.callbacks, payload : {gateway.incarnation}]
                            ELSE wire
          /\ \/ \E answer \in {result, "failed"} :
                  SetAttempt(a, [attempts[a] EXCEPT !.request = "received",
                                                    !.worker = "answered", !.answer = answer])
             \/ SetAttempt(a, [attempts[a] EXCEPT !.request = "received"])
    BY <1>8 DEF GatewayHandle
  <2> DEFINE result == IF gateway.result = "none" THEN o.result ELSE gateway.result
  <2>2. result \in Result
    BY CallbackType DEF TypeOK
  <2>3. gateway' \in [incarnation : Nat, result : Result \cup {"none"}]
    BY <2>1, <2>2, GatewayChanges
  <2>4. wire' \subseteq Callback
    BY <2>1, CallbackType DEF TypeOK
  <2>5. attempts' \in Seq(Attempt)
    <3>1. PICK row \in Attempt : SetAttempt(a, row)
      BY <2>1, <2>2, AttemptAnswered, AttemptReceived DEF Result
    <3>2. QED BY <3>1, AttemptSet
  <2>6. QED BY <1>8, <2>3, <2>4, <2>5 DEF GatewayHandle, TypeOK
<1>9. ASSUME NEW c \in wire, ApplyCallback(c) PROVE TypeOK'
  <2>1. c \in Callback /\ c.status \in EffectStatus
    BY ProgressAssumption DEF TypeOK, Callback, EffectStatus
  <2>2. QED BY <1>9, <2>1, EffectChanges DEF ApplyCallback, TypeOK
<1>10. CASE CancelMission
  <2>1. effect' \in [status : EffectStatus, cancellationRequested : BOOLEAN]
    BY <1>10, EffectChanges, EffectFields DEF CancelMission, TypeOK
  <2>2. dispatches' \in Seq(DispatchRow) /\ Len(dispatches') > 0
    <3>1. SetDispatch("cancelled", 0) \/ UNCHANGED dispatches
      BY <1>10 DEF CancelMission
    <3>2. QED BY <3>1, DispatchTyped, Statuses
  <2>3. jobs' \subseteq Job
    <3>1. CancelKey \in Nat
      BY BudgetAssumption DEF CancelKey
    <3>2. QED BY <1>10, <3>1, JobType DEF CancelMission, TypeOK
  <2>4. QED BY <1>10, <2>1, <2>2, <2>3 DEF CancelMission, TypeOK, DispatchRow
<1>11. CASE GatewayRestart
  BY <1>11 DEF GatewayRestart, TypeOK
<1>12. CASE GateChange
  BY <1>12 DEF GateChange, TypeOK
<1>13. CASE UNCHANGED vars
  BY <1>13 DEF vars, TypeOK
<1>14. QED
  BY <1>1, <1>2, <1>3, <1>4, <1>5, <1>6, <1>7, <1>8, <1>9, <1>10, <1>11, <1>12, <1>13
     DEF Next, HandleJob

-----------------------------------------------------------------------------
\* Calls and generations.

LEMMA CallInit == Init => CallInv /\ DoubtInv
BY DEF Init, CallInv, DoubtInv, generation, dispatch

\* Whoever has not finished works on the current generation.
LEMMA UnfinishedIsCurrent ==
  ASSUME TypeOK, CallInv, DoubtInv, NEW a \in 1 .. Len(attempts), attempts[a].worker # "over"
  PROVE  a = generation /\ dispatch.status = "dispatching" /\ dispatch.attempt = a
<1>1. dispatches[a].status = "dispatching" /\ dispatches[a].attempt = a
  BY DEF CallInv, CallOK
<1>2. a \in 1 .. generation
  BY Rows DEF CallInv
<1>3. a = generation
  BY <1>1, <1>2, Rows DEF DoubtInv, Retryable
<1>4. QED BY <1>1, <1>3 DEF dispatch

LEMMA CallsKept ==
  ASSUME TypeOK, CallInv, DoubtInv, UNCHANGED <<dispatches, attempts>>
  PROVE  CallInv' /\ DoubtInv'
BY DEF CallInv, CallOK, DoubtInv, generation, dispatch

\* An attempt that changes without being finished.
LEMMA AttemptKept ==
  ASSUME TypeOK, CallInv, DoubtInv, NEW a \in 1 .. Len(attempts), NEW row \in Attempt,
         SetAttempt(a, row), UNCHANGED dispatches,
         row.generation = attempts[a].generation,
         row.worker = "over" <=> attempts[a].worker = "over",
         row.status = attempts[a].status,
         row.worker = "answered" => row.answer \in Result
  PROVE  CallInv' /\ DoubtInv'
<1>1. /\ Len(attempts') = Len(attempts) /\ attempts'[a] = row
      /\ \A b \in 1 .. Len(attempts) : b # a => attempts'[b] = attempts[b]
  BY AttemptSet
<1>2. generation' = generation /\ dispatch' = dispatch
  BY DEF generation, dispatch
<1>3. \A b \in 1 .. Len(attempts) : CallOK(b)'
  BY <1>1 DEF CallInv, CallOK
<1>4. QED BY <1>1, <1>2, <1>3 DEF CallInv, DoubtInv

\* The current dispatch is cancelled while it is pending.
LEMMA PendingCancelled ==
  ASSUME TypeOK, CallInv, DoubtInv, SetDispatch("cancelled", 0), dispatch.status = "pending",
         UNCHANGED attempts
  PROVE  CallInv' /\ DoubtInv'
<1>1. /\ generation' = generation /\ dispatches'[generation].status = "cancelled"
      /\ \A g \in 1 .. generation - 1 : dispatches'[g] = dispatches[g]
  BY DispatchSet, Statuses
<1>2. Len(attempts) = generation - 1
  BY DEF CallInv
<1>3. dispatch'.status = "cancelled"
  BY <1>1 DEF dispatch
<1>4. \A a \in 1 .. Len(attempts) : CallOK(a)'
  BY <1>1, <1>2 DEF CallInv, CallOK
<1>5. DoubtInv'
  BY <1>1 DEF DoubtInv
<1>6. QED BY <1>1, <1>2, <1>3, <1>4, <1>5 DEF CallInv

LEMMA ClaimCalls ==
  ASSUME TypeOK, CallInv, DoubtInv, NEW j \in jobs, Claim(j)
  PROVE  CallInv' /\ DoubtInv'
<1>1. j.generation = generation /\ dispatch.status = "pending"
  BY DEF Claim, Claimable, DuePending
<1>2. Len(attempts) = generation - 1
  BY <1>1 DEF CallInv
<1>3. /\ generation' = generation /\ dispatches'[generation].status = "dispatching"
      /\ dispatches'[generation].attempt = generation
      /\ \A g \in 1 .. generation - 1 : dispatches'[g] = dispatches[g]
  <2>1. SetDispatch("dispatching", generation) /\ generation \in Nat
    BY <1>2, Rows DEF Claim
  <2>2. QED BY <2>1, DispatchSet, Statuses
<1>4. /\ Len(attempts') = generation /\ attempts'[generation] = NewAttempt(generation)
      /\ \A b \in 1 .. generation - 1 : attempts'[b] = attempts[b]
  <2>1. attempts' = Append(attempts, NewAttempt(generation)) /\ generation \in Nat \ {0}
    BY <1>1, Rows DEF Claim
  <2>2. QED BY <1>2, <2>1, AttemptAdded, Rows
<1>5. dispatch'.status = "dispatching"
  BY <1>3 DEF dispatch
<1>6. CallOK(generation)'
  <2>1. /\ NewAttempt(generation).generation = generation
        /\ NewAttempt(generation).worker = "calling" /\ NewAttempt(generation).status = "pending"
    BY DEF NewAttempt
  <2>2. QED BY <1>3, <1>4, <2>1 DEF CallOK
<1>7. \A a \in 1 .. generation - 1 : CallOK(a)'
  BY <1>2, <1>3, <1>4 DEF CallInv, CallOK
<1>8. DoubtInv'
  BY <1>3 DEF DoubtInv
<1>9. QED BY <1>3, <1>4, <1>5, <1>6, <1>7, <1>8, Rows DEF CallInv

LEMMA FinalizeCalls ==
  ASSUME TypeOK, CallInv, DoubtInv, NEW a \in 1 .. Len(attempts), Finalize(a)
  PROVE  CallInv' /\ DoubtInv'
<1> DEFINE r == attempts[a].answer
<1>1. a = generation /\ dispatch.status = "dispatching" /\ dispatch.attempt = a
  BY UnfinishedIsCurrent DEF Finalize
<1>2. /\ r \in Result /\ attempts[a].generation = a /\ attempts[a].status = "pending"
      /\ attempts[a] \in Attempt /\ Len(attempts) = generation
  BY <1>1, Rows DEF Finalize, CallInv, CallOK
<1>3. SetDispatch(r, a) /\ SetAttempt(a, [attempts[a] EXCEPT !.worker = "over", !.status = r])
  BY <1>1, <1>2 DEF Finalize
<1>4. /\ generation' = generation /\ dispatches'[generation].status = r
      /\ dispatches'[generation].attempt = a
      /\ \A g \in 1 .. generation - 1 : dispatches'[g] = dispatches[g]
  BY <1>2, <1>3, DispatchSet, Statuses
<1>5. /\ Len(attempts') = Len(attempts)
      /\ attempts'[a] = [attempts[a] EXCEPT !.worker = "over", !.status = r]
      /\ \A b \in 1 .. Len(attempts) : b # a => attempts'[b] = attempts[b]
  BY <1>2, <1>3, AttemptOver, AttemptSet
<1>6. attempts'[a].generation = a /\ attempts'[a].worker = "over"
  BY <1>2, <1>5 DEF Attempt
<1>7. r \notin {"pending", "cancelled", "dispatching"}
  BY <1>2 DEF Result
<1>8. CallOK(a)'
  BY <1>1, <1>4, <1>6, <1>7 DEF CallOK
<1>9. \A b \in 1 .. generation - 1 : CallOK(b)'
  BY <1>1, <1>2, <1>4, <1>5 DEF CallInv, CallOK
<1>10. DoubtInv'
  BY <1>4 DEF DoubtInv
<1>11. dispatch'.status = r
  BY <1>4 DEF dispatch
<1>12. QED BY <1>1, <1>2, <1>4, <1>5, <1>7, <1>8, <1>9, <1>10, <1>11, Rows DEF CallInv

LEMMA ReconcileCalls ==
  ASSUME TypeOK, CallInv, DoubtInv, NEW j \in jobs, Reconcile(j)
  PROVE  CallInv' /\ DoubtInv'
<1>1. CASE Resolution(polls + 1) # "retry_authorized"
  BY <1>1, CallsKept DEF Reconcile
<1>2. CASE Resolution(polls + 1) = "retry_authorized"
  <2>1. dispatch.status \in Retryable
    BY <1>2 DEF Resolution, RetryAuthorized
  <2>2. Len(attempts) = generation
    BY <2>1 DEF CallInv, Retryable
  <2>3. /\ generation' = generation + 1 /\ attempts' = attempts
        /\ dispatches'[generation + 1] = [status |-> "pending", attempt |-> 0]
        /\ \A g \in 1 .. generation : dispatches'[g] = dispatches[g]
    BY <1>2, GenerationAdded DEF Reconcile
  <2>4. dispatch'.status = "pending"
    BY <2>3 DEF dispatch
  <2>5. \A a \in 1 .. Len(attempts) : CallOK(a)'
    BY <2>2, <2>3 DEF CallInv, CallOK
  <2>6. \A g \in 1 .. generation : dispatches[g].status \in Retryable
    BY <2>1, Rows DEF DoubtInv, dispatch
  <2>7. DoubtInv'
    BY <2>3, <2>6, Rows DEF DoubtInv
  <2>8. QED BY <2>2, <2>3, <2>4, <2>5, <2>7, Rows DEF CallInv
<1>3. QED BY <1>1, <1>2

LEMMA GatewayCalls ==
  ASSUME TypeOK, CallInv, DoubtInv, NEW a \in 1 .. Len(attempts), GatewayHandle(a)
  PROVE  CallInv' /\ DoubtInv'
<1> DEFINE at == attempts[a]
<1>1. at \in Attempt /\ (at.worker = "answered" => at.answer \in Result) /\ UNCHANGED dispatches
  BY Rows DEF GatewayHandle, CallInv, CallOK
<1>2. CASE SetAttempt(a, [at EXCEPT !.request = "received"])
  BY <1>1, <1>2, AttemptReceived, AttemptKept DEF Attempt
<1>3. ASSUME at.worker = "calling", NEW r \in Result,
             SetAttempt(a, [at EXCEPT !.request = "received", !.worker = "answered", !.answer = r])
      PROVE  CallInv' /\ DoubtInv'
  <2> DEFINE row == [at EXCEPT !.request = "received", !.worker = "answered", !.answer = r]
  <2>1. /\ row \in Attempt /\ row.generation = at.generation /\ row.status = at.status
        /\ row.worker = "answered" /\ row.answer = r
    BY <1>1, AttemptAnswered DEF Attempt
  <2>2. SetAttempt(a, row) /\ at.worker = "calling"
    BY <1>3
  <2> HIDE DEF row
  <2>3. QED BY <1>1, <2>1, <2>2, AttemptKept
<1>4. \/ SetAttempt(a, [at EXCEPT !.request = "received"])
      \/ /\ at.worker = "calling"
         /\ \E r \in Result :
              SetAttempt(a, [at EXCEPT !.request = "received", !.worker = "answered", !.answer = r])
  <2>1. PICK o \in Outcome :
          LET result == IF gateway.result = "none" THEN o.result ELSE gateway.result IN
          \/ /\ at.worker = "calling"
             /\ \E r \in {result, "failed"} :
                  SetAttempt(a, [at EXCEPT !.request = "received", !.worker = "answered",
                                           !.answer = r])
          \/ SetAttempt(a, [at EXCEPT !.request = "received"])
    BY DEF GatewayHandle
  <2>2. "failed" \in Result /\ (IF gateway.result = "none" THEN o.result ELSE gateway.result) \in Result
    BY CallbackType DEF TypeOK, Result
  <2>3. QED BY <2>1, <2>2
<1>5. QED BY <1>2, <1>3, <1>4

LEMMA CallStep ==
  ASSUME TypeOK, CallInv, DoubtInv, [Next]_vars
  PROVE  CallInv' /\ DoubtInv'
<1>1. ASSUME NEW j \in jobs, HandleJob(j) PROVE CallInv' /\ DoubtInv'
  <2>1. CASE NotClaimed(j)
    <3>1. \/ SetDispatch("cancelled", 0) /\ dispatch.status = "pending"
          \/ UNCHANGED dispatches
      BY <2>1 DEF NotClaimed, DuePending
    <3>2. UNCHANGED attempts
      BY <2>1 DEF NotClaimed
    <3>3. QED BY <3>1, <3>2, PendingCancelled, CallsKept
  <2>2. CASE ReconcileStale(j)
    BY <2>2, CallsKept DEF ReconcileStale, aggregate
  <2>3. QED BY <1>1, <2>1, <2>2, ClaimCalls, ReconcileCalls DEF HandleJob
<1>2. ASSUME NEW a \in 1 .. Len(attempts), CallTimeout(a) PROVE CallInv' /\ DoubtInv'
  <2> DEFINE row == [attempts[a] EXCEPT !.worker = "answered", !.answer = "unknown"]
  <2>1. SetAttempt(a, row) /\ attempts[a].worker = "calling" /\ UNCHANGED dispatches
    BY <1>2 DEF CallTimeout
  <2>2. attempts[a] \in Attempt /\ "unknown" \in Result
    BY Rows DEF Result
  <2>3. /\ row \in Attempt /\ row.status = attempts[a].status
        /\ row.generation = attempts[a].generation
        /\ row.worker = "answered" /\ row.answer = "unknown"
    BY <2>2, AttemptAnswered DEF Attempt
  <2> HIDE DEF row
  <2>4. QED BY <2>1, <2>2, <2>3, AttemptKept
<1>3. ASSUME NEW a \in 1 .. Len(attempts), WorkerCrash(a) PROVE CallInv' /\ DoubtInv'
  BY <1>3, Rows, AttemptReceived, AttemptKept DEF WorkerCrash, Attempt
<1>4. ASSUME NEW c \in wire, ApplyCallback(c) PROVE CallInv' /\ DoubtInv'
  BY <1>4, CallsKept DEF ApplyCallback
<1>5. CASE CancelMission
  <2>1. UNCHANGED attempts
    BY <1>5 DEF CancelMission
  <2>2. \/ SetDispatch("cancelled", 0) /\ dispatch.status = "pending"
        \/ UNCHANGED dispatches
    BY <1>5 DEF CancelMission
  <2>3. QED BY <2>1, <2>2, PendingCancelled, CallsKept
<1>6. CASE GatewayRestart \/ GateChange \/ UNCHANGED vars
  BY <1>6, CallsKept DEF GatewayRestart, GateChange, vars, aggregate
<1>7. QED BY <1>1, <1>2, <1>3, <1>4, <1>5, <1>6, FinalizeCalls, GatewayCalls DEF Next

\* Only a poll adds a generation.
LEMMA GenerationChanges ==
  ASSUME TypeOK, CallInv, [Next]_vars
  PROVE  \/ generation' = generation /\ polls' = polls
         \/ \E j \in jobs : Reconcile(j)
<1>1. ASSUME NEW j \in jobs, Claim(j) PROVE generation' = generation /\ polls' = polls
  <2>1. SetDispatch("dispatching", Len(attempts) + 1) /\ Len(attempts) + 1 \in Nat
    BY <1>1, Rows DEF Claim
  <2>2. QED BY <1>1, <2>1, DispatchSet, Statuses DEF Claim
<1>2. ASSUME NEW j \in jobs, NotClaimed(j) PROVE generation' = generation /\ polls' = polls
  <2>1. SetDispatch("cancelled", 0) \/ generation' = generation
    BY <1>2 DEF NotClaimed, generation
  <2>2. QED BY <1>2, <2>1, DispatchSet, Statuses DEF NotClaimed
<1>3. ASSUME NEW a \in 1 .. Len(attempts), Finalize(a)
      PROVE  generation' = generation /\ polls' = polls
  <2>1. attempts[a].answer \in Result
    BY <1>3 DEF Finalize, CallInv, CallOK
  <2>2. SetDispatch(attempts[a].answer, a) \/ generation' = generation
    BY <1>3 DEF Finalize, generation
  <2>3. QED BY <1>3, <2>1, <2>2, DispatchSet, Statuses DEF Finalize
<1>4. CASE CancelMission
  <2>1. SetDispatch("cancelled", 0) \/ generation' = generation
    BY <1>4 DEF CancelMission, generation
  <2>2. QED BY <1>4, <2>1, DispatchSet, Statuses DEF CancelMission
<1>5. CASE \/ \E j \in jobs : ReconcileStale(j)
           \/ \E a \in 1 .. Len(attempts) : CallTimeout(a) \/ WorkerCrash(a) \/ GatewayHandle(a)
           \/ \E c \in wire : ApplyCallback(c)
           \/ GatewayRestart \/ GateChange \/ UNCHANGED vars
  BY <1>5 DEF ReconcileStale, CallTimeout, WorkerCrash, GatewayHandle, ApplyCallback,
              GatewayRestart, GateChange, vars, aggregate, generation
<1>6. QED BY <1>1, <1>2, <1>3, <1>4, <1>5 DEF Next, HandleJob

-----------------------------------------------------------------------------
\* The budget: polls outnumber retries.

LEMMA GenerationInit == Init => GenerationInv
BY BudgetAssumption DEF Init, GenerationInv, generation

LEMMA GenerationStep ==
  ASSUME TypeOK, CallInv, DoubtInv, GenerationInv, [Next]_vars
  PROVE  GenerationInv'
<1> USE Rows, BudgetAssumption
<1>1. polls \in Nat
  BY DEF TypeOK
<1>2. CASE generation' = generation /\ polls' \in {polls, polls + 1}
  BY <1>1, <1>2 DEF GenerationInv
<1>3. ASSUME NEW j \in jobs, Reconcile(j), generation' # generation PROVE GenerationInv'
  <2>1. Resolution(polls + 1) = "retry_authorized"
    BY <1>3 DEF Reconcile, generation
  <2>2. polls' = polls + 1 /\ polls + 1 < MaximumAttempts
    BY <1>3, <2>1 DEF Reconcile, Resolution, RetryAuthorized
  <2>3. generation' = generation + 1
    BY <1>3, <2>1, GenerationAdded DEF Reconcile
  <2>4. QED BY <1>1, <2>2, <2>3 DEF GenerationInv
<1>4. \/ generation' = generation /\ polls' \in {polls, polls + 1}
      \/ \E j \in jobs : Reconcile(j)
  BY GenerationChanges
<1>5. \A j \in jobs : Reconcile(j) => polls' = polls + 1
  BY DEF Reconcile
<1>6. QED BY <1>2, <1>3, <1>4, <1>5

-----------------------------------------------------------------------------
\* What a cancellation leaves behind.

LEMMA WithdrawInit == Init => WithdrawInv
BY DEF Init, WithdrawInv, Withdrawn

LEMMA WithdrawKept ==
  ASSUME WithdrawInv, dispatch'.status = dispatch.status,
         UNCHANGED <<policy, cancelled, effect>>
  PROVE  WithdrawInv'
BY DEF WithdrawInv, Withdrawn, EffectOpen

\* How the current dispatch changes when a call ends.
LEMMA FinalizeSets ==
  ASSUME TypeOK, CallInv, DoubtInv, NEW a \in 1 .. Len(attempts), Finalize(a)
  PROVE  /\ attempts[a].answer \in Result /\ attempts[a].generation = generation
         /\ dispatch.status = "dispatching" /\ generation' = generation
         /\ dispatch'.status = attempts[a].answer
         /\ Acknowledge(DispatchJob(generation), IF NeedsReconciliation(attempts[a].answer)
                                                 THEN {ReconcileJob(generation, 0)} ELSE {})
<1>1. a = generation /\ dispatch.status = "dispatching" /\ dispatch.attempt = a
  BY UnfinishedIsCurrent DEF Finalize
<1>2. attempts[a].answer \in Result /\ attempts[a].generation = a /\ attempts[a].status = "pending"
  BY <1>1 DEF Finalize, CallInv, CallOK
<1>3. SetDispatch(attempts[a].answer, a)
  BY <1>1, <1>2 DEF Finalize
<1>4. generation' = generation /\ dispatches'[generation].status = attempts[a].answer
  BY <1>2, <1>3, DispatchSet, Statuses
<1>5. dispatch'.status = attempts[a].answer
  BY <1>4 DEF dispatch
<1>6. Acknowledge(DispatchJob(generation), IF NeedsReconciliation(attempts[a].answer)
                                           THEN {ReconcileJob(generation, 0)} ELSE {})
  BY <1>1, <1>2 DEF Finalize
<1>7. QED BY <1>1, <1>2, <1>4, <1>5, <1>6

\* A poll either leaves the dispatches alone or appends a pending one.
LEMMA ReconcileSets ==
  ASSUME TypeOK, NEW j \in jobs, Reconcile(j)
  PROVE  \/ /\ Resolution(polls + 1) # "retry_authorized"
            /\ generation' = generation /\ dispatch' = dispatch
         \/ /\ EffectOpen /\ RetryAuthorized(polls + 1)
            /\ generation' = generation + 1 /\ dispatch'.status = "pending"
<1>1. CASE Resolution(polls + 1) # "retry_authorized"
  BY <1>1 DEF Reconcile, generation, dispatch
<1>2. CASE Resolution(polls + 1) = "retry_authorized"
  <2>1. EffectOpen /\ RetryAuthorized(polls + 1)
    BY <1>2 DEF Resolution
  <2>2. /\ generation' = generation + 1
        /\ dispatches'[generation + 1] = [status |-> "pending", attempt |-> 0]
    BY <1>2, GenerationAdded DEF Reconcile
  <2>3. dispatch'.status = "pending"
    BY <2>2 DEF dispatch
  <2>4. QED BY <2>1, <2>2, <2>3
<1>3. QED BY <1>1, <1>2

\* The current dispatch, cancelled before it was claimed.
LEMMA CancelSets ==
  ASSUME TypeOK, SetDispatch("cancelled", 0)
  PROVE  generation' = generation /\ dispatch'.status = "cancelled"
<1>1. generation' = generation /\ dispatches'[generation].status = "cancelled"
  BY DispatchSet, Statuses
<1>2. QED BY <1>1 DEF dispatch

LEMMA WithdrawStep ==
  ASSUME TypeOK, CallInv, DoubtInv, WithdrawInv, [Next]_vars
  PROVE  WithdrawInv'
<1>1. ASSUME NEW j \in jobs, Claim(j) PROVE WithdrawInv'
  BY <1>1 DEF Claim, Claimable, WithdrawInv, Withdrawn
<1>2. ASSUME NEW j \in jobs, NotClaimed(j) PROVE WithdrawInv'
  <2>1. SetDispatch("cancelled", 0) \/ dispatch' = dispatch
    BY <1>2 DEF NotClaimed, dispatch, generation
  <2>2. UNCHANGED <<policy, cancelled, effect>>
    BY <1>2 DEF NotClaimed
  <2>3. CASE SetDispatch("cancelled", 0)
    BY <2>2, <2>3, CancelSets DEF WithdrawInv, Withdrawn, EffectOpen
  <2>4. QED BY <2>1, <2>2, <2>3, WithdrawKept
<1>3. ASSUME NEW j \in jobs, Reconcile(j) PROVE WithdrawInv'
  <2>1. UNCHANGED <<policy, cancelled, effect>>
    BY <1>3 DEF Reconcile
  <2>2. CASE EffectOpen /\ RetryAuthorized(polls + 1)
    <3>1. ~Withdrawn
      BY <2>2 DEF RetryAuthorized, Retryable, WithdrawInv
    <3>2. QED BY <2>1, <3>1 DEF WithdrawInv, Withdrawn
  <2>3. QED BY <1>3, <2>1, <2>2, ReconcileSets, WithdrawKept
<1>4. ASSUME NEW a \in 1 .. Len(attempts), Finalize(a) PROVE WithdrawInv'
  <2>1. /\ dispatch.status = "dispatching" /\ dispatch'.status \in Result
    BY <1>4, FinalizeSets
  <2>2. UNCHANGED <<policy, cancelled, effect>>
    BY <1>4 DEF Finalize
  <2>3. QED BY <2>1, <2>2 DEF WithdrawInv, Withdrawn, EffectOpen, Result
<1>5. ASSUME NEW c \in wire, ApplyCallback(c) PROVE WithdrawInv'
  <2>1. /\ EffectOpen /\ UNCHANGED <<policy, cancelled, dispatches>>
        /\ effect'.cancellationRequested = effect.cancellationRequested
    BY <1>5, EffectFields DEF ApplyCallback, Advances, TypeOK
  <2>2. QED BY <2>1 DEF WithdrawInv, Withdrawn, dispatch, generation
<1>6. CASE CancelMission
  <2>1. CASE policy = "mandatory_relock" \/ ~EffectOpen
    BY <1>6, <2>1 DEF CancelMission, WithdrawInv, Withdrawn, EffectOpen
  <2>2. CASE SetDispatch("cancelled", 0) /\ UNCHANGED effect
    BY <2>2, CancelSets DEF WithdrawInv
  <2>3. CASE /\ dispatch.status # "pending" /\ UNCHANGED dispatches
             /\ effect' = [effect EXCEPT !.cancellationRequested = TRUE]
    <3>1. effect'.cancellationRequested
      BY <2>3 DEF TypeOK
    <3>2. dispatch' = dispatch
      BY <2>3 DEF dispatch, generation
    <3>3. QED BY <2>3, <3>1, <3>2 DEF WithdrawInv
  <2>4. QED BY <1>6, <2>1, <2>2, <2>3 DEF CancelMission
<1>7. CASE \/ \E j \in jobs : ReconcileStale(j)
           \/ \E a \in 1 .. Len(attempts) : CallTimeout(a) \/ WorkerCrash(a) \/ GatewayHandle(a)
           \/ GatewayRestart \/ GateChange \/ UNCHANGED vars
  <2>1. UNCHANGED <<policy, cancelled, effect, dispatches>>
    BY <1>7 DEF ReconcileStale, CallTimeout, WorkerCrash, GatewayHandle, GatewayRestart,
                GateChange, vars, aggregate
  <2>2. QED BY <2>1, WithdrawKept DEF dispatch, generation
<1>8. QED BY <1>1, <1>2, <1>3, <1>4, <1>5, <1>6, <1>7 DEF Next, HandleJob

-----------------------------------------------------------------------------
\* The chains of polls.

LEMMA Counts ==
  ASSUME TypeOK
  PROVE  /\ Awaited \in {0, 1} /\ Ended \in Nat /\ Begun \in Nat
         /\ polls \in Nat /\ redeliveries \in Nat /\ MaximumAttempts \in Nat
BY BudgetAssumption DEF TypeOK, Awaited, Ended, Begun

LEMMA CountsNext ==
  ASSUME TypeOK' PROVE Awaited' \in {0, 1} /\ Ended' \in Nat /\ Begun' \in Nat
<1>1. polls' \in Nat /\ redeliveries' \in Nat
  BY DEF TypeOK
<1>2. Awaited' \in {0, 1}
  BY DEF Awaited
<1>3. Ended' \in Nat
  <2>1. Ended' = IF polls' < MaximumAttempts THEN 0 ELSE polls' - MaximumAttempts + 1
    BY DEF Ended
  <2>2. ASSUME NEW p \in Nat
        PROVE  (IF p < MaximumAttempts THEN 0 ELSE p - MaximumAttempts + 1) \in Nat
    BY BudgetAssumption
  <2>3. QED BY <1>1, <2>1, <2>2
<1>4. Begun' \in Nat
  <2>1. Begun' = 1 + redeliveries' + (IF cancelled' THEN 1 ELSE 0)
    BY DEF Begun
  <2>2. ASSUME NEW n \in Nat PROVE 1 + n + (IF cancelled' THEN 1 ELSE 0) \in Nat
    OBVIOUS
  <2>3. QED BY <1>1, <2>1, <2>2
<1>5. QED BY <1>2, <1>3, <1>4

LEMMA OneMore ==
  ASSUME NEW S, IsFiniteSet(S), NEW x, NEW T \in SUBSET (S \cup {x})
  PROVE  /\ IsFiniteSet(T) /\ Cardinality(T) <= Cardinality(S) + 1
         /\ Cardinality(S) \in Nat /\ Cardinality(T) \in Nat
<1>1. Cardinality(S) \in Nat
  BY FS_CardinalityType
<1>2. /\ IsFiniteSet(S \cup {x})
      /\ Cardinality(S \cup {x}) = IF x \in S THEN Cardinality(S) ELSE Cardinality(S) + 1
  BY FS_AddElement
<1>3. IsFiniteSet(T) /\ Cardinality(T) <= Cardinality(S \cup {x})
  BY <1>2, FS_Subset
<1>4. Cardinality(T) \in Nat
  BY <1>3, FS_CardinalityType
<1>5. QED BY <1>1, <1>2, <1>3, <1>4

LEMMA PollInit == Init => PollInv
<1> SUFFICES ASSUME Init PROVE PollInv
  OBVIOUS
<1>1. jobs = {DispatchJob(1)} /\ DispatchJob(1).topic = "dispatch"
  BY DEF Init, DispatchJob
<1>2. Chains = {}
  BY <1>1 DEF Chains
<1>3. Awaited = 1
  BY DEF Init, Awaited, dispatch, generation
<1>4. Ended = 0 /\ Begun = 1
  BY BudgetAssumption DEF Init, Ended, Begun
<1>5. QED BY <1>1, <1>2, <1>3, <1>4, FS_EmptySet DEF PollInv

LEMMA Balance ==
  ASSUME NEW c \in Nat, NEW a \in Nat, NEW e \in Nat, NEW b \in Nat,
         NEW c1 \in Nat, NEW a1 \in Nat, NEW e1 \in Nat, NEW b1 \in Nat, NEW n \in Int,
         c + a + e <= b, c1 <= c + n, n + a1 + e1 + b <= a + e + b1
  PROVE  c1 + a1 + e1 <= b1
OBVIOUS

\* The chains change by n: what is awaited, ended and begun makes up for it.
LEMMA ChainsMove ==
  ASSUME TypeOK, TypeOK', PollInv, NEW n \in Int,
         IsFiniteSet(Chains'), Cardinality(Chains') <= Cardinality(Chains) + n,
         n + Awaited' + Ended' + Begun <= Awaited + Ended + Begun',
         \A j \in jobs' : j.topic = "reconcile" => j.generation <= generation'
  PROVE  PollInv'
<1>1. Cardinality(Chains) \in Nat /\ Cardinality(Chains') \in Nat
  BY FS_CardinalityType DEF PollInv
<1>2. /\ Awaited \in Nat /\ Ended \in Nat /\ Begun \in Nat
      /\ Awaited' \in Nat /\ Ended' \in Nat /\ Begun' \in Nat
  BY Counts, CountsNext
<1>3. Cardinality(Chains) + Awaited + Ended <= Begun
  BY DEF PollInv
<1>4. Cardinality(Chains') + Awaited' + Ended' <= Begun'
  BY <1>1, <1>2, <1>3, Balance
<1>5. QED BY <1>4 DEF PollInv

\* No new chain.
LEMMA ChainsKept ==
  ASSUME TypeOK, TypeOK', PollInv, generation' = generation, polls' = polls,
         \A j \in jobs' : j.topic = "reconcile" => j \in jobs,
         Awaited' <= Awaited, Begun <= Begun'
  PROVE  PollInv'
<1>1. Chains' \subseteq Chains
  BY DEF Chains
<1>2. /\ IsFiniteSet(Chains') /\ Cardinality(Chains') <= Cardinality(Chains) + 0
      /\ Cardinality(Chains) \in Nat /\ Cardinality(Chains') \in Nat
  BY <1>1, FS_Subset, FS_CardinalityType DEF PollInv
<1>3. \A j \in jobs' : j.topic = "reconcile" => j.generation <= generation'
  BY DEF PollInv
<1>4. Ended' = Ended
  BY DEF Ended
<1>5. 0 + Awaited' + Ended' + Begun <= Awaited + Ended + Begun'
  BY <1>4, Counts, CountsNext
<1>6. QED BY <1>2, <1>3, <1>5, ChainsMove

\* One chain more, begun or awaited before.
LEMMA ChainAdded ==
  ASSUME TypeOK, TypeOK', PollInv, generation' = generation, polls' = polls, NEW k \in Nat,
         jobs' \subseteq jobs \cup {ReconcileJob(generation, k)},
         1 + Awaited' + Begun <= Awaited + Begun'
  PROVE  PollInv'
<1> DEFINE new == ReconcileJob(generation, k)
<1>1. new.generation = generation
  BY DEF ReconcileJob
<1>2. Chains' \subseteq Chains \cup {new}
  BY DEF Chains
<1>3. IsFiniteSet(Chains') /\ Cardinality(Chains') <= Cardinality(Chains) + 1
  BY <1>2, OneMore DEF PollInv
<1>4. \A j \in jobs' : j.topic = "reconcile" => j.generation <= generation'
  BY <1>1, Rows DEF PollInv
<1>5. 1 + Awaited' + Ended' + Begun <= Awaited + Ended + Begun'
  <2>1. Ended' = Ended
    BY DEF Ended
  <2>2. QED BY <2>1, Counts, CountsNext
<1>6. QED BY <1>3, <1>4, <1>5, ChainsMove

\* A poll that waits hands its chain on, one that retries leaves all to the next
\* generation, and every other one ends its chain, or was delivered again.
LEMMA ReconcilePolls ==
  ASSUME TypeOK, TypeOK', PollInv, NEW j \in jobs, Reconcile(j)
  PROVE  PollInv'
<1> USE Counts
<1> DEFINE r == Resolution(polls + 1)
<1>1. /\ j \in Chains /\ polls' = polls + 1 /\ UNCHANGED cancelled
      /\ Acknowledge(j, FollowUp(r, polls + 1))
  BY DEF Reconcile, Chains
<1>2. \/ redeliveries' = redeliveries /\ Begun' = Begun
      \/ redeliveries' = redeliveries + 1 /\ Begun' = Begun + 1
  BY <1>1 DEF Acknowledge, Begun
<1>3. /\ IsFiniteSet(Chains) /\ Cardinality(Chains) \in Nat
      /\ IsFiniteSet(Chains \ {j}) /\ Cardinality(Chains \ {j}) = Cardinality(Chains) - 1
  BY <1>1, FS_CardinalityType, FS_RemoveElement DEF PollInv
<1>4. CASE EffectOpen /\ RetryAuthorized(polls + 1) /\ generation' = generation + 1
                      /\ dispatch'.status = "pending"
  <2>1. polls' < MaximumAttempts
    BY <1>1, <1>4 DEF RetryAuthorized
  <2>2. Ended' = 0 /\ Ended = 0 /\ Awaited' = 1
    BY <1>1, <1>4, <2>1 DEF Ended, Awaited
  <2>3. \A k \in jobs' : k.topic = "reconcile" => k \in jobs
    <3>1. r = "retry_authorized" \/ r = "terminal_found"
      BY <1>4 DEF Resolution
    <3>2. \A k \in FollowUp(r, polls + 1) : k.topic = "dispatch"
      BY <3>1 DEF FollowUp, DispatchJob
    <3>3. QED BY <1>1, <3>2 DEF Acknowledge
  <2>4. \A k \in jobs' : k.topic = "reconcile" => k.generation <= generation
    BY <2>3 DEF PollInv
  <2>5. Chains' = {} /\ \A k \in jobs' : k.topic = "reconcile" => k.generation <= generation'
    <3>1. \A k \in jobs' : k.generation \in Nat
      BY DEF TypeOK, Job
    <3>2. QED BY <1>4, <2>4, <3>1, Rows DEF Chains
  <2>6. IsFiniteSet(Chains') /\ Cardinality(Chains') = 0
    BY <2>5, FS_EmptySet
  <2>7. Begun' \in Nat /\ 1 <= Begun'
    BY <1>2 DEF Begun
  <2>8. Cardinality(Chains') + Awaited' + Ended' <= Begun'
    BY <2>2, <2>6, <2>7
  <2>9. QED BY <2>5, <2>6, <2>8 DEF PollInv
<1>5. CASE /\ r # "retry_authorized" /\ generation' = generation /\ dispatch' = dispatch
  <2>1. Awaited' = Awaited
    BY <1>5 DEF Awaited
  <2>2. CASE r = "waiting"
    <3> DEFINE new == ReconcileJob(generation, polls + 1)
    <3>1. polls' < MaximumAttempts
      BY <1>1, <2>2 DEF Resolution
    <3>2. Ended' = Ended
      BY <1>1, <3>1 DEF Ended
    <3>3. FollowUp(r, polls + 1) = {new} /\ new.generation = generation
      BY <2>2 DEF FollowUp, ReconcileJob
    <3>4. \A k \in jobs' : k.topic = "reconcile" => k.generation <= generation'
      BY <1>1, <1>5, <3>3, Rows DEF Acknowledge, PollInv
    <3>5. CASE jobs' = (jobs \ {j}) \cup {new} /\ redeliveries' = redeliveries
      <4>1. Chains' \subseteq (Chains \ {j}) \cup {new}
        BY <1>5, <3>5 DEF Chains
      <4>2. IsFiniteSet(Chains') /\ Cardinality(Chains') <= Cardinality(Chains) + 0
        <5>1. Cardinality(Chains') <= Cardinality(Chains \ {j}) + 1 /\ IsFiniteSet(Chains')
          BY <1>3, <4>1, OneMore
        <5>2. QED BY <1>3, <5>1
      <4>3. Begun' = Begun
        BY <1>1, <3>5 DEF Begun
      <4>4. QED BY <2>1, <3>2, <3>4, <4>2, <4>3, ChainsMove
    <3>6. CASE jobs' = jobs \cup {new} /\ redeliveries' = redeliveries + 1
      <4>1. Chains' \subseteq Chains \cup {new}
        BY <1>5, <3>6 DEF Chains
      <4>2. IsFiniteSet(Chains') /\ Cardinality(Chains') <= Cardinality(Chains) + 1
        BY <1>3, <4>1, OneMore
      <4>3. Begun' = Begun + 1
        BY <1>1, <3>6 DEF Begun
      <4>4. QED BY <2>1, <3>2, <3>4, <4>2, <4>3, ChainsMove
    <3>7. QED BY <1>1, <3>3, <3>5, <3>6 DEF Acknowledge
  <2>3. CASE r # "waiting"
    <3>1. FollowUp(r, polls + 1) = {}
      BY <1>5, <2>3 DEF FollowUp
    <3>2. Ended' \in {Ended, Ended + 1}
      BY <1>1 DEF Ended
    <3>3. \A k \in jobs' : k.topic = "reconcile" => k.generation <= generation'
      BY <1>1, <1>5, <3>1 DEF Acknowledge, PollInv
    <3>4. CASE jobs' = jobs \ {j} /\ redeliveries' = redeliveries
      <4>1. Chains' = Chains \ {j}
        BY <1>5, <3>4 DEF Chains
      <4>2. Begun' = Begun
        BY <1>1, <3>4 DEF Begun
      <4>3. IsFiniteSet(Chains') /\ Cardinality(Chains') <= Cardinality(Chains) + (-1)
        BY <1>3, <4>1
      <4>4. -1 + Awaited' + Ended' + Begun <= Awaited + Ended + Begun'
        BY <2>1, <3>2, <4>2
      <4>5. QED BY <3>3, <4>3, <4>4, ChainsMove
    <3>5. CASE jobs' = jobs /\ redeliveries' = redeliveries + 1
      <4>1. Chains' = Chains
        BY <1>5, <3>5 DEF Chains
      <4>2. Begun' = Begun + 1
        BY <1>1, <3>5 DEF Begun
      <4>3. IsFiniteSet(Chains') /\ Cardinality(Chains') <= Cardinality(Chains) + 0
        BY <1>3, <4>1
      <4>4. 0 + Awaited' + Ended' + Begun <= Awaited + Ended + Begun'
        BY <2>1, <3>2, <4>2
      <4>5. QED BY <3>3, <4>3, <4>4, ChainsMove
    <3>6. QED BY <1>1, <3>1, <3>4, <3>5 DEF Acknowledge
  <2>4. QED BY <2>2, <2>3
<1>6. QED BY <1>4, <1>5, ReconcileSets

LEMMA PollStep ==
  ASSUME TypeOK, CallInv, DoubtInv, PollInv, [Next]_vars
  PROVE  PollInv'
<1> USE Counts
<1>0. TypeOK'
  BY TypeStep
<1>1. ASSUME NEW j \in jobs, Claim(j) PROVE PollInv'
  <2>1. generation' = generation /\ Awaited' = 1 /\ Awaited = 1
    <3>1. SetDispatch("dispatching", Len(attempts) + 1) /\ Len(attempts) + 1 \in Nat
      BY <1>1, Rows DEF Claim
    <3>2. generation' = generation /\ dispatches'[generation].status = "dispatching"
      BY <3>1, DispatchSet, Statuses
    <3>3. dispatch.status = "pending"
      BY <1>1 DEF Claim, Claimable, DuePending
    <3>4. QED BY <3>2, <3>3 DEF Awaited, dispatch
  <2>2. UNCHANGED <<polls, cancelled, jobs, redeliveries>>
    BY <1>1 DEF Claim, queue
  <2>3. QED BY <1>0, <2>1, <2>2, ChainsKept DEF Begun
<1>2. ASSUME NEW j \in jobs, NotClaimed(j) PROVE PollInv'
  <2>1. generation' = generation /\ Awaited' <= Awaited
    <3>1. CASE SetDispatch("cancelled", 0)
      BY <3>1, CancelSets DEF Awaited
    <3>2. CASE UNCHANGED dispatches
      BY <3>2 DEF Awaited, dispatch, generation
    <3>3. QED BY <1>2, <3>1, <3>2 DEF NotClaimed
  <2>2. UNCHANGED <<polls, cancelled>> /\ Acknowledge(j, {})
    BY <1>2 DEF NotClaimed
  <2>3. jobs' \subseteq jobs /\ redeliveries' \in {redeliveries, redeliveries + 1}
    BY <2>2 DEF Acknowledge
  <2>4. Begun <= Begun'
    BY <2>2, <2>3 DEF Begun
  <2>5. QED BY <1>0, <2>1, <2>2, <2>3, <2>4, ChainsKept
<1>3. ASSUME NEW a \in 1 .. Len(attempts), Finalize(a) PROVE PollInv'
  <2>1. /\ attempts[a].answer \in Result /\ dispatch.status = "dispatching"
        /\ generation' = generation /\ dispatch'.status = attempts[a].answer
        /\ Acknowledge(DispatchJob(generation), IF NeedsReconciliation(attempts[a].answer)
                                                THEN {ReconcileJob(generation, 0)} ELSE {})
    BY <1>3, FinalizeSets
  <2>2. Awaited = 1 /\ Awaited' = 0
    BY <2>1 DEF Awaited, Result
  <2>3. /\ jobs' \subseteq jobs \cup {ReconcileJob(generation, 0)}
        /\ redeliveries' \in {redeliveries, redeliveries + 1}
    BY <2>1 DEF Acknowledge
  <2>4. UNCHANGED <<polls, cancelled>>
    BY <1>3 DEF Finalize
  <2>5. Begun <= Begun'
    BY <2>3, <2>4 DEF Begun
  <2>6. 1 + Awaited' + Begun <= Awaited + Begun'
    BY <1>0, <2>2, <2>5, CountsNext
  <2>7. QED BY <1>0, <2>1, <2>3, <2>4, <2>6, ChainAdded
<1>4. CASE CancelMission
  <2>1. /\ generation' = generation /\ Awaited' <= Awaited
    <3>1. CASE SetDispatch("cancelled", 0)
      BY <3>1, CancelSets DEF Awaited
    <3>2. CASE UNCHANGED dispatches
      BY <3>2 DEF Awaited, dispatch, generation
    <3>3. QED BY <1>4, <3>1, <3>2 DEF CancelMission
  <2>2. /\ jobs' \subseteq jobs \cup {ReconcileJob(generation, CancelKey)} /\ CancelKey \in Nat
        /\ UNCHANGED <<polls, redeliveries>> /\ ~cancelled /\ cancelled'
    BY <1>4 DEF CancelMission, CancelKey
  <2>3. Begun' = Begun + 1
    BY <2>2 DEF Begun
  <2>4. 1 + Awaited' + Begun <= Awaited + Begun'
    <3>1. Awaited' \in Int
      BY DEF Awaited
    <3>2. QED BY <2>1, <2>3, <3>1
  <2>5. QED BY <1>0, <2>1, <2>2, <2>4, ChainAdded
<1>5. CASE \/ \E j \in jobs : ReconcileStale(j)
           \/ \E a \in 1 .. Len(attempts) : CallTimeout(a) \/ WorkerCrash(a) \/ GatewayHandle(a)
           \/ \E c \in wire : ApplyCallback(c)
           \/ GatewayRestart \/ GateChange \/ UNCHANGED vars
  <2>1. jobs' \subseteq jobs /\ UNCHANGED <<dispatches, polls, cancelled, redeliveries>>
    BY <1>5 DEF ReconcileStale, CallTimeout, WorkerCrash, GatewayHandle, ApplyCallback,
                GatewayRestart, GateChange, vars, aggregate, queue
  <2>2. generation' = generation /\ Awaited' = Awaited /\ Begun' = Begun
    BY <2>1 DEF generation, dispatch, Awaited, Begun
  <2>3. QED BY <1>0, <2>1, <2>2, ChainsKept
<1>6. QED BY <1>0, <1>1, <1>2, <1>3, <1>4, <1>5, ReconcilePolls DEF Next, HandleJob

-----------------------------------------------------------------------------
\* Doubt and the messages that follow it up.

LEMMA FollowUpInit == Init => DoubtIsFollowedUp
BY DEF Init, DoubtIsFollowedUp, dispatch, generation, Retryable

\* The message survives: every other job may go.
LEMMA FollowUpKept ==
  ASSUME TypeOK, DoubtIsFollowedUp, generation' = generation, dispatch'.status = dispatch.status,
         EffectOpen' => EffectOpen, exhausted' = exhausted,
         \A j \in jobs : j.topic = "reconcile" /\ j.generation = generation => j \in jobs'
  PROVE  DoubtIsFollowedUp'
BY DEF DoubtIsFollowedUp

LEMMA FollowUpStep ==
  ASSUME TypeOK, CallInv, DoubtInv, DoubtIsFollowedUp, [Next]_vars
  PROVE  DoubtIsFollowedUp'
<1>1. ASSUME NEW j \in jobs, Claim(j) PROVE DoubtIsFollowedUp'
  <2>1. dispatch'.status = "dispatching"
    <3>1. SetDispatch("dispatching", Len(attempts) + 1) /\ Len(attempts) + 1 \in Nat
      BY <1>1, Rows DEF Claim
    <3>2. generation' = generation /\ dispatches'[generation].status = "dispatching"
      BY <3>1, DispatchSet, Statuses
    <3>3. QED BY <3>2 DEF dispatch
  <2>2. QED BY <2>1 DEF DoubtIsFollowedUp, Retryable
<1>2. ASSUME NEW j \in jobs, NotClaimed(j) PROVE DoubtIsFollowedUp'
  <2>1. CASE SetDispatch("cancelled", 0)
    BY <2>1, CancelSets DEF DoubtIsFollowedUp, Retryable
  <2>2. CASE UNCHANGED dispatches
    <3>1. \A k \in jobs : k.topic = "reconcile" => k \in jobs'
      BY <1>2, Acknowledged DEF NotClaimed
    <3>2. UNCHANGED <<effect, exhausted>>
      BY <1>2 DEF NotClaimed
    <3>3. QED BY <2>2, <3>1, <3>2, FollowUpKept DEF generation, dispatch, EffectOpen
  <2>3. QED BY <1>2, <2>1, <2>2 DEF NotClaimed
<1>3. ASSUME NEW j \in jobs, Reconcile(j) PROVE DoubtIsFollowedUp'
  <2>1. CASE dispatch'.status = "pending"
    BY <2>1 DEF DoubtIsFollowedUp, Retryable
  <2>2. CASE /\ Resolution(polls + 1) # "retry_authorized"
             /\ generation' = generation /\ dispatch' = dispatch
    <3>1. SUFFICES ASSUME dispatch.status \in Retryable, EffectOpen, ~exhausted'
                   PROVE  \E k \in jobs' : k.topic = "reconcile" /\ k.generation = generation
      BY <1>3, <2>2 DEF DoubtIsFollowedUp, EffectOpen, Reconcile
    <3>2. Resolution(polls + 1) = "waiting"
      BY <1>3, <2>2, <3>1 DEF Reconcile, Resolution, Retryable
    <3>3. ReconcileJob(generation, polls + 1) \in jobs'
      BY <1>3, <3>2 DEF Reconcile, FollowUp, Acknowledge
    <3>4. QED BY <3>3 DEF ReconcileJob
  <2>3. QED BY <1>3, <2>1, <2>2, ReconcileSets
<1>4. ASSUME NEW j \in jobs, ReconcileStale(j) PROVE DoubtIsFollowedUp'
  BY <1>4, FollowUpKept DEF ReconcileStale, aggregate, generation, dispatch, EffectOpen
<1>5. ASSUME NEW a \in 1 .. Len(attempts), Finalize(a) PROVE DoubtIsFollowedUp'
  <2>1. CASE attempts[a].answer \in Retryable
    <3>1. ReconcileJob(generation, 0) \in jobs' /\ generation' = generation
      BY <1>5, <2>1, FinalizeSets DEF Acknowledge, NeedsReconciliation
    <3>2. QED BY <3>1 DEF DoubtIsFollowedUp, ReconcileJob
  <2>2. CASE attempts[a].answer \notin Retryable
    BY <1>5, <2>2, FinalizeSets DEF DoubtIsFollowedUp
  <2>3. QED BY <2>1, <2>2
<1>6. ASSUME NEW c \in wire, ApplyCallback(c) PROVE DoubtIsFollowedUp'
  <2>1. EffectOpen /\ UNCHANGED <<dispatches, exhausted, jobs>>
    BY <1>6 DEF ApplyCallback, Advances, queue
  <2>2. QED BY <2>1, FollowUpKept DEF generation, dispatch
<1>7. CASE CancelMission
  <2>1. CASE SetDispatch("cancelled", 0)
    BY <2>1, CancelSets DEF DoubtIsFollowedUp, Retryable
  <2>2. CASE UNCHANGED dispatches
    <3>1. \A k \in jobs : k.topic = "reconcile" => k \in jobs'
      BY <1>7 DEF CancelMission, DispatchJob
    <3>2. effect'.status = effect.status /\ UNCHANGED exhausted
      BY <1>7, EffectFields DEF CancelMission, TypeOK
    <3>3. QED BY <2>2, <3>1, <3>2, FollowUpKept DEF generation, dispatch, EffectOpen
  <2>3. QED BY <1>7, <2>1, <2>2 DEF CancelMission
<1>8. CASE \/ \E a \in 1 .. Len(attempts) : CallTimeout(a) \/ WorkerCrash(a) \/ GatewayHandle(a)
           \/ GatewayRestart \/ GateChange \/ UNCHANGED vars
  <2>1. UNCHANGED <<effect, dispatches, exhausted, jobs>>
    BY <1>8 DEF CallTimeout, WorkerCrash, GatewayHandle, GatewayRestart, GateChange, vars,
                aggregate, queue
  <2>2. QED BY <2>1, FollowUpKept DEF generation, dispatch, EffectOpen
<1>9. QED BY <1>1, <1>2, <1>3, <1>4, <1>5, <1>6, <1>7, <1>8 DEF Next, HandleJob

-----------------------------------------------------------------------------
\* The effect and the callbacks stored for it.

LEMMA CallbacksInit == Init => EffectFollowsCallbacks
BY DEF Init, EffectFollowsCallbacks

LEMMA Ranks ==
  /\ \A s \in EffectStatus : Rank[s] \in 0 .. 3 /\ (Rank[s] = 3 <=> s \in Terminal)
  /\ \A s \in EffectStatus : Rank[s] > 0 => s # "pending"
BY DEF Rank, EffectStatus, Terminal

LEMMA CallbacksStep ==
  ASSUME TypeOK, EffectFollowsCallbacks, [Next]_vars
  PROVE  EffectFollowsCallbacks'
<1>1. CASE effect'.status = effect.status /\ stored' = stored
  BY <1>1 DEF EffectFollowsCallbacks
<1>2. ASSUME NEW c \in wire, ApplyCallback(c) PROVE EffectFollowsCallbacks'
  <2>1. c.status \in EffectStatus /\ effect.status \in EffectStatus
    BY ProgressAssumption, EffectFields DEF TypeOK, Callback, EffectStatus
  <2>2. effect'.status = c.status /\ stored' = stored \cup {c}
    BY <1>2, <2>1 DEF ApplyCallback, TypeOK
  <2>3. Rank[c.status] > Rank[effect.status] /\ effect.status \notin Terminal
    BY <1>2 DEF ApplyCallback, Advances, EffectOpen
  <2>4. \A d \in stored : d.status \in EffectStatus
    BY ProgressAssumption DEF TypeOK, Callback, EffectStatus
  <2>5. \A d \in stored : Rank[d.status] <= Rank[effect.status] /\ d.status \notin Terminal
    BY <2>1, <2>3, <2>4, Ranks DEF EffectFollowsCallbacks
  <2>6. c.status # "pending"
    BY <2>1, <2>3, Ranks
  <2>7. QED BY <2>1, <2>2, <2>3, <2>4, <2>5, <2>6, Ranks DEF EffectFollowsCallbacks
<1>3. (effect'.status = effect.status /\ stored' = stored) \/ \E c \in wire : ApplyCallback(c)
  <2>1. CASE CancelMission
    BY <2>1, EffectFields DEF CancelMission, TypeOK
  <2>2. CASE Next /\ ~CancelMission
    BY <2>2 DEF Next, HandleJob, Claim, NotClaimed, Reconcile, ReconcileStale, CallTimeout,
                Finalize, WorkerCrash, GatewayHandle, GatewayRestart, GateChange, aggregate
  <2>3. CASE UNCHANGED vars
    BY <2>3 DEF vars, aggregate
  <2>4. QED BY <2>1, <2>2, <2>3
<1>4. QED BY <1>1, <1>2, <1>3

-----------------------------------------------------------------------------
\* The inductive invariant.

LEMMA IInvInit == Init => IInv
BY TypeInit, CallInit, WithdrawInit, GenerationInit, PollInit, FollowUpInit, CallbacksInit DEF IInv

LEMMA IInvStep == IInv /\ [Next]_vars => IInv'
BY TypeStep, CallStep, WithdrawStep, GenerationStep, PollStep, FollowUpStep, CallbacksStep DEF IInv

LEMMA IInvAlways == Spec => []IInv
BY IInvInit, IInvStep, PTL DEF Spec

\* Every row of the aggregate, every job and callback has its type.
THEOREM GatewayTypeCorrect == Spec => []TypeOK
<1>1. IInv => TypeOK
  BY DEF IInv
<1>2. QED BY <1>1, IInvAlways, PTL

\* However often and by however many workers the dispatch job of a generation
\* is handled, claimDispatch inserts one attempt for it.
THEOREM OneCall == Spec => []OneCallPerGeneration
<1>1. IInv => OneCallPerGeneration
  BY DEF IInv, CallInv, CallOK, OneCallPerGeneration
<1>2. QED BY <1>1, IInvAlways, PTL

\* Reconciliation authorizes another generation only after the last call ended
\* in doubt and was finalized.
THEOREM DoubtBeforeRetry == Spec => []RetryOnlyWhenInDoubt
<1>1. ASSUME IInv PROVE RetryOnlyWhenInDoubt
  <2>1. TypeOK /\ CallInv /\ DoubtInv
    BY <1>1 DEF IInv
  <2>2. \A g \in 1 .. generation - 1 : g \in 1 .. Len(attempts)
    BY <2>1, Rows DEF CallInv
  <2>3. \A g \in 1 .. generation - 1 : /\ dispatches[g].attempt = g
                                      /\ attempts[g].worker = "over"
    BY <2>1, <2>2 DEF CallInv, CallOK, DoubtInv, Retryable
  <2>4. QED BY <2>1, <2>3 DEF RetryOnlyWhenInDoubt, DoubtInv, generation
<1>2. QED BY <1>1, IInvAlways, PTL

\* The reconciliation budget of a command is never exceeded by its generations,
\* whoever else (a redelivered poll, a cancellation's) spends of it; the polls
\* exceed it by no more than those other chains.
THEOREM CallsWithinBudget == Spec => []BudgetHolds
<1>1. ASSUME IInv PROVE BudgetHolds
  <2>1. /\ Awaited \in Nat /\ Ended \in Nat /\ Begun \in Nat /\ polls \in Nat
        /\ redeliveries \in Nat /\ MaximumAttempts \in Nat
    BY <1>1, Counts DEF IInv
  <2>2. Cardinality(Chains) \in Nat /\ Cardinality(Chains) + Awaited + Ended <= Begun
    BY <1>1, FS_CardinalityType DEF IInv, PollInv
  <2>3. Ended <= Begun
    BY <2>1, <2>2
  <2>4. polls <= MaximumAttempts + redeliveries + (IF cancelled THEN 1 ELSE 0)
    BY <2>1, <2>3 DEF Ended, Begun
  <2>5. QED BY <1>1, <2>4 DEF IInv, GenerationInv, BudgetHolds
<1>2. QED BY <1>1, IInvAlways, PTL

\* A result in doubt always has a reconciliation message ahead of it, until it
\* is settled or the budget is exhausted.
THEOREM DoubtHasMessage == Spec => []DoubtIsFollowedUp
<1>1. IInv => DoubtIsFollowedUp
  BY DEF IInv
<1>2. QED BY <1>1, IInvAlways, PTL

\* The effect row agrees with the callbacks stored for it, in whatever order,
\* and however often, they came.
THEOREM EffectIsCallbacks == Spec => []EffectFollowsCallbacks
<1>1. IInv => EffectFollowsCallbacks
  BY DEF IInv
<1>2. QED BY <1>1, IInvAlways, PTL

-----------------------------------------------------------------------------
\* Steps.

\* Only a claim adds an attempt.
LEMMA AttemptsChange ==
  ASSUME IInv, [Next]_vars
  PROVE  Len(attempts') = Len(attempts) \/ \E j \in jobs : Claim(j)
<1>1. TypeOK /\ TypeOK'
  BY TypeStep DEF IInv
<1>2. attempts \in Seq(Attempt) /\ attempts' \in Seq(Attempt)
  BY <1>1 DEF TypeOK
<1>3. ASSUME NEW a, NEW row, SetAttempt(a, row) PROVE Len(attempts') = Len(attempts)
  <2>1. DOMAIN attempts' = DOMAIN attempts
    BY <1>3 DEF SetAttempt
  <2>2. 1 .. Len(attempts') = 1 .. Len(attempts) /\ Len(attempts') \in Nat /\ Len(attempts) \in Nat
    BY <1>2, <2>1, LenProperties
  <2>3. QED BY <2>2
<1>4. ASSUME NEW a \in 1 .. Len(attempts),
             CallTimeout(a) \/ Finalize(a) \/ WorkerCrash(a) \/ GatewayHandle(a)
      PROVE  \E row : SetAttempt(a, row)
  BY <1>4, Zenon DEF CallTimeout, Finalize, WorkerCrash, GatewayHandle
<1>5. CASE \/ \E j \in jobs : NotClaimed(j) \/ Reconcile(j) \/ ReconcileStale(j)
           \/ \E c \in wire : ApplyCallback(c)
           \/ CancelMission \/ GatewayRestart \/ GateChange \/ UNCHANGED vars
  BY <1>5 DEF NotClaimed, Reconcile, ReconcileStale, ApplyCallback, CancelMission,
              GatewayRestart, GateChange, vars, aggregate
<1>6. QED BY <1>3, <1>4, <1>5 DEF Next, HandleJob

\* Nothing that begins a call, or authorizes one, happens to a command whose
\* effect is closed or withdrawn.
LEMMA QuietStep ==
  ASSUME IInv, [Next]_vars, ~EffectOpen \/ Withdrawn
  PROVE  Len(attempts') = Len(attempts) /\ Len(dispatches') = Len(dispatches)
<1> USE DEF IInv
<1>1. Len(attempts') = Len(attempts)
  <2>1. \A j \in jobs : ~Claim(j)
    BY DEF Claim, Claimable, DuePending
  <2>2. QED BY <2>1, AttemptsChange
<1>2. Len(dispatches') = Len(dispatches)
  <2>1. ASSUME NEW j \in jobs, Reconcile(j) PROVE generation' = generation
    <3>1. CASE EffectOpen /\ RetryAuthorized(polls + 1)
      BY <3>1 DEF WithdrawInv, RetryAuthorized, Retryable
    <3>2. QED BY <2>1, <3>1, ReconcileSets
  <2>2. QED BY <2>1, GenerationChanges DEF generation
<1>3. QED BY <1>1, <1>2

\* After the cancellation of its mission an optional effect is not called again.
THEOREM CancelledIsQuiet == Spec => CancelledStaysQuiet
<1>1. IInv /\ [Next]_vars =>
        [Withdrawn => /\ Len(attempts') = Len(attempts)
                      /\ Len(dispatches') = Len(dispatches)]_vars
  BY QuietStep
<1>2. QED BY <1>1, IInvAlways, PTL DEF CancelledStaysQuiet, Spec

\* A terminal effect stays what it is, and its command is not called again.
THEOREM OutcomesAreFinal == Spec => OutcomeIsFinal
<1>1. ASSUME IInv, [Next]_vars, ~EffectOpen PROVE effect'.status = effect.status
  <2>1. CASE CancelMission
    BY <1>1, <2>1, EffectFields DEF CancelMission, IInv, TypeOK
  <2>2. CASE Next /\ ~CancelMission
    BY <1>1, <2>2
       DEF Next, HandleJob, Claim, NotClaimed, Reconcile, ReconcileStale, CallTimeout, Finalize,
           WorkerCrash, GatewayHandle, ApplyCallback, Advances, GatewayRestart, GateChange,
           aggregate
  <2>3. CASE UNCHANGED vars
    BY <2>3 DEF vars, aggregate
  <2>4. QED BY <1>1, <2>1, <2>2, <2>3
<1>2. IInv /\ [Next]_vars =>
        [~EffectOpen => /\ effect'.status = effect.status
                        /\ Len(attempts') = Len(attempts)
                        /\ Len(dispatches') = Len(dispatches)]_vars
  BY <1>1, QuietStep
<1>3. QED BY <1>2, IInvAlways, PTL DEF OutcomeIsFinal, Spec

-----------------------------------------------------------------------------
\* The refinement of LogicalCommand: a claim is a call, a finalization that ends
\* in doubt an answer, a poll that adds a generation an authorization, a terminal
\* callback a resolution, a cancellation a withdrawal.

InDoubt == dispatch.status \in Retryable
TheOutcome == IF EffectOpen THEN "open" ELSE effect.status
Visible == <<generation, Len(attempts), InDoubt, TheOutcome, Withdrawn>>

LEMMA CommandInit == Init => Command!Init
BY DEF Init, Command!Init, generation, dispatch, EffectOpen, Terminal, Retryable, Withdrawn

LEMMA OpenOutcome ==
  ASSUME TypeOK
  PROVE  /\ EffectOpen <=> TheOutcome = "open"
         /\ ~EffectOpen => TheOutcome \in Terminal
BY EffectFields DEF TheOutcome, EffectOpen, Terminal

LEMMA ClaimIsCall ==
  ASSUME IInv, NEW j \in jobs, Claim(j)
  PROVE  Command!Call
<1> USE DEF IInv
<1>1. EffectOpen /\ ~Withdrawn /\ dispatch.status = "pending" /\ j.generation = generation
  BY DEF Claim, Claimable, DuePending
<1>2. Len(attempts) = generation - 1 /\ generation \in Nat
  BY <1>1, Rows DEF CallInv
<1>3. /\ SetDispatch("dispatching", generation)
      /\ attempts' = Append(attempts, NewAttempt(generation))
      /\ UNCHANGED <<policy, cancelled, effect>>
  BY <1>1, <1>2 DEF Claim
<1>4. generation' = generation /\ dispatches'[generation].status = "dispatching"
  BY <1>2, <1>3, DispatchSet, Statuses
<1>5. dispatch'.status = "dispatching"
  BY <1>4 DEF dispatch
<1>6. Len(attempts') = Len(attempts) + 1
  BY <1>2, <1>3, Rows, AttemptAdded
<1>7. ~InDoubt /\ ~InDoubt'
  BY <1>1, <1>5 DEF InDoubt, Retryable
<1>8. TheOutcome = "open" /\ TheOutcome' = TheOutcome /\ Withdrawn' = Withdrawn
  BY <1>1, <1>3 DEF TheOutcome, EffectOpen, Withdrawn
<1>9. QED
  BY <1>1, <1>2, <1>4, <1>6, <1>7, <1>8 DEF Command!Call, Command!Live, InDoubt, TheOutcome

LEMMA FinalizeIsAnswer ==
  ASSUME IInv, IInv', NEW a \in 1 .. Len(attempts), Finalize(a)
  PROVE  Command!Answer \/ UNCHANGED Visible
<1> USE DEF IInv
<1>1. /\ dispatch.status = "dispatching" /\ generation' = generation
      /\ dispatch'.status \in Result
  BY FinalizeSets
<1>2. Len(attempts) = generation /\ Len(attempts') = generation'
  BY <1>1 DEF CallInv, Result
<1>3. ~InDoubt /\ InDoubt' \in BOOLEAN
  BY <1>1 DEF InDoubt, Retryable
<1>4. TheOutcome' = TheOutcome /\ Withdrawn' = Withdrawn
  BY DEF Finalize, TheOutcome, EffectOpen, Withdrawn
<1>5. CASE InDoubt'
  BY <1>1, <1>2, <1>3, <1>4, <1>5 DEF Command!Answer, InDoubt, TheOutcome
<1>6. CASE ~InDoubt'
  <2>1. InDoubt' = InDoubt
    BY <1>3, <1>6 DEF InDoubt
  <2>2. Len(attempts') = Len(attempts)
    BY <1>1, <1>2
  <2>3. QED BY <1>1, <1>4, <2>1, <2>2 DEF Visible
<1>7. QED BY <1>3, <1>5, <1>6

LEMMA RetryIsAuthorize ==
  ASSUME IInv, NEW j \in jobs, Reconcile(j)
  PROVE  Command!Authorize \/ UNCHANGED Visible
<1> USE DEF IInv
<1>1. /\ Len(attempts') = Len(attempts)
      /\ TheOutcome' = TheOutcome /\ Withdrawn' = Withdrawn
  BY DEF Reconcile, TheOutcome, EffectOpen, Withdrawn
<1>2. CASE generation' = generation /\ dispatch' = dispatch
  BY <1>1, <1>2 DEF Visible, InDoubt
<1>3. CASE /\ EffectOpen /\ RetryAuthorized(polls + 1)
           /\ generation' = generation + 1 /\ dispatch'.status = "pending"
  <2>1. InDoubt /\ ~effect.cancellationRequested /\ polls + 1 < MaximumAttempts
    BY <1>3 DEF RetryAuthorized, InDoubt
  <2>2. ~Withdrawn
    BY <1>3, <2>1 DEF WithdrawInv, InDoubt, Retryable
  <2>3. generation < MaximumAttempts
    BY <2>1, Rows, BudgetAssumption DEF GenerationInv, TypeOK
  <2>4. ~InDoubt'
    BY <1>3 DEF InDoubt, Retryable
  <2>5. TheOutcome = "open"
    BY <1>3 DEF TheOutcome
  <2>6. QED
    BY <1>1, <1>3, <2>1, <2>2, <2>3, <2>4, <2>5
       DEF Command!Authorize, Command!Live, InDoubt, TheOutcome
<1>4. QED BY <1>2, <1>3, ReconcileSets

LEMMA CallbackIsResolve ==
  ASSUME IInv, NEW c \in wire, ApplyCallback(c)
  PROVE  Command!Resolve \/ UNCHANGED Visible
<1> USE DEF IInv
<1>1. EffectOpen /\ UNCHANGED <<policy, cancelled, dispatches, attempts>>
  BY DEF ApplyCallback, Advances
<1>2. /\ generation' = generation /\ Len(attempts') = Len(attempts)
      /\ InDoubt' = InDoubt /\ Withdrawn' = Withdrawn
  BY <1>1 DEF generation, dispatch, InDoubt, Withdrawn
<1>3. TheOutcome = "open"
  BY <1>1 DEF TheOutcome
<1>4. TheOutcome' \in Terminal \/ TheOutcome' = "open"
  BY DEF TheOutcome, EffectOpen
<1>5. CASE TheOutcome' = "open"
  BY <1>2, <1>3, <1>5 DEF Visible
<1>6. CASE TheOutcome' \in Terminal
  BY <1>2, <1>3, <1>6 DEF Command!Resolve, InDoubt, TheOutcome
<1>7. QED BY <1>4, <1>5, <1>6

LEMMA CancelIsWithdraw ==
  ASSUME IInv, CancelMission
  PROVE  Command!Withdraw \/ UNCHANGED Visible
<1> USE DEF IInv
<1>1. generation' = generation /\ Len(attempts') = Len(attempts) /\ InDoubt' = InDoubt
  <2>1. CASE UNCHANGED dispatches
    BY <2>1 DEF CancelMission, generation, dispatch, InDoubt
  <2>2. CASE SetDispatch("cancelled", 0) /\ dispatch.status = "pending"
    BY <2>2, CancelSets DEF CancelMission, InDoubt, Retryable
  <2>3. QED BY <2>1, <2>2 DEF CancelMission
<1>2. TheOutcome' = TheOutcome
  BY EffectFields DEF CancelMission, TheOutcome, EffectOpen, TypeOK
<1>3. CASE policy = "mandatory_relock"
  <2>1. Withdrawn' = Withdrawn
    BY <1>3 DEF CancelMission, Withdrawn
  <2>2. QED BY <1>1, <1>2, <2>1 DEF Visible
<1>4. CASE policy # "mandatory_relock"
  <2>1. Withdrawn' = TRUE
    BY <1>4 DEF CancelMission, Withdrawn
  <2>2. QED BY <1>1, <1>2, <2>1 DEF Command!Withdraw, InDoubt, TheOutcome
<1>5. QED BY <1>3, <1>4

LEMMA CommandStep ==
  ASSUME IInv, [Next]_vars
  PROVE  [Command!Next]_(Command!vars)
<1>1. IInv'
  BY IInvStep
<1>2. ASSUME NEW j \in jobs, NotClaimed(j) PROVE UNCHANGED Visible
  <2>1. CASE UNCHANGED dispatches
    BY <1>2, <2>1 DEF NotClaimed, Visible, generation, dispatch, InDoubt, TheOutcome, EffectOpen,
                      Withdrawn
  <2>2. CASE SetDispatch("cancelled", 0) /\ dispatch.status = "pending"
    <3>1. generation' = generation /\ InDoubt' = InDoubt
      BY <2>2, CancelSets DEF IInv, InDoubt, Retryable
    <3>2. QED BY <1>2, <3>1 DEF NotClaimed, Visible, TheOutcome, EffectOpen, Withdrawn
  <2>3. QED BY <1>2, <2>1, <2>2 DEF NotClaimed, DuePending
<1>3. ASSUME NEW a \in 1 .. Len(attempts), CallTimeout(a) \/ WorkerCrash(a) \/ GatewayHandle(a)
      PROVE  UNCHANGED Visible
  <2>1. UNCHANGED <<policy, cancelled, effect, dispatches>>
    BY <1>3 DEF CallTimeout, WorkerCrash, GatewayHandle
  <2>2. ~ \E j \in jobs : Claim(j)
    <3>1. SUFFICES ASSUME NEW j \in jobs, Claim(j) PROVE FALSE
      OBVIOUS
    <3>2. dispatch.status = "pending"
      BY <3>1 DEF Claim, Claimable, DuePending
    <3>3. SetDispatch("dispatching", Len(attempts) + 1) /\ Len(attempts) + 1 \in Nat
      BY <3>1, Rows DEF Claim, IInv
    <3>4. dispatches'[generation].status = "dispatching"
      BY <3>3, DispatchSet, Statuses DEF IInv
    <3>5. QED BY <2>1, <3>2, <3>4 DEF dispatch
  <2>3. Len(attempts') = Len(attempts)
    BY <2>2, AttemptsChange
  <2>4. QED BY <2>1, <2>3 DEF Visible, generation, dispatch, InDoubt, TheOutcome, EffectOpen,
                              Withdrawn
<1>4. ASSUME (\E j \in jobs : ReconcileStale(j)) \/ GatewayRestart \/ GateChange \/ UNCHANGED vars
      PROVE  UNCHANGED Visible
  <2>1. UNCHANGED <<policy, cancelled, effect, dispatches, attempts>>
    BY <1>4 DEF ReconcileStale, GatewayRestart, GateChange, vars, aggregate
  <2>2. QED BY <2>1 DEF Visible, generation, dispatch, InDoubt, TheOutcome, EffectOpen, Withdrawn
<1>5. Command!Next \/ UNCHANGED Visible
  BY <1>1, <1>2, <1>3, <1>4, ClaimIsCall, FinalizeIsAnswer, RetryIsAuthorize, CallbackIsResolve,
     CancelIsWithdraw
     DEF Next, HandleJob, Command!Next
<1>6. UNCHANGED Visible => UNCHANGED Command!vars
  BY DEF Visible, Command!vars, InDoubt, TheOutcome
<1>7. QED BY <1>5, <1>6

\* The record of a gateway command implements the logical command: called once
\* per authorization, authorized again only in doubt, quiet when ended.
THEOREM GatewayImplementsCommand == Spec => ImplementsCommand
<1>1. IInv /\ [Next]_vars => [Command!Next]_(Command!vars)
  BY CommandStep
<1>2. QED BY <1>1, CommandInit, IInvAlways, PTL DEF ImplementsCommand, Command!Spec, Spec
-----------------------------------------------------------------------------
\* The refinement of DeviceEffect, the effect that MissionExecution works with: a
\* claim sends, a poll that adds a generation retries, a terminal callback
\* records, a cancellation stops.

\* The gateway calls back about commands it received.
CalledInv == wire # {} => Len(attempts) > 0

TheRecord == IF EffectOpen THEN "pending" ELSE effect.status
Called == Len(attempts) > 0
DeviceVars == <<SentOrNot, Called, TheRecord, Withdrawn>>

LEMMA CalledStep == IInv /\ CalledInv /\ [Next]_vars => CalledInv'
<1> SUFFICES ASSUME IInv, CalledInv, [Next]_vars PROVE CalledInv'
  OBVIOUS
<1> USE DEF IInv, CalledInv
<1>1. Len(attempts') = Len(attempts) \/ Len(attempts') > 0
  <2>1. ASSUME NEW j \in jobs, Claim(j) PROVE Len(attempts') > 0
    <3>1. j.generation \in Nat \ {0} /\ attempts' = Append(attempts, NewAttempt(j.generation))
      BY <2>1 DEF Claim, TypeOK, Job
    <3>2. QED BY <3>1, AttemptAdded, Rows
  <2>2. QED BY <2>1, AttemptsChange
<1>2. ASSUME NEW a \in 1 .. Len(attempts), GatewayHandle(a) PROVE Len(attempts) > 0
  BY Rows
<1>3. wire' = wire \/ \E a \in 1 .. Len(attempts) : GatewayHandle(a)
  <2>1. ASSUME NEW j \in jobs, HandleJob(j) PROVE wire' = wire
    BY <2>1 DEF HandleJob, Claim, NotClaimed, Reconcile, ReconcileStale, outside
  <2>2. ASSUME NEW a \in 1 .. Len(attempts), CallTimeout(a) \/ Finalize(a) \/ WorkerCrash(a)
        PROVE  wire' = wire
    BY <2>2 DEF CallTimeout, Finalize, WorkerCrash, outside
  <2>3. ASSUME (\E c \in wire : ApplyCallback(c)) \/ CancelMission \/ GatewayRestart \/ GateChange
               \/ UNCHANGED vars
        PROVE  wire' = wire
    BY <2>3 DEF ApplyCallback, CancelMission, GatewayRestart, GateChange, vars, outside
  <2>4. QED BY <2>1, <2>2, <2>3 DEF Next
<1>4. QED BY <1>1, <1>2, <1>3, AttemptsChange

LEMMA CalledInit == Init => CalledInv
BY DEF Init, CalledInv

LEMMA CalledAlways == Spec => [](IInv /\ CalledInv)
BY CalledInit, CalledStep, IInvInit, IInvStep, PTL DEF Spec

LEMMA DeviceInit == Init => Device!Init
BY DEF Init, Device!Init, SentOrNot, generation, dispatch, EffectOpen, Terminal, Withdrawn

LEMMA ClaimIsSend ==
  ASSUME IInv, NEW j \in jobs, Claim(j)
  PROVE  Device!Send
<1> USE DEF IInv
<1>1. /\ EffectOpen /\ ~Withdrawn /\ dispatch.status = "pending" /\ j.generation = generation
      /\ SetDispatch("dispatching", Len(attempts) + 1)
      /\ attempts' = Append(attempts, NewAttempt(generation))
      /\ UNCHANGED <<policy, cancelled, effect>>
  BY DEF Claim, Claimable, DuePending
<1>2. dispatch'.status = "dispatching"
  <2>1. Len(attempts) + 1 \in Nat
    BY Rows
  <2>2. generation' = generation /\ dispatches'[generation].status = "dispatching"
    BY <1>1, <2>1, DispatchSet, Statuses
  <2>3. QED BY <2>2 DEF dispatch
<1>3. Len(attempts') > 0
  BY <1>1, Rows, AttemptAdded
<1>4. SentOrNot = "pending" /\ SentOrNot' = "sent"
  BY <1>1, <1>2 DEF SentOrNot
<1>5. TheRecord = "pending" /\ TheRecord' = "pending" /\ Withdrawn' = Withdrawn
  BY <1>1 DEF TheRecord, EffectOpen, Withdrawn
<1>6. QED BY <1>1, <1>3, <1>4, <1>5 DEF Device!Send, TheRecord

LEMMA FinalizeIsHidden ==
  ASSUME IInv, NEW a \in 1 .. Len(attempts), Finalize(a)
  PROVE  UNCHANGED <<SentOrNot, TheRecord, Withdrawn>>
<1>1. dispatch.status = "dispatching" /\ dispatch'.status \in Result
  BY FinalizeSets DEF IInv
<1>2. SentOrNot = "sent" /\ SentOrNot' = "sent"
  BY <1>1 DEF SentOrNot, Result
<1>3. QED BY <1>2 DEF Finalize, TheRecord, EffectOpen, Withdrawn

LEMMA ReconcileIsRetry ==
  ASSUME IInv, NEW j \in jobs, Reconcile(j)
  PROVE  Device!Retry \/ UNCHANGED DeviceVars
<1> USE DEF IInv
<1>1. UNCHANGED <<attempts, TheRecord, Withdrawn>>
  BY DEF Reconcile, TheRecord, EffectOpen, Withdrawn
<1>2. CASE dispatch' = dispatch
  BY <1>1, <1>2 DEF DeviceVars, SentOrNot, Called
<1>3. CASE EffectOpen /\ RetryAuthorized(polls + 1) /\ dispatch'.status = "pending"
  <2>1. dispatch.status \in Retryable /\ ~effect.cancellationRequested
    BY <1>3 DEF RetryAuthorized
  <2>2. ~Withdrawn
    BY <1>3, <2>1 DEF WithdrawInv, Retryable
  <2>3. SentOrNot = "sent" /\ SentOrNot' = "pending"
    BY <1>3, <2>1 DEF SentOrNot, Retryable
  <2>4. TheRecord = "pending"
    BY <1>3 DEF TheRecord
  <2>5. QED BY <1>1, <2>2, <2>3, <2>4 DEF Device!Retry, TheRecord
<1>4. QED BY <1>2, <1>3, ReconcileSets

LEMMA CallbackIsRecord ==
  ASSUME IInv, CalledInv, NEW c \in wire, ApplyCallback(c)
  PROVE  Device!Record \/ UNCHANGED DeviceVars
<1> USE DEF IInv, CalledInv
<1>1. EffectOpen /\ UNCHANGED <<policy, cancelled, dispatches, attempts>>
  BY DEF ApplyCallback, Advances
<1>2. UNCHANGED <<SentOrNot, Called, Withdrawn>> /\ Called
  BY <1>1 DEF generation, dispatch, SentOrNot, Called, Withdrawn
<1>3. TheRecord = "pending" /\ TheRecord' \in Terminal \cup {"pending"}
  BY <1>1 DEF TheRecord, EffectOpen
<1>4. CASE TheRecord' = "pending"
  BY <1>2, <1>3, <1>4 DEF DeviceVars
<1>5. CASE TheRecord' \in Terminal
  BY <1>2, <1>3, <1>5 DEF Device!Record, TheRecord, Called, Terminal
<1>6. QED BY <1>3, <1>4, <1>5

LEMMA CancelIsStop ==
  ASSUME IInv, CancelMission
  PROVE  Device!Stop \/ UNCHANGED DeviceVars
<1> USE DEF IInv
<1>1. UNCHANGED <<policy, attempts>> /\ ~cancelled /\ cancelled' = TRUE
  BY DEF CancelMission
<1>2. TheRecord' = TheRecord /\ (TheRecord = "pending" <=> EffectOpen)
  BY EffectFields DEF CancelMission, TheRecord, EffectOpen, TypeOK, Terminal
<1>3. SentOrNot' = IF policy # "mandatory_relock" /\ EffectOpen /\ SentOrNot = "pending"
                   THEN "cancelled" ELSE SentOrNot
  <2>1. CASE UNCHANGED dispatches /\ ~(policy # "mandatory_relock" /\ EffectOpen /\ dispatch.status = "pending")
    BY <2>1 DEF generation, dispatch, SentOrNot
  <2>2. CASE /\ policy # "mandatory_relock" /\ EffectOpen /\ dispatch.status = "pending"
             /\ SetDispatch("cancelled", 0)
    BY <2>2, CancelSets DEF SentOrNot
  <2>3. QED BY <2>1, <2>2 DEF CancelMission
<1>4. CASE policy = "mandatory_relock"
  BY <1>1, <1>2, <1>3, <1>4 DEF DeviceVars, Called, Withdrawn
<1>5. CASE policy # "mandatory_relock"
  <2>1. ~Withdrawn /\ Withdrawn'
    BY <1>1, <1>5 DEF Withdrawn
  <2>2. QED BY <1>1, <1>2, <1>3, <1>5, <2>1 DEF Device!Stop, TheRecord
<1>6. QED BY <1>4, <1>5

LEMMA DeviceStep ==
  ASSUME IInv, CalledInv, [Next]_vars
  PROVE  [Device!Next]_(Device!vars)
<1> USE DEF IInv
<1>1. (~ \E j \in jobs : Claim(j)) => Called' = Called
  BY AttemptsChange DEF Called
<1>2. ASSUME NEW j \in jobs, NotClaimed(j) PROVE UNCHANGED <<SentOrNot, TheRecord, Withdrawn>> /\ attempts' = attempts
  <2>1. ~(DuePending(j.generation) /\ Withdrawn)
    BY DEF DuePending, WithdrawInv
  <2>2. QED BY <1>2, <2>1 DEF NotClaimed, SentOrNot, generation, dispatch, TheRecord, EffectOpen, Withdrawn
<1>3. ASSUME NEW a \in 1 .. Len(attempts), CallTimeout(a) \/ WorkerCrash(a) \/ GatewayHandle(a)
      PROVE  UNCHANGED <<SentOrNot, TheRecord, Withdrawn>>
  <2>1. UNCHANGED <<policy, cancelled, effect, dispatches>>
    BY <1>3 DEF CallTimeout, WorkerCrash, GatewayHandle
  <2>2. QED BY <2>1 DEF SentOrNot, generation, dispatch, TheRecord, EffectOpen, Withdrawn
<1>4. ASSUME (\E j \in jobs : ReconcileStale(j)) \/ GatewayRestart \/ GateChange \/ UNCHANGED vars
      PROVE  UNCHANGED <<SentOrNot, TheRecord, Withdrawn>>
  <2>1. UNCHANGED <<policy, cancelled, effect, dispatches>>
    BY <1>4 DEF ReconcileStale, GatewayRestart, GateChange, vars, aggregate
  <2>2. QED BY <2>1 DEF SentOrNot, generation, dispatch, TheRecord, EffectOpen, Withdrawn
<1>5. \/ Device!Next \/ UNCHANGED DeviceVars
      \/ UNCHANGED <<SentOrNot, TheRecord, Withdrawn>> /\ ~ \E j \in jobs : Claim(j)
  <2>1. CASE \E j \in jobs : Claim(j)
    BY <2>1, ClaimIsSend DEF Device!Next
  <2>2. CASE ~ \E j \in jobs : Claim(j)
    BY <1>2, <1>3, <1>4, <2>2, FinalizeIsHidden, ReconcileIsRetry, CallbackIsRecord, CancelIsStop
       DEF Next, HandleJob, Device!Next
  <2>3. QED BY <2>1, <2>2
<1>6. UNCHANGED DeviceVars => UNCHANGED Device!vars
  BY DEF DeviceVars, Device!vars, Called, TheRecord
<1>7. QED BY <1>1, <1>5, <1>6 DEF DeviceVars

\* The record of a gateway command implements the effect the mission works with,
\* with all the redeliveries, polls, generations, callbacks and restarts behind it.
THEOREM GatewayImplementsDevice == Spec => ImplementsDevice
<1>1. IInv /\ CalledInv /\ [Next]_vars => [Device!Next]_(Device!vars)
  BY DeviceStep
<1>2. QED BY <1>1, DeviceInit, CalledAlways, PTL DEF ImplementsDevice, Device!Spec, Spec
=============================================================================
