-------------------------- MODULE ToolLedgerProofs --------------------------
(***************************************************************************)
(* Proofs about ToolLedger, for any set of callers and any number of       *)
(* disturbances.                                                           *)
(*                                                                         *)
(* A caller acts on a claim it may have lost.  What keeps that harmless is *)
(* that a generation belongs to one caller (Distinct), that a write is     *)
(* executed under generation 1 only and that no generation runs twice      *)
(* (CallerOK): a late caller finds the row's generation moved on.          *)
(***************************************************************************)
EXTENDS ToolLedger, FiniteSetTheorems, TLAPS

\* The caller has, or had, a claim.
Owning(c) == callers[c].pc \in {"executing", "resolving", "completing"}

CallerOK(c) ==
  /\ Owning(c) => callers[c].generation \in 1 .. row.generation
  /\ callers[c].pc = "executing" => /\ callers[c].generation \notin runs
                                    /\ class = "write" => callers[c].generation = 1
  /\ callers[c].pc = "resolving" => callers[c].generation > 1
  /\ callers[c].pc = "completing" =>
       /\ callers[c].result \in Result
       /\ callers[c].result.generation = callers[c].generation
       /\ callers[c].result \in HandlerResult => callers[c].generation \in runs
  /\ callers[c].pc = "replaying" => row.status = "completed" /\ callers[c].result = row.result

Distinct == \A c, d \in Caller : Owning(c) /\ Owning(d) /\ c # d =>
                                   callers[c].generation # callers[d].generation

RowOK ==
  /\ row.status = "absent" => row.generation = 0
  /\ row.status # "absent" => row.generation > 0
  /\ row.status = "completed" <=> row.result # NoResult
  /\ row.status = "completed" => /\ row.result.generation = row.generation
                                 /\ row.result \in HandlerResult => runs # {}
  /\ runs \subseteq 1 .. row.generation
  /\ class = "write" => runs \subseteq {1}
  /\ \A g \in evidence : g < row.generation

AnswerOK ==
  /\ receipt # NoResult => receipt = row.result
  /\ answers # {} => answers = {row.result} /\ receipt = row.result

IInv == TypeOK /\ (\A c \in Caller : CallerOK(c)) /\ Distinct /\ RowOK /\ AnswerOK

-----------------------------------------------------------------------------
\* What a caller becomes, and that no other changes.
LEMMA CallerSet ==
  ASSUME TypeOK, NEW c \in Caller, NEW pc, NEW g, NEW r, SetCaller(c, pc, g, r)
  PROVE  /\ callers'[c].pc = pc /\ callers'[c].generation = g /\ callers'[c].result = r
         /\ \A d \in Caller : d # c => callers'[d] = callers[d]
BY DEF SetCaller, TypeOK

LEMMA CallerTyped ==
  ASSUME TypeOK, NEW c \in Caller,
         NEW pc \in {"idle", "executing", "resolving", "completing", "replaying"},
         NEW g \in Nat, NEW r \in Result \cup {NoResult}, SetCaller(c, pc, g, r)
  PROVE  callers' \in [Caller -> CallerState]
<1>1. [pc |-> pc, generation |-> g, result |-> r] \in CallerState
  BY DEF CallerState
<1>2. QED BY <1>1 DEF SetCaller, TypeOK

LEMMA Fields ==
  ASSUME TypeOK
  PROVE  /\ row.status \in {"absent", "claimed", "completed"} /\ row.generation \in Nat
         /\ row.disposition \in {"execute", "resolve_unknown"} /\ row.expired \in BOOLEAN
         /\ row.result \in Result \cup {NoResult}
         /\ \A c \in Caller :
              /\ callers[c].pc \in {"idle", "executing", "resolving", "completing", "replaying"}
              /\ callers[c].generation \in Nat
              /\ callers[c].result \in Result \cup {NoResult}
BY DEF TypeOK, Row, CallerState

LEMMA NoResultIsNone ==
  NoResult \notin Result /\ \A r \in Result : r.generation \in Nat \ {0}
BY DEF NoResult, Result

\* A result a handler has just produced.
LEMMA NewResult ==
  ASSUME NEW s \in {"succeeded", "pending", "refused", "unknown"}, NEW g \in Nat \ {0}
  PROVE  /\ [status |-> s, generation |-> g] \in Result
         /\ [status |-> s, generation |-> g].generation = g
         /\ s \in {"refused", "unknown"} => [status |-> s, generation |-> g] \notin HandlerResult
BY DEF Result, HandlerResult

LEMMA RowSet ==
  ASSUME TypeOK, NEW g \in Nat, NEW d \in {"execute", "resolve_unknown"}
  PROVE  /\ Claimed(g, d) \in Row /\ Claimed(g, d).status = "claimed"
         /\ Claimed(g, d).generation = g /\ Claimed(g, d).result = NoResult
BY DEF Claimed, Row

-----------------------------------------------------------------------------
LEMMA InitOK == Init => IInv
<1> SUFFICES ASSUME Init PROVE IInv
  OBVIOUS
<1>1. TypeOK
  BY BoundAssumption DEF Init, TypeOK, Row, CallerState, Idle, NoResult, Result
<1>2. \A c \in Caller : callers[c].pc = "idle"
  BY DEF Init, Idle
<1>3. row.status = "absent" /\ row.generation = 0 /\ row.result = NoResult
  BY DEF Init
<1>4. QED BY <1>1, <1>2, <1>3 DEF Init, IInv, CallerOK, Owning, Distinct, RowOK, AnswerOK

\* A caller with a claim that is not ended: its generation is its own.
LEMMA ClaimFirstOK == ASSUME IInv, NEW c \in Caller, ClaimFirst(c) PROVE IInv'
<1> USE DEF IInv
<1>1. /\ row' = Claimed(1, "execute") /\ row.status = "absent" /\ row.generation = 0
      /\ SetCaller(c, "executing", 1, NoResult)
      /\ UNCHANGED <<class, evidence, receipt, runs, answers, disturbances>>
  BY DEF ClaimFirst, RowOK
<1>2. row'.status = "claimed" /\ row'.generation = 1 /\ row'.result = NoResult /\ row' \in Row
  BY <1>1, RowSet
<1>3. TypeOK'
  BY <1>1, <1>2, CallerTyped DEF TypeOK
<1>4. \A d \in Caller : ~Owning(d) /\ callers[d].pc # "replaying"
  BY <1>1, Fields DEF CallerOK
<1>5. runs = {} /\ row.result = NoResult
  BY <1>1 DEF RowOK
<1>6. \A d \in Caller : CallerOK(d)'
  BY <1>1, <1>2, <1>4, <1>5, CallerSet DEF CallerOK, Owning
<1>7. Distinct'
  BY <1>1, <1>4, CallerSet DEF Distinct, Owning
<1>8. evidence = {}
  BY <1>1 DEF RowOK, TypeOK
<1>9. RowOK' /\ AnswerOK'
  BY <1>1, <1>2, <1>5, <1>8 DEF RowOK, AnswerOK
<1>10. QED BY <1>3, <1>6, <1>7, <1>9

LEMMA ReclaimOK == ASSUME IInv, NEW c \in Caller, Reclaim(c) PROVE IInv'
<1> USE DEF IInv
<1> DEFINE g == row.generation + 1
<1>0. PICK d : d = TakeoverDisposition
  OBVIOUS
<1>1. /\ row' = Claimed(g, d) /\ row.status = "claimed"
      /\ d \in {"execute", "resolve_unknown"} /\ (class = "write" => d = "resolve_unknown")
      /\ SetCaller(c, IF d = "execute" THEN "executing" ELSE "resolving", g, NoResult)
      /\ UNCHANGED <<class, evidence, receipt, runs, answers, disturbances>>
  BY <1>0 DEF Reclaim, Takeable, TakeoverDisposition
<1>2. g \in Nat /\ g > 1 /\ g > row.generation /\ row.generation \in Nat
  BY <1>1, Fields DEF RowOK
<1> HIDE DEF g
<1>3. row'.status = "claimed" /\ row'.generation = g /\ row'.result = NoResult /\ row' \in Row
  BY <1>1, <1>2, RowSet
<1>4. TypeOK'
  BY <1>1, <1>2, <1>3, CallerTyped DEF TypeOK
<1>5. row.result = NoResult /\ g \notin runs
  BY <1>1, <1>2 DEF RowOK
<1>6. \A e \in Caller : CallerOK(e)'
  <2> SUFFICES ASSUME NEW e \in Caller PROVE CallerOK(e)'
    OBVIOUS
  <2>1. CASE e = c
    BY <2>1, <1>1, <1>2, <1>3, <1>5, CallerSet DEF CallerOK, Owning
  <2>2. CASE e # c
    <3>1. callers'[e] = callers[e]
      BY <2>2, <1>1, CallerSet
    <3>2. QED BY <3>1, <1>1, <1>2, <1>3, Fields DEF CallerOK, Owning
  <2>3. QED BY <2>1, <2>2
<1>7. Distinct'
  <2>1. \A e \in Caller : Owning(e) => callers[e].generation # g
    BY <1>2, Fields DEF CallerOK
  <2>2. QED BY <2>1, <1>1, CallerSet DEF Distinct, Owning
<1>8. RowOK'
  BY <1>1, <1>2, <1>3 DEF RowOK, TypeOK
<1>9. AnswerOK'
  BY <1>1, <1>3, <1>5, NoResultIsNone DEF AnswerOK, TypeOK
<1>10. QED BY <1>4, <1>6, <1>7, <1>8, <1>9

\* A caller that ends its invocation, whatever the reason.
LEMMA StopOK ==
  ASSUME IInv, NEW c \in Caller, SetCaller(c, "idle", 0, NoResult),
         UNCHANGED <<class, row, evidence, receipt, runs, answers>>,
         disturbances' \in 0 .. MaxDisturbances
  PROVE  IInv'
<1> USE DEF IInv
<1>1. TypeOK'
  BY CallerTyped DEF TypeOK
<1>2. callers'[c].pc = "idle" /\ \A d \in Caller : d # c => callers'[d] = callers[d]
  BY CallerSet
<1>3. \A d \in Caller : CallerOK(d)'
  BY <1>2 DEF CallerOK, Owning
<1>4. Distinct'
  BY <1>2 DEF Distinct, Owning
<1>5. QED BY <1>1, <1>3, <1>4 DEF RowOK, AnswerOK

\* A caller that goes on to replay the completed row.
LEMMA ReplayOK ==
  ASSUME IInv, NEW c \in Caller, row.status = "completed",
         SetCaller(c, "replaying", row.generation, row.result),
         UNCHANGED <<class, row, evidence, receipt, runs, answers, disturbances>>
  PROVE  IInv'
<1> USE DEF IInv
<1>1. TypeOK'
  BY CallerTyped, Fields DEF TypeOK
<1>2. /\ callers'[c].pc = "replaying" /\ callers'[c].result = row.result
      /\ \A d \in Caller : d # c => callers'[d] = callers[d]
  BY CallerSet
<1>3. \A d \in Caller : CallerOK(d)'
  BY <1>2 DEF CallerOK, Owning
<1>4. Distinct'
  BY <1>2 DEF Distinct, Owning
<1>5. QED BY <1>1, <1>3, <1>4 DEF RowOK, AnswerOK

LEMMA RefuseOK == ASSUME IInv, NEW c \in Caller, Refuse(c) PROVE IInv'
<1> USE DEF IInv
<1> DEFINE g == callers[c].generation
           r == [status |-> "refused", generation |-> g]
<1>1. /\ SetCaller(c, "completing", g, r) /\ Owning(c)
      /\ UNCHANGED <<class, row, evidence, receipt, runs, answers, disturbances>>
  BY DEF Refuse, Owning, database
<1>2. g \in Nat \ {0} /\ g \in 1 .. row.generation
  BY <1>1, Fields DEF CallerOK
<1>3. r \in Result /\ r.generation = g /\ r \notin HandlerResult
  BY <1>2, NewResult
<1> HIDE DEF r
<1>4. TypeOK'
  BY <1>1, <1>2, <1>3, CallerTyped DEF TypeOK
<1>5. /\ callers'[c].pc = "completing" /\ callers'[c].generation = g /\ callers'[c].result = r
      /\ \A d \in Caller : d # c => callers'[d] = callers[d]
  BY <1>1, CallerSet
<1>6. \A d \in Caller : CallerOK(d)'
  BY <1>1, <1>2, <1>3, <1>5 DEF CallerOK, Owning
<1>7. Distinct'
  BY <1>1, <1>5 DEF Distinct, Owning
<1>8. QED BY <1>1, <1>4, <1>6, <1>7 DEF RowOK, AnswerOK

LEMMA ExecuteOK == ASSUME IInv, NEW c \in Caller, Execute(c) PROVE IInv'
<1> USE DEF IInv
<1> DEFINE g == callers[c].generation
<1>1. PICK s \in {"succeeded", "pending", "refused", "unknown"} :
        /\ SetCaller(c, "completing", g, [status |-> s, generation |-> g])
        /\ callers[c].pc = "executing" /\ runs' = runs \cup {g}
        /\ UNCHANGED <<class, row, evidence, receipt, answers, disturbances>>
  BY DEF Execute, database
<1>2. PICK r : r = [status |-> s, generation |-> g]
  OBVIOUS
<1>3. /\ g \in Nat \ {0} /\ g \in 1 .. row.generation /\ Owning(c)
      /\ class = "write" => g = 1
  BY <1>1, Fields DEF CallerOK, Owning
<1>4. r \in Result /\ r.generation = g
  BY <1>2, <1>3, NewResult
<1>5. TypeOK'
  BY <1>1, <1>2, <1>3, <1>4, CallerTyped DEF TypeOK
<1>6. /\ callers'[c].pc = "completing" /\ callers'[c].generation = g /\ callers'[c].result = r
      /\ \A d \in Caller : d # c => callers'[d] = callers[d]
  BY <1>1, <1>2, CallerSet
<1>7. \A d \in Caller : CallerOK(d)'
  <2> SUFFICES ASSUME NEW d \in Caller PROVE CallerOK(d)'
    OBVIOUS
  <2>1. CASE d = c
    BY <2>1, <1>1, <1>3, <1>4, <1>6 DEF CallerOK, Owning
  <2>2. CASE d # c
    <3>1. Owning(d) => callers[d].generation # g
      BY <2>2, <1>3 DEF Distinct
    <3>2. callers'[d] = callers[d]
      BY <2>2, <1>6
    <3>3. QED BY <3>1, <3>2, <1>1 DEF CallerOK, Owning
  <2>3. QED BY <2>1, <2>2
<1>8. Distinct'
  BY <1>3, <1>6 DEF Distinct, Owning
<1>9. RowOK'
  BY <1>1, <1>3 DEF RowOK
<1>10. QED BY <1>1, <1>5, <1>7, <1>8, <1>9 DEF AnswerOK

LEMMA EvidenceOK == ASSUME IInv, NEW c \in Caller, RecordEvidence(c) PROVE IInv'
<1> USE DEF IInv
<1> DEFINE g == callers[c].generation
           r == [status |-> "unknown", generation |-> g]
<1>1. /\ SetCaller(c, "completing", g, r) /\ callers[c].pc = "resolving"
      /\ evidence' = evidence \cup {g - 1}
      /\ UNCHANGED <<class, row, receipt, runs, answers, disturbances>>
  BY DEF RecordEvidence, AbandonedGeneration
<1>2. Owning(c) /\ g \in Nat /\ g > 1 /\ g \in 1 .. row.generation /\ row.generation \in Nat
  BY <1>1, Fields DEF CallerOK, Owning
<1>3. r \in Result /\ r.generation = g /\ r \notin HandlerResult
  BY <1>2, NewResult
<1> HIDE DEF r
<1>4. TypeOK'
  <2>1. g - 1 \in Nat \ {0}
    BY <1>2
  <2>2. callers' \in [Caller -> CallerState]
    BY <1>1, <1>2, <1>3, CallerTyped
  <2>3. QED BY <2>1, <2>2, <1>1 DEF TypeOK
<1>5. /\ callers'[c].pc = "completing" /\ callers'[c].generation = g /\ callers'[c].result = r
      /\ \A d \in Caller : d # c => callers'[d] = callers[d]
  BY <1>1, CallerSet
<1>6. \A d \in Caller : CallerOK(d)'
  BY <1>1, <1>2, <1>3, <1>5 DEF CallerOK, Owning
<1>7. Distinct'
  BY <1>2, <1>5 DEF Distinct, Owning
<1>8. RowOK'
  BY <1>1, <1>2 DEF RowOK
<1>9. QED BY <1>1, <1>4, <1>6, <1>7, <1>8 DEF AnswerOK

\* The completion that is accepted.
LEMMA CompletedOK ==
  ASSUME IInv, NEW c \in Caller, callers[c].pc = "completing", Owns(c),
         row' = [row EXCEPT !.status = "completed", !.result = callers[c].result],
         SetCaller(c, "replaying", callers[c].generation, callers[c].result),
         UNCHANGED <<class, evidence, receipt, runs, answers, disturbances>>
  PROVE  IInv'
<1> USE DEF IInv
<1> DEFINE g == callers[c].generation
           r == callers[c].result
<1>1. /\ row.status = "claimed" /\ row.generation = g /\ row.result = NoResult
      /\ r \in Result /\ r.generation = g /\ (r \in HandlerResult => g \in runs) /\ g \in Nat
  BY Fields DEF Owns, CallerOK, RowOK
<1>2. /\ row'.status = "completed" /\ row'.generation = g /\ row'.result = r /\ row' \in Row
  BY <1>1 DEF TypeOK, Row
<1>3. TypeOK'
  BY <1>1, <1>2, CallerTyped DEF TypeOK
<1>4. /\ callers'[c].pc = "replaying" /\ callers'[c].result = r
      /\ \A d \in Caller : d # c => callers'[d] = callers[d]
  BY CallerSet
<1> HIDE DEF g, r
<1>5. \A d \in Caller : CallerOK(d)'
  BY <1>1, <1>2, <1>4 DEF CallerOK, Owning
<1>6. Distinct'
  BY <1>4 DEF Distinct, Owning
<1>7. receipt = NoResult /\ answers = {}
  BY <1>1, NoResultIsNone DEF AnswerOK, TypeOK
<1>8. RowOK'
  BY <1>1, <1>2, NoResultIsNone DEF RowOK
<1>9. QED BY <1>3, <1>5, <1>6, <1>7, <1>8 DEF AnswerOK

LEMMA CompleteOK == ASSUME IInv, NEW c \in Caller, Complete(c) PROVE IInv'
<1>1. CASE Owns(c) /\ Resolvable(c)
  BY <1>1, CompletedOK DEF Complete
<1>2. CASE ~(Owns(c) /\ Resolvable(c))
  <2>1. disturbances' \in 0 .. MaxDisturbances
    BY DEF Complete, IInv, TypeOK
  <2>2. QED BY <1>2, <2>1, StopOK DEF Complete
<1>3. QED BY <1>1, <1>2

LEMMA ReceiptOK == ASSUME IInv, NEW c \in Caller, AppendReceipt(c) PROVE IInv'
<1> USE DEF IInv
<1>1. callers[c].result = row.result /\ row.status = "completed" /\ row.result \in Result
  BY Fields DEF AppendReceipt, CallerOK, RowOK
<1>2. receipt' = row.result
  BY <1>1 DEF AppendReceipt, AnswerOK
<1>3. answers' = {row.result}
  BY <1>1 DEF AppendReceipt, AnswerOK
<1>4. SetCaller(c, "idle", 0, NoResult) /\ UNCHANGED <<class, row, evidence, runs, disturbances>>
  BY DEF AppendReceipt
<1>5. TypeOK'
  BY <1>1, <1>2, <1>3, <1>4, CallerTyped DEF TypeOK
<1>6. callers'[c].pc = "idle" /\ \A d \in Caller : d # c => callers'[d] = callers[d]
  BY <1>4, CallerSet
<1>7. \A d \in Caller : CallerOK(d)'
  BY <1>4, <1>6 DEF CallerOK, Owning
<1>8. Distinct'
  BY <1>6 DEF Distinct, Owning
<1>9. RowOK'
  BY <1>4 DEF RowOK
<1>10. QED BY <1>2, <1>3, <1>4, <1>5, <1>7, <1>8, <1>9 DEF AnswerOK

LEMMA ExpireOK == ASSUME IInv, Expire PROVE IInv'
<1> USE DEF IInv
<1>1. /\ row'.status = row.status /\ row'.generation = row.generation /\ row'.result = row.result
      /\ row' \in Row
      /\ UNCHANGED <<class, evidence, receipt, callers, runs, answers>>
  BY DEF Expire, TypeOK, Row
<1>2. disturbances' \in 0 .. MaxDisturbances
  BY BoundAssumption DEF Expire, Disturb, TypeOK
<1>3. TypeOK'
  BY <1>1, <1>2 DEF TypeOK
<1>4. QED BY <1>1, <1>3 DEF CallerOK, Owning, Distinct, RowOK, AnswerOK

LEMMA StepOK == IInv /\ [Next]_vars => IInv'
<1> SUFFICES ASSUME IInv, [Next]_vars PROVE IInv'
  OBVIOUS
<1>1. ASSUME NEW c \in Caller, FindCompleted(c) PROVE IInv'
  BY <1>1, ReplayOK DEF FindCompleted, database
<1>2. ASSUME NEW c \in Caller, Die(c) PROVE IInv'
  <2>1. disturbances' \in 0 .. MaxDisturbances
    BY <1>2, BoundAssumption DEF Die, Disturb, IInv, TypeOK
  <2>2. QED BY <1>2, <2>1, StopOK DEF Die, database
<1>3. CASE UNCHANGED vars
  BY <1>3 DEF vars, database, IInv, TypeOK, CallerOK, Owning, Distinct, RowOK, AnswerOK
<1>4. QED BY <1>1, <1>2, <1>3, ClaimFirstOK, ReclaimOK, RefuseOK, ExecuteOK, EvidenceOK,
             CompleteOK, ReceiptOK, ExpireOK DEF Next, Claim, Proceed

LEMMA IInvAlways == Spec => []IInv
BY InitOK, StepOK, PTL DEF Spec

-----------------------------------------------------------------------------
\* The ledger's rows, callers and receipts are always of their types.
THEOREM TypeCorrect == Spec => []TypeOK
<1>1. IInv => TypeOK
  BY DEF IInv
<1>2. QED BY <1>1, IInvAlways, PTL

\* Whoever is answered is answered with the stored result, and its receipt is there.
THEOREM AnswersAlwaysAgree == Spec => []AnswersAgree
<1>1. IInv => AnswersAgree
  BY DEF IInv, AnswerOK, AnswersAgree
<1>2. QED BY <1>1, IInvAlways, PTL

\* A generation on record as abandoned never completes.
THEOREM EvidenceStaysTrue == Spec => []EvidenceIsTrue
<1>1. ASSUME IInv PROVE EvidenceIsTrue
  <2> SUFFICES ASSUME NEW g \in evidence PROVE g < row.generation /\ row.result.generation # g
    BY DEF EvidenceIsTrue
  <2>1. g < row.generation /\ g \in Nat \ {0} /\ row.generation \in Nat
    BY <1>1, Fields DEF IInv, RowOK, TypeOK
  <2>2. CASE row.status = "completed"
    BY <1>1, <2>1, <2>2 DEF IInv, RowOK
  <2>3. CASE row.status # "completed"
    BY <1>1, <2>1, <2>3 DEF IInv, RowOK, NoResult
  <2>4. QED BY <2>1, <2>2, <2>3
<1>2. QED BY <1>1, IInvAlways, PTL

-----------------------------------------------------------------------------
\* The refinement.

LEMMA RunsFinite == ASSUME IInv PROVE IsFiniteSet(runs)
<1>1. row.generation \in Nat /\ runs \subseteq 1 .. row.generation
  BY Fields DEF IInv, RowOK
<1>2. IsFiniteSet(1 .. row.generation)
  BY <1>1, FS_Interval
<1>3. QED BY <1>1, <1>2, FS_Subset

LEMMA CallInit == Init => Call!Init
<1> SUFFICES ASSUME Init PROVE Call!Init
  OBVIOUS
<1>1. Cardinality(runs) = 0
  BY FS_EmptySet DEF Init
<1>2. QED BY <1>1 DEF Init, Call!Init

LEMMA ExecuteIsRun == ASSUME IInv, NEW c \in Caller, Execute(c) PROVE Call!Run
<1> DEFINE g == callers[c].generation
<1>1. /\ callers[c].pc = "executing" /\ runs' = runs \cup {g}
      /\ UNCHANGED <<class, row, answers>>
  BY DEF Execute, database
<1>2. g \notin runs /\ (class = "write" => runs = {}) /\ class \in {"read", "write"}
  BY <1>1 DEF IInv, CallerOK, RowOK, TypeOK
<1>3. Cardinality(runs') = Cardinality(runs) + 1
  BY <1>1, <1>2, RunsFinite, FS_AddElement
<1>4. class = "read" \/ Cardinality(runs) = 0
  BY <1>2, FS_EmptySet
<1>5. QED BY <1>1, <1>3, <1>4 DEF Call!Run

LEMMA CompleteIsRecord ==
  ASSUME IInv, NEW c \in Caller, Complete(c)
  PROVE  Call!Record \/ UNCHANGED <<class, runs, row, answers>>
<1>1. CASE Owns(c) /\ Resolvable(c)
  <2> DEFINE r == callers[c].result
  <2>1. /\ row.result = NoResult /\ r \in Result /\ row'.result = r
        /\ r \in HandlerResult => runs # {}
        /\ UNCHANGED <<class, runs, answers>>
    BY <1>1, Fields DEF Complete, Owns, IInv, CallerOK, RowOK, TypeOK, Row
  <2>2. r \in HandlerResult => Cardinality(runs) > 0
    <3>1. Cardinality(runs) \in Nat /\ (Cardinality(runs) = 0 <=> runs = {})
      BY RunsFinite, FS_CardinalityType, FS_EmptySet
    <3>2. QED BY <2>1, <3>1
  <2>3. QED BY <2>1, <2>2 DEF Call!Record
<1>2. CASE ~(Owns(c) /\ Resolvable(c))
  BY <1>2 DEF Complete
<1>3. QED BY <1>1, <1>2

LEMMA ReceiptIsAnswer == ASSUME IInv, NEW c \in Caller, AppendReceipt(c) PROVE Call!Answer
<1>1. /\ callers[c].result = row.result /\ row.result # NoResult
      /\ UNCHANGED <<class, runs, row>>
  BY DEF AppendReceipt, IInv, CallerOK, RowOK
<1>2. answers' = answers \cup {row.result}
  BY <1>1 DEF AppendReceipt, IInv, AnswerOK
<1>3. QED BY <1>1, <1>2 DEF Call!Answer

LEMMA CallStep == IInv /\ [Next]_vars => [Call!Next]_(Call!vars)
<1> SUFFICES ASSUME IInv, [Next]_vars PROVE Call!Next \/ UNCHANGED Call!vars
  OBVIOUS
<1> DEFINE same == UNCHANGED <<class, runs, answers>> /\ row'.result = row.result
<1>1. same => UNCHANGED Call!vars
  BY DEF Call!vars
<1>2. ASSUME NEW c \in Caller, ClaimFirst(c) \/ Reclaim(c) PROVE same
  <2>1. row.result = NoResult
    BY <1>2 DEF ClaimFirst, Reclaim, Takeable, IInv, RowOK
  <2>2. row'.result = NoResult
    BY <1>2 DEF ClaimFirst, Reclaim, Claimed
  <2>3. QED BY <1>2, <2>1, <2>2 DEF ClaimFirst, Reclaim
<1>3. ASSUME NEW c \in Caller, FindCompleted(c) \/ Refuse(c) \/ RecordEvidence(c) \/ Die(c)
      PROVE  same
  BY <1>3 DEF FindCompleted, Refuse, RecordEvidence, Die, database
<1>4. ASSUME Expire PROVE same
  BY <1>4 DEF Expire, IInv, TypeOK, Row
<1>5. ASSUME UNCHANGED vars PROVE same
  BY <1>5 DEF vars, database
<1>6. ASSUME NEW c \in Caller, Complete(c) PROVE Call!Next \/ same
  BY <1>6, CompleteIsRecord DEF Call!Next
<1>7. QED BY <1>1, <1>2, <1>3, <1>4, <1>5, <1>6, ExecuteIsRun, ReceiptIsAnswer
          DEF Next, Claim, Proceed, Call!Next

\* The ledger implements the call: a write runs at most once, whatever dies or
\* is taken over, and one outcome is recorded and told.
THEOREM LedgerImplementsCall == Spec => ImplementsToolCall
<1>1. QED BY CallInit, CallStep, IInvAlways, PTL DEF ImplementsToolCall, Call!Spec, Spec

-----------------------------------------------------------------------------
\* The owner of a claim on a write that was taken over has only to resolve it,
\* and has its evidence when it is about to.
OwnerInv ==
  \A c \in Caller : Owning(c) /\ Owns(c) /\ row.disposition = "resolve_unknown" =>
    /\ callers[c].pc # "executing"
    /\ callers[c].pc = "completing" => /\ callers[c].result.status = "unknown"
                                       /\ AbandonedGeneration(c) \in evidence

\* A step of one caller that leaves the row as it is, and withdraws no evidence.
LEMMA OwnerMoves ==
  ASSUME IInv, OwnerInv, NEW c \in Caller, NEW pc, NEW g, NEW r, SetCaller(c, pc, g, r),
         UNCHANGED row, evidence \subseteq evidence',
         \/ pc \in {"idle", "replaying"}
         \/ /\ pc = "completing" /\ g = callers[c].generation /\ callers[c].pc = "executing"
         \/ /\ pc = "completing" /\ g = callers[c].generation
            /\ r.status = "unknown" /\ g - 1 \in evidence'
  PROVE  OwnerInv'
<1>1. /\ callers'[c].pc = pc /\ callers'[c].generation = g /\ callers'[c].result = r
      /\ \A d \in Caller : d # c => callers'[d] = callers[d]
  BY CallerSet DEF IInv
<1>2. SUFFICES ASSUME NEW d \in Caller, (Owning(d) /\ Owns(d))', row.disposition = "resolve_unknown"
               PROVE  /\ callers'[d].pc # "executing"
                      /\ callers'[d].pc = "completing" =>
                           /\ callers'[d].result.status = "unknown"
                           /\ callers'[d].generation - 1 \in evidence'
  BY DEF OwnerInv, AbandonedGeneration
<1>3. CASE d # c
  <2>1. Owning(d) /\ Owns(d)
    BY <1>1, <1>2, <1>3 DEF Owning, Owns
  <2>2. QED BY <1>1, <1>2, <1>3, <2>1 DEF OwnerInv, AbandonedGeneration
<1>4. CASE d = c
  <2>1. pc = "completing" /\ g = callers[c].generation
    BY <1>1, <1>2, <1>4 DEF Owning
  <2>2. ~(callers[c].pc = "executing")
    BY <1>1, <1>2, <1>4, <2>1 DEF OwnerInv, Owning, Owns
  <2>3. QED BY <1>1, <1>4, <2>1, <2>2
<1>5. QED BY <1>3, <1>4

\* A row that no one owns now, or that is to be executed, asks nothing of anyone.
LEMMA OwnerFree ==
  ASSUME \A d \in Caller : (Owning(d) /\ Owns(d))' =>
           row'.disposition = "execute" \/ callers'[d].pc = "resolving"
  PROVE  OwnerInv'
BY DEF OwnerInv

LEMMA OwnerStep == IInv /\ OwnerInv /\ [Next]_vars => OwnerInv'
<1> SUFFICES ASSUME IInv, OwnerInv, [Next]_vars PROVE OwnerInv'
  OBVIOUS
<1>1. ASSUME NEW c \in Caller, ClaimFirst(c) PROVE OwnerInv'
  <2>1. row'.disposition = "execute"
    BY <1>1 DEF ClaimFirst, Claimed
  <2>2. QED BY <2>1, OwnerFree
<1>2. ASSUME NEW c \in Caller, Reclaim(c) PROVE OwnerInv'
  <2>1. PICK d : d = TakeoverDisposition
    OBVIOUS
  <2>2. /\ row'.generation = row.generation + 1 /\ row'.disposition = d
        /\ SetCaller(c, IF d = "execute" THEN "executing" ELSE "resolving", row.generation + 1,
                     NoResult)
        /\ d \in {"execute", "resolve_unknown"}
    BY <1>2, <2>1 DEF Reclaim, Claimed, TakeoverDisposition
  <2>3. \A e \in Caller : Owning(e) => callers[e].generation < row.generation + 1
    BY Fields DEF IInv, CallerOK
  <2>4. \A e \in Caller : (Owning(e) /\ Owns(e))' => e = c
    <3>1. \A e \in Caller : e # c => callers'[e] = callers[e]
      BY <2>2, CallerSet DEF IInv
    <3>2. \A e \in Caller : e # c /\ Owning(e)' => callers'[e].generation # row'.generation
      BY <2>2, <2>3, <3>1, Fields DEF Owning, IInv
    <3>3. QED BY <3>2 DEF Owns
  <2>5. d = "resolve_unknown" => callers'[c].pc = "resolving"
    BY <2>2, CallerSet DEF IInv
  <2>6. QED BY <2>2, <2>4, <2>5, OwnerFree
<1>3. ASSUME NEW c \in Caller, Refuse(c) \/ Execute(c) PROVE OwnerInv'
  <2>1. PICK r : SetCaller(c, "completing", callers[c].generation, r)
    BY <1>3 DEF Refuse, Execute
  <2>2. callers[c].pc = "executing" /\ UNCHANGED <<row, evidence>>
    BY <1>3 DEF Refuse, Execute, database
  <2>3. QED BY <2>1, <2>2, OwnerMoves
<1>4. ASSUME NEW c \in Caller, RecordEvidence(c) PROVE OwnerInv'
  <2>1. PICK r : /\ r = [status |-> "unknown", generation |-> callers[c].generation]
                 /\ SetCaller(c, "completing", callers[c].generation, r)
    BY <1>4 DEF RecordEvidence
  <2>2. UNCHANGED row /\ evidence' = evidence \cup {callers[c].generation - 1} /\ r.status = "unknown"
    BY <1>4, <2>1 DEF RecordEvidence, AbandonedGeneration
  <2>3. QED BY <2>1, <2>2, OwnerMoves
<1>5. ASSUME NEW c \in Caller, Complete(c) PROVE OwnerInv'
  <2>1. CASE Owns(c) /\ Resolvable(c)
    <3>1. row'.status = "completed"
      BY <1>5, <2>1 DEF Complete, IInv, TypeOK, Row
    <3>2. QED BY <3>1, OwnerFree DEF Owns
  <2>2. CASE ~(Owns(c) /\ Resolvable(c))
    BY <1>5, <2>2, OwnerMoves DEF Complete
  <2>3. QED BY <2>1, <2>2
<1>6. ASSUME NEW c \in Caller, FindCompleted(c) \/ AppendReceipt(c) \/ Die(c) PROVE OwnerInv'
  <2>1. PICK pc, g, r : pc \in {"idle", "replaying"} /\ SetCaller(c, pc, g, r)
    BY <1>6 DEF FindCompleted, AppendReceipt, Die
  <2>2. UNCHANGED <<row, evidence>>
    BY <1>6 DEF FindCompleted, AppendReceipt, Die, database
  <2>3. QED BY <2>1, <2>2, OwnerMoves
<1>7. CASE Expire
  <2>1. /\ row'.status = row.status /\ row'.generation = row.generation
        /\ row'.disposition = row.disposition /\ UNCHANGED <<callers, evidence>>
    BY <1>7 DEF Expire, IInv, TypeOK, Row
  <2>2. QED BY <2>1 DEF OwnerInv, Owning, Owns, AbandonedGeneration
<1>8. CASE UNCHANGED vars
  BY <1>8 DEF vars, database, OwnerInv, Owning, Owns, AbandonedGeneration
<1>9. QED BY <1>1, <1>2, <1>3, <1>4, <1>5, <1>6, <1>7, <1>8 DEF Next, Claim, Proceed

\* However often a call is taken over, who still has its claim completes it, and
\* who replays it is answered: no evidence is missing and no receipt in the way.
THEOREM OwnersAreHeard == Spec => []OwnerIsHeard
<1>1. Init => OwnerInv
  BY DEF Init, Idle, OwnerInv, Owning
<1>2. IInv /\ OwnerInv => OwnerIsHeard
  <2>1. SUFFICES ASSUME IInv, OwnerInv, NEW c \in Caller
                 PROVE  /\ callers[c].pc = "completing" /\ Owns(c) => Resolvable(c)
                        /\ callers[c].pc = "replaying" => receipt \in {NoResult, callers[c].result}
    BY DEF OwnerIsHeard
  <2>2. ASSUME callers[c].pc = "completing", Owns(c) PROVE Resolvable(c)
    <3>1. AbandonedGeneration(c) = row.generation - 1
      BY <2>2 DEF Owns, AbandonedGeneration
    <3>2. QED BY <2>1, <2>2, <3>1 DEF OwnerInv, Owning, Resolvable
  <2>3. ASSUME callers[c].pc = "replaying" PROVE receipt \in {NoResult, callers[c].result}
    BY <2>1, <2>3 DEF IInv, CallerOK, AnswerOK
  <2>4. QED BY <2>2, <2>3
<1>3. QED BY <1>1, <1>2, InitOK, StepOK, OwnerStep, PTL DEF Spec
=============================================================================
