----------------------------- MODULE ToolLedger -----------------------------
(***************************************************************************)
(* One tool call, invoked again and again under the same call id by        *)
(* several callers (a job that is delivered again, a client that retries): *)
(* the invocation row that fences them by generation, the reconciliation   *)
(* evidence, the receipt, and what the callers are told.                   *)
(*                                                                         *)
(* An invocation is claim, handler (or evidence), completion and receipt:  *)
(* four transactions, between which its caller can die and its claim can   *)
(* expire.  Nothing stops a caller whose claim was taken over; it goes on  *)
(* and finds out when it completes.                                        *)
(***************************************************************************)
EXTENDS Naturals, FiniteSets

CONSTANTS Caller,          \* invocations that may be under way at once
          MaxDisturbances  \* bound: deaths, failures and expiries of a live owner's claim

ASSUME CallerAssumption == IsFiniteSet(Caller)
ASSUME BoundAssumption == MaxDisturbances \in Nat

VARIABLES
  class,        \* read or write: every class but `read' is a write to the ledger
  row,          \* the invocation: [status, generation, disposition, expired, result]
  callers,      \* by caller: [pc, generation, result]
  evidence,     \* generations on record as abandoned with no known outcome
  receipt,      \* the result of the receipt appended for the call
  runs,         \* the generations whose handler ran
  answers,      \* results callers were told, `call in progress' aside
  disturbances

database == <<row, evidence, receipt>>
vars == <<class, database, callers, runs, answers, disturbances>>

\* A result is known by its status and by the generation that produced it.
\* Refused stands for denied, failed and conflict: these a caller can also be
\* told without the handler having run.
Result == [status : {"succeeded", "pending", "refused", "unknown"}, generation : Nat \ {0}]
HandlerResult == [status : {"succeeded", "pending"}, generation : Nat \ {0}]
NoResult == [status |-> "none", generation |-> 0]

Row == [status : {"absent", "claimed", "completed"}, generation : Nat,
        disposition : {"execute", "resolve_unknown"}, expired : BOOLEAN,
        result : Result \cup {NoResult}]

\* executing: has the claim; completing: has a result; replaying: about to
\* append the receipt of a completed invocation and to answer.
CallerState == [pc : {"idle", "executing", "resolving", "completing", "replaying"},
                generation : Nat, result : Result \cup {NoResult}]

Idle == [pc |-> "idle", generation |-> 0, result |-> NoResult]

Init == /\ class \in {"read", "write"}
        /\ row = [status |-> "absent", generation |-> 0, disposition |-> "execute",
                  expired |-> FALSE, result |-> NoResult]
        /\ callers = [c \in Caller |-> Idle]
        /\ evidence = {}
        /\ receipt = NoResult
        /\ runs = {}
        /\ answers = {}
        /\ disturbances = 0

-----------------------------------------------------------------------------
\* The claim.

SetCaller(c, pc, g, r) ==
  callers' = [callers EXCEPT ![c] = [pc |-> pc, generation |-> g, result |-> r]]

Claimed(g, d) == [status |-> "claimed", generation |-> g, disposition |-> d,
                  expired |-> FALSE, result |-> NoResult]

ClaimFirst(c) ==
  /\ callers[c].pc = "idle"
  /\ row.status = "absent"
  /\ row' = Claimed(1, "execute")
  /\ SetCaller(c, "executing", 1, NoResult)
  /\ UNCHANGED <<class, evidence, receipt, runs, answers, disturbances>>

\* Mutant: an expired claim on a write is executed again.
AlwaysExecute == "execute"

\* What may be done with a claim that expired.
TakeoverDisposition == IF class = "read" THEN "execute" ELSE "resolve_unknown"

\* Mutant: the claim of a caller that was resolving is not taken over in turn.
TakeableOnce == row.status = "claimed" /\ row.expired /\ row.disposition = "execute"

\* A claim that has not expired is `call in progress', and changes nothing.
Takeable == row.status = "claimed" /\ row.expired

Reclaim(c) ==
  LET g == row.generation + 1
      d == TakeoverDisposition
  IN
  /\ callers[c].pc = "idle"
  /\ Takeable
  /\ row' = Claimed(g, d)
  /\ SetCaller(c, IF d = "execute" THEN "executing" ELSE "resolving", g, NoResult)
  /\ UNCHANGED <<class, evidence, receipt, runs, answers, disturbances>>

FindCompleted(c) ==
  /\ callers[c].pc = "idle"
  /\ row.status = "completed"
  /\ SetCaller(c, "replaying", row.generation, row.result)
  /\ UNCHANGED <<class, database, runs, answers, disturbances>>

-----------------------------------------------------------------------------
\* The handler, or the evidence that its outcome is unknown.

\* The permission, input or phase check refuses the call.
Refuse(c) ==
  /\ callers[c].pc = "executing"
  /\ SetCaller(c, "completing", callers[c].generation,
               [status |-> "refused", generation |-> callers[c].generation])
  /\ UNCHANGED <<class, database, runs, answers, disturbances>>

Execute(c) ==
  /\ callers[c].pc = "executing"
  /\ runs' = runs \cup {callers[c].generation}
  /\ \E s \in {"succeeded", "pending", "refused", "unknown"} :
       SetCaller(c, "completing", callers[c].generation,
                 [status |-> s, generation |-> callers[c].generation])
  /\ UNCHANGED <<class, database, answers, disturbances>>

\* Mutants: the evidence names the generation that resolves it, or one too early.
OwnGeneration(c) == callers[c].generation
TooEarly(c) == callers[c].generation - 2

\* The generation whose claim this caller took over.
AbandonedGeneration(c) == callers[c].generation - 1

RecordEvidence(c) ==
  /\ callers[c].pc = "resolving"
  /\ evidence' = evidence \cup {AbandonedGeneration(c)}
  /\ SetCaller(c, "completing", callers[c].generation,
               [status |-> "unknown", generation |-> callers[c].generation])
  /\ UNCHANGED <<class, row, receipt, runs, answers, disturbances>>

-----------------------------------------------------------------------------
\* Completion and receipt.

\* Mutant: a completion that does not look at the row.
AnyStatus(c) == row.status # "absent"

\* The caller still owns the claim.  A generation is claimed by one invocation,
\* so it stands for the owner token too; whether it expired does not matter.
Owns(c) == row.status = "claimed" /\ row.generation = callers[c].generation

\* A claim taken over may only be resolved as unknown, with evidence about the
\* generation before it.
Resolvable(c) == row.disposition = "resolve_unknown" =>
                   /\ callers[c].result.status = "unknown"
                   /\ AbandonedGeneration(c) = row.generation - 1
                   /\ AbandonedGeneration(c) \in evidence

\* A caller that lost its claim, or whose completion is rejected, is told that
\* the call is in progress or gets an error: neither is an answer.
Complete(c) ==
  LET r == callers[c].result IN
  /\ callers[c].pc = "completing"
  /\ IF Owns(c) /\ Resolvable(c)
     THEN /\ row' = [row EXCEPT !.status = "completed", !.result = r]
          /\ SetCaller(c, "replaying", callers[c].generation, r)
     ELSE /\ SetCaller(c, "idle", 0, NoResult)
          /\ UNCHANGED row
  /\ UNCHANGED <<class, evidence, receipt, runs, answers, disturbances>>

\* A receipt already there must be the same; the caller is answered after it.
AppendReceipt(c) ==
  LET r == callers[c].result IN
  /\ callers[c].pc = "replaying"
  /\ receipt' = IF receipt = NoResult THEN r ELSE receipt
  /\ answers' = IF receipt \in {NoResult, r} THEN answers \cup {r} ELSE answers
  /\ SetCaller(c, "idle", 0, NoResult)
  /\ UNCHANGED <<class, row, evidence, runs, disturbances>>

-----------------------------------------------------------------------------
\* Disturbances.

Disturb == disturbances < MaxDisturbances /\ disturbances' = disturbances + 1

\* A caller dies, or one of its transactions fails: its claim is left to expire.
Die(c) ==
  /\ callers[c].pc # "idle"
  /\ Disturb
  /\ SetCaller(c, "idle", 0, NoResult)
  /\ UNCHANGED <<class, database, runs, answers>>

OwnerAtWork == \E c \in Caller : callers[c].pc # "idle" /\ Owns(c)

\* The claim's time to live is over.  Its owner may still be at work.
Expire ==
  /\ row.status = "claimed" /\ ~row.expired
  /\ row' = [row EXCEPT !.expired = TRUE]
  /\ IF OwnerAtWork THEN Disturb ELSE UNCHANGED disturbances
  /\ UNCHANGED <<class, evidence, receipt, callers, runs, answers>>

-----------------------------------------------------------------------------
Claim(c) == ClaimFirst(c) \/ Reclaim(c) \/ FindCompleted(c)
Proceed(c) == Refuse(c) \/ Execute(c) \/ RecordEvidence(c) \/ Complete(c) \/ AppendReceipt(c)

Next == \/ \E c \in Caller : Claim(c) \/ Proceed(c) \/ Die(c)
        \/ Expire

Spec == Init /\ [][Next]_vars

\* Callers retry until they have an answer, go on once they have a claim, and
\* time passes.  Nothing obliges one to die.
Fairness == /\ \A c \in Caller : WF_vars(Claim(c)) /\ WF_vars(Proceed(c))
            /\ WF_vars(Expire)

FairSpec == Spec /\ Fairness

-----------------------------------------------------------------------------
\* Properties.

\* Type invariant.
TypeOK == /\ class \in {"read", "write"}
          /\ row \in Row
          /\ callers \in [Caller -> CallerState]
          /\ evidence \subseteq Nat \ {0}
          /\ receipt \in Result \cup {NoResult}
          /\ runs \subseteq Nat \ {0}
          /\ answers \subseteq Result
          /\ disturbances \in 0 .. MaxDisturbances

\* Whoever is answered, before or after a takeover, by a caller that executed,
\* resolved or replayed, is answered with the stored result, and a receipt of
\* that very result exists by then.
AnswersAgree == answers # {} => answers = {row.result} /\ receipt = row.result

\* Evidence that a generation was abandoned with no known outcome is never
\* contradicted: that generation does not complete, however late its caller
\* comes back with a result.
EvidenceIsTrue == \A g \in evidence : g < row.generation /\ row.result.generation # g

\* A caller that still has its claim is never turned away: the evidence that a
\* resolution must refer to is there when it completes, after however many takeovers,
\* and no receipt contradicts what a completed invocation is replayed with.
OwnerIsHeard ==
  \A c \in Caller :
    /\ callers[c].pc = "completing" /\ Owns(c) => Resolvable(c)
    /\ callers[c].pc = "replaying" => receipt \in {NoResult, callers[c].result}

\* The ledger implements the call: a write runs once however many callers,
\* deaths and takeovers there are; one outcome is recorded; success needs a run.
Call == INSTANCE ToolCall
          WITH Outcome <- Result, NoOutcome <- NoResult, NeedsRun <- HandlerResult,
               runs <- Cardinality(runs), outcome <- row.result
ImplementsToolCall == Call!Spec

\* The call is answered in the end, when callers retry it and the disturbances
\* cease: no claim stays in the way of the next one.
CallIsAnswered == <>(answers # {})
=============================================================================
