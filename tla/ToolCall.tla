------------------------------ MODULE ToolCall ------------------------------
(***************************************************************************)
(* What the tool invocation ledger promises of one call: a write runs at   *)
(* most once, one outcome is recorded, and whoever is answered is answered *)
(* with it.  The handler may still run after the outcome was recorded as   *)
(* unknown: that is what unknown means.                                    *)
(***************************************************************************)
EXTENDS Naturals

CONSTANTS Outcome,    \* what can be recorded
          NeedsRun,   \* the outcomes that only a handler that ran can have
          NoOutcome

VARIABLES class,      \* read or write
          runs,       \* how often the handler ran
          outcome,    \* what is recorded
          answers     \* what callers were told, beyond `pending'

vars == <<class, runs, outcome, answers>>

Init == /\ class \in {"read", "write"}
        /\ runs = 0
        /\ outcome = NoOutcome
        /\ answers = {}

Run == /\ class = "read" \/ runs = 0
       /\ runs' = runs + 1
       /\ UNCHANGED <<class, outcome, answers>>

Record == /\ outcome = NoOutcome
          /\ outcome' \in Outcome
          /\ outcome' \in NeedsRun => runs > 0
          /\ UNCHANGED <<class, runs, answers>>

Answer == /\ outcome # NoOutcome
          /\ answers' = answers \cup {outcome}
          /\ UNCHANGED <<class, runs, outcome>>

Next == Run \/ Record \/ Answer

Spec == Init /\ [][Next]_vars
=============================================================================
