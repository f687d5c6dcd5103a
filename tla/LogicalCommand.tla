---------------------------- MODULE LogicalCommand ----------------------------
(***************************************************************************)
(* What the record of one gateway command promises, without queues,        *)
(* workers, transactions or callbacks in transit: the device is called     *)
(* once per authorization; another call is authorized only while the last  *)
(* one's result is in doubt, within a budget; and nothing is called or     *)
(* authorized once the outcome is known or the command is withdrawn.       *)
(***************************************************************************)
EXTENDS Naturals

CONSTANTS Outcome,  \* how a command can end
          Open,     \* it has not ended
          Budget    \* how many calls may ever be authorized

VARIABLES authorized,  \* calls authorized so far
          called,      \* calls begun so far
          doubt,       \* the last call ended without a definite result
          outcome,
          withdrawn

vars == <<authorized, called, doubt, outcome, withdrawn>>

Init == /\ authorized = 1
        /\ called = 0
        /\ doubt = FALSE
        /\ outcome = Open
        /\ withdrawn = FALSE

Live == outcome = Open /\ ~withdrawn

Call == /\ Live /\ called < authorized
        /\ called' = called + 1
        /\ UNCHANGED <<authorized, doubt, outcome, withdrawn>>

\* The call ends, in doubt or not.
Answer == /\ called = authorized /\ ~doubt
          /\ doubt' = TRUE
          /\ UNCHANGED <<authorized, called, outcome, withdrawn>>

Authorize == /\ Live /\ doubt /\ authorized < Budget
             /\ authorized' = authorized + 1
             /\ doubt' = FALSE
             /\ UNCHANGED <<called, outcome, withdrawn>>

Resolve == /\ outcome = Open
           /\ outcome' \in Outcome
           /\ UNCHANGED <<authorized, called, doubt, withdrawn>>

Withdraw == /\ withdrawn' = TRUE
            /\ UNCHANGED <<authorized, called, doubt, outcome>>

Next == Call \/ Answer \/ Authorize \/ Resolve \/ Withdraw

Spec == Init /\ [][Next]_vars
=============================================================================
