------------------------------ MODULE DurableRun ------------------------------
(***************************************************************************)
(* The record of one mission's Caretaker, as every worker that drives it   *)
(* in turn must keep it: it is opened, paused and opened again, and ended  *)
(* once, as its mission ended or while its mission went on.  One call at a *)
(* time is reserved, counted, run at most once, and forgotten only by the  *)
(* driver that has its result: a driver that loses the run loses the       *)
(* result, not the call.  What was spent is never given back.              *)
(***************************************************************************)
EXTENDS Naturals

CONSTANTS MaxCalls,
          Ceiling    \* of the other counters, by name

VARIABLES status,    \* none, active, paused, completed, failed, cancelled
          call,      \* none, reserved, counted, ran
          answered,  \* its driver has the call's result
          calls,     \* counted so far
          ran,       \* run so far
          used,      \* the other counters, by name
          mission    \* open, or the status it ended with

vars == <<status, call, answered, calls, ran, used, mission>>

Init == /\ status = "none"
        /\ call = "none"
        /\ answered = FALSE
        /\ calls = 0
        /\ ran = 0
        /\ used = [c \in DOMAIN Ceiling |-> 0]
        /\ mission = "open"

\* The other counters may grow, to their ceilings.
Use == /\ DOMAIN used' = DOMAIN Ceiling
       /\ \A c \in DOMAIN Ceiling : used[c] <= used'[c] /\ used'[c] <= Ceiling[c]

Open == /\ status \in {"none", "paused"}
        /\ status' = "active"
        /\ UNCHANGED <<call, answered, calls, ran, used, mission>>

Reserve == /\ status = "active" /\ call = "none"
           /\ call' = "reserved"
           /\ Use
           /\ UNCHANGED <<status, answered, calls, ran, mission>>

Count == /\ status = "active" /\ call \in {"none", "reserved"} /\ calls < MaxCalls
         /\ call' = "counted"
         /\ calls' = calls + 1
         /\ Use
         /\ UNCHANGED <<status, answered, ran, mission>>

Run == /\ status = "active" /\ call = "counted" /\ ~answered
       /\ call' = "ran"
       /\ ran' = ran + 1
       /\ UNCHANGED <<status, answered, calls, used, mission>>

\* A result, of this run or an earlier one, or that there is none.
Answer == /\ status = "active" /\ call \in {"counted", "ran"} /\ ~answered
          /\ answered' = TRUE
          /\ UNCHANGED <<status, call, calls, ran, used, mission>>

Retain == /\ status = "active" /\ answered
          /\ call' = "none"
          /\ answered' = FALSE
          /\ Use
          /\ UNCHANGED <<status, calls, ran, mission>>

\* The driver is gone, and the result with it.
Lose == /\ answered
        /\ answered' = FALSE
        /\ UNCHANGED <<status, call, calls, ran, used, mission>>

\* A checkpoint of something else.
Note == /\ status = "active" /\ ~answered
        /\ Use
        /\ UNCHANGED <<status, call, answered, calls, ran, mission>>

Pause == /\ status = "active" /\ call = "none"
         /\ status' = "paused"
         /\ Use
         /\ UNCHANGED <<call, answered, calls, ran, mission>>

End == /\ status = "active" /\ call = "none"
       /\ \/ status' = "completed" /\ mission = "succeeded"
          \/ status' = "cancelled" /\ mission = "cancelled"
          \/ status' = "failed" /\ mission \in {"open", "failed"}
       /\ Use
       /\ UNCHANGED <<call, answered, calls, ran, mission>>

MissionEnds == /\ mission = "open"
               /\ mission' \in {"succeeded", "failed", "cancelled"}
               /\ UNCHANGED <<status, call, answered, calls, ran, used>>

Next == \/ Open \/ Reserve \/ Count \/ Run \/ Answer \/ Retain \/ Lose \/ Note
        \/ Pause \/ End \/ MissionEnds

Spec == Init /\ [][Next]_vars
=============================================================================
