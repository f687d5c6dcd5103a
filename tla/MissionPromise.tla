---------------------------- MODULE MissionPromise ----------------------------
(***************************************************************************)
(* What a mission promises the household, without handlers, jobs, leases   *)
(* or the gateway: what it has started it owes an outcome; an outcome is   *)
(* recorded once; an unlocked door owes its lock; a stopped mission starts *)
(* nothing else.  It ends as succeeded only with everything completed, and *)
(* as cancelled only when it owes nothing; it does not end twice.          *)
(* (That a stopped mission cannot succeed is not promised: it can.)        *)
(***************************************************************************)
CONSTANTS Milestone,
          Effect,        \* the milestones that a device's outcome completes
          Unlock, Relock \* two of the effects

VARIABLES ending,   \* open, asking (its user), succeeded, cancelled
          stopped,
          owed,     \* effects started, not withdrawn, and without outcome
          result    \* by milestone: pending, completed, failed

vars == <<ending, stopped, owed, result>>

Init == /\ ending = "open"
        /\ stopped = FALSE
        /\ owed = {}
        /\ result = [m \in Milestone |-> "pending"]

\* The plan starts effects, but never the lock by itself; a milestone without
\* effect is completed with them.
Start(S, M) ==
  /\ Relock \notin S
  /\ ~stopped /\ ending \in {"open", "asking"}
  /\ \A m \in S \cup M : result[m] = "pending"
  /\ owed' = owed \cup S
  /\ result' = [m \in Milestone |-> IF m \in M THEN "completed" ELSE result[m]]
  /\ UNCHANGED stopped

\* An outcome of what is owed, or of what was withdrawn and yet happened.
Record(e, r) ==
  /\ result[e] = "pending"
  /\ e \in owed \/ (stopped /\ e # Relock)
  /\ result' = [result EXCEPT ![e] = r]
  /\ owed' = (owed \ {e}) \cup IF e = Unlock /\ r = "completed" THEN {Relock} ELSE {}
  /\ UNCHANGED stopped

\* What was not yet sent is withdrawn, but the lock.
Stop(S) ==
  /\ ~stopped
  /\ stopped' = TRUE
  /\ S \subseteq owed \ {Relock}
  /\ owed' = owed \ S
  /\ UNCHANGED result

\* How the step leaves the mission.
Ending ==
  \/ UNCHANGED ending
  \/ ending = "open" /\ ending' = "asking"
  \/ ending = "open" /\ ending' = "succeeded" /\ \A m \in Milestone : result'[m] = "completed"
  \/ ending \in {"open", "asking"} /\ ending' = "cancelled" /\ stopped' /\ owed' = {}

Next ==
  /\ Ending
  /\ \/ \E S \in SUBSET Effect, M \in SUBSET (Milestone \ Effect) : Start(S, M)
     \/ \E e \in Effect, r \in {"completed", "failed"} : Record(e, r)
     \/ \E S \in SUBSET Effect : Stop(S)
     \/ UNCHANGED <<stopped, owed, result>>

Spec == Init /\ [][Next]_vars
=============================================================================
