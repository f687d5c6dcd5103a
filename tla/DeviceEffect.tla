----------------------------- MODULE DeviceEffect -----------------------------
(***************************************************************************)
(* One device effect as the mission and the gateway's record agree on it:  *)
(* it is materialized once, sent while it has no outcome, sent again only  *)
(* after a poll made it pending, recorded once and only if it was sent.    *)
(* Once it is stopped nothing is materialized, sent or retried: what was   *)
(* still to be sent is withdrawn, what was sent keeps its dispatch.        *)
(***************************************************************************)

VARIABLES dispatch,  \* none (not materialized), pending, sent, cancelled
          called,    \* a call may have reached the gateway
          outcome,   \* pending, completed, failed
          stopped    \* the mission is cancelled and the effect does not survive that

vars == <<dispatch, called, outcome, stopped>>

Init == /\ dispatch \in {"none", "pending"}
        /\ called = FALSE
        /\ outcome = "pending"
        /\ stopped = FALSE

Materialize == /\ dispatch = "none" /\ ~stopped
               /\ dispatch' = "pending"
               /\ UNCHANGED <<called, outcome, stopped>>

Send == /\ dispatch = "pending" /\ outcome = "pending" /\ ~stopped
        /\ dispatch' = "sent"
        /\ called' = TRUE
        /\ UNCHANGED <<outcome, stopped>>

Retry == /\ dispatch = "sent" /\ outcome = "pending" /\ ~stopped
         /\ dispatch' = "pending"
         /\ UNCHANGED <<called, outcome, stopped>>

\* However late, and whether or not it is stopped.
Record == /\ called /\ outcome = "pending"
          /\ outcome' \in {"completed", "failed"}
          /\ UNCHANGED <<dispatch, called, stopped>>

Stop == /\ ~stopped
        /\ stopped' = TRUE
        /\ dispatch' = IF dispatch = "pending" /\ outcome = "pending" THEN "cancelled" ELSE dispatch
        /\ UNCHANGED <<called, outcome>>

Next == Materialize \/ Send \/ Retry \/ Record \/ Stop

Spec == Init /\ [][Next]_vars
=============================================================================
