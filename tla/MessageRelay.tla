---------------------------- MODULE MessageRelay ----------------------------
(***************************************************************************)
(* What the transactional outbox promises: a message that was committed is *)
(* handed to the queue at least once before it is done, unless it is       *)
(* withdrawn first, and done and withdrawn are final.  A copy under way    *)
(* may still arrive afterwards.                                            *)
(***************************************************************************)
EXTENDS Naturals

CONSTANT Message

VARIABLES state,    \* by message: absent, waiting, done or withdrawn
          accepted  \* by message: copies the queue accepted

vars == <<state, accepted>>

Init == /\ state = [m \in Message |-> "absent"]
        /\ accepted = [m \in Message |-> 0]

Move(m, from, to) == /\ state[m] = from
                     /\ state' = [state EXCEPT ![m] = to]
                     /\ UNCHANGED accepted

Commit(m) == Move(m, "absent", "waiting")

Accept(m) == /\ state[m] # "absent"
             /\ accepted' = [accepted EXCEPT ![m] = @ + 1]
             /\ UNCHANGED state

Finish(m) == accepted[m] > 0 /\ Move(m, "waiting", "done")

Withdraw(m) == Move(m, "waiting", "withdrawn")

Next == \E m \in Message : Commit(m) \/ Accept(m) \/ Finish(m) \/ Withdraw(m)

Spec == Init /\ [][Next]_vars
=============================================================================
