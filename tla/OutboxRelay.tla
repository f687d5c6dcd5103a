----------------------------- MODULE OutboxRelay -----------------------------
(***************************************************************************)
(* The relay from the transactional outbox to the job queue.  A sweep      *)
(* claims due messages, and publishes them one after the other; each is    *)
(* then marked dispatched, or released when publishing or marking failed.  *)
(*                                                                         *)
(* A worker runs several sweeps at once under one owner id: those of its   *)
(* timer, the minute's scheduled job, and the last one when it stops.  A   *)
(* sweep that is late can therefore mark, or release, what another sweep   *)
(* of its worker has claimed since.                                        *)
(***************************************************************************)
EXTENDS Naturals, FiniteSets

CONSTANTS Message,
          Withdrawable,  \* messages a cancellation withdraws: pending gateway dispatches
          Sweep,         \* sweeps that can be under way at once
          OwnerOf,       \* by sweep: the worker whose id it claims under
          BatchLimit,
          NoMessage,
          NoSweep,
          MaxFaults      \* bound: deaths, failures and expiries of a claim in use

ASSUME MessageAssumption == NoMessage \notin Message /\ Withdrawable \subseteq Message
ASSUME SweepAssumption == NoSweep \notin Sweep /\ IsFiniteSet(Sweep)
ASSUME BoundAssumption == BatchLimit \in Nat \ {0} /\ MaxFaults \in Nat

VARIABLES
  rows,      \* by message: [status, by, expired, due, attempts]
  accepted,  \* by message: jobs the queue created for it
  live,      \* messages with a job that is created, retried or active
  sweeps,    \* by sweep: [pc, todo, current]
  faults

queue == <<accepted, live>>
vars == <<rows, queue, sweeps, faults>>

\* by: the sweep that has the claim (the row names its owner); due: the
\* backoff after a release is over; attempts: deliveryAttempts.
Row == [status : {"absent", "pending", "claimed", "dispatched", "cancelled"},
        by : Sweep \cup {NoSweep}, expired : BOOLEAN, due : BOOLEAN, attempts : Nat]

\* next: about to publish one of todo, or done with them.
SweepState == [pc : {"next", "marking", "releasing"}, todo : SUBSET Message,
               current : Message \cup {NoMessage}]

Rest == [pc |-> "next", todo |-> {}, current |-> NoMessage]

Init == /\ rows = [m \in Message |-> [status |-> "absent", by |-> NoSweep, expired |-> FALSE,
                                      due |-> FALSE, attempts |-> 0]]
        /\ accepted = [m \in Message |-> 0]
        /\ live = {}
        /\ sweeps = [s \in Sweep |-> Rest]
        /\ faults = 0

Fault == faults < MaxFaults /\ faults' = faults + 1

\* Mutant: a claim that ends is not cleared.
KeepClaim(m, status, due) ==
  rows' = [rows EXCEPT ![m].status = status, ![m].due = due]

\* The message has this status, and no claim.
SetStatus(m, status, due) ==
  rows' = [rows EXCEPT ![m] = [status |-> status, by |-> NoSweep, expired |-> FALSE,
                               due |-> due, attempts |-> @.attempts]]

-----------------------------------------------------------------------------
\* The transactions of the application.

\* The message is inserted with the state change it belongs to.
Commit(m) ==
  /\ rows[m].status = "absent"
  /\ SetStatus(m, "pending", TRUE)
  /\ UNCHANGED <<queue, sweeps, faults>>

\* A cancellation withdraws the dispatch: it asks neither who has the claim
\* nor whether it is being published.
Withdraw(m) ==
  /\ m \in Withdrawable
  /\ rows[m].status \in {"pending", "claimed"}
  /\ SetStatus(m, "cancelled", rows[m].due)
  /\ UNCHANGED <<queue, sweeps, faults>>

-----------------------------------------------------------------------------
\* One sweep.

Turn(s, pc, todo, current) ==
  sweeps' = [sweeps EXCEPT ![s] = [pc |-> pc, todo |-> todo, current |-> current]]

\* Mutants: a claim that does not wait for an earlier one to expire; an expired
\* one is left alone.
PendingOnly(m) == rows[m].due /\ rows[m].status = "pending"
DueAnyway(m) == rows[m].due /\ rows[m].status \in {"pending", "claimed"}

Due(m) == /\ rows[m].due
          /\ \/ rows[m].status = "pending"
             \/ rows[m].status = "claimed" /\ rows[m].expired

ClaimedRow(s, m) == [status |-> "claimed", by |-> s, expired |-> FALSE, due |-> TRUE,
                     attempts |-> rows[m].attempts + 1]

\* Rows another sweep has locked are skipped.
Claim(s, batch) ==
  /\ sweeps[s] = Rest
  /\ batch # {} /\ Cardinality(batch) <= BatchLimit
  /\ \A m \in batch : Due(m)
  /\ rows' = [m \in Message |-> IF m \in batch THEN ClaimedRow(s, m) ELSE rows[m]]
  /\ Turn(s, "next", batch, NoMessage)
  /\ UNCHANGED <<queue, faults>>

\* The queue creates a job, unless one with this key is live.
Send(m) == IF m \in live THEN UNCHANGED queue
           ELSE accepted' = [accepted EXCEPT ![m] = @ + 1] /\ live' = live \cup {m}

At(s, pc, m) == Turn(s, pc, sweeps[s].todo \ {m}, m)

Publish(s, m) ==
  /\ sweeps[s].pc = "next" /\ m \in sweeps[s].todo
  /\ Send(m)
  /\ At(s, "marking", m)
  /\ UNCHANGED <<rows, faults>>

\* The send fails, before or after the job was created.
PublishFails(s, m) ==
  /\ sweeps[s].pc = "next" /\ m \in sweeps[s].todo
  /\ Fault
  /\ Send(m) \/ UNCHANGED queue
  /\ At(s, "releasing", m)
  /\ UNCHANGED rows

\* Mutant: the claim is not looked at.
MineAnyway(s, m) == TRUE

\* The row is claimed under the worker's id, by this sweep or by another.
Mine(s, m) == rows[m].status = "claimed" /\ OwnerOf[rows[m].by] = OwnerOf[s]

Continue(s) == Turn(s, "next", sweeps[s].todo, NoMessage)

\* A claim that is no longer the worker's is left alone.
Mark(s) ==
  LET m == sweeps[s].current IN
  /\ sweeps[s].pc = "marking"
  /\ IF Mine(s, m) THEN SetStatus(m, "dispatched", TRUE) ELSE UNCHANGED rows
  /\ Continue(s)
  /\ UNCHANGED <<queue, faults>>

MarkFails(s) ==
  /\ sweeps[s].pc = "marking"
  /\ Fault
  /\ Turn(s, "releasing", sweeps[s].todo, sweeps[s].current)
  /\ UNCHANGED <<rows, queue>>

Release(s) ==
  LET m == sweeps[s].current IN
  /\ sweeps[s].pc = "releasing"
  /\ IF Mine(s, m) THEN SetStatus(m, "pending", FALSE) ELSE UNCHANGED rows
  /\ Continue(s)
  /\ UNCHANGED <<queue, faults>>

\* A release that fails, or the death of the process, ends the sweep: the rest
\* of its batch stays claimed.
Abort(s) ==
  /\ sweeps[s] # Rest
  /\ Fault
  /\ sweeps' = [sweeps EXCEPT ![s] = Rest]
  /\ UNCHANGED <<rows, queue>>

-----------------------------------------------------------------------------
\* Time, and the queue.

\* The sweep that claimed the message still has it.
InUse(m) == LET s == sweeps[rows[m].by] IN m \in s.todo \/ m = s.current

Expire(m) ==
  /\ rows[m].status = "claimed" /\ ~rows[m].expired
  /\ rows' = [rows EXCEPT ![m].expired = TRUE]
  /\ IF InUse(m) THEN Fault ELSE UNCHANGED faults
  /\ UNCHANGED <<queue, sweeps>>

BackoffEnds(m) ==
  /\ rows[m].status = "pending" /\ ~rows[m].due
  /\ rows' = [rows EXCEPT ![m].due = TRUE]
  /\ UNCHANGED <<queue, sweeps, faults>>

\* The job completes, or fails for good: its key is free again.
JobEnds(m) ==
  /\ m \in live
  /\ live' = live \ {m}
  /\ UNCHANGED <<rows, accepted, sweeps, faults>>

-----------------------------------------------------------------------------
Proceed(s) == (\E m \in Message : Publish(s, m)) \/ Mark(s) \/ Release(s)
Take(m) == \E s \in Sweep : \E batch \in SUBSET Message : m \in batch /\ Claim(s, batch)

Next == \/ \E m \in Message : \/ Commit(m) \/ Withdraw(m)
                              \/ Expire(m) \/ BackoffEnds(m) \/ JobEnds(m)
        \/ \E s \in Sweep : \/ Proceed(s) \/ Abort(s) \/ MarkFails(s)
                            \/ \E m \in Message : PublishFails(s, m)
                            \/ \E batch \in SUBSET Message : Claim(s, batch)

Spec == Init /\ [][Next]_vars

\* Sweeps go on and are started again and again, the oldest due message first;
\* time passes.  Nothing obliges the application to commit or withdraw, a sweep
\* to die or a job to end.
Fairness == /\ \A s \in Sweep : WF_vars(Proceed(s))
            /\ \A m \in Message : SF_vars(Take(m)) /\ WF_vars(Expire(m)) /\ WF_vars(BackoffEnds(m))

FairSpec == Spec /\ Fairness

-----------------------------------------------------------------------------
\* Properties.

\* Type invariant; a message has an owner exactly while it is claimed.
TypeOK == /\ rows \in [Message -> Row]
          /\ \A m \in Message : rows[m].status = "claimed" <=> rows[m].by # NoSweep
          /\ accepted \in [Message -> Nat]
          /\ live \subseteq Message
          /\ sweeps \in [Sweep -> SweepState]
          /\ faults \in 0 .. MaxFaults

\* However claims expire, are taken over and are released by the wrong sweep of
\* the right worker, every job was paid for by a claim: the count of delivery
\* attempts, which sets the backoff, bounds the copies of the message.
JobsNeedClaims == \A m \in Message : accepted[m] <= rows[m].attempts

\* Several sweeps at once, withdrawals and retries of the job aside, a message
\* becomes a second job only after something failed or expired.
OneJobUnlessFault == faults = 0 => \A m \in Message : accepted[m] <= 1

\* A claim is its worker's: whatever late sweeps of other workers still do, it
\* ends when a sweep of the worker that has it is done with the message, or with
\* the message's withdrawal, and it is taken over only once it has expired.
ClaimStaysWithWorker ==
  [][\A m \in Message : rows[m].status = "claimed" =>
       /\ rows'[m].status \in {"pending", "dispatched"} =>
            \E s \in Sweep : /\ OwnerOf[s] = OwnerOf[rows[m].by]
                             /\ sweeps[s].current = m /\ sweeps'[s].current # m
       /\ rows'[m].attempts # rows[m].attempts => rows[m].expired]_vars

\* The relay keeps the outbox's promise: dispatched messages were accepted by
\* the queue, and a dispatched or withdrawn one is never claimed again.
State(m) == CASE rows[m].status = "absent" -> "absent"
              [] rows[m].status = "dispatched" -> "done"
              [] rows[m].status = "cancelled" -> "withdrawn"
              [] OTHER -> "waiting"
Relay == INSTANCE MessageRelay WITH state <- [m \in Message |-> State(m)]
ImplementsRelay == Relay!Spec

\* A committed message reaches the queue or is withdrawn, when the failures cease.
MessageIsRelayed ==
  \A m \in Message : rows[m].status = "pending" ~> accepted[m] > 0 \/ rows[m].status = "cancelled"
=============================================================================
