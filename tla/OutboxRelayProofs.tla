-------------------------- MODULE OutboxRelayProofs --------------------------
(***************************************************************************)
(* Proofs about OutboxRelay, for any messages, sweeps and owners, and any  *)
(* number of faults.                                                       *)
(*                                                                         *)
(* A claim is a licence to publish once: the sweeps that hold a message in *)
(* their batch and the jobs it has are together no more than its claims    *)
(* (ClaimsInv).  While nothing has failed a claimed message is in the      *)
(* hands of the sweep that claimed it (QuietInv).                          *)
(***************************************************************************)
EXTENDS OutboxRelay, FiniteSetTheorems, TLAPS

\* The sweeps that may yet publish the message.
Holding(m) == {s \in Sweep : m \in sweeps[s].todo}

BatchInv ==
  /\ \A s \in Sweep :
       /\ \A m \in sweeps[s].todo : rows[m].status # "absent"
       /\ sweeps[s].pc \in {"marking", "releasing"} => sweeps[s].current \in Message
       /\ sweeps[s].pc = "marking" => accepted[sweeps[s].current] > 0
       /\ sweeps[s].pc = "next" => sweeps[s].current = NoMessage
  /\ \A m \in live : accepted[m] > 0

ClaimsInv == \A m \in Message : accepted[m] + Cardinality(Holding(m)) <= rows[m].attempts

Quiet(m) == /\ rows[m].attempts <= 1
            /\ rows[m].status \in {"absent", "pending"} => rows[m].attempts = 0
            /\ rows[m].status = "claimed" => ~rows[m].expired /\ InUse(m)

QuietInv == faults = 0 => /\ \A m \in Message : Quiet(m)
                          /\ \A s \in Sweep : sweeps[s].pc # "releasing"

IInv == TypeOK /\ BatchInv /\ ClaimsInv /\ QuietInv

-----------------------------------------------------------------------------
LEMMA Fields ==
  ASSUME TypeOK
  PROVE  /\ \A m \in Message :
              /\ rows[m].status \in {"absent", "pending", "claimed", "dispatched", "cancelled"}
              /\ rows[m].by \in Sweep \cup {NoSweep} /\ rows[m].expired \in BOOLEAN
              /\ rows[m].due \in BOOLEAN /\ rows[m].attempts \in Nat
              /\ rows[m].status = "claimed" <=> rows[m].by # NoSweep
              /\ accepted[m] \in Nat
         /\ \A s \in Sweep :
              /\ sweeps[s].pc \in {"next", "marking", "releasing"}
              /\ sweeps[s].todo \subseteq Message
              /\ sweeps[s].current \in Message \cup {NoMessage}
         /\ faults \in Nat
BY BoundAssumption DEF TypeOK, Row, SweepState

LEMMA HoldingFinite ==
  ASSUME NEW m PROVE IsFiniteSet(Holding(m)) /\ Cardinality(Holding(m)) \in Nat
<1>1. Holding(m) \subseteq Sweep
  BY DEF Holding
<1>2. QED BY <1>1, SweepAssumption, FS_Subset, FS_CardinalityType

LEMMA StatusSet ==
  ASSUME TypeOK, NEW m \in Message, NEW d \in BOOLEAN,
         NEW st \in {"pending", "dispatched", "cancelled"}, SetStatus(m, st, d)
  PROVE  /\ rows'[m].status = st /\ rows'[m].by = NoSweep /\ rows'[m].attempts = rows[m].attempts
         /\ \A n \in Message : n # m => rows'[n] = rows[n]
         /\ rows' \in [Message -> Row]
         /\ \A n \in Message : rows'[n].status = "claimed" <=> rows'[n].by # NoSweep
<1>1. PICK new : new = [status |-> st, by |-> NoSweep, expired |-> FALSE, due |-> d,
                        attempts |-> rows[m].attempts]
  OBVIOUS
<1>2. new \in Row /\ new.status = st /\ new.by = NoSweep /\ new.attempts = rows[m].attempts
  BY <1>1, Fields DEF Row
<1>3. rows' = [rows EXCEPT ![m] = new]
  BY <1>1 DEF SetStatus
<1>4. rows'[m] = new /\ \A n \in Message : n # m => rows'[n] = rows[n]
  BY <1>3 DEF TypeOK
<1>5. rows' \in [Message -> Row]
  BY <1>2, <1>3 DEF TypeOK
<1>6. QED BY <1>2, <1>4, <1>5 DEF TypeOK

LEMMA FaultCounted ==
  ASSUME TypeOK, Fault PROVE faults' \in 0 .. MaxFaults /\ faults' # 0
<1>1. faults \in 0 .. MaxFaults
  BY DEF TypeOK
<1>2. QED BY <1>1, BoundAssumption DEF Fault

\* A step that leaves the sweeps and the queue alone, and no message absent.
LEMMA RowStep ==
  ASSUME IInv, UNCHANGED <<accepted, live, sweeps>>, TypeOK',
         \A m \in Message : /\ rows'[m].attempts = rows[m].attempts
                            /\ rows[m].status # "absent" => rows'[m].status # "absent"
  PROVE  BatchInv' /\ ClaimsInv'
<1>1. BatchInv'
  BY Fields DEF IInv, BatchInv
<1>2. \A m \in Message : Holding(m)' = Holding(m)
  BY DEF Holding
<1>3. QED BY <1>1, <1>2 DEF IInv, ClaimsInv

LEMMA InitOK == Init => IInv
<1> SUFFICES ASSUME Init PROVE IInv
  OBVIOUS
<1>1. TypeOK
  BY BoundAssumption DEF Init, TypeOK, Row, SweepState, Rest
<1>2. /\ \A s \in Sweep : sweeps[s].pc = "next" /\ sweeps[s].todo = {}
                          /\ sweeps[s].current = NoMessage
      /\ \A m \in Message : rows[m].status = "absent" /\ rows[m].attempts = 0 /\ accepted[m] = 0
      /\ live = {}
  BY DEF Init, Rest
<1>3. BatchInv
  BY <1>2 DEF BatchInv
<1>4. \A m : Holding(m) = {}
  BY <1>2 DEF Holding
<1>5. ClaimsInv
  BY <1>2, <1>4, FS_EmptySet, 0 + 0 <= 0 DEF ClaimsInv
<1>6. QuietInv
  BY <1>2 DEF QuietInv, Quiet
<1>7. QED BY <1>1, <1>3, <1>5, <1>6 DEF IInv

-----------------------------------------------------------------------------
\* The messages' own steps.

LEMMA CommitOK == ASSUME IInv, NEW m \in Message, Commit(m) PROVE IInv'
<1> USE DEF IInv
<1>1. /\ SetStatus(m, "pending", TRUE) /\ rows[m].status = "absent"
      /\ UNCHANGED <<accepted, live, sweeps, faults>>
  BY DEF Commit, queue
<1>2. TypeOK'
  BY <1>1, StatusSet DEF TypeOK
<1>3. BatchInv' /\ ClaimsInv'
  BY <1>1, <1>2, StatusSet, RowStep
<1>4. QuietInv'
  BY <1>1, StatusSet DEF QuietInv, Quiet, InUse
<1>5. QED BY <1>2, <1>3, <1>4

LEMMA WithdrawOK == ASSUME IInv, NEW m \in Message, Withdraw(m) PROVE IInv'
<1> USE DEF IInv
<1>1. /\ SetStatus(m, "cancelled", rows[m].due) /\ rows[m].due \in BOOLEAN
      /\ UNCHANGED <<accepted, live, sweeps, faults>>
  BY Fields DEF Withdraw, queue
<1>2. TypeOK'
  BY <1>1, StatusSet DEF TypeOK
<1>3. BatchInv' /\ ClaimsInv'
  BY <1>1, <1>2, StatusSet, RowStep
<1>4. QuietInv'
  BY <1>1, StatusSet DEF QuietInv, Quiet, InUse
<1>5. QED BY <1>2, <1>3, <1>4

LEMMA ExpireOK == ASSUME IInv, NEW m \in Message, Expire(m) PROVE IInv'
<1> USE DEF IInv
<1>1. /\ rows' = [rows EXCEPT ![m].expired = TRUE] /\ rows[m].status = "claimed"
      /\ UNCHANGED <<accepted, live, sweeps>>
  BY DEF Expire, queue
<1>2. /\ rows' \in [Message -> Row]
      /\ \A n \in Message : /\ rows'[n].attempts = rows[n].attempts
                            /\ rows'[n].status = rows[n].status /\ rows'[n].by = rows[n].by
      /\ \A n \in Message : n # m => rows'[n] = rows[n]
  BY <1>1 DEF TypeOK, Row
<1>3. CASE InUse(m)
  <2>1. faults' \in 0 .. MaxFaults /\ faults' # 0
    BY <1>3, FaultCounted DEF Expire
  <2>2. TypeOK'
    BY <1>1, <1>2, <2>1 DEF TypeOK
  <2>3. QED BY <1>1, <1>2, <2>1, <2>2, RowStep DEF QuietInv
<1>4. CASE ~InUse(m)
  <2>1. faults' = faults /\ faults # 0
    BY <1>1, <1>4 DEF Expire, QuietInv, Quiet
  <2>2. TypeOK'
    BY <1>1, <1>2, <2>1 DEF TypeOK
  <2>3. QED BY <1>1, <1>2, <2>1, <2>2, RowStep DEF QuietInv
<1>5. QED BY <1>3, <1>4

LEMMA BackoffOK == ASSUME IInv, NEW m \in Message, BackoffEnds(m) PROVE IInv'
<1> USE DEF IInv
<1>1. /\ rows' = [rows EXCEPT ![m].due = TRUE] /\ UNCHANGED <<accepted, live, sweeps, faults>>
  BY DEF BackoffEnds, queue
<1>2. /\ rows' \in [Message -> Row]
      /\ \A n \in Message : /\ rows'[n].attempts = rows[n].attempts
                            /\ rows'[n].expired = rows[n].expired
                            /\ rows'[n].status = rows[n].status /\ rows'[n].by = rows[n].by
  BY <1>1 DEF TypeOK, Row
<1>3. TypeOK'
  BY <1>1, <1>2 DEF TypeOK
<1>4. BatchInv' /\ ClaimsInv'
  BY <1>1, <1>2, <1>3, RowStep
<1>5. QuietInv'
  BY <1>1, <1>2 DEF QuietInv, Quiet, InUse
<1>6. QED BY <1>3, <1>4, <1>5

LEMMA JobEndsOK == ASSUME IInv, NEW m \in Message, JobEnds(m) PROVE IInv'
<1>1. /\ live' \subseteq live /\ UNCHANGED <<rows, accepted, sweeps, faults>>
  BY DEF JobEnds
<1>2. QED BY <1>1 DEF IInv, TypeOK, BatchInv, ClaimsInv, Holding, QuietInv, Quiet, InUse

-----------------------------------------------------------------------------
\* The steps of a sweep.

LEMMA SweepSet ==
  ASSUME TypeOK, NEW s \in Sweep, NEW pc \in {"next", "marking", "releasing"},
         NEW todo \in SUBSET Message, NEW current \in Message \cup {NoMessage},
         Turn(s, pc, todo, current)
  PROVE  /\ sweeps' \in [Sweep -> SweepState]
         /\ sweeps'[s].pc = pc /\ sweeps'[s].todo = todo /\ sweeps'[s].current = current
         /\ \A t \in Sweep : t # s => sweeps'[t] = sweeps[t]
BY DEF TypeOK, SweepState, Turn

LEMMA ClaimOK == ASSUME IInv, NEW s \in Sweep, NEW batch \in SUBSET Message, Claim(s, batch)
                 PROVE  IInv'
<1> USE DEF IInv
<1>1. /\ sweeps[s].pc = "next" /\ sweeps[s].todo = {} /\ sweeps[s].current = NoMessage
      /\ \A m \in batch : Due(m)
      /\ UNCHANGED <<accepted, live, faults>>
  BY DEF Claim, Rest, queue
<1>2. Turn(s, "next", batch, NoMessage)
  BY DEF Claim
<1>3. /\ sweeps' \in [Sweep -> SweepState]
      /\ sweeps'[s].pc = "next" /\ sweeps'[s].todo = batch /\ sweeps'[s].current = NoMessage
      /\ \A t \in Sweep : t # s => sweeps'[t] = sweeps[t]
  BY <1>2, SweepSet
<1>4. /\ rows' \in [Message -> Row]
      /\ \A m \in batch : /\ rows'[m].status = "claimed" /\ rows'[m].by = s
                          /\ ~rows'[m].expired /\ rows'[m].attempts = rows[m].attempts + 1
      /\ \A m \in Message : m \notin batch => rows'[m] = rows[m]
  <2>1. \A m \in Message : /\ ClaimedRow(s, m) \in Row
                           /\ ClaimedRow(s, m).status = "claimed" /\ ClaimedRow(s, m).by = s
                           /\ ~ClaimedRow(s, m).expired
                           /\ ClaimedRow(s, m).attempts = rows[m].attempts + 1
    BY Fields DEF ClaimedRow, Row
  <2>2. QED BY <2>1 DEF Claim, TypeOK
<1>5. TypeOK'
  BY <1>1, <1>3, <1>4, SweepAssumption DEF TypeOK
<1>6. BatchInv'
  <2>1. \A m \in Message : rows[m].status # "absent" => rows'[m].status # "absent"
    BY <1>4
  <2>2. ASSUME NEW t \in Sweep, NEW m \in sweeps'[t].todo PROVE rows'[m].status # "absent"
    BY <2>1, <2>2, <1>3, <1>4, Fields DEF BatchInv
  <2>3. QED BY <2>2, <1>1, <1>3 DEF BatchInv
<1>7. ClaimsInv'
  <2> SUFFICES ASSUME NEW m \in Message
               PROVE  (accepted[m] + Cardinality(Holding(m)) <= rows[m].attempts)'
    BY DEF ClaimsInv
  <2>1. /\ accepted[m] \in Nat /\ rows[m].attempts \in Nat
        /\ accepted[m] + Cardinality(Holding(m)) <= rows[m].attempts
        /\ accepted'[m] = accepted[m]
    BY <1>1, Fields DEF ClaimsInv
  <2>2. CASE m \in batch
    <3>1. Holding(m)' = Holding(m) \cup {s} /\ s \notin Holding(m)
      BY <1>1, <1>3, <2>2 DEF Holding
    <3>2. Cardinality(Holding(m)') = Cardinality(Holding(m)) + 1
      BY <3>1, HoldingFinite, FS_AddElement
    <3>3. QED BY <2>1, <2>2, <3>2, <1>4, HoldingFinite
  <2>3. CASE m \notin batch
    <3>1. Holding(m)' = Holding(m)
      BY <1>1, <1>3, <2>3 DEF Holding
    <3>2. QED BY <2>1, <2>3, <3>1, <1>4
  <2>4. QED BY <2>2, <2>3
<1>8. QuietInv'
  <2> SUFFICES ASSUME faults = 0 PROVE \A m \in Message : Quiet(m)'
    BY <1>1, <1>3 DEF QuietInv
  <2>1. ASSUME NEW m \in batch PROVE Quiet(m)'
    BY <2>1, <1>1, <1>3, <1>4 DEF QuietInv, Quiet, Due, InUse
  <2>2. ASSUME NEW m \in Message, m \notin batch PROVE Quiet(m)'
    <3>1. Quiet(m) /\ rows'[m] = rows[m]
      BY <2>2, <1>4 DEF QuietInv
    <3>2. rows[m].status = "claimed" => rows[m].by \in Sweep /\ rows[m].by # s
      BY <2>2, <3>1, <1>1, Fields, MessageAssumption DEF Quiet, InUse
    <3>3. QED BY <3>1, <3>2, <1>3 DEF Quiet, InUse
  <2>3. QED BY <2>1, <2>2
<1>9. QED BY <1>5, <1>6, <1>7, <1>8

\* What a send does to the queue: one job more, or none.
LEMMA SendOK ==
  ASSUME IInv, NEW m \in Message, Send(m) \/ UNCHANGED queue
  PROVE  /\ accepted' \in [Message -> Nat] /\ live' \subseteq Message
         /\ \A n \in Message : n # m => accepted'[n] = accepted[n]
         /\ accepted'[m] \in accepted[m] .. accepted[m] + 1
         /\ Send(m) => accepted'[m] > 0
         /\ \A n \in live' : accepted'[n] > 0
<1> USE DEF IInv, BatchInv
<1>1. accepted \in [Message -> Nat] /\ live \subseteq Message
  BY DEF TypeOK
<1>2. CASE UNCHANGED queue
  BY <1>1, <1>2 DEF Send, queue
<1>3. CASE Send(m) /\ m \notin live
  BY <1>1, <1>3 DEF Send, queue
<1>4. QED BY <1>2, <1>3 DEF Send

\* The message leaves the batch of the sweep that sends it.
LEMMA SentOK ==
  ASSUME IInv, NEW s \in Sweep, NEW m \in Message, m \in sweeps[s].todo,
         sweeps[s].pc = "next", NEW pc \in {"marking", "releasing"}, At(s, pc, m),
         Send(m) \/ UNCHANGED queue, pc = "marking" => Send(m), UNCHANGED rows,
         faults' \in 0 .. MaxFaults,
         faults' = 0 => faults = 0 /\ pc = "marking"
  PROVE  IInv'
<1> USE DEF IInv
<1>1. Turn(s, pc, sweeps[s].todo \ {m}, m)
  BY DEF At
<1>2. /\ sweeps' \in [Sweep -> SweepState]
      /\ sweeps'[s].pc = pc /\ sweeps'[s].todo = sweeps[s].todo \ {m} /\ sweeps'[s].current = m
      /\ \A t \in Sweep : t # s => sweeps'[t] = sweeps[t]
  BY <1>1, Fields, SweepSet DEF Turn
<1>3. TypeOK'
  BY <1>2, SendOK DEF TypeOK
<1>4. BatchInv'
  <2>1. \A n \in Message : accepted'[n] >= accepted[n]
    BY SendOK, Fields
  <2>2. ASSUME NEW t \in Sweep, t # s
        PROVE  /\ \A n \in sweeps'[t].todo : rows'[n].status # "absent"
               /\ sweeps'[t].pc \in {"marking", "releasing"} => sweeps'[t].current \in Message
               /\ sweeps'[t].pc = "marking" => accepted'[sweeps'[t].current] > 0
               /\ sweeps'[t].pc = "next" => sweeps'[t].current = NoMessage
    <3>1. sweeps'[t] = sweeps[t]
      BY <2>2, <1>2
    <3>2. sweeps[t].pc = "marking" => accepted'[sweeps[t].current] > 0
      <4>1. SUFFICES ASSUME sweeps[t].pc = "marking" PROVE accepted'[sweeps[t].current] > 0
        OBVIOUS
      <4>2. sweeps[t].current \in Message /\ accepted[sweeps[t].current] > 0
        BY <4>1 DEF BatchInv
      <4>3. accepted'[sweeps[t].current] \in Nat /\ accepted[sweeps[t].current] \in Nat
        BY <4>2, SendOK, Fields
      <4>4. QED BY <4>2, <4>3, <2>1
    <3>3. QED BY <3>1, <3>2 DEF BatchInv
  <2>3. QED BY <1>2, <2>2, SendOK DEF BatchInv
<1>5. ClaimsInv'
  <2> SUFFICES ASSUME NEW n \in Message
               PROVE  (accepted[n] + Cardinality(Holding(n)) <= rows[n].attempts)'
    BY DEF ClaimsInv
  <2>1. /\ accepted[n] \in Nat /\ rows[n].attempts \in Nat /\ rows'[n] = rows[n]
        /\ accepted[n] + Cardinality(Holding(n)) <= rows[n].attempts
    BY Fields DEF ClaimsInv
  <2>2. CASE n = m
    <3>1. Holding(n)' = Holding(n) \ {s} /\ s \in Holding(n)
      BY <1>2, <2>2 DEF Holding
    <3>2. Cardinality(Holding(n)') = Cardinality(Holding(n)) - 1
      BY <3>1, HoldingFinite, FS_RemoveElement
    <3>3. accepted'[n] \in accepted[n] .. accepted[n] + 1
      BY <2>2, SendOK
    <3>4. QED BY <2>1, <3>2, <3>3, HoldingFinite
  <2>3. CASE n # m
    <3>1. Holding(n)' = Holding(n)
      BY <1>2, <2>3 DEF Holding
    <3>2. QED BY <2>1, <2>3, <3>1, SendOK
  <2>4. QED BY <2>2, <2>3
<1>6. QuietInv'
  <2> SUFFICES ASSUME faults' = 0 PROVE QuietInv'
    BY DEF QuietInv
  <2>1. pc = "marking" /\ faults = 0
    OBVIOUS
  <2>2. ASSUME NEW n \in Message PROVE Quiet(n)'
    <3>1. Quiet(n) /\ rows'[n] = rows[n] /\ (rows[n].status = "claimed" => rows[n].by \in Sweep)
      BY <2>1, Fields DEF QuietInv
    <3>2. CASE rows[n].by = s
      BY <3>1, <3>2, <1>2, MessageAssumption DEF Quiet, InUse, BatchInv
    <3>3. CASE rows[n].by # s
      BY <3>1, <3>3, <1>2 DEF Quiet, InUse
    <3>4. QED BY <3>2, <3>3
  <2>3. QED BY <2>1, <2>2, <1>2 DEF QuietInv
<1>7. QED BY <1>3, <1>4, <1>5, <1>6

LEMMA PublishOK == ASSUME IInv, NEW s \in Sweep, NEW m \in Message, Publish(s, m) PROVE IInv'
<1>1. faults' = faults /\ faults \in 0 .. MaxFaults
  BY DEF Publish, IInv, TypeOK
<1>2. QED BY <1>1, SentOK DEF Publish

LEMMA PublishFailsOK ==
  ASSUME IInv, NEW s \in Sweep, NEW m \in Message, PublishFails(s, m) PROVE IInv'
<1>1. faults' \in 0 .. MaxFaults /\ faults' # 0
  BY FaultCounted DEF PublishFails, IInv
<1>2. QED BY <1>1, SentOK DEF PublishFails

\* A sweep that keeps its batch or gives it up, without touching the queue.
LEMMA SettleOK ==
  ASSUME IInv, NEW s \in Sweep, NEW pc \in {"next", "releasing"}, NEW todo \in SUBSET sweeps[s].todo,
         NEW current \in Message \cup {NoMessage},
         pc = "next" <=> current = NoMessage,
         Turn(s, pc, todo, current),
         UNCHANGED queue,
         rows' \in [Message -> Row],
         \A m \in Message : /\ rows'[m].status = "claimed" <=> rows'[m].by # NoSweep
                            /\ rows'[m].attempts = rows[m].attempts
                            /\ rows[m].status # "absent" => rows'[m].status # "absent",
         faults' \in 0 .. MaxFaults
  PROVE  TypeOK' /\ BatchInv' /\ ClaimsInv'
<1> USE DEF IInv
<1>1. UNCHANGED <<accepted, live>>
  BY DEF queue
<1>2. todo \in SUBSET Message
  BY Fields
<1>3. /\ sweeps' \in [Sweep -> SweepState]
      /\ sweeps'[s].pc = pc /\ sweeps'[s].todo = todo /\ sweeps'[s].current = current
      /\ \A t \in Sweep : t # s => sweeps'[t] = sweeps[t]
  BY <1>2, SweepSet DEF Turn
<1>4. TypeOK'
  BY <1>1, <1>3 DEF TypeOK
<1>5. BatchInv'
  <2>1. ASSUME NEW t \in Sweep, t # s
        PROVE  /\ \A n \in sweeps'[t].todo : rows'[n].status # "absent"
               /\ sweeps'[t].pc \in {"marking", "releasing"} => sweeps'[t].current \in Message
               /\ sweeps'[t].pc = "marking" => accepted'[sweeps'[t].current] > 0
               /\ sweeps'[t].pc = "next" => sweeps'[t].current = NoMessage
    BY <2>1, <1>1, <1>3, Fields DEF BatchInv
  <2>2. \A n \in todo : rows'[n].status # "absent"
    BY <1>2 DEF BatchInv
  <2>3. QED BY <2>1, <2>2, <1>1, <1>3, MessageAssumption DEF BatchInv
<1>6. ClaimsInv'
  <2> SUFFICES ASSUME NEW m \in Message
               PROVE  (accepted[m] + Cardinality(Holding(m)) <= rows[m].attempts)'
    BY DEF ClaimsInv
  <2>1. Holding(m)' \subseteq Holding(m)
    BY <1>3 DEF Holding
  <2>2. Cardinality(Holding(m)') <= Cardinality(Holding(m)) /\ Cardinality(Holding(m)') \in Nat
    BY <2>1, HoldingFinite, FS_Subset, FS_CardinalityType
  <2>3. /\ accepted[m] \in Nat /\ rows[m].attempts \in Nat
        /\ accepted[m] + Cardinality(Holding(m)) <= rows[m].attempts
    BY Fields DEF ClaimsInv
  <2>4. accepted'[m] = accepted[m] /\ rows'[m].attempts = rows[m].attempts
    BY <1>1
  <2>5. QED BY <2>2, <2>3, <2>4, HoldingFinite
<1>7. QED BY <1>4, <1>5, <1>6

\* The row of a sweep's current message is settled, or left alone when the
\* claim is not the worker's.
LEMMA SettledRow ==
  ASSUME IInv, NEW s \in Sweep, NEW m \in Message, NEW d \in BOOLEAN,
         NEW st \in {"pending", "dispatched"},
         IF Mine(s, m) THEN SetStatus(m, st, d) ELSE UNCHANGED rows
  PROVE  /\ rows' \in [Message -> Row]
         /\ \A n \in Message : /\ rows'[n].status = "claimed" <=> rows'[n].by # NoSweep
                               /\ rows'[n].attempts = rows[n].attempts
                               /\ rows[n].status # "absent" => rows'[n].status # "absent"
<1> USE DEF IInv
<1>1. CASE Mine(s, m)
  BY <1>1, StatusSet
<1>2. CASE ~Mine(s, m)
  BY <1>2 DEF TypeOK
<1>3. QED BY <1>1, <1>2

LEMMA MarkOK == ASSUME IInv, NEW s \in Sweep, Mark(s) PROVE IInv'
<1> USE DEF IInv
<1> DEFINE m == sweeps[s].current
<1>1. /\ sweeps[s].pc = "marking" /\ m \in Message
      /\ IF Mine(s, m) THEN SetStatus(m, "dispatched", TRUE) ELSE UNCHANGED rows
      /\ Continue(s) /\ UNCHANGED queue /\ faults' = faults
  BY DEF Mark, BatchInv
<1>2. Turn(s, "next", sweeps[s].todo, NoMessage)
  BY <1>1 DEF Continue
<1>3. TypeOK' /\ BatchInv' /\ ClaimsInv'
  <2>1. /\ rows' \in [Message -> Row]
        /\ \A n \in Message : /\ rows'[n].status = "claimed" <=> rows'[n].by # NoSweep
                              /\ rows'[n].attempts = rows[n].attempts
                              /\ rows[n].status # "absent" => rows'[n].status # "absent"
    BY <1>1, SettledRow
  <2>2. faults' \in 0 .. MaxFaults
    BY <1>1 DEF TypeOK
  <2>3. QED BY <1>1, <1>2, <2>1, <2>2, SettleOK
<1>4. QuietInv'
  <2> SUFFICES ASSUME faults = 0 PROVE QuietInv'
    BY <1>1 DEF QuietInv
  <2>1. /\ sweeps'[s].pc = "next" /\ sweeps'[s].todo = sweeps[s].todo
        /\ \A t \in Sweep : t # s => sweeps'[t] = sweeps[t]
    BY <1>2, SweepSet, Fields
  <2>2. ASSUME NEW n \in Message PROVE Quiet(n)'
    <3>1. Quiet(n) /\ (rows[n].status = "claimed" => rows[n].by \in Sweep)
      BY Fields DEF QuietInv
    <3>2. CASE n = m /\ Mine(s, m)
      <4>1. rows'[n].status = "dispatched" /\ rows'[n].attempts = rows[n].attempts
        BY <3>2, <1>1, StatusSet
      <4>2. QED BY <4>1, <3>1 DEF Quiet
    <3>3. CASE ~(n = m /\ Mine(s, m))
      <4>1. rows'[n] = rows[n]
        BY <3>3, <1>1, StatusSet
      <4>2. rows[n].status = "claimed" /\ rows[n].by = s => n # m
        BY <3>3 DEF Mine
      <4>3. QED BY <4>1, <4>2, <3>1, <2>1 DEF Quiet, InUse
    <3>4. QED BY <3>2, <3>3
  <2>3. QED BY <2>1, <2>2 DEF QuietInv
<1>5. QED BY <1>3, <1>4

LEMMA MarkFailsOK == ASSUME IInv, NEW s \in Sweep, MarkFails(s) PROVE IInv'
<1> USE DEF IInv
<1>1. Turn(s, "releasing", sweeps[s].todo, sweeps[s].current)
  BY DEF MarkFails
<1>2. sweeps[s].current \in Message /\ UNCHANGED <<rows, queue>>
  BY DEF MarkFails, BatchInv
<1>3. faults' \in 0 .. MaxFaults /\ faults' # 0
  BY FaultCounted DEF MarkFails
<1>4. /\ rows' \in [Message -> Row]
      /\ \A m \in Message : /\ rows'[m].status = "claimed" <=> rows'[m].by # NoSweep
                            /\ rows'[m].attempts = rows[m].attempts
                            /\ rows[m].status # "absent" => rows'[m].status # "absent"
  BY <1>2 DEF TypeOK
<1>5. QED BY <1>1, <1>2, <1>3, <1>4, SettleOK, MessageAssumption DEF QuietInv

LEMMA ReleaseOK == ASSUME IInv, NEW s \in Sweep, Release(s) PROVE IInv'
<1> USE DEF IInv
<1> DEFINE m == sweeps[s].current
<1>1. /\ sweeps[s].pc = "releasing" /\ m \in Message
      /\ IF Mine(s, m) THEN SetStatus(m, "pending", FALSE) ELSE UNCHANGED rows
      /\ Continue(s) /\ UNCHANGED queue /\ faults' = faults
  BY DEF Release, BatchInv
<1>2. Turn(s, "next", sweeps[s].todo, NoMessage)
  BY <1>1 DEF Continue
<1>3. /\ rows' \in [Message -> Row]
      /\ \A n \in Message : /\ rows'[n].status = "claimed" <=> rows'[n].by # NoSweep
                            /\ rows'[n].attempts = rows[n].attempts
                            /\ rows[n].status # "absent" => rows'[n].status # "absent"
  BY <1>1, SettledRow
<1>4. faults' \in 0 .. MaxFaults /\ faults' # 0
  BY <1>1 DEF TypeOK, QuietInv
<1>5. QED BY <1>1, <1>2, <1>3, <1>4, SettleOK DEF QuietInv

LEMMA AbortOK == ASSUME IInv, NEW s \in Sweep, Abort(s) PROVE IInv'
<1> USE DEF IInv
<1>1. Turn(s, "next", {}, NoMessage) /\ UNCHANGED <<rows, queue>>
  BY DEF Abort, Rest, Turn
<1>2. faults' \in 0 .. MaxFaults /\ faults' # 0
  BY FaultCounted DEF Abort
<1>3. /\ rows' \in [Message -> Row]
      /\ \A m \in Message : /\ rows'[m].status = "claimed" <=> rows'[m].by # NoSweep
                            /\ rows'[m].attempts = rows[m].attempts
                            /\ rows[m].status # "absent" => rows'[m].status # "absent"
  BY <1>1 DEF TypeOK
<1>4. QED BY <1>1, <1>2, <1>3, SettleOK DEF QuietInv

LEMMA StepOK == IInv /\ [Next]_vars => IInv'
<1> SUFFICES ASSUME IInv, [Next]_vars PROVE IInv'
  OBVIOUS
<1>1. CASE UNCHANGED vars
  BY <1>1 DEF vars, queue, IInv, TypeOK, BatchInv, ClaimsInv, Holding, QuietInv, Quiet, InUse
<1>2. QED BY <1>1, CommitOK, WithdrawOK, ExpireOK, BackoffOK, JobEndsOK, ClaimOK, PublishOK,
             PublishFailsOK, MarkOK, MarkFailsOK, ReleaseOK, AbortOK DEF Next, Proceed

LEMMA IInvAlways == Spec => []IInv
BY InitOK, StepOK, PTL DEF Spec

-----------------------------------------------------------------------------
\* The outbox's rows and sweeps are always of their types.
THEOREM TypeCorrect == Spec => []TypeOK
<1>1. IInv => TypeOK
  BY DEF IInv
<1>2. QED BY <1>1, IInvAlways, PTL

\* No message ever has more jobs than claims: deliveryAttempts counts them all.
THEOREM JobsAlwaysNeedClaims == Spec => []JobsNeedClaims
<1>1. ASSUME IInv PROVE JobsNeedClaims
  <2> SUFFICES ASSUME NEW m \in Message PROVE accepted[m] <= rows[m].attempts
    BY DEF JobsNeedClaims
  <2>1. accepted[m] \in Nat /\ rows[m].attempts \in Nat
    BY <1>1, Fields DEF IInv
  <2>2. accepted[m] + Cardinality(Holding(m)) <= rows[m].attempts
    BY <1>1 DEF IInv, ClaimsInv
  <2>3. QED BY <2>1, <2>2, HoldingFinite
<1>2. QED BY <1>1, IInvAlways, PTL

\* Until something fails or expires, a message becomes at most one job.
THEOREM OneJobWithoutFault == Spec => []OneJobUnlessFault
<1>1. ASSUME IInv PROVE OneJobUnlessFault
  <2> SUFFICES ASSUME faults = 0, NEW m \in Message PROVE accepted[m] <= 1
    BY DEF OneJobUnlessFault
  <2>1. accepted[m] \in Nat /\ rows[m].attempts \in Nat
    BY <1>1, Fields DEF IInv
  <2>2. accepted[m] + Cardinality(Holding(m)) <= rows[m].attempts
    BY <1>1 DEF IInv, ClaimsInv
  <2>3. rows[m].attempts <= 1
    BY <1>1 DEF IInv, QuietInv, Quiet
  <2>4. QED BY <2>1, <2>2, <2>3, HoldingFinite
<1>2. QED BY <1>1, IInvAlways, PTL

-----------------------------------------------------------------------------
\* The claim that a settled row had was that of the sweep's worker.

ClaimKept(m) ==
  rows[m].status = "claimed" =>
    /\ rows'[m].status \in {"pending", "dispatched"} =>
         \E s \in Sweep : /\ OwnerOf[s] = OwnerOf[rows[m].by]
                          /\ sweeps[s].current = m /\ sweeps'[s].current # m
    /\ rows'[m].attempts # rows[m].attempts => rows[m].expired

LEMMA SettleKeepsClaims ==
  ASSUME IInv, NEW s \in Sweep, Mark(s) \/ Release(s), NEW m \in Message
  PROVE  ClaimKept(m)
<1> DEFINE current == sweeps[s].current
<1>1. PICK st \in {"pending", "dispatched"}, d \in BOOLEAN :
        IF Mine(s, current) THEN SetStatus(current, st, d) ELSE UNCHANGED rows
  BY DEF Mark, Release
<1>2. current \in Message /\ Continue(s)
  BY DEF Mark, Release, IInv, BatchInv
<1>3. sweeps'[s].current = NoMessage
  BY <1>2, Fields, SweepSet DEF Continue, IInv
<1>4. CASE Mine(s, current) /\ m = current
  <2>1. OwnerOf[s] = OwnerOf[rows[m].by] /\ sweeps'[s].current # m
    BY <1>3, <1>4, MessageAssumption DEF Mine
  <2>2. rows'[m].attempts = rows[m].attempts
    BY <1>1, <1>2, <1>4, StatusSet DEF IInv
  <2>3. QED BY <1>4, <2>1, <2>2 DEF ClaimKept
<1>5. CASE ~(Mine(s, current) /\ m = current)
  <2>1. rows'[m] = rows[m]
    BY <1>1, <1>2, <1>5, StatusSet DEF IInv
  <2>2. QED BY <2>1 DEF ClaimKept
<1>6. QED BY <1>4, <1>5

\* A late sweep of another worker never ends a claim, and no sweep takes one over
\* before it has expired.
THEOREM ClaimsStayWithWorkers == Spec => ClaimStaysWithWorker
<1>1. ASSUME IInv, [Next]_vars, NEW m \in Message PROVE ClaimKept(m)
  <2>1. ASSUME NEW n \in Message, Commit(n) \/ Withdraw(n) PROVE ClaimKept(m)
    <3>1. CASE Commit(n)
      <4>1. m # n => rows'[m] = rows[m]
        BY <1>1, <3>1, StatusSet DEF Commit, IInv
      <4>2. QED BY <3>1, <4>1 DEF Commit, ClaimKept
    <3>2. CASE Withdraw(n)
      <4>1. rows[n].due \in BOOLEAN /\ SetStatus(n, "cancelled", rows[n].due)
        BY <1>1, <3>2, Fields DEF Withdraw, IInv
      <4>2. /\ rows'[n].status = "cancelled" /\ rows'[n].attempts = rows[n].attempts
            /\ m # n => rows'[m] = rows[m]
        BY <1>1, <4>1, StatusSet DEF IInv
      <4>3. QED BY <4>2 DEF ClaimKept
    <3>3. QED BY <2>1, <3>1, <3>2
  <2>2. ASSUME NEW n \in Message, Expire(n) \/ BackoffEnds(n) PROVE ClaimKept(m)
    <3>1. rows'[m].status = rows[m].status /\ rows'[m].attempts = rows[m].attempts
      BY <1>1, <2>2 DEF Expire, BackoffEnds, IInv, TypeOK, Row
    <3>2. QED BY <3>1 DEF ClaimKept
  <2>3. ASSUME NEW s \in Sweep, NEW batch \in SUBSET Message, Claim(s, batch) PROVE ClaimKept(m)
    <3>1. rows' = [n \in Message |-> IF n \in batch THEN ClaimedRow(s, n) ELSE rows[n]]
      BY <2>3 DEF Claim
    <3>2. m \in batch => rows'[m].status = "claimed" /\ Due(m)
      BY <2>3, <3>1 DEF Claim, ClaimedRow
    <3>3. QED BY <3>1, <3>2 DEF ClaimKept, Due
  <2>4. ASSUME UNCHANGED rows PROVE ClaimKept(m)
    BY <2>4 DEF ClaimKept
  <2>5. QED BY <1>1, <2>1, <2>2, <2>3, <2>4, SettleKeepsClaims
            DEF Next, Proceed, JobEnds, Publish, PublishFails, Abort, MarkFails, vars
<1>2. IInv /\ [Next]_vars => [\A m \in Message : ClaimKept(m)]_vars
  BY <1>1
<1>3. Spec => [][\A m \in Message : ClaimKept(m)]_vars
  BY <1>2, IInvAlways, PTL DEF Spec
<1>4. QED BY <1>3 DEF ClaimKept, ClaimStaysWithWorker

-----------------------------------------------------------------------------
\* The refinement.

states == [m \in Message |-> State(m)]

LEMMA RelayInit == Init => Relay!Init
BY DEF Init, Relay!Init, State

\* A step that changes the status of one message at most.
LEMMA StatesSet ==
  ASSUME TypeOK, NEW m \in Message, NEW d \in BOOLEAN,
         NEW st \in {"pending", "dispatched", "cancelled"}, SetStatus(m, st, d)
  PROVE  states' = [states EXCEPT ![m] = CASE st = "pending" -> "waiting"
                                           [] st = "dispatched" -> "done"
                                           [] st = "cancelled" -> "withdrawn"]
BY StatusSet DEF states, State

\* Publishing accepts one copy, or none.
LEMMA SendIsAccept ==
  ASSUME IInv, NEW s \in Sweep, NEW m \in Message, m \in sweeps[s].todo,
         Send(m) \/ UNCHANGED queue, UNCHANGED rows
  PROVE  Relay!Next \/ UNCHANGED Relay!vars
<1>1. states' = states
  BY DEF states, State
<1>2. CASE Send(m) /\ m \notin live
  <2>1. accepted' = [accepted EXCEPT ![m] = accepted[m] + 1]
    BY <1>2 DEF Send
  <2>2. states[m] # "absent"
    BY Fields DEF IInv, BatchInv, states, State
  <2>3. Relay!Accept(m)
    BY <1>1, <2>1, <2>2 DEF Relay!Accept, states
  <2>4. QED BY <2>3 DEF Relay!Next
<1>3. CASE ~(Send(m) /\ m \notin live)
  BY <1>1, <1>3 DEF Send, queue, Relay!vars, states
<1>4. QED BY <1>2, <1>3

LEMMA MarkIsFinish ==
  ASSUME IInv, NEW s \in Sweep, Mark(s) PROVE Relay!Next \/ UNCHANGED Relay!vars
<1> DEFINE m == sweeps[s].current
<1>1. /\ m \in Message /\ accepted[m] > 0 /\ accepted' = accepted
      /\ IF Mine(s, m) THEN SetStatus(m, "dispatched", TRUE) ELSE UNCHANGED rows
  BY DEF Mark, IInv, BatchInv, queue
<1>2. CASE Mine(s, m)
  <2>1. states' = [states EXCEPT ![m] = "done"]
    BY <1>1, <1>2, StatesSet DEF IInv
  <2>2. states[m] = "waiting"
    BY <1>1, <1>2 DEF Mine, states, State
  <2>3. Relay!Finish(m)
    BY <1>1, <2>1, <2>2 DEF Relay!Finish, Relay!Move, states
  <2>4. QED BY <1>1, <2>3 DEF Relay!Next
<1>3. CASE ~Mine(s, m)
  BY <1>1, <1>3 DEF Relay!vars, State
<1>4. QED BY <1>2, <1>3

LEMMA RelayStep == IInv /\ [Next]_vars => [Relay!Next]_(Relay!vars)
<1> SUFFICES ASSUME IInv, [Next]_vars PROVE Relay!Next \/ UNCHANGED Relay!vars
  OBVIOUS
<1> DEFINE same == UNCHANGED <<states, accepted>>
<1>1. same => UNCHANGED Relay!vars
  BY DEF Relay!vars, states
<1>2. ASSUME NEW m \in Message, Commit(m) PROVE Relay!Next
  <2>1. /\ SetStatus(m, "pending", TRUE) /\ accepted' = accepted /\ states[m] = "absent"
    BY <1>2 DEF Commit, queue, states, State
  <2>2. states' = [states EXCEPT ![m] = "waiting"]
    BY <2>1, StatesSet DEF IInv
  <2>3. Relay!Commit(m)
    BY <2>1, <2>2 DEF Relay!Commit, Relay!Move, states
  <2>4. QED BY <2>3 DEF Relay!Next
<1>3. ASSUME NEW m \in Message, Withdraw(m) PROVE Relay!Next
  <2>1. /\ SetStatus(m, "cancelled", rows[m].due) /\ rows[m].due \in BOOLEAN
        /\ accepted' = accepted /\ states[m] = "waiting"
    BY <1>3, Fields DEF Withdraw, queue, states, State, IInv
  <2>2. states' = [states EXCEPT ![m] = "withdrawn"]
    BY <2>1, StatesSet DEF IInv
  <2>3. Relay!Withdraw(m)
    BY <2>1, <2>2 DEF Relay!Withdraw, Relay!Move, states
  <2>4. QED BY <2>3 DEF Relay!Next
<1>4. ASSUME NEW m \in Message, Expire(m) \/ BackoffEnds(m) PROVE same
  <2>1. \A n \in Message : rows'[n].status = rows[n].status
    BY <1>4 DEF Expire, BackoffEnds, IInv, TypeOK, Row
  <2>2. QED BY <1>4, <2>1 DEF Expire, BackoffEnds, queue, states, State
<1>5. ASSUME NEW m \in Message, JobEnds(m) PROVE same
  BY <1>5 DEF JobEnds, states, State
<1>6. ASSUME NEW s \in Sweep, Abort(s) \/ MarkFails(s) PROVE same
  BY <1>6 DEF Abort, MarkFails, queue, states, State
<1>7. ASSUME NEW s \in Sweep, NEW batch \in SUBSET Message, Claim(s, batch) PROVE same
  <2>1. ASSUME NEW n \in Message PROVE State(n)' = State(n)
    <3>1. CASE n \in batch
      <4>1. rows'[n].status = "claimed" /\ rows[n].status \in {"pending", "claimed"}
        BY <1>7, <3>1 DEF Claim, Due, ClaimedRow
      <4>2. QED BY <4>1 DEF State
    <3>2. CASE n \notin batch
      BY <1>7, <3>2 DEF Claim, State
    <3>3. QED BY <3>1, <3>2
  <2>2. QED BY <1>7, <2>1 DEF Claim, queue, states
<1>8. ASSUME NEW s \in Sweep, Release(s) PROVE same
  <2> DEFINE m == sweeps[s].current
  <2>1. /\ m \in Message /\ accepted' = accepted
        /\ IF Mine(s, m) THEN SetStatus(m, "pending", FALSE) ELSE UNCHANGED rows
    BY <1>8 DEF Release, IInv, BatchInv, queue
  <2>2. CASE Mine(s, m)
    <3>1. states' = [states EXCEPT ![m] = "waiting"] /\ states[m] = "waiting"
      BY <2>1, <2>2, StatesSet DEF Mine, states, State, IInv
    <3>2. QED BY <2>1, <3>1 DEF states
  <2>3. CASE ~Mine(s, m)
    BY <2>1, <2>3 DEF states, State
  <2>4. QED BY <2>2, <2>3
<1>9. ASSUME NEW s \in Sweep, NEW m \in Message, Publish(s, m) \/ PublishFails(s, m)
      PROVE  Relay!Next \/ UNCHANGED Relay!vars
  BY <1>9, SendIsAccept DEF Publish, PublishFails
<1>10. ASSUME UNCHANGED vars PROVE same
  BY <1>10 DEF vars, queue, states, State
<1>11. QED BY <1>1, <1>2, <1>3, <1>4, <1>5, <1>6, <1>7, <1>8, <1>9, <1>10, MarkIsFinish
           DEF Next, Proceed

\* The relay keeps the outbox's promise, whatever fails: done implies accepted,
\* done and withdrawn are final.
THEOREM RelayImplemented == Spec => ImplementsRelay
<1>1. QED BY RelayInit, RelayStep, IInvAlways, PTL DEF ImplementsRelay, Relay!Spec, Spec
=============================================================================
