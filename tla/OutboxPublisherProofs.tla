------------------------- MODULE OutboxPublisherProofs -------------------------
(***************************************************************************)
(* Theorems about OutboxPublisher, for every set of events and replicas,   *)
(* every budget, batch size, concurrency and number of crashes: its types, *)
(* why a row is settled, the fence of the results, and that it implements  *)
(* the safety of HandOff.                                                  *)
(***************************************************************************)
EXTENDS OutboxPublisher, FiniteSetTheorems, TLAPS

\* A row of outbox_events: only a claim has a lease, a row fails with its budget
\* spent, and a claim of the old publisher stays as it was found.
RowSound(e, r) ==
    /\ r \in OutboxRow
    /\ r.status # "PROCESSING" => r.lease = "none"
    /\ r.status = "FAILED" => r.attempts = MaxAttempts
    /\ e \in LegacyClaims => r.status = "PROCESSING" /\ r.lease = "none"

RowsSound ==
    /\ row = [e \in Events |-> row[e]]
    /\ \A e \in Events : RowSound(e, row[e])

\* A send that the broker has confirmed was received.
SendsSound ==
    /\ pub \in [Publishers -> Publisher]
    /\ \A p \in Publishers : \A s \in pub[p].sends :
         s.result = "confirmed" => MessageOf(s) \in received

\* What is sent has been saved, and the old publisher's claims are not sent.
WireSound ==
    /\ wire \subseteq Message /\ received \subseteq Message
    /\ \A m \in wire \cup received :
         m.event \notin LegacyClaims /\ row[m.event].status # "ABSENT"

PublishedForAReason ==
    \A e \in Events : row[e].status = "COMPLETED" => \E m \in received : m.event = e

\* The inductive invariant.
OutboxInv ==
    /\ RowsSound /\ SendsSound /\ WireSound /\ PublishedForAReason
    /\ crashes \in 0..CrashBound

LEMMA OutboxInvProves == OutboxInv => OutboxTypeOK /\ SettledForAReason
  BY DEF OutboxInv, OutboxTypeOK, SettledForAReason, RowsSound, RowSound, SendsSound,
         WireSound, PublishedForAReason
-----------------------------------------------------------------------------
(***************************************************************************)
(* What can happen to one row, and that it stays sound.                    *)
(***************************************************************************)
ClaimedRow(r) ==
    [r EXCEPT !.status = "PROCESSING", !.attempts = @ + 1, !.lease = "live"]
PublishedRow(r) == [r EXCEPT !.status = "COMPLETED", !.lease = "none"]
EndedRow(r)     == [r EXCEPT !.lease = "ended"]
DueRow(r)       == [r EXCEPT !.due = TRUE]

\* The columns of a row after a claim that did not succeed.
LEMMA RetriedColumns ==
    ASSUME NEW r \in OutboxRow
    PROVE  /\ Retried(r) \in OutboxRow
           /\ Retried(r).lease = "none" /\ Retried(r).attempts = r.attempts
           /\ Retried(r).status \in {"PENDING", "FAILED"}
           /\ Retried(r).status = "FAILED" => r.attempts = MaxAttempts
<1>1. r.attempts \in 0..MaxAttempts
  BY DEF OutboxRow
<1> DEFINE status == IF r.attempts >= MaxAttempts THEN "FAILED" ELSE "PENDING"
<1>2. /\ status \in {"PENDING", "FAILED"}
      /\ status = "FAILED" => r.attempts = MaxAttempts
  BY <1>1, OutboxAssumption
<1>3. Retried(r) = [r EXCEPT !.status = status, !.lease = "none", !.due = FALSE]
  BY DEF Retried
<1> HIDE DEF status
<1> QED
  BY <1>2, <1>3 DEF OutboxRow, Status

LEMMA ClaimedColumns ==
    ASSUME NEW r \in OutboxRow, r.attempts < MaxAttempts
    PROVE  /\ ClaimedRow(r) \in OutboxRow
           /\ ClaimedRow(r).status = "PROCESSING" /\ ClaimedRow(r).lease = "live"
           /\ ClaimedRow(r).attempts = r.attempts + 1
<1>1. r.attempts \in 0..MaxAttempts /\ r.attempts + 1 \in 0..MaxAttempts
  BY OutboxAssumption DEF OutboxRow
<1> QED
  BY <1>1 DEF ClaimedRow, OutboxRow, Status

LEMMA OtherColumns ==
    ASSUME NEW r \in OutboxRow
    PROVE  /\ PublishedRow(r) \in OutboxRow /\ EndedRow(r) \in OutboxRow /\ DueRow(r) \in OutboxRow
           /\ PublishedRow(r).status = "COMPLETED" /\ PublishedRow(r).lease = "none"
           /\ EndedRow(r).status = r.status /\ EndedRow(r).lease = "ended"
           /\ EndedRow(r).attempts = r.attempts
           /\ DueRow(r).status = r.status /\ DueRow(r).lease = r.lease
           /\ DueRow(r).attempts = r.attempts
  BY DEF PublishedRow, EndedRow, DueRow, OutboxRow, Status

LEMMA NewColumns ==
    ASSUME NEW status \in Status, NEW attempts \in 0..MaxAttempts
    PROVE  /\ NewRow(status, attempts) \in OutboxRow
           /\ NewRow(status, attempts).status = status
           /\ NewRow(status, attempts).attempts = attempts
           /\ NewRow(status, attempts).lease = "none"
  BY DEF NewRow, OutboxRow

\* The send of the claim that the row has is over, with this result.
OwnerIsDone(e, result) ==
    \E p \in Publishers : \E s \in pub[p].sends \ pub'[p].sends :
        s.event = e /\ s.attempt = row[e].attempts /\ s.result = result

PublisherConfirms(e) ==
    \E p \in Publishers : \E s \in pub[p].sends :
        s.event = e /\ s.result = "confirmed"

RowMoves(e) ==
    LET r == row[e] IN
    \/ row'[e] = r
    \/ r.status = "ABSENT" /\ row'[e] = NewRow("PENDING", 0)
    \/ r.lease = "live" /\ row'[e] = EndedRow(r)
    \/ r.status = "PENDING" /\ row'[e] = DueRow(r)
    \/ /\ r.status = "PROCESSING" /\ r.lease = "ended" /\ Ticks("idle", "sweep")
       /\ row'[e] = Retried(r)
    \/ /\ r.status = "PENDING" /\ r.attempts >= MaxAttempts /\ Ticks("sweep", "claim")
       /\ row'[e] = Retried(r)
    \/ /\ r.status = "PENDING" /\ r.due /\ r.attempts < MaxAttempts
       /\ Ticks("claim", "wave") /\ row'[e] = ClaimedRow(r)
    \/ /\ r.status = "PROCESSING" /\ r.lease = "live"
       /\ \/ OwnerIsDone(e, "failed") /\ row'[e] = Retried(r)
          \/ /\ OwnerIsDone(e, "confirmed") /\ PublisherConfirms(e)
             /\ row'[e] = PublishedRow(r)

\* No move makes a row absent or publishes it unconfirmed; and it stays sound.
LEMMA MoveKeepsRow ==
    ASSUME NEW e \in Events, RowSound(e, row[e]), RowMoves(e)
    PROVE  /\ RowSound(e, row'[e])
           /\ row[e].status # "ABSENT" => row'[e].status # "ABSENT"
           /\ row'[e].status = "COMPLETED" =>
                row[e].status = "COMPLETED" \/ PublisherConfirms(e)
<1>1. row[e] \in OutboxRow
  BY DEF RowSound
<1> QED
  BY <1>1, RetriedColumns, ClaimedColumns, OtherColumns, NewColumns, OutboxAssumption
     DEF RowMoves, RowSound, Status
-----------------------------------------------------------------------------
(***************************************************************************)
(* Every step moves every row, and keeps sends and messages sound.         *)
(***************************************************************************)
\* The table after a step, row by row.
TableMoves ==
    /\ row' = [e \in Events |-> row'[e]]
    /\ \A e \in Events : RowMoves(e)

LEMMA OneRowMoves ==
    ASSUME RowsSound, NEW e \in Events, NEW r, row' = [row EXCEPT ![e] = r],
           RowMoves(e)
    PROVE  TableMoves
  BY DEF RowsSound, TableMoves, RowMoves

LEMMA NoRowMoves ==
    ASSUME RowsSound, row' = row
    PROVE  TableMoves
  BY DEF RowsSound, TableMoves, RowMoves

\* Time, and the transaction that saves an event.
LEMMA TimeMoves ==
    ASSUME OutboxInv, NEW e \in Events, Save(e) \/ LeaseEnds(e) \/ BackoffEnds(e)
    PROVE  TableMoves
<1>1. RowsSound /\ row[e] \in OutboxRow
  BY DEF OutboxInv, RowsSound, RowSound
<1>2. CASE Save(e)
  <2>1. row' = [row EXCEPT ![e] = NewRow("PENDING", 0)] /\ row[e].status = "ABSENT"
    BY <1>2 DEF Save
  <2>2. row'[e] = NewRow("PENDING", 0)
    BY <1>1, <2>1 DEF RowsSound
  <2> QED
    BY <1>1, <2>1, <2>2, OneRowMoves DEF RowMoves
<1>3. CASE LeaseEnds(e)
  <2>1. row' = [row EXCEPT ![e] = EndedRow(row[e])] /\ row[e].lease = "live"
    BY <1>3 DEF LeaseEnds, EndedRow
  <2>2. row'[e] = EndedRow(row[e])
    BY <1>1, <2>1 DEF RowsSound
  <2> QED
    BY <1>1, <2>1, <2>2, OneRowMoves DEF RowMoves
<1>4. CASE BackoffEnds(e)
  <2>1. row' = [row EXCEPT ![e] = DueRow(row[e])] /\ row[e].status = "PENDING"
    BY <1>4 DEF BackoffEnds, DueRow
  <2>2. row'[e] = DueRow(row[e])
    BY <1>1, <2>1 DEF RowsSound
  <2> QED
    BY <1>1, <2>1, <2>2, OneRowMoves DEF RowMoves
<1> QED
  BY <1>2, <1>3, <1>4

\* The two statements that begin a tick.
LEMMA SweepMoves ==
    ASSUME OutboxInv, NEW p \in Publishers,
           RecoverExpiredClaims(p) \/ FailExhaustedPending(p)
    PROVE  TableMoves
<1>1. pub \in [Publishers -> Publisher] /\ pub[p] \in Publisher
  BY DEF OutboxInv, SendsSound
<1>2. CASE RecoverExpiredClaims(p)
  <2>1. PICK S \in SUBSET Recoverable :
           row' = [e \in Events |-> IF e \in S THEN Retried(row[e]) ELSE row[e]]
    BY <1>2 DEF RecoverExpiredClaims, UpTo
  <2>2. Ticks("idle", "sweep")
    BY <1>1, <1>2 DEF RecoverExpiredClaims, Goto, Ticks, Publisher
  <2> QED
    BY <2>1, <2>2 DEF TableMoves, RowMoves, Recoverable
<1>3. CASE FailExhaustedPending(p)
  <2>1. PICK S \in SUBSET {e \in Events : row[e].status = "PENDING"
                                          /\ row[e].attempts >= MaxAttempts} :
           row' = [e \in Events |-> IF e \in S THEN Retried(row[e]) ELSE row[e]]
    BY <1>3 DEF FailExhaustedPending, UpTo
  <2>2. Ticks("sweep", "claim")
    BY <1>1, <1>3 DEF FailExhaustedPending, Goto, Ticks, Publisher
  <2> QED
    BY <2>1, <2>2 DEF TableMoves, RowMoves
<1> QED
  BY <1>2, <1>3

LEMMA ClaimMoves ==
    ASSUME OutboxInv, NEW p \in Publishers, ClaimEvents(p)
    PROVE  TableMoves
<1>1. pub \in [Publishers -> Publisher] /\ pub[p] \in Publisher /\ pub[p].pc = "claim"
  BY DEF OutboxInv, SendsSound, ClaimEvents
<1>2. PICK S \in SUBSET Claimable :
         /\ row' = [e \in Events |-> IF e \in S THEN ClaimedRow(row[e]) ELSE row[e]]
         /\ S # {} => \E claimed, sends :
              pub' = [pub EXCEPT ![p] = [pc |-> "wave", claimed |-> claimed, sends |-> sends]]
  BY DEF ClaimEvents, UpTo, ClaimedRow
<1>3. S # {} => Ticks("claim", "wave")
  BY <1>1, <1>2 DEF Ticks
<1> QED
  BY <1>2, <1>3 DEF TableMoves, RowMoves, Claimable

\* The two updates behind the fence.
LEMMA ResultMoves ==
    ASSUME OutboxInv, NEW p \in Publishers, NEW s \in pub[p].sends,
           RecordSuccess(p, s) \/ RecordFailure(p, s)
    PROVE  TableMoves
<1>1. RowsSound /\ pub \in [Publishers -> Publisher]
  BY DEF OutboxInv, SendsSound
<1>2. s \in Send /\ s.event \in Events
  BY <1>1 DEF Publisher, Send
<1>3. CASE ~Owns(s)
  BY <1>1, <1>3, NoRowMoves DEF RecordSuccess, RecordFailure
<1>4. CASE Owns(s)
  <2> DEFINE e == s.event
  <2>1. row[e].status = "PROCESSING" /\ row[e].lease = "live" /\ row[e].attempts = s.attempt
    BY <1>4 DEF Owns
  <2>2. s \in pub[p].sends \ pub'[p].sends
    BY <1>1 DEF RecordSuccess, RecordFailure, Done, Publisher
  <2>3. OwnerIsDone(e, s.result)
    BY <2>1, <2>2 DEF OwnerIsDone
  <2>4. CASE RecordSuccess(p, s)
    <3>1. PublisherConfirms(e) /\ OwnerIsDone(e, "confirmed")
      BY <2>3, <2>4 DEF RecordSuccess, PublisherConfirms
    <3>2. row' = [row EXCEPT ![e] = PublishedRow(row[e])]
      BY <1>1, <1>2, <1>4, <2>4 DEF RecordSuccess, PublishedRow, RowsSound
    <3>3. row'[e] = PublishedRow(row[e])
      BY <1>1, <1>2, <3>2 DEF RowsSound
    <3> QED
      BY <1>1, <1>2, <2>1, <3>1, <3>2, <3>3, OneRowMoves DEF RowMoves
  <2>5. CASE RecordFailure(p, s)
    <3>1. row' = [row EXCEPT ![e] = Retried(row[e])]
      BY <1>4, <2>5 DEF RecordFailure
    <3>2. row'[e] = Retried(row[e])
      BY <1>1, <1>2, <3>1 DEF RowsSound
    <3>3. OwnerIsDone(e, "failed")
      BY <2>3, <2>5 DEF RecordFailure
    <3> QED
      BY <1>1, <1>2, <2>1, <3>1, <3>2, <3>3, OneRowMoves DEF RowMoves
  <2> QED
    BY <2>4, <2>5
<1> QED
  BY <1>3, <1>4

LEMMA EveryStepMoves ==
    ASSUME OutboxInv, [Next]_outboxVars
    PROVE  TableMoves
<1>1. RowsSound
  BY DEF OutboxInv
<1>2. ASSUME NEW p \in Publishers,
             SendEnds(p) \/ EndWave(p) \/ Crash(p) \/ (\E s \in pub[p].sends : CannotRecord(p, s))
      PROVE  row' = row
  BY <1>2 DEF SendEnds, Confirm, GiveUpWaiting, EndWave, Crash, CannotRecord
<1>3. ASSUME NEW m \in wire, Arrive(m) \/ Lose(m)
      PROVE  row' = row
  BY <1>3 DEF Arrive, Lose
<1>4. CASE UNCHANGED outboxVars
  BY <1>1, <1>4, NoRowMoves DEF outboxVars
<1> QED
  BY <1>1, <1>2, <1>3, <1>4, NoRowMoves, TimeMoves, SweepMoves, ClaimMoves, ResultMoves
     DEF Next, ResultIsRecorded
-----------------------------------------------------------------------------
\* Nothing that was received is forgotten.
LEMMA ReceivedStays ==
    ASSUME [Next]_outboxVars
    PROVE  received \subseteq received'
  BY DEF Next, Save, LeaseEnds, BackoffEnds, RecoverExpiredClaims, FailExhaustedPending,
     ClaimEvents, SendEnds, Confirm, GiveUpWaiting, ResultIsRecorded, RecordSuccess,
     RecordFailure, CannotRecord, EndWave, Crash, Arrive, Lose, outboxVars

\* A replica goes to a sound state.
LEMMA PublisherStep ==
    ASSUME SendsSound, NEW p \in Publishers, NEW q \in Publisher,
           pub' = [pub EXCEPT ![p] = q], received \subseteq received',
           \A s \in q.sends : s.result = "confirmed" => MessageOf(s) \in received
    PROVE  SendsSound'
<1>1. \A o \in Publishers : pub'[o] = IF o = p THEN q ELSE pub[o]
  BY DEF SendsSound
<1>2. \A o \in Publishers : \A s \in pub'[o].sends :
         s.result = "confirmed" => MessageOf(s) \in received'
  BY <1>1 DEF SendsSound
<1> QED
  BY <1>2 DEF SendsSound, MessageOf

LEMMA RestingPublisher == Resting \in Publisher /\ Resting.sends = {}
  BY OutboxAssumption DEF Resting, Publisher

\* A step inside a tick that leaves the sends alone, or ends it.
LEMMA TickStep ==
    ASSUME OutboxInv, NEW p \in Publishers, UNCHANGED received,
           \/ \E pc \in {"sweep", "claim"} : Goto(p, pc)
           \/ pub' = [pub EXCEPT ![p] = Resting]
    PROVE  SendsSound'
<1>1. SendsSound /\ pub[p] \in Publisher
  BY DEF OutboxInv, SendsSound
<1>2. CASE \E pc \in {"sweep", "claim"} : Goto(p, pc)
  <2>1. PICK pc \in {"sweep", "claim"} : pub' = [pub EXCEPT ![p] = [pub[p] EXCEPT !.pc = pc]]
    BY <1>2 DEF Goto
  <2>2. [pub[p] EXCEPT !.pc = pc] \in Publisher /\ [pub[p] EXCEPT !.pc = pc].sends = pub[p].sends
    BY <1>1 DEF Publisher
  <2> QED
    BY <1>1, <2>1, <2>2, PublisherStep DEF SendsSound
<1>3. CASE pub' = [pub EXCEPT ![p] = Resting]
  BY <1>1, <1>3, RestingPublisher, PublisherStep
<1> QED
  BY <1>2, <1>3

\* A send is answered, or done with.
LEMMA SendStep ==
    ASSUME OutboxInv, NEW p \in Publishers, NEW s \in pub[p].sends,
           \/ Confirm(p, s) \/ GiveUpWaiting(p, s)
           \/ RecordSuccess(p, s) \/ RecordFailure(p, s) \/ CannotRecord(p, s)
    PROVE  SendsSound'
<1>1. SendsSound /\ pub[p] \in Publisher /\ s \in Send
  BY DEF OutboxInv, SendsSound, Publisher
<1>2. received' = received
  BY DEF Confirm, GiveUpWaiting, RecordSuccess, RecordFailure, CannotRecord
<1>3. CASE Done(p, s)
  <2> DEFINE q == [pub[p] EXCEPT !.sends = @ \ {s}]
  <2>1. q \in Publisher /\ q.sends = pub[p].sends \ {s}
    BY <1>1 DEF Publisher
  <2>2. pub' = [pub EXCEPT ![p] = q]
    BY <1>3 DEF Done
  <2> QED
    BY <1>1, <1>2, <2>1, <2>2, PublisherStep DEF SendsSound
<1>4. ASSUME NEW result \in {"confirmed", "failed"}, Result(p, s, result),
             result = "confirmed" => MessageOf(s) \in received
      PROVE  SendsSound'
  <2> DEFINE n == [s EXCEPT !.result = result]
             q == [pub[p] EXCEPT !.sends = (@ \ {s}) \cup {n}]
  <2>1. n \in Send /\ n.event = s.event /\ n.attempt = s.attempt /\ n.result = result
    BY <1>1 DEF Send
  <2>2. MessageOf(n) = MessageOf(s)
    BY <2>1 DEF MessageOf
  <2> HIDE DEF n
  <2>3. q \in Publisher /\ q.sends = (pub[p].sends \ {s}) \cup {n}
    BY <1>1, <2>1 DEF Publisher
  <2>4. pub' = [pub EXCEPT ![p] = q]
    BY <1>4 DEF Result, n
  <2>5. \A x \in q.sends : x.result = "confirmed" => MessageOf(x) \in received
    BY <1>1, <1>4, <2>1, <2>2, <2>3 DEF SendsSound
  <2> QED
    BY <1>1, <1>2, <2>3, <2>4, <2>5, PublisherStep
<1> QED
  BY <1>3, <1>4 DEF Confirm, GiveUpWaiting, RecordSuccess, RecordFailure, CannotRecord

\* The messages stay sound when none is new.
LEMMA NothingNewSent ==
    ASSUME OutboxInv, TableMoves, wire' \cup received' \subseteq wire \cup received
    PROVE  WireSound'
<1>1. \A m \in wire' \cup received' :
         m \in Message /\ m.event \notin LegacyClaims /\ row[m.event].status # "ABSENT"
  BY DEF OutboxInv, WireSound
<1>2. \A m \in Message : m.event \in Events
  BY DEF Message
<1>3. \A e \in Events : row[e].status # "ABSENT" => row'[e].status # "ABSENT"
  BY MoveKeepsRow DEF OutboxInv, RowsSound, TableMoves
<1> QED
  BY <1>1, <1>2, <1>3 DEF WireSound

\* A wave is claimed within the batch, and what it sends has been saved.
LEMMA ClaimStep ==
    ASSUME OutboxInv, NEW p \in Publishers, ClaimEvents(p)
    PROVE  SendsSound' /\ WireSound'
<1> DEFINE limit == IF Concurrency < BatchSize - pub[p].claimed
                    THEN Concurrency ELSE BatchSize - pub[p].claimed
           sent(S) == {[event |-> e, attempt |-> row[e].attempts + 1] : e \in S}
           sends(S) == {[event |-> m.event, attempt |-> m.attempt, result |-> "waiting"] :
                           m \in sent(S)}
           wave(S) == [pc |-> "wave", claimed |-> pub[p].claimed + Cardinality(S),
                       sends |-> sends(S)]
<1>1. /\ SendsSound /\ pub[p] \in Publisher /\ received' = received
      /\ pub[p].claimed \in 0..BatchSize /\ RowsSound
  BY DEF OutboxInv, SendsSound, Publisher, ClaimEvents
<1>2. PICK S \in UpTo(limit, Claimable) :
         /\ wire' = wire \cup sent(S)
         /\ pub' = [pub EXCEPT ![p] = IF S = {} THEN Resting ELSE wave(S)]
         /\ row' = [e \in Events |-> IF e \in S THEN ClaimedRow(row[e]) ELSE row[e]]
  BY DEF ClaimEvents, ClaimedRow
<1>3. S \subseteq Claimable /\ Cardinality(S) <= limit
  <2>1. IsFiniteSet(Claimable)
    BY FS_Subset, OutboxAssumption DEF Claimable
  <2>2. Cardinality(Claimable) \in Nat
    BY <2>1, FS_CardinalityType
  <2>3. limit \in Int
    BY <1>1, OutboxAssumption
  <2> QED
    BY <2>2, <2>3 DEF UpTo
<1>4. pub[p].claimed + Cardinality(S) \in 0..BatchSize
  <2>1. Cardinality(S) \in Nat
    BY <1>3, FS_Subset, FS_CardinalityType, OutboxAssumption DEF Claimable
  <2> QED
    BY <1>1, <1>3, <2>1, OutboxAssumption
<1>5. \A e \in S : /\ e \in Events /\ e \notin LegacyClaims
                  /\ row[e].status = "PENDING" /\ row[e].attempts + 1 \in 1..MaxAttempts
  BY <1>1, <1>3, OutboxAssumption DEF Claimable, RowsSound, RowSound, OutboxRow
<1>6. \A m \in sent(S) : m \in Message /\ m.event \in S
  BY <1>5 DEF Message
<1>7. \A s \in sends(S) : s \in Send /\ s.result = "waiting"
  BY <1>6 DEF Message, Send
<1>8. wave(S) \in Publisher /\ wave(S).sends = sends(S)
  BY <1>4, <1>7 DEF Publisher
<1> HIDE DEF sends, limit
<1>9. SendsSound'
  <2>1. CASE S = {}
    BY <1>1, <1>2, <2>1, RestingPublisher, PublisherStep
  <2>2. CASE S # {}
    <3> DEFINE q == wave(S)
    <3>1. pub' = [pub EXCEPT ![p] = q]
      BY <1>2, <2>2
    <3>2. q \in Publisher /\ \A s \in q.sends : s.result # "confirmed"
      BY <1>7, <1>8
    <3> HIDE DEF q
    <3> QED
      BY <1>1, <3>1, <3>2, PublisherStep
  <2> QED
    BY <2>1, <2>2
<1>10. WireSound'
  <2> HIDE DEF sent
  <2>1. \A e \in Events : row[e].status # "ABSENT" => row'[e].status # "ABSENT"
    BY ClaimMoves, MoveKeepsRow, <1>1 DEF RowsSound, TableMoves
  <2>2. \A m \in wire' \cup received' :
          m \in Message /\ m.event \notin LegacyClaims /\ row[m.event].status # "ABSENT"
    BY <1>1, <1>2, <1>5, <1>6 DEF OutboxInv, WireSound
  <2>3. \A m \in Message : m.event \in Events
    BY DEF Message
  <2> QED
    BY <2>1, <2>2, <2>3 DEF WireSound
<1> QED
  BY <1>9, <1>10
-----------------------------------------------------------------------------
(***************************************************************************)
(* The invariant.                                                          *)
(***************************************************************************)
LEMMA OutboxInitInv == Init => OutboxInv
<1> SUFFICES ASSUME Init PROVE OutboxInv
  OBVIOUS
<1> DEFINE legacy(e) == NewRow("PENDING", LegacyAttempts[e])
<1>1. ASSUME NEW e \in Events PROVE RowSound(e, row[e]) /\ row[e].status # "COMPLETED"
  <2>1. CASE e \in LegacyClaims
    <3>1. row[e] = NewRow("PROCESSING", 0)
      BY <2>1 DEF Init
    <3> QED
      BY <3>1, NewColumns, OutboxAssumption DEF RowSound, Status
  <2>2. CASE e \in DOMAIN LegacyAttempts
    <3>1. row[e] = legacy(e) /\ e \notin LegacyClaims /\ LegacyAttempts[e] \in 0..MaxAttempts
      BY <2>2, OutboxAssumption DEF Init
    <3> QED
      BY <3>1, NewColumns DEF RowSound, Status
  <2>3. CASE e \notin LegacyClaims /\ e \notin DOMAIN LegacyAttempts
    <3>1. row[e] = NewRow("ABSENT", 0)
      BY <2>3 DEF Init
    <3> QED
      BY <3>1, <2>3, NewColumns, OutboxAssumption DEF RowSound, Status
  <2> QED
    BY <2>1, <2>2, <2>3
<1>2. RowsSound
  BY <1>1 DEF Init, RowsSound
<1>3. SendsSound
  BY RestingPublisher DEF Init, SendsSound
<1>4. WireSound
  BY DEF Init, WireSound
<1> QED
  BY <1>1, <1>2, <1>3, <1>4, OutboxAssumption DEF OutboxInv, PublishedForAReason, Init

\* A published row was published by a replica whose send the broker confirmed.
LEMMA PublishedStep ==
    ASSUME OutboxInv, TableMoves, received \subseteq received'
    PROVE  RowsSound' /\ PublishedForAReason'
<1>1. \A e \in Events : RowSound(e, row[e]) /\ RowMoves(e)
  BY DEF OutboxInv, RowsSound, TableMoves
<1>2. RowsSound'
  BY <1>1, MoveKeepsRow DEF RowsSound, TableMoves
<1>3. ASSUME NEW e \in Events, PublisherConfirms(e)
      PROVE  \E m \in received : m.event = e
  <2>1. PICK p \in Publishers : \E s \in pub[p].sends : s.event = e /\ s.result = "confirmed"
    BY <1>3 DEF PublisherConfirms
  <2>2. PICK s \in pub[p].sends : s.event = e /\ s.result = "confirmed"
    BY <2>1
  <2>3. MessageOf(s) \in received
    BY <2>2 DEF OutboxInv, SendsSound
  <2> QED
    BY <2>2, <2>3 DEF MessageOf
<1>4. \A e \in Events : row'[e].status = "COMPLETED" => \E m \in received : m.event = e
  BY <1>1, <1>3, MoveKeepsRow DEF OutboxInv, PublishedForAReason
<1> QED
  BY <1>2, <1>4 DEF PublishedForAReason

LEMMA OutboxNextInv ==
    ASSUME OutboxInv, [Next]_outboxVars
    PROVE  OutboxInv'
<1>1. TableMoves /\ received \subseteq received'
  BY EveryStepMoves, ReceivedStays
<1>2. RowsSound' /\ PublishedForAReason'
  BY <1>1, PublishedStep
<1>3. crashes' \in 0..CrashBound
  <2>1. crashes' = crashes \/ (crashes < CrashBound /\ crashes' = crashes + 1)
    BY DEF Next, Save, LeaseEnds, BackoffEnds, RecoverExpiredClaims, FailExhaustedPending,
       ClaimEvents, SendEnds, Confirm, GiveUpWaiting, ResultIsRecorded, RecordSuccess,
       RecordFailure, CannotRecord, EndWave, Crash, Arrive, Lose, outboxVars
  <2> QED
    BY <2>1, OutboxAssumption DEF OutboxInv
<1>4. ASSUME UNCHANGED <<pub, wire, received>>
      PROVE  SendsSound' /\ WireSound'
  <2>1. SendsSound'
    BY <1>4 DEF OutboxInv, SendsSound
  <2> QED
    BY <1>1, <1>4, <2>1, NothingNewSent
<1>5. ASSUME NEW p \in Publishers,
             \/ RecoverExpiredClaims(p) \/ FailExhaustedPending(p) \/ EndWave(p) \/ Crash(p)
      PROVE  SendsSound' /\ WireSound'
  <2>1. UNCHANGED <<wire, received>>
    BY <1>5 DEF RecoverExpiredClaims, FailExhaustedPending, EndWave, Crash
  <2>2. SendsSound'
    BY <1>5, <2>1, TickStep DEF RecoverExpiredClaims, FailExhaustedPending, EndWave, Crash
  <2> QED
    BY <1>1, <2>1, <2>2, NothingNewSent
<1>6. ASSUME NEW p \in Publishers, SendEnds(p) \/ ResultIsRecorded(p)
      PROVE  SendsSound' /\ WireSound'
  <2>1. UNCHANGED <<wire, received>>
    BY <1>6 DEF SendEnds, ResultIsRecorded, Confirm, GiveUpWaiting, RecordSuccess,
       RecordFailure, CannotRecord
  <2>2. SendsSound'
    BY <1>6, SendStep DEF SendEnds, ResultIsRecorded
  <2> QED
    BY <1>1, <2>1, <2>2, NothingNewSent
<1>7. ASSUME NEW m \in wire, Arrive(m) \/ Lose(m)
      PROVE  SendsSound' /\ WireSound'
  <2>1. wire' \cup received' \subseteq wire \cup received
    BY <1>7 DEF Arrive, Lose
  <2>2. SendsSound'
    BY <1>1, <1>7 DEF OutboxInv, SendsSound, Arrive, Lose
  <2> QED
    BY <1>1, <2>1, <2>2, NothingNewSent
<1>8. SendsSound' /\ WireSound'
  <2>1. ASSUME NEW e \in Events, Save(e) \/ LeaseEnds(e) \/ BackoffEnds(e)
        PROVE  UNCHANGED <<pub, wire, received>>
    BY <2>1 DEF Save, LeaseEnds, BackoffEnds
  <2>2. CASE UNCHANGED outboxVars
    BY <1>4, <2>2 DEF outboxVars
  <2> QED
    BY <1>4, <1>5, <1>6, <1>7, <2>1, <2>2, ClaimStep DEF Next
<1> QED
  BY <1>2, <1>3, <1>8 DEF OutboxInv

\* The invariant holds in every state.
THEOREM OutboxInvariance == OutboxSpec => []OutboxInv
  BY OutboxInitInv, OutboxNextInv, PTL DEF OutboxSpec

\* The rows, the replicas and the messages keep their types: no attempt is
\* counted beyond the budget and no tick claims more than its batch.
THEOREM OutboxTypeCorrectness == OutboxSpec => []OutboxTypeOK
  BY OutboxInvariance, OutboxInvProves, PTL

\* A row is COMPLETED only when the broker has the event, and FAILED only when
\* every attempt was counted (OutboxPublisherService.processEvent,
\* recoverExpiredClaims, failExhaustedPendingEvents).
THEOREM RowsSettleForAReason == OutboxSpec => []SettledForAReason
  BY OutboxInvariance, OutboxInvProves, PTL

-----------------------------------------------------------------------------
Fenced(e) ==
    \/ NewRowChanges(e) \/ WaitingRowChanges(e)
    \/ LeasedRowChanges(e) \/ ExpiredRowChanges(e)

\* A row that changes does so in one of the ways its status and lease allow.
LEMMA MoveIsFenced ==
    ASSUME NEW e \in Events, RowSound(e, row[e]), RowMoves(e)
    PROVE  row'[e] = row[e] \/ Fenced(e)
<1> DEFINE r == row[e]
<1>1. r \in OutboxRow /\ (r.lease = "live" => r.status = "PROCESSING")
  BY DEF RowSound
<1>2. CASE r.status = "ABSENT" /\ row'[e] = NewRow("PENDING", 0)
  BY <1>2 DEF Fenced, NewRowChanges
<1>3. CASE r.lease = "live" /\ row'[e] = EndedRow(r)
  BY <1>1, <1>3 DEF Fenced, LeasedRowChanges, EndedRow
<1>4. CASE r.status = "PENDING" /\ row'[e] = DueRow(r)
  BY <1>4 DEF Fenced, WaitingRowChanges, DueRow
<1>5. CASE /\ r.status = "PROCESSING" /\ r.lease = "ended" /\ Ticks("idle", "sweep")
           /\ row'[e] = Retried(r)
  BY <1>5 DEF Fenced, ExpiredRowChanges
<1>6. CASE /\ r.status = "PENDING" /\ r.attempts >= MaxAttempts /\ Ticks("sweep", "claim")
           /\ row'[e] = Retried(r)
  <2>1. row'[e].status = "FAILED"
    BY <1>1, <1>6 DEF Retried, OutboxRow
  <2> QED
    BY <1>6, <2>1 DEF Fenced, WaitingRowChanges
<1>7. CASE /\ r.status = "PENDING" /\ r.due /\ r.attempts < MaxAttempts
           /\ Ticks("claim", "wave") /\ row'[e] = ClaimedRow(r)
  BY <1>1, <1>7, ClaimedColumns DEF Fenced, WaitingRowChanges
<1>8. CASE /\ r.status = "PROCESSING" /\ r.lease = "live"
           /\ OwnerIsDone(e, "failed") /\ row'[e] = Retried(r)
  <2>1. OwnerRecords(e)
    BY <1>8 DEF OwnerIsDone, OwnerRecords
  <2> QED
    BY <1>8, <2>1 DEF Fenced, LeasedRowChanges
<1>9. CASE /\ r.status = "PROCESSING" /\ r.lease = "live"
           /\ OwnerIsDone(e, "confirmed") /\ row'[e] = PublishedRow(r)
  <2>1. row'[e].status = "COMPLETED"
    BY <1>1, <1>9, OtherColumns
  <2>2. OwnerRecords(e)
    BY <1>9, <2>1 DEF OwnerIsDone, OwnerRecords
  <2> QED
    BY <1>9, <2>2 DEF Fenced, LeasedRowChanges
<1> QED
  BY <1>2, <1>3, <1>4, <1>5, <1>6, <1>7, <1>8, <1>9 DEF RowMoves

\* Settled rows are in none of those ways.
LEMMA SettledRowStays ==
    ASSUME NEW e \in Events, RowSound(e, row[e]), RowMoves(e), row[e].status \in Settled
    PROVE  row'[e] = row[e]
  BY MoveIsFenced DEF Settled, Fenced, NewRowChanges, WaitingRowChanges,
     LeasedRowChanges, ExpiredRowChanges

\* Whatever the replicas do, a result is recorded only by the owner of a live
\* claim, with the result of that claim's send; once the lease has ended only the
\* recovery changes the row, and a settled row stays as it is: the fence of the
\* two result updates (claim id, status, lease) is enough.
THEOREM ResultsStayFenced == OutboxSpec => ResultsAreFenced
<1>1. OutboxInv /\ [Next]_outboxVars =>
        [\A e \in Events : row'[e] # row[e] =>
           \/ NewRowChanges(e) \/ WaitingRowChanges(e)
           \/ LeasedRowChanges(e) \/ ExpiredRowChanges(e)]_outboxVars
  <2> SUFFICES ASSUME OutboxInv, [Next]_outboxVars, NEW e \in Events, row'[e] # row[e]
               PROVE  Fenced(e)
    BY DEF Fenced
  <2>1. RowSound(e, row[e]) /\ RowMoves(e)
    BY EveryStepMoves DEF OutboxInv, RowsSound, TableMoves
  <2> QED
    BY <2>1, MoveIsFenced
<1> QED
  BY <1>1, OutboxInvariance, PTL DEF OutboxSpec, ResultsAreFenced
-----------------------------------------------------------------------------
(***************************************************************************)
(* The outbox implements the safety of HandOff.                            *)
(***************************************************************************)
SavedEvents   == {e \in Events \ LegacyClaims : row[e].status # "ABSENT"}
ReachedBroker == {m.event : m \in received}
Published     == {e \in Events : row[e].status = "COMPLETED"}
GivenUp       == {e \in Events : row[e].status = "FAILED"}
mapped == <<SavedEvents, ReachedBroker, Published, GivenUp>>

HandOffStep == HandedOver!Next \/ UNCHANGED mapped

\* Only sound rows that are open are given up, and not the old publisher's.
LEMMA RowsGivenUp ==
    ASSUME OutboxInv, TableMoves, UNCHANGED received,
           \A e \in Events : row'[e].status = "COMPLETED" => row[e].status = "COMPLETED",
           \A e \in Events : row'[e].status # "ABSENT" => row[e].status # "ABSENT"
    PROVE  HandOffStep
<1>1. \A e \in Events : RowSound(e, row[e]) /\ RowMoves(e) /\ RowSound(e, row'[e])
  BY MoveKeepsRow DEF OutboxInv, RowsSound, TableMoves
<1>2. \A e \in Events : row[e].status \in Settled => row'[e] = row[e]
  BY <1>1, SettledRowStays
<1>3. \A e \in Events : row[e].status # "ABSENT" => row'[e].status # "ABSENT"
  BY <1>1, MoveKeepsRow
<1>0. PICK S : S = GivenUp' \ GivenUp
  OBVIOUS
<1>4. UNCHANGED <<SavedEvents, ReachedBroker, Published>> /\ GivenUp' = GivenUp \cup S
  BY <1>0, <1>2, <1>3 DEF SavedEvents, ReachedBroker, Published, GivenUp, Settled
<1>5. S \subseteq SavedEvents \ (Published \cup GivenUp)
  <2> SUFFICES ASSUME NEW e \in S PROVE e \in SavedEvents /\ e \notin Published
    BY <1>0
  <2>1. e \in Events /\ row'[e].status = "FAILED" /\ row[e].status # "FAILED"
    BY <1>0 DEF GivenUp
  <2>2. e \notin LegacyClaims /\ row[e].status # "COMPLETED"
    BY <1>1, <1>2, <2>1 DEF RowSound, Settled
  <2>3. row[e].status # "ABSENT"
    BY <2>1
  <2> QED
    BY <2>1, <2>2, <2>3 DEF SavedEvents, Published
<1>6. CASE S = {}
  BY <1>4, <1>6 DEF HandOffStep, mapped
<1>7. CASE S # {}
  <2>1. HandedOver!Abandon(S)
    BY <1>4, <1>5, <1>7 DEF HandedOver!Abandon, SavedEvents, ReachedBroker, Published, GivenUp
  <2>2. S \in SUBSET (Events \ LegacyClaims)
    BY <1>5 DEF SavedEvents
  <2> QED
    BY <2>1, <2>2 DEF HandOffStep, HandedOver!Next
<1> QED
  BY <1>6, <1>7

LEMMA SaveIsSave ==
    ASSUME OutboxInv, NEW e \in Events, Save(e)
    PROVE  HandOffStep
<1>1. e \notin LegacyClaims
  BY DEF OutboxInv, RowsSound, RowSound, Save
<1>2. /\ row[e].status = "ABSENT" /\ received' = received
      /\ row' = [row EXCEPT ![e] = NewRow("PENDING", 0)]
  BY DEF Save
<1>3. row'[e].status = "PENDING" /\ \A x \in Events \ {e} : row'[x] = row[x]
  BY <1>2 DEF OutboxInv, RowsSound, NewRow
<1>4. /\ SavedEvents' = SavedEvents \cup {e}
      /\ UNCHANGED <<ReachedBroker, Published, GivenUp>>
  BY <1>1, <1>2, <1>3 DEF SavedEvents, ReachedBroker, Published, GivenUp
<1>5. HandedOver!Save({e})
  BY <1>1, <1>4 DEF HandedOver!Save, SavedEvents, ReachedBroker, Published, GivenUp
<1> QED
  BY <1>1, <1>5 DEF HandOffStep, HandedOver!Next

LEMMA ArrivalIsAccepted ==
    ASSUME OutboxInv, NEW m \in wire, Arrive(m)
    PROVE  HandOffStep
<1>1. m \in Message /\ m.event \notin LegacyClaims /\ row[m.event].status # "ABSENT"
  BY DEF OutboxInv, WireSound
<1>2. m.event \in SavedEvents
  BY <1>1 DEF Message, SavedEvents
<1>3. /\ ReachedBroker' = ReachedBroker \cup {m.event}
      /\ UNCHANGED <<SavedEvents, Published, GivenUp>>
  BY DEF Arrive, SavedEvents, ReachedBroker, Published, GivenUp
<1>4. CASE m.event \in ReachedBroker
  BY <1>3, <1>4 DEF HandOffStep, mapped
<1>5. CASE m.event \notin ReachedBroker
  <2>1. HandedOver!Accept(m.event)
    BY <1>2, <1>3, <1>5 DEF HandedOver!Accept, SavedEvents, ReachedBroker, Published, GivenUp
  <2> QED
    BY <1>2, <2>1 DEF HandOffStep, HandedOver!Next, SavedEvents
<1> QED
  BY <1>4, <1>5

LEMMA SuccessIsMarked ==
    ASSUME OutboxInv, NEW p \in Publishers, NEW s \in pub[p].sends, RecordSuccess(p, s)
    PROVE  HandOffStep
<1>1. s \in Send /\ s.event \in Events
  BY DEF OutboxInv, SendsSound, Publisher, Send
<1>2. MessageOf(s) \in received /\ received' = received
  BY DEF RecordSuccess, OutboxInv, SendsSound
<1>3. CASE ~Owns(s)
  <2>1. row' = row
    BY <1>3 DEF RecordSuccess
  <2> QED
    BY <1>2, <2>1 DEF HandOffStep, mapped, SavedEvents, ReachedBroker, Published, GivenUp
<1>4. CASE Owns(s)
  <2> DEFINE e == s.event
  <2>1. row[e].status = "PROCESSING" /\ row[e].lease = "live" /\ row[e] \in OutboxRow
    BY <1>1, <1>4 DEF Owns, OutboxInv, RowsSound, RowSound
  <2>2. e \notin LegacyClaims
    BY <1>1, <2>1 DEF OutboxInv, RowsSound, RowSound
  <2>3. row' = [row EXCEPT ![e] = PublishedRow(row[e])]
    BY <1>1, <1>4 DEF RecordSuccess, PublishedRow, OutboxInv, RowsSound
  <2>4. row'[e].status = "COMPLETED" /\ \A x \in Events \ {e} : row'[x] = row[x]
    BY <1>1, <2>1, <2>3, OtherColumns DEF OutboxInv, RowsSound
  <2>5. /\ Published' = Published \cup {e}
        /\ UNCHANGED <<SavedEvents, ReachedBroker, GivenUp>>
    BY <1>1, <1>2, <2>1, <2>4 DEF SavedEvents, ReachedBroker, Published, GivenUp
  <2>6. e \in ReachedBroker \ (Published \cup GivenUp)
    BY <1>2, <2>1 DEF ReachedBroker, Published, GivenUp, MessageOf
  <2>7. HandedOver!Mark(e)
    BY <2>5, <2>6 DEF HandedOver!Mark, SavedEvents, ReachedBroker, Published, GivenUp
  <2>8. e \in Events \ LegacyClaims
    BY <1>1, <2>2
  <2> HIDE DEF e
  <2> QED
    BY <2>7, <2>8 DEF HandOffStep, HandedOver!Next
<1> QED
  BY <1>3, <1>4

LEMMA EveryStepHandsOver ==
    ASSUME OutboxInv, [Next]_outboxVars
    PROVE  HandOffStep
<1>1. TableMoves
  BY EveryStepMoves
<1>2. \A e \in Events : RowSound(e, row[e])
  BY DEF OutboxInv, RowsSound
<1> DEFINE NothingAppears ==
      /\ received' = received
      /\ \A e \in Events : row'[e].status = "COMPLETED" => row[e].status = "COMPLETED"
      /\ \A e \in Events : row'[e].status # "ABSENT" => row[e].status # "ABSENT"
<1>3. ASSUME row' = row, received' = received
      PROVE  HandOffStep
  BY <1>3 DEF HandOffStep, mapped, SavedEvents, ReachedBroker, Published, GivenUp
<1>4. ASSUME NEW e \in Events, LeaseEnds(e) \/ BackoffEnds(e)
      PROVE  NothingAppears
  <2>1. \/ row' = [row EXCEPT ![e] = EndedRow(row[e])]
        \/ row' = [row EXCEPT ![e] = DueRow(row[e])]
    BY <1>4 DEF LeaseEnds, BackoffEnds, EndedRow, DueRow
  <2> QED
    BY <1>2, <1>4, <2>1, OtherColumns DEF LeaseEnds, BackoffEnds, OutboxInv, RowsSound, RowSound
<1>5. ASSUME NEW p \in Publishers, RecoverExpiredClaims(p) \/ FailExhaustedPending(p)
      PROVE  NothingAppears
  <2>1. PICK S \in SUBSET Events :
         /\ row' = [e \in Events |-> IF e \in S THEN Retried(row[e]) ELSE row[e]]
         /\ \A e \in S : row[e].status # "ABSENT"
    BY <1>5 DEF RecoverExpiredClaims, FailExhaustedPending, Recoverable, UpTo
  <2> QED
    BY <1>2, <1>5, <2>1, RetriedColumns DEF RecoverExpiredClaims, FailExhaustedPending, RowSound
<1>6. ASSUME NEW p \in Publishers, ClaimEvents(p)
      PROVE  NothingAppears
  <2>1. PICK S \in SUBSET Claimable :
          row' = [e \in Events |-> IF e \in S THEN ClaimedRow(row[e]) ELSE row[e]]
    BY <1>6 DEF ClaimEvents, UpTo, ClaimedRow
  <2>2. received' = received
    BY <1>6 DEF ClaimEvents
  <2> QED
    BY <1>2, <2>1, <2>2, ClaimedColumns DEF Claimable, RowSound
<1>7. ASSUME NEW p \in Publishers, NEW s \in pub[p].sends, RecordFailure(p, s)
      PROVE  NothingAppears
  <2>1. s.event \in Events
    BY DEF OutboxInv, SendsSound, Publisher, Send
  <2>2. row' = row \/ (Owns(s) /\ row' = [row EXCEPT ![s.event] = Retried(row[s.event])])
    BY <1>7 DEF RecordFailure
  <2> QED
    BY <1>2, <1>7, <2>1, <2>2, RetriedColumns DEF RecordFailure, OutboxInv, RowsSound, RowSound, Owns
<1>8. ASSUME NothingAppears PROVE HandOffStep
  BY <1>1, <1>8, RowsGivenUp
<1>9. ASSUME NEW p \in Publishers,
             \/ SendEnds(p) \/ EndWave(p) \/ Crash(p)
             \/ \E s \in pub[p].sends : CannotRecord(p, s)
      PROVE  row' = row /\ received' = received
  BY <1>9 DEF SendEnds, Confirm, GiveUpWaiting, EndWave, Crash, CannotRecord
<1>10. ASSUME NEW m \in wire, Lose(m)
       PROVE  row' = row /\ received' = received
  BY <1>10 DEF Lose
<1>11. CASE UNCHANGED outboxVars
  BY <1>3, <1>11 DEF outboxVars
<1> HIDE DEF NothingAppears
<1> QED
  BY <1>3, <1>4, <1>5, <1>6, <1>7, <1>8, <1>9, <1>10, <1>11,
     SaveIsSave, ArrivalIsAccepted, SuccessIsMarked DEF Next, ResultIsRecorded

\* The publisher implements the safety of a hand-over (OutboxPublisherService):
\* COMPLETED only after the broker has the event, FAILED only an event that was
\* saved, neither ever taken back, nothing published that was not saved.
THEOREM OutboxHandsOverSafely == OutboxSpec => HandedOver!Safety
<1>1. Init => HandedOver!Init
  <2> SUFFICES ASSUME Init PROVE HandedOver!Init
    OBVIOUS
  <2>1. \A e \in Events : row[e].status \in {"PROCESSING", "PENDING", "ABSENT"}
    BY DEF Init, NewRow
  <2>2. received = {}
    BY DEF Init
  <2> QED
    BY <2>1, <2>2 DEF HandedOver!Init
<1>2. OutboxInv /\ [Next]_outboxVars => [HandedOver!Next]_(HandedOver!handOffVars)
  BY EveryStepHandsOver DEF HandOffStep, mapped, HandedOver!handOffVars, SavedEvents,
     ReachedBroker, Published, GivenUp
<1> QED
  BY <1>1, <1>2, OutboxInvariance, PTL DEF OutboxSpec, HandedOver!Safety
=============================================================================
