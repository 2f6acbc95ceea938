--------------------------- MODULE OutboxPublisher ---------------------------
(***************************************************************************)
(* OutboxPublisherService: replicas of the service claim outbox_events     *)
(* under a lease, send them to RabbitMQ and record the result if they      *)
(* still own the claim.                                                    *)
(*                                                                         *)
(* Time is abstracted to the two things that depend on it: a lease may run *)
(* out (LeaseEnds) and a backoff may end (BackoffEnds) at any moment.  The *)
(* random lease token is modelled by the attempt the claim counted: both   *)
(* are new with every claim of a row.                                      *)
(***************************************************************************)
EXTENDS Integers, FiniteSets

CONSTANTS
    Events,
    Publishers,       \* replicas of the service
    MaxAttempts,      \* outbox_events.max_attempts, 5 by default
    BatchSize,        \* BATCH_SIZE, 50 in the code
    Concurrency,      \* app.outboxPublishConcurrency
    LegacyClaims,     \* PROCESSING rows of the old publisher, without a lease
    LegacyAttempts,   \* its PENDING rows, with the attempts it has made of each
    CrashBound        \* bound: how often a replica crashes

ASSUME OutboxAssumption ==
    /\ IsFiniteSet(Events)
    /\ MaxAttempts \in Nat \ {0}
    /\ BatchSize \in Nat \ {0} /\ Concurrency \in Nat \ {0}
    /\ LegacyClaims \subseteq Events
    /\ DOMAIN LegacyAttempts \subseteq Events \ LegacyClaims
    /\ \A e \in DOMAIN LegacyAttempts : LegacyAttempts[e] \in 0..MaxAttempts
    /\ CrashBound \in Nat

VARIABLES
    row,       \* outbox_events
    pub,       \* the tick and the sends in flight of every replica
    wire,      \* messages sent that may still reach the broker
    received,  \* messages that reached the broker
    crashes

outboxVars == <<row, pub, wire, received, crashes>>

Status == {"ABSENT", "PENDING", "PROCESSING", "COMPLETED", "FAILED"}
\* lease: none (NULL), live or ended; due: next_attempt_at has passed.
OutboxRow == [status: Status, attempts: 0..MaxAttempts,
              lease: {"none", "live", "ended"}, due: BOOLEAN]
Message  == [event: Events, attempt: 1..MaxAttempts]
Send     == [event: Events, attempt: 1..MaxAttempts,
             result: {"waiting", "confirmed", "failed"}]
Publisher == [pc: {"idle", "sweep", "claim", "wave"},
              claimed: 0..BatchSize, sends: SUBSET Send]

Settled == {"COMPLETED", "FAILED"}

Resting == [pc |-> "idle", claimed |-> 0, sends |-> {}]
NewRow(status, attempts) ==
    [status |-> status, attempts |-> attempts, lease |-> "none", due |-> TRUE]
-----------------------------------------------------------------------------
Init ==
    /\ row = [e \in Events |->
                IF e \in LegacyClaims THEN NewRow("PROCESSING", 0)
                ELSE IF e \in DOMAIN LegacyAttempts THEN NewRow("PENDING", LegacyAttempts[e])
                ELSE NewRow("ABSENT", 0)]
    /\ pub = [p \in Publishers |-> Resting]
    /\ wire = {} /\ received = {} /\ crashes = 0

\* A profile transaction commits with the event.
Save(e) ==
    /\ row[e].status = "ABSENT"
    /\ row' = [row EXCEPT ![e] = NewRow("PENDING", 0)]
    /\ UNCHANGED <<pub, wire, received, crashes>>

LeaseEnds(e) ==
    /\ row[e].lease = "live"
    /\ row' = [row EXCEPT ![e].lease = "ended"]
    /\ UNCHANGED <<pub, wire, received, crashes>>

BackoffEnds(e) ==
    /\ row[e].status = "PENDING" /\ ~row[e].due
    /\ row' = [row EXCEPT ![e].due = TRUE]
    /\ UNCHANGED <<pub, wire, received, crashes>>

Goto(p, pc) == pub' = [pub EXCEPT ![p].pc = pc]

\* Mutants: the failure counts the attempt again, the last attempt is never
\* made, or the budget is not looked at.
RetriedCountedAgain(r) ==
    [r EXCEPT !.status = IF r.attempts >= MaxAttempts THEN "FAILED" ELSE "PENDING",
              !.attempts = @ + 1, !.lease = "none", !.due = FALSE]
RetriedOneLess(r) ==
    [r EXCEPT !.status = IF r.attempts + 1 >= MaxAttempts THEN "FAILED" ELSE "PENDING",
              !.lease = "none", !.due = FALSE]
RetriedForever(r) == [r EXCEPT !.status = "PENDING", !.lease = "none", !.due = FALSE]

\* A claim that did not succeed: retried after a backoff within the budget.
Retried(r) ==
    [r EXCEPT !.status = IF r.attempts >= MaxAttempts THEN "FAILED" ELSE "PENDING",
              !.lease = "none", !.due = FALSE]

\* The oldest rows up to a limit; which ones are oldest is left open.
UpTo(limit, S) ==
    {T \in SUBSET S :
        Cardinality(T) = IF Cardinality(S) < limit THEN Cardinality(S) ELSE limit}

\* publishPendingEvents, one tick: every 5 seconds, one at a time in a replica.
\* It begins with the claims whose lease has ended.
Recoverable == {e \in Events : row[e].status = "PROCESSING" /\ row[e].lease = "ended"}

RecoverExpiredClaims(p) ==
    /\ pub[p].pc = "idle"
    /\ \E S \in UpTo(BatchSize, Recoverable) :
         row' = [e \in Events |-> IF e \in S THEN Retried(row[e]) ELSE row[e]]
    /\ Goto(p, "sweep")
    /\ UNCHANGED <<wire, received, crashes>>

FailExhaustedPending(p) ==
    /\ pub[p].pc = "sweep"
    /\ \E S \in UpTo(BatchSize, {e \in Events : row[e].status = "PENDING"
                                                /\ row[e].attempts >= MaxAttempts}) :
         row' = [e \in Events |-> IF e \in S THEN Retried(row[e]) ELSE row[e]]
    /\ Goto(p, "claim")
    /\ UNCHANGED <<wire, received, crashes>>

Claimable ==
    {e \in Events : row[e].status = "PENDING" /\ row[e].due
                    /\ row[e].attempts < MaxAttempts}

\* claimEvents takes a wave that can run at once, counts the attempt and gives
\* it a lease; the wave is then sent (a send that a crash prevents is one that
\* the wire loses).  An empty wave ends the tick.
ClaimEvents(p) ==
    LET room == BatchSize - pub[p].claimed
        limit == IF Concurrency < room THEN Concurrency ELSE room IN
    /\ pub[p].pc = "claim"
    /\ \E S \in UpTo(limit, Claimable) :
         LET sent == {[event |-> e, attempt |-> row[e].attempts + 1] : e \in S} IN
         /\ row' = [e \in Events |->
                      IF e \in S
                      THEN [row[e] EXCEPT !.status = "PROCESSING", !.attempts = @ + 1,
                                          !.lease = "live"]
                      ELSE row[e]]
         /\ wire' = wire \cup sent
         /\ pub' = [pub EXCEPT ![p] =
                      IF S = {} THEN Resting
                      ELSE [pc |-> "wave", claimed |-> @.claimed + Cardinality(S),
                            sends |-> {[event |-> m.event, attempt |-> m.attempt,
                                        result |-> "waiting"] : m \in sent}]]
    /\ UNCHANGED <<received, crashes>>

\* A message on the wire reaches the broker, even when its sender has given up
\* waiting or is gone; or it is lost.
Arrive(m) ==
    /\ m \in wire
    /\ wire' = wire \ {m}
    /\ received' = received \cup {m}
    /\ UNCHANGED <<row, pub, crashes>>
Lose(m) ==
    /\ m \in wire
    /\ wire' = wire \ {m}
    /\ UNCHANGED <<row, pub, received, crashes>>

MessageOf(s)  == [event |-> s.event, attempt |-> s.attempt]
Result(p, s, result) ==
    pub' = [pub EXCEPT ![p].sends = (@ \ {s}) \cup {[s EXCEPT !.result = result]}]
Done(p, s) == pub' = [pub EXCEPT ![p].sends = @ \ {s}]

\* The race in processEvent: the listener's publish is confirmed, or it fails or
\* times out, which says nothing about the message.
Confirm(p, s) ==
    /\ s.result = "waiting" /\ MessageOf(s) \in received
    /\ Result(p, s, "confirmed")
    /\ UNCHANGED <<row, wire, received, crashes>>
GiveUpWaiting(p, s) ==
    /\ s.result = "waiting"
    /\ Result(p, s, "failed")
    /\ UNCHANGED <<row, wire, received, crashes>>

\* A mutant: the end of the lease is not compared.
OwnsAfterLease(s) ==
    row[s.event].status = "PROCESSING" /\ row[s.event].attempts = s.attempt

\* The fence of both result updates: still the same claim, and within its lease.
Owns(s) ==
    /\ row[s.event].status = "PROCESSING"
    /\ row[s.event].attempts = s.attempt
    /\ row[s.event].lease = "live"

\* The result is recorded if the claim is still owned, and ignored otherwise.
RecordSuccess(p, s) ==
    /\ s.result = "confirmed"
    /\ row' = IF Owns(s)
              THEN [row EXCEPT ![s.event].status = "COMPLETED",
                               ![s.event].lease = "none"] ELSE row
    /\ Done(p, s)
    /\ UNCHANGED <<wire, received, crashes>>
RecordFailure(p, s) ==
    /\ s.result = "failed"
    /\ row' = IF Owns(s) THEN [row EXCEPT ![s.event] = Retried(@)] ELSE row
    /\ Done(p, s)
    /\ UNCHANGED <<wire, received, crashes>>
\* The update fails: the row keeps its claim until the lease runs out.
CannotRecord(p, s) ==
    /\ s.result # "waiting"
    /\ Done(p, s)
    /\ UNCHANGED <<row, wire, received, crashes>>

SendEnds(p) ==
    \E s \in pub[p].sends : Confirm(p, s) \/ GiveUpWaiting(p, s)
ResultIsRecorded(p) ==
    \E s \in pub[p].sends :
        RecordSuccess(p, s) \/ RecordFailure(p, s) \/ CannotRecord(p, s)

\* Every send of the wave is over: the next wave, or the end of the tick.
EndWave(p) ==
    /\ pub[p].pc = "wave" /\ pub[p].sends = {}
    /\ IF pub[p].claimed < BatchSize THEN Goto(p, "claim")
       ELSE pub' = [pub EXCEPT ![p] = Resting]
    /\ UNCHANGED <<row, wire, received, crashes>>

\* The process stops, or a statement of the tick fails: nothing of the tick is
\* left but the claims and what is on the wire.
Crash(p) ==
    /\ pub[p] # Resting
    /\ crashes < CrashBound
    /\ crashes' = crashes + 1
    /\ pub' = [pub EXCEPT ![p] = Resting]
    /\ UNCHANGED <<row, wire, received>>

Next ==
    \/ \E e \in Events : Save(e) \/ LeaseEnds(e) \/ BackoffEnds(e)
    \/ \E p \in Publishers :
         \/ RecoverExpiredClaims(p) \/ FailExhaustedPending(p)
         \/ ClaimEvents(p) \/ SendEnds(p) \/ ResultIsRecorded(p) \/ EndWave(p)
         \/ Crash(p)
    \/ \E m \in wire : Arrive(m) \/ Lose(m)

OutboxSpec == Init /\ [][Next]_outboxVars

\* A step of the tick that the replica is in, or the next tick.
TickGoesOn(p) ==
    \/ RecoverExpiredClaims(p) \/ FailExhaustedPending(p)
    \/ ClaimEvents(p) \/ SendEnds(p) \/ ResultIsRecorded(p) \/ EndWave(p)

\* Time passes, the scheduler ticks, and a running tick goes on: a send ends at
\* the latest with its timeout.
Fairness ==
    /\ WF_outboxVars(\E e \in Events : LeaseEnds(e) \/ BackoffEnds(e))
    /\ \A p \in Publishers : WF_outboxVars(TickGoesOn(p))

FairOutboxSpec == OutboxSpec /\ Fairness
-----------------------------------------------------------------------------
(***************************************************************************)
(* Properties.                                                             *)
(***************************************************************************)
\* Every variable has the shape of its table or of the replica's memory.
OutboxTypeOK ==
    /\ row \in [Events -> OutboxRow]
    /\ pub \in [Publishers -> Publisher]
    /\ wire \subseteq Message /\ received \subseteq Message
    /\ crashes \in 0..CrashBound

\* An event is settled for a reason: COMPLETED only when a copy of it reached
\* the broker, FAILED only when every attempt was counted.  Timeouts, crashes
\* and late answers never mark an unsent event as published, and never give
\* one up early.
SettledForAReason ==
    \A e \in Events :
        /\ row[e].status = "COMPLETED" => \E m \in received : m.event = e
        /\ row[e].status = "FAILED" => row[e].attempts = MaxAttempts

\* What a step may do to the row of e is decided by what the row is.  A tick that
\* goes from one place to the next is the step of a replica's own statement; a
\* result is recorded by a step of its send, whose claim and lease the row has.
Ticks(from, to) == \E p \in Publishers : pub[p].pc = from /\ pub'[p].pc = to
OwnerRecords(e) ==
    \E p \in Publishers : \E s \in pub[p].sends \ pub'[p].sends :
        /\ s.event = e /\ s.attempt = row[e].attempts
        /\ \/ s.result = "confirmed" /\ row'[e].status = "COMPLETED"
           \/ s.result = "failed" /\ row'[e] = Retried(row[e])

NewRowChanges(e) == row[e].status = "ABSENT" /\ row'[e] = NewRow("PENDING", 0)
WaitingRowChanges(e) ==
    /\ row[e].status = "PENDING"
    /\ \/ row'[e] = [row[e] EXCEPT !.due = TRUE]
       \/ Ticks("sweep", "claim") /\ row'[e].status = "FAILED"
       \/ Ticks("claim", "wave") /\ row[e].due /\ row'[e].attempts = row[e].attempts + 1
LeasedRowChanges(e) ==
    /\ row[e].status = "PROCESSING" /\ row[e].lease = "live"
    /\ row'[e] = [row[e] EXCEPT !.lease = "ended"] \/ OwnerRecords(e)
ExpiredRowChanges(e) ==
    /\ row[e].status = "PROCESSING" /\ row[e].lease = "ended"
    /\ Ticks("idle", "sweep") /\ row'[e] = Retried(row[e])

\* Fencing: only the owner of a live claim records a result, and the result of
\* the send of that claim.  Once the lease has ended nobody but the recovery of
\* a tick changes the row; a waiting row is changed only by its backoff and by
\* the statements that sweep and claim; a settled row, and a claim of the old
\* publisher, never change.  So an owner that wakes after its lease, after the
\* recovery or after a newer claim changes nothing (docs/reliability.md, "stale
\* workers cannot overwrite newer attempts").
ResultsAreFenced ==
    [][\A e \in Events : row'[e] # row[e] =>
         \/ NewRowChanges(e) \/ WaitingRowChanges(e)
         \/ LeasedRowChanges(e) \/ ExpiredRowChanges(e)]_outboxVars

HandedOver == INSTANCE HandOff WITH
    Items <- Events \ LegacyClaims,
    saved <- {e \in Events \ LegacyClaims : row[e].status # "ABSENT"},
    accepted <- {m.event : m \in received},
    marked <- {e \in Events : row[e].status = "COMPLETED"},
    abandoned <- {e \in Events : row[e].status = "FAILED"}

\* The outbox keeps the promise of a hand-over: COMPLETED only after the broker
\* has the event, nothing taken back, and every saved event COMPLETED or visibly
\* FAILED in the end, through crashes, lost messages and results that cannot be
\* recorded; only the claims of the old publisher, which have no lease, wait
\* for an operator (docs/reliability.md).
HandsEventsOver == HandedOver!Spec
=============================================================================
