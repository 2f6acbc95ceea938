-------------------------- MODULE InboundDeliveries --------------------------
(***************************************************************************)
(* RmqDeliveryService: the messages of the source queue, the journal       *)
(* inbound_deliveries with one row per message body, and the handlers that *)
(* run the business callback of a message, record its outcome and only     *)
(* then acknowledge it.  A handler stands for one unacknowledged message   *)
(* of one replica, so the number of handlers is the prefetch of them all.  *)
(*                                                                         *)
(* Time is abstracted to the end of a lease and the end of a backoff.  The *)
(* lease token is modelled by the handler that claimed: a handler has one  *)
(* claim at a time and works on no other until it is done with it.         *)
(***************************************************************************)
EXTENDS Integers, FiniteSets

CONSTANTS
    Bodies,        \* message bodies, each with the hash that names its row
    Dates,         \* the bodies of UserDateOfBirthSet; others are purchases
    Poison,        \* bodies whose callback fails for good
    Handlers,
    NoHandler, NoBody,
    MaxAttempts,   \* RMQ_MAX_ATTEMPTS
    Traffics,      \* bound: how often the platform publishes each body
    FailureBound   \* bound: lost channels and answers, failing callbacks

ASSUME InboundAssumption ==
    /\ Dates \subseteq Bodies /\ Poison \subseteq Bodies
    /\ IsFiniteSet(Handlers) /\ NoHandler \notin Handlers /\ NoBody \notin Bodies
    /\ MaxAttempts \in Nat \ {0}
    /\ Traffics \subseteq [Bodies -> Nat] /\ FailureBound \in Nat

VARIABLES
    queue,      \* how many copies of a body wait in the source queue
    row,        \* inbound_deliveries
    handler,    \* the handlers
    traffic,    \* the messages still to be published
    lastDate,   \* the last date that was published
    applied,    \* the bodies whose callback has committed, and the date it set
    failures    \* how many failures there have been

inboundVars == <<queue, row, handler, traffic, lastDate, applied, failures>>

Row == [exists: BOOLEAN, attempts: 0..MaxAttempts, lease: {"none", "live", "ended"},
        owner: Handlers \cup {NoHandler}, due: BOOLEAN, completed: BOOLEAN,
        required: BOOLEAN, quarantined: BOOLEAN]
NoRow == [exists |-> FALSE, attempts |-> 0, lease |-> "none",
          owner |-> NoHandler, due |-> TRUE, completed |-> FALSE,
          required |-> FALSE, quarantined |-> FALSE]

\* "orphan": the channel is gone and the callback still runs.
Stage == {"admit", "read", "quarantine", "claim", "working", "succeeded",
          "failed", "ack", "orphan"}
Handler == [pc: Stage, body: Bodies, attempt: 0..MaxAttempts]
Idle    == [pc |-> "idle"]

\* The handler has an unacknowledged message.
Holds(h, b) == handler[h].pc \notin {"idle", "orphan"} /\ handler[h].body = b
-----------------------------------------------------------------------------
Init ==
    /\ queue = [b \in Bodies |-> 0]
    /\ row = [b \in Bodies |-> NoRow]
    /\ handler = [h \in Handlers |-> Idle]
    /\ traffic \in Traffics
    /\ lastDate = NoBody
    /\ applied = [bodies |-> {}, date |-> NoBody]
    /\ failures = 0

\* The platform publishes a purchase, perhaps twice, or a date of birth: the
\* next date only once the one before has taken effect.
Publish(b) ==
    /\ traffic[b] > 0
    /\ b \in Dates => applied.date = lastDate
    /\ queue' = [queue EXCEPT ![b] = @ + 1]
    /\ traffic' = [traffic EXCEPT ![b] = @ - 1]
    /\ lastDate' = IF b \in Dates THEN b ELSE lastDate
    /\ UNCHANGED <<row, handler, applied, failures>>

Deliver(h, b) ==
    /\ handler[h] = Idle
    /\ queue[b] > 0
    /\ queue' = [queue EXCEPT ![b] = @ - 1]
    /\ handler' = [handler EXCEPT ![h] = [pc |-> "admit", body |-> b, attempt |-> 0]]
    /\ UNCHANGED <<row, traffic, lastDate, applied, failures>>

Goto(h, pc) == handler' = [handler EXCEPT ![h].pc = pc]

\* A statement of the handler leaves its row as r.
Execute(h, r) == row' = [row EXCEPT ![handler[h].body] = r]

\* The row of a body: made at its first delivery, and started over when a date
\* of birth that had completed comes again.
Admitted(b) ==
    IF b \in Dates /\ row[b].completed
    THEN [row[b] EXCEPT !.attempts = 0, !.completed = FALSE, !.due = TRUE]
    ELSE [row[b] EXCEPT !.exists = TRUE]

Admit(h) ==
    /\ handler[h].pc = "admit"
    /\ Execute(h, Admitted(handler[h].body))
    /\ Goto(h, "read")
    /\ UNCHANGED <<queue, traffic, lastDate, applied, failures>>

\* The row is read and the next statement chosen.  With a live lease or a
\* backoff that has not ended the handler sleeps and reads again.
Read(h) ==
    LET r == row[handler[h].body]
        spent == r.required \/ r.attempts >= MaxAttempts IN
    /\ handler[h].pc = "read"
    /\ \/ (r.completed \/ r.quarantined) /\ Goto(h, "ack")
       \/ /\ ~r.completed /\ ~r.quarantined /\ r.lease # "live"
          /\ IF spent THEN Goto(h, "quarantine") ELSE r.due /\ Goto(h, "claim")
    /\ UNCHANGED <<queue, row, traffic, lastDate, applied, failures>>

\* A mutant: spent attempts do not count.
MayQuarantineMarked(r) ==
    ~r.completed /\ ~r.quarantined /\ r.required /\ r.lease # "live"
MayQuarantine(r) ==
    /\ ~r.completed /\ ~r.quarantined /\ r.lease # "live"
    /\ r.required \/ r.attempts >= MaxAttempts

\* The whole envelope is saved; only then is the message acknowledged.
Quarantined(r) ==
    IF MayQuarantine(r)
    THEN [r EXCEPT !.required = TRUE, !.quarantined = TRUE,
                   !.lease = "none", !.owner = NoHandler]
    ELSE r

Quarantine(h) ==
    LET r == row[handler[h].body] IN
    /\ handler[h].pc = "quarantine"
    /\ Execute(h, Quarantined(r))
    /\ Goto(h, IF MayQuarantine(r) THEN "ack" ELSE "read")
    /\ UNCHANGED <<queue, traffic, lastDate, applied, failures>>

\* A mutant: the budget that was read is not compared again.
MayClaimOverBudget(r) ==
    /\ ~r.required /\ ~r.completed /\ ~r.quarantined
    /\ r.due /\ r.lease # "live"

MayClaim(r) ==
    /\ ~r.required /\ ~r.completed /\ ~r.quarantined
    /\ r.due /\ r.lease # "live"
    /\ r.attempts < MaxAttempts

Claimed(r, h) ==
    IF MayClaim(r)
    THEN [r EXCEPT !.attempts = @ + 1, !.lease = "live", !.owner = h] ELSE r

Claim(h) ==
    LET r == row[handler[h].body] IN
    /\ handler[h].pc = "claim"
    /\ Execute(h, Claimed(r, h))
    /\ IF MayClaim(r)
       THEN handler' = [handler EXCEPT ![h].pc = "working", ![h].attempt = r.attempts + 1]
       ELSE Goto(h, "read")
    /\ UNCHANGED <<queue, traffic, lastDate, applied, failures>>

\* The callback commits: a purchase once for all, a date of birth as the date.
WithEffect(b) ==
    applied' = [bodies |-> applied.bodies \cup {b},
                date   |-> IF b \in Dates THEN b ELSE applied.date]

WorkSucceeds(h) ==
    LET b == handler[h].body IN
    /\ handler[h].pc = "working" /\ b \notin Poison
    /\ WithEffect(b)
    /\ Goto(h, "succeeded")
    /\ UNCHANGED <<queue, row, traffic, lastDate, failures>>

WorkFails(h) ==
    /\ handler[h].pc = "working"
    /\ \/ handler[h].body \in Poison /\ UNCHANGED failures
       \/ /\ handler[h].body \notin Poison /\ failures < FailureBound
          /\ failures' = failures + 1
    /\ Goto(h, "failed")
    /\ UNCHANGED <<queue, row, traffic, lastDate, applied>>

\* A mutant: the end of the lease is not compared.
OwnsAfterLease(h) ==
    LET r == row[handler[h].body] IN
    r.owner = h /\ ~r.completed /\ ~r.quarantined

\* The fence of both outcome updates.
Owns(h) ==
    LET r == row[handler[h].body] IN
    /\ r.owner = h /\ r.lease = "live"
    /\ ~r.completed /\ ~r.quarantined

\* The completion is recorded if the claim is still owned; the message is
\* acknowledged in any case, for its effect is known to be committed.
Completed(r, h) ==
    IF Owns(h) THEN [r EXCEPT !.completed = TRUE, !.lease = "none", !.owner = NoHandler]
    ELSE r

RecordSuccess(h) ==
    /\ handler[h].pc = "succeeded"
    /\ Execute(h, Completed(row[handler[h].body], h))
    /\ Goto(h, "ack")
    /\ UNCHANGED <<queue, traffic, lastDate, applied, failures>>

\* A mutant: the last attempt is not made.
IsTerminalEarly(h) ==
    handler[h].body \in Poison \/ handler[h].attempt + 1 >= MaxAttempts

IsTerminal(h) == handler[h].body \in Poison \/ handler[h].attempt >= MaxAttempts

Failed(r, h) ==
    IF Owns(h) THEN [r EXCEPT !.required = IsTerminal(h), !.due = FALSE,
                              !.lease = "none", !.owner = NoHandler]
    ELSE r

\* A mutant: the message is acknowledged with its failure recorded.
RecordFailureAndAck(h) ==
    /\ handler[h].pc = "failed"
    /\ Execute(h, Failed(row[handler[h].body], h))
    /\ Goto(h, "ack")
    /\ UNCHANGED <<queue, traffic, lastDate, applied, failures>>

RecordFailure(h) ==
    /\ handler[h].pc = "failed"
    /\ Execute(h, Failed(row[handler[h].body], h))
    /\ Goto(h, "read")
    /\ UNCHANGED <<queue, traffic, lastDate, applied, failures>>

\* A statement was executed and its answer lost, or not executed at all: the
\* row is admitted again, an outcome recorded again, and otherwise read again.
AnswerLost(h) ==
    LET r  == row[handler[h].body]
        pc == handler[h].pc IN
    /\ failures < FailureBound
    /\ failures' = failures + 1
    /\ \/ UNCHANGED row
       \/ pc = "admit" /\ Execute(h, Admitted(handler[h].body))
       \/ pc = "quarantine" /\ Execute(h, Quarantined(r))
       \/ pc = "claim" /\ Execute(h, Claimed(r, h))
       \/ pc = "succeeded" /\ Execute(h, Completed(r, h))
       \/ pc = "failed" /\ Execute(h, Failed(r, h))
    /\ \/ pc \in {"admit", "succeeded", "failed"} /\ UNCHANGED handler
       \/ pc \in {"quarantine", "claim"} /\ Goto(h, "read")
    /\ UNCHANGED <<queue, traffic, lastDate, applied>>

Ack(h) ==
    /\ handler[h].pc = "ack"
    /\ handler' = [handler EXCEPT ![h] = Idle]
    /\ UNCHANGED <<queue, row, traffic, lastDate, applied, failures>>

\* The channel closes or the process stops: the broker queues the message again
\* and the handler gives up.  A running callback may live on for a while, but
\* its outcome is not recorded.
LoseChannel(h) ==
    /\ handler[h].pc \notin {"idle", "orphan"}
    /\ failures < FailureBound
    /\ failures' = failures + 1
    /\ queue' = [queue EXCEPT ![handler[h].body] = @ + 1]
    /\ \/ handler' = [handler EXCEPT ![h] = Idle]
       \/ handler[h].pc = "working" /\ Goto(h, "orphan")
    /\ UNCHANGED <<row, traffic, lastDate, applied>>
OrphanEnds(h) ==
    LET b == handler[h].body IN
    /\ handler[h].pc = "orphan"
    /\ handler' = [handler EXCEPT ![h] = Idle]
    /\ UNCHANGED applied \/ (b \notin Poison /\ WithEffect(b))
    /\ UNCHANGED <<queue, row, traffic, lastDate, failures>>

LeaseEnds(b) ==
    /\ row[b].lease = "live"
    /\ row' = [row EXCEPT ![b].lease = "ended"]
    /\ UNCHANGED <<queue, handler, traffic, lastDate, applied, failures>>
BackoffEnds(b) ==
    /\ ~row[b].due
    /\ row' = [row EXCEPT ![b].due = TRUE]
    /\ UNCHANGED <<queue, handler, traffic, lastDate, applied, failures>>

Runs(h) ==
    \/ Admit(h) \/ Read(h) \/ Quarantine(h) \/ Claim(h)
    \/ WorkSucceeds(h) \/ WorkFails(h) \/ RecordSuccess(h) \/ RecordFailure(h)
    \/ Ack(h) \/ OrphanEnds(h)

\* What the handlers and time do of their own accord.
Progresses ==
    \/ \E h \in Handlers : Runs(h)
    \/ \E b \in Bodies : LeaseEnds(b) \/ BackoffEnds(b)

\* What others do to them.
Disturbed ==
    \/ \E b \in Bodies : Publish(b)
    \/ \E h \in Handlers : AnswerLost(h) \/ LoseChannel(h)

Delivered == \E h \in Handlers, b \in Bodies : Deliver(h, b)

Next == Progresses \/ Disturbed \/ Delivered

InboundSpec == Init /\ [][Next]_inboundVars
-----------------------------------------------------------------------------
(***************************************************************************)
(* Properties; QuarantineReplay states those of the whole system.          *)
(***************************************************************************)
\* Every variable has the shape of its table or of the handler's memory.
InboundTypeOK ==
    /\ queue \in [Bodies -> Nat]
    /\ row \in [Bodies -> Row]
    /\ handler \in [Handlers -> Handler \cup {Idle}]
    /\ traffic \in [Bodies -> Nat] /\ lastDate \in Dates \cup {NoBody}
    /\ applied \in [bodies: SUBSET Bodies, date: Dates \cup {NoBody}]
    /\ failures \in 0..FailureBound

\* The message waits in the queue or with a handler.
Pending(b) == queue[b] > 0 \/ \E h \in Handlers : Holds(h, b)

\* What a step may do to the row of b is decided by what the row is, and most of
\* it by a handler that is at the statement which does it.
At(h, b, pc) == handler[h].pc = pc /\ handler[h].body = b
HandlerAt(b, pc) == \E h \in Handlers : At(h, b, pc)

BackoffPasses(b) == row'[b] = [row[b] EXCEPT !.due = TRUE]
AbsentRowChanges(b) ==
    ~row[b].exists /\ HandlerAt(b, "admit") /\ row'[b] = [NoRow EXCEPT !.exists = TRUE]
\* The row is open and nobody has a live lease on it.
OpenRowChanges(b) ==
    /\ row[b].exists /\ ~row[b].completed /\ ~row[b].quarantined /\ row[b].lease # "live"
    /\ \/ HandlerAt(b, "quarantine") /\ row'[b].quarantined
       \/ \E h \in Handlers :
            /\ At(h, b, "claim") /\ row'[b].owner = h /\ row'[b].lease = "live"
            /\ row'[b].attempts = row[b].attempts + 1
LeasedRowChanges(b) ==
    /\ row[b].lease = "live" /\ ~row[b].completed /\ ~row[b].quarantined
    /\ \/ row'[b] = [row[b] EXCEPT !.lease = "ended"]
       \/ \E h \in Handlers :
            /\ row[b].owner = h /\ row'[b].lease = "none"
            /\ \/ At(h, b, "succeeded") /\ row'[b].completed
               \/ At(h, b, "failed") /\ ~row'[b].completed /\ ~row'[b].due
\* Only a date of birth starts over.
CompletedRowChanges(b) ==
    /\ row[b].completed /\ b \in Dates /\ HandlerAt(b, "admit")
    /\ ~row'[b].completed /\ row'[b].attempts = 0

\* docs/reliability.md says of dates of birth that "after a successful cycle, a
\* new delivery of the same body can run again (A -> B -> A remains
\* supported)": when every message is acknowledged, none failed and each date
\* was published after the one before took effect, the last one stands.  (It
\* need not: see the README.)
Quiet == \A b \in Bodies : ~Pending(b)
LastDateStands ==
    Quiet /\ failures = 0 /\ (\A b \in Bodies : ~row[b].quarantined)
        => applied.date = lastDate
=============================================================================
