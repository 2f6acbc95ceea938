--------------------------- MODULE QuarantineReplay ---------------------------
(***************************************************************************)
(* QuarantineReplayService and the tool that calls it, beside the inbound  *)
(* deliveries: an operator stops the consumers, resets the row of a        *)
(* quarantined message under a replay id, and publishes the saved message  *)
(* again; when in doubt, the tool is run again with the same id.           *)
(*                                                                         *)
(* replay_count goes up exactly when replay_id changes, and the operator   *)
(* takes a new id for a new replay: both are one number here.              *)
(***************************************************************************)
EXTENDS InboundDeliveries

CONSTANTS
    ReplayBound,        \* bound: replay ids of a message
    InterventionBound   \* bound: stops of the consumers and runs of the tool

ASSUME ReplayAssumption == ReplayBound \in Nat /\ InterventionBound \in Nat

VARIABLES
    consuming,      \* do the source consumers run?
    replayId,       \* inbound_deliveries.replay_id, 0 for NULL
    tool,           \* the run of the tool
    confirmed,      \* the replay id last confirmed to the operator
    starts,         \* how often the callback of a purchase was started
    interventions

replayVars == <<consuming, replayId, tool, confirmed, interventions>>
allVars == <<inboundVars, replayVars, starts>>

Unused == [pc |-> "idle"]

ReplayInit ==
    /\ Init
    /\ consuming = TRUE
    /\ replayId = [b \in Bodies |-> 0] /\ confirmed = [b \in Bodies |-> 0]
    /\ tool = Unused
    /\ starts = [b \in Bodies |-> 0]
    /\ interventions = 0

Intervenes ==
    /\ interventions < InterventionBound
    /\ interventions' = interventions + 1

\* Every channel closes, as in LoseChannel; some callbacks still run.
StopConsumers ==
    /\ consuming /\ Intervenes
    /\ consuming' = FALSE
    /\ queue' = [b \in Bodies |-> queue[b] + Cardinality({h \in Handlers : Holds(h, b)})]
    /\ \E S \in SUBSET {h \in Handlers : handler[h].pc = "working"} :
         handler' = [h \in Handlers |->
                       IF h \in S THEN [handler[h] EXCEPT !.pc = "orphan"]
                       ELSE IF handler[h].pc = "orphan" THEN handler[h] ELSE Idle]
    /\ UNCHANGED <<row, traffic, lastDate, applied, failures, replayId, tool, confirmed, starts>>

StartConsumers ==
    /\ ~consuming
    /\ consuming' = TRUE
    /\ UNCHANGED <<inboundVars, replayId, tool, confirmed, starts, interventions>>

\* The record has its envelope, saved when it was first quarantined, and no
\* source consumer runs.  The operator gives a new id, or the last one again.
StartReplay(b, id) ==
    /\ tool = Unused /\ Intervenes
    /\ id >= replayId[b]
    /\ row[b].quarantined \/ replayId[b] > 0
    /\ ~consuming
    /\ tool' = [pc |-> "reset", body |-> b, id |-> id, was |-> replayId[b]]
    /\ UNCHANGED <<inboundVars, consuming, replayId, confirmed, starts>>

\* A mutant: a repeated run resets again.
ResetsAgain(b, id) == row[b].quarantined \/ replayId[b] = id

\* The WHERE clause of the reset: once for a replay id.
Resets(b, id) == row[b].quarantined /\ replayId[b] # id /\ row[b].lease # "live"

ResetRow ==
    LET b == tool.body
        changed == Resets(b, tool.id) IN
    /\ tool.pc = "reset"
    /\ IF changed
       THEN /\ row' = [row EXCEPT ![b] = [NoRow EXCEPT !.exists = TRUE]]
            /\ replayId' = [replayId EXCEPT ![b] = tool.id]
       ELSE UNCHANGED <<row, replayId>>
    /\ tool' = IF changed \/ tool.was = tool.id THEN [tool EXCEPT !.pc = "publish"] ELSE Unused
    /\ UNCHANGED <<queue, handler, traffic, lastDate, applied, failures,
                   consuming, confirmed, starts, interventions>>

\* No consumer has started meanwhile, and the broker confirms the message; or
\* the run ends with an error.
PublishAgain ==
    /\ tool.pc = "publish"
    /\ IF consuming THEN UNCHANGED <<queue, confirmed>>
       ELSE /\ queue' = [queue EXCEPT ![tool.body] = @ + 1]
            /\ confirmed' = [confirmed EXCEPT ![tool.body] = tool.id]
    /\ tool' = Unused
    /\ UNCHANGED <<row, handler, traffic, lastDate, applied, failures,
                   consuming, replayId, starts, interventions>>

\* A mutant: a timeout is reported as a success.
ToolFailsQuietly ==
    /\ tool # Unused /\ failures < FailureBound
    /\ failures' = failures + 1
    /\ confirmed' = [confirmed EXCEPT ![tool.body] = tool.id]
    /\ tool' = Unused
    /\ UNCHANGED <<queue, row, handler, traffic, lastDate, applied,
                   consuming, replayId, starts, interventions>>

\* The run stops or times out; the message may have reached the queue.
ToolFails ==
    /\ tool # Unused /\ failures < FailureBound
    /\ failures' = failures + 1
    /\ \/ UNCHANGED queue
       \/ tool.pc = "publish" /\ ~consuming /\ queue' = [queue EXCEPT ![tool.body] = @ + 1]
    /\ tool' = Unused
    /\ UNCHANGED <<row, handler, traffic, lastDate, applied,
                   consuming, replayId, confirmed, starts, interventions>>

\* What made a purchase fail for good is repaired before it is replayed.
RepairedWorkSucceeds(h) ==
    LET b == handler[h].body IN
    /\ handler[h].pc = "working" /\ b \in Poison /\ replayId[b] > 0
    /\ WithEffect(b)
    /\ Goto(h, "succeeded")
    /\ UNCHANGED <<queue, row, traffic, lastDate, failures>>

Begins(h, b) ==
    /\ b \notin Dates
    /\ handler[h].pc = "claim" /\ handler[h].body = b /\ handler'[h].pc = "working"
CountStarts ==
    starts' = [b \in Bodies |->
                 IF \E h \in Handlers : Begins(h, b) THEN starts[b] + 1 ELSE starts[b]]

Continues ==
    \/ /\ Progresses \/ (\E h \in Handlers : RepairedWorkSucceeds(h))
                      \/ (consuming /\ Delivered)
       /\ CountStarts
       /\ UNCHANGED replayVars
    \/ StartConsumers \/ ResetRow \/ PublishAgain

ReplayNext ==
    \/ Continues
    \/ Disturbed /\ UNCHANGED <<replayVars, starts>>
    \/ StopConsumers \/ ToolFails
    \/ \E b \in Bodies, id \in 1..ReplayBound : StartReplay(b, id)

ReplaySpec == ReplayInit /\ [][ReplayNext]_allVars

\* As long as there is something to do, something is done: the broker delivers,
\* the handlers go on, time passes, and the consumers are started again.
FairReplaySpec == ReplaySpec /\ WF_allVars(Continues)
-----------------------------------------------------------------------------
(***************************************************************************)
(* Properties.                                                             *)
(***************************************************************************)
\* Every variable has the shape of its table or of the tool's memory.
ReplayTypeOK ==
    /\ InboundTypeOK
    /\ consuming \in BOOLEAN
    /\ replayId \in [Bodies -> 0..ReplayBound]
    /\ confirmed \in [Bodies -> 0..ReplayBound]
    /\ tool = Unused \/ tool \in [pc: {"reset", "publish"}, body: Bodies,
                                   id: 1..ReplayBound, was: 0..ReplayBound]
    /\ starts \in [Bodies -> Nat]
    /\ interventions \in 0..InterventionBound

\* No message is lost: one whose row exists waits in the queue or with a
\* handler until its callback has committed or its envelope is in quarantine
\* (docs/reliability.md, "Original messages remain unacknowledged until"); and
\* one that a replay has taken out of quarantine is on its way, or its replay
\* has not been confirmed to the operator, who runs the tool again.
NoMessageLost ==
    \A b \in Bodies : row[b].exists =>
        \/ Pending(b) \/ b \in applied.bodies \/ row[b].quarantined
        \/ replayId[b] # confirmed[b]

\* A message is given up for a reason: in quarantine only when its attempts are
\* spent or its callback failed for good, and never together with a recorded
\* completion or with a live claim.
QuarantinedForAReason ==
    \A b \in Bodies : row[b].quarantined =>
        /\ row[b].attempts >= MaxAttempts \/ b \in Poison
        /\ ~row[b].completed
        /\ row[b].lease = "none"

\* The first run of a new replay takes the row out of quarantine.
QuarantinedRowChanges(b) ==
    /\ row[b].quarantined /\ replayId'[b] # replayId[b]
    /\ row'[b] = [NoRow EXCEPT !.exists = TRUE]

\* Fencing: an outcome is recorded only by the handler that owns the claim, and
\* within its lease.  Without a live lease an open row is changed only by a
\* handler that claims or quarantines it, and a backoff ends; a completed row is
\* changed only by a date of birth that starts over, and a quarantined one by the
\* first run of a new replay.  So an owner that wakes after its lease or after a
\* newer claim changes nothing ("A late owner cannot overwrite a newer attempt's
\* state", docs/reliability.md).
OutcomesAreFenced ==
    [][\A b \in Bodies : row'[b] # row[b] =>
         \/ BackoffPasses(b) \/ AbsentRowChanges(b) \/ OpenRowChanges(b)
         \/ LeasedRowChanges(b) \/ CompletedRowChanges(b)
         \/ QuarantinedRowChanges(b)]_allVars

\* The budget is finite: through copies, lost answers, crashes and repeated runs
\* of the tool, the callback of a purchase is started at most max_attempts
\* times, and as often again for each replay id ("it republishes without
\* resetting a budget a second time").
BudgetIsKept ==
    \A b \in Bodies : starts[b] <= MaxAttempts * (1 + replayId[b])

\* Every delivery comes to an end: again and again no message is left, because
\* each was acknowledged after its callback committed or in quarantine.
EveryDeliveryEnds == []<>Quiet
=============================================================================
