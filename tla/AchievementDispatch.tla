-------------------------- MODULE AchievementDispatch --------------------------
(***************************************************************************)
(* From a purchase to the progress of an achievement: the intents that the *)
(* purchase commits with (AchievementsService.saveDispatchIntents), the    *)
(* replicas of AchievementIntentPublisher that enqueue them without any    *)
(* claim, the jobs of BullMQ, the workers of AchievementsProcessor, and    *)
(* the administration that changes the definitions meanwhile.              *)
(*                                                                         *)
(* An intent and its job have one id, so an event stands for both.  The    *)
(* columns attempts and error of an intent are written for people only and *)
(* left out.  The transaction of processAchievement is one step: it takes  *)
(* the profile lock (ProfileTransactions).  Its reward is the one the      *)
(* operation REWARD of LoyaltyAccounts books.                              *)
(***************************************************************************)
EXTENDS AchievementRules, BullJobs, FiniteSets

CONSTANTS
    Purchases,     \* the sets of events that one purchase saves together
    InitialDefinitions,
    NoDefinition,
    Publishers,    \* replicas: each runs the publisher's cron and a worker
    BatchSize,     \* take: 50
    FailureBound,  \* bound: timeouts, refused statements, stalls and crashes
    EditBound      \* bound: achievements edited, each once

ASSUME DispatchAssumption ==
    /\ Purchases \subseteq SUBSET Events
    /\ InitialDefinitions \subseteq [Achievements -> Definitions \cup {NoDefinition}]
    /\ NoDefinition \notin Definitions
    /\ BatchSize \in Nat \ {0}
    /\ FailureBound \in Nat /\ EditBound \in Nat

VARIABLES
    intent,     \* achievement_dispatch_intents: delivered, or due now or later
    send,       \* what every publisher's tick is doing with an event
    late,       \* enqueue calls whose caller no longer waits
    queued,     \* the events Redis has accepted, once or more often
    job,        \* the BullMQ job of an event
    worker,     \* the jobs being processed
    definition, \* achievements
    edited,     \* the achievements edited since
    processed,  \* processed_events: the keys eventId_achievementId
    progress, paid,
    failures

intentVars == <<intent, send, late, queued>>
effectVars == <<processed, progress, paid>>
adminVars  == <<definition, edited>>
dispatchVars == <<intentVars, job, worker, adminVars, effectVars, failures>>

Defined == {a \in Achievements : definition[a] # NoDefinition}
Resting == [pc |-> "idle"]
Fails   == failures < FailureBound /\ failures' = failures + 1
-----------------------------------------------------------------------------
Init ==
    /\ intent = [e \in Events |-> "absent"]
    /\ send = [p \in Publishers |-> [e \in Events |-> "none"]]
    /\ late = [e \in Events |-> 0]
    /\ queued = {}
    /\ job = [e \in Events |-> NoJob]
    /\ worker = [w \in Workers |-> Resting]
    /\ definition \in InitialDefinitions
    /\ edited = {}
    /\ processed = {}
    /\ progress = [u \in Users |-> [a \in Achievements |-> NoProgress]]
    /\ paid = [u \in Users |-> <<>>]
    /\ failures = 0

\* The purchase commits with the intents of its events (skipDuplicates).
SaveDispatchIntents(S) ==
    /\ \E e \in S : intent[e] = "absent"
    /\ intent' = [e \in Events |->
                    IF e \in S /\ intent[e] = "absent" THEN "due" ELSE intent[e]]
    /\ UNCHANGED <<send, late, queued, job, worker, adminVars, effectVars, failures>>

\* nextAttemptAt comes.
BecomesDue(e) ==
    /\ intent[e] = "later"
    /\ intent' = [intent EXCEPT ![e] = "due"]
    /\ UNCHANGED <<send, late, queued, job, worker, adminVars, effectVars, failures>>
-----------------------------------------------------------------------------
(***************************************************************************)
(* The publisher.  A tick reads a batch, whichever rows are the oldest,    *)
(* and works on all of it at once; the next tick waits for every one.      *)
(***************************************************************************)
\* The oldest rows up to the batch size; which ones are oldest is left open.
Batches(S) ==
    {T \in SUBSET S :
        Cardinality(T) = IF Cardinality(S) < BatchSize THEN Cardinality(S) ELSE BatchSize}

PublishPendingIntents(p) ==
    /\ \A e \in Events : send[p][e] = "none"
    /\ \E T \in Batches({e \in Events : intent[e] = "due"}) \ {{}} :
         send' = [send EXCEPT ![p] = [e \in Events |-> IF e \in T THEN "sending" ELSE "none"]]
    /\ UNCHANGED <<intent, late, queued, job, worker, adminVars, effectVars, failures>>

Goto(p, e, stage) == send' = [send EXCEPT ![p][e] = stage]

\* Redis carries out an add: of no effect if the job still exists.
Enqueue(e) ==
    /\ job' = [job EXCEPT ![e] = Added(@)]
    /\ queued' = queued \cup {e}

DispatchEvent(p, e) ==
    /\ send[p][e] = "sending"
    /\ Enqueue(e)
    /\ Goto(p, e, "accepted")
    /\ UNCHANGED <<intent, late, worker, adminVars, effectVars, failures>>

\* A mutant: what timed out is taken for delivered.
TimeOutAsDelivered(p, e) ==
    /\ send[p][e] = "sending" /\ Fails
    /\ Goto(p, e, "accepted")
    /\ late' = [late EXCEPT ![e] = @ + 1]
    /\ UNCHANGED <<intent, queued, job, worker, adminVars, effectVars>>

\* The timer wins the race: the add may still be carried out, or was lost.
TimeOut(p, e) ==
    /\ send[p][e] = "sending" /\ Fails
    /\ Goto(p, e, "failed")
    /\ UNCHANGED late \/ late' = [late EXCEPT ![e] = @ + 1]
    /\ UNCHANGED <<intent, queued, job, worker, adminVars, effectVars>>

LateEnqueue(e) ==
    /\ late[e] > 0
    /\ late' = [late EXCEPT ![e] = @ - 1]
    /\ Enqueue(e)
    /\ UNCHANGED <<intent, send, worker, adminVars, effectVars, failures>>

Undelivered(e) == intent[e] \in {"due", "later"}

\* Both updates find the row only while it is not delivered.
RecordDelivery(p, e) ==
    /\ send[p][e] = "accepted"
    /\ intent' = IF Undelivered(e) THEN [intent EXCEPT ![e] = "delivered"] ELSE intent
    /\ Goto(p, e, "none")
    /\ UNCHANGED <<late, queued, job, worker, adminVars, effectVars, failures>>

\* A mutant: a failure is recorded whether or not the row is delivered.
RecordFailureAnyway(p, e) ==
    /\ send[p][e] = "failed"
    /\ intent' = [intent EXCEPT ![e] = "later"]
    /\ Goto(p, e, "none")
    /\ UNCHANGED <<late, queued, job, worker, adminVars, effectVars, failures>>

RecordFailure(p, e) ==
    /\ send[p][e] = "failed"
    /\ intent' = IF Undelivered(e) THEN [intent EXCEPT ![e] = "later"] ELSE intent
    /\ Goto(p, e, "none")
    /\ UNCHANGED <<late, queued, job, worker, adminVars, effectVars, failures>>

\* An update is refused: a delivery is then recorded as a failure, and a failure
\* not at all.
CannotRecord(p, e) ==
    /\ send[p][e] \in {"accepted", "failed"} /\ Fails
    /\ Goto(p, e, IF send[p][e] = "accepted" THEN "failed" ELSE "none")
    /\ UNCHANGED <<intent, late, queued, job, worker, adminVars, effectVars>>

PublisherStops(p) ==
    /\ \E e \in Events : send[p][e] # "none"
    /\ Fails
    /\ send' = [send EXCEPT ![p] = [e \in Events |-> "none"]]
    /\ \E S \in SUBSET {e \in Events : send[p][e] = "sending"} :
         late' = [e \in Events |-> IF e \in S THEN late[e] + 1 ELSE late[e]]
    /\ UNCHANGED <<intent, queued, job, worker, adminVars, effectVars>>
-----------------------------------------------------------------------------
(***************************************************************************)
(* The worker.  It reads the definitions once and works through them, in   *)
(* any order, collecting failures; a failure does not end the loop.        *)
(***************************************************************************)
\* A waiting job is taken and the definitions are read, or cannot be.
TakeJob(w, e) ==
    LET S == {a \in Defined : Matches(definition[a], e)} IN
    /\ worker[w] = Resting /\ job[e].state = "waiting"
    /\ \/ /\ job' = [job EXCEPT ![e] = Taken(@, w)]
          /\ worker' = [worker EXCEPT ![w] =
                           [pc |-> "loop", event |-> e, failed |-> FALSE,
                            todo |-> [a \in S |-> definition[a]]]]
          /\ UNCHANGED failures
       \/ /\ Fails
          /\ job' = [job EXCEPT ![e] = AttemptFailed(Taken(@, w), w)]
          /\ UNCHANGED worker
    /\ UNCHANGED <<intentVars, adminVars, effectVars>>

\* The achievement a is dealt with; ok tells whether it failed.
DealtWith(w, a, ok) ==
    LET old == worker[w] IN
    worker' = [worker EXCEPT ![w] =
        [pc |-> "loop", event |-> old.event, failed |-> (old.failed \/ ~ok),
         todo |-> [b \in DOMAIN old.todo \ {a} |-> old.todo[b]]]]

\* A mutant: the key is not looked at.
CountAgain(e, a, d) ==
    LET u == UserOf[e] IN
    /\ processed' = processed \cup {<<e, a>>}
    /\ progress' = [progress EXCEPT ![u][a] = Advanced(@, d, e)]
    /\ paid' = [paid EXCEPT ![u] = Paid(@, progress[u][a], a, d, e)]

\* The transaction: nothing if the key is there, and otherwise the key, the
\* progress, and the reward.
CountEvent(e, a, d) ==
    LET u == UserOf[e] IN
    IF <<e, a>> \in processed THEN UNCHANGED effectVars
    ELSE /\ processed' = processed \cup {<<e, a>>}
         /\ progress' = [progress EXCEPT ![u][a] = Advanced(@, d, e)]
         /\ paid' = [paid EXCEPT ![u] = Paid(@, progress[u][a], a, d, e)]

\* Does the transaction of this definition ever commit?
Commits(e, a, d) == a \notin Refused \/ <<e, a>> \in processed
                    \/ Paid(<<>>, progress[UserOf[e]][a], a, d, e) = <<>>

ProcessAchievement(w, a) ==
    /\ worker[w].pc = "loop" /\ a \in DOMAIN worker[w].todo
    /\ LET e == worker[w].event
           d == worker[w].todo[a] IN
       IF ShouldProcess(d, e) THEN Commits(e, a, d) /\ CountEvent(e, a, d)
       ELSE UNCHANGED effectVars
    /\ DealtWith(w, a, TRUE)
    /\ UNCHANGED <<intentVars, job, adminVars, failures>>

\* The transaction fails: rolled back, or committed with its answer lost.
AchievementFails(w, a) ==
    /\ worker[w].pc = "loop" /\ a \in DOMAIN worker[w].todo
    /\ LET e == worker[w].event
           d == worker[w].todo[a] IN
       /\ ShouldProcess(d, e)
       /\ \/ ~Commits(e, a, d) /\ UNCHANGED <<effectVars, failures>>
          \/ Fails /\ UNCHANGED effectVars
          \/ Fails /\ Commits(e, a, d) /\ CountEvent(e, a, d)
    /\ DealtWith(w, a, FALSE)
    /\ UNCHANGED <<intentVars, job, adminVars>>

\* Mutants: the failures that were collected are not thrown, or the first one
\* ends the loop.
FinishQuietly(w) ==
    /\ worker[w].pc = "loop" /\ DOMAIN worker[w].todo = {}
    /\ job' = [job EXCEPT ![worker[w].event] = Completed(@, w)]
    /\ worker' = [worker EXCEPT ![w] = Resting]
    /\ UNCHANGED <<intentVars, adminVars, effectVars, failures>>

FinishAtFirstFailure(w) ==
    /\ worker[w].pc = "loop" /\ (worker[w].failed \/ DOMAIN worker[w].todo = {})
    /\ job' = [job EXCEPT ![worker[w].event] =
                 IF worker[w].failed THEN AttemptFailed(@, w) ELSE Completed(@, w)]
    /\ worker' = [worker EXCEPT ![w] = Resting]
    /\ UNCHANGED <<intentVars, adminVars, effectVars, failures>>

FinishJob(w) ==
    /\ worker[w].pc = "loop" /\ DOMAIN worker[w].todo = {}
    /\ job' = [job EXCEPT ![worker[w].event] =
                 IF worker[w].failed THEN AttemptFailed(@, w) ELSE Completed(@, w)]
    /\ worker' = [worker EXCEPT ![w] = Resting]
    /\ UNCHANGED <<intentVars, adminVars, effectVars, failures>>

WorkerStops(w) ==
    /\ worker[w] # Resting /\ Fails
    /\ worker' = [worker EXCEPT ![w] = Resting]
    /\ UNCHANGED <<intentVars, job, adminVars, effectVars>>

Works(w, e) == worker[w] # Resting /\ worker[w].event = e

DelayEnds(e) ==
    /\ job[e].state = "delayed"
    /\ job' = [job EXCEPT ![e] = BackoffOver(@)]
    /\ UNCHANGED <<intentVars, worker, adminVars, effectVars, failures>>

\* The lock of a job runs out, because its worker is gone or could not renew it:
\* such a worker goes on with a job that another one may have.
StallDetected(e) ==
    /\ job[e].state = "active"
    /\ IF Works(job[e].token, e) THEN Fails ELSE UNCHANGED failures
    /\ job' = [job EXCEPT ![e] = Stalled(@)]
    /\ UNCHANGED <<intentVars, worker, adminVars, effectVars>>
-----------------------------------------------------------------------------
(***************************************************************************)
(* AdminAchievementsService.  The unique index on the code has the last    *)
(* word in what the two lookups check.                                     *)
(***************************************************************************)
CodeIsFree(a, d) == \A b \in Defined \ {a} : definition[b].code # d.code

Edit(a, d) ==
    /\ a \notin edited /\ Cardinality(edited) < EditBound
    /\ d # definition[a]
    /\ definition' = [definition EXCEPT ![a] = d]
    /\ edited' = edited \cup {a}
    /\ UNCHANGED <<intentVars, job, worker, effectVars, failures>>

CreateAchievement(a, d) ==
    a \notin Defined /\ CodeIsFree(a, d) /\ Edit(a, d)
UpdateAchievement(a, d) ==
    a \in Defined /\ CodeIsFree(a, d) /\ Edit(a, d)
DeleteAchievement(a) ==
    /\ a \in Defined /\ definition[a].active
    /\ Edit(a, [definition[a] EXCEPT !.active = FALSE])
-----------------------------------------------------------------------------
\* What the replicas, Redis and time do of their own accord.
Progresses ==
    \/ \E p \in Publishers :
         \/ PublishPendingIntents(p)
         \/ \E e \in Events : DispatchEvent(p, e) \/ RecordDelivery(p, e) \/ RecordFailure(p, e)
    \/ \E w \in Workers :
         \/ FinishJob(w)
         \/ \E e \in Events : TakeJob(w, e)
         \/ \E a \in Achievements : ProcessAchievement(w, a) \/ AchievementFails(w, a)
    \/ \E e \in Events : BecomesDue(e) \/ DelayEnds(e) \/ StallDetected(e)

Next ==
    \/ Progresses
    \/ \E S \in Purchases : SaveDispatchIntents(S)
    \/ \E p \in Publishers :
         PublisherStops(p) \/ \E e \in Events : TimeOut(p, e) \/ CannotRecord(p, e)
    \/ \E e \in Events : LateEnqueue(e)
    \/ \E w \in Workers : WorkerStops(w)
    \/ \E a \in Achievements :
         \/ DeleteAchievement(a)
         \/ \E d \in Definitions : CreateAchievement(a, d) \/ UpdateAchievement(a, d)

DispatchSpec == Init /\ [][Next]_dispatchVars

\* As long as there is something to do, something is done: one replica that
\* ticks and works is enough.  Failures, purchases and edits need not happen.
FairDispatchSpec == DispatchSpec /\ WF_dispatchVars(Progresses /\ UNCHANGED failures)
-----------------------------------------------------------------------------
(***************************************************************************)
(* Properties.                                                             *)
(***************************************************************************)
\* Every variable has the shape of its table, its job or its memory.
DispatchTypeOK ==
    /\ intent \in [Events -> {"absent", "due", "later", "delivered"}]
    /\ send \in [Publishers -> [Events -> {"none", "sending", "accepted", "failed"}]]
    /\ late \in [Events -> 0..FailureBound] /\ queued \subseteq Events
    /\ job \in [Events -> Job]
    /\ \A w \in Workers : worker[w] # Resting =>
         /\ worker[w].event \in Events /\ worker[w].failed \in BOOLEAN
         /\ DOMAIN worker[w].todo \subseteq Achievements
         /\ \A a \in DOMAIN worker[w].todo : worker[w].todo[a] \in Definitions
    /\ \A a \in Defined :
         \E d \in Definitions : definition[a] \in {d, [d EXCEPT !.active = FALSE]}
    /\ edited \subseteq Achievements
    /\ processed \subseteq Events \X Achievements
    /\ \A u \in Users, a \in Achievements :
         progress[u][a].current \in Nat /\ progress[u][a].target \in Nat \ {0}
    /\ \A u \in Users : \A i \in DOMAIN paid[u] : paid[u][i] \in Reward
    /\ failures \in 0..FailureBound

Counting == INSTANCE AchievementCounting WITH counted <- processed

\* Exactly once: through repeated enqueues, retried jobs, two workers on one job
\* and commits whose answer is lost, each event counts at most once towards
\* each achievement, in one step and under a definition it has had
\* (docs/achievement-delivery.md, "worker DB dedupe").
CountsExactlyOnce == Counting!Spec

\* An achievement pays its reward once, when its progress reaches the target it
\* then has, also while the administration changes target and reward.
RewardsAreRight == Counting!RewardedOnce

Intents == INSTANCE HandOff WITH
    Items <- Events,
    saved <- {e \in Events : intent[e] # "absent"},
    accepted <- queued,
    marked <- {e \in Events : intent[e] = "delivered"},
    abandoned <- {}

\* The publishers keep the promise of a hand-over: delivered only after Redis
\* accepted the job, never taken back, and every intent is delivered in the end
\* ("the row remains available for a retry", docs/achievement-delivery.md).
HandsIntentsOver == Intents!Spec

\* The achievements that e counts towards, if the administration never touched
\* them and the database accepts the effect.
Wanted(e) ==
    {a \in Defined \ Refused :
        a \notin edited /\ Matches(definition[a], e) /\ ShouldProcess(definition[a], e)}
Counted(e) == \A a \in Wanted(e) : <<e, a>> \in processed

\* No failure is swallowed: a job that is gone has counted its event towards
\* every achievement, and one that failed because some achievement always fails
\* has counted it towards all the others.
NothingIsForgotten ==
    \A e \in queued :
        \/ job[e].state = "none"
        \/ job[e].state = "failed" /\ failures = 0
        => Counted(e)

\* Every event counts in the end, unless its job uses up its attempts, which
\* leaves it visibly failed (both are final, so that "again and again" of all
\* events is "in the end" of each).
EveryEventCounts ==
    []<>(\A e \in Events :
            intent[e] # "absent" => Counted(e) \/ job[e].state = "failed")
=============================================================================
