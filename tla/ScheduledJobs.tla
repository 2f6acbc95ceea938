---------------------------- MODULE ScheduledJobs ----------------------------
(***************************************************************************)
(* The scheduled jobs around the accounts: LoyaltySchedulerProducer adds   *)
(* them, LoyaltyQueueProcessor runs them as BullMQ jobs, and each walks    *)
(* through the profiles it lists, page by page in descending order of the  *)
(* id, with one transaction for each profile.  A transaction is one step   *)
(* of LoyaltyAccounts (ProfileTransactions).  The monthly reset of GOLD    *)
(* walks in the same way; its transaction is in GoldUpgrades.              *)
(***************************************************************************)
EXTENDS LoyaltyAccounts, BullJobs

CONSTANTS
    IdOf,          \* the ids of the profiles, in their order
    BatchSize,     \* BATCH_SIZE, 500 in the code
    NotifyDays,    \* NOTIFY_DAYS_BEFORE, 30 in the code
    Schedules,     \* bound: the jobs that come up together in a behaviour
    ChangeBound,   \* bound: requests of the platform meanwhile
    FailureBound   \* bound: failing statements, stalls and crashes

Kind == {"EXPIRE", "NOTIFY", "ANNUAL", "BIRTHDAY"}

\* A job of the schedule, or the one every start of the service adds.
ScheduledJob == [kind: Kind, day: 0..LastDay, startup: BOOLEAN]

ASSUME SchedulesAssumption ==
    /\ IsFiniteSet(Users) /\ IdOf \in [Users -> Nat]
    /\ \A u, v \in Users : IdOf[u] = IdOf[v] => u = v
    /\ BatchSize \in Nat \ {0} /\ NotifyDays \in Nat
    /\ Schedules \subseteq SUBSET ScheduledJob
    /\ ChangeBound \in Nat /\ FailureBound \in Nat

VARIABLES
    job,       \* the BullMQ job of every scheduled one
    added,     \* the jobs that have been added
    run,       \* what each worker is doing
    owed,      \* who has been due ever since a worker took its job
    notified,  \* loyalty_profiles.last_expiry_notification_at
    emitted,   \* the notifications that were emitted, with the day of the job
    changes, failures

loopVars == <<run, owed>>
noteVars == <<notified, emitted>>
jobsVars == <<accountVars, job, added, loopVars, noteVars, changes, failures>>

Resting == [pc |-> "resting"]
Run == [pc: {"page", "mark", "serve"}, job: ScheduledJob, asOf: 0..LastDay,
        below: Nat, batch: SUBSET Users]

Fails == failures < FailureBound /\ failures' = failures + 1
-----------------------------------------------------------------------------
(***************************************************************************)
(* Whom a job lists, and whom it is for.                                   *)
(***************************************************************************)
Notifiable(a, note, day) ==
    /\ a.balance > 0
    /\ a.expiresAt >= day /\ a.expiresAt <= day + NotifyDays
    /\ note = NoDay \/ note < day - NotifyDays

HasYearStats(a) == a.yearPoints > 0 \/ a.yearVisits > 0

\* The birthday job lists everybody with a birthday and looks at the date later.
Listed(kind, a, note, day) ==
    CASE kind = "EXPIRE"   -> ExpiryDue(a, day)
      [] kind = "NOTIFY"   -> Notifiable(a, note, day)
      [] kind = "ANNUAL"   -> HasYearStats(a)
      [] kind = "BIRTHDAY" -> a.birthday # NoBirthday

Due(kind, a, note, day) ==
    IF kind = "BIRTHDAY" THEN BonusDue(a, day) ELSE Listed(kind, a, note, day)

\* No cursor yet: every id is at most this one.
TopId == CHOOSE n \in {0} \cup {IdOf[u] : u \in Users} : \A u \in Users : IdOf[u] <= n

\* A mutant: the pages are not ordered.
UnorderedPages(S) ==
    {T \in SUBSET S :
        Cardinality(T) = IF Cardinality(S) < BatchSize THEN Cardinality(S) ELSE BatchSize}

\* orderBy id desc, take: the page that the rows S begin with.
Pages(S) ==
    {T \in SUBSET S :
        /\ Cardinality(T) = IF Cardinality(S) < BatchSize THEN Cardinality(S) ELSE BatchSize
        /\ \A u \in T, v \in S \ T : IdOf[u] > IdOf[v]}

\* Where the next page begins (a mutant: at the page itself), and the next one
\* of a batch.
SameAgain(T) == 1 + CHOOSE n \in {IdOf[u] : u \in T} : \A u \in T : n <= IdOf[u]
LowestId(T) == CHOOSE n \in {IdOf[u] : u \in T} : \A u \in T : n <= IdOf[u]
First(T)    == CHOOSE u \in T : \A v \in T : IdOf[v] <= IdOf[u]
-----------------------------------------------------------------------------
JobsInit ==
    /\ Init
    /\ \E s \in Schedules : job = [o \in s |-> NoJob]
    /\ added = {}
    /\ run = [w \in Workers |-> Resting] /\ owed = [w \in Workers |-> {}]
    /\ notified = [u \in Users |-> NoDay] /\ emitted = {}
    /\ changes = 0 /\ failures = 0

\* Those who are due no longer are no longer owed anything.
KeepOwed ==
    owed' = [w \in Workers |->
               IF run'[w] = Resting THEN {}
               ELSE {u \in owed[w] :
                       Due(run[w].job.kind, accounts'[u], notified'[u], run[w].asOf)}]

\* The repeatable job of a day comes up, or the service starts.
AddJob(o) ==
    /\ o \in DOMAIN job \ added
    /\ today = o.day
    /\ job' = [job EXCEPT ![o] = Added(@)]
    /\ added' = added \cup {o}
    /\ UNCHANGED <<accountVars, loopVars, noteVars, changes, failures>>

\* A worker takes the job and reads the clock.
TakeJob(w, o) ==
    /\ run[w] = Resting /\ job[o].state = "waiting"
    /\ job' = [job EXCEPT ![o] = Taken(@, w)]
    /\ run' = [run EXCEPT ![w] = [pc |-> "page", job |-> o, asOf |-> today,
                                  below |-> TopId + 1, batch |-> {}]]
    /\ owed' = [owed EXCEPT ![w] = {u \in Users : Due(o.kind, accounts[u], notified[u], today)}]
    /\ UNCHANGED <<accountVars, added, noteVars, changes, failures>>

Rests(w) == run' = [run EXCEPT ![w] = Resting]
AttemptEnds(w, after) == job' = [job EXCEPT ![run[w].job] = after]

\* The users of a page that the job goes on with.
Candidates(kind, T, day) ==
    {u \in T : kind = "BIRTHDAY" => IsBirthday(accounts[u].birthday, day)}

\* The next page below the cursor; without one the job is done.
ReadPage(w) ==
    LET r == run[w]
        S == {u \in Users : IdOf[u] < r.below /\ Listed(r.job.kind, accounts[u], notified[u], r.asOf)} IN
    /\ r.pc = "page"
    /\ IF S = {} THEN Rests(w) /\ AttemptEnds(w, Completed(job[r.job], w))
       ELSE /\ \E T \in Pages(S) :
                 run' = [run EXCEPT ![w] =
                           [r EXCEPT !.pc = IF r.job.kind = "NOTIFY" THEN "mark" ELSE "serve",
                                     !.below = LowestId(T),
                                     !.batch = Candidates(r.job.kind, T, r.asOf)]]
            /\ UNCHANGED job
    /\ UNCHANGED <<accountVars, added, noteVars, changes, failures>>
    /\ KeepOwed

\* A mutant: the mark is the end of the window and not the clock reading.
MarkPageAhead(w) ==
    /\ run[w].pc = "mark"
    /\ notified' = [u \in Users |-> IF u \in run[w].batch THEN run[w].asOf + NotifyDays
                                   ELSE notified[u]]
    /\ run' = [run EXCEPT ![w].pc = "serve"]
    /\ UNCHANGED <<accountVars, job, added, emitted, changes, failures>>
    /\ KeepOwed

\* notifyExpiringUsers marks the whole page before it emits.
MarkPage(w) ==
    /\ run[w].pc = "mark"
    /\ notified' = [u \in Users |-> IF u \in run[w].batch THEN run[w].asOf ELSE notified[u]]
    /\ run' = [run EXCEPT ![w].pc = "serve"]
    /\ UNCHANGED <<accountVars, job, added, emitted, changes, failures>>
    /\ KeepOwed

\* The transaction for the user: its request, checked again under the lock.
\* A bonus that does not fit fails; any other refusal is an early return.
RequestFor(w, u) == [op |-> run[w].job.kind, user |-> u]
Throws(w, u) ==
    /\ run[w].job.kind = "BIRTHDAY"
    /\ BonusDue(accounts[u], run[w].asOf) /\ ~CanGrant(accounts[u])
Transact(w, u) ==
    IF Accepts(accounts[u], RequestFor(w, u), run[w].asOf)
    THEN Perform(RequestFor(w, u), run[w].asOf)
    ELSE UNCHANGED accountVars

Serve(w) ==
    LET u == First(run[w].batch) IN
    /\ run[w].pc = "serve" /\ run[w].batch # {}
    /\ IF run[w].job.kind = "NOTIFY"
       THEN emitted' = emitted \cup {<<u, run[w].asOf>>} /\ UNCHANGED accountVars
       ELSE ~Throws(w, u) /\ Transact(w, u) /\ UNCHANGED emitted
    /\ run' = [run EXCEPT ![w].batch = @ \ {u}]
    /\ UNCHANGED <<job, added, notified, changes, failures>>
    /\ KeepOwed

EndPage(w) ==
    /\ run[w].pc = "serve" /\ run[w].batch = {}
    /\ run' = [run EXCEPT ![w].pc = "page"]
    /\ UNCHANGED <<accountVars, job, added, noteVars, changes, failures>>
    /\ KeepOwed

\* A mutant: the error of one user is swallowed with the rest of the job.
AttemptEndsQuietly(w) ==
    /\ run[w] # Resting
    /\ LET u == First(run[w].batch)
           serving == run[w].pc = "serve" /\ run[w].batch # {}
                      /\ run[w].job.kind # "NOTIFY" IN
       \/ serving /\ Throws(w, u) /\ UNCHANGED <<accountVars, failures>>
       \/ Fails /\ UNCHANGED accountVars
       \/ serving /\ ~Throws(w, u) /\ Fails /\ Transact(w, u)
    /\ Rests(w) /\ AttemptEnds(w, Completed(job[run[w].job], w))
    /\ UNCHANGED <<added, noteVars, changes>>
    /\ KeepOwed

\* A statement or a transaction throws, or its answer is lost, or the progress
\* cannot be reported: the attempt ends, and the next one begins anew.
AttemptThrows(w) ==
    /\ run[w] # Resting
    /\ LET u == First(run[w].batch)
           serving == run[w].pc = "serve" /\ run[w].batch # {}
                      /\ run[w].job.kind # "NOTIFY" IN
       \/ serving /\ Throws(w, u) /\ UNCHANGED <<accountVars, failures>>
       \/ Fails /\ UNCHANGED accountVars
       \/ serving /\ ~Throws(w, u) /\ Fails /\ Transact(w, u)
    /\ Rests(w) /\ AttemptEnds(w, AttemptFailed(job[run[w].job], w))
    /\ UNCHANGED <<added, noteVars, changes>>
    /\ KeepOwed

WorkerStops(w) ==
    /\ run[w] # Resting /\ Fails
    /\ Rests(w)
    /\ UNCHANGED <<accountVars, job, added, noteVars, changes>>
    /\ KeepOwed

DelayEnds(o) ==
    /\ job[o].state = "delayed"
    /\ job' = [job EXCEPT ![o] = BackoffOver(@)]
    /\ UNCHANGED <<accountVars, added, loopVars, noteVars, changes, failures>>

\* The lock of the job runs out, its worker gone or still at work.
StallDetected(o) ==
    /\ job[o].state = "active"
    /\ IF run[job[o].token] # Resting /\ run[job[o].token].job = o
       THEN Fails ELSE UNCHANGED failures
    /\ job' = [job EXCEPT ![o] = Stalled(@)]
    /\ UNCHANGED <<accountVars, added, loopVars, noteVars, changes>>

\* Meanwhile the platform goes on, and time passes.
Change(r) ==
    /\ changes < ChangeBound /\ changes' = changes + 1
    /\ Perform(r, today)
    /\ UNCHANGED <<job, added, run, noteVars, failures>>
    /\ KeepOwed

DayPasses ==
    /\ Tick
    /\ UNCHANGED <<job, added, run, noteVars, changes, failures>>
    /\ KeepOwed

\* What the queue and the workers do of their own accord.
Progresses ==
    \/ \E w \in Workers :
         \/ ReadPage(w) \/ MarkPage(w) \/ Serve(w) \/ EndPage(w) \/ AttemptThrows(w)
         \/ \E o \in DOMAIN job : TakeJob(w, o)
    \/ \E o \in DOMAIN job : DelayEnds(o) \/ StallDetected(o)

JobsNext ==
    \/ Progresses
    \/ \E w \in Workers : WorkerStops(w)
    \/ \E o \in DOMAIN job : AddJob(o)
    \/ \E r \in Requests : Change(r)
    \/ DayPasses

JobsSpec == JobsInit /\ [][JobsNext]_jobsVars

\* A job that has been added is worked on; nobody need fail, call or wait.
FairJobsSpec == JobsSpec /\ WF_jobsVars(Progresses /\ UNCHANGED failures)
-----------------------------------------------------------------------------
(***************************************************************************)
(* Properties.                                                             *)
(***************************************************************************)
\* Every variable has the shape of its column, its job or a worker's memory.
JobsTypeOK ==
    /\ TypeOK
    /\ job \in [DOMAIN job -> Job] /\ DOMAIN job \in Schedules
    /\ added \subseteq DOMAIN job
    /\ run \in [Workers -> Run \cup {Resting}]
    /\ owed \in [Workers -> SUBSET Users]
    /\ notified \in [Users -> 0..LastDay \cup {NoDay}]
    /\ emitted \subseteq Users \X (0..LastDay)
    /\ changes \in 0..ChangeBound /\ failures \in 0..FailureBound

\* A job completes only when nobody is owed anything: whoever was due when its
\* last attempt began, and still is, has been served, although users are served,
\* earn and spend between the pages and the list has no lock.
NobodyIsSkipped ==
    [][\A w \in Workers :
         run[w] # Resting /\ OwnsJob(job[run[w].job], w) /\ job'[run[w].job] = NoJob
            => owed[w] = {}]_jobsVars

\* Every job ends, completed or visibly failed, through crashes, stalls and
\* retries.
EveryJobEnds ==
    []<>(\A o \in DOMAIN job : job[o].state \in {"none", "failed"})

\* README.md:300 says that `loyalty.points_expiring` goes out through the
\* "outbox publisher": then a mark without its notification could only mean
\* that it is still on its way.  (It is not so: see the README of this model.)
NotificationsFollowMarks ==
    \A u \in Users : notified[u] # NoDay =>
        \/ <<u, notified[u]>> \in emitted
        \/ \E w \in Workers :
             /\ run[w] # Resting /\ run[w].job.kind = "NOTIFY"
             /\ u \in run[w].batch
=============================================================================
