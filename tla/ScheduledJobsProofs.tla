-------------------------- MODULE ScheduledJobsProofs --------------------------
(***************************************************************************)
(* Proofs about ScheduledJobs, for every finite set of users and every     *)
(* page size, schedule and number of workers: the walk through the pages   *)
(* skips nobody, and the jobs keep the books of LoyaltyAccounts.           *)
(***************************************************************************)
EXTENDS ScheduledJobs, BullJobsProofs, LoyaltyAccountsProofs

\* Whoever a job is for is still ahead of it: on a page to come, or on this one
\* and not dealt with yet.
Ahead(r, u) ==
    \/ IdOf[u] < r.below
    \/ u \in r.batch /\ (r.pc = "mark" \/ r.job.kind # "NOTIFY")

RunSound(w) ==
    run[w] # Resting =>
        /\ run[w].job \in DOMAIN job
        /\ run[w].pc = "page" => run[w].batch = {}
        /\ run[w].pc = "mark" => run[w].job.kind = "NOTIFY"

OwedSound(w) ==
    run[w] # Resting =>
        \A u \in owed[w] :
            /\ Due(run[w].job.kind, accounts[u], notified[u], run[w].asOf)
            /\ Ahead(run[w], u)

StatsNeedProfile ==
    \A u \in Users : ~accounts[u].exists => ~HasYearStats(accounts[u])

AccountsInv == IInv /\ StatsNeedProfile

QueueInv ==
    /\ DOMAIN job \in Schedules /\ job \in [DOMAIN job -> Job]
    /\ \A o \in DOMAIN job : JobSound(job[o])
    /\ added \subseteq DOMAIN job

LoopInv ==
    /\ run \in [Workers -> Run \cup {Resting}]
    /\ owed \in [Workers -> SUBSET Users]
    /\ \A w \in Workers : RunSound(w) /\ OwedSound(w)

NotesInv ==
    /\ notified \in [Users -> 0..LastDay \cup {NoDay}]
    /\ emitted \subseteq Users \X (0..LastDay)
    /\ changes \in 0..ChangeBound /\ failures \in 0..FailureBound

JobsInv == AccountsInv /\ QueueInv /\ LoopInv /\ NotesInv
-----------------------------------------------------------------------------
(***************************************************************************)
(* The ids of a finite set of users.                                       *)
(***************************************************************************)
\* A number for each element of a finite set has a greatest one: otherwise some
\* smallest subset has none.
LEMMA SomeIsGreatest ==
    ASSUME NEW T, IsFiniteSet(T), T # {}, NEW f \in [T -> Int]
    PROVE  \E x \in T : \A y \in T : f[y] <= f[x]
<1> DEFINE Greatest(U, x) == x \in U /\ \A y \in U : f[y] <= f[x]
           Bad == {U \in FiniteSubsetsOf(T) : U # {} /\ ~\E x \in T : Greatest(U, x)}
<1>1. CASE Bad = {}
  <2>1. T \in FiniteSubsetsOf(T)
    BY DEF FiniteSubsetsOf
  <2>. QED BY <1>1, <2>1
<1>2. CASE Bad # {}
  <2>1. IsWellFoundedOn(StrictSubsetOrdering(T), FiniteSubsetsOf(T))
    BY FS_StrictSubsetOrderingWellFounded
  <2>2. PICK U \in Bad : \A V \in Bad : ~(<<V, U>> \in StrictSubsetOrdering(T))
    <3>1. Bad \subseteq FiniteSubsetsOf(T)
      OBVIOUS
    <3> HIDE DEF Bad
    <3>. QED BY <1>2, <2>1, <3>1, WFMin
  <2>3. U \subseteq T /\ IsFiniteSet(U) /\ U # {}
    BY DEF FiniteSubsetsOf
  <2>4. PICK x \in U : TRUE
    BY <2>3
  <2> DEFINE V == U \ {x}
  <2>5. V \in FiniteSubsetsOf(T) /\ <<V, U>> \in StrictSubsetOrdering(T)
    BY <2>3, <2>4, FS_RemoveElement DEF FiniteSubsetsOf, StrictSubsetOrdering
  <2>6. V \notin Bad
    BY <2>2, <2>5
  <2>7. CASE V = {}
    <3>1. Greatest(U, x)
      BY <2>3, <2>7
    <3>. QED BY <2>3, <3>1
  <2>8. CASE V # {}
    <3>1. PICK m \in T : Greatest(V, m)
      BY <2>5, <2>6, <2>8
    <3>2. f[x] \in Int /\ f[m] \in Int /\ \A y \in U : f[y] \in Int
      BY <2>3
    <3>3. CASE f[x] <= f[m]
      <4>1. Greatest(U, m)
        BY <3>1, <3>3
      <4>. QED BY <4>1
    <3>4. CASE f[m] < f[x]
      <4>1. \A y \in U : f[y] <= f[x]
        BY <3>1, <3>2, <3>4
      <4>. QED BY <2>3, <4>1
    <3>. QED BY <3>2, <3>3, <3>4
  <2>. QED BY <2>7, <2>8
<1>. QED BY <1>1, <1>2

LEMMA HighestUser ==
    ASSUME NEW T \in SUBSET Users, T # {}
    PROVE  \E u \in T : \A v \in T : IdOf[v] <= IdOf[u]
<1> DEFINE f == [u \in T |-> IdOf[u]]
<1>1. IsFiniteSet(T) /\ f \in [T -> Int]
  BY SchedulesAssumption, FS_Subset
<1>2. PICK u \in T : \A v \in T : f[v] <= f[u]
  BY <1>1, SomeIsGreatest
<1>. QED BY <1>2

LEMMA LowestUser ==
    ASSUME NEW T \in SUBSET Users, T # {}
    PROVE  \E u \in T : \A v \in T : IdOf[u] <= IdOf[v]
<1> DEFINE f == [u \in T |-> -IdOf[u]]
<1>1. IsFiniteSet(T) /\ f \in [T -> Int] /\ \A u \in T : IdOf[u] \in Int
  BY SchedulesAssumption, FS_Subset
<1>2. PICK u \in T : \A v \in T : f[v] <= f[u]
  BY <1>1, SomeIsGreatest
<1>3. \A v \in T : -IdOf[v] <= -IdOf[u]
  BY <1>2
<1>. QED BY <1>1, <1>3

\* The first user of a batch is one of it.
LEMMA FirstIsThere ==
    ASSUME NEW T \in SUBSET Users, T # {}
    PROVE  First(T) \in T
<1>1. \E u \in T : \A v \in T : IdOf[v] <= IdOf[u]
  BY HighestUser
<1>. QED BY <1>1 DEF First

\* The cursor after a page is the lowest id on it.
LEMMA LowestIdIsThere ==
    ASSUME NEW T \in SUBSET Users, T # {}
    PROVE  LowestId(T) \in Nat /\ \E u \in T : LowestId(T) = IdOf[u]
<1>1. PICK u \in T : \A v \in T : IdOf[u] <= IdOf[v]
  BY LowestUser
<1>2. \E n \in {IdOf[v] : v \in T} : \A v \in T : n <= IdOf[v]
  BY <1>1
<1>3. LowestId(T) \in {IdOf[v] : v \in T}
  BY <1>2 DEF LowestId
<1>. QED BY <1>3, SchedulesAssumption

LEMMA TopIdIsTop == TopId \in Nat /\ \A u \in Users : IdOf[u] <= TopId
<1> DEFINE N == {0} \cup {IdOf[u] : u \in Users}
<1>1. \E n \in N : \A u \in Users : IdOf[u] <= n
  <2>1. CASE Users = {}
    BY <2>1
  <2>2. CASE Users # {}
    BY <2>2, HighestUser
  <2>. QED BY <2>1, <2>2
<1>2. TopId \in N /\ \A u \in Users : IdOf[u] <= TopId
  BY <1>1 DEF TopId
<1>3. N \subseteq Nat
  BY SchedulesAssumption
<1>. QED BY <1>2, <1>3

\* A page is not empty unless nobody is listed, and whoever is listed and not on
\* it comes after all who are.
LEMMA PagesSplit ==
    ASSUME NEW S \in SUBSET Users, S # {}, NEW T \in Pages(S)
    PROVE  /\ T \subseteq S /\ T # {}
           /\ LowestId(T) \in Nat
           /\ \A u \in S \ T : IdOf[u] < LowestId(T)
<1>1. T \subseteq S /\ \A u \in T, v \in S \ T : IdOf[u] > IdOf[v]
  BY DEF Pages
<1>2. T # {}
  <2>1. IsFiniteSet(S)
    BY SchedulesAssumption, FS_Subset
  <2>2. Cardinality(S) \in Nat /\ Cardinality(S) # 0 /\ Cardinality({}) = 0
    BY <2>1, FS_CardinalityType, FS_EmptySet
  <2>3. Cardinality(T) = IF Cardinality(S) < BatchSize THEN Cardinality(S) ELSE BatchSize
    BY DEF Pages
  <2>4. Cardinality(T) # 0
    BY <2>2, <2>3, SchedulesAssumption
  <2>. QED BY <2>2, <2>4
<1>3. LowestId(T) \in Nat /\ \E u \in T : LowestId(T) = IdOf[u]
  BY <1>1, <1>2, LowestIdIsThere
<1>. QED BY <1>1, <1>2, <1>3
-----------------------------------------------------------------------------
(***************************************************************************)
(* The accounts, and those a job has served.                               *)
(***************************************************************************)
LEMMA RequestsAreOperations ==
    ASSUME NEW r \in Request
    PROVE  r.op \in Operations
  BY DEF Request, PointRequest, PurchaseRequest, RewardRequest, AdminRequest,
         BirthdayRequest, UserRequest, Operations

\* A request that is carried out keeps the invariant of the accounts.
LEMMA PerformKeepsAccounts ==
    ASSUME AccountsInv, NEW r \in Request, NEW day \in Int, Perform(r, day)
    PROVE  AccountsInv'
<1> DEFINE b == After(accounts[r.user], r, day)
<1>1. r.op \in Operations /\ r.user \in Users /\ IInv
  BY RequestsAreOperations, RequestForms DEF AccountsInv
<1>2. IInv'
  BY <1>1, PerformInv DEF Operations
<1>3. AccountInv(accounts[r.user]) /\ Accepts(accounts[r.user], r, day)
  BY <1>1 DEF IInv, Perform
<1>4. b.exists
  BY <1>1, <1>3, AfterFollows
<1>5. accounts' = [accounts EXCEPT ![r.user] = b] /\ accounts \in [Users -> Account]
  BY <1>1 DEF Perform, IInv, TypeOK
<1> HIDE DEF b
<1>6. \A u \in Users : accounts'[u] = accounts[u] \/ accounts'[u].exists
  BY <1>1, <1>4, <1>5
<1>7. StatsNeedProfile'
  BY <1>6 DEF AccountsInv, StatsNeedProfile, HasYearStats
<1>. QED BY <1>2, <1>7 DEF AccountsInv

LEMMA InitAccounts == Init => AccountsInv
<1> SUFFICES ASSUME Init PROVE AccountsInv
  OBVIOUS
<1>1. ~HasYearStats(NoAccount) /\ LegacyAccount.exists
  BY DEF HasYearStats, NoAccount, LegacyAccount
<1>2. StatsNeedProfile
  BY <1>1 DEF Init, StatsNeedProfile
<1>. QED BY <1>2, InitInv DEF AccountsInv

LEMMA BonusIsGranted ==
    ASSUME NEW a, AccountInv(a), NEW day \in Int
    PROVE  Granted(WithBonus(a, day), day)
<1> DEFINE e == Earned(a, "EARN_BIRTHDAY", BirthdayBonus, NoOrder, day)
           q == Promoted(e)
           g == [year |-> YearOf(day), entry |-> Len(a.ledger) + 1]
           gs == q.grants \cup {g}
<1>1. BirthdayBonus \in Int /\ "EARN_BIRTHDAY" \in EntryTypes /\ a \in Account
      /\ NoOrder \in Orders \cup {NoOrder}
  BY RulesAssumption DEF EntryTypes, Credits, AccountInv
<1>2. e \in Account /\ e.tier = a.tier /\ e.upgrades = a.upgrades
  BY <1>1, EarnedShape
<1>3. AccountAnnounced(e)
  BY <1>2, SameAnnouncements DEF AccountInv
<1>4. q \in Account
  BY <1>2, <1>3, PromotedShape
<1>5. WithBonus(a, day) = [q EXCEPT !.grants = gs]
  BY DEF WithBonus
<1> HIDE DEF q, g
<1>6. WithBonus(a, day).grants = gs
  BY <1>4, <1>5 DEF Account
<1>7. g \in WithBonus(a, day).grants /\ g.year = YearOf(day)
  BY <1>6 DEF g
<1>. QED BY <1>7 DEF Granted

\* The transaction of a job keeps the accounts, and the user it was for is not
\* due again in this job.
LEMMA TransactServes ==
    ASSUME AccountsInv, NEW w, NEW u \in Users, run[w].job.kind \in Kind \ {"NOTIFY"},
           run[w].asOf \in Int, Transact(w, u)
    PROVE  /\ AccountsInv'
           /\ ~Throws(w, u) =>
                \A note : ~Due(run[w].job.kind, accounts'[u], note, run[w].asOf)
<1> DEFINE r == RequestFor(w, u)
           a == accounts[u]
           day == run[w].asOf
           b == After(a, r, day)
<1>1. r \in Request /\ r.op = run[w].job.kind /\ r.user = u
  BY DEF RequestFor, Request, UserRequest, Kind
<1>2. AccountsInv'
  <2>1. CASE Accepts(a, r, day)
    BY <1>1, <2>1, PerformKeepsAccounts DEF Transact
  <2>2. CASE ~Accepts(a, r, day)
    BY <2>2 DEF Transact, accountVars, AccountsInv, IInv, TypeOK, StatsNeedProfile
  <2>. QED BY <2>1, <2>2
<1>3. AccountInv(a) /\ a \in Account /\ accounts \in [Users -> Account]
  BY DEF AccountsInv, IInv, TypeOK, AccountInv
<1>4. IF Accepts(a, r, day) THEN accounts'[u] = b ELSE accounts'[u] = a
  BY <1>1, <1>3 DEF Transact, Perform, accountVars
<1> SUFFICES ASSUME ~Throws(w, u), NEW note
             PROVE  ~Due(r.op, accounts'[u], note, day)
  BY <1>1, <1>2
<1>5. CASE r.op = "EXPIRE"
  <2>1. Accepts(a, r, day) <=> ExpiryDue(a, day)
    BY <1>5 DEF Accepts
  <2>2. b = Posted(a, "EXPIRE", -a.balance, NoOrder)
    BY <1>5 DEF After, Expired
  <2>3. a.balance \in Int /\ "EXPIRE" \in EntryTypes /\ NoOrder \in Orders \cup {NoOrder}
    BY <1>3 DEF Account, EntryTypes, Debits
  <2>4. b.balance = a.balance + (-a.balance)
    BY <1>3, <2>2, <2>3, PostedShape DEF PostsRow
  <2>5. b.balance = 0
    BY <2>3, <2>4
  <2> HIDE DEF b, r
  <2>6. ~ExpiryDue(accounts'[u], day)
    BY <1>4, <2>1, <2>5 DEF ExpiryDue
  <2>. QED BY <1>5, <2>6 DEF Due, Listed
<1>6. CASE r.op = "ANNUAL"
  <2>1. Accepts(a, r, day) <=> a.exists
    BY <1>6 DEF Accepts
  <2>2. b = SetYear(a, 0, 0)
    BY <1>6 DEF After, StatsReset, SetYear
  <2>3. ~HasYearStats(b)
    <3> HIDE DEF a, b, r
    <3>1. b.yearPoints = 0 /\ b.yearVisits = 0
      BY <1>3, <2>2, YearColumns
    <3>. QED BY <3>1 DEF HasYearStats
  <2>4. ~a.exists => ~HasYearStats(a)
    BY DEF AccountsInv, StatsNeedProfile
  <2> HIDE DEF b, r, a
  <2>5. ~HasYearStats(accounts'[u])
    BY <1>4, <2>1, <2>3, <2>4
  <2>. QED BY <1>6, <2>5 DEF Due, Listed
<1>7. CASE r.op = "BIRTHDAY"
  <2>1. Accepts(a, r, day) <=> BonusDue(a, day) /\ CanGrant(a)
    BY <1>7 DEF Accepts
  <2>2. b = WithBonus(a, day)
    BY <1>7 DEF After
  <2>3. Granted(b, day)
    BY <1>3, <2>2, BonusIsGranted
  <2>4. BonusDue(a, day) => CanGrant(a)
    BY <1>1, <1>7 DEF Throws
  <2> HIDE DEF b, r
  <2>5. ~BonusDue(accounts'[u], day)
    BY <1>4, <2>1, <2>3, <2>4 DEF BonusDue
  <2>. QED BY <1>7, <2>5 DEF Due
<1>. QED BY <1>1, <1>5, <1>6, <1>7 DEF Kind
-----------------------------------------------------------------------------
(***************************************************************************)
(* The queue and the walk, one worker or job at a time.                    *)
(***************************************************************************)
LEMMA JobStep ==
    ASSUME QueueInv, NEW o \in DOMAIN job, NEW k, JobSound(k),
           job' = [job EXCEPT ![o] = k], added' \subseteq DOMAIN job
    PROVE  QueueInv' /\ DOMAIN job' = DOMAIN job
<1>1. DOMAIN job' = DOMAIN job /\ k \in Job
  BY DEF JobSound
<1>2. job' \in [DOMAIN job -> Job]
  BY <1>1 DEF QueueInv
<1>3. \A p \in DOMAIN job : JobSound(job'[p])
  BY DEF QueueInv
<1>. QED BY <1>1, <1>2, <1>3 DEF QueueInv

\* Nobody is owed who was not before, and those who still are owed are due.
LEMMA OwedKept ==
    ASSUME LoopInv, KeepOwed,
           \A v \in Workers :
             \/ run'[v] = Resting
             \/ /\ run[v] # Resting
                /\ run'[v].job = run[v].job /\ run'[v].asOf = run[v].asOf
                /\ \A u \in owed[v] :
                     Due(run[v].job.kind, accounts'[u], notified'[u], run[v].asOf)
                       => Ahead(run'[v], u)
    PROVE  /\ owed' \in [Workers -> SUBSET Users]
           /\ \A v \in Workers : OwedSound(v)'
<1>1. ASSUME NEW v \in Workers
      PROVE  owed'[v] \in SUBSET Users /\ OwedSound(v)'
  <2>1. owed[v] \subseteq Users
    BY DEF LoopInv
  <2>2. CASE run'[v] = Resting
    BY <2>2 DEF KeepOwed, OwedSound
  <2>3. CASE run'[v] # Resting
    <3>1. owed'[v] = {u \in owed[v] :
                        Due(run[v].job.kind, accounts'[u], notified'[u], run[v].asOf)}
      BY <2>3 DEF KeepOwed
    <3>. QED BY <2>1, <2>3, <3>1 DEF OwedSound
  <2>. QED BY <2>2, <2>3
<1>2. owed' = [v \in Workers |-> owed'[v]]
  BY DEF KeepOwed
<1>. QED BY <1>1, <1>2

\* One worker goes on with its job, or gives it up.
LEMMA WorkerStep ==
    ASSUME LoopInv, KeepOwed, DOMAIN job' = DOMAIN job,
           NEW w \in Workers, run[w] # Resting,
           NEW q, run' = [run EXCEPT ![w] = q],
           \/ q = Resting
           \/ /\ q \in Run /\ q.job = run[w].job /\ q.asOf = run[w].asOf
              /\ q.pc = "page" => q.batch = {}
              /\ q.pc = "mark" => q.job.kind = "NOTIFY"
              /\ \A u \in owed[w] :
                   Due(run[w].job.kind, accounts'[u], notified'[u], run[w].asOf)
                     => Ahead(q, u)
    PROVE  LoopInv'
<1>1. run \in [Workers -> Run \cup {Resting}] /\ run'[w] = q
      /\ \A v \in Workers \ {w} : run'[v] = run[v]
  BY DEF LoopInv
<1>2. run' \in [Workers -> Run \cup {Resting}]
  BY <1>1
<1>3. \A v \in Workers :
         run[v] # Resting => \A u \in owed[v] : Ahead(run[v], u)
  BY DEF LoopInv, OwedSound
<1>4. \A v \in Workers :
        \/ run'[v] = Resting
        \/ /\ run[v] # Resting
           /\ run'[v].job = run[v].job /\ run'[v].asOf = run[v].asOf
           /\ \A u \in owed[v] :
                Due(run[v].job.kind, accounts'[u], notified'[u], run[v].asOf)
                  => Ahead(run'[v], u)
  BY <1>1, <1>3
<1>5. \A v \in Workers : RunSound(v)'
  BY <1>1 DEF LoopInv, RunSound
<1>. QED BY <1>2, <1>4, <1>5, OwedKept DEF LoopInv

\* The workers stay where they are while the accounts change.
LEMMA WorkersWait ==
    ASSUME LoopInv, KeepOwed, DOMAIN job' = DOMAIN job, run' = run
    PROVE  LoopInv'
<1>1. \A v \in Workers :
        \/ run'[v] = Resting
        \/ /\ run[v] # Resting
           /\ run'[v].job = run[v].job /\ run'[v].asOf = run[v].asOf
           /\ \A u \in owed[v] :
                Due(run[v].job.kind, accounts'[u], notified'[u], run[v].asOf)
                  => Ahead(run'[v], u)
  BY DEF LoopInv, OwedSound
<1>2. \A v \in Workers : RunSound(v)'
  BY DEF LoopInv, RunSound
<1>. QED BY <1>1, <1>2, OwedKept DEF LoopInv

LEMMA NothingHappens ==
    ASSUME LoopInv, DOMAIN job' = DOMAIN job,
           UNCHANGED <<accounts, notified, loopVars>>
    PROVE  LoopInv'
  BY DEF LoopInv, loopVars, RunSound, OwedSound
-----------------------------------------------------------------------------
(***************************************************************************)
(* Every action keeps the invariant.                                       *)
(***************************************************************************)
LEMMA AddKeepsInv ==
    ASSUME JobsInv, NEW o \in DOMAIN job, AddJob(o)
    PROVE  JobsInv'
<1>1. JobSound(Added(job[o])) /\ added' \subseteq DOMAIN job
      /\ job' = [job EXCEPT ![o] = Added(job[o])]
  BY AddedSound DEF JobsInv, QueueInv, AddJob
<1>2. QueueInv' /\ DOMAIN job' = DOMAIN job
  BY <1>1, JobStep DEF JobsInv
<1>3. LoopInv'
  BY <1>2, NothingHappens DEF JobsInv, AddJob, accountVars, noteVars
<1>. QED BY <1>2, <1>3 DEF JobsInv, AddJob, accountVars, noteVars, AccountsInv,
                           IInv, TypeOK, StatsNeedProfile, NotesInv

LEMMA DelayKeepsInv ==
    ASSUME JobsInv, NEW o \in DOMAIN job, DelayEnds(o)
    PROVE  JobsInv'
<1>1. JobSound(BackoffOver(job[o])) /\ added' \subseteq DOMAIN job
      /\ job' = [job EXCEPT ![o] = BackoffOver(job[o])]
  BY BackoffOverSound DEF JobsInv, QueueInv, DelayEnds
<1>2. QueueInv' /\ DOMAIN job' = DOMAIN job
  BY <1>1, JobStep DEF JobsInv
<1>3. LoopInv'
  BY <1>2, NothingHappens DEF JobsInv, DelayEnds, accountVars, noteVars
<1>. QED BY <1>2, <1>3 DEF JobsInv, DelayEnds, accountVars, noteVars, AccountsInv,
                           IInv, TypeOK, StatsNeedProfile, NotesInv

LEMMA StallKeepsInv ==
    ASSUME JobsInv, NEW o \in DOMAIN job, StallDetected(o)
    PROVE  JobsInv'
<1>1. JobSound(Stalled(job[o])) /\ added' \subseteq DOMAIN job
      /\ job' = [job EXCEPT ![o] = Stalled(job[o])]
  BY StalledSound DEF JobsInv, QueueInv, StallDetected
<1>2. QueueInv' /\ DOMAIN job' = DOMAIN job
  BY <1>1, JobStep DEF JobsInv
<1>3. LoopInv'
  BY <1>2, NothingHappens DEF JobsInv, StallDetected, accountVars, noteVars
<1>4. failures' \in 0..FailureBound
  BY SchedulesAssumption DEF JobsInv, NotesInv, StallDetected, Fails
<1>. QED BY <1>2, <1>3, <1>4 DEF JobsInv, StallDetected, accountVars, noteVars, AccountsInv,
                                 IInv, TypeOK, StatsNeedProfile, NotesInv

LEMMA ChangeKeepsInv ==
    ASSUME JobsInv, NEW r \in Requests, Change(r)
    PROVE  JobsInv'
<1>1. r \in Request /\ today \in Int
  BY AccountsAssumption DEF JobsInv, AccountsInv, IInv, TypeOK
<1>2. AccountsInv'
  BY <1>1, PerformKeepsAccounts DEF JobsInv, Change
<1>3. LoopInv'
  BY WorkersWait DEF JobsInv, Change
<1>4. changes' \in 0..ChangeBound
  BY SchedulesAssumption DEF JobsInv, NotesInv, Change
<1>. QED BY <1>2, <1>3, <1>4 DEF JobsInv, Change, noteVars, QueueInv, NotesInv

LEMMA DayKeepsInv ==
    ASSUME JobsInv, DayPasses
    PROVE  JobsInv'
<1>1. AccountsInv'
  BY AccountsAssumption
     DEF JobsInv, DayPasses, Tick, AccountsInv, IInv, TypeOK, StatsNeedProfile
<1>2. LoopInv'
  BY WorkersWait DEF JobsInv, DayPasses
<1>. QED BY <1>1, <1>2 DEF JobsInv, DayPasses, noteVars, QueueInv, NotesInv

\* Whoever is due when the worker takes the job is on a page to come.
LEMMA TakeKeepsInv ==
    ASSUME JobsInv, NEW w \in Workers, NEW o \in DOMAIN job, TakeJob(w, o)
    PROVE  JobsInv'
<1> DEFINE q == [pc |-> "page", job |-> o, asOf |-> today,
                 below |-> TopId + 1, batch |-> {}]
           D == {u \in Users : Due(o.kind, accounts[u], notified[u], today)}
<1>1. JobSound(Taken(job[o], w)) /\ added' \subseteq DOMAIN job
      /\ job' = [job EXCEPT ![o] = Taken(job[o], w)]
  BY TakenSound DEF JobsInv, QueueInv, TakeJob
<1>2. QueueInv' /\ DOMAIN job' = DOMAIN job
  BY <1>1, JobStep DEF JobsInv
<1>3. o \in ScheduledJob /\ today \in 0..LastDay
  BY SchedulesAssumption DEF JobsInv, QueueInv, AccountsInv, IInv, TypeOK
<1>4. q \in Run /\ q # Resting /\ q.job = o /\ q.asOf = today /\ q.below = TopId + 1
      /\ q.pc = "page" /\ q.batch = {}
  BY <1>3, TopIdIsTop DEF Run, Resting
<1>5. run \in [Workers -> Run \cup {Resting}] /\ owed \in [Workers -> SUBSET Users]
      /\ run' = [run EXCEPT ![w] = q] /\ owed' = [owed EXCEPT ![w] = D]
      /\ accounts' = accounts /\ notified' = notified
  BY DEF JobsInv, LoopInv, TakeJob, accountVars, noteVars
<1> HIDE DEF q
<1>6. run' \in [Workers -> Run \cup {Resting}] /\ owed' \in [Workers -> SUBSET Users]
  BY <1>4, <1>5
<1>7. ASSUME NEW v \in Workers PROVE RunSound(v)' /\ OwedSound(v)'
  <2>1. CASE v = w
    <3>1. run'[v] = q /\ owed'[v] = D
      BY <1>5, <2>1
    <3>2. RunSound(v)'
      BY <1>2, <1>4, <3>1 DEF RunSound
    <3>3. ASSUME NEW u \in D
          PROVE  Due(run'[v].job.kind, accounts'[u], notified'[u], run'[v].asOf)
                 /\ Ahead(run'[v], u)
      <4>1. IdOf[u] < q.below
        BY <1>4, TopIdIsTop, SchedulesAssumption
      <4>. QED BY <1>4, <1>5, <3>1, <4>1 DEF Ahead
    <3>. QED BY <3>1, <3>2, <3>3 DEF OwedSound
  <2>2. CASE v # w
    <3>1. run'[v] = run[v] /\ owed'[v] = owed[v]
      BY <1>5, <2>2
    <3>. QED BY <1>2, <1>5, <3>1 DEF JobsInv, LoopInv, RunSound, OwedSound
  <2>. QED BY <2>1, <2>2
<1>8. LoopInv'
  BY <1>6, <1>7 DEF LoopInv
<1>. QED BY <1>2, <1>8 DEF JobsInv, TakeJob, accountVars, noteVars, AccountsInv,
                           IInv, TypeOK, StatsNeedProfile, NotesInv

\* What a worker that is on a job holds.
LEMMA RunFacts ==
    ASSUME JobsInv, NEW w \in Workers, run[w] # Resting
    PROVE  /\ run[w] \in Run /\ run[w].job \in DOMAIN job
           /\ run[w].job \in ScheduledJob /\ run[w].job.kind \in Kind
           /\ run[w].asOf \in 0..LastDay /\ run[w].asOf \in Int
           /\ run[w].batch \subseteq Users /\ run[w].below \in Nat
           /\ owed[w] \subseteq Users
           /\ \A u \in owed[w] :
                /\ Due(run[w].job.kind, accounts[u], notified[u], run[w].asOf)
                /\ Ahead(run[w], u)
<1>1. run[w] \in Run
  BY DEF JobsInv, LoopInv
<1>2. LastDay \in Nat
  BY AccountsAssumption
<1>. QED BY <1>1, <1>2 DEF JobsInv, LoopInv, RunSound, OwedSound, Run, ScheduledJob

\* Whoever the job is for is listed.
LEMMA DueIsListed ==
    ASSUME NEW kind \in Kind, NEW a, NEW note, NEW day \in Int, Due(kind, a, note, day)
    PROVE  /\ Listed(kind, a, note, day)
           /\ kind = "BIRTHDAY" => IsBirthday(a.birthday, day)
<1>1. CASE kind = "BIRTHDAY"
  BY <1>1 DEF Due, BonusDue, IsBirthday, Listed
<1>2. CASE kind # "BIRTHDAY"
  BY <1>2 DEF Due
<1>. QED BY <1>1, <1>2

\* Everybody who is due is below the cursor while no page is read, hence listed.
LEMMA OwedAreListed ==
    ASSUME JobsInv, NEW w \in Workers, run[w].pc = "page", NEW u \in owed[w]
    PROVE  /\ u \in Users /\ IdOf[u] < run[w].below
           /\ Listed(run[w].job.kind, accounts[u], notified[u], run[w].asOf)
           /\ run[w].job.kind = "BIRTHDAY" => IsBirthday(accounts[u].birthday, run[w].asOf)
<1>1. run[w] # Resting
  BY DEF Resting
<1>2. run[w].batch = {}
  BY <1>1 DEF JobsInv, LoopInv, RunSound
<1>3. IdOf[u] < run[w].below
  BY <1>1, <1>2, RunFacts DEF Ahead
<1>. QED BY <1>1, <1>3, RunFacts, DueIsListed

\* A page holds whoever is owed, or whoever is owed comes after it.
LEMMA ReadKeepsInv ==
    ASSUME JobsInv, NEW w \in Workers, ReadPage(w)
    PROVE  JobsInv'
<1> DEFINE r == run[w]
           S == {u \in Users : /\ IdOf[u] < r.below
                               /\ Listed(r.job.kind, accounts[u], notified[u], r.asOf)}
<1>1. r.pc = "page" /\ r # Resting /\ KeepOwed
      /\ accounts' = accounts /\ notified' = notified
  <2>1. r.pc = "page"
    BY DEF ReadPage
  <2>2. r # Resting
    BY <2>1 DEF Resting
  <2>3. KeepOwed
    BY ReadPage(w) DEF ReadPage
  <2>4. accounts' = accounts /\ notified' = notified
    BY DEF ReadPage, accountVars, noteVars
  <2>. QED BY <2>1, <2>2, <2>3, <2>4
<1>2. /\ r \in Run /\ r.job \in DOMAIN job /\ r.job.kind \in Kind
      /\ owed[w] \subseteq Users
  BY <1>1, RunFacts
<1>3. AccountsInv' /\ NotesInv' /\ added' \subseteq DOMAIN job
  BY DEF JobsInv, QueueInv, ReadPage, accountVars, noteVars, AccountsInv, IInv, TypeOK,
         StatsNeedProfile, NotesInv
<1>4. CASE S = {}
  <2>1. run' = [run EXCEPT ![w] = Resting]
        /\ job' = [job EXCEPT ![r.job] = Completed(job[r.job], w)]
    BY <1>4 DEF ReadPage, Rests, AttemptEnds
  <2>2. JobSound(Completed(job[r.job], w))
    BY <1>2, CompletedSound DEF JobsInv, QueueInv
  <2>3. QueueInv' /\ DOMAIN job' = DOMAIN job
    BY <1>2, <1>3, <2>1, <2>2, JobStep DEF JobsInv
  <2>4. LoopInv'
    BY <1>1, <2>1, <2>3, WorkerStep DEF JobsInv
  <2>. QED BY <1>3, <2>3, <2>4 DEF JobsInv
<1>5. CASE S # {}
  <2>1. /\ UNCHANGED job
        /\ \E T \in Pages(S) :
             run' = [run EXCEPT ![w] =
                       [r EXCEPT !.pc = IF r.job.kind = "NOTIFY" THEN "mark" ELSE "serve",
                                 !.below = LowestId(T),
                                 !.batch = Candidates(r.job.kind, T, r.asOf)]]
    BY <1>5 DEF ReadPage
  <2>2. PICK T \in Pages(S) :
             run' = [run EXCEPT ![w] =
                       [r EXCEPT !.pc = IF r.job.kind = "NOTIFY" THEN "mark" ELSE "serve",
                                 !.below = LowestId(T),
                                 !.batch = Candidates(r.job.kind, T, r.asOf)]]
    BY <2>1
  <2> DEFINE pc == IF r.job.kind = "NOTIFY" THEN "mark" ELSE "serve"
             n == LowestId(T)
             B == Candidates(r.job.kind, T, r.asOf)
             q == [r EXCEPT !.pc = pc, !.below = n, !.batch = B]
  <2>3. T \subseteq S /\ n \in Nat /\ \A u \in S \ T : IdOf[u] < n
    <3> HIDE DEF S
    <3>1. S \in SUBSET Users
      BY DEF S
    <3>. QED BY <1>5, <3>1, PagesSplit
  <2>4. B \in SUBSET Users /\ pc \in {"mark", "serve"}
        /\ (r.job.kind # "NOTIFY" => pc = "serve")
        /\ (pc = "mark" <=> r.job.kind = "NOTIFY")
    BY <2>3 DEF Candidates
  <2>5. \A u \in owed[w] : u \in S /\ (u \in T => u \in B)
    BY <1>1, OwedAreListed DEF Candidates
  <2>6. run' = [run EXCEPT ![w] = q]
    BY <2>2
  <2> HIDE DEF pc, n, B, S
  <2>7. q \in Run /\ q.job = r.job /\ q.asOf = r.asOf /\ q.pc = pc /\ q.below = n
        /\ q.batch = B
    BY <1>2, <2>3, <2>4 DEF Run
  <2> HIDE DEF q
  <2>8. \A u \in owed[w] : Ahead(q, u)
    BY <2>3, <2>4, <2>5, <2>7 DEF Ahead
  <2>9. LoopInv'
    <3>1. q.pc # "page" /\ (q.pc = "mark" => q.job.kind = "NOTIFY")
      BY <2>4, <2>7
    <3> HIDE DEF r
    <3>2. q \in Run /\ q.job = run[w].job /\ q.asOf = run[w].asOf
      BY <2>7 DEF r
    <3>3. run[w] # Resting /\ KeepOwed /\ LoopInv /\ DOMAIN job' = DOMAIN job
      BY <1>1, <2>1 DEF r, JobsInv
    <3>. QED BY <2>6, <2>8, <3>1, <3>2, <3>3, WorkerStep
  <2>10. QueueInv'
    BY <1>3, <2>1 DEF JobsInv, QueueInv
  <2>. QED BY <1>3, <2>9, <2>10 DEF JobsInv
<1>. QED BY <1>4, <1>5

\* Whoever is marked is due no longer; whoever is owed is still to come.
LEMMA MarkKeepsInv ==
    ASSUME JobsInv, NEW w \in Workers, MarkPage(w)
    PROVE  JobsInv'
<1> DEFINE q == [run[w] EXCEPT !.pc = "serve"]
<1>1. run[w].pc = "mark" /\ run[w] # Resting /\ KeepOwed /\ UNCHANGED job
      /\ run' = [run EXCEPT ![w] = q]
  BY DEF MarkPage, Resting
<1>2. run[w].job.kind = "NOTIFY"
  BY <1>1 DEF JobsInv, LoopInv, RunSound
<1>3. q \in Run /\ q.job = run[w].job /\ q.asOf = run[w].asOf /\ q.pc = "serve"
      /\ q.below = run[w].below /\ q.batch = run[w].batch
  BY <1>1, RunFacts DEF Run
<1> HIDE DEF q
<1>4. ASSUME NEW u \in owed[w],
             Due(run[w].job.kind, accounts'[u], notified'[u], run[w].asOf)
      PROVE  Ahead(q, u)
  <2>1. /\ Ahead(run[w], u) /\ u \in Users
        /\ run[w].asOf \in 0..LastDay /\ run[w].asOf \in Int
    BY <1>1, RunFacts
  <2>2. CASE u \in run[w].batch
    <3>1. notified'[u] = run[w].asOf
      BY <2>1, <2>2 DEF MarkPage
    <3>2. run[w].asOf # NoDay /\ ~(run[w].asOf < run[w].asOf - NotifyDays)
      BY <2>1, SchedulesAssumption, AccountsAssumption DEF NoDay
    <3>. QED BY <1>2, <1>4, <3>1, <3>2 DEF Due, Listed, Notifiable
  <2>3. CASE u \notin run[w].batch
    BY <1>3, <2>1, <2>3 DEF Ahead
  <2>. QED BY <2>2, <2>3
<1>5. LoopInv'
  BY <1>1, <1>3, <1>4, WorkerStep DEF JobsInv
<1>6. NotesInv'
  <2>1. run[w].asOf \in 0..LastDay
    BY <1>1, RunFacts
  <2>. QED BY <2>1 DEF JobsInv, NotesInv, MarkPage
<1>. QED BY <1>1, <1>5, <1>6 DEF JobsInv, QueueInv, MarkPage, accountVars, AccountsInv,
                                 IInv, TypeOK, StatsNeedProfile

\* The user served is due no longer, or was not waited for on this page.
LEMMA ServeKeepsInv ==
    ASSUME JobsInv, NEW w \in Workers, Serve(w)
    PROVE  JobsInv'
<1> DEFINE u == First(run[w].batch)
           B == run[w].batch \ {u}
           q == [run[w] EXCEPT !.batch = B]
           notify == run[w].job.kind = "NOTIFY"
<1>1. run[w].pc = "serve" /\ run[w].batch # {}
  BY DEF Serve
<1>2. KeepOwed
  BY DEF Serve
<1>3. run[w] # Resting
  BY <1>1 DEF Resting
<1>4. u \in run[w].batch /\ u \in Users
  BY <1>1, <1>3, RunFacts, FirstIsThere
<1>5. /\ UNCHANGED <<job, added, notified, changes, failures>>
      /\ run' = [run EXCEPT ![w] = q]
  BY DEF Serve
<1>6. IF notify THEN emitted' = emitted \cup {<<u, run[w].asOf>>} /\ UNCHANGED accountVars
      ELSE ~Throws(w, u) /\ Transact(w, u) /\ UNCHANGED emitted
  BY DEF Serve
<1> HIDE DEF u
<1>7. q \in Run /\ q.job = run[w].job /\ q.asOf = run[w].asOf /\ q.pc = "serve"
      /\ q.below = run[w].below /\ q.batch = B
  <2>1. run[w] \in Run /\ B \subseteq Users
    BY <1>3, RunFacts
  <2> HIDE DEF B
  <2>. QED BY <1>1, <2>1 DEF Run
<1> HIDE DEF q
<1>8. /\ AccountsInv'
      /\ ~notify => \A note : ~Due(run[w].job.kind, accounts'[u], note, run[w].asOf)
  <2>1. CASE notify
    BY <1>6, <2>1 DEF JobsInv, accountVars, AccountsInv, IInv, TypeOK, StatsNeedProfile
  <2>2. CASE ~notify
    <3>1. run[w].job.kind \in Kind \ {"NOTIFY"} /\ run[w].asOf \in Int /\ AccountsInv
      BY <1>3, <2>2, RunFacts DEF JobsInv
    <3>2. ~Throws(w, u) /\ Transact(w, u)
      BY <1>6, <2>2
    <3>. QED BY <1>4, <3>1, <3>2, TransactServes
  <2>. QED BY <2>1, <2>2
<1>9. ASSUME NEW v \in owed[w],
             Due(run[w].job.kind, accounts'[v], notified'[v], run[w].asOf)
      PROVE  Ahead(q, v)
  <2>1. Ahead(run[w], v)
    BY <1>3, RunFacts
  <2>2. CASE v = u
    <3>1. notify
      BY <1>8, <1>9, <2>2
    <3>. QED BY <1>1, <1>7, <2>1, <3>1 DEF Ahead
  <2>3. CASE v # u
    BY <1>1, <1>7, <2>1, <2>3 DEF Ahead
  <2>. QED BY <2>2, <2>3
<1>10. LoopInv'
  BY <1>1, <1>2, <1>3, <1>5, <1>7, <1>9, WorkerStep DEF JobsInv
<1>11. NotesInv'
  <2>1. run[w].asOf \in 0..LastDay
    BY <1>3, RunFacts
  <2>2. emitted' \subseteq Users \X (0..LastDay)
    BY <1>4, <1>6, <2>1 DEF JobsInv, NotesInv
  <2>. QED BY <1>5, <2>2 DEF JobsInv, NotesInv
<1>. QED BY <1>5, <1>8, <1>10, <1>11 DEF JobsInv, QueueInv

LEMMA EndKeepsInv ==
    ASSUME JobsInv, NEW w \in Workers, EndPage(w)
    PROVE  JobsInv'
<1> DEFINE q == [run[w] EXCEPT !.pc = "page"]
<1>1. run[w].pc = "serve" /\ run[w].batch = {} /\ run[w] # Resting /\ KeepOwed
      /\ UNCHANGED job /\ run' = [run EXCEPT ![w] = q]
  BY DEF EndPage, Resting
<1>2. q \in Run /\ q.job = run[w].job /\ q.asOf = run[w].asOf /\ q.pc = "page"
      /\ q.below = run[w].below /\ q.batch = run[w].batch
  BY <1>1, RunFacts DEF Run
<1> HIDE DEF q
<1>3. \A u \in owed[w] : Ahead(q, u)
  BY <1>1, <1>2, RunFacts DEF Ahead
<1>4. LoopInv'
  BY <1>1, <1>2, <1>3, WorkerStep DEF JobsInv
<1>. QED BY <1>4 DEF JobsInv, EndPage, accountVars, noteVars, AccountsInv, IInv, TypeOK,
                     StatsNeedProfile, QueueInv, NotesInv

LEMMA AttemptKeepsInv ==
    ASSUME JobsInv, NEW w \in Workers, AttemptThrows(w)
    PROVE  JobsInv'
<1> DEFINE u == First(run[w].batch)
           o == run[w].job
           serving == /\ run[w].pc = "serve" /\ run[w].batch # {}
                      /\ run[w].job.kind # "NOTIFY"
<1>1. run[w] # Resting
  BY DEF AttemptThrows
<1>2. KeepOwed
  BY DEF AttemptThrows
<1>3. /\ run' = [run EXCEPT ![w] = Resting]
      /\ job' = [job EXCEPT ![o] = AttemptFailed(job[o], w)]
      /\ UNCHANGED <<added, noteVars, changes>>
  BY DEF AttemptThrows, Rests, AttemptEnds
<1>4. \/ serving /\ Throws(w, u) /\ UNCHANGED <<accountVars, failures>>
      \/ Fails /\ UNCHANGED accountVars
      \/ serving /\ ~Throws(w, u) /\ Fails /\ Transact(w, u)
  BY DEF AttemptThrows
<1>5. o \in DOMAIN job
  BY <1>1, RunFacts
<1>6. QueueInv' /\ DOMAIN job' = DOMAIN job
  <2>1. JobSound(AttemptFailed(job[o], w)) /\ added' \subseteq DOMAIN job /\ QueueInv
    BY <1>3, <1>5, AttemptFailedSound DEF JobsInv, QueueInv
  <2> HIDE DEF o
  <2>. QED BY <1>3, <1>5, <2>1, JobStep
<1>7. LoopInv'
  BY <1>1, <1>2, <1>3, <1>6, WorkerStep DEF JobsInv
<1>8. AccountsInv'
  <2>1. CASE UNCHANGED accountVars
    BY <2>1 DEF JobsInv, accountVars, AccountsInv, IInv, TypeOK, StatsNeedProfile
  <2>2. CASE serving /\ Transact(w, u)
    <3>1. u \in Users
      BY <1>1, <2>2, RunFacts, FirstIsThere
    <3>2. run[w].job.kind \in Kind \ {"NOTIFY"} /\ run[w].asOf \in Int /\ AccountsInv
      BY <1>1, <2>2, RunFacts DEF JobsInv
    <3> HIDE DEF u
    <3>. QED BY <2>2, <3>1, <3>2, TransactServes
  <2>. QED BY <1>4, <2>1, <2>2
<1>9. failures' \in 0..FailureBound
  <2>1. failures \in 0..FailureBound /\ FailureBound \in Nat
    BY SchedulesAssumption DEF JobsInv, NotesInv
  <2>2. Fails => failures' \in 0..FailureBound
    BY <2>1 DEF Fails
  <2>. QED BY <1>4, <2>1, <2>2
<1>10. NotesInv'
  BY <1>3, <1>9 DEF JobsInv, NotesInv, noteVars
<1>. QED BY <1>6, <1>7, <1>8, <1>10 DEF JobsInv

LEMMA StopKeepsInv ==
    ASSUME JobsInv, NEW w \in Workers, WorkerStops(w)
    PROVE  JobsInv'
<1>1. run[w] # Resting /\ run' = [run EXCEPT ![w] = Resting] /\ UNCHANGED job
      /\ KeepOwed
  BY DEF WorkerStops, Rests
<1>2. LoopInv'
  BY <1>1, WorkerStep DEF JobsInv
<1>3. failures' \in 0..FailureBound
  BY SchedulesAssumption DEF JobsInv, NotesInv, WorkerStops, Fails
<1>. QED BY <1>2, <1>3 DEF JobsInv, WorkerStops, accountVars, noteVars, AccountsInv, IInv,
                           TypeOK, StatsNeedProfile, QueueInv, NotesInv
-----------------------------------------------------------------------------
LEMMA JobsInitInv == JobsInit => JobsInv
<1> SUFFICES ASSUME JobsInit PROVE JobsInv
  OBVIOUS
<1>1. AccountsInv
  BY InitAccounts DEF JobsInit
<1>2. QueueInv
  <2>1. PICK s \in Schedules : job = [o \in s |-> NoJob]
    BY DEF JobsInit
  <2>2. NoJob \in Job
    BY NoJobSound DEF JobSound
  <2>. QED BY <2>1, <2>2, NoJobSound DEF JobsInit, QueueInv
<1>3. LoopInv
  BY DEF JobsInit, LoopInv, RunSound, OwedSound
<1>4. NotesInv
  BY SchedulesAssumption DEF JobsInit, NotesInv
<1>. QED BY <1>1, <1>2, <1>3, <1>4 DEF JobsInv

LEMMA JobsStep == JobsInv /\ [JobsNext]_jobsVars => JobsInv'
<1> SUFFICES ASSUME JobsInv, [JobsNext]_jobsVars PROVE JobsInv'
  OBVIOUS
<1>1. ASSUME NEW w \in Workers, ReadPage(w) PROVE JobsInv'
  BY <1>1, ReadKeepsInv
<1>2. ASSUME NEW w \in Workers, MarkPage(w) PROVE JobsInv'
  BY <1>2, MarkKeepsInv
<1>3. ASSUME NEW w \in Workers, Serve(w) PROVE JobsInv'
  BY <1>3, ServeKeepsInv
<1>4. ASSUME NEW w \in Workers, EndPage(w) PROVE JobsInv'
  BY <1>4, EndKeepsInv
<1>5. ASSUME NEW w \in Workers, AttemptThrows(w) PROVE JobsInv'
  BY <1>5, AttemptKeepsInv
<1>6. ASSUME NEW w \in Workers, NEW o \in DOMAIN job, TakeJob(w, o) PROVE JobsInv'
  BY <1>6, TakeKeepsInv
<1>7. ASSUME NEW o \in DOMAIN job, DelayEnds(o) PROVE JobsInv'
  BY <1>7, DelayKeepsInv
<1>8. ASSUME NEW o \in DOMAIN job, StallDetected(o) PROVE JobsInv'
  BY <1>8, StallKeepsInv
<1>9. ASSUME NEW w \in Workers, WorkerStops(w) PROVE JobsInv'
  BY <1>9, StopKeepsInv
<1>10. ASSUME NEW o \in DOMAIN job, AddJob(o) PROVE JobsInv'
  BY <1>10, AddKeepsInv
<1>11. ASSUME NEW r \in Requests, Change(r) PROVE JobsInv'
  BY <1>11, ChangeKeepsInv
<1>12. CASE DayPasses
  BY <1>12, DayKeepsInv
<1>13. CASE UNCHANGED jobsVars
  BY <1>13 DEF jobsVars, loopVars, noteVars, accountVars, JobsInv, AccountsInv, IInv, TypeOK,
               StatsNeedProfile, QueueInv, LoopInv, RunSound, OwedSound, NotesInv
<1>. QED BY <1>1, <1>2, <1>3, <1>4, <1>5, <1>6, <1>7, <1>8, <1>9, <1>10, <1>11, <1>12,
            <1>13 DEF JobsNext, Progresses
-----------------------------------------------------------------------------
(***************************************************************************)
(* Nobody is skipped: the one step that completes a job finds no page.     *)
(***************************************************************************)
\* A job that some other one's step changes stays as it is.
LEMMA StaysActive ==
    ASSUME JobsInv, NEW o \in DOMAIN job, NEW p, NEW k, job' = [job EXCEPT ![p] = k],
           p = o => k.state # "none"
    PROVE  job[o].state = "active" => job'[o] # NoJob
  BY NoJobSound DEF JobsInv, QueueInv

LEMMA CompletesWhenNobodyIsOwed ==
    ASSUME JobsInv, JobsNext, NEW w \in Workers, run[w] # Resting,
           OwnsJob(job[run[w].job], w), job'[run[w].job] = NoJob
    PROVE  owed[w] = {}
<1> DEFINE o == run[w].job
<1>1. /\ o \in DOMAIN job /\ job[o].state = "active" /\ job[o].token = w
      /\ \A p \in DOMAIN job : JobSound(job[p])
  BY RunFacts DEF OwnsJob, JobsInv, QueueInv
<1>2. job'[o] = NoJob /\ job'[o] # job[o]
  BY <1>1, NoJobSound
<1> HIDE DEF o
<1>3. ASSUME NEW v \in Workers, ReadPage(v) PROVE owed[w] = {}
  <2> DEFINE r == run[v]
             S == {u \in Users : /\ IdOf[u] < r.below
                                 /\ Listed(r.job.kind, accounts[u], notified[u], r.asOf)}
  <2>1. CASE S # {}
    <3>1. UNCHANGED job
      BY <1>3, <2>1 DEF ReadPage
    <3>. QED BY <1>2, <3>1
  <2>2. CASE S = {}
    <3>1. r.pc = "page"
      BY <1>3 DEF ReadPage
    <3>2. job' = [job EXCEPT ![r.job] = Completed(job[r.job], v)]
      BY <1>3, <2>2 DEF ReadPage, AttemptEnds
    <3>3. CASE v # w
      <4>1. r.job = o => Completed(job[r.job], v) = job[o]
        BY <1>1, <3>3 DEF Completed, OwnsJob
      <4> HIDE DEF r
      <4>2. job'[o] = job[o]
        BY <1>1, <3>2, <4>1
      <4>. QED BY <1>2, <4>2
    <3>4. CASE v = w
      <4>1. ASSUME NEW u \in owed[w] PROVE u \in S
        BY <3>1, <3>4, OwedAreListed
      <4>. QED BY <2>2, <4>1
    <3>. QED BY <3>3, <3>4
  <2>. QED BY <2>1, <2>2
<1>4. ASSUME NEW v \in Workers, AttemptThrows(v) PROVE FALSE
  <2> DEFINE p == run[v].job
             k == AttemptFailed(job[p], v)
  <2>1. job' = [job EXCEPT ![p] = k]
    BY <1>4 DEF AttemptThrows, AttemptEnds
  <2>2. p = o => k.state # "none"
    BY <1>1, AttemptFailedSound
  <2> HIDE DEF p, k
  <2>. QED BY <1>1, <1>2, <2>1, <2>2, StaysActive
<1>5. ASSUME NEW v \in Workers, NEW p \in DOMAIN job, TakeJob(v, p) PROVE FALSE
  <2>1. job' = [job EXCEPT ![p] = Taken(job[p], v)] /\ (p = o => job[o].state = "waiting")
    BY <1>5 DEF TakeJob
  <2>. QED BY <1>1, <1>2, <2>1
<1>6. ASSUME NEW p \in DOMAIN job, DelayEnds(p) PROVE FALSE
  <2>1. job' = [job EXCEPT ![p] = BackoffOver(job[p])] /\ (p = o => job[o].state = "delayed")
    BY <1>6 DEF DelayEnds
  <2>. QED BY <1>1, <1>2, <2>1
<1>7. ASSUME NEW p \in DOMAIN job, StallDetected(p) PROVE FALSE
  <2>1. job' = [job EXCEPT ![p] = Stalled(job[p])]
    BY <1>7 DEF StallDetected
  <2>2. p = o => Stalled(job[p]).state # "none"
    BY <1>1, StalledSound
  <2>. QED BY <1>1, <1>2, <2>1, <2>2, StaysActive
<1>8. ASSUME NEW p \in DOMAIN job, AddJob(p) PROVE FALSE
  <2>1. job' = [job EXCEPT ![p] = Added(job[p])]
    BY <1>8 DEF AddJob
  <2>2. p = o => Added(job[p]) = job[o]
    BY <1>1, AddedSound
  <2>. QED BY <1>1, <1>2, <2>1, <2>2
<1>9. ~UNCHANGED job
  BY <1>2
<1>10. /\ \A v \in Workers : ~MarkPage(v) /\ ~Serve(v) /\ ~EndPage(v) /\ ~WorkerStops(v)
       /\ \A r \in Requests : ~Change(r)
       /\ ~DayPasses
  BY <1>9 DEF MarkPage, Serve, EndPage, WorkerStops, Change, DayPasses
<1>. QED BY <1>3, <1>4, <1>5, <1>6, <1>7, <1>8, <1>10 DEF JobsNext, Progresses
-----------------------------------------------------------------------------
(***************************************************************************)
(* A step of the jobs moves the accounts by one operation, or not at all.  *)
(***************************************************************************)
LEMMA TransactMoves ==
    ASSUME AccountsInv, NEW w, NEW u \in Users, run[w].job.kind \in Kind \ {"NOTIFY"},
           run[w].asOf \in Int, Transact(w, u)
    PROVE  AccountsMove
<1> DEFINE r == RequestFor(w, u)
<1>1. r \in Request
  BY DEF RequestFor, Request, UserRequest, Kind
<1>2. CASE Accepts(accounts[u], r, run[w].asOf)
  <2>1. Perform(r, run[w].asOf)
    BY <1>2 DEF Transact
  <2> HIDE DEF r
  <2>. QED BY <1>1, <2>1, RequestsAreOperations, PerformStep DEF AccountsInv, AccountsMove
<1>3. CASE ~Accepts(accounts[u], r, run[w].asOf)
  BY <1>3 DEF Transact, accountVars, AccountsMove
<1>. QED BY <1>2, <1>3

LEMMA ReadIsQuiet ==
    ASSUME NEW w, ReadPage(w)
    PROVE  UNCHANGED accountVars
<1>1. accounts' = accounts /\ processed' = processed /\ today' = today
  BY DEF ReadPage, accountVars, noteVars
<1>. QED BY <1>1 DEF accountVars

LEMMA JobsMoveAccounts ==
    ASSUME JobsInv, [JobsNext]_jobsVars
    PROVE  AccountsMove
<1>1. ASSUME NEW w \in Workers, run[w] # Resting, run[w].batch # {},
             run[w].job.kind # "NOTIFY", Transact(w, First(run[w].batch))
      PROVE  AccountsMove
  <2>1. First(run[w].batch) \in Users
    BY <1>1, RunFacts, FirstIsThere
  <2>2. run[w].job.kind \in Kind \ {"NOTIFY"} /\ run[w].asOf \in Int /\ AccountsInv
    BY <1>1, RunFacts DEF JobsInv
  <2>. QED BY <1>1, <2>1, <2>2, TransactMoves
<1>2. ASSUME NEW w \in Workers, Serve(w) PROVE AccountsMove
  <2>1. run[w].pc = "serve" /\ run[w].batch # {}
    BY <1>2 DEF Serve
  <2>2. run[w] # Resting
    BY <2>1 DEF Resting
  <2>3. \/ UNCHANGED accountVars
        \/ run[w].job.kind # "NOTIFY" /\ Transact(w, First(run[w].batch))
    BY <1>2 DEF Serve
  <2>. QED BY <1>1, <2>1, <2>2, <2>3 DEF AccountsMove, accountVars
<1>3. ASSUME NEW w \in Workers, AttemptThrows(w) PROVE AccountsMove
  <2>1. run[w] # Resting
    BY <1>3 DEF AttemptThrows
  <2>2. \/ UNCHANGED accountVars
        \/ /\ run[w].batch # {} /\ run[w].job.kind # "NOTIFY"
           /\ Transact(w, First(run[w].batch))
    BY <1>3 DEF AttemptThrows
  <2>. QED BY <1>1, <2>1, <2>2 DEF AccountsMove, accountVars
<1>4. ASSUME NEW r \in Requests, Change(r) PROVE AccountsMove
  <2>1. r \in Request /\ today \in Int /\ IInv /\ Perform(r, today)
    BY <1>4, AccountsAssumption DEF JobsInv, AccountsInv, IInv, TypeOK, Change
  <2>. QED BY <2>1, RequestsAreOperations, PerformStep DEF AccountsMove
<1>5. CASE DayPasses
  BY <1>5 DEF DayPasses, Tick, AccountsMove
<1>6. ASSUME UNCHANGED accountVars PROVE AccountsMove
  BY <1>6 DEF accountVars, AccountsMove
<1>7. ASSUME NEW w \in Workers,
             \/ ReadPage(w) \/ MarkPage(w) \/ EndPage(w) \/ WorkerStops(w)
             \/ \E o \in DOMAIN job : TakeJob(w, o)
      PROVE  UNCHANGED accountVars
  <2>1. CASE ReadPage(w)
    BY <2>1, ReadIsQuiet
  <2>2. CASE ~ReadPage(w)
    BY <1>7, <2>2 DEF MarkPage, EndPage, WorkerStops, TakeJob
  <2>. QED BY <2>1, <2>2
<1>8. ASSUME NEW o \in DOMAIN job, DelayEnds(o) \/ StallDetected(o) \/ AddJob(o)
      PROVE  UNCHANGED accountVars
  BY <1>8 DEF DelayEnds, StallDetected, AddJob
<1>9. CASE UNCHANGED jobsVars
  BY <1>6, <1>9 DEF jobsVars
<1>. QED BY <1>2, <1>3, <1>4, <1>5, <1>6, <1>7, <1>8, <1>9 DEF JobsNext, Progresses
-----------------------------------------------------------------------------
(***************************************************************************)
(* The theorems.                                                           *)
(***************************************************************************)
\* Whatever crashes, stalls, failing statements and requests there are, every
\* reachable state of the jobs satisfies the inductive invariant.
THEOREM JobsInvariance == JobsSpec => []JobsInv
<1>1. JobsInit => JobsInv
  BY JobsInitInv
<1>2. JobsInv /\ [JobsNext]_jobsVars => JobsInv'
  BY JobsStep
<1>. QED BY <1>1, <1>2, PTL DEF JobsSpec

\* Type correctness of the accounts, the queue, the workers' memory, the marks
\* and the notifications.
THEOREM JobsTypeCorrectness == JobsSpec => []JobsTypeOK
<1>1. JobsInv => JobsTypeOK
  BY DEF JobsInv, AccountsInv, IInv, QueueInv, LoopInv, NotesInv, JobsTypeOK
<1>. QED BY <1>1, JobsInvariance, PTL

\* forEachBatch and its cursor skip nobody: when the job of a schedule is
\* completed, everybody who was due when its last attempt began and stayed due
\* has been served, whatever the platform did between the pages.
THEOREM NobodyIsEverSkipped == JobsSpec => NobodyIsSkipped
<1> DEFINE Skipped == ~\A w \in Workers :
                         run[w] # Resting /\ OwnsJob(job[run[w].job], w)
                           /\ job'[run[w].job] = NoJob => owed[w] = {}
<1>1. JobsInv /\ [JobsNext]_jobsVars => [~Skipped]_jobsVars
  BY CompletesWhenNobodyIsOwed
<1>. QED BY <1>1, JobsInvariance, PTL DEF JobsSpec, NobodyIsSkipped

\* The jobs, their retries and what runs meanwhile keep the books: ledger and
\* balance agree, nothing is overdrawn, refunds, tier events and birthday
\* bonuses are what the accounts promise, commands match their keys, and nothing
\* that is recorded is rewritten.
THEOREM JobsKeepTheBooks ==
    JobsSpec => /\ [](LedgerExplainsBalance /\ NeverOverdrawn)
                /\ [](RefundsCompensateOnce /\ OneBonusPerYear)
                /\ [](TierEventsTellTheTier /\ KeysMatchLedger)
                /\ HistoryIsPermanent
<1>1. JobsInv => /\ LedgerExplainsBalance /\ NeverOverdrawn /\ RefundsCompensateOnce
                 /\ TierEventsTellTheTier /\ OneBonusPerYear
  BY DEF JobsInv, AccountsInv, IInv, AccountInv, Books, LedgerExplainsBalance,
         NeverOverdrawn, RefundsCompensateOnce, TierEventsTellTheTier, OneBonusPerYear
<1>2. JobsInit => KeysInv
  BY KeysInvInit DEF JobsInit
<1>3. JobsInv /\ JobsInv' /\ KeysInv /\ [JobsNext]_jobsVars => KeysInv'
  BY JobsMoveAccounts, MoveKeepsKeys DEF JobsInv, AccountsInv
<1>4. KeysInv => KeysMatchLedger
  BY DEF KeysInv
<1>5. JobsInv /\ [JobsNext]_jobsVars => [HistoryKept]_accountVars
  BY JobsMoveAccounts, MoveKeepsHistory DEF JobsInv, AccountsInv
<1>. QED BY <1>1, <1>2, <1>3, <1>4, <1>5, JobsInvariance, PTL
         DEF JobsSpec, HistoryIsPermanent, HistoryKept
=============================================================================
