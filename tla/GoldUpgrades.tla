----------------------------- MODULE GoldUpgrades -----------------------------
(***************************************************************************)
(* The GOLD seat upgrade: one active reservation a month and user, owned   *)
(* by an order, and its mirror loyalty_profiles.gold_upgrade_used_month.   *)
(* useGoldUpgrade, rollbackGoldUpgrade and the monthly gold-reset job run  *)
(* in transactions that hold the lock on the user's profile row.           *)
(*                                                                         *)
(* The unique indexes of gold_upgrade_reservations are left out: the       *)
(* properties show that the locking alone keeps what they would enforce.   *)
(***************************************************************************)
EXTENDS Integers, FiniteSets

CONSTANTS
    Users, Orders,
    NoOrder,        \* the NULL order of a hold copied by the migration
    LegacyHolders,  \* users whose month 0 was in use before the migration
    Workers,        \* transactions in flight in any replica
    LastMonth       \* bound: the clock stops at this month

ASSUME GoldAssumption ==
    /\ NoOrder \notin Orders
    /\ LegacyHolders \subseteq Users
    /\ LastMonth \in Nat

VARIABLES
    gold,          \* the users of tier GOLD
    reservations,  \* gold_upgrade_reservations
    usedMonth,     \* gold_upgrade_used_month of every user, NoMonth for NULL
    month,         \* the UTC month
    candidates,    \* the users the reset job has read and not yet visited
    txn            \* the transaction of every worker

goldVars == <<gold, reservations, usedMonth, month, candidates, txn>>
tables   == <<gold, reservations, usedMonth>>

NoMonth == -1
Month   == 0..LastMonth
Reservation == [user: Users, order: Orders \cup {NoOrder}, month: Month,
                released: BOOLEAN]

Idle == [pc |-> "idle"]
Txn  == [pc: {"waiting", "locked", "writing"}, op: {"USE", "ROLLBACK", "RESET"},
         user: Users, order: Orders \cup {NoOrder}, month: Month]

Owned(u, o) == {x \in reservations : x.user = u /\ x.order = o}
Active(u, m) ==
    {x \in reservations : x.user = u /\ x.month = m /\ ~x.released}

HoldsProfile(w, u) == txn[w].pc \in {"locked", "writing"} /\ txn[w].user = u
-----------------------------------------------------------------------------
\* What the migration leaves: every month in use becomes a hold without owner.
Init ==
    /\ gold \in SUBSET Users
    /\ reservations = {[user |-> u, order |-> NoOrder, month |-> 0,
                        released |-> FALSE] : u \in LegacyHolders}
    /\ usedMonth = [u \in Users |-> IF u \in LegacyHolders THEN 0 ELSE NoMonth]
    /\ month = 0
    /\ candidates = {}
    /\ txn = [w \in Workers |-> Idle]

Start(w, op, u, o) ==
    /\ txn[w] = Idle
    /\ txn' = [txn EXCEPT ![w] = [pc |-> "waiting", op |-> op, user |-> u,
                                  order |-> o, month |-> 0]]
    /\ UNCHANGED <<tables, month>>

\* Checkout asks for the upgrade, or gives it back; it may ask again.
Request(w, u, o) ==
    /\ Start(w, "USE", u, o) \/ Start(w, "ROLLBACK", u, o)
    /\ UNCHANGED candidates

\* goldReset reads a batch of users whose mirror is of an older month, and
\* then visits them one transaction at a time.
ScanReset ==
    /\ candidates = {}
    /\ candidates' = {u \in Users : usedMonth[u] # NoMonth /\ usedMonth[u] < month}
    /\ UNCHANGED <<tables, month, txn>>
VisitCandidate(w, u) ==
    /\ u \in candidates
    /\ candidates' = candidates \ {u}
    /\ Start(w, "RESET", u, NoOrder)

\* A mutant: the lock is taken without waiting for its holder.
LockAtOnce(w) ==
    /\ txn[w].pc = "waiting"
    /\ txn' = [txn EXCEPT ![w].pc = "locked"]
    /\ UNCHANGED <<tables, month, candidates>>

Lock(w) ==
    /\ txn[w].pc = "waiting"
    /\ \A v \in Workers \ {w} : ~HoldsProfile(v, txn[w].user)
    /\ txn' = [txn EXCEPT ![w].pc = "locked"]
    /\ UNCHANGED <<tables, month, candidates>>

\* A mutant: the month key is one too high.
WriteForNext(w, m) == txn' = [txn EXCEPT ![w].pc = "writing", ![w].month = m + 1]

\* The transaction goes on to write for month m, or ends without an effect.
WriteFor(w, m) == txn' = [txn EXCEPT ![w].pc = "writing", ![w].month = m]
Finish(w)      == txn' = [txn EXCEPT ![w] = Idle]

MonthFree(u) == Active(u, month) = {} /\ usedMonth[u] # month

\* useGoldUpgrade, under the lock: a known order is answered from its
\* reservation; a new one needs GOLD and a month that is free.
CanReserve(u, o) == Owned(u, o) = {} /\ u \in gold /\ MonthFree(u)

CheckUse(w) ==
    /\ txn[w].pc = "locked" /\ txn[w].op = "USE"
    /\ IF CanReserve(txn[w].user, txn[w].order)
       THEN WriteFor(w, month) ELSE Finish(w)
    /\ UNCHANGED <<tables, month, candidates>>

\* A mutant: a repeated rollback is carried out again.
ToReleaseAgain(u, o) == Owned(u, o)

\* rollbackGoldUpgrade: only this order's reservation, only once.
ToRelease(u, o) == {x \in Owned(u, o) : ~x.released}

CheckRollback(w) ==
    LET mine == ToRelease(txn[w].user, txn[w].order) IN
    /\ txn[w].pc = "locked" /\ txn[w].op = "ROLLBACK"
    /\ \/ mine = {} /\ Finish(w)
       \/ \E x \in mine : WriteFor(w, x.month)
    /\ UNCHANGED <<tables, month, candidates>>

\* The reset reads the month again before its conditional update.
CheckReset(w) ==
    /\ txn[w].pc = "locked" /\ txn[w].op = "RESET"
    /\ WriteFor(w, month)
    /\ UNCHANGED <<tables, month, candidates>>

CommitUse(w) ==
    LET t == txn[w] IN
    /\ t.pc = "writing" /\ t.op = "USE"
    /\ reservations' = reservations \cup
         {[user |-> t.user, order |-> t.order, month |-> t.month,
           released |-> FALSE]}
    /\ usedMonth' = [usedMonth EXCEPT ![t.user] = t.month]
    /\ Finish(w)
    /\ UNCHANGED <<gold, month, candidates>>

\* A mutant: every reservation of the user is released.
AllReleased(x, u, o) == IF x.user = u THEN [x EXCEPT !.released = TRUE] ELSE x

\* Only the reservation of the order is released.
AfterRelease(x, u, o) ==
    IF x.user = u /\ x.order = o THEN [x EXCEPT !.released = TRUE] ELSE x

\* The mirror is cleared only for the month the order owned.
MirrorAfterRelease(u, m) == IF usedMonth[u] = m THEN NoMonth ELSE usedMonth[u]

CommitRollback(w) ==
    LET t == txn[w] IN
    /\ t.pc = "writing" /\ t.op = "ROLLBACK"
    /\ reservations' = {AfterRelease(x, t.user, t.order) : x \in reservations}
    /\ usedMonth' = [usedMonth EXCEPT ![t.user] = MirrorAfterRelease(t.user, t.month)]
    /\ Finish(w)
    /\ UNCHANGED <<gold, month, candidates>>

CommitReset(w) ==
    LET t == txn[w] IN
    /\ t.pc = "writing" /\ t.op = "RESET"
    /\ usedMonth' = [usedMonth EXCEPT ![t.user] =
                       IF @ # NoMonth /\ @ < t.month THEN NoMonth ELSE @]
    /\ Finish(w)
    /\ UNCHANGED <<gold, reservations, month, candidates>>

\* An error, a conflict or a crash: the transaction rolls back; the caller may
\* try again, and so may withTransactionRetry.
Abort(w) ==
    /\ txn[w] # Idle
    /\ \/ Finish(w)
       \/ txn' = [txn EXCEPT ![w].pc = "waiting"]
    /\ UNCHANGED <<tables, month, candidates>>

\* A purchase, a bonus or the administrator makes the user GOLD, under the
\* lock.  Nothing takes the tier away.
BecomeGold(u) ==
    /\ \A w \in Workers : ~HoldsProfile(w, u)
    /\ gold' = gold \cup {u}
    /\ UNCHANGED <<reservations, usedMonth, month, candidates, txn>>

NextMonth ==
    /\ month < LastMonth
    /\ month' = month + 1
    /\ UNCHANGED <<tables, candidates, txn>>

Next ==
    \/ \E w \in Workers :
         \/ \E u \in Users : VisitCandidate(w, u) \/ \E o \in Orders : Request(w, u, o)
         \/ Lock(w)
         \/ CheckUse(w) \/ CheckRollback(w) \/ CheckReset(w)
         \/ CommitUse(w) \/ CommitRollback(w) \/ CommitReset(w)
         \/ Abort(w)
    \/ ScanReset
    \/ \E u \in Users : BecomeGold(u)
    \/ NextMonth

GoldSpec == Init /\ [][Next]_goldVars
-----------------------------------------------------------------------------
(***************************************************************************)
(* Properties.                                                             *)
(***************************************************************************)
\* Every variable has the shape of its table.
GoldTypeOK ==
    /\ gold \subseteq Users
    /\ reservations \subseteq Reservation
    /\ usedMonth \in [Users -> Month \cup {NoMonth}]
    /\ month \in Month
    /\ candidates \subseteq Users
    /\ txn \in [Workers -> Txn \cup {Idle}]

\* A user has at most one active reservation a month, and an order at most one
\* reservation ever, whatever requests race and whenever the month ends: the
\* unique indexes of the table are never what stops a second one.
OneUpgradePerMonth ==
    \A x, y \in reservations :
        /\ x.user = y.user
        /\ \/ x.month = y.month /\ ~x.released /\ ~y.released
           \/ x.order = y.order
        => x = y

\* The mirror the profile answers with tells the truth: a month in it is held
\* by an active reservation of that month, and an active reservation of the
\* current month is in it.  So a late rollback, a repeated one or the reset
\* job never frees, and never hides, somebody's current upgrade.
MirrorTellsTheQuota ==
    \A u \in Users :
        /\ usedMonth[u] # NoMonth => Active(u, usedMonth[u]) # {}
        /\ Active(u, month) # {} => usedMonth[u] = month

\* What a step may do with a reservation.
StaysBound(x) ==
    \/ x \in reservations'
    \/ /\ ~x.released
       /\ [x EXCEPT !.released = TRUE] \in reservations'
       /\ \E w \in Workers :
            /\ txn[w].pc = "writing" /\ txn[w].op = "ROLLBACK"
            /\ txn[w].user = x.user /\ txn[w].order = x.order
            /\ txn'[w] = Idle

\* An order stays bound to its first month for good ("binds an order
\* permanently to its original month", README): a reservation never goes away
\* or changes but to be released, by a rollback of its own order, and then
\* stays released; a hold without an owner stays as it is.
ReservationsAreBound == [][\A x \in reservations : StaysBound(x)]_goldVars
=============================================================================
