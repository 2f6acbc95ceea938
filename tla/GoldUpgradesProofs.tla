-------------------------- MODULE GoldUpgradesProofs --------------------------
(***************************************************************************)
(* Proofs about GoldUpgrades, for every set of users, orders and workers   *)
(* and every number of months.                                             *)
(***************************************************************************)
EXTENDS GoldUpgrades, TLAPS

\* A transaction record that has the lock on its user's profile.
Inside(t) == t.pc \in {"locked", "writing"}

\* What a transaction that is about to write has made sure of under the lock:
\* the month it writes for is not in the future; a use knows no reservation of
\* its order, none of a later month and no active one of its own; a rollback
\* has a reservation to release.
Sound(t) ==
    t.pc = "writing" =>
        /\ t.month <= month
        /\ t.op = "USE" =>
             \A x \in reservations : x.user = t.user =>
                /\ x.order # t.order
                /\ x.month <= t.month
                /\ x.month = t.month => x.released
        /\ t.op = "ROLLBACK" =>
             \E x \in reservations :
                /\ x.user = t.user /\ x.order = t.order
                /\ ~x.released /\ x.month = t.month

\* One transaction at a time has the lock on a profile.
Exclusive ==
    \A v, w \in Workers :
        Inside(txn[v]) /\ Inside(txn[w]) /\ txn[v].user = txn[w].user => v = w

\* No reservation is of a month to come.
PastMonths == \A x \in reservations : x.month <= month

\* The inductive invariant.
GoldInv ==
    /\ GoldTypeOK /\ Exclusive /\ PastMonths
    /\ OneUpgradePerMonth /\ MirrorTellsTheQuota
    /\ \A w \in Workers : Sound(txn[w])
-----------------------------------------------------------------------------
\* A transaction that is not idle is a full record.
LEMMA TxnRecord ==
    ASSUME GoldTypeOK, NEW w \in Workers, txn[w].pc # "idle"
    PROVE  txn[w] \in Txn
  BY DEF GoldTypeOK, Idle

\* Moving a transaction to another stage keeps the rest of its record.
LEMMA StageColumns ==
    ASSUME NEW t \in Txn, NEW pc \in {"waiting", "locked", "writing"}
    PROVE  LET n == [t EXCEPT !.pc = pc] IN
           /\ n \in Txn /\ n.pc = pc /\ n.op = t.op /\ n.user = t.user
           /\ n.order = t.order /\ n.month = t.month
  BY DEF Txn

LEMMA IdleColumns == Idle.pc = "idle" /\ ~Inside(Idle) /\ Sound(Idle)
  BY DEF Idle, Inside, Sound

\* The month is a natural number.
LEMMA MonthsAreNumbers == GoldTypeOK => month \in Nat /\ Month \subseteq Nat
  BY GoldAssumption DEF GoldTypeOK, Month

-----------------------------------------------------------------------------
\* A step of one transaction that leaves the tables alone keeps the invariant,
\* if it takes the lock only when nobody has it and is sound when it goes on
\* to write.
LEMMA WorkerStep ==
    ASSUME GoldInv, NEW w \in Workers, NEW t \in Txn \cup {Idle},
           txn' = [txn EXCEPT ![w] = t], UNCHANGED <<tables, month>>,
           candidates' \subseteq Users,
           Inside(t) => \/ Inside(txn[w]) /\ txn[w].user = t.user
                        \/ \A v \in Workers \ {w} : ~HoldsProfile(v, t.user),
           Sound(t)
    PROVE  GoldInv'
<1>1. GoldTypeOK /\ Exclusive /\ \A v \in Workers : Sound(txn[v])
  BY DEF GoldInv
<1>2. /\ gold' = gold /\ reservations' = reservations
      /\ usedMonth' = usedMonth /\ month' = month
  BY DEF tables
<1>3. \A v \in Workers : txn'[v] = IF v = w THEN t ELSE txn[v]
  BY <1>1 DEF GoldTypeOK
<1>4. GoldTypeOK'
  BY <1>1, <1>2 DEF GoldTypeOK, Month
<1>5. Exclusive'
  <2>1. \A v \in Workers \ {w} :
           Inside(txn[v]) /\ Inside(t) => txn[v].user # t.user
    BY <1>1 DEF Exclusive, HoldsProfile, Inside
  <2>. QED BY <1>1, <1>3, <2>1 DEF Exclusive, Inside
<1>6. PastMonths' /\ OneUpgradePerMonth' /\ MirrorTellsTheQuota'
  BY <1>2 DEF GoldInv, PastMonths, OneUpgradePerMonth, MirrorTellsTheQuota, Active
<1>7. \A v \in Workers : Sound(txn[v])'
  BY <1>1, <1>2, <1>3 DEF Sound
<1>. QED BY <1>4, <1>5, <1>6, <1>7 DEF GoldInv

\* A commit under the lock of a user's profile changes rows of that user only,
\* so the other transactions stay sound.
LEMMA HolderCommits ==
    ASSUME GoldInv, NEW w \in Workers, txn[w].pc = "writing", Finish(w),
           UNCHANGED <<gold, month, candidates>>,
           reservations' \subseteq Reservation,
           \A x \in reservations' : x.user # txn[w].user => x \in reservations,
           \A x \in reservations : x.user # txn[w].user => x \in reservations',
           usedMonth' \in [Users -> Month \cup {NoMonth}]
    PROVE  GoldTypeOK' /\ Exclusive' /\ \A v \in Workers : Sound(txn[v])'
<1>1. GoldTypeOK /\ Exclusive /\ \A v \in Workers : Sound(txn[v])
  BY DEF GoldInv
<1>2. \A v \in Workers : txn'[v] = IF v = w THEN Idle ELSE txn[v]
  BY <1>1 DEF GoldTypeOK, Finish
<1>3. GoldTypeOK'
  BY <1>1, <1>2 DEF GoldTypeOK, Finish, Month
<1>4. Exclusive'
  BY <1>1, <1>2, IdleColumns DEF Exclusive, Inside
<1>5. ASSUME NEW v \in Workers
      PROVE  Sound(txn[v])'
  <2>1. CASE v = w
    BY <1>2, <2>1 DEF Sound, Idle
  <2>2. CASE v # w /\ txn[v].pc = "writing"
    <3>1. txn[v].user # txn[w].user
      BY <1>1, <2>2 DEF Exclusive, Inside
    <3>2. txn'[v] = txn[v] /\ month' = month
      BY <1>2, <2>2
    <3>3. Sound(txn[v])
      BY <1>1
    <3>. QED BY <3>1, <3>2, <3>3 DEF Sound
  <2>3. CASE v # w /\ txn[v].pc # "writing"
    BY <1>2, <2>3 DEF Sound
  <2>. QED BY <2>1, <2>2, <2>3
<1>. QED BY <1>3, <1>4, <1>5
-----------------------------------------------------------------------------
(***************************************************************************)
(* Every action keeps the invariant.                                       *)
(***************************************************************************)
LEMMA GoldInitInv == Init => GoldInv
<1> SUFFICES ASSUME Init PROVE GoldInv
  OBVIOUS
<1> DEFINE hold(u) == [user |-> u, order |-> NoOrder, month |-> 0,
                       released |-> FALSE]
<1>1. 0 \in Month /\ month = 0
  BY GoldAssumption DEF Init, Month
<1>2. reservations = {hold(u) : u \in LegacyHolders}
  BY DEF Init
<1>3. ASSUME NEW u \in LegacyHolders
      PROVE  /\ hold(u) \in Reservation
             /\ hold(u).user = u /\ hold(u).month = 0 /\ ~hold(u).released
  BY <1>1, GoldAssumption DEF Reservation
<1> HIDE DEF hold
<1>4. \A x \in reservations : \E u \in LegacyHolders : x = hold(u)
  BY <1>2
<1>5. GoldTypeOK
  <2>1. reservations \subseteq Reservation
    BY <1>3, <1>4
  <2>. QED BY <1>1, <2>1 DEF Init, GoldTypeOK
<1>6. Exclusive /\ \A w \in Workers : Sound(txn[w])
  BY IdleColumns DEF Init, Exclusive, Sound, Idle
<1>7. PastMonths
  BY <1>1, <1>3, <1>4 DEF PastMonths
<1>8. OneUpgradePerMonth
  BY <1>3, <1>4 DEF OneUpgradePerMonth
<1>9. ASSUME NEW u \in Users
      PROVE  /\ usedMonth[u] # NoMonth => Active(u, usedMonth[u]) # {}
             /\ Active(u, month) # {} => usedMonth[u] = month
  <2>1. CASE u \in LegacyHolders
    <3>1. usedMonth[u] = 0
      BY <2>1 DEF Init
    <3>2. hold(u) \in Active(u, 0)
      BY <1>2, <1>3, <2>1 DEF Active
    <3>. QED BY <1>1, <3>1, <3>2
  <2>2. CASE u \notin LegacyHolders
    <3>1. usedMonth[u] = NoMonth
      BY <2>2 DEF Init
    <3>2. Active(u, month) = {}
      BY <1>3, <1>4, <2>2 DEF Active
    <3>. QED BY <3>1, <3>2
  <2>. QED BY <2>1, <2>2
<1>. QED BY <1>5, <1>6, <1>7, <1>8, <1>9 DEF GoldInv, MirrorTellsTheQuota

LEMMA StartInv ==
    ASSUME GoldInv, NEW w \in Workers, NEW op \in {"USE", "ROLLBACK", "RESET"},
           NEW u \in Users, NEW o \in Orders \cup {NoOrder}, Start(w, op, u, o),
           candidates' \subseteq Users
    PROVE  GoldInv'
<1> DEFINE t == [pc |-> "waiting", op |-> op, user |-> u, order |-> o, month |-> 0]
<1>1. t \in Txn /\ ~Inside(t) /\ Sound(t)
  BY GoldAssumption DEF Txn, Month, Inside, Sound
<1>2. txn' = [txn EXCEPT ![w] = t] /\ UNCHANGED <<tables, month>>
  BY DEF Start
<1> HIDE DEF t
<1>. QED BY <1>1, <1>2, WorkerStep

LEMMA FinishInv ==
    ASSUME GoldInv, NEW w \in Workers, Finish(w),
           UNCHANGED <<tables, month, candidates>>
    PROVE  GoldInv'
<1>1. candidates' \subseteq Users
  BY DEF GoldInv, GoldTypeOK
<1>. QED BY <1>1, IdleColumns, WorkerStep DEF Finish

LEMMA LockInv ==
    ASSUME GoldInv, NEW w \in Workers, Lock(w)
    PROVE  GoldInv'
<1> DEFINE t == [txn[w] EXCEPT !.pc = "locked"]
<1>1. GoldTypeOK /\ candidates' \subseteq Users
  BY DEF GoldInv, GoldTypeOK, Lock
<1>2. txn[w] \in Txn
  BY <1>1, TxnRecord DEF Lock
<1>3. t \in Txn /\ t.pc = "locked" /\ t.user = txn[w].user
  BY <1>2, StageColumns
<1>4. txn' = [txn EXCEPT ![w] = t] /\ UNCHANGED <<tables, month>>
  BY DEF Lock
<1>5. \A v \in Workers \ {w} : ~HoldsProfile(v, t.user)
  BY <1>3 DEF Lock
<1>6. Sound(t)
  BY <1>3 DEF Sound
<1> HIDE DEF t
<1>. QED BY <1>1, <1>3, <1>4, <1>5, <1>6, WorkerStep

\* Going on to write keeps the invariant when the month is sound to write for.
LEMMA WriteForInv ==
    ASSUME GoldInv, NEW w \in Workers, NEW m \in Month, txn[w].pc = "locked",
           WriteFor(w, m), UNCHANGED <<tables, month, candidates>>,
           m <= month,
           txn[w].op = "USE" =>
             \A x \in reservations : x.user = txn[w].user =>
                /\ x.order # txn[w].order
                /\ x.month <= m
                /\ x.month = m => x.released,
           txn[w].op = "ROLLBACK" =>
             \E x \in reservations :
                /\ x.user = txn[w].user /\ x.order = txn[w].order
                /\ ~x.released /\ x.month = m
    PROVE  GoldInv'
<1> DEFINE t == [txn[w] EXCEPT !.pc = "writing", !.month = m]
<1>1. GoldTypeOK /\ candidates' \subseteq Users
  BY DEF GoldInv, GoldTypeOK
<1>2. txn[w] \in Txn
  BY <1>1, TxnRecord
<1>3. /\ t \in Txn /\ t.pc = "writing" /\ t.op = txn[w].op
      /\ t.user = txn[w].user /\ t.order = txn[w].order /\ t.month = m
  BY <1>2 DEF Txn
<1>4. txn' = [txn EXCEPT ![w] = t] /\ UNCHANGED <<tables, month>>
  BY DEF WriteFor
<1> HIDE DEF t
<1>5. Sound(t)
  BY <1>3 DEF Sound
<1>6. Inside(txn[w]) /\ txn[w].user = t.user
  BY <1>3 DEF Inside
<1>. QED BY <1>1, <1>3, <1>4, <1>5, <1>6, WorkerStep

LEMMA CheckUseInv ==
    ASSUME GoldInv, NEW w \in Workers, CheckUse(w)
    PROVE  GoldInv'
<1> USE DEF CheckUse
<1>1. CASE ~CanReserve(txn[w].user, txn[w].order)
  BY <1>1, FinishInv
<1>2. CASE CanReserve(txn[w].user, txn[w].order)
  <2>1. month \in Month /\ month \in Nat /\ PastMonths
    BY MonthsAreNumbers DEF GoldInv, GoldTypeOK
  <2>2. ASSUME NEW x \in reservations, x.user = txn[w].user
        PROVE  /\ x.order # txn[w].order
               /\ x.month <= month
               /\ x.month = month => x.released
    BY <1>2, <2>1, <2>2 DEF CanReserve, Owned, MonthFree, Active, PastMonths
  <2>. QED BY <1>2, <2>1, <2>2, WriteForInv
<1>. QED BY <1>1, <1>2

LEMMA CheckRollbackInv ==
    ASSUME GoldInv, NEW w \in Workers, CheckRollback(w)
    PROVE  GoldInv'
<1> DEFINE mine == ToRelease(txn[w].user, txn[w].order)
<1>1. CASE Finish(w)
  BY <1>1, FinishInv DEF CheckRollback
<1>2. ASSUME NEW x \in mine, WriteFor(w, x.month)
      PROVE  GoldInv'
  <2>1. /\ x \in reservations /\ x.user = txn[w].user /\ x.order = txn[w].order
        /\ ~x.released
    BY <1>2 DEF ToRelease, Owned
  <2>2. x.month \in Month /\ x.month <= month
    BY <2>1 DEF GoldInv, GoldTypeOK, Reservation, PastMonths
  <2>. QED BY <1>2, <2>1, <2>2, WriteForInv DEF CheckRollback
<1>. QED BY <1>1, <1>2 DEF CheckRollback

LEMMA CheckResetInv ==
    ASSUME GoldInv, NEW w \in Workers, CheckReset(w)
    PROVE  GoldInv'
<1>1. month \in Month /\ month <= month
  BY MonthsAreNumbers DEF GoldInv, GoldTypeOK
<1>. QED BY <1>1, WriteForInv DEF CheckReset

\* A use adds a reservation of an order that had none, for a month that had no
\* active one.
LEMMA CommitUseInv ==
    ASSUME GoldInv, NEW w \in Workers, CommitUse(w)
    PROVE  GoldInv'
<1> DEFINE t == txn[w]
           n == [user |-> t.user, order |-> t.order, month |-> t.month,
                 released |-> FALSE]
<1>1. /\ GoldTypeOK /\ PastMonths /\ OneUpgradePerMonth /\ MirrorTellsTheQuota
      /\ Sound(t) /\ t \in Txn
      /\ month \in Nat /\ Month \subseteq Nat
  BY TxnRecord, MonthsAreNumbers DEF GoldInv, CommitUse
<1>2. /\ t.user \in Users /\ t.order \in Orders \cup {NoOrder}
      /\ t.month \in Month /\ t.month \in Nat /\ t.month # NoMonth
  <2> HIDE DEF t
  <2>1. t.user \in Users /\ t.order \in Orders \cup {NoOrder} /\ t.month \in Month
    BY <1>1 DEF Txn
  <2>2. t.month \in Nat
    BY <1>1, <2>1
  <2>. QED BY <2>1, <2>2 DEF NoMonth
<1>3. /\ n \in Reservation /\ n.user = t.user /\ n.order = t.order
      /\ n.month = t.month /\ ~n.released
  BY <1>2 DEF Reservation
<1>4. /\ t.month <= month
      /\ \A x \in reservations : x.user = t.user =>
            x.order # t.order /\ x.month <= t.month /\ (x.month = t.month => x.released)
  BY <1>1 DEF Sound, CommitUse
<1>5. /\ reservations' = reservations \cup {n}
      /\ usedMonth' = [usedMonth EXCEPT ![t.user] = t.month]
      /\ month' = month /\ gold' = gold /\ candidates' = candidates /\ Finish(w)
      /\ txn[w].pc = "writing"
  BY DEF CommitUse
<1> HIDE DEF n
<1>6. \A u \in Users : usedMonth'[u] = IF u = t.user THEN t.month ELSE usedMonth[u]
  BY <1>1, <1>5 DEF GoldTypeOK
<1>7. /\ reservations' \subseteq Reservation
      /\ \A x \in reservations' : x.user # t.user => x \in reservations
      /\ \A x \in reservations : x.user # t.user => x \in reservations'
      /\ usedMonth' \in [Users -> Month \cup {NoMonth}]
  BY <1>1, <1>2, <1>3, <1>5 DEF GoldTypeOK
<1>8. GoldTypeOK' /\ Exclusive' /\ \A v \in Workers : Sound(txn[v])'
  BY <1>5, <1>7, HolderCommits
<1>9. PastMonths'
  BY <1>1, <1>3, <1>4, <1>5 DEF PastMonths
<1>10. OneUpgradePerMonth'
  BY <1>1, <1>3, <1>4, <1>5 DEF OneUpgradePerMonth
<1>11. ASSUME NEW u \in Users
       PROVE  /\ usedMonth'[u] # NoMonth => Active(u, usedMonth[u])' # {}
              /\ Active(u, month)' # {} => usedMonth'[u] = month'
  <2>1. CASE u = t.user
    <3>1. usedMonth'[u] = t.month
      BY <1>6, <2>1
    <3>2. n \in Active(u, usedMonth[u])'
      BY <1>3, <1>5, <2>1, <3>1 DEF Active
    <3>3. ASSUME NEW x \in Active(u, month)'
          PROVE  t.month = month
      <4>1. x \in reservations \cup {n} /\ x.user = u /\ x.month = month /\ ~x.released
        BY <1>5, <3>3 DEF Active
      <4>2. CASE x = n
        BY <1>3, <4>1, <4>2
      <4>3. CASE x \in reservations
        BY <1>1, <1>2, <1>4, <2>1, <4>1, <4>3
      <4>. QED BY <4>1, <4>2, <4>3
    <3>. QED BY <1>5, <3>1, <3>2, <3>3
  <2>2. CASE u # t.user
    <3>1. usedMonth'[u] = usedMonth[u]
      BY <1>6, <2>2
    <3>2. \A m : Active(u, m)' = Active(u, m)
      BY <1>3, <1>5, <2>2 DEF Active
    <3>. QED BY <1>1, <1>5, <3>1, <3>2 DEF MirrorTellsTheQuota, Active
  <2>. QED BY <2>1, <2>2
<1>12. MirrorTellsTheQuota'
  BY <1>11 DEF MirrorTellsTheQuota
<1>. QED BY <1>8, <1>9, <1>10, <1>12 DEF GoldInv

\* What releasing does to a row: an order's own row is released, every other
\* row stays, and nothing but released changes.
LEMMA ReleasedRow ==
    ASSUME NEW x \in Reservation, NEW u, NEW o
    PROVE  LET y == AfterRelease(x, u, o) IN
           /\ y \in Reservation
           /\ y.user = x.user /\ y.order = x.order /\ y.month = x.month
           /\ ~y.released => y = x
           /\ x.user = u /\ x.order = o => y = [x EXCEPT !.released = TRUE] /\ y.released
           /\ ~(x.user = u /\ x.order = o) => y = x
  BY DEF AfterRelease, Reservation

\* A rollback releases the one reservation of its order and clears the mirror
\* if that was what it showed.
LEMMA CommitRollbackInv ==
    ASSUME GoldInv, NEW w \in Workers, CommitRollback(w)
    PROVE  GoldInv'
<1> DEFINE t == txn[w]
           after(x) == AfterRelease(x, t.user, t.order)
<1>1. /\ GoldTypeOK /\ PastMonths /\ OneUpgradePerMonth /\ MirrorTellsTheQuota
      /\ Sound(t) /\ t \in Txn
  BY TxnRecord DEF GoldInv, CommitRollback
<1>2. t.user \in Users
  BY <1>1 DEF Txn
<1>3. PICK mine \in reservations :
        /\ mine.user = t.user /\ mine.order = t.order
        /\ ~mine.released /\ mine.month = t.month
  BY <1>1 DEF Sound, CommitRollback
<1>4. /\ reservations' = {after(x) : x \in reservations}
      /\ usedMonth' = [usedMonth EXCEPT ![t.user] = MirrorAfterRelease(t.user, t.month)]
      /\ month' = month /\ gold' = gold /\ candidates' = candidates /\ Finish(w)
      /\ txn[w].pc = "writing"
  BY DEF CommitRollback
<1>5. ASSUME NEW x \in reservations
      PROVE  /\ after(x) \in Reservation /\ after(x) \in reservations'
             /\ after(x).user = x.user /\ after(x).order = x.order
             /\ after(x).month = x.month
             /\ ~after(x).released => after(x) = x
             /\ x.user = t.user /\ x.order = t.order => after(x).released
             /\ ~(x.user = t.user /\ x.order = t.order) => after(x) = x
  <2>1. x \in Reservation /\ after(x) \in reservations'
    BY <1>1, <1>4 DEF GoldTypeOK
  <2>. QED BY <2>1, ReleasedRow
<1>6. \A y \in reservations' : \E x \in reservations : y = after(x)
  BY <1>4
<1> HIDE DEF after
<1>7. \A u \in Users : usedMonth'[u] =
         IF u = t.user /\ usedMonth[u] = t.month THEN NoMonth ELSE usedMonth[u]
  BY <1>1, <1>4 DEF GoldTypeOK, MirrorAfterRelease
<1>8. usedMonth' \in [Users -> Month \cup {NoMonth}]
  BY <1>1, <1>4 DEF GoldTypeOK, MirrorAfterRelease
<1>9. /\ reservations' \subseteq Reservation
      /\ \A x \in reservations' : x.user # t.user => x \in reservations
      /\ \A x \in reservations : x.user # t.user => x \in reservations'
  BY <1>5, <1>6
<1>10. GoldTypeOK' /\ Exclusive' /\ \A v \in Workers : Sound(txn[v])'
  BY <1>4, <1>8, <1>9, HolderCommits
<1>11. PastMonths'
  BY <1>1, <1>4, <1>5, <1>6 DEF PastMonths
<1>12. OneUpgradePerMonth'
  BY <1>1, <1>5, <1>6 DEF OneUpgradePerMonth
<1>13. \* What is still active was active before, and of another order.
       ASSUME NEW u \in Users, NEW m, NEW y \in Active(u, m)'
       PROVE  y \in Active(u, m) /\ (u = t.user => m # t.month)
  <2>1. y \in reservations' /\ y.user = u /\ y.month = m /\ ~y.released
    BY <1>13 DEF Active
  <2>2. y \in reservations /\ ~(y.user = t.user /\ y.order = t.order)
    BY <1>5, <1>6, <2>1
  <2>3. ASSUME u = t.user, m = t.month PROVE FALSE
    <3>1. y = mine
      BY <1>1, <1>3, <2>1, <2>2, <2>3 DEF OneUpgradePerMonth
    <3>. QED BY <1>3, <2>2, <3>1
  <2>. QED BY <2>1, <2>2, <2>3 DEF Active
<1>14. \* Another month's active reservation stays.
       ASSUME NEW u \in Users, NEW m, NEW x \in Active(u, m),
              ~(u = t.user /\ m = t.month)
       PROVE  Active(u, m)' # {}
  <2>1. x \in reservations /\ x.user = u /\ x.month = m /\ ~x.released
    BY <1>14 DEF Active
  <2>2. ~(x.user = t.user /\ x.order = t.order)
    BY <1>1, <1>3, <1>14, <2>1 DEF OneUpgradePerMonth
  <2>3. x \in reservations'
    BY <1>5, <2>1, <2>2
  <2>. QED BY <2>1, <2>3 DEF Active
<1>15. ASSUME NEW u \in Users
       PROVE  /\ usedMonth'[u] # NoMonth => Active(u, usedMonth[u])' # {}
              /\ Active(u, month)' # {} => usedMonth'[u] = month'
  <2>1. ASSUME usedMonth'[u] # NoMonth PROVE Active(u, usedMonth[u])' # {}
    <3>1. usedMonth'[u] = usedMonth[u] /\ ~(u = t.user /\ usedMonth[u] = t.month)
      BY <1>7, <2>1
    <3>2. PICK x \in Active(u, usedMonth[u]) : TRUE
      BY <1>1, <2>1, <3>1 DEF MirrorTellsTheQuota
    <3>3. \E y \in reservations' :
            y.user = u /\ y.month = usedMonth'[u] /\ ~y.released
      BY <1>14, <3>1, <3>2 DEF Active
    <3>. QED BY <3>3 DEF Active
  <2>2. ASSUME NEW y \in Active(u, month)' PROVE usedMonth'[u] = month'
    <3>1. y \in Active(u, month) /\ (u = t.user => month # t.month)
      BY <1>4, <1>13, <2>2 DEF Active
    <3>2. usedMonth[u] = month
      BY <1>1, <3>1 DEF MirrorTellsTheQuota
    <3>. QED BY <1>4, <1>7, <3>1, <3>2
  <2>. QED BY <2>1, <2>2
<1>16. MirrorTellsTheQuota'
  BY <1>15 DEF MirrorTellsTheQuota
<1>. QED BY <1>10, <1>11, <1>12, <1>16 DEF GoldInv

\* A reset clears the mirror of a month that is over.
LEMMA CommitResetInv ==
    ASSUME GoldInv, NEW w \in Workers, CommitReset(w)
    PROVE  GoldInv'
<1> DEFINE t == txn[w]
<1>1. /\ GoldTypeOK /\ PastMonths /\ OneUpgradePerMonth /\ MirrorTellsTheQuota
      /\ Sound(t) /\ t \in Txn
      /\ month \in Nat /\ Month \subseteq Nat
  BY TxnRecord, MonthsAreNumbers DEF GoldInv, CommitReset
<1>2. t.user \in Users /\ t.month \in Month
  BY <1>1 DEF Txn
<1>3. t.month \in Nat /\ t.month <= month
  BY <1>1, <1>2 DEF Sound, CommitReset
<1>4. /\ reservations' = reservations
      /\ month' = month /\ gold' = gold /\ candidates' = candidates /\ Finish(w)
      /\ txn[w].pc = "writing"
  BY DEF CommitReset
<1>5. \A u \in Users : usedMonth'[u] =
         IF u = t.user /\ usedMonth[u] # NoMonth /\ usedMonth[u] < t.month
         THEN NoMonth ELSE usedMonth[u]
  BY <1>1 DEF GoldTypeOK, CommitReset
<1>6. usedMonth' \in [Users -> Month \cup {NoMonth}]
  BY <1>1 DEF GoldTypeOK, CommitReset
<1>7. GoldTypeOK' /\ Exclusive' /\ \A v \in Workers : Sound(txn[v])'
  BY <1>1, <1>4, <1>6, HolderCommits DEF GoldTypeOK
<1>8. PastMonths' /\ OneUpgradePerMonth'
  BY <1>1, <1>4 DEF PastMonths, OneUpgradePerMonth
<1>9. ASSUME NEW u \in Users
      PROVE  /\ usedMonth'[u] # NoMonth => Active(u, usedMonth[u])' # {}
             /\ Active(u, month)' # {} => usedMonth'[u] = month'
  <2>1. /\ usedMonth[u] # NoMonth => Active(u, usedMonth[u]) # {}
        /\ Active(u, month) # {} => usedMonth[u] = month
    BY <1>1 DEF MirrorTellsTheQuota
  <2>2. usedMonth'[u] # NoMonth => usedMonth'[u] = usedMonth[u]
    BY <1>5
  <2>3. usedMonth[u] = month => usedMonth'[u] = usedMonth[u]
    BY <1>1, <1>3, <1>5
  <2>. QED BY <1>4, <2>1, <2>2, <2>3 DEF Active
<1>10. MirrorTellsTheQuota'
  BY <1>9 DEF MirrorTellsTheQuota
<1>. QED BY <1>7, <1>8, <1>10 DEF GoldInv

LEMMA AbortInv ==
    ASSUME GoldInv, NEW w \in Workers, Abort(w)
    PROVE  GoldInv'
<1>1. CASE Finish(w)
  BY <1>1, FinishInv DEF Abort
<1>2. CASE txn' = [txn EXCEPT ![w].pc = "waiting"]
  <2> DEFINE t == [txn[w] EXCEPT !.pc = "waiting"]
  <2>1. GoldTypeOK /\ candidates' \subseteq Users
    BY DEF GoldInv, GoldTypeOK, Abort
  <2>2. txn[w] \in Txn
    BY <2>1 DEF GoldTypeOK, Abort
  <2>3. t \in Txn /\ t.pc = "waiting"
    BY <2>2, StageColumns
  <2>4. txn' = [txn EXCEPT ![w] = t] /\ UNCHANGED <<tables, month>>
    BY <1>2 DEF Abort
  <2>5. ~Inside(t) /\ Sound(t)
    BY <2>3 DEF Inside, Sound
  <2> HIDE DEF t
  <2>. QED BY <2>1, <2>3, <2>4, <2>5, WorkerStep
<1>. QED BY <1>1, <1>2 DEF Abort

\* Steps that leave the transactions and the reservations alone.
LEMMA ScanResetInv == GoldInv /\ ScanReset => GoldInv'
<1> SUFFICES ASSUME GoldInv, ScanReset PROVE GoldInv'
  OBVIOUS
<1>1. candidates' \subseteq Users
  BY DEF ScanReset
<1>. QED BY <1>1 DEF ScanReset, tables, GoldInv, GoldTypeOK, Exclusive, PastMonths,
                     OneUpgradePerMonth, MirrorTellsTheQuota, Active, Sound, Month

LEMMA BecomeGoldInv ==
    ASSUME GoldInv, NEW u \in Users, BecomeGold(u)
    PROVE  GoldInv'
<1>1. GoldTypeOK'
  BY DEF GoldInv, GoldTypeOK, BecomeGold, Month
<1>. QED BY <1>1 DEF BecomeGold, GoldInv, Exclusive, PastMonths, OneUpgradePerMonth,
                     MirrorTellsTheQuota, Active, Sound

\* A new month has no reservation yet.
LEMMA NextMonthInv == GoldInv /\ NextMonth => GoldInv'
<1> SUFFICES ASSUME GoldInv, NextMonth PROVE GoldInv'
  OBVIOUS
<1>1. /\ GoldTypeOK /\ PastMonths /\ Exclusive /\ OneUpgradePerMonth
      /\ MirrorTellsTheQuota /\ \A w \in Workers : Sound(txn[w])
      /\ month \in Nat /\ Month \subseteq Nat
  BY MonthsAreNumbers DEF GoldInv
<1>2. /\ month' = month + 1 /\ month < LastMonth
      /\ gold' = gold /\ reservations' = reservations /\ usedMonth' = usedMonth
      /\ candidates' = candidates /\ txn' = txn
  BY DEF NextMonth, tables
<1>3. GoldTypeOK'
  <2>1. month' \in Month
    BY <1>1, <1>2, GoldAssumption DEF Month
  <2>. QED BY <1>1, <1>2, <2>1 DEF GoldTypeOK, Month
<1>4. Exclusive' /\ OneUpgradePerMonth'
  BY <1>1, <1>2 DEF Exclusive, OneUpgradePerMonth
<1>5. \A x \in reservations : x.month \in Nat /\ x.month <= month
  BY <1>1 DEF GoldTypeOK, Reservation, PastMonths
<1>6. PastMonths'
  BY <1>1, <1>2, <1>5 DEF PastMonths
<1>7. MirrorTellsTheQuota'
  <2>1. \A u \in Users : Active(u, month)' = {}
    BY <1>1, <1>2, <1>5 DEF Active
  <2>. QED BY <1>1, <1>2, <2>1 DEF MirrorTellsTheQuota, Active
<1>8. ASSUME NEW w \in Workers
      PROVE  Sound(txn[w])'
  <2>1. CASE txn[w].pc = "writing"
    <3>1. txn[w] \in Txn
      BY <1>1, <2>1, TxnRecord
    <3>2. txn[w].month \in Nat
      BY <1>1, <3>1 DEF Txn
    <3>3. Sound(txn[w])
      BY <1>1
    <3>. QED BY <1>1, <1>2, <2>1, <3>2, <3>3 DEF Sound
  <2>2. CASE txn[w].pc # "writing"
    BY <1>2, <2>2 DEF Sound
  <2>. QED BY <2>1, <2>2
<1>. QED BY <1>3, <1>4, <1>6, <1>7, <1>8 DEF GoldInv

LEMMA GoldNextInv == GoldInv /\ [Next]_goldVars => GoldInv'
<1> SUFFICES ASSUME GoldInv, [Next]_goldVars PROVE GoldInv'
  OBVIOUS
<1>1. ASSUME NEW w \in Workers, NEW u \in Users, VisitCandidate(w, u)
      PROVE  GoldInv'
  <2>1. candidates' \subseteq Users /\ Start(w, "RESET", u, NoOrder)
    BY <1>1 DEF VisitCandidate, GoldInv, GoldTypeOK
  <2>. QED BY <2>1, StartInv
<1>2. ASSUME NEW w \in Workers, NEW u \in Users, NEW o \in Orders, Request(w, u, o)
      PROVE  GoldInv'
  <2>1. candidates' \subseteq Users
    BY <1>2 DEF Request, GoldInv, GoldTypeOK
  <2>2. Start(w, "USE", u, o) \/ Start(w, "ROLLBACK", u, o)
    BY <1>2 DEF Request
  <2>. QED BY <2>1, <2>2, StartInv
<1>3. ASSUME NEW w \in Workers,
             \/ Lock(w) \/ CheckUse(w) \/ CheckRollback(w) \/ CheckReset(w)
             \/ CommitUse(w) \/ CommitRollback(w) \/ CommitReset(w) \/ Abort(w)
      PROVE  GoldInv'
  BY <1>3, LockInv, CheckUseInv, CheckRollbackInv, CheckResetInv, CommitUseInv,
     CommitRollbackInv, CommitResetInv, AbortInv
<1>4. CASE ScanReset
  BY <1>4, ScanResetInv
<1>5. ASSUME NEW u \in Users, BecomeGold(u)
      PROVE  GoldInv'
  BY <1>5, BecomeGoldInv
<1>6. CASE NextMonth
  BY <1>6, NextMonthInv
<1>7. CASE UNCHANGED goldVars
  BY <1>7 DEF goldVars, GoldInv, GoldTypeOK, Exclusive, PastMonths,
              OneUpgradePerMonth, MirrorTellsTheQuota, Active, Sound, Month
<1>. QED BY <1>1, <1>2, <1>3, <1>4, <1>5, <1>6, <1>7 DEF Next
-----------------------------------------------------------------------------
\* A rollback releases reservations of its own order and leaves every other
\* one as it is; a use adds one; nothing else writes the table.
LEMMA RollbackKeepsBound ==
    ASSUME GoldInv, NEW w \in Workers, CommitRollback(w), NEW x \in reservations
    PROVE  StaysBound(x)
<1> DEFINE after == AfterRelease(x, txn[w].user, txn[w].order)
<1>1. x \in Reservation
  BY DEF GoldInv, GoldTypeOK
<1>2. after \in reservations'
  BY DEF CommitRollback
<1>3. CASE x.user = txn[w].user /\ x.order = txn[w].order /\ ~x.released
  <2>1. [x EXCEPT !.released = TRUE] \in reservations'
    BY <1>2, <1>3 DEF AfterRelease
  <2>2. txn'[w] = Idle
    BY DEF CommitRollback, Finish, GoldInv, GoldTypeOK
  <2>. QED BY <1>3, <2>1, <2>2 DEF StaysBound, CommitRollback
<1>4. CASE ~(x.user = txn[w].user /\ x.order = txn[w].order)
  BY <1>2, <1>4 DEF AfterRelease, StaysBound
<1>5. CASE x.released
  <2>1. after \in Reservation /\ after.user = x.user /\ after.order = x.order
        /\ after.month = x.month /\ after.released
    BY <1>1, <1>5 DEF AfterRelease, Reservation
  <2>2. after = x
    BY <1>1, <1>5, <2>1 DEF Reservation
  <2>. QED BY <1>2, <2>2 DEF StaysBound
<1>. QED BY <1>3, <1>4, <1>5

LEMMA StepKeepsBound ==
    ASSUME GoldInv, [Next]_goldVars, NEW x \in reservations
    PROVE  StaysBound(x)
<1>1. CASE \E w \in Workers : CommitRollback(w)
  BY <1>1, RollbackKeepsBound
<1>2. CASE \E w \in Workers : CommitUse(w)
  BY <1>2 DEF CommitUse, StaysBound
<1>3. CASE reservations' = reservations
  BY <1>3 DEF StaysBound
<1>4. ASSUME NEW w \in Workers,
             \/ \E u \in Users : \/ VisitCandidate(w, u)
                                 \/ \E o \in Orders : Request(w, u, o)
             \/ Lock(w) \/ CheckUse(w) \/ CheckRollback(w) \/ CheckReset(w)
             \/ CommitReset(w) \/ Abort(w)
      PROVE  reservations' = reservations
  BY <1>4 DEF VisitCandidate, Request, Start, Lock, CheckUse, CheckRollback,
              CheckReset, CommitReset, Abort, tables
<1>5. ASSUME \/ ScanReset \/ NextMonth \/ UNCHANGED goldVars
             \/ \E u \in Users : BecomeGold(u)
      PROVE  reservations' = reservations
  BY <1>5 DEF ScanReset, NextMonth, goldVars, BecomeGold, tables
<1>. QED BY <1>1, <1>2, <1>3, <1>4, <1>5 DEF Next
-----------------------------------------------------------------------------
(***************************************************************************)
(* The theorems.                                                           *)
(***************************************************************************)
\* The inductive invariant holds in every reachable state.
THEOREM GoldInvariance == GoldSpec => []GoldInv
  BY GoldInitInv, GoldNextInv, PTL DEF GoldSpec

\* The tables and the transactions keep their shape.
THEOREM GoldTypeCorrectness == GoldSpec => []GoldTypeOK
<1>1. GoldInv => GoldTypeOK
  BY DEF GoldInv
<1>. QED BY <1>1, GoldInvariance, PTL

\* However uses, rollbacks, resets and month ends interleave, a user has at most
\* one active upgrade a month and an order at most one reservation: the row
\* lock alone protects the quota, without the unique indexes.
THEOREM OneUpgradePerMonthAlways == GoldSpec => []OneUpgradePerMonth
<1>1. GoldInv => OneUpgradePerMonth
  BY DEF GoldInv
<1>. QED BY <1>1, GoldInvariance, PTL

\* gold_upgrade_used_month never disagrees with the reservations about the
\* current month, and never shows a month nobody holds.
THEOREM MirrorAlwaysTellsTheQuota == GoldSpec => []MirrorTellsTheQuota
<1>1. GoldInv => MirrorTellsTheQuota
  BY DEF GoldInv
<1>. QED BY <1>1, GoldInvariance, PTL

\* A reservation is never removed, moved to another month or order, or taken
\* back after its release, and only a rollback of its own order releases it.
THEOREM ReservationsStayBound == GoldSpec => ReservationsAreBound
<1>1. GoldInv /\ [Next]_goldVars => [\A x \in reservations : StaysBound(x)]_goldVars
  BY StepKeepsBound
<1>. QED BY <1>1, GoldInvariance, PTL DEF GoldSpec, ReservationsAreBound
=============================================================================
