--------------------------- MODULE LoyaltyAccounts ---------------------------
(***************************************************************************)
(* The promise of the loyalty service about one user's account: every      *)
(* operation that changes points, tier or bonus grants is ONE atomic step  *)
(* on the account of one user and on the shared table of processed keys.   *)
(* ProfileTransactions shows that the row locks, the key claims and the    *)
(* retries of the code implement these atomic steps.                       *)
(*                                                                         *)
(* An account gathers the rows that belong to one user: the profile row,   *)
(* the points_transactions in commit order, the checkout_debits, the       *)
(* user_bonus_grants, the TIER_UPGRADED outbox events and the achievement  *)
(* dispatch intents.  A ledger row is identified by its index.             *)
(***************************************************************************)
EXTENDS LoyaltyRules

CONSTANTS
    Users, Orders, Keys,
    NoOrder,       \* the NULL order of a ledger row
    LegacyUsers,   \* users imported with a debit older than checkout_debits
    LegacyOrder, LegacyDebit,  \* the order and the points of that debit
    Requests,      \* the requests the environment may issue
    LastDay,       \* bound: the clock stops at this day
    LedgerBound    \* bound: no request adds to a ledger beyond this length

\* The forms a request may take.  "used" is pointsUsed of the purchase
\* message, NotSent when the message leaves it out.
NotSent == -1
PointRequest    == [op: {"DEDUCT", "REFUND"}, user: Users, order: Orders,
                    amount: 1..MaxInt, key: Keys]
PurchaseRequest == [op: {"PURCHASE"}, user: Users, order: Orders, amount: Nat,
                    used: Nat \cup {NotSent}, special: BOOLEAN,
                    vip: BOOLEAN, key: Keys]
RewardRequest   == [op: {"REWARD"}, user: Users, amount: Nat, key: Keys]
AdminRequest    == [op: {"ADMIN"}, user: Users, amount: Int \ {0}]
BirthdayRequest == [op: {"DOB"}, user: Users, day: 0..YearDays - 1]
UserRequest     == [op: {"OPEN", "VIP", "BIRTHDAY", "EXPIRE", "ANNUAL"},
                    user: Users]
Request == PointRequest \cup PurchaseRequest \cup RewardRequest
             \cup AdminRequest \cup BirthdayRequest \cup UserRequest

ASSUME AccountsAssumption ==
    /\ NoOrder \notin Orders
    /\ LegacyUsers \subseteq Users
    /\ LegacyOrder \in Orders
    /\ LegacyDebit \in 1..MaxInt /\ 2 * LegacyDebit <= MaxInt
    /\ Requests \subseteq Request
    /\ LastDay \in Nat
    /\ LedgerBound \in Nat

VARIABLES
    accounts,    \* the committed rows of every user
    processed,   \* processed_events: what is stored under each key
    today        \* the database and server clock

accountVars == <<accounts, processed, today>>
-----------------------------------------------------------------------------
(***************************************************************************)
(* The tables.                                                             *)
(***************************************************************************)
Debits  == {"BURN_DISCOUNT", "EXPIRE", "ADMIN_DEDUCTION"}
Credits == {"EARN_TICKET", "EARN_SPECIAL", "EARN_BIRTHDAY",
            "EARN_ACHIEVEMENT", "REFUND", "ADMIN_ADDITION"}
Entry == [type: Debits \cup Credits, points: Int, balanceAfter: Int,
          order: Orders \cup {NoOrder}]

ActionType == {"TICKET_PURCHASED", "VIP_SEAT_BOUGHT"}

\* debit and refund are ledger indexes, refund = 0 is SQL NULL.
CheckoutDebit == [debit: Nat, refund: Nat]
\* A birthday grant: its year and the ledger index of its points.
BonusGrant  == [year: Int, entry: Nat]
TierUpgrade == [from: Tier, to: Tier]
Intent      == [order: Orders, action: ActionType]

Account == [exists: BOOLEAN, balance: Int, lifetime: Int, yearPoints: Int,
            yearVisits: Int, tier: Tier, expiresAt: Int, birthday: Int,
            ledger: Seq(Entry), checkout: SUBSET CheckoutDebit,
            grants: SUBSET BonusGrant, upgrades: Seq(TierUpgrade),
            intents: SUBSET Intent]

NoAccount == [exists |-> FALSE, balance |-> 0, lifetime |-> 0,
              yearPoints |-> 0, yearVisits |-> 0, tier |-> Bronze,
              expiresAt |-> NoDay, birthday |-> NoBirthday, ledger |-> <<>>,
              checkout |-> {}, grants |-> {}, upgrades |-> <<>>,
              intents |-> {}]

\* What creating a profile row with the column defaults makes of an account.
Opened(a) == [a EXCEPT !.exists = TRUE]

\* A user whose only discount debit predates the checkout_debits table, with
\* as much again left on the balance.
LegacyAccount ==
    LET e == 2 * LegacyDebit
        row(type, points, after, order) ==
            [type |-> type, points |-> points,
             balanceAfter |-> after, order |-> order]
    IN  [NoAccount EXCEPT
           !.exists = TRUE, !.balance = LegacyDebit, !.lifetime = e,
           !.expiresAt = YearDays,
           !.ledger = << row("EARN_TICKET", e, e, NoOrder),
                         row("BURN_DISCOUNT", -LegacyDebit, LegacyDebit,
                             LegacyOrder) >>]

\* processed_events: nothing, a generic marker, or a point command with the
\* result it committed.
NoRow    == [op |-> "NONE"]
EventRow == [op |-> "EVENT"]

\* A mutant: the amount is stored with the sign of the ledger row.
SignedCommandRow(r, balance) ==
    [op |-> r.op, user |-> r.user, order |-> r.order, amount |-> -r.amount,
     balanceAfter |-> balance]

CommandRow(r, balance) ==
    [op |-> r.op, user |-> r.user, order |-> r.order, amount |-> r.amount,
     balanceAfter |-> balance]
PointRow == [op: {"DEDUCT", "REFUND"}, user: Users, order: Orders,
             amount: 1..MaxInt, balanceAfter: Int]
Row == {NoRow, EventRow} \cup PointRow
-----------------------------------------------------------------------------
(***************************************************************************)
(* Changes the operations share.                                           *)
(***************************************************************************)
\* A mutant: the ledger row carries the balance of before the change.
PostedStale(a, type, points, order) ==
    [a EXCEPT !.balance = @ + points,
              !.ledger  = Append(@, [type |-> type, points |-> points,
                                     balanceAfter |-> a.balance,
                                     order |-> order])]

\* The balance changes by points and the ledger records it with the balance
\* it leaves.
Posted(a, type, points, order) ==
    [a EXCEPT !.balance = @ + points,
              !.ledger  = Append(@, [type |-> type, points |-> points,
                                     balanceAfter |-> a.balance + points,
                                     order |-> order])]

\* Points that count for the year and the lifetime, and renew the expiry.
Earned(a, type, points, order, day) ==
    [Posted(a, type, points, order) EXCEPT
        !.lifetime = @ + points, !.yearPoints = @ + points,
        !.expiresAt = AddYear(day)]

\* The columns that n more points earned must fit in.
EarningFits(a, n) ==
    Fits(a.balance + n) /\ Fits(a.lifetime + n) /\ Fits(a.yearPoints + n)

\* A mutant: the new tier is stored and its outbox event is forgotten.
SilentlyAtTier(a, tier) == [a EXCEPT !.tier = tier]

\* The new tier; a change of tier saves a TIER_UPGRADED outbox event.
AtTier(a, tier) ==
    IF tier = a.tier THEN a
    ELSE [a EXCEPT !.tier = tier,
                   !.upgrades = Append(@, [from |-> a.tier, to |-> tier])]

\* The tier the account's own yearly metrics call for.
Promoted(a) == AtTier(a, ResolveNewTier(a.tier, a.yearVisits, a.yearPoints))
-----------------------------------------------------------------------------
(***************************************************************************)
(* deductPoints                                                            *)
(***************************************************************************)
\* A mutant: the balance check is missing.
CanDeductBlindly(a, r) == a.exists /\ r.amount >= MinimumDeduction

CanDeduct(a, r) ==
    /\ r.amount >= MinimumDeduction
    /\ a.exists
    /\ a.balance >= r.amount

Deducted(a, r) ==
    [Posted(a, "BURN_DISCOUNT", -r.amount, r.order) EXCEPT
        !.checkout = @ \cup {[debit |-> Len(a.ledger) + 1, refund |-> 0]}]
-----------------------------------------------------------------------------
(***************************************************************************)
(* refundPoints: full compensation of the one checkout debit of an order.  *)
(***************************************************************************)
EntriesOf(a, type, order) ==
    {i \in DOMAIN a.ledger : a.ledger[i].type = type /\ a.ledger[i].order = order}

\* Mutants: the prior compensation is not looked at, or any amount will do.
CanRefundAgain(a, r) ==
    /\ a.exists
    /\ \E d \in EntriesOf(a, "BURN_DISCOUNT", r.order) :
         /\ EntriesOf(a, "BURN_DISCOUNT", r.order) = {d}
         /\ \E c \in a.checkout : c.debit = d
         /\ r.amount = -a.ledger[d].points
    /\ Fits(a.balance + r.amount)
CanRefundAnyAmount(a, r) ==
    /\ a.exists
    /\ \E d \in EntriesOf(a, "BURN_DISCOUNT", r.order) :
         [debit |-> d, refund |-> 0] \in a.checkout
    /\ EntriesOf(a, "REFUND", r.order) = {}
    /\ Fits(a.balance + r.amount)

CanRefund(a, r) ==
    /\ a.exists
    /\ \E d \in EntriesOf(a, "BURN_DISCOUNT", r.order) :
         /\ EntriesOf(a, "BURN_DISCOUNT", r.order) = {d}
         /\ EntriesOf(a, "REFUND", r.order) = {}
         /\ [debit |-> d, refund |-> 0] \in a.checkout
         /\ r.amount = -a.ledger[d].points
    /\ Fits(a.balance + r.amount)

\* The refund row, linked to the debit it compensates.
Refunded(a, r) ==
    LET linked(c) ==
            IF c.debit \in EntriesOf(a, "BURN_DISCOUNT", r.order)
            THEN [c EXCEPT !.refund = Len(a.ledger) + 1] ELSE c
    IN  [Posted(a, "REFUND", r.amount, r.order) EXCEPT
            !.checkout = {linked(c) : c \in a.checkout}]
-----------------------------------------------------------------------------
(***************************************************************************)
(* processTicketPurchase                                                   *)
(***************************************************************************)
\* The points used for the order: the message says it, or the latest discount
\* debit of the order does.
PointsUsed(a, r) ==
    LET burns == EntriesOf(a, "BURN_DISCOUNT", r.order)
        last  == CHOOSE i \in burns : \A j \in burns : j <= i
    IN  IF r.used # NotSent THEN r.used
        ELSE IF burns = {} THEN 0 ELSE -a.ledger[last].points

PointsEarned(a, r, day) ==
    IF PointsUsed(a, r) > 0 THEN 0
    ELSE PointsFor(r.amount,
                   DoubledMultiplier(a.tier, a.birthday, r.special, day))

\* A mutant: only the points themselves are checked.
CanPurchaseUnchecked(a, r, day) == Fits(PointsEarned(a, r, day))

\* The accounting range of the counters a purchase changes.
CanPurchase(a, r, day) ==
    LET n == PointsEarned(a, r, day)
    IN  /\ Fits(n) /\ Fits(a.yearVisits + 1)
        /\ n > 0 => EarningFits(a, n)

Intents(r) ==
    {[order |-> r.order, action |-> "TICKET_PURCHASED"]}
      \cup IF r.vip THEN {[order |-> r.order, action |-> "VIP_SEAT_BOUGHT"]}
           ELSE {}

Purchased(a, r, day) ==
    LET n        == PointsEarned(a, r, day)
        type     == IF r.special THEN "EARN_SPECIAL" ELSE "EARN_TICKET"
        visited  == [Opened(a) EXCEPT !.yearVisits = @ + 1]
        credited == IF n > 0 THEN Earned(visited, type, n, r.order, day)
                    ELSE visited
    IN  [Promoted(credited) EXCEPT !.intents = @ \cup Intents(r)]
-----------------------------------------------------------------------------
(***************************************************************************)
(* Birthday bonus: the date-of-birth event and the scheduled job.          *)
(***************************************************************************)
Granted(a, day) == \E g \in a.grants : g.year = YearOf(day)

\* A mutant: the grant of the year is not looked up.
DueEveryTime(a, day) == a.exists /\ IsBirthday(a.birthday, day)

BonusDue(a, day) ==
    /\ a.exists
    /\ ~Granted(a, day)
    /\ IsBirthday(a.birthday, day)

\* The columns the increments of a bonus must fit in.
CanGrant(a) == EarningFits(a, BirthdayBonus)

WithBonus(a, day) ==
    [Promoted(Earned(a, "EARN_BIRTHDAY", BirthdayBonus, NoOrder, day)) EXCEPT
        !.grants = @ \cup {[year |-> YearOf(day), entry |-> Len(a.ledger) + 1]}]

\* processUserDateOfBirthSet: the date is stored, and the bonus follows in the
\* same transaction when the new date is today's.
WithBirthday(a, r, day) ==
    LET dated == [Opened(a) EXCEPT !.birthday = r.day]
    IN  IF BonusDue(dated, day) THEN WithBonus(dated, day) ELSE dated
CanSetBirthday(a, r, day) ==
    BonusDue([Opened(a) EXCEPT !.birthday = r.day], day) => CanGrant(a)
-----------------------------------------------------------------------------
(***************************************************************************)
(* Administration, achievement rewards and the two account jobs.           *)
(***************************************************************************)
CanAdjust(a, r) ==
    /\ a.balance + r.amount >= 0
    /\ r.amount > 0 => EarningFits(a, r.amount)

Adjusted(a, r, day) ==
    IF r.amount > 0
    THEN Promoted(Earned(Opened(a), "ADMIN_ADDITION", r.amount, NoOrder, day))
    ELSE Promoted(Posted(Opened(a), "ADMIN_DEDUCTION", r.amount, NoOrder))

\* grantVipStatusGrpc: GOLD with a ledger row of 0 points.
CanMakeVip(a) == a.tier # Gold
MadeVip(a) == Posted(AtTier(Opened(a), Gold), "ADMIN_ADDITION", 0, NoOrder)

\* The reward of an unlocked achievement: balance and lifetime only.  A reward
\* of 0 stands for a processed event that unlocks nothing.
CanReward(a, r) == Fits(a.balance + r.amount) /\ Fits(a.lifetime + r.amount)
Rewarded(a, r) ==
    IF r.amount = 0 THEN Opened(a)
    ELSE [Posted(Opened(a), "EARN_ACHIEVEMENT", r.amount, NoOrder) EXCEPT
            !.lifetime = @ + r.amount]

\* A mutant: the candidate is trusted, its expiry not compared under the lock.
ExpiryDueEarly(a, day) == a.exists /\ a.balance > 0 /\ a.expiresAt # NoDay

\* expirePoints, for one candidate under the lock.
ExpiryDue(a, day) ==
    /\ a.exists
    /\ a.balance > 0
    /\ a.expiresAt # NoDay
    /\ a.expiresAt <= day

\* A mutant: the balance is erased and no ledger row says so.
ExpiredSilently(a) == [a EXCEPT !.balance = 0]

Expired(a) == Posted(a, "EXPIRE", -a.balance, NoOrder)

\* resetAnnualStats, for one candidate under the lock.
StatsReset(a) == [a EXCEPT !.yearPoints = 0, !.yearVisits = 0]
-----------------------------------------------------------------------------
(***************************************************************************)
(* What a request does to the account and the key table, once for the      *)
(* atomic actions here and for the transactions of ProfileTransactions.    *)
(* asOf is the day the operation works with, read from the clock of the    *)
(* service before the commit, by some operations even before the profile   *)
(* is locked.                                                              *)
(***************************************************************************)
HasKey(r) == r.op \in {"DEDUCT", "REFUND", "PURCHASE", "REWARD"}

Accepts(a, r, asOf) ==
    CASE r.op = "DEDUCT"   -> CanDeduct(a, r)
      [] r.op = "REFUND"   -> CanRefund(a, r)
      [] r.op = "PURCHASE" -> CanPurchase(a, r, asOf)
      [] r.op = "REWARD"   -> CanReward(a, r)
      [] r.op = "ADMIN"    -> CanAdjust(a, r)
      [] r.op = "VIP"      -> CanMakeVip(a)
      [] r.op = "DOB"      -> CanSetBirthday(a, r, asOf)
      [] r.op = "BIRTHDAY" -> BonusDue(a, asOf) /\ CanGrant(a)
      [] r.op = "EXPIRE"   -> ExpiryDue(a, asOf)
      [] r.op = "ANNUAL"   -> a.exists
      [] r.op = "OPEN"     -> TRUE

After(a, r, asOf) ==
    CASE r.op = "DEDUCT"   -> Deducted(a, r)
      [] r.op = "REFUND"   -> Refunded(a, r)
      [] r.op = "PURCHASE" -> Purchased(a, r, asOf)
      [] r.op = "REWARD"   -> Rewarded(a, r)
      [] r.op = "ADMIN"    -> Adjusted(a, r, asOf)
      [] r.op = "VIP"      -> MadeVip(a)
      [] r.op = "DOB"      -> WithBirthday(a, r, asOf)
      [] r.op = "BIRTHDAY" -> WithBonus(a, asOf)
      [] r.op = "EXPIRE"   -> Expired(a)
      [] r.op = "ANNUAL"   -> StatsReset(a)
      [] r.op = "OPEN"     -> Opened(a)

\* The row the request leaves under its key.
RowOf(r, balance) ==
    IF r.op \in {"DEDUCT", "REFUND"} THEN CommandRow(r, balance) ELSE EventRow

\* A mutant: a request under a used key is carried out again.
Rerun(r) == TRUE

\* No earlier request was carried out under the key.
Fresh(r) == HasKey(r) => processed[r.key] = NoRow
-----------------------------------------------------------------------------
(***************************************************************************)
(* The atomic steps.                                                       *)
(***************************************************************************)
Init ==
    /\ accounts = [u \in Users |-> IF u \in LegacyUsers THEN LegacyAccount
                                   ELSE NoAccount]
    /\ processed = [k \in Keys |-> NoRow]
    /\ today = 0

\* The request is carried out: the user's rows and the key change together.
Perform(r, asOf) ==
    LET after == After(accounts[r.user], r, asOf) IN
    /\ Fresh(r)
    /\ Accepts(accounts[r.user], r, asOf)
    /\ Len(after.ledger) <= LedgerBound
    /\ accounts' = [accounts EXCEPT ![r.user] = after]
    /\ processed' = IF HasKey(r)
                    THEN [processed EXCEPT ![r.key] = RowOf(r, after.balance)]
                    ELSE processed
    /\ UNCHANGED today

Deduct(r)        == r.op = "DEDUCT" /\ Perform(r, today)
Refund(r)        == r.op = "REFUND" /\ Perform(r, today)
Reward(r)        == r.op = "REWARD" /\ Perform(r, today)
GrantVip(r)      == r.op = "VIP" /\ Perform(r, today)
AnnualReset(r)   == r.op = "ANNUAL" /\ Perform(r, today)
OpenAccount(r)   == r.op = "OPEN" /\ Perform(r, today)
Purchase(r, asOf)      == r.op = "PURCHASE" /\ Perform(r, asOf)
ModifyPoints(r, asOf)  == r.op = "ADMIN" /\ Perform(r, asOf)
SetBirthday(r, asOf)   == r.op = "DOB" /\ Perform(r, asOf)
GrantBirthday(r, asOf) == r.op = "BIRTHDAY" /\ Perform(r, asOf)
ExpirePoints(r, asOf)  == r.op = "EXPIRE" /\ Perform(r, asOf)

\* A purchase or a reward whose event was processed before is skipped, and
\* commits nothing but the profile row it may have created.
SkipProcessed(r) ==
    /\ r.op \in {"PURCHASE", "REWARD"}
    /\ processed[r.key] = EventRow
    /\ accounts' = [accounts EXCEPT ![r.user] = Opened(@)]
    /\ UNCHANGED <<processed, today>>

Tick ==
    /\ today < LastDay
    /\ today' = today + 1
    /\ UNCHANGED <<accounts, processed>>

\* An operation that needs the day has read the clock before it commits.
Next ==
    \/ \E r \in Requests :
         \/ Deduct(r) \/ Refund(r) \/ Reward(r) \/ GrantVip(r)
         \/ AnnualReset(r) \/ OpenAccount(r) \/ SkipProcessed(r)
         \/ \E asOf \in 0..today :
              \/ Purchase(r, asOf) \/ ModifyPoints(r, asOf)
              \/ SetBirthday(r, asOf) \/ GrantBirthday(r, asOf)
              \/ ExpirePoints(r, asOf)
    \/ Tick

AccountsSpec == Init /\ [][Next]_accountVars
-----------------------------------------------------------------------------
(***************************************************************************)
(* Properties.                                                             *)
(***************************************************************************)
\* Every variable holds rows of the shape of its table.
TypeOK ==
    /\ accounts \in [Users -> Account]
    /\ processed \in [Keys -> Row]
    /\ today \in 0..LastDay

BalanceBefore(a, i) == IF i = 1 THEN 0 ELSE a.ledger[i - 1].balanceAfter

\* The ledger explains the balance: in commit order every row leaves the
\* balance of the row before it plus its own points, and the last row leaves
\* the balance of the profile.  Whatever mix of deductions, refunds,
\* purchases, bonuses, adjustments and expiries ran, points_transactions and
\* loyalty_profiles.balance never disagree.
AccountBalanced(a) ==
    /\ \A i \in 1..Len(a.ledger) :
         a.ledger[i].balanceAfter = BalanceBefore(a, i) + a.ledger[i].points
    /\ a.balance = BalanceBefore(a, Len(a.ledger) + 1)
LedgerExplainsBalance == \A u \in Users : AccountBalanced(accounts[u])

\* No operation overdraws an account or leaves a counter outside its column:
\* the balance and the counters stay between 0 and the largest INTEGER.
AccountSolvent(a) ==
    /\ a.balance \in 0..MaxInt
    /\ a.lifetime \in 0..MaxInt
    /\ a.yearPoints \in 0..MaxInt
    /\ a.yearVisits \in 0..MaxInt
NeverOverdrawn == \A u \in Users : AccountSolvent(accounts[u])

\* A refund compensates one debit, in full, once: every REFUND row is linked
\* by exactly one checkout debit, an earlier BURN_DISCOUNT row of the same
\* order with the opposite points, no debit is linked to two refunds, and an
\* order is refunded at most once (README, "Refund is full checkout
\* compensation").
AccountCompensated(a) ==
    /\ \A i \in DOMAIN a.ledger : a.ledger[i].type = "REFUND" =>
         \E c \in a.checkout :
            /\ c.refund = i
            /\ c.debit \in 1..i - 1
            /\ a.ledger[c.debit].type = "BURN_DISCOUNT"
            /\ a.ledger[c.debit].order = a.ledger[i].order
            /\ a.ledger[c.debit].points = -a.ledger[i].points
    /\ \A c, d \in a.checkout :
         (c.debit = d.debit \/ (c.refund = d.refund /\ c.refund # 0)) => c = d
    /\ \A i, j \in DOMAIN a.ledger :
         /\ a.ledger[i].type = "REFUND" /\ a.ledger[j].type = "REFUND"
         /\ a.ledger[i].order = a.ledger[j].order
         => i = j
RefundsCompensateOnce == \A u \in Users : AccountCompensated(accounts[u])

\* The TIER_UPGRADED events of a user tell the whole history of the tier: the
\* first starts at BRONZE, each starts where the one before ended and goes
\* up, and the last ends at the tier of the profile.  So every change of tier,
\* by purchase, bonus, adjustment or VIP grant, saved exactly one event.
TierAfter(a, i) == IF i = 0 THEN Bronze ELSE a.upgrades[i].to
AccountAnnounced(a) ==
    /\ \A i \in 1..Len(a.upgrades) :
         /\ a.upgrades[i].from = TierAfter(a, i - 1)
         /\ a.upgrades[i].to > a.upgrades[i].from
    /\ a.tier = TierAfter(a, Len(a.upgrades))
TierEventsTellTheTier == \A u \in Users : AccountAnnounced(accounts[u])

\* At most one birthday bonus a year, whatever the date-of-birth event and the
\* scheduled job do and in which order: each EARN_BIRTHDAY row belongs to one
\* grant, each grant has its row, and no year has two grants.
AccountGrantedOnce(a) ==
    /\ \A i \in DOMAIN a.ledger :
         a.ledger[i].type = "EARN_BIRTHDAY" <=> \E g \in a.grants : g.entry = i
    /\ \A g \in a.grants : g.entry \in DOMAIN a.ledger
    /\ \A g, h \in a.grants : (g.year = h.year \/ g.entry = h.entry) => g = h
OneBonusPerYear == \A u \in Users : AccountGrantedOnce(accounts[u])

\* An idempotency key stands for one effect: the typed keys of a user match
\* the user's BURN_DISCOUNT and REFUND rows one for one (a legacy debit has no
\* key), each with the order, the amount and the balance the key answers.
CommandEntries(u) ==
    {i \in DOMAIN accounts[u].ledger :
        /\ accounts[u].ledger[i].type \in {"BURN_DISCOUNT", "REFUND"}
        /\ ~(u \in LegacyUsers /\ i = 2)}
CommandKeys(u) ==
    {k \in Keys : processed[k] \in PointRow /\ processed[k].user = u}
Answers(row, e) ==
    /\ e.order = row.order
    /\ e.balanceAfter = row.balanceAfter
    /\ \/ row.op = "DEDUCT" /\ e.type = "BURN_DISCOUNT" /\ e.points = -row.amount
       \/ row.op = "REFUND" /\ e.type = "REFUND" /\ e.points = row.amount
KeysMatchLedger ==
    \A u \in Users :
        /\ Cardinality(CommandKeys(u)) = Cardinality(CommandEntries(u))
        /\ \A i \in CommandEntries(u) : \E k \in CommandKeys(u) :
             Answers(processed[k], accounts[u].ledger[i])
        /\ \A k \in CommandKeys(u) : \E i \in CommandEntries(u) :
             Answers(processed[k], accounts[u].ledger[i])

\* What is recorded is never rewritten: the ledger and the tier events only
\* grow at their end, a stored key keeps its first result (a matching retry
\* "returns the original committed balanceAfter", README), and a refund link,
\* once set, stays.
IsExtension(s, t) == Len(s) <= Len(t) /\ \A i \in 1..Len(s) : t[i] = s[i]
HistoryIsPermanent ==
    [][/\ \A u \in Users :
            /\ IsExtension(accounts[u].ledger, accounts'[u].ledger)
            /\ IsExtension(accounts[u].upgrades, accounts'[u].upgrades)
            /\ \A c \in accounts[u].checkout :
                 c.refund # 0 => c \in accounts'[u].checkout
       /\ \A k \in Keys : processed[k] # NoRow => processed'[k] = processed[k]
      ]_accountVars
=============================================================================
