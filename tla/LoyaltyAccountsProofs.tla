------------------------ MODULE LoyaltyAccountsProofs ------------------------
(***************************************************************************)
(* Proofs about LoyaltyAccounts, for every set of users, orders, keys and  *)
(* requests and every value of the rules' constants.                       *)
(***************************************************************************)
EXTENDS LoyaltyAccounts, FiniteSetTheorems, TLAPS

EntryTypes == Debits \cup Credits

\* Two accounts with the same rows in every part but the profile's counters.
SameRows(a, b) ==
    /\ b.ledger = a.ledger /\ b.balance = a.balance /\ b.checkout = a.checkout
    /\ b.grants = a.grants /\ b.upgrades = a.upgrades /\ b.tier = a.tier

\* Account b is account a with one more ledger row.
PostsRow(a, b, type, points, order) ==
    /\ b.balance = a.balance + points
    /\ Len(b.ledger) = Len(a.ledger) + 1
    /\ \A i \in 1..Len(a.ledger) : b.ledger[i] = a.ledger[i]
    /\ b.ledger[Len(a.ledger) + 1].type = type
    /\ b.ledger[Len(a.ledger) + 1].points = points
    /\ b.ledger[Len(a.ledger) + 1].balanceAfter = a.balance + points
    /\ b.ledger[Len(a.ledger) + 1].order = order
-----------------------------------------------------------------------------
\* The column updates the operations are made of, named so that the lemmas
\* about them can be cited.
SetMoney(a, n, s)      == [a EXCEPT !.balance = n, !.ledger = s]
SetEarning(a, l, y, d) ==
    [a EXCEPT !.lifetime = l, !.yearPoints = y, !.expiresAt = d]
SetTier(a, t, us)      == [a EXCEPT !.tier = t, !.upgrades = us]
SetCheckout(a, cs)     == [a EXCEPT !.checkout = cs]
SetGrants(a, gs)       == [a EXCEPT !.grants = gs]
Imported(a, n, l, d, s) ==
    [a EXCEPT !.exists = TRUE, !.balance = n, !.lifetime = l,
              !.expiresAt = d, !.ledger = s]
SetYear(a, n, m)       == [a EXCEPT !.yearPoints = n, !.yearVisits = m]

\* Account b counts points more for the lifetime and the year.
Counts(a, b, points) ==
    /\ b.lifetime = a.lifetime + points
    /\ b.yearPoints = a.yearPoints + points
-----------------------------------------------------------------------------
(***************************************************************************)
(* The shape of the changes the operations are built from.                 *)
(***************************************************************************)
\* A profile row that changes its balance and gets a new ledger.
LEMMA MoneyColumns ==
    ASSUME NEW a \in Account, NEW n \in Int, NEW s \in Seq(Entry)
    PROVE  LET b == SetMoney(a, n, s) IN
           /\ b \in Account
           /\ b.balance = n /\ b.ledger = s
           /\ b.lifetime = a.lifetime /\ b.yearPoints = a.yearPoints
           /\ b.yearVisits = a.yearVisits /\ b.tier = a.tier
           /\ b.exists = a.exists
           /\ b.checkout = a.checkout /\ b.grants = a.grants
           /\ b.upgrades = a.upgrades /\ b.intents = a.intents
  BY DEF Account, SetMoney

\* Posting adds one row at the end of the ledger, moves the balance by its
\* points and leaves every other part of the account alone.
LEMMA PostedShape ==
    ASSUME NEW a \in Account, NEW type \in EntryTypes, NEW points \in Int,
           NEW order \in Orders \cup {NoOrder}
    PROVE  LET b == Posted(a, type, points, order) IN
           /\ b \in Account
           /\ PostsRow(a, b, type, points, order)
           /\ b.lifetime = a.lifetime /\ b.yearPoints = a.yearPoints
           /\ b.yearVisits = a.yearVisits /\ b.tier = a.tier
           /\ b.exists = a.exists
           /\ b.checkout = a.checkout /\ b.grants = a.grants
           /\ b.upgrades = a.upgrades /\ b.intents = a.intents
<1> DEFINE n == a.balance + points
           e == [type |-> type, points |-> points, balanceAfter |-> n,
                 order |-> order]
           s == Append(a.ledger, e)
<1>1. n \in Int /\ a.ledger \in Seq(Entry)
  BY DEF Account
<1>2. e \in Entry
  BY <1>1 DEF Entry, EntryTypes
<1>3. /\ s \in Seq(Entry) /\ Len(s) = Len(a.ledger) + 1
      /\ \A i \in 1..Len(a.ledger) : s[i] = a.ledger[i]
      /\ s[Len(a.ledger) + 1] = e
  <2> HIDE DEF e
  <2>. QED BY <1>1, <1>2
<1>4. Posted(a, type, points, order) = SetMoney(a, n, s)
  BY DEF Posted, Account, SetMoney
<1>5. /\ e.type = type /\ e.points = points
      /\ e.balanceAfter = n /\ e.order = order
  OBVIOUS
<1> DEFINE b == Posted(a, type, points, order)
<1>6. /\ b \in Account
      /\ b.balance = n /\ b.ledger = s
      /\ b.lifetime = a.lifetime /\ b.yearPoints = a.yearPoints
      /\ b.yearVisits = a.yearVisits /\ b.tier = a.tier
      /\ b.exists = a.exists
      /\ b.checkout = a.checkout /\ b.grants = a.grants
      /\ b.upgrades = a.upgrades /\ b.intents = a.intents
  <2> HIDE DEF n, s
  <2>. QED BY <1>1, <1>3, <1>4, MoneyColumns
<1>7. PostsRow(a, b, type, points, order)
  <2>1. b.balance = a.balance + points
    BY <1>6
  <2>2. e.balanceAfter = a.balance + points
    BY <1>5
  <2> HIDE DEF e, s, b, n
  <2>. QED BY <1>3, <1>5, <1>6, <2>1, <2>2 DEF PostsRow
<1> HIDE DEF b
<1>. QED BY <1>6, <1>7 DEF b

\* A profile row that changes its counters and its expiry.
LEMMA EarningColumns ==
    ASSUME NEW a \in Account, NEW l \in Int, NEW y \in Int, NEW d \in Int
    PROVE  LET b == SetEarning(a, l, y, d) IN
           /\ b \in Account /\ SameRows(a, b)
               /\ b.lifetime = l /\ b.yearPoints = y
               /\ b.yearVisits = a.yearVisits /\ b.exists = a.exists
               /\ b.intents = a.intents
  BY DEF Account, SameRows, SetEarning

LEMMA EarnedShape ==
    ASSUME NEW a \in Account, NEW type \in EntryTypes, NEW points \in Int,
           NEW order \in Orders \cup {NoOrder}, NEW day \in Int
    PROVE  LET b == Earned(a, type, points, order, day) IN
           /\ b \in Account
           /\ PostsRow(a, b, type, points, order)
           /\ Counts(a, b, points)
           /\ b.yearVisits = a.yearVisits /\ b.tier = a.tier
           /\ b.checkout = a.checkout /\ b.grants = a.grants
           /\ b.upgrades = a.upgrades
<1> DEFINE p == Posted(a, type, points, order)
           l == a.lifetime + points
           y == a.yearPoints + points
<1>1. /\ p \in Account /\ PostsRow(a, p, type, points, order)
      /\ p.lifetime = a.lifetime /\ p.yearPoints = a.yearPoints
      /\ p.yearVisits = a.yearVisits /\ p.tier = a.tier
      /\ p.checkout = a.checkout /\ p.grants = a.grants
      /\ p.upgrades = a.upgrades
  BY PostedShape
<1>2. l \in Int /\ y \in Int /\ AddYear(day) \in Int
  BY RulesAssumption DEF Account, AddYear
<1>3. Earned(a, type, points, order, day) =
        SetEarning(p, l, y, AddYear(day))
  BY <1>1 DEF Earned, Account, SetEarning
<1> DEFINE b == Earned(a, type, points, order, day)
<1>4. /\ b \in Account /\ SameRows(p, b)
      /\ b.lifetime = l /\ b.yearPoints = y
      /\ b.yearVisits = p.yearVisits /\ b.exists = p.exists
  <2> HIDE DEF p, l, y
  <2>. QED BY <1>1, <1>2, <1>3, EarningColumns
<1> HIDE DEF p, b
<1>5. PostsRow(a, b, type, points, order)
  BY <1>1, <1>4 DEF SameRows, PostsRow
<1>6. Counts(a, b, points)
  BY <1>4 DEF Counts
<1>. QED BY <1>1, <1>4, <1>5, <1>6 DEF SameRows, b

\* Changing the tier touches the tier and its events only.
LEMMA AtTierShape ==
    ASSUME NEW a \in Account, NEW t \in Tier, AccountAnnounced(a), t >= a.tier
    PROVE  LET b == AtTier(a, t) IN
           /\ b \in Account /\ AccountAnnounced(b)
           /\ b.balance = a.balance /\ b.ledger = a.ledger
           /\ b.lifetime = a.lifetime /\ b.yearPoints = a.yearPoints
           /\ b.yearVisits = a.yearVisits
           /\ b.checkout = a.checkout /\ b.grants = a.grants
<1> DEFINE e  == [from |-> a.tier, to |-> t]
           us == Append(a.upgrades, e)
           b  == SetTier(a, t, us)
<1>1. CASE t = a.tier
  BY <1>1 DEF AtTier
<1>2. CASE t # a.tier
  <2>1. AtTier(a, t) = b
    BY <1>2 DEF AtTier, SetTier, Account
  <2>2. a.upgrades \in Seq(TierUpgrade) /\ a.tier \in Tier
    BY DEF Account
  <2>3. e \in TierUpgrade /\ e.from = a.tier /\ e.to = t
    BY <2>2 DEF TierUpgrade
  <2>4. /\ us \in Seq(TierUpgrade) /\ Len(us) = Len(a.upgrades) + 1
        /\ \A i \in 1..Len(a.upgrades) : us[i] = a.upgrades[i]
        /\ us[Len(a.upgrades) + 1] = e
    <3> HIDE DEF e
    <3>. QED BY <2>2, <2>3
  <2>5. /\ b \in Account /\ b.tier = t /\ b.upgrades = us
        /\ b.balance = a.balance /\ b.ledger = a.ledger
        /\ b.lifetime = a.lifetime /\ b.yearPoints = a.yearPoints
        /\ b.yearVisits = a.yearVisits
        /\ b.checkout = a.checkout /\ b.grants = a.grants
    <3> HIDE DEF us
    <3>. QED BY <2>4 DEF SetTier, Account
  <2>6. AccountAnnounced(b)
    <3> HIDE DEF us, e, b
    <3>1. TierAfter(a, Len(a.upgrades)) = a.tier
      BY DEF AccountAnnounced
    <3>2. Len(a.upgrades) \in Nat
      BY <2>2
    <3>3. \A i \in 0..Len(a.upgrades) : TierAfter(b, i) = TierAfter(a, i)
      BY <2>4, <2>5, <3>2 DEF TierAfter
    <3>4. t > a.tier
      BY <1>2, <2>2 DEF Tier, Bronze, Silver, Gold
    <3>5. TierAfter(b, Len(us)) = t
      BY <2>3, <2>4, <2>5, <3>2 DEF TierAfter
    <3>6. ASSUME NEW i \in 1..Len(us)
          PROVE  /\ us[i].from = TierAfter(b, i - 1)
                 /\ us[i].to > us[i].from
      <4>1. CASE i \in 1..Len(a.upgrades)
        <5>1. us[i] = a.upgrades[i] /\ TierAfter(b, i - 1) = TierAfter(a, i - 1)
          BY <2>4, <3>2, <3>3, <4>1
        <5>2. /\ a.upgrades[i].from = TierAfter(a, i - 1)
              /\ a.upgrades[i].to > a.upgrades[i].from
          BY <4>1 DEF AccountAnnounced
        <5>. QED BY <5>1, <5>2
      <4>2. CASE i = Len(a.upgrades) + 1
        BY <2>3, <2>4, <3>1, <3>2, <3>3, <3>4, <4>2
      <4>. QED BY <2>4, <3>2, <4>1, <4>2
    <3>. QED BY <2>5, <3>5, <3>6 DEF AccountAnnounced
  <2> HIDE DEF b
  <2>. QED BY <2>1, <2>5, <2>6
<1>. QED BY <1>1, <1>2
-----------------------------------------------------------------------------
(***************************************************************************)
(* What a new ledger row does to the promises about an account.            *)
(***************************************************************************)
\* Checkout rows point at rows of the ledger: a debit at a discount, a refund
\* at a refund.
CheckoutWired(a) ==
    \A c \in a.checkout :
        /\ c.debit \in 1..Len(a.ledger)
        /\ a.ledger[c.debit].type = "BURN_DISCOUNT"
        /\ c.refund # 0 => /\ c.refund \in 1..Len(a.ledger)
                          /\ a.ledger[c.refund].type = "REFUND"

LEMMA PostKeepsBalance ==
    ASSUME NEW a \in Account, NEW b \in Account, NEW type, NEW points \in Int,
           NEW order, AccountBalanced(a), PostsRow(a, b, type, points, order)
    PROVE  AccountBalanced(b)
<1>1. Len(a.ledger) \in Nat /\ a.balance \in Int
  BY DEF Account
<1>2. ASSUME NEW i \in 1..Len(a.ledger) + 1
      PROVE  BalanceBefore(b, i) = BalanceBefore(a, i)
  <2>1. CASE i = 1
    BY <2>1 DEF BalanceBefore
  <2>2. CASE i # 1
    <3>1. i - 1 \in 1..Len(a.ledger)
      BY <1>1, <2>2
    <3>2. b.ledger[i - 1] = a.ledger[i - 1]
      BY <3>1 DEF PostsRow
    <3>. QED BY <2>2, <3>2 DEF BalanceBefore
  <2>. QED BY <2>1, <2>2
<1>3. BalanceBefore(b, Len(b.ledger) + 1) = b.balance
  BY <1>1 DEF BalanceBefore, PostsRow
<1>4. ASSUME NEW i \in 1..Len(b.ledger)
      PROVE  b.ledger[i].balanceAfter = BalanceBefore(b, i) + b.ledger[i].points
  <2>1. CASE i \in 1..Len(a.ledger)
    BY <1>1, <1>2, <2>1 DEF AccountBalanced, PostsRow
  <2>2. CASE i = Len(a.ledger) + 1
    BY <1>1, <1>2, <2>2 DEF AccountBalanced, PostsRow
  <2>. QED BY <1>1, <2>1, <2>2 DEF PostsRow
<1>. QED BY <1>3, <1>4 DEF AccountBalanced

LEMMA PostKeepsCompensation ==
    ASSUME NEW a \in Account, NEW b \in Account, NEW type, NEW points, NEW order,
           AccountCompensated(a), CheckoutWired(a),
           PostsRow(a, b, type, points, order),
           type # "REFUND", b.checkout = a.checkout
    PROVE  AccountCompensated(b) /\ CheckoutWired(b)
<1>1. /\ Len(a.ledger) \in Nat
      /\ DOMAIN a.ledger = 1..Len(a.ledger)
      /\ DOMAIN b.ledger = 1..Len(a.ledger) + 1
  BY DEF Account, PostsRow
<1>2. CheckoutWired(b)
  <2>1. \A m \in 1..Len(a.ledger) : m \in 1..Len(b.ledger) /\ b.ledger[m] = a.ledger[m]
    BY <1>1 DEF PostsRow
  <2>2. ASSUME NEW c \in a.checkout
        PROVE  /\ c.debit \in 1..Len(a.ledger)
               /\ a.ledger[c.debit].type = "BURN_DISCOUNT"
               /\ c.refund # 0 => /\ c.refund \in 1..Len(a.ledger)
                                 /\ a.ledger[c.refund].type = "REFUND"
    BY DEF CheckoutWired
  <2>. QED BY <2>1, <2>2 DEF CheckoutWired
<1>3. \A i \in DOMAIN b.ledger : b.ledger[i].type = "REFUND" =>
         i \in DOMAIN a.ledger /\ a.ledger[i] = b.ledger[i]
  BY <1>1 DEF PostsRow
<1>4. ASSUME NEW i \in DOMAIN b.ledger, b.ledger[i].type = "REFUND"
      PROVE  \E c \in b.checkout :
               /\ c.refund = i
               /\ c.debit \in 1..i - 1
               /\ b.ledger[c.debit].type = "BURN_DISCOUNT"
               /\ b.ledger[c.debit].order = b.ledger[i].order
               /\ b.ledger[c.debit].points = -b.ledger[i].points
  <2>1. i \in 1..Len(a.ledger) /\ a.ledger[i] = b.ledger[i]
    BY <1>1, <1>3, <1>4
  <2>2. PICK c \in a.checkout :
           /\ c.refund = i
           /\ c.debit \in 1..i - 1
           /\ a.ledger[c.debit].type = "BURN_DISCOUNT"
           /\ a.ledger[c.debit].order = a.ledger[i].order
           /\ a.ledger[c.debit].points = -a.ledger[i].points
    BY <1>1, <1>4, <2>1 DEF AccountCompensated
  <2>3. b.ledger[c.debit] = a.ledger[c.debit]
    <3>1. c.debit \in 1..Len(a.ledger)
      BY <1>1, <2>1, <2>2
    <3>2. \A n \in 1..Len(a.ledger) : b.ledger[n] = a.ledger[n]
      BY DEF PostsRow
    <3>. QED BY <3>1, <3>2
  <2>4. c \in b.checkout
    BY <2>2
  <2>5. /\ c.refund = i
        /\ c.debit \in 1..i - 1
        /\ b.ledger[c.debit].type = "BURN_DISCOUNT"
        /\ b.ledger[c.debit].order = b.ledger[i].order
        /\ b.ledger[c.debit].points = -b.ledger[i].points
    BY <2>1, <2>2, <2>3
  <2>. QED BY <2>4, <2>5
<1>5. \A i, j \in DOMAIN b.ledger :
         /\ b.ledger[i].type = "REFUND" /\ b.ledger[j].type = "REFUND"
         /\ b.ledger[i].order = b.ledger[j].order
         => i = j
  BY <1>3 DEF AccountCompensated
<1>6. \A c, d \in b.checkout :
         (c.debit = d.debit \/ (c.refund = d.refund /\ c.refund # 0)) => c = d
  BY DEF AccountCompensated
<1>. QED BY <1>2, <1>4, <1>5, <1>6 DEF AccountCompensated

LEMMA PostKeepsGrants ==
    ASSUME NEW a \in Account, NEW b \in Account, NEW type, NEW points, NEW order,
           AccountGrantedOnce(a), PostsRow(a, b, type, points, order),
           type # "EARN_BIRTHDAY", b.grants = a.grants
    PROVE  AccountGrantedOnce(b)
<1>1. /\ Len(a.ledger) \in Nat
      /\ DOMAIN a.ledger = 1..Len(a.ledger)
      /\ DOMAIN b.ledger = 1..Len(a.ledger) + 1
  BY DEF Account, PostsRow
<1>2. \A g \in b.grants : g.entry \in 1..Len(a.ledger)
  BY <1>1 DEF AccountGrantedOnce
<1>3. ASSUME NEW i \in DOMAIN b.ledger
      PROVE  b.ledger[i].type = "EARN_BIRTHDAY" <=> \E g \in b.grants : g.entry = i
  <2>1. CASE i \in 1..Len(a.ledger)
    BY <1>1, <2>1 DEF AccountGrantedOnce, PostsRow
  <2>2. CASE i = Len(a.ledger) + 1
    BY <1>1, <1>2, <2>2 DEF PostsRow
  <2>. QED BY <1>1, <2>1, <2>2
<1>4. \A g \in b.grants : g.entry \in DOMAIN b.ledger
  BY <1>1, <1>2
<1>5. \A g, h \in b.grants : (g.year = h.year \/ g.entry = h.entry) => g = h
  BY DEF AccountGrantedOnce
<1>. QED BY <1>3, <1>4, <1>5 DEF AccountGrantedOnce
-----------------------------------------------------------------------------
(***************************************************************************)
(* The inductive invariant of one account, and each operation's proof that *)
(* it keeps it.                                                            *)
(***************************************************************************)
\* What the ledger, the checkout rows and the grants say together.
Books(a) ==
    /\ AccountBalanced(a) /\ AccountCompensated(a)
    /\ CheckoutWired(a) /\ AccountGrantedOnce(a)

AccountInv(a) ==
    /\ a \in Account
    /\ Books(a) /\ AccountSolvent(a) /\ AccountAnnounced(a)

\* The books are a matter of the ledger, the balance, the checkout rows and
\* the grants alone; the announcements, of the tier and its events.
LEMMA SameBooks ==
    ASSUME NEW a, NEW b, Books(a), b.ledger = a.ledger, b.balance = a.balance,
           b.checkout = a.checkout, b.grants = a.grants
    PROVE  Books(b)
  BY DEF Books, AccountBalanced, BalanceBefore, AccountCompensated,
         CheckoutWired, AccountGrantedOnce

LEMMA SameAnnouncements ==
    ASSUME NEW a, NEW b, AccountAnnounced(a),
           b.upgrades = a.upgrades, b.tier = a.tier
    PROVE  AccountAnnounced(b)
  BY DEF AccountAnnounced, TierAfter

\* A row that is neither a refund nor a birthday bonus.
LEMMA PlainPost ==
    ASSUME NEW a \in Account, NEW b \in Account, Books(a),
           NEW type, NEW points \in Int, NEW order,
           PostsRow(a, b, type, points, order),
           type \notin {"REFUND", "EARN_BIRTHDAY"},
           b.checkout = a.checkout, b.grants = a.grants
    PROVE  Books(b)
  BY PostKeepsBalance, PostKeepsCompensation, PostKeepsGrants DEF Books

LEMMA NewTierRises ==
    ASSUME NEW t \in Tier, NEW visits, NEW points
    PROVE  /\ ResolveNewTier(t, visits, points) \in Tier
           /\ ResolveNewTier(t, visits, points) >= t
<1>1. TierByMetrics(visits, points) \in Tier
  BY DEF TierByMetrics, Tier
<1>. QED BY <1>1 DEF ResolveNewTier, Tier, Bronze, Silver, Gold

LEMMA PromotedShape ==
    ASSUME NEW a \in Account, AccountAnnounced(a)
    PROVE  LET b == Promoted(a) IN
           /\ b \in Account /\ AccountAnnounced(b)
           /\ b.balance = a.balance /\ b.ledger = a.ledger
           /\ b.lifetime = a.lifetime /\ b.yearPoints = a.yearPoints
           /\ b.yearVisits = a.yearVisits
           /\ b.checkout = a.checkout /\ b.grants = a.grants
<1>1. a.tier \in Tier
  BY DEF Account
<1> DEFINE t == ResolveNewTier(a.tier, a.yearVisits, a.yearPoints)
<1>2. t \in Tier /\ t >= a.tier
  BY <1>1, NewTierRises
<1> HIDE DEF t
<1>3. Promoted(a) = AtTier(a, t)
  BY DEF Promoted, t
<1>. QED BY <1>2, <1>3, AtTierShape

LEMMA PromotedInv ==
    ASSUME NEW a, AccountInv(a)
    PROVE  AccountInv(Promoted(a))
<1>1. a \in Account /\ AccountAnnounced(a) /\ Books(a) /\ AccountSolvent(a)
  BY DEF AccountInv
<1>. QED BY <1>1, PromotedShape, SameBooks DEF AccountInv, AccountSolvent

LEMMA OpenedInv ==
    ASSUME NEW a, AccountInv(a)
    PROVE  /\ AccountInv(Opened(a))
           /\ Opened(a).balance = a.balance /\ Opened(a).tier = a.tier
           /\ Opened(a).lifetime = a.lifetime
           /\ Opened(a).yearPoints = a.yearPoints
           /\ Opened(a).yearVisits = a.yearVisits
           /\ Opened(a).grants = a.grants /\ Opened(a).exists
<1> DEFINE b == Opened(a)
<1>1. a \in Account
  BY DEF AccountInv
<1>2. /\ b \in Account /\ SameRows(a, b) /\ b.exists
      /\ b.lifetime = a.lifetime /\ b.yearPoints = a.yearPoints
      /\ b.yearVisits = a.yearVisits
  BY <1>1 DEF Account, Opened, SameRows
<1> HIDE DEF b
<1>3. Books(b) /\ AccountAnnounced(b)
  BY <1>2, SameBooks, SameAnnouncements DEF AccountInv, SameRows
<1>4. AccountSolvent(b)
  BY <1>2 DEF AccountInv, AccountSolvent, SameRows
<1>. QED BY <1>2, <1>3, <1>4 DEF AccountInv, SameRows, b

\* Posting a plain row keeps the invariant when the balance stays in range.
LEMMA PostedInv ==
    ASSUME NEW a, AccountInv(a), NEW type \in EntryTypes \ {"REFUND", "EARN_BIRTHDAY"},
           NEW points \in Int, NEW order \in Orders \cup {NoOrder},
           a.balance + points \in 0..MaxInt
    PROVE  AccountInv(Posted(a, type, points, order))
<1> DEFINE b == Posted(a, type, points, order)
<1>1. a \in Account /\ Books(a) /\ AccountSolvent(a) /\ AccountAnnounced(a)
  BY DEF AccountInv
<1>2. /\ b \in Account /\ PostsRow(a, b, type, points, order)
      /\ b.lifetime = a.lifetime /\ b.yearPoints = a.yearPoints
      /\ b.yearVisits = a.yearVisits /\ b.tier = a.tier
      /\ b.checkout = a.checkout /\ b.grants = a.grants
      /\ b.upgrades = a.upgrades
  BY <1>1, PostedShape
<1> HIDE DEF b
<1>3. Books(b)
  BY <1>1, <1>2, PlainPost
<1>4. AccountSolvent(b)
  BY <1>1, <1>2 DEF AccountSolvent, PostsRow
<1>. QED BY <1>1, <1>2, <1>3, <1>4, SameAnnouncements DEF AccountInv, b

\* The counters of an earning that fits its columns.
LEMMA EarnedInv ==
    ASSUME NEW a, AccountInv(a), NEW type \in EntryTypes \ {"REFUND", "EARN_BIRTHDAY"},
           NEW points \in Int, points >= 0, NEW order \in Orders \cup {NoOrder}, NEW day \in Int,
           EarningFits(a, points)
    PROVE  AccountInv(Earned(a, type, points, order, day))
<1> DEFINE b == Earned(a, type, points, order, day)
<1>1. a \in Account /\ Books(a) /\ AccountSolvent(a) /\ AccountAnnounced(a)
  BY DEF AccountInv
<1>2. /\ b \in Account /\ PostsRow(a, b, type, points, order)
      /\ Counts(a, b, points)
      /\ b.yearVisits = a.yearVisits /\ b.tier = a.tier
      /\ b.checkout = a.checkout /\ b.grants = a.grants
      /\ b.upgrades = a.upgrades
  BY <1>1, EarnedShape
<1> HIDE DEF b
<1>3. Books(b)
  BY <1>1, <1>2, PlainPost
<1>4. AccountSolvent(b)
  <2>1. /\ a.balance \in 0..MaxInt /\ a.lifetime \in 0..MaxInt
        /\ a.yearPoints \in 0..MaxInt /\ a.yearVisits \in 0..MaxInt
    BY <1>1 DEF AccountSolvent
  <2>2. /\ a.balance + points \in 0..MaxInt
        /\ a.lifetime + points \in 0..MaxInt
        /\ a.yearPoints + points \in 0..MaxInt
    BY <2>1, RulesAssumption DEF Fits, EarningFits
  <2>3. b.balance = a.balance + points
    BY <1>2 DEF PostsRow
  <2>. QED BY <1>2, <2>1, <2>2, <2>3 DEF AccountSolvent, Counts
<1>. QED BY <1>1, <1>2, <1>3, <1>4, SameAnnouncements DEF AccountInv, b

\* A deduction registers its row as a debit that may be refunded.
LEMMA DeductedInv ==
    ASSUME NEW a, NEW r \in PointRequest, AccountInv(a), CanDeduct(a, r)
    PROVE  AccountInv(Deducted(a, r))
<1> DEFINE p  == Posted(a, "BURN_DISCOUNT", -r.amount, r.order)
           d  == [debit |-> Len(a.ledger) + 1, refund |-> 0]
           cs == p.checkout \cup {d}
           b  == SetCheckout(p, cs)
<1>1. a \in Account /\ Books(a) /\ AccountSolvent(a) /\ AccountAnnounced(a)
  BY DEF AccountInv
<1>2. /\ -r.amount \in Int /\ r.amount \in 1..MaxInt
      /\ r.order \in Orders \cup {NoOrder}
  BY DEF PointRequest
<1>3. "BURN_DISCOUNT" \in EntryTypes \ {"REFUND", "EARN_BIRTHDAY"}
  BY DEF EntryTypes, Debits
<1>4. a.balance + (-r.amount) \in 0..MaxInt
  BY <1>1, <1>2, RulesAssumption DEF AccountSolvent, CanDeduct
<1>5. AccountInv(p)
  <2> HIDE DEF p
  <2>. QED BY <1>2, <1>3, <1>4, PostedInv DEF p
<1>6. p \in Account /\ PostsRow(a, p, "BURN_DISCOUNT", -r.amount, r.order)
      /\ p.checkout = a.checkout
  BY <1>1, <1>2, <1>3, PostedShape
<1>7. Len(a.ledger) \in Nat /\ Len(p.ledger) = Len(a.ledger) + 1
      /\ p.ledger[Len(a.ledger) + 1].type = "BURN_DISCOUNT"
  BY <1>1, <1>6 DEF Account, PostsRow
<1>8. d \in CheckoutDebit /\ d.debit = Len(a.ledger) + 1 /\ d.refund = 0
  BY <1>7 DEF CheckoutDebit
<1> HIDE DEF p, d
<1>9. cs \in SUBSET CheckoutDebit
  BY <1>6, <1>8 DEF Account
<1>10. /\ b \in Account /\ b.checkout = cs
       /\ b.balance = p.balance /\ b.ledger = p.ledger
       /\ b.lifetime = p.lifetime /\ b.yearPoints = p.yearPoints
       /\ b.yearVisits = p.yearVisits /\ b.grants = p.grants
       /\ b.tier = p.tier /\ b.upgrades = p.upgrades
  <2> HIDE DEF cs
  <2>. QED BY <1>6, <1>9 DEF SetCheckout, Account
<1> HIDE DEF b
<1>11. Deducted(a, r) = b
  BY <1>6 DEF Deducted, SetCheckout, p, d, b, Account
<1>12. CheckoutWired(b)
  BY <1>5, <1>7, <1>8, <1>10 DEF AccountInv, Books, CheckoutWired
<1>13. \A c \in a.checkout : c.debit \in 1..Len(a.ledger)
  BY <1>1 DEF Books, CheckoutWired
<1>14. AccountCompensated(b)
  <2>1. AccountCompensated(p)
    BY <1>5 DEF AccountInv, Books
  <2>2. \A c1, c2 \in cs :
          (c1.debit = c2.debit \/ (c1.refund = c2.refund /\ c1.refund # 0)) => c1 = c2
    BY <2>1, <1>6, <1>7, <1>8, <1>13 DEF AccountCompensated
  <2>3. p.checkout \subseteq cs
    OBVIOUS
  <2> HIDE DEF cs
  <2>. QED BY <2>1, <2>2, <2>3, <1>10 DEF AccountCompensated
<1>15. AccountBalanced(b) /\ AccountGrantedOnce(b)
  BY <1>5, <1>10 DEF AccountInv, Books, AccountBalanced, BalanceBefore,
                     AccountGrantedOnce
<1>16. AccountSolvent(b) /\ AccountAnnounced(b)
  BY <1>5, <1>10, SameAnnouncements DEF AccountInv, AccountSolvent
<1>. QED BY <1>10, <1>11, <1>12, <1>14, <1>15, <1>16 DEF AccountInv, Books

\* A refund links its row to the one open debit of the order.
LEMMA RefundedInv ==
    ASSUME NEW a, NEW r \in PointRequest, AccountInv(a), CanRefund(a, r)
    PROVE  AccountInv(Refunded(a, r))
<1> DEFINE p == Posted(a, "REFUND", r.amount, r.order)
           n == Len(a.ledger) + 1
           burns == EntriesOf(a, "BURN_DISCOUNT", r.order)
           linked(c) == IF c.debit \in burns THEN [c EXCEPT !.refund = n] ELSE c
           cs == {linked(c) : c \in a.checkout}
           b  == SetCheckout(p, cs)
<1>1. a \in Account /\ Books(a) /\ AccountSolvent(a) /\ AccountAnnounced(a)
  BY DEF AccountInv
<1>2. r.amount \in 1..MaxInt /\ r.amount \in Int /\ r.order \in Orders \cup {NoOrder}
  BY DEF PointRequest
<1>3. "REFUND" \in EntryTypes
  BY DEF EntryTypes, Credits
<1>4. PICK d \in burns :
        /\ burns = {d}
        /\ EntriesOf(a, "REFUND", r.order) = {}
        /\ [debit |-> d, refund |-> 0] \in a.checkout
        /\ r.amount = -a.ledger[d].points
  BY DEF CanRefund
<1>5. /\ p \in Account /\ PostsRow(a, p, "REFUND", r.amount, r.order)
      /\ p.lifetime = a.lifetime /\ p.yearPoints = a.yearPoints
      /\ p.yearVisits = a.yearVisits /\ p.tier = a.tier
      /\ p.checkout = a.checkout /\ p.grants = a.grants
      /\ p.upgrades = a.upgrades
  BY <1>1, <1>2, <1>3, PostedShape
<1>6. /\ Len(a.ledger) \in Nat /\ DOMAIN a.ledger = 1..Len(a.ledger)
      /\ Len(p.ledger) = n /\ DOMAIN p.ledger = 1..n
      /\ \A i \in 1..Len(a.ledger) : p.ledger[i] = a.ledger[i]
      /\ p.ledger[n].type = "REFUND" /\ p.ledger[n].points = r.amount
      /\ p.ledger[n].order = r.order
  <2> HIDE DEF p
  <2>1. Len(a.ledger) \in Nat /\ DOMAIN a.ledger = 1..Len(a.ledger)
    BY <1>1 DEF Account
  <2>2. Len(p.ledger) = n /\ DOMAIN p.ledger = 1..Len(p.ledger)
    BY <1>5 DEF Account, PostsRow
  <2>. QED BY <1>5, <2>1, <2>2 DEF PostsRow
<1>7. /\ d \in 1..Len(a.ledger) /\ a.ledger[d].type = "BURN_DISCOUNT"
      /\ a.ledger[d].order = r.order /\ p.ledger[d] = a.ledger[d]
  BY <1>4, <1>6 DEF EntriesOf
<1>8. AccountSolvent(p)
  <2>1. a.balance \in 0..MaxInt /\ a.balance + r.amount \in 0..MaxInt
    BY <1>1, <1>2, RulesAssumption DEF AccountSolvent, CanRefund, Fits
  <2>2. p.balance = a.balance + r.amount
    BY <1>5 DEF PostsRow
  <2> HIDE DEF p
  <2>. QED BY <1>1, <1>5, <2>1, <2>2 DEF AccountSolvent
<1>9. AccountBalanced(p)
  <2> HIDE DEF p
  <2>. QED BY <1>1, <1>2, <1>5, PostKeepsBalance DEF Books
<1>10. AccountGrantedOnce(p)
  <2> HIDE DEF p
  <2>. QED BY <1>1, <1>5, PostKeepsGrants DEF Books
<1>11. ASSUME NEW c \in a.checkout
       PROVE  /\ linked(c) \in CheckoutDebit
              /\ linked(c).debit = c.debit
              /\ c.debit = d => linked(c).refund = n
              /\ c.debit # d => linked(c) = c
  <2>1. c \in CheckoutDebit
    BY <1>1 DEF Account
  <2>2. n \in Nat
    BY <1>6
  <2>3. c.debit \in burns <=> c.debit = d
    BY <1>4
  <2> HIDE DEF n, burns
  <2>. QED BY <2>1, <2>2, <2>3 DEF CheckoutDebit
<1>12. cs \in SUBSET CheckoutDebit
  BY <1>11
<1>13. /\ b \in Account /\ b.checkout = cs
       /\ b.balance = p.balance /\ b.ledger = p.ledger
       /\ b.lifetime = p.lifetime /\ b.yearPoints = p.yearPoints
       /\ b.yearVisits = p.yearVisits /\ b.grants = p.grants
       /\ b.tier = p.tier /\ b.upgrades = p.upgrades
  <2> HIDE DEF cs, p
  <2>. QED BY <1>5, <1>12 DEF SetCheckout, Account
<1>14. Refunded(a, r) = b
  BY <1>5 DEF Refunded, SetCheckout, Account
<1>21. /\ n \in 1..n /\ n # 0 /\ n \notin 1..Len(a.ledger)
       /\ \A m \in 1..Len(a.ledger) : m \in 1..n
       /\ \A m \in 1..n : m = n \/ m \in 1..Len(a.ledger)
       /\ d \in 1..n - 1
  BY <1>6, <1>7
<1> HIDE DEF p, b, linked, cs, burns, n
<1>15. ASSUME NEW x \in cs
       PROVE  \E c \in a.checkout : x = linked(c)
  BY DEF cs
<1>16. \A c \in a.checkout :
         /\ c.debit \in 1..Len(a.ledger)
         /\ a.ledger[c.debit].type = "BURN_DISCOUNT"
         /\ c.refund # 0 => /\ c.refund \in 1..Len(a.ledger)
                           /\ a.ledger[c.refund].type = "REFUND"
  BY <1>1 DEF Books, CheckoutWired
<1>17. CheckoutWired(b)
  <2>1. ASSUME NEW x \in cs
        PROVE  /\ x.debit \in 1..n
               /\ p.ledger[x.debit].type = "BURN_DISCOUNT"
               /\ x.refund # 0 => /\ x.refund \in 1..n
                                 /\ p.ledger[x.refund].type = "REFUND"
    <3>1. PICK c \in a.checkout : x = linked(c)
      BY <1>15
    <3>2. CASE c.debit = d
      BY <1>6, <1>7, <1>11, <1>21, <3>1, <3>2
    <3>3. CASE c.debit # d
      <4>1. /\ x = c /\ c.debit \in 1..Len(a.ledger)
            /\ p.ledger[c.debit] = a.ledger[c.debit]
        BY <1>6, <1>11, <1>16, <3>1, <3>3
      <4>2. c.refund # 0 => /\ c.refund \in 1..Len(a.ledger)
                            /\ p.ledger[c.refund] = a.ledger[c.refund]
        BY <1>6, <1>16
      <4>. QED BY <1>16, <1>21, <4>1, <4>2
    <3>. QED BY <3>2, <3>3
  <2>. QED BY <1>6, <1>13, <2>1 DEF CheckoutWired
<1>18. AccountCompensated(b)
  <2>1. \A c1, c2 \in a.checkout :
          (c1.debit = c2.debit \/ (c1.refund = c2.refund /\ c1.refund # 0)) => c1 = c2
    BY <1>1 DEF Books, AccountCompensated
  <2>2. ASSUME NEW i \in 1..n, p.ledger[i].type = "REFUND"
        PROVE  \E x \in cs : /\ x.refund = i
                             /\ x.debit \in 1..i - 1
                             /\ p.ledger[x.debit].type = "BURN_DISCOUNT"
                             /\ p.ledger[x.debit].order = p.ledger[i].order
                             /\ p.ledger[x.debit].points = -p.ledger[i].points
    <3>1. CASE i = n
      <4> DEFINE x == linked([debit |-> d, refund |-> 0])
      <4>1. x \in cs /\ x.refund = n /\ x.debit = d
        BY <1>4, <1>11 DEF cs
      <4>2. d \in 1..n - 1 /\ p.ledger[d].points = -p.ledger[n].points
        <5>1. a.ledger[d] \in Entry
          BY <1>1, <1>7 DEF Account
        <5>2. a.ledger[d].points \in Int
          BY <5>1 DEF Entry
        <5>. QED BY <1>4, <1>6, <1>7, <1>21, <5>2
      <4> HIDE DEF x
      <4>. QED BY <1>6, <1>7, <3>1, <4>1, <4>2
    <3>2. CASE i # n
      <4>1. i \in 1..Len(a.ledger) /\ p.ledger[i] = a.ledger[i]
        BY <1>6, <1>21, <3>2
      <4>2. PICK c \in a.checkout :
              /\ c.refund = i
              /\ c.debit \in 1..i - 1
              /\ a.ledger[c.debit].type = "BURN_DISCOUNT"
              /\ a.ledger[c.debit].order = a.ledger[i].order
              /\ a.ledger[c.debit].points = -a.ledger[i].points
        <5>1. i \in DOMAIN a.ledger /\ a.ledger[i].type = "REFUND"
          BY <1>6, <2>2, <4>1
        <5>2. AccountCompensated(a)
          BY <1>1 DEF Books
        <5>. QED BY <5>1, <5>2 DEF AccountCompensated
      <4>3. c.debit # d
        <5>1. c # [debit |-> d, refund |-> 0]
          BY <4>1, <4>2
        <5>. QED BY <1>4, <2>1, <5>1
      <4>4. c \in cs
        BY <1>11, <4>3 DEF cs
      <4>5. p.ledger[c.debit] = a.ledger[c.debit]
        BY <1>6, <1>16
      <4>. QED BY <4>1, <4>2, <4>4, <4>5
    <3>. QED BY <3>1, <3>2
  <2>3. ASSUME NEW x \in cs, NEW y \in cs,
               x.debit = y.debit \/ (x.refund = y.refund /\ x.refund # 0)
        PROVE  x = y
    <3>1. PICK c1 \in a.checkout : x = linked(c1)
      BY <1>15
    <3>2. PICK c2 \in a.checkout : y = linked(c2)
      BY <1>15
    <3>3. c1.debit = c2.debit \/ (c1.refund = c2.refund /\ c1.refund # 0)
      BY <1>6, <1>11, <1>16, <1>21, <2>3, <3>1, <3>2
    <3>. QED BY <2>1, <3>1, <3>2, <3>3
  <2>4. ASSUME NEW i \in 1..n, NEW j \in 1..n,
               p.ledger[i].type = "REFUND", p.ledger[j].type = "REFUND",
               p.ledger[i].order = p.ledger[j].order
        PROVE  i = j
    <3>1. \A m \in 1..Len(a.ledger) :
            ~(a.ledger[m].type = "REFUND" /\ a.ledger[m].order = r.order)
      BY <1>4, <1>6 DEF EntriesOf
    <3>2. CASE i = n \/ j = n
      BY <1>6, <1>21, <2>4, <3>1, <3>2
    <3>3. CASE i # n /\ j # n
      <4>1. /\ i \in 1..Len(a.ledger) /\ a.ledger[i] = p.ledger[i]
            /\ j \in 1..Len(a.ledger) /\ a.ledger[j] = p.ledger[j]
        BY <1>6, <1>21, <3>3
      <4>2. \A k, m \in 1..Len(a.ledger) :
              /\ a.ledger[k].type = "REFUND" /\ a.ledger[m].type = "REFUND"
              /\ a.ledger[k].order = a.ledger[m].order
              => k = m
        BY <1>1, <1>6 DEF Books, AccountCompensated
      <4>. QED BY <2>4, <4>1, <4>2
    <3>. QED BY <3>2, <3>3
  <2>5. b.ledger = p.ledger /\ DOMAIN p.ledger = 1..n /\ b.checkout = cs
    BY <1>6, <1>13
  <2>. QED BY <2>2, <2>3, <2>4, <2>5 DEF AccountCompensated
<1>19. AccountBalanced(b) /\ AccountGrantedOnce(b)
  BY <1>9, <1>10, <1>13 DEF AccountBalanced, BalanceBefore, AccountGrantedOnce
<1>20. AccountSolvent(b) /\ AccountAnnounced(b)
  BY <1>1, <1>5, <1>8, <1>13, SameAnnouncements DEF AccountSolvent
<1>. QED BY <1>13, <1>14, <1>17, <1>18, <1>19, <1>20 DEF AccountInv, Books

\* The birthday bonus: one row, one grant, for a year that had none.
LEMMA WithBonusInv ==
    ASSUME NEW a, NEW day \in Int, AccountInv(a), BonusDue(a, day), CanGrant(a)
    PROVE  AccountInv(WithBonus(a, day))
<1> DEFINE e == Earned(a, "EARN_BIRTHDAY", BirthdayBonus, NoOrder, day)
           q == Promoted(e)
           n == Len(a.ledger) + 1
           g == [year |-> YearOf(day), entry |-> n]
           gs == q.grants \cup {g}
           b == SetGrants(q, gs)
<1>1. a \in Account /\ Books(a) /\ AccountSolvent(a) /\ AccountAnnounced(a)
  BY DEF AccountInv
<1>2. BirthdayBonus \in Int /\ BirthdayBonus >= 0 /\ NoOrder \in Orders \cup {NoOrder}
  BY RulesAssumption
<1>3. "EARN_BIRTHDAY" \in EntryTypes
  BY DEF EntryTypes, Credits
<1>4. /\ e \in Account /\ PostsRow(a, e, "EARN_BIRTHDAY", BirthdayBonus, NoOrder)
      /\ Counts(a, e, BirthdayBonus)
      /\ e.yearVisits = a.yearVisits /\ e.tier = a.tier
      /\ e.checkout = a.checkout /\ e.grants = a.grants
      /\ e.upgrades = a.upgrades
  BY <1>1, <1>2, <1>3, EarnedShape
<1> HIDE DEF e
<1>5. /\ Len(a.ledger) \in Nat /\ DOMAIN a.ledger = 1..Len(a.ledger)
      /\ DOMAIN e.ledger = 1..n
      /\ \A i \in 1..Len(a.ledger) : e.ledger[i] = a.ledger[i]
      /\ e.ledger[n].type = "EARN_BIRTHDAY"
  BY <1>1, <1>4 DEF Account, PostsRow
<1>6. AccountBalanced(e) /\ AccountCompensated(e) /\ CheckoutWired(e)
  <2>1. AccountBalanced(e)
    BY <1>1, <1>2, <1>4, PostKeepsBalance DEF Books
  <2>2. AccountCompensated(e) /\ CheckoutWired(e)
    BY <1>1, <1>4, PostKeepsCompensation DEF Books
  <2>. QED BY <2>1, <2>2
<1>7. AccountSolvent(e)
  <2>1. /\ a.balance \in 0..MaxInt /\ a.lifetime \in 0..MaxInt
        /\ a.yearPoints \in 0..MaxInt /\ a.yearVisits \in 0..MaxInt
    BY <1>1 DEF AccountSolvent
  <2>2. /\ a.balance + BirthdayBonus \in 0..MaxInt
        /\ a.lifetime + BirthdayBonus \in 0..MaxInt
        /\ a.yearPoints + BirthdayBonus \in 0..MaxInt
    BY <1>2, <2>1, RulesAssumption DEF CanGrant, EarningFits, Fits
  <2>3. e.balance = a.balance + BirthdayBonus
    BY <1>4 DEF PostsRow
  <2>. QED BY <1>4, <2>1, <2>2, <2>3 DEF AccountSolvent, Counts
<1>8. AccountAnnounced(e)
  BY <1>1, <1>4, SameAnnouncements
<1>9. /\ q \in Account /\ AccountAnnounced(q)
      /\ q.balance = e.balance /\ q.ledger = e.ledger
      /\ q.lifetime = e.lifetime /\ q.yearPoints = e.yearPoints
      /\ q.yearVisits = e.yearVisits
      /\ q.checkout = e.checkout /\ q.grants = a.grants
  BY <1>4, <1>8, PromotedShape
<1>10. /\ g \in BonusGrant /\ g.entry = n /\ g.year = YearOf(day)
       /\ n \in 1..n /\ n \notin 1..Len(a.ledger)
       /\ \A m \in 1..Len(a.ledger) : m \in 1..n
       /\ \A m \in 1..n : m = n \/ m \in 1..Len(a.ledger)
  BY <1>5, RulesAssumption DEF BonusGrant, YearOf
<1> HIDE DEF q, g, n
<1>11. gs \in SUBSET BonusGrant
  BY <1>9, <1>10 DEF Account
<1>12. /\ b \in Account /\ b.grants = gs
       /\ b.balance = q.balance /\ b.ledger = q.ledger
       /\ b.lifetime = q.lifetime /\ b.yearPoints = q.yearPoints
       /\ b.yearVisits = q.yearVisits /\ b.checkout = q.checkout
       /\ b.tier = q.tier /\ b.upgrades = q.upgrades
  <2> HIDE DEF gs
  <2>. QED BY <1>9, <1>11 DEF SetGrants, Account
<1>13. WithBonus(a, day) = b
  BY <1>9 DEF WithBonus, SetGrants, Account, q, g, n, e
<1> HIDE DEF b
<1>14. AccountGrantedOnce(b)
  <2>1. /\ \A i \in 1..Len(a.ledger) :
             a.ledger[i].type = "EARN_BIRTHDAY" <=> \E h \in a.grants : h.entry = i
        /\ \A h \in a.grants : h.entry \in 1..Len(a.ledger)
        /\ \A h, k \in a.grants : (h.year = k.year \/ h.entry = k.entry) => h = k
    BY <1>1, <1>5 DEF Books, AccountGrantedOnce
  <2>2. \A h \in a.grants : h.year # YearOf(day)
    BY DEF BonusDue, Granted
  <2>3. ASSUME NEW i \in 1..n
        PROVE  e.ledger[i].type = "EARN_BIRTHDAY" <=> \E h \in gs : h.entry = i
    <3>1. CASE i = n
      BY <1>5, <1>10, <3>1
    <3>2. CASE i # n
      <4>1. i \in 1..Len(a.ledger) /\ e.ledger[i] = a.ledger[i]
        BY <1>5, <1>10, <3>2
      <4>2. (\E h \in gs : h.entry = i) <=> \E h \in a.grants : h.entry = i
        BY <1>9, <1>10, <3>2
      <4>. QED BY <2>1, <4>1, <4>2
    <3>. QED BY <3>1, <3>2
  <2>4. \A h \in gs : h.entry \in 1..n
    BY <1>9, <1>10, <2>1
  <2>5. ASSUME NEW h \in gs, NEW k \in gs, h.year = k.year \/ h.entry = k.entry
        PROVE  h = k
    <3>1. \A x \in gs : x = g \/ x \in a.grants
      BY <1>9
    <3>2. \A x \in a.grants : x.year # g.year /\ x.entry # g.entry
      BY <1>10, <2>1, <2>2
    <3>. QED BY <2>1, <2>5, <3>1, <3>2
  <2>6. b.ledger = e.ledger /\ DOMAIN e.ledger = 1..n /\ b.grants = gs
    BY <1>5, <1>9, <1>12
  <2> HIDE DEF gs
  <2>. QED BY <2>3, <2>4, <2>5, <2>6 DEF AccountGrantedOnce
<1>15. AccountBalanced(b) /\ AccountCompensated(b) /\ CheckoutWired(b)
  BY <1>6, <1>9, <1>12 DEF AccountBalanced, BalanceBefore, AccountCompensated,
                           CheckoutWired
<1>16. AccountSolvent(b) /\ AccountAnnounced(b)
  BY <1>7, <1>9, <1>12, SameAnnouncements DEF AccountSolvent
<1>. QED BY <1>12, <1>13, <1>14, <1>15, <1>16 DEF AccountInv, Books

\* Parts of an account no promise is about may change freely.
LEMMA SameAccountInv ==
    ASSUME NEW a, NEW b \in Account, AccountInv(a), SameRows(a, b),
           b.lifetime = a.lifetime, b.yearPoints \in 0..MaxInt,
           b.yearVisits \in 0..MaxInt
    PROVE  AccountInv(b)
<1>1. Books(b) /\ AccountAnnounced(b)
  BY SameBooks, SameAnnouncements DEF AccountInv, SameRows
<1>. QED BY <1>1 DEF AccountInv, AccountSolvent, SameRows

LEMMA WithBirthdayInv ==
    ASSUME NEW a, NEW r \in BirthdayRequest, NEW day \in Int, AccountInv(a),
           CanSetBirthday(a, r, day)
    PROVE  AccountInv(WithBirthday(a, r, day))
<1> DEFINE o == Opened(a)
           dated == [o EXCEPT !.birthday = r.day]
<1>1. AccountInv(o)
  BY OpenedInv
<1>2. o \in Account /\ r.day \in Int
  BY <1>1, RulesAssumption DEF AccountInv, BirthdayRequest
<1> HIDE DEF o
<1>3. /\ dated \in Account /\ SameRows(o, dated)
      /\ dated.lifetime = o.lifetime /\ dated.yearPoints = o.yearPoints
      /\ dated.yearVisits = o.yearVisits
  BY <1>2 DEF Account, SameRows
<1>4. dated = [Opened(a) EXCEPT !.birthday = r.day]
  BY DEF o
<1> HIDE DEF dated
<1>5. AccountInv(dated)
  BY <1>1, <1>3, SameAccountInv DEF AccountInv, AccountSolvent
<1>6. BonusDue(dated, day) => CanGrant(dated)
  <2>1. BonusDue(dated, day) => CanGrant(a)
    BY <1>4 DEF CanSetBirthday
  <2>2. /\ dated.balance = a.balance /\ dated.lifetime = a.lifetime
        /\ dated.yearPoints = a.yearPoints
    BY <1>3, OpenedInv DEF SameRows, o
  <2>. QED BY <2>1, <2>2 DEF CanGrant, EarningFits
<1>7. WithBirthday(a, r, day) = IF BonusDue(dated, day) THEN WithBonus(dated, day)
                                ELSE dated
  BY <1>4 DEF WithBirthday
<1>. QED BY <1>5, <1>6, <1>7, WithBonusInv

LEMMA PurchasedInv ==
    ASSUME NEW a, NEW r \in PurchaseRequest, NEW day \in Int, AccountInv(a),
           CanPurchase(a, r, day), PointsEarned(a, r, day) \in Int
    PROVE  AccountInv(Purchased(a, r, day))
<1> DEFINE n == PointsEarned(a, r, day)
           type == IF r.special THEN "EARN_SPECIAL" ELSE "EARN_TICKET"
           o == Opened(a)
           visited == [o EXCEPT !.yearVisits = o.yearVisits + 1]
           credited == IF n > 0 THEN Earned(visited, type, n, r.order, day)
                       ELSE visited
           p == Promoted(credited)
           is == p.intents \cup Intents(r)
           b == [p EXCEPT !.intents = is]
<1>1. /\ AccountInv(o) /\ o \in Account
      /\ o.balance = a.balance /\ o.lifetime = a.lifetime
      /\ o.yearPoints = a.yearPoints /\ o.yearVisits = a.yearVisits
  BY OpenedInv DEF AccountInv
<1>2. o.yearVisits + 1 \in 0..MaxInt
  BY <1>1 DEF AccountInv, AccountSolvent, CanPurchase, Fits
<1>3. Purchased(a, r, day) = b
  BY <1>1 DEF Purchased, Account
<1> HIDE DEF o
<1>4. /\ visited \in Account /\ SameRows(o, visited)
      /\ visited.lifetime = o.lifetime /\ visited.yearPoints = o.yearPoints
      /\ visited.yearVisits = o.yearVisits + 1
  <2> DEFINE v == o.yearVisits + 1
  <2>1. v \in Int
    BY <1>2
  <2> HIDE DEF v
  <2>2. visited = [o EXCEPT !.yearVisits = v]
    BY DEF v
  <2>3. /\ [o EXCEPT !.yearVisits = v] \in Account
        /\ SameRows(o, [o EXCEPT !.yearVisits = v])
        /\ [o EXCEPT !.yearVisits = v].lifetime = o.lifetime
        /\ [o EXCEPT !.yearVisits = v].yearPoints = o.yearPoints
        /\ [o EXCEPT !.yearVisits = v].yearVisits = v
    BY <1>1, <2>1 DEF Account, SameRows
  <2>. QED BY <2>2, <2>3 DEF v
<1> HIDE DEF visited
<1>5. AccountInv(visited)
  BY <1>1, <1>2, <1>4, SameAccountInv DEF AccountInv, AccountSolvent
<1>6. AccountInv(credited)
  <2>1. CASE n > 0
    <3>1. EarningFits(a, n)
      BY <2>1 DEF CanPurchase
    <3>2. EarningFits(visited, n)
      BY <1>1, <1>4, <3>1 DEF EarningFits, SameRows
    <3>3. /\ type \in EntryTypes \ {"REFUND", "EARN_BIRTHDAY"}
          /\ r.order \in Orders \cup {NoOrder}
      BY DEF EntryTypes, Credits, PurchaseRequest
    <3>4. n \in Int /\ n >= 0
      BY <2>1
    <3> HIDE DEF n, type
    <3>. QED BY <1>5, <2>1, <3>2, <3>3, <3>4, EarnedInv
  <2>2. CASE ~(n > 0)
    BY <1>5, <2>2
  <2>. QED BY <2>1, <2>2
<1> HIDE DEF credited
<1>7. AccountInv(p) /\ p \in Account
  BY <1>6, PromotedInv DEF AccountInv
<1> HIDE DEF p
<1>8. is \in SUBSET Intent
  BY <1>7 DEF Intents, Intent, ActionType, PurchaseRequest, Account
<1> HIDE DEF is
<1>9. /\ b \in Account /\ SameRows(p, b) /\ b.lifetime = p.lifetime
      /\ b.yearPoints = p.yearPoints /\ b.yearVisits = p.yearVisits
  BY <1>7, <1>8 DEF Account, SameRows
<1> HIDE DEF b
<1>. QED BY <1>3, <1>7, <1>9, SameAccountInv DEF AccountInv, AccountSolvent

LEMMA AdjustedInv ==
    ASSUME NEW a, NEW r \in AdminRequest, NEW day \in Int, AccountInv(a),
           CanAdjust(a, r)
    PROVE  AccountInv(Adjusted(a, r, day))
<1> DEFINE o == Opened(a)
<1>1. /\ AccountInv(o) /\ o.balance = a.balance
      /\ o.lifetime = a.lifetime /\ o.yearPoints = a.yearPoints
  BY OpenedInv
<1>2. r.amount \in Int /\ NoOrder \in Orders \cup {NoOrder}
  BY DEF AdminRequest
<1>3. CASE r.amount > 0
  <2> HIDE DEF o
  <2>1. EarningFits(o, r.amount)
    BY <1>1, <1>3 DEF CanAdjust, EarningFits
  <2>2. "ADMIN_ADDITION" \in EntryTypes \ {"REFUND", "EARN_BIRTHDAY"}
    BY DEF EntryTypes, Credits
  <2>3. AccountInv(Earned(o, "ADMIN_ADDITION", r.amount, NoOrder, day))
    BY <1>1, <1>2, <1>3, <2>1, <2>2, EarnedInv
  <2>. QED BY <1>3, <2>3, PromotedInv DEF Adjusted, o
<1>4. CASE ~(r.amount > 0)
  <2> HIDE DEF o
  <2>1. o.balance + r.amount \in 0..MaxInt
    BY <1>1, <1>2, <1>4, RulesAssumption
       DEF CanAdjust, AccountInv, AccountSolvent
  <2>2. "ADMIN_DEDUCTION" \in EntryTypes \ {"REFUND", "EARN_BIRTHDAY"}
    BY DEF EntryTypes, Debits
  <2>3. AccountInv(Posted(o, "ADMIN_DEDUCTION", r.amount, NoOrder))
    BY <1>1, <1>2, <2>1, <2>2, PostedInv
  <2>. QED BY <1>4, <2>3, PromotedInv DEF Adjusted, o
<1>. QED BY <1>3, <1>4

LEMMA MadeVipInv ==
    ASSUME NEW a, AccountInv(a)
    PROVE  AccountInv(MadeVip(a))
<1> DEFINE o == Opened(a)
           v == AtTier(o, Gold)
<1>1. AccountInv(o) /\ o \in Account
  BY OpenedInv DEF AccountInv
<1> HIDE DEF o
<1>2. Gold \in Tier /\ Gold >= o.tier
  BY <1>1 DEF Account, Tier, Bronze, Silver, Gold
<1>3. /\ v \in Account /\ AccountAnnounced(v)
      /\ v.balance = o.balance /\ v.ledger = o.ledger
      /\ v.lifetime = o.lifetime /\ v.yearPoints = o.yearPoints
      /\ v.yearVisits = o.yearVisits
      /\ v.checkout = o.checkout /\ v.grants = o.grants
  BY <1>1, <1>2, AtTierShape DEF AccountInv
<1> HIDE DEF v
<1>4. Books(v)
  BY <1>1, <1>3, SameBooks DEF AccountInv
<1>5. AccountInv(v) /\ v.balance \in 0..MaxInt
  BY <1>1, <1>3, <1>4 DEF AccountInv, AccountSolvent
<1>6. /\ "ADMIN_ADDITION" \in EntryTypes \ {"REFUND", "EARN_BIRTHDAY"}
      /\ v.balance + 0 \in 0..MaxInt /\ NoOrder \in Orders \cup {NoOrder}
  BY <1>5, RulesAssumption DEF EntryTypes, Credits
<1>7. AccountInv(Posted(v, "ADMIN_ADDITION", 0, NoOrder))
  BY <1>5, <1>6, PostedInv
<1>. QED BY <1>7 DEF MadeVip, v, o

LEMMA RewardedInv ==
    ASSUME NEW a, NEW r \in RewardRequest, AccountInv(a), CanReward(a, r)
    PROVE  AccountInv(Rewarded(a, r))
<1> DEFINE o == Opened(a)
           p == Posted(o, "EARN_ACHIEVEMENT", r.amount, NoOrder)
           l == p.lifetime + r.amount
           b == [p EXCEPT !.lifetime = l]
<1>1. AccountInv(o) /\ o \in Account
      /\ o.balance = a.balance /\ o.lifetime = a.lifetime
  BY OpenedInv DEF AccountInv
<1>2. r.amount \in Nat /\ NoOrder \in Orders \cup {NoOrder}
  BY DEF RewardRequest
<1>3. CASE r.amount = 0
  BY <1>1, <1>3 DEF Rewarded
<1>4. CASE r.amount # 0
  <2> HIDE DEF o
  <2>1. /\ o.balance \in 0..MaxInt /\ o.lifetime \in 0..MaxInt
        /\ o.balance + r.amount \in 0..MaxInt
        /\ o.lifetime + r.amount \in 0..MaxInt
    BY <1>1, <1>2, RulesAssumption
       DEF AccountInv, AccountSolvent, CanReward, Fits
  <2>2. "EARN_ACHIEVEMENT" \in EntryTypes \ {"REFUND", "EARN_BIRTHDAY"}
    BY DEF EntryTypes, Credits
  <2>3. AccountInv(p) /\ p \in Account
    BY <1>1, <1>2, <2>1, <2>2, PostedInv DEF AccountInv
  <2>4. p.lifetime = o.lifetime
    BY <1>1, <1>2, <2>2, PostedShape
  <2>5. l \in Int /\ l \in 0..MaxInt
    BY <2>1, <2>4
  <2>6. Rewarded(a, r) = b
    BY <1>4, <2>3 DEF Rewarded, o, Account
  <2> HIDE DEF p, l
  <2>7. /\ b \in Account /\ SameRows(p, b) /\ b.lifetime = l
        /\ b.yearPoints = p.yearPoints /\ b.yearVisits = p.yearVisits
    BY <2>3, <2>5 DEF Account, SameRows
  <2> HIDE DEF b
  <2>8. Books(b) /\ AccountAnnounced(b)
    BY <2>3, <2>7, SameBooks, SameAnnouncements DEF AccountInv, SameRows
  <2>9. AccountSolvent(b)
    BY <2>3, <2>5, <2>7 DEF AccountInv, AccountSolvent, SameRows
  <2>. QED BY <2>6, <2>7, <2>8, <2>9 DEF AccountInv
<1>. QED BY <1>3, <1>4

LEMMA ExpiredInv ==
    ASSUME NEW a, AccountInv(a)
    PROVE  AccountInv(Expired(a))
<1>1. a.balance \in 0..MaxInt
  BY DEF AccountInv, AccountSolvent
<1>2. /\ -a.balance \in Int /\ a.balance + (-a.balance) \in 0..MaxInt
      /\ NoOrder \in Orders \cup {NoOrder}
  BY <1>1, RulesAssumption
<1>3. "EXPIRE" \in EntryTypes \ {"REFUND", "EARN_BIRTHDAY"}
  BY DEF EntryTypes, Debits
<1>. QED BY <1>2, <1>3, PostedInv DEF Expired

\* A profile row whose yearly counters change.
LEMMA YearColumns ==
    ASSUME NEW a \in Account, NEW n \in Int, NEW m \in Int
    PROVE  LET b == SetYear(a, n, m) IN
           /\ b \in Account /\ SameRows(a, b) /\ b.lifetime = a.lifetime
           /\ b.yearPoints = n /\ b.yearVisits = m
  BY DEF Account, SetYear, SameRows

LEMMA StatsResetInv ==
    ASSUME NEW a, AccountInv(a)
    PROVE  AccountInv(StatsReset(a))
<1> DEFINE b == StatsReset(a)
<1>1. a \in Account /\ 0 \in 0..MaxInt
  BY RulesAssumption DEF AccountInv
<1>2. b = SetYear(a, 0, 0)
  BY DEF StatsReset, SetYear
<1> HIDE DEF b
<1>3. /\ b \in Account /\ SameRows(a, b) /\ b.lifetime = a.lifetime
      /\ b.yearPoints = 0 /\ b.yearVisits = 0
  BY <1>1, <1>2, YearColumns
<1>4. AccountInv(b)
  BY <1>1, <1>3, SameAccountInv
<1>. QED BY <1>4 DEF b
-----------------------------------------------------------------------------
(***************************************************************************)
(* The inductive invariant: AccountInv of every user, and the types of the *)
(* key table and the clock.                                                *)
(***************************************************************************)
IInv ==
    /\ TypeOK
    /\ \A u \in Users : AccountInv(accounts[u])

\* A request with the name of an operation has the form of that operation, also
\* one that a job makes for itself.
LEMMA RequestForms ==
    ASSUME NEW r \in Request
    PROVE  /\ r.user \in Users
           /\ r.op \in {"DEDUCT", "REFUND"} => r \in PointRequest
           /\ r.op = "PURCHASE" => r \in PurchaseRequest
           /\ r.op = "REWARD" => r \in RewardRequest
           /\ r.op = "ADMIN" => r \in AdminRequest
           /\ r.op = "DOB" => r \in BirthdayRequest
           /\ HasKey(r) => r.key \in Keys
  BY DEF Request, PointRequest, PurchaseRequest, RewardRequest,
         AdminRequest, BirthdayRequest, UserRequest, HasKey

\* The same of the requests that may be issued.
LEMMA RequestKinds ==
    ASSUME NEW r \in Requests
    PROVE  /\ r \in Request
           /\ r.user \in Users
           /\ r.op \in {"DEDUCT", "REFUND"} => r \in PointRequest
           /\ r.op = "PURCHASE" => r \in PurchaseRequest
           /\ r.op = "REWARD" => r \in RewardRequest
           /\ r.op = "ADMIN" => r \in AdminRequest
           /\ r.op = "DOB" => r \in BirthdayRequest
           /\ HasKey(r) => r.key \in Keys
<1>1. r \in Request
  BY AccountsAssumption
<1>. QED BY <1>1, RequestForms

LEMMA EarnedIsInteger ==
    ASSUME NEW a \in Account, NEW r \in PurchaseRequest, NEW day \in Int
    PROVE  PointsEarned(a, r, day) \in Int
<1> DEFINE m == DoubledMultiplier(a.tier, a.birthday, r.special, day)
<1>1. a.tier \in {0, 1, 2} /\ r.amount \in Nat
  BY DEF Account, Tier, Bronze, Silver, Gold, PurchaseRequest
<1>2. m \in Int
  BY <1>1 DEF DoubledMultiplier
<1>3. PointsFor(r.amount, m) \in Int
  <2> HIDE DEF m
  <2>. QED BY <1>1, <1>2 DEF PointsFor
<1>. QED BY <1>3 DEF PointsEarned

\* Every operation that is carried out keeps the account invariant.
LEMMA AfterInv ==
    ASSUME NEW a, NEW r \in Request, NEW day \in Int, AccountInv(a),
           r.op \in {"DEDUCT", "REFUND", "PURCHASE", "REWARD", "ADMIN", "VIP",
                     "DOB", "BIRTHDAY", "EXPIRE", "ANNUAL", "OPEN"},
           Accepts(a, r, day)
    PROVE  AccountInv(After(a, r, day))
<1>1. CASE r.op = "DEDUCT"
  <2>1. CanDeduct(a, r) /\ After(a, r, day) = Deducted(a, r)
    BY <1>1 DEF Accepts, After
  <2>. QED BY <1>1, <2>1, RequestForms, DeductedInv
<1>2. CASE r.op = "REFUND"
  <2>1. CanRefund(a, r) /\ After(a, r, day) = Refunded(a, r)
    BY <1>2 DEF Accepts, After
  <2>. QED BY <1>2, <2>1, RequestForms, RefundedInv
<1>3. CASE r.op = "PURCHASE"
  <2>1. CanPurchase(a, r, day) /\ After(a, r, day) = Purchased(a, r, day)
    BY <1>3 DEF Accepts, After
  <2>2. r \in PurchaseRequest
    BY <1>3, RequestForms
  <2>3. PointsEarned(a, r, day) \in Int
    BY <2>2, EarnedIsInteger DEF AccountInv
  <2>. QED BY <2>1, <2>2, <2>3, PurchasedInv
<1>4. CASE r.op = "REWARD"
  <2>1. CanReward(a, r) /\ After(a, r, day) = Rewarded(a, r)
    BY <1>4 DEF Accepts, After
  <2>. QED BY <1>4, <2>1, RequestForms, RewardedInv
<1>5. CASE r.op = "ADMIN"
  <2>1. CanAdjust(a, r) /\ After(a, r, day) = Adjusted(a, r, day)
    BY <1>5 DEF Accepts, After
  <2>. QED BY <1>5, <2>1, RequestForms, AdjustedInv
<1>6. CASE r.op = "VIP"
  <2>1. After(a, r, day) = MadeVip(a)
    BY <1>6 DEF After
  <2>. QED BY <2>1, MadeVipInv
<1>7. CASE r.op = "DOB"
  <2>1. CanSetBirthday(a, r, day) /\ After(a, r, day) = WithBirthday(a, r, day)
    BY <1>7 DEF Accepts, After
  <2>. QED BY <1>7, <2>1, RequestForms, WithBirthdayInv
<1>8. CASE r.op = "BIRTHDAY"
  <2>1. /\ BonusDue(a, day) /\ CanGrant(a)
        /\ After(a, r, day) = WithBonus(a, day)
    BY <1>8 DEF Accepts, After
  <2>. QED BY <2>1, WithBonusInv
<1>9. CASE r.op = "EXPIRE"
  <2>1. After(a, r, day) = Expired(a)
    BY <1>9 DEF After
  <2>. QED BY <2>1, ExpiredInv
<1>10. CASE r.op = "ANNUAL"
  <2>1. After(a, r, day) = StatsReset(a)
    BY <1>10 DEF After
  <2>. QED BY <2>1, StatsResetInv
<1>11. CASE r.op = "OPEN"
  <2>1. After(a, r, day) = Opened(a)
    BY <1>11 DEF After
  <2>. QED BY <2>1, OpenedInv
<1>. QED BY <1>1, <1>2, <1>3, <1>4, <1>5, <1>6, <1>7, <1>8, <1>9, <1>10, <1>11

LEMMA NoAccountInv == AccountInv(NoAccount)
<1> DEFINE a == NoAccount
<1>1. <<>> \in Seq(Entry) /\ <<>> \in Seq(TierUpgrade)
  OBVIOUS
<1>2. /\ a.ledger = <<>> /\ a.upgrades = <<>> /\ a.balance = 0 /\ a.tier = 0
      /\ a.checkout = {} /\ a.grants = {} /\ a.lifetime = 0
      /\ a.yearPoints = 0 /\ a.yearVisits = 0
  BY DEF NoAccount, Bronze
<1>3. a \in Account
  BY <1>1 DEF NoAccount, Account, Tier, Bronze, NoDay, NoBirthday
<1> HIDE DEF a
<1>4. Len(a.ledger) = 0 /\ DOMAIN a.ledger = {} /\ Len(a.upgrades) = 0
  BY <1>2
<1>5. AccountBalanced(a) /\ AccountCompensated(a) /\ AccountGrantedOnce(a)
  BY <1>2, <1>4 DEF AccountBalanced, BalanceBefore, AccountCompensated,
                    AccountGrantedOnce
<1>6. CheckoutWired(a) /\ AccountAnnounced(a)
  BY <1>2, <1>4 DEF CheckoutWired, AccountAnnounced, TierAfter, Bronze
<1>7. AccountSolvent(a)
  BY <1>2, RulesAssumption DEF AccountSolvent
<1>. QED BY <1>3, <1>5, <1>6, <1>7 DEF AccountInv, Books, a

\* A profile row imported with a balance, a lifetime, an expiry and a ledger.
LEMMA ImportedColumns ==
    ASSUME NEW a \in Account, NEW n \in Int, NEW l \in Int, NEW d \in Int,
           NEW s \in Seq(Entry)
    PROVE  Imported(a, n, l, d, s) \in Account
  BY DEF Account, Imported

LEMMA LegacyAccountInv == AccountInv(LegacyAccount)
<1> DEFINE a == LegacyAccount
           e == 2 * LegacyDebit
           first == [type |-> "EARN_TICKET", points |-> e, balanceAfter |-> e,
                     order |-> NoOrder]
           second == [type |-> "BURN_DISCOUNT", points |-> -LegacyDebit,
                      balanceAfter |-> LegacyDebit, order |-> LegacyOrder]
<1>1. /\ LegacyDebit \in 1..MaxInt /\ e \in 0..MaxInt
      /\ LegacyOrder \in Orders /\ YearDays \in Int
  BY AccountsAssumption, RulesAssumption
<1>2. first \in Entry /\ second \in Entry
  BY <1>1 DEF Entry, Debits, Credits
<1>3. /\ a.ledger = <<first, second>> /\ a.upgrades = <<>>
      /\ a.balance = LegacyDebit /\ a.tier = 0
      /\ a.checkout = {} /\ a.grants = {} /\ a.lifetime = e
      /\ a.yearPoints = 0 /\ a.yearVisits = 0
  BY DEF LegacyAccount, NoAccount, Bronze
<1>4. <<first, second>> \in Seq(Entry) /\ <<>> \in Seq(TierUpgrade)
  <2> HIDE DEF first, second
  <2>. QED BY <1>2
<1>5. a \in Account
  <2>1. /\ NoAccount \in Account /\ LegacyDebit \in Int /\ e \in Int
    BY <1>1, NoAccountInv DEF AccountInv
  <2>2. a = Imported(NoAccount, LegacyDebit, e, YearDays, <<first, second>>)
    BY DEF LegacyAccount, Imported
  <2> HIDE DEF first, second, a, e
  <2>. QED BY <1>1, <1>4, <2>1, <2>2, ImportedColumns
<1>6. /\ first.type = "EARN_TICKET" /\ second.type = "BURN_DISCOUNT"
      /\ first.points = e /\ second.points = -LegacyDebit
      /\ first.balanceAfter = e /\ second.balanceAfter = LegacyDebit
  OBVIOUS
<1>7. e = LegacyDebit + LegacyDebit
  BY <1>1
<1> HIDE DEF a, first, second, e
<1>8. /\ Len(a.ledger) = 2 /\ DOMAIN a.ledger = 1..2 /\ Len(a.upgrades) = 0
      /\ a.ledger[1] = first /\ a.ledger[2] = second
  BY <1>3
<1>9. AccountBalanced(a)
  BY <1>1, <1>3, <1>6, <1>7, <1>8 DEF AccountBalanced, BalanceBefore
<1>10. \A i \in DOMAIN a.ledger : a.ledger[i].type \notin {"REFUND", "EARN_BIRTHDAY"}
  BY <1>6, <1>8
<1>11. AccountCompensated(a) /\ AccountGrantedOnce(a) /\ CheckoutWired(a)
  BY <1>3, <1>10 DEF AccountCompensated, AccountGrantedOnce, CheckoutWired
<1>12. AccountAnnounced(a)
  BY <1>3, <1>8 DEF AccountAnnounced, TierAfter, Bronze
<1>13. AccountSolvent(a)
  BY <1>1, <1>3, RulesAssumption DEF AccountSolvent
<1>. QED BY <1>5, <1>9, <1>11, <1>12, <1>13 DEF AccountInv, Books, a

LEMMA InitInv == Init => IInv
<1> SUFFICES ASSUME Init PROVE IInv
  OBVIOUS
<1>1. \A u \in Users : AccountInv(accounts[u])
  BY NoAccountInv, LegacyAccountInv DEF Init
<1>2. accounts \in [Users -> Account]
  BY NoAccountInv, LegacyAccountInv DEF Init, AccountInv
<1>3. processed \in [Keys -> Row] /\ today \in 0..LastDay
  BY AccountsAssumption DEF Init, Row
<1>. QED BY <1>1, <1>2, <1>3 DEF IInv, TypeOK

\* One account changes to a state its invariant allows, and so may the keys.
LEMMA AccountStep ==
    ASSUME IInv, NEW u \in Users, NEW b, AccountInv(b),
           accounts' = [accounts EXCEPT ![u] = b],
           processed' \in [Keys -> Row], UNCHANGED today
    PROVE  IInv'
<1>1. b \in Account
  BY DEF AccountInv
<1>2. accounts' \in [Users -> Account]
  BY <1>1 DEF IInv, TypeOK
<1>3. \A v \in Users : AccountInv(accounts'[v])
  BY DEF IInv, TypeOK
<1>. QED BY <1>2, <1>3 DEF IInv, TypeOK

\* A request that is carried out keeps the invariant.
LEMMA PerformInv ==
    ASSUME IInv, NEW r \in Request, NEW asOf \in Int, Perform(r, asOf),
           r.op \in {"DEDUCT", "REFUND", "PURCHASE", "REWARD", "ADMIN", "VIP",
                     "DOB", "BIRTHDAY", "EXPIRE", "ANNUAL", "OPEN"}
    PROVE  IInv'
<1> DEFINE b == After(accounts[r.user], r, asOf)
<1>1. r.user \in Users /\ AccountInv(accounts[r.user])
  BY RequestForms DEF IInv
<1>2. AccountInv(b)
  BY <1>1, AfterInv DEF Perform
<1>3. b.balance \in Int
  BY <1>2 DEF AccountInv, Account
<1>4. HasKey(r) => r.key \in Keys /\ RowOf(r, b.balance) \in Row
  <2> HIDE DEF b
  <2>1. r.op \in {"DEDUCT", "REFUND"} => CommandRow(r, b.balance) \in PointRow
    BY <1>3, RequestForms DEF CommandRow, PointRow, PointRequest
  <2>. QED BY <2>1, RequestForms DEF RowOf, Row
<1>5. processed' \in [Keys -> Row]
  BY <1>4 DEF Perform, IInv, TypeOK
<1>6. accounts' = [accounts EXCEPT ![r.user] = b] /\ UNCHANGED today
  BY DEF Perform
<1> HIDE DEF b
<1>. QED BY <1>1, <1>2, <1>5, <1>6, AccountStep

LEMMA NextInv == IInv /\ [Next]_accountVars => IInv'
<1> SUFFICES ASSUME IInv, [Next]_accountVars PROVE IInv'
  OBVIOUS
<1>1. /\ today \in Int /\ \A day \in 0..today : day \in Int
      /\ Requests \subseteq Request
  BY AccountsAssumption DEF IInv, TypeOK
<1>2. ASSUME NEW r \in Requests, Deduct(r) PROVE IInv'
  BY <1>1, <1>2, PerformInv DEF Deduct
<1>3. ASSUME NEW r \in Requests, Refund(r) PROVE IInv'
  BY <1>1, <1>3, PerformInv DEF Refund
<1>4. ASSUME NEW r \in Requests, NEW asOf \in 0..today, Purchase(r, asOf)
      PROVE  IInv'
  BY <1>1, <1>4, PerformInv DEF Purchase
<1>5. ASSUME NEW r \in Requests, Reward(r) PROVE IInv'
  BY <1>1, <1>5, PerformInv DEF Reward
<1>6. ASSUME NEW r \in Requests, NEW asOf \in 0..today, ModifyPoints(r, asOf)
      PROVE  IInv'
  BY <1>1, <1>6, PerformInv DEF ModifyPoints
<1>7. ASSUME NEW r \in Requests, GrantVip(r) PROVE IInv'
  BY <1>1, <1>7, PerformInv DEF GrantVip
<1>8. ASSUME NEW r \in Requests, AnnualReset(r) PROVE IInv'
  BY <1>1, <1>8, PerformInv DEF AnnualReset
<1>9. ASSUME NEW r \in Requests, OpenAccount(r) PROVE IInv'
  BY <1>1, <1>9, PerformInv DEF OpenAccount
<1>10. ASSUME NEW r \in Requests, SkipProcessed(r) PROVE IInv'
  <2>1. r.user \in Users /\ AccountInv(Opened(accounts[r.user]))
    BY RequestKinds, OpenedInv DEF IInv
  <2>2. accounts' = [accounts EXCEPT ![r.user] = Opened(accounts[r.user])]
    BY <2>1, <1>10 DEF SkipProcessed, IInv, TypeOK
  <2>. QED BY <2>1, <2>2, <1>10, AccountStep DEF SkipProcessed, IInv, TypeOK
<1>11. ASSUME NEW r \in Requests, NEW asOf \in 0..today, SetBirthday(r, asOf)
       PROVE  IInv'
  BY <1>1, <1>11, PerformInv DEF SetBirthday
<1>12. ASSUME NEW r \in Requests, NEW asOf \in 0..today, GrantBirthday(r, asOf)
       PROVE  IInv'
  BY <1>1, <1>12, PerformInv DEF GrantBirthday
<1>13. ASSUME NEW r \in Requests, NEW asOf \in 0..today, ExpirePoints(r, asOf)
       PROVE  IInv'
  BY <1>1, <1>13, PerformInv DEF ExpirePoints
<1>14. CASE Tick
  BY <1>14, AccountsAssumption DEF Tick, IInv, TypeOK
<1>15. CASE UNCHANGED accountVars
  BY <1>15 DEF accountVars, IInv, TypeOK
<1>. QED BY <1>2, <1>3, <1>4, <1>5, <1>6, <1>7, <1>8, <1>9, <1>10, <1>11,
            <1>12, <1>13, <1>14, <1>15 DEF Next
-----------------------------------------------------------------------------
\* Whatever requests are issued, in whatever order, every reachable state of
\* the accounts satisfies the inductive invariant.
THEOREM Invariance == AccountsSpec => []IInv
<1>1. Init => IInv
  BY InitInv
<1>2. IInv /\ [Next]_accountVars => IInv'
  BY NextInv
<1>. QED BY <1>1, <1>2, PTL DEF AccountsSpec

\* Type correctness: the profile rows, the ledgers, the key table and the
\* clock always have the shape of their tables.
THEOREM TypeCorrectness == AccountsSpec => []TypeOK
<1>1. IInv => TypeOK
  BY DEF IInv
<1>. QED BY <1>1, Invariance, PTL

\* points_transactions and loyalty_profiles.balance never disagree, for any
\* mix of deductions, refunds, purchases, bonuses, adjustments and expiries.
THEOREM LedgerAlwaysExplainsBalance == AccountsSpec => []LedgerExplainsBalance
<1>1. IInv => LedgerExplainsBalance
  BY DEF IInv, AccountInv, Books, LedgerExplainsBalance
<1>. QED BY <1>1, Invariance, PTL

\* No operation overdraws an account, and no counter leaves its INTEGER column.
THEOREM AccountsNeverOverdrawn == AccountsSpec => []NeverOverdrawn
<1>1. IInv => NeverOverdrawn
  BY DEF IInv, AccountInv, NeverOverdrawn
<1>. QED BY <1>1, Invariance, PTL

\* refundPoints compensates a checkout debit in full and at most once, and an
\* order is refunded at most once.
THEOREM RefundsAlwaysCompensateOnce == AccountsSpec => []RefundsCompensateOnce
<1>1. IInv => RefundsCompensateOnce
  BY DEF IInv, AccountInv, Books, RefundsCompensateOnce
<1>. QED BY <1>1, Invariance, PTL

\* Every change of tier, whichever operation makes it, saves exactly one
\* TIER_UPGRADED outbox event, and tiers only go up.
THEOREM TierEventsAlwaysTellTheTier == AccountsSpec => []TierEventsTellTheTier
<1>1. IInv => TierEventsTellTheTier
  BY DEF IInv, AccountInv, TierEventsTellTheTier
<1>. QED BY <1>1, Invariance, PTL

\* The date-of-birth event and the scheduled job together grant at most one
\* birthday bonus to a user in a year.
THEOREM BirthdayBonusOncePerYear == AccountsSpec => []OneBonusPerYear
<1>1. IInv => OneBonusPerYear
  BY DEF IInv, AccountInv, Books, OneBonusPerYear
<1>. QED BY <1>1, Invariance, PTL
-----------------------------------------------------------------------------
(***************************************************************************)
(* What is recorded is never rewritten, and every key that was used for a  *)
(* point command answers exactly one row of the ledger.                    *)
(***************************************************************************)
\* Account b goes on from account a: nothing that a has recorded is lost.
GoesOnFrom(a, b) ==
    /\ IsExtension(a.ledger, b.ledger)
    /\ IsExtension(a.upgrades, b.upgrades)
    /\ \A c \in a.checkout : c.refund # 0 => c \in b.checkout

CommandTypes == {"BURN_DISCOUNT", "REFUND"}

\* ... and no discount and no refund is recorded.
PlainlyFrom(a, b) ==
    /\ b \in Account /\ GoesOnFrom(a, b)
    /\ \A i \in 1..Len(b.ledger) :
         i > Len(a.ledger) => b.ledger[i].type \notin CommandTypes

LEMMA PlainTransitive ==
    ASSUME NEW a \in Account, NEW b \in Account, NEW c,
           PlainlyFrom(a, b), PlainlyFrom(b, c)
    PROVE  PlainlyFrom(a, c)
<1>1. /\ Len(a.ledger) \in Nat /\ Len(b.ledger) \in Nat
      /\ Len(a.upgrades) \in Nat /\ Len(b.upgrades) \in Nat
  BY DEF Account
<1>2. c \in Account /\ Len(c.ledger) \in Nat /\ Len(c.upgrades) \in Nat
  <2>1. c \in Account
    BY DEF PlainlyFrom
  <2>2. c.ledger \in Seq(Entry) /\ c.upgrades \in Seq(TierUpgrade)
    BY <2>1 DEF Account
  <2>. QED BY <2>1, <2>2
<1>3. IsExtension(a.ledger, c.ledger) /\ IsExtension(a.upgrades, c.upgrades)
  BY <1>1, <1>2 DEF PlainlyFrom, GoesOnFrom, IsExtension
<1>4. \A d \in a.checkout : d.refund # 0 => d \in c.checkout
  BY DEF PlainlyFrom, GoesOnFrom
<1>5. ASSUME NEW i \in 1..Len(c.ledger), i > Len(a.ledger)
      PROVE  c.ledger[i].type \notin CommandTypes
  <2>1. CASE i > Len(b.ledger)
    BY <2>1 DEF PlainlyFrom
  <2>2. CASE i \in 1..Len(b.ledger)
    BY <1>5, <2>2 DEF PlainlyFrom, GoesOnFrom, IsExtension
  <2>. QED BY <1>1, <1>2, <2>1, <2>2
<1>. QED BY <1>2, <1>3, <1>4, <1>5 DEF PlainlyFrom, GoesOnFrom

\* An account whose ledger, events and checkout rows stay.
LEMMA PlainSame ==
    ASSUME NEW a \in Account, NEW b \in Account,
           b.ledger = a.ledger, b.upgrades = a.upgrades, b.checkout = a.checkout
    PROVE  PlainlyFrom(a, b)
<1>1. Len(a.ledger) \in Nat /\ Len(a.upgrades) \in Nat
  BY DEF Account
<1>. QED BY <1>1 DEF PlainlyFrom, GoesOnFrom, IsExtension

LEMMA PlainRow ==
    ASSUME NEW a \in Account, NEW b \in Account,
           NEW type \in EntryTypes \ CommandTypes, NEW points, NEW order,
           PostsRow(a, b, type, points, order),
           b.upgrades = a.upgrades, b.checkout = a.checkout
    PROVE  PlainlyFrom(a, b)
<1>1. Len(a.ledger) \in Nat /\ Len(a.upgrades) \in Nat
  BY DEF Account
<1>. QED BY <1>1 DEF PlainlyFrom, GoesOnFrom, IsExtension, PostsRow

LEMMA PlainPosted ==
    ASSUME NEW a \in Account, NEW type \in EntryTypes \ CommandTypes, NEW points \in Int,
           NEW order \in Orders \cup {NoOrder}
    PROVE  PlainlyFrom(a, Posted(a, type, points, order))
<1> DEFINE b == Posted(a, type, points, order)
<1>1. /\ b \in Account /\ PostsRow(a, b, type, points, order)
      /\ b.upgrades = a.upgrades /\ b.checkout = a.checkout
  BY PostedShape
<1> HIDE DEF b
<1>2. PlainlyFrom(a, b)
  BY <1>1, PlainRow
<1>. QED BY <1>2 DEF b

LEMMA PlainEarned ==
    ASSUME NEW a \in Account, NEW type \in EntryTypes \ CommandTypes, NEW points \in Int,
           NEW order \in Orders \cup {NoOrder}, NEW day \in Int
    PROVE  PlainlyFrom(a, Earned(a, type, points, order, day))
<1> DEFINE b == Earned(a, type, points, order, day)
<1>1. /\ b \in Account /\ PostsRow(a, b, type, points, order)
      /\ b.upgrades = a.upgrades /\ b.checkout = a.checkout
  BY EarnedShape
<1> HIDE DEF b
<1>2. PlainlyFrom(a, b)
  BY <1>1, PlainRow
<1>. QED BY <1>2 DEF b

LEMMA PlainTier ==
    ASSUME NEW a \in Account, NEW t \in Tier
    PROVE  PlainlyFrom(a, AtTier(a, t))
<1> DEFINE e  == [from |-> a.tier, to |-> t]
           us == Append(a.upgrades, e)
           b  == SetTier(a, t, us)
<1>1. CASE t = a.tier
  BY <1>1, PlainSame DEF AtTier
<1>2. CASE t # a.tier
  <2>1. AtTier(a, t) = b
    BY <1>2 DEF AtTier, SetTier, Account
  <2>2. a.upgrades \in Seq(TierUpgrade) /\ a.tier \in Tier /\ Len(a.ledger) \in Nat
    BY DEF Account
  <2>3. e \in TierUpgrade
    BY <2>2 DEF TierUpgrade
  <2>4. /\ us \in Seq(TierUpgrade) /\ Len(us) = Len(a.upgrades) + 1
        /\ \A i \in 1..Len(a.upgrades) : us[i] = a.upgrades[i]
    <3> HIDE DEF e
    <3>. QED BY <2>2, <2>3
  <2>5. /\ b \in Account /\ b.upgrades = us /\ b.ledger = a.ledger
        /\ b.checkout = a.checkout
    <3> HIDE DEF us
    <3>. QED BY <2>4 DEF SetTier, Account
  <2> HIDE DEF b, us
  <2>6. PlainlyFrom(a, b)
    BY <2>2, <2>4, <2>5 DEF PlainlyFrom, GoesOnFrom, IsExtension
  <2>. QED BY <2>1, <2>6
<1>. QED BY <1>1, <1>2

LEMMA PlainPromoted ==
    ASSUME NEW a \in Account
    PROVE  PlainlyFrom(a, Promoted(a))
<1> DEFINE t == ResolveNewTier(a.tier, a.yearVisits, a.yearPoints)
<1>1. t \in Tier
  BY NewTierRises DEF Account
<1> HIDE DEF t
<1>2. Promoted(a) = AtTier(a, t)
  BY DEF Promoted, t
<1>. QED BY <1>1, <1>2, PlainTier

LEMMA PlainOpened ==
    ASSUME NEW a \in Account
    PROVE  /\ PlainlyFrom(a, Opened(a))
           /\ Opened(a).balance = a.balance
<1> DEFINE b == Opened(a)
<1>1. /\ b \in Account /\ b.ledger = a.ledger /\ b.upgrades = a.upgrades
      /\ b.checkout = a.checkout /\ b.balance = a.balance
  BY DEF Opened, Account
<1> HIDE DEF b
<1>2. PlainlyFrom(a, b)
  BY <1>1, PlainSame
<1>. QED BY <1>1, <1>2 DEF b
-----------------------------------------------------------------------------
(***************************************************************************)
(* The operations.                                                         *)
(***************************************************************************)
LEMMA PlainBonus ==
    ASSUME NEW a \in Account, NEW day \in Int
    PROVE  PlainlyFrom(a, WithBonus(a, day))
<1> DEFINE e == Earned(a, "EARN_BIRTHDAY", BirthdayBonus, NoOrder, day)
           q == Promoted(e)
           n == Len(a.ledger) + 1
           g == [year |-> YearOf(day), entry |-> n]
           gs == q.grants \cup {g}
           b == SetGrants(q, gs)
<1>1. /\ "EARN_BIRTHDAY" \in EntryTypes \ CommandTypes /\ BirthdayBonus \in Int
      /\ NoOrder \in Orders \cup {NoOrder}
  BY RulesAssumption DEF EntryTypes, Credits, CommandTypes
<1>2. PlainlyFrom(a, e) /\ e \in Account
  BY <1>1, PlainEarned DEF PlainlyFrom
<1> HIDE DEF e
<1>3. PlainlyFrom(e, q) /\ q \in Account
  BY <1>2, PlainPromoted DEF PlainlyFrom
<1>4. PlainlyFrom(a, q)
  BY <1>2, <1>3, PlainTransitive
<1>5. WithBonus(a, day) = b
  BY <1>3 DEF WithBonus, SetGrants, e, Account
<1> HIDE DEF q
<1>6. gs \in SUBSET BonusGrant
  <2>1. YearOf(day) \in Int /\ n \in Nat
    BY RulesAssumption DEF YearOf, Account
  <2>2. g \in BonusGrant
    BY <2>1 DEF BonusGrant
  <2>3. q.grants \in SUBSET BonusGrant
    BY <1>3 DEF Account
  <2> HIDE DEF g
  <2>. QED BY <2>2, <2>3
<1> HIDE DEF gs
<1>7. /\ b \in Account /\ b.ledger = q.ledger /\ b.upgrades = q.upgrades
      /\ b.checkout = q.checkout
  BY <1>3, <1>6 DEF SetGrants, Account
<1> HIDE DEF b
<1>8. PlainlyFrom(q, b)
  BY <1>3, <1>7, PlainSame
<1>. QED BY <1>3, <1>4, <1>5, <1>8, PlainTransitive

LEMMA PlainBirthday ==
    ASSUME NEW a \in Account, NEW r \in BirthdayRequest, NEW day \in Int
    PROVE  PlainlyFrom(a, WithBirthday(a, r, day))
<1> DEFINE o == Opened(a)
           dated == [o EXCEPT !.birthday = r.day]
<1>1. PlainlyFrom(a, o) /\ o \in Account
  BY PlainOpened DEF PlainlyFrom
<1>2. r.day \in Int
  BY RulesAssumption DEF BirthdayRequest
<1>3. WithBirthday(a, r, day) = IF BonusDue(dated, day) THEN WithBonus(dated, day)
                                ELSE dated
  BY DEF WithBirthday
<1> HIDE DEF o
<1>4. /\ dated \in Account /\ dated.ledger = o.ledger /\ dated.upgrades = o.upgrades
      /\ dated.checkout = o.checkout
  BY <1>1, <1>2 DEF Account
<1> HIDE DEF dated
<1>5. PlainlyFrom(a, dated)
  BY <1>1, <1>4, PlainSame, PlainTransitive
<1>6. PlainlyFrom(dated, WithBonus(dated, day))
  BY <1>4, PlainBonus
<1>. QED BY <1>3, <1>4, <1>5, <1>6, PlainTransitive

LEMMA PlainPurchase ==
    ASSUME NEW a \in Account, NEW r \in PurchaseRequest, NEW day \in Int
    PROVE  PlainlyFrom(a, Purchased(a, r, day))
<1> DEFINE n == PointsEarned(a, r, day)
           type == IF r.special THEN "EARN_SPECIAL" ELSE "EARN_TICKET"
           o == Opened(a)
           v == o.yearVisits + 1
           visited == [o EXCEPT !.yearVisits = v]
           credited == IF n > 0 THEN Earned(visited, type, n, r.order, day)
                       ELSE visited
           p == Promoted(credited)
           is == p.intents \cup Intents(r)
           b == [p EXCEPT !.intents = is]
<1>1. PlainlyFrom(a, o) /\ o \in Account
  BY PlainOpened DEF PlainlyFrom
<1>2. n \in Int
  BY EarnedIsInteger
<1>3. /\ type \in EntryTypes \ CommandTypes /\ r.order \in Orders \cup {NoOrder}
  BY DEF EntryTypes, Credits, CommandTypes, PurchaseRequest
<1>4. Purchased(a, r, day) = b
  BY <1>1 DEF Purchased, Account
<1> HIDE DEF o, n, type
<1>5. v \in Int
  BY <1>1 DEF Account
<1> HIDE DEF v
<1>6. /\ visited \in Account /\ visited.ledger = o.ledger
      /\ visited.upgrades = o.upgrades /\ visited.checkout = o.checkout
  BY <1>1, <1>5 DEF Account
<1> HIDE DEF visited
<1>7. PlainlyFrom(a, visited)
  BY <1>1, <1>6, PlainSame, PlainTransitive
<1>8. PlainlyFrom(a, credited) /\ credited \in Account
  <2>1. PlainlyFrom(visited, Earned(visited, type, n, r.order, day))
    BY <1>2, <1>3, <1>6, PlainEarned
  <2>. QED BY <1>6, <1>7, <2>1, PlainTransitive DEF PlainlyFrom
<1> HIDE DEF credited
<1>9. PlainlyFrom(a, p) /\ p \in Account
  BY <1>8, PlainPromoted, PlainTransitive DEF PlainlyFrom
<1> HIDE DEF p
<1>10. is \in SUBSET Intent
  BY <1>9 DEF Intents, Intent, ActionType, PurchaseRequest, Account
<1> HIDE DEF is
<1>11. /\ b \in Account /\ b.ledger = p.ledger /\ b.upgrades = p.upgrades
       /\ b.checkout = p.checkout
  BY <1>9, <1>10 DEF Account
<1> HIDE DEF b
<1>. QED BY <1>4, <1>9, <1>11, PlainSame, PlainTransitive

LEMMA PlainAdjustment ==
    ASSUME NEW a \in Account, NEW r \in AdminRequest, NEW day \in Int
    PROVE  PlainlyFrom(a, Adjusted(a, r, day))
<1> DEFINE o == Opened(a)
           up == Earned(o, "ADMIN_ADDITION", r.amount, NoOrder, day)
           down == Posted(o, "ADMIN_DEDUCTION", r.amount, NoOrder)
<1>1. PlainlyFrom(a, o) /\ o \in Account
  BY PlainOpened DEF PlainlyFrom
<1>2. /\ r.amount \in Int /\ NoOrder \in Orders \cup {NoOrder}
      /\ {"ADMIN_ADDITION", "ADMIN_DEDUCTION"} \subseteq EntryTypes \ CommandTypes
  BY DEF AdminRequest, EntryTypes, Credits, Debits, CommandTypes
<1>3. Adjusted(a, r, day) = IF r.amount > 0 THEN Promoted(up) ELSE Promoted(down)
  BY DEF Adjusted
<1> HIDE DEF o
<1>4. PlainlyFrom(o, up) /\ PlainlyFrom(o, down)
  BY <1>1, <1>2, PlainEarned, PlainPosted
<1> HIDE DEF up, down
<1>5. /\ PlainlyFrom(a, up) /\ up \in Account
      /\ PlainlyFrom(a, down) /\ down \in Account
  BY <1>1, <1>4, PlainTransitive DEF PlainlyFrom
<1>. QED BY <1>3, <1>5, PlainPromoted, PlainTransitive

LEMMA PlainVip ==
    ASSUME NEW a \in Account
    PROVE  PlainlyFrom(a, MadeVip(a))
<1> DEFINE o == Opened(a)
           v == AtTier(o, Gold)
<1>1. PlainlyFrom(a, o) /\ o \in Account
  BY PlainOpened DEF PlainlyFrom
<1>2. MadeVip(a) = Posted(v, "ADMIN_ADDITION", 0, NoOrder)
  BY DEF MadeVip
<1> HIDE DEF o
<1>3. PlainlyFrom(a, v) /\ v \in Account
  BY <1>1, PlainTier, PlainTransitive DEF PlainlyFrom, Tier
<1> HIDE DEF v
<1>4. "ADMIN_ADDITION" \in EntryTypes \ CommandTypes /\ NoOrder \in Orders \cup {NoOrder}
  BY DEF EntryTypes, Credits, CommandTypes
<1>5. PlainlyFrom(v, Posted(v, "ADMIN_ADDITION", 0, NoOrder))
  BY <1>3, <1>4, PlainPosted
<1>. QED BY <1>2, <1>3, <1>5, PlainTransitive

LEMMA PlainReward ==
    ASSUME NEW a \in Account, NEW r \in RewardRequest
    PROVE  PlainlyFrom(a, Rewarded(a, r))
<1> DEFINE o == Opened(a)
           p == Posted(o, "EARN_ACHIEVEMENT", r.amount, NoOrder)
           l == p.lifetime + r.amount
           b == [p EXCEPT !.lifetime = l]
<1>1. PlainlyFrom(a, o) /\ o \in Account
  BY PlainOpened DEF PlainlyFrom
<1>2. /\ r.amount \in Int /\ NoOrder \in Orders \cup {NoOrder}
      /\ "EARN_ACHIEVEMENT" \in EntryTypes \ CommandTypes
  BY DEF RewardRequest, EntryTypes, Credits, CommandTypes
<1>3. PlainlyFrom(o, p) /\ p \in Account
  <2> HIDE DEF o
  <2>. QED BY <1>1, <1>2, PlainPosted DEF PlainlyFrom
<1>4. Rewarded(a, r) = IF r.amount = 0 THEN o ELSE b
  BY <1>3 DEF Rewarded, Account
<1> HIDE DEF o, p
<1>5. l \in Int
  BY <1>2, <1>3 DEF Account
<1> HIDE DEF l
<1>6. /\ b \in Account /\ b.ledger = p.ledger /\ b.upgrades = p.upgrades
      /\ b.checkout = p.checkout
  BY <1>3, <1>5 DEF Account
<1> HIDE DEF b
<1>7. PlainlyFrom(a, p)
  BY <1>1, <1>3, PlainTransitive
<1>. QED BY <1>1, <1>3, <1>4, <1>6, <1>7, PlainSame, PlainTransitive

LEMMA PlainExpiry ==
    ASSUME NEW a \in Account
    PROVE  PlainlyFrom(a, Expired(a))
<1>1. /\ -a.balance \in Int /\ NoOrder \in Orders \cup {NoOrder}
      /\ "EXPIRE" \in EntryTypes \ CommandTypes
  BY DEF Account, EntryTypes, Debits, CommandTypes
<1>. QED BY <1>1, PlainPosted DEF Expired

LEMMA PlainReset ==
    ASSUME NEW a \in Account
    PROVE  PlainlyFrom(a, StatsReset(a))
<1>1. StatsReset(a) = SetYear(a, 0, 0)
  BY DEF StatsReset, SetYear
<1>2. /\ SetYear(a, 0, 0) \in Account /\ SameRows(a, SetYear(a, 0, 0))
  BY YearColumns
<1>. QED BY <1>1, <1>2, PlainSame DEF SameRows

\* Account b is account a after the point command r: one row more, and the row
\* the command leaves under its key answers it.
CommandFrom(a, b, r) ==
    /\ b \in Account /\ GoesOnFrom(a, b)
    /\ Len(b.ledger) = Len(a.ledger) + 1
    /\ b.ledger[Len(b.ledger)].type \in CommandTypes
    /\ Answers(CommandRow(r, b.balance), b.ledger[Len(b.ledger)])

LEMMA DeductionRecorded ==
    ASSUME NEW a \in Account, NEW r \in PointRequest, r.op = "DEDUCT"
    PROVE  CommandFrom(a, Deducted(a, r), r)
<1> DEFINE p  == Posted(a, "BURN_DISCOUNT", -r.amount, r.order)
           d  == [debit |-> Len(a.ledger) + 1, refund |-> 0]
           cs == p.checkout \cup {d}
           b  == SetCheckout(p, cs)
           n  == Len(a.ledger) + 1
<1>1. /\ -r.amount \in Int /\ r.order \in Orders \cup {NoOrder}
      /\ "BURN_DISCOUNT" \in EntryTypes
  BY DEF PointRequest, EntryTypes, Debits
<1>2. /\ p \in Account /\ PostsRow(a, p, "BURN_DISCOUNT", -r.amount, r.order)
      /\ p.checkout = a.checkout /\ p.upgrades = a.upgrades
  BY <1>1, PostedShape
<1>3. Len(a.ledger) \in Nat /\ Len(a.upgrades) \in Nat
  BY DEF Account
<1> HIDE DEF p
<1>4. cs \in SUBSET CheckoutDebit
  <2>1. d \in CheckoutDebit
    BY <1>3 DEF CheckoutDebit
  <2>2. p.checkout \in SUBSET CheckoutDebit
    BY <1>2 DEF Account
  <2> HIDE DEF d
  <2>. QED BY <2>1, <2>2
<1>5. Deducted(a, r) = b
  BY <1>2 DEF Deducted, SetCheckout, p, Account
<1>6. \A c \in a.checkout : c \in cs
  BY <1>2
<1> HIDE DEF cs
<1>7. /\ b \in Account /\ b.checkout = cs /\ b.balance = p.balance
      /\ b.ledger = p.ledger /\ b.upgrades = p.upgrades
  BY <1>2, <1>4 DEF SetCheckout, Account
<1> HIDE DEF b
<1>8. /\ Len(b.ledger) = n /\ b.balance = a.balance + (-r.amount)
      /\ \A i \in 1..Len(a.ledger) : b.ledger[i] = a.ledger[i]
      /\ b.ledger[n].type = "BURN_DISCOUNT" /\ b.ledger[n].points = -r.amount
      /\ b.ledger[n].order = r.order /\ b.ledger[n].balanceAfter = b.balance
  BY <1>2, <1>7 DEF PostsRow
<1>9. GoesOnFrom(a, b)
  BY <1>2, <1>3, <1>6, <1>7, <1>8 DEF GoesOnFrom, IsExtension
<1>10. Answers(CommandRow(r, b.balance), b.ledger[n])
  BY <1>8 DEF Answers, CommandRow
<1>11. CommandFrom(a, b, r)
  BY <1>7, <1>8, <1>9, <1>10 DEF CommandFrom, CommandTypes
<1>. QED BY <1>5, <1>11

\* The link of the refund changes only the debit that had none.
LEMMA RefundRecorded ==
    ASSUME NEW a \in Account, NEW r \in PointRequest, r.op = "REFUND",
           AccountCompensated(a), CanRefund(a, r)
    PROVE  CommandFrom(a, Refunded(a, r), r)
<1> DEFINE p == Posted(a, "REFUND", r.amount, r.order)
           n == Len(a.ledger) + 1
           burns == EntriesOf(a, "BURN_DISCOUNT", r.order)
           linked(c) == IF c.debit \in burns THEN [c EXCEPT !.refund = n] ELSE c
           cs == {linked(c) : c \in a.checkout}
           b  == SetCheckout(p, cs)
<1>1. r.amount \in Int /\ r.order \in Orders \cup {NoOrder} /\ "REFUND" \in EntryTypes
  BY DEF PointRequest, EntryTypes, Credits
<1>2. /\ p \in Account /\ PostsRow(a, p, "REFUND", r.amount, r.order)
      /\ p.checkout = a.checkout /\ p.upgrades = a.upgrades
  BY <1>1, PostedShape
<1>3. Len(a.ledger) \in Nat /\ Len(a.upgrades) \in Nat /\ n \in Nat
  BY DEF Account
<1>4. PICK d \in burns : burns = {d} /\ [debit |-> d, refund |-> 0] \in a.checkout
  BY DEF CanRefund
<1>5. Refunded(a, r) = b
  BY <1>2 DEF Refunded, SetCheckout, Account
<1> HIDE DEF p, burns, n
<1>6. cs \in SUBSET CheckoutDebit
  <2>1. ASSUME NEW c \in a.checkout
        PROVE  linked(c) \in CheckoutDebit
    <3>1. c \in CheckoutDebit
      BY DEF Account
    <3>. QED BY <1>3, <3>1 DEF CheckoutDebit
  <2>. QED BY <2>1
<1>7. \A c \in a.checkout : c.refund # 0 => c \in cs
  <2>1. ASSUME NEW c \in a.checkout, c.refund # 0
        PROVE  c.debit \notin burns
    <3>1. PICK x \in a.checkout : x = [debit |-> d, refund |-> 0]
      BY <1>4
    <3>2. x.debit = d /\ x.refund = 0
      BY <3>1
    <3>3. c.debit # x.debit
      BY <2>1, <3>2 DEF AccountCompensated
    <3>. QED BY <1>4, <3>2, <3>3
  <2>2. \A c \in a.checkout : c.refund # 0 => linked(c) = c
    BY <2>1
  <2> HIDE DEF linked
  <2>. QED BY <2>2
<1> HIDE DEF cs
<1>8. /\ b \in Account /\ b.checkout = cs /\ b.balance = p.balance
      /\ b.ledger = p.ledger /\ b.upgrades = p.upgrades
  BY <1>2, <1>6 DEF SetCheckout, Account
<1> HIDE DEF b
<1>9. /\ Len(b.ledger) = n /\ b.balance = a.balance + r.amount
      /\ \A i \in 1..Len(a.ledger) : b.ledger[i] = a.ledger[i]
      /\ b.ledger[n].type = "REFUND" /\ b.ledger[n].points = r.amount
      /\ b.ledger[n].order = r.order /\ b.ledger[n].balanceAfter = b.balance
  BY <1>2, <1>8 DEF PostsRow, n
<1>10. GoesOnFrom(a, b)
  BY <1>2, <1>3, <1>7, <1>8, <1>9 DEF GoesOnFrom, IsExtension, n
<1>11. Answers(CommandRow(r, b.balance), b.ledger[n])
  BY <1>9 DEF Answers, CommandRow
<1>12. CommandFrom(a, b, r)
  BY <1>8, <1>9, <1>10, <1>11 DEF CommandFrom, CommandTypes, n
<1>. QED BY <1>5, <1>12

Operations == {"DEDUCT", "REFUND", "PURCHASE", "REWARD", "ADMIN", "VIP",
               "DOB", "BIRTHDAY", "EXPIRE", "ANNUAL", "OPEN"}

\* What a request that is carried out makes of the account's history.
LEMMA AfterGoesOn ==
    ASSUME NEW a, NEW r \in Request, NEW day \in Int, AccountInv(a),
           r.op \in Operations, Accepts(a, r, day)
    PROVE  IF r.op \in {"DEDUCT", "REFUND"} THEN CommandFrom(a, After(a, r, day), r)
           ELSE PlainlyFrom(a, After(a, r, day))
<1>1. a \in Account /\ AccountCompensated(a)
  BY DEF AccountInv, Books
<1>2. CASE r.op = "DEDUCT"
  BY <1>1, <1>2, RequestForms, DeductionRecorded DEF After
<1>3. CASE r.op = "REFUND"
  <2>1. CanRefund(a, r) /\ After(a, r, day) = Refunded(a, r)
    BY <1>3 DEF Accepts, After
  <2>. QED BY <1>1, <1>3, <2>1, RequestForms, RefundRecorded
<1>4. CASE r.op = "PURCHASE"
  BY <1>1, <1>4, RequestForms, PlainPurchase DEF After
<1>5. CASE r.op = "REWARD"
  BY <1>1, <1>5, RequestForms, PlainReward DEF After
<1>6. CASE r.op = "ADMIN"
  BY <1>1, <1>6, RequestForms, PlainAdjustment DEF After
<1>7. CASE r.op = "VIP"
  BY <1>1, <1>7, PlainVip DEF After
<1>8. CASE r.op = "DOB"
  BY <1>1, <1>8, RequestForms, PlainBirthday DEF After
<1>9. CASE r.op = "BIRTHDAY"
  BY <1>1, <1>9, PlainBonus DEF After
<1>10. CASE r.op = "EXPIRE"
  BY <1>1, <1>10, PlainExpiry DEF After
<1>11. CASE r.op = "ANNUAL"
  BY <1>1, <1>11, PlainReset DEF After
<1>12. CASE r.op = "OPEN"
  BY <1>1, <1>12, PlainOpened DEF After
<1>. QED BY <1>2, <1>3, <1>4, <1>5, <1>6, <1>7, <1>8, <1>9, <1>10, <1>11, <1>12
         DEF Operations
-----------------------------------------------------------------------------
(***************************************************************************)
(* What an operation adds to a ledger: one row at most, and an EXPIRE row  *)
(* only when the operation is the expiry.                                  *)
(***************************************************************************)
\* Account b is account a with at most one more row, of one of these types.
Follows(a, b, types) ==
    /\ b \in Account
    /\ b.exists = a.exists
    /\ \/ b.ledger = a.ledger
       \/ /\ Len(b.ledger) = Len(a.ledger) + 1
          /\ b.ledger[Len(a.ledger) + 1].type \in types

NoExpiry == EntryTypes \ {"EXPIRE"}

LEMMA FollowsOn ==
    ASSUME NEW a, NEW b, NEW c \in Account, NEW types, Follows(a, b, types),
           c.exists = b.exists, c.ledger = b.ledger
    PROVE  Follows(a, c, types)
  BY DEF Follows

LEMMA OpenedFollows ==
    ASSUME NEW a \in Account
    PROVE  /\ Opened(a) \in Account /\ Opened(a).exists
           /\ Opened(a).ledger = a.ledger
           /\ a.exists => Opened(a).exists = a.exists
  BY DEF Opened, Account

LEMMA PostedFollows ==
    ASSUME NEW a \in Account, NEW types, NEW type \in EntryTypes \cap types,
           NEW points \in Int, NEW order \in Orders \cup {NoOrder}
    PROVE  Follows(a, Posted(a, type, points, order), types)
<1>1. LET b == Posted(a, type, points, order) IN
      b \in Account /\ PostsRow(a, b, type, points, order) /\ b.exists = a.exists
  BY PostedShape
<1>. QED BY <1>1 DEF Follows, PostsRow

LEMMA EarnedFollows ==
    ASSUME NEW a \in Account, NEW types, NEW type \in EntryTypes \cap types,
           NEW points \in Int, NEW order \in Orders \cup {NoOrder}, NEW day \in Int
    PROVE  Follows(a, Earned(a, type, points, order, day), types)
<1> DEFINE p == Posted(a, type, points, order)
           l == p.lifetime + points
           y == p.yearPoints + points
           d == AddYear(day)
<1>1. Follows(a, p, types)
  BY PostedFollows
<1>2. p \in Account
  BY <1>1 DEF Follows
<1>3. Earned(a, type, points, order, day) = SetEarning(p, l, y, d)
  BY <1>2 DEF Earned, SetEarning, Account
<1>4. l \in Int /\ y \in Int /\ d \in Int
  BY <1>2, RulesAssumption DEF AddYear, Account
<1> HIDE DEF p, l, y, d
<1>5. LET b == SetEarning(p, l, y, d) IN
      b \in Account /\ b.ledger = p.ledger /\ b.exists = p.exists
  BY <1>2, <1>4, EarningColumns DEF SameRows
<1>. QED BY <1>1, <1>3, <1>5, FollowsOn

LEMMA TierFollows ==
    ASSUME NEW a \in Account, NEW t \in Tier
    PROVE  LET b == AtTier(a, t) IN
           b \in Account /\ b.exists = a.exists /\ b.ledger = a.ledger
<1> DEFINE e  == [from |-> a.tier, to |-> t]
           us == Append(a.upgrades, e)
<1>1. CASE t = a.tier
  BY <1>1 DEF AtTier
<1>2. CASE t # a.tier
  <2>1. AtTier(a, t) = SetTier(a, t, us)
    BY <1>2 DEF AtTier, SetTier, Account
  <2>2. us \in Seq(TierUpgrade)
    <3>1. e \in TierUpgrade /\ a.upgrades \in Seq(TierUpgrade)
      BY DEF TierUpgrade, Account
    <3> HIDE DEF e
    <3>. QED BY <3>1
  <2> HIDE DEF us
  <2>3. LET b == SetTier(a, t, us) IN
        b \in Account /\ b.exists = a.exists /\ b.ledger = a.ledger
    BY <2>2 DEF SetTier, Account
  <2>. QED BY <2>1, <2>3
<1>. QED BY <1>1, <1>2

LEMMA PromotedFollows ==
    ASSUME NEW a \in Account
    PROVE  LET b == Promoted(a) IN
           b \in Account /\ b.exists = a.exists /\ b.ledger = a.ledger
<1> DEFINE t == ResolveNewTier(a.tier, a.yearVisits, a.yearPoints)
<1>1. t \in Tier
  BY NewTierRises DEF Account
<1>2. Promoted(a) = AtTier(a, t)
  BY DEF Promoted
<1> HIDE DEF t
<1>. QED BY <1>1, <1>2, TierFollows

LEMMA BonusFollows ==
    ASSUME NEW a \in Account, NEW day \in Int
    PROVE  Follows(a, WithBonus(a, day), NoExpiry)
<1> DEFINE e == Earned(a, "EARN_BIRTHDAY", BirthdayBonus, NoOrder, day)
           q == Promoted(e)
           gs == q.grants \cup {[year |-> YearOf(day), entry |-> Len(a.ledger) + 1]}
           b == SetGrants(q, gs)
<1>1. /\ "EARN_BIRTHDAY" \in EntryTypes \cap NoExpiry /\ BirthdayBonus \in Int
      /\ NoOrder \in Orders \cup {NoOrder}
  BY RulesAssumption DEF EntryTypes, Credits, NoExpiry
<1>2. Follows(a, e, NoExpiry)
  BY <1>1, EarnedFollows
<1> HIDE DEF e
<1>3. Follows(a, q, NoExpiry) /\ q \in Account
  BY <1>2, PromotedFollows, FollowsOn DEF Follows
<1>4. WithBonus(a, day) = b
  BY <1>3 DEF WithBonus, SetGrants, e, Account
<1>5. WithBonus(a, day) \in Account
  BY PlainBonus DEF PlainlyFrom
<1> HIDE DEF q, gs
<1>6. b.exists = q.exists /\ b.ledger = q.ledger
  BY <1>3 DEF SetGrants, Account
<1>. QED BY <1>3, <1>4, <1>5, <1>6, FollowsOn

LEMMA BirthdayFollows ==
    ASSUME NEW a \in Account, NEW r \in BirthdayRequest, NEW day \in Int
    PROVE  Follows(Opened(a), WithBirthday(a, r, day), NoExpiry)
<1> DEFINE o == Opened(a)
           dated == [o EXCEPT !.birthday = r.day]
<1>1. o \in Account
  BY OpenedFollows
<1>2. r.day \in Int
  BY RulesAssumption DEF BirthdayRequest
<1>3. WithBirthday(a, r, day) = IF BonusDue(dated, day) THEN WithBonus(dated, day)
                                ELSE dated
  BY DEF WithBirthday
<1> HIDE DEF o
<1>4. dated \in Account /\ dated.ledger = o.ledger /\ dated.exists = o.exists
  BY <1>1, <1>2 DEF Account
<1> HIDE DEF dated
<1>5. Follows(dated, WithBonus(dated, day), NoExpiry)
  BY <1>4, BonusFollows
<1>6. Follows(o, WithBonus(dated, day), NoExpiry) /\ Follows(o, dated, NoExpiry)
  BY <1>4, <1>5 DEF Follows
<1>. QED BY <1>3, <1>6 DEF o

LEMMA PurchaseFollows ==
    ASSUME NEW a \in Account, NEW r \in PurchaseRequest, NEW day \in Int
    PROVE  Follows(Opened(a), Purchased(a, r, day), NoExpiry)
<1> DEFINE n == PointsEarned(a, r, day)
           type == IF r.special THEN "EARN_SPECIAL" ELSE "EARN_TICKET"
           o == Opened(a)
           v == o.yearVisits + 1
           visited == [o EXCEPT !.yearVisits = v]
           credited == IF n > 0 THEN Earned(visited, type, n, r.order, day)
                       ELSE visited
           p == Promoted(credited)
           is == p.intents \cup Intents(r)
           b == [p EXCEPT !.intents = is]
<1>1. o \in Account
  BY OpenedFollows
<1>2. n \in Int
  BY EarnedIsInteger
<1>3. /\ type \in EntryTypes \cap NoExpiry /\ r.order \in Orders \cup {NoOrder}
  BY DEF EntryTypes, Credits, NoExpiry, PurchaseRequest
<1>4. Purchased(a, r, day) = b
  BY <1>1 DEF Purchased, Account
<1>5. Purchased(a, r, day) \in Account
  BY PlainPurchase DEF PlainlyFrom
<1> HIDE DEF o, n, type
<1>6. v \in Int
  BY <1>1 DEF Account
<1> HIDE DEF v
<1>7. /\ visited \in Account /\ visited.ledger = o.ledger
      /\ visited.exists = o.exists
  BY <1>1, <1>6 DEF Account
<1> HIDE DEF visited
<1>8. Follows(o, credited, NoExpiry)
  <2>1. Follows(visited, Earned(visited, type, n, r.order, day), NoExpiry)
    BY <1>2, <1>3, <1>7, EarnedFollows
  <2>. QED BY <1>7, <2>1 DEF Follows
<1> HIDE DEF credited
<1>9. Follows(o, p, NoExpiry) /\ p \in Account
  BY <1>8, PromotedFollows, FollowsOn DEF Follows
<1> HIDE DEF p, is
<1>10. b.exists = p.exists /\ b.ledger = p.ledger
  BY <1>9 DEF Account
<1> HIDE DEF b
<1>. QED BY <1>4, <1>5, <1>9, <1>10, FollowsOn DEF o

LEMMA AdjustmentFollows ==
    ASSUME NEW a \in Account, NEW r \in AdminRequest, NEW day \in Int
    PROVE  Follows(Opened(a), Adjusted(a, r, day), NoExpiry)
<1> DEFINE o == Opened(a)
           up == Earned(o, "ADMIN_ADDITION", r.amount, NoOrder, day)
           down == Posted(o, "ADMIN_DEDUCTION", r.amount, NoOrder)
<1>1. o \in Account
  BY OpenedFollows
<1>2. /\ r.amount \in Int /\ NoOrder \in Orders \cup {NoOrder}
      /\ {"ADMIN_ADDITION", "ADMIN_DEDUCTION"} \subseteq EntryTypes \cap NoExpiry
  BY DEF AdminRequest, EntryTypes, Debits, Credits, NoExpiry
<1>3. Adjusted(a, r, day) = IF r.amount > 0 THEN Promoted(up) ELSE Promoted(down)
  BY DEF Adjusted
<1> HIDE DEF o
<1>4. Follows(o, up, NoExpiry) /\ Follows(o, down, NoExpiry)
  BY <1>1, <1>2, EarnedFollows, PostedFollows
<1> HIDE DEF up, down
<1>5. Follows(o, Promoted(up), NoExpiry) /\ Follows(o, Promoted(down), NoExpiry)
  BY <1>4, PromotedFollows, FollowsOn DEF Follows
<1>. QED BY <1>3, <1>5 DEF o

LEMMA VipFollows ==
    ASSUME NEW a \in Account
    PROVE  Follows(Opened(a), MadeVip(a), NoExpiry)
<1> DEFINE o == Opened(a)
           v == AtTier(o, Gold)
           b == Posted(v, "ADMIN_ADDITION", 0, NoOrder)
<1>1. o \in Account /\ Gold \in Tier
  BY OpenedFollows DEF Tier
<1> HIDE DEF o
<1>2. v \in Account /\ v.exists = o.exists /\ v.ledger = o.ledger
  BY <1>1, TierFollows
<1>3. /\ NoOrder \in Orders \cup {NoOrder} /\ 0 \in Int
      /\ "ADMIN_ADDITION" \in EntryTypes \cap NoExpiry
  BY DEF EntryTypes, Credits, NoExpiry
<1>4. MadeVip(a) = b
  BY DEF MadeVip, o
<1> HIDE DEF v
<1>5. Follows(v, b, NoExpiry)
  BY <1>2, <1>3, PostedFollows
<1> HIDE DEF b
<1>6. Follows(o, b, NoExpiry)
  BY <1>2, <1>5 DEF Follows
<1>. QED BY <1>4, <1>6 DEF o

LEMMA RewardFollows ==
    ASSUME NEW a \in Account, NEW r \in RewardRequest
    PROVE  Follows(Opened(a), Rewarded(a, r), NoExpiry)
<1> DEFINE o == Opened(a)
           p == Posted(o, "EARN_ACHIEVEMENT", r.amount, NoOrder)
           l == p.lifetime + r.amount
           b == [p EXCEPT !.lifetime = l]
<1>1. o \in Account
  BY OpenedFollows
<1>2. /\ r.amount \in Int /\ NoOrder \in Orders \cup {NoOrder}
      /\ "EARN_ACHIEVEMENT" \in EntryTypes \cap NoExpiry
  BY DEF RewardRequest, EntryTypes, Credits, NoExpiry
<1>3. CASE r.amount = 0
  BY <1>1, <1>3 DEF Rewarded, Follows
<1>4. CASE r.amount # 0
  <2> HIDE DEF o
  <2>1. Follows(o, p, NoExpiry) /\ p \in Account
    BY <1>1, <1>2, PostedFollows DEF Follows
  <2>2. Rewarded(a, r) = b
    BY <1>4, <2>1 DEF Rewarded, o, Account
  <2>3. Rewarded(a, r) \in Account
    BY PlainReward DEF PlainlyFrom
  <2> HIDE DEF p, l
  <2>4. b.exists = p.exists /\ b.ledger = p.ledger
    BY <2>1 DEF Account
  <2>. QED BY <2>1, <2>2, <2>3, <2>4, FollowsOn DEF o
<1>. QED BY <1>3, <1>4

\* A point command adds one row to an account that exists.
LEMMA CommandFollows ==
    ASSUME NEW a \in Account, NEW b, NEW r, CommandFrom(a, b, r),
           b.exists = a.exists
    PROVE  Follows(a, b, NoExpiry)
<1>1. CommandTypes \subseteq NoExpiry
  BY DEF CommandTypes, NoExpiry, EntryTypes, Debits, Credits
<1>. QED BY <1>1 DEF CommandFrom, Follows

LEMMA AfterFollows ==
    ASSUME NEW a, NEW r \in Request, NEW day \in Int, AccountInv(a),
           r.op \in Operations, Accepts(a, r, day)
    PROVE  LET b == After(a, r, day) IN
           /\ b \in Account /\ b.exists
           /\ \/ b.ledger = a.ledger
              \/ /\ Len(b.ledger) = Len(a.ledger) + 1
                 /\ b.ledger[Len(a.ledger) + 1].type = "EXPIRE" => r.op = "EXPIRE"
<1> DEFINE b == After(a, r, day)
           types == IF r.op = "EXPIRE" THEN EntryTypes ELSE NoExpiry
<1>1. a \in Account
  BY DEF AccountInv
<1>2. (Follows(a, b, types) /\ a.exists) \/ Follows(Opened(a), b, types)
  <2>1. CASE r.op = "DEDUCT"
    <3> DEFINE p == Posted(a, "BURN_DISCOUNT", -r.amount, r.order)
               cs == p.checkout \cup {[debit |-> Len(a.ledger) + 1, refund |-> 0]}
    <3>1. CommandFrom(a, b, r) /\ a.exists
      BY <2>1, AfterGoesOn DEF Accepts, CanDeduct
    <3>2. r \in PointRequest
      BY <2>1, RequestForms
    <3>3. /\ "BURN_DISCOUNT" \in EntryTypes \cap NoExpiry /\ -r.amount \in Int
          /\ r.order \in Orders \cup {NoOrder}
      BY <3>2 DEF EntryTypes, Debits, NoExpiry, PointRequest
    <3>4. p \in Account /\ p.exists = a.exists
      BY <1>1, <3>3, PostedFollows DEF Follows
    <3>5. b = [p EXCEPT !.checkout = cs]
      BY <2>1, <3>4 DEF After, Deducted, Account
    <3> HIDE DEF b, p, cs
    <3>6. b.exists = a.exists
      BY <3>4, <3>5 DEF Account
    <3>. QED BY <1>1, <2>1, <3>1, <3>6, CommandFollows
  <2>2. CASE r.op = "REFUND"
    <3> DEFINE p == Posted(a, "REFUND", r.amount, r.order)
    <3>1. CommandFrom(a, b, r) /\ a.exists
      BY <2>2, AfterGoesOn DEF Accepts, CanRefund
    <3>2. r \in PointRequest
      BY <2>2, RequestForms
    <3>3. /\ "REFUND" \in EntryTypes \cap NoExpiry /\ r.amount \in Int
          /\ r.order \in Orders \cup {NoOrder}
      BY <3>2 DEF EntryTypes, Credits, NoExpiry, PointRequest
    <3>4. p \in Account /\ p.exists = a.exists
      BY <1>1, <3>3, PostedFollows DEF Follows
    <3>5. PICK cs : b = [p EXCEPT !.checkout = cs]
      BY <2>2 DEF After, Refunded
    <3> HIDE DEF b, p
    <3>6. b.exists = a.exists
      BY <3>4, <3>5 DEF Account
    <3>. QED BY <1>1, <2>2, <3>1, <3>6, CommandFollows
  <2>3. CASE r.op = "PURCHASE"
    BY <1>1, <2>3, RequestForms, PurchaseFollows DEF After
  <2>4. CASE r.op = "REWARD"
    BY <1>1, <2>4, RequestForms, RewardFollows DEF After
  <2>5. CASE r.op = "ADMIN"
    BY <1>1, <2>5, RequestForms, AdjustmentFollows DEF After
  <2>6. CASE r.op = "VIP"
    BY <1>1, <2>6, VipFollows DEF After
  <2>7. CASE r.op = "DOB"
    BY <1>1, <2>7, RequestForms, BirthdayFollows DEF After
  <2>8. CASE r.op = "BIRTHDAY"
    BY <1>1, <2>8, BonusFollows DEF After, Accepts, BonusDue
  <2>9. CASE r.op = "EXPIRE"
    <3>1. /\ "EXPIRE" \in EntryTypes \cap EntryTypes /\ -a.balance \in Int
          /\ NoOrder \in Orders \cup {NoOrder}
      BY <1>1 DEF EntryTypes, Debits, Account
    <3>2. b = Posted(a, "EXPIRE", -a.balance, NoOrder) /\ a.exists
      BY <2>9 DEF After, Expired, Accepts, ExpiryDue
    <3> HIDE DEF b
    <3>. QED BY <1>1, <2>9, <3>1, <3>2, PostedFollows
  <2>10. CASE r.op = "ANNUAL"
    <3>1. b = SetYear(a, 0, 0) /\ a.exists
      BY <2>10 DEF After, StatsReset, SetYear, Accepts
    <3> HIDE DEF b
    <3>2. b \in Account /\ b.ledger = a.ledger /\ b.exists = a.exists
      <4>1. SetYear(a, 0, 0) \in Account /\ SetYear(a, 0, 0).ledger = a.ledger
        BY <1>1, YearColumns DEF SameRows
      <4>2. SetYear(a, 0, 0).exists = a.exists
        BY <1>1 DEF SetYear, Account
      <4>. QED BY <3>1, <4>1, <4>2
    <3>. QED BY <3>1, <3>2 DEF Follows
  <2>11. CASE r.op = "OPEN"
    BY <1>1, <2>11, OpenedFollows DEF After, Follows
  <2>. QED BY <2>1, <2>2, <2>3, <2>4, <2>5, <2>6, <2>7, <2>8, <2>9, <2>10,
              <2>11 DEF Operations
<1> HIDE DEF b
<1>3. /\ b \in Account /\ b.exists
      /\ \/ b.ledger = a.ledger
         \/ /\ Len(b.ledger) = Len(a.ledger) + 1
            /\ b.ledger[Len(a.ledger) + 1].type \in types
  BY <1>1, <1>2, OpenedFollows DEF Follows
<1>4. "EXPIRE" \in types => r.op = "EXPIRE"
  BY DEF NoExpiry
<1>. QED BY <1>3, <1>4 DEF b
-----------------------------------------------------------------------------
(***************************************************************************)
(* What every step does to one account and to the keys.                    *)
(***************************************************************************)
\* A step that changes no account's commands, and no key but to a marker.
PlainStep ==
    /\ \E u \in Users : \E b :
         /\ accounts' = [accounts EXCEPT ![u] = b]
         /\ PlainlyFrom(accounts[u], b)
    /\ \A k \in Keys : \/ processed'[k] = processed[k]
                       \/ processed[k] = NoRow /\ processed'[k] = EventRow

\* A step that carries out a point command.
CommandStep ==
    \E r \in PointRequest : \E b :
       /\ accounts' = [accounts EXCEPT ![r.user] = b]
       /\ CommandFrom(accounts[r.user], b, r)
       /\ processed[r.key] = NoRow
       /\ processed' = [processed EXCEPT ![r.key] = CommandRow(r, b.balance)]

AccountsMove == PlainStep \/ CommandStep \/ UNCHANGED <<accounts, processed>>

LEMMA PointRequestParts ==
    ASSUME NEW r \in PointRequest
    PROVE  r.user \in Users /\ r.key \in Keys
  BY DEF PointRequest

LEMMA PerformStep ==
    ASSUME IInv, NEW r \in Request, NEW asOf \in Int, Perform(r, asOf), r.op \in Operations
    PROVE  PlainStep \/ CommandStep
<1> DEFINE b == After(accounts[r.user], r, asOf)
<1>1. /\ r.user \in Users
      /\ AccountInv(accounts[r.user]) /\ processed \in [Keys -> Row]
  BY RequestForms DEF IInv, TypeOK
<1>2. accounts' = [accounts EXCEPT ![r.user] = b]
  BY DEF Perform
<1>3. CASE r.op \in {"DEDUCT", "REFUND"}
  <2>1. CommandFrom(accounts[r.user], b, r)
    BY <1>1, <1>3, AfterGoesOn DEF Perform
  <2>2. r \in PointRequest /\ processed[r.key] = NoRow
    BY <1>3, RequestForms DEF Perform, Fresh, HasKey
  <2>3. processed' = [processed EXCEPT ![r.key] = CommandRow(r, b.balance)]
    BY <1>3 DEF Perform, HasKey, RowOf
  <2> HIDE DEF b
  <2>. QED BY <1>2, <2>1, <2>2, <2>3 DEF CommandStep
<1>4. CASE r.op \notin {"DEDUCT", "REFUND"}
  <2>1. PlainlyFrom(accounts[r.user], b)
    BY <1>1, <1>4, AfterGoesOn DEF Perform
  <2>2. \/ processed' = processed
        \/ HasKey(r) /\ processed[r.key] = NoRow
           /\ processed' = [processed EXCEPT ![r.key] = EventRow]
    BY <1>4 DEF Perform, Fresh, RowOf
  <2> HIDE DEF b
  <2>. QED BY <1>1, <1>2, <2>1, <2>2 DEF PlainStep
<1>. QED BY <1>3, <1>4

LEMMA NextSteps ==
    ASSUME IInv, Next
    PROVE  AccountsMove
<1>1. today \in Int /\ (\A day \in 0..today : day \in Int) /\ Requests \subseteq Request
  BY AccountsAssumption DEF IInv, TypeOK
<1>2. ASSUME NEW r \in Requests, SkipProcessed(r)
      PROVE  PlainStep
  <2>1. r.user \in Users /\ accounts[r.user] \in Account /\ processed' = processed
    BY <1>2, RequestKinds DEF IInv, TypeOK, SkipProcessed
  <2>2. accounts' = [accounts EXCEPT ![r.user] = Opened(accounts[r.user])]
    BY <1>2, <2>1 DEF SkipProcessed, IInv, TypeOK
  <2>. QED BY <2>1, <2>2, PlainOpened DEF PlainStep
<1>3. ASSUME NEW r \in Requests,
             \/ Deduct(r) \/ Refund(r) \/ Reward(r) \/ GrantVip(r)
             \/ AnnualReset(r) \/ OpenAccount(r)
      PROVE  PlainStep \/ CommandStep
  BY <1>1, <1>3, PerformStep
     DEF Deduct, Refund, Reward, GrantVip, AnnualReset, OpenAccount, Operations
<1>4. ASSUME NEW r \in Requests, NEW asOf \in 0..today,
             \/ Purchase(r, asOf) \/ ModifyPoints(r, asOf) \/ SetBirthday(r, asOf)
             \/ GrantBirthday(r, asOf) \/ ExpirePoints(r, asOf)
      PROVE  PlainStep \/ CommandStep
  BY <1>1, <1>4, PerformStep
     DEF Purchase, ModifyPoints, SetBirthday, GrantBirthday, ExpirePoints, Operations
<1>5. CASE Tick
  BY <1>5 DEF Tick, AccountsMove
<1>. QED BY <1>2, <1>3, <1>4, <1>5 DEF Next, AccountsMove

\* The step HistoryIsPermanent speaks of.
HistoryKept ==
    /\ \A u \in Users :
         /\ IsExtension(accounts[u].ledger, accounts'[u].ledger)
         /\ IsExtension(accounts[u].upgrades, accounts'[u].upgrades)
         /\ \A c \in accounts[u].checkout :
              c.refund # 0 => c \in accounts'[u].checkout
    /\ \A k \in Keys : processed[k] # NoRow => processed'[k] = processed[k]

LEMMA MoveKeepsHistory ==
    ASSUME IInv, AccountsMove
    PROVE  HistoryKept
<1>1. \A u \in Users : accounts[u] \in Account /\ GoesOnFrom(accounts[u], accounts[u])
  BY PlainSame DEF IInv, TypeOK, PlainlyFrom
<1>2. ASSUME NEW u \in Users, NEW b, accounts' = [accounts EXCEPT ![u] = b],
             GoesOnFrom(accounts[u], b)
      PROVE  \A v \in Users : GoesOnFrom(accounts[v], accounts'[v])
  BY <1>1, <1>2 DEF IInv, TypeOK
<1>3. (\A v \in Users : GoesOnFrom(accounts[v], accounts'[v]))
      /\ (\A k \in Keys : processed[k] # NoRow => processed'[k] = processed[k])
  <2>1. CASE PlainStep
    BY <1>2, <2>1 DEF PlainStep, PlainlyFrom
  <2>2. CASE CommandStep
    <3>0. PICK r \in PointRequest : CommandStep!(r)
      BY <2>2 DEF CommandStep
    <3>1. PICK b : CommandStep!(r)!(b)
      BY <3>0
    <3>2. \A v \in Users : GoesOnFrom(accounts[v], accounts'[v])
      BY <1>2, <3>1, PointRequestParts DEF CommandFrom
    <3>. QED BY <3>1, <3>2 DEF IInv, TypeOK
  <2>3. CASE UNCHANGED <<accounts, processed>>
    BY <1>1, <2>3
  <2>. QED BY <2>1, <2>2, <2>3 DEF AccountsMove
<1>. QED BY <1>3 DEF HistoryKept, GoesOnFrom

\* No operation, retry or refund rewrites what was recorded: ledgers and tier
\* events grow at their end, a key keeps the result it committed, and a refund
\* stays linked to its debit.
THEOREM HistoryAlwaysPermanent == AccountsSpec => HistoryIsPermanent
<1>1. IInv /\ [Next]_accountVars => [HistoryKept]_accountVars
  BY NextSteps, MoveKeepsHistory
<1>. QED BY <1>1, Invariance, PTL DEF AccountsSpec, HistoryIsPermanent, HistoryKept
-----------------------------------------------------------------------------
(***************************************************************************)
(* The keys and the ledger.                                                *)
(***************************************************************************)
\* Keys and rows can be counted, and a legacy user keeps the two legacy rows.
\* Keys need not be a finite set: each step uses one more.
KeysInv ==
    /\ IInv
    /\ \A u \in Users : IsFiniteSet(CommandKeys(u)) /\ IsFiniteSet(CommandEntries(u))
    /\ \A u \in LegacyUsers : Len(accounts[u].ledger) >= 2
    /\ KeysMatchLedger

\* The keys and the rows of one user match.
MatchesOf(u) ==
    /\ IsFiniteSet(CommandKeys(u)) /\ IsFiniteSet(CommandEntries(u))
    /\ u \in LegacyUsers => Len(accounts[u].ledger) >= 2
    /\ Cardinality(CommandKeys(u)) = Cardinality(CommandEntries(u))
    /\ \A i \in CommandEntries(u) : \E k \in CommandKeys(u) :
         Answers(processed[k], accounts[u].ledger[i])
    /\ \A k \in CommandKeys(u) : \E i \in CommandEntries(u) :
         Answers(processed[k], accounts[u].ledger[i])

LEMMA KeysInvByUser == KeysInv <=> IInv /\ \A u \in Users : MatchesOf(u)
  BY AccountsAssumption DEF KeysInv, MatchesOf, KeysMatchLedger

LEMMA MarkersAreNoCommands == NoRow \notin PointRow /\ EventRow \notin PointRow
  BY DEF NoRow, EventRow, PointRow

\* A user of whom no command is recorded and no command key changes.
LEMMA MatchesStay ==
    ASSUME IInv, IInv', NEW u \in Users, MatchesOf(u),
           PlainlyFrom(accounts[u], accounts'[u]),
           CommandKeys(u)' = CommandKeys(u),
           \A k \in CommandKeys(u) : processed'[k] = processed[k]
    PROVE  MatchesOf(u)'
<1>1. /\ Len(accounts[u].ledger) \in Nat /\ Len(accounts'[u].ledger) \in Nat
      /\ DOMAIN accounts[u].ledger = 1..Len(accounts[u].ledger)
      /\ DOMAIN accounts'[u].ledger = 1..Len(accounts'[u].ledger)
  <2>1. accounts[u] \in Account /\ accounts'[u] \in Account
    BY DEF IInv, TypeOK
  <2>2. accounts[u].ledger \in Seq(Entry) /\ accounts'[u].ledger \in Seq(Entry)
    BY <2>1 DEF Account
  <2>. QED BY <2>2
<1>2. /\ Len(accounts[u].ledger) <= Len(accounts'[u].ledger)
      /\ \A i \in 1..Len(accounts[u].ledger) : accounts'[u].ledger[i] = accounts[u].ledger[i]
      /\ \A i \in 1..Len(accounts'[u].ledger) :
           i > Len(accounts[u].ledger) => accounts'[u].ledger[i].type \notin CommandTypes
  BY DEF PlainlyFrom, GoesOnFrom, IsExtension
<1>3. CommandEntries(u)' = CommandEntries(u)
  BY <1>1, <1>2 DEF CommandEntries, CommandTypes
<1>4. \A i \in CommandEntries(u) : accounts'[u].ledger[i] = accounts[u].ledger[i]
  BY <1>1, <1>2 DEF CommandEntries
<1>. QED BY <1>1, <1>2, <1>3, <1>4 DEF MatchesOf

\* The user of a point command gets one key and one row more, and they match.
LEMMA MatchesGrow ==
    ASSUME IInv, IInv', NEW r \in PointRequest, r.key \in Keys, MatchesOf(r.user),
           NEW u \in Users, u = r.user, NEW b, b = accounts'[u],
           CommandFrom(accounts[u], b, r), processed[r.key] = NoRow,
           processed' = [processed EXCEPT ![r.key] = CommandRow(r, b.balance)]
    PROVE  MatchesOf(u)'
<1> DEFINE n == Len(accounts[u].ledger) + 1
           row == CommandRow(r, b.balance)
<1>1. /\ Len(accounts[u].ledger) \in Nat /\ Len(b.ledger) = n
      /\ DOMAIN accounts[u].ledger = 1..Len(accounts[u].ledger)
      /\ DOMAIN b.ledger = 1..n
  <2>1. accounts[u] \in Account /\ b \in Account /\ Len(b.ledger) = n
    BY DEF IInv, TypeOK, CommandFrom
  <2>2. accounts[u].ledger \in Seq(Entry) /\ b.ledger \in Seq(Entry)
    BY <2>1 DEF Account
  <2>. QED BY <2>1, <2>2
<1>2. /\ \A i \in 1..Len(accounts[u].ledger) : b.ledger[i] = accounts[u].ledger[i]
      /\ b.ledger[n].type \in CommandTypes /\ Answers(row, b.ledger[n])
  BY <1>1 DEF CommandFrom, GoesOnFrom, IsExtension
<1>3. row \in PointRow /\ row.user = u
  <2>1. b.balance \in Int
    BY DEF CommandFrom, Account
  <2>. QED BY <2>1 DEF CommandRow, PointRow, PointRequest
<1>4. /\ processed'[r.key] = row
      /\ \A k \in Keys \ {r.key} : processed'[k] = processed[k]
  BY DEF IInv, TypeOK
<1> HIDE DEF row
<1>5. CommandKeys(u)' = CommandKeys(u) \cup {r.key} /\ r.key \notin CommandKeys(u)
  BY <1>3, <1>4, MarkersAreNoCommands DEF CommandKeys
<1>6. CommandEntries(u)' = CommandEntries(u) \cup {n} /\ n \notin CommandEntries(u)
  <2>1. ~(u \in LegacyUsers /\ n = 2)
    BY <1>1 DEF MatchesOf
  <2>2. \A i : i \in CommandEntries(u)' <=> i \in CommandEntries(u) \/ i = n
    <3>1. DOMAIN accounts'[u].ledger = 1..n /\ n \in Nat /\ n \in 1..n
      BY <1>1
    <3>2. \A i : i \in 1..n <=> i \in 1..Len(accounts[u].ledger) \/ i = n
      BY <1>1
    <3>3. accounts'[u].ledger = b.ledger
      OBVIOUS
    <3> HIDE DEF n
    <3>. QED BY <1>1, <1>2, <2>1, <3>1, <3>2, <3>3 DEF CommandEntries, CommandTypes
  <2>3. n \notin CommandEntries(u)
    BY <1>1 DEF CommandEntries
  <2> HIDE DEF n
  <2>. QED BY <2>2, <2>3
<1>7. /\ IsFiniteSet(CommandKeys(u) \cup {r.key})
      /\ IsFiniteSet(CommandEntries(u) \cup {n})
      /\ Cardinality(CommandKeys(u) \cup {r.key}) = Cardinality(CommandEntries(u) \cup {n})
  <2> HIDE DEF n
  <2>1. /\ IsFiniteSet(CommandKeys(u)) /\ IsFiniteSet(CommandEntries(u))
        /\ Cardinality(CommandKeys(u)) = Cardinality(CommandEntries(u))
    BY DEF MatchesOf
  <2>2. /\ IsFiniteSet(CommandKeys(u) \cup {r.key})
        /\ Cardinality(CommandKeys(u) \cup {r.key}) = Cardinality(CommandKeys(u)) + 1
    BY <1>5, <2>1, FS_AddElement
  <2>3. /\ IsFiniteSet(CommandEntries(u) \cup {n})
        /\ Cardinality(CommandEntries(u) \cup {n}) = Cardinality(CommandEntries(u)) + 1
    BY <1>6, <2>1, FS_AddElement
  <2>. QED BY <2>1, <2>2, <2>3
<1>8. /\ \A k \in CommandKeys(u) : processed'[k] = processed[k]
      /\ \A i \in CommandEntries(u) : accounts'[u].ledger[i] = accounts[u].ledger[i]
      /\ accounts'[u].ledger[n] = b.ledger[n]
  BY <1>1, <1>2, <1>4, <1>5 DEF CommandKeys, CommandEntries
<1>9. /\ \A i \in CommandEntries(u)' : \E k \in CommandKeys(u)' :
           Answers(processed'[k], accounts'[u].ledger[i])
      /\ \A k \in CommandKeys(u)' : \E i \in CommandEntries(u)' :
           Answers(processed'[k], accounts'[u].ledger[i])
  BY <1>2, <1>4, <1>5, <1>6, <1>8 DEF MatchesOf
<1>. QED BY <1>1, <1>5, <1>6, <1>7, <1>9 DEF MatchesOf

LEMMA MoveKeepsKeys ==
    ASSUME KeysInv, IInv', AccountsMove
    PROVE  KeysInv'
<1>1. IInv /\ IInv' /\ \A u \in Users : MatchesOf(u)
  BY KeysInvByUser DEF KeysInv
<1>2. \A u \in Users : accounts[u] \in Account /\ PlainlyFrom(accounts[u], accounts[u])
  BY <1>1, PlainSame DEF IInv, TypeOK
<1>3. ASSUME NEW u \in Users, NEW b, accounts' = [accounts EXCEPT ![u] = b],
             NEW v \in Users
      PROVE  accounts'[v] = IF v = u THEN b ELSE accounts[v]
  BY <1>1, <1>3 DEF IInv, TypeOK
<1> SUFFICES ASSUME NEW v \in Users
             PROVE  MatchesOf(v)'
  BY <1>1, AccountsAssumption DEF KeysInv, MatchesOf, KeysMatchLedger
<1>4. CASE PlainStep
  <2>1. PlainlyFrom(accounts[v], accounts'[v])
    BY <1>2, <1>3, <1>4 DEF PlainStep
  <2>2. \A k \in Keys : processed[k] \in PointRow \/ processed'[k] \in PointRow
                           => processed'[k] = processed[k]
    BY <1>4, MarkersAreNoCommands DEF PlainStep
  <2>3. CommandKeys(v)' = CommandKeys(v)
    BY <2>2 DEF CommandKeys
  <2>. QED BY <1>1, <2>1, <2>2, <2>3, MatchesStay DEF CommandKeys
<1>5. CASE CommandStep
  <2>0. PICK r \in PointRequest : CommandStep!(r)
    BY <1>5 DEF CommandStep
  <2>1. PICK b : CommandStep!(r)!(b)
    BY <2>0
  <2>2. r.user \in Users /\ r.key \in Keys /\ r \in PointRequest
    BY <2>1, PointRequestParts
  <2>3. accounts'[v] = IF v = r.user THEN b ELSE accounts[v]
    BY <1>3, <2>1, <2>2
  <2>4. CASE v = r.user
    BY <1>1, <2>1, <2>2, <2>3, <2>4, MatchesGrow
  <2>5. CASE v # r.user
    <3>1. CommandRow(r, b.balance).user = r.user
      BY DEF CommandRow
    <3>2. /\ processed'[r.key] = CommandRow(r, b.balance) /\ processed[r.key] = NoRow
          /\ \A k \in Keys \ {r.key} : processed'[k] = processed[k]
      BY <1>1, <2>1, <2>2 DEF IInv, TypeOK
    <3>3. CommandKeys(v)' = CommandKeys(v) /\ r.key \notin CommandKeys(v)
      BY <2>5, <3>1, <3>2, MarkersAreNoCommands DEF CommandKeys
    <3>. QED BY <1>1, <1>2, <2>3, <2>5, <3>2, <3>3, MatchesStay DEF CommandKeys
  <2>. QED BY <2>4, <2>5
<1>6. CASE UNCHANGED <<accounts, processed>>
  BY <1>1, <1>6 DEF MatchesOf, CommandKeys, CommandEntries
<1>. QED BY <1>1, <1>4, <1>5, <1>6 DEF AccountsMove

LEMMA KeysInvStep ==
    ASSUME KeysInv, [Next]_accountVars
    PROVE  KeysInv'
<1>1. IInv /\ IInv'
  BY NextInv DEF KeysInv
<1>2. AccountsMove
  BY <1>1, NextSteps DEF accountVars, AccountsMove
<1>. QED BY <1>1, <1>2, MoveKeepsKeys

LEMMA KeysInvInit == Init => KeysInv
<1> SUFFICES ASSUME Init, NEW u \in Users
             PROVE  MatchesOf(u)
  BY InitInv, KeysInvByUser
<1>1. CommandKeys(u) = {}
  BY MarkersAreNoCommands DEF Init, CommandKeys
<1>2. CASE u \notin LegacyUsers
  <2>1. accounts[u].ledger = <<>>
    BY <1>2 DEF Init, NoAccount
  <2>2. CommandEntries(u) = {}
    BY <2>1 DEF CommandEntries
  <2>. QED BY <1>1, <1>2, <2>2, FS_EmptySet DEF MatchesOf
<1>3. CASE u \in LegacyUsers
  <2>1. /\ Len(accounts[u].ledger) = 2 /\ DOMAIN accounts[u].ledger = 1..2
        /\ accounts[u].ledger[1].type = "EARN_TICKET"
    <3> DEFINE e == 2 * LegacyDebit
               first == [type |-> "EARN_TICKET", points |-> e,
                         balanceAfter |-> e, order |-> NoOrder]
               second == [type |-> "BURN_DISCOUNT", points |-> -LegacyDebit,
                          balanceAfter |-> LegacyDebit, order |-> LegacyOrder]
    <3>1. LegacyAccount.ledger = <<first, second>> /\ first.type = "EARN_TICKET"
      BY DEF LegacyAccount, NoAccount
    <3>2. accounts[u] = LegacyAccount
      BY <1>3 DEF Init
    <3> HIDE DEF first, second, e
    <3>. QED BY <3>1, <3>2
  <2>2. CommandEntries(u) = {}
    BY <1>3, <2>1 DEF CommandEntries
  <2>. QED BY <1>1, <2>1, <2>2, FS_EmptySet DEF MatchesOf
<1>. QED BY <1>2, <1>3

\* The keys of point commands and the discounts and refunds of the ledger match
\* one for one in every reachable state: no retry of a key deducts or refunds
\* again, and no key answers for a row of another order, amount or balance.
THEOREM KeysAlwaysMatchLedger == AccountsSpec => []KeysMatchLedger
<1>1. Init => KeysInv
  BY KeysInvInit
<1>2. KeysInv /\ [Next]_accountVars => KeysInv'
  BY KeysInvStep
<1>3. KeysInv => KeysMatchLedger
  BY DEF KeysInv
<1>. QED BY <1>1, <1>2, <1>3, PTL DEF AccountsSpec
=============================================================================
