---------------------- MODULE ProfileTransactionsProofs ----------------------
(***************************************************************************)
(* Proofs about ProfileTransactions, for every set of users, orders, keys, *)
(* requests and workers: the transactions implement the atomic operations  *)
(* of LoyaltyAccounts, so that everything proved of those holds of them.   *)
(***************************************************************************)
EXTENDS ProfileTransactions, LoyaltyAccountsProofs

(***************************************************************************)
(* The inductive invariant.                                                *)
(***************************************************************************)
\* The request of a transaction and what it has read are still good: what was
\* read is the committed account, and a key it is about to store is unused.
TransactionSound(w) ==
    LET t == txn[w] IN
    /\ t.req \in Requests /\ t.req.op \in Operations \ {"OPEN"}
    /\ t.asOf <= today
    /\ InTransaction(w) /\ Creates(t.req) => t.locked
    /\ t.pc \in {"claiming", "writing"} =>
         t.locked /\ t.read = accounts[t.req.user]
    /\ t.pc = "claiming" => HasKey(t.req)
    /\ t.pc = "writing" => Accepts(t.read, t.req, t.asOf) /\ Fresh(t.req)

\* No two transactions hold one profile row or one uncommitted key.
LocksExclusive ==
    \A v, w \in Workers : v # w =>
        /\ \A u \in Users : ~(HoldsProfile(v, u) /\ HoldsProfile(w, u))
        /\ \A k \in Keys : ~(HoldsKey(v, k) /\ HoldsKey(w, k))

\* The requests in flight for a user, and the ones that may still add a row.
InFlight(u)  == {w \in Workers : txn[w].pc # "idle" /\ txn[w].req.user = u}
MayAddRow(u) == {w \in InFlight(u) : Fresh(txn[w].req)}

\* The bound on the ledgers leaves room for every row that may still come.
RoomLeft(u) ==
    /\ IsFiniteSet(InFlight(u))
    /\ MayAddRow(u) # {} =>
         Len(accounts[u].ledger) + Cardinality(MayAddRow(u)) <= LedgerBound

RowsNeedProfile ==
    \A u \in Users : ~accounts[u].exists => accounts[u].ledger = <<>>

TxnInv ==
    /\ IInv
    /\ txn \in [Workers -> Txn \cup {Idle}]
    /\ \A w \in Workers : txn[w].pc # "idle" => TransactionSound(w)
    /\ LocksExclusive
    /\ \A u \in Users : RoomLeft(u)
    /\ RowsNeedProfile
    /\ replies \subseteq Reply
    /\ RepliesAreCommitted

LEMMA TransactionFacts ==
    ASSUME TxnInv, NEW w \in Workers, txn[w].pc # "idle"
    PROVE  /\ txn[w] \in Txn /\ TransactionSound(w)
           /\ txn[w].req \in Requests /\ txn[w].req.user \in Users
           /\ txn[w].req.op \in Operations
           /\ accounts[txn[w].req.user] \in Account
           /\ AccountInv(accounts[txn[w].req.user])
           /\ HasKey(txn[w].req) => txn[w].req.key \in Keys
<1>1. txn[w] \in Txn /\ TransactionSound(w) /\ IInv
  BY DEF TxnInv, Idle
<1>2. txn[w].req \in Requests /\ txn[w].req.op \in Operations
  BY <1>1 DEF TransactionSound
<1>. QED BY <1>1, <1>2, RequestKinds DEF IInv, AccountInv

\* A transaction that holds its locks while others step stays sound.
LEMMA OthersStaySound ==
    ASSUME TxnInv, NEW v \in Workers, txn'[v] = txn[v], txn[v].pc # "idle",
           today' \in Int, today <= today',
           \A u \in Users : HoldsProfile(v, u) => accounts'[u] = accounts[u],
           \A k \in Keys : HoldsKey(v, k) => processed'[k] = processed[k]
    PROVE  TransactionSound(v)'
<1> DEFINE t == txn[v]
<1>1. /\ t \in Txn /\ TransactionSound(v) /\ t.req.user \in Users
      /\ HasKey(t.req) => t.req.key \in Keys
  BY TransactionFacts
<1>2. t.asOf \in Int /\ today \in Int
  BY <1>1 DEF TxnInv, IInv, TypeOK, Txn
<1>3. t.asOf <= today'
  BY <1>1, <1>2 DEF TransactionSound
<1>4. t.pc \in {"claiming", "writing"} => t.read = accounts'[t.req.user]
  BY <1>1 DEF TransactionSound, HoldsProfile, InTransaction
<1>5. t.pc = "writing" /\ HasKey(t.req) => processed'[t.req.key] = NoRow
  BY <1>1 DEF TransactionSound, HoldsKey, Fresh
<1>. QED BY <1>1, <1>3, <1>4, <1>5 DEF TransactionSound, InTransaction, Fresh

\* Locks stay exclusive when one transaction moves and takes only free ones.
LEMMA LocksStayExclusive ==
    ASSUME LocksExclusive, NEW w \in Workers,
           \A v \in Workers \ {w} : txn'[v] = txn[v],
           \A u \in Users : HoldsProfile(w, u)' =>
                              HoldsProfile(w, u) \/ ProfileFree(w, u),
           \A k \in Keys : HoldsKey(w, k)' => HoldsKey(w, k) \/ KeyFree(w, k)
    PROVE  LocksExclusive'
<1>1. ASSUME NEW v \in Workers \ {w}, NEW u \in Users
      PROVE  /\ HoldsProfile(v, u)' <=> HoldsProfile(v, u)
             /\ ~(HoldsProfile(v, u) /\ HoldsProfile(w, u)')
  BY <1>1 DEF LocksExclusive, HoldsProfile, InTransaction, ProfileFree
<1>2. ASSUME NEW v \in Workers \ {w}, NEW k \in Keys
      PROVE  /\ HoldsKey(v, k)' <=> HoldsKey(v, k)
             /\ ~(HoldsKey(v, k) /\ HoldsKey(w, k)')
  BY <1>2 DEF LocksExclusive, HoldsKey, KeyFree
<1> SUFFICES ASSUME NEW v1 \in Workers, NEW v2 \in Workers, v1 # v2
             PROVE  /\ \A u \in Users : ~(HoldsProfile(v1, u)' /\ HoldsProfile(v2, u)')
                    /\ \A k \in Keys : ~(HoldsKey(v1, k)' /\ HoldsKey(v2, k)')
  BY DEF LocksExclusive
<1>3. ASSUME NEW u \in Users PROVE ~(HoldsProfile(v1, u)' /\ HoldsProfile(v2, u)')
  BY <1>1 DEF LocksExclusive
<1>4. ASSUME NEW k \in Keys PROVE ~(HoldsKey(v1, k)' /\ HoldsKey(v2, k)')
  BY <1>2 DEF LocksExclusive
<1>. QED BY <1>3, <1>4

\* No request arrives and no ledger grows.
LEMMA RoomStays ==
    ASSUME TxnInv, NEW u \in Users,
           InFlight(u)' \subseteq InFlight(u), MayAddRow(u)' \subseteq MayAddRow(u),
           accounts'[u].ledger = accounts[u].ledger
    PROVE  RoomLeft(u)'
<1>1. RoomLeft(u) /\ Len(accounts[u].ledger) \in Nat /\ LedgerBound \in Nat
  BY AccountsAssumption DEF TxnInv, IInv, TypeOK, Account
<1>2. MayAddRow(u) \subseteq InFlight(u)
  BY DEF MayAddRow
<1>3. /\ IsFiniteSet(InFlight(u)') /\ IsFiniteSet(MayAddRow(u))
      /\ Cardinality(MayAddRow(u)') <= Cardinality(MayAddRow(u))
      /\ Cardinality(MayAddRow(u)') \in Nat /\ Cardinality(MayAddRow(u)) \in Nat
  BY <1>1, <1>2, FS_Subset, FS_CardinalityType DEF RoomLeft
<1>4. MayAddRow(u)' # {} => MayAddRow(u) # {}
  OBVIOUS
<1>. QED BY <1>1, <1>3, <1>4 DEF RoomLeft

\* A transaction that goes on or ends adds no request and frees no key.
LEMMA RoomStaysInFlight ==
    ASSUME TxnInv, NEW w \in Workers, NEW t, txn' = [txn EXCEPT ![w] = t],
           t.pc # "idle" => txn[w].pc # "idle" /\ t.req = txn[w].req,
           \A u \in Users : accounts'[u].ledger = accounts[u].ledger,
           \A k \in Keys : processed[k] # NoRow => processed'[k] # NoRow
    PROVE  \A u \in Users : RoomLeft(u)'
<1> SUFFICES ASSUME NEW u \in Users PROVE RoomLeft(u)'
  OBVIOUS
<1>1. \A v \in Workers : txn'[v] = IF v = w THEN t ELSE txn[v]
  BY DEF TxnInv
<1>2. \A v \in InFlight(u)' : v \in InFlight(u) /\ txn'[v].req = txn[v].req
  BY <1>1 DEF InFlight
<1>3. \A v \in InFlight(u) : HasKey(txn[v].req) => txn[v].req.key \in Keys
  BY TransactionFacts DEF InFlight
<1>4. MayAddRow(u)' \subseteq MayAddRow(u)
  BY <1>2, <1>3 DEF MayAddRow, Fresh
<1>. QED BY <1>2, <1>4, RoomStays

\* One transaction goes on or ends, and the tables stay.
LEMMA LocalStep ==
    ASSUME TxnInv, NEW w \in Workers, NEW t \in Txn \cup {Idle},
           txn' = [txn EXCEPT ![w] = t],
           UNCHANGED <<accounts, processed, today>>,
           t.pc # "idle" => TransactionSound(w)',
           \A u \in Users : RoomLeft(u)',
           \A u \in Users : HoldsProfile(w, u)' =>
                              HoldsProfile(w, u) \/ ProfileFree(w, u),
           \A k \in Keys : HoldsKey(w, k)' => HoldsKey(w, k) \/ KeyFree(w, k),
           (replies \subseteq Reply /\ RepliesAreCommitted)'
    PROVE  TxnInv'
<1>1. \A v \in Workers : txn'[v] = IF v = w THEN t ELSE txn[v]
  BY DEF TxnInv
<1>2. IInv' /\ RowsNeedProfile'
  BY DEF TxnInv, IInv, TypeOK, RowsNeedProfile
<1>3. txn' \in [Workers -> Txn \cup {Idle}]
  BY DEF TxnInv
<1>4. ASSUME NEW v \in Workers, txn'[v].pc # "idle"
      PROVE  TransactionSound(v)'
  <2>1. CASE v = w
    BY <1>1, <1>4, <2>1
  <2>2. CASE v # w
    <3>1. txn'[v] = txn[v] /\ txn[v].pc # "idle"
      BY <1>1, <1>4, <2>2
    <3>2. today' \in Int /\ today <= today'
      BY DEF TxnInv, IInv, TypeOK
    <3>. QED BY <3>1, <3>2, OthersStaySound
  <2>. QED BY <2>1, <2>2
<1>5. LocksExclusive'
  <2>1. LocksExclusive /\ \A v \in Workers \ {w} : txn'[v] = txn[v]
    BY <1>1 DEF TxnInv
  <2>. QED BY <2>1, LocksStayExclusive
<1>. QED BY <1>2, <1>3, <1>4, <1>5 DEF TxnInv

LEMMA RepliesStay ==
    ASSUME TxnInv, UNCHANGED <<processed, replies>>
    PROVE  (replies \subseteq Reply /\ RepliesAreCommitted)'
  BY DEF TxnInv, RepliesAreCommitted

\* A transaction ends with nothing to commit.
LEMMA EndKeepsInv ==
    ASSUME TxnInv, NEW w \in Workers, txn[w].pc # "idle", Finish(w),
           (replies \subseteq Reply /\ RepliesAreCommitted)'
    PROVE  TxnInv'
<1>1. /\ txn' = [txn EXCEPT ![w] = Idle] /\ Idle.pc = "idle"
      /\ UNCHANGED <<accounts, processed, today>>
  BY DEF Finish, Idle
<1>2. txn'[w] = Idle
  BY <1>1 DEF TxnInv
<1>3. \A u \in Users : RoomLeft(u)'
  BY <1>1, RoomStaysInFlight
<1>4. \A u : ~HoldsProfile(w, u)'
  BY <1>1, <1>2 DEF HoldsProfile, InTransaction
<1>5. \A k : ~HoldsKey(w, k)'
  BY <1>1, <1>2 DEF HoldsKey
<1>. QED BY <1>1, <1>3, <1>4, <1>5, LocalStep

\* The answer of replayPointCommand is a committed result.
LEMMA ReplayKeepsInv ==
    ASSUME TxnInv, NEW w \in Workers, txn[w].pc # "idle",
           txn[w].req.op \in {"DEDUCT", "REFUND"},
           processed[txn[w].req.key] # NoRow, Replay(w)
    PROVE  TxnInv' /\ UNCHANGED accountVars
<1> DEFINE r == txn[w].req
           row == processed[r.key]
           p == [req |-> r, balance |-> row.balanceAfter]
<1>1. Finish(w)
  BY DEF Replay
<1>2. r \in PointRequest /\ r.key \in Keys
  BY TransactionFacts, RequestKinds DEF HasKey
<1>3. row \in Row
  BY <1>2 DEF TxnInv, IInv, TypeOK
<1>4. ASSUME row # EventRow, row = CommandRow(r, row.balanceAfter)
      PROVE  p \in Reply /\ processed[p.req.key] = CommandRow(p.req, p.balance)
  <2>1. row.balanceAfter \in Int
    BY <1>3, <1>4 DEF Row, PointRow
  <2>. QED BY <1>2, <1>4, <2>1 DEF Reply
<1>5. replies' = IF row # EventRow /\ row = CommandRow(r, row.balanceAfter)
                 THEN replies \cup {p} ELSE replies
  BY DEF Replay
<1>6. processed' = processed
  BY <1>1 DEF Finish
<1> HIDE DEF p, row
<1>7. (replies \subseteq Reply /\ RepliesAreCommitted)'
  BY <1>4, <1>5, <1>6 DEF TxnInv, RepliesAreCommitted
<1>. QED BY <1>1, <1>7, EndKeepsInv DEF Finish, accountVars

\* A transaction that holds its locks ends, and the row of its user and the
\* key it inserted appear.
LEMMA TableStep ==
    ASSUME TxnInv, [Next]_accountVars, NEW w \in Workers, NEW u \in Users, NEW b,
           HoldsProfile(w, u), b.exists,
           accounts' = [accounts EXCEPT ![u] = b], today' = today,
           \A k \in Keys : processed'[k] = processed[k] \/ HoldsKey(w, k),
           txn' = [txn EXCEPT ![w] = Idle],
           \A v \in Users : RoomLeft(v)',
           (replies \subseteq Reply /\ RepliesAreCommitted)'
    PROVE  TxnInv'
<1>1. IInv'
  BY NextInv DEF TxnInv
<1>2. /\ Idle.pc = "idle" /\ Idle \in Txn \cup {Idle}
      /\ \A v \in Workers : txn'[v] = IF v = w THEN Idle ELSE txn[v]
      /\ txn' \in [Workers -> Txn \cup {Idle}]
  BY DEF TxnInv, Idle
<1>3. \A v \in Users : accounts'[v] = IF v = u THEN b ELSE accounts[v]
  BY DEF TxnInv, IInv, TypeOK
<1>4. RowsNeedProfile'
  BY <1>3 DEF TxnInv, RowsNeedProfile
<1>5. LocksExclusive'
  <2>1. \A x : ~HoldsProfile(w, x)' /\ ~HoldsKey(w, x)'
    BY <1>2 DEF HoldsProfile, HoldsKey, InTransaction
  <2>2. LocksExclusive /\ \A v \in Workers \ {w} : txn'[v] = txn[v]
    BY <1>2 DEF TxnInv
  <2>. QED BY <2>1, <2>2, LocksStayExclusive
<1>6. ASSUME NEW v \in Workers, txn'[v].pc # "idle"
      PROVE  TransactionSound(v)'
  <2>1. v # w /\ txn'[v] = txn[v] /\ txn[v].pc # "idle"
    BY <1>2, <1>6
  <2>2. today' \in Int /\ today <= today'
    BY DEF TxnInv, IInv, TypeOK
  <2>3. \A x \in Users : HoldsProfile(v, x) => accounts'[x] = accounts[x]
    BY <1>3, <2>1 DEF TxnInv, LocksExclusive
  <2>4. \A k \in Keys : HoldsKey(v, k) => processed'[k] = processed[k]
    BY <2>1 DEF TxnInv, LocksExclusive
  <2>. QED BY <2>1, <2>2, <2>3, <2>4, OthersStaySound
<1>. QED BY <1>1, <1>2, <1>4, <1>5, <1>6 DEF TxnInv

\* An event that was processed before is skipped under the lock.
LEMMA SkipKeepsInv ==
    ASSUME TxnInv, NEW w \in Workers, InTransaction(w),
           txn[w].req.op \in {"PURCHASE", "REWARD"},
           processed[txn[w].req.key] # NoRow, SkipEvent(w)
    PROVE  TxnInv' /\ [Next]_accountVars
<1> DEFINE r == txn[w].req
           u == r.user
           b == Opened(accounts[u])
<1>1. /\ txn[w].pc # "idle" /\ r \in Requests /\ u \in Users
      /\ accounts[u] \in Account
  BY TransactionFacts DEF InTransaction
<1>2. /\ txn' = [txn EXCEPT ![w] = Idle] /\ UNCHANGED <<processed, today, replies>>
      /\ accounts' = IF processed[r.key] = EventRow
                     THEN [accounts EXCEPT ![u] = b] ELSE accounts
  BY DEF SkipEvent
<1>3. CASE processed[r.key] # EventRow
  <2>1. Finish(w)
    BY <1>2, <1>3 DEF Finish
  <2>. QED BY <1>1, <1>2, <2>1, RepliesStay, EndKeepsInv DEF Finish, accountVars
<1>4. CASE processed[r.key] = EventRow
  <2>1. accounts' = [accounts EXCEPT ![u] = b]
    BY <1>2, <1>4
  <2>2. SkipProcessed(r)
    BY <1>2, <1>4, <2>1 DEF SkipProcessed
  <2>3. [Next]_accountVars
    BY <1>1, <2>2 DEF Next
  <2>4. HoldsProfile(w, u)
    BY <1>1, TransactionFacts DEF TransactionSound, HoldsProfile, Creates
  <2>5. b.exists /\ b.ledger = accounts[u].ledger
    BY <1>1, OpenedFollows
  <2>6. \A v \in Users : accounts'[v].ledger = accounts[v].ledger
    <3> HIDE DEF b, u
    <3>. QED BY <1>1, <2>1, <2>5 DEF TxnInv, IInv, TypeOK
  <2>7. \A v \in Users : RoomLeft(v)'
    <3>1. Idle.pc = "idle"
      BY DEF Idle
    <3>. QED BY <1>2, <2>6, <3>1, RoomStaysInFlight
  <2>8. (replies \subseteq Reply /\ RepliesAreCommitted)'
    BY <1>2, RepliesStay
  <2> HIDE DEF b, r, u
  <2>9. TxnInv'
    BY <1>1, <1>2, <2>1, <2>3, <2>4, <2>5, <2>7, <2>8, TableStep
  <2>. QED BY <2>3, <2>9
<1>. QED BY <1>3, <1>4
-----------------------------------------------------------------------------
(***************************************************************************)
(* The actions keep the invariant and implement a step of LoyaltyAccounts. *)
(***************************************************************************)
\* A transaction with other columns.
LEMMA TransactionColumns ==
    ASSUME NEW t \in Txn, NEW pc \in {"begun", "inside", "claiming", "writing"},
           NEW asOf \in Nat, NEW n \in 1..MaxAttempts, NEW l \in BOOLEAN,
           NEW a \in Account
    PROVE  LET s == [t EXCEPT !.pc = pc, !.asOf = asOf, !.attempt = n,
                              !.locked = l, !.read = a] IN
           /\ s \in Txn /\ s.pc = pc /\ s.req = t.req /\ s.asOf = asOf
           /\ s.locked = l /\ s.read = a
  BY DEF Txn

LEMMA BeginKeepsInv ==
    ASSUME TxnInv, NEW w \in Workers, NEW r \in Requests, r.op # "OPEN", Begin(w, r)
    PROVE  TxnInv' /\ UNCHANGED accountVars
<1> DEFINE t == [pc |-> "begun", req |-> r, asOf |-> today, attempt |-> 1,
                 locked |-> FALSE, read |-> NoAccount]
<1>1. /\ txn[w] = Idle /\ HasRoom(r) /\ txn' = [txn EXCEPT ![w] = t]
      /\ UNCHANGED <<accounts, processed, today, replies>>
  BY DEF Begin
<1>2. r \in Request /\ r.user \in Users /\ r.op \in Operations
  <2>1. r \in Request
    BY AccountsAssumption
  <2>. QED BY <2>1, RequestKinds
           DEF Request, PointRequest, PurchaseRequest, RewardRequest, AdminRequest,
               BirthdayRequest, UserRequest, Operations
<1>3. t \in Txn
  <2>1. NoAccount \in Account /\ today \in Nat
    BY NoAccountInv, AccountsAssumption DEF AccountInv, TxnInv, IInv, TypeOK
  <2>. QED BY <1>2, <2>1, TransactionsAssumption DEF Txn
<1>4. t.pc = "begun" /\ t.req = r /\ t.asOf = today
  OBVIOUS
<1> HIDE DEF t
<1>5. txn'[w] = t /\ \A v \in Workers : txn'[v] = IF v = w THEN t ELSE txn[v]
  BY <1>1 DEF TxnInv
<1>6. TransactionSound(w)'
  <2>1. today' \in Int /\ t.asOf <= today'
    BY <1>1, <1>4 DEF TxnInv, IInv, TypeOK
  <2>. QED BY <1>1, <1>2, <1>4, <1>5, <2>1 DEF TransactionSound, InTransaction
<1>7. (\A u \in Users : ~HoldsProfile(w, u)') /\ (\A k \in Keys : ~HoldsKey(w, k)')
  BY <1>4, <1>5 DEF HoldsProfile, HoldsKey, InTransaction
<1>8. ASSUME NEW u \in Users
      PROVE  RoomLeft(u)'
  <2>1. /\ RoomLeft(u) /\ Len(accounts[u].ledger) \in Nat /\ LedgerBound \in Nat
        /\ accounts'[u].ledger = accounts[u].ledger
    BY <1>1, AccountsAssumption DEF TxnInv, IInv, TypeOK, Account
  <2>2. InFlight(u)' = IF u = r.user THEN InFlight(u) \cup {w} ELSE InFlight(u)
    BY <1>1, <1>4, <1>5 DEF InFlight, Idle
  <2>3. MayAddRow(u)' \subseteq MayAddRow(u) \cup {w} /\ w \notin InFlight(u)
    BY <1>1, <1>4, <1>5 DEF InFlight, MayAddRow, Idle, Fresh
  <2>4. CASE u # r.user
    <3>1. InFlight(u)' = InFlight(u)
      BY <2>2, <2>4
    <3>2. MayAddRow(u)' \subseteq MayAddRow(u)
      BY <2>3, <3>1 DEF MayAddRow
    <3>. QED BY <2>1, <3>1, <3>2, RoomStays
  <2>5. CASE u = r.user
    <3>1. /\ MayAddRow(u) \subseteq InFlight(u) /\ IsFiniteSet(InFlight(u))
          /\ IsFiniteSet(MayAddRow(u)) /\ IsFiniteSet(InFlight(u)')
      BY <2>1, <2>2, FS_Subset, FS_AddElement DEF RoomLeft, MayAddRow
    <3>2. /\ Cardinality(MayAddRow(u)) <= Cardinality(InFlight(u))
          /\ Cardinality(MayAddRow(u)) \in Nat /\ Cardinality(InFlight(u)) \in Nat
      BY <3>1, FS_Subset, FS_CardinalityType
    <3>3. /\ Cardinality(MayAddRow(u)') <= Cardinality(MayAddRow(u)) + 1
          /\ Cardinality(MayAddRow(u)') \in Nat
      <4>1. /\ IsFiniteSet(MayAddRow(u) \cup {w})
            /\ Cardinality(MayAddRow(u) \cup {w}) = Cardinality(MayAddRow(u)) + 1
        BY <2>3, <3>1, FS_AddElement DEF MayAddRow
      <4>. QED BY <2>3, <4>1, FS_Subset, FS_CardinalityType
    <3>4. CASE Len(accounts[u].ledger) + Cardinality(InFlight(u)) < LedgerBound
      BY <2>1, <3>1, <3>2, <3>3, <3>4 DEF RoomLeft
    <3>5. CASE HasKey(r) /\ processed[r.key] # NoRow
      <4>1. MayAddRow(u)' \subseteq MayAddRow(u)
        BY <1>1, <1>4, <1>5, <2>3, <3>5 DEF MayAddRow, Fresh
      <4>2. \/ MayAddRow(u)' = {}
            \/ /\ MayAddRow(u) # {}
               /\ Cardinality(MayAddRow(u)') <= Cardinality(MayAddRow(u))
        BY <3>1, <4>1, FS_Subset
      <4>. QED BY <2>1, <3>1, <3>2, <3>3, <4>2 DEF RoomLeft
    <3>. QED BY <1>1, <2>5, <3>4, <3>5 DEF HasRoom, InFlight
  <2>. QED BY <2>4, <2>5
<1>9. TxnInv'
  BY <1>1, <1>3, <1>6, <1>7, <1>8, RepliesStay, LocalStep
<1>. QED BY <1>1, <1>9 DEF accountVars

\* A transaction goes on with its request.
LEMMA GoesOn ==
    ASSUME TxnInv, NEW w \in Workers, txn[w].pc # "idle",
           NEW t \in Txn, t.pc # "idle", t.req = txn[w].req,
           txn' = [txn EXCEPT ![w] = t],
           UNCHANGED <<accounts, processed, today, replies>>,
           TransactionSound(w)',
           HoldsProfile(w, t.req.user)' =>
             HoldsProfile(w, t.req.user) \/ ProfileFree(w, t.req.user),
           HasKey(t.req) /\ HoldsKey(w, t.req.key)' => KeyFree(w, t.req.key)
    PROVE  TxnInv' /\ UNCHANGED accountVars
<1>1. txn'[w] = t
  BY DEF TxnInv
<1>2. \A u \in Users : HoldsProfile(w, u)' =>
                         HoldsProfile(w, u) \/ ProfileFree(w, u)
  BY <1>1 DEF HoldsProfile
<1>3. \A k \in Keys : HoldsKey(w, k)' => HoldsKey(w, k) \/ KeyFree(w, k)
  BY <1>1 DEF HoldsKey
<1>4. \A u \in Users : RoomLeft(u)'
  BY RoomStaysInFlight
<1>5. TxnInv'
  BY <1>2, <1>3, <1>4, RepliesStay, LocalStep
<1>. QED BY <1>5 DEF accountVars

LEMMA LockKeepsInv ==
    ASSUME TxnInv, NEW w \in Workers, Lock(w)
    PROVE  TxnInv' /\ UNCHANGED accountVars
<1> DEFINE r == txn[w].req
           locks == accounts[r.user].exists \/ Creates(r)
<1>1. /\ txn[w].pc = "begun" /\ (locks => ProfileFree(w, r.user))
      /\ txn' = [txn EXCEPT ![w].pc = "inside", ![w].locked = locks]
      /\ UNCHANGED <<accounts, processed, today, replies>>
  BY DEF Lock
<1>2. txn[w] \in Txn /\ TransactionSound(w) /\ accounts[r.user] \in Account
  BY <1>1, TransactionFacts
<1>3. locks \in BOOLEAN
  BY <1>2 DEF Account, Creates
<1> HIDE DEF locks
<1>4. PICK t : t = [txn[w] EXCEPT !.pc = "inside", !.locked = locks]
  OBVIOUS
<1>5. /\ t \in Txn /\ t.pc = "inside" /\ t.req = r /\ t.asOf = txn[w].asOf
      /\ t.locked = locks
  BY <1>2, <1>3, <1>4 DEF Txn
<1>6. txn' = [txn EXCEPT ![w] = t]
  BY <1>1, <1>4 DEF TxnInv
<1>7. txn'[w] = t
  BY <1>6 DEF TxnInv
<1>8. TransactionSound(w)'
  <2>1. Creates(r) => locks
    BY DEF locks
  <2>. QED BY <1>1, <1>2, <1>5, <1>7, <2>1 DEF TransactionSound, InTransaction
<1>9. HoldsProfile(w, t.req.user)' => ProfileFree(w, t.req.user)
  BY <1>1, <1>5, <1>7 DEF HoldsProfile
<1>10. ~HoldsKey(w, t.req.key)'
  BY <1>5, <1>7 DEF HoldsKey
<1>. QED BY <1>1, <1>5, <1>6, <1>8, <1>9, <1>10, GoesOn

LEMMA ConflictKeepsInv ==
    ASSUME TxnInv, NEW w \in Workers, Conflict(w)
    PROVE  TxnInv' /\ UNCHANGED accountVars
<1>1. /\ txn[w].pc # "idle" /\ txn[w].attempt < MaxAttempts
      /\ txn' = [txn EXCEPT ![w].pc = "begun", ![w].locked = FALSE,
                            ![w].read = NoAccount, ![w].attempt = @ + 1]
      /\ UNCHANGED <<accounts, processed, today, replies>>
  BY DEF Conflict
<1>2. txn[w] \in Txn /\ TransactionSound(w) /\ NoAccount \in Account
  BY <1>1, TransactionFacts, NoAccountInv DEF AccountInv
<1> DEFINE n == txn[w].attempt + 1
<1>3. n \in 1..MaxAttempts
  BY <1>1, <1>2, TransactionsAssumption DEF Txn
<1>4. PICK t : t = [txn[w] EXCEPT !.pc = "begun", !.locked = FALSE,
                                  !.read = NoAccount, !.attempt = n]
  OBVIOUS
<1>5. txn' = [txn EXCEPT ![w] = t]
  BY <1>1, <1>4 DEF TxnInv
<1> HIDE DEF n
<1>6. /\ t \in Txn /\ t.pc = "begun" /\ t.req = txn[w].req
      /\ t.asOf = txn[w].asOf
  BY <1>2, <1>3, <1>4 DEF Txn
<1>7. txn'[w] = t
  BY <1>5 DEF TxnInv
<1>8. TransactionSound(w)'
  BY <1>1, <1>2, <1>6, <1>7 DEF TransactionSound, InTransaction
<1>9. ~HoldsProfile(w, t.req.user)' /\ ~HoldsKey(w, t.req.key)'
  BY <1>6, <1>7 DEF HoldsProfile, HoldsKey, InTransaction
<1>. QED BY <1>1, <1>5, <1>6, <1>8, <1>9, GoesOn

LEMMA FailKeepsInv ==
    ASSUME TxnInv, NEW w \in Workers, Fail(w)
    PROVE  TxnInv' /\ UNCHANGED accountVars
<1>1. txn[w].pc # "idle" /\ Finish(w) /\ UNCHANGED replies
  BY DEF Fail
<1>. QED BY <1>1, RepliesStay, EndKeepsInv DEF Finish, accountVars

\* Under the lock the decision to go on rests on the committed account.
LEMMA DecideKeepsInv ==
    ASSUME TxnInv, NEW w \in Workers, Decide(w)
    PROVE  TxnInv' /\ [Next]_accountVars
<1> DEFINE r == txn[w].req
           a == accounts[r.user]
           asOf == IF Early(r) THEN txn[w].asOf ELSE today
           goOn(pc) ==
             /\ txn' = [txn EXCEPT ![w].pc = pc, ![w].asOf = asOf, ![w].read = a]
             /\ UNCHANGED <<accounts, processed, today, replies>>
<1>1. txn[w].pc = "inside"
  BY DEF Decide
<1>2. \/ r.op \in {"DEDUCT", "REFUND"} /\ processed[r.key] # NoRow /\ Replay(w)
      \/ r.op = "PURCHASE" /\ processed[r.key] # NoRow /\ SkipEvent(w)
      \/ r.op = "REWARD" /\ goOn("claiming")
      \/ /\ r.op # "REWARD" /\ Fresh(r)
         /\ IF txn[w].locked /\ Accepts(a, r, asOf)
            THEN goOn(IF HasKey(r) THEN "claiming" ELSE "writing")
            ELSE Finish(w) /\ UNCHANGED replies
  BY DEF Decide
<1>3. txn[w] \in Txn /\ TransactionSound(w) /\ a \in Account
  BY <1>1, TransactionFacts
<1>4. asOf \in Nat /\ asOf <= today
  BY <1>3, AccountsAssumption DEF TransactionSound, Txn, TxnInv, IInv, TypeOK
<1>5. ASSUME NEW pc \in {"claiming", "writing"}, goOn(pc), txn[w].locked,
             pc = "claiming" => HasKey(r),
             pc = "writing" => Accepts(a, r, asOf) /\ Fresh(r) /\ ~HasKey(r)
      PROVE  TxnInv' /\ UNCHANGED accountVars
  <2>1. PICK t : t = [txn[w] EXCEPT !.pc = pc, !.asOf = asOf, !.read = a]
    OBVIOUS
  <2>2. txn' = [txn EXCEPT ![w] = t]
    BY <1>5, <2>1 DEF TxnInv
  <2> HIDE DEF asOf
  <2>3. /\ t \in Txn /\ t.pc = pc /\ t.req = r /\ t.asOf = asOf
        /\ t.read = a /\ t.locked
    BY <1>3, <1>4, <1>5, <2>1 DEF Txn
  <2>4. txn'[w] = t
    BY <2>2 DEF TxnInv
  <2>5. TransactionSound(w)'
    BY <1>3, <1>4, <1>5, <2>3, <2>4 DEF TransactionSound, InTransaction, Fresh
  <2>6. HoldsProfile(w, t.req.user)
    BY <1>1, <1>5, <2>3 DEF HoldsProfile, InTransaction
  <2>7. HasKey(t.req) /\ HoldsKey(w, t.req.key)' => FALSE
    BY <1>5, <2>3, <2>4 DEF HoldsKey
  <2>8. txn[w].pc # "idle" /\ t.pc # "idle"
    BY <1>1, <2>3
  <2>. QED BY <1>5, <2>2, <2>3, <2>5, <2>6, <2>7, <2>8, GoesOn
<1>6. CASE r.op \in {"DEDUCT", "REFUND"} /\ processed[r.key] # NoRow /\ Replay(w)
  BY <1>1, <1>6, ReplayKeepsInv
<1>7. CASE r.op = "PURCHASE" /\ processed[r.key] # NoRow /\ SkipEvent(w)
  BY <1>1, <1>7, SkipKeepsInv DEF InTransaction
<1>8. CASE r.op = "REWARD" /\ goOn("claiming")
  <2>1. txn[w].locked /\ HasKey(r)
    BY <1>1, <1>3, <1>8 DEF TransactionSound, InTransaction, Creates, HasKey
  <2>. QED BY <1>5, <1>8, <2>1
<1>9. CASE /\ r.op # "REWARD" /\ Fresh(r)
           /\ IF txn[w].locked /\ Accepts(a, r, asOf)
              THEN goOn(IF HasKey(r) THEN "claiming" ELSE "writing")
              ELSE Finish(w) /\ UNCHANGED replies
  <2>1. CASE txn[w].locked /\ Accepts(a, r, asOf)
    <3>1. CASE HasKey(r)
      <4>1. goOn("claiming")
        BY <1>9, <2>1, <3>1
      <4>. QED BY <1>5, <2>1, <3>1, <4>1
    <3>2. CASE ~HasKey(r)
      <4>1. goOn("writing")
        BY <1>9, <2>1, <3>2
      <4>. QED BY <1>5, <1>9, <2>1, <3>2, <4>1
    <3>. QED BY <3>1, <3>2
  <2>2. CASE ~(txn[w].locked /\ Accepts(a, r, asOf))
    <3>1. Finish(w) /\ UNCHANGED replies
      BY <1>9, <2>2
    <3>. QED BY <1>1, <3>1, RepliesStay, EndKeepsInv DEF Finish, accountVars
  <2>. QED BY <2>1, <2>2
<1>. QED BY <1>2, <1>6, <1>7, <1>8, <1>9

LEMMA ClaimKeepsInv ==
    ASSUME TxnInv, NEW w \in Workers, Claim(w)
    PROVE  TxnInv' /\ [Next]_accountVars
<1> DEFINE r == txn[w].req
<1>1. /\ txn[w].pc = "claiming" /\ KeyFree(w, r.key)
      /\ \/ /\ processed[r.key] = NoRow
            /\ IF Accepts(txn[w].read, r, txn[w].asOf)
               THEN /\ txn' = [txn EXCEPT ![w].pc = "writing"]
                    /\ UNCHANGED <<accounts, processed, today, replies>>
               ELSE Finish(w) /\ UNCHANGED replies
         \/ processed[r.key] # NoRow /\ r.op \in {"DEDUCT", "REFUND"} /\ Replay(w)
         \/ processed[r.key] # NoRow /\ r.op = "REWARD" /\ SkipEvent(w)
         \/ /\ processed[r.key] # NoRow /\ r.op = "PURCHASE"
            /\ Finish(w) /\ UNCHANGED replies
  BY DEF Claim
<1>2. txn[w] \in Txn /\ TransactionSound(w)
  BY <1>1, TransactionFacts
<1>3. ASSUME Finish(w), UNCHANGED replies
      PROVE  TxnInv' /\ UNCHANGED accountVars
  BY <1>1, <1>3, RepliesStay, EndKeepsInv DEF Finish, accountVars
<1>4. ASSUME processed[r.key] = NoRow, Accepts(txn[w].read, r, txn[w].asOf),
             txn' = [txn EXCEPT ![w].pc = "writing"],
             UNCHANGED <<accounts, processed, today, replies>>
      PROVE  TxnInv' /\ UNCHANGED accountVars
  <2>1. PICK t : t = [txn[w] EXCEPT !.pc = "writing"]
    OBVIOUS
  <2>2. txn' = [txn EXCEPT ![w] = t]
    BY <1>4, <2>1 DEF TxnInv
  <2>3. /\ t \in Txn /\ t.pc = "writing" /\ t.req = r /\ t.asOf = txn[w].asOf
        /\ t.read = txn[w].read /\ t.locked = txn[w].locked
    BY <1>2, <2>1 DEF Txn
  <2>4. txn'[w] = t
    BY <2>2 DEF TxnInv
  <2>5. TransactionSound(w)'
    BY <1>1, <1>2, <1>4, <2>3, <2>4 DEF TransactionSound, InTransaction, Fresh
  <2>6. HoldsProfile(w, t.req.user)
    BY <1>1, <1>2, <2>3 DEF HoldsProfile, InTransaction, TransactionSound
  <2>7. KeyFree(w, t.req.key)
    BY <1>1, <2>3
  <2>8. txn[w].pc # "idle" /\ t.pc # "idle"
    BY <1>1, <2>3
  <2>. QED BY <1>4, <2>2, <2>3, <2>5, <2>6, <2>7, <2>8, GoesOn
<1>5. CASE processed[r.key] # NoRow /\ r.op \in {"DEDUCT", "REFUND"} /\ Replay(w)
  BY <1>1, <1>5, ReplayKeepsInv
<1>6. CASE processed[r.key] # NoRow /\ r.op = "REWARD" /\ SkipEvent(w)
  BY <1>1, <1>6, SkipKeepsInv DEF InTransaction
<1>. QED BY <1>1, <1>3, <1>4, <1>5, <1>6

\* A request that reads no clock is carried out the same on any day.
LEMMA DayDoesNotMatter ==
    ASSUME NEW r, r.op \in {"DEDUCT", "REFUND", "REWARD", "VIP", "ANNUAL", "OPEN"},
           NEW d, NEW e, Perform(r, d)
    PROVE  Perform(r, e)
<1>1. /\ Accepts(accounts[r.user], r, d) = Accepts(accounts[r.user], r, e)
      /\ After(accounts[r.user], r, d) = After(accounts[r.user], r, e)
  BY DEF Accepts, After
<1>. QED BY <1>1 DEF Perform

LEMMA PerformIsAStep ==
    ASSUME TypeOK, NEW r \in Requests, r.op \in Operations,
           NEW d \in 0..today, Perform(r, d)
    PROVE  Next
<1>1. CASE r.op \in {"DEDUCT", "REFUND", "REWARD", "VIP", "ANNUAL", "OPEN"}
  <2>1. Perform(r, today)
    BY <1>1, DayDoesNotMatter
  <2>. QED BY <1>1, <2>1
           DEF Next, Deduct, Refund, Reward, GrantVip, AnnualReset, OpenAccount
<1>2. CASE r.op \in {"PURCHASE", "ADMIN", "DOB", "BIRTHDAY", "EXPIRE"}
  BY <1>2 DEF Next, Purchase, ModifyPoints, SetBirthday, GrantBirthday, ExpirePoints
<1>. QED BY <1>1, <1>2 DEF Operations

LEMMA CommitKeepsInv ==
    ASSUME TxnInv, NEW w \in Workers, Commit(w)
    PROVE  TxnInv' /\ Next
<1> DEFINE r == txn[w].req
           u == r.user
           d == txn[w].asOf
           b == After(txn[w].read, r, d)
<1>1. /\ txn[w].pc = "writing"
      /\ accounts' = [accounts EXCEPT ![u] = b]
      /\ processed' = IF HasKey(r) THEN [processed EXCEPT ![r.key] = RowOf(r, b.balance)]
                      ELSE processed
      /\ txn' = [txn EXCEPT ![w] = Idle]
      /\ replies' = IF r \in PointRequest
                    THEN replies \cup {[req |-> r, balance |-> b.balance]} ELSE replies
      /\ today' = today
  BY DEF Commit
<1>2. /\ txn[w] \in Txn /\ TransactionSound(w) /\ AccountInv(accounts[u])
      /\ r \in Requests /\ u \in Users /\ r.op \in Operations
      /\ HasKey(r) => r.key \in Keys
  BY <1>1, TransactionFacts
<1>3. /\ txn[w].locked /\ txn[w].read = accounts[u] /\ Fresh(r)
      /\ Accepts(accounts[u], r, d)
  BY <1>1, <1>2 DEF TransactionSound
<1>4. d \in 0..today /\ d \in Int
  BY <1>2 DEF TransactionSound, Txn, TxnInv, IInv, TypeOK
<1>5. b = After(accounts[u], r, d)
  BY <1>3
<1>6. /\ b \in Account /\ b.exists /\ AccountInv(b)
      /\ Len(b.ledger) <= Len(accounts[u].ledger) + 1
  <2>1. LET x == After(accounts[u], r, d) IN
        /\ x \in Account /\ x.exists /\ AccountInv(x)
        /\ \/ x.ledger = accounts[u].ledger
           \/ Len(x.ledger) = Len(accounts[u].ledger) + 1
    BY <1>2, <1>3, <1>4, RequestKinds, AfterFollows, AfterInv DEF Operations
  <2>2. Len(accounts[u].ledger) \in Nat
    BY <1>2 DEF AccountInv, Account
  <2>. QED BY <1>5, <2>1, <2>2
<1>7. HoldsProfile(w, u) /\ (HasKey(r) => HoldsKey(w, r.key))
  BY <1>1, <1>3 DEF HoldsProfile, HoldsKey, InTransaction
<1> HIDE DEF b
<1>8. \A v \in Users : accounts'[v] = IF v = u THEN b ELSE accounts[v]
  BY <1>1 DEF TxnInv, IInv, TypeOK
<1>9. \A k \in Keys : processed'[k] = IF HasKey(r) /\ k = r.key
                                      THEN RowOf(r, b.balance) ELSE processed[k]
  BY <1>1, <1>2 DEF TxnInv, IInv, TypeOK
<1>10. /\ Idle.pc = "idle"
       /\ \A v \in Workers : txn'[v] = IF v = w THEN Idle ELSE txn[v]
  BY <1>1 DEF TxnInv, Idle
<1>11. w \in MayAddRow(u) /\ RoomLeft(u) /\ LedgerBound \in Nat
       /\ Len(accounts[u].ledger) \in Nat /\ Len(b.ledger) \in Nat
  <2>1. ASSUME NEW x \in Account PROVE Len(x.ledger) \in Nat
    BY DEF Account
  <2>2. accounts[u] \in Account
    BY <1>2 DEF AccountInv
  <2>3. Len(accounts[u].ledger) \in Nat /\ Len(b.ledger) \in Nat
    BY <1>6, <2>1, <2>2
  <2>. QED BY <1>1, <1>2, <1>3, <2>3, AccountsAssumption
           DEF MayAddRow, InFlight, TxnInv
<1>12. \A v \in Users : InFlight(v)' = InFlight(v) \ {w}
  BY <1>10 DEF InFlight
<1>13. \A v \in Users : MayAddRow(v)' \subseteq MayAddRow(v) \ {w}
  <2> SUFFICES ASSUME NEW v \in Users, NEW x \in MayAddRow(v)'
               PROVE  x \in MayAddRow(v) \ {w}
    OBVIOUS
  <2>1. x \in InFlight(v) \ {w} /\ x \in Workers /\ txn'[x] = txn[x] /\ Fresh(txn[x].req)'
    BY <1>10, <1>12 DEF MayAddRow, InFlight
  <2>2. txn[x].pc # "idle"
    BY <2>1 DEF InFlight
  <2>3. HasKey(txn[x].req) => txn[x].req.key \in Keys
    BY <2>1, <2>2, TransactionFacts
  <2>4. Fresh(txn[x].req)
    BY <1>3, <1>9, <2>1, <2>3 DEF Fresh
  <2>. QED BY <2>1, <2>4 DEF MayAddRow
<1>14. /\ IsFiniteSet(MayAddRow(u)) /\ Cardinality(MayAddRow(u)) \in Nat
       /\ IsFiniteSet(MayAddRow(u) \ {w})
       /\ Cardinality(MayAddRow(u) \ {w}) = Cardinality(MayAddRow(u)) - 1
  <2>1. MayAddRow(u) \subseteq InFlight(u)
    BY DEF MayAddRow
  <2>2. IsFiniteSet(MayAddRow(u))
    BY <1>11, <2>1, FS_Subset DEF RoomLeft
  <2>. QED BY <1>11, <2>2, FS_RemoveElement, FS_CardinalityType
<1>15. Len(b.ledger) + Cardinality(MayAddRow(u) \ {w}) <= LedgerBound
  <2>1. Len(accounts[u].ledger) + Cardinality(MayAddRow(u)) <= LedgerBound
    BY <1>11 DEF RoomLeft
  <2>2. ASSUME NEW l \in Nat, NEW m \in Nat, NEW c \in Nat, NEW n \in Nat,
               l + c <= n, m <= l + 1
        PROVE  m + (c - 1) <= n
    BY <2>2
  <2>3. Len(b.ledger) + (Cardinality(MayAddRow(u)) - 1) <= LedgerBound
    BY <1>6, <1>11, <1>14, <2>1, <2>2
  <2>. QED BY <1>14, <2>3
<1>16. Len(b.ledger) <= LedgerBound
  BY <1>11, <1>14, <1>15, FS_CardinalityType
<1>17. Perform(r, d)
  BY <1>1, <1>3, <1>5, <1>16 DEF Perform
<1>18. Next
  BY <1>2, <1>4, <1>17, PerformIsAStep DEF TxnInv, IInv
<1>19. ASSUME NEW v \in Users PROVE RoomLeft(v)'
  <2>1. CASE v # u
    <3>1. accounts'[v] = accounts[v]
      BY <1>8, <2>1
    <3>. QED BY <1>12, <1>13, <3>1, RoomStays
  <2>2. CASE v = u
    <3>1. accounts'[v].ledger = b.ledger
      BY <1>8, <2>2
    <3>2. IsFiniteSet(InFlight(v)')
      BY <1>11, <1>12, <2>2, FS_Subset DEF RoomLeft
    <3>3. /\ Cardinality(MayAddRow(v)') <= Cardinality(MayAddRow(u) \ {w})
          /\ Cardinality(MayAddRow(v)') \in Nat
          /\ Cardinality(MayAddRow(u) \ {w}) \in Nat
      BY <1>13, <1>14, <2>2, FS_Subset, FS_CardinalityType
    <3>. QED BY <1>11, <1>15, <2>2, <3>1, <3>2, <3>3 DEF RoomLeft
  <2>. QED BY <2>1, <2>2
<1>20. (replies \subseteq Reply /\ RepliesAreCommitted)'
  <2>1. ASSUME NEW p \in replies
        PROVE  p \in Reply /\ processed'[p.req.key] = CommandRow(p.req, p.balance)
    <3>1. p \in Reply /\ processed[p.req.key] = CommandRow(p.req, p.balance)
      BY DEF TxnInv, RepliesAreCommitted
    <3>2. CommandRow(p.req, p.balance) # NoRow /\ p.req.key \in Keys
      BY <3>1 DEF Reply, PointRequest, CommandRow, NoRow
    <3>. QED BY <1>3, <1>9, <3>1, <3>2 DEF Fresh
  <2>2. CASE r \in PointRequest
    <3> DEFINE p == [req |-> r, balance |-> b.balance]
    <3>1. b.balance \in Int /\ r.op \in {"DEDUCT", "REFUND"} /\ r.key \in Keys
      BY <1>6, <2>2 DEF Account, PointRequest
    <3>2. p \in Reply
      BY <2>2, <3>1 DEF Reply
    <3>3. processed'[r.key] = CommandRow(r, b.balance)
      BY <1>9, <3>1 DEF HasKey, RowOf
    <3>4. replies' = replies \cup {p} /\ p.req = r /\ p.balance = b.balance
      BY <1>1, <2>2 DEF b
    <3> HIDE DEF p
    <3>. QED BY <2>1, <3>2, <3>3, <3>4 DEF RepliesAreCommitted
  <2>3. CASE r \notin PointRequest
    BY <1>1, <2>1, <2>3 DEF RepliesAreCommitted
  <2>. QED BY <2>2, <2>3
<1>21. \A k \in Keys : processed'[k] = processed[k] \/ HoldsKey(w, k)
  BY <1>7, <1>9
<1> HIDE DEF u, r
<1>22. TxnInv'
  BY <1>1, <1>2, <1>6, <1>7, <1>18, <1>19, <1>20, <1>21, TableStep
<1>. QED BY <1>18, <1>22

LEMMA OpenProfileKeepsInv ==
    ASSUME TxnInv, NEW r \in Requests, OpenProfile(r)
    PROVE  TxnInv' /\ Next
<1> DEFINE u == r.user
           b == Opened(accounts[u])
<1>1. /\ r.op = "OPEN" /\ ~accounts[u].exists /\ u \in Users
      /\ \A w \in Workers : ~HoldsProfile(w, u)
      /\ accounts' = [accounts EXCEPT ![u] = b]
      /\ UNCHANGED <<processed, today, txn, replies>>
  BY RequestKinds DEF OpenProfile
<1>2. accounts[u] \in Account /\ accounts[u].ledger = <<>>
  BY <1>1 DEF TxnInv, IInv, TypeOK, RowsNeedProfile
<1>3. b.exists /\ b.ledger = accounts[u].ledger
  BY <1>2, OpenedFollows
<1>4. Perform(r, today)
  <2>1. Len(b.ledger) = 0
    BY <1>2, <1>3
  <2>2. Fresh(r) /\ Accepts(accounts[u], r, today)
        /\ After(accounts[u], r, today) = b /\ ~HasKey(r)
    BY <1>1 DEF Fresh, HasKey, Accepts, After
  <2> HIDE DEF b, u
  <2>. QED BY <1>1, <2>1, <2>2, AccountsAssumption DEF Perform, u
<1>5. Next
  BY <1>1, <1>4 DEF Next, OpenAccount
<1>6. IInv'
  BY <1>5, NextInv DEF TxnInv
<1> HIDE DEF b, u
<1>7. \A v \in Users : accounts'[v] = IF v = u THEN b ELSE accounts[v]
  BY <1>1 DEF TxnInv, IInv, TypeOK
<1>8. RowsNeedProfile'
  BY <1>3, <1>7 DEF TxnInv, RowsNeedProfile
<1>9. LocksExclusive' /\ (replies \subseteq Reply /\ RepliesAreCommitted)'
  BY <1>1, RepliesStay
     DEF TxnInv, LocksExclusive, HoldsProfile, HoldsKey, InTransaction
<1>10. ASSUME NEW v \in Users PROVE RoomLeft(v)'
  <2>1. accounts'[v].ledger = accounts[v].ledger
    BY <1>3, <1>7
  <2>2. InFlight(v)' = InFlight(v) /\ MayAddRow(v)' = MayAddRow(v)
    BY <1>1 DEF InFlight, MayAddRow, Fresh
  <2>. QED BY <2>1, <2>2, RoomStays
<1>11. ASSUME NEW w \in Workers, txn'[w].pc # "idle"
       PROVE  TransactionSound(w)'
  <2>1. txn'[w] = txn[w] /\ txn[w].pc # "idle"
    BY <1>1, <1>11
  <2>2. today' \in Int /\ today <= today'
    BY <1>1 DEF TxnInv, IInv, TypeOK
  <2>3. \A x \in Users : HoldsProfile(w, x) => accounts'[x] = accounts[x]
    BY <1>1, <1>7
  <2>4. \A k \in Keys : processed'[k] = processed[k]
    BY <1>1
  <2>. QED BY <2>1, <2>2, <2>3, <2>4, OthersStaySound
<1>. QED BY <1>1, <1>5, <1>6, <1>8, <1>9, <1>10, <1>11 DEF TxnInv

\* The tables and the transactions stay, and the clock may move.
LEMMA QuietStep ==
    ASSUME TxnInv, IInv', today <= today',
           UNCHANGED <<accounts, processed, txn, replies>>
    PROVE  TxnInv'
<1>1. LocksExclusive' /\ RowsNeedProfile' /\ (replies \subseteq Reply /\ RepliesAreCommitted)'
  BY RepliesStay
     DEF TxnInv, LocksExclusive, HoldsProfile, HoldsKey, InTransaction, RowsNeedProfile
<1>2. ASSUME NEW v \in Users PROVE RoomLeft(v)'
  <2>1. InFlight(v)' = InFlight(v) /\ MayAddRow(v)' = MayAddRow(v)
    BY DEF InFlight, MayAddRow, Fresh
  <2>. QED BY <2>1, RoomStays
<1>3. ASSUME NEW w \in Workers, txn'[w].pc # "idle"
      PROVE  TransactionSound(w)'
  <2>1. today' \in Int
    BY DEF IInv, TypeOK
  <2>. QED BY <1>3, <2>1, OthersStaySound
<1>. QED BY <1>1, <1>2, <1>3 DEF TxnInv

LEMMA TxnInitInv == TxnInit => TxnInv
<1> SUFFICES ASSUME TxnInit PROVE TxnInv
  OBVIOUS
<1>1. IInv
  BY InitInv DEF TxnInit
<1>2. \A w \in Workers : txn[w] = Idle /\ txn[w].pc = "idle"
  BY DEF TxnInit, Idle
<1>3. LocksExclusive
  BY <1>2 DEF LocksExclusive, HoldsProfile, HoldsKey, InTransaction
<1>4. ASSUME NEW u \in Users PROVE RoomLeft(u)
  <2>1. InFlight(u) = {} /\ MayAddRow(u) = {}
    BY <1>2 DEF InFlight, MayAddRow
  <2>. QED BY <2>1, FS_EmptySet DEF RoomLeft
<1>5. RowsNeedProfile
  <2>1. NoAccount.ledger = <<>> /\ LegacyAccount.exists
    BY DEF NoAccount, LegacyAccount
  <2>. QED BY <2>1 DEF TxnInit, Init, RowsNeedProfile
<1>. QED BY <1>1, <1>2, <1>3, <1>4, <1>5 DEF TxnInv, TxnInit, RepliesAreCommitted

LEMMA TxnStep ==
    ASSUME TxnInv, [TxnNext]_txnVars
    PROVE  TxnInv' /\ [Next]_accountVars
<1>1. CASE UNCHANGED txnVars
  <2>1. IInv'
    BY <1>1 DEF txnVars, TxnInv, IInv, TypeOK
  <2>2. today <= today'
    BY <1>1 DEF txnVars, TxnInv, IInv, TypeOK
  <2>. QED BY <1>1, <2>1, <2>2, QuietStep DEF txnVars, accountVars
<1>2. CASE ClockTick
  <2>1. Next
    BY <1>2 DEF ClockTick, Next
  <2>2. IInv'
    BY <2>1, NextInv DEF TxnInv
  <2>3. today <= today'
    BY <1>2 DEF ClockTick, Tick, TxnInv, IInv, TypeOK
  <2>. QED BY <1>2, <2>1, <2>2, <2>3, QuietStep DEF ClockTick, Tick
<1>3. ASSUME NEW w \in Workers, NEW r \in Requests, r.op # "OPEN", Begin(w, r)
      PROVE  TxnInv' /\ [Next]_accountVars
  BY <1>3, BeginKeepsInv
<1>4. ASSUME NEW w \in Workers, Lock(w) PROVE TxnInv' /\ [Next]_accountVars
  BY <1>4, LockKeepsInv
<1>5. ASSUME NEW w \in Workers, Decide(w) PROVE TxnInv' /\ [Next]_accountVars
  BY <1>5, DecideKeepsInv
<1>6. ASSUME NEW w \in Workers, Claim(w) PROVE TxnInv' /\ [Next]_accountVars
  BY <1>6, ClaimKeepsInv
<1>7. ASSUME NEW w \in Workers, Commit(w) PROVE TxnInv' /\ [Next]_accountVars
  BY <1>7, CommitKeepsInv
<1>8. ASSUME NEW w \in Workers, Conflict(w) PROVE TxnInv' /\ [Next]_accountVars
  BY <1>8, ConflictKeepsInv
<1>9. ASSUME NEW w \in Workers, Fail(w) PROVE TxnInv' /\ [Next]_accountVars
  BY <1>9, FailKeepsInv
<1>10. ASSUME NEW r \in Requests, OpenProfile(r) PROVE TxnInv' /\ [Next]_accountVars
  BY <1>10, OpenProfileKeepsInv
<1>. QED BY <1>1, <1>2, <1>3, <1>4, <1>5, <1>6, <1>7, <1>8, <1>9, <1>10 DEF TxnNext
-----------------------------------------------------------------------------
(***************************************************************************)
(* The theorems.                                                           *)
(***************************************************************************)
THEOREM TxnInvariance == TxnSpec => []TxnInv
<1>1. TxnInit => TxnInv
  BY TxnInitInv
<1>2. TxnInv /\ [TxnNext]_txnVars => TxnInv'
  BY TxnStep
<1>. QED BY <1>1, <1>2, PTL DEF TxnSpec

\* The locked transactions of withTransactionRetry implement the atomic
\* operations of LoyaltyAccounts: whatever races, retries and rollbacks there
\* are, the committed rows change by whole operations only.
THEOREM TransactionsImplementAccounts == TxnSpec => ImplementsAccounts
<1>1. TxnInit => Init
  BY DEF TxnInit
<1>2. TxnInv /\ [TxnNext]_txnVars => [Next]_accountVars
  BY TxnStep
<1>. QED BY <1>1, <1>2, TxnInvariance, PTL
         DEF TxnSpec, ImplementsAccounts, AccountsSpec

\* So what is proved of the atomic operations holds of the transactions.
THEOREM TransactionsKeepTheBooks ==
    TxnSpec => /\ [](LedgerExplainsBalance /\ NeverOverdrawn)
               /\ [](RefundsCompensateOnce /\ OneBonusPerYear)
               /\ [](TierEventsTellTheTier /\ KeysMatchLedger)
               /\ HistoryIsPermanent
<1>1. TxnSpec => AccountsSpec
  BY TransactionsImplementAccounts DEF ImplementsAccounts
<1>. QED BY <1>1, LedgerAlwaysExplainsBalance, AccountsNeverOverdrawn,
            RefundsAlwaysCompensateOnce, BirthdayBonusOncePerYear,
            TierEventsAlwaysTellTheTier, KeysAlwaysMatchLedger,
            HistoryAlwaysPermanent, PTL

\* The transactions in flight and the answers always have their shape.
THEOREM TransactionTypeCorrectness == TxnSpec => []TxnTypeOK
<1>1. TxnInv => TxnTypeOK
  BY DEF TxnInv, IInv, TxnTypeOK
<1>. QED BY <1>1, TxnInvariance, PTL

\* No lost update: a transaction writes from the account that is committed at
\* that moment, although its key claim may have waited after it read.
THEOREM ReadsStayCurrent == TxnSpec => []ReadIsCurrent
<1>1. TxnInv => ReadIsCurrent
  BY DEF TxnInv, TransactionSound, ReadIsCurrent
<1>. QED BY <1>1, TxnInvariance, PTL

\* Every success a caller was told of is the result stored under its key.
THEOREM RepliesAlwaysCommitted == TxnSpec => []RepliesAreCommitted
<1>1. TxnInv => RepliesAreCommitted
  BY DEF TxnInv
<1>. QED BY <1>1, TxnInvariance, PTL
-----------------------------------------------------------------------------
(***************************************************************************)
(* Expiry: the job compares with the time it began at, which is never      *)
(* ahead of the clock, and with the account it has locked.                 *)
(***************************************************************************)
\* The users whose points expire in a step, and an expiry that was due.
LosesPoints(u) ==
    LET before == accounts[u].ledger
        after  == accounts'[u].ledger
    IN  Len(after) > Len(before) /\ after[Len(after)].type = "EXPIRE"
WasDue(u) == accounts[u].expiresAt # NoDay /\ accounts[u].expiresAt <= today

\* Only a commit adds a row to a ledger.
LEMMA OnlyCommitsAddRows ==
    ASSUME TxnInv, [TxnNext]_txnVars, \A w \in Workers : ~Commit(w), NEW u \in Users
    PROVE  accounts'[u].ledger = accounts[u].ledger
<1>1. \A v \in Users : accounts[v] \in Account
                       /\ Opened(accounts[v]).ledger = accounts[v].ledger
  BY OpenedFollows DEF TxnInv, IInv, TypeOK
<1>2. ASSUME NEW v \in Users, accounts' = [accounts EXCEPT ![v] = Opened(@)]
      PROVE  accounts'[u].ledger = accounts[u].ledger
  BY <1>1, <1>2 DEF TxnInv, IInv, TypeOK
<1>3. ASSUME NEW w \in Workers, SkipEvent(w), txn[w].pc # "idle"
      PROVE  accounts'[u].ledger = accounts[u].ledger
  <2>1. txn[w].req.user \in Users
    BY <1>3, TransactionFacts
  <2>2. \/ accounts' = accounts
        \/ accounts' = [accounts EXCEPT ![txn[w].req.user] = Opened(@)]
    BY <1>3 DEF SkipEvent
  <2>. QED BY <1>2, <2>1, <2>2
<1>4. ASSUME NEW w \in Workers, Decide(w)
      PROVE  accounts'[u].ledger = accounts[u].ledger
  <2>1. txn[w].pc = "inside" /\ (SkipEvent(w) \/ accounts' = accounts)
    BY <1>4 DEF Decide, Replay, Finish
  <2>. QED BY <1>3, <2>1
<1>5. ASSUME NEW w \in Workers, Claim(w)
      PROVE  accounts'[u].ledger = accounts[u].ledger
  <2>1. txn[w].pc = "claiming" /\ (SkipEvent(w) \/ accounts' = accounts)
    BY <1>5 DEF Claim, Replay, Finish
  <2>. QED BY <1>3, <2>1
<1>6. ASSUME NEW r \in Requests, OpenProfile(r)
      PROVE  accounts'[u].ledger = accounts[u].ledger
  BY <1>2, <1>6, RequestKinds DEF OpenProfile
<1>7. \/ accounts' = accounts
      \/ \E w \in Workers : Decide(w) \/ Claim(w)
      \/ \E r \in Requests : OpenProfile(r)
  BY DEF TxnNext, txnVars, Begin, Lock, Conflict, Fail, Finish, ClockTick, Tick
<1>. QED BY <1>4, <1>5, <1>6, <1>7

LEMMA CommitExpiresWhatIsDue ==
    ASSUME TxnInv, NEW w \in Workers, Commit(w), NEW u \in Users, LosesPoints(u)
    PROVE  WasDue(u)
<1> DEFINE r == txn[w].req
           d == txn[w].asOf
           a == accounts[r.user]
           b == After(a, r, d)
<1>1. /\ txn[w].pc = "writing"
      /\ accounts' = [accounts EXCEPT ![r.user] = After(txn[w].read, r, d)]
  BY DEF Commit
<1>2. /\ txn[w] \in Txn /\ TransactionSound(w) /\ AccountInv(a) /\ a \in Account
      /\ r \in Requests /\ r.user \in Users /\ r.op \in Operations
  BY <1>1, TransactionFacts
<1>3. txn[w].read = a /\ Accepts(a, r, d)
  BY <1>1, <1>2 DEF TransactionSound
<1>4. d \in Int /\ d <= today /\ today \in Int
  BY <1>2 DEF TransactionSound, Txn, TxnInv, IInv, TypeOK
<1>5. \/ b.ledger = a.ledger
      \/ /\ Len(b.ledger) = Len(a.ledger) + 1
         /\ b.ledger[Len(a.ledger) + 1].type = "EXPIRE" => r.op = "EXPIRE"
  BY <1>2, <1>3, <1>4, RequestKinds, AfterFollows
<1> HIDE DEF b
<1>6. \A v \in Users : accounts'[v] = IF v = r.user THEN b ELSE accounts[v]
  BY <1>1, <1>3 DEF TxnInv, IInv, TypeOK, b
<1>7. \A v \in Users : Len(accounts[v].ledger) \in Nat
  <2>1. ASSUME NEW x \in Account PROVE Len(x.ledger) \in Nat
    BY DEF Account
  <2>. QED BY <2>1 DEF TxnInv, IInv, TypeOK
<1>8. u = r.user
  BY <1>6, <1>7 DEF LosesPoints
<1>9. r.op = "EXPIRE"
  BY <1>5, <1>6, <1>7, <1>8 DEF LosesPoints
<1>10. ExpiryDue(a, d)
  BY <1>3, <1>9 DEF Accepts
<1>11. a.expiresAt \in Int
  BY <1>2 DEF Account
<1>. QED BY <1>4, <1>8, <1>10, <1>11 DEF ExpiryDue, WasDue

\* expirePoints erases a balance only when its expiry is due at that moment,
\* although the job compares with the time it began at.
THEOREM ExpiryIsAlwaysDue == TxnSpec => ExpiresOnlyWhatIsDue
<1> DEFINE Due == \A u \in Users : LosesPoints(u) => WasDue(u)
<1>1. TxnInv /\ [TxnNext]_txnVars => [Due]_txnVars
  <2> SUFFICES ASSUME TxnInv, [TxnNext]_txnVars, NEW u \in Users, LosesPoints(u)
               PROVE  WasDue(u)
    OBVIOUS
  <2>1. CASE \E w \in Workers : Commit(w)
    BY <2>1, CommitExpiresWhatIsDue
  <2>2. CASE \A w \in Workers : ~Commit(w)
    <3>1. accounts'[u].ledger = accounts[u].ledger
      BY <2>2, OnlyCommitsAddRows
    <3>2. Len(accounts[u].ledger) \in Nat
      BY DEF TxnInv, IInv, TypeOK, Account
    <3>. QED BY <3>1, <3>2 DEF LosesPoints
  <2>. QED BY <2>1, <2>2
<1>2. [Due]_txnVars => [\A u \in Users :
         LET before == accounts[u]
             after  == accounts'[u].ledger
         IN  Len(after) > Len(before.ledger) /\ after[Len(after)].type = "EXPIRE"
             => before.expiresAt # NoDay /\ before.expiresAt <= today]_txnVars
  BY DEF LosesPoints, WasDue
<1>. QED BY <1>1, <1>2, TxnInvariance, PTL DEF TxnSpec, ExpiresOnlyWhatIsDue
=============================================================================
