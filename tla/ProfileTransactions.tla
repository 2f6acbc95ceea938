------------------------- MODULE ProfileTransactions -------------------------
(***************************************************************************)
(* How the code carries out the operations of LoyaltyAccounts: every       *)
(* operation on an account is one READ COMMITTED transaction under         *)
(* withTransactionRetry, which locks the profile row (creating it first    *)
(* when the operation may), looks its idempotency key up, reads, decides,  *)
(* claims the key and commits.  Workers are requests in flight in any      *)
(* replica of the service: gRPC handlers, consumers, scheduled jobs and    *)
(* achievement jobs.                                                       *)
(*                                                                         *)
(* A transaction writes nothing others can see before it commits, so its   *)
(* uncommitted rows are a local record and a rollback forgets the record.  *)
(* A row lock and an uncommitted unique key make others wait; both belong  *)
(* to the transaction that is "inside", "claiming" or "writing".           *)
(***************************************************************************)
EXTENDS LoyaltyAccounts

CONSTANTS
    Workers,
    MaxAttempts    \* MAX_TRANSACTION_ATTEMPTS, 3 in the code

ASSUME TransactionsAssumption == MaxAttempts \in Nat \ {0}

VARIABLES
    txn,      \* the transaction of every worker
    replies   \* history: the successful answers sent to point commands

txnVars == <<accounts, processed, today, txn, replies>>

Idle == [pc |-> "idle"]
Txn  == [pc: {"begun", "inside", "claiming", "writing"}, req: Request,
         asOf: Nat, attempt: 1..MaxAttempts, locked: BOOLEAN, read: Account]
Reply == [req: PointRequest, balance: Int]

\* The operations that read the clock before the transaction begins.
Early(r)   == r.op \in {"DOB", "BIRTHDAY", "EXPIRE"}
\* The operations that lock with createIfMissing.
Creates(r) == r.op \in {"PURCHASE", "REWARD", "ADMIN", "VIP", "DOB"}

InTransaction(w)  == txn[w].pc \in {"inside", "claiming", "writing"}
HoldsProfile(w, u) == InTransaction(w) /\ txn[w].locked /\ txn[w].req.user = u
HoldsKey(w, k) ==
    /\ txn[w].pc = "writing"
    /\ HasKey(txn[w].req)
    /\ txn[w].req.key = k

\* A mutant: SELECT without FOR UPDATE, which waits for nobody.
ProfileFreeForAll(w, u) == TRUE

ProfileFree(w, u) == \A v \in Workers \ {w} : ~HoldsProfile(v, u)

\* A mutant: a key that another transaction has inserted and not committed is
\* not waited for.
KeyFreeForAll(w, k) == TRUE

KeyFree(w, k) == \A v \in Workers \ {w} : ~HoldsKey(v, k)
-----------------------------------------------------------------------------
TxnInit ==
    /\ Init
    /\ txn = [w \in Workers |-> Idle]
    /\ replies = {}

\* Bounds the model: a request begins only when the ledger has room for a row
\* of every request in flight, or its key answers it without one.
HasRoom(r) ==
    LET pending == {w \in Workers : txn[w].pc # "idle" /\ txn[w].req.user = r.user}
    IN  \/ Len(accounts[r.user].ledger) + Cardinality(pending) < LedgerBound
        \/ HasKey(r) /\ processed[r.key] # NoRow

\* A request arrives: for the first time, or again because its caller, broker
\* or queue never saw the answer.
Begin(w, r) ==
    /\ txn[w] = Idle
    /\ HasRoom(r)
    /\ txn' = [txn EXCEPT ![w] =
                 [pc |-> "begun", req |-> r, asOf |-> today, attempt |-> 1,
                  locked |-> FALSE, read |-> NoAccount]]
    /\ UNCHANGED <<accounts, processed, today, replies>>

\* lockLoyaltyProfile: it waits for the row lock, or for another transaction
\* that is inserting the row; without a committed row an operation that does
\* not create one goes on without a lock.
Lock(w) ==
    LET r == txn[w].req
        locks == accounts[r.user].exists \/ Creates(r) IN
    /\ txn[w].pc = "begun"
    /\ locks => ProfileFree(w, r.user)
    /\ txn' = [txn EXCEPT ![w].pc = "inside", ![w].locked = locks]
    /\ UNCHANGED <<accounts, processed, today, replies>>

\* The callback returns or throws with nothing to commit.
Finish(w) ==
    /\ txn' = [txn EXCEPT ![w] = Idle]
    /\ UNCHANGED <<accounts, processed, today>>

\* A mutant: a replay answers with the balance of the moment.
ReplayCurrentBalance(w) ==
    LET r == txn[w].req
        row == processed[r.key] IN
    /\ Finish(w)
    /\ replies' = IF row # EventRow /\ row = CommandRow(r, row.balanceAfter)
                  THEN replies \cup {[req |-> r, balance |-> accounts[r.user].balance]}
                  ELSE replies

\* replayPointCommand with a stored row: the same command gets the stored
\* result, any other use of the key is refused.
Replay(w) ==
    LET r == txn[w].req
        row == processed[r.key] IN
    /\ Finish(w)
    /\ replies' = IF row # EventRow /\ row = CommandRow(r, row.balanceAfter)
                  THEN replies \cup {[req |-> r, balance |-> row.balanceAfter]}
                  ELSE replies

\* A processed event is skipped; the profile row stays if this created it.  A
\* point command under the key is an error, which rolls back.
SkipEvent(w) ==
    LET r == txn[w].req IN
    /\ txn' = [txn EXCEPT ![w] = Idle]
    /\ accounts' = IF processed[r.key] = EventRow
                   THEN [accounts EXCEPT ![r.user] = Opened(@)] ELSE accounts
    /\ UNCHANGED <<processed, today, replies>>

\* The lookups and the checks under the lock, on committed rows.  The clock is
\* read here unless it was read early.
Decide(w) ==
    LET r    == txn[w].req
        a    == accounts[r.user]
        asOf == IF Early(r) THEN txn[w].asOf ELSE today
        goOn(pc) ==
            /\ txn' = [txn EXCEPT ![w].pc = pc, ![w].asOf = asOf, ![w].read = a]
            /\ UNCHANGED <<accounts, processed, today, replies>>
    IN
    /\ txn[w].pc = "inside"
    /\ \/ r.op \in {"DEDUCT", "REFUND"} /\ processed[r.key] # NoRow /\ Replay(w)
       \/ r.op = "PURCHASE" /\ processed[r.key] # NoRow /\ SkipEvent(w)
       \/ r.op = "REWARD" /\ goOn("claiming")
       \/ /\ r.op # "REWARD" /\ Fresh(r)
          /\ IF txn[w].locked /\ Accepts(a, r, asOf)
             THEN goOn(IF HasKey(r) THEN "claiming" ELSE "writing")
             ELSE Finish(w) /\ UNCHANGED replies

\* The key is inserted: this waits for another transaction that has inserted it
\* and not committed, and then finds it there or not.
Claim(w) ==
    LET r == txn[w].req IN
    /\ txn[w].pc = "claiming"
    /\ KeyFree(w, r.key)
    /\ \/ /\ processed[r.key] = NoRow
          /\ IF Accepts(txn[w].read, r, txn[w].asOf)
             THEN /\ txn' = [txn EXCEPT ![w].pc = "writing"]
                  /\ UNCHANGED <<accounts, processed, today, replies>>
             ELSE Finish(w) /\ UNCHANGED replies
       \/ processed[r.key] # NoRow /\ r.op \in {"DEDUCT", "REFUND"} /\ Replay(w)
       \/ processed[r.key] # NoRow /\ r.op = "REWARD" /\ SkipEvent(w)
       \/ /\ processed[r.key] # NoRow /\ r.op = "PURCHASE"
          /\ Finish(w) /\ UNCHANGED replies

\* Everything the transaction wrote appears at once, computed from what it
\* read under the lock; its locks go, and the answer is sent.
Commit(w) ==
    LET r     == txn[w].req
        after == After(txn[w].read, r, txn[w].asOf) IN
    /\ txn[w].pc = "writing"
    /\ accounts' = [accounts EXCEPT ![r.user] = after]
    /\ processed' = IF HasKey(r)
                    THEN [processed EXCEPT ![r.key] = RowOf(r, after.balance)]
                    ELSE processed
    /\ txn' = [txn EXCEPT ![w] = Idle]
    /\ replies' = IF r \in PointRequest
                  THEN replies \cup {[req |-> r, balance |-> after.balance]}
                  ELSE replies
    /\ UNCHANGED today

\* A mutant: conflicts are retried without a limit.
ConflictForever(w) ==
    /\ txn[w].pc # "idle"
    /\ txn' = [txn EXCEPT ![w].pc = "begun", ![w].locked = FALSE,
                          ![w].read = NoAccount]
    /\ UNCHANGED <<accounts, processed, today, replies>>

\* A mutant: one attempt too many.
ConflictOnceMore(w) ==
    /\ txn[w].pc # "idle"
    /\ txn[w].attempt <= MaxAttempts
    /\ txn' = [txn EXCEPT ![w].pc = "begun", ![w].locked = FALSE,
                          ![w].read = NoAccount, ![w].attempt = @ + 1]
    /\ UNCHANGED <<accounts, processed, today, replies>>

\* PostgreSQL aborts the transaction with a serialization failure or as the
\* victim of a deadlock: it is retried, with the clock read early kept, until
\* the attempts are spent.
Conflict(w) ==
    /\ txn[w].pc # "idle"
    /\ txn[w].attempt < MaxAttempts
    /\ txn' = [txn EXCEPT ![w].pc = "begun", ![w].locked = FALSE,
                          ![w].read = NoAccount, ![w].attempt = @ + 1]
    /\ UNCHANGED <<accounts, processed, today, replies>>

\* Another error, the last conflict or the end of the process: the transaction
\* rolls back and its request is over.
Fail(w) ==
    /\ txn[w].pc # "idle"
    /\ Finish(w)
    /\ UNCHANGED replies

\* getBalance and getFullProfile create the profile in a statement of its own,
\* which waits for a transaction that is inserting it.
OpenProfile(r) ==
    /\ r.op = "OPEN"
    /\ ~accounts[r.user].exists
    /\ \A w \in Workers : ~HoldsProfile(w, r.user)
    /\ accounts' = [accounts EXCEPT ![r.user] = Opened(@)]
    /\ UNCHANGED <<processed, today, txn, replies>>

ClockTick == Tick /\ UNCHANGED <<txn, replies>>

TxnNext ==
    \/ \E w \in Workers :
         \/ \E r \in {q \in Requests : q.op # "OPEN"} : Begin(w, r)
         \/ Lock(w) \/ Decide(w) \/ Claim(w) \/ Commit(w)
         \/ Conflict(w) \/ Fail(w)
    \/ \E r \in Requests : OpenProfile(r)
    \/ ClockTick

\* The database grants a lock to every waiter in turn, and a running
\* transaction goes on.
Fairness ==
    \A w \in Workers :
        SF_txnVars(Lock(w)) /\ SF_txnVars(Claim(w))
        /\ WF_txnVars(Decide(w)) /\ WF_txnVars(Commit(w))

TxnSpec     == TxnInit /\ [][TxnNext]_txnVars
FairTxnSpec == TxnSpec /\ Fairness
-----------------------------------------------------------------------------
(***************************************************************************)
(* Properties.                                                             *)
(***************************************************************************)
\* Every variable has the shape of what it stands for.
TxnTypeOK ==
    /\ TypeOK
    /\ txn \in [Workers -> Txn \cup {Idle}]
    /\ replies \subseteq Reply

\* No lost update: what a transaction read and goes on to write from is still
\* the committed account, however the other transactions interleave, although
\* the code writes absolute values computed before its key claim may wait.
ReadIsCurrent ==
    \A w \in Workers : txn[w].pc \in {"claiming", "writing"} =>
        txn[w].read = accounts[txn[w].req.user]

\* Every success a caller has been told of is the committed result of its
\* command: the stored row under the key is that command's, with the balance
\* that was answered.  So equal commands get equal answers whatever attempts,
\* races or later changes of the balance there were, and no two different
\* commands succeed under one key.
RepliesAreCommitted ==
    \A p \in replies : processed[p.req.key] = CommandRow(p.req, p.balance)

\* The transactions implement the atomic operations of LoyaltyAccounts: every
\* step of theirs leaves the committed rows alone or is one whole operation
\* on one user's account and the key table, carried out at most once a key.
ImplementsAccounts == AccountsSpec

\* A request that has begun comes to an end: waiting for profile locks and
\* keys never goes round in a circle, and conflicts are not retried forever.
EveryRequestEnds ==
    \A w \in Workers : txn[w].pc # "idle" ~> txn[w].pc = "idle"

\* Points are erased only when their expiry is due at that moment: a balance
\* that a purchase, a bonus or an adjustment renewed after the job had listed
\* its user, or while the job waited for the lock, is not erased, although the
\* job compares with the time it began at.
ExpiresOnlyWhatIsDue ==
    [][\A u \in Users :
         LET before == accounts[u]
             after  == accounts'[u].ledger
         IN  Len(after) > Len(before.ledger) /\ after[Len(after)].type = "EXPIRE"
             => before.expiresAt # NoDay /\ before.expiresAt <= today]_txnVars

\* docs/profile-concurrency.md: birthday grants and positive adjustments
\* "extend" the expiry, so the expiry of a balance never moves to an earlier
\* day.  (The code does not promise it: see the README.)
ExpiryNeverMovesBack ==
    [][\A u \in Users : accounts'[u].expiresAt >= accounts[u].expiresAt]_txnVars
=============================================================================
