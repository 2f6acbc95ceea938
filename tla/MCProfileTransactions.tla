----------------------- MODULE MCProfileTransactions -----------------------
(***************************************************************************)
(* Request sets for the runs of ProfileTransactions.                       *)
(***************************************************************************)
EXTENDS ProfileTransactions

CONSTANTS u1, u2, o1, o2, k1, k2, w1, w2, none

Deduction(u, o, n, k) ==
    [op |-> "DEDUCT", user |-> u, order |-> o, amount |-> n, key |-> k]
Compensation(u, o, n, k) ==
    [op |-> "REFUND", user |-> u, order |-> o, amount |-> n, key |-> k]
Ticket(u, o, n, k) ==
    [op |-> "PURCHASE", user |-> u, order |-> o, amount |-> n, used |-> NotSent,
     special |-> FALSE, vip |-> FALSE, key |-> k]
Adjustment(u, n) == [op |-> "ADMIN", user |-> u, amount |-> n]
Unlock(u, n, k)  == [op |-> "REWARD", user |-> u, amount |-> n, key |-> k]
Birth(u, day)    == [op |-> "DOB", user |-> u, day |-> day]
Of(op, u)        == [op |-> op, user |-> u]

\* Two users, two keys: the same command twice, two debits that the balance
\* covers only once, a refund, and a key that a purchase, a reward and a
\* command of another user also use.
PointRequests ==
    {Adjustment(u1, 3), Deduction(u1, o1, 2, k1), Deduction(u1, o1, 2, k2),
     Compensation(u1, o1, 2, k2), Deduction(u2, o1, 2, k1), Ticket(u2, o1, 2, k1),
     Unlock(u2, 1, k2), Of("OPEN", u2)}

\* One user, no keys but one, and a clock that moves: both birthday paths with
\* one date, adjustments, expiry, the annual reset and the VIP grant.
ClockRequests ==
    {Birth(u1, 0), Of("BIRTHDAY", u1), Of("EXPIRE", u1),
     Of("ANNUAL", u1), Of("VIP", u1), Of("OPEN", u1), Adjustment(u1, 2),
     Ticket(u1, o1, 2, k1)}
=============================================================================
