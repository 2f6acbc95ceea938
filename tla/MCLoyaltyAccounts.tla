-------------------------- MODULE MCLoyaltyAccounts --------------------------
(***************************************************************************)
(* Request sets for the runs of LoyaltyAccounts.                           *)
(***************************************************************************)
EXTENDS LoyaltyAccounts

CONSTANTS u1, u2, o1, o2, k1, k2, k3, none

Deduction(u, o, n, k) ==
    [op |-> "DEDUCT", user |-> u, order |-> o, amount |-> n, key |-> k]
Compensation(u, o, n, k) ==
    [op |-> "REFUND", user |-> u, order |-> o, amount |-> n, key |-> k]
Ticket(u, o, n, used, special, vip, k) ==
    [op |-> "PURCHASE", user |-> u, order |-> o, amount |-> n, used |-> used,
     special |-> special, vip |-> vip, key |-> k]
Adjustment(u, n) == [op |-> "ADMIN", user |-> u, amount |-> n]
Unlock(u, n, k)  == [op |-> "REWARD", user |-> u, amount |-> n, key |-> k]
Birth(u, day)    == [op |-> "DOB", user |-> u, day |-> day]
Of(op, u)        == [op |-> op, user |-> u]

\* Two users share three keys and two orders: deductions, refunds of the right
\* and the wrong amount, a legacy debit (u2, o2), top-ups and expiry.
CommandRequests ==
    {Deduction(u1, o1, 2, k1), Deduction(u1, o1, 3, k2), Deduction(u1, o2, 2, k3),
     Deduction(u2, o1, 2, k1), Deduction(u1, o2, 1, k2),
     Compensation(u1, o1, 2, k2), Compensation(u1, o1, 2, k3),
     Compensation(u1, o1, 1, k3), Compensation(u2, o2, 2, k3),
     Compensation(u2, o1, 2, k2),
     Adjustment(u1, 4), Adjustment(u1, -3), Of("EXPIRE", u1)}

\* One user earns from every source up to the column limit and the GOLD tier.
EarningRequests ==
    {Ticket(u1, o1, 3, NotSent, FALSE, TRUE, k1),
     Ticket(u1, o2, 1, 0, TRUE, FALSE, k2),
     Ticket(u1, o1, 2, 1, FALSE, TRUE, k3),
     Deduction(u1, o1, 2, k3), Unlock(u1, 2, k2), Unlock(u1, 0, k3),
     Adjustment(u1, 5), Adjustment(u1, -4),
     Birth(u1, 0), Birth(u1, 1),
     Of("OPEN", u1), Of("VIP", u1), Of("BIRTHDAY", u1), Of("EXPIRE", u1),
     Of("ANNUAL", u1)}
=============================================================================
