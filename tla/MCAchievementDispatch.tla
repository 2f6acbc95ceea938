------------------------ MODULE MCAchievementDispatch ------------------------
(***************************************************************************)
(* Values for the run of AchievementDispatch: one user buys two tickets,   *)
(* the second for nothing.                                                 *)
(***************************************************************************)
EXTENDS AchievementDispatch, TLC

CONSTANTS u1, t1, t2, visits, spender, p1, p2, w1, w2, none

TwoPurchases == {{t1}, {t2}}
Owners  == [e \in {t1, t2} |-> u1]
Tickets == [e \in {t1, t2} |-> "TICKET_PURCHASED"]
Amounts == (t1 :> 2) @@ (t2 :> 0)

Visits(target, reward) ==
    [code |-> "visits", active |-> TRUE, field |-> "TICKET_PURCHASED",
     operator |-> "gte", target |-> target, reward |-> reward]
Spender ==
    [code |-> "spender", active |-> TRUE, field |-> "TICKET_PURCHASED",
     operator |-> "sum", target |-> 2, reward |-> 1]

\* Three visits, which the administration may lower to one; and a sum.
TheDefinitions == {Visits(3, 3), Visits(1, 2), Spender}
AtFirst ==
    {(visits :> Visits(3, 3)) @@ (spender :> none)}
=============================================================================
