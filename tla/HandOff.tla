------------------------------- MODULE HandOff -------------------------------
(***************************************************************************)
(* What both publishers promise of the rows that a business transaction    *)
(* saves for another system: a row is marked as handed over only when the  *)
(* other system has accepted it, a mark is never taken back, and every     *)
(* saved row is in the end marked, or given up for everybody to see.  How  *)
(* often it is sent is left open: the hand-over is at least once.          *)
(***************************************************************************)

CONSTANT Items

VARIABLES
    saved,      \* committed with the business transaction
    accepted,   \* reached the other system, once or more often
    marked,     \* recorded as handed over
    abandoned   \* recorded as given up

handOffVars == <<saved, accepted, marked, abandoned>>

Init ==
    /\ saved \in SUBSET Items
    /\ accepted = {} /\ marked = {} /\ abandoned = {}

Save(S) ==
    /\ S \subseteq Items /\ S # {}
    /\ saved' = saved \cup S
    /\ UNCHANGED <<accepted, marked, abandoned>>

Accept(i) ==
    /\ i \in saved \ accepted
    /\ accepted' = accepted \cup {i}
    /\ UNCHANGED <<saved, marked, abandoned>>

\* A mark is set once, by whoever is first to record the acceptance.
Mark(i) ==
    /\ i \in accepted \ (marked \cup abandoned)
    /\ marked' = marked \cup {i}
    /\ UNCHANGED <<saved, accepted, abandoned>>

\* One step of a publisher may give several rows up.
Abandon(S) ==
    /\ S # {} /\ S \subseteq saved \ (marked \cup abandoned)
    /\ abandoned' = abandoned \cup S
    /\ UNCHANGED <<saved, accepted, marked>>

Next ==
    \/ \E S \in SUBSET Items : Save(S) \/ Abandon(S)
    \/ \E i \in Items : Accept(i) \/ Mark(i)

Safety == Init /\ [][Next]_handOffVars

\* Nothing that is saved stays open: Items is finite and what is marked or given
\* up stays so, hence to be done with all of it again and again is to be done
\* with each of it in the end.
Settled == []<>(saved \subseteq marked \cup abandoned)

Spec == Safety /\ Settled
=============================================================================
