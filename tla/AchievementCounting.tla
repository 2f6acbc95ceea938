-------------------------- MODULE AchievementCounting --------------------------
(***************************************************************************)
(* What the service promises of achievements, whatever happens between the *)
(* purchase and the worker: each event counts towards each achievement in  *)
(* one step, at most once, under one definition that the administration    *)
(* may give it.  Which one is left open: AchievementDispatch says that it  *)
(* is the one the worker read.                                             *)
(***************************************************************************)
EXTENDS AchievementRules

VARIABLES
    counted,   \* which events have counted towards which achievements
    progress,  \* user_achievements
    paid       \* the rewards of every user

countingVars == <<counted, progress, paid>>

Init ==
    /\ counted = {}
    /\ progress = [u \in Users |-> [a \in Achievements |-> NoProgress]]
    /\ paid = [u \in Users |-> <<>>]

Count(e, a, d) ==
    LET u == UserOf[e] IN
    /\ <<e, a>> \notin counted
    /\ d.field = ActionOf[e] /\ ShouldProcess(d, e)
    /\ counted' = counted \cup {<<e, a>>}
    /\ progress' = [progress EXCEPT ![u][a] = Advanced(@, d, e)]
    /\ paid' = [paid EXCEPT ![u] = Paid(@, progress[u][a], a, d, e)]

Next == \E e \in Events, a \in Achievements, d \in Definitions : Count(e, a, d)

Spec == Init /\ [][Next]_countingVars
-----------------------------------------------------------------------------
\* A reward is paid at most once for an achievement, and only for one that is
\* unlocked; an unlocked achievement has reached the target it was given, and
\* one that is not has still to get there.
RewardedOnce ==
    \A u \in Users :
        /\ \A i, j \in DOMAIN paid[u] :
             paid[u][i].achievement = paid[u][j].achievement => i = j
        /\ \A i \in DOMAIN paid[u] : progress[u][paid[u][i].achievement].unlocked
        /\ \A a \in Achievements :
             progress[u][a].unlocked <=> progress[u][a].current >= progress[u][a].target
=============================================================================
