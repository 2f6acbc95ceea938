--------------------------- MODULE AchievementRules ---------------------------
(***************************************************************************)
(* What one event does to the progress of its user towards one             *)
(* achievement: calculateAchievementProgressIncrement and the transaction  *)
(* of AchievementsProcessor.processAchievement, without the idempotency    *)
(* key that guards it.                                                     *)
(***************************************************************************)
EXTENDS Integers, Sequences

CONSTANTS
    Users,
    Events,        \* event ids: an order, and an order with the suffix _vip
    UserOf,        \* the user of an event
    ActionOf,      \* its actionType
    AmountOf,      \* the number its metadata has for the valueField
    Achievements,  \* achievement ids
    Definitions,   \* the definitions the administration may give them
    Refused        \* achievements whose reward the database always refuses

\* A definition: the code, the criteria (field, operator, target), the reward.
Definition == [code: STRING, active: BOOLEAN, field: STRING, operator: {"gte", "sum"},
               target: Nat \ {0}, reward: Nat]

ASSUME AchievementRulesAssumption ==
    /\ UserOf \in [Events -> Users]
    /\ ActionOf \in [Events -> STRING]
    /\ AmountOf \in [Events -> Int]
    /\ Definitions \subseteq Definition
    /\ Refused \subseteq Achievements

\* findMany: the event is one the achievement is about.
Matches(d, e) == d.active /\ d.field = ActionOf[e]

\* A sum has nothing to add for an event without a positive amount.
ShouldProcess(d, e) == d.operator = "sum" => AmountOf[e] > 0
IncrementBy(d, e)   == IF d.operator = "sum" THEN AmountOf[e] ELSE 1

\* user_achievements; a row that does not exist yet has the column defaults.
Progress   == [current: Nat, target: Nat \ {0}, unlocked: BOOLEAN]

\* A mutant: the column has no default that a target may have.
NoTarget == [current |-> 0, target |-> 0, unlocked |-> FALSE]

NoProgress == [current |-> 0, target |-> 1, unlocked |-> FALSE]

\* A mutant: an unlocked achievement goes on counting and unlocks again.
AdvancedAgain(p, d, e) ==
    LET current == p.current + IncrementBy(d, e) IN
    [current |-> current, target |-> d.target, unlocked |-> current >= d.target]

\* The row counts on with the target of the definition that was read, unlocks
\* when it gets there, and rests from then on.
Advanced(p, d, e) ==
    LET current == p.current + IncrementBy(d, e) IN
    IF p.unlocked THEN p
    ELSE [current |-> current, target |-> d.target, unlocked |-> current >= d.target]

\* The rewards paid: EARN_ACHIEVEMENT rows of points_transactions.
Reward == [achievement: Achievements, points: Nat \ {0}]

\* A mutant: the reward is paid for every event from the target on.
PaidAgain(paid, p, a, d, e) ==
    IF Advanced(p, d, e).unlocked /\ d.reward > 0
    THEN Append(paid, [achievement |-> a, points |-> d.reward]) ELSE paid

\* The reward is paid by the event that unlocks.
Paid(paid, p, a, d, e) ==
    IF ~p.unlocked /\ Advanced(p, d, e).unlocked /\ d.reward > 0
    THEN Append(paid, [achievement |-> a, points |-> d.reward]) ELSE paid
=============================================================================
