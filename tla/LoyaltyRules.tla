---------------------------- MODULE LoyaltyRules ----------------------------
(***************************************************************************)
(* The pure business rules of the loyalty service: tiers, multipliers,     *)
(* point expiry and the birthday windows.                                  *)
(*                                                                         *)
(* Time is counted in whole UTC days; a year has YearDays days and day 0   *)
(* is the first day of year 0.  The thresholds of LOYALTY_RULES are        *)
(* CONSTANTS so that a small instance can reach them; the factors (1, 1.5, *)
(* 2 and so on) are the ones of the code.                                  *)
(***************************************************************************)
EXTENDS Integers, Sequences, FiniteSets

CONSTANTS
    MinimumDeduction,  \* LOYALTY_RULES.MINIMUM_DEDUCTION, 75 in the code
    BirthdayBonus,     \* LOYALTY_RULES.BIRTHDAY_BONUS_POINTS, 100 in the code
    SilverVisits, SilverPoints, GoldVisits, GoldPoints,  \* TIER_THRESHOLDS
    BirthdayRadius,    \* BIRTHDAY_WEEK_RADIUS_DAYS, 3 in the code
    YearDays,          \* length of a year in days
    MaxInt             \* largest value of an INTEGER column, 2^31-1

ASSUME RulesAssumption ==
    /\ MinimumDeduction \in Nat \ {0}
    /\ BirthdayBonus \in Nat \ {0}
    /\ SilverVisits \in Nat \ {0} /\ SilverPoints \in Nat \ {0}
    /\ GoldVisits \in Nat \ {0}   /\ GoldPoints \in Nat \ {0}
    /\ BirthdayRadius \in Nat
    /\ YearDays \in Nat \ {0}
    /\ MaxInt \in Nat \ {0}
-----------------------------------------------------------------------------
\* Tiers, numbered as TIER_ORDER numbers them.
Bronze == 0
Silver == 1
Gold   == 2
Tier   == {Bronze, Silver, Gold}

\* The tier the yearly metrics call for.
TierByMetrics(visits, points) ==
    IF visits >= GoldVisits \/ points >= GoldPoints THEN Gold
    ELSE IF visits >= SilverVisits \/ points >= SilverPoints THEN Silver
    ELSE Bronze

\* A mutant: the calculated tier replaces a higher current one.
DowngradedTier(tier, visits, points) == TierByMetrics(visits, points)

\* Promotions only: a lower calculated tier never replaces the current one.
ResolveNewTier(tier, visits, points) ==
    IF TierByMetrics(visits, points) > tier
    THEN TierByMetrics(visits, points) ELSE tier
-----------------------------------------------------------------------------
\* Dates.  NoDay stands for a NULL date, NoBirthday for a NULL birthday.
NoDay      == -1
NoBirthday == -1
YearOf(day)         == day \div YearDays
DayOfYear(day)      == day % YearDays
AddYear(day)        == day + YearDays
IsBirthday(b, day)  == b # NoBirthday /\ b = DayOfYear(day)

\* The birthday of the previous, the current or the next year lies within
\* BirthdayRadius days of the given day.
IsBirthdayWeek(b, day) ==
    /\ b # NoBirthday
    /\ \E y \in {-1, 0, 1} :
         LET candidate == (YearOf(day) + y) * YearDays + b
         IN  /\ day - candidate <= BirthdayRadius
             /\ candidate - day <= BirthdayRadius

\* Twice the multiplier of a purchase: the tier factors 1, 1.5 and 2 are
\* halves of whole numbers, and the other factors are whole.
DoubledMultiplier(tier, birthday, special, day) ==
    LET tierFactor     == <<2, 3, 4>>[tier + 1]
        birthdayFactor == IF IsBirthdayWeek(birthday, day)
                          THEN <<2, 3, 5>>[tier + 1] ELSE 1
        specialFactor  == IF special THEN 2 ELSE 1
    IN  tierFactor * birthdayFactor * specialFactor

\* Math.floor(amount * multiplier)
PointsFor(amount, doubled) == (amount * doubled) \div 2

\* A value an INTEGER column and assertAccountingInteger accept.
Fits(n) == n <= MaxInt /\ n >= -MaxInt - 1
=============================================================================
