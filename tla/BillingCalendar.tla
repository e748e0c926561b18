--------------------------- MODULE BillingCalendar ---------------------------
(***************************************************************************)
(* The dates between which a subscription runs: calculateEndDate of        *)
(* src/handlers/SubscriptionHandler.ts and calculateNewEndDate of          *)
(* src/workers/AutopayWorker.ts, which add a month or a year to a Date.    *)
(* The time of day is left out: both keep it.                              *)
(***************************************************************************)
EXTENDS Integers

CONSTANTS
    StartDates,  \* the days on which subscriptions may begin
    MaxPeriods   \* bound on the periods of a subscription

VARIABLES
    plan,
    startDate,
    endDate,
    periods      \* periods until endDate, 0 before createSubscription

calendarVars == <<plan, startDate, endDate, periods>>

Plan == {"MONTHLY", "ANNUAL"}

IsLeap(y) == y % 4 = 0 /\ (y % 100 # 0 \/ y % 400 = 0)

DaysIn(y, m) ==
    CASE m = 2             -> IF IsLeap(y) THEN 29 ELSE 28
      [] m \in {4, 6, 9, 11} -> 30
      [] OTHER             -> 31

Date == [year : Nat, month : 1 .. 12, day : 1 .. 31]

IsDate(d) == d \in Date /\ d.day <= DaysIn(d.year, d.month)

ASSUME CalendarAssumption ==
    /\ \A d \in StartDates : IsDate(d)
    /\ MaxPeriods \in Nat

-----------------------------------------------------------------------------
(* A bug: the fields of the date are set one by one, as in a string.       *)
MutNoRollover(y, m, d) == [year |-> y, month |-> m, day |-> d]

(* A bug: the last day of the month instead of a rollover.                 *)
MutClampDay(y, m, d) ==
    [year |-> y, month |-> m, day |-> IF d <= DaysIn(y, m) THEN d ELSE DaysIn(y, m)]

(* Date.setMonth and setFullYear: the day stays, and what is past the last *)
(* day of the month runs into the next one.  A month of less than 31 days  *)
(* is never the last of its year.                                          *)
InYear(y, m, d) ==
    LET n == DaysIn(y, m)
    IN  IF d <= n THEN [year |-> y, month |-> m, day |-> d]
        ELSE [year |-> y, month |-> m + 1, day |-> d - n]

(* A bug: the same year after December.                                    *)
MutStaysInYear(d, p) ==
    IF p = "ANNUAL" THEN InYear(d.year + 1, d.month, d.day)
    ELSE InYear(d.year, (d.month % 12) + 1, d.day)

NextEnd(d, p) ==
    IF p = "ANNUAL" THEN InYear(d.year + 1, d.month, d.day)
    ELSE IF d.month = 12 THEN InYear(d.year + 1, 1, d.day)
    ELSE InYear(d.year, d.month + 1, d.day)

CreateSubscription ==
    /\ periods = 0
    /\ endDate' = NextEnd(startDate, plan)
    /\ periods' = 1
    /\ UNCHANGED <<plan, startDate>>

(* Renewals count from the end that is there, not from the start.          *)
RenewSubscription ==
    /\ periods \in 1 .. MaxPeriods - 1
    /\ endDate' = NextEnd(endDate, plan)
    /\ periods' = periods + 1
    /\ UNCHANGED <<plan, startDate>>

CalendarInit ==
    /\ plan \in Plan
    /\ startDate \in StartDates
    /\ endDate = startDate
    /\ periods = 0

CalendarNext == CreateSubscription \/ RenewSubscription

CalendarSpec == CalendarInit /\ [][CalendarNext]_calendarVars

-----------------------------------------------------------------------------
(* Properties *)

CalendarTypeOK ==
    /\ plan \in Plan
    /\ IsDate(startDate)
    /\ IsDate(endDate)
    /\ periods \in Nat

MonthIndex(d) == 12 * d.year + d.month

Months(p) == IF p = "ANNUAL" THEN 12 ELSE 1

(* The month in which the periods end that were paid for.                  *)
Due == MonthIndex(startDate) + periods * Months(plan)

(* Repeated renewals do not drift: either the end is the day of the start, *)
(* as many months later as were paid, or one renewal rolled over a short   *)
(* month, never a second one, and the end stays within the first three     *)
(* days of the month after (SubscriptionHandler.ts:85, AutopayWorker.ts:167). *)
RollsOverOnce ==
    \/ MonthIndex(endDate) = Due /\ endDate.day = startDate.day
    \/ /\ MonthIndex(endDate) = Due + 1
       /\ endDate.day \in 1 .. 3
       /\ startDate.day >= 29
       /\ endDate.day <= startDate.day - 28

(* The days of the common era, counted without the months' lengths above:  *)
(* days up to the month from the table of a common year, leap days by the  *)
(* rule of four, a hundred and four hundred.                               *)
DaysBefore == <<0, 31, 59, 90, 120, 151, 181, 212, 243, 273, 304, 334>>

LeapDays(y) == y \div 4 - y \div 100 + y \div 400

DayNumber(d) ==
    365 * d.year + DaysBefore[d.month] + d.day
        + LeapDays(IF d.month > 2 THEN d.year ELSE d.year - 1)

(* What a payment buys: a month is 28 to 31 days, as many as the month it  *)
(* starts in, and a year is 365 or 366, at each renewal.                   *)
PeriodLength ==
    [][LET days == DayNumber(endDate') - DayNumber(endDate)
       IN  IF plan = "ANNUAL" THEN days \in 365 .. 366
           ELSE days = DaysIn(endDate.year, endDate.month)]_endDate

(* The end is never before the anniversary of the start, taken on the last *)
(* day of a month that is too short for it, and three days after at most.  *)
Anniversary ==
    LET y == (Due - 1) \div 12
        m == ((Due - 1) % 12) + 1
        n == DaysIn(y, m)
    IN  [year |-> y, month |-> m, day |-> IF startDate.day <= n THEN startDate.day ELSE n]

NeverShort ==
    DayNumber(endDate) - DayNumber(Anniversary) \in 0 .. 3
=============================================================================
