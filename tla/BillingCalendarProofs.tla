------------------------ MODULE BillingCalendarProofs ------------------------
(* Proofs about BillingCalendar, for every start date and number of periods. *)
EXTENDS BillingCalendar, TLAPS

(* A month has 28 to 31 days, and 31 in December and January.              *)
LEMMA MonthLengths ==
    ASSUME NEW y \in Nat, NEW m \in 1 .. 12
    PROVE  /\ DaysIn(y, m) \in 28 .. 31
           /\ m \in {1, 12} => DaysIn(y, m) = 31
BY DEF DaysIn

(* e is a date with day d in the month of index i, or one of the first     *)
(* three days of the month after it.                                       *)
Lands(e, i, d) ==
    /\ IsDate(e)
    /\ \/ MonthIndex(e) = i /\ e.day = d
       \/ /\ MonthIndex(e) = i + 1
          /\ e.day \in 1 .. 3
          /\ e.day <= d - 28

LEMMA InYearLands ==
    ASSUME NEW y \in Nat, NEW m \in 1 .. 12, NEW d \in 1 .. 31
    PROVE  Lands(InYear(y, m, d), 12 * y + m, d)
<1> DEFINE n == DaysIn(y, m)
<1>1. n \in 28 .. 31 /\ (m \in {1, 12} => n = 31)
  BY MonthLengths
<1>2. CASE d <= n
  <2>1. InYear(y, m, d) = [year |-> y, month |-> m, day |-> d]
    BY <1>2 DEF InYear
  <2> QED
    BY <1>2, <2>1 DEF Lands, IsDate, Date, MonthIndex
<1>3. CASE ~(d <= n)
  <2>1. InYear(y, m, d) = [year |-> y, month |-> m + 1, day |-> d - n]
    BY <1>3 DEF InYear
  <2>2. m + 1 \in 1 .. 12 /\ d - n \in 1 .. 3 /\ d - n <= d - 28
    BY <1>1, <1>3
  <2>3. DaysIn(y, m + 1) \in 28 .. 31
    BY <2>2, MonthLengths
  <2> HIDE DEF n
  <2> QED
    BY <2>1, <2>2, <2>3 DEF Lands, IsDate, Date, MonthIndex
<1> QED
  BY <1>2, <1>3

(* A renewal moves the end by the months of the plan; or by one more, onto *)
(* one of the first three days, if the end was on one of the last three.   *)
LEMMA NextEndLands ==
    ASSUME NEW d, IsDate(d), NEW p \in Plan
    PROVE  Lands(NextEnd(d, p), MonthIndex(d) + Months(p), d.day)
<1>1. d.year \in Nat /\ d.month \in 1 .. 12 /\ d.day \in 1 .. 31 /\ d.year + 1 \in Nat
  BY DEF IsDate, Date
<1>2. CASE p = "ANNUAL"
  <2>1. Lands(InYear(d.year + 1, d.month, d.day), 12 * (d.year + 1) + d.month, d.day)
    BY <1>1, InYearLands
  <2>2. 12 * (d.year + 1) + d.month = MonthIndex(d) + Months(p)
    BY <1>1, <1>2 DEF MonthIndex, Months
  <2> QED
    BY <1>2, <2>1, <2>2 DEF NextEnd
<1>3. CASE p # "ANNUAL" /\ d.month = 12
  <2>1. Lands(InYear(d.year + 1, 1, d.day), 12 * (d.year + 1) + 1, d.day)
    <3>1. 1 \in 1 .. 12
      OBVIOUS
    <3> QED
      BY <1>1, <3>1, InYearLands
  <2>2. 12 * (d.year + 1) + 1 = MonthIndex(d) + Months(p)
    BY <1>1, <1>3 DEF MonthIndex, Months
  <2> QED
    BY <1>3, <2>1, <2>2 DEF NextEnd
<1>4. CASE p # "ANNUAL" /\ d.month # 12
  <2>1. d.month + 1 \in 1 .. 12
    BY <1>1, <1>4
  <2>2. Lands(InYear(d.year, d.month + 1, d.day), 12 * d.year + (d.month + 1), d.day)
    BY <1>1, <2>1, InYearLands
  <2>3. 12 * d.year + (d.month + 1) = MonthIndex(d) + Months(p)
    BY <1>1, <1>4 DEF MonthIndex, Months
  <2> QED
    BY <1>4, <2>2, <2>3 DEF NextEnd
<1> QED
  BY <1>2, <1>3, <1>4

-----------------------------------------------------------------------------
(* RollsOverOnce is inductive once it is known that a subscription without *)
(* a period has not moved at all.                                          *)
CalendarInv ==
    /\ CalendarTypeOK
    /\ RollsOverOnce
    /\ periods = 0 => endDate = startDate

LEMMA MonthIndexType == ASSUME NEW d, IsDate(d) PROVE MonthIndex(d) \in Nat
BY DEF IsDate, Date, MonthIndex

(* One more period, counted from the end, keeps the invariant: from a day  *)
(* after a rollover no second one is reached.                              *)
LEMMA PeriodKeepsInv ==
    ASSUME CalendarInv,
           endDate' = NextEnd(endDate, plan),
           periods' = periods + 1,
           UNCHANGED <<plan, startDate>>
    PROVE  CalendarInv'
<1>1. /\ plan \in Plan /\ periods \in Nat
      /\ IsDate(startDate) /\ IsDate(endDate)
      /\ startDate.day \in 1 .. 31 /\ endDate.day \in 1 .. 31
  BY DEF CalendarInv, CalendarTypeOK, IsDate, Date
<1>2. Lands(endDate', MonthIndex(endDate) + Months(plan), endDate.day)
  BY <1>1, NextEndLands
<1>3. /\ MonthIndex(startDate) \in Nat /\ MonthIndex(endDate) \in Nat
      /\ Months(plan) \in {1, 12}
  BY <1>1, MonthIndexType DEF Months
<1>4. Due \in Nat /\ Due' = Due + Months(plan)
  BY <1>1, <1>3 DEF Due, MonthIndex, Months
<1>5. \/ MonthIndex(endDate) = Due /\ endDate.day = startDate.day
      \/ /\ MonthIndex(endDate) = Due + 1
         /\ endDate.day \in 1 .. 3
         /\ startDate.day >= 29
         /\ endDate.day <= startDate.day - 28
  BY DEF CalendarInv, RollsOverOnce
<1>6. \/ MonthIndex(endDate') = Due' /\ endDate'.day = startDate.day
      \/ /\ MonthIndex(endDate') = Due' + 1
         /\ endDate'.day \in 1 .. 3
         /\ startDate.day >= 29
         /\ endDate'.day <= startDate.day - 28
  BY <1>1, <1>2, <1>3, <1>4, <1>5 DEF Lands
<1>7. RollsOverOnce'
  BY <1>6 DEF RollsOverOnce, MonthIndex
<1>8. CalendarTypeOK'
  BY <1>1, <1>2 DEF CalendarTypeOK, Lands, IsDate, Date, DaysIn, IsLeap
<1> QED
  BY <1>1, <1>7, <1>8 DEF CalendarInv

LEMMA CalendarStep == CalendarInv /\ [CalendarNext]_calendarVars => CalendarInv'
<1> SUFFICES ASSUME CalendarInv, [CalendarNext]_calendarVars PROVE CalendarInv'
  OBVIOUS
<1>1. CASE CreateSubscription
  <2>1. endDate' = NextEnd(endDate, plan) /\ periods' = periods + 1
    BY <1>1 DEF CreateSubscription, CalendarInv
  <2> QED
    BY <1>1, <2>1, PeriodKeepsInv DEF CreateSubscription
<1>2. CASE RenewSubscription
  BY <1>2, PeriodKeepsInv DEF RenewSubscription
<1>3. CASE UNCHANGED calendarVars
  BY <1>3 DEF calendarVars, CalendarInv, CalendarTypeOK, RollsOverOnce, Due, MonthIndex, Months
<1> QED
  BY <1>1, <1>2, <1>3 DEF CalendarNext

LEMMA CalendarStart == CalendarInit => CalendarInv
BY CalendarAssumption
   DEF CalendarInit, CalendarInv, CalendarTypeOK, RollsOverOnce, Due, MonthIndex, Months, IsDate, Date

(* The inductive invariant of the calendar holds of every subscription.    *)
THEOREM CalendarInvariant == CalendarSpec => []CalendarInv
BY CalendarStart, CalendarStep, PTL DEF CalendarSpec

(* The ends that are computed are dates.                                   *)
THEOREM DatesAreDates == CalendarSpec => []CalendarTypeOK
BY CalendarInvariant, PTL DEF CalendarInv

(* However often a subscription is renewed, its end rolls over a short     *)
(* month once at most.                                                     *)
THEOREM EndRollsOverOnce == CalendarSpec => []RollsOverOnce
BY CalendarInvariant, PTL DEF CalendarInv

-----------------------------------------------------------------------------
(* Lengths in days.  Count is DayNumber for any day of a month, also one   *)
(* past its end.                                                           *)
Count(y, m, d) ==
    365 * y + DaysBefore[m] + d + LeapDays(IF m > 2 THEN y ELSE y - 1)

LEMMA LeapStep ==
    ASSUME NEW y \in Nat
    PROVE  LeapDays(y) = LeapDays(y - 1) + (IF IsLeap(y) THEN 1 ELSE 0)
BY DEF LeapDays, IsLeap

LEMMA LeapType == ASSUME NEW y \in Int PROVE LeapDays(y) \in Int
BY DEF LeapDays

LEMMA TableOfMonths ==
    /\ \A m \in 1 .. 12 : DaysBefore[m] \in Nat
    /\ DaysBefore[1] = 0 /\ DaysBefore[12] = 334
    /\ \A m \in 1 .. 11 :
          DaysBefore[m + 1] =
              DaysBefore[m] + (IF m = 2 THEN 28 ELSE IF m \in {4, 6, 9, 11} THEN 30 ELSE 31)
BY DEF DaysBefore

LEMMA CountType ==
    ASSUME NEW y \in Nat, NEW m \in 1 .. 12, NEW d \in Int
    PROVE  Count(y, m, d) \in Int
<1>1. DaysBefore[m] \in Nat
  BY TableOfMonths
<1>2. LeapDays(y) \in Int /\ LeapDays(y - 1) \in Int
  BY LeapType
<1> QED
  BY <1>1, <1>2 DEF Count

(* The same day of the next month is as many days later as the month has.  *)
LEMMA CountMonth ==
    ASSUME NEW y \in Nat, NEW m \in 1 .. 11, NEW d \in Int
    PROVE  Count(y, m + 1, d) = Count(y, m, d) + DaysIn(y, m)
<1>1. /\ DaysBefore[m] \in Nat
      /\ DaysBefore[m + 1] =
            DaysBefore[m] + (IF m = 2 THEN 28 ELSE IF m \in {4, 6, 9, 11} THEN 30 ELSE 31)
  BY TableOfMonths
<1>2. LeapDays(y) \in Int /\ LeapDays(y - 1) \in Int
  BY LeapType
<1>3. LeapDays(y) = LeapDays(y - 1) + (IF IsLeap(y) THEN 1 ELSE 0)
  BY LeapStep
<1>4. CASE m = 2
  BY <1>1, <1>2, <1>3, <1>4 DEF Count, DaysIn
<1>5. CASE m # 2
  <2>1. (m + 1 > 2) = (m > 2) \/ m = 2
    BY <1>5
  <2> QED
    BY <1>1, <1>2, <1>5, <2>1 DEF Count, DaysIn
<1> QED
  BY <1>4, <1>5

(* December has 31 days, and a year 365 or 366.                            *)
LEMMA CountYear ==
    ASSUME NEW y \in Nat, NEW m \in 1 .. 12, NEW d \in Int
    PROVE  /\ Count(y + 1, 1, d) = Count(y, 12, d) + 31
           /\ Count(y + 1, m, d) - Count(y, m, d) \in 365 .. 366
<1>1. DaysBefore[m] \in Nat /\ DaysBefore[1] = 0 /\ DaysBefore[12] = 334
  BY TableOfMonths
<1>2. /\ LeapDays(y) \in Int /\ LeapDays(y - 1) \in Int
      /\ LeapDays(y + 1) \in Int /\ (y + 1) - 1 = y
  BY LeapType
<1>3. /\ LeapDays(y) - LeapDays(y - 1) \in 0 .. 1
      /\ LeapDays(y + 1) - LeapDays(y) \in 0 .. 1
  <2>1. y + 1 \in Nat
    OBVIOUS
  <2> QED
    BY <1>2, <2>1, LeapStep
<1> QED
  BY <1>1, <1>2, <1>3 DEF Count

(* Rolling over a short month does not change which day is meant.          *)
LEMMA InYearCounts ==
    ASSUME NEW y \in Nat, NEW m \in 1 .. 12, NEW d \in 1 .. 31
    PROVE  DayNumber(InYear(y, m, d)) = Count(y, m, d)
<1>1. DaysIn(y, m) \in 28 .. 31 /\ (m \in {1, 12} => DaysIn(y, m) = 31)
  BY MonthLengths
<1>2. CASE d <= DaysIn(y, m)
  BY <1>2 DEF InYear, DayNumber, Count
<1>3. CASE ~(d <= DaysIn(y, m))
  <2>1. m \in 1 .. 11 /\ m \in 1 .. 12 /\ m + 1 \in 1 .. 12 /\ d - DaysIn(y, m) \in Int
    BY <1>1, <1>3
  <2>2. DayNumber(InYear(y, m, d)) = Count(y, m + 1, d - DaysIn(y, m))
    BY <1>3 DEF InYear, DayNumber, Count
  <2>3. Count(y, m + 1, d - DaysIn(y, m)) = Count(y, m, d - DaysIn(y, m)) + DaysIn(y, m)
    BY <2>1, CountMonth
  <2>4. Count(y, m, d - DaysIn(y, m)) = Count(y, m, d) - DaysIn(y, m)
    <3>1. DaysBefore[m] \in Nat /\ LeapDays(y) \in Int /\ LeapDays(y - 1) \in Int
      BY TableOfMonths, LeapType
    <3> QED
      BY <1>1, <3>1 DEF Count
  <2>5. Count(y, m, d) \in Int
    <3>1. d \in Int
      OBVIOUS
    <3> QED
      BY <3>1, CountType
  <2> QED
    BY <1>1, <2>2, <2>3, <2>4, <2>5
<1> QED
  BY <1>2, <1>3

LEMMA NextEndLength ==
    ASSUME NEW d, IsDate(d), NEW p \in Plan
    PROVE  LET days == DayNumber(NextEnd(d, p)) - DayNumber(d)
           IN  IF p = "ANNUAL" THEN days \in 365 .. 366 ELSE days = DaysIn(d.year, d.month)
<1>1. d.year \in Nat /\ d.month \in 1 .. 12 /\ d.day \in 1 .. 31 /\ d.day \in Int /\ d.year + 1 \in Nat
  BY DEF IsDate, Date
<1>2. DayNumber(d) = Count(d.year, d.month, d.day)
  BY DEF DayNumber, Count
<1>3. Count(d.year, d.month, d.day) \in Int
  BY <1>1, CountType
<1>4. CASE p = "ANNUAL"
  <2>1. DayNumber(NextEnd(d, p)) = Count(d.year + 1, d.month, d.day)
    BY <1>1, <1>4, InYearCounts DEF NextEnd
  <2>2. Count(d.year + 1, d.month, d.day) - Count(d.year, d.month, d.day) \in 365 .. 366
    BY <1>1, CountYear
  <2> QED
    BY <1>2, <1>4, <2>1, <2>2
<1>5. CASE p # "ANNUAL" /\ d.month = 12
  <2>1. DayNumber(NextEnd(d, p)) = Count(d.year + 1, 1, d.day)
    <3>1. 1 \in 1 .. 12
      OBVIOUS
    <3> QED
      BY <1>1, <1>5, <3>1, InYearCounts DEF NextEnd
  <2>2. Count(d.year + 1, 1, d.day) = Count(d.year, 12, d.day) + 31
    BY <1>1, CountYear
  <2>3. DaysIn(d.year, d.month) = 31
    BY <1>5 DEF DaysIn
  <2> QED
    BY <1>2, <1>3, <1>5, <2>1, <2>2, <2>3
<1>6. CASE p # "ANNUAL" /\ d.month # 12
  <2>1. d.month \in 1 .. 11 /\ d.month + 1 \in 1 .. 12
    BY <1>1, <1>6
  <2>2. DayNumber(NextEnd(d, p)) = Count(d.year, d.month + 1, d.day)
    BY <1>1, <1>6, <2>1, InYearCounts DEF NextEnd
  <2>3. Count(d.year, d.month + 1, d.day)
          = Count(d.year, d.month, d.day) + DaysIn(d.year, d.month)
    BY <1>1, <2>1, CountMonth
  <2>4. DaysIn(d.year, d.month) \in Int
    BY <1>1, MonthLengths
  <2> QED
    BY <1>2, <1>3, <1>6, <2>2, <2>3, <2>4
<1> QED
  BY <1>4, <1>5, <1>6

(* Each payment buys the days of a month, or of a year.                    *)
THEOREM PeriodsHaveTheirLength == CalendarSpec => PeriodLength
<1>1. CalendarInv /\ [CalendarNext]_calendarVars
        => [LET days == DayNumber(endDate') - DayNumber(endDate)
            IN  IF plan = "ANNUAL" THEN days \in 365 .. 366
                ELSE days = DaysIn(endDate.year, endDate.month)]_endDate
  <2> SUFFICES ASSUME CalendarInv, [CalendarNext]_calendarVars, endDate' # endDate
               PROVE  LET days == DayNumber(endDate') - DayNumber(endDate)
                      IN  IF plan = "ANNUAL" THEN days \in 365 .. 366
                          ELSE days = DaysIn(endDate.year, endDate.month)
    OBVIOUS
  <2>1. endDate' = NextEnd(endDate, plan)
    BY DEF CalendarInv, CalendarNext, CreateSubscription, RenewSubscription, calendarVars
  <2>2. IsDate(endDate) /\ plan \in Plan
    BY DEF CalendarInv, CalendarTypeOK
  <2> QED
    BY <2>1, <2>2, NextEndLength
<1> QED
  BY <1>1, CalendarInvariant, PTL DEF CalendarSpec, PeriodLength

(* The month of an index.                                                  *)
LEMMA IndexOfMonth ==
    ASSUME NEW y \in Nat, NEW m \in 1 .. 12
    PROVE  /\ (12 * y + m - 1) \div 12 = y
           /\ ((12 * y + m - 1) % 12) + 1 = m
OBVIOUS

(* The anniversary, once its month is known.                               *)
LEMMA AnniversaryIn ==
    ASSUME NEW y \in Nat, NEW m \in 1 .. 12,
           Due = 12 * y + m
    PROVE  Anniversary = [year |-> y, month |-> m,
                          day |-> IF startDate.day <= DaysIn(y, m) THEN startDate.day
                                  ELSE DaysIn(y, m)]
<1>1. (Due - 1) \div 12 = y /\ ((Due - 1) % 12) + 1 = m
  BY IndexOfMonth
<1> QED
  BY <1>1 DEF Anniversary

LEMMA CalendarInvNeverShort == CalendarInv => NeverShort
<1> SUFFICES ASSUME CalendarInv PROVE NeverShort
  OBVIOUS
<1> DEFINE e == endDate
           s == startDate.day
<1>1. /\ e.year \in Nat /\ e.month \in 1 .. 12 /\ e.day \in 1 .. 31 /\ s \in 1 .. 31
      /\ e.day <= DaysIn(e.year, e.month) /\ e.day \in Int /\ s \in Int
  BY DEF CalendarInv, CalendarTypeOK, IsDate, Date
<1>2. Due \in Nat \ {0}
  <2>1. /\ startDate.year \in Nat /\ startDate.month \in 1 .. 12
        /\ periods \in Nat /\ Months(plan) \in {1, 12}
    BY DEF CalendarInv, CalendarTypeOK, IsDate, Date, Months
  <2> QED
    BY <2>1 DEF Due, MonthIndex
<1>3. DayNumber(e) = Count(e.year, e.month, e.day)
  BY DEF DayNumber, Count
<1>4. CASE MonthIndex(e) = Due /\ e.day = s
  <2>1. Anniversary = [year |-> e.year, month |-> e.month, day |-> s]
    BY <1>1, <1>4, AnniversaryIn DEF MonthIndex
  <2>2. DayNumber(Anniversary) = DayNumber(e)
    BY <1>3, <1>4, <2>1 DEF DayNumber, Count
  <2>3. DayNumber(e) \in Int
    BY <1>1, <1>3, CountType
  <2> QED
    BY <2>2, <2>3 DEF NeverShort
<1>5. CASE MonthIndex(e) = Due + 1 /\ e.day \in 1 .. 3 /\ s >= 29 /\ e.day <= s - 28
  <2>1. PICK y \in Nat, m \in 1 .. 12 :
           /\ Due = 12 * y + m
           /\ Count(e.year, e.month, e.day) = Count(y, m, e.day) + DaysIn(y, m)
    <3>1. CASE e.month # 1
      <4>1. e.month - 1 \in 1 .. 11 /\ e.month - 1 \in 1 .. 12 /\ (e.month - 1) + 1 = e.month
        BY <1>1, <3>1
      <4>2. Due = 12 * e.year + (e.month - 1)
        BY <1>1, <1>2, <1>5 DEF MonthIndex
      <4>3. Count(e.year, (e.month - 1) + 1, e.day)
              = Count(e.year, e.month - 1, e.day) + DaysIn(e.year, e.month - 1)
        BY <1>1, <4>1, CountMonth
      <4> QED
        BY <1>1, <4>1, <4>2, <4>3
    <3>2. CASE e.month = 1
      <4>1. Due = 12 * e.year
        BY <1>1, <1>2, <1>5, <3>2 DEF MonthIndex
      <4>2. e.year - 1 \in Nat /\ (e.year - 1) + 1 = e.year /\ 12 \in 1 .. 12
        BY <1>1, <1>2, <4>1
      <4>3. Due = 12 * (e.year - 1) + 12
        BY <1>1, <4>1
      <4>4. Count((e.year - 1) + 1, 1, e.day) = Count(e.year - 1, 12, e.day) + 31
        BY <1>1, <4>2, CountYear
      <4>5. DaysIn(e.year - 1, 12) = 31
        BY DEF DaysIn
      <4> QED
        BY <3>2, <4>2, <4>3, <4>4, <4>5
    <3> QED
      BY <3>1, <3>2
  <2>2. DaysIn(y, m) \in 28 .. 31
    BY MonthLengths
  <2> DEFINE d == IF s <= DaysIn(y, m) THEN s ELSE DaysIn(y, m)
  <2>3. Anniversary = [year |-> y, month |-> m, day |-> d]
    BY <2>1, AnniversaryIn
  <2>4. DayNumber(Anniversary) = Count(y, m, d)
    BY <2>3 DEF DayNumber, Count
  <2>5. Count(y, m, d) - Count(y, m, e.day) = d - e.day /\ Count(y, m, d) \in Int
    <3>1. d \in Int
      BY <1>1, <2>2
    <3>2. DaysBefore[m] \in Nat /\ LeapDays(y) \in Int /\ LeapDays(y - 1) \in Int
      BY TableOfMonths, LeapType
    <3> HIDE DEF d
    <3> QED
      BY <1>1, <3>1, <3>2 DEF Count
  <2>6. Count(y, m, e.day) \in Int
    BY <1>1, CountType
  <2>7. DaysIn(y, m) + e.day - d \in 0 .. 3
    BY <1>1, <1>5, <2>2
  <2>8. d \in Int
    BY <1>1, <2>2
  <2> HIDE DEF d
  <2>9. DayNumber(e) - DayNumber(Anniversary) = DaysIn(y, m) + e.day - d
    BY <1>1, <1>3, <2>1, <2>2, <2>4, <2>5, <2>6, <2>8
  <2> QED
    BY <2>7, <2>9 DEF NeverShort
<1> QED
  BY <1>4, <1>5 DEF CalendarInv, RollsOverOnce

(* The end is never before the anniversary, and three days after at most.  *)
THEOREM NoPeriodIsShort == CalendarSpec => []NeverShort
BY CalendarInvariant, CalendarInvNeverShort, PTL
=============================================================================
