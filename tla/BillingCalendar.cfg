\* Two years of months and twenty-four years, from any day.
SPECIFICATION CalendarSpec
CONSTANTS
    StartYears = {2023, 2024, 2099}
    StartDates <- AnyDay
    MaxPeriods = 24
INVARIANTS
    CalendarTypeOK
    RollsOverOnce
    NeverShort
PROPERTIES
    PeriodLength
\* A subscription has MaxPeriods periods at most.
CHECK_DEADLOCK FALSE
