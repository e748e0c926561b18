-------------------------- MODULE MCBillingCalendar --------------------------
(* BillingCalendar for TLC: subscriptions that begin on any day of a common *)
(* year, of a leap year, and of the year before a century without a leap day. *)
EXTENDS BillingCalendar

CONSTANT StartYears

AnyDay == {d \in [year : StartYears, month : 1 .. 12, day : 1 .. 31] : IsDate(d)}
=============================================================================
