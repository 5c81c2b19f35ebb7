------------------------------ MODULE Calendar ------------------------------
(***************************************************************************)
(* Dates and billing intervals (domain/time.py, domain/plan.py).  The time *)
(* of day is left alone by all of it, so an instant is a date.             *)
(***************************************************************************)
EXTENDS Integers

Date == [year : Nat, month : 1 .. 12, day : 1 .. 31]

Leap(year) == (year % 4 = 0 /\ year % 100 # 0) \/ year % 400 = 0

\* calendar.monthrange
MonthLength(year, month) ==
  IF month = 2 THEN IF Leap(year) THEN 29 ELSE 28
  ELSE IF month \in {4, 6, 9, 11} THEN 30 ELSE 31

Valid(d) == d \in Date /\ d.day <= MonthLength(d.year, d.month)

Smaller(a, b) == IF a <= b THEN a ELSE b

\* Months counted from the year 0, January being 0.
MonthIndex(d) == d.year * 12 + (d.month - 1)

\* Mutant of AddMonths: days past the end of the month run over into the next
\* (time.AddDate of the Go standard library).
AddMonthsRunningOver(d, months) ==
  LET total == MonthIndex(d) + months
      year  == total \div 12
      month == (total % 12) + 1
      over  == d.day - MonthLength(year, month)
      next  == total + 1 IN
  IF over <= 0 THEN [year |-> year, month |-> month, day |-> d.day]
  ELSE [year |-> next \div 12, month |-> (next % 12) + 1, day |-> over]

\* Mutant of AddMonths: days the month does not have are kept.
AddMonthsUnrounded(d, months) ==
  LET total == MonthIndex(d) + months IN
  [year |-> total \div 12, month |-> (total % 12) + 1, day |-> d.day]

\* add_months: the same day of a later month, or that month's last one.
AddMonths(d, months) ==
  LET total == MonthIndex(d) + months
      year  == total \div 12
      month == (total % 12) + 1 IN
  [year |-> year, month |-> month, day |-> Smaller(d.day, MonthLength(year, month))]

\* BillingInterval.next_after
Months(interval) == IF interval = "monthly" THEN 1 ELSE 12

NextAfter(interval, start) == AddMonths(start, Months(interval))

----------------------------------------------------------------------------
(* Days, counted from the first of January of the year 0 *)

DaysBeforeYear(year) ==
  365 * year + (IF year = 0 THEN 0 ELSE (year - 1) \div 4 - (year - 1) \div 100
                                        + (year - 1) \div 400 + 1)

DaysBeforeMonth(year, month) ==
  LET common == <<0, 31, 59, 90, 120, 151, 181, 212, 243, 273, 304, 334>> IN
  common[month] + (IF month > 2 /\ Leap(year) THEN 1 ELSE 0)

DayNumber(d) == DaysBeforeYear(d.year) + DaysBeforeMonth(d.year, d.month) + d.day - 1
=============================================================================
