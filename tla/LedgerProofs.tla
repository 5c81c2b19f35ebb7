---------------------------- MODULE LedgerProofs ----------------------------
(***************************************************************************)
(* Proofs about Ledger: dates of the calendar, months invoiced, and money  *)
(* invoiced against use, for every catalogue, start and lateness.          *)
(***************************************************************************)
EXTENDS Ledger, TLAPS

----------------------------------------------------------------------------
(* The calendar *)

\* A month index names one year and one month.
LEMMA MonthIndexFacts ==
  ASSUME NEW total \in Nat
  PROVE  /\ total \div 12 \in Nat /\ (total % 12) + 1 \in 1 .. 12
         /\ (total \div 12) * 12 + (((total % 12) + 1) - 1) = total
OBVIOUS

LEMMA MonthLengthFacts ==
  ASSUME NEW year \in Nat, NEW month \in 1 .. 12
  PROVE  MonthLength(year, month) \in 28 .. 31
BY DEF MonthLength

\* A year has 365 days, or 366.
LEMMA YearFacts ==
  ASSUME NEW year \in Nat
  PROVE  /\ DaysBeforeYear(year) \in Nat
         /\ DaysBeforeYear(year + 1) = DaysBeforeYear(year) + (IF Leap(year) THEN 366 ELSE 365)
BY DEF DaysBeforeYear, Leap

LEMMA DaysBeforeMonthIsNat ==
  ASSUME NEW year \in Nat, NEW month \in 1 .. 12
  PROVE  DaysBeforeMonth(year, month) \in Nat
BY DEF DaysBeforeMonth

LEMMA MonthFacts ==
  ASSUME NEW year \in Nat, NEW month \in 1 .. 12
  PROVE  /\ month < 12 => DaysBeforeMonth(year, month + 1)
                            = DaysBeforeMonth(year, month) + MonthLength(year, month)
         /\ month = 12 => DaysBeforeMonth(year, month) + 31 = IF Leap(year) THEN 366 ELSE 365
         /\ month = 1 => DaysBeforeMonth(year, month) = 0
BY DEF DaysBeforeMonth, MonthLength

\* add_months keeps a date a date, counts the months it was asked for, and
\* takes no day later than the one it started from, nor one before the 28th
\* instead of a later one.
LEMMA AddMonthsFacts ==
  ASSUME NEW d, Valid(d), NEW months \in Nat
  PROVE  /\ Valid(AddMonths(d, months))
         /\ MonthIndex(AddMonths(d, months)) = MonthIndex(d) + months
         /\ AddMonths(d, months).day <= d.day
         /\ AddMonths(d, months).day >= Smaller(d.day, 28)
         /\ LET e == AddMonths(d, months) IN
            e.day = Smaller(d.day, MonthLength(e.year, e.month))
<1> DEFINE total == MonthIndex(d) + months
           year  == total \div 12
           month == (total % 12) + 1
<1>1. d \in Date /\ d.day \in 1 .. 31
  BY DEF Valid, Date
<1>2. total \in Nat
  BY <1>1 DEF MonthIndex, Date
<1>3. /\ year \in Nat /\ month \in 1 .. 12
      /\ year * 12 + (month - 1) = total
  BY <1>2, MonthIndexFacts
<1>4. MonthLength(year, month) \in 28 .. 31
  BY <1>3, MonthLengthFacts
<1>5. AddMonths(d, months)
        = [year |-> year, month |-> month, day |-> Smaller(d.day, MonthLength(year, month))]
  BY DEF AddMonths
<1> HIDE DEF total, year, month
<1>6. /\ Smaller(d.day, MonthLength(year, month)) \in 1 .. 31
      /\ Smaller(d.day, MonthLength(year, month)) <= MonthLength(year, month)
      /\ Smaller(d.day, MonthLength(year, month)) <= d.day
      /\ Smaller(d.day, MonthLength(year, month)) >= Smaller(d.day, 28)
  BY <1>1, <1>4 DEF Smaller
<1>7. /\ AddMonths(d, months).year = year /\ AddMonths(d, months).month = month
      /\ AddMonths(d, months).day = Smaller(d.day, MonthLength(year, month))
      /\ AddMonths(d, months) \in Date
  BY <1>3, <1>5, <1>6 DEF Date
<1> QED
  BY <1>3, <1>6, <1>7 DEF Valid, MonthIndex, total

LEMMA DayNumberIsNat ==
  ASSUME NEW d, Valid(d)
  PROVE  DayNumber(d) \in Nat
<1>1. d.year \in Nat /\ d.month \in 1 .. 12 /\ d.day \in 1 .. 31
  BY DEF Valid, Date
<1>2. DaysBeforeYear(d.year) \in Nat
  BY <1>1, YearFacts
<1>3. DaysBeforeMonth(d.year, d.month) \in Nat
  BY <1>1, DaysBeforeMonthIsNat
<1> QED
  BY <1>1, <1>2, <1>3 DEF DayNumber

LEMMA NextMonth ==
  ASSUME NEW y \in Nat, NEW m \in 1 .. 12, NEW y2 \in Nat, NEW m2 \in 1 .. 12,
         y2 * 12 + (m2 - 1) = (y * 12 + (m - 1)) + 1
  PROVE  IF m < 12 THEN y2 = y /\ m2 = m + 1 ELSE y2 = y + 1 /\ m2 = 1
OBVIOUS

\* A month has 28 days at least and a year 365, wherever it begins and even if
\* it ends on an earlier day of the month.
LEMMA NextAfterLength ==
  ASSUME NEW d, Valid(d), NEW interval \in {"monthly", "yearly"}
  PROVE  DayNumber(d) + Shortest(interval) <= DayNumber(NextAfter(interval, d))
<1> DEFINE e == NextAfter(interval, d)
<1>1. d.year \in Nat /\ d.month \in 1 .. 12 /\ d.day \in 1 .. 31
      /\ d.day <= MonthLength(d.year, d.month)
  BY DEF Valid, Date
<1>2. /\ Valid(e) /\ e.day = Smaller(d.day, MonthLength(e.year, e.month))
      /\ MonthIndex(e) = MonthIndex(d) + Months(interval)
  BY AddMonthsFacts DEF NextAfter, Months
<1> SUFFICES DayNumber(d) + Shortest(interval) <= DayNumber(e)
  OBVIOUS
<1> HIDE DEF e
<1>3. e.year \in Nat /\ e.month \in 1 .. 12 /\ e.day \in 1 .. 31
  BY <1>2 DEF Valid, Date
<1>4. /\ DaysBeforeYear(d.year) \in Nat /\ DaysBeforeYear(e.year) \in Nat
      /\ DaysBeforeMonth(d.year, d.month) \in Nat /\ DaysBeforeMonth(e.year, e.month) \in Nat
  BY <1>1, <1>3, YearFacts, DaysBeforeMonthIsNat
<1>5. CASE interval = "yearly"
  <2>1. e.year = d.year + 1 /\ e.month = d.month
    BY <1>1, <1>2, <1>3, <1>5 DEF MonthIndex, Months
  <2>2. DaysBeforeYear(e.year) = DaysBeforeYear(d.year) + (IF Leap(d.year) THEN 366 ELSE 365)
    BY <2>1, <1>1, YearFacts
  <2>3. CASE d.month > 2
    <3>1. /\ DaysBeforeMonth(e.year, e.month) + (IF Leap(d.year) THEN 1 ELSE 0)
               >= DaysBeforeMonth(d.year, d.month)
      BY <2>1, <2>3, <1>1 DEF DaysBeforeMonth
    <3>2. e.day = d.day
      BY <2>1, <2>3, <1>1, <1>2 DEF MonthLength, Smaller
    <3> QED
      BY <2>2, <3>1, <3>2, <1>1, <1>3, <1>4, <1>5 DEF DayNumber, Shortest
  <2>4. CASE d.month <= 2
    <3>1. DaysBeforeMonth(e.year, e.month) = DaysBeforeMonth(d.year, d.month)
      BY <2>1, <2>4, <1>1 DEF DaysBeforeMonth
    <3>2. e.day + (IF Leap(d.year) THEN 1 ELSE 0) >= d.day
      BY <2>1, <2>4, <1>1, <1>2 DEF MonthLength, Smaller
    <3> QED
      BY <2>2, <3>1, <3>2, <1>1, <1>3, <1>4, <1>5 DEF DayNumber, Shortest
  <2> QED
    BY <2>3, <2>4, <1>1
<1>6. CASE interval = "monthly"
  <2>1. e.year * 12 + (e.month - 1) = (d.year * 12 + (d.month - 1)) + 1
    BY <1>2, <1>6 DEF Months, MonthIndex
  <2>2. /\ MonthLength(d.year, d.month) \in 28 .. 31
        /\ MonthLength(e.year, e.month) \in 28 .. 31
    BY <1>1, <1>3, MonthLengthFacts
  <2>3. e.day + MonthLength(d.year, d.month) >= d.day + 28
    BY <2>2, <1>1, <1>2 DEF Smaller
  <2>4. DaysBeforeYear(e.year) + DaysBeforeMonth(e.year, e.month)
          = DaysBeforeYear(d.year) + DaysBeforeMonth(d.year, d.month)
              + MonthLength(d.year, d.month)
    <3>1. CASE d.month < 12
      <4>1. e.year = d.year /\ e.month = d.month + 1
        BY <2>1, <3>1, <1>1, <1>3, NextMonth
      <4>2. DaysBeforeMonth(d.year, d.month + 1)
              = DaysBeforeMonth(d.year, d.month) + MonthLength(d.year, d.month)
        BY <3>1, <1>1, MonthFacts
      <4>3. DaysBeforeMonth(e.year, e.month)
              = DaysBeforeMonth(d.year, d.month) + MonthLength(d.year, d.month)
        BY <4>1, <4>2
      <4> QED
        BY <4>1, <4>3, <1>4, <2>2
    <3>2. CASE d.month = 12
      <4>1. e.year = d.year + 1 /\ e.month = 1
        BY <2>1, <3>2, <1>1, <1>3, NextMonth
      <4>2. DaysBeforeYear(e.year) = DaysBeforeYear(d.year) + (IF Leap(d.year) THEN 366 ELSE 365)
        BY <4>1, <1>1, YearFacts
      <4>3. /\ DaysBeforeMonth(d.year, d.month) + 31 = IF Leap(d.year) THEN 366 ELSE 365
            /\ DaysBeforeMonth(e.year, e.month) = 0
        BY <4>1, <3>2, <1>1, <1>3, MonthFacts
      <4>4. MonthLength(d.year, d.month) = 31
        BY <3>2 DEF MonthLength
      <4> QED
        BY <4>2, <4>3, <4>4, <1>4
    <3> QED
      BY <3>1, <3>2, <1>1
  <2> QED
    BY <2>2, <2>3, <2>4, <1>1, <1>3, <1>4, <1>6 DEF DayNumber, Shortest
<1> QED
  BY <1>5, <1>6

\* A billing interval is never empty.
LEMMA NextAfterIsLater ==
  ASSUME NEW d, Valid(d), NEW interval \in {"monthly", "yearly"}
  PROVE  DayNumber(d) < DayNumber(NextAfter(interval, d))
<1>1. Valid(NextAfter(interval, d))
  BY AddMonthsFacts DEF NextAfter, Months
<1> QED
  BY <1>1, NextAfterLength, DayNumberIsNat DEF Shortest

\* What BillingPeriod.starting_at returns: a period of the calendar.
LEMMA StartingAtFacts ==
  ASSUME NEW d, Valid(d), NEW p \in Plans
  PROVE  LET q == StartingAt(d, p) IN
         /\ q.start = d /\ Valid(q.end)
         /\ DayNumber(d) \in Nat /\ DayNumber(q.end) \in Nat
         /\ DayNumber(d) < DayNumber(q.end)
         /\ MonthIndex(q.end) = MonthIndex(d) + Months(Interval[p])
         /\ q.end.day <= d.day /\ q.end.day >= Smaller(d.day, 28)
         /\ Months(Interval[p]) \in Nat
<1>1. Interval[p] \in {"monthly", "yearly"} /\ Months(Interval[p]) \in Nat
  BY LedgerAssumption DEF Months
<1>2. StartingAt(d, p).start = d /\ StartingAt(d, p).end = AddMonths(d, Months(Interval[p]))
  BY DEF StartingAt, NextAfter
<1>3. DayNumber(d) < DayNumber(StartingAt(d, p).end)
  BY <1>1, <1>2, NextAfterIsLater DEF NextAfter
<1> QED
  BY <1>1, <1>2, <1>3, AddMonthsFacts, DayNumberIsNat

----------------------------------------------------------------------------
(* Money *)

\* Money.scale rounds down by less than one unit.
LEMMA ScaleFacts ==
  ASSUME NEW amount \in Nat, NEW num \in Nat, NEW len \in Nat, len > 0
  PROVE  /\ Scale(amount, num, len) \in Int
         /\ Scale(amount, num, len) * len <= amount * num
         /\ amount * num <= Scale(amount, num, len) * len + (len - 1)
<1> DEFINE x == amount * num
<1>1. x \in Int
  OBVIOUS
<1> HIDE DEF x
<1>2. /\ x \div len \in Int
      /\ (x \div len) * len <= x /\ x <= (x \div len) * len + (len - 1)
  BY <1>1
<1> QED
  BY <1>2 DEF Scale, x

\* A plan change is off the exact difference by less than one unit.
LEMMA NetFacts ==
  ASSUME NEW start \in Nat, NEW end \in Nat, start < end, NEW at \in Nat,
         NEW old \in Nat, NEW new \in Nat
  PROVE  LET net  == Net(start, end, at, old, new)
             rest == Remaining(start, end, at)
             len  == end - start
             off  == net * len - (new * rest - old * rest) IN
         net \in Int /\ -(len - 1) <= off /\ off <= len - 1
<1> DEFINE rest == Remaining(start, end, at)
           len  == end - start
           c    == Scale(old, rest, len)
           g    == Scale(new, rest, len)
<1>1. rest \in Nat /\ len \in Nat /\ len > 0
  BY DEF Remaining
<1>2. Net(start, end, at, old, new) = g - c
  BY DEF Net, Charge, Credit
<1> HIDE DEF rest, len
<1>3. /\ c \in Int /\ c * len <= old * rest /\ old * rest <= c * len + (len - 1)
      /\ g \in Int /\ g * len <= new * rest /\ new * rest <= g * len + (len - 1)
  BY <1>1, ScaleFacts
<1> HIDE DEF c, g
<1>4. (g - c) * len = g * len - c * len
  BY <1>1, <1>3
<1>5. c * len \in Int /\ g * len \in Int /\ old * rest \in Int /\ new * rest \in Int
  BY <1>1, <1>3
<1>6. g - c \in Int
  BY <1>3
<1> QED
  BY <1>1, <1>2, <1>3, <1>4, <1>5, <1>6 DEF rest, len

\* The days of a period that are over and those that are left are all its days.
LEMMA ElapsedFacts ==
  ASSUME NEW q, NEW day \in Nat, DayNumber(q.start) \in Nat, DayNumber(q.end) \in Nat,
         DayNumber(q.start) < DayNumber(q.end), DayNumber(q.start) <= day
  PROVE  /\ Elapsed(q, day) \in Nat
         /\ Remaining(DayNumber(q.start), DayNumber(q.end), day) \in Nat
         /\ Elapsed(q, day) + Remaining(DayNumber(q.start), DayNumber(q.end), day)
              = DayNumber(q.end) - DayNumber(q.start)
         /\ \A later \in Nat : later >= day => Elapsed(q, later) >= Elapsed(q, day)
BY DEF Elapsed, Remaining, Smaller

LEMMA Distribute ==
  ASSUME NEW price \in Nat, NEW a \in Int, NEW b \in Int
  PROVE  /\ price * (a + b) = price * a + price * b
         /\ price * (a - b) = price * a - price * b
         /\ price * a \in Int /\ price * b \in Int
OBVIOUS

----------------------------------------------------------------------------
(* Type correctness *)

\* The ways the book is kept.
LEMMA RenewalsKept ==
  ASSUME NEW b \in Book, NEW k \in Nat
  PROVE  [b EXCEPT !.renewals = k] \in Book
  BY DEF Book

LEMMA BookKept ==
  ASSUME NEW b \in Book, NEW n \in Nat, NEW m \in Nat, NEW t \in Int, NEW u \in Nat
  PROVE  /\ [b EXCEPT !.changes = n, !.total = t] \in Book
         /\ [b EXCEPT !.used = u] \in Book
         /\ [b EXCEPT !.months = m, !.changes = n, !.total = t, !.used = u] \in Book
  BY DEF Book

LEMMA TypeInit == Init => TypeOK
<1> SUFFICES ASSUME NEW p \in Plans, NEW d \in Starts,
                    plan = p, period = StartingAt(d, p), now = DayNumber(d),
                    book = [first |-> d, months |-> Months(Interval[p]), renewals |-> 0,
                            changes |-> 0, total |-> Price[p], used |-> 0]
             PROVE  TypeOK
  BY DEF Init
<1>1. Valid(d) /\ d \in Date /\ Price[p] \in Nat
  BY LedgerAssumption DEF Valid
<1>2. /\ period.start = d /\ Valid(period.end) /\ Months(Interval[p]) \in Nat
      /\ DayNumber(d) \in Nat /\ DayNumber(d) < DayNumber(period.end)
  BY <1>1, StartingAtFacts
<1>3. book \in Book
  BY <1>1, <1>2 DEF Book
<1> QED
  BY <1>1, <1>2, <1>3 DEF TypeOK, Start, End

LEMMA TypeRenew == TypeOK /\ Renew => TypeOK'
<1> SUFFICES ASSUME TypeOK, Renew
             PROVE  TypeOK'
  OBVIOUS
<1> DEFINE q == StartingAt(NextStart, plan)
<1>1. /\ plan \in Plans /\ Valid(period.end) /\ now \in Nat /\ book \in Book
      /\ Price[plan] \in Nat /\ now >= DayNumber(period.end)
  BY LedgerAssumption DEF TypeOK, Renew, End
<1>2. /\ period' = q /\ plan' = plan /\ now' = now
      /\ book' = [Entered(book, q, plan) EXCEPT !.renewals = @ + 1]
  BY DEF Renew
<1>3. /\ q.start = period.end /\ Valid(q.end) /\ Months(Interval[plan]) \in Nat
      /\ DayNumber(q.start) \in Nat /\ DayNumber(q.end) \in Nat
      /\ DayNumber(q.start) < DayNumber(q.end) /\ DayNumber(q.start) <= now
  BY <1>1, StartingAtFacts DEF NextStart
<1> HIDE DEF q
<1>4. Price[plan] * Elapsed(q, now) \in Nat
  <2>1. Elapsed(q, now) \in Nat
    BY <1>1, <1>3, ElapsedFacts
  <2> QED
    BY <1>1, <2>1
<1>5. book' \in Book
  <2>1. book.months + Months(Interval[plan]) \in Nat /\ 0 \in Nat /\ Price[plan] \in Int
    BY <1>1, <1>3 DEF Book
  <2>2. Entered(book, q, plan) \in Book
    BY <1>1, <1>4, <2>1, BookKept DEF Entered
  <2> DEFINE b == Entered(book, q, plan)
             k == b.renewals + 1
  <2>3. b \in Book /\ k \in Nat
    BY <2>2 DEF Book
  <2>4. book' = [b EXCEPT !.renewals = k]
    BY <1>2
  <2> HIDE DEF b, k
  <2> QED
    BY <2>3, <2>4, RenewalsKept
<1>6. Valid(period'.start) /\ Valid(period'.end) /\ (Start < End)' /\ (Start <= now)'
  BY <1>1, <1>2, <1>3 DEF Start, End
<1> QED
  BY <1>1, <1>2, <1>5, <1>6 DEF TypeOK

LEMMA TypeChange == ASSUME NEW p \in Plans PROVE TypeOK /\ Change(p) => TypeOK'
<1> SUFFICES ASSUME TypeOK, Change(p)
             PROVE  TypeOK'
  OBVIOUS
<1>1. /\ plan \in Plans /\ book \in Book /\ now \in Nat
      /\ Start \in Nat /\ End \in Nat /\ Start < End
      /\ Price[plan] \in Nat /\ Price[p] \in Nat
  BY LedgerAssumption, DayNumberIsNat DEF TypeOK, Start, End
<1>2. Net(Start, End, now, Price[plan], Price[p]) \in Int
  BY <1>1, NetFacts
<1>3. /\ plan' = p /\ now' = now /\ period' = period
      /\ book' = [book EXCEPT !.changes = @ + 1,
                              !.total = @ + Net(Start, End, now, Price[plan], Price[p])]
  BY DEF Change
<1>4. book' \in Book
  <2> DEFINE t == book.total + Net(Start, End, now, Price[plan], Price[p])
  <2>1. book.changes + 1 \in Nat /\ t \in Int
    BY <1>1, <1>2 DEF Book
  <2>2. book' = [book EXCEPT !.changes = book.changes + 1, !.total = t]
    BY <1>3
  <2> HIDE DEF t
  <2> QED
    BY <1>1, <2>1, <2>2, BookKept
<1> QED
  BY <1>1, <1>3, <1>4 DEF TypeOK, Start, End

LEMMA TypePass == ASSUME NEW days \in Strides PROVE TypeOK /\ Pass(days) => TypeOK'
<1> SUFFICES ASSUME TypeOK, Pass(days)
             PROVE  TypeOK'
  OBVIOUS
<1> DEFINE over == Elapsed(period, now + days) - Elapsed(period, now)
<1>1. /\ plan \in Plans /\ book \in Book /\ now \in Nat /\ days \in Nat
      /\ DayNumber(period.start) \in Nat /\ DayNumber(period.end) \in Nat
      /\ DayNumber(period.start) < DayNumber(period.end) /\ DayNumber(period.start) <= now
      /\ Price[plan] \in Nat
  BY LedgerAssumption, DayNumberIsNat DEF TypeOK, Start, End
<1>2. over \in Nat
  BY <1>1, ElapsedFacts
<1>3. /\ plan' = plan /\ now' = now + days /\ period' = period
      /\ book' = [book EXCEPT !.used = @ + Price[plan] * over]
  BY DEF Pass
<1> HIDE DEF over
<1>4. Price[plan] * over \in Nat
  BY <1>1, <1>2
<1>5. book' \in Book
  BY <1>1, <1>3, <1>4 DEF Book
<1> QED
  BY <1>1, <1>3, <1>5 DEF TypeOK, Start, End

LEMMA TypeStep == TypeOK /\ [Next]_vars => TypeOK'
<1> SUFFICES ASSUME TypeOK, [Next]_vars
             PROVE  TypeOK'
  OBVIOUS
<1>1. CASE Renew
  BY <1>1, TypeRenew
<1>2. ASSUME NEW p \in Plans, Change(p)
      PROVE  TypeOK'
  BY <1>2, TypeChange
<1>3. ASSUME NEW days \in Strides, Pass(days)
      PROVE  TypeOK'
  BY <1>3, TypePass
<1>4. CASE UNCHANGED vars
  BY <1>4 DEF vars, TypeOK, Start, End
<1> QED
  BY <1>1, <1>2, <1>3, <1>4 DEF Next

\* Whatever the catalogue, the start and the lateness, a renewal never meets an
\* empty period (BillingPeriod.__post_init__) and a date is a day of its month.
THEOREM LedgerTypeCorrect == Spec => []TypeOK
  BY TypeInit, TypeStep, PTL DEF Spec

----------------------------------------------------------------------------
(* Months *)

\* However late the batch and whatever plans are taken, no month is skipped,
\* none is invoiced twice, and the day of the month never moves forward.
THEOREM MonthsAreBilledOnce == Spec => []BilledOncePerMonth
<1>1. Init => BilledOncePerMonth
  <2> SUFFICES ASSUME NEW p \in Plans, NEW d \in Starts,
                      period = StartingAt(d, p), book.first = d,
                      book.months = Months(Interval[p])
               PROVE  BilledOncePerMonth
    BY DEF Init
  <2>1. Valid(d)
    BY LedgerAssumption
  <2> QED
    BY <2>1, StartingAtFacts DEF BilledOncePerMonth
<1>2. TypeOK /\ BilledOncePerMonth /\ [Next]_vars => BilledOncePerMonth'
  <2> SUFFICES ASSUME TypeOK, BilledOncePerMonth, [Next]_vars
               PROVE  BilledOncePerMonth'
    OBVIOUS
  <2>1. CASE Renew
    <3> DEFINE q == StartingAt(NextStart, plan)
    <3>1. plan \in Plans /\ Valid(period.end) /\ book \in Book
      BY DEF TypeOK
    <3>2. /\ MonthIndex(q.end) = MonthIndex(period.end) + Months(Interval[plan])
          /\ q.end.day <= period.end.day /\ q.end.day >= Smaller(period.end.day, 28)
          /\ Valid(q.end) /\ Months(Interval[plan]) \in Nat
      BY <3>1, StartingAtFacts DEF NextStart
    <3>3. period' = q /\ book' = [Entered(book, q, plan) EXCEPT !.renewals = @ + 1]
      BY <2>1 DEF Renew
    <3> HIDE DEF q
    <3>4. book'.first = book.first /\ book'.months = book.months + Months(Interval[plan])
      BY <3>1, <3>3 DEF Book, Entered
    <3>5. /\ book.first.day \in Int /\ period.end.day \in Int /\ q.end.day \in Int
          /\ MonthIndex(book.first) \in Int /\ book.months \in Nat
      BY <3>1, <3>2 DEF Book, Valid, Date, MonthIndex
    <3> QED
      BY <3>2, <3>3, <3>4, <3>5 DEF BilledOncePerMonth, Smaller
  <2>2. ASSUME NEW p \in Plans, Change(p)
        PROVE  BilledOncePerMonth'
    <3>1. period' = period /\ book'.first = book.first /\ book'.months = book.months
      BY <2>2 DEF Change, TypeOK, Book
    <3> QED
      BY <3>1 DEF BilledOncePerMonth
  <2>3. ASSUME NEW days \in Strides, Pass(days)
        PROVE  BilledOncePerMonth'
    <3>1. period' = period /\ book'.first = book.first /\ book'.months = book.months
      BY <2>3 DEF Pass, TypeOK, Book
    <3> QED
      BY <3>1 DEF BilledOncePerMonth
  <2>4. CASE UNCHANGED vars
    BY <2>4 DEF vars, BilledOncePerMonth
  <2> QED
    BY <2>1, <2>2, <2>3, <2>4 DEF Next
<1> QED
  BY <1>1, <1>2, LedgerTypeCorrect, PTL DEF Spec

----------------------------------------------------------------------------
(* What is invoiced against what is used *)

LEMMA UseAfterRenewal ==
  TypeOK /\ Renew => InvoicesMatchUse'
<1> SUFFICES ASSUME TypeOK, Renew
             PROVE  InvoicesMatchUse'
  OBVIOUS
<1> DEFINE q == StartingAt(NextStart, plan)
<1>1. /\ plan \in Plans /\ Valid(period.end) /\ now \in Nat /\ book \in Book
      /\ Price[plan] \in Nat /\ now >= DayNumber(period.end)
  BY LedgerAssumption DEF TypeOK, Renew, End
<1>2. /\ period' = q /\ plan' = plan /\ now' = now
      /\ book' = [Entered(book, q, plan) EXCEPT !.renewals = @ + 1]
  BY DEF Renew
<1>3. /\ q.start = period.end
      /\ DayNumber(q.start) \in Nat /\ DayNumber(q.end) \in Nat
      /\ DayNumber(q.start) < DayNumber(q.end) /\ DayNumber(q.start) <= now
  BY <1>1, StartingAtFacts DEF NextStart
<1> HIDE DEF q
<1> DEFINE e == Elapsed(q, now)
           r == Remaining(DayNumber(q.start), DayNumber(q.end), now)
           l == DayNumber(q.end) - DayNumber(q.start)
<1>4. e \in Nat /\ r \in Nat /\ l \in Nat /\ e + r = l
  BY <1>1, <1>3, ElapsedFacts
<1>5. book'.changes = 0 /\ book'.total = Price[plan] /\ book'.used = Price[plan] * e
  <2> DEFINE u == Price[plan] * e
             m == book.months + Months(Interval[plan])
             b == [book EXCEPT !.months = m, !.changes = 0, !.total = Price[plan], !.used = u]
             k == b.renewals + 1
  <2>1. book' = [b EXCEPT !.renewals = k]
    BY <1>2 DEF Entered
  <2> HIDE DEF k, u, m
  <2>2. /\ b.changes = 0 /\ b.total = Price[plan] /\ b.used = u
        /\ DOMAIN b = DOMAIN book
    BY <1>1 DEF Book
  <2> QED
    BY <1>1, <2>1, <2>2 DEF u, Book
<1>6. Length' = l /\ Remaining(Start, End, now)' = r
  BY <1>2 DEF Start, End, Length
<1> HIDE DEF e, r, l
<1>7. Price[plan] * l = Price[plan] * e + Price[plan] * r /\ Price[plan] * l \in Int
  <2>1. Price[plan] * (e + r) = Price[plan] * e + Price[plan] * r
    BY <1>1, <1>4, Distribute
  <2>2. l = e + r
    BY <1>4
  <2>3. Price[plan] * l = Price[plan] * (e + r)
    BY <2>2, Zenon
  <2>4. Price[plan] * l \in Int
    BY <1>1, <1>4
  <2> QED
    BY <2>1, <2>3, <2>4, Zenon
<1>8. 0 * (l - 1) = 0
  BY <1>4
<1> QED
  BY <1>1, <1>2, <1>4, <1>5, <1>6, <1>7, <1>8 DEF InvoicesMatchUse

LEMMA UseAfterChange ==
  ASSUME NEW p \in Plans
  PROVE  TypeOK /\ InvoicesMatchUse /\ Change(p) => InvoicesMatchUse'
<1> SUFFICES ASSUME TypeOK, InvoicesMatchUse, Change(p)
             PROVE  InvoicesMatchUse'
  OBVIOUS
<1> DEFINE net == Net(Start, End, now, Price[plan], Price[p])
           r   == Remaining(Start, End, now)
           old == Price[plan]
           new == Price[p]
<1>1. /\ plan \in Plans /\ book \in Book /\ now \in Nat
      /\ Start \in Nat /\ End \in Nat /\ Start < End
      /\ old \in Nat /\ new \in Nat
  BY LedgerAssumption, DayNumberIsNat DEF TypeOK, Start, End
<1>2. /\ net \in Int
      /\ -(Length - 1) <= net * Length - (new * r - old * r)
      /\ net * Length - (new * r - old * r) <= Length - 1
  BY <1>1, NetFacts DEF Length
<1>3. /\ plan' = p /\ Length' = Length /\ Remaining(Start, End, now)' = r
      /\ book'.used = book.used /\ book'.changes = book.changes + 1
      /\ book'.total = book.total + net
  BY <1>1 DEF Change, Book, Start, End, Length
<1>4. r \in Nat /\ Length \in Nat
      /\ book.changes \in Nat /\ book.total \in Int /\ book.used \in Nat
  BY <1>1 DEF Remaining, Length, Book
<1>5. /\ -(book.changes * (Length - 1)) <= book.total * Length - (book.used + old * r)
      /\ book.total * Length - (book.used + old * r) <= book.changes * (Length - 1)
  BY DEF InvoicesMatchUse
<1> HIDE DEF net, r, old, new
<1>6. /\ (book.total + net) * Length = book.total * Length + net * Length
      /\ (book.changes + 1) * (Length - 1) = book.changes * (Length - 1) + (Length - 1)
  BY <1>2, <1>4
<1>7. /\ book.total * Length \in Int /\ net * Length \in Int
      /\ book.changes * (Length - 1) \in Int /\ old * r \in Int /\ new * r \in Int
  BY <1>1, <1>2, <1>4
<1>8. /\ -((book.changes + 1) * (Length - 1)) <= (book.total + net) * Length - (book.used + new * r)
      /\ (book.total + net) * Length - (book.used + new * r) <= (book.changes + 1) * (Length - 1)
  BY <1>2, <1>4, <1>5, <1>6, <1>7
<1>9. Price[plan'] = new
  BY <1>3 DEF new
<1> QED
  BY <1>3, <1>8, <1>9 DEF InvoicesMatchUse

LEMMA UseAfterPass ==
  ASSUME NEW days \in Strides
  PROVE  TypeOK /\ InvoicesMatchUse /\ Pass(days) => InvoicesMatchUse'
<1> SUFFICES ASSUME TypeOK, InvoicesMatchUse, Pass(days)
             PROVE  InvoicesMatchUse'
  OBVIOUS
<1> DEFINE e  == Elapsed(period, now)
           e2 == Elapsed(period, now + days)
           r  == Remaining(Start, End, now)
           r2 == Remaining(Start, End, now + days)
<1>1. /\ plan \in Plans /\ book \in Book /\ now \in Nat /\ now + days \in Nat
      /\ DayNumber(period.start) \in Nat /\ DayNumber(period.end) \in Nat
      /\ DayNumber(period.start) < DayNumber(period.end)
      /\ DayNumber(period.start) <= now /\ DayNumber(period.start) <= now + days
      /\ Price[plan] \in Nat
  BY LedgerAssumption, DayNumberIsNat DEF TypeOK, Start, End
<1>2. e \in Nat /\ e2 \in Nat /\ r \in Nat /\ r2 \in Nat /\ e + r = e2 + r2
  BY <1>1, ElapsedFacts DEF Start, End
<1>3. /\ plan' = plan /\ Length' = Length /\ Remaining(Start, End, now)' = r2
      /\ book'.used = book.used + Price[plan] * (e2 - e)
      /\ book'.changes = book.changes /\ book'.total = book.total
  BY <1>1 DEF Pass, Book, Start, End, Length
<1> HIDE DEF e, e2, r, r2
<1>4. /\ Price[plan] * (e2 - e) = Price[plan] * (r - r2)
      /\ Price[plan] * (r - r2) = Price[plan] * r - Price[plan] * r2
      /\ Price[plan] * r \in Int /\ Price[plan] * r2 \in Int
  <2>1. e2 - e = r - r2
    BY <1>2
  <2> QED
    BY <1>1, <1>2, <2>1, Distribute
<1>5. book.used \in Nat
  BY <1>1 DEF Book
<1>6. book'.used + Price[plan] * r2 = book.used + Price[plan] * r
  BY <1>3, <1>4, <1>5
<1> QED
  BY <1>3, <1>6 DEF InvoicesMatchUse, r, r2

\* Money is neither made nor lost by changing plans, in any order, on any day:
\* only the rounding of Money.scale separates invoices from use.
THEOREM InvoicesFollowUse == Spec => []InvoicesMatchUse
<1>1. Init => InvoicesMatchUse
  <2> SUFFICES ASSUME NEW p \in Plans, NEW d \in Starts,
                      plan = p, period = StartingAt(d, p), now = DayNumber(d),
                      book = [first |-> d, months |-> Months(Interval[p]), renewals |-> 0,
                              changes |-> 0, total |-> Price[p], used |-> 0]
               PROVE  InvoicesMatchUse
    BY DEF Init
  <2>1. /\ Start = now /\ Start \in Nat /\ End \in Nat /\ Price[plan] \in Nat
    BY LedgerAssumption, StartingAtFacts DEF Start, End
  <2>2. Remaining(Start, End, now) = Length
    BY <2>1 DEF Remaining, Length
  <2>3. Length \in Int /\ Price[plan] * Length \in Int /\ 0 * (Length - 1) = 0
    BY <2>1 DEF Length
  <2>4. book.used = 0 /\ book.changes = 0 /\ book.total = Price[plan]
    OBVIOUS
  <2> QED
    BY <2>2, <2>3, <2>4 DEF InvoicesMatchUse
<1>2. TypeOK /\ InvoicesMatchUse /\ [Next]_vars => InvoicesMatchUse'
  <2> SUFFICES ASSUME TypeOK, InvoicesMatchUse, [Next]_vars
               PROVE  InvoicesMatchUse'
    OBVIOUS
  <2>1. CASE Renew
    BY <2>1, UseAfterRenewal
  <2>2. ASSUME NEW p \in Plans, Change(p)
        PROVE  InvoicesMatchUse'
    BY <2>2, UseAfterChange
  <2>3. ASSUME NEW days \in Strides, Pass(days)
        PROVE  InvoicesMatchUse'
    BY <2>3, UseAfterPass
  <2>4. CASE UNCHANGED vars
    BY <2>4 DEF vars, InvoicesMatchUse, Start, End, Length
  <2> QED
    BY <2>1, <2>2, <2>3, <2>4 DEF Next
<1> QED
  BY <1>1, <1>2, LedgerTypeCorrect, PTL DEF Spec

----------------------------------------------------------------------------
(* What a change costs *)

\* What a change is invoiced, in a period no shorter than the least a plan may
\* have, is no more than the rest of the period costs in that least period.
LEMMA NetBound ==
  ASSUME NEW start \in Nat, NEW end \in Nat, start < end, NEW at \in Nat,
         NEW old \in Nat, NEW new \in Nat, NEW least \in Nat, least <= end - start
  PROVE  Net(start, end, at, old, new) * least <= new * Remaining(start, end, at)
<1> DEFINE rest == Remaining(start, end, at)
           len  == end - start
           c    == Scale(old, rest, len)
           g    == Scale(new, rest, len)
<1>1. rest \in Nat /\ len \in Nat /\ len > 0 /\ least <= len
  BY DEF Remaining
<1>2. Net(start, end, at, old, new) = g - c
  BY DEF Net, Charge, Credit
<1>3. c \in Nat /\ g \in Nat
  <2>1. old * rest \in Nat /\ new * rest \in Nat
    BY <1>1
  <2> HIDE DEF rest, len
  <2>2. \A n \in Nat : n \div len \in Nat
    BY <1>1
  <2> QED
    BY <2>1, <2>2 DEF Scale
<1> HIDE DEF rest, len
<1>4. g * len <= new * rest
  BY <1>1, ScaleFacts
<1> HIDE DEF c, g
<1>5. (g - c) * least <= g * least
  BY <1>3
<1>6. g * least <= g * len
  BY <1>1, <1>3
<1>7. (g - c) * least \in Int /\ g * least \in Int /\ g * len \in Int /\ new * rest \in Int
  BY <1>1, <1>3
<1>8. (g - c) * least <= new * rest
  BY <1>4, <1>5, <1>6, <1>7
<1> QED
  BY <1>2, <1>8 DEF rest

CostsTheRest ==
  plan' # plan =>
    (book'.total - book.total) * Shortest(Interval[plan'])
      <= Price[plan'] * Remaining(Start, End, now)

LEMMA ChangeBound ==
  ASSUME TypeOK, [Next]_vars, Shortest(Interval[plan']) <= Length
  PROVE  CostsTheRest
<1> SUFFICES ASSUME plan' # plan
             PROVE  (book'.total - book.total) * Shortest(Interval[plan'])
                      <= Price[plan'] * Remaining(Start, End, now)
  BY DEF CostsTheRest
<1>1. PICK p \in Plans : Change(p)
  BY DEF Next, Renew, Pass, vars
<1> DEFINE net == Net(Start, End, now, Price[plan], Price[p])
<1>2. /\ plan \in Plans /\ book \in Book /\ now \in Nat
      /\ Start \in Nat /\ End \in Nat /\ Start < End
      /\ Price[plan] \in Nat /\ Price[p] \in Nat
  BY LedgerAssumption, DayNumberIsNat DEF TypeOK, Start, End
<1>3. plan' = p /\ Shortest(Interval[p]) \in Nat
  BY <1>1 DEF Change, Shortest
<1>4. net * Shortest(Interval[p]) <= Price[p] * Remaining(Start, End, now)
  BY <1>2, <1>3, NetBound DEF Length
<1>5. net \in Int
  BY <1>2, NetFacts
<1> HIDE DEF net
<1>6. book'.total = book.total + net
  BY <1>1, <1>2 DEF Change, Book, net
<1>7. book'.total - book.total = net
  <2>1. book.total \in Int
    BY <1>2 DEF Book
  <2> QED
    BY <1>5, <1>6, <2>1
<1> QED
  BY <1>3, <1>4, <1>7

\* YearlyChange shows that a change may be invoiced more than the rest of the
\* period costs.  It is not if the period in force is one the new plan could
\* have: what goes wrong there is the length of the period, and nothing else.
THEOREM ChangeCostsTheRestOfALongPeriod ==
  Spec => [][Shortest(Interval[plan']) <= Length => CostsTheRest]_vars
<1>1. ASSUME TypeOK, [Next]_vars
      PROVE  Shortest(Interval[plan']) <= Length => CostsTheRest
  BY <1>1, ChangeBound
<1> QED
  BY <1>1, LedgerTypeCorrect, PTL DEF Spec

\* The period in force is one the plan could have.
PeriodOfPlan == Shortest(Interval[plan]) <= Length

LEMMA StartingAtLength ==
  ASSUME NEW d, Valid(d), NEW p \in Plans
  PROVE  Shortest(Interval[p])
           <= DayNumber(StartingAt(d, p).end) - DayNumber(StartingAt(d, p).start)
<1>1. Interval[p] \in {"monthly", "yearly"} /\ Shortest(Interval[p]) \in Nat
  BY LedgerAssumption DEF Shortest
<1>2. DayNumber(d) + Shortest(Interval[p]) <= DayNumber(NextAfter(Interval[p], d))
  BY <1>1, NextAfterLength
<1>3. StartingAt(d, p).start = d /\ StartingAt(d, p).end = NextAfter(Interval[p], d)
  BY DEF StartingAt
<1>4. DayNumber(d) \in Nat /\ DayNumber(NextAfter(Interval[p], d)) \in Nat
  BY <1>3, DayNumberIsNat, StartingAtFacts
<1> QED
  BY <1>1, <1>2, <1>3, <1>4

LEMMA PeriodOfPlanStays ==
  ASSUME \A p, q \in Plans : Interval[p] = Interval[q],
         TypeOK, PeriodOfPlan, [Next]_vars
  PROVE  PeriodOfPlan'
<1>1. CASE Renew
  <2>1. plan' = plan /\ plan \in Plans /\ Valid(NextStart) /\ period' = StartingAt(NextStart, plan)
    BY <1>1 DEF Renew, TypeOK, NextStart
  <2> QED
    BY <2>1, StartingAtLength DEF PeriodOfPlan, Length, Start, End
<1>2. ASSUME NEW p \in Plans, Change(p)
      PROVE  PeriodOfPlan'
  <2>1. plan \in Plans /\ plan' = p /\ period' = period
    BY <1>2 DEF Change, TypeOK
  <2>2. Interval[plan'] = Interval[plan]
    BY <2>1
  <2> QED
    BY <2>1, <2>2 DEF PeriodOfPlan, Length, Start, End
<1>3. ASSUME NEW days \in Strides, Pass(days)
      PROVE  PeriodOfPlan'
  BY <1>3 DEF Pass, PeriodOfPlan, Length, Start, End
<1>4. CASE UNCHANGED vars
  BY <1>4 DEF vars, PeriodOfPlan, Length, Start, End
<1> QED
  BY <1>1, <1>2, <1>3, <1>4 DEF Next

\* So with plans of one interval the claim of Proration.charge holds, on any
\* date, at any prices, after any changes and renewals.
THEOREM ChangeCostsTheRestOfOneInterval ==
  ASSUME \A p, q \in Plans : Interval[p] = Interval[q]
  PROVE  Spec => ChangeCostsTheRest
<1>1. Init => PeriodOfPlan
  <2> SUFFICES ASSUME NEW p \in Plans, NEW d \in Starts, plan = p, period = StartingAt(d, p)
               PROVE  PeriodOfPlan
    BY DEF Init
  <2> QED
    BY StartingAtLength, LedgerAssumption DEF PeriodOfPlan, Length, Start, End
<1>2. TypeOK /\ PeriodOfPlan /\ [Next]_vars => PeriodOfPlan'
  BY PeriodOfPlanStays
<1>3. ASSUME TypeOK, TypeOK', PeriodOfPlan, [Next]_vars
      PROVE  plan' # plan =>
               (book'.total - book.total) * Shortest(Interval[plan'])
                 <= Price[plan'] * Remaining(Start, End, now)
  <2>1. plan \in Plans /\ plan' \in Plans
    BY <1>3 DEF TypeOK
  <2>2. Shortest(Interval[plan']) <= Length
    BY <1>3, <2>1 DEF PeriodOfPlan
  <2> QED
    BY <1>3, <2>2, ChangeBound DEF CostsTheRest
<1> QED
  BY <1>1, <1>2, <1>3, LedgerTypeCorrect, PTL DEF Spec, ChangeCostsTheRest
=============================================================================
