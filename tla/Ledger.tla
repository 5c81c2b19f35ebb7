------------------------------- MODULE Ledger -------------------------------
(***************************************************************************)
(* The books of one subscription in force, day by day on real dates: what  *)
(* it is invoiced for its periods and its plan changes against what it     *)
(* uses.  Who runs what and what may fail is Billing's; here an operation  *)
(* is one step, the renewal batch may be late, and money and dates are     *)
(* exact.                                                                  *)
(***************************************************************************)
EXTENDS Calendar, Proration

CONSTANTS
  Plans, Price, Interval,   \* the catalogue
  Starts,       \* dates a first period may begin
  Strides,      \* bound: by how many days the clock may advance at a time
  Lateness,     \* bound: how late, in days, the renewal batch may be
  MaxChanges,   \* bound: plan changes in one period
  MaxRenewals   \* bound: renewals

ASSUME LedgerAssumption ==
  /\ Price \in [Plans -> Nat]
  /\ Interval \in [Plans -> {"monthly", "yearly"}]
  /\ \A d \in Starts : Valid(d)
  /\ Strides \subseteq Nat \ {0} /\ Lateness \in Nat
  /\ MaxChanges \in Nat /\ MaxRenewals \in Nat

VARIABLES
  now,        \* today, a day number
  plan,       \* plan_id
  period,     \* current_period
  book        \* what an auditor keeps, see Book

vars == <<now, plan, period, book>>

(***************************************************************************)
(* No code reads the book: the first start, the months invoiced since and  *)
(* the renewals; and for this period the plan changes, the sum of the      *)
(* invoices (negative ones too) and the use made of it so far, in price    *)
(* times days.                                                             *)
(***************************************************************************)
Book == [first : Date, months : Nat, renewals : Nat,
         changes : Nat, total : Int, used : Nat]

Start  == DayNumber(period.start)
End    == DayNumber(period.end)
Length == End - Start

\* BillingPeriod.starting_at
StartingAt(start, p) == [start |-> start, end |-> NextAfter(Interval[p], start)]

\* The days of the period q that are over on the given day.
Elapsed(q, day) == Smaller(day, DayNumber(q.end)) - DayNumber(q.start)

\* A period is entered with one invoice, of the plan's price.
Entered(b, q, p) ==
  [b EXCEPT !.months = @ + Months(Interval[p]),
            !.changes = 0, !.total = Price[p], !.used = Price[p] * Elapsed(q, now)]

\* Subscription.subscribe; with a trial, the renewal that ends it.
Init ==
  \E p \in Plans, d \in Starts :
    /\ plan = p
    /\ period = StartingAt(d, p)
    /\ now = DayNumber(d)
    /\ book = [first |-> d, months |-> Months(Interval[p]), renewals |-> 0,
               changes |-> 0, total |-> Price[p], used |-> 0]

\* Mutant of NextStart: the new period begins on the day the batch runs.
NextStartToday ==
  CHOOSE d \in [year : 0 .. 1 + (now \div 365), month : 1 .. 12, day : 1 .. 31] :
    Valid(d) /\ DayNumber(d) = now

\* Subscription.renew: from the end of the last period on, however late it is.
NextStart == period.end

Renew ==
  LET next == StartingAt(NextStart, plan) IN
  /\ now >= End
  /\ book.renewals < MaxRenewals
  /\ period' = next
  /\ book' = [Entered(book, next, plan) EXCEPT !.renewals = @ + 1]
  /\ UNCHANGED <<now, plan>>

\* Subscription.change_plan and the invoice of what prorate returns
Change(p) ==
  /\ p # plan
  /\ book.changes < MaxChanges
  /\ plan' = p
  /\ book' = [book EXCEPT !.changes = @ + 1,
                          !.total = @ + Net(Start, End, now, Price[plan], Price[p])]
  /\ UNCHANGED <<now, period>>

Pass(days) ==
  /\ now + days <= End + Lateness
  /\ now' = now + days
  /\ book' = [book EXCEPT !.used = @ + Price[plan] * (Elapsed(period, now + days)
                                                        - Elapsed(period, now))]
  /\ UNCHANGED <<plan, period>>

Next ==
  \/ Renew
  \/ \E p \in Plans : Change(p)
  \/ \E days \in Strides : Pass(days)

Spec == Init /\ [][Next]_vars

----------------------------------------------------------------------------
(* Properties *)

\* Dates are dates of the calendar and a period is never empty, which
\* BillingPeriod.__post_init__ would refuse half-way through a renewal.
TypeOK ==
  /\ now \in Nat /\ plan \in Plans /\ book \in Book
  /\ Valid(period.start) /\ Valid(period.end) /\ Start < End
  /\ Start <= now

(***************************************************************************)
(* However often a plan is changed, and whenever the batch runs, the       *)
(* invoices of a period and the use made of it differ by less than one     *)
(* unit of money for each change, the rounding of Money.scale: the time    *)
(* used, at the plan in force then, and the time left, at the present one. *)
(***************************************************************************)
InvoicesMatchUse ==
  LET owed == book.used + Price[plan] * Remaining(Start, End, now)
      off  == book.total * Length - owed
      most == book.changes * (Length - 1) IN
  -most <= off /\ off <= most

(***************************************************************************)
(* Months are neither skipped nor invoiced twice: the period in force ends *)
(* as many months after the first start as were invoiced, on the day of    *)
(* the month the subscription began, or earlier but not before the 28th.   *)
(***************************************************************************)
BilledOncePerMonth ==
  /\ MonthIndex(period.end) = MonthIndex(book.first) + book.months
  /\ period.end.day <= book.first.day
  /\ period.end.day >= Smaller(book.first.day, 28)

\* The shortest a period of an interval can be, in days
Shortest(interval) == IF interval = "monthly" THEN 28 ELSE 365

(***************************************************************************)
(* Claim of Proration.charge (proration.py:29-30), "what the new plan      *)
(* costs for the rest of the period": a change is not invoiced more than   *)
(* the rest of the period costs in the shortest period of the new plan.    *)
(***************************************************************************)
ChangeCostsTheRest ==
  [][plan' # plan =>
       (book'.total - book.total) * Shortest(Interval[plan'])
         <= Price[plan'] * Remaining(Start, End, now)]_vars
=============================================================================
