\* Three plans, four first dates; a clock that moves by half a month or half a
\* year, a batch up to two weeks late.  It stops at the bounds.
SPECIFICATION Spec
CONSTANTS
  basic = basic
  pro = pro
  yearly = yearly
  Plans = {basic, pro, yearly}
  Price <- MCPrice
  Interval <- MCInterval
  Starts <- MCStarts
  Strides = {14, 174}
  Lateness = 14
  MaxChanges = 2
  MaxRenewals = 2
CHECK_DEADLOCK FALSE
INVARIANTS
  TypeOK
  InvoicesMatchUse
  BilledOncePerMonth
