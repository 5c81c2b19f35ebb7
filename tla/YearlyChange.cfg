\* A change from a monthly plan to the yearly one.  It stops at the bounds.
SPECIFICATION Spec
CONSTANTS
  basic = basic
  pro = pro
  yearly = yearly
  Plans = {basic, pro, yearly}
  Price <- MCPrice
  Interval <- MCInterval
  Starts <- MCStarts
  Strides = {14, 174}
  Lateness = 14
  MaxChanges = 2
  MaxRenewals = 2
CHECK_DEADLOCK FALSE
PROPERTY
  ChangeCostsTheRest
