\* A paid subscription is canceled, and the notice of the payment comes again.
SPECIFICATION Spec
CONSTANTS
  basic = basic
  pro = pro
  Plans = {basic, pro}
  Price <- MCPrice
  Currency <- MCCurrency
  Interval <- MCInterval
  Grace = 1
  Subs = {s1}
  Workers = {w1}
  Requests = {}
  Trials = {0}
  Delay = 1
  Limit = 2
  MaxTime = 1
  LastCrash = 1
  Scope = {"subscribe", "cancel", "notify"}
SYMMETRY Symmetry
INVARIANTS
  SecondNoticeIsAccepted
