\* A decline answered to one worker is recorded after another has recorded the
\* payment the provider collected in the meantime.
SPECIFICATION Spec
CONSTANTS
  basic = basic
  pro = pro
  Plans = {basic, pro}
  Price <- MCPrice
  Currency <- MCCurrency
  Interval <- MCInterval
  Grace = 1
  Subs = {s1}
  Workers = {w1, w2}
  Requests = {}
  Trials = {0}
  Delay = 1
  Limit = 2
  MaxTime = 1
  LastCrash = 1
  Scope = {"subscribe", "notify", "settle", "decline", "recover"}
SYMMETRY Symmetry
INVARIANTS
  PastDueOwesSomething
