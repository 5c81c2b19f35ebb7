\* A success told twice, with a declined renewal in between.
SPECIFICATION Spec
CONSTANTS
  basic = basic
  pro = pro
  Plans = {basic, pro}
  Price <- MCPrice
  Currency <- MCCurrency
  Interval <- MCInterval
  Grace = 1
  Subs = {s1}
  Workers = {w1}
  Requests = {}
  Trials = {0}
  Delay = 1
  Limit = 2
  MaxTime = 2
  LastCrash = 2
  Scope = {"subscribe", "notify", "settle", "renew", "decline"}
SYMMETRY Symmetry
PROPERTIES
  RepeatedNoticeChangesNothing
