\* Settlement under fairness: the provider collects what it is asked to, but calls
\* are lost and workers crash up to the last tick but one.
SPECIFICATION FairSpec
CONSTANTS
  basic = basic
  pro = pro
  Plans = {basic, pro}
  Price <- MCPrice
  Currency <- MCCurrency
  Interval <- MCInterval
  Grace = 1
  Subs = {s1}
  Workers = {w1, w2}
  Requests = {}
  Trials = {0}
  Delay = 1
  Limit = 2
  MaxTime = 2
  LastCrash = 1
  Scope = {"subscribe", "settle", "renew", "notify", "unreachable", "crash"}
PROPERTIES
  OpenInvoicesGetPaid
