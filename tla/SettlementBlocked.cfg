\* A subscription canceled for nonpayment leaves an open invoice: every settlement
\* that meets it stops there, and an invoice behind it is never reached.
SPECIFICATION FairSpec
CONSTANTS
  basic = basic
  pro = pro
  Plans = {basic, pro}
  Price <- MCPrice
  Currency <- MCCurrency
  Interval <- MCInterval
  Grace = 1
  Subs = {s1, s2}
  Workers = {w1}
  Requests = {}
  Trials = {0}
  Delay = 1
  Limit = 2
  MaxTime = 2
  LastCrash = 0
  Scope = {"subscribe", "settle", "renew", "decline", "crash"}
PROPERTIES
  CollectedGetsRecorded
