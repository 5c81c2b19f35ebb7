\* Payments of one subscription: renewals, settlements, notices, declines, lost
\* answers and crashes, by two workers, over three ticks (one whole period and a half).
SPECIFICATION Spec
CONSTANTS
  basic = basic
  pro = pro
  Plans = {basic, pro}
  Price <- MCPrice
  Currency <- MCCurrency
  Interval <- MCInterval
  Grace = 1
  Subs = {s1}
  Workers = {w1, w2}
  Requests = {}
  Trials = {0}
  Delay = 1
  Limit = 2
  MaxTime = 3
  LastCrash = 3
  Scope = {"subscribe", "notify", "renew", "settle", "decline", "recover", "unreachable", "crash"}
SYMMETRY Symmetry
INVARIANTS
  TypeOK
  MoneyMatchesInvoices
  CurrentPeriodInvoiced
  NoPeriodInvoicedTwice
  PastDueOwesDeclined
PROPERTIES
  NobodyExpiresEarly
  GraceRunsFromFirstFailure
  InvoiceOnlyEverPaid
