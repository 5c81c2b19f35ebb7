\* Every operation and event at once, against the abstract contract.
SPECIFICATION Spec
CONSTANTS
  basic = basic
  pro = pro
  Plans = {basic, pro}
  Price <- MCPrice
  Currency <- MCCurrency
  Interval <- MCInterval
  Grace = 1
  Subs = {s1}
  Workers = {w1, w2}
  Requests = {r1}
  Trials = {0, 1}
  Delay = 1
  Limit = 2
  MaxTime = 1
  LastCrash = 1
  Scope = {"subscribe", "change", "cancel", "notify", "renew", "settle", "decline", "recover", "unreachable", "crash"}
SYMMETRY Symmetry
INVARIANTS
  IInv
  TrialOwesNothing
  AnswersCanBeRecorded
PROPERTIES
  CanceledIsTerminal
  ChangesAreLegalWhenSaved
  ImplementsContract
