# Billing: verification project

Formal models of the subscription billing service in this repository, checked
with TLC on small instances and, for the central invariants, proved with TLAPS
for instances of every size. The models are translated from the Python program
under `src/python/src/billing`. Its twin under `src/go` has the same use cases and
is not modelled separately.

## The system

The program is layered: a domain of pure aggregates, use cases that load
aggregates, call their methods and save them, and stores, a payment provider and
an HTTP interface around it.

| Component | State it keeps | Operations | What is hard |
|---|---|---|---|
| Subscription (`domain/subscription.py`) | status, plan, current period, cancel-at-end flag, start of the grace period | subscribe, change_plan, cancel, mark_payment_failed / _succeeded, renew, expire_if_grace_over | order of operations; boundaries of the period |
| Invoice (`domain/invoice.py`) | lines, status, issue time, idempotency key | issue, mark_paid, settle_without_payment, mark_uncollectible, void (the last two are never called) | repeated and late notices |
| Proration, money, period (`domain/*.py`) | none (values) | prorate, scale, remaining_ratio | rounding, boundaries, plans of different intervals |
| Calendar (`domain/time.py`, `domain/plan.py`) | none | add_months, next_after | end of month, leap years |
| Use cases (`application/usecases`, `application/charging.py`) | none between calls; each call holds rows, a list of identifiers and an answer of the provider | SubscribeToPlan, ChangePlan, CancelSubscription, RecordPaymentResult, RenewDueSubscriptions, SettleUnpaidInvoices | several transactions per call with a provider call between them; batches over stale lists; crashes between two steps |
| Unit of work and stores (`persistence/sql`, `memory`, `dynamo`) | rows with versions, unique idempotency keys; per unit of work the versions read and the rows staged | get, find, list, add, save, commit, rollback | optimistic locking, uniqueness, threads, index lag, lost answers |
| Payment provider (`ports.py`, `fake_gateway.py`) | the first answer under each idempotency key | charge, notices | lost calls, lost answers, duplicates, late success of a declined charge |
| HTTP interface (`presentation/api`) | none | one route per use case | concurrent requests, clients that resend |
| Queries, views, mappers, wiring | none | read, convert | nothing that changes state |

Interaction: a request or a scheduled call runs a use case on some thread. The
use case opens a unit of work, reads rows, calls aggregate methods, saves and
commits. If an invoice is to be charged, it then calls the provider outside any
transaction, and records the answer in a second unit of work. Notices from the
provider arrive through a route of their own. Use cases meet only in the store
and at the provider.

What makes each part correct:

* subscription: grace runs from the first failure; canceled is final; only a
  payment leads out of past due;
* invoice: written once, then only paid; paid only with the money collected;
* use cases together: every paid period is invoiced exactly once; money is taken
  at most once for an invoice; a trial is free; what is collected is recorded in
  the end; one item that fails should not keep a batch
  from the others (`SettlementBlocked` shows that it can);
* stores: a unit of work takes effect at one instant, whole or not at all; no
  update is lost; no key is held by two rows; whoever is refused is refused for what somebody
  else did or is doing;
* books: what is invoiced for a period follows its use to within the rounding;
  months are neither skipped nor invoiced twice.

## The modules

There are three models. `Billing` is about the use cases and what may happen between
their steps; it takes the store for what the ports promise and time for ticks. `Stores`
is about that promise. `Ledger` is about exact money and real dates.

| Module | Models |
|---|---|
| `Proration` | the price difference of a plan change |
| `Subscription` | the aggregate: rows, for each method its condition (`CanX`) and its result |
| `Invoice` | the aggregate, lines abstracted to "owes something" |
| `Billing` | workers running all use cases over one store and one provider; invariants, action and liveness properties; the refinement mapping |
| `Contract` | the abstract specification of `Billing`: the service as if it were atomic and nothing failed |
| `Repository` | the abstract specification of `Stores`: what `ports.py` and `domain/repositories.py` promise |
| `UnitOfWork` | what the units of work of the three stores share: rows, versions, staging, ends |
| `MemoryStore`, `SqlStore`, `DynamoStore` | each store's operations |
| `Stores` | the store the settings choose; its properties and the refinement mapping |
| `Calendar` | dates, `add_months`, `next_after` |
| `Ledger` | one subscription's invoices against its use, day by day |
| `BillingInductive`, `StoresInductive` | the inductive invariants |
| `BillingProofs`, `DunningProofs`, `ReasonProofs`, `ContractProofs`, `StoresProofs`, `StoresRefinement`, `RefusalProofs`, `LedgerProofs` | theorems and their proofs |
| `MCBilling`, `MCStores`, `MCLedger` | values for TLC |

`Billing` EXTENDS the two aggregates, which EXTEND `Proration`, and instantiates
`Contract` as `Promise`. `Stores` EXTENDS the three stores, which EXTEND `UnitOfWork`, and
instantiates `Repository` as `Promise`. `Ledger` EXTENDS `Calendar` and `Proration`, so
that both models of a plan change compute the difference with the same definitions.

### State and actions of Billing

| Variable | Code |
|---|---|
| `now` | `Clock.now()`, in ticks |
| `subs` | table `subscriptions` |
| `invs` | table `invoices`, by idempotency key (every use case sets one) |
| `provider` | what the provider did under each key |
| `wk` | per worker: program counter, what is left of a batch's list, and the rows it is about to save |

A unit of work is two steps. The opening step (`ChangePlan`, `Cancel`,
`RecordSuccess`, `RecordFailure`, `Reflect`, `RenewOne`, `ExpireOne`) reads rows,
runs the aggregate methods and keeps the resulting rows as a draft, or raises.
`Commit` saves the draft. It is refused (`CommitRaises`) if a row read has been
saved by another worker since (`stale`, set by that worker's `Commit`), or if the
key to be added exists. `Subscribe` writes only rows with fresh identifiers and
cannot be refused, so it is one step. A refused request answers 409; a refused
batch ends, because no batch catches the exception.

The provider's call is `GatewayAnswers` (the call arrives, the answer too) or
`GatewayUnreachable` (`PaymentGatewayError`: the call or the answer is lost, so the
charge may or may not have been made). The first call under a key decides and
later ones get the same answer, as in `FakePaymentGateway` and as the code relies
on. `Recover` is the provider collecting a declined charge on its own later
(retried cards), which the service learns by a notice only; it is why
`RecordPaymentResult` guards against late failures.

Decisions behind the abstraction:

* A worker's `now` is the clock at the opening step of a unit of work, which is
  where the code reads it (`charge_invoice` and both batches read it again for
  each unit of work).
* A subscription's version stands for that of its invoices: every unit of work
  that saves an invoice saves its subscription too (`charging.py:75-76`,
  `record_payment_result.py:49-50`).
* `find_by_idempotency_key` in `_renew_one` never finds anything (theorem
  `NoDoubleInvoice` and lemma `NextPeriodIsNew`), so that branch of `RenewOne` is
  there and never taken.
* A resent `ChangePlan` returns the stored result and changes nothing; it is not
  an action. A resent `Subscribe` is another subscription.
* `EntityNotFound` cannot occur for rows that are never deleted; a request for an
  unknown identifier changes nothing.
* The provider tells the truth in its notices.

`Scope` says which operations and events of the environment may happen, so that a
run spends its states on one question; the proofs hold for every `Scope`.

### Contract

`Contract` has no workers, drafts, retries or clock. A customer joins, a period
follows the last without gap or overlap and is invoiced once, plan changes are
free in a trial, money is taken at most once for an invoice and only if it asks
for some, an open invoice is recorded as paid only when the money is there and the
subscription in force, and an ended subscription stays ended. `ImplementsContract`
maps `subs`, `invs` and `provider` to it and requires each step of the use cases to be
one step of it or a stutter.

### State and actions of Stores

| Variable | Code |
|---|---|
| `store` | `settings.persistence` |
| `table` | what is committed: the dictionaries of `MemoryDatabase`, the tables, the DynamoDB items |
| `index` | the copy of `table` DynamoDB's queries read (the other stores have none) |
| `uow` | per unit of work: the `VersionTracker` (`seen`), the objects in the use case's hands (`held`), `Staging` or the staged items or the open transaction's rows (`staged`), and a record of what it saved and added |

The data of a row is the set of units of work whose changes it holds. Reading copies the
set, saving writes the copy with the saver added; so an update is lost exactly when a
committed unit is missing from a row it saved (`UpdatesAreKept`). Subscriptions and invoices
are stored alike and are both rows; plans are written once and left out. One call of a
repository is one step.

* `MemoryStore` compares versions in `MemorySave` and looks for the key in `MemoryAdd`;
  `MemoryCommit` copies. The four `dict.update` calls of a commit are one step.
* `SqlStore` is the SQLite file with a connection per unit of work. What SQLite and its
  driver do is taken from what the code relies on: a SELECT begins no transaction, the first
  write takes the lock of the file until the end, and who waits for it too long fails
  (`SqlLocked`). The in-memory database of the tests shares one connection among all units
  of work and is not modelled.
* `DynamoStore` collects writes and sends them with their conditions at `DynamoCommit`. The
  version written is one more than the version required, so the condition needs no variable
  of its own. The second write of an item keeps the version of the first (`DynamoVersion`).
  An idempotency key is an item; here it is the `key` of the row written with it. The answer
  of a commit may be lost (`DynamoCommitUnanswered`), and a transaction that meets another one
  under way on an item is canceled (`DynamoCommitCanceled`). A call that does not arrive
  writes nothing and looks like `Leave`. `DynamoList` reads the lagging copy, but
  not for a row the unit of work has written: the code says it would break
  (`session.py:82-86`), it does (`UpdatesAreKept` fails without that guard), and no use case
  does it.
* `InTurn` is where `Threads` matters: on the in-memory store, units of work overlap only
  before the first write unless `Threads` holds.

### Repository

`Repository` has one action: a unit of work takes effect on top of everything before it, on a
set of rows, takes only free keys, and is told so or not. `ImplementsRepository` maps
`table` to it, and every other step of the stores is a stutter.

### State and actions of Ledger

| Variable | Code |
|---|---|
| `now` | the date, as a day number |
| `plan`, `period` | `plan_id`, `current_period` |
| `book` | what an auditor would keep; no code reads it |

`Renew` is `Subscription.renew` and the invoice of `_renew_one`, as late as `Lateness` days;
`Change` is `change_plan` and its invoice, a negative one too (a downgrade is neither refunded
nor carried over, `design-decisions.md:8-10`, but its invoice has the lines). `Change` may
come after the end of the period and before the late renewal, when it is charged nothing.
The time of day is left out: `add_months` does not touch it.

## The runs

Deadlock is checked in the runs of `MCBilling`. Units of work end, and the clock of `Ledger`
stops at its bounds, so those runs do not check it.

| Run | Question | States |
|---|---|---|
| `Payments` | 1 subscription, 2 workers, time 0..3; renew, settle, notices, declines, late recoveries, lost calls, crashes. Do money and invoices agree (`MoneyMatchesInvoices`)? Is every period in force invoiced (`CurrentPeriodInvoiced`), once (`NoPeriodInvoicedTwice`), and no invoice replaced (`InvoiceOnlyEverPaid`)? Is nobody past due who was not declined (`PastDueOwesDeclined`), nobody canceled early (`NobodyExpiresEarly`), and does grace run from the first failure (`GraceRunsFromFirstFailure`)? | 293 k |
| `Contract` | every operation and event at once, with and without a trial and with a client's key used twice, 2 workers, time 0..1: `ImplementsContract`, `TrialOwesNothing`, `CanceledIsTerminal`. Is what a unit of work saves still legal, and its reason true, when it commits (`ChangesAreLegalWhenSaved`)? Can the provider's answer be recorded unless the subscription was canceled (`AnswersCanBeRecorded`)? And `IInv` | 449 k |
| `Settlement` | liveness: lost calls and crashes until tick 1 of 2, then settlement goes on: `OpenInvoicesGetPaid` | 6 k |
| `Stores` | each store, 2 units of work, a row there is and 2 new ones, 1 key, 2 saves of a row in a unit of work: `UpdatesAreKept`, `KeysAreUnique`, `ImplementsRepository`. Has every refusal its cause: another's committed change that the copy in hand lacks, a taken key, somebody writing just now (`NobodyIsRefusedForNothing`)? | 593 k |
| `Ledger` | 3 plans (monthly 10 and 31, yearly 300), 4 first dates at ends of months and around leap days, 2 changes in a period, 2 renewals up to 14 days late: `InvoicesMatchUse`, `BilledOncePerMonth` | 871 k |

In `MCBilling` the clock stops at `MaxTime` and crashes at `LastCrash`. The periods are 2
ticks long, grace and the settlement delay 1, so that within 2 or 3 ticks a subscription
renews, fails, stays past due for its grace period, and expires. Two workers are enough for
every race of two; the third would only be another "somebody else", and the theorems are for
any number. One subscription suffices where the property is about one: two use cases for
different subscriptions share nothing but client keys, of which `Contract` has one used
twice, and the lists of batches (`SettlementBlocked`). With one subscription, whoever comes second
with a key also comes with an old version; that the key alone decides between two
subscriptions is left to the proofs (`ContractIsKept`, `InvoicesOnlyGetPaid`). Two plans, one dearer, give both signs
of the difference.

In `MCStores` two units of work meet on one row they both save and on one key they both
take. In `MCLedger` no price is a multiple of a month's days, so that every proration
rounds; the strides of 14 and 174 days put changes at the start, the middle, the end of a
period and after it, and get through a year in few steps.

Seven runs refute what a comment or document of the repository says of the program:

| Run | Statement | What happens |
|---|---|---|
| `LateDecline` | a customer who has paid is not past due (`record_payment_result.py:41-44`) | `charge_invoice` records a decline without looking whether the invoice has been paid since |
| `RepeatedNotice` | a repeated notice changes nothing (`webhooks.py:16`) | a second notice of an old payment ends past due for a newer invoice |
| `RenewalForgives` | past due ends by payment (`domain-model.md:84`) | `renew` sets ACTIVE |
| `NoticeAfterCancel` | a second notice is not refused (`invoice.py:121-122`) | it is, once the subscription is canceled |
| `SettlementBlocked` | open invoices are picked up again (`charging.py:42-45`) | the open invoice of a canceled subscription ends every settlement, at the head of the list |
| `ThreadsOnMemory` | the in-memory store locks as the others do (`memory/repositories.py:3`) | two requests on the server's threads both save a row, then both commit; the first update is gone. In the same way both add one key: `KeysAreUnique` fails there too |
| `YearlyChange` | a change is charged the new plan's rest of the period (`proration.py:30`) | on the first day of a month, a change to the yearly plan is charged a whole year, and the renewal charges it again |

Seen in the models and in no property of their own:

* A stale list entry raises in `_renew_one` (`RenewRaises`) and ends the batch, so the
  subscriptions behind it wait for the next call, although `renew_due_subscriptions.py:70` wants
  the failure of one to stay with the one.
* Rounding is said to favour the customer (`money.py:77-78`), but credit and charge are both
  rounded down, so a change may cost a customer up to one unit more than exactly;
  `InvoicesMatchUse` bounds it both ways.
* The billing day drifts from the 31st to the 28th and stays there; `BilledOncePerMonth`
  bounds it from below.
* A subscription request sent again makes a second subscription with an invoice of its own
  (`subscribe_to_plan.py:72-74`); a plan change sent again under its key with another plan is
  answered with the first one's result (`change_plan.py:118-133`).

### Fairness

`FairSpec` assumes that the clock runs; that a worker that has started a use case
goes on (weak fairness of its own steps; the provider answers or the call fails);
that the settlement endpoint is called again and again when a worker is free
(strong fairness of `ListUnsettled`: it is meant for a scheduler, `admin.py`); and that
a settlement wins the optimistic race, and has its call answered, if it tries again
and again (strong fairness of its `Commit` and `GatewayAnswers`). Nothing is assumed of
renewals, notices or requests: they may stop. `Settlement` leaves out declines and
cancellations, whose invoices do stay open in this code (`SettlementBlocked`), and lets
crashes end before the last tick.

## The proofs

Nothing is assumed but the assumptions on constants in `Subscription`, `Billing`, `UnitOfWork`
and `Ledger` (prices and lengths are naturals, intervals positive, "none" is no identifier,
first dates are dates of the calendar), and, where stated, `NoThreads`.

| Module | Theorem | Statement |
|---|---|---|
| `BillingProofs` | `Inductive` | `Spec => []IInv` |
| | `TypeCorrect` | `Spec => []TypeOK` |
| | `MoneyIsAccountedFor` | `Spec => []MoneyMatchesInvoices` |
| | `NoFreePeriod` | `Spec => []CurrentPeriodInvoiced` |
| | `NoDoubleInvoice` | `Spec => []NoPeriodInvoicedTwice` |
| | `TrialIsFree` | `Spec => []TrialOwesNothing` |
| | `CanceledStays` | `Spec => CanceledIsTerminal` |
| | `InvoicesOnlyGetPaid` | `Spec => InvoiceOnlyEverPaid` |
| | `GraceIsRespected` | `Spec => NobodyExpiresEarly` |
| | `GraceStartIsKept` | `Spec => GraceRunsFromFirstFailure` |
| `DunningProofs` | `DunningHasAReason` | `Spec => []PastDueOwesDeclined` |
| `ReasonProofs` | `AnswersAreRecordable` | `Spec => []AnswersCanBeRecorded` |
| | `ChangesAreLegal` | `Spec => ChangesAreLegalWhenSaved` |
| | `OnlyPaymentOrRenewalEndsPastDue` | past due becomes active only by a collected payment of one of its invoices, or by the renewal of a period that is over |
| | `RepeatedNoticeForgivesOnlyDeclines` | a notice of a payment already recorded changes the row only if a charge of that subscription was declined |
| `ContractProofs` | `ContractIsKept` | `Spec => ImplementsContract` |
| `StoresProofs` | `StoresTypeCorrect` | `Spec => []TypeOK` |
| | `NoUpdateIsLost` | `NoThreads` proves `Spec => []UpdatesAreKept` |
| | `OneRowPerKey` | `NoThreads` proves `Spec => []KeysAreUnique` |
| `StoresRefinement` | `StoresKeepThePromise` | `NoThreads` proves `Spec => ImplementsRepository` |
| `RefusalProofs` | `RefusalsHaveAReason` | `NoThreads` proves `Spec => NobodyIsRefusedForNothing` |
| `LedgerProofs` | `LedgerTypeCorrect` | `Spec => []TypeOK`: no period is empty |
| | `MonthsAreBilledOnce` | `Spec => []BilledOncePerMonth` |
| | `InvoicesFollowUse` | `Spec => []InvoicesMatchUse` |
| | `ChangeCostsTheRestOfALongPeriod` | a change is charged no more than the rest of the period, if the period in force is as long as the new plan's shortest |
| | `ChangeCostsTheRestOfOneInterval` | with plans of one interval, `Spec => ChangeCostsTheRest` |

They hold for every number of subscriptions, workers, plans, keys, rows, units of work, ticks
and days, every catalogue and every `Scope`.

**Billing.** None of the invariants is inductive: each speaks of the store, and a `Commit` saves
whatever the worker holds. `IInv` adds what a worker may hold. `Drafted(x)` says that, as
long as nobody saved the rows it read, a worker's draft is one of three: an end of the
subscription (`EndsIt`), a new invoice with the period or plan it is for (`Bills`), or what
the provider said (`Reflects`), each in terms of the rows as they are now. `HandOK` adds
that a worker charges only what may be charged and holds only answers the provider stands
by; `RowsOK` and `BillsOK` say what rows and invoices look like. The proof goes step by
step:

* steps that save nothing keep the store (`StoreStays`) and everybody's hands
  (`HandStays`), because time and the provider's record only grow (`NothingSaved`);
* each opening step leaves its worker with a `Drafted` draft (`OwnStep` and one lemma per
  action);
* `CommitFacts` reads off what a commit does to rows and invoices (`Keeps`, `Advances`,
  `Adds`, `Pays`); `CommitStore` restores each conjunct of the store's invariant, and
  `CommitHands` everybody's hands: those who read the row become stale;
* the action properties follow from `IInv`, since only `Subscribe` and `Commit` save
  (`OnlySubscribeAndCommitSave`, `CommittedDraft`).

**Dunning.** `PastDueOwesDeclined` is proved on top of `IInv`: `RefusalsOK` says that a past due
subscription, a worker about to record a decline and a draft that is past due all have a
declined charge behind them. Declines and the owners of invoices are never forgotten
(`DeclinesStay`), so this needs no look at what is stale. "Past due" has to be read as
`HasFailed`: a renewal makes a past due subscription active and keeps the start of its grace
period, so that start is evidence of a decline too.

**Reasons.** `Drafted` compares a draft with the rows as they are at the commit, not as they
were when it was made, so each of its three kinds says why the change is legal then. An
`EndsIt` is a cancellation that is still possible or a grace period that is over; a `Bills` a
plan change still allowed, or the renewal of a period that has ended (time does not run
back); a `Reflects` an answer the provider stands by (`StepsHaveReasons`). Three theorems
bound findings of the runs. `AnswersAreRecordable` says that a cancellation, as in
`SettlementBlocked`, is the only state of the rows in which an answer cannot be recorded;
it needs `TrialOwesNothing`, for a trial cannot be paid for. `OnlyPaymentOrRenewalEndsPastDue`
says that `RenewalForgives` shows the only other way out of past due.
`RepeatedNoticeForgivesOnlyDeclines` says that a repeated notice does harm only where a
charge was declined, as in `RepeatedNotice`.

**Contract.** Under `IInv`, a commit whose draft is an `EndsIt` is an `End` of the contract or is
not seen by it (a cancellation for the end of the period); a `Bills` is an `Advance`, or an
`Amend` that is free in a trial; a `Reflects` is a `Receive`, or is not seen (a decline, a second
notice). `TrialOwesNothing` is what keeps a payment from turning a trial into a paid
subscription that was never invoiced, and `MoneyMatchesInvoices` what makes every charge a
`Collect` of an open invoice. The rest follows from the facts about commits above.

**Stores.** Every action of the three stores is one of five kinds: it reads, writes (adds or
saves) in its own session, drops the session, or commits it (`StepKinds`), or the index
catches up. So each invariant needs one lemma per kind and not one per action and store.
`UpdatesInv` says what a version that matches means: a row staged builds on the table's row if
its version is the one that would be taken (`WritesBuildOn`), a version read is the
table's only if nothing was missed (`ReadsAreDated`), the index is behind and its version
says so (`IndexIsDated`), and where versions are compared before the commit one unit of work
writes at a time (`OneWriter`). `KeysInv` says the same of keys, `EffectsInv` that a unit of work
has had no effect before its commit, which the refinement needs. `NoThreads` says that units of
work on the in-memory store do not overlap; without it `OneWriter` is false and
`ThreadsOnMemory` shows what follows.

`RefusalsHaveAReason` is the converse: a version that does not match means that something
was missed. `RefusalsInv` adds that whoever holds or has staged an old version is behind, lacking a
change that is in the table (`OldIsBehind`), and so is the index (`OldIndexIsBehind`). It
holds because every commit brings a change nobody had before, and for a row being added
because nobody else can have that row (`AddedIsNew`). That change is another's and committed
(`NoEffectYet`). The property does not say that it came after the read: on DynamoDB a listing
may return an old copy from a lagging index, whose save is then refused at the commit, with no
change since it was read. That the lock and a transaction in the way belong to a unit of work
still at work needs `WritesBuildOn` and `WritesAreRecorded`; an `__exit__` that forgot to
roll back would break it. The second save of a row in memory does conflict with the first; no
use case makes one, and the property names it.

**Ledger.** `MonthsAreBilledOnce` is induction on the month index, which `add_months` adds to
exactly (`AddMonthsFacts`), the day falling to 28 at most. `InvoicesFollowUse` needs the rounding of
`scale` (`ScaleFacts`) and that a change at a moment moves used and remaining time by the same
product (`NetFacts`, `Distribute`). What a change costs is bounded by the lengths of periods: a
month has 28 days or more, a year 365 or more (`NextAfterLength`), and in a period of at least
that length a prorated price is at most its part of the price (`NetBound`). With plans of one
interval the period in force always is that long. The program's catalogue (`container.py`) has
monthly and yearly plans, so this does not hold of it: the theorem says that the mixture of
intervals is the whole cause of what `YearlyChange` shows.

Only model-checked: liveness (`OpenInvoicesGetPaid`), which TLAPS cannot prove under
fairness, and the violations. Every safety property of a passing run is proved.

## Not modelled

* Queries and views read and convert; they change nothing. The row and item mappers convert
  field by field. HTTP status codes, schemas and validation, but for the bounds on trial
  lengths and the settlement delay.
* The event list of a subscription, which nothing reads; `mark_uncollectible` and `void`, which
  nothing calls; plans, which are written once when the program starts.
* DynamoDB's limit of 100 items in a transaction (no use case writes more than three), its page
  of 100 invoices of a customer, throttling and scans.
* Reads of the in-memory dictionaries in the middle of another thread's commit: a call is one
  step. The runs show lost updates without it.
* A backlog of declined invoices longer than the settlement's page.
* The settlement of `Billing` together with the stores of `Stores` in one state space: `Billing`
  assumes what `Repository` promises, and `StoresKeepThePromise` proves it of the stores.
* The Go program, whose SQLite store differs (`persistence-portability.md`).
