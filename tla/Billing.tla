------------------------------ MODULE Billing ------------------------------
(***************************************************************************)
(* The use cases of application/ at work together: every HTTP request,     *)
(* webhook delivery, renewal batch and settlement batch is run by a worker *)
(* (a thread of the server, or another process), and they meet in the      *)
(* store and at the payment provider.                                      *)
(*                                                                         *)
(* A use case is a sequence of units of work.  A unit of work is two       *)
(* steps: the first reads the rows, runs the methods of the aggregates on  *)
(* them and keeps the rows it will save (a draft), or raises; the second,  *)
(* Commit, saves the draft, unless a row read has been saved by somebody   *)
(* else in between (ConcurrencyConflict) or an idempotency key to be added *)
(* is already there (DuplicateEntity).  The provider is called between two *)
(* units of work, never inside one.                                        *)
(***************************************************************************)
EXTENDS Subscription, Invoice, Sequences

CONSTANTS
  Workers,    \* threads and processes that run use cases
  Requests,   \* idempotency keys clients choose for plan changes
  Trials,     \* trial lengths a client may ask for; 0 is no trial
  Delay,      \* DEFAULT_SETTLEMENT_DELAY: an invoice this old is settled by batch
  Limit,      \* the page size of the batches
  MaxTime,    \* bound: the clock stops here
  LastCrash,  \* bound: no worker crashes after this instant
  Scope       \* the operations and events of the environment that may happen

Environment == {"subscribe", "change", "cancel", "notify", "renew", "settle",
                "decline", "recover", "unreachable", "crash"}

ASSUME BillingAssumption ==
  /\ None \notin Subs
  /\ Trials \subseteq Nat
  /\ Delay \in Nat /\ Limit \in Nat \ {0}
  /\ MaxTime \in Nat /\ LastCrash \in Int
  /\ Scope \subseteq Environment

Time == 0 .. MaxTime

(***************************************************************************)
(* An invoice is named by its idempotency key: every invoice the use cases *)
(* issue has one and the stores keep them unique.  The kind and the        *)
(* arguments are the parts of the key's string.                            *)
(***************************************************************************)
InitialKey(s)  == <<"initial", s, 0>>
RenewKey(s, t) == <<"renew", s, t>>
ChangeKey(r)   == <<"change", r, 0>>

Keys == ({"initial"} \X Subs \X {0})
        \cup ({"renew"} \X Subs \X Time)
        \cup ({"change"} \X Requests \X {0})
NoKey == <<"none", "none", 0>>

VARIABLES
  now,        \* the clock
  subs,       \* [Subs -> Row], the stored subscriptions
  invs,       \* [Keys -> Bill], the stored invoices
  provider,   \* [Keys -> Outcome], what the provider did under each key
  wk          \* [Workers -> Worker]

vars == <<now, subs, invs, provider, wk>>

\* "succeeded" and "declined" are the first answer, which the provider repeats
\* for the same key ever after; "recovered" is a declined charge it has since
\* collected on its own (a retried card), told by a webhook only.
Outcome == {"none", "succeeded", "declined", "recovered"}
Collected(k) == provider[k] \in {"succeeded", "recovered"}
Declined(k)  == provider[k] \in {"declined", "recovered"}

Batches == {"renew", "expire", "settle"}

Worker == [pc : {"idle", "commit", "charge", "reflect"} \cup Batches,
           job : Batches \cup {None},   \* the batch to return to
           todo : Seq(Subs \cup Keys),  \* what is left of the batch's list
           sub : Subs \cup {None},      \* the rows in hand
           key : Keys \cup {NoKey},
           draft : Row, bill : Bill,    \* what Commit will save
           adds : BOOLEAN,              \* the bill is new, not an update
           pays : BOOLEAN,              \* charge the invoice after Commit
           answer : {None, "succeeded", "declined"},
           stale : BOOLEAN]             \* a row read has been saved by another

Idle == [pc |-> "idle", job |-> None, todo |-> <<>>, sub |-> None, key |-> NoKey,
         draft |-> NoRow, bill |-> NoBill, adds |-> FALSE, pays |-> FALSE,
         answer |-> None, stale |-> FALSE]

Init ==
  /\ now = 0
  /\ subs = [s \in Subs |-> NoRow]
  /\ invs = [k \in Keys |-> NoBill]
  /\ provider = [k \in Keys |-> "none"]
  /\ wk = [w \in Workers |-> Idle]

----------------------------------------------------------------------------
(* Workers *)

Starts(w, operation) == wk[w].pc = "idle" /\ operation \in Scope

Goto(w, x) == wk' = [wk EXCEPT ![w] = x]

\* The use case is over: a request's worker is free, a batch goes on.
Resume(x) ==
  IF x.job = None THEN Idle
  ELSE [Idle EXCEPT !.pc = x.job, !.job = x.job, !.todo = x.todo]

Charging(x, k) == [Resume(x) EXCEPT !.pc = "charge", !.key = k]

\* A unit of work that will save the row of s, and with it a bill if there is one.
Saving(x, s, draft) == [Resume(x) EXCEPT !.pc = "commit", !.sub = s, !.draft = draft]

SavingBill(x, s, draft, k, bill) ==
  [Saving(x, s, draft) EXCEPT !.key = k, !.bill = bill]

\* Mutant of Issuing: the invoice is added after the commit, and rolled back.
IssuingTooLate(x, s, draft, k, bill) == Saving(x, s, draft)

\* Mutant of Issuing: an invoice that owes nothing is sent to the provider too.
IssuingAndCharging(x, s, draft, k, bill) ==
  [SavingBill(x, s, draft, k, bill) EXCEPT !.adds = TRUE, !.pays = TRUE]

Issuing(x, s, draft, k, bill) ==
  [SavingBill(x, s, draft, k, bill) EXCEPT !.adds = TRUE, !.pays = (bill.status = "open")]

\* Mutant of Conflicts: a save does not compare versions.
ConflictsOnKeysOnly(x) == x.adds /\ Exists(invs[x.key])

\* ConcurrencyConflict or DuplicateEntity.  Whoever saves an invoice saves its
\* subscription too, so the version of the subscription stands for both.
Conflicts(x) == x.stale \/ (x.adds /\ Exists(invs[x.key]))

\* The page a query returns: the first Limit elements of S by rank, ties in any order.
Pages(S, rank) ==
  {q \in UNION {[1 .. n -> S] : n \in 0 .. Limit} :
     /\ \A i, j \in DOMAIN q : i < j => q[i] # q[j] /\ rank[q[i]] <= rank[q[j]]
     /\ \A e \in S : \/ \E i \in DOMAIN q : q[i] = e
                     \/ Len(q) = Limit /\ \A i \in DOMAIN q : rank[q[i]] <= rank[e]}

----------------------------------------------------------------------------
(* UnitOfWork.commit, and what happens when it refuses *)

AfterCommit(x) == IF x.pays THEN Charging(x, x.key) ELSE Resume(x)

Commit(w) ==
  LET x == wk[w] IN
  /\ x.pc = "commit" /\ ~Conflicts(x)
  /\ subs' = [subs EXCEPT ![x.sub] = x.draft]
  /\ invs' = IF Exists(x.bill) THEN [invs EXCEPT ![x.key] = x.bill] ELSE invs
  /\ wk' = [v \in Workers |->
              IF v = w THEN AfterCommit(x)
              ELSE IF wk[v].pc = "commit" /\ wk[v].sub = x.sub
              THEN [wk[v] EXCEPT !.stale = TRUE]
              ELSE wk[v]]
  /\ UNCHANGED <<now, provider>>

\* No use case catches it: a request answers 409, a batch stops where it is.
CommitRaises(w) ==
  /\ wk[w].pc = "commit" /\ Conflicts(wk[w])
  /\ Goto(w, Idle)
  /\ UNCHANGED <<now, subs, invs, provider>>

----------------------------------------------------------------------------
(* Requests *)

\* SubscribeToPlan: the rows are new, so its unit of work is one step.
Subscribe(w, s, plan, trial) ==
  /\ Starts(w, "subscribe")
  /\ subs[s] = NoRow
  /\ subs' = [subs EXCEPT ![s] = Subscribed(plan, now, trial)]
  /\ IF trial = 0
     THEN /\ invs' = [invs EXCEPT ![InitialKey(s)] = Issued(s, now)]
          /\ Goto(w, Charging(Idle, InitialKey(s)))
     ELSE UNCHANGED <<invs, wk>>
  /\ UNCHANGED <<now, provider>>

\* ChangePlan, when the key is new; a known key is answered without any change.
ChangePlan(w, s, plan, r) ==
  LET row  == subs[s]
      bill == IF OwesDifference(row, plan, now) THEN Issued(s, now)
              ELSE SettledWithoutPayment(Issued(s, now)) IN
  /\ Starts(w, "change")
  /\ ~Exists(invs[ChangeKey(r)])
  /\ CanChangePlan(row, plan)
  /\ Goto(w, Issuing(Idle, s, PlanChanged(row, plan), ChangeKey(r), bill))
  /\ UNCHANGED <<now, subs, invs, provider>>

\* CancelSubscription
Cancel(w, s, immediately) ==
  /\ Starts(w, "cancel")
  /\ CanCancel(subs[s])
  /\ Goto(w, Saving(Idle, s, Canceled(subs[s], immediately)))
  /\ UNCHANGED <<now, subs, invs, provider>>

\* RecordPaymentResult of a success.  The provider tells of money it has, as
\* often as it likes, and at any time.
RecordSuccess(w, k) ==
  LET bill == invs[k]
      row  == subs[bill.sub] IN
  /\ Starts(w, "notify")
  /\ Exists(bill) /\ Collected(k)
  /\ CanMarkPaid(bill) /\ CanMarkPaymentSucceeded(row)
  /\ Goto(w, SavingBill(Idle, bill.sub, PaymentSucceeded(row), k, MarkedPaid(bill)))
  /\ UNCHANGED <<now, subs, invs, provider>>

\* RecordPaymentResult of a failure, which may arrive after the success.
RecordFailure(w, k) ==
  LET bill == invs[k]
      row  == subs[bill.sub] IN
  /\ Starts(w, "notify")
  /\ Exists(bill) /\ Declined(k)
  /\ IsSettled(bill) \/ CanMarkPaymentFailed(row)
  /\ Goto(w, SavingBill(Idle, bill.sub,
                        IF IsSettled(bill) THEN row ELSE PaymentFailed(row, now), k, bill))
  /\ UNCHANGED <<now, subs, invs, provider>>

----------------------------------------------------------------------------
(* charge_invoice *)

\* Mutant of Outcomes: the provider is not given the key, and decides each time.
OutcomesWithoutKey(k) == {"succeeded", "declined"}

\* What the provider has done under the key once a call got there: a first
\* call decides, any later one changes nothing.
Outcomes(k) ==
  IF provider[k] # "none" THEN {provider[k]}
  ELSE IF "decline" \in Scope THEN {"succeeded", "declined"} ELSE {"succeeded"}

\* PaymentGateway.charge answers, with the first answer it gave under the key.
GatewayAnswers(w) ==
  LET x == wk[w] IN
  /\ x.pc = "charge"
  /\ \E outcome \in Outcomes(x.key) :
       /\ provider' = [provider EXCEPT ![x.key] = outcome]
       /\ Goto(w, [x EXCEPT !.pc = "reflect",
                            !.answer = IF outcome = "succeeded" THEN outcome ELSE "declined"])
  /\ UNCHANGED <<now, subs, invs>>

\* Mutant of GatewayUnreachable: an error of the gateway is swallowed and taken for a success.
GatewayErrorSwallowed(w) ==
  /\ "unreachable" \in Scope
  /\ wk[w].pc = "charge"
  /\ Goto(w, [wk[w] EXCEPT !.pc = "reflect", !.answer = "succeeded"])
  /\ UNCHANGED <<now, subs, invs, provider>>

\* PaymentGatewayError: the call did not get there, or its answer got lost.
\* A request answers 502, a batch counts it and goes on.
GatewayUnreachable(w) ==
  LET x == wk[w] IN
  /\ "unreachable" \in Scope
  /\ x.pc = "charge"
  /\ \E outcome \in Outcomes(x.key) \cup {provider[x.key]} :
       provider' = [provider EXCEPT ![x.key] = outcome]
  /\ Goto(w, Resume(x))
  /\ UNCHANGED <<now, subs, invs>>

\* The second unit of work.  Unlike RecordFailure it takes a decline at its
\* word even if the invoice has been settled since.
CanReflect(answer, bill, row) ==
  IF answer = "succeeded" THEN CanMarkPaid(bill) /\ CanMarkPaymentSucceeded(row)
  ELSE CanMarkPaymentFailed(row)

Reflect(w) ==
  LET x    == wk[w]
      bill == invs[x.key]
      row  == subs[bill.sub] IN
  /\ x.pc = "reflect"
  /\ CanReflect(x.answer, bill, row)
  /\ Goto(w, IF x.answer = "succeeded"
             THEN SavingBill(x, bill.sub, PaymentSucceeded(row), x.key, MarkedPaid(bill))
             ELSE SavingBill(x, bill.sub, PaymentFailed(row, now), x.key, bill))
  /\ UNCHANGED <<now, subs, invs, provider>>

\* IllegalTransition, which neither batch catches.
ReflectRaises(w) ==
  LET x == wk[w] IN
  /\ x.pc = "reflect"
  /\ ~CanReflect(x.answer, invs[x.key], subs[invs[x.key].sub])
  /\ Goto(w, Idle)
  /\ UNCHANGED <<now, subs, invs, provider>>

----------------------------------------------------------------------------
(* RenewDueSubscriptions *)

StartBatch(w, batch, todo) == Goto(w, [Idle EXCEPT !.pc = batch, !.job = batch, !.todo = todo])

Due     == {s \in Subs : IsDue(subs[s], now)}
PastDue == {s \in Subs : subs[s].status = "past_due"}

ListDue(w) ==
  /\ Starts(w, "renew")
  /\ \E q \in Pages(Due, [s \in Subs |-> subs[s].end]) : StartBatch(w, "renew", q)
  /\ UNCHANGED <<now, subs, invs, provider>>

\* _renew_one: the new period and the invoice for it are one unit of work.
RenewOne(w) ==
  LET x   == [wk[w] EXCEPT !.todo = Tail(@)]
      s   == Head(wk[w].todo)
      row == subs[s]
      k   == RenewKey(s, row.end) IN
  /\ wk[w].pc = "renew" /\ wk[w].todo # <<>>
  /\ IsDue(row, now)
  /\ Goto(w, IF ~Renews(row) THEN Saving(x, s, Renewed(row))
             ELSE IF Exists(invs[k])
             THEN [Saving(x, s, Renewed(row)) EXCEPT !.key = k, !.pays = TRUE]
             ELSE Issuing(x, s, Renewed(row), k, Issued(s, now)))
  /\ UNCHANGED <<now, subs, invs, provider>>

\* The list is old: the subscription has been renewed or canceled since.
RenewRaises(w) ==
  /\ wk[w].pc = "renew" /\ wk[w].todo # <<>>
  /\ ~IsDue(subs[Head(wk[w].todo)], now)
  /\ Goto(w, Idle)
  /\ UNCHANGED <<now, subs, invs, provider>>

\* _expire_past_due, once every renewal is done
ListPastDue(w) ==
  /\ wk[w].pc = "renew" /\ wk[w].todo = <<>>
  /\ \E q \in Pages(PastDue, [s \in Subs |-> subs[s].since]) : StartBatch(w, "expire", q)
  /\ UNCHANGED <<now, subs, invs, provider>>

\* _expire_one
ExpireOne(w) ==
  LET x   == [wk[w] EXCEPT !.todo = Tail(@)]
      s   == Head(wk[w].todo)
      row == subs[s] IN
  /\ wk[w].pc = "expire" /\ wk[w].todo # <<>>
  /\ Goto(w, IF GraceOver(row, now) THEN Saving(x, s, Expired(row)) ELSE x)
  /\ UNCHANGED <<now, subs, invs, provider>>

----------------------------------------------------------------------------
(* SettleUnpaidInvoices *)

\* Mutant of Unsettled: the comparison with the cutoff is the wrong way round.
UnsettledNewer == {k \in Keys : invs[k].status = "open" /\ invs[k].issuedAt >= now - Delay}

Unsettled == {k \in Keys : invs[k].status = "open" /\ invs[k].issuedAt <= now - Delay}

ListUnsettled(w) ==
  /\ Starts(w, "settle")
  /\ \E q \in Pages(Unsettled, [k \in Keys |-> invs[k].issuedAt]) :
       StartBatch(w, "settle", q)
  /\ UNCHANGED <<now, subs, invs, provider>>

SettleOne(w) ==
  /\ wk[w].pc = "settle" /\ wk[w].todo # <<>>
  /\ Goto(w, Charging([wk[w] EXCEPT !.todo = Tail(@)], Head(wk[w].todo)))
  /\ UNCHANGED <<now, subs, invs, provider>>

EndBatch(w) ==
  /\ wk[w].pc \in {"expire", "settle"} /\ wk[w].todo = <<>>
  /\ Goto(w, Idle)
  /\ UNCHANGED <<now, subs, invs, provider>>

----------------------------------------------------------------------------
(* The world around *)

Tick ==
  /\ now < MaxTime
  /\ now' = now + 1
  /\ UNCHANGED <<subs, invs, provider, wk>>

Recover(k) ==
  /\ "recover" \in Scope
  /\ provider[k] = "declined"
  /\ provider' = [provider EXCEPT ![k] = "recovered"]
  /\ UNCHANGED <<now, subs, invs, wk>>

Crash(w) ==
  /\ "crash" \in Scope /\ now <= LastCrash
  /\ wk[w].pc # "idle"
  /\ Goto(w, Idle)
  /\ UNCHANGED <<now, subs, invs, provider>>

----------------------------------------------------------------------------
(* The specification *)

Request(w) ==
  \/ \E s \in Subs, plan \in Plans, trial \in Trials : Subscribe(w, s, plan, trial)
  \/ \E s \in Subs, plan \in Plans, r \in Requests : ChangePlan(w, s, plan, r)
  \/ \E s \in Subs, immediately \in BOOLEAN : Cancel(w, s, immediately)
  \/ \E k \in Keys : RecordSuccess(w, k)
  \/ \E k \in Keys : RecordFailure(w, k)
  \/ ListDue(w)
  \/ ListUnsettled(w)

\* What a worker does next on its own, once it has started.
Proceed(w) ==
  \/ CommitRaises(w)
  \/ Reflect(w) \/ ReflectRaises(w)
  \/ RenewOne(w) \/ RenewRaises(w)
  \/ ListPastDue(w) \/ ExpireOne(w)
  \/ SettleOne(w)
  \/ EndBatch(w)

Next ==
  \/ Tick
  \/ \E k \in Keys : Recover(k)
  \/ \E w \in Workers :
       \/ Request(w)
       \/ Proceed(w)
       \/ Commit(w)
       \/ GatewayAnswers(w)
       \/ GatewayUnreachable(w)
       \/ Crash(w)

Spec == Init /\ [][Next]_vars

(***************************************************************************)
(* A worker that has started goes on, the clock runs, and somebody calls   *)
(* the settlement endpoint again and again.  A settlement that gets to its *)
(* commit again and again wins the race once, and one that asks the        *)
(* provider again and again is answered once.                              *)
(***************************************************************************)
Fairness ==
  /\ WF_vars(Tick)
  /\ \A w \in Workers :
       /\ WF_vars(Proceed(w) \/ Commit(w) \/ GatewayAnswers(w))
       /\ SF_vars(ListUnsettled(w))
       /\ SF_vars(wk[w].job = "settle" /\ Commit(w))
       /\ SF_vars(wk[w].job = "settle" /\ GatewayAnswers(w))

FairSpec == Spec /\ Fairness

----------------------------------------------------------------------------
(* Invariants *)

\* The state is well typed.
TypeOK ==
  /\ now \in Time
  /\ subs \in [Subs -> Row]
  /\ invs \in [Keys -> Bill]
  /\ provider \in [Keys -> Outcome]
  /\ wk \in [Workers -> Worker]

\* An invoice is PAID only if the provider has the money, and the provider was
\* only ever asked for money under the key of an invoice that owes some.
MoneyMatchesInvoices ==
  \A k \in Keys :
    /\ invs[k].status = "paid" => Collected(k)
    /\ provider[k] # "none" => invs[k].status \in {"open", "paid"}

\* Nobody is on a paid period that was not invoiced: renewing and invoicing
\* are one commit, whatever races, fails or crashes around it.
CurrentPeriodInvoiced ==
  \A s \in Subs : subs[s].status \in {"active", "past_due"} =>
    \/ invs[RenewKey(s, subs[s].start)].status \in {"open", "paid"}
    \/ /\ invs[InitialKey(s)].status \in {"open", "paid"}
       /\ invs[InitialKey(s)].issuedAt = subs[s].start

\* No invoice of a subscription is for a period it has not entered, nor is a
\* period invoiced both at subscription and by renewal.  So the key of the
\* next renewal is new, and _renew_one's look-up of it never finds anything.
NoPeriodInvoicedTwice ==
  \A s \in Subs, t \in Time : Exists(invs[RenewKey(s, t)]) =>
    /\ t <= subs[s].start
    /\ Exists(invs[InitialKey(s)]) => invs[InitialKey(s)].issuedAt < t

\* During a trial nothing is owed: every invoice issued until then, by plan
\* changes, was settled without payment.
TrialOwesNothing ==
  \A s \in Subs, k \in Keys :
    subs[s].status = "trialing" /\ invs[k].sub = s => invs[k].status = "no_payment_due"

\* An answer of the provider can be recorded unless the subscription has been
\* canceled since: no trial, no invoice settled in between stands in its way.
AnswersCanBeRecorded ==
  \A w \in Workers :
    LET x    == wk[w]
        bill == invs[x.key]
        row  == subs[bill.sub] IN
    x.pc = "reflect" => row.status = "canceled" \/ CanReflect(x.answer, bill, row)

\* Nobody is past due whose money was not refused: an invoice was declined, and
\* if it has been settled since, the provider has recovered the charge.
PastDueOwesDeclined ==
  \A s \in Subs : subs[s].status = "past_due" =>
    \E k \in Keys : /\ invs[k].sub = s /\ Declined(k)
                    /\ invs[k].status = "open" \/ provider[k] = "recovered"

\* record_payment_result.py: a customer who has paid is not past due.
PastDueOwesSomething ==
  \A s \in Subs : subs[s].status = "past_due" =>
    \E k \in Keys : invs[k].sub = s /\ invs[k].status = "open"

\* invoice.py: a second notice of a success is not refused (the provider would
\* send it forever).
SecondNoticeIsAccepted ==
  \A k \in Keys : invs[k].status = "paid" =>
    CanMarkPaid(invs[k]) /\ CanMarkPaymentSucceeded(subs[invs[k].sub])

----------------------------------------------------------------------------
(* Action properties *)

\* A canceled subscription stays as it is, whatever answer, notice or batch
\* was under way when it was canceled.
CanceledIsTerminal ==
  [][\A s \in Subs : subs[s].status = "canceled" => subs'[s] = subs[s]]_vars

\* An issued invoice is never replaced; all that ever happens to it is that an
\* open one is paid.
InvoiceOnlyEverPaid ==
  [][\A k \in Keys : Exists(invs[k]) =>
       \/ invs'[k] = invs[k]
       \/ invs[k].status = "open" /\ invs'[k] = MarkedPaid(invs[k])]_vars

\* A customer's wish, with an invoice of its own if it is for another plan
AsRequested(s) ==
  \/ subs[s] = NoRow /\ \E plan \in Plans, trial \in Trials : subs'[s] = Subscribed(plan, now, trial)
  \/ CanCancel(subs[s]) /\ \E immediately \in BOOLEAN : subs'[s] = Canceled(subs[s], immediately)
  \/ \E plan \in Plans, r \in Requests :
       /\ CanChangePlan(subs[s], plan) /\ subs'[s] = PlanChanged(subs[s], plan)
       /\ ~Exists(invs[ChangeKey(r)]) /\ invs'[ChangeKey(r)].sub = s

\* A payment of this subscription, or one refused at some instant up to now
AsPaid(s) ==
  \E k \in Keys : invs[k].sub = s /\
    \/ /\ Collected(k) /\ invs'[k].status = "paid"
       /\ CanMarkPaymentSucceeded(subs[s]) /\ subs'[s] = PaymentSucceeded(subs[s])
    \/ /\ Declined(k)
       /\ CanMarkPaymentFailed(subs[s]) /\ \E t \in 0 .. now : subs'[s] = PaymentFailed(subs[s], t)

AsTimeRequires(s) ==
  \/ IsDue(subs[s], now) /\ subs'[s] = Renewed(subs[s])
  \/ GraceOver(subs[s], now) /\ subs'[s] = Expired(subs[s])

\* Whatever was read, and however long ago, what is saved of a subscription is
\* what one method makes of the row as it is now, and the method is allowed now.
ChangesAreLegalWhenSaved ==
  [][\A s \in Subs : subs'[s] = subs[s] \/ AsRequested(s) \/ AsPaid(s) \/ AsTimeRequires(s)]_vars

\* The batch cancels for nonpayment only who is past due, and has been for the
\* whole grace period, at the moment of the commit.
NobodyExpiresEarly ==
  [][\A w \in Workers :
       LET row == subs[wk[w].sub] IN
       wk[w].job = "expire" /\ wk[w].pc = "commit" /\ subs' # subs /\ wk'[w].pc # "commit" =>
         row.status = "past_due" /\ now - row.since >= Grace]_vars

\* domain-model.md: a retried charge does not move the start of the grace period.
GraceRunsFromFirstFailure ==
  [][\A s \in Subs : subs[s].status = "past_due" /\ subs'[s].status = "past_due" =>
       subs'[s].since = subs[s].since]_vars

\* domain-model.md, state diagram: only a payment leads from past due to active.
OnlyPaymentEndsPastDue ==
  [][\A s \in Subs : subs[s].status = "past_due" /\ subs'[s].status = "active" =>
       \E k \in Keys : invs[k].sub = s /\ invs'[k].status = "paid"
                       /\ subs'[s].start = subs[s].start]_vars

\* webhooks.py: telling again of a payment already recorded changes nothing.
RepeatedNoticeChangesNothing ==
  [][\A w \in Workers :
       LET x == wk[w] IN
       x.pc = "commit" /\ wk'[w].pc # "commit" /\ x.job = None
         /\ ~x.adds /\ x.bill.status = "paid" /\ invs[x.key].status = "paid"
         => subs' = subs]_vars

----------------------------------------------------------------------------
(* Refinement *)

Phase(status) ==
  CASE status = None -> "none"
    [] status = "trialing" -> "trial"
    [] status \in {"active", "past_due"} -> "live"
    [] status = "canceled" -> "ended"

State(status) ==
  CASE status = "no_payment_due" -> "free" [] OTHER -> status

Promise == INSTANCE Contract WITH
  account   <- [s \in Subs |-> [phase |-> Phase(subs[s].status),
                                from |-> subs[s].start, to |-> subs[s].end]],
  dues      <- [k \in Keys |-> [owner |-> invs[k].sub, state |-> State(invs[k].status)]],
  collected <- {k \in Keys : Collected(k)}

\* Whatever races, crashes, fails or comes twice, each step of the use cases is
\* one atomic step of the contract or changes nothing the contract speaks of.
ImplementsContract == Promise!Spec

----------------------------------------------------------------------------
(* Liveness *)

\* charging.py: an invoice that is still open when it is due for settlement is
\* picked up again, and ends paid if the provider collects it: the money a
\* crash, a lost answer or a lost race left unrecorded gets recorded.
OpenInvoicesGetPaid ==
  \A k \in Keys :
    (invs[k].status = "open" /\ invs[k].issuedAt + Delay <= MaxTime)
      ~> (invs[k].status = "paid")

\* charging.py: an invoice whose charge succeeded is picked up again until that
\* is recorded, whatever kept the first attempt from recording it.
CollectedGetsRecorded ==
  \A k \in Keys :
    (provider[k] = "succeeded" /\ invs[k].issuedAt + Delay <= MaxTime)
      ~> (invs[k].status = "paid")
============================================================================
