--------------------------- MODULE DunningProofs ---------------------------
(***************************************************************************)
(* Nobody is past due, and so nobody is canceled for nonpayment, whose     *)
(* money was not refused: for any plans, workers, requests and bounds.     *)
(***************************************************************************)
EXTENDS BillingProofs

\* A decline is not taken back, and an invoice stays with its subscription.
RefusalsStay ==
  \A k \in Keys : /\ Declined(k) => Declined(k)'
                  /\ Exists(invs[k]) => invs'[k].sub = invs[k].sub

LEMMA DeclinesStay ==
  ASSUME IInv, [Next]_vars, NEW k \in Keys, Declined(k)
  PROVE  Declined(k)'
<1>1. provider \in [Keys -> Outcome]
  BY DEF IInv, TypeOK
<1>2. CASE provider' = provider
  BY <1>2 DEF Declined
<1>3. ASSUME NEW j \in Keys, Recover(j)
      PROVE  Declined(k)'
  BY <1>1, <1>3 DEF Recover, Declined
<1>4. ASSUME NEW w \in Workers, GatewayAnswers(w) \/ GatewayUnreachable(w)
      PROVE  Declined(k)'
  <2>1. PICK outcome \in Outcomes(wk[w].key) \cup {provider[wk[w].key]} :
          provider' = [provider EXCEPT ![wk[w].key] = outcome]
    BY <1>4 DEF GatewayAnswers, GatewayUnreachable
  <2>2. wk[w].key = k => outcome = provider[k]
    BY <2>1 DEF Outcomes, Declined
  <2>. QED  BY <1>1, <2>1, <2>2 DEF Declined
<1>5. ASSUME NEW w \in Workers, Request(w) \/ Proceed(w) \/ Commit(w) \/ Crash(w)
      PROVE  provider' = provider
  BY <1>5 DEF Request, Subscribe, ChangePlan, Cancel, RecordSuccess, RecordFailure,
     ListDue, ListUnsettled, Proceed, CommitRaises, Reflect, ReflectRaises, RenewOne,
     RenewRaises, ListPastDue, ExpireOne, SettleOne, EndBatch, Commit, Crash
<1>. QED  BY <1>2, <1>3, <1>4, <1>5 DEF Next, Tick, vars

LEMMA StepKeepsRefusals ==
  ASSUME IInv, [Next]_vars
  PROVE  RefusalsStay
<1>1. ASSUME NEW k \in Keys, Exists(invs[k])
      PROVE  invs'[k].sub = invs[k].sub
  BY <1>1, InvoiceStep DEF MarkedPaid, IInv, TypeOK, Bill
<1>. QED  BY <1>1, DeclinesStay DEF RefusalsStay

LEMMA RefusedStays ==
  ASSUME IInv, RefusalsStay, NEW s \in Subs, Refused(s)
  PROVE  Refused(s)'
<1>1. PICK k \in Keys : invs[k].sub = s /\ Declined(k)
  BY DEF Refused
<1>2. Exists(invs[k])
  BY <1>1, BillingAssumption DEF IInv, StoreOK, BillsOK, NoBill, Chargeable, Exists, None
<1>. QED  BY <1>1, <1>2 DEF RefusalsStay, Refused

\* Only PaymentFailed makes a row fail.
LEMMA FailedRows ==
  ASSUME NEW row \in Row
  PROVE  /\ \A b \in BOOLEAN : HasFailed(Canceled(row, b)) => HasFailed(row)
         /\ \A plan \in Plans : HasFailed(PlanChanged(row, plan)) => HasFailed(row)
         /\ ~HasFailed(PaymentSucceeded(row))
         /\ HasFailed(Expired(row)) => HasFailed(row)
         /\ HasFailed(Renewed(row)) => HasFailed(row)
<1>1. \A b \in BOOLEAN : HasFailed(Canceled(row, b)) => HasFailed(row)
  BY DEF HasFailed, Canceled, Row
<1>2. \A plan \in Plans : HasFailed(PlanChanged(row, plan)) => HasFailed(row)
  BY DEF HasFailed, PlanChanged, Row
<1>3. ~HasFailed(PaymentSucceeded(row))
  BY DEF HasFailed, PaymentSucceeded, Row
<1>4. HasFailed(Expired(row)) => HasFailed(row)
  BY DEF HasFailed, Expired, Row
<1>5. HasFailed(Renewed(row)) => HasFailed(row)
  BY DEF HasFailed, Renewed, Row
<1>. QED  BY <1>1, <1>2, <1>3, <1>4, <1>5

LEMMA HandRefusedStays ==
  ASSUME IInv, RefusalsStay, NEW x, HandRefused(x)
  PROVE  HandRefused(x)'
<1>1. x.pc = "commit" /\ HasFailed(x.draft) => Refused(x.sub)'
  BY RefusedStays DEF HandRefused
<1>2. x.pc = "reflect" /\ x.answer = "declined" => Declined(x.key)'
  BY DEF RefusalsStay, HandRefused
<1>. QED  BY <1>1, <1>2 DEF HandRefused

----------------------------------------------------------------------------
(* Steps of one worker that save nothing *)

LEMMA OwnRefusals ==
  ASSUME DunningInv, RefusalsStay, NEW w \in Workers, NEW y \in Worker,
         HandRefused(y), Goto(w, y), subs' = subs
  PROVE  RefusalsOK'
<1>1. \A s \in Subs : HasFailed(subs'[s]) => Refused(s)'
  BY RefusedStays DEF DunningInv, RefusalsOK
<1>2. ASSUME NEW v \in Workers
      PROVE  HandRefused(wk[v])'
  <2>1. PICK x : x = wk'[v]
    OBVIOUS
  <2>2. HandRefused(x)
    BY <2>1 DEF Goto, DunningInv, RefusalsOK, IInv, TypeOK
  <2>3. HandRefused(x)'
    BY <2>2, HandRefusedStays DEF DunningInv
  <2>. QED  BY <2>1, <2>3
<1>. QED  BY <1>1, <1>2 DEF RefusalsOK

\* Most steps leave nothing in hand that needs a reason.
LEMMA EmptyHand ==
  ASSUME NEW y, y.pc \notin {"reflect", "commit"}
  PROVE  HandRefused(y)
  BY DEF HandRefused

LEMMA DraftHand ==
  ASSUME NEW y, NEW s \in Subs, NEW draft, y.pc = "commit", y.sub = s, y.draft = draft,
         HasFailed(draft) => Refused(s)
  PROVE  HandRefused(y)
  BY DEF HandRefused
\* A batch begins with a list, and nothing else.
LEMMA ListRefusals ==
  ASSUME DunningInv, RefusalsStay, NEW w \in Workers, UNCHANGED <<subs, invs>>,
         ListDue(w) \/ ListUnsettled(w) \/ ListPastDue(w)
  PROVE  RefusalsOK'
<1>1. PICK batch \in Batches, q \in Seq(Subs \cup Keys) : StartBatch(w, batch, q)
  <2>1. ASSUME NEW S, NEW rank, NEW q \in Pages(S, rank), S \subseteq Subs \cup Keys
        PROVE  q \in Seq(Subs \cup Keys)
    BY <2>1, PagesAreLists
  <2>2. Due \subseteq Subs /\ PastDue \subseteq Subs /\ Unsettled \subseteq Keys
    BY DEF Due, PastDue, Unsettled
  <2>. QED  BY <2>1, <2>2 DEF ListDue, ListUnsettled, ListPastDue, Batches
<1>. DEFINE y == [Idle EXCEPT !.pc = batch, !.job = batch, !.todo = q]
<1>2. y \in Worker /\ y.pc = batch
  BY <1>1, BatchFields
<1>3. Goto(w, y)
  BY <1>1 DEF StartBatch
<1>. HIDE DEF y
<1>4. HandRefused(y)
  BY <1>2, EmptyHand DEF Batches
<1>. QED  BY <1>2, <1>3, <1>4, OwnRefusals

LEMMA RequestRefusals ==
  ASSUME DunningInv, RefusalsStay, NEW w \in Workers, UNCHANGED <<subs, invs>>, Request(w)
  PROVE  RefusalsOK'
<1>1. Idle \in Worker /\ \A s \in Subs : subs[s] \in Row
  BY IdleWorker DEF DunningInv, IInv, TypeOK
<1>2. ASSUME NEW s \in Subs, NEW plan \in Plans, NEW trial \in Trials,
             Subscribe(w, s, plan, trial)
      PROVE  FALSE
  <2>1. Subscribed(plan, now, trial) # NoRow
    BY DEF Subscribed, NoRow, None
  <2>. QED  BY <1>2, <2>1 DEF Subscribe, DunningInv, IInv, TypeOK
<1>3. ASSUME NEW s \in Subs, NEW plan \in Plans, NEW r \in Requests,
             ChangePlan(w, s, plan, r)
      PROVE  RefusalsOK'
  <2>. DEFINE issued == Issued(s, now)
              owes == OwesDifference(subs[s], plan, now)
              bill == IF owes THEN issued ELSE SettledWithoutPayment(issued)
              y == Issuing(Idle, s, PlanChanged(subs[s], plan), ChangeKey(r), bill)
  <2>1. now \in Nat
    BY BillingAssumption DEF DunningInv, IInv, TypeOK, Time
  <2>2. issued \in Bill /\ SettledWithoutPayment(issued) \in Bill
    BY <2>1, IssuedBill, BillTypes
  <2>3. bill \in Bill
    BY <2>2
  <2>4. ChangeKey(r) \in Keys
    BY KeysInKeys
  <2>5. PlanChanged(subs[s], plan) \in Row
    BY <1>1, DraftRows
  <2>6. Goto(w, y)
    BY <1>3 DEF ChangePlan
  <2>. HIDE DEF bill
  <2>7. y \in Worker /\ y.pc = "commit" /\ y.sub = s /\ y.draft = PlanChanged(subs[s], plan)
    BY <1>1, <2>3, <2>4, <2>5, SavingBillWorker, IssuingFields
  <2>8. HasFailed(PlanChanged(subs[s], plan)) => HasFailed(subs[s])
    BY <1>1, FailedRows
  <2>. HIDE DEF y
  <2>9. HandRefused(y)
    BY <2>7, <2>8, DraftHand DEF DunningInv, RefusalsOK
  <2>. QED  BY <2>6, <2>7, <2>9, OwnRefusals
<1>4. ASSUME NEW s \in Subs, NEW immediately \in BOOLEAN, Cancel(w, s, immediately)
      PROVE  RefusalsOK'
  <2>. DEFINE draft == Canceled(subs[s], immediately)
              y == Saving(Idle, s, draft)
  <2>1. draft \in Row /\ (HasFailed(draft) => HasFailed(subs[s]))
    BY <1>1, DraftRows, FailedRows
  <2>2. Goto(w, y)
    BY <1>4 DEF Cancel
  <2>. HIDE DEF draft
  <2>3. y \in Worker /\ y.pc = "commit" /\ y.sub = s /\ y.draft = draft
    BY <1>1, <2>1, SavingWorker, SavingFields
  <2>. HIDE DEF y
  <2>4. HandRefused(y)
    BY <2>1, <2>3, DraftHand DEF DunningInv, RefusalsOK
  <2>. QED  BY <2>2, <2>3, <2>4, OwnRefusals
<1>5. ASSUME NEW k \in Keys, RecordSuccess(w, k)
      PROVE  RefusalsOK'
  <2>. DEFINE s == invs[k].sub
              draft == PaymentSucceeded(subs[s])
              y == SavingBill(Idle, s, draft, k, MarkedPaid(invs[k]))
  <2>1. s \in Subs /\ invs[k] \in Bill
    BY <1>5, BillFacts DEF RecordSuccess, DunningInv, IInv
  <2>2. draft \in Row /\ ~HasFailed(draft)
    BY <1>1, <2>1, DraftRows, FailedRows
  <2>3. Goto(w, y) /\ MarkedPaid(invs[k]) \in Bill
    BY <1>5, <2>1, BillTypes DEF RecordSuccess
  <2>. HIDE DEF draft
  <2>4. y \in Worker /\ y.pc = "commit" /\ y.sub = s /\ y.draft = draft
    BY <1>1, <2>1, <2>2, <2>3, SavingBillWorker, SavingBillFields
  <2>. HIDE DEF y
  <2>5. HandRefused(y)
    BY <2>1, <2>2, <2>4, DraftHand
  <2>. QED  BY <2>3, <2>4, <2>5, OwnRefusals
<1>6. ASSUME NEW k \in Keys, RecordFailure(w, k)
      PROVE  RefusalsOK'
  <2>. DEFINE s == invs[k].sub
              draft == IF IsSettled(invs[k]) THEN subs[s] ELSE PaymentFailed(subs[s], now)
              y == SavingBill(Idle, s, draft, k, invs[k])
  <2>1. s \in Subs /\ invs[k] \in Bill /\ now \in Nat
    BY <1>6, BillFacts, BillingAssumption DEF RecordFailure, DunningInv, IInv, TypeOK, Time
  <2>2. PaymentFailed(subs[s], now) \in Row
    BY <1>1, <2>1, DraftRows
  <2>3. draft \in Row
    BY <1>1, <2>1, <2>2
  <2>4. Refused(s)
    BY <1>6 DEF RecordFailure, Refused
  <2>5. Goto(w, y)
    BY <1>6 DEF RecordFailure
  <2>. HIDE DEF draft
  <2>6. y \in Worker /\ y.pc = "commit" /\ y.sub = s /\ y.draft = draft
    BY <1>1, <2>1, <2>3, SavingBillWorker, SavingBillFields
  <2>. HIDE DEF y
  <2>7. HandRefused(y)
    BY <2>1, <2>4, <2>6, DraftHand
  <2>. QED  BY <2>5, <2>6, <2>7, OwnRefusals
<1>7. CASE ListDue(w) \/ ListUnsettled(w)
  BY <1>7, ListRefusals
<1>. QED  BY <1>2, <1>3, <1>4, <1>5, <1>6, <1>7 DEF Request

LEMMA GiveUpRefusals ==
  ASSUME DunningInv, RefusalsStay, NEW w \in Workers, subs' = subs,
         CommitRaises(w) \/ ReflectRaises(w) \/ RenewRaises(w) \/ EndBatch(w) \/ Crash(w)
  PROVE  RefusalsOK'
<1>1. Goto(w, Idle)
  BY DEF CommitRaises, ReflectRaises, RenewRaises, EndBatch, Crash
<1>2. Idle \in Worker /\ HandRefused(Idle)
  BY IdleWorker, EmptyHand DEF Idle
<1>. QED  BY <1>1, <1>2, OwnRefusals

LEMMA ReflectRefusals ==
  ASSUME DunningInv, RefusalsStay, NEW w \in Workers, subs' = subs, Reflect(w)
  PROVE  RefusalsOK'
<1>. DEFINE x == wk[w]
            k == x.key
            s == invs[k].sub
            good == SavingBill(x, s, PaymentSucceeded(subs[s]), k, MarkedPaid(invs[k]))
            bad  == SavingBill(x, s, PaymentFailed(subs[s], now), k, invs[k])
<1>1. /\ x \in Worker /\ k \in Keys /\ Exists(invs[k])
      /\ x.pc = "reflect" /\ x.answer \in {"succeeded", "declined"}
      /\ HandRefused(x)
  BY HandFacts DEF Reflect, HandOK, Chargeable, Exists, DunningInv, RefusalsOK
<1>2. s \in Subs /\ invs[k] \in Bill /\ MarkedPaid(invs[k]) \in Bill
  BY <1>1, BillFacts, BillTypes DEF DunningInv, IInv
<1>3. subs[s] \in Row /\ now \in Nat
  BY <1>2, BillingAssumption DEF DunningInv, IInv, TypeOK, Time
<1>4. CASE x.answer = "succeeded"
  <2>1. PaymentSucceeded(subs[s]) \in Row /\ ~HasFailed(PaymentSucceeded(subs[s]))
    BY <1>3, DraftRows, FailedRows
  <2>2. Goto(w, good)
    BY <1>4 DEF Reflect
  <2>3. /\ good \in Worker /\ good.pc = "commit" /\ good.sub = s
        /\ good.draft = PaymentSucceeded(subs[s])
    BY <1>1, <1>2, <2>1, SavingBillWorker, SavingBillFields
  <2>. HIDE DEF good
  <2>4. HandRefused(good)
    BY <1>2, <2>1, <2>3, DraftHand
  <2>. QED  BY <2>2, <2>3, <2>4, OwnRefusals
<1>5. CASE x.answer = "declined"
  <2>1. PaymentFailed(subs[s], now) \in Row
    BY <1>3, DraftRows
  <2>2. Goto(w, bad)
    BY <1>5 DEF Reflect
  <2>3. /\ bad \in Worker /\ bad.pc = "commit" /\ bad.sub = s
        /\ bad.draft = PaymentFailed(subs[s], now)
    BY <1>1, <1>2, <2>1, SavingBillWorker, SavingBillFields
  <2>4. Refused(s)
    BY <1>1, <1>5 DEF HandRefused, Refused
  <2>. HIDE DEF bad
  <2>5. HandRefused(bad)
    BY <1>2, <2>3, <2>4, DraftHand
  <2>. QED  BY <2>2, <2>3, <2>5, OwnRefusals
<1>. QED  BY <1>1, <1>4, <1>5

LEMMA SettleRefusals ==
  ASSUME DunningInv, RefusalsStay, NEW w \in Workers, subs' = subs, SettleOne(w)
  PROVE  RefusalsOK'
<1>. DEFINE x == [wk[w] EXCEPT !.todo = Tail(@)]
            k == Head(wk[w].todo)
            y == Charging(x, k)
<1>1. wk[w] \in Worker /\ ListOK(wk[w]) /\ wk[w].todo # <<>> /\ wk[w].job = "settle"
  BY HandFacts DEF SettleOne, HandOK, Batches, DunningInv
<1>2. x \in Worker /\ k \in Keys
  BY <1>1, TailList
<1>3. Goto(w, y)
  BY DEF SettleOne
<1>. HIDE DEF x
<1>4. y \in Worker /\ y.pc = "charge"
  BY <1>2, ChargingWorker, ChargingFields
<1>. HIDE DEF y
<1>5. HandRefused(y)
  BY <1>4, EmptyHand
<1>. QED  BY <1>3, <1>4, <1>5, OwnRefusals

LEMMA ExpireRefusals ==
  ASSUME DunningInv, RefusalsStay, NEW w \in Workers, subs' = subs, ExpireOne(w)
  PROVE  RefusalsOK'
<1>. DEFINE x == [wk[w] EXCEPT !.todo = Tail(@)]
            s == Head(wk[w].todo)
            over == GraceOver(subs[s], now)
            y == Saving(x, s, Expired(subs[s]))
<1>1. /\ wk[w] \in Worker /\ ListOK(wk[w]) /\ wk[w].todo # <<>>
      /\ wk[w].job = "expire" /\ wk[w].pc = "expire"
  BY HandFacts DEF ExpireOne, HandOK, Batches, DunningInv
<1>2. x \in Worker /\ x.pc = "expire" /\ s \in Subs
  BY <1>1, TailList
<1>3. Goto(w, IF over THEN y ELSE x)
  BY DEF ExpireOne
<1>4. Expired(subs[s]) \in Row /\ (HasFailed(Expired(subs[s])) => Refused(s))
  <2>1. subs[s] \in Row
    BY <1>2 DEF DunningInv, IInv, TypeOK
  <2>2. HasFailed(subs[s]) => Refused(s)
    BY <1>2 DEF DunningInv, RefusalsOK
  <2>. HIDE DEF s
  <2>. QED  BY <2>1, <2>2, DraftRows, FailedRows
<1>. HIDE DEF x
<1>5. y \in Worker /\ y.pc = "commit" /\ y.sub = s /\ y.draft = Expired(subs[s])
  BY <1>2, <1>4, SavingWorker, SavingFields
<1>6. HandRefused(x)
  BY <1>2, EmptyHand
<1>. HIDE DEF y
<1>7. HandRefused(y)
  BY <1>2, <1>4, <1>5, DraftHand
<1>. HIDE DEF over
<1>8. CASE over
  BY <1>3, <1>5, <1>7, <1>8, OwnRefusals
<1>9. CASE ~over
  BY <1>2, <1>3, <1>6, <1>9, OwnRefusals
<1>. QED  BY <1>8, <1>9

LEMMA RenewRefusals ==
  ASSUME DunningInv, RefusalsStay, NEW w \in Workers, subs' = subs, RenewOne(w)
  PROVE  RefusalsOK'
<1>. DEFINE x == [wk[w] EXCEPT !.todo = Tail(@)]
            s == Head(wk[w].todo)
            row == subs[s]
            k == RenewKey(s, row.end)
            ends == Saving(x, s, Renewed(row))
            again == [Saving(x, s, Renewed(row)) EXCEPT !.key = k, !.pays = TRUE]
            bills == Issuing(x, s, Renewed(row), k, Issued(s, now))
<1>1. /\ wk[w] \in Worker /\ ListOK(wk[w]) /\ wk[w].todo # <<>> /\ wk[w].job = "renew"
  BY HandFacts DEF RenewOne, HandOK, Batches, DunningInv
<1>2. x \in Worker /\ s \in Subs
  BY <1>1, TailList
<1>3. /\ IsDue(row, now) /\ row \in Row /\ row.plan \in Plans /\ now \in Time /\ now \in Nat
  BY <1>2, RowFacts, BillingAssumption
     DEF RenewOne, IsDue, Live, None, DunningInv, IInv, TypeOK, Time
<1>4. Renewed(row) \in Row /\ (HasFailed(Renewed(row)) => Refused(s))
  BY <1>2, <1>3, DraftRows, FailedRows DEF DunningInv, RefusalsOK
<1>5. k \in Keys
  <2>1. row.end \in Time
    BY <1>3, BillingAssumption DEF IsDue, Row, Time
  <2>. QED  BY <1>2, <2>1, KeysInKeys
<1>6. Issued(s, now) \in Bill
  BY <1>2, <1>3, IssuedBill
<1>7. \/ Goto(w, ends) \/ Goto(w, again) \/ Goto(w, bills)
  BY DEF RenewOne
<1>. HIDE DEF x, row, k
<1>8. ends \in Worker /\ ends.pc = "commit" /\ ends.sub = s /\ ends.draft = Renewed(row)
  BY <1>2, <1>4, SavingWorker, SavingFields
<1>9. again \in Worker /\ again.pc = "commit" /\ again.sub = s /\ again.draft = Renewed(row)
  <2>1. \A z \in Worker : LET y == [z EXCEPT !.key = k, !.pays = TRUE] IN
          y \in Worker /\ y.pc = z.pc /\ y.sub = z.sub /\ y.draft = z.draft
    BY <1>5 DEF Worker
  <2>. QED  BY <1>8, <2>1
<1>10. bills \in Worker /\ bills.pc = "commit" /\ bills.sub = s /\ bills.draft = Renewed(row)
  BY <1>2, <1>4, <1>5, <1>6, SavingBillWorker, IssuingFields
<1>. HIDE DEF ends, again, bills
<1>11. HandRefused(ends) /\ HandRefused(again) /\ HandRefused(bills)
  BY <1>2, <1>4, <1>8, <1>9, <1>10, DraftHand
<1>. QED  BY <1>7, <1>8, <1>9, <1>10, <1>11, OwnRefusals


----------------------------------------------------------------------------
(* Steps at the provider *)

LEMMA AnswerRefusals ==
  ASSUME DunningInv, RefusalsStay, NEW w \in Workers, subs' = subs, GatewayAnswers(w)
  PROVE  RefusalsOK'
<1>. DEFINE x == wk[w]
<1>1. /\ x \in Worker /\ x.key \in Keys /\ provider \in [Keys -> Outcome]
  BY HandFacts DEF GatewayAnswers, HandOK, DunningInv, IInv, TypeOK
<1>2. PICK outcome \in Outcomes(x.key) :
        /\ provider' = [provider EXCEPT ![x.key] = outcome]
        /\ Goto(w, [x EXCEPT !.pc = "reflect",
                     !.answer = IF outcome = "succeeded" THEN outcome ELSE "declined"])
  BY DEF GatewayAnswers
<1>. DEFINE answer == IF outcome = "succeeded" THEN outcome ELSE "declined"
            y == [x EXCEPT !.pc = "reflect", !.answer = answer]
<1>3. answer \in {"succeeded", "declined"} /\ (answer = "declined" => outcome # "succeeded")
  OBVIOUS
<1>4. outcome \in Outcome \ {"none"} /\ provider'[x.key] = outcome
  BY <1>1, <1>2, OutcomeFacts DEF DunningInv
<1>5. Goto(w, y)
  BY <1>2
<1>. HIDE DEF answer
<1>6. y \in Worker /\ y.pc = "reflect" /\ y.answer = answer /\ y.key = x.key
  BY <1>1, <1>3 DEF Worker
<1>. HIDE DEF y
<1>7. wk'[w] = y /\ \A v \in Workers : v # w => wk'[v] = wk[v]
  BY <1>5 DEF Goto, DunningInv, IInv, TypeOK
<1>8. ASSUME NEW v \in Workers
      PROVE  HandRefused(wk[v])'
  <2>1. PICK z : z = wk'[v]
    OBVIOUS
  <2>2. CASE v = w
    <3>1. z.pc = "reflect" /\ (z.answer = "declined" => z.key \in Keys /\ Declined(z.key)')
      BY <1>1, <1>3, <1>4, <1>6, <1>7, <2>1, <2>2 DEF Declined, Outcome
    <3>2. HandRefused(z)'
      BY <3>1 DEF HandRefused
    <3>. QED  BY <2>1, <3>2
  <2>3. CASE v # w
    <3>1. HandRefused(z)
      BY <1>7, <2>1, <2>3 DEF DunningInv, RefusalsOK
    <3>2. HandRefused(z)'
      BY <3>1, HandRefusedStays DEF DunningInv
    <3>. QED  BY <2>1, <3>2
  <2>. QED  BY <2>2, <2>3
<1>9. \A s \in Subs : HasFailed(subs'[s]) => Refused(s)'
  BY RefusedStays DEF DunningInv, RefusalsOK
<1>. QED  BY <1>8, <1>9 DEF RefusalsOK

LEMMA UnreachableRefusals ==
  ASSUME DunningInv, RefusalsStay, NEW w \in Workers, subs' = subs, GatewayUnreachable(w)
  PROVE  RefusalsOK'
<1>. DEFINE y == Resume(wk[w])
<1>1. wk[w] \in Worker /\ Goto(w, y)
  BY HandFacts DEF GatewayUnreachable, DunningInv
<1>2. y \in Worker /\ y.pc \notin {"reflect", "commit"}
  BY <1>1, ResumeWorker, ResumeFields DEF Worker, Batches, None
<1>. HIDE DEF y
<1>. QED  BY <1>1, <1>2, EmptyHand, OwnRefusals

\* Nobody's hands move.
LEMMA IdleRefusals ==
  ASSUME DunningInv, RefusalsStay, subs' = subs, wk' = wk
  PROVE  RefusalsOK'
<1>1. ASSUME NEW v \in Workers
      PROVE  HandRefused(wk[v])'
  <2>1. PICK z : z = wk[v]
    OBVIOUS
  <2>2. HandRefused(z)'
    BY <2>1, HandRefusedStays DEF DunningInv, RefusalsOK
  <2>. QED  BY <2>1, <2>2
<1>2. \A s \in Subs : HasFailed(subs'[s]) => Refused(s)'
  BY RefusedStays DEF DunningInv, RefusalsOK
<1>. QED  BY <1>1, <1>2 DEF RefusalsOK

----------------------------------------------------------------------------
(* Steps that save *)

LEMMA SubscribeRefusals ==
  ASSUME DunningInv, RefusalsStay, NEW w \in Workers, NEW s \in Subs, NEW plan \in Plans,
         NEW trial \in Trials, Subscribe(w, s, plan, trial)
  PROVE  RefusalsOK'
<1>. DEFINE row == Subscribed(plan, now, trial)
<1>1. ~HasFailed(row) /\ subs' = [subs EXCEPT ![s] = row] /\ subs \in [Subs -> Row]
  BY DEF HasFailed, Subscribed, Subscribe, DunningInv, IInv, TypeOK
<1>. HIDE DEF row
<1>2. \A z \in Subs : HasFailed(subs'[z]) => Refused(z)'
  BY <1>1, RefusedStays DEF DunningInv, RefusalsOK
<1>3. ASSUME NEW v \in Workers
      PROVE  HandRefused(wk[v])'
  <2>1. PICK z : z = wk'[v]
    OBVIOUS
  <2>. DEFINE y == Charging(Idle, InitialKey(s))
  <2>2. y.pc = "charge"
    BY IdleWorker, KeysInKeys, ChargingFields
  <2>. HIDE DEF y
  <2>3. wk'[v] = wk[v] \/ wk'[v] = y
    BY DEF Subscribe, Goto, DunningInv, IInv, TypeOK, y
  <2>4. HandRefused(z)
    BY <2>1, <2>2, <2>3, EmptyHand DEF DunningInv, RefusalsOK
  <2>5. HandRefused(z)'
    BY <2>4, HandRefusedStays DEF DunningInv
  <2>. QED  BY <2>1, <2>5
<1>. QED  BY <1>2, <1>3 DEF RefusalsOK

LEMMA CommitRefusals ==
  ASSUME DunningInv, RefusalsStay, NEW w \in Workers, Commit(w)
  PROVE  RefusalsOK'
<1>. DEFINE x == wk[w]
<1>1. /\ x \in Worker /\ x.sub \in Subs /\ subs'[x.sub] = x.draft /\ x.pc = "commit"
      /\ \A s \in Subs : s # x.sub => subs'[s] = subs[s]
      /\ x.adds => x.key \in Keys
  BY CommitFacts DEF Commit, DunningInv
<1>2. \A s \in Subs : HasFailed(subs'[s]) => Refused(s)
  BY <1>1 DEF DunningInv, RefusalsOK, HandRefused
<1>3. \A s \in Subs : HasFailed(subs'[s]) => Refused(s)'
  BY <1>2, RefusedStays DEF DunningInv
<1>4. ASSUME NEW v \in Workers
      PROVE  HandRefused(wk[v])'
  <2>1. PICK z : z = wk'[v]
    OBVIOUS
  <2>2. CASE v = w
    <3>1. x.pays => x.key \in Keys
      BY HandFacts, <1>1 DEF HandOK, Commit, Conflicts, Drafted, EndsIt, Bills, Reflects, DunningInv
    <3>2. AfterCommit(x).pc \notin {"reflect", "commit"}
      BY <1>1, <3>1, ChargingFields, ResumeFields DEF AfterCommit, Worker, Batches, None
    <3>3. wk'[w] = AfterCommit(x)
      BY DEF Commit
    <3>. QED  BY <2>2, <3>2, <3>3 DEF HandRefused
  <2>3. CASE v # w
    <3>1. PICK y : y = wk[v]
      OBVIOUS
    <3>2. y \in Worker /\ HandRefused(y)
      BY <3>1 DEF DunningInv, RefusalsOK, IInv, TypeOK
    <3>3. z = y \/ z = [y EXCEPT !.stale = TRUE]
      BY <2>1, <2>3, <3>1 DEF Commit
    <3>4. /\ z.pc = y.pc /\ z.answer = y.answer /\ z.key = y.key
          /\ z.sub = y.sub /\ z.draft = y.draft
      BY <3>2, <3>3 DEF Worker
    <3>5. HandRefused(z)
      BY <3>2, <3>4 DEF HandRefused
    <3>6. HandRefused(z)'
      BY <3>5, HandRefusedStays DEF DunningInv
    <3>. QED  BY <2>1, <3>6
  <2>. QED  BY <2>2, <2>3
<1>. QED  BY <1>3, <1>4 DEF RefusalsOK

----------------------------------------------------------------------------
(* The invariant *)

LEMMA NextRefusals ==
  ASSUME DunningInv, [Next]_vars
  PROVE  DunningInv'
<1>1. IInv' /\ RefusalsStay
  BY NextIInv, StepKeepsRefusals DEF DunningInv
<1>2. CASE Tick \/ UNCHANGED vars
  BY <1>1, <1>2, IdleRefusals DEF Tick, vars, DunningInv
<1>3. ASSUME NEW k \in Keys, Recover(k)
      PROVE  RefusalsOK'
  BY <1>1, <1>3, IdleRefusals DEF Recover
<1>4. ASSUME NEW w \in Workers, Request(w)
      PROVE  RefusalsOK'
  <2>1. CASE \E s \in Subs, plan \in Plans, trial \in Trials : Subscribe(w, s, plan, trial)
    BY <1>1, <2>1, SubscribeRefusals
  <2>2. CASE ~ \E s \in Subs, plan \in Plans, trial \in Trials : Subscribe(w, s, plan, trial)
    <3>1. UNCHANGED <<subs, invs>>
      BY <1>4, <2>2 DEF Request, ChangePlan, Cancel, RecordSuccess, RecordFailure, ListDue,
                        ListUnsettled
    <3>. QED  BY <1>1, <1>4, <3>1, RequestRefusals
  <2>. QED  BY <2>1, <2>2
<1>5. ASSUME NEW w \in Workers, Proceed(w) \/ Crash(w)
      PROVE  RefusalsOK'
  <2>1. subs' = subs /\ invs' = invs
    BY <1>5 DEF Proceed, CommitRaises, Reflect, ReflectRaises, RenewOne, RenewRaises,
                ListPastDue, ExpireOne, SettleOne, EndBatch, Crash
  <2>. QED  BY <1>1, <1>5, <2>1, GiveUpRefusals, ReflectRefusals, RenewRefusals,
               ListRefusals, ExpireRefusals, SettleRefusals DEF Proceed
<1>6. ASSUME NEW w \in Workers, GatewayAnswers(w) \/ GatewayUnreachable(w)
      PROVE  RefusalsOK'
  <2>1. subs' = subs
    BY <1>6 DEF GatewayAnswers, GatewayUnreachable
  <2>. QED  BY <1>1, <1>6, <2>1, AnswerRefusals, UnreachableRefusals
<1>7. ASSUME NEW w \in Workers, Commit(w)
      PROVE  RefusalsOK'
  BY <1>1, <1>7, CommitRefusals
<1>. QED  BY <1>1, <1>2, <1>3, <1>4, <1>5, <1>6, <1>7 DEF Next, DunningInv

LEMMA InitRefusals ==
  ASSUME Init
  PROVE  DunningInv
<1>1. RefusalsOK
  BY EmptyHand DEF Init, RefusalsOK, HasFailed, NoRow, None, Idle
<1>. QED  BY <1>1, InitIInv DEF DunningInv

LEMMA DunningInductive == Spec => []DunningInv
  BY InitRefusals, NextRefusals, PTL DEF Spec

\* Nobody is past due, and so canceled when the grace period is over, unless the
\* provider refused the money for one of its invoices; and if that invoice has
\* been paid since, it is because the provider recovered the charge.
THEOREM DunningHasAReason == Spec => []PastDueOwesDeclined
<1>1. DunningInv => PastDueOwesDeclined
  <2>. SUFFICES ASSUME DunningInv, NEW s \in Subs, subs[s].status = "past_due"
                PROVE  \E k \in Keys : /\ invs[k].sub = s /\ Declined(k)
                                       /\ invs[k].status = "open" \/ provider[k] = "recovered"
    BY DEF PastDueOwesDeclined
  <2>1. PICK k \in Keys : invs[k].sub = s /\ Declined(k)
    BY DEF DunningInv, RefusalsOK, Refused, HasFailed
  <2>2. invs[k].status \in {"open", "paid"}
    BY <2>1 DEF DunningInv, IInv, StoreOK, MoneyMatchesInvoices, Declined
  <2>3. invs[k].status = "paid" => provider[k] = "recovered"
    BY <2>1 DEF DunningInv, IInv, StoreOK, MoneyMatchesInvoices, Declined, Collected
  <2>. QED  BY <2>1, <2>2, <2>3
<1>. QED  BY <1>1, DunningInductive, PTL
=============================================================================
