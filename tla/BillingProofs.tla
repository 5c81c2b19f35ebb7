--------------------------- MODULE BillingProofs ---------------------------
(***************************************************************************)
(* Proofs about Billing, for any plans, workers, requests and bounds: IInv *)
(* is inductive, and what follows from it.                                 *)
(***************************************************************************)
EXTENDS BillingInductive, TLAPS, SequenceTheorems

----------------------------------------------------------------------------
(* Rows *)

LEMMA NoRowType == NoRow \in Row /\ NoBill \in Bill
  BY DEF NoRow, NoBill, Row, Bill, None, Never, Live, Settled

LEMMA SubscribedRow ==
  ASSUME NEW plan \in Plans, NEW at \in Nat, NEW trial \in Nat
  PROVE  LET row == Subscribed(plan, at, trial) IN
         /\ row \in Row
         /\ row.status = IF trial = 0 THEN "active" ELSE "trialing"
         /\ row.plan = plan /\ row.start = at /\ at < row.end
<1>. DEFINE length == IF trial = 0 THEN Interval[plan] ELSE trial
<1>1. length \in Nat /\ length > 0
  BY PlansAssumption
<1>2. at + length \in Nat /\ at < at + length
  BY <1>1
<1>3. Subscribed(plan, at, trial) =
        [status |-> IF trial = 0 THEN "active" ELSE "trialing", plan |-> plan,
         start |-> at, end |-> at + length, cancelAtEnd |-> FALSE, since |-> Never]
  BY Zenon DEF Subscribed
<1>. HIDE DEF length
<1>. QED  BY <1>2, <1>3 DEF Row, None, Never, Live

LEMMA DraftRows ==
  ASSUME NEW row \in Row
  PROVE  /\ \A b \in BOOLEAN : Canceled(row, b) \in Row
         /\ \A plan \in Plans : PlanChanged(row, plan) \in Row
         /\ \A at \in Nat : PaymentFailed(row, at) \in Row
         /\ PaymentSucceeded(row) \in Row
         /\ Expired(row) \in Row
         /\ row.plan \in Plans => Renewed(row) \in Row
<1>1. \A b \in BOOLEAN : Canceled(row, b) \in Row
  BY DEF Canceled, Row, Live
<1>2. \A plan \in Plans : PlanChanged(row, plan) \in Row
  BY DEF PlanChanged, Row
<1>3. \A at \in Nat : PaymentFailed(row, at) \in Row
  BY DEF PaymentFailed, Row, Live
<1>4. PaymentSucceeded(row) \in Row
  BY DEF PaymentSucceeded, Row, Live
<1>5. Expired(row) \in Row
  BY DEF Expired, Row
<1>6. row.plan \in Plans => Renewed(row) \in Row
  <2>1. CASE Renews(row)
    <3>1. row.plan \in Plans => row.end + Interval[row.plan] \in Nat
      BY PlansAssumption DEF Row
    <3>. QED  BY <2>1, <3>1 DEF Renewed, Row, Live
  <2>2. CASE ~Renews(row)
    BY <2>2 DEF Renewed, Row
  <2>. QED  BY <2>1, <2>2
<1>. QED  BY <1>1, <1>2, <1>3, <1>4, <1>5, <1>6

LEMMA BillTypes ==
  ASSUME NEW bill \in Bill
  PROVE  MarkedPaid(bill) \in Bill /\ SettledWithoutPayment(bill) \in Bill
  BY DEF MarkedPaid, SettledWithoutPayment, Bill, Settled

LEMMA IssuedBill ==
  ASSUME NEW s \in Subs, NEW at \in Nat
  PROVE  Issued(s, at) \in Bill
  BY DEF Issued, Bill

----------------------------------------------------------------------------
(* Keys *)

LEMMA KeysInKeys ==
  /\ \A s \in Subs : InitialKey(s) \in Keys
  /\ \A s \in Subs, t \in Time : RenewKey(s, t) \in Keys
  /\ \A r \in Requests : ChangeKey(r) \in Keys
  BY DEF InitialKey, RenewKey, ChangeKey, Keys

LEMMA KeyParts ==
  /\ \A s : InitialKey(s)[1] = "initial" /\ InitialKey(s)[2] = s
  /\ \A s, t : RenewKey(s, t)[1] = "renew" /\ RenewKey(s, t)[2] = s /\ RenewKey(s, t)[3] = t
  /\ \A r : ChangeKey(r)[1] = "change"
  BY DEF InitialKey, RenewKey, ChangeKey

----------------------------------------------------------------------------
(* Workers *)

LEMMA IdleWorker == Idle \in Worker
  BY NoRowType DEF Idle, Worker, Batches, None

LEMMA ResumeWorker ==
  ASSUME NEW x \in Worker
  PROVE  Resume(x) \in Worker
  BY IdleWorker DEF Resume, Idle, Worker, Batches

LEMMA ChargingWorker ==
  ASSUME NEW x \in Worker, NEW k \in Keys
  PROVE  Charging(x, k) \in Worker
  BY ResumeWorker DEF Charging, Worker

LEMMA SavingWorker ==
  ASSUME NEW x \in Worker, NEW s \in Subs, NEW draft \in Row
  PROVE  Saving(x, s, draft) \in Worker
  BY ResumeWorker DEF Saving, Worker

LEMMA SavingBillWorker ==
  ASSUME NEW x \in Worker, NEW s \in Subs, NEW draft \in Row,
         NEW k \in Keys, NEW bill \in Bill
  PROVE  /\ SavingBill(x, s, draft, k, bill) \in Worker
         /\ Issuing(x, s, draft, k, bill) \in Worker
<1>1. \A y \in Worker : [y EXCEPT !.key = k, !.bill = bill] \in Worker
  BY DEF Worker
<1>2. SavingBill(x, s, draft, k, bill) \in Worker
  BY <1>1, SavingWorker DEF SavingBill
<1>3. \A y \in Worker, b \in BOOLEAN : [y EXCEPT !.adds = TRUE, !.pays = b] \in Worker
  BY DEF Worker
<1>. QED  BY <1>2, <1>3 DEF Issuing

\* Back to the batch x was in, or out of a request.
Returns(y, x) ==
  /\ y.job = x.job
  /\ y.todo = IF x.job = None THEN <<>> ELSE x.todo

\* What the constructors of a worker's next state set.
LEMMA ResumeFields ==
  ASSUME NEW x \in Worker
  PROVE  LET y == Resume(x) IN
         /\ y.pc = IF x.job = None THEN "idle" ELSE x.job
         /\ Returns(y, x)
         /\ y.sub = None /\ y.key = NoKey /\ y.draft = NoRow /\ y.bill = NoBill
         /\ ~y.adds /\ ~y.pays /\ y.answer = None /\ ~y.stale
  BY DEF Returns, Resume, Idle, Worker

LEMMA ChargingFields ==
  ASSUME NEW x \in Worker, NEW k \in Keys
  PROVE  LET y == Charging(x, k) IN
         /\ y.pc = "charge" /\ y.key = k
         /\ Returns(y, x)
<1>1. \A z \in Worker : LET y == [z EXCEPT !.pc = "charge", !.key = k] IN
        y.pc = "charge" /\ y.key = k /\ y.job = z.job /\ y.todo = z.todo
  BY DEF Worker
<1>. QED  BY <1>1, ResumeWorker, ResumeFields DEF Charging, Returns

LEMMA SavingFields ==
  ASSUME NEW x \in Worker, NEW s \in Subs, NEW draft \in Row
  PROVE  LET y == Saving(x, s, draft) IN
         /\ y.pc = "commit" /\ y.sub = s /\ y.draft = draft
         /\ Returns(y, x)
         /\ y.bill = NoBill
         /\ ~y.adds /\ ~y.pays /\ ~y.stale
<1>1. \A z \in Worker :
        LET y == [z EXCEPT !.pc = "commit", !.sub = s, !.draft = draft] IN
        /\ y.pc = "commit" /\ y.sub = s /\ y.draft = draft
        /\ y.job = z.job /\ y.todo = z.todo /\ y.bill = z.bill
        /\ y.adds = z.adds /\ y.pays = z.pays /\ y.stale = z.stale
  BY DEF Worker
<1>. QED  BY <1>1, ResumeWorker, ResumeFields DEF Saving, Returns

LEMMA SavingBillFields ==
  ASSUME NEW x \in Worker, NEW s \in Subs, NEW draft \in Row,
         NEW k \in Keys, NEW bill \in Bill
  PROVE  LET y == SavingBill(x, s, draft, k, bill) IN
         /\ y.pc = "commit" /\ y.sub = s /\ y.draft = draft
         /\ y.key = k /\ y.bill = bill
         /\ Returns(y, x)
         /\ ~y.adds /\ ~y.pays /\ ~y.stale
<1>1. \A v \in Worker : LET y == [v EXCEPT !.key = k, !.bill = bill] IN
        /\ y.pc = v.pc /\ y.sub = v.sub /\ y.draft = v.draft
        /\ y.key = k /\ y.bill = bill
        /\ y.job = v.job /\ y.todo = v.todo
        /\ y.adds = v.adds /\ y.pays = v.pays /\ y.stale = v.stale
  BY DEF Worker
<1>. DEFINE v == Saving(x, s, draft)
<1>2. v \in Worker
  BY SavingWorker
<1>3. /\ v.pc = "commit" /\ v.sub = s /\ v.draft = draft
      /\ Returns(v, x)
      /\ ~v.adds /\ ~v.pays /\ ~v.stale
  BY SavingFields, Zenon
<1>4. SavingBill(x, s, draft, k, bill) = [v EXCEPT !.key = k, !.bill = bill]
  BY Zenon DEF SavingBill
<1>. HIDE DEF v
<1>. QED  BY <1>1, <1>2, <1>3, <1>4 DEF Returns

LEMMA IssuingFields ==
  ASSUME NEW x \in Worker, NEW s \in Subs, NEW draft \in Row,
         NEW k \in Keys, NEW bill \in Bill
  PROVE  LET y == Issuing(x, s, draft, k, bill) IN
         /\ y.pc = "commit" /\ y.sub = s /\ y.draft = draft
         /\ y.key = k /\ y.bill = bill
         /\ Returns(y, x)
         /\ y.adds
         /\ bill.status = "open" => y.pays
         /\ bill.status # "open" => ~y.pays
<1>. DEFINE v == SavingBill(x, s, draft, k, bill)
            owes == bill.status = "open"
<1>1. /\ v.pc = "commit" /\ v.sub = s /\ v.draft = draft
      /\ v.key = k /\ v.bill = bill
      /\ Returns(v, x)
  BY SavingBillFields
<1>2. v \in Worker /\ owes \in BOOLEAN
  BY SavingBillWorker
<1>3. Issuing(x, s, draft, k, bill) = [v EXCEPT !.adds = TRUE, !.pays = owes]
  BY Zenon DEF Issuing
<1>4. (bill.status = "open" => owes = TRUE) /\ (bill.status # "open" => owes = FALSE)
  OBVIOUS
<1>. HIDE DEF v, owes
<1>5. LET y == [v EXCEPT !.adds = TRUE, !.pays = owes] IN
      /\ y.pc = v.pc /\ y.sub = v.sub /\ y.draft = v.draft
      /\ y.key = v.key /\ y.bill = v.bill
      /\ y.job = v.job /\ y.todo = v.todo
      /\ y.adds /\ y.pays = owes
  BY <1>2 DEF Worker
<1>. QED  BY <1>1, <1>3, <1>4, <1>5 DEF Returns

----------------------------------------------------------------------------
(* What is in a worker's hands *)

LEMMA ListFields ==
  ASSUME NEW x, NEW y, ListOK(x),
         Returns(y, x)
  PROVE  ListOK(y)
  BY DEF ListOK, Returns, None

LEMMA ResumeHand ==
  ASSUME NEW x \in Worker, ListOK(x)
  PROVE  HandOK(Resume(x))
<1>. DEFINE y == Resume(x)
<1>1. /\ y.pc = IF x.job = None THEN "idle" ELSE x.job
      /\ Returns(y, x)
  BY ResumeFields
<1>2. x.job \in Batches \cup {None}
  BY DEF Worker
<1>. HIDE DEF y
<1>3. ListOK(y)
  BY <1>1, ListFields
<1>4. HandOK(y)
  BY <1>1, <1>2, <1>3 DEF HandOK, Returns, Batches, None
<1>. QED  BY <1>4 DEF y

LEMMA ChargingHand ==
  ASSUME NEW x \in Worker, ListOK(x), x.job # "expire",
         NEW k \in Keys, Chargeable(invs[k])
  PROVE  HandOK(Charging(x, k))
<1>. DEFINE y == Charging(x, k)
<1>1. /\ y.pc = "charge" /\ y.key = k
      /\ Returns(y, x)
  BY ChargingFields
<1>. HIDE DEF y
<1>2. ListOK(y)
  BY <1>1, ListFields
<1>3. HandOK(y)
  BY <1>1, <1>2 DEF HandOK, Returns, Batches
<1>. QED  BY <1>3 DEF y

LEMMA DraftedHand ==
  ASSUME NEW x, NEW y, ListOK(x),
         y.pc = "commit", y.sub \in Subs, Drafted(y),
         Returns(y, x)
  PROVE  HandOK(y)
<1>1. ListOK(y)
  BY ListFields
<1>. QED  BY <1>1 DEF HandOK, Batches

LEMMA TailList ==
  ASSUME NEW x \in Worker, ListOK(x), x.todo # <<>>
  PROVE  LET y == [x EXCEPT !.todo = Tail(@)] IN
         /\ y \in Worker /\ ListOK(y)
         /\ y.job = x.job /\ y.pc = x.pc
         /\ x.job \in {"renew", "expire"} => Head(x.todo) \in Subs
         /\ x.job = "settle" => Head(x.todo) \in Keys /\ Chargeable(invs[Head(x.todo)])
<1>. DEFINE y == [x EXCEPT !.todo = Tail(@)]
<1>1. x.todo \in Seq(Subs \cup Keys)
  BY DEF Worker
<1>2. /\ Tail(x.todo) \in Seq(Subs \cup Keys)
      /\ Head(x.todo) = x.todo[1] /\ 1 \in DOMAIN x.todo
      /\ \A i \in DOMAIN Tail(x.todo) :
           i + 1 \in DOMAIN x.todo /\ Tail(x.todo)[i] = x.todo[i + 1]
  BY <1>1
<1>3. x.todo \in Seq(Subs) => Tail(x.todo) \in Seq(Subs) /\ Head(x.todo) \in Subs
  OBVIOUS
<1>4. y \in Worker /\ y.job = x.job /\ y.pc = x.pc /\ y.todo = Tail(x.todo)
  BY <1>2 DEF Worker
<1>. HIDE DEF y
<1>5. ListOK(y)
  BY <1>2, <1>3, <1>4 DEF ListOK
<1>6. /\ x.job \in {"renew", "expire"} => Head(x.todo) \in Subs
      /\ x.job = "settle" => Head(x.todo) \in Keys /\ Chargeable(invs[Head(x.todo)])
  BY <1>2, <1>3 DEF ListOK
<1>. QED  BY <1>4, <1>5, <1>6 DEF y
----------------------------------------------------------------------------
(* Steps that save nothing *)

\* Time passes, the provider learns, nothing is saved.
NothingSaved ==
  /\ UNCHANGED <<subs, invs>>
  /\ now' \in Time /\ now <= now'
  /\ provider' \in [Keys -> Outcome]
  /\ \A k \in Keys : Collected(k) => Collected(k)'
  /\ \A k \in Keys : provider'[k] # "none" => provider[k] # "none" \/ Chargeable(invs[k])

LEMMA StoreStays ==
  ASSUME TypeOK, StoreOK, NothingSaved
  PROVE  StoreOK'
<1>1. now \in Nat /\ now' \in Nat
  BY BillingAssumption DEF TypeOK, NothingSaved, Time
<1>2. RowsOK'
  <2>1. \A s \in Subs : subs[s].start \in Nat
    BY DEF TypeOK, Row
  <2>. QED  BY <1>1, <2>1 DEF RowsOK, StoreOK, NothingSaved
<1>3. BillsOK'
  BY DEF BillsOK, StoreOK, NothingSaved, Chargeable
<1>4. MoneyMatchesInvoices'
  BY DEF MoneyMatchesInvoices, StoreOK, NothingSaved, Chargeable
<1>5. CurrentPeriodInvoiced' /\ NoPeriodInvoicedTwice' /\ TrialOwesNothing'
  BY DEF CurrentPeriodInvoiced, NoPeriodInvoicedTwice, TrialOwesNothing,
         StoreOK, NothingSaved
<1>. QED  BY <1>2, <1>3, <1>4, <1>5 DEF StoreOK

LEMMA DraftedStays ==
  ASSUME NEW x, x.sub \in Subs, Drafted(x), TypeOK, NothingSaved
  PROVE  Drafted(x)'
<1>1. now \in Nat /\ now' \in Nat /\ now <= now'
  BY BillingAssumption DEF TypeOK, NothingSaved, Time
<1>. DEFINE row == subs[x.sub]
<1>2. row \in Row /\ row' = row
  BY DEF TypeOK, NothingSaved
<1>3. /\ IsDue(row, now) => IsDue(row, now')
      /\ GraceOver(row, now) => GraceOver(row, now')
  BY <1>1, <1>2, GraceAssumption DEF IsDue, GraceOver, Row, Never
<1>4. EndsIt(x, row) => EndsIt(x, row)'
  BY <1>2, <1>3 DEF EndsIt
<1>5. Bills(x, row) => Bills(x, row)'
  BY <1>2, <1>3 DEF Bills
<1>6. Reflects(x, row) => Reflects(x, row)'
  <2>1. \A t \in 0 .. now : t \in 0 .. now'
    BY <1>1
  <2>. QED  BY <1>2, <2>1 DEF Reflects, NothingSaved
<1>. QED  BY <1>2, <1>4, <1>5, <1>6 DEF Drafted, NothingSaved

LEMMA HandStays ==
  ASSUME NEW x, HandOK(x), TypeOK, NothingSaved
  PROVE  HandOK(x)'
<1>1. ListOK(x)'
  BY DEF HandOK, ListOK, NothingSaved
<1>2. x.pc = "commit" /\ ~x.stale => Drafted(x)'
  BY DraftedStays DEF HandOK
<1>. QED  BY <1>1, <1>2 DEF HandOK, NothingSaved

\* A worker's own step, of which nothing is saved yet.
LEMMA OwnStep ==
  ASSUME IInv, NEW w \in Workers, NEW y \in Worker, HandOK(y), Goto(w, y),
         UNCHANGED <<now, subs, invs, provider>>
  PROVE  IInv'
<1>1. NothingSaved
  BY BillingAssumption DEF NothingSaved, IInv, TypeOK, Collected, Time
<1>2. TypeOK' /\ StoreOK'
  BY <1>1, StoreStays DEF IInv, TypeOK, Goto
<1>3. ASSUME NEW v \in Workers
      PROVE  HandOK(wk[v])'
  <2>1. PICK x : x = wk'[v]
    OBVIOUS
  <2>2. HandOK(x)
    <3>1. CASE v = w
      BY <2>1, <3>1 DEF Goto, IInv, TypeOK
    <3>2. CASE v # w
      BY <2>1, <3>2 DEF Goto, IInv, TypeOK, HandsOK
    <3>. QED  BY <3>1, <3>2
  <2>3. HandOK(x)'
    BY <1>1, <2>2, HandStays DEF IInv
  <2>. QED  BY <2>1, <2>3
<1>. QED  BY <1>2, <1>3 DEF IInv, HandsOK
----------------------------------------------------------------------------
(* The steps that open a unit of work: what they are about to save is Drafted *)

LEMMA RowFacts ==
  ASSUME TypeOK, NEW s \in Subs
  PROVE  /\ subs[s] \in Row
         /\ StoreOK /\ subs[s].status # None =>
              /\ subs[s] # NoRow
              /\ subs[s].plan \in Plans
              /\ subs[s].start < subs[s].end
  BY DEF TypeOK, StoreOK, RowsOK, NoRow

LEMMA BillFacts ==
  ASSUME TypeOK, StoreOK, NEW k \in Keys, Exists(invs[k])
  PROVE  /\ invs[k] \in Bill
         /\ invs[k].sub \in Subs
         /\ subs[invs[k].sub] # NoRow
         /\ Chargeable(invs[k]) \/ (invs[k].status = "no_payment_due" /\ k[1] = "change")
  BY DEF TypeOK, StoreOK, BillsOK, NoBill, Exists

LEMMA HandFacts ==
  ASSUME IInv, NEW w \in Workers
  PROVE  wk[w] \in Worker /\ HandOK(wk[w]) /\ ListOK(wk[w])
  BY DEF IInv, TypeOK, HandsOK, HandOK

LEMMA IdleHand == ListOK(Idle) /\ HandOK(Idle)
  BY DEF ListOK, HandOK, Idle, None, Batches

LEMMA CancelStep ==
  ASSUME IInv, NEW w \in Workers, NEW s \in Subs, NEW immediately \in BOOLEAN,
         Cancel(w, s, immediately)
  PROVE  IInv'
<1>. DEFINE row   == subs[s]
            draft == Canceled(row, immediately)
            y     == Saving(Idle, s, draft)
<1>1. row \in Row /\ row \in Row /\ row.status \in Live /\ row # NoRow
  BY RowFacts DEF IInv, Cancel, CanCancel, Live, None
<1>2. draft \in Row
  BY <1>1, DraftRows
<1>3. y \in Worker
  BY <1>2, IdleWorker, SavingWorker
<1>4. /\ y.pc = "commit" /\ y.sub = s /\ y.draft = draft /\ Returns(y, Idle)
      /\ y.bill = NoBill /\ ~y.adds /\ ~y.pays
  BY <1>2, IdleWorker, SavingFields, Zenon
<1>5. Goto(w, y) /\ UNCHANGED <<now, subs, invs, provider>>
  BY DEF Cancel
<1>. HIDE DEF y
<1>6. Drafted(y)
  BY <1>1, <1>4 DEF Drafted, EndsIt, Returns, Idle, None
<1>7. HandOK(y)
  BY <1>4, <1>6, IdleHand, DraftedHand
<1>. QED  BY <1>3, <1>5, <1>7, OwnStep

LEMMA ChangePlanStep ==
  ASSUME IInv, NEW w \in Workers, NEW s \in Subs, NEW plan \in Plans, NEW r \in Requests,
         ChangePlan(w, s, plan, r)
  PROVE  IInv'
<1>. DEFINE row   == subs[s]
            bill  == IF OwesDifference(row, plan, now) THEN Issued(s, now)
                     ELSE SettledWithoutPayment(Issued(s, now))
            draft == PlanChanged(row, plan)
            k     == ChangeKey(r)
            y     == Issuing(Idle, s, draft, k, bill)
<1>1. row \in Row /\ row.status \in Live /\ row # NoRow
  BY RowFacts DEF IInv, ChangePlan, CanChangePlan, Live, None
<1>2. draft \in Row /\ k \in Keys /\ k[1] = "change"
  BY <1>1, DraftRows, KeysInKeys, KeyParts
<1>3. /\ bill \in Bill /\ bill.sub = s
      /\ \/ bill.status = "no_payment_due"
         \/ bill.status = "open" /\ row.status # "trialing"
  <2>1. Issued(s, now) \in Bill
    BY IssuedBill, BillingAssumption DEF IInv, TypeOK, Time
  <2>2. Issued(s, now).sub = s /\ Issued(s, now).status = "open"
    BY DEF Issued
  <2>. HIDE DEF row
  <2>3. CASE OwesDifference(row, plan, now)
    <3>1. row.status # "trialing"
      BY <2>3 DEF OwesDifference
    <3>. QED  BY <2>1, <2>2, <2>3, <3>1
  <2>4. CASE ~OwesDifference(row, plan, now)
    <3>1. LET b == SettledWithoutPayment(Issued(s, now)) IN
          b \in Bill /\ b.sub = s /\ b.status = "no_payment_due"
      BY <2>1, <2>2, BillTypes DEF SettledWithoutPayment, Bill
    <3>. QED  BY <2>4, <3>1
  <2>. QED  BY <2>3, <2>4
<1>. HIDE DEF bill, draft, k
<1>4. y \in Worker
  BY <1>2, <1>3, IdleWorker, SavingBillWorker
<1>5. /\ y.pc = "commit" /\ y.sub = s /\ y.draft = draft /\ y.key = k /\ y.bill = bill
      /\ Returns(y, Idle)
      /\ y.adds
      /\ bill.status = "open" => y.pays
      /\ bill.status # "open" => ~y.pays
  BY <1>2, <1>3, IdleWorker, IssuingFields
<1>6. Goto(w, y) /\ UNCHANGED <<now, subs, invs, provider>>
  BY DEF ChangePlan, bill, draft, k
<1>. HIDE DEF y
<1>7. Drafted(y)
  <2>1. \E p \in Plans : CanChangePlan(row, p) /\ y.draft = PlanChanged(row, p)
    BY <1>5 DEF draft, ChangePlan
  <2>2. y.job # "expire"
    BY <1>5 DEF Returns, Idle, None
  <2>3. Bills(y, row)
    BY <1>1, <1>2, <1>3, <1>5, <2>1, <2>2 DEF Bills
  <2>. QED  BY <1>1, <1>5, <2>3 DEF Drafted
<1>8. HandOK(y)
  BY <1>5, <1>7, IdleHand, DraftedHand
<1>. QED  BY <1>4, <1>6, <1>8, OwnStep
\* Whatever the provider said is saved in the same way by a notice and by the
\* second half of a charge.
LEMMA ReflectingStep ==
  ASSUME IInv, NEW w \in Workers, NEW x \in Worker, ListOK(x), x.job # "expire",
         NEW k \in Keys, Exists(invs[k]), NEW draft, NEW bill,
         \/ /\ Collected(k) /\ Chargeable(invs[k])
            /\ subs[invs[k].sub].status \in Live
            /\ bill = MarkedPaid(invs[k])
            /\ draft = PaymentSucceeded(subs[invs[k].sub])
         \/ /\ bill = invs[k]
            /\ subs[invs[k].sub].status \in {"active", "past_due"}
            /\ draft = PaymentFailed(subs[invs[k].sub], now)
         \/ /\ bill = invs[k]
            /\ draft = subs[invs[k].sub],
         Goto(w, SavingBill(x, invs[k].sub, draft, k, bill)),
         UNCHANGED <<now, subs, invs, provider>>
  PROVE  IInv'
<1>. DEFINE s   == invs[k].sub
            row == subs[s]
            y   == SavingBill(x, s, draft, k, bill)
<1>1. /\ invs[k] \in Bill /\ s \in Subs /\ row # NoRow
      /\ row \in Row /\ now \in Time /\ now \in Nat
  BY BillFacts, RowFacts, BillingAssumption DEF IInv, TypeOK, Time
<1>2. draft \in Row /\ bill \in Bill
  BY <1>1, DraftRows, BillTypes
<1>3. y \in Worker
  BY <1>1, <1>2, SavingBillWorker
<1>4. /\ y.pc = "commit" /\ y.sub = s /\ y.draft = draft /\ y.key = k /\ y.bill = bill
      /\ Returns(y, x) /\ ~y.adds /\ ~y.pays
  BY <1>1, <1>2, SavingBillFields
<1>5. Goto(w, y)
  OBVIOUS
<1>. HIDE DEF y
<1>6. Reflects(y, row)
  BY <1>1, <1>4 DEF Reflects, Returns
<1>7. Drafted(y)
  BY <1>1, <1>4, <1>6 DEF Drafted
<1>8. HandOK(y)
  BY <1>1, <1>4, <1>7, DraftedHand
<1>. QED  BY <1>3, <1>5, <1>8, OwnStep

LEMMA RecordSuccessStep ==
  ASSUME IInv, NEW w \in Workers, NEW k \in Keys, RecordSuccess(w, k)
  PROVE  IInv'
<1>1. Idle \in Worker /\ ListOK(Idle) /\ Idle.job # "expire"
  BY IdleWorker, IdleHand DEF Idle, None
<1>2. Exists(invs[k]) /\ Chargeable(invs[k])
  BY DEF RecordSuccess, CanMarkPaid, Chargeable
<1>3. Collected(k) /\ subs[invs[k].sub].status \in Live
  BY DEF RecordSuccess, CanMarkPaymentSucceeded
<1>. DEFINE bill == MarkedPaid(invs[k])
            draft == PaymentSucceeded(subs[invs[k].sub])
<1>4. /\ Goto(w, SavingBill(Idle, invs[k].sub, draft, k, bill))
      /\ UNCHANGED <<now, subs, invs, provider>>
  BY DEF RecordSuccess
<1>. QED  BY <1>1, <1>2, <1>3, <1>4, ReflectingStep

LEMMA RecordFailureStep ==
  ASSUME IInv, NEW w \in Workers, NEW k \in Keys, RecordFailure(w, k)
  PROVE  IInv'
<1>1. Idle \in Worker /\ ListOK(Idle) /\ Idle.job # "expire"
  BY IdleWorker, IdleHand DEF Idle, None
<1>. DEFINE row == subs[invs[k].sub]
            draft == IF IsSettled(invs[k]) THEN row ELSE PaymentFailed(row, now)
<1>2. /\ Exists(invs[k])
      /\ IsSettled(invs[k]) \/ row.status \in {"active", "past_due"}
      /\ Goto(w, SavingBill(Idle, invs[k].sub, draft, k, invs[k]))
      /\ UNCHANGED <<now, subs, invs, provider>>
  BY DEF RecordFailure, CanMarkPaymentFailed
<1>3. draft = row \/ (row.status \in {"active", "past_due"} /\ draft = PaymentFailed(row, now))
  BY <1>2
<1>. HIDE DEF draft
<1>. QED  BY <1>1, <1>2, <1>3, ReflectingStep

LEMMA ReflectStep ==
  ASSUME IInv, NEW w \in Workers, Reflect(w)
  PROVE  IInv'
<1>. DEFINE x == wk[w]
            k == x.key
            row == subs[invs[k].sub]
<1>1. /\ x \in Worker /\ ListOK(x) /\ x.job # "expire"
      /\ k \in Keys /\ Chargeable(invs[k]) /\ Exists(invs[k])
      /\ x.answer = "declined" \/ (x.answer = "succeeded" /\ Collected(k))
      /\ CanReflect(x.answer, invs[k], row)
      /\ UNCHANGED <<now, subs, invs, provider>>
  BY HandFacts DEF Reflect, HandOK, Chargeable, Exists
<1>2. CASE x.answer = "succeeded"
  <2>1. row.status \in Live
    BY <1>1, <1>2 DEF CanReflect, CanMarkPaymentSucceeded
  <2>2. Goto(w, SavingBill(x, invs[k].sub, PaymentSucceeded(row), k, MarkedPaid(invs[k])))
    BY <1>2 DEF Reflect
  <2>. QED  BY <1>1, <1>2, <2>1, <2>2, ReflectingStep
<1>3. CASE x.answer # "succeeded"
  <2>1. row.status \in {"active", "past_due"}
    BY <1>1, <1>3 DEF CanReflect, CanMarkPaymentFailed
  <2>2. Goto(w, SavingBill(x, invs[k].sub, PaymentFailed(row, now), k, invs[k]))
    BY <1>3 DEF Reflect
  <2>. QED  BY <1>1, <2>1, <2>2, ReflectingStep
<1>. QED  BY <1>2, <1>3
\* Raising, or ending, leaves nothing in the worker's hands.
LEMMA GiveUpStep ==
  ASSUME IInv, NEW w \in Workers,
         CommitRaises(w) \/ ReflectRaises(w) \/ RenewRaises(w) \/ EndBatch(w)
  PROVE  IInv'
<1>1. Goto(w, Idle) /\ UNCHANGED <<now, subs, invs, provider>>
  BY DEF CommitRaises, ReflectRaises, RenewRaises, EndBatch
<1>. QED  BY <1>1, IdleWorker, IdleHand, OwnStep

----------------------------------------------------------------------------
(* Batches *)

LEMMA PagesAreLists ==
  ASSUME NEW S, NEW rank, NEW q \in Pages(S, rank)
  PROVE  q \in Seq(S)
<1>1. PICK n \in 0 .. Limit : q \in [1 .. n -> S]
  BY DEF Pages
<1>. QED  BY <1>1, BillingAssumption

LEMMA BatchFields ==
  ASSUME NEW batch \in Batches, NEW q \in Seq(Subs \cup Keys)
  PROVE  LET y == [Idle EXCEPT !.pc = batch, !.job = batch, !.todo = q] IN
         y \in Worker /\ y.pc = batch /\ y.job = batch /\ y.todo = q
<1>1. \A z \in Worker : LET y == [z EXCEPT !.pc = batch, !.job = batch, !.todo = q] IN
        y \in Worker /\ y.pc = batch /\ y.job = batch /\ y.todo = q
  BY DEF Worker
<1>. QED  BY <1>1, IdleWorker

LEMMA SubsBatch ==
  ASSUME IInv, NEW w \in Workers, NEW batch \in {"renew", "expire"}, NEW q \in Seq(Subs),
         StartBatch(w, batch, q), UNCHANGED <<now, subs, invs, provider>>
  PROVE  IInv'
<1>. DEFINE y == [Idle EXCEPT !.pc = batch, !.job = batch, !.todo = q]
<1>1. batch \in Batches /\ q \in Seq(Subs \cup Keys)
  BY DEF Batches
<1>2. y \in Worker /\ y.pc = batch /\ y.job = batch /\ y.todo = q
  BY <1>1, BatchFields
<1>3. Goto(w, y)
  BY DEF StartBatch
<1>. HIDE DEF y
<1>4. HandOK(y)
  BY <1>2 DEF HandOK, ListOK, Batches
<1>. QED  BY <1>2, <1>3, <1>4, OwnStep

LEMMA ListStep ==
  ASSUME IInv, NEW w \in Workers, ListDue(w) \/ ListPastDue(w) \/ ListUnsettled(w)
  PROVE  IInv'
<1>1. CASE ListDue(w)
  <2>1. PICK q \in Pages(Due, [s \in Subs |-> subs[s].end]) : StartBatch(w, "renew", q)
    BY <1>1 DEF ListDue
  <2>2. q \in Seq(Due)
    BY PagesAreLists
  <2>3. q \in Seq(Subs)
    BY <2>2 DEF Due
  <2>. QED  BY <1>1, <2>1, <2>3, SubsBatch DEF ListDue
<1>2. CASE ListPastDue(w)
  <2>1. PICK q \in Pages(PastDue, [s \in Subs |-> subs[s].since]) : StartBatch(w, "expire", q)
    BY <1>2 DEF ListPastDue
  <2>2. q \in Seq(PastDue)
    BY PagesAreLists
  <2>3. q \in Seq(Subs)
    BY <2>2 DEF PastDue
  <2>. QED  BY <1>2, <2>1, <2>3, SubsBatch DEF ListPastDue
<1>3. CASE ListUnsettled(w)
  <2>1. PICK q \in Pages(Unsettled, [k \in Keys |-> invs[k].issuedAt]) :
          StartBatch(w, "settle", q)
    BY <1>3 DEF ListUnsettled
  <2>2. q \in Seq(Unsettled)
    BY PagesAreLists
  <2>3. Unsettled \subseteq Keys /\ \A k \in Unsettled : Chargeable(invs[k])
    BY DEF Unsettled, Chargeable
  <2>4. q \in Seq(Subs \cup Keys)
    BY <2>2, <2>3
  <2>. DEFINE y == [Idle EXCEPT !.pc = "settle", !.job = "settle", !.todo = q]
  <2>5. y \in Worker /\ y.pc = "settle" /\ y.job = "settle" /\ y.todo = q
    BY <2>4, BatchFields DEF Batches
  <2>6. Goto(w, y)
    BY <2>1 DEF StartBatch
  <2>. HIDE DEF y
  <2>7. HandOK(y)
    BY <2>2, <2>3, <2>5 DEF HandOK, ListOK, Batches
  <2>. QED  BY <1>3, <2>5, <2>6, <2>7, OwnStep DEF ListUnsettled
<1>. QED  BY <1>1, <1>2, <1>3

LEMMA SettleOneStep ==
  ASSUME IInv, NEW w \in Workers, SettleOne(w)
  PROVE  IInv'
<1>. DEFINE x == [wk[w] EXCEPT !.todo = Tail(@)]
            k == Head(wk[w].todo)
<1>1. wk[w].pc = "settle" /\ wk[w].job = "settle" /\ wk[w].todo # <<>>
  BY HandFacts DEF SettleOne, HandOK, Batches
<1>2. x \in Worker /\ ListOK(x) /\ x.job = "settle" /\ k \in Keys /\ Chargeable(invs[k])
  BY <1>1, HandFacts, TailList
<1>3. Goto(w, Charging(x, k)) /\ UNCHANGED <<now, subs, invs, provider>>
  BY DEF SettleOne
<1>. HIDE DEF x, k
<1>4. Charging(x, k) \in Worker /\ HandOK(Charging(x, k))
  BY <1>2, ChargingWorker, ChargingHand
<1>. QED  BY <1>3, <1>4, OwnStep

LEMMA ExpireOneStep ==
  ASSUME IInv, NEW w \in Workers, ExpireOne(w)
  PROVE  IInv'
<1>. DEFINE x   == [wk[w] EXCEPT !.todo = Tail(@)]
            s   == Head(wk[w].todo)
            row == subs[s]
<1>1. wk[w].pc = "expire" /\ wk[w].job = "expire" /\ wk[w].todo # <<>>
  BY HandFacts DEF ExpireOne, HandOK, Batches
<1>2. x \in Worker /\ ListOK(x) /\ x.job = "expire" /\ x.pc = "expire" /\ s \in Subs
  BY <1>1, HandFacts, TailList
<1>3. /\ Goto(w, IF GraceOver(row, now) THEN Saving(x, s, Expired(row)) ELSE x)
      /\ UNCHANGED <<now, subs, invs, provider>>
  BY DEF ExpireOne
<1>. HIDE DEF x, s
<1>4. CASE GraceOver(row, now)
  <2>. DEFINE y == Saving(x, s, Expired(row))
  <2>1. row \in Row /\ row # NoRow /\ row.status \in Live
    BY <1>2, <1>4, RowFacts DEF IInv, GraceOver, NoRow, None, Live
  <2>2. Expired(row) \in Row
    BY <2>1, DraftRows
  <2>3. /\ y \in Worker
        /\ y.pc = "commit" /\ y.sub = s /\ y.draft = Expired(row) /\ Returns(y, x)
        /\ y.bill = NoBill /\ ~y.adds /\ ~y.pays
    BY <1>2, <2>2, SavingWorker, SavingFields
  <2>4. Goto(w, y)
    BY <1>3, <1>4
  <2>. HIDE DEF y
  <2>5. Drafted(y)
    BY <1>4, <2>1, <2>3 DEF Drafted, EndsIt
  <2>6. HandOK(y)
    BY <1>2, <2>3, <2>5, DraftedHand
  <2>. QED  BY <1>3, <2>3, <2>4, <2>6, OwnStep
<1>5. CASE ~GraceOver(row, now)
  <2>1. HandOK(x)
    BY <1>2 DEF HandOK
  <2>. QED  BY <1>2, <1>3, <1>5, <2>1, OwnStep
<1>. QED  BY <1>4, <1>5
\* The invoice of the next period does not exist yet, so the look-up of its key
\* in _renew_one never finds one.
LEMMA NextPeriodIsNew ==
  ASSUME IInv, NEW s \in Subs, IsDue(subs[s], now)
  PROVE  /\ subs[s].end \in Time
         /\ RenewKey(s, subs[s].end) \in Keys
         /\ ~Exists(invs[RenewKey(s, subs[s].end)])
<1>1. subs[s] \in Row /\ subs[s].start < subs[s].end
  BY RowFacts DEF IInv, IsDue, Live, None
<1>2. subs[s].end \in Time /\ subs[s].start \in Nat
  BY <1>1, BillingAssumption DEF IInv, TypeOK, Time, IsDue, Row
<1>3. Exists(invs[RenewKey(s, subs[s].end)]) => subs[s].end <= subs[s].start
  BY <1>2 DEF IInv, StoreOK, NoPeriodInvoicedTwice
<1>. QED  BY <1>1, <1>2, <1>3, KeysInKeys DEF Time

LEMMA RenewOneStep ==
  ASSUME IInv, NEW w \in Workers, RenewOne(w)
  PROVE  IInv'
<1>. DEFINE x   == [wk[w] EXCEPT !.todo = Tail(@)]
            s   == Head(wk[w].todo)
            row == subs[s]
            k   == RenewKey(s, row.end)
            bill == Issued(s, now)
<1>1. wk[w].pc = "renew" /\ wk[w].job = "renew" /\ wk[w].todo # <<>>
  BY HandFacts DEF RenewOne, HandOK, Batches
<1>2. x \in Worker /\ ListOK(x) /\ x.job = "renew" /\ s \in Subs
  BY <1>1, HandFacts, TailList
<1>3. /\ IsDue(row, now)
      /\ Goto(w, IF ~Renews(row) THEN Saving(x, s, Renewed(row))
                 ELSE IF Exists(invs[k])
                 THEN [Saving(x, s, Renewed(row)) EXCEPT !.key = k, !.pays = TRUE]
                 ELSE Issuing(x, s, Renewed(row), k, bill))
      /\ UNCHANGED <<now, subs, invs, provider>>
  BY DEF RenewOne
<1>. HIDE DEF x, s
<1>4. row \in Row /\ row # NoRow /\ row.status \in Live /\ row.plan \in Plans
  BY <1>2, <1>3, RowFacts DEF IInv, IsDue, NoRow, None, Live
<1>5. Renewed(row) \in Row
  BY <1>4, DraftRows
<1>6. CASE ~Renews(row)
  <2>. DEFINE y == Saving(x, s, Renewed(row))
  <2>1. /\ y \in Worker
        /\ y.pc = "commit" /\ y.sub = s /\ y.draft = Renewed(row) /\ Returns(y, x)
        /\ y.bill = NoBill /\ ~y.adds /\ ~y.pays
    BY <1>2, <1>5, SavingWorker, SavingFields
  <2>2. Goto(w, y)
    BY <1>3, <1>6
  <2>. HIDE DEF y
  <2>3. Drafted(y)
    BY <1>2, <1>3, <1>4, <1>6, <2>1 DEF Drafted, EndsIt, Returns
  <2>4. HandOK(y)
    BY <1>2, <2>1, <2>3, DraftedHand
  <2>. QED  BY <1>3, <2>1, <2>2, <2>4, OwnStep
<1>7. CASE Renews(row)
  <2>. DEFINE y == Issuing(x, s, Renewed(row), k, bill)
  <2>1. k \in Keys /\ ~Exists(invs[k])
    BY <1>2, <1>3, NextPeriodIsNew
  <2>2. bill \in Bill /\ bill.sub = s /\ bill.status = "open"
    <3>1. bill \in Bill
      BY <1>2, IssuedBill, BillingAssumption DEF IInv, TypeOK, Time
    <3>. QED  BY <3>1 DEF Issued
  <2>3. Goto(w, y)
    BY <1>3, <1>7, <2>1
  <2>. HIDE DEF bill, k
  <2>4. /\ y \in Worker
        /\ y.pc = "commit" /\ y.sub = s /\ y.draft = Renewed(row)
        /\ y.key = k /\ y.bill = bill
        /\ Returns(y, x) /\ y.adds /\ y.pays
    BY <1>2, <1>5, <2>1, <2>2, SavingBillWorker, IssuingFields
  <2>. HIDE DEF y
  <2>5. Bills(y, row)
    BY <1>2, <1>3, <1>7, <2>1, <2>2, <2>4 DEF Bills, Returns, k
  <2>6. Drafted(y)
    BY <1>4, <2>4, <2>5 DEF Drafted
  <2>7. HandOK(y)
    BY <1>2, <2>4, <2>6, DraftedHand
  <2>. QED  BY <1>3, <2>3, <2>4, <2>7, OwnStep
<1>. QED  BY <1>6, <1>7

----------------------------------------------------------------------------
(* The provider, the clock, and crashes *)

LEMMA OutcomeFacts ==
  ASSUME IInv, NEW k \in Keys, NEW outcome \in Outcomes(k)
  PROVE  /\ outcome \in Outcome \ {"none"}
         /\ Collected(k) => outcome = provider[k]
         /\ outcome = "succeeded" => provider[k] \in {"none", "succeeded"}
  BY DEF IInv, TypeOK, Outcomes, Outcome, Collected

\* Something is learned at the provider about an invoice that may be charged;
\* the worker who asked, if any, takes a step.
LEMMA ProviderStep ==
  ASSUME IInv, NEW k \in Keys, NEW outcome \in Outcome,
         Collected(k) => outcome \in {"succeeded", "recovered"},
         outcome # "none" => provider[k] # "none" \/ Chargeable(invs[k]),
         provider' = [provider EXCEPT ![k] = outcome],
         UNCHANGED <<now, subs, invs>>,
         wk' \in [Workers -> Worker],
         \A w \in Workers : wk'[w] = wk[w] \/ HandOK(wk[w])'
  PROVE  IInv'
<1>1. NothingSaved
  <2>1. provider \in [Keys -> Outcome] /\ provider' \in [Keys -> Outcome]
    BY DEF IInv, TypeOK
  <2>2. \A j \in Keys : provider'[j] = IF j = k THEN outcome ELSE provider[j]
    BY <2>1
  <2>3. \A j \in Keys : Collected(j) => Collected(j)'
    BY <2>2 DEF Collected
  <2>. QED  BY <2>1, <2>2, <2>3, BillingAssumption DEF NothingSaved, IInv, TypeOK, Time
<1>2. TypeOK' /\ StoreOK'
  BY <1>1, StoreStays DEF IInv, TypeOK, NothingSaved
<1>3. ASSUME NEW v \in Workers
      PROVE  HandOK(wk[v])'
  <2>1. CASE wk'[v] = wk[v]
    <3>1. PICK x : x = wk[v]
      OBVIOUS
    <3>2. HandOK(x)'
      BY <1>1, <3>1, HandStays DEF IInv, HandsOK
    <3>. QED  BY <2>1, <3>1, <3>2
  <2>. QED  BY <2>1
<1>. QED  BY <1>2, <1>3 DEF IInv, HandsOK

LEMMA CrashStep ==
  ASSUME IInv, NEW w \in Workers, Crash(w)
  PROVE  IInv'
  BY IdleWorker, IdleHand, OwnStep DEF Crash

LEMMA TickStep ==
  ASSUME IInv, Tick
  PROVE  IInv'
<1>1. NothingSaved
  BY BillingAssumption DEF NothingSaved, IInv, TypeOK, Tick, Time, Collected
<1>2. TypeOK' /\ StoreOK'
  BY <1>1, StoreStays DEF IInv, TypeOK, NothingSaved, Tick
<1>3. ASSUME NEW v \in Workers
      PROVE  HandOK(wk[v])'
  <2>1. PICK x : x = wk[v]
    OBVIOUS
  <2>2. HandOK(x)'
    BY <1>1, <2>1, HandStays DEF IInv, HandsOK
  <2>. QED  BY <2>1, <2>2 DEF Tick
<1>. QED  BY <1>2, <1>3 DEF IInv, HandsOK

LEMMA RecoverStep ==
  ASSUME IInv, NEW k \in Keys, Recover(k)
  PROVE  IInv'
<1>1. wk' = wk /\ provider[k] = "declined"
  BY DEF Recover
<1>. QED  BY <1>1, ProviderStep DEF Recover, Collected, Outcome, IInv, TypeOK

LEMMA GatewayAnswersStep ==
  ASSUME IInv, NEW w \in Workers, GatewayAnswers(w)
  PROVE  IInv'
<1>. DEFINE x == wk[w]
<1>1. /\ x \in Worker /\ ListOK(x) /\ x.pc = "charge" /\ x.job # "expire"
      /\ x.key \in Keys /\ Chargeable(invs[x.key])
  BY HandFacts DEF GatewayAnswers, HandOK
<1>2. PICK outcome \in Outcomes(x.key) :
        /\ provider' = [provider EXCEPT ![x.key] = outcome]
        /\ Goto(w, [x EXCEPT !.pc = "reflect",
                     !.answer = IF outcome = "succeeded" THEN outcome ELSE "declined"])
  BY DEF GatewayAnswers
<1>3. outcome \in Outcome /\ (Collected(x.key) => outcome \in {"succeeded", "recovered"})
  BY <1>1, OutcomeFacts DEF Collected
<1>. DEFINE answer == IF outcome = "succeeded" THEN outcome ELSE "declined"
            y == [x EXCEPT !.pc = "reflect", !.answer = answer]
<1>4. answer \in {"succeeded", "declined"}
  OBVIOUS
<1>5. answer = "succeeded" => outcome = "succeeded"
  OBVIOUS
<1>. HIDE DEF answer
<1>6. /\ y \in Worker /\ y.pc = "reflect" /\ y.answer = answer
      /\ y.key = x.key /\ y.job = x.job /\ y.todo = x.todo
  BY <1>1, <1>4 DEF Worker
<1>7. Goto(w, y)
  BY <1>2 DEF answer
<1>8. UNCHANGED <<now, subs, invs>>
  BY DEF GatewayAnswers
<1>. HIDE DEF y
<1>9. wk'[w] = y /\ wk' \in [Workers -> Worker] /\ \A v \in Workers : v # w => wk'[v] = wk[v]
  BY <1>6, <1>7 DEF Goto, IInv, TypeOK
<1>10. HandOK(wk[w])'
  <2>1. PICK z : z = y
    OBVIOUS
  <2>2. /\ ListOK(z) /\ z.pc = "reflect" /\ z.job # "expire"
        /\ z.key \in Keys /\ Chargeable(invs[z.key])
        /\ z.answer \in {"succeeded", "declined"}
        /\ z.answer = "succeeded" => provider'[z.key] = "succeeded"
    BY <1>1, <1>2, <1>4, <1>5, <1>6, <2>1 DEF ListOK, IInv, TypeOK
  <2>3. HandOK(z)'
    BY <1>8, <2>2 DEF HandOK, ListOK, Batches, Collected
  <2>4. z = wk'[w]
    BY <1>9, <2>1
  <2>. QED  BY <2>3, <2>4
<1>. QED  BY <1>1, <1>2, <1>3, <1>8, <1>9, <1>10, ProviderStep
LEMMA GatewayUnreachableStep ==
  ASSUME IInv, NEW w \in Workers, GatewayUnreachable(w)
  PROVE  IInv'
<1>. DEFINE x == wk[w]
            y == Resume(x)
<1>1. /\ x \in Worker /\ ListOK(x) /\ x.key \in Keys /\ Chargeable(invs[x.key])
  BY HandFacts DEF GatewayUnreachable, HandOK
<1>2. PICK outcome \in Outcomes(x.key) \cup {provider[x.key]} :
        provider' = [provider EXCEPT ![x.key] = outcome]
  BY DEF GatewayUnreachable
<1>3. outcome \in Outcome /\ (Collected(x.key) => outcome \in {"succeeded", "recovered"})
  BY <1>1, OutcomeFacts DEF Collected, IInv, TypeOK
<1>4. y \in Worker /\ HandOK(y)
  BY <1>1, ResumeWorker, ResumeHand
<1>5. Goto(w, y) /\ UNCHANGED <<now, subs, invs>>
  BY DEF GatewayUnreachable
<1>. HIDE DEF y
<1>6. wk'[w] = y /\ wk' \in [Workers -> Worker] /\ \A v \in Workers : v # w => wk'[v] = wk[v]
  BY <1>4, <1>5 DEF Goto, IInv, TypeOK
<1>7. HandOK(wk[w])'
  <2>1. PICK z : z = y
    OBVIOUS
  <2>2. HandOK(z) /\ z.pc \notin {"charge", "reflect", "commit"}
    <3>1. y.pc \notin {"charge", "reflect", "commit"}
      BY <1>1, ResumeFields DEF y, Worker, Batches, None
    <3>. QED  BY <1>4, <2>1, <3>1
  <2>3. HandOK(z)'
    BY <1>5, <2>2 DEF HandOK, ListOK
  <2>4. z = wk'[w]
    BY <1>6, <2>1
  <2>. QED  BY <2>3, <2>4
<1>. QED  BY <1>1, <1>2, <1>3, <1>5, <1>6, <1>7, ProviderStep

----------------------------------------------------------------------------
(* Steps that save *)

\* What is in a worker's hands is still good if what it is about has not been
\* saved by somebody else.
LEMMA HandKept ==
  ASSUME NEW x, HandOK(x), UNCHANGED <<now, provider>>,
         \A k \in Keys : Chargeable(invs[k]) => Chargeable(invs'[k]),
         x.pc = "commit" /\ ~x.stale =>
           /\ subs'[x.sub] = subs[x.sub]
           /\ \A k \in Keys : Exists(invs[k]) /\ invs[k].sub = x.sub => invs'[k] = invs[k]
  PROVE  HandOK(x)'
<1>1. ListOK(x)'
  BY DEF HandOK, ListOK
<1>2. ASSUME x.pc = "commit", ~x.stale
      PROVE  Drafted(x)'
  <2>. DEFINE row == subs[x.sub]
  <2>1. row' = row /\ now' = now /\ Drafted(x)
    BY <1>2 DEF HandOK
  <2>2. EndsIt(x, row) => EndsIt(x, row)'
    BY <2>1 DEF EndsIt
  <2>3. Bills(x, row) => Bills(x, row)'
    BY <2>1 DEF Bills
  <2>4. Reflects(x, row) => Reflects(x, row)'
    <3>1. ASSUME Reflects(x, row)
          PROVE  Reflects(x, row)'
      <4>1. x.key \in Keys /\ invs'[x.key] = invs[x.key]
        BY <1>2, <3>1 DEF Reflects
      <4>. QED  BY <2>1, <3>1, <4>1 DEF Reflects, Collected
    <3>. QED  BY <3>1
  <2>. QED  BY <2>1, <2>2, <2>3, <2>4 DEF Drafted
<1>. QED  BY <1>1, <1>2 DEF HandOK, Collected

\* A subscription nobody has created has no invoice, nor any key of its own.
LEMMA NoRowNoBill ==
  ASSUME IInv, NEW s \in Subs, subs[s] = NoRow
  PROVE  /\ \A k \in Keys : Exists(invs[k]) => invs[k].sub # s
         /\ invs[InitialKey(s)] = NoBill
         /\ \A t \in Time : invs[RenewKey(s, t)] = NoBill
<1>1. \A k \in Keys : Exists(invs[k]) => invs[k].sub # s
  BY BillFacts DEF IInv
<1>2. \A k \in Keys : k[1] # "change" /\ k[2] = s => invs[k] = NoBill
  BY DEF IInv, StoreOK, BillsOK
<1>. QED  BY <1>1, <1>2, KeysInKeys, KeyParts
LEMMA SubscribeStep ==
  ASSUME IInv, NEW w \in Workers, NEW s \in Subs, NEW plan \in Plans, NEW trial \in Trials,
         Subscribe(w, s, plan, trial)
  PROVE  IInv'
<1>. DEFINE row == Subscribed(plan, now, trial)
            k   == InitialKey(s)
<1>1. now \in Nat /\ trial \in Nat
  BY BillingAssumption DEF IInv, TypeOK, Time
<1>2. /\ row \in Row /\ row.plan = plan /\ row.start = now /\ now < row.end
      /\ row.status = IF trial = 0 THEN "active" ELSE "trialing"
  BY <1>1, SubscribedRow
<1>3. k \in Keys /\ k[1] = "initial" /\ k[2] = s
  BY KeysInKeys, KeyParts
<1>4. /\ wk[w].pc = "idle" /\ subs[s] = NoRow
      /\ subs' = [subs EXCEPT ![s] = row]
      /\ trial = 0 => /\ invs' = [invs EXCEPT ![k] = Issued(s, now)]
                      /\ Goto(w, Charging(Idle, k))
      /\ trial # 0 => UNCHANGED <<invs, wk>>
      /\ UNCHANGED <<now, provider>>
  BY DEF Subscribe, Starts
<1>. HIDE DEF row, k
<1>5. /\ \A j \in Keys : Exists(invs[j]) => invs[j].sub # s
      /\ invs[k] = NoBill
      /\ \A t \in Time : invs[RenewKey(s, t)] = NoBill
  BY <1>4, NoRowNoBill DEF k
<1>6. /\ Issued(s, now) \in Bill /\ Issued(s, now).sub = s
      /\ Issued(s, now).status = "open" /\ Issued(s, now).issuedAt = now
  BY <1>1, IssuedBill DEF Issued
<1>7. row # NoRow /\ row.status \in {"active", "trialing"}
  BY <1>2 DEF NoRow, None
<1>8. /\ subs' \in [Subs -> Row] /\ subs'[s] = row
      /\ \A r \in Subs : r # s => subs'[r] = subs[r]
  BY <1>2, <1>4 DEF IInv, TypeOK
<1>9. /\ invs' \in [Keys -> Bill]
      /\ \A j \in Keys : j # k => invs'[j] = invs[j]
      /\ invs'[k] = IF trial = 0 THEN Issued(s, now) ELSE NoBill
  BY <1>3, <1>4, <1>5, <1>6 DEF IInv, TypeOK
<1>10. TypeOK'
  <2>1. wk' \in [Workers -> Worker]
    BY <1>3, <1>4, IdleWorker, ChargingWorker DEF Goto, IInv, TypeOK
  <2>. QED  BY <1>4, <1>8, <1>9, <2>1 DEF IInv, TypeOK
<1>11. \A j \in Keys : Exists(invs[j]) => /\ invs'[j] = invs[j]
                                         /\ invs[j].sub # s
                                         /\ subs'[invs[j].sub] = subs[invs[j].sub]
  BY <1>5, <1>8, <1>9, BillFacts DEF IInv, Exists, NoBill
<1>12. RowsOK'
  <2>1. now' = now
    BY <1>4
  <2>. QED  BY <1>1, <1>2, <1>7, <1>8, <2>1 DEF RowsOK, IInv, StoreOK, None
<1>13. BillsOK'
  <2>. SUFFICES ASSUME NEW j \in Keys, invs'[j] # NoBill
                PROVE  /\ \/ Chargeable(invs'[j])
                          \/ invs'[j].status = "no_payment_due" /\ j[1] = "change"
                       /\ invs'[j].sub \in Subs
                       /\ subs'[invs'[j].sub] # NoRow
                       /\ j[1] # "change" => j[2] = invs'[j].sub
                       /\ j[1] = "initial" =>
                            invs'[j].issuedAt <= subs'[invs'[j].sub].start
    BY DEF BillsOK
  <2>1. CASE j = k
    BY <1>1, <1>2, <1>3, <1>6, <1>7, <1>8, <1>9, <2>1 DEF Chargeable
  <2>2. CASE j # k
    <3>1. invs'[j] = invs[j] /\ invs[j] # NoBill
      BY <1>9, <2>2
    <3>2. BillsOK
      BY DEF IInv, StoreOK
    <3>3. Exists(invs[j])
      BY <3>1, <3>2 DEF BillsOK, Exists, Chargeable
    <3>. QED  BY <1>11, <3>1, <3>2, <3>3 DEF BillsOK
  <2>. QED  BY <2>1, <2>2
<1>14. MoneyMatchesInvoices'
  <2>. SUFFICES ASSUME NEW j \in Keys
                PROVE  /\ invs'[j].status = "paid" => Collected(j)'
                       /\ provider'[j] # "none" => invs'[j].status \in {"open", "paid"}
    BY DEF MoneyMatchesInvoices
  <2>1. /\ invs[j].status = "paid" => Collected(j)
        /\ provider[j] # "none" => invs[j].status \in {"open", "paid"}
    BY DEF IInv, StoreOK, MoneyMatchesInvoices
  <2>2. CASE j = k
    BY <1>4, <1>5, <1>6, <1>9, <2>1, <2>2 DEF NoBill
  <2>3. CASE j # k
    BY <1>4, <1>9, <2>1, <2>3 DEF Collected
  <2>. QED  BY <2>2, <2>3
<1>15. CurrentPeriodInvoiced'
  <2>. SUFFICES ASSUME NEW r \in Subs, subs'[r].status \in {"active", "past_due"}
                PROVE  \/ invs'[RenewKey(r, subs'[r].start)].status \in {"open", "paid"}
                       \/ /\ invs'[InitialKey(r)].status \in {"open", "paid"}
                          /\ invs'[InitialKey(r)].issuedAt = subs'[r].start
    BY DEF CurrentPeriodInvoiced, InitialKey, RenewKey
  <2>1. CASE r = s
    BY <1>2, <1>6, <1>8, <1>9, <2>1 DEF k
  <2>2. CASE r # s
    <3>1. subs'[r] = subs[r] /\ subs[r].start \in Time /\ InitialKey(r) \in Keys
      BY <1>1, <1>8, <2>2, KeysInKeys, BillingAssumption, RowFacts
         DEF IInv, TypeOK, StoreOK, RowsOK, Row, Time, NoRow, None
    <3>2. RenewKey(r, subs[r].start) \in Keys
      BY <3>1, KeysInKeys
    <3>3. \/ invs[RenewKey(r, subs[r].start)].status \in {"open", "paid"}
          \/ /\ invs[InitialKey(r)].status \in {"open", "paid"}
             /\ invs[InitialKey(r)].issuedAt = subs[r].start
      BY <3>1 DEF IInv, StoreOK, CurrentPeriodInvoiced
    <3>. QED  BY <1>11, <3>1, <3>2, <3>3 DEF Exists
  <2>. QED  BY <2>1, <2>2
<1>16. NoPeriodInvoicedTwice'
  <2>. SUFFICES ASSUME NEW r \in Subs, NEW t \in Time, Exists(invs'[RenewKey(r, t)])
                PROVE  /\ t <= subs'[r].start
                       /\ Exists(invs'[InitialKey(r)]) => invs'[InitialKey(r)].issuedAt < t
    BY DEF NoPeriodInvoicedTwice, InitialKey, RenewKey
  <2>1. RenewKey(r, t) \in Keys /\ InitialKey(r) \in Keys /\ RenewKey(r, t) # k
    BY <1>3, KeysInKeys, KeyParts
  <2>2. Exists(invs[RenewKey(r, t)]) /\ r # s
    BY <1>5, <1>9, <2>1 DEF Exists, NoBill
  <2>3. InitialKey(r) # k
    BY <1>3, <2>2, KeyParts
  <2>. QED  BY <1>8, <1>9, <2>1, <2>2, <2>3 DEF IInv, StoreOK, NoPeriodInvoicedTwice
<1>17. TrialOwesNothing'
  <2>. SUFFICES ASSUME NEW r \in Subs, NEW j \in Keys, subs'[r].status = "trialing",
                       invs'[j].sub = r
                PROVE  invs'[j].status = "no_payment_due"
    BY DEF TrialOwesNothing
  <2>1. CASE j = k
    BY <1>2, <1>6, <1>8, <1>9, <2>1, BillingAssumption DEF NoBill, None
  <2>2. CASE j # k
    <3>1. invs'[j] = invs[j] /\ Exists(invs[j])
      <4>1. invs'[j] = invs[j]
        BY <1>9, <2>2
      <4>2. invs[j] # NoBill
        BY <4>1, BillingAssumption DEF NoBill, None
      <4>. QED  BY <4>1, <4>2 DEF IInv, StoreOK, BillsOK, Exists, Chargeable
    <3>. QED  BY <1>8, <1>11, <3>1 DEF IInv, StoreOK, TrialOwesNothing
  <2>. QED  BY <2>1, <2>2
<1>18. ASSUME NEW v \in Workers
       PROVE  HandOK(wk[v])'
  <2>1. \A j \in Keys : Chargeable(invs[j]) => Chargeable(invs'[j])
    BY <1>11 DEF Chargeable, Exists
  <2>2. CASE v = w /\ trial = 0
    <3>1. PICK y : y = Charging(Idle, k)
      OBVIOUS
    <3>2. /\ y.pc = "charge" /\ y.key = k /\ Returns(y, Idle)
      BY <1>3, <3>1, IdleWorker, ChargingFields
    <3>3. HandOK(y)'
      BY <1>3, <1>6, <1>9, <2>2, <3>2 DEF HandOK, ListOK, Returns, Idle, None, Batches, Chargeable
    <3>4. wk'[w] = y
      BY <1>4, <2>2, <3>1 DEF Goto, IInv, TypeOK
    <3>. QED  BY <2>2, <3>3, <3>4
  <2>3. CASE v # w \/ trial # 0
    <3>1. PICK x : x = wk[v]
      OBVIOUS
    <3>2. wk'[v] = x
      BY <1>4, <2>3, <3>1 DEF Goto, IInv, TypeOK
    <3>3. HandOK(x)
      BY <3>1, HandFacts
    <3>4. x.pc = "commit" /\ ~x.stale => x.sub \in Subs /\ x.sub # s
      BY <1>4, <3>3 DEF HandOK, Drafted
    <3>5. HandOK(x)'
      BY <1>4, <1>8, <1>11, <2>1, <3>3, <3>4, HandKept
    <3>. QED  BY <3>2, <3>5
  <2>. QED  BY <2>2, <2>3
<1>. QED  BY <1>10, <1>12, <1>13, <1>14, <1>15, <1>16, <1>17, <1>18
          DEF IInv, StoreOK, HandsOK
\* What a draft does to the row: nothing but its standing and its plan, or the
\* next period.
Keeps(draft, row) ==
  /\ draft.start = row.start /\ draft.end = row.end /\ draft.plan \in Plans
  /\ \/ draft.status \in {row.status, "canceled"}
     \/ row.status \in Live \ {"trialing"} /\ draft.status \in {"active", "past_due"}

Advances(x, row) ==
  /\ IsDue(row, now)
  /\ x.draft.start = row.end /\ x.draft.start < x.draft.end
  /\ x.draft.plan = row.plan /\ x.draft.status = "active"
  /\ x.adds /\ x.key = RenewKey(x.sub, row.end) /\ x.bill.status = "open"

\* And to the invoices: one is new, or one that may be charged is paid.
Adds(x, k) ==
  /\ x.adds /\ (x.pays <=> (x.bill.status = "open"))
  /\ k = x.key /\ invs[k] = NoBill /\ invs'[k] = x.bill
  /\ x.bill.sub = x.sub
  /\ \/ /\ x.key = RenewKey(x.sub, subs[x.sub].end)
        /\ Advances(x, subs[x.sub])
     \/ /\ k[1] = "change"
        /\ x.draft.status = subs[x.sub].status
        /\ \/ x.bill.status = "no_payment_due"
           \/ x.bill.status = "open" /\ x.draft.status # "trialing"

Pays(x, k) ==
  /\ ~x.adds
  /\ k = x.key /\ Chargeable(invs[k]) /\ invs[k].sub = x.sub /\ Collected(k)
  /\ invs'[k] = MarkedPaid(invs[k])

LEMMA ReflectsRow ==
  ASSUME IInv, NEW x, x.sub \in Subs, Drafted(x), Reflects(x, subs[x.sub])
  PROVE  Keeps(x.draft, subs[x.sub])
<1>. DEFINE row == subs[x.sub]
<1>1. row \in Row /\ row # NoRow /\ row.plan \in Plans
  BY RowFacts DEF IInv, Drafted, StoreOK, RowsOK
<1>. SUFFICES Keeps(x.draft, row)
  OBVIOUS
<1>. HIDE DEF row
<1>2. CASE /\ Chargeable(invs[x.key]) /\ row.status \in Live
           /\ x.draft = PaymentSucceeded(row)
  <2>1. row.status # "trialing"
    BY <1>2 DEF Reflects, IInv, StoreOK, TrialOwesNothing, Chargeable, row
  <2>. QED  BY <1>1, <1>2, <2>1 DEF Keeps, PaymentSucceeded, Row
<1>3. CASE /\ row.status \in {"active", "past_due"}
           /\ \E t \in 0 .. now : x.draft = PaymentFailed(row, t)
  BY <1>1, <1>3 DEF Keeps, PaymentFailed, Row, Live
<1>4. CASE x.draft = row
  BY <1>1, <1>4 DEF Keeps
<1>. QED  BY <1>2, <1>3, <1>4 DEF Reflects, row

LEMMA CommitFacts ==
  ASSUME IInv, NEW w \in Workers, Commit(w)
  PROVE  LET x == wk[w] IN
         /\ x \in Worker /\ x.sub \in Subs /\ subs[x.sub] \in Row
         /\ subs[x.sub] # NoRow /\ Drafted(x)
         /\ subs' \in [Subs -> Row] /\ subs'[x.sub] = x.draft
         /\ \A s \in Subs : s # x.sub => subs'[s] = subs[s]
         /\ Keeps(x.draft, subs[x.sub]) \/ Advances(x, subs[x.sub])
         /\ invs' \in [Keys -> Bill]
         /\ \A k \in Keys : invs'[k] = invs[k] \/ Adds(x, k) \/ Pays(x, k)
         /\ x.adds => Adds(x, x.key) /\ x.key \in Keys
<1>. DEFINE x   == wk[w]
            row == subs[x.sub]
<1>1. /\ x \in Worker /\ x.pc = "commit" /\ ~x.stale /\ HandOK(x)
      /\ x.adds => ~Exists(invs[x.key])
      /\ subs' = [subs EXCEPT ![x.sub] = x.draft]
      /\ invs' = IF Exists(x.bill) THEN [invs EXCEPT ![x.key] = x.bill] ELSE invs
  BY HandFacts DEF Commit, Conflicts
<1>2. x.sub \in Subs /\ Drafted(x)
  BY <1>1 DEF HandOK
<1>3. /\ row \in Row /\ row # NoRow /\ row.status # None /\ row.plan \in Plans
      /\ row.start \in Nat /\ row.end \in Nat
      /\ x.draft \in Row /\ x.bill \in Bill
  BY <1>1, <1>2, RowFacts DEF Drafted, IInv, StoreOK, RowsOK, Row, Worker
<1>4. /\ subs' \in [Subs -> Row] /\ subs'[x.sub] = x.draft
      /\ \A s \in Subs : s # x.sub => subs'[s] = subs[s]
  BY <1>1, <1>2, <1>3 DEF IInv, TypeOK
<1>5. invs' \in [Keys -> Bill]
  BY <1>1, <1>3 DEF IInv, TypeOK
<1>. HIDE DEF x
<1>6. CASE EndsIt(x, row)
  <2>1. invs' = invs /\ ~x.adds
    BY <1>1, <1>6 DEF EndsIt, NoBill, Exists
  <2>2. Keeps(x.draft, row)
    <3>1. ASSUME NEW immediately \in BOOLEAN, x.draft = Canceled(row, immediately)
          PROVE  Keeps(x.draft, row)
      BY <1>3, <3>1 DEF Keeps, Canceled, Row
    <3>2. CASE x.draft = Expired(row)
      BY <1>3, <3>2 DEF Keeps, Expired, Row
    <3>3. CASE ~Renews(row) /\ x.draft = Renewed(row)
      BY <1>3, <3>3 DEF Keeps, Renewed, Row
    <3>. QED  BY <1>6, <3>1, <3>2, <3>3 DEF EndsIt
  <2>. QED  BY <1>1, <1>2, <1>3, <1>4, <1>5, <2>1, <2>2 DEF x
<1>7. CASE Bills(x, row)
  <2>1. /\ x.adds /\ x.key \in Keys /\ x.bill.sub = x.sub
        /\ x.pays <=> (x.bill.status = "open")
        /\ x.bill.status \in {"open", "no_payment_due"}
    BY <1>7 DEF Bills
  <2>2. invs[x.key] = NoBill
    BY <1>1, <2>1 DEF IInv, StoreOK, BillsOK, Exists, Chargeable
  <2>3. Exists(x.bill)
    BY <2>1 DEF Exists
  <2>4. invs'[x.key] = x.bill /\ \A k \in Keys : k # x.key => invs'[k] = invs[k]
    BY <1>1, <2>1, <2>3 DEF IInv, TypeOK
  <2>5. CASE /\ IsDue(row, now) /\ Renews(row) /\ x.draft = Renewed(row)
             /\ x.key = RenewKey(x.sub, row.end) /\ x.bill.status = "open"
    <3>1. row.end + Interval[row.plan] \in Nat /\ row.end < row.end + Interval[row.plan]
      BY <1>3, PlansAssumption
    <3>2. Advances(x, row)
      BY <1>3, <2>1, <2>5, <3>1 DEF Advances, Renewed, Row
    <3>3. Adds(x, x.key)
      BY <2>1, <2>2, <2>4, <2>5, <3>2 DEF Adds
    <3>. QED  BY <1>1, <1>2, <1>3, <1>4, <1>5, <2>1, <2>4, <3>2, <3>3 DEF x
  <2>6. CASE /\ \E plan \in Plans : x.draft = PlanChanged(row, plan)
             /\ x.key[1] = "change"
             /\ \/ x.bill.status = "no_payment_due"
                \/ x.bill.status = "open" /\ row.status # "trialing"
    <3>1. Keeps(x.draft, row) /\ x.draft.status = row.status
      BY <1>3, <2>6 DEF Keeps, PlanChanged, Row
    <3>2. Adds(x, x.key)
      BY <2>1, <2>2, <2>4, <2>6, <3>1 DEF Adds
    <3>. QED  BY <1>1, <1>2, <1>3, <1>4, <1>5, <2>1, <2>4, <3>1, <3>2 DEF x
  <2>. QED  BY <1>7, <2>5, <2>6 DEF Bills
<1>8. CASE Reflects(x, row)
  <2>1. Keeps(x.draft, row)
    BY <1>2, <1>8, ReflectsRow
  <2>2. x.key \in Keys /\ Exists(invs[x.key]) /\ ~x.adds /\ invs[x.key] \in Bill
    BY <1>8 DEF Reflects, IInv, TypeOK
  <2>3. Exists(x.bill)
    BY <1>8, <2>2 DEF Reflects, Exists, MarkedPaid, Bill
  <2>4. invs'[x.key] = x.bill /\ \A k \in Keys : k # x.key => invs'[k] = invs[k]
    BY <1>1, <2>2, <2>3 DEF IInv, TypeOK
  <2>5. x.bill = invs[x.key] \/ Pays(x, x.key)
    BY <1>8, <2>2, <2>4 DEF Reflects, Pays
  <2>. QED  BY <1>1, <1>2, <1>3, <1>4, <1>5, <2>1, <2>2, <2>4, <2>5 DEF x
<1>. QED  BY <1>2, <1>6, <1>7, <1>8 DEF Drafted
\* The same facts, about any row and any invoice.
LEMMA CommitRows ==
  ASSUME IInv, NEW w \in Workers, Commit(w), NEW s \in Subs
  PROVE  LET x == wk[w] IN
         /\ subs[s] \in Row /\ subs'[s] \in Row
         /\ subs[s] = NoRow => subs'[s] = NoRow
         /\ subs[s] # NoRow => subs'[s] # NoRow /\ subs'[s].status # None
         /\ \/ subs'[s] = subs[s]
            \/ s = x.sub /\ subs'[s] = x.draft /\ Keeps(subs'[s], subs[s])
            \/ s = x.sub /\ subs'[s] = x.draft /\ Advances(x, subs[s])
         /\ subs[s].start <= subs'[s].start
<1>. DEFINE x == wk[w]
<1>1. /\ subs[s] \in Row /\ subs'[s] \in Row
      /\ subs[s].start \in Nat /\ subs[s].end \in Nat
      /\ subs[s] # NoRow => subs[s].status # None /\ subs[s].start < subs[s].end
  BY CommitFacts DEF IInv, TypeOK, Row, StoreOK, RowsOK
<1>2. /\ x.sub \in Subs /\ subs[x.sub] # NoRow /\ subs'[x.sub] = x.draft
      /\ s # x.sub => subs'[s] = subs[s]
      /\ Keeps(x.draft, subs[x.sub]) \/ Advances(x, subs[x.sub])
  BY CommitFacts
<1>. HIDE DEF x
<1>3. CASE s # x.sub
  BY <1>1, <1>2, <1>3 DEF x
<1>4. CASE s = x.sub
  <2>1. CASE Keeps(x.draft, subs[s])
    <3>1. subs'[s].status # None
      BY <1>1, <1>2, <1>4, <2>1 DEF Keeps, None, Live
    <3>. QED  BY <1>1, <1>2, <1>4, <2>1, <3>1 DEF Keeps, NoRow, x
  <2>2. CASE Advances(x, subs[s])
    BY <1>1, <1>2, <1>4, <2>2 DEF Advances, NoRow, None, x
  <2>. QED  BY <1>2, <1>4, <2>1, <2>2
<1>. QED  BY <1>3, <1>4

LEMMA CommitBills ==
  ASSUME IInv, NEW w \in Workers, Commit(w), NEW k \in Keys
  PROVE  LET x == wk[w] IN
         /\ invs[k] \in Bill /\ invs'[k] \in Bill
         /\ \/ invs'[k] = invs[k]
            \/ Adds(x, k)
            \/ Pays(x, k) /\ invs'[k].status = "paid"
                          /\ invs'[k].sub = invs[k].sub
                          /\ invs'[k].issuedAt = invs[k].issuedAt
         /\ Chargeable(invs[k]) => Chargeable(invs'[k])
         /\ Exists(invs[k]) => /\ Exists(invs'[k])
                               /\ invs'[k].sub = invs[k].sub
                               /\ invs'[k].issuedAt = invs[k].issuedAt
         /\ Exists(invs[k]) /\ invs[k].sub # x.sub => invs'[k] = invs[k]
<1>. DEFINE x == wk[w]
<1>1. /\ invs[k] \in Bill /\ invs'[k] \in Bill
      /\ invs'[k] = invs[k] \/ Adds(x, k) \/ Pays(x, k)
  BY CommitFacts DEF IInv, TypeOK
<1>2. Pays(x, k) => /\ invs'[k].status = "paid" /\ invs[k].sub = x.sub
                    /\ invs'[k].sub = invs[k].sub
                    /\ invs'[k].issuedAt = invs[k].issuedAt
  BY <1>1 DEF Pays, MarkedPaid, Bill
<1>3. Adds(x, k) => invs[k].status = "none"
  BY DEF Adds, NoBill
<1>. HIDE DEF x
<1>. QED  BY <1>1, <1>2, <1>3 DEF Chargeable, Exists, x
LEMMA CommitStore ==
  ASSUME IInv, NEW w \in Workers, Commit(w)
  PROVE  StoreOK'
<1>. DEFINE x == wk[w]
<1>1. now' = now /\ now \in Nat /\ provider' = provider
  BY BillingAssumption DEF Commit, IInv, TypeOK, Time
<1>2. RowsOK'
  <2>. SUFFICES ASSUME NEW s \in Subs, subs'[s] # NoRow
                PROVE  /\ subs'[s].status # None /\ subs'[s].plan \in Plans
                       /\ subs'[s].start < subs'[s].end /\ subs'[s].start <= now
    BY <1>1 DEF RowsOK
  <2>1. subs[s] # NoRow /\ subs'[s].status # None
    BY CommitRows
  <2>2. /\ subs[s].plan \in Plans /\ subs[s].start < subs[s].end /\ subs[s].start <= now
    BY <2>1 DEF IInv, StoreOK, RowsOK
  <2>3. CASE subs'[s] = subs[s]
    BY <2>1, <2>2, <2>3
  <2>4. CASE Keeps(subs'[s], subs[s])
    BY <2>1, <2>2, <2>4 DEF Keeps
  <2>5. CASE subs'[s] = x.draft /\ Advances(x, subs[s])
    BY <2>1, <2>2, <2>5 DEF Advances, IsDue
  <2>. QED  BY <2>3, <2>4, <2>5, CommitRows
<1>3. BillsOK'
  <2>. SUFFICES ASSUME NEW k \in Keys, invs'[k] # NoBill
                PROVE  /\ \/ Chargeable(invs'[k])
                          \/ invs'[k].status = "no_payment_due" /\ k[1] = "change"
                       /\ invs'[k].sub \in Subs
                       /\ subs'[invs'[k].sub] # NoRow
                       /\ k[1] # "change" => k[2] = invs'[k].sub
                       /\ k[1] = "initial" =>
                            invs'[k].issuedAt <= subs'[invs'[k].sub].start
    BY DEF BillsOK
  <2>1. CASE Adds(x, k)
    <3>1. /\ invs'[k].sub = x.sub /\ invs'[k].status \in {"open", "no_payment_due"}
          /\ x.sub \in Subs /\ subs'[x.sub] # NoRow
      BY <2>1, CommitFacts, CommitRows DEF Adds, Advances
    <3>2. CASE k[1] = "change"
      BY <3>1, <3>2 DEF Chargeable
    <3>3. CASE k = RenewKey(x.sub, subs[x.sub].end) /\ invs'[k].status = "open"
      BY <3>1, <3>3, KeyParts DEF Chargeable
    <3>. QED  BY <2>1, <3>2, <3>3 DEF Adds, Advances
  <2>2. CASE ~Adds(x, k)
    <3>1. Exists(invs[k]) /\ invs[k] # NoBill
      BY <2>2, CommitBills DEF Pays, Chargeable, Exists, NoBill, IInv, StoreOK, BillsOK
    <3>2. /\ invs'[k].sub = invs[k].sub /\ invs'[k].issuedAt = invs[k].issuedAt
          /\ Chargeable(invs'[k]) \/ invs'[k] = invs[k]
      BY <2>2, <3>1, CommitBills DEF Chargeable
    <3>3. /\ Chargeable(invs[k]) \/ (invs[k].status = "no_payment_due" /\ k[1] = "change")
          /\ invs[k].sub \in Subs
          /\ subs[invs[k].sub] # NoRow
          /\ k[1] # "change" => k[2] = invs[k].sub
          /\ k[1] = "initial" => invs[k].issuedAt <= subs[invs[k].sub].start
      BY <3>1 DEF IInv, StoreOK, BillsOK
    <3>4. subs'[invs[k].sub] # NoRow /\ subs[invs[k].sub].start <= subs'[invs[k].sub].start
      BY <3>3, CommitRows
    <3>5. /\ subs[invs[k].sub].start \in Nat /\ subs'[invs[k].sub].start \in Nat
          /\ k[1] = "initial" => invs[k].issuedAt \in Int
      BY <3>3, CommitRows DEF Row, IInv, TypeOK, Bill
    <3>. QED  BY <3>2, <3>3, <3>4, <3>5
  <2>. QED  BY <2>1, <2>2
<1>4. MoneyMatchesInvoices'
  <2>. SUFFICES ASSUME NEW k \in Keys
                PROVE  /\ invs'[k].status = "paid" => Collected(k)
                       /\ provider[k] # "none" => invs'[k].status \in {"open", "paid"}
    BY <1>1 DEF MoneyMatchesInvoices, Collected
  <2>1. /\ invs[k].status = "paid" => Collected(k)
        /\ provider[k] # "none" => Chargeable(invs[k])
    BY DEF IInv, StoreOK, MoneyMatchesInvoices, Chargeable
  <2>2. Adds(x, k) => invs'[k].status # "paid"
    BY DEF Adds, Advances
  <2>3. Pays(x, k) => Collected(k)
    BY DEF Pays
  <2>. QED  BY <2>1, <2>2, <2>3, CommitBills DEF Chargeable
<1>5. CurrentPeriodInvoiced'
  <2>. SUFFICES ASSUME NEW s \in Subs, subs'[s].status \in {"active", "past_due"}
                PROVE  \/ Chargeable(invs'[RenewKey(s, subs'[s].start)])
                       \/ /\ Chargeable(invs'[InitialKey(s)])
                          /\ invs'[InitialKey(s)].issuedAt = subs'[s].start
    BY DEF CurrentPeriodInvoiced, Chargeable, RenewKey, InitialKey
  <2>1. CASE subs'[s] = subs[s] \/ Keeps(subs'[s], subs[s])
    <3>1. subs'[s].start = subs[s].start /\ subs[s].status \in {"active", "past_due"}
      BY <2>1 DEF Keeps, Live
    <3>2. subs[s].start \in Time
      BY <3>1, BillingAssumption, CommitRows
         DEF IInv, TypeOK, StoreOK, RowsOK, Row, Time, NoRow, None
    <3>3. InitialKey(s) \in Keys /\ RenewKey(s, subs[s].start) \in Keys
      BY <3>2, KeysInKeys
    <3>4. \/ Chargeable(invs[RenewKey(s, subs[s].start)])
          \/ /\ Chargeable(invs[InitialKey(s)])
             /\ invs[InitialKey(s)].issuedAt = subs[s].start
      BY <3>1 DEF IInv, StoreOK, CurrentPeriodInvoiced, Chargeable
    <3>. QED  BY <3>1, <3>3, <3>4, CommitBills DEF Chargeable, Exists
  <2>2. CASE s = x.sub /\ subs'[s] = x.draft /\ Advances(x, subs[s])
    <3>1. Adds(x, x.key) /\ x.key = RenewKey(s, subs'[s].start) /\ x.bill.status = "open"
      BY <2>2, CommitFacts DEF Advances
    <3>. QED  BY <3>1 DEF Adds, Chargeable
  <2>. QED  BY <2>1, <2>2, CommitRows
<1>6. NoPeriodInvoicedTwice'
  <2>. SUFFICES ASSUME NEW s \in Subs, NEW t \in Time, Exists(invs'[RenewKey(s, t)])
                PROVE  /\ t <= subs'[s].start
                       /\ Exists(invs'[InitialKey(s)]) => invs'[InitialKey(s)].issuedAt < t
    BY DEF NoPeriodInvoicedTwice, InitialKey, RenewKey
  <2>. DEFINE k == RenewKey(s, t)
              i == InitialKey(s)
  <2>1. /\ k \in Keys /\ i \in Keys /\ k[1] = "renew" /\ k[2] = s /\ k[3] = t
        /\ i[1] = "initial" /\ i[2] = s
        /\ t \in Nat /\ subs[s].start \in Nat /\ subs'[s].start \in Nat
    BY KeysInKeys, KeyParts, CommitRows, BillingAssumption DEF Time, Row
  <2>. HIDE DEF k, i
  <2>2. ~Adds(x, i)
    BY <2>1, KeyParts DEF Adds
  <2>3. Exists(invs'[i]) => Exists(invs[i]) /\ invs'[i].issuedAt = invs[i].issuedAt
    BY <2>1, <2>2, CommitBills DEF Pays, Chargeable, Exists
  <2>4. CASE Exists(invs[k])
    <3>1. t <= subs[s].start /\ (Exists(invs[i]) => invs[i].issuedAt < t)
      BY <2>4 DEF IInv, StoreOK, NoPeriodInvoicedTwice, k, i
    <3>2. subs[s].start <= subs'[s].start
      BY CommitRows
    <3>. QED  BY <2>1, <2>3, <3>1, <3>2 DEF i
  <2>5. CASE ~Exists(invs[k])
    <3>1. Adds(x, k)
      BY <2>1, <2>5, CommitBills DEF Pays, Chargeable, Exists, k
    <3>2. Advances(x, subs[x.sub]) /\ k = RenewKey(x.sub, subs[x.sub].end)
      BY <2>1, <3>1 DEF Adds
    <3>3. s = x.sub /\ t = subs[s].end
      BY <2>1, <3>2, KeyParts
    <3>4. subs'[s].start = t /\ subs[s].start < t
      BY <3>2, <3>3, CommitFacts, RowFacts DEF Advances, IsDue, Live, None, IInv
    <3>5. Exists(invs[i]) => invs[i] \in Bill /\ invs[i].issuedAt <= subs[s].start
      BY <2>1 DEF IInv, TypeOK, StoreOK, BillsOK, Exists, NoBill
    <3>. QED  BY <2>1, <2>3, <3>4, <3>5 DEF i, Bill
  <2>. QED  BY <2>4, <2>5
<1>7. TrialOwesNothing'
  <2>. SUFFICES ASSUME NEW s \in Subs, NEW k \in Keys, subs'[s].status = "trialing",
                       invs'[k].sub = s
                PROVE  invs'[k].status = "no_payment_due"
    BY DEF TrialOwesNothing
  <2>1. subs[s].status = "trialing"
    BY CommitRows DEF Keeps, Advances
  <2>2. CASE Adds(x, k)
    <3>1. s = x.sub /\ subs'[s] = x.draft /\ invs'[k] = x.bill
      BY <2>2, CommitFacts DEF Adds
    <3>. QED  BY <2>2, <3>1 DEF Adds, Advances
  <2>3. CASE ~Adds(x, k)
    <3>1. invs[k].sub = s
      BY <2>3, CommitBills
    <3>2. invs[k].status = "no_payment_due"
      BY <2>1, <3>1 DEF IInv, StoreOK, TrialOwesNothing
    <3>. QED  BY <2>3, <3>2, CommitBills DEF Pays, Chargeable
  <2>. QED  BY <2>2, <2>3
<1>. QED  BY <1>2, <1>3, <1>4, <1>5, <1>6, <1>7 DEF StoreOK
LEMMA CommitHands ==
  ASSUME IInv, NEW w \in Workers, Commit(w)
  PROVE  wk' \in [Workers -> Worker] /\ HandsOK'
<1>. DEFINE x == wk[w]
<1>1. /\ x \in Worker /\ HandOK(x) /\ ListOK(x) /\ x.pc = "commit"
      /\ x.sub \in Subs /\ Drafted(x)
  BY HandFacts, CommitFacts DEF Commit
<1>2. /\ UNCHANGED <<now, provider>>
      /\ wk' = [v \in Workers |->
                  IF v = w THEN AfterCommit(x)
                  ELSE IF wk[v].pc = "commit" /\ wk[v].sub = x.sub
                  THEN [wk[v] EXCEPT !.stale = TRUE]
                  ELSE wk[v]]
  BY DEF Commit
<1>3. \A k \in Keys : Chargeable(invs[k]) => Chargeable(invs'[k])
  BY CommitBills
<1>4. AfterCommit(x) \in Worker /\ \A y : y = AfterCommit(x) => HandOK(y)'
  <2>1. CASE x.pays
    <3>1. PICK z : z = x
      OBVIOUS
    <3>2. x.adds /\ x.bill.status = "open" /\ x.job # "expire"
      BY <1>1, <2>1 DEF Drafted, EndsIt, Bills, Reflects
    <3>3. x.key \in Keys /\ Chargeable(invs'[x.key])
      BY <3>2, CommitFacts DEF Adds, Chargeable
    <3>4. AfterCommit(x) = Charging(x, x.key)
      BY <2>1 DEF AfterCommit
    <3>5. ASSUME NEW y, y = Charging(x, x.key)
          PROVE  HandOK(y)'
      <4>1. y.pc = "charge" /\ y.key = x.key /\ Returns(y, x)
        BY <1>1, <3>3, <3>5, ChargingFields
      <4>2. ListOK(y)
        BY <1>1, <4>1, ListFields
      <4>3. y.job # "expire"
        BY <3>2, <4>1 DEF Returns
      <4>4. y.key \in Keys /\ Chargeable(invs'[y.key])
        BY <3>3, <4>1
      <4>. QED  BY <1>3, <4>1, <4>2, <4>3, <4>4 DEF HandOK, ListOK, Batches
    <3>. QED  BY <1>1, <3>3, <3>4, <3>5, ChargingWorker
  <2>2. CASE ~x.pays
    <3>1. AfterCommit(x) = Resume(x)
      BY <2>2 DEF AfterCommit
    <3>2. ASSUME NEW y, y = Resume(x)
          PROVE  HandOK(y)'
      <4>1. HandOK(y) /\ y.pc # "commit"
        BY <1>1, <3>2, ResumeHand, ResumeFields DEF Worker, Batches, None
      <4>. QED  BY <1>2, <1>3, <4>1, HandKept
    <3>. QED  BY <1>1, <3>1, <3>2, ResumeWorker
  <2>. QED  BY <2>1, <2>2
<1>5. ASSUME NEW v \in Workers
      PROVE  wk'[v] \in Worker /\ HandOK(wk[v])'
  <2>1. CASE v = w
    <3>1. PICK y : y = AfterCommit(x)
      OBVIOUS
    <3>2. wk'[v] = y
      BY <1>2, <2>1, <3>1
    <3>. QED  BY <1>4, <3>1, <3>2
  <2>2. CASE v # w /\ wk[v].pc = "commit" /\ wk[v].sub = x.sub
    <3>1. PICK y : y = [wk[v] EXCEPT !.stale = TRUE]
      OBVIOUS
    <3>2. /\ y \in Worker /\ y.stale
          /\ y.pc = "commit" /\ y.sub = x.sub /\ y.job = wk[v].job /\ y.todo = wk[v].todo
      BY <2>2, <3>1, HandFacts DEF Worker
    <3>3. ListOK(y)
      BY <3>2, HandFacts DEF ListOK
    <3>4. HandOK(y)'
      BY <1>1, <1>3, <3>2, <3>3 DEF HandOK, ListOK, Batches
    <3>5. wk'[v] = y
      BY <1>2, <2>2, <3>1
    <3>. QED  BY <3>2, <3>4, <3>5
  <2>3. CASE v # w /\ ~(wk[v].pc = "commit" /\ wk[v].sub = x.sub)
    <3>1. PICK y : y = wk[v]
      OBVIOUS
    <3>2. y \in Worker /\ HandOK(y) /\ (y.pc = "commit" => y.sub \in Subs /\ y.sub # x.sub)
      BY <2>3, <3>1, HandFacts DEF HandOK
    <3>3. y.pc = "commit" => subs'[y.sub] = subs[y.sub]
      BY <3>2, CommitFacts
    <3>4. y.pc = "commit" =>
            \A k \in Keys : Exists(invs[k]) /\ invs[k].sub = y.sub => invs'[k] = invs[k]
      BY <3>2, CommitBills
    <3>5. HandOK(y)'
      BY <1>2, <1>3, <3>2, <3>3, <3>4, HandKept
    <3>6. wk'[v] = y
      BY <1>2, <2>3, <3>1
    <3>. QED  BY <3>2, <3>5, <3>6
  <2>. QED  BY <2>1, <2>2, <2>3
<1>6. wk' \in [Workers -> Worker]
  BY <1>2, <1>5
<1>. QED  BY <1>5, <1>6 DEF HandsOK

LEMMA CommitStep ==
  ASSUME IInv, NEW w \in Workers, Commit(w)
  PROVE  IInv'
<1>1. TypeOK'
  BY CommitFacts, CommitHands DEF Commit, IInv, TypeOK
<1>. QED  BY <1>1, CommitStore, CommitHands DEF IInv

----------------------------------------------------------------------------
(* The invariant *)

LEMMA InitIInv ==
  ASSUME Init
  PROVE  IInv
<1>1. TypeOK
  BY NoRowType, IdleWorker, BillingAssumption DEF Init, TypeOK, Time, Outcome
<1>2. StoreOK
  <2>1. \A s \in Subs : subs[s].status = None
    BY DEF Init, NoRow
  <2>2. \A k \in Keys : invs[k].status = "none" /\ provider[k] = "none"
    BY DEF Init, NoBill
  <2>3. RowsOK /\ BillsOK
    BY DEF Init, RowsOK, BillsOK
  <2>4. MoneyMatchesInvoices
    BY <2>2 DEF MoneyMatchesInvoices
  <2>5. CurrentPeriodInvoiced /\ TrialOwesNothing
    BY <2>1 DEF CurrentPeriodInvoiced, TrialOwesNothing, None
  <2>6. NoPeriodInvoicedTwice
    BY <2>2, KeysInKeys DEF NoPeriodInvoicedTwice, Exists
  <2>. QED  BY <2>3, <2>4, <2>5, <2>6 DEF StoreOK
<1>3. HandsOK
  BY IdleHand DEF Init, HandsOK
<1>. QED  BY <1>1, <1>2, <1>3 DEF IInv

LEMMA StutterIInv ==
  ASSUME IInv, UNCHANGED vars
  PROVE  IInv'
<1>1. NothingSaved
  BY BillingAssumption DEF vars, NothingSaved, IInv, TypeOK, Time, Collected
<1>2. TypeOK' /\ StoreOK'
  BY <1>1, StoreStays DEF IInv, TypeOK, vars
<1>3. ASSUME NEW v \in Workers
      PROVE  HandOK(wk[v])'
  <2>1. PICK x : x = wk[v]
    OBVIOUS
  <2>2. HandOK(x)'
    BY <1>1, <2>1, HandStays, HandFacts DEF IInv
  <2>. QED  BY <2>1, <2>2 DEF vars
<1>. QED  BY <1>2, <1>3 DEF IInv, HandsOK

LEMMA NextIInv ==
  ASSUME IInv, [Next]_vars
  PROVE  IInv'
<1>1. CASE Tick
  BY <1>1, TickStep
<1>2. ASSUME NEW k \in Keys, Recover(k)
      PROVE  IInv'
  BY <1>2, RecoverStep
<1>3. ASSUME NEW w \in Workers, Request(w)
      PROVE  IInv'
  <2>1. ASSUME NEW s \in Subs, NEW plan \in Plans, NEW trial \in Trials,
               Subscribe(w, s, plan, trial)
        PROVE  IInv'
    BY <2>1, SubscribeStep
  <2>2. ASSUME NEW s \in Subs, NEW plan \in Plans, NEW r \in Requests,
               ChangePlan(w, s, plan, r)
        PROVE  IInv'
    BY <2>2, ChangePlanStep
  <2>3. ASSUME NEW s \in Subs, NEW immediately \in BOOLEAN, Cancel(w, s, immediately)
        PROVE  IInv'
    BY <2>3, CancelStep
  <2>4. ASSUME NEW k \in Keys, RecordSuccess(w, k) \/ RecordFailure(w, k)
        PROVE  IInv'
    BY <2>4, RecordSuccessStep, RecordFailureStep
  <2>5. CASE ListDue(w) \/ ListUnsettled(w)
    BY <2>5, ListStep
  <2>. QED  BY <1>3, <2>1, <2>2, <2>3, <2>4, <2>5 DEF Request
<1>4. ASSUME NEW w \in Workers, Proceed(w)
      PROVE  IInv'
  BY <1>4, GiveUpStep, ReflectStep, RenewOneStep, ListStep, ExpireOneStep, SettleOneStep
     DEF Proceed
<1>5. ASSUME NEW w \in Workers, Commit(w)
      PROVE  IInv'
  BY <1>5, CommitStep
<1>6. ASSUME NEW w \in Workers, GatewayAnswers(w) \/ GatewayUnreachable(w)
      PROVE  IInv'
  BY <1>6, GatewayAnswersStep, GatewayUnreachableStep
<1>7. ASSUME NEW w \in Workers, Crash(w)
      PROVE  IInv'
  BY <1>7, CrashStep
<1>8. CASE UNCHANGED vars
  BY <1>8, StutterIInv
<1>. QED  BY <1>1, <1>2, <1>3, <1>4, <1>5, <1>6, <1>7, <1>8 DEF Next

\* IInv is an invariant: what the use cases leave in the store, and what every
\* worker has in hand, fit together at every moment of every run.
THEOREM Inductive == Spec => []IInv
  BY InitIInv, NextIInv, PTL DEF Spec

\* The state is well typed.
THEOREM TypeCorrect == Spec => []TypeOK
<1>1. IInv => TypeOK
  BY DEF IInv
<1>. QED  BY <1>1, Inductive, PTL

\* No invoice is PAID without the provider having the money, and no money is
\* ever asked for an invoice that owes none.
THEOREM MoneyIsAccountedFor == Spec => []MoneyMatchesInvoices
<1>1. IInv => MoneyMatchesInvoices
  BY DEF IInv, StoreOK
<1>. QED  BY <1>1, Inductive, PTL

\* A subscription in force is on a period that was invoiced.
THEOREM NoFreePeriod == Spec => []CurrentPeriodInvoiced
<1>1. IInv => CurrentPeriodInvoiced
  BY DEF IInv, StoreOK
<1>. QED  BY <1>1, Inductive, PTL

\* And no period is invoiced under two keys.
THEOREM NoDoubleInvoice == Spec => []NoPeriodInvoicedTwice
<1>1. IInv => NoPeriodInvoicedTwice
  BY DEF IInv, StoreOK
<1>. QED  BY <1>1, Inductive, PTL

\* A trial owes nothing, whatever plan changes happen in it.
THEOREM TrialIsFree == Spec => []TrialOwesNothing
<1>1. IInv => TrialOwesNothing
  BY DEF IInv, StoreOK
<1>. QED  BY <1>1, Inductive, PTL
----------------------------------------------------------------------------
(* Properties of steps *)

\* The store changes in two ways only.
LEMMA OnlySubscribeAndCommitSave ==
  ASSUME [Next]_vars
  PROVE  \/ UNCHANGED <<subs, invs>>
         \/ \E w \in Workers, s \in Subs, plan \in Plans, trial \in Trials :
              Subscribe(w, s, plan, trial)
         \/ \E w \in Workers : Commit(w)
<1>1. CASE Tick \/ UNCHANGED vars
  BY <1>1 DEF Tick, vars
<1>2. ASSUME NEW k \in Keys, Recover(k)
      PROVE  UNCHANGED <<subs, invs>>
  BY <1>2 DEF Recover
<1>3. ASSUME NEW w \in Workers, Request(w)
      PROVE  \/ UNCHANGED <<subs, invs>>
             \/ \E s \in Subs, plan \in Plans, trial \in Trials :
                  Subscribe(w, s, plan, trial)
  BY <1>3 DEF Request, ChangePlan, Cancel, RecordSuccess, RecordFailure, ListDue,
              ListUnsettled
<1>4. ASSUME NEW w \in Workers,
             Proceed(w) \/ GatewayAnswers(w) \/ GatewayUnreachable(w) \/ Crash(w)
      PROVE  UNCHANGED <<subs, invs>>
  BY <1>4 DEF Proceed, CommitRaises, Reflect, ReflectRaises, RenewOne, RenewRaises,
              ListPastDue, ExpireOne, SettleOne, EndBatch, GatewayAnswers,
              GatewayUnreachable, Crash
<1>. QED  BY <1>1, <1>2, <1>3, <1>4 DEF Next

\* What Commit does to a row, draft by draft.
LEMMA CommittedDraft ==
  ASSUME IInv, NEW w \in Workers, Commit(w)
  PROVE  LET x == wk[w]
             row == subs[x.sub] IN
         /\ row.status \notin Live => x.draft = row
         /\ row.status = "past_due" /\ x.draft.status = "past_due" =>
              x.draft.since = row.since
         /\ x.job = "expire" => GraceOver(row, now)
<1>. DEFINE x   == wk[w]
            row == subs[x.sub]
<1>1. Drafted(x) /\ row \in Row
  BY CommitFacts
<1>. HIDE DEF x
<1>2. CASE EndsIt(x, row)
  BY <1>1, <1>2 DEF EndsIt, Canceled, Expired, Renewed, Row, x
<1>3. CASE Bills(x, row)
  BY <1>1, <1>3 DEF Bills, IsDue, CanChangePlan, Renews, Renewed, PlanChanged, Row, x
<1>4. CASE Reflects(x, row)
  BY <1>1, <1>4 DEF Reflects, PaymentSucceeded, PaymentFailed, Live, Row, x
<1>. QED  BY <1>1, <1>2, <1>3, <1>4 DEF Drafted

\* Whatever was under way when a subscription was canceled, by a customer, by
\* the end of a period or for nonpayment, it stays as it is.
THEOREM CanceledStays == Spec => CanceledIsTerminal
<1>1. ASSUME IInv, [Next]_vars
      PROVE  \A s \in Subs : subs[s].status = "canceled" => subs'[s] = subs[s]
  <2>. SUFFICES ASSUME NEW s \in Subs, subs[s].status = "canceled"
                PROVE  subs'[s] = subs[s]
    OBVIOUS
  <2>1. ASSUME NEW w \in Workers, Commit(w)
        PROVE  subs'[s] = subs[s]
    BY <1>1, <2>1, CommitFacts, CommittedDraft DEF Live
  <2>2. ASSUME NEW w \in Workers, NEW z \in Subs, NEW plan \in Plans,
               NEW trial \in Trials, Subscribe(w, z, plan, trial)
        PROVE  subs'[s] = subs[s]
    BY <1>1, <2>2 DEF Subscribe, NoRow, None, IInv, TypeOK
  <2>. QED  BY <1>1, <2>1, <2>2, OnlySubscribeAndCommitSave
<1>. QED  BY <1>1, Inductive, PTL DEF Spec, CanceledIsTerminal

\* What a step may do to an invoice that has been issued.
LEMMA InvoiceStep ==
  ASSUME IInv, [Next]_vars, NEW k \in Keys, Exists(invs[k])
  PROVE  \/ invs'[k] = invs[k]
         \/ invs[k].status = "open" /\ invs'[k] = MarkedPaid(invs[k])
<1>1. ASSUME NEW w \in Workers, Commit(w)
      PROVE  \/ invs'[k] = invs[k]
             \/ invs[k].status = "open" /\ invs'[k] = MarkedPaid(invs[k])
  <2>1. invs[k] \in Bill /\ ~Adds(wk[w], k)
    BY DEF IInv, TypeOK, Adds, Exists, NoBill
  <2>2. CASE Pays(wk[w], k)
    BY <2>1, <2>2 DEF Pays, Chargeable, MarkedPaid, Bill
  <2>. QED  BY <1>1, <2>1, <2>2, CommitFacts
<1>2. ASSUME NEW w \in Workers, NEW s \in Subs, NEW plan \in Plans,
             NEW trial \in Trials, Subscribe(w, s, plan, trial)
      PROVE  invs'[k] = invs[k]
  <2>1. invs[k] # NoBill /\ subs[invs[k].sub] # NoRow /\ (k[1] # "change" => k[2] = invs[k].sub)
    BY DEF IInv, StoreOK, BillsOK, Exists, NoBill
  <2>2. k # InitialKey(s)
    BY <1>2, <2>1 DEF Subscribe, InitialKey
  <2>. QED  BY <1>2, <2>2 DEF Subscribe, IInv, TypeOK
<1>. QED  BY <1>1, <1>2, OnlySubscribeAndCommitSave

\* An invoice is written once, under a key nobody used, and then only paid.
THEOREM InvoicesOnlyGetPaid == Spec => InvoiceOnlyEverPaid
<1>1. ASSUME IInv, [Next]_vars
      PROVE  \A k \in Keys : Exists(invs[k]) =>
               \/ invs'[k] = invs[k]
               \/ invs[k].status = "open" /\ invs'[k] = MarkedPaid(invs[k])
  BY <1>1, InvoiceStep
<1>. QED  BY <1>1, Inductive, PTL DEF Spec, InvoiceOnlyEverPaid

\* The batch never cancels for nonpayment a subscription that has been paid
\* since the batch looked, nor one that is still within its grace period.
THEOREM GraceIsRespected == Spec => NobodyExpiresEarly
<1>. DEFINE Late(w) == LET row == subs[wk[w].sub] IN
                       wk[w].job = "expire" /\ wk[w].pc = "commit" /\ subs' # subs
                         /\ wk'[w].pc # "commit" =>
                       row.status = "past_due" /\ now - row.since >= Grace
<1>1. ASSUME IInv, [Next]_vars
      PROVE  \A w \in Workers : Late(w)
  <2>. SUFFICES ASSUME NEW w \in Workers, wk[w].job = "expire", wk[w].pc = "commit",
                       subs' # subs, wk'[w].pc # "commit"
                PROVE  GraceOver(subs[wk[w].sub], now)
    BY DEF GraceOver
  <2>1. ASSUME NEW v \in Workers, Commit(v)
        PROVE  v = w
    BY <1>1, <2>1 DEF Commit, IInv, TypeOK, Worker
  <2>2. ASSUME NEW v \in Workers, NEW s \in Subs, NEW plan \in Plans,
               NEW trial \in Trials, Subscribe(v, s, plan, trial)
        PROVE  FALSE
    BY <1>1, <2>2 DEF Subscribe, Starts, Goto, IInv, TypeOK
  <2>. QED  BY <1>1, <2>1, <2>2, OnlySubscribeAndCommitSave, CommittedDraft
<1>. QED  BY <1>1, Inductive, PTL DEF Spec, NobodyExpiresEarly

\* However often a charge is retried or declined, while a subscription stays
\* past due its grace period goes on from the first failure.
THEOREM GraceStartIsKept == Spec => GraceRunsFromFirstFailure
<1>1. ASSUME IInv, [Next]_vars
      PROVE  \A s \in Subs : subs[s].status = "past_due" /\ subs'[s].status = "past_due" =>
               subs'[s].since = subs[s].since
  <2>. SUFFICES ASSUME NEW s \in Subs, subs[s].status = "past_due",
                       subs'[s].status = "past_due"
                PROVE  subs'[s].since = subs[s].since
    OBVIOUS
  <2>1. ASSUME NEW w \in Workers, Commit(w)
        PROVE  subs'[s].since = subs[s].since
    BY <1>1, <2>1, CommitFacts, CommittedDraft
  <2>2. ASSUME NEW w \in Workers, NEW z \in Subs, NEW plan \in Plans,
               NEW trial \in Trials, Subscribe(w, z, plan, trial)
        PROVE  subs'[s] = subs[s]
    BY <1>1, <2>2 DEF Subscribe, NoRow, None, IInv, TypeOK
  <2>. QED  BY <1>1, <2>1, <2>2, OnlySubscribeAndCommitSave
<1>. QED  BY <1>1, Inductive, PTL DEF Spec, GraceRunsFromFirstFailure
============================================================================
