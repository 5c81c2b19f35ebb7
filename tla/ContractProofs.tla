--------------------------- MODULE ContractProofs ---------------------------
(***************************************************************************)
(* Proof that the use cases keep the contract: every step of theirs is one *)
(* step of Contract, on the accounts and invoices as a customer sees them, *)
(* or none.                                                                *)
(***************************************************************************)
EXTENDS BillingProofs

\* What a customer sees of a row, and of an invoice.
Standing(row) == [phase |-> Phase(row.status), from |-> row.start, to |-> row.end]
Asked(bill)   == [owner |-> bill.sub, state |-> State(bill.status)]

Accounts == [s \in Subs |-> [phase |-> Phase(subs[s].status),
                             from |-> subs[s].start, to |-> subs[s].end]]
Asks     == [k \in Keys |-> [owner |-> invs[k].sub, state |-> State(invs[k].status)]]
Money    == {k \in Keys : Collected(k)}

LEMMA Phases ==
  /\ Phase(None) = "none"
  /\ Phase("trialing") = "trial"
  /\ Phase("active") = "live"
  /\ Phase("past_due") = "live"
  /\ Phase("canceled") = "ended"
  BY DEF Phase, None

LEMMA States ==
  /\ State("no_payment_due") = "free"
  /\ State("open") = "open" /\ State("paid") = "paid" /\ State("none") = "none"
  BY DEF State

\* The accounts and the invoices, one by one.
LEMMA SeenOneByOne ==
  /\ \A s \in Subs : Accounts[s] = Standing(subs[s]) /\ Accounts'[s] = Standing(subs'[s])
  /\ \A k \in Keys : Asks[k] = Asked(invs[k]) /\ Asks'[k] = Asked(invs'[k])
  BY DEF Accounts, Asks, Standing, Asked

\* A new invoice is seen where there was none.
LEMMA NewSeen ==
  /\ Asked(NoBill) = [owner |-> "none", state |-> "none"]
  /\ \A s, at : Asked(Issued(s, at)) = [owner |-> s, state |-> "open"]
<1>1. NoBill.sub = "none" /\ NoBill.status = "none"
  BY DEF NoBill
<1>2. \A s, at : Issued(s, at).sub = s /\ Issued(s, at).status = "open"
  BY DEF Issued
<1>. QED  BY <1>1, <1>2, States DEF Asked

LEMMA SeenFields ==
  ASSUME NEW row, NEW bill
  PROVE  /\ Standing(row).phase = Phase(row.status)
         /\ Standing(row).from = row.start
         /\ Standing(row).to = row.end
         /\ Asked(bill).owner = bill.sub
         /\ Asked(bill).state = State(bill.status)
  BY DEF Standing, Asked

\* An account that ends, an invoice that is paid.
LEMMA SeenChanges ==
  /\ \A row, z : z.status = "canceled" /\ z.start = row.start /\ z.end = row.end =>
       Standing(z) = [Standing(row) EXCEPT !.phase = "ended"]
  /\ \A bill, z : z.status = "paid" /\ z.sub = bill.sub =>
       Asked(z) = [Asked(bill) EXCEPT !.state = "paid"]
<1>1. \A p, f, t : [[phase |-> p, from |-> f, to |-> t] EXCEPT !.phase = "ended"]
                   = [phase |-> "ended", from |-> f, to |-> t]
  OBVIOUS
<1>2. \A o, a : [[owner |-> o, state |-> a] EXCEPT !.state = "paid"]
                = [owner |-> o, state |-> "paid"]
  OBVIOUS
<1>. QED  BY <1>1, <1>2, Phases, States DEF Standing, Asked

LEMMA OneAccount ==
  ASSUME NEW s \in Subs, \A z \in Subs : z # s => subs'[z] = subs[z]
  PROVE  /\ Accounts' = [Accounts EXCEPT ![s] = Accounts'[s]]
         /\ Standing(subs'[s]) = Standing(subs[s]) => Accounts' = Accounts
<1>1. \A z \in Subs : z # s => Accounts'[z] = Accounts[z]
  BY SeenOneByOne
<1>2. Accounts' = [z \in Subs |-> Accounts'[z]] /\ Accounts = [z \in Subs |-> Accounts[z]]
  BY DEF Accounts
<1>. QED  BY <1>1, <1>2, SeenOneByOne

LEMMA OneInvoice ==
  ASSUME NEW k \in Keys, \A j \in Keys : j # k => invs'[j] = invs[j]
  PROVE  /\ Asks' = [Asks EXCEPT ![k] = Asked(invs'[k])]
         /\ Asked(invs'[k]) = Asked(invs[k]) => Asks' = Asks
<1>1. \A j \in Keys : j # k => Asks'[j] = Asks[j]
  BY SeenOneByOne
<1>2. Asks' = [j \in Keys |-> Asks'[j]] /\ Asks = [j \in Keys |-> Asks[j]]
  BY DEF Asks
<1>. QED  BY <1>1, <1>2, SeenOneByOne

----------------------------------------------------------------------------
(* Money *)

Unseen == UNCHANGED <<Accounts, Asks, Money>>

\* What the provider does under a key, it does once, and for an invoice that is open.
LEMMA Collects ==
  ASSUME IInv, NEW k \in Keys, NEW outcome \in Outcome,
         Collected(k) => outcome \in {"succeeded", "recovered"},
         outcome # "none" => Chargeable(invs[k]),
         provider' = [provider EXCEPT ![k] = outcome], UNCHANGED <<subs, invs>>
  PROVE  Unseen \/ Promise!Collect(k)
<1>1. Accounts' = Accounts /\ Asks' = Asks
  BY DEF Accounts, Asks
<1>2. \A j \in Keys : provider'[j] = IF j = k THEN outcome ELSE provider[j]
  BY DEF IInv, TypeOK
<1>3. CASE outcome \in {"succeeded", "recovered"} /\ ~Collected(k)
  <2>1. invs[k].status = "open"
    BY <1>3 DEF IInv, StoreOK, MoneyMatchesInvoices, Chargeable
  <2>2. Asks[k].state = "open"
    BY <2>1, SeenOneByOne, SeenFields, States
  <2>3. k \notin Money /\ Money' = Money \cup {k}
    BY <1>2, <1>3 DEF Money, Collected
  <2>. QED  BY <1>1, <2>2, <2>3 DEF Promise!Collect, Accounts, Asks, Money
<1>4. CASE outcome \notin {"succeeded", "recovered"} \/ Collected(k)
  <2>1. Money' = Money
    BY <1>2, <1>4 DEF Money, Collected
  <2>. QED  BY <1>1, <2>1 DEF Unseen
<1>. QED  BY <1>3, <1>4

LEMMA GatewayCollects ==
  ASSUME IInv, NEW w \in Workers, GatewayAnswers(w) \/ GatewayUnreachable(w)
  PROVE  Unseen \/ \E k \in Keys : Promise!Collect(k)
<1>. DEFINE x == wk[w]
<1>1. x.key \in Keys /\ Chargeable(invs[x.key])
  BY HandFacts DEF GatewayAnswers, GatewayUnreachable, HandOK
<1>2. PICK outcome \in Outcomes(x.key) \cup {provider[x.key]} :
        provider' = [provider EXCEPT ![x.key] = outcome]
  BY DEF GatewayAnswers, GatewayUnreachable
<1>3. outcome \in Outcome /\ (Collected(x.key) => outcome \in {"succeeded", "recovered"})
  BY <1>1, OutcomeFacts DEF Collected, IInv, TypeOK
<1>4. UNCHANGED <<subs, invs>>
  BY DEF GatewayAnswers, GatewayUnreachable
<1>5. PICK k \in Keys : k = x.key
  BY <1>1
<1>6. Unseen \/ Promise!Collect(k)
  BY <1>1, <1>2, <1>3, <1>4, <1>5, Collects
<1>. QED  BY <1>6

LEMMA RecoveryCollects ==
  ASSUME IInv, NEW k \in Keys, Recover(k)
  PROVE  Unseen \/ Promise!Collect(k)
<1>1. Chargeable(invs[k])
  BY DEF Recover, IInv, StoreOK, MoneyMatchesInvoices, Chargeable
<1>. QED  BY <1>1, Collects DEF Recover, Outcome

----------------------------------------------------------------------------
(* Subscriptions *)

LEMMA SubscribeJoins ==
  ASSUME IInv, NEW w \in Workers, NEW s \in Subs, NEW plan \in Plans, NEW trial \in Trials,
         Subscribe(w, s, plan, trial)
  PROVE  Promise!Join(s)
<1>. DEFINE row == Subscribed(plan, now, trial)
            k   == InitialKey(s)
<1>1. now \in Nat /\ trial \in Nat
  BY BillingAssumption DEF IInv, TypeOK, Time
<1>2. /\ row.status = IF trial = 0 THEN "active" ELSE "trialing"
      /\ row.start < row.end
  BY <1>1, SubscribedRow
<1>3. subs[s] = NoRow /\ subs' = [subs EXCEPT ![s] = row] /\ provider' = provider
  BY DEF Subscribe
<1>. HIDE DEF row
<1>4. subs'[s] = row /\ \A z \in Subs : z # s => subs'[z] = subs[z]
  BY <1>3 DEF IInv, TypeOK
<1>5. Accounts[s].phase = "none"
  BY <1>3, SeenOneByOne, SeenFields, Phases DEF NoRow
<1>6. Accounts' = [Accounts EXCEPT ![s] = Accounts'[s]]
  BY <1>4, OneAccount
<1>7. /\ Accounts'[s].phase = Phase(row.status)
      /\ Accounts'[s].from = row.start /\ Accounts'[s].to = row.end
  BY <1>4, SeenOneByOne, SeenFields
<1>8. row.start \in Nat /\ row.end \in Nat /\ Accounts'[s].to > Accounts'[s].from
  BY <1>1, <1>2, <1>7, SubscribedRow DEF row, Row
<1>9. Money' = Money
  BY <1>3 DEF Money, Collected
<1>10. CASE trial = 0
  <2>1. Accounts'[s].phase = "live"
    BY <1>2, <1>7, <1>10, Phases
  <2>2. k \in Keys /\ invs[k] = NoBill
    BY <1>3, KeysInKeys, NoRowNoBill
  <2>3. invs' = [invs EXCEPT ![k] = Issued(s, now)]
    BY <1>10 DEF Subscribe
  <2>. HIDE DEF k
  <2>4. invs'[k] = Issued(s, now) /\ \A j \in Keys : j # k => invs'[j] = invs[j]
    BY <2>2, <2>3 DEF IInv, TypeOK
  <2>5. Asks[k] = [owner |-> "none", state |-> "none"]
    BY <2>2, SeenOneByOne, NewSeen
  <2>6. Asks' = [Asks EXCEPT ![k] = [owner |-> s, state |-> "open"]]
    BY <2>2, <2>4, OneInvoice, NewSeen
  <2>7. Promise!Bills(s, "open")
    BY <2>2, <2>5, <2>6 DEF Promise!Bills, Promise!Unbilled, Asks
  <2>8. Promise!Enters(s, "live", Accounts'[s].from)
    BY <1>6, <1>8, <2>1 DEF Promise!Enters, Accounts
  <2>. QED  BY <1>5, <1>9, <2>7, <2>8 DEF Promise!Join, Accounts, Money
<1>11. CASE trial # 0
  <2>1. Accounts'[s].phase = "trial"
    BY <1>2, <1>7, <1>11, Phases
  <2>2. Asks' = Asks
    BY <1>11 DEF Subscribe, Asks
  <2>3. Promise!Enters(s, "trial", Accounts'[s].from)
    BY <1>6, <1>8, <2>1 DEF Promise!Enters, Accounts
  <2>. QED  BY <1>5, <1>9, <2>2, <2>3 DEF Promise!Join, Accounts, Asks, Money
<1>. QED  BY <1>10, <1>11

----------------------------------------------------------------------------
(* Commits *)

\* The draft of a row alone ends the subscription, or is not seen.
LEMMA EndingSeen ==
  ASSUME IInv, NEW w \in Workers, Commit(w), EndsIt(wk[w], subs[wk[w].sub])
  PROVE  Unseen \/ \E s \in Subs : Promise!End(s)
<1>. DEFINE x == wk[w]
<1>1. PICK s \in Subs : s = x.sub
  BY CommitFacts
<1>2. /\ subs[s] \in Row /\ subs'[s] = x.draft
      /\ \A z \in Subs : z # s => subs'[z] = subs[z]
  BY <1>1, CommitFacts
<1>3. invs' = invs /\ provider' = provider
  BY DEF Commit, EndsIt, NoBill, Exists
<1>4. Asks' = Asks /\ Money' = Money
  BY <1>3 DEF Asks, Money, Collected
<1>. DEFINE row == subs[s]
<1>5. row.status \in Live
  BY <1>1 DEF EndsIt
<1>6. \/ x.draft.status = "canceled" \/ x.draft.status = row.status
  BY <1>1, <1>2 DEF EndsIt, Canceled, Expired, Renewed, Row
<1>7. x.draft.start = row.start /\ x.draft.end = row.end
  BY <1>1, <1>2 DEF EndsIt, Canceled, Expired, Renewed, Row
<1>. HIDE DEF x, row
<1>8. CASE x.draft.status = row.status
  <2>1. Standing(subs'[s]) = Standing(subs[s])
    BY <1>2, <1>7, <1>8 DEF Standing, row
  <2>. QED  BY <1>2, <1>4, <2>1, OneAccount DEF Unseen
<1>9. CASE x.draft.status = "canceled"
  <2>1. Accounts'[s] = [Accounts[s] EXCEPT !.phase = "ended"]
    BY <1>2, <1>7, <1>9, SeenOneByOne, SeenChanges DEF row
  <2>2. Accounts' = [Accounts EXCEPT ![s] = Accounts'[s]]
    BY <1>2, OneAccount
  <2>3. Accounts[s].phase \in {"trial", "live"}
    BY <1>5, SeenOneByOne, SeenFields, Phases DEF Live, row
  <2>4. Accounts' = [Accounts EXCEPT ![s].phase = "ended"]
    BY <2>1, <2>2
  <2>5. Promise!End(s)
    BY <1>4, <2>3, <2>4 DEF Promise!End, Accounts, Asks, Money
  <2>. QED  BY <2>5
<1>. QED  BY <1>6, <1>8, <1>9

\* A new invoice goes with the next period, or with a change of plan.
LEMMA BillingSeen ==
  ASSUME IInv, NEW w \in Workers, Commit(w), Bills(wk[w], subs[wk[w].sub])
  PROVE  \E s \in Subs : Promise!Advance(s) \/ Promise!Amend(s)
<1>. DEFINE x == wk[w]
<1>1. PICK s \in Subs : s = x.sub
  BY CommitFacts
<1>2. /\ subs[s] \in Row /\ subs'[s] = x.draft
      /\ subs[s].status # None
      /\ \A z \in Subs : z # s => subs'[z] = subs[z]
  BY <1>1, CommitFacts DEF IInv, StoreOK, RowsOK
<1>3. PICK k \in Keys : k = x.key
  BY DEF Bills
<1>4. /\ ~Exists(invs[k]) /\ x.bill.sub = s
      /\ x.bill.status \in {"open", "no_payment_due"}
      /\ provider' = provider
  BY <1>1, <1>3 DEF Bills, Commit, Conflicts
<1>5. invs[k] = NoBill
  BY <1>4 DEF IInv, StoreOK, BillsOK, Exists, Chargeable
<1>6. invs' = [invs EXCEPT ![k] = x.bill]
  BY <1>3, <1>4 DEF Commit, Exists
<1>7. invs'[k] = x.bill /\ \A j \in Keys : j # k => invs'[j] = invs[j]
  BY <1>6 DEF IInv, TypeOK
<1>8. Asks[k] = [owner |-> "none", state |-> "none"]
  BY <1>5, SeenOneByOne, NewSeen
<1>9. Asks' = [Asks EXCEPT ![k] = [owner |-> s, state |-> State(x.bill.status)]]
  BY <1>4, <1>7, OneInvoice DEF Asked
<1>10. \A state : state = State(x.bill.status) => Promise!Bills(s, state)
  BY <1>8, <1>9 DEF Promise!Bills, Promise!Unbilled, Asks
<1>11. Money' = Money
  BY <1>4 DEF Money, Collected
<1>12. Accounts' = [Accounts EXCEPT ![s] = Accounts'[s]]
  BY <1>2, OneAccount
<1>. DEFINE row == subs[s]
<1>13. CASE /\ IsDue(row, now) /\ Renews(row) /\ x.draft = Renewed(row)
            /\ x.bill.status = "open"
  <2>1. /\ row.start \in Nat /\ row.end \in Nat
        /\ row.end + Interval[row.plan] \in Nat /\ row.end < row.end + Interval[row.plan]
    BY <1>2, RowFacts, PlansAssumption DEF IInv, Row
  <2>2. /\ x.draft.status = "active" /\ x.draft.start = row.end
        /\ x.draft.end = row.end + Interval[row.plan]
    BY <1>2, <1>13 DEF Renewed, Row
  <2>3. Accounts[s].phase \in {"trial", "live"} /\ Accounts[s].to = row.end
    BY <1>13, SeenOneByOne, SeenFields, Phases DEF IsDue, Live
  <2>4. /\ Accounts'[s].phase = "live" /\ Accounts'[s].from = row.end
        /\ Accounts'[s].to = row.end + Interval[row.plan]
    BY <1>2, <2>2, SeenOneByOne, SeenFields, Phases
  <2>5. Promise!Enters(s, "live", Accounts[s].to)
    BY <1>12, <2>1, <2>3, <2>4 DEF Promise!Enters, Accounts
  <2>6. Promise!Bills(s, "open")
    <3>1. "open" = State(x.bill.status)
      BY <1>13, States
    <3>. QED  BY <1>10, <3>1, Zenon
  <2>. QED  BY <1>11, <2>3, <2>5, <2>6 DEF Promise!Advance, Accounts, Money
<1>14. CASE /\ row.status \in Live /\ \E plan \in Plans : x.draft = PlanChanged(row, plan)
            /\ \/ x.bill.status = "no_payment_due"
               \/ x.bill.status = "open" /\ row.status # "trialing"
  <2>1. x.draft.status = row.status /\ x.draft.start = row.start /\ x.draft.end = row.end
    BY <1>2, <1>14 DEF PlanChanged, Row
  <2>2. Standing(subs'[s]) = Standing(subs[s])
    BY <1>2, <2>1 DEF Standing
  <2>3. Accounts' = Accounts
    BY <1>2, <2>2, OneAccount
  <2>4. /\ Accounts[s].phase \in {"trial", "live"}
        /\ row.status # "trialing" => Accounts[s].phase = "live"
    BY <1>14, SeenOneByOne, SeenFields, Phases DEF Live
  <2>5. \/ Promise!Bills(s, "free")
        \/ Promise!Bills(s, "open") /\ Accounts[s].phase = "live"
    <3>1. \/ "free" = State(x.bill.status)
          \/ "open" = State(x.bill.status) /\ Accounts[s].phase = "live"
      BY <1>14, <2>4, States
    <3>. QED  BY <1>10, <3>1, Zenon
  <2>. QED  BY <1>11, <2>3, <2>4, <2>5 DEF Promise!Amend, Accounts, Money
<1>. QED  BY <1>1, <1>13, <1>14 DEF Bills, CanChangePlan

\* What the provider said is seen only if an open invoice is paid by it.
LEMMA ReflectingSeen ==
  ASSUME IInv, NEW w \in Workers, Commit(w), Reflects(wk[w], subs[wk[w].sub])
  PROVE  Unseen \/ \E k \in Keys : Promise!Receive(k)
<1>. DEFINE x == wk[w]
<1>1. PICK s \in Subs : s = x.sub
  BY CommitFacts
<1>2. PICK k \in Keys : k = x.key
  BY DEF Reflects
<1>3. /\ subs[s] \in Row /\ subs'[s] = x.draft
      /\ \A z \in Subs : z # s => subs'[z] = subs[z]
  BY <1>1, CommitFacts
<1>4. /\ invs[k] \in Bill /\ Exists(invs[k]) /\ invs[k].sub = s
      /\ provider' = provider
  BY <1>1, <1>2 DEF Reflects, Commit, IInv, TypeOK
<1>. DEFINE row == subs[s]
            bill == invs[k]
<1>5. \/ /\ Collected(k) /\ Chargeable(bill) /\ row.status \in Live
         /\ x.bill = MarkedPaid(bill) /\ x.draft = PaymentSucceeded(row)
      \/ /\ x.bill = bill /\ row.status \in {"active", "past_due"}
         /\ \E t \in 0 .. now : x.draft = PaymentFailed(row, t)
      \/ x.bill = bill /\ x.draft = row
  BY <1>1, <1>2 DEF Reflects
<1>6. x.bill.sub = s /\ Exists(x.bill)
  BY <1>4, <1>5 DEF MarkedPaid, Bill, Exists
<1>7. invs' = [invs EXCEPT ![k] = x.bill]
  BY <1>2, <1>6 DEF Commit
<1>8. invs'[k] = x.bill /\ \A j \in Keys : j # k => invs'[j] = invs[j]
  BY <1>7 DEF IInv, TypeOK
<1>9. Money' = Money
  BY <1>4 DEF Money, Collected
<1>10. row.status = "trialing" => ~Chargeable(bill)
  BY <1>4 DEF IInv, StoreOK, TrialOwesNothing, Chargeable
<1>. HIDE DEF x
<1>11. Standing(subs'[s]) = Standing(subs[s])
  <2>1. x.draft.start = row.start /\ x.draft.end = row.end
    BY <1>3, <1>5 DEF PaymentSucceeded, PaymentFailed, Row
  <2>2. \/ x.draft.status = row.status
        \/ row.status \in {"active", "past_due"} /\ x.draft.status \in {"active", "past_due"}
    BY <1>3, <1>5, <1>10 DEF PaymentSucceeded, PaymentFailed, Row, Live
  <2>3. Phase(x.draft.status) = Phase(row.status)
    BY <2>2, Phases
  <2>. QED  BY <1>3, <2>1, <2>3 DEF Standing
<1>12. Accounts' = Accounts
  BY <1>3, <1>11, OneAccount
<1>13. CASE x.bill = bill
  <2>1. Asks' = Asks
    BY <1>8, <1>13, OneInvoice
  <2>. QED  BY <1>9, <1>12, <2>1 DEF Unseen
<1>14. CASE x.bill # bill
  <2>1. /\ Collected(k) /\ Chargeable(bill) /\ row.status \in {"active", "past_due"}
        /\ x.bill = MarkedPaid(bill)
    BY <1>5, <1>10, <1>14 DEF Live
  <2>2. bill.status = "open" /\ x.bill.status = "paid"
    <3>1. bill.status = "paid" => x.bill = bill
      BY <1>4, <2>1 DEF MarkedPaid, Bill
    <3>. QED  BY <1>4, <1>14, <2>1, <3>1 DEF Chargeable, MarkedPaid, Bill
  <2>3. /\ Asks[k].state = "open" /\ Asks[k].owner = s
        /\ Asked(invs'[k]) = [Asks[k] EXCEPT !.state = "paid"]
    BY <1>4, <1>6, <1>8, <2>2, SeenOneByOne, SeenFields, SeenChanges, States
  <2>4. Asks' = [Asks EXCEPT ![k].state = "paid"]
    BY <1>8, <2>3, OneInvoice
  <2>5. Accounts[s].phase = "live" /\ k \in Money
    BY <2>1, SeenOneByOne, SeenFields, Phases DEF Money
  <2>6. Promise!Receive(k)
    BY <1>9, <1>12, <2>3, <2>4, <2>5 DEF Promise!Receive, Accounts, Asks, Money
  <2>. QED  BY <2>6
<1>. QED  BY <1>13, <1>14

----------------------------------------------------------------------------
(* The refinement *)

LEMMA StepsKeepTheContract ==
  ASSUME IInv, [Next]_vars
  PROVE  Unseen \/ Promise!Next
<1>1. CASE Tick \/ UNCHANGED vars
  BY <1>1 DEF Tick, vars, Unseen, Accounts, Asks, Money, Collected
<1>2. ASSUME NEW k \in Keys, Recover(k)
      PROVE  Unseen \/ Promise!Next
  BY <1>2, RecoveryCollects DEF Promise!Next
<1>3. ASSUME NEW w \in Workers, Request(w)
      PROVE  Unseen \/ Promise!Next
  <2>1. ASSUME NEW s \in Subs, NEW plan \in Plans, NEW trial \in Trials,
               Subscribe(w, s, plan, trial)
        PROVE  Promise!Next
    BY <2>1, SubscribeJoins DEF Promise!Next
  <2>2. CASE UNCHANGED <<subs, invs, provider>>
    BY <2>2 DEF Unseen, Accounts, Asks, Money, Collected
  <2>. QED  BY <1>3, <2>1, <2>2 DEF Request, ChangePlan, Cancel, RecordSuccess,
              RecordFailure, ListDue, ListUnsettled
<1>4. ASSUME NEW w \in Workers, Proceed(w) \/ Crash(w)
      PROVE  Unseen
  <2>1. UNCHANGED <<subs, invs, provider>>
    BY <1>4 DEF Proceed, CommitRaises, Reflect, ReflectRaises, RenewOne, RenewRaises,
                ListPastDue, ExpireOne, SettleOne, EndBatch, Crash
  <2>. QED  BY <2>1 DEF Unseen, Accounts, Asks, Money, Collected
<1>5. ASSUME NEW w \in Workers, Commit(w)
      PROVE  Unseen \/ Promise!Next
  <2>1. Drafted(wk[w])
    BY <1>5, CommitFacts
  <2>2. CASE EndsIt(wk[w], subs[wk[w].sub])
    BY <1>5, <2>2, EndingSeen DEF Promise!Next
  <2>3. CASE Bills(wk[w], subs[wk[w].sub])
    BY <1>5, <2>3, BillingSeen DEF Promise!Next
  <2>4. CASE Reflects(wk[w], subs[wk[w].sub])
    BY <1>5, <2>4, ReflectingSeen DEF Promise!Next
  <2>. QED  BY <2>1, <2>2, <2>3, <2>4 DEF Drafted
<1>6. ASSUME NEW w \in Workers, GatewayAnswers(w) \/ GatewayUnreachable(w)
      PROVE  Unseen \/ Promise!Next
  BY <1>6, GatewayCollects DEF Promise!Next
<1>. QED  BY <1>1, <1>2, <1>3, <1>4, <1>5, <1>6 DEF Next

LEMMA ContractInit == Init => Promise!Init
<1>. SUFFICES ASSUME Init PROVE Promise!Init
  OBVIOUS
<1>1. \A s \in Subs : Accounts[s] = [phase |-> "none", from |-> 0, to |-> 0]
  <2>1. \A s \in Subs : subs[s] = NoRow
    BY DEF Init
  <2>2. NoRow.status = None /\ NoRow.start = 0 /\ NoRow.end = 0
    BY DEF NoRow
  <2>. QED  BY <2>1, <2>2, SeenOneByOne, Phases DEF Standing
<1>2. \A k \in Keys : Asks[k] = [owner |-> "none", state |-> "none"]
  BY SeenOneByOne, NewSeen DEF Init
<1>3. Money = {}
  BY DEF Init, Money, Collected
<1>4. Accounts = [s \in Subs |-> Accounts[s]] /\ Asks = [k \in Keys |-> Asks[k]]
  BY DEF Accounts, Asks
<1>5. /\ Accounts = [s \in Subs |-> [phase |-> "none", from |-> 0, to |-> 0]]
      /\ Asks = [k \in Keys |-> [owner |-> "none", state |-> "none"]]
  BY <1>1, <1>2, <1>4
<1>. QED  BY <1>3, <1>5 DEF Promise!Init, Promise!Unbilled, Accounts, Asks, Money

\* Whatever workers race, crash, retry or lose answers, the customer and the
\* accountant see atomic steps of the contract: every period invoiced once and
\* without a gap, money taken once for an invoice that is open, and recorded
\* only while the subscription is in force.
THEOREM ContractIsKept == Spec => ImplementsContract
<1>1. IInv /\ [Next]_vars => [Promise!Next]_(Promise!vars)
  <2>. SUFFICES ASSUME IInv, [Next]_vars PROVE [Promise!Next]_(Promise!vars)
    OBVIOUS
  <2>1. Unseen \/ Promise!Next
    BY StepsKeepTheContract
  <2>. QED  BY <2>1 DEF Unseen, Promise!vars, Accounts, Asks, Money
<1>. QED  BY <1>1, Inductive, ContractInit, PTL DEF Spec, ImplementsContract, Promise!Spec
=============================================================================
