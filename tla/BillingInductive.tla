-------------------------- MODULE BillingInductive --------------------------
(***************************************************************************)
(* The inductive strengthening of Billing's invariants: what holds of the  *)
(* store at all times, and what a worker with rows in hand may count on    *)
(* until somebody else saves one of them.                                  *)
(***************************************************************************)
EXTENDS Billing

\* A subscription that exists has a plan and a non-empty period, begun by now.
RowsOK ==
  \A s \in Subs :
    \/ subs[s] = NoRow
    \/ /\ subs[s].status # None
       /\ subs[s].plan \in Plans
       /\ subs[s].start < subs[s].end
       /\ subs[s].start <= now

Chargeable(bill) == bill.status \in {"open", "paid"}

\* An invoice belongs to a subscription that exists, the one its key names if
\* it names one; only a plan change may owe nothing.
BillsOK ==
  \A k \in Keys :
    \/ invs[k] = NoBill
    \/ /\ Chargeable(invs[k]) \/ (invs[k].status = "no_payment_due" /\ k[1] = "change")
       /\ invs[k].sub \in Subs
       /\ subs[invs[k].sub] # NoRow
       /\ k[1] # "change" => k[2] = invs[k].sub
       /\ k[1] = "initial" => invs[k].issuedAt <= subs[invs[k].sub].start

StoreOK ==
  /\ RowsOK
  /\ BillsOK
  /\ MoneyMatchesInvoices
  /\ CurrentPeriodInvoiced
  /\ NoPeriodInvoicedTwice
  /\ TrialOwesNothing

----------------------------------------------------------------------------
(* What a unit of work is about to save, in terms of the rows as they are. *)

\* The subscription alone: it is canceled now or later, expires, or ends.
EndsIt(x, row) ==
  /\ x.bill = NoBill /\ ~x.adds /\ ~x.pays
  /\ row.status \in Live
  /\ \/ x.job # "expire" /\ \E immediately \in BOOLEAN : x.draft = Canceled(row, immediately)
     \/ GraceOver(row, now) /\ x.draft = Expired(row)
     \/ x.job # "expire" /\ IsDue(row, now) /\ ~Renews(row) /\ x.draft = Renewed(row)

\* A new invoice with it, for the next period or for a change of plan.
Bills(x, row) ==
  /\ x.job # "expire"
  /\ x.adds /\ x.key \in Keys
  /\ x.bill.sub = x.sub
  /\ x.pays <=> (x.bill.status = "open")
  /\ \/ /\ IsDue(row, now) /\ Renews(row)
        /\ x.draft = Renewed(row)
        /\ x.key = RenewKey(x.sub, row.end)
        /\ x.bill.status = "open"
     \/ /\ \E plan \in Plans : CanChangePlan(row, plan) /\ x.draft = PlanChanged(row, plan)
        /\ x.key[1] = "change"
        /\ \/ x.bill.status = "no_payment_due"
           \/ x.bill.status = "open" /\ row.status # "trialing"

\* What the provider said, on an invoice the subscription has.
Reflects(x, row) ==
  /\ x.job # "expire"
  /\ ~x.adds /\ ~x.pays
  /\ x.key \in Keys /\ Exists(invs[x.key]) /\ invs[x.key].sub = x.sub
  /\ \/ /\ Collected(x.key) /\ Chargeable(invs[x.key])
        /\ row.status \in Live
        /\ x.bill = MarkedPaid(invs[x.key])
        /\ x.draft = PaymentSucceeded(row)
     \/ /\ x.bill = invs[x.key]
        /\ row.status \in {"active", "past_due"}
        /\ \E t \in 0 .. now : x.draft = PaymentFailed(row, t)
     \/ /\ x.bill = invs[x.key]
        /\ x.draft = row

Drafted(x) ==
  /\ subs[x.sub] # NoRow
  /\ \/ EndsIt(x, subs[x.sub])
     \/ Bills(x, subs[x.sub])
     \/ Reflects(x, subs[x.sub])

\* A batch's list is of things that exist: subscriptions, or invoices that may
\* be charged.
ListOK(x) ==
  /\ x.job \in {"renew", "expire"} => x.todo \in Seq(Subs)
  /\ x.job = "settle" =>
       \A i \in DOMAIN x.todo : x.todo[i] \in Keys /\ Chargeable(invs[x.todo[i]])

\* What else is in a worker's hands: an invoice that may be charged, an answer
\* the provider stands by, a draft of rows as they are.
HandOK(x) ==
  /\ ListOK(x)
  /\ x.pc \in Batches => x.job = x.pc
  /\ x.pc \in {"charge", "reflect"} =>
       x.job # "expire" /\ x.key \in Keys /\ Chargeable(invs[x.key])
  /\ x.pc = "reflect" =>
       x.answer = "declined" \/ (x.answer = "succeeded" /\ Collected(x.key))
  /\ x.pc = "commit" => x.sub \in Subs /\ (~x.stale => Drafted(x))

HandsOK == \A w \in Workers : HandOK(wk[w])

\* Inductive: holds at first, is preserved by every step, and implies every
\* invariant of the store that Billing states.
IInv == TypeOK /\ StoreOK /\ HandsOK

----------------------------------------------------------------------------
(* Why somebody is past due.  Neither a decline nor an invoice's owner is  *)
(* ever forgotten, so this needs no look at what is stale.                 *)

Refused(s) == \E k \in Keys : invs[k].sub = s /\ Declined(k)

\* Past due, or active after a renewal that left the grace period running.
HasFailed(row) == row.status = "past_due" \/ row.since # Never

\* An answer taken for a decline is one; a draft that has failed has a reason.
HandRefused(x) ==
  /\ x.pc = "reflect" /\ x.answer = "declined" => x.key \in Keys /\ Declined(x.key)
  /\ x.pc = "commit" => x.sub \in Subs /\ (HasFailed(x.draft) => Refused(x.sub))

RefusalsOK ==
  /\ \A s \in Subs : HasFailed(subs[s]) => Refused(s)
  /\ \A w \in Workers : HandRefused(wk[w])

\* Inductive, given IInv; implies PastDueOwesDeclined.
DunningInv == IInv /\ RefusalsOK
=============================================================================
