---------------------------- MODULE Subscription ----------------------------
(***************************************************************************)
(* The Subscription aggregate of domain/subscription.py: a stored row, and *)
(* for each method the condition under which it does not raise (CanX) and  *)
(* the row it leaves (X).  Times are ticks of an abstract clock.           *)
(***************************************************************************)
EXTENDS Proration

CONSTANTS
  Plans,      \* the catalogue (plans are never updated)
  Price,      \* [Plans -> Nat], in the smallest currency unit
  Currency,   \* [Plans -> currencies]
  Interval,   \* [Plans -> Nat \ {0}], the length of a billing period in ticks
  Grace       \* how long a subscription may stay past due (GRACE_PERIOD)

None  == "none"   \* no identifier, no plan, no status
Never == -1       \* no instant

ASSUME PlansAssumption ==
  /\ None \notin Plans
  /\ Price \in [Plans -> Nat]
  /\ Interval \in [Plans -> Nat \ {0}]

ASSUME GraceAssumption == Grace \in Nat

Live == {"trialing", "active", "past_due"}

Row == [status : Live \cup {"canceled", None},
        plan : Plans \cup {None},
        start : Nat, end : Nat,
        cancelAtEnd : BOOLEAN,
        since : Nat \cup {Never}]

\* A subscription nobody has created yet.
NoRow == [status |-> None, plan |-> None, start |-> 0, end |-> 0,
          cancelAtEnd |-> FALSE, since |-> Never]

\* Subscription.subscribe; trial = 0 stands for no trial.
Subscribed(plan, at, trial) ==
  [status |-> IF trial = 0 THEN "active" ELSE "trialing",
   plan |-> plan,
   start |-> at,
   end |-> at + (IF trial = 0 THEN Interval[plan] ELSE trial),
   cancelAtEnd |-> FALSE,
   since |-> Never]

\* Subscription.is_due
IsDue(row, at) == row.status \in Live /\ at >= row.end

\* Subscription.change_plan
CanChangePlan(row, plan) ==
  /\ row.status \in Live
  /\ plan # row.plan
  /\ Currency[plan] = Currency[row.plan]

PlanChanged(row, plan) == [row EXCEPT !.plan = plan]

\* Mutant of OwesDifference: a change of plan in a trial is charged like any other.
OwesDifferenceInTrial(row, plan, at) ==
  Net(row.start, row.end, at, Price[row.plan], Price[plan]) > 0

\* Whether the proration of a plan change leaves something to pay now.
OwesDifference(row, plan, at) ==
  /\ row.status # "trialing"
  /\ Net(row.start, row.end, at, Price[row.plan], Price[plan]) > 0

\* Subscription.cancel
CanCancel(row) == row.status \in Live

Canceled(row, immediately) ==
  IF immediately THEN [row EXCEPT !.status = "canceled", !.cancelAtEnd = FALSE]
  ELSE [row EXCEPT !.cancelAtEnd = TRUE]

\* Mutant of CanMarkPaymentFailed: the guard against a canceled subscription is gone.
CanMarkPaymentFailedAlways(row) == row.status # None

\* Subscription.mark_payment_failed: the grace period runs from the first failure.
CanMarkPaymentFailed(row) == row.status \in {"active", "past_due"}

\* Mutant of PaymentFailed: every retry that fails starts the grace period anew.
PaymentFailedAgain(row, at) == [row EXCEPT !.status = "past_due", !.since = at]

PaymentFailed(row, at) ==
  IF row.status = "past_due" THEN row
  ELSE [row EXCEPT !.status = "past_due", !.since = at]

\* Subscription.mark_payment_succeeded
CanMarkPaymentSucceeded(row) == row.status \in Live

\* Mutant of PaymentSucceeded: the subscription is given the status of the invoice.
PaidLikeTheInvoice(row) == [row EXCEPT !.status = "paid", !.since = Never]

PaymentSucceeded(row) == [row EXCEPT !.status = "active", !.since = Never]

\* Subscription.expire_if_grace_over
GraceOver(row, at) ==
  /\ row.status = "past_due"
  /\ row.since # Never
  /\ at - row.since >= Grace

Expired(row) == [row EXCEPT !.status = "canceled"]

\* Subscription.renew: end the subscription if that was asked for, else enter
\* the next period, which begins where the last one ended.
Renews(row) == ~row.cancelAtEnd

Renewed(row) ==
  IF Renews(row)
  THEN [row EXCEPT !.status = "active",
                   !.start  = row.end,
                   !.end    = row.end + Interval[row.plan]]
  ELSE [row EXCEPT !.status = "canceled"]
=============================================================================
