---------------------------- MODULE ReasonProofs ----------------------------
(***************************************************************************)
(* Every change to a subscription has a reason that holds when it is       *)
(* saved, however long ago it was decided; and every answer of the         *)
(* provider can be recorded.  For any plans, workers, requests and bounds. *)
(***************************************************************************)
EXTENDS DunningProofs

LEMMA AnsweredBills ==
  ASSUME IInv, NEW w \in Workers, wk[w].pc = "reflect"
  PROVE  LET x    == wk[w]
             bill == invs[x.key]
             row  == subs[bill.sub] IN
         row.status = "canceled" \/ CanReflect(x.answer, bill, row)
<1>. DEFINE x    == wk[w]
            bill == invs[x.key]
            row  == subs[bill.sub]
<1>1. /\ x.key \in Keys /\ Chargeable(bill) /\ Exists(bill)
      /\ x.answer \in {"succeeded", "declined"}
  BY HandFacts DEF HandOK, Chargeable, Exists
<1>2. bill.sub \in Subs /\ row # NoRow
  BY <1>1, BillFacts DEF IInv
<1>3. row \in Row /\ row.status # None
  BY <1>2, RowFacts DEF IInv, StoreOK, RowsOK
<1>4. row.status # "trialing"
  BY <1>1, <1>2 DEF IInv, StoreOK, TrialOwesNothing, Chargeable
<1>. HIDE DEF row
<1>5. row.status \in {"active", "past_due", "canceled"}
  BY <1>3, <1>4 DEF Row, Live
<1>6. row.status # "canceled" => CanReflect(x.answer, bill, row)
  BY <1>1, <1>5 DEF CanReflect, CanMarkPaid, CanMarkPaymentSucceeded, CanMarkPaymentFailed,
                    Chargeable, Live
<1>. QED  BY <1>6 DEF row

\* When the provider has answered, the aggregates let its answer be recorded,
\* unless the subscription was canceled meanwhile: no other state of the rows
\* raises there (SettlementBlocked shows that this one does).
THEOREM AnswersAreRecordable == Spec => []AnswersCanBeRecorded
<1>1. IInv => AnswersCanBeRecorded
  BY AnsweredBills DEF AnswersCanBeRecorded
<1>. QED  BY <1>1, Inductive, PTL

----------------------------------------------------------------------------
(* What a commit does to a row, and why *)

LEMMA EndingReason ==
  ASSUME DunningInv, NEW w \in Workers, Commit(w), EndsIt(wk[w], subs[wk[w].sub])
  PROVE  LET s == wk[w].sub IN AsRequested(s) \/ AsTimeRequires(s)
<1>1. subs'[wk[w].sub] = wk[w].draft
  BY CommitFacts DEF DunningInv
<1>. QED  BY <1>1 DEF EndsIt, AsRequested, AsTimeRequires, CanCancel

LEMMA BillingReason ==
  ASSUME DunningInv, NEW w \in Workers, Commit(w), Bills(wk[w], subs[wk[w].sub])
  PROVE  LET s == wk[w].sub IN AsRequested(s) \/ AsTimeRequires(s)
<1>. DEFINE x   == wk[w]
            row == subs[x.sub]
<1>1. subs'[x.sub] = x.draft /\ x.key \in Keys /\ ~Exists(invs[x.key])
  BY CommitFacts DEF DunningInv, Bills, Commit, Conflicts
<1>2. x.bill.sub = x.sub
  BY DEF Bills
<1>3. invs'[x.key].sub = x.sub
  <2>1. Exists(x.bill)
    BY DEF Bills, Exists
  <2>. QED  BY <1>1, <1>2, <2>1 DEF Commit, DunningInv, IInv, TypeOK
<1>4. CASE IsDue(row, now) /\ x.draft = Renewed(row)
  BY <1>1, <1>4 DEF AsTimeRequires
<1>5. ASSUME NEW plan \in Plans, CanChangePlan(row, plan), x.draft = PlanChanged(row, plan),
             x.key[1] = "change"
      PROVE  AsRequested(x.sub)
  <2>1. PICK r \in Requests : x.key = ChangeKey(r)
    BY <1>1, <1>5 DEF Keys, ChangeKey
  <2>. QED  BY <1>1, <1>3, <1>5, <2>1 DEF AsRequested
<1>. QED  BY <1>4, <1>5 DEF Bills

LEMMA ReflectingReason ==
  ASSUME DunningInv, NEW w \in Workers, Commit(w), Reflects(wk[w], subs[wk[w].sub]),
         wk[w].draft # subs[wk[w].sub]
  PROVE  AsPaid(wk[w].sub)
<1>. DEFINE x   == wk[w]
            row == subs[x.sub]
            k   == x.key
<1>1. /\ subs'[x.sub] = x.draft /\ x.sub \in Subs /\ row \in Row
      /\ k \in Keys /\ Exists(invs[k]) /\ invs[k].sub = x.sub
  BY CommitFacts DEF DunningInv, Reflects
<1>2. CASE /\ Collected(k) /\ row.status \in Live
           /\ x.bill = MarkedPaid(invs[k]) /\ x.draft = PaymentSucceeded(row)
  <2>1. invs[k] \in Bill
    BY <1>1 DEF DunningInv, IInv, TypeOK
  <2>2. x.bill.status = "paid" /\ Exists(x.bill)
    BY <1>2, <2>1 DEF MarkedPaid, Bill, Exists
  <2>3. invs'[k].status = "paid"
    BY <1>1, <2>2 DEF Commit, DunningInv, IInv, TypeOK
  <2>. QED  BY <1>1, <1>2, <2>3 DEF AsPaid, CanMarkPaymentSucceeded
<1>3. CASE /\ row.status \in {"active", "past_due"}
           /\ \E t \in 0 .. now : x.draft = PaymentFailed(row, t)
  <2>1. x.draft.status = "past_due"
    BY <1>1, <1>3 DEF PaymentFailed, Row
  <2>2. Refused(x.sub)
    BY <2>1 DEF DunningInv, RefusalsOK, HandRefused, HasFailed, Commit
  <2>. QED  BY <1>1, <1>3, <2>2 DEF Refused, AsPaid, CanMarkPaymentFailed
<1>. QED  BY <1>2, <1>3 DEF Reflects

LEMMA StepsHaveReasons ==
  ASSUME DunningInv, [Next]_vars, NEW s \in Subs
  PROVE  subs'[s] = subs[s] \/ AsRequested(s) \/ AsPaid(s) \/ AsTimeRequires(s)
<1>1. ASSUME NEW w \in Workers, Commit(w), subs'[s] # subs[s]
      PROVE  AsRequested(s) \/ AsPaid(s) \/ AsTimeRequires(s)
  <2>1. s = wk[w].sub /\ wk[w].draft # subs[s] /\ Drafted(wk[w])
    BY <1>1, CommitFacts DEF DunningInv
  <2>. QED  BY <1>1, <2>1, EndingReason, BillingReason, ReflectingReason DEF Drafted
<1>2. ASSUME NEW w \in Workers, NEW z \in Subs, NEW plan \in Plans, NEW trial \in Trials,
             Subscribe(w, z, plan, trial), subs'[s] # subs[s]
      PROVE  AsRequested(s)
  <2>1. s = z /\ subs[s] = NoRow /\ subs'[s] = Subscribed(plan, now, trial)
    BY <1>2 DEF Subscribe, DunningInv, IInv, TypeOK
  <2>. QED  BY <2>1 DEF AsRequested
<1>. QED  BY <1>1, <1>2, OnlySubscribeAndCommitSave

\* A unit of work decides on rows it read and saves them later; meanwhile the
\* clock runs, others commit, the provider's answers and notices come in any
\* order.  What it saves is nevertheless what one method of the aggregate makes
\* of the row as it is at that moment, called for a reason that holds then.
THEOREM ChangesAreLegal == Spec => ChangesAreLegalWhenSaved
<1>1. ASSUME DunningInv, [Next]_vars
      PROVE  \A s \in Subs :
               subs'[s] = subs[s] \/ AsRequested(s) \/ AsPaid(s) \/ AsTimeRequires(s)
  BY <1>1, StepsHaveReasons
<1>. QED  BY <1>1, DunningInductive, PTL DEF Spec, ChangesAreLegalWhenSaved

----------------------------------------------------------------------------
(* How far two findings reach *)

PaidOrRenewed(s) ==
  subs[s].status = "past_due" /\ subs'[s].status = "active" =>
    \/ \E k \in Keys : invs[k].sub = s /\ Collected(k) /\ invs'[k].status = "paid"
    \/ IsDue(subs[s], now) /\ Renews(subs[s]) /\ subs'[s] = Renewed(subs[s])

\* No request makes an active row of one that is past due.
LEMMA RequestedRows ==
  ASSUME NEW row \in Row, row.status = "past_due"
  PROVE  /\ row # NoRow
         /\ \A b \in BOOLEAN : Canceled(row, b).status # "active"
         /\ \A plan \in Plans : PlanChanged(row, plan).status # "active"
<1>1. row # NoRow
  BY DEF NoRow, None
<1>2. \A b \in BOOLEAN : Canceled(row, b).status # "active"
  BY DEF Canceled, Row
<1>3. \A plan \in Plans : PlanChanged(row, plan).status # "active"
  BY DEF PlanChanged, Row
<1>. QED  BY <1>1, <1>2, <1>3

LEMMA EndOfPastDue ==
  ASSUME DunningInv, [Next]_vars, NEW s \in Subs
  PROVE  PaidOrRenewed(s)
<1>. SUFFICES ASSUME subs[s].status = "past_due", subs'[s].status = "active"
              PROVE  \/ \E k \in Keys : invs[k].sub = s /\ Collected(k) /\ invs'[k].status = "paid"
                     \/ IsDue(subs[s], now) /\ Renews(subs[s]) /\ subs'[s] = Renewed(subs[s])
  BY DEF PaidOrRenewed
<1>1. subs[s] \in Row
  BY DEF DunningInv, IInv, TypeOK
<1>2. ~AsRequested(s)
  BY <1>1, RequestedRows DEF AsRequested
<1>3. ASSUME AsPaid(s)
      PROVE  \E k \in Keys : invs[k].sub = s /\ Collected(k) /\ invs'[k].status = "paid"
  BY <1>1, <1>3 DEF AsPaid, PaymentFailed, Row
<1>4. ASSUME AsTimeRequires(s)
      PROVE  IsDue(subs[s], now) /\ Renews(subs[s]) /\ subs'[s] = Renewed(subs[s])
  BY <1>1, <1>4 DEF AsTimeRequires, Expired, Renewed, Row
<1>. QED  BY <1>2, <1>3, <1>4, StepsHaveReasons

\* RenewalForgives shows that not only a payment leads from past due to active.
\* Nothing but a payment does, and the renewal of a subscription whose period
\* is over.
THEOREM OnlyPaymentOrRenewalEndsPastDue == Spec => [][\A s \in Subs : PaidOrRenewed(s)]_vars
<1>1. ASSUME DunningInv, [Next]_vars
      PROVE  \A s \in Subs : PaidOrRenewed(s)
  BY <1>1, EndOfPastDue
<1>. QED  BY <1>1, DunningInductive, PTL DEF Spec

LEMMA RepeatedNoticeSteps ==
  ASSUME DunningInv, [Next]_vars, NEW w \in Workers,
         wk[w].pc = "commit", wk'[w].pc # "commit", ~wk[w].adds,
         wk[w].bill.status = "paid", invs[wk[w].key].status = "paid", ~Refused(wk[w].sub)
  PROVE  subs' = subs
<1>. DEFINE x   == wk[w]
            row == subs[x.sub]
<1>1. ASSUME Commit(w)
      PROVE  subs' = subs
  <2>1. /\ x.sub \in Subs /\ row \in Row /\ Drafted(x)
        /\ subs' = [subs EXCEPT ![x.sub] = x.draft]
    BY <1>1, CommitFacts DEF Commit, DunningInv
  <2>2. Reflects(x, row)
    BY <2>1 DEF Drafted, EndsIt, Bills, NoBill
  <2>3. ~HasFailed(row) /\ ~HasFailed(x.draft)
    BY <2>1 DEF DunningInv, RefusalsOK, HandRefused
  <2>4. row.status # "trialing"
    BY <2>1, <2>2 DEF Reflects, DunningInv, IInv, StoreOK, TrialOwesNothing
  <2>. HIDE DEF row
  <2>5. CASE row.status \in Live /\ x.draft = PaymentSucceeded(row)
    <3>1. row.status = "active" /\ row.since = Never
      BY <2>3, <2>4, <2>5 DEF HasFailed, Live
    <3>2. row \in Row
      BY <2>1 DEF row
    <3>3. PaymentSucceeded(row) = row
      BY <3>1, <3>2 DEF PaymentSucceeded, Row
    <3>. QED  BY <2>1, <2>5, <3>3 DEF DunningInv, IInv, TypeOK, row
  <2>6. ~ \E t \in 0 .. now : x.draft = PaymentFailed(row, t)
    BY <2>1, <2>3 DEF PaymentFailed, HasFailed, Row
  <2>7. CASE x.draft = row
    BY <2>1, <2>7 DEF DunningInv, IInv, TypeOK, row
  <2>. QED  BY <2>2, <2>5, <2>6, <2>7 DEF Reflects
<1>2. ASSUME NEW v \in Workers, Commit(v), v # w
      PROVE  FALSE
  BY <1>2 DEF Commit, DunningInv, IInv, TypeOK, Worker
<1>3. ASSUME NEW v \in Workers, NEW s \in Subs, NEW plan \in Plans, NEW trial \in Trials,
             Subscribe(v, s, plan, trial)
      PROVE  FALSE
  BY <1>3 DEF Subscribe, Starts, Goto, DunningInv, IInv, TypeOK
<1>. QED  BY <1>1, <1>2, <1>3, OnlySubscribeAndCommitSave

RepeatForgivesOnlyDeclines(w) ==
  LET x == wk[w] IN
  x.pc = "commit" /\ wk'[w].pc # "commit" /\ ~x.adds
    /\ x.bill.status = "paid" /\ invs[x.key].status = "paid"
    => subs' = subs \/ Refused(x.sub)

\* RepeatedNotice shows that a notice of a payment already recorded may change
\* the subscription.  It never does if none of its charges was ever declined.
THEOREM RepeatedNoticeForgivesOnlyDeclines ==
  Spec => [][\A w \in Workers : RepeatForgivesOnlyDeclines(w)]_vars
<1>1. ASSUME DunningInv, [Next]_vars
      PROVE  \A w \in Workers : RepeatForgivesOnlyDeclines(w)
  BY <1>1, RepeatedNoticeSteps DEF RepeatForgivesOnlyDeclines
<1>. QED  BY <1>1, DunningInductive, PTL DEF Spec
=============================================================================
