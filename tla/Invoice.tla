------------------------------ MODULE Invoice ------------------------------
(***************************************************************************)
(* The Invoice aggregate of domain/invoice.py.  The lines never change     *)
(* after issue, so an invoice is its owner, its status and when it was     *)
(* issued.  mark_uncollectible and void have no caller in the repository;  *)
(* their statuses stay in the type because is_settled names them.          *)
(***************************************************************************)
EXTENDS Integers

CONSTANT Subs   \* subscription identifiers

Settled == {"paid", "no_payment_due", "uncollectible", "void"}

Bill == [sub : Subs \cup {"none"},
         status : Settled \cup {"open", "none"},
         issuedAt : Nat \cup {-1}]

\* An invoice nobody has issued yet.
NoBill == [sub |-> "none", status |-> "none", issuedAt |-> -1]

Exists(bill) == bill.status # "none"

\* Invoice.issue
Issued(sub, at) == [sub |-> sub, status |-> "open", issuedAt |-> at]

\* Invoice.is_settled
IsSettled(bill) == bill.status \in Settled

\* Invoice.mark_paid: a second success is accepted and changes nothing.
CanMarkPaid(bill) == bill.status \in {"open", "paid"}

MarkedPaid(bill) == [bill EXCEPT !.status = "paid"]

\* Invoice.settle_without_payment, called on an invoice that owes nothing.
SettledWithoutPayment(bill) == [bill EXCEPT !.status = "no_payment_due"]
============================================================================
