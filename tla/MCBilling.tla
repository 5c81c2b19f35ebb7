----------------------------- MODULE MCBilling -----------------------------
(***************************************************************************)
(* Small instances of Billing for TLC: two plans of the same period and    *)
(* currency at different prices, and symmetry of what has no order.        *)
(***************************************************************************)
EXTENDS BillingInductive, TLC

CONSTANTS basic, pro

MCPrice    == basic :> 1 @@ pro :> 4
MCCurrency == [p \in {basic, pro} |-> "JPY"]
MCInterval == [p \in {basic, pro} |-> 2]

Symmetry == Permutations(Subs) \cup Permutations(Workers) \cup Permutations(Requests)
============================================================================
