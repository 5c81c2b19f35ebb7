------------------------------ MODULE Contract ------------------------------
(***************************************************************************)
(* What the billing service promises a customer and an accountant, as if   *)
(* every operation were atomic and nothing ever failed: no workers, no     *)
(* units of work, no retries, no clock.                                    *)
(***************************************************************************)
EXTENDS Integers

CONSTANTS Subs, Keys

VARIABLES
  account,    \* [Subs -> [phase, from, to]]: the standing and the current period
  dues,       \* [Keys -> [owner, state]]: what has been invoiced
  collected   \* the keys under which money has been taken

vars == <<account, dues, collected>>

Unbilled == [owner |-> "none", state |-> "none"]

Init ==
  /\ account = [s \in Subs |-> [phase |-> "none", from |-> 0, to |-> 0]]
  /\ dues = [k \in Keys |-> Unbilled]
  /\ collected = {}

\* One new invoice, under a key never used.
Bills(s, state) ==
  \E k \in Keys :
    /\ dues[k] = Unbilled
    /\ dues' = [dues EXCEPT ![k] = [owner |-> s, state |-> state]]

\* The account of s alone changes, to a non-empty period beginning at t.
Enters(s, phase, t) ==
  /\ account' = [account EXCEPT ![s] = account'[s]]
  /\ account'[s].phase = phase
  /\ account'[s].from = t
  /\ account'[s].to > t

\* A trial begins free of charge, a paid subscription with its first invoice.
Join(s) ==
  /\ account[s].phase = "none"
  /\ \/ Enters(s, "trial", account'[s].from) /\ UNCHANGED dues
     \/ Enters(s, "live", account'[s].from) /\ Bills(s, "open")
  /\ UNCHANGED collected

\* The next period follows the last without gap or overlap, and is invoiced once.
Advance(s) ==
  /\ account[s].phase \in {"trial", "live"}
  /\ Enters(s, "live", account[s].to)
  /\ Bills(s, "open")
  /\ UNCHANGED collected

\* A plan change within the period; in a trial it is free.
Amend(s) ==
  /\ \/ account[s].phase \in {"trial", "live"} /\ Bills(s, "free")
     \/ account[s].phase = "live" /\ Bills(s, "open")
  /\ UNCHANGED <<account, collected>>

\* Money is taken at most once for an invoice, and only for one that asks for it.
Collect(k) ==
  /\ dues[k].state = "open" /\ k \notin collected
  /\ collected' = collected \cup {k}
  /\ UNCHANGED <<account, dues>>

\* It is recorded as paid while the subscription is in force.
Receive(k) ==
  /\ dues[k].state = "open" /\ k \in collected
  /\ account[dues[k].owner].phase = "live"
  /\ dues' = [dues EXCEPT ![k].state = "paid"]
  /\ UNCHANGED <<account, collected>>

End(s) ==
  /\ account[s].phase \in {"trial", "live"}
  /\ account' = [account EXCEPT ![s].phase = "ended"]
  /\ UNCHANGED <<dues, collected>>

Next ==
  \/ \E s \in Subs : Join(s) \/ Advance(s) \/ Amend(s) \/ End(s)
  \/ \E k \in Keys : Collect(k) \/ Receive(k)

Spec == Init /\ [][Next]_vars
=============================================================================
