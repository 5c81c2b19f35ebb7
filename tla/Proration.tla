----------------------------- MODULE Proration -----------------------------
(***************************************************************************)
(* The price difference a plan change owes for the rest of the period      *)
(* (domain/proration.py, domain/period.py, domain/money.py).  Money is in  *)
(* the smallest unit of the currency and a ratio is an exact fraction      *)
(* num / len, never a float, so integer division is the code's floor.      *)
(***************************************************************************)
EXTENDS Integers

\* BillingPeriod.remaining_ratio, as the numerator over the period's length:
\* the whole period up to its start, nothing from its end on.
Remaining(start, end, at) ==
  IF at <= start THEN end - start
  ELSE IF at >= end THEN 0
  ELSE end - at

\* Money.scale: floor of amount * num / len.
Scale(amount, num, len) == (amount * num) \div len

\* Mutant of Credit: gives back the part that was used.
CreditOfUsed(start, end, at, oldPrice) ==
  Scale(oldPrice, (end - start) - Remaining(start, end, at), end - start)

\* prorate: give back the unused part of the old plan, charge the rest of the new.
Credit(start, end, at, oldPrice) ==
  Scale(oldPrice, Remaining(start, end, at), end - start)

Charge(start, end, at, newPrice) ==
  Scale(newPrice, Remaining(start, end, at), end - start)

\* Proration.net: what is to be paid now; negative when the customer is owed.
Net(start, end, at, oldPrice, newPrice) ==
  Charge(start, end, at, newPrice) - Credit(start, end, at, oldPrice)
============================================================================
