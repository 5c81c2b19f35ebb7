------------------------------ MODULE MCLedger ------------------------------
(***************************************************************************)
(* Small instances of Ledger for TLC: the catalogue of container.py with   *)
(* prices a month's days do not divide, and starts at the ends of months,  *)
(* before a leap day and on one.                                           *)
(***************************************************************************)
EXTENDS Ledger, TLC

CONSTANTS basic, pro, yearly

MCPrice    == basic :> 10 @@ pro :> 31 @@ yearly :> 300
MCInterval == basic :> "monthly" @@ pro :> "monthly" @@ yearly :> "yearly"

D(y, m, d) == [year |-> y, month |-> m, day |-> d]

MCStarts == {D(2023, 1, 30), D(2023, 12, 31), D(2024, 1, 15), D(2024, 2, 29)}
=============================================================================
