------------------------------ MODULE MCStores ------------------------------
(***************************************************************************)
(* Small instances of Stores for TLC.                                      *)
(***************************************************************************)
EXTENDS Stores, TLC

Symmetry == Permutations(Units) \cup Permutations(Rows \ Seeded)
=============================================================================
