------------------------- MODULE MCInventoryLedger --------------------------
(***************************************************************************)
(* Instances of InventoryLedger for TLC; the identities of requests carry  *)
(* no meaning.                                                             *)
(***************************************************************************)
EXTENDS InventoryLedger, TLC

Symmetry == Permutations(Requests)
=============================================================================
