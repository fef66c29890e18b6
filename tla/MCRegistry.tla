----------------------------- MODULE MCRegistry ------------------------------
(***************************************************************************)
(* Instances of Registry for TLC; keys, documents, plates and texts carry  *)
(* no meaning beyond their identity.                                       *)
(***************************************************************************)
EXTENDS Registry, TLC

Symmetry ==
  Permutations(Requests) \cup Permutations(Customers)
    \cup Permutations(Vehicles) \cup Permutations(Orders)
    \cup Permutations(Plates) \cup Permutations(Texts)
=============================================================================
