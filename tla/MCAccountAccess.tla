--------------------------- MODULE MCAccountAccess ---------------------------
(***************************************************************************)
(* Instances of AccountAccess for TLC; the identities of requests,         *)
(* sessions and memberships carry no meaning.                              *)
(***************************************************************************)
EXTENDS AccountAccess, TLC

Symmetry ==
  Permutations(Requests) \cup Permutations(Sessions)
    \cup Permutations(Memberships)
=============================================================================
