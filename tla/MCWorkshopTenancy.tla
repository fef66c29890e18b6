-------------------------- MODULE MCWorkshopTenancy ---------------------------
(***************************************************************************)
(* Instances of WorkshopTenancy for TLC; the identities of requests and    *)
(* users carry no meaning.                                                 *)
(***************************************************************************)
EXTENDS WorkshopTenancy, TLC

Symmetry == Permutations(Requests) \cup Permutations(Users)
=============================================================================
