----------------------------- MODULE MCOrderDesk ------------------------------
(***************************************************************************)
(* Instances of OrderDesk for TLC; requests, technicians and contents      *)
(* carry no meaning beyond their identity.                                 *)
(***************************************************************************)
EXTENDS OrderDesk, TLC

Symmetry ==
  Permutations(Requests) \cup Permutations(Technicians)
    \cup Permutations(Details)

\* The order of the texts, compared with Before over all texts of the instance.
ASSUME TextOrder == ComparesAsText
===============================================================================
