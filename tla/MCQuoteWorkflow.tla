-------------------------- MODULE MCQuoteWorkflow ---------------------------
(***************************************************************************)
(* Instances of QuoteWorkflow for TLC.  The identities of requests, quotes *)
(* and contents carry no meaning, so the safety runs use their symmetry;   *)
(* liveness runs do not.                                                   *)
(***************************************************************************)
EXTENDS QuoteWorkflow, TLC

Symmetry ==
  Permutations(Requests) \cup Permutations(QuoteIds) \cup Permutations(Contents)
=============================================================================
