---------------------------- MODULE MCQuoteTotals -----------------------------
(***************************************************************************)
(* Instances of QuoteTotals for TLC.                                       *)
(***************************************************************************)
EXTENDS QuoteTotals
===============================================================================
