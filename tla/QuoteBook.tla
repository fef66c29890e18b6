----------------------------- MODULE QuoteBook ------------------------------
(***************************************************************************)
(* What the quote workflow promises about the quotes of ONE service order, *)
(* with no transaction, lock, request or database row in sight: a numbered *)
(* book of versions in which at most one draft is being prepared, at most  *)
(* one quote is in front of the customer, and an approval is final.        *)
(* QuoteWorkflow implements it (QuoteWorkflow!BookView maps its state).    *)
(***************************************************************************)
EXTENDS Naturals

VARIABLES
  latest,   \* the highest version issued so far, 0 before the first quote
  draft,    \* is a draft being prepared?
  live      \* the quote in front of the customer: "NONE", "ACTIVE", "APPROVED"

bookVars == <<latest, draft, live>>

BookInit ==
  /\ latest = 0
  /\ draft = FALSE
  /\ live = "NONE"

\* A new version is drafted, one number above the latest.
Draft ==
  /\ ~draft
  /\ latest' = latest + 1
  /\ draft' = TRUE
  /\ UNCHANGED live

\* The draft goes to the customer and replaces the quote that was there.
Activate ==
  /\ draft
  /\ live # "APPROVED"
  /\ draft' = FALSE
  /\ live' = "ACTIVE"
  /\ UNCHANGED latest

\* The draft is dropped.
Drop ==
  /\ draft
  /\ draft' = FALSE
  /\ UNCHANGED <<latest, live>>

\* The customer accepts; nothing may follow in the live slot.
Approve ==
  /\ live = "ACTIVE"
  /\ live' = "APPROVED"
  /\ UNCHANGED <<latest, draft>>

\* The customer rejects, the offer expires or is withdrawn.
End ==
  /\ live = "ACTIVE"
  /\ live' = "NONE"
  /\ UNCHANGED <<latest, draft>>

\* The order is cancelled: what is still open closes at once.
CloseAll ==
  /\ draft
  /\ live = "ACTIVE"
  /\ draft' = FALSE
  /\ live' = "NONE"
  /\ UNCHANGED latest

BookNext == Draft \/ Activate \/ Drop \/ Approve \/ End \/ CloseAll

BookSpec == BookInit /\ [][BookNext]_bookVars
=============================================================================
