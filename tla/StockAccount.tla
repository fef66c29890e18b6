---------------------------- MODULE StockAccount -----------------------------
(***************************************************************************)
(* What the inventory promises about the stock of ONE product, with no     *)
(* transaction, lock or database row in sight: a bounded counter moved by  *)
(* whole operations, each taking effect at once on the stock of its time,  *)
(* in the order they are logged, and only while the product is active.     *)
(* InventoryLedger implements it (InventoryLedger!Account).                *)
(***************************************************************************)
EXTENDS Naturals, Sequences

CONSTANT MaxQuantity

VARIABLES
  stock,   \* units on the shelf
  state,   \* "NONE" before the product exists, then "ACTIVE" or "INACTIVE"
  log      \* the operations performed so far

accountVars == <<stock, state, log>>

Logged(op, n) == log' = Append(log, [op |-> op, n |-> n])

AccountInit ==
  /\ stock = 0
  /\ state = "NONE"
  /\ log = << >>

\* The product enters the catalogue; an opening stock is its first delivery.
Open(n) ==
  /\ state = "NONE"
  /\ state' = "ACTIVE"
  /\ stock' = n
  /\ IF n = 0 THEN UNCHANGED log ELSE Logged("PUT", n)

\* The product is taken out of use, or put back, with the stock it has.
Retire ==
  /\ state = "ACTIVE"
  /\ state' = "INACTIVE"
  /\ UNCHANGED <<stock, log>>

Reinstate ==
  /\ state = "INACTIVE"
  /\ state' = "ACTIVE"
  /\ UNCHANGED <<stock, log>>

\* n units come in; the shelf is bounded.
Put(n) ==
  /\ stock + n <= MaxQuantity
  /\ stock' = stock + n
  /\ Logged("PUT", n)

\* n units go out; there must be enough of them.
Take(n) ==
  /\ n <= stock
  /\ stock' = stock - n
  /\ Logged("TAKE", n)

\* Somebody counts n units, and not what the books say.
Count(n) ==
  /\ n # stock
  /\ stock' = n
  /\ Logged("COUNT", n)

Operate ==
  /\ state = "ACTIVE"
  /\ \/ \E n \in 1 .. MaxQuantity : Put(n) \/ Take(n)
     \/ \E n \in 0 .. MaxQuantity : Count(n)
  /\ UNCHANGED state

AccountNext ==
  \/ \E n \in 0 .. MaxQuantity : Open(n)
  \/ Retire \/ Reinstate \/ Operate

AccountSpec == AccountInit /\ [][AccountNext]_accountVars
=============================================================================
