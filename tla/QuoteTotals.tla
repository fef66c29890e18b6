------------------------------ MODULE QuoteTotals -----------------------------
(***************************************************************************)
(* The figures of the latest quote of an order: what QuotesService         *)
(* computes from quantities and unit prices, stores next to them, computes *)
(* again from what it has stored when a draft is edited, and copies into   *)
(* the next version.  Older versions are never written                     *)
(* (QuoteWorkflow!OnlyDraftsEdited).                                       *)
(*                                                                         *)
(* Money is in cents, a quantity in 1/Scale units, as their columns hold   *)
(* them.  The row lock of the order makes each operation one step          *)
(* (QuoteWorkflow); there the content of a quote is one value, here it is  *)
(* all there is.                                                           *)
(***************************************************************************)
EXTENDS Integers, Sequences

CONSTANTS
  Scale,        \* parts of a unit in a quantity: 1000
  Quantities,   \* the quantities that clients send
  Prices,       \* the unit prices that clients send
  Amounts,      \* the discounts and taxes that clients send
  MaxMoney,     \* the largest amount a column holds: DECIMAL(12, 2)
  MaxItems,     \* bound of the model on the items of a quote
  MaxVersions,  \* bound of the model on the versions of a quote
  None          \* no quote; no discount, no tax: NULL

ASSUME ScaleAssumption == Scale \in Nat \ {0} /\ MaxMoney \in Nat
ASSUME InputAssumption ==
  /\ Quantities \subseteq Nat \ {0}
  /\ Prices \subseteq 0..MaxMoney
  /\ Amounts \subseteq 0..MaxMoney
  /\ MaxItems \in Nat \ {0} /\ MaxVersions \in Nat \ {0}
  /\ None \notin Nat

VARIABLES
  quote,    \* its figures; None before there is one
  version,  \* its number
  draft     \* it may be edited

vars == <<quote, version, draft>>

-----------------------------------------------------------------------------
(* Rows.                                                                   *)

Money == 0..MaxMoney

Input == [quantity: Quantities, price: Prices]

Inputs == UNION {[1..n -> Input] : n \in 1..MaxItems}

Item == [quantity: Quantities, price: Prices, total: Money]

Items == UNION {[1..n -> Item] : n \in 1..MaxItems}

Figures ==
  [items: Items, discount: Amounts \cup {None}, tax: Amounts \cup {None},
   subtotal: Money, total: Money]

\* One type invariant for the module: every amount that is stored fits its column.
TypeOK ==
  /\ quote = None \/ quote \in Figures
  /\ version \in 0..MaxVersions
  /\ draft \in BOOLEAN

Init == quote = None /\ version = 0 /\ draft = FALSE

-----------------------------------------------------------------------------
(* computeTotals.                                                          *)

\* Faulty: the result is cut off.
RoundDown(n) == n \div Scale

\* Decimal.toDecimalPlaces: to the nearest cent, halves up.
Round(n) == (2 * n + Scale) \div (2 * Scale)

OrZero(x) == IF x = None THEN 0 ELSE x

\* The subtotal while the lines are added to it, one after the other.
PartialSums(s) ==
  LET f[n \in 0..Len(s)] == IF n = 0 THEN 0 ELSE f[n - 1] + s[n]
  IN  f

Sum(s) == PartialSums(s)[Len(s)]

Priced(inputs) ==
  [i \in 1..Len(inputs) |->
     [quantity |-> inputs[i].quantity, price |-> inputs[i].price,
      total |-> Round(inputs[i].quantity * inputs[i].price)]]

Compute(inputs, discount, tax) ==
  LET items    == Priced(inputs)
      subtotal == Sum([i \in 1..Len(items) |-> items[i].total])
  IN  [items |-> items, discount |-> discount, tax |-> tax,
       subtotal |-> subtotal,
       total |-> subtotal - OrZero(discount) + OrZero(tax)]

\* Faulty: the discount is compared with what it is taken from, tax included.
IsDiscountableAfterTax(f) == OrZero(f.discount) <= f.subtotal + OrZero(f.tax)

\* "Discount cannot exceed the subtotal."
IsDiscountable(f) == OrZero(f.discount) <= f.subtotal

\* Faulty: the database is trusted to cut amounts to size.
FitsAnyColumn(f) == TRUE

\* A larger amount is refused by the column, and nothing is written.
FitsColumns(f) ==
  /\ \A i \in 1..Len(f.items) : f.items[i].total <= MaxMoney
  /\ f.subtotal <= MaxMoney /\ f.total <= MaxMoney

IsAccepted(f) == IsDiscountable(f) /\ FitsColumns(f)

-----------------------------------------------------------------------------
(* The operations.                                                         *)

Create ==
  /\ version = 0
  /\ \E inputs \in Inputs, d \in Amounts \cup {None}, t \in Amounts \cup {None} :
       LET f == Compute(inputs, d, t) IN
       /\ IsAccepted(f)
       /\ quote' = f
  /\ version' = 1
  /\ draft' = TRUE

\* Faulty: the figures are those of the new items, the items are still the old ones.
UpdateFiguresOnly ==
  /\ draft
  /\ \E inputs \in Inputs \cup {quote.items},
        d \in Amounts \cup {None, quote.discount},
        t \in Amounts \cup {None, quote.tax} :
       LET f == Compute(inputs, d, t) IN
       /\ IsAccepted(f)
       /\ quote' = [f EXCEPT !.items = quote.items]
  /\ UNCHANGED <<version, draft>>

\* What the request leaves undefined is taken from the row; null clears it.  Items
\* that are not replaced are not written, the totals always are.
Update ==
  /\ draft
  /\ \E inputs \in Inputs \cup {quote.items},
        d \in Amounts \cup {None, quote.discount},
        t \in Amounts \cup {None, quote.tax} :
       LET f == Compute(inputs, d, t) IN
       /\ IsAccepted(f)
       /\ quote' = IF inputs = quote.items THEN [f EXCEPT !.items = quote.items]
                   ELSE f
  /\ UNCHANGED <<version, draft>>

\* changeStatus leaves the figures alone; a decided quote is never edited again.
Decide ==
  /\ draft
  /\ draft' = FALSE
  /\ UNCHANGED <<quote, version>>

\* Each figure is copied, none is computed again.
CreateVersion ==
  /\ version \in 1..(MaxVersions - 1) /\ ~draft
  /\ version' = version + 1
  /\ draft' = TRUE
  /\ UNCHANGED quote

Next == Create \/ Update \/ Decide \/ CreateVersion

Spec == Init /\ [][Next]_vars

-----------------------------------------------------------------------------
(* Properties, of a quote that is there.                                   *)

\* What is stored is what would be computed and accepted again from the items, the
\* discount and the tax that are stored: however many edits and versions led to it,
\* an update that changes nothing changes nothing.
StoredAsComputed ==
  version > 0 =>
    /\ quote = Compute(quote.items, quote.discount, quote.tax)
    /\ IsAccepted(quote)

\* What a customer adds up on paper: the lines shown make the subtotal shown, and
\* the discount and tax shown lead from there to the total, whichever of them the
\* last edit named; and the program, asked again, would say the same.
FiguresAddUp ==
  /\ StoredAsComputed
  /\ version > 0 =>
       /\ quote.subtotal =
            Sum([i \in 1..Len(quote.items) |-> quote.items[i].total])
       /\ quote.total + OrZero(quote.discount) = quote.subtotal + OrZero(quote.tax)

\* Nobody is paid for a repair: a discount that was accepted once is compared again
\* with the items that replace those it was given on ("Discount cannot exceed the
\* subtotal.").
TotalCoversTax == version > 0 => quote.total >= OrZero(quote.tax)

\* Rounding each line costs at most half a cent a line, and versions and edits of
\* what is already rounded add nothing to it.
SubtotalNearExact ==
  version > 0 =>
    LET exact == Sum([i \in 1..Len(quote.items) |->
                        quote.items[i].quantity * quote.items[i].price])
        lost  == 2 * (Scale * quote.subtotal - exact)
    IN  lost \in -(Scale * Len(quote.items)) .. (Scale * Len(quote.items))
===============================================================================
