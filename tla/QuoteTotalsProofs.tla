--------------------------- MODULE QuoteTotalsProofs --------------------------
(***************************************************************************)
(* Proofs about QuoteTotals.  Sums and rounding come first; the theorems   *)
(* follow from one inductive invariant, that what is stored is what would  *)
(* be computed again.                                                      *)
(***************************************************************************)
EXTENDS QuoteTotals, SequenceTheorems, WellFoundedInduction, TLAPS

-----------------------------------------------------------------------------
(* Induction over the naturals, as a fact about sets of numbers.           *)

\* A set of naturals that is not empty has a least element.
LEMMA LeastElement ==
  ASSUME NEW T \in SUBSET Nat, T # {}
  PROVE  \E m \in T : \A n \in T : m <= n
<1> DEFINE R == OpToRel(<, Nat)
<1>1. IsWellFoundedOn(R, Nat)
  BY NatLessThanWellFounded
<1>2. \A m, n \in Nat : m < n => <<m, n>> \in R
  BY DEF OpToRel
<1> HIDE DEF R
<1>3. PICK m \in T : \A n \in T : <<n, m>> \notin R
  BY <1>1, WFMin
<1>4. \A n \in T : ~(n < m)
  BY <1>2, <1>3
<1> QED
  BY <1>4

\* A set with 0, and with the successor of each natural in it, has every natural.
LEMMA SetInduction ==
  ASSUME NEW T, 0 \in T, \A n \in Nat : n \in T => n + 1 \in T
  PROVE  Nat \subseteq T
<1> SUFFICES ASSUME Nat \ T # {} PROVE FALSE
  OBVIOUS
<1>1. PICK m \in Nat \ T : \A n \in Nat \ T : m <= n
  BY LeastElement
<1>2. m - 1 \in Nat /\ m - 1 \notin Nat \ T
  BY <1>1
<1> QED
  BY <1>1, <1>2

-----------------------------------------------------------------------------
(* Sums.                                                                   *)

\* The recursion of PartialSums has a solution up to every index.
LEMMA PartialSumsExist ==
  ASSUME NEW s
  PROVE  \A m \in Nat :
           \E f : f = [n \in 0..m |-> IF n = 0 THEN 0 ELSE f[n - 1] + s[n]]
<1> DEFINE Solves(f, m) ==
             f = [n \in 0..m |-> IF n = 0 THEN 0 ELSE f[n - 1] + s[n]]
           T == {m \in Nat : \E f : Solves(f, m)}
<1>1. 0 \in T
  <2>1. Solves([n \in 0..0 |-> 0], 0)
    OBVIOUS
  <2> QED
    BY <2>1
<1>2. ASSUME NEW m \in Nat, m \in T PROVE m + 1 \in T
  <2>1. PICK f : Solves(f, m)
    BY <1>2
  <2> DEFINE g == [n \in 0..(m + 1) |->
                     IF n = m + 1 THEN f[m] + s[m + 1] ELSE f[n]]
  <2>2. ASSUME NEW n \in 0..(m + 1)
        PROVE  g[n] = IF n = 0 THEN 0 ELSE g[n - 1] + s[n]
    <3>1. CASE n = m + 1
      BY <3>1
    <3>2. CASE n \in 0..m
      <4>1. f[n] = IF n = 0 THEN 0 ELSE f[n - 1] + s[n]
        BY <2>1, <3>2
      <4> QED
        BY <3>2, <4>1
    <3> QED
      BY <3>1, <3>2
  <2>3. Solves(g, m + 1)
    BY <2>2
  <2> HIDE DEF g, Solves
  <2>4. \E h : Solves(h, m + 1)
    BY <2>3
  <2> QED
    BY <2>4
<1>3. Nat \subseteq T
  <2> HIDE DEF T
  <2> QED
    BY <1>1, <1>2, SetInduction
<1> QED
  BY <1>3

\* So it is the function that its recursion describes.
LEMMA PartialSumsDef ==
  ASSUME NEW s, Len(s) \in Nat
  PROVE  PartialSums(s) =
           [n \in 0..Len(s) |->
              IF n = 0 THEN 0 ELSE PartialSums(s)[n - 1] + s[n]]
<1>1. \E f : f = [n \in 0..Len(s) |-> IF n = 0 THEN 0 ELSE f[n - 1] + s[n]]
  BY PartialSumsExist
<1> QED
  BY <1>1, Zenon DEF PartialSums

\* If two sums are near up to some index, and so are the next summands, then the
\* sums with these are.
LEMMA NearStep ==
  ASSUME NEW k \in Nat, NEW m \in Nat, NEW a \in Nat, NEW b \in Nat,
         NEW c \in Nat, NEW d \in Nat,
         2 * (k * a - b) \in -(k * m) .. (k * m), 2 * (k * c - d) \in -k .. k
  PROVE  2 * (k * (a + c) - (b + d)) \in -(k * (m + 1)) .. (k * (m + 1))
<1>1. k * (a + c) = k * a + k * c
  OBVIOUS
<1>2. k * (m + 1) = k * m + k
  OBVIOUS
<1>3. k * a \in Nat /\ k * c \in Nat /\ k * m \in Nat
  OBVIOUS
<1> DEFINE ka == k * a
           kc == k * c
           km == k * m
<1> HIDE DEF ka, kc, km
<1>4. 2 * ((ka + kc) - (b + d)) \in -(km + k) .. (km + k)
  <2>1. 2 * (ka - b) \in -km .. km /\ 2 * (kc - d) \in -k .. k
    BY DEF ka, kc, km
  <2>2. ka \in Nat /\ kc \in Nat /\ km \in Nat
    BY <1>3 DEF ka, kc, km
  <2> QED
    BY <2>1, <2>2
<1> QED
  BY <1>1, <1>2, <1>4 DEF ka, kc, km

\* Sums of naturals are naturals, and what k times each summand is off by at most,
\* doubled, k times the sum is off by at most that often.
LEMMA SumsNear ==
  ASSUME NEW k \in Nat, NEW s, NEW t, Len(s) \in Nat, Len(t) = Len(s),
         \A i \in 1..Len(s) : /\ s[i] \in Nat /\ t[i] \in Nat
                              /\ 2 * (k * s[i] - t[i]) \in -k .. k
  PROVE  /\ Sum(s) \in Nat
         /\ 2 * (k * Sum(s) - Sum(t)) \in -(k * Len(s)) .. (k * Len(s))
<1> DEFINE p == PartialSums(s)
           q == PartialSums(t)
           Near(m) == /\ p[m] \in Nat /\ q[m] \in Nat
                      /\ 2 * (k * p[m] - q[m]) \in -(k * m) .. (k * m)
           T == {m \in Nat : m <= Len(s) => Near(m)}
<1>1. \A n \in 0..Len(s) :
        /\ p[n] = IF n = 0 THEN 0 ELSE p[n - 1] + s[n]
        /\ q[n] = IF n = 0 THEN 0 ELSE q[n - 1] + t[n]
  BY PartialSumsDef
<1> HIDE DEF p, q
<1>2. 0 \in T
  <2>1. p[0] = 0 /\ q[0] = 0 /\ k * 0 = 0
    BY <1>1
  <2>2. Near(0)
    BY <2>1
  <2> QED
    BY <2>2
<1>3. ASSUME NEW m \in Nat, m \in T PROVE m + 1 \in T
  <2> SUFFICES ASSUME m + 1 <= Len(s) PROVE Near(m + 1)
    OBVIOUS
  <2>1. Near(m)
    BY <1>3
  <2>2. p[m + 1] = p[m] + s[m + 1] /\ q[m + 1] = q[m] + t[m + 1]
    BY <1>1
  <2>3. /\ s[m + 1] \in Nat /\ t[m + 1] \in Nat
        /\ 2 * (k * s[m + 1] - t[m + 1]) \in -k .. k
    OBVIOUS
  <2>4. 2 * (k * (p[m] + s[m + 1]) - (q[m] + t[m + 1]))
          \in -(k * (m + 1)) .. (k * (m + 1))
    BY <2>1, <2>3, NearStep
  <2>5. 2 * (k * p[m + 1] - q[m + 1]) \in -(k * (m + 1)) .. (k * (m + 1))
    BY <2>2, <2>4, Zenon
  <2>6. p[m + 1] \in Nat /\ q[m + 1] \in Nat
    <3>1. \A x, y \in Nat : x + y \in Nat
      OBVIOUS
    <3>2. p[m] \in Nat /\ q[m] \in Nat
      BY <2>1, Zenon
    <3> QED
      BY <2>2, <2>3, <3>1, <3>2, Zenon
  <2> QED
    BY <2>5, <2>6, Zenon
<1>4. Nat \subseteq T
  <2> HIDE DEF T
  <2> QED
    BY <1>2, <1>3, SetInduction
<1>5. Near(Len(s))
  BY <1>4
<1> QED
  BY <1>5 DEF Sum, p, q

-----------------------------------------------------------------------------
(* Rounding and the figures of one computation.                            *)

\* Integer division by a positive number.
LEMMA DivBounds ==
  ASSUME NEW a \in Int, NEW d \in Nat \ {0}
  PROVE  /\ a \div d \in Int
         /\ d * (a \div d) <= a
         /\ a < d * (a \div d) + d
  BY SMT

\* A line total is within half a cent of the exact product.
LEMMA RoundNearest ==
  ASSUME NEW n \in Nat
  PROVE  /\ Round(n) \in Nat
         /\ 2 * (Scale * Round(n) - n) \in -Scale .. Scale
<1> DEFINE d == 2 * Scale
           a == 2 * n + Scale
<1>1. d \in Nat \ {0} /\ a \in Nat /\ Scale \in Nat
  BY ScaleAssumption
<1> HIDE DEF d, a
<1>2. /\ a \div d \in Int
      /\ d * (a \div d) <= a
      /\ a < d * (a \div d) + d
  BY <1>1, DivBounds
<1>3. a \div d >= 0
  BY <1>1, <1>2
<1> QED
  BY <1>1, <1>2, <1>3 DEF a, d, Round

\* Lines as a request or a stored quote gives them.
AnyLines == Inputs \cup Items

LEMMA LinesAreSequences ==
  ASSUME NEW lines \in AnyLines
  PROVE  /\ Len(lines) \in 1..MaxItems
         /\ DOMAIN lines = 1..Len(lines)
         /\ \A i \in 1..Len(lines) :
              /\ lines[i].quantity \in Quantities
              /\ lines[i].price \in Prices
              /\ lines[i].quantity * lines[i].price \in Nat
<1>1. PICK n \in 1..MaxItems : lines \in [1..n -> Input] \/ lines \in [1..n -> Item]
  BY DEF AnyLines, Inputs, Items
<1>2. Len(lines) = n /\ DOMAIN lines = 1..n
  BY <1>1
<1>3. \A i \in 1..n : lines[i].quantity \in Quantities /\ lines[i].price \in Prices
  BY <1>1 DEF Input, Item
<1>4. \A q \in Quantities, p \in Prices : q * p \in Nat
  BY InputAssumption
<1> QED
  BY <1>2, <1>3, <1>4

\* A priced line keeps what it was computed from.
LEMMA PricedLines ==
  ASSUME NEW lines \in AnyLines
  PROVE  /\ Len(lines) \in Nat
         /\ Len(Priced(lines)) = Len(lines)
         /\ \A i \in 1..Len(lines) :
              /\ Priced(lines)[i].quantity = lines[i].quantity
              /\ Priced(lines)[i].price = lines[i].price
              /\ Priced(lines)[i].total = Round(lines[i].quantity * lines[i].price)
<1>1. Len(lines) \in Nat
  BY LinesAreSequences, InputAssumption
<1> QED
  BY <1>1 DEF Priced

\* Pricing looks at quantities and prices only: what it makes of priced lines is what
\* they are.
LEMMA PricedAgain ==
  ASSUME NEW lines \in AnyLines
  PROVE  Priced(Priced(lines)) = Priced(lines)
<1> DEFINE P == Priced(lines)
<1>1. /\ Len(P) = Len(lines) /\ Len(lines) \in Nat
      /\ \A i \in 1..Len(lines) :
           /\ P[i].quantity = lines[i].quantity
           /\ P[i].price = lines[i].price
  BY PricedLines, Zenon
<1> HIDE DEF P
<1>2. Priced(P) =
        [i \in 1..Len(lines) |->
           [quantity |-> lines[i].quantity, price |-> lines[i].price,
            total |-> Round(lines[i].quantity * lines[i].price)]]
  BY <1>1 DEF Priced
<1> QED
  BY <1>2 DEF Priced, P

\* The totals of lines, and their exact values.
Totals(items) == [i \in 1..Len(items) |-> items[i].total]

Exact(items) == [i \in 1..Len(items) |-> items[i].quantity * items[i].price]

\* The subtotal of priced lines is a natural, and near their exact value.
LEMMA SubtotalOfPriced ==
  ASSUME NEW lines \in AnyLines
  PROVE  LET items == Priced(lines) IN
         /\ Sum(Totals(items)) \in Nat
         /\ 2 * (Scale * Sum(Totals(items)) - Sum(Exact(items)))
              \in -(Scale * Len(items)) .. (Scale * Len(items))
<1> DEFINE items == Priced(lines)
           s == Totals(items)
           t == Exact(items)
<1>1. /\ Len(items) \in Nat /\ Len(items) = Len(lines)
      /\ \A i \in 1..Len(lines) :
           /\ items[i].quantity = lines[i].quantity
           /\ items[i].price = lines[i].price
           /\ items[i].total = Round(lines[i].quantity * lines[i].price)
  BY PricedLines, Zenon
<1> HIDE DEF items
<1>2. Len(s) = Len(items) /\ Len(t) = Len(items)
  BY <1>1 DEF Totals, Exact
<1>3. \A i \in 1..Len(items) :
        /\ s[i] = Round(lines[i].quantity * lines[i].price)
        /\ t[i] = lines[i].quantity * lines[i].price
  BY <1>1 DEF Totals, Exact
<1>4. \A i \in 1..Len(items) : lines[i].quantity * lines[i].price \in Nat
  BY <1>1, LinesAreSequences
<1>5. \A i \in 1..Len(items) : /\ s[i] \in Nat /\ t[i] \in Nat
                                /\ 2 * (Scale * s[i] - t[i]) \in -Scale .. Scale
  BY <1>3, <1>4, RoundNearest, Zenon
<1> HIDE DEF s, t
<1> QED
  BY <1>1, <1>2, <1>5, SumsNear, ScaleAssumption DEF items, s, t

-----------------------------------------------------------------------------
(* One computation.                                                        *)

Optional == Amounts \cup {None}

LEMMA OrZeroNat ==
  ASSUME NEW x \in Optional
  PROVE  OrZero(x) \in Nat
  BY InputAssumption DEF Optional, OrZero

LEMMA ComputeFields ==
  ASSUME NEW lines, NEW d, NEW t, NEW f, f = Compute(lines, d, t)
  PROVE  /\ f.items = Priced(lines) /\ f.discount = d /\ f.tax = t
         /\ f.subtotal = Sum(Totals(f.items))
         /\ f.total = f.subtotal - OrZero(d) + OrZero(t)
  BY DEF Compute, Totals

\* Priced lines that fit their columns are items.
LEMMA PricedAreItems ==
  ASSUME NEW lines \in AnyLines,
         \A i \in 1..Len(Priced(lines)) : Priced(lines)[i].total <= MaxMoney
  PROVE  Priced(lines) \in Items
<1> DEFINE n == Len(lines)
<1>1. n \in 1..MaxItems
  BY LinesAreSequences
<1>2. ASSUME NEW i \in 1..n
      PROVE  [quantity |-> lines[i].quantity, price |-> lines[i].price,
              total |-> Round(lines[i].quantity * lines[i].price)] \in Item
  <2>1. lines[i].quantity \in Quantities /\ lines[i].price \in Prices
    BY LinesAreSequences
  <2>2. Round(lines[i].quantity * lines[i].price) \in Nat
    BY LinesAreSequences, RoundNearest, Zenon
  <2>3. Round(lines[i].quantity * lines[i].price) <= MaxMoney
    BY PricedLines, Zenon
  <2>4. Round(lines[i].quantity * lines[i].price) \in Money
    BY <2>2, <2>3, ScaleAssumption DEF Money
  <2> QED
    BY <2>1, <2>4 DEF Item
<1>3. Priced(lines) \in [1..n -> Item]
  BY <1>2 DEF Priced
<1> QED
  BY <1>1, <1>3, Zenon DEF Items

\* Figures that are what would be computed and accepted again.
Settled(f) ==
  /\ f \in Figures
  /\ f = Compute(f.items, f.discount, f.tax)
  /\ IsAccepted(f)

\* What an operation computes and accepts is settled: computing it again from what it
\* stored gives the same.
LEMMA AcceptedIsSettled ==
  ASSUME NEW lines \in AnyLines, NEW d \in Optional, NEW t \in Optional,
         IsAccepted(Compute(lines, d, t))
  PROVE  Settled(Compute(lines, d, t))
<1> DEFINE f == Compute(lines, d, t)
<1>1. /\ f.items = Priced(lines) /\ f.discount = d /\ f.tax = t
      /\ f.subtotal = Sum(Totals(f.items))
      /\ f.total = f.subtotal - OrZero(d) + OrZero(t)
  BY ComputeFields
<1>2. f = Compute(f.items, f.discount, f.tax)
  <2>1. Priced(f.items) = f.items
    BY <1>1, PricedAgain
  <2> QED
    BY <1>1, <2>1 DEF Compute
<1>3. f = [items |-> f.items, discount |-> f.discount, tax |-> f.tax,
           subtotal |-> f.subtotal, total |-> f.total]
  BY DEF Compute
<1>4. IsAccepted(f)
  OBVIOUS
<1> HIDE DEF f
<1>5. f.items \in Items
  BY <1>1, <1>4, PricedAreItems DEF IsAccepted, FitsColumns
<1>6. f.subtotal \in Nat
  BY <1>1, SubtotalOfPriced
<1>7. f.subtotal \in Money /\ f.total \in Money
  BY <1>1, <1>4, <1>6, OrZeroNat, ScaleAssumption
  DEF IsAccepted, IsDiscountable, FitsColumns, Money
<1>8. f \in Figures
  BY <1>1, <1>3, <1>5, <1>7 DEF Figures, Optional
<1> QED
  BY <1>2, <1>4, <1>8 DEF Settled, f

\* Settled figures add up, cover the tax, and are near the exact value of the lines.
LEMMA SettledFigures ==
  ASSUME NEW f, Settled(f)
  PROVE  /\ f.subtotal = Sum(Totals(f.items))
         /\ f.total + OrZero(f.discount) = f.subtotal + OrZero(f.tax)
         /\ f.total >= OrZero(f.tax)
         /\ 2 * (Scale * f.subtotal - Sum(Exact(f.items)))
              \in -(Scale * Len(f.items)) .. (Scale * Len(f.items))
<1>1. /\ f.items \in AnyLines
      /\ f.discount \in Optional /\ f.tax \in Optional
      /\ f.subtotal \in Nat /\ f.total \in Nat
  BY ScaleAssumption DEF Settled, Figures, AnyLines, Optional, Money
<1>2. /\ f.items = Priced(f.items)
      /\ f.subtotal = Sum(Totals(f.items))
      /\ f.total = f.subtotal - OrZero(f.discount) + OrZero(f.tax)
  BY ComputeFields DEF Settled
<1>3. OrZero(f.discount) <= f.subtotal
  BY DEF Settled, IsAccepted, IsDiscountable
<1>4. OrZero(f.discount) \in Nat /\ OrZero(f.tax) \in Nat
  BY <1>1, OrZeroNat
<1>5. 2 * (Scale * f.subtotal - Sum(Exact(f.items)))
        \in -(Scale * Len(f.items)) .. (Scale * Len(f.items))
  BY <1>1, <1>2, SubtotalOfPriced, Zenon
<1>6. f.total + OrZero(f.discount) = f.subtotal + OrZero(f.tax)
  BY <1>1, <1>2, <1>4
<1>7. f.total >= OrZero(f.tax)
  BY <1>1, <1>2, <1>3, <1>4
<1> QED
  BY <1>2, <1>5, <1>6, <1>7

-----------------------------------------------------------------------------
(* The inductive invariant and the theorems.                               *)

\* Either there is no quote yet, or its figures are what computeTotals makes of them.
IInv ==
  /\ version \in 0..MaxVersions /\ draft \in BOOLEAN
  /\ draft => version > 0
  /\ version = 0 => quote = None
  /\ version > 0 => Settled(quote)

LEMMA InitIInv == Init => IInv
<1> SUFFICES ASSUME Init PROVE IInv
  OBVIOUS
<1>1. version = 0 /\ ~(version > 0) /\ version \in 0..MaxVersions
  BY InputAssumption DEF Init
<1> QED
  BY <1>1, Zenon DEF Init, IInv

LEMMA CreateIInv ==
  ASSUME IInv, Create
  PROVE  IInv'
<1>1. PICK lines \in Inputs, d \in Optional, t \in Optional :
        IsAccepted(Compute(lines, d, t)) /\ quote' = Compute(lines, d, t)
  BY DEF Create, Optional
<1>2. Settled(quote')
  BY <1>1, AcceptedIsSettled DEF AnyLines
<1> QED
  BY <1>2, InputAssumption DEF IInv, Create, Settled

LEMMA UpdateIInv ==
  ASSUME IInv, Update
  PROVE  IInv'
<1>1. Settled(quote)
  BY DEF IInv, Update
<1>2. /\ quote.items \in Items
      /\ quote.discount \in Optional /\ quote.tax \in Optional
  BY <1>1 DEF Settled, Figures, Optional
<1>3. PICK lines \in Inputs \cup {quote.items},
           d \in Amounts \cup {None, quote.discount},
           t \in Amounts \cup {None, quote.tax} :
        /\ IsAccepted(Compute(lines, d, t))
        /\ quote' = IF lines = quote.items
                    THEN [Compute(lines, d, t) EXCEPT !.items = quote.items]
                    ELSE Compute(lines, d, t)
  BY DEF Update
<1>4. lines \in AnyLines /\ d \in Optional /\ t \in Optional
  BY <1>2 DEF AnyLines, Optional
<1>5. Settled(Compute(lines, d, t))
  BY <1>3, <1>4, AcceptedIsSettled
<1>6. quote' = Compute(lines, d, t)
  <2>1. CASE lines = quote.items
    <3>1. Priced(lines) = quote.items
      BY <1>1, <2>1, ComputeFields DEF Settled
    <3> QED
      BY <1>3, <2>1, <3>1 DEF Compute
  <2>2. CASE lines # quote.items
    BY <1>3, <2>2
  <2> QED
    BY <2>1, <2>2
<1>7. Settled(quote')
  BY <1>5, <1>6
<1>8. version > 0 /\ version' = version /\ draft' = draft
  BY DEF IInv, Update
<1> QED
  BY <1>7, <1>8 DEF IInv, Settled

LEMMA DecideIInv ==
  ASSUME IInv, Decide
  PROVE  IInv'
  BY DEF IInv, Decide, Settled

LEMMA CreateVersionIInv ==
  ASSUME IInv, CreateVersion
  PROVE  IInv'
<1>1. version \in 1..(MaxVersions - 1) /\ version' = version + 1
      /\ draft' = TRUE /\ quote' = quote
  BY DEF CreateVersion
<1>2. Settled(quote)
  BY <1>1 DEF IInv
<1>3. Settled(quote')
  BY <1>1, <1>2
<1> QED
  BY <1>1, <1>3, InputAssumption DEF IInv, Settled

\* Whatever create, update, changeStatus and createVersion do, a quote that is there is
\* settled.
THEOREM Invariance == Spec => []IInv
<1>1. ASSUME IInv, [Next]_vars PROVE IInv'
  <2>1. CASE Create
    BY <1>1, <2>1, CreateIInv
  <2>2. CASE Update
    BY <1>1, <2>2, UpdateIInv
  <2>3. CASE Decide
    BY <1>1, <2>3, DecideIInv
  <2>4. CASE CreateVersion
    BY <1>1, <2>4, CreateVersionIInv
  <2>5. CASE UNCHANGED vars
    BY <1>1, <2>5 DEF IInv, Settled, vars
  <2> QED
    BY <1>1, <2>1, <2>2, <2>3, <2>4, <2>5 DEF Next
<1> QED
  BY <1>1, InitIInv, PTL DEF Spec

\* Every amount that is stored fits its column (computeTotals and the columns of quotes
\* and quote_items).
THEOREM TypeCorrect == Spec => []TypeOK
<1>1. IInv => TypeOK
  BY DEF IInv, TypeOK, Settled
<1> QED
  BY <1>1, Invariance, PTL

\* What is stored is what computeTotals would make of it again, for any number of edits
\* and versions.
THEOREM StoredIsComputed == Spec => []StoredAsComputed
<1>1. IInv => StoredAsComputed
  BY DEF IInv, StoredAsComputed, Settled
<1> QED
  BY <1>1, Invariance, PTL

\* The lines make the subtotal, and subtotal, discount and tax the total, of every
\* version after every edit.
THEOREM FiguresAlwaysAddUp == Spec => []FiguresAddUp
<1>1. IInv => StoredAsComputed
  BY DEF IInv, StoredAsComputed, Settled
<1>2. IInv => FiguresAddUp
  BY <1>1, SettledFigures DEF IInv, FiguresAddUp, Totals
<1> QED
  BY <1>2, Invariance, PTL

\* A discount never reaches into the tax, whichever edit replaced the items it was
\* given on.
THEOREM TotalAlwaysCoversTax == Spec => []TotalCoversTax
<1>1. IInv => TotalCoversTax
  BY SettledFigures DEF IInv, TotalCoversTax
<1> QED
  BY <1>1, Invariance, PTL

\* Rounding costs at most half a cent a line, for any scale, number of lines, edits and
\* versions.
THEOREM SubtotalAlwaysNearExact == Spec => []SubtotalNearExact
<1>1. IInv => SubtotalNearExact
  BY SettledFigures DEF IInv, SubtotalNearExact, Exact
<1> QED
  BY <1>1, Invariance, PTL
===============================================================================
