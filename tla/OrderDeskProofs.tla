---------------------------- MODULE OrderDeskProofs ----------------------------
(***************************************************************************)
(* Theorems about OrderDesk for any number of requests, technicians and    *)
(* codes: orders are numbered without a gap as far as the padding goes,    *)
(* crossing writes keep each other's columns, and only late writes slip    *)
(* past the checks.                                                        *)
(***************************************************************************)
EXTENDS OrderDesk, WellFoundedInduction, TLAPS

-----------------------------------------------------------------------------
(* Induction over the naturals, as a fact about sets of numbers.           *)

\* A set of naturals that is not empty has a least element.
LEMMA LeastElement ==
  ASSUME NEW T \in SUBSET Nat, T # {}
  PROVE  \E m \in T : \A n \in T : m <= n
<1> DEFINE R == OpToRel(<, Nat)
<1>1. IsWellFoundedOn(R, Nat)
  BY NatLessThanWellFounded
<1>2. \A m, n \in Nat : m < n => <<m, n>> \in R
  BY DEF OpToRel
<1> HIDE DEF R
<1>3. PICK m \in T : \A n \in T : <<n, m>> \notin R
  BY <1>1, WFMin
<1>4. \A n \in T : ~(n < m)
  BY <1>2, <1>3
<1> QED
  BY <1>4

\* A set with 0, and with the successor of each natural in it, has every natural.
LEMMA SetInduction ==
  ASSUME NEW T, 0 \in T, \A n \in Nat : n \in T => n + 1 \in T
  PROVE  Nat \subseteq T
<1> SUFFICES ASSUME Nat \ T # {} PROVE FALSE
  OBVIOUS
<1>1. PICK m \in Nat \ T : \A n \in Nat \ T : m <= n
  BY LeastElement
<1>2. m - 1 \in Nat /\ m - 1 \notin Nat \ T
  BY <1>1
<1> QED
  BY <1>1, <1>2

-----------------------------------------------------------------------------
(* Powers.                                                                 *)

\* The recursion of Power has a solution up to every exponent.
LEMMA PowersExist ==
  \A m \in Nat :
    \E f : f = [k \in 0..m |-> IF k = 0 THEN 1 ELSE Base * f[k - 1]]
<1> DEFINE Solves(f, m) ==
             f = [k \in 0..m |-> IF k = 0 THEN 1 ELSE Base * f[k - 1]]
           T == {m \in Nat : \E f : Solves(f, m)}
<1>1. 0 \in T
  <2>1. Solves([k \in 0..0 |-> 1], 0)
    OBVIOUS
  <2> QED
    BY <2>1
<1>2. ASSUME NEW m \in Nat, m \in T PROVE m + 1 \in T
  <2>1. PICK f : Solves(f, m)
    BY <1>2
  <2> DEFINE g == [k \in 0..(m + 1) |->
                     IF k = m + 1 THEN Base * f[m] ELSE f[k]]
  <2>2. ASSUME NEW k \in 0..(m + 1)
        PROVE  g[k] = IF k = 0 THEN 1 ELSE Base * g[k - 1]
    <3>1. CASE k = m + 1
      BY <3>1
    <3>2. CASE k \in 0..m
      <4>1. f[k] = IF k = 0 THEN 1 ELSE Base * f[k - 1]
        BY <2>1, <3>2
      <4> QED
        BY <3>2, <4>1
    <3> QED
      BY <3>1, <3>2
  <2>3. Solves(g, m + 1)
    BY <2>2
  <2> HIDE DEF g, Solves
  <2>4. \E h : Solves(h, m + 1)
    BY <2>3
  <2> QED
    BY <2>4
<1>3. Nat \subseteq T
  <2> HIDE DEF T
  <2> QED
    BY <1>1, <1>2, SetInduction
<1> QED
  BY <1>3

\* So it is the function that its recursion describes.
LEMMA PowerDef ==
  Power = [k \in 0..Width |-> IF k = 0 THEN 1 ELSE Base * Power[k - 1]]
<1>1. \E f : f = [k \in 0..Width |-> IF k = 0 THEN 1 ELSE Base * f[k - 1]]
  BY PowersExist, CodeAssumption
<1> QED
  BY <1>1, Zenon DEF Power

\* A number with more digits than one is not less than the base.
LEMMA FullFacts == Full \in Nat /\ Full >= Base /\ Base \in Nat /\ Base >= 3
<1> DEFINE T == {m \in Nat : m + 1 <= Width =>
                              Power[m + 1] \in Nat /\ Power[m + 1] >= Base}
<1>1. Base \in Nat /\ Base >= 3 /\ Width \in Nat \ {0}
  BY CodeAssumption
<1>2. \A k \in 0..Width : Power[k] = IF k = 0 THEN 1 ELSE Base * Power[k - 1]
  BY PowerDef
<1>3. 0 \in T
  BY <1>1, <1>2
<1>4. ASSUME NEW m \in Nat, m \in T PROVE m + 1 \in T
  <2> SUFFICES ASSUME m + 2 <= Width
               PROVE  Power[m + 2] \in Nat /\ Power[m + 2] >= Base
    OBVIOUS
  <2>1. Power[m + 2] = Base * Power[m + 1]
    BY <1>1, <1>2
  <2>2. Power[m + 1] \in Nat /\ Power[m + 1] >= Base
    BY <1>1, <1>4
  <2>3. ASSUME NEW p \in Nat, p >= Base
        PROVE  Base * p \in Nat /\ Base * p >= Base
    BY <1>1, <2>3
  <2> QED
    BY <2>1, <2>2, <2>3
<1>5. Nat \subseteq T
  <2> HIDE DEF T
  <2> QED
    BY <1>3, <1>4, SetInduction
<1>6. Width - 1 \in T /\ (Width - 1) + 1 = Width
  BY <1>1, <1>5
<1> QED
  BY <1>1, <1>6 DEF Full

-----------------------------------------------------------------------------
(* Texts of codes and their numbers.                                       *)

\* The recursion of Horner has a solution along every text.
LEMMA HornerExists ==
  ASSUME NEW s
  PROVE  \A m \in Nat :
           \E f : f = [k \in 0..m |-> IF k = 0 THEN 0 ELSE Base * f[k - 1] + s[k]]
<1> DEFINE Solves(f, m) ==
             f = [k \in 0..m |-> IF k = 0 THEN 0 ELSE Base * f[k - 1] + s[k]]
           T == {m \in Nat : \E f : Solves(f, m)}
<1>1. 0 \in T
  <2>1. Solves([k \in 0..0 |-> 0], 0)
    OBVIOUS
  <2> QED
    BY <2>1
<1>2. ASSUME NEW m \in Nat, m \in T PROVE m + 1 \in T
  <2>1. PICK f : Solves(f, m)
    BY <1>2
  <2> DEFINE g == [k \in 0..(m + 1) |->
                     IF k = m + 1 THEN Base * f[m] + s[m + 1] ELSE f[k]]
  <2>2. ASSUME NEW k \in 0..(m + 1)
        PROVE  g[k] = IF k = 0 THEN 0 ELSE Base * g[k - 1] + s[k]
    <3>1. CASE k = m + 1
      BY <3>1
    <3>2. CASE k \in 0..m
      <4>1. f[k] = IF k = 0 THEN 0 ELSE Base * f[k - 1] + s[k]
        BY <2>1, <3>2
      <4> QED
        BY <3>2, <4>1
    <3> QED
      BY <3>1, <3>2
  <2>3. Solves(g, m + 1)
    BY <2>2
  <2> HIDE DEF g, Solves
  <2>4. \E h : Solves(h, m + 1)
    BY <2>3
  <2> QED
    BY <2>4
<1>3. Nat \subseteq T
  <2> HIDE DEF T
  <2> QED
    BY <1>1, <1>2, SetInduction
<1> QED
  BY <1>3

\* Reading a text digit by digit gives naturals.
LEMMA HornerDef ==
  ASSUME NEW s \in Seq(Digits)
  PROVE  /\ Horner(s)[0] = 0
         /\ \A k \in 1..Len(s) :
              /\ Horner(s)[k - 1] \in Nat /\ Horner(s)[k] \in Nat
              /\ s[k] \in Nat /\ s[k] < Base
              /\ Horner(s)[k] = Base * Horner(s)[k - 1] + s[k]
<1>1. Base \in Nat /\ Base >= 3
  BY CodeAssumption
<1>2. Horner(s) =
        [k \in 0..Len(s) |-> IF k = 0 THEN 0 ELSE Base * Horner(s)[k - 1] + s[k]]
  <2>1. \E f : f = [k \in 0..Len(s) |->
                      IF k = 0 THEN 0 ELSE Base * f[k - 1] + s[k]]
    BY HornerExists
  <2> QED
    BY <2>1, Zenon DEF Horner
<1> DEFINE H == Horner(s)
<1> HIDE DEF H
<1>3. \A k \in 0..Len(s) : H[k] = IF k = 0 THEN 0 ELSE Base * H[k - 1] + s[k]
  BY <1>2 DEF H
<1>4. \A k \in 1..Len(s) : s[k] \in Nat /\ s[k] < Base
  BY <1>1 DEF Digits
<1> DEFINE T == {m \in Nat : m <= Len(s) => H[m] \in Nat}
<1>5. 0 \in T
  BY <1>3
<1>6. ASSUME NEW m \in Nat, m \in T PROVE m + 1 \in T
  <2> SUFFICES ASSUME m + 1 <= Len(s) PROVE H[m + 1] \in Nat
    OBVIOUS
  <2>1. H[m] \in Nat
    BY <1>6
  <2>2. PICK h \in Nat, d \in Nat : h = H[m] /\ d = s[m + 1]
    BY <1>4, <2>1
  <2>3. H[m + 1] = Base * h + d /\ d \in Nat
    BY <1>3, <1>4, <2>2
  <2>4. Base * h \in Nat
    BY <1>1
  <2> QED
    BY <2>3, <2>4
<1>7. Nat \subseteq T
  <2> HIDE DEF T
  <2> QED
    BY <1>5, <1>6, SetInduction
<1>8. \A k \in 0..Len(s) : H[k] \in Nat
  BY <1>7
<1> QED
  BY <1>3, <1>4, <1>8 DEF H

\* The larger leading part stays the larger one, whatever digit follows.
LEMMA DigitStep ==
  ASSUME NEW a \in Nat, NEW b \in Nat, NEW d \in Nat, NEW e \in Nat,
         d < Base, e < Base
  PROVE  /\ Base * a + d < Base * b + e <=> a < b \/ (a = b /\ d < e)
         /\ Base * a + d = Base * b + e <=> a = b /\ d = e
<1>1. Base \in Nat
  BY CodeAssumption
<1>2. ASSUME NEW x \in Nat, NEW y \in Nat, x < y
      PROVE  Base * x + Base <= Base * y
  <2>1. PICK z \in Nat : y = x + 1 + z
    <3>1. y - x - 1 \in Nat /\ y = x + 1 + (y - x - 1)
      BY <1>2
    <3> QED
      BY <3>1
  <2>2. Base * y = Base * x + Base + Base * z
    BY <1>1, <2>1
  <2>3. Base * z \in Nat /\ Base * x \in Nat
    BY <1>1
  <2> QED
    BY <1>1, <2>2, <2>3
<1>3. Base * a \in Nat /\ Base * b \in Nat
  BY <1>1
<1>4. CASE a < b
  <2>1. Base * a + Base <= Base * b
    BY <1>2, <1>4
  <2> QED
    BY <1>1, <1>3, <1>4, <2>1
<1>5. CASE b < a
  <2>1. Base * b + Base <= Base * a
    BY <1>2, <1>5
  <2> QED
    BY <1>1, <1>3, <1>5, <2>1
<1>6. CASE a = b
  BY <1>1, <1>3, <1>6
<1> QED
  BY <1>4, <1>5, <1>6

\* s comes before t within their first k digits.
LessWithin(s, t, k) ==
  \E i \in 1..k : s[i] < t[i] /\ \A j \in 1..(i - 1) : s[j] = t[j]

SameWithin(s, t, k) == \A j \in 1..k : s[j] = t[j]

LEMMA WithinStep ==
  ASSUME NEW s, NEW t, NEW k \in Nat
  PROVE  /\ LessWithin(s, t, k + 1) <=>
              LessWithin(s, t, k) \/ (SameWithin(s, t, k) /\ s[k + 1] < t[k + 1])
         /\ SameWithin(s, t, k + 1) <=> SameWithin(s, t, k) /\ s[k + 1] = t[k + 1]
<1>1. SameWithin(s, t, k + 1) <=> SameWithin(s, t, k) /\ s[k + 1] = t[k + 1]
  <2>1. 1..(k + 1) = (1..k) \cup {k + 1}
    OBVIOUS
  <2> QED
    BY <2>1, Zenon DEF SameWithin
<1>2. ASSUME LessWithin(s, t, k + 1)
      PROVE  LessWithin(s, t, k) \/ (SameWithin(s, t, k) /\ s[k + 1] < t[k + 1])
  <2>1. PICK i \in 1..(k + 1) :
          s[i] < t[i] /\ \A j \in 1..(i - 1) : s[j] = t[j]
    BY <1>2 DEF LessWithin
  <2>2. CASE i = k + 1
    <3>1. (k + 1) - 1 = k
      OBVIOUS
    <3>2. SameWithin(s, t, k) /\ s[k + 1] < t[k + 1]
      BY <2>1, <2>2, <3>1, Zenon DEF SameWithin
    <3> QED
      BY <3>2
  <2>3. CASE i # k + 1
    <3>1. i \in 1..k
      BY <2>1, <2>3
    <3>2. LessWithin(s, t, k)
      BY <2>1, <3>1, Zenon DEF LessWithin
    <3> QED
      BY <3>2
  <2> QED
    BY <2>2, <2>3
<1>3. ASSUME LessWithin(s, t, k) PROVE LessWithin(s, t, k + 1)
  <2>1. 1..k \subseteq 1..(k + 1)
    OBVIOUS
  <2> QED
    BY <1>3, <2>1, Zenon DEF LessWithin
<1>4. ASSUME SameWithin(s, t, k), s[k + 1] < t[k + 1]
      PROVE  LessWithin(s, t, k + 1)
  <2>1. k + 1 \in 1..(k + 1) /\ (k + 1) - 1 = k
    OBVIOUS
  <2>2. \A j \in 1..((k + 1) - 1) : s[j] = t[j]
    BY <1>4, <2>1, Zenon DEF SameWithin
  <2> QED
    BY <1>4, <2>1, <2>2, Zenon DEF LessWithin
<1> QED
  BY <1>1, <1>2, <1>3, <1>4

\* Of two texts, the leading parts compare as the numbers read from them.
LEMMA PartsCompare ==
  ASSUME NEW s \in Seq(Digits), NEW t \in Seq(Digits)
  PROVE  \A k \in Nat : k <= Len(s) /\ k <= Len(t) =>
           /\ Horner(s)[k] < Horner(t)[k] <=> LessWithin(s, t, k)
           /\ Horner(s)[k] = Horner(t)[k] <=> SameWithin(s, t, k)
<1> DEFINE Compare(k) ==
             /\ Horner(s)[k] < Horner(t)[k] <=> LessWithin(s, t, k)
             /\ Horner(s)[k] = Horner(t)[k] <=> SameWithin(s, t, k)
           T == {k \in Nat : k <= Len(s) /\ k <= Len(t) => Compare(k)}
<1>1. 0 \in T
  <2>1. Horner(s)[0] = 0 /\ Horner(t)[0] = 0
    BY HornerDef
  <2> QED
    BY <2>1 DEF LessWithin, SameWithin
<1>2. ASSUME NEW k \in Nat, k \in T PROVE k + 1 \in T
  <2> SUFFICES ASSUME k + 1 <= Len(s), k + 1 <= Len(t) PROVE Compare(k + 1)
    OBVIOUS
  <2>1. k <= Len(s) /\ k <= Len(t) /\ k + 1 \in 1..Len(s) /\ k + 1 \in 1..Len(t)
        /\ (k + 1) - 1 = k
    OBVIOUS
  <2>2. Compare(k)
    BY <1>2, <2>1
  <2>3. /\ Horner(s)[k] \in Nat /\ s[k + 1] \in Nat /\ s[k + 1] < Base
        /\ Horner(s)[k + 1] = Base * Horner(s)[k] + s[k + 1]
    BY <2>1, HornerDef, Zenon
  <2>4. /\ Horner(t)[k] \in Nat /\ t[k + 1] \in Nat /\ t[k + 1] < Base
        /\ Horner(t)[k + 1] = Base * Horner(t)[k] + t[k + 1]
    BY <2>1, HornerDef, Zenon
  <2>5. /\ Horner(s)[k + 1] < Horner(t)[k + 1] <=>
             Horner(s)[k] < Horner(t)[k]
             \/ (Horner(s)[k] = Horner(t)[k] /\ s[k + 1] < t[k + 1])
        /\ Horner(s)[k + 1] = Horner(t)[k + 1] <=>
             Horner(s)[k] = Horner(t)[k] /\ s[k + 1] = t[k + 1]
    <3>1. PICK a \in Nat, b \in Nat, d \in Nat, e \in Nat :
            /\ a = Horner(s)[k] /\ b = Horner(t)[k]
            /\ d = s[k + 1] /\ e = t[k + 1]
      BY <2>3, <2>4
    <3>2. d < Base /\ e < Base
      BY <2>3, <2>4, <3>1
    <3>3. /\ Base * a + d < Base * b + e <=> a < b \/ (a = b /\ d < e)
          /\ Base * a + d = Base * b + e <=> a = b /\ d = e
      BY <3>2, DigitStep
    <3>4. Horner(s)[k + 1] = Base * a + d /\ Horner(t)[k + 1] = Base * b + e
      BY <2>3, <2>4, <3>1
    <3> QED
      BY <3>1, <3>3, <3>4, Zenon
  <2>6. /\ LessWithin(s, t, k + 1) <=>
             LessWithin(s, t, k) \/ (SameWithin(s, t, k) /\ s[k + 1] < t[k + 1])
        /\ SameWithin(s, t, k + 1) <=> SameWithin(s, t, k) /\ s[k + 1] = t[k + 1]
    BY WithinStep
  <2> QED
    BY <2>2, <2>5, <2>6
<1>3. Nat \subseteq T
  <2> HIDE DEF T
  <2> QED
    BY <1>1, <1>2, SetInduction
<1> QED
  BY <1>3

LEMMA PowerStep ==
  /\ Power[0] = 1
  /\ \A k \in Nat : k + 1 <= Width => Power[k + 1] = Base * Power[k]
  /\ \A k \in 0..Width : Power[k] \in Nat
<1>1. Base \in Nat /\ Width \in Nat
  BY CodeAssumption
<1>2. \A k \in 0..Width : Power[k] = IF k = 0 THEN 1 ELSE Base * Power[k - 1]
  BY PowerDef
<1>3. Power[0] = 1 /\ \A k \in Nat : k + 1 <= Width => Power[k + 1] = Base * Power[k]
  BY <1>1, <1>2
<1> DEFINE T == {k \in Nat : k <= Width => Power[k] \in Nat}
<1>4. 0 \in T
  BY <1>3
<1>5. ASSUME NEW k \in Nat, k \in T PROVE k + 1 \in T
  <2> SUFFICES ASSUME k + 1 <= Width PROVE Power[k + 1] \in Nat
    OBVIOUS
  <2>1. PICK p \in Nat : p = Power[k]
    BY <1>1, <1>5
  <2>2. Power[k + 1] = Base * p
    BY <1>3, <2>1
  <2> QED
    BY <1>1, <2>2
<1>6. Nat \subseteq T
  <2> HIDE DEF T
  <2> QED
    BY <1>4, <1>5, SetInduction
<1> QED
  BY <1>1, <1>3, <1>6

\* A part of a text is less than the least number with one digit more, and whether it
\* is less than the least with as many digits is a matter of its first one.
LEMMA PartsBounded ==
  ASSUME NEW s \in Seq(Digits)
  PROVE  \A k \in Nat :
           /\ k <= Len(s) /\ k <= Width => Horner(s)[k] < Power[k]
           /\ k + 1 <= Len(s) /\ k <= Width =>
                (Horner(s)[k + 1] < Power[k] <=> s[1] = 0)
<1> DEFINE Below(k) == k <= Len(s) /\ k <= Width => Horner(s)[k] < Power[k]
           First(k) == k + 1 <= Len(s) /\ k <= Width =>
                         (Horner(s)[k + 1] < Power[k] <=> s[1] = 0)
           T == {k \in Nat : Below(k) /\ First(k)}
<1>1. 0 \in T
  <2>1. Horner(s)[0] = 0 /\ Power[0] = 1 /\ Base \in Nat
    BY HornerDef, PowerStep, CodeAssumption
  <2>2. ASSUME 1 <= Len(s) PROVE Horner(s)[1] < 1 <=> s[1] = 0
    <3>1. 1 \in 1..Len(s)
      BY <2>2
    <3>2. s[1] \in Nat /\ Horner(s)[1] = Base * Horner(s)[1 - 1] + s[1]
      BY <3>1, HornerDef, Zenon
    <3> QED
      BY <2>1, <2>2, <3>2
  <2> QED
    BY <2>1, <2>2
<1>2. ASSUME NEW k \in Nat, k \in T PROVE k + 1 \in T
  <2>1. ASSUME NEW j \in Nat, j \in 1..Len(s), k + 1 <= Width
        PROVE  /\ Horner(s)[j] < Power[k + 1] <=> Horner(s)[j - 1] < Power[k]
               /\ Horner(s)[j] \in Nat /\ Power[k + 1] \in Nat
               /\ Horner(s)[j - 1] \in Nat /\ Power[k] \in Nat
    <3>1. /\ Horner(s)[j - 1] \in Nat /\ Horner(s)[j] \in Nat
          /\ s[j] \in Nat /\ s[j] < Base
          /\ Horner(s)[j] = Base * Horner(s)[j - 1] + s[j]
      BY <2>1, HornerDef
    <3>2. /\ Power[k + 1] = Base * Power[k]
          /\ Power[k] \in Nat /\ Power[k + 1] \in Nat
      <4>1. k \in 0..Width /\ k + 1 \in 0..Width
        BY <2>1, CodeAssumption
      <4> QED
        BY <2>1, <4>1, PowerStep
    <3>3. PICK a \in Nat, b \in Nat, d \in Nat :
            a = Horner(s)[j - 1] /\ b = Power[k] /\ d = s[j]
      BY <3>1, <3>2
    <3>4. 0 \in Nat /\ d < Base /\ 0 < Base
      BY <3>1, <3>3, CodeAssumption
    <3>5. Base * a + d < Base * b + 0 <=> a < b \/ (a = b /\ d < 0)
      BY <3>4, DigitStep
    <3>6. Base * a + d < Base * b <=> a < b
      <4>1. Base * b \in Nat
        BY CodeAssumption
      <4> QED
        BY <3>5, <4>1
    <3>7. Horner(s)[j] = Base * a + d /\ Power[k + 1] = Base * b
      BY <3>1, <3>2, <3>3
    <3>8. Horner(s)[j] < Power[k + 1] <=> Horner(s)[j - 1] < Power[k]
      BY <3>3, <3>6, <3>7, Zenon
    <3> QED
      BY <3>1, <3>2, <3>8
  <2>2. Below(k) /\ First(k)
    BY <1>2
  <2>3. ASSUME k + 1 <= Len(s), k + 1 <= Width PROVE Horner(s)[k + 1] < Power[k + 1]
    <3>1. k + 1 \in 1..Len(s) /\ k <= Len(s) /\ k <= Width /\ (k + 1) - 1 = k
      BY <2>3, CodeAssumption
    <3> QED
      BY <2>1, <2>2, <2>3, <3>1
  <2>4. ASSUME (k + 1) + 1 <= Len(s), k + 1 <= Width
        PROVE  Horner(s)[(k + 1) + 1] < Power[k + 1] <=> s[1] = 0
    <3>1. /\ (k + 1) + 1 \in 1..Len(s) /\ k + 1 <= Len(s) /\ k <= Width
          /\ ((k + 1) + 1) - 1 = k + 1
      BY <2>4, CodeAssumption
    <3>2. Horner(s)[k + 1] < Power[k] <=> s[1] = 0
      BY <2>2, <2>4, <3>1
    <3> PICK j \in Nat : j = (k + 1) + 1
      OBVIOUS
    <3>3. /\ Horner(s)[j] < Power[k + 1] <=> Horner(s)[k + 1] < Power[k]
          /\ Horner(s)[j] \in Nat /\ Power[k + 1] \in Nat
          /\ Horner(s)[k + 1] \in Nat /\ Power[k] \in Nat
      BY <2>1, <2>4, <3>1
    <3> QED
      BY <3>2, <3>3
  <2> QED
    BY <2>3, <2>4
<1>3. Nat \subseteq T
  <2> HIDE DEF T
  <2> QED
    BY <1>1, <1>2, SetInduction
<1> QED
  BY <1>3

\* The texts of codes: short ones are those of the numbers below Full.
LEMMA TextFacts ==
  ASSUME NEW s \in CodeTexts
  PROVE  /\ s \in Seq(Digits)
         /\ Number(s) \in Nat
         /\ \/ Len(s) = Width /\ Number(s) < Full
            \/ Len(s) = Width + 1 /\ Number(s) >= Full
<1>1. Width \in Nat /\ Width >= 1
  BY CodeAssumption
<1>2. CASE s \in [1..Width -> Digits]
  <2>1. s \in Seq(Digits) /\ Len(s) = Width
    BY <1>1, <1>2
  <2>2. Horner(s)[Width] < Power[Width] /\ Horner(s)[Width] \in Nat
    BY <1>1, <2>1, PartsBounded, HornerDef
  <2> QED
    BY <2>1, <2>2 DEF Number, Full
<1>3. CASE s \in [1..(Width + 1) -> Digits] /\ s[1] # 0
  <2>1. s \in Seq(Digits) /\ Len(s) = Width + 1
    BY <1>1, <1>3
  <2>2. /\ Horner(s)[Width + 1] >= Power[Width]
        /\ Horner(s)[Width + 1] \in Nat
    <3>1. Width + 1 \in 1..Len(s) /\ Width + 1 <= Len(s) /\ Width <= Width
      BY <1>1, <2>1
    <3>2. Horner(s)[Width + 1] < Power[Width] <=> s[1] = 0
      BY <1>1, <2>1, <3>1, PartsBounded
    <3>3. Power[Width] \in Nat /\ Horner(s)[Width + 1] \in Nat
      BY <1>1, <2>1, <3>1, HornerDef, PowerStep
    <3> QED
      BY <1>3, <3>2, <3>3
  <2> QED
    BY <2>1, <2>2 DEF Number, Full
<1> QED
  BY <1>2, <1>3 DEF CodeTexts

\* A text comes before one that is not longer, if it is less within their digits.
LEMMA TextBeforeWithin ==
  ASSUME NEW s \in Seq(Digits), NEW t \in Seq(Digits), Len(t) <= Len(s)
  PROVE  TextBefore(s, t) <=> LessWithin(s, t, Len(t))
<1>1. Len(s) \in Nat /\ Len(t) \in Nat
  OBVIOUS
<1>2. ASSUME NEW i \in 1..Len(t)
      PROVE  /\ i <= Len(s) /\ i # Len(s) + 1
             /\ \A j \in 1..(i - 1) : j <= Len(s)
  BY <1>1, <1>2
<1> QED
  BY <1>2, Zenon DEF TextBefore, LessWithin

\* A text comes before one with a digit more, if it is not greater within its own.
LEMMA TextBeforeLonger ==
  ASSUME NEW s \in Seq(Digits), NEW t \in Seq(Digits), NEW k \in Nat,
         Len(s) = k, Len(t) = k + 1
  PROVE  TextBefore(s, t) <=> LessWithin(s, t, k) \/ SameWithin(s, t, k)
<1>1. ASSUME TextBefore(s, t) PROVE LessWithin(s, t, k) \/ SameWithin(s, t, k)
  <2>1. PICK i \in 1..(k + 1) :
          /\ \A j \in 1..(i - 1) : j <= k /\ s[j] = t[j]
          /\ i = k + 1 \/ (i <= k /\ s[i] < t[i])
    BY <1>1 DEF TextBefore
  <2>2. CASE i = k + 1
    <3>1. i - 1 = k
      BY <2>2
    <3> QED
      BY <2>1, <3>1 DEF SameWithin
  <2>3. CASE i # k + 1
    <3>1. i \in 1..k /\ s[i] < t[i]
      BY <2>1, <2>3
    <3> QED
      BY <2>1, <3>1, Zenon DEF LessWithin
  <2> QED
    BY <2>2, <2>3
<1>2. ASSUME LessWithin(s, t, k) PROVE TextBefore(s, t)
  <2>1. PICK i \in 1..k : s[i] < t[i] /\ \A j \in 1..(i - 1) : s[j] = t[j]
    BY <1>2 DEF LessWithin
  <2>2. /\ i \in 1..Len(t) /\ i <= Len(s)
        /\ \A j \in 1..(i - 1) : j <= Len(s)
    OBVIOUS
  <2> QED
    BY <2>1, <2>2, Zenon DEF TextBefore
<1>3. ASSUME SameWithin(s, t, k) PROVE TextBefore(s, t)
  <2>1. PICK i \in 1..Len(t) : i = Len(s) + 1 /\ i - 1 = k
    OBVIOUS
  <2>2. \A j \in 1..(i - 1) : j <= Len(s) /\ s[j] = t[j]
    BY <1>3, <2>1 DEF SameWithin
  <2> QED
    BY <2>1, <2>2 DEF TextBefore
<1> QED
  BY <1>1, <1>2, <1>3

\* Texts of one length compare as their numbers, and only one text has a number.
LEMMA EqualLengths ==
  ASSUME NEW s \in CodeTexts, NEW t \in CodeTexts, Len(s) = Len(t)
  PROVE  /\ TextBefore(s, t) <=> Before(Number(s), Number(t))
         /\ Number(s) = Number(t) => s = t
<1>1. /\ s \in Seq(Digits) /\ t \in Seq(Digits) /\ Len(s) \in Nat
      /\ Number(s) \in Nat /\ Number(t) \in Nat
      /\ Number(s) < Full <=> Number(t) < Full
  BY TextFacts, FullFacts, CodeAssumption
<1>2. /\ Number(s) < Number(t) <=> LessWithin(s, t, Len(s))
      /\ Number(s) = Number(t) <=> SameWithin(s, t, Len(s))
  BY <1>1, PartsCompare DEF Number
<1>3. TextBefore(s, t) <=> Number(s) < Number(t)
  BY <1>1, <1>2, TextBeforeWithin
<1>4. Before(Number(s), Number(t)) <=> Number(s) < Number(t)
  <2> PICK m \in Nat, n \in Nat : m = Number(s) /\ n = Number(t)
    BY <1>1
  <2>1. Base * m + 0 < Base * n + 0 <=> m < n \/ (m = n /\ 0 < 0)
    BY DigitStep, FullFacts
  <2>2. Base * m = m * Base /\ Base * n = n * Base /\ m * Base \in Nat /\ n * Base \in Nat
    BY FullFacts
  <2>3. Base * m + 0 = Base * n + 0 <=> m = n /\ 0 = 0
    BY DigitStep, FullFacts
  <2>4. /\ m * Base < n * Base <=> m < n
        /\ m * Base = n * Base <=> m = n
    BY <2>1, <2>2, <2>3
  <2>5. m < Full <=> n < Full
    BY <1>1
  <2> QED
    BY <2>4, <2>5, FullFacts DEF Before, Aligned
<1>5. ASSUME SameWithin(s, t, Len(s)) PROVE s = t
  BY <1>1, <1>5 DEF SameWithin
<1> QED
  BY <1>2, <1>3, <1>4, <1>5

\* A text with all its padding against one with a digit more, either way round.
LEMMA DifferentLengths ==
  ASSUME NEW s \in CodeTexts, NEW t \in CodeTexts,
         Len(s) = Width, Len(t) = Width + 1
  PROVE  /\ TextBefore(s, t) <=> Before(Number(s), Number(t))
         /\ TextBefore(t, s) <=> Before(Number(t), Number(s))
         /\ Number(s) # Number(t)
<1>1. /\ s \in Seq(Digits) /\ t \in Seq(Digits) /\ Width \in Nat
      /\ Number(s) \in Nat /\ Number(t) \in Nat
      /\ Number(s) < Full /\ Number(t) >= Full
  BY TextFacts, FullFacts, CodeAssumption
<1>2. /\ Horner(t)[Width] \in Nat /\ t[Width + 1] \in Nat /\ t[Width + 1] < Base
      /\ Number(t) = Base * Horner(t)[Width] + t[Width + 1]
  <2>1. Width + 1 \in 1..Len(t) /\ (Width + 1) - 1 = Width
    BY <1>1
  <2> QED
    BY <1>1, <2>1, HornerDef DEF Number
<1> PICK m \in Nat, h \in Nat, d \in Nat, n \in Nat :
      /\ m = Number(s) /\ h = Horner(t)[Width] /\ d = t[Width + 1]
      /\ n = Number(t)
  BY <1>1, <1>2
<1>3. n = Base * h + d /\ d < Base /\ m < Full /\ n >= Full
  BY <1>1, <1>2
<1>4. /\ m < h <=> LessWithin(s, t, Width)
      /\ m = h <=> SameWithin(s, t, Width)
      /\ h < m <=> LessWithin(t, s, Width)
  <2>1. Width <= Len(s) /\ Width <= Len(t)
    BY <1>1
  <2> QED
    BY <1>1, <2>1, PartsCompare DEF Number
<1>5. /\ Aligned(m) = m * Base /\ Aligned(n) = n
      /\ m * Base \in Nat /\ m * Base = Base * m
  BY <1>3, FullFacts DEF Aligned
<1>6. /\ Base * h + d < Base * m + 0 <=> h < m \/ (h = m /\ d < 0)
      /\ Base * m + 0 < Base * h + d <=> m < h \/ (m = h /\ 0 < d)
      /\ Base * m + 0 = Base * h + d <=> m = h /\ 0 = d
  <2> PICK z \in Nat : z = 0 /\ z < Base
    BY FullFacts
  <2>1. Base * h + d < Base * m + z <=> h < m \/ (h = m /\ d < z)
    BY <1>3, DigitStep
  <2>2. /\ Base * m + z < Base * h + d <=> m < h \/ (m = h /\ z < d)
        /\ Base * m + z = Base * h + d <=> m = h /\ z = d
    BY <1>3, DigitStep
  <2> QED
    BY <2>1, <2>2, Zenon
<1>7. n < m * Base <=> h < m
  BY <1>3, <1>5, <1>6
<1>8. (m * Base < n \/ m * Base = n) <=> (m < h \/ m = h)
  BY <1>3, <1>5, <1>6
<1>9. m < n /\ ~(n < m)
  BY <1>3, FullFacts
<1>10. Before(m, n) <=> m < h \/ m = h
  BY <1>5, <1>8, <1>9, Zenon DEF Before
<1>11. Before(n, m) <=> h < m
  BY <1>5, <1>7, <1>9, Zenon DEF Before
<1>12. TextBefore(s, t) <=> LessWithin(s, t, Width) \/ SameWithin(s, t, Width)
  BY <1>1, TextBeforeLonger
<1>13. TextBefore(t, s) <=> LessWithin(t, s, Width)
  BY <1>1, TextBeforeWithin
<1> QED
  BY <1>4, <1>9, <1>10, <1>11, <1>12, <1>13

\* A text and one more digit.
LEMMA OneMoreDigit ==
  ASSUME NEW k \in Nat, NEW s \in [1..k -> Digits], NEW d \in Digits
  PROVE  \E t \in [1..(k + 1) -> Digits] :
           Horner(t)[k + 1] = Base * Horner(s)[k] + d
<1> DEFINE t == [j \in 1..(k + 1) |-> IF j = k + 1 THEN d ELSE s[j]]
<1>1. /\ s \in Seq(Digits) /\ Len(s) = k
      /\ t \in [1..(k + 1) -> Digits] /\ t[k + 1] = d
      /\ \A j \in 1..k : s[j] = t[j]
  OBVIOUS
<1> HIDE DEF t
<1>2. t \in Seq(Digits) /\ Len(t) = k + 1
  BY <1>1
<1>3. Horner(s)[k] = Horner(t)[k]
  BY <1>1, <1>2, PartsCompare DEF SameWithin
<1>4. k + 1 \in 1..Len(t) /\ (k + 1) - 1 = k
  BY <1>2
<1>5. Horner(t)[k + 1] = Base * Horner(t)[k] + t[k + 1]
  BY <1>2, <1>4, HornerDef
<1> QED
  BY <1>1, <1>3, <1>5

\* A number is its last digit and the number before that digit.
LEMMA LastDigit ==
  ASSUME NEW n \in Nat, NEW p \in Nat, n < Base * p
  PROVE  \E q \in Nat, d \in Digits : n = Base * q + d /\ q < p
<1>1. Base \in Nat /\ Base > 0
  BY FullFacts
<1>2. PICK q \in Nat, d \in Nat : n = Base * q + d /\ d < Base
  <2>1. n \div Base \in Nat /\ n % Base \in 0..(Base - 1)
    BY <1>1
  <2>2. n = Base * (n \div Base) + (n % Base)
    BY <1>1
  <2> QED
    BY <1>1, <2>1, <2>2
<1>3. d \in Digits
  BY <1>1, <1>2 DEF Digits
<1>4. q < p
  <2> PICK z \in Nat : z = 0 /\ z < Base
    BY <1>1
  <2>1. Base * q + d < Base * p + z <=> q < p \/ (q = p /\ d < z)
    BY <1>2, DigitStep
  <2>2. Base * p \in Nat
    BY <1>1
  <2> QED
    BY <1>2, <2>1, <2>2
<1> QED
  BY <1>2, <1>3, <1>4

\* Numbers below a power have texts of as many digits.
LEMMA ShortTexts ==
  \A k \in Nat : k <= Width =>
    \A n \in Nat : n < Power[k] =>
      \E s \in [1..k -> Digits] : Horner(s)[k] = n
<1> DEFINE Has(k) == \A n \in Nat : n < Power[k] =>
                       \E s \in [1..k -> Digits] : Horner(s)[k] = n
           T == {k \in Nat : k <= Width => Has(k)}
<1>1. 0 \in T
  <2> DEFINE s == [j \in 1..0 |-> 0]
  <2>1. s \in [1..0 -> Digits] /\ s \in Seq(Digits)
    OBVIOUS
  <2> HIDE DEF s
  <2>2. Horner(s)[0] = 0 /\ Power[0] = 1
    BY <2>1, HornerDef, PowerStep
  <2>3. \A n \in Nat : n < Power[0] => n = Horner(s)[0]
    BY <2>2
  <2>4. Has(0)
    BY <2>1, <2>3, Zenon
  <2> QED
    BY <2>4
<1>2. ASSUME NEW k \in Nat, k \in T PROVE k + 1 \in T
  <2> SUFFICES ASSUME k + 1 <= Width,
                      NEW n \in Nat, n < Power[k + 1]
               PROVE  \E s \in [1..(k + 1) -> Digits] : Horner(s)[k + 1] = n
    OBVIOUS
  <2>1. Has(k) /\ k \in 0..Width
    BY <1>2, CodeAssumption
  <2>2. Power[k + 1] = Base * Power[k] /\ Power[k] \in Nat
    BY <2>1, PowerStep
  <2>3. PICK q \in Nat, d \in Digits : n = Base * q + d /\ q < Power[k]
    BY <2>2, LastDigit
  <2>4. PICK s \in [1..k -> Digits] : Horner(s)[k] = q
    BY <2>1, <2>3
  <2>5. PICK t \in [1..(k + 1) -> Digits] :
          Horner(t)[k + 1] = Base * Horner(s)[k] + d
    BY OneMoreDigit
  <2> QED
    BY <2>3, <2>4, <2>5
<1>3. Nat \subseteq T
  <2> HIDE DEF T
  <2> QED
    BY <1>1, <1>2, SetInduction
<1> QED
  BY <1>3

\* Every number that an order can have is the number of a text.
LEMMA TextsExist ==
  ASSUME NEW n \in Nat, n < Base * Full
  PROVE  \E s \in CodeTexts : Number(s) = n
<1>1. Width \in Nat /\ Full \in Nat
  BY FullFacts, CodeAssumption
<1>2. CASE n < Full
  <2>1. PICK s \in [1..Width -> Digits] : Horner(s)[Width] = n
    BY <1>1, <1>2, ShortTexts DEF Full
  <2>2. Len(s) = Width
    BY <1>1, <2>1
  <2> QED
    BY <2>1, <2>2 DEF CodeTexts, Number
<1>3. CASE n >= Full
  <2>1. PICK q \in Nat, d \in Digits : n = Base * q + d /\ q < Full
    BY <1>1, LastDigit
  <2>2. PICK s \in [1..Width -> Digits] : Horner(s)[Width] = q
    BY <1>1, <2>1, ShortTexts DEF Full
  <2>3. PICK t \in [1..(Width + 1) -> Digits] :
          Horner(t)[Width + 1] = Base * Horner(s)[Width] + d
    BY <1>1, OneMoreDigit
  <2>4. t \in Seq(Digits) /\ Len(t) = Width + 1
    BY <1>1
  <2>5. Horner(t)[Width + 1] < Power[Width] <=> t[1] = 0
    BY <1>1, <2>4, PartsBounded
  <2>6. Horner(t)[Width + 1] = n
    BY <2>1, <2>2, <2>3
  <2>7. t[1] # 0
    BY <1>1, <1>3, <2>5, <2>6 DEF Full
  <2> QED
    BY <2>4, <2>6, <2>7 DEF CodeTexts, Number
<1> QED
  BY <1>1, <1>2, <1>3

\* `orderBy: { code: 'desc' }' sorts by Before: every number has one text, padded as
\* generateCode pads it, and of two texts the one that comes first has the number
\* that is Before the other, for any base and width.
THEOREM TextOrderIsBefore == ComparesAsText
<1>1. ASSUME NEW n \in Codes PROVE \E s \in CodeTexts : Number(s) = n
  <2>1. n \in Nat /\ n < Base * Full
    <3>1. Base * Full \in Nat
      BY FullFacts
    <3> QED
      BY <3>1, CodeAssumption, BoundAssumption DEF Codes
  <2> QED
    BY <2>1, TextsExist
<1>2. ASSUME NEW s \in CodeTexts, NEW t \in CodeTexts
      PROVE  /\ TextBefore(s, t) <=> Before(Number(s), Number(t))
             /\ Number(s) = Number(t) => s = t
  <2>1. Len(s) \in {Width, Width + 1} /\ Len(t) \in {Width, Width + 1}
    BY TextFacts
  <2>2. CASE Len(s) = Len(t)
    BY <2>2, EqualLengths
  <2>3. CASE Len(s) = Width /\ Len(t) = Width + 1
    BY <2>3, DifferentLengths
  <2>4. CASE Len(s) = Width + 1 /\ Len(t) = Width
    BY <2>4, DifferentLengths
  <2> QED
    BY <2>1, <2>2, <2>3, <2>4
<1> QED
  BY <1>1, <1>2 DEF ComparesAsText

-----------------------------------------------------------------------------
(* The inductive invariant.                                                *)

\* The numbers that are taken have no gap, and do not go past the padding.
FiledInv == \A n \in Filed : n <= Full /\ \A m \in Codes : m < n => m \in Filed

\* A request knows what it has read: the order before the number it generated is
\* there, so is the order it found; and what it could not see is in missed.
Knows(t) ==
  /\ t.pc = "numbered" =>
       t.code \in 1..Full /\ (t.code = 1 \/ t.code - 1 \in Filed)
  /\ t.op \in {"update", "assign"} =>
       t.code \in Filed /\ (t.staff /\ t.code \in Delivered => t.code \in t.missed)
  /\ t.technician \in eligible \cup {None} \cup t.missed

KnowInv == \A r \in Requests : Knows(txn[r])

IInv == TypeOK /\ FiledInv /\ KnowInv

LEMMA IdleFacts ==
  /\ Idle \in Txn /\ Idle.op = "none" /\ Idle.pc = "idle"
  /\ Idle.code = 0 /\ Idle.technician = None
BY DEF Idle, Txn, Ops

LEMMA CodesFacts ==
  MaxCode \in Nat /\ Codes = 1..MaxCode /\ 0 \in 0..(MaxCode + 1)
BY CodeAssumption DEF Codes

LEMMA InitInv == Init => IInv
<1> SUFFICES ASSUME Init PROVE IInv
  OBVIOUS
<1>1. \A n \in Codes : order[n].status = "NONE" /\ order[n].details = None
  BY DEF Init
<1>2. \A r \in Requests : txn[r] = Idle
  BY DEF Init
<1>3. order \in [Codes -> Order] /\ txn \in [Requests -> Txn]
  BY IdleFacts DEF Init, Order
<1>4. eligible \subseteq Technicians
  BY DEF Init
<1>5. TypeOK
  BY <1>1, <1>2, <1>3, <1>4, IdleFacts, CodesFacts DEF TypeOK
<1>6. FiledInv
  BY <1>1 DEF FiledInv, Filed
<1>7. KnowInv
  BY <1>2, IdleFacts DEF KnowInv, Knows
<1> QED
  BY <1>5, <1>6, <1>7 DEF IInv

-----------------------------------------------------------------------------
(* A step keeps the invariant.                                             *)

\* The greatest code as text is never the one that is longer than its padding: the
\* number before that one is greater.
LEMMA LastIsShort ==
  ASSUME IInv, NEW n \in Codes, IsLast(n)
  PROVE  n < Full
<1>1. n <= Full /\ n \in Filed /\ n \in Nat
  BY CodesFacts DEF IInv, FiledInv, IsLast
<1>2. SUFFICES ASSUME n = Full PROVE FALSE
  BY <1>1, FullFacts
<1>3. Full - 1 \in Filed /\ Full - 1 # n
  <2>1. Full - 1 \in Codes
    BY <1>1, <1>2, FullFacts, CodesFacts
  <2> QED
    BY <1>1, <1>2, <2>1, FullFacts DEF IInv, FiledInv
<1>4. Before(Full - 1, n)
  BY <1>3 DEF IsLast
<1>5. Aligned(Full - 1) = (Full - 1) * Base /\ Aligned(n) = Full
  BY <1>2, FullFacts DEF Aligned
<1>6. (Full - 1) * Base > Full
  <2>1. ASSUME NEW f \in Nat, NEW b \in Nat, f >= b, b >= 3
        PROVE  (f - 1) * b > f
    <3>1. (f - 1) * b >= (f - 1) * 3
      BY <2>1
    <3> QED
      BY <2>1, <3>1
  <2> QED
    BY <2>1, FullFacts
<1> QED
  BY <1>4, <1>5, <1>6, FullFacts DEF Before

\* A step of one request that writes no row, or none that the others know of.
LEMMA OneRequest ==
  ASSUME IInv, NEW r \in Requests, NEW t \in Txn,
         t.code \in 0..(MaxCode + 1), Knows(t),
         txn' = [txn EXCEPT ![r] = t], UNCHANGED rows
  PROVE  IInv'
<1>1. /\ txn' \in [Requests -> Txn]
      /\ \A q \in Requests : txn'[q] = IF q = r THEN t ELSE txn[q]
  BY DEF IInv, TypeOK
<1>2. TypeOK'
  BY <1>1 DEF IInv, TypeOK, rows
<1>3. Filed' = Filed /\ Delivered' = Delivered
  BY DEF Filed, Delivered, rows
<1>4. FiledInv'
  BY <1>3 DEF IInv, FiledInv
<1>5. KnowInv'
  BY <1>1, <1>3 DEF IInv, KnowInv, Knows, rows
<1> QED
  BY <1>2, <1>4, <1>5 DEF IInv

LEMMA BeginKeepsInv ==
  ASSUME IInv, NEW r \in Requests,
         ArriveCreate(r) \/ ArriveUpdate(r) \/ ArriveAssign(r)
  PROVE  IInv'
<1>1. CASE ArriveCreate(r)
  <2>1. PICK x \in Technicians \cup {None} :
          /\ IsEligible(x)
          /\ Begin(r, [Idle EXCEPT !.pc = "resolved", !.op = "create",
                                   !.technician = x])
    BY <1>1 DEF ArriveCreate
  <2> DEFINE t == [Idle EXCEPT !.pc = "resolved", !.op = "create",
                               !.technician = x]
  <2>2. /\ t \in Txn /\ t.pc = "resolved" /\ t.op = "create"
        /\ t.technician = x /\ t.code = 0
    BY IdleFacts DEF Txn, Ops
  <2>3. txn' = [txn EXCEPT ![r] = t] /\ UNCHANGED rows
    BY <2>1 DEF Begin
  <2> HIDE DEF t
  <2>4. Knows(t)
    BY <2>1, <2>2 DEF Knows, IsEligible
  <2>5. t.code \in 0..(MaxCode + 1)
    BY <2>2, CodesFacts
  <2> QED
    BY <2>2, <2>3, <2>4, <2>5, OneRequest
<1>2. CASE ArriveUpdate(r) \/ ArriveAssign(r)
  <2>1. PICK n \in Filed, staff \in BOOLEAN, pc \in {"found", "resolved"},
             op \in {"update", "assign"} :
          /\ CanModify(n, staff)
          /\ Begin(r, [Idle EXCEPT !.pc = pc, !.op = op, !.staff = staff,
                                   !.code = n])
    BY <1>2 DEF ArriveUpdate, ArriveAssign
  <2> DEFINE t == [Idle EXCEPT !.pc = pc, !.op = op, !.staff = staff, !.code = n]
  <2>2. n \in Codes /\ n \in Nat /\ n \in 0..(MaxCode + 1)
    BY CodesFacts DEF Filed
  <2>3. /\ t \in Txn /\ t.pc = pc /\ t.op = op /\ t.staff = staff
        /\ t.technician = None /\ t.code = n
    BY <2>2, IdleFacts DEF Txn, Ops
  <2>4. txn' = [txn EXCEPT ![r] = t] /\ UNCHANGED rows
    BY <2>1 DEF Begin
  <2> HIDE DEF t
  <2>5. Knows(t)
    BY <2>1, <2>3 DEF Knows, CanModify
  <2> QED
    BY <2>2, <2>3, <2>4, <2>5, OneRequest
<1> QED
  BY <1>1, <1>2

LEMMA EndKeepsInv ==
  ASSUME IInv, NEW r \in Requests, End(r), UNCHANGED rows
  PROVE  IInv'
<1>1. Knows(Idle) /\ Idle.code \in 0..(MaxCode + 1)
  BY IdleFacts, CodesFacts DEF Knows
<1> QED
  BY <1>1, IdleFacts, OneRequest DEF End

LEMMA GenerateCodeKeepsInv ==
  ASSUME IInv, NEW r \in Requests, GenerateCode(r)
  PROVE  IInv'
<1>1. PICK c \in 1..(MaxCode + 1) :
        /\ IsNextCode(c)
        /\ txn' = [txn EXCEPT ![r] = [txn[r] EXCEPT !.pc = "numbered", !.code = c]]
  BY DEF GenerateCode
<1> DEFINE u == [txn[r] EXCEPT !.pc = "numbered", !.code = c]
<1>2. txn[r] \in Txn /\ Knows(txn[r]) /\ txn[r].op = "create"
  BY DEF GenerateCode, IInv, TypeOK, KnowInv
<1>3. c \in Nat
  BY CodesFacts
<1>4. /\ u \in Txn /\ u.pc = "numbered" /\ u.op = "create" /\ u.code = c
      /\ u.technician = txn[r].technician /\ u.missed = txn[r].missed
  BY <1>2, <1>3 DEF Txn
<1>5. c \in 1..Full /\ (c = 1 \/ c - 1 \in Filed)
  <2>1. CASE Filed = {}
    BY <1>1, <2>1, FullFacts DEF IsNextCode
  <2>2. CASE Filed # {}
    <3>1. PICK n \in Filed : IsLast(n) /\ c = n + 1
      BY <1>1, <2>2 DEF IsNextCode
    <3>2. n \in Codes /\ n < Full
      BY <3>1, LastIsShort DEF Filed
    <3> QED
      BY <3>1, <3>2, FullFacts, CodesFacts
  <2> QED
    BY <2>1, <2>2
<1>6. txn' = [txn EXCEPT ![r] = u] /\ UNCHANGED rows
  BY <1>1 DEF GenerateCode
<1> HIDE DEF u
<1>7. Knows(u)
  BY <1>2, <1>4, <1>5 DEF Knows
<1>8. u.code \in 0..(MaxCode + 1)
  BY <1>4, CodesFacts
<1> QED
  BY <1>4, <1>6, <1>7, <1>8, OneRequest

LEMMA ResolveTechnicianKeepsInv ==
  ASSUME IInv, NEW r \in Requests, ResolveTechnician(r)
  PROVE  IInv'
<1>1. PICK x \in Technicians \cup {None} :
        /\ IsEligible(x)
        /\ txn' = [txn EXCEPT ![r] =
                     [txn[r] EXCEPT !.pc = "resolved", !.technician = x]]
  BY DEF ResolveTechnician
<1> DEFINE u == [txn[r] EXCEPT !.pc = "resolved", !.technician = x]
<1>2. txn[r] \in Txn /\ Knows(txn[r]) /\ txn[r].code \in 0..(MaxCode + 1)
  BY DEF IInv, TypeOK, KnowInv
<1>3. /\ u \in Txn /\ u.pc = "resolved" /\ u.technician = x
      /\ u.op = txn[r].op /\ u.code = txn[r].code /\ u.staff = txn[r].staff
      /\ u.missed = txn[r].missed
  BY <1>2 DEF Txn
<1>4. txn' = [txn EXCEPT ![r] = u] /\ UNCHANGED rows
  BY <1>1 DEF ResolveTechnician
<1> HIDE DEF u
<1>5. Knows(u)
  BY <1>1, <1>2, <1>3 DEF Knows, IsEligible
<1> QED
  BY <1>2, <1>3, <1>4, <1>5, OneRequest

\* A step that ends a request with a write of its order; no order leaves, is
\* delivered or brought back.
LEMMA WriteKeepsInv ==
  ASSUME IInv, NEW r \in Requests, txn' = [txn EXCEPT ![r] = Idle],
         eligible' = eligible,
         order' \in [Codes -> Order],
         \A n \in Codes : order'[n].status = "NONE" <=> order'[n].details = None,
         Filed \subseteq Filed', Delivered' = Delivered, FiledInv'
  PROVE  IInv'
<1>1. /\ txn' \in [Requests -> Txn]
      /\ \A q \in Requests : txn'[q] = IF q = r THEN Idle ELSE txn[q]
  BY IdleFacts DEF IInv, TypeOK
<1>2. TypeOK'
  BY <1>1, IdleFacts, CodesFacts DEF IInv, TypeOK
<1>3. KnowInv'
  BY <1>1, IdleFacts DEF IInv, KnowInv, Knows
<1> QED
  BY <1>2, <1>3 DEF IInv

\* An order is filed with the number after the last one, or not at all.
LEMMA NewOrderIsNext ==
  ASSUME IInv, NEW r \in Requests, txn[r].pc = "numbered",
         txn[r].code \in Codes \ Filed
  PROVE  \A m \in Codes : m \in Filed <=> m < txn[r].code
<1>1. PICK c \in Codes : c = txn[r].code
  OBVIOUS
<1>2. c \notin Filed /\ (c = 1 \/ c - 1 \in Filed)
  BY <1>1 DEF IInv, KnowInv, Knows
<1>3. SUFFICES ASSUME NEW m \in Codes PROVE m \in Filed <=> m < c
  BY <1>1
<1>4. ASSUME m \in Filed PROVE m < c
  BY <1>2, <1>4, CodesFacts DEF IInv, FiledInv
<1>5. ASSUME m < c PROVE m \in Filed
  <2>1. c - 1 \in Filed /\ (m = c - 1 \/ m < c - 1)
    BY <1>2, <1>5, CodesFacts
  <2> QED
    BY <2>1 DEF IInv, FiledInv
<1> QED
  BY <1>4, <1>5

LEMMA InsertOrderKeepsInv ==
  ASSUME IInv, NEW r \in Requests, InsertOrder(r)
  PROVE  IInv'
<1>1. CASE txn[r].code \in Filed
  BY <1>1, EndKeepsInv DEF InsertOrder, rows
<1>2. CASE txn[r].code \notin Filed
  <2>1. PICK c \in Codes : c = txn[r].code
    BY DEF InsertOrder
  <2>2. PICK x \in Details :
          order' = [order EXCEPT ![c] =
                      [status |-> "OPEN", technician |-> txn[r].technician,
                       details |-> x]]
    BY <1>2, <2>1 DEF InsertOrder
  <2>3. txn[r].technician \in Technicians \cup {None} /\ x # None
    BY SentinelAssumption DEF IInv, TypeOK, Txn
  <2>4. [status |-> "OPEN", technician |-> txn[r].technician, details |-> x]
          \in Order
    BY <2>3 DEF Order
  <2>5. /\ order' \in [Codes -> Order]
        /\ order'[c].status = "OPEN" /\ order'[c].details = x
        /\ \A n \in Codes \ {c} : order'[n] = order[n]
    BY <2>2, <2>4 DEF IInv, TypeOK
  <2>6. \A n \in Codes : order'[n].status = "NONE" <=> order'[n].details = None
    BY <2>3, <2>5 DEF IInv, TypeOK
  <2>7. Filed' = Filed \cup {c}
    BY <2>5 DEF Filed
  <2>8. order[c].status = "NONE"
    BY <1>2, <2>1 DEF Filed
  <2>9. Delivered' = Delivered
    BY <2>5, <2>8 DEF Delivered
  <2>10. c <= Full
    BY <2>1, FullFacts DEF InsertOrder, IInv, KnowInv, Knows
  <2>11. \A m \in Codes : m \in Filed <=> m < c
    BY <1>2, <2>1, NewOrderIsNext DEF InsertOrder
  <2>12. FiledInv'
    BY <2>7, <2>10, <2>11 DEF IInv, FiledInv
  <2> QED
    BY <2>5, <2>6, <2>7, <2>9, <2>12, WriteKeepsInv DEF InsertOrder, End
<1> QED
  BY <1>1, <1>2

\* An edit names one column of an order that was found, and orders never leave.
LEMMA EditKeepsInv ==
  ASSUME IInv, NEW r \in Requests, UpdateOrder(r) \/ AssignTechnician(r)
  PROVE  IInv'
<1>1. txn[r].code \in Filed
  BY DEF UpdateOrder, AssignTechnician, IInv, KnowInv, Knows
<1>2. PICK c \in Codes : c = txn[r].code /\ order[c].status # "NONE"
  BY <1>1 DEF Filed
<1>3. order[c] \in Order /\ order[c].details # None
  BY <1>2 DEF IInv, TypeOK
<1>4. PICK row \in Order :
        /\ order' = [order EXCEPT ![c] = row]
        /\ row.status = order[c].status /\ row.details # None
  <2>1. CASE UpdateOrder(r)
    <3>1. PICK x \in Details : order' = [order EXCEPT ![c].details = x]
      BY <1>2, <2>1 DEF UpdateOrder
    <3> DEFINE w == [order[c] EXCEPT !.details = x]
    <3>2. w \in Order /\ w.status = order[c].status /\ w.details # None
      BY <1>3, SentinelAssumption DEF Order
    <3>3. order' = [order EXCEPT ![c] = w]
      BY <3>1 DEF IInv, TypeOK
    <3> QED
      BY <3>2, <3>3
  <2>2. CASE AssignTechnician(r)
    <3>1. PICK x \in Technicians \cup {None} :
            order' = [order EXCEPT ![c].technician = x]
      BY <1>2, <2>2 DEF AssignTechnician, IInv, TypeOK, Txn
    <3> DEFINE w == [order[c] EXCEPT !.technician = x]
    <3>2. w \in Order /\ w.status = order[c].status /\ w.details # None
      BY <1>3 DEF Order
    <3>3. order' = [order EXCEPT ![c] = w]
      BY <3>1 DEF IInv, TypeOK
    <3> QED
      BY <3>2, <3>3
  <2> QED
    BY <2>1, <2>2
<1>5. /\ order' \in [Codes -> Order]
      /\ \A n \in Codes : order'[n].status = order[n].status
      /\ \A n \in Codes \ {c} : order'[n] = order[n]
      /\ order'[c].details # None
  BY <1>4 DEF IInv, TypeOK
<1>6. \A n \in Codes : order'[n].status = "NONE" <=> order'[n].details = None
  BY <1>2, <1>5 DEF IInv, TypeOK
<1>7. Filed' = Filed /\ Delivered' = Delivered
  BY <1>5 DEF Filed, Delivered
<1>8. FiledInv'
  BY <1>7 DEF IInv, FiledInv
<1> QED
  BY <1>5, <1>6, <1>7, <1>8, WriteKeepsInv DEF UpdateOrder, AssignTechnician, End

\* What was looked at and changed meanwhile is remembered as missed; the rest of the
\* request stays.
LEMMA MissEffect ==
  ASSUME IInv, NEW x \in Technicians \cup Codes, Miss(x)
  PROVE  /\ txn' \in [Requests -> Txn]
         /\ \A r \in Requests :
              /\ txn'[r].pc = txn[r].pc /\ txn'[r].op = txn[r].op
              /\ txn'[r].staff = txn[r].staff /\ txn'[r].code = txn[r].code
              /\ txn'[r].technician = txn[r].technician
              /\ txn[r].missed \subseteq txn'[r].missed
              /\ x \in LookedAt(txn[r]) => x \in txn'[r].missed
<1>1. \A r \in Requests :
        LET u == [txn[r] EXCEPT !.missed = txn[r].missed \cup {x}]
        IN  /\ u \in Txn
            /\ u.pc = txn[r].pc /\ u.op = txn[r].op
            /\ u.staff = txn[r].staff /\ u.code = txn[r].code
            /\ u.technician = txn[r].technician
            /\ u.missed = txn[r].missed \cup {x}
  BY DEF IInv, TypeOK, Txn
<1> QED
  BY <1>1 DEF Miss, IInv, TypeOK

LEMMA ChangeStatusKeepsInv ==
  ASSUME IInv, ChangeStatus
  PROVE  IInv'
<1>1. PICK n \in Filed :
        /\ order' = [order EXCEPT ![n].status =
                       IF n \in Delivered THEN "OPEN" ELSE "DELIVERED"]
        /\ IF n \in Delivered THEN UNCHANGED txn ELSE Miss(n)
        /\ UNCHANGED eligible
  BY DEF ChangeStatus
<1>2. n \in Codes /\ order[n] \in Order /\ order[n].status # "NONE"
  BY DEF Filed, IInv, TypeOK
<1>3. PICK row \in Order :
        /\ order' = [order EXCEPT ![n] = row]
        /\ row.status = IF n \in Delivered THEN "OPEN" ELSE "DELIVERED"
        /\ row.details = order[n].details
  <2> DEFINE w == [order[n] EXCEPT !.status =
                     IF n \in Delivered THEN "OPEN" ELSE "DELIVERED"]
  <2>1. /\ w \in Order /\ w.details = order[n].details
        /\ w.status = IF n \in Delivered THEN "OPEN" ELSE "DELIVERED"
    BY <1>2 DEF Order
  <2>2. order' = [order EXCEPT ![n] = w]
    BY <1>1
  <2> QED
    BY <2>1, <2>2
<1>4. /\ order' \in [Codes -> Order]
      /\ \A m \in Codes \ {n} : order'[m] = order[m]
      /\ order'[n] = row
  BY <1>2, <1>3 DEF IInv, TypeOK
<1>5. \A m \in Codes : order'[m].status = "NONE" <=> order'[m].details = None
  BY <1>2, <1>3, <1>4 DEF IInv, TypeOK
<1>6. Filed' = Filed
  BY <1>2, <1>3, <1>4 DEF Filed
<1>7. Delivered' = IF n \in Delivered THEN Delivered \ {n} ELSE Delivered \cup {n}
  BY <1>2, <1>3, <1>4 DEF Delivered
<1>8. /\ txn' \in [Requests -> Txn]
      /\ \A r \in Requests :
           /\ txn'[r].pc = txn[r].pc /\ txn'[r].op = txn[r].op
           /\ txn'[r].staff = txn[r].staff /\ txn'[r].code = txn[r].code
           /\ txn'[r].technician = txn[r].technician
           /\ txn[r].missed \subseteq txn'[r].missed
           /\ n \notin Delivered /\ n \in LookedAt(txn[r]) => n \in txn'[r].missed
  BY <1>1, <1>2, MissEffect DEF IInv, TypeOK
<1>9. TypeOK'
  BY <1>1, <1>4, <1>5, <1>8 DEF IInv, TypeOK
<1>10. FiledInv'
  BY <1>6 DEF IInv, FiledInv
<1>11. ASSUME NEW r \in Requests PROVE Knows(txn[r])'
  <2>1. Knows(txn[r])
    BY DEF IInv, KnowInv
  <2>2. txn'[r].technician \in eligible' \cup {None} \cup txn'[r].missed
    BY <1>1, <1>8, <2>1 DEF Knows
  <2>3. txn[r].staff /\ txn[r].code = n /\ n \notin Delivered => n \in txn'[r].missed
    BY <1>8 DEF LookedAt
  <2> QED
    BY <1>6, <1>7, <1>8, <2>1, <2>2, <2>3 DEF Knows
<1>12. KnowInv'
  BY <1>11 DEF KnowInv
<1> QED
  BY <1>9, <1>10, <1>12 DEF IInv

LEMMA AdministerKeepsInv ==
  ASSUME IInv, Administer
  PROVE  IInv'
<1>1. PICK x \in Technicians :
        /\ IF x \in eligible
           THEN eligible' = eligible \ {x} /\ Miss(x)
           ELSE eligible' = eligible \cup {x} /\ UNCHANGED txn
        /\ UNCHANGED order
  BY DEF Administer
<1>2. /\ txn' \in [Requests -> Txn]
      /\ \A r \in Requests :
           /\ txn'[r].pc = txn[r].pc /\ txn'[r].op = txn[r].op
           /\ txn'[r].staff = txn[r].staff /\ txn'[r].code = txn[r].code
           /\ txn'[r].technician = txn[r].technician
           /\ txn[r].missed \subseteq txn'[r].missed
           /\ x \in eligible /\ x \in LookedAt(txn[r]) => x \in txn'[r].missed
  BY <1>1, MissEffect DEF IInv, TypeOK
<1>3. TypeOK'
  BY <1>1, <1>2 DEF IInv, TypeOK
<1>4. Filed' = Filed /\ Delivered' = Delivered
  BY <1>1 DEF Filed, Delivered
<1>5. FiledInv'
  BY <1>4 DEF IInv, FiledInv
<1>6. ASSUME NEW r \in Requests PROVE Knows(txn[r])'
  <2>1. Knows(txn[r])
    BY DEF IInv, KnowInv
  <2>2. txn'[r].technician \in eligible' \cup {None} \cup txn'[r].missed
    BY <1>1, <1>2, <2>1 DEF Knows, LookedAt
  <2> QED
    BY <1>2, <1>4, <2>1, <2>2 DEF Knows
<1>7. KnowInv'
  BY <1>6 DEF KnowInv
<1> QED
  BY <1>3, <1>5, <1>7 DEF IInv

LEMMA NextKeepsInv ==
  ASSUME IInv, [Next]_vars
  PROVE  IInv'
<1>1. CASE UNCHANGED vars
  BY <1>1 DEF vars, IInv, TypeOK, FiledInv, KnowInv, Knows, Filed, Delivered
<1>2. CASE ChangeStatus \/ Administer
  BY <1>2, ChangeStatusKeepsInv, AdministerKeepsInv
<1>3. ASSUME NEW r \in Requests,
             \/ Rollback(r) \/ ArriveCreate(r) \/ ArriveUpdate(r) \/ ArriveAssign(r)
             \/ GenerateCode(r) \/ InsertOrder(r) \/ UpdateOrder(r)
             \/ ResolveTechnician(r) \/ AssignTechnician(r)
      PROVE  IInv'
  BY <1>3, EndKeepsInv, BeginKeepsInv, GenerateCodeKeepsInv, InsertOrderKeepsInv,
     EditKeepsInv, ResolveTechnicianKeepsInv DEF Rollback
<1> QED
  BY <1>1, <1>2, <1>3 DEF Next

-----------------------------------------------------------------------------
(* The theorems about the invariant.                                       *)

\* IInv holds in every reachable state.
THEOREM Invariance == Spec => []IInv
BY InitInv, NextKeepsInv, PTL DEF Spec

\* Rows and requests keep their types; an order has all its columns or none.
THEOREM TypeCorrect == Spec => []TypeOK
<1>1. IInv => TypeOK
  BY DEF IInv
<1> QED
  BY <1>1, Invariance, PTL

\* For every base and padding the numbering has no gap and ends with the first code
\* that is longer than its padding.
THEOREM NumberingEnds == Spec => []CodesEndAtWidth
<1>1. IInv => CodesEndAtWidth
  <2> SUFFICES ASSUME IInv, NEW n \in Filed
               PROVE  n <= Full /\ 1..n \subseteq Filed
    BY DEF CodesEndAtWidth
  <2>1. n <= Full /\ \A m \in Codes : m < n => m \in Filed
    BY DEF IInv, FiledInv
  <2>2. n \in Codes
    BY DEF Filed
  <2>3. ASSUME NEW m \in 1..n PROVE m \in Filed
    BY <2>1, <2>2, CodesFacts
  <2> QED
    BY <2>1, <2>3
<1> QED
  BY <1>1, Invariance, PTL

-----------------------------------------------------------------------------
(* The requests implement the desk.                                        *)

LEMMA StepsImplementDesk ==
  IInv /\ [Next]_vars => [TheDesk!FileOrder \/ TheDesk!ChangeOrder]_order
<1> SUFFICES ASSUME IInv, [Next]_vars, order' # order
             PROVE  TheDesk!FileOrder \/ TheDesk!ChangeOrder
  OBVIOUS
<1>1. \A n \in Codes : TheDesk!IsFiled(n) <=> n \in Filed
  BY DEF TheDesk!IsFiled, Filed
<1>2. ASSUME NEW r \in Requests, InsertOrder(r)
      PROVE  TheDesk!FileOrder
  <2>1. PICK c \in Codes \ Filed : c = txn[r].code
    BY <1>2 DEF InsertOrder
  <2>2. PICK x \in Details, h \in Technicians \cup {None} :
          order' = [order EXCEPT ![c] =
                      [status |-> "OPEN", technician |-> h, details |-> x]]
    BY <1>2, <2>1 DEF InsertOrder, IInv, TypeOK, Txn
  <2>3. \A m \in Codes : m \in Filed <=> m < c
    BY <1>2, <2>1, NewOrderIsNext DEF InsertOrder
  <2>4. \A k \in 1..MaxCode : TheDesk!IsFiled(k) <=> k < c
    BY <1>1, <2>3, CodesFacts
  <2>5. c \in 1..MaxCode
    BY CodesFacts
  <2> QED
    BY <2>2, <2>4, <2>5 DEF TheDesk!FileOrder
<1>3. ASSUME NEW n \in Filed,
             \/ \E x \in Technicians \cup {None} :
                  order' = [order EXCEPT ![n].technician = x]
             \/ \E x \in Details : order' = [order EXCEPT ![n].details = x]
             \/ \E s \in {"OPEN", "DELIVERED"} :
                  order' = [order EXCEPT ![n].status = s]
      PROVE  TheDesk!ChangeOrder
  <2>1. n \in 1..MaxCode /\ TheDesk!IsFiled(n)
    BY <1>1, CodesFacts DEF Filed
  <2> QED
    BY <1>3, <2>1 DEF TheDesk!ChangeOrder
<1>4. ASSUME NEW r \in Requests, UpdateOrder(r)
      PROVE  TheDesk!ChangeOrder
  <2>1. PICK n \in Filed : n = txn[r].code
    BY <1>4 DEF UpdateOrder, IInv, KnowInv, Knows
  <2> QED
    BY <1>3, <1>4, <2>1 DEF UpdateOrder
<1>5. ASSUME NEW r \in Requests, AssignTechnician(r)
      PROVE  TheDesk!ChangeOrder
  <2>1. PICK n \in Filed : n = txn[r].code
    BY <1>5 DEF AssignTechnician, IInv, KnowInv, Knows
  <2>2. txn[r].technician \in Technicians \cup {None}
    BY DEF IInv, TypeOK, Txn
  <2> QED
    BY <1>3, <1>5, <2>1, <2>2 DEF AssignTechnician
<1>6. CASE ChangeStatus
  BY <1>3, <1>6 DEF ChangeStatus
<1>7. ASSUME NEW r \in Requests,
             \/ Rollback(r) \/ ArriveCreate(r) \/ ArriveUpdate(r) \/ ArriveAssign(r)
             \/ GenerateCode(r) \/ ResolveTechnician(r)
      PROVE  FALSE
  BY <1>7 DEF Rollback, ArriveCreate, ArriveUpdate, ArriveAssign, Begin,
              GenerateCode, ResolveTechnician, rows
<1>8. ~(UNCHANGED vars) /\ ~Administer
  BY DEF vars, Administer
<1> QED
  BY <1>2, <1>4, <1>5, <1>6, <1>7, <1>8 DEF Next

LEMMA DeskStarts == Init => TheDesk!DeskInit
BY CodesFacts DEF Init, TheDesk!DeskInit, TheDesk!IsFiled

\* However creations and edits overlap, codes have no gap and no duplicate, and every
\* commit changes one column of one order.
THEOREM DeskImplemented == Spec => ImplementsDesk
BY DeskStarts, StepsImplementDesk, Invariance, PTL
DEF Spec, ImplementsDesk, TheDesk!DeskSpec

-----------------------------------------------------------------------------
(* Late writes.                                                            *)

LEMMA WritesAreLate ==
  IInv /\ [Next]_vars => [\A n \in Codes : SlipsOnlyLate(n)]_vars
<1> SUFFICES ASSUME IInv, Next, NEW n \in Codes
             PROVE  SlipsOnlyLate(n)
  BY DEF SlipsOnlyLate, vars
<1>1. CASE order'[n] = order[n]
  BY <1>1 DEF SlipsOnlyLate
<1>2. CASE ChangeStatus
  <2>1. PICK m \in Filed :
          order' = [order EXCEPT ![m].status =
                      IF m \in Delivered THEN "OPEN" ELSE "DELIVERED"]
    BY <1>2 DEF ChangeStatus
  <2>2. order[n] \in Order /\ m \in Codes
    BY DEF IInv, TypeOK, Filed
  <2>3. CASE m = n
    <3>1. /\ order'[n].technician = order[n].technician
          /\ order'[n].status = IF n \in Delivered THEN "OPEN" ELSE "DELIVERED"
      BY <2>1, <2>2, <2>3 DEF IInv, TypeOK, Order
    <3> QED
      BY <3>1 DEF SlipsOnlyLate
  <2>4. CASE m # n
    BY <1>1, <2>1, <2>2, <2>4 DEF IInv, TypeOK
  <2> QED
    BY <2>3, <2>4
<1>3. ASSUME NEW r \in Requests, txn[r].code = n, txn[r].pc # "idle", End(r)
      PROVE  Wrote(r, n)
  BY <1>3, IdleFacts DEF Wrote, End, IInv, TypeOK
<1>4. ASSUME NEW r \in Requests, UpdateOrder(r) \/ AssignTechnician(r)
      PROVE  SlipsOnlyLate(n)
  <2>1. CASE txn[r].code # n
    <3>1. order'[n] = order[n]
      BY <1>4, <2>1 DEF UpdateOrder, AssignTechnician, IInv, TypeOK
    <3> QED
      BY <1>1, <3>1
  <2>2. CASE txn[r].code = n
    <3>1. Wrote(r, n) /\ Knows(txn[r]) /\ txn[r].op \in {"update", "assign"}
      BY <1>3, <1>4, <2>2 DEF UpdateOrder, AssignTechnician, IInv, KnowInv
    <3>2. n \in Delivered /\ txn[r].staff => n \in txn[r].missed
      BY <2>2, <3>1 DEF Knows
    <3>3. order'[n].technician \in {order[n].technician, txn[r].technician}
      BY <1>4, <2>2 DEF UpdateOrder, AssignTechnician, IInv, TypeOK, Order
    <3>4. txn[r].technician \in eligible \cup {None} \cup txn[r].missed
      BY <3>1 DEF Knows
    <3> QED
      BY <3>1, <3>2, <3>3, <3>4 DEF SlipsOnlyLate
  <2> QED
    BY <2>1, <2>2
<1>5. ASSUME NEW r \in Requests, InsertOrder(r)
      PROVE  SlipsOnlyLate(n)
  <2>1. CASE txn[r].code # n \/ n \in Filed
    <3>1. order'[n] = order[n]
      BY <1>5, <2>1 DEF InsertOrder, IInv, TypeOK
    <3> QED
      BY <1>1, <3>1
  <2>2. CASE txn[r].code = n /\ n \notin Filed
    <3>1. Wrote(r, n) /\ Knows(txn[r])
      BY <1>3, <1>5, <2>2 DEF InsertOrder, IInv, KnowInv
    <3>2. n \notin Delivered
      BY <2>2 DEF Filed, Delivered
    <3>3. order'[n].technician = txn[r].technician
      BY <1>5, <2>2 DEF InsertOrder, IInv, TypeOK
    <3>4. txn[r].technician \in eligible \cup {None} \cup txn[r].missed
      BY <3>1 DEF Knows
    <3> QED
      BY <3>1, <3>2, <3>3, <3>4 DEF SlipsOnlyLate
  <2> QED
    BY <2>1, <2>2
<1>6. ASSUME NEW r \in Requests,
             \/ Rollback(r) \/ ArriveCreate(r) \/ ArriveUpdate(r) \/ ArriveAssign(r)
             \/ GenerateCode(r) \/ ResolveTechnician(r)
      PROVE  order'[n] = order[n]
  BY <1>6 DEF Rollback, ArriveCreate, ArriveUpdate, ArriveAssign, Begin,
              GenerateCode, ResolveTechnician, rows
<1>7. Administer => order'[n] = order[n]
  BY DEF Administer
<1> QED
  BY <1>1, <1>2, <1>4, <1>5, <1>6, <1>7 DEF Next

\* Only a request that was under way already writes what a delivery or a dismissal
\* would have refused it.
THEOREM LateWritesOnly == Spec => OnlyLateWritesSlipThrough
BY WritesAreLate, Invariance, PTL DEF Spec, OnlyLateWritesSlipThrough
=============================================================================
