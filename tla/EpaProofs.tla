------------------------------- MODULE EpaProofs -------------------------------
(***************************************************************************)
(* The proof of partition is complete: for any field, any domain in it,    *)
(* any vector of tokens, any partition of its indices with labels, and     *)
(* whatever blinders and challenges are drawn, the verifier accepts the    *)
(* proof of an honest prover, who does not panic.                          *)
(*                                                                         *)
(* Polynomials are a ring, which they inherit from the series of their     *)
(* coefficients.  A vanishing polynomial divides what has its roots, so    *)
(* that the prover divides without remainder; the blinded ones multiply to *)
(* X^n - 1, for the blinders multiply to 1.  Hence the two sides of each   *)
(* check are equal, one subset at a time, and so is what they add up to.   *)
(***************************************************************************)
EXTENDS LibraryProofs

-----------------------------------------------------------------------------
(* Long division *)

\* What Inv is called with has an inverse.
LEMMA InvIs ==
    ASSUME NEW x \in 1..(P - 1)
    PROVE  Inv(x) \in 1..(P - 1) /\ (x * Inv(x)) % P = 1
BY FieldAssumption DEF Inv

\* The terms of g below the m-th.
Low(g, m) == Poly(Take(g, m))

LEMMA LowIs ==
    ASSUME NEW g, IsPoly(g), NEW m \in Nat
    PROVE  /\ IsPoly(Low(g, m))
           /\ \A n \in Nat : Coef(Low(g, m))[n] = IF n < m THEN Coef(g)[n] ELSE 0
<1>1. g \in Seq(Field)
  BY PolyIsSeq
<1>2. /\ Take(g, m) \in Seq(Field)
      /\ \A n \in Nat : n < m => Coef(Take(g, m))[n] = Coef(g)[n]
      /\ \A n \in Nat : n >= m => Coef(Take(g, m))[n] = 0
  BY <1>1, TakeIs
<1>3. IsPoly(Low(g, m)) /\ Coef(Low(g, m)) = Coef(Take(g, m))
  BY <1>2, PolyIs DEF Low
<1> QED
  BY <1>2, <1>3

\* What is short enough is left alone.
LEMMA LowOfShort ==
    ASSUME NEW g, IsPoly(g), NEW m \in Nat, Len(g) <= m
    PROVE  Low(g, m) = g
<1>1. g \in Seq(Field) /\ Len(g) \in Nat
  BY PolyIsSeq
<1>2. IsPoly(Low(g, m))
      /\ \A n \in Nat : Coef(Low(g, m))[n] = IF n < m THEN Coef(g)[n] ELSE 0
  BY LowIs
<1>3. \A n \in Nat : n >= m => Coef(g)[n] = 0
  BY <1>1, CoefIs
<1>4. \A n \in Nat : Coef(Low(g, m))[n] = Coef(g)[n]
  BY <1>2, <1>3
<1> QED
  BY <1>2, <1>4, SamePoly

LEMMA LowOfNone ==
    ASSUME NEW g, IsPoly(g)
    PROVE  Low(g, 0) = <<>>
<1>1. IsPoly(Low(g, 0))
      /\ \A n \in Nat : Coef(Low(g, 0))[n] = IF n < 0 THEN Coef(g)[n] ELSE 0
  BY LowIs
<1>2. \A n \in Nat : Coef(Low(g, 0))[n] = Coef(<<>>)[n]
  BY <1>1, EmptyPoly
<1> QED
  BY <1>1, <1>2, EmptyPoly, SamePoly

\* One term more.
LEMMA LowGrows ==
    ASSUME NEW g, IsPoly(g), NEW k \in Nat
    PROVE  /\ Coef(g)[k] \in Field
           /\ Low(g, k + 1) = Plus(Low(g, k), Monomial(Coef(g)[k], k))
<1> DEFINE x == Coef(g)[k]
<1>1. g \in Seq(Field)
  BY PolyIsSeq
<1>2. \A n \in Nat : Coef(g)[n] \in Field
  BY <1>1, CoefIs
<1>3. x \in Field
  BY <1>2
<1>4. x = Coef(g)[k]
  OBVIOUS
<1> HIDE DEF x
<1>5. /\ IsPoly(Low(g, k)) /\ IsPoly(Low(g, k + 1))
      /\ \A n \in Nat : Coef(Low(g, k))[n] = IF n < k THEN Coef(g)[n] ELSE 0
      /\ \A n \in Nat : Coef(Low(g, k + 1))[n] = IF n < k + 1 THEN Coef(g)[n] ELSE 0
  BY LowIs
<1>6. /\ IsPoly(Monomial(x, k))
      /\ \A n \in Nat : Coef(Monomial(x, k))[n] = IF n = k THEN x ELSE 0
  BY <1>3, MonomialIs
<1>7. /\ IsPoly(Plus(Low(g, k), Monomial(x, k)))
      /\ \A n \in Nat : Coef(Plus(Low(g, k), Monomial(x, k)))[n]
             = (Coef(Low(g, k))[n] + Coef(Monomial(x, k))[n]) % P
  BY <1>5, <1>6, PolyIsSeq, PlusPoly
<1>8. ASSUME NEW n \in Nat
      PROVE  Coef(Plus(Low(g, k), Monomial(x, k)))[n] = Coef(Low(g, k + 1))[n]
  <2>1. Coef(g)[n] \in Field /\ x + 0 = x /\ 0 + x = x /\ Coef(g)[n] + 0 = Coef(g)[n] /\ 0 + 0 = 0
    BY <1>2, <1>3, InField
  <2>2. Coef(g)[n] % P = Coef(g)[n] /\ x % P = x /\ 0 % P = 0
    BY <1>2, <1>3, InField, RemainderOne
  <2>3. CASE n < k
    <3>1. n # k /\ n < k + 1
      BY <2>3
    <3> QED
      BY <1>5, <1>6, <1>7, <2>1, <2>2, <2>3, <3>1
  <2>4. CASE n = k
    <3>1. ~(n < k) /\ n < k + 1
      BY <2>4
    <3> QED
      BY <1>4, <1>5, <1>6, <1>7, <2>1, <2>2, <2>4, <3>1
  <2>5. CASE n > k
    <3>1. ~(n < k) /\ ~(n < k + 1) /\ n # k
      BY <2>5
    <3> QED
      BY <1>5, <1>6, <1>7, <2>1, <2>2, <3>1
  <2> QED
    BY <2>3, <2>4, <2>5
<1>9. Low(g, k + 1) = Plus(Low(g, k), Monomial(x, k))
  BY <1>5, <1>7, <1>8, SamePoly
<1> QED
  BY <1>3, <1>4, <1>9

\* A round of the division by s, for the coefficient k of the quotient.
Round(last, s, k) ==
    LET lead == Coefficient(last.rest, k + Len(s) - 1)
        term == Monomial((lead * Inv(s[Len(s)])) % P, k)
    IN  [rest |-> Minus(last.rest, Times(s, term)), sum |-> Plus(last.sum, term)]

\* What is left of s times g, and what is found of g, when the m lowest terms are missing.
Left(s, g, m) == [rest |-> Times(s, Low(g, m)), sum |-> Minus(g, Low(g, m))]

\* Each round finds the next coefficient of the quotient,
LEMMA LeadingTermIs ==
    ASSUME NEW s, IsPoly(s), s # <<>>, NEW g, IsPoly(g), NEW k \in Nat
    PROVE  (Coefficient(Times(s, Low(g, k + 1)), k + Len(s) - 1) * Inv(s[Len(s)])) % P = Coef(g)[k]
<1> DEFINE low == Low(g, k + 1)
           d == Len(s) - 1
<1>1. s \in Seq(Field) /\ g \in Seq(Field) /\ IsPoly(low)
      /\ \A n \in Nat : Coef(low)[n] = IF n < k + 1 THEN Coef(g)[n] ELSE 0
  <2>1. k + 1 \in Nat
    OBVIOUS
  <2>2. IsPoly(Low(g, k + 1))
        /\ \A n \in Nat : Coef(Low(g, k + 1))[n] = IF n < k + 1 THEN Coef(g)[n] ELSE 0
    BY <2>1, LowIs
  <2>3. s \in Seq(Field) /\ g \in Seq(Field)
    BY PolyIsSeq
  <2> QED
    BY <2>2, <2>3
<1>2. low \in Seq(Field)
  BY <1>1, PolyIsSeq
<1>3. d \in Nat /\ Bounded(Coef(s), d) /\ d < Len(s) /\ d + 1 = Len(s) /\ Len(s) \in Nat
  BY <1>1, CoefBounded
<1>4. Bounded(Coef(low), k)
  <2>1. \A n \in Nat : n > k => ~(n < k + 1)
    OBVIOUS
  <2> QED
    BY <1>1, <2>1 DEF Bounded
<1>5. Coef(s)[d] = s[Len(s)]
  BY <1>1, <1>3, CoefIs
<1>6. Coef(low)[k] = Coef(g)[k] /\ Coef(g)[k] \in Field
  <2>1. k < k + 1
    OBVIOUS
  <2> QED
    BY <1>1, <2>1, CoefIs
<1>7. s[Len(s)] \in 1..(P - 1)
  <2>1. s[Len(s)] \in Field /\ s[Len(s)] # 0
    BY <1>1, <1>3 DEF IsPoly
  <2> QED
    BY <2>1, FieldIs DEF Field
<1> HIDE DEF low, d
<1>8. Coef(low) \in Series /\ Coef(s) \in Series
  BY <1>1, <1>2, CoefIs
<1>9. Product(Coef(low), Coef(s))[k + d] = Coef(g)[k] * s[Len(s)]
  BY <1>3, <1>4, <1>5, <1>6, <1>8, LeadingTerm
<1>10. Coefficient(Times(s, low), k + d) = (Coef(g)[k] * s[Len(s)]) % P
  <2>1. k + d \in Nat
    BY <1>3
  <2>2. Coef(Times(s, low))[k + d] = Product(Coef(s), Coef(low))[k + d] % P
    BY <1>1, <1>2, <2>1, TimesPoly
  <2>3. Product(Coef(s), Coef(low)) = Product(Coef(low), Coef(s))
    BY <1>8, ProductCommutes
  <2>4. Coef(Times(s, low))[k + d] = Coefficient(Times(s, low), k + d)
    BY <2>1 DEF Coef
  <2> QED
    BY <1>9, <2>2, <2>3, <2>4
<1>11. PICK x \in Field : x = Coef(g)[k]
  BY <1>6
<1>12. PICK y \in 1..(P - 1) : y = s[Len(s)]
  BY <1>7
<1>13. Inv(y) \in 1..(P - 1) /\ (y * Inv(y)) % P = 1
  BY InvIs
<1>14. PICK z \in 1..(P - 1) : z = Inv(y)
  BY <1>13
<1>15. (((x * y) % P) * z) % P = x
  <2>1. P \in Nat \ {0} /\ x \in Int /\ y \in Int /\ z \in Int /\ x % P = x
    BY FieldIs, InField
  <2>2. x * y \in Int /\ y * z \in Int /\ (y * z) * x = (x * y) * z /\ 1 * x = x
    BY <2>1
  <2>3. (((x * y) % P) * z) % P = ((x * y) * z) % P
    BY <2>1, <2>2, ModTimes
  <2>4. (((y * z) % P) * x) % P = ((y * z) * x) % P
    BY <2>1, <2>2, ModTimes
  <2>5. (y * z) % P = 1
    BY <1>13, <1>14
  <2> QED
    BY <2>1, <2>2, <2>3, <2>4, <2>5
<1>16. k + Len(s) - 1 = k + d
  BY <1>3
<1> QED
  BY <1>10, <1>11, <1>12, <1>14, <1>15, <1>16 DEF low

\* and goes on to what is left below it.
LEMMA RoundOfDivision ==
    ASSUME NEW s, IsPoly(s), s # <<>>, NEW g, IsPoly(g), NEW k \in Nat
    PROVE  Round(Left(s, g, k + 1), s, k) = Left(s, g, k)
<1> DEFINE x == Coef(g)[k]
           term == Monomial(x, k)
           high == Low(g, k + 1)
           low == Low(g, k)
<1>1. x \in Field /\ high = Plus(low, term)
  BY LowGrows
<1>2. IsPoly(high) /\ IsPoly(low)
  BY LowIs
<1>3. IsPoly(term)
  BY <1>1, MonomialIs
<1>4. (Coefficient(Times(s, high), k + Len(s) - 1) * Inv(s[Len(s)])) % P = x
  BY LeadingTermIs
<1> HIDE DEF x
<1>5. Round([rest |-> Times(s, high), sum |-> Minus(g, high)], s, k)
          = [rest |-> Minus(Times(s, high), Times(s, term)), sum |-> Plus(Minus(g, high), term)]
  BY <1>4 DEF Round
<1> HIDE DEF term, high, low
<1>6. Minus(Times(s, high), Times(s, term)) = Times(s, low)
  <2>1. Times(s, high) = Plus(Times(s, low), Times(s, term))
    BY <1>1, <1>2, <1>3, TimesDistributes
  <2>2. IsPoly(Times(s, low)) /\ IsPoly(Times(s, term))
    BY <1>2, <1>3, PolyTypes
  <2> QED
    BY <2>1, <2>2, MinusCancels
<1>7. Plus(Minus(g, high), term) = Minus(g, low)
  <2> DEFINE h == Minus(g, high)
  <2>1. IsPoly(h) /\ g = Plus(h, high)
    BY <1>2, PolyTypes, MinusCancels
  <2> HIDE DEF h
  <2>2. IsPoly(Plus(h, term))
    BY <1>3, <2>1, PolyTypes
  <2>3. Plus(low, term) = Plus(term, low)
    BY <1>2, <1>3, PlusCommutes
  <2>4. Plus(h, Plus(term, low)) = Plus(Plus(h, term), low)
    BY <1>2, <1>3, <2>1, PlusAssociates
  <2>5. Minus(Plus(Plus(h, term), low), low) = Plus(h, term)
    BY <1>2, <2>2, MinusCancels
  <2>6. Minus(g, low) = Plus(h, term)
    BY <1>1, <2>1, <2>3, <2>4, <2>5
  <2> QED
    BY <2>6 DEF h
<1> QED
  BY <1>5, <1>6, <1>7 DEF Left, high, low

\* The rounds of a division, as Quotient makes them.
IsDivision(w, p, s, turns) ==
    w = [j \in 0..turns |-> IF j = 0 THEN [rest |-> p, sum |-> <<>>]
                           ELSE Round(w[j - 1], s, turns - j)]

-----------------------------------------------------------------------------
(* Sums and products of sequences of polynomials *)

\* w begins with x and adds to it, or multiplies it with, one polynomial after the other.
AddsUp(w, ps) ==
    w = [j \in 0..Len(ps) |-> IF j = 0 THEN <<>> ELSE Plus(w[j - 1], ps[j])]

Multiplies(w, ps) ==
    w = [j \in 0..Len(ps) |-> IF j = 0 THEN <<1>> ELSE Times(w[j - 1], ps[j])]

\* What they end with is what SumOf and ProductOf return.
LEMMA SumOfIs ==
    ASSUME NEW ps, Len(ps) \in Nat, NEW v, v[0] = <<>>,
           \A j \in 1..Len(ps) : v[j] = Plus(v[j - 1], ps[j])
    PROVE  SumOf(ps) = v[Len(ps)]
<1> DEFINE n == Len(ps)
           w == CHOOSE u : AddsUp(u, ps)
           z == [j \in 0..n |-> v[j]]
<1>1. SumOf(ps) = w[n]
  BY DEF SumOf, AddsUp
<1>2. AddsUp(z, ps)
  <2>1. \A j \in 0..n : z[j] = IF j = 0 THEN <<>> ELSE Plus(z[j - 1], ps[j])
    BY \A j \in 0..n : j # 0 => j \in 1..n /\ j - 1 \in 0..n
  <2>2. z = [j \in 0..n |-> z[j]]
    OBVIOUS
  <2> HIDE DEF z
  <2> QED
    BY <2>1, <2>2 DEF AddsUp
<1>3. AddsUp(w, ps)
  BY <1>2
<1> HIDE DEF w, z
<1>4. \A j \in 0..n : w[j] = IF j = 0 THEN <<>> ELSE Plus(w[j - 1], ps[j])
  BY <1>3 DEF AddsUp
<1> DEFINE S == {j \in Nat : j <= n => w[j] = v[j]}
<1>5. 0 \in S
  BY <1>4
<1>6. \A j \in S : j + 1 \in S
  <2>1. ASSUME NEW j \in Nat, j + 1 <= n, w[j] = v[j]
        PROVE  w[j + 1] = v[j + 1]
    <3>1. j + 1 \in 1..n /\ j + 1 \in 0..n /\ (j + 1) - 1 = j /\ j + 1 # 0
      BY <2>1
    <3> QED
      BY <1>4, <2>1, <3>1
  <2>2. \A j \in Nat : j + 1 \in Nat /\ (j + 1 <= n => j <= n)
    OBVIOUS
  <2> QED
    BY <2>1, <2>2
<1>7. n \in S
  <2>1. S \in SUBSET Nat /\ n \in Nat
    OBVIOUS
  <2> HIDE DEF S
  <2> QED
    BY <1>5, <1>6, <2>1, Induct
<1> QED
  BY <1>1, <1>7

LEMMA ProductOfIs ==
    ASSUME NEW ps, Len(ps) \in Nat, NEW v, v[0] = << 1 >>,
           \A j \in 1..Len(ps) : v[j] = Times(v[j - 1], ps[j])
    PROVE  ProductOf(ps) = v[Len(ps)]
<1> DEFINE n == Len(ps)
           w == CHOOSE u : Multiplies(u, ps)
           z == [j \in 0..n |-> v[j]]
<1>1. ProductOf(ps) = w[n]
  BY DEF ProductOf, Multiplies
<1>2. Multiplies(z, ps)
  <2>1. \A j \in 0..n : z[j] = IF j = 0 THEN <<1>> ELSE Times(z[j - 1], ps[j])
    BY \A j \in 0..n : j # 0 => j \in 1..n /\ j - 1 \in 0..n
  <2>2. z = [j \in 0..n |-> z[j]]
    OBVIOUS
  <2> HIDE DEF z
  <2> QED
    BY <2>1, <2>2 DEF Multiplies
<1>3. Multiplies(w, ps)
  BY <1>2
<1> HIDE DEF w, z
<1>4. \A j \in 0..n : w[j] = IF j = 0 THEN <<1>> ELSE Times(w[j - 1], ps[j])
  BY <1>3 DEF Multiplies
<1> DEFINE S == {j \in Nat : j <= n => w[j] = v[j]}
<1>5. 0 \in S
  BY <1>4
<1>6. \A j \in S : j + 1 \in S
  <2>1. ASSUME NEW j \in Nat, j + 1 <= n, w[j] = v[j]
        PROVE  w[j + 1] = v[j + 1]
    <3>1. j + 1 \in 1..n /\ j + 1 \in 0..n /\ (j + 1) - 1 = j /\ j + 1 # 0
      BY <2>1
    <3> QED
      BY <1>4, <2>1, <3>1
  <2>2. \A j \in Nat : j + 1 \in Nat /\ (j + 1 <= n => j <= n)
    OBVIOUS
  <2> QED
    BY <2>1, <2>2
<1>7. n \in S
  <2>1. S \in SUBSET Nat /\ n \in Nat
    OBVIOUS
  <2> HIDE DEF S
  <2> QED
    BY <1>5, <1>6, <2>1, Induct
<1> QED
  BY <1>1, <1>7

-----------------------------------------------------------------------------
(* Divisibility *)

Divides(d, f) == \E g : IsPoly(g) /\ f = Times(d, g)

\* What d divides.
LEMMA DividesMore ==
    ASSUME NEW d, IsPoly(d), NEW f, IsPoly(f), Divides(d, f)
    PROVE  /\ \A x \in Int : Divides(d, Scale(f, x))
           /\ \A h : IsPoly(h) /\ Divides(d, h) => Divides(d, Plus(f, h))
<1>1. PICK g : IsPoly(g) /\ f = Times(d, g)
  BY DEF Divides
<1>2. ASSUME NEW x \in Int
      PROVE  Divides(d, Scale(f, x))
  <2>1. Times(d, Scale(g, x)) = Scale(f, x) /\ IsPoly(Scale(g, x))
    BY <1>1, ScaleOfProduct, PolyTypes
  <2> QED
    BY <2>1 DEF Divides
<1>3. ASSUME NEW h, IsPoly(h), Divides(d, h)
      PROVE  Divides(d, Plus(f, h))
  <2>1. PICK k : IsPoly(k) /\ h = Times(d, k)
    BY <1>3 DEF Divides
  <2>2. Times(d, Plus(g, k)) = Plus(f, h) /\ IsPoly(Plus(g, k))
    BY <1>1, <2>1, TimesDistributes, PolyTypes
  <2> QED
    BY <2>2 DEF Divides
<1> QED
  BY <1>2, <1>3

LEMMA DividesEmpty ==
    ASSUME NEW d, IsPoly(d)
    PROVE  Divides(d, <<>>)
BY EmptyTerms, EmptyPoly DEF Divides

\* A factor that is not zero does not matter.
LEMMA DividesScaled ==
    ASSUME NEW d, IsPoly(d), NEW f, IsPoly(f), NEW x \in 1..(P - 1), Divides(d, Scale(f, x))
    PROVE  Divides(d, f)
<1>1. Inv(x) \in 1..(P - 1) /\ (x * Inv(x)) % P = 1
  BY InvIs
<1>2. x \in Int /\ Inv(x) \in Int /\ IsPoly(Scale(f, x)) /\ 1 \in Int
  <2>1. x \in Int /\ Inv(x) \in Int /\ 1 \in Int
    BY <1>1
  <2> QED
    BY <2>1, PolyTypes
<1>3. SameMod(x * Inv(x), 1, P)
  BY <1>1, RemainderOne DEF SameMod
<1>4. Scale(Scale(f, x), Inv(x)) = f
  BY <1>2, <1>3, ScaleTwice, ScaleOne
<1>5. Divides(d, Scale(Scale(f, x), Inv(x)))
  BY <1>2, DividesMore
<1> QED
  BY <1>4, <1>5

\* X - x
Linear(x) == <<Neg(x), 1>>

LinearSeries(x) == [k \in Nat |-> IF k = 0 THEN -x ELSE IF k = 1 THEN 1 ELSE 0]

LEMMA LinearIs ==
    ASSUME NEW x \in Field
    PROVE  Represents(Linear(x), LinearSeries(x)) /\ Linear(x) # <<>> /\ Len(Linear(x)) = 2
           /\ Linear(x)[2] = 1
<1>1. x \in 0..(P - 1) /\ P \in Nat /\ P > 1
  BY FieldIs, InField
<1>2. Neg(x) \in Field /\ Neg(x) = (-x) % P
  <2>1. x % P = x
    BY InField
  <2>2. (P - (x % P)) % P = (-x) % P
    <3>1. P \in Nat \ {0} /\ P - x \in Int /\ -x \in Int /\ 1 \in Int /\ P - x = -x + 1 * P
      BY <1>1
    <3>2. (P - x) % P = (-x) % P
      BY <3>1, SameRemainder
    <3> QED
      BY <2>1, <3>2
  <2>3. -x \in Int
    BY <1>1
  <2> QED
    BY <2>1, <2>2, <2>3, IntoField DEF Neg
<1> DEFINE s == Linear(x)
<1>3. s \in Seq(Field) /\ Len(s) = 2 /\ s[1] = (-x) % P /\ s[2] = 1 /\ s # <<>>
  BY <1>2, ZeroInField DEF Linear
<1>4. IsPoly(s)
  BY <1>3 DEF IsPoly
<1> HIDE DEF s
<1>5. Coef(s)[0] = (-x) % P /\ Coef(s)[1] = 1 /\ \A k \in Nat : k \notin {0, 1} => Coef(s)[k] = 0
  <2>1. /\ \A k \in Nat : k < 2 => Coef(s)[k] = s[k + 1]
        /\ \A k \in Nat : ~(k < 2) => Coef(s)[k] = 0
    BY <1>3, CoefIs
  <2>2. 0 + 1 = 1 /\ 1 + 1 = 2 /\ 0 < 2 /\ 1 < 2 /\ \A k \in Nat : k \notin {0, 1} => ~(k < 2)
    OBVIOUS
  <2> QED
    BY <1>3, <2>1, <2>2
<1>6. LinearSeries(x) \in Series
  BY <1>1 DEF LinearSeries, Series
<1>7. ASSUME NEW k \in Nat
      PROVE  Coef(s)[k] = LinearSeries(x)[k] % P
  BY <1>5, RemainderOne DEF LinearSeries
<1> QED
  BY <1>3, <1>4, <1>6, <1>7 DEF Represents, s

\* What X - x multiplies a series to.
LEMMA ProductOfLinear ==
    ASSUME NEW x \in Int, NEW f \in Series
    PROVE  /\ Product(LinearSeries(x), f)[0] = (-x) * f[0]
           /\ \A k \in Nat : Product(LinearSeries(x), f)[k + 1] = (-x) * f[k + 1] + f[k]
<1>1. LinearSeries(x) \in Series /\ LinearSeries(x)[0] = -x
  BY DEF LinearSeries, Series
<1>2. Rest(LinearSeries(x)) = One
  <2>1. \A k \in Nat : k + 1 # 0 /\ k + 1 \in Nat /\ (k + 1 = 1 <=> k = 0)
    OBVIOUS
  <2> QED
    BY <2>1 DEF Rest, LinearSeries, One
<1>3. Product(One, f) = f
  BY ProductOfOne
<1> QED
  BY <1>1, <1>2, <1>3, ProductIs

\* Polynomials X - x and X - y have no factor in common.
LEMMA LinearPrime ==
    ASSUME NEW x \in Field, NEW y \in Field, x # y, NEW g, IsPoly(g),
           Divides(Linear(x), Times(Linear(y), g))
    PROVE  Divides(Linear(x), g)
<1> DEFINE d == Linear(x)
           e == Linear(y)
<1>1. Represents(d, LinearSeries(x)) /\ Represents(e, LinearSeries(y))
  BY LinearIs
<1>2. IsPoly(d) /\ IsPoly(e)
  BY <1>1 DEF Represents
<1>3. x \in Int /\ y \in Int /\ P \in Nat \ {0}
  BY InField, FieldIs
<1> DEFINE c == (x - y) % P
<1>4. c \in 1..(P - 1) /\ c \in Field /\ c \in Int
  <2>1. x \in 0..(P - 1) /\ y \in 0..(P - 1)
    BY InField
  <2>2. x - y \in Int /\ c \in 0..(P - 1)
    BY <1>3, Remainder
  <2>3. c # 0
    <3> SUFFICES ASSUME c = 0
                 PROVE  FALSE
      OBVIOUS
    <3>1. PICK k \in Int : x - y = k * P + c
      BY <1>3, <2>2, Remainder
    <3>2. x = y + k * P
      BY <1>3, <3>1
    <3>3. x % P = y % P
      BY <1>3, <3>2, SameRemainder
    <3> QED
      BY <3>3, InField
  <2> QED
    BY <2>2, <2>3, IntoField
<1>5. e = Plus(d, Poly(<<c>>))
  <2>1. Represents(Poly(<<c>>), ScaleSeries(c, One))
    BY <1>4, ConstantIs
  <2>2. Represents(Plus(d, Poly(<<c>>)), PlusSeries(LinearSeries(x), ScaleSeries(c, One)))
    BY <1>1, <2>1, RepresentsPlus
  <2>3. ASSUME NEW k \in Nat
        PROVE  SameMod(LinearSeries(y)[k], PlusSeries(LinearSeries(x), ScaleSeries(c, One))[k], P)
    <3>1. PlusSeries(LinearSeries(x), ScaleSeries(c, One))[k]
              = LinearSeries(x)[k] + c * One[k]
      BY DEF PlusSeries, ScaleSeries
    <3>2. CASE k = 0
      <4>1. LinearSeries(y)[k] = -y /\ LinearSeries(x)[k] = -x /\ One[k] = 1
        BY <3>2, OneIs DEF LinearSeries
      <4>2. c * 1 = c /\ -x + c = c + (-x) /\ -x \in Int
        BY <1>3, <1>4
      <4>3. (c + (-x)) % P = ((x - y) + (-x)) % P
        <5>1. PICK u \in Int : u = x - y
          BY <1>3
        <5>2. PICK v \in Int : v = -x
          BY <4>2
        <5>3. ((u % P) + v) % P = (u + v) % P
          BY <1>3, ModPlus
        <5> QED
          BY <5>1, <5>2, <5>3
      <4>4. (x - y) + (-x) = -y
        BY <1>3
      <4> QED
        BY <3>1, <4>1, <4>2, <4>3, <4>4 DEF SameMod
    <3>3. CASE k # 0
      <4>1. One[k] = 0 /\ c * 0 = 0
        BY <1>4, <3>3, OneIs
      <4>2. LinearSeries(y)[k] = LinearSeries(x)[k] /\ LinearSeries(x)[k] \in Int
        BY <3>3 DEF LinearSeries
      <4>3. LinearSeries(x)[k] + 0 = LinearSeries(x)[k]
        BY <4>2
      <4> QED
        BY <3>1, <4>1, <4>2, <4>3 DEF SameMod
    <3> QED
      BY <3>2, <3>3
  <2> QED
    BY <1>1, <2>2, <2>3, RepresentsOne
<1>6. PICK h : IsPoly(h) /\ Times(e, g) = Times(d, h)
  BY DEF Divides
<1> HIDE DEF c, d, e
<1>7. Times(e, g) = Plus(Times(d, g), Scale(g, c))
  <2>1. IsPoly(Poly(<<c>>))
    BY <1>4, ConstantIs DEF Represents
  <2>2. Times(g, Plus(d, Poly(<<c>>))) = Plus(Times(g, d), Times(g, Poly(<<c>>)))
    BY <1>2, <2>1, TimesDistributes
  <2>3. Times(g, Poly(<<c>>)) = Scale(g, c)
    BY <1>4, TimesConstant
  <2>4. Times(g, d) = Times(d, g) /\ Times(g, e) = Times(e, g)
    BY <1>2, TimesCommutes
  <2> QED
    BY <1>5, <2>2, <2>3, <2>4
<1>8. Times(d, h) = Plus(Times(d, Minus(h, g)), Times(d, g))
  <2>1. h = Plus(Minus(h, g), g) /\ IsPoly(Minus(h, g))
    BY <1>6, MinusCancels, PolyTypes
  <2>2. Times(d, Plus(Minus(h, g), g)) = Plus(Times(d, Minus(h, g)), Times(d, g))
    BY <1>2, <2>1, TimesDistributes
  <2> QED
    BY <2>1, <2>2
<1>9. Scale(g, c) = Times(d, Minus(h, g))
  <2>1. IsPoly(Times(d, g)) /\ IsPoly(Scale(g, c)) /\ IsPoly(Minus(h, g))
    BY <1>2, <1>4, <1>6, PolyTypes
  <2>2. IsPoly(Times(d, Minus(h, g)))
    BY <1>2, <2>1, PolyTypes
  <2>3. Minus(Plus(Times(d, g), Scale(g, c)), Times(d, g)) = Scale(g, c)
    BY <2>1, MinusCancels
  <2>4. Minus(Plus(Times(d, Minus(h, g)), Times(d, g)), Times(d, g)) = Times(d, Minus(h, g))
    BY <2>1, <2>2, MinusCancels
  <2> QED
    BY <1>6, <1>7, <1>8, <2>3, <2>4
<1>10. Divides(d, Scale(g, c))
  <2>1. IsPoly(Minus(h, g))
    BY <1>6, PolyTypes
  <2> QED
    BY <1>9, <2>1 DEF Divides
<1>11. Divides(d, g)
  BY <1>2, <1>4, <1>10, DividesScaled
<1> QED
  BY <1>11 DEF d

-----------------------------------------------------------------------------
(* The domain of the proof *)

\* The operators of the proof are those of the polynomials.
LEMMA ProofOperators ==
    /\ \A s : Proof!Poly(s) = Poly(s)
    /\ \A s, k : Proof!Take(s, k) = Take(s, k)
    /\ \A x : Proof!Inv(x) = Inv(x) /\ Proof!Neg(x) = Neg(x)
    /\ \A x, k : Proof!power(x, k) = power(x, k)
    /\ \A p, s : Proof!Times(p, s) = Times(p, s)
    /\ \A p, s : Proof!Plus(p, s) = Plus(p, s)
    /\ \A p, s : Proof!Minus(p, s) = Minus(p, s)
    /\ \A p, x : Proof!Scale(p, x) = Scale(p, x)
    /\ \A x, k : Proof!Monomial(x, k) = Monomial(x, k)
    /\ \A s, k : Proof!Coefficient(s, k) = Coefficient(s, k)
    /\ \A ps : Proof!SumOf(ps) = SumOf(ps) /\ Proof!ProductOf(ps) = ProductOf(ps)
<1>1. /\ \A s, k : Proof!Take(s, k) = Take(s, k)
      /\ \A s, k : Proof!Coefficient(s, k) = Coefficient(s, k)
      /\ \A x : Proof!Inv(x) = Inv(x) /\ Proof!Neg(x) = Neg(x)
      /\ \A x, k : Proof!power(x, k) = power(x, k)
  BY DEF Proof!Take, Take, Proof!Coefficient, Coefficient, Proof!Inv, Inv, Proof!Neg, Neg,
         Proof!power, power
<1>2. \A s : Proof!Poly(s) = Poly(s)
  <2>1. \A S : Proof!Max(S) = Max(S)
    BY DEF Proof!Max, Max
  <2> QED
    BY <1>1, <2>1 DEF Proof!Poly, Poly
<1>3. \A p, s : Proof!Plus(p, s) = Plus(p, s)
  BY <1>2 DEF Proof!Plus, Plus, Proof!Coefficient, Coefficient
<1>4. \A p, x : Proof!Scale(p, x) = Scale(p, x)
  BY <1>2 DEF Proof!Scale, Scale
<1>5. \A p, s : Proof!Minus(p, s) = Minus(p, s)
  BY <1>3, <1>4 DEF Proof!Minus, Minus
<1>6. \A p, s : Proof!Times(p, s) = Times(p, s)
  BY <1>2 DEF Proof!Times, Times, Proof!Coefficient, Coefficient
<1>7. \A x, k : Proof!Monomial(x, k) = Monomial(x, k)
  BY <1>2 DEF Proof!Monomial, Monomial
<1>8. \A ps : Proof!SumOf(ps) = SumOf(ps) /\ Proof!ProductOf(ps) = ProductOf(ps)
  BY <1>3, <1>6 DEF Proof!SumOf, SumOf, Proof!ProductOf, ProductOf
<1> QED
  BY <1>1, <1>2, <1>3, <1>4, <1>5, <1>6, <1>7, <1>8

\* The elements of the domain, around and around.
Roots == [i \in Nat |-> Proof!element(i)]

\* The size of the domain.
LEMMA SizeIs == ProofSize \in Nat /\ ProofSize >= 2 /\ ProofSize > 0 /\ ProofSize \in 1..(P - 1)
BY ProofAssumption, FieldIs

\* They are the powers of the root, which are not zero, and distinct below the size.
LEMMA RootsAre ==
    /\ IsPower(Roots, ProofRoot, P)
    /\ \A i \in Nat : Roots[i] = Proof!element(i) /\ Roots[i] \in 1..(P - 1)
    /\ \A k \in Nat : Roots[ProofSize * k] = 1
    /\ \A i, j \in 0..(ProofSize - 1) : Roots[i] = Roots[j] => i = j
<1> DEFINE x == ProofRoot
           y == Inv(x)
           v == CHOOSE g : g = [k \in Nat |-> IF k = 0 THEN 1 ELSE (x * g[k - 1]) % P]
<1>1. x \in 1..(P - 1) /\ x \in Int /\ P \in Nat \ {0} /\ P > 1 /\ P \in Nat
  BY ProofAssumption, FieldIs
<1>2. \A k \in Nat : power(x, k) = v[k]
  BY DEF power
<1>3. IsPower(v, x, P)
  BY <1>1, PowerIs
<1>4. y \in 1..(P - 1) /\ (x * y) % P = 1
  BY <1>1, InvIs
<1>5. y \in Int
  BY <1>4
<1>6. PICK w : IsPower(w, y, P)
  BY <1>1, <1>5, PowersExist
<1> HIDE DEF x, y, v
<1>7. v[ProofSize] = 1 /\ \A d \in 1..(ProofSize - 1) : v[d] # 1
  <2>1. ProofSize \in Nat /\ 1..(ProofSize - 1) \subseteq Nat
    BY SizeIs
  <2> QED
    BY <1>2, <2>1, ProofAssumption DEF x
<1>8. RootOfUnity(v, x, w, y, P, ProofSize)
  <2>1. ProofSize \in Nat \ {0}
    BY SizeIs
  <2> QED
    BY <1>1, <1>3, <1>4, <1>5, <1>6, <1>7, <2>1, FieldIs DEF RootOfUnity
<1>9. \A k \in Nat : v[ProofSize * k] = 1
  BY <1>1, <1>3, <1>7, SizeIs, PowersOfOne
<1>10. \A k \in Nat : v[k] \in 1..(P - 1)
  <2> TAKE k \in Nat
  <2>1. v[k] \in 0..(P - 1) /\ w[k] \in 0..(P - 1)
    BY <1>3, <1>6 DEF IsPower
  <2>2. (v[k] * w[k]) % P = 1
    BY <1>8, PowersInverse
  <2>3. v[k] # 0
    <3> SUFFICES ASSUME v[k] = 0
                 PROVE  FALSE
      OBVIOUS
    <3>1. v[k] * w[k] = 0
      BY <2>1
    <3> QED
      BY <2>2, <3>1, RemainderOne
  <2> QED
    BY <1>1, <2>1, <2>3
<1>11. \A i \in Nat : Proof!element(i) = v[i]
  <2> TAKE i \in Nat
  <2>1. PICK c \in Nat, d \in Nat : i = ProofSize * c + d /\ i % ProofSize = d
    <3>1. i = (i \div ProofSize) * ProofSize + (i % ProofSize)
          /\ i % ProofSize \in Nat /\ i \div ProofSize \in Nat
      BY SizeIs, Quotients
    <3>2. (i \div ProofSize) * ProofSize = ProofSize * (i \div ProofSize)
      BY <3>1, SizeIs
    <3> QED
      BY <3>1, <3>2
  <2>2. ProofSize * c \in Nat
    BY SizeIs
  <2>3. v[ProofSize * c + d] = (v[ProofSize * c] * v[d]) % P
    BY <1>1, <1>3, <2>2, PowerPlus
  <2>4. (1 * v[d]) % P = v[d]
    <3>1. v[d] \in 0..(P - 1)
      BY <1>3 DEF IsPower
    <3> QED
      BY <1>1, <3>1, SmallRemainder
  <2>5. v[i] = v[d]
    BY <1>9, <2>1, <2>3, <2>4
  <2>6. Proof!element(i) = v[i % ProofSize]
    BY <1>2, <2>1, ProofOperators DEF Proof!element, x
  <2> QED
    BY <2>1, <2>5, <2>6
<1>12. Roots = v
  <2>1. v = [i \in Nat |-> v[i]]
    BY <1>3 DEF IsPower
  <2> QED
    BY <1>11, <2>1 DEF Roots
<1>13. \A i, j \in 0..(ProofSize - 1) : v[i] = v[j] => i = j
  <2> SUFFICES ASSUME NEW i \in 0..(ProofSize - 1), NEW j \in 0..(ProofSize - 1), v[i] = v[j]
               PROVE  i = j
    OBVIOUS
  <2>1. j \in Nat
    BY SizeIs
  <2>2. (v[j] * w[j]) % P = 1
    BY <1>8, <2>1, PowersInverse
  <2> QED
    BY <1>8, <2>2, PowersDistinct
<1> QED
  BY <1>3, <1>9, <1>10, <1>11, <1>12, <1>13 DEF x

\* X^n - 1
VanishingSeries ==
    [k \in Nat |-> IF k = 0 THEN 0 - 1 ELSE IF k = ProofSize THEN 1 ELSE 0]

LEMMA VanishingIs ==
    /\ Represents(Proof!z_h, VanishingSeries)
    /\ Proof!z_h # <<>> /\ Len(Proof!z_h) = ProofSize + 1 /\ Proof!z_h[ProofSize + 1] = 1
<1> DEFINE z == Proof!z_h
           m == Monomial(1, ProofSize)
<1>1. z = Minus(m, <<1>>)
  BY ProofOperators DEF Proof!z_h
<1>2. /\ IsPoly(m) /\ Len(m) <= ProofSize + 1
      /\ \A n \in Nat : Coef(m)[n] = IF n = ProofSize THEN 1 ELSE 0
  BY SizeIs, ZeroInField, MonomialIs
<1>3. IsPoly(<<1>>) /\ Len(<<1>>) = 1 /\ \A n \in Nat : Coef(<<1>>)[n] = One[n]
  BY OnePoly
<1> HIDE DEF m
<1>4. IsPoly(z) /\ \A n \in Nat : Coef(z)[n] = (Coef(m)[n] - One[n]) % P
  <2>1. m \in Seq(Field) /\ <<1>> \in Seq(Field)
    BY <1>2, <1>3, PolyIsSeq
  <2>2. /\ IsPoly(Minus(m, <<1>>))
        /\ \A n \in Nat : Coef(Minus(m, <<1>>))[n] = (Coef(m)[n] - Coef(<<1>>)[n]) % P
    BY <2>1, MinusPoly
  <2>3. \A n \in Nat : Coef(<<1>>)[n] = One[n]
    BY <1>3
  <2> HIDE DEF z
  <2> QED
    BY <1>1, <2>2, <2>3
<1> HIDE DEF z
<1>5. \A n \in Nat : Coef(m)[n] - One[n] = VanishingSeries[n]
  <2> TAKE n \in Nat
  <2>1. ProofSize # 0
    BY SizeIs
  <2>2. CASE n = 0
    BY <1>2, <2>1, <2>2, OneIs DEF VanishingSeries
  <2>3. CASE n # 0
    <3>1. One[n] = 0 /\ 1 - 0 = 1 /\ 0 - 0 = 0
      BY <2>3, OneIs
    <3> QED
      BY <1>2, <2>3, <3>1 DEF VanishingSeries
  <2> QED
    BY <2>2, <2>3
<1>6. VanishingSeries \in Series
  BY DEF VanishingSeries, Series
<1>7. Represents(z, VanishingSeries)
  BY <1>4, <1>5, <1>6 DEF Represents
<1>8. Coef(z)[ProofSize] = 1
  <2>1. VanishingSeries[ProofSize] = 1 /\ ProofSize \in Nat
    BY SizeIs DEF VanishingSeries
  <2> QED
    BY <1>4, <1>5, <2>1, RemainderOne
<1>9. Len(z) <= ProofSize + 1
  <2>1. Len(<<1>>) <= ProofSize + 1 /\ ProofSize + 1 \in Nat
    BY <1>3, SizeIs
  <2> QED
    BY <1>1, <1>2, <1>3, <2>1, LengthsBounded
<1>10. z \in Seq(Field) /\ Len(z) \in Nat
  BY <1>4, PolyIsSeq
<1>11. ProofSize < Len(z)
  <2>1. ~(ProofSize < Len(z)) => Coef(z)[ProofSize] = 0
    BY <1>10, SizeIs, CoefIs
  <2> QED
    BY <1>8, <2>1
<1>12. Len(z) = ProofSize + 1
  BY <1>9, <1>10, <1>11, SizeIs
<1>13. z[ProofSize + 1] = 1
  BY <1>8, <1>10, <1>11, SizeIs, CoefIs
<1>14. z # <<>>
  BY <1>12, SizeIs
<1> QED
  BY <1>7, <1>12, <1>13, <1>14 DEF z

\* The same in terms of the operators of the proof.
ProofRound(last, s, k) ==
    LET lead == Proof!Coefficient(last.rest, k + Len(s) - 1)
        term == Proof!Monomial((lead * Proof!Inv(s[Len(s)])) % P, k)
    IN  [rest |-> Proof!Minus(last.rest, Proof!Times(s, term)), sum |-> Proof!Plus(last.sum, term)]

IsRounds(w, p, s, turns) ==
    w = [j \in 0..turns |-> IF j = 0 THEN [rest |-> p, sum |-> <<>>]
                           ELSE ProofRound(w[j - 1], s, turns - j)]

LEMMA SameRounds ==
    ASSUME NEW p, NEW s, NEW turns
    PROVE  \A w : IsRounds(w, p, s, turns) <=> IsDivision(w, p, s, turns)
<1>1. \A last, k : ProofRound(last, s, k) = Round(last, s, k)
  BY ProofOperators DEF ProofRound, Round
<1> QED
  BY <1>1 DEF IsRounds, IsDivision

\* The quotient of a product is the other factor: what the prover divides has no remainder.
LEMMA ExactQuotient ==
    ASSUME NEW s, IsPoly(s), s # <<>>, NEW g, IsPoly(g)
    PROVE  Proof!Quotient(Times(s, g), s) = g
<1> DEFINE p == Times(s, g)
           turns == IF Len(s) <= Len(p) THEN Len(p) + 1 - Len(s) ELSE 0
<1>1. Proof!Quotient(p, s) = (CHOOSE w : IsRounds(w, p, s, turns))[turns].sum
  BY DEF Proof!Quotient, IsRounds, ProofRound
<1>2. turns = Len(g) /\ Len(g) \in Nat
  <2>1. s \in Seq(Field) /\ g \in Seq(Field) /\ Len(s) \in Nat \ {0} /\ Len(g) \in Nat
    BY PolyIsSeq
  <2>2. CASE g = <<>>
    <3>1. p = <<>>
      BY <2>2, EmptyTerms
    <3>2. Len(p) = 0 /\ Len(g) = 0
      BY <2>2, <3>1
    <3> QED
      BY <2>1, <3>2
  <2>3. CASE g # <<>>
    <3>1. Len(p) = Len(s) + Len(g) - 1
      BY <2>3, TimesLength
    <3>2. Len(g) > 0
      BY <2>1, <2>3
    <3> HIDE DEF p
    <3> QED
      BY <2>1, <3>1, <3>2
  <2> QED
    BY <2>2, <2>3
<1> HIDE DEF turns
<1> DEFINE v == [j \in 0..turns |-> Left(s, g, turns - j)]
<1>3. v[0] = [rest |-> p, sum |-> <<>>]
  <2>1. Low(g, turns) = g /\ Minus(g, g) = <<>>
    BY <1>2, LowOfShort, MinusCancels
  <2>2. v[0] = Left(s, g, turns)
    BY <1>2
  <2> QED
    BY <2>1, <2>2 DEF Left
<1>4. ASSUME NEW j \in 0..turns, j # 0
      PROVE  /\ j - 1 \in 0..turns
             /\ v[j] = Round(v[j - 1], s, turns - j)
  <2>1. j - 1 \in 0..turns /\ turns - j \in Nat /\ turns - (j - 1) = (turns - j) + 1
    BY <1>2, <1>4
  <2>2. v[j - 1] = Left(s, g, (turns - j) + 1) /\ v[j] = Left(s, g, turns - j)
    BY <2>1
  <2> QED
    BY <2>1, <2>2, RoundOfDivision
<1>5. IsDivision(v, p, s, turns)
  <2>1. \A j \in 0..turns : v[j] = IF j = 0 THEN [rest |-> p, sum |-> <<>>]
                                  ELSE Round(v[j - 1], s, turns - j)
    BY <1>3, <1>4
  <2>2. v = [j \in 0..turns |-> v[j]]
    OBVIOUS
  <2> HIDE DEF v
  <2> QED
    BY <2>1, <2>2 DEF IsDivision
<1> DEFINE w == CHOOSE x : IsRounds(x, p, s, turns)
<1>6. IsDivision(w, p, s, turns)
  BY <1>5, SameRounds
<1> HIDE DEF v, w, p
<1>7. \A j \in 0..turns : w[j] = IF j = 0 THEN [rest |-> p, sum |-> <<>>]
                                ELSE Round(w[j - 1], s, turns - j)
  BY <1>6 DEF IsDivision
<1> DEFINE S == {j \in Nat : j <= turns => w[j] = v[j]}
<1>8. 0 \in S
  BY <1>2, <1>3, <1>7
<1>9. \A j \in S : j + 1 \in S
  <2> SUFFICES ASSUME NEW j \in S, j + 1 <= turns
               PROVE  w[j + 1] = v[j + 1]
    OBVIOUS
  <2>1. j + 1 \in 0..turns /\ j + 1 # 0 /\ (j + 1) - 1 = j /\ w[j] = v[j]
    BY <1>2
  <2>2. w[j + 1] = Round(w[j], s, turns - (j + 1))
    BY <1>7, <2>1
  <2>3. v[j + 1] = Round(v[j], s, turns - (j + 1))
    BY <1>4, <2>1
  <2> QED
    BY <2>1, <2>2, <2>3
<1>10. \A j \in Nat : j \in S
  <2> HIDE DEF S
  <2>1. S \in SUBSET Nat
    BY DEF S
  <2> QED
    BY <1>8, <1>9, <2>1, Induct
<1>11. w[turns] = v[turns]
  BY <1>2, <1>10
<1>12. v[turns] = Left(s, g, 0)
  <2>1. turns \in 0..turns /\ turns - turns = 0
    BY <1>2
  <2> QED
    BY <2>1 DEF v
<1>13. Left(s, g, 0).sum = g
  <2>1. Minus(g, <<>>) = g
    <3>1. Minus(Plus(g, <<>>), <<>>) = g
      BY EmptyPoly, MinusCancels
    <3>2. Plus(g, <<>>) = g
      BY EmptyTerms
    <3> QED
      BY <3>1, <3>2
  <2> QED
    BY <2>1, LowOfNone DEF Left
<1> QED
  BY <1>1, <1>11, <1>12, <1>13 DEF w, p

\* The highest coefficient of a product is the product of the highest.
LEMMA LeadingCoefficient ==
    ASSUME NEW p, IsPoly(p), p # <<>>, NEW s, IsPoly(s), s # <<>>
    PROVE  /\ Len(p) \in Nat \ {0} /\ Len(s) \in Nat \ {0}
           /\ p[Len(p)] \in Field /\ s[Len(s)] \in Field
           /\ Len(Times(p, s)) = Len(p) + Len(s) - 1
           /\ Times(p, s)[Len(p) + Len(s) - 1] = (p[Len(p)] * s[Len(s)]) % P
<1>1. p \in Seq(Field) /\ s \in Seq(Field) /\ Len(p) \in Nat \ {0} /\ Len(s) \in Nat \ {0}
  BY PolyIsSeq
<1> DEFINE c == Len(p) - 1
           d == Len(s) - 1
<1>2. c \in Nat /\ d \in Nat /\ c + 1 = Len(p) /\ d + 1 = Len(s) /\ c < Len(p) /\ d < Len(s)
      /\ (c + d) + 1 = Len(p) + Len(s) - 1 /\ c + d \in Nat /\ c + d < Len(p) + Len(s) - 1
  BY <1>1
<1>3. Bounded(Coef(p), c) /\ Bounded(Coef(s), d)
  BY <1>1, CoefBounded
<1>4. Coef(p) \in Series /\ Coef(s) \in Series /\ Coef(p)[c] = p[Len(p)] /\ Coef(s)[d] = s[Len(s)]
      /\ p[Len(p)] \in Field /\ s[Len(s)] \in Field
  BY <1>1, <1>2, CoefIs
<1> HIDE DEF c, d
<1>5. Product(Coef(p), Coef(s))[c + d] = p[Len(p)] * s[Len(s)]
  BY <1>2, <1>3, <1>4, LeadingTerm
<1>6. Len(Times(p, s)) = Len(p) + Len(s) - 1 /\ Times(p, s) \in Seq(Field)
  BY TimesLength, PolyTypes, PolyIsSeq
<1>7. Coef(Times(p, s))[c + d] = (p[Len(p)] * s[Len(s)]) % P
  BY <1>1, <1>2, <1>5, TimesPoly
<1>8. Coef(Times(p, s))[c + d] = Times(p, s)[(c + d) + 1]
  BY <1>2, <1>6, CoefIs
<1> QED
  BY <1>1, <1>2, <1>4, <1>6, <1>7, <1>8

-----------------------------------------------------------------------------
(* Vanishing polynomials *)

\* w multiplies the factors of the vanishing polynomial of I, one index after the other.
Vanishes(w, I) ==
    /\ w[0] = <<1>>
    /\ \A i \in 0..ProofSize : IsPoly(w[i])
    /\ \A i \in 0..(ProofSize - 1) :
           w[i + 1] = IF i \in I THEN Times(w[i], Linear(Roots[i])) ELSE w[i]

IsProductOver(w, I) ==
    w = [i \in 0..ProofSize |->
            IF i = 0 THEN <<1>>
            ELSE IF i - 1 \in I
                 THEN Proof!Times(w[i - 1], <<Proof!Neg(Proof!element(i - 1)), 1>>)
                 ELSE w[i - 1]]

\* The factors of the vanishing polynomials.
LEMMA LinearOfRoot ==
    ASSUME NEW i \in Nat
    PROVE  /\ Roots[i] \in 1..(P - 1) /\ Roots[i] \in Field /\ Roots[i] \in Int
           /\ IsPoly(Linear(Roots[i]))
           /\ <<Proof!Neg(Proof!element(i)), 1>> = Linear(Roots[i])
<1>1. Roots[i] \in 1..(P - 1) /\ Roots[i] = Proof!element(i)
  BY RootsAre
<1>2. Roots[i] \in Field /\ Roots[i] \in Int
  BY <1>1, FieldIs DEF Field
<1>3. IsPoly(Linear(Roots[i]))
  BY <1>2, LinearIs DEF Represents
<1> QED
  BY <1>1, <1>2, <1>3, ProofOperators DEF Linear

\* Vanishing multiplies the factors up.
LEMMA VanishingProduct ==
    ASSUME NEW I
    PROVE  \E w : Vanishes(w, I) /\ Proof!Vanishing(I) = w[ProofSize]
<1> DEFINE A == {p \in Seq(Field) : IsPoly(p)}
           F == [k \in Nat |-> [p \in A |-> IF k \in I THEN Times(p, Linear(Roots[k])) ELSE p]]
<1>1. \A k \in Nat, p \in A : F[k][p] = (IF k \in I THEN Times(p, Linear(Roots[k])) ELSE p)
                              /\ F[k][p] \in A
  <2> TAKE k \in Nat, p \in A
  <2>1. IsPoly(Times(p, Linear(Roots[k])))
    BY LinearOfRoot, PolyTypes
  <2>2. Times(p, Linear(Roots[k])) \in A
    BY <2>1, PolyIsSeq
  <2> QED
    BY <2>2
<1>2. F \in [Nat -> [A -> A]]
  <2>1. \A k \in Nat : F[k] = [p \in A |-> F[k][p]]
    OBVIOUS
  <2>2. \A k \in Nat : F[k] \in [A -> A]
    BY <1>1, <2>1
  <2>3. F = [k \in Nat |-> F[k]]
    OBVIOUS
  <2> HIDE DEF F
  <2> QED
    BY <2>2, <2>3
<1>3. <<1>> \in A
  BY OnePoly, PolyIsSeq
<1>4. \A p \in A : IsPoly(p)
  OBVIOUS
<1> HIDE DEF A, F
<1>5. PICK f : Iterates(f, F, <<1>>, A)
  BY <1>2, <1>3, Recursion
<1>6. /\ f[0] = <<1>> /\ \A i \in Nat : f[i] \in A
      /\ \A i \in Nat : f[i + 1] = IF i \in I THEN Times(f[i], Linear(Roots[i])) ELSE f[i]
  BY <1>1, <1>5 DEF Iterates
<1> DEFINE v == [i \in 0..ProofSize |-> f[i]]
<1>7. IsProductOver(v, I)
  <2>1. ASSUME NEW i \in 0..ProofSize
        PROVE  v[i] = IF i = 0 THEN <<1>>
                      ELSE IF i - 1 \in I
                           THEN Proof!Times(v[i - 1], <<Proof!Neg(Proof!element(i - 1)), 1>>)
                           ELSE v[i - 1]
    <3>1. CASE i = 0
      BY <1>6, <3>1
    <3>2. CASE i # 0
      <4>1. i - 1 \in Nat /\ i - 1 \in 0..ProofSize /\ (i - 1) + 1 = i
        BY <3>2, SizeIs
      <4>2. v[i] = f[(i - 1) + 1] /\ v[i - 1] = f[i - 1]
        BY <4>1
      <4> HIDE DEF v
      <4>3. <<Proof!Neg(Proof!element(i - 1)), 1>> = Linear(Roots[i - 1])
        BY <4>1, LinearOfRoot
      <4> QED
        BY <1>6, <3>2, <4>1, <4>2, <4>3, ProofOperators
    <3> QED
      BY <3>1, <3>2
  <2>2. v = [i \in 0..ProofSize |-> v[i]]
    OBVIOUS
  <2> HIDE DEF v
  <2> QED
    BY <2>1, <2>2 DEF IsProductOver
<1> DEFINE w == CHOOSE u : IsProductOver(u, I)
<1>8. IsProductOver(w, I)
  BY <1>7
<1>9. Proof!Vanishing(I) = w[ProofSize]
  BY DEF Proof!Vanishing, IsProductOver
<1> HIDE DEF v, w
<1>10. w[0] = <<1>>
  BY <1>8, SizeIs DEF IsProductOver
<1>11. ASSUME NEW i \in 0..(ProofSize - 1)
       PROVE  w[i + 1] = IF i \in I THEN Times(w[i], Linear(Roots[i])) ELSE w[i]
  <2>1. i + 1 \in 0..ProofSize /\ i + 1 # 0 /\ (i + 1) - 1 = i /\ i \in Nat
    BY SizeIs
  <2>2. w[i + 1] = IF i \in I THEN Proof!Times(w[i], <<Proof!Neg(Proof!element(i)), 1>>) ELSE w[i]
    BY <1>8, <2>1 DEF IsProductOver
  <2> QED
    BY <2>1, <2>2, LinearOfRoot, ProofOperators
<1> DEFINE S == {i \in Nat : i <= ProofSize => IsPoly(w[i])}
<1>12. 0 \in S
  BY <1>10, OnePoly
<1>13. \A i \in S : i + 1 \in S
  <2>1. ASSUME NEW i \in Nat, i + 1 <= ProofSize, IsPoly(w[i])
        PROVE  IsPoly(w[i + 1])
    <3>1. i \in 0..(ProofSize - 1)
      BY <2>1, SizeIs
    <3>2. IsPoly(Times(w[i], Linear(Roots[i])))
      BY <2>1, LinearOfRoot, PolyTypes
    <3> QED
      BY <1>11, <2>1, <3>1, <3>2
  <2>2. \A i \in Nat : i + 1 \in Nat /\ (i + 1 <= ProofSize => i <= ProofSize)
    BY SizeIs
  <2> QED
    BY <2>1, <2>2
<1>14. \A i \in 0..ProofSize : IsPoly(w[i])
  <2>1. S \in SUBSET Nat
    OBVIOUS
  <2>2. \A i \in Nat : i \in S
    <3> HIDE DEF S
    <3> QED
      BY <1>12, <1>13, <2>1, Induct
  <2> QED
    BY <2>2, SizeIs
<1> QED
  BY <1>9, <1>10, <1>11, <1>14 DEF Vanishes

\* The degree is the number of the indices below, and the highest coefficient one.
IsMonic(p, m) == IsPoly(p) /\ p # <<>> /\ Len(p) = m + 1 /\ p[m + 1] = 1

LEMMA MonicProduct ==
    ASSUME NEW p, NEW s, NEW k \in Nat, NEW m \in Nat, IsMonic(p, k), IsMonic(s, m)
    PROVE  IsMonic(Times(p, s), k + m)
<1>1. IsPoly(p) /\ p # <<>> /\ Len(p) = k + 1 /\ p[k + 1] = 1
      /\ IsPoly(s) /\ s # <<>> /\ Len(s) = m + 1 /\ s[m + 1] = 1
  BY DEF IsMonic
<1>2. /\ Len(Times(p, s)) = Len(p) + Len(s) - 1
      /\ Times(p, s)[Len(p) + Len(s) - 1] = (p[Len(p)] * s[Len(s)]) % P
  BY <1>1, LeadingCoefficient
<1>3. Len(p) + Len(s) - 1 = k + m + 1 /\ 1 * 1 = 1
  BY <1>1
<1>4. IsPoly(Times(p, s)) /\ Times(p, s) # <<>>
  BY <1>1, PolyTypes, TimesLength
<1> QED
  BY <1>1, <1>2, <1>3, <1>4, RemainderOne DEF IsMonic

\* Vanishing polynomials are monic; the degree is the number of indices.
LEMMA VanishingMonic ==
    ASSUME NEW I \in SUBSET (0..(ProofSize - 1)), NEW w, Vanishes(w, I)
    PROVE  \A i \in 0..ProofSize :
               Cardinality(I \cap (0..(i - 1))) \in Nat
               /\ IsMonic(w[i], Cardinality(I \cap (0..(i - 1))))
<1> DEFINE B(i) == I \cap (0..(i - 1))
           S == {i \in Nat : i <= ProofSize => Cardinality(B(i)) \in Nat
                                               /\ IsMonic(w[i], Cardinality(B(i)))}
<1>1. \A i \in Nat : IsFiniteSet(B(i))
  <2> TAKE i \in Nat
  <2>1. IsFiniteSet(0..(i - 1))
    BY FS_Interval
  <2> QED
    BY <2>1, FS_Subset
<1>2. 0 \in S
  <2>1. B(0) = {}
    OBVIOUS
  <2>2. Cardinality(B(0)) = 0
    BY <2>1, FS_EmptySet
  <2>3. IsMonic(<<1>>, 0)
    BY OnePoly DEF IsMonic
  <2>4. w[0] = <<1>>
    BY DEF Vanishes
  <2> QED
    BY <2>2, <2>3, <2>4
<1>3. ASSUME NEW i \in Nat, i + 1 <= ProofSize, Cardinality(B(i)) \in Nat,
             IsMonic(w[i], Cardinality(B(i)))
      PROVE  Cardinality(B(i + 1)) \in Nat /\ IsMonic(w[i + 1], Cardinality(B(i + 1)))
  <2>1. i \in 0..(ProofSize - 1)
    BY <1>3, SizeIs
  <2>2. w[i + 1] = IF i \in I THEN Times(w[i], Linear(Roots[i])) ELSE w[i]
    BY <2>1 DEF Vanishes
  <2>3. CASE i \in I
    <3>1. B(i + 1) = B(i) \cup {i} /\ i \notin B(i)
      BY <2>3
    <3>2. Cardinality(B(i) \cup {i}) = Cardinality(B(i)) + 1
      BY <1>1, <3>1, FS_AddElement
    <3>3. IsMonic(Linear(Roots[i]), 1)
      BY LinearOfRoot, LinearIs DEF IsMonic
    <3> HIDE DEF B
    <3>4. IsMonic(Times(w[i], Linear(Roots[i])), Cardinality(B(i)) + 1)
      BY <1>3, <3>3, MonicProduct
    <3>5. Cardinality(B(i + 1)) = Cardinality(B(i)) + 1
      BY <3>1, <3>2
    <3>6. w[i + 1] = Times(w[i], Linear(Roots[i]))
      BY <2>2, <2>3
    <3>7. Cardinality(B(i)) + 1 \in Nat
      BY <1>3
    <3> QED
      BY <3>4, <3>5, <3>6, <3>7
  <2>4. CASE i \notin I
    <3>1. B(i + 1) = B(i)
      BY <2>4
    <3> QED
      BY <1>3, <2>2, <2>4, <3>1
  <2> QED
    BY <2>3, <2>4
<1>4. \A i \in S : i + 1 \in S
  <2> HIDE DEF B
  <2>1. \A i \in Nat : i + 1 \in Nat /\ (i + 1 <= ProofSize => i <= ProofSize)
    BY SizeIs
  <2> QED
    BY <1>3, <2>1
<1>5. \A i \in Nat : i \in S
  <2>1. S \in SUBSET Nat
    OBVIOUS
  <2> HIDE DEF S
  <2> QED
    BY <1>2, <1>4, <2>1, Induct
<1> QED
  BY <1>5, SizeIs

\* The vanishing polynomial of two sets without a common index is the product.
LEMMA VanishingOfUnion ==
    ASSUME NEW I, NEW J, I \cap J = {}, NEW u, Vanishes(u, I), NEW v, Vanishes(v, J),
           NEW w, Vanishes(w, I \cup J)
    PROVE  w[ProofSize] = Times(u[ProofSize], v[ProofSize])
<1> DEFINE S == {i \in Nat : i <= ProofSize => w[i] = Times(u[i], v[i])}
<1>1. 0 \in S
  BY OnePoly, TimesOne DEF Vanishes
<1>2. ASSUME NEW i \in Nat, i + 1 <= ProofSize, w[i] = Times(u[i], v[i])
      PROVE  w[i + 1] = Times(u[i + 1], v[i + 1])
  <2> DEFINE d == Linear(Roots[i])
  <2>1. i \in 0..(ProofSize - 1) /\ i \in 0..ProofSize
    BY <1>2, SizeIs
  <2>2. /\ u[i + 1] = IF i \in I THEN Times(u[i], d) ELSE u[i]
        /\ v[i + 1] = IF i \in J THEN Times(v[i], d) ELSE v[i]
        /\ w[i + 1] = IF i \in I \cup J THEN Times(w[i], d) ELSE w[i]
        /\ IsPoly(u[i]) /\ IsPoly(v[i])
    BY <2>1 DEF Vanishes
  <2>3. IsPoly(d)
    BY LinearOfRoot
  <2> HIDE DEF d
  <2>4. CASE i \in I
    <3>1. i \notin J
      BY <2>4
    <3>2. Times(Times(u[i], v[i]), d) = Times(u[i], Times(v[i], d))
          /\ Times(v[i], d) = Times(d, v[i])
          /\ Times(Times(u[i], d), v[i]) = Times(u[i], Times(d, v[i]))
      BY <2>2, <2>3, TimesAssociates, TimesCommutes
    <3> QED
      BY <1>2, <2>2, <2>4, <3>1, <3>2
  <2>5. CASE i \in J
    <3>1. i \notin I
      BY <2>5
    <3>2. Times(Times(u[i], v[i]), d) = Times(u[i], Times(v[i], d))
      BY <2>2, <2>3, TimesAssociates
    <3> QED
      BY <1>2, <2>2, <2>5, <3>1, <3>2
  <2>6. CASE i \notin I \cup J
    BY <1>2, <2>2, <2>6
  <2> QED
    BY <2>4, <2>5, <2>6
<1>3. \A i \in S : i + 1 \in S
  <2>1. \A i \in Nat : i + 1 \in Nat /\ (i + 1 <= ProofSize => i <= ProofSize)
    BY SizeIs
  <2> QED
    BY <1>2, <2>1
<1>4. ProofSize \in S
  <2>1. S \in SUBSET Nat
    OBVIOUS
  <2> HIDE DEF S
  <2> QED
    BY <1>1, <1>3, <2>1, SizeIs, Induct
<1> QED
  BY <1>4, SizeIs

\* A factor that is not among those of the vanishing polynomial divides the cofactor.
LEMMA VanishingPrime ==
    ASSUME NEW I, NEW w, Vanishes(w, I), NEW t \in 0..(ProofSize - 1)
    PROVE  \A i \in 0..ProofSize : \A g :
               IsPoly(g) /\ (t \in I => t >= i) /\ Divides(Linear(Roots[t]), Times(w[i], g)) =>
                   Divides(Linear(Roots[t]), g)
<1> DEFINE Prime(i) == \A g :
               IsPoly(g) /\ (t \in I => t >= i) /\ Divides(Linear(Roots[t]), Times(w[i], g)) =>
                   Divides(Linear(Roots[t]), g)
           S == {i \in Nat : i <= ProofSize => Prime(i)}
<1>1. 0 \in S
  BY TimesOne DEF Vanishes
<1>2. ASSUME NEW i \in Nat, i + 1 <= ProofSize, Prime(i)
      PROVE  Prime(i + 1)
  <2> SUFFICES ASSUME NEW g, IsPoly(g), t \in I => t >= i + 1,
                      Divides(Linear(Roots[t]), Times(w[i + 1], g))
               PROVE  Divides(Linear(Roots[t]), g)
    OBVIOUS
  <2>1. i \in 0..(ProofSize - 1) /\ i \in 0..ProofSize /\ t \in Nat /\ (t \in I => t >= i)
    BY <1>2, SizeIs
  <2>2. w[i + 1] = (IF i \in I THEN Times(w[i], Linear(Roots[i])) ELSE w[i]) /\ IsPoly(w[i])
    BY <2>1 DEF Vanishes
  <2>3. CASE i \notin I
    BY <1>2, <2>1, <2>2, <2>3
  <2>4. CASE i \in I
    <3> DEFINE d == Linear(Roots[i])
    <3>1. i # t
      BY <2>1, <2>4
    <3>2. IsPoly(d)
      BY LinearOfRoot
    <3>3. Times(Times(w[i], d), g) = Times(w[i], Times(d, g)) /\ IsPoly(Times(d, g))
      BY <2>2, <3>2, TimesAssociates, PolyTypes
    <3>4. Divides(Linear(Roots[t]), Times(w[i], Times(d, g)))
      BY <2>2, <2>4, <3>3
    <3>5. Divides(Linear(Roots[t]), Times(d, g))
      BY <1>2, <2>1, <3>3, <3>4
    <3>6. Roots[i] \in Field /\ Roots[t] \in Field /\ Roots[t] # Roots[i]
      BY <2>1, <3>1, LinearOfRoot, RootsAre
    <3> QED
      BY <3>5, <3>6, LinearPrime
  <2> QED
    BY <2>3, <2>4
<1>3. \A i \in S : i + 1 \in S
  <2> HIDE DEF Prime
  <2>1. \A i \in Nat : i + 1 \in Nat /\ (i + 1 <= ProofSize => i <= ProofSize)
    BY SizeIs
  <2> QED
    BY <1>2, <2>1
<1>4. \A i \in Nat : i \in S
  <2>1. S \in SUBSET Nat
    OBVIOUS
  <2> HIDE DEF S
  <2> QED
    BY <1>1, <1>3, <2>1, Induct
<1>5. \A i \in 0..ProofSize : Prime(i)
  <2> HIDE DEF Prime
  <2> QED
    BY <1>4, SizeIs
<1> QED
  BY <1>5

\* What each factor divides the vanishing polynomial divides.
LEMMA VanishingDivides ==
    ASSUME NEW I \in SUBSET (0..(ProofSize - 1)), NEW w, Vanishes(w, I), NEW f, IsPoly(f),
           \A t \in I : Divides(Linear(Roots[t]), f)
    PROVE  Divides(w[ProofSize], f)
<1> DEFINE S == {i \in Nat : i <= ProofSize => Divides(w[i], f)}
<1>1. 0 \in S
  BY TimesOne DEF Vanishes, Divides
<1>2. ASSUME NEW i \in Nat, i + 1 <= ProofSize, Divides(w[i], f)
      PROVE  Divides(w[i + 1], f)
  <2>1. i \in 0..(ProofSize - 1) /\ i \in 0..ProofSize
    BY <1>2, SizeIs
  <2>2. w[i + 1] = (IF i \in I THEN Times(w[i], Linear(Roots[i])) ELSE w[i]) /\ IsPoly(w[i])
    BY <2>1 DEF Vanishes
  <2>3. CASE i \notin I
    BY <1>2, <2>2, <2>3
  <2>4. CASE i \in I
    <3> DEFINE d == Linear(Roots[i])
    <3>1. PICK g : IsPoly(g) /\ f = Times(w[i], g)
      BY <1>2 DEF Divides
    <3>2. Divides(d, Times(w[i], g))
      BY <2>4, <3>1
    <3>3. IsPoly(d)
      BY LinearOfRoot
    <3>4. i \in I => i >= i
      BY <2>1
    <3>5. Divides(d, g)
      BY <2>1, <3>1, <3>2, <3>4, VanishingPrime
    <3>6. PICK h : IsPoly(h) /\ g = Times(d, h)
      BY <3>5 DEF Divides
    <3> HIDE DEF d
    <3>7. Times(w[i], Times(d, h)) = Times(Times(w[i], d), h)
      BY <2>2, <3>3, <3>6, TimesAssociates
    <3>8. f = Times(w[i + 1], h)
      BY <2>2, <2>4, <3>1, <3>6, <3>7 DEF d
    <3> QED
      BY <3>6, <3>8 DEF Divides
  <2> QED
    BY <2>3, <2>4
<1>3. \A i \in S : i + 1 \in S
  <2>1. \A i \in Nat : i + 1 \in Nat /\ (i + 1 <= ProofSize => i <= ProofSize)
    BY SizeIs
  <2> QED
    BY <1>2, <2>1
<1>4. ProofSize \in S
  <2>1. S \in SUBSET Nat
    OBVIOUS
  <2> HIDE DEF S
  <2> QED
    BY <1>1, <1>3, <2>1, SizeIs, Induct
<1> QED
  BY <1>4, SizeIs

-----------------------------------------------------------------------------
(* The cofactors *)

\* What X^n - 1, times the i-th element, is divided by X minus that element.
CofactorTerms(i) ==
    [k \in Nat |-> IF k < ProofSize THEN Roots[(ProofSize - k) * i] ELSE 0]

Cofactor(i) == Poly([k \in 1..ProofSize |-> CofactorTerms(i)[k - 1]])

LEMMA CofactorIs ==
    ASSUME NEW i \in Nat
    PROVE  /\ IsPoly(Cofactor(i)) /\ CofactorTerms(i) \in Series
           /\ \A k \in Nat : CofactorTerms(i)[k] \in Field
           /\ \A k \in Nat : Coef(Cofactor(i))[k] = CofactorTerms(i)[k]
<1> DEFINE f == CofactorTerms(i)
           s == [k \in 1..ProofSize |-> f[k - 1]]
<1>1. \A k \in Nat : f[k] \in Field
  <2> TAKE k \in Nat
  <2>1. CASE k < ProofSize
    <3>1. (ProofSize - k) * i \in Nat
      <4>1. PICK m \in Nat : m = ProofSize - k
        BY <2>1, SizeIs
      <4>2. m * i \in Nat
        OBVIOUS
      <4> QED
        BY <4>1, <4>2
    <3>2. Roots[(ProofSize - k) * i] \in Field
      BY <3>1, LinearOfRoot
    <3> QED
      BY <2>1, <3>2 DEF CofactorTerms
  <2>2. CASE ~(k < ProofSize)
    BY <2>2, ZeroInField DEF CofactorTerms
  <2> QED
    BY <2>1, <2>2
<1>2. IsTerms(s, f, ProofSize)
  <2>1. \A k \in Nat : k >= ProofSize => f[k] = 0
    BY SizeIs DEF CofactorTerms
  <2> HIDE DEF f
  <2>2. DOMAIN s = 1..ProofSize /\ s = [k \in 1..ProofSize |-> s[k]]
        /\ \A k \in 1..ProofSize : s[k] = f[k - 1]
    OBVIOUS
  <2> HIDE DEF s
  <2> QED
    BY <1>1, <2>1, <2>2, SizeIs DEF IsTerms
<1>3. Cofactor(i) = Poly(s)
  BY DEF Cofactor
<1>4. f \in Series
  <2>1. f = [k \in Nat |-> f[k]]
    BY DEF CofactorTerms
  <2>2. \A k \in Nat : f[k] \in Int
    BY <1>1, InField
  <2> HIDE DEF f
  <2> QED
    BY <2>1, <2>2 DEF Series
<1> HIDE DEF s, f
<1>5. IsPoly(Poly(s)) /\ \A n \in Nat : Coef(Poly(s))[n] = f[n]
  BY <1>2, PolyOfTerms
<1> QED
  BY <1>1, <1>3, <1>4, <1>5 DEF f

LEMMA CofactorTimes ==
    ASSUME NEW i \in Nat
    PROVE  Times(Linear(Roots[i]), Cofactor(i)) = Scale(Proof!z_h, Roots[i])
<1> DEFINE x == Roots[i]
           f == CofactorTerms(i)
<1>1. x \in Field /\ x \in Int /\ x \in 1..(P - 1) /\ P \in Nat \ {0}
  BY LinearOfRoot, FieldIs
<1>2. /\ f \in Series /\ \A k \in Nat : f[k] \in Field
      /\ Represents(Cofactor(i), f)
  <2>1. /\ IsPoly(Cofactor(i)) /\ f \in Series /\ \A k \in Nat : f[k] \in Field
        /\ \A k \in Nat : Coef(Cofactor(i))[k] = f[k]
    BY CofactorIs
  <2> HIDE DEF f
  <2> QED
    BY <2>1, InField DEF Represents
<1>3. f[0] = 1 /\ f[ProofSize - 1] = x /\ \A k \in Nat : k >= ProofSize => f[k] = 0
  <2>1. Roots[ProofSize * i] = 1
    BY RootsAre
  <2>2. f[0] = Roots[ProofSize * i]
    <3>1. 0 < ProofSize /\ ProofSize - 0 = ProofSize
      BY SizeIs
    <3> QED
      BY <3>1 DEF CofactorTerms
  <2>3. f[ProofSize - 1] = x
    <3>1. ProofSize - 1 \in Nat /\ ProofSize - 1 < ProofSize /\ ProofSize - (ProofSize - 1) = 1
          /\ 1 * i = i
      BY SizeIs
    <3> QED
      BY <3>1 DEF CofactorTerms
  <2>4. \A k \in Nat : k >= ProofSize => f[k] = 0
    BY SizeIs DEF CofactorTerms
  <2> QED
    BY <2>1, <2>2, <2>3, <2>4
<1>4. ASSUME NEW k \in Nat, k + 1 < ProofSize
      PROVE  f[k] = (x * f[k + 1]) % P
  <2>1. PICK m \in Nat : m = ProofSize - (k + 1)
    BY <1>4, SizeIs
  <2>2. ProofSize - k = m + 1 /\ k < ProofSize /\ k + 1 \in Nat
    BY <1>4, <2>1, SizeIs
  <2>3. (m + 1) * i = i + m * i /\ m * i \in Nat
    OBVIOUS
  <2>4. f[k] = Roots[i + m * i] /\ f[k + 1] = Roots[m * i]
    BY <1>4, <2>1, <2>2, <2>3 DEF CofactorTerms
  <2>5. ProofRoot \in Int /\ P > 1 /\ P \in Nat
    BY ProofAssumption, FieldIs
  <2>6. \A j \in Nat : Roots[i + j] = (Roots[i] * Roots[j]) % P
    BY <2>5, RootsAre, PowerPlus
  <2> QED
    BY <2>3, <2>4, <2>6
<1>5. /\ Product(LinearSeries(x), f)[0] = (-x) * f[0]
      /\ \A k \in Nat : Product(LinearSeries(x), f)[k + 1] = (-x) * f[k + 1] + f[k]
  BY <1>1, <1>2, ProductOfLinear
<1>6. Represents(Times(Linear(x), Cofactor(i)), Product(LinearSeries(x), f))
  BY <1>1, <1>2, LinearIs, RepresentsTimes
<1>7. Represents(Scale(Proof!z_h, x), ScaleSeries(x, VanishingSeries))
  BY <1>1, VanishingIs, RepresentsScale
<1> HIDE DEF x, f
<1>8. ASSUME NEW k \in Nat
      PROVE  SameMod(Product(LinearSeries(x), f)[k], ScaleSeries(x, VanishingSeries)[k], P)
  <2>1. ScaleSeries(x, VanishingSeries)[k] = x * VanishingSeries[k]
    BY DEF ScaleSeries
  <2>2. CASE k = 0
    <3>1. VanishingSeries[0] = 0 - 1 /\ (-x) * 1 = x * (0 - 1)
      BY <1>1 DEF VanishingSeries
    <3> QED
      BY <1>3, <1>5, <2>1, <2>2, <3>1 DEF SameMod
  <2>3. CASE k # 0
    <3>1. PICK j \in Nat : k = j + 1
      <4>1. k - 1 \in Nat /\ k = (k - 1) + 1
        BY <2>3
      <4> QED
        BY <4>1
    <3>2. Product(LinearSeries(x), f)[k] = (-x) * f[k] + f[j]
      BY <1>5, <3>1
    <3>3. CASE k < ProofSize
      <4>1. VanishingSeries[k] = 0 /\ x * 0 = 0
        BY <1>1, <2>3, <3>3, SizeIs DEF VanishingSeries
      <4>2. f[j] = (x * f[k]) % P
        BY <1>4, <3>1, <3>3
      <4>3. PICK y \in Int : y = f[k]
        BY <1>2, InField
      <4>4. PICK u \in Int : u = x * y
        BY <1>1
      <4>5. PICK v \in Int : v = (-x) * y /\ v = -u
        BY <1>1, <4>4
      <4>6. ((u % P) + v) % P = (u + v) % P
        BY <1>1, ModPlus
      <4>7. u + v = 0 /\ u % P \in Int /\ v + (u % P) = (u % P) + v
        <5>1. u % P \in Int
          BY <1>1, Remainder
        <5> QED
          BY <4>5, <5>1
      <4> QED
        BY <2>1, <3>2, <4>1, <4>2, <4>3, <4>4, <4>5, <4>6, <4>7 DEF SameMod
    <3>4. CASE k = ProofSize
      <4>1. VanishingSeries[k] = 1 /\ x * 1 = x /\ (-x) * 0 + x = x
        BY <1>1, <2>3, <3>4 DEF VanishingSeries
      <4>2. f[k] = 0 /\ f[j] = x
        <5>1. j = ProofSize - 1 /\ k >= ProofSize
          BY <3>1, <3>4, SizeIs
        <5> QED
          BY <1>3, <5>1
      <4> QED
        BY <2>1, <3>2, <4>1, <4>2 DEF SameMod
    <3>5. CASE k > ProofSize
      <4>1. VanishingSeries[k] = 0 /\ x * 0 = 0 /\ (-x) * 0 + 0 = 0
        BY <1>1, <2>3, <3>5, SizeIs DEF VanishingSeries
      <4>2. f[k] = 0 /\ f[j] = 0
        <5>1. j >= ProofSize /\ k >= ProofSize
          BY <3>1, <3>5, SizeIs
        <5> QED
          BY <1>3, <5>1
      <4> QED
        BY <2>1, <3>2, <4>1, <4>2 DEF SameMod
    <3> QED
      BY <3>3, <3>4, <3>5, SizeIs
  <2> QED
    BY <2>2, <2>3
<1> QED
  BY <1>6, <1>7, <1>8, RepresentsOne DEF x

\* Each factor divides X^n - 1, and the cofactor of every other.
LEMMA FactorsDivide ==
    ASSUME NEW t \in 0..(ProofSize - 1)
    PROVE  /\ Divides(Linear(Roots[t]), Proof!z_h)
           /\ \A i \in 0..(ProofSize - 1) : i # t => Divides(Linear(Roots[t]), Cofactor(i))
<1>1. t \in Nat /\ 0..(ProofSize - 1) \subseteq Nat
  BY SizeIs
<1>2. IsPoly(Proof!z_h)
  BY VanishingIs DEF Represents
<1>3. \A i \in Nat : /\ Roots[i] \in 1..(P - 1) /\ Roots[i] \in Field /\ Roots[i] \in Int
                     /\ IsPoly(Linear(Roots[i])) /\ IsPoly(Cofactor(i))
  BY LinearOfRoot, CofactorIs
<1>4. Divides(Linear(Roots[t]), Scale(Proof!z_h, Roots[t]))
  BY <1>1, <1>3, CofactorTimes DEF Divides
<1>5. Divides(Linear(Roots[t]), Proof!z_h)
  BY <1>1, <1>2, <1>3, <1>4, DividesScaled
<1>6. ASSUME NEW i \in 0..(ProofSize - 1), i # t
      PROVE  Divides(Linear(Roots[t]), Cofactor(i))
  <2>1. i \in Nat
    BY <1>1
  <2>2. Divides(Linear(Roots[t]), Scale(Proof!z_h, Roots[i]))
    BY <1>1, <1>2, <1>3, <1>5, <2>1, DividesMore
  <2>3. Divides(Linear(Roots[t]), Times(Linear(Roots[i]), Cofactor(i)))
    BY <2>1, <2>2, CofactorTimes
  <2>4. Roots[t] # Roots[i]
    BY <1>6, RootsAre
  <2> QED
    BY <1>1, <1>3, <2>1, <2>3, <2>4, LinearPrime
<1> QED
  BY <1>5, <1>6

\* All factors together make X^n - 1.
LEMMA VanishingOfAll ==
    ASSUME NEW w, Vanishes(w, 0..(ProofSize - 1))
    PROVE  w[ProofSize] = Proof!z_h
<1> DEFINE z == Proof!z_h
           v == w[ProofSize]
<1>1. IsPoly(z) /\ z # <<>> /\ Len(z) = ProofSize + 1 /\ z[ProofSize + 1] = 1
  BY VanishingIs DEF Represents
<1>2. ProofSize \in 0..ProofSize /\ 0..(ProofSize - 1) \in SUBSET (0..(ProofSize - 1))
      /\ (0..(ProofSize - 1)) \cap (0..(ProofSize - 1)) = 0..(ProofSize - 1)
  BY SizeIs
<1>3. Cardinality(0..(ProofSize - 1)) = ProofSize
  <2>1. 0 <= ProofSize - 1 /\ (ProofSize - 1) - 0 + 1 = ProofSize /\ ProofSize - 1 \in Int
    BY SizeIs
  <2> QED
    BY <2>1, FS_Interval
<1>4. IsMonic(v, ProofSize)
  BY <1>2, <1>3, VanishingMonic
<1>5. IsPoly(v) /\ v # <<>> /\ Len(v) = ProofSize + 1 /\ v[ProofSize + 1] = 1
  BY <1>4 DEF IsMonic
<1>6. Divides(v, z)
  BY <1>1, <1>2, FactorsDivide, VanishingDivides
<1>7. PICK g : IsPoly(g) /\ z = Times(v, g)
  BY <1>6 DEF Divides
<1> HIDE DEF z, v
<1>8. g # <<>>
  BY <1>1, <1>5, <1>7, EmptyTerms
<1>9. /\ Len(g) \in Nat \ {0} /\ g[Len(g)] \in Field
      /\ Len(z) = Len(v) + Len(g) - 1
      /\ z[Len(v) + Len(g) - 1] = (v[Len(v)] * g[Len(g)]) % P
  BY <1>5, <1>7, <1>8, LeadingCoefficient
<1>10. Len(g) = 1
  <2>1. \A c \in Nat : ProofSize + 1 = (ProofSize + 1) + c - 1 => c = 1
    BY SizeIs
  <2>2. ProofSize + 1 = (ProofSize + 1) + Len(g) - 1
    BY <1>1, <1>5, <1>9
  <2> QED
    BY <1>9, <2>1, <2>2
<1>11. g[1] = 1
  <2>1. ProofSize + 1 + 1 - 1 = ProofSize + 1
    BY SizeIs
  <2>2. z[ProofSize + 1] = (1 * g[1]) % P
    BY <1>5, <1>9, <1>10, <2>1
  <2>3. (1 * g[1]) % P = g[1]
    BY <1>9, <1>10, InField
  <2> QED
    BY <1>1, <2>2, <2>3
<1>12. g = <<1>>
  <2>1. g \in Seq(Field)
    BY <1>7, PolyIsSeq
  <2> QED
    BY <1>10, <1>11, <2>1
<1>13. z = v
  BY <1>5, <1>7, <1>12, TimesOne
<1> QED
  BY <1>13 DEF z, v

-----------------------------------------------------------------------------
(* Interpolation *)

\* Nothing is left of zero times a polynomial.
LEMMA ScaleZero ==
    ASSUME NEW p, IsPoly(p)
    PROVE  Scale(p, 0) = <<>>
<1>1. p \in Seq(Field) /\ 0 \in Int
  BY PolyIsSeq
<1>2. IsPoly(Scale(p, 0)) /\ \A n \in Nat : Coef(Scale(p, 0))[n] = (Coef(p)[n] * 0) % P
  BY <1>1, ScalePoly
<1>3. \A n \in Nat : Coef(p)[n] \in Int
  BY <1>1, CoefIs, InField
<1>4. \A n \in Nat : Coef(Scale(p, 0))[n] = Coef(<<>>)[n]
  BY <1>2, <1>3, EmptyPoly, RemainderOne
<1> QED
  BY <1>2, <1>4, EmptyPoly, SamePoly

Values == [0..(ProofSize - 1) -> Field]

\* The sums that interpolate makes for the k-th coefficient.
IsWeighted(w, values, k) ==
    w = [i \in 0..ProofSize |->
            IF i = 0 THEN 0
            ELSE w[i - 1] + values[i - 1] * Proof!element((ProofSize - k + 1) * (i - 1))]

Weighted(values, k) == CHOOSE w : IsWeighted(w, values, k)

LEMMA WeightedIs ==
    ASSUME NEW values \in Values, NEW k \in 1..ProofSize
    PROVE  /\ Weighted(values, k)[0] = 0
           /\ \A i \in 0..ProofSize : Weighted(values, k)[i] \in Int
           /\ \A i \in 0..(ProofSize - 1) :
                  Weighted(values, k)[i + 1]
                      = Weighted(values, k)[i] + values[i] * CofactorTerms(i)[k - 1]
<1> DEFINE u == [i \in 1..ProofSize |-> values[i - 1] * CofactorTerms(i - 1)[k - 1]]
<1>1. k - 1 \in Nat /\ k - 1 < ProofSize /\ ProofSize - k + 1 = ProofSize - (k - 1)
  BY SizeIs
<1>2. ASSUME NEW i \in 0..(ProofSize - 1)
      PROVE  /\ values[i] \in Int /\ CofactorTerms(i)[k - 1] \in Int
             /\ CofactorTerms(i)[k - 1] = Proof!element((ProofSize - k + 1) * i)
  <2>1. i \in Nat
    BY SizeIs
  <2>2. values[i] \in Int
    BY InField DEF Values
  <2>3. CofactorTerms(i)[k - 1] \in Int
    BY <1>1, <2>1, CofactorIs, InField
  <2>4. PICK m \in Nat : m = ProofSize - (k - 1)
    BY <1>1, SizeIs
  <2>5. m * i \in Nat
    BY <2>1
  <2>6. CofactorTerms(i)[k - 1] = Roots[m * i]
    BY <1>1, <2>4 DEF CofactorTerms
  <2>7. Roots[m * i] = Proof!element(m * i)
    BY <2>5, RootsAre
  <2> QED
    BY <1>1, <2>2, <2>3, <2>4, <2>6, <2>7
<1>3. u \in [1..ProofSize -> Int]
  <2>1. ASSUME NEW i \in 1..ProofSize
        PROVE  values[i - 1] * CofactorTerms(i - 1)[k - 1] \in Int
    <3>1. i - 1 \in 0..(ProofSize - 1)
      BY SizeIs
    <3>2. values[i - 1] \in Int /\ CofactorTerms(i - 1)[k - 1] \in Int
      BY <1>2, <3>1
    <3> QED
      BY <3>2
  <2> QED
    BY <2>1
<1>4. \A i \in 1..ProofSize : u[i] = values[i - 1] * CofactorTerms(i - 1)[k - 1]
  OBVIOUS
<1> HIDE DEF u
<1>5. PICK v \in [0..ProofSize -> Int] :
          v = [i \in 0..ProofSize |-> IF i = 0 THEN 0 ELSE v[i - 1] + u[i]]
  BY <1>3, SizeIs, RunningSum
<1>6. IsWeighted(v, values, k)
  <2>1. ASSUME NEW i \in 0..ProofSize
        PROVE  v[i] = IF i = 0 THEN 0
                      ELSE v[i - 1] + values[i - 1] * Proof!element((ProofSize - k + 1) * (i - 1))
    <3>1. v[i] = IF i = 0 THEN 0 ELSE v[i - 1] + u[i]
      BY <1>5
    <3>2. CASE i # 0
      <4>1. i \in 1..ProofSize /\ i - 1 \in 0..(ProofSize - 1)
        BY <3>2, SizeIs
      <4>2. u[i] = values[i - 1] * Proof!element((ProofSize - k + 1) * (i - 1))
        BY <1>2, <1>4, <4>1
      <4> QED
        BY <3>1, <3>2, <4>2
    <3> QED
      BY <3>1, <3>2
  <2>2. v = [i \in 0..ProofSize |-> v[i]]
    OBVIOUS
  <2> QED
    BY <2>1, <2>2 DEF IsWeighted
<1> DEFINE w == Weighted(values, k)
<1>7. IsWeighted(w, values, k)
  BY <1>6 DEF Weighted
<1> HIDE DEF w
<1>8. w[0] = 0
  BY <1>7, SizeIs DEF IsWeighted
<1>9. ASSUME NEW i \in 0..(ProofSize - 1)
      PROVE  w[i + 1] = w[i] + values[i] * CofactorTerms(i)[k - 1]
  <2>1. i + 1 \in 0..ProofSize /\ i + 1 # 0 /\ (i + 1) - 1 = i
    BY SizeIs
  <2>2. w[i + 1] = w[i] + values[i] * Proof!element((ProofSize - k + 1) * i)
    BY <1>7, <2>1 DEF IsWeighted
  <2> QED
    BY <1>2, <2>2
<1> DEFINE S == {i \in Nat : i <= ProofSize => w[i] \in Int}
<1>10. 0 \in S
  BY <1>8
<1>11. \A i \in S : i + 1 \in S
  <2>1. ASSUME NEW i \in Nat, i + 1 <= ProofSize, w[i] \in Int
        PROVE  w[i + 1] \in Int
    <3>1. i \in 0..(ProofSize - 1)
      BY <2>1, SizeIs
    <3>2. values[i] * CofactorTerms(i)[k - 1] \in Int
      BY <1>2, <3>1
    <3> QED
      BY <1>9, <2>1, <3>1, <3>2
  <2>2. \A i \in Nat : i + 1 \in Nat /\ (i + 1 <= ProofSize => i <= ProofSize)
    BY SizeIs
  <2> QED
    BY <2>1, <2>2
<1>12. \A i \in Nat : i \in S
  <2>1. S \in SUBSET Nat
    OBVIOUS
  <2> HIDE DEF S
  <2> QED
    BY <1>10, <1>11, <2>1, Induct
<1>13. \A i \in 0..ProofSize : w[i] \in Int
  BY <1>12, SizeIs
<1> QED
  BY <1>8, <1>9, <1>13 DEF w

\* What the first m values contribute.
Partial(values, m) ==
    Poly([k \in 1..ProofSize |-> (Inv(ProofSize) * Weighted(values, k)[m]) % P])

\* In the end all values have contributed.
LEMMA InterpolateIs ==
    ASSUME NEW values
    PROVE  Proof!interpolate(values) = Partial(values, ProofSize)
<1>1. Proof!interpolate(values)
          = Proof!Poly([k \in 1..ProofSize |->
                            (Proof!Inv(ProofSize) * Weighted(values, k)[ProofSize]) % P])
  BY DEF Proof!interpolate, Weighted, IsWeighted
<1>2. \A s : Proof!Poly(s) = Poly(s)
  BY ProofOperators
<1>3. Proof!Inv(ProofSize) = Inv(ProofSize)
  BY ProofOperators
<1> QED
  BY <1>1, <1>2, <1>3 DEF Partial

\* The number of elements has an inverse.
LEMMA InvSize == Inv(ProofSize) \in Int /\ (ProofSize * Inv(ProofSize)) % P = 1
<1>1. Inv(ProofSize) \in 1..(P - 1) /\ (ProofSize * Inv(ProofSize)) % P = 1
  BY SizeIs, InvIs
<1> QED
  BY <1>1

\* Each value contributes its cofactor, n times too large.
LEMMA PartialIs ==
    ASSUME NEW values \in Values, NEW m \in 0..ProofSize
    PROVE  /\ IsPoly(Partial(values, m)) /\ Len(Partial(values, m)) <= ProofSize
           /\ \A k \in Nat : Coef(Partial(values, m))[k]
                  = IF k < ProofSize THEN (Inv(ProofSize) * Weighted(values, k + 1)[m]) % P ELSE 0
<1> DEFINE f == [k \in Nat |-> IF k < ProofSize
                               THEN (Inv(ProofSize) * Weighted(values, k + 1)[m]) % P ELSE 0]
           s == [k \in 1..ProofSize |-> (Inv(ProofSize) * Weighted(values, k)[m]) % P]
<1>1. ASSUME NEW k \in Nat, k < ProofSize
      PROVE  (Inv(ProofSize) * Weighted(values, k + 1)[m]) % P \in Field
  <2>1. k + 1 \in 1..ProofSize
    BY <1>1, SizeIs
  <2>2. Weighted(values, k + 1)[m] \in Int
    BY <2>1, WeightedIs
  <2>3. Inv(ProofSize) * Weighted(values, k + 1)[m] \in Int
    BY <2>2, InvSize
  <2> QED
    BY <2>3, IntoField
<1>2. /\ \A k \in Nat : f[k] \in Field
      /\ \A k \in Nat : k >= ProofSize => f[k] = 0
  BY <1>1, ZeroInField, SizeIs
<1>3. \A k \in 1..ProofSize : s[k] = f[k - 1]
  <2> TAKE k \in 1..ProofSize
  <2>1. k - 1 \in Nat /\ k - 1 < ProofSize /\ (k - 1) + 1 = k
    BY SizeIs
  <2> QED
    BY <2>1
<1>4. \A k \in Nat : f[k] = IF k < ProofSize
                            THEN (Inv(ProofSize) * Weighted(values, k + 1)[m]) % P ELSE 0
  OBVIOUS
<1>5. DOMAIN s = 1..ProofSize /\ s = [k \in 1..ProofSize |-> s[k]]
  OBVIOUS
<1>6. Partial(values, m) = Poly(s)
  BY DEF Partial
<1> HIDE DEF f, s
<1>7. IsTerms(s, f, ProofSize)
  BY <1>2, <1>3, <1>5, SizeIs DEF IsTerms
<1>8. IsPoly(Poly(s)) /\ (\A n \in Nat : Coef(Poly(s))[n] = f[n]) /\ Len(Poly(s)) <= ProofSize
  BY <1>7, PolyOfTerms
<1> QED
  BY <1>4, <1>6, <1>8

LEMMA PartialZero ==
    ASSUME NEW values \in Values
    PROVE  Partial(values, 0) = <<>>
<1>1. 0 \in 0..ProofSize
  BY SizeIs
<1>2. /\ IsPoly(Partial(values, 0))
      /\ \A k \in Nat : Coef(Partial(values, 0))[k]
             = IF k < ProofSize THEN (Inv(ProofSize) * Weighted(values, k + 1)[0]) % P ELSE 0
  BY <1>1, PartialIs
<1>3. ASSUME NEW k \in Nat
      PROVE  Coef(Partial(values, 0))[k] = Coef(<<>>)[k]
  <2>1. CASE k < ProofSize
    <3>1. k + 1 \in 1..ProofSize
      BY <2>1, SizeIs
    <3>2. Weighted(values, k + 1)[0] = 0 /\ Inv(ProofSize) * 0 = 0
      BY <3>1, WeightedIs, InvSize
    <3> QED
      BY <1>2, <2>1, <3>2, EmptyPoly, RemainderOne
  <2> QED
    BY <1>2, <2>1, EmptyPoly
<1> QED
  BY <1>2, <1>3, EmptyPoly, SamePoly

LEMMA PartialGrows ==
    ASSUME NEW values \in Values, NEW m \in 0..(ProofSize - 1)
    PROVE  /\ Inv(ProofSize) * values[m] \in Int
           /\ Partial(values, m + 1)
                  = Plus(Partial(values, m), Scale(Cofactor(m), Inv(ProofSize) * values[m]))
<1> DEFINE x == Inv(ProofSize) * values[m]
<1>1. m \in Nat /\ m \in 0..ProofSize /\ m + 1 \in 0..ProofSize
  BY SizeIs
<1>2. values[m] \in Int /\ Inv(ProofSize) \in Int /\ x \in Int /\ P \in Nat \ {0}
  <2>1. values[m] \in Int
    BY InField DEF Values
  <2> QED
    BY <2>1, InvSize, FieldIs
<1>3. /\ IsPoly(Cofactor(m)) /\ CofactorTerms(m) \in Series
      /\ \A k \in Nat : CofactorTerms(m)[k] \in Field
      /\ \A k \in Nat : Coef(Cofactor(m))[k] = CofactorTerms(m)[k]
  BY <1>1, CofactorIs
<1>4. /\ IsPoly(Partial(values, m)) /\ IsPoly(Partial(values, m + 1))
      /\ \A k \in Nat : Coef(Partial(values, m))[k]
             = IF k < ProofSize THEN (Inv(ProofSize) * Weighted(values, k + 1)[m]) % P ELSE 0
      /\ \A k \in Nat : Coef(Partial(values, m + 1))[k]
             = IF k < ProofSize THEN (Inv(ProofSize) * Weighted(values, k + 1)[m + 1]) % P ELSE 0
  BY <1>1, PartialIs
<1>5. x = Inv(ProofSize) * values[m]
  OBVIOUS
<1> HIDE DEF x
<1>6. /\ IsPoly(Scale(Cofactor(m), x))
      /\ \A k \in Nat : Coef(Scale(Cofactor(m), x))[k] = (CofactorTerms(m)[k] * x) % P
  <2>1. Cofactor(m) \in Seq(Field)
    BY <1>3, PolyIsSeq
  <2>2. /\ IsPoly(Scale(Cofactor(m), x))
        /\ \A k \in Nat : Coef(Scale(Cofactor(m), x))[k] = (Coef(Cofactor(m))[k] * x) % P
    BY <1>2, <2>1, ScalePoly
  <2> QED
    BY <1>3, <2>2
<1>7. /\ IsPoly(Plus(Partial(values, m), Scale(Cofactor(m), x)))
      /\ \A k \in Nat : Coef(Plus(Partial(values, m), Scale(Cofactor(m), x)))[k]
             = (Coef(Partial(values, m))[k] + Coef(Scale(Cofactor(m), x))[k]) % P
  BY <1>4, <1>6, PolyIsSeq, PlusPoly
<1>8. ASSUME NEW k \in Nat
      PROVE  Coef(Plus(Partial(values, m), Scale(Cofactor(m), x)))[k]
               = Coef(Partial(values, m + 1))[k]
  <2>1. CASE k < ProofSize
    <3>1. k + 1 \in 1..ProofSize /\ (k + 1) - 1 = k
      BY <2>1, SizeIs
    <3>2. /\ Weighted(values, k + 1)[m] \in Int
          /\ Weighted(values, k + 1)[m + 1]
                 = Weighted(values, k + 1)[m] + values[m] * CofactorTerms(m)[k]
      BY <1>1, <3>1, WeightedIs
    <3>3. PICK h \in Int : h = Weighted(values, k + 1)[m]
      BY <3>2
    <3>4. PICK c \in Int : c = CofactorTerms(m)[k]
      BY <1>3, InField
    <3>5. PICK v \in Int : v = values[m]
      BY <1>2
    <3>6. PICK y \in Int : y = Inv(ProofSize)
      BY <1>2
    <3>7. y * (h + v * c) = y * h + c * x /\ y * h \in Int /\ c * x \in Int
      <4>1. x = y * v
        BY <1>5, <3>5, <3>6
      <4>2. y * (h + v * c) = y * h + c * (y * v)
        OBVIOUS
      <4> QED
        BY <1>2, <4>1, <4>2
    <3>8. PICK s \in Int : s = y * h
      BY <3>7
    <3>9. PICK t \in Int : t = c * x
      BY <3>7
    <3>10. ((s % P) + (t % P)) % P = (s + t) % P
      <4>1. s % P \in Int /\ t % P \in Int
        BY <1>2, Remainder
      <4>2. ((s % P) + (t % P)) % P = (s + (t % P)) % P
        BY <1>2, <4>1, ModPlus
      <4>3. s + (t % P) = (t % P) + s /\ s + t = t + s
        BY <4>1
      <4>4. ((t % P) + s) % P = (t + s) % P
        BY <1>2, ModPlus
      <4> QED
        BY <4>2, <4>3, <4>4
    <3>11. Coef(Partial(values, m))[k] = s % P
      BY <1>4, <2>1, <3>3, <3>6, <3>8
    <3>12. Coef(Scale(Cofactor(m), x))[k] = t % P
      BY <1>6, <3>4, <3>9
    <3>13. Coef(Partial(values, m + 1))[k] = (s + t) % P
      BY <1>4, <2>1, <3>2, <3>3, <3>4, <3>5, <3>6, <3>7, <3>8, <3>9
    <3> QED
      BY <1>7, <3>10, <3>11, <3>12, <3>13
  <2>2. CASE ~(k < ProofSize)
    <3>1. CofactorTerms(m)[k] = 0 /\ 0 * x = 0 /\ 0 + 0 = 0
      BY <1>2, <2>2 DEF CofactorTerms
    <3> QED
      BY <1>4, <1>6, <1>7, <2>2, <3>1, RemainderOne
  <2> QED
    BY <2>1, <2>2
<1>9. Partial(values, m + 1) = Plus(Partial(values, m), Scale(Cofactor(m), x))
  BY <1>4, <1>7, <1>8, SamePoly
<1> QED
  BY <1>2, <1>5, <1>9

\* What is interpolated has n coefficients at most.
LEMMA InterpolatePoly ==
    ASSUME NEW values \in Values
    PROVE  IsPoly(Proof!interpolate(values)) /\ Len(Proof!interpolate(values)) <= ProofSize
<1>1. ProofSize \in 0..ProofSize
  BY SizeIs
<1> QED
  BY <1>1, InterpolateIs, PartialIs

\* An element with the value zero is a root.
LEMMA RootOfInterpolated ==
    ASSUME NEW values \in Values, NEW t \in 0..(ProofSize - 1), values[t] = 0
    PROVE  Divides(Linear(Roots[t]), Proof!interpolate(values))
<1> DEFINE d == Linear(Roots[t])
           S == {m \in Nat : m <= ProofSize => Divides(d, Partial(values, m))}
<1>1. t \in Nat /\ IsPoly(d)
  BY SizeIs, LinearOfRoot
<1>2. 0 \in S
  BY <1>1, PartialZero, DividesEmpty
<1>3. ASSUME NEW m \in Nat, m + 1 <= ProofSize, Divides(d, Partial(values, m))
      PROVE  Divides(d, Partial(values, m + 1))
  <2>1. m \in 0..(ProofSize - 1) /\ m \in 0..ProofSize
    BY <1>3, SizeIs
  <2>2. PICK x \in Int : x = Inv(ProofSize) * values[m]
    BY <2>1, PartialGrows
  <2>3. Partial(values, m + 1) = Plus(Partial(values, m), Scale(Cofactor(m), x))
    BY <2>1, <2>2, PartialGrows
  <2>4. IsPoly(Partial(values, m)) /\ IsPoly(Cofactor(m)) /\ IsPoly(Scale(Cofactor(m), x))
    BY <2>1, PartialIs, CofactorIs, PolyTypes
  <2>5. Divides(d, Scale(Cofactor(m), x))
    <3>1. CASE m = t
      <4>1. x = 0
        BY <2>2, <3>1, InvSize
      <4> QED
        BY <1>1, <2>4, <4>1, ScaleZero, DividesEmpty
    <3>2. CASE m # t
      <4>1. Divides(d, Cofactor(m))
        BY <2>1, <3>2, FactorsDivide
      <4> QED
        BY <1>1, <2>4, <4>1, DividesMore
    <3> QED
      BY <3>1, <3>2
  <2> QED
    BY <1>1, <1>3, <2>3, <2>4, <2>5, DividesMore
<1>4. \A m \in S : m + 1 \in S
  <2> HIDE DEF d
  <2>1. \A m \in Nat : m + 1 \in Nat /\ (m + 1 <= ProofSize => m <= ProofSize)
    BY SizeIs
  <2> QED
    BY <1>3, <2>1
<1>5. ProofSize \in S
  <2>1. S \in SUBSET Nat
    OBVIOUS
  <2> HIDE DEF S
  <2> QED
    BY <1>2, <1>4, <2>1, SizeIs, Induct
<1>6. Divides(d, Partial(values, ProofSize))
  BY <1>5, SizeIs
<1> QED
  BY <1>6, InterpolateIs

\* The values on I, and zero elsewhere.
Chosen(values, I) == [i \in 0..(ProofSize - 1) |-> IF i \in I THEN values[i] ELSE 0]

LEMMA ChosenIs ==
    ASSUME NEW values \in Values, NEW I
    PROVE  Chosen(values, I) \in Values
BY ZeroInField DEF Chosen, Values

\* What is interpolated on a set and on its complement adds up.
LEMMA InterpolatedParts ==
    ASSUME NEW values \in Values, NEW I
    PROVE  Proof!interpolate(values)
               = Plus(Proof!interpolate(Chosen(values, I)),
                      Proof!interpolate(Chosen(values, (0..(ProofSize - 1)) \ I)))
<1> DEFINE u == Chosen(values, I)
           v == Chosen(values, (0..(ProofSize - 1)) \ I)
           S == {m \in Nat : m <= ProofSize =>
                     Partial(values, m) = Plus(Partial(u, m), Partial(v, m))}
<1>1. u \in Values /\ v \in Values
  BY ChosenIs
<1>2. \A i \in 0..(ProofSize - 1) : \/ u[i] = values[i] /\ v[i] = 0
                                    \/ u[i] = 0 /\ v[i] = values[i]
  BY DEF Chosen
<1> HIDE DEF u, v
<1>3. 0 \in S
  <2>1. Partial(values, 0) = <<>> /\ Partial(u, 0) = <<>> /\ Partial(v, 0) = <<>>
    BY <1>1, PartialZero
  <2>2. Plus(<<>>, <<>>) = <<>>
    BY EmptyPoly, EmptyTerms
  <2> QED
    BY <2>1, <2>2
<1>4. ASSUME NEW m \in Nat, m + 1 <= ProofSize,
             Partial(values, m) = Plus(Partial(u, m), Partial(v, m))
      PROVE  Partial(values, m + 1) = Plus(Partial(u, m + 1), Partial(v, m + 1))
  <2>1. m \in 0..(ProofSize - 1) /\ m \in 0..ProofSize
    BY <1>4, SizeIs
  <2> DEFINE y == Inv(ProofSize)
             T(x) == Scale(Cofactor(m), y * x)
  <2>2. /\ y * values[m] \in Int
        /\ Partial(values, m + 1) = Plus(Partial(values, m), T(values[m]))
        /\ Partial(u, m + 1) = Plus(Partial(u, m), T(u[m]))
        /\ Partial(v, m + 1) = Plus(Partial(v, m), T(v[m]))
    BY <1>1, <2>1, PartialGrows
  <2>3. IsPoly(Cofactor(m)) /\ IsPoly(Partial(u, m)) /\ IsPoly(Partial(v, m))
    BY <1>1, <2>1, CofactorIs, PartialIs
  <2>4. T(0) = <<>>
    <3>1. y * 0 = 0
      BY InvSize
    <3> QED
      BY <2>3, <3>1, ScaleZero
  <2>5. IsPoly(T(values[m]))
    BY <2>2, <2>3, PolyTypes
  <2> DEFINE t == T(values[m])
             f == Partial(u, m)
             g == Partial(v, m)
  <2>6. T(values[m]) = t
    OBVIOUS
  <2> HIDE DEF T, t, f, g
  <2>7. Plus(f, <<>>) = f /\ Plus(g, <<>>) = g
    BY <2>3, EmptyTerms DEF f, g
  <2>8. Plus(Plus(f, g), t) = Plus(f, Plus(g, t))
    BY <2>3, <2>5, <2>6, PlusAssociates DEF f, g
  <2>9. Plus(Plus(f, g), t) = Plus(Plus(f, t), g)
    <3>1. Plus(g, t) = Plus(t, g)
      BY <2>3, <2>5, <2>6, PlusCommutes DEF g
    <3>2. Plus(Plus(f, t), g) = Plus(f, Plus(t, g))
      BY <2>3, <2>5, <2>6, PlusAssociates DEF f, g
    <3> QED
      BY <2>8, <3>1, <3>2
  <2>10. Partial(values, m + 1) = Plus(Plus(f, g), t)
    BY <1>4, <2>2, <2>6 DEF f, g
  <2>11. Partial(u, m + 1) = Plus(f, T(u[m])) /\ Partial(v, m + 1) = Plus(g, T(v[m]))
    BY <2>2 DEF f, g
  <2>12. CASE u[m] = values[m] /\ v[m] = 0
    BY <2>4, <2>6, <2>7, <2>9, <2>10, <2>11, <2>12
  <2>13. CASE u[m] = 0 /\ v[m] = values[m]
    BY <2>4, <2>6, <2>7, <2>8, <2>10, <2>11, <2>13
  <2> QED
    BY <1>2, <2>1, <2>12, <2>13
<1>5. \A m \in S : m + 1 \in S
  <2>1. \A m \in Nat : m + 1 \in Nat /\ (m + 1 <= ProofSize => m <= ProofSize)
    BY SizeIs
  <2> QED
    BY <1>4, <2>1
<1>6. ProofSize \in S
  <2>1. S \in SUBSET Nat
    OBVIOUS
  <2> HIDE DEF S
  <2> QED
    BY <1>3, <1>5, <2>1, SizeIs, Induct
<1>7. Partial(values, ProofSize) = Plus(Partial(u, ProofSize), Partial(v, ProofSize))
  BY <1>6, SizeIs
<1> QED
  BY <1>7, InterpolateIs DEF u, v

-----------------------------------------------------------------------------
(* The quotients of a proof *)

\* What there is to know of the vanishing polynomial of a set of indices: h is what it divides
\* X^n - 1 to, and g what it divides the polynomial of the other values to.
IsCovered(I, values, z, h, g) ==
    /\ IsMonic(z, Cardinality(I)) /\ Cardinality(I) \in 0..ProofSize
    /\ IsPoly(h) /\ Len(h) <= ProofSize + 1
    /\ IsPoly(g) /\ Len(g) <= ProofSize
    /\ Times(z, h) = Proof!z_h /\ Proof!Quotient(Proof!z_h, z) = h
    /\ Times(z, g) = Proof!interpolate(Chosen(values, (0..(ProofSize - 1)) \ I))
    /\ Proof!Quotient(Proof!interpolate(Chosen(values, (0..(ProofSize - 1)) \ I)), z) = g

\* There are no more indices than elements.
LEMMA CardinalityOfIndices ==
    ASSUME NEW I \in SUBSET (0..(ProofSize - 1))
    PROVE  IsFiniteSet(I) /\ Cardinality(I) \in 0..ProofSize
<1>1. 0 <= ProofSize - 1 /\ (ProofSize - 1) - 0 + 1 = ProofSize /\ ProofSize - 1 \in Int
  BY SizeIs
<1>2. IsFiniteSet(0..(ProofSize - 1)) /\ Cardinality(0..(ProofSize - 1)) = ProofSize
  BY <1>1, FS_Interval
<1>3. IsFiniteSet(I) /\ Cardinality(I) <= ProofSize
  BY <1>2, FS_Subset
<1>4. Cardinality(I) \in Nat
  BY <1>3, FS_CardinalityType
<1> QED
  BY <1>3, <1>4, SizeIs

LEMMA VanishingOfSet ==
    ASSUME NEW I \in SUBSET (0..(ProofSize - 1))
    PROVE  IsMonic(Proof!Vanishing(I), Cardinality(I))
<1>1. PICK w : Vanishes(w, I) /\ Proof!Vanishing(I) = w[ProofSize]
  BY VanishingProduct
<1>2. ProofSize \in 0..ProofSize
  BY SizeIs
<1>3. I \cap (0..(ProofSize - 1)) = I
  OBVIOUS
<1> QED
  BY <1>1, <1>2, <1>3, VanishingMonic

\* The factor of a product that is not longer than k is not longer than k.
LEMMA FactorLength ==
    ASSUME NEW z, IsPoly(z), z # <<>>, NEW g, IsPoly(g), NEW k \in Nat, Len(Times(z, g)) <= k
    PROVE  Len(g) <= k
<1>1. CASE g = <<>>
  BY <1>1
<1>2. CASE g # <<>>
  <2>1. Len(z) \in Nat \ {0} /\ Len(g) \in Nat \ {0} /\ Len(Times(z, g)) = Len(z) + Len(g) - 1
    BY <1>2, LeadingCoefficient
  <2>2. \A x, y \in Nat \ {0} : x + y - 1 <= k => y <= k
    OBVIOUS
  <2> QED
    BY <2>1, <2>2
<1> QED
  BY <1>1, <1>2

\* There are such quotients for every set of indices.
LEMMA CoveredSet ==
    ASSUME NEW I \in SUBSET (0..(ProofSize - 1)), NEW values \in Values
    PROVE  \E h, g : IsCovered(I, values, Proof!Vanishing(I), h, g)
<1> DEFINE z == Proof!Vanishing(I)
           J == (0..(ProofSize - 1)) \ I
           f == Proof!interpolate(Chosen(values, J))
           h == Proof!Vanishing(J)
<1>1. IsMonic(z, Cardinality(I)) /\ Cardinality(I) \in 0..ProofSize
  BY VanishingOfSet, CardinalityOfIndices
<1>2. IsPoly(z) /\ z # <<>>
  BY <1>1 DEF IsMonic
<1>3. IsPoly(h)
  <2>1. J \in SUBSET (0..(ProofSize - 1))
    OBVIOUS
  <2> HIDE DEF J
  <2> QED
    BY <2>1, VanishingOfSet DEF IsMonic
<1>4. PICK u : Vanishes(u, I) /\ z = u[ProofSize]
  BY VanishingProduct
<1>5. PICK v : Vanishes(v, J) /\ h = v[ProofSize]
  BY VanishingProduct
<1>6. PICK w : Vanishes(w, 0..(ProofSize - 1)) /\ w[ProofSize] = Proof!z_h
  BY VanishingProduct, VanishingOfAll
<1>7. Times(z, h) = Proof!z_h
  <2>1. I \cap J = {} /\ I \cup J = 0..(ProofSize - 1)
    OBVIOUS
  <2> HIDE DEF J, z, h
  <2>2. Vanishes(w, I \cup J)
    BY <1>6, <2>1
  <2> QED
    BY <1>4, <1>5, <1>6, <2>1, <2>2, VanishingOfUnion
<1>8. IsPoly(f) /\ Len(f) <= ProofSize
  BY ChosenIs, InterpolatePoly
<1>9. Divides(z, f)
  <2>1. ASSUME NEW t \in I
        PROVE  Divides(Linear(Roots[t]), f)
    <3>1. Chosen(values, J)[t] = 0 /\ t \in 0..(ProofSize - 1)
      BY DEF Chosen
    <3> HIDE DEF J
    <3> QED
      BY <3>1, ChosenIs, RootOfInterpolated
  <2> HIDE DEF z, f
  <2> QED
    BY <1>4, <1>8, <2>1, VanishingDivides
<1>10. PICK g : IsPoly(g) /\ f = Times(z, g)
  BY <1>9 DEF Divides
<1> HIDE DEF z, f, h, J
<1>11. Proof!Quotient(Proof!z_h, z) = h /\ Proof!Quotient(f, z) = g
  BY <1>2, <1>3, <1>7, <1>10, ExactQuotient
<1>12. Len(Times(z, h)) <= ProofSize + 1 /\ ProofSize + 1 \in Nat
  BY <1>7, VanishingIs, SizeIs
<1>13. Len(h) <= ProofSize + 1 /\ Len(g) <= ProofSize
  BY <1>2, <1>3, <1>8, <1>10, <1>12, FactorLength, SizeIs
<1>14. IsCovered(I, values, z, h, g)
  BY <1>1, <1>3, <1>7, <1>10, <1>11, <1>13 DEF IsCovered, f, J
<1> QED
  BY <1>14 DEF z

-----------------------------------------------------------------------------
(* The two sides of a pairing check *)

\* Zeros before a polynomial multiply it by a power of X.
LEMMA TimesMonomial ==
    ASSUME NEW z, IsPoly(z), NEW x \in Field, NEW k \in Nat
    PROVE  /\ Times(z, Monomial(x, k)) = Scale(Poly([i \in 1..k |-> 0] \o z), x)
           /\ IsPoly(Poly([i \in 1..k |-> 0] \o z))
           /\ Len(Poly([i \in 1..k |-> 0] \o z)) <= k + Len(z)
<1> DEFINE zeros == [i \in 1..k |-> 0]
           s == zeros \o z
           f == Coef(z)
           g == ScaleSeries(x, Shift(One, k))
<1>1. z \in Seq(Field) /\ zeros \in Seq(Field) /\ Len(zeros) = k /\ Len(z) \in Nat
  BY PolyIsSeq, ZeroInField
<1>2. s \in Seq(Field) /\ Len(s) = k + Len(z)
  BY <1>1
<1>3. \A i \in 1..(k + Len(z)) : s[i] = IF i <= k THEN 0 ELSE z[i - k]
  BY <1>1
<1>4. IsPoly(Poly(s)) /\ Coef(Poly(s)) = Coef(s) /\ Len(Poly(s)) <= Len(s)
  BY <1>2, PolyIs
<1>5. f \in Series /\ \A n \in Nat : f[n] \in Field
  BY <1>1, CoefIs
<1>6. Shift(f, k) \in Series
  BY <1>5, ShiftIs
<1>7. ASSUME NEW n \in Nat
      PROVE  Coef(s)[n] = Shift(f, k)[n] /\ Shift(f, k)[n] \in Field
  <2>1. CASE n < k
    <3>1. Shift(f, k)[n] = 0
      BY <1>5, <2>1, ShiftIs
    <3>2. n < Len(s) /\ n + 1 \in 1..(k + Len(z)) /\ n + 1 <= k
      BY <1>1, <1>2, <2>1
    <3>3. Coef(s)[n] = s[n + 1]
      BY <1>2, <3>2, CoefIs
    <3> QED
      BY <1>3, <3>1, <3>2, <3>3, ZeroInField
  <2>2. CASE ~(n < k)
    <3>1. PICK m \in Nat : m = n - k
      BY <2>2
    <3>2. Shift(f, k)[n] = f[m]
      BY <1>5, <2>2, <3>1, ShiftIs
    <3>3. CASE m < Len(z)
      <4>1. n < Len(s) /\ n + 1 \in 1..(k + Len(z)) /\ ~(n + 1 <= k) /\ (n + 1) - k = m + 1
        BY <1>1, <1>2, <2>2, <3>1, <3>3
      <4>2. Coef(s)[n] = s[n + 1]
        BY <1>2, <4>1, CoefIs
      <4>3. s[n + 1] = z[m + 1]
        BY <1>3, <4>1
      <4>4. f[m] = z[m + 1]
        BY <1>1, <3>3, CoefIs
      <4> QED
        BY <1>5, <3>2, <4>2, <4>3, <4>4
    <3>4. CASE ~(m < Len(z))
      <4>1. ~(n < Len(s))
        BY <1>1, <1>2, <2>2, <3>1, <3>4
      <4>2. Coef(s)[n] = 0 /\ f[m] = 0
        BY <1>1, <1>2, <3>4, <4>1, CoefIs
      <4> QED
        BY <1>5, <3>2, <4>2
    <3> QED
      BY <3>3, <3>4
  <2> QED
    BY <2>1, <2>2
<1> HIDE DEF s, f, zeros
<1>8. Represents(Poly(s), Shift(f, k))
  <2>1. ASSUME NEW n \in Nat PROVE Coef(Poly(s))[n] = Shift(f, k)[n] % P
    BY <1>4, <1>7, InField
  <2> QED
    BY <1>4, <1>6, <2>1 DEF Represents
<1>9. Represents(z, f) /\ Represents(Monomial(x, k), g) /\ x \in Int
  BY RepresentsItself, MonomialIs, InField DEF f
<1>10. Represents(Times(z, Monomial(x, k)), Product(f, g))
  BY <1>9, RepresentsTimes
<1>11. Represents(Scale(Poly(s), x), ScaleSeries(x, Shift(f, k)))
  BY <1>8, <1>9, RepresentsScale
<1>12. Product(f, g) = ScaleSeries(x, Shift(f, k))
  <2>1. One \in Series /\ Shift(One, k) \in Series
    BY OneIs, ShiftIs
  <2>2. g \in Series /\ ScaleSeries(x, Shift(f, k)) \in Series
        /\ \A n \in Nat : ScaleSeries(x, Shift(f, k))[n] = x * Shift(f, k)[n]
    BY <1>6, <1>9, <2>1, ScaleIs
  <2>3. Product(f, g) = Product(g, f) /\ Product(g, f) \in Series
    BY <1>5, <2>2, ProductCommutes, ProductIs
  <2>4. \A n \in Nat : Product(g, f)[n] = x * Product(Shift(One, k), f)[n]
    BY <1>5, <1>9, <2>1, ProductOfScaled
  <2>5. Product(Shift(One, k), f) = Shift(f, k)
    BY <1>5, <2>1, ProductOfShift, ProductOfOne
  <2> QED
    BY <2>2, <2>3, <2>4, <2>5, SameSeries
<1>13. Times(z, Monomial(x, k)) = Scale(Poly(s), x)
  BY <1>10, <1>11, <1>12, RepresentsSame
<1> QED
  BY <1>2, <1>4, <1>13 DEF s, zeros

\* The products of a blinded vanishing polynomial and the quotients divided by its blinder.
LEMMA BlindedQuotients ==
    ASSUME NEW z, IsPoly(z), NEW h, IsPoly(h), NEW g, IsPoly(g),
           NEW x \in Int, NEW y \in Int, SameMod(x * y, 1, P), NEW e \in Field
    PROVE  /\ Times(Scale(z, x), Scale(h, y)) = Times(z, h)
           /\ Times(Scale(z, x), Minus(Scale(g, y), Poly(<<e>>)))
                  = Minus(Times(z, g), Scale(Scale(z, x), e))
<1>1. ASSUME NEW u, IsPoly(u)
      PROVE  Times(Scale(z, x), Scale(u, y)) = Times(z, u)
  <2>1. IsPoly(Scale(z, x)) /\ IsPoly(Times(z, u)) /\ IsPoly(Scale(u, y))
    BY <1>1, PolyTypes
  <2>2. Times(Scale(z, x), Scale(u, y)) = Scale(Times(Scale(z, x), u), y)
    BY <1>1, <2>1, ScaleOfProduct
  <2>3. Times(Scale(z, x), u) = Scale(Times(z, u), x)
    BY <1>1, ScaleOfProduct
  <2>4. Scale(Scale(Times(z, u), x), y) = Scale(Times(z, u), 1)
    BY <2>1, ScaleTwice
  <2>5. Scale(Times(z, u), 1) = Times(z, u)
    BY <2>1, ScaleOne
  <2> QED
    BY <2>2, <2>3, <2>4, <2>5
<1> DEFINE Z == Scale(z, x)
           G == Scale(g, y)
           c == Poly(<<e>>)
<1>2. IsPoly(Z) /\ IsPoly(G)
  BY PolyTypes
<1>3. IsPoly(c)
  BY ConstantIs DEF Represents
<1>4. Times(Z, G) = Times(z, g)
  BY <1>1
<1>5. Times(Z, c) = Scale(Z, e)
  BY <1>2, TimesConstant
<1> HIDE DEF Z, G, c
<1>6. P - 1 \in Int
  BY FieldIs
<1>7. IsPoly(Scale(c, P - 1))
  BY <1>3, <1>6, PolyTypes
<1>8. Times(Z, Plus(G, Scale(c, P - 1))) = Plus(Times(Z, G), Times(Z, Scale(c, P - 1)))
  BY <1>2, <1>7, TimesDistributes
<1>9. Times(Z, Scale(c, P - 1)) = Scale(Times(Z, c), P - 1)
  BY <1>2, <1>3, <1>6, ScaleOfProduct
<1>10. Times(Z, Minus(G, c)) = Minus(Times(z, g), Scale(Z, e))
  BY <1>4, <1>5, <1>8, <1>9 DEF Minus
<1> QED
  BY <1>1, <1>10 DEF Z, G, c

\* What is left of a sum when a masked summand is taken away.
LEMMA Unmasked ==
    ASSUME NEW o, IsPoly(o), NEW f, IsPoly(f), NEW z, IsPoly(z),
           NEW x \in Int, NEW y \in Int, SameMod(y * x, 1, P),
           NEW s \in Int, NEW e \in Int, SameMod(s * x, e, P)
    PROVE  Minus(Plus(o, f), Scale(Plus(Scale(o, y), Scale(z, s)), x)) = Minus(f, Scale(z, e))
<1>1. IsPoly(Scale(o, y)) /\ IsPoly(Scale(z, s)) /\ IsPoly(Scale(z, e))
  BY PolyTypes
<1>2. Scale(Plus(Scale(o, y), Scale(z, s)), x)
          = Plus(Scale(Scale(o, y), x), Scale(Scale(z, s), x))
  BY <1>1, ScaleOfSum
<1>3. Scale(Scale(o, y), x) = Scale(o, 1) /\ Scale(o, 1) = o
  BY ScaleTwice, ScaleOne
<1>4. Scale(Scale(z, s), x) = Scale(z, e)
  BY ScaleTwice
<1> DEFINE u == Scale(z, e)
<1> HIDE DEF u
<1>5. Scale(Plus(Scale(o, y), Scale(z, s)), x) = Plus(o, u) /\ IsPoly(u)
  BY <1>1, <1>2, <1>3, <1>4 DEF u
<1>6. P - 1 \in Int
  BY FieldIs
<1>7. Scale(Plus(o, u), P - 1) = Plus(Scale(o, P - 1), Scale(u, P - 1))
  BY <1>5, <1>6, ScaleOfSum
<1> DEFINE no == Scale(o, P - 1)
           nu == Scale(u, P - 1)
<1>8. IsPoly(no) /\ IsPoly(nu)
  BY <1>5, <1>6, PolyTypes
<1>9. Minus(Plus(f, o), o) = f
  BY MinusCancels
<1>10. Minus(Plus(o, f), Plus(o, u)) = Plus(Plus(f, o), Plus(no, nu))
  BY <1>7, PlusCommutes DEF Minus
<1>11. Plus(Plus(f, o), no) = f
  BY <1>9 DEF Minus
<1> HIDE DEF no, nu
<1>12. Plus(Plus(f, o), Plus(no, nu)) = Plus(Plus(Plus(f, o), no), nu)
  <2>1. IsPoly(Plus(f, o))
    BY PolyTypes
  <2> QED
    BY <1>8, <2>1, PlusAssociates
<1>13. Minus(f, u) = Plus(f, nu)
  BY DEF Minus, nu
<1> QED
  BY <1>5, <1>10, <1>11, <1>12, <1>13 DEF u

\* The sums that the checks are made of.
LEMMA SumOfThree ==
    ASSUME NEW x, IsPoly(x), NEW y, IsPoly(y), NEW z, IsPoly(z)
    PROVE  SumOf(<<x, y, z>>) = Plus(Plus(x, y), z)
<1> DEFINE ps == <<x, y, z>>
           v == [j \in 0..3 |-> IF j = 0 THEN <<>> ELSE IF j = 1 THEN x
                                ELSE IF j = 2 THEN Plus(x, y) ELSE Plus(Plus(x, y), z)]
<1>1. Len(ps) = 3 /\ ps[1] = x /\ ps[2] = y /\ ps[3] = z
  OBVIOUS
<1>2. v[0] = <<>> /\ v[1] = x /\ v[2] = Plus(x, y) /\ v[3] = Plus(Plus(x, y), z)
  OBVIOUS
<1> HIDE DEF v, ps
<1>3. Plus(<<>>, x) = x
  BY EmptyTerms
<1>4. \A j \in 1..3 : v[j] = Plus(v[j - 1], ps[j])
  <2> TAKE j \in 1..3
  <2>1. (j = 1 /\ j - 1 = 0) \/ (j = 2 /\ j - 1 = 1) \/ (j = 3 /\ j - 1 = 2)
    OBVIOUS
  <2> QED
    BY <1>1, <1>2, <1>3, <2>1
<1>5. Len(ps) \in Nat /\ \A j \in 1..Len(ps) : v[j] = Plus(v[j - 1], ps[j])
  BY <1>1, <1>4
<1>6. SumOf(ps) = v[Len(ps)]
  BY <1>2, <1>5, SumOfIs
<1> QED
  BY <1>1, <1>2, <1>6 DEF ps

\* z times a polynomial each is what the checks expect: p and t are the quotients, m the monomial
\* that is weighted with w.
Balances(z, p, t, m, h, u, x, w) ==
    /\ IsPoly(z) /\ IsPoly(p) /\ IsPoly(t) /\ IsPoly(m)
    /\ IsPoly(h) /\ IsPoly(u) /\ IsPoly(x) /\ w \in Int
    /\ Times(z, p) = h /\ Times(z, t) = u /\ Times(z, m) = Scale(x, w)

\* The first check: z times the quotients and the monomial is what they are made of.
LEMMA FirstCheck ==
    ASSUME NEW z, NEW p, NEW t, NEW m, NEW h, NEW u, NEW x, NEW w,
           Balances(z, p, t, m, h, u, x, w), NEW chi \in Int
    PROVE  /\ Times(z, Plus(Plus(p, Scale(t, chi)), m))
                  = SumOf(<<h, Scale(u, chi), Scale(x, w)>>)
           /\ IsPoly(SumOf(<<h, Scale(u, chi), Scale(x, w)>>))
           /\ IsPoly(Plus(p, Scale(t, chi)))
<1>0. /\ IsPoly(z) /\ IsPoly(p) /\ IsPoly(t) /\ IsPoly(m)
      /\ IsPoly(h) /\ IsPoly(u) /\ IsPoly(x) /\ w \in Int
      /\ Times(z, p) = h /\ Times(z, t) = u /\ Times(z, m) = Scale(x, w)
  BY DEF Balances
<1>1. IsPoly(Scale(t, chi)) /\ IsPoly(Scale(u, chi)) /\ IsPoly(Scale(x, w))
  BY <1>0, PolyTypes
<1>2. IsPoly(Plus(p, Scale(t, chi))) /\ IsPoly(Plus(h, Scale(u, chi)))
  BY <1>0, <1>1, PolyTypes
<1>3. Times(z, Scale(t, chi)) = Scale(u, chi)
  BY <1>0, ScaleOfProduct
<1>4. Times(z, Plus(p, Scale(t, chi))) = Plus(h, Scale(u, chi))
  BY <1>0, <1>1, <1>3, TimesDistributes
<1>5. Times(z, Plus(Plus(p, Scale(t, chi)), m)) = Plus(Plus(h, Scale(u, chi)), Scale(x, w))
  BY <1>0, <1>2, <1>4, TimesDistributes
<1>6. SumOf(<<h, Scale(u, chi), Scale(x, w)>>) = Plus(Plus(h, Scale(u, chi)), Scale(x, w))
  BY <1>0, <1>1, SumOfThree
<1> QED
  BY <1>0, <1>1, <1>2, <1>5, <1>6, PolyTypes

\* The later ones also carry the accumulator on from one subset to the next.
LEMMA LaterCheck ==
    ASSUME NEW z, NEW p, NEW t, NEW m, NEW h, NEW u, NEW x, NEW w,
           Balances(z, p, t, m, h, u, x, w), NEW chi \in Int, NEW y, IsPoly(y), NEW k \in Int
    PROVE  /\ Times(SumOf(<<Plus(p, Scale(t, chi)), m, Scale(y, k)>>), z)
                  = Plus(SumOf(<<h, Scale(u, chi), Scale(x, w)>>), Scale(Times(y, z), k))
           /\ IsPoly(Plus(SumOf(<<h, Scale(u, chi), Scale(x, w)>>), Scale(Times(y, z), k)))
<1>0. IsPoly(z) /\ IsPoly(m)
  BY DEF Balances
<1> DEFINE s == Plus(p, Scale(t, chi))
           c == SumOf(<<h, Scale(u, chi), Scale(x, w)>>)
<1>1. Times(z, Plus(s, m)) = c /\ IsPoly(c) /\ IsPoly(s)
  BY FirstCheck
<1> HIDE DEF s, c
<1>2. IsPoly(Plus(s, m)) /\ IsPoly(Scale(y, k)) /\ IsPoly(Times(y, z))
  BY <1>0, <1>1, PolyTypes
<1>3. SumOf(<<s, m, Scale(y, k)>>) = Plus(Plus(s, m), Scale(y, k))
  BY <1>0, <1>1, <1>2, SumOfThree
<1>4. Times(z, Plus(Plus(s, m), Scale(y, k))) = Plus(c, Times(z, Scale(y, k)))
  BY <1>0, <1>1, <1>2, TimesDistributes
<1>5. Times(z, Scale(y, k)) = Scale(Times(z, y), k) /\ Times(z, y) = Times(y, z)
  BY <1>0, ScaleOfProduct, TimesCommutes
<1>6. IsPoly(Plus(Plus(s, m), Scale(y, k)))
  BY <1>2, PolyTypes
<1>7. Times(Plus(Plus(s, m), Scale(y, k)), z) = Times(z, Plus(Plus(s, m), Scale(y, k)))
  BY <1>0, <1>6, TimesCommutes
<1>8. IsPoly(Scale(Times(y, z), k))
  BY <1>2, PolyTypes
<1>9. IsPoly(Plus(c, Scale(Times(y, z), k)))
  BY <1>1, <1>8, PolyTypes
<1>10. Times(SumOf(<<s, m, Scale(y, k)>>), z) = Plus(c, Scale(Times(y, z), k))
  BY <1>3, <1>4, <1>5, <1>7
<1> QED
  BY <1>9, <1>10 DEF s, c

\* The weights of check_pairings.
LEMMA PowerOfScalar == \A k \in Nat : power(TestScalar, k) \in Int
<1> DEFINE v == CHOOSE g : g = [k \in Nat |-> IF k = 0 THEN 1 ELSE (TestScalar * g[k - 1]) % P]
<1>1. TestScalar \in Int
  BY ProofAssumption, InField
<1>2. \A k \in Nat : power(TestScalar, k) = v[k]
  BY DEF power
<1>3. IsPower(v, TestScalar, P)
  BY <1>1, FieldIs, PowerIs
<1> HIDE DEF v
<1>4. \A k \in Nat : v[k] \in Int
  BY <1>3, FieldIs DEF IsPower
<1> QED
  BY <1>2, <1>4

\* When the two sides of every check are equal, so is what they add up to.
LEMMA ChecksPass ==
    ASSUME NEW k \in Nat, NEW pairings, DOMAIN pairings = 1..k,
           \A j \in 1..k : pairings[j].ab = pairings[j].c /\ IsPoly(pairings[j].c)
    PROVE  Proof!check_pairings(pairings)
<1> DEFINE ps == [j \in DOMAIN pairings |->
                     Scale(Minus(pairings[j].ab, pairings[j].c), power(TestScalar, j))]
           v == [j \in 0..k |-> <<>>]
<1>1. \A j \in 1..k : ps[j] = <<>>
  <2> TAKE j \in 1..k
  <2>1. PICK c : pairings[j].ab = c /\ pairings[j].c = c /\ IsPoly(c)
    OBVIOUS
  <2>2. Minus(c, c) = <<>>
    BY <2>1, MinusCancels
  <2>3. power(TestScalar, j) \in Int
    BY PowerOfScalar
  <2>4. Scale(<<>>, power(TestScalar, j)) = <<>>
    BY <2>3, EmptyPoly, EmptyTerms
  <2> QED
    BY <2>1, <2>2, <2>4
<1>2. Len(ps) = k
  OBVIOUS
<1>3. v[0] = <<>> /\ \A j \in 1..k : v[j] = <<>> /\ v[j - 1] = <<>>
  OBVIOUS
<1>4. v[k] = <<>>
  OBVIOUS
<1> HIDE DEF v
<1>5. Proof!check_pairings(pairings) <=> SumOf(ps) = <<>>
  BY ProofOperators DEF Proof!check_pairings
<1> HIDE DEF ps
<1>6. Plus(<<>>, <<>>) = <<>>
  BY EmptyPoly, EmptyTerms
<1>7. \A j \in 1..k : v[j] = Plus(v[j - 1], ps[j])
  BY <1>1, <1>3, <1>6
<1>8. Len(ps) \in Nat /\ \A j \in 1..Len(ps) : v[j] = Plus(v[j - 1], ps[j])
  BY <1>2, <1>7
<1>9. SumOf(ps) = v[Len(ps)]
  BY <1>3, <1>8, SumOfIs
<1> QED
  BY <1>2, <1>4, <1>5, <1>9

-----------------------------------------------------------------------------
(* The blinders multiply to 1 *)

\* There are no zero divisors.
LEMMA ProductNotZero ==
    ASSUME NEW x \in 1..(P - 1), NEW y \in 1..(P - 1)
    PROVE  (x * y) % P \in 1..(P - 1)
<1>1. P \in Nat \ {0} /\ IsField(P) /\ x \in Int /\ y \in Int /\ x * y \in Int
  BY FieldIs
<1>2. x % P = x /\ y % P = y
  BY <1>1, SmallRemainder
<1>3. (x * y) % P # 0
  <2> SUFFICES ASSUME (x * y) % P = 0
               PROVE  FALSE
    OBVIOUS
  <2>1. x % P # 0
    BY <1>2
  <2>2. y % P = 0
    BY <1>1, <2>1, NoZeroDivisors
  <2> QED
    BY <1>2, <2>2
<1>4. (x * y) % P \in 0..(P - 1)
  BY <1>1, Remainder
<1> QED
  BY <1>1, <1>3, <1>4

\* R[j] is the product of the first j numbers of e.
MultipliesUp(R, e, k) ==
    /\ R \in [0..k -> 1..(P - 1)]
    /\ R[0] = 1
    /\ \A j \in 0..(k - 1) : R[j + 1] = (R[j] * e[j + 1]) % P

LEMMA RunningProductExists ==
    ASSUME NEW k \in Nat, NEW e \in [1..k -> 1..(P - 1)]
    PROVE  \E R : MultipliesUp(R, e, k)
<1> DEFINE A == 1..(P - 1)
           factor(j) == IF j + 1 \in 1..k THEN e[j + 1] ELSE 1
           F == [j \in Nat |-> [y \in A |-> (y * factor(j)) % P]]
<1>1. 1 \in A
  BY FieldIs
<1>2. \A j \in Nat, y \in A : (y * factor(j)) % P \in A
  BY <1>1, ProductNotZero
<1>3. F \in [Nat -> [A -> A]]
  BY <1>2
<1>4. \A j \in Nat, y \in A : F[j][y] = (y * factor(j)) % P
  OBVIOUS
<1>5. \A j \in 0..(k - 1) : j \in Nat /\ factor(j) = e[j + 1]
  OBVIOUS
<1> HIDE DEF A, F, factor
<1>6. PICK f : Iterates(f, F, 1, A)
  BY <1>1, <1>3, Recursion
<1>7. f \in [Nat -> A] /\ f[0] = 1 /\ \A j \in Nat : f[j + 1] = F[j][f[j]]
  BY <1>6 DEF Iterates
<1> DEFINE R == [j \in 0..k |-> f[j]]
<1>8. R \in [0..k -> A] /\ R[0] = 1
  BY <1>7
<1>9. ASSUME NEW j \in 0..(k - 1)
      PROVE  R[j + 1] = (R[j] * e[j + 1]) % P
  <2>1. j \in Nat /\ j \in 0..k /\ j + 1 \in 0..k
    OBVIOUS
  <2>4. f[j] \in A
    BY <1>7, <2>1
  <2>2. f[j + 1] = (f[j] * factor(j)) % P
    BY <1>4, <1>7, <2>1
  <2>3. factor(j) = e[j + 1]
    BY <1>5
  <2> QED
    BY <2>1, <2>2, <2>3, <2>4
<1>10. MultipliesUp(R, e, k)
  BY <1>8, <1>9 DEF MultipliesUp, A
<1> QED
  BY <1>10

\* Constants multiply like numbers.
LEMMA ConstantTimes ==
    ASSUME NEW x \in 1..(P - 1), NEW y \in 1..(P - 1)
    PROVE  IsPoly(<<x>>) /\ Times(<<x>>, <<y>>) = <<(x * y) % P>>
<1> DEFINE z == (x * y) % P
<1>1. x \in Field /\ y \in Field /\ x # 0 /\ y # 0 /\ x \in Int /\ y \in Int
  BY FieldIs DEF Field
<1>2. z \in Field /\ z # 0
  <2>1. z \in 1..(P - 1)
    BY ProductNotZero
  <2> QED
    BY <2>1, FieldIs DEF Field
<1> HIDE DEF z
<1>3. IsPoly(<<x>>) /\ Poly(<<y>>) = <<y>> /\ Poly(<<z>>) = <<z>>
  BY <1>1, <1>2, ConstantIs
<1>4. Times(<<x>>, Poly(<<y>>)) = Scale(<<x>>, y)
  BY <1>1, <1>3, TimesConstant
<1>5. Scale(<<x>>, y) = Poly(<<z>>)
  <2> DEFINE s == <<x>>
  <2>1. DOMAIN s = 1..1 /\ s[1] = x
    OBVIOUS
  <2>2. [i \in DOMAIN s |-> (s[i] * y) % P] = <<z>>
    <3>1. [i \in DOMAIN s |-> (s[i] * y) % P] = [i \in 1..1 |-> z]
      BY <2>1 DEF z
    <3>2. [i \in 1..1 |-> z] = <<z>>
      OBVIOUS
    <3> QED
      BY <3>1, <3>2
  <2> QED
    BY <2>2 DEF Scale
<1> QED
  BY <1>3, <1>4, <1>5 DEF z

\* Functions on 1..k and sequences of length k.
LEMMA SequenceOf ==
    ASSUME NEW S, NEW k \in Nat, NEW s \in [1..k -> S]
    PROVE  DOMAIN s = 1..k /\ Len(s) = k /\ s \in Seq(S)
OBVIOUS

LEMMA FunctionOf ==
    ASSUME NEW S, NEW k \in Nat, NEW s \in Seq(S), Len(s) = k
    PROVE  s \in [1..k -> S]
OBVIOUS

\* With the last blinder, the inverse of the product of the others, all multiply to 1.
LEMMA BlindersMultiply ==
    ASSUME NEW k \in Nat \ {0}, NEW e \in [1..(k - 1) -> 1..(P - 1)], NEW g,
           g = Append(e, Inv(ProductOf([j \in DOMAIN e |-> <<e[j]>>])[1]))
    PROVE  g \in [1..k -> 1..(P - 1)] /\ \E R : MultipliesUp(R, g, k) /\ R[k] = 1
<1> DEFINE m == k - 1
           ps == [j \in DOMAIN e |-> <<e[j]>>]
<1>1. m \in Nat /\ m + 1 = k
  OBVIOUS
<1>3. e \in [1..m -> 1..(P - 1)]
  OBVIOUS
<1>4. g = Append(e, Inv(ProductOf(ps)[1]))
  OBVIOUS
<1> HIDE DEF m
<1>19. DOMAIN e = 1..m /\ Len(e) = m /\ e \in Seq(1..(P - 1))
  BY <1>1, <1>3, SequenceOf
<1>2. Len(ps) = m /\ \A j \in 1..m : ps[j] = <<e[j]>>
  BY <1>1, <1>19
<1> HIDE DEF ps
<1>5. PICK R : MultipliesUp(R, e, m)
  BY <1>1, <1>3, RunningProductExists
<1>6. /\ R \in [0..m -> 1..(P - 1)] /\ R[0] = 1
      /\ \A j \in 0..(m - 1) : R[j + 1] = (R[j] * e[j + 1]) % P
  BY <1>5 DEF MultipliesUp
<1> DEFINE v == [j \in 0..m |-> <<R[j]>>]
<1>7. \A j \in 0..m : v[j] = <<R[j]>>
  OBVIOUS
<1>8. v[0] = <<1>> /\ v[m] = <<R[m]>> /\ R[m] \in 1..(P - 1)
  BY <1>1, <1>6, <1>7
<1> HIDE DEF v
<1>9. ASSUME NEW j \in 1..m
      PROVE  v[j] = Times(v[j - 1], ps[j])
  <2>1. PICK i \in 0..(m - 1) : i = j - 1
    BY <1>1
  <2>2. i \in 0..m /\ i + 1 = j /\ R[i] \in 1..(P - 1) /\ e[j] \in 1..(P - 1)
    BY <1>1, <1>3, <1>6, <2>1
  <2>3. R[j] = (R[i] * e[j]) % P
    BY <1>6, <2>2
  <2>4. Times(<<R[i]>>, <<e[j]>>) = <<R[j]>>
    BY <2>2, <2>3, ConstantTimes
  <2>5. v[j - 1] = <<R[i]>> /\ v[j] = <<R[j]>> /\ ps[j] = <<e[j]>>
    <3>1. j \in 0..m
      BY <1>1
    <3> QED
      BY <1>2, <1>7, <2>1, <2>2, <3>1
  <2> QED
    BY <2>4, <2>5
<1>10. ProductOf(ps) = v[m]
  <2>1. Len(ps) \in Nat /\ \A j \in 1..Len(ps) : v[j] = Times(v[j - 1], ps[j])
    BY <1>1, <1>2, <1>9
  <2>2. ProductOf(ps) = v[Len(ps)]
    BY <1>8, <2>1, ProductOfIs
  <2> QED
    BY <1>2, <2>2
<1> DEFINE x == R[m]
           y == Inv(x)
<1>11. ProductOf(ps)[1] = x
  BY <1>8, <1>10
<1>12. y \in 1..(P - 1) /\ (x * y) % P = 1
  BY <1>8, InvIs
<1>13. g = Append(e, y)
  BY <1>4, <1>11
<1> HIDE DEF x, y
<1>14. g \in [1..k -> 1..(P - 1)] /\ g[k] = y /\ \A j \in 1..m : g[j] = e[j]
  <2>1. /\ Len(g) = m + 1 /\ g \in Seq(1..(P - 1)) /\ g[m + 1] = y
        /\ \A j \in 1..m : g[j] = e[j]
    BY <1>12, <1>13, <1>19
  <2> QED
    BY <1>1, <2>1, FunctionOf
<1> DEFINE T == [j \in 0..k |-> IF j = k THEN 1 ELSE R[j]]
<1>15. T \in [0..k -> 1..(P - 1)] /\ T[0] = 1 /\ T[k] = 1 /\ \A j \in 0..m : T[j] = R[j]
  <2>1. 1 \in 1..(P - 1)
    BY FieldIs
  <2>2. \A j \in 0..k : j # k => j \in 0..m
    BY <1>1
  <2>3. 0 # k /\ k \in 0..k /\ 0 \in 0..k /\ \A j \in 0..m : j \in 0..k /\ j # k
    BY <1>1
  <2> QED
    BY <1>6, <2>1, <2>2, <2>3
<1> HIDE DEF T
<1>16. ASSUME NEW j \in 0..(k - 1)
       PROVE  T[j + 1] = (T[j] * g[j + 1]) % P
  <2>1. CASE j = m
    BY <1>1, <1>12, <1>14, <1>15, <2>1 DEF x
  <2>2. CASE j # m
    <3>1. j \in 0..(m - 1) /\ j \in 0..m /\ j + 1 \in 0..m /\ j + 1 \in 1..m
      BY <1>1, <2>2
    <3> QED
      BY <1>6, <1>14, <1>15, <3>1
  <2> QED
    BY <2>1, <2>2
<1>17. MultipliesUp(T, g, k)
  BY <1>15, <1>16 DEF MultipliesUp
<1> QED
  BY <1>14, <1>15, <1>17

-----------------------------------------------------------------------------
(* The accumulators *)

AllIndices == 0..(ProofSize - 1)

\* Vanishing polynomials of disjoint sets, of no index and of all.
LEMMA VanishingTimes ==
    ASSUME NEW I, NEW J, I \cap J = {}
    PROVE  Proof!Vanishing(I \cup J) = Times(Proof!Vanishing(I), Proof!Vanishing(J))
<1>1. PICK u : Vanishes(u, I) /\ Proof!Vanishing(I) = u[ProofSize]
  BY VanishingProduct
<1>2. PICK v : Vanishes(v, J) /\ Proof!Vanishing(J) = v[ProofSize]
  BY VanishingProduct
<1>3. PICK w : Vanishes(w, I \cup J) /\ Proof!Vanishing(I \cup J) = w[ProofSize]
  BY VanishingProduct
<1>4. w[ProofSize] = Times(u[ProofSize], v[ProofSize])
  BY <1>1, <1>2, <1>3, VanishingOfUnion
<1> QED
  BY <1>1, <1>2, <1>3, <1>4

LEMMA VanishingNone == Proof!Vanishing({}) = <<1>>
<1>1. IsMonic(Proof!Vanishing({}), Cardinality({}))
  BY VanishingOfSet
<1>2. Cardinality({}) = 0
  BY FS_EmptySet
<1> DEFINE z == Proof!Vanishing({})
<1>3. IsMonic(z, 0)
  BY <1>1, <1>2
<1> HIDE DEF z
<1>4. z \in Seq(Field) /\ Len(z) = 1 /\ z[1] = 1
  BY <1>3, PolyIsSeq DEF IsMonic
<1>5. z = <<1>>
  BY <1>4
<1> QED
  BY <1>5 DEF z

LEMMA VanishingWhole == Proof!Vanishing(AllIndices) = Proof!z_h
<1>1. PICK w : Vanishes(w, AllIndices) /\ Proof!Vanishing(AllIndices) = w[ProofSize]
  BY VanishingProduct
<1> QED
  BY <1>1, VanishingOfAll DEF AllIndices

\* The k subsets of the indices are disjoint and nothing is left out.
IsPartition(subsets, k) ==
    /\ k \in Nat \ {0} /\ k < ProofSize
    /\ subsets \in [1..k -> SUBSET AllIndices]
    /\ \A i, j \in 1..k : i # j => subsets[i] \cap subsets[j] = {}
    /\ UNION {subsets[j] : j \in 1..k} = AllIndices

FirstOf(subsets, j) == UNION {subsets[i] : i \in 1..j}

\* What the first j blinded polynomials multiply to.
Accumulated(subsets, R, j) == Scale(Proof!Vanishing(FirstOf(subsets, j)), R[j])

BlindedOf(subsets, e, j) == Scale(Proof!Vanishing(subsets[j]), e[j])

\* Scalars of factors multiply.
LEMMA ScaledProduct ==
    ASSUME NEW p, IsPoly(p), NEW s, IsPoly(s), NEW x \in Int, NEW y \in Int, NEW z \in Int,
           SameMod(x * y, z, P)
    PROVE  Times(Scale(p, x), Scale(s, y)) = Scale(Times(p, s), z)
<1>1. IsPoly(Scale(p, x)) /\ IsPoly(Times(p, s))
  BY PolyTypes
<1>2. Times(Scale(p, x), Scale(s, y)) = Scale(Times(Scale(p, x), s), y)
  BY <1>1, ScaleOfProduct
<1>3. Times(Scale(p, x), s) = Scale(Times(p, s), x)
  BY ScaleOfProduct
<1>4. Scale(Scale(Times(p, s), x), y) = Scale(Times(p, s), z)
  BY <1>1, ScaleTwice
<1> QED
  BY <1>2, <1>3, <1>4

\* The accumulators grow by one blinded polynomial each, from 1 to X^n - 1.
LEMMA Accumulates ==
    ASSUME NEW subsets, NEW k, IsPartition(subsets, k),
           NEW e \in [1..k -> 1..(P - 1)], NEW R, MultipliesUp(R, e, k), R[k] = 1
    PROVE  /\ Accumulated(subsets, R, 0) = <<1>>
           /\ Accumulated(subsets, R, k) = Proof!z_h
           /\ \A j \in 0..k : IsPoly(Accumulated(subsets, R, j))
                              /\ Len(Accumulated(subsets, R, j)) <= ProofSize + 1
           /\ \A j \in 0..(k - 1) : Accumulated(subsets, R, j + 1)
                  = Times(Accumulated(subsets, R, j), BlindedOf(subsets, e, j + 1))
<1>1. /\ k \in Nat \ {0} /\ subsets \in [1..k -> SUBSET AllIndices]
      /\ \A i, j \in 1..k : i # j => subsets[i] \cap subsets[j] = {}
      /\ FirstOf(subsets, k) = AllIndices
  BY DEF IsPartition, FirstOf
<1>2. /\ R \in [0..k -> 1..(P - 1)] /\ R[0] = 1
      /\ \A j \in 0..(k - 1) : R[j + 1] = (R[j] * e[j + 1]) % P
  BY DEF MultipliesUp
<1>3. \A j \in 0..k : FirstOf(subsets, j) \in SUBSET AllIndices
  BY <1>1 DEF FirstOf
<1>4. ASSUME NEW j \in 0..k
      PROVE  IsPoly(Accumulated(subsets, R, j)) /\ Len(Accumulated(subsets, R, j)) <= ProofSize + 1
  <2> DEFINE I == FirstOf(subsets, j)
             z == Proof!Vanishing(I)
             x == R[j]
  <2>1. I \in SUBSET (0..(ProofSize - 1))
    BY <1>3 DEF AllIndices
  <2>2. x \in Int
    BY <1>2
  <2> HIDE DEF I, x
  <2>3. IsMonic(z, Cardinality(I)) /\ Cardinality(I) \in 0..ProofSize
    BY <2>1, VanishingOfSet, CardinalityOfIndices
  <2> HIDE DEF z
  <2>4. IsPoly(z) /\ Len(z) <= ProofSize + 1 /\ ProofSize + 1 \in Nat
    BY <2>3, SizeIs DEF IsMonic
  <2>5. IsPoly(Scale(z, x)) /\ Len(Scale(z, x)) <= ProofSize + 1
    BY <2>2, <2>4, PolyTypes, LengthsBounded
  <2> QED
    BY <2>5 DEF Accumulated, z, x, I
<1>5. Accumulated(subsets, R, 0) = <<1>>
  <2>1. FirstOf(subsets, 0) = {}
    BY DEF FirstOf
  <2>2. Scale(<<1>>, 1) = <<1>>
    BY OnePoly, ScaleOne
  <2> QED
    BY <1>2, <2>1, <2>2, VanishingNone DEF Accumulated
<1>6. Accumulated(subsets, R, k) = Proof!z_h
  <2>1. IsPoly(Proof!z_h)
    BY VanishingIs DEF Represents
  <2> QED
    BY <1>1, <2>1, VanishingWhole, ScaleOne DEF Accumulated
<1>7. ASSUME NEW j \in 0..(k - 1)
      PROVE  Accumulated(subsets, R, j + 1)
                 = Times(Accumulated(subsets, R, j), BlindedOf(subsets, e, j + 1))
  <2>1. j \in 0..k /\ j + 1 \in 1..k /\ j \in Nat
    BY <1>1
  <2> DEFINE I == FirstOf(subsets, j)
             J == subsets[j + 1]
             x == R[j]
             y == e[j + 1]
             z == R[j + 1]
  <2>2. I \cap J = {}
    <3>1. \A i \in 1..j : i \in 1..k /\ i # j + 1
      <4> HIDE DEF J
      <4>1. k \in Nat /\ j \in Nat /\ j + 1 \in 1..k
        BY <1>1, <2>1
      <4> QED
        BY <4>1
    <3>2. \A i \in 1..j : subsets[i] \cap J = {}
      BY <1>1, <2>1, <3>1
    <3> HIDE DEF J
    <3> QED
      BY <3>2 DEF FirstOf
  <2>3. FirstOf(subsets, j + 1) = I \cup J
    <3>1. \A i : i \in 1..(j + 1) <=> i \in 1..j \/ i = j + 1
      BY <2>1
    <3> QED
      BY <3>1 DEF FirstOf
  <2>4. I \in SUBSET (0..(ProofSize - 1)) /\ J \in SUBSET (0..(ProofSize - 1))
    BY <1>1, <1>3, <2>1 DEF AllIndices
  <2>5. x \in Int /\ y \in Int /\ z \in Int
    <3>1. x \in 1..(P - 1) /\ y \in 1..(P - 1) /\ z \in 1..(P - 1)
      <4>1. j + 1 \in 0..k
        BY <2>1
      <4> QED
        BY <1>2, <2>1, <4>1
    <3> QED
      BY <3>1
  <2>6. SameMod(x * y, z, P)
    <3>1. z = (x * y) % P
      BY <1>2
    <3>2. z \in 1..(P - 1)
      <4>1. j + 1 \in 0..k
        BY <2>1
      <4> QED
        BY <1>2, <4>1
    <3> HIDE DEF x, y, z
    <3>3. z % P = z
      BY <3>2, FieldIs, SmallRemainder
    <3> QED
      BY <3>1, <3>3 DEF SameMod
  <2> DEFINE u == Proof!Vanishing(I)
             v == Proof!Vanishing(J)
  <2>7. Accumulated(subsets, R, j + 1) = Scale(Proof!Vanishing(I \cup J), z)
    BY <2>3 DEF Accumulated
  <2>8. Accumulated(subsets, R, j) = Scale(u, x) /\ BlindedOf(subsets, e, j + 1) = Scale(v, y)
    BY DEF Accumulated, BlindedOf
  <2> HIDE DEF I, J, x, y, z
  <2>9. Proof!Vanishing(I \cup J) = Times(u, v)
    BY <2>2, VanishingTimes
  <2>10. IsPoly(u) /\ IsPoly(v)
    BY <2>4, VanishingOfSet DEF IsMonic
  <2> HIDE DEF u, v
  <2>11. Times(Scale(u, x), Scale(v, y)) = Scale(Times(u, v), z)
    BY <2>5, <2>6, <2>10, ScaledProduct
  <2> QED
    BY <2>7, <2>8, <2>9, <2>11
<1> QED
  BY <1>4, <1>5, <1>6, <1>7

-----------------------------------------------------------------------------
(* What an honest proof is made of *)

\* The inputs of a proof.
IsWitness(w, k) ==
    /\ IsPartition(w.subsets_indices, k)
    /\ w.c_values \in Values
    /\ w.vote_per_j \in [1..k -> 1..(ProofSize - 1)]

IsBlinders(e, k) == e.r \in [1..k -> 1..(P - 1)] /\ e.s \in [1..k -> Field]

\* The values of C on a set of indices, as a polynomial.
PolyOn(w, I) == Proof!interpolate(Chosen(w.c_values, I))

LabelOf(w, j) == Roots[w.vote_per_j[j]]

SizeOf(w, j) == Cardinality(w.subsets_indices[j])

ZOf(w, e, j) == BlindedOf(w.subsets_indices, e.r, j)

VOf(w, e, j) ==
    Plus(Scale(PolyOn(w, w.subsets_indices[j]), Inv(LabelOf(w, j))), Scale(ZOf(w, e, j), e.s[j]))

XOf(w, e, j) == Poly([i \in 1..(ProofSize - SizeOf(w, j)) |-> 0] \o ZOf(w, e, j))

P1Of(w, e, j) ==
    Scale(Proof!Quotient(Proof!z_h, Proof!Vanishing(w.subsets_indices[j])), Inv(e.r[j]))

P2Of(w, e, j) ==
    Minus(Scale(Proof!Quotient(PolyOn(w, AllIndices \ w.subsets_indices[j]),
                               Proof!Vanishing(w.subsets_indices[j])), Inv(e.r[j])),
          Poly(<<(LabelOf(w, j) * e.s[j]) % P>>))

MaskedOf(w, e, j) == Minus(Proof!interpolate(w.c_values), Scale(VOf(w, e, j), LabelOf(w, j)))

FitsParameters(p) == IsPoly(p) /\ Len(p) <= ProofSize + 1

\* A number and its inverse.
LEMMA InverseOf ==
    ASSUME NEW x \in 1..(P - 1)
    PROVE  /\ x \in Int /\ Inv(x) \in Int
           /\ SameMod(x * Inv(x), 1, P) /\ SameMod(Inv(x) * x, 1, P)
<1> DEFINE y == Inv(x)
<1>1. y \in 1..(P - 1) /\ (x * y) % P = 1
  BY InvIs
<1> HIDE DEF y
<1>2. x \in Int /\ y \in Int
  BY <1>1
<1>3. x * y = y * x
  BY <1>2
<1>4. 1 % P = 1
  BY RemainderOne
<1> QED
  BY <1>1, <1>2, <1>3, <1>4 DEF SameMod, y

\* Every polynomial of the proof is short enough, and the checks of the subset balance.
LEMMA PartsBalance ==
    ASSUME NEW w, NEW e, NEW k, IsWitness(w, k), IsBlinders(e, k), NEW j \in 1..k,
           NEW f \in Field
    PROVE  /\ Balances(ZOf(w, e, j), P1Of(w, e, j), P2Of(w, e, j),
                       Monomial(f, ProofSize - SizeOf(w, j)), Proof!z_h, MaskedOf(w, e, j),
                       XOf(w, e, j), f)
           /\ FitsParameters(ZOf(w, e, j)) /\ FitsParameters(VOf(w, e, j)) /\ FitsParameters(XOf(w, e, j))
           /\ FitsParameters(P1Of(w, e, j)) /\ FitsParameters(P2Of(w, e, j))
<1> DEFINE I == w.subsets_indices[j]
           z == Proof!Vanishing(I)
           x == e.r[j]
           y == Inv(x)
           s == e.s[j]
           v == LabelOf(w, j)
           iv == Inv(v)
           c == (v * s) % P
           count == SizeOf(w, j)
           o == PolyOn(w, I)
           d == PolyOn(w, AllIndices \ I)
           Z == Scale(z, x)
           K == ProofSize + 1
<1>1. I \in SUBSET (0..(ProofSize - 1)) /\ w.c_values \in Values
  BY DEF IsWitness, IsPartition, AllIndices
<1>2. x \in 1..(P - 1) /\ s \in Field /\ s \in Int /\ x \in Int /\ y \in Int
      /\ SameMod(x * y, 1, P)
  <2>1. x \in 1..(P - 1) /\ s \in Field
    BY DEF IsBlinders
  <2> HIDE DEF x, s
  <2> QED
    BY <2>1, InverseOf, InField
<1>3. v \in 1..(P - 1)
  <2>1. w.vote_per_j[j] \in 1..(ProofSize - 1)
    BY DEF IsWitness
  <2>2. w.vote_per_j[j] \in Nat
    BY <2>1, SizeIs
  <2> QED
    BY <2>2, RootsAre DEF LabelOf
<1> HIDE DEF v
<1>4. v \in Int /\ iv \in Int /\ SameMod(iv * v, 1, P)
  BY <1>3, InverseOf
<1>5. c \in Field /\ c \in Int /\ SameMod(s * v, c, P)
  <2> HIDE DEF s, c, x, y
  <2>1. v * s \in Int /\ v * s = s * v
    BY <1>2, <1>4
  <2>2. c \in Field
    BY <2>1, IntoField DEF c
  <2>3. c % P = c /\ c \in Int
    BY <2>2, InField
  <2> QED
    BY <2>1, <2>2, <2>3 DEF SameMod, c
<1>6. PICK h, g : IsCovered(I, w.c_values, z, h, g)
  BY <1>1, CoveredSet
<1>7. /\ IsMonic(z, Cardinality(I)) /\ Cardinality(I) \in 0..ProofSize
      /\ IsPoly(h) /\ Len(h) <= ProofSize + 1
      /\ IsPoly(g) /\ Len(g) <= ProofSize
      /\ Times(z, h) = Proof!z_h /\ Proof!Quotient(Proof!z_h, z) = h
      /\ Times(z, g) = d /\ Proof!Quotient(d, z) = g
  BY <1>6 DEF IsCovered, PolyOn, AllIndices
<1>8. IsPoly(z) /\ Len(z) = Cardinality(I) + 1 /\ count = Cardinality(I) /\ count \in 0..ProofSize
      /\ Len(z) = count + 1
  BY <1>7 DEF IsMonic, SizeOf
<1>9. /\ IsPoly(o) /\ Len(o) <= ProofSize /\ IsPoly(d)
      /\ Proof!interpolate(w.c_values) = Plus(o, d)
  BY <1>1, ChosenIs, InterpolatePoly, InterpolatedParts DEF PolyOn, AllIndices
<1>10. /\ ZOf(w, e, j) = Z
       /\ VOf(w, e, j) = Plus(Scale(o, iv), Scale(Z, s))
       /\ XOf(w, e, j) = Poly([i \in 1..(ProofSize - count) |-> 0] \o Z)
       /\ P1Of(w, e, j) = Scale(h, y)
       /\ P2Of(w, e, j) = Minus(Scale(g, y), Poly(<<c>>))
       /\ MaskedOf(w, e, j) = Minus(Plus(o, d), Scale(VOf(w, e, j), v))
  BY <1>7, <1>9 DEF ZOf, VOf, XOf, P1Of, P2Of, MaskedOf, BlindedOf, v
<1> HIDE DEF I, z, x, y, s, iv, c, count, o, d
<1>11. K \in Nat /\ ProofSize <= K /\ Len(z) <= K /\ Len(h) <= K /\ Len(o) <= K /\ Len(g) <= K
  <2>1. Len(g) \in Nat /\ Len(o) \in Nat /\ Len(h) \in Nat
    BY <1>7, <1>9, PolyIsSeq
  <2> QED
    BY <1>7, <1>8, <1>9, <2>1, SizeIs
<1> HIDE DEF K
<1>12. IsPoly(Z) /\ Len(Z) <= K
  BY <1>2, <1>8, <1>11, PolyTypes, LengthsBounded
<1>13. Len(Z) <= count + 1
  <2>1. Len(z) <= count + 1 /\ count + 1 \in Nat
    BY <1>8
  <2> QED
    BY <1>2, <1>8, <2>1, LengthsBounded
<1> HIDE DEF Z
<1>14. PICK m \in Nat : m = ProofSize - count
  BY <1>8, SizeIs
<1>15. /\ IsPoly(XOf(w, e, j)) /\ Len(XOf(w, e, j)) <= K
       /\ Times(Z, Monomial(f, ProofSize - count)) = Scale(XOf(w, e, j), f)
  <2> DEFINE X == Poly([i \in 1..m |-> 0] \o Z)
  <2>1. X = XOf(w, e, j)
    BY <1>10, <1>14
  <2>2. Times(Z, Monomial(f, m)) = Scale(X, f) /\ IsPoly(X) /\ Len(X) <= m + Len(Z)
    BY <1>12, TimesMonomial
  <2>3. Len(X) \in Nat /\ Len(Z) \in Nat
    BY <1>12, <2>2, PolyIsSeq
  <2> HIDE DEF X
  <2>4. Len(X) <= K
    BY <1>8, <1>13, <1>14, <2>2, <2>3, SizeIs DEF K
  <2> QED
    BY <1>14, <2>1, <2>2, <2>4
<1>16. /\ IsPoly(Scale(o, iv)) /\ IsPoly(Scale(Z, s))
       /\ Len(Scale(o, iv)) <= K /\ Len(Scale(Z, s)) <= K
  BY <1>2, <1>4, <1>9, <1>11, <1>12, PolyTypes, LengthsBounded
<1>17. IsPoly(VOf(w, e, j)) /\ Len(VOf(w, e, j)) <= K
  BY <1>10, <1>11, <1>16, PolyTypes, LengthsBounded
<1>18. IsPoly(Scale(h, y)) /\ IsPoly(Scale(g, y)) /\ Len(Scale(h, y)) <= K /\ Len(Scale(g, y)) <= K
  BY <1>2, <1>7, <1>11, PolyTypes, LengthsBounded
<1>19. IsPoly(Poly(<<c>>)) /\ Len(Poly(<<c>>)) <= K
  <2>1. IsPoly(Poly(<<c>>)) /\ Len(Poly(<<c>>)) <= 1
    BY <1>5, ConstantIs DEF Represents
  <2>2. Len(Poly(<<c>>)) \in Nat
    BY <2>1, PolyIsSeq
  <2> QED
    BY <2>1, <2>2, SizeIs DEF K
<1>20. IsPoly(P2Of(w, e, j)) /\ Len(P2Of(w, e, j)) <= K
  BY <1>10, <1>11, <1>18, <1>19, PolyTypes, LengthsBounded
<1>21. /\ Times(Z, P1Of(w, e, j)) = Proof!z_h
       /\ Times(Z, P2Of(w, e, j)) = Minus(d, Scale(Z, c))
  <2>1. /\ Times(Scale(z, x), Scale(h, y)) = Times(z, h)
        /\ Times(Scale(z, x), Minus(Scale(g, y), Poly(<<c>>)))
               = Minus(Times(z, g), Scale(Scale(z, x), c))
    BY <1>2, <1>5, <1>7, <1>8, BlindedQuotients
  <2> QED
    BY <1>7, <1>10, <2>1 DEF Z
<1>22. MaskedOf(w, e, j) = Minus(d, Scale(Z, c))
  <2>1. Minus(Plus(o, d), Scale(Plus(Scale(o, iv), Scale(Z, s)), v)) = Minus(d, Scale(Z, c))
    BY <1>2, <1>4, <1>5, <1>9, <1>12, Unmasked
  <2> QED
    BY <1>10, <2>1
<1>23. IsPoly(MaskedOf(w, e, j))
  <2>1. IsPoly(Scale(Z, c))
    BY <1>5, <1>12, PolyTypes
  <2> QED
    BY <1>9, <1>22, <2>1, PolyTypes
<1>24. IsPoly(Proof!z_h) /\ f \in Int /\ IsPoly(Monomial(f, ProofSize - count))
  BY <1>14, VanishingIs, InField, MonomialIs DEF Represents
<1>25. Balances(Z, P1Of(w, e, j), P2Of(w, e, j), Monomial(f, ProofSize - count), Proof!z_h,
                MaskedOf(w, e, j), XOf(w, e, j), f)
  BY <1>10, <1>12, <1>15, <1>18, <1>20, <1>21, <1>22, <1>23, <1>24 DEF Balances
<1>26. /\ FitsParameters(Z) /\ FitsParameters(VOf(w, e, j)) /\ FitsParameters(XOf(w, e, j))
       /\ FitsParameters(P1Of(w, e, j)) /\ FitsParameters(P2Of(w, e, j))
  BY <1>10, <1>12, <1>15, <1>17, <1>18, <1>20 DEF FitsParameters, K
<1> QED
  BY <1>10, <1>25, <1>26 DEF count

-----------------------------------------------------------------------------
(* The verifier accepts *)

IsCommitted(w, e, k, proof) ==
    /\ \A j \in 1..k : /\ proof.z[j] = ZOf(w, e, j)
                       /\ proof.v[j] = VOf(w, e, j)
                       /\ proof.x[j] = XOf(w, e, j)
    /\ proof.y \in Seq(Seq(Field)) /\ Len(proof.y) = IF k < 2 THEN 0 ELSE k - 2
    /\ \E R : /\ MultipliesUp(R, e.r, k) /\ R[k] = 1
              /\ \A i \in 1..Len(proof.y) : proof.y[i] = Accumulated(w.subsets_indices, R, i + 1)

IsAnswered(w, e, k, chi, p) ==
    \A j \in 1..k : chi[j] \in Field /\ p[j] = Plus(P1Of(w, e, j), Scale(P2Of(w, e, j), chi[j]))

\* The elements of a sequence between two others.
LEMMA Between ==
    ASSUME NEW S, NEW x \in S, NEW y \in S, NEW s \in Seq(S)
    PROVE  /\ (<<x>> \o s \o <<y>>)[1] = x
           /\ (<<x>> \o s \o <<y>>)[Len(s) + 2] = y
           /\ \A i \in 1..Len(s) : (<<x>> \o s \o <<y>>)[i + 1] = s[i]
OBVIOUS

\* From the first z to that of all, each is the last one times the next z.
LEMMA FullAccumulators ==
    ASSUME NEW k, IsWitness(witness, k), IsBlinders(blinders, k),
           IsCommitted(witness, blinders, k, round1proof), NEW j \in 2..k
    PROVE  /\ IsPoly(Proof!y_full[j - 1])
           /\ Proof!y_full[j] = Times(Proof!y_full[j - 1], round1proof.z[j])
<1> DEFINE part0 == witness.subsets_indices
           e == blinders.r
           z1 == round1proof.z[1]
           y == round1proof.y
           zh == Proof!z_h
           full == <<z1>> \o y \o <<zh>>
<1>1. k \in Nat /\ k >= 2 /\ IsPartition(part0, k) /\ e \in [1..k -> 1..(P - 1)]
  BY DEF IsWitness, IsPartition, IsBlinders
<1>2. PICK R : /\ MultipliesUp(R, e, k) /\ R[k] = 1
               /\ \A i \in 1..Len(y) : y[i] = Accumulated(part0, R, i + 1)
  BY DEF IsCommitted
<1>3. y \in Seq(Seq(Field)) /\ Len(y) = k - 2
  BY <1>1 DEF IsCommitted
<1>4. z1 = BlindedOf(part0, e, 1) /\ round1proof.z[j] = BlindedOf(part0, e, j)
  BY <1>1 DEF IsCommitted, ZOf
<1>5. Proof!y_full = full
  BY DEF Proof!y_full
<1> HIDE DEF part0, e, y, full, zh
<1> DEFINE A(i) == Accumulated(part0, R, i)
<1>6. /\ A(0) = <<1>> /\ A(k) = zh
      /\ \A i \in 0..k : IsPoly(A(i))
      /\ \A i \in 0..(k - 1) : A(i + 1) = Times(A(i), BlindedOf(part0, e, i + 1))
  BY <1>1, <1>2, Accumulates DEF zh
<1>7. z1 = A(1)
  <2>1. 0 \in 0..(k - 1) /\ 0 + 1 = 1
    BY <1>1
  <2>2. A(1) = Times(A(0), BlindedOf(part0, e, 1))
    BY <1>6, <2>1
  <2>3. IsPoly(BlindedOf(part0, e, 1))
    <3>1. 1 \in 1..k /\ 1 \in Field
      BY <1>1, ZeroInField
    <3>2. FitsParameters(ZOf(witness, blinders, 1))
      BY <3>1, PartsBalance
    <3> QED
      BY <3>2 DEF ZOf, FitsParameters, part0, e
  <2> QED
    BY <1>4, <1>6, <2>2, <2>3, TimesOne
<1> HIDE DEF A, z1
<1>8. /\ 1 \in 0..k /\ k \in 0..k /\ j \in 0..k /\ j - 1 \in 0..k
      /\ j - 1 \in 0..(k - 1) /\ (j - 1) + 1 = j /\ j - 1 \in 1..k
  BY <1>1
<1>9. \A i \in 1..k : full[i] = A(i)
  <2>1. z1 \in Seq(Field) /\ zh \in Seq(Field)
    BY <1>6, <1>7, <1>8, PolyIsSeq
  <2>2. /\ full[1] = z1 /\ full[Len(y) + 2] = zh
        /\ \A i \in 1..Len(y) : full[i + 1] = y[i]
    BY <1>3, <2>1, Between DEF full
  <2>3. \A i \in 1..Len(y) : full[i + 1] = A(i + 1)
    BY <1>2, <2>2 DEF A
  <2>4. full[1] = A(1) /\ full[k] = A(k)
    BY <1>1, <1>3, <1>6, <1>7, <2>2
  <2> TAKE i \in 1..k
  <2>5. i = 1 \/ i = k \/ (i - 1 \in 1..Len(y) /\ (i - 1) + 1 = i)
    BY <1>1, <1>3
  <2> QED
    BY <2>3, <2>4, <2>5
<1>10. full[j - 1] = A(j - 1) /\ full[j] = A(j)
  BY <1>8, <1>9
<1>11. A((j - 1) + 1) = Times(A(j - 1), BlindedOf(part0, e, (j - 1) + 1))
  BY <1>6, <1>8
<1> QED
  BY <1>4, <1>5, <1>6, <1>8, <1>10, <1>11

\* FiniteSets is one module.
LEMMA SameCardinality == \A S : Proof!Cardinality(S) = Cardinality(S)
BY DEF Proof!Cardinality, Cardinality

\* The two sides of every pairing check are equal.
LEMMA HonestPairing ==
    ASSUME NEW k, IsWitness(witness, k), IsBlinders(blinders, k),
           IsCommitted(witness, blinders, k, round1proof),
           IsAnswered(witness, blinders, k, challenges, p_comm), NEW j \in 1..k
    PROVE  LET pairing == Proof!pairing(j, witness.vote_per_j, Proof!subsets_sizes)
           IN  pairing.ab = pairing.c /\ IsPoly(pairing.c)
<1> DEFINE f == TestScalar
           f2 == (f * f) % P
           z == ZOf(witness, blinders, j)
           p1 == P1Of(witness, blinders, j)
           p2 == P2Of(witness, blinders, j)
           m == Monomial(f, ProofSize - SizeOf(witness, j))
           u == MaskedOf(witness, blinders, j)
           x == XOf(witness, blinders, j)
           zh == Proof!z_h
           chi == challenges[j]
           c == SumOf(<<zh, Scale(u, chi), Scale(x, f)>>)
           pairing == Proof!pairing(j, witness.vote_per_j, Proof!subsets_sizes)
<1>1. f \in Field /\ f \in Int /\ f2 \in Int
  <2>1. f \in Field /\ f \in Int
    BY ProofAssumption, InField
  <2>2. f * f \in Int
    BY <2>1
  <2> QED
    BY <2>1, <2>2, IntoField, InField
<1>2. Balances(z, p1, p2, m, zh, u, x, f)
  BY <1>1, PartsBalance
<1>3. chi \in Int /\ p_comm[j] = Plus(p1, Scale(p2, chi))
  BY InField DEF IsAnswered
<1>4. round1proof.z[j] = z /\ round1proof.x[j] = x /\ round1proof.v[j] = VOf(witness, blinders, j)
  BY DEF IsCommitted
<1>5. Proof!subsets_sizes[j] = SizeOf(witness, j)
  <2>1. j \in DOMAIN witness.subsets_indices
    BY DEF IsWitness, IsPartition
  <2> QED
    BY <2>1, SameCardinality DEF Proof!subsets_sizes, SizeOf
<1>6. Proof!element(witness.vote_per_j[j]) = LabelOf(witness, j)
  <2>1. witness.vote_per_j[j] \in 1..(ProofSize - 1)
    BY DEF IsWitness
  <2>2. witness.vote_per_j[j] \in Nat
    BY <2>1, SizeIs
  <2> QED
    BY <2>2, RootsAre DEF LabelOf
<1>7. Minus(Proof!c_poly, Scale(round1proof.v[j], Proof!element(witness.vote_per_j[j]))) = u
  BY <1>4, <1>6 DEF Proof!c_poly, MaskedOf
<1>8. CASE j = 1
  <2>1. pairing = [ab |-> Times(z, Plus(Plus(p1, Scale(p2, chi)), m)), c |-> c]
    <3> HIDE DEF f, f2, z, p1, p2, u, x, zh, chi
    <3>1. pairing = [ab |-> Times(round1proof.z[1],
                                  Plus(p_comm[1], Monomial(f, ProofSize - Proof!subsets_sizes[1]))),
                     c |-> SumOf(<<zh, Scale(Minus(Proof!c_poly,
                                                   Scale(round1proof.v[1],
                                                         Proof!element(witness.vote_per_j[1]))),
                                             challenges[1]),
                                   Scale(round1proof.x[1], f)>>)]
      BY <1>8, ProofOperators DEF Proof!pairing, Proof!phi, f, zh
    <3> QED
      BY <1>3, <1>4, <1>5, <1>7, <1>8, <3>1 DEF chi
  <2>2. Times(z, Plus(Plus(p1, Scale(p2, chi)), m)) = c /\ IsPoly(c)
    BY <1>2, <1>3, FirstCheck
  <2> HIDE DEF c, pairing
  <2> QED
    BY <2>1, <2>2 DEF pairing
<1>9. CASE j # 1
  <2> DEFINE y0 == Proof!y_full[j - 1]
             y1 == Proof!y_full[j]
             ab == Times(SumOf(<<Plus(p1, Scale(p2, chi)), m, Scale(y0, f2)>>), z)
             cc == Plus(c, Scale(y1, f2))
  <2>1. j \in 2..k
    <3>1. k \in Nat
      BY DEF IsWitness, IsPartition
    <3> QED
      BY <1>9, <3>1
  <2>2. IsPoly(y0) /\ y1 = Times(y0, z)
    BY <1>4, <2>1, FullAccumulators
  <2>3. pairing = [ab |-> ab, c |-> cc]
    <3> HIDE DEF f, f2, z, p1, p2, u, x, zh, chi, y0, y1
    <3>1. pairing = [ab |-> Times(SumOf(<<p_comm[j],
                                          Monomial(f, ProofSize - Proof!subsets_sizes[j]),
                                          Scale(y0, f2)>>), round1proof.z[j]),
                     c |-> Plus(SumOf(<<zh, Scale(Minus(Proof!c_poly,
                                                   Scale(round1proof.v[j],
                                                         Proof!element(witness.vote_per_j[j]))),
                                             challenges[j]),
                                   Scale(round1proof.x[j], f)>>), Scale(y1, f2))]
      BY <1>9, ProofOperators DEF Proof!pairing, Proof!phi, f, f2, zh, y0, y1
    <3> QED
      BY <1>3, <1>4, <1>5, <1>7, <3>1 DEF chi
  <2>4. ab = Plus(c, Scale(Times(y0, z), f2)) /\ IsPoly(Plus(c, Scale(Times(y0, z), f2)))
    <3> HIDE DEF y0, f2
    <3> QED
      BY <1>1, <1>2, <1>3, <2>2, LaterCheck
  <2>5. ab = cc /\ IsPoly(cc)
    BY <2>2, <2>4
  <2> HIDE DEF ab, cc, pairing
  <2> QED
    BY <2>3, <2>5 DEF pairing
<1> QED
  BY <1>8, <1>9

\* Every check passes, and so does their sum.
LEMMA HonestVerifies ==
    ASSUME NEW k, IsWitness(witness, k), IsBlinders(blinders, k),
           IsCommitted(witness, blinders, k, round1proof),
           IsAnswered(witness, blinders, k, challenges, p_comm)
    PROVE  Proof!verify_proof(witness.vote_per_j, Proof!subsets_sizes)
<1>1. k \in Nat /\ Proof!Subsets = 1..k
  BY DEF IsWitness, IsPartition, Proof!Subsets
<1> DEFINE pairings == [j \in Proof!Subsets |->
                           Proof!pairing(j, witness.vote_per_j, Proof!subsets_sizes)]
<1>2. DOMAIN pairings = 1..k
  BY <1>1
<1>3. ASSUME NEW j \in 1..k
      PROVE  pairings[j].ab = pairings[j].c /\ IsPoly(pairings[j].c)
  BY <1>1, HonestPairing
<1>4. Proof!verify_proof(witness.vote_per_j, Proof!subsets_sizes)
          <=> Proof!check_pairings(pairings)
  BY DEF Proof!verify_proof
<1> HIDE DEF pairings
<1> QED
  BY <1>1, <1>2, <1>3, <1>4, ChecksPass

-----------------------------------------------------------------------------
(* The invariant *)

ProofInv ==
    /\ pc \in {"called", "round 2", "proved", "panic"}
    /\ \E k : /\ IsWitness(witness, k)
              /\ pc \in {"round 2", "proved"} =>
                     /\ IsBlinders(blinders, k)
                     /\ IsCommitted(witness, blinders, k, round1proof)
              /\ pc = "proved" => IsAnswered(witness, blinders, k, challenges, p_comm)
    /\ pc = "panic" => \E j \in DOMAIN blinders.r : blinders.r[j] = 0

\* It holds of the inputs of a proof.
LEMMA InitProof == Proof!Init => ProofInv
<1> SUFFICES ASSUME Proof!Init
             PROVE  ProofInv
  OBVIOUS
<1>1a. PICK subsets \in Proof!Partitions, c \in TokenVectors :
          \E v \in Proof!LabelIndices(Len(subsets)) :
              witness = [subsets_indices |-> subsets, c_values |-> c, vote_per_j |-> v]
  BY DEF Proof!Init
<1>1. PICK v \in Proof!LabelIndices(Len(subsets)) :
          witness = [subsets_indices |-> subsets, c_values |-> c, vote_per_j |-> v]
  BY <1>1a
<1>2. PICK k \in 1..(ProofSize - 1) :
          /\ subsets \in [1..k -> SUBSET AllIndices \ {{}}]
          /\ \A i, j \in 1..k : i # j => subsets[i] \cap subsets[j] = {}
          /\ UNION {subsets[j] : j \in 1..k} = AllIndices
  BY DEF Proof!Partitions, Proof!Indices, AllIndices
<1>3. k \in Nat \ {0} /\ k < ProofSize
  BY SizeIs
<1>4. subsets \in [1..k -> SUBSET AllIndices]
  BY <1>2
<1>5. IsPartition(subsets, k)
  BY <1>2, <1>3, <1>4 DEF IsPartition
<1>6. Len(subsets) = k
  BY <1>3, <1>4, SequenceOf
<1>7. v \in [1..k -> 1..(ProofSize - 1)]
  BY <1>6 DEF Proof!LabelIndices
<1>8. c \in Values
  BY ProofAssumption DEF Values
<1>9. IsWitness(witness, k)
  BY <1>1, <1>5, <1>7, <1>8 DEF IsWitness
<1>10. pc = "called"
  BY DEF Proof!Init
<1> QED
  BY <1>9, <1>10 DEF ProofInv

\* A commitment is the polynomial, as long as it fits the parameters.
LEMMA CommitIsIdentity ==
    ASSUME NEW p, FitsParameters(p)
    PROVE  Proof!g2_commit(p) = p /\ Proof!g1_commits(p)
<1>1. IsPoly(p) /\ Len(p) <= ProofSize + 1 /\ ProofSize + 1 \in Nat
  BY SizeIs DEF FitsParameters
<1>2. Low(p, ProofSize + 1) = p
  BY <1>1, LowOfShort
<1>3. Proof!g2_commit(p) = Low(p, ProofSize + 1)
  BY ProofOperators DEF Proof!g2_commit, Low
<1> QED
  BY <1>1, <1>2, <1>3 DEF Proof!g1_commits

IsBlinded(z, subsets, e, k) ==
    z \in Seq(Seq(Field)) /\ Len(z) = k /\ \A j \in 1..k : z[j] = BlindedOf(subsets, e, j)

\* The product of the first m blinded polynomials.
LEMMA ProductOfFirst ==
    ASSUME NEW subsets, NEW k, IsPartition(subsets, k),
           NEW e \in [1..k -> 1..(P - 1)], NEW R, MultipliesUp(R, e, k), R[k] = 1,
           NEW z, IsBlinded(z, subsets, e, k), NEW m \in 1..k
    PROVE  ProductOf(SubSeq(z, 1, m)) = Accumulated(subsets, R, m)
<1> DEFINE v == [j \in 0..m |-> Accumulated(subsets, R, j)]
           ps == SubSeq(z, 1, m)
<1>1. k \in Nat
  BY DEF IsPartition
<1>10. z \in Seq(Seq(Field)) /\ Len(z) = k /\ \A j \in 1..k : z[j] = BlindedOf(subsets, e, j)
  BY DEF IsBlinded
<1>2. Len(ps) = m /\ m \in Nat /\ \A j \in 1..m : ps[j] = z[j] /\ j \in 1..k
  BY <1>1, <1>10
<1>3. \A j \in 1..m : j - 1 \in 0..(k - 1) /\ j - 1 \in 0..m /\ j \in 0..m /\ (j - 1) + 1 = j
  BY <1>1
<1>4. \A j \in 0..m : v[j] = Accumulated(subsets, R, j)
  OBVIOUS
<1>5. 0 \in 0..m /\ m \in 0..m
  BY <1>2
<1> HIDE DEF v, ps
<1>6. v[0] = <<1>>
  BY <1>4, <1>5, Accumulates
<1>7. ASSUME NEW j \in 1..m
      PROVE  v[j] = Times(v[j - 1], ps[j])
  <2>1. Accumulated(subsets, R, (j - 1) + 1)
            = Times(Accumulated(subsets, R, j - 1), BlindedOf(subsets, e, (j - 1) + 1))
    BY <1>3, Accumulates
  <2> QED
    BY <1>2, <1>3, <1>4, <1>10, <2>1
<1>8. Len(ps) \in Nat /\ \A j \in 1..Len(ps) : v[j] = Times(v[j - 1], ps[j])
  BY <1>2, <1>7
<1>9. ProductOf(ps) = v[Len(ps)]
  BY <1>6, <1>8, ProductOfIs
<1> QED
  BY <1>2, <1>4, <1>5, <1>9 DEF ps

\* What the prover commits to in the first round.
LEMMA CommitmentsAre ==
    ASSUME NEW k, IsWitness(witness, k), NEW e, IsBlinders(e, k),
           NEW R, MultipliesUp(R, e.r, k), R[k] = 1
    PROVE  LET proof == Proof!commitments(e)
               inG1  == <<proof.z[1]>> \o proof.x \o proof.v \o proof.y
           IN  /\ IsCommitted(witness, e, k, proof)
               /\ \A i \in DOMAIN inG1 : Proof!g1_commits(inG1[i])
<1> DEFINE proof == Proof!commitments(e)
           subsets == witness.subsets_indices
           S == {p \in Seq(Field) : FitsParameters(p)}
           z == Proof!blinded_z(e)
           count == IF k < 2 THEN 0 ELSE k - 2
<1>1. k \in Nat \ {0} /\ Proof!Subsets = 1..k /\ IsPartition(subsets, k) /\ 1 \in 1..k
      /\ count \in Nat
  BY DEF IsWitness, IsPartition, Proof!Subsets
<1>2. e.r \in [1..k -> 1..(P - 1)]
  BY DEF IsBlinders
<1>3. \A j \in 1..k : /\ FitsParameters(ZOf(witness, e, j)) /\ FitsParameters(VOf(witness, e, j))
                     /\ FitsParameters(XOf(witness, e, j))
  BY PartsBalance, ZeroInField
<1>4. \A p : FitsParameters(p) => p \in S
  BY PolyIsSeq DEF FitsParameters
<1>5. z = [j \in 1..k |-> ZOf(witness, e, j)]
  BY <1>1, ProofOperators DEF Proof!blinded_z, Proof!z_poly, ZOf, BlindedOf
<1>6. proof.z = [j \in 1..k |-> ZOf(witness, e, j)]
  <2>1. proof.z = [j \in Proof!Subsets |-> IF j = 1 THEN z[j] ELSE Proof!g2_commit(z[j])]
    BY DEF Proof!commitments
  <2>2. \A j \in 1..k : z[j] = ZOf(witness, e, j) /\ Proof!g2_commit(z[j]) = z[j]
    BY <1>3, <1>5, CommitIsIdentity
  <2> HIDE DEF z, proof
  <2> QED
    BY <1>1, <2>1, <2>2
<1>7. proof.v = [j \in 1..k |-> VOf(witness, e, j)]
  <2>1. proof.v = [j \in Proof!Subsets |-> Plus(Proof!v_poly(j), Scale(z[j], e.s[j]))]
    BY ProofOperators DEF Proof!commitments, Proof!blinded_v
  <2>2. ASSUME NEW j \in 1..k
        PROVE  Plus(Proof!v_poly(j), Scale(z[j], e.s[j])) = VOf(witness, e, j)
    <3>1. Proof!On(subsets[j]) = PolyOn(witness, subsets[j])
      BY DEF Proof!On, PolyOn, Chosen, Proof!Indices
    <3>2. Proof!Label(j) = LabelOf(witness, j)
      <4>1. witness.vote_per_j[j] \in 1..(ProofSize - 1)
        BY DEF IsWitness
      <4>2. witness.vote_per_j[j] \in Nat
        BY <4>1, SizeIs
      <4> QED
        BY <4>2, RootsAre DEF LabelOf, Proof!Label
    <3>3. Proof!v_poly(j) = Scale(PolyOn(witness, subsets[j]), Inv(LabelOf(witness, j)))
      BY <3>1, <3>2, ProofOperators DEF Proof!v_poly
    <3> QED
      BY <1>5, <3>3 DEF VOf
  <2> HIDE DEF z, proof
  <2> QED
    BY <1>1, <2>1, <2>2
<1>8. proof.x = [j \in 1..k |-> XOf(witness, e, j)]
  <2>1. proof.x = [j \in Proof!Subsets |-> Proof!x_poly(j, z[j])]
    BY DEF Proof!commitments
  <2>2. ASSUME NEW j \in 1..k
        PROVE  Proof!x_poly(j, z[j]) = XOf(witness, e, j)
    <3>1. Proof!subsets_sizes[j] = SizeOf(witness, j)
      <4>1. j \in DOMAIN witness.subsets_indices
        BY DEF IsWitness, IsPartition
      <4> QED
        BY <4>1, SameCardinality DEF Proof!subsets_sizes, SizeOf
    <3>2. z[j] = ZOf(witness, e, j)
      BY <1>5
    <3> HIDE DEF z
    <3> QED
      BY <3>1, <3>2, ProofOperators DEF Proof!x_poly, XOf
  <2> HIDE DEF z, proof
  <2> QED
    BY <1>1, <2>1, <2>2
<1> HIDE DEF S
<1>9. /\ z \in [1..k -> S] /\ proof.z \in [1..k -> S]
      /\ proof.v \in [1..k -> S] /\ proof.x \in [1..k -> S]
  BY <1>3, <1>4, <1>5, <1>6, <1>7, <1>8
<1>10. z \in Seq(S) /\ Len(z) = k /\ proof.v \in Seq(S) /\ proof.x \in Seq(S) /\ proof.z[1] \in S
  BY <1>1, <1>9, SequenceOf
<1>11. z \in Seq(Seq(Field))
  <2>1. S \subseteq Seq(Field)
    BY DEF S
  <2> QED
    BY <1>1, <1>9, <2>1, SequenceOf
<1>12. proof.y = [i \in 1..count |-> ProductOf(SubSeq(z, 1, i + 1))]
  <2>1. proof.y = [i \in 1..(IF Len(z) < 2 THEN 0 ELSE Len(z) - 2)
                     |-> ProductOf(SubSeq(z, 1, i + 1))]
    BY ProofOperators DEF Proof!commitments, Proof!partial_accumulators
  <2> HIDE DEF z, proof
  <2> QED
    BY <1>10, <2>1
<1> HIDE DEF z, proof
<1>13. ASSUME NEW i \in 1..count
       PROVE  proof.y[i] = Accumulated(subsets, R, i + 1) /\ Accumulated(subsets, R, i + 1) \in S
  <2>1. i + 1 \in 1..k /\ i + 1 \in 0..k
    BY <1>1
  <2>2. \A j \in 1..k : z[j] = BlindedOf(subsets, e.r, j)
    BY <1>5 DEF ZOf
  <2>3. ProductOf(SubSeq(z, 1, i + 1)) = Accumulated(subsets, R, i + 1)
    <3> DEFINE er == e.r
    <3>1. PICK m \in 1..k : m = i + 1
      BY <2>1
    <3>2. er \in [1..k -> 1..(P - 1)] /\ MultipliesUp(R, er, k) /\ IsBlinded(z, subsets, er, k)
      BY <1>2, <1>10, <1>11, <2>2 DEF IsBlinded
    <3> HIDE DEF subsets, er
    <3>3. ProductOf(SubSeq(z, 1, m)) = Accumulated(subsets, R, m)
      BY <1>1, <3>2, ProductOfFirst
    <3> QED
      BY <3>1, <3>3
  <2>4. FitsParameters(Accumulated(subsets, R, i + 1))
    BY <1>1, <1>2, <2>1, Accumulates DEF FitsParameters
  <2> QED
    BY <1>4, <1>12, <2>3, <2>4
<1>14. proof.y \in Seq(S) /\ Len(proof.y) = count
  <2>1. proof.y \in [1..count -> S]
    BY <1>12, <1>13
  <2> QED
    BY <1>1, <2>1, SequenceOf
<1>15. proof.y \in Seq(Seq(Field))
  <2>1. S \subseteq Seq(Field)
    BY DEF S
  <2> QED
    BY <1>14, <2>1
<1>16. IsCommitted(witness, e, k, proof)
  BY <1>6, <1>7, <1>8, <1>13, <1>14, <1>15 DEF IsCommitted
<1> DEFINE inG1 == <<proof.z[1]>> \o proof.x \o proof.v \o proof.y
<1>17. inG1 \in Seq(S)
  BY <1>10, <1>14
<1> HIDE DEF inG1
<1>18. \A i \in DOMAIN inG1 : Proof!g1_commits(inG1[i])
  <2>1. \A i \in DOMAIN inG1 : inG1[i] \in S
    BY <1>17
  <2>2. \A p \in S : FitsParameters(p)
    BY DEF S
  <2> QED
    BY <2>1, <2>2, CommitIsIdentity
<1> QED
  BY <1>16, <1>18 DEF inG1, proof

proofVars == <<pc, epaVars>>

\* It is kept by every step.
LEMMA PanicStep ==
    ASSUME ProofInv, NEW drawn, Proof!Panic(drawn), \E j \in DOMAIN drawn.r : drawn.r[j] = 0
    PROVE  ProofInv'
BY DEF ProofInv, Proof!Panic

\* The subsets are numbered.
LEMMA SubsetsAre ==
    ASSUME NEW k, IsWitness(witness, k)
    PROVE  Proof!Subsets = 1..k /\ Proof!Cardinality(Proof!Subsets) = k /\ k \in Nat \ {0}
           /\ k < ProofSize
<1>1. k \in Nat \ {0} /\ Proof!Subsets = 1..k /\ k < ProofSize
  BY DEF IsWitness, IsPartition, Proof!Subsets
<1>2. Cardinality(1..k) = k
  <2>1. 1 <= k /\ k - 1 + 1 = k /\ 1 \in Int /\ k \in Int
    BY <1>1
  <2> QED
    BY <2>1, FS_Interval
<1> QED
  BY <1>1, <1>2, SameCardinality

\* The first round: no blinder is zero, and then no polynomial is too long.
LEMMA Round1Step == ProofInv /\ Proof!Round1 => ProofInv'
<1> SUFFICES ASSUME ProofInv, Proof!Round1
             PROVE  ProofInv'
  OBVIOUS
<1>1. PICK k : IsWitness(witness, k)
  BY DEF ProofInv
<1>2. Proof!Subsets = 1..k /\ Proof!Cardinality(Proof!Subsets) = k /\ k \in Nat \ {0}
  BY <1>1, SubsetsAre
<1>3. PICK x \in [1..(k - 1) -> Draws], s \in [1..k -> Draws] :
          LET e     == Proof!Blind(x, s)
              proof == Proof!commitments(e)
              inG1  == <<proof.z[1]>> \o proof.x \o proof.v \o proof.y
          IN  IF 0 \in {x[j] : j \in DOMAIN x} \/ \E i \in DOMAIN inG1 : ~Proof!g1_commits(inG1[i])
              THEN Proof!Panic([r |-> x, s |-> s])
              ELSE /\ pc' = "round 2"
                   /\ blinders' = e
                   /\ round1proof' = proof
                   /\ UNCHANGED <<witness, challenges, p_comm>>
  BY <1>2 DEF Proof!Round1
<1> DEFINE e == Proof!Blind(x, s)
           proof == Proof!commitments(e)
           inG1 == <<proof.z[1]>> \o proof.x \o proof.v \o proof.y
<1>4. CASE 0 \in {x[j] : j \in DOMAIN x}
  <2> DEFINE drawn == [r |-> x, s |-> s]
  <2>1. drawn.r = x /\ \E j \in DOMAIN x : x[j] = 0
    BY <1>4
  <2>2. Proof!Panic(drawn)
    BY <1>3, <1>4
  <2> HIDE DEF drawn
  <2> QED
    BY <2>1, <2>2, PanicStep
<1>5. CASE 0 \notin {x[j] : j \in DOMAIN x}
  <2>1. x \in [1..(k - 1) -> 1..(P - 1)]
    <3>1. \A j \in 1..(k - 1) : x[j] \in Field /\ x[j] # 0
      BY <1>5, ProofAssumption
    <3>2. \A y \in Field : y # 0 => y \in 1..(P - 1)
      BY FieldIs DEF Field
    <3> QED
      BY <3>1, <3>2
  <2>2. e.s = s /\ e.r = Append(x, Inv(ProductOf([j \in DOMAIN x |-> <<x[j]>>])[1]))
    BY ProofOperators DEF Proof!Blind
  <2>3. s \in [1..k -> Field]
    BY ProofAssumption
  <2> HIDE DEF e
  <2>4. PICK g : g = e.r
    OBVIOUS
  <2>5. g \in [1..k -> 1..(P - 1)] /\ \E R : MultipliesUp(R, g, k) /\ R[k] = 1
    BY <1>2, <2>1, <2>2, <2>4, BlindersMultiply
  <2>6. IsBlinders(e, k)
    BY <2>2, <2>3, <2>4, <2>5 DEF IsBlinders
  <2>7. PICK R : MultipliesUp(R, e.r, k) /\ R[k] = 1
    BY <2>4, <2>5
  <2>8. IsCommitted(witness, e, k, proof) /\ \A i \in DOMAIN inG1 : Proof!g1_commits(inG1[i])
    BY <1>1, <2>6, <2>7, CommitmentsAre
  <2>9. /\ pc' = "round 2" /\ blinders' = e /\ round1proof' = proof /\ witness' = witness
    BY <1>3, <1>5, <2>8 DEF e
  <2> HIDE DEF proof, inG1
  <2>10. IsWitness(witness', k) /\ IsBlinders(blinders', k)
         /\ IsCommitted(witness', blinders', k, round1proof')
    BY <1>1, <2>6, <2>8, <2>9
  <2> QED
    BY <2>9, <2>10 DEF ProofInv
<1> QED
  BY <1>4, <1>5

\* What the prover answers in the second round.
LEMMA AnswersAre ==
    ASSUME NEW k, IsWitness(witness, k), IsBlinders(blinders, k), NEW chi \in Proof!get_challenges,
           NEW j \in 1..k
    PROVE  /\ chi[j] \in Field
           /\ Plus(Proof!p_1(j), Scale(Proof!p_2(j), chi[j]))
                  = Plus(P1Of(witness, blinders, j), Scale(P2Of(witness, blinders, j), chi[j]))
           /\ FitsParameters(Plus(P1Of(witness, blinders, j), Scale(P2Of(witness, blinders, j), chi[j])))
<1> DEFINE p1 == P1Of(witness, blinders, j)
           p2 == P2Of(witness, blinders, j)
<1>1. Proof!Cardinality(Proof!Subsets) = k /\ k \in Nat \ {0} /\ k < ProofSize
  BY SubsetsAre
<1>2. chi[j] \in Field
  <2>1. PICK c \in Challenges : chi = Take(c, k)
    BY <1>1, ProofOperators DEF Proof!get_challenges
  <2>2. c \in Seq(Field) /\ Len(c) >= ProofSize - 1
    BY ProofAssumption
  <2>3. Len(c) \in Nat /\ k <= Len(c)
    BY <1>1, <2>2, SizeIs
  <2>4. Take(c, k) = SubSeq(c, 1, k)
    BY <1>1, <2>3 DEF Take
  <2>5. SubSeq(c, 1, k)[j] = c[j] /\ c[j] \in Field
    BY <1>1, <2>2, <2>3
  <2> QED
    BY <2>1, <2>4, <2>5
<1>3. Proof!Label(j) = LabelOf(witness, j)
  <2>1. witness.vote_per_j[j] \in 1..(ProofSize - 1)
    BY DEF IsWitness
  <2>2. witness.vote_per_j[j] \in Nat
    BY <2>1, SizeIs
  <2> QED
    BY <2>2, RootsAre DEF LabelOf, Proof!Label
<1>4. Proof!On(Proof!Indices \ witness.subsets_indices[j])
          = PolyOn(witness, AllIndices \ witness.subsets_indices[j])
  BY DEF Proof!On, PolyOn, Chosen, Proof!Indices, AllIndices
<1>5. Proof!p_1(j) = p1
  BY ProofOperators DEF Proof!p_1, Proof!z_poly, P1Of
<1>6. Proof!p_2(j) = p2
  BY <1>3, <1>4, ProofOperators DEF Proof!p_2, Proof!z_poly, P2Of
<1>7. FitsParameters(p1) /\ FitsParameters(p2)
  BY PartsBalance, ZeroInField
<1> HIDE DEF p1, p2
<1>8. ProofSize + 1 \in Nat /\ chi[j] \in Int
  BY <1>2, SizeIs, InField
<1>9. IsPoly(Scale(p2, chi[j])) /\ Len(Scale(p2, chi[j])) <= ProofSize + 1
  BY <1>7, <1>8, PolyTypes, LengthsBounded DEF FitsParameters
<1>10. FitsParameters(Plus(p1, Scale(p2, chi[j])))
  BY <1>7, <1>8, <1>9, PolyTypes, LengthsBounded DEF FitsParameters
<1> QED
  BY <1>2, <1>5, <1>6, <1>10 DEF p1, p2

\* The second round: no polynomial is too long.
LEMMA Round2Step == ProofInv /\ Proof!Round2 => ProofInv'
<1> SUFFICES ASSUME ProofInv, Proof!Round2
             PROVE  ProofInv'
  OBVIOUS
<1>1. pc = "round 2"
  BY DEF Proof!Round2
<1>2. PICK k : /\ IsWitness(witness, k) /\ IsBlinders(blinders, k)
               /\ IsCommitted(witness, blinders, k, round1proof)
  BY <1>1 DEF ProofInv
<1>3. Proof!Subsets = 1..k /\ k \in Nat \ {0} /\ 1 \in 1..k
  BY <1>2, SubsetsAre
<1>4. PICK chi \in Proof!get_challenges :
          LET p == [j \in 1..k |-> Plus(Proof!p_1(j), Scale(Proof!p_2(j), chi[j]))]
          IN  IF \E j \in (1..k) \ {1} : ~Proof!g1_commits(p[j])
              THEN Proof!Panic(blinders)
              ELSE /\ pc' = "proved"
                   /\ challenges' = chi
                   /\ p_comm' = [p EXCEPT ![1] = Proof!g2_commit(p[1])]
                   /\ UNCHANGED <<witness, blinders, round1proof>>
  BY <1>3, ProofOperators DEF Proof!Round2
<1> DEFINE answer(j) == Plus(P1Of(witness, blinders, j), Scale(P2Of(witness, blinders, j), chi[j]))
           p == [j \in 1..k |-> Plus(Proof!p_1(j), Scale(Proof!p_2(j), chi[j]))]
<1>5. \A j \in 1..k : chi[j] \in Field /\ p[j] = answer(j) /\ FitsParameters(answer(j))
  BY <1>2, AnswersAre
<1> HIDE DEF answer
<1>6. \A j \in 1..k : Proof!g1_commits(p[j]) /\ Proof!g2_commit(p[j]) = p[j]
  BY <1>5, CommitIsIdentity
<1>7. /\ pc' = "proved" /\ challenges' = chi /\ p_comm' = [p EXCEPT ![1] = Proof!g2_commit(p[1])]
      /\ UNCHANGED <<witness, blinders, round1proof>>
  BY <1>4, <1>6
<1>8. DOMAIN p = 1..k /\ p = [j \in 1..k |-> p[j]]
  OBVIOUS
<1> HIDE DEF p
<1>9. \A j \in 1..k : p_comm'[j] = p[j]
  BY <1>3, <1>6, <1>7, <1>8
<1>10. \A j \in 1..k : /\ challenges'[j] \in Field
                       /\ p_comm'[j] = Plus(P1Of(witness', blinders', j),
                                            Scale(P2Of(witness', blinders', j), challenges'[j]))
  BY <1>5, <1>7, <1>9 DEF answer
<1>11. IsAnswered(witness', blinders', k, challenges', p_comm')
  BY <1>10 DEF IsAnswered
<1>12. IsWitness(witness', k) /\ IsBlinders(blinders', k)
       /\ IsCommitted(witness', blinders', k, round1proof')
  BY <1>2, <1>7
<1> QED
  BY <1>7, <1>11, <1>12 DEF ProofInv

LEMMA NextProof == ProofInv /\ [Proof!Next]_proofVars => ProofInv'
<1> SUFFICES ASSUME ProofInv, [Proof!Next]_proofVars
             PROVE  ProofInv'
  OBVIOUS
<1>1. CASE Proof!Round1
  BY <1>1, Round1Step
<1>2. CASE Proof!Round2
  BY <1>2, Round2Step
<1>3. CASE UNCHANGED proofVars
  BY <1>3 DEF ProofInv, proofVars, epaVars
<1> QED
  BY <1>1, <1>2, <1>3 DEF Proof!Next

\* In a state with a proof, the verifier accepts it.
LEMMA ProofVerifies == ProofInv => Proof!HonestProofVerifies
<1> SUFFICES ASSUME ProofInv
             PROVE  Proof!HonestProofVerifies
  OBVIOUS
<1>1. ASSUME pc = "proved"
      PROVE  Proof!verify_proof(witness.vote_per_j, Proof!subsets_sizes)
  <2>1. PICK k : /\ IsWitness(witness, k) /\ IsBlinders(blinders, k)
                 /\ IsCommitted(witness, blinders, k, round1proof)
                 /\ IsAnswered(witness, blinders, k, challenges, p_comm)
    BY <1>1 DEF ProofInv
  <2> QED
    BY <2>1, HonestVerifies
<1>2. pc = "panic" => \E j \in DOMAIN blinders.r : blinders.r[j] = 0
  BY DEF ProofInv
<1> QED
  BY <1>1, <1>2 DEF Proof!HonestProofVerifies

\* Steps of the other parts leave a proof alone.
LEMMA ProofSteps ==
    ASSUME [LibraryNext]_libraryVars
    PROVE  (part = "proof" => [Proof!Next]_proofVars) /\ UNCHANGED part
<1>1. CASE LibraryNext
  BY <1>1 DEF LibraryNext, BenchmarkStep, ParametersStep, LabelsStep, DivisionStep,
              ProofStep, BasisStep
<1>2. CASE UNCHANGED libraryVars
  BY <1>2 DEF libraryVars, proofVars, epaVars
<1> QED
  BY <1>1, <1>2

\* What the prover committed to and answered is what its witness, its blinders and the
\* challenges make of it, in every reachable state of generate_proof.
THEOREM ProofInvariance == LibrarySpec => [](part = "proof" => ProofInv)
<1> DEFINE I == part = "proof" => ProofInv
<1>1. LibraryInit => I
  BY InitProof DEF LibraryInit
<1>2. I /\ [LibraryNext]_libraryVars => I'
  BY NextProof, ProofSteps
<1> QED
  BY <1>1, <1>2, PTL DEF LibrarySpec

\* The proof of partition is complete: whatever the field and its domain, the tokens, the
\* partition, its labels, the blinders and the challenges, verify_proof accepts what
\* generate_proof returns, and generate_proof does not panic unless it has drawn zero for a blinder.
THEOREM HonestProofsVerify == LibrarySpec => []HonestProofVerifies
<1> DEFINE I == part = "proof" => ProofInv
<1>1. I => HonestProofVerifies
  BY ProofVerifies DEF HonestProofVerifies
<1> HIDE DEF I
<1>2. LibrarySpec => []I
  BY ProofInvariance DEF I
<1> QED
  BY <1>1, <1>2, PTL
===============================================================================
