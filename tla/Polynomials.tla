----------------------------- MODULE Polynomials -----------------------------
(***************************************************************************)
(* What the proof library takes from arkworks: polynomials over a prime    *)
(* field.  A polynomial is the sequence of its coefficients, constant term *)
(* first, without zeros at the end, as DensePolynomial keeps it.           *)
(***************************************************************************)
EXTENDS Integers, SequencesExt

CONSTANT P  \* order of the field, a prime

Field == 0..(P - 1)

Inv(x) == CHOOSE y \in 1..(P - 1) : (x * y) % P = 1

Neg(x) == (P - x) % P

power(x, k) ==
    LET pow[i \in Nat] == IF i = 0 THEN 1 ELSE (x * pow[i - 1]) % P
    IN  pow[k]

Take(s, n) == SubSeq(s, 1, IF n < Len(s) THEN n ELSE Len(s))

\* from_coefficients_slice
Poly(s) ==
    LET nonzero == {i \in DOMAIN s : s[i] # 0}
    IN  IF nonzero = {} THEN <<>> ELSE Take(s, Max(nonzero))

\* 0 for the zero polynomial.
degree(p) == IF p = <<>> THEN 0 ELSE Len(p) - 1

Coefficient(p, i) == IF i + 1 \in DOMAIN p THEN p[i + 1] ELSE 0

Plus(p, s) ==
    Poly([k \in 1..(Len(p) + Len(s)) |-> (Coefficient(p, k - 1) + Coefficient(s, k - 1)) % P])

Times(p, s) ==
    LET coefficient(k) ==
            LET sum[i \in 0..Len(p)] ==
                    IF i = 0 THEN 0 ELSE sum[i - 1] + p[i] * Coefficient(s, k - i)
            IN  sum[Len(p)]
    IN  Poly([k \in 1..(Len(p) + Len(s)) |-> coefficient(k) % P])

Scale(p, x) == Poly([k \in DOMAIN p |-> (p[k] * x) % P])

Minus(p, s) == Plus(p, Scale(s, P - 1))

\* x X^k
Monomial(x, k) == Poly([i \in 1..(k + 1) |-> IF i = k + 1 THEN x ELSE 0])

\* The quotient of a division without remainder, from its highest coefficient down.
Quotient(p, s) ==
    LET size == IF Len(s) <= Len(p) THEN Len(p) + 1 - Len(s) ELSE 0
        step[j \in 0..size] ==
            IF j = 0 THEN [rest |-> p, sum |-> <<>>]
            ELSE LET last == step[j - 1]
                     k    == size - j
                     lead == Coefficient(last.rest, k + Len(s) - 1)
                     term == Monomial((lead * Inv(s[Len(s)])) % P, k)
                 IN  [rest |-> Minus(last.rest, Times(s, term)), sum |-> Plus(last.sum, term)]
    IN  step[size].sum

SumOf(ps) ==
    LET sum[j \in 0..Len(ps)] == IF j = 0 THEN <<>> ELSE Plus(sum[j - 1], ps[j])
    IN  sum[Len(ps)]

ProductOf(ps) ==
    LET product[j \in 0..Len(ps)] == IF j = 0 THEN <<1>> ELSE Times(product[j - 1], ps[j])
    IN  product[Len(ps)]
=============================================================================
