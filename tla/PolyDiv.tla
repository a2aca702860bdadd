------------------------------- MODULE PolyDiv -------------------------------
(***************************************************************************)
(* Exact division of polynomials by power-series inversion (fast_div.rs),  *)
(* with which the prover makes its quotient polynomials: the inverse of    *)
(* the divisor is lifted from mod X to mod X^2, X^4, ..., multiplied with  *)
(* the dividend, and cut.                                                  *)
(*                                                                         *)
(* The field is the integers modulo a small prime.                         *)
(***************************************************************************)
EXTENDS Polynomials

CONSTANTS
    Coefficients,  \* of the divisor, the quotient and the remainder
    MaxQuotient, MaxDivisor, MaxRemainder  \* bounds: how many of them

VARIABLES
    a, b,     \* dividend and divisor
    quotient, remainder,  \* what Euclidean division of a by b gives
    pc,
    inverse,  \* current_inv
    l,        \* inverse is one modulo X^l
    q, r      \* quotient and remainder

input == <<a, b, quotient, remainder>>
vars == <<input, pc, inverse, l, q, r>>

PolysUpTo(n) == {Poly(s) : s \in [1..n -> Coefficients]}

-----------------------------------------------------------------------------
(* fast_div.rs *)

\* rev: the coefficients at the front of `size` zeros, which are trimmed again.
rev(p, size) == Poly([i \in 1..size |-> Coefficient(p, i - 1)])

\* Mutant: the correction is put below its place when the inverse has zeros at its end.
hensel_lift_unpadded(poly, inv, deg) ==
    LET product == Times(Poly(Take(poly, 2 * deg)), inv)
        c       == Poly(SubSeq(product, deg + 1, IF 2 * deg < Len(product) THEN 2 * deg
                                                                          ELSE Len(product)))
        above   == Take(Times(inv, c), deg)
    IN  IF degree(product) < deg THEN inv
        ELSE Poly(inv \o [i \in DOMAIN above |-> (P - above[i]) % P])

\* With product = 1 + c X^deg, the lower half of -inv c is put above inv.
hensel_lift(poly, inv, deg) ==
    LET product == Times(Poly(Take(poly, 2 * deg)), inv)
        c       == Poly(SubSeq(product, deg + 1, IF 2 * deg < Len(product) THEN 2 * deg
                                                                          ELSE Len(product)))
        lower   == [i \in 1..(IF Len(inv) < deg THEN deg ELSE Len(inv)) |-> Coefficient(inv, i - 1)]
        above   == Take(Times(inv, c), deg)
    IN  IF degree(product) < deg THEN inv
        ELSE Poly(lower \o [i \in DOMAIN above |-> (P - above[i]) % P])

rev_a == rev(a, degree(a) + 1)
rev_b == rev(b, degree(b) + 1)
inversion_degree == degree(a) - degree(b) + 1

Init ==
    /\ b \in PolysUpTo(MaxDivisor)
    /\ remainder \in PolysUpTo(MaxRemainder) /\ (remainder = <<>> \/ Len(remainder) < Len(b))
    /\ quotient \in PolysUpTo(MaxQuotient)
    /\ a = Plus(Times(b, quotient), remainder)
    /\ pc = "called"
    /\ inverse = <<>>
    /\ l = 0
    /\ q = <<>>
    /\ r = <<>>

Panic ==
    /\ pc' = "panic"
    /\ UNCHANGED <<input, inverse, l, q, r>>

\* Nothing to divide by; or more than there is to divide.
Refuse == pc = "called" /\ b = <<>> /\ Panic

TooShort ==
    /\ pc = "called" /\ b # <<>> /\ degree(b) > degree(a)
    /\ pc' = "divided"
    /\ r' = a
    /\ UNCHANGED <<input, inverse, l, q>>

\* The first step of inverse_mod; one over zero panics.
StartInverse ==
    /\ pc = "called" /\ b # <<>> /\ degree(b) <= degree(a)
    /\ IF rev_b[1] = 0
       THEN Panic
       ELSE /\ pc' = "lift"
            /\ inverse' = <<Inv(rev_b[1])>>
            /\ l' = 1
            /\ UNCHANGED <<input, q, r>>

Lift ==
    /\ pc = "lift" /\ l < inversion_degree
    /\ inverse' = hensel_lift(rev_b, inverse, l)
    /\ l' = 2 * l
    /\ UNCHANGED <<input, pc, q, r>>

\* Mutant: one coefficient of the quotient is cut off.
QuotientLength_short == inversion_degree - 1

QuotientLength == inversion_degree

\* The rest of div_rem; a product that is too short to be cut panics.
Divide ==
    LET cut      == Take(inverse, inversion_degree + 1)
        product  == Times(Poly(cut), rev_a)
        cut_q    == rev(Poly(Take(product, QuotientLength)), inversion_degree)
    IN  /\ pc = "lift" /\ l >= inversion_degree
        /\ IF Len(product) < inversion_degree
           THEN Panic
           ELSE /\ pc' = "divided"
                /\ q' = cut_q
                /\ r' = Minus(a, Times(b, cut_q))
                /\ UNCHANGED <<input, inverse, l>>

\* poly_div panics on a remainder.
poly_div ==
    /\ pc = "divided"
    /\ IF r # <<>> THEN Panic
                   ELSE pc' = "returned" /\ UNCHANGED <<input, inverse, l, q, r>>

Next == Refuse \/ TooShort \/ StartInverse \/ Lift \/ Divide \/ poly_div

Spec == Init /\ [][Next]_vars /\ WF_vars(Next)

-----------------------------------------------------------------------------
(* Properties. *)

\* The loop invariant of Hensel lifting: after k rounds the inverse is right modulo X^(2^k),
\* whatever zeros it has inside or at its end.
InverseSoFar == pc = "lift" => Poly(Take(Times(inverse, rev_b), l)) = <<1>>

Exact == remainder = <<>>

\* What the prover divides by: a product of X - x for points x of a domain, none of them 0.
DivisorOfProver == b # <<>> /\ b[1] # 0 /\ degree(b) > 0

\* The prover's exact divisions return the quotient, all of it, and an inexact division
\* is found out.
ProverDivides ==
    DivisorOfProver =>
        /\ Exact => pc # "panic"
        /\ pc = "returned" => Exact /\ q = quotient
=============================================================================
