------------------------------- MODULE GroupFFT -------------------------------
(***************************************************************************)
(* The commitments to the Lagrange basis of a domain (domain.rs), made     *)
(* from the powers of the parameters by an inverse FFT over the group.     *)
(* The chunks of a round are worked on in parallel, in any order.          *)
(*                                                                         *)
(* A group element is a linear combination of the powers [t^k] of the      *)
(* unknown t: the function of its coefficients.                            *)
(***************************************************************************)
EXTENDS Polynomials

CONSTANTS
    Order,  \* the largest size, a power of two
    root    \* an element of that order

VARIABLES
    pc,
    size,    \* of the domain, n in the source
    points,
    len,     \* length of the chunks of this round
    done     \* where the chunks begin that were worked on

vars == <<pc, size, points, len, done>>

-----------------------------------------------------------------------------

Indices == 0..(size - 1)

\* The generator of the domain of this size, and its inverse.
omega == power(root, Order \div size)
omega_inv == Inv(omega)

Add(u, v) == [k \in Indices |-> (u[k] + v[k]) % P]

Mul(v, x) == [k \in Indices |-> (v[k] * x) % P]

Sub(u, v) == Add(u, Mul(v, P - 1))

two[k \in Nat] == IF k = 0 THEN 1 ELSE 2 * two[k - 1]

IsPowerOf2(m) == \E k \in 0..m : m = two[k]

\* The lowest bit becomes the highest.
bit_reverse[bits \in Nat] == [value \in Nat |->
    IF bits = 0 THEN 0
    ELSE (value % 2) * two[bits - 1] + bit_reverse[bits - 1][value \div 2]]

log_n == CHOOSE k \in 0..size : size = two[k]

\* As many powers as the domain has elements.
Init ==
    /\ pc = "called"
    /\ size \in {m \in 1..Order : IsPowerOf2(m)}
    /\ points = [i \in Indices |-> [k \in Indices |-> IF k = i THEN 1 ELSE 0]]
    /\ len = 2
    /\ done = {}

\* The swaps of each index with its reverse, once.
swap_all ==
    /\ pc = "called"
    /\ pc' = "rounds"
    /\ points' = [i \in Indices |-> points[bit_reverse[log_n][i]]]
    /\ UNCHANGED <<size, len, done>>

\* Mutant: the twiddle of the last round in every round.
w_len_of_last == omega_inv

\* The root of unity of the order of this round.
w_len == power(omega_inv, size \div len)

Chunks == {i \in Indices : i % len = 0}

\* The butterflies of the chunk that begins at `start`.
butterflies(start) ==
    LET half == len \div 2
        t(j) == Mul(points[start + j + half], power(w_len, j))
        u(j) == points[start + j]
    IN  /\ pc = "rounds" /\ len <= size
        /\ start \in Chunks \ done
        /\ points' = [i \in Indices |->
               CASE i - start \in 0..(half - 1) -> Add(u(i - start), t(i - start))
                 [] i - start \in half..(len - 1) -> Sub(u(i - start - half), t(i - start - half))
                 [] OTHER -> points[i]]
        /\ done' = done \cup {start}
        /\ UNCHANGED <<pc, size, len>>

NextRound ==
    /\ pc = "rounds" /\ len <= size
    /\ done = Chunks
    /\ len' = 2 * len
    /\ done' = {}
    /\ UNCHANGED <<pc, size, points>>

\* The division by n at the end of lagrange_basis_commitments.
ScaleAll ==
    /\ pc = "rounds" /\ len > size
    /\ pc' = "returned"
    /\ points' = [i \in Indices |-> Mul(points[i], Inv(size % P))]
    /\ UNCHANGED <<size, len, done>>

Next ==
    \/ swap_all
    \/ \E start \in Indices : butterflies(start)
    \/ NextRound
    \/ ScaleAll

Spec == Init /\ [][Next]_vars

-----------------------------------------------------------------------------
(* Properties. *)

\* The i-th point is the commitment to L_i, the polynomial that is one at the i-th element
\* of the domain and zero at the others, in whatever order the chunks were worked on and
\* for every size, a single point included.
BasisIsLagrange ==
    pc = "returned" =>
        \A i, m \in Indices :
            SumFunction([k \in Indices |-> points[i][k] * power(omega, (m * k) % size)]) % P
                = IF i = m THEN 1 ELSE 0
=============================================================================
