--------------------------------- MODULE Epa ---------------------------------
(***************************************************************************)
(* The proof of partition, EPA (prover.rs, verifier.rs), over a small      *)
(* field.  The prover knows a vector of tokens and a partition of its      *)
(* indices into nonempty subsets, each with a label; the statement is the  *)
(* commitment to the vector, the labels and the sizes of the subsets.      *)
(*                                                                         *)
(* A commitment is the committed polynomial, a pairing the product of two, *)
(* which is what can be said of either without the setup's secret.  The    *)
(* transcript is a random oracle: whatever is absorbed, any challenge may  *)
(* come out, and the verifier, who absorbs the same, gets the same.        *)
(* Indices are those of the paper: the source counts from 0.               *)
(***************************************************************************)
EXTENDS Polynomials

CONSTANTS
    n,            \* size of the domain, and max_degree of the parameters
    omega,        \* its generator
    TokenVectors, \* the vectors there may be
    Draws,        \* what the prover's generator may give as a blinder
    Challenges,   \* what the transcript may give, one challenge after the other
    TestScalar    \* the first scalar of test_rng(), whose seed is fixed

VARIABLES
    pc,
    witness,     \* c_values, subsets_indices; and vote_per_j of the common inputs
    blinders,
    round1proof,
    challenges,
    p_comm       \* p_0_comm, p_nonzero_comm

vars == <<pc, witness, blinders, round1proof, challenges, p_comm>>

-----------------------------------------------------------------------------
(* The evaluation domain. *)

Indices == 0..(n - 1)

element(i) == power(omega, i % n)

\* The product of X - x for the elements x with an index in I.
Vanishing(I) ==
    LET product[i \in 0..n] ==
            IF i = 0 THEN <<1>>
            ELSE IF i - 1 \in I THEN Times(product[i - 1], <<Neg(element(i - 1)), 1>>)
                                ELSE product[i - 1]
    IN  product[n]

z_h == Minus(Monomial(1, n), <<1>>)

interpolate(values) ==
    LET coefficient(k) ==
            LET sum[i \in 0..n] ==
                    IF i = 0 THEN 0
                    ELSE sum[i - 1] + values[i - 1] * element((n - k + 1) * (i - 1))
            IN  sum[n]
    IN  Poly([k \in 1..n |-> (Inv(n) * coefficient(k)) % P])

-----------------------------------------------------------------------------
(* The inputs of a proof: what is left after empty partitions are dropped,  *)
(* with labels in ascending order.                                          *)

subsets_sizes == [j \in DOMAIN witness.subsets_indices |->
                     Cardinality(witness.subsets_indices[j])]

Partitions ==
    UNION {{part \in [1..k -> SUBSET Indices \ {{}}] :
               /\ \A i, j \in 1..k : i # j => part[i] \cap part[j] = {}
               /\ UNION {part[j] : j \in 1..k} = Indices} : k \in 1..(n - 1)}

Ascending(s) == \A i, j \in DOMAIN s : i < j => s[i] < s[j]

LabelIndices(k) == {v \in [1..k -> 1..(n - 1)] : Ascending(v)}

Init ==
    /\ pc = "called"
    /\ \E part \in Partitions : \E c \in TokenVectors : \E v \in LabelIndices(Len(part)) :
          witness = [subsets_indices |-> part, c_values |-> c, vote_per_j |-> v]
    /\ blinders = <<>>
    /\ round1proof = <<>>
    /\ challenges = <<>>
    /\ p_comm = <<>>

Subsets == DOMAIN witness.subsets_indices

c_poly == interpolate(witness.c_values)

Label(j) == element(witness.vote_per_j[j])

\* The values of C on a set of indices, and zero elsewhere.
On(I) == interpolate([i \in Indices |-> IF i \in I THEN witness.c_values[i] ELSE 0])

v_poly(j) == Scale(On(witness.subsets_indices[j]), Inv(Label(j)))

z_poly(j) == Vanishing(witness.subsets_indices[j])

-----------------------------------------------------------------------------
(* The prover. *)

\* The r blinders multiply to 1.
Blind(r, s) == [r |-> Append(r, Inv(ProductOf([j \in DOMAIN r |-> <<r[j]>>])[1])), s |-> s]

\* An MSM in G2 takes as many coefficients as there are powers.
g2_commit(p) == Poly(Take(p, n + 1))

\* Mutant: the parameters are trimmed to the degree of what is interpolated.
g1_commits_fewer(p) == Len(p) <= n

\* KZG10::commit refuses what is longer.
g1_commits(p) == Len(p) <= n + 1

\* X^(d - m_j) Z'_j
x_poly(j, z) == Poly([i \in 1..(n - subsets_sizes[j]) |-> 0] \o z)

blinded_z(b) == [j \in Subsets |-> Scale(z_poly(j), b.r[j])]

blinded_v(z, b) == [j \in Subsets |-> Plus(v_poly(j), Scale(z[j], b.s[j]))]

\* The products between the first z and that of all.
partial_accumulators(z) ==
    [i \in 1..(IF Len(z) < 2 THEN 0 ELSE Len(z) - 2) |-> ProductOf(SubSeq(z, 1, i + 1))]

commitments(b) ==
    LET z == blinded_z(b)
    IN  [z |-> [j \in Subsets |-> IF j = 1 THEN z[j] ELSE g2_commit(z[j])],
         v |-> blinded_v(z, b),
         x |-> [j \in Subsets |-> x_poly(j, z[j])],
         y |-> partial_accumulators(z)]

\* With the blinders that were drawn before.
Panic(drawn) ==
    /\ pc' = "panic"
    /\ blinders' = drawn
    /\ UNCHANGED <<witness, round1proof, challenges, p_comm>>

\* Up to generate_commitments; a blinder that is zero has no inverse.
Round1 ==
    /\ pc = "called"
    /\ \E r \in [1..(Cardinality(Subsets) - 1) -> Draws] : \E s \in [Subsets -> Draws] :
          LET b     == Blind(r, s)
              proof == commitments(b)
              inG1  == <<proof.z[1]>> \o proof.x \o proof.v \o proof.y
          IN  IF 0 \in {r[j] : j \in DOMAIN r} \/ \E i \in DOMAIN inG1 : ~g1_commits(inG1[i])
              THEN Panic([r |-> r, s |-> s])
              ELSE /\ pc' = "round 2"
                   /\ blinders' = b
                   /\ round1proof' = proof
                   /\ UNCHANGED <<witness, challenges, p_comm>>

\* generate_quotient_polys
p_1(j) == Scale(Quotient(z_h, z_poly(j)), Inv(blinders.r[j]))

\* Mutant: the scalar that makes up for the blinder of V is left out.
p_2_unblinded(j) ==
    LET dividend == On(Indices \ witness.subsets_indices[j])
    IN  Scale(Quotient(dividend, z_poly(j)), Inv(blinders.r[j]))

p_2(j) ==
    LET dividend == On(Indices \ witness.subsets_indices[j])
    IN  Minus(Scale(Quotient(dividend, z_poly(j)), Inv(blinders.r[j])),
              Poly(<<(Label(j) * blinders.s[j]) % P>>))

\* One for each subset.
get_challenges == {Take(chi, Cardinality(Subsets)) : chi \in Challenges}

\* The rest of generate_proof.
Round2 ==
    /\ pc = "round 2"
    /\ \E chi \in get_challenges :
          LET p == [j \in Subsets |-> Plus(p_1(j), Scale(p_2(j), chi[j]))]
          IN  IF \E j \in Subsets \ {1} : ~g1_commits(p[j])
              THEN Panic(blinders)
              ELSE /\ pc' = "proved"
                   /\ challenges' = chi
                   /\ p_comm' = [p EXCEPT ![1] = g2_commit(p[1])]
                   /\ UNCHANGED <<witness, blinders, round1proof>>

Next == Round1 \/ Round2

Spec == Init /\ [][Next]_vars

-----------------------------------------------------------------------------
(* The verifier. *)

\* Mutant: the degree checks have no weight.
phi_unset == 0

\* What the degree checks are weighted with.
phi == TestScalar

\* y_comm_full, from [z_1] to [Z_H].
y_full == <<round1proof.z[1]>> \o round1proof.y \o <<z_h>>

\* The two sides of the j-th pairing check, for the labels and sizes of a statement.
pairing(j, votes, sizes) ==
    LET masked   == Minus(c_poly, Scale(round1proof.v[j], element(votes[j])))
        monomial == Monomial(phi, n - sizes[j])
        c        == SumOf(<<z_h, Scale(masked, challenges[j]), Scale(round1proof.x[j], phi)>>)
        phi2     == (phi * phi) % P
    IN  IF j = 1
        THEN [ab |-> Times(round1proof.z[1], Plus(p_comm[1], monomial)), c |-> c]
        ELSE [ab |-> Times(SumOf(<<p_comm[j], monomial, Scale(y_full[j - 1], phi2)>>),
                           round1proof.z[j]),
              c  |-> Plus(c, Scale(y_full[j], phi2))]

\* check_pairings: all in one sum, weighted with the powers of a scalar.
check_pairings(pairings) ==
    SumOf([j \in DOMAIN pairings |->
              Scale(Minus(pairings[j].ab, pairings[j].c), power(TestScalar, j))]) = <<>>

verify_proof(votes, sizes) ==
    check_pairings([j \in Subsets |-> pairing(j, votes, sizes)])

-----------------------------------------------------------------------------
(* Properties. *)

\* Whatever the partition, one subset only included, and whatever the blinders and the
\* challenges, the verifier accepts the proof of what is so; and the prover panics only
\* if it has drawn zero for a blinder, "negligible": no polynomial that it commits to in
\* either round is too long for the parameters.
HonestProofVerifies ==
    /\ pc = "proved" => verify_proof(witness.vote_per_j, subsets_sizes)
    /\ pc = "panic" => \E j \in DOMAIN blinders.r : blinders.r[j] = 0

\* The proof is of this statement: with other sizes, that add up as the adapter demands, it
\* is refused, and so it is with another label for one of the subsets, unless the
\* challenge wipes the label out or what it labels is zero.
StatementBound ==
    pc = "proved" =>
        /\ \A sizes \in [Subsets -> 1..n] :
              SumFunction(sizes) = n /\ sizes # subsets_sizes =>
                  ~verify_proof(witness.vote_per_j, sizes)
        /\ \A j \in Subsets : \A label \in 1..(n - 1) \ {witness.vote_per_j[j]} :
              challenges[j] # 0 /\ round1proof.v[j] # <<>> =>
                  ~verify_proof([witness.vote_per_j EXCEPT ![j] = label], subsets_sizes)
=============================================================================
