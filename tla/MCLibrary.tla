------------------------------ MODULE MCLibrary ------------------------------
(***************************************************************************)
(* The core library: a run of the benchmark, and what it and the election  *)
(* rest on: the cache of proof parameters, the Lagrange basis, the labels, *)
(* the division and the proof.  They share no state and are taken one at a *)
(* time: `part` says which.                                                *)
(***************************************************************************)
EXTENDS Benchmark, Polynomials

CONSTANTS
    Threads, Sizes,  \* of the cache
    CandidateIds, no_vote, pad, Scalars, MaxCandidates, MaxCounter,  \* of the labels
    Order, root,  \* of the FFT
    Coefficients, MaxQuotient, MaxDivisor, MaxRemainder,  \* of the division
    ProofSize, ProofRoot, TokenVectors, Draws, Challenges, TestScalar,  \* of the proof
    a1, a2, c1       \* model values, see the lists below

\* One candidate, so the least domain is 4: up to 9 voters cross 4 and 8.
OneCandidate   == <<c1>>
TwoAggregators == <<a1, a2>>
SmallDomains   == {2^k : k \in 0..4}

\* One token is zero, one challenge of each sequence too.
SmallTokens     == {[i \in 0..3 |-> IF i = 2 THEN 0 ELSE i + 5]}
SmallChallenges == {<<7, 11, 0>>, <<0, 7, 3>>}

VARIABLES
    part,
    cache, lagrange_g1, thread,
    candidates, hashed, counter, labels,
    pc,  \* of the division, of the proof or of the FFT
    a, b, quotient, remainder, inverse, l, q, r,
    witness, blinders, round1proof, challenges, p_comm,
    size, points, len, done

srsVars == <<cache, lagrange_g1, thread>>
labelVars == <<candidates, hashed, counter, labels>>
divVars == <<a, b, quotient, remainder, inverse, l, q, r>>
epaVars == <<witness, blinders, round1proof, challenges, p_comm>>
fftVars == <<size, points, len, done>>
libraryVars == <<part, vars, srsVars, labelVars, pc, divVars, epaVars, fftVars>>

Cache == INSTANCE SrsCache

ASSUME CacheAssumption == None \notin Cache!Bundles

Derivation == INSTANCE Labels WITH NO_VOTE <- no_vote, PAD <- pad

\* Division is possible.
ASSUME FieldAssumption ==
    /\ P \in Nat
    /\ \A x \in 1..(P - 1) : \E y \in 1..(P - 1) : (x * y) % P = 1

Division == INSTANCE PolyDiv

ASSUME DivisionAssumption ==
    Coefficients \subseteq Field /\ {MaxQuotient, MaxDivisor, MaxRemainder} \subseteq Nat

Proof == INSTANCE Epa WITH n <- ProofSize, omega <- ProofRoot

\* The root generates a domain of that size; there is a challenge for each subset.
ASSUME ProofAssumption ==
    /\ ProofSize \in 2..(P - 1)
    /\ ProofRoot \in 1..(P - 1)
    /\ power(ProofRoot, ProofSize) = 1
    /\ \A d \in 1..(ProofSize - 1) : power(ProofRoot, d) # 1
    /\ TokenVectors \subseteq [0..(ProofSize - 1) -> Field]
    /\ Draws \subseteq Field /\ TestScalar \in Field
    /\ \A chi \in Challenges : chi \in Seq(Field) /\ Len(chi) >= ProofSize - 1

FFT == INSTANCE GroupFFT

\* In which every domain size has its root of unity and an inverse.
ASSUME RootAssumption ==
    /\ Order \in 1..(P - 1) /\ FFT!IsPowerOf2(Order)
    /\ root \in 1..(P - 1)
    /\ FFT!power(root, Order) = 1
    /\ \A d \in 1..(Order - 1) : FFT!power(root, d) # 1

-----------------------------------------------------------------------------

\* Nobody has started a run.
NoBench ==
    /\ Init
    /\ config = [voters |-> 0, assignment |-> "sampled", real_crypto |-> FALSE]

NoLabels == candidates = None /\ hashed = None /\ counter = None /\ labels = None

NoDivision ==
    /\ a = None /\ b = None /\ quotient = None /\ remainder = None
    /\ inverse = None /\ l = None /\ q = None /\ r = None

NoProof ==
    /\ witness = None /\ blinders = None /\ round1proof = None /\ challenges = None
    /\ p_comm = None

NoFFT == size = None /\ points = None /\ len = None /\ done = None

NoAlgebra == pc = None /\ NoDivision /\ NoProof /\ NoFFT

LibraryInit ==
    /\ Cache!Init
    /\ \/ part = "benchmark" /\ Init /\ NoLabels /\ NoAlgebra
       \/ /\ NoBench
          /\ \/ part = "parameters" /\ NoLabels /\ NoAlgebra
             \/ part = "labels" /\ Derivation!Init /\ NoAlgebra
             \/ part = "division" /\ Division!Init /\ NoLabels /\ NoProof /\ NoFFT
             \/ part = "proof" /\ Proof!Init /\ NoLabels /\ NoDivision /\ NoFFT
             \/ part = "basis" /\ FFT!Init /\ NoLabels /\ NoDivision /\ NoProof

BenchmarkStep ==
    /\ part = "benchmark" /\ Next
    /\ UNCHANGED <<part, srsVars, labelVars, pc, divVars, epaVars, fftVars>>

ParametersStep ==
    /\ part = "parameters" /\ Cache!Next
    /\ UNCHANGED <<part, vars, labelVars, pc, divVars, epaVars, fftVars>>

LabelsStep ==
    /\ part = "labels" /\ Derivation!Next
    /\ UNCHANGED <<part, vars, srsVars, pc, divVars, epaVars, fftVars>>

DivisionStep ==
    /\ part = "division" /\ Division!Next
    /\ UNCHANGED <<part, vars, srsVars, labelVars, epaVars, fftVars>>

ProofStep ==
    /\ part = "proof" /\ Proof!Next
    /\ UNCHANGED <<part, vars, srsVars, labelVars, divVars, fftVars>>

BasisStep ==
    /\ part = "basis" /\ FFT!Next
    /\ UNCHANGED <<part, vars, srsVars, labelVars, divVars, epaVars>>

LibraryNext ==
    BenchmarkStep \/ ParametersStep \/ LabelsStep \/ DivisionStep \/ ProofStep \/ BasisStep

\* The other parts only have safety properties.
LibrarySpec == LibraryInit /\ [][LibraryNext]_libraryVars /\ Cache!Fairness

-----------------------------------------------------------------------------

\* See the modules for what each of these says.
OneBundlePerSize == Cache!OneBundlePerSize
BasisOncePerSize == Cache!BasisOncePerSize
WaitersGoOn      == Cache!WaitersGoOn

LabelsDistinct == part = "labels" => Derivation!LabelsDistinct

InverseSoFar  == part = "division" => Division!InverseSoFar
ProverDivides == part = "division" => Division!ProverDivides

HonestProofVerifies == part = "proof" => Proof!HonestProofVerifies
StatementBound      == part = "proof" => Proof!StatementBound

BasisIsLagrange == part = "basis" => FFT!BasisIsLagrange
=============================================================================
