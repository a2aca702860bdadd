\* Benchmark: up to 9 voters.  Parameters: three threads, two sizes that are cached and one
\* that is refused.  Labels: up to four, and no scalar to spare.
SPECIFICATION LibrarySpec
CONSTANTS
    None = None
    a1 = a1
    a2 = a2
    c1 = c1
    Candidates <- OneCandidate
    AggregatorList <- TwoAggregators
    DomainSizes <- SmallDomains
    MaxVoters = 9
    Threads = {t1, t2, t3}
    Sizes = {4, 6, 8}
    CandidateIds = {c1, c2}
    no_vote = no_vote
    pad = pad
    Scalars = {0, 1, 2, 3, 4}
    MaxCandidates = 2
    MaxCounter = 1
    P = 17
    Order = 8
    root = 2
    Coefficients = {0, 1, 16}
    MaxQuotient = 4
    MaxDivisor = 3
    MaxRemainder = 1
    ProofSize = 4
    ProofRoot = 4
    TokenVectors <- SmallTokens
    Draws = {0, 3}
    Challenges <- SmallChallenges
    TestScalar = 5
CHECK_DEADLOCK FALSE
INVARIANTS
    HonestResult
    OnlyOutsideFailures
    DomainIsTight
    TallyBinds
    OneBundlePerSize
    BasisOncePerSize
    LabelsDistinct
    InverseSoFar
    ProverDivides
    HonestProofVerifies
    StatementBound
    BasisIsLagrange
PROPERTIES
    WaitersGoOn
