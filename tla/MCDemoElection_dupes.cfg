\* An election created with the same aggregator id twice.
SPECIFICATION Spec
CONSTANTS
    a1 = a1
    a2 = a2
    c1 = c1
    c2 = c2
    None = None
    Stranger = Stranger
    Candidates <- TwoCandidates
    AggregatorList <- SameAggregatorTwice
    DomainSizes <- SmallDomains
    MaxVoters = 1
    BatchSizes = {1}
    PhaseNames = {"registration", "voting"}
    MaxBulletin = 9
INVARIANTS
    NoBallotCountedTwice
