\* One voter, one aggregator: is a displayed verification that of the displayed tally?
SPECIFICATION Spec
CONSTANTS
    a1 = a1
    a2 = a2
    c1 = c1
    c2 = c2
    None = None
    Stranger = Stranger
    Candidates <- TwoCandidates
    AggregatorList <- OneAggregator
    DomainSizes <- SmallDomains
    MaxVoters = 1
    BatchSizes = {1}
    PhaseNames = {"registration", "voting"}
    MaxBulletin = 9
INVARIANTS
    VerifiedMeansTheseCounts
