\* The board, of any length: the view keeps what its properties depend on.
SPECIFICATION Spec
CONSTANTS
    a1 = a1
    a2 = a2
    c1 = c1
    c2 = c2
    None = None
    Stranger = Stranger
    Candidates <- TwoCandidates
    AggregatorList <- TwoAggregators
    DomainSizes <- SmallDomains
    MaxVoters = 2
    BatchSizes = {0, 1, 2}
    PhaseNames = {"setup", "registration", "voting", "tally", "closed", "paused"}
    MaxBulletin = 1000
VIEW BoardView
INVARIANTS
    TypeOK
    DelegationConsistent
    RegistrationFrozen
    EveryTallyProvable
    TallyAccountsForDelegates
    NoBallotCountedTwice
    BoardTellsState
    GlobalTallyAuditable
PROPERTIES
    ImplementsBallotBox
    NoBallotLost
