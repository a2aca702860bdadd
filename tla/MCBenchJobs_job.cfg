\* Two clients that may ask for anything forever, and one job of any kind.
SPECIFICATION Spec
CONSTANTS
    k1 = k1
    k2 = k2
    None = None
    Clients = {k1, k2}
    MaxJobs = 1
    NumAggregators = 1
    Modes = {"invalid", "simulation", "real"}
INVARIANTS
    EndedAnswersCarryResult
    LastAnswerHasAllEvents
PROPERTIES
    EndedIsFinal
    JobsEnd
    RequestsAnswered
