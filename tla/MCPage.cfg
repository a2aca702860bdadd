\* Benchmark tab: one call at a time; two calls that overlap; two that overlap, with
\* requests that may fail.  Election tabs: three clicks, two requests under way, one lost.
SPECIFICATION PageSpec
CONSTANTS
    r1 = r1
    r2 = r2
    None = None
    Calls = {r1, r2}
    MaxJobs = 2
    MaxEvents = 3
    Scenarios <- AllScenarios
    MaxMoves = 3
    MaxCalls = 2
    MaxLosses = 1
INVARIANTS
    NoEventSkipped
    IdleShowsNothingRunning
    UndisturbedLog
    UndisturbedWatch
    UserChoiceKept
PROPERTIES
    EveryEventLogged
    PageSettles
