\* Two calls that overlap: does polling go on?
SPECIFICATION Spec
CONSTANTS
    r1 = r1
    r2 = r2
    None = None
    Calls = {r1, r2}
    MaxJobs = 1
    MaxEvents = 1
    Scenarios <- Overlapping
INVARIANTS
    StartedJobsAreWatched
