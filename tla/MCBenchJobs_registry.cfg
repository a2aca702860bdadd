\* Two jobs that may be created at the same time, and lists taken meanwhile.
SPECIFICATION Spec
CONSTANTS
    k1 = k1
    k2 = k2
    None = None
    Clients = {k1, k2}
    MaxJobs = 2
    NumAggregators = 1
    Modes = {"simulation"}
SYMMETRY ClientSymmetry
PROPERTIES
    AnnouncedJobsAreFound
