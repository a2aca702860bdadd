\* Server: two changes, a read of the elections and a request that does not touch them,
\* one thread that polls all tasks.  Browser: two calls and a benchmark.
SPECIFICATION DeploymentSpec
CONSTANTS
    None = None
    Changes = {w1, w2}
    Reads = {g1}
    Others = {o1}
    Workers = 1
    MaxTime = 1
    Calls = {c1, c2, b1}
    Looks = {}
    Benchmarks = {b1}
CHECK_DEADLOCK FALSE
INVARIANTS
    BoardInTimeOrder
    MessagesInOrder
PROPERTIES
    ImplementsService
    RequestsEnd
