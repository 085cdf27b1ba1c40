\* One file of two chunks, answers slower than the backoff: retries and duplicates.
SPECIFICATION Spec
CONSTANTS
    Media = {a}
    Total = 2
    MaxRuns = 1
    Events = {"loss", "slow"}
    Workers = {w1}
    QueueCap = 1
    RetryLimit = 1
    RestoreLimit = 1
    MaxInFlight = 1
    None = None
CONSTRAINT FewInFlight
INVARIANTS
    TypeOK
    AckedIsHeld
    LaunchedIsTracked
    AssembledIsComplete
\* A finished transfer leaves nothing to do.
CHECK_DEADLOCK FALSE
