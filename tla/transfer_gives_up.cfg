\* The receiver and the network owe nothing.
SPECIFICATION LossySpec
CONSTANTS
    Media = {a}
    Total = 1
    MaxRuns = 1
    Events = {"loss", "slow", "key"}
    Workers = {w1}
    QueueCap = 1
    RetryLimit = 2
    RestoreLimit = 1
    MaxInFlight = 2
    None = None
PROPERTIES
    EntriesLeave
\* A finished transfer leaves nothing to do.
CHECK_DEADLOCK FALSE
