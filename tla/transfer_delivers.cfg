\* Nothing is lost: two files, one worker, a queue of one.
SPECIFICATION ReliableSpec
CONSTANTS
    Media = {a, b}
    Total = 1
    MaxRuns = 1
    Events = {}
    Workers = {w1}
    QueueCap = 1
    RetryLimit = 1
    RestoreLimit = 1
    MaxInFlight = 2
    None = None
INVARIANTS
    OneFileAtATime
    TurnHasOwner
PROPERTIES
    AcceptedIsReceived
\* A finished transfer leaves nothing to do.
CHECK_DEADLOCK FALSE
