\* The receiver dies between the acknowledgement and the chunk file.
SPECIFICATION Spec
CONSTANTS
    Media = {a}
    Total = 1
    MaxRuns = 1
    Events = {"receiverCrash"}
    Workers = {w1}
    QueueCap = 1
    RetryLimit = 1
    RestoreLimit = 1
    MaxInFlight = 2
    None = None
CONSTRAINT FewInFlight
INVARIANTS
    AckedIsHeld
\* A finished transfer leaves nothing to do.
CHECK_DEADLOCK FALSE
