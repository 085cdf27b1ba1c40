\* One file of two chunks; either side may stop and start again, either user may give up.
SPECIFICATION Spec
CONSTANTS
    Media = {a}
    Total = 2
    MaxRuns = 1
    Events = {"senderCrash", "receiverCrash", "abort", "abortError", "read", "old", "decline", "delete"}
    Workers = {w1}
    QueueCap = 1
    RetryLimit = 1
    RestoreLimit = 1
    MaxInFlight = 1
    None = None
CONSTRAINT FewInFlight
INVARIANTS
    SourceKept
    RememberedIsTracked
PROPERTIES
    ImplementsDelivery
    AbortStopsRun
\* A finished transfer leaves nothing to do.
CHECK_DEADLOCK FALSE
