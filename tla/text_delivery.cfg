\* One text with any TTL, both sharing readings or not; a lossy network, one restart.
SPECIFICATION FairTextSpec
CONSTANTS
    Text = {t1}
    TtlModes <- AnyTtl
    Scenarios = {{"loss", "removed"}, {"loss", "senderRestart"}, {"loss", "receiverRestart"}}
    MaxRestarts = 1
CONSTRAINT PlainRestarts
INVARIANTS
    TextTypeOK
    QueuedUntilDelivered
    ConfirmedIsReceived
PROPERTIES
    HardStaysGone
    TtlTextGoes
    QueueDrains
    SentIsReceived
\* A message that was delivered leaves nothing to do.
CHECK_DEADLOCK FALSE
