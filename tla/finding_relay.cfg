\* The node starts without a network, and then has one for good.
SPECIFICATION TransportSpec
CONSTANTS
    t1 = t1
    t2 = t2
    t3 = t3
    BatchText = {}
    TextSize <- NoSizes
    BatchLimit = 4
    FlushCount = 2
    BatchScenarios = {{}}
    l1 = l1
    l2 = l2
    Person = {}
    Sender = s
    Letter <- Letters
    LetterKinds <- Kinds
    LossyRoutes = {TRUE}
PROPERTIES
    OnlineHasSlot
\* Every text and letter may have been sent.
CHECK_DEADLOCK FALSE
