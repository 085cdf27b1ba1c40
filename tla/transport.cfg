\* Three texts in batches; one node and its bootstrap; a letter, a dummy and three contacts.
SPECIFICATION TransportSpec
CONSTANTS
    t1 = t1
    t2 = t2
    t3 = t3
    BatchText <- Texts
    TextSize <- Sizes
    BatchLimit = 4
    FlushCount = 2
    BatchScenarios = {{"loss", "restart"}, {"forget"}}
    l1 = l1
    l2 = l2
    Person = {p1, p2, p3}
    Sender = s
    Letter <- Letters
    LetterKinds <- Kinds
    LossyRoutes = {TRUE, FALSE}
INVARIANTS
    TransportTypeOK
    BatchedOnce
    RelaysUnlinked
PROPERTIES
    TextRetriesEnd
    GoneIsForgotten
    ReachableAgain
    OnionArrives
\* Every text and letter may have been sent.
CHECK_DEADLOCK FALSE
