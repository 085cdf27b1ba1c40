\* Three texts at once; the second finds the buffer full, the third comes between.
SPECIFICATION TransportSpec
CONSTANTS
    t1 = t1
    t2 = t2
    t3 = t3
    BatchText <- Texts
    TextSize <- Sizes
    BatchLimit = 4
    FlushCount = 3
    BatchScenarios = {{}}
    l1 = l1
    l2 = l2
    Person = {}
    Sender = s
    Letter <- Letters
    LetterKinds <- Kinds
    LossyRoutes = {TRUE}
INVARIANTS
    ComposedIsTracked
\* Every text and letter may have been sent.
CHECK_DEADLOCK FALSE
