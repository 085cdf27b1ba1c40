\* Two people who may greet each other, with removals and restarts; one offer.
SPECIFICATION ConsentSpec
CONSTANTS
    alice = alice
    bob = bob
    Peer <- Couple
    ContactScenarios = {{}, {"remove", "stop"}}
    MaxHellos <- TwoAndOne
    OfferScenarios = {{}, {"loss", "restart", "withdraw"}}
    MaxRuns = 2
CONSTRAINT FewGreeted
INVARIANTS
    ConsentTypeOK
    ConfirmedByBoth
    ConfirmedKnowsMe
    NothingSentUnasked
    ShownIsStored
PROPERTIES
    HelloBecomesRequest
    ViewsAgree
    OfferEnds
    AcceptStarts
\* Two people may have nothing more to tell each other.
CHECK_DEADLOCK FALSE
