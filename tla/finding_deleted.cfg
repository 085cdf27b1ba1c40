\* A late answer brings a deleted contact back.
SPECIFICATION ConsentSpec
CONSTANTS
    alice = alice
    bob = bob
    Peer <- Couple
    ContactScenarios = {{"remove"}}
    MaxHellos <- OneEach
    OfferScenarios = {{}}
    MaxRuns = 1
PROPERTIES
    DeletedStaysDeleted
\* Two people may have nothing more to tell each other.
CHECK_DEADLOCK FALSE
