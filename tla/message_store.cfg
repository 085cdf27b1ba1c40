\* Two copies of a chunk and a text that expires.
SPECIFICATION Spec
CONSTANTS
    file = file
    copy0 = copy0
    copy0again = copy0again
    text = text
    alice = alice
    bob = bob
    Id <- Ids
    Peer <- Peers
    Part <- Parts
    Header <- Headers
    None = None
    MaxScored = 1
    MaxSaved = 3
CONSTRAINT FewSaved
PROPERTY ImplementsTable
INVARIANTS
    TypeOK
    IndexExact
    ChunkFound
    ClearedWasFetched
