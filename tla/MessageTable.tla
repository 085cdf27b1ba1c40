---------------------------- MODULE MessageTable ----------------------------
(***************************************************************************)
(* What the table of messages promises, without slices and positions: a    *)
(* message that was added stays until it is deleted by its own msgID or    *)
(* has expired, keeps its data unless it is a chunk, and is there again    *)
(* after a restart when it was in the last save.  An operation never does  *)
(* anything to another message.  MessageStore implements this.             *)
(***************************************************************************)
CONSTANTS
    Id,         \* msgIDs
    Chunk,      \* those of chunks of files: only they may lose their data
    Expiring    \* those of messages with a TTL

VARIABLES
    stored,     \* messages in the table
    data,       \* those that have their data
    kept,       \* messages in the last save
    keptData,   \* those whose data is in it
    doomed      \* messages a deletion has listed and not yet come to

table == <<stored, data>>
save == <<kept, keptData>>
tableVars == <<table, save, doomed>>

Init == stored = {} /\ data = {} /\ kept = {} /\ keptData = {} /\ doomed = {}

Add(i) ==
    /\ i \notin stored
    /\ stored' = stored \cup {i}
    /\ data' = data \cup {i}
    /\ UNCHANGED <<save, doomed>>

\* The app has taken over the data of a chunk.
Clear(i) ==
    /\ i \in stored \cap Chunk
    /\ data' = data \ {i}
    /\ UNCHANGED <<stored, save, doomed>>

List(ids) ==
    /\ ids \subseteq stored
    /\ doomed' = doomed \cup ids
    /\ UNCHANGED <<table, save>>

\* A listed message that has gone in the meantime is passed over.
Remove(i) ==
    /\ i \in doomed
    /\ stored' = stored \ {i}
    /\ data' = data \ {i}
    /\ doomed' = doomed \ {i}
    /\ UNCHANGED save

Expire(ids) ==
    /\ ids \subseteq stored \cap Expiring
    /\ stored' = stored \ ids
    /\ data' = data \ ids
    /\ UNCHANGED <<save, doomed>>

\* A save leaves out what has expired, and the data of chunks.
Save(ids) ==
    /\ ids \subseteq stored \cap Expiring
    /\ kept' = stored \ ids
    /\ keptData' = data \ (ids \cup Chunk)
    /\ UNCHANGED <<table, doomed>>

Restart(ids) ==
    /\ ids \subseteq kept \cap Expiring
    /\ stored' = kept \ ids
    /\ data' = keptData \ ids
    /\ doomed' = {}
    /\ UNCHANGED save

Next ==
    \/ \E i \in Id : Add(i) \/ Clear(i) \/ Remove(i)
    \/ \E ids \in SUBSET Id : List(ids) \/ Expire(ids) \/ Save(ids) \/ Restart(ids)

Spec == Init /\ [][Next]_tableVars

\* Of a message that is no chunk nothing is ever lost but the whole: what is in the table
\* or in a save has its data, through any number of saves and restarts.
Whole ==
    /\ data \subseteq stored /\ stored \ Chunk \subseteq data
    /\ keptData \subseteq kept /\ kept \ Chunk \subseteq keptData
=============================================================================
