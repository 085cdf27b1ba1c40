--------------------------- MODULE MCMessageStore ---------------------------
(***************************************************************************)
(* A small instance of MessageStore for TLC: two copies of one chunk, made *)
(* by two runs of its transfer, and a text with a TTL.                     *)
(***************************************************************************)
EXTENDS MessageStore

CONSTANTS
    file, copy0, copy0again, text, alice, bob,
    MaxSaved    \* bound: messages in the state file of a state TLC goes on from

Chunk(i) == [media |-> file, index |-> i]

Ids   == {copy0, copy0again, text}
Parts == {Chunk(0), Chunk(1)}
Peers == {alice, bob}
Headers ==
    [i \in Ids |-> IF i = text THEN [peer |-> bob, part |-> None, mortal |-> TRUE]
                               ELSE [peer |-> alice, part |-> Chunk(0), mortal |-> FALSE]]

FewSaved == Len(saved) <= MaxSaved
=============================================================================
