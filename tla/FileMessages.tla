---------------------------- MODULE FileMessages ----------------------------
(***************************************************************************)
(* What a file transfer between two nodes sends: encrypted chunks one way, *)
(* and [DELIVERED] batches, [FILE_COMPLETE] and [READ] the other way, plus *)
(* the sender's [FILE_ABORT].  A message travels on a libp2p stream of its *)
(* own (or through a relay), so any two of them may be reordered: the      *)
(* network is a set.  A message that is sent again after it arrived is a   *)
(* duplicate; one that is still in flight takes its first copy along.      *)
(*                                                                         *)
(* The content of a chunk, its encryption and the route it takes (direct,  *)
(* relay, Sphinx) are abstracted: the protocol only compares identifiers.  *)
(***************************************************************************)
EXTENDS Naturals, FiniteSets

CONSTANTS
    Media,      \* media identifiers: the files between this sender and this receiver
    Total,      \* ChunkTotal, the chunks of a file (the same for every file here)
    MaxRuns,    \* bound: the FILE_ACCEPTs honoured for one file
    Events,     \* what may happen around the program, of KnownEvents
    None        \* no media, no chunk: Go's "" and an idle worker

KnownEvents ==
    { "loss",           \* the network loses a message
      "slow",           \* an answer takes longer than the retry backoff, or never comes
      "key",            \* encryptBytesForRecipient fails for a chunk
      "old",            \* a copy in sent/ gets older than 24 hours
      "read",           \* the receiver's user opens the chat
      "abort",          \* the sender's user aborts the transfer
      "abortError",     \* ... and sending [FILE_ABORT] fails
      "delete",         \* the sender's user deletes the message of the file
      "decline",        \* the receiver's user declines the offer, maybe after an accept
      "senderCrash", "receiverCrash" }

ASSUME FileConstants ==
    /\ IsFiniteSet(Media)
    /\ Total \in Nat \ {0}
    /\ MaxRuns \in Nat \ {0}
    /\ Events \subseteq KnownEvents

Run == 1..MaxRuns
Index == 0..(Total - 1)

\* A run of sendFileChunksAsync: one goroutine for each accept of a file.
Job == [media : Media, run : Run]

\* A chunk message is identified by its msgID: generateMsgID hashes the media,
\* the index and UnixNano, so each run of sendFileChunksAsync makes new ones.
Chunk == [media : Media, run : Run, index : Index]

ASSUME NoneIsNone == None \notin Media \cup Chunk

ChunkOf(j, i) == [media |-> j.media, run |-> j.run, index |-> i]
ChunksOf(m) == {c \in Chunk : c.media = m}

ChunkMsg(c)        == [type |-> "chunk", chunk |-> c]
DeliveredMsg(refs) == [type |-> "delivered", refs |-> refs]
CompleteMsg(m)     == [type |-> "complete", media |-> m]
ReadMsg(c)         == [type |-> "read", chunk |-> c]
ReadFileMsg(m)     == [type |-> "readFile", media |-> m]     \* a [READ] that names the media
AbortMsg(m)        == [type |-> "abort", media |-> m]

Message ==
    [type : {"chunk", "read"}, chunk : Chunk]
        \cup [type : {"delivered"}, refs : SUBSET Chunk]
        \cup [type : {"complete", "abort", "readFile"}, media : Media]

VARIABLE net    \* messages in flight

\* A message does not arrive: no route, or the stream breaks off.
Lose ==
    /\ "loss" \in Events
    /\ \E msg \in net : net' = net \ {msg}
=============================================================================
