---------------------------- MODULE FileReceiver ----------------------------
(***************************************************************************)
(* The receiving side of a file transfer: the node's E2E stream handler    *)
(* (node/node_p2p.go), its buffer of [DELIVERED] acknowledgements          *)
(* (node/node_service.go), its handling of [FILE_ABORT]                    *)
(* (node/node_offers.go, node/aborted.go), and the app on top of the node, *)
(* which moves chunks from the node's memory to disk and assembles them    *)
(* (mobile/lib/providers/chat_provider.dart, services/media_storage.dart). *)
(***************************************************************************)
EXTENDS FileMessages

VARIABLES
    inHand,       \* chunks a stream handler holds past the IsAborted check
    memR,         \* msgIDs in n.memory of the receiver
    text,         \* (media, index) whose base64 the memory still has
    savedR,       \* the msgIDs of the last saveState (it strips the base64)
    ackBuf,       \* n.pendingDelivered for the sender
    onDisk,       \* the app's chunk files of a media
    trying,       \* media whose tryAssemble is due after a saved chunk
    assembled,    \* media with the assembled file in files/
    completeSent, \* _fileCompleteSent of this session of the app
    readLocally,  \* media the user has seen assembled
    aborting,     \* handleFileAbort between DeleteFile and abortedStore.Add
    abortedR      \* n.abortedStore

\* History, read by no action of the code.
VARIABLES
    stored,       \* chunks memory.Add ever accepted
    received      \* media whose file was ever assembled

streamState == <<inHand, ackBuf>>
chunkState  == <<memR, text, savedR>>
appState    == <<onDisk, trying, assembled, completeSent, readLocally>>
abortState  == <<aborting, abortedR>>
receiverHistory == <<stored, received>>
receiverVars == <<streamState, chunkState, appState, abortState, receiverHistory>>

StreamType == inHand \subseteq Chunk /\ ackBuf \subseteq Chunk
ChunkStateType == memR \subseteq Chunk /\ savedR \subseteq Chunk /\ text \subseteq Media \X Index
AppType ==
    /\ onDisk \in [Media -> SUBSET Index]
    /\ trying \subseteq Media /\ assembled \subseteq Media
    /\ completeSent \subseteq Media /\ readLocally \subseteq Media
AbortType == aborting \subseteq Media /\ abortedR \subseteq Media
ReceiverHistoryType == stored \subseteq Chunk /\ received \subseteq Media

ReceiverTypeOK == StreamType /\ ChunkStateType /\ AppType /\ AbortType /\ ReceiverHistoryType

ReceiverInit ==
    /\ inHand = {} /\ ackBuf = {}
    /\ memR = {} /\ text = {} /\ savedR = {}
    /\ onDisk = [m \in Media |-> {}]
    /\ trying = {} /\ assembled = {} /\ completeSent = {} /\ readLocally = {}
    /\ aborting = {} /\ abortedR = {}
    /\ stored = {} /\ received = {}

\* The chunks of media m are gone from a set of (media, index) pairs.
Drop(pairs, m) == {p \in pairs : p[1] # m}
-----------------------------------------------------------------------------
\* A chunk arrives, is decrypted, and is dropped without an answer when its
\* transfer is in abortedStore.
ReceiveChunk(c) ==
    /\ ChunkMsg(c) \in net
    /\ net' = net \ {ChunkMsg(c)}
    /\ inHand' = IF c.media \in abortedR THEN inHand ELSE inHand \cup {c}
    /\ UNCHANGED <<ackBuf, chunkState, appState, abortState, receiverHistory>>

\* Mutant of Seen: the duplicate check compares the media, not the msgID.
SeenMedia(c) == \E d \in memR : d.media = c.media

\* memory.Add rejects a msgID it has seen.
Seen(c) == c \in memR

\* memory.Add, then queueDelivered whether or not the chunk was added.
StoreChunk(c) ==
    /\ c \in inHand
    /\ inHand' = inHand \ {c}
    /\ IF Seen(c)
       THEN UNCHANGED <<memR, text, stored>>
       ELSE /\ memR' = memR \cup {c}
            /\ text' = text \cup {<<c.media, c.index>>}
            /\ stored' = stored \cup {c}
    /\ ackBuf' = ackBuf \cup {c}
    /\ UNCHANGED <<net, savedR, appState, abortState, received>>

\* flushDelivered, by its timer or because the buffer reached its size; a send
\* that fails puts the refs back.
FlushDelivered ==
    /\ ackBuf # {}
    /\ net' = net \cup {DeliveredMsg(ackBuf)}
    /\ ackBuf' = {}
    /\ UNCHANGED <<inHand, chunkState, appState, abortState, receiverHistory>>
-----------------------------------------------------------------------------
\* _fetchAndSaveChunk up to its FileAck: a chunk of a file that is not assembled
\* and that is not on disk goes from memory (getChunk, ClearFileChunk) to disk.
SaveChunk(m, i) ==
    /\ <<m, i>> \in text
    /\ m \notin assembled
    /\ i \notin onDisk[m]
    /\ onDisk' = [onDisk EXCEPT ![m] = @ \cup {i}]
    /\ text' = text \ {<<m, i>>}
    /\ trying' = trying \cup {m}
    /\ UNCHANGED <<net, streamState, memR, savedR, assembled, completeSent, readLocally,
                   abortState, receiverHistory>>

\* Mutants of Complete: the last chunk is not looked for; the chunk files are numbered
\* from 1.
CompleteButOne(m) == Cardinality(onDisk[m]) >= Total - 1
CompleteFromOne(m) == onDisk[m] = 1..Total

\* tryAssemble finds chunk_<i>.bin for every i below chunkTotal.
Complete(m) == onDisk[m] = Index

\* The rest of _fetchAndSaveChunk, tryAssemble: nothing while a chunk is missing;
\* with all of them the file is written, the chunk files go, and the first time
\* in a session SendFileComplete flushes the acknowledgements and answers.
TryAssemble(m) ==
    /\ m \in trying
    /\ trying' = trying \ {m}
    /\ IF ~Complete(m)
       THEN UNCHANGED <<net, ackBuf, onDisk, assembled, completeSent, received>>
       ELSE /\ onDisk' = [onDisk EXCEPT ![m] = {}]
            /\ assembled' = assembled \cup {m}
            /\ received' = received \cup {m}
            /\ IF m \in completeSent
               THEN UNCHANGED <<net, ackBuf, completeSent>>
               ELSE /\ net' = net \cup {CompleteMsg(m)}
                              \cup (IF ackBuf = {} THEN {} ELSE {DeliveredMsg(ackBuf)})
                    /\ ackBuf' = {}
                    /\ completeSent' = completeSent \cup {m}
    /\ UNCHANGED <<inHand, chunkState, readLocally, abortState, stored>>

\* _sendReadFor and _sendReadBatchFor: only for an assembled file, and only once.
Readable(m) == m \in assembled /\ m \notin readLocally

\* The user sees the file in the open chat; the answer names the message of its last chunk.
ReadFile(c) ==
    /\ "read" \in Events
    /\ c \in memR
    /\ c.index = Total - 1
    /\ Readable(c.media)
    /\ readLocally' = readLocally \cup {c.media}
    /\ net' = net \cup {ReadMsg(c)}
    /\ UNCHANGED <<streamState, chunkState, onDisk, trying, assembled, completeSent,
                   abortState, receiverHistory>>
\* The user opens the chat: the batch of answers names the media.
ReadFileBatch(m) ==
    /\ "read" \in Events
    /\ Readable(m)
    /\ readLocally' = readLocally \cup {m}
    /\ net' = net \cup {ReadFileMsg(m)}
    /\ UNCHANGED <<streamState, chunkState, onDisk, trying, assembled, completeSent,
                   abortState, receiverHistory>>
-----------------------------------------------------------------------------
\* handleFileAbort, first half: DeleteFile removes the chunks from memory, the
\* chunk files and the assembled file.
ReceiveAbort(m) ==
    /\ AbortMsg(m) \in net
    /\ net' = net \ {AbortMsg(m)}
    /\ memR' = memR \ ChunksOf(m)
    /\ text' = Drop(text, m)
    /\ onDisk' = [onDisk EXCEPT ![m] = {}]
    /\ assembled' = assembled \ {m}
    /\ aborting' = aborting \cup {m}
    /\ UNCHANGED <<streamState, savedR, trying, completeSent, readLocally, abortedR,
                   receiverHistory>>

\* handleFileAbort, second half: abortedStore.Add (saved at once) and the push,
\* on which the app forgets what it had queued for the file.
RecordAbort(m) ==
    /\ m \in aborting
    /\ aborting' = aborting \ {m}
    /\ abortedR' = abortedR \cup {m}
    /\ trying' = trying \ {m}
    /\ completeSent' = completeSent \ {m}
    /\ UNCHANGED <<net, streamState, chunkState, onDisk, assembled, readLocally,
                   receiverHistory>>
-----------------------------------------------------------------------------
\* saveState of the receiver: the msgIDs, without the base64 of file chunks.
SaveReceiver ==
    /\ "receiverCrash" \in Events
    /\ savedR # memR
    /\ savedR' = memR
    /\ UNCHANGED <<net, streamState, memR, text, appState, abortState, receiverHistory>>

\* Node and app die and start again from the state file, the chunk files, the
\* assembled files and abortedStore.
RestartReceiver ==
    /\ "receiverCrash" \in Events
    /\ memR' = savedR
    /\ text' = {}
    /\ inHand' = {}
    /\ ackBuf' = {}
    /\ trying' = {}
    /\ completeSent' = {}
    /\ aborting' = {}
    /\ UNCHANGED <<net, savedR, onDisk, assembled, readLocally, abortedR, receiverHistory>>
=============================================================================
