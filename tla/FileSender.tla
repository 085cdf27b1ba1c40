----------------------------- MODULE FileSender -----------------------------
(***************************************************************************)
(* The sending side of a file transfer (node/media.go, node/node_files.go, *)
(* node/node_service.go): a goroutine sendFileChunksAsync for each accept, *)
(* the bounded chunkQueue, the chunkWorkers, the retry loop over           *)
(* unackedChunks, the handlers of the receiver's confirmations, the hourly *)
(* cleanup of sent/, the abort, the decline and the deletion of a file     *)
(* (chat_provider.dart), and a restart of the node.                        *)
(*                                                                         *)
(* Every action is one critical section of the code (or several that no    *)
(* other actor can tell apart).  Time is abstracted: any chunk may be due  *)
(* for a retry at a scan, since an answer may be slower than the backoff.  *)
(***************************************************************************)
EXTENDS FileMessages, Sequences, Functions

CONSTANTS
    Workers,        \* the chunkWorker goroutines (10 in InitP2P)
    QueueCap,       \* capacity of chunkQueue (1000 in InitP2P)
    RetryLimit,     \* len(retryBackoff), 10
    RestoreLimit    \* failed restores before giving up, 3

ASSUME SenderConstants ==
    /\ QueueCap \in Nat \ {0}
    /\ RetryLimit \in Nat \ {0}
    /\ RestoreLimit \in 1..RetryLimit

VARIABLES
    bin,            \* media with sent/<media>.bin on disk
    meta,           \* media with sent/<media>.bin.meta on disk
    aborted,        \* n.aborted: transfers the user aborted
    offerAccepted,  \* media whose _offerStates is 'accepted' in this session of the app
    active,         \* n.activeMediaID, None for ""
    pc,             \* where each run of sendFileChunksAsync is
    next,           \* its loop variable i
    chunkQueue,     \* n.chunkQueue
    worker,         \* the chunk a chunkWorker has taken, None when it waits
    unacked,        \* n.unackedChunks: msgID -> [known, attempts]
    retryBatch,     \* toRetry: the snapshot one retryUnacked works through
    memS,           \* n.memory of the sender: chunk -> "sent" or "delivered"
    savedS,         \* the messages of the last saveState
    deliveredCount, \* n.deliveredCount
    unfound,        \* acknowledged chunks that handleDeliveredRef did not find in memory
    toDelete        \* media for which the app is about to call DeleteFile

\* History, read by no action of the code: what was confirmed, given up, asked for.
VARIABLES
    acked,          \* chunks named by a [DELIVERED] that was handled
    early,          \* chunks that such a [DELIVERED] itself marked as delivered
    gaveUp,         \* chunks the retry loop or the encryption gave up
    abortRequested, \* media whose transfer the user aborted
    dropped,        \* media the receiver declined, or whose message the user deleted
    aged            \* media whose copy was removed for its age

disk     == <<bin, meta>>
user     == <<aborted, offerAccepted, toDelete>>
turn     == <<active, pc, next>>
pipeline == <<chunkQueue, worker>>
retry    == <<unacked, retryBatch>>
store    == <<memS, savedS, deliveredCount, unfound>>
senderHistory == <<acked, early, gaveUp, abortRequested, dropped, aged>>
senderVars == <<disk, user, turn, pipeline, retry, store, senderHistory>>

Position == {"idle", "wait", "check", "push", "add", "done"}
RetryInfo == [known : BOOLEAN, attempts : 0..RetryLimit]

\* n.unackedChunks and n.memory: finite maps from msgID.
ChunkMap(V) == UNION {[D -> V] : D \in SUBSET Chunk}

\* Maps are keyed by chunks that exist, and no attempt counter passes its limit.
DiskType == bin \subseteq Media /\ meta \subseteq Media
UserType == aborted \subseteq Media /\ offerAccepted \subseteq Media /\ toDelete \subseteq Media
TurnType ==
    /\ active \in Media \cup {None}
    /\ pc \in [Job -> Position]
    /\ next \in [Job -> 0..Total]
PipelineType ==
    /\ chunkQueue \in Seq(Chunk) /\ Len(chunkQueue) <= QueueCap
    /\ worker \in [Workers -> Chunk \cup {None}]
RetryType ==
    /\ unacked \in ChunkMap(RetryInfo)
    /\ retryBatch \subseteq [chunk : Chunk, known : BOOLEAN]
StoreType ==
    /\ memS \in ChunkMap({"sent", "delivered"})
    /\ savedS \in ChunkMap({"sent", "delivered"})
    /\ deliveredCount \in [Media -> Nat]
    /\ unfound \subseteq Chunk
SenderHistoryType ==
    /\ acked \subseteq Chunk /\ early \subseteq Chunk /\ gaveUp \subseteq Chunk
    /\ abortRequested \subseteq Media /\ dropped \subseteq Media /\ aged \subseteq Media

SenderTypeOK ==
    DiskType /\ UserType /\ TurnType /\ PipelineType /\ RetryType /\ StoreType
        /\ SenderHistoryType

\* A map without entries; f with x mapped to v, and f without the members of S.
NoEntry == [c \in {} |-> None]
With(f, x, v) == [y \in DOMAIN f \cup {x} |-> IF y = x THEN v ELSE f[y]]
Without(f, S) == Restrict(f, (DOMAIN f) \ S)

\* SendFileByPath has copied every file to sent/ with its .meta and sent the offer.
SenderInit ==
    /\ bin = Media
    /\ meta = Media
    /\ aborted = {} /\ offerAccepted = {} /\ toDelete = {}
    /\ active = None
    /\ pc = [j \in Job |-> "idle"]
    /\ next = [j \in Job |-> 0]
    /\ chunkQueue = <<>>
    /\ worker = [w \in Workers |-> None]
    /\ unacked = NoEntry
    /\ retryBatch = {}
    /\ memS = NoEntry
    /\ savedS = NoEntry
    /\ deliveredCount = [m \in Media |-> 0]
    /\ unfound = {}
    /\ acked = {} /\ early = {} /\ gaveUp = {}
    /\ abortRequested = {} /\ dropped = {} /\ aged = {}

Accepted(m) == \E j \in Job : j.media = m /\ pc[j] # "idle"
-----------------------------------------------------------------------------
\* handleFileAccept: no .meta, no transfer; otherwise the app learns of it and a new
\* sendFileChunksAsync starts, whether or not one already runs for this file.
ReceiveAccept(j) ==
    /\ j.media \in meta
    /\ pc[j] = "idle"
    /\ \A k \in Job : k.media = j.media /\ k.run < j.run => pc[k] # "idle"
    /\ pc' = [pc EXCEPT ![j] = "wait"]
    /\ offerAccepted' = offerAccepted \cup {j.media}
    /\ UNCHANGED <<net, disk, aborted, toDelete, active, next, pipeline, retry, store, senderHistory>>

\* Mutant of CanTakeTurn: the wait is dropped.
TurnWithoutWait(m) == TRUE

\* The wait on mediaSendCond lets a second run of the active file through.
CanTakeTurn(m) == active \in {None, m}

\* Mutant of Release: the turn is never given back.
ReleaseForgotten(m) == UNCHANGED active

\* The deferred release at the end of sendFileChunksAsync, whichever run holds the turn.
Release(m) == active' = IF active = m THEN None ELSE active

\* Mutant of Stopped: the flag is not read.
StoppedUnread(m) == FALSE

\* n.aborted, looked up under its lock.
Stopped(m) == m \in aborted

\* The wait on mediaSendCond, the turn, and the open of the copy in sent/.
AcquireTurn(j) ==
    /\ pc[j] = "wait"
    /\ CanTakeTurn(j.media)
    /\ IF j.media \in bin
       THEN active' = j.media /\ pc' = [pc EXCEPT ![j] = "check"]
       ELSE active' = None /\ pc' = [pc EXCEPT ![j] = "done"]
    /\ UNCHANGED <<net, disk, user, next, pipeline, retry, store, senderHistory>>

\* The loop head after the last chunk: return, releasing the turn.
FinishRun(j) ==
    /\ pc[j] = "check"
    /\ next[j] = Total
    /\ Release(j.media)
    /\ pc' = [pc EXCEPT ![j] = "done"]
    /\ UNCHANGED <<net, disk, user, next, pipeline, retry, store, senderHistory>>

\* The abort check of an iteration finds the flag: it removes the copy and its
\* .meta, clears the flag and returns.
StopRun(j) ==
    /\ pc[j] = "check"
    /\ next[j] < Total
    /\ Stopped(j.media)
    /\ bin' = bin \ {j.media}
    /\ meta' = meta \ {j.media}
    /\ aborted' = aborted \ {j.media}
    /\ Release(j.media)
    /\ pc' = [pc EXCEPT ![j] = "done"]
    /\ UNCHANGED <<net, next, pipeline, retry, store, offerAccepted, toDelete, senderHistory>>

\* The flag is down: read the chunk (the copy stays open) and encrypt it.  When
\* the encryption fails the loop continues with the next chunk.
PrepareChunk(j) ==
    /\ pc[j] = "check"
    /\ next[j] < Total
    /\ ~Stopped(j.media)
    /\ \/ /\ pc' = [pc EXCEPT ![j] = "push"]
          /\ UNCHANGED <<next, gaveUp>>
       \/ /\ "key" \in Events
          /\ next' = [next EXCEPT ![j] = @ + 1]
          /\ gaveUp' = gaveUp \cup {ChunkOf(j, next[j])}
          /\ UNCHANGED pc
    /\ UNCHANGED <<net, disk, user, active, pipeline, retry, store, acked, early, abortRequested,
                   dropped, aged>>

\* n.chunkQueue <- msg: blocks while the queue is full.
PushChunk(j) ==
    /\ pc[j] = "push"
    /\ Len(chunkQueue) < QueueCap
    /\ chunkQueue' = Append(chunkQueue, ChunkOf(j, next[j]))
    /\ pc' = [pc EXCEPT ![j] = "add"]
    /\ UNCHANGED <<net, disk, user, active, next, worker, retry, store, senderHistory>>

\* memory.Add of the chunk's metadata, after the chunk may already be on its way.
AddChunk(j) ==
    /\ pc[j] = "add"
    /\ memS' = With(memS, ChunkOf(j, next[j]), "sent")
    /\ next' = [next EXCEPT ![j] = @ + 1]
    /\ pc' = [pc EXCEPT ![j] = "check"]
    /\ UNCHANGED <<net, disk, user, active, pipeline, retry, savedS, deliveredCount, unfound,
                   senderHistory>>
-----------------------------------------------------------------------------
\* A chunkWorker takes the next chunk, and drops it when its transfer is aborted.
TakeChunk(w) ==
    /\ worker[w] = None
    /\ chunkQueue # <<>>
    /\ LET c == Head(chunkQueue)
       IN  worker' = [worker EXCEPT ![w] = IF Stopped(c.media) THEN None ELSE c]
    /\ chunkQueue' = Tail(chunkQueue)
    /\ UNCHANGED <<net, disk, user, turn, retry, store, senderHistory>>

\* Mutant of Register: the chunk is sent without being recorded.
RegisterForgotten(c) == UNCHANGED unacked

\* The entry of unackedChunks for a chunk on its way; an entry keeps its attempts.
Register(c) ==
    unacked' = With(unacked, c, [known |-> TRUE,
                    attempts |-> IF c \in DOMAIN unacked THEN unacked[c].attempts ELSE 0])

\* It records the chunk in unackedChunks, then sends it.
SendChunk(w) ==
    /\ worker[w] # None
    /\ Register(worker[w])
    /\ net' = net \cup {ChunkMsg(worker[w])}
    /\ worker' = [worker EXCEPT ![w] = None]
    /\ UNCHANGED <<disk, user, turn, chunkQueue, retryBatch, store, senderHistory>>
-----------------------------------------------------------------------------
\* Mutant of Spent: one attempt too many.
SpentTooLate(c) == unacked[c].attempts > RetryLimit

\* The entry has used all intervals of retryBackoff.
Spent(c) == unacked[c].attempts >= RetryLimit

\* retryUnacked, under the lock: the entries that used up their attempts are
\* deleted, those whose backoff has elapsed are copied out.
RetryScan(due) ==
    LET spent == {c \in DOMAIN unacked : Spent(c)}
    IN  /\ "slow" \in Events
        /\ retryBatch = {}
        /\ due \subseteq DOMAIN unacked \ spent
        /\ due \cup spent # {}
        /\ retryBatch' = {[chunk |-> c, known |-> unacked[c].known] : c \in due}
        /\ unacked' = Without(unacked, spent)
        /\ gaveUp' = gaveUp \cup spent
        /\ UNCHANGED <<net, disk, user, turn, pipeline, store, acked, early, abortRequested,
                       dropped, aged>>

\* restoreChunkMessage succeeds when the snapshot has the recipient and the media
\* and the copy in sent/ is still there.
Restorable(item) == item.known /\ item.chunk.media \in bin

\* The restore fails.  The entry is read again, so one that was acknowledged in
\* the meantime comes back as a zero value.
RetryFails(item) ==
    /\ item \in retryBatch
    /\ ~Restorable(item) \/ "key" \in Events
    /\ LET c == item.chunk
           info == IF c \in DOMAIN unacked THEN unacked[c]
                                           ELSE [known |-> FALSE, attempts |-> 0]
           tried == info.attempts + 1
       IN  IF tried >= RestoreLimit
           THEN unacked' = Without(unacked, {c}) /\ gaveUp' = gaveUp \cup {c}
           ELSE unacked' = With(unacked, c, [info EXCEPT !.attempts = tried]) /\ UNCHANGED gaveUp
    /\ retryBatch' = retryBatch \ {item}
    /\ UNCHANGED <<net, disk, user, turn, pipeline, store, acked, early, abortRequested, dropped,
                   aged>>

\* Mutant of CountAttempt: attempts are not counted.
CountForgotten(c) == UNCHANGED unacked

\* attempts++ for an entry that is still there.
CountAttempt(c) ==
    unacked' = IF c \in DOMAIN unacked THEN [unacked EXCEPT ![c].attempts = @ + 1] ELSE unacked

\* The restored chunk is queued again and, if still unacknowledged, counts an attempt.
RetryQueues(item) ==
    /\ item \in retryBatch
    /\ Restorable(item)
    /\ Len(chunkQueue) < QueueCap
    /\ chunkQueue' = Append(chunkQueue, item.chunk)
    /\ CountAttempt(item.chunk)
    /\ retryBatch' = retryBatch \ {item}
    /\ UNCHANGED <<net, disk, user, turn, worker, store, senderHistory>>

\* The queue stays full for two seconds: the chunk waits for another scan.
RetryDefers(item) ==
    /\ item \in retryBatch
    /\ Restorable(item)
    /\ Len(chunkQueue) = QueueCap
    /\ retryBatch' = retryBatch \ {item}
    /\ UNCHANGED <<net, disk, user, turn, pipeline, unacked, store, senderHistory>>
-----------------------------------------------------------------------------
\* The entries of unackedChunks whose info.mediaID is m; an entry that a failed restore
\* put back has none.
EntriesOf(m) == {c \in DOMAIN unacked : unacked[c].known /\ c.media = m}

\* The count of a file after `more` of its chunks were acknowledged, up to Total.
CountUp(m, more) ==
    IF deliveredCount[m] >= Total THEN deliveredCount[m]
    ELSE IF deliveredCount[m] + more >= Total THEN Total
    ELSE deliveredCount[m] + more

\* handleServiceMessage, TypeDelivered: handleDeliveredRef for every ref.  Its entry goes;
\* a chunk that is in memory counts, once per acknowledgement, and when the count is full
\* the entries of that file go.  A chunk that is not (yet) in memory is not taken for a
\* chunk; what comes of it is MarkUnfound.
ReceiveDelivered(refs) ==
    LET counted(m) == {c \in refs : c.media = m /\ c \in DOMAIN memS}
        full(m) == counted(m) # {} /\ deliveredCount[m] + Cardinality(counted(m)) >= Total
    IN  /\ DeliveredMsg(refs) \in net
        /\ net' = net \ {DeliveredMsg(refs)}
        /\ deliveredCount' = [m \in Media |-> CountUp(m, Cardinality(counted(m)))]
        /\ unacked' = Without(unacked, refs \cup {c \in DOMAIN unacked : c \in EntriesOf(c.media)
                                                                        /\ full(c.media)})
        /\ unfound' = unfound \cup (refs \ DOMAIN memS)
        /\ acked' = acked \cup refs
        /\ UNCHANGED <<disk, user, turn, pipeline, retryBatch, memS, savedS, early, gaveUp,
                       abortRequested, dropped, aged>>

\* handleDeliveredRef goes on with a ref that its lookup did not find: it sets the status
\* as for a text and looks again for the count.  When memory.Add has come between, the
\* chunk is shown as delivered although its file is not there yet (or counts only, when
\* the status was set before memory.Add).  Two lookups of one chunk in this window count
\* once here.
MarkUnfound(c) ==
    /\ c \in unfound
    /\ unfound' = unfound \ {c}
    /\ IF c \notin DOMAIN memS
       THEN UNCHANGED <<memS, deliveredCount, unacked, early>>
       ELSE /\ \/ memS' = [memS EXCEPT ![c] = "delivered"] /\ early' = early \cup {c}
               \/ UNCHANGED <<memS, early>>
            /\ deliveredCount' = [deliveredCount EXCEPT ![c.media] = CountUp(c.media, 1)]
            /\ unacked' = IF deliveredCount[c.media] + 1 >= Total
                          THEN Without(unacked, EntriesOf(c.media)) ELSE unacked
    /\ UNCHANGED <<net, disk, user, turn, pipeline, retryBatch, savedS, acked, gaveUp,
                   abortRequested, dropped, aged>>

\* Every chunk of m in memory becomes (at least) delivered.
MarkDelivered(m) ==
    memS' = [c \in DOMAIN memS |-> IF c.media = m THEN "delivered" ELSE memS[c]]

\* handleFileComplete: status, count, and the copy in sent/ (the .meta stays).
ReceiveComplete(m) ==
    /\ CompleteMsg(m) \in net
    /\ net' = net \ {CompleteMsg(m)}
    /\ MarkDelivered(m)
    /\ deliveredCount' = IF \E c \in DOMAIN memS : c.media = m
                         THEN [deliveredCount EXCEPT ![m] = Total]
                         ELSE deliveredCount
    /\ bin' = bin \ {m}
    /\ UNCHANGED <<meta, user, turn, pipeline, retry, savedS, unfound, senderHistory>>

\* handleServiceMessage, TypeRead for a chunk it has in memory: the status of the
\* whole file.  A ref it does not know changes nothing.
ReceiveRead(c) ==
    /\ ReadMsg(c) \in net
    /\ net' = net \ {ReadMsg(c)}
    /\ IF c \in DOMAIN memS THEN MarkDelivered(c.media) ELSE UNCHANGED memS
    /\ UNCHANGED <<disk, user, turn, pipeline, retry, savedS, deliveredCount, unfound, senderHistory>>

\* ... and for a ref that is a mediaID.
ReceiveReadFile(m) ==
    /\ ReadFileMsg(m) \in net
    /\ net' = net \ {ReadFileMsg(m)}
    /\ MarkDelivered(m)
    /\ UNCHANGED <<disk, user, turn, pipeline, retry, savedS, deliveredCount, unfound, senderHistory>>

\* handleFileDecline: the copy, its .meta, the count and the entries go; the app shows
\* "declined".  A run that an accept started goes on with the copy it has open.
ReceiveDecline(m) ==
    /\ "decline" \in Events
    /\ bin' = bin \ {m}
    /\ meta' = meta \ {m}
    /\ deliveredCount' = [deliveredCount EXCEPT ![m] = 0]
    /\ unacked' = Without(unacked, EntriesOf(m))
    /\ offerAccepted' = offerAccepted \ {m}
    /\ dropped' = dropped \cup {m}
    /\ UNCHANGED <<net, aborted, toDelete, turn, pipeline, retryBatch, memS, savedS, unfound,
                   acked, early, gaveUp, abortRequested, aged>>

\* Mutant of AllDelivered: chunks count whatever their status.
AllQueued(m) == Cardinality({c \in DOMAIN memS : c.media = m}) >= Total

\* As many chunks in memory are delivered as the file has.
AllDelivered(m) ==
    Cardinality({c \in DOMAIN memS : c.media = m /\ memS[c] = "delivered"}) >= Total

\* cleanupSentOnce: the copies that are older than 24 hours, and those with all
\* chunks delivered, go with their .meta.
CleanupSent(old) ==
    LET finished == {m \in bin : AllDelivered(m)}
    IN  /\ old \subseteq bin
        /\ old # {} => "old" \in Events
        /\ old \cup finished # {}
        /\ bin' = bin \ (old \cup finished)
        /\ meta' = meta \ (old \cup finished)
        /\ aged' = aged \cup old
        /\ UNCHANGED <<net, user, turn, pipeline, retry, store, acked, early, gaveUp,
                       abortRequested, dropped>>
-----------------------------------------------------------------------------
\* abortFileSend of an accepted file, SendFileAbort: the flag first, then [FILE_ABORT].
\* When sending it fails the error goes back to the app, which leaves the file alone (the
\* user may try again); the flag stays.
AbortTransfer(m) ==
    /\ "abort" \in Events
    /\ m \in offerAccepted
    /\ aborted' = aborted \cup {m}
    /\ abortRequested' = abortRequested \cup {m}
    /\ \/ /\ net' = net \cup {AbortMsg(m)}
          /\ offerAccepted' = offerAccepted \ {m}
          /\ toDelete' = toDelete \cup {m}
       \/ /\ "abortError" \in Events
          /\ UNCHANGED <<net, offerAccepted, toDelete>>
    /\ UNCHANGED <<disk, turn, pipeline, retry, store, acked, early, gaveUp, dropped, aged>>

\* deleteMessage of a file whose offer the app does not have as accepted: pending (then
\* [FILE_CANCEL] goes out first), declined, or unknown since the app started.
DiscardFile(m) ==
    /\ "delete" \in Events
    /\ m \notin offerAccepted
    /\ toDelete' = toDelete \cup {m}
    /\ dropped' = dropped \cup {m}
    /\ UNCHANGED <<net, disk, aborted, offerAccepted, turn, pipeline, retry, store, acked, early,
                   gaveUp, abortRequested, aged>>

\* In both cases the app then calls DeleteFile: memory, sent/, .meta and the count.
DeleteFile(m) ==
    /\ m \in toDelete
    /\ toDelete' = toDelete \ {m}
    /\ memS' = Without(memS, {c \in DOMAIN memS : c.media = m})
    /\ bin' = bin \ {m}
    /\ meta' = meta \ {m}
    /\ deliveredCount' = [deliveredCount EXCEPT ![m] = 0]
    /\ UNCHANGED <<net, aborted, offerAccepted, turn, pipeline, retry, savedS, unfound,
                   senderHistory>>
-----------------------------------------------------------------------------
\* saveState: called at the end of a run, by the throttled scheduleSaveState of
\* any other change of the memory, and at a normal stop.
SaveSender ==
    /\ "senderCrash" \in Events
    /\ savedS # memS
    /\ savedS' = memS
    /\ UNCHANGED <<net, disk, user, turn, pipeline, retry, memS, deliveredCount, unfound,
                   senderHistory>>

\* The chunks of m whose saved status is Delivered or more.
SavedDelivered(m) == {c \in DOMAIN savedS : c.media = m /\ savedS[c] = "delivered"}

\* Mutant of Resumable: the restart restores nothing.
ResumesNothing(c) == FALSE

\* resumeFile puts an undelivered chunk of a file with a copy back, unless enough
\* chunks of the file are delivered.
Resumable(c) ==
    /\ c.media \in bin
    /\ savedS[c] # "delivered"
    /\ Cardinality(SavedDelivered(c.media)) < Total

\* The process dies and starts again: loadState, then resumeIncompleteFiles fills
\* unackedChunks and the counts from the chunks it finds in memory.  The queue, the
\* runs, the handlers, the abort flags and what the app had seen of the offers are gone.
RestartSender ==
    /\ "senderCrash" \in Events
    /\ memS' = savedS
    /\ unacked' = [c \in {d \in DOMAIN savedS : Resumable(d)} |-> [known |-> TRUE, attempts |-> 0]]
    /\ deliveredCount' = [m \in Media |-> IF m \in bin THEN Cardinality(SavedDelivered(m)) ELSE 0]
    /\ pc' = [j \in Job |-> IF pc[j] = "idle" THEN "idle" ELSE "done"]
    /\ active' = None
    /\ chunkQueue' = <<>>
    /\ worker' = [w \in Workers |-> None]
    /\ retryBatch' = {}
    /\ unfound' = {}
    /\ aborted' = {} /\ offerAccepted' = {} /\ toDelete' = {}
    /\ UNCHANGED <<net, disk, next, savedS, senderHistory>>
=============================================================================
