---------------------------- MODULE FileTransfer ----------------------------
(***************************************************************************)
(* A file transfer end to end: the sender and the receiver composed over   *)
(* the network.  A step of one side leaves the state of the other alone.   *)
(***************************************************************************)
EXTENDS FileSender, FileReceiver

vars == <<net, senderVars, receiverVars>>

Init ==
    /\ net = {}
    /\ SenderInit
    /\ ReceiverInit

\* One step of a sendFileChunksAsync.
RunStep(j) ==
    \/ AcquireTurn(j)
    \/ FinishRun(j)
    \/ StopRun(j)
    \/ PrepareChunk(j)
    \/ PushChunk(j)
    \/ AddChunk(j)

WorkerStep(w) == TakeChunk(w) \/ SendChunk(w)

RetryItem(item) == RetryFails(item) \/ RetryQueues(item) \/ RetryDefers(item)

RetryScans == \E due \in SUBSET DOMAIN unacked : RetryScan(due)

RetryStep ==
    \/ RetryScans
    \/ \E item \in retryBatch : RetryItem(item)

SenderReceives ==
    \/ \E msg \in net : msg.type = "delivered" /\ ReceiveDelivered(msg.refs)
    \/ \E m \in Media : ReceiveComplete(m) \/ ReceiveReadFile(m)
    \/ \E c \in Chunk : ReceiveRead(c) \/ MarkUnfound(c)

SenderNext ==
    /\ \/ \E j \in Job : ReceiveAccept(j) \/ RunStep(j)
       \/ \E w \in Workers : WorkerStep(w)
       \/ RetryStep
       \/ SenderReceives
       \/ \E old \in SUBSET bin : CleanupSent(old)
       \/ \E m \in Media : ReceiveDecline(m) \/ AbortTransfer(m) \/ DiscardFile(m) \/ DeleteFile(m)
       \/ SaveSender
       \/ RestartSender
    /\ UNCHANGED receiverVars

ReceiverNext ==
    /\ \/ \E c \in Chunk : ReceiveChunk(c) \/ StoreChunk(c) \/ ReadFile(c)
       \/ FlushDelivered
       \/ \E m \in Media : (\E i \in Index : SaveChunk(m, i)) \/ TryAssemble(m)
                         \/ ReadFileBatch(m) \/ ReceiveAbort(m) \/ RecordAbort(m)
       \/ SaveReceiver
       \/ RestartReceiver
    /\ UNCHANGED senderVars

Next ==
    \/ SenderNext
    \/ ReceiverNext
    \/ Lose /\ UNCHANGED <<senderVars, receiverVars>>

Spec == Init /\ [][Next]_vars

BySender(A)   == A /\ UNCHANGED receiverVars
ByReceiver(A) == A /\ UNCHANGED senderVars

\* A goroutine that can go on does; a channel serves its blocked senders in the
\* order they came, so a run gets its place in chunkQueue even when the retry loop
\* competes for it; the backoff of every entry elapses at some scan (it is at most
\* ten minutes and the scan comes every 15 seconds).
FairSender ==
    /\ \A j \in Job :
            /\ WF_vars(BySender(RunStep(j)))
            /\ SF_vars(BySender(PushChunk(j)))
    /\ \A w \in Workers : WF_vars(BySender(WorkerStep(w)))
    /\ WF_vars(BySender(\E item \in retryBatch : RetryItem(item)))
    /\ WF_vars(BySender(RetryScans))
    /\ \A c \in Chunk : WF_vars(BySender(MarkUnfound(c)))
    /\ \A c \in Chunk :
            SF_vars(BySender(\E due \in SUBSET DOMAIN unacked : c \in due /\ RetryScan(due)))

\* Every message arrives, and both sides handle what they have.
FairExchange ==
    /\ \A m \in Media : WF_vars(BySender(ReceiveComplete(m)))
    /\ WF_vars(BySender(SenderReceives))
    /\ \A c \in Chunk :
            /\ WF_vars(ByReceiver(ReceiveChunk(c)))
            /\ WF_vars(ByReceiver(StoreChunk(c)))
    /\ WF_vars(ByReceiver(FlushDelivered))
    /\ \A m \in Media, i \in Index : WF_vars(ByReceiver(SaveChunk(m, i)))
    /\ \A m \in Media : WF_vars(ByReceiver(TryAssemble(m)))

\* The sender alone is fair: the network may lose everything.
LossySpec == Spec /\ FairSender

\* Nothing is lost and everybody is scheduled.
ReliableSpec == Spec /\ FairSender /\ FairExchange
-----------------------------------------------------------------------------
\* The types of the network and of both sides.
TypeOK ==
    /\ net \subseteq Message
    /\ SenderTypeOK
    /\ ReceiverTypeOK
-----------------------------------------------------------------------------
\* The chunks an acknowledgement names, from the receiver's buffer to the sender.
Acknowledged == ackBuf \cup acked \cup UNION {msg.refs : msg \in {x \in net : x.type = "delivered"}}

\* The receiver still has what the chunk brought, in one of the three places it
\* passes through.
Held(c) == \/ <<c.media, c.index>> \in text
           \/ c.index \in onDisk[c.media]
           \/ c.media \in assembled

\* [DELIVERED] is a promise: a chunk that was acknowledged, so that the sender
\* stops retrying it, has its data at the receiver (until an abort takes the file
\* away).  handleStream queues the acknowledgement even when memory.Add rejects
\* the chunk, so it relies on a rejected chunk being a chunk that is held.
AckedIsHeld ==
    \A c \in Acknowledged : Held(c) \/ c.media \in abortRequested

\* The reasons for which a user or the clock gives a transfer up.
Excused == abortRequested \cup dropped \cup aged

\* Total chunks of m were marked as delivered by acknowledgements that came before
\* memory.Add: for the cleanup of sent/ this looks like a delivered file.
Hasty(m) == Cardinality({c \in early : c.media = m}) >= Total

\* Nobody needs the copy of m any more, or the cleanup was misled.
Dispensable(m) == m \in received \cup Excused \/ Hasty(m)

\* The copy in sent/ is the only source of a retry: whatever handlers, cleanups, retries
\* and restarts there are, it disappears only when the receiver has assembled the file,
\* one of the users gave it up, it is 24 hours old, or the whole file was marked by early
\* acknowledgements.
SourceKept == \A m \in Media \ bin : Dispensable(m)

\* A status of Delivered (or Read) of a chunk means that the receiver once assembled its
\* file, unless the chunk itself was marked by an early acknowledgement; it also holds of
\* what a restart restores.
DeliveredIsReceived ==
    /\ \A c \in DOMAIN memS : memS[c] = "delivered" => c.media \in received \/ c \in early
    /\ \A c \in DOMAIN savedS : savedS[c] = "delivered" => c.media \in received \/ c \in early

\* The status as the docs have it: the second tick of a file means that it is assembled.
\* It does not hold when [DELIVERED] comes before memory.Add (README, section 8).
ShownIsAssembled == \A c \in DOMAIN memS : memS[c] = "delivered" => c.media \in received

\* c has been put into chunkQueue by its run.
Launched(c) ==
    LET j == [media |-> c.media, run |-> c.run]
    IN  c.index < next[j] \/ (c.index = next[j] /\ pc[j] = "add")

InPipeline(c) ==
    \/ \E i \in DOMAIN chunkQueue : chunkQueue[i] = c
    \/ \E w \in Workers : worker[w] = c

\* No chunk is lost between queue, workers and unackedChunks: each one that was
\* launched is on its way or listed for a retry, unless it was acknowledged or
\* given up, its file is aborted, declined or deleted, or its file's count is full.
LaunchedIsTracked ==
    \A c \in Chunk : Launched(c) =>
        \/ InPipeline(c)
        \/ c \in DOMAIN unacked \cup acked \cup gaveUp
        \/ c.media \in abortRequested \cup dropped
        \/ deliveredCount[c.media] >= Total

\* A restart forgets no chunk: one that the sender's memory has as sent is on its way,
\* listed for a retry, acknowledged or given up, unless the file is done with.
RememberedIsTracked ==
    \A c \in DOMAIN memS :
        \/ InPipeline(c)
        \/ c \in DOMAIN unacked \cup acked \cup gaveUp
        \/ Dispensable(c.media)
        \/ deliveredCount[c.media] >= Total

\* The comment on unackedChunks ("sent but not confirmed by [DELIVERED]") read as
\* a guarantee: a launched chunk whose index nobody acknowledged, in any run, is
\* still going to be retried.  It does not hold when two acknowledgements of a chunk are
\* counted (README, section 8).
UnconfirmedIsRetried ==
    \A c \in Chunk : Launched(c) =>
        \/ InPipeline(c)
        \/ c \in DOMAIN unacked \cup gaveUp
        \/ \E d \in acked : d.media = c.media /\ d.index = c.index
        \/ c.media \in abortRequested \cup dropped \cup received

\* The comment on resumeIncompleteFiles ("restoring unfinished file transfers"): an
\* accepted file that the receiver does not have, and whose copy is there, has every
\* chunk acknowledged, given up, on its way, listed for a retry, or still to come.  It
\* does not hold after a restart of the sender (README, section 8).
AcceptedIsResumed ==
    \A m \in bin \ (received \cup abortRequested \cup dropped), i \in Index : Accepted(m) =>
        \/ \E j \in Job : /\ j.media = m /\ next[j] <= i
                        /\ pc[j] \in {"wait", "check", "push", "add"}
        \/ \E c \in ChunksOf(m) : /\ c.index = i
                                  /\ InPipeline(c) \/ c \in DOMAIN unacked \cup acked \cup gaveUp

\* A run that has the turn to put its chunks into chunkQueue.
Sending(j) == pc[j] \in {"check", "push", "add"}

\* A second FILE_ACCEPT started a second run of m, which may share the turn of the first
\* and outlive it.
AcceptedTwice(m) ==
    \E j, k \in Job : j # k /\ j.media = m /\ k.media = m /\ pc[j] # "idle" /\ pc[k] # "idle"

\* Files are queued one after the other: while a run of one file puts its chunks into
\* chunkQueue, no run of another file does (mediaSendMu, activeMediaID), but for the
\* files that were accepted twice.
OneFileAtATime ==
    \A j, k \in Job : Sending(j) /\ Sending(k) /\ j.media # k.media =>
        AcceptedTwice(j.media) \/ AcceptedTwice(k.media)

\* The comment on mediaSendMu and activeMediaID: one file after the other, always.  It
\* does not hold when a file is accepted twice (README, section 8).
OneFileAlways == \A j, k \in Job : Sending(j) /\ Sending(k) => j.media = k.media

\* The turn is never lost, whatever overlaps: who is recorded as its holder sends, so
\* the others wait for somebody; and a file that was accepted once is never sent without it.
TurnHasOwner ==
    /\ active # None => \E j \in Job : j.media = active /\ Sending(j)
    /\ \A j \in Job : Sending(j) /\ active # j.media => AcceptedTwice(j.media)

\* After an abort no run goes on to another chunk of the file (the check at the head of
\* the loop of sendFileChunksAsync), unless a second run took the flag down.
AbortStopsRun ==
    [][\A j \in Job :
        j.media \in abortRequested /\ ~AcceptedTwice(j.media) /\ pc[j] = "check"
            => pc'[j] # "push"]_vars

\* A file the receiver recorded as aborted is not assembled any more.  It does not hold
\* for a chunk that is past the check when the abort comes (README, section 8).
AbortedStaysUnassembled ==
    [][\A m \in abortedR : m \notin assembled => m \notin assembled']_vars

\* A file is assembled from all of its chunks, each accepted by memory.Add in some
\* run: chunks of several runs, retries and restarts never make up for a missing one.
AssembledIsComplete ==
    \A m \in received, i \in Index : \E c \in stored : c.media = m /\ c.index = i

-----------------------------------------------------------------------------
\* The transfer seen from outside: copies, pieces and files, whatever chunks, runs and
\* retries carried them.
FilesShown == {m \in Media : \E c \in DOMAIN memS : c.media = m /\ memS[c] = "delivered"}
FilesHurried == {m \in Media : \E c \in early : c.media = m}
PiecesStored == [m \in Media |-> {i \in Index : \E c \in stored : c.media = m /\ c.index = i}]

FD == INSTANCE FileDelivery WITH
        Piece <- Index,
        accepted <- {m \in Media : Accepted(m)},
        pieces <- PiecesStored,
        whole <- received,
        source <- bin,
        shown <- FilesShown,
        hurried <- FilesHurried,
        excused <- Excused \cup {m \in Media : Hasty(m)}

\* Retries, duplicates, overlapping runs, aborts, declines and restarts of either side
\* never break the promise of FileDelivery.
ImplementsDelivery == FD!Spec

-----------------------------------------------------------------------------
\* When nothing is lost, an accepted file reaches the receiver's disk, the sender
\* learns it and drops its copy: no run waits for ever for its turn or for room in
\* the queue, whatever the retry loop adds.
AcceptedIsReceived ==
    \A m \in Media : Accepted(m) ~> (m \in received /\ m \notin bin)

\* Even when nothing arrives, an entry of unackedChunks leaves it: acknowledged, or
\* given up after the last backoff (the comment on retryLoop).
EntriesLeave ==
    \A c \in Chunk : c \in DOMAIN unacked ~> c \notin DOMAIN unacked

=============================================================================
