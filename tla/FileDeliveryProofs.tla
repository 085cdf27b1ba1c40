--------------------------- MODULE FileDeliveryProofs ---------------------------
(***************************************************************************)
(* FileTransfer implements FileDelivery, for every set of files and any    *)
(* numbers of chunks, runs, workers and retries.  Three invariants of      *)
(* FileTransferProofs carry it (what a confirmation says is true, the copy *)
(* is kept, an assembled file has every chunk), and a fourth is shown      *)
(* here: no chunk is anywhere, and none is marked as delivered by an early *)
(* acknowledgement, unless its file was accepted.                          *)
(***************************************************************************)
EXTENDS FileTransferProofs

\* A file that was accepted stays accepted, and is not accepted by anything but a
\* FILE_ACCEPT.
LEMMA AcceptedStays ==
  ASSUME TypeInv, [Next]_vars
  PROVE  /\ \A j \in Job : pc[j] # "idle" => pc'[j] # "idle"
         /\ \A m : Accepted(m) => Accepted(m)'
         /\ (\A j \in Job : ~ReceiveAccept(j)) => \A j \in Job : pc'[j] # "idle" => pc[j] # "idle"
<1> USE DEF TypeInv, TurnInv, TurnType, turn, senderVars
<1>1. /\ \A j \in Job : pc[j] # "idle" => pc'[j] # "idle"
      /\ (\A j \in Job : ~ReceiveAccept(j)) => \A j \in Job : pc'[j] # "idle" => pc[j] # "idle"
  <2>1. ASSUME NEW j \in Job, ReceiveAccept(j)
        PROVE  \A k \in Job : pc[k] # "idle" => pc'[k] # "idle"
    BY <2>1 DEF ReceiveAccept
  <2>2. ASSUME NEW j \in Job, RunStep(j)
        PROVE  \A k \in Job : pc[k] # "idle" <=> pc'[k] # "idle"
    BY <2>2 DEF RunStep, AcquireTurn, FinishRun, StopRun, PrepareChunk, PushChunk, AddChunk
  <2>3. CASE RestartSender
    BY <2>3 DEF RestartSender
  <2>4. CASE \/ \E w \in Workers : WorkerStep(w)
             \/ RetryStep
             \/ SenderReceives
             \/ \E old \in SUBSET bin : CleanupSent(old)
             \/ \E m \in Media : \/ ReceiveDecline(m) \/ AbortTransfer(m) \/ DiscardFile(m)
                                \/ DeleteFile(m)
             \/ SaveSender
    <3>1. pc' = pc
      BY <2>4 DEF WorkerStep, TakeChunk, SendChunk, RetryStep, RetryScans, RetryScan, RetryItem,
         RetryFails, RetryQueues, RetryDefers, SenderReceives, ReceiveDelivered, ReceiveComplete,
         ReceiveRead, ReceiveReadFile, MarkUnfound, CleanupSent, ReceiveDecline, AbortTransfer,
         DiscardFile, DeleteFile, SaveSender
    <3> QED
      BY <3>1
  <2>5. CASE ReceiverNext \/ UNCHANGED vars \/ (Lose /\ UNCHANGED <<senderVars, receiverVars>>)
    <3>1. pc' = pc
      BY <2>5 DEF ReceiverNext, vars
    <3> QED
      BY <3>1
  <2> QED
    BY <2>1, <2>2, <2>3, <2>4, <2>5 DEF Next, SenderNext
<1> QED
  BY <1>1 DEF Accepted
-----------------------------------------------------------------------------
\* No chunk is queued, sent, remembered or received of a file that was not accepted.
QueueAsked == \A i \in DOMAIN chunkQueue : Accepted(chunkQueue[i].media)
WorkersAsked == \A w \in Workers : worker[w] # None => Accepted(worker[w].media)
ListsAsked == \A c \in DOMAIN unacked \cup DOMAIN memS \cup DOMAIN savedS : Accepted(c.media)
BatchAsked == \A item \in retryBatch : Accepted(item.chunk.media)
MailAsked == \A c \in Chunk : ChunkMsg(c) \in net \/ c \in inHand => Accepted(c.media)
EarlyAsked == \A c \in early : Accepted(c.media)

OnlyAsked == QueueAsked /\ WorkersAsked /\ ListsAsked /\ BatchAsked /\ MailAsked /\ EarlyAsked

LEMMA NothingAskedAtFirst == Init => OnlyAsked
  BY DEF Init, SenderInit, ReceiverInit, OnlyAsked, QueueAsked, WorkersAsked, ListsAsked,
     BatchAsked, MailAsked, EarlyAsked, NoEntry

\* What a step leaves alone or takes away stays within what was asked for.
LEMMA AskedFrame ==
  ASSUME OnlyAsked, \A m : Accepted(m) => Accepted(m)'
  PROVE  /\ UNCHANGED chunkQueue => QueueAsked'
         /\ UNCHANGED worker => WorkersAsked'
         /\ (/\ DOMAIN unacked' \subseteq DOMAIN unacked \cup DOMAIN memS \cup DOMAIN savedS
             /\ DOMAIN memS' \subseteq DOMAIN memS \cup DOMAIN savedS
             /\ DOMAIN savedS' \subseteq DOMAIN memS \cup DOMAIN savedS) => ListsAsked'
         /\ retryBatch' \subseteq retryBatch => BatchAsked'
         /\ (/\ \A c \in Chunk : ChunkMsg(c) \in net' => ChunkMsg(c) \in net
             /\ inHand' \subseteq inHand) => MailAsked'
         /\ early' \subseteq early => EarlyAsked'
  BY DEF OnlyAsked, QueueAsked, WorkersAsked, ListsAsked, BatchAsked, MailAsked, EarlyAsked

LEMMA OnlyAskedStep == TypeInv /\ OnlyAsked /\ [Next]_vars => OnlyAsked'
<1> SUFFICES ASSUME TypeInv, OnlyAsked, [Next]_vars PROVE OnlyAsked'
  OBVIOUS
<1>0. \A m : Accepted(m) => Accepted(m)'
  BY AcceptedStays
<1> USE DEF turn, pipeline, retry, store, senderHistory, senderVars, streamState, chunkState,
            receiverVars
<1>1. ASSUME NEW j \in Job, RunStep(j), UNCHANGED receiverVars PROVE OnlyAsked'
  <2>1. CASE PushChunk(j)
    <3>1. Accepted(j.media)
      BY <2>1 DEF PushChunk, Accepted
    <3>2. \A i \in DOMAIN chunkQueue' :
              \/ i \in DOMAIN chunkQueue /\ chunkQueue'[i] = chunkQueue[i]
              \/ chunkQueue'[i].media = j.media
      BY <2>1 DEF PushChunk, ChunkOf, TypeInv, PipelineType
    <3>3. QueueAsked'
      BY <1>0, <3>1, <3>2 DEF OnlyAsked, QueueAsked
    <3> QED
      BY <1>0, <1>1, <2>1, <3>3, AskedFrame DEF PushChunk, OnlyAsked
  <2>2. CASE AddChunk(j)
    <3>1. Accepted(j.media)
      BY <2>2 DEF AddChunk, Accepted
    <3>2. \A c \in DOMAIN memS' : c \in DOMAIN memS \/ c.media = j.media
      BY <2>2 DEF AddChunk, With, ChunkOf
    <3>3. ListsAsked'
      BY <1>0, <2>2, <3>1, <3>2 DEF AddChunk, OnlyAsked, ListsAsked
    <3> QED
      BY <1>0, <1>1, <2>2, <3>3, AskedFrame DEF AddChunk, OnlyAsked
  <2>3. CASE AcquireTurn(j) \/ FinishRun(j) \/ StopRun(j) \/ PrepareChunk(j)
    <3>1. UNCHANGED <<net, pipeline, retry, store, inHand, early>>
      BY <1>1, <2>3 DEF AcquireTurn, FinishRun, StopRun, PrepareChunk
    <3> QED
      BY <1>0, <3>1, AskedFrame DEF OnlyAsked
  <2> QED
    BY <1>1, <2>1, <2>2, <2>3 DEF RunStep
<1>2. ASSUME NEW w \in Workers, TakeChunk(w), UNCHANGED receiverVars PROVE OnlyAsked'
  <2>1. chunkQueue # <<>> /\ chunkQueue \in Seq(Chunk)
    BY <1>2 DEF TakeChunk, TypeInv, PipelineType
  <2>2. Accepted(Head(chunkQueue).media)
    BY <2>1 DEF OnlyAsked, QueueAsked
  <2>3. \A i \in DOMAIN Tail(chunkQueue) : Accepted(Tail(chunkQueue)[i].media)
    BY <2>1 DEF OnlyAsked, QueueAsked
  <2>4. QueueAsked'
    BY <1>0, <1>2, <2>3 DEF TakeChunk, QueueAsked
  <2>5. WorkersAsked'
    BY <1>0, <1>2, <2>2 DEF TakeChunk, OnlyAsked, WorkersAsked, TypeInv, PipelineType
  <2> QED
    BY <1>0, <1>2, <2>4, <2>5, AskedFrame DEF TakeChunk, OnlyAsked
<1>3. ASSUME NEW w \in Workers, SendChunk(w), UNCHANGED receiverVars PROVE OnlyAsked'
  <2>1. Accepted(worker[w].media)
    BY <1>3 DEF SendChunk, OnlyAsked, WorkersAsked
  <2>2. ListsAsked'
    BY <1>0, <1>3, <2>1 DEF SendChunk, Register, With, OnlyAsked, ListsAsked
  <2>3. WorkersAsked'
    BY <1>0, <1>3 DEF SendChunk, OnlyAsked, WorkersAsked, TypeInv, PipelineType
  <2>4. MailAsked'
    BY <1>0, <1>3, <2>1 DEF SendChunk, ChunkMsg, OnlyAsked, MailAsked
  <2> QED
    BY <1>0, <1>3, <2>2, <2>3, <2>4, AskedFrame DEF SendChunk, OnlyAsked
<1>4. ASSUME NEW due \in SUBSET DOMAIN unacked, RetryScan(due), UNCHANGED receiverVars
      PROVE  OnlyAsked'
  <2>1. BatchAsked'
    BY <1>0, <1>4 DEF RetryScan, OnlyAsked, ListsAsked, BatchAsked
  <2>2. DOMAIN unacked' \subseteq DOMAIN unacked
    BY <1>4, WithoutValue DEF RetryScan
  <2> QED
    BY <1>0, <1>4, <2>1, <2>2, AskedFrame DEF RetryScan, OnlyAsked
<1>5. ASSUME NEW item \in retryBatch, RetryItem(item), UNCHANGED receiverVars PROVE OnlyAsked'
  <2>1. Accepted(item.chunk.media)
    BY DEF OnlyAsked, BatchAsked
  <2>2. CASE RetryFails(item)
    <3>1. DOMAIN unacked' \subseteq DOMAIN unacked \cup {item.chunk}
      BY <2>2 DEF RetryFails, With, Without, Restrict
    <3>2. ListsAsked'
      BY <1>0, <2>1, <2>2, <3>1 DEF RetryFails, OnlyAsked, ListsAsked
    <3> QED
      BY <1>0, <1>5, <2>2, <3>2, AskedFrame DEF RetryFails, OnlyAsked
  <2>3. CASE RetryQueues(item)
    <3>1. \A i \in DOMAIN chunkQueue' :
              \/ i \in DOMAIN chunkQueue /\ chunkQueue'[i] = chunkQueue[i]
              \/ chunkQueue'[i] = item.chunk
      BY <2>3 DEF RetryQueues, TypeInv, PipelineType, RetryInv, RetryType
    <3>2. QueueAsked'
      BY <1>0, <2>1, <3>1 DEF OnlyAsked, QueueAsked
    <3>3. DOMAIN unacked' = DOMAIN unacked
      BY <2>3 DEF RetryQueues, CountAttempt
    <3> QED
      BY <1>0, <1>5, <2>3, <3>2, <3>3, AskedFrame DEF RetryQueues, OnlyAsked
  <2>4. CASE RetryDefers(item)
    BY <1>0, <1>5, <2>4, AskedFrame DEF RetryDefers, OnlyAsked
  <2> QED
    BY <1>5, <2>2, <2>3, <2>4 DEF RetryItem
<1>6. CASE SenderReceives /\ UNCHANGED receiverVars
  <2>1. DOMAIN unacked' \subseteq DOMAIN unacked
    <3>1. ASSUME NEW refs, ReceiveDelivered(refs)
          PROVE  DOMAIN unacked' \subseteq DOMAIN unacked
      BY <3>1 DEF ReceiveDelivered, Without, Restrict
    <3>2. ASSUME NEW c, MarkUnfound(c)
          PROVE  DOMAIN unacked' \subseteq DOMAIN unacked
      BY <3>2 DEF MarkUnfound, Without, Restrict
    <3> QED
      BY <1>6, <3>1, <3>2 DEF SenderReceives, ReceiveComplete, ReceiveRead, ReceiveReadFile
  <2>2. DOMAIN memS' = DOMAIN memS
    BY <1>6 DEF SenderReceives, ReceiveDelivered, ReceiveComplete, ReceiveRead, ReceiveReadFile,
       MarkUnfound, MarkDelivered
  <2>3. net' \subseteq net /\ UNCHANGED <<pipeline, retryBatch, savedS>>
    BY <1>6 DEF SenderReceives, ReceiveDelivered, ReceiveComplete, ReceiveRead, ReceiveReadFile,
       MarkUnfound
  <2>4. early' \subseteq early \cup DOMAIN memS
    BY <1>6 DEF SenderReceives, ReceiveDelivered, ReceiveComplete, ReceiveRead, ReceiveReadFile,
       MarkUnfound
  <2>5. EarlyAsked'
    BY <1>0, <2>4 DEF OnlyAsked, EarlyAsked, ListsAsked
  <2> QED
    BY <1>0, <1>6, <2>1, <2>2, <2>3, <2>5, AskedFrame DEF OnlyAsked
<1>7. ASSUME NEW m \in Media, AbortTransfer(m) \/ DiscardFile(m), UNCHANGED receiverVars
      PROVE  OnlyAsked'
  <2>1. \A c \in Chunk : ChunkMsg(c) \in net' => ChunkMsg(c) \in net
    BY <1>7 DEF AbortTransfer, DiscardFile, ChunkMsg, AbortMsg
  <2>2. UNCHANGED <<pipeline, retry, store, inHand, early>>
    BY <1>7 DEF AbortTransfer, DiscardFile
  <2> QED
    BY <1>0, <2>1, <2>2, AskedFrame DEF OnlyAsked
<1>8. ASSUME NEW m \in Media, DeleteFile(m) \/ ReceiveDecline(m), UNCHANGED receiverVars
      PROVE  OnlyAsked'
  <2>1. DOMAIN memS' \subseteq DOMAIN memS /\ DOMAIN unacked' \subseteq DOMAIN unacked
    BY <1>8 DEF DeleteFile, ReceiveDecline, Without, Restrict
  <2>2. UNCHANGED <<net, pipeline, retryBatch, savedS, inHand, early>>
    BY <1>8 DEF DeleteFile, ReceiveDecline
  <2> QED
    BY <1>0, <2>1, <2>2, AskedFrame DEF OnlyAsked
<1>9. CASE SaveSender /\ UNCHANGED receiverVars
  BY <1>0, <1>9, AskedFrame DEF SaveSender, OnlyAsked
<1>10. CASE RestartSender /\ UNCHANGED receiverVars
  <2>1. QueueAsked' /\ WorkersAsked'
    BY <1>10 DEF RestartSender, QueueAsked, WorkersAsked
  <2>2. DOMAIN unacked' \subseteq DOMAIN savedS /\ memS' = savedS /\ retryBatch' = {}
        /\ UNCHANGED <<net, savedS, inHand, early>>
    BY <1>10 DEF RestartSender
  <2> QED
    BY <1>0, <2>1, <2>2, AskedFrame DEF OnlyAsked
<1>11. CASE UNCHANGED <<net, pipeline, retry, store, inHand, early>>
  BY <1>0, <1>11, AskedFrame DEF OnlyAsked
<1>12. CASE SenderNext
  <2>1. CASE \/ \E j \in Job : ReceiveAccept(j)
             \/ \E old \in SUBSET bin : CleanupSent(old)
    <3>1. UNCHANGED <<net, pipeline, retry, store, inHand, early>>
      BY <1>12, <2>1 DEF ReceiveAccept, CleanupSent, SenderNext
    <3> QED
      BY <1>11, <3>1
  <2> QED
    BY <1>1, <1>2, <1>3, <1>4, <1>5, <1>6, <1>7, <1>8, <1>9, <1>10, <1>12, <2>1
       DEF SenderNext, WorkerStep, RetryStep, RetryScans
<1>13. ASSUME NEW c \in Chunk, ReceiveChunk(c), UNCHANGED senderVars PROVE OnlyAsked'
  <2>1. /\ \A d \in Chunk : ChunkMsg(d) \in net' => ChunkMsg(d) \in net
        /\ inHand' \subseteq inHand \cup {c} /\ ChunkMsg(c) \in net
    BY <1>13 DEF ReceiveChunk
  <2>2. MailAsked'
    BY <1>0, <2>1 DEF OnlyAsked, MailAsked
  <2> QED
    BY <1>0, <1>13, <2>2, AskedFrame DEF OnlyAsked
<1>14. CASE ReceiverNext /\ \A c \in Chunk : ~ReceiveChunk(c)
  <2>1. /\ \A c \in Chunk : ChunkMsg(c) \in net' => ChunkMsg(c) \in net
        /\ inHand' \subseteq inHand
    <3>1. ASSUME NEW c \in Chunk, StoreChunk(c) \/ ReadFile(c)
          PROVE  /\ \A d \in Chunk : ChunkMsg(d) \in net' => ChunkMsg(d) \in net
                 /\ inHand' \subseteq inHand
      BY <3>1, MessageKinds DEF StoreChunk, ReadFile
    <3>2. CASE FlushDelivered \/ SaveReceiver \/ RestartReceiver
      BY <3>2 DEF FlushDelivered, SaveReceiver, RestartReceiver, ChunkMsg, DeliveredMsg
    <3>3. ASSUME NEW m \in Media, (\E i \in Index : SaveChunk(m, i)) \/ ReceiveAbort(m) \/ RecordAbort(m)
          PROVE  net' \subseteq net /\ inHand' \subseteq inHand
      BY <3>3 DEF SaveChunk, ReceiveAbort, RecordAbort
    <3>4. ASSUME NEW m \in Media, TryAssemble(m)
          PROVE  /\ \A d \in Chunk : ChunkMsg(d) \in net' => ChunkMsg(d) \in net
                 /\ inHand' \subseteq inHand
      <4>1. net' \subseteq net \cup {CompleteMsg(m), DeliveredMsg(ackBuf)} /\ inHand' = inHand
        BY <3>4 DEF TryAssemble
      <4> QED
        BY <4>1 DEF ChunkMsg, CompleteMsg, DeliveredMsg
    <3>5. ASSUME NEW m \in Media, ReadFileBatch(m)
          PROVE  /\ \A d \in Chunk : ChunkMsg(d) \in net' => ChunkMsg(d) \in net
                 /\ inHand' \subseteq inHand
      BY <3>5, MessageKinds DEF ReadFileBatch
    <3> QED
      BY <1>14, <3>1, <3>2, <3>3, <3>4, <3>5 DEF ReceiverNext
  <2>2. UNCHANGED senderVars
    BY <1>14 DEF ReceiverNext
  <2> QED
    BY <1>0, <2>1, <2>2, AskedFrame DEF OnlyAsked
<1>15. CASE Lose /\ UNCHANGED <<senderVars, receiverVars>>
  BY <1>0, <1>15, AskedFrame DEF Lose, OnlyAsked
<1>16. CASE UNCHANGED vars
  BY <1>11, <1>16 DEF vars
<1> QED
  BY <1>12, <1>13, <1>14, <1>15, <1>16 DEF Next, ReceiverNext
-----------------------------------------------------------------------------
\* What FileDelivery sees of a step that is not one of its own: nothing is accepted,
\* stored or assembled, and the books of the sender only lose what they may lose.
LEMMA BooksSettle ==
  ASSUME TypeInv, Honest', SenderHistoryType', EarlyAsked',
         bin' \subseteq bin, abortRequested \subseteq abortRequested', dropped \subseteq dropped',
         aged \subseteq aged', early \subseteq early',
         stored' = stored, received' = received,
         \A j \in Job : pc'[j] # "idle" <=> pc[j] # "idle"
  PROVE  FD!Settle
<1> DEFINE Pardoned == Excused \cup {m \in Media : Hasty(m)}
<1>1. \A m : Accepted(m)' <=> Accepted(m)
  BY DEF Accepted
<1>2. {m \in Media : Accepted(m)}' = {m \in Media : Accepted(m)}
  BY <1>1
<1>3. PiecesStored' = PiecesStored
  BY DEF PiecesStored
<1>4. early' \subseteq Chunk
  BY DEF SenderHistoryType
<1>5. Pardoned \subseteq Pardoned' /\ Pardoned' \subseteq Media
  <2>1. Excused \subseteq Excused' /\ Excused' \subseteq Media
    BY DEF Excused, SenderHistoryType
  <2>2. \A m : Hasty(m) => Hasty(m)'
    BY <1>4, HastyStays
  <2> QED
    BY <2>1, <2>2
<1>6. FilesHurried \subseteq FilesHurried' /\ FilesHurried' \subseteq {m \in Media : Accepted(m)}
  BY <1>1 DEF FilesHurried, EarlyAsked
<1>7. bin \ bin' \subseteq received \cup Pardoned'
  BY DEF Honest, SourceKept, Dispensable, TypeInv, DiskType
<1>8. FilesShown' \subseteq received \cup FilesHurried'
  BY DEF FilesShown, FilesHurried, Honest, DeliveredIsReceived
<1> QED
  BY <1>2, <1>3, <1>5, <1>6, <1>7, <1>8 DEF FD!Settle

\* Every step of the sender but a FILE_ACCEPT is such a one.
LEMMA SenderSettles ==
  ASSUME TypeInv, [Next]_vars, TypeInv', Honest', EarlyAsked', SenderNext,
         \A j \in Job : ~ReceiveAccept(j)
  PROVE  FD!Settle
<1> DEFINE Loses == /\ bin' \subseteq bin
                    /\ abortRequested \subseteq abortRequested' /\ dropped \subseteq dropped'
                    /\ aged \subseteq aged' /\ early \subseteq early'
<1> USE DEF disk, senderHistory
<1>1. Loses
  <2>1. ASSUME NEW j \in Job, RunStep(j) PROVE Loses
    BY <2>1 DEF RunStep, AcquireTurn, FinishRun, StopRun, PrepareChunk, PushChunk, AddChunk
  <2>2. CASE (\E w \in Workers : WorkerStep(w)) \/ RetryStep
    BY <2>2 DEF WorkerStep, TakeChunk, SendChunk, RetryStep, RetryScans, RetryScan, RetryItem,
       RetryFails, RetryQueues, RetryDefers
  <2>3. CASE SenderReceives \/ SaveSender \/ RestartSender
    BY <2>3 DEF SenderReceives, ReceiveDelivered, ReceiveComplete, ReceiveRead, ReceiveReadFile,
       MarkUnfound, SaveSender, RestartSender
  <2>4. CASE \/ \E old \in SUBSET bin : CleanupSent(old)
             \/ \E m \in Media : \/ ReceiveDecline(m) \/ AbortTransfer(m) \/ DiscardFile(m)
                                \/ DeleteFile(m)
    BY <2>4 DEF CleanupSent, ReceiveDecline, AbortTransfer, DiscardFile, DeleteFile
  <2> QED
    BY <2>1, <2>2, <2>3, <2>4 DEF SenderNext
<1>2. stored' = stored /\ received' = received
  BY DEF SenderNext, receiverVars, receiverHistory
<1>3. \A j \in Job : pc'[j] # "idle" <=> pc[j] # "idle"
  BY AcceptedStays
<1> QED
  BY <1>1, <1>2, <1>3, BooksSettle DEF TypeInv

\* Each step of FileTransfer is one of FileDelivery: an accept, a piece that memory.Add
\* takes, a file that is assembled, or a change of the sender's books.
LEMMA StepDelivers ==
  TypeInv /\ Honest /\ CameInv /\ OnlyAsked /\ [Next]_vars /\ TypeInv' /\ Honest' /\ EarlyAsked'
    => FD!Next
<1> SUFFICES ASSUME TypeInv, Honest, CameInv, OnlyAsked, [Next]_vars, TypeInv', Honest', EarlyAsked'
             PROVE  FD!Next
  OBVIOUS
<1> DEFINE Pardoned == Excused \cup {n \in Media : Hasty(n)}
<1>1. ASSUME NEW j \in Job, ReceiveAccept(j), UNCHANGED receiverVars PROVE FD!Next
  <2>1. j.media \in Media
    BY JobFacts
  <2>2. \A m : Accepted(m)' <=> Accepted(m) \/ m = j.media
    BY <1>1 DEF ReceiveAccept, Accepted, TypeInv, TurnInv, TurnType
  <2>3. {m \in Media : Accepted(m)}' = {m \in Media : Accepted(m)} \cup {j.media}
    BY <2>1, <2>2
  <2>4. UNCHANGED <<stored, received, bin, memS, abortRequested, dropped, aged, early>>
    BY <1>1 DEF ReceiveAccept, disk, store, senderHistory, receiverVars, receiverHistory
  <2>5. UNCHANGED <<PiecesStored, received, bin, FilesShown, FilesHurried, Pardoned>>
    BY <2>4 DEF PiecesStored, FilesShown, FilesHurried, Excused, Hasty
  <2>6. FD!Accept(j.media)
    BY <2>3, <2>5 DEF FD!Accept
  <2> QED
    BY <2>1, <2>6 DEF FD!Next
<1>2. ASSUME NEW c \in Chunk, StoreChunk(c), UNCHANGED senderVars PROVE FD!Next
  <2> USE DEF senderVars, disk, turn, store, senderHistory
  <2>1. CASE Seen(c)
    <3>1. FD!Settle
      BY <1>2, <2>1, BooksSettle DEF StoreChunk, TypeInv
    <3> QED
      BY <3>1 DEF FD!Next
  <2>2. CASE ~Seen(c)
    <3>1. c.media \in Media /\ c.index \in Index
      BY JobFacts
    <3>2. Accepted(c.media)
      BY <1>2 DEF StoreChunk, OnlyAsked, MailAsked
    <3>3. stored' = stored \cup {c} /\ received' = received
      BY <1>2, <2>2 DEF StoreChunk
    <3>4. PiecesStored' = [PiecesStored EXCEPT ![c.media] = @ \cup {c.index}]
      BY <3>1, <3>3 DEF PiecesStored
    <3>5. \A m : Accepted(m)' <=> Accepted(m)
      BY <1>2 DEF Accepted
    <3>6. {m \in Media : Accepted(m)}' = {m \in Media : Accepted(m)}
      BY <3>5
    <3>7. UNCHANGED <<received, bin, FilesShown, FilesHurried, Pardoned>>
      BY <1>2, <3>3 DEF FilesShown, FilesHurried, Excused, Hasty
    <3>8. FD!TakePiece(c.media, c.index)
      BY <3>1, <3>2, <3>4, <3>6, <3>7 DEF FD!TakePiece
    <3> QED
      BY <3>1, <3>8 DEF FD!Next
  <2> QED
    BY <2>1, <2>2
<1>3. ASSUME NEW m \in Media, TryAssemble(m), UNCHANGED senderVars PROVE FD!Next
  <2> USE DEF senderVars, disk, turn, store, senderHistory
  <2>1. CASE ~Complete(m)
    <3>1. FD!Settle
      BY <1>3, <2>1, BooksSettle DEF TryAssemble, TypeInv
    <3> QED
      BY <3>1 DEF FD!Next
  <2>2. CASE Complete(m)
    <3>1. received' = received \cup {m} /\ stored' = stored
      BY <1>3, <2>2 DEF TryAssemble
    <3>2. PiecesStored[m] = Index
      BY <2>2 DEF Complete, CameInv, Came, PiecesStored
    <3>3. \A n : Accepted(n)' <=> Accepted(n)
      BY <1>3 DEF Accepted
    <3>4. {n \in Media : Accepted(n)}' = {n \in Media : Accepted(n)}
      BY <3>3
    <3>5. UNCHANGED <<PiecesStored, bin, FilesShown, FilesHurried, Pardoned>>
      BY <1>3, <3>1 DEF PiecesStored, FilesShown, FilesHurried, Excused, Hasty
    <3>6. FD!Complete(m)
      BY <3>1, <3>2, <3>4, <3>5 DEF FD!Complete
    <3> QED
      BY <3>6 DEF FD!Next
  <2> QED
    BY <2>1, <2>2
<1>4. CASE SenderNext /\ \A j \in Job : ~ReceiveAccept(j)
  <2>1. FD!Settle
    BY <1>4, SenderSettles
  <2> QED
    BY <2>1 DEF FD!Next
<1>5. CASE \/ ReceiverNext /\ stored' = stored /\ received' = received
           \/ Lose /\ UNCHANGED <<senderVars, receiverVars>>
           \/ UNCHANGED vars
  <2> USE DEF senderVars, disk, turn, store, senderHistory, receiverVars, receiverHistory, vars
  <2>1. UNCHANGED <<pc, bin, memS, abortRequested, dropped, aged, early, stored, received>>
    BY <1>5 DEF ReceiverNext
  <2>2. FD!Settle
    BY <2>1, BooksSettle DEF TypeInv
  <2> QED
    BY <2>2 DEF FD!Next
<1>6. CASE ReceiverNext
  <2>1. CASE (\E c \in Chunk : StoreChunk(c)) \/ \E m \in Media : TryAssemble(m)
    BY <1>2, <1>3, <1>6, <2>1 DEF ReceiverNext
  <2>2. CASE ~((\E c \in Chunk : StoreChunk(c)) \/ \E m \in Media : TryAssemble(m))
    <3>1. stored' = stored /\ received' = received
      BY <1>6, <2>2 DEF ReceiverNext, ReceiveChunk, ReadFile, ReadFileBatch, FlushDelivered, SaveChunk,
         ReceiveAbort, RecordAbort, SaveReceiver, RestartReceiver, receiverHistory
    <3> QED
      BY <1>5, <1>6, <3>1
  <2> QED
    BY <2>1, <2>2
<1> QED
  BY <1>1, <1>4, <1>5, <1>6 DEF Next, SenderNext

\* The transfer, with its runs, retries, duplicates, losses, aborts, declines, deletions and
\* restarts, and whatever acknowledgements overtake, does no more to files than FileDelivery
\* promises.
THEOREM TransferDelivers == Spec => ImplementsDelivery
<1>1. Init => FD!Init
  <2> SUFFICES ASSUME Init PROVE FD!Init
    OBVIOUS
  <2>1. \A m \in Media : ~Accepted(m)
    BY DEF Init, SenderInit, Accepted
  <2>2. PiecesStored = [m \in Media |-> {}] /\ FilesShown = {} /\ FilesHurried = {}
    BY DEF Init, SenderInit, ReceiverInit, NoEntry, PiecesStored, FilesShown, FilesHurried
  <2>3. ASSUME NEW m PROVE ~Hasty(m)
    <3>1. {c \in early : c.media = m} = {}
      BY DEF Init, SenderInit
    <3>2. Cardinality({c \in early : c.media = m}) = 0
      BY <3>1, FS_EmptySet
    <3> QED
      BY <3>2, FileConstants DEF Hasty
  <2> QED
    BY <2>1, <2>2, <2>3 DEF Init, SenderInit, ReceiverInit, Excused, FD!Init
<1>2. Init => TypeInv /\ Honest /\ CameInv /\ OnlyAsked
  BY TypeInit, HonestInit, NothingAskedAtFirst
     DEF Init, ReceiverInit, CameInv, AssembledIsComplete
<1>3. TypeInv /\ Honest /\ CameInv /\ OnlyAsked /\ [Next]_vars
        => TypeInv' /\ Honest' /\ CameInv' /\ OnlyAsked'
  BY TypeStep, HonestStep, CameStep, OnlyAskedStep
<1>4. TypeInv /\ Honest /\ CameInv /\ OnlyAsked /\ [Next]_vars /\ TypeInv' /\ Honest' /\ OnlyAsked'
        => [FD!Next]_(FD!deliveryVars)
  BY StepDelivers DEF OnlyAsked
<1> QED
  BY <1>1, <1>2, <1>3, <1>4, PTL DEF Spec, ImplementsDelivery, FD!Spec
-----------------------------------------------------------------------------
\* What FileDelivery comes to, by its own steps.
LEMMA PromiseStart == FD!Init => FD!Promise
BY DEF FD!Init, FD!Promise

LEMMA PromiseStep ==
  ASSUME FD!Promise, PiecesStored \in [Media -> SUBSET Index],
         [FD!Next]_(FD!deliveryVars)
  PROVE  FD!Promise'
<1> USE DEF FD!Promise
<1>1. ASSUME NEW m \in Media, FD!Accept(m) PROVE FD!Promise'
  BY <1>1 DEF FD!Accept
<1>2. ASSUME NEW m \in Media, FD!Complete(m) PROVE FD!Promise'
  BY <1>2 DEF FD!Complete
<1>3. ASSUME NEW m \in Media, NEW i \in Index, FD!TakePiece(m, i) PROVE FD!Promise'
  BY <1>3 DEF FD!TakePiece
<1>4. CASE FD!Settle
  BY <1>4 DEF FD!Settle
<1>5. CASE UNCHANGED FD!deliveryVars
  BY <1>5 DEF FD!deliveryVars
<1> QED
  BY <1>1, <1>2, <1>3, <1>4, <1>5 DEF FD!Next

\* The chunk protocol inherits it: nothing of a file is with a receiver who has not asked for
\* it, a file that is put together has all of its pieces, Delivered is shown for no other but
\* an accepted one that was confirmed before it was in the sender's memory, and a copy in
\* sent/ is gone only of an assembled file, one that was given up, an old one, or one that was
\* confirmed in full before it was in memory.
THEOREM TransferKeepsPromise == Spec => [](FD!Promise)
<1>1. PiecesStored \in [Media -> SUBSET Index]
  BY DEF PiecesStored
<1>2. FD!Promise /\ [FD!Next]_(FD!deliveryVars) => FD!Promise'
  BY <1>1, PromiseStep
<1>3. FD!Spec => [](FD!Promise)
  BY <1>2, PromiseStart, PTL DEF FD!Spec
<1> QED
  BY <1>3, TransferDelivers, PTL DEF ImplementsDelivery
=============================================================================
