-------------------------- MODULE PendingQueueProofs --------------------------
(***************************************************************************)
(* The file of the offline queue, for any set of messages: proved of       *)
(* PendingQueue alone, and carried over to TextDelivery, each of whose     *)
(* steps is one of the queue or leaves it alone.                           *)
(***************************************************************************)
EXTENDS TextDelivery, TLAPS

\* While no two saves have run at once, one copy at most is being written.  Unless a save is
\* still to come that has not copied the queue, that copy covers the queue, and one is being
\* written unless the file covers it already.
CopiesCover ==
    /\ savesDue \in Nat /\ overlapped \in BOOLEAN
    /\ ~overlapped =>
        /\ \A one, other \in writers : one = other
        /\ \/ saveScheduled \/ savesDue > 0
           \/ /\ \A copy \in writers : pending \subseteq copy
              /\ pending \subseteq queueFile \/ writers # {}

LEMMA QueueInitCovers == QueueInit => CopiesCover
<1> SUFFICES ASSUME QueueInit PROVE CopiesCover
  OBVIOUS
<1>1. savesDue \in Nat /\ overlapped \in BOOLEAN /\ writers = {} /\ pending = {}
  BY DEF QueueInit
<1> QED
  BY <1>1 DEF CopiesCover

\* A copy that is alone covers whatever was queued before it was taken, and what is queued
\* after it has a save of its own.
LEMMA QueueStepCovers == CopiesCover /\ [QueueNext]_queueVars => CopiesCover'
<1> SUFFICES ASSUME CopiesCover, [QueueNext]_queueVars PROVE CopiesCover'
  OBVIOUS
<1> USE DEF CopiesCover
<1>1. ASSUME NEW t \in Text, Enqueue(t) PROVE CopiesCover'
  BY <1>1 DEF Enqueue
<1>2. ASSUME NEW t \in Text, RemoveRef(t) PROVE CopiesCover'
  <2>1. /\ UNCHANGED <<saveScheduled, writers, queueFile, overlapped>>
        /\ pending' \subseteq pending
        /\ savesDue' = savesDue \/ savesDue' = savesDue + 1
    BY <1>2 DEF RemoveRef
  <2>2. savesDue' \in Nat /\ (savesDue > 0 => savesDue' > 0)
    BY <2>1
  <2> QED
    BY <2>1, <2>2
<1>3. CASE StartScheduledSave
  <2>1. savesDue' \in Nat /\ savesDue' > 0 /\ UNCHANGED <<writers, overlapped>>
    BY <1>3 DEF StartScheduledSave
  <2> QED
    BY <2>1
<1>4. CASE CopyQueue
  <2>1. savesDue' \in Nat /\ overlapped' \in BOOLEAN
    BY <1>4 DEF CopyQueue
  <2>2. ASSUME ~overlapped'
        PROVE  writers' = {pending'}
    BY <1>4, <2>2 DEF CopyQueue
  <2> QED
    BY <2>1, <2>2
<1>5. ASSUME NEW copy \in writers, WriteQueueFile(copy) PROVE CopiesCover'
  <2>1. queueFile' = copy /\ writers' = writers \ {copy}
        /\ UNCHANGED <<pending, saveScheduled, savesDue, overlapped>>
    BY <1>5 DEF WriteQueueFile
  <2> QED
    BY <2>1
<1>6. CASE LoadQueue
  BY <1>6 DEF LoadQueue, StartWithoutSaves
<1>7. CASE StopAndLoadQueue
  BY <1>7 DEF StopAndLoadQueue, StartWithoutSaves
<1>8. CASE UNCHANGED queueVars
  BY <1>8 DEF queueVars, file
<1> QED
  BY <1>1, <1>2, <1>3, <1>4, <1>5, <1>6, <1>7, <1>8 DEF QueueNext

\* A message that is queued has a file that has it, or a save ahead that will write it: the
\* throttle of enqueuePending loses none, and only saves that run at once can undo each other.
THEOREM QueueIsSavedSoon == QueueSpec => []QueuedIsSavedSoon
<1>1. CopiesCover => QueuedIsSavedSoon
  BY DEF CopiesCover, QueuedIsSavedSoon, SaveAhead
<1> QED
  BY <1>1, QueueInitCovers, QueueStepCovers, PTL DEF QueueSpec

\* What TextDelivery does to the queue is what PendingQueue allows.
LEMMA TextStepIsQueueStep == [TextNext]_textVars => [QueueNext]_queueVars
<1> SUFFICES ASSUME [TextNext]_textVars PROVE [QueueNext]_queueVars
  OBVIOUS
<1> USE DEF sender, sending, handling, receiver, options, queueVars, file
<1>1. ASSUME NEW t \in Text,
             \/ SendToPeer(t) \/ EnqueuePending(t) \/ TryReplicate(t)
             \/ RemovePending(t) \/ MarkDelivered(t) \/ ReceiveRead(t)
             \/ ReceiveText(t) \/ SendRead(t) \/ SendReadBatch(t) \/ ReceiveTtlUpdate(t)
             \/ HardDeadline(t) \/ SenderDeadline(t) \/ ReceiverDeadline(t)
             \/ DeleteExpiredS(t) \/ DeleteExpiredR(t)
      PROVE  [QueueNext]_queueVars
  <2>1. CASE EnqueuePending(t)
    BY <2>1 DEF EnqueuePending, QueueNext
  <2>2. CASE RemovePending(t)
    BY <2>2 DEF RemovePending, QueueNext
  <2>3. CASE ~EnqueuePending(t) /\ ~RemovePending(t)
    <3>1. UNCHANGED queueVars
      BY <1>1, <2>3 DEF SendToPeer, TryReplicate, MarkDelivered, ReceiveRead, ReceiveText, SendRead,
         SendReadBatch, ReceiveTtlUpdate, HardDeadline, SenderDeadline, ReceiverDeadline,
         DeleteExpiredS, DeleteExpiredR
    <3> QED
      BY <3>1
  <2> QED
    BY <2>1, <2>2, <2>3
<1>2. CASE SaveQueue
  BY <1>2 DEF SaveQueue, QueueNext
<1>3. ASSUME NEW refs \in SUBSET Text, ReceiveDelivered(refs) PROVE [QueueNext]_queueVars
  BY <1>3 DEF ReceiveDelivered
<1>4. CASE RestartSender
  BY <1>4 DEF RestartSender, QueueNext
<1>5. CASE StopAndStartSender
  BY <1>5 DEF StopAndStartSender, QueueNext
<1>6. CASE \/ FlushPending \/ FlushDelivered \/ RemoveSender \/ SaveSender \/ SaveReceiver
           \/ RestartReceiver \/ LoseText
  <2>1. UNCHANGED queueVars
    BY <1>6 DEF FlushPending, FlushDelivered, RemoveSender, SaveSender, SaveReceiver,
       RestartReceiver, LoseText
  <2> QED
    BY <2>1
<1>7. CASE UNCHANGED textVars
  BY <1>7 DEF textVars
<1> QED
  BY <1>1, <1>2, <1>3, <1>4, <1>5, <1>6, <1>7 DEF TextNext

\* Every step of TextDelivery is one of the queue or leaves it alone, so the file of the
\* queue keeps up with what is sent and confirmed.
THEOREM TextQueueIsSavedSoon == TextSpec => []QueuedIsSavedSoon
<1>1. TextInit => QueueInit
  BY DEF TextInit
<1>2. TextSpec => QueueSpec
  BY <1>1, TextStepIsQueueStep, PTL DEF TextSpec, QueueSpec
<1> QED
  BY <1>2, QueueIsSavedSoon, PTL
===============================================================================
