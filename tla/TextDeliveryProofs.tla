-------------------------- MODULE TextDeliveryProofs --------------------------
(***************************************************************************)
(* What holds of TextDelivery for any set of messages, any scenarios and   *)
(* any number of restarts.                                                 *)
(***************************************************************************)
EXTENDS PendingQueueProofs

\* The two rewrites of a copy and the deadlines keep a copy of the sender well formed.
LEMMA CopyOperations ==
  ASSUME NEW copy \in SenderCopy
  PROVE  /\ \A status \in Status \ {"absent"} :
                /\ SetStatus(copy, status) \in SenderCopy
                /\ SetStatus(copy, status).expiry = copy.expiry
                /\ SetStatus(copy, status).status = "absent" <=> copy.status = "absent"
                /\ SetStatus(copy, status).status \in {copy.status, status}
         /\ copy.status # "absent" => Expiring(copy) \in SenderCopy /\ Expired(copy) \in SenderCopy
         /\ Expiring(copy).status = copy.status /\ Expired(copy).status = copy.status
         /\ Expiring(copy).expiry = "running" /\ Expired(copy).expiry = "over"
         /\ copy.status = "absent" => copy = Absent
         /\ copy.expiry # "none" => copy.status # "absent"
         /\ copy.status \in Status /\ copy.expiry \in Expiry
  BY DEF SenderCopy, Absent, Status, Expiry, SetStatus, Expiring, Expired

\* What an update of the status does to a copy, and to its absence.
LEMMA StatusOperations ==
  ASSUME NEW copy \in SenderCopy, NEW status \in Status \ {"absent"}
  PROVE  /\ SetStatus(copy, status) \in SenderCopy
         /\ SetStatus(copy, status).status = "absent" <=> copy.status = "absent"
  BY CopyOperations

LEMMA TextInitTypes == TextInit => TextTypeOK
<1> SUFFICES ASSUME TextInit PROVE TextTypeOK
  OBVIOUS
<1>1. memS \in [Text -> SenderCopy] /\ savedS \in [Text -> SenderCopy]
  BY DEF TextInit, SenderCopy
<1>2. memR \in [Text -> ReceiverCopy] /\ savedR \in [Text -> ReceiverCopy]
  BY DEF TextInit, ReceiverCopy
<1>3. ttlMode \in [Text -> Mode] /\ events \in Scenarios /\ restarts \in 0..MaxRestarts
  BY TextConstants DEF TextInit
<1> QED
  BY <1>1, <1>2, <1>3 DEF TextInit, QueueInit, TextTypeOK, QueueTypeOK

LEMMA PacketTypes ==
  ASSUME NEW t \in Text, NEW refs \in SUBSET Text
  PROVE  /\ TextMsg(t) \in Packet /\ ReadMsg(t) \in Packet
         /\ TtlUpdateMsg(t) \in Packet /\ DeliveredMsg(refs) \in Packet
  BY DEF Packet, TextMsg, ReadMsg, TtlUpdateMsg, DeliveredMsg

LEMMA TextStepTypes == TextTypeOK /\ [TextNext]_textVars => TextTypeOK'
<1> SUFFICES ASSUME TextTypeOK, [TextNext]_textVars PROVE TextTypeOK'
  OBVIOUS
<1> USE DEF TextTypeOK, QueueTypeOK, textVars, options, sender, sending, handling, receiver,
            queueVars, file
<1>1. ASSUME NEW t \in Text, SendToPeer(t) PROVE TextTypeOK'
  <2>1. [status |-> "sent", expiry |-> IF ttlMode[t] = "hard" THEN "running" ELSE "none"] \in SenderCopy
    BY DEF SenderCopy, Status, Expiry
  <2> QED
    BY <1>1, <2>1, PacketTypes DEF SendToPeer
<1>2. ASSUME NEW t \in Text, EnqueuePending(t) PROVE TextTypeOK'
  BY <1>2 DEF EnqueuePending, Enqueue
<1>3. ASSUME NEW t \in Text, TryReplicate(t) PROVE TextTypeOK'
  BY <1>3, PacketTypes DEF TryReplicate
<1>4. ASSUME NEW t \in Text, ReceiveRead(t) PROVE TextTypeOK'
  <2> DEFINE marked == SetStatus(memS[t], IF sharesS THEN "read" ELSE "hidden")
  <2>1. (IF sharesS THEN "read" ELSE "hidden") \in Status \ {"absent"}
    BY DEF Status
  <2>2. marked \in SenderCopy /\ (marked.status = "absent" <=> memS[t].status = "absent")
    BY <2>1, StatusOperations
  <2>3. AwaitsReading(t) => Expiring(marked) \in SenderCopy
    BY <2>2, CopyOperations DEF AwaitsReading
  <2>4. memS' \in [Text -> SenderCopy]
    <3> HIDE DEF marked
    <3> QED BY <1>4, <2>2, <2>3 DEF ReceiveRead, marked
  <2>5. UNCHANGED <<options, restarts, queueVars, sending, handling, savedS, acked, unsaved, receiver,
                    hardOver>>
    BY <1>4 DEF ReceiveRead
  <2>6. net' \subseteq Packet
    BY <1>4 DEF ReceiveRead
  <2> QED
    BY <2>4, <2>5, <2>6
<1>5. ASSUME NEW t \in Text, ReceiveText(t) PROVE TextTypeOK'
  BY <1>5 DEF ReceiveText, QueueDelivered, ReceiverCopy, Expiry
<1>6. ASSUME NEW t \in Text, SendRead(t) \/ SendReadBatch(t) PROVE TextTypeOK'
  BY <1>6, PacketTypes DEF SendRead, SendReadBatch, ReadingStarts, ReceiverCopy, Expiry
<1>7. ASSUME NEW t \in Text, ReceiveTtlUpdate(t) PROVE TextTypeOK'
  BY <1>7 DEF ReceiveTtlUpdate, ReceiverCopy, Expiry
<1>8. ASSUME NEW t \in Text, HardDeadline(t) PROVE TextTypeOK'
  <2>1. memS[t].expiry # "none" => Expired(memS[t]) \in SenderCopy
    BY CopyOperations
  <2>2. Absent \in SenderCopy
    BY DEF SenderCopy
  <2> QED
    BY <1>8, <2>1, <2>2 DEF HardDeadline, StillLoads, StillLoadsR, ReceiverCopy, Expiry
<1>9. ASSUME NEW t \in Text, SenderDeadline(t) PROVE TextTypeOK'
  <2>1. Expired(memS[t]) \in SenderCopy
    BY <1>9, CopyOperations DEF SenderDeadline
  <2>2. Absent \in SenderCopy
    BY DEF SenderCopy
  <2> QED
    BY <1>9, <2>1, <2>2 DEF SenderDeadline, StillLoads
<1>10. ASSUME NEW t \in Text, ReceiverDeadline(t) PROVE TextTypeOK'
  BY <1>10 DEF ReceiverDeadline, StillLoadsR, ReceiverCopy, Expiry
<1>11. ASSUME NEW t \in Text, DeleteExpiredS(t) \/ DeleteExpiredR(t) PROVE TextTypeOK'
  BY <1>11 DEF DeleteExpiredS, DeleteExpiredR, SenderCopy, ReceiverCopy
<1>12. CASE SaveQueue
  <2>1. QueueTypeOK'
    <3>1. CASE StartScheduledSave
      <4>1. savesDue' \in Nat
        BY <3>1 DEF StartScheduledSave
      <4> QED
        BY <3>1, <4>1 DEF StartScheduledSave
    <3>2. CASE CopyQueue
      <4>1. savesDue' \in Nat
        BY <3>2 DEF CopyQueue
      <4> QED
        BY <3>2, <4>1 DEF CopyQueue
    <3>3. ASSUME NEW copy \in writers, WriteQueueFile(copy)
          PROVE  QueueTypeOK'
      BY <3>3 DEF WriteQueueFile
    <3> QED
      BY <1>12, <3>1, <3>2, <3>3 DEF SaveQueue
  <2>2. UNCHANGED <<options, net, restarts, sending, handling, memS, savedS, acked, unsaved,
                    receiver, hardOver>>
    BY <1>12 DEF SaveQueue
  <2> QED
    BY <2>1, <2>2
<1>13. CASE FlushPending
  BY <1>13 DEF FlushPending
<1>14. CASE FlushDelivered
  BY <1>14, PacketTypes DEF FlushDelivered
<1>15. ASSUME NEW refs \in SUBSET Text, ReceiveDelivered(refs) PROVE TextTypeOK'
  BY <1>15 DEF ReceiveDelivered
<1>16. CASE RemoveSender
  BY <1>16 DEF RemoveSender, ReceiverCopy
<1>17. CASE SaveSender
  BY <1>17 DEF SaveSender, SenderCopy
<1>18. CASE SaveReceiver
  BY <1>18 DEF SaveReceiver, ReceiverCopy
<1>19. CASE RestartSender
  <2>1. restarts' \in 0..MaxRestarts
    BY <1>19, TextConstants DEF RestartSender, RestartAhead
  <2>2. QueueTypeOK'
    BY <1>19 DEF RestartSender, LoadQueue, StartWithoutSaves
  <2>3. replicating' = {} /\ flushing' = {} /\ confirming' = {} /\ marking' = {}
        /\ unsaved' \subseteq Text /\ memS' = savedS
        /\ UNCHANGED <<options, net, savedS, acked, receiver, hardOver>>
    BY <1>19 DEF RestartSender
  <2> QED
    BY <2>1, <2>2, <2>3
<1>20. CASE RestartReceiver
  BY <1>20, TextConstants DEF RestartReceiver, RestartAhead
<1>21. CASE StopAndStartSender
  <2>1. savedS' \in [Text -> SenderCopy] /\ memS' = savedS'
    BY <1>21 DEF StopAndStartSender, SenderCopy
  <2>2. restarts' \in 0..MaxRestarts
    BY <1>21, TextConstants DEF StopAndStartSender, RestartAhead
  <2>3. QueueTypeOK'
    BY <1>21 DEF StopAndStartSender, StopAndLoadQueue, StartWithoutSaves
  <2>4. replicating' = {} /\ flushing' = {} /\ confirming' = {} /\ marking' = {}
        /\ unsaved' \subseteq Text
        /\ UNCHANGED <<options, net, acked, receiver, hardOver>>
    BY <1>21 DEF StopAndStartSender
  <2> QED
    BY <2>1, <2>2, <2>3, <2>4
<1>22. CASE LoseText
  BY <1>22 DEF LoseText
<1>23. CASE UNCHANGED textVars
  BY <1>23
<1>24. ASSUME NEW t \in Text, RemovePending(t) PROVE TextTypeOK'
  <2>1. QueueTypeOK'
    BY <1>24 DEF RemovePending, RemoveRef
  <2> QED
    BY <1>24, <2>1 DEF RemovePending
<1>25. ASSUME NEW t \in Text, MarkDelivered(t) PROVE TextTypeOK'
  <2> DEFINE marked == SetStatus(memS[t], IF sharesS /\ sharesR THEN "delivered" ELSE "hidden")
  <2>1. (IF sharesS /\ sharesR THEN "delivered" ELSE "hidden") \in Status \ {"absent"}
    BY DEF Status
  <2>2. marked \in SenderCopy /\ (marked.status = "absent" <=> memS[t].status = "absent")
    BY <2>1, StatusOperations
  <2>3. AwaitsReading(t) => Expiring(marked) \in SenderCopy
    BY <2>2, CopyOperations DEF AwaitsReading
  <2>4. memS' \in [Text -> SenderCopy]
    <3> HIDE DEF marked
    <3> QED BY <1>25, <2>2, <2>3 DEF MarkDelivered, marked
  <2>5. /\ UNCHANGED <<options, restarts, queueVars, sending, confirming, savedS, acked, unsaved,
                       receiver, hardOver>>
        /\ marking' \subseteq marking
    BY <1>25 DEF MarkDelivered
  <2>6. net' \subseteq Packet
    BY <1>25, PacketTypes DEF MarkDelivered
  <2> QED
    BY <2>4, <2>5, <2>6
<1> QED
  BY <1>1, <1>2, <1>3, <1>4, <1>5, <1>6, <1>7, <1>8, <1>9, <1>10, <1>11, <1>12, <1>13, <1>14,
     <1>15, <1>16, <1>17, <1>18, <1>19, <1>20, <1>21, <1>22, <1>23, <1>24, <1>25 DEF TextNext

\* Every variable of the two nodes and of the network keeps its type.
THEOREM TextTypes == TextSpec => []TextTypeOK
  BY TextInitTypes, TextStepTypes, PTL DEF TextSpec

-----------------------------------------------------------------------------
\* What the sender still has to deliver, has had confirmed or has lost with its queue.
Tracked == replicating \cup pending \cup acked \cup unsaved

\* Nothing speaks of a message that is not tracked.
KnownIsTracked ==
    /\ \A t \in Text : memS[t].status # "absent" \/ savedS[t].status # "absent" => t \in Tracked
    /\ flushing \subseteq Tracked /\ received \subseteq Tracked /\ hardOver \subseteq Tracked
    /\ \A t \in Text : TextMsg(t) \in net => t \in Tracked

\* No step takes a message out of Tracked: a confirmation and a restart hand over what
\* they take out of the queue.
LEMMA TrackedGrows == QueuedIsSavedSoon /\ [TextNext]_textVars => Tracked \subseteq Tracked'
<1> SUFFICES ASSUME QueuedIsSavedSoon, [TextNext]_textVars PROVE Tracked \subseteq Tracked'
  OBVIOUS
<1> USE DEF Tracked, textVars, sender, sending, handling, queueVars, file
<1>1. ASSUME NEW t \in Text,
             \/ SendToPeer(t) \/ EnqueuePending(t) \/ TryReplicate(t)
             \/ RemovePending(t) \/ MarkDelivered(t) \/ ReceiveRead(t)
             \/ ReceiveText(t) \/ SendRead(t) \/ SendReadBatch(t) \/ ReceiveTtlUpdate(t)
             \/ HardDeadline(t) \/ SenderDeadline(t) \/ ReceiverDeadline(t)
             \/ DeleteExpiredS(t) \/ DeleteExpiredR(t)
      PROVE  Tracked \subseteq Tracked'
  <2>1. acked \subseteq acked' /\ unsaved' = unsaved
    BY <1>1 DEF SendToPeer, EnqueuePending, TryReplicate, RemovePending, MarkDelivered, ReceiveRead, ReceiveText, SendRead,
       SendReadBatch, ReceiveTtlUpdate, HardDeadline, SenderDeadline, ReceiverDeadline,
       DeleteExpiredS, DeleteExpiredR
  <2>2. replicating \cup pending \subseteq replicating' \cup pending' \cup acked'
    BY <1>1 DEF SendToPeer, EnqueuePending, Enqueue, TryReplicate, RemovePending, RemoveRef,
       MarkDelivered, ReceiveRead, ReceiveText,
       SendRead, SendReadBatch, ReceiveTtlUpdate, HardDeadline, SenderDeadline,
       ReceiverDeadline, DeleteExpiredS, DeleteExpiredR
  <2> QED
    BY <2>1, <2>2
<1>2. CASE SaveQueue
  BY <1>2 DEF SaveQueue, StartScheduledSave, CopyQueue, WriteQueueFile
<1>3. ASSUME NEW refs \in SUBSET Text, ReceiveDelivered(refs) PROVE Tracked \subseteq Tracked'
  BY <1>3 DEF ReceiveDelivered
<1>4. CASE RestartSender
  <2>1. pending' = queueFile /\ acked' = acked
        /\ unsaved' = unsaved \cup {t \in (replicating \cup pending) \ queueFile :
                                        t \in replicating \/ SaveAhead(t) \/ overlapped}
    BY <1>4 DEF RestartSender, LoadQueue
  <2>2. \A t \in pending \ queueFile : SaveAhead(t) \/ overlapped
    BY DEF QueuedIsSavedSoon
  <2> HIDE DEF SaveAhead
  <2> QED
    BY <2>1, <2>2
<1>5. CASE StopAndStartSender
  <2>1. pending' \in writers \cup {pending} /\ acked' = acked
        /\ unsaved' = unsaved \cup {t \in (replicating \cup pending) \ pending' :
                                        t \in replicating \/ writers # {}}
    BY <1>5 DEF StopAndStartSender, StopAndLoadQueue
  <2> QED
    BY <2>1
<1>6. CASE \/ FlushPending \/ FlushDelivered \/ RemoveSender \/ SaveSender \/ SaveReceiver
           \/ RestartReceiver \/ LoseText
  BY <1>6 DEF FlushPending, FlushDelivered, RemoveSender, SaveSender, SaveReceiver,
     RestartReceiver, LoseText
<1>7. CASE UNCHANGED textVars
  BY <1>7
<1> QED
  BY <1>1, <1>2, <1>3, <1>4, <1>5, <1>6, <1>7 DEF TextNext

\* What a step adds to what is known of messages is tracked.
LEMMA KnownStaysTracked ==
  TextTypeOK /\ QueuedIsSavedSoon /\ KnownIsTracked /\ [TextNext]_textVars => KnownIsTracked'
<1> SUFFICES ASSUME TextTypeOK, QueuedIsSavedSoon, KnownIsTracked, [TextNext]_textVars
             PROVE  KnownIsTracked'
  OBVIOUS
<1>0. Tracked \subseteq Tracked'
  BY TrackedGrows
<1> USE DEF textVars, options, sender, sending, handling, receiver
<1> USE DEF KnownIsTracked, TextTypeOK
<1>1. ASSUME NEW t \in Text, SendToPeer(t) PROVE KnownIsTracked'
  <2>1. t \in Tracked'
    BY <1>1 DEF SendToPeer, Tracked
  <2>2. \A u \in Text : u # t => memS'[u] = memS[u] /\ (TextMsg(u) \in net' => TextMsg(u) \in net)
    BY <1>1 DEF SendToPeer, TextMsg
  <2> QED
    BY <1>0, <1>1, <2>1, <2>2 DEF SendToPeer
<1>2. ASSUME NEW t \in Text, EnqueuePending(t) PROVE KnownIsTracked'
  BY <1>0, <1>2 DEF EnqueuePending
<1>3. ASSUME NEW t \in Text, TryReplicate(t) PROVE KnownIsTracked'
  <2>1. \A u \in Text : u # t => (TextMsg(u) \in net' => TextMsg(u) \in net)
    BY <1>3 DEF TryReplicate, TextMsg
  <2> QED
    BY <1>0, <1>3, <2>1 DEF TryReplicate
<1>4. ASSUME NEW t \in Text, ReceiveRead(t) PROVE KnownIsTracked'
  <2> DEFINE marked == SetStatus(memS[t], IF sharesS THEN "read" ELSE "hidden")
  <2>1. (IF sharesS THEN "read" ELSE "hidden") \in Status \ {"absent"}
    BY DEF Status
  <2>2. marked \in SenderCopy /\ (marked.status = "absent" <=> memS[t].status = "absent")
    BY <2>1, StatusOperations
  <2>3. Expiring(marked).status = marked.status
    BY <2>2, CopyOperations
  <2>4. \A u \in Text : memS'[u].status = "absent" <=> memS[u].status = "absent"
    <3> HIDE DEF marked
    <3> QED BY <1>4, <2>2, <2>3 DEF ReceiveRead, marked
  <2> QED
    BY <1>0, <1>4, <2>4 DEF ReceiveRead
<1>5. ASSUME NEW t \in Text, ReceiveText(t) PROVE KnownIsTracked'
  BY <1>0, <1>5 DEF ReceiveText
<1>6. ASSUME NEW t \in Text, SendRead(t) \/ SendReadBatch(t) PROVE KnownIsTracked'
  BY <1>0, <1>6 DEF SendRead, SendReadBatch, ReadMsg, TextMsg
<1>7. ASSUME NEW t \in Text, ReceiveTtlUpdate(t) PROVE KnownIsTracked'
  BY <1>0, <1>7 DEF ReceiveTtlUpdate
<1>8. ASSUME NEW t \in Text, HardDeadline(t) PROVE KnownIsTracked'
  <2>1. t \in Tracked
    BY <1>8 DEF HardDeadline, Sent, Tracked
  <2>2. \A u \in Text : /\ memS'[u].status = memS[u].status
                        /\ savedS'[u].status \in {savedS[u].status, "absent"}
    BY <1>8, CopyOperations DEF HardDeadline, StillLoads, Absent
  <2> QED
    BY <1>0, <1>8, <2>1, <2>2 DEF HardDeadline
<1>9. ASSUME NEW t \in Text, SenderDeadline(t) PROVE KnownIsTracked'
  <2>1. \A u \in Text : /\ memS'[u].status = memS[u].status
                        /\ savedS'[u].status \in {savedS[u].status, "absent"}
    BY <1>9, CopyOperations DEF SenderDeadline, StillLoads, Absent
  <2> QED
    BY <1>0, <1>9, <2>1 DEF SenderDeadline
<1>10. ASSUME NEW t \in Text, ReceiverDeadline(t) \/ DeleteExpiredR(t) PROVE KnownIsTracked'
  BY <1>0, <1>10 DEF ReceiverDeadline, DeleteExpiredR
<1>11. ASSUME NEW t \in Text, DeleteExpiredS(t) PROVE KnownIsTracked'
  BY <1>0, <1>11 DEF DeleteExpiredS, Absent
<1>12. CASE FlushPending
  BY <1>0, <1>12 DEF FlushPending, Tracked
<1>13. CASE FlushDelivered
  BY <1>0, <1>13 DEF FlushDelivered, TextMsg, DeliveredMsg
<1>14. ASSUME NEW refs \in SUBSET Text, ReceiveDelivered(refs) PROVE KnownIsTracked'
  BY <1>0, <1>14 DEF ReceiveDelivered
<1>15. CASE SaveQueue \/ SaveReceiver
  BY <1>0, <1>15 DEF SaveQueue, SaveReceiver
<1>16. CASE RemoveSender
  BY <1>0, <1>16 DEF RemoveSender
<1>17. CASE SaveSender
  BY <1>0, <1>17 DEF SaveSender, Absent
<1>18. CASE RestartSender
  BY <1>0, <1>18 DEF RestartSender
<1>19. CASE RestartReceiver
  BY <1>0, <1>19 DEF RestartReceiver
<1>20. CASE StopAndStartSender
  BY <1>0, <1>20 DEF StopAndStartSender, Absent
<1>21. CASE LoseText
  BY <1>0, <1>21 DEF LoseText
<1>22. CASE UNCHANGED textVars
  BY <1>0, <1>22
<1>23. ASSUME NEW t \in Text, RemovePending(t) PROVE KnownIsTracked'
  BY <1>0, <1>23 DEF RemovePending
<1>24. ASSUME NEW t \in Text, MarkDelivered(t) PROVE KnownIsTracked'
  <2> DEFINE marked == SetStatus(memS[t], IF sharesS /\ sharesR THEN "delivered" ELSE "hidden")
  <2>1. (IF sharesS /\ sharesR THEN "delivered" ELSE "hidden") \in Status \ {"absent"}
    BY DEF Status
  <2>2. marked \in SenderCopy /\ (marked.status = "absent" <=> memS[t].status = "absent")
    BY <2>1, StatusOperations
  <2>3. Expiring(marked).status = marked.status
    BY <2>2, CopyOperations
  <2>4. \A u \in Text : memS'[u].status = "absent" <=> memS[u].status = "absent"
    <3> HIDE DEF marked
    <3> QED BY <1>24, <2>2, <2>3 DEF MarkDelivered, marked
  <2>5. \A u \in Text : TextMsg(u) \in net' => TextMsg(u) \in net
    BY <1>24 DEF MarkDelivered, TextMsg, TtlUpdateMsg
  <2> QED
    BY <1>0, <1>24, <2>4, <2>5 DEF MarkDelivered
<1> QED
  BY <1>1, <1>2, <1>3, <1>4, <1>5, <1>6, <1>7, <1>8, <1>9, <1>10, <1>11, <1>12, <1>13, <1>14,
     <1>15, <1>16, <1>17, <1>18, <1>19, <1>20, <1>21, <1>22, <1>23, <1>24 DEF TextNext

\* What replicateMessage has yet to queue, what a confirmation takes out and what a restart
\* loses is all there is: no other message that was sent is missing from the queue.
THEOREM PendingUntilDelivered == TextSpec => []QueuedUntilDelivered
<1>1. TextInit => KnownIsTracked
  BY DEF TextInit, QueueInit, KnownIsTracked, Absent
<1>2. KnownIsTracked => QueuedUntilDelivered
  BY DEF KnownIsTracked, QueuedUntilDelivered, Sent, Tracked
<1> QED
  BY <1>1, <1>2, KnownStaysTracked, TextQueueIsSavedSoon, TextTypes, PTL DEF TextSpec
-----------------------------------------------------------------------------
\* A hard message always has its deadline, wherever it is, and once that has passed it is
\* nowhere but as "over" in a memory.
HardIsDated ==
    /\ \A t \in Text : TtlUpdateMsg(t) \in net => ttlMode[t] = "after_read"
    /\ \A t \in Text : ttlMode[t] = "hard" =>
            /\ memR[t] # "none" /\ savedR[t] # "none"
            /\ memS[t] = Absent \/ memS[t].expiry # "none"
            /\ savedS[t] = Absent \/ savedS[t].expiry # "none"
    /\ \A t \in hardOver :
            /\ ttlMode[t] = "hard"
            /\ memR[t] \in {"absent", "over"} /\ savedR[t] = "absent"
            /\ memS[t] = Absent \/ memS[t].expiry = "over"
            /\ savedS[t] = Absent

LEMMA HardStaysDated ==
  TextTypeOK /\ KnownIsTracked /\ HardIsDated /\ [TextNext]_textVars => HardIsDated'
<1> SUFFICES ASSUME TextTypeOK, KnownIsTracked, HardIsDated, [TextNext]_textVars
             PROVE  HardIsDated'
  OBVIOUS
<1> USE DEF textVars, options, sender, sending, handling, receiver, HardIsDated, TextTypeOK
<1>1. ASSUME NEW t \in Text, SendToPeer(t) PROVE HardIsDated'
  <2>1. t \notin hardOver
    BY <1>1 DEF SendToPeer, KnownIsTracked, Tracked, Sent
  <2>2. \A u \in Text : TtlUpdateMsg(u) \in net' => TtlUpdateMsg(u) \in net
    BY <1>1 DEF SendToPeer, TextMsg, TtlUpdateMsg
  <2> QED
    BY <1>1, <2>1, <2>2 DEF SendToPeer
<1>2. ASSUME NEW t \in Text, EnqueuePending(t) PROVE HardIsDated'
  BY <1>2 DEF EnqueuePending
<1>3. ASSUME NEW t \in Text, TryReplicate(t) PROVE HardIsDated'
  BY <1>3 DEF TryReplicate, TextMsg, TtlUpdateMsg
<1>4. ASSUME NEW t \in Text, ReceiveRead(t) PROVE HardIsDated'
  <2> DEFINE marked == SetStatus(memS[t], IF sharesS THEN "read" ELSE "hidden")
  <2>1. (IF sharesS THEN "read" ELSE "hidden") \in Status \ {"absent"}
    BY DEF Status
  <2>2. marked.expiry = memS[t].expiry /\ (memS[t] = Absent => marked = Absent)
    BY <2>1, CopyOperations DEF Absent
  <2>3. \A u \in Text : ttlMode[u] = "hard" =>
            memS'[u].expiry = memS[u].expiry /\ (memS[u] = Absent => memS'[u] = Absent)
    <3> HIDE DEF marked
    <3> QED BY <1>4, <2>2 DEF ReceiveRead, AwaitsReading, marked
  <2> QED
    BY <1>4, <2>3 DEF ReceiveRead
<1>5. ASSUME NEW t \in Text, ReceiveText(t) PROVE HardIsDated'
  BY <1>5 DEF ReceiveText, New
<1>6. ASSUME NEW t \in Text, SendRead(t) \/ SendReadBatch(t) PROVE HardIsDated'
  <2>1. \A u \in Text : ttlMode[u] = "hard" => memR'[u] = memR[u]
    BY <1>6 DEF SendRead, SendReadBatch, ReadingStarts
  <2>2. \A u \in Text : TtlUpdateMsg(u) \in net' => TtlUpdateMsg(u) \in net
    BY <1>6 DEF SendRead, SendReadBatch, ReadMsg, TtlUpdateMsg
  <2> QED
    BY <1>6, <2>1, <2>2 DEF SendRead, SendReadBatch
<1>7. ASSUME NEW t \in Text, ReceiveTtlUpdate(t) PROVE HardIsDated'
  BY <1>7 DEF ReceiveTtlUpdate
<1>8. ASSUME NEW t \in Text, HardDeadline(t) PROVE HardIsDated'
  <2>1. memS[t] # Absent => memS'[t].expiry = "over"
    BY <1>8 DEF HardDeadline, Expired
  <2>2. memS[t] = Absent => memS'[t] = Absent
    BY <1>8 DEF HardDeadline, Absent
  <2>3. savedS'[t] = Absent /\ savedR'[t] = "absent" /\ memR'[t] \in {"absent", "over"}
    BY <1>8 DEF HardDeadline, StillLoads, StillLoadsR, Absent
  <2>4. \A u \in Text \ {t} : /\ memS'[u] = memS[u] /\ savedS'[u] = savedS[u]
                               /\ memR'[u] = memR[u] /\ savedR'[u] = savedR[u]
    BY <1>8 DEF HardDeadline, StillLoads, StillLoadsR
  <2> QED
    BY <1>8, <2>1, <2>2, <2>3, <2>4 DEF HardDeadline
<1>9. ASSUME NEW t \in Text, SenderDeadline(t) PROVE HardIsDated'
  BY <1>9 DEF SenderDeadline, StillLoads
<1>10. ASSUME NEW t \in Text, ReceiverDeadline(t) PROVE HardIsDated'
  BY <1>10 DEF ReceiverDeadline, StillLoadsR
<1>11. ASSUME NEW t \in Text, DeleteExpiredS(t) \/ DeleteExpiredR(t) PROVE HardIsDated'
  BY <1>11 DEF DeleteExpiredS, DeleteExpiredR
<1>12. CASE FlushPending \/ SaveQueue
  BY <1>12 DEF FlushPending, SaveQueue
<1>13. CASE FlushDelivered
  BY <1>13 DEF FlushDelivered, TtlUpdateMsg, DeliveredMsg
<1>14. ASSUME NEW refs \in SUBSET Text, ReceiveDelivered(refs) PROVE HardIsDated'
  BY <1>14 DEF ReceiveDelivered
<1>15. CASE SaveSender
  BY <1>15 DEF SaveSender
<1>16. CASE SaveReceiver
  BY <1>16 DEF SaveReceiver
<1>17. CASE RemoveSender
  BY <1>17 DEF RemoveSender
<1>18. CASE RestartSender
  BY <1>18 DEF RestartSender
<1>19. CASE RestartReceiver
  BY <1>19 DEF RestartReceiver
<1>20. CASE StopAndStartSender
  BY <1>20 DEF StopAndStartSender
<1>21. CASE LoseText
  BY <1>21 DEF LoseText
<1>22. CASE UNCHANGED textVars
  BY <1>22
<1>23. ASSUME NEW t \in Text, RemovePending(t) PROVE HardIsDated'
  BY <1>23 DEF RemovePending
<1>24. ASSUME NEW t \in Text, MarkDelivered(t) PROVE HardIsDated'
  <2> DEFINE marked == SetStatus(memS[t], IF sharesS /\ sharesR THEN "delivered" ELSE "hidden")
  <2>1. (IF sharesS /\ sharesR THEN "delivered" ELSE "hidden") \in Status \ {"absent"}
    BY DEF Status
  <2>2. marked.expiry = memS[t].expiry /\ (memS[t] = Absent => marked = Absent)
    BY <2>1, CopyOperations DEF Absent
  <2>3. \A u \in Text : ttlMode[u] = "hard" =>
            memS'[u].expiry = memS[u].expiry /\ (memS[u] = Absent => memS'[u] = Absent)
    <3> HIDE DEF marked
    <3> QED BY <1>24, <2>2 DEF MarkDelivered, AwaitsReading, marked
  <2>4. \A u \in Text : TtlUpdateMsg(u) \in net' =>
            TtlUpdateMsg(u) \in net \/ ttlMode[u] = "after_read"
    BY <1>24 DEF MarkDelivered, TtlUpdateMsg, AwaitsReading
  <2>5. UNCHANGED <<ttlMode, savedS, memR, savedR, hardOver>>
    BY <1>24 DEF MarkDelivered
  <2> QED
    BY <2>3, <2>4, <2>5
<1> QED
  BY <1>1, <1>2, <1>3, <1>4, <1>5, <1>6, <1>7, <1>8, <1>9, <1>10, <1>11, <1>12, <1>13, <1>14,
     <1>15, <1>16, <1>17, <1>18, <1>19, <1>20, <1>21, <1>22, <1>23, <1>24 DEF TextNext

LEMMA TextInitKnown == TextInit => KnownIsTracked /\ HardIsDated
  BY TextConstants DEF TextInit, QueueInit, KnownIsTracked, HardIsDated, Absent

\* Neither a copy that is re-sent, nor a late [TTL_UPDATE], nor the state file brings a hard
\* message back to the receiver after its deadline.
THEOREM HardMessagesStayGone == TextSpec => HardStaysGone
<1> DEFINE Comeback == \A t \in hardOver : memR[t] = "absent" => memR'[t] = "absent"
<1>1. TextTypeOK /\ HardIsDated /\ [TextNext]_textVars => [Comeback]_textVars
  <2> SUFFICES ASSUME TextTypeOK, HardIsDated, TextNext, NEW t \in hardOver, memR[t] = "absent"
               PROVE  memR'[t] = "absent"
    BY DEF textVars, options, receiver, sender
  <2> USE DEF TextTypeOK, options, sender, sending, handling, receiver
  <2>0. t \in Text /\ savedR[t] = "absent"
    BY DEF HardIsDated
  <2>1. ASSUME NEW u \in Text,
               \/ SendToPeer(u) \/ EnqueuePending(u) \/ TryReplicate(u)
               \/ RemovePending(u) \/ MarkDelivered(u) \/ ReceiveRead(u)
               \/ ReceiveText(u) \/ SendRead(u) \/ SendReadBatch(u) \/ ReceiveTtlUpdate(u)
               \/ HardDeadline(u) \/ SenderDeadline(u) \/ ReceiverDeadline(u)
               \/ DeleteExpiredS(u) \/ DeleteExpiredR(u)
        PROVE  memR'[t] = "absent"
    <3>1. CASE \/ SendToPeer(u) \/ EnqueuePending(u) \/ TryReplicate(u)
               \/ RemovePending(u) \/ MarkDelivered(u) \/ ReceiveRead(u)
               \/ SenderDeadline(u) \/ DeleteExpiredS(u)
      BY <3>1 DEF SendToPeer, EnqueuePending, TryReplicate, RemovePending, MarkDelivered,
         ReceiveRead, SenderDeadline, DeleteExpiredS
    <3>2. CASE ReceiveText(u)
      BY <2>0, <3>2 DEF ReceiveText, New
    <3>3. CASE SendRead(u) \/ SendReadBatch(u)
      BY <2>0, <3>3 DEF SendRead, SendReadBatch, ReadingStarts
    <3>4. CASE \/ ReceiveTtlUpdate(u) \/ HardDeadline(u) \/ ReceiverDeadline(u)
               \/ DeleteExpiredR(u)
      BY <2>0, <3>4 DEF ReceiveTtlUpdate, HardDeadline, ReceiverDeadline, DeleteExpiredR
    <3> QED
      BY <2>1, <3>1, <3>2, <3>3, <3>4
  <2>2. ASSUME NEW refs \in SUBSET Text, ReceiveDelivered(refs) PROVE memR'[t] = "absent"
    BY <2>2 DEF ReceiveDelivered
  <2>3. CASE RemoveSender \/ RestartReceiver
    BY <2>0, <2>3 DEF RemoveSender, RestartReceiver
  <2>4. CASE \/ SaveQueue \/ FlushPending \/ FlushDelivered \/ SaveSender \/ SaveReceiver
             \/ RestartSender \/ StopAndStartSender \/ LoseText
    BY <2>4 DEF SaveQueue, FlushPending, FlushDelivered, SaveSender, SaveReceiver,
       RestartSender, StopAndStartSender, LoseText
  <2> QED
    BY <2>1, <2>2, <2>3, <2>4 DEF TextNext
<1> QED
  BY <1>1, TextInitKnown, KnownStaysTracked, TextQueueIsSavedSoon, HardStaysDated, TextTypes, PTL
     DEF TextSpec, HardStaysGone
-----------------------------------------------------------------------------
\* What a node may confirm: it has had the message, or the message was hard and came after
\* its deadline, when it is acknowledged although the memory refuses it.
Acknowledgeable == received \cup hardOver

Justified(copy, t) ==
    /\ copy.status \in {"delivered", "hidden", "read"} => t \in Acknowledgeable
    /\ copy.status = "read" => sharesS /\ sharesR

\* Acknowledgements and readings on their way tell the truth, and so do both copies of the
\* sender, what the file holds included.
OnlyTruths ==
    /\ ackBuf \cup confirming \cup marking \subseteq Acknowledgeable
    /\ \A refs \in SUBSET Text : DeliveredMsg(refs) \in net => refs \subseteq Acknowledgeable
    /\ \A t \in Text : ReadMsg(t) \in net => t \in received /\ sharesR
    /\ \A t \in Text : memR[t] # "absent" \/ savedR[t] # "absent" => t \in received
    /\ \A t \in Text : Justified(memS[t], t) /\ Justified(savedS[t], t)

LEMMA TruthsStay ==
  TextTypeOK /\ OnlyTruths /\ [TextNext]_textVars => OnlyTruths'
<1> SUFFICES ASSUME TextTypeOK, OnlyTruths, [TextNext]_textVars PROVE OnlyTruths'
  OBVIOUS
<1> USE DEF textVars, options, sender, sending, handling, receiver, OnlyTruths, Justified, Acknowledgeable,
            TextTypeOK
<1>1. ASSUME NEW t \in Text, SendToPeer(t) PROVE OnlyTruths'
  <2>1. \A refs \in SUBSET Text : DeliveredMsg(refs) \in net' => DeliveredMsg(refs) \in net
    BY <1>1 DEF SendToPeer, TextMsg, DeliveredMsg
  <2>2. \A u \in Text : ReadMsg(u) \in net' => ReadMsg(u) \in net
    BY <1>1 DEF SendToPeer, TextMsg, ReadMsg
  <2> QED
    BY <1>1, <2>1, <2>2 DEF SendToPeer
<1>2. ASSUME NEW t \in Text, EnqueuePending(t) PROVE OnlyTruths'
  BY <1>2 DEF EnqueuePending
<1>3. ASSUME NEW t \in Text, TryReplicate(t) PROVE OnlyTruths'
  <2>1. \A refs \in SUBSET Text : DeliveredMsg(refs) \in net' => DeliveredMsg(refs) \in net
    BY <1>3 DEF TryReplicate, TextMsg, DeliveredMsg
  <2>2. \A u \in Text : ReadMsg(u) \in net' => ReadMsg(u) \in net
    BY <1>3 DEF TryReplicate, TextMsg, ReadMsg
  <2> QED
    BY <1>3, <2>1, <2>2 DEF TryReplicate
<1>4. ASSUME NEW t \in Text, ReceiveRead(t) PROVE OnlyTruths'
  <2> DEFINE new == IF sharesS THEN "read" ELSE "hidden"
             marked == SetStatus(memS[t], new)
  <2>1. new \in Status \ {"absent"}
    BY DEF Status
  <2>2. marked \in SenderCopy /\ marked.status \in {memS[t].status, new}
    BY <2>1, CopyOperations
  <2>3. Expiring(marked).status = marked.status
    BY <2>2, CopyOperations
  <2>4. memS'[t].status \in {memS[t].status, new}
    <3> HIDE DEF marked, new
    <3> QED BY <1>4, <2>2, <2>3 DEF ReceiveRead, marked, new
  <2>5. \A u \in Text \ {t} : memS'[u] = memS[u]
    BY <1>4 DEF ReceiveRead
  <2>6. t \in received /\ sharesR /\ net' \subseteq net
    BY <1>4 DEF ReceiveRead
  <2>7. UNCHANGED <<sharesS, sharesR, savedS, received, hardOver, ackBuf, confirming, marking,
                    memR, savedR>>
    BY <1>4 DEF ReceiveRead
  <2>8. Justified(memS'[t], t)
    BY <2>4, <2>6
  <2> HIDE DEF marked, new
  <2> QED
    BY <2>5, <2>6, <2>7, <2>8
<1>5. ASSUME NEW t \in Text, ReceiveText(t) PROVE OnlyTruths'
  <2>1. ackBuf' \subseteq Acknowledgeable'
    BY <1>5 DEF ReceiveText, QueueDelivered, New
  <2>2. received \subseteq received' /\ net' \subseteq net
    BY <1>5 DEF ReceiveText
  <2>3. \A u \in Text : memR'[u] # "absent" => u \in received'
    BY <1>5 DEF ReceiveText
  <2>4. UNCHANGED <<sharesS, sharesR, memS, savedS, hardOver, confirming, marking, savedR>>
    BY <1>5 DEF ReceiveText
  <2> QED
    BY <2>1, <2>2, <2>3, <2>4
<1>6. ASSUME NEW t \in Text, SendRead(t) \/ SendReadBatch(t) PROVE OnlyTruths'
  <2>1. t \in received
    BY <1>6 DEF SendRead, SendReadBatch
  <2>2. \A u \in Text : memR'[u] = "absent" <=> memR[u] = "absent"
    BY <1>6 DEF SendRead, SendReadBatch, ReadingStarts
  <2>3. \A u \in Text : ReadMsg(u) \in net' => ReadMsg(u) \in net \/ (u = t /\ sharesR)
    BY <1>6 DEF SendRead, SendReadBatch, ReadMsg
  <2>4. \A refs \in SUBSET Text : DeliveredMsg(refs) \in net' => DeliveredMsg(refs) \in net
    BY <1>6 DEF SendRead, SendReadBatch, ReadMsg, DeliveredMsg
  <2>5. UNCHANGED <<sharesS, sharesR, memS, savedS, received, hardOver, ackBuf, confirming, marking,
                    savedR>>
    BY <1>6 DEF SendRead, SendReadBatch
  <2> QED
    BY <2>1, <2>2, <2>3, <2>4, <2>5
<1>7. ASSUME NEW t \in Text, ReceiveTtlUpdate(t) PROVE OnlyTruths'
  BY <1>7 DEF ReceiveTtlUpdate
<1>8. ASSUME NEW t \in Text, HardDeadline(t) PROVE OnlyTruths'
  <2>1. \A u \in Text : /\ memS'[u].status = memS[u].status
                        /\ savedS'[u].status \in {savedS[u].status, "absent"}
    BY <1>8, CopyOperations DEF HardDeadline, StillLoads, Absent
  <2>2. \A u \in Text : /\ memR'[u] # "absent" => memR[u] # "absent"
                        /\ savedR'[u] # "absent" => savedR[u] # "absent"
    BY <1>8 DEF HardDeadline, StillLoadsR
  <2>3. hardOver \subseteq hardOver'
        /\ UNCHANGED <<sharesS, sharesR, net, received, ackBuf, confirming, marking>>
    BY <1>8 DEF HardDeadline
  <2> QED
    BY <2>1, <2>2, <2>3
<1>9. ASSUME NEW t \in Text, SenderDeadline(t) PROVE OnlyTruths'
  <2>1. \A u \in Text : /\ memS'[u].status = memS[u].status
                        /\ savedS'[u].status \in {savedS[u].status, "absent"}
    BY <1>9, CopyOperations DEF SenderDeadline, StillLoads, Absent
  <2>2. UNCHANGED <<sharesS, sharesR, net, received, hardOver, ackBuf, confirming, marking,
                    memR, savedR>>
    BY <1>9 DEF SenderDeadline
  <2> QED
    BY <2>1, <2>2
<1>10. ASSUME NEW t \in Text, ReceiverDeadline(t) PROVE OnlyTruths'
  BY <1>10 DEF ReceiverDeadline, StillLoadsR
<1>11. ASSUME NEW t \in Text, DeleteExpiredS(t) \/ DeleteExpiredR(t) PROVE OnlyTruths'
  BY <1>11 DEF DeleteExpiredS, DeleteExpiredR, Absent
<1>12. CASE FlushPending \/ SaveQueue
  BY <1>12 DEF FlushPending, SaveQueue
<1>13. CASE FlushDelivered
  <2>1. \A refs \in SUBSET Text : DeliveredMsg(refs) \in net' =>
            DeliveredMsg(refs) \in net \/ refs = ackBuf
    BY <1>13 DEF FlushDelivered, DeliveredMsg
  <2>2. \A u \in Text : ReadMsg(u) \in net' => ReadMsg(u) \in net
    BY <1>13 DEF FlushDelivered, ReadMsg, DeliveredMsg
  <2> QED
    BY <1>13, <2>1, <2>2 DEF FlushDelivered
<1>14. ASSUME NEW refs \in SUBSET Text, ReceiveDelivered(refs) PROVE OnlyTruths'
  <2>1. refs \subseteq Acknowledgeable
    BY <1>14 DEF ReceiveDelivered
  <2> QED
    BY <1>14, <2>1 DEF ReceiveDelivered
<1>15. CASE SaveSender
  BY <1>15 DEF SaveSender, Absent
<1>16. CASE SaveReceiver
  BY <1>16 DEF SaveReceiver
<1>17. CASE RemoveSender
  BY <1>17 DEF RemoveSender
<1>18. CASE RestartSender
  BY <1>18 DEF RestartSender
<1>19. CASE RestartReceiver
  BY <1>19 DEF RestartReceiver
<1>20. CASE StopAndStartSender
  BY <1>20 DEF StopAndStartSender, Absent
<1>21. CASE LoseText
  BY <1>21 DEF LoseText
<1>22. CASE UNCHANGED textVars
  BY <1>22
<1>23. ASSUME NEW t \in Text, RemovePending(t) PROVE OnlyTruths'
  BY <1>23 DEF RemovePending
<1>24. ASSUME NEW t \in Text, MarkDelivered(t) PROVE OnlyTruths'
  <2> DEFINE new == IF sharesS /\ sharesR THEN "delivered" ELSE "hidden"
             marked == SetStatus(memS[t], new)
  <2>1. new \in Status \ {"absent"}
    BY DEF Status
  <2>2. marked \in SenderCopy /\ marked.status \in {memS[t].status, new}
    BY <2>1, CopyOperations
  <2>3. Expiring(marked).status = marked.status
    BY <2>2, CopyOperations
  <2>4. memS'[t].status \in {memS[t].status, new}
    <3> HIDE DEF marked, new
    <3> QED BY <1>24, <2>2, <2>3 DEF MarkDelivered, marked, new
  <2>5. \A u \in Text \ {t} : memS'[u] = memS[u]
    BY <1>24 DEF MarkDelivered
  <2>6. t \in Acknowledgeable /\ new # "read"
    BY <1>24 DEF MarkDelivered
  <2>7. \A u \in Text : ReadMsg(u) \in net' => ReadMsg(u) \in net
    BY <1>24 DEF MarkDelivered, ReadMsg, TtlUpdateMsg
  <2>8. \A refs \in SUBSET Text : DeliveredMsg(refs) \in net' => DeliveredMsg(refs) \in net
    BY <1>24 DEF MarkDelivered, DeliveredMsg, TtlUpdateMsg
  <2>9. /\ UNCHANGED <<sharesS, sharesR, savedS, received, hardOver, ackBuf, confirming, memR, savedR>>
        /\ marking' \subseteq marking
    BY <1>24 DEF MarkDelivered
  <2>10. Justified(memS'[t], t)
    <3> HIDE DEF new
    <3> QED BY <2>4, <2>6
  <2> HIDE DEF marked, new
  <2> QED
    BY <2>5, <2>7, <2>8, <2>9, <2>10
<1> QED
  BY <1>1, <1>2, <1>3, <1>4, <1>5, <1>6, <1>7, <1>8, <1>9, <1>10, <1>11, <1>12, <1>13, <1>14,
     <1>15, <1>16, <1>17, <1>18, <1>19, <1>20, <1>21, <1>22, <1>23, <1>24 DEF TextNext

\* No confirmation is shown for a message that did not arrive, none is made up by a restart,
\* and a reading is only shown when both users share readings.
THEOREM ConfirmationsAreHonest == TextSpec => []ConfirmedIsReceived
<1>1. TextInit => OnlyTruths
  BY DEF TextInit, OnlyTruths, Justified, Absent
<1>2. TextTypeOK /\ HardIsDated /\ OnlyTruths => ConfirmedIsReceived
  <2> SUFFICES ASSUME TextTypeOK, HardIsDated, OnlyTruths,
                      NEW t \in Text, memS[t].expiry # "over",
                      memS[t].status \in {"delivered", "hidden", "read"}
               PROVE  t \in received /\ (memS[t].status = "read" => sharesS /\ sharesR)
    BY DEF ConfirmedIsReceived
  <2>1. t \notin hardOver
    BY DEF HardIsDated, Absent
  <2> QED
    BY <2>1 DEF OnlyTruths, Justified, Acknowledgeable
<1> QED
  BY <1>1, <1>2, TextInitKnown, KnownStaysTracked, TextQueueIsSavedSoon, HardStaysDated, TruthsStay, TextTypes, PTL
     DEF TextSpec
-----------------------------------------------------------------------------
\* While the receiver is not killed, a message without a TTL that she has confirmed, in her
\* buffer, on the way or at the sender, stays with her until she removes the contact.
StaysWith(t) == knows => memR[t] # "absent"

AckedIsThere ==
    "receiverRestart" \notin events => \A t \in Text : ttlMode[t] = "" =>
        /\ memR[t] \in {"absent", "none"}
        /\ t \in ackBuf \cup confirming \cup acked => StaysWith(t)
        /\ \A refs \in SUBSET Text : DeliveredMsg(refs) \in net /\ t \in refs => StaysWith(t)

\* A step after which nobody has forgotten a plain message, and nobody acknowledges more.
LEMMA PlainStays ==
  ASSUME AckedIsThere, UNCHANGED options, knows' => knows,
         \A t \in Text : ttlMode[t] = "" => memR'[t] = memR[t],
         ackBuf' \subseteq ackBuf, confirming' \cup acked' \subseteq confirming \cup acked,
         \A refs \in SUBSET Text : DeliveredMsg(refs) \in net' => DeliveredMsg(refs) \in net
  PROVE  AckedIsThere'
BY DEF AckedIsThere, StaysWith, options

LEMMA AckedStaysThere ==
  TextTypeOK /\ HardIsDated /\ AckedIsThere /\ [TextNext]_textVars => AckedIsThere'
<1> SUFFICES ASSUME TextTypeOK, HardIsDated, AckedIsThere, [TextNext]_textVars
             PROVE  AckedIsThere'
  OBVIOUS
<1> USE DEF textVars, options, sender, sending, handling, receiver, TextTypeOK
<1>1. ASSUME UNCHANGED <<options, net, confirming, acked, knows, memR, ackBuf>> PROVE AckedIsThere'
  BY <1>1, PlainStays
<1>2. ASSUME NEW t \in Text, SendToPeer(t) \/ TryReplicate(t) PROVE AckedIsThere'
  <2>1. UNCHANGED <<options, confirming, acked, knows, memR, ackBuf>> /\ net' = net \cup {TextMsg(t)}
    BY <1>2 DEF SendToPeer, TryReplicate
  <2>2. \A refs \in SUBSET Text : DeliveredMsg(refs) \in net' => DeliveredMsg(refs) \in net
    BY <2>1 DEF TextMsg, DeliveredMsg
  <2> QED
    BY <2>1, <2>2, PlainStays
<1>3. ASSUME NEW t \in Text,
             EnqueuePending(t) \/ SenderDeadline(t) \/ DeleteExpiredS(t)
      PROVE  AckedIsThere'
  BY <1>1, <1>3 DEF EnqueuePending, SenderDeadline, DeleteExpiredS
<1>4. ASSUME NEW t \in Text, ReceiveRead(t) PROVE AckedIsThere'
  <2>1. UNCHANGED <<options, confirming, acked, knows, memR, ackBuf>> /\ net' \subseteq net
    BY <1>4 DEF ReceiveRead
  <2> QED
    BY <2>1, PlainStays
<1>5. ASSUME NEW t \in Text, ReceiveText(t) PROVE AckedIsThere'
  <2>1. UNCHANGED <<options, confirming, acked, knows>> /\ net' \subseteq net
    BY <1>5 DEF ReceiveText
  <2>2. ASSUME "receiverRestart" \notin events, NEW u \in Text, ttlMode[u] = ""
        PROVE  /\ memR'[u] \in {"absent", "none"} /\ memR[u] \in {"absent", "none"}
               /\ memR[u] # "absent" => memR'[u] # "absent"
               /\ u \in ackBuf' => u \in ackBuf \/ memR'[u] # "absent"
    <3>1. u \notin hardOver /\ memR[u] \in {"absent", "none"}
      BY <2>2 DEF HardIsDated, AckedIsThere
    <3>2. CASE u = t
      BY <1>5, <2>2, <3>1, <3>2 DEF ReceiveText, New, QueueDelivered
    <3>3. CASE u # t
      BY <1>5, <3>1, <3>3 DEF ReceiveText, New, QueueDelivered
    <3> QED
      BY <3>2, <3>3
  <2> QED
    BY <2>1, <2>2 DEF AckedIsThere, StaysWith
<1>6. ASSUME NEW t \in Text, SendRead(t) \/ SendReadBatch(t) PROVE AckedIsThere'
  <2>1. UNCHANGED <<options, confirming, acked, knows, ackBuf>> /\ net' \subseteq net \cup {ReadMsg(t)}
    BY <1>6 DEF SendRead, SendReadBatch
  <2>2. \A u \in Text : ttlMode[u] = "" => memR'[u] = memR[u]
    BY <1>6 DEF SendRead, SendReadBatch, ReadingStarts
  <2>3. \A refs \in SUBSET Text : DeliveredMsg(refs) \in net' => DeliveredMsg(refs) \in net
    BY <2>1 DEF ReadMsg, DeliveredMsg
  <2> QED
    BY <2>1, <2>2, <2>3, PlainStays
<1>7. ASSUME NEW t \in Text, ReceiveTtlUpdate(t) PROVE AckedIsThere'
  <2>1. UNCHANGED <<options, confirming, acked, knows, ackBuf>> /\ net' \subseteq net
    BY <1>7 DEF ReceiveTtlUpdate
  <2>2. \A u \in Text : ttlMode[u] = "" => memR'[u] = memR[u]
    BY <1>7 DEF ReceiveTtlUpdate, HardIsDated
  <2> QED
    BY <2>1, <2>2, PlainStays
<1>8. ASSUME NEW t \in Text, HardDeadline(t) \/ ReceiverDeadline(t) \/ DeleteExpiredR(t)
      PROVE  AckedIsThere'
  <2>1. UNCHANGED <<options, net, confirming, acked, knows, ackBuf>>
    BY <1>8 DEF HardDeadline, ReceiverDeadline, DeleteExpiredR
  <2>2. ASSUME "receiverRestart" \notin events, NEW u \in Text, ttlMode[u] = ""
        PROVE  memR'[u] = memR[u]
    <3>1. memR[u] # "over"
      BY <2>2 DEF AckedIsThere
    <3> QED
      BY <1>8, <2>2, <3>1 DEF HardDeadline, ReceiverDeadline, DeleteExpiredR, Deletable
  <2> QED
    BY <2>1, <2>2 DEF AckedIsThere, StaysWith
<1>9. CASE FlushDelivered
  <2>1. UNCHANGED <<options, confirming, acked, knows, memR>> /\ ackBuf' = {}
        /\ net' = net \cup {DeliveredMsg(ackBuf)}
    BY <1>9 DEF FlushDelivered
  <2>2. \A refs \in SUBSET Text : DeliveredMsg(refs) \in net' =>
            DeliveredMsg(refs) \in net \/ refs = ackBuf
    BY <2>1 DEF DeliveredMsg
  <2> QED
    BY <2>1, <2>2 DEF AckedIsThere, StaysWith
<1>10. ASSUME NEW refs \in SUBSET Text, ReceiveDelivered(refs) PROVE AckedIsThere'
  <2>1. /\ UNCHANGED <<options, acked, knows, memR, ackBuf>> /\ net' \subseteq net
        /\ DeliveredMsg(refs) \in net /\ confirming' = confirming \cup refs
    BY <1>10 DEF ReceiveDelivered
  <2> QED
    BY <2>1 DEF AckedIsThere, StaysWith
<1>11. CASE RemoveSender
  BY <1>11 DEF RemoveSender, AckedIsThere, StaysWith
<1>12. CASE RestartReceiver
  BY <1>12 DEF RestartReceiver, RestartAhead, AckedIsThere
<1>13. CASE LoseText
  <2>1. UNCHANGED <<options, confirming, acked, knows, memR, ackBuf>> /\ net' \subseteq net
    BY <1>13 DEF LoseText
  <2> QED
    BY <2>1, PlainStays
<1>14. CASE SaveQueue \/ FlushPending \/ SaveSender \/ SaveReceiver \/ UNCHANGED textVars
  BY <1>1, <1>14 DEF SaveQueue, FlushPending, SaveSender, SaveReceiver
<1>15. CASE RestartSender \/ StopAndStartSender
  <2>1. UNCHANGED <<options, net, acked, knows, memR, ackBuf>> /\ confirming' = {}
    BY <1>15 DEF RestartSender, StopAndStartSender
  <2> QED
    BY <2>1, PlainStays
<1>16. ASSUME NEW t \in Text, RemovePending(t) PROVE AckedIsThere'
  <2>1. /\ UNCHANGED <<options, net, knows, memR, ackBuf>>
        /\ t \in confirming /\ confirming' \subseteq confirming /\ acked' = acked \cup {t}
    BY <1>16 DEF RemovePending
  <2> QED
    BY <2>1, PlainStays
<1>17. ASSUME NEW t \in Text, MarkDelivered(t) PROVE AckedIsThere'
  <2>1. UNCHANGED <<options, confirming, acked, knows, memR, ackBuf>>
        /\ net' \subseteq net \cup {TtlUpdateMsg(t)}
    BY <1>17 DEF MarkDelivered
  <2>2. \A refs \in SUBSET Text : DeliveredMsg(refs) \in net' => DeliveredMsg(refs) \in net
    BY <2>1 DEF TtlUpdateMsg, DeliveredMsg
  <2> QED
    BY <2>1, <2>2, PlainStays
<1> QED
  BY <1>2, <1>3, <1>4, <1>5, <1>6, <1>7, <1>8, <1>9, <1>10, <1>11, <1>12, <1>13, <1>14,
     <1>15, <1>16, <1>17 DEF TextNext

\* A kill of the receiver is the only way in which a confirmed message without a TTL gets
\* lost: what ConfirmedIsKept says holds of every behaviour without one.
THEOREM OnlyAKillLosesConfirmed ==
  TextSpec => [](("receiverRestart" \notin events) => ConfirmedIsKept)
<1>1. TextInit => AckedIsThere
  BY DEF TextInit, AckedIsThere
<1>2. TextTypeOK /\ AckedIsThere => (("receiverRestart" \notin events) => ConfirmedIsKept)
  BY DEF TextTypeOK, AckedIsThere, StaysWith, ConfirmedIsKept
<1> QED
  BY <1>1, <1>2, TextInitKnown, KnownStaysTracked, TextQueueIsSavedSoon, HardStaysDated, AckedStaysThere, TextTypes, PTL
     DEF TextSpec
=============================================================================
