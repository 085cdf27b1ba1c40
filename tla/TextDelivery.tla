---------------------------- MODULE TextDelivery ----------------------------
(***************************************************************************)
(* Addressed text messages from one node to a contact (node/node.go,       *)
(* node_p2p.go, node_service.go, memory.go), without Sphinx: the sender's  *)
(* offline queue, which is re-sent until [DELIVERED]; the statuses that    *)
(* [DELIVERED] and [READ] set; the two kinds of TTL with [TTL_UPDATE]; the *)
(* state files of both nodes and the file of the queue; restarts.          *)
(*                                                                         *)
(* Time is abstracted: a deadline passes at any moment, and 48 hours pass  *)
(* at any moment.  A copy of a message carries its own ExpiresAt, of which *)
(* only "none" (zero), "running" and "over" are kept.                      *)
(***************************************************************************)
EXTENDS PendingQueue, FiniteSets

CONSTANTS
    TtlModes,       \* the assignments of a TtlMode to the messages to start from
    Scenarios,      \* what may happen around the program: sets of KnownTextEvents
    MaxRestarts     \* bound: restarts of the two nodes together

Mode == {"", "hard", "after_read"}
KnownTextEvents ==
    { "loss",           \* the network loses a message, or there is no route
      "removed",        \* the receiver's user removes the sender from the contacts
      "senderRestart", "receiverRestart" }

ASSUME TextConstants ==
    /\ IsFiniteSet(Text)
    /\ TtlModes \subseteq [Text -> Mode]
    /\ Scenarios \subseteq SUBSET KnownTextEvents
    /\ MaxRestarts \in Nat

Expiry == {"none", "running", "over"}
Status == {"absent", "sent", "delivered", "hidden", "read"}
ReceiverCopy == {"absent"} \cup Expiry

Absent == [status |-> "absent", expiry |-> "none"]
SenderCopy == {Absent} \cup [status : Status \ {"absent"}, expiry : Expiry]

TextMsg(t)         == [type |-> "text", ref |-> t]
ReadMsg(t)         == [type |-> "read", ref |-> t]
TtlUpdateMsg(t)    == [type |-> "ttl_update", ref |-> t]
DeliveredMsg(refs) == [type |-> "delivered", refs |-> refs]

Packet == [type : {"text", "read", "ttl_update"}, ref : Text]
            \cup [type : {"delivered"}, refs : SUBSET Text]

VARIABLES
    ttlMode,        \* TtlMode of each message
    sharesS,        \* myReadEnabled of the sender
    sharesR,        \* myReadEnabled of the receiver, which its [DELIVERED] carries
    events,         \* the scenario of this behaviour
    net,            \* messages in flight
    restarts        \* restarts so far (bound)

VARIABLES
    replicating,    \* messages sent by replicateMessage, not yet in the queue
    flushing,       \* the snapshots that running flushPendings still have to send
    confirming,     \* refs of [DELIVERED]s whose handleDeliveredRef has yet to begin
    marking,        \* ... and those it has taken out of the queue, with no status set
    memS,           \* the messages in the sender's memory
    savedS          \* ... and those that loadState would add

VARIABLES
    knows,          \* the receiver has a key for the sender (a contact)
    memR,           \* the messages in the receiver's memory
    opened,         \* ... those of them marked ReadLocally
    savedR,         \* ... and those that loadState would add
    ackBuf          \* n.pendingDelivered of the receiver

\* History, read by no action of the code.
VARIABLES
    hardOver,       \* hard messages whose ExpiresAt has passed
    received,       \* messages the receiver's memory once took
    acked,          \* messages named by a [DELIVERED] that was handled
    unsaved         \* queued messages that a restart lost with a save still ahead

options  == <<ttlMode, sharesS, sharesR, events>>
sending  == <<replicating, flushing>>
handling == <<confirming, marking>>
sender   == <<queueVars, sending, handling, memS, savedS, acked, unsaved>>
receiver == <<knows, memR, opened, savedR, ackBuf, received>>
textVars == <<options, net, restarts, sender, receiver, hardOver>>

TextTypeOK ==
    /\ ttlMode \in [Text -> Mode] /\ sharesS \in BOOLEAN /\ sharesR \in BOOLEAN
    /\ events \in Scenarios /\ net \subseteq Packet /\ restarts \in 0..MaxRestarts
    /\ QueueTypeOK
    /\ replicating \subseteq Text /\ flushing \subseteq Text
    /\ confirming \subseteq Text /\ marking \subseteq Text
    /\ memS \in [Text -> SenderCopy] /\ savedS \in [Text -> SenderCopy]
    /\ knows \in BOOLEAN /\ ackBuf \subseteq Text
    /\ memR \in [Text -> ReceiverCopy] /\ savedR \in [Text -> ReceiverCopy]
    /\ hardOver \subseteq Text /\ received \subseteq Text /\ opened \subseteq Text
    /\ acked \subseteq Text /\ unsaved \subseteq Text

TextInit ==
    /\ ttlMode \in TtlModes /\ sharesS \in BOOLEAN /\ sharesR \in BOOLEAN
    /\ events \in Scenarios /\ net = {} /\ restarts = 0
    /\ QueueInit
    /\ replicating = {} /\ flushing = {} /\ confirming = {} /\ marking = {}
    /\ memS = [t \in Text |-> Absent] /\ savedS = memS
    /\ knows = TRUE /\ ackBuf = {}
    /\ memR = [t \in Text |-> "absent"] /\ savedR = memR
    /\ hardOver = {} /\ received = {} /\ opened = {} /\ acked = {} /\ unsaved = {}

Sent == {t \in Text : memS[t].status # "absent"} \cup replicating \cup pending \cup received
            \cup acked \cup unsaved

\* Bound: a node restarts MaxRestarts times, and what it writes to its files is followed
\* only as long as a restart may come that reads them.
RestartAhead(kind) == kind \in events /\ restarts < MaxRestarts
-----------------------------------------------------------------------------
\* SendToPeer and processMessageInternal up to the first transmission: a new id, the
\* hard deadline runs from now; the message is in memory as Sent before it leaves.
SendToPeer(t) ==
    /\ t \notin Sent
    /\ memS' = [memS EXCEPT ![t] = [status |-> "sent",
                                    expiry |-> IF ttlMode[t] = "hard" THEN "running" ELSE "none"]]
    /\ net' = net \cup {TextMsg(t)}
    /\ replicating' = replicating \cup {t}
    /\ UNCHANGED <<options, restarts, queueVars, flushing, handling, savedS, acked, unsaved,
                   receiver, hardOver>>

\* replicateMessage goes on after sendToRecipient: enqueuePending, whatever has been
\* confirmed in the meantime, and a save in five seconds unless one is scheduled.
EnqueuePending(t) ==
    /\ t \in replicating
    /\ replicating' = replicating \ {t}
    /\ Enqueue(t)
    /\ UNCHANGED <<options, net, restarts, flushing, handling, memS, savedS, acked, unsaved, receiver,
                   hardOver>>

\* savePendingQueue, in the goroutines that run it.
SaveQueue ==
    /\ RestartAhead("senderRestart")
    /\ StartScheduledSave \/ CopyQueue \/ \E copy \in writers : WriteQueueFile(copy)
    /\ UNCHANGED <<options, net, restarts, sending, handling, memS, savedS, acked, unsaved, receiver,
                   hardOver>>

\* Mutant of FlushPending: the snapshot takes the queue along.
FlushEmpties ==
    /\ pending # {}
    /\ flushing' = flushing \cup pending /\ pending' = {}
    /\ UNCHANGED <<options, net, restarts, file, replicating, handling, memS, savedS, acked,
                   unsaved, receiver, hardOver>>

\* flushPending: on a connection, when a dead peer answers again, after a reconnection,
\* and every four minutes in announceLoop.
FlushPending ==
    /\ pending # {}
    /\ flushing' = flushing \cup pending
    /\ UNCHANGED <<options, net, restarts, queueVars, replicating, handling, memS, savedS, acked,
                   unsaved, receiver, hardOver>>

\* tryReplicate: the message is sent and stays in the queue, even past its TTL.
TryReplicate(t) ==
    /\ t \in flushing
    /\ flushing' = flushing \ {t}
    /\ net' = net \cup {TextMsg(t)}
    /\ UNCHANGED <<options, restarts, queueVars, replicating, handling, memS, savedS, acked, unsaved,
                   receiver, hardOver>>

\* SetStatus: hidden is final, and no status is lowered.
Rank == [absent |-> 0, sent |-> 1, delivered |-> 2, hidden |-> 3, read |-> 4]
SetStatus(copy, status) ==
    IF copy.status \in {"absent", "hidden"} \/ Rank[copy.status] >= Rank[status]
    THEN copy ELSE [status |-> status, expiry |-> copy.expiry]

\* A deadline from now.
Expiring(copy) == [status |-> copy.status, expiry |-> "running"]

\* Mutant of AwaitsReading: the message need not be there.
AwaitsUnseen(t) == ttlMode[t] = "after_read" /\ memS[t].expiry = "none"

\* A TTL that counts from the reading, on a copy whose deadline is not set.
AwaitsReading(t) == ttlMode[t] = "after_read" /\ memS[t].status # "absent" /\ memS[t].expiry = "none"

\* handleServiceMessage, [DELIVERED]: each ref is handled on its own.
ReceiveDelivered(refs) ==
    /\ DeliveredMsg(refs) \in net
    /\ net' = net \ {DeliveredMsg(refs)}
    /\ confirming' = confirming \cup refs
    /\ UNCHANGED <<options, restarts, queueVars, sending, marking, memS, savedS, acked, unsaved,
                   receiver, hardOver>>

\* handleDeliveredRef begins with removePendingByRef.
RemovePending(t) ==
    /\ t \in confirming
    /\ confirming' = confirming \ {t} /\ marking' = marking \cup {t}
    /\ RemoveRef(t)
    /\ acked' = acked \cup {t}
    /\ UNCHANGED <<options, net, restarts, sending, memS, savedS, unsaved, receiver, hardOver>>

\* It ends with the status, and when one of the two does not share readings the message is
\* Hidden and its after_read TTL starts here and, by [TTL_UPDATE], at the receiver.  The save
\* of the removal may still be under way: a second [DELIVERED] of t finds nothing to remove
\* and does not wait for it.
MarkDelivered(t) ==
    LET shared == sharesS /\ sharesR
        marked == SetStatus(memS[t], IF shared THEN "delivered" ELSE "hidden")
        toHard == ~shared /\ AwaitsReading(t)
    IN  /\ t \in marking
        /\ marking' = marking \ {t}
        /\ memS' = [memS EXCEPT ![t] = IF toHard THEN Expiring(marked) ELSE marked]
        /\ net' = IF toHard THEN net \cup {TtlUpdateMsg(t)} ELSE net
        /\ UNCHANGED <<options, restarts, queueVars, sending, confirming, savedS, acked, unsaved,
                       receiver, hardOver>>

\* handleServiceMessage, [READ]: the status, then the deadline of an after_read TTL.
ReceiveRead(t) ==
    LET marked == SetStatus(memS[t], IF sharesS THEN "read" ELSE "hidden")
    IN  /\ ReadMsg(t) \in net
        /\ net' = net \ {ReadMsg(t)}
        /\ memS' = [memS EXCEPT ![t] =
                        IF AwaitsReading(t) THEN Expiring(marked) ELSE marked]
        /\ UNCHANGED <<options, restarts, queueVars, sending, handling, savedS, acked, unsaved, receiver, hardOver>>
-----------------------------------------------------------------------------
\* Mutant of New: the deadline is not looked at.
NewById(t) == memR[t] = "absent"

\* memory.Add refuses a known id and a passed ExpiresAt.
New(t) == memR[t] = "absent" /\ t \notin hardOver

\* Mutants of QueueDelivered: it comes before the decryption; only for what is new.
QueueDeliveredBlindly(t) == ackBuf' = ackBuf \cup {t}
QueueDeliveredOnce(t) == ackBuf' = IF knows /\ New(t) THEN ackBuf \cup {t} ELSE ackBuf

\* queueDelivered, for what could be decrypted, known or not.
QueueDelivered(t) == ackBuf' = IF knows THEN ackBuf \cup {t} ELSE ackBuf

\* handleStream, [REPLICA] for this node: without a key for the sender nothing happens.
ReceiveText(t) ==
    /\ TextMsg(t) \in net
    /\ net' = net \ {TextMsg(t)}
    /\ QueueDelivered(t)
    /\ IF knows /\ New(t)
       THEN /\ memR' = [memR EXCEPT ![t] = IF ttlMode[t] = "hard" THEN "running" ELSE "none"]
            /\ received' = received \cup {t}
       ELSE UNCHANGED <<memR, received>>
    /\ UNCHANGED <<options, restarts, sender, knows, savedR, opened, hardOver>>

\* flushDelivered, two seconds after the first acknowledgement or at ten of them.  When
\* no bootstrap node takes the batch it is put back, which leaves the buffer as it was.
FlushDelivered ==
    /\ ackBuf # {}
    /\ net' = net \cup {DeliveredMsg(ackBuf)}
    /\ ackBuf' = {}
    /\ UNCHANGED <<options, restarts, sender, knows, memR, savedR, received, opened, hardOver>>

\* The deadline of an after_read copy that its reader starts.
ReadingStarts(t) ==
    memR' = [memR EXCEPT ![t] = IF ttlMode[t] = "after_read" /\ @ = "none" THEN "running" ELSE @]

\* SendRead, for a message that arrives in the open chat: the TTL starts here in any
\* case, the confirmation is sent when the user shares readings.
SendRead(t) ==
    /\ memR[t] \notin {"absent", "over"} /\ t \notin opened
    /\ opened' = opened \cup {t}
    /\ ReadingStarts(t)
    /\ net' = IF sharesR THEN net \cup {ReadMsg(t)} ELSE net
    /\ UNCHANGED <<options, restarts, sender, knows, savedR, ackBuf, received, hardOver>>

\* SendReadBatch, when the chat is opened: nothing at all unless readings are shared.
SendReadBatch(t) ==
    /\ memR[t] \notin {"absent", "over"} /\ t \notin opened
    /\ opened' = opened \cup {t}
    /\ IF sharesR THEN ReadingStarts(t) /\ net' = net \cup {ReadMsg(t)}
                  ELSE UNCHANGED <<memR, net>>
    /\ UNCHANGED <<options, restarts, sender, knows, savedR, ackBuf, received, hardOver>>

\* handleTtlUpdate: a deadline from now, also over one that runs already.
ReceiveTtlUpdate(t) ==
    /\ TtlUpdateMsg(t) \in net
    /\ net' = net \ {TtlUpdateMsg(t)}
    /\ memR' = [memR EXCEPT ![t] = IF @ = "absent" THEN @ ELSE "running"]
    /\ UNCHANGED <<options, restarts, sender, knows, savedR, ackBuf, received, opened, hardOver>>

\* RemoveContact at the receiver: it cannot decrypt what the sender sends from now on.
RemoveSender ==
    /\ "removed" \in events /\ knows
    /\ knows' = FALSE
    /\ memR' = [t \in Text |-> "absent"] /\ opened' = {}
    /\ UNCHANGED <<options, net, restarts, sender, savedR, ackBuf, received, hardOver>>
-----------------------------------------------------------------------------
\* What loadState would add of a state file: a copy whose deadline has passed since is
\* refused by memory.Add.
StillLoads(saved, t) == [saved EXCEPT ![t] = IF @.expiry = "none" THEN @ ELSE Absent]
StillLoadsR(saved, t) == [saved EXCEPT ![t] = IF @ = "none" THEN @ ELSE "absent"]

Expired(copy) == [status |-> copy.status, expiry |-> "over"]

\* The deadline of a hard message passes, everywhere at once.
HardDeadline(t) ==
    /\ ttlMode[t] = "hard" /\ t \notin hardOver /\ t \in Sent
    /\ hardOver' = hardOver \cup {t}
    /\ memS' = [memS EXCEPT ![t] = IF @.expiry = "none" THEN @ ELSE Expired(@)]
    /\ memR' = [memR EXCEPT ![t] = IF @ = "absent" THEN @ ELSE "over"]
    /\ savedS' = StillLoads(savedS, t)
    /\ savedR' = StillLoadsR(savedR, t)
    /\ UNCHANGED <<options, net, restarts, queueVars, sending, handling, acked, unsaved, knows, ackBuf, received,
                   opened>>

\* The deadline of an after_read message passes at one of the two.
SenderDeadline(t) ==
    /\ ttlMode[t] = "after_read" /\ memS[t].expiry = "running"
    /\ memS' = [memS EXCEPT ![t] = Expired(@)]
    /\ savedS' = StillLoads(savedS, t)
    /\ UNCHANGED <<options, net, restarts, queueVars, sending, handling, acked, unsaved, receiver, hardOver>>

ReceiverDeadline(t) ==
    /\ ttlMode[t] = "after_read" /\ memR[t] = "running"
    /\ memR' = [memR EXCEPT ![t] = "over"]
    /\ savedR' = StillLoadsR(savedR, t)
    /\ UNCHANGED <<options, net, restarts, sender, knows, ackBuf, received, opened, hardOver>>

\* Mutant of Deletable: nothing is deleted for its age.
DeletableByDeadline(t, expiry) == expiry = "over"

\* DeleteExpired, every minute: past its deadline, or with a TTL and 48 hours old.
Deletable(t, expiry) == expiry = "over" \/ ttlMode[t] # ""

DeleteExpiredS(t) ==
    /\ memS[t].status # "absent" /\ Deletable(t, memS[t].expiry)
    /\ memS' = [memS EXCEPT ![t] = Absent]
    /\ UNCHANGED <<options, net, restarts, queueVars, sending, handling, savedS, acked, unsaved, receiver, hardOver>>

DeleteExpiredR(t) ==
    /\ memR[t] # "absent" /\ Deletable(t, memR[t])
    /\ memR' = [memR EXCEPT ![t] = "absent"]
    /\ opened' = opened \ {t}
    /\ UNCHANGED <<options, net, restarts, sender, knows, savedR, ackBuf, received, hardOver>>

\* saveState: all messages but the expired ones.
SaveSender ==
    /\ RestartAhead("senderRestart")
    /\ savedS' = [t \in Text |-> IF memS[t].expiry = "over" THEN Absent ELSE memS[t]]
    /\ UNCHANGED <<options, net, restarts, queueVars, sending, handling, memS, acked, unsaved, receiver, hardOver>>
SaveReceiver ==
    /\ RestartAhead("receiverRestart")
    /\ savedR' = [t \in Text |-> IF memR[t] = "over" THEN "absent" ELSE memR[t]]
    /\ UNCHANGED <<options, net, restarts, sender, knows, memR, ackBuf, received, opened, hardOver>>

\* The process is killed and started again: loadState and loadPendingQueue.
RestartSender ==
    /\ RestartAhead("senderRestart")
    /\ restarts' = restarts + 1
    /\ memS' = savedS
    /\ LoadQueue
    /\ replicating' = {} /\ flushing' = {} /\ confirming' = {} /\ marking' = {}
    /\ unsaved' = unsaved \cup
            {t \in (replicating \cup pending) \ queueFile :
                t \in replicating \/ SaveAhead(t) \/ overlapped}
    /\ UNCHANGED <<options, net, savedS, acked, receiver, hardOver>>

RestartReceiver ==
    /\ RestartAhead("receiverRestart")
    /\ restarts' = restarts + 1
    /\ memR' = savedR
    /\ opened' \in SUBSET {t \in opened : savedR[t] # "absent"}    \* as saved
    /\ ackBuf' = {}
    /\ UNCHANGED <<options, net, sender, knows, savedR, received, hardOver>>

\* Stop saves the state and the queue before the process ends.
StopAndStartSender ==
    /\ RestartAhead("senderRestart")
    /\ restarts' = restarts + 1
    /\ savedS' = [t \in Text |-> IF memS[t].expiry = "over" THEN Absent ELSE memS[t]]
    /\ memS' = savedS'
    /\ StopAndLoadQueue
    /\ replicating' = {} /\ flushing' = {} /\ confirming' = {} /\ marking' = {}
    /\ unsaved' = unsaved \cup
            {t \in (replicating \cup pending) \ pending' : t \in replicating \/ writers # {}}
    /\ UNCHANGED <<options, net, acked, receiver, hardOver>>

LoseText ==
    /\ "loss" \in events
    /\ \E packet \in net : net' = net \ {packet}
    /\ UNCHANGED <<options, restarts, sender, receiver, hardOver>>
-----------------------------------------------------------------------------
TextNext ==
    \/ \E t \in Text :
        \/ SendToPeer(t) \/ EnqueuePending(t) \/ TryReplicate(t)
        \/ RemovePending(t) \/ MarkDelivered(t) \/ ReceiveRead(t)
        \/ ReceiveText(t) \/ SendRead(t) \/ SendReadBatch(t) \/ ReceiveTtlUpdate(t)
        \/ HardDeadline(t) \/ SenderDeadline(t) \/ ReceiverDeadline(t)
        \/ DeleteExpiredS(t) \/ DeleteExpiredR(t)
    \/ SaveQueue \/ FlushPending \/ FlushDelivered
    \/ \E refs \in SUBSET Text : ReceiveDelivered(refs)
    \/ RemoveSender \/ SaveSender \/ SaveReceiver
    \/ RestartSender \/ RestartReceiver \/ StopAndStartSender \/ LoseText

TextSpec == TextInit /\ [][TextNext]_textVars

\* The goroutines run, announceLoop flushes the queue every four minutes, and a message
\* that is sent again and again arrives again and again.
TextFairness ==
    /\ \A t \in Text :
        /\ WF_textVars(EnqueuePending(t))
        /\ WF_textVars(TryReplicate(t))
        /\ SF_textVars(ReceiveText(t))
        /\ SF_textVars(\E refs \in SUBSET Text : t \in refs /\ ReceiveDelivered(refs))
        /\ WF_textVars(RemovePending(t))
        /\ WF_textVars(MarkDelivered(t))
        /\ WF_textVars(DeleteExpiredR(t))
    /\ WF_textVars(FlushPending)
    /\ WF_textVars(FlushDelivered)

FairTextSpec == TextSpec /\ TextFairness
-----------------------------------------------------------------------------
\* "Pending until [DELIVERED]": a message that was sent is on its way into the queue or
\* in it until the receiver confirms it, unless a restart came while the save that would
\* have written it was ahead, or after overlapping saves.
QueuedUntilDelivered ==
    \A t \in Sent : t \in replicating \cup pending \cup acked \cup unsaved

\* A confirmation shown for a message that has not expired: the receiver has had it, and
\* a reading shown was one.  It also holds of what a restart brings back.
ConfirmedIsReceived ==
    \A t \in Text : memS[t].expiry # "over" =>
        /\ memS[t].status \in {"delivered", "hidden", "read"} => t \in received
        /\ memS[t].status = "read" => sharesS /\ sharesR

\* A hard message whose deadline has passed never comes back to the receiver: neither a
\* copy that is re-sent from the queue nor the state file revives it.
HardStaysGone ==
    [][\A t \in hardOver : memR[t] = "absent" => memR'[t] = "absent"]_textVars

\* Whatever is lost and whoever shares readings, a message with a TTL does not stay: the
\* receiver's memory is without it again and again.
TtlTextGoes ==
    \A t \in Text : []<>(ttlMode[t] = "" \/ memR[t] = "absent")

\* Every message leaves the queue for good, so none is re-sent for ever, however
\* [DELIVERED] and enqueuePending cross; but for a receiver who has removed the sender.
QueueDrains == <>[](pending = {} \/ ~knows)

\* A message that is sent and not forgotten by a restart reaches a receiver who knows the
\* sender, unless its hard deadline comes first.
SentIsReceived ==
    \A t \in Text : t \in Sent ~> t \in received \cup hardOver \cup unsaved \/ ~knows

\* "A forced stop of the app loses no data": a message without a TTL whose delivery was
\* confirmed stays with a receiver who does not remove the contact.  It does not hold when
\* the receiver is killed before saveState (README, section 8).
ConfirmedIsKept ==
    \A t \in acked : ttlMode[t] = "" /\ knows => memR[t] # "absent"
=============================================================================
