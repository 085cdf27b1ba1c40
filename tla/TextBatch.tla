------------------------------ MODULE TextBatch ------------------------------
(***************************************************************************)
(* Texts to one contact while Sphinx is on (node/node_batch.go): they are  *)
(* collected in a buffer, which a full buffer or a ticker hands over to a  *)
(* flushBatch of its own; a batch is one packet.  It enters neither the    *)
(* pending queue nor, with a media, the retry list: its retries fail.      *)
(*                                                                         *)
(* The buffers of other contacts share nothing with it.  A size is a       *)
(* natural number in the unit of BatchLimit; the order within a batch and  *)
(* the dummy packets (SphinxRoute) are left out.                           *)
(***************************************************************************)
EXTENDS Naturals, FiniteSetsExt

CONSTANTS
    BatchText,          \* the texts, by msgID
    TextSize,           \* what a text adds to estimateBatchJSONSize
    BatchLimit,         \* 60 KB
    FlushCount,         \* 10 texts
    BatchScenarios      \* what may happen besides: sets of KnownBatchEvents

KnownBatchEvents ==
    { "loss",           \* a packet is lost, or has no route
      "forget",         \* the sender's user removes the contact
      "restart" }       \* the sender's process ends

RestoreLimit == 3       \* failed restores before retryUnacked gives up

ASSUME BatchConstants ==
    /\ IsFiniteSet(BatchText)
    /\ TextSize \in [BatchText -> Nat] /\ BatchLimit \in Nat
    /\ FlushCount \in Nat \ {0}
    /\ BatchScenarios \subseteq SUBSET KnownBatchEvents

VARIABLES
    buffer,         \* n.batchBuffers of the contact
    replacing,      \* texts whose addToBatch has unlocked, to start a new buffer with
    batches,        \* the batches that flushBatches have still to send
    hasKey,         \* the contact is there to encrypt for
    attempts,       \* n.unackedChunks: the attempts of the texts that are listed
    restoring       \* toRetry of the running retryUnacked

VARIABLES
    storedTexts,    \* the texts in the contact's memory
    textAcks,       \* ... and in its n.pendingDelivered
    bNet,           \* packets in flight
    bEvents         \* the scenario of this behaviour

\* History, read by no action of the code.
VARIABLES
    composed,       \* texts that were handed to addToBatch
    sentTexts,      \* texts that have left in a batch
    confirmed,      \* texts named by a [DELIVERED] that was handled
    forgotten       \* texts taken away by a removal of the contact or a restart

batching  == <<buffer, replacing, batches, hasKey, composed, sentTexts, forgotten>>
retrying  == <<attempts, restoring, confirmed>>
recipient == <<storedTexts, textAcks>>
batchVars == <<batching, retrying, recipient, bNet, bEvents>>

BatchPacket(batch) == [type |-> "batch", texts |-> batch]
AckPacket(refs)    == [type |-> "delivered", texts |-> refs]

BatchTypeOK ==
    /\ buffer \subseteq BatchText /\ replacing \subseteq BatchText
    /\ batches \subseteq SUBSET BatchText /\ hasKey \in BOOLEAN
    /\ DOMAIN attempts \subseteq BatchText
    /\ \A t \in DOMAIN attempts : attempts[t] \in 0..RestoreLimit - 1
    /\ restoring \subseteq BatchText
    /\ storedTexts \subseteq BatchText /\ textAcks \subseteq BatchText
    /\ bNet \subseteq [type : {"batch", "delivered"}, texts : SUBSET BatchText]
    /\ bEvents \in BatchScenarios
    /\ composed \subseteq BatchText /\ sentTexts \subseteq BatchText
    /\ confirmed \subseteq BatchText /\ forgotten \subseteq BatchText

BatchInit ==
    /\ buffer = {} /\ replacing = {} /\ batches = {} /\ hasKey = TRUE
    /\ attempts = [t \in {} |-> 0] /\ restoring = {}
    /\ storedTexts = {} /\ textAcks = {} /\ bNet = {} /\ bEvents \in BatchScenarios
    /\ composed = {} /\ sentTexts = {} /\ confirmed = {} /\ forgotten = {}

\* estimateBatchJSONSize, without the constant of an empty batch.
EstimateSize(texts) == MapThenSumSet(LAMBDA t : TextSize[t], texts)
-----------------------------------------------------------------------------
\* addToBatch, under batchBuffersMu.  A buffer that has no room is handed over, and the
\* lock given up before the new buffer is there.
AddToBatch(t) ==
    /\ t \notin composed
    /\ composed' = composed \cup {t}
    /\ IF buffer # {} /\ EstimateSize(buffer) + TextSize[t] > BatchLimit
       THEN /\ batches' = batches \cup {buffer} /\ buffer' = {}
            /\ replacing' = replacing \cup {t}
       ELSE IF Cardinality(buffer) + 1 >= FlushCount
       THEN /\ batches' = batches \cup {buffer \cup {t}} /\ buffer' = {}
            /\ UNCHANGED replacing
       ELSE /\ buffer' = buffer \cup {t}
            /\ UNCHANGED <<batches, replacing>>
    /\ UNCHANGED <<hasKey, sentTexts, forgotten, retrying, recipient, bNet, bEvents>>

\* ... it locks again, and the new buffer takes the place of what is there by now.
ReplaceBuffer(t) ==
    /\ t \in replacing
    /\ replacing' = replacing \ {t}
    /\ buffer' = {t}
    /\ UNCHANGED <<batches, hasKey, composed, sentTexts, forgotten, retrying, recipient,
                   bNet, bEvents>>

\* Mutant of FlushAllBatches: the buffer is not emptied.
FlushKeepsBuffer ==
    /\ buffer # {}
    /\ batches' = batches \cup {buffer}
    /\ UNCHANGED <<buffer, replacing, hasKey, composed, sentTexts, forgotten, retrying,
                   recipient, bNet, bEvents>>

\* flushAllBatches, every second.
FlushAllBatches ==
    /\ buffer # {}
    /\ batches' = batches \cup {buffer} /\ buffer' = {}
    /\ UNCHANGED <<replacing, hasKey, composed, sentTexts, forgotten, retrying, recipient,
                   bNet, bEvents>>

\* flushBatch: without a key the texts are dropped; else they are listed for a retry, and
\* leave by Sphinx or, when that fails, by sendToRecipient.
FlushBatch(batch) ==
    /\ batch \in batches
    /\ batches' = batches \ {batch}
    /\ IF hasKey
       THEN /\ attempts' = [t \in DOMAIN attempts \cup batch |->
                                IF t \in batch THEN 0 ELSE attempts[t]]
            /\ bNet' = bNet \cup {BatchPacket(batch)}
            /\ sentTexts' = sentTexts \cup batch
            /\ UNCHANGED forgotten
       ELSE /\ forgotten' = forgotten \cup batch
            /\ UNCHANGED <<attempts, bNet, sentTexts>>
    /\ UNCHANGED <<buffer, replacing, hasKey, composed, restoring, confirmed, recipient,
                   bEvents>>

\* RemoveContact.
ForgetContact ==
    /\ "forget" \in bEvents /\ hasKey
    /\ hasKey' = FALSE
    /\ UNCHANGED <<buffer, replacing, batches, composed, sentTexts, forgotten, retrying,
                   recipient, bNet, bEvents>>

\* retryUnacked takes the entries whose backoff is over ...
RetryTexts(due) ==
    /\ restoring = {} /\ due # {} /\ due \subseteq DOMAIN attempts
    /\ restoring' = due
    /\ UNCHANGED <<batching, attempts, confirmed, recipient, bNet, bEvents>>

\* Mutant of Failed: attempts are not counted.
FailedUncounted(t) == IF t \in DOMAIN attempts THEN attempts[t] ELSE 0

\* The attempts of t with this one: an entry that was confirmed in the meantime is there
\* again, from zero.
Failed(t) == (IF t \in DOMAIN attempts THEN attempts[t] ELSE 0) + 1

\* Mutant of GivesUp: one attempt too many.
GivesUpLate(t) == Failed(t) > RestoreLimit

GivesUp(t) == Failed(t) >= RestoreLimit

\* ... and restoreChunkMessage refuses an entry without a media.
RestoreFails(t) ==
    /\ t \in restoring
    /\ restoring' = restoring \ {t}
    /\ attempts' = IF GivesUp(t)
                   THEN [u \in DOMAIN attempts \ {t} |-> attempts[u]]
                   ELSE [u \in DOMAIN attempts \cup {t} |->
                            IF u = t THEN Failed(t) ELSE attempts[u]]
    /\ UNCHANGED <<batching, confirmed, recipient, bNet, bEvents>>

\* [DELIVERED], as far as the retry list goes.
ReceiveTextAcks(refs) ==
    /\ AckPacket(refs) \in bNet
    /\ bNet' = bNet \ {AckPacket(refs)}
    /\ attempts' = [t \in DOMAIN attempts \ refs |-> attempts[t]]
    /\ confirmed' = confirmed \cup refs
    /\ UNCHANGED <<batching, restoring, recipient, bEvents>>

\* The sender's process ends and starts again.
RestartBatcher ==
    /\ "restart" \in bEvents
    /\ buffer' = {} /\ replacing' = {} /\ batches' = {}
    /\ attempts' = [t \in {} |-> 0] /\ restoring' = {}
    /\ forgotten' = forgotten \cup ((buffer \cup replacing \cup UNION batches) \ sentTexts)
    /\ UNCHANGED <<hasKey, composed, sentTexts, confirmed, recipient, bNet, bEvents>>
-----------------------------------------------------------------------------
\* The batch arrives as a [REPLICA] or by Sphinx: each text is a message of its own.
ReceiveBatch(batch) ==
    /\ BatchPacket(batch) \in bNet
    /\ bNet' = bNet \ {BatchPacket(batch)}
    /\ storedTexts' = storedTexts \cup batch
    /\ textAcks' = textAcks \cup batch
    /\ UNCHANGED <<batching, retrying, bEvents>>

FlushTextAcks ==
    /\ textAcks # {}
    /\ bNet' = bNet \cup {AckPacket(textAcks)}
    /\ textAcks' = {}
    /\ UNCHANGED <<batching, retrying, storedTexts, bEvents>>

LoseBatch ==
    /\ "loss" \in bEvents
    /\ \E packet \in bNet : bNet' = bNet \ {packet}
    /\ UNCHANGED <<batching, retrying, recipient, bEvents>>

BatchNext ==
    \/ \E t \in BatchText : AddToBatch(t) \/ ReplaceBuffer(t) \/ RestoreFails(t)
    \/ FlushAllBatches \/ ForgetContact \/ RestartBatcher \/ FlushTextAcks \/ LoseBatch
    \/ \E batch \in batches : FlushBatch(batch)
    \/ \E due \in SUBSET DOMAIN attempts : RetryTexts(due)
    \/ \E packet \in bNet : ReceiveBatch(packet.texts) \/ ReceiveTextAcks(packet.texts)

BatchSpec == BatchInit /\ [][BatchNext]_batchVars

\* The goroutines run; the ticker comes every second, the retry loop every 15.
BatchFairness ==
    /\ WF_batchVars(\E t \in BatchText : ReplaceBuffer(t))
    /\ WF_batchVars(\E batch \in batches : FlushBatch(batch))
    /\ WF_batchVars(FlushAllBatches)
    /\ WF_batchVars(RetryTexts(DOMAIN attempts))
    /\ WF_batchVars(\E t \in BatchText : RestoreFails(t))
-----------------------------------------------------------------------------
\* However addToBatch, the ticker and flushBatch interleave, no text is in two batches:
\* one that has left is in no buffer and no other batch any more.
BatchedOnce ==
    /\ \A b, c \in batches : b = c \/ b \cap c = {}
    /\ \A b \in batches : b \cap (buffer \cup replacing) = {}
    /\ buffer \cap replacing = {}
    /\ sentTexts \cap (buffer \cup replacing \cup UNION batches) = {}

\* An entry that can never be restored is not retried for ever, nor one that comes back
\* because it was confirmed while it was retried.
TextRetriesEnd == <>[](DOMAIN attempts = {})

\* "Pending until [DELIVERED]": a text that was composed is still going to be sent, or
\* listed for a retry, until it is confirmed.
ComposedIsTracked ==
    composed \subseteq confirmed \cup forgotten
        \cup buffer \cup replacing \cup UNION batches \cup DOMAIN attempts
=============================================================================
