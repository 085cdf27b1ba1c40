---------------------------- MODULE TransportProofs ----------------------------
(***************************************************************************)
(* What carries texts, for any texts, sizes, limits, contacts and letters: *)
(* no text leaves twice by the batches, however often the buffer is handed *)
(* over and replaced, and none is lost before it is sent but in the gap of *)
(* addToBatch; no relay of a Sphinx packet can link its ends, nor does     *)
(* anybody but its recipient get a letter out of it.                       *)
(***************************************************************************)
EXTENDS MCTransport, FiniteSetTheorems, TLAPS
-----------------------------------------------------------------------------
\* Texts in batches.

\* Texts are in one place at a time, and only those that were composed are anywhere.
Waiting == buffer \cup replacing

OnePlace ==
    /\ \A b, c \in batches : b = c \/ b \cap c = {}
    /\ \A b \in batches : b \cap Waiting = {} /\ b \cap sentTexts = {} /\ b \subseteq composed
    /\ buffer \cap replacing = {} /\ Waiting \cap sentTexts = {}
    /\ Waiting \subseteq composed /\ sentTexts \subseteq composed

LEMMA SentAreApart == OnePlace => BatchedOnce
  BY DEF OnePlace, Waiting, BatchedOnce

LEMMA NowhereAtFirst == BatchInit => OnePlace
  BY DEF BatchInit, OnePlace, Waiting

\* A batch that is made of the buffer, or of the buffer and a new text, keeps to itself.
LEMMA HandOver ==
  ASSUME OnePlace, NEW new, new \cap composed = {},
         batches' = batches \cup {buffer \cup new}, buffer' = {}, replacing' = replacing,
         composed' = composed \cup new, sentTexts' = sentTexts
  PROVE  OnePlace'
<1> USE DEF OnePlace, Waiting
<1>1. ASSUME NEW b \in batches PROVE b \cap (buffer \cup new) = {}
  OBVIOUS
<1>2. \A b, c \in batches' : b = c \/ b \cap c = {}
  BY <1>1
<1>3. ASSUME NEW b \in batches'
      PROVE  b \cap Waiting' = {} /\ b \cap sentTexts' = {} /\ b \subseteq composed'
  <2>1. CASE b \in batches
    BY <2>1
  <2>2. CASE b = buffer \cup new
    BY <2>2
  <2> QED
    BY <1>3, <2>1, <2>2
<1> QED
  BY <1>2, <1>3

LEMMA OnePlaceStays == OnePlace /\ [BatchNext]_batchVars => OnePlace'
<1> SUFFICES ASSUME OnePlace, [BatchNext]_batchVars PROVE OnePlace'
  OBVIOUS
<1> USE DEF batchVars, batching, retrying
<1>1. ASSUME NEW t \in BatchText, AddToBatch(t) PROVE OnePlace'
  <2>1. t \notin composed /\ composed' = composed \cup {t} /\ sentTexts' = sentTexts
    BY <1>1 DEF AddToBatch
  <2>2. CASE batches' = batches \cup {buffer} /\ buffer' = {} /\ replacing' = replacing \cup {t}
    BY <2>1, <2>2 DEF OnePlace, Waiting
  <2>3. CASE batches' = batches \cup {buffer \cup {t}} /\ buffer' = {} /\ replacing' = replacing
    BY <2>1, <2>3, HandOver
  <2>4. CASE buffer' = buffer \cup {t} /\ batches' = batches /\ replacing' = replacing
    BY <2>1, <2>4 DEF OnePlace, Waiting
  <2> QED
    BY <1>1, <2>2, <2>3, <2>4 DEF AddToBatch
<1>2. ASSUME NEW t \in BatchText, ReplaceBuffer(t) PROVE OnePlace'
  BY <1>2 DEF ReplaceBuffer, OnePlace, Waiting
<1>3. CASE FlushAllBatches
  <2>1. batches' = batches \cup {buffer \cup {}} /\ buffer' = {} /\ replacing' = replacing
        /\ composed' = composed \cup {} /\ sentTexts' = sentTexts
    BY <1>3 DEF FlushAllBatches
  <2> QED
    BY <2>1, HandOver
<1>4. ASSUME NEW batch \in batches, FlushBatch(batch) PROVE OnePlace'
  <2>1. batches' = batches \ {batch} /\ sentTexts' \subseteq sentTexts \cup batch
        /\ UNCHANGED <<buffer, replacing, composed>>
    BY <1>4 DEF FlushBatch
  <2> QED
    BY <2>1 DEF OnePlace, Waiting
<1>5. CASE RestartBatcher
  BY <1>5 DEF RestartBatcher, OnePlace, Waiting
<1>6. CASE ForgetContact \/ FlushTextAcks \/ LoseBatch
  BY <1>6 DEF ForgetContact, FlushTextAcks, LoseBatch, OnePlace, Waiting
<1>7. ASSUME NEW t \in BatchText, RestoreFails(t) PROVE OnePlace'
  BY <1>7 DEF RestoreFails, OnePlace, Waiting
<1>8. ASSUME NEW due \in SUBSET DOMAIN attempts, RetryTexts(due) PROVE OnePlace'
  BY <1>8 DEF RetryTexts, OnePlace, Waiting
<1>9. ASSUME NEW packet \in bNet, ReceiveBatch(packet.texts) \/ ReceiveTextAcks(packet.texts)
      PROVE  OnePlace'
  BY <1>9 DEF ReceiveBatch, ReceiveTextAcks, OnePlace, Waiting
<1>10. CASE UNCHANGED batchVars
  BY <1>10 DEF OnePlace, Waiting
<1> QED
  BY <1>1, <1>2, <1>3, <1>4, <1>5, <1>6, <1>7, <1>8, <1>9, <1>10 DEF BatchNext

\* The gap in addToBatch, in which another call fills or hands over a buffer, loses texts
\* but sends none twice.
THEOREM NoTextInTwoBatches == BatchSpec => []BatchedOnce
  BY SentAreApart, NowhereAtFirst, OnePlaceStays, PTL DEF BatchSpec

\* What a call of addToBatch does with its text: it keeps it until the full buffer is away,
\* hands it over with the rest, or puts it into the buffer.
LEMMA AddedText ==
  ASSUME NEW t \in BatchText, AddToBatch(t)
  PROVE  /\ composed' = composed \cup {t} /\ UNCHANGED <<sentTexts, forgotten>>
         /\ \/ /\ buffer # {} /\ EstimateSize(buffer) + TextSize[t] > BatchLimit
               /\ batches' = batches \cup {buffer} /\ buffer' = {} /\ replacing' = replacing \cup {t}
            \/ batches' = batches \cup {buffer \cup {t}} /\ buffer' = {} /\ replacing' = replacing
            \/ /\ ~(Cardinality(buffer) + 1 >= FlushCount)
               /\ buffer' = buffer \cup {t} /\ batches' = batches /\ replacing' = replacing
<1> DEFINE full == buffer # {} /\ EstimateSize(buffer) + TextSize[t] > BatchLimit
           many == Cardinality(buffer) + 1 >= FlushCount
<1>1. IF full
      THEN /\ batches' = batches \cup {buffer} /\ buffer' = {}
           /\ replacing' = replacing \cup {t}
      ELSE IF many
      THEN /\ batches' = batches \cup {buffer \cup {t}} /\ buffer' = {}
           /\ UNCHANGED replacing
      ELSE /\ buffer' = buffer \cup {t}
           /\ UNCHANGED <<batches, replacing>>
  BY DEF AddToBatch
<1>2. composed' = composed \cup {t} /\ UNCHANGED <<sentTexts, forgotten>>
  BY DEF AddToBatch
<1> HIDE DEF full, many
<1>3. \/ full /\ batches' = batches \cup {buffer} /\ buffer' = {} /\ replacing' = replacing \cup {t}
      \/ batches' = batches \cup {buffer \cup {t}} /\ buffer' = {} /\ replacing' = replacing
      \/ ~many /\ buffer' = buffer \cup {t} /\ batches' = batches /\ replacing' = replacing
  BY <1>1
<1> QED
  BY <1>2, <1>3 DEF full, many

\* A text that was composed is on its way, was sent, or was forgotten; or it is lost.
OnItsWay(t) == t \in Waiting \/ \E b \in batches : t \in b
Lost == {t \in composed : t \notin sentTexts \cup forgotten /\ ~OnItsWay(t)}

LEMMA LostFrame ==
  ASSUME composed' \subseteq composed, sentTexts \subseteq sentTexts', forgotten \subseteq forgotten',
         \A t \in composed : OnItsWay(t) => OnItsWay(t)' \/ t \in sentTexts' \cup forgotten'
  PROVE  Lost' \subseteq Lost
BY DEF Lost

\* Every step but one loses nothing.
LEMMA NothingLost ==
  ASSUME [BatchNext]_batchVars, \A t \in BatchText : ~ReplaceBuffer(t)
  PROVE  Lost' \subseteq Lost
<1> USE DEF batchVars, batching, retrying
<1>1. ASSUME NEW t \in BatchText, AddToBatch(t) PROVE Lost' \subseteq Lost
  <2>1. composed' = composed \cup {t} /\ UNCHANGED <<sentTexts, forgotten>>
    BY <1>1, AddedText
  <2>2. OnItsWay(t)' /\ \A u \in composed : OnItsWay(u) => OnItsWay(u)'
    <3>1. CASE batches' = batches \cup {buffer} /\ buffer' = {} /\ replacing' = replacing \cup {t}
      BY <3>1 DEF OnItsWay, Waiting
    <3>2. CASE batches' = batches \cup {buffer \cup {t}} /\ buffer' = {} /\ replacing' = replacing
      BY <3>2 DEF OnItsWay, Waiting
    <3>3. CASE buffer' = buffer \cup {t} /\ batches' = batches /\ replacing' = replacing
      BY <3>3 DEF OnItsWay, Waiting
    <3> QED
      BY <1>1, <3>1, <3>2, <3>3, AddedText
  <2> QED
    BY <2>1, <2>2 DEF Lost
<1>2. CASE FlushAllBatches
  <2>1. batches' = batches \cup {buffer} /\ UNCHANGED <<composed, sentTexts, forgotten, replacing>>
    BY <1>2 DEF FlushAllBatches
  <2>2. \A t \in composed : OnItsWay(t) => OnItsWay(t)'
    BY <2>1 DEF OnItsWay, Waiting
  <2> QED
    BY <2>1, <2>2, LostFrame
<1>3. ASSUME NEW batch \in batches, FlushBatch(batch) PROVE Lost' \subseteq Lost
  <2>1. batches' = batches \ {batch} /\ UNCHANGED <<composed, buffer, replacing>>
    BY <1>3 DEF FlushBatch
  <2>2. sentTexts \subseteq sentTexts' /\ forgotten \subseteq forgotten'
        /\ batch \subseteq sentTexts' \cup forgotten'
    BY <1>3 DEF FlushBatch
  <2>3. \A t \in composed : OnItsWay(t) => OnItsWay(t)' \/ t \in batch
    BY <2>1 DEF OnItsWay, Waiting
  <2> QED
    BY <2>1, <2>2, <2>3, LostFrame
<1>4. CASE RestartBatcher
  <2>1. /\ UNCHANGED <<composed, sentTexts>>
        /\ forgotten' = forgotten \cup ((buffer \cup replacing \cup UNION batches) \ sentTexts)
    BY <1>4 DEF RestartBatcher
  <2>2. \A t \in composed : OnItsWay(t) => t \in buffer \cup replacing \cup UNION batches
    BY DEF OnItsWay, Waiting
  <2> QED
    BY <2>1, <2>2, LostFrame
<1>5. ASSUME UNCHANGED <<composed, sentTexts, forgotten, buffer, replacing, batches>>
      PROVE  Lost' \subseteq Lost
  BY <1>5 DEF Lost, OnItsWay, Waiting
<1>6. CASE ForgetContact \/ FlushTextAcks \/ LoseBatch \/ UNCHANGED batchVars
  BY <1>5, <1>6 DEF ForgetContact, FlushTextAcks, LoseBatch
<1>7. ASSUME NEW t \in BatchText, RestoreFails(t) PROVE Lost' \subseteq Lost
  BY <1>5, <1>7 DEF RestoreFails
<1>8. ASSUME NEW due \in SUBSET DOMAIN attempts, RetryTexts(due) PROVE Lost' \subseteq Lost
  BY <1>5, <1>8 DEF RetryTexts
<1>9. ASSUME NEW packet \in bNet, ReceiveBatch(packet.texts) \/ ReceiveTextAcks(packet.texts)
      PROVE  Lost' \subseteq Lost
  BY <1>5, <1>9 DEF ReceiveBatch, ReceiveTextAcks
<1> QED
  BY <1>1, <1>2, <1>3, <1>4, <1>6, <1>7, <1>8, <1>9 DEF BatchNext

\* The second lock of addToBatch is the only place where a text gets lost before it is sent,
\* and what it loses is what another call has put into the buffer in between.
OnlyReplacedAreLost ==
    [][\/ Lost' \subseteq Lost
       \/ \E t \in BatchText : ReplaceBuffer(t) /\ Lost' \subseteq Lost \cup buffer]_batchVars

THEOREM OnlyTheGapLoses == BatchSpec => OnlyReplacedAreLost
<1> DEFINE Step == \/ Lost' \subseteq Lost
                   \/ \E t \in BatchText : ReplaceBuffer(t) /\ Lost' \subseteq Lost \cup buffer
<1>1. ASSUME [BatchNext]_batchVars PROVE Step
  <2>1. CASE \A t \in BatchText : ~ReplaceBuffer(t)
    BY <1>1, <2>1, NothingLost
  <2>2. ASSUME NEW t \in BatchText, ReplaceBuffer(t) PROVE Step
    BY <2>2 DEF ReplaceBuffer, Lost, OnItsWay, Waiting, batching, retrying
  <2> QED
    BY <2>1, <2>2
<1> HIDE DEF Step
<1>2. [BatchNext]_batchVars => [Step]_batchVars
  BY <1>1
<1> QED
  BY <1>2, PTL DEF BatchSpec, OnlyReplacedAreLost, Step

\* The limits go together: what a buffer holds before it is flushed for its count has room
\* for one more text.
TextsFit ==
    \A texts \in SUBSET BatchText, t \in BatchText :
        Cardinality(texts) \in 1..FlushCount - 1 => ~(EstimateSize(texts) + TextSize[t] > BatchLimit)

\* Then no buffer is ever handed over for its size.
BufferHasRoom ==
    /\ replacing = {} /\ buffer \subseteq BatchText
    /\ Cardinality(buffer) < FlushCount

LEMMA RoomStays == TextsFit /\ BufferHasRoom /\ [BatchNext]_batchVars => BufferHasRoom'
<1> SUFFICES ASSUME TextsFit, BufferHasRoom, [BatchNext]_batchVars PROVE BufferHasRoom'
  OBVIOUS
<1> USE DEF batchVars, batching, retrying
<1>1. IsFiniteSet(buffer) /\ Cardinality(buffer) \in Nat
  BY BatchConstants, FS_Subset, FS_CardinalityType DEF BufferHasRoom
<1>2. Cardinality({}) = 0 /\ 0 < FlushCount /\ FlushCount \in Nat
  BY BatchConstants, FS_EmptySet
<1>3. ASSUME buffer' = {}, replacing' = {} PROVE BufferHasRoom'
  BY <1>2, <1>3 DEF BufferHasRoom
<1>4. ASSUME NEW t \in BatchText, AddToBatch(t) PROVE BufferHasRoom'
  <2>1. buffer # {} => Cardinality(buffer) # 0
    BY <1>1, FS_EmptySet
  <2>2. ~(buffer # {} /\ EstimateSize(buffer) + TextSize[t] > BatchLimit)
    <3>1. buffer # {} => Cardinality(buffer) \in 1..FlushCount - 1
      BY <1>1, <1>2, <2>1 DEF BufferHasRoom
    <3> QED
      BY <3>1 DEF TextsFit, BufferHasRoom
  <2>3. \/ buffer' = {} /\ replacing' = replacing
        \/ /\ buffer' = buffer \cup {t} /\ replacing' = replacing
           /\ ~(Cardinality(buffer) + 1 >= FlushCount)
    BY <1>4, <2>2, AddedText
  <2>4. Cardinality(buffer \cup {t}) \in {Cardinality(buffer), Cardinality(buffer) + 1}
    BY <1>1, FS_AddElement
  <2> QED
    BY <1>1, <1>2, <1>3, <2>3, <2>4 DEF BufferHasRoom
<1>5. ASSUME NEW t \in BatchText, ReplaceBuffer(t) PROVE FALSE
  BY <1>5 DEF ReplaceBuffer, BufferHasRoom
<1>6. CASE FlushAllBatches \/ RestartBatcher
  BY <1>3, <1>6 DEF FlushAllBatches, RestartBatcher, BufferHasRoom
<1>7. ASSUME UNCHANGED <<buffer, replacing>> PROVE BufferHasRoom'
  BY <1>7 DEF BufferHasRoom
<1>8. CASE ForgetContact \/ FlushTextAcks \/ LoseBatch \/ UNCHANGED batchVars
  BY <1>7, <1>8 DEF ForgetContact, FlushTextAcks, LoseBatch
<1>9. ASSUME NEW batch \in batches, FlushBatch(batch) PROVE BufferHasRoom'
  BY <1>7, <1>9 DEF FlushBatch
<1>10. ASSUME NEW t \in BatchText, RestoreFails(t) PROVE BufferHasRoom'
  BY <1>7, <1>10 DEF RestoreFails
<1>11. ASSUME NEW due \in SUBSET DOMAIN attempts, RetryTexts(due) PROVE BufferHasRoom'
  BY <1>7, <1>11 DEF RetryTexts
<1>12. ASSUME NEW packet \in bNet, ReceiveBatch(packet.texts) \/ ReceiveTextAcks(packet.texts)
       PROVE  BufferHasRoom'
  BY <1>7, <1>12 DEF ReceiveBatch, ReceiveTextAcks
<1> QED
  BY <1>4, <1>5, <1>6, <1>8, <1>9, <1>10, <1>11, <1>12 DEF BatchNext

\* As long as the texts of a buffer are small, so that FlushCount of them fit into a packet,
\* every text that is composed leaves in a batch or is forgotten with its contact or its
\* process.
THEOREM SmallTextsLeave ==
  ASSUME TextsFit
  PROVE  BatchSpec => [](Lost = {})
<1>1. BatchInit => BufferHasRoom /\ Lost = {}
  BY BatchConstants, FS_EmptySet DEF BatchInit, BufferHasRoom, Lost
<1>2. BufferHasRoom /\ Lost = {} /\ [BatchNext]_batchVars => BufferHasRoom' /\ (Lost = {})'
  <2> SUFFICES ASSUME BufferHasRoom, Lost = {}, [BatchNext]_batchVars
               PROVE  BufferHasRoom' /\ (Lost = {})'
    OBVIOUS
  <2>1. \A t \in BatchText : ~ReplaceBuffer(t)
    BY DEF BufferHasRoom, ReplaceBuffer
  <2> QED
    BY <2>1, TextsFit, RoomStays, NothingLost
<1> QED
  BY <1>1, <1>2, PTL DEF BatchSpec
-----------------------------------------------------------------------------
\* Types.

LEMMA BatchTypesInit == BatchInit => BatchTypeOK
  BY DEF BatchInit, BatchTypeOK

LEMMA BatchTypesStep == BatchTypeOK /\ [BatchNext]_batchVars => BatchTypeOK'
<1> SUFFICES ASSUME BatchTypeOK, [BatchNext]_batchVars PROVE BatchTypeOK'
  OBVIOUS
<1> USE DEF BatchTypeOK, batchVars, batching, retrying, recipient
<1>1. ASSUME NEW t \in BatchText, AddToBatch(t) PROVE BatchTypeOK'
  <2>1. /\ buffer' \subseteq BatchText /\ replacing' \subseteq BatchText
        /\ batches' \subseteq SUBSET BatchText /\ composed' \subseteq BatchText
    BY <1>1 DEF AddToBatch
  <2>2. UNCHANGED <<hasKey, sentTexts, forgotten, retrying, recipient, bNet, bEvents>>
    BY <1>1 DEF AddToBatch
  <2> QED
    BY <2>1, <2>2
<1>2. ASSUME NEW t \in BatchText, ReplaceBuffer(t) PROVE BatchTypeOK'
  BY <1>2 DEF ReplaceBuffer
<1>3. ASSUME NEW t \in BatchText, RestoreFails(t) PROVE BatchTypeOK'
  <2>1. Failed(t) \in Nat /\ (~GivesUp(t) => Failed(t) \in 0..RestoreLimit - 1)
    BY DEF Failed, GivesUp, RestoreLimit
  <2>2. DOMAIN attempts' \subseteq BatchText
        /\ \A u \in DOMAIN attempts' : attempts'[u] \in 0..RestoreLimit - 1
    <3>1. CASE GivesUp(t)
      BY <1>3, <3>1 DEF RestoreFails
    <3>2. CASE ~GivesUp(t)
      <4> HIDE DEF GivesUp, Failed
      <4> QED BY <1>3, <2>1, <3>2 DEF RestoreFails
    <3> QED
      BY <3>1, <3>2
  <2>3. restoring' \subseteq BatchText /\ UNCHANGED <<batching, confirmed, recipient, bNet, bEvents>>
    BY <1>3 DEF RestoreFails
  <2> QED
    BY <2>2, <2>3
<1>4. CASE FlushAllBatches \/ ForgetContact \/ LoseBatch
  BY <1>4 DEF FlushAllBatches, ForgetContact, LoseBatch
<1>5. CASE RestartBatcher
  BY <1>5 DEF RestartBatcher
<1>6. CASE FlushTextAcks
  BY <1>6 DEF FlushTextAcks, AckPacket
<1>7. ASSUME NEW batch \in batches, FlushBatch(batch) PROVE BatchTypeOK'
  <2>1. DOMAIN attempts' \subseteq BatchText
        /\ \A u \in DOMAIN attempts' : attempts'[u] \in 0..RestoreLimit - 1
    BY <1>7 DEF FlushBatch, RestoreLimit
  <2>2. bNet' \subseteq bNet \cup {BatchPacket(batch)}
    BY <1>7 DEF FlushBatch
  <2>3. BatchPacket(batch) \in [type : {"batch", "delivered"}, texts : SUBSET BatchText]
    BY DEF BatchPacket
  <2>4. /\ batches' \subseteq batches
        /\ sentTexts' \subseteq BatchText /\ forgotten' \subseteq BatchText
        /\ UNCHANGED <<buffer, replacing, hasKey, composed, restoring, confirmed, recipient, bEvents>>
    BY <1>7 DEF FlushBatch
  <2> QED
    BY <2>1, <2>2, <2>3, <2>4
<1>8. ASSUME NEW due \in SUBSET DOMAIN attempts, RetryTexts(due) PROVE BatchTypeOK'
  BY <1>8 DEF RetryTexts
<1>9. ASSUME NEW packet \in bNet, ReceiveBatch(packet.texts) PROVE BatchTypeOK'
  BY <1>9 DEF ReceiveBatch
<1>10. ASSUME NEW packet \in bNet, ReceiveTextAcks(packet.texts) PROVE BatchTypeOK'
  BY <1>10 DEF ReceiveTextAcks
<1>11. CASE UNCHANGED batchVars
  BY <1>11
<1> QED
  BY <1>1, <1>2, <1>3, <1>4, <1>5, <1>6, <1>7, <1>8, <1>9, <1>10, <1>11 DEF BatchNext

LEMMA RendezvousTypesInit == RendezvousInit => RendezvousTypeOK
  BY DEF RendezvousInit, RendezvousTypeOK

LEMMA RendezvousTypesStep ==
  RendezvousTypeOK /\ [RendezvousNext]_rendezvousVars => RendezvousTypeOK'
<1> SUFFICES ASSUME RendezvousTypeOK, [RendezvousNext]_rendezvousVars PROVE RendezvousTypeOK'
  OBVIOUS
<1> USE DEF RendezvousTypeOK, rendezvousVars, network, client, bootNode
<1>1. CASE StartNode \/ ConnectAtStart \/ ReserveAtStart \/ Reconnect
  BY <1>1 DEF StartNode, ConnectAtStart, ReserveAtStart, Reconnect, Link, ReserveRelaySlot
<1>2. CASE RefreshRelay
  BY <1>2 DEF RefreshRelay
<1>3. CASE RelayLoop \/ Announce \/ AnnounceLoop
  BY <1>3 DEF RelayLoop, Announce, AnnounceLoop, Link, ReserveRelaySlot, SendAnnounce
<1>4. CASE HandleAnnounce \/ HandleFind \/ CleanupStart \/ CleanupEnd
  BY <1>4 DEF HandleAnnounce, HandleFind, CleanupStart, CleanupEnd, Lookup
<1>5. CASE PingStart \/ PingEnd \/ SendParcel \/ ForwardParcel \/ ComposeParcel
  BY <1>5 DEF PingStart, PingEnd, PingFails, SendParcel, ForwardParcel, ComposeParcel, Lookup
<1>6. CASE GoOffline \/ Disconnect \/ LoseAnnounce \/ StopNode \/ RestartBootstrap
  BY <1>6 DEF GoOffline, Disconnect, LoseAnnounce, StopNode, RestartBootstrap
<1>7. CASE ThrottleEnds \/ ReservationAges \/ SlotExpires \/ EntryAges
  BY <1>7 DEF ThrottleEnds, ReservationAges, SlotExpires, EntryAges
<1>8. CASE UNCHANGED rendezvousVars
  BY <1>8
<1> QED
  BY <1>1, <1>2, <1>3, <1>4, <1>5, <1>6, <1>7, <1>8 DEF RendezvousNext
-----------------------------------------------------------------------------
\* Letters by Sphinx.

\* The layers of a packet are a sequence of at most two.
Layers == UNION {[1..k -> Layer] : k \in 0..2}

LEMMA LayersAreSequences ==
  /\ \A layers \in Layers : layers \in Seq(Layer) /\ Len(layers) \in 0..2
  /\ \A layers \in Seq(Layer) : Len(layers) \in 0..2 => layers \in Layers
<1>1. ASSUME NEW layers \in Layers PROVE layers \in Seq(Layer) /\ Len(layers) \in 0..2
  <2>1. PICK k \in 0..2 : layers \in [1..k -> Layer]
    BY DEF Layers
  <2> QED
    BY <2>1
<1>2. ASSUME NEW layers \in Seq(Layer), Len(layers) \in 0..2 PROVE layers \in Layers
  <2>1. layers \in [1..Len(layers) -> Layer]
    OBVIOUS
  <2> QED
    BY <1>2, <2>1 DEF Layers
<1> QED
  BY <1>1, <1>2

LEMMA PassedType ==
  ASSUME NEW onion \in Onion, onion.layers # <<>>
  PROVE  Passed(onion) \in Onion
<1>1. onion.layers \in Seq(Layer) /\ Len(onion.layers) \in 0..2
  BY LayersAreSequences DEF Onion, Layers
<1>2. Tail(onion.layers) \in Seq(Layer) /\ Len(Tail(onion.layers)) \in 0..2
  BY <1>1
<1>3. Tail(onion.layers) \in Layers
  BY <1>2, LayersAreSequences
<1>4. Head(onion.layers) \in Layer
  BY <1>1
<1> QED
  BY <1>3, <1>4 DEF Passed, Onion, Layer, Layers

LEMMA BuiltType ==
  ASSUME NEW l \in Letter, NEW to \in Person, NEW relays \in [1..2 -> Person]
  PROVE  BuildSphinxPacket(l, relays, to) \in Onion
<1> DEFINE layers == [i \in 1..2 |-> [key |-> relays[i], next |-> IF i < 2 THEN relays[i + 1] ELSE to]]
<1>1. layers \in [1..2 -> Layer]
  BY DEF Layer
<1>2. layers \in UNION {[1..k -> Layer] : k \in 0..2}
  BY <1>1
<1> QED
  BY <1>2 DEF BuildSphinxPacket, Onion

LEMMA SphinxTypesInit == SphinxInit => SphinxTypeOK
  BY DEF SphinxInit, SphinxTypeOK

\* A letter enters the record, with its addressee and its way.
LEMMA RecordedLetter ==
  ASSUME SphinxTypeOK, NEW l \in Letter, NEW to \in Person, NEW via \in Via, Record(l, to, via)
  PROVE  /\ DOMAIN sent' = DOMAIN sent \cup {l} /\ DOMAIN sent' \subseteq Letter
         /\ sent'[l] = [to |-> to, via |-> via]
         /\ \A k \in DOMAIN sent : k # l => sent'[k] = sent[k]
         /\ \A k \in DOMAIN sent' : sent'[k] \in [to : Person, via : Via]
  BY DEF Record, SphinxTypeOK

\* What a relay holds back has a layer left.
SleepersAreRelays == \A onion \in sleeping : onion.layers # <<>>

LEMMA SphinxTypesStep ==
  SphinxTypeOK /\ SleepersAreRelays /\ [SphinxNext]_sphinxVars => SphinxTypeOK' /\ SleepersAreRelays'
<1> SUFFICES ASSUME SphinxTypeOK, SleepersAreRelays, [SphinxNext]_sphinxVars
             PROVE  SphinxTypeOK' /\ SleepersAreRelays'
  OBVIOUS
<1> USE DEF SphinxTypeOK, sphinxVars
<1>1. ASSUME NEW l \in Letter, NEW p \in Person, SendViaSphinx(l, p) PROVE SphinxTypeOK'
  <2>1. PICK relays \in Relays(p) : onions' = onions \cup {BuildSphinxPacket(l, relays, p)}
    BY <1>1 DEF SendViaSphinx
  <2>2. relays \in [1..2 -> Person]
    BY <2>1 DEF Relays
  <2>3. onions' \subseteq Onion
    BY <2>1, <2>2, BuiltType
  <2>4. Record(l, p, "sphinx") /\ "sphinx" \in Via
    BY <1>1 DEF SendViaSphinx, Via
  <2>5. UNCHANGED <<trusted, kind, mixing, lossy, sleeping, letters, traces>>
    BY <1>1 DEF SendViaSphinx
  <2> QED
    BY <2>3, <2>4, <2>5, RecordedLetter
<1>2. ASSUME NEW l \in Letter, NEW p \in Person, FallBack(l, p) \/ SkipDummy(l, p)
      PROVE  SphinxTypeOK'
  <2>1. /\ \E via \in Via : Record(l, p, via)
        /\ UNCHANGED <<trusted, kind, mixing, lossy, onions, sleeping, letters, traces>>
    BY <1>2 DEF FallBack, SkipDummy, Via
  <2> QED
    BY <2>1, RecordedLetter
<1>3. ASSUME NEW onion \in onions \cup sleeping, RelayOnion(onion) PROVE SphinxTypeOK'
  <2>1. onion \in Onion /\ onion.layers # <<>>
    BY <1>3 DEF RelayOnion, IsRelayOf
  <2>2. Passed(onion) \in Onion
    BY <2>1, PassedType
  <2>3. Head(onion.layers) \in Layer
    BY <2>1, LayersAreSequences DEF Onion, Layers
  <2>4. onions' \subseteq Onion /\ sleeping' \subseteq Onion
    BY <1>3, <2>1, <2>2 DEF RelayOnion
  <2>5. Trace(onion.letter, onion.at, onion.from, Head(onion.layers).next)
            \subseteq [letter : Letter, node : Person, end : {"from", "to"}, peer : Person \cup {Sender}]
    BY <2>1, <2>3 DEF Trace, Onion, Layer
  <2>6. traces' = traces \cup Trace(onion.letter, onion.at, onion.from, Head(onion.layers).next)
        /\ UNCHANGED <<trusted, kind, mixing, lossy, sent, letters>>
    BY <1>3 DEF RelayOnion
  <2> QED
    BY <2>4, <2>5, <2>6
<1>4. ASSUME NEW onion \in onions \cup sleeping, WakeUp(onion) PROVE SphinxTypeOK'
  <2>1. Passed(onion) \in Onion
    BY <1>4, PassedType DEF WakeUp, SleepersAreRelays
  <2> QED
    BY <1>4, <2>1 DEF WakeUp
<1>5. ASSUME NEW onion \in onions \cup sleeping, DropOnion(onion) PROVE SphinxTypeOK'
  BY <1>5 DEF DropOnion
<1>6. ASSUME NEW onion \in onions \cup sleeping, ReceiveOnion(onion) PROVE SphinxTypeOK'
  <2>1. onion.letter \in Letter /\ onion.at \in Person
    BY DEF Onion
  <2>2. letters' \in [Person -> SUBSET Letter]
    BY <1>6, <2>1 DEF ReceiveOnion
  <2> QED
    BY <1>6, <2>2 DEF ReceiveOnion
<1>7. ASSUME TrustChanges \/ UNCHANGED sphinxVars PROVE SphinxTypeOK'
  BY <1>7 DEF TrustChanges
<1>8. SleepersAreRelays'
  <2>1. ASSUME NEW onion \in onions \cup sleeping, RelayOnion(onion)
        PROVE  sleeping' \subseteq sleeping \cup {onion} /\ onion.layers # <<>>
    BY <2>1 DEF RelayOnion, IsRelayOf
  <2>2. ASSUME NEW onion \in onions \cup sleeping,
               WakeUp(onion) \/ DropOnion(onion) \/ ReceiveOnion(onion)
        PROVE  sleeping' \subseteq sleeping
    BY <2>2 DEF WakeUp, DropOnion, ReceiveOnion
  <2>3. ASSUME NEW l \in Letter, NEW p \in Person,
               SendViaSphinx(l, p) \/ FallBack(l, p) \/ SkipDummy(l, p)
        PROVE  sleeping' \subseteq sleeping
    BY <2>3 DEF SendViaSphinx, FallBack, SkipDummy
  <2>4. ASSUME TrustChanges \/ UNCHANGED sphinxVars PROVE sleeping' = sleeping
    BY <2>4 DEF TrustChanges
  <2> QED
    BY <2>1, <2>2, <2>3, <2>4 DEF SphinxNext, SleepersAreRelays
<1> QED
  BY <1>1, <1>2, <1>3, <1>4, <1>5, <1>6, <1>7, <1>8 DEF SphinxNext
-----------------------------------------------------------------------------
\* The way of a letter.

\* Where an onion of a letter can be, when the letter goes by way of r1 and r2 to its
\* recipient: on its way to the first relay, ...
ToFirst(onion, r1, r2, to) ==
    /\ onion.from = Sender /\ onion.at = r1 /\ onion.core = to
    /\ onion.layers = <<[key |-> r1, next |-> r2], [key |-> r2, next |-> to]>>

\* ... to the second, ...
ToSecond(onion, r1, r2, to) ==
    /\ onion.from = r1 /\ onion.at = r2 /\ onion.core = to
    /\ onion.layers = <<[key |-> r2, next |-> to]>>

\* ... or to the recipient.
ToRecipient(onion, r2, to) ==
    onion.from = r2 /\ onion.at = to /\ onion.core = to /\ onion.layers = <<>>

AtRelay(onion, r1, r2, to) == ToFirst(onion, r1, r2, to) \/ ToSecond(onion, r1, r2, to)
OnWay(onion, r1, r2, to)   == AtRelay(onion, r1, r2, to) \/ ToRecipient(onion, r2, to)

\* The two relays of a letter differ from each other and from its recipient, ...
RouteOf(l, r1, r2) == r1 # r2 /\ r1 # sent[l].to /\ r2 # sent[l].to

\* ... and all that is seen of it is its way through the two.
Follows(l, r1, r2) ==
    /\ \A onion \in onions : onion.letter = l => OnWay(onion, r1, r2, sent[l].to)
    /\ \A onion \in sleeping : onion.letter = l => AtRelay(onion, r1, r2, sent[l].to)
    /\ \A t \in traces : t.letter = l =>
            t \in Trace(l, r1, Sender, r2) \cup Trace(l, r2, r1, sent[l].to)

Routed(l) == \E r1, r2 \in Person : RouteOf(l, r1, r2) /\ Follows(l, r1, r2)

Unseen(l) == \A x \in onions \cup sleeping \cup traces : x.letter # l

SentBySphinx(l) == l \in DOMAIN sent /\ sent[l].via = "sphinx"

Routes == \A l \in Letter : IF SentBySphinx(l) THEN Routed(l) ELSE Unseen(l)

\* A letter is with nobody but its recipient, when it is a message that went by Sphinx; a
\* dummy is with nobody.
LettersAreDue ==
    \A p \in Person : \A l \in letters[p] :
        SentBySphinx(l) /\ sent[l].to = p /\ kind[l] = "message"

\* The packet of a letter starts at the first relay.
LEMMA BuiltWay ==
  ASSUME NEW l, NEW to, NEW relays \in [1..2 -> Person]
  PROVE  /\ ToFirst(BuildSphinxPacket(l, relays, to), relays[1], relays[2], to)
         /\ BuildSphinxPacket(l, relays, to).letter = l
<1> DEFINE layers == [i \in 1..2 |-> [key |-> relays[i], next |-> IF i < 2 THEN relays[i + 1] ELSE to]]
<1>1. layers = <<[key |-> relays[1], next |-> relays[2]], [key |-> relays[2], next |-> to]>>
  OBVIOUS
<1> QED
  BY <1>1 DEF ToFirst, BuildSphinxPacket

\* A relay on the way takes an onion one step further.
LEMMA PassedWay ==
  ASSUME NEW r1, NEW r2, NEW to, NEW onion \in Onion, AtRelay(onion, r1, r2, to)
  PROVE  /\ OnWay(Passed(onion), r1, r2, to) /\ Passed(onion).letter = onion.letter
         /\ Trace(onion.letter, onion.at, onion.from, Head(onion.layers).next)
                \subseteq Trace(onion.letter, r1, Sender, r2) \cup Trace(onion.letter, r2, r1, to)
         /\ IsRelayOf(onion)
<1> DEFINE first == [key |-> r1, next |-> r2]
           second == [key |-> r2, next |-> to]
<1>0. ASSUME NEW next, NEW rest, Head(onion.layers).next = next, Tail(onion.layers) = rest
      PROVE  /\ Passed(onion).from = onion.at /\ Passed(onion).at = next
             /\ Passed(onion).layers = rest
             /\ Passed(onion).core = onion.core /\ Passed(onion).letter = onion.letter
  <2>1. onion = [letter |-> onion.letter, from |-> onion.from, at |-> onion.at,
                 layers |-> onion.layers, core |-> onion.core]
    BY DEF Onion
  <2> QED
    BY <1>0, <2>1 DEF Passed
<1>1. CASE ToFirst(onion, r1, r2, to)
  <2>1. Head(<<first, second>>) = first /\ Tail(<<first, second>>) = <<second>> /\ <<first, second>> # <<>>
    OBVIOUS
  <2>2. /\ Head(onion.layers) = first /\ Tail(onion.layers) = <<second>> /\ onion.layers # <<>>
        /\ onion.at = r1 /\ onion.from = Sender /\ onion.core = to
    BY <1>1, <2>1 DEF ToFirst
  <2>3. OnWay(Passed(onion), r1, r2, to) /\ Passed(onion).letter = onion.letter
    <3>1. first.next = r2
      OBVIOUS
    <3> HIDE DEF first
    <3> QED
      BY <1>0, <2>2, <3>1 DEF OnWay, AtRelay, ToSecond
  <2>4. IsRelayOf(onion)
    BY <2>2 DEF IsRelayOf
  <2>5. Trace(onion.letter, onion.at, onion.from, Head(onion.layers).next)
            \subseteq Trace(onion.letter, r1, Sender, r2) \cup Trace(onion.letter, r2, r1, to)
    BY <2>2
  <2> QED
    BY <2>3, <2>4, <2>5
<1>2. CASE ToSecond(onion, r1, r2, to)
  <2>1. Head(<<second>>) = second /\ Tail(<<second>>) = <<>> /\ <<second>> # <<>>
    OBVIOUS
  <2>2. /\ Head(onion.layers) = second /\ Tail(onion.layers) = <<>> /\ onion.layers # <<>>
        /\ onion.at = r2 /\ onion.from = r1 /\ onion.core = to
    BY <1>2, <2>1 DEF ToSecond
  <2>3. OnWay(Passed(onion), r1, r2, to) /\ Passed(onion).letter = onion.letter
    <3>1. second.next = to
      OBVIOUS
    <3> HIDE DEF second
    <3> QED
      BY <1>0, <2>2, <3>1 DEF OnWay, ToRecipient
  <2>4. IsRelayOf(onion)
    BY <2>2 DEF IsRelayOf
  <2>5. Trace(onion.letter, onion.at, onion.from, Head(onion.layers).next)
            \subseteq Trace(onion.letter, r1, Sender, r2) \cup Trace(onion.letter, r2, r1, to)
    BY <2>2
  <2> QED
    BY <2>3, <2>4, <2>5
<1> QED
  BY <1>1, <1>2 DEF AtRelay

\* What is seen of a letter changes only with its own onions.
LEMMA Elsewhere ==
  ASSUME NEW l, sent' = sent,
         \A onion \in onions' : onion.letter = l => onion \in onions,
         \A onion \in sleeping' : onion.letter = l => onion \in sleeping,
         \A t \in traces' : t.letter = l => t \in traces
  PROVE  /\ SentBySphinx(l)' <=> SentBySphinx(l)
         /\ Unseen(l) => Unseen(l)'
         /\ Routed(l) => Routed(l)'
<1>1. ASSUME NEW r1 \in Person, NEW r2 \in Person, Follows(l, r1, r2) PROVE Follows(l, r1, r2)'
  BY <1>1 DEF Follows, OnWay, AtRelay, ToFirst, ToSecond, ToRecipient
<1>2. ASSUME NEW r1, NEW r2, RouteOf(l, r1, r2) PROVE RouteOf(l, r1, r2)'
  BY <1>2 DEF RouteOf
<1>3. Routed(l) => Routed(l)'
  BY <1>1, <1>2 DEF Routed
<1> QED
  BY <1>3 DEF SentBySphinx, Unseen

LEMMA RoutesInit == SphinxInit => Routes /\ LettersAreDue
  BY DEF SphinxInit, Routes, LettersAreDue, SentBySphinx, Unseen

\* A new letter goes its way, by two relays that differ and are not its recipient.
LEMMA RouteStarts ==
  ASSUME SphinxTypeOK, Routes, NEW l \in Letter, NEW p \in Person, SendViaSphinx(l, p)
  PROVE  Routed(l)' /\ SentBySphinx(l)'
<1>1. PICK relays \in Relays(p) : onions' = onions \cup {BuildSphinxPacket(l, relays, p)}
  BY DEF SendViaSphinx
<1>2. /\ relays \in [1..2 -> Person] /\ relays[1] \in Person /\ relays[2] \in Person
      /\ relays[1] # relays[2] /\ relays[1] # p /\ relays[2] # p
  BY DEF Relays, SphinxTypeOK
<1>3. Unseen(l) /\ UNCHANGED <<sleeping, traces>>
  BY DEF Routes, SentBySphinx, SendViaSphinx
<1>4. sent'[l] = [to |-> p, via |-> "sphinx"] /\ l \in DOMAIN sent'
  <2>1. Record(l, p, "sphinx") /\ "sphinx" \in Via
    BY DEF SendViaSphinx, Via
  <2> QED
    BY <2>1, RecordedLetter
<1>5. ToFirst(BuildSphinxPacket(l, relays, p), relays[1], relays[2], p)
  BY <1>2, BuiltWay
<1>6. ASSUME NEW onion \in onions', onion.letter = l
      PROVE  OnWay(onion, relays[1], relays[2], p)
  <2>1. onion = BuildSphinxPacket(l, relays, p)
    BY <1>1, <1>3, <1>6 DEF Unseen
  <2> QED
    BY <1>5, <2>1 DEF OnWay, AtRelay
<1>7. ASSUME NEW x \in sleeping' \cup traces' PROVE x.letter # l
  BY <1>3, <1>7 DEF Unseen
<1>8. sent'[l].to = p
  BY <1>4
<1>9. Follows(l, relays[1], relays[2])'
  BY <1>6, <1>7, <1>8 DEF Follows
<1>10. RouteOf(l, relays[1], relays[2])'
  BY <1>2, <1>8 DEF RouteOf
<1> QED
  BY <1>2, <1>4, <1>9, <1>10 DEF Routed, SentBySphinx

\* Whatever else happens to a letter, it keeps to its way.
LEMMA RouteStays ==
  ASSUME SphinxTypeOK, Routes, NEW l \in Letter, [SphinxNext]_sphinxVars,
         SentBySphinx(l)
  PROVE  Routed(l)' /\ SentBySphinx(l)' /\ sent'[l] = sent[l]
<1> USE DEF sphinxVars
<1>0. Routed(l) /\ l \in DOMAIN sent
  BY DEF Routes, SentBySphinx
<1>1. ASSUME NEW k \in Letter, NEW p \in Person, SendViaSphinx(k, p) \/ FallBack(k, p) \/ SkipDummy(k, p)
      PROVE  Routed(l)' /\ SentBySphinx(l)' /\ sent'[l] = sent[l]
  <2>1. /\ k # l /\ \E via \in Via : Record(k, p, via)
        /\ UNCHANGED <<sleeping, traces>>
    BY <1>0, <1>1 DEF SendViaSphinx, FallBack, SkipDummy, Via
  <2>2. sent'[l] = sent[l] /\ l \in DOMAIN sent'
    BY <1>0, <2>1, RecordedLetter
  <2>3. ASSUME NEW onion \in onions', onion.letter = l PROVE onion \in onions
    <3>1. CASE SendViaSphinx(k, p)
      <4>1. PICK relays \in Relays(p) : onions' = onions \cup {BuildSphinxPacket(k, relays, p)}
        BY <3>1 DEF SendViaSphinx
      <4>2. BuildSphinxPacket(k, relays, p).letter = k
        BY DEF BuildSphinxPacket
      <4> QED
        BY <2>1, <2>3, <4>1, <4>2
    <3>2. CASE FallBack(k, p) \/ SkipDummy(k, p)
      BY <2>3, <3>2 DEF FallBack, SkipDummy
    <3> QED
      BY <1>1, <3>1, <3>2
  <2>4. ASSUME NEW r1 \in Person, NEW r2 \in Person, RouteOf(l, r1, r2), Follows(l, r1, r2)
        PROVE  RouteOf(l, r1, r2)' /\ Follows(l, r1, r2)'
    BY <2>1, <2>2, <2>3, <2>4 DEF RouteOf, Follows
  <2> QED
    BY <1>0, <2>2, <2>4 DEF Routed, SentBySphinx
<1>2. ASSUME NEW onion \in onions \cup sleeping, RelayOnion(onion) \/ WakeUp(onion), onion.letter = l
      PROVE  Routed(l)' /\ SentBySphinx(l)' /\ sent'[l] = sent[l]
  <2>1. PICK r1 \in Person, r2 \in Person : RouteOf(l, r1, r2) /\ Follows(l, r1, r2)
    BY <1>0 DEF Routed
  <2>2. sent' = sent
    BY <1>2 DEF RelayOnion, WakeUp
  <2>3. AtRelay(onion, r1, r2, sent[l].to)
    <3>1. CASE RelayOnion(onion)
      BY <1>2, <2>1, <3>1 DEF RelayOnion, IsRelayOf, Follows, OnWay, ToRecipient
    <3>2. CASE WakeUp(onion)
      BY <1>2, <2>1, <3>2 DEF WakeUp, Follows
    <3> QED
      BY <1>2, <3>1, <3>2
  <2>4. onion \in Onion
    BY DEF SphinxTypeOK
  <2>5. OnWay(Passed(onion), r1, r2, sent[l].to)
        /\ Trace(onion.letter, onion.at, onion.from, Head(onion.layers).next)
                \subseteq Trace(l, r1, Sender, r2) \cup Trace(l, r2, r1, sent[l].to)
    BY <1>2, <2>3, <2>4, PassedWay
  <2>6. /\ onions' \subseteq onions \cup {Passed(onion)} /\ sleeping' \subseteq sleeping \cup {onion}
        /\ traces' \subseteq traces \cup Trace(onion.letter, onion.at, onion.from, Head(onion.layers).next)
    BY <1>2 DEF RelayOnion, WakeUp
  <2>7. Follows(l, r1, r2)'
    <3> HIDE DEF sphinxVars
    <3> QED BY <2>1, <2>2, <2>3, <2>5, <2>6 DEF Follows
  <2>8. RouteOf(l, r1, r2)'
    BY <2>1, <2>2 DEF RouteOf
  <2> QED
    BY <1>0, <2>2, <2>7, <2>8 DEF Routed, SentBySphinx
<1>3. ASSUME NEW onion \in onions \cup sleeping, RelayOnion(onion) \/ WakeUp(onion), onion.letter # l
      PROVE  Routed(l)' /\ SentBySphinx(l)' /\ sent'[l] = sent[l]
  <2>1. Passed(onion).letter = onion.letter
    BY DEF Passed, SphinxTypeOK, Onion
  <2>2. \A t \in Trace(onion.letter, onion.at, onion.from, Head(onion.layers).next) : t.letter # l
    BY <1>3 DEF Trace
  <2>3. /\ onions' \subseteq onions \cup {Passed(onion)} /\ sleeping' \subseteq sleeping \cup {onion}
        /\ traces' \subseteq traces \cup Trace(onion.letter, onion.at, onion.from, Head(onion.layers).next)
        /\ sent' = sent
    BY <1>3 DEF RelayOnion, WakeUp
  <2>4. /\ \A o \in onions' : o.letter = l => o \in onions
        /\ \A o \in sleeping' : o.letter = l => o \in sleeping
        /\ \A t \in traces' : t.letter = l => t \in traces
    BY <1>3, <2>1, <2>2, <2>3
  <2> QED
    BY <1>0, <2>3, <2>4, Elsewhere
<1>4. ASSUME \/ \E onion \in onions \cup sleeping : DropOnion(onion) \/ ReceiveOnion(onion)
             \/ TrustChanges \/ UNCHANGED sphinxVars
      PROVE  Routed(l)' /\ SentBySphinx(l)' /\ sent'[l] = sent[l]
  <2>1. onions' \subseteq onions /\ sleeping' \subseteq sleeping /\ traces' = traces /\ sent' = sent
    BY <1>4 DEF DropOnion, ReceiveOnion, TrustChanges
  <2> QED
    BY <1>0, <2>1, Elsewhere
<1> QED
  BY <1>1, <1>2, <1>3, <1>4 DEF SphinxNext

\* A letter that does not go by Sphinx is in no onion.
LEMMA UnseenStays ==
  ASSUME SphinxTypeOK, Routes, NEW l \in Letter, [SphinxNext]_sphinxVars,
         ~SentBySphinx(l), ~SentBySphinx(l)'
  PROVE  Unseen(l)'
<1> USE DEF sphinxVars
<1>0. Unseen(l)
  BY DEF Routes
<1>1. ASSUME NEW k \in Letter, NEW p \in Person, SendViaSphinx(k, p) PROVE Unseen(l)'
  <2>1. Record(k, p, "sphinx") /\ "sphinx" \in Via
    BY <1>1 DEF SendViaSphinx, Via
  <2>2. k \in DOMAIN sent' /\ sent'[k] = [to |-> p, via |-> "sphinx"]
    BY <2>1, RecordedLetter
  <2>3. PICK relays \in Relays(p) : onions' = onions \cup {BuildSphinxPacket(k, relays, p)}
    BY <1>1 DEF SendViaSphinx
  <2>4. BuildSphinxPacket(k, relays, p).letter = k /\ UNCHANGED <<sleeping, traces>>
    BY <1>1 DEF BuildSphinxPacket, SendViaSphinx
  <2> QED
    BY <1>0, <2>2, <2>3, <2>4 DEF Unseen, SentBySphinx
<1>2. ASSUME NEW k \in Letter, NEW p \in Person, FallBack(k, p) \/ SkipDummy(k, p) PROVE Unseen(l)'
  BY <1>0, <1>2 DEF FallBack, SkipDummy, Unseen
<1>3. ASSUME NEW onion \in onions \cup sleeping, RelayOnion(onion) \/ WakeUp(onion)
      PROVE  Unseen(l)'
  <2>1. onion.letter # l /\ Passed(onion).letter = onion.letter
    BY <1>0 DEF Unseen, Passed, SphinxTypeOK, Onion
  <2>2. \A t \in Trace(onion.letter, onion.at, onion.from, Head(onion.layers).next) : t.letter # l
    BY <2>1 DEF Trace
  <2>3. /\ onions' \subseteq onions \cup {Passed(onion)} /\ sleeping' \subseteq sleeping \cup {onion}
        /\ traces' \subseteq traces \cup Trace(onion.letter, onion.at, onion.from, Head(onion.layers).next)
    BY <1>3 DEF RelayOnion, WakeUp
  <2> QED
    BY <1>0, <2>1, <2>2, <2>3 DEF Unseen
<1>4. ASSUME \/ \E onion \in onions \cup sleeping : DropOnion(onion) \/ ReceiveOnion(onion)
             \/ TrustChanges \/ UNCHANGED sphinxVars
      PROVE  Unseen(l)'
  <2>1. onions' \subseteq onions /\ sleeping' \subseteq sleeping /\ traces' = traces
    BY <1>4 DEF DropOnion, ReceiveOnion, TrustChanges
  <2> QED
    BY <1>0, <2>1 DEF Unseen
<1> QED
  BY <1>1, <1>2, <1>3, <1>4 DEF SphinxNext

LEMMA RoutesStep ==
  SphinxTypeOK /\ Routes /\ LettersAreDue /\ [SphinxNext]_sphinxVars => Routes' /\ LettersAreDue'
<1> SUFFICES ASSUME SphinxTypeOK, Routes, LettersAreDue, [SphinxNext]_sphinxVars
             PROVE  Routes' /\ LettersAreDue'
  OBVIOUS
<1> USE DEF sphinxVars
<1>1. ASSUME NEW l \in Letter, SentBySphinx(l)', ~SentBySphinx(l) PROVE Routed(l)'
  <2>1. PICK p \in Person : SendViaSphinx(l, p)
    <3>1. ASSUME NEW k \in Letter, NEW p \in Person, SendViaSphinx(k, p), k # l PROVE FALSE
      <4>1. Record(k, p, "sphinx") /\ "sphinx" \in Via
        BY <3>1 DEF SendViaSphinx, Via
      <4>2. /\ DOMAIN sent' = DOMAIN sent \cup {k}
            /\ \A j \in DOMAIN sent : j # k => sent'[j] = sent[j]
        BY <4>1, RecordedLetter
      <4> QED
        BY <1>1, <3>1, <4>2 DEF SentBySphinx
    <3>2. ASSUME NEW k \in Letter, NEW p \in Person, NEW via \in Via, Record(k, p, via), via # "sphinx"
          PROVE  FALSE
      <4>1. /\ DOMAIN sent' = DOMAIN sent \cup {k} /\ sent'[k] = [to |-> p, via |-> via]
            /\ \A j \in DOMAIN sent : j # k => sent'[j] = sent[j]
        BY <3>2, RecordedLetter
      <4> QED
        BY <1>1, <3>2, <4>1 DEF SentBySphinx
    <3>3. ASSUME sent' = sent PROVE FALSE
      BY <1>1, <3>3 DEF SentBySphinx
    <3>4. ASSUME NEW k \in Letter, NEW p \in Person, FallBack(k, p) \/ SkipDummy(k, p) PROVE FALSE
      BY <3>2, <3>4 DEF FallBack, SkipDummy, Via
    <3>5. ASSUME NEW onion \in onions \cup sleeping,
                 RelayOnion(onion) \/ WakeUp(onion) \/ DropOnion(onion) \/ ReceiveOnion(onion)
          PROVE  FALSE
      BY <3>3, <3>5 DEF RelayOnion, WakeUp, DropOnion, ReceiveOnion
    <3>6. ASSUME TrustChanges \/ UNCHANGED sphinxVars PROVE FALSE
      BY <3>3, <3>6 DEF TrustChanges
    <3> QED
      BY <3>1, <3>4, <3>5, <3>6 DEF SphinxNext
  <2> QED
    BY <2>1, RouteStarts
<1>2. Routes'
  <2>1. ASSUME NEW l \in Letter
        PROVE  IF SentBySphinx(l)' THEN Routed(l)' ELSE Unseen(l)'
    BY <1>1, RouteStays, UnseenStays
  <2> QED
    BY <2>1 DEF Routes
<1>3. kind' = kind
  BY DEF SphinxNext, SendViaSphinx, FallBack, SkipDummy, RelayOnion, WakeUp, DropOnion,
         ReceiveOnion, TrustChanges
<1>4. ASSUME NEW p \in Person, NEW l \in letters'[p]
      PROVE  (SentBySphinx(l) /\ sent[l].to = p /\ kind[l] = "message") /\ l \in Letter
  <2>1. CASE l \in letters[p]
    BY <2>1 DEF LettersAreDue, SphinxTypeOK
  <2>2. CASE l \notin letters[p]
    <3>1. PICK onion \in onions : ReceiveOnion(onion) /\ letters' # letters
      <4>1. ASSUME letters' = letters PROVE FALSE
        BY <1>4, <2>2, <4>1
      <4>2. ASSUME NEW k \in Letter, NEW q \in Person, SendViaSphinx(k, q) \/ FallBack(k, q) \/ SkipDummy(k, q)
            PROVE  FALSE
        BY <4>1, <4>2 DEF SendViaSphinx, FallBack, SkipDummy
      <4>3. ASSUME NEW onion \in onions \cup sleeping, RelayOnion(onion) \/ WakeUp(onion) \/ DropOnion(onion)
            PROVE  FALSE
        BY <4>1, <4>3 DEF RelayOnion, WakeUp, DropOnion
      <4>4. ASSUME TrustChanges \/ UNCHANGED sphinxVars PROVE FALSE
        BY <4>1, <4>4 DEF TrustChanges
      <4>5. ASSUME NEW onion, ReceiveOnion(onion) PROVE onion \in onions
        BY <4>5 DEF ReceiveOnion
      <4> QED
        BY <4>1, <4>2, <4>3, <4>4, <4>5 DEF SphinxNext
    <3>2. /\ onion.layers = <<>> /\ onion.core = onion.at /\ kind[onion.letter] = "message"
          /\ letters' = [letters EXCEPT ![onion.at] = @ \cup {onion.letter}]
      BY <3>1 DEF ReceiveOnion
    <3>3. l = onion.letter /\ p = onion.at /\ l \in Letter
      BY <1>4, <2>2, <3>2 DEF SphinxTypeOK, Onion
    <3>4. SentBySphinx(l) /\ Routed(l)
      BY <3>3 DEF Routes, Unseen
    <3>5. PICK r1 \in Person, r2 \in Person : OnWay(onion, r1, r2, sent[l].to)
      BY <3>3, <3>4 DEF Routed, Follows
    <3>6. onion.core = sent[l].to
      BY <3>5 DEF OnWay, AtRelay, ToFirst, ToSecond, ToRecipient
    <3> QED
      BY <3>2, <3>3, <3>4, <3>6
  <2> QED
    BY <2>1, <2>2
<1>5. LettersAreDue'
  <2>1. ASSUME NEW l \in Letter, SentBySphinx(l) PROVE SentBySphinx(l)' /\ sent'[l] = sent[l]
    BY <2>1, RouteStays
  <2> QED
    BY <1>3, <1>4, <2>1 DEF LettersAreDue
<1> QED
  BY <1>2, <1>5

\* On such ways no relay links the ends.
LEMMA RoutesUnlinked == SphinxTypeOK /\ Routes => RelaysUnlinked
<1> SUFFICES ASSUME SphinxTypeOK, Routes, NEW s \in traces, NEW t \in traces,
                    s.letter = t.letter, s.node = t.node,
                    s.end = "from", s.peer = Sender, t.end = "to", t.peer = sent[t.letter].to
             PROVE  FALSE
  BY DEF RelaysUnlinked
<1>1. t.letter \in Letter /\ Routed(t.letter)
  BY DEF SphinxTypeOK, Routes, Unseen
<1> DEFINE l == t.letter
<1>2. PICK r1 \in Person, r2 \in Person : RouteOf(l, r1, r2) /\ Follows(l, r1, r2)
  BY <1>1 DEF Routed
<1>3. /\ s \in Trace(l, r1, Sender, r2) \cup Trace(l, r2, r1, sent[l].to)
      /\ t \in Trace(l, r1, Sender, r2) \cup Trace(l, r2, r1, sent[l].to)
  BY <1>2 DEF Follows
<1>4. s.node = r1
  BY <1>3, SphinxConstants DEF Trace
<1>5. t.node = r2
  BY <1>2, <1>3 DEF Trace, RouteOf
<1> QED
  BY <1>2, <1>4, <1>5 DEF RouteOf

SphinxInv == SphinxTypeOK /\ SleepersAreRelays /\ Routes /\ LettersAreDue

LEMMA SphinxInvInit == SphinxInit => SphinxInv
  BY SphinxTypesInit, RoutesInit DEF SphinxInv, SphinxInit, SleepersAreRelays

LEMMA SphinxInvStep == SphinxInv /\ [SphinxNext]_sphinxVars => SphinxInv'
  BY SphinxTypesStep, RoutesStep DEF SphinxInv

\* However trust changes while letters are on their way: of the two relays of a letter, the
\* one that had it from the sender did not hand it to the recipient.
THEOREM RelaysStayApart == SphinxSpec => []RelaysUnlinked
<1>1. SphinxInv => RelaysUnlinked
  BY RoutesUnlinked DEF SphinxInv
<1> QED
  BY <1>1, SphinxInvInit, SphinxInvStep, PTL DEF SphinxSpec

\* A letter that somebody received is a message, was sent by Sphinx, and was for that person:
\* no relay that opens a layer takes what is inside it for its own, and no dummy is a message
\* to anybody.
THEOREM LettersGoWhereDue == SphinxSpec => []LettersAreDue
<1>1. SphinxInv => LettersAreDue
  BY DEF SphinxInv
<1> QED
  BY <1>1, SphinxInvInit, SphinxInvStep, PTL DEF SphinxSpec
-----------------------------------------------------------------------------
\* The three together.

\* What holds of each of the three holds of a node that runs them: their types, that no
\* text leaves twice, and that no relay links the ends of a letter.
THEOREM TransportTypes == TransportSpec => [](TransportTypeOK /\ BatchedOnce /\ RelaysUnlinked)
<1> DEFINE Inv == BatchTypeOK /\ OnePlace /\ RendezvousTypeOK /\ SphinxInv
<1>1. TransportInit => Inv
  BY BatchTypesInit, NowhereAtFirst, RendezvousTypesInit, SphinxInvInit DEF TransportInit
<1>2. Inv /\ [TransportNext]_transportVars => Inv'
  <2> SUFFICES ASSUME Inv, [TransportNext]_transportVars PROVE Inv'
    OBVIOUS
  <2>1. [BatchNext]_batchVars /\ [RendezvousNext]_rendezvousVars /\ [SphinxNext]_sphinxVars
    BY DEF TransportNext, transportVars
  <2> QED
    BY <2>1, BatchTypesStep, OnePlaceStays, RendezvousTypesStep, SphinxInvStep
<1>3. Inv => TransportTypeOK /\ BatchedOnce /\ RelaysUnlinked
  BY SentAreApart, RoutesUnlinked DEF TransportTypeOK, SphinxInv
<1> QED
  BY <1>1, <1>2, <1>3, PTL DEF TransportSpec
=============================================================================
