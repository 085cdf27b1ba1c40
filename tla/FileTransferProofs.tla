------------------------ MODULE FileTransferProofs ------------------------
(***************************************************************************)
(* Proofs about FileTransfer, for every set of files, number of chunks, of *)
(* workers and of retries, and every capacity of the queue.                *)
(***************************************************************************)
EXTENDS FileTransfer, FiniteSetTheorems, TLAPS
-----------------------------------------------------------------------------
\* Facts about the data structures.

LEMMA ChunkMapType ==
    ASSUME NEW V, NEW f
    PROVE  f \in ChunkMap(V) <=> DOMAIN f \subseteq Chunk /\ f \in [DOMAIN f -> V]
  BY DEF ChunkMap

LEMMA NoEntryType == ASSUME NEW V PROVE NoEntry \in ChunkMap(V)
  BY ChunkMapType DEF NoEntry

LEMMA WithType ==
    ASSUME NEW V, NEW f \in ChunkMap(V), NEW c \in Chunk, NEW v \in V
    PROVE  With(f, c, v) \in ChunkMap(V)
  <1>1. DOMAIN f \subseteq Chunk /\ f \in [DOMAIN f -> V]
    BY ChunkMapType
  <1>2. With(f, c, v) \in [DOMAIN f \cup {c} -> V]
    BY <1>1 DEF With
  <1>3. QED
    BY <1>1, <1>2 DEF ChunkMap

LEMMA WithoutType ==
    ASSUME NEW V, NEW f \in ChunkMap(V), NEW S
    PROVE  Without(f, S) \in ChunkMap(V)
  <1>1. DOMAIN f \subseteq Chunk /\ f \in [DOMAIN f -> V]
    BY ChunkMapType
  <1>2. Without(f, S) \in [(DOMAIN f) \ S -> V]
    BY <1>1 DEF Without, Restrict
  <1>3. QED
    BY <1>1, <1>2 DEF ChunkMap

LEMMA WithoutValue ==
    ASSUME NEW f, NEW S
    PROVE  /\ DOMAIN Without(f, S) = (DOMAIN f) \ S
           /\ \A y \in (DOMAIN f) \ S : Without(f, S)[y] = f[y]
  BY DEF Without, Restrict

LEMMA JobFacts ==
    /\ \A j \in Job : j.media \in Media
    /\ \A j \in Job, i \in Index : ChunkOf(j, i) \in Chunk
    /\ \A c \in Chunk : c.media \in Media /\ c.index \in Index
  BY DEF Job, ChunkOf, Chunk

LEMMA ChunkFinite == IsFiniteSet(Chunk)
  <1>1. IsFiniteSet(Run) /\ IsFiniteSet(Index)
    BY FS_Interval, FileConstants DEF Run, Index
  <1>2. IsFiniteSet((Media \X Run) \X Index)
    BY <1>1, FS_Product, FileConstants
  <1> DEFINE place == [c \in Chunk |-> <<<<c.media, c.run>>, c.index>>]
  <1>3. place \in Injection(Chunk, (Media \X Run) \X Index)
    BY DEF Injection, IsInjective, Chunk
  <1>4. QED
    BY <1>2, <1>3, FS_Injection

LEMMA CountType ==
    ASSUME NEW S \in SUBSET Chunk
    PROVE  Cardinality(S) \in Nat
  BY ChunkFinite, FS_Subset, FS_CardinalityType

-----------------------------------------------------------------------------
\* Type correctness.  Two facts strengthen it: a run that has a chunk in hand is
\* inside its loop, and an entry in the batch of a retry scan still has an attempt
\* left, which only its one item of the batch will use.

InLoop == \A j \in Job : pc[j] \in {"push", "add"} => next[j] < Total

BatchOpen ==
    /\ \A item \in retryBatch :
          item.chunk \in DOMAIN unacked => unacked[item.chunk].attempts < RetryLimit
    /\ \A i, j \in retryBatch : i.chunk = j.chunk => i = j

NetType == net \subseteq Message
TurnInv == TurnType /\ InLoop
RetryInv == RetryType /\ BatchOpen

TypeInv ==
    /\ NetType
    /\ DiskType /\ UserType /\ TurnInv /\ PipelineType /\ RetryInv /\ StoreType
    /\ SenderHistoryType
    /\ StreamType /\ ChunkStateType /\ AppType /\ AbortType /\ ReceiverHistoryType

LEMMA TypeInit == Init => TypeInv
  <1> SUFFICES ASSUME Init PROVE TypeInv
    OBVIOUS
  <1>1. NoEntry \in ChunkMap(RetryInfo) /\ NoEntry \in ChunkMap({"sent", "delivered"})
    BY NoEntryType
  <1>2. DiskType /\ UserType /\ SenderHistoryType
    BY DEF Init, SenderInit, DiskType, UserType, SenderHistoryType
  <1>3. TurnInv
    BY FileConstants DEF Init, SenderInit, TurnInv, TurnType, InLoop, Position
  <1>4. PipelineType
    BY SenderConstants DEF Init, SenderInit, PipelineType
  <1>5. RetryInv /\ StoreType
    BY <1>1, SenderConstants DEF Init, SenderInit, RetryInv, RetryType, BatchOpen, StoreType
  <1>6. StreamType /\ ChunkStateType /\ AppType /\ AbortType /\ ReceiverHistoryType
    BY DEF Init, ReceiverInit, StreamType, ChunkStateType, AppType, AbortType,
           ReceiverHistoryType
  <1>7. QED
    BY <1>2, <1>3, <1>4, <1>5, <1>6 DEF TypeInv, NetType, Init

\* A part of the state that a step leaves alone keeps its type.
LEMMA TypeFrame ==
    ASSUME TypeInv
    PROVE  /\ UNCHANGED net => NetType'
           /\ UNCHANGED disk => DiskType'
           /\ UNCHANGED user => UserType'
           /\ UNCHANGED turn => TurnInv'
           /\ UNCHANGED pipeline => PipelineType'
           /\ UNCHANGED retry => RetryInv'
           /\ UNCHANGED store => StoreType'
           /\ UNCHANGED senderHistory => SenderHistoryType'
           /\ UNCHANGED streamState => StreamType'
           /\ UNCHANGED chunkState => ChunkStateType'
           /\ UNCHANGED appState => AppType'
           /\ UNCHANGED abortState => AbortType'
           /\ UNCHANGED receiverHistory => ReceiverHistoryType'
  BY DEF TypeInv, disk, user, turn, pipeline, retry, store, senderHistory, streamState,
         chunkState, appState, abortState, receiverHistory,
         NetType, DiskType, UserType, TurnInv, TurnType, InLoop, PipelineType, RetryInv, RetryType, BatchOpen, StoreType, SenderHistoryType, StreamType, ChunkStateType, AppType, AbortType, ReceiverHistoryType

LEMMA UnackedEntry ==
    ASSUME RetryInv
    PROVE  \A c \in DOMAIN unacked : c \in Chunk /\ unacked[c] \in RetryInfo
  BY ChunkMapType DEF RetryInv, RetryType

\* Removing entries, and replacing the batch by a part of it, keeps the retry state typed.
LEMMA RetryShrinks ==
    ASSUME RetryInv, NEW S, unacked' = Without(unacked, S), retryBatch' \subseteq retryBatch
    PROVE  RetryInv'
  <1>1. RetryType'
    BY WithoutType DEF RetryInv, RetryType
  <1>2. /\ DOMAIN unacked' = (DOMAIN unacked) \ S
        /\ \A c \in (DOMAIN unacked) \ S : unacked'[c] = unacked[c]
    BY WithoutValue
  <1>3. BatchOpen'
    BY <1>2 DEF RetryInv, BatchOpen
  <1>4. QED
    BY <1>1, <1>3 DEF RetryInv

\* So does setting an entry whose attempts are not used up.
LEMMA RetrySets ==
    ASSUME RetryInv, NEW c \in Chunk, NEW e \in RetryInfo, e.attempts < RetryLimit,
           unacked' = With(unacked, c, e), retryBatch' \subseteq retryBatch
    PROVE  RetryInv'
  <1>1. RetryType'
    BY WithType DEF RetryInv, RetryType
  <1>2. /\ DOMAIN unacked' = DOMAIN unacked \cup {c}
        /\ unacked'[c] = e
        /\ \A d \in DOMAIN unacked : d # c => unacked'[d] = unacked[d]
    BY DEF With
  <1>3. BatchOpen'
    BY <1>2 DEF RetryInv, BatchOpen
  <1>4. QED
    BY <1>1, <1>3 DEF RetryInv

LEMMA MarkDeliveredType ==
    ASSUME StoreType, NEW m, MarkDelivered(m)
    PROVE  memS' \in ChunkMap({"sent", "delivered"})
  BY ChunkMapType DEF StoreType, MarkDelivered

LEMMA CountUpType ==
    ASSUME StoreType, NEW m \in Media, NEW more \in Nat
    PROVE  CountUp(m, more) \in Nat
  BY FileConstants DEF StoreType, CountUp

LEMMA TypeStep == TypeInv /\ [Next]_vars => TypeInv'
  <1> SUFFICES ASSUME TypeInv, [Next]_vars PROVE TypeInv'
    OBVIOUS
  <1> USE FileConstants, SenderConstants DEF TypeInv
  <1>1. ASSUME NEW j \in Job, ReceiveAccept(j), UNCHANGED receiverVars
        PROVE  TypeInv'
    <2>1. TurnInv'
      BY <1>1 DEF ReceiveAccept, TurnInv, TurnType, InLoop, turn, Position
    <2>2. UserType'
      BY <1>1 DEF ReceiveAccept, UserType, Job
    <2>3. QED
      BY <1>1, <2>1, <2>2, TypeFrame DEF ReceiveAccept, receiverVars
  <1>2. ASSUME NEW j \in Job, AcquireTurn(j), UNCHANGED receiverVars
        PROVE  TypeInv'
    <2>1. TurnInv'
      BY <1>2, JobFacts DEF AcquireTurn, TurnInv, TurnType, InLoop, turn, Position
    <2>2. QED
      BY <1>2, <2>1, TypeFrame DEF AcquireTurn, receiverVars
  <1>3. ASSUME NEW j \in Job, FinishRun(j), UNCHANGED receiverVars
        PROVE  TypeInv'
    <2>1. TurnInv'
      BY <1>3 DEF FinishRun, Release, TurnInv, TurnType, InLoop, turn, Position
    <2>2. QED
      BY <1>3, <2>1, TypeFrame DEF FinishRun, receiverVars
  <1>4. ASSUME NEW j \in Job, StopRun(j), UNCHANGED receiverVars
        PROVE  TypeInv'
    <2>1. DiskType'
      BY <1>4 DEF StopRun, DiskType
    <2>2. UserType'
      BY <1>4 DEF StopRun, UserType
    <2>3. TurnInv'
      BY <1>4 DEF StopRun, Release, TurnInv, TurnType, InLoop, turn, Position
    <2>4. QED
      BY <1>4, <2>1, <2>2, <2>3, TypeFrame DEF StopRun, receiverVars
  <1>5. ASSUME NEW j \in Job, PrepareChunk(j), UNCHANGED receiverVars
        PROVE  TypeInv'
    <2>1. TurnInv'
      BY <1>5 DEF PrepareChunk, TurnInv, TurnType, InLoop, turn, Position
    <2>2. SenderHistoryType'
      <3>1. next[j] \in Index
        BY <1>5 DEF PrepareChunk, TurnInv, TurnType, Index
      <3>2. QED
        BY <1>5, <3>1, JobFacts DEF PrepareChunk, SenderHistoryType
    <2>3. QED
      BY <1>5, <2>1, <2>2, TypeFrame DEF PrepareChunk, receiverVars
  <1>6. ASSUME NEW j \in Job, PushChunk(j), UNCHANGED receiverVars
        PROVE  TypeInv'
    <2>1. TurnInv'
      BY <1>6 DEF PushChunk, TurnInv, TurnType, InLoop, turn, Position
    <2>2. PipelineType'
      <3>1. ChunkOf(j, next[j]) \in Chunk
        BY <1>6, JobFacts DEF PushChunk, TurnInv, TurnType, InLoop, Index
      <3>2. QED
        BY <1>6, <3>1 DEF PushChunk, PipelineType
    <2>3. QED
      BY <1>6, <2>1, <2>2, TypeFrame DEF PushChunk, receiverVars
  <1>7. ASSUME NEW j \in Job, AddChunk(j), UNCHANGED receiverVars
        PROVE  TypeInv'
    <2>1. TurnInv'
      BY <1>7 DEF AddChunk, TurnInv, TurnType, InLoop, turn, Position
    <2>2. StoreType'
      <3>1. ChunkOf(j, next[j]) \in Chunk
        BY <1>7, JobFacts DEF AddChunk, TurnInv, TurnType, InLoop, Index
      <3>2. QED
        BY <1>7, <3>1, WithType DEF AddChunk, StoreType
    <2>3. QED
      BY <1>7, <2>1, <2>2, TypeFrame DEF AddChunk, receiverVars
  <1>8. ASSUME NEW w \in Workers, TakeChunk(w), UNCHANGED receiverVars
        PROVE  TypeInv'
    <2>1. PipelineType'
      BY <1>8 DEF TakeChunk, PipelineType
    <2>2. QED
      BY <1>8, <2>1, TypeFrame DEF TakeChunk, receiverVars
  <1>9. ASSUME NEW w \in Workers, SendChunk(w), UNCHANGED receiverVars
        PROVE  TypeInv'
    <2>1. NetType'
      BY <1>9 DEF SendChunk, NetType, PipelineType, Message, ChunkMsg
    <2>2. PipelineType'
      BY <1>9 DEF SendChunk, PipelineType
    <2>3. RetryInv'
      <3> DEFINE c == worker[w]
                 e == [known |-> TRUE,
                       attempts |-> IF c \in DOMAIN unacked THEN unacked[c].attempts ELSE 0]
      <3>1. c \in Chunk
        BY <1>9 DEF SendChunk, PipelineType
      <3>2. e \in RetryInfo
        BY UnackedEntry, SenderConstants DEF RetryInfo
      <3>3. unacked' = With(unacked, c, e) /\ retryBatch' = retryBatch
        BY <1>9 DEF SendChunk, Register
      <3>4. RetryType'
        BY <3>1, <3>2, <3>3, WithType DEF RetryInv, RetryType
      <3>5. /\ DOMAIN unacked' = DOMAIN unacked \cup {c}
            /\ unacked'[c] = e
            /\ \A d \in DOMAIN unacked : d # c => unacked'[d] = unacked[d]
        BY <3>3 DEF With
      <3>6. BatchOpen'
        <4>1. ASSUME NEW i \in retryBatch, i.chunk \in DOMAIN unacked'
              PROVE  unacked'[i.chunk].attempts < RetryLimit
          <5>1. CASE i.chunk = c /\ c \notin DOMAIN unacked
            BY <3>5, <5>1, SenderConstants
          <5>2. CASE i.chunk \in DOMAIN unacked
            BY <3>5, <5>2 DEF RetryInv, BatchOpen
          <5>3. QED
            BY <3>5, <4>1, <5>1, <5>2
        <4>2. QED
          BY <3>3, <4>1 DEF RetryInv, BatchOpen
      <3>7. QED
        BY <3>4, <3>6 DEF RetryInv
    <2>4. QED
      BY <1>9, <2>1, <2>2, <2>3, TypeFrame DEF SendChunk, receiverVars
  <1>10. ASSUME NEW due \in SUBSET DOMAIN unacked, RetryScan(due), UNCHANGED receiverVars
        PROVE  TypeInv'
    <2>1. RetryInv'
      <3> DEFINE spent == {c \in DOMAIN unacked : Spent(c)}
      <3>1. /\ unacked' = Without(unacked, spent)
            /\ retryBatch' = {[chunk |-> c, known |-> unacked[c].known] : c \in due}
            /\ due \subseteq (DOMAIN unacked) \ spent
        BY <1>10 DEF RetryScan
      <3>2. RetryType'
        BY <3>1, UnackedEntry, WithoutType DEF RetryInv, RetryType, RetryInfo
      <3>3. \A c \in due : unacked'[c].attempts < RetryLimit
        <4>1. \A c \in due : unacked'[c] = unacked[c]
          BY <3>1, WithoutValue
        <4>2. \A c \in due : unacked[c].attempts \in 0..RetryLimit /\ ~Spent(c)
          BY <3>1, UnackedEntry DEF RetryInfo
        <4>3. QED
          BY <4>1, <4>2, SenderConstants DEF Spent
      <3>4. QED
        BY <3>1, <3>2, <3>3 DEF RetryInv, BatchOpen
    <2>2. SenderHistoryType'
      BY <1>10, UnackedEntry DEF RetryScan, SenderHistoryType
    <2>3. QED
      BY <1>10, <2>1, <2>2, TypeFrame DEF RetryScan, receiverVars
  <1>11. ASSUME NEW item \in retryBatch, RetryFails(item), UNCHANGED receiverVars
        PROVE  TypeInv'
    <2>1. RetryInv'
      <3> DEFINE c == item.chunk
                 info == IF c \in DOMAIN unacked THEN unacked[c]
                                                 ELSE [known |-> FALSE, attempts |-> 0]
                 tried == info.attempts + 1
      <3>1. c \in Chunk /\ info \in RetryInfo
        BY UnackedEntry, SenderConstants DEF RetryInfo, RetryInv, RetryType
      <3>2. retryBatch' \subseteq retryBatch
        BY <1>11 DEF RetryFails
      <3>3. CASE tried >= RestoreLimit
        <4>1. unacked' = Without(unacked, {c})
          BY <1>11, <3>3 DEF RetryFails
        <4>2. QED
          BY <4>1, <3>2, RetryShrinks
      <3>4. CASE ~(tried >= RestoreLimit)
        <4> DEFINE e == [info EXCEPT !.attempts = tried]
        <4>1. unacked' = With(unacked, c, e)
          BY <1>11, <3>4 DEF RetryFails
        <4>2. e \in RetryInfo /\ e.attempts < RetryLimit
          <5> HIDE DEF info
          <5>1. tried \in 0..(RetryLimit - 1)
            BY <3>1, <3>4, SenderConstants DEF RetryInfo
          <5> HIDE DEF tried
          <5>2. QED
            BY <5>1, <3>1, SenderConstants DEF RetryInfo
        <4>3. QED
          BY <4>1, <4>2, <3>1, <3>2, RetrySets
      <3>5. QED
        BY <3>3, <3>4
    <2>2. SenderHistoryType'
      BY <1>11 DEF RetryFails, SenderHistoryType, RetryInv, RetryType
    <2>3. QED
      BY <1>11, <2>1, <2>2, TypeFrame DEF RetryFails, receiverVars
  <1>12. ASSUME NEW item \in retryBatch, RetryQueues(item), UNCHANGED receiverVars
        PROVE  TypeInv'
    <2>1. PipelineType'
      BY <1>12 DEF RetryQueues, PipelineType, RetryInv, RetryType
    <2>2. RetryInv'
      <3> DEFINE c == item.chunk
      <3>1. retryBatch' = retryBatch \ {item}
        BY <1>12 DEF RetryQueues
      <3>2. CASE c \notin DOMAIN unacked
        <4>1. unacked' = unacked
          BY <1>12, <3>2 DEF RetryQueues, CountAttempt
        <4>2. QED
          BY <4>1, <3>1 DEF RetryInv, RetryType, BatchOpen
      <3>3. CASE c \in DOMAIN unacked
        <4> DEFINE e == [unacked[c] EXCEPT !.attempts = @ + 1]
        <4>1. unacked' = [unacked EXCEPT ![c] = e]
          BY <1>12, <3>3 DEF RetryQueues, CountAttempt
        <4>2. unacked[c] \in RetryInfo /\ unacked[c].attempts < RetryLimit
          BY <1>12, <3>3, UnackedEntry DEF RetryInv, BatchOpen
        <4>3. e \in RetryInfo
          BY <4>2, SenderConstants DEF RetryInfo
        <4>4. DOMAIN unacked \subseteq Chunk /\ unacked \in [DOMAIN unacked -> RetryInfo]
          BY ChunkMapType DEF RetryInv, RetryType
        <4>5. DOMAIN unacked' = DOMAIN unacked /\ unacked' \in [DOMAIN unacked -> RetryInfo]
          BY <4>1, <4>3, <4>4
        <4>6. RetryType'
          BY <4>4, <4>5, <3>1 DEF RetryInv, RetryType, ChunkMap
        <4>7. BatchOpen'
          BY <1>12, <4>1, <4>4, <3>1 DEF RetryInv, BatchOpen
        <4>8. QED
          BY <4>6, <4>7 DEF RetryInv
      <3>4. QED
        BY <3>2, <3>3
    <2>3. QED
      BY <1>12, <2>1, <2>2, TypeFrame DEF RetryQueues, receiverVars
  <1>13. ASSUME NEW item \in retryBatch, RetryDefers(item), UNCHANGED receiverVars
        PROVE  TypeInv'
    <2>1. RetryInv'
      BY <1>13 DEF RetryDefers, RetryInv, RetryType, BatchOpen
    <2>2. QED
      BY <1>13, <2>1, TypeFrame DEF RetryDefers, receiverVars
  <1>14. ASSUME NEW msg \in net, msg.type = "delivered", ReceiveDelivered(msg.refs), UNCHANGED receiverVars
        PROVE  TypeInv'
    <2>1. NetType'
      BY <1>14 DEF ReceiveDelivered, NetType
    <2>2. RetryInv'
      BY <1>14, RetryShrinks DEF ReceiveDelivered
    <2>3. StoreType'
      <3>1. msg.refs \subseteq Chunk
        BY <1>14 DEF NetType, Message
      <3>2. \A m \in Media : Cardinality({c \in msg.refs : c.media = m /\ c \in DOMAIN memS}) \in Nat
        BY CountType, ChunkMapType DEF StoreType
      <3>3. \A m \in Media :
                CountUp(m, Cardinality({c \in msg.refs : c.media = m /\ c \in DOMAIN memS})) \in Nat
        BY <3>2, CountUpType
      <3>4. deliveredCount' \in [Media -> Nat]
        BY <1>14, <3>3 DEF ReceiveDelivered
      <3>5. QED
        BY <1>14, <3>1, <3>4 DEF ReceiveDelivered, StoreType
    <2>4. SenderHistoryType'
      BY <1>14 DEF ReceiveDelivered, SenderHistoryType, NetType, Message
    <2>5. QED
      BY <1>14, <2>1, <2>2, <2>3, <2>4, TypeFrame DEF ReceiveDelivered, receiverVars
  <1>15. ASSUME NEW m \in Media, ReceiveComplete(m), UNCHANGED receiverVars
        PROVE  TypeInv'
    <2>1. NetType'
      BY <1>15 DEF ReceiveComplete, NetType
    <2>2. DiskType'
      BY <1>15 DEF ReceiveComplete, DiskType
    <2>3. StoreType'
      BY <1>15, MarkDeliveredType, FileConstants DEF ReceiveComplete, StoreType
    <2>4. QED
      BY <1>15, <2>1, <2>2, <2>3, TypeFrame DEF ReceiveComplete, receiverVars
  <1>16. ASSUME NEW c \in Chunk, ReceiveRead(c), UNCHANGED receiverVars
        PROVE  TypeInv'
    <2>1. NetType'
      BY <1>16 DEF ReceiveRead, NetType
    <2>2. StoreType'
      BY <1>16, MarkDeliveredType DEF ReceiveRead, StoreType
    <2>3. QED
      BY <1>16, <2>1, <2>2, TypeFrame DEF ReceiveRead, receiverVars
  <1>17. ASSUME NEW m \in Media, ReceiveReadFile(m), UNCHANGED receiverVars
        PROVE  TypeInv'
    <2>1. NetType'
      BY <1>17 DEF ReceiveReadFile, NetType
    <2>2. StoreType'
      BY <1>17, MarkDeliveredType DEF ReceiveReadFile, StoreType
    <2>3. QED
      BY <1>17, <2>1, <2>2, TypeFrame DEF ReceiveReadFile, receiverVars
  <1>18. ASSUME NEW c \in Chunk, MarkUnfound(c), UNCHANGED receiverVars
        PROVE  TypeInv'
    <2>1. RetryInv'
      <3>1. unacked' = unacked \/ \E S : unacked' = Without(unacked, S)
        BY <1>18 DEF MarkUnfound
      <3>2. retryBatch' = retryBatch
        BY <1>18 DEF MarkUnfound
      <3>3. CASE unacked' = unacked
        BY <3>2, <3>3 DEF RetryInv, RetryType, BatchOpen
      <3>4. QED
        BY <3>1, <3>2, <3>3, RetryShrinks
    <2>2. StoreType'
      <3>1. CountUp(c.media, 1) \in Nat
        BY JobFacts, CountUpType
      <3>2. deliveredCount' \in [Media -> Nat]
        BY <1>18, <3>1 DEF MarkUnfound, StoreType
      <3>3. memS' \in ChunkMap({"sent", "delivered"})
        BY <1>18, ChunkMapType DEF MarkUnfound, StoreType
      <3>4. QED
        BY <1>18, <3>2, <3>3 DEF MarkUnfound, StoreType
    <2>3. SenderHistoryType'
      BY <1>18 DEF MarkUnfound, SenderHistoryType
    <2>4. QED
      BY <1>18, <2>1, <2>2, <2>3, TypeFrame DEF MarkUnfound, receiverVars
  <1>19. ASSUME NEW old \in SUBSET bin, CleanupSent(old), UNCHANGED receiverVars
        PROVE  TypeInv'
    <2>1. DiskType'
      BY <1>19 DEF CleanupSent, DiskType
    <2>2. SenderHistoryType'
      BY <1>19 DEF CleanupSent, SenderHistoryType, DiskType
    <2>3. QED
      BY <1>19, <2>1, <2>2, TypeFrame DEF CleanupSent, receiverVars
  <1>20. ASSUME NEW m \in Media, ReceiveDecline(m), UNCHANGED receiverVars
        PROVE  TypeInv'
    <2>1. DiskType'
      BY <1>20 DEF ReceiveDecline, DiskType
    <2>2. UserType'
      BY <1>20 DEF ReceiveDecline, UserType
    <2>3. RetryInv'
      BY <1>20, RetryShrinks DEF ReceiveDecline
    <2>4. StoreType'
      BY <1>20 DEF ReceiveDecline, StoreType
    <2>5. SenderHistoryType'
      BY <1>20 DEF ReceiveDecline, SenderHistoryType
    <2>6. QED
      BY <1>20, <2>1, <2>2, <2>3, <2>4, <2>5, TypeFrame DEF ReceiveDecline, receiverVars
  <1>21. ASSUME NEW m \in Media, AbortTransfer(m), UNCHANGED receiverVars
        PROVE  TypeInv'
    <2>1. NetType'
      BY <1>21 DEF AbortTransfer, NetType, AbortMsg, Message
    <2>2. UserType'
      BY <1>21 DEF AbortTransfer, UserType
    <2>3. SenderHistoryType'
      BY <1>21 DEF AbortTransfer, SenderHistoryType
    <2>4. QED
      BY <1>21, <2>1, <2>2, <2>3, TypeFrame DEF AbortTransfer, receiverVars
  <1>22. ASSUME NEW m \in Media, DiscardFile(m), UNCHANGED receiverVars
        PROVE  TypeInv'
    <2>1. UserType'
      BY <1>22 DEF DiscardFile, UserType
    <2>2. SenderHistoryType'
      BY <1>22 DEF DiscardFile, SenderHistoryType
    <2>3. QED
      BY <1>22, <2>1, <2>2, TypeFrame DEF DiscardFile, receiverVars
  <1>23. ASSUME NEW m \in Media, DeleteFile(m), UNCHANGED receiverVars
        PROVE  TypeInv'
    <2>1. DiskType'
      BY <1>23 DEF DeleteFile, DiskType
    <2>2. UserType'
      BY <1>23 DEF DeleteFile, UserType
    <2>3. StoreType'
      BY <1>23, WithoutType DEF DeleteFile, StoreType
    <2>4. QED
      BY <1>23, <2>1, <2>2, <2>3, TypeFrame DEF DeleteFile, receiverVars
  <1>24. ASSUME SaveSender, UNCHANGED receiverVars
        PROVE  TypeInv'
    <2>1. StoreType'
      BY <1>24 DEF SaveSender, StoreType
    <2>2. QED
      BY <1>24, <2>1, TypeFrame DEF SaveSender, receiverVars
  <1>25. ASSUME RestartSender, UNCHANGED receiverVars
        PROVE  TypeInv'
    <2>1. UserType'
      BY <1>25 DEF RestartSender, UserType
    <2>2. TurnInv'
      BY <1>25 DEF RestartSender, TurnInv, TurnType, InLoop, turn, Position
    <2>3. PipelineType'
      BY <1>25 DEF RestartSender, PipelineType
    <2>4. RetryInv'
      <3>1. RetryType'
        <4>1. {d \in DOMAIN savedS : Resumable(d)} \subseteq Chunk
          BY ChunkMapType DEF StoreType
        <4>2. [known |-> TRUE, attempts |-> 0] \in RetryInfo
          BY SenderConstants DEF RetryInfo
        <4>3. unacked' \in ChunkMap(RetryInfo)
          BY <1>25, <4>1, <4>2, ChunkMapType DEF RestartSender
        <4>4. QED
          BY <1>25, <4>3 DEF RestartSender, RetryType
      <3>2. QED
        BY <1>25, <3>1 DEF RestartSender, RetryInv, BatchOpen
    <2>5. StoreType'
      <3>1. \A m \in Media : Cardinality(SavedDelivered(m)) \in Nat
        BY CountType, ChunkMapType DEF StoreType, SavedDelivered
      <3>2. QED
        BY <1>25, <3>1 DEF RestartSender, StoreType
    <2>6. QED
      BY <1>25, <2>1, <2>2, <2>3, <2>4, <2>5, TypeFrame DEF RestartSender, receiverVars
  <1>26. ASSUME NEW c \in Chunk, ReceiveChunk(c), UNCHANGED senderVars
        PROVE  TypeInv'
    <2>1. NetType'
      BY <1>26 DEF ReceiveChunk, NetType
    <2>2. StreamType'
      BY <1>26 DEF ReceiveChunk, StreamType
    <2>3. QED
      BY <1>26, <2>1, <2>2, TypeFrame DEF ReceiveChunk, senderVars
  <1>27. ASSUME NEW c \in Chunk, StoreChunk(c), UNCHANGED senderVars
        PROVE  TypeInv'
    <2>1. StreamType'
      BY <1>27 DEF StoreChunk, StreamType
    <2>2. ChunkStateType'
      BY <1>27, JobFacts DEF StoreChunk, ChunkStateType
    <2>3. ReceiverHistoryType'
      BY <1>27 DEF StoreChunk, ReceiverHistoryType
    <2>4. QED
      BY <1>27, <2>1, <2>2, <2>3, TypeFrame DEF StoreChunk, senderVars
  <1>28. ASSUME NEW c \in Chunk, ReadFile(c), UNCHANGED senderVars
        PROVE  TypeInv'
    <2>1. NetType'
      BY <1>28 DEF ReadFile, NetType, ReadMsg, Message
    <2>2. AppType'
      BY <1>28, JobFacts DEF ReadFile, AppType
    <2>3. QED
      BY <1>28, <2>1, <2>2, TypeFrame DEF ReadFile, senderVars
  <1>29. ASSUME NEW m \in Media, ReadFileBatch(m), UNCHANGED senderVars
        PROVE  TypeInv'
    <2>1. NetType'
      BY <1>29 DEF ReadFileBatch, NetType, ReadFileMsg, Message
    <2>2. AppType'
      BY <1>29 DEF ReadFileBatch, AppType
    <2>3. QED
      BY <1>29, <2>1, <2>2, TypeFrame DEF ReadFileBatch, senderVars
  <1>30. ASSUME FlushDelivered, UNCHANGED senderVars
        PROVE  TypeInv'
    <2>1. NetType'
      BY <1>30 DEF FlushDelivered, NetType, StreamType, DeliveredMsg, Message
    <2>2. StreamType'
      BY <1>30 DEF FlushDelivered, StreamType
    <2>3. QED
      BY <1>30, <2>1, <2>2, TypeFrame DEF FlushDelivered, senderVars
  <1>31. ASSUME NEW m \in Media, NEW i \in Index, SaveChunk(m, i), UNCHANGED senderVars
        PROVE  TypeInv'
    <2>1. ChunkStateType'
      BY <1>31 DEF SaveChunk, ChunkStateType
    <2>2. AppType'
      BY <1>31 DEF SaveChunk, AppType
    <2>3. QED
      BY <1>31, <2>1, <2>2, TypeFrame DEF SaveChunk, senderVars
  <1>32. ASSUME NEW m \in Media, TryAssemble(m), UNCHANGED senderVars
        PROVE  TypeInv'
    <2>1. NetType'
      BY <1>32 DEF TryAssemble, NetType, StreamType, DeliveredMsg, CompleteMsg, Message
    <2>2. StreamType'
      BY <1>32 DEF TryAssemble, StreamType
    <2>3. AppType'
      BY <1>32 DEF TryAssemble, AppType
    <2>4. ReceiverHistoryType'
      BY <1>32 DEF TryAssemble, ReceiverHistoryType
    <2>5. QED
      BY <1>32, <2>1, <2>2, <2>3, <2>4, TypeFrame DEF TryAssemble, senderVars
  <1>33. ASSUME NEW m \in Media, ReceiveAbort(m), UNCHANGED senderVars
        PROVE  TypeInv'
    <2>1. NetType'
      BY <1>33 DEF ReceiveAbort, NetType
    <2>2. ChunkStateType'
      BY <1>33 DEF ReceiveAbort, ChunkStateType, Drop
    <2>3. AppType'
      BY <1>33 DEF ReceiveAbort, AppType
    <2>4. AbortType'
      BY <1>33 DEF ReceiveAbort, AbortType
    <2>5. QED
      BY <1>33, <2>1, <2>2, <2>3, <2>4, TypeFrame DEF ReceiveAbort, senderVars
  <1>34. ASSUME NEW m \in Media, RecordAbort(m), UNCHANGED senderVars
        PROVE  TypeInv'
    <2>1. AppType'
      BY <1>34 DEF RecordAbort, AppType
    <2>2. AbortType'
      BY <1>34 DEF RecordAbort, AbortType
    <2>3. QED
      BY <1>34, <2>1, <2>2, TypeFrame DEF RecordAbort, senderVars
  <1>35. ASSUME SaveReceiver, UNCHANGED senderVars
        PROVE  TypeInv'
    <2>1. ChunkStateType'
      BY <1>35 DEF SaveReceiver, ChunkStateType
    <2>2. QED
      BY <1>35, <2>1, TypeFrame DEF SaveReceiver, senderVars
  <1>36. ASSUME RestartReceiver, UNCHANGED senderVars
        PROVE  TypeInv'
    <2>1. StreamType'
      BY <1>36 DEF RestartReceiver, StreamType
    <2>2. ChunkStateType'
      BY <1>36 DEF RestartReceiver, ChunkStateType
    <2>3. AppType'
      BY <1>36 DEF RestartReceiver, AppType
    <2>4. AbortType'
      BY <1>36 DEF RestartReceiver, AbortType
    <2>5. QED
      BY <1>36, <2>1, <2>2, <2>3, <2>4, TypeFrame DEF RestartReceiver, senderVars
  <1>37. CASE Lose /\ UNCHANGED <<senderVars, receiverVars>>
    <2>1. NetType'
      BY <1>37 DEF Lose, NetType
    <2>2. QED
      BY <1>37, <2>1, TypeFrame DEF senderVars, receiverVars
  <1>38. CASE UNCHANGED vars
    BY <1>38, TypeFrame DEF vars, senderVars, receiverVars
  <1>39. QED
    BY <1>1, <1>2, <1>3, <1>4, <1>5, <1>6, <1>7, <1>8, <1>9, <1>10, <1>11, <1>12, <1>13, <1>14,
       <1>15, <1>16, <1>17, <1>18, <1>19, <1>20, <1>21, <1>22, <1>23, <1>24, <1>25, <1>26, <1>27,
       <1>28, <1>29, <1>30, <1>31, <1>32, <1>33, <1>34, <1>35, <1>36, <1>37, <1>38
    DEF Next, SenderNext, ReceiverNext, RunStep, WorkerStep, RetryStep, RetryScans, RetryItem,
        SenderReceives

\* Type correctness: no counter of attempts passes RetryLimit, the queue keeps to its
\* capacity, and every map is keyed by chunks that exist.
THEOREM TypeCorrect == Spec => []TypeOK
  <1>1. Init => TypeInv
    BY TypeInit
  <1>2. TypeInv /\ [Next]_vars => TypeInv'
    BY TypeStep
  <1>3. TypeInv => TypeOK
    BY DEF TypeInv, TypeOK, NetType, TurnInv, RetryInv, SenderTypeOK, ReceiverTypeOK
  <1>4. QED
    BY <1>1, <1>2, <1>3, PTL DEF Spec
-----------------------------------------------------------------------------
\* The confirmations tell the truth.  A status of Delivered comes from a [FILE_COMPLETE],
\* a [READ] or a saved state, and the copy in sent/ goes because of such a status, so
\* all of them are strengthened together.

LEMMA MessageKinds ==
    ASSUME NEW c, NEW d, NEW m, NEW refs
    PROVE  /\ CompleteMsg(m) \notin {ChunkMsg(c), ReadMsg(c), ReadFileMsg(d), AbortMsg(d),
                                     DeliveredMsg(refs)}
           /\ ReadMsg(c) \notin {ChunkMsg(d), ReadFileMsg(m), AbortMsg(m), CompleteMsg(m),
                                 DeliveredMsg(refs)}
           /\ ReadFileMsg(m) \notin {ChunkMsg(d), ReadMsg(c), AbortMsg(d), CompleteMsg(d),
                                     DeliveredMsg(refs)}
           /\ AbortMsg(m) \notin {ChunkMsg(d), ReadMsg(d), ReadFileMsg(d), CompleteMsg(d),
                                  DeliveredMsg(refs)}
           /\ CompleteMsg(m) = CompleteMsg(d) => m = d
           /\ ReadMsg(c) = ReadMsg(d) => c = d
           /\ ReadFileMsg(m) = ReadFileMsg(d) => m = d
           /\ AbortMsg(m) = AbortMsg(d) => m = d
  BY DEF CompleteMsg, ReadMsg, ReadFileMsg, AbortMsg, DeliveredMsg, ChunkMsg

MailHonest ==
    /\ \A m \in Media : CompleteMsg(m) \in net => m \in received
    /\ \A c \in Chunk : ReadMsg(c) \in net => c.media \in received
    /\ \A m \in Media : ReadFileMsg(m) \in net => m \in received
    /\ assembled \subseteq received

\* The app deletes, and the flag stands for, only what a user gave up.
UserAborted == toDelete \subseteq abortRequested \cup dropped /\ aborted \subseteq abortRequested

\* What was marked, or is about to be, by an early acknowledgement was acknowledged.
EarlyAcked == unfound \subseteq acked /\ early \subseteq acked

Honest == MailHonest /\ DeliveredIsReceived /\ UserAborted /\ EarlyAcked /\ SourceKept

LEMMA HonestInit == Init => Honest
  BY MessageKinds DEF Init, SenderInit, ReceiverInit, Honest, MailHonest, UserAborted, NoEntry,
     EarlyAcked, DeliveredIsReceived, SourceKept

\* When all chunks of m are delivered, the file is received or they all were marked early.
LEMMA DeliveredFile ==
    ASSUME TypeInv, DeliveredIsReceived, NEW m, AllDelivered(m)
    PROVE  m \in received \/ Hasty(m)
  <1> DEFINE S == {c \in DOMAIN memS : c.media = m /\ memS[c] = "delivered"}
             E == {c \in early : c.media = m}
  <1> SUFFICES ASSUME m \notin received
               PROVE  Hasty(m)
    OBVIOUS
  <1>1. S \subseteq E
    BY DEF DeliveredIsReceived
  <1>2. IsFiniteSet(E) /\ IsFiniteSet(S)
    BY <1>1, ChunkFinite, FS_Subset DEF TypeInv, SenderHistoryType
  <1>3. Cardinality(S) <= Cardinality(E) /\ Cardinality(S) \in Nat /\ Cardinality(E) \in Nat
    BY <1>1, <1>2, FS_Subset, FS_CardinalityType
  <1>4. Cardinality(S) >= Total
    BY DEF AllDelivered
  <1> HIDE DEF S, E
  <1>5. Cardinality(E) >= Total
    BY <1>3, <1>4, FileConstants
  <1>6. QED
    BY <1>5 DEF Hasty, E

\* Early marks are never taken back.
LEMMA HastyStays ==
    ASSUME early \subseteq early', early' \subseteq Chunk, NEW m, Hasty(m)
    PROVE  Hasty(m)'
  <1> DEFINE E == {c \in early : c.media = m}
             F == {c \in early' : c.media = m}
  <1>1. IsFiniteSet(F) /\ E \subseteq F
    BY ChunkFinite, FS_Subset
  <1>2. Cardinality(E) <= Cardinality(F) /\ Cardinality(E) \in Nat /\ Cardinality(F) \in Nat
    BY <1>1, FS_Subset, FS_CardinalityType
  <1>3. Cardinality(E) >= Total
    BY DEF Hasty
  <1> HIDE DEF E, F
  <1>4. Cardinality(F) >= Total
    BY <1>2, <1>3, FileConstants
  <1>5. QED
    BY <1>4 DEF Hasty, F

\* What a step leaves alone stays honest.
LEMMA HonestFrame ==
    ASSUME Honest
    PROVE  /\ UNCHANGED <<net, assembled, received>> => MailHonest'
           /\ UNCHANGED <<memS, savedS, received, early>> => DeliveredIsReceived'
           /\ UNCHANGED <<toDelete, aborted, abortRequested, dropped>> => UserAborted'
           /\ UNCHANGED <<unfound, early, acked>> => EarlyAcked'
           /\ UNCHANGED <<bin, received, abortRequested, dropped, aged, early>> => SourceKept'
  BY DEF Honest, MailHonest, DeliveredIsReceived, UserAborted, EarlyAcked, SourceKept,
         Dispensable, Excused, Hasty

LEMMA HonestStep == TypeInv /\ Honest /\ [Next]_vars => Honest'
  <1> SUFFICES ASSUME TypeInv, Honest, [Next]_vars PROVE Honest'
    OBVIOUS
  <1> USE DEF Honest, disk, user, turn, pipeline, retry, store, senderHistory, senderVars,
              streamState, chunkState, appState, abortState, receiverHistory, receiverVars
  <1>1. ASSUME NEW j \in Job, ReceiveAccept(j), UNCHANGED receiverVars
        PROVE  Honest'
    BY <1>1, HonestFrame DEF ReceiveAccept
  <1>2. ASSUME NEW j \in Job, AcquireTurn(j), UNCHANGED receiverVars
        PROVE  Honest'
    BY <1>2, HonestFrame DEF AcquireTurn
  <1>3. ASSUME NEW j \in Job, FinishRun(j), UNCHANGED receiverVars
        PROVE  Honest'
    BY <1>3, HonestFrame DEF FinishRun
  <1>4. ASSUME NEW j \in Job, StopRun(j), UNCHANGED receiverVars
        PROVE  Honest'
    <2>1. UserAborted'
      BY <1>4 DEF StopRun, UserAborted
    <2>2. SourceKept'
      BY <1>4 DEF StopRun, Stopped, UserAborted, SourceKept, Dispensable, Excused, Hasty
    <2>3. QED
      BY <1>4, <2>1, <2>2, HonestFrame DEF StopRun
  <1>5. ASSUME NEW j \in Job, PrepareChunk(j), UNCHANGED receiverVars
        PROVE  Honest'
    <2>1. UserAborted' /\ EarlyAcked'
      BY <1>5 DEF PrepareChunk, UserAborted, EarlyAcked
    <2>2. SourceKept'
      BY <1>5 DEF PrepareChunk, SourceKept, Dispensable, Excused, Hasty
    <2>3. QED
      BY <1>5, <2>1, <2>2, HonestFrame DEF PrepareChunk
  <1>6. ASSUME NEW j \in Job, PushChunk(j), UNCHANGED receiverVars
        PROVE  Honest'
    BY <1>6, HonestFrame DEF PushChunk
  <1>7. ASSUME NEW j \in Job, AddChunk(j), UNCHANGED receiverVars
        PROVE  Honest'
    <2>1. DeliveredIsReceived'
      BY <1>7 DEF AddChunk, With, DeliveredIsReceived
    <2>2. QED
      BY <1>7, <2>1, HonestFrame DEF AddChunk
  <1>8. ASSUME NEW w \in Workers, TakeChunk(w), UNCHANGED receiverVars
        PROVE  Honest'
    BY <1>8, HonestFrame DEF TakeChunk
  <1>9. ASSUME NEW w \in Workers, SendChunk(w), UNCHANGED receiverVars
        PROVE  Honest'
    <2>1. MailHonest'
      BY <1>9, MessageKinds DEF SendChunk, MailHonest
    <2>2. QED
      BY <1>9, <2>1, HonestFrame DEF SendChunk
  <1>10. ASSUME NEW due \in SUBSET DOMAIN unacked, RetryScan(due), UNCHANGED receiverVars
        PROVE  Honest'
    <2>1. UserAborted' /\ EarlyAcked'
      BY <1>10 DEF RetryScan, UserAborted, EarlyAcked
    <2>2. SourceKept'
      BY <1>10 DEF RetryScan, SourceKept, Dispensable, Excused, Hasty
    <2>3. QED
      BY <1>10, <2>1, <2>2, HonestFrame DEF RetryScan
  <1>11. ASSUME NEW item \in retryBatch, RetryFails(item), UNCHANGED receiverVars
        PROVE  Honest'
    <2>1. UserAborted' /\ EarlyAcked'
      BY <1>11 DEF RetryFails, UserAborted, EarlyAcked
    <2>2. SourceKept'
      BY <1>11 DEF RetryFails, SourceKept, Dispensable, Excused, Hasty
    <2>3. QED
      BY <1>11, <2>1, <2>2, HonestFrame DEF RetryFails
  <1>12. ASSUME NEW item \in retryBatch, RetryQueues(item), UNCHANGED receiverVars
        PROVE  Honest'
    BY <1>12, HonestFrame DEF RetryQueues
  <1>13. ASSUME NEW item \in retryBatch, RetryDefers(item), UNCHANGED receiverVars
        PROVE  Honest'
    BY <1>13, HonestFrame DEF RetryDefers
  <1>14. ASSUME NEW msg \in net, msg.type = "delivered", ReceiveDelivered(msg.refs), UNCHANGED receiverVars
        PROVE  Honest'
    <2>1. MailHonest'
      BY <1>14, MessageKinds DEF ReceiveDelivered, MailHonest
    <2>2. DeliveredIsReceived'
      BY <1>14 DEF ReceiveDelivered, DeliveredIsReceived
    <2>3. UserAborted' /\ EarlyAcked'
      BY <1>14 DEF ReceiveDelivered, UserAborted, EarlyAcked
    <2>4. SourceKept'
      BY <1>14 DEF ReceiveDelivered, SourceKept, Dispensable, Excused, Hasty
    <2>5. QED
      BY <1>14, <2>1, <2>2, <2>3, <2>4, HonestFrame DEF ReceiveDelivered
  <1>15. ASSUME NEW m \in Media, ReceiveComplete(m), UNCHANGED receiverVars
        PROVE  Honest'
    <2>1. MailHonest'
      BY <1>15, MessageKinds DEF ReceiveComplete, MailHonest
    <2>2. DeliveredIsReceived'
      BY <1>15 DEF ReceiveComplete, MarkDelivered, MailHonest, DeliveredIsReceived
    <2>3. SourceKept'
      BY <1>15 DEF ReceiveComplete, MailHonest, SourceKept, Dispensable, Excused, Hasty
    <2>4. QED
      BY <1>15, <2>1, <2>2, <2>3, HonestFrame DEF ReceiveComplete
  <1>16. ASSUME NEW c \in Chunk, ReceiveRead(c), UNCHANGED receiverVars
        PROVE  Honest'
    <2>1. MailHonest'
      BY <1>16, MessageKinds DEF ReceiveRead, MailHonest
    <2>2. DeliveredIsReceived'
      BY <1>16 DEF ReceiveRead, MarkDelivered, MailHonest, DeliveredIsReceived
    <2>3. QED
      BY <1>16, <2>1, <2>2, HonestFrame DEF ReceiveRead
  <1>17. ASSUME NEW m \in Media, ReceiveReadFile(m), UNCHANGED receiverVars
        PROVE  Honest'
    <2>1. MailHonest'
      BY <1>17, MessageKinds DEF ReceiveReadFile, MailHonest
    <2>2. DeliveredIsReceived'
      BY <1>17 DEF ReceiveReadFile, MarkDelivered, MailHonest, DeliveredIsReceived
    <2>3. QED
      BY <1>17, <2>1, <2>2, HonestFrame DEF ReceiveReadFile
  <1>18. ASSUME NEW c \in Chunk, MarkUnfound(c), UNCHANGED receiverVars
        PROVE  Honest'
    <2>1. early \subseteq early' /\ early' \subseteq early \cup {c} /\ c \in unfound
      BY <1>18 DEF MarkUnfound
    <2>2. DeliveredIsReceived'
      <3>1. \A d \in DOMAIN memS' : /\ d \in DOMAIN memS
                                    /\ memS'[d] = memS[d] \/ d \in early'
        BY <1>18 DEF MarkUnfound
      <3>2. savedS' = savedS
        BY <1>18 DEF MarkUnfound
      <3>3. QED
        BY <1>18, <2>1, <3>1, <3>2 DEF DeliveredIsReceived
    <2>3. EarlyAcked'
      BY <1>18, <2>1 DEF MarkUnfound, EarlyAcked
    <2>4. SourceKept'
      <3>1. early' \subseteq Chunk
        BY <1>18, <2>1 DEF TypeInv, SenderHistoryType
      <3>2. \A m : Hasty(m) => Hasty(m)'
        BY <2>1, <3>1, HastyStays
      <3>3. UNCHANGED <<bin, received, abortRequested, dropped, aged>>
        BY <1>18 DEF MarkUnfound
      <3>4. QED
        BY <3>2, <3>3 DEF SourceKept, Dispensable, Excused
    <2>5. UserAborted'
      BY <1>18 DEF MarkUnfound, UserAborted
    <2>6. QED
      BY <1>18, <2>2, <2>3, <2>4, <2>5, HonestFrame DEF MarkUnfound
  <1>19. ASSUME NEW old \in SUBSET bin, CleanupSent(old), UNCHANGED receiverVars
        PROVE  Honest'
    <2>1. UserAborted' /\ EarlyAcked' /\ DeliveredIsReceived'
      BY <1>19 DEF CleanupSent, UserAborted, EarlyAcked, DeliveredIsReceived
    <2>2. SourceKept'
      <3>1. \A m : AllDelivered(m) => m \in received \/ Hasty(m)
        BY DeliveredFile
      <3>2. UNCHANGED <<received, early, abortRequested, dropped>>
        BY <1>19 DEF CleanupSent
      <3>3. \A m \in Media \ bin' : m \notin bin \/ AllDelivered(m) \/ m \in aged'
        BY <1>19 DEF CleanupSent
      <3>4. aged \subseteq aged'
        BY <1>19 DEF CleanupSent
      <3>5. QED
        BY <3>1, <3>2, <3>3, <3>4 DEF SourceKept, Dispensable, Excused, Hasty
    <2>3. QED
      BY <1>19, <2>1, <2>2, HonestFrame DEF CleanupSent
  <1>20. ASSUME NEW m \in Media, ReceiveDecline(m), UNCHANGED receiverVars
        PROVE  Honest'
    <2>1. UserAborted' /\ EarlyAcked' /\ DeliveredIsReceived'
      BY <1>20 DEF ReceiveDecline, UserAborted, EarlyAcked, DeliveredIsReceived
    <2>2. SourceKept'
      BY <1>20 DEF ReceiveDecline, SourceKept, Dispensable, Excused, Hasty
    <2>3. QED
      BY <1>20, <2>1, <2>2, HonestFrame DEF ReceiveDecline
  <1>21. ASSUME NEW m \in Media, AbortTransfer(m), UNCHANGED receiverVars
        PROVE  Honest'
    <2>1. MailHonest'
      BY <1>21, MessageKinds DEF AbortTransfer, MailHonest
    <2>2. UserAborted' /\ EarlyAcked' /\ DeliveredIsReceived'
      BY <1>21 DEF AbortTransfer, UserAborted, EarlyAcked, DeliveredIsReceived
    <2>3. SourceKept'
      BY <1>21 DEF AbortTransfer, SourceKept, Dispensable, Excused, Hasty
    <2>4. QED
      BY <1>21, <2>1, <2>2, <2>3, HonestFrame DEF AbortTransfer
  <1>22. ASSUME NEW m \in Media, DiscardFile(m), UNCHANGED receiverVars
        PROVE  Honest'
    <2>1. UserAborted' /\ EarlyAcked' /\ DeliveredIsReceived'
      BY <1>22 DEF DiscardFile, UserAborted, EarlyAcked, DeliveredIsReceived
    <2>2. SourceKept'
      BY <1>22 DEF DiscardFile, SourceKept, Dispensable, Excused, Hasty
    <2>3. QED
      BY <1>22, <2>1, <2>2, HonestFrame DEF DiscardFile
  <1>23. ASSUME NEW m \in Media, DeleteFile(m), UNCHANGED receiverVars
        PROVE  Honest'
    <2>1. DeliveredIsReceived'
      BY <1>23 DEF DeleteFile, Without, Restrict, DeliveredIsReceived
    <2>2. UserAborted'
      BY <1>23 DEF DeleteFile, UserAborted
    <2>3. SourceKept'
      BY <1>23 DEF DeleteFile, UserAborted, SourceKept, Dispensable, Excused, Hasty
    <2>4. QED
      BY <1>23, <2>1, <2>2, <2>3, HonestFrame DEF DeleteFile
  <1>24. ASSUME SaveSender, UNCHANGED receiverVars
        PROVE  Honest'
    <2>1. DeliveredIsReceived'
      BY <1>24 DEF SaveSender, DeliveredIsReceived
    <2>2. QED
      BY <1>24, <2>1, HonestFrame DEF SaveSender
  <1>25. ASSUME RestartSender, UNCHANGED receiverVars
        PROVE  Honest'
    <2>1. DeliveredIsReceived'
      BY <1>25 DEF RestartSender, DeliveredIsReceived
    <2>2. UserAborted' /\ EarlyAcked'
      BY <1>25 DEF RestartSender, UserAborted, EarlyAcked
    <2>3. QED
      BY <1>25, <2>1, <2>2, HonestFrame DEF RestartSender
  <1>26. ASSUME NEW c \in Chunk, ReceiveChunk(c), UNCHANGED senderVars
        PROVE  Honest'
    <2>1. MailHonest'
      BY <1>26, MessageKinds DEF ReceiveChunk, MailHonest
    <2>2. QED
      BY <1>26, <2>1, HonestFrame DEF ReceiveChunk
  <1>27. ASSUME NEW c \in Chunk, StoreChunk(c), UNCHANGED senderVars
        PROVE  Honest'
    BY <1>27, HonestFrame DEF StoreChunk
  <1>28. ASSUME NEW c \in Chunk, ReadFile(c), UNCHANGED senderVars
        PROVE  Honest'
    <2>1. MailHonest'
      BY <1>28, MessageKinds DEF ReadFile, Readable, MailHonest
    <2>2. QED
      BY <1>28, <2>1, HonestFrame DEF ReadFile
  <1>29. ASSUME NEW m \in Media, ReadFileBatch(m), UNCHANGED senderVars
        PROVE  Honest'
    <2>1. MailHonest'
      BY <1>29, MessageKinds DEF ReadFileBatch, Readable, MailHonest
    <2>2. QED
      BY <1>29, <2>1, HonestFrame DEF ReadFileBatch
  <1>30. ASSUME FlushDelivered, UNCHANGED senderVars
        PROVE  Honest'
    <2>1. MailHonest'
      BY <1>30, MessageKinds DEF FlushDelivered, MailHonest
    <2>2. QED
      BY <1>30, <2>1, HonestFrame DEF FlushDelivered
  <1>31. ASSUME NEW m \in Media, NEW i \in Index, SaveChunk(m, i), UNCHANGED senderVars
        PROVE  Honest'
    <2>1. MailHonest'
      BY <1>31, MessageKinds DEF SaveChunk, MailHonest
    <2>2. QED
      BY <1>31, <2>1, HonestFrame DEF SaveChunk
  <1>32. ASSUME NEW m \in Media, TryAssemble(m), UNCHANGED senderVars
        PROVE  Honest'
    <2>1. MailHonest'
      <3>1. CASE ~Complete(m) \/ m \in completeSent
        BY <1>32, <3>1 DEF TryAssemble, MailHonest
      <3>2. CASE Complete(m) /\ m \notin completeSent
        <4>1. /\ assembled' = assembled \cup {m} /\ received' = received \cup {m}
              /\ net' \subseteq net \cup {CompleteMsg(m), DeliveredMsg(ackBuf)}
          BY <1>32, <3>2 DEF TryAssemble
        <4>2. QED
          BY <4>1, MessageKinds DEF MailHonest
      <3>3. QED
        BY <3>1, <3>2
    <2>2. DeliveredIsReceived'
      BY <1>32 DEF TryAssemble, DeliveredIsReceived
    <2>3. SourceKept'
      BY <1>32 DEF TryAssemble, SourceKept, Dispensable, Excused, Hasty
    <2>4. QED
      BY <1>32, <2>1, <2>2, <2>3, HonestFrame DEF TryAssemble
  <1>33. ASSUME NEW m \in Media, ReceiveAbort(m), UNCHANGED senderVars
        PROVE  Honest'
    <2>1. MailHonest'
      BY <1>33, MessageKinds DEF ReceiveAbort, MailHonest
    <2>2. QED
      BY <1>33, <2>1, HonestFrame DEF ReceiveAbort
  <1>34. ASSUME NEW m \in Media, RecordAbort(m), UNCHANGED senderVars
        PROVE  Honest'
    BY <1>34, HonestFrame DEF RecordAbort
  <1>35. ASSUME SaveReceiver, UNCHANGED senderVars
        PROVE  Honest'
    BY <1>35, HonestFrame DEF SaveReceiver
  <1>36. ASSUME RestartReceiver, UNCHANGED senderVars
        PROVE  Honest'
    BY <1>36, HonestFrame DEF RestartReceiver
  <1>37. CASE Lose /\ UNCHANGED <<senderVars, receiverVars>>
    <2>1. MailHonest'
      BY <1>37 DEF Lose, MailHonest
    <2>2. QED
      BY <1>37, <2>1, HonestFrame
  <1>38. CASE UNCHANGED vars
    BY <1>38, HonestFrame DEF vars
  <1>39. QED
    BY <1>1, <1>2, <1>3, <1>4, <1>5, <1>6, <1>7, <1>8, <1>9, <1>10, <1>11, <1>12, <1>13, <1>14,
       <1>15, <1>16, <1>17, <1>18, <1>19, <1>20, <1>21, <1>22, <1>23, <1>24, <1>25, <1>26, <1>27,
       <1>28, <1>29, <1>30, <1>31, <1>32, <1>33, <1>34, <1>35, <1>36, <1>37, <1>38
    DEF Next, SenderNext, ReceiverNext, RunStep, WorkerStep, RetryStep, RetryScans, RetryItem,
        SenderReceives

\* The copy in sent/ disappears only when the receiver has assembled the file, a user gave
\* it up, it is 24 hours old, or early acknowledgements marked all of its chunks.
THEOREM SourceIsKept == Spec => []SourceKept
  <1>1. Init => TypeInv /\ Honest
    BY TypeInit, HonestInit
  <1>2. TypeInv /\ Honest /\ [Next]_vars => TypeInv' /\ Honest'
    BY TypeStep, HonestStep
  <1>3. Honest => SourceKept
    BY DEF Honest
  <1>4. QED
    BY <1>1, <1>2, <1>3, PTL DEF Spec

\* A status of Delivered, in memory or saved, means that the receiver has assembled the
\* file, unless an acknowledgement set it that came before memory.Add.
THEOREM StatusIsHonest == Spec => []DeliveredIsReceived
  <1>1. Init => TypeInv /\ Honest
    BY TypeInit, HonestInit
  <1>2. TypeInv /\ Honest /\ [Next]_vars => TypeInv' /\ Honest'
    BY TypeStep, HonestStep
  <1>3. Honest => DeliveredIsReceived
    BY DEF Honest
  <1>4. QED
    BY <1>1, <1>2, <1>3, PTL DEF Spec
-----------------------------------------------------------------------------
\* No file is assembled with a missing chunk: every index that is in memory, on disk or
\* in an assembled file was brought by a chunk that memory.Add accepted.

Came(m, i) == \E c \in stored : c.media = m /\ c.index = i

CameInv ==
    /\ \A p \in text : Came(p[1], p[2])
    /\ \A m \in Media : \A i \in onDisk[m] : Came(m, i)
    /\ AssembledIsComplete

LEMMA CameFrame ==
    ASSUME CameInv, UNCHANGED onDisk, text' \subseteq text, received' = received,
           stored \subseteq stored'
    PROVE  CameInv'
  BY DEF CameInv, Came, AssembledIsComplete

LEMMA CameStep == TypeInv /\ CameInv /\ [Next]_vars => CameInv'
  <1> SUFFICES ASSUME TypeInv, CameInv, [Next]_vars PROVE CameInv'
    OBVIOUS
  <1> USE DEF streamState, chunkState, appState, abortState, receiverHistory, receiverVars
  <1>1. CASE UNCHANGED receiverVars
    BY <1>1, CameFrame
  <1>2. ASSUME NEW c \in Chunk, StoreChunk(c)
        PROVE  CameInv'
    <2>1. CASE Seen(c)
      BY <1>2, <2>1, CameFrame DEF StoreChunk
    <2>2. CASE ~Seen(c)
      BY <1>2, <2>2 DEF StoreChunk, CameInv, Came, AssembledIsComplete
    <2>3. QED
      BY <2>1, <2>2
  <1>3. ASSUME NEW m \in Media, NEW i \in Index, SaveChunk(m, i)
        PROVE  CameInv'
    BY <1>3 DEF SaveChunk, CameInv, Came, AssembledIsComplete, TypeInv, AppType
  <1>4. ASSUME NEW m \in Media, TryAssemble(m)
        PROVE  CameInv'
    <2>1. CASE ~Complete(m)
      BY <1>4, <2>1, CameFrame DEF TryAssemble
    <2>2. CASE Complete(m)
      BY <1>4, <2>2 DEF TryAssemble, Complete, CameInv, Came, AssembledIsComplete, TypeInv, AppType
    <2>3. QED
      BY <2>1, <2>2
  <1>5. ASSUME NEW m \in Media, ReceiveAbort(m)
        PROVE  CameInv'
    BY <1>5 DEF ReceiveAbort, Drop, CameInv, Came, AssembledIsComplete, TypeInv, AppType
  <1>6. CASE RestartReceiver
    BY <1>6, CameFrame DEF RestartReceiver
  <1>7. ASSUME NEW c \in Chunk, ReceiveChunk(c) \/ ReadFile(c)
        PROVE  CameInv'
    BY <1>7, CameFrame DEF ReceiveChunk, ReadFile
  <1>8. CASE FlushDelivered \/ SaveReceiver
    BY <1>8, CameFrame DEF FlushDelivered, SaveReceiver
  <1>9. ASSUME NEW m \in Media, RecordAbort(m) \/ ReadFileBatch(m)
        PROVE  CameInv'
    BY <1>9, CameFrame DEF RecordAbort, ReadFileBatch
  <1>10. QED
    BY <1>1, <1>2, <1>3, <1>4, <1>5, <1>6, <1>7, <1>8, <1>9
    DEF Next, SenderNext, ReceiverNext, vars

\* A file is assembled from all of its chunks, each accepted by memory.Add, whatever
\* runs, retries, losses, restarts and aborts came before.
THEOREM AssemblyIsComplete == Spec => []AssembledIsComplete
  <1>1. Init => TypeInv /\ CameInv
    BY TypeInit DEF Init, ReceiverInit, CameInv, AssembledIsComplete
  <1>2. TypeInv /\ CameInv /\ [Next]_vars => TypeInv' /\ CameInv'
    BY TypeStep, CameStep
  <1>3. CameInv => AssembledIsComplete
    BY DEF CameInv
  <1>4. QED
    BY <1>1, <1>2, <1>3, PTL DEF Spec
-----------------------------------------------------------------------------
\* The turn.  Who is recorded as its holder sends, and a run that sends holds the turn,
\* unless its file was accepted twice.

TurnHeld ==
    /\ \A j \in Job : Sending(j) => active = j.media \/ AcceptedTwice(j.media)
    /\ active # None => \E j \in Job : j.media = active /\ Sending(j)

\* A file stays accepted, and accepted twice: no step takes a run back to "idle".
RunsStay == \A j \in Job : pc[j] # "idle" => pc'[j] # "idle"

LEMMA TwiceStays ==
    ASSUME RunsStay, NEW m, AcceptedTwice(m)
    PROVE  AcceptedTwice(m)'
  BY DEF RunsStay, AcceptedTwice

LEMMA TwoRuns ==
    ASSUME NEW j \in Job, NEW k \in Job, j # k, j.media = k.media,
           pc[j] # "idle", pc[k] # "idle"
    PROVE  AcceptedTwice(j.media)
  BY DEF AcceptedTwice

LEMMA RunsStayStep == TypeInv /\ [Next]_vars => RunsStay
  <1> SUFFICES ASSUME TypeInv, [Next]_vars PROVE RunsStay
    OBVIOUS
  <1> USE DEF turn, senderVars
  <1>1. ASSUME UNCHANGED pc PROVE RunsStay
    BY <1>1 DEF RunsStay
  <1>2. ASSUME NEW j \in Job, ReceiveAccept(j) \/ RunStep(j) PROVE RunsStay
    BY <1>2
    DEF RunsStay, ReceiveAccept, RunStep, AcquireTurn, FinishRun, StopRun, PrepareChunk, PushChunk,
        AddChunk, TypeInv, TurnInv, TurnType
  <1>3. CASE RestartSender
    BY <1>3 DEF RestartSender, RunsStay
  <1>4. CASE SenderNext
    BY <1>1, <1>2, <1>3, <1>4
    DEF SenderNext, WorkerStep, TakeChunk, SendChunk, RetryStep, RetryScans, RetryItem,
        RetryScan, RetryFails, RetryQueues, RetryDefers, SenderReceives, ReceiveDelivered,
        ReceiveComplete, ReceiveRead, ReceiveReadFile, MarkUnfound, CleanupSent,
        ReceiveDecline, AbortTransfer, DiscardFile, DeleteFile, SaveSender
  <1>5. QED
    BY <1>1, <1>4 DEF Next, ReceiverNext, vars

LEMMA TurnHeldStep == TypeInv /\ TurnHeld /\ [Next]_vars => TurnHeld'
  <1> SUFFICES ASSUME TypeInv, TurnHeld, [Next]_vars PROVE TurnHeld'
    OBVIOUS
  <1> USE DEF turn, senderVars
  <1>1. RunsStay /\ \A m : AcceptedTwice(m) => AcceptedTwice(m)'
    BY RunsStayStep, TwiceStays
  <1>2. ASSUME active' = active, \A j \in Job : Sending(j)' <=> Sending(j)
        PROVE  TurnHeld'
    BY <1>1, <1>2 DEF TurnHeld
  <1>3. CASE UNCHANGED turn
    BY <1>2, <1>3 DEF Sending
  <1>4. ASSUME NEW j \in Job, ReceiveAccept(j)
        PROVE  TurnHeld'
    <2>1. active' = active /\ \A k \in Job : Sending(k)' <=> Sending(k)
      BY <1>4 DEF ReceiveAccept, Sending, TypeInv, TurnInv, TurnType
    <2>2. QED
      BY <1>2, <2>1
  <1>5. ASSUME NEW j \in Job, AcquireTurn(j)
        PROVE  TurnHeld'
    <2>1. active = None \/ active = j.media
      BY <1>5 DEF AcquireTurn, CanTakeTurn
    <2>2. CASE j.media \in bin
      <3>1. active' = j.media /\ Sending(j)' /\ \A k \in Job : k # j => (Sending(k)' <=> Sending(k))
        BY <1>5, <2>2 DEF AcquireTurn, Sending, TypeInv, TurnInv, TurnType
      <3>2. ASSUME NEW k \in Job, k # j, Sending(k)
            PROVE  k.media = j.media \/ AcceptedTwice(k.media)'
        BY <1>1, <2>1, <3>2, JobFacts, NoneIsNone DEF TurnHeld
      <3>3. QED
        BY <3>1, <3>2 DEF TurnHeld
    <2>3. CASE j.media \notin bin
      <3>1. active' = None /\ \A k \in Job : Sending(k)' <=> Sending(k)
        BY <1>5, <2>3 DEF AcquireTurn, Sending, TypeInv, TurnInv, TurnType
      <3>2. ASSUME NEW k \in Job, Sending(k)
            PROVE  AcceptedTwice(k.media)'
        <4>1. CASE active = k.media
          <5>1. k.media = j.media
            BY <2>1, <4>1, JobFacts, NoneIsNone
          <5>2. k # j /\ pc[k] # "idle" /\ pc[j] # "idle"
            BY <1>5, <3>2 DEF AcquireTurn, Sending
          <5>3. QED
            BY <1>1, <5>1, <5>2, TwoRuns
        <4>2. CASE active # k.media
          BY <1>1, <3>2, <4>2 DEF TurnHeld
        <4>3. QED
          BY <4>1, <4>2
      <3>3. QED
        BY <3>1, <3>2 DEF TurnHeld
    <2>4. QED
      BY <2>2, <2>3
  <1>6. ASSUME NEW j \in Job, FinishRun(j) \/ StopRun(j)
        PROVE  TurnHeld'
    <2>1. /\ active' = IF active = j.media THEN None ELSE active
          /\ ~Sending(j)' /\ \A k \in Job : k # j => (Sending(k)' <=> Sending(k))
          /\ pc[j] # "idle"
      BY <1>6 DEF FinishRun, StopRun, Release, Sending, TypeInv, TurnInv, TurnType
    <2>2. ASSUME NEW k \in Job, k # j, Sending(k), ~AcceptedTwice(k.media)
          PROVE  active' = k.media
      <3>1. active = k.media
        BY <2>2 DEF TurnHeld
      <3>2. k.media # j.media
        BY <2>1, <2>2, TwoRuns DEF Sending
      <3>3. QED
        BY <2>1, <3>1, <3>2
    <2>3. ASSUME active' # None
          PROVE  \E k \in Job : k.media = active' /\ Sending(k)'
      BY <2>1, <2>3 DEF TurnHeld
    <2>4. QED
      BY <1>1, <2>1, <2>2, <2>3 DEF TurnHeld
  <1>7. ASSUME NEW j \in Job, PrepareChunk(j) \/ PushChunk(j) \/ AddChunk(j)
        PROVE  TurnHeld'
    <2>1. active' = active /\ \A k \in Job : Sending(k)' <=> Sending(k)
      BY <1>7 DEF PrepareChunk, PushChunk, AddChunk, Sending, TypeInv, TurnInv, TurnType
    <2>2. QED
      BY <1>2, <2>1
  <1>8. CASE RestartSender
    BY <1>8 DEF RestartSender, TurnHeld, Sending, TypeInv, TurnInv, TurnType
  <1>9. CASE SenderNext
    BY <1>3, <1>4, <1>5, <1>6, <1>7, <1>8, <1>9
    DEF SenderNext, RunStep, WorkerStep, TakeChunk, SendChunk, RetryStep, RetryScans, RetryItem,
        RetryScan, RetryFails, RetryQueues, RetryDefers, SenderReceives, ReceiveDelivered,
        ReceiveComplete, ReceiveRead, ReceiveReadFile, MarkUnfound, CleanupSent,
        ReceiveDecline, AbortTransfer, DiscardFile, DeleteFile, SaveSender
  <1>10. QED
    BY <1>3, <1>9 DEF Next, ReceiverNext, vars

LEMMA TurnHeldAlways == Spec => []TurnHeld
  <1>1. Init => TypeInv /\ TurnHeld
    BY TypeInit DEF Init, SenderInit, TurnHeld, Sending
  <1>2. TypeInv /\ TurnHeld /\ [Next]_vars => TypeInv' /\ TurnHeld'
    BY TypeStep, TurnHeldStep
  <1>3. QED
    BY <1>1, <1>2, PTL DEF Spec

\* Files are queued one after the other, but for those that were accepted twice (a second
\* accept breaks the order: the deferred release frees the turn whichever run holds it).
THEOREM TurnIsExclusive == Spec => []OneFileAtATime
  <1>1. TurnHeld => OneFileAtATime
    BY DEF TurnHeld, OneFileAtATime
  <1>2. QED
    BY <1>1, TurnHeldAlways, PTL

\* The turn is neither lost nor held by a run that has ended, however many accepts and
\* aborts there are, so that the next file can take it.
THEOREM TurnIsNeverLost == Spec => []TurnHasOwner
  <1>1. TurnHeld => TurnHasOwner
    BY DEF TurnHeld, TurnHasOwner
  <1>2. QED
    BY <1>1, TurnHeldAlways, PTL
-----------------------------------------------------------------------------
\* The abort.  A run that an aborted file has to itself either has ended or finds the flag up;
\* with a second accept the run that stops first takes the flag down.

\* Only an accepted file can be aborted.
OfferOpen == \A m \in offerAccepted : Accepted(m)

AbortHolds ==
    /\ OfferOpen
    /\ \A m \in abortRequested : Accepted(m)
    /\ \A j \in Job : j.media \in abortRequested /\ pc[j] \notin {"idle", "done"} =>
            j.media \in aborted \/ AcceptedTwice(j.media)

LEMMA AbortHoldsStep == TypeInv /\ AbortHolds /\ [Next]_vars => AbortHolds'
  <1> SUFFICES ASSUME TypeInv, AbortHolds, [Next]_vars PROVE AbortHolds'
    OBVIOUS
  <1> USE DEF turn, user, senderHistory, senderVars
  <1>1. /\ \A m : AcceptedTwice(m) => AcceptedTwice(m)'
        /\ \A m : Accepted(m) => Accepted(m)'
    BY RunsStayStep, TwiceStays DEF RunsStay, Accepted
  <1>2. ASSUME abortRequested' = abortRequested, aborted' = aborted,
               offerAccepted' \subseteq offerAccepted,
               \A j \in Job : pc'[j] = pc[j] \/ pc'[j] = "done" \/ pc[j] \notin {"idle", "done"}
        PROVE  AbortHolds'
    BY <1>1, <1>2 DEF AbortHolds, OfferOpen
  <1>3. ASSUME UNCHANGED <<pc, abortRequested, aborted, offerAccepted>> PROVE AbortHolds'
    BY <1>2, <1>3
  <1>4. ASSUME NEW j \in Job, AcquireTurn(j) \/ FinishRun(j) \/ PrepareChunk(j)
                              \/ PushChunk(j) \/ AddChunk(j)
        PROVE  AbortHolds'
    <2>1. UNCHANGED <<abortRequested, aborted, offerAccepted>>
      BY <1>4 DEF AcquireTurn, FinishRun, PrepareChunk, PushChunk, AddChunk
    <2>2. \A k \in Job : pc'[k] = pc[k] \/ pc[k] \notin {"idle", "done"}
      BY <1>4
      DEF AcquireTurn, FinishRun, PrepareChunk, PushChunk, AddChunk, TypeInv, TurnInv, TurnType
    <2>3. QED
      BY <1>2, <2>1, <2>2
  <1>5. ASSUME NEW j \in Job, ReceiveAccept(j) PROVE AbortHolds'
    <2>1. /\ abortRequested' = abortRequested /\ aborted' = aborted
          /\ offerAccepted' = offerAccepted \cup {j.media}
          /\ pc[j] = "idle" /\ pc'[j] = "wait"
          /\ \A k \in Job : k # j => pc'[k] = pc[k]
      BY <1>5 DEF ReceiveAccept, TypeInv, TurnInv, TurnType
    <2>2. ASSUME j.media \in abortRequested PROVE AcceptedTwice(j.media)'
      <3>1. PICK k \in Job : k.media = j.media /\ pc[k] # "idle"
        BY <2>2 DEF AbortHolds, Accepted
      <3>2. k # j
        BY <2>1, <3>1
      <3>3. QED
        BY <2>1, <3>1, <3>2 DEF AcceptedTwice
    <2>3. Accepted(j.media)'
      BY <2>1 DEF Accepted
    <2>4. QED
      BY <1>1, <2>1, <2>2, <2>3 DEF AbortHolds, OfferOpen
  <1>6. ASSUME NEW j \in Job, StopRun(j) PROVE AbortHolds'
    <2>1. /\ UNCHANGED <<abortRequested, offerAccepted>> /\ aborted' = aborted \ {j.media}
          /\ pc' = [pc EXCEPT ![j] = "done"] /\ pc[j] = "check"
      BY <1>6 DEF StopRun
    <2>2. ASSUME NEW k \in Job, k # j, k.media = j.media, pc[k] # "idle"
          PROVE  AcceptedTwice(k.media)'
      BY <1>1, <2>1, <2>2, TwoRuns
    <2>3. QED
      BY <1>1, <2>1, <2>2 DEF AbortHolds, OfferOpen, TypeInv, TurnInv, TurnType
  <1>7. ASSUME NEW m \in Media, AbortTransfer(m) PROVE AbortHolds'
    <2>1. /\ abortRequested' = abortRequested \cup {m} /\ aborted' = aborted \cup {m}
          /\ offerAccepted' \subseteq offerAccepted /\ pc' = pc /\ m \in offerAccepted
      BY <1>7 DEF AbortTransfer
    <2>2. QED
      BY <1>1, <2>1 DEF AbortHolds, OfferOpen
  <1>8. CASE RestartSender
    <2>1. /\ abortRequested' = abortRequested /\ offerAccepted' = {}
          /\ \A j \in Job : pc'[j] = IF pc[j] = "idle" THEN "idle" ELSE "done"
      BY <1>8 DEF RestartSender
    <2>2. QED
      BY <1>1, <2>1 DEF AbortHolds, OfferOpen
  <1>9. ASSUME NEW m \in Media, ReceiveDecline(m) PROVE AbortHolds'
    <2>1. UNCHANGED <<pc, abortRequested, aborted>> /\ offerAccepted' \subseteq offerAccepted
      BY <1>9 DEF ReceiveDecline
    <2>2. QED
      BY <1>2, <2>1
  <1>10. CASE SenderNext
    BY <1>3, <1>4, <1>5, <1>6, <1>7, <1>8, <1>9, <1>10
    DEF SenderNext, RunStep, WorkerStep, TakeChunk, SendChunk, RetryStep, RetryScans, RetryItem,
        RetryScan, RetryFails, RetryQueues, RetryDefers, SenderReceives, ReceiveDelivered,
        ReceiveComplete, ReceiveRead, ReceiveReadFile, MarkUnfound, CleanupSent,
        DiscardFile, DeleteFile, SaveSender
  <1>11. QED
    BY <1>3, <1>10 DEF Next, ReceiverNext, vars

LEMMA OnlyPrepared ==
    ASSUME TypeInv, Next, NEW j \in Job, pc[j] = "check", pc'[j] = "push"
    PROVE  ~Stopped(j.media)
  <1> USE DEF turn, senderVars
  <1>1. ASSUME UNCHANGED pc PROVE FALSE
    BY <1>1
  <1>2. ASSUME NEW k \in Job, ReceiveAccept(k) \/ RunStep(k) PROVE ~Stopped(j.media)
    <2>1. CASE PrepareChunk(k) /\ k = j
      BY <2>1 DEF PrepareChunk
    <2>2. CASE ~PrepareChunk(k) \/ k # j
      BY <1>2, <2>2
      DEF RunStep, ReceiveAccept, AcquireTurn, FinishRun, StopRun, PrepareChunk, PushChunk,
          AddChunk, TypeInv, TurnInv, TurnType
    <2>3. QED
      BY <2>1, <2>2
  <1>3. CASE RestartSender
    BY <1>3 DEF RestartSender
  <1>4. CASE SenderNext
    BY <1>1, <1>2, <1>3, <1>4
    DEF SenderNext, WorkerStep, TakeChunk, SendChunk, RetryStep, RetryScans, RetryItem,
        RetryScan, RetryFails, RetryQueues, RetryDefers, SenderReceives, ReceiveDelivered,
        ReceiveComplete, ReceiveRead, ReceiveReadFile, MarkUnfound, CleanupSent,
        ReceiveDecline, AbortTransfer, DiscardFile, DeleteFile, SaveSender
  <1>5. QED
    BY <1>1, <1>4 DEF Next, ReceiverNext

\* After an abort the run of a file that was accepted once reads no further chunk, also when
\* sending [FILE_ABORT] failed.
THEOREM AbortIsSeen == Spec => AbortStopsRun
  <1> DEFINE Holds == \A j \in Job :
                        j.media \in abortRequested /\ ~AcceptedTwice(j.media) /\ pc[j] = "check"
                            => pc'[j] # "push"
  <1>1. Init => TypeInv /\ AbortHolds
    BY TypeInit DEF Init, SenderInit, AbortHolds, OfferOpen
  <1>2. TypeInv /\ AbortHolds /\ [Next]_vars => TypeInv' /\ AbortHolds'
    BY TypeStep, AbortHoldsStep
  <1>3. TypeInv /\ AbortHolds /\ [Next]_vars => [Holds]_vars
    BY OnlyPrepared DEF AbortHolds, Stopped
  <1>4. QED
    BY <1>1, <1>2, <1>3, PTL DEF Spec, AbortStopsRun
-----------------------------------------------------------------------------
\* [DELIVERED] is a promise, as long as the receiver does not restart: what is in its
\* memory, or acknowledged anywhere, is held or its file was aborted.

Steady == "receiverCrash" \notin Events

HeldOrAborted(c) == Held(c) \/ c.media \in abortRequested

HeldInv ==
    /\ \A c \in memR : HeldOrAborted(c)
    /\ AckedIsHeld
    /\ \A m \in Media : AbortMsg(m) \in net => m \in abortRequested

\* Nothing is acknowledged that was not: the buffer and the network bring nothing new.
LEMMA AckFrame ==
    ASSUME ackBuf' \subseteq ackBuf, acked' \subseteq Acknowledged,
           \A x \in net' : x \in net \/ x.type # "delivered" \/ x = DeliveredMsg(ackBuf)
    PROVE  Acknowledged' \subseteq Acknowledged
  <1> SUFFICES ASSUME NEW c \in Acknowledged'
               PROVE  c \in Acknowledged
    OBVIOUS
  <1>1. CASE c \in ackBuf'
    BY <1>1 DEF Acknowledged
  <1>2. CASE c \in acked'
    BY <1>2
  <1>3. CASE \E x \in net' : x.type = "delivered" /\ c \in x.refs
    <2>1. PICK x \in net' : x.type = "delivered" /\ c \in x.refs
      BY <1>3
    <2>2. CASE x \in net
      BY <2>1, <2>2 DEF Acknowledged
    <2>3. CASE x = DeliveredMsg(ackBuf)
      BY <2>1, <2>3 DEF Acknowledged, DeliveredMsg
    <2>4. QED
      BY <2>1, <2>2, <2>3
  <1>4. QED
    BY <1>1, <1>2, <1>3 DEF Acknowledged

\* A step keeps the promise when it takes no held chunk away and neither acknowledges nor
\* adds to the memory any chunk but c, which is held.
LEMMA HeldAdds ==
    ASSUME TypeInv, HeldInv, NEW c \in Chunk, HeldOrAborted(c)',
           memR' \subseteq memR \cup {c}, Acknowledged' \subseteq Acknowledged \cup {c},
           \A d \in Chunk : HeldOrAborted(d) => HeldOrAborted(d)',
           abortRequested \subseteq abortRequested',
           \A m \in Media : AbortMsg(m) \in net' => AbortMsg(m) \in net \/ m \in abortRequested'
    PROVE  HeldInv'
  <1>1. memR \subseteq Chunk /\ Acknowledged \subseteq Chunk
    BY DEF TypeInv, ChunkStateType, StreamType, SenderHistoryType, NetType, Message, Acknowledged
  <1>2. \A d \in memR \cup Acknowledged : HeldOrAborted(d)
    BY DEF HeldInv, AckedIsHeld, HeldOrAborted
  <1>3. \A d \in memR' \cup Acknowledged' : HeldOrAborted(d)'
    BY <1>1, <1>2
  <1>4. AckedIsHeld'
    BY <1>3 DEF AckedIsHeld, HeldOrAborted
  <1>5. QED
    BY <1>3, <1>4 DEF HeldInv

\* A step that adds nothing keeps it, too.
LEMMA HeldFrame ==
    ASSUME TypeInv, HeldInv, memR' \subseteq memR, Acknowledged' \subseteq Acknowledged,
           \A c \in Chunk : HeldOrAborted(c) => HeldOrAborted(c)',
           abortRequested \subseteq abortRequested',
           \A m \in Media : AbortMsg(m) \in net' => AbortMsg(m) \in net \/ m \in abortRequested'
    PROVE  HeldInv'
  <1>1. memR \subseteq Chunk /\ Acknowledged \subseteq Chunk
    BY DEF TypeInv, ChunkStateType, StreamType, SenderHistoryType, NetType, Message, Acknowledged
  <1>2. \A c \in memR \cup Acknowledged : HeldOrAborted(c)
    BY DEF HeldInv, AckedIsHeld, HeldOrAborted
  <1>3. \A c \in memR' \cup Acknowledged' : HeldOrAborted(c)'
    BY <1>1, <1>2
  <1>4. AckedIsHeld'
    BY <1>3 DEF AckedIsHeld, HeldOrAborted
  <1>5. QED
    BY <1>3, <1>4 DEF HeldInv

\* What the sender puts into the network, confirms and aborts.
LEMMA SenderOutput ==
    ASSUME TypeInv, SenderNext
    PROVE  /\ UNCHANGED receiverVars
           /\ abortRequested \subseteq abortRequested'
           /\ acked' \subseteq Acknowledged
           /\ \A x \in net' : \/ x \in net
                              \/ \E c \in Chunk : x = ChunkMsg(c)
                              \/ \E m \in abortRequested' : x = AbortMsg(m)
  <1> DEFINE Out == /\ abortRequested \subseteq abortRequested'
                    /\ acked' \subseteq Acknowledged
                    /\ \A x \in net' : \/ x \in net
                                       \/ \E c \in Chunk : x = ChunkMsg(c)
                                       \/ \E m \in abortRequested' : x = AbortMsg(m)
  <1> USE DEF senderHistory
  <1>1. acked \subseteq Acknowledged
    BY DEF Acknowledged
  <1>2. ASSUME NEW j \in Job, ReceiveAccept(j) \/ RunStep(j)
        PROVE  Out
    BY <1>1, <1>2
    DEF RunStep, ReceiveAccept, AcquireTurn, FinishRun, StopRun, PrepareChunk, PushChunk, AddChunk
  <1>3. ASSUME NEW w \in Workers, WorkerStep(w)
        PROVE  Out
    BY <1>1, <1>3 DEF WorkerStep, TakeChunk, SendChunk, TypeInv, PipelineType
  <1>4. ASSUME RetryStep
        PROVE  Out
    <2>1. UNCHANGED <<net, acked, abortRequested>>
      BY <1>4
      DEF RetryStep, RetryScans, RetryItem, RetryScan, RetryFails, RetryQueues, RetryDefers
    <2>2. QED
      BY <1>1, <2>1
  <1>5. ASSUME NEW msg \in net, msg.type = "delivered", ReceiveDelivered(msg.refs)
        PROVE  Out
    <2>1. msg.refs \subseteq Acknowledged
      BY <1>5 DEF Acknowledged
    <2>2. QED
      BY <1>1, <1>5, <2>1 DEF ReceiveDelivered
  <1>6. ASSUME NEW m \in Media, \/ ReceiveComplete(m) \/ ReceiveReadFile(m) \/ ReceiveDecline(m)
                                \/ AbortTransfer(m) \/ DiscardFile(m) \/ DeleteFile(m)
        PROVE  Out
    BY <1>1, <1>6
    DEF ReceiveComplete, ReceiveReadFile, ReceiveDecline, AbortTransfer, DiscardFile, DeleteFile
  <1>7. ASSUME NEW c \in Chunk, ReceiveRead(c) \/ MarkUnfound(c)
        PROVE  Out
    BY <1>1, <1>7 DEF ReceiveRead, MarkUnfound
  <1>8. ASSUME NEW old \in SUBSET bin, CleanupSent(old)
        PROVE  Out
    BY <1>1, <1>8 DEF CleanupSent
  <1>9. ASSUME SaveSender \/ RestartSender
        PROVE  Out
    <2>1. UNCHANGED <<net, acked, abortRequested>>
      BY <1>9 DEF SaveSender, RestartSender
    <2>2. QED
      BY <1>1, <2>1
  <1>10. QED
    BY <1>2, <1>3, <1>4, <1>5, <1>6, <1>7, <1>8, <1>9 DEF SenderNext, SenderReceives

LEMMA HeldStep == Steady /\ TypeInv /\ HeldInv /\ [Next]_vars => HeldInv'
  <1> SUFFICES ASSUME Steady, TypeInv, HeldInv, [Next]_vars PROVE HeldInv'
    OBVIOUS
  <1> USE DEF streamState, chunkState, appState, abortState, receiverHistory, receiverVars,
              senderHistory, senderVars
  <1>1. CASE SenderNext
    <2>1. \A x \in net' : x \in net \/ x.type # "delivered"
      BY <1>1, SenderOutput DEF ChunkMsg, AbortMsg
    <2>2. Acknowledged' \subseteq Acknowledged
      BY <1>1, <2>1, SenderOutput, AckFrame
    <2>3. \A m \in Media : AbortMsg(m) \in net' => AbortMsg(m) \in net \/ m \in abortRequested'
      BY <1>1, SenderOutput, MessageKinds
    <2>4. \A c \in Chunk : HeldOrAborted(c) => HeldOrAborted(c)'
      BY <1>1, SenderOutput DEF HeldOrAborted, Held
    <2>5. QED
      BY <1>1, <2>2, <2>3, <2>4, SenderOutput, HeldFrame
  <1>2. ASSUME UNCHANGED senderVars, net' \subseteq net, UNCHANGED <<ackBuf, memR>>,
               text \subseteq text', UNCHANGED onDisk, assembled \subseteq assembled'
        PROVE  HeldInv'
    <2>1. Acknowledged' \subseteq Acknowledged
      BY <1>2, AckFrame DEF Acknowledged
    <2>2. \A c \in Chunk : HeldOrAborted(c) => HeldOrAborted(c)'
      BY <1>2 DEF HeldOrAborted, Held
    <2>3. QED
      BY <1>2, <2>1, <2>2, HeldFrame
  <1>3. ASSUME NEW c \in Chunk, StoreChunk(c), UNCHANGED senderVars
        PROVE  HeldInv'
    <2>1. Acknowledged' \subseteq Acknowledged \cup {c}
      BY <1>3 DEF StoreChunk, Acknowledged
    <2>2. HeldOrAborted(c)'
      BY <1>3 DEF StoreChunk, Seen, HeldInv, HeldOrAborted, Held
    <2>3. \A d \in Chunk : HeldOrAborted(d) => HeldOrAborted(d)'
      BY <1>3 DEF StoreChunk, HeldOrAborted, Held
    <2>4. memR' \subseteq memR \cup {c}
      BY <1>3 DEF StoreChunk
    <2>5. QED
      BY <1>3, <2>1, <2>2, <2>3, <2>4, HeldAdds DEF StoreChunk
  <1>4. ASSUME NEW c \in Chunk, ReadFile(c), UNCHANGED senderVars
        PROVE  HeldInv'
    <2>1. Acknowledged' \subseteq Acknowledged
      BY <1>4, AckFrame DEF ReadFile, ReadMsg, Acknowledged
    <2>2. \A d \in Chunk : HeldOrAborted(d) => HeldOrAborted(d)'
      BY <1>4 DEF ReadFile, HeldOrAborted, Held
    <2>3. QED
      BY <1>4, <2>1, <2>2, MessageKinds, HeldFrame DEF ReadFile
  <1>5. ASSUME NEW m \in Media, ReadFileBatch(m), UNCHANGED senderVars
        PROVE  HeldInv'
    <2>1. Acknowledged' \subseteq Acknowledged
      BY <1>5, AckFrame DEF ReadFileBatch, ReadFileMsg, Acknowledged
    <2>2. \A d \in Chunk : HeldOrAborted(d) => HeldOrAborted(d)'
      BY <1>5 DEF ReadFileBatch, HeldOrAborted, Held
    <2>3. QED
      BY <1>5, <2>1, <2>2, MessageKinds, HeldFrame DEF ReadFileBatch
  <1>6. ASSUME FlushDelivered, UNCHANGED senderVars
        PROVE  HeldInv'
    <2>1. Acknowledged' \subseteq Acknowledged
      BY <1>6, AckFrame DEF FlushDelivered, Acknowledged
    <2>2. \A c \in Chunk : HeldOrAborted(c) => HeldOrAborted(c)'
      BY <1>6 DEF FlushDelivered, HeldOrAborted, Held
    <2>3. QED
      BY <1>6, <2>1, <2>2, MessageKinds, HeldFrame DEF FlushDelivered
  <1>7. ASSUME NEW m \in Media, NEW i \in Index, SaveChunk(m, i), UNCHANGED senderVars
        PROVE  HeldInv'
    <2>1. Acknowledged' \subseteq Acknowledged
      BY <1>7, AckFrame DEF SaveChunk, Acknowledged
    <2>2. \A c \in Chunk : HeldOrAborted(c) => HeldOrAborted(c)'
      BY <1>7, JobFacts DEF SaveChunk, TypeInv, AppType, HeldOrAborted, Held
    <2>3. QED
      BY <1>7, <2>1, <2>2, HeldFrame DEF SaveChunk
  <1>8. ASSUME NEW m \in Media, TryAssemble(m), UNCHANGED senderVars
        PROVE  HeldInv'
    <2>1. /\ \A x \in net' : x \in net \cup {CompleteMsg(m), DeliveredMsg(ackBuf)}
          /\ ackBuf' \subseteq ackBuf
      BY <1>8 DEF TryAssemble
    <2>2. Acknowledged' \subseteq Acknowledged
      BY <1>8, <2>1, AckFrame DEF CompleteMsg, Acknowledged
    <2>3. \A c \in Chunk : HeldOrAborted(c) => HeldOrAborted(c)'
      BY <1>8, JobFacts DEF TryAssemble, TypeInv, AppType, HeldOrAborted, Held
    <2>4. QED
      BY <1>8, <2>1, <2>2, <2>3, MessageKinds, HeldFrame DEF TryAssemble
  <1>9. ASSUME NEW m \in Media, ReceiveAbort(m), UNCHANGED senderVars
        PROVE  HeldInv'
    <2>1. m \in abortRequested
      BY <1>9 DEF ReceiveAbort, HeldInv
    <2>2. Acknowledged' \subseteq Acknowledged
      BY <1>9, AckFrame DEF ReceiveAbort, Acknowledged
    <2>3. \A c \in Chunk : HeldOrAborted(c) => HeldOrAborted(c)'
      BY <1>9, <2>1, JobFacts DEF ReceiveAbort, Drop, TypeInv, AppType, HeldOrAborted, Held
    <2>4. QED
      BY <1>9, <2>2, <2>3, HeldFrame DEF ReceiveAbort
  <1>10. CASE ReceiverNext
    <2>1. ASSUME NEW c \in Chunk, ReceiveChunk(c)
          PROVE  HeldInv'
      BY <1>2, <1>10, <2>1 DEF ReceiverNext, ReceiveChunk
    <2>2. CASE SaveReceiver
      BY <1>2, <1>10, <2>2 DEF ReceiverNext, SaveReceiver
    <2>3. ASSUME NEW m \in Media, RecordAbort(m)
          PROVE  HeldInv'
      BY <1>2, <1>10, <2>3 DEF ReceiverNext, RecordAbort
    <2>4. CASE RestartReceiver
      BY <2>4 DEF RestartReceiver, Steady
    <2>5. QED
      BY <1>3, <1>4, <1>6, <1>7, <1>8, <1>9, <1>10, <1>5, <2>1, <2>2, <2>3, <2>4 DEF ReceiverNext
  <1>11. CASE Lose /\ UNCHANGED <<senderVars, receiverVars>>
    BY <1>2, <1>11 DEF Lose
  <1>12. CASE UNCHANGED vars
    BY <1>2, <1>12 DEF vars
  <1>13. QED
    BY <1>1, <1>10, <1>11, <1>12 DEF Next

\* A chunk that was acknowledged, so that the sender stops retrying it, has its data at
\* the receiver, as long as the receiver does not restart (a restart forgets the data of
\* chunks that are not yet on disk).
THEOREM AcknowledgedIsHeld ==
    ASSUME Steady
    PROVE  Spec => []AckedIsHeld
  <1>1. Init => TypeInv /\ HeldInv
    BY TypeInit DEF Init, SenderInit, ReceiverInit, HeldInv, AckedIsHeld, Acknowledged
  <1>2. TypeInv /\ HeldInv /\ [Next]_vars => TypeInv' /\ HeldInv'
    BY Steady, TypeStep, HeldStep
  <1>3. HeldInv => AckedIsHeld
    BY DEF HeldInv
  <1>4. QED
    BY <1>1, <1>2, <1>3, PTL DEF Spec
-----------------------------------------------------------------------------
LEMMA InHandChunk ==
    ASSUME TurnInv, NEW j \in Job, pc[j] \in {"push", "add"}
    PROVE  ChunkOf(j, next[j]) \in Chunk
  <1>1. next[j] \in Index
    BY FileConstants DEF TurnInv, TurnType, InLoop, Index
  <1>2. QED
    BY <1>1, JobFacts

\* The books of the sender.  A chunk that is known to them stays known, in every step but a
\* restart of the sender.

CountFull(m) == deliveredCount[m] >= Total

Tracked(c) ==
    \/ InPipeline(c)
    \/ c \in DOMAIN unacked \cup acked \cup gaveUp
    \/ c.media \in abortRequested \cup dropped
    \/ CountFull(c.media)

\* ... which it does when what is taken out of the pipeline, the entries or the count goes
\* to another of the books.
LEMMA TrackedFrame ==
    ASSUME NEW c, Tracked(c),
           acked \subseteq acked', gaveUp \subseteq gaveUp',
           abortRequested \subseteq abortRequested', dropped \subseteq dropped',
           InPipeline(c) => Tracked(c)',
           c \in DOMAIN unacked => Tracked(c)',
           CountFull(c.media) => Tracked(c)'
    PROVE  Tracked(c)'
  BY DEF Tracked

LEMMA SameBooks ==
    ASSUME NEW c, Tracked(c),
           UNCHANGED <<chunkQueue, worker, unacked, acked, deliveredCount>>,
           gaveUp \subseteq gaveUp', abortRequested \subseteq abortRequested',
           dropped \subseteq dropped'
    PROVE  Tracked(c)'
  BY DEF Tracked, InPipeline, CountFull

\* A queue that gets a chunk keeps its chunks; one that loses its head keeps the others.
LEMMA QueueGrows ==
    ASSUME PipelineType, NEW c \in Chunk, NEW d \in Chunk, chunkQueue' = Append(chunkQueue, d),
           UNCHANGED worker
    PROVE  InPipeline(d)' /\ (InPipeline(c) => InPipeline(c)')
  <1>1. /\ Len(chunkQueue') = Len(chunkQueue) + 1 /\ chunkQueue'[Len(chunkQueue) + 1] = d
        /\ \A i \in 1..Len(chunkQueue) : chunkQueue'[i] = chunkQueue[i]
        /\ chunkQueue' \in Seq(Chunk) /\ chunkQueue \in Seq(Chunk)
    BY DEF PipelineType
  <1>2. DOMAIN chunkQueue = 1..Len(chunkQueue) /\ DOMAIN chunkQueue' = 1..Len(chunkQueue')
    BY <1>1
  <1>3. Len(chunkQueue) \in Nat
    BY <1>1
  <1>4. InPipeline(d)'
    BY <1>1, <1>2, <1>3 DEF InPipeline
  <1>5. InPipeline(c) => InPipeline(c)'
    BY <1>1, <1>2, <1>3 DEF InPipeline
  <1>6. QED
    BY <1>4, <1>5

LEMMA QueueShrinks ==
    ASSUME PipelineType, NEW c \in Chunk, chunkQueue # <<>>, chunkQueue' = Tail(chunkQueue),
           NEW i \in DOMAIN chunkQueue, chunkQueue[i] = c, c # Head(chunkQueue)
    PROVE  \E k \in DOMAIN chunkQueue' : chunkQueue'[k] = c
  <1>1. chunkQueue \in Seq(Chunk) /\ i \in 1..Len(chunkQueue)
    BY DEF PipelineType
  <1>2. Head(chunkQueue) = chunkQueue[1]
    BY <1>1
  <1>3. i # 1 /\ i - 1 \in 1..(Len(chunkQueue) - 1)
    BY <1>1, <1>2
  <1>4. DOMAIN chunkQueue' = 1..(Len(chunkQueue) - 1) /\ chunkQueue'[i - 1] = chunkQueue[i]
    BY <1>1, <1>3
  <1>5. QED
    BY <1>3, <1>4

\* A worker that takes the head of the queue holds it, unless its transfer is aborted.
LEMMA TrackedTaken ==
    ASSUME TypeInv, UserAborted, NEW w \in Workers, TakeChunk(w), NEW c \in Chunk, Tracked(c)
    PROVE  Tracked(c)'
  <1>1. PipelineType /\ \A v \in Workers : worker[v] # None \/ v = w \/ v # w
    BY DEF TypeInv
  <1>2. UNCHANGED <<unacked, acked, gaveUp, abortRequested, dropped, deliveredCount>>
    BY DEF TakeChunk, retry, store, senderHistory
  <1>3. ASSUME InPipeline(c) PROVE Tracked(c)'
    <2>1. CASE \E v \in Workers : worker[v] = c
      <3>1. PICK v \in Workers : worker[v] = c
        BY <2>1
      <3>2. v # w
        BY <3>1, NoneIsNone DEF TakeChunk
      <3>3. worker'[v] = c
        BY <1>1, <3>1, <3>2 DEF TakeChunk, PipelineType
      <3>4. QED
        BY <3>3 DEF Tracked, InPipeline
    <2>2. ASSUME NEW i \in DOMAIN chunkQueue, chunkQueue[i] = c PROVE Tracked(c)'
      <3>1. CASE c # Head(chunkQueue)
        <4>1. \E k \in DOMAIN chunkQueue' : chunkQueue'[k] = c
          BY <1>1, <2>2, <3>1, QueueShrinks DEF TakeChunk
        <4>2. QED
          BY <4>1 DEF Tracked, InPipeline
      <3>2. CASE c = Head(chunkQueue) /\ Stopped(c.media)
        BY <1>2, <3>2 DEF Tracked, Stopped, UserAborted
      <3>3. CASE c = Head(chunkQueue) /\ ~Stopped(c.media)
        <4>1. worker'[w] = c
          BY <1>1, <3>3 DEF TakeChunk, PipelineType
        <4>2. QED
          BY <4>1 DEF Tracked, InPipeline
      <3>4. QED
        BY <3>1, <3>2, <3>3
    <2>3. QED
      BY <1>3, <2>1, <2>2 DEF InPipeline
  <1>4. QED
    BY <1>2, <1>3, TrackedFrame DEF Tracked, CountFull

\* A worker that sends its chunk has entered it.
LEMMA TrackedSent ==
    ASSUME TypeInv, NEW w \in Workers, SendChunk(w), NEW c \in Chunk, Tracked(c)
    PROVE  Tracked(c)'
  <1>1. DOMAIN unacked' = DOMAIN unacked \cup {worker[w]}
    BY DEF SendChunk, Register, With
  <1>2. UNCHANGED <<acked, gaveUp, abortRequested, dropped, deliveredCount, chunkQueue>>
    BY DEF SendChunk, store, senderHistory
  <1>3. \A v \in Workers : v # w => worker'[v] = worker[v]
    BY DEF SendChunk, TypeInv, PipelineType
  <1>4. InPipeline(c) => Tracked(c)'
    BY <1>1, <1>2, <1>3 DEF InPipeline, Tracked
  <1>5. QED
    BY <1>1, <1>2, <1>4, TrackedFrame DEF Tracked, CountFull

\* What an item of a retry scan does to the books.
LEMMA TrackedRetried ==
    ASSUME TypeInv, NEW c \in Chunk, Tracked(c), NEW item \in retryBatch, RetryItem(item)
    PROVE  Tracked(c)'
  <1>1. item.chunk \in Chunk
    BY DEF TypeInv, RetryInv, RetryType
  <1>2. CASE RetryFails(item)
    <2>1. UNCHANGED <<acked, abortRequested, dropped, deliveredCount, chunkQueue, worker>>
          /\ gaveUp \subseteq gaveUp'
      BY <1>2 DEF RetryFails, store, pipeline
    <2>2. c \in DOMAIN unacked => c \in DOMAIN unacked' \cup gaveUp'
      BY <1>2 DEF RetryFails, With, Without, Restrict
    <2>3. QED
      BY <2>1, <2>2, TrackedFrame DEF Tracked, InPipeline, CountFull
  <1>3. CASE RetryQueues(item)
    <2>1. UNCHANGED <<acked, gaveUp, abortRequested, dropped, deliveredCount, worker>>
      BY <1>3 DEF RetryQueues, store, senderHistory
    <2>2. DOMAIN unacked' = DOMAIN unacked
      BY <1>3 DEF RetryQueues, CountAttempt
    <2>3. InPipeline(c) => InPipeline(c)'
      BY <1>1, <1>3, QueueGrows DEF RetryQueues, TypeInv
    <2>4. QED
      BY <2>1, <2>2, <2>3, TrackedFrame DEF Tracked, CountFull
  <1>4. CASE RetryDefers(item)
    BY <1>4, SameBooks DEF RetryDefers, pipeline, store, senderHistory
  <1>5. QED
    BY <1>2, <1>3, <1>4 DEF RetryItem

\* An acknowledgement takes entries out that it names, or those of a file whose count is
\* full with it; a count does not fall.
LEMMA CountRises ==
    ASSUME StoreType, NEW m \in Media, NEW more \in Nat
    PROVE  /\ CountFull(m) => CountUp(m, more) >= Total
           /\ deliveredCount[m] + more >= Total => CountUp(m, more) >= Total
  BY FileConstants DEF StoreType, CountFull, CountUp

LEMMA TrackedAcked ==
    ASSUME TypeInv, NEW c \in Chunk, Tracked(c), NEW refs \in SUBSET Chunk, ReceiveDelivered(refs)
    PROVE  Tracked(c)'
  <1> DEFINE counted(m) == {d \in refs : d.media = m /\ d \in DOMAIN memS}
             full(m) == counted(m) # {} /\ deliveredCount[m] + Cardinality(counted(m)) >= Total
  <1>1. c.media \in Media /\ Cardinality(counted(c.media)) \in Nat
    BY JobFacts, CountType
  <1>2. deliveredCount'[c.media] = CountUp(c.media, Cardinality(counted(c.media)))
    BY <1>1 DEF ReceiveDelivered
  <1>3. /\ UNCHANGED <<chunkQueue, worker, gaveUp, abortRequested, dropped>>
        /\ acked' = acked \cup refs
        /\ DOMAIN unacked' = {d \in DOMAIN unacked :
                                ~(d \in refs \/ (d \in EntriesOf(d.media) /\ full(d.media)))}
    BY DEF ReceiveDelivered, pipeline, Without, Restrict
  <1>4. CountFull(c.media) \/ full(c.media) => CountFull(c.media)'
    <2> HIDE DEF counted
    <2>1. QED
      BY <1>1, <1>2, CountRises DEF CountFull, TypeInv
  <1> HIDE DEF full
  <1>5. QED
    BY <1>3, <1>4, TrackedFrame DEF Tracked, InPipeline

\* So does one that goes on after its lookup.
LEMMA TrackedMarked ==
    ASSUME TypeInv, NEW c \in Chunk, Tracked(c), NEW d \in Chunk, MarkUnfound(d)
    PROVE  Tracked(c)'
  <1>1. /\ UNCHANGED <<chunkQueue, worker, acked, gaveUp, abortRequested, dropped>>
    BY DEF MarkUnfound, pipeline
  <1>2. c.media \in Media /\ d.media \in Media
    BY JobFacts
  <1>3. CountFull(c.media) => CountFull(c.media)'
    <2>1. \/ deliveredCount'[c.media] = deliveredCount[c.media]
          \/ deliveredCount'[c.media] = CountUp(c.media, 1)
      BY <1>2 DEF MarkUnfound, TypeInv, StoreType
    <2>2. QED
      BY <1>2, <2>1, CountRises DEF CountFull, TypeInv
  <1>4. c \in DOMAIN unacked => c \in DOMAIN unacked' \/ CountFull(c.media)'
    <2>1. CASE UNCHANGED unacked
      BY <2>1
    <2>2. CASE unacked' # unacked
      <3>1. /\ deliveredCount' = [deliveredCount EXCEPT ![d.media] = CountUp(d.media, 1)]
            /\ deliveredCount[d.media] + 1 >= Total
            /\ unacked' = Without(unacked, EntriesOf(d.media))
        BY <2>2 DEF MarkUnfound
      <3>2. CASE c.media = d.media
        <4>1. deliveredCount'[c.media] = CountUp(c.media, 1)
          BY <1>2, <3>1, <3>2 DEF TypeInv, StoreType
        <4>2. QED
          BY <1>2, <3>1, <3>2, <4>1, CountRises DEF CountFull, TypeInv
      <3>3. CASE c.media # d.media
        BY <3>1, <3>3 DEF EntriesOf, Without, Restrict
      <3>4. QED
        BY <3>2, <3>3
    <2>3. QED
      BY <2>1, <2>2
  <1>5. QED
    BY <1>1, <1>3, <1>4, TrackedFrame DEF Tracked, InPipeline

\* The counts and entries of a file go when it is declined or deleted.
LEMMA TrackedDropped ==
    ASSUME TypeInv, UserAborted, NEW c \in Chunk, Tracked(c), NEW m \in Media,
           ReceiveDecline(m) \/ DeleteFile(m)
    PROVE  Tracked(c)'
  <1>1. /\ UNCHANGED <<chunkQueue, worker, acked, gaveUp, abortRequested>>
        /\ dropped \subseteq dropped'
        /\ m \in abortRequested \cup dropped'
        /\ deliveredCount' = [deliveredCount EXCEPT ![m] = 0]
        /\ unacked' = unacked \/ unacked' = Without(unacked, EntriesOf(m))
    BY DEF ReceiveDecline, DeleteFile, UserAborted, pipeline, retry, senderHistory
  <1>2. CASE c.media = m
    BY <1>1, <1>2 DEF Tracked
  <1>3. CASE c.media # m
    <2>1. deliveredCount'[c.media] = deliveredCount[c.media]
      BY <1>1, <1>3, JobFacts DEF TypeInv, StoreType
    <2>2. c \in DOMAIN unacked => c \in DOMAIN unacked'
      BY <1>1, <1>3 DEF EntriesOf, Without, Restrict
    <2>3. QED
      BY <1>1, <2>1, <2>2, TrackedFrame DEF Tracked, InPipeline, CountFull
  <1>4. QED
    BY <1>2, <1>3

LEMMA TrackedStays ==
    ASSUME TypeInv, UserAborted, [Next]_vars, ~RestartSender, NEW c \in Chunk, Tracked(c)
    PROVE  Tracked(c)'
  <1> USE DEF pipeline, retry, store, senderHistory
  <1>1. ASSUME NEW j \in Job, ReceiveAccept(j) \/ AcquireTurn(j) \/ FinishRun(j) \/ StopRun(j)
                              \/ PrepareChunk(j) \/ AddChunk(j)
        PROVE  Tracked(c)'
    BY <1>1, SameBooks DEF ReceiveAccept, AcquireTurn, FinishRun, StopRun, PrepareChunk, AddChunk
  <1>2. ASSUME NEW j \in Job, PushChunk(j) PROVE Tracked(c)'
    <2>1. ChunkOf(j, next[j]) \in Chunk
      BY <1>2, InHandChunk DEF PushChunk, TypeInv
    <2>2. InPipeline(c) => InPipeline(c)'
      BY <1>2, <2>1, QueueGrows DEF PushChunk, TypeInv
    <2>3. UNCHANGED <<unacked, acked, gaveUp, abortRequested, dropped, deliveredCount>>
      BY <1>2 DEF PushChunk
    <2>4. QED
      BY <2>2, <2>3, TrackedFrame DEF Tracked, CountFull
  <1>3. ASSUME NEW due \in SUBSET DOMAIN unacked, RetryScan(due) PROVE Tracked(c)'
    <2>1. UNCHANGED <<chunkQueue, worker, acked, abortRequested, dropped, deliveredCount>>
          /\ gaveUp \subseteq gaveUp'
      BY <1>3 DEF RetryScan
    <2>2. c \in DOMAIN unacked => c \in DOMAIN unacked' \cup gaveUp'
      BY <1>3 DEF RetryScan, Without, Restrict
    <2>3. QED
      BY <2>1, <2>2, TrackedFrame DEF Tracked, InPipeline, CountFull
  <1>4. ASSUME NEW m \in Media, ReceiveComplete(m) PROVE Tracked(c)'
    <2>1. UNCHANGED <<chunkQueue, worker, unacked, acked, gaveUp, abortRequested, dropped>>
      BY <1>4 DEF ReceiveComplete
    <2>2. CountFull(c.media) => CountFull(c.media)'
      BY <1>4, JobFacts, FileConstants DEF ReceiveComplete, CountFull, TypeInv, StoreType
    <2>3. QED
      BY <2>1, <2>2, TrackedFrame DEF Tracked, InPipeline
  <1>5. ASSUME NEW d \in Chunk, ReceiveRead(d) PROVE Tracked(c)'
    BY <1>5, SameBooks DEF ReceiveRead
  <1>6. ASSUME NEW msg \in net, msg.type = "delivered", ReceiveDelivered(msg.refs)
        PROVE  Tracked(c)'
    <2>1. msg.refs \subseteq Chunk
      BY <1>6 DEF TypeInv, NetType, Message
    <2>2. QED
      BY <1>6, <2>1, TrackedAcked
  <1>7. ASSUME NEW old \in SUBSET bin, CleanupSent(old) PROVE Tracked(c)'
    BY <1>7, SameBooks DEF CleanupSent
  <1>8. ASSUME NEW m \in Media, AbortTransfer(m) \/ DiscardFile(m) \/ ReceiveReadFile(m)
        PROVE  Tracked(c)'
    BY <1>8, SameBooks DEF AbortTransfer, DiscardFile, ReceiveReadFile
  <1>9. CASE SaveSender
    BY <1>9, SameBooks DEF SaveSender
  <1>10. CASE UNCHANGED senderVars
    BY <1>10, SameBooks DEF senderVars
  <1>11. CASE SenderNext
    BY <1>1, <1>2, <1>3, <1>4, <1>5, <1>6, <1>7, <1>8, <1>9, <1>11, TrackedTaken, TrackedSent,
       TrackedRetried, TrackedMarked, TrackedDropped
    DEF SenderNext, RunStep, WorkerStep, RetryStep, RetryScans, SenderReceives
  <1>12. QED
    BY <1>10, <1>11 DEF Next, ReceiverNext, vars

\* A chunk that is put into chunkQueue is known from then on, before AddChunk adds it to the
\* memory.
LEMMA PushIsTracked ==
    ASSUME TypeInv, NEW j \in Job, PushChunk(j)
    PROVE  Tracked(ChunkOf(j, next[j]))'
  <1>1. ChunkOf(j, next[j]) \in Chunk
    BY InHandChunk DEF PushChunk, TypeInv
  <1>2. next' = next
    BY DEF PushChunk
  <1>3. InPipeline(ChunkOf(j, next[j]))'
    <2>1. \A c \in Chunk : chunkQueue' = Append(chunkQueue, c) /\ UNCHANGED worker => InPipeline(c)'
      BY QueueGrows DEF TypeInv
    <2>2. QED
      BY <1>1, <1>2, <2>1 DEF PushChunk
  <1>4. QED
    BY <1>3 DEF Tracked
-----------------------------------------------------------------------------
\* Without a restart of the sender, what was launched is tracked.

SenderLives == "senderCrash" \notin Events

JobOf(c) == [media |-> c.media, run |-> c.run]

LEMMA LaunchedByJob ==
    ASSUME NEW c \in Chunk
    PROVE  /\ JobOf(c) \in Job /\ c = ChunkOf(JobOf(c), c.index)
           /\ Launched(c) <=> \/ c.index < next[JobOf(c)]
                              \/ c.index = next[JobOf(c)] /\ pc[JobOf(c)] = "add"
  BY DEF JobOf, Job, Chunk, ChunkOf, Launched

\* A chunk is launched by a push, or passed over by an encryption that fails.
LEMMA NewlyLaunched ==
    ASSUME TypeInv, [Next]_vars, ~RestartSender, NEW c \in Chunk, Launched(c)', ~Launched(c)
    PROVE  Tracked(c)'
  <1> DEFINE j == JobOf(c)
  <1> USE DEF turn, senderVars
  <1>1. j \in Job /\ c = ChunkOf(j, c.index) /\ next[j] \in 0..Total
    BY LaunchedByJob DEF TypeInv, TurnInv, TurnType
  <1>2. /\ ~(c.index < next[j]) /\ ~(c.index = next[j] /\ pc[j] = "add")
        /\ c.index < next'[j] \/ (c.index = next'[j] /\ pc'[j] = "add")
    BY LaunchedByJob DEF Launched, JobOf
  <1> HIDE DEF j
  <1>3. ASSUME next'[j] = next[j], pc'[j] = pc[j] PROVE FALSE
    BY <1>2, <1>3
  <1>4. ASSUME NEW k \in Job, ReceiveAccept(k) \/ AcquireTurn(k) \/ FinishRun(k) \/ StopRun(k)
        PROVE  FALSE
    BY <1>1, <1>2, <1>4
    DEF ReceiveAccept, AcquireTurn, FinishRun, StopRun, TypeInv, TurnInv, TurnType
  <1>5. ASSUME NEW k \in Job, AddChunk(k) PROVE FALSE
    <2>1. /\ next' = [next EXCEPT ![k] = @ + 1] /\ pc' = [pc EXCEPT ![k] = "check"]
          /\ pc[k] = "add"
      BY <1>5 DEF AddChunk
    <2>2. CASE k = j
      <3>1. next'[j] = next[j] + 1 /\ pc'[j] = "check"
        BY <1>1, <2>1, <2>2 DEF TypeInv, TurnInv, TurnType
      <3>2. c.index \in Nat /\ next[j] \in Nat
        BY <1>1, JobFacts DEF Index
      <3>3. QED
        BY <1>2, <2>1, <2>2, <3>1, <3>2
    <2>3. CASE k # j
      BY <1>1, <1>3, <2>1, <2>3 DEF TypeInv, TurnInv, TurnType
    <2>4. QED
      BY <2>2, <2>3
  <1>6. ASSUME NEW k \in Job, PrepareChunk(k) PROVE Tracked(c)'
    <2>1. CASE k = j
      <3>1. CASE pc' = [pc EXCEPT ![k] = "push"] /\ UNCHANGED next
        BY <1>1, <1>2, <2>1, <3>1 DEF TypeInv, TurnInv, TurnType
      <3>2. CASE next' = [next EXCEPT ![k] = @ + 1] /\ gaveUp' = gaveUp \cup {ChunkOf(k, next[k])}
                 /\ UNCHANGED pc
        <4>1. next'[j] = next[j] + 1 /\ pc'[j] = "check"
          BY <1>1, <1>6, <2>1, <3>2 DEF PrepareChunk, TypeInv, TurnInv, TurnType
        <4>2. c.index \in Nat /\ next[j] \in Nat
          BY <1>1, JobFacts DEF Index
        <4>3. c.index = next[j]
          BY <1>2, <4>1, <4>2
        <4>4. c \in gaveUp'
          BY <1>1, <2>1, <3>2, <4>3
        <4>5. QED
          BY <4>4 DEF Tracked
      <3>3. QED
        BY <1>6, <3>1, <3>2 DEF PrepareChunk
    <2>2. CASE k # j
      <3>1. next'[j] = next[j] /\ pc'[j] = pc[j]
        BY <1>1, <1>6, <2>2 DEF PrepareChunk, TypeInv, TurnInv, TurnType
      <3>2. QED
        BY <1>3, <3>1
    <2>3. QED
      BY <2>1, <2>2
  <1>7. ASSUME NEW k \in Job, PushChunk(k) PROVE Tracked(c)'
    <2>1. next' = next /\ pc' = [pc EXCEPT ![k] = "add"]
      BY <1>7 DEF PushChunk
    <2>2. k = j
      BY <1>1, <1>3, <2>1 DEF TypeInv, TurnInv, TurnType
    <2>3. c.index = next[j]
      BY <1>2, <2>1
    <2>4. \A d : d = ChunkOf(k, next[k]) => Tracked(d)'
      BY <1>7, <2>1, PushIsTracked
    <2>5. QED
      BY <1>1, <2>2, <2>3, <2>4
  <1>8. CASE UNCHANGED turn
    BY <1>3, <1>8
  <1>9. CASE SenderNext
    BY <1>4, <1>5, <1>6, <1>7, <1>8, <1>9
    DEF SenderNext, RunStep, WorkerStep, TakeChunk, SendChunk, RetryStep, RetryScans, RetryItem,
        RetryScan, RetryFails, RetryQueues, RetryDefers, SenderReceives, ReceiveDelivered,
        ReceiveComplete, ReceiveRead, ReceiveReadFile, MarkUnfound, CleanupSent,
        ReceiveDecline, AbortTransfer, DiscardFile, DeleteFile, SaveSender
  <1>10. QED
    BY <1>8, <1>9 DEF Next, ReceiverNext, vars

AllTracked == \A c \in Chunk : Launched(c) => Tracked(c)

\* No chunk is lost between a run, chunkQueue, the workers and unackedChunks, whatever is
\* lost, late, aborted or answered twice, as long as the sender's node goes on (what a restart
\* restores is the matter of RestartForgetsNothing).
THEOREM LaunchedIsNotLost ==
    ASSUME SenderLives
    PROVE  Spec => []LaunchedIsTracked
  <1>1. Init => TypeInv /\ Honest /\ AllTracked
    <2>1. ASSUME Init, NEW c \in Chunk PROVE ~Launched(c)
      <3>1. next[JobOf(c)] = 0 /\ pc[JobOf(c)] = "idle"
        BY <2>1, LaunchedByJob DEF Init, SenderInit
      <3>2. ~(c.index < 0)
        BY JobFacts, FileConstants DEF Index
      <3>3. QED
        BY <3>1, <3>2, LaunchedByJob
    <2>2. QED
      BY <2>1, TypeInit, HonestInit DEF AllTracked
  <1>2. TypeInv /\ Honest /\ AllTracked /\ [Next]_vars => TypeInv' /\ Honest' /\ AllTracked'
    <2> SUFFICES ASSUME TypeInv, Honest, AllTracked, [Next]_vars
                 PROVE  TypeInv' /\ Honest' /\ AllTracked'
      OBVIOUS
    <2>1. ~RestartSender
      BY SenderLives DEF SenderLives, RestartSender
    <2>2. ASSUME NEW c \in Chunk, Launched(c)' PROVE Tracked(c)'
      BY <2>1, <2>2, NewlyLaunched, TrackedStays DEF AllTracked, Honest
    <2>3. QED
      BY <2>2, TypeStep, HonestStep DEF AllTracked
  <1>3. AllTracked => LaunchedIsTracked
    BY DEF AllTracked, LaunchedIsTracked, Tracked, CountFull
  <1>4. QED
    BY <1>1, <1>2, <1>3, PTL DEF Spec
-----------------------------------------------------------------------------
\* With any number of restarts, what the memory has as sent is tracked.

\* A run that has still to add its chunk to the memory has put it where it is tracked.
AddedIsTracked == \A j \in Job : pc[j] = "add" => Tracked(ChunkOf(j, next[j]))

DoneWith(m) == m \in received \cup aged \/ Hasty(m)

MemoryIsTracked == \A c \in DOMAIN memS : Tracked(c) \/ DoneWith(c.media)

LEMMA ReceivedStays == ASSUME [Next]_vars PROVE received \subseteq received'
  <1> USE DEF receiverVars, receiverHistory
  <1>1. CASE ReceiverNext
    BY <1>1 DEF ReceiverNext, ReceiveChunk, StoreChunk, FlushDelivered, SaveChunk, TryAssemble,
                ReadFile, ReadFileBatch, ReceiveAbort, RecordAbort, SaveReceiver,
                RestartReceiver
  <1>2. QED
    BY <1>1 DEF Next, SenderNext, vars

\* Nothing but a run adds to the memory.
LEMMA MemoryGrows ==
    ASSUME [Next]_vars, ~RestartSender
    PROVE  /\ \/ DOMAIN memS' \subseteq DOMAIN memS
              \/ \E j \in Job : AddChunk(j) /\ DOMAIN memS' = DOMAIN memS \cup {ChunkOf(j, next[j])}
           /\ aged \subseteq aged' /\ early \subseteq early'
  <1> DEFINE Less == /\ DOMAIN memS' \subseteq DOMAIN memS
                     /\ aged \subseteq aged' /\ early \subseteq early'
  <1> USE DEF store, senderHistory, senderVars
  <1>1. ASSUME NEW j \in Job, ReceiveAccept(j) \/ AcquireTurn(j) \/ FinishRun(j) \/ StopRun(j)
                              \/ PrepareChunk(j) \/ PushChunk(j)
        PROVE  Less
    BY <1>1 DEF ReceiveAccept, AcquireTurn, FinishRun, StopRun, PrepareChunk, PushChunk
  <1>2. ASSUME NEW j \in Job, AddChunk(j)
        PROVE  /\ DOMAIN memS' = DOMAIN memS \cup {ChunkOf(j, next[j])}
               /\ aged' = aged /\ early' = early
    BY <1>2 DEF AddChunk, With
  <1>3. ASSUME NEW w \in Workers, WorkerStep(w) PROVE Less
    BY <1>3 DEF WorkerStep, TakeChunk, SendChunk
  <1>4. CASE RetryStep
    <2>1. UNCHANGED <<memS, aged, early>>
      BY <1>4
      DEF RetryStep, RetryScans, RetryItem, RetryScan, RetryFails, RetryQueues, RetryDefers
    <2>2. QED
      BY <2>1
  <1>5. CASE SenderReceives
    <2>1. aged' = aged /\ early \subseteq early'
      BY <1>5 DEF SenderReceives, ReceiveDelivered, ReceiveComplete, ReceiveRead, ReceiveReadFile,
                  MarkUnfound
    <2>2. memS' = memS \/ (\E m : MarkDelivered(m))
                      \/ \E c : memS' = [memS EXCEPT ![c] = "delivered"]
      BY <1>5 DEF SenderReceives, ReceiveDelivered, ReceiveComplete, ReceiveRead, ReceiveReadFile,
                  MarkUnfound
    <2>3. DOMAIN memS' = DOMAIN memS
      BY <2>2 DEF MarkDelivered
    <2>4. QED
      BY <2>1, <2>3
  <1>6. ASSUME NEW m \in Media, \/ ReceiveDecline(m) \/ AbortTransfer(m) \/ DiscardFile(m)
                                \/ DeleteFile(m)
        PROVE  Less
    BY <1>6 DEF ReceiveDecline, AbortTransfer, DiscardFile, DeleteFile, Without, Restrict
  <1>7. CASE SaveSender \/ \E old \in SUBSET bin : CleanupSent(old)
    <2>1. memS' = memS /\ early' = early /\ aged \subseteq aged'
      BY <1>7 DEF SaveSender, CleanupSent
    <2>2. QED
      BY <2>1
  <1>8. CASE SenderNext
    BY <1>1, <1>2, <1>3, <1>4, <1>5, <1>6, <1>7, <1>8 DEF SenderNext, RunStep
  <1>9. CASE UNCHANGED senderVars
    BY <1>9
  <1>10. QED
    BY <1>8, <1>9 DEF Next, ReceiverNext, vars

\* What is in hand stays where it is tracked until it is added.
LEMMA AddedStays ==
    ASSUME TypeInv, UserAborted, AddedIsTracked, [Next]_vars
    PROVE  AddedIsTracked'
  <1> SUFFICES ASSUME NEW j \in Job, pc'[j] = "add"
               PROVE  Tracked(ChunkOf(j, next[j]))'
    BY DEF AddedIsTracked
  <1> USE DEF turn, senderVars
  <1>1. ASSUME pc[j] = "add", next'[j] = next[j], ~RestartSender PROVE Tracked(ChunkOf(j, next[j]))'
    <2>1. ChunkOf(j, next[j]) \in Chunk /\ Tracked(ChunkOf(j, next[j]))
      BY <1>1, InHandChunk DEF AddedIsTracked, TypeInv
    <2>2. \A c \in Chunk : Tracked(c) => Tracked(c)'
      BY <1>1, TrackedStays
    <2>3. QED
      BY <1>1, <2>1, <2>2
  <1>2. CASE RestartSender
    BY <1>2 DEF RestartSender
  <1>3. ASSUME UNCHANGED turn, ~RestartSender PROVE Tracked(ChunkOf(j, next[j]))'
    BY <1>1, <1>3
  <1>4. ASSUME NEW k \in Job, RunStep(k) \/ ReceiveAccept(k), ~RestartSender
        PROVE  Tracked(ChunkOf(j, next[j]))'
    <2>1. CASE PushChunk(k) /\ k = j
      BY <2>1, PushIsTracked
    <2>2. CASE ~PushChunk(k) /\ k = j
      BY <1>4, <2>2
      DEF RunStep, ReceiveAccept, AcquireTurn, FinishRun, StopRun, PrepareChunk, AddChunk,
          TypeInv, TurnInv, TurnType
    <2>3. CASE k # j
      <3>1. pc'[j] = pc[j] /\ next'[j] = next[j]
        BY <1>4, <2>3
        DEF RunStep, ReceiveAccept, AcquireTurn, FinishRun, StopRun, PrepareChunk, PushChunk,
            AddChunk, TypeInv, TurnInv, TurnType
      <3>2. QED
        BY <1>1, <1>4, <3>1
    <2>4. QED
      BY <2>1, <2>2, <2>3
  <1>5. CASE SenderNext
    BY <1>2, <1>3, <1>4, <1>5
    DEF SenderNext, WorkerStep, TakeChunk, SendChunk, RetryStep, RetryScans, RetryItem,
        RetryScan, RetryFails, RetryQueues, RetryDefers, SenderReceives, ReceiveDelivered,
        ReceiveComplete, ReceiveRead, ReceiveReadFile, MarkUnfound, CleanupSent,
        ReceiveDecline, AbortTransfer, DiscardFile, DeleteFile, SaveSender
  <1>6. QED
    BY <1>2, <1>3, <1>5 DEF Next, ReceiverNext, vars

\* resumeFile lists every chunk that was saved as sent, unless its copy is gone or enough
\* chunks of its file are delivered.
LEMMA RestartTracks ==
    ASSUME TypeInv, Honest, RestartSender, received \subseteq received', NEW c \in DOMAIN memS'
    PROVE  Tracked(c)' \/ DoneWith(c.media)'
  <1>1. c \in DOMAIN savedS /\ c \in Chunk /\ c.media \in Media
    BY ChunkMapType, JobFacts DEF RestartSender, TypeInv, StoreType
  <1>2. /\ UNCHANGED <<bin, aged, abortRequested, dropped, acked, early>>
        /\ received \subseteq received'
    BY DEF RestartSender, disk, senderHistory
  <1>3. CASE savedS[c] = "delivered"
    BY <1>1, <1>2, <1>3 DEF Honest, DeliveredIsReceived, EarlyAcked, DoneWith, Tracked
  <1>4. CASE c.media \notin bin
    BY <1>1, <1>2, <1>4 DEF Honest, SourceKept, Dispensable, Excused, Hasty, DoneWith, Tracked
  <1>5. CASE Resumable(c)
    BY <1>1, <1>5 DEF RestartSender, Tracked
  <1>6. CASE c.media \in bin /\ ~(Cardinality(SavedDelivered(c.media)) < Total)
    <2>1. deliveredCount'[c.media] = Cardinality(SavedDelivered(c.media))
      BY <1>1, <1>6 DEF RestartSender
    <2>2. SavedDelivered(c.media) \in SUBSET Chunk
      BY ChunkMapType DEF SavedDelivered, TypeInv, StoreType
    <2>3. Cardinality(SavedDelivered(c.media)) \in Nat
      BY <2>2, CountType
    <2>4. QED
      BY <1>6, <2>1, <2>3, FileConstants DEF Tracked, CountFull
  <1>7. QED
    BY <1>3, <1>4, <1>5, <1>6 DEF Resumable

LEMMA MemoryStaysTracked ==
    ASSUME TypeInv, Honest, AddedIsTracked, MemoryIsTracked, [Next]_vars
    PROVE  MemoryIsTracked'
  <1> SUFFICES ASSUME NEW c \in DOMAIN memS' PROVE Tracked(c)' \/ DoneWith(c.media)'
    BY DEF MemoryIsTracked
  <1>1. CASE ~RestartSender
    <2>1. DOMAIN memS \subseteq Chunk
      BY ChunkMapType DEF TypeInv, StoreType
    <2>2. \A d \in Chunk : Tracked(d) => Tracked(d)'
      BY <1>1, TrackedStays DEF Honest
    <2>3. CASE c \in DOMAIN memS
      <3>1. early \subseteq early' /\ early' \subseteq Chunk /\ aged \subseteq aged'
        BY <1>1, MemoryGrows, TypeStep DEF TypeInv, SenderHistoryType
      <3>2. DoneWith(c.media) => DoneWith(c.media)'
        BY <3>1, ReceivedStays, HastyStays DEF DoneWith
      <3>3. QED
        BY <2>1, <2>2, <2>3, <3>2 DEF MemoryIsTracked
    <2>4. CASE c \notin DOMAIN memS
      <3>1. PICK j \in Job : AddChunk(j) /\ c = ChunkOf(j, next[j])
        BY <1>1, <2>4, MemoryGrows
      <3>2. pc[j] = "add"
        BY <3>1 DEF AddChunk
      <3>3. c \in Chunk /\ Tracked(c)
        BY <3>1, <3>2, InHandChunk DEF AddedIsTracked, TypeInv
      <3>4. QED
        BY <2>2, <3>3
    <2>5. QED
      BY <2>3, <2>4
  <1>2. CASE RestartSender
    BY <1>2, ReceivedStays, RestartTracks
  <1>3. QED
    BY <1>1, <1>2

\* No restart of either side makes the sender forget a chunk that its memory has as sent: from
\* savedS it lists what is not delivered, however old the saved state is.
THEOREM RestartForgetsNothing == Spec => []RememberedIsTracked
  <1> DEFINE Inv == TypeInv /\ Honest /\ AddedIsTracked /\ MemoryIsTracked
  <1>1. Init => Inv
    <2>1. Init => AddedIsTracked /\ MemoryIsTracked
      BY DEF Init, SenderInit, NoEntry, AddedIsTracked, MemoryIsTracked
    <2>2. QED
      BY <2>1, TypeInit, HonestInit
  <1>2. Inv /\ [Next]_vars => Inv'
    BY TypeStep, HonestStep, AddedStays, MemoryStaysTracked DEF Honest
  <1>3. Inv => RememberedIsTracked
    BY DEF MemoryIsTracked, RememberedIsTracked, Tracked, CountFull, DoneWith, Dispensable, Excused
  <1>4. QED
    BY <1>1, <1>2, <1>3, PTL DEF Spec
=============================================================================
