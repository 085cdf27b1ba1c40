------------------------ MODULE MessageStoreProofs ------------------------
(***************************************************************************)
(* Proofs about MessageStore, for every set of msgIDs, peers and chunks,   *)
(* whatever the messages say and however many there are.                   *)
(***************************************************************************)
EXTENDS MessageStore, SequenceTheorems, FiniteSetTheorems, WellFoundedInduction, TLAPS
-----------------------------------------------------------------------------
\* Facts about slices, their indexes and the maps.

\* A function on 1..n is a sequence of length n.
LEMMA MakeSeq ==
    ASSUME NEW S, NEW n \in Nat, NEW f \in [1..n -> S]
    PROVE  f \in Seq(S) /\ Len(f) = n /\ DOMAIN f = 1..n
  <1>1. f \in Seq(S)
    BY SeqDef
  <1>2. DOMAIN f = 1..n /\ Len(f) \in Nat /\ DOMAIN f = 1..Len(f)
    BY <1>1, LenProperties
  <1>3. QED
    BY <1>1, <1>2

\* A set of positions that is not empty has a last one.
LEMMA LastPosition ==
    ASSUME NEW n \in Nat, NEW P \in SUBSET (1..n), P # {}
    PROVE  Max(P) \in P
  <1> DEFINE T == {n - p : p \in P}
  <1>1. T \subseteq Nat /\ T # {}
    <2>1. ASSUME NEW p \in P
          PROVE  n - p \in Nat
      <3>1. p \in 1..n
        OBVIOUS
      <3>2. QED
        BY <3>1
    <2>2. PICK p \in P : TRUE
      OBVIOUS
    <2>3. n - p \in T
      OBVIOUS
    <2>4. QED
      BY <2>1, <2>3
  <1>2. PICK t \in T : \A u \in T : ~(<<u, t>> \in OpToRel(<, Nat))
    BY <1>1, NatLessThanWellFounded, WFMin
  <1>3. \A u \in T : ~(u < t)
    BY <1>1, <1>2 DEF OpToRel
  <1>4. PICK p \in P : t = n - p
    OBVIOUS
  <1>5. \A q \in P : p >= q
    <2>1. SUFFICES ASSUME NEW q \in P PROVE p >= q
      OBVIOUS
    <2>2. ~(n - q < n - p)
      BY <1>3, <1>4
    <2>3. QED
      BY <2>2
  <1>6. QED
    BY <1>5 DEF Max

Unique(s) == \A p, q \in DOMAIN s : s[p].id = s[q].id => p = q

\* What is left of a slice: elements of the slice, each once, none forgotten.
LEMMA KeptFacts ==
    ASSUME NEW s \in Seq(Message), NEW P \in SUBSET DOMAIN s, NEW t \in Kept(s, P)
    PROVE  /\ t \in Seq(Message)
           /\ \A k \in DOMAIN t : \E p \in P : t[k] = s[p]
           /\ IdsOf(t) = {s[p].id : p \in P}
           /\ PartsOf(t) = {PartOf(s[p]) : p \in P} \ {None}
           /\ Unique(s) => Unique(t)
  <1>1. PICK e \in InOrder(P) : t = [k \in DOMAIN e |-> s[e[k]]]
    BY DEF Kept
  <1> DEFINE n == Cardinality(P)
  <1>2. /\ DOMAIN s = 1..Len(s) /\ Len(s) \in Nat
        /\ \A p \in DOMAIN s : s[p] \in Message
    BY LenProperties
  <1>3. n \in Nat
    <2>1. IsFiniteSet(1..Len(s))
      BY <1>2, FS_Interval
    <2>2. IsFiniteSet(P)
      BY <1>2, <2>1, FS_Subset
    <2>3. QED
      BY <2>2, FS_CardinalityType
  <1>4. /\ e \in [1..n -> P] /\ DOMAIN e = 1..n
        /\ \A j, k \in 1..n : j < k => e[j] < e[k]
        /\ \A p \in P : \E k \in 1..n : e[k] = p
    BY <1>1 DEF InOrder
  <1> HIDE DEF n
  <1>5. /\ DOMAIN t = 1..n
        /\ \A k \in 1..n : t[k] = s[e[k]] /\ e[k] \in P
    BY <1>1, <1>4
  <1>6. \A k \in 1..n : t[k] \in Message
    BY <1>2, <1>5
  <1>7. t \in Seq(Message)
    <2>1. t \in [1..n -> Message]
      BY <1>1, <1>4, <1>6
    <2>2. QED
      BY <2>1, <1>3, MakeSeq
  <1>8. IdsOf(t) = {s[p].id : p \in P}
    BY <1>4, <1>5 DEF IdsOf
  <1>9. PartsOf(t) = {PartOf(s[p]) : p \in P} \ {None}
    BY <1>4, <1>5 DEF PartsOf
  <1>10. \A j, k \in 1..n : e[j] = e[k] => j = k
    <2>1. SUFFICES ASSUME NEW j \in 1..n, NEW k \in 1..n, e[j] = e[k], j # k PROVE FALSE
      OBVIOUS
    <2>2. e[j] \in 1..Len(s) /\ e[k] \in 1..Len(s)
      BY <1>2, <1>4
    <2>3. CASE j < k
      BY <1>2, <1>4, <2>1, <2>2, <2>3
    <2>4. CASE k < j
      BY <1>2, <1>4, <2>1, <2>2, <2>4
    <2>5. QED
      BY <1>3, <2>1, <2>3, <2>4
  <1>11. Unique(s) => Unique(t)
    BY <1>5, <1>10 DEF Unique
  <1>12. QED
    BY <1>5, <1>7, <1>8, <1>9, <1>11

\* The index of msgIDs that rebuildIndexes makes of a slice without duplicates.
LEMMA IndexIdsFacts ==
    ASSUME NEW s \in Seq(Message), Unique(s)
    PROVE  /\ DOMAIN IndexIds(s) = IdsOf(s)
           /\ \A p \in DOMAIN s : IndexIds(s)[s[p].id] = p
           /\ IndexIds(s) \in [IdsOf(s) -> Nat]
  <1>1. DOMAIN s = 1..Len(s) /\ Len(s) \in Nat
    BY LenProperties
  <1>2. ASSUME NEW p \in DOMAIN s
        PROVE  IndexIds(s)[s[p].id] = p
    <2>1. {q \in DOMAIN s : s[q].id = s[p].id} = {p}
      BY DEF Unique
    <2>2. Max({p}) = p
      BY <1>1 DEF Max
    <2>3. s[p].id \in IdsOf(s)
      BY DEF IdsOf
    <2>4. QED
      BY <2>1, <2>2, <2>3 DEF IndexIds
  <1>3. DOMAIN IndexIds(s) = IdsOf(s)
    BY DEF IndexIds
  <1>4. \A i \in IdsOf(s) : IndexIds(s)[i] \in Nat
    BY <1>1, <1>2 DEF IdsOf
  <1>5. IndexIds(s) \in [IdsOf(s) -> Nat]
    BY <1>4 DEF IndexIds
  <1>6. QED
    BY <1>2, <1>3, <1>5

\* The index of chunks that it makes of any slice.
LEMMA IndexChunksFacts ==
    ASSUME NEW s \in Seq(Message)
    PROVE  /\ DOMAIN IndexChunks(s) = PartsOf(s)
           /\ \A c \in PartsOf(s) : /\ IndexChunks(s)[c] \in DOMAIN s
                                    /\ PartOf(s[IndexChunks(s)[c]]) = c
           /\ IndexChunks(s) \in [PartsOf(s) -> Nat]
  <1>1. DOMAIN s = 1..Len(s) /\ Len(s) \in Nat
    BY LenProperties
  <1>2. ASSUME NEW c \in PartsOf(s)
        PROVE  IndexChunks(s)[c] \in DOMAIN s /\ PartOf(s[IndexChunks(s)[c]]) = c
    <2> DEFINE P == {p \in DOMAIN s : PartOf(s[p]) = c}
    <2>1. P \in SUBSET (1..Len(s)) /\ P # {}
      BY <1>1 DEF PartsOf
    <2>2. Max(P) \in P
      BY <1>1, <2>1, LastPosition
    <2>3. IndexChunks(s)[c] = Max(P)
      BY DEF IndexChunks
    <2>4. QED
      BY <2>2, <2>3
  <1>3. DOMAIN IndexChunks(s) = PartsOf(s)
    BY DEF IndexChunks
  <1>4. IndexChunks(s) \in [PartsOf(s) -> Nat]
    BY <1>1, <1>2 DEF IndexChunks
  <1>5. QED
    BY <1>2, <1>3, <1>4
-----------------------------------------------------------------------------
\* The inductive invariant: besides its parts, no msgID is twice in the state file.

StoreInv ==
    /\ TypeOK
    /\ IdIndexExact
    /\ ChunkIndexSound
    /\ Unique(saved)

LEMMA HeaderFacts ==
    /\ \A i \in Id : Header[i].part \in Part \cup {None}
    /\ \A msg \in Message : PartOf(msg) = Header[msg.id].part /\ msg.id \in Id
  BY StoreConstants DEF PartOf, Message

LEMMA SliceFacts ==
    ASSUME StoreInv
    PROVE  /\ Len(messages) \in Nat
           /\ DOMAIN messages = 1..Len(messages)
           /\ messages \in [1..Len(messages) -> Message]
           /\ \A p \in DOMAIN messages : messages[p] \in Message
           /\ IdsOf(messages) = seen
           /\ Unique(messages)
  <1>1. messages \in Seq(Message)
    BY DEF StoreInv, TypeOK
  <1>2. /\ Len(messages) \in Nat
        /\ DOMAIN messages = 1..Len(messages)
        /\ messages \in [1..Len(messages) -> Message]
    BY <1>1, LenProperties
  <1>3. IdsOf(messages) = seen
    BY DEF StoreInv, IdIndexExact, IdsOf
  <1>4. Unique(messages)
    BY DEF StoreInv, IdIndexExact, Unique
  <1>5. QED
    BY <1>2, <1>3, <1>4

\* A slice that is rebuilt has exact indexes.
LEMMA Rebuilt ==
    ASSUME messages' \in Seq(Message), Unique(messages'), seen' = IdsOf(messages'),
           byID' = IndexIds(messages'), fileChunks' = IndexChunks(messages')
    PROVE  /\ IdIndexExact' /\ ChunkIndexSound'
           /\ seen' \subseteq Id
           /\ byID' \in [DOMAIN byID' -> Nat] /\ DOMAIN byID' \subseteq Id
           /\ fileChunks' \in [DOMAIN fileChunks' -> Nat] /\ DOMAIN fileChunks' \subseteq Part
  <1>1. \A p \in DOMAIN messages' : messages'[p] \in Message
    BY LenProperties
  <1>2. /\ DOMAIN byID' = IdsOf(messages')
        /\ \A p \in DOMAIN messages' : byID'[messages'[p].id] = p
        /\ byID' \in [IdsOf(messages') -> Nat]
    BY IndexIdsFacts
  <1>3. /\ DOMAIN fileChunks' = PartsOf(messages')
        /\ \A c \in PartsOf(messages') : /\ fileChunks'[c] \in DOMAIN messages'
                                         /\ PartOf(messages'[fileChunks'[c]]) = c
        /\ fileChunks' \in [PartsOf(messages') -> Nat]
    BY IndexChunksFacts
  <1>4. IdsOf(messages') \subseteq Id /\ PartsOf(messages') \subseteq Part
    BY <1>1, HeaderFacts DEF IdsOf, PartsOf
  <1>5. IdIndexExact'
    BY <1>2 DEF IdIndexExact, IdsOf
  <1>6. ChunkIndexSound'
    BY <1>3 DEF ChunkIndexSound
  <1>7. QED
    BY <1>2, <1>3, <1>4, <1>5, <1>6

\* A change of other fields of a message leaves the indexes exact.
LEMMA SameIds ==
    ASSUME StoreInv, UNCHANGED index, messages' \in Seq(Message),
           DOMAIN messages' = DOMAIN messages,
           \A p \in DOMAIN messages : messages'[p].id = messages[p].id
    PROVE  IdIndexExact' /\ ChunkIndexSound'
  <1>1. IdIndexExact'
    BY DEF StoreInv, IdIndexExact, index
  <1>2. ChunkIndexSound'
    BY DEF StoreInv, ChunkIndexSound, PartOf, index
  <1>3. QED
    BY <1>1, <1>2

\* Add: the new message goes to the end of the slice.
LEMMA AddStep ==
    ASSUME StoreInv, NEW i \in Id, Add(i)
    PROVE  StoreInv'
  <1> DEFINE n == Len(messages)
             new == [id |-> i, full |-> TRUE, liked |-> FALSE]
  <1>1. n \in Nat /\ DOMAIN messages = 1..n /\ messages \in Seq(Message)
    BY SliceFacts DEF StoreInv, TypeOK
  <1>2. new \in Message /\ messages' = Append(messages, new)
    BY DEF Add, Append1, Message
  <1>3. /\ messages' \in Seq(Message)
        /\ DOMAIN messages' = 1..(n + 1)
        /\ \A p \in 1..n : messages'[p] = messages[p]
        /\ messages'[n + 1] = new
    <2>1. Len(messages') = n + 1 /\ messages' \in Seq(Message)
      BY <1>1, <1>2, AppendProperties
    <2>2. QED
      BY <1>1, <1>2, <2>1, AppendProperties, LenProperties
  <1> HIDE DEF n
  <1>4. n + 1 \in Nat /\ 1..(n + 1) = 1..n \cup {n + 1} /\ n + 1 \notin 1..n
    BY <1>1
  <1>5. byID' = With(byID, i, n + 1) /\ seen' = seen \cup {i} /\ i \notin seen
    BY DEF Add, n
  <1>5a. /\ DOMAIN byID' = DOMAIN byID \cup {i} /\ byID'[i] = n + 1
        /\ \A j \in DOMAIN byID : j # i => byID'[j] = byID[j]
    BY <1>5 DEF With
  <1>6. IdIndexExact'
    BY <1>1, <1>3, <1>4, <1>5, <1>5a DEF StoreInv, IdIndexExact
  <1>7. fileChunks' = IF Header[i].part = None THEN fileChunks
                                               ELSE With(fileChunks, Header[i].part, n + 1)
    BY DEF Add, WithChunk, n
  <1>8. PartOf(new) = Header[i].part
    BY DEF PartOf
  <1>9. ChunkIndexSound'
    <2>1. CASE Header[i].part = None
      BY <1>1, <1>3, <1>4, <1>7, <2>1 DEF StoreInv, ChunkIndexSound
    <2>2. CASE Header[i].part # None
      <3>1. SUFFICES ASSUME NEW c \in DOMAIN fileChunks'
                     PROVE  /\ fileChunks'[c] \in DOMAIN messages'
                            /\ PartOf(messages'[fileChunks'[c]]) = c
        BY DEF ChunkIndexSound
      <3>2. CASE c = Header[i].part
        <4>1. fileChunks'[c] = n + 1
          BY <1>7, <2>2, <3>2 DEF With
        <4>2. QED
          BY <1>3, <1>4, <1>8, <3>2, <4>1
      <3>3. CASE c # Header[i].part
        <4>1. c \in DOMAIN fileChunks /\ fileChunks'[c] = fileChunks[c]
          BY <1>7, <2>2, <3>1, <3>3 DEF With
        <4>2. QED
          BY <1>1, <1>3, <1>4, <4>1 DEF StoreInv, ChunkIndexSound
      <3>4. QED
        BY <3>2, <3>3
    <2>3. QED
      BY <2>1, <2>2
  <1>10. TypeOK'
    <2>1. byID' \in [DOMAIN byID' -> Nat] /\ DOMAIN byID' \subseteq Id
      BY <1>4, <1>5 DEF With, StoreInv, TypeOK
    <2>2. fileChunks' \in [DOMAIN fileChunks' -> Nat] /\ DOMAIN fileChunks' \subseteq Part
      BY <1>4, <1>7, HeaderFacts DEF With, StoreInv, TypeOK
    <2>3. feedback' \in [id : Id, pos : Nat, live : BOOLEAN] \cup {None}
      BY DEF Add, Append1, StoreInv, TypeOK
    <2>4. QED
      BY <1>3, <1>5, <2>1, <2>2, <2>3 DEF Add, StoreInv, TypeOK, history
  <1>11. QED
    BY <1>6, <1>9, <1>10 DEF Add, StoreInv, Unique

\* Remove: the last message fills the hole.
LEMMA RemoveStep ==
    ASSUME StoreInv, NEW i \in Id, Remove(i)
    PROVE  StoreInv'
  <1> DEFINE n == Len(messages)
             p == byID[i]
             last == messages[n]
  <1>1. n \in Nat /\ DOMAIN messages = 1..n /\ Unique(messages)
        /\ \A q \in 1..n : messages[q] \in Message
    BY SliceFacts
  <1>2. i \in DOMAIN byID /\ p \in 1..n /\ messages[p].id = i
    BY <1>1 DEF Remove, StoreInv, IdIndexExact
  <1>3. n \in 1..n /\ n - 1 \in Nat /\ 1..(n - 1) = (1..n) \ {n}
    BY <1>1, <1>2
  <1>4. messages' = [q \in 1..(n - 1) |-> IF q = p THEN last ELSE messages[q]]
    BY DEF Remove, SwapOut
  <1>5. byID' = Without(IF p = n THEN byID ELSE [byID EXCEPT ![last.id] = p], i)
    BY DEF Remove
  <1>6. /\ DOMAIN byID' = (DOMAIN byID) \ {i}
        /\ \A j \in DOMAIN byID' : byID'[j] = IF j = last.id THEN p ELSE byID[j]
    <2>1. byID[last.id] = n /\ last.id \in DOMAIN byID
      BY <1>1, <1>3 DEF StoreInv, IdIndexExact
    <2>2. CASE p = n
      <3>1. last.id = i
        BY <1>2, <2>2
      <3>2. QED
        BY <1>5, <2>2, <3>1 DEF Without, Restrict
    <2>3. CASE p # n
      BY <1>5, <2>1, <2>3 DEF Without, Restrict
    <2>4. QED
      BY <2>2, <2>3
  <1>7. fileChunks' = Without(Repointed(p), Header[i].part)
    BY DEF Remove
  <1>8. seen' = seen \ {i}
    BY DEF Remove
  <1>9. messages' \in Seq(Message) /\ DOMAIN messages' = 1..(n - 1)
    <2>1. messages' \in [1..(n - 1) -> Message]
      BY <1>1, <1>3, <1>4
    <2>2. QED
      BY <1>3, <2>1, MakeSeq
  <1> HIDE DEF n, p, last
  <1>10. last = messages[n] /\ last \in Message /\ last.id \in seen /\ byID[last.id] = n
    BY <1>1, <1>3 DEF StoreInv, IdIndexExact, last
  <1>11. IdIndexExact'
    <2>1. DOMAIN byID' = seen'
      BY <1>6, <1>8 DEF StoreInv, IdIndexExact
    <2>2. ASSUME NEW j \in seen'
          PROVE  byID'[j] \in DOMAIN messages' /\ messages'[byID'[j]].id = j
      <3>1. j \in seen /\ j # i /\ byID[j] \in 1..n /\ messages[byID[j]].id = j
        BY <1>1, <1>8 DEF StoreInv, IdIndexExact
      <3>2. byID[j] # p
        BY <1>2, <3>1 DEF p
      <3>3. CASE j = last.id
        <4>1. byID'[j] = p /\ p # n
          BY <1>6, <1>10, <2>1, <3>2, <3>3
        <4>2. QED
          BY <1>2, <1>3, <1>4, <1>9, <3>3, <4>1
      <3>4. CASE j # last.id
        <4>1. byID'[j] = byID[j] /\ byID[j] # n
          BY <1>6, <1>10, <2>1, <3>1, <3>4
        <4>2. QED
          BY <1>3, <1>4, <1>9, <3>1, <3>2, <4>1
      <3>5. QED
        BY <3>3, <3>4
    <2>3. ASSUME NEW q \in DOMAIN messages'
          PROVE  messages'[q].id \in seen' /\ byID'[messages'[q].id] = q
      <3>1. q \in 1..n /\ q # n
        BY <1>3, <1>9
      <3>2. CASE q = p
        <4>1. messages'[q] = last /\ last.id # i
          BY <1>2, <1>4, <1>9, <1>10, <3>1, <3>2 DEF p
        <4>2. QED
          BY <1>6, <1>8, <1>10, <2>1, <3>2, <4>1
      <3>3. CASE q # p
        <4>1. messages'[q] = messages[q]
          BY <1>4, <1>9, <3>3
        <4>2. messages[q].id \in seen /\ byID[messages[q].id] = q
          BY <1>1, <3>1 DEF StoreInv, IdIndexExact
        <4>3. messages[q].id # i /\ messages[q].id # last.id
          BY <1>10, <3>1, <3>3, <4>2 DEF p
        <4>4. QED
          BY <1>6, <1>8, <2>1, <4>1, <4>2, <4>3
      <3>4. QED
        BY <3>2, <3>3
    <2>4. QED
      BY <2>1, <2>2, <2>3 DEF IdIndexExact
  <1>12. /\ DOMAIN fileChunks' \subseteq Part
         /\ \A c \in DOMAIN fileChunks' :
               /\ c # Header[i].part
               /\ \/ c = PartOf(last) /\ p # n /\ fileChunks'[c] = p
                  \/ /\ c \in DOMAIN fileChunks /\ fileChunks'[c] = fileChunks[c]
                     /\ c # PartOf(last) \/ p = n \/ ~\E d \in DOMAIN fileChunks : d.media = c.media
    <2>1. PartOf(last) \in Part \cup {None}
      BY <1>10, HeaderFacts
    <2>2. CASE p # n /\ IsChunk(last) /\ \E d \in DOMAIN fileChunks : d.media = PartOf(last).media
      <3>1. fileChunks' = Without(With(fileChunks, PartOf(last), p), Header[i].part)
        BY <1>7, <2>2 DEF Repointed, n, last
      <3>2. DOMAIN fileChunks' = (DOMAIN fileChunks \cup {PartOf(last)}) \ {Header[i].part}
        BY <3>1 DEF With, Without, Restrict
      <3>3. \A c \in DOMAIN fileChunks' :
               fileChunks'[c] = IF c = PartOf(last) THEN p ELSE fileChunks[c]
        BY <3>1, <3>2 DEF With, Without, Restrict
      <3>4. QED
        BY <2>1, <2>2, <3>2, <3>3 DEF IsChunk, StoreInv, TypeOK
    <2>3. CASE ~(p # n /\ IsChunk(last) /\ \E d \in DOMAIN fileChunks : d.media = PartOf(last).media)
      <3>1. fileChunks' = Without(fileChunks, Header[i].part)
        BY <1>7, <2>3 DEF Repointed, n, last
      <3>2. /\ DOMAIN fileChunks' = DOMAIN fileChunks \ {Header[i].part}
            /\ \A c \in DOMAIN fileChunks' : fileChunks'[c] = fileChunks[c]
        BY <3>1 DEF Without, Restrict
      <3>3. None \notin DOMAIN fileChunks
        BY StoreConstants DEF StoreInv, TypeOK
      <3>4. QED
        BY <2>3, <3>2, <3>3 DEF IsChunk, StoreInv, TypeOK
    <2>4. QED
      BY <2>2, <2>3
  <1>13. ChunkIndexSound'
    <2>1. SUFFICES ASSUME NEW c \in DOMAIN fileChunks'
                   PROVE  /\ fileChunks'[c] \in DOMAIN messages'
                          /\ PartOf(messages'[fileChunks'[c]]) = c
      BY DEF ChunkIndexSound
    <2>2. CASE c = PartOf(last) /\ p # n /\ fileChunks'[c] = p
      BY <1>2, <1>3, <1>4, <1>9, <2>2
    <2>3. CASE c \in DOMAIN fileChunks /\ fileChunks'[c] = fileChunks[c]
               /\ (c # PartOf(last) \/ p = n \/ ~\E d \in DOMAIN fileChunks : d.media = c.media)
      <3>1. fileChunks[c] \in 1..n /\ PartOf(messages[fileChunks[c]]) = c
        BY <1>1, <2>3 DEF StoreInv, ChunkIndexSound
      <3>2. PartOf(messages[p]) = Header[i].part
        BY <1>2 DEF PartOf
      <3>3. fileChunks[c] # p
        BY <1>12, <3>1, <3>2
      <3>4. fileChunks[c] # n
        BY <1>10, <2>3, <3>1, <3>3
      <3>5. QED
        BY <1>3, <1>4, <1>9, <2>3, <3>1, <3>3, <3>4
    <2>4. QED
      BY <1>12, <2>2, <2>3
  <1>14. TypeOK'
    <2>1. byID' \in [DOMAIN byID' -> Nat] /\ DOMAIN byID' \subseteq Id
      <3>1. \A j \in DOMAIN byID' : byID'[j] \in Nat
        BY <1>1, <1>9, <1>11 DEF IdIndexExact
      <3>2. QED
        BY <1>5, <1>6, <3>1 DEF Without, Restrict, StoreInv, TypeOK
    <2>2. fileChunks' \in [DOMAIN fileChunks' -> Nat]
      <3>1. \A c \in DOMAIN fileChunks' : fileChunks'[c] \in Nat
        BY <1>9, <1>13 DEF ChunkIndexSound
      <3>2. QED
        BY <1>7, <3>1 DEF Without, Restrict
    <2>3. Header[i].part \in Part \cup {None}
      BY HeaderFacts
    <2>4. QED
      BY <1>8, <1>9, <1>12, <2>1, <2>2, <2>3 DEF Remove, StoreInv, TypeOK
  <1>15. QED
    BY <1>11, <1>13, <1>14 DEF Remove, StoreInv, Unique

\* DeleteExpired: what survives is indexed anew.
LEMMA DeleteExpiredStep ==
    ASSUME StoreInv, NEW expired \in SUBSET DOMAIN messages, DeleteExpired(expired)
    PROVE  StoreInv'
  <1>1. /\ messages \in Seq(Message) /\ Unique(messages)
        /\ messages' \in Kept(messages, DOMAIN messages \ expired)
    BY SliceFacts DEF DeleteExpired, StoreInv, TypeOK
  <1>2. /\ messages' \in Seq(Message) /\ Unique(messages')
        /\ IdsOf(messages') = {messages[p].id : p \in DOMAIN messages \ expired}
    BY <1>1, KeptFacts
  <1>3. seen' = IdsOf(messages')
    <2>1. seen' = {messages[p].id : p \in DOMAIN messages} \ {messages[p].id : p \in expired}
      BY SliceFacts DEF DeleteExpired, IdsOf
    <2>2. \A p, q \in DOMAIN messages : messages[p].id = messages[q].id => p = q
      BY <1>1 DEF Unique
    <2>3. QED
      BY <1>2, <2>1, <2>2
  <1>4. byID' = IndexIds(messages') /\ fileChunks' = IndexChunks(messages')
    BY DEF DeleteExpired, IndexIdsAfterExpiry, IndexChunksAfterExpiry
  <1>5. /\ IdIndexExact' /\ ChunkIndexSound'
        /\ seen' \subseteq Id
        /\ byID' \in [DOMAIN byID' -> Nat] /\ DOMAIN byID' \subseteq Id
        /\ fileChunks' \in [DOMAIN fileChunks' -> Nat] /\ DOMAIN fileChunks' \subseteq Part
    BY <1>2, <1>3, <1>4, Rebuilt
  <1>6. TypeOK'
    BY <1>2, <1>5 DEF DeleteExpired, StoreInv, TypeOK
  <1>7. QED
    BY <1>5, <1>6 DEF DeleteExpired, StoreInv, Unique

\* A restart: what has not expired in the state file is indexed anew.
LEMMA RestartStep ==
    ASSUME StoreInv, NEW expired \in SUBSET DOMAIN saved, Restart(expired)
    PROVE  StoreInv'
  <1>1. saved \in Seq(Message) /\ Unique(saved) /\ messages' \in Kept(saved, DOMAIN saved \ expired)
    BY DEF Restart, StoreInv, TypeOK
  <1>2. messages' \in Seq(Message) /\ Unique(messages')
    BY <1>1, KeptFacts
  <1>3. /\ IdIndexExact' /\ ChunkIndexSound'
        /\ seen' \subseteq Id
        /\ byID' \in [DOMAIN byID' -> Nat] /\ DOMAIN byID' \subseteq Id
        /\ fileChunks' \in [DOMAIN fileChunks' -> Nat] /\ DOMAIN fileChunks' \subseteq Part
    BY <1>2, Rebuilt DEF Restart
  <1>4. PartsOf(saved) \subseteq Part
    BY <1>1, HeaderFacts, LenProperties DEF PartsOf
  <1>5. TypeOK'
    BY <1>2, <1>3, <1>4 DEF Restart, StoreInv, TypeOK
  <1>6. QED
    BY <1>1, <1>3, <1>5 DEF Restart, StoreInv, Unique

\* saveState: a part of the slice, each message once.
LEMMA SaveStep ==
    ASSUME StoreInv, NEW expired \in SUBSET DOMAIN messages, SaveState(expired)
    PROVE  /\ StoreInv'
           /\ \A p \in DOMAIN saved' : \E q \in DOMAIN messages :
                /\ saved'[p].id = messages[q].id
                /\ saved'[p].full \/ ~messages[q].full \/ IsChunk(saved'[p])
  <1>1. PICK s \in Kept(messages, DOMAIN messages \ expired) :
            saved' = [p \in DOMAIN s |-> [s[p] EXCEPT !.full = @ /\ ~IsChunk(s[p])]]
    BY DEF SaveState
  <1>2. /\ s \in Seq(Message) /\ Unique(s)
        /\ \A p \in DOMAIN s : \E q \in DOMAIN messages \ expired : s[p] = messages[q]
    <2>1. messages \in Seq(Message) /\ Unique(messages)
      BY SliceFacts DEF StoreInv, TypeOK
    <2>2. QED
      BY <2>1, KeptFacts
  <1>3. /\ DOMAIN s = 1..Len(s) /\ Len(s) \in Nat
        /\ \A p \in DOMAIN s : s[p] \in Message
    BY <1>2, LenProperties
  <1>4. /\ DOMAIN saved' = DOMAIN s
        /\ \A p \in DOMAIN s : /\ saved'[p] \in Message
                               /\ saved'[p].id = s[p].id
                               /\ saved'[p].full \/ ~s[p].full \/ IsChunk(s[p])
    <2>1. \A p \in DOMAIN s : IsChunk(s[p]) \in BOOLEAN
      BY DEF IsChunk
    <2>2. QED
      BY <1>1, <1>3, <2>1 DEF Message
  <1>5. saved' \in Seq(Message)
    <2>1. saved' \in [1..Len(s) -> Message]
      BY <1>1, <1>3, <1>4
    <2>2. QED
      BY <1>3, <2>1, MakeSeq
  <1>6. Unique(saved')
    BY <1>2, <1>4 DEF Unique
  <1>7. StoreInv'
    BY <1>5, <1>6
    DEF SaveState, StoreInv, TypeOK, IdIndexExact, ChunkIndexSound, PartOf, index, history
  <1>8. \A p \in DOMAIN saved' : IsChunk(s[p]) => IsChunk(saved'[p])
    BY <1>4 DEF IsChunk, PartOf
  <1>9. QED
    BY <1>2, <1>4, <1>7, <1>8

\* FileAck: one message of the slice loses its data.
LEMMA ClearStep ==
    ASSUME StoreInv, NEW c \in Part, ClearFileChunk(c)
    PROVE  StoreInv'
  <1>1. /\ messages \in Seq(Message)
        /\ messages' = [messages EXCEPT ![fileChunks[c]].full = FALSE]
        /\ \A p \in DOMAIN messages : messages[p] \in Message
    BY SliceFacts DEF ClearFileChunk, StoreInv, TypeOK
  <1>2. /\ DOMAIN messages' = DOMAIN messages
        /\ \A p \in DOMAIN messages : messages'[p].id = messages[p].id /\ messages'[p] \in Message
    BY <1>1 DEF Message
  <1>3. messages' \in Seq(Message)
    <2>1. messages' \in [1..Len(messages) -> Message]
      BY <1>1, <1>2, SliceFacts
    <2>2. QED
      BY <2>1, SliceFacts, MakeSeq
  <1>4. IdIndexExact' /\ ChunkIndexSound'
    BY <1>2, <1>3, SameIds DEF ClearFileChunk
  <1>5. QED
    BY <1>3, <1>4 DEF ClearFileChunk, StoreInv, TypeOK, Unique, index

\* handleFeedback: one message of the slice gets a score, or none.
LEMMA ScoreStep ==
    ASSUME StoreInv, WriteScore
    PROVE  StoreInv'
  <1>1. /\ messages \in Seq(Message)
        /\ \A p \in DOMAIN messages : messages[p] \in Message
    BY SliceFacts DEF StoreInv, TypeOK
  <1>2. /\ DOMAIN messages' = DOMAIN messages
        /\ \A p \in DOMAIN messages : messages'[p].id = messages[p].id /\ messages'[p] \in Message
        /\ messages' \in [1..Len(messages) -> Message]
    <2>1. CASE messages' = messages
      BY <1>1, <2>1, SliceFacts
    <2>2. CASE messages' = [messages EXCEPT ![feedback.pos].liked = TRUE]
      BY <1>1, <2>2, SliceFacts DEF Message
    <2>3. QED
      BY <2>1, <2>2 DEF WriteScore
  <1>3. messages' \in Seq(Message)
    BY <1>2, SliceFacts, MakeSeq
  <1>4. IdIndexExact' /\ ChunkIndexSound'
    BY <1>2, <1>3, SameIds DEF WriteScore
  <1>5. QED
    BY <1>3, <1>4 DEF WriteScore, StoreInv, TypeOK, Unique, index, history

\* Steps that touch neither the slice nor its indexes.
LEMMA OtherStep ==
    ASSUME StoreInv, UNCHANGED <<messages, index, saved>>,
           doomed' \subseteq Id, scored' \subseteq Id, UNCHANGED <<fetched, dropped>>,
           feedback' \in [id : Id, pos : Nat, live : BOOLEAN] \cup {None}
    PROVE  StoreInv'
  BY DEF StoreInv, TypeOK, IdIndexExact, ChunkIndexSound, PartOf, Unique, index

LEMMA StoreInit == Init => StoreInv
  <1> SUFFICES ASSUME Init PROVE StoreInv
    OBVIOUS
  <1>1. <<>> \in Seq(Message) /\ DOMAIN <<>> = {}
    BY EmptySeq
  <1>2. byID \in [DOMAIN byID -> Nat] /\ DOMAIN byID = {}
    BY DEF Init
  <1>3. fileChunks \in [DOMAIN fileChunks -> Nat] /\ DOMAIN fileChunks = {}
    BY DEF Init
  <1>4. QED
    BY <1>1, <1>2, <1>3 DEF Init, StoreInv, TypeOK, IdIndexExact, ChunkIndexSound, Unique

LEMMA StoreStep == StoreInv /\ [Next]_vars => StoreInv'
  <1> SUFFICES ASSUME StoreInv, [Next]_vars PROVE StoreInv'
    OBVIOUS
  <1>1. ASSUME NEW i \in Id, SkipGone(i)
        PROVE  StoreInv'
    BY <1>1, OtherStep DEF SkipGone, StoreInv, TypeOK, history
  <1>2. ASSUME NEW c \in Part, DeleteFile(c.media)
        PROVE  StoreInv'
    BY <1>2, OtherStep, SliceFacts DEF DeleteFile, StoreInv, TypeOK, history
  <1>3. ASSUME NEW peer \in Peer, RemoveContact(peer)
        PROVE  StoreInv'
    BY <1>3, OtherStep, SliceFacts DEF RemoveContact, StoreInv, TypeOK, history
  <1>4. ASSUME NEW p \in DOMAIN messages, FindTarget(p)
        PROVE  StoreInv'
    <2>1. messages[p].id \in Id /\ p \in Nat
      BY SliceFacts, HeaderFacts
    <2>2. QED
      BY <1>4, <2>1, OtherStep DEF FindTarget, StoreInv, TypeOK
  <1>5. CASE UNCHANGED vars
    BY <1>5, OtherStep DEF vars, history, StoreInv, TypeOK
  <1>6. QED
    BY <1>1, <1>2, <1>3, <1>4, <1>5, AddStep, RemoveStep, ClearStep, ScoreStep, DeleteExpiredStep,
       SaveStep, RestartStep
    DEF Next

\* The table and its indexes keep their types.
THEOREM StoreTypeCorrect == Spec => []TypeOK
  <1>1. StoreInv => TypeOK
    BY DEF StoreInv
  <1>2. QED
    BY <1>1, StoreInit, StoreStep, PTL DEF Spec

\* The indexes are exact whatever is added, removed, expired or loaded, in any order:
\* Memory never stores a msgID twice and never reaches another message through one, and
\* GetFileChunk and ClearFileChunk reach no other chunk than the one they are asked for.
THEOREM IndexIsExact == Spec => []IndexExact
  <1>1. StoreInv => IndexExact
    BY DEF StoreInv, IndexExact
  <1>2. QED
    BY <1>1, StoreInit, StoreStep, PTL DEF Spec
-----------------------------------------------------------------------------
\* What the steps that take messages out of the slice leave in it.

LEMMA RemoveLeaves ==
    ASSUME StoreInv, NEW i \in Id, Remove(i)
    PROVE  \A p \in DOMAIN messages' : \E q \in DOMAIN messages : messages'[p] = messages[q]
  <1>1. Len(messages) \in Nat /\ DOMAIN messages = 1..Len(messages)
    BY SliceFacts
  <1>2. byID[i] \in DOMAIN messages
    BY DEF Remove, StoreInv, IdIndexExact
  <1>3. messages' = [q \in 1..(Len(messages) - 1) |->
                        IF q = byID[i] THEN messages[Len(messages)] ELSE messages[q]]
    BY DEF Remove, SwapOut
  <1>4. QED
    BY <1>1, <1>2, <1>3

LEMMA DeleteExpiredLeaves ==
    ASSUME StoreInv, NEW expired \in SUBSET DOMAIN messages, DeleteExpired(expired)
    PROVE  /\ messages' \in Seq(Message)
           /\ \A p \in DOMAIN messages' : \E q \in DOMAIN messages : messages'[p] = messages[q]
  <1>1. messages \in Seq(Message) /\ messages' \in Kept(messages, DOMAIN messages \ expired)
    BY DEF DeleteExpired, StoreInv, TypeOK
  <1>2. QED
    BY <1>1, KeptFacts

LEMMA RestartLeaves ==
    ASSUME StoreInv, NEW expired \in SUBSET DOMAIN saved, Restart(expired)
    PROVE  /\ messages' \in Seq(Message)
           /\ \A p \in DOMAIN messages' : \E q \in DOMAIN saved : messages'[p] = saved[q]
  <1>1. saved \in Seq(Message) /\ messages' \in Kept(saved, DOMAIN saved \ expired)
    BY DEF Restart, StoreInv, TypeOK
  <1>2. QED
    BY <1>1, KeptFacts

LEMMA AddAppends ==
    ASSUME StoreInv, NEW i \in Id, Add(i)
    PROVE  \A p \in DOMAIN messages' :
              \/ p \in DOMAIN messages /\ messages'[p] = messages[p]
              \/ messages'[p].id = i /\ messages'[p].full
  <1> DEFINE new == [id |-> i, full |-> TRUE, liked |-> FALSE]
  <1>1. /\ messages \in Seq(Message) /\ new \in Message
        /\ messages' = Append(messages, new)
    BY DEF Add, Append1, Message, StoreInv, TypeOK
  <1>2. /\ DOMAIN messages = 1..Len(messages) /\ Len(messages) \in Nat
        /\ DOMAIN messages' = 1..(Len(messages) + 1)
    BY <1>1, AppendProperties, LenProperties
  <1>3. QED
    BY <1>1, <1>2, AppendProperties

\* Fields are written in place, and only these.
LEMMA WrittenInPlace ==
    ASSUME StoreInv,
           (\E c \in Part : ClearFileChunk(c)) \/ WriteScore
    PROVE  /\ DOMAIN messages' = DOMAIN messages
           /\ \A p \in DOMAIN messages : PartOf(messages'[p]) = PartOf(messages[p])
  <1>1. \A p \in DOMAIN messages : messages[p] \in Message
    BY SliceFacts
  <1>2. CASE messages' = messages
    BY <1>2
  <1>3. CASE \E p : messages' = [messages EXCEPT ![p].full = FALSE]
    BY <1>1, <1>3 DEF Message, PartOf
  <1>4. CASE \E p : messages' = [messages EXCEPT ![p].liked = TRUE]
    BY <1>1, <1>4 DEF Message, PartOf
  <1>5. QED
    BY <1>2, <1>3, <1>4 DEF ClearFileChunk, WriteScore

LEMMA ChunkFoundStep == StoreInv /\ ChunkFound /\ [Next]_vars => ChunkFound'
  <1> SUFFICES ASSUME StoreInv, ChunkFound, [Next]_vars PROVE ChunkFound'
    OBVIOUS
  <1>1. ASSUME NEW i \in Id, Add(i)
        PROVE  ChunkFound'
    <2>1. DOMAIN fileChunks' = DOMAIN fileChunks \cup ({Header[i].part} \ {None})
      <3>1. None \notin DOMAIN fileChunks
        BY StoreConstants DEF StoreInv, TypeOK
      <3>2. QED
        BY <1>1, <3>1 DEF Add, WithChunk, With
    <2>2. dropped' = dropped
      BY <1>1 DEF Add, history
    <2>3. QED
      BY <1>1, <2>1, <2>2, AddAppends DEF ChunkFound, IsChunk, PartOf
  <1>2. ASSUME NEW i \in Id, Remove(i)
        PROVE  ChunkFound'
    <2>1. DOMAIN fileChunks \ {Header[i].part} \subseteq DOMAIN fileChunks'
      BY <1>2 DEF Remove, Repointed, With, Without, Restrict
    <2>2. dropped' = dropped \cup ({Header[i].part} \ {None})
      BY <1>2 DEF Remove
    <2>3. QED
      BY <1>2, <2>1, <2>2, RemoveLeaves DEF ChunkFound, IsChunk, PartOf
  <1>3. ASSUME messages' \in Seq(Message), fileChunks' = IndexChunks(messages')
        PROVE  ChunkFound'
    <2>1. DOMAIN fileChunks' = PartsOf(messages')
      BY <1>3, IndexChunksFacts
    <2>2. \A p \in DOMAIN messages' : IsChunk(messages'[p]) => PartOf(messages'[p]) \in PartsOf(messages')
      BY DEF PartsOf, IsChunk
    <2>3. QED
      BY <2>1, <2>2 DEF ChunkFound
  <1>4. ASSUME NEW expired \in SUBSET DOMAIN messages, DeleteExpired(expired)
        PROVE  ChunkFound'
    BY <1>3, <1>4, DeleteExpiredLeaves DEF DeleteExpired, IndexChunksAfterExpiry
  <1>5. ASSUME NEW expired \in SUBSET DOMAIN saved, Restart(expired)
        PROVE  ChunkFound'
    BY <1>3, <1>5, RestartLeaves DEF Restart
  <1>6. CASE (\E c \in Part : ClearFileChunk(c)) \/ WriteScore
    <2>1. UNCHANGED <<fileChunks, dropped>>
      BY <1>6 DEF ClearFileChunk, WriteScore, index, history
    <2>2. QED
      BY <1>6, <2>1, WrittenInPlace DEF ChunkFound, IsChunk
  <1>7. CASE UNCHANGED <<messages, fileChunks, dropped>>
    BY <1>7 DEF ChunkFound, IsChunk, PartOf
  <1>8. QED
    BY <1>1, <1>2, <1>4, <1>5, <1>6, <1>7
    DEF Next, SkipGone, DeleteFile, RemoveContact, FindTarget, SaveState, vars, index, history

\* GetFileChunk finds every chunk that is stored, unless Remove has taken a copy of it.
THEOREM ChunkIsFound == Spec => []ChunkFound
  <1>1. Init => ChunkFound
    BY EmptySeq DEF Init, ChunkFound
  <1>2. QED
    BY <1>1, StoreInit, StoreStep, ChunkFoundStep, PTL DEF Spec
-----------------------------------------------------------------------------
\* Data is cleared where it was fetched; in the state file only chunks lack data.

Cleared ==
    /\ ClearedWasFetched
    /\ \A p \in DOMAIN saved : ~saved[p].full => IsChunk(saved[p])

LEMMA ClearedStep == StoreInv /\ Cleared /\ [Next]_vars => Cleared'
  <1> SUFFICES ASSUME StoreInv, Cleared, [Next]_vars PROVE Cleared'
    OBVIOUS
  <1>1. ASSUME NEW i \in Id, Add(i)
        PROVE  Cleared'
    <2>1. UNCHANGED <<saved, fetched>>
      BY <1>1 DEF Add, history
    <2>2. QED
      BY <1>1, <2>1, AddAppends DEF Cleared, ClearedWasFetched, PartOf, IsChunk
  <1>2. ASSUME UNCHANGED <<saved, fetched>>,
               \A p \in DOMAIN messages' : \E q \in DOMAIN messages : messages'[p] = messages[q]
        PROVE  Cleared'
    BY <1>2 DEF Cleared, ClearedWasFetched, PartOf, IsChunk
  <1>3. ASSUME NEW i \in Id, Remove(i)
        PROVE  Cleared'
    BY <1>2, <1>3, RemoveLeaves DEF Remove
  <1>4. ASSUME NEW expired \in SUBSET DOMAIN messages, DeleteExpired(expired)
        PROVE  Cleared'
    BY <1>2, <1>4, DeleteExpiredLeaves DEF DeleteExpired
  <1>5. ASSUME NEW c \in Part, ClearFileChunk(c)
        PROVE  Cleared'
    <2>1. /\ PartOf(messages[fileChunks[c]]) = c
          /\ messages' = [messages EXCEPT ![fileChunks[c]].full = FALSE]
          /\ fetched' = fetched \cup {c} /\ saved' = saved
      BY <1>5 DEF ClearFileChunk, StoreInv, ChunkIndexSound
    <2>2. \A p \in DOMAIN messages' :
             p \in DOMAIN messages /\ PartOf(messages'[p]) = PartOf(messages[p])
      BY <1>5, WrittenInPlace
    <2>3. \A p \in DOMAIN messages' : p # fileChunks[c] => messages'[p] = messages[p]
      BY <2>1
    <2>4. QED
      BY <2>1, <2>2, <2>3 DEF Cleared, ClearedWasFetched, PartOf, IsChunk
  <1>6. CASE WriteScore
    <2>1. \A p \in DOMAIN messages : messages[p] \in Message
      BY SliceFacts
    <2>2. \A p \in DOMAIN messages' :
             /\ p \in DOMAIN messages /\ PartOf(messages'[p]) = PartOf(messages[p])
             /\ messages'[p].full = messages[p].full
      BY <1>6, <2>1, WrittenInPlace DEF WriteScore, Message
    <2>3. UNCHANGED <<saved, fetched>>
      BY <1>6 DEF WriteScore, history
    <2>4. QED
      BY <2>2, <2>3 DEF Cleared, ClearedWasFetched, PartOf, IsChunk
  <1>7. ASSUME NEW expired \in SUBSET DOMAIN messages, SaveState(expired)
        PROVE  Cleared'
    <2>1. UNCHANGED <<messages, fetched>>
      BY <1>7 DEF SaveState, history
    <2>2. ClearedWasFetched'
      BY <2>1 DEF Cleared, ClearedWasFetched, PartOf
    <2>3. ASSUME NEW p \in DOMAIN saved', ~saved'[p].full
          PROVE  IsChunk(saved'[p])
      <3>1. PICK q \in DOMAIN messages :
                /\ saved'[p].id = messages[q].id
                /\ saved'[p].full \/ ~messages[q].full \/ IsChunk(saved'[p])
        BY <1>7, <2>3, SaveStep
      <3>2. CASE ~messages[q].full
        <4>1. PartOf(messages[q]) \in Part
          BY <3>2 DEF Cleared, ClearedWasFetched, StoreInv, TypeOK
        <4>2. QED
          BY <3>1, <4>1, StoreConstants DEF IsChunk, PartOf
      <3>3. QED
        BY <2>3, <3>1, <3>2
    <2>4. QED
      BY <2>2, <2>3 DEF Cleared, IsChunk, PartOf
  <1>8. ASSUME NEW expired \in SUBSET DOMAIN saved, Restart(expired)
        PROVE  Cleared'
    <2>1. fetched' = fetched \cup PartsOf(saved) /\ saved' = saved
      BY <1>8 DEF Restart
    <2>2. \A p \in DOMAIN messages' : \E q \in DOMAIN saved : messages'[p] = saved[q]
      BY <1>8, RestartLeaves
    <2>3. QED
      BY <2>1, <2>2 DEF Cleared, ClearedWasFetched, PartsOf, PartOf, IsChunk
  <1>9. CASE UNCHANGED <<messages, saved, fetched>>
    BY <1>2, <1>9
  <1>10. QED
    BY <1>1, <1>3, <1>4, <1>5, <1>6, <1>7, <1>8, <1>9
    DEF Next, SkipGone, DeleteFile, RemoveContact, FindTarget, vars, history

\* A chunk loses its data only when the app has taken over that chunk, or in a restart.
THEOREM ClearedIsFetched == Spec => []ClearedWasFetched
  <1>1. Init => Cleared
    BY EmptySeq DEF Init, Cleared, ClearedWasFetched
  <1>2. Cleared => ClearedWasFetched
    BY DEF Cleared
  <1>3. QED
    BY <1>1, <1>2, StoreInit, StoreStep, ClearedStep, PTL DEF Spec
-----------------------------------------------------------------------------
\* The refinement of MessageTable.

PartIds  == {i \in Id : Header[i].part # None}
MortalIds == {i \in Id : Header[i].mortal}

\* The messages that keep their data follow from those that stay.
LEMMA FullFollows ==
    ASSUME NEW s, NEW t, NEW X, Unique(s), IdsOf(t) = IdsOf(s) \ X,
           \A k \in DOMAIN t : \E p \in DOMAIN s : t[k] = s[p]
    PROVE  FullIdsOf(t) = FullIdsOf(s) \ X
  <1>1. ASSUME NEW i \in FullIdsOf(t)
        PROVE  i \in FullIdsOf(s) \ X
    <2>1. PICK k \in DOMAIN t : t[k].full /\ t[k].id = i
      BY DEF FullIdsOf
    <2>2. i \in IdsOf(t)
      BY <2>1 DEF IdsOf
    <2>3. QED
      BY <2>1, <2>2 DEF FullIdsOf
  <1>2. ASSUME NEW i \in FullIdsOf(s), i \notin X
        PROVE  i \in FullIdsOf(t)
    <2>1. PICK p \in DOMAIN s : s[p].full /\ s[p].id = i
      BY DEF FullIdsOf
    <2>2. i \in IdsOf(t)
      BY <1>2, <2>1 DEF IdsOf
    <2>3. PICK k \in DOMAIN t : t[k].id = i
      BY <2>2 DEF IdsOf
    <2>4. t[k] = s[p]
      BY <2>1, <2>3 DEF Unique
    <2>5. QED
      BY <2>1, <2>3, <2>4 DEF FullIdsOf
  <1>3. QED
    BY <1>1, <1>2

\* A slice without the messages at some positions.
LEMMA KeptIds ==
    ASSUME NEW s \in Seq(Message), Unique(s), NEW gone \in SUBSET DOMAIN s,
           NEW t \in Kept(s, DOMAIN s \ gone)
    PROVE  LET ids == {s[p].id : p \in gone}
           IN  /\ IdsOf(t) = IdsOf(s) \ ids
               /\ FullIdsOf(t) = FullIdsOf(s) \ ids
  <1> DEFINE ids == {s[p].id : p \in gone}
  <1>1. /\ IdsOf(t) = {s[p].id : p \in DOMAIN s \ gone}
        /\ \A k \in DOMAIN t : \E p \in DOMAIN s : t[k] = s[p]
    BY KeptFacts
  <1>2. IdsOf(t) = IdsOf(s) \ ids
    <2>1. \A p \in DOMAIN s \ gone : s[p].id \notin ids
      BY DEF Unique
    <2>2. \A i \in IdsOf(t) : i \in IdsOf(s) /\ i \notin ids
      BY <1>1, <2>1 DEF IdsOf
    <2>3. ASSUME NEW i \in IdsOf(s), i \notin ids
          PROVE  i \in IdsOf(t)
      <3>1. PICK p \in DOMAIN s : s[p].id = i
        BY DEF IdsOf
      <3>2. p \notin gone
        BY <2>3, <3>1
      <3>3. QED
        BY <1>1, <3>1, <3>2
    <2>4. QED
      BY <2>2, <2>3
  <1>3. FullIdsOf(t) = FullIdsOf(s) \ ids
    <2> HIDE DEF ids
    <2>1. QED
      BY <1>1, <1>2, FullFollows
  <1>4. QED
    BY <1>2, <1>3

LEMMA MortalAre ==
    ASSUME NEW s \in Seq(Message), NEW expired \in SUBSET Mortal(s)
    PROVE  /\ {s[p].id : p \in expired} \subseteq IdsOf(s) \cap MortalIds
           /\ IdsOf(s) \subseteq Id
           /\ expired \subseteq DOMAIN s
  <1>1. \A p \in DOMAIN s : s[p] \in Message
    BY LenProperties
  <1>2. IdsOf(s) \subseteq Id
    BY <1>1 DEF IdsOf, Message
  <1>3. expired \subseteq DOMAIN s
    BY DEF Mortal
  <1>4. ASSUME NEW p \in expired
        PROVE  s[p].id \in IdsOf(s) /\ Header[s[p].id].mortal
    BY <1>3, <1>4 DEF Mortal, IdsOf
  <1>5. QED
    BY <1>2, <1>3, <1>4 DEF MortalIds

LEMMA AddIsAdd ==
    ASSUME StoreInv, NEW i \in Id, Add(i)
    PROVE  Table!Add(i)
  <1>1. /\ IdsOf(messages) = seen /\ Unique(messages)
        /\ i \notin seen /\ seen' = seen \cup {i}
    BY SliceFacts DEF Add
  <1>2. IdsOf(messages') = seen'
    BY AddStep DEF StoreInv, IdIndexExact, IdsOf
  <1>3. \A k \in DOMAIN messages' :
           \/ k \in DOMAIN messages /\ messages'[k] = messages[k]
           \/ messages'[k].id = i /\ messages'[k].full
    BY AddAppends
  <1>4. \A k \in DOMAIN messages : messages[k].id # i
    BY <1>1 DEF IdsOf
  <1>5. ASSUME NEW j \in FullIdsOf(messages')
        PROVE  j \in FullIdsOf(messages) \cup {i}
    <2>1. PICK k \in DOMAIN messages' : messages'[k].full /\ messages'[k].id = j
      BY DEF FullIdsOf
    <2>2. QED
      BY <1>3, <2>1 DEF FullIdsOf
  <1>6. ASSUME NEW j \in FullIdsOf(messages) \cup {i}
        PROVE  j \in FullIdsOf(messages')
    <2>1. j \in IdsOf(messages')
      BY <1>1, <1>2 DEF FullIdsOf, IdsOf
    <2>2. PICK k \in DOMAIN messages' : messages'[k].id = j
      BY <2>1 DEF IdsOf
    <2>3. CASE j = i
      BY <1>3, <1>4, <2>2, <2>3 DEF FullIdsOf
    <2>4. CASE j # i
      <3>1. k \in DOMAIN messages /\ messages'[k] = messages[k]
        BY <1>3, <2>2, <2>4
      <3>2. PICK p \in DOMAIN messages : messages[p].full /\ messages[p].id = j
        BY <2>4 DEF FullIdsOf
      <3>3. p = k
        BY <1>1, <2>2, <3>1, <3>2 DEF Unique
      <3>4. QED
        BY <2>2, <3>1, <3>2, <3>3 DEF FullIdsOf
    <2>5. QED
      BY <2>3, <2>4
  <1>7. FullIdsOf(messages') = FullIdsOf(messages) \cup {i}
    BY <1>5, <1>6
  <1>8. UNCHANGED <<saved, doomed>>
    BY DEF Add
  <1>9. QED
    BY <1>1, <1>2, <1>7, <1>8 DEF Table!Add, Table!save

LEMMA RemoveIsRemove ==
    ASSUME StoreInv, NEW i \in Id, Remove(i)
    PROVE  Table!Remove(i)
  <1>1. IdsOf(messages) = seen /\ Unique(messages) /\ seen' = seen \ {i}
    BY SliceFacts DEF Remove
  <1>2. IdsOf(messages') = seen'
    BY RemoveStep DEF StoreInv, IdIndexExact, IdsOf
  <1>3. FullIdsOf(messages') = FullIdsOf(messages) \ {i}
    <2> DEFINE gone == {i}
    <2>1. IdsOf(messages') = IdsOf(messages) \ gone
      BY <1>1, <1>2
    <2>2. \A k \in DOMAIN messages' : \E p \in DOMAIN messages : messages'[k] = messages[p]
      BY RemoveLeaves
    <2> HIDE DEF gone
    <2>3. FullIdsOf(messages') = FullIdsOf(messages) \ gone
      BY <1>1, <2>1, <2>2, FullFollows
    <2>4. QED
      BY <2>3 DEF gone
  <1>4. i \in doomed /\ doomed' = doomed \ {i} /\ saved' = saved
    BY DEF Remove
  <1>5. QED
    BY <1>1, <1>2, <1>3, <1>4 DEF Table!Remove, Table!save

\* A message that is gone, gone again.
LEMMA SkipIsRemove ==
    ASSUME StoreInv, NEW i \in Id, SkipGone(i)
    PROVE  Table!Remove(i)
  <1>1. i \notin IdsOf(messages)
    BY SliceFacts DEF SkipGone, StoreInv, IdIndexExact
  <1>2. i \notin FullIdsOf(messages)
    BY <1>1 DEF IdsOf, FullIdsOf
  <1>3. QED
    BY <1>1, <1>2 DEF SkipGone, Table!Remove, Table!save

\* FileAck clears the data of the chunk the index finds, and of no other message.
LEMMA ClearIsClear ==
    ASSUME StoreInv, NEW c \in Part, ClearFileChunk(c)
    PROVE  \E i \in Id : Table!Clear(i)
  <1> DEFINE q == fileChunks[c]
             i == messages[q].id
  <1>1. /\ q \in DOMAIN messages /\ PartOf(messages[q]) = c
        /\ messages' = [messages EXCEPT ![q].full = FALSE]
        /\ UNCHANGED <<saved, doomed>>
    BY DEF ClearFileChunk, StoreInv, ChunkIndexSound
  <1>2. Unique(messages) /\ \A p \in DOMAIN messages : messages[p] \in Message
    BY SliceFacts
  <1>3. i \in Id /\ i \in PartIds /\ i \in IdsOf(messages)
    BY <1>1, <1>2, HeaderFacts, StoreConstants DEF PartIds, IdsOf
  <1>4. /\ DOMAIN messages' = DOMAIN messages
        /\ \A p \in DOMAIN messages :
              /\ messages'[p].id = messages[p].id
              /\ messages'[p].full = (p # q /\ messages[p].full)
    BY <1>1, <1>2 DEF Message
  <1> HIDE DEF q
  <1>5. \A p \in DOMAIN messages : messages[p].id = i => p = q
    BY <1>1, <1>2 DEF Unique
  <1>6. IdsOf(messages') = IdsOf(messages)
    BY <1>4 DEF IdsOf
  <1>7. FullIdsOf(messages') = FullIdsOf(messages) \ {i}
    <2>1. ASSUME NEW j \in FullIdsOf(messages')
          PROVE  j \in FullIdsOf(messages) /\ j # i
      <3>1. PICK p \in DOMAIN messages' : messages'[p].full /\ messages'[p].id = j
        BY DEF FullIdsOf
      <3>2. p \in DOMAIN messages /\ p # q /\ messages[p].full /\ messages[p].id = j
        BY <1>4, <3>1
      <3>3. j # i
        BY <1>5, <3>2
      <3>4. j \in FullIdsOf(messages)
        BY <3>2 DEF FullIdsOf
      <3>5. QED
        BY <3>3, <3>4
    <2>2. ASSUME NEW j \in FullIdsOf(messages), j # i
          PROVE  j \in FullIdsOf(messages')
      <3>1. PICK p \in DOMAIN messages : messages[p].full /\ messages[p].id = j
        BY DEF FullIdsOf
      <3>2. p # q
        BY <2>2, <3>1
      <3>3. messages'[p].full /\ messages'[p].id = j /\ p \in DOMAIN messages'
        BY <1>4, <3>1, <3>2
      <3>4. QED
        BY <3>3 DEF FullIdsOf
    <2>3. QED
      BY <2>1, <2>2
  <1>8. Table!Clear(i)
    BY <1>1, <1>3, <1>6, <1>7 DEF PartIds, Table!Clear, Table!save
  <1>9. QED
    BY <1>3, <1>8

\* A score changes no message of the table.
LEMMA ScoreIsNothing ==
    ASSUME StoreInv, WriteScore
    PROVE  UNCHANGED Table!tableVars
  <1>1. /\ DOMAIN messages' = DOMAIN messages
        /\ \A p \in DOMAIN messages : /\ messages'[p].id = messages[p].id
                                      /\ messages'[p].full = messages[p].full
    BY SliceFacts DEF WriteScore, Message
  <1>2. IdsOf(messages') = IdsOf(messages) /\ FullIdsOf(messages') = FullIdsOf(messages)
    BY <1>1 DEF IdsOf, FullIdsOf
  <1>3. UNCHANGED <<saved, doomed>>
    BY DEF WriteScore
  <1>4. QED
    BY <1>2, <1>3 DEF Table!tableVars, Table!table, Table!save

LEMMA ListIsList ==
    ASSUME StoreInv, UNCHANGED <<messages, saved>>,
           NEW ids \in SUBSET IdsOf(messages), doomed' = doomed \cup ids
    PROVE  ids \in SUBSET Id /\ Table!List(ids)
  <1>1. IdsOf(messages) \subseteq Id
    BY SliceFacts DEF StoreInv, TypeOK
  <1>2. QED
    BY <1>1 DEF Table!List, Table!table, Table!save

LEMMA ExpiryIsExpiry ==
    ASSUME StoreInv, NEW expired \in SUBSET DOMAIN messages, DeleteExpired(expired)
    PROVE  \E ids \in SUBSET Id : Table!Expire(ids)
  <1> DEFINE ids == {messages[p].id : p \in expired}
  <1>1. /\ messages \in Seq(Message) /\ Unique(messages) /\ expired \subseteq Mortal(messages)
        /\ messages' \in Kept(messages, DOMAIN messages \ expired)
        /\ UNCHANGED <<saved, doomed>>
    BY SliceFacts DEF DeleteExpired, StoreInv, TypeOK
  <1>2. ids \subseteq IdsOf(messages) \cap MortalIds /\ ids \subseteq Id
    BY <1>1, MortalAre
  <1>3. IdsOf(messages') = IdsOf(messages) \ ids /\ FullIdsOf(messages') = FullIdsOf(messages) \ ids
    BY <1>1, KeptIds
  <1> HIDE DEF ids
  <1>4. QED
    BY <1>1, <1>2, <1>3 DEF MortalIds, Table!Expire, Table!save

LEMMA SaveIsSave ==
    ASSUME StoreInv, NEW expired \in SUBSET DOMAIN messages, SaveState(expired)
    PROVE  \E ids \in SUBSET Id : Table!Save(ids)
  <1> DEFINE ids == {messages[p].id : p \in expired}
  <1>1. /\ messages \in Seq(Message) /\ Unique(messages) /\ expired \subseteq Mortal(messages)
        /\ UNCHANGED <<messages, doomed>>
    BY SliceFacts DEF SaveState, StoreInv, TypeOK
  <1>2. ids \subseteq IdsOf(messages) \cap MortalIds /\ ids \subseteq Id
    BY <1>1, MortalAre
  <1>3. PICK s \in Kept(messages, DOMAIN messages \ expired) :
            saved' = [p \in DOMAIN s |-> [s[p] EXCEPT !.full = @ /\ ~IsChunk(s[p])]]
    BY DEF SaveState
  <1>4. IdsOf(s) = IdsOf(messages) \ ids /\ FullIdsOf(s) = FullIdsOf(messages) \ ids
    BY <1>1, KeptIds
  <1>5. \A p \in DOMAIN s : s[p] \in Message
    BY <1>1, KeptFacts, LenProperties
  <1>6. /\ DOMAIN saved' = DOMAIN s
        /\ \A p \in DOMAIN s : /\ saved'[p].id = s[p].id
                               /\ saved'[p].full = (s[p].full /\ s[p].id \notin PartIds)
    BY <1>3, <1>5 DEF Message, IsChunk, PartOf, PartIds
  <1>7. IdsOf(saved') = IdsOf(s)
    BY <1>6 DEF IdsOf
  <1>8. FullIdsOf(saved') = FullIdsOf(s) \ PartIds
    <2>1. \A j \in FullIdsOf(saved') : j \in FullIdsOf(s) /\ j \notin PartIds
      BY <1>6 DEF FullIdsOf
    <2>2. \A j \in FullIdsOf(s) : j \notin PartIds => j \in FullIdsOf(saved')
      BY <1>6 DEF FullIdsOf
    <2>3. QED
      BY <2>1, <2>2
  <1>9. FullIdsOf(saved') = FullIdsOf(messages) \ (ids \cup PartIds)
    BY <1>4, <1>8
  <1> HIDE DEF ids
  <1>10. QED
    BY <1>1, <1>2, <1>4, <1>7, <1>9 DEF MortalIds, PartIds, Table!Save, Table!table

LEMMA RestartIsRestart ==
    ASSUME StoreInv, NEW expired \in SUBSET DOMAIN saved, Restart(expired)
    PROVE  \E ids \in SUBSET Id : Table!Restart(ids)
  <1> DEFINE ids == {saved[p].id : p \in expired}
  <1>1. /\ saved \in Seq(Message) /\ Unique(saved) /\ expired \subseteq Mortal(saved)
        /\ messages' \in Kept(saved, DOMAIN saved \ expired)
        /\ saved' = saved /\ doomed' = {}
    BY DEF Restart, StoreInv, TypeOK
  <1>2. ids \subseteq IdsOf(saved) \cap MortalIds /\ ids \subseteq Id
    BY <1>1, MortalAre
  <1>3. IdsOf(messages') = IdsOf(saved) \ ids /\ FullIdsOf(messages') = FullIdsOf(saved) \ ids
    BY <1>1, KeptIds
  <1> HIDE DEF ids
  <1>4. QED
    BY <1>1, <1>2, <1>3 DEF MortalIds, Table!Restart, Table!save

LEMMA StepOfTable == StoreInv /\ [Next]_vars => [Table!Next]_(Table!tableVars)
  <1> SUFFICES ASSUME StoreInv, [Next]_vars PROVE [Table!Next]_(Table!tableVars)
    OBVIOUS
  <1>1. ASSUME NEW i \in Id, Add(i) \/ Remove(i) \/ SkipGone(i)
        PROVE  Table!Next
    BY <1>1, AddIsAdd, RemoveIsRemove, SkipIsRemove DEF Table!Next
  <1>2. ASSUME NEW c \in Part, ClearFileChunk(c)
        PROVE  Table!Next
    BY <1>2, ClearIsClear DEF Table!Next
  <1>3. ASSUME NEW ids \in SUBSET IdsOf(messages), doomed' = doomed \cup ids,
               UNCHANGED <<messages, saved>>
        PROVE  Table!Next
    BY <1>3, ListIsList DEF Table!Next
  <1>4. ASSUME NEW c \in Part, DeleteFile(c.media)
        PROVE  Table!Next
    BY <1>3, <1>4 DEF DeleteFile
  <1>5. ASSUME NEW peer \in Peer, RemoveContact(peer)
        PROVE  Table!Next
    BY <1>3, <1>5 DEF RemoveContact
  <1>6. ASSUME NEW expired \in SUBSET DOMAIN messages, DeleteExpired(expired) \/ SaveState(expired)
        PROVE  Table!Next
    BY <1>6, ExpiryIsExpiry, SaveIsSave DEF Table!Next
  <1>7. ASSUME NEW expired \in SUBSET DOMAIN saved, Restart(expired)
        PROVE  Table!Next
    BY <1>7, RestartIsRestart DEF Table!Next
  <1>8. CASE UNCHANGED <<messages, saved, doomed>>
    BY <1>8 DEF Table!tableVars, Table!table, Table!save
  <1>9. QED
    BY <1>1, <1>2, <1>4, <1>5, <1>6, <1>7, <1>8, ScoreIsNothing DEF Next, FindTarget, vars

\* Whatever positions Remove, DeleteExpired and a restart give the messages, each method of
\* Memory does what MessageTable says: it takes out, empties or brings back the messages
\* it was asked for and no other.
THEOREM StoreImplementsTable == Spec => ImplementsTable
  <1>1. Init => Table!Init
    <2>1. IdsOf(<<>>) = {} /\ FullIdsOf(<<>>) = {}
      BY EmptySeq DEF IdsOf, FullIdsOf
    <2>2. QED
      BY <2>1 DEF Init, Table!Init
  <1>2. QED
    BY <1>1, StoreInit, StoreStep, StepOfTable, PTL DEF Spec, ImplementsTable, Table!Spec
-----------------------------------------------------------------------------
\* What MessageTable comes to, by its own steps.
LEMMA WholeStep == Table!Whole /\ [Table!Next]_(Table!tableVars) => Table!Whole'
  <1> SUFFICES ASSUME Table!Whole, [Table!Next]_(Table!tableVars) PROVE Table!Whole'
    OBVIOUS
  <1> USE DEF Table!Whole, Table!table, Table!save
  <1>1. ASSUME NEW i \in Id, Table!Add(i) \/ Table!Clear(i) \/ Table!Remove(i)
        PROVE  Table!Whole'
    BY <1>1 DEF Table!Add, Table!Clear, Table!Remove
  <1>2. ASSUME NEW ids \in SUBSET Id,
               Table!List(ids) \/ Table!Expire(ids) \/ Table!Save(ids) \/ Table!Restart(ids)
        PROVE  Table!Whole'
    BY <1>2 DEF Table!List, Table!Expire, Table!Save, Table!Restart
  <1>3. CASE UNCHANGED Table!tableVars
    BY <1>3 DEF Table!tableVars
  <1>4. QED
    BY <1>1, <1>2, <1>3 DEF Table!Next

\* The slice inherits it: a message that is no chunk has its text as long as it is in the
\* table or in the state file, through clears, removals, saves and restarts.
THEOREM TextsStayWhole == Spec => [](Table!Whole)
  <1>1. Table!Init => Table!Whole
    BY DEF Table!Init, Table!Whole
  <1>2. Table!Spec => [](Table!Whole)
    BY <1>1, WholeStep, PTL DEF Table!Spec
  <1>3. QED
    BY <1>2, StoreImplementsTable, PTL DEF ImplementsTable
=============================================================================
