---------------------------- MODULE MessageStore ----------------------------
(***************************************************************************)
(* The table of messages every other part of the node works on             *)
(* (node/memory.go): a slice, the set of msgIDs it has seen, and two maps  *)
(* from a msgID and from a chunk (media, index) to a position in the       *)
(* slice, which Add, Remove and DeleteExpired must keep in step.           *)
(*                                                                         *)
(* Each method of Memory runs under its lock and is one action.  What is   *)
(* not under it is several: DeleteFile and RemoveContact work through a    *)
(* copy of the table, and handleFeedback keeps a pointer into the slice.   *)
(*                                                                         *)
(* What a message says about itself never changes and is looked up in      *)
(* Header.  Time is abstracted: a message with a TTL may turn out to have  *)
(* expired whenever the code looks at the clock (its ExpiresAt has passed, *)
(* or it is 48 hours old), so that SetExpiresAt changes nothing here.      *)
(* Weights, archive and statuses are left out.                             *)
(***************************************************************************)
EXTENDS Naturals, Sequences, FiniteSets, Functions, FiniteSetsExt

CONSTANTS
    Id,         \* msgIDs
    Peer,       \* the other side of a conversation: Sender or Recipient
    Part,       \* chunks of files: [media, index]
    None,       \* not a chunk; no pending feedback
    Header,     \* msgID -> [peer, part, mortal]: mortal when it has a TTL
    MaxScored   \* bound: the messages the user gives feedback for

ASSUME StoreConstants ==
    /\ MaxScored \in Nat
    /\ None \notin Part
    /\ Header \in [Id -> [peer : Peer, part : Part \cup {None}, mortal : BOOLEAN]]

VARIABLES
    messages,   \* m.messages
    seen,       \* m.seen
    byID,       \* m.byID: msgID -> position
    fileChunks, \* m.fileChunks: chunk -> position
    saved,      \* the messages in the state file
    doomed,     \* messages a DeleteFile or RemoveContact has listed and not yet removed
    feedback    \* handleFeedback's targetMsg: [id, pos, live], None when it does not run

\* History, read by no action of the code.
VARIABLES
    scored,     \* msgIDs the user gave feedback for
    fetched,    \* chunks whose data the app has taken over, or a restart dropped
    dropped     \* chunks of which Remove has taken a copy since the last rebuild

index   == <<seen, byID, fileChunks>>
history == <<scored, fetched, dropped>>
vars    == <<messages, index, saved, doomed, feedback, history>>

\* full: Text holds the base64; liked: Score was set.
Message == [id : Id, full : BOOLEAN, liked : BOOLEAN]

PartOf(msg)  == Header[msg.id].part
IsChunk(msg) == PartOf(msg) # None
IdsOf(s)     == {s[p].id : p \in DOMAIN s}
PartsOf(s)   == {PartOf(s[p]) : p \in DOMAIN s} \ {None}

Init ==
    /\ messages = <<>>
    /\ seen = {}
    /\ byID = [i \in {} |-> 0]
    /\ fileChunks = [c \in {} |-> 0]
    /\ saved = <<>>
    /\ doomed = {}
    /\ feedback = None
    /\ scored = {}
    /\ fetched = {}
    /\ dropped = {}
-----------------------------------------------------------------------------
With(f, x, v) == [y \in DOMAIN f \cup {x} |-> IF y = x THEN v ELSE f[y]]
Without(f, x) == Restrict(f, (DOMAIN f) \ {x})

\* What rebuildIndexes makes of a slice: the last position wins.
IndexIds(s)    == [i \in IdsOf(s) |-> Max({p \in DOMAIN s : s[p].id = i})]
IndexChunks(s) == [c \in PartsOf(s) |-> Max({p \in DOMAIN s : PartOf(s[p]) = c})]

\* Mutants of IndexIdsAfterExpiry and IndexChunksAfterExpiry: positions are not
\* computed again, and chunks are left out of the rebuilt index.
IdsNotRebuilt(s)   == [i \in IdsOf(s) |-> byID[i]]
ChunksForgotten(s) == [c \in {} |-> 0]

\* DeleteExpired shifts positions and calls rebuildIndexes.
IndexIdsAfterExpiry(s)    == IndexIds(s)
IndexChunksAfterExpiry(s) == IndexChunks(s)

\* The increasing enumerations of a set of positions (there is one), and what a
\* loop leaves that appends the elements at these positions to an empty slice.
InOrder(P) ==
    {e \in [1..Cardinality(P) -> P] :
        /\ \A j, k \in DOMAIN e : j < k => e[j] < e[k]
        /\ \A p \in P : \E k \in DOMAIN e : e[k] = p}
Kept(s, P) == {[k \in DOMAIN e |-> s[e[k]]] : e \in InOrder(P)}

Mortal(s) == {p \in DOMAIN s : Header[s[p].id].mortal}
-----------------------------------------------------------------------------
\* append writes in place or moves the slice: a pointer may stay in the old array.
Append1(msg, moves) ==
    /\ messages' = Append(messages, msg)
    /\ feedback' = IF feedback = None THEN None
                   ELSE [feedback EXCEPT !.live = @ /\ ~moves]

\* Mutant of WithChunk: the message need not be a chunk.
WithAnyPart(i, p) == With(fileChunks, Header[i].part, p)

\* The chunk index when message i is stored at position p.
WithChunk(i, p) ==
    IF Header[i].part = None THEN fileChunks ELSE With(fileChunks, Header[i].part, p)

\* Memory.Add: a msgID not seen, of a message that has not expired.
Add(i) ==
    /\ i \notin seen
    /\ \E moves \in BOOLEAN :
            Append1([id |-> i, full |-> TRUE, liked |-> FALSE], moves)
    /\ seen' = seen \cup {i}
    /\ byID' = With(byID, i, Len(messages) + 1)
    /\ fileChunks' = WithChunk(i, Len(messages) + 1)
    /\ UNCHANGED <<saved, doomed, history>>

\* FileAck, Memory.ClearFileChunk: the app has the chunk on disk.
ClearFileChunk(c) ==
    /\ c \in DOMAIN fileChunks
    /\ messages' = [messages EXCEPT ![fileChunks[c]].full = FALSE]
    /\ fetched' = fetched \cup {c}
    /\ UNCHANGED <<index, saved, doomed, feedback, scored, dropped>>
-----------------------------------------------------------------------------
\* Mutant of Repointed: the message that fills the hole keeps its old position.
NotRepointed(p) == fileChunks

\* Remove moves the last message into the hole; its chunk is indexed again when
\* the index still has an entry for its file.
Repointed(p) ==
    LET last == messages[Len(messages)]
    IN  IF p # Len(messages) /\ IsChunk(last)
               /\ \E c \in DOMAIN fileChunks : c.media = PartOf(last).media
        THEN With(fileChunks, PartOf(last), p)
        ELSE fileChunks

\* The slice after the swap and the cut.
SwapOut(p) == [q \in 1..(Len(messages) - 1) |-> IF q = p THEN messages[Len(messages)] ELSE messages[q]]

\* Memory.Remove of the next message of a DeleteFile or RemoveContact.
Remove(i) ==
    /\ i \in doomed
    /\ i \in DOMAIN byID
    /\ LET p == byID[i]
           last == Len(messages)
           moved == IF p = last THEN byID ELSE [byID EXCEPT ![messages[last].id] = p]
       IN  /\ messages' = SwapOut(p)
           /\ byID' = Without(moved, i)
           /\ fileChunks' = Without(Repointed(p), Header[i].part)
    /\ seen' = seen \ {i}
    /\ doomed' = doomed \ {i}
    /\ dropped' = dropped \cup ({Header[i].part} \ {None})
    /\ UNCHANGED <<saved, feedback, scored, fetched>>

\* A DeleteFile or RemoveContact comes to a message that is no longer there.
SkipGone(i) ==
    /\ i \in doomed \ DOMAIN byID
    /\ doomed' = doomed \ {i}
    /\ UNCHANGED <<messages, index, saved, feedback, history>>

\* DeleteFile lists the messages of a file in a copy of the table.
DeleteFile(m) ==
    /\ doomed' = doomed \cup {i \in IdsOf(messages) : Header[i].part # None /\ Header[i].part.media = m}
    /\ doomed' # doomed
    /\ UNCHANGED <<messages, index, saved, feedback, history>>

\* RemoveContact lists the messages from and to a peer.
RemoveContact(peer) ==
    /\ doomed' = doomed \cup {i \in IdsOf(messages) : Header[i].peer = peer}
    /\ doomed' # doomed
    /\ UNCHANGED <<messages, index, saved, feedback, history>>

\* Memory.DeleteExpired: the survivors are copied to a new slice.
DeleteExpired(expired) ==
    /\ expired \subseteq Mortal(messages)
    /\ expired # {}
    /\ messages' \in Kept(messages, DOMAIN messages \ expired)
    /\ seen' = seen \ {messages[p].id : p \in expired}
    /\ byID' = IndexIdsAfterExpiry(messages')
    /\ fileChunks' = IndexChunksAfterExpiry(messages')
    /\ feedback' = IF feedback = None THEN None ELSE [feedback EXCEPT !.live = FALSE]
    /\ dropped' = {}
    /\ UNCHANGED <<saved, doomed, scored, fetched>>
-----------------------------------------------------------------------------
\* handleFeedback finds the message and keeps a pointer to it.
FindTarget(p) ==
    /\ feedback = None
    /\ p \in DOMAIN messages
    /\ Cardinality(scored) < MaxScored
    /\ feedback' = [id |-> messages[p].id, pos |-> p, live |-> TRUE]
    /\ scored' = scored \cup {messages[p].id}
    /\ UNCHANGED <<messages, index, saved, doomed, fetched, dropped>>

\* It writes the score through the pointer: into whatever the slot holds now, or
\* into an array nobody reads any more.
WriteScore ==
    /\ feedback # None
    /\ messages' = IF feedback.live /\ feedback.pos \in DOMAIN messages
                   THEN [messages EXCEPT ![feedback.pos].liked = TRUE]
                   ELSE messages
    /\ feedback' = None
    /\ UNCHANGED <<index, saved, doomed, history>>
-----------------------------------------------------------------------------
\* saveState: what has not expired, chunks without their data.
SaveState(expired) ==
    /\ expired \subseteq Mortal(messages)
    /\ \E s \in Kept(messages, DOMAIN messages \ expired) :
            saved' = [p \in DOMAIN s |-> [s[p] EXCEPT !.full = @ /\ ~IsChunk(s[p])]]
    /\ saved' # saved
    /\ UNCHANGED <<messages, index, doomed, feedback, history>>

\* The node stops at any point and loads the state file: each message that has not
\* expired in the meantime is given to Add.
Restart(expired) ==
    /\ expired \subseteq Mortal(saved)
    /\ messages' \in Kept(saved, DOMAIN saved \ expired)
    /\ seen' = IdsOf(messages')
    /\ byID' = IndexIds(messages')
    /\ fileChunks' = IndexChunks(messages')
    /\ doomed' = {}
    /\ feedback' = None
    /\ fetched' = fetched \cup PartsOf(saved)
    /\ dropped' = {}
    /\ UNCHANGED <<saved, scored>>

Next ==
    \/ \E i \in Id : Add(i) \/ Remove(i) \/ SkipGone(i)
    \/ \E c \in Part : ClearFileChunk(c) \/ DeleteFile(c.media)
    \/ \E peer \in Peer : RemoveContact(peer)
    \/ \E p \in DOMAIN messages : FindTarget(p)
    \/ WriteScore
    \/ \E expired \in SUBSET DOMAIN messages : DeleteExpired(expired) \/ SaveState(expired)
    \/ \E expired \in SUBSET DOMAIN saved : Restart(expired)

Spec == Init /\ [][Next]_vars
-----------------------------------------------------------------------------
\* The types of the table and of what surrounds it.
TypeOK ==
    /\ messages \in Seq(Message) /\ saved \in Seq(Message)
    /\ seen \subseteq Id /\ doomed \subseteq Id
    /\ byID \in [DOMAIN byID -> Nat] /\ DOMAIN byID \subseteq Id
    /\ fileChunks \in [DOMAIN fileChunks -> Nat] /\ DOMAIN fileChunks \subseteq Part
    /\ feedback \in [id : Id, pos : Nat, live : BOOLEAN] \cup {None}
    /\ scored \subseteq Id /\ fetched \subseteq Part /\ dropped \subseteq Part

\* byID finds exactly the messages that are stored, each under its own msgID, and the
\* msgIDs refused as duplicates are exactly theirs.
IdIndexExact ==
    /\ DOMAIN byID = seen
    /\ \A i \in seen : byID[i] \in DOMAIN messages /\ messages[byID[i]].id = i
    /\ \A p \in DOMAIN messages : messages[p].id \in seen /\ byID[messages[p].id] = p

\* Where fileChunks has an entry there is a message with that chunk.
ChunkIndexSound ==
    \A c \in DOMAIN fileChunks :
        fileChunks[c] \in DOMAIN messages /\ PartOf(messages[fileChunks[c]]) = c

\* However Add, Remove and DeleteExpired follow one another, no msgID is stored twice,
\* none is refused without a message, no operation by msgID touches another message,
\* and getChunk and FileAck never reach the data of another chunk.
IndexExact == IdIndexExact /\ ChunkIndexSound

\* Every chunk in memory is found by GetFileChunk, as long as Remove has not taken a
\* copy of it: two runs of a transfer store a chunk twice, and Remove forgets the
\* entry with either copy.
ChunkFound ==
    \A p \in DOMAIN messages :
        IsChunk(messages[p]) => PartOf(messages[p]) \in DOMAIN fileChunks \cup dropped

\* A chunk loses its data only after the app has taken over that very chunk, or
\* when the node restarts.
ClearedWasFetched ==
    \A p \in DOMAIN messages : ~messages[p].full => PartOf(messages[p]) \in fetched

-----------------------------------------------------------------------------
\* The table seen by msgIDs, wherever in the slice a message is.
FullIdsOf(s) == {s[p].id : p \in {q \in DOMAIN s : s[q].full}}

Table == INSTANCE MessageTable WITH
            Chunk <- {i \in Id : Header[i].part # None},
            Expiring <- {i \in Id : Header[i].mortal},
            stored <- IdsOf(messages), data <- FullIdsOf(messages),
            kept <- IdsOf(saved), keptData <- FullIdsOf(saved)

\* Each method of Memory, as it works through positions that Remove and DeleteExpired
\* move, does to the messages what MessageTable says and to no other message anything:
\* Remove takes out the message of its msgID, DeleteExpired none that has not expired,
\* FileAck the data of no message but a chunk, and a restart brings back what was saved.
ImplementsTable == Table!Spec
-----------------------------------------------------------------------------
\* The table is thread-safe (the comment on Memory): a message carries a score only
\* when the user gave feedback for it.  It does not hold when Remove moves a message into
\* the slot (README, section 8).
ScoreHitsItsMessage ==
    \A p \in DOMAIN messages : messages[p].liked => messages[p].id \in scored
=============================================================================
