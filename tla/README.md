# ISOTOPE core in TLA+

A verification project for isotope-core: a peer to peer messenger whose node is
written in Go (`src/node`) and whose Android app is written in Dart
(`src/mobile/lib`). The modules below are translations of that source. TLC checks
them on small instances; TLAPS proves the theorems for every value of the constants.

Contents: 1 the system, 2 its components, 3 what is modelled and how it corresponds
to the code, 4 properties, 5 runs and bounds, 6 fairness, 7 proofs, 8 where the code
differs from what it says, 9 what is not modelled, 10 the plan.

## 1. The system

A *node* owns a table of messages (`n.memory`), sends and receives messages over
libp2p streams, and pushes what happened to the app through a hook. Nothing is
acknowledged by the transport: a message is one stream of its own, sent directly,
through a relay, or wrapped in Sphinx packets, and `sendToRecipient` reports whether
some route took it, not whether it arrived. Everything that makes delivery reliable is
therefore built above it:

- two people become *contacts* by a code, a greeting, a request and an answer; only a
  contact's keys make what it sends readable;
- a node behind a NAT is *reachable* through a bootstrap node that relays to it and
  keeps a directory of who announced itself;
- a *text* stays in the pending queue and a *file chunk* in `unackedChunks` until the
  receiver's `[DELIVERED]` names it; both are sent again until then;
- the receiver recognises repetitions by msgID (`Memory.seen`);
- a file is *offered*, accepted, cut into chunks, and each chunk is queued, sent,
  acknowledged, moved to disk by the app, and finally assembled; the assembled file is
  announced by `[FILE_COMPLETE]`, and only then may the sender drop its copy;
- with Sphinx, texts to one contact are collected in *batches*, and each packet goes
  through two other contacts;
- either side may stop at any time (Android stops apps) and continues from its files.

    app (Dart)            node A                         node B            app (Dart)
    ----------   ------------------------------   ----------------------   ----------
    code, accept   hello / request / accept  <═══>  contacts, requests       dialogs
    offer, abort   offer / cancel / accept   <═══>  OffersStore              dialogs
    text           memory, pendingMessages   ═════> memory.Add ────────────> hook
                   batchBuffers ─ Sphinx  ══════ relays ═════>                 │
                   handleServiceMessage      <═════ [DELIVERED], [READ] <── queueDelivered
                       │
    file         sendFileChunksAsync ─ chunkQueue
                       │             ─ chunkWorker ══ chunk ══> handleStream
                 memory, sent/       unackedChunks               abortedStore?
                       │                ↑    ↓                   memory.Add ──> hook,
                 cleanupSent        retryUnacked                 queueDelivered  getChunk,
                       ↑                                            │            FileAck
                 handleDeliveredRef <═══════ [DELIVERED] ═══════════╯              │
                 handleFileComplete <═══════ [FILE_COMPLETE] ═══════════════ tryAssemble
                 SendFileAbort ═════════════ [FILE_ABORT] ══> DeleteFile, abortedStore

    under all of it: ANNOUNCE / FIND / reservation / ping between a node and its bootstrap

## 2. Components

For each: its state; its operations; what makes it hard; what correct means.

**File transfer, sending side** (`media.go`, `node_files.go`, `node_service.go`,
`node_offers.go`). State: the copy `sent/<media>.bin` with its `.meta`; the turn
`activeMediaID`; one goroutine `sendFileChunksAsync` for each accept; the bounded
`chunkQueue`; ten `chunkWorker`s; `unackedChunks`; `deliveredCount`; the abort flags
`n.aborted`; the chunks in `n.memory`. Operations: accept, take the turn, prepare,
queue and record a chunk, send it, scan for retries and restore a chunk, handle the
three confirmations, hourly cleanup, abort, decline, delete, save, restart. Hard: six kinds of
goroutine over five locks; a chunk is in the queue before it is in memory; the retry
loop works on a snapshot; an acknowledgement is looked up twice, and memory may change in
between; the file's counter counts acknowledgements; the copy may be taken away from under
a run; a second accept starts a second run; a restart keeps some of the state. Correct: no chunk falls out of the bookkeeping, the copy outlives
the need for it, a status tells the truth, the turn is neither shared nor lost, and an
accepted file arrives. *FileMessages, FileSender, FileTransfer; promise: FileDelivery.*

**File transfer, receiving side** (`node_p2p.go`, `node_service.go`, `aborted.go`,
`chat_provider.dart`, `media_storage.dart`). State: chunks held by stream handlers, the
msgIDs and the chunk data in memory, the acknowledgement buffer, `abortedStore`, the
app's chunk files, assembled files, `_fileCompleteSent`. Operations: receive, store,
acknowledge in batches, save a chunk to disk, assemble, answer, read, abort, save,
restart. Hard: the abort check and `memory.Add` are two steps, the acknowledgement is
sent from memory and the data reaches the disk later. Correct: an acknowledged chunk is
held, an assembled file has every chunk. *FileReceiver, FileTransfer.*

**Message memory** (`memory.go`, with `handlers.go` and `state.go`). State: the slice
of messages, `seen`, `byID`, `fileChunks` (positions in the slice). Operations: Add,
Remove (the last message fills the hole), DeleteExpired (shift and rebuild),
ClearFileChunk, the readers, save and load; DeleteFile and RemoveContact work through a
copy; `handleFeedback` keeps a pointer. Hard: three redundant structures and positions
that move. Correct: the indexes are exact, and no operation by msgID or chunk touches
another message. *MessageTable, MessageStore.*

**Text messages** (`node.go`, `node_p2p.go`, `node_service.go`, `node_settings.go`,
`memory.go`, `state.go`). State: status and expiry of each own message,
`pendingMessages` and its file, TTL mode, the receiver's copy, its read marks, the
`[DELIVERED]` buffer. Operations: send, replicate, flush the queue (on connect, ping,
timer), `[DELIVERED]`, `[READ]` single and batched, `[TTL_UPDATE]`, expiry, save, Stop,
kill, removal of the contact. Hard: `replicateMessage` sends before it enqueues,
`flushPending` works on a snapshot, the queue is written up to five seconds late, from
copies, by goroutines that overlap, expiry forgets msgIDs, a deadline is started by four handlers.
Correct: a text that was not confirmed is still queued, a status is true, an expired
text stays gone, and what is sent arrives. *PendingQueue, TextDelivery.*

**Text batches over Sphinx** (`node_batch.go`, `node_files.go`). State: one buffer per
recipient, the batches handed to `flushBatch`, the retry entries. Operations: add, flush
on size, on count, on the ticker; the retry of texts; `[DELIVERED]`; removal of the
contact. Hard: `addToBatch` unlocks between handing a full buffer over and replacing it.
Correct: each text is in exactly one batch, and tracked until it is confirmed. *TextBatch.*

**File offers** (`node_offers.go`, dialogs of `chat_provider.dart`). State: the
sender's copy, state and calls; the receiver's store, its dialogs and labels. Operations:
offer, answer (by the user or her threshold), cancel, abort, delete, expire, restart.
Hard: the answers cross, the app goes on after a call whose effect has been overtaken.
Correct: a transfer starts only from an offer that was accepted, and no offer is shown
for ever. *FileOffers.*

**Contacts protocol** (`node_contacts.go`, `contacts.go`, `requests.go`, `deleted.go`,
`node_e2e.go`). State: contacts (added, confirmed), temporary contacts, requests by id,
deleted peers. Operations: reading a code, hello and its answer, request, accept,
reject, removal, restart. Hard: requests of both sides cross, arrive after a removal, or
replace the one the user is looking at. Correct: nobody is confirmed without both users'
acts; both sides end with a compatible view. *Contacts.*

**Peer directory, relay reservation, liveness and reconnection** (`node_announce.go`,
`node_p2p.go`, `node.go`). State: announced addresses with a time, the reservation at
node and relay, the throttle of the refresh, dead marks, connections. Operations:
connect, reserve, refresh, relayLoop, announce, find, expire, ping, disconnect,
reconnect, forward. Hard: several clocks; what is known of a connection is read before a
lock or a timeout and used after it. Correct: who is gone is forgotten, and who is back
can be reached. *Rendezvous.*

**Sphinx packets and routes** (`sphinx.go`, `node_p2p.go`, `node_batch.go`). State: the
trusted contacts, packets in flight and packets a relay holds back. Operations: choose
relays, build, relay with and without mixing, open, dummies, the fallback. Correct: no
relay sees both ends, and a packet that is not dropped arrives at the one it is for.
*SphinxRoute.*

**Without a module**, each with its reason in `PROJECT.json` and in section 9: layer
gossip and adaptation, channels, settings, keys/seed/steganography/vectors, the DHT, the
HTTP front end, the mobile binding, the Flutter screens.

Interactions. Text, file, offer and contact messages all arrive in `handleStream`,
which hands service messages to `handleServiceMessage` and everything else to
`memory.Add`. `n.memory` is shared by all of them, each method under its lock;
sequences of methods are not atomic. `saveState` is called by many and throttled. The
app is called through the hook and calls back into the node; the two are separate
threads. The deletion of a contact or a file removes messages from memory under
everybody else's feet.

The hazards of all of these, at their lines, are listed in `PROJECT.json`
(`hazards`), with the properties that watch over them.

## 3. The modules

| module | what it is |
|---|---|
| FileMessages | constants of a transfer, identity of runs and chunks, the messages, the network |
| FileSender | the sender: one action for each step of a goroutine or handler |
| FileReceiver | the receiver's node and app |
| FileTransfer | both composed over the network; fairness; properties; the refinement of FileDelivery |
| FileDelivery | what a transfer promises: pieces, whole files, and a source that is kept (abstract) |
| MessageTable | what the table promises, by msgIDs alone (abstract) |
| MessageStore | the table of messages; the refinement of MessageTable |
| PendingQueue | the offline queue of texts and its file |
| TextDelivery | a text from SendToPeer to its reading or expiry; EXTENDS PendingQueue |
| TextBatch | the buffers of texts while Sphinx is on |
| SphinxRoute | the way of a Sphinx packet |
| Rendezvous | a node, its bootstrap, the directory and the reservation |
| Contacts | how two people become contacts, and part |
| FileOffers | the consent to a file |
| MCFileTransfer, MCMessageStore, MCTextDelivery | instances for TLC |
| MCConsent | Contacts and FileOffers for TLC, one protocol in each behaviour |
| MCTransport | TextBatch, Rendezvous and SphinxRoute for TLC, one in each behaviour |
| FileTransferProofs, FileDeliveryProofs, MessageStoreProofs, PendingQueueProofs, TextDeliveryProofs, ContactsProofs | theorems |
| ConsentProofs, TransportProofs | theorems on Contacts and FileOffers, and on TextBatch, SphinxRoute and Rendezvous, each alone and side by side in MCConsent and MCTransport |

MCConsent and MCTransport put protocols into one run that share no variable and, in the
code, no state the models look at. A behaviour chooses one of them at the start
(`part`) and takes its steps only; the others rest in an initial state in which their
fairness asks for nothing. Nothing is claimed of their interleaving, and nothing in the
code makes one depend on the other beyond what section 9 lists.

Everywhere: a step of a model is a critical section of the code, or several that no
other goroutine can tell apart; where a function unlocks, awaits or starts a goroutine
in the middle, it is several actions. History variables (marked as such) are written by
actions and read by no guard of the code; they only let a property speak of the past.
`Events`, `Scenarios` and their like say what the environment may do (lose, restart,
abort, remove, ...): a run lists the combinations it explores, the theorems hold for all
of them unless they say otherwise.

### FileSender and the code

| state | in the code |
|---|---|
| `bin`, `meta` | `sent/<media>.bin` and its `.meta` |
| `active`, `pc`, `next` | `activeMediaID`; each `sendFileChunksAsync`: where it is, its loop variable |
| `chunkQueue`, `worker` | the channel; the chunk a worker has taken and not yet sent |
| `unacked`, `retryBatch` | `unackedChunks`; `toRetry`, the snapshot of one `retryUnacked` |
| `memS`, `savedS` | the sender's chunks in `n.memory`, with a status; the state file |
| `deliveredCount`, `aborted` | the maps of that name |
| `unfound` | acknowledged chunks that the first lookup of `handleDeliveredRef` did not find in memory |
| `offerAccepted` | files whose `_offerStates` is "accepted" in this session of the app |
| `toDelete` | the app is about to call `DeleteFile`: after an abort that went out, or for a file it has no accepted offer of |
| `early`, `dropped` | history: chunks that an acknowledgement marked as delivered by itself; files that were declined or deleted |

A run goes `wait` (on `mediaSendCond`), `check` (the head of the loop: finished?
aborted?), `push` (blocked on the channel), `add` (`memory.Add` after the push), and
back. A worker takes (and drops a chunk of an aborted file) and then registers and
sends. `RetryScan` is the locked half of `retryUnacked`; each element of the snapshot is
then handled by one of `RetryFails`, `RetryQueues`, `RetryDefers`, in any order relative
to everything else.

`[DELIVERED]` is handled in two steps. `ReceiveDelivered` is the first lookup of each ref:
its entry goes, and a chunk that is in memory is counted. A ref that is not found there is
not taken for a chunk, and `MarkUnfound` is what the code does with it afterwards: it sets
the status as for a text, and looks again for the count. A run queues a chunk before it
adds it to the memory, so the chunk may have come in between: then it is shown as
delivered (`early`) although its file is not assembled. A status that another handler
sets in that window is covered, too, since the second step may leave the status alone. Two
lookups of one chunk that are in the window at once count once in the model.

`sent/<media>.bin` is removed by `ReceiveComplete`, `CleanupSent`, `ReceiveDecline` (which
may come after an accept, while a run has the copy open) and `DeleteFile`. The app calls
that after an abort that went out, and without one (`DiscardFile`) for a file whose offer
is pending, declined or, since the app was started again, unknown to it. `[READ]` names a
chunk (`ReceiveRead`) or a file (`ReceiveReadFile`, the form of `SendReadBatch`).

`RestartSender` is process death at any moment followed by
`loadState` and `resumeIncompleteFiles`.

The status of a chunk is `sent` or `delivered`: `delivered` stands for Delivered,
Hidden and Read together, since the transfer only asks whether a status is at least
Delivered. `known` in a retry entry says whether it has a recipient and a media; the
zero value that `retryUnacked` may store has neither.

### FileReceiver and the code

`inHand` are chunks past the `IsAborted` check of `handleStream`; `memR` the msgIDs in
memory, `text` the (media, index) whose base64 is still there; `ackBuf` is
`pendingDelivered` for this sender; `onDisk`, `assembled` are the app's files; `trying`
a saved chunk whose `tryAssemble` is still to come; `aborting` separates
`handleFileAbort`'s `DeleteFile` from its `abortedStore.Add`. `text` is keyed by
(media, index) because `getChunk` and `FileAck` are, while `memR` is keyed by msgID
because `memory.Add` is: two runs of one file produce different msgIDs for one index.

### FileDelivery and the refinement

FileDelivery knows neither chunks, queues nor messages: a file is accepted; pieces of it
arrive, only once it was accepted; it becomes whole when every piece is there; and the
sender's books (which copies are kept, which files are shown as delivered) may change in
any way that keeps them true: what is shown is whole or hurried, that is, was
confirmed before the sender had entered the piece; and a copy goes only when the file
is whole or its loss excused. FileTransfer implements it with
`accepted` = the files that some run has been started for, `pieces` = the indexes of the
chunks that `memory.Add` took, `whole` = the files ever assembled, `source` = `bin`,
`shown` = files with a chunk shown as delivered, `hurried` = files with a chunk in `early`, `excused` =
aborted, declined, deleted or aged, or Total chunks in `early` (`Hasty`: the cleanup takes
such a file for a delivered one).

### PendingQueue and TextDelivery and the code

`pending` is `pendingMessages`, `saveScheduled` the flag of the throttle, `savesDue` the
`savePendingQueue`s that were called and have yet to copy the queue, `writers` the copies
that running ones have still to write, `queueFile` the file. A save copies under the lock
(`CopyQueue`) and writes after it (`WriteQueueFile`), at any later time: nothing orders the
saves among each other. `overlapped` is history: a copy was taken while another was being
written. `Stop` writes the queue itself, but a save that still runs may write after it.
`[DELIVERED]` is handled ref by ref: `confirming` are refs not begun, `marking` those taken
out of the queue (`RemovePending`, each with a save of its own) whose status is not set yet
(`MarkDelivered`). TextDelivery EXTENDS PendingQueue and uses its actions as they are. It
adds, at the sender, `replicating` (sent by `replicateMessage`, not yet
enqueued), `flushing` (a snapshot that `flushPending` still sends), the messages in
memory `memS` and in the state file `savedS`; at the receiver, `memR`, `savedR`,
`opened` (ReadLocally), `ackBuf`, and `knows` (it has a key for the sender: without one
it stores and acknowledges nothing). A copy of a message carries its own `ExpiresAt`, of
which "none" (zero), "running" and "over" are kept; `hardOver` are the messages whose
hard deadline, which is in the message, has passed. The four handlers that start an
after_read deadline are `MarkDelivered` (when one of the two does not share
readings), `ReceiveRead`, `SendRead`/`SendReadBatch`, and `ReceiveTtlUpdate`.
A text is an atom: voice messages and pictures take the same way.

### MessageStore and the code

`messages` is the slice, `seen`, `byID`, `fileChunks` the three maps, `saved` the state
file. A method of `Memory` is one action, as it runs under `m.mu`. What does not:
`DeleteFile`/`RemoveContact` put what they found in a copy into `doomed` and then remove
one at a time; `FindTarget` and `WriteScore` are `handleFeedback` before and after any
interleaved method, `feedback.live` telling whether its pointer is still into the array
the table uses (`append` may or may not move it; `DeleteExpired` always does).
Position 1 of the model is index 0 of the slice. What a message says of itself is looked
up in `Header` and never changes. Time is abstracted: whenever the code looks at the
clock, a message with a TTL may turn out to be expired; that is also what 48 hours,
`SetExpiresAt` and a late restart can make of it. `fileChunks` is one map from
[media, index]; the code's inner map that is dropped when it gets empty is the test
"has an entry for its file" in `Repointed`.

MessageTable says the same without slice, positions and indexes: sets of msgIDs that are
stored, have their data, or are in the last save. `Table` maps the slice to it: the
msgIDs that occur in it, those of messages with data, and the same of the state file. A
removal that is found to be late (`SkipGone`) is a removal of nothing; `handleFeedback`
is invisible.

### Contacts and FileOffers and the code

`contact[p][q]` is q's entry in p's `contacts.json` (added, or confirmed as well),
`temp` is `tempContacts`, `requests` and `deleted` are the files of that name;
`accepting`, `confirming` and `removing` are calls that have done one of their steps, since
`AcceptRequestByID`, `handleContactAccept` (`AddContact`, then `SetConfirmed`) and
`RemoveContact` hold no lock across them. A message carries an
id, so that a second request of one peer replaces the first under a new id. A message
that is lost is one that stays in flight, and nothing is sent twice by the code.

FileOffers follows one offer (`mediaID`) at two apps and two nodes. `sendCall`,
`withdrawing` and `answering` are calls the app awaits; the app's state (`offerState`,
`shown`, `fileLabel`) changes when they return, in whatever order the answers came.
A second tap on the button answers again, and each accept starts a run; two calls of one
answer that are under way at once are kept as one. `runs` counts the
`sendFileChunksAsync` the accepts have started, which are FileSender's.

### TextBatch, SphinxRoute and Rendezvous and the code

`replacing` are texts whose `addToBatch` is between its `Unlock` and its second `Lock`;
`batches` what was handed to a `flushBatch` goroutine. The retry entries of a batch's
texts have no media, so `restoreChunkMessage` refuses them, and after three failures the
entry goes; between scan and failure `[DELIVERED]` may have deleted it.

An onion is a letter with the layers still around it: each names the node whose key
opens it and the next one. `RelayOnion` removes a layer, `sleeping` are packets that a
relay with mixing holds back, `DropOnion` is a hop that failed and that nobody hears of.

Rendezvous has one node and one bootstrap. `online` is the network, `linked` what the two
believe of their connection; `cleaning` is `cleanupAnnounced` between the snapshot of
who is connected and the deletion, `pinging` a ping whose answer or timeout is to come.
Time is what is over: a reservation ("expiring"), an entry ("stale"), ten seconds
(`refreshed`). `parcel` is a message that a third node keeps sending until it arrives.

### The network

In all modules a set: every message is a stream of its own, so any two may be reordered,
and a message sent again while its first copy is in flight travels with it; one sent
again after it arrived is a duplicate. A loss takes a message away.

## 4. The properties

In FileTransfer:

- `TypeOK`: besides the types, maps are keyed by chunks of this transfer and no attempt
  counter passes its limit.
- `AckedIsHeld`: an acknowledged chunk has its data at the receiver, in memory, on
  disk or in the file. It relates the sender's knowledge to the receiver's three stores
  across duplicates, and it is what entitles the sender to stop retrying.
- `AssembledIsComplete`: a file is made from one accepted chunk for each index.
- `LaunchedIsTracked`: a chunk that was queued is in the queue, with a worker, or listed
  for a retry, unless it was acknowledged or given up or its file is done.
- `RememberedIsTracked`: the same for what the sender's memory has, across restarts.
- `SourceKept`: `sent/<media>.bin`, the only source of retries, goes only when the file
  is assembled, given up by one of the users, 24 hours old, or when early acknowledgements
  marked the whole of it; `cleanupSentOnce` decides by statuses that four handlers and a
  restart set.
- `ImplementsDelivery`: the refinement; that a status is ahead of the receiver only for a
  chunk with an early acknowledgement is part of it.
- `OneFileAtATime`, `TurnHasOwner`: two files fill the queue at once only if one of them
  was accepted twice; who is recorded as the holder of the turn sends, and a file accepted
  once is never sent without it.
- `AbortStopsRun`: no run prepares another chunk once the user has aborted, but for a
  second run of the file: the flag is cleared by the run that sees it.
- `AcceptedIsReceived`, `EntriesLeave`: liveness.
- `ShownIsAssembled`, `OneFileAlways` and three others say what the comments and the docs
  say, without the exceptions; they fail (section 8).

In MessageStore: `TypeOK`, `IndexExact` (by msgID and by chunk), `ChunkFound`,
`ClearedWasFetched` (no data is dropped that the app has not taken over). Each says that
some lookup never reaches the wrong message, through swaps, rebuilds, duplicate chunks
and stale snapshots. `ImplementsTable` draws the conclusion for the callers: with
positions in between, each method still does to the messages what MessageTable says and
touches no other.

In TextDelivery: `QueuedUntilDelivered` (a text that was sent is on its way into the
queue, in it, confirmed, or lost by a restart that came with its save still ahead or after overlapping
saves);
`ConfirmedIsReceived` (a status shown is true, also one restored from a file, and Read
is only shown when both share readings); `HardStaysGone` (no copy sent again, no late
`[TTL_UPDATE]` and no file brings a text back after its deadline); `TtlTextGoes`,
`QueueDrains`, `SentIsReceived` (liveness). In PendingQueue: `QueuedIsSavedSoon`, that
a queued message is in the file or has a save ahead, unless two saves have overlapped; it
is proved and not run, since the run follows the file only as long as a restart may read
it. Without that exception it is `QueueFileKeepsUp`, which fails (section 8).

In Contacts: `ConfirmedByBoth`, `ConfirmedKnowsMe` (a confirmed contact can decrypt what
I send), `HelloBecomesRequest` and `ViewsAgree` (liveness), and `DeletedStaysDeleted`,
which fails. In FileOffers: `NothingSentUnasked`, `ShownIsStored`, `OfferEnds`,
`AcceptStarts`.

In TextBatch: `BatchedOnce`, `TextRetriesEnd`, and `ComposedIsTracked`, which fails. In
SphinxRoute: `RelaysUnlinked`, `OnionArrives`. In Rendezvous: `GoneIsForgotten`,
`ReachableAgain`, and `OnlineHasSlot`, which fails.

`TextTypeOK`, `ConsentTypeOK` and `TransportTypeOK` are the type invariants of the newer
modules.

Each property of a passing run has a mutant in `PROJECT.json`: a plausible bug in one
definition (the operators called "Mutant of ..." in the modules) for which TLC finds
the property violated in the same run.

## 5. The runs

| run | shows | instance | states |
|---|---|---|---|
| transfer_retry | TypeOK, AckedIsHeld, LaunchedIsTracked, AssembledIsComplete under loss, duplicates, reordering and a full queue | 1 file of 2 chunks, 1 worker, queue of 1, 1 retry | 1,212,851 |
| transfer_restarts | SourceKept, RememberedIsTracked, ImplementsDelivery, AbortStopsRun | 1 file of 2 chunks, both sides killed anywhere, abort with and without error, delete, decline, old copies, a reader | 1,907,037 |
| transfer_delivers | OneFileAtATime, TurnHasOwner, AcceptedIsReceived | 2 files of 1 chunk, nothing lost | 4,829 |
| transfer_gives_up | EntriesLeave | 1 chunk, everything may be lost, encryption may fail | 65,361 |
| message_store | TypeOK, IndexExact, ChunkFound, ClearedWasFetched, ImplementsTable | 2 copies of a chunk, a text with a TTL | 508,092 |
| text_delivery | TextTypeOK, QueuedUntilDelivered, ConfirmedIsReceived, HardStaysGone, TtlTextGoes, QueueDrains, SentIsReceived | 1 text with each TTL mode, each choice of sharing readings; loss with a removal of the contact, or a restart of one side | 480,603 |
| consent | ConsentTypeOK, ConfirmedByBoth, ConfirmedKnowsMe, NothingSentUnasked, ShownIsStored, HelloBecomesRequest, ViewsAgree, OfferEnds, AcceptStarts | 2 people, 2 and 1 greetings, or 1 each with removals and stops; 1 offer, with and without loss, restart and withdrawal | 203,785 |
| transport | TransportTypeOK, BatchedOnce, RelaysUnlinked, TextRetriesEnd, GoneIsForgotten, ReachableAgain, OnionArrives | 3 texts of three sizes; 1 node and its bootstrap; 3 contacts, a message and a dummy | 365,282 |
| finding_receiver_restart, finding_deleted, finding_batch, finding_relay | the code does not do what it says, section 8 | the smallest that show it | |

Bounds, and why they are enough:

- `Media`, `Total`: two files are enough for one to be in the way of another; two chunks
  for a first and a last one, for a missing one, and for a count that one duplicate
  fills. `Workers`, `QueueCap` are 1, so that the queue is full most of the time, which
  ten workers and a thousand places make rare.
- `RetryLimit` (10 in the code), `RestoreLimit` (3 in FileSender's code): 1 or 2. The
  code compares and increments; the order of the two limits is kept by an assumption.
- `MaxRuns` of a transfer: accepts honoured for a file, 1 in the runs; the theorems hold
  for every value, and say what a second accept can do. In FileOffers it is 2, as a second
  tap on the button can start a second run.
- `MaxInFlight`: a state with more messages in flight, or in the hands of a handler that
  has to look twice (`inHand`, `unfound`), is checked and not continued. With
  1, a message still meets the next one, and retries and duplicates occur since a chunk
  may arrive, be lost, or be sent again later. transfer_restarts takes no separate losses:
  what a killed receiver had in hand, in memory or in its buffer is lost there. It is not used in the liveness runs,
  where a constraint would make the result meaningless; their networks are bounded
  by the few chunks.
- `MaxSaved`, `MaxScored` in MessageStore: at most 3 messages in the state file (all of
  them) and one feedback. Three messages are what Remove needs: a hole, a message that
  fills it, and another one; two of them share a chunk because an index keyed by chunks
  can only go wrong there.
- TextDelivery: texts share only the queue and the batches of acknowledgements, so that
  one text shows what its copies, its confirmations and its deadlines can do to each
  other; the theorems hold for any number. `MaxRestarts` is 1: the state after a restart
  is one the code can start from, with what the files hold, and what is written to the
  files is followed only while a restart may still read it. `PlainRestarts` leaves some
  behaviours out as a whole and cuts none off: the sender is restarted with a text whose
  deadline no reading starts, and with both or neither sharing readings.
- Contacts: `MaxHellos` of 2 and 1 lets the second request of one side overtake or
  replace the first while the other side asks, too. With removals and stops it is one
  each (`FewGreeted`, a constraint that no behaviour of the two liveness properties ever
  meets, as these speak of behaviours without removals and stops).
- TextBatch: with sizes 2, 3, 1 and a limit of 4, t1 and t2 do not fit together and each
  fits with t3; `FlushCount` is 2 in the passing run, so that both reasons to flush occur.
- SphinxRoute: three contacts are the least with which two relays and a recipient exist;
  four would add routes of the same shape.

The transfer, text, consent and transport runs say `CHECK_DEADLOCK FALSE`: a transfer
that is finished, given up or aborted stops, a text that was delivered and people who
have agreed leave nothing to do. That they do not stop earlier is what the liveness
properties say. MessageStore never stops, and its run checks deadlock.

## 6. Fairness

`FairSender`: a goroutine that can go on does (weak fairness of each run, each worker,
the retry loop and its items, and the second lookup of an acknowledgement). Two parts are strong:

- `PushChunk`: a Go channel serves blocked senders in the order they came. The run and
  the retry loop compete for room, so the run is enabled again and again rather than
  continuously; it cannot be overtaken for ever.
- a scan that finds a given entry due: the backoff is at most ten minutes and the scan
  runs every 15 seconds, so each entry that stays becomes due at some scan, though at
  any one scan it need not be.

`LossySpec` is `Spec` with `FairSender` alone: the network and the receiver owe nothing.
Under it every entry still leaves `unackedChunks` (`EntriesLeave`), as the comment on
`retryLoop` says. `ReliableSpec` adds `FairExchange`: each message arrives and is
handled, the flush timer fires, the app saves and assembles. Under it every accepted
file is received and its copy dropped (`AcceptedIsReceived`). Nothing is assumed of the
user, of aborts or of restarts; loss is off in this run, since delivery through a network
that loses whatever it likes cannot be promised with a limited number of retries.

`TextFairness`: the goroutines run and handlers that began end (`RemovePending`,
`MarkDelivered`), announceLoop flushes the queue every four minutes,
and DeleteExpired runs every minute (weak); a text, or an acknowledgement that names it,
that is sent again and again arrives again and again (strong, on receiving). The queue
has no limit of attempts, so loss is allowed here.

`ContactsFairness`: what is in flight arrives, and a call of the node ends (`ConfirmAdded`
included). No user has
to do anything, and a message is in flight only once. `OffersFairness`: an offer and an
accept that are in flight arrive, a run ends, and the cleanup comes every minute; in the
scenario with loss they may be lost first.

`BatchFairness`: goroutines run, the ticker comes every second, the retry loop every 15.
`RendezvousFairness`: start, reconnectLoop, refresh, relayLoop, the cleanup and the ping
loop go round, an ANNOUNCE that is not lost arrives, reservations age, and a sender with
a message keeps sending. Nothing is assumed of the network: the properties speak of what
follows when it stays up or stays down from some time on. `SphinxFairness`: streams are
read and sleeps end; `OnionArrives` speaks of routes on which no hop fails.

## 7. The proofs

The named ASSUMEs of the modules (sets are finite, limits are numbers) are the only
assumptions, unless the table says otherwise: no bound on files, chunks, texts, people,
runs, workers, losses or restarts.

| module | theorem | property | further assumption |
|---|---|---|---|
| FileTransferProofs | TypeCorrect | TypeOK | |
| | SourceIsKept | SourceKept | |
| | StatusIsHonest | DeliveredIsReceived | |
| | AssemblyIsComplete | AssembledIsComplete | |
| | TurnIsExclusive | OneFileAtATime | |
| | TurnIsNeverLost | TurnHasOwner | |
| | AbortIsSeen | AbortStopsRun | |
| | AcknowledgedIsHeld | AckedIsHeld | `Steady`: the receiver does not stop |
| | LaunchedIsNotLost | LaunchedIsTracked | `SenderLives`: the sender does not stop |
| | RestartForgetsNothing | RememberedIsTracked | |
| FileDeliveryProofs | TransferDelivers | ImplementsDelivery | |
| | TransferKeepsPromise | `FD!Promise`: what FileDelivery comes to | |
| MessageStoreProofs | StoreTypeCorrect, IndexIsExact, ChunkIsFound, ClearedIsFetched | TypeOK, IndexExact, ChunkFound, ClearedWasFetched | |
| | StoreImplementsTable | ImplementsTable | |
| | TextsStayWhole | `Table!Whole`: what is not a chunk is kept with its text or not at all | |
| PendingQueueProofs | QueueIsSavedSoon, TextQueueIsSavedSoon | QueuedIsSavedSoon, of the queue and of all of TextDelivery | |
| TextDeliveryProofs | TextTypes, PendingUntilDelivered, HardMessagesStayGone, ConfirmationsAreHonest | TextTypeOK, QueuedUntilDelivered, HardStaysGone, ConfirmedIsReceived | |
| | OnlyAKillLosesConfirmed | ConfirmedIsKept | of behaviours without "receiverRestart" |
| ContactsProofs | ContactsTypes, ConfirmedTakesTwo, ConfirmedCanDecrypt | ContactsTypeOK, ConfirmedByBoth, ConfirmedKnowsMe | |
| ConsentProofs | NothingUnasked, ButtonsAnswerSomething | NothingSentUnasked, ShownIsStored | |
| | ConsentTypes | ConsentTypeOK with the four safety properties of the two protocols | |
| TransportProofs | NoTextInTwoBatches | BatchedOnce | |
| | OnlyTheGapLoses | OnlyReplacedAreLost | |
| | SmallTextsLeave | nothing composed is lost before it is sent | `TextsFit`: FlushCount texts fit into a batch |
| | RelaysStayApart | RelaysUnlinked | |
| | LettersGoWhereDue | LettersAreDue, the safety half of OnionArrives | |
| | TransportTypes | TransportTypeOK with BatchedOnce and RelaysUnlinked | |

Every invariant and every action property that a passing run checks is stated by one of
these theorems. What their further assumptions are for:

- `Steady`: an acknowledged chunk is lost by a kill of the receiver (section 8). In the
  same way `OnlyAKillLosesConfirmed` says that nothing else loses a confirmed text.
- `SenderLives`: a restart puts no queue, worker or run back, only what was saved. What
  does hold over restarts is RestartForgetsNothing, without an assumption.
- `TextsFit`: with larger texts a full buffer is handed over between the two locks of
  `addToBatch`, and OnlyTheGapLoses says that this is the one step that loses a text
  (section 8). With the code's limits it means that no ten texts exceed 60 KB.

A second accept is no assumption but an exception inside the three properties of the turn
(`AcceptedTwice`): the theorems hold for every `MaxRuns`, and say what remains when the
deferred release of one run gives the turn of another run of its file away, or when the
run that sees an abort first takes the flag down for the other.

The inductive invariants:

- *TypeInv* (FileTransfer) strengthens TypeOK by two facts. `InLoop`: a run in `push` or
  `add` has `next < Total`, without which `ChunkOf(j, next[j])` need not be a chunk.
  `BatchOpen`: an entry that is in the retry snapshot has not used up its attempts,
  without which the later `attempts++` could pass the limit; it holds because only a
  scan makes the snapshot, and it leaves spent entries out.
- *Honest* is SourceKept and DeliveredIsReceived together with `MailHonest` (a
  `[FILE_COMPLETE]` or `[READ]` in flight is about a file the receiver once assembled, and
  a file that is assembled now was), `UserAborted` (a flag or a pending deletion comes from
  what a user gave up) and `EarlyAcked` (what was marked by an early acknowledgement, or is
  about to be, was acknowledged). The two properties need each other: the cleanup goes by
  statuses, and statuses come from the mail, or from `MarkUnfound`. Lemma `DeliveredFile`
  counts: a file with Total delivered chunks was received, or all of those chunks were
  marked early, so that it is `Hasty`; and `Hasty` stays, as `early` grows.
- *Tracked* (FileTransfer) is what LaunchedIsTracked and RememberedIsTracked say of a
  chunk: in chunkQueue, with a worker, listed, acknowledged, given up, or of a file that a
  user gave up or whose count is full. `TrackedStays` shows, for each step but a restart of the
  sender, that it keeps a tracked chunk tracked: what `TakeChunk` takes from the queue the
  worker holds, what a worker sends `unackedChunks` lists, a retry leaves the entry or
  gives it up, an acknowledgement names what it takes out or fills the count, and a count
  does not fall while its file is not deleted or declined.
  It needs `UserAborted` (from Honest), because a worker drops a chunk whose flag is up.
  *AllTracked* (all that is launched) is then inductive as long as the sender lives.
  RestartForgetsNothing replaces it by *MemoryIsTracked* (all that the memory has as
  sent) and *AddedIsTracked* (a run that has queued a chunk and has still to add it to
  the memory): a restart restores `memS` from the state file, and `resumeFile` lists each
  restored chunk unless it is delivered, its copy is gone (Honest says for which
  reasons) or the count of its file is full.
- *CameInv*: what is in `text` or on disk was accepted by `memory.Add` at some time;
  AssembledIsComplete follows when the last file is there.
- *TurnHeld*: a run that sends is one of the active file or of a file accepted twice, and
  the active file has a run that sends. A release frees the turn of its own file only, and
  if another run of that file sends it was accepted twice. *AbortHolds*: an aborted file
  has been accepted, and each of its runs has ended, finds the flag up, or has a second one
  beside it. Both rest on `RunsStay` (no step takes a run back to "idle", so a file accepted
  twice stays so), and AbortHolds on `OfferOpen` (the app can abort only what was accepted).
- *HeldInv* is AckedIsHeld together with: whatever is in `memR` is held, or the user
  aborted its file; and a `[FILE_ABORT]` in flight comes from such an abort. It is needed
  because `StoreChunk` acknowledges a rejected chunk, and the only reason to believe in
  its data is that the first copy was held.
- *OnlyAsked* (FileDeliveryProofs): no chunk is queued, with a worker, listed, remembered,
  saved, in flight, in a handler's hand or marked early unless its file was accepted. With TypeInv,
  Honest and CameInv it makes every step one of FileDelivery: `StoreChunk` takes a piece
  (`OnlyAsked` gives its guard), `TryAssemble` completes (CameInv gives "every piece"),
  and whatever changes copies or statuses settles the books (Honest gives both parts of
  Settle, for the new state). `Promise` is an invariant of FileDelivery, proved of its
  own steps only, and carried over to FileTransfer by the refinement.
- *StoreInv* (MessageStore) is TypeOK and IndexExact (IdIndexExact and ChunkIndexSound) with "no msgID
  twice in the state file", since a restart builds the indexes from it. ChunkFound and
  ClearedWasFetched are inductive relative to it, the latter with "in the state file only
  chunks lack their data". The lemmas on `InOrder` and `Kept` say what a loop that copies
  some elements to a new slice leaves; they take the place of `SelectSeq`, which is
  recursive. What a step does to the slice is stated in lemmas (`RemoveStep`,
  `DeleteExpiredStep`, ...) and used by the theorems.
  StoreImplementsTable uses StoreInv for what one msgID stands for: the slice has no two
  messages with it (`Unique`), so that what has its data follows from what stays
  (`FullFollows`), and the message Remove swaps out is the one it was asked for. `Whole`
  is an invariant of MessageTable, proved of its own steps.
- *CopiesCover* (PendingQueue): while no two saves have overlapped, at most one copy is
  being written; and unless a save is to come that has not copied the queue, that copy
  covers the queue, and one is being written unless the file covers it already. The queue
  only shrinks between a copy and its write, unless a save is scheduled after it. With
  overlapping saves nothing of this holds: the older copy may be written last.
  `TextStepIsQueueStep` shows that each step of TextDelivery is one of PendingQueue or
  leaves it alone, so the result carries over.
- *KnownIsTracked* (TextDelivery): with `Tracked` = replicating, queued, acknowledged or
  lost before a save, whatever either node or the network knows of is tracked. `Tracked`
  only grows (`TrackedGrows`): confirmations and restarts hand over what they take out. A
  restart needs QueuedIsSavedSoon for that: what it finds missing in the file had a save
  ahead, or saves had overlapped.
- *HardIsDated*: a hard text never has an undated copy anywhere, in memory or in a file,
  and once it is over every copy is over or gone, so that no source is left from which a
  restart or a resend could bring it back. `[TTL_UPDATE]`, which sets a deadline blindly,
  is only ever about after_read texts.
- *OnlyTruths*: acknowledgements and readings in a buffer, in flight or in a status, in
  memory or in a file, are of texts that were received (or are past their hard deadline:
  a refused copy is acknowledged, too). *AckedIsThere*: a text without a TTL that is in
  such a buffer, in flight or handled is in the receiver's memory, as long as she knows
  the sender; it needs HardIsDated, by which no `[TTL_UPDATE]` is about such a text and
  `memory.Add` refuses it only as one that is there.
- *GoesBackToChoice* and *ChosenIsThere* (Contacts): a hello, request or accept in flight,
  a stored request, a call in progress and a peer that is added and yet to be confirmed go back to the choice of the user they speak
  for; and who was chosen is in the contacts until removed.
- *ConsentBehind* (ConsentProofs): an accept in flight and a run have a consent behind them.
- *OnePlace* (TextBatch): what waits, what is in a batch and what has left are disjoint,
  and only composed texts are anywhere. `NothingLost` shows that every step but
  `ReplaceBuffer` leaves each composed text in one of the places, and *BufferHasRoom* that
  `ReplaceBuffer` never comes when the limits fit.
- *Routes* (SphinxRoute): for a letter that left by Sphinx there are two relays, different
  from each other and from the recipient, such that each packet of it, in flight or held
  back, is one of the three stages of that way, with exactly the layers that are left
  then, and each trace is one that a relay of that way makes; of another letter there is
  neither packet nor trace. The relays are chosen once, in `SendViaSphinx`; a packet that
  is sent on, delayed, or dropped stays on the way whatever becomes of the trust in its
  relays, since no relay looks at contacts. RelaysUnlinked is then a case analysis of the
  two traces. *LettersAreDue* relies on the last layer naming the recipient alone.

ConsentTypes and TransportTypes take the invariants of the parts together. They hold by
the same steps, because the parts share no variable: a step of one leaves the others'
variables unchanged, which is the stuttering step their lemmas allow.

Only model-checked is everything temporal: `AcceptedIsReceived` and `EntriesLeave` of the
transfer, `TtlTextGoes`, `QueueDrains` and `SentIsReceived` of the texts,
`HelloBecomesRequest` and `ViewsAgree` of the contacts, `OfferEnds` and `AcceptStarts` of
the offers, `TextRetriesEnd`, `GoneIsForgotten`, `ReachableAgain` and `OnionArrives` of
the transport. They are liveness under fairness, and fairness speaks of ENABLED, both
out of reach of the prover; OnionArrives has its safety half proved. So is what a
recursive definition computes for every input; no module with a theorem uses one. Nor is
anything proved of what `EstimateSize` sums up to (a fold over a set): `TextsFit` states
what is needed of it.

## 8. Where the code differs from what it says

With a run that shows it (`findings` in `PROJECT.json`):

- *An acknowledged chunk is lost by a restart of the receiver* (`node_p2p.go:340`,
  finding_receiver_restart, `AckedIsHeld`). `[DELIVERED]` is queued when the chunk is
  only in memory; the state file has no chunk data, and the sender does not retry.
- *A deleted contact returns by itself* (`node_contacts.go:66`, finding_deleted,
  `DeletedStaysDeleted`). `handleContactAccept` adds the peer whatever became of the
  request it answers: one that was removed while the request was unanswered is taken off
  the list of the deleted ones by a late answer.
- *A text between two locks* (`node_batch.go:64`, finding_batch, `ComposedIsTracked`).
  `addToBatch` gives its lock up after it handed a full buffer over, and then stores a
  new one without looking: a text that another call appended in between is dropped.
- *No second chance for the first reservation* (`node_announce.go:292`, finding_relay,
  `OnlineHasSlot`). `relayPeerInfo` is set only by a reservation that succeeded, so a
  node that starts without a network has no slot later although it is connected.

Stated as a property that is not part of a run; each line names what to add to which
configuration for TLC to show the violation:

| property | in | what goes wrong | seen with |
|---|---|---|---|
| UnconfirmedIsRetried | FileTransfer | `deliveredCount` counts a second acknowledgement of one chunk (`node_service.go:425`); at ChunkTotal the entry of a chunk nobody confirmed is deleted too | transfer_retry with `Events = {"slow"}`, `MaxInFlight = 2` |
| AbortedStaysUnassembled | FileTransfer | `handleFileAbort` may run between `IsAborted` and `memory.Add` (`node_p2p.go:303`); the chunk is stored and may complete the aborted file | finding_receiver_restart with `Events = {"abort"}` |
| AcceptedIsResumed | FileTransfer | `resumeFile` restores chunks found in memory only (`media.go:599`); those a killed run had not reached are never made | finding_receiver_restart with `Events = {"senderCrash"}`, `Total = 2` |
| ShownIsAssembled | FileTransfer | `handleDeliveredRef` asks whether a ref is a chunk and sets the status under separate locks (`node_service.go:402`), and a chunk is in the queue before it is in memory (`media.go:475`): one that `memory.Add` records in between is shown as delivered like a text, and counts for the cleanup of `sent/`; the doc has the second tick "only after [FILE_COMPLETE]" (`OVERVIEW.md:465`) | finding_receiver_restart with `Events = {}` |
| OneFileAlways | FileTransfer | each accept starts a run, a second run of the active file passes the wait, and the deferred release clears the turn whichever run of the file holds it (`media.go:385`); the comment has "file 1 queues all chunks, then file 2 begins" (`media.go:374`) | transfer_delivers with `Spec`, `MaxRuns = 2` |
| QueueFileKeepsUp | PendingQueue | a save copies the queue under the lock and writes after it, and nothing orders the saves (`node.go:1086`): an older copy written last leaves a queued text out of the file with no save due, and a kill loses it | text_delivery with `TextSpec`, two texts, `Scenarios = {{"senderRestart"}}` |
| ScoreHitsItsMessage | MessageStore | `handleFeedback` writes through a pointer that Remove or DeleteExpired has given another meaning (`handlers.go:343`) | message_store |
| ConfirmedIsKept | TextDelivery | a text is acknowledged before `saveState`; a kill of the receiver in between loses it, and the sender has it confirmed (`CHANGELOG.md:498` says a forced stop loses nothing) | text_delivery |
| ExpiredIsUnanswered | FileOffers | `OffersStore.Remove` (`node_offers.go:158`) is never called, so an offer that was accepted expires after OFFER_TIMEOUT, "how long we wait for an answer" (line 20), and its file is labelled as expired | consent |

Noticed while modelling, and in the models where the part is modelled:

- `node_files.go:27`: the run that sees the abort flag clears it (`media.go:417`), and
  a worker that comes later sends a queued chunk of the aborted file. `AbortStopsRun`
  speaks of runs only.
- `chat_provider.dart:2444`: which way a file is deleted depends on the state of its offer
  that the app remembers in this session only. After a restart of the app a running
  transfer is deleted without `[FILE_ABORT]`: its run goes on, and the receiver is not told.
- `node_offers.go:561`: a decline that comes after an accept takes the copy and the entries
  away and stops no run.
- `node_files.go:216`: after a failed restore the entry is read again; when an
  acknowledgement has removed it, a zero value is put back and retried in vain until it
  is given up. `EntriesLeave` and `TextRetriesEnd` are checked with it.
- `node_batch.go:118`: the retry entries of a batch's texts have no media, so that no
  retry can restore them; a batch that a relay drops is not sent again. For the same
  reason a Sphinx packet lost behind the first relay is gone: `sendViaSphinx` has
  returned true.
- `node_batch.go:86` promises one Sphinx packet; a batch near the limit of 60 KB
  (`node_batch.go:60`) does not fit into the payload of 65532 bytes (`sphinx.go:38`)
  once it is encrypted and in base64, and always takes the fallback. A batch carries no
  TTL for its texts.
- `docs/architecture/OVERVIEW.md`, "hard: Timer from receipt": the code lets the hard
  deadline run from the sending, at both nodes, as the message carries it.
- `node_service.go:513`: SendReadBatch does nothing when readings are not shared, so
  that the deadline of an after_read text then starts only with `[TTL_UPDATE]`, or the
  48 hours of DeleteExpired. `TtlTextGoes` is checked with it.
- A receiver who removed the sender acknowledges nothing: the queue sends to her for
  ever. `QueueDrains` excepts it.
- `chat_provider.dart:1607`: when the call that made the offer returns after the answer
  came, "pending" overwrites "accepted"; only the label is wrong (`AcceptStarts`).
- `chat_provider.dart:776` says that an expired offer is told to the sender; only the
  receiver's store expires.
- `node.go:945`: `fallbackSend` uses the first bootstrap only and returns true for a
  stream still to be opened. The queue makes up for it for texts; nothing does for
  contact, offer and read messages, which are sent once.
- `chat_provider.dart:2190`: chunk files that are complete when the app starts are only
  assembled when one more chunk of the file comes.
- `memory.go:325`: Remove forgets the index entry of a chunk with either copy; the other
  copy stays and is not found. This is why `ChunkFound` excepts `dropped`.
- `node_p2p.go:991`: `requestRestore` sends the first eight characters of the peer ID,
  which the replica lookup compares with full ones, so that nothing is ever restored.
- `memory.go:561`: an expired text's msgID is forgotten with it; a copy that arrives
  later is refused for its own deadline only (`HardStaysGone`), and an after_read text
  is new again.
- `layers.go:144`: the layers are recorded as synced before it is known that there is a
  peer to send them to.

## 9. What is not modelled

In the transfer: a TTL that removes chunks and files in the middle of a transfer;
progress pushes; `completedFiles` and `acceptedCount`, which only feed them; several
simultaneous fetches and `tryAssemble` of one file inside the app (the model has one of
each file at a time); a hook that loses a push (a chunk in memory can always be
fetched); the choice of a route and mixing delays (all are "in flight"); encryption,
which can fail and otherwise is the identity on identifiers; a state file or a queue file
that is cut off in the middle of a write (`state.go:151` overwrites it in place; here a
write is one step); the receiver's user deleting her own copy of a file; two lookups of one
unfound chunk, which count once. `ReceiveAccept` starts from an accept that comes; where
accepts come from is FileOffers, of which this is one of the runs. All files have the
same number of chunks, and there is one sender and one receiver: transfers between other
pairs share only `chunkQueue` and the turn with this one, and a second file plays that
part.

In the store: weights, archive, statuses and read marks (the latter two are in
TextDelivery, per message); `PurgeDead`, `ArchiveOld` and `ClearChunkData`, which the
program never calls. Readers that only return a copy are the properties' business. Data
races on single words are not modelled, except the pointer of `handleFeedback`.

In the texts: messages without a recipient, text vectors and weights; the order of the
queue; a receiver that is stopped by Stop rather than killed; the reading of one text by
both SendRead and SendReadBatch at once. A stop of the app that does not stop the node
changes nothing the models look at.

In contacts and offers: names and signatures (taken as valid: what a message says of its
sender is true), the `read_enabled` flag, renaming, several offers (kept by mediaID, they
share nothing), two calls of one answer under way at once (kept as one). TextDelivery's `knows`, TextBatch's `hasKey` and SphinxRoute's `trusted`
are inputs there and results of Contacts; a removal is the only change of Contacts that
they react to, and it is an event in the first two.

In the transport: several bootstraps, ExchangePeers and the choice among addresses; the
lengths of backoffs and timeouts; sizes, keys and padding of Sphinx packets; the text
inside a batch going through the receiver's `memory.Add` (as in TextDelivery).

Components without a module: *layer gossip and adaptation* exchanges vectors of floating
point numbers that are averaged and compared with thresholds, and no message or contact
depends on them; *channels* are a list with one arithmetic rule; *settings* are values
and a file, of which those a protocol depends on are parameters of the models; *keys,
seed phrase, steganography and text vectors* are cryptography, encodings and floating
point; the *DHT* is a library; the *HTTP front end*, the *mobile binding* and the
*Flutter screens* decode and show, around operations that are modelled.

## 10. Plan

Done: the transfer and its promise, the store and its promise, texts with their queue, contacts, offers,
batches, routes, and the rendezvous; theorems for every invariant and action property of
the runs.

Next, in this order:

1. *MediaAssembly*: the app's concurrent fetches, `_assembling`, and the second look
   after an assembly, as a refinement of the one-step `SaveChunk` and `TryAssemble`.
2. Composition of Contacts with TextDelivery, so that `knows` is the result of a removal
   and of a new request, and of FileOffers with FileSender, so that the second accept of
   an offer is the second run of a file.
3. Abstract specifications of contacts (two opinions that come to agree) and of offers
   (asked, answered, withdrawn), with the protocols refining them, as FileDelivery
   and MessageTable are refined for files and the store.
4. Conditions under which `UnconfirmedIsRetried` and `AcceptedIsResumed` (section 8) do
   hold, as theorems like OnlyAKillLosesConfirmed and SmallTextsLeave.
5. A second accept in the liveness runs: what becomes of two overlapping runs of a file.
