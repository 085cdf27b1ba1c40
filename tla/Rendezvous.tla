----------------------------- MODULE Rendezvous -----------------------------
(***************************************************************************)
(* How a node behind a NAT stays reachable through a bootstrap node        *)
(* (node/node_announce.go, node_p2p.go, node.go): the bootstrap relays     *)
(* connections for those that reserved a slot, keeps the directory that    *)
(* ANNOUNCE fills and FIND asks, and forwards what is sent to the node.    *)
(*                                                                         *)
(* One node and one bootstrap; all nodes share nothing but the bootstrap.  *)
(* The relay service and the connections are libp2p's.  Time is            *)
(* abstracted to what is over: a reservation, an entry, ten seconds.       *)
(***************************************************************************)
EXTENDS Naturals

VARIABLES
    online,         \* the two run, and the network carries what they send
    linked,         \* they are in each other's Network().Peers()
    crowd,          \* the node has other peers, so that reconnectLoop rests
    slot            \* the relay holds a reservation for the node

VARIABLES
    starting,       \* how far the goroutine that InitP2P starts has come
    reservation,    \* n.relayReservation, with n.relayPeerInfo
    reserveErr,     \* n.lastReservationErr is set
    refreshed,      \* n.lastRelayRefresh is less than ten seconds ago
    notified,       \* a goroutine of Connected has still to refresh
    announcing      \* n.announceMultiaddrs is set

VARIABLES
    announced,      \* an ANNOUNCE is in flight
    entry,          \* the directory's entry of the node, by its age
    cleaning,       \* cleanupAnnounced: whether its snapshot has the node
    pinging,        \* a ping of the node is on its way
    deadMark,       \* the node is in the bootstrap's deadPeers
    parcel          \* a message to the node, which its sender keeps sending

network  == <<online, linked, crowd, slot>>
client   == <<starting, reservation, reserveErr, refreshed, notified, announcing>>
bootNode == <<announced, entry, cleaning, pinging, deadMark, parcel>>
rendezvousVars == <<network, client, bootNode>>

RendezvousTypeOK ==
    /\ {online, linked, crowd, slot} \subseteq BOOLEAN
    /\ starting \in {"off", "connect", "reserve", "done"}
    /\ reservation \in {"none", "valid", "expiring"}
    /\ {reserveErr, refreshed, notified, announcing, announced, pinging, deadMark}
            \subseteq BOOLEAN
    /\ entry \in {"none", "fresh", "stale"}
    /\ cleaning \in {"no", "linked", "gone"}
    /\ parcel \in {"none", "sender", "bootstrap", "received"}

RendezvousInit ==
    /\ online \in BOOLEAN /\ linked = FALSE /\ crowd \in BOOLEAN /\ slot = FALSE
    /\ starting = "off" /\ reservation = "none"
    /\ reserveErr = FALSE /\ refreshed = FALSE /\ notified = FALSE /\ announcing = FALSE
    /\ announced = FALSE /\ entry = "none" /\ cleaning = "no"
    /\ pinging = FALSE /\ deadMark = FALSE /\ parcel = "none"

\* A connection comes up (or is there): Connected starts a goroutine for a new one.
Link == linked' = TRUE /\ notified' = (notified \/ ~linked)

\* ReserveRelaySlot: client.Reserve dials.
ReserveRelaySlot ==
    IF online
    THEN /\ Link
         /\ slot' = TRUE /\ reservation' = "valid" /\ reserveErr' = FALSE
    ELSE /\ reserveErr' = TRUE
         /\ UNCHANGED <<linked, notified, slot, reservation>>

\* SendAnnounce.  Without a connection, a stream to the bootstrap dials it, if its
\* addresses are still known.
SendAnnounce ==
    \/ /\ online
       /\ Link
       /\ announced' = TRUE
    \/ /\ ~(online /\ linked)
       /\ UNCHANGED <<linked, notified, announced>>
-----------------------------------------------------------------------------
\* The user starts the app: InitP2P.
StartNode ==
    /\ starting = "off"
    /\ starting' = "connect"
    /\ UNCHANGED <<network, reservation, reserveErr, refreshed, notified, announcing, bootNode>>

\* The goroutine of InitP2P connects to the bootstrap ...
ConnectAtStart ==
    /\ starting = "connect"
    /\ starting' = "reserve"
    /\ IF online THEN Link ELSE UNCHANGED <<linked, notified>>
    /\ UNCHANGED <<online, crowd, slot, reservation, reserveErr, refreshed, announcing, bootNode>>

\* ... and reserves a slot: the only place that sets relayPeerInfo for the first time.
ReserveAtStart ==
    /\ starting = "reserve"
    /\ starting' = "done"
    /\ ReserveRelaySlot
    /\ UNCHANGED <<online, crowd, refreshed, announcing, bootNode>>

\* reconnectLoop dials only when there are no peers at all.
Reconnect ==
    /\ starting # "off" /\ ~linked /\ ~crowd /\ online
    /\ Link
    /\ UNCHANGED <<online, crowd, slot, starting, reservation, reserveErr, refreshed,
                   announcing, bootNode>>

\* refreshRelayAndAnnounce, a second after Connected: not twice in ten seconds, unless
\* the last reservation failed; not at all without a relayPeerInfo.
RefreshRelay ==
    /\ notified
    /\ IF refreshed /\ ~reserveErr
       THEN /\ notified' = FALSE
            /\ UNCHANGED <<network, reservation, reserveErr, refreshed, announced>>
       ELSE /\ refreshed' = TRUE
            /\ IF reservation = "none" \/ ~online
               THEN /\ notified' = FALSE
                    /\ reserveErr' = (reserveErr \/ reservation # "none")
                    /\ UNCHANGED <<network, reservation, announced>>
               ELSE /\ linked' = TRUE /\ notified' = ~linked
                    /\ slot' = TRUE /\ reservation' = "valid" /\ reserveErr' = FALSE
                    /\ announced' = (announced \/ announcing)
                    /\ UNCHANGED <<online, crowd>>
    /\ UNCHANGED <<starting, announcing, entry, cleaning, pinging, deadMark, parcel>>

\* An iteration of relayLoop that does something: the node's own record is about to end.
RelayLoop ==
    /\ reservation = "expiring"
    /\ ReserveRelaySlot
    /\ UNCHANGED <<online, crowd, starting, refreshed, announcing, bootNode>>

\* The app announced the addresses of a network it is in; announceLoop repeats them.
Announce ==
    /\ starting # "off"
    /\ announcing' = TRUE
    /\ SendAnnounce
    /\ UNCHANGED <<online, crowd, slot, starting, reservation, reserveErr, refreshed, entry,
                   cleaning, pinging, deadMark, parcel>>

AnnounceLoop ==
    /\ announcing
    /\ SendAnnounce
    /\ UNCHANGED <<online, crowd, slot, starting, reservation, reserveErr, refreshed,
                   announcing, entry, cleaning, pinging, deadMark, parcel>>
-----------------------------------------------------------------------------
\* handleStream, ANNOUNCE: announcePeer.
HandleAnnounce ==
    /\ announced
    /\ announced' = FALSE
    /\ entry' = "fresh"
    /\ UNCHANGED <<network, client, cleaning, pinging, deadMark, parcel>>

\* lookupPeer: an entry past its TTL is deleted, not found.
Lookup == entry' = IF entry = "fresh" THEN "fresh" ELSE "none"

\* handleStream, FIND: someone asks for the node.
HandleFind ==
    /\ entry # "none"
    /\ Lookup
    /\ UNCHANGED <<network, client, announced, cleaning, pinging, deadMark, parcel>>

\* cleanupAnnounced, every minute: who is connected is read before the lock is taken ...
CleanupStart ==
    /\ entry # "none" /\ cleaning = "no"
    /\ cleaning' = IF linked THEN "linked" ELSE "gone"
    /\ UNCHANGED <<network, client, announced, entry, pinging, deadMark, parcel>>

\* Mutant of Outdated: only the age counts.
OutdatedByAge == entry = "stale"

\* The node was not connected at the snapshot, or its entry is past the TTL.
Outdated == cleaning = "gone" \/ entry = "stale"

\* ... then the entries of the others go, and those past their TTL.
CleanupEnd ==
    /\ cleaning # "no"
    /\ cleaning' = "no"
    /\ entry' = IF Outdated THEN "none" ELSE entry
    /\ UNCHANGED <<network, client, announced, pinging, deadMark, parcel>>

\* Mutant of PingFails: an answer does not clear the mark.
PingFailsOnce == deadMark \/ ~(linked /\ online)

\* markPeerDead, else markPeerAlive.
PingFails == ~(linked /\ online)

\* pingPeers of the bootstrap: the answer, or the timeout, may come after a disconnection
\* has cleared the mark.
PingStart ==
    /\ linked /\ ~pinging
    /\ pinging' = TRUE
    /\ UNCHANGED <<network, client, announced, entry, cleaning, deadMark, parcel>>

PingEnd ==
    /\ pinging
    /\ pinging' = FALSE
    /\ deadMark' = PingFails
    /\ UNCHANGED <<network, client, announced, entry, cleaning, parcel>>

\* The sender's flushPending, again and again until the confirmation.
SendParcel ==
    /\ parcel = "sender"
    /\ parcel' = "bootstrap"
    /\ UNCHANGED <<network, client, announced, entry, cleaning, pinging, deadMark>>

\* replicateMessage at the bootstrap: sendToRecipient goes straight to a peer that is not
\* marked dead; fallbackSend looks the node up, and its addresses lead to it only over the
\* connection that is there.  Nothing is queued.
ForwardParcel ==
    LET direct == linked /\ ~deadMark /\ online
    IN  /\ parcel = "bootstrap"
        /\ parcel' = IF direct \/ (linked /\ online /\ entry = "fresh") THEN "received" ELSE "sender"
        /\ IF direct THEN UNCHANGED entry ELSE Lookup
        /\ UNCHANGED <<network, client, announced, cleaning, pinging, deadMark>>

\* The user of another node writes (again).
ComposeParcel ==
    /\ parcel \in {"none", "received"}
    /\ parcel' = "sender"
    /\ UNCHANGED <<network, client, announced, entry, cleaning, pinging, deadMark>>
-----------------------------------------------------------------------------
\* The network, and time.
GoOffline ==
    /\ online' = ~online
    /\ UNCHANGED <<linked, crowd, slot, client, bootNode>>

\* Both ends notice: Disconnected; the relay drops the slot.
Disconnect ==
    /\ ~online /\ linked
    /\ linked' = FALSE /\ slot' = FALSE /\ deadMark' = FALSE
    /\ UNCHANGED <<online, crowd, client, announced, entry, cleaning, pinging, parcel>>

LoseAnnounce ==
    /\ ~online /\ announced
    /\ announced' = FALSE
    /\ UNCHANGED <<network, client, entry, cleaning, pinging, deadMark, parcel>>

\* The node ends, and is off.
StopNode ==
    /\ ~online /\ ~linked /\ starting # "off"
    /\ starting' = "off" /\ reservation' = "none" /\ reserveErr' = FALSE
    /\ refreshed' = FALSE /\ notified' = FALSE /\ announcing' = FALSE
    /\ UNCHANGED <<network, bootNode>>

\* The bootstrap ends and starts again: its directory is in memory.
RestartBootstrap ==
    /\ ~online /\ ~linked
    /\ announced' = FALSE /\ entry' = "none" /\ cleaning' = "no"
    /\ pinging' = FALSE /\ deadMark' = FALSE
    /\ parcel' = IF parcel = "bootstrap" THEN "sender" ELSE parcel
    /\ UNCHANGED <<network, client>>

\* Ten seconds since the last refresh are over.
ThrottleEnds ==
    /\ refreshed
    /\ refreshed' = FALSE
    /\ UNCHANGED <<network, starting, reservation, reserveErr, notified, announcing, bootNode>>

\* Less than five minutes of the reservation are left.
ReservationAges ==
    /\ reservation = "valid"
    /\ reservation' = "expiring"
    /\ UNCHANGED <<network, starting, reserveErr, refreshed, notified, announcing, bootNode>>

\* The slot expires: five minutes are enough for relayLoop, but not offline.
SlotExpires ==
    /\ slot /\ reservation = "expiring" /\ ~online
    /\ slot' = FALSE
    /\ UNCHANGED <<online, linked, crowd, client, bootNode>>

EntryAges ==
    /\ entry = "fresh"
    /\ entry' = "stale"
    /\ UNCHANGED <<network, client, announced, cleaning, pinging, deadMark, parcel>>

RendezvousNext ==
    \/ StartNode \/ ConnectAtStart \/ ReserveAtStart \/ Reconnect \/ RefreshRelay \/ RelayLoop
    \/ Announce \/ AnnounceLoop \/ HandleAnnounce \/ HandleFind
    \/ CleanupStart \/ CleanupEnd
    \/ PingStart \/ PingEnd \/ SendParcel \/ ForwardParcel \/ ComposeParcel
    \/ GoOffline \/ Disconnect \/ LoseAnnounce \/ StopNode \/ RestartBootstrap
    \/ ThrottleEnds \/ ReservationAges \/ SlotExpires \/ EntryAges

RendezvousSpec == RendezvousInit /\ [][RendezvousNext]_rendezvousVars

\* The loops go round, goroutines run, reservations age.
RendezvousFairness ==
    /\ WF_rendezvousVars(ConnectAtStart \/ ReserveAtStart)
    /\ WF_rendezvousVars(Reconnect)
    /\ WF_rendezvousVars(RefreshRelay)
    /\ WF_rendezvousVars(RelayLoop)
    /\ WF_rendezvousVars(ReservationAges)
    /\ WF_rendezvousVars(HandleAnnounce)
    /\ WF_rendezvousVars(CleanupStart \/ CleanupEnd)
    /\ WF_rendezvousVars(PingStart)
    /\ WF_rendezvousVars(PingEnd)
    /\ WF_rendezvousVars(SendParcel \/ ForwardParcel)

FairRendezvousSpec == RendezvousSpec /\ RendezvousFairness
-----------------------------------------------------------------------------
\* The directory forgets who stays away, without waiting for the TTL of the entry, however
\* a late ANNOUNCE and the snapshot of cleanupAnnounced cross.
GoneIsForgotten == <>[](~linked) => <>[](entry = "none")

\* A node that once had a slot and is online again gets its slot back and is sent what is
\* for it: although a refresh may be throttled after a quick reconnection, although other
\* peers keep reconnectLoop quiet, and although a late ping may mark it dead.
ReachableAgain ==
    <>[](online /\ reservation # "none") => <>[]slot /\ []<>(parcel \in {"none", "received"})

\* "Node reserves a slot", and relayLoop "periodically checks the reservation": a node that
\* stays online has a slot in the end.
OnlineHasSlot == <>[](online /\ starting = "done") => <>[]slot
=============================================================================
