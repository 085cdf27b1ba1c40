----------------------------- MODULE SphinxRoute -----------------------------
(***************************************************************************)
(* The way of a Sphinx packet (node/sphinx.go, handleStream in node_p2p.go,*)
(* sendDummy in node_batch.go): through two trusted contacts to a third,   *)
(* each of which removes a layer, and may wait before it passes it on.     *)
(*                                                                         *)
(* A layer is what the key of one contact opens; its cryptography, its     *)
(* size and its padding are left out.  What a letter says is its name.     *)
(***************************************************************************)
EXTENDS Naturals, Sequences, FiniteSets

CONSTANTS
    Person,         \* the contacts of the sender
    Sender,         \* the node that sends
    Letter,         \* what it sends, by msgID
    LetterKinds,    \* "dummy" or not, for each letter
    LossyRoutes     \* a hop may fail: for each behaviour

ASSUME SphinxConstants ==
    /\ IsFiniteSet(Person) /\ Sender \notin Person
    /\ LetterKinds \subseteq [Letter -> {"message", "dummy"}]
    /\ LossyRoutes \subseteq BOOLEAN

VARIABLES
    trusted,        \* contacts that are verified, confirmed, and weigh enough
    kind,           \* what each letter is
    mixing,         \* the relays of a message are asked to wait
    lossy,          \* a hop may have no direct address, or its stream fail
    onions,         \* packets on a stream
    sleeping,       \* packets that a relay holds back, opened
    sent,           \* letters that were sent, and to whom
    letters         \* letters[p]: what p has received

\* History: whom a node was given a packet of a letter by, and whom it gave it to.
VARIABLE traces

sphinxVars == <<trusted, kind, mixing, lossy, onions, sleeping, sent, letters, traces>>

Layer == [key : Person, next : Person]
Onion == [letter : Letter, from : Person \cup {Sender}, at : Person,
          layers : UNION {[1..k -> Layer] : k \in 0..2}, core : Person]
Via   == {"sphinx", "fallback", "none"}

SphinxTypeOK ==
    /\ trusted \subseteq Person /\ kind \in LetterKinds
    /\ mixing \in BOOLEAN /\ lossy \in LossyRoutes
    /\ onions \subseteq Onion /\ sleeping \subseteq Onion
    /\ DOMAIN sent \subseteq Letter
    /\ \A l \in DOMAIN sent : sent[l] \in [to : Person, via : Via]
    /\ letters \in [Person -> SUBSET Letter]
    /\ traces \subseteq [letter : Letter, node : Person,
                         end : {"from", "to"}, peer : Person \cup {Sender}]

SphinxInit ==
    /\ trusted \in SUBSET Person /\ kind \in LetterKinds
    /\ mixing \in BOOLEAN /\ lossy \in LossyRoutes
    /\ onions = {} /\ sleeping = {} /\ sent = [l \in {} |-> 0]
    /\ letters = [p \in Person |-> {}] /\ traces = {}

Trace(letter, node, from, to) ==
    {[letter |-> letter, node |-> node, end |-> "from", peer |-> from],
     [letter |-> letter, node |-> node, end |-> "to", peer |-> to]}
-----------------------------------------------------------------------------
\* Mutant of Relays: the same relay twice.
RelaysRepeated(recipient) == [1..2 -> trusted \ {recipient}]

\* selectSphinxRelays: two of the trusted contacts but the recipient, in any order.
Relays(recipient) ==
    {r \in [1..2 -> trusted \ {recipient}] : r[1] # r[2]}

\* Mutant of BuildSphinxPacket: each layer names the recipient.
BuildSphinxShort(letter, relays, recipient) ==
    [letter |-> letter, from |-> Sender, at |-> relays[1], core |-> recipient,
     layers |-> [i \in 1..2 |-> [key |-> relays[i], next |-> recipient]]]

\* buildSphinxPacket: from the inside out, so that the layer of a relay names the next.
BuildSphinxPacket(letter, relays, recipient) ==
    [letter |-> letter, from |-> Sender, at |-> relays[1], core |-> recipient,
     layers |-> [i \in 1..2 |-> [key  |-> relays[i],
                                 next |-> IF i < 2 THEN relays[i + 1] ELSE recipient]]]

Record(letter, recipient, via) ==
    sent' = [l \in DOMAIN sent \cup {letter} |->
                IF l = letter THEN [to |-> recipient, via |-> via] ELSE sent[l]]

\* sendViaSphinx, sendDummy: the packet goes to the first relay.
SendViaSphinx(letter, recipient) ==
    /\ letter \notin DOMAIN sent
    /\ \E relays \in Relays(recipient) :
            onions' = onions \cup {BuildSphinxPacket(letter, relays, recipient)}
    /\ Record(letter, recipient, "sphinx")
    /\ UNCHANGED <<trusted, kind, mixing, lossy, sleeping, letters, traces>>

\* Too few relays, or no direct address of the first.
NoRoute(recipient) == Relays(recipient) = {} \/ lossy

\* replicateMessage: a message that no route takes goes the way of a text without Sphinx.
FallBack(letter, recipient) ==
    /\ letter \notin DOMAIN sent /\ NoRoute(recipient)
    /\ kind[letter] = "message"
    /\ Record(letter, recipient, "fallback")
    /\ UNCHANGED <<trusted, kind, mixing, lossy, onions, sleeping, letters, traces>>

\* sendDummy: a dummy that no route takes is not sent.
SkipDummy(letter, recipient) ==
    /\ letter \notin DOMAIN sent /\ NoRoute(recipient)
    /\ kind[letter] = "dummy"
    /\ Record(letter, recipient, "none")
    /\ UNCHANGED <<trusted, kind, mixing, lossy, onions, sleeping, letters, traces>>

\* processSphinxPacket: the outermost layer is that of the node which has the packet.
IsRelayOf(onion) == onion.layers # <<>> /\ Head(onion.layers).key = onion.at

Passed(onion) ==
    [onion EXCEPT !.from = onion.at, !.at = Head(onion.layers).next, !.layers = Tail(@)]

\* handleStream at a relay: at once, or after a sleep of its own goroutine.
RelayOnion(onion) ==
    /\ onion \in onions /\ IsRelayOf(onion)
    /\ traces' = traces \cup Trace(onion.letter, onion.at, onion.from, Head(onion.layers).next)
    /\ IF mixing /\ kind[onion.letter] = "message"
       THEN onions' = onions \ {onion} /\ sleeping' = sleeping \cup {onion}
       ELSE onions' = (onions \ {onion}) \cup {Passed(onion)} /\ UNCHANGED sleeping
    /\ UNCHANGED <<trusted, kind, mixing, lossy, sent, letters>>

WakeUp(onion) ==
    /\ onion \in sleeping
    /\ sleeping' = sleeping \ {onion}
    /\ onions' = onions \cup {Passed(onion)}
    /\ UNCHANGED <<trusted, kind, mixing, lossy, sent, letters, traces>>

\* The next hop has no direct address, or the stream to it fails: nobody is told.
DropOnion(onion) ==
    /\ lossy /\ onion \in onions \cup sleeping
    /\ onions' = onions \ {onion} /\ sleeping' = sleeping \ {onion}
    /\ UNCHANGED <<trusted, kind, mixing, lossy, sent, letters, traces>>

\* handleStream at the recipient: extractSphinxPayload opens the core with its own key; a
\* dummy is no message.
ReceiveOnion(onion) ==
    /\ onion \in onions /\ ~IsRelayOf(onion)
    /\ onions' = onions \ {onion}
    /\ letters' = IF onion.layers = <<>> /\ onion.core = onion.at
                        /\ kind[onion.letter] = "message"
                  THEN [letters EXCEPT ![onion.at] = @ \cup {onion.letter}] ELSE letters
    /\ UNCHANGED <<trusted, kind, mixing, lossy, sleeping, sent, traces>>

\* A contact is confirmed or verified, or loses weight.
TrustChanges ==
    /\ \E p \in Person : trusted' \in {trusted \cup {p}, trusted \ {p}}
    /\ UNCHANGED <<kind, mixing, lossy, onions, sleeping, sent, letters, traces>>

SphinxNext ==
    \/ \E l \in Letter, p \in Person :
            SendViaSphinx(l, p) \/ FallBack(l, p) \/ SkipDummy(l, p)
    \/ \E onion \in onions \cup sleeping :
            RelayOnion(onion) \/ WakeUp(onion) \/ DropOnion(onion) \/ ReceiveOnion(onion)
    \/ TrustChanges

SphinxSpec == SphinxInit /\ [][SphinxNext]_sphinxVars

\* The streams are read, and the sleeps end.
SphinxFairness ==
    WF_sphinxVars(\E onion \in onions \cup sleeping :
                      RelayOnion(onion) \/ WakeUp(onion) \/ ReceiveOnion(onion))

FairSphinxSpec == SphinxSpec /\ SphinxFairness
-----------------------------------------------------------------------------
\* No relay links the ends: whatever it was given of a letter by the sender itself, it has
\* not handed that letter to its recipient, however trust changes between the letters.
RelaysUnlinked ==
    \A s, t \in traces :
        s.letter = t.letter /\ s.node = t.node =>
            ~(s.end = "from" /\ s.peer = Sender
                /\ t.end = "to" /\ t.peer = sent[t.letter].to)

\* A letter that left by Sphinx arrives at the one it is for, when no hop fails, and at
\* nobody else.
OnionArrives ==
    \A l \in Letter, p \in Person :
        (l \in DOMAIN sent /\ sent[l] = [to |-> p, via |-> "sphinx"]
            /\ ~lossy /\ kind[l] = "message")
                ~> {q \in Person : l \in letters[q]} = {p}
=============================================================================
