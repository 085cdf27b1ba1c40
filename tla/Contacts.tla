------------------------------ MODULE Contacts ------------------------------
(***************************************************************************)
(* How two people become contacts, and part (node/node_contacts.go,        *)
(* contacts.go, requests.go, deleted.go, node_e2e.go and the screens of    *)
(* the app that call them): p reads q's code and adds q, greets q with its *)
(* keys, sends a request once q has answered; q's user accepts or rejects. *)
(* Messages go through a bootstrap node, once: nothing is sent again.  A   *)
(* message that is lost is one that stays in flight.                       *)
(*                                                                         *)
(* The keys and names a message carries are abstracted to whose they are.  *)
(* The stores are written at every change, and survive a restart.          *)
(***************************************************************************)
EXTENDS Naturals, FiniteSets

CONSTANTS
    Peer,
    ContactScenarios,   \* what may happen besides: sets of KnownContactEvents
    MaxHellos           \* bound: MaxHellos[p] hellos are sent by p

KnownContactEvents ==
    { "remove",         \* a user removes a contact
      "stop" }          \* a node stops and starts again

ASSUME ContactConstants ==
    /\ IsFiniteSet(Peer)
    /\ ContactScenarios \subseteq SUBSET KnownContactEvents
    /\ MaxHellos \in [Peer -> Nat]

\* The ids of one sender's messages of one type.
Serial == UNION {1..MaxHellos[p] : p \in Peer}
Request == [from : Peer, id : Serial]

ContactMsg(type, from, to, id) == [type |-> type, from |-> from, to |-> to, id |-> id]
ContactPacket ==
    [type : {"hello", "hello_ack", "request", "accept"}, from : Peer, to : Peer, id : Serial]

VARIABLES
    contact,        \* contact[p][q]: the entry of q in p's contacts.json
    temp,           \* temp[p]: peers of n.tempContacts
    requests,       \* requests[p]: the pending requests of p's requests.json
    deleted,        \* deleted[p]: peers of p's deleted.json
    accepting,      \* accepting[p]: requests within AcceptRequestByID, and how far
    confirming,     \* confirming[p]: peers that handleContactAccept has added, not confirmed
    removing        \* removing[p]: peers that RemoveContact has still to add to deleted.json

VARIABLES
    cNet,           \* messages in flight
    hellos,         \* hellos p has sent (bound, and the source of ids)
    cEvents         \* the scenario of this behaviour

\* History, read by no action of the code.
VARIABLES
    chosen,         \* chosen[p]: peers whose code p's user has read, or whose request accepted
    dropped         \* dropped[p]: peers p's user has once removed

stores == <<contact, temp, requests, deleted>>
calls  == <<accepting, confirming, removing>>
contactVars == <<stores, calls, cNet, hellos, cEvents, chosen, dropped>>

ContactsTypeOK ==
    /\ contact \in [Peer -> [Peer -> {"none", "added", "confirmed"}]]
    /\ temp \in [Peer -> SUBSET Peer] /\ deleted \in [Peer -> SUBSET Peer]
    /\ requests \in [Peer -> SUBSET Request]
    /\ accepting \in [Peer -> SUBSET [request : Request, step : {"added", "sent"}]]
    /\ confirming \in [Peer -> SUBSET Peer] /\ removing \in [Peer -> SUBSET Peer]
    /\ cNet \subseteq ContactPacket /\ \A p \in Peer : hellos[p] \in 0..MaxHellos[p]
    /\ DOMAIN hellos = Peer
    /\ cEvents \in ContactScenarios
    /\ chosen \in [Peer -> SUBSET Peer] /\ dropped \in [Peer -> SUBSET Peer]

ContactsInit ==
    /\ contact = [p \in Peer |-> [q \in Peer |-> "none"]]
    /\ temp = [p \in Peer |-> {}] /\ deleted = temp /\ requests = temp
    /\ accepting = temp /\ confirming = temp /\ removing = temp
    /\ cNet = {} /\ hellos = [p \in Peer |-> 0] /\ cEvents \in ContactScenarios
    /\ chosen = temp /\ dropped = temp

With(f, p, x)    == [f EXCEPT ![p] = @ \cup {x}]
Without(f, p, x) == [f EXCEPT ![p] = @ \ {x}]

\* Mutants: temporary contacts are enough to encrypt (CanEncrypt), not to decrypt
\* (CanDecrypt).
CanEncryptTemp(p, q) == contact[p][q] # "none" \/ q \in temp[p]
CanDecryptAdded(p, q) == contact[p][q] # "none"

\* encryptForRecipient finds keys among the contacts only, decryptFromSender also among
\* the temporary ones.
CanEncrypt(p, q) == contact[p][q] # "none"
CanDecrypt(p, q) == contact[p][q] # "none" \/ q \in temp[p]

\* Mutant of AddContact: who is added is confirmed.
AddAsConfirmed(p, q) ==
    /\ contact' = [contact EXCEPT ![p][q] = "confirmed"]
    /\ deleted' = Without(deleted, p, q)

\* Node.AddContact: q is no longer deleted; ContactsStore.Add keeps a confirmation.
AddContact(p, q) ==
    /\ contact' = [contact EXCEPT ![p][q] = IF @ = "confirmed" THEN @ ELSE "added"]
    /\ deleted' = Without(deleted, p, q)

\* ContactsStore.SetConfirmed, of a contact that is still there.
SetConfirmed(p, q) ==
    contact' = [contact EXCEPT ![p][q] = IF @ = "none" THEN @ ELSE "confirmed"]
-----------------------------------------------------------------------------
\* p's user reads q's code on the connect screen, which waits for a removal it has asked
\* for; her own code is refused.
AddByCode(p, q) ==
    /\ p # q /\ q \notin removing[p]
    /\ AddContact(p, q)
    /\ chosen' = With(chosen, p, q)
    /\ UNCHANGED <<temp, requests, calls, cNet, hellos, cEvents, dropped>>

\* SendContactHello, from the dialog that follows.
SendContactHello(p, q) ==
    /\ CanEncrypt(p, q)
    /\ hellos[p] < MaxHellos[p]
    /\ hellos' = [hellos EXCEPT ![p] = @ + 1]
    /\ cNet' = cNet \cup {ContactMsg("hello", p, q, hellos[p] + 1)}
    /\ UNCHANGED <<stores, calls, cEvents, chosen, dropped>>

\* handleContactHello: the keys of a stranger are kept in memory; the answer is sent in
\* any case.
ReceiveHello(q, p, id) ==
    /\ ContactMsg("hello", p, q, id) \in cNet
    /\ temp' = IF contact[q][p] = "none" THEN With(temp, q, p) ELSE temp
    /\ cNet' = (cNet \ {ContactMsg("hello", p, q, id)})
                    \cup {ContactMsg("hello_ack", q, p, id)}
    /\ UNCHANGED <<contact, requests, deleted, calls, hellos, cEvents, chosen, dropped>>

\* handleContactHelloAck hands it to the app, which calls SendContactRequest.
ReceiveHelloAck(p, q, id) ==
    /\ ContactMsg("hello_ack", q, p, id) \in cNet
    /\ cNet' = (cNet \ {ContactMsg("hello_ack", q, p, id)})
                    \cup (IF CanEncrypt(p, q) THEN {ContactMsg("request", p, q, id)} ELSE {})
    /\ UNCHANGED <<stores, calls, hellos, cEvents, chosen, dropped>>

\* handleContactRequest: RequestsStore.Add replaces the pending request of the same peer.
ReceiveRequest(q, p, id) ==
    /\ ContactMsg("request", p, q, id) \in cNet
    /\ cNet' = cNet \ {ContactMsg("request", p, q, id)}
    /\ IF CanDecrypt(q, p)
       THEN /\ requests' = [requests EXCEPT ![q] =
                                {r \in @ : r.from # p} \cup {[from |-> p, id |-> id]}]
            /\ temp' = Without(temp, q, p)
       ELSE UNCHANGED <<requests, temp>>
    /\ UNCHANGED <<contact, deleted, calls, hellos, cEvents, chosen, dropped>>

\* AcceptRequestByID: the request is read and its peer added ...
AcceptRequest(q, r) ==
    /\ r \in requests[q]
    /\ AddContact(q, r.from)
    /\ accepting' = With(accepting, q, [request |-> r, step |-> "added"])
    /\ chosen' = With(chosen, q, r.from)
    /\ UNCHANGED <<temp, requests, confirming, removing, cNet, hellos, cEvents, dropped>>

\* ... confirmed and told, unless it has been removed meanwhile: both errors are logged ...
ConfirmAccepted(q, r) ==
    /\ [request |-> r, step |-> "added"] \in accepting[q]
    /\ accepting' = [accepting EXCEPT ![q] = (@ \ {[request |-> r, step |-> "added"]})
                                                \cup {[request |-> r, step |-> "sent"]}]
    /\ SetConfirmed(q, r.from)
    /\ cNet' = cNet \cup (IF CanEncrypt(q, r.from)
                         THEN {ContactMsg("accept", q, r.from, r.id)} ELSE {})
    /\ UNCHANGED <<temp, requests, deleted, confirming, removing, hellos, cEvents, chosen, dropped>>

\* ... and the request removed by its id, if no newer one has replaced it.
RemoveAccepted(q, r) ==
    /\ [request |-> r, step |-> "sent"] \in accepting[q]
    /\ accepting' = Without(accepting, q, [request |-> r, step |-> "sent"])
    /\ requests' = Without(requests, q, r)
    /\ UNCHANGED <<contact, temp, deleted, confirming, removing, cNet, hellos, cEvents, chosen,
                   dropped>>

\* RejectRequestByID.  The receiver of [CONTACT_REJECT] only logs it, and a stranger's
\* cannot even be encrypted: the asker does not learn of it.
RejectRequest(q, r) ==
    /\ r \in requests[q]
    /\ requests' = Without(requests, q, r)
    /\ UNCHANGED <<contact, temp, deleted, calls, cNet, hellos, cEvents, chosen, dropped>>

\* Mutant of ReceiveAccept: SetConfirmed is forgotten.
AcceptOnlyAdds(p, q, id) ==
    /\ ContactMsg("accept", q, p, id) \in cNet
    /\ cNet' = cNet \ {ContactMsg("accept", q, p, id)}
    /\ IF CanDecrypt(p, q) THEN AddContact(p, q) ELSE UNCHANGED <<contact, deleted>>
    /\ UNCHANGED <<temp, requests, calls, hellos, cEvents, chosen, dropped>>

\* handleContactAccept, whatever became of the request it answers: the peer is added ...
ReceiveAccept(p, q, id) ==
    /\ ContactMsg("accept", q, p, id) \in cNet
    /\ cNet' = cNet \ {ContactMsg("accept", q, p, id)}
    /\ IF CanDecrypt(p, q)
       THEN AddContact(p, q) /\ confirming' = With(confirming, p, q)
       ELSE UNCHANGED <<contact, deleted, confirming>>
    /\ UNCHANGED <<temp, requests, accepting, removing, hellos, cEvents, chosen, dropped>>

\* ... and confirmed.
ConfirmAdded(p, q) ==
    /\ q \in confirming[p]
    /\ confirming' = Without(confirming, p, q)
    /\ SetConfirmed(p, q)
    /\ UNCHANGED <<temp, requests, deleted, accepting, removing, cNet, hellos, cEvents, chosen,
                   dropped>>
-----------------------------------------------------------------------------
\* RemoveContact: out of contacts.json, then into deleted.json.  The other side is not told.
RemoveContact(p, q) ==
    /\ "remove" \in cEvents
    /\ CanEncrypt(p, q)
    /\ contact' = [contact EXCEPT ![p][q] = "none"]
    /\ removing' = With(removing, p, q)
    /\ dropped' = With(dropped, p, q)
    /\ UNCHANGED <<temp, requests, deleted, accepting, confirming, cNet, hellos, cEvents,
                   chosen>>

RecordDeleted(p, q) ==
    /\ q \in removing[p]
    /\ removing' = Without(removing, p, q)
    /\ deleted' = With(deleted, p, q)
    /\ UNCHANGED <<contact, temp, requests, accepting, confirming, cNet, hellos, cEvents, chosen,
                   dropped>>

\* The process ends and starts again.
StopAndStart(p) ==
    /\ "stop" \in cEvents
    /\ temp' = [temp EXCEPT ![p] = {}]
    /\ accepting' = [accepting EXCEPT ![p] = {}]
    /\ confirming' = [confirming EXCEPT ![p] = {}]
    /\ removing' = [removing EXCEPT ![p] = {}]
    /\ UNCHANGED <<contact, requests, deleted, cNet, hellos, cEvents, chosen, dropped>>

Handle(p, q) ==
    \E id \in Serial :
        \/ ReceiveHello(p, q, id) \/ ReceiveHelloAck(p, q, id)
        \/ ReceiveRequest(p, q, id) \/ ReceiveAccept(p, q, id)

ContactsNext ==
    \/ \E p, q \in Peer :
        \/ AddByCode(p, q) \/ SendContactHello(p, q) \/ Handle(p, q)
        \/ ConfirmAdded(p, q) \/ RemoveContact(p, q) \/ RecordDeleted(p, q)
    \/ \E p \in Peer, r \in Request :
        \/ AcceptRequest(p, r) \/ ConfirmAccepted(p, r) \/ RemoveAccepted(p, r)
        \/ RejectRequest(p, r)
    \/ \E p \in Peer : StopAndStart(p)

ContactsSpec == ContactsInit /\ [][ContactsNext]_contactVars

\* What is in flight arrives, and a call of the node ends.  No user has to do anything.
ContactsFairness ==
    /\ WF_contactVars(\E p, q \in Peer : Handle(p, q))
    /\ WF_contactVars(\E p \in Peer, r \in Request : ConfirmAccepted(p, r))
    /\ WF_contactVars(\E p \in Peer, r \in Request : RemoveAccepted(p, r))
    /\ WF_contactVars(\E p, q \in Peer : ConfirmAdded(p, q))

FairContactsSpec == ContactsSpec /\ ContactsFairness
-----------------------------------------------------------------------------
\* Nobody is shown as a confirmed contact without an act of both users: each has read the
\* other's code or accepted the other's request.
ConfirmedByBoth ==
    \A p, q \in Peer : contact[p][q] = "confirmed" => q \in chosen[p] /\ p \in chosen[q]

\* A confirmed contact has my keys, so that it can decrypt what I send, unless its user has
\* removed me: however requests cross, are lost or meet a restart.
ConfirmedKnowsMe ==
    \A p, q \in Peer :
        contact[p][q] = "confirmed" => contact[q][p] # "none" \/ p \in dropped[q]

\* When nobody stops or removes, a greeting leads to a request that the other user can
\* see, also when two requests of one peer overtake each other.
HelloBecomesRequest ==
    \A p, q \in Peer : p # q =>
        (cEvents = {} /\ (\E id \in Serial : ContactMsg("hello", p, q, id) \in cNet)
            ~> \E r \in requests[q] : r.from = p)

\* Then also both sides end with the same view: who is confirmed here is confirmed there.
ViewsAgree ==
    cEvents = {} => <>[](\A p, q \in Peer :
                            contact[q][p] = "confirmed" => contact[p][q] = "confirmed")

\* "Deleted contacts do not return": only the user's own choice takes a peer off the list
\* of the deleted ones.
DeletedStaysDeleted ==
    [][\A p, q \in Peer :
        q \in deleted[p] /\ q \notin deleted'[p] =>
            \/ AddByCode(p, q)
            \/ \E r \in Request : r.from = q /\ AcceptRequest(p, r)]_contactVars
=============================================================================
