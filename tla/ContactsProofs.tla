----------------------------- MODULE ContactsProofs -----------------------------
(***************************************************************************)
(* What holds of Contacts among any number of people, with any number of   *)
(* greetings, removals and restarts.                                       *)
(***************************************************************************)
EXTENDS Contacts, TLAPS

LEMMA MessageTypes ==
  ASSUME NEW from \in Peer, NEW to \in Peer, NEW id \in Serial,
         NEW type \in {"hello", "hello_ack", "request", "accept"}
  PROVE  /\ ContactMsg(type, from, to, id) \in ContactPacket
         /\ [from |-> from, id |-> id] \in Request
  BY DEF ContactMsg, ContactPacket, Request

LEMMA NextHello ==
  ASSUME NEW p \in Peer, hellos[p] \in 0..MaxHellos[p], hellos[p] < MaxHellos[p]
  PROVE  hellos[p] + 1 \in Serial /\ hellos[p] + 1 \in 0..MaxHellos[p]
<1>1. MaxHellos[p] \in Nat
  BY ContactConstants
<1>2. hellos[p] + 1 \in 1..MaxHellos[p]
  BY <1>1
<1> QED
  BY <1>1, <1>2 DEF Serial

LEMMA ContactsInitTypes == ContactsInit => ContactsTypeOK
<1> SUFFICES ASSUME ContactsInit PROVE ContactsTypeOK
  OBVIOUS
<1>1. \A p \in Peer : hellos[p] \in 0..MaxHellos[p]
  BY ContactConstants DEF ContactsInit
<1> QED
  BY <1>1, ContactConstants DEF ContactsInit, ContactsTypeOK

LEMMA ContactsStepTypes == ContactsTypeOK /\ [ContactsNext]_contactVars => ContactsTypeOK'
<1> SUFFICES ASSUME ContactsTypeOK, [ContactsNext]_contactVars PROVE ContactsTypeOK'
  OBVIOUS
<1> USE DEF ContactsTypeOK, contactVars, stores, calls, With, Without
<1>1. ASSUME NEW p \in Peer, NEW q \in Peer, AddByCode(p, q) PROVE ContactsTypeOK'
  BY <1>1 DEF AddByCode, AddContact
<1>2. ASSUME NEW p \in Peer, NEW q \in Peer, SendContactHello(p, q) PROVE ContactsTypeOK'
  <2>1. hellos[p] + 1 \in Serial /\ hellos[p] + 1 \in 0..MaxHellos[p]
    BY <1>2, NextHello DEF SendContactHello
  <2>2. cNet' \subseteq ContactPacket
    <3>1. cNet' = cNet \cup {ContactMsg("hello", p, q, hellos[p] + 1)}
      BY <1>2 DEF SendContactHello
    <3>2. ContactMsg("hello", p, q, hellos[p] + 1) \in ContactPacket
      BY <2>1, MessageTypes
    <3> QED
      BY <3>1, <3>2
  <2>3. DOMAIN hellos' = Peer /\ \A x \in Peer : hellos'[x] \in 0..MaxHellos[x]
    BY <1>2, <2>1 DEF SendContactHello
  <2>4. UNCHANGED <<stores, calls, cEvents, chosen, dropped>>
    BY <1>2 DEF SendContactHello
  <2> QED
    BY <2>2, <2>3, <2>4
<1>3. ASSUME NEW p \in Peer, NEW q \in Peer, NEW id \in Serial, ReceiveHello(q, p, id)
      PROVE  ContactsTypeOK'
  <2>1. temp' \in [Peer -> SUBSET Peer]
    BY <1>3 DEF ReceiveHello
  <2>2. cNet' = (cNet \ {ContactMsg("hello", p, q, id)}) \cup {ContactMsg("hello_ack", q, p, id)}
    BY <1>3 DEF ReceiveHello
  <2>3. ContactMsg("hello_ack", q, p, id) \in ContactPacket
    BY MessageTypes
  <2>4. UNCHANGED <<contact, requests, deleted, calls, hellos, cEvents, chosen, dropped>>
    BY <1>3 DEF ReceiveHello
  <2> QED
    BY <2>1, <2>2, <2>3, <2>4
<1>4. ASSUME NEW p \in Peer, NEW q \in Peer, NEW id \in Serial, ReceiveHelloAck(p, q, id)
      PROVE  ContactsTypeOK'
  <2>1. cNet' \subseteq cNet \cup {ContactMsg("request", p, q, id)}
    BY <1>4 DEF ReceiveHelloAck
  <2>2. ContactMsg("request", p, q, id) \in ContactPacket
    BY MessageTypes
  <2>3. UNCHANGED <<stores, calls, hellos, cEvents, chosen, dropped>>
    BY <1>4 DEF ReceiveHelloAck
  <2> QED
    BY <2>1, <2>2, <2>3
<1>5. ASSUME NEW p \in Peer, NEW q \in Peer, NEW id \in Serial, ReceiveRequest(q, p, id)
      PROVE  ContactsTypeOK'
  <2>1. [from |-> p, id |-> id] \in Request
    BY DEF Request
  <2>2. requests' \in [Peer -> SUBSET Request] /\ temp' \in [Peer -> SUBSET Peer]
    <3>1. CASE requests' = requests /\ temp' = temp
      BY <3>1
    <3>2. CASE /\ requests' = [requests EXCEPT ![q] =
                                {r \in @ : r.from # p} \cup {[from |-> p, id |-> id]}]
               /\ temp' = [temp EXCEPT ![q] = @ \ {p}]
      BY <2>1, <3>2
    <3> QED
      BY <1>5, <3>1, <3>2 DEF ReceiveRequest
  <2>4. cNet' \subseteq ContactPacket
    BY <1>5 DEF ReceiveRequest
  <2>5. UNCHANGED <<contact, deleted, calls, hellos, cEvents, chosen, dropped>>
    BY <1>5 DEF ReceiveRequest
  <2> QED
    BY <2>2, <2>4, <2>5
<1>6. ASSUME NEW p \in Peer, NEW q \in Peer, NEW id \in Serial, ReceiveAccept(p, q, id)
      PROVE  ContactsTypeOK'
  <2>1. /\ contact' \in [Peer -> [Peer -> {"none", "added", "confirmed"}]]
        /\ deleted' \in [Peer -> SUBSET Peer] /\ confirming' \in [Peer -> SUBSET Peer]
    <3>1. CASE UNCHANGED <<contact, deleted, confirming>>
      BY <3>1
    <3>2. CASE AddContact(p, q) /\ confirming' = [confirming EXCEPT ![p] = @ \cup {q}]
      <4>1. contact' \in [Peer -> [Peer -> {"none", "added", "confirmed"}]]
        BY <3>2 DEF AddContact
      <4>2. deleted' \in [Peer -> SUBSET Peer]
        BY <3>2 DEF AddContact
      <4>3. confirming' \in [Peer -> SUBSET Peer]
        BY <3>2
      <4> QED
        BY <4>1, <4>2, <4>3
    <3> QED
      BY <1>6, <3>1, <3>2 DEF ReceiveAccept
  <2>3. cNet' \subseteq ContactPacket
    BY <1>6 DEF ReceiveAccept
  <2>4. UNCHANGED <<temp, requests, accepting, removing, hellos, cEvents, chosen, dropped>>
    BY <1>6 DEF ReceiveAccept
  <2> QED
    BY <2>1, <2>3, <2>4
<1>7. ASSUME NEW p \in Peer, NEW q \in Peer, RemoveContact(p, q) PROVE ContactsTypeOK'
  <2>1. contact' \in [Peer -> [Peer -> {"none", "added", "confirmed"}]]
    BY <1>7 DEF RemoveContact
  <2>2. removing' \in [Peer -> SUBSET Peer] /\ dropped' \in [Peer -> SUBSET Peer]
    BY <1>7 DEF RemoveContact
  <2>3. UNCHANGED <<temp, requests, deleted, accepting, confirming, cNet, hellos, cEvents, chosen>>
    BY <1>7 DEF RemoveContact
  <2> QED
    BY <2>1, <2>2, <2>3
<1>13. ASSUME NEW p \in Peer, NEW q \in Peer, RecordDeleted(p, q) PROVE ContactsTypeOK'
  <2>1. removing' \in [Peer -> SUBSET Peer] /\ deleted' \in [Peer -> SUBSET Peer]
    BY <1>13 DEF RecordDeleted
  <2>2. UNCHANGED <<contact, temp, requests, accepting, confirming, cNet, hellos, cEvents, chosen,
                    dropped>>
    BY <1>13 DEF RecordDeleted
  <2> QED
    BY <2>1, <2>2
<1>8. ASSUME NEW q \in Peer, NEW r \in Request, AcceptRequest(q, r) PROVE ContactsTypeOK'
  <2>1. r.from \in Peer
    BY DEF Request
  <2>2. contact' \in [Peer -> [Peer -> {"none", "added", "confirmed"}]]
    BY <1>8, <2>1 DEF AcceptRequest, AddContact
  <2>3. deleted' \in [Peer -> SUBSET Peer] /\ chosen' \in [Peer -> SUBSET Peer]
    BY <1>8, <2>1 DEF AcceptRequest, AddContact
  <2>4. accepting' \in [Peer -> SUBSET [request : Request, step : {"added", "sent"}]]
    BY <1>8 DEF AcceptRequest
  <2>5. UNCHANGED <<temp, requests, confirming, removing, cNet, hellos, cEvents, dropped>>
    BY <1>8 DEF AcceptRequest
  <2> QED
    BY <2>2, <2>3, <2>4, <2>5
<1>9. ASSUME NEW q \in Peer, NEW r \in Request, ConfirmAccepted(q, r) PROVE ContactsTypeOK'
  <2>1. r.from \in Peer /\ r.id \in Serial
    BY DEF Request
  <2>2. ContactMsg("accept", q, r.from, r.id) \in ContactPacket
    BY <2>1, MessageTypes
  <2>3. cNet' \subseteq ContactPacket
    BY <1>9, <2>2 DEF ConfirmAccepted
  <2>4. contact' \in [Peer -> [Peer -> {"none", "added", "confirmed"}]]
    BY <1>9, <2>1 DEF ConfirmAccepted, SetConfirmed
  <2>5. accepting' \in [Peer -> SUBSET [request : Request, step : {"added", "sent"}]]
    BY <1>9 DEF ConfirmAccepted
  <2>6. UNCHANGED <<temp, requests, deleted, confirming, removing, hellos, cEvents, chosen, dropped>>
    BY <1>9 DEF ConfirmAccepted
  <2> QED
    BY <2>3, <2>4, <2>5, <2>6
<1>10. ASSUME NEW q \in Peer, NEW r \in Request, RemoveAccepted(q, r) \/ RejectRequest(q, r)
       PROVE  ContactsTypeOK'
  <2>1. requests' \in [Peer -> SUBSET Request]
    BY <1>10 DEF RemoveAccepted, RejectRequest
  <2>2. accepting' \in [Peer -> SUBSET [request : Request, step : {"added", "sent"}]]
    BY <1>10 DEF RemoveAccepted, RejectRequest
  <2>3. UNCHANGED <<contact, temp, deleted, confirming, removing, cNet, hellos, cEvents, chosen,
                    dropped>>
    BY <1>10 DEF RemoveAccepted, RejectRequest
  <2> QED
    BY <2>1, <2>2, <2>3
<1>11. ASSUME NEW p \in Peer, StopAndStart(p) PROVE ContactsTypeOK'
  BY <1>11 DEF StopAndStart
<1>12. CASE UNCHANGED contactVars
  BY <1>12
<1>14. ASSUME NEW p \in Peer, NEW q \in Peer, ConfirmAdded(p, q) PROVE ContactsTypeOK'
  <2>1. contact' \in [Peer -> [Peer -> {"none", "added", "confirmed"}]]
    BY <1>14 DEF ConfirmAdded, SetConfirmed
  <2>2. confirming' \in [Peer -> SUBSET Peer]
    BY <1>14 DEF ConfirmAdded
  <2>3. UNCHANGED <<temp, requests, deleted, accepting, removing, cNet, hellos, cEvents, chosen,
                    dropped>>
    BY <1>14 DEF ConfirmAdded
  <2> QED
    BY <2>1, <2>2, <2>3
<1> QED
  BY <1>1, <1>2, <1>3, <1>4, <1>5, <1>6, <1>7, <1>8, <1>9, <1>10, <1>11, <1>12, <1>13, <1>14
     DEF ContactsNext, Handle

\* Every variable of the protocol keeps its type.
THEOREM ContactsTypes == ContactsSpec => []ContactsTypeOK
  BY ContactsInitTypes, ContactsStepTypes, PTL DEF ContactsSpec
-----------------------------------------------------------------------------
\* p's user has chosen q by an act of her own.
Chose(p, q) == q \in chosen[p]

\* Whatever the protocol holds of two people goes back to a choice: of the greeter, and
\* from the accept on of both.
GoesBackToChoice ==
    /\ \A m \in cNet :
            /\ m.type \in {"hello", "request", "accept"} => Chose(m.from, m.to)
            /\ m.type \in {"hello_ack", "accept"} => Chose(m.to, m.from)
    /\ \A q \in Peer : \A r \in requests[q] : Chose(r.from, q)
    /\ \A q \in Peer : \A call \in accepting[q] :
            Chose(q, call.request.from) /\ Chose(call.request.from, q)
    /\ \A p \in Peer : \A q \in confirming[p] : Chose(p, q) /\ Chose(q, p)
    /\ \A p, q \in Peer : contact[p][q] # "none" => Chose(p, q)
    /\ \A p, q \in Peer : contact[p][q] = "confirmed" => Chose(q, p)

\* Who was chosen is there until he is removed.
ChosenIsThere == \A p, q \in Peer : Chose(p, q) => contact[p][q] # "none" \/ q \in dropped[p]

\* A step that keeps contacts, calls and choices, and takes messages only away, has to keep
\* what is said of the requests.
LEMMA ChoiceFrame ==
  ASSUME GoesBackToChoice, ChosenIsThere, cNet' \subseteq cNet,
         UNCHANGED <<contact, accepting, confirming, chosen, dropped>>,
         \A x \in Peer : \A r \in requests'[x] : Chose(r.from, x)'
  PROVE  GoesBackToChoice' /\ ChosenIsThere'
  BY DEF GoesBackToChoice, ChosenIsThere, Chose

LEMMA ChoiceStays ==
  ContactsTypeOK /\ GoesBackToChoice /\ ChosenIsThere /\ [ContactsNext]_contactVars
    => GoesBackToChoice' /\ ChosenIsThere'
<1> SUFFICES ASSUME ContactsTypeOK, GoesBackToChoice, ChosenIsThere, [ContactsNext]_contactVars
             PROVE  GoesBackToChoice' /\ ChosenIsThere'
  OBVIOUS
<1> USE DEF ContactsTypeOK, GoesBackToChoice, ChosenIsThere, Chose,
            contactVars, stores, calls, With, Without
<1>1. ASSUME NEW p \in Peer, NEW q \in Peer, AddByCode(p, q)
      PROVE  GoesBackToChoice' /\ ChosenIsThere'
  BY <1>1 DEF AddByCode, AddContact, ContactPacket, Request
<1>2. ASSUME NEW p \in Peer, NEW q \in Peer, SendContactHello(p, q)
      PROVE  GoesBackToChoice' /\ ChosenIsThere'
  BY <1>2 DEF SendContactHello, CanEncrypt, ContactMsg
<1>3. ASSUME NEW p \in Peer, NEW q \in Peer, NEW id \in Serial, ReceiveHello(q, p, id)
      PROVE  GoesBackToChoice' /\ ChosenIsThere'
  BY <1>3 DEF ReceiveHello, ContactMsg
<1>4. ASSUME NEW p \in Peer, NEW q \in Peer, NEW id \in Serial, ReceiveHelloAck(p, q, id)
      PROVE  GoesBackToChoice' /\ ChosenIsThere'
  BY <1>4 DEF ReceiveHelloAck, ContactMsg
<1>5. ASSUME NEW p \in Peer, NEW q \in Peer, NEW id \in Serial, ReceiveRequest(q, p, id)
      PROVE  GoesBackToChoice' /\ ChosenIsThere'
  <2>1. Chose(p, q)
    BY <1>5 DEF ReceiveRequest, ContactMsg
  <2>2. \A x \in Peer : \A r \in requests'[x] : r \in requests[x] \/ (x = q /\ r.from = p)
    BY <1>5 DEF ReceiveRequest
  <2>3. cNet' \subseteq cNet /\ UNCHANGED <<contact, accepting, confirming, chosen, dropped>>
    BY <1>5 DEF ReceiveRequest
  <2>4. ASSUME NEW x \in Peer, NEW r \in requests'[x] PROVE Chose(r.from, x)'
    <3>1. CASE r \in requests[x]
      BY <2>3, <3>1
    <3>2. CASE x = q /\ r.from = p
      BY <2>1, <2>3, <3>2
    <3> QED
      BY <2>2, <3>1, <3>2
  <2> QED
    BY <2>3, <2>4, ChoiceFrame
<1>6. ASSUME NEW p \in Peer, NEW q \in Peer, NEW id \in Serial, ReceiveAccept(p, q, id)
      PROVE  GoesBackToChoice' /\ ChosenIsThere'
  <2>1. Chose(p, q) /\ Chose(q, p)
    BY <1>6 DEF ReceiveAccept, ContactMsg
  <2>2. \A x, y \in Peer : \/ contact'[x][y] = contact[x][y]
                           \/ x = p /\ y = q /\ contact'[x][y] # "none"
    BY <1>6 DEF ReceiveAccept, AddContact
  <2>3. cNet' \subseteq cNet /\ UNCHANGED <<requests, accepting, chosen, dropped>>
    BY <1>6 DEF ReceiveAccept
  <2>4. \A x \in Peer : \A y \in confirming'[x] : y \in confirming[x] \/ (x = p /\ y = q)
    BY <1>6 DEF ReceiveAccept
  <2>5. ASSUME NEW x \in Peer, NEW y \in Peer
        PROVE  /\ contact'[x][y] # "none" => Chose(x, y)'
               /\ contact'[x][y] = "confirmed" => Chose(y, x)'
               /\ Chose(x, y)' => contact'[x][y] # "none" \/ y \in dropped'[x]
    <3>1. CASE contact'[x][y] = contact[x][y]
      BY <2>3, <3>1
    <3>2. CASE x = p /\ y = q /\ contact'[x][y] # "none"
      BY <2>1, <2>3, <3>2
    <3> QED
      BY <2>2, <3>1, <3>2
  <2>6. \A x \in Peer : \A y \in confirming'[x] : Chose(x, y)' /\ Chose(y, x)'
    BY <2>1, <2>3, <2>4
  <2> QED
    BY <2>3, <2>5, <2>6
<1>7. ASSUME NEW p \in Peer, NEW q \in Peer, RemoveContact(p, q)
      PROVE  GoesBackToChoice' /\ ChosenIsThere'
  <2>1. \A x, y \in Peer : \/ contact'[x][y] = contact[x][y]
                           \/ x = p /\ y = q /\ contact'[x][y] = "none" /\ q \in dropped'[p]
    BY <1>7 DEF RemoveContact
  <2>2. \A x \in Peer : dropped[x] \subseteq dropped'[x]
    BY <1>7 DEF RemoveContact
  <2>3. UNCHANGED <<requests, accepting, confirming, cNet, chosen>>
    BY <1>7 DEF RemoveContact
  <2> QED
    BY <2>1, <2>2, <2>3
<1>8. ASSUME NEW q \in Peer, NEW r \in Request, AcceptRequest(q, r)
      PROVE  GoesBackToChoice' /\ ChosenIsThere'
  <2>1. r.from \in Peer /\ Chose(r.from, q)
    BY <1>8 DEF AcceptRequest, Request
  <2>2. \A x, y \in Peer : Chose(x, y)' <=> Chose(x, y) \/ (x = q /\ y = r.from)
    BY <1>8, <2>1 DEF AcceptRequest
  <2>3. \A x, y \in Peer : \/ contact'[x][y] = contact[x][y]
                           \/ x = q /\ y = r.from /\ contact'[x][y] # "none"
                              /\ (contact'[x][y] = "confirmed" => contact[x][y] = "confirmed")
    BY <1>8, <2>1 DEF AcceptRequest, AddContact
  <2>4. \A x \in Peer : \A call \in accepting'[x] :
            call \in accepting[x] \/ (x = q /\ call.request = r)
    BY <1>8 DEF AcceptRequest
  <2>5. UNCHANGED <<requests, confirming, cNet, dropped>>
    BY <1>8 DEF AcceptRequest
  <2>6. \A x, y \in Peer : Chose(x, y) => Chose(x, y)'
    BY <2>2
  <2>7. \A m \in cNet : m.from \in Peer /\ m.to \in Peer
    BY DEF ContactPacket
  <2>8. \A x \in Peer : \A s \in requests[x] : s.from \in Peer
    BY DEF Request
  <2>9. \A x \in Peer : \A call \in accepting[x] : call.request.from \in Peer
    BY DEF Request
  <2>10. /\ \A m \in cNet' :
                /\ m.type \in {"hello", "request", "accept"} => Chose(m.from, m.to)'
                /\ m.type \in {"hello_ack", "accept"} => Chose(m.to, m.from)'
         /\ \A x \in Peer : \A s \in requests'[x] : Chose(s.from, x)'
    <3> HIDE DEF Chose
    <3> QED BY <2>5, <2>6, <2>7, <2>8
  <2>11. \A x \in Peer : \A call \in accepting'[x] :
                Chose(x, call.request.from)' /\ Chose(call.request.from, x)'
    <3> HIDE DEF Chose
    <3> QED BY <2>1, <2>2, <2>4, <2>6, <2>9
  <2>12. \A x, y \in Peer : /\ contact'[x][y] # "none" => Chose(x, y)'
                            /\ contact'[x][y] = "confirmed" => Chose(y, x)'
    <3> HIDE DEF Chose
    <3> QED BY <2>1, <2>2, <2>3, <2>6
  <2>13. \A x, y \in Peer : Chose(x, y)' => contact'[x][y] # "none" \/ y \in dropped'[x]
    <3> HIDE DEF Chose
    <3>1. contact'[q][r.from] # "none"
      BY <1>8, <2>1 DEF AcceptRequest, AddContact
    <3> QED BY <2>2, <2>3, <2>5, <3>1
  <2>14. \A x \in Peer : \A y \in confirming'[x] : Chose(x, y)' /\ Chose(y, x)'
    <3>1. \A x \in Peer : \A y \in confirming[x] : y \in Peer
      OBVIOUS
    <3> HIDE DEF Chose
    <3> QED BY <2>5, <2>6, <3>1
  <2> QED
    BY <2>10, <2>11, <2>12, <2>13, <2>14
<1>9. ASSUME NEW q \in Peer, NEW r \in Request, ConfirmAccepted(q, r)
      PROVE  GoesBackToChoice' /\ ChosenIsThere'
  <2>1. r.from \in Peer /\ Chose(r.from, q) /\ Chose(q, r.from)
    BY <1>9 DEF ConfirmAccepted, Request
  <2>2. \A x, y \in Peer : \/ contact'[x][y] = contact[x][y]
                           \/ /\ x = q /\ y = r.from /\ contact[x][y] # "none"
                              /\ contact'[x][y] = "confirmed"
    BY <1>9, <2>1 DEF ConfirmAccepted, SetConfirmed
  <2>3. \A x \in Peer : \A call \in accepting'[x] :
            call \in accepting[x] \/ (x = q /\ call.request = r)
    BY <1>9 DEF ConfirmAccepted
  <2>4. \A m \in cNet' : m \in cNet \/ (m.type = "accept" /\ m.from = q /\ m.to = r.from)
    BY <1>9 DEF ConfirmAccepted, ContactMsg
  <2>5. UNCHANGED <<requests, confirming, chosen, dropped>>
    BY <1>9 DEF ConfirmAccepted
  <2>6. /\ \A m \in cNet' :
                /\ m.type \in {"hello", "request", "accept"} => Chose(m.from, m.to)'
                /\ m.type \in {"hello_ack", "accept"} => Chose(m.to, m.from)'
        /\ \A x \in Peer : \A s \in requests'[x] : Chose(s.from, x)'
    BY <2>1, <2>4, <2>5
  <2>7. \A x \in Peer : \A call \in accepting'[x] :
                Chose(x, call.request.from)' /\ Chose(call.request.from, x)'
    BY <2>1, <2>3, <2>5
  <2>8. \A x, y \in Peer : /\ contact'[x][y] # "none" => Chose(x, y)'
                           /\ contact'[x][y] = "confirmed" => Chose(y, x)'
                           /\ Chose(x, y)' => contact'[x][y] # "none" \/ y \in dropped'[x]
    BY <2>1, <2>2, <2>5
  <2> QED
    BY <2>5, <2>6, <2>7, <2>8
<1>10. ASSUME NEW q \in Peer, NEW r \in Request, RemoveAccepted(q, r) \/ RejectRequest(q, r)
       PROVE  GoesBackToChoice' /\ ChosenIsThere'
  <2>1. \A x \in Peer : requests'[x] \subseteq requests[x]
    <3>1. requests' = [requests EXCEPT ![q] = @ \ {r}]
      BY <1>10 DEF RemoveAccepted, RejectRequest
    <3>2. requests \in [Peer -> SUBSET Request]
      OBVIOUS
    <3> HIDE DEF ContactsTypeOK, GoesBackToChoice, ChosenIsThere
    <3> QED BY <3>1, <3>2
  <2>2. \A x \in Peer : accepting'[x] \subseteq accepting[x]
    BY <1>10 DEF RemoveAccepted, RejectRequest
  <2>3. UNCHANGED <<contact, confirming, cNet, chosen, dropped>>
    BY <1>10 DEF RemoveAccepted, RejectRequest
  <2> QED
    BY <2>1, <2>2, <2>3
<1>11. ASSUME NEW p \in Peer, StopAndStart(p) PROVE GoesBackToChoice' /\ ChosenIsThere'
  BY <1>11 DEF StopAndStart
<1>12. ASSUME NEW p \in Peer, NEW q \in Peer, RecordDeleted(p, q)
       PROVE  GoesBackToChoice' /\ ChosenIsThere'
  BY <1>12 DEF RecordDeleted
<1>13. CASE UNCHANGED contactVars
  BY <1>13
<1>14. ASSUME NEW p \in Peer, NEW q \in Peer, ConfirmAdded(p, q)
       PROVE  GoesBackToChoice' /\ ChosenIsThere'
  <2>1. Chose(p, q) /\ Chose(q, p)
    BY <1>14 DEF ConfirmAdded
  <2>2. \A x, y \in Peer : \/ contact'[x][y] = contact[x][y]
                           \/ /\ x = p /\ y = q /\ contact[x][y] # "none"
                              /\ contact'[x][y] = "confirmed"
    BY <1>14 DEF ConfirmAdded, SetConfirmed
  <2>3. \A x \in Peer : confirming'[x] \subseteq confirming[x]
    BY <1>14 DEF ConfirmAdded
  <2>4. UNCHANGED <<requests, accepting, cNet, chosen, dropped>>
    BY <1>14 DEF ConfirmAdded
  <2>5. ASSUME NEW x \in Peer, NEW y \in Peer
        PROVE  /\ contact'[x][y] # "none" => Chose(x, y)'
               /\ contact'[x][y] = "confirmed" => Chose(y, x)'
               /\ Chose(x, y)' => contact'[x][y] # "none" \/ y \in dropped'[x]
    BY <2>1, <2>2, <2>4
  <2> QED
    BY <2>3, <2>4, <2>5
<1> QED
  BY <1>1, <1>2, <1>3, <1>4, <1>5, <1>6, <1>7, <1>8, <1>9, <1>10, <1>11, <1>12, <1>13, <1>14
     DEF ContactsNext, Handle

LEMMA NobodyChosen == ContactsInit => GoesBackToChoice /\ ChosenIsThere
  BY DEF ContactsInit, GoesBackToChoice, ChosenIsThere, Chose

\* No run of hellos, requests and accepts of however many people, overtaken, crossed with a
\* removal or cut by a restart, makes a confirmed contact that only one of the two wanted.
THEOREM ConfirmedTakesTwo == ContactsSpec => []ConfirmedByBoth
<1>1. GoesBackToChoice => ConfirmedByBoth
  BY DEF GoesBackToChoice, ConfirmedByBoth, Chose
<1> QED
  BY <1>1, NobodyChosen, ChoiceStays, ContactsTypes, PTL DEF ContactsSpec

\* ... and only a removal leaves a confirmed contact without the keys of the other.
THEOREM ConfirmedCanDecrypt == ContactsSpec => []ConfirmedKnowsMe
<1>1. GoesBackToChoice /\ ChosenIsThere => ConfirmedKnowsMe
  BY DEF GoesBackToChoice, ChosenIsThere, ConfirmedKnowsMe, Chose
<1> QED
  BY <1>1, NobodyChosen, ChoiceStays, ContactsTypes, PTL DEF ContactsSpec
=============================================================================
