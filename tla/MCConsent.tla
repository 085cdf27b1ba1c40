------------------------------ MODULE MCConsent ------------------------------
(***************************************************************************)
(* Small instances of the two protocols by which people agree, Contacts    *)
(* and FileOffers, for TLC.  They share no variable: a behaviour takes the *)
(* steps of one, while the other rests where it owes no step.              *)
(***************************************************************************)
EXTENDS Contacts, FileOffers, TLC

VARIABLE part   \* the protocol of this behaviour

consentVars == <<part, contactVars, offerVars>>

ConsentInit ==
    /\ ContactsInit /\ OffersInit
    /\ \/ part = "contacts" /\ oEvents = {} /\ asks
       \/ part = "offers" /\ cEvents = {}

ConsentNext ==
    \/ part = "contacts" /\ ContactsNext /\ UNCHANGED <<part, offerVars>>
    \/ part = "offers" /\ OffersNext /\ UNCHANGED <<part, contactVars>>

ConsentSpec ==
    ConsentInit /\ [][ConsentNext]_consentVars /\ ContactsFairness /\ OffersFairness

\* The types of both.
ConsentTypeOK == ContactsTypeOK /\ OffersTypeOK
-----------------------------------------------------------------------------
CONSTANTS alice, bob

Couple == {alice, bob}

\* Alice may greet twice, so that her second request overtakes or replaces the first; but
\* only once where there are removals and restarts.
TwoAndOne  == alice :> 2 @@ bob :> 1
OneEach    == alice :> 1 @@ bob :> 1
FewGreeted == cEvents # {} => \A p \in Peer : hellos[p] <= OneEach[p]
=============================================================================
