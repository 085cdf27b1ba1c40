------------------------------ MODULE ConsentProofs ------------------------------
(***************************************************************************)
(* The right to refuse a file, and the offers that are shown, whatever is  *)
(* lost, cancelled, tapped twice or restarted, and for any number of runs; *)
(* and what holds of a node that speaks both protocols of MCConsent.       *)
(***************************************************************************)
EXTENDS MCConsent, ContactsProofs
-----------------------------------------------------------------------------
\* File offers.

\* An accept in flight, and a run it started, have a consent behind them; an offer that is
\* shown with its buttons is in the store.
ConsentBehind ==
    /\ runs \in Nat
    /\ "accept" \in oNet \/ runs > 0 => consent \/ ~asks
    /\ shown = "pending" => stored = "live"

LEMMA OffersInitConsent == OffersInit => ConsentBehind
  BY DEF OffersInit, ConsentBehind

LEMMA OffersStepConsent == ConsentBehind /\ [OffersNext]_offerVars => ConsentBehind'
<1> SUFFICES ASSUME ConsentBehind, [OffersNext]_offerVars PROVE ConsentBehind'
  OBVIOUS
<1> USE DEF ConsentBehind, offerVars, offering, answeringSide,
            OfferingStays, AnsweringStays, Post, Handled, Answers, Withdrawals
<1>1. CASE SendFileByPath \/ OfferReturned \/ OfferFails
  BY <1>1 DEF SendFileByPath, OfferReturned, OfferFails
<1>2. CASE ReceiveFileAccept
  BY <1>2 DEF ReceiveFileAccept
<1>3. CASE ReceiveFileDecline
  BY <1>3 DEF ReceiveFileDecline
<1>4. CASE CancelFileOffer \/ AbortFileSend \/ DeleteOffered
  BY <1>4 DEF CancelFileOffer, AbortFileSend, DeleteOffered
<1>5. CASE EndRun
  BY <1>5 DEF EndRun
<1>6. CASE RestartOfferer
  BY <1>6 DEF RestartOfferer
<1>7. ASSUME NEW type \in Withdrawals, WithdrawReturned(type) \/ WithdrawFails(type)
      PROVE  ConsentBehind'
  BY <1>7 DEF WithdrawReturned, WithdrawFails
<1>8. CASE ReceiveFileOffer
  BY <1>8 DEF ReceiveFileOffer, AutoAccepts
<1>9. CASE ReceiveFileCancel \/ ReceiveFileAbort
  BY <1>9 DEF ReceiveFileCancel, MarkCancelled, ReceiveFileAbort
<1>10. CASE ExpireOffer
  BY <1>10 DEF ExpireOffer, PushExpired
<1>11. ASSUME NEW type \in Answers,
              AnswerFileOffer(type) \/ AnswerReturned(type) \/ AnswerFails(type)
       PROVE  ConsentBehind'
  <2>1. CASE AnswerFileOffer("accept") /\ type = "accept"
    <3>1. consent'
      BY <2>1 DEF AnswerFileOffer
    <3>2. runs' = runs /\ shown' = shown /\ stored' = stored
      BY <2>1 DEF AnswerFileOffer
    <3> QED
      BY <3>1, <3>2
  <2>2. CASE AnswerFileOffer("decline") /\ type = "decline"
    <3>1. consent => consent'
      BY <2>2 DEF AnswerFileOffer
    <3>2. runs' = runs /\ shown' = shown /\ stored' = stored /\ asks' = asks
          /\ ("accept" \in oNet' <=> "accept" \in oNet)
      BY <2>2 DEF AnswerFileOffer
    <3> QED
      BY <3>1, <3>2
  <2>3. CASE AnswerReturned(type) \/ AnswerFails(type)
    BY <2>3 DEF AnswerReturned, AnswerFails
  <2> QED
    BY <1>11, <2>1, <2>2, <2>3
<1>12. CASE RestartAnswerer
  BY <1>12 DEF RestartAnswerer
<1>13. CASE LoseOfferMessage
  BY <1>13 DEF LoseOfferMessage
<1>14. CASE UNCHANGED offerVars
  BY <1>14
<1> QED
  BY <1>1, <1>2, <1>3, <1>4, <1>5, <1>6, <1>7, <1>8, <1>9, <1>10, <1>11, <1>12, <1>13, <1>14
     DEF OffersNext

LEMMA OffersInitTypes == OffersInit => OffersTypeOK
<1>1. 0 \in 0..MaxRuns
  BY OfferConstants
<1> QED
  BY <1>1 DEF OffersInit, OffersTypeOK

\* The types of the two sides, and of what is between them.
OfferingTypes ==
    /\ sendCall \in {"none", "awaited", "returned"}
    /\ offerState \in {"none", "pending", "accepted", "declined"}
    /\ copy \in BOOLEAN /\ withdrawing \subseteq Withdrawals
    /\ abortFlag \in BOOLEAN /\ runs \in 0..MaxRuns

AnsweringTypes ==
    /\ stored \in {"none", "live", "cancelled"}
    /\ shown \in {"none", "pending", "cancelled"}
    /\ fileLabel \in {"none", "expired", "aborted"}
    /\ answering \subseteq Answers /\ answered \subseteq Answers /\ consent \in BOOLEAN

OfferMessages == {"offer"} \cup Answers \cup Withdrawals

LEMMA OffersStepTypes == OffersTypeOK /\ [OffersNext]_offerVars => OffersTypeOK'
<1> SUFFICES ASSUME OffersTypeOK, [OffersNext]_offerVars PROVE OffersTypeOK'
  OBVIOUS
<1>0. OfferingTypes /\ AnsweringTypes /\ asks \in BOOLEAN /\ oNet \subseteq OfferMessages
        /\ oEvents \in OfferScenarios
  BY DEF OffersTypeOK, OfferingTypes, AnsweringTypes, OfferMessages
<1> USE DEF offerVars, offering, answeringSide, Post, Handled
<1>1. ASSUME OfferingStays, OfferingTypes', oNet' \subseteq OfferMessages PROVE OffersTypeOK'
  <2>1. AnsweringTypes' /\ asks' = asks /\ oEvents' = oEvents
    BY <1>0, <1>1 DEF OfferingStays, AnsweringTypes
  <2> QED
    BY <1>0, <1>1, <2>1 DEF OffersTypeOK, OfferingTypes, AnsweringTypes, OfferMessages
<1>2. ASSUME AnsweringStays, AnsweringTypes', oNet' \subseteq OfferMessages PROVE OffersTypeOK'
  <2>1. OfferingTypes' /\ asks' = asks /\ oEvents' = oEvents
    BY <1>0, <1>2 DEF AnsweringStays, OfferingTypes
  <2> QED
    BY <1>0, <1>2, <2>1 DEF OffersTypeOK, OfferingTypes, AnsweringTypes, OfferMessages
<1>3. CASE SendFileByPath \/ OfferReturned \/ OfferFails
  <2>1. OfferingTypes'
    BY <1>0, <1>3 DEF SendFileByPath, OfferReturned, OfferFails, OfferingTypes
  <2>2. OfferingStays /\ oNet' \subseteq OfferMessages
    BY <1>0, <1>3 DEF SendFileByPath, OfferReturned, OfferFails, OfferMessages
  <2> QED
    BY <1>1, <2>1, <2>2
<1>4. CASE ReceiveFileAccept
  <2>1. runs' \in 0..MaxRuns
    BY <1>0, <1>4, OfferConstants DEF ReceiveFileAccept, OfferingTypes
  <2>2. OfferingTypes'
    BY <1>0, <1>4, <2>1 DEF ReceiveFileAccept, OfferingTypes
  <2>3. OfferingStays /\ oNet' \subseteq OfferMessages
    BY <1>0, <1>4 DEF ReceiveFileAccept
  <2> QED
    BY <1>1, <2>2, <2>3
<1>5. CASE ReceiveFileDecline \/ DeleteOffered
  <2>1. OfferingTypes'
    BY <1>0, <1>5 DEF ReceiveFileDecline, DeleteOffered, OfferingTypes
  <2>2. OfferingStays /\ oNet' \subseteq OfferMessages
    BY <1>0, <1>5 DEF ReceiveFileDecline, DeleteOffered
  <2> QED
    BY <1>1, <2>1, <2>2
<1>6. CASE CancelFileOffer \/ AbortFileSend
  <2>1. OfferingTypes'
    BY <1>0, <1>6 DEF CancelFileOffer, AbortFileSend, OfferingTypes, Withdrawals
  <2>2. OfferingStays /\ oNet' \subseteq OfferMessages
    BY <1>0, <1>6 DEF CancelFileOffer, AbortFileSend, OfferMessages, Withdrawals
  <2> QED
    BY <1>1, <2>1, <2>2
<1>7. CASE EndRun
  <2>1. runs' \in 0..MaxRuns
    BY <1>0, <1>7, OfferConstants DEF EndRun, OfferingTypes
  <2>2. OfferingTypes'
    BY <1>0, <1>7, <2>1 DEF EndRun, OfferingTypes
  <2>3. OfferingStays /\ oNet' \subseteq OfferMessages
    BY <1>0, <1>7 DEF EndRun
  <2> QED
    BY <1>1, <2>2, <2>3
<1>8. CASE RestartOfferer
  <2>1. OfferingTypes'
    <3>1. 0 \in 0..MaxRuns
      BY OfferConstants
    <3> QED
      BY <1>0, <1>8, <3>1 DEF RestartOfferer, OfferingTypes
  <2>2. OfferingStays /\ oNet' \subseteq OfferMessages
    BY <1>0, <1>8 DEF RestartOfferer
  <2> QED
    BY <1>1, <2>1, <2>2
<1>9. ASSUME NEW type \in Withdrawals, WithdrawReturned(type) \/ WithdrawFails(type)
      PROVE  OffersTypeOK'
  <2>1. OfferingTypes'
    BY <1>0, <1>9 DEF WithdrawReturned, WithdrawFails, OfferingTypes
  <2>2. OfferingStays /\ oNet' \subseteq OfferMessages
    BY <1>0, <1>9 DEF WithdrawReturned, WithdrawFails
  <2> QED
    BY <1>1, <2>1, <2>2
<1>10. CASE ReceiveFileOffer
  <2>1. AnsweringTypes'
    BY <1>0, <1>10 DEF ReceiveFileOffer, AnsweringTypes, Answers
  <2>2. AnsweringStays /\ oNet' \subseteq OfferMessages
    BY <1>0, <1>10 DEF ReceiveFileOffer, OfferMessages, Answers
  <2> QED
    BY <1>2, <2>1, <2>2
<1>11. CASE ReceiveFileCancel \/ ReceiveFileAbort
  <2>1. AnsweringTypes'
    BY <1>0, <1>11 DEF ReceiveFileCancel, MarkCancelled, ReceiveFileAbort, AnsweringTypes
  <2>2. AnsweringStays /\ oNet' \subseteq OfferMessages
    BY <1>0, <1>11 DEF ReceiveFileCancel, ReceiveFileAbort
  <2> QED
    BY <1>2, <2>1, <2>2
<1>12. CASE ExpireOffer
  <2>1. AnsweringTypes'
    BY <1>0, <1>12 DEF ExpireOffer, PushExpired, AnsweringTypes
  <2>2. AnsweringStays /\ oNet' \subseteq OfferMessages
    BY <1>0, <1>12 DEF ExpireOffer
  <2> QED
    BY <1>2, <2>1, <2>2
<1>13. ASSUME NEW type \in Answers,
              AnswerFileOffer(type) \/ AnswerReturned(type) \/ AnswerFails(type)
       PROVE  OffersTypeOK'
  <2>1. AnsweringTypes'
    <3>1. CASE AnswerFileOffer(type)
      BY <1>0, <3>1 DEF AnswerFileOffer, AnsweringTypes
    <3>2. CASE AnswerReturned(type) \/ AnswerFails(type)
      BY <1>0, <3>2 DEF AnswerReturned, AnswerFails, AnsweringTypes
    <3> QED
      BY <1>13, <3>1, <3>2
  <2>2. AnsweringStays /\ oNet' \subseteq OfferMessages
    BY <1>0, <1>13 DEF AnswerFileOffer, AnswerReturned, AnswerFails, OfferMessages
  <2> QED
    BY <1>2, <2>1, <2>2
<1>14. CASE RestartAnswerer
  <2>1. AnsweringTypes'
    BY <1>0, <1>14 DEF RestartAnswerer, AnsweringTypes
  <2>2. AnsweringStays /\ oNet' \subseteq OfferMessages
    BY <1>0, <1>14 DEF RestartAnswerer
  <2> QED
    BY <1>2, <2>1, <2>2
<1>15. CASE LoseOfferMessage \/ UNCHANGED offerVars
  <2>1. AnsweringTypes' /\ AnsweringStays /\ oNet' \subseteq OfferMessages
    BY <1>0, <1>15 DEF LoseOfferMessage, AnsweringTypes, AnsweringStays
  <2> QED
    BY <1>2, <2>1
<1> QED
  BY <1>3, <1>4, <1>5, <1>6, <1>7, <1>8, <1>9, <1>10, <1>11, <1>12, <1>13, <1>14, <1>15
     DEF OffersNext

\* No chunk of a file leaves for a receiver who asks to be asked and has not accepted.
THEOREM NothingUnasked == OffersSpec => []NothingSentUnasked
<1>1. ConsentBehind => NothingSentUnasked
  BY DEF ConsentBehind, NothingSentUnasked
<1> QED
  BY <1>1, OffersInitConsent, OffersStepConsent, PTL DEF OffersSpec

\* The buttons of an offer are for one the sender has not taken back, as far as is known.
THEOREM ButtonsAnswerSomething == OffersSpec => []ShownIsStored
<1>1. ConsentBehind => ShownIsStored
  BY DEF ConsentBehind, ShownIsStored
<1> QED
  BY <1>1, OffersInitConsent, OffersStepConsent, PTL DEF OffersSpec
-----------------------------------------------------------------------------
\* Both protocols.

\* What holds of each of the two holds of a node that speaks both: their types, the consent
\* of both people to a contact and to a file, and the buttons of an offer.
THEOREM ConsentTypes ==
  ConsentSpec => [](/\ ConsentTypeOK /\ ConfirmedByBoth /\ ConfirmedKnowsMe
                    /\ NothingSentUnasked /\ ShownIsStored)
<1> DEFINE Inv == /\ ContactsTypeOK /\ GoesBackToChoice /\ ChosenIsThere
                  /\ OffersTypeOK /\ ConsentBehind
<1>1. ConsentInit => Inv
  BY ContactsInitTypes, NobodyChosen, OffersInitTypes, OffersInitConsent DEF ConsentInit
<1>2. Inv /\ [ConsentNext]_consentVars => Inv'
  <2> SUFFICES ASSUME Inv, [ConsentNext]_consentVars PROVE Inv'
    OBVIOUS
  <2>1. [ContactsNext]_contactVars /\ [OffersNext]_offerVars
    BY DEF ConsentNext, consentVars
  <2> QED
    BY <2>1, ContactsStepTypes, ChoiceStays, OffersStepTypes, OffersStepConsent
<1>3. Inv => /\ ConsentTypeOK /\ ConfirmedByBoth /\ ConfirmedKnowsMe
             /\ NothingSentUnasked /\ ShownIsStored
  <2>1. GoesBackToChoice => ConfirmedByBoth
    BY DEF GoesBackToChoice, ConfirmedByBoth, Chose
  <2>2. GoesBackToChoice /\ ChosenIsThere => ConfirmedKnowsMe
    BY DEF GoesBackToChoice, ChosenIsThere, ConfirmedKnowsMe, Chose
  <2>3. ConsentBehind => NothingSentUnasked /\ ShownIsStored
    BY DEF ConsentBehind, NothingSentUnasked, ShownIsStored
  <2> QED
    BY <2>1, <2>2, <2>3 DEF ConsentTypeOK
<1> QED
  BY <1>1, <1>2, <1>3, PTL DEF ConsentSpec
=============================================================================
