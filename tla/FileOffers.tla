----------------------------- MODULE FileOffers -----------------------------
(***************************************************************************)
(* The consent to a file (node/node_offers.go, SendFileByPath in media.go, *)
(* the dialogs of the app): the sender offers it, the receiver's user or   *)
(* her threshold answers, an accept starts the run that sends the chunks   *)
(* (module FileTransfer); the sender cancels or aborts; an offer expires.  *)
(*                                                                         *)
(* One offer: offers are kept by mediaID and share nothing.  The messages  *)
(* go through a bootstrap node once, in any order; the app learns what Go  *)
(* did in the step that did it.                                            *)
(***************************************************************************)
EXTENDS Naturals

CONSTANTS
    OfferScenarios,     \* what may happen besides: sets of KnownOfferEvents
    MaxRuns             \* bound: an accept that would start more runs is not modelled

KnownOfferEvents ==
    { "loss",           \* a message is lost
      "restart",        \* one of the two apps is restarted
      "withdraw" }      \* the sender's user cancels, aborts or deletes

ASSUME OfferConstants ==
    /\ OfferScenarios \subseteq SUBSET KnownOfferEvents
    /\ MaxRuns \in Nat

VARIABLES
    sendCall,       \* sendFileByPath of the sender's app: not called, awaited, returned
    offerState,     \* _offerStates of the sender's app
    copy,           \* sent/<mediaID>.bin and its .meta are there
    withdrawing,    \* cancelFileOffer or abortFileSend awaits its call
    abortFlag,      \* n.aborted of the file
    runs            \* sendFileChunksAsyncs of the file that go on

VARIABLES
    asks,           \* the receiver's threshold makes it ask for this file
    stored,         \* the offer in the receiver's OffersStore
    shown,          \* _fileOffers of the receiver's app
    fileLabel,      \* _offerStates of the receiver's app
    answering       \* the answers whose calls the app awaits

VARIABLES
    oNet,           \* messages in flight
    oEvents         \* the scenario of this behaviour

\* History, read by no action of the code.
VARIABLES
    answered,       \* answers the receiver has sent, or tried to
    consent         \* the receiver's user has tapped accept

offering     == <<sendCall, offerState, copy, withdrawing, abortFlag, runs>>
answeringSide == <<stored, shown, fileLabel, answering, answered, consent>>
offerVars    == <<offering, answeringSide, asks, oNet, oEvents>>

Answers == {"accept", "decline"}
Withdrawals == {"cancel", "abort"}

OffersTypeOK ==
    /\ sendCall \in {"none", "awaited", "returned"}
    /\ offerState \in {"none", "pending", "accepted", "declined"}
    /\ copy \in BOOLEAN /\ withdrawing \subseteq Withdrawals
    /\ abortFlag \in BOOLEAN /\ runs \in 0..MaxRuns
    /\ asks \in BOOLEAN /\ stored \in {"none", "live", "cancelled"}
    /\ shown \in {"none", "pending", "cancelled"}
    /\ fileLabel \in {"none", "expired", "aborted"}
    /\ answering \subseteq Answers /\ answered \subseteq Answers /\ consent \in BOOLEAN
    /\ oNet \subseteq {"offer"} \cup Answers \cup Withdrawals
    /\ oEvents \in OfferScenarios

OffersInit ==
    /\ sendCall = "none" /\ offerState = "none" /\ copy = FALSE
    /\ withdrawing = {} /\ abortFlag = FALSE /\ runs = 0
    /\ asks \in BOOLEAN
    /\ stored = "none" /\ shown = "none" /\ fileLabel = "none"
    /\ answering = {} /\ answered = {} /\ consent = FALSE
    /\ oNet = {} /\ oEvents \in OfferScenarios

Post(type)        == oNet' = oNet \cup {type}
Handled(type)     == type \in oNet /\ oNet' = oNet \ {type}
OfferingStays     == UNCHANGED <<asks, oEvents, answeringSide>>
AnsweringStays    == UNCHANGED <<asks, oEvents, offering>>
-----------------------------------------------------------------------------
\* SendFileByPath: the copy and its .meta, then SendFileOffer.
SendFileByPath ==
    /\ sendCall = "none"
    /\ sendCall' = "awaited" /\ copy' = TRUE
    /\ Post("offer")
    /\ UNCHANGED <<offerState, withdrawing, abortFlag, runs>>
    /\ OfferingStays

\* The app goes on after the call: pending, also over an accept that was faster.
OfferReturned ==
    /\ sendCall = "awaited"
    /\ sendCall' = "returned" /\ offerState' = "pending"
    /\ UNCHANGED <<copy, withdrawing, abortFlag, runs, oNet>>
    /\ OfferingStays

\* The call fails: no bootstrap node took the offer.  The copy stays.
OfferFails ==
    /\ "loss" \in oEvents /\ sendCall = "awaited" /\ Handled("offer")
    /\ sendCall' = "returned"
    /\ UNCHANGED <<offerState, copy, withdrawing, abortFlag, runs>>
    /\ OfferingStays

\* Mutant of Sendable: the app must have seen the offer go out.
SendableIfPending == copy /\ offerState = "pending"

\* handleFileAccept looks for the .meta, and at nothing else.
Sendable == copy

\* handleFileAccept.
ReceiveFileAccept ==
    /\ Handled("accept")
    /\ IF Sendable
       THEN /\ runs < MaxRuns /\ runs' = runs + 1
            /\ offerState' = "accepted"
       ELSE UNCHANGED <<runs, offerState>>
    /\ UNCHANGED <<sendCall, copy, withdrawing, abortFlag>>
    /\ OfferingStays

\* handleFileDecline: a run that goes on has the copy open.
ReceiveFileDecline ==
    /\ Handled("decline")
    /\ copy' = FALSE /\ offerState' = "declined"
    /\ UNCHANGED <<sendCall, withdrawing, abortFlag, runs>>
    /\ OfferingStays

\* cancelFileOffer and SendFileCancel.
CancelFileOffer ==
    /\ "withdraw" \in oEvents /\ offerState = "pending"
    /\ withdrawing' = withdrawing \cup {"cancel"}
    /\ Post("cancel")
    /\ UNCHANGED <<sendCall, offerState, copy, abortFlag, runs>>
    /\ OfferingStays

\* abortFileSend and SendFileAbort.
AbortFileSend ==
    /\ "withdraw" \in oEvents /\ offerState = "accepted"
    /\ withdrawing' = withdrawing \cup {"abort"}
    /\ abortFlag' = TRUE
    /\ Post("abort")
    /\ UNCHANGED <<sendCall, offerState, copy, runs>>
    /\ OfferingStays

\* Both forget the offer when the call returns, and delete the file.
WithdrawReturned(type) ==
    /\ type \in withdrawing
    /\ withdrawing' = withdrawing \ {type}
    /\ offerState' = "none" /\ copy' = FALSE
    /\ UNCHANGED <<sendCall, abortFlag, runs, oNet>>
    /\ OfferingStays

\* The call fails: the app keeps the offer as it was, though an abort has raised its flag.
WithdrawFails(type) ==
    /\ "loss" \in oEvents /\ type \in withdrawing /\ Handled(type)
    /\ withdrawing' = withdrawing \ {type}
    /\ UNCHANGED <<sendCall, offerState, copy, abortFlag, runs>>
    /\ OfferingStays

\* The message of the file is deleted when its offer is neither pending nor accepted.
DeleteOffered ==
    /\ "withdraw" \in oEvents /\ sendCall = "returned"
    /\ offerState \notin {"pending", "accepted"}
    /\ offerState' = "none" /\ copy' = FALSE
    /\ UNCHANGED <<sendCall, withdrawing, abortFlag, runs, oNet>>
    /\ OfferingStays

\* A run ends: its last chunk is queued, or it sees the abort and takes the flag down.
EndRun ==
    /\ runs > 0
    /\ runs' = runs - 1
    /\ \/ UNCHANGED <<copy, abortFlag>>
       \/ abortFlag /\ copy' = FALSE /\ abortFlag' = FALSE
    /\ UNCHANGED <<sendCall, offerState, withdrawing, oNet>>
    /\ OfferingStays

\* The sender's app is restarted: what it knew of the offer was in memory.
RestartOfferer ==
    /\ "restart" \in oEvents /\ sendCall # "none"
    /\ sendCall' = "returned" /\ offerState' = "none"
    /\ withdrawing' = {} /\ abortFlag' = FALSE /\ runs' = 0
    /\ UNCHANGED <<copy, oNet>>
    /\ OfferingStays
-----------------------------------------------------------------------------
\* Mutant of AutoAccepts: the threshold is not read.
AutoAcceptsAll == TRUE

\* A threshold below which the app accepts for its user.
AutoAccepts == ~asks

\* handleFileOffer: stored for 24 hours; shown, or accepted at once below the threshold.
ReceiveFileOffer ==
    /\ "offer" \in oNet
    /\ stored' = "live"
    /\ IF AutoAccepts
       THEN /\ oNet' = (oNet \ {"offer"}) \cup {"accept"}
            /\ answered' = answered \cup {"accept"}
            /\ UNCHANGED shown
       ELSE /\ oNet' = oNet \ {"offer"} /\ shown' = "pending"
            /\ UNCHANGED answered
    /\ UNCHANGED <<fileLabel, answering, consent>>
    /\ AnsweringStays

\* acceptFileOffer and declineFileOffer: the offer is shown until the call has returned,
\* so that a second tap answers again; the store keeps it.  Two calls of one answer are kept
\* as one: what they do when they return is the same.
AnswerFileOffer(type) ==
    /\ shown = "pending"
    /\ answering' = answering \cup {type}
    /\ Post(type)
    /\ answered' = answered \cup {type} /\ consent' = (consent \/ type = "accept")
    /\ UNCHANGED <<stored, shown, fileLabel>>
    /\ AnsweringStays

AnswerReturned(type) ==
    /\ type \in answering
    /\ answering' = answering \ {type}
    /\ shown' = "none"
    /\ UNCHANGED <<stored, fileLabel, answered, consent, oNet>>
    /\ AnsweringStays

\* The call fails: no bootstrap node took the message.  The buttons stay.
AnswerFails(type) ==
    /\ "loss" \in oEvents /\ type \in answering /\ type \in oNet
    /\ answering' = answering \ {type} /\ oNet' = oNet \ {type}
    /\ UNCHANGED <<stored, shown, fileLabel, answered, consent>>
    /\ AnsweringStays

\* Mutant of MarkCancelled: the store forgets the offer at once.
RemoveCancelled ==
    /\ stored' = "none"
    /\ shown' = IF shown = "none" THEN "none" ELSE "cancelled"

\* An offer that is there is marked, without its buttons.
MarkCancelled ==
    /\ stored' = IF stored = "none" THEN "none" ELSE "cancelled"
    /\ shown' = IF shown = "none" THEN "none" ELSE "cancelled"

\* handleFileCancel.
ReceiveFileCancel ==
    /\ Handled("cancel")
    /\ MarkCancelled
    /\ UNCHANGED <<fileLabel, answering, answered, consent>>
    /\ AnsweringStays

\* handleFileAbort, as far as the offer goes (the rest is ReceiveAbort of FileReceiver).
ReceiveFileAbort ==
    /\ Handled("abort")
    /\ fileLabel' = "aborted"
    /\ UNCHANGED <<stored, shown, answering, answered, consent>>
    /\ AnsweringStays

\* Mutants of PushExpired: only the store is cleaned up; the offer itself is labelled.
PushForgotten == UNCHANGED <<shown, fileLabel>>
LabelsOffer == shown' = "expired" /\ UNCHANGED fileLabel

\* The app is told of an expiry, and labels the file.
PushExpired == shown' = "none" /\ fileLabel' = "expired"

\* CleanupExpired, with its push, whatever was answered: an offer is never taken out of
\* the store otherwise (Remove is not called).
ExpireOffer ==
    /\ stored # "none"
    /\ stored' = "none"
    /\ PushExpired
    /\ UNCHANGED <<answering, answered, consent, oNet>>
    /\ AnsweringStays

\* The receiver's app is restarted: the store is loaded, what was shown is not.
RestartAnswerer ==
    /\ "restart" \in oEvents
    /\ shown' = "none" /\ fileLabel' = "none" /\ answering' = {}
    /\ UNCHANGED <<stored, answered, consent, oNet>>
    /\ AnsweringStays

LoseOfferMessage ==
    /\ "loss" \in oEvents
    /\ \E type \in oNet : oNet' = oNet \ {type}
    /\ UNCHANGED <<offering, answeringSide, asks, oEvents>>

OffersNext ==
    \/ SendFileByPath \/ OfferReturned \/ OfferFails
    \/ ReceiveFileAccept \/ ReceiveFileDecline
    \/ CancelFileOffer \/ AbortFileSend \/ DeleteOffered \/ EndRun \/ RestartOfferer
    \/ \E type \in Withdrawals : WithdrawReturned(type) \/ WithdrawFails(type)
    \/ ReceiveFileOffer \/ ReceiveFileCancel \/ ReceiveFileAbort \/ ExpireOffer
    \/ \E type \in Answers : AnswerFileOffer(type) \/ AnswerReturned(type) \/ AnswerFails(type)
    \/ RestartAnswerer \/ LoseOfferMessage

OffersSpec == OffersInit /\ [][OffersNext]_offerVars

\* A message that is in flight arrives, calls return, and cleanupLoop comes every minute.
OffersFairness ==
    /\ WF_offerVars(ReceiveFileOffer)
    /\ WF_offerVars(ReceiveFileAccept)
    /\ WF_offerVars(EndRun)
    /\ WF_offerVars(ExpireOffer)
-----------------------------------------------------------------------------
\* The right to refuse: no run sends chunks unless the receiver's user has accepted, or
\* has chosen not to be asked for a file of this size.
NothingSentUnasked == runs > 0 => consent \/ ~asks

\* An offer with its buttons is in the store, as an offer the sender has not cancelled, so
\* that the answer is to something that still exists.
ShownIsStored == shown = "pending" => stored = "live"

\* No offer is shown for ever, whatever is lost, cancelled too early or left unanswered.
OfferEnds == shown # "none" ~> shown = "none"

\* When nobody withdraws and nothing is lost, an offer that was only accepted is sent.
AcceptStarts ==
    (oEvents = {} /\ "accept" \in oNet) ~> (runs > 0 \/ "decline" \in answered)

\* OFFER_TIMEOUT is "how long we wait for an answer": an offer that was answered, so that
\* its file may be there, is not labelled as expired.  It does not hold (README, section 8).
ExpiredIsUnanswered == fileLabel = "expired" => answered = {}
=============================================================================
