----------------------------- MODULE MCTransport -----------------------------
(***************************************************************************)
(* Small instances of what carries texts, for TLC: TextBatch, Rendezvous   *)
(* and SphinxRoute.  They share no variable: a behaviour takes the steps   *)
(* of one, while the others rest where they owe no step.                   *)
(***************************************************************************)
EXTENDS TextBatch, Rendezvous, SphinxRoute, TLC

VARIABLE part   \* the protocol of this behaviour

transportVars == <<part, batchVars, rendezvousVars, sphinxVars>>

BatchRests      == bEvents = CHOOSE events \in BatchScenarios : TRUE
RendezvousRests == ~online /\ ~crowd
SphinxRests     == trusted = {} /\ ~mixing /\ lossy

TransportInit ==
    /\ BatchInit /\ RendezvousInit /\ SphinxInit
    /\ \/ part = "batch" /\ RendezvousRests /\ SphinxRests
       \/ part = "rendezvous" /\ BatchRests /\ SphinxRests
       \/ part = "sphinx" /\ BatchRests /\ RendezvousRests

TransportNext ==
    \/ part = "batch" /\ BatchNext /\ UNCHANGED <<part, rendezvousVars, sphinxVars>>
    \/ part = "rendezvous" /\ RendezvousNext /\ UNCHANGED <<part, batchVars, sphinxVars>>
    \/ part = "sphinx" /\ SphinxNext /\ UNCHANGED <<part, batchVars, rendezvousVars>>

TransportSpec ==
    /\ TransportInit /\ [][TransportNext]_transportVars
    /\ BatchFairness /\ RendezvousFairness /\ SphinxFairness

\* The types of the three.
TransportTypeOK == BatchTypeOK /\ RendezvousTypeOK /\ SphinxTypeOK
-----------------------------------------------------------------------------
CONSTANTS t1, t2, t3    \* texts: t2 and t3, or t1 and t3, fit together, t1 and t2 do not

Texts == {t1, t2, t3}
Sizes == t1 :> 2 @@ t2 :> 3 @@ t3 :> 1
NoSizes == [t \in {} |-> 0]

CONSTANTS l1, l2        \* letters: the second is a dummy

Letters == {l1, l2}
Kinds   == {l1 :> "message" @@ l2 :> "dummy"}
=============================================================================
