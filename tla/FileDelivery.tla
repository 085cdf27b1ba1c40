---------------------------- MODULE FileDelivery ----------------------------
(***************************************************************************)
(* What the transfer of files promises, without saying how: a file that    *)
(* was accepted arrives piece by piece, is whole when it has every piece,  *)
(* and only then shown as delivered, unless the sender was told of a piece *)
(* before he had entered it in his books; the sender keeps his copy until  *)
(* then, unless he has an excuse.  FileTransfer implements this.           *)
(***************************************************************************)
CONSTANTS
    Media,      \* the files
    Piece       \* the pieces of a file

VARIABLES
    accepted,   \* files the receiver asked for
    pieces,     \* pieces[m]: the pieces of m that have arrived
    whole,      \* files the receiver has put together
    source,     \* files the sender has a copy of, to send again
    shown,      \* files the sender is shown as delivered
    hurried,    \* files confirmed in part before they were in the sender's books
    excused     \* files whose copy may go without being whole: given up by one of the
                \* two, too old, or all of it hurried

deliveryVars == <<accepted, pieces, whole, source, shown, hurried, excused>>

Init ==
    /\ accepted = {} /\ pieces = [m \in Media |-> {}] /\ whole = {}
    /\ source = Media /\ shown = {} /\ hurried = {} /\ excused = {}

Accept(m) ==
    /\ accepted' = accepted \cup {m}
    /\ UNCHANGED <<pieces, whole, source, shown, hurried, excused>>

TakePiece(m, i) ==
    /\ m \in accepted
    /\ pieces' = [pieces EXCEPT ![m] = @ \cup {i}]
    /\ UNCHANGED <<accepted, whole, source, shown, hurried, excused>>

Complete(m) ==
    /\ pieces[m] = Piece
    /\ whole' = whole \cup {m}
    /\ UNCHANGED <<accepted, pieces, source, shown, hurried, excused>>

\* The sender's books: what they show is whole or hurried, also after a restart that brings
\* back an older view, and a copy that goes was no longer needed.
Settle ==
    /\ excused \subseteq excused' /\ excused' \subseteq Media
    /\ hurried \subseteq hurried' /\ hurried' \subseteq accepted
    /\ source' \subseteq source
    /\ source \ source' \subseteq whole \cup excused'
    /\ shown' \subseteq whole \cup hurried'
    /\ UNCHANGED <<accepted, pieces, whole>>

Next ==
    \/ \E m \in Media : Accept(m) \/ Complete(m) \/ \E i \in Piece : TakePiece(m, i)
    \/ Settle

Spec == Init /\ [][Next]_deliveryVars
-----------------------------------------------------------------------------
\* What that comes to: no piece of a file comes unasked, a whole file has every piece, what
\* is shown as delivered is whole or was at least accepted and hurried, and a copy goes
\* only for a whole file or with an excuse.
Promise ==
    /\ \A m \in Media : pieces[m] \subseteq Piece /\ (pieces[m] # {} => m \in accepted)
    /\ \A m \in whole : pieces[m] = Piece
    /\ shown \subseteq whole \cup hurried
    /\ hurried \subseteq accepted
    /\ Media \ source \subseteq whole \cup excused
=============================================================================
