--------------------------- MODULE MCFileTransfer ---------------------------
(***************************************************************************)
(* Small instances of FileTransfer for TLC.                                *)
(***************************************************************************)
EXTENDS FileTransfer

CONSTANT MaxInFlight    \* bound: messages in flight, or in the hands of a handler that has to
                        \* look twice, in a state TLC goes on from

FewInFlight == Cardinality(net) + Cardinality(inHand) + Cardinality(unfound) <= MaxInFlight
=============================================================================
