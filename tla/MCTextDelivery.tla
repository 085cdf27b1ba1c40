--------------------------- MODULE MCTextDelivery ---------------------------
(***************************************************************************)
(* Small instances of TextDelivery for TLC.                                *)
(***************************************************************************)
EXTENDS TextDelivery

\* Any TTL for any message.
AnyTtl == [Text -> Mode]

\* The sender is restarted with messages whose deadline no reading starts, and both users
\* share readings or neither does: whole behaviours are left out, none is cut off.
PlainRestarts ==
    "senderRestart" \in events =>
        sharesS = sharesR /\ \A t \in Text : ttlMode[t] \in {"", "hard"}
=============================================================================
