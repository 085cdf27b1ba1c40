---------------------------- MODULE PendingQueue ----------------------------
(***************************************************************************)
(* The offline queue of addressed messages and its file (node/node.go,     *)
(* loadPendingQueue to removePendingByRef).  The queue is written from a   *)
(* copy, outside pendingMu: five seconds after a message was added, and at *)
(* once when a confirmation took one out, so that writes overlap.          *)
(* The order of the queue is abstracted: messages travel independently.    *)
(* So is a write that is cut off in the middle: a file is written at once. *)
(***************************************************************************)
EXTENDS Naturals

CONSTANT Text           \* the messages, by msgID

VARIABLES
    pending,        \* n.pendingMessages
    saveScheduled,  \* n.savePendingScheduled
    savesDue,       \* the savePendingQueues that have yet to copy the queue
    writers,        \* the copies that running savePendingQueues have yet to write
    queueFile       \* the file of the queue

\* History, read by no action of the code.
VARIABLE
    overlapped      \* since the start, a copy was taken while another was being written

file == <<saveScheduled, savesDue, writers, queueFile, overlapped>>
queueVars == <<pending, file>>

QueueTypeOK ==
    /\ pending \subseteq Text /\ queueFile \subseteq Text
    /\ saveScheduled \in BOOLEAN /\ savesDue \in Nat /\ writers \subseteq SUBSET Text
    /\ overlapped \in BOOLEAN

QueueInit ==
    /\ pending = {} /\ queueFile = {} /\ writers = {}
    /\ saveScheduled = FALSE /\ savesDue = 0 /\ overlapped = FALSE

\* Mutant of Enqueue: no save is scheduled.
EnqueueOnly(t) ==
    /\ pending' = pending \cup {t}
    /\ UNCHANGED file

\* enqueuePending: the message is added, and a save is scheduled unless one is.
Enqueue(t) ==
    /\ pending' = pending \cup {t}
    /\ saveScheduled' = TRUE
    /\ UNCHANGED <<savesDue, writers, queueFile, overlapped>>

\* The five seconds of scheduleSavePendingQueue are over: the flag is lowered, and
\* savePendingQueue is called after that.
StartScheduledSave ==
    /\ saveScheduled
    /\ saveScheduled' = FALSE
    /\ savesDue' = savesDue + 1
    /\ UNCHANGED <<pending, writers, queueFile, overlapped>>

\* removePendingByRef: savePendingQueue is called after the unlock, if one was there.
RemoveRef(t) ==
    /\ pending' = pending \ {t}
    /\ savesDue' = IF t \in pending THEN savesDue + 1 ELSE savesDue
    /\ UNCHANGED <<saveScheduled, writers, queueFile, overlapped>>

\* savePendingQueue copies the queue under pendingMu ...
CopyQueue ==
    /\ savesDue > 0
    /\ savesDue' = savesDue - 1
    /\ writers' = writers \cup {pending}
    /\ overlapped' = (overlapped \/ writers # {})
    /\ UNCHANGED <<pending, saveScheduled, queueFile>>

\* ... and writes its copy after the unlock, whatever else is written meanwhile.
WriteQueueFile(copy) ==
    /\ copy \in writers
    /\ queueFile' = copy
    /\ writers' = writers \ {copy}
    /\ UNCHANGED <<pending, saveScheduled, savesDue, overlapped>>

\* A new process has no saves.
StartWithoutSaves ==
    /\ saveScheduled' = FALSE /\ savesDue' = 0 /\ writers' = {}
    /\ overlapped' = FALSE

\* loadPendingQueue after the process was killed.
LoadQueue ==
    /\ pending' = queueFile
    /\ StartWithoutSaves
    /\ UNCHANGED queueFile

\* Stop writes the queue, but a save that is still running may write after it; the next
\* start loads what the file holds.
StopAndLoadQueue ==
    /\ queueFile' \in writers \cup {pending}
    /\ pending' = queueFile'
    /\ StartWithoutSaves

QueueNext ==
    \/ \E t \in Text : Enqueue(t) \/ RemoveRef(t)
    \/ StartScheduledSave \/ CopyQueue
    \/ \E copy \in writers : WriteQueueFile(copy)
    \/ LoadQueue
    \/ StopAndLoadQueue

QueueSpec == QueueInit /\ [][QueueNext]_queueVars
-----------------------------------------------------------------------------
\* A save that has yet to copy the queue, or one that writes a copy with the message.
SaveAhead(t) == saveScheduled \/ savesDue > 0 \/ \E copy \in writers : t \in copy

\* The throttle of enqueuePending never leaves the file behind: a message that is queued
\* and not in the file has a save ahead, unless two saves have run at once, of which the
\* one with the older copy may have written last.
QueuedIsSavedSoon == \A t \in pending \ queueFile : SaveAhead(t) \/ overlapped

\* The comment on scheduleSavePendingQueue, "deferred write of the queue": what is queued is
\* written sooner or later, always.  It does not hold when a save that copied the queue
\* before writes after the one that was scheduled (README, section 8).
QueueFileKeepsUp == \A t \in pending \ queueFile : SaveAhead(t)
=============================================================================
