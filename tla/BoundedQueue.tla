---------------------------- MODULE BoundedQueue ----------------------------
(***************************************************************************)
(* What a replay worker's queue promises to the reader and to the worker:  *)
(* a bounded first-in first-out channel that the reader closes at the end  *)
(* of the capture, and whose consumer is told so only when it is empty.    *)
(* RingBuf implements it; Replayer composes it with the workers.           *)
(***************************************************************************)
EXTENDS Integers, Sequences

CONSTANTS
    Capacity,   \* number of records the queue holds
    MaxItems    \* bound on the records put in

VARIABLES
    contents,   \* the records in the queue, oldest first
    closed,     \* the reader has closed the queue
    sent,       \* number of records put in so far; record n is the number n
    ended       \* the consumer was told that no record is left

qvars == <<contents, closed, sent, ended>>

QInit == contents = <<>> /\ closed = FALSE /\ sent = 0 /\ ended = FALSE

Put ==
    /\ ~closed /\ sent < MaxItems
    /\ Len(contents) < Capacity
    /\ sent' = sent + 1
    /\ contents' = Append(contents, sent + 1)
    /\ UNCHANGED <<closed, ended>>

Take ==
    /\ contents # <<>> /\ ~ended
    /\ contents' = Tail(contents)
    /\ UNCHANGED <<closed, sent, ended>>

Close == closed' = TRUE /\ UNCHANGED <<contents, sent, ended>>

End ==
    /\ closed /\ contents = <<>>
    /\ ended' = TRUE
    /\ UNCHANGED <<contents, closed, sent>>

QNext == Put \/ Take \/ Close \/ End

QSafe == QInit /\ [][QNext]_qvars

QSpec == QSafe /\ WF_qvars(Take) /\ WF_qvars(End)
============================================================================
