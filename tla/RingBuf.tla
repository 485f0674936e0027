------------------------------ MODULE RingBuf ------------------------------
(***************************************************************************)
(* The ring buffer of syscall_replayer.c (struct ring_buf) between the     *)
(* reader (main, the only producer) and one replay worker (the only        *)
(* consumer), with the loop of dispatcher_thread that empties it.          *)
(*                                                                         *)
(* A function body under rb->lock is one action, up to a pthread_cond_wait *)
(* which gives the lock up: a waiter ("waiting") is moved to "woken" by a  *)
(* signal or a broadcast and then evaluates its loop condition again.      *)
(* Record number n is the n-th record the reader enqueues.                 *)
(***************************************************************************)
EXTENDS Integers, Sequences

CONSTANTS
    Size,       \* RING_BUF_SIZE
    Word,       \* 2^32: the wrap of the uint32_t subtraction in ring_buf_count
    MaxItems    \* bound on the records the reader enqueues

\* One slot stays free to tell a full ring from an empty one; the count is
\* right only because the ring size divides the word.
ASSUME SizeAssumption == Size \in Nat /\ Size > 1
ASSUME WordAssumption == \E k \in 1 .. Word : Word = k * Size
ASSUME MaxItemsAssumption == MaxItems \in Nat

VARIABLES
    entries,    \* the slots; 0 is a slot never written
    head,       \* next slot to write
    tail,       \* next slot to read
    shutdown,   \* set once by ring_buf_shutdown
    producer,   \* where the reader is in ring_buf_enqueue
    consumer,   \* where the worker is in its loop
    sent,       \* records enqueued so far
    received    \* records dequeued so far, as the worker saw them

ringVars == <<entries, head, tail, shutdown, producer, consumer, sent, received>>

RingSlots == 0 .. Size - 1

RingInit ==
    /\ entries = [i \in RingSlots |-> 0]
    /\ head = 0 /\ tail = 0
    /\ shutdown = FALSE
    /\ producer = "idle" /\ consumer = "idle"
    /\ sent = 0 /\ received = <<>>

----------------------------------------------------------------------------
RingEmpty == head = tail

RingFull == (head + 1) % Size = tail

\* ring_buf_count: an unsigned difference, reduced modulo the ring size.
RingCount == ((Word + head - tail) % Word) % Size

Signalled(place) == IF place = "waiting" THEN "woken" ELSE place

\* ring_buf_enqueue finds the ring full and waits for not_full.
EnqueueWait ==
    /\ producer \in {"idle", "woken"}
    /\ sent < MaxItems
    /\ RingFull /\ ~shutdown
    /\ producer' = "waiting"
    /\ UNCHANGED <<entries, head, tail, shutdown, consumer, sent, received>>

\* As Enqueue, without signalling not_empty.
EnqueueSilent ==
    /\ producer \in {"idle", "woken"}
    /\ sent < MaxItems
    /\ ~RingFull /\ ~shutdown
    /\ entries' = [entries EXCEPT ![head] = sent + 1]
    /\ head' = (head + 1) % Size
    /\ sent' = sent + 1
    /\ producer' = "idle"
    /\ UNCHANGED <<tail, shutdown, consumer, received>>

\* ring_buf_enqueue stores the record and signals not_empty.
Enqueue ==
    /\ producer \in {"idle", "woken"}
    /\ sent < MaxItems
    /\ ~RingFull /\ ~shutdown
    /\ entries' = [entries EXCEPT ![head] = sent + 1]
    /\ head' = (head + 1) % Size
    /\ sent' = sent + 1
    /\ producer' = "idle"
    /\ consumer' = Signalled(consumer)
    /\ UNCHANGED <<tail, shutdown, received>>

\* ring_buf_enqueue on a ring that was shut down returns -1.
EnqueueRefused ==
    /\ producer \in {"idle", "woken"}
    /\ shutdown
    /\ producer' = "idle"
    /\ UNCHANGED <<entries, head, tail, shutdown, consumer, sent, received>>

\* ring_buf_shutdown wakes everybody.
Shutdown ==
    /\ ~shutdown
    /\ shutdown' = TRUE
    /\ producer' = Signalled(producer)
    /\ consumer' = Signalled(consumer)
    /\ UNCHANGED <<entries, head, tail, sent, received>>

\* ring_buf_dequeue finds the ring empty and waits for not_empty.
DequeueWait ==
    /\ consumer \in {"idle", "woken"}
    /\ RingEmpty /\ ~shutdown
    /\ consumer' = "waiting"
    /\ UNCHANGED <<entries, head, tail, shutdown, producer, sent, received>>

\* ring_buf_dequeue takes the oldest record, shut down or not.
Dequeue ==
    /\ consumer \in {"idle", "woken"}
    /\ ~RingEmpty
    /\ received' = Append(received, entries[tail])
    /\ tail' = (tail + 1) % Size
    /\ consumer' = "idle"
    /\ producer' = Signalled(producer)
    /\ UNCHANGED <<entries, head, shutdown, sent>>

\* As DequeueEnd, whatever is still in the ring.
DequeueEndEarly ==
    /\ consumer \in {"idle", "woken"}
    /\ shutdown
    /\ consumer' = "ended"
    /\ UNCHANGED <<entries, head, tail, shutdown, producer, sent, received>>

\* ring_buf_dequeue returns -1: shut down and drained.
DequeueEnd ==
    /\ consumer \in {"idle", "woken"}
    /\ RingEmpty /\ shutdown
    /\ consumer' = "ended"
    /\ UNCHANGED <<entries, head, tail, shutdown, producer, sent, received>>

\* dispatcher_thread asks for the count in a second critical section and
\* leaves its loop if it is 0; otherwise it calls ring_buf_dequeue again.
LeaveLoop ==
    /\ consumer = "ended"
    /\ consumer' = IF RingCount = 0 THEN "gone" ELSE "idle"
    /\ UNCHANGED <<entries, head, tail, shutdown, producer, sent, received>>

\* The worker is gone and the reader is not inside a call.
RingFinished == consumer = "gone" /\ producer = "idle" /\ UNCHANGED ringVars

Produce == EnqueueWait \/ Enqueue \/ EnqueueRefused
Consume == DequeueWait \/ Dequeue \/ DequeueEnd \/ LeaveLoop

RingNext == Produce \/ Shutdown \/ Consume \/ RingFinished

RingSpec == RingInit /\ [][RingNext]_ringVars

\* Fairness: the worker's thread is scheduled.  Nothing is assumed of the
\* reader, which may stop enqueuing or never shut the ring down.
RingFairSpec == RingSpec /\ WF_ringVars(Consume)

----------------------------------------------------------------------------
\* Number of records in the ring, by the history of both sides.
Stored == sent - Len(received)

\* Type invariant.
RingTypeOK ==
    /\ entries \in [RingSlots -> 0 .. MaxItems]
    /\ head \in RingSlots /\ tail \in RingSlots
    /\ shutdown \in BOOLEAN
    /\ producer \in {"idle", "waiting", "woken"}
    /\ consumer \in {"idle", "waiting", "woken", "ended", "gone"}
    /\ sent \in 0 .. MaxItems
    /\ received \in Seq(0 .. MaxItems)

\* ring_buf_count returns the number of records in the ring, also when the
\* write index has wrapped below the read index.
CountIsStored == RingCount = Stored

\* The worker sees the reader's records in order, each one once.
InOrder == \A i \in 1 .. Len(received) : received[i] = i

\* Neither side sleeps on a condition that already holds: the worker only
\* while the ring is empty, the reader only while it is full, and nobody
\* after the shutdown.
NoLostSignal ==
    /\ consumer = "waiting" => RingEmpty /\ ~shutdown
    /\ producer = "waiting" => RingFull /\ ~shutdown

\* "Shutdown and queue empty": a worker leaves its loop only when it has
\* every record that was accepted, and none is accepted afterwards.
DrainedAtExit == consumer \in {"ended", "gone"} => Len(received) = sent /\ shutdown

(***************************************************************************)
(* The inductive invariant: the write index is the read index plus the     *)
(* number of records stored, around the ring, and the slots from the read  *)
(* index on hold the records that follow the last one received.            *)
(***************************************************************************)
Wrap(i) == IF i < Size THEN i ELSE i - Size

RingShape ==
    /\ Stored \in 0 .. Size - 1
    /\ head = Wrap(tail + Stored)
    /\ \A i \in 0 .. Stored - 1 :
         entries[Wrap(tail + i)] = Len(received) + i + 1

\* What every step preserves.
RingInv == RingTypeOK /\ RingShape /\ InOrder /\ NoLostSignal /\ DrainedAtExit

----------------------------------------------------------------------------
\* The ring implements the bounded queue that is promised to both sides.
Contents == [i \in 1 .. RingCount |-> entries[(tail + i - 1) % Size]]

Queue == INSTANCE BoundedQueue WITH
    Capacity <- Size - 1, contents <- Contents, closed <- shutdown,
    ended <- consumer \in {"ended", "gone"}

\* Every behaviour of the ring is one of the abstract queue: an enqueue is
\* a Put, a dequeue a Take, every wait and wake-up a stutter.
ImplementsQueue == Queue!QSpec

\* The safety part of ImplementsQueue.
BehavesAsQueue == Queue!QSafe
============================================================================
