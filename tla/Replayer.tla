------------------------------ MODULE Replayer ------------------------------
(***************************************************************************)
(* The thread-aware replayer as a whole: main() of syscall_replayer.c      *)
(* reads the capture and routes each record to the worker of its process,  *)
(* which it creates on first sight; each worker takes its records in order *)
(* from a bounded queue, meets the others at the barrier before an I/O     *)
(* call, replays, and counts the outcome.  At the end main() closes the    *)
(* queues, joins the workers and adds their counters up.                   *)
(*                                                                         *)
(* The queue is what RingBuf is shown to implement (BoundedQueue); the     *)
(* barrier is FlexBarrier, composed here.  Its member count comes from a   *)
(* pre-pass over the text of the capture, so it includes a process whose   *)
(* records are all filtered out or malformed and that never gets a worker. *)
(***************************************************************************)
EXTENDS Integers, Sequences, FiniteSets, SequencesExt

CONSTANTS
    Pids,        \* captured processes (never 0), in an order main() meets them
    Traces,      \* the captures considered: sequences of Records
    Limits,      \* values of MAX_WORKERS considered
    Capacity,    \* records a queue holds: RING_BUF_SIZE - 1
    MaxRounds    \* bound on barrier releases; never reached

Kinds == {"io", "plain", "exempt", "filtered", "malformed"}
Records == [pid : Pids, kind : Kinds]

ASSUME ReplayerAssumption ==
    /\ Pids \subseteq Nat \ {0} /\ IsFiniteSet(Pids)
    /\ Traces \subseteq Seq(Records)
    /\ Limits \subseteq Nat \ {0} /\ Capacity \in Nat \ {0}
    /\ MaxRounds \in Nat

Keys == Pids \cup {0}
Outcomes == {"skipped", "failed", "mismatch", "ok"}

VARIABLES
    trace,      \* the capture
    serial,     \* --serial: one worker for all processes
    max_workers,  \* MAX_WORKERS, a constant of the build
    pos,        \* index of the record main() reads
    errors,     \* records that did not parse
    pool,       \* keys of the workers, in slot order
    queue,      \* key -> indices of records, oldest first
    closed,     \* keys whose queue is shut down
    pc,         \* where a worker is
    total,      \* key -> syscalls_total
    count,      \* key -> outcome -> records
    played,     \* key -> indices of the records replayed, in order
    joined,     \* slots joined so far
    totals,     \* what main() has added up from the joined workers
    n_active, n_waiting, generation, my_gen, at    \* the barrier's

B == INSTANCE FlexBarrier WITH Threads <- Keys

barrier == <<n_active, n_waiting, generation, my_gen, at>>
workers == <<queue, pc, total, count, played>>
input == <<trace, serial, max_workers>>
ending == <<joined, totals>>
vars == <<input, pos, errors, pool, workers, closed, ending, barrier>>

\* The pre-pass: the first max_workers processes that occur in the text.
SeenPids(t) ==
    {p \in Pids : \E i \in DOMAIN t :
        /\ t[i].pid = p
        /\ Cardinality({t[j].pid : j \in 1 .. i - 1} \ {p}) < max_workers}

BarrierInited == ~serial /\ Cardinality(SeenPids(trace)) >= 2

Init ==
    /\ trace \in Traces /\ serial \in BOOLEAN /\ max_workers \in Limits
    /\ pos = 1 /\ errors = 0 /\ pool = <<>>
    /\ queue = [k \in Keys |-> <<>>]
    /\ closed = {}
    /\ pc = [k \in Keys |-> "none"]
    /\ total = [k \in Keys |-> 0]
    /\ count = [k \in Keys |-> [o \in Outcomes |-> 0]]
    /\ played = [k \in Keys |-> <<>>]
    /\ joined = 0 /\ totals = [total |-> 0, of |-> [o \in Outcomes |-> 0]]
    /\ n_active = IF BarrierInited THEN Cardinality(SeenPids(trace)) ELSE 0
    /\ n_waiting = 0 /\ generation = 0
    /\ my_gen = [k \in Keys |-> 0]
    /\ at = [k \in Keys |-> "away"]

----------------------------------------------------------------------------
(* main(): the reader *)

Reading == pos <= Len(trace)
Key(p) == IF serial THEN 0 ELSE p

\* As Owner, sharing the records out once the pool is full.
OwnerInTurn(p) == IF Len(pool) < max_workers
                  THEN Key(p) ELSE pool[(pos % max_workers) + 1]

\* As Owner, with a pool that is full one worker early.
OwnerOneShort(p) == IF Contains(pool, Key(p)) \/ Len(pool) = 0 \/ Len(pool) < max_workers - 1
                    THEN Key(p) ELSE pool[1]

\* worker_pool_get: the worker of the key, or slot 0 when the pool is full.
Owner(p) == IF Contains(pool, Key(p)) \/ Len(pool) < max_workers
            THEN Key(p) ELSE pool[1]

\* A record that does not parse is counted; one with the shape of a
\* sys_exit tracepoint is dropped.
Discard ==
    /\ Reading /\ trace[pos].kind \in {"filtered", "malformed"}
    /\ errors' = errors + (IF trace[pos].kind = "malformed" THEN 1 ELSE 0)
    /\ pos' = pos + 1
    /\ UNCHANGED <<input, pool, workers, closed, ending, barrier>>

\* worker_pool_get on first sight: create the worker and start its thread.
CreateWorker ==
    /\ Reading /\ trace[pos].kind \notin {"filtered", "malformed"}
    /\ LET k == Owner(trace[pos].pid) IN
         /\ ~Contains(pool, k)
         /\ pool' = Append(pool, k)
         /\ pc' = [pc EXCEPT ![k] = "take"]
    /\ UNCHANGED <<input, pos, errors, queue, total, count, played, closed,
                   ending, barrier>>

\* ring_buf_enqueue: main() waits while the queue is full.
Enqueue ==
    /\ Reading /\ trace[pos].kind \notin {"filtered", "malformed"}
    /\ LET k == Owner(trace[pos].pid) IN
         /\ Contains(pool, k)
         /\ Len(queue[k]) < Capacity
         /\ queue' = [queue EXCEPT ![k] = Append(@, pos)]
    /\ pos' = pos + 1
    /\ UNCHANGED <<input, errors, pool, pc, total, count, played, closed,
                   ending, barrier>>

\* worker_pool_finish, first loop: shut the queues down, in slot order.
Shutdown ==
    /\ ~Reading
    /\ \E i \in 1 .. Len(pool) :
         /\ closed = {pool[j] : j \in 1 .. i - 1}
         /\ closed' = closed \cup {pool[i]}
    /\ UNCHANGED <<input, pos, errors, pool, workers, ending, barrier>>

\* worker_pool_finish, second loop: join the threads in slot order and add
\* up their counters.
Join ==
    /\ ~Reading /\ Cardinality(closed) = Len(pool) /\ joined < Len(pool)
    /\ LET k == pool[joined + 1] IN
         /\ pc[k] = "finished"
         /\ totals' = [total |-> totals.total + total[k],
                       of |-> [o \in Outcomes |-> totals.of[o] + count[k][o]]]
    /\ joined' = joined + 1
    /\ UNCHANGED <<input, pos, errors, pool, workers, closed, barrier>>

AllDone == ~Reading /\ Cardinality(closed) = Len(pool) /\ joined = Len(pool)

\* The replay is complete; the totals are printed.
Complete == AllDone /\ UNCHANGED vars

----------------------------------------------------------------------------
(* dispatcher_thread(): a worker *)

Current(k) == trace[Head(queue[k])]

\* ring_buf_dequeue and syscalls_total.
Take(k) ==
    /\ pc[k] = "take" /\ queue[k] # <<>>
    /\ total' = [total EXCEPT ![k] = @ + 1]
    /\ played' = [played EXCEPT ![k] = Append(@, Head(queue[k]))]
    /\ queue' = [queue EXCEPT ![k] = Tail(@)]
    /\ pc' = [pc EXCEPT ![k] =
                IF BarrierInited /\ Current(k).kind = "io" THEN "arrive" ELSE "dispatch"]
    /\ UNCHANGED <<input, pos, errors, pool, count, closed, ending, barrier>>

\* flex_barrier_wait: pass, release the round, or sleep.
Arrive(k) ==
    /\ pc[k] = "arrive"
    /\ B!Wait(k)
    /\ pc' = [pc EXCEPT ![k] = IF at'[k] = "away" THEN "dispatch" ELSE "waiting"]
    /\ UNCHANGED <<input, pos, errors, pool, queue, total, count, played,
                   closed, ending>>

\* The 10 ms deadline of a waiting worker passes.
Expire(k) ==
    /\ B!Expire(k)
    /\ UNCHANGED <<input, pos, errors, pool, workers, closed, ending>>

\* flex_barrier_wait returns.
Return(k) ==
    /\ pc[k] = "waiting"
    /\ B!Return(k)
    /\ pc' = [pc EXCEPT ![k] = IF at'[k] = "away" THEN "dispatch" ELSE "waiting"]
    /\ UNCHANGED <<input, pos, errors, pool, queue, total, count, played,
                   closed, ending>>

\* dispatch_one and the classification of its result: skipped (-2), failed
\* (-1), or compared with the captured result.  Open and mmap records are
\* exempt from the comparison.
Dispatch(k, o) ==
    /\ pc[k] = "dispatch"
    /\ trace[Last(played[k])].kind = "exempt" => o # "mismatch"
    /\ count' = [count EXCEPT ![k][o] = @ + 1]
    /\ pc' = [pc EXCEPT ![k] = "take"]
    /\ UNCHANGED <<input, pos, errors, pool, queue, total, played, closed,
                   ending, barrier>>

\* Shutdown and queue empty: leave the barrier and end the thread.
Leave(k) ==
    /\ pc[k] = "take" /\ queue[k] = <<>> /\ k \in closed
    /\ IF BarrierInited THEN B!Unregister(k) ELSE UNCHANGED barrier
    /\ pc' = [pc EXCEPT ![k] = "finished"]
    /\ UNCHANGED <<input, pos, errors, pool, queue, total, count, played,
                   closed, ending>>

Main == Discard \/ CreateWorker \/ Enqueue \/ Shutdown \/ Join

Worker(k) ==
    \/ Take(k) \/ Arrive(k) \/ Expire(k) \/ Return(k)
    \/ \E o \in Outcomes : Dispatch(k, o)
    \/ Leave(k)

Next == Main \/ (\E k \in Keys : Worker(k)) \/ Complete

(***************************************************************************)
(* Fairness: main() and every started thread keep running, and system      *)
(* calls and deadlines come to an end.                                     *)
(***************************************************************************)
Spec == Init /\ [][Next]_vars /\ WF_vars(Main) /\ \A k \in Keys : WF_vars(Worker(k))

----------------------------------------------------------------------------
Replayable == {i \in DOMAIN trace : trace[i].kind \notin {"filtered", "malformed"}}
InHand(k) == pc[k] \in {"arrive", "waiting", "dispatch"}
Finished == {k \in Keys : pc[k] = "finished"}
Alive == {k \in ToSet(pool) : pc[k] # "finished"}
AddUp(counts) == counts["skipped"] + counts["failed"] + counts["mismatch"] + counts["ok"]

\* Type invariant.
TypeOK ==
    /\ trace \in Traces /\ serial \in BOOLEAN /\ max_workers \in Limits
    /\ pos \in 1 .. Len(trace) + 1 /\ errors \in Nat
    /\ pool \in Seq(Keys) /\ Len(pool) <= max_workers /\ IsInjective(pool)
    /\ queue \in [Keys -> Seq(Replayable)] /\ played \in [Keys -> Seq(Replayable)]
    /\ \A k \in Keys : Len(queue[k]) <= Capacity
    /\ closed \subseteq ToSet(pool) /\ joined \in 0 .. Len(pool)
    /\ pc \in [Keys -> {"none", "take", "arrive", "waiting", "dispatch", "finished"}]
    /\ total \in [Keys -> Nat] /\ count \in [Keys -> [Outcomes -> Nat]]
    /\ totals \in [total : Nat, of : [Outcomes -> Nat]]
    /\ n_active \in 0 .. max_workers

\* Every replayable record is accounted for exactly once: it is unread, in
\* the queue of one worker, or taken by one worker; a worker's outcome
\* counters add up to the records it has finished; and when main() has
\* joined the workers the totals it prints cover the capture ("so we never
\* drop records").
EveryRecordOnce ==
    /\ \A i \in Replayable : i < pos =>
         Cardinality({k \in Keys : Contains(queue[k], i) \/ Contains(played[k], i)}) = 1
    /\ \A k \in Keys :
         /\ IsInjective(played[k] \o queue[k])
         /\ total[k] = Len(played[k])
         /\ AddUp(count[k]) + (IF InHand(k) THEN 1 ELSE 0) = total[k]
    /\ AllDone => /\ totals.total = Cardinality(Replayable)
                  /\ AddUp(totals.of) = totals.total

\* "Records for the same pid stay in timestamp order": a record is taken
\* only after the earlier records of its process are finished, though the
\* process may share its worker with others.
PerProcessOrder ==
    \A i, j \in Replayable : i < j /\ trace[i].pid = trace[j].pid =>
        \A k \in Keys : Contains(played[k], j) =>
            \E w \in Keys : Contains(played[w], i) /\ ~(InHand(w) /\ Last(played[w]) = i)

\* A round of the barrier is released only with every running worker at
\* the barrier, although workers are created while rounds are under way.
RoundsAreComplete ==
    [][generation' # generation =>
         \E k \in Alive : \A w \in Alive \ {k} : w \in B!Unreleased]_vars

\* The barrier's member count, fixed by the pre-pass before any worker is
\* there, is of "threads still alive": never of fewer than the workers that
\* run, so that a round waits for all of them, and once the capture is read
\* of exactly these, unless some process has no record that is replayed.
MembersAreWorkers ==
    LET captured == {trace[i].pid : i \in DOMAIN trace} IN
    BarrierInited =>
      /\ Cardinality(Alive) <= n_active
      /\ ~Reading /\ captured = {trace[i].pid : i \in Replayable} =>
           n_active = Cardinality(Alive)

(***************************************************************************)
(* The inductive invariant of the replay.                                  *)
(***************************************************************************)

\* The records routed to a worker so far, in order.
Routed(k) == played[k] \o queue[k]

\* main() has routed every replayable record before pos, in order, to the
\* worker that still is the owner of the record's process.
RoutedToOwner ==
    /\ \A k \in Keys : \A m \in DOMAIN Routed(k) :
         /\ Routed(k)[m] < pos
         /\ \A n \in DOMAIN Routed(k) : m < n => Routed(k)[m] < Routed(k)[n]
         /\ k \in ToSet(pool) /\ Owner(trace[Routed(k)[m]].pid) = k
    /\ \A i \in Replayable : i < pos => \E k \in Keys : Contains(Routed(k), i)

\* A worker's counters are of the records it has taken.
CountersAddUp ==
    \A k \in Keys :
        /\ total[k] = Len(played[k])
        /\ AddUp(count[k]) + (IF InHand(k) THEN 1 ELSE 0) = total[k]

\* Threads run for the workers of the pool, end with an empty queue that
\* was shut down after the reading, and are joined after they ended; the
\* totals are those of the joined workers.
JoinedRecords == UNION {ToSet(played[pool[i]]) : i \in 1 .. joined}

EndsInTurn ==
    /\ \A k \in Keys : pc[k] = "none" <=> k \notin ToSet(pool)
    /\ closed # {} => ~Reading
    /\ \A k \in Finished : queue[k] = <<>> /\ k \in closed
    /\ \A i \in 1 .. joined : pool[i] \in Finished
    /\ totals.total = Cardinality(JoinedRecords) /\ AddUp(totals.of) = totals.total

\* The barrier's state fits the workers': a worker that waits is inside the
\* barrier, one that has left it is finished, and no more are counted as
\* waiting than wait for the round.
BarrierPart ==
    /\ n_waiting \in Int /\ generation \in Nat
    /\ my_gen \in [Keys -> Nat] /\ at \in [Keys -> B!BarrierPlaces]
    /\ \A k \in Keys :
         /\ my_gen[k] <= generation
         /\ at[k] \in {"asleep", "expired", "woken"} <=> pc[k] = "waiting"
         /\ at[k] = "gone" => pc[k] = "finished"
    /\ n_waiting <= Cardinality(B!Unreleased)

\* The members are those counted in the pre-pass less the finished, and the
\* workers are of processes the pre-pass may have counted.
BarrierFits ==
    /\ BarrierPart
    /\ ~serial => \A k \in ToSet(pool) : \E i \in Replayable : trace[i].pid = k
    /\ BarrierInited => n_active = Cardinality(SeenPids(trace)) - Cardinality(Finished)
    /\ ~BarrierInited => /\ n_active = 0 /\ generation = 0
                         /\ \A k \in Keys : pc[k] \notin {"arrive", "waiting"}

ReplayInv == TypeOK /\ RoutedToOwner /\ CountersAddUp /\ EndsInTurn /\ BarrierFits

\* The replay ends: no worker waits for ever for one that main(), blocked
\* on a full queue, has not created yet, nor for one that will never exist.
ReplayEnds == <>AllDone

\* Every record is replayed once, after the earlier ones of its process
\* (main, dispatcher_thread); the invariant this rests on is kept.
RecordsOnceInOrder == ReplayInv /\ EveryRecordOnce /\ PerProcessOrder

============================================================================
