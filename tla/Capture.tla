------------------------------ MODULE Capture ------------------------------
(***************************************************************************)
(* The capture of object operations: the Recorder of capture_events.py,    *)
(* the wrapper of a raw_block core that calls it (lmcache_adapter.py) and  *)
(* the hook that installs both in a serving process.                       *)
(*                                                                         *)
(* Threads of the engine call put_many, load_many_into and delete_many on  *)
(* one wrapped core; a writer thread drains the recorder's queue to a      *)
(* file, flushing each line; the process closes the recorder when it       *)
(* exits.  A process that is killed leaves the file as it is, so what holds *)
(* of the file in every state holds after a kill.  normalize_capture reads *)
(* the file.                                                               *)
(*                                                                         *)
(* An event is a record with ev, producer_seq and ts; op_begin and op_end  *)
(* have op_id, and the end record the recorder's health.  A batch has one  *)
(* item, so it expands to one operation of the same name.                  *)
(***************************************************************************)
EXTENDS Workload3

CONSTANTS
    Callers,       \* engine threads
    Keys,          \* raw_block keys
    LiveAtStart,   \* keys indexed when the core was built
    Bytes,         \* key -> payload length
    QueueCapacity, \* capacity
    MaxCalls,      \* bound on the calls, as long as none overlap
    MaxOverlapping,\* bound on the calls once two have overlapped
    Unwritable,    \* numbers of the records that may turn out unwritable
    FailingCalls        \* bound: the calls that the core may fail although it has what they need

ASSUME CaptureAssumption ==
    /\ LiveAtStart \subseteq Keys /\ Bytes \in [Keys -> Nat \ {0}]
    /\ QueueCapacity \in Nat \ {0} /\ MaxCalls \in Nat /\ MaxOverlapping \in Nat /\ Unwritable \subseteq Nat

----------------------------------------------------------------------------
(* normalize_capture: what a file of kvio.capture-events.v1 becomes.       *)

OfKind(events, kind) == SelectSeq(events, LAMBDA e : e.ev = kind)
OpIds(events, kind) == {e.op_id : e \in ToSet(OfKind(events, kind))}

\* The reasons for which events cannot be read as a capture at all.
Malformed(events) ==
    \/ events = <<>> \/ events[1].ev # "start"
    \/ \E kind \in {"op_begin", "op_end"} :
         Len(OfKind(events, kind)) # Cardinality(OpIds(events, kind))

\* Neighbours in the sorted numbers that do not follow each other; the start
\* event's own number is not among them.
SequenceGaps(events) ==
    LET seqs == {e.producer_seq : e \in ToSet(Tail(events))}
    IN Cardinality({a \in seqs : (\E b \in seqs : b > a) /\ a + 1 \notin seqs})

\* The last end marker's health, or none.
EndIn(events) == \E k \in DOMAIN events : events[k].ev = "end"
Health(events) ==
    IF EndIn(events) THEN events[Max({k \in DOMAIN events : events[k].ev = "end"})].health ELSE [dropped |-> 0]

\* As Notes, pairing begins and ends only.
NotesOfPairs(events) ==
    LET begins == OpIds(events, "op_begin")
        ends == OpIds(events, "op_end")
    IN (IF ~EndIn(events) THEN {"no end marker"} ELSE {})
         \cup (IF ends # begins THEN {"unmatched operations"} ELSE {})

\* What makes a capture partial.
Notes(events) ==
    LET begins == OpIds(events, "op_begin")
        ends == OpIds(events, "op_end")
    IN (IF ~EndIn(events) THEN {"no end marker"} ELSE {})
         \cup (IF ends \ begins # {} THEN {"ends without a begin"} ELSE {})
         \cup (IF begins \ ends # {} THEN {"operations never ended"} ELSE {})
         \cup (IF Health(events).dropped > 0 THEN {"events dropped"} ELSE {})
         \cup (IF SequenceGaps(events) > 0 THEN {"sequence gaps"} ELSE {})

\* _rep_id: representations are told apart by their size.
WithRepresentation(intent, bytes) ==
    IF bytes \in DOMAIN intent.representations THEN intent
    ELSE add_representation(intent, bytes, bytes)

WithVersion(intent, oid, ver, bytes) ==
    IF Known(intent, oid, ver) THEN intent
    ELSE add_object_version(WithRepresentation(intent, bytes), oid, ver, bytes)

\* The objects live when the capture began, all of version 1.
InitialIntent(events) ==
    LET notes == Notes(events)
        base == new_intent("A1", "declared", "captured",
                           IF notes = {} THEN "complete" ELSE "partial", notes)
        state == OfKind(events, "object_state")
        items == IF state = <<>> THEN <<>> ELSE FlattenSeq([i \in DOMAIN state |-> state[i].live])
        AddLive(intent, item) ==
            [WithVersion(intent, item.object_id, 1, item.bytes) EXCEPT
                !.live = Append(@, [object_id |-> item.object_id, version |-> 1, tier |-> "storage"])]
    IN FoldLeft(AddLive, base, items)

\* As StoreVersion, a new version although the object was there already.
StoreVersionAlways(versions, oid, outcome) == Get(versions, oid, 0) + 1

\* The version a store defines, when the adapter does not say.
StoreVersion(versions, oid, outcome) ==
    IF outcome = "already_present" THEN Get(versions, oid, 1) ELSE Get(versions, oid, 0) + 1

\* One begin event, in the order of begin times: acc holds the intent, the
\* current versions and the last operation on each object.
AddCaptured(events, acc, b) ==
    LET ended == SelectSeq(events, LAMBDA e : e.ev = "op_end" /\ e.op_id = b.op_id)
        outcome == IF ended = <<>> THEN "error" ELSE ended[1].outcome
        ver == IF b.op = "store"
                 THEN StoreVersion(acc.versions, b.object_id, IF ended = <<>> THEN None ELSE outcome)
                 ELSE Get(acc.versions, b.object_id, 1)
        known == IF b.op = "store" \/ b.object_id \notin DOMAIN acc.intent.objects
                   THEN WithVersion(acc.intent, b.object_id, ver, Max({b.requested_bytes, 1})) ELSE acc.intent
        before == IF b.object_id \in DOMAIN acc.last THEN <<acc.last[b.object_id]>> ELSE <<>>
    IN [intent |-> add_operation(known,
                     [op_id |-> b.op_id, op |-> b.op, object_id |-> b.object_id, version |-> ver,
                      stream |-> b.stream,
                      deps |-> b.deps \o SelectSeq(before, LAMBDA d : ~Contains(b.deps, d)),
                      range |-> None, release_ns |-> b.ts, source_outcome |-> outcome,
                      requested_bytes |-> b.requested_bytes]),
        versions |-> IF b.op = "store" THEN Put(acc.versions, b.object_id, ver) ELSE acc.versions,
        last |-> Put(acc.last, b.object_id, b.op_id)]

\* The begin events by time and, at the same time, by number.
ByBegin(events) ==
    SetToSortSeq(ToSet(OfKind(events, "op_begin")),
                 LAMBDA a, b : a.ts < b.ts \/ (a.ts = b.ts /\ a.producer_seq < b.producer_seq))

Normalized(events) ==
    LET initial == InitialIntent(events)
        start == [intent |-> initial,
                  versions |-> [oid \in DOMAIN initial.objects |-> 1], last |-> <<>>]
        done == FoldLeft(LAMBDA acc, b : AddCaptured(events, acc, b), start, ByBegin(events))
    IN [done.intent EXCEPT !.sidecar = TRUE]

\* normalize_capture returns an intent; otherwise it raises.
Normalizes(events) == ~Malformed(events) /\ validate_intent2(Normalized(events))

----------------------------------------------------------------------------
(* The recorder and its callers.                                           *)

VARIABLES
    q,        \* _q: records, and Stop for the None that ends the writer
    file,     \* lines written
    seq,      \* _seq
    dropped, errors,
    opened,   \* _open
    closed,   \* _closed
    closer,   \* where close() is: "no", "health", "flag", "none", "join", "done"
    health,   \* the health close() took
    call,     \* thread -> its call of the wrapper
    last,     \* _last: the last batch begun on the stream, or None
    indexed,  \* keys in the core
    now,      \* the clock
    done,     \* history: finished calls, with whether close() had begun
    overlap   \* history: two calls were under way at once

capVars == <<q, file, seq, dropped, errors, opened, closed, closer, health, call, last, indexed, now, done, overlap>>

Stop == [ev |-> "stop"]
Idle == [at |-> "idle"]

\* Recorder.__init__ has queued the start event; the hook then records the
\* keys the new core has indexed.
CapInit ==
    /\ q = << [ev |-> "start", producer_seq |-> 1, ts |-> 0],
              [ev |-> "object_state", producer_seq |-> 2, ts |-> 0,
               live |-> SetToSeq({[object_id |-> k, bytes |-> Bytes[k]] : k \in LiveAtStart})] >>
    /\ file = <<>> /\ seq = 2 /\ dropped = 0 /\ errors = 0 /\ opened = {}
    /\ closed = FALSE /\ closer = "no" /\ health = [dropped |-> 0]
    /\ call = [c \in Callers |-> Idle] /\ last = None
    /\ indexed = LiveAtStart /\ now = 1 /\ done = <<>> /\ overlap = FALSE

----------------------------------------------------------------------------
(* The recorder.                                                           *)

\* put_nowait: a full queue drops the record and counts it.
Enqueue(record) ==
    IF Len(q) < QueueCapacity
      THEN q' = Append(q, record) /\ UNCHANGED dropped
      ELSE dropped' = dropped + 1 /\ UNCHANGED q

\* The writer takes a record and writes it, or cannot.
Drain ==
    /\ q # <<>> /\ Head(q) # Stop
    /\ q' = Tail(q)
    /\ \/ file' = Append(file, Head(q)) /\ UNCHANGED errors
       \/ Head(q).producer_seq \in Unwritable /\ errors' = errors + 1 /\ UNCHANGED file
    /\ UNCHANGED <<seq, dropped, opened, closed, closer, health, call, last, indexed, now, done, overlap>>

\* close(): the health is taken, then the end record is queued, then the
\* recorder is marked closed, then the writer is told to stop and joined.
CloseHealth ==
    /\ closer = "no"
    /\ closer' = "health"
    /\ health' = [dropped |-> dropped]
    /\ UNCHANGED <<q, file, seq, dropped, errors, opened, closed, call, last, indexed, now, done, overlap>>

CloseEnd ==
    /\ closer = "health"
    /\ closer' = "flag"
    /\ seq' = seq + 1
    /\ Enqueue([ev |-> "end", producer_seq |-> seq + 1, ts |-> now, health |-> health])
    /\ UNCHANGED <<file, errors, opened, closed, health, call, last, indexed, now, done, overlap>>

CloseFlag ==
    /\ closer = "flag"
    /\ closer' = "none"
    /\ closed' = TRUE
    /\ UNCHANGED <<q, file, seq, dropped, errors, opened, health, call, last, indexed, now, done, overlap>>

CloseStop ==
    /\ closer = "none" /\ Len(q) < QueueCapacity
    /\ closer' = "join"
    /\ q' = Append(q, Stop)
    /\ UNCHANGED <<file, seq, dropped, errors, opened, closed, health, call, last, indexed, now, done, overlap>>

\* The writer ends at the None; records queued behind it stay there.
CloseJoin ==
    /\ closer = "join" /\ q # <<>> /\ Head(q) = Stop
    /\ closer' = "done"
    /\ UNCHANGED <<q, file, seq, dropped, errors, opened, closed, health, call, last, indexed, now, done, overlap>>

----------------------------------------------------------------------------
(* A call of the wrapped core, from one of its threads.                    *)

Started == Len(done) + Cardinality({c \in Callers : call[c] # Idle})

\* exists_many, before the call is recorded.
CheckPresence(c) ==
    /\ call[c] = Idle /\ closer = "no"
    /\ overlap' = (overlap \/ \E b \in Callers : call[b] # Idle)
    /\ Started < IF overlap' THEN MaxOverlapping ELSE MaxCalls
    /\ \E op \in OPS, k \in Keys :
         call' = [call EXCEPT ![c] = [at |-> "begin", op |-> op, key |-> k, was |-> k \in indexed,
                                      late |-> closer # "no"]]
    /\ UNCHANGED <<q, file, seq, dropped, errors, opened, closed, closer, health, last, indexed, now, done>>

\* The call begun, and about to record its end.
Begun(r, at, op_id, ts, deps) ==
    [at |-> at, op_id |-> op_id, ts |-> ts, deps |-> deps, op |-> r.op, key |-> r.key, was |-> r.was, late |-> r.late]
Ending(r, outcome, ts, number) ==
    [at |-> "putend", op_id |-> r.op_id, outcome |-> outcome, ts |-> ts, number |-> number,
     op |-> r.op, key |-> r.key, was |-> r.was, late |-> r.late]

\* _begin and begin(): the previous batch on the stream, a number, the time
\* and the look at _closed, with nothing another thread does mattering between.
Begin(c) ==
    /\ call[c].at = "begin"
    /\ seq' = seq + 1 /\ now' = now + 1
    /\ opened' = opened \cup {seq + 1}
    /\ call' = [call EXCEPT ![c] = Begun(@, IF closed THEN "perform" ELSE "put", seq + 1, now,
                                         IF last = None THEN <<>> ELSE <<last>>)]
    /\ UNCHANGED <<q, file, dropped, errors, closed, closer, health, last, indexed, done, overlap>>

PutBegin(c) ==
    /\ call[c].at = "put"
    /\ Enqueue([ev |-> "op_begin", op_id |-> call[c].op_id, producer_seq |-> call[c].op_id,
                ts |-> call[c].ts, op |-> call[c].op, object_id |-> call[c].key, stream |-> "main",
                deps |-> call[c].deps,
                requested_bytes |-> IF call[c].op = "release" THEN 0 ELSE Bytes[call[c].key]])
    /\ call' = [call EXCEPT ![c] = Begun(@, "perform", @.op_id, @.ts, @.deps)]
    /\ UNCHANGED <<file, seq, errors, opened, closed, closer, health, last, indexed, now, done, overlap>>

\* What the core may answer, or "raised" for an exception.  A store of a new
\* key fails for want of a slot, any store on a core that is closed; a load
\* fails also on what is indexed, when the device does; a delete fails on a
\* key that is locked, and succeeds on one that another thread is storing.
Answers(c) ==
    LET k == call[c].key
        storing == \E b \in Callers \ {c} : call[b].at = "perform" /\ call[b].op = "store" /\ call[b].key = k
        able == call[c].op = "store" \/ k \in indexed \/ (call[c].op = "release" /\ storing)
    IN (IF able THEN {"ok"} ELSE {"failed"})
         \cup (IF call[c].op = "store" /\ k \notin indexed THEN {"failed"} ELSE {})
         \cup (IF call[c].op_id \in FailingCalls THEN {"failed", "raised"} ELSE {})

\* What the wrapper makes of the core's answer and of the presence it saw.
Outcome(op, answer, was) ==
    LET ok == answer = "ok" IN
    CASE answer = "raised" -> "error"
      [] op = "store" -> IF ok THEN (IF was THEN "already_present" ELSE "success") ELSE "error"
      [] op = "load" -> IF ok THEN "success" ELSE IF was THEN "error" ELSE "miss"
      [] op = "release" -> IF ok THEN "success" ELSE "miss"

Finished(c, outcome) ==
    Append(done, [op_id |-> call[c].op_id, op |-> call[c].op, key |-> call[c].key,
                  outcome |-> outcome, late |-> call[c].late \/ closer # "no"])

\* _last is set and the core does the work or fails.  Then end() takes the
\* time, looks at _closed and takes a number for the end record.
Perform(c) ==
    /\ call[c].at = "perform"
    /\ last' = call[c].op_id
    /\ now' = now + 1
    /\ opened' = opened \ {call[c].op_id}
    /\ seq' = IF closed THEN seq ELSE seq + 1
    /\ \E answer \in Answers(c) :
         LET outcome == Outcome(call[c].op, answer, call[c].was) IN
         /\ indexed' = CASE answer = "ok" /\ call[c].op = "store" -> indexed \cup {call[c].key}
                         [] answer = "ok" /\ call[c].op = "release" -> indexed \ {call[c].key}
                         [] OTHER -> indexed
         /\ IF closed
              THEN call' = [call EXCEPT ![c] = Idle] /\ done' = Finished(c, outcome)
              ELSE /\ call' = [call EXCEPT ![c] = Ending(@, outcome, now, seq + 1)]
                   /\ UNCHANGED done
    /\ UNCHANGED <<q, file, dropped, errors, closed, closer, health, overlap>>

PutEnd(c) ==
    /\ call[c].at = "putend"
    /\ Enqueue([ev |-> "op_end", op_id |-> call[c].op_id, producer_seq |-> call[c].number,
                ts |-> call[c].ts, outcome |-> call[c].outcome])
    /\ call' = [call EXCEPT ![c] = Idle]
    /\ done' = Finished(c, call[c].outcome)
    /\ UNCHANGED <<file, seq, errors, opened, closed, closer, health, last, indexed, now, overlap>>

CallStep(c) == CheckPresence(c) \/ Begin(c) \/ PutBegin(c) \/ Perform(c) \/ PutEnd(c)

CloseStep == CloseHealth \/ CloseEnd \/ CloseFlag \/ CloseStop \/ CloseJoin

CapNext == Drain \/ CloseStep \/ \E c \in Callers : CallStep(c)

CapSpec == CapInit /\ [][CapNext]_capVars

----------------------------------------------------------------------------
\* A record of a call: its begin, or its end with the outcome.
Says(e, kind, id, outcome) == e.ev = kind /\ e.op_id = id /\ (kind = "op_end" => e.outcome = outcome)

\* It is in the file, or it is queued and will be there before the end record
\* is, unless the writer cannot write it.
Logged(kind, id, outcome) ==
    \/ \E i \in DOMAIN file : Says(file[i], kind, id, outcome)
    \/ /\ ~EndIn(file)
       /\ \E i \in DOMAIN q : /\ Says(q[i], kind, id, outcome)
                              /\ \A k \in DOMAIN q : q[k].ev = "end" => i < k

\* The types of what the recorder counts and keeps, and the order of close().
CapTypeOK ==
    /\ q \in Seq(ToSet(q)) /\ file \in Seq(ToSet(file)) /\ done \in Seq(ToSet(done))
    /\ dropped \in Nat /\ errors \in Nat /\ health \in [dropped : Nat]
    /\ closer \in {"no", "health", "flag", "none", "join", "done"}
    /\ DOMAIN call = Callers
    /\ closer = "no" => ~closed
    /\ closer \in {"no", "health"} => ~EndIn(file) /\ ~EndIn(q)

\* The health in an end record was taken before the record was queued, so
\* when it tells of no drop, everything queued before close() began is
\* logged: the begin of every call under way until then, the begin and the
\* end of every call that had returned.
DroppedByClose == IF closer = "no" THEN dropped ELSE health.dropped
CallsLogged ==
    /\ CapTypeOK
    /\ \A k \in DOMAIN q : q[k].ev = "end" => q[k].health = health
    /\ \A k \in DOMAIN file : file[k].ev = "end" => file[k].health = health
    /\ errors = 0 /\ DroppedByClose = 0 =>
        /\ closer = "no" => \A c \in Callers : call[c].at \in {"perform", "putend"} => Logged("op_begin", call[c].op_id, None)
        /\ \A i \in DOMAIN done : ~done[i].late => /\ Logged("op_begin", done[i].op_id, None)
                                                   /\ Logged("op_end", done[i].op_id, done[i].outcome)

\* A capture that normalizes as complete has every call that had returned
\* before close() was called, with its outcome: nothing was dropped between
\* the engine and the file without a word (lines the writer could not write
\* excepted).
CompleteMeansAll ==
    (errors = 0 /\ ~Malformed(file) /\ Notes(file) = {}) =>
        \A d \in ToSet(done) : ~d.late =>
            \E i, j \in DOMAIN file :
                /\ file[i].ev = "op_begin" /\ file[i].op_id = d.op_id
                /\ file[j].ev = "op_end" /\ file[j].op_id = d.op_id /\ file[j].outcome = d.outcome

\* The keys present before the operation at i of an intent, as the recorded
\* outcomes tell it.
PresentBefore(intent, i) ==
    {k \in Keys :
        LET touches == {j \in 1 .. i - 1 : /\ intent.operations[j].object_id = k
                                           /\ \/ intent.operations[j].op = "store" /\ intent.operations[j].source_outcome # "error"
                                              \/ intent.operations[j].op = "release" /\ intent.operations[j].source_outcome = "success"}
        IN IF touches = {} THEN \E l \in ToSet(intent.live) : l.object_id = k
           ELSE intent.operations[Max(touches)].op = "store"}

\* A load that found what an earlier release had been asked to delete and
\* had not, the key being locked or the core having raised.
LoadAfterKeptRelease(ops) ==
    \E i, j \in DOMAIN ops :
        /\ i < j /\ ops[i].object_id = ops[j].object_id
        /\ ops[i].op = "release" /\ ops[i].source_outcome # "success"
        /\ ops[j].op = "load" /\ ops[j].source_outcome = "success"

\* If no two calls of the core overlapped, a complete capture normalizes,
\* unless something was loaded after a release that did not delete it; and the
\* outcomes it recorded are those of its operations run in their order, up to
\* the failures of the core: an operation succeeds only on what is there, a
\* load misses only what is not, a store finds its object present only if it
\* is, and one that succeeds on what is there names its latest version.
SerialCaptureReplays ==
    (~overlap /\ errors = 0 /\ ~Malformed(file) /\ Notes(file) = {}) =>
        LET intent == Normalized(file) IN
        /\ Normalizes(file) \/ LoadAfterKeptRelease(intent.operations)
        /\ \A i \in DOMAIN intent.operations :
              LET op == intent.operations[i]
                  present == op.object_id \in PresentBefore(intent, i)
                  versions == {1} \cup {intent.operations[j].version : j \in
                      {j \in 1 .. i - 1 : intent.operations[j].object_id = op.object_id}}
              IN /\ op.op = "store" /\ op.source_outcome # "error" => (op.source_outcome = "already_present") = present
                 /\ op.op = "load" /\ op.source_outcome # "error" => op.source_outcome = IF present THEN "success" ELSE "miss"
                 /\ op.op = "release" /\ op.source_outcome = "success" => present
                 /\ present /\ op.source_outcome # "error" => op.version = Max(versions)

\* "A capture ... with drops, normalizes with completeness.status = partial":
\* a capture closed after a drop still normalizes.
DropsNormalizePartial ==
    (closer = "done" /\ dropped > 0 /\ errors = 0 /\ ~Malformed(file)) => Normalizes(file)

\* What the engine did and the capture claims to hold is in the file
\* (Recorder, RecordingRawBlockCore, normalize_capture).
CaptureIsFaithful == CallsLogged /\ CompleteMeansAll

============================================================================
