---------------------------- MODULE RecordReplay ----------------------------
(***************************************************************************)
(* What is made of logs of KV operations (examples/lmcache).  The joined   *)
(* logs are reported on (kvio_tp_report.py), the commands of an operation  *)
(* are projected (kvio_plan.py) and compared with those measured           *)
(* (kvio_validate.py).                                                     *)
(*                                                                         *)
(* With kvio_sem2manifest.py and kvio_replay.py a log of KV                *)
(* operations becomes a manifest, which is replayed on a device under a    *)
(* watchdog that ends the process when one operation makes no progress.    *)
(*                                                                         *)
(* The store, RawBlockCore, is external: a put of a key it has does        *)
(* nothing, one that finds no free slot fails and its result is not looked *)
(* at.  Any operation may never return.  The watchdog wakes when it is     *)
(* due; it reads the clock, then the time of the last progress, at most    *)
(* DogLag later, and then exits: three steps, and the replay goes on       *)
(* between them.                                                           *)
(***************************************************************************)
EXTENDS TraceJoin

CONSTANTS
    QdMinCmds,      \* commands an object needs for the QD1 detector
    SuspiciousGap,  \* gap that is suspicious when no duration is known
    BatchGapNs,     \* batch_gap_ns
    MaxXfer,        \* --max-xfer
    SemTraces,     \* logs: sequences of [key, op, bytes, error]
    RecHeader,     \* --header-bytes
    RecAlign,      \* --block-align
    RecUnit,       \* the unit slots are rounded to by the replay, 1 MiB
    Warmup, Iters, \* --warmup, --iters
    OpTimeout,     \* --op-timeout, 0 for no watchdog
    DogLag,        \* bound on the time from reading the clock to reading the last tick
    RecSlots,      \* slots of the device
    RotatingKeys,  \* --slots
    MaxRecClock    \* bound on the clock

ASSUME RecordAssumption == Warmup \in Nat /\ Iters \in Nat \ {0} /\ OpTimeout \in Nat /\ DogLag \in Nat /\ RotatingKeys \in Nat \ {0}

----------------------------------------------------------------------------
(* kvio_plan: the commands of one operation.                               *)

RoundUp(n, unit) == ((n + unit - 1) \div unit) * unit
\* As PlanSplit, were the tail not rounded to a block.
SplitUnrounded(nbytes, xfer, lba_bytes) ==
    LET n == (nbytes + xfer - 1) \div xfer IN
    [i \in 1..n |-> IF i < n THEN RoundUp(xfer, lba_bytes) ELSE nbytes - xfer * (n - 1)]
\* kvio_plan.split_commands: ceil(nbytes/xfer) commands of whole blocks.
PlanSplit(nbytes, xfer, lba_bytes) ==
    LET n == (nbytes + xfer - 1) \div xfer IN
    [i \in 1..n |-> RoundUp(IF i < n THEN xfer ELSE nbytes - xfer * (n - 1), lba_bytes)]

\* kvio_plan.project.
Total(sizes) == FoldLeft(LAMBDA sum, s : sum + s, 0, sizes)
PlanProject(payload_bytes, op, header_bytes, xfer, lba_bytes) ==
    (IF op = "store" THEN PlanSplit(header_bytes, xfer, lba_bytes) ELSE <<>>) \o PlanSplit(payload_bytes, xfer, lba_bytes)

----------------------------------------------------------------------------
(* kvio_validate: the projection of each recorded id against the commands  *)
(* that carry it.  Of two records of one id the later stands.              *)

SemIds == {Rec(k).tid : k \in Recs}
SemOf(tid) == Rec(Max({k \in Recs : Rec(k).tid = tid}))
Measured(tid) == {c \in 1..Len(jcmds) : Cookie(jcmds[c].ud) = tid}
Verdict(tid) ==
    LET p == PlanProject(SemOf(tid).bytes, SemOf(tid).op, HeaderBytes, MaxXfer, BlockAlign) IN
    IF Cardinality(Measured(tid)) = Len(p) /\ MapThenSumSet(LAMBDA c : jcmds[c].len, Measured(tid)) = Total(p) THEN "OK" ELSE "MISMATCH"

----------------------------------------------------------------------------
(* kvio_tp_report: the commands as the timeline draws them.                *)

\* The element of rank q = num/den of the values f[x], x \in S.
pct(S, f, num, den) ==
    LET rank == Min({Cardinality(S) - 1, (num * Cardinality(S)) \div den}) IN
    CHOOSE v \in {f[x] : x \in S} : /\ Cardinality({x \in S : f[x] < v}) <= rank
                                    /\ rank < Cardinality({x \in S : f[x] <= v})
ReportCmds(join, durations) ==
    [c \in 1..Len(jcmds) |->
        LET mine == Role(join, jcmds[c])
            cs == {d \in 1..Len(jcmds) : Role(join, jcmds[d]) = mine}
            slice == Slice(durations, cs, c) IN
        [ts |-> slice.begin, dur |-> slice.end - slice.begin, op |-> jcmds[c].op_name, tid |-> TidOf(join, jcmds[c]),
         real |-> Known(durations, {c}), off |-> jcmds[c].off]]
Tagged(cmds) == {c \in DOMAIN cmds : cmds[c].tid # 0}
\* Per-command figures fall back to all commands when none is tagged.
Pool(cmds) == IF Tagged(cmds) # {} THEN Tagged(cmds) ELSE DOMAIN cmds
Reals(cmds) == {c \in Pool(cmds) : cmds[c].real}

\* The gaps between the commands of each object that has enough of them,
\* under the operation of its first command.
Gaps(cmds, op_name) ==
    LET Mine(c) == {d \in Tagged(cmds) : cmds[d].tid = cmds[c].tid}
        seconds == {c \in Tagged(cmds) : /\ Cardinality(Mine(c)) >= QdMinCmds /\ c # Min(Mine(c))
                                         /\ cmds[Min(Mine(c))].op = op_name} IN
    [c \in seconds |-> cmds[c].ts - cmds[Max({d \in Mine(c) : d < c})].ts]
\* Serialized when the median gap is half the low-quartile service time of
\* the same operation, or suspicious for want of one.
Qd1(cmds, op_name) ==
    LET gaps == Gaps(cmds, op_name)
        g50 == pct(DOMAIN gaps, gaps, 1, 2)
        served == {c \in Tagged(cmds) : cmds[c].real /\ cmds[c].op = op_name}
        svc == pct(served, [c \in served |-> cmds[c].dur], 1, 4) IN
    IF IF served # {} THEN 2 * g50 >= svc ELSE g50 >= SuspiciousGap THEN "QD~1" ELSE "pipelined"

\* As Before2, were the starts of a time counted before its ends.
StartsFirst(a, b) == a[1] < b[1] \/ (a[1] = b[1] /\ (a[2] > b[2] \/ (a[2] = b[2] /\ a[3] < b[3])))
\* The order of the queue-depth events <<ts, change, cmd>>.
Before2(a, b) == a[1] < b[1] \/ (a[1] = b[1] /\ (a[2] < b[2] \/ (a[2] = b[2] /\ a[3] < b[3])))

SweepStep(s, e) ==
    LET dt == IF s.first THEN 0 ELSE e[1] - s.last
        qd == s.qd + e[2] IN
    [first |-> FALSE, last |-> e[1], qd |-> qd, area |-> s.area + s.qd * dt, span |-> s.span + dt,
     t_le1 |-> s.t_le1 + IF s.qd <= 1 THEN dt ELSE 0, qmax |-> Max({s.qmax, qd})]
AchievedQd(cmds) ==
    LET evs == {<<cmds[c].ts, 1, c>> : c \in Reals(cmds)} \cup {<<cmds[c].ts + cmds[c].dur, -1, c>> : c \in Reals(cmds)}
        Place(e, sorted) == SelectSeq(sorted, LAMBDA x : Before2(x, e)) \o <<e>> \o SelectSeq(sorted, LAMBDA x : Before2(e, x)) IN
    FoldLeft(SweepStep, [first |-> TRUE, last |-> 0, qd |-> 0, area |-> 0, span |-> 0, t_le1 |-> 0, qmax |-> 0], FoldSet(Place, <<>>, evs))
\* Sizes of the runs of commands no further apart than the gap.
BatchStep(b, c) ==
    CASE c = 0 -> b
      [] jcmds[c].ts - b.last > BatchGapNs -> [sizes |-> Append(b.sizes, 1), last |-> jcmds[c].ts]
      [] OTHER -> [sizes |-> [b.sizes EXCEPT ![Len(b.sizes)] = @ + 1], last |-> jcmds[c].ts]
Batches(cmds) ==
    LET first == Min(Pool(cmds))
        later == [c \in 1..Len(jcmds) |-> IF c \in Pool(cmds) \ {first} THEN c ELSE 0] IN
    FoldLeft(BatchStep, [sizes |-> <<1>>, last |-> jcmds[first].ts], later).sizes
\* From the start of an object's span to the first command of its id.
PreSubmit(join, cmds) ==
    {[of |-> s.of, ns |-> Min({cmds[c].ts : c \in {d \in Tagged(cmds) : cmds[d].tid = RecTid(join, s.of)}}) - s.begin] :
        s \in {t \in ObjectSpans(join) : \E c \in Tagged(cmds) : cmds[c].tid = RecTid(join, t.of)}}
\* Writes to an address that was written before.
Reused(cmds) ==
    LET writes == {c \in Pool(cmds) : cmds[c].op = "write"} IN
    Cardinality({c \in writes : \E d \in writes : d < c /\ cmds[d].off = cmds[c].off})

----------------------------------------------------------------------------
(* Correctness properties.                                                 *)

\* The figures of the report describe the commands of the timeline.  The
\* achieved queue depth times the time observed is the time the commands
\* took, its maximum is the most that were under way at one instant and the
\* share at depth one or less is the time during which at most one was; the
\* batches hold every command once; an object is submitted before its first
\* command, unless its id is used twice; commands all sent together are never
\* called serialized (analyze_label).
ReportAddsUp == Stopped => LET durations == Durations IN
    \A join \in Joins \ {"key"} :
        LET cmds == ReportCmds(join, durations)
            real == Reals(cmds)
            qd == AchievedQd(cmds)
            End(c) == cmds[c].ts + cmds[c].dur
            Under(t) == {c \in real : cmds[c].ts <= t /\ t < End(c)}
            first == Min({cmds[c].ts : c \in real})
            last == Max({End(c) : c \in real}) IN
        /\ real # {} =>
            /\ qd.area = MapThenSumSet(LAMBDA c : cmds[c].dur, real) /\ qd.span = last - first /\ qd.qd = 0
            /\ qd.qmax = Max({Cardinality(Under(t)) : t \in first..last})
            /\ qd.t_le1 = Cardinality({t \in first..(last - 1) : Cardinality(Under(t)) <= 1})
        /\ Total(Batches(cmds)) = Cardinality(Pool(cmds))
        /\ \A p \in PreSubmit(join, cmds) : p.ns >= 0 \/ \E k \in Recs \ {p.of} : RecTid(join, k) = RecTid(join, p.of)
        /\ \A op_name \in {"read", "write"} :
            Gaps(cmds, op_name) # <<>> /\ (\A c, d \in Tagged(cmds) : cmds[c].ts = cmds[d].ts) => Qd1(cmds, op_name) = "pipelined"
        /\ LET writes == {c \in Pool(cmds) : cmds[c].op = "write"} IN
           Reused(cmds) = Cardinality(writes) - Cardinality({cmds[c].off : c \in writes})

\* A projection covers its payload with as few commands as the transfer limit
\* allows and less than one block of padding each, and validation calls the
\* projection of a recorded id a mismatch only where the device did something
\* else: two operations of one id, a command issued again, or one merged with
\* its neighbour (split_commands, project, kvio_validate main).
ProjectionIsExact ==
    /\ jclock = 0 /\ jcmds # <<>> => \A n \in 1..9, blocks \in 1..3 :
        LET cmds == PlanSplit(n, blocks * BlockAlign, BlockAlign) IN
        /\ Total(cmds) >= n /\ Total(cmds) - n < BlockAlign
        /\ \A i \in 1..Len(cmds) : cmds[i] <= blocks * BlockAlign /\ cmds[i] % BlockAlign = 0
        /\ (Len(cmds) - 1) * blocks * BlockAlign < n
    /\ Stopped => \A tid \in SemIds :
        \/ Verdict(tid) = "OK"
        \/ Cardinality({i \in 1..Len(jops) : jops[i].tid = tid}) > 1
        \/ \E c \in 1..Len(jcmds) : Cardinality(jcmds[c].ops) > 1 \/ (jcmds[c].again /\ Cookie(jcmds[c].ud) = tid)

\* The timeline, the report on it and the projection agree with the capture.
ReportIsFaithful == TimelineIsFaithful /\ ReportAddsUp /\ ProjectionIsExact

----------------------------------------------------------------------------
(* kvio_sem2manifest and kvio_replay.                                      *)

VARIABLES
    mode,     \* "record" a manifest, "single" one payload
    trace,    \* the log the manifest is made of
    rpos,     \* where the replay is: [it, phase, i, begun], it counts passes
    written,  \* keys in the index of the store
    samples,  \* timed operations: [op, i, real]
    last,     \* the time of the last tick
    dog,      \* the watchdog: [state, when it went to sleep, the clock as it read it]
    rclock,
    slowest   \* history: the longest time without a tick so far

recVars == <<mode, trace, rpos, written, samples, last, dog, rclock, slowest>>

----------------------------------------------------------------------------
(* kvio_sem2manifest.                                                      *)

CeilTo(n, unit) == ((n + unit - 1) \div unit) * unit
Replayable(r) == r.op \in {"store", "load"} /\ ~r.error
\* The first record of each object.
Firsts(recs) ==
    SelectSeq([k \in 1..Len(recs) |-> k],
              LAMBDA k : Replayable(recs[k]) /\ \A l \in 1..(k - 1) : Replayable(recs[l]) => recs[l].key # recs[k].key)

\* Objects in the order they are first seen, each with its largest size.
ManifestOf(recs) ==
    LET firsts == Firsts(recs)
        Of(i) == {k \in 1..Len(recs) : Replayable(recs[k]) /\ recs[k].key = recs[firsts[i]].key} IN
    [i \in 1..Len(firsts) |-> [payload_bytes |-> Max({recs[k].bytes : k \in Of(i)}), ops |-> {recs[k].op : k \in Of(i)}]]
MaxPayload(objs) == Max({objs[i].payload_bytes : i \in DOMAIN objs})
ManifestSlot(objs) == CeilTo(MaxPayload(objs) + RecHeader, RecAlign)

----------------------------------------------------------------------------
(* kvio_replay.  A whole manifest is stored and then loaded in each pass,  *)
(* under new keys; a single payload is stored and loaded in each           *)
(* iteration, under keys that come round again.                            *)

Objs == IF mode = "record" THEN ManifestOf(trace) ELSE <<[payload_bytes |-> 1, ops |-> {"store", "load"}]>>
ReplaySlot(objs) == CeilTo(MaxPayload(objs) + RecHeader, RecUnit)
\* make_object_key.
KeyOf(it, i) == IF mode = "record" THEN it * Len(Objs) + i ELSE it % RotatingKeys

Passes == Warmup + Iters
RecInit ==
    /\ trace \in SemTraces /\ mode \in {"record", "single"}
    /\ mode = "single" => trace = CHOOSE t \in SemTraces : TRUE
    /\ rpos = IF Objs = <<>> THEN [it |-> Passes, phase |-> "done", i |-> 0, begun |-> FALSE] ELSE [it |-> 0, phase |-> "store", i |-> 1, begun |-> FALSE]
    /\ written = {} /\ samples = {} /\ last = 0 /\ rclock = 0 /\ slowest = 0
    /\ dog = [state |-> IF OpTimeout > 0 THEN "wait" ELSE "off", wake |-> 0, now |-> 0]
Running == rpos.phase \in {"store", "load"} /\ dog.state # "aborted"

\* wd.tick, and the call that follows it.
BeginOp ==
    /\ Running /\ ~rpos.begun
    /\ last' = rclock /\ rpos' = [rpos EXCEPT !.begun = TRUE]
    /\ UNCHANGED <<mode, trace, written, samples, dog, rclock, slowest>>
Following ==
    CASE rpos.i < Len(Objs) -> [rpos EXCEPT !.i = @ + 1, !.begun = FALSE]
      [] rpos.phase = "store" -> [rpos EXCEPT !.phase = "load", !.i = 1, !.begun = FALSE]
      [] rpos.it < Passes - 1 -> [it |-> rpos.it + 1, phase |-> "store", i |-> 1, begun |-> FALSE]
      [] OTHER -> [rpos EXCEPT !.it = Passes, !.phase = "stop", !.begun = FALSE]
\* Stores and loads of the measured passes are timed, done or not.
EndOp ==
    LET key == KeyOf(rpos.it, rpos.i)
        real == IF rpos.phase = "store" THEN key \notin written /\ Cardinality(written) < RecSlots ELSE key \in written IN
    /\ Running /\ rpos.begun
    /\ written' = IF rpos.phase = "store" /\ real THEN written \cup {key} ELSE written
    /\ samples' = IF rpos.it >= Warmup THEN samples \cup {[op |-> rpos.phase, i |-> rpos.i, it |-> rpos.it, real |-> real]} ELSE samples
    /\ rpos' = Following
    /\ UNCHANGED <<mode, trace, last, dog, rclock, slowest>>
\* wd.stop, and core.close, which no watchdog looks after.
StopDog ==
    /\ rpos.phase = "stop" /\ dog.state # "aborted"
    /\ rpos' = [rpos EXCEPT !.phase = "done"]
    /\ UNCHANGED <<mode, trace, written, samples, last, dog, rclock, slowest>>

Poll4 == Max({4, Min({20, OpTimeout})})  \* four times the poll period
Poll == Poll4 \div 4
\* _stop.wait returns, and the clock is read.
DogReads ==
    /\ dog.state = "wait" /\ dog.wake + Poll <= rclock
    /\ dog' = IF rpos.phase = "done" THEN [dog EXCEPT !.state = "off"] ELSE [dog EXCEPT !.state = "read", !.now = rclock]
    /\ UNCHANGED <<mode, trace, rpos, written, samples, last, rclock, slowest>>
\* As DogCompares, comparing with the poll period.
DogComparesEarly ==
    /\ dog.state = "read"
    /\ dog' = [dog EXCEPT !.state = IF dog.now - last > Poll THEN "exit" ELSE "wait", !.wake = rclock]
    /\ UNCHANGED <<mode, trace, rpos, written, samples, last, rclock, slowest>>
\* The time of the last tick is read: it may be later than the clock was.
DogCompares ==
    /\ dog.state = "read"
    /\ dog' = [dog EXCEPT !.state = IF dog.now - last > OpTimeout THEN "exit" ELSE "wait", !.wake = rclock]
    /\ UNCHANGED <<mode, trace, rpos, written, samples, last, rclock, slowest>>

\* os._exit(42), whatever has happened since.
DogExits ==
    /\ dog.state = "exit"
    /\ dog' = [dog EXCEPT !.state = "aborted"]
    /\ UNCHANGED <<mode, trace, rpos, written, samples, last, rclock, slowest>>
RecTick ==
    /\ rclock < MaxRecClock /\ Running
    /\ dog.state = "wait" => rclock < dog.wake + Poll
    /\ dog.state = "read" => rclock < dog.now + DogLag
    /\ dog.state # "exit"
    /\ rclock' = rclock + 1 /\ slowest' = Max({slowest, rclock + 1 - last})
    /\ UNCHANGED <<mode, trace, rpos, written, samples, last, dog>>
RecNext == BeginOp \/ EndOp \/ StopDog \/ DogReads \/ DogCompares \/ DogExits \/ RecTick
RecSpec == RecInit /\ [][RecNext]_recVars

----------------------------------------------------------------------------
(* Correctness properties.                                                 *)

\* The watchdog ends the process only when some operation has gone on for
\* longer than the timeout, though the next may begin between its two readings,
\* and none goes on for longer than that, one poll period and what the
\* readings take (ProgressWatchdog._run).
WatchdogIsRight ==
    /\ dog.state \in {"exit", "aborted"} => slowest > OpTimeout
    /\ Running /\ dog.state # "off" => rclock - last <= OpTimeout + Poll + 2 * DogLag
\* What the steps maintain of it: at its last readings the watchdog found an
\* operation that was in time, and it reads again a poll period later.
WatchdogInv ==
    /\ rclock \in Nat /\ last \in 0 .. rclock /\ slowest \in Nat /\ slowest >= rclock - last
    /\ dog \in [state : {"wait", "read", "off", "exit", "aborted"}, wake : Nat, now : Nat]
    /\ dog.state = "wait" => dog.wake <= rclock /\ rclock <= dog.wake + Poll /\ dog.wake - last <= OpTimeout + DogLag
    /\ dog.state = "read" => /\ dog.now <= rclock /\ rclock <= dog.now + DogLag
                             /\ dog.now - last <= OpTimeout + Poll + DogLag
    /\ dog.state = "exit" => rclock - last <= OpTimeout + Poll + 2 * DogLag
    /\ dog.state \in {"exit", "aborted"} => slowest > OpTimeout
\* A replay that ends has stored and loaded every object of the log once in
\* each measured pass; under the new keys of each pass every store of a
\* manifest is a write, and in either mode each load finds what was stored, as
\* long as the slots last; every recorded transfer fits its slot.  Nothing is
\* said of the stores of a single payload, whose keys come round again: the
\* store skips a key it has (run_record, main, kvio_sem2manifest main).
ReplayDoesTheWork ==
    /\ Objs # <<>> =>
        /\ ReplaySlot(Objs) >= MaxPayload(Objs) + RecHeader
        /\ mode = "record" => \A k \in 1..Len(trace) : Replayable(trace[k]) => trace[k].bytes + RecHeader <= ManifestSlot(Objs)
    /\ mode = "record" => Len(Objs) = Cardinality({trace[k].key : k \in {l \in 1..Len(trace) : Replayable(trace[l])}})
    /\ rpos.phase = "done" => Cardinality(samples) = IF Objs = <<>> THEN 0 ELSE 2 * Iters * Len(Objs)
    /\ \A s \in samples :
        \/ s.real
        \/ mode = "record" /\ Passes * Len(Objs) > RecSlots
        \/ mode = "single" /\ (s.op = "store" \/ RotatingKeys > RecSlots)
\* A log of KV operations shows, in a timeline and in a report, what the
\* device did, and as a manifest it replays under its watchdog as it was
\* recorded.
LogsAreUsable == ReportIsFaithful /\ WatchdogInv /\ WatchdogIsRight /\ ReplayDoesTheWork

============================================================================
