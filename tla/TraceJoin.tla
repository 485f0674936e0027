----------------------------- MODULE TraceJoin -----------------------------
(***************************************************************************)
(* examples/lmcache/kvio2perfetto.py: a log of KV operations and a log of  *)
(* device commands are joined, by cookie, by key or by offset and time,    *)
(* and drawn as one timeline.                                              *)
(*                                                                         *)
(* The logs are read as they stand when the capture is stopped, so every   *)
(* state is a capture.  An operation is recorded when it ends; both logs   *)
(* are in the order of their times.  A time is a small number of ns, and   *)
(* may be shared by several events.                                        *)
(***************************************************************************)
EXTENDS Integers, Sequences, FiniteSets, FiniteSetsExt, SequencesExt

CONSTANTS
    Objects,       \* <<slot_offset, bytes>> of the objects
    HeaderBytes,   \* header_bytes
    BlockAlign,    \* block_align
    Producers,     \* RawBlockCore instances that share the trace file
    SlackNs,       \* slack_ns
    NominalNs,     \* nominal_dur_ns
    FlagLba,       \* --lba-bytes
    DeviceLba,     \* the LBA size of the device, one of the candidates
    MaxJoinOps,    \* bound on the operations and the commands of others
    MaxJoinCmds, MaxJoinTicks,  \* bounds on the commands and on the clock
    MaxOddities    \* bound on re-issued, merged and untagged commands

ASSUME JoinAssumption == SlackNs \in Nat /\ NominalNs \in Nat \ {0} /\ DeviceLba \in Nat \ {0}

VARIABLES
    jops,    \* operations: [op, slot, bytes, start, end, over, tid, inst, todo]
    sem,     \* recorded operations, as indices of jops, in the order of their ends
    jcmds,   \* commands: [ts, off, len, op_name, ud, key, ops, done, again]
    jcmps,   \* completions: [ts, ud]
    jclock

joinVars == <<jops, sem, jcmds, jcmps, jclock>>

Untagged == 0
Cookie(ud) == ud \div 10  \* user_data >> 32
Payload(bytes) == ((bytes + BlockAlign - 1) \div BlockAlign) * BlockAlign
JoinInit == jops = <<>> /\ sem = <<>> /\ jcmds = <<>> /\ jcmps = <<>> /\ jclock = 0

----------------------------------------------------------------------------
(* The store and its device.                                               *)

Busy == Len(jops) + Cardinality({c \in 1..Len(jcmds) : jcmds[c].ops = {}})
Begin(op, slot, bytes, inst) ==
    /\ Busy < MaxJoinOps
    /\ \A i \in 1..Len(jops) : jops[i].slot = slot => jops[i].over
    /\ \A i \in 1..Len(jops) : jops[i].start = jclock => jops[i].slot <= slot  \* one order of those that start together
    /\ \A p \in Producers : p < inst => \E i \in 1..Len(jops) : jops[i].inst = p  \* they are alike
    /\ jops' = Append(jops, [op |-> op, slot |-> slot, bytes |-> bytes, start |-> jclock, end |-> jclock, over |-> FALSE, inst |-> inst,
                             tid |-> 1 + Cardinality({i \in 1..Len(jops) : jops[i].inst = inst}), todo |-> IF op = "store" THEN {0, 1} ELSE {1}])
    /\ UNCHANGED <<sem, jcmds, jcmps, jclock>>
Command(off, len, op_name, ud, key, ops) ==
    [ts |-> jclock, off |-> off, len |-> len, op_name |-> op_name, ud |-> ud, key |-> key, ops |-> ops, done |-> FALSE, at |-> jclock, again |-> FALSE]
Oddities == Cardinality({c \in 1..Len(jcmds) : jcmds[c].again \/ Cardinality(jcmds[c].ops) # 1})
DirOf(op) == IF op = "store" THEN "write" ELSE "read"
\* A store writes the header and then the payload, a load reads the payload.
SubmitCmd(i) ==
    LET o == jops[i]
        p == Min(o.todo)
        at == IF p = 0 THEN o.slot ELSE o.slot + HeaderBytes IN
    /\ Len(jcmds) < MaxJoinCmds /\ o.todo # {}
    /\ jcmds' = Append(jcmds, Command(at, IF p = 0 THEN HeaderBytes ELSE Payload(o.bytes), DirOf(o.op), 10 * o.tid + p, o.slot, {i}))
    /\ jops' = [jops EXCEPT ![i].todo = @ \ {p}]
    /\ UNCHANGED <<sem, jcmps, jclock>>
\* The block layer merges a payload with the header of the slot after it.
SubmitMerged(i, j) ==
    LET o == jops[i]  n == jops[j] IN
    /\ Len(jcmds) < MaxJoinCmds /\ Oddities < MaxOddities /\ o.op = n.op /\ o.todo = {1} /\ n.todo = {0, 1}
    /\ o.slot + HeaderBytes + Payload(o.bytes) = n.slot
    /\ jcmds' = Append(jcmds, Command(o.slot + HeaderBytes, Payload(o.bytes) + HeaderBytes, DirOf(o.op), 10 * o.tid + 1, o.slot, {i, j}))
    /\ jops' = [jops EXCEPT ![i].todo = {}, ![j].todo = {1}]
    /\ UNCHANGED <<sem, jcmps, jclock>>
\* Someone else's command, anywhere on the device.
SubmitOther(off) ==
    /\ Busy < MaxJoinOps /\ Len(jcmds) < MaxJoinCmds /\ Oddities < MaxOddities
    /\ jcmds' = Append(jcmds, Command(off, HeaderBytes, "write", Untagged, -1, {}))
    /\ UNCHANGED <<jops, sem, jcmps, jclock>>
\* -EAGAIN: the command is issued again and the first attempt never completes.
Reissue(c) ==
    /\ Len(jcmds) < MaxJoinCmds /\ Oddities < MaxOddities /\ ~jcmds[c].done /\ ~jcmds[c].again /\ jcmds[c].ud # Untagged
    /\ jcmds' = Append([jcmds EXCEPT ![c].again = TRUE], [jcmds[c] EXCEPT !.ts = jclock])
    /\ UNCHANGED <<jops, sem, jcmps, jclock>>
\* An operation ends, and is recorded, with the last of its commands.
CompleteCmd(c) ==
    LET done == [jcmds EXCEPT ![c].done = TRUE, ![c].at = jclock]
        ends(i) == jops[i].todo = {} /\ \A d \in 1..Len(done) : i \in done[d].ops => done[d].done \/ done[d].again IN
    /\ ~jcmds[c].done /\ ~jcmds[c].again
    /\ jcmds' = done
    /\ jcmps' = Append(jcmps, [ts |-> jclock, ud |-> jcmds[c].ud])
    /\ jops' = [i \in 1..Len(jops) |-> IF i \in jcmds[c].ops /\ ends(i) THEN [jops[i] EXCEPT !.over = TRUE, !.end = jclock] ELSE jops[i]]
    /\ sem' = sem \o SelectSeq([i \in 1..Len(jops) |-> i], LAMBDA i : i \in jcmds[c].ops /\ ends(i))
    /\ UNCHANGED jclock
Tick == jclock < MaxJoinTicks /\ jops # <<>> /\ jclock' = jclock + 1 /\ UNCHANGED <<jops, sem, jcmds, jcmps>>

JoinNext ==
    \/ \E op \in {"store", "load"}, o \in Objects, inst \in Producers : Begin(op, o[1], o[2], inst)
    \/ \E i \in 1..Len(jops) : SubmitCmd(i) \/ \E j \in 1..Len(jops) \ {i} : SubmitMerged(i, j)
    \/ \E o \in Objects : SubmitOther(o[1] + HeaderBytes)
    \/ \E c \in 1..Len(jcmds) : Reissue(c) \/ CompleteCmd(c)
    \/ Tick

----------------------------------------------------------------------------
(* Capture: which operation a command belongs to.  A command with none has *)
(* trace id 0.                                                             *)

Rec(k) == jops[sem[k]]
Recs == 1..Len(sem)
\* --join-by-key: trace ids in the order the keys are first recorded.
KeyTid(key) ==
    LET first == {k \in Recs : \A l \in 1..(k - 1) : Rec(l).slot # Rec(k).slot}
        mine == {k \in first : Rec(k).slot = key} IN
    IF mine = {} THEN 0 ELSE Cardinality({k \in first : k <= Min(mine)})
\* --join-by-offset: the slot with the greatest base, then the window.
InWindow(k, ts) == Rec(k).start - SlackNs <= ts /\ ts <= Rec(k).end + SlackNs
Base(off) == Max({b \in {Rec(k).slot : k \in Recs} : b <= off})
OffsetJoin(c) ==
    LET bases == {Rec(k).slot : k \in Recs}
        on == {k \in Recs : Rec(k).slot = Base(c.off)}
        hi == Base(c.off) + HeaderBytes + Payload(Rec(Min(on)).bytes) IN
    CASE \A b \in bases : b > c.off -> "unmatched"
      [] c.off >= hi -> "unmatched"
      [] c.off + c.len > hi -> IF \E b \in bases : Base(c.off) < b /\ b < c.off + c.len THEN "cross" ELSE "gap"
      [] \A k \in on : ~InWindow(k, c.ts) -> "unmatched"
      [] OTHER -> "unique"
\* The first record of the window that has the command's direction, else
\* the first.
Best(c) ==
    LET in == {k \in Recs : Rec(k).slot = Base(c.off) /\ InWindow(k, c.ts)}
        same == {k \in in : DirOf(Rec(k).op) = c.op_name} IN
    Min(IF same # {} THEN same ELSE in)

TidOf(join, c) ==
    CASE join = "cookie" -> Cookie(c.ud)
      [] join = "key" -> KeyTid(c.key)
      [] join = "offset" -> IF OffsetJoin(c) = "unique" THEN Best(c) ELSE 0
RecTid(join, k) ==
    CASE join = "cookie" -> Rec(k).tid
      [] join = "key" -> KeyTid(Rec(k).slot)
      [] join = "offset" -> k
\* Occurrences of a trace id, by op-end time; commands after the last end
\* belong to the last one.
Occurrence(join, c) ==
    LET occs == {k \in Recs : RecTid(join, k) = TidOf(join, c)}
        open == {k \in occs : c.ts <= Rec(k).end} IN
    CASE occs = {} -> 0
      [] open # {} -> Min(open)
      [] OTHER -> Max(occs)

\* pair_completions, for the commands and completions of one user_data: a
\* completion goes to the latest command that has none.
PairCompletion(pairs, p) ==
    LET open == {c \in 1..Len(jcmds) : /\ jcmds[c].ud = jcmps[p].ud /\ jcmds[c].ts <= jcmps[p].ts
                                       /\ \A q \in pairs : q.cmd # c} IN
    IF open = {} THEN pairs ELSE pairs \cup {[cmd |-> Max(open), dur |-> jcmps[p].ts - jcmds[Max(open)].ts]}
Durations == FoldLeft(PairCompletion, {}, [p \in 1..Len(jcmps) |-> p])
\* The LBA size under which most stores have a header, the flag first.
LbaOf ==
    LET Slba(c) == jcmds[c].off \div DeviceLba
        Score(v) == Cardinality({k \in Recs : /\ Rec(k).op = "store"
                                              /\ \E c \in 1..Len(jcmds) : Occurrence("cookie", jcmds[c]) = k /\ Slba(c) * v = Rec(k).slot})
        other == {v \in {1, 2} : Score(v) > Score(FlagLba)} IN
    IF other = {} THEN FlagLba ELSE CHOOSE v \in other : TRUE

----------------------------------------------------------------------------
(* emit: the timeline.  A span is [begin, end, of].                        *)

Earlier(a, b) == a.begin < b.begin \/ (a.begin = b.begin /\ (a.end < b.end \/ (a.end = b.end /\ a.of < b.of)))
SortedSpans(spans) ==
    LET Place(s, sorted) == SelectSeq(sorted, LAMBDA x : Earlier(x, s)) \o <<s>> \o SelectSeq(sorted, LAMBDA x : Earlier(s, x)) IN
    FoldSet(Place, <<>>, spans)
\* As TakeLane, were a lane free from the end of its span on.
TakeLaneTouching(lanes, s) ==
    LET free == {i \in 1..Len(lanes) : Last(lanes[i]).end <= s.begin} IN
    IF free = {} THEN Append(lanes, <<s>>) ELSE [lanes EXCEPT ![Min(free)] = Append(@, s)]
\* A span takes the first lane whose last span ended before it begins.
TakeLane(lanes, s) ==
    LET free == {i \in 1..Len(lanes) : Last(lanes[i]).end < s.begin} IN
    IF free = {} THEN Append(lanes, <<s>>) ELSE [lanes EXCEPT ![Min(free)] = Append(@, s)]

assign_lanes(spans) == FoldLeft(TakeLane, <<>>, SortedSpans(spans))

\* One span per record: from the start, or its first command, to the end,
\* or its last command.
CmdsOf(join, k) == {c \in 1..Len(jcmds) : Occurrence(join, jcmds[c]) = k}
ObjectSpans(join) ==
    {LET times == {jcmds[c].ts : c \in CmdsOf(join, k)} IN
     [begin |-> Min(times \cup {Rec(k).start}), end |-> Max(times \cup {Rec(k).end}), of |-> k] :
        k \in {l \in Recs : CmdsOf(join, l) # {} \/ Rec(l).end > Rec(l).start}}
\* The track a command is drawn on.
Role(join, c) ==
    CASE TidOf(join, c) = 0 /\ (join = "key" => c.key = -1) -> "untagged"
      [] c.op_name = "write" -> "writes"
      [] OTHER -> "reads"
\* Its slice: its own duration, else a nominal one within the gap to the next
\* command of the track.
Slice(durations, cs, c) ==
    LET next == {d \in cs : d > c}
        real == {d.dur : d \in {e \in durations : e.cmd = c}}
        gap == jcmds[Min(next)].ts - jcmds[c].ts
        nominal == IF next = {} THEN NominalNs ELSE Max({1, Min({NominalNs, (gap * 9) \div 10})}) IN
    [begin |-> jcmds[c].ts, end |-> jcmds[c].ts + Max({1} \cup (IF real = {} THEN {nominal} ELSE real)), of |-> c]
\* The lanes of a role: one, if no duration is known.
Known(durations, cs) == \E d \in durations : d.cmd \in cs
Tracks(durations, cs) ==
    LET slices == {Slice(durations, cs, c) : c \in cs} IN
    IF Known(durations, cs) THEN assign_lanes(slices) ELSE <<SortedSpans(slices)>>
----------------------------------------------------------------------------
(* Correctness properties.                                                 *)

Joins == {"cookie", "key", "offset"}
\* A capture that stops earlier is one in which nothing more happens.
Stopped == jclock = MaxJoinTicks /\ jcmps # <<>>
\* Two operations that were both under way at some time.
Overlap(i, j) ==
    /\ jops[i].start <= (IF jops[j].over THEN jops[j].end ELSE jclock)
    /\ jops[j].start <= (IF jops[i].over THEN jops[i].end ELSE jclock)
SameId(join, i, j) == IF join = "cookie" THEN jops[i].tid = jops[j].tid ELSE jops[i].slot = jops[j].slot
\* A command of a recorded operation is drawn under that operation, however
\* the logs are joined, except where the join cannot tell: by cookie or key,
\* another operation of the same id (two producers, or the next on the slot)
\* at the same time; by offset, a record of the same direction whose window
\* has the command too, or a slot whose first record was shorter.  By offset,
\* a command that spans two objects is put under neither (Capture.__init__).
CommandsJoinTheirOwn == Stopped =>
    \A c \in 1..Len(jcmds), k \in Recs :
        /\ jcmds[c].ops = {sem[k]} =>
            /\ \A join \in {"cookie", "key"} :
                (\A j \in 1..Len(jops) \ {sem[k]} : SameId(join, sem[k], j) => ~Overlap(sem[k], j))
                => Occurrence(join, jcmds[c]) = k
            /\ \/ Occurrence("offset", jcmds[c]) = k
               \/ \E l \in Recs \ {k} : /\ Rec(l).slot = Rec(k).slot
                                        /\ \/ Rec(l).op = Rec(k).op /\ InWindow(l, jcmds[c].ts)
                                           \/ l < k /\ Rec(l).bytes < Rec(k).bytes
        /\ Cardinality(jcmds[c].ops) > 1 => TidOf("offset", jcmds[c]) = 0

\* What the timeline shows is what happened.  A duration is the command's
\* own, and a re-issued command has none (untagged commands share one
\* user_data, so theirs are right only one at a time); the slices of a track
\* neither overlap nor touch, unless no completion is known and two commands
\* are within a nanosecond; objects take no more lanes than are under way at
\* once; and the LBA size is the device's when some store that is not at
\* offset 0 has its header in the capture (pair_completions, assign_lanes,
\* emit, Capture.__init__).
TimelineIsTrue == Stopped =>
    LET durations == Durations IN
    /\ \A c \in 1..Len(jcmds) :
        \/ {d.dur : d \in {e \in durations : e.cmd = c}} = IF jcmds[c].done THEN {jcmds[c].at - jcmds[c].ts} ELSE {}
        \/ \E o \in 1..Len(jcmds) \ {c} : jcmds[o].ud = jcmds[c].ud /\ (jcmds[o].ops # jcmds[c].ops \/ jcmds[c].ud = Untagged)
    /\ \A join \in Joins, role \in {"writes", "reads", "untagged"} :
        LET cs == {c \in 1..Len(jcmds) : Role(join, jcmds[c]) = role}
            tracks == Tracks(durations, cs) IN
        \A t \in 1..Len(tracks) : \A i \in 1..(Len(tracks[t]) - 1) :
            \/ tracks[t][i].end < tracks[t][i + 1].begin
            \/ ~Known(durations, cs) /\ tracks[t][i + 1].begin - tracks[t][i].begin < 2
    /\ \A join \in Joins :
        LET spans == ObjectSpans(join)
            lanes == Len(assign_lanes(spans)) IN
        lanes = Max({Cardinality({s \in spans : s.begin <= ts /\ ts <= s.end}) : ts \in 0..MaxJoinTicks})
    /\ \/ LbaOf = DeviceLba
       \/ \A k \in Recs, c \in 1..Len(jcmds) : Rec(k).op = "store" /\ Occurrence("cookie", jcmds[c]) = k => jcmds[c].off # Rec(k).slot \/ Rec(k).slot = 0

\* The timeline shows each command under its operation, once and for as long
\* as it ran (kvio2perfetto).
TimelineIsFaithful == CommandsJoinTheirOwn /\ TimelineIsTrue

============================================================================
