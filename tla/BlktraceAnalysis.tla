-------------------------- MODULE BlktraceAnalysis --------------------------
(***************************************************************************)
(* analyzers/blktrace_analyzer.py: what it computes from a block trace.    *)
(*                                                                         *)
(* The block layer queues, issues and completes requests, several at once  *)
(* and some under way before the trace begins; blkparse prints a line for  *)
(* each step, lines of two CPUs possibly out of order.  The analyzer sorts *)
(* the lines and knows a request only by its sectors.  Times are ticks; a  *)
(* bin width, which the program keeps as a float, is the fraction mx / nb. *)
(***************************************************************************)
EXTENDS Integers, Sequences, FiniteSets, SequencesExt

CONSTANTS
    NoTime,
    BlkExtents,    \* <<sector, nblocks>> of requests
    MaxRequests,   \* bound on requests
    MaxBlkLines,   \* bound on lines
    MaxTick,       \* bound on the clock
    LbaBins,       \* lba_bins
    TimeBucket,    \* time_bucket, in ticks
    IuSectors, NpwgSectors, AwunSectors,  \* SSDGeometry, in sectors
    Outlier        \* the factor over the median beyond which an end is no longer in range

VARIABLES
    requests,   \* id -> [extent, read, stage, queue, issue]
    blklines,      \* the lines of blkparse
    tick,
    twins       \* history: two requests of the same sectors were under way at once

blkVars == <<requests, blklines, tick, twins>>

BlkInit ==
    /\ \E early \in {{}, {"Q"}, {"D"}} :
        requests = [i \in 1..Cardinality(early) |->
                       [extent |-> CHOOSE e \in BlkExtents : TRUE, read |-> TRUE, stage |-> CHOOSE s \in early : TRUE,
                        queue |-> NoTime, issue |-> NoTime]]
    /\ blklines = <<>> /\ tick = 0 /\ twins = FALSE

\* A line, in its place or just before the last one.
Logs(action, id, r) ==
    /\ Len(blklines) < MaxBlkLines
    /\ LET l == [action |-> action, ts |-> tick', sector |-> r.extent[1], nblocks |-> r.extent[2], read |-> r.read, id |-> id,
                 queue |-> r.queue, issue |-> r.issue] IN
       \/ blklines' = Append(blklines, l)
       \/ blklines # <<>> /\ Last(blklines).ts < tick' /\ blklines' = Front(blklines) \o <<l, Last(blklines)>>
Advance == tick' \in {t \in tick..tick + 1 : t <= MaxTick}

QueueIo(e, read) ==
    /\ Len(requests) < MaxRequests
    /\ Advance
    /\ LET r == [extent |-> e, read |-> read, stage |-> "Q", queue |-> tick', issue |-> NoTime] IN
       /\ requests' = Append(requests, r)
       /\ twins' = (twins \/ \E i \in 1..Len(requests) : requests[i].extent = e /\ requests[i].stage # "C")
       /\ Logs("Q", Len(requests) + 1, r)
IssueIo(id) ==
    /\ requests[id].stage = "Q"
    /\ Advance
    /\ LET r == [requests[id] EXCEPT !.stage = "D", !.issue = tick'] IN
       requests' = [requests EXCEPT ![id] = r] /\ Logs("D", id, r)
    /\ UNCHANGED twins
CompleteIo(id) ==
    /\ requests[id].stage = "D"
    /\ Advance
    /\ LET r == [requests[id] EXCEPT !.stage = "C"] IN
       requests' = [requests EXCEPT ![id] = r] /\ Logs("C", id, r)
    /\ UNCHANGED twins

BlkNext ==
    \/ \E e \in BlkExtents, read \in BOOLEAN : QueueIo(e, read)
    \/ \E id \in 1..Len(requests) : IssueIo(id) \/ CompleteIo(id)

----------------------------------------------------------------------------
(* The analyzer.                                                           *)

Key(e) == <<e.sector, e.nblocks>>
Total(S, Op(_)) == FoldSet(LAMBDA i, acc : acc + Op(i), 0, S)
Least(a, b) == IF a < b THEN a ELSE b

\* load_trace: the lines by time, those of one time in the order printed.
load_trace ==
    LET Insert(sorted, l) ==
            LET before == SelectSeq(sorted, LAMBDA e : e.ts <= l.ts) IN
            before \o <<l>> \o SubSeq(sorted, Len(before) + 1, Len(sorted)) IN
    FoldLeft(Insert, <<>>, blklines)

Duration(events) == Last(events).ts - Head(events).ts

\* As LifecycleStep, but a request is known by its first sector alone.
LifecycleStepBySector(st, e) ==
    LET at == {i \in 1..Len(st.pending) : st.pending[i].key[1] = e.sector}
        new == [key |-> Key(e), read |-> e.read, queue |-> NoTime, issue |-> NoTime, complete |-> NoTime, own |-> <<>>] IN
    CASE e.action = "Q" -> [st EXCEPT !.pending = Append(@, [new EXCEPT !.queue = e.ts])]
      [] e.action = "D" /\ at = {} -> [st EXCEPT !.pending = Append(@, [new EXCEPT !.issue = e.ts])]
      [] e.action = "D" /\ at # {} -> [st EXCEPT !.pending[Min(at)].issue = e.ts]
      [] e.action = "C" /\ at = {} -> st
      [] e.action = "C" /\ at # {} ->
            [pending |-> RemoveAt(st.pending, Min(at)),
             completed |-> Append(st.completed, [st.pending[Min(at)] EXCEPT !.complete = e.ts, !.own = <<e.queue, e.issue>>])]
\* _compute_latencies: the requests of one key wait in a queue; an issue
\* stamps the first of them, a completion takes the first.
LifecycleStep(st, e) ==
    LET at == {i \in 1..Len(st.pending) : st.pending[i].key = Key(e)}
        new == [key |-> Key(e), read |-> e.read, queue |-> NoTime, issue |-> NoTime, complete |-> NoTime, own |-> <<>>] IN
    CASE e.action = "Q" -> [st EXCEPT !.pending = Append(@, [new EXCEPT !.queue = e.ts])]
      [] e.action = "D" /\ at = {} -> [st EXCEPT !.pending = Append(@, [new EXCEPT !.issue = e.ts])]
      [] e.action = "D" /\ at # {} -> [st EXCEPT !.pending[Min(at)].issue = e.ts]
      [] e.action = "C" /\ at = {} -> st
      [] e.action = "C" /\ at # {} ->
            [pending |-> RemoveAt(st.pending, Min(at)),
             completed |-> Append(st.completed, [st.pending[Min(at)] EXCEPT !.complete = e.ts, !.own = <<e.queue, e.issue>>])]

completed_ios(events) == FoldLeft(LifecycleStep, [pending |-> <<>>, completed |-> <<>>], events).completed

\* compute_queue_depth: the depth after each issue and completion, in the
\* order of (time, change, read); never below zero.
compute_queue_depth(events) ==
    LET dc == SelectSeq(events, LAMBDA e : e.action \in {"D", "C"})
        n == Len(dc)
        Change(e) == IF e.action = "D" THEN 1 ELSE -1
        Rank(e) == 4 * e.ts + (IF e.action = "D" THEN 2 ELSE 0) + (IF e.read THEN 1 ELSE 0)
        Insert(sorted, e) ==
            LET before == SelectSeq(sorted, LAMBDA x : Rank(x) <= Rank(e)) IN
            before \o <<e>> \o SubSeq(sorted, Len(before) + 1, Len(sorted))
        changes == FoldLeft(Insert, <<>>, dc)
        Step(qd, e) == LET d == (IF qd = <<>> THEN 0 ELSE Last(qd)) + Change(e) IN Append(qd, IF d < 0 THEN 0 ELSE d) IN
    [times |-> [i \in 1..n |-> changes[i].ts - Head(events).ts], depth |-> FoldLeft(Step, <<>>, changes)]

\* The time buckets: as many as cover the duration; what falls behind the
\* last is counted in the last.
Buckets(events) ==
    LET n == (Duration(events) + TimeBucket - 1) \div TimeBucket IN IF n < 1 THEN 1 ELSE n
BucketOf(events, t) == Least((t - Head(events).ts) \div TimeBucket, Buckets(events) - 1)

\* compute_queue_depth_bucketed: the samples each bucket averages.
QdSamples(events, b) ==
    LET qd == compute_queue_depth(events) IN
    {i \in 1..Len(qd.times) : qd.times[i] >= b * TimeBucket /\ qd.times[i] < (b + 1) * TimeBucket}

Indices(events, actions) == {i \in 1..Len(events) : events[i].action \in actions}
compute_throughput(events, read) ==
    [b \in 0..Buckets(events) - 1 |->
        Total({i \in Indices(events, {"C"}) : events[i].read = read /\ BucketOf(events, events[i].ts) = b}, LAMBDA i : events[i].nblocks)]
compute_iops(events, read) ==
    [b \in 0..Buckets(events) - 1 |->
        Cardinality({i \in Indices(events, {"C"}) : events[i].read = read /\ BucketOf(events, events[i].ts) = b})]

\* compute_lba_heatmap: the cell of each queue and issue event.  It divides
\* by the duration.
HeatCell(events, i) ==
    LET io == {j \in Indices(events, {"Q", "D"}) : events[j].sector > 0}
        mx == CHOOSE m \in {events[j].sector : j \in io} : \A j \in io : events[j].sector <= m
        q == Least(200, Duration(events) \div TimeBucket)
        nt == IF q < 1 THEN 1 ELSE q IN
    <<Least((events[i].sector * LbaBins) \div (mx + 1), LbaBins - 1),
      Least(((events[i].ts - Head(events).ts) * nt) \div Duration(events), nt - 1), nt>>

\* _accumulate_lba_bins over the queue events with their whole extent: the
\* sectors of each bin, times LbaBins.  The range ends at the furthest end
\* that is not an outlier; a bin is mx / LbaBins wide; a request within one
\* bin is counted there whole, another is split by its overlaps.
Median2(ends) ==  \* twice the median of a sequence of ends
    LET n == Len(ends)
        Nth(k) == CHOOSE x \in Range(ends) : Cardinality({i \in 1..n : ends[i] < x}) < k /\ k <= Cardinality({i \in 1..n : ends[i] <= x}) IN
    IF n % 2 = 1 THEN 2 * Nth((n + 1) \div 2) ELSE Nth(n \div 2) + Nth(n \div 2 + 1)
RangeEnd(events) ==
    LET io == SelectSeq(events, LAMBDA e : e.action = "Q" /\ e.sector > 0 /\ e.nblocks > 0)
        ends == [i \in 1..Len(io) |-> io[i].sector + io[i].nblocks]
        inliers == {x \in Range(ends) : 2 * x <= Median2(ends) * Outlier} IN
    IF inliers # {} THEN Max(inliers) ELSE Max(Range(ends))
BinOf(x, mx) == Least((x * LbaBins) \div mx, LbaBins - 1)
LastBin(x, mx) == Least((x * LbaBins + mx - 1) \div mx - 1, LbaBins - 1)

\* As BinShare, but a bin counts to its end even where the request ends.
BinShareToEnd(e, mx, b) ==
    LET s == e.sector
        x == e.sector + e.nblocks
        ov == (b + 1) * mx - (IF s * LbaBins > b * mx THEN s * LbaBins ELSE b * mx) IN
    IF BinOf(s, mx) = LastBin(x, mx) THEN IF b = BinOf(s, mx) THEN e.nblocks * LbaBins ELSE 0
    ELSE IF b \in BinOf(s, mx)..LastBin(x, mx) /\ ov > 0 THEN ov ELSE 0

BinShare(e, mx, b) ==
    LET s == e.sector
        x == e.sector + e.nblocks
        ov == Least(x * LbaBins, (b + 1) * mx) - (IF s * LbaBins > b * mx THEN s * LbaBins ELSE b * mx) IN
    IF BinOf(s, mx) = LastBin(x, mx) THEN IF b = BinOf(s, mx) THEN e.nblocks * LbaBins ELSE 0
    ELSE IF b \in BinOf(s, mx)..LastBin(x, mx) /\ ov > 0 THEN ov ELSE 0

BinBytes(e, mx) == Total(0..LbaBins - 1, LAMBDA b : BinShare(e, mx, b))

\* analyze_iu_alignment of one queue event.
analyze_iu_alignment(e) ==
    LET Touched(u) == (e.sector + e.nblocks - 1) \div u - e.sector \div u + 1 IN
    [touched |-> Touched(IuSectors), ideal |-> (e.nblocks + IuSectors - 1) \div IuSectors,
     aligned |-> e.sector % IuSectors = 0 /\ e.nblocks % IuSectors = 0,
     sub_iu |-> ~e.read /\ e.nblocks < IuSectors,
     npwg_aligned |-> e.nblocks % NpwgSectors = 0 /\ e.nblocks >= NpwgSectors,
     npwg_start |-> e.sector % NpwgSectors = 0,
     awun_safe |-> e.read \/ Touched(AwunSectors) = 1]
\* compute_waf_over_time: units touched and ideal of the writes of a bucket.
WafOf(events, b) ==
    LET ws == {i \in Indices(events, {"Q"}) : ~events[i].read /\ BucketOf(events, events[i].ts) = b} IN
    <<Total(ws, LAMBDA i : analyze_iu_alignment(events[i]).touched), Total(ws, LAMBDA i : analyze_iu_alignment(events[i]).ideal)>>
\* compute_iu_quantization_histogram: the label of a size.
IuLabel(e) == IF e.nblocks < IuSectors THEN 0 ELSE IF e.nblocks <= 16 * IuSectors THEN e.nblocks \div IuSectors ELSE 17

\* compute_iu_summary: the writes that are sub-unit, aligned, crossing, and
\* amplified (their amplification is above 1).
compute_iu_summary(events) ==
    LET ws == {i \in Indices(events, {"Q"}) : ~events[i].read}
        a(i) == analyze_iu_alignment(events[i]) IN
    [writes |-> Cardinality(ws), sub_iu |-> Cardinality({i \in ws : a(i).sub_iu}),
     aligned |-> Cardinality({i \in ws : a(i).aligned}), crossing |-> Cardinality({i \in ws : a(i).touched > 1}),
     amplified |-> Cardinality({i \in ws : a(i).touched > a(i).ideal}),
     npwg_full |-> Cardinality({i \in ws : a(i).npwg_aligned /\ a(i).npwg_start}),
     awun_unsafe |-> Cardinality({i \in ws : ~a(i).awun_safe})]

\* The latencies of a lifecycle; none where a time is missing.
Span(a, b) == IF a = NoTime \/ b = NoTime THEN NoTime ELSE b - a
q2c(r) == Span(r.queue, r.complete)
d2c(r) == Span(r.issue, r.complete)
Positive(lat) == lat # NoTime /\ lat > 0
\* compute_latency_distributions: the lifecycles of each of the arrays.
compute_latency_distributions(done, read) ==
    LET mine == {i \in 1..Len(done) : done[i].read = read} IN
    [q2c |-> {i \in mine : Positive(q2c(done[i]))}, d2c |-> {i \in mine : Positive(d2c(done[i]))},
     q2d |-> {i \in mine : Positive(Span(done[i].queue, done[i].issue))}]
\* compute_latency_over_time: the lifecycles of each bucket, by issue or
\* else by queue time; a device latency of zero falls back to the total, and
\* an issue at time zero to the queue time, which may be missing.
compute_latency_over_time(events, done, read) ==
    LET Lat(r) == IF d2c(r) \in {NoTime, 0} THEN q2c(r) ELSE d2c(r)
        At(r) == IF r.issue \in {NoTime, 0} THEN r.queue ELSE r.issue IN
    [b \in 0..Buckets(events) - 1 |->
        {i \in 1..Len(done) : done[i].read = read /\ Positive(Lat(done[i])) /\ At(done[i]) # NoTime /\ BucketOf(events, At(done[i])) = b}]
\* compute_alignment_vs_latency: writes joined by their sectors with the
\* last queued write of the same sectors.
compute_alignment_vs_latency(events, done) ==
    LET As(r) == {analyze_iu_alignment(events[i]) : i \in {j \in Indices(events, {"Q"}) : ~events[j].read /\ Key(events[j]) = r.key}}
        ws == {i \in 1..Len(done) : ~done[i].read /\ Positive(d2c(done[i])) /\ As(done[i]) # {}} IN
    [aligned |-> {i \in ws : \A a \in As(done[i]) : a.aligned}, misaligned |-> {i \in ws : \E a \in As(done[i]) : ~a.aligned},
     sub_iu |-> {i \in ws : \E a \in As(done[i]) : a.sub_iu}]
\* compute_lba_histogram: the queue events of each of LbaBins equal segments
\* of 0..mx, the last one closed.
compute_lba_histogram(events, read) ==
    LET io == {i \in Indices(events, {"Q"}) : events[i].sector > 0}
        mx == Max({events[i].sector : i \in io}) IN
    [b \in 0..LbaBins - 1 |-> Cardinality({i \in io : events[i].read = read /\ BinOf(events[i].sector, mx) = b})]

----------------------------------------------------------------------------
\* A lifecycle the analyzer reports is that of one request: the times of its
\* queueing and issue are those of the request that completed, unless two
\* requests of the same sectors were under way at once; its times are in
\* order whatever happens; every positive latency is in the latency series,
\* but for requests queued before the trace and issued at its first instant.
\* A sub-unit write is a misaligned one.  The last depth is the number of
\* requests the trace leaves issued, unless requests were under way at its
\* start or steps fall on one time.
LifecyclesAreOwn ==
    blklines # <<>> =>
    LET events == load_trace
        done == completed_ios(events)
        qd == compute_queue_depth(events).depth
        distinct == \A i, j \in 1..Len(events) : i # j => events[i].ts # events[j].ts
        whole == \A i \in 1..Len(requests) : requests[i].queue # NoTime IN
    /\ ~twins => \A i \in 1..Len(done) : <<done[i].queue, done[i].issue>> = done[i].own
    /\ \A i \in 1..Len(done) :
        LET stamps == {t \in {done[i].queue, done[i].issue} : t # NoTime} IN \A t \in stamps : t <= done[i].complete
    /\ LET v == compute_alignment_vs_latency(events, done) IN v.sub_iu \subseteq v.misaligned /\ v.aligned \cap v.misaligned = {}
    /\ \A read \in BOOLEAN :
        LET d == compute_latency_distributions(done, read)
            series == compute_latency_over_time(events, done, read)
            timeless == {i \in 1..Len(done) : done[i].queue = NoTime /\ done[i].issue = 0} IN
        /\ d.d2c \cap d.q2d \subseteq d.q2c
        /\ UNION {series[b] : b \in DOMAIN series} = (d.q2c \cup d.d2c) \ timeless
    /\ distinct /\ whole /\ qd # <<>> => Last(qd) = Cardinality({i \in 1..Len(requests) : requests[i].stage = "D"})

\* Every completion is in exactly one time bucket of the throughput and IOPS
\* series, every depth sample in one of the depth series unless it falls on
\* the end of the last, and every heatmap cell exists; alignment costs a request at most
\* one unit more than its size needs, and an aligned one none, so a bucket's
\* amplification is at least 1; and the sectors of a request are split over
\* the bins without loss when it ends within the range (beyond it the code
\* loses sectors that its text says are conserved).
SeriesAddUp ==
    blklines # <<>> =>
    LET events == load_trace
        bs == 0..Buckets(events) - 1
        cs == Indices(events, {"C"})
        mb == [r \in BOOLEAN |-> compute_throughput(events, r)]
        iops == [r \in BOOLEAN |-> compute_iops(events, r)]
        mx == RangeEnd(events) IN
    /\ Total(bs, LAMBDA b : mb[TRUE][b] + mb[FALSE][b]) = Total(cs, LAMBDA i : events[i].nblocks)
    /\ Total(bs, LAMBDA b : iops[TRUE][b] + iops[FALSE][b]) = Cardinality(cs)
    /\ LET times == compute_queue_depth(events).times
           samples == [b \in bs |-> QdSamples(events, b)] IN
       \A i \in 1..Len(times) :
         \/ Cardinality({b \in bs : i \in samples[b]}) = 1
         \/ times[i] = Duration(events) /\ Duration(events) % TimeBucket = 0
    /\ Duration(events) > 0 =>
        \A i \in {j \in Indices(events, {"Q", "D"}) : events[j].sector > 0} :
            LET c == HeatCell(events, i) IN c[1] \in 0..LbaBins - 1 /\ c[2] \in 0..c[3] - 1
    /\ \A i \in Indices(events, {"Q"}) :
        LET r == analyze_iu_alignment(events[i])
            end == events[i].sector + events[i].nblocks IN
        /\ r.touched \in {r.ideal, r.ideal + 1} /\ (r.aligned => r.touched = r.ideal /\ ~r.sub_iu)
        /\ (r.sub_iu => IuLabel(events[i]) = 0) /\ (r.aligned /\ r.ideal <= 16 => IuLabel(events[i]) = r.ideal)
        /\ events[i].sector > 0 /\ end <= mx => BinBytes(events[i], mx) = events[i].nblocks * LbaBins
    /\ (\E i \in Indices(events, {"Q"}) : events[i].sector > 0) =>
        LET h == [r \in BOOLEAN |-> compute_lba_histogram(events, r)] IN
        Total(0..LbaBins - 1, LAMBDA b : h[TRUE][b] + h[FALSE][b]) = Cardinality({i \in Indices(events, {"Q"}) : events[i].sector > 0})
    /\ LET u == compute_iu_summary(events) IN u.aligned + u.amplified <= u.writes /\ u.aligned + u.sub_iu <= u.writes
    /\ \A b \in bs : LET w == WafOf(events, b) IN w[1] >= w[2]

\* What the analyzer reports of requests and of the whole trace is true of
\* the trace (BlktraceAnalyzer).
AnalysisIsTrue == LifecyclesAreOwn /\ SeriesAddUp


----------------------------------------------------------------------------
(***************************************************************************)
(* analyzers/blktrace_compare.py: how faithfully a replay's block trace    *)
(* follows the capture's.  Both start at their first event and are         *)
(* compared over the shorter of the two durations; a rate is kept as the   *)
(* count of its bucket.                                                    *)
(***************************************************************************)

Common(cap, rep) == Least(Duration(cap), Duration(rep))

\* The buckets of a duration, and the bucket of a queue event: what comes
\* after the duration is counted in the last.
BucketsIn(dur) == LET n == (dur + TimeBucket - 1) \div TimeBucket IN IF n < 1 THEN 1 ELSE n
QueuedIn(events, dur, b) ==
    {i \in Indices(events, {"Q"}) :
        events[i].nblocks > 0 /\ Least((events[i].ts - Head(events).ts) \div TimeBucket, BucketsIn(dur) - 1) = b}

extract_q_event_rate(events, dur) ==
    [b \in 0..BucketsIn(dur) - 1 |->
        [read \in BOOLEAN |-> Cardinality({i \in QueuedIn(events, dur, b) : events[i].read = read})]]

\* As extract_cumulative_ios, a bucket not carrying what came before it.
PerBucketIos(events, dur) ==
    [b \in 0..BucketsIn(dur) - 1 |->
        LET upto == QueuedIn(events, dur, b)
        IN [count |-> Cardinality(upto), bytes |-> Total(upto, LAMBDA i : events[i].nblocks)]]

extract_cumulative_ios(events, dur) ==
    [b \in 0..BucketsIn(dur) - 1 |->
        LET upto == UNION {QueuedIn(events, dur, c) : c \in 0..b}
        IN [count |-> Cardinality(upto), bytes |-> Total(upto, LAMBDA i : events[i].nblocks)]]

extract_io_sizes(events) ==
    LET q == SelectSeq(events, LAMBDA e : e.action = "Q" /\ e.nblocks > 0) IN [i \in DOMAIN q |-> q[i].nblocks]

\* plot_q_event_rate: capture less replay in each bucket.
Residual(cap, rep) ==
    LET dur == Common(cap, rep)
        c == extract_q_event_rate(cap, dur)
        r == extract_q_event_rate(rep, dur)
    IN [b \in DOMAIN c |-> c[b][TRUE] + c[b][FALSE] - r[b][TRUE] - r[b][FALSE]]

\* plot_throughput_iops_comparison: each trace in its own buckets, as many
\* as both have.
IopsResidual(cap, rep) ==
    LET c == [read \in BOOLEAN |-> compute_iops(cap, read)]
        r == [read \in BOOLEAN |-> compute_iops(rep, read)]
    IN [b \in 0..Least(Buckets(cap), Buckets(rep)) - 1 |-> c[TRUE][b] + c[FALSE][b] - r[TRUE][b] - r[FALSE][b]]

\* plot_cumulative_drift: the final drift of count and bytes.
FinalDrift(cap, rep) ==
    LET dur == Common(cap, rep)
        end == BucketsIn(dur) - 1
        c == extract_cumulative_ios(cap, dur)[end]
        r == extract_cumulative_ios(rep, dur)[end]
    IN [count |-> c.count - r.count, bytes |-> c.bytes - r.bytes]

\* extract_lba_heatmap: the cell of each queue event above sector zero, the
\* sectors scaled to the furthest of either trace.
extract_lba_heatmap(events, dur, mx) ==
    LET q == Least(200, dur \div TimeBucket)
        nt == IF q < 1 THEN 1 ELSE q
        Cell(e) == <<Least((e.sector * LbaBins) \div (mx + 1), LbaBins - 1), Least(((e.ts - Head(events).ts) * nt) \div dur, nt - 1)>>
        io == {i \in Indices(events, {"Q"}) : events[i].nblocks > 0 /\ events[i].sector > 0}
    IN [c \in (0..LbaBins - 1) \X (0..nt - 1) |-> Cardinality({i \in io : Cell(events[i]) = c})]

\* ks_stat, times the two lengths: the largest difference of the cumulative
\* distributions at any sample; 1 when a side has none.
ks_stat(x, y) ==
    LET Below(s, v) == Cardinality({i \in DOMAIN s : s[i] <= v})
        Gap(v) == LET g == Below(x, v) * Len(y) - Below(y, v) * Len(x) IN IF g < 0 THEN -g ELSE g
    IN IF x = <<>> \/ y = <<>> THEN 1 ELSE Max({Gap(v) : v \in Range(x) \cup Range(y)})

----------------------------------------------------------------------------
\* Replays of a capture: one that dies after k lines, one at half its speed.
Stopped(events, k) == SubSeq(events, 1, k)
Slowed(events) == [i \in DOMAIN events |-> [events[i] EXCEPT !.ts = 2 * @]]

\* The queue events up to the end of bucket b, within a duration.
InTime(events, dur, b) ==
    {i \in Indices(events, {"Q"}) :
        LET t == events[i].ts - Head(events).ts IN t < (b + 1) * TimeBucket /\ t <= dur}

\* The comparison tells a faithful replay from the others: against itself a
\* trace shows no difference and is in the heatmap whole; of a replay that
\* dies early the buckets before the last of the shared time show none, and
\* the final drift is at least what it missed within the shared time and at
\* most what it missed; one at half speed never runs ahead.  A cumulative
\* series counts the queue events of the shared time up to each bucket.  Of
\* events beyond the shared time nothing is claimed: the module's text
\* excludes them, the series have them in their last bucket.
ComparisonIsTrue ==
    blklines # <<>> =>
    LET cap == load_trace
        Zero(f, S) == \A b \in S : f[b] = 0
        Queued(events) == Cardinality(Indices(events, {"Q"}))
        sizes == extract_io_sizes(cap)
        own == Residual(cap, cap)
        Counts(events, dur) ==
            LET c == extract_cumulative_ios(events, dur)
                end == BucketsIn(dur) - 1
            IN \A b \in DOMAIN c :
                  LET n == Cardinality(InTime(events, dur, b))
                  IN IF b = end THEN c[b].count >= n ELSE c[b].count = n
    IN /\ Zero(own, DOMAIN own)
       /\ sizes # <<>> => ks_stat(sizes, sizes) = 0
       /\ \A k \in DOMAIN cap :
            LET rep == Stopped(cap, k)
                dur == Common(cap, rep)
                res == Residual(cap, rep)
                iops == IopsResidual(cap, rep)
                end == BucketsIn(dur) - 1
                missed == Cardinality(InTime(cap, dur, end)) - Queued(rep)
                short == extract_io_sizes(rep)
                gap == ks_stat(short, sizes)
            IN /\ Zero(res, DOMAIN res \ {end}) /\ Zero(iops, DOMAIN iops \ {Cardinality(DOMAIN iops) - 1})
               /\ FinalDrift(cap, rep).count \in missed..Queued(cap) - Queued(rep)
               /\ Counts(cap, dur) /\ Counts(rep, dur)
               /\ short # <<>> => gap = ks_stat(sizes, short) /\ gap <= Len(sizes) * Len(short)
       /\ LET rep == Slowed(cap)
              dur == Common(cap, rep)
              c == extract_cumulative_ios(cap, dur)
              r == extract_cumulative_ios(rep, dur)
              io == {i \in Indices(cap, {"Q"}) : cap[i].sector > 0}
          IN /\ Counts(rep, dur)
             /\ \A b \in DOMAIN c : c[b].count >= r[b].count /\ c[b].bytes >= r[b].bytes
             /\ dur > 0 /\ io # {} =>
                  LET h == extract_lba_heatmap(cap, dur, Max({cap[i].sector : i \in io}))
                  IN Total(DOMAIN h, LAMBDA x : h[x]) = Cardinality(io)
============================================================================
