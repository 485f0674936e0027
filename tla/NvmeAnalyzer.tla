---------------------------- MODULE NvmeAnalyzer ----------------------------
(***************************************************************************)
(* analyzers/nvme_io_analyzer.py: BlktraceParser reads a block trace line  *)
(* by line, in the order of the file, and LiveCollector polls the counters *)
(* of a disk.                                                              *)
(*                                                                         *)
(* A line carries the number of its event on its CPU.  A rate is kept as   *)
(* the change of a counter and the time it took.                           *)
(***************************************************************************)
EXTENDS BlktraceAnalysis

CONSTANTS
    MaxPlotEvents,  \* MAX_PLOT_EVENTS
    MaxQdSamples,   \* MAX_QD_SAMPLES
    LiveDuration,   \* --duration, in intervals
    MaxDiskIos,     \* bound on the requests of the disk
    MaxReplugs      \* bound on how often the disk goes away and comes back

----------------------------------------------------------------------------
(* BlktraceParser.                                                         *)

\* The number of an event on its CPU: all on one, or completions on another.
LineSeq(i, cpus) ==
    Cardinality({j \in 1..i : cpus = 1 \/ (blklines[j].action = "C") = (blklines[i].action = "C")})

ParseStart == [q_seq |-> <<>>, q_lba |-> <<>>, inflight |-> 0, qd |-> <<>>, stride |-> 1, counter |-> 0,
               size_hist |-> [r \in BOOLEAN |-> 0], lat |-> {}, comp_count |-> 0]
EntryPut(f, k, v) == [x \in DOMAIN f \cup {k} |-> IF x = k THEN v ELSE f[x]]
EntryDrop(f, k) == [x \in DOMAIN f \ {k} |-> f[x]]
\* A sample of the depth, every stride-th step; a full list is halved when a
\* request is queued.
QdSample(st, depth, halve) ==
    LET n == st.counter + 1
        more == Append(st.qd, depth)
        taken == n % st.stride = 0
        full == taken /\ halve /\ Len(more) >= MaxQdSamples IN
    [st EXCEPT !.counter = n, !.inflight = depth, !.stride = IF full THEN 2 * @ ELSE @,
               !.qd = IF full THEN [i \in 1..(Len(more) + 1) \div 2 |-> more[2 * i - 1]] ELSE IF taken THEN more ELSE @]

\* The request a completion is taken for: the one queued under its number,
\* else the one last queued at its sector.
MatchOf(st, seq, l) ==
    CASE seq \in DOMAIN st.q_seq -> st.q_seq[seq]
      [] seq \notin DOMAIN st.q_seq /\ l.sector \in DOMAIN st.q_lba -> st.q_lba[l.sector]
      [] OTHER -> NoTime

\* One line.  An entry found by number leaves both tables, one found by
\* sector only that one.
ParseLine(st, l, seq) ==
    LET m == MatchOf(st, seq, l)
        depth == IF st.inflight = 0 THEN 0 ELSE st.inflight - 1
        rest == CASE seq \in DOMAIN st.q_seq -> [st EXCEPT !.q_seq = EntryDrop(@, seq), !.q_lba = EntryDrop(@, m.lba)]
                  [] OTHER -> [st EXCEPT !.q_lba = EntryDrop(@, l.sector)]
        read == IF m = NoTime THEN l.read ELSE m.read
        e == [ts |-> l.ts, read |-> l.read, lba |-> l.sector, id |-> l.id] IN
    CASE l.action = "Q" -> QdSample([st EXCEPT !.q_seq = EntryPut(@, seq, e), !.q_lba = EntryPut(@, l.sector, e)], st.inflight + 1, TRUE)
      [] l.action = "C" -> [QdSample(rest, depth, FALSE) EXCEPT
                              !.size_hist[read] = @ + 1, !.comp_count = @ + 1,
                              !.lat = IF m = NoTime THEN @ ELSE @ \cup {[of |-> l.id, from |-> m.id, ms |-> l.ts - m.ts]}]
      [] l.action = "D" -> [st EXCEPT !.comp_count = @ + 1]
_parse(cpus) == FoldLeft(LAMBDA st, i : ParseLine(st, blklines[i], LineSeq(i, cpus)), ParseStart, [i \in 1..Len(blklines) |-> i])

\* The rows of the data frame: a reservoir of at most max_events.
RowsKept(st) == Least(st.comp_count, MaxPlotEvents)

----------------------------------------------------------------------------
(* FtraceIOCollector, which here traces block requests only: issues and    *)
(* completions, the lines D and C, known by their sector.                  *)

BlockReadStart == [inflight |-> <<>>, issued |-> 0, lat |-> {}]
BlockReadStep(st, l) ==
    CASE l.action = "D" -> [st EXCEPT !.issued = @ + 1, !.inflight = EntryPut(@, l.sector, [ts |-> l.ts, id |-> l.id])]
      [] l.action = "C" /\ l.sector \in DOMAIN st.inflight ->
            LET e == st.inflight[l.sector] IN
            [st EXCEPT !.inflight = EntryDrop(@, l.sector),
                       !.lat = IF l.ts > e.ts THEN @ \cup {[of |-> l.id, from |-> e.id]} ELSE @]
      [] OTHER -> st
_reader == FoldLeft(BlockReadStep, BlockReadStart, blklines)

\* The files of tracefs it uses, in the order they are restored; 2 is a
\* filter of its own.
BlockFiles == <<"tracing_on", "issue_enable", "comp_enable", "issue_filter", "comp_filter">>
BlockFilters == <<"issue_filter", "comp_filter">>
BlockEvents == <<"issue_enable", "comp_enable">>
\* The value each file takes, in order.
Written(names, v) == [i \in 1..Len(names) |-> [file |-> names[i], value |-> v[names[i]]]]
UntilBad(names, bad) ==
    SubSeq(names, 1, CHOOSE n \in 0..Len(names) : (\A i \in 1..n : names[i] \notin bad) /\ (n < Len(names) => names[n + 1] \in bad))
\* What could be read of it.
BlockSaved(t, unread) == [f \in DOMAIN t |-> IF f \in unread THEN NoTime ELSE t[f]]
\* What collect writes, with some files unreadable and some not writable:
\* filters where the file takes them; events and tracing up to one that fails;
\* the events off after the sampling loop; and, in any case, what was read.
BlockWrites(t, unread, bad) ==
    LET saved == BlockSaved(t, unread)
        switches == BlockEvents \o <<"tracing_on">>
        To(v) == [f \in DOMAIN t |-> v] IN
    Written(SelectSeq(BlockFilters, LAMBDA f : f \notin bad), To(2))
        \o Written(UntilBad(switches, bad), To(1))
        \o (IF UntilBad(switches, bad) = switches THEN Written(BlockEvents, To(0)) ELSE <<>>)
        \o Written(SelectSeq(BlockFiles, LAMBDA f : f \notin bad /\ saved[f] # NoTime), saved)
\* tracefs after the first n of them: collect stops early on a Ctrl+C outside
\* its sampling loop, where only errors of the writes are caught.
BlockCollect(t, unread, bad, n) ==
    FoldLeft(LAMBDA s, w : [s EXCEPT ![w.file] = w.value], t, SubSeq(BlockWrites(t, unread, bad), 1, n))

----------------------------------------------------------------------------
(* LiveCollector.                                                          *)

VARIABLES
    disk,      \* [ios, sect, present] of /proc/diskstats
    live,      \* [at: "start" | "sleep" | "read" | "done" | "failed", prev, prev_ts, now, first]
    polls,     \* samples: [ts, d_ios, d_sect, dt]
    replugs    \* how often the disk was registered anew

liveVars == <<disk, live, polls, replugs>>

LiveInit ==
    /\ disk \in {[ios |-> 1, sect |-> 8, present |-> TRUE], [ios |-> 0, sect |-> 0, present |-> FALSE]}
    /\ live = [at |-> "start", prev |-> disk, prev_ts |-> 0, now |-> 0, first |-> disk]
    /\ polls = <<>> /\ replugs = 0

\* The disk.
DiskIo(sect) ==
    /\ disk.present /\ disk.ios < MaxDiskIos
    /\ disk' = [disk EXCEPT !.ios = @ + 1, !.sect = @ + sect]
    /\ UNCHANGED <<live, polls, replugs>>
Unplug == disk.present /\ replugs < MaxReplugs /\ disk' = [disk EXCEPT !.present = FALSE] /\ UNCHANGED <<live, polls, replugs>>
Replug ==
    /\ ~disk.present /\ replugs < MaxReplugs
    /\ disk' = [ios |-> 0, sect |-> 0, present |-> TRUE] /\ replugs' = replugs + 1
    /\ UNCHANGED <<live, polls>>

\* The first reading; an unknown disk is an error.
StartCollect ==
    /\ live.at = "start"
    /\ live' = [live EXCEPT !.at = IF disk.present THEN "sleep" ELSE "failed", !.prev = disk, !.first = disk]
    /\ UNCHANGED <<disk, polls, replugs>>
\* Another interval; the loop ends with the duration.
Wake ==
    /\ live.at = "sleep"
    /\ live' = IF live.now < LiveDuration THEN [live EXCEPT !.at = "read", !.now = @ + 1]
               ELSE [live EXCEPT !.at = IF polls = <<>> THEN "failed" ELSE "done"]
    /\ UNCHANGED <<disk, polls, replugs>>
\* The counters, read after the clock; a disk that is gone is skipped.
Poll ==
    /\ live.at = "read"
    /\ IF disk.present
       THEN /\ polls' = Append(polls, [ts |-> live.now, d_ios |-> disk.ios - live.prev.ios,
                                       d_sect |-> disk.sect - live.prev.sect, dt |-> live.now - live.prev_ts])
            /\ live' = [live EXCEPT !.at = "sleep", !.prev = disk, !.prev_ts = live.now]
       ELSE live' = [live EXCEPT !.at = "sleep"] /\ UNCHANGED polls
    /\ UNCHANGED <<disk, replugs>>
\* Ctrl+C: what was sampled is drawn.
StopCollect ==
    /\ live.at \in {"sleep", "read"}
    /\ live' = [live EXCEPT !.at = IF polls = <<>> THEN "failed" ELSE "done"]
    /\ UNCHANGED <<disk, polls, replugs>>

LiveNext ==
    \/ DiskIo(1) \/ DiskIo(8) \/ Unplug \/ Replug
    \/ StartCollect \/ Wake \/ Poll \/ StopCollect

----------------------------------------------------------------------------
\* Whatever rows the parser keeps, its histograms count every completion,
\* its depth ends at the requests queued and not completed, or above where
\* completions were printed first, and it knows when it sampled.  On one
\* CPU, where no two lines share a number, a completion is matched with its
\* own request, and a request once, unless two at one sector were under way.
ParserCountsAll ==
    LET Of(action) == Cardinality({i \in 1..Len(blklines) : blklines[i].action = action})
        lone == \A i, j \in 1..Len(requests) : i # j => requests[i].extent[1] # requests[j].extent[1] IN
    \A cpus \in {1, 2} :
        LET st == _parse(cpus) IN
        /\ st.size_hist[TRUE] + st.size_hist[FALSE] = Of("C")
        /\ st.comp_count = Of("C") + Of("D") /\ RowsKept(st) <= MaxPlotEvents
        /\ st.inflight >= Of("Q") - Of("C")
        /\ (\A k \in 1..Len(blklines) :
               Cardinality({i \in 1..k : blklines[i].action = "C"}) <= Cardinality({i \in 1..k : blklines[i].action = "Q"}))
           => st.inflight = Of("Q") - Of("C")
        /\ cpus = 1 /\ lone => /\ \A x \in st.lat : x.of = x.from
                               /\ \A x, y \in st.lat : x.from = y.from => x = y

\* The polls account for all the disk did between the first reading and the
\* last one, over all of the time, a poll skipped or not; a change is only
\* ever negative when the disk was registered anew.
PollsAccountForAll ==
    LET Sum(field) == FoldLeft(LAMBDA acc, s : acc + s[field], 0, polls) IN
    /\ Sum("d_ios") = live.prev.ios - live.first.ios /\ Sum("d_sect") = live.prev.sect - live.first.sect
    /\ Sum("dt") = live.prev_ts
    /\ replugs = 0 => \A i \in 1..Len(polls) : polls[i].d_ios >= 0 /\ polls[i].d_sect >= 0
    /\ live.at = "done" => polls # <<>>

\* The block collector counts every issue, gives a completion the latency of
\* its own request unless another was issued at the sector meanwhile, and
\* holds no more requests than were issued and not completed
\* (FtraceIOCollector).
BlockTraceIsTrue ==
    LET r == _reader
        Of(action) == {i \in 1..Len(blklines) : blklines[i].action = action} IN
    /\ r.issued = Cardinality(Of("D"))
    /\ \A x \in r.lat : x.of # x.from => requests[x.of].extent[1] = requests[x.from].extent[1] /\ requests[x.from].issue # NoTime
    /\ \A k \in DOMAIN r.inflight : \E i \in Of("D") : blklines[i].sector = k
    /\ (\A i, j \in 1..Len(requests) : i # j => requests[i].extent[1] # requests[j].extent[1])
       => /\ \A x \in r.lat : x.of = x.from
          /\ \A k \in DOMAIN r.inflight : \E i \in Of("D") :
                /\ blklines[i].sector = k /\ \A j \in Of("C") : blklines[j].id = blklines[i].id => j < i

\* Whatever tracefs held before, and whichever file refuses to be written or
\* read, each file that could be read ends as it was; a Ctrl+C outside the
\* sampling loop leaves no file other than it was or as collect sets it, and
\* none once the last write is made (FtraceIOCollector).
BlockCollectRestores ==
    LET names == {BlockFiles[i] : i \in 1..Len(BlockFiles)}
        one == {{}} \cup {{f} : f \in names} IN
    \A t \in [names -> {0, 1}], unread \in one, bad \in one :
        LET all == Len(BlockWrites(t, unread, bad)) IN
        /\ \A f \in names \ unread : BlockCollect(t, unread, bad, all)[f] = t[f]
        /\ \A n \in 0..all, f \in names :
              LET v == BlockCollect(t, unread, bad, n)[f] IN
              v # t[f] => f \notin bad /\ (f \in unread \/ n < all) /\ v \in (IF f \in Range(BlockFilters) THEN {2} ELSE {0, 1})

\* What the analyzers report of requests, of a whole trace and of a disk is
\* true of them (BlktraceAnalyzer, blktrace_compare, BlktraceParser,
\* FtraceIOCollector, LiveCollector).
AnalysesAreTrue ==
    /\ blklines # <<>> => AnalysisIsTrue /\ ComparisonIsTrue /\ ParserCountsAll /\ BlockTraceIsTrue
    /\ PollsAccountForAll /\ BlockCollectRestores
============================================================================
