-------------------------- MODULE FtraceCollector --------------------------
(***************************************************************************)
(* FtraceIOCollector of nvme_io_analyzer_nvme_tracepoint_patch.py: the     *)
(* main thread switches tracepoints on in tracefs, a reader thread pairs   *)
(* the records of trace_pipe while the main thread waits, and the main     *)
(* thread puts tracefs back.                                               *)
(*                                                                         *)
(* The device issues commands of its own accord; the kernel writes a line  *)
(* for each into trace_pipe while the tracepoint is enabled, or drops it   *)
(* when the buffer is full.  Block requests and NVMe commands are both     *)
(* traced; a block request is known by its sectors, an NVMe command by     *)
(* controller, queue and command number.                                   *)
(***************************************************************************)
EXTENDS Integers, Sequences, FiniteSets, SequencesExt

CONSTANTS
    None, NoCommand,
    TracedDevice,     \* [disk, part, ctrl, generic]: the device asked for; part = 0 for a namespace
    PartitionsOf,     \* disk -> the partitions in /sys/block
    Extents,          \* <<sector, sectors>> of block requests
    NvmeKeys,         \* <<ctrl, qid, cmdid>> of NVMe commands
    Commands,         \* [op, slba, len] of NVMe commands; slba = None if the command has none
    Settings,         \* what tracefs may hold when collect begins
    Brokens,          \* sets of files that may reject writes
    Unreadables,      \* sets of files that may not be readable
    OtherDisk,        \* a disk that is not traced
    LogicalBlockSize, SectorBytes, ZoneSecs, NLba,
    MaxPending,       \* max_nvme_pending
    PendingTimeout,   \* pending_timeout_sec
    PruneEvery,       \* the 0x4000 setups between prunes
    MaxSamples,       \* max_nvme_samples
    MaxLines,         \* bound on the lines of a behaviour
    MaxBlockLines,    \* bound on its lines up to the last one of a block request
    MaxTime           \* bound on the clock

ASSUME CollectorAssumption ==
    /\ MaxPending \in Nat \ {0} /\ PruneEvery \in Nat \ {0} /\ PendingTimeout \in Nat
    /\ None \notin 0..2
    /\ MaxSamples \in Nat /\ MaxLines \in Nat /\ MaxTime \in Nat /\ NLba \in Nat \ {0} /\ ZoneSecs \in Nat \ {0}

Events == <<"issue_enable", "comp_enable", "nvme_setup_enable", "nvme_comp_enable">>
Filters == <<"issue_filter", "comp_filter">>
TracefsFiles == {"tracing_on"} \cup Range(Events) \cup Range(Filters)

VARIABLES
    tracefs,        \* file -> value: 0 or 1; 2 for a filter that is ours
    broken,         \* the files that reject writes
    before,         \* history: tracefs when collect began
    state,          \* file -> what _save_restore read, None where it could not
    collector,      \* where collect is
    reader,         \* where the reader thread is
    stop_flag,
    trace_pipe,
    busy,           \* history: NVMe commands under way, key -> [ts, disk]
    clock, made,    \* trace clock; lines made so far
    lostSetups,     \* history: the line of a setup was dropped
    inflight,       \* extent -> [ts, op] of block requests
    nvme_inflight,  \* NVMe commands, <<[key, ts, op, sector, bytes]>> in dictionary order
    counts,         \* nvme_summary and the block histograms' totals
    nvme_lba_hist,  \* <<op, zone>> -> commands
    samples         \* <<latency measured, real latency>> kept by the reservoir

readerVars2 == <<inflight, nvme_inflight, counts, nvme_lba_hist, samples>>
kernelVars == <<trace_pipe, busy, clock, made, lostSetups>>
collectVars == <<tracefs, broken, before, state, collector, stop_flag>>
ftraceVars == <<collectVars, reader, kernelVars, readerVars2>>

Zones == {"read", "write"} \X (0..NLba - 1)
FtraceInit ==
    /\ tracefs \in Settings /\ broken \in Brokens
    /\ before = tracefs /\ state = <<>> /\ collector = "begin" /\ reader = "none" /\ stop_flag = FALSE
    /\ trace_pipe = <<>> /\ busy = <<>> /\ clock = 1 /\ made = 0 /\ lostSetups = FALSE
    /\ inflight = <<>> /\ nvme_inflight = <<>> /\ samples = <<>> /\ nvme_lba_hist = [z \in Zones |-> 0]
    /\ counts = [setup |-> 0, complete |-> 0, matched |-> 0, expired |-> 0, evicted |-> 0, seen |-> 0, issued |-> 0, timed |-> 0]

Put(f, k, v) == [x \in DOMAIN f \cup {k} |-> IF x = k THEN v ELSE f[x]]
Pop(f, k) == [x \in DOMAIN f \ {k} |-> f[x]]

----------------------------------------------------------------------------
(* The device and the kernel.                                              *)

\* A line reaches trace_pipe if its tracepoint is on, unless it is dropped.
\* The clock may stand still between two lines.
Traced(file, line) ==
    /\ made < MaxLines /\ made' = made + 1
    /\ clock' \in {t \in clock..clock + 1 : t <= MaxTime}
    /\ IF tracefs["tracing_on"] = 1 /\ tracefs[file] = 1
       THEN \E drop \in BOOLEAN :
               /\ trace_pipe' = IF drop THEN trace_pipe ELSE Append(trace_pipe, line)
               /\ lostSetups' = (lostSetups \/ (drop /\ line.kind = "setup"))
       ELSE UNCHANGED <<trace_pipe, lostSetups>>

\* Every line in one record: a command or request, its device and its key;
\* since when a completed command was under way is history.
Line(kind, key, disk, op, since) ==
    [kind |-> kind, key |-> key, disk |-> disk, cmd |-> op, ts |-> clock', since |-> since]

NvmeSetup(key, cmd, disk) ==
    /\ key \notin DOMAIN busy
    /\ Traced("nvme_setup_enable", Line("setup", key, disk, cmd, 0))
    /\ busy' = Put(busy, key, [ts |-> clock', disk |-> disk])
NvmeComplete(key) ==
    /\ key \in DOMAIN busy
    /\ Traced("nvme_comp_enable", Line("complete", key, busy[key].disk, NoCommand, busy[key].ts))
    /\ busy' = Pop(busy, key)
BlockIssue(e, op, disk) == Traced("issue_enable", Line("issue", e, disk, [op |-> op], 0)) /\ UNCHANGED busy
BlockComplete(e, disk) == Traced("comp_enable", Line("comp", e, disk, NoCommand, 0)) /\ UNCHANGED busy

DeviceStep ==
    /\ collector = "running"
    /\ \/ \E key \in NvmeKeys, cmd \in Commands, disk \in {<<TracedDevice.disk, 0>>, None} : NvmeSetup(key, cmd, disk)
       \/ \E key \in NvmeKeys : NvmeComplete(key)
       \/ /\ made < MaxBlockLines
          /\ \E e \in Extents :
                \/ \E disk \in {TracedDevice.disk, OtherDisk} : BlockIssue(e, "read", <<disk, 0>>)
                \/ BlockComplete(e, <<TracedDevice.disk, 0>>)
    /\ UNCHANGED <<collectVars, reader, readerVars2>>

----------------------------------------------------------------------------
(* The device the collector accepts lines of.                              *)

\* /dev/ng0n1 is traced as nvme0n1.
Self == [TracedDevice EXCEPT !.generic = FALSE]
\* A namespace accepts its partitions, a partition only itself.
allowed_block_devs ==
    {<<Self.disk, Self.part>>} \cup (IF Self.part # 0 THEN {} ELSE {<<Self.disk, q>> : q \in PartitionsOf[Self.disk]})
\* A line with a disk name must be of the device itself; one without is
\* matched by its controller.
nvme_line_is_for_device(line) ==
    IF line.disk # None THEN line.disk = <<Self.disk, Self.part>> ELSE line.key[1] = Self.ctrl

\* Sector and bytes of a command; len counts from zero.
nvme_cmd_lba_size(cmd) ==
    IF cmd.slba = None THEN [sector |-> None, bytes |-> None]
    ELSE [sector |-> (cmd.slba * LogicalBlockSize) \div SectorBytes, bytes |-> (cmd.len + 1) * LogicalBlockSize]

----------------------------------------------------------------------------
(* The reader thread.                                                      *)

ReaderCheck ==
    /\ reader = "check"
    /\ reader' = IF stop_flag THEN "ended" ELSE "readline"
    /\ UNCHANGED <<collectVars, kernelVars, readerVars2>>

\* The counters of nvme_summary and of the block histograms go up.
CountUp(by) == [c \in DOMAIN counts |-> IF c \in DOMAIN by THEN counts[c] + by[c] ELSE counts[c]]

OnIssue(line) ==
    /\ IF line.disk \in allowed_block_devs
       THEN /\ counts' = CountUp([issued |-> 1])
            /\ inflight' = Put(inflight, line.key, [ts |-> line.ts, op |-> line.cmd.op])
       ELSE UNCHANGED <<counts, inflight>>
    /\ UNCHANGED <<nvme_inflight, nvme_lba_hist, samples>>

OnComp(line) ==
    /\ IF line.disk \in allowed_block_devs /\ line.key \in DOMAIN inflight
       THEN /\ inflight' = Pop(inflight, line.key)
            /\ counts' = CountUp([timed |-> IF line.ts > inflight[line.key].ts /\ inflight[line.key].op # "other"
                                           THEN 1 ELSE 0])
       ELSE UNCHANGED <<counts, inflight>>
    /\ UNCHANGED <<nvme_inflight, nvme_lba_hist, samples>>

\* Expiry stops at the first command that is young enough; then the oldest
\* places are evicted until MaxPending are left.
Expired(q, t) ==
    IF PendingTimeout = 0 THEN 0
    ELSE LET old(i) == q[i].ts < t - PendingTimeout IN
         CHOOSE n \in 0..Len(q) : (\A i \in 1..n : old(i)) /\ (n < Len(q) => ~old(n + 1))
Prune(q, t) ==
    LET n == Expired(q, t)
        left == SubSeq(q, n + 1, Len(q))
        m == IF Len(left) > MaxPending THEN Len(left) - MaxPending ELSE 0 IN
    [queue |-> SubSeq(left, m + 1, Len(left)), expired |-> n, evicted |-> m]

\* A key that is still pending keeps its place in the dictionary.
Positions(q, key) == {i \in 1..Len(q) : q[i].key = key}
OnSetup(line) ==
    /\ IF nvme_line_is_for_device(line)
       THEN LET size == nvme_cmd_lba_size(line.cmd)
                e == [key |-> line.key, ts |-> line.ts, op |-> line.cmd.op, sector |-> size.sector, bytes |-> size.bytes]
                at == Positions(nvme_inflight, line.key)
                q == IF at = {} THEN Append(nvme_inflight, e) ELSE [i \in 1..Len(nvme_inflight) |-> IF i \in at THEN e ELSE nvme_inflight[i]]
                p == IF (counts.setup + 1) % PruneEvery = 0 THEN Prune(q, line.ts) ELSE [queue |-> q, expired |-> 0, evicted |-> 0] IN
            /\ nvme_inflight' = p.queue
            /\ counts' = CountUp([setup |-> 1, expired |-> p.expired, evicted |-> p.evicted])
       ELSE UNCHANGED <<nvme_inflight, counts>>
    /\ UNCHANGED <<inflight, nvme_lba_hist, samples>>

\* Algorithm R over the latencies seen.
ReservoirAdd(x, seen) ==
    \/ Len(samples) < MaxSamples /\ samples' = Append(samples, x)
    \/ Len(samples) >= MaxSamples /\ \E j \in 0..seen - 1 : samples' = IF j < MaxSamples THEN [samples EXCEPT ![j + 1] = x] ELSE samples

\* As OnComplete, but the queue a command was put on is not part of its key.
OnCompleteByCmdid(line) ==
    /\ IF nvme_line_is_for_device(line)
       THEN LET at == {i \in 1..Len(nvme_inflight) : nvme_inflight[i].key[3] = line.key[3]} IN
            IF at = {} THEN counts' = CountUp([complete |-> 1]) /\ UNCHANGED <<nvme_inflight, samples, nvme_lba_hist>>
            ELSE LET i == CHOOSE j \in at : TRUE IN
                 /\ nvme_inflight' = RemoveAt(nvme_inflight, i)
                 /\ counts' = CountUp([complete |-> 1, matched |-> 1, seen |-> 1])
                 /\ ReservoirAdd(<<line.ts - nvme_inflight[i].ts, line.ts - line.since>>, counts.seen + 1)
                 /\ UNCHANGED nvme_lba_hist
       ELSE UNCHANGED <<nvme_inflight, counts, samples, nvme_lba_hist>>
    /\ UNCHANGED inflight
\* A completion pops its command, whether or not a latency comes of it; a
\* read or write with an address also enters the histograms.
OnComplete(line) ==
    /\ IF nvme_line_is_for_device(line)
       THEN LET at == Positions(nvme_inflight, line.key)
                e == nvme_inflight[CHOOSE i \in at : TRUE]
                timed == at # {} /\ line.ts > e.ts
                plotted == timed /\ e.op \in {"read", "write"} /\ e.sector # None
                zone == IF e.sector \div ZoneSecs < NLba THEN e.sector \div ZoneSecs ELSE NLba - 1 IN
            /\ nvme_inflight' = IF at = {} THEN nvme_inflight ELSE RemoveAt(nvme_inflight, CHOOSE i \in at : TRUE)
            /\ counts' = IF timed THEN CountUp([complete |-> 1, matched |-> 1, seen |-> 1]) ELSE CountUp([complete |-> 1])
            /\ IF timed THEN ReservoirAdd(<<line.ts - e.ts, line.ts - line.since>>, counts.seen + 1) ELSE UNCHANGED samples
            /\ nvme_lba_hist' = IF plotted THEN [nvme_lba_hist EXCEPT ![<<e.op, zone>>] = @ + 1] ELSE nvme_lba_hist
       ELSE UNCHANGED <<nvme_inflight, counts, samples, nvme_lba_hist>>
    /\ UNCHANGED inflight

ReadLine ==
    /\ reader = "readline" /\ trace_pipe # <<>>
    /\ LET line == Head(trace_pipe) IN
       \/ line.kind = "issue" /\ OnIssue(line)
       \/ line.kind = "comp" /\ OnComp(line)
       \/ line.kind = "setup" /\ OnSetup(line)
       \/ line.kind = "complete" /\ OnComplete(line)
    /\ trace_pipe' = Tail(trace_pipe)
    /\ reader' = "check"
    /\ UNCHANGED <<collectVars, busy, clock, made, lostSetups>>

\* The raw log cannot be written: the exception ends the thread.
ReaderFails ==
    /\ reader = "readline" /\ trace_pipe # <<>>
    /\ reader' = "ended"
    /\ UNCHANGED <<collectVars, kernelVars, readerVars2>>

----------------------------------------------------------------------------
(* collect, in the main thread.                                            *)

SetupWrites == <<"issue_filter", "comp_filter", "issue_enable", "comp_enable", "nvme_setup_enable", "nvme_comp_enable", "tracing_on">>
RestoreOrder == <<"tracing_on", "issue_enable", "comp_enable", "issue_filter", "comp_filter", "nvme_setup_enable", "nvme_comp_enable">>
SetupValues == [f \in TracefsFiles |-> IF f \in Range(Filters) THEN 2 ELSE 1]

\* The files of a sequence written, each with its value if there is one; a
\* broken one keeps the one it has.
WriteAll(files, value) ==
    [f \in TracefsFiles |-> IF f \in Range(files) \ broken /\ value[f] # None THEN value[f] ELSE tracefs[f]]
UpTo(files, n) == SubSeq(files, 1, n)

SaveRestore ==
    /\ collector = "begin"
    /\ \E unread \in Unreadables : state' = [f \in TracefsFiles |-> IF f \in unread THEN None ELSE tracefs[f]]
    /\ collector' = "enable"
    /\ UNCHANGED <<tracefs, broken, before, stop_flag, reader, kernelVars, readerVars2>>

\* The writes of the set-up, to the first that is refused; a filter that is
\* refused is skipped, any other refusal restores the settings and raises.
\* Ctrl+C between two writes is not caught.
Enable ==
    /\ collector = "enable"
    /\ LET refused == {i \in 1..Len(SetupWrites) : SetupWrites[i] \in broken \ Range(Filters)}
           stop == IF refused = {} THEN Len(SetupWrites) ELSE Min(refused) IN
       \/ /\ tracefs' = WriteAll(UpTo(SetupWrites, stop), SetupValues)
          /\ collector' = IF refused = {} THEN "raw" ELSE "refused"
       \/ \E n \in 0..stop - 1 : tracefs' = WriteAll(UpTo(SetupWrites, n), SetupValues) /\ collector' = "raised"
    /\ UNCHANGED <<broken, before, state, stop_flag, reader, kernelVars, readerVars2>>

\* The raw log is opened after the tracepoints are on, outside any try.
OpenRaw ==
    /\ collector = "raw"
    /\ \/ collector' = "running" /\ reader' = "check"
       \/ collector' = "raised" /\ UNCHANGED reader
    /\ UNCHANGED <<tracefs, broken, before, state, stop_flag, kernelVars, readerVars2>>

\* The duration is over, or Ctrl+C: the flag, then the events off, to the
\* first that cannot be switched off.
StopReader ==
    /\ collector = "running"
    /\ stop_flag' = TRUE
    /\ LET refused == {i \in 1..Len(Events) : Events[i] \in broken}
           stop == IF refused = {} THEN Len(Events) ELSE Min(refused) IN
       tracefs' = WriteAll(UpTo(Events, stop), [f \in TracefsFiles |-> 0])
    /\ collector' = "restore"
    /\ UNCHANGED <<broken, before, state, reader, kernelVars, readerVars2>>

\* As Restore, but an event that was on before is left off.
RestoreSettings ==
    /\ collector \in {"restore", "refused"}
    /\ tracefs' = WriteAll(UpTo(RestoreOrder, 1) \o SubSeq(RestoreOrder, 4, 5), state)
    /\ collector' = IF collector = "refused" THEN "failed" ELSE "join"
    /\ UNCHANGED <<broken, before, state, stop_flag, reader, kernelVars, readerVars2>>
\* _restore writes every value that was read, whatever becomes of the others;
\* Ctrl+C meanwhile is not caught.
Restore ==
    /\ collector \in {"restore", "refused"}
    /\ \/ /\ tracefs' = WriteAll(RestoreOrder, state)
          /\ collector' = IF collector = "refused" THEN "failed" ELSE "join"
       \/ \E n \in 0..Len(RestoreOrder) - 1 :
            tracefs' = WriteAll(UpTo(RestoreOrder, n), state) /\ collector' = "raised"
    /\ UNCHANGED <<broken, before, state, stop_flag, reader, kernelVars, readerVars2>>

\* The reader has ended, or two seconds are over.
Join ==
    /\ collector = "join" /\ collector' = "result"
    /\ UNCHANGED <<tracefs, broken, before, state, stop_flag, reader, kernelVars, readerVars2>>

FtraceNext ==
    \/ DeviceStep \/ ReaderCheck \/ ReadLine \/ ReaderFails
    \/ SaveRestore \/ Enable \/ OpenRaw \/ StopReader \/ Restore \/ Join

FtraceSpec == FtraceInit /\ [][FtraceNext]_ftraceVars

----------------------------------------------------------------------------
\* Type invariant: the kernel's lines, the commands under way and what the
\* reader keeps of them.
Disks == {<<TracedDevice.disk, 0>>, <<OtherDisk, 0>>, None}
Lines == [kind : {"setup", "complete", "issue", "comp"}, key : NvmeKeys \cup Extents, disk : Disks,
          cmd : Commands \cup {NoCommand, [op |-> "read"]}, ts : Nat, since : Nat]
FtraceTypeOK ==
    /\ trace_pipe \in Seq(Lines) /\ clock \in Nat /\ lostSetups \in BOOLEAN
    /\ \A k \in DOMAIN busy : k \in NvmeKeys /\ busy[k].ts \in Nat /\ busy[k].disk \in Disks
    /\ nvme_inflight \in Seq(Range(nvme_inflight)) /\ samples \in Seq(Range(samples))
    /\ counts \in [setup : Nat, complete : Nat, matched : Nat, expired : Nat, evicted : Nat,
                   seen : Nat, issued : Nat, timed : Nat]

\* While the device is traced, no setup and no completion is left out.
TracingIsOn ==
    collector \in {"raw", "running"} => \A f \in Range(Events) \cup {"tracing_on"} : tracefs[f] = 1

\* The use of key k that began at ts on disk is the latest one the reader
\* knows of when it has read the first n lines: the last line of the key
\* among them is its setup or, where there is none, what is pending under
\* the key.
UsesOf(k, n) == {i \in 1..n : trace_pipe[i].key = k /\ trace_pipe[i].kind \in {"setup", "complete"}}
BeganAt(k, disk, ts, n) ==
    \/ \E i \in UsesOf(k, n) :
          /\ \A j \in UsesOf(k, n) : j <= i
          /\ trace_pipe[i].kind = "setup" /\ trace_pipe[i].ts = ts /\ trace_pipe[i].disk = disk
    \/ /\ UsesOf(k, n) = {}
       /\ nvme_line_is_for_device([disk |-> disk, key |-> k]) =>
             \A i \in Positions(nvme_inflight, k) : nvme_inflight[i].ts = ts

\* So it is when a completion is read, and for the commands under way.
UsesArePaired ==
    /\ \A n \in 1..Len(trace_pipe) : trace_pipe[n].kind = "complete" =>
          BeganAt(trace_pipe[n].key, trace_pipe[n].disk, trace_pipe[n].since, n - 1)
    /\ \A k \in DOMAIN busy : BeganAt(k, busy[k].disk, busy[k].ts, Len(trace_pipe))

\* Every NVMe latency in the sample is that of one command: the completion
\* was paired with the setup of the same use of its key.  Command numbers are
\* reused, commands of several queues are under way at once, and pending
\* commands are expired and evicted meanwhile; completions are lost, so that
\* a key is set up again while it is pending.  Only a lost setup can break it.  The commands waiting for a completion stay within the bound plus the
\* setups since the last prune, and each setup is accounted for.
LatenciesAreOwn ==
    /\ FtraceTypeOK /\ TracingIsOn
    /\ ~lostSetups => UsesArePaired /\ \A i \in 1..Len(samples) : samples[i][1] = samples[i][2]
    /\ Len(nvme_inflight) <= MaxPending + (counts.setup % PruneEvery)
    /\ counts.setup >= counts.matched + counts.expired + counts.evicted + Len(nvme_inflight)
    /\ counts.matched <= counts.complete

\* What was read is what was found; a file that rejects writes is as it was;
\* after the restore, so is every file that was read.
SettingsSaved ==
    /\ collector = "begin" => \A f \in TracefsFiles : tracefs[f] = before[f]
    /\ collector # "begin" => \A f \in TracefsFiles : state[f] # None => state[f] = before[f]
    /\ \A f \in broken \cap TracefsFiles : tracefs[f] = before[f]
    /\ collector = "join" => \A f \in TracefsFiles : state[f] # None => tracefs[f] = before[f]

\* However collect ends, in a result or because a tracepoint could not be
\* enabled, tracefs is as it was found, in every file that could be read:
\* tracing that was on before stays on, and ours is off.  An exception
\* outside the sampling loop and the set-up writes is not covered.
TracefsRestored ==
    /\ SettingsSaved
    /\ collector \in {"result", "failed"} => \A f \in TracefsFiles : state[f] # None => tracefs[f] = before[f]

\* Tracing state is read so that it can be restored on exit, whichever way
\* collect exits.
RestoredOnExit ==
    collector \in {"result", "failed", "raised"} => \A f \in TracefsFiles : state[f] # None => tracefs[f] = before[f]

============================================================================
