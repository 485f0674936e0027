# TLA+ models of ebpf-syscall

The repository traces and replays I/O: eBPF monitors record system calls, NVMe
and io_uring traffic and page faults; `syscall_replayer` plays a capture back
with one thread per captured process; `tools/kvio` captures, describes, executes
and measures the I/O of KV caches, on one host or from several clients;
analyzers, observers and the tools of `examples/` read what was recorded. This
directory models the parts that keep state several threads or processes work on,
the tools that may fail half way, and the algorithms whose results others rely
on; it checks them with TLC and proves the most important properties with TLAPS.

## Inventory

| component | state | operations | talks to | what is hard | what makes it correct |
|---|---|---|---|---|---|
| replay barrier (`syscall_replayer.c`) | `n_active`, `n_waiting`, `generation`, mutex, condition | register, wait, unregister | every worker | a 10 ms deadline races the release; workers leave while others wait | a round is released exactly when everybody alive has arrived; nobody is forgotten |
| replay ring buffer | entries, `head`, `tail`, `shutdown`, two conditions | enqueue, dequeue, shutdown, count | reader and one worker | lost signals, wrap-around, unsigned count, shutdown with records queued | a bounded FIFO queue that is drained before its worker leaves |
| replay pacing | `start_done`, `replay_start` | `pace_to_capture` | all workers | first look without the lock; sleeps capped at one second | one anchor; no record before its time |
| replay descriptor map | hash of captured descriptors with a stack of replay descriptors | open, close, look up | kernel descriptor numbers | collisions, reuse of numbers, full stack | a captured descriptor means the file of its latest open |
| replay mmap tables | pending calls, address table | mmap entry, mmap exit, munmap | all workers | handlers of different workers interleave between locked calls | arguments of the right call, no lost mapping, own mapping unmapped |
| replay reader and worker pool | queues, slots, counters, barrier | pre-pass, dispatch, spawn, worker loop, shutdown, join | all of the above | `main()` blocked on a queue while workers wait for a worker not yet created; a counted process without a worker | every record once, in its process's order; the replay ends |
| kvio executor (`intent_exec.py`) | heap, remaining counts, ledger, object store | pop, submit, perform, retire; the event loop of the simulated mode | backend | two workers retire prerequisites of one operation; empty heap with work outstanding; failing backend calls | dependencies and delays hold, nothing lost or repeated, serial outcomes |
| kvio coordinator (`coordinator.py`) | `conns`, `failures`, `clock`, `results`, ready event | shard, register, ready, start, collect, abort, write | client processes over TCP | deaths, duplicate claims, late registrations and the timeout at any moment | no shard runs twice; clients start together; a complete run is complete |
| kvio clock probe | round trips and offset | ping, pong, merge | client clock | asymmetric delay, odd round trips | the offset is right within the recorded uncertainty |
| kvio capture recorder (`capture_events.py`, `lmcache_adapter.py`) | bounded queue, sequence numbers, writer thread | emit, write, close, normalise | serving process | drops, unwritable records and close racing emit; the answer to "is it there" is stale when used | a complete capture has every operation; every drop is counted; it replays |
| kvio stores (`posix_fs.py`, `s3_client.py`) | names, nodes, handles; objects, uploads | file calls; put, get, list, multipart | file system, object service | reused inodes and descriptors, rename over an open file; timeouts whose effect is unknown | a capture replays with the outcomes it recorded |
| kvio workload sources (`agent_trace.py`, `workload.py`) | resident chunks, plan | compile a request, evict, serve | raw block engine | an eviction takes what the same request loads | a plan runs to its end in the slots there are |
| kvio documents (`intent.py`, `intent2.py`, `workload3.py`, `engines.py`) | documents | build, validate, lower, convert, preflight | executor, driver | command limits at a boundary, order lost in conversion | conversions keep operations and their order |
| kvio geometry (`kv_geometry.py`, `kv_representation.py`) | none | sizes, shards, representations, content | documents | rounding, more ranks than heads | shards cover the chunk; ranged reads agree |
| kvio benchmark (`bench.py`, `compare.py`) | settings of the queue and huge pages, rows | tune, precondition, run, restore, compare | kernel, fio | any step fails or a signal arrives anywhere | settings go back; no job leaves its region |
| kvio offload driver (`run_kv_offload_io.py`) | streams, passes, markers, report | store and load phases, gate, intent in and out | engine, external counter | failures in one stream; warm-up; the gate | the numbers are those of the operations done |
| kvio release (`release.py`) | directory of two files | build, verify | other builders and writers | races, crashes, replacement while read | what passes was built whole by one builder |
| device replay (`examples/replay`) | captures, I/O log, certificate, checksums | load, convert, replay, compare, bundle | fio, device | reused command ids, lost and failed commands, a crash between two files | the verdict says no more than what happened |
| KV I/O timelines and record replay (`examples/lmcache`) | two logs, lanes, manifest, watchdog | join, report, project, validate, replay | raw block engine | equal times, several producers, operations that never return | the join and report are true; a hang is ended, progress is not |
| eBPF system call monitor | maps of open calls, event ring | entry and exit probes, consumer | kernel, user space | nested and lost events, full maps, two CPUs | an exit is paired with its own entry |
| log filter (`filter_syscall_log.py`) | look-ahead, deferred writes | filter, patch | monitor, replayer | records out of order | a filtered log replays with the same meaning |
| ftrace collector, block trace analyzers, disk poller (`analyzers/`) | tracefs, commands in flight, series | set up, read, pair, restore; sort, bin, compare | kernel, blkparse | reused tags, dropped lines, a tracefs that refuses a write | latencies and series are those of the requests; tracefs is as found |
| I/O path observer (`io_path_observer.py`) | table of traced processes, caches of /proc | seed, probe, poll, resolve | kernel, /proc | processes fork, exit and reuse descriptors meanwhile | descendants are traced; a record names its own file |

PROJECT.json lists every component with its status, and every hazard at the
line where it bites.

## Modules

| module | models | what corresponds |
|---|---|---|
| FlexBarrier | the barrier | one action per critical section of `flex_barrier_wait`; `at` is where a thread is, `my_gen` its local copy. A deadline (`Expire`) and the return with the mutex (`LeaveByTimeout`) are separate steps: a release fits in between |
| BoundedQueue | abstract | a FIFO queue of at most `Capacity` items that can be closed |
| RingBuf | the ring buffer | critical sections of `ring_buf_enqueue`, `ring_buf_dequeue`, `ring_buf_shutdown`; indices and the unsigned count with the word size `Word`; waiting, woken and signalled threads. Refines BoundedQueue |
| PacedReplay | `pace_to_capture` | the unlocked look, the lock, the two stores and the sleep are separate steps of a worker; the clock is external |
| FdMap | `fd_map_*` and the open, close and lookup handlers | the buckets with their stacks, next to the stack each captured descriptor ideally stands for |
| MmapReplay | pending and address table with the mmap and munmap handlers | one action per locked call of a handler |
| Replayer | `main()`, workers and barrier | composes FlexBarrier (INSTANCE) with queues that are what RingBuf implements, so one action stands for an enqueue or a dequeue |
| Workload | what both modes of the executor share | the heap, remaining counts, ledger and object store; the dependency graph is chosen in the first state |
| Executor | `_run_real` | pop, submit, perform, retire and exit of a worker thread; what happens under the lock is one action |
| SimExecutor | `_run_simulated` | the event loop: start what is due, advance to the next event, complete |
| Coordinator | `Coordinator`, `run_client` | main thread, one serving thread for each connection, and client processes; messages in transit in `up` and `down` |
| ClockProbe | `_probe_clock`, `_merge` | a ping, the client's reading of its clock, the pong; the offset applied to the start |
| SyscallMonitor | `syscall_monitor.bpf.c` and the reader in `syscall_monitor.c` | a traced thread runs entry, return and exit probes; the lookup and the update of the statistics are separate steps, a record is one. `calls`, `raced`, `lost` and `crowded` record what happened |
| Capture | `capture_events.py`, `lmcache_adapter.py`, the hook | callers, writer and closer step by step; the queue and the file; `normalize_capture` reads the file as it stands in any state, so after a kill too |
| Workload3, IntentV1 | `intent2.py`, `workload3.py`, `intent.py` | documents as records; generators, validators, adapters and lowering as operators |
| Documents | the three formats and `engines.py` together | a document is chosen in the first state and sent through every conversion |
| PosixFS | `posix_fs.py` | a call is performed at the source, recorded, normalised, and replayed on a second directory and on FakeFS in one action; the kernel's file system is external |
| S3Client | `s3_client.py` | the same for an object service; at either endpoint a call may time out with or without effect, and an upload may fail inside a successful answer |
| AgentPlan | `agent_trace.py`, `workload.py` | a request compiled and run key by key, an action per load and per insertion with its eviction; or synthetic requests served |
| Geometry | `kv_geometry.py`, `kv_representation.py`, content profiles | operators over a configuration chosen in the first state |
| Bench | `bench.py`, `compare.py` | one action per step of a run; every step may fail and a signal may come at any; what fio reports of a case is a constant: one merged entry for jobs that are all group_reporting, else one per clone |
| OffloadDriver | `run_kv_offload_io.py` | options, streams, phases, gate, report; EXTENDS IntentV1 for the intent it writes |
| Release | `release.py` | builders, each of which verifies what it built, and a reader that verifies; one action per system call on the directory, the sync of a file apart from its write |
| DeviceReplay | `examples/replay/*.py` | device and two captures grow line by line; the bundle is written file by file |
| TraceJoin | `kvio2perfetto.py` | every state is a pair of logs; the join, lanes and pairing are operators |
| RecordReplay | `kvio_tp_report.py`, `kvio_plan.py`, `kvio_validate.py`, `kvio_sem2manifest.py`, `kvio_replay.py` | report and projection over TraceJoin's logs; the replay and its watchdog thread as actions, the watchdog's readings of the clock and of the last progress and its exit being three |
| FilterLog | `filter_syscall_log.py` | a log with overtaken records is written line by line; the filter is an operator over it, the replay of its result too |
| FtraceCollector | `nvme_io_analyzer_nvme_tracepoint_patch.py` | main thread, reader thread and device; tracefs is a function from files to values |
| BlktraceAnalysis | `blktrace_analyzer.py`, `blktrace_compare.py` | requests queue, issue and complete; the analysis is an operator over the lines, the comparison over two traces |
| NvmeAnalyzer | `nvme_io_analyzer.py` | BlktraceParser and the block ftrace collector as operators, LiveCollector as actions; EXTENDS BlktraceAnalysis |
| PathObserver | `io_path_observer.py` | the seeding lists the threads of a process and reads the children file of each, a step each, while processes and their threads fork, open, close, map and exit; the fork probe sees thread ids, the other probes process ids |
| PrimitiveProofs | theorems on FlexBarrier, PacedReplay, RingBuf, FdMap and MmapReplay | |
| ReplayerProofs | theorems on Replayer | |
| ExecutorProofs | theorems on Workload, Executor and SimExecutor | |
| DistributedProofs | theorems on Coordinator, ClockProbe, Capture and AgentPlan | |
| MonitorProofs | theorems on SyscallMonitor, FtraceCollector and PathObserver | |
| ToolProofs | theorems on Release, Bench and RecordReplay | |
| IntentProofs | theorems on Geometry, OffloadDriver and Documents | |
| MC*X* | instances for TLC | |

Components that share no state are checked in one run: the module extends them
all, and a variable `part`, set in the first state, says which one moves. The
state spaces are disjoint, so the run is the union of the separate ones.

A pure algorithm has its inputs in the state: either a document or configuration
picked in Init, or a log that grows by one event with every step, so that every
prefix of every log is an input. Its property compares the result with a
reference that knows what really happened (the identity of a request, the file a
write was meant for), which the algorithm is never given.

Definitions introduced by "As *X*, ..." are deliberate defects of *X*. No
specification uses them; each is put in *X*'s place to see that the property it
is kept for notices.

## Runs

Expected to pass:

* **replay**. FlexBarrier with three threads and three releases, RingBuf with
  four slots, a word of 16 and nine items (more than twice round the ring, with
  the shutdown at any moment), PacedReplay with three workers whose records
  interleave, FdMap with four buckets and stacks of two, and MmapReplay with two
  processes and four calls whose probe sequences overlap in a pending table of
  two slots. BarrierInv, RingInv and PacedInv are the inductive invariants of
  the proofs: nobody is forgotten at the barrier and no full round stays open,
  records arrive in order and all of them before the worker leaves, no record is
  issued early when the gaps fit in a sleep. DescriptorsResolve: a captured descriptor resolves to the file it was
  opened for last and no replay descriptor is named twice. MappingsStayOwn: an
  exit uses its own entry's arguments, and address table and mappings agree.
  ReleaseOnlyWhenAllArrived, SkewIsPermanent (a counter that fell behind never
  recovers) and EveryWaitReturns (the deadline frees a waiter) are about steps
  and time. ImplementsQueue is the refinement of BoundedQueue, with its
  liveness.
* **replayer**. Every capture of up to two records of two processes and three
  chosen ones of three processes (see MCReplayer), serial and per process,
  with two or three workers and queues of one record, so that `main()` blocks.
  Every record is replayed once and in its process's order
  (RecordsOnceInOrder), rounds are complete although workers are created
  meanwhile, the barrier's members are never fewer than the running workers and,
  once the capture is read, exactly these unless a process has nothing to replay
  (MembersAreWorkers), and the replay ends in every case.
* **kvio_executor**. Five operations on two objects, two of them loads, under
  dependency graphs that order conflicting operations or leave them unordered, so
  that operations overlap; two worker threads, a delay, a release time, an operation that may
  fail, one that the source cancelled; and the simulated mode with service
  times 0, 1 and 3. PoolInv is the inductive invariant; AfterPrerequisites says
  that no operation starts before what it depends on has ended;
  OutcomesAreSerial compares, as `compare_outcomes` does, with the serial order
  where conflicting operations are ordered; NoIdleLag says that the simulated
  clock passes no operation that could run.
* **kvio_distributed**. Two clients and a third connection that claims a taken
  shard, three streams of which two depend on each other, assignments that
  respect and that cross the dependency; every client may die at every step.
  ClockProbe with two probes, nine ticks and skews of both signs. No shard runs
  twice and a complete run has every row; clients start together; the offset is
  right within its uncertainty; RunEnds says that the coordinator ends and no
  client waits for ever.
* **observation**. SyscallMonitor with two threads of one process, three calls,
  a ring buffer of two records, an event array that grows from two to four:
  a return record of mmap has the time of its own entry unless a record was
  lost, and the statistics are exact unless the first calls of a kind overlap.
  FilterLog with two processes, six records and writes that overtake two others:
  FilterKeepsMeaning says that the filtered log has every wanted record once and
  every write reaches its file when it is replayed. FtraceCollector with two
  command keys, four lines, so that a number is used and completed twice, and one
  file of tracefs that refuses writes: LatenciesAreOwn, of dropped lines too unless
  a set-up was lost, and TracefsRestored. The block trace analyzers with two
  requests, four lines out of order, ticks shared by events (an end beyond
  eight times the median takes three requests and is not reached), the comparison
  of two traces, the block ftrace collector and the poll of a disk that goes away:
  AnalysesAreTrue. PathObserver with three processes, each with a leading thread
  and perhaps a helper, that take three steps while it scans and resolves; two
  files, the name of one part of the other's path and one open as descriptor 0,
  one address, mmaps with a hint or none that succeed or fail:
  DescendantsTracked and RecordsAreOwn, each with the exceptions that the code
  really has named in it. (Two files of one base name are left to the proof:
  with only two files nothing could then be told apart.)
* **kvio_capture**. Capture with two callers that are interchangeable (the one
  use of symmetry), three calls, a queue of two, a record that cannot be written
  and a call (`FailingCalls`) in which the core fails on an object that is there, or
  raises: one that says it is complete has every call that returned
  (CaptureIsFaithful), and the intent of a serial one replays to the same
  outcomes, up to the failures of the core. A delete that a lock refused is
  recorded as a miss; a load of the object after it makes normalisation refuse
  the capture, which the property names. The same is said of every sequence of
  four file calls over two names, but for paths under a directory that was
  renamed, whose recorded names the replay does not follow, and of four object
  calls with parts, listings and two failures at either endpoint: a replay that
  differs has a failure to show for it, and none passes unnoticed (CallsReplay).
  Four requests over six prompts that share or repeat
  chunks, with capacities 0, 2 and 3, or synthetic requests on two ranks with
  too few slots, stores that fail and loads that fail of what was stored and of
  what was not (PlanRuns). All documents of up to two of every dimension under
  three sets of command limits (DocumentsAgree). Configurations with heads fewer
  than, as many as and more than ranks, representations and content profiles
  (SizesAddUp).
* **kvio_tools**. Bench with devices that are refused for each reason, regions
  too small and too large, jobs reported one by one and as a group, two
  repetitions and two signals (BenchIsSafe).
  OffloadDriver with the command lines of MCTools, lower DMA and software limits
  and a path without a queue among them, six slots and one failing operation
  (DriverIsTrue). Release with two racing builders that fail or die at any call,
  replacements and two verifications beside the builders' own (PassedAsBuilt).
  DeviceReplay with two source events 1.6 microseconds apart, so that the log's
  times are rounded, four of the replay, commands whose ids are reused, one that
  fio cannot replay, two faults and a crash; translation and comparison with and
  without `--allow-drops`, `--allow-unsupported` and `--allow-legacy-capture`: a
  bundle that claims the full stream has it, one that says "partial" lacks no more
  than it counts, and is never called equal (ReplayIsJudged). TraceJoin with two
  operations, three commands and one oddity (a command issued again, merged with
  its neighbour, or someone else's), and the
  replay of three manifests under the watchdog (LogsAreUsable).

Expected to find a violation, each a disagreement of the code with what the
repository says of it:

* **mmap_shared_address**. The tables are said to be per process, but the address
  table is keyed by address alone: a munmap can hit another process's mapping.
* **lost_client**. A client that dies after it started may end the coordinator
  with an exception: no manifest, and collected ledgers are lost.
* **mmap_entry_leak**. The `sys_exit` record of mmap has no file name either, so
  `log_event` takes it for an entry and leaves one in `mmap_entry_map` for each
  thread that ever called mmap. When the map is full, the return record of a new
  thread no longer has the time of its entry.
* **capture_drops**. A capture with drops is to normalise as partial. When the
  dropped record began an operation that a later one depends on, normalisation
  is refused.
* **tracefs_left_on**. Tracing state is saved to be restored on exit, but only
  a failing write is caught while it is set up. The shortest behaviour is a Ctrl+C
  after the first of these writes: the filter of `block_rq_issue` stays. Later in
  the set-up, or when the raw trace file cannot be opened after it (line 959), the
  events and tracing stay on as well.

### Bounds

Names beginning with `Max`, and `Horizon`, `LastTick`, `Capacity`, `Lookahead`,
`QueueCapacity`, `Overtakes` and `Slots`, bound what would grow without end or
stand for a limit of the code scaled down; each is a guard of the action it
bounds. They are chosen so that the second of everything happens (a second round,
a second lap of the ring, a second use of a command id, a second signal, a table
that is full), since every hazard listed is one of two neighbours meeting.
`MaxRounds` in replayer is never reached. Times are small numbers that several
events may share.

A captured file or object call that a replay cannot follow by design (a hole, an
append, a descriptor the recorder never saw opened; an object stored before the
capture; a path under a renamed directory; a call that fails both when captured
and when replayed) is recorded in `cause`; the property says what holds until then,
and MCCapture stops a behaviour there.

CHECK_DEADLOCK is off in replay, observation, kvio_capture and kvio_tools and in
the violation runs of the same modules: all calls of a capture or of the traced
threads may be over, a tool ends, and a document has no step to take. replayer,
kvio_executor and kvio_distributed, where threads wait for each other, are
checked for deadlock.

### Fairness

* A thread that can run, runs (weak fairness per thread): workers of the
  replayer, of the executor and of the coordinator are kernel threads and
  `main()` joins them.
* A deadline passes (Expire): `pthread_cond_timedwait` is given an absolute
  time.
* The clock of the executor advances (Passing) and a client process that has
  something to read reads it.
* Nothing is assumed of deaths (Die), of the timeout of the wait for clients, or
  of failing backend calls: they may happen or not. The reader is not assumed
  to produce (RingBuf: only Consume is fair).

The other modules state safety only and assume no fairness.

## What is proved

All theorems hold for every value of the constants that satisfies the module's
named assumptions. Where a property holds only under a further condition on the
constants, the theorem states it as a hypothesis and a run shows what happens
without it.

**FlexBarrier** (`ThreadsAssumption`: finitely many threads;
`MaxRoundsAssumption`). `n_waiting` can be negative and is not the number of
waiters, so neither "the count is right" nor the type is inductive alone.
BarrierInv adds DriftBounded, which accounts for the drift: what is missing from
the count is at most the number of waiters whose release has already reset it
(Overdue). BarrierTypeCorrect, CountersSound and NobodyForgotten are invariants;
ReleaseWhenDue and SkewStays are action properties from the same invariant.

**RingBuf** (`SizeAssumption`: at least two slots; `WordAssumption`: the size
divides the word; without it the count is wrong after a wrap). RingInv says that
the slots from `tail` on hold the items sent and not received, in order
(RingShape, stated with Wrap instead of the modulo so that SMT can follow). From
it come CountCorrect, Delivery, SignalsNotLost and QueueRefinement (initial
states and steps map to BoundedQueue's).

**PacedReplay** (`PacedAssumption`). PacedInv = the anchor is published
before anyone plans with it (Anchored) and a sleeper wakes no earlier than its
record is due (OnTime, under GapsFit). PacedTypeCorrect, PacedOnTime,
AnchorFixed.

**FdMap**. FilesNamedOnce holds without a condition: every bucket's stack and
the kernel's free numbers are disjoint, but for numbers that a failing close(2)
released (`stale`): those alone may be named and free, or named twice.
LatestResolved needs NoCollision (no two
captured descriptors in one bucket); then each descriptor's own bucket holds
exactly its stack (OwnBuckets), and a probe sequence never goes further. With
65536 buckets this fails for descriptors of 65536 and more, and for a failed open
whose negative errno falls into the last buckets.

**MmapReplay**. MmapInv says where each worker is between two locked calls: a
pending entry carries the arguments of its own process's call (ArgumentsAreMine),
records are taken in turn (RecordsInTurn), the address table has each mapped call
at its address and one entry per address (TableKept), all three also when
addresses coincide. When no address has two owners, what exists is what the
table has, what is being worked on, and what lost its entry to a later mmap of
the same process at the same address (MappingsExact). MappingsOwned needs
OneOwner, no address mapped by two processes: run mmap_shared_address shows the
violation without it.

**Replayer**. ReplayInv ties the position of the reader, the queues, the slots,
the counters of the workers and the barrier together: what a worker was given is
the records it owns up to the reader's position, and what it did is a prefix of
that (RoutedToOwner); counters add up (CountersAddUp), threads end in turn
(EndsInTurn) and the barrier counts those that run (BarrierFits). RecordsAreReplayed (once, in order, and the totals add up to the
capture; sums are over recursive functions and handled by their defining
equations), RoundsReleasedFull (an action property) and MembersCounted come from it.

**Workload, Executor, SimExecutor** (`WorkloadAssumption`: dependencies on earlier
operations, which the validators enforce; `ExecAssumption`). CrewInv = types,
HeldOnce, Counted, Keyed and Placed: the remaining count is the number of
prerequisites not retired, an operation is in one place, and a key on the heap is
no earlier than any prerequisite allows. PoolInv is ExecInv or SimInv, by mode:
ExecInv adds to CrewInv that the ledger has the outcome of what was performed
(Answered) and that these outcomes are the serial ones (SerialSoFar); SimInv is
the same of the event loop.
DependenciesRespected, EveryOpInOnePlace, PoolEndsWithAll, LoopEndsWithAll and the
action property NoIdleLag follow. SourceOutcomesReproduced compares with a run of
the whole sequence, a recursive function: lemma Recursion shows by a least
counterexample that such a function has the value its equation says, SerialRun
and SameWriters that an operation sees the same writer of its object in both
orders, since all conflicting operations before it in the workload have retired
and none after it has been performed.

**Coordinator**. CoordInv says which thread holds which connection: at most one
connection per client in `conns` (OneConnEach), a client is told to start only
after all clocks are in (StartedWithClocks), and ledgers are collected in the
order of `conns` from clients that ran (CollectedInOrder). ClientsStartTogether
needs no more, nor does ShardsRunOnce, for any assignment: one that leaves out or
invents a stream or separates dependent ones is refused, one that names a stranger is
not, and then a complete run has the streams of its clients and no other.

**ClockProbe** (`ProbeAssumption`). ProbeInv adds to the two bounds that the
client's clock is read between the ping and now; SampleWithinHalf is the
arithmetic of one round trip. OffsetIsSound, MergedStartIsSound and
ProbesOnlyHelp.

**SyscallMonitor** (`MonitorAssumption`). The counters are exact while no two
first calls of a kind overlap, which `raced` records: between lookup and update,
what a thread found is still so (LookupsFresh). Entry records have different
times (StampedOnce) and the map has the time of the entry under way (Correlated).
ReturnsCorrelated needs
MapHoldsAll, room for every thread in `mmap_entry_map`; run mmap_entry_leak shows
what happens without it.

**FtraceCollector** (`CollectorAssumption`). SettingsRestored: what was read is
what was found, a file that rejects writes never changes, and the restore writes
every file that was read. LatenciesOwned is about three parties at once, the
device, the pipe and the reader, which lags behind. The agreement of the sample
is not inductive. UsesArePaired says what is: for every completion in the pipe,
read the lines before it and the latest use of its key is the one it ends, either
a setup among these lines or, where there is none, what is pending now; and the
same for every command under way at the end of the pipe. A line appended extends
it by one use (PipeGrows), a line read moves it from the pipe to the pending
commands (PipeShrinks), and prune, expiry and replacement only take commands away
(QueueFollows). The bound on the pending commands counts the setups since the
last prune.

**Release** (`ReaderAssumption`: the reader is no builder). PassedAsBuilt: the
exclusive creation of the directory makes one builder the owner, and a manifest
names the content the result had. The builder that wrote both files may have failed
or died after its manifest was written: its candidate passes all the same (see
below), and the property says no more than that it is whole and its own. Only what
a build reports as passed was built to the end.

**PathObserver** (`ObsAssumption`: process ids and addresses are positive, an
unresolved path is none of the files; which files share a base name or a part of
their paths is a parameter). RecordsOwned for any processes:
what an event says of its process holds until the process closes or unmaps
something or exits, and each of these moves the generation on; so what
is looked up in /proc later is the event's file as long as the generation is the
event's (EventsHold, LookupsHold). MayShow lists what cross_reference may take for
the event's file: one of the same base name, one whose path contains the name
opened, what is mapped at the hint of an mmap that failed, and the file of
descriptor 0, which openat and fsync events carry for want of their own.
DescendantsFound is about the scan for children while threads fork and end: a live
child of a process in the tables is in them too, excepted (`missed`), or a child of
a thread whose file is still to be read (ScanLeavesNone, with ParentsLive and
TablesOK). When the scan is over, the tables are closed under children but for the
excepted ones, and the descendants are the least such set. The exceptions are real:
the fork probe knows the forking thread, and the table has the target, the children
found and what was made since by threads in it, so a thread older than the tracing
is never in it.

**Capture** (`CaptureAssumption`). Callers go on between the steps of close(), and
the property only speaks of files with an end record, so it says nothing while
the records are on their way. CallsLogged does: as long as close() has not taken
the health and nothing was dropped, the begin of every call under way and both
records of every call that returned are in the file or queued, before any end
record (Logged); an end record carries the health as it was taken before. With
the writer's order, an end record in the file that tells of no drop has all of
them before it (CompleteMeansAll, CaptureFaithful).

**Bench** (`BenchAssumption`: what `load_profile`, argparse and sysfs guarantee).
OldsAreTrue: the remembered values are the ones before the run, each setting's
once and in the order of the requests, and every setting not remembered is
untouched; restoring from the last to the first then ends at the old values.
RowsAreWhole: the files have the rows of the runs done, each run's whole, and a
beginning of the current run's, the structured file one row ahead at most.
ClonesStayInRegion is the arithmetic of the shares. That no row is there twice
supposes CasesDistinct, since `--cases` may name a case twice and the code does
not refuse it; the rest holds without.

**RecordReplay** (`RecordAssumption`). WatchdogRight is the part of LogsAreUsable
about the watchdog thread: WatchdogInv says that at its last comparison the operation
was in time and that it reads again within a poll period, so a hang is found that
late at most, and two readings (`DogLag` each), and nothing else ends the process. The
clock is read before the time of the last progress, so progress in between makes the
difference smaller, never larger.

**OffloadDriver** (`DriverAssumption`: dimensions as `validate_intent` demands
them; a plain command line is not checked by the code, see below). DriverCharged is
the part of DriverIsTrue about the markers: MarkersInv says which markers exist at
each step of a gated run. DriverTrue is all of it. DriverInv and its part
DriverCounts say what has been done at any moment as a set: all operations of the
passes and phases before and, in each stream, a beginning of its own (DoneOf); the
counters are the sizes of these sets, whatever failed, and the engine has an object
for each store that succeeded, since the key of an operation is a number whose
digits are pass, stream, chunk and rank. The replayed run selects a stream's
operations from the intent; BuiltIs gives the intent place by place, and what is
selected is what the loops make directly. The plan is lowered with the least of the
limits given, so it has the commands the driver projected, or more where the DMA or
the software limit is below `--mdts-bytes`.

**Documents** (`DocumentsAssumption`: None is no number, dimensions as
`validate_intent` demands them, at least one command limit, all positive).
DocumentsRight: the documents generated for any dimensions pass the validators, the
commands are within the limits and carry the bytes of every operation once, front to
back, an object engine and no other takes the workload, and its edges order exactly
what version 1 orders. There is no step to take; the work is in what the operators
compute. The generated operation at a place of the sequence has the digits of the
place, which are its own (DigitsUnique). The commands of an operation are one block
of the plan, since a flattened sequence has at each place what the running totals
say (FlattenPlaces; FlattenIs gives the value of FlattenSeq from an explicit sequence
of beginnings), and they cut its bytes one after the other (CutTogether). An
operation waits for the last one of its stream in its phase, or for the phase before;
since phases follow one another (PhasesFollow), what it reaches through edges is what
version 1 puts before it (OrderKept). OneAncestry shows that the property leaves no
choice: only one function is the ancestry of a workload. The validators are
evaluated field by field.

**Geometry** (`SizesAssumption`: the divisions are whole, which is what
`kv_geometry.py` says of its formulas, "exact for the shipped configs (integer
divisions)"). SizesRight: heads are dealt to ranks evenly or replicated, hence in
every representation the shards cover the chunk, scales cover every page and head, a
padded object ends on a boundary, a set of representations binds its intents, and a
ranged read of generated content is that range of it.

**AgentPlan** (`PlanAssumption`). PlansRun: every load and eviction of a compiled
plan finds its chunk, the engine has what the compiler calls resident, within the
capacity, and never more than `max_resident_chunks`; synthetic runs account for every
operation, and exit with 2 exactly when a store failed or a load, which may fail also
of what was stored. (In plan mode an engine that fails raises and ends the run.)
PlanHolds is not inductive in the middle of a request, where hits were
decided before the first insertion: RequestHolds says that the hits are what is
resident until the last key has been looked at, and that the misses noted are
distinct and not resident.

### Only model-checked

* Liveness under fairness (EveryWaitReturns, ReplayEnds, WorkloadEnds, RunEnds, the
  fairness of ImplementsQueue) and what needs ENABLED: out of the prover's reach.
* CallsReplay (PosixFS, S3Client, the adapter of captures), ReplayIsJudged
  (DeviceReplay), LogsAreUsable beyond the watchdog (TraceJoin and the reports of
  RecordReplay), FilterKeepsMeaning (FilterLog) and AnalysesAreTrue (the block trace
  analyzers). What they say is what a fold with an accumulator, a selection by a
  predicate or a sort returns for every log. The library defines these by recursion
  over an operator that is a parameter, and the prover can neither instantiate such
  an induction nor expand the operator. Where a result has a closed form (Documents,
  Geometry, OffloadDriver) the model states it and the proof goes through; a join by
  nearest time or a file system's history has none.
* The violation runs, by nature.

## What the code does beside what is said of it

Met while modelling, and stated by no run of their own; where a property touches
one, it says what the code does or names it as an exception.

* `syscall_replayer.c`: `n_waiting` is the "threads currently at barrier", but a
  thread whose deadline passed decrements it without looking at the generation
  and it can fall to -1; by SkewIsPermanent every later wait then costs its
  10 ms. `n_active` is the "threads still alive", but a process that has no record
  to replay is counted in the pre-pass and never leaves, so no round is released
  and every I/O call waits its 10 ms. A sleep is cut to one second, so after a longer pause records of a
  process come early (PacedInv supposes GapsFit). After an open of a captured
  descriptor of 65536 or more, a freed bucket can hide descriptors behind it. A
  close(2) that fails after it released the descriptor leaves it in the map: the
  number may then be named by two captured descriptors (FdMap's `stale`). A
  second mmap at an address that is still in the table takes its entry over and
  leaves the first mapping to the end of the replay (stage "replaced"), and one
  whose record holds no address is never unmapped ("unrecorded").
* `lmcache_adapter.py` asks whether an object is there before it calls the core:
  when calls overlap, an outcome may be recorded that the operations in their
  order do not have. CallsReplay speaks of captures without overlapping calls.
* `coordinator.py`: an assignment may name a client outside the run, whose
  streams run nowhere although the run is reported complete. A client that hangs
  with its connection open blocks the collecting loop, which has no timeout.
* `run_kv_offload_io.py`: a negative `--warmup` is refused by an intent only (DriverAssumption excludes it). A
  gated run with one never comes to its gate and times passes that no counter is
  attached to.
* `workload.py`: the key of a failed store stays in the pool, so loads of it
  fail too.
* `blktrace_compare.py:40` says that events beyond the shorter duration are
  "excluded from residual/difference calculations"; the series put them in
  their last bucket.
* `blktrace_analyzer.py:839` says "byte totals are conserved"; the bytes of a
  request beyond the outlier bound are in no bin. A depth sample at the very end
  of a duration that is a multiple of the bucket is in none either.
* `nvme_io_analyzer.py`: the block ftrace collector, too, restores tracefs on a
  failing write and after its sampling loop, not on a Ctrl+C elsewhere.
  BlktraceParser matches by the number of an event on its
  CPU, so a completion on another CPU can get another request's latency, and an
  entry found by address stays to be found again. Its cap on depth samples is
  looked at only where a sample is taken. Rates of LiveCollector are negative
  after a disk is registered anew.
* `release.py`: a build whose last sync fails says "candidate output is
  incomplete; do not use it" (line 323), and what it leaves passes verification.
* `io_path_observer.py`: children are traced even when forks are not to be
  followed. "When the parent PID is in tracked_pids, auto-add the child PID"
  (line 434) holds of the id of the forking thread: a child of a thread that was
  there before the tracing, other than a leading one, is not added.
* `posix_fs.py`: names under a directory that was renamed are recorded under
  their old numbers, which the replay cannot follow.
* `kvio_tp_report.py` reports one batch for an empty pool. `kvio_replay.py` with a
  single payload rotates a fixed number of keys: stores of later rounds find the
  key and do nothing, but their times are samples; its docstring says
  that it "issues exactly that store/load workload", and ReplayDoesTheWork claims
  this of the loads only. `kvio_tp_report.py` may call serialized commands pipelined where
  objects of few long commands outnumber those of short ones; no property speaks
  of its verdict on them. It replays the manifest's
  objects whatever operations were recorded of them, does not look at results,
  and closes the engine after its watchdog has stopped.

## Limits of the models

* Records, names and payloads are members of small sets; formatting, logging,
  plots and real-valued statistics are left out.
* FdMap keeps to captured descriptors that fit the table.
* MmapReplay leaves out what is mapped: a descriptor resolved at mmap entry may be
  closed and its number reused before the exit, and the code then maps the new
  file. An munmap of a part counts as one of the whole, as it does for the table.
* Replayer: pid 0 does not occur (the code uses it for the serial worker), and
  a record's system call is one step.
* PacedReplay keeps the program order of the two stores of the anchor.
* Coordinator: a client dies or answers. When the main thread raises or ends, the
  process is taken to be gone; its serving threads, which are daemons, may or may
  not take another step.
* SyscallMonitor: no call is under way when the probes are attached, the
  registers of a call can always be read (the name given to openat not), and a
  record is reserved, stamped and submitted in one step. The comment above
  `io_inflight` promises a joined record of a call's arguments and result;
  nothing calls `stash_io_enter` or reads the map, so there is none.
* ClockProbe: the coordinator's clock and the client's run at the same rate.
* PathObserver: a process has at most two threads, which are not named apart in
  events; the children of a thread that ends go to the other one.
* Release: a write is whole or not there; a stop of the machine, which may undo
  what was not synced, is not modelled.
* DeviceReplay: one device and namespace, so its identity checks are left out.
* PosixFS and S3Client: one call at a time, as a capture is one stream. A digest
  or hash is injective, there and in AgentPlan and Release.
* Retries of the S3 SDK, the kernel's file system, fio, the device and the raw
  block engine are external: they do what the code in `src/` relies on, or fail.

## Not modelled

* The replayer's `replay_*` wrappers and JSON extraction: conversions around one
  kernel call each, with no state beyond the tables modelled.
* The io_uring, NVMe and page monitors: the first two pair by key in hash maps
  as SyscallMonitor and FtraceCollector do; page residency and read
  amplification are facts of the kernel's reclaim and readahead.
* `nvme_uring_cmd_smoke.c`, `nvme_kv_smoke.c`: what they show is the device's
  behaviour.
* `kvio-ir` and `mmap-heatmap` (Rust): a pure translation of logs, and a terminal
  display.
* Visualizers, reports, plots, system facts that are only recorded, the strace
  fallback, page heat maps, buffer and DMA allocation, energy readings, fetching
  of models, tokenizers, the native build and the site hook: output or input of
  the host, no protocol of the program's own.
* Vendored LMCache, but for what its core may answer a captured call
  (Capture.Answers); examples that are demonstrations, shell drivers and
  documentation.

## What could be proved next

The manifest and the samples of RecordReplay (ReplayDoesTheWork), which is a state
machine apart from the projection of the log; and for FilterLog and the block trace
analyzers the parts that do not depend on the order of equal times, once their folds
are written as running functions of the log, as in Replayer.
