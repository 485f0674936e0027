---------------------------- MODULE PathObserver ----------------------------
(***************************************************************************)
(* io_path_observer.py: which processes are traced, and what a record says *)
(* of its event.                                                           *)
(*                                                                         *)
(* Probes in the kernel pass the events of the processes of a table; the   *)
(* fork probe adds the child of a tracked parent, and user space seeds the *)
(* table with the target and the descendants it finds in /proc, thread by  *)
(* thread, while they fork and exit.  When tracing ends, descriptors and   *)
(* mappings are looked up in /proc of the processes still alive, which go  *)
(* on running, and page monitoring follows.  With a command name instead   *)
(* of a target, probes compare the name of the running process.            *)
(*                                                                         *)
(* A process p has a leading thread, p, and may have a helper, -p.  Each   *)
(* forks, and the fork probe knows them by these ids; the other probes and *)
(* the events know the process.                                            *)
(***************************************************************************)
EXTENDS Integers, Sequences, FiniteSets, SequencesExt

CONSTANTS
    NoFile,
    ObsPids,       \* process ids, given in order; the least is the target
    ObsFiles,      \* files a process opens
    Stdin,         \* what descriptor 0 is open on, one of the files or not
    SameBase,      \* pairs of files whose paths end in the same base name
    NamedIn,       \* pairs of files: the name that opens the first is part of the path of the second
    MapAddrs,      \* addresses of mappings
    FollowForks,   \* follow_forks: not --no-follow-forks
    TraceModes,    \* subset of {"pid", "comm"}
    MaxProcSteps,  \* bound on what the processes do
    MaxRounds      \* bound on the rounds of page monitoring

\* Process 0 is nobody, a mapping is not at address 0, and an unresolved
\* path is none of the files.
ASSUME ObsAssumption ==
    /\ ObsPids \subseteq Nat \ {0} /\ IsFiniteSet(ObsPids) /\ \E p, q \in ObsPids : p # q
    /\ MapAddrs \subseteq Nat \ {0}
    /\ \E f, g \in ObsFiles : f # g
    /\ NoFile \notin ObsFiles /\ Stdin # NoFile
    /\ SameBase \subseteq ObsFiles \X ObsFiles /\ NamedIn \subseteq ObsFiles \X ObsFiles

VARIABLES
    trace_mode,  \* how processes are chosen
    task,        \* process id -> [state, parent, helper, named, file, at, gen, dirty]
    psteps,      \* what the processes did so far
    ophase,      \* where the observer is
    tracked_pids,  \* the table in the kernel
    tracked_set,   \* SyscallTracer.tracked_pids
    todo, foundPids,   \* the scan for children: directories to list and files to read, children found
    perf, forks, \* events in the buffers, and threads and children made, not yet polled
    trace,       \* SyscallTracer.events
    live_pids,
    fd_cache,    \* process id -> descriptor -> path
    maps_cache,  \* process id -> mappings
    records,
    monitor,     \* [left, clean, round]: regions to monitor and the state of the first
    missed       \* history: children no probe saw forked and no scan will read

procVars == <<task, psteps>>
bufferVars == <<perf, forks>>
analysisVars == <<live_pids, fd_cache, maps_cache, records, monitor>>
obsVars == <<trace_mode, task, psteps, ophase, tracked_pids, tracked_set, todo, foundPids, perf, forks, trace,
             live_pids, fd_cache, maps_cache, records, monitor, missed>>

Target == CHOOSE p \in ObsPids : \A q \in ObsPids : p <= q
Empty == <<>>
Unborn == [state |-> "none", parent |-> 0, helper |-> "none", named |-> FALSE, file |-> NoFile,
           at |-> [a \in MapAddrs |-> NoFile], gen |-> 0, dirty |-> {}]

\* The target alone; or with a file open, another mapped perhaps, a helper,
\* and a child that one of its threads forked.
Born(parent, helper, f, at) ==
    [Unborn EXCEPT !.state = "live", !.parent = parent, !.helper = helper, !.named = TRUE, !.file = f, !.at = at]
FirstChild == CHOOSE p \in ObsPids \ {Target} : \A q \in ObsPids \ {Target} : p <= q
Alone == [p \in ObsPids |-> IF p = Target THEN Born(0, "none", NoFile, Unborn.at) ELSE Unborn]
WithChild(f, g, t, at) == [Alone EXCEPT ![Target] = Born(0, "live", f, at), ![FirstChild] = Born(t, "none", g, Unborn.at)]

ObsInit ==
    /\ trace_mode \in TraceModes
    /\ \/ task = Alone
       \/ \E f, g \in ObsFiles, t \in {Target, -Target} : \E at \in [MapAddrs -> {NoFile, g}] : task = WithChild(f, g, t, at)
    /\ psteps = 0 /\ ophase = "construct"
    /\ tracked_pids = {} /\ todo = <<>> /\ foundPids = {} /\ perf = <<>> /\ forks = {} /\ trace = <<>>
    /\ tracked_set = IF trace_mode = "pid" THEN {Target} ELSE {}
    /\ live_pids = {} /\ fd_cache = Empty /\ maps_cache = Empty /\ records = <<>>
    /\ monitor = [left |-> <<>>, clean |-> FALSE, round |-> 0]
    /\ missed = {}

Live(p) == task[p].state = "live"
\* Threads, and the process of one.  A child's parent is the thread that
\* forked it.
Owner(t) == IF t < 0 THEN -t ELSE t
ObsTids == ObsPids \cup {-p : p \in ObsPids}
Alive(t) == Live(Owner(t)) /\ (t < 0 => task[Owner(t)].helper = "live")
Threads(p) == {t \in {p, -p} : Alive(t)}
ThreadKids(t) == {c \in ObsPids : Alive(t) /\ Live(c) /\ task[c].parent = t}
Children(p) == {c \in ObsPids : Live(c) /\ Owner(task[c].parent) = p}
\* What every set of processes has that has the children of p and those of
\* its own members.
Descendants(p) ==
    {d \in ObsPids : \A S \in SUBSET ObsPids :
        Children(p) \subseteq S /\ (\A q \in S : Children(q) \subseteq S) => d \in S}

----------------------------------------------------------------------------
(* The processes, and the probes that run in their calls.                  *)

Attached == ophase \in {"attached", "scan", "seed", "poll"}
\* FILTER_PID with the process, CHECK_PARENT_TRACKED with the thread that forks.
Passes(t) == Attached /\ IF trace_mode = "pid" THEN t \in tracked_pids ELSE task[Owner(t)].named
\* perf_submit: there is nobody to take the event before the buffers are open.
Submit(p, e) == perf' = (IF Passes(p) /\ ophase = "poll" THEN Append(perf, e) ELSE perf) /\ UNCHANGED forks
Registers(p) == tracked_pids' = IF Passes(p) THEN tracked_pids \cup {p} ELSE tracked_pids

ProcStep(p) ==
    /\ ophase # "done"
    /\ psteps < MaxProcSteps
    /\ psteps' = psteps + 1
    /\ Live(p)
    /\ UNCHANGED <<trace_mode, ophase, tracked_set, todo, foundPids, trace, analysisVars>>
Event(kind, p, fd, file, hint, ret) ==
    [kind |-> kind, pid |-> p, fd |-> fd, file |-> file, hint |-> hint, ret |-> ret, gen |-> task[p].gen]

\* What a call makes of a process.  gen counts what a later look at /proc
\* may miss.
ForkedFrom(r, t) == [r EXCEPT !.parent = t, !.helper = "none", !.gen = 0, !.dirty = {}]
Threaded(r) == [r EXCEPT !.helper = "live"]
HelperGone(r) == [r EXCEPT !.helper = "dead"]
Exited(r) == [r EXCEPT !.state = "dead", !.gen = @ + 1]
Adopted(r, t) == [r EXCEPT !.parent = t]
Renamed(r) == [r EXCEPT !.named = ~@]
Opened(r, f) == [r EXCEPT !.file = f]
Closed(r) == [r EXCEPT !.file = NoFile, !.gen = @ + 1]
Mapped(r, a) == [r EXCEPT !.at = [@ EXCEPT ![a] = r.file], !.dirty = @ \cup {a}]
Unmapped(r, a) == [r EXCEPT !.at = [@ EXCEPT ![a] = NoFile], !.gen = @ + 1, !.dirty = @ \ {a}]
Cleared(r) == [r EXCEPT !.dirty = {}]

\* history: the children of a known process that no probe saw and whose
\* thread the scan does not come to any more.
Known == tracked_pids \cup foundPids
ToBeRead(t) == ophase = "scan" /\ (<<"list", Owner(t)>> \in Range(todo) \/ <<"read", t>> \in Range(todo))
Misses(t, kids) ==
    missed' = IF trace_mode = "pid" /\ FollowForks /\ Owner(t) \in Known /\ ~ToBeRead(t) THEN missed \cup (kids \ Known) ELSE missed

\* sched_process_fork: thread t makes a process or a thread, x.
ForkProbe(t, x) ==
    /\ tracked_pids' = IF Passes(t) THEN tracked_pids \cup {x} ELSE tracked_pids
    /\ forks' = IF Passes(t) /\ ophase = "poll" THEN forks \cup {x} ELSE forks
    /\ UNCHANGED perf
ObsFork(p, t, c) ==
    /\ ProcStep(p) /\ t \in Threads(p)
    /\ task[c].state = "none" /\ \A q \in ObsPids : q < c => task[q].state # "none"
    /\ task' = [task EXCEPT ![c] = ForkedFrom(task[p], t)]
    /\ ForkProbe(t, c)
    /\ IF Passes(t) THEN UNCHANGED missed ELSE Misses(t, {c})
ObsClone(p) ==
    /\ ProcStep(p)
    /\ task[p].helper = "none"
    /\ task' = [task EXCEPT ![p] = Threaded(@)]
    /\ ForkProbe(p, -p)
    /\ UNCHANGED missed
\* The children of a thread that ends go to the process's other thread.
ObsThreadExit(p) ==
    /\ ProcStep(p)
    /\ task[p].helper = "live"
    /\ task' = [q \in ObsPids |-> IF q = p THEN HelperGone(task[q]) ELSE IF task[q].parent = -p THEN Adopted(task[q], p) ELSE task[q]]
    /\ Misses(p, ThreadKids(-p))
    /\ UNCHANGED <<tracked_pids, bufferVars>>
\* An orphan belongs to process 1 of the system.
ObsExit(p) ==
    /\ ProcStep(p)
    /\ task' = [q \in ObsPids |-> IF q = p THEN Exited(task[q]) ELSE IF Owner(task[q].parent) = p THEN Adopted(task[q], 0) ELSE task[q]]
    /\ UNCHANGED <<tracked_pids, bufferVars, missed>>
ObsExec(p) ==
    /\ ProcStep(p)
    /\ trace_mode = "comm"
    /\ task' = [task EXCEPT ![p] = Renamed(@)]
    /\ UNCHANGED <<tracked_pids, bufferVars, missed>>
\* openat; the probe is on the entry and knows neither the descriptor nor
\* whether the call fails.
ObsOpen(p, f) ==
    /\ ProcStep(p)
    /\ task[p].file = NoFile
    /\ UNCHANGED task \/ task' = [task EXCEPT ![p] = Opened(@, f)]
    /\ Submit(p, Event("openat", p, 0, f, 0, 0))
    /\ Registers(p)
    /\ UNCHANGED missed
ObsClose(p) ==
    /\ ProcStep(p)
    /\ task[p].file # NoFile
    /\ task' = [task EXCEPT ![p] = Closed(@)]
    /\ UNCHANGED <<tracked_pids, bufferVars, missed>>
\* read and write; fsync, whose event has no descriptor.
ObsReadWrite(p, kind) ==
    /\ ProcStep(p)
    /\ task[p].file # NoFile
    /\ Submit(p, Event(kind, p, IF kind = "fsync" THEN 0 ELSE 3, task[p].file, 0, 0))
    /\ Registers(p)
    /\ UNCHANGED <<task, missed>>
\* mmap with an address as a hint or none; the mapping is where the system
\* chooses, at a, or the call fails and a is 0.
ObsMmap(p, hint, a) ==
    /\ ProcStep(p)
    /\ task[p].file # NoFile
    /\ IF a = 0 THEN UNCHANGED task ELSE task[p].at[a] = NoFile /\ task' = [task EXCEPT ![p] = Mapped(@, a)]
    /\ Submit(p, Event("mmap", p, 3, task[p].file, hint, a))
    /\ Registers(p)
    /\ UNCHANGED missed
ObsMunmap(p, a) ==
    /\ ProcStep(p)
    /\ task[p].at[a] # NoFile
    /\ task' = [task EXCEPT ![p] = Unmapped(@, a)]
    /\ UNCHANGED <<tracked_pids, bufferVars, missed>>

----------------------------------------------------------------------------
(* Step 1: attach, seed, trace.                                            *)

ObsStep(from) == ophase = from /\ UNCHANGED <<trace_mode, procVars, missed>>

\* _discover_pids_by_comm, in the constructor.
_discover_pids_by_comm ==
    /\ ObsStep("construct") /\ trace_mode = "comm" /\ tracked_set = {}
    /\ LET ps == {p \in ObsPids : Live(p) /\ task[p].named} IN
       ps # {} /\ tracked_set' = ps \cup (IF FollowForks THEN UNION {Descendants(p) : p \in ps} ELSE {})
    /\ UNCHANGED <<ophase, tracked_pids, todo, foundPids, bufferVars, trace, analysisVars>>
\* BPF(text=src) attaches every probe.
Attach ==
    /\ ObsStep("construct")
    /\ ophase' = "attached"
    /\ UNCHANGED <<tracked_pids, tracked_set, todo, foundPids, bufferVars, trace, analysisVars>>

\* As _seed_tracked_pids, but the target is entered with its children, after the scan.
SeedAfterScan ==
    /\ ObsStep("attached")
    /\ IF trace_mode = "pid" THEN ophase' = "scan" /\ todo' = <<<<"list", Target>>>> /\ foundPids' = {Target} ELSE ophase' = "poll" /\ UNCHANGED <<todo, foundPids>>
    /\ UNCHANGED <<tracked_pids, tracked_set, bufferVars, trace, analysisVars>>

\* _seed_tracked_pids: the processes known so far, then a scan for children.
_seed_tracked_pids ==
    /\ ObsStep("attached")
    /\ tracked_pids' = tracked_pids \cup tracked_set
    /\ IF trace_mode = "pid" /\ FollowForks THEN ophase' = "scan" /\ todo' = <<<<"list", Target>>>> ELSE ophase' = "poll" /\ UNCHANGED todo
    /\ UNCHANGED <<tracked_set, foundPids, bufferVars, trace, analysisVars>>

\* _discover_existing_children, depth first: the threads of a process are
\* listed, the children file of each is read, and the children listed in
\* turn.  What is gone lists nothing.
_discover_existing_children ==
    /\ ObsStep("scan")
    /\ IF todo = <<>> THEN ophase' = "seed" /\ UNCHANGED <<todo, foundPids>>
       ELSE /\ LET x == Head(todo)[2]
                   kids == IF Head(todo)[1] = "read" THEN ThreadKids(x) ELSE {}
                   next == IF Head(todo)[1] = "read" THEN {"list"} \X kids ELSE {"read"} \X Threads(x) IN
               /\ foundPids' = foundPids \cup kids
               /\ \E order \in [1..Cardinality(next) -> next] : Range(order) = next /\ todo' = order \o Tail(todo)
            /\ UNCHANGED ophase
    /\ UNCHANGED <<tracked_pids, tracked_set, bufferVars, trace, analysisVars>>
\* The children found are entered one by one; then the buffers are opened.
SeedChild(c) ==
    /\ ObsStep("seed") /\ c \in foundPids \ (tracked_set \cap tracked_pids)
    /\ tracked_pids' = tracked_pids \cup {c} /\ tracked_set' = tracked_set \cup {c}
    /\ UNCHANGED <<ophase, todo, foundPids, bufferVars, trace, analysisVars>>
OpenBuffers ==
    /\ ObsStep("seed") /\ foundPids \subseteq tracked_set \cap tracked_pids
    /\ ophase' = "poll"
    /\ UNCHANGED <<tracked_pids, tracked_set, todo, foundPids, bufferVars, trace, analysisVars>>
\* poll_ebpf: the handlers append to events and fork_events.
poll_ebpf ==
    /\ ObsStep("poll") /\ (perf # <<>> \/ forks # {})
    /\ trace' = trace \o perf
    /\ tracked_set' = tracked_set \cup forks
    /\ perf' = <<>> /\ forks' = {}
    /\ UNCHANGED <<ophase, tracked_pids, todo, foundPids, analysisVars>>
\* stop_ebpf; what was not polled is gone.  Without events the pipeline ends.
stop_ebpf ==
    /\ ObsStep("poll")
    /\ perf' = <<>> /\ forks' = {}
    /\ ophase' = IF trace = <<>> THEN "done" ELSE "live"
    /\ UNCHANGED <<tracked_pids, tracked_set, todo, foundPids, trace, analysisVars>>

----------------------------------------------------------------------------
(* Steps 2 to 4.                                                           *)

active_pids == {trace[i].pid : i \in 1..Len(trace)}
analysis_pids ==
    LET both == live_pids \cap active_pids IN
    IF both # {} THEN both ELSE IF live_pids # {} THEN live_pids ELSE active_pids

FilterStale ==
    /\ ObsStep("live")
    /\ live_pids' = {t \in ObsTids : t \in tracked_set /\ Alive(t)}
    /\ ophase' = "fds"
    /\ UNCHANGED <<tracked_pids, tracked_set, todo, foundPids, bufferVars, trace, fd_cache, maps_cache, records, monitor>>

\* get_fd_path: unresolved when the descriptor or the process is gone.  The
\* /proc of a thread is that of its process.
get_fd_path(t, fd) == IF ~Alive(t) THEN NoFile ELSE IF fd = 0 THEN Stdin ELSE task[Owner(t)].file
Extend(f, x, y) == [z \in DOMAIN f \cup {x} |-> IF z = x THEN y ELSE f[z]]
Pending(cache) == {p \in analysis_pids \cap live_pids : p \notin DOMAIN cache}
\* Step 2, the descriptors of the events of one process.
ExtractFds ==
    /\ ObsStep("fds")
    /\ IF Pending(fd_cache) = {} THEN ophase' = "maps" /\ UNCHANGED fd_cache
       ELSE /\ \E p \in Pending(fd_cache) :
                LET fds == {trace[i].fd : i \in {j \in 1..Len(trace) : trace[j].pid = p}} IN
                /\ \A q \in Pending(fd_cache) : p <= q
                /\ fd_cache' = Extend(fd_cache, p, [fd \in fds |-> get_fd_path(p, fd)])
            /\ UNCHANGED ophase
    /\ UNCHANGED <<tracked_pids, tracked_set, todo, foundPids, bufferVars, trace, live_pids, maps_cache, records, monitor>>
\* Step 3, parse_maps of one process; its generation is history.
parse_maps ==
    /\ ObsStep("maps")
    /\ \E p \in Pending(maps_cache) :
        /\ \A q \in Pending(maps_cache) : p <= q
        /\ maps_cache' = Extend(maps_cache, p, [at |-> IF Alive(p) THEN task[Owner(p)].at ELSE Unborn.at, gen |-> task[Owner(p)].gen])
    /\ UNCHANGED <<ophase, tracked_pids, tracked_set, todo, foundPids, bufferVars, trace, live_pids, fd_cache, records, monitor>>

\* cross_reference: by the address an mmap returned, by its hint, by the path
\* of the descriptor or its base name, by the name that was opened as a part
\* of a path; the first mapping by the first of these that finds one.
OfFile(f, at) == {a \in MapAddrs : at[a] # NoFile /\ (at[a] = f \/ <<f, at[a]>> \in SameBase)}
cross_reference(e, path, at) ==
    LET First(S) == CHOOSE a \in S : \A b \in S : a <= b
        At(x) == {a \in MapAddrs : e.kind = "mmap" /\ a = x /\ at[a] # NoFile}
        Named == {a \in MapAddrs : e.kind = "openat" /\ <<e.file, at[a]>> \in NamedIn} IN
    CASE At(e.ret) # {} -> e.ret
      [] At(e.ret) = {} /\ At(e.hint) # {} -> e.hint
      [] At(e.ret) = {} /\ At(e.hint) = {} /\ OfFile(path, at) # {} -> First(OfFile(path, at))
      [] At(e.ret) = {} /\ At(e.hint) = {} /\ OfFile(path, at) = {} /\ Named # {} -> First(Named)
      [] OTHER -> 0

\* As fd_info, but the cache is by descriptor alone.
AnyFdInfo(p, fd) ==
    LET at == {q \in DOMAIN fd_cache : fd \in DOMAIN fd_cache[q]} IN
    IF at = {} THEN NoFile ELSE fd_cache[CHOOSE q \in at : \A r \in at : r <= q][fd]

\* fd_cache.get((ev.pid, ev.fd)).
fd_info(p, fd) == IF p \in DOMAIN fd_cache /\ fd \in DOMAIN fd_cache[p] THEN fd_cache[p][fd] ELSE NoFile

\* One record; its pages are seen later.
MapsAt(p) == IF p \in DOMAIN maps_cache THEN maps_cache[p].at ELSE Unborn.at
ObsRecord(e) ==
    LET path == fd_info(e.pid, e.fd) IN
    [event |-> e, path |-> path, mapping |-> cross_reference(e, path, MapsAt(e.pid)), pages |-> {}]

\* The records; the regions to monitor, each once: those of the records,
\* else those of the files seen, else all.
BuildRecords ==
    /\ ObsStep("maps") /\ Pending(maps_cache) = {}
    /\ LET recs == [i \in 1..Len(trace) |-> ObsRecord(trace[i])]
           matched == {<<r.event.pid, r.mapping>> : r \in {recs[i] : i \in {j \in 1..Len(recs) : recs[j].mapping # 0}}}
           target_paths == ({r.path : r \in Range(recs)} \cap ObsFiles)
                           \cup {e.file : e \in {trace[i] : i \in {j \in 1..Len(trace) : trace[j].kind = "openat" /\ trace[j].pid \in DOMAIN fd_cache}}}
           Of(p, files) == {p} \X UNION {OfFile(f, MapsAt(p)) : f \in files}
           fallback == UNION {IF Of(p, target_paths) # {} THEN Of(p, target_paths) ELSE Of(p, ObsFiles) : p \in DOMAIN maps_cache}
           regions == IF matched # {} \/ target_paths = {} THEN matched ELSE fallback IN
       /\ records' = recs
       /\ monitor' = [left |-> SetToSeq(regions), clean |-> FALSE, round |-> 0]
       /\ ophase' = "monitor"
    /\ UNCHANGED <<tracked_pids, tracked_set, todo, foundPids, bufferVars, trace, live_pids, fd_cache, maps_cache>>

\* monitor_dirty_pages: clear the soft-dirty bits of the process, sleep, scan
\* the pages of the region; until the time is up or the process is gone.
ClearRefs ==
    /\ ophase = "monitor" /\ monitor.left # <<>> /\ ~monitor.clean
    /\ LET p == Head(monitor.left)[1] IN
       IF Alive(p) /\ monitor.round < MaxRounds
       THEN task' = [task EXCEPT ![Owner(p)] = Cleared(@)] /\ monitor' = [monitor EXCEPT !.clean = TRUE]
       ELSE UNCHANGED task /\ monitor' = [monitor EXCEPT !.left = Tail(@), !.round = 0]
    /\ UNCHANGED <<trace_mode, psteps, ophase, tracked_pids, tracked_set, todo, foundPids, bufferVars, trace, live_pids, fd_cache, maps_cache, records, missed>>
ScanPages ==
    /\ ObsStep("monitor") /\ monitor.left # <<>> /\ monitor.clean
    /\ LET p == Head(monitor.left)[1]
           a == Head(monitor.left)[2]
           seen == Alive(p) /\ a \in task[Owner(p)].dirty IN
       records' = [i \in 1..Len(records) |->
                    IF seen /\ records[i].event.pid = p /\ records[i].mapping = a
                    THEN [records[i] EXCEPT !.pages = @ \cup {<<p, a>>}] ELSE records[i]]
    /\ monitor' = [monitor EXCEPT !.clean = FALSE, !.round = @ + 1]
    /\ UNCHANGED <<ophase, tracked_pids, tracked_set, todo, foundPids, bufferVars, trace, live_pids, fd_cache, maps_cache>>
EndPipeline ==
    /\ ObsStep("monitor") /\ monitor.left = <<>>
    /\ ophase' = "done"
    /\ UNCHANGED <<tracked_pids, tracked_set, todo, foundPids, bufferVars, trace, analysisVars>>

ObsNext ==
    \/ \E p, c \in ObsPids, t \in ObsTids : ObsFork(p, t, c)
    \/ \E p \in ObsPids : ObsClone(p) \/ ObsThreadExit(p)
    \/ \E p \in ObsPids : ObsExit(p) \/ ObsExec(p) \/ ObsClose(p)
    \/ \E p \in ObsPids, f \in ObsFiles : ObsOpen(p, f)
    \/ \E p \in ObsPids, kind \in {"rw", "fsync"} : ObsReadWrite(p, kind)
    \/ \E p \in ObsPids, hint, a \in MapAddrs \cup {0} : ObsMmap(p, hint, a)
    \/ \E p \in ObsPids, a \in MapAddrs : ObsMunmap(p, a)
    \/ _discover_pids_by_comm \/ Attach \/ _seed_tracked_pids \/ _discover_existing_children
    \/ \E c \in ObsPids : SeedChild(c)
    \/ OpenBuffers \/ poll_ebpf \/ stop_ebpf
    \/ FilterStale \/ ExtractFds \/ parse_maps \/ BuildRecords \/ ClearRefs \/ ScanPages \/ EndPipeline

ObsSpec == ObsInit /\ [][ObsNext]_obsVars

----------------------------------------------------------------------------
\* A live process has a live parent, not itself, or none.
ParentsLive ==
    \A c \in ObsPids : Live(c) =>
        task[c].parent = 0 \/ (task[c].parent \in ObsTids /\ Alive(task[c].parent) /\ Owner(task[c].parent) # c)
\* The tables hold processes and threads.
TablesOK == todo \in Seq({"list", "read"} \X ObsTids) /\ foundPids \subseteq ObsPids /\ Known \cup tracked_set \cup forks \subseteq ObsTids
\* What the scan has still to do.  A live child of a process that is tracked
\* or found is tracked, found or excepted itself, unless the files of its
\* parent are still to be read.
Covered(c) == c \in Known \cup missed \/ ToBeRead(task[c].parent)
ScanLeavesNone ==
    trace_mode = "pid" =>
        /\ ophase \in {"construct", "attached"} => tracked_pids = {} /\ tracked_set = {Target} /\ foundPids = {}
        /\ FollowForks /\ ophase \in {"scan", "seed", "poll"} =>
            /\ Target \in tracked_pids
            /\ ophase = "poll" => foundPids \subseteq tracked_pids
            /\ \A c \in ObsPids : Live(c) /\ Owner(task[c].parent) \in Known => Covered(c)

\* Once the table is seeded, every live descendant of the target is traced,
\* its descendants since too, whatever was forked and exited during the scan,
\* with two exceptions, and what they fork: a child forked by a thread that
\* is not in the table, once the scan has read this thread's file (a helper
\* older than the tracing never gets into the table, a descendant's leading
\* thread after the scan); a child that a thread, ending during the scan,
\* leaves to one whose file has been read.  An orphan is nobody's descendant.
DescendantsTracked ==
    /\ ParentsLive /\ TablesOK /\ ScanLeavesNone
    /\ trace_mode = "pid" /\ FollowForks /\ ophase = "poll" =>
        Descendants(Target) \subseteq tracked_pids \cup missed \cup UNION {Descendants(m) : m \in missed}

\* The types of what the pipeline keeps.
Files == ObsFiles \cup {NoFile}
Processes == [state : {"none", "live", "dead"}, parent : ObsTids \cup {0}, helper : {"none", "live", "dead"},
              named : BOOLEAN, file : Files, at : [MapAddrs -> Files], gen : Nat, dirty : SUBSET MapAddrs]
ObsEvents == [kind : {"openat", "rw", "fsync", "mmap"}, pid : ObsPids, fd : {0, 3}, file : ObsFiles,
              hint : MapAddrs \cup {0}, ret : MapAddrs \cup {0}, gen : Nat]
ObsRecords == [event : ObsEvents, path : Files \cup {Stdin}, mapping : MapAddrs \cup {0},
               pages : SUBSET (ObsPids \X (MapAddrs \cup {0}))]
ObsTypeOK ==
    /\ task \in [ObsPids -> Processes]
    /\ perf \in Seq(ObsEvents) /\ trace \in Seq(ObsEvents) /\ records \in Seq(ObsRecords)
    /\ live_pids \subseteq ObsTids

\* What an event says holds until the process closes or unmaps something or
\* exits: its descriptor is open on the file, its mapping is there.
EventHolds(e) ==
    LET now == task[e.pid] IN
    /\ now.state # "none" /\ e.gen <= now.gen
    /\ e.kind # "mmap" => e.ret = 0
    /\ e.gen = now.gen =>
        /\ now.state = "live"
        /\ e.fd # 0 => now.file = e.file
        /\ e.kind = "mmap" /\ e.ret # 0 => now.at[e.ret] = e.file
EventsHold ==
    /\ \A i \in 1..Len(perf) : EventHolds(perf[i])
    /\ \A i \in 1..Len(trace) : EventHolds(trace[i])

\* So do the paths looked up for it, and its mappings as of when they were
\* read.
PathHolds(e) ==
    e.pid \in DOMAIN fd_cache =>
        /\ e.fd \in DOMAIN fd_cache[e.pid]
        /\ fd_cache[e.pid][e.fd] \in Files \cup {Stdin}
        /\ e.fd = 0 => fd_cache[e.pid][e.fd] \in {NoFile, Stdin}
        /\ e.fd # 0 /\ e.gen = task[e.pid].gen => fd_cache[e.pid][e.fd] = e.file
MapsHold(e) ==
    e.pid \in DOMAIN maps_cache =>
        /\ e.pid \in DOMAIN fd_cache
        /\ maps_cache[e.pid].at \in [MapAddrs -> Files]
        /\ maps_cache[e.pid].gen = e.gen =>
            /\ e.fd # 0 => fd_cache[e.pid][e.fd] = e.file
            /\ e.kind = "mmap" /\ e.ret # 0 => maps_cache[e.pid].at[e.ret] = e.file
LookupsHold ==
    /\ \A i \in 1..Len(trace) : PathHolds(trace[i]) /\ MapsHold(trace[i])
    /\ ophase \in {"construct", "attached", "scan", "seed", "poll", "live"} => fd_cache = Empty
    /\ ophase \in {"construct", "attached", "scan", "seed", "poll", "live", "fds"} => maps_cache = Empty
    /\ ophase = "maps" => Pending(fd_cache) = {}
    /\ ophase \notin {"monitor", "done"} => records = <<>>

\* The files whose mapping an event's record may show: its own, and what
\* cross_reference takes for it.  That is a file of the same base name, one
\* whose path contains the name opened, the mapping at the hint of an mmap
\* that failed, and, as openat and fsync have descriptor 0 in their events,
\* the file of descriptor 0.
MayShow(e, a, g) ==
    \/ g = e.file
    \/ e.ret = 0 /\ <<e.file, g>> \in SameBase
    \/ e.kind = "openat" /\ <<e.file, g>> \in NamedIn
    \/ e.kind = "mmap" /\ e.ret = 0 /\ a = e.hint
    \/ e.fd = 0 /\ (g = Stdin \/ <<Stdin, g>> \in SameBase)

\* A record is about the process and the file of its event, unless the
\* process closed or unmapped something or exited in between: the path of
\* its descriptor is the event's file, its mapping is the one an mmap made,
\* else one of a file the event may show; a page event is of the record's
\* own region.  A record of a live tracked process is resolved.
RecordIsOwn(r) ==
    LET e == r.event
        p == e.pid
        fresh == p \in DOMAIN maps_cache /\ maps_cache[p].gen = e.gen IN
    /\ fresh /\ e.fd # 0 => r.path = e.file
    /\ fresh /\ e.kind = "mmap" /\ e.ret # 0 => r.mapping = e.ret
    /\ r.mapping # 0 => p \in DOMAIN maps_cache /\ (fresh => MayShow(e, r.mapping, maps_cache[p].at[r.mapping]))
    /\ r.pages \subseteq {<<p, r.mapping>>}
    /\ p \in live_pids => p \in DOMAIN fd_cache
RecordsAreOwn ==
    /\ ObsTypeOK /\ EventsHold /\ LookupsHold
    /\ \A i \in 1..Len(records) : RecordIsOwn(records[i])

============================================================================
