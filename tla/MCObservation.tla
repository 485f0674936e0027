--------------------------- MODULE MCObservation ---------------------------
(***************************************************************************)
(* What watches a system and what reads the watchers' logs: the system     *)
(* call monitor, the filter of its log, the ftrace collector, the blktrace *)
(* analyzers, the poll of a disk and the I/O path observer. They share no  *)
(* state: part says which of them a behaviour runs.                        *)
(***************************************************************************)
EXTENDS SyscallMonitor, FilterLog, FtraceCollector, NvmeAnalyzer, PathObserver

CONSTANTS Part, t1, t2, f1, f2

VARIABLE part

\* Threads of one process that call openat and mmap.
MCTasks == {t1, t2}
OneProcess == [t \in MCTasks |-> t1]
TwoAndOne == [t \in MCTasks |-> IF t = t1 THEN 2 ELSE 1]
MCNrs == {"mmap", "openat"}

\* One disk with a partition; a command of a passthrough on either of two
\* keys; the settings of a tracefs somebody uses, and one file of it that
\* cannot be written.
MCDisk == [disk |-> 10, part |-> 0, ctrl |-> 0, generic |-> TRUE]
MCPartitions == [d \in {10} |-> {1}]
MCNvmeKeys == {<<0, 1, 7>>, <<0, 2, 7>>}
MCBlockExtents == {<<0, 8>>}
MCNvmeCommands == {[op |-> "read", slba |-> 1, len |-> 0]}
MCSettings == {[[f \in TracefsFiles |-> 0] EXCEPT !["tracing_on"] = 1, !["comp_enable"] = 1]}
MCBrokens == {{}} \cup {{f} : f \in TracefsFiles \ Range(Filters)}
MCUnreadables == {{}}

\* Short requests, and one far longer than the others.
MCExtents == {<<1, 2>>, <<2, 3>>, <<2, 40>>}

\* Two files; the name of the first is part of the path of the second.  A
\* process that is not alone has the first open.
MCNamedIn == {<<f1, f1>>, <<f2, f2>>, <<f1, f2>>}

Init ==
    /\ part \in Part
    /\ MonInit /\ FilterInit /\ FtraceInit /\ BlkInit /\ LiveInit /\ ObsInit
    /\ part # "ftrace" => broken = {}
    /\ part # "blktrace" => requests = <<>>
    /\ part # "live" => disk.present
    /\ part # "path" => trace_mode = "pid"
    /\ part # "path" \/ trace_mode = "comm" => Children(Target) = {}
    /\ \A p \in ObsPids : Children(p) # {} => task[p].file = f1 /\ \A c \in Children(p) : task[c].file = f2

Next ==
  /\ UNCHANGED part
  /\ \/ part = "monitor" /\ MonNext /\ UNCHANGED <<filterVars, ftraceVars, blkVars, liveVars, obsVars>>
     \/ part = "filter" /\ FilterNext /\ UNCHANGED <<monVars, ftraceVars, blkVars, liveVars, obsVars>>
     \/ part = "ftrace" /\ FtraceNext /\ UNCHANGED <<monVars, filterVars, blkVars, liveVars, obsVars>>
     \/ part = "blktrace" /\ BlkNext /\ UNCHANGED <<monVars, filterVars, ftraceVars, liveVars, obsVars>>
     \/ part = "live" /\ LiveNext /\ UNCHANGED <<monVars, filterVars, ftraceVars, blkVars, obsVars>>
     \/ part = "path" /\ ObsNext /\ UNCHANGED <<monVars, filterVars, ftraceVars, blkVars, liveVars>>

Spec == Init /\ [][Next]_<<part, monVars, filterVars, ftraceVars, blkVars, liveVars, obsVars>>
============================================================================
