--------------------------- MODULE OffloadDriver ---------------------------
(***************************************************************************)
(* tools/kvio/run_kv_offload_io.py: the options are checked, an intent is  *)
(* written or replayed, and the streams store and then load their objects  *)
(* pass by pass, the timed passes between the markers an external counter  *)
(* reads and writes.                                                       *)
(*                                                                         *)
(* The engine is external: a store needs a free slot and may fail, a load  *)
(* needs the object and may fail.  Latencies, rates and printing are left  *)
(* out: an operation is timed or failed.                                   *)
(***************************************************************************)
EXTENDS IntentV1

CONSTANTS
    CommandLines,   \* the command lines considered: records of options
    Slots,          \* the objects the engine has room for
    MaxIoErrors     \* bound on the operations the device fails

\* What validate_intent asks of the dimensions; a plain command line is not
\* checked, and is assumed to be a sensible one.
ASSUME DriverAssumption ==
    /\ Slots \in Nat
    /\ \A o \in CommandLines :
        /\ {"intent", "dims"} \subseteq DOMAIN o /\ o.intent \in BOOLEAN
        /\ \A f \in {"chunks", "streams", "ranks", "iters", "payload"} : o.dims[f] \in Nat \ {0}
        /\ o.dims.warmup \in Nat /\ o.dims.metadata \in Nat
        /\ o.mdts_bytes \in Nat /\ o.hw_cap \in Nat \ {0} /\ o.max_segments \in Nat \ {0} /\ o.page \in Nat \ {0}
        /\ o.dma_ceiling_bytes \in Nat /\ o.software_limit_bytes \in Nat

VARIABLES
    opt,        \* the command line
    dstep,      \* "parse", "setup", "gate", "run", "closing", "report", "exited"
    pass, phase,
    at,         \* stream -> operations done in the phase, -1 before the barrier
    markers,    \* the files in the gate directory
    engine,     \* the keys stored
    tally,      \* phase -> [failed, timed, warm]: operations failed, timed, and done in warmup
    ioErrors,   \* device failures so far
    manifest,   \* "none", "started", "complete", "completed-with-io-errors"
    status,     \* exit status, -1 while running
    outside     \* ghost: timed operations outside the markers, or warmup inside them

driverVars == <<opt, dstep, pass, phase, at, markers, engine, tally, ioErrors, manifest, status, outside>>

HostEngines == {"posix", "io_uring", "uring_cmd"}

\* The checks on the options, in the order of the code; the gate directory
\* exists and the manifest and RAPL files do not, or the first use refuses.
OptionsAccepted(o) ==
    /\ o.gate => o.gate_timeout > 0 /\ o.stale_markers = {}
    /\ o.gate_close => o.gate
    /\ o.rapl => o.gate_close
    /\ o.intent_only => o.intent_out
    /\ ~(o.intent /\ (o.intent_out \/ o.intent_only))
    /\ o.intent => /\ o.engine \in HostEngines /\ o.target_manifest
                   /\ o.mdts_bytes > 0
                   /\ o.plan_limits = <<o.mdts_bytes, o.dma_ceiling_bytes, o.software_limit_bytes>>
                   /\ o.dmabuf => o.dma_ceiling_bytes > 0
    /\ ~o.intent_only => o.device

\* kernel_passthrough_cap: the largest command mapped from ordinary pages.
PageCap(o) == Min({o.hw_cap, o.max_segments * o.page})

\* --mdts-bytes; 0 asks for the cap, which only a uring_cmd target has, and
\* only when it is an NVMe device whose queue can be read.
Mdts(o) == IF o.mdts_bytes = 0 THEN PageCap(o) ELSE o.mdts_bytes
MdtsKnown(o) == o.mdts_bytes > 0 \/ (o.engine = "uring_cmd" /\ o.nvme_queue)
\* What a target plan is lowered with: the limits that are given (0: not given).
Limits(o) == {Mdts(o)} \cup ({o.dma_ceiling_bytes, o.software_limit_bytes} \ {0})

\* What is found out when the buffers are made.
DmabufUsable(o) == o.dmabuf => o.engine = "io_uring" /\ o.odirect

\* split_commands: ceil(nbytes/xfer) commands, each rounded up to the block.
split_commands(nbytes, xfer, lba) ==
    [k \in 1 .. (nbytes + xfer - 1) \div xfer |->
        ((Min({xfer, nbytes - (k - 1) * xfer}) + lba - 1) \div lba) * lba]

\* project: a store writes the header and then the payload, a load the payload.
project(o) ==
    LET payload == split_commands(o.dims.payload, Mdts(o), o.block_align)
        header == split_commands(o.dims.metadata, Mdts(o), o.block_align)
    IN [store_cmds |-> Len(header) + Len(payload), load_cmds |-> Len(payload)]

NStreams(o) == o.dims.streams
StreamIds(o) == 0 .. NStreams(o) - 1

Sequence(o, it, name, stream, chunk, rank) ==
    ((it * 2 + (IF name = "load" THEN 1 ELSE 0)) * NStreams(o) + stream) * o.dims.chunks * o.dims.ranks
      + chunk * o.dims.ranks + rank

\* phase_operations: from the intent, the operations of the phase and stream
\* in its order; without one, chunk by chunk and rank by rank.
phase_operations(o, it, name, stream) ==
    LET ops == build_kv_offload_intent(o.dims)
        Own(i) == ops[i].pass = it /\ ops[i].phase = name /\ ops[i].stream = stream
        Id(i) == [pass |-> it, stream |-> stream, chunk_index |-> ops[i].chunk_index, kv_rank |-> ops[i].kv_rank,
                  sequence |-> i - 1]
    IN IF o.intent THEN FlattenSeq([i \in DOMAIN ops |-> IF Own(i) THEN <<Id(i)>> ELSE <<>>])
       ELSE [k \in 1 .. o.dims.chunks * o.dims.ranks |->
              LET chunk == (k - 1) \div o.dims.ranks
                  rank == (k - 1) % o.dims.ranks
              IN [pass |-> it, stream |-> stream, chunk_index |-> chunk, kv_rank |-> rank,
                  sequence |-> Sequence(o, it, name, stream, chunk, rank)]]

\* As key_for_operation, one key for all passes.
KeyWithoutPass(o, operation) == <<operation.stream * o.dims.chunks + operation.chunk_index, operation.kv_rank>>

key_for_operation(o, operation) ==
    <<(operation.pass * NStreams(o) + operation.stream) * o.dims.chunks + operation.chunk_index, operation.kv_rank>>

----------------------------------------------------------------------------
NoTally == [store |-> [failed |-> 0, timed |-> 0, warm |-> 0], load |-> [failed |-> 0, timed |-> 0, warm |-> 0]]

DriverInit ==
    /\ opt \in CommandLines
    /\ dstep = "parse" /\ pass = 0 /\ phase = "store" /\ at = <<>> /\ markers = opt.stale_markers
    /\ engine = {} /\ tally = NoTally /\ ioErrors = 0 /\ manifest = "none" /\ status = -1 /\ outside = 0

Exit(code) == dstep' = "exited" /\ status' = code

AtBarrier == [s \in StreamIds(opt) |-> -1]

\* The options, the intent written or loaded, and the target manifest, whose
\* status says started from here on.
Parse ==
    /\ dstep = "parse"
    /\ IF ~OptionsAccepted(opt) THEN Exit(2) /\ UNCHANGED manifest
       ELSE IF opt.intent_only THEN Exit(0) /\ UNCHANGED manifest
       ELSE IF ~MdtsKnown(opt) THEN Exit(1) /\ UNCHANGED manifest
       ELSE /\ dstep' = "setup" /\ status' = status
            /\ manifest' = (IF opt.intent THEN "started" ELSE manifest)
    /\ UNCHANGED <<opt, pass, phase, at, markers, engine, tally, ioErrors, outside>>

\* The engine and the buffers; the first pass may be a timed one.
Setup ==
    /\ dstep = "setup"
    /\ IF ~DmabufUsable(opt) THEN Exit(1) /\ UNCHANGED at
       ELSE /\ dstep' = (IF opt.gate /\ opt.dims.warmup = 0 THEN "gate" ELSE "run") /\ status' = status
            /\ at' = AtBarrier
    /\ markers' = markers \cup (IF dstep' = "gate" THEN {"READY"} ELSE {})
    /\ UNCHANGED <<opt, pass, phase, engine, tally, ioErrors, manifest, outside>>

\* The wait for GO after READY, or its deadline.
Go ==
    /\ dstep = "gate" /\ "GO" \in markers
    /\ dstep' = "run"
    /\ UNCHANGED <<opt, pass, phase, at, markers, engine, tally, ioErrors, manifest, status, outside>>

GateTimeout ==
    /\ dstep = "gate" /\ "GO" \notin markers
    /\ Exit(1)
    /\ UNCHANGED <<opt, pass, phase, at, markers, engine, tally, ioErrors, manifest, outside>>

\* run_phase: no stream begins before all are at the barrier.
BarrierOpens ==
    /\ dstep = "run" /\ \A s \in StreamIds(opt) : at[s] = -1
    /\ at' = [s \in StreamIds(opt) |-> 0]
    /\ UNCHANGED <<opt, dstep, pass, phase, markers, engine, tally, ioErrors, manifest, status, outside>>

\* Whether the marker files say that the operation is to be charged.
Charged == ~opt.gate \/ ({"READY", "GO"} \subseteq markers /\ "DONE" \notin markers)

\* do_store or do_load of the next object of stream s; every result is
\* checked, an exception counts as a failure.
Operate(s) ==
    LET mine == phase_operations(opt, pass, phase, s)
        key == key_for_operation(opt, mine[at[s] + 1])
        timed == pass >= opt.dims.warmup
        can == IF phase = "store" THEN key \in engine \/ Cardinality(engine) < Slots ELSE key \in engine
        Count(f) == tally' = [tally EXCEPT ![phase][f] = @ + 1]
    IN /\ dstep = "run" /\ at[s] \in 0 .. Len(mine) - 1
       /\ \/ /\ can /\ Count(IF timed THEN "timed" ELSE "warm")
             /\ engine' = engine \cup {key} /\ UNCHANGED ioErrors
          \/ /\ Count("failed") /\ UNCHANGED engine
             /\ IF can THEN ioErrors < MaxIoErrors /\ ioErrors' = ioErrors + 1 ELSE UNCHANGED ioErrors
       /\ at' = [at EXCEPT ![s] = @ + 1]
       /\ outside' = outside + (IF (timed /\ ~Charged) \/ (~timed /\ opt.gate /\ Charged) THEN 1 ELSE 0)
       /\ UNCHANGED <<opt, dstep, pass, phase, markers, manifest, status>>

\* The threads are joined: the loads follow the stores, and the next pass,
\* at the first timed one through the gate, or the end.
Joined ==
    /\ dstep = "run" /\ \A s \in StreamIds(opt) : at[s] = Len(phase_operations(opt, pass, phase, s))
    /\ at' = AtBarrier
    /\ IF phase = "store" THEN phase' = "load" /\ UNCHANGED <<pass, dstep, markers>>
       ELSE LET last == pass + 1 = opt.dims.warmup + opt.dims.iters
                gate == opt.gate /\ pass + 1 = opt.dims.warmup
            IN /\ phase' = "store" /\ pass' = pass + 1
               /\ dstep' = IF last THEN IF opt.gate_close THEN "closing" ELSE "report" ELSE IF gate THEN "gate" ELSE "run"
               /\ markers' = markers \cup (IF last /\ opt.gate_close THEN {"DONE"} ELSE IF ~last /\ gate THEN {"READY"} ELSE {})
    /\ UNCHANGED <<opt, engine, tally, ioErrors, manifest, status, outside>>

\* The wait for CLOSE after DONE, or its deadline.
Close ==
    /\ dstep = "closing" /\ "CLOSE" \in markers
    /\ dstep' = "report"
    /\ UNCHANGED <<opt, pass, phase, at, markers, engine, tally, ioErrors, manifest, status, outside>>

CloseTimeout ==
    /\ dstep = "closing" /\ "CLOSE" \notin markers
    /\ Exit(1)
    /\ UNCHANGED <<opt, pass, phase, at, markers, engine, tally, ioErrors, manifest, outside>>

\* The record and the target manifest, and the exit status.
Report ==
    LET failed == tally.store.failed + tally.load.failed
    IN /\ dstep = "report"
       /\ manifest' = IF ~opt.intent THEN manifest ELSE IF failed = 0 THEN "complete" ELSE "completed-with-io-errors"
       /\ Exit(IF failed # 0 /\ ~opt.allow_io_errors THEN 2 ELSE 0)
       /\ UNCHANGED <<opt, pass, phase, at, markers, engine, tally, ioErrors, outside>>

\* The external counter: GO once it is attached, CLOSE once it has read.
Attach ==
    /\ opt.gate /\ "READY" \in markers /\ "GO" \notin markers
    /\ markers' = markers \cup {"GO"}
    /\ UNCHANGED <<opt, dstep, pass, phase, at, engine, tally, ioErrors, manifest, status, outside>>

Detach ==
    /\ opt.gate /\ "DONE" \in markers /\ "CLOSE" \notin markers
    /\ markers' = markers \cup {"CLOSE"}
    /\ UNCHANGED <<opt, dstep, pass, phase, at, engine, tally, ioErrors, manifest, status, outside>>

DriverNext ==
    \/ Parse \/ Setup \/ Go \/ GateTimeout \/ BarrierOpens \/ Joined \/ Close \/ CloseTimeout \/ Report
    \/ \E s \in StreamIds(opt) : Operate(s)
    \/ Attach \/ Detach

DriverSpec == DriverInit /\ [][DriverNext]_driverVars

----------------------------------------------------------------------------
\* What an intent is refused without; a plain command line is not.
WarmupNotNegative == \A o \in CommandLines : o.dims.warmup \in Nat

\* Where a gated run is between its markers: before the first timed pass there
\* is none, from GO on the passes are timed, and after DONE none is run.
MarkersInv ==
    /\ outside = 0
    /\ opt \in CommandLines /\ pass \in Nat
    /\ opt.gate =>
        /\ dstep = "parse" /\ opt.stale_markers = {} => markers = {}
        /\ dstep = "setup" => markers = {}
        /\ dstep = "gate" => pass = opt.dims.warmup /\ "READY" \in markers /\ "DONE" \notin markers
        /\ dstep = "run" => IF pass < opt.dims.warmup THEN markers = {}
                            ELSE {"READY", "GO"} \subseteq markers /\ "DONE" \notin markers
    /\ dstep \in {"parse", "setup"} => pass = 0

PassesOf(d) == d.warmup + d.iters
InStream(d) == d.chunks * d.ranks
Counted(p) == tally[p].failed + tally[p].timed + tally[p].warm

\* A finished run has accounted for every operation: none is both absent from
\* the failures and from the numbers, a manifest says complete exactly when
\* all succeeded, and status 0 then, or by --allow-io-errors.
FinishedAccounts ==
    manifest \in {"complete", "completed-with-io-errors"} =>
        /\ \A p \in {"store", "load"} : Counted(p) = PassesOf(opt.dims) * InPhase(opt.dims)
        /\ manifest = "complete" <=> /\ tally.store.timed = opt.dims.iters * InPhase(opt.dims)
                                     /\ tally.load.failed = 0 /\ tally.store.failed = 0
        /\ status = 0 => manifest = "complete" \/ opt.allow_io_errors

\* The counter is charged with the timed operations and nothing else, an
\* object keeps a slot of its own through all passes, and a run that reports
\* has accounted for every operation.
DriverAccounts ==
    /\ MarkersInv
    /\ Cardinality(engine) = tally.store.timed + tally.store.warm
    /\ FinishedAccounts

\* The operations done in the phase, of a stream's places at: its first ones.
DoneOf(o, places) == {w \in StreamIds(o) \X (1 .. InStream(o.dims)) : w[2] <= places[w[1]]}

\* The key of the k-th object of stream s in a pass.
ObjectKey(o, it, s, k) ==
    <<(it * NStreams(o) + s) * o.dims.chunks + ((k - 1) \div o.dims.ranks), (k - 1) % o.dims.ranks>>

\* While streams run: the numbers are those of the passes and phases before
\* and of the operations done in this one, and an object stored is one of
\* theirs.
DriverCounts ==
    LET n == InPhase(opt.dims)
        done == Cardinality(DoneOf(opt, at))
        warmup == opt.dims.warmup
    IN /\ at \in [StreamIds(opt) -> -1 .. InStream(opt.dims)]
       /\ pass \in 0 .. PassesOf(opt.dims)
       /\ Counted("store") = IF phase = "store" THEN pass * n + done ELSE (pass + 1) * n
       /\ Counted("load") = IF phase = "store" THEN pass * n ELSE pass * n + done
       /\ pass < warmup => tally.store.timed = 0
       /\ pass >= warmup => /\ tally.store.warm <= warmup * n
                            /\ tally.store.timed <= (pass - warmup) * n + (IF phase = "store" THEN done ELSE n)
       /\ \A key \in engine : \E it \in 0 .. pass, s \in StreamIds(opt), k \in 1 .. InStream(opt.dims) :
            key = ObjectKey(opt, it, s, k) /\ (it < pass \/ phase = "load" \/ k <= at[s])

DriverInv ==
    /\ opt \in CommandLines /\ phase \in {"store", "load"}
    /\ dstep \in {"parse", "setup", "gate", "run", "closing", "report", "exited"}
    /\ tally \in [{"store", "load"} -> [failed : Nat, timed : Nat, warm : Nat]]
    /\ IsFiniteSet(engine) /\ Cardinality(engine) = tally.store.timed + tally.store.warm
    /\ dstep \in {"parse", "setup"} => pass = 0 /\ phase = "store" /\ tally = NoTally /\ engine = {}
    /\ dstep \in {"gate", "run", "closing", "report"} => DriverCounts
    /\ dstep \in {"gate", "run"} => pass < PassesOf(opt.dims)
    /\ dstep \in {"closing", "report"} => pass = PassesOf(opt.dims) /\ phase = "store" /\ at = AtBarrier
    /\ dstep # "exited" => manifest \in {"none", "started"}
    /\ FinishedAccounts

\* Replaying the intent that a run writes performs the operations of the run,
\* in the same order in each stream, under the same positions; and the target
\* plan it is lowered to has as many commands for an operation as are
\* projected, or more where another limit is below the one the engine and the
\* projection use.
ReplayIsTheRun ==
    dstep = "exited" =>
    LET direct == [opt EXCEPT !.intent = FALSE]
        replay == [opt EXCEPT !.intent = TRUE]
        ops == build_kv_offload_intent(opt.dims)
        effective == Min(Limits(opt))
        Lowered(i) == Len(Commands(opt.dims, ops[i], i - 1, effective))
        Projected(i) == IF ops[i].phase = "store" THEN project(opt).store_cmds ELSE project(opt).load_cmds
    IN /\ \A it \in 0 .. opt.dims.warmup + opt.dims.iters - 1, name \in {"store", "load"}, s \in StreamIds(opt) :
            phase_operations(direct, it, name, s) = phase_operations(replay, it, name, s)
       /\ \A i \in DOMAIN ops : Lowered(i) >= Projected(i) /\ (effective = Mdts(opt) => Lowered(i) = Projected(i))

\* The numbers of a driver run are those of its operations, and the intent it
\* writes replays them (run_kv_offload_io).
DriverIsTrue == DriverAccounts /\ ReplayIsTheRun

============================================================================
