------------------------------ MODULE MCTools ------------------------------
(***************************************************************************)
(* Tools on small instances: the benchmark, the offload driver and the     *)
(* release bundles of kvio, the replay of device captures, and the         *)
(* timeline of KV operations.  They share no state: part says which of     *)
(* them a behaviour runs.                                                  *)
(***************************************************************************)
EXTENDS Bench, OffloadDriver, Release, DeviceReplay, RecordReplay

CONSTANTS b1, b2

VARIABLE part

\* A device of 32768 bytes under regions that it holds or not; three clones
\* of one job, and two groups of jobs.
Job(name, rw, bs, n, partition) ==
    [name |-> name, rw |-> rw, bs |-> bs, iodepth |-> 2, numjobs |-> n, partition_region |-> partition,
     group_reporting |-> partition, mmaphuge |-> TRUE]
MCTargets == [block : BOOLEAN, partition : {FALSE}, holders : {{}, {"md0"}}, mounted : BOOLEAN,
              sectors : {64}, signatures : BOOLEAN]
MCProfilesOf == [prefix |-> <<Job("p", "read", 4096, 3, TRUE)>>,
                 qos |-> <<Job("bulk", "randread", 8192, 1, FALSE), Job("small", "randread", 4096, 2, FALSE)>>]
Read(job) == [job |-> job, dir |-> "read"]
MCReported == [prefix |-> <<Read("p")>>, qos |-> <<Read("bulk"), Read("small"), Read("small")>>]
Asked0 == [device |-> CHOOSE x \in MCTargets : TRUE, region |-> 9000, acknowledged |-> TRUE, allow_signatures |-> TRUE]
MCCases == <<"prefix", "qos">>
MCBefore == [max_sectors_kb |-> 128, nr_hugepages |-> 100]

\* Command lines the driver accepts, with and without gate, warmup, intent
\* and enough room, and ones it refuses.
Line0 == [gate |-> FALSE, gate_timeout |-> 1, stale_markers |-> {}, gate_close |-> FALSE, rapl |-> FALSE,
          intent_only |-> FALSE, intent_out |-> FALSE, intent |-> FALSE, engine |-> "posix", plan_limits |-> <<4, 0, 0>>,
          target_manifest |-> TRUE, dmabuf |-> FALSE, odirect |-> FALSE, dma_ceiling_bytes |-> 0,
          software_limit_bytes |-> 0, device |-> TRUE, nvme_queue |-> TRUE, mdts_bytes |-> 4, hw_cap |-> 16, max_segments |-> 2, page |-> 4, block_align |-> 1,
          allow_io_errors |-> FALSE,
          dims |-> [chunks |-> 2, streams |-> 1, iters |-> 1, warmup |-> 0, ranks |-> 1, payload |-> 9, metadata |-> 3]]
Gated == [Line0 EXCEPT !.gate = TRUE, !.gate_close = TRUE, !.dims.warmup = 1]
MCLines ==
    {Line0, Gated,
     [Line0 EXCEPT !.intent = TRUE, !.dims.streams = 2],
     [Line0 EXCEPT !.intent = TRUE, !.dims.ranks = 2, !.dims.streams = 2, !.allow_io_errors = TRUE],
     [Line0 EXCEPT !.engine = "uring_cmd", !.mdts_bytes = 0],
     [Line0 EXCEPT !.engine = "uring_cmd", !.mdts_bytes = 0, !.nvme_queue = FALSE],
     [Line0 EXCEPT !.intent = TRUE, !.software_limit_bytes = 3, !.plan_limits = <<4, 0, 3>>],
     [Line0 EXCEPT !.mdts_bytes = 0],
     [Line0 EXCEPT !.intent = TRUE, !.dmabuf = TRUE, !.dma_ceiling_bytes = 2, !.plan_limits = <<4, 2, 0>>],
     [Gated EXCEPT !.intent = TRUE],
     [Gated EXCEPT !.dims.warmup = 0, !.gate_close = FALSE],
     [Line0 EXCEPT !.intent_only = TRUE, !.intent_out = TRUE],
     [Line0 EXCEPT !.intent = TRUE, !.intent_out = TRUE],
     [Gated EXCEPT !.stale_markers = {"GO"}]}

\* Two builders of different results, and results put in their place.
Res == [status |-> "draft", offered_load |-> "fixed", question |-> "restore_throughput", metric |-> "throughput",
        outcome |-> "inconclusive", ratio_band |-> "not-reported", repeat_count_band |-> "5-to-9", all_disclosures |-> TRUE]
MCInputs == [b \in {b1, b2} |-> IF b = b1 THEN Res ELSE [Res EXCEPT !.repeat_count_band = "10-to-19"]]
MCReplacements == {[Res EXCEPT !.outcome = "no-material-change", !.ratio_band = "0.95-to-1.05"],
                   [Res EXCEPT !.outcome = "candidate-lower"]}

\* A write, a flush and a command fio cannot issue; an object that fills its
\* slot, and the slot after it.
MCDevCommands == {[op |-> "write", slba |-> 1, len |-> 2], [op |-> "flush", slba |-> 0, len |-> 0],
                  [op |-> "compare", slba |-> 1, len |-> 2]}
MCObjects == {<<0, 3>>, <<6, 1>>}

\* Logs of no, one and two objects, with a failed operation, a delete and an
\* object that grows.
Op(key, op, bytes, error) == [key |-> key, op |-> op, bytes |-> bytes, error |-> error]
MCSemTraces == {<<Op(1, "store", 3, TRUE), Op(1, "delete", 0, FALSE)>>,
                <<Op(2, "store", 3, TRUE), Op(1, "store", 3, FALSE), Op(1, "load", 3, FALSE)>>,
                <<Op(2, "load", 1, FALSE), Op(1, "store", 3, FALSE), Op(2, "store", 6, FALSE), Op(1, "delete", 9, FALSE)>>}

Init ==
    /\ part \in {"bench", "driver", "release", "device", "join", "record"}
    /\ BenchInit /\ (part # "bench" => asked = Asked0)
    /\ DriverInit /\ (part # "driver" => opt = Line0)
    /\ ReleaseInit
    /\ DevInit /\ (part # "device" => dev = Idle)
    /\ JoinInit
    /\ RecInit /\ (part # "record" => mode = "single")

Next ==
  /\ UNCHANGED part
  /\ \/ part = "bench" /\ BenchNext /\ UNCHANGED <<driverVars, releaseVars, devVars, joinVars, recVars>>
     \/ part = "driver" /\ DriverNext /\ UNCHANGED <<benchVars, releaseVars, devVars, joinVars, recVars>>
     \/ part = "release" /\ ReleaseNext /\ UNCHANGED <<benchVars, driverVars, devVars, joinVars, recVars>>
     \/ part = "device" /\ DevNext /\ UNCHANGED <<benchVars, driverVars, releaseVars, joinVars, recVars>>
     \/ part = "record" /\ RecNext /\ UNCHANGED <<benchVars, driverVars, releaseVars, devVars, joinVars>>
     \/ part = "join" /\ JoinNext /\ UNCHANGED <<benchVars, driverVars, releaseVars, devVars, recVars>>

Spec == Init /\ [][Next]_<<part, benchVars, driverVars, releaseVars, devVars, joinVars, recVars>>
============================================================================
