------------------------------ MODULE IntentV1 ------------------------------
(***************************************************************************)
(* kvio.intent.v1 (tools/kvio/intent.py): the operations generated from an *)
(* execution's dimensions, the validator that recomputes every field from  *)
(* the position, and the lowering to commands within a target's limits.    *)
(***************************************************************************)
EXTENDS Integers, Sequences, FiniteSets, SequencesExt

\* d: [chunks, streams, iters, warmup, ranks, payload, metadata]
InPhase(d) == d.streams * d.chunks * d.ranks

ObjectName(pass, stream, chunk, rank) == <<pass, stream, chunk, rank>>

BuiltOperation(d, pass, phase, stream, chunk, rank) ==
    [pass |-> pass, phase |-> phase, stream |-> stream,
     stream_sequence |-> chunk * d.ranks + rank,
     logical_object |-> ObjectName(pass, stream, chunk, rank),
     chunk_index |-> chunk, kv_rank |-> rank, payload_bytes |-> d.payload,
     timed |-> pass >= d.warmup]

\* The five nested loops, innermost first.
StreamOperations(d, pass, phase, stream) ==
    FlattenSeq([chunk \in 1 .. d.chunks |->
        [rank \in 1 .. d.ranks |-> BuiltOperation(d, pass, phase, stream, chunk - 1, rank - 1)]])

PhaseOperations(d, pass, phase) ==
    FlattenSeq([stream \in 1 .. d.streams |-> StreamOperations(d, pass, phase, stream - 1)])

build_kv_offload_intent(d) ==
    FlattenSeq([pass \in 1 .. d.warmup + d.iters |->
        PhaseOperations(d, pass - 1, "store") \o PhaseOperations(d, pass - 1, "load")])

\* What the validator expects at position i (from 0), by division.
ValidAt(d, op, i) ==
    LET inPass == i % (2 * InPhase(d))
        inPhase == inPass % InPhase(d)
        inStream == inPhase % (d.chunks * d.ranks)
    IN /\ op.phase = IF inPass < InPhase(d) THEN "store" ELSE "load"
       /\ op.pass = i \div (2 * InPhase(d))
       /\ op.stream = inPhase \div (d.chunks * d.ranks)
       /\ op.chunk_index = inStream \div d.ranks
       /\ op.kv_rank = inStream % d.ranks
       /\ op.stream_sequence = op.chunk_index * d.ranks + op.kv_rank
       /\ op.logical_object = ObjectName(op.pass, op.stream, op.chunk_index, op.kv_rank)
       /\ op.payload_bytes = d.payload
       /\ op.timed = (op.pass >= d.warmup)

validate_intent(d, ops) ==
    /\ \A n \in {d.chunks, d.streams, d.iters, d.ranks, d.payload} : n > 0
    /\ d.warmup >= 0 /\ d.metadata >= 0
    /\ Len(ops) = (d.warmup + d.iters) * 2 * InPhase(d)
    /\ \A i \in DOMAIN ops : ValidAt(d, ops[i], i - 1)

----------------------------------------------------------------------------
\* As Cut, the last command dropped when it is a short one.
CutWhole(component, bytes, effective) ==
    [k \in 1 .. bytes \div effective |->
        [component |-> component, offset |-> (k - 1) * effective, bytes |-> effective]]

\* A component cut into commands of at most effective bytes.
Cut(component, bytes, effective) ==
    [k \in 1 .. (bytes + effective - 1) \div effective |->
        [component |-> component, offset |-> (k - 1) * effective,
         bytes |-> IF k * effective <= bytes THEN effective ELSE bytes - (k - 1) * effective]]

\* The commands of one operation: its metadata first, for a store.
Commands(d, op, i, effective) ==
    LET cut == (IF op.phase = "store" THEN Cut("metadata", d.metadata, effective) ELSE <<>>)
                  \o Cut("payload", op.payload_bytes, effective)
    IN [k \in DOMAIN cut |->
           [component |-> cut[k].component, offset |-> cut[k].offset, bytes |-> cut[k].bytes,
            logical_sequence |-> i, op |-> op.phase, command_index |-> k - 1]]

\* limits: the set of byte limits given, of which mdts_bytes is one.
lower_intent(d, ops, limits) ==
    FlattenSeq([i \in DOMAIN ops |-> Commands(d, ops[i], i - 1, Min(limits))])

\* A plan is accepted only if it is the exact lowering of the intent.
validate_target_plan(plan, d, ops, limits) ==
    /\ validate_intent(d, ops)
    /\ plan = lower_intent(d, ops, limits)
============================================================================
