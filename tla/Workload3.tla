----------------------------- MODULE Workload3 -----------------------------
(***************************************************************************)
(* kvio's documents.  kvio.intent.v2 records (tools/kvio/intent2.py): how  *)
(* one is built, when validate_intent2 accepts it, and the adapter from    *)
(* version 1.  kvio.workload.v3 (tools/kvio/workload3.py): the envelope,   *)
(* its validator and the adapter from kvio.intent.v2.                      *)
(*                                                                         *)
(* A document is a record of the JSON document's fields.  Absent values    *)
(* are None, identifiers are any values, and the shape a JSON type check   *)
(* asks for is what the records here have by construction.  A path is a    *)
(* sequence of components, so it is relative and free of traversal by      *)
(* construction; an absent field of args or expected is not in its domain. *)
(***************************************************************************)
EXTENDS Integers, Sequences, FiniteSets, SequencesExt

CONSTANT None   \* a JSON null

CAPTURE_LEVELS == {"generated", "A1", "request"}
MAPPING_METHODS == {"declared", "verified", "heuristic"}
TIMING_MODELS == {"absent", "captured", "synthetic"}
OUTCOMES == {"success", "miss", "already_present", "rejected", "short", "cancelled", "error"}
OPS == {"store", "load", "release"}

\* f with k mapped to v, as an assignment to a dictionary.
Put(f, k, v) == [x \in DOMAIN f \cup {k} |-> IF x = k THEN v ELSE f[x]]
Get(f, k, default) == IF k \in DOMAIN f THEN f[k] ELSE default

----------------------------------------------------------------------------
(* Building.                                                               *)

new_intent(level, method, timing, status, notes) ==
    [capture_level |-> level, mapping_method |-> method, timing_model |-> timing,
     completeness |-> status, notes |-> notes, representations |-> <<>>, objects |-> <<>>,
     live |-> <<>>, operations |-> <<>>, sidecar |-> FALSE]

add_representation(intent, id, bytes) ==
    [intent EXCEPT !.representations = Put(@, id,
        [encoded_bytes |-> bytes, components |-> <<[offset |-> 0, length |-> bytes]>>])]

ObjectVersion(intent, rep) == [representation |-> rep, bytes |-> intent.representations[rep].encoded_bytes]

add_object_version(intent, oid, ver, rep) ==
    [intent EXCEPT !.objects = Put(@, oid, Put(Get(@, oid, <<>>), ver, ObjectVersion(intent, rep)))]

\* op, which holds every field but the position and the defaulted size, as
\* the operation at seq.
Positioned(intent, op, seq) ==
    LET default == IF op.range # None THEN op.range.length
                   ELSE IF op.op = "release" THEN 0
                   ELSE intent.objects[op.object_id][op.version].bytes
    IN Put([op EXCEPT !.requested_bytes = IF @ = None THEN default ELSE @], "seq", seq)

add_operation(intent, op) ==
    [intent EXCEPT !.operations = Append(@, Positioned(intent, op, Len(intent.operations)))]

----------------------------------------------------------------------------
(* Validating.                                                             *)

ValidProvenance(intent) ==
    /\ intent.capture_level \in CAPTURE_LEVELS
    /\ intent.mapping_method \in MAPPING_METHODS
    /\ intent.completeness \in {"complete", "partial"}
    /\ intent.timing_model \in TIMING_MODELS
    /\ ~(intent.capture_level = "A1" /\ intent.mapping_method = "heuristic")
    /\ ~(intent.capture_level = "generated" /\ intent.timing_model = "captured")

\* The components lie one after the other from 0 to the encoded size.
Tiles(components, size) ==
    LET End(i) == IF i = 0 THEN 0 ELSE components[i].offset + components[i].length
    IN /\ components # <<>>
       /\ \A i \in DOMAIN components : components[i].length >= 1 /\ components[i].offset = End(i - 1)
       /\ End(Len(components)) = size

ValidRepresentations(intent) ==
    /\ intent.representations # <<>>
    /\ \A id \in DOMAIN intent.representations :
         LET rep == intent.representations[id]
         IN rep.encoded_bytes >= 1 /\ Tiles(rep.components, rep.encoded_bytes)

ValidObjects(intent) ==
    \A oid \in DOMAIN intent.objects :
        /\ intent.objects[oid] # <<>>
        /\ \A ver \in DOMAIN intent.objects[oid] :
             LET v == intent.objects[oid][ver]
             IN /\ v.representation \in DOMAIN intent.representations
                /\ v.bytes = intent.representations[v.representation].encoded_bytes

Known(intent, oid, ver) == oid \in DOMAIN intent.objects /\ ver \in DOMAIN intent.objects[oid]

ValidInitialState(intent) ==
    \A i \in DOMAIN intent.live :
        /\ Known(intent, intent.live[i].object_id, intent.live[i].version)
        /\ intent.live[i].tier \in {"storage", "ram", "unknown"}

\* Whether the version is visible before the operation at i, in document
\* order: the last store or release before it decides.
VisibleAt(intent, i, oid, ver) ==
    LET touches == {j \in 1 .. i - 1 : /\ intent.operations[j].object_id = oid
                                       /\ intent.operations[j].version = ver
                                       /\ intent.operations[j].op \in {"store", "release"}}
    IN IF touches = {} THEN \E l \in ToSet(intent.live) : l.object_id = oid /\ l.version = ver
       ELSE intent.operations[Max(touches)].op = "store"

ValidOperation(intent, i) ==
    LET op == intent.operations[i] IN
    /\ op.seq = i - 1
    /\ \A j \in 1 .. i - 1 : intent.operations[j].op_id # op.op_id
    /\ op.op \in OPS
    /\ Known(intent, op.object_id, op.version)
    /\ op.range # None =>
         /\ op.range.offset >= 0 /\ op.range.length >= 1
         /\ op.range.offset + op.range.length <= intent.objects[op.object_id][op.version].bytes
         /\ op.op = "load"
    /\ op.requested_bytes >= 0
    /\ op.stream # None
    /\ \A d \in ToSet(op.deps) : \E j \in 1 .. i - 1 : intent.operations[j].op_id = d
    /\ op.source_outcome \in OUTCOMES \cup {None}
    /\ op.release_ns = None => intent.timing_model # "captured"
    /\ op.release_ns # None => op.release_ns >= 0 /\ intent.timing_model # "absent"
    /\ op.op = "load" => \/ VisibleAt(intent, i, op.object_id, op.version)
                         \/ op.source_outcome \in {"miss", "cancelled", "error", "rejected"}

validate_intent2(intent) ==
    /\ ValidProvenance(intent)
    /\ ValidRepresentations(intent)
    /\ ValidObjects(intent)
    /\ ValidInitialState(intent)
    /\ \A i \in DOMAIN intent.operations : ValidOperation(intent, i)
    /\ intent.timing_model = "captured" => intent.sidecar

----------------------------------------------------------------------------
(* Version 1.                                                              *)

\* The operation before it in its stream and phase.
PrevInStream(ops1, i) ==
    LET Key(j) == <<ops1[j].pass, ops1[j].phase, ops1[j].stream>>
        same == {j \in 1 .. i - 1 : Key(j) = Key(i)}
    IN IF same = {} THEN {} ELSE {Max(same)}

\* As V1Deps, forgetting that the next pass waits for the loads of this one.
V1DepsInPass(ops1, i) ==
    PrevInStream(ops1, i) \cup
    {j \in 1 .. i - 1 : ops1[i].phase = "load" /\ ops1[j].phase = "store" /\ ops1[j].pass = ops1[i].pass}

\* What an operation of version 1 waits for: the one before it in its stream
\* and phase, and all those of the phase before.
V1Deps(ops1, i) ==
    PrevInStream(ops1, i) \cup
    {j \in 1 .. i - 1 :
        \/ ops1[i].phase = "load" /\ ops1[j].phase = "store" /\ ops1[j].pass = ops1[i].pass
        \/ ops1[i].phase = "store" /\ ops1[j].phase = "load" /\ ops1[j].pass = ops1[i].pass - 1}

InOrder(S, i) == FlattenSeq([j \in 1 .. i - 1 |-> IF j \in S THEN <<j>> ELSE <<>>])

\* ops1: the operations of the version 1 record; payload its object size.
\* An object is added before the first operation on it.
normalize_v1(ops1, payload) ==
    LET base == add_representation(new_intent("generated", "declared", "absent", "complete", {}),
                                   "v1-payload", payload)
        version == ObjectVersion(base, "v1-payload")
        known == [base EXCEPT !.objects = [oid \in {ops1[i].logical_object : i \in DOMAIN ops1} |-> [v \in {1} |-> version]]]
        Op(i) == [op_id |-> i, op |-> ops1[i].phase, object_id |-> ops1[i].logical_object, version |-> 1,
                  stream |-> ops1[i].stream, deps |-> InOrder(V1Deps(ops1, i), i), range |-> None,
                  release_ns |-> None, source_outcome |-> None, requested_bytes |-> None]
    IN [known EXCEPT !.operations = [i \in DOMAIN ops1 |-> Positioned(known, Op(i), i - 1)]]

----------------------------------------------------------------------------
(* kvio.workload.v3.                                                       *)

FAMILIES == {"object", "posix", "s3"}
CAPTURE_LEVELS3 == CAPTURE_LEVELS \cup {"api"}
RELEASE_PROVENANCE == {"none", "observed_submission", "measured_arrival", "declared"}
DEP_KINDS == {"program", "sync", "observed", "identity"}
OUTCOMES3 == OUTCOMES \cup {"eof", "exists", "not_empty", "denied", "timeout", "unknown"}
OPEN_FLAGS == {"rd", "wr", "rdwr", "creat", "excl", "trunc", "append", "direct", "sync"}

\* The fields each call must carry, per family.
CALLS ==
    [object |-> [store |-> {"node", "size"}, load |-> {"node"}, release |-> {"node"},
                 exists |-> {"node"}],
     posix |-> [open |-> {"path", "flags", "handle"}, close |-> {"handle"},
                pread |-> {"handle", "offset", "length"}, pwrite |-> {"handle", "offset", "length"},
                read |-> {"handle", "length"}, write |-> {"handle", "length"},
                fstat |-> {"handle"}, stat |-> {"path"}, readdir |-> {"path"},
                rename |-> {"path", "new_path"}, unlink |-> {"path"}, mkdir |-> {"path"},
                rmdir |-> {"path"}, truncate |-> {"path", "size"}, ftruncate |-> {"handle", "size"},
                fsync |-> {"handle"}, fdatasync |-> {"handle"}],
     s3 |-> [put |-> {"key", "size"}, get |-> {"key"}, head |-> {"key"}, list |-> {"prefix"},
             delete |-> {"key"}, mpu_create |-> {"key", "upload"},
             mpu_part |-> {"key", "upload", "part", "size"},
             mpu_complete |-> {"key", "upload"}, mpu_abort |-> {"key", "upload"}]]

new_workload(level, method, timing, provenance, status, notes) ==
    [capture_level |-> level, mapping_method |-> method, timing_model |-> timing,
     release_provenance |-> provenance, completeness |-> status, notes |-> notes,
     nodes |-> <<>>, entries |-> <<>>, handles |-> <<>>, operations |-> <<>>, sidecar |-> FALSE]

\* The operation add_op appends at seq; op has every field but the position.
add_op(op, seq) == Put(op, "seq", seq)

required_capabilities(wl) == {<<o.family, o.call>> : o \in ToSet(wl.operations)}

ValidProvenance3(wl) ==
    /\ wl.capture_level \in CAPTURE_LEVELS3 /\ wl.mapping_method \in MAPPING_METHODS
    /\ wl.completeness \in {"complete", "partial"} /\ wl.timing_model \in TIMING_MODELS
    /\ wl.release_provenance \in RELEASE_PROVENANCE
    /\ wl.timing_model = "captured" => wl.release_provenance # "none"
    /\ wl.timing_model = "absent" => wl.release_provenance = "none"
    /\ wl.capture_level \in {"A1", "api"} => wl.mapping_method # "heuristic"

ValidNamespace(wl) ==
    /\ \A id \in DOMAIN wl.nodes : /\ wl.nodes[id].kind \in {"file", "dir", "object"}
                                   /\ wl.nodes[id].incarnation >= 1 /\ wl.nodes[id].size >= 0
    /\ \A i \in DOMAIN wl.entries :
         /\ wl.entries[i].node \in DOMAIN wl.nodes
         /\ \A j \in 1 .. i - 1 : wl.entries[j].path # wl.entries[i].path
    /\ \A h \in DOMAIN wl.handles : wl.handles[h].node \in DOMAIN wl.nodes

\* The handle rules: an open names a handle that is not live, every other
\* call one that is.
HandleOK(open, op) ==
    op.family = "posix" =>
        IF op.call = "open" THEN op.args.handle \notin open
        ELSE "handle" \in DOMAIN op.args => op.args.handle \in open

OpenAfter(open, op) ==
    CASE op.family = "posix" /\ op.call = "open" -> open \cup {op.args.handle}
      [] op.family = "posix" /\ op.call = "close" -> open \ {op.args.handle}
      [] OTHER -> open

\* The checks of one operation that follows the ones named in earlier, with
\* the handles of open live.
ValidOp(wl, earlier, open, op) ==
    /\ op.op_id \notin earlier
    /\ op.family \in FAMILIES /\ op.call \in DOMAIN CALLS[op.family]
    /\ CALLS[op.family][op.call] \subseteq DOMAIN op.args
    /\ \A f \in {"size", "offset", "length", "part"} \cap DOMAIN op.args : op.args[f] >= 0
    /\ "flags" \in DOMAIN op.args => op.args.flags \subseteq OPEN_FLAGS
    /\ "node" \in DOMAIN op.args => op.args.node \in DOMAIN wl.nodes
    /\ HandleOK(open, op)
    /\ op.stream # None
    /\ \A d \in op.deps : d.op \in earlier /\ d.kind \in DEP_KINDS
    /\ op.release_ns # None => op.release_ns >= 0 /\ wl.timing_model # "absent"
    /\ op.release_ns = None => wl.timing_model # "captured"
    /\ "outcome" \in DOMAIN op.expected => op.expected.outcome \in OUTCOMES3
    /\ "outcomes" \in DOMAIN op.expected => op.expected.outcomes \subseteq OUTCOMES3

\* The handles that are live before each operation.
OpenHandles(wl) ==
    LET open[i \in 0 .. Len(wl.operations)] ==
            IF i = 0 THEN DOMAIN wl.handles ELSE OpenAfter(open[i - 1], wl.operations[i])
    IN open

validate_workload(wl) ==
    LET ops == wl.operations IN
    /\ ValidProvenance3(wl)
    /\ ValidNamespace(wl)
    /\ \A i \in DOMAIN ops : /\ ops[i].seq = i - 1
                             /\ ValidOp(wl, {ops[j].op_id : j \in 1 .. i - 1}, OpenHandles(wl)[i - 1], ops[i])
    /\ wl.timing_model = "captured" => wl.sidecar

\* The label of an edge of version 2 from d to o.
DepKind(intent, o, d) ==
    IF /\ "ordered by identity" \in intent.notes
       /\ d.object_id = o.object_id /\ d.stream # o.stream
    THEN "identity" ELSE "program"

from_intent2(intent) ==
    LET base == new_workload(intent.capture_level, intent.mapping_method, intent.timing_model,
                    IF intent.timing_model = "captured" THEN "observed_submission" ELSE "none",
                    intent.completeness, intent.notes)
        versions == {<<oid, ver>> : oid \in DOMAIN intent.objects,
                                    ver \in UNION {DOMAIN intent.objects[o] : o \in DOMAIN intent.objects}}
        nodes == [v \in {w \in versions : Known(intent, w[1], w[2])} |->
                    [kind |-> "object", incarnation |-> v[2], size |-> intent.objects[v[1]][v[2]].bytes]]
        live == [i \in DOMAIN intent.live |->
                   LET v == <<intent.live[i].object_id, intent.live[i].version>>
                   IN [path |-> <<"live", v>>, node |-> v]]
        ById(id) == CHOOSE o \in ToSet(intent.operations) : o.op_id = id
        Args(o) == IF o.op = "store" THEN [node |-> <<o.object_id, o.version>>, size |-> o.requested_bytes]
                   ELSE IF o.op = "load" /\ o.range # None
                   THEN [node |-> <<o.object_id, o.version>>, offset |-> o.range.offset, length |-> o.range.length]
                   ELSE [node |-> <<o.object_id, o.version>>]
        Carried(o) ==
            [op_id |-> o.op_id, family |-> "object", call |-> o.op, args |-> Args(o),
             stream |-> o.stream, release_ns |-> o.release_ns,
             deps |-> {[op |-> d, kind |-> DepKind(intent, o, ById(d))] : d \in ToSet(o.deps)},
             expected |-> IF o.source_outcome = None THEN <<>> ELSE [outcome |-> o.source_outcome]]
    IN [base EXCEPT !.nodes = nodes, !.entries = live, !.sidecar = intent.sidecar,
                    !.operations = [i \in DOMAIN intent.operations |-> add_op(Carried(intent.operations[i]), i - 1)]]
============================================================================
