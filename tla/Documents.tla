----------------------------- MODULE Documents -----------------------------
(***************************************************************************)
(* The kvio documents together: a version 1 record is generated, validated *)
(* and lowered (intent.py), normalised to version 2 (intent2.py), and that *)
(* adapted to version 3 (workload3.py), for which the registered engines   *)
(* say what they can realize and what a replay lacks (engines.py).         *)
(***************************************************************************)
EXTENDS IntentV1, Workload3

CONSTANTS
    Dimensions,   \* the dimensions of executions considered
    LimitSets     \* the sets of byte limits considered

\* What the generator and the lowering refuse to go without.
ASSUME DocumentsAssumption ==
    /\ None \notin Nat
    /\ \A d \in Dimensions :
        /\ \A f \in {"chunks", "streams", "ranks", "iters", "payload"} : d[f] \in Nat \ {0}
        /\ d.warmup \in Nat /\ d.metadata \in Nat
    /\ \A l \in LimitSets : l # {} /\ l \subseteq Nat \ {0}

VARIABLES dims,     \* the execution's dimensions, or None where no document is considered
          limits    \* the byte limits of the target the record is lowered for

documentVars == <<dims, limits>>

----------------------------------------------------------------------------
(* The engines.                                                            *)

AllCalls(family) == {<<family, c>> : c \in DOMAIN CALLS[family]}

\* register_builtin: every engine serves one family, and all its calls.
REGISTRY ==
    [fake |-> [family |-> "object", capabilities |-> AllCalls("object"), providers |-> {"memory"}],
     lmcache_raw_block |-> [family |-> "object", capabilities |-> AllCalls("object"),
                            providers |-> {"posix", "io_uring", "uring_cmd"}],
     posix_direct |-> [family |-> "posix", capabilities |-> AllCalls("posix"), providers |-> {"mount"}],
     fake_fs |-> [family |-> "posix", capabilities |-> AllCalls("posix"), providers |-> {"memory"}],
     s3_sdk |-> [family |-> "s3", capabilities |-> AllCalls("s3"), providers |-> {"endpoint"}],
     fake_s3 |-> [family |-> "s3", capabilities |-> AllCalls("s3"), providers |-> {"memory"}]]

preflight(wl, name, provider) ==
    /\ name \in DOMAIN REGISTRY
    /\ provider = None \/ provider \in REGISTRY[name].providers
    /\ LET needed == required_capabilities(wl)
       IN /\ {c[1] : c \in needed} \subseteq {REGISTRY[name].family}
          /\ needed \subseteq REGISTRY[name].capabilities

\* The "missing" list of a fidelity manifest: modules that do not import and
\* a timing profile the workload cannot drive.
FidelityMissing(wl, timing_profile, unimportable) ==
    unimportable \cup (IF wl.timing_model = "absent" /\ timing_profile = "offered" THEN {"release times"} ELSE {})

----------------------------------------------------------------------------
DocumentsInit == dims \in Dimensions /\ limits \in LimitSets
DocumentsSpec == DocumentsInit /\ [][UNCHANGED documentVars]_documentVars

\* The bytes a command carries, those of all commands for the operation at
\* i, and those an operation has: before a store's payload its metadata.
BytesOf(c) == [b \in 1 .. c.bytes |-> <<c.component, c.offset + b - 1>>]
CutBytes(plan, i) ==
    FlattenSeq([k \in DOMAIN plan |-> IF plan[k].logical_sequence = i - 1 THEN BytesOf(plan[k]) ELSE <<>>])
WholeOf(component, n) == [b \in 1 .. n |-> <<component, b - 1>>]
OperationBytes(d, op) ==
    (IF op.phase = "store" THEN WholeOf("metadata", d.metadata) ELSE <<>>) \o WholeOf("payload", d.payload)

\* intent.py: what the generator builds and lowers the validators accept, the
\* target's commands are within its limits, and they carry the bytes of every
\* operation once, front to back.
LoweringTiles == dims # None =>
    LET ops == build_kv_offload_intent(dims)
        plan == lower_intent(dims, ops, limits)
    IN /\ validate_target_plan(plan, dims, ops, limits)
       /\ \A k \in DOMAIN plan : plan[k].bytes >= 1 /\ \A l \in limits : plan[k].bytes <= l
       /\ \A i \in DOMAIN ops : CutBytes(plan, i) = OperationBytes(dims, ops[i])

\* What intent_exec runs one after the other of a version 1 record: the
\* phases in order, and in a phase the operations of one stream.
PhaseNumber(o) == 2 * o.pass + (IF o.phase = "store" THEN 0 ELSE 1)
V1Before(ops, i, j) ==
    \/ PhaseNumber(ops[i]) < PhaseNumber(ops[j])
    \/ PhaseNumber(ops[i]) = PhaseNumber(ops[j]) /\ ops[i].stream = ops[j].stream /\ i < j

\* before names for each operation those it waits for, directly or through
\* others.  An edge only ever names an earlier operation, so that there is
\* only one such function.
IsAncestors(before, wl) ==
    \A j \in DOMAIN wl.operations : before[j] = UNION {{d.op} \cup before[d.op] : d \in wl.operations[j].deps}

\* intent2.py, workload3.py: the adapters keep the schedule.  Both results
\* validate, an object engine takes the result and no other does, it lacks
\* only the times it never had, and what the edges order, directly or through
\* others, is exactly what the version 1 record orders.
AdaptersKeepOrder == dims # None =>
    LET ops == build_kv_offload_intent(dims)
        two == normalize_v1(ops, dims.payload)
        three == from_intent2(two)
    IN /\ validate_intent2(two) /\ validate_workload(three)
       /\ {e \in DOMAIN REGISTRY : preflight(three, e, None)} = {"fake", "lmcache_raw_block"}
       /\ FidelityMissing(three, "offered", {}) = {"release times"}
       /\ IsAncestors([j \in DOMAIN ops |-> {i \in DOMAIN ops : V1Before(ops, i, j)}], three)

\* What the intent documents say of operations, commands and their order
\* survives lowering and conversion (intent, intent2, workload3).
DocumentsAgree == LoweringTiles /\ AdaptersKeepOrder

============================================================================
