----------------------------- MODULE AgentPlan -----------------------------
(***************************************************************************)
(* tools/kvio/agent_trace.py compiles a request trace into loads, stores   *)
(* and evictions of cache chunks, one request at a time in the order of    *)
(* their timestamps and chunk by chunk; tools/kvio/workload.py runs the    *)
(* plan against the raw_block engine.  Here the engine follows the         *)
(* compiler operation by operation: a plan only ever adds to what was      *)
(* compiled before.                                                        *)
(*                                                                         *)
(* A digest is injective: the key of a chunk under the prefix policy is    *)
(* the prompt up to its end, under the substring policy its tokens, and in *)
(* a TraceLab trace the session and position.                              *)
(*                                                                         *)
(* Without a plan workload.py serves synthetic requests: a request either  *)
(* loads chunks from the pool of those it stored before or stores new      *)
(* ones, an object per rank, and goes on when the engine fails a store or  *)
(* a load.                                                                 *)
(***************************************************************************)
EXTENDS Integers, Sequences, FiniteSets, SequencesExt

CONSTANTS
    Prompts,        \* the prompts of an lmcache-agent trace: sequences of tokens
    Rounds,         \* the rounds of a TraceLab trace: [session, total, prefix]
    ChunkTokens,    \* chunk_tokens
    Capacities,     \* capacity_chunks considered; 0 is unbounded
    MaxRequests,    \* bound on the requests
    Ranks,          \* ranks of a synthetic workload: objects of a chunk
    MaxServed,      \* bound on the chunks of a synthetic request
    Slots           \* raw block slots: (capacity_gb less 1 MiB of metadata) over the slot size

\* The compilers refuse a chunk size that is not positive and a negative
\* capacity; a count of tokens is not negative.
ASSUME PlanAssumption ==
    /\ ChunkTokens \in Nat \ {0} /\ Capacities \subseteq Nat /\ Ranks \in Nat \ {0} /\ Slots \in Nat
    /\ \A tokens \in Prompts : Len(tokens) \in Nat
    /\ \A round \in Rounds : round.total \in Nat /\ round.prefix \in Nat

VARIABLES
    source,     \* [format, policy, capacity]
    resident,   \* lmcache-agent: the LRU, least recent first; tracelab: the known keys
    warm,       \* warm_keys
    highest,    \* max_resident_chunks
    requests,   \* requests compiled
    compiling,  \* the request at hand: [busy, keys, hits, misses]
    stored,     \* the chunks in the engine once the plan so far has run
    run,        \* whether every operation found what it needs so far, most chunks at once
    served      \* synthetic: [store, load, storeFails, loadFails, asked]; history: objects the hits asked for

planVars == <<source, resident, warm, highest, requests, compiling, stored, run, served>>

Sources == [format : {"lmcache-agent"}, policy : {"prefix", "substring"}, capacity : Capacities]
           \cup [format : {"tracelab", "synthetic"}]
NoRequest == [busy |-> FALSE, keys |-> <<>>, hits |-> {}, misses |-> <<>>]

PlanInit ==
    /\ source \in Sources
    /\ resident = <<>> /\ warm = {} /\ stored = {} /\ highest = 0 /\ requests = 0
    /\ compiling = NoRequest
    /\ run = [ok |-> TRUE, peak |-> 0]
    /\ served = [store |-> 0, load |-> 0, storeFails |-> 0, loadFails |-> 0, asked |-> 0]

Larger(m, n) == IF m > n THEN m ELSE n

\* workload.py: an operation on an engine.  A load or an eviction that misses
\* raises and ends the run.
RunLoad(engine, key) ==
    /\ stored' = engine
    /\ run' = [ok |-> run.ok /\ key \in engine, peak |-> Larger(run.peak, Cardinality(engine))]
RunStore(evicted, key) ==
    /\ stored' = (stored \ evicted) \cup {key}
    /\ run' = [ok |-> run.ok /\ evicted \subseteq stored, peak |-> Larger(run.peak, Cardinality(stored'))]

NextRequest(format) ==
    /\ source.format = format /\ requests < MaxRequests
    /\ ~compiling.busy
    /\ requests' = requests + 1
Compile(format) == source.format = format /\ compiling.busy

----------------------------------------------------------------------------
(* compile_lmcache_agent.                                                  *)

\* The complete chunks of a prompt and their keys; the tail is ignored.
ChunkKeys(tokens, policy) ==
    [i \in 1 .. Len(tokens) \div ChunkTokens |->
        SubSeq(tokens, IF policy = "prefix" THEN 1 ELSE (i - 1) * ChunkTokens + 1, i * ChunkTokens)]

\* The hits are what is resident when the request arrives.
AgentRequest(tokens) ==
    /\ NextRequest("lmcache-agent")
    /\ compiling' = [busy |-> TRUE, keys |-> ChunkKeys(tokens, source.policy), hits |-> ToSet(resident), misses |-> <<>>]
    /\ UNCHANGED <<source, resident, warm, highest, stored, run, served>>

MoveToEnd(lru, key) == Append(RemoveAt(lru, CHOOSE i \in 1 .. Len(lru) : lru[i] = key), key)

\* A chunk that is not resident: evicted for if the cache is full, stored.
Insert(key) ==
    LET full == source.capacity # 0 /\ Len(resident) >= source.capacity
    IN /\ resident' = Append(IF full THEN Tail(resident) ELSE resident, key)
       /\ RunStore(IF full THEN {Head(resident)} ELSE {}, key)

\* As AgentKey, inserting a miss where it is met.
AgentKeyInPlace ==
    LET key == Head(compiling.keys)
    IN /\ Compile("lmcache-agent") /\ compiling.keys # <<>>
       /\ IF key \in compiling.hits
          THEN resident' = MoveToEnd(resident, key) /\ RunLoad(stored, key)
          ELSE IF Contains(resident, key) THEN UNCHANGED <<resident, stored, run>> ELSE Insert(key)
       /\ compiling' = [compiling EXCEPT !.keys = Tail(@)]
       /\ UNCHANGED <<source, warm, highest, requests, served>>

\* One key of the request: a load of a hit, or a miss, each noted once.
AgentKey ==
    LET key == Head(compiling.keys)
        hit == key \in compiling.hits
        new == ~hit /\ ~Contains(compiling.misses, key)
    IN /\ Compile("lmcache-agent") /\ compiling.keys # <<>>
       /\ IF hit THEN resident' = MoveToEnd(resident, key) /\ RunLoad(stored, key) ELSE UNCHANGED <<resident, stored, run>>
       /\ compiling' = [compiling EXCEPT !.keys = Tail(@), !.misses = IF new THEN Append(@, key) ELSE @]
       /\ UNCHANGED <<source, warm, highest, requests, served>>

\* Insertions only after the loads.
AgentInsert ==
    /\ Compile("lmcache-agent") /\ compiling.keys = <<>> /\ compiling.misses # <<>>
    /\ Insert(Head(compiling.misses))
    /\ compiling' = [compiling EXCEPT !.misses = Tail(@)]
    /\ UNCHANGED <<source, warm, highest, requests, served>>

AgentRequestEnds ==
    /\ Compile("lmcache-agent") /\ compiling.keys = <<>> /\ compiling.misses = <<>>
    /\ highest' = Larger(highest, Len(resident))
    /\ compiling' = NoRequest
    /\ UNCHANGED <<source, resident, warm, requests, stored, run, served>>

----------------------------------------------------------------------------
(* compile_tracelab.                                                       *)

\* The hits are the reported prefix.
TraceLabRound(round) ==
    LET Key(i) == <<round.session, i>>
    IN /\ NextRequest("tracelab") /\ round.prefix <= round.total
       /\ compiling' = [busy |-> TRUE, keys |-> [i \in 1 .. round.total \div ChunkTokens |-> Key(i)],
                        hits |-> {Key(i) : i \in 1 .. round.prefix \div ChunkTokens}, misses |-> <<>>]
       /\ UNCHANGED <<source, resident, warm, highest, stored, run, served>>

\* One key: a load of the prefix, or a store of what is not known.  A prefix
\* chunk nobody stored was warm: it is in the engine from the start, and no
\* TraceLab plan deletes, so it is as if it had been there all along.
TraceLabKey ==
    LET key == Head(compiling.keys)
        hit == key \in compiling.hits
        new == ~Contains(resident, key)
    IN /\ Compile("tracelab") /\ compiling.keys # <<>>
       /\ resident' = IF new THEN Append(resident, key) ELSE resident
       /\ warm' = IF hit /\ new THEN warm \cup {key} ELSE warm
       /\ IF hit THEN RunLoad(stored \cup warm', key) ELSE IF new THEN RunStore({}, key) ELSE UNCHANGED <<stored, run>>
       /\ compiling' = [compiling EXCEPT !.keys = Tail(@)]
       /\ UNCHANGED <<source, highest, requests, served>>

TraceLabRoundEnds ==
    /\ Compile("tracelab") /\ compiling.keys = <<>>
    /\ highest' = Len(resident)
    /\ compiling' = NoRequest
    /\ UNCHANGED <<source, resident, warm, requests, stored, run, served>>

----------------------------------------------------------------------------
(* Synthetic requests.                                                     *)

Objects(chunks) == chunks \X (1 .. Ranks)

\* A hit: picks are the chunks drawn from the pool, with repetition.  A load
\* fails when its object is not in the engine, and failed of the others when
\* the engine cannot read them back; either is counted and not timed.
Held(picks) == {l \in (DOMAIN picks) \X (1 .. Ranks) : <<picks[l[1]], l[2]>> \in stored}
ServeHit(picks, failed) ==
    LET asked == Len(picks) * Ranks
        loaded == Cardinality(Held(picks)) - failed
    IN /\ source.format = "synthetic" /\ requests < MaxRequests
       /\ failed <= Cardinality(Held(picks))
       /\ served' = [served EXCEPT !.load = @ + loaded, !.loadFails = @ + asked - loaded, !.asked = @ + asked]
       /\ requests' = requests + 1
       /\ UNCHANGED <<source, resident, warm, highest, compiling, stored, run>>

\* A miss: n new chunks, of which the objects in failed could not be stored;
\* every chunk joins the pool all the same.
ServeMiss(n, failed) ==
    LET new == Len(resident) + 1 .. Len(resident) + n
    IN /\ source.format = "synthetic" /\ requests < MaxRequests
       /\ stored' = stored \cup (Objects(new) \ failed)
       /\ resident' = resident \o [i \in 1 .. n |-> Len(resident) + i]
       /\ served' = [served EXCEPT !.store = @ + n * Ranks - Cardinality(failed), !.storeFails = @ + Cardinality(failed)]
       /\ requests' = requests + 1
       /\ UNCHANGED <<source, warm, highest, compiling, run>>

\* The exit status of a synthetic run.
ExitStatus == IF served.storeFails > 0 \/ served.loadFails > 0 THEN 2 ELSE 0

\* The runner refuses a plan that may need more slots than the device has.
Refused(chunks) == chunks * Ranks > Slots

PlanNext ==
    \/ \E tokens \in Prompts : AgentRequest(tokens)
    \/ AgentKey \/ AgentInsert \/ AgentRequestEnds
    \/ \E round \in Rounds : TraceLabRound(round)
    \/ TraceLabKey \/ TraceLabRoundEnds
    \/ \E n \in 1 .. MaxServed : \E picks \in [1 .. n -> ToSet(resident)] : \E failed \in 0 .. n * Ranks : ServeHit(picks, failed)
    \/ \E n \in 1 .. MaxServed : \E failed \in SUBSET Objects(Len(resident) + 1 .. Len(resident) + n) : ServeMiss(n, failed)

PlanSpec == PlanInit /\ [][PlanNext]_planVars

----------------------------------------------------------------------------
\* The keys there can be.
AgentKeys == UNION {ToSet(ChunkKeys(tokens, policy)) : tokens \in Prompts, policy \in {"prefix", "substring"}}
LabKeys(round) == {<<round.session, i>> : i \in 1 .. round.total \div ChunkTokens}
PlanKeys == AgentKeys \cup UNION {LabKeys(round) : round \in Rounds}
PlanTypeOK ==
    /\ source \in Sources /\ highest \in Nat
    /\ resident \in IF source.format = "synthetic" THEN Seq(Nat) ELSE Seq(PlanKeys)
    /\ compiling \in [busy : BOOLEAN, keys : Seq(PlanKeys), hits : SUBSET PlanKeys, misses : Seq(PlanKeys)]
    /\ run \in [ok : BOOLEAN, peak : Nat]
    /\ served \in [store : Nat, load : Nat, storeFails : Nat, loadFails : Nat, asked : Nat]

\* The request at hand: until its last key has been looked at, its hits are
\* what is resident; a miss is noted once, and is not resident.  A warm key
\* is in the engine.
RequestHolds ==
    /\ source.format = "lmcache-agent" /\ compiling.keys # <<>> => compiling.hits = ToSet(resident)
    /\ source.format = "tracelab" => highest <= Len(resident) /\ compiling.misses = <<>> /\ warm \subseteq stored
    /\ IsInjective(compiling.misses) /\ ToSet(compiling.misses) \cap ToSet(resident) = {}
    /\ run.peak <= Larger(highest, Len(resident))

\* The plan runs: every load finds its chunk and every eviction evicts, the
\* engine has what the compiler holds for resident, within the capacity, and
\* after a request it never held more than max_resident_chunks: a plan that
\* is not refused never needs a slot the device does not have.
PlanHolds ==
    /\ run.ok
    /\ ~compiling.busy => run.peak <= highest /\ (~Refused(highest) => run.peak * Ranks <= Slots)
    /\ stored = ToSet(resident) /\ IsInjective(resident)
    /\ source.format = "lmcache-agent" /\ source.capacity # 0 => Len(resident) <= source.capacity

\* What a synthetic run reports covers the successful operations and only
\* them: a time for every object that is in the engine and a failure for every
\* other of the pool, a time or a failure for every object the hits asked for,
\* and an exit status of 0 only if the engine has the whole pool and gave back
\* all it was asked for.
ServedAddsUp ==
    /\ served.store = Cardinality(stored)
    /\ served.store + served.storeFails = Len(resident) * Ranks
    /\ served.load + served.loadFails = served.asked
    /\ ExitStatus = 0 => stored = Objects(ToSet(resident)) /\ served.load = served.asked
    /\ resident = [i \in 1 .. Len(resident) |-> i]
    /\ stored \subseteq Objects(ToSet(resident))

\* workload.py serves what it was given: a compiled plan to its end, or
\* synthetic requests with every failure told.
PlanRuns == PlanTypeOK /\ IF source.format = "synthetic" THEN ServedAddsUp ELSE RequestHolds /\ PlanHolds

============================================================================
