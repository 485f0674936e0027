------------------------------ MODULE Workload ------------------------------
(***************************************************************************)
(* A validated kvio workload as the executor sees it (intent_exec.py):     *)
(* operations in order, each with earlier operations as prerequisites, a   *)
(* declared delay after them, and for offered load a release time.  The    *)
(* dependency graph is chosen in the first state and never changes.  Also  *)
(* what both modes of the executor share: the heap of pending operations,  *)
(* the ledger, and what the in-memory object store answers.                *)
(***************************************************************************)
EXTENDS Integers, FiniteSets

CONSTANTS
    N,            \* operations 1 .. N, in the order of the workload
    DepChoices,   \* the dependency graphs considered: operation -> prerequisites
    Delay,        \* operation -> declared delay after a prerequisite
    Release,      \* operation -> recorded release time (0 unless offered)
    Verb, Obj,    \* operation -> store, load or release, and of which object
    Live,         \* objects of the initial state
    Flaky,        \* operations whose backend call may fail
    Cancelled     \* operations the source cancelled

Ops == 1 .. N

\* validate_intent2 and validate_workload: a prerequisite is an earlier
\* operation.
ASSUME WorkloadAssumption ==
    /\ N \in Nat
    /\ \A g \in DepChoices :
         g \in [Ops -> SUBSET Ops] /\ \A o \in Ops : \A d \in g[o] : d < o
    /\ Delay \in [Ops -> Nat] /\ Release \in [Ops -> Nat]

VARIABLES
    deps,        \* operation -> its prerequisites
    time,        \* the run's clock
    remaining,   \* operation -> prerequisites not yet retired
    pending,     \* operations on the heap
    due, rank,   \* heap key of a pushed operation: eligible time, seq
    pushes,      \* seq: a number above every rank given
    running,     \* how many operations are taken from the heap and not retired
    inflight,    \* which ones
    submit, complete,   \* times in the ledger; -1 is None
    outcome,     \* ledger outcome
    objects,     \* the backend's objects
    retired      \* operations whose completion has been processed

heapVars == <<remaining, pending, due, rank, pushes, running, inflight, retired>>

loadVars == <<deps, time, heapVars, submit, complete, outcome, objects>>

\* The dependents of o.
Dependents(o) == {p \in Ops : o \in deps[p]}

Roots == {o \in Ops : deps[o] = {}}

\* _eligible_time, once every prerequisite has completed: the latest of
\* these.
EligibleTimes(o, done) == {Release[o]} \cup {done[d] + Delay[o] : d \in deps[o]}

Eligible(o, done) ==
    CHOOSE t \in EligibleTimes(o, done) : \A u \in EligibleTimes(o, done) : u <= t

\* _prepare, and the operations without prerequisites pushed.
LoadInit ==
    /\ deps \in DepChoices
    /\ time = 0 /\ running = 0 /\ inflight = {}
    /\ remaining = [o \in Ops |-> Cardinality(deps[o])]
    /\ pending = Roots
    /\ due = [o \in Ops |-> IF o \in Roots THEN Release[o] ELSE 0]
    /\ rank = [o \in Ops |-> o]
    /\ pushes = N
    /\ submit = [o \in Ops |-> -1] /\ complete = [o \in Ops |-> -1]
    /\ outcome = [o \in Ops |-> "none"]
    /\ objects = Live
    /\ retired = {}

\* The head of the heap: least (eligible time, seq).
HeapHead(o) ==
    /\ o \in pending
    /\ \A p \in pending : due[o] < due[p] \/ (due[o] = due[p] /\ rank[o] <= rank[p])

\* As TakeOp, leaving the operation on the heap.
TakeOpPeek(o) ==
    /\ inflight' = inflight \cup {o}
    /\ running' = running + 1
    /\ UNCHANGED pending

\* o leaves the heap.
TakeOp(o) ==
    /\ pending' = pending \ {o}
    /\ inflight' = inflight \cup {o}
    /\ running' = running + 1

\* As Freed, one prerequisite early.
FreedEarly(o) == {p \in Dependents(o) : remaining[p] <= 2}

\* The dependents of o that have no other prerequisite left.
Freed(o) == {p \in Dependents(o) : remaining[p] = 1}

\* o, completed at done[o], is retired: one prerequisite fewer for its
\* dependents; those that have none left are pushed.
RetireOp(o, done) ==
    /\ remaining' = [p \in Ops |-> IF p \in Dependents(o) THEN remaining[p] - 1
                                                         ELSE remaining[p]]
    /\ pending' = pending \cup Freed(o)
    /\ due' = [p \in Ops |-> IF p \in Freed(o) THEN Eligible(p, done) ELSE due[p]]
    /\ rank' = [p \in Ops |-> IF p \in Freed(o) THEN pushes + p ELSE rank[p]]
    /\ pushes' = pushes + N
    /\ running' = running - 1
    /\ inflight' = inflight \ {o}
    /\ retired' = retired \cup {o}

\* FakeBackend's outcome of a call when it holds the objects of store.
Answer(o, store) ==
    CASE o \in Cancelled -> "cancelled"
      [] Verb[o] = "store" /\ Obj[o] \in store -> "already_present"
      [] Verb[o] # "store" /\ Obj[o] \notin store -> "miss"
      [] OTHER -> "success"

Outcomes == {"none", "cancelled", "already_present", "miss", "success", "error"}

\* The objects it holds afterwards.
Effect(o, store) ==
    CASE o \in Cancelled -> store
      [] Verb[o] = "store" -> store \cup {Obj[o]}
      [] Verb[o] = "release" -> store \ {Obj[o]}
      [] OTHER -> store

----------------------------------------------------------------------------
\* Type invariant.
LoadTypeOK ==
    /\ time \in Nat /\ running \in Int
    /\ remaining \in [Ops -> Nat]
    /\ pending \subseteq Ops /\ inflight \subseteq Ops /\ retired \subseteq Ops
    /\ due \in [Ops -> Nat] /\ rank \in [Ops -> Nat] /\ pushes \in Nat
    /\ submit \in [Ops -> Nat \cup {-1}] /\ complete \in [Ops -> Nat \cup {-1}]

\* Every operation is in one place: blocked by a prerequisite, on the heap,
\* taken, or retired; and running counts the taken ones.
OnePlace ==
    /\ pending \cap inflight = {} /\ pending \cap retired = {} /\ inflight \cap retired = {}
    /\ \A o \in Ops : o \in pending \cup inflight \cup retired <=> deps[o] \subseteq retired
    /\ running = Cardinality(inflight)

\* check_dependencies finds no violation: an operation is submitted no
\* earlier than its release time and than each prerequisite's completion on
\* this target plus the declared delay.
AfterPrerequisites ==
    \A o \in Ops : submit[o] # -1 =>
        /\ submit[o] >= Release[o]
        /\ \A d \in deps[o] : complete[d] # -1 /\ submit[o] >= complete[d] + Delay[o]

\* remaining counts the prerequisites that are not retired.
Remaining == \A o \in Ops : remaining[o] = Cardinality(deps[o] \ retired)

\* An operation on the heap or taken has a key no earlier than each of its
\* prerequisites allows; only those taken or retired are in the ledger.
Keyed ==
    \A o \in Ops :
        /\ complete[o] <= time
        /\ o \in retired => complete[o] # -1
        /\ submit[o] # -1 => o \in inflight \cup retired
        /\ o \in pending \cup inflight =>
             Release[o] <= due[o] /\ \A d \in deps[o] : complete[d] + Delay[o] <= due[o]

\* What both modes keep of the heap and the ledger.
LoadInv ==
    LoadTypeOK /\ deps \in DepChoices /\ OnePlace /\ AfterPrerequisites /\ Remaining /\ Keyed

----------------------------------------------------------------------------
\* The objects after the first i operations, run one after the other in the
\* workload's order; the failed ones change nothing.
Serially(failed) ==
    LET after[i \in 0 .. N] ==
          IF i = 0 THEN Live
                   ELSE IF i \in failed THEN after[i - 1] ELSE Effect(i, after[i - 1])
    IN  after

\* The transitive closure of the prerequisites.
Before ==
    LET upto[n \in 0 .. N] ==
          IF n = 0 THEN {}
            ELSE upto[n - 1] \cup {<<d, n>> : d \in deps[n]}
                   \cup {<<e, n>> : e \in {x \in Ops : \E d \in deps[n] : <<x, d>> \in upto[n - 1]}}
    IN  upto[N]

\* Operations on one object that do not commute are ordered.
ConflictsOrdered ==
    LET before == Before
    IN  \A o \in Ops : \A p \in 1 .. o - 1 :
            Obj[p] = Obj[o] /\ ~(Verb[p] = "load" /\ Verb[o] = "load") => <<p, o>> \in before

\* The operations that may change whether the backend holds x.
Writers(x) == {o \in Ops : Obj[o] = x /\ Verb[o] # "load"}

\* The operations performed so far, out[o] being what the backend answered
\* to o or "none": each was answered as in the workload's order, and where
\* those that may change an object are the ones of its first k operations,
\* the backend holds it if it does after these.
SerialSoFar(out) ==
    LET serial == Serially({o \in Ops : out[o] = "error"})
    IN  /\ \A o \in Ops : out[o] \notin {"none", "error"} => out[o] = Answer(o, serial[o - 1])
        /\ \A o \in Ops, k \in 0 .. N :
              (\A w \in Writers(Obj[o]) : out[w] # "none" <=> w <= k)
                  => (Obj[o] \in objects <=> Obj[o] \in serial[k])

\* Where the target's outcome is none of those the source permits.
compare_outcomes(permitted) == {o \in Ops : outcome[o] # "none" /\ outcome[o] \notin permitted[o]}

\* When conflicting operations are ordered by dependencies, the comparison
\* with a source that ran them one after the other reports nothing but the
\* errors of the target, whatever the interleaving.
OutcomesAreSerial ==
    ConflictsOrdered =>
        LET failed == {o \in Ops : outcome[o] = "error"}
            serial == Serially(failed)
        IN compare_outcomes([o \in Ops |-> {Answer(o, serial[o - 1])}]) = failed

\* Every operation is retired in the end, so no run leaves one unfinished.
WorkloadEnds == <>(retired = Ops)
============================================================================
