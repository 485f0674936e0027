------------------------------ MODULE Executor ------------------------------
(***************************************************************************)
(* The real mode of kvio's workload executor (intent_exec.py): a pool of   *)
(* worker threads runs the operations against a storage backend.  An       *)
(* operation is pushed on the pending heap when its last prerequisite is   *)
(* retired; it is taken when its eligible time has come, performed outside *)
(* the lock, and retired under the lock.                                   *)
(*                                                                         *)
(* A body under the condition's lock is one action.  lock.wait always has  *)
(* a timeout, so a waiting worker looks again whether notified or not and  *)
(* waiting is stuttering.                                                  *)
(***************************************************************************)
EXTENDS Workload

CONSTANTS
    Crew,       \* the worker threads
    Horizon     \* bound on the clock while workers run

Idle == 0

ASSUME ExecAssumption == Horizon \in Nat /\ IsFiniteSet(Crew)

VARIABLES
    job, step,   \* what a worker works on and how far it is
    finished     \* operations retired by the pool

crewVars == <<job, step, finished>>
execVars == <<loadVars, crewVars>>

ExecInit ==
    /\ LoadInit
    /\ job = [w \in Crew |-> Idle] /\ step = [w \in Crew |-> "look"]
    /\ finished = 0

\* Time passes while the workers run, up to the bound; beyond it only
\* while all of them wait for the head of the heap.
Passing ==
    /\ \/ time < Horizon
       \/ /\ \A w \in Crew : step[w] = "look"
          /\ \E o \in pending : HeapHead(o) /\ due[o] > time
    /\ time' = time + 1
    /\ UNCHANGED <<deps, heapVars, submit, complete, outcome, objects, crewVars>>

\* As Pop, whether or not the operation's time has come.
PopEarly(w) ==
    /\ step[w] = "look" /\ finished < N
    /\ running < Cardinality(Crew)
    /\ \E o \in pending :
         /\ HeapHead(o)
         /\ TakeOp(o)
         /\ job' = [job EXCEPT ![w] = o]
    /\ step' = [step EXCEPT ![w] = "taken"]
    /\ UNCHANGED <<deps, time, remaining, due, rank, pushes, retired, submit, complete,
                   outcome, objects, finished>>

\* A worker takes the head of the heap if its time has come.
Pop(w) ==
    /\ step[w] = "look" /\ finished < N
    /\ running < Cardinality(Crew)
    /\ \E o \in pending :
         /\ HeapHead(o) /\ due[o] <= time
         /\ TakeOp(o)
         /\ job' = [job EXCEPT ![w] = o]
    /\ step' = [step EXCEPT ![w] = "taken"]
    /\ UNCHANGED <<deps, time, remaining, due, rank, pushes, retired, submit, complete,
                   outcome, objects, finished>>

\* Then it enters the submission time in the ledger.
Submit(w) ==
    /\ step[w] = "taken"
    /\ submit' = [submit EXCEPT ![job[w]] = time]
    /\ step' = [step EXCEPT ![w] = "submitted"]
    /\ UNCHANGED <<deps, time, heapVars, complete, outcome, objects, job, finished>>

\* _perform, then the completion time and the outcome.  An exception of the
\* backend becomes the outcome "error".
Perform(w) ==
    /\ step[w] = "submitted"
    /\ LET o == job[w] IN
         /\ \/ /\ objects' = Effect(o, objects)
               /\ outcome' = [outcome EXCEPT ![o] = Answer(o, objects)]
            \/ /\ o \in Flaky \ Cancelled
               /\ outcome' = [outcome EXCEPT ![o] = "error"]
               /\ UNCHANGED objects
         /\ complete' = [complete EXCEPT ![o] = time]
    /\ step' = [step EXCEPT ![w] = "performed"]
    /\ UNCHANGED <<deps, time, heapVars, submit, job, finished>>

\* Under the lock, the operation is retired.
Retire(w) ==
    /\ step[w] = "performed"
    /\ RetireOp(job[w], complete)
    /\ finished' = finished + 1
    /\ job' = [job EXCEPT ![w] = Idle]
    /\ step' = [step EXCEPT ![w] = "look"]
    /\ UNCHANGED <<deps, time, submit, complete, outcome, objects>>

\* As Exit, when the heap is empty.
ExitIdle(w) ==
    /\ step[w] = "look" /\ pending = {}
    /\ step' = [step EXCEPT ![w] = "exit"]
    /\ UNCHANGED <<loadVars, job, finished>>

\* A worker returns when every operation is finished.
Exit(w) ==
    /\ step[w] = "look" /\ finished >= N
    /\ step' = [step EXCEPT ![w] = "exit"]
    /\ UNCHANGED <<loadVars, job, finished>>

Work(w) == Pop(w) \/ Submit(w) \/ Perform(w) \/ Retire(w) \/ Exit(w)

ExecNext == Passing \/ \E w \in Crew : Work(w)

ExecSpec == ExecInit /\ [][ExecNext]_execVars

----------------------------------------------------------------------------
Held == {job[w] : w \in {v \in Crew : job[v] # Idle}}

\* Type invariant.
ExecTypeOK ==
    /\ LoadTypeOK
    /\ job \in [Crew -> Ops \cup {Idle}]
    /\ step \in [Crew -> {"look", "taken", "submitted", "performed", "exit"}]
    /\ finished \in Nat

\* No two workers hold the same operation, and together they hold those
\* that are taken.
HeldOnce ==
    /\ \A v, w \in Crew : job[v] = job[w] /\ job[v] # Idle => v = w
    /\ Held = inflight

\* A worker returns only when nothing is left to do for anybody, so run()
\* reports no unfinished operation.
NobodyLeavesEarly ==
    (\E w \in Crew : step[w] = "exit") => retired = Ops

\* finished counts the operations that are retired.
Counted == finished = Cardinality(retired) /\ Remaining

\* A worker has an operation between taking and retiring it, one whose time
\* has come.
Placed ==
    \A w \in Crew :
        /\ job[w] = Idle <=> step[w] \in {"look", "exit"}
        /\ job[w] # Idle => due[job[w]] <= time
        /\ step[w] = "performed" => complete[job[w]] # -1

\* What is inductive without the outcomes.
CrewInv ==
    /\ ExecTypeOK /\ deps \in DepChoices
    /\ OnePlace /\ HeldOnce /\ AfterPrerequisites /\ NobodyLeavesEarly
    /\ Counted /\ Keyed /\ Placed

\* A worker has performed its operation, or it is retired, exactly when the
\* ledger has its outcome.
Answered ==
    /\ outcome \in [Ops -> Outcomes]
    /\ \A w \in Crew : job[w] # Idle => (outcome[job[w]] # "none" <=> step[w] = "performed")
    /\ \A o \in Ops : o \in retired => outcome[o] # "none"
    /\ \A o \in Ops : outcome[o] # "none" => o \in inflight \cup retired

\* The inductive invariant.
ExecInv == CrewInv /\ Answered /\ (ConflictsOrdered => SerialSoFar(outcome))
============================================================================
