---------------------------- MODULE SimExecutor ----------------------------
(***************************************************************************)
(* The simulated mode of the executor (intent_exec.py, _run_simulated): a  *)
(* discrete event loop over the pending heap and a heap of completions,    *)
(* which holds the operations in flight.                                   *)
(* Each round submits what is eligible while the worker budget allows,     *)
(* advances the clock to the next event and retires what has completed.    *)
(* The backend performs an operation when it is submitted; its service     *)
(* time only decides when the completion is seen.                          *)
(***************************************************************************)
EXTENDS Workload

CONSTANTS
    Workers,    \* the worker budget
    Service     \* the service times the backend may report

ASSUME SimAssumption == Workers \in Nat \ {0} /\ Service \subseteq Nat

VARIABLES
    phase,       \* "submit", "retire" or "end": where the loop is
    endsAt,      \* operation on the completion heap -> its completion time
    answer       \* and its outcome

simVars == <<phase, endsAt, answer>>

SimInit ==
    /\ LoadInit
    /\ phase = "submit"
    /\ endsAt = [o \in Ops |-> 0] /\ answer = [o \in Ops |-> "none"]

CanSubmit == \E o \in pending : HeapHead(o) /\ due[o] <= time /\ running < Workers

\* An operation that the source cancelled is not sent to the backend and
\* takes no time.
SimSubmit ==
    /\ phase = "submit" /\ CanSubmit
    /\ \E o \in pending, t \in Service :
         /\ HeapHead(o)
         /\ TakeOp(o)
         /\ submit' = [submit EXCEPT ![o] = time]
         /\ \/ /\ objects' = Effect(o, objects)
               /\ answer' = [answer EXCEPT ![o] = Answer(o, objects)]
            \/ /\ o \in Flaky \ Cancelled
               /\ answer' = [answer EXCEPT ![o] = "error"]
               /\ UNCHANGED objects
         /\ endsAt' = [endsAt EXCEPT ![o] = IF o \in Cancelled THEN time ELSE time + t]
         /\ rank' = [rank EXCEPT ![o] = pushes]
    /\ pushes' = pushes + 1
    /\ UNCHANGED <<deps, time, remaining, due, retired, complete, outcome, phase>>

\* As NextEvents, completions only.
NextEventsCompletions == {endsAt[o] : o \in inflight}

\* The times of the events the clock may advance to: completions and, if a
\* worker is free, the first eligible time.
NextEvents ==
    {endsAt[o] : o \in inflight}
      \cup (IF running < Workers THEN {due[o] : o \in {p \in pending : HeapHead(p)}} ELSE {})

SimAdvance ==
    /\ phase = "submit" /\ ~CanSubmit
    /\ \E t \in NextEvents :
         /\ \A u \in NextEvents : t <= u
         /\ time' = IF t > time THEN t ELSE time
    /\ phase' = "retire"
    /\ UNCHANGED <<deps, heapVars, submit, complete, outcome, objects,
                   endsAt, answer>>

\* The head of the completion heap: least (completion time, seq).
NextDone(o) ==
    /\ o \in inflight
    /\ \A p \in inflight :
         endsAt[o] < endsAt[p] \/ (endsAt[o] = endsAt[p] /\ rank[o] <= rank[p])

SimRetire ==
    /\ phase = "retire"
    /\ \E o \in inflight :
         /\ NextDone(o) /\ endsAt[o] <= time
         /\ complete' = [complete EXCEPT ![o] = endsAt[o]]
         /\ outcome' = [outcome EXCEPT ![o] = answer[o]]
         /\ RetireOp(o, complete')
    /\ UNCHANGED <<deps, time, submit, objects, phase, endsAt, answer>>

\* Nothing more completes now: the next round, or the loop ends.
SimRound ==
    /\ phase = "retire" /\ \A o \in inflight : endsAt[o] > time
    /\ phase' = "submit"
    /\ UNCHANGED <<loadVars, endsAt, answer>>

\* Both heaps are empty, or there is no event to advance to.
SimEnd ==
    /\ phase = "submit" /\ ~CanSubmit /\ NextEvents = {}
    /\ phase' = "end"
    /\ UNCHANGED <<loadVars, endsAt, answer>>

SimNext == SimSubmit \/ SimAdvance \/ SimRetire \/ SimRound \/ SimEnd

SimSpec == SimInit /\ [][SimNext]_<<loadVars, simVars>>

----------------------------------------------------------------------------
\* The loop keeps the worker budget, ends when everything is retired, and
\* has the backend's answer from the submission on; the ledger has it from
\* the retirement on.
SimTypeOK == phase \in {"submit", "retire", "end"} /\ endsAt \in [Ops -> Nat] /\ running <= Workers
EndsWithAll == phase = "end" => retired = Ops
Recorded ==
    /\ answer \in [Ops -> Outcomes] /\ outcome \in [Ops -> Outcomes]
    /\ \A o \in Ops :
          /\ answer[o] # "none" <=> o \in inflight \cup retired
          /\ outcome[o] = IF o \in retired THEN answer[o] ELSE "none"

\* The inductive invariant.
SimInv ==
    /\ LoadInv /\ SimTypeOK /\ EndsWithAll /\ Recorded
    /\ ConflictsOrdered => SerialSoFar(answer)

\* The clock passes no eligible operation while a worker is free: scheduler
\* lag in the ledger is always contention for workers.
NoIdleLag ==
    [][phase = "submit" /\ running < Workers /\ time' > time
         => \A o \in pending : time' <= due[o]]_<<loadVars, simVars>>
============================================================================
