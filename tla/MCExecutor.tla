----------------------------- MODULE MCExecutor -----------------------------
(* kvio's workload executor in both modes: the first state chooses the     *)
(* mode.                                                                   *)
EXTENDS Executor, SimExecutor

VARIABLE part

allVars == <<part, loadVars, crewVars, simVars>>

\* Dependency graphs over five operations: a chain, and graphs in which the
\* loads may overlap and the second store may overlap with everything, some
\* with the conflicting operations ordered and some not.
Graphs ==
    {[o \in 1 .. 5 |-> IF o = 1 THEN {} ELSE {o - 1}]} \cup
    {[o \in 1 .. 5 |-> CASE o < 3 -> {} [] o = 3 -> a [] o = 4 -> b [] o = 5 -> c] :
        a \in {{1}, {1, 2}}, b \in {{1}, {2}}, c \in {{3}, {3, 4}}}
Delays == <<0, 0, 1, 0, 0>>
Releases == <<0, 1, 0, 0, 0>>

\* A store of each of two objects, two loads of the first, its release.
Verbs == <<"store", "store", "load", "load", "release">>
Objs == <<"x", "y", "x", "x", "x">>

Init ==
    /\ ExecInit
    /\ \/ part = "simulated" /\ SimInit
       \/ part = "real" /\ phase = "off" /\ endsAt = <<>> /\ answer = <<>>

Real(A) == part = "real" /\ A /\ UNCHANGED <<part, simVars>>
Simulated(A) == part = "simulated" /\ A /\ UNCHANGED <<part, crewVars>>

\* The threads are joined, or the event loop has ended.
Stopped == (\A w \in Crew : step[w] = "exit") \/ phase = "end"

Next ==
    \/ Real(ExecNext)
    \/ Simulated(SimNext)
    \/ Stopped /\ UNCHANGED allVars

Spec ==
    /\ Init /\ [][Next]_allVars
    /\ WF_allVars(Real(Passing))
    /\ \A w \in Crew : WF_allVars(Real(Work(w)))
    /\ WF_allVars(Simulated(SimNext))

\* The inductive invariant of each mode: where every operation is, what its
\* key allows, that nobody stops while something is left to do, and that
\* the answers so far are those of the workload's order.
PoolInv == IF part = "real" THEN ExecInv ELSE SimInv
============================================================================
