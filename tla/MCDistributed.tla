--------------------------- MODULE MCDistributed ---------------------------
(* The distributed run of kvio, and its clock measurement on its own: the  *)
(* first state chooses.                                                    *)
EXTENDS Coordinator, ClockProbe

VARIABLE part

allVars == <<part, coordVars, probeVars>>

\* a3 claims the shard of a1: a duplicate, or a1 restarted.
Claims == [a \in {"a1", "a2", "a3"} |-> IF a = "a2" THEN "c2" ELSE "c1"]

\* The streams s1 and s2 depend on each other; s3 is independent.  Assigned
\* to the clients, across the dependency, without s3, and s3 to nobody.
Pairs == {<<"s1", "s2">>}
ByStream == [s \in {"s1", "s2", "s3"} |-> IF s = "s3" THEN "c2" ELSE "c1"]
Crossing == [s \in {"s1", "s2", "s3"} |-> IF s = "s2" THEN "c2" ELSE "c1"]
Missing == [s \in {"s1", "s2"} |-> "c1"]
Stray == [s \in {"s1", "s2", "s3"} |-> IF s = "s3" THEN "c3" ELSE "c2"]
Split == {ByStream, Crossing, Missing, Stray}

Behind == {-2, 3}

Init ==
    /\ part \in {"coordinator", "probe"}
    /\ CoordInit /\ ProbeInit
    /\ part = "probe" => assignment = CHOOSE f \in Assignments : TRUE
    /\ part = "coordinator" => skew = CHOOSE s \in Skews : TRUE

Run(A) == part = "coordinator" /\ A /\ UNCHANGED <<part, probeVars>>
Probe(A) == part = "probe" /\ A /\ UNCHANGED <<part, coordVars>>

\* The coordinator has exited; or the probe's clock is at its bound.
Stopped == main \in Over \/ leg = "over" \/ tick = LastTick

Next ==
    \/ Run(CoordNext)
    \/ Probe(ProbeNext)
    \/ Stopped /\ UNCHANGED allVars

Spec ==
    /\ Init /\ [][Next]_allVars
    /\ WF_allVars(Run(MainStep))
    /\ \A a \in Attempts : WF_allVars(Run(ClientStep(a))) /\ WF_allVars(Run(Serve(a)))

\* The coordinator comes to an end, however many clients die, and every
\* client that connected leaves: none waits for a start that never comes.
RunEnds == part = "coordinator" => <>(main \in Over) /\ ClientsLeave
============================================================================
