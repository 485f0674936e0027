------------------------------ MODULE MCReplay ------------------------------
(***************************************************************************)
(* The parts of the replayer on small instances: the synchronisation       *)
(* primitives, and the tables dispatch_one translates descriptors and      *)
(* addresses with.  They share no state: the first state chooses the one   *)
(* that moves.                                                             *)
(***************************************************************************)
EXTENDS FlexBarrier, RingBuf, PacedReplay, FdMap, MmapReplay

CONSTANT Part

VARIABLE part

tableVars == <<fdVars, mmapVars>>
allVars == <<part, barrierVars, ringVars, pacedVars, tableVars>>

ThreeThreads == {"t1", "t2", "t3"}
ThreeWorkers == {"a", "b", "c"}

\* Interleaved records whose gaps fit in one sleep of three time units.
ShortGaps == [w \in ThreeWorkers |->
                CASE w = "a" -> <<0, 2>> [] w = "b" -> <<1, 4>> [] w = "c" -> <<3>>]

\* Four buckets.  -2 is the return value of a captured open that failed.
SmallFds == {-2, 0, 3}

\* Two processes and four mmap calls.  The keys of m1, m2 and m4 hash to
\* the same slot and m3's to the next, so probe sequences overlap; m3 maps
\* the address of m1 again, before its munmap or after, and the exit record
\* of m4 holds no address.
Procs == {"p", "q"}
FourCalls == {"m1", "m2", "m3", "m4"}
Owners == [c \in FourCalls |-> IF c = "m2" THEN "q" ELSE "p"]
Collide == [c \in FourCalls |-> IF c = "m3" THEN 1 ELSE 0]
Apart == [c \in FourCalls |->
            CASE c = "m1" -> 0 [] c = "m2" -> 1 [] c = "m3" -> 2 [] c = "m4" -> 3]
NoAddress == None
OwnAddrs == [c \in FourCalls |->
            CASE c = "m2" -> "b" [] c = "m4" -> NoAddress [] OTHER -> "a"]
SameAddrs == [c \in FourCalls |-> "a"]

Init ==
    /\ part \in Part
    /\ BarrierInit /\ RingInit /\ PacedInit /\ FdInit /\ MmapInit

Barrier(A) == part = "barrier" /\ A /\ UNCHANGED <<part, ringVars, pacedVars, tableVars>>
Ring(A) == part = "ring" /\ A /\ UNCHANGED <<part, barrierVars, pacedVars, tableVars>>
Pace(A) == part = "pace" /\ A /\ UNCHANGED <<part, barrierVars, ringVars, tableVars>>
Table(A) == A /\ UNCHANGED <<part, barrierVars, ringVars, pacedVars>>

Next ==
    \/ Barrier(BarrierNext) \/ Ring(RingNext) \/ Pace(PacedNext)
    \/ part = "fd" /\ Table(FdNext) /\ UNCHANGED mmapVars
    \/ part = "mmap" /\ Table(MmapNext) /\ UNCHANGED fdVars

\* The fairness of BarrierFairSpec and RingFairSpec.
Spec ==
    /\ Init /\ [][Next]_allVars
    /\ \A t \in Threads :
         /\ WF_allVars(Barrier(Expire(t)))
         /\ WF_allVars(Barrier(Return(t)))
    /\ WF_allVars(Ring(Consume))
============================================================================
