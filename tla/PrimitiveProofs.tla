-------------------------- MODULE PrimitiveProofs --------------------------
(***************************************************************************)
(* What the threads of the replayer wait for each other with and share,    *)
(* for any number of them.  The barrier counts soundly, forgets nobody and *)
(* releases a round only when it is due.  The pacing state stays well      *)
(* typed, the anchor is set once, and when every gap fits in one sleep no  *)
(* record is issued before its time.  The ring buffer delivers every       *)
(* record once and in order, for every ring size, word and number of       *)
(* records, and behaves as the bounded queue.  The descriptor map names    *)
(* every file once, and the mmap tables own what they map.                 *)
(***************************************************************************)
EXTENDS FlexBarrier, PacedReplay, RingBuf, FdMap, MmapReplay,
        FiniteSetTheorems, SequenceTheorems, WellFoundedInduction, TLAPS

----------------------------------------------------------------------------
(* The barrier.                                                            *)

\* The sets the counters are compared with are finite.
LEMMA FiniteParts ==
    ASSUME NEW S \in SUBSET Threads
    PROVE  /\ IsFiniteSet(S)
           /\ Cardinality(S) \in Nat
           /\ Cardinality(S) <= Cardinality(Threads)
BY ThreadsAssumption, FS_Subset, FS_CardinalityType

\* Taking one thread into or out of a set moves its cardinality by one.
LEMMA OneThread ==
    ASSUME NEW S \in SUBSET Threads, NEW t \in Threads
    PROVE  /\ t \notin S => Cardinality(S \cup {t}) = Cardinality(S) + 1
           /\ t \in S => Cardinality(S \ {t}) = Cardinality(S) - 1
           /\ t \notin S => S \ {t} = S
BY FiniteParts, FS_AddElement, FS_RemoveElement

\* A set of threads that lacks t but is as large as all others has them all.
LEMMA AllButOne ==
    ASSUME NEW A \in SUBSET Threads, NEW t \in A, NEW S \in SUBSET (A \ {t}),
           Cardinality(S) >= Cardinality(A) - 1
    PROVE  S = A \ {t}
<1>1. Cardinality(A \ {t}) = Cardinality(A) - 1
  BY OneThread
<1>2. IsFiniteSet(A \ {t}) /\ Cardinality(A) \in Nat
  BY FiniteParts
<1>3. Cardinality(S) <= Cardinality(A \ {t}) /\ Cardinality(S) \in Nat
  BY <1>2, FS_Subset, FiniteParts
<1>4. Cardinality(S) = Cardinality(A \ {t})
  BY <1>1, <1>2, <1>3
<1> QED
  BY <1>2, <1>4, FS_Subset

\* The cardinalities of the three derived sets are natural numbers.
LEMMA Sizes ==
    /\ Alive \in SUBSET Threads /\ Unreleased \in SUBSET Threads
    /\ Overdue \in SUBSET Threads
    /\ Cardinality(Alive) \in Nat /\ Cardinality(Unreleased) \in Nat
    /\ Cardinality(Overdue) \in Nat /\ Cardinality(Threads) \in Nat
    /\ Cardinality(Alive) <= Cardinality(Threads)
    /\ Cardinality(Unreleased) <= Cardinality(Threads)
    /\ Cardinality(Overdue) <= Cardinality(Threads)
<1>1. Alive \in SUBSET Threads /\ Unreleased \in SUBSET Threads
      /\ Overdue \in SUBSET Threads
  BY DEF Alive, Unreleased, Inside, Overdue
<1>2. Threads \in SUBSET Threads
  OBVIOUS
<1> QED
  BY <1>1, <1>2, FiniteParts

\* The initial state satisfies the inductive invariant.
LEMMA BarrierInitInv == BarrierInit => BarrierInv
<1> SUFFICES ASSUME BarrierInit PROVE BarrierInv
  OBVIOUS
<1>1. Alive = Threads /\ Unreleased = {} /\ Overdue = {}
  BY DEF BarrierInit, Alive, Unreleased, Inside, Overdue
<1>2. Cardinality({}) = 0 /\ Cardinality(Threads) \in Nat
  BY FS_EmptySet, Sizes
<1> QED
  BY <1>1, <1>2 DEF BarrierInit, BarrierInv, BarrierTypeOK, CountsSound, NoLostWakeup,
     NoFullRound, DriftBounded, BarrierPlaces

\* A release empties the round: nobody is left unreleased, and the count
\* starts again from zero.
LEMMA ReleaseEmptiesRound ==
    ASSUME BarrierInv, NEW places \in [Threads -> BarrierPlaces],
           \A t \in Threads : places[t] # "gone" => places[t] = at[t],
           Release(places), UNCHANGED my_gen
    PROVE  /\ Unreleased' = {}
           /\ Cardinality(Unreleased') = 0
           /\ n_waiting' = 0
           /\ generation' = generation + 1
           /\ at' \in [Threads -> BarrierPlaces]
           /\ NoLostWakeup'
           /\ DriftBounded'
           /\ \A t \in Threads : my_gen'[t] <= generation'
           /\ Alive' = {t \in Threads : places[t] # "gone"}
<1>1. generation \in Nat /\ my_gen \in [Threads -> Nat]
      /\ \A t \in Threads : my_gen[t] <= generation
  BY DEF BarrierInv, BarrierTypeOK
<1>2. n_waiting' = 0 /\ generation' = generation + 1
      /\ at' = Broadcast(places) /\ my_gen' = my_gen
  BY DEF Release
<1>3. at' \in [Threads -> BarrierPlaces]
  BY <1>2 DEF Broadcast, BarrierPlaces
<1>4. \A t \in Threads : my_gen'[t] <= generation' /\ my_gen'[t] # generation'
  BY <1>1, <1>2
<1>5. Unreleased' = {}
  BY <1>4 DEF Unreleased, Inside
<1>6. Cardinality(Unreleased') = 0
  BY <1>5, FS_EmptySet
<1>7. \A t \in Threads : at'[t] # "asleep"
  BY <1>2 DEF Broadcast
<1>8. Overdue' \in SUBSET Threads
  BY DEF Overdue
<1>9. Cardinality(Overdue') <= Cardinality(Threads) /\ Cardinality(Overdue') \in Nat
      /\ Cardinality(Threads) \in Nat
  BY <1>8, FiniteParts, Sizes
<1>10. DriftBounded'
  BY <1>2, <1>6, <1>9 DEF DriftBounded
<1>11. Alive' = {t \in Threads : places[t] # "gone"}
  BY <1>2 DEF Alive, Broadcast
<1> QED
  BY <1>2, <1>3, <1>4, <1>5, <1>6, <1>7, <1>10, <1>11 DEF NoLostWakeup

\* The last arrival.
LEMMA ArriveLastIndInv ==
    ASSUME BarrierInv, NEW t \in Threads, ArriveLast(t)
    PROVE  BarrierInv'
<1>1. at \in [Threads -> BarrierPlaces] /\ Release(at) /\ UNCHANGED my_gen
  BY DEF BarrierInv, BarrierTypeOK, ArriveLast
<1>2. /\ Cardinality(Unreleased') = 0 /\ n_waiting' = 0
      /\ generation' = generation + 1 /\ at' \in [Threads -> BarrierPlaces]
      /\ NoLostWakeup' /\ DriftBounded'
      /\ \A u \in Threads : my_gen'[u] <= generation'
      /\ Alive' = {u \in Threads : at[u] # "gone"}
  BY <1>1, ReleaseEmptiesRound
<1>3. Alive' = Alive
  BY <1>2 DEF Alive
<1>4. n_active' = n_active
  BY DEF ArriveLast
<1> QED
  BY <1>1, <1>2, <1>3, <1>4, Sizes
  DEF BarrierInv, BarrierTypeOK, CountsSound, NoFullRound

\* An arrival that goes to sleep.
LEMMA ArriveAndSleepIndInv ==
    ASSUME BarrierInv, NEW t \in Threads, ArriveAndSleep(t)
    PROVE  BarrierInv'
<1>1. /\ BarrierTypeOK /\ CountsSound /\ NoLostWakeup /\ NoFullRound /\ DriftBounded
      /\ \A u \in Threads : my_gen[u] <= generation
  BY DEF BarrierInv
<1>2. /\ at[t] = "away" /\ n_waiting + 1 < n_active
      /\ n_waiting' = n_waiting + 1 /\ n_active' = n_active
      /\ generation' = generation
      /\ my_gen' = [my_gen EXCEPT ![t] = generation]
      /\ at' = [at EXCEPT ![t] = "asleep"]
  BY DEF ArriveAndSleep
<1>3. Alive' = Alive /\ Overdue' = Overdue
  BY <1>1, <1>2 DEF Alive, Overdue, BarrierTypeOK
<1>4. t \notin Unreleased /\ Unreleased' = Unreleased \cup {t}
  BY <1>1, <1>2 DEF Unreleased, Inside, BarrierTypeOK
<1>5. Cardinality(Unreleased') = Cardinality(Unreleased) + 1
  BY <1>4, OneThread, Sizes
<1>6. BarrierTypeOK'
  BY <1>1, <1>2, Sizes DEF BarrierTypeOK, BarrierPlaces, CountsSound
<1>7. NoLostWakeup' /\ \A u \in Threads : my_gen'[u] <= generation'
  BY <1>1, <1>2 DEF NoLostWakeup, BarrierTypeOK
<1> QED
  BY <1>1, <1>2, <1>3, <1>5, <1>6, <1>7, Sizes
  DEF BarrierInv, CountsSound, NoFullRound, DriftBounded, BarrierTypeOK

\* A deadline passes.  The sleeper belongs to the current round.
LEMMA ExpireIndInv ==
    ASSUME BarrierInv, NEW t \in Threads, Expire(t)
    PROVE  BarrierInv'
<1>1. /\ BarrierTypeOK /\ CountsSound /\ NoLostWakeup /\ NoFullRound /\ DriftBounded
      /\ \A u \in Threads : my_gen[u] <= generation
  BY DEF BarrierInv
<1>2. /\ at[t] = "asleep" /\ at' = [at EXCEPT ![t] = "expired"]
      /\ UNCHANGED <<n_active, n_waiting, generation, my_gen>>
  BY DEF Expire
<1>3. my_gen[t] = generation
  BY <1>1, <1>2 DEF NoLostWakeup
<1>4. Alive' = Alive /\ Unreleased' = Unreleased
  BY <1>1, <1>2 DEF Alive, Unreleased, Inside, BarrierTypeOK
<1>5. Overdue' = Overdue
  BY <1>1, <1>2, <1>3 DEF Overdue, BarrierTypeOK
<1>6. BarrierTypeOK' /\ NoLostWakeup'
  BY <1>1, <1>2 DEF BarrierTypeOK, BarrierPlaces, NoLostWakeup
<1> QED
  BY <1>1, <1>2, <1>4, <1>5, <1>6
  DEF BarrierInv, CountsSound, NoFullRound, DriftBounded

\* A return by timeout: of the current round, or of one already released.
LEMMA LeaveByTimeoutIndInv ==
    ASSUME BarrierInv, NEW t \in Threads, LeaveByTimeout(t)
    PROVE  BarrierInv'
<1>1. /\ BarrierTypeOK /\ CountsSound /\ NoLostWakeup /\ NoFullRound /\ DriftBounded
      /\ \A u \in Threads : my_gen[u] <= generation
  BY DEF BarrierInv
<1>2. /\ at[t] = "expired" /\ at' = [at EXCEPT ![t] = "away"]
      /\ n_waiting' = n_waiting - 1
      /\ UNCHANGED <<n_active, generation, my_gen>>
  BY DEF LeaveByTimeout
<1>3. Alive' = Alive
  BY <1>1, <1>2 DEF Alive, BarrierTypeOK
<1>4. Unreleased' = Unreleased \ {t} /\ Overdue' = Overdue \ {t}
  BY <1>1, <1>2 DEF Unreleased, Inside, Overdue, BarrierTypeOK
<1>5. (t \in Unreleased /\ t \notin Overdue) \/ (t \notin Unreleased /\ t \in Overdue)
  BY <1>1, <1>2 DEF Unreleased, Inside, Overdue
<1>6. \/ /\ Cardinality(Unreleased') = Cardinality(Unreleased) - 1
         /\ Cardinality(Overdue') = Cardinality(Overdue)
      \/ /\ Cardinality(Unreleased') = Cardinality(Unreleased)
         /\ Cardinality(Overdue') = Cardinality(Overdue) - 1
  BY <1>4, <1>5, OneThread, Sizes
<1>7. Cardinality(Unreleased') \in Nat /\ Cardinality(Overdue') \in Nat
  <2>1. Unreleased' \in SUBSET Threads /\ Overdue' \in SUBSET Threads
    BY <1>4, Sizes
  <2> QED
    BY <2>1, FiniteParts
<1>8. CountsSound' /\ DriftBounded' /\ NoFullRound'
  BY <1>1, <1>2, <1>3, <1>6, <1>7, Sizes
  DEF CountsSound, DriftBounded, NoFullRound, BarrierTypeOK
<1>9. n_waiting' \in -Cardinality(Threads) .. Cardinality(Threads)
  BY <1>1, <1>2, <1>7, <1>8, Sizes DEF DriftBounded, BarrierTypeOK
<1>10. BarrierTypeOK' /\ NoLostWakeup'
  BY <1>1, <1>2, <1>9 DEF BarrierTypeOK, BarrierPlaces, NoLostWakeup
<1> QED
  BY <1>1, <1>2, <1>8, <1>10 DEF BarrierInv

\* A return after a release; the thread was in no set that is counted.
LEMMA LeaveByReleaseIndInv ==
    ASSUME BarrierInv, NEW t \in Threads, LeaveByRelease(t)
    PROVE  BarrierInv'
<1>1. /\ BarrierTypeOK /\ CountsSound /\ NoLostWakeup /\ NoFullRound /\ DriftBounded
      /\ \A u \in Threads : my_gen[u] <= generation
  BY DEF BarrierInv
<1>2. /\ at[t] = "woken" /\ generation # my_gen[t]
      /\ at' = [at EXCEPT ![t] = "away"]
      /\ UNCHANGED <<n_active, n_waiting, generation, my_gen>>
  BY DEF LeaveByRelease
<1>3. Alive' = Alive /\ Unreleased' = Unreleased /\ Overdue' = Overdue
  BY <1>1, <1>2 DEF Alive, Unreleased, Inside, Overdue, BarrierTypeOK
<1>4. BarrierTypeOK' /\ NoLostWakeup'
  BY <1>1, <1>2 DEF BarrierTypeOK, BarrierPlaces, NoLostWakeup
<1> QED
  BY <1>1, <1>2, <1>3, <1>4
  DEF BarrierInv, CountsSound, NoFullRound, DriftBounded

\* A worker leaves for good.
LEMMA UnregisterIndInv ==
    ASSUME BarrierInv, NEW t \in Threads, Unregister(t)
    PROVE  BarrierInv'
<1> DEFINE places == [at EXCEPT ![t] = "gone"]
<1>1. /\ BarrierTypeOK /\ CountsSound /\ NoLostWakeup /\ NoFullRound /\ DriftBounded
      /\ \A u \in Threads : my_gen[u] <= generation
  BY DEF BarrierInv
<1>2. at[t] = "away" /\ n_active' = n_active - 1 /\ my_gen' = my_gen
  BY DEF Unregister
<1>3. places \in [Threads -> BarrierPlaces]
      /\ \A u \in Threads : places[u] # "gone" => places[u] = at[u]
  BY <1>1 DEF BarrierTypeOK, BarrierPlaces
<1>4. t \in Alive /\ {u \in Threads : places[u] # "gone"} = Alive \ {t}
  BY <1>1, <1>2 DEF Alive, BarrierTypeOK
<1>5. Cardinality(Alive \ {t}) = Cardinality(Alive) - 1
      /\ Cardinality(Alive) >= 1
  <2>1. Cardinality(Alive \ {t}) = Cardinality(Alive) - 1
    BY <1>4, OneThread, Sizes
  <2>2. Cardinality(Alive \ {t}) \in Nat
    BY FiniteParts, Sizes
  <2> QED
    BY <2>1, <2>2, Sizes
<1>6. n_active' \in 0 .. Cardinality(Threads)
  BY <1>1, <1>2, <1>5, Sizes DEF CountsSound
<1>7. CASE n_waiting > 0 /\ n_waiting >= n_active - 1
  <2>1. Release(places)
    BY <1>7 DEF Unregister
  <2>2. /\ Cardinality(Unreleased') = 0 /\ n_waiting' = 0
        /\ generation' = generation + 1 /\ at' \in [Threads -> BarrierPlaces]
        /\ NoLostWakeup' /\ DriftBounded'
        /\ \A u \in Threads : my_gen'[u] <= generation'
        /\ Alive' = {u \in Threads : places[u] # "gone"}
    BY <2>1, <1>2, <1>3, ReleaseEmptiesRound
  <2>3. Alive' = Alive \ {t}
    BY <2>2, <1>4
  <2> QED
    BY <1>1, <1>2, <1>5, <1>6, <2>2, <2>3, Sizes
    DEF BarrierInv, BarrierTypeOK, CountsSound, NoFullRound
<1>8. CASE ~(n_waiting > 0 /\ n_waiting >= n_active - 1)
  <2>1. at' = places /\ UNCHANGED <<n_waiting, generation>>
    BY <1>8 DEF Unregister
  <2>2. Alive' = Alive \ {t}
    BY <2>1, <1>4 DEF Alive
  <2>3. Unreleased' = Unreleased /\ Overdue' = Overdue
    BY <1>1, <1>2, <2>1 DEF Unreleased, Inside, Overdue, BarrierTypeOK
  <2>4. BarrierTypeOK' /\ NoLostWakeup'
    BY <1>1, <1>2, <1>3, <1>6, <2>1 DEF BarrierTypeOK, NoLostWakeup
  <2>5. NoFullRound'
    BY <1>1, <1>2, <1>8, <2>1 DEF NoFullRound, BarrierTypeOK
  <2> QED
    BY <1>1, <1>2, <1>5, <2>1, <2>2, <2>3, <2>4, <2>5
    DEF BarrierInv, CountsSound, DriftBounded
<1> QED
  BY <1>7, <1>8

\* Every step of the barrier preserves the inductive invariant.
LEMMA BarrierNextInv == BarrierInv /\ [BarrierNext]_barrierVars => BarrierInv'
<1> SUFFICES ASSUME BarrierInv, [BarrierNext]_barrierVars PROVE BarrierInv'
  OBVIOUS
<1>1. CASE UNCHANGED barrierVars
  BY <1>1 DEF barrierVars, BarrierInv, BarrierTypeOK, CountsSound, NoLostWakeup, NoFullRound,
     DriftBounded, Alive, Unreleased, Inside, Overdue
<1>2. ASSUME NEW t \in Threads, Wait(t) PROVE BarrierInv'
  BY <1>1, <1>2, ArriveLastIndInv, ArriveAndSleepIndInv DEF Wait, PassThrough
<1>3. ASSUME NEW t \in Threads, Return(t) PROVE BarrierInv'
  BY <1>3, LeaveByTimeoutIndInv, LeaveByReleaseIndInv DEF Return
<1>4. CASE AllWorkersGone
  BY <1>1, <1>4 DEF AllWorkersGone
<1> QED
  BY <1>1, <1>2, <1>3, <1>4, ExpireIndInv, UnregisterIndInv DEF BarrierNext

\* The inductive invariant of the barrier holds in every reachable state.
THEOREM BarrierInvariance == BarrierSpec => []BarrierInv
<1> QED
  BY BarrierInitInv, BarrierNextInv, PTL DEF BarrierSpec

\* Type correctness, for any number of workers: the decrement of a late
\* timeout can make n_waiting negative, but by at most one per worker.
THEOREM BarrierTypeCorrect == BarrierSpec => []BarrierTypeOK
<1>1. BarrierInv => BarrierTypeOK
  BY DEF BarrierInv
<1> QED
  BY <1>1, BarrierInvariance, PTL

\* The counters n_active and n_waiting never promise more threads than wait.
THEOREM CountersSound == BarrierSpec => []CountsSound
<1>1. BarrierInv => CountsSound
  BY DEF BarrierInv
<1> QED
  BY <1>1, BarrierInvariance, PTL

\* No sleeper is left behind by a release, and no full round is left open.
THEOREM NobodyForgotten == BarrierSpec => [](NoLostWakeup /\ NoFullRound)
<1>1. BarrierInv => NoLostWakeup /\ NoFullRound
  BY DEF BarrierInv
<1> QED
  BY <1>1, BarrierInvariance, PTL

\* The promise of flex_barrier_wait: a round is released only when every
\* worker alive, the one that takes the step aside, is waiting in it.
THEOREM ReleaseWhenDue == BarrierSpec => ReleaseOnlyWhenAllArrived
<1>1. ASSUME BarrierInv, BarrierNext, generation' # generation
      PROVE  \E t \in Threads : at[t] = "away" /\ Alive \ {t} = Unreleased
  <2>1. BarrierTypeOK /\ CountsSound
    BY <1>1 DEF BarrierInv
  <2>2. PICK t \in Threads : ArriveLast(t) \/ Unregister(t)
    BY <1>1 DEF BarrierNext, Wait, PassThrough, ArriveAndSleep, Expire, Return,
       LeaveByTimeout, LeaveByRelease, AllWorkersGone, barrierVars
  <2>a. at[t] = "away" /\ n_waiting + 1 >= n_active
    <3>1. n_waiting \in Int /\ n_active \in Int
      BY <2>1, Sizes DEF BarrierTypeOK
    <3>2. CASE ArriveLast(t)
      BY <3>2 DEF ArriveLast
    <3>3. CASE Unregister(t)
      BY <1>1, <3>1, <3>3 DEF Unregister
    <3> QED
      BY <2>2, <3>2, <3>3
  <2>3. t \in Alive /\ Unreleased \in SUBSET (Alive \ {t})
    BY <2>a DEF Alive, Unreleased, Inside
  <2>4. Cardinality(Unreleased) >= Cardinality(Alive) - 1
    BY <2>1, <2>a, Sizes DEF CountsSound, BarrierTypeOK
  <2>5. Unreleased = Alive \ {t}
    BY <2>3, <2>4, AllButOne, Sizes
  <2> QED
    BY <2>a, <2>5
<1>2. BarrierInv /\ [BarrierNext]_barrierVars
        => [generation' # generation =>
             \E t \in Threads : at[t] = "away" /\ Alive \ {t} = Unreleased]_barrierVars
  BY <1>1
<1> QED
  BY <1>2, BarrierInvariance, PTL DEF BarrierSpec, ReleaseOnlyWhenAllArrived

\* Once a late timeout has made the count fall behind the waiting threads,
\* it stays behind and no round is released any more.
THEOREM SkewStays == BarrierSpec => SkewIsPermanent
<1>1. ASSUME BarrierInv, Skewed, NEW t \in Threads, at[t] = "away"
      PROVE  /\ n_waiting + 1 < n_active
             /\ n_waiting \in Int /\ n_active \in Int
  <2>1. n_waiting \in Int /\ n_active \in Int /\ n_active = Cardinality(Alive)
    BY <1>1, Sizes DEF BarrierInv, BarrierTypeOK, CountsSound
  <2>2. t \in Alive /\ Unreleased \in SUBSET (Alive \ {t})
    BY <1>1 DEF Alive, Unreleased, Inside
  <2>3. Cardinality(Alive \ {t}) = Cardinality(Alive) - 1
        /\ IsFiniteSet(Alive \ {t})
    BY <2>2, OneThread, FiniteParts, Sizes
  <2>4. Cardinality(Unreleased) <= Cardinality(Alive) - 1
    BY <2>2, <2>3, FS_Subset
  <2> QED
    BY <1>1, <2>1, <2>4, Sizes DEF Skewed
<1>2. ASSUME BarrierInv, Skewed, BarrierNext
      PROVE  Skewed' /\ generation' = generation
  <2>1. BarrierTypeOK /\ n_waiting \in Int
    BY <1>2, Sizes DEF BarrierInv, BarrierTypeOK
  <2>2. ASSUME NEW t \in Threads, ArriveAndSleep(t)
        PROVE  Skewed' /\ generation' = generation
    <3>1. t \notin Unreleased /\ Unreleased' = Unreleased \cup {t}
      BY <2>1, <2>2 DEF ArriveAndSleep, Unreleased, Inside, BarrierTypeOK
    <3>2. Cardinality(Unreleased') = Cardinality(Unreleased) + 1
      BY <3>1, OneThread, Sizes
    <3> QED
      BY <1>2, <2>1, <2>2, <3>2, Sizes DEF Skewed, ArriveAndSleep
  <2>3. ASSUME NEW t \in Threads, LeaveByTimeout(t)
        PROVE  Skewed' /\ generation' = generation
    <3>1. Unreleased' = Unreleased \ {t}
      BY <2>1, <2>3 DEF LeaveByTimeout, Unreleased, Inside, BarrierTypeOK
    <3>3. CASE t \in Unreleased
      <4>1. Cardinality(Unreleased') = Cardinality(Unreleased) - 1
        BY <3>1, <3>3, OneThread, Sizes
      <4> QED
        BY <1>2, <2>1, <2>3, <4>1, Sizes DEF Skewed, LeaveByTimeout
    <3>4. CASE t \notin Unreleased
      <4>1. Unreleased' = Unreleased
        BY <3>1, <3>4
      <4> QED
        BY <1>2, <2>1, <2>3, <4>1, Sizes DEF Skewed, LeaveByTimeout
    <3> QED
      BY <3>3, <3>4
  <2>4. ASSUME NEW t \in Threads, Expire(t) \/ LeaveByRelease(t)
        PROVE  Skewed' /\ generation' = generation
    <3>1. Unreleased' = Unreleased
      BY <2>1, <2>4 DEF Expire, LeaveByRelease, Unreleased, Inside, BarrierTypeOK
    <3> QED
      BY <1>2, <2>4, <3>1 DEF Skewed, Expire, LeaveByRelease
  <2>5. ASSUME NEW t \in Threads, Unregister(t)
        PROVE  Skewed' /\ generation' = generation
    <3>1. n_waiting + 1 < n_active /\ n_waiting \in Int /\ n_active \in Int
      BY <1>1, <1>2, <2>5 DEF Unregister
    <3>2. at' = [at EXCEPT ![t] = "gone"] /\ at[t] = "away"
          /\ UNCHANGED <<n_waiting, generation, my_gen>>
      BY <2>5, <3>1 DEF Unregister
    <3>3. Unreleased' = Unreleased
      BY <2>1, <3>2 DEF Unreleased, Inside, BarrierTypeOK
    <3> QED
      BY <1>2, <3>2, <3>3 DEF Skewed
  <2>6. ASSUME NEW t \in Threads, ArriveLast(t) PROVE FALSE
    BY <1>1, <1>2, <2>6 DEF ArriveLast
  <2>7. ASSUME UNCHANGED barrierVars PROVE Skewed' /\ generation' = generation
    BY <1>2, <2>7 DEF barrierVars, Skewed, Unreleased, Inside
  <2> QED
    BY <1>2, <2>2, <2>3, <2>4, <2>5, <2>6, <2>7
    DEF BarrierNext, Wait, Return, PassThrough, AllWorkersGone
<1>3. BarrierInv /\ [BarrierNext]_barrierVars => [Skewed => Skewed' /\ generation' = generation]_barrierVars
  BY <1>2
<1> QED
  BY <1>3, BarrierInvariance, PTL DEF BarrierSpec, SkewIsPermanent

----------------------------------------------------------------------------
(* Pacing.                                                                 *)

\* The record a worker is at has a time.
LEMMA DueIsTime ==
    \A w \in Workers : \A i \in 1 .. Len(Due[w]) : Due[w][i] \in Nat
BY PacedAssumption

\* A capture is finite.
LEMMA LenIsNat == \A w \in Workers : Len(Due[w]) \in Nat
<1> SUFFICES ASSUME NEW w \in Workers PROVE Len(Due[w]) \in Nat
  OBVIOUS
<1>1. Due[w] \in Seq(Nat) BY PacedAssumption
<1> QED BY <1>1

\* Initially nobody has got anywhere.
LEMMA PacedInitIndInv == PacedInit => PacedInv
<1> SUFFICES ASSUME PacedInit PROVE PacedInv
  OBVIOUS
<1> USE DEF PacedInit
<1>1. PacedTypeOK
  <2>1. pc \in [Workers -> PacedPlaces] BY DEF PacedPlaces
  <2>2. next \in [Workers -> Nat \ {0}] /\ wake \in [Workers -> Nat] OBVIOUS
  <2>3. clock \in 0 .. Horizon /\ replay_start \in 0 .. Horizon BY PacedAssumption
  <2> QED BY <2>1, <2>2, <2>3 DEF PacedTypeOK
<1>2. Anchored BY DEF Anchored
<1>3. OnTime /\ NeverEarly BY DEF OnTime, NeverEarly
<1>4. ASSUME NEW w \in Workers PROVE next[w] <= Len(Due[w]) + 1
  <2>1. next[w] = 1 OBVIOUS
  <2>2. Len(Due[w]) \in Nat BY LenIsNat
  <2> HIDE DEF PacedInit
  <2> QED BY <2>1, <2>2
<1> QED BY <1>1, <1>2, <1>3, <1>4 DEF PacedInv

\* Every step preserves the inductive invariant.
LEMMA PacedNextIndInv == PacedInv /\ [PacedNext]_pacedVars => PacedInv'
<1> SUFFICES ASSUME PacedInv, [PacedNext]_pacedVars PROVE PacedInv'
  OBVIOUS
<1> USE PacedAssumption DEF PacedInv, PacedTypeOK, PacedPlaces
<1>1. CASE Tick
  <2>1. PacedTypeOK' /\ Anchored' BY <1>1 DEF Tick, Anchored
  <2>2. ASSUME GapsFit PROVE OnTime' /\ NeverEarly'
    BY <1>1, <2>2, DueIsTime DEF Tick, Anchored, OnTime, NeverEarly
  <2> QED BY <1>1, <2>1, <2>2 DEF Tick, GapsFit
<1>2. ASSUME NEW w \in Workers, Take(w) PROVE PacedInv'
  <2>1. PacedTypeOK' BY <1>2 DEF Take
  <2>2. Anchored' BY <1>2 DEF Take, Anchored
  <2>3. ASSUME GapsFit PROVE OnTime' /\ NeverEarly'
    BY <1>2, <2>3 DEF Take, Anchored, OnTime, NeverEarly
  <2> QED BY <1>2, <2>1, <2>2, <2>3 DEF Take, GapsFit
<1>3. ASSUME NEW w \in Workers, Lock(w) PROVE PacedInv'
  <2>1. PacedTypeOK' BY <1>3 DEF Lock
  <2>2. Anchored' BY <1>3 DEF Lock, Anchored
  <2>3. ASSUME GapsFit PROVE OnTime' /\ NeverEarly'
    BY <1>3, <2>3 DEF Lock, Anchored, OnTime, NeverEarly
  <2> QED BY <1>3, <2>1, <2>2, <2>3 DEF Lock, GapsFit
<1>4. ASSUME NEW w \in Workers, Publish(w) PROVE PacedInv'
  <2>1. PacedTypeOK' BY <1>4 DEF Publish
  <2>2. Anchored' BY <1>4 DEF Publish, Anchored
  <2>3. ASSUME GapsFit PROVE OnTime' /\ NeverEarly'
    BY <1>4, <2>3 DEF Publish, Anchored, OnTime, NeverEarly
  <2> QED BY <1>4, <2>1, <2>2, <2>3 DEF Publish, GapsFit
<1>5. ASSUME NEW w \in Workers, Plan(w) PROVE PacedInv'
  <2>0. next[w] \in 1 .. Len(Due[w]) /\ Due[w][next[w]] \in Nat
    BY <1>5, DueIsTime DEF Plan, Anchored
  <2>1. PacedTypeOK' BY <1>5, <2>0 DEF Plan
  <2>2. Anchored' BY <1>5 DEF Plan, Anchored
  <2>3. ASSUME GapsFit PROVE OnTime' /\ NeverEarly'
    <3>1. Due[w][next[w]] <= MaxSleep + (clock - replay_start)
      <4>1. CASE next[w] = 1
        BY <4>1, <2>0, <2>3 DEF GapsFit, Anchored
      <4>2. CASE next[w] > 1
        <5>1. next[w] - 1 \in 1 .. Len(Due[w]) /\ Due[w][next[w] - 1] \in Nat
          BY <4>2, <2>0, DueIsTime
        <5>2. Due[w][next[w]] <= MaxSleep + Due[w][next[w] - 1]
          BY <4>2, <2>0, <2>3 DEF GapsFit
        <5>3. clock - replay_start >= Due[w][next[w] - 1]
          BY <4>2, <2>0, <2>3 DEF OnTime
        <5> QED BY <2>0, <5>1, <5>2, <5>3
      <4> QED BY <2>0, <4>1, <4>2
    <3>2. wake'[w] - replay_start >= Due[w][next[w]]
      BY <1>5, <2>0, <3>1 DEF Plan
    <3> QED BY <1>5, <2>3, <3>2 DEF Plan, Anchored, OnTime, NeverEarly
  <2> QED BY <1>5, <2>1, <2>2, <2>3 DEF Plan, GapsFit
<1>6. ASSUME NEW w \in Workers, Issue(w) PROVE PacedInv'
  <2>0. next[w] \in 1 .. Len(Due[w]) /\ Due[w][next[w]] \in Nat
    BY <1>6, DueIsTime DEF Issue, Anchored
  <2>1. PacedTypeOK' BY <1>6 DEF Issue
  <2>2. Anchored' BY <1>6 DEF Issue, Anchored
  <2>3. ASSUME GapsFit PROVE OnTime' /\ NeverEarly'
    <3>1. clock - replay_start >= Due[w][next[w]]
      BY <1>6, <2>0, <2>3 DEF Issue, OnTime
    <3>2. NeverEarly'
      BY <1>6, <2>0, <2>3, <3>1 DEF Issue, NeverEarly
    <3>3. ASSUME NEW v \in Workers, next'[v] > 1, next'[v] <= Len(Due[v]) + 1
          PROVE  clock' - replay_start' >= Due[v][next'[v] - 1]
      <4>1. CASE v = w
        <5>1. next'[w] - 1 = next[w] BY <1>6, <2>0 DEF Issue
        <5> QED BY <1>6, <4>1, <5>1, <3>1 DEF Issue
      <4>2. CASE v # w
        BY <1>6, <2>3, <3>3, <4>2 DEF Issue, OnTime
      <4> QED BY <4>1, <4>2
    <3>4. ASSUME NEW v \in Workers, pc'[v] = "sleep"
          PROVE  wake'[v] - replay_start' >= Due[v][next'[v]]
      BY <1>6, <2>3, <3>4 DEF Issue, OnTime
    <3> QED BY <3>2, <3>3, <3>4 DEF OnTime
  <2> QED BY <1>6, <2>0, <2>1, <2>2, <2>3 DEF Issue, GapsFit
<1>7. CASE UNCHANGED pacedVars
  BY <1>7 DEF pacedVars, Anchored, OnTime, NeverEarly, GapsFit
<1> QED BY <1>1, <1>2, <1>3, <1>4, <1>5, <1>6, <1>7 DEF PacedNext, Step, Stopped

\* What every step of pace_to_capture preserves holds throughout.
THEOREM PacedInvariance == PacedSpec => []PacedInv
<1> QED BY PacedInitIndInv, PacedNextIndInv, PTL DEF PacedSpec

\* The pacing state stays well typed.
THEOREM PacedTypeCorrect == PacedSpec => []PacedTypeOK
<1>1. PacedInv => PacedTypeOK BY DEF PacedInv
<1> QED BY <1>1, PacedInitIndInv, PacedNextIndInv, PTL DEF PacedSpec

\* A capture whose gaps fit in one sleep is never replayed ahead of time.
THEOREM PacedOnTime == PacedSpec => []NeverEarlyIfGapsFit
<1>1. PacedInv => NeverEarlyIfGapsFit BY DEF PacedInv, NeverEarlyIfGapsFit
<1> QED BY <1>1, PacedInitIndInv, PacedNextIndInv, PTL DEF PacedSpec

\* The anchor is set once, although start_done is first read unlocked.
THEOREM AnchorFixed == PacedSpec => AnchorIsSetOnce
<1>1. PacedInv /\ [PacedNext]_pacedVars => [start_done => replay_start' = replay_start]_pacedVars
  BY DEF PacedInv, Anchored, PacedNext, Step, Tick, Take, Lock, Publish, Plan, Issue,
         Stopped, pacedVars
<1> QED BY <1>1, PacedInitIndInv, PacedNextIndInv, PTL DEF PacedSpec, AnchorIsSetOnce

----------------------------------------------------------------------------
(* The ring buffer.                                                        *)

USE SizeAssumption, MaxItemsAssumption

\* Remainders inside one turn of the ring.
LEMMA ModInRange ==
    ASSUME NEW x \in Nat, x < Size
    PROVE  x % Size = x
BY SMT

\* The remainder of a multiple of the ring size and a rest.
LEMMA ModOfMultiple ==
    ASSUME NEW q \in Nat, NEW r \in 0 .. Size - 1
    PROVE  (q * Size + r) % Size = r
BY SMT

\* One past the last slot is the first slot.
LEMMA ModAtEnd == Size % Size = 0
BY SMT

\* The successor of a slot index, as the code computes it.
LEMMA NextSlot ==
    ASSUME NEW i \in RingSlots
    PROVE  (i + 1) % Size = Wrap(i + 1) /\ Wrap(i + 1) \in RingSlots
<1>1. CASE i + 1 < Size
  BY <1>1, ModInRange DEF RingSlots, Wrap
<1>2. CASE i + 1 = Size
  BY <1>2, ModAtEnd DEF RingSlots, Wrap
<1> QED
  BY <1>1, <1>2 DEF RingSlots

\* Two turns of the ring are enough for every index the code computes.
LEMMA ModIsWrap ==
    ASSUME NEW x \in Nat, x < 2 * Size
    PROVE  x % Size = Wrap(x)
<1>1. CASE x < Size
  BY <1>1, ModInRange DEF Wrap
<1>2. CASE x >= Size
  <2>1. x = 1 * Size + (x - Size) /\ x - Size \in 0 .. Size - 1
    BY <1>2
  <2> QED
    BY <2>1, <1>2, SMT DEF Wrap
<1> QED
  BY <1>1, <1>2

\* ring_buf_count, whatever turn the write index is on.
LEMMA CountValue ==
    ASSUME head \in RingSlots, tail \in RingSlots
    PROVE  RingCount = IF head >= tail THEN head - tail ELSE Size + head - tail
<1>1. PICK k \in 1 .. Word : Word = k * Size
  BY WordAssumption
<1>2. Word \in Nat /\ k \in Nat
  <2>1. CASE Word \in Int
    BY <1>1, <2>1
  <2>2. 1 .. Word # {}
    BY <1>1
  <2>3. k \in Int
    BY <1>1
  <2>4. Word \in Int
    BY <1>1, <2>3
  <2> QED
    BY <2>1, <2>4
<1>3. Word >= Size
  BY <1>1, <1>2
<1>4. CASE head >= tail
  <2>1. Word + head - tail = 1 * Word + (head - tail)
        /\ head - tail \in 0 .. Word - 1 /\ Word > 1
    BY <1>2, <1>3, <1>4 DEF RingSlots
  <2>2. (Word + head - tail) % Word = head - tail
    BY <1>2, <2>1, SMT
  <2>3. (head - tail) % Size = head - tail
    BY <1>4, ModInRange DEF RingSlots
  <2> QED
    BY <1>4, <2>2, <2>3 DEF RingCount
<1>5. CASE head < tail
  <2>1. Word + head - tail \in 0 .. Word - 1 /\ Word > 1
    BY <1>2, <1>3, <1>5 DEF RingSlots
  <2>2. (Word + head - tail) % Word = Word + head - tail
    BY <1>2, <2>1, SMT
  <2>3. Word + head - tail = (k - 1) * Size + (Size + head - tail)
    BY <1>1, <1>2 DEF RingSlots
  <2>4. Size + head - tail \in 0 .. Size - 1 /\ k - 1 \in Nat
    BY <1>1, <1>2, <1>5 DEF RingSlots
  <2>5. (Word + head - tail) % Size = Size + head - tail
    BY <2>3, <2>4, ModOfMultiple
  <2> QED
    BY <1>5, <2>2, <2>5 DEF RingCount, RingSlots
<1> QED
  BY <1>4, <1>5 DEF RingSlots

----------------------------------------------------------------------------
\* The initial state is an empty ring.
LEMMA RingInitIndInv == RingInit => RingInv
<1> SUFFICES ASSUME RingInit PROVE RingInv
  OBVIOUS
<1>0. <<>> \in Seq(0 .. MaxItems) /\ Len(<<>>) = 0
  BY EmptySeq
<1>a. received = <<>>
  BY DEF RingInit
<1>1. RingTypeOK
  <2>1. received \in Seq(0 .. MaxItems)
    BY <1>0, <1>a
  <2>2. entries \in [RingSlots -> 0 .. MaxItems] /\ head \in RingSlots /\ tail \in RingSlots
    BY DEF RingInit, RingSlots
  <2> QED
    BY <2>1, <2>2 DEF RingInit, RingTypeOK
<1>b. Len(received) = 0
  BY <1>0, <1>a, Zenon
<1>c. sent = 0
  BY DEF RingInit
<1>2. Stored = 0 /\ Len(received) = 0
  BY <1>b, <1>c DEF Stored
<1>3. RingShape
  BY <1>2 DEF RingInit, RingShape, Wrap
<1> QED
  BY <1>1, <1>2, <1>3 DEF RingInit, RingInv, InOrder, NoLostSignal, DrainedAtExit

\* RingFull and RingEmpty in terms of the number of records stored.
LEMMA Occupancy ==
    ASSUME RingInv
    PROVE  /\ Stored \in 0 .. Size - 1 /\ Len(received) \in Nat /\ sent \in Nat
           /\ RingEmpty <=> Stored = 0
           /\ RingFull <=> Stored = Size - 1
           /\ RingCount = Stored
<1>1. head \in RingSlots /\ tail \in RingSlots /\ head = Wrap(tail + Stored)
      /\ Stored \in 0 .. Size - 1 /\ Len(received) \in Nat /\ sent \in Nat
  BY DEF RingInv, RingTypeOK, RingShape
<1>2. RingEmpty <=> Stored = 0
  BY <1>1 DEF RingEmpty, Wrap, RingSlots
<1>3. RingFull <=> Stored = Size - 1
  BY <1>1, NextSlot DEF RingFull, Wrap, RingSlots
<1>4. RingCount = Stored
  BY <1>1, CountValue DEF Wrap, RingSlots
<1> QED
  BY <1>1, <1>2, <1>3, <1>4

\* A step that leaves the ring's contents alone keeps its shape.
LEMMA ShapeUnchanged ==
    ASSUME RingInv, UNCHANGED <<entries, head, tail, sent, received>>
    PROVE  RingShape' /\ InOrder' /\ (RingEmpty' <=> RingEmpty) /\ (RingFull' <=> RingFull)
           /\ RingCount' = RingCount
BY DEF RingInv, RingShape, Stored, Wrap, InOrder, RingEmpty, RingFull, RingCount

\* A record enters the ring.
LEMMA EnqueueIndInv == ASSUME RingInv, Enqueue PROVE RingInv'
<1>1. /\ RingTypeOK /\ RingShape /\ InOrder /\ NoLostSignal /\ DrainedAtExit
      /\ Stored \in 0 .. Size - 1 /\ Len(received) \in Nat /\ sent \in Nat
      /\ (RingEmpty <=> Stored = 0) /\ (RingFull <=> Stored = Size - 1)
  BY Occupancy DEF RingInv
<1>2. /\ sent < MaxItems /\ ~RingFull /\ ~shutdown
      /\ entries' = [entries EXCEPT ![head] = sent + 1]
      /\ head' = (head + 1) % Size /\ sent' = sent + 1
      /\ producer' = "idle" /\ consumer' = Signalled(consumer)
      /\ UNCHANGED <<tail, shutdown, received>>
  BY DEF Enqueue
<1>3. head \in RingSlots /\ tail \in RingSlots /\ head' = Wrap(head + 1) /\ head' \in RingSlots
  BY <1>1, <1>2, NextSlot DEF RingTypeOK
<1>4. RingTypeOK'
  BY <1>1, <1>2, <1>3 DEF RingTypeOK, Signalled
<1>5. Stored' = Stored + 1 /\ Stored < Size - 1
  BY <1>1, <1>2 DEF Stored
<1>6. head = Wrap(tail + Stored)
  BY <1>1 DEF RingShape
<1>7. head' = Wrap(tail' + Stored')
  BY <1>1, <1>2, <1>3, <1>5, <1>6 DEF Wrap, RingSlots
<1>8. ASSUME NEW i \in 0 .. Stored' - 1
      PROVE  entries'[Wrap(tail' + i)] = Len(received') + i + 1
  <2>1. CASE i = Stored
    BY <1>1, <1>2, <1>3, <1>6, <2>1 DEF Stored, RingTypeOK
  <2>2. CASE i < Stored
    <3>1. Wrap(tail + i) # head /\ Wrap(tail + i) \in RingSlots
      BY <1>1, <1>3, <1>5, <1>6, <2>2 DEF Wrap, RingSlots
    <3>2. entries'[Wrap(tail + i)] = entries[Wrap(tail + i)]
      BY <1>1, <1>2, <3>1 DEF RingTypeOK
    <3> QED
      BY <1>1, <1>2, <2>2, <3>2 DEF RingShape
  <2> QED
    BY <1>1, <1>5, <1>8, <2>1, <2>2
<1>9. RingShape'
  BY <1>1, <1>5, <1>7, <1>8 DEF RingShape, Wrap
<1>10. InOrder' /\ NoLostSignal' /\ DrainedAtExit'
  BY <1>1, <1>2 DEF InOrder, NoLostSignal, DrainedAtExit, Signalled
<1> QED
  BY <1>4, <1>9, <1>10 DEF RingInv

\* The oldest record leaves the ring.
LEMMA DequeueIndInv == ASSUME RingInv, Dequeue PROVE RingInv'
<1>1. /\ RingTypeOK /\ RingShape /\ InOrder /\ NoLostSignal /\ DrainedAtExit
      /\ Stored \in 0 .. Size - 1 /\ Len(received) \in Nat /\ sent \in Nat
      /\ (RingEmpty <=> Stored = 0) /\ (RingFull <=> Stored = Size - 1)
  BY Occupancy DEF RingInv
<1>2. /\ consumer \in {"idle", "woken"} /\ ~RingEmpty
      /\ received' = Append(received, entries[tail])
      /\ tail' = (tail + 1) % Size
      /\ consumer' = "idle" /\ producer' = Signalled(producer)
      /\ UNCHANGED <<entries, head, shutdown, sent>>
  BY DEF Dequeue
<1>3. head \in RingSlots /\ tail \in RingSlots /\ tail' = Wrap(tail + 1) /\ tail' \in RingSlots
  BY <1>1, <1>2, NextSlot DEF RingTypeOK
<1>4. entries[tail] \in 0 .. MaxItems /\ received \in Seq(0 .. MaxItems)
  BY <1>1, <1>3 DEF RingTypeOK
<1>5. received' \in Seq(0 .. MaxItems) /\ Len(received') = Len(received) + 1
      /\ received'[Len(received) + 1] = entries[tail]
      /\ \A i \in 1 .. Len(received) : received'[i] = received[i]
  BY <1>2, <1>4
<1>6. RingTypeOK'
  BY <1>1, <1>2, <1>3, <1>5 DEF RingTypeOK, Signalled
<1>7. Stored' = Stored - 1 /\ Stored >= 1
  BY <1>1, <1>2, <1>5 DEF Stored
<1>8. entries[tail] = Len(received) + 1
  <2>1. entries[Wrap(tail + 0)] = Len(received) + 0 + 1
    BY <1>1, <1>7 DEF RingShape
  <2> QED
    BY <1>1, <1>3, <2>1 DEF Wrap, RingSlots
<1>9. InOrder'
  BY <1>1, <1>5, <1>8 DEF InOrder
<1>10. head' = Wrap(tail' + Stored')
  BY <1>1, <1>2, <1>3, <1>7 DEF RingShape, Wrap, RingSlots
<1>11. ASSUME NEW i \in 0 .. Stored' - 1
       PROVE  entries'[Wrap(tail' + i)] = Len(received') + i + 1
  <2>1. i + 1 \in 0 .. Stored - 1
    BY <1>1, <1>7, <1>11
  <2>2. entries[Wrap(tail + (i + 1))] = Len(received) + (i + 1) + 1
    BY <1>1, <2>1 DEF RingShape
  <2>3. Wrap(tail' + i) = Wrap(tail + (i + 1))
    BY <1>1, <1>3, <1>7, <1>11 DEF Wrap, RingSlots
  <2> QED
    BY <1>1, <1>2, <1>5, <1>7, <1>11, <2>2, <2>3
<1>12. RingShape'
  BY <1>1, <1>7, <1>10, <1>11 DEF RingShape, Wrap
<1>13. NoLostSignal' /\ DrainedAtExit'
  BY <1>1, <1>2 DEF NoLostSignal, DrainedAtExit, Signalled
<1> QED
  BY <1>6, <1>9, <1>12, <1>13 DEF RingInv

\* Every step preserves the inductive invariant.
LEMMA RingNextIndInv == RingInv /\ [RingNext]_ringVars => RingInv'
<1> SUFFICES ASSUME RingInv, [RingNext]_ringVars PROVE RingInv'
  OBVIOUS
<1> DEFINE Same == UNCHANGED <<entries, head, tail, sent, received>>
<1>1. RingTypeOK /\ NoLostSignal /\ DrainedAtExit
      /\ Len(received) \in Nat /\ sent \in Nat
      /\ (RingEmpty <=> Stored = 0) /\ RingCount = Stored
  BY Occupancy DEF RingInv
<1>2. Same => RingShape' /\ InOrder' /\ (RingEmpty' <=> RingEmpty) /\ (RingFull' <=> RingFull)
  BY ShapeUnchanged
<1>3. CASE EnqueueWait \/ EnqueueRefused
  <2>1. Same
    BY <1>3 DEF EnqueueWait, EnqueueRefused
  <2>2. RingTypeOK' /\ NoLostSignal' /\ DrainedAtExit'
    BY <1>1, <1>2, <1>3, <2>1 DEF EnqueueWait, EnqueueRefused, RingTypeOK,
       NoLostSignal, DrainedAtExit
  <2> QED
    BY <1>2, <2>1, <2>2 DEF RingInv
<1>4. CASE Shutdown
  <2>1. Same
    BY <1>4 DEF Shutdown
  <2>2. RingTypeOK' /\ NoLostSignal' /\ DrainedAtExit'
    BY <1>1, <1>2, <1>4, <2>1 DEF Shutdown, Signalled, RingTypeOK,
       NoLostSignal, DrainedAtExit
  <2> QED
    BY <1>2, <2>1, <2>2 DEF RingInv
<1>5. CASE DequeueWait \/ DequeueEnd
  <2>1. Same
    BY <1>5 DEF DequeueWait, DequeueEnd
  <2>2. Stored = 0 => Len(received) = sent
    BY <1>1 DEF Stored
  <2>3. RingTypeOK' /\ NoLostSignal' /\ DrainedAtExit'
    BY <1>1, <1>2, <1>5, <2>1, <2>2 DEF DequeueWait, DequeueEnd, RingTypeOK,
       NoLostSignal, DrainedAtExit
  <2> QED
    BY <1>2, <2>1, <2>3 DEF RingInv
<1>6. CASE LeaveLoop
  <2>1. Same
    BY <1>6 DEF LeaveLoop
  <2>2. RingCount = 0
    BY <1>1, <1>6 DEF LeaveLoop, DrainedAtExit, Stored
  <2>3. RingTypeOK' /\ NoLostSignal' /\ DrainedAtExit'
    BY <1>1, <1>2, <1>6, <2>1, <2>2 DEF LeaveLoop, RingTypeOK,
       NoLostSignal, DrainedAtExit
  <2> QED
    BY <1>2, <2>1, <2>3 DEF RingInv
<1>7. CASE UNCHANGED ringVars
  <2>1. Same /\ UNCHANGED <<shutdown, producer, consumer>>
    BY <1>7 DEF ringVars
  <2>2. RingTypeOK' /\ NoLostSignal' /\ DrainedAtExit'
    BY <1>1, <1>2, <2>1 DEF RingTypeOK, NoLostSignal, DrainedAtExit
  <2> QED
    BY <1>2, <2>1, <2>2 DEF RingInv
<1> QED
  BY <1>3, <1>4, <1>5, <1>6, <1>7, EnqueueIndInv, DequeueIndInv
  DEF RingNext, Produce, Consume, RingFinished

\* The inductive invariant of the ring holds in every reachable state.
THEOREM RingInvariance == RingSpec => []RingInv
<1> QED
  BY RingInitIndInv, RingNextIndInv, PTL DEF RingSpec

\* Type correctness: both indices stay inside the ring.
THEOREM RingTypeCorrect == RingSpec => []RingTypeOK
<1>1. RingInv => RingTypeOK
  BY DEF RingInv
<1> QED
  BY <1>1, RingInvariance, PTL

\* The unsigned difference of ring_buf_count is the number of records.
THEOREM CountCorrect == RingSpec => []CountIsStored
<1>1. RingInv => CountIsStored
  BY Occupancy DEF CountIsStored
<1> QED
  BY <1>1, RingInvariance, PTL

\* The worker receives the reader's records in order and exactly once, and
\* it has all of them when it leaves.
THEOREM Delivery == RingSpec => [](InOrder /\ DrainedAtExit)
<1>1. RingInv => InOrder /\ DrainedAtExit
  BY DEF RingInv
<1> QED
  BY <1>1, RingInvariance, PTL

\* Neither thread sleeps on a condition that holds already.
THEOREM SignalsNotLost == RingSpec => []NoLostSignal
<1>1. RingInv => NoLostSignal
  BY DEF RingInv
<1> QED
  BY <1>1, RingInvariance, PTL

----------------------------------------------------------------------------
(***************************************************************************)
(* Refinement of the bounded queue.                                        *)
(***************************************************************************)

\* The abstract contents: as many records as are stored, the next one to be
\* received first.
ContentsShape ==
    /\ Contents = [i \in 1 .. Stored |-> Len(received) + i]
    /\ Stored \in 0 .. Size - 1 /\ Len(received) \in Nat /\ sent \in Nat

\* The invariant determines the contents the ring stands for.
LEMMA ContentsValue == RingInv => ContentsShape
<1> SUFFICES ASSUME RingInv PROVE ContentsShape
  OBVIOUS
<1>1. RingCount = Stored /\ Stored \in 0 .. Size - 1 /\ RingShape
      /\ tail \in RingSlots /\ Len(received) \in Nat /\ sent \in Nat
  BY Occupancy DEF RingInv, RingTypeOK
<1>2. ASSUME NEW i \in 1 .. Stored
      PROVE  entries[(tail + i - 1) % Size] = Len(received) + i
  <2>1. i - 1 \in 0 .. Stored - 1 /\ tail + i - 1 \in Nat /\ tail + i - 1 < 2 * Size
    BY <1>1, <1>2 DEF RingSlots
  <2>2. tail + i - 1 = tail + (i - 1)
    BY <1>1, <1>2 DEF RingSlots
  <2>3. (tail + i - 1) % Size = Wrap(tail + (i - 1))
    BY <2>1, <2>2, ModIsWrap
  <2>4. entries[Wrap(tail + (i - 1))] = Len(received) + (i - 1) + 1
    BY <1>1, <2>1 DEF RingShape
  <2> QED
    BY <1>1, <1>2, <2>3, <2>4
<1> QED
  BY <1>1, <1>2 DEF Contents, ContentsShape

\* A block of consecutive numbers, seen as a sequence: appending the next
\* number makes the block longer, taking the tail moves its start.
LEMMA Block ==
    ASSUME NEW a \in Nat, NEW n \in Nat
    PROVE  LET s == [i \in 1 .. n |-> a + i] IN
             /\ s \in Seq(Nat) /\ Len(s) = n
             /\ Append(s, a + n + 1) = [i \in 1 .. n + 1 |-> a + i]
             /\ n > 0 => s # <<>>
             /\ n > 0 => Tail(s) = [i \in 1 .. n - 1 |-> (a + 1) + i]
<1> DEFINE s == [i \in 1 .. n |-> a + i]
<1> DEFINE t == [i \in 1 .. n + 1 |-> a + i]
<1>1. s \in Seq(Nat) /\ Len(s) = n
  BY IsASeq
<1>2. Append(s, a + n + 1) = t
  <2>1. Append(s, a + n + 1) \in Seq(Nat) /\ Len(Append(s, a + n + 1)) = n + 1
        /\ \A i \in 1 .. n : Append(s, a + n + 1)[i] = s[i]
        /\ Append(s, a + n + 1)[n + 1] = a + n + 1
    BY <1>1, AppendProperties
  <2>2. t \in Seq(Nat) /\ Len(t) = n + 1
    BY IsASeq
  <2>3. ASSUME NEW i \in 1 .. n + 1 PROVE Append(s, a + n + 1)[i] = t[i]
    BY <2>1, <2>3
  <2> QED
    BY <2>1, <2>2, <2>3, SeqEqual
<1>3. ASSUME n > 0
      PROVE  s # <<>> /\ Tail(s) = [i \in 1 .. n - 1 |-> (a + 1) + i]
  <2> DEFINE u == [i \in 1 .. n - 1 |-> (a + 1) + i]
  <2>1. s # <<>>
    BY <1>1, <1>3, EmptySeq
  <2>2. Tail(s) \in Seq(Nat) /\ Len(Tail(s)) = n - 1
        /\ \A i \in 1 .. n - 1 : Tail(s)[i] = s[i + 1]
    BY <1>1, <2>1, HeadTailProperties
  <2>3. u \in Seq(Nat) /\ Len(u) = n - 1
    BY <1>3, IsASeq
  <2>4. ASSUME NEW i \in 1 .. n - 1 PROVE Tail(s)[i] = u[i]
    BY <2>2, <2>4
  <2> QED
    BY <2>1, <2>2, <2>3, <2>4, SeqEqual
<1> QED
  BY <1>1, <1>2, <1>3

\* The abstract queue starts empty and open.
LEMMA InitRefines == RingInit => Queue!QInit
<1> SUFFICES ASSUME RingInit PROVE Queue!QInit
  OBVIOUS
<1>1. ContentsShape
  BY RingInitIndInv, ContentsValue
<1>2. Stored = 0
  <2>1. Len(<<>>) = 0
    BY EmptySeq
  <2>2. received = <<>>
    BY DEF RingInit
  <2>3. Len(received) = 0
    BY <2>1, <2>2, Zenon
  <2>4. sent = 0
    BY DEF RingInit
  <2> QED
    BY <2>3, <2>4 DEF Stored
<1>3. Len(Contents) = 0 /\ Contents \in Seq(Nat)
  BY <1>1, <1>2, Block DEF ContentsShape
<1>4. Contents = <<>>
  BY <1>3, EmptySeq
<1> QED
  BY <1>4 DEF Queue!QInit, RingInit

\* Every step of the ring is a step of the queue or leaves it unchanged.
LEMMA NextRefines ==
    RingInv /\ ContentsShape /\ ContentsShape' /\ [RingNext]_ringVars
        => [Queue!QNext]_(Queue!qvars)
<1> SUFFICES ASSUME RingInv, ContentsShape, ContentsShape', [RingNext]_ringVars
             PROVE  Queue!QNext \/ UNCHANGED (Queue!qvars)
  OBVIOUS
<1>1. /\ (RingEmpty <=> Stored = 0) /\ (RingFull <=> Stored = Size - 1) /\ RingCount = Stored
      /\ received \in Seq(0 .. MaxItems) /\ DrainedAtExit
      /\ Stored \in Nat /\ Stored = sent - Len(received)
      /\ Len(received) \in Nat /\ sent \in Nat
  BY Occupancy DEF RingInv, RingTypeOK, Stored
<1>2. Contents = [i \in 1 .. Stored |-> Len(received) + i]
      /\ Contents' = [i \in 1 .. Stored' |-> Len(received') + i]
  BY DEF ContentsShape
<1>3. Len(Contents) = Stored /\ Contents \in Seq(Nat)
      /\ Append(Contents, Len(received) + Stored + 1)
           = [i \in 1 .. Stored + 1 |-> Len(received) + i]
      /\ (Stored > 0 => Contents # <<>>)
      /\ (Stored > 0 => Tail(Contents)
                         = [i \in 1 .. Stored - 1 |-> (Len(received) + 1) + i])
  BY <1>1, <1>2, Block
<1>4. CASE Enqueue
  <2>1. sent' = sent + 1 /\ received' = received /\ ~RingFull /\ ~shutdown
        /\ sent < MaxItems /\ shutdown' = shutdown
        /\ consumer' = Signalled(consumer)
    BY <1>4 DEF Enqueue
  <2>2. Stored' = Stored + 1 /\ Len(received) + Stored + 1 = sent + 1
    BY <1>1, <2>1 DEF Stored
  <2>3. Contents' = Append(Contents, sent + 1)
    BY <1>2, <1>3, <2>1, <2>2
  <2>4. Len(Contents) < Size - 1
    <3>1. Stored \in 0 .. Size - 1 /\ Stored # Size - 1
      BY <1>1, <2>1 DEF ContentsShape
    <3> QED
      BY <1>3, <3>1
  <2>5. (consumer \in {"ended", "gone"})' = (consumer \in {"ended", "gone"})
    BY <2>1 DEF Signalled
  <2> QED
    BY <2>1, <2>3, <2>4, <2>5 DEF Queue!QNext, Queue!Put
<1>5. CASE Dequeue
  <2>1. ~RingEmpty /\ received' = Append(received, entries[tail])
        /\ consumer \in {"idle", "woken"} /\ consumer' = "idle"
        /\ UNCHANGED <<shutdown, sent>>
    BY <1>5 DEF Dequeue
  <2>2. Len(received') = Len(received) + 1
    <3>1. entries[tail] \in 0 .. MaxItems
      BY DEF RingInv, RingTypeOK
    <3> QED
      BY <1>1, <2>1, <3>1
  <2>3. Stored' = Stored - 1 /\ Stored > 0
    BY <1>1, <2>1, <2>2 DEF Stored
  <2>4. Contents' = Tail(Contents) /\ Contents # <<>>
    BY <1>2, <1>3, <2>2, <2>3
  <2> QED
    BY <2>1, <2>4 DEF Queue!QNext, Queue!Take
<1>6. CASE UNCHANGED <<entries, head, tail, sent, received>>
  <2>1. Contents' = Contents /\ sent' = sent
    BY <1>6 DEF Contents, RingCount
  <2>2. CASE Shutdown
    <3>1. (consumer \in {"ended", "gone"})' = (consumer \in {"ended", "gone"})
      BY <2>2 DEF Shutdown, Signalled
    <3> QED
      BY <2>1, <2>2, <3>1 DEF Queue!QNext, Queue!Close, Shutdown
  <2>3. CASE DequeueEnd
    <3>1. Contents = <<>>
      BY <1>1, <1>3, <2>3, EmptySeq DEF DequeueEnd
    <3> QED
      BY <2>1, <2>3, <3>1 DEF Queue!QNext, Queue!End, DequeueEnd
  <2>4. CASE LeaveLoop
    <3>1. RingCount = 0 /\ consumer = "ended"
      BY <1>1, <2>4 DEF LeaveLoop, DrainedAtExit
    <3>2. consumer' = "gone" /\ shutdown' = shutdown
      BY <2>4, <3>1 DEF LeaveLoop
    <3> QED
      BY <2>1, <3>1, <3>2 DEF Queue!qvars
  <2>5. CASE EnqueueWait \/ EnqueueRefused \/ DequeueWait \/ UNCHANGED ringVars
    <3>1. shutdown' = shutdown
          /\ (consumer \in {"ended", "gone"})' = (consumer \in {"ended", "gone"})
      BY <2>5 DEF EnqueueWait, EnqueueRefused, DequeueWait, ringVars
    <3> QED
      BY <2>1, <3>1 DEF Queue!qvars
  <2>6. CASE Enqueue \/ Dequeue
    BY <1>4, <1>5, <2>6
  <2> QED
    BY <2>2, <2>3, <2>4, <2>5, <2>6 DEF RingNext, Produce, Consume, RingFinished
<1>7. Enqueue \/ Dequeue \/ UNCHANGED <<entries, head, tail, sent, received>>
  BY DEF RingNext, Produce, Consume, RingFinished, EnqueueWait, EnqueueRefused,
     Shutdown, DequeueWait, DequeueEnd, LeaveLoop, ringVars
<1> QED
  BY <1>4, <1>5, <1>6, <1>7

\* The ring buffer implements the safety of the bounded queue: it accepts
\* no record beyond its capacity, hands out the oldest one, and reports the
\* end only when it is closed and empty.
THEOREM QueueRefinement == RingSpec => BehavesAsQueue
<1>1. RingSpec => []RingInv
  BY RingInvariance
<1>2. []RingInv => []ContentsShape
  BY ContentsValue, PTL
<1>3. RingSpec => Queue!QInit
  BY InitRefines DEF RingSpec
<1>4. RingSpec => [][Queue!QNext]_(Queue!qvars)
  BY <1>1, <1>2, NextRefines, PTL DEF RingSpec
<1> QED
  BY <1>3, <1>4 DEF BehavesAsQueue, Queue!QSafe

----------------------------------------------------------------------------
(* The tables the replayer translates with.                                *)

\* A set of naturals has a least element.
LEMMA LeastNat ==
    ASSUME NEW S \in SUBSET Nat, S # {}
    PROVE  \E x \in S : \A y \in S : x <= y
  <1>1. PICK x \in S : \A y \in S : ~(<<y, x>> \in OpToRel(<, Nat))
    BY WFMin, NatLessThanWellFounded
  <1>2. \A y \in S : ~(y < x)
    BY <1>1 DEF OpToRel
  <1> QED
    BY <1>2

----------------------------------------------------------------------------
(* The descriptor map.                                                     *)

\* A probe sequence starts in the table and ends in one bucket at most.
LEMMA OneStop ==
    ASSUME NEW c \in CapFds
    PROVE  /\ \A i \in FdSlots : Probe(c, i) \in FdSlots
           /\ \A k, l \in StopsAt(c) : k = l
           /\ StopsAt(c) \subseteq FdSlots
           /\ \A k \in StopsAt(c) : ~buckets[k].valid \/ buckets[k].captured_fd = c
           /\ Holder(c) \subseteq StopsAt(c)
  <1>1. c \in Int /\ Buckets \in Nat \ {0}
    BY FdMapAssumption
  <1>2. \A i \in FdSlots : Probe(c, i) \in FdSlots
    BY <1>1 DEF Probe, FdSlots
  <1> DEFINE Before == {i \in FdSlots : Stops(c, i) /\ \A j \in 0 .. i - 1 : ~Stops(c, j)}
  <1>3. \A i, j \in Before : i = j
    <2>1. \A i, j \in Before : ~(i < j)
      BY <1>1 DEF FdSlots
    <2> QED
      BY <1>1, <2>1 DEF FdSlots
  <1>4. StopsAt(c) = {Probe(c, i) : i \in Before}
    BY DEF StopsAt
  <1>5. \A i \in Before : ~buckets[Probe(c, i)].valid \/ buckets[Probe(c, i)].captured_fd = c
    BY DEF Stops
  <1> QED
    BY <1>2, <1>3, <1>4, <1>5 DEF Holder

\* The kernel has a descriptor left while fewer than MaxOpen are open.
LEMMA FreeDescriptor ==
    ASSUME kernel \subseteq 0 .. MaxOpen, Cardinality(kernel) < MaxOpen
    PROVE  LowestFree \in 0 .. MaxOpen /\ LowestFree \notin kernel
  <1> DEFINE Free == (0 .. MaxOpen) \ kernel
  <1>1. MaxOpen \in Nat
    BY FdMapAssumption
  <1>2. IsFiniteSet(0 .. MaxOpen) /\ Cardinality(0 .. MaxOpen) = MaxOpen + 1
    <2>1. /\ IsFiniteSet(0 .. MaxOpen)
          /\ Cardinality(0 .. MaxOpen) = IF 0 > MaxOpen THEN 0 ELSE MaxOpen - 0 + 1
      BY <1>1, FS_Interval
    <2> QED
      BY <1>1, <2>1
  <1>3. Free # {} /\ Free \in SUBSET Nat
    <2>1. kernel # 0 .. MaxOpen
      BY <1>1, <1>2
    <2>2. 0 .. MaxOpen \subseteq Nat
      BY <1>1
    <2> QED
      BY <2>1, <2>2
  <1>5. PICK r \in Free : \A y \in Free : r <= y
    BY <1>3, LeastNat
  <1>6. 0 .. r - 1 \subseteq kernel
    BY <1>1, <1>5
  <1>7. \E x \in 0 .. MaxOpen : x \notin kernel /\ 0 .. x - 1 \subseteq kernel
    BY <1>6
  <1> QED
    BY <1>7 DEF LowestFree

LEMMA PushOne ==
    ASSUME NEW s \in Seq(Nat), NEW r \in Nat, Len(s) <= StackMax
    PROVE  /\ Push(s, r) \in Seq(Nat) /\ Push(s, r) # <<>> /\ Len(Push(s, r)) <= StackMax
           /\ \A i \in DOMAIN Push(s, r) :
                \/ Push(s, r)[i] = r /\ i = Len(Push(s, r))
                \/ i \in DOMAIN s /\ Push(s, r)[i] = s[i] /\ i < Len(Push(s, r))
           /\ Push(s, r)[Len(Push(s, r))] = r
  <1> DEFINE p == Push(s, r)
  <1>0. StackMax \in Nat \ {0} /\ Len(s) \in Nat
    BY FdMapAssumption
  <1>1. CASE Len(s) < StackMax
    <2>1. p = Append(s, r)
      BY <1>1 DEF Push
    <2> HIDE DEF p
    <2>2. p \in Seq(Nat) /\ Len(p) = Len(s) + 1 /\ DOMAIN p = 1 .. Len(s) + 1 /\ p[Len(s) + 1] = r
          /\ \A i \in 1 .. Len(s) : p[i] = s[i]
      BY <2>1, AppendProperties
    <2>3. p # <<>> /\ Len(p) <= StackMax
      BY <1>0, <1>1, <2>2
    <2>4. \A i \in DOMAIN p : (p[i] = r /\ i = Len(p)) \/ (i \in DOMAIN s /\ p[i] = s[i] /\ i < Len(p))
      BY <1>0, <2>2
    <2> QED
      BY <2>2, <2>3, <2>4 DEF p
  <1>2. CASE ~(Len(s) < StackMax)
    <2>1. p = [s EXCEPT ![Len(s)] = r]
      BY <1>2 DEF Push
    <2>2. Len(s) = StackMax /\ DOMAIN s = 1 .. Len(s)
      BY <1>0, <1>2
    <2> HIDE DEF p
    <2>3. p \in Seq(Nat) /\ Len(p) = Len(s) /\ DOMAIN p = 1 .. Len(s) /\ p[Len(s)] = r
          /\ \A i \in 1 .. Len(s) - 1 : p[i] = s[i]
      BY <1>0, <2>1, <2>2
    <2>4. p # <<>> /\ Len(p) <= StackMax
      BY <1>0, <2>2, <2>3
    <2>5. \A i \in DOMAIN p : (p[i] = r /\ i = Len(p)) \/ (i \in DOMAIN s /\ p[i] = s[i] /\ i < Len(p))
      BY <1>0, <2>2, <2>3
    <2> QED
      BY <2>3, <2>4, <2>5 DEF p
  <1> QED
    BY <1>1, <1>2

\* Closing takes the top off.
LEMMA WithoutTop ==
    ASSUME NEW s \in Seq(Nat), s # <<>>
    PROVE  LET t == Without(s, Last(s)) IN
           /\ t \in Seq(Nat) /\ Len(t) = Len(s) - 1
           /\ \A i \in 1 .. Len(s) - 1 : t[i] = s[i]
           /\ DOMAIN t = 1 .. Len(s) - 1
  <1> DEFINE n == Len(s)
  <1> DEFINE At == {i \in 1 .. n : s[i] = s[n] /\ \A j \in i + 1 .. n : s[j] # s[n]}
  <1>1. n \in Nat \ {0}
    BY EmptySeq
  <1>2. At = {n}
    BY <1>1
  <1>3. (CHOOSE i \in At : TRUE) = n
    BY <1>2
  <1>4. Without(s, Last(s)) = RemoveAt(s, n)
    BY <1>2, <1>3 DEF Without, Last
  <1>5. RemoveAt(s, n) = SubSeq(s, 1, n - 1) \o SubSeq(s, n + 1, n)
    BY DEF RemoveAt
  <1> DEFINE a == SubSeq(s, 1, n - 1)
  <1> DEFINE b == SubSeq(s, n + 1, n)
  <1>6. a \in Seq(Nat) /\ Len(a) = n - 1 /\ \A i \in 1 .. n - 1 : a[i] = s[i]
    <2>1. a \in Seq(Nat) /\ Len(a) = IF 1 <= n - 1 THEN n - 1 - 1 + 1 ELSE 0
      BY <1>1, SubSeqProperties
    <2>2. \A i \in 1 .. n - 1 - 1 + 1 : a[i] = s[1 + i - 1]
      BY <1>1, SubSeqProperties
    <2> HIDE DEF a, n
    <2>3. \A i \in 1 .. n - 1 : i \in 1 .. n - 1 - 1 + 1 /\ 1 + i - 1 = i
      BY <1>1
    <2> QED
      BY <1>1, <2>1, <2>2, <2>3
  <1>7. b \in Seq(Nat) /\ Len(b) = 0
    BY <1>1, SubSeqProperties
  <1> HIDE DEF a, b, n, At
  <1>8. a \o b \in Seq(Nat) /\ Len(a \o b) = Len(a) + Len(b)
        /\ \A i \in 1 .. Len(a) + Len(b) : (a \o b)[i] = IF i <= Len(a) THEN a[i] ELSE b[i - Len(a)]
    BY <1>6, <1>7, ConcatProperties
  <1> DEFINE t == a \o b
  <1> HIDE DEF t
  <1>9. t \in Seq(Nat) /\ Len(t) = n - 1 /\ \A i \in 1 .. n - 1 : t[i] = s[i]
    BY <1>1, <1>6, <1>7, <1>8 DEF t
  <1>10. DOMAIN t = 1 .. n - 1
    BY <1>9, <1>1
  <1> QED
    BY <1>4, <1>5, <1>9, <1>10 DEF t, a, b, n

\* A descriptor that resolves is the top of the stack of its bucket.
LEMMA Resolved ==
    ASSUME FdTypeOK, NEW c \in CapFds, resolve_fd(c) >= 0
    PROVE  \E k \in FdSlots :
             /\ Holder(c) = {k} /\ buckets[k].valid
             /\ buckets[k].stack \in Seq(Nat) /\ buckets[k].stack # <<>>
             /\ resolve_fd(c) = Last(buckets[k].stack)
  <1>1. resolve_fd(c) = fd_map_get(c)
    BY DEF resolve_fd
  <1>2. Holder(c) # {}
    BY <1>1 DEF fd_map_get
  <1>3. PICK k : k \in Holder(c)
    BY <1>2
  <1>4. Holder(c) = {k} /\ k \in FdSlots
    BY <1>3, OneStop
  <1>5. buckets[k].valid /\ buckets[k].stack \in Seq(Nat) /\ buckets[k].stack # <<>>
    BY <1>3, <1>4 DEF Holder, FdTypeOK
  <1>6. (CHOOSE x \in Holder(c) : TRUE) = k
    BY <1>4
  <1>7. fd_map_get(c) = Last(buckets[k].stack)
    BY <1>2, <1>5, <1>6 DEF fd_map_get
  <1> QED
    BY <1>1, <1>4, <1>5, <1>7

FilesInv == FdTypeOK /\ NamesOpenFilesOnce

\* What is mapped, read off the stacks.
LEMMA MappedIsStack ==
    ASSUME FdTypeOK
    PROVE  \A k \in FdSlots : /\ Mapped[k] = buckets[k].stack /\ Mapped[k] \in Seq(Nat)
                              /\ Len(Mapped[k]) \in Nat /\ DOMAIN Mapped[k] = 1 .. Len(Mapped[k])
  <1>1. \A k \in FdSlots : Mapped[k] = buckets[k].stack
    BY DEF Mapped, FdTypeOK
  <1>2. \A k \in FdSlots : buckets[k].stack \in Seq(Nat)
    BY DEF FdTypeOK
  <1> QED
    BY <1>1, <1>2

\* The invariant, once the stacks are: this form has no bucket records.
FilesOfStacks(st, open, old) ==
    /\ st \in [FdSlots -> Seq(Nat)]
    /\ \A k \in FdSlots : \A i \in DOMAIN st[k] : st[k][i] \in open \cup old
    /\ \A k, l \in FdSlots : \A i \in DOMAIN st[k], j \in DOMAIN st[l] :
         st[k][i] = st[l][j] => (k = l /\ i = j) \/ st[k][i] \in old

LEMMA StacksOf ==
    ASSUME NEW st \in [FdSlots -> Seq(Nat)], NEW open, NEW old
    PROVE  FilesOfStacks(st, open, old) <=>
             /\ \A k \in FdSlots : ToSet(st[k]) \subseteq open \cup old
             /\ \A k, l \in FdSlots : \A i \in DOMAIN st[k], j \in DOMAIN st[l] :
                  st[k][i] = st[l][j] => <<k, i>> = <<l, j>> \/ st[k][i] \in old
  <1>1. ASSUME NEW k \in FdSlots
        PROVE  ToSet(st[k]) \subseteq open \cup old <=> \A i \in DOMAIN st[k] : st[k][i] \in open \cup old
    BY DEF ToSet
  <1>2. (\A k \in FdSlots : ToSet(st[k]) \subseteq open \cup old)
          <=> (\A k \in FdSlots : \A i \in DOMAIN st[k] : st[k][i] \in open \cup old)
    BY <1>1
  <1>3. \A k, l, i, j : (<<k, i>> = <<l, j>>) <=> (k = l /\ i = j)
    OBVIOUS
  <1> QED
    BY <1>2, <1>3 DEF FilesOfStacks

LEMMA MappedTyped == FdTypeOK => Mapped \in [FdSlots -> Seq(Nat)]
  <1> SUFFICES ASSUME FdTypeOK PROVE Mapped \in [FdSlots -> Seq(Nat)]
    OBVIOUS
  <1>1. Mapped = [k \in FdSlots |-> IF buckets[k].valid THEN buckets[k].stack ELSE <<>>]
    BY DEF Mapped
  <1> QED
    BY <1>1, MappedIsStack

\* Pushing a descriptor that was not open, and taking a top off.
LEMMA StacksPush ==
    ASSUME NEW st, NEW open, NEW old, FilesOfStacks(st, open, old), NEW r \in Nat \ open,
           NEW b \in FdSlots, Len(st[b]) <= StackMax
    PROVE  /\ FilesOfStacks([st EXCEPT ![b] = Push(st[b], r)], open \cup {r}, old)
           /\ FilesOfStacks(st, open \cup {r}, old)
  <1> DEFINE p == Push(st[b], r)
  <1> DEFINE n == Len(p)
  <1>1. st \in [FdSlots -> Seq(Nat)]
    BY DEF FilesOfStacks
  <1>2. st[b] \in Seq(Nat)
    BY <1>1
  <1>3. /\ p \in Seq(Nat)
        /\ \A i \in DOMAIN p : (p[i] = r /\ i = n) \/ (i \in DOMAIN st[b] /\ p[i] = st[b][i] /\ i < n)
    BY <1>2, PushOne
  <1>4. /\ \A k \in FdSlots : \A i \in DOMAIN st[k] : st[k][i] \in open \cup old
        /\ \A k, l \in FdSlots : \A i \in DOMAIN st[k], j \in DOMAIN st[l] :
             st[k][i] = st[l][j] => (k = l /\ i = j) \/ st[k][i] \in old
    BY DEF FilesOfStacks
  <1> HIDE DEF p, n
  <1> DEFINE new == [st EXCEPT ![b] = p]
  <1>5. /\ new \in [FdSlots -> Seq(Nat)] /\ new[b] = p
        /\ \A k \in FdSlots : k # b => new[k] = st[k]
    BY <1>1, <1>3
  <1> HIDE DEF new
  <1>6. \A k \in FdSlots : \A i \in DOMAIN new[k] :
          \/ new[k][i] = r /\ k = b /\ i = n
          \/ i \in DOMAIN st[k] /\ new[k][i] = st[k][i] /\ st[k][i] \in open \cup old
    BY <1>3, <1>4, <1>5
  <1>7. \A k, l \in FdSlots : \A i \in DOMAIN new[k], j \in DOMAIN new[l] :
          new[k][i] = new[l][j] => (k = l /\ i = j) \/ new[k][i] \in old
    BY <1>4, <1>6
  <1>8. FilesOfStacks(new, open \cup {r}, old)
    BY <1>5, <1>6, <1>7 DEF FilesOfStacks
  <1>9. FilesOfStacks(st, open \cup {r}, old)
    BY <1>1, <1>4 DEF FilesOfStacks
  <1> QED
    BY <1>8, <1>9 DEF new, p

LEMMA StacksPop ==
    ASSUME NEW st, NEW open, NEW old, FilesOfStacks(st, open, old), NEW b \in FdSlots, st[b] # <<>>
    PROVE  FilesOfStacks([st EXCEPT ![b] = Without(st[b], Last(st[b]))], open \ {Last(st[b])}, old)
  <1> DEFINE r == Last(st[b])
  <1> DEFINE t == Without(st[b], r)
  <1> DEFINE n == Len(st[b])
  <1>1. st \in [FdSlots -> Seq(Nat)]
    BY DEF FilesOfStacks
  <1>2. st[b] \in Seq(Nat) /\ n \in Nat \ {0}
    BY <1>1, EmptySeq
  <1>3. t \in Seq(Nat) /\ DOMAIN t = 1 .. n - 1 /\ \A i \in 1 .. n - 1 : t[i] = st[b][i]
    BY <1>2, WithoutTop
  <1>4. /\ \A k \in FdSlots : \A i \in DOMAIN st[k] : st[k][i] \in open \cup old
        /\ \A k, l \in FdSlots : \A i \in DOMAIN st[k], j \in DOMAIN st[l] :
             st[k][i] = st[l][j] => (k = l /\ i = j) \/ st[k][i] \in old
    BY DEF FilesOfStacks
  <1>5. n \in DOMAIN st[b] /\ st[b][n] = r /\ DOMAIN st[b] = 1 .. n
    BY <1>2 DEF Last
  <1> HIDE DEF r, t, n
  <1> DEFINE new == [st EXCEPT ![b] = t]
  <1>6. /\ new \in [FdSlots -> Seq(Nat)] /\ new[b] = t
        /\ \A k \in FdSlots : k # b => new[k] = st[k]
    BY <1>1, <1>3
  <1> HIDE DEF new
  <1>7. \A k \in FdSlots : \A i \in DOMAIN new[k] :
          i \in DOMAIN st[k] /\ new[k][i] = st[k][i] /\ ~(k = b /\ i = n)
    <2>1. \A i \in 1 .. n - 1 : i \in 1 .. n /\ i # n
      BY <1>2
    <2> QED
      BY <1>3, <1>5, <1>6, <2>1
  <1>8. \A k \in FdSlots : \A i \in DOMAIN new[k] : new[k][i] \in (open \ {r}) \cup old
    BY <1>4, <1>5, <1>7
  <1>9. \A k, l \in FdSlots : \A i \in DOMAIN new[k], j \in DOMAIN new[l] :
          new[k][i] = new[l][j] => (k = l /\ i = j) \/ new[k][i] \in old
    BY <1>4, <1>7
  <1>10. FilesOfStacks(new, open \ {r}, old)
    BY <1>6, <1>8, <1>9 DEF FilesOfStacks
  <1> QED
    BY <1>10 DEF new, t, r

Bucket == [captured_fd : Int, stack : Seq(Nat), valid : BOOLEAN]

LEMMA SetFd ==
    ASSUME FdTypeOK, NEW c \in CapFds, NEW r \in Nat, buckets' = fd_map_set(c, r)
    PROVE  \/ StopsAt(c) = {} /\ buckets' = buckets
           \/ \E b \in FdSlots :
                /\ StopsAt(c) = {b}
                /\ ~buckets[b].valid \/ buckets[b].captured_fd = c
                /\ buckets' = [buckets EXCEPT ![b] =
                     [captured_fd |-> c, valid |-> TRUE, stack |-> Push(buckets[b].stack, r)]]
  <1>1. buckets \in [FdSlots -> Bucket]
    BY DEF FdTypeOK, Bucket
  <1>2. buckets' = [k \in FdSlots |->
          IF k \notin StopsAt(c) THEN buckets[k]
          ELSE [captured_fd |-> c, valid |-> TRUE, stack |-> Push(buckets[k].stack, r)]]
    BY DEF fd_map_set
  <1>3. CASE StopsAt(c) = {}
    BY <1>1, <1>2, <1>3
  <1>4. CASE StopsAt(c) # {}
    <2>1. PICK b : b \in StopsAt(c)
      BY <1>4
    <2>2. StopsAt(c) = {b} /\ b \in FdSlots /\ (~buckets[b].valid \/ buckets[b].captured_fd = c)
      BY <2>1, OneStop
    <2> QED
      BY <1>1, <1>2, <2>2
  <1> QED
    BY <1>3, <1>4

LEMMA ClearFd ==
    ASSUME FdTypeOK, NEW c \in CapFds, resolve_fd(c) >= 0,
           buckets' = fd_map_clear_fd(c, resolve_fd(c))
    PROVE  \E b \in FdSlots :
             /\ Holder(c) = {b} /\ buckets[b].valid /\ buckets[b].captured_fd = c
             /\ buckets[b].stack \in Seq(Nat) /\ buckets[b].stack # <<>>
             /\ resolve_fd(c) = Last(buckets[b].stack)
             /\ LET s == Without(buckets[b].stack, Last(buckets[b].stack)) IN
                  buckets' = [buckets EXCEPT ![b] =
                     [captured_fd |-> c, stack |-> s, valid |-> s # <<>>]]
  <1>1. buckets \in [FdSlots -> Bucket]
    BY DEF FdTypeOK, Bucket
  <1>2. PICK b \in FdSlots : /\ Holder(c) = {b} /\ buckets[b].valid
                             /\ buckets[b].stack \in Seq(Nat) /\ buckets[b].stack # <<>>
                             /\ resolve_fd(c) = Last(buckets[b].stack)
    BY Resolved
  <1>3. buckets[b].captured_fd = c
    BY <1>2, OneStop
  <1>4. buckets' = [k \in FdSlots |->
          IF k # b THEN buckets[k]
          ELSE LET t == Without(buckets[k].stack, Last(buckets[b].stack))
               IN  [captured_fd |-> c, stack |-> t, valid |-> t # <<>>]]
    BY <1>2 DEF fd_map_clear_fd
  <1> DEFINE s == Without(buckets[b].stack, Last(buckets[b].stack))
  <1> DEFINE e == [captured_fd |-> c, stack |-> s, valid |-> s # <<>>]
  <1>5. buckets' = [k \in FdSlots |-> IF k # b THEN buckets[k] ELSE e]
    BY <1>4
  <1>6. buckets' = [buckets EXCEPT ![b] = e]
    <2> HIDE DEF e
    <2> QED
      BY <1>1, <1>5
  <1> QED
    BY <1>2, <1>3, <1>6

\* A bucket that is written with a stack and is valid as long as the stack
\* has something.
LEMMA WriteBucket ==
    ASSUME FdTypeOK, NEW b \in FdSlots, NEW c \in Int, NEW s \in Seq(Nat), Len(s) <= StackMax,
           NEW v \in BOOLEAN, v <=> s # <<>>, kernel' \subseteq 0 .. MaxOpen,
           buckets' = [buckets EXCEPT ![b] = [captured_fd |-> c, stack |-> s, valid |-> v]]
    PROVE  FdTypeOK' /\ Mapped' = [Mapped EXCEPT ![b] = s]
  <1>1. buckets \in [FdSlots -> Bucket]
    BY DEF FdTypeOK, Bucket
  <1>2. [captured_fd |-> c, stack |-> s, valid |-> v] \in Bucket
    BY DEF Bucket
  <1>3. buckets' \in [FdSlots -> Bucket]
    BY <1>1, <1>2
  <1>4. /\ buckets'[b].stack = s /\ buckets'[b].valid = v
        /\ \A k \in FdSlots : k # b => buckets'[k] = buckets[k]
    BY <1>1
  <1>5. FdTypeOK'
    BY <1>3, <1>4 DEF FdTypeOK, Bucket
  <1>6. \A k \in FdSlots : Mapped'[k] = IF k = b THEN s ELSE Mapped[k]
    BY <1>4, <1>5, MappedIsStack DEF Mapped
  <1>7. Mapped' = [k \in FdSlots |-> IF k = b THEN s ELSE Mapped[k]]
    BY <1>6 DEF Mapped
  <1>8. [Mapped EXCEPT ![b] = s] = [k \in FdSlots |-> IF k = b THEN s ELSE Mapped[k]]
    BY DEF Mapped
  <1> QED
    BY <1>5, <1>7, <1>8

LEMMA FilesOpen ==
    ASSUME FilesInv, NEW c \in CapFds, NEW r \in 0 .. MaxOpen, r \notin kernel,
           kernel' = kernel \cup {r}, stale' = stale, buckets' = fd_map_set(c, r) \/ buckets' = buckets
    PROVE  FilesInv'
  <1>1. FdTypeOK /\ FilesOfStacks(Mapped, kernel, stale)
    BY MappedTyped, StacksOf DEF FilesInv, NamesOpenFilesOnce
  <1>2. r \in Nat \ kernel /\ kernel' \subseteq 0 .. MaxOpen /\ c \in Int
    BY <1>1, FdMapAssumption DEF FdTypeOK
  <1>3. CASE buckets' = buckets
    <2>1. FdTypeOK'
      BY <1>1, <1>2, <1>3 DEF FdTypeOK
    <2>2. Mapped' = Mapped
      BY <1>3 DEF Mapped
    <2>3. FilesOfStacks(Mapped, kernel', stale)
      BY <1>1 DEF FilesOfStacks
    <2>4. NamesOpenFilesOnce' <=> FilesOfStacks(Mapped, kernel', stale)
      <3>1. Mapped' \in [FdSlots -> Seq(Nat)]
        BY <1>1, <2>2, MappedTyped
      <3>2. NamesOpenFilesOnce' <=> FilesOfStacks(Mapped', kernel', stale)
        BY <3>1, StacksOf DEF NamesOpenFilesOnce
      <3> QED
        BY <3>2, <2>2
    <2> QED
      BY <2>1, <2>3, <2>4 DEF FilesInv
  <1>4. CASE \E b \in FdSlots :
               buckets' = [buckets EXCEPT ![b] =
                 [captured_fd |-> c, valid |-> TRUE, stack |-> Push(buckets[b].stack, r)]]
    <2>1. PICK b \in FdSlots :
               buckets' = [buckets EXCEPT ![b] =
                 [captured_fd |-> c, valid |-> TRUE, stack |-> Push(buckets[b].stack, r)]]
      BY <1>4
    <2>2. /\ buckets[b].stack \in Seq(Nat) /\ Len(buckets[b].stack) <= StackMax
          /\ Mapped[b] = buckets[b].stack
      BY <1>1, MappedIsStack DEF FdTypeOK
    <2>3. PICK s : s = Push(buckets[b].stack, r)
      OBVIOUS
    <2>4. s \in Seq(Nat) /\ s # <<>> /\ Len(s) <= StackMax
      BY <1>2, <2>2, <2>3, PushOne
    <2>5. FdTypeOK' /\ Mapped' = [Mapped EXCEPT ![b] = s]
      BY <1>1, <1>2, <2>1, <2>3, <2>4, WriteBucket
    <2>6. FilesOfStacks([Mapped EXCEPT ![b] = Push(Mapped[b], r)], kernel \cup {r}, stale)
      BY <1>1, <1>2, <2>2, StacksPush
    <2>7. FilesOfStacks(Mapped', kernel', stale)
      BY <2>2, <2>3, <2>5, <2>6
    <2>8. NamesOpenFilesOnce' <=> FilesOfStacks(Mapped', kernel', stale)
      <3>1. Mapped' \in [FdSlots -> Seq(Nat)]
        BY <1>1, <2>4, <2>5, MappedTyped
      <3> QED
        BY <3>1, StacksOf DEF NamesOpenFilesOnce
    <2> QED
      BY <2>5, <2>7, <2>8 DEF FilesInv
  <1> QED
    BY <1>1, <1>2, <1>3, <1>4, SetFd

\* A close that fails: its number is stale, and the map is left alone.
LEMMA FilesCloseFails ==
    ASSUME FilesInv, NEW c \in CapFds, kernel' = kernel \ {resolve_fd(c)}, stale' = stale \cup {resolve_fd(c)},
           buckets' = buckets
    PROVE  FilesInv'
  <1>1. FdTypeOK /\ FilesOfStacks(Mapped, kernel, stale)
    BY MappedTyped, StacksOf DEF FilesInv, NamesOpenFilesOnce
  <1>2. FdTypeOK'
    BY <1>1 DEF FdTypeOK
  <1>3. Mapped' = Mapped
    BY DEF Mapped
  <1>4. FilesOfStacks(Mapped, kernel', stale')
    BY <1>1 DEF FilesOfStacks
  <1>5. Mapped' \in [FdSlots -> Seq(Nat)]
    BY <1>1, <1>3, MappedTyped
  <1>6. NamesOpenFilesOnce' <=> FilesOfStacks(Mapped', kernel', stale')
    <2>1. PICK open, old : open = kernel' /\ old = stale'
      OBVIOUS
    <2>2. FilesOfStacks(Mapped', open, old) <=>
             /\ \A k \in FdSlots : ToSet(Mapped'[k]) \subseteq open \cup old
             /\ \A k, l \in FdSlots : \A i \in DOMAIN Mapped'[k], j \in DOMAIN Mapped'[l] :
                  Mapped'[k][i] = Mapped'[l][j] => <<k, i>> = <<l, j>> \/ Mapped'[k][i] \in old
      BY <1>5, StacksOf
    <2> QED
      BY <2>1, <2>2 DEF NamesOpenFilesOnce
  <1> QED
    BY <1>2, <1>3, <1>4, <1>6 DEF FilesInv

LEMMA FilesClose ==
    ASSUME FilesInv, NEW c \in CapFds, Close(c)
    PROVE  FilesInv'
  <1>0. SUFFICES ASSUME buckets' = fd_map_clear_fd(c, resolve_fd(c)), stale' = stale PROVE FilesInv'
    BY FilesCloseFails DEF Close
  <1>1. FdTypeOK /\ FilesOfStacks(Mapped, kernel, stale)
    BY MappedTyped, StacksOf DEF FilesInv, NamesOpenFilesOnce
  <1>2. resolve_fd(c) >= 0 /\ buckets' = fd_map_clear_fd(c, resolve_fd(c))
        /\ kernel' = kernel \ {resolve_fd(c)}
    BY <1>0 DEF Close
  <1>3. PICK b \in FdSlots :
             /\ buckets[b].stack \in Seq(Nat) /\ buckets[b].stack # <<>>
             /\ resolve_fd(c) = Last(buckets[b].stack)
             /\ LET s == Without(buckets[b].stack, Last(buckets[b].stack)) IN
                  buckets' = [buckets EXCEPT ![b] =
                     [captured_fd |-> c, stack |-> s, valid |-> s # <<>>]]
    BY <1>1, <1>2, ClearFd
  <1>4. PICK s : s = Without(buckets[b].stack, Last(buckets[b].stack))
    OBVIOUS
  <1>5. s \in Seq(Nat) /\ Len(s) = Len(buckets[b].stack) - 1
    BY <1>3, <1>4, WithoutTop
  <1>6. Len(s) <= StackMax /\ c \in Int /\ kernel' \subseteq 0 .. MaxOpen /\ Mapped[b] = buckets[b].stack
    <2>1. Len(buckets[b].stack) <= StackMax /\ kernel \subseteq 0 .. MaxOpen /\ c \in Int
          /\ StackMax \in Nat
      BY <1>1, FdMapAssumption DEF FdTypeOK
    <2>2. Len(buckets[b].stack) \in Nat
      BY <1>3
    <2>3. Len(s) <= StackMax
      BY <1>5, <2>1, <2>2
    <2>4. Mapped[b] = buckets[b].stack
      BY <1>1, MappedIsStack
    <2> QED
      BY <1>2, <2>1, <2>3, <2>4
  <1>7. FdTypeOK' /\ Mapped' = [Mapped EXCEPT ![b] = s]
    BY <1>1, <1>3, <1>4, <1>5, <1>6, WriteBucket
  <1>8. FilesOfStacks([Mapped EXCEPT ![b] = Without(Mapped[b], Last(Mapped[b]))],
                      kernel \ {Last(Mapped[b])}, stale)
    BY <1>1, <1>3, <1>6, StacksPop
  <1>9. FilesOfStacks(Mapped', kernel', stale)
    BY <1>2, <1>3, <1>4, <1>6, <1>7, <1>8
  <1>10. NamesOpenFilesOnce' <=> FilesOfStacks(Mapped', kernel', stale)
    <2>1. Mapped' \in [FdSlots -> Seq(Nat)]
      BY <1>1, <1>5, <1>7, MappedTyped
    <2> QED
      BY <1>0, <2>1, StacksOf DEF NamesOpenFilesOnce
  <1> QED
    BY <1>7, <1>9, <1>10 DEF FilesInv

LEMMA FilesStep == FilesInv /\ [FdNext]_fdVars => FilesInv'
  <1> SUFFICES ASSUME FilesInv, [FdNext]_fdVars PROVE FilesInv'
    OBVIOUS
  <1>1. kernel \subseteq 0 .. MaxOpen
    BY DEF FilesInv, FdTypeOK
  <1>2. CASE UNCHANGED fdVars
    BY <1>2 DEF fdVars, FilesInv, FdTypeOK, NamesOpenFilesOnce, Mapped
  <1>3. ASSUME NEW c \in CapFds, Open(c) PROVE FilesInv'
    <2>1. LowestFree \in 0 .. MaxOpen /\ LowestFree \notin kernel
      BY <1>1, <1>3, FreeDescriptor DEF Open
    <2>2. PICK r \in 0 .. MaxOpen : r = LowestFree
      BY <2>1
    <2>3. kernel' = kernel \cup {r} /\ stale' = stale /\ buckets' = fd_map_set(c, r)
      BY <1>3, <2>2 DEF Open
    <2> QED
      BY <2>1, <2>2, <2>3, FilesOpen
  <1>4. ASSUME NEW c \in CapFds, NEW dirfd, OpenAt(c, dirfd) PROVE FilesInv'
    <2>1. LowestFree \in 0 .. MaxOpen /\ LowestFree \notin kernel
      BY <1>1, <1>4, FreeDescriptor DEF OpenAt
    <2>2. PICK r \in 0 .. MaxOpen : r = LowestFree
      BY <2>1
    <2>3. kernel' = kernel \cup {r} /\ stale' = stale /\ (buckets' = fd_map_set(c, r) \/ buckets' = buckets)
      BY <1>4, <2>2 DEF OpenAt
    <2> QED
      BY <2>1, <2>2, <2>3, FilesOpen
  <1>5. ASSUME NEW c \in CapFds, Close(c) PROVE FilesInv'
    BY <1>5, FilesClose
  <1> QED
    BY <1>2, <1>3, <1>4, <1>5 DEF FdNext, Use

LEMMA FilesStart == FdInit => FilesInv
  <1> SUFFICES ASSUME FdInit PROVE FilesInv
    OBVIOUS
  <1>1. buckets = [i \in FdSlots |-> NoEntry] /\ kernel = {}
    BY DEF FdInit
  <1>2. NoEntry \in [captured_fd : Int, stack : Seq(Nat), valid : BOOLEAN] /\ NoEntry.stack = <<>>
        /\ NoEntry.valid = FALSE
    BY DEF NoEntry
  <1>3. Len(NoEntry.stack) <= StackMax
    BY <1>2, FdMapAssumption
  <1>4. FdTypeOK
    BY <1>1, <1>2, <1>3 DEF FdTypeOK
  <1>5. \A k \in FdSlots : Mapped[k] = <<>> /\ ToSet(Mapped[k]) = {} /\ DOMAIN Mapped[k] = {}
    BY <1>1, <1>2 DEF Mapped, ToSet
  <1>6. NamesOpenFilesOnce
    BY <1>1, <1>5 DEF NamesOpenFilesOnce
  <1> QED
    BY <1>4, <1>6 DEF FilesInv

\* Whatever descriptors the capture returned, colliding in the table or not:
\* a mapping names descriptors that are open, and no descriptor is named by
\* two captured ones or twice by one, but for numbers whose close(2) failed.
THEOREM FilesNamedOnce == FdSpec => [](FdTypeOK /\ NamesOpenFilesOnce)
  <1>1. FilesInv <=> FdTypeOK /\ NamesOpenFilesOnce
    BY DEF FilesInv
  <1> QED
    BY <1>1, FilesStart, FilesStep, PTL DEF FdSpec

\* A descriptor's probe sequence ends in its own bucket when it is exact.
LEMMA StopsAtHome ==
    ASSUME FdTypeOK, NoCollision, OwnBuckets, NEW c \in CapFds
    PROVE  /\ StopsAt(c) = {Probe(c, 0)} /\ Probe(c, 0) \in FdSlots
           /\ buckets[Probe(c, 0)].stack = ideal[c]
           /\ buckets[Probe(c, 0)].valid => buckets[Probe(c, 0)].captured_fd = c
  <1>1. 0 \in FdSlots
    BY FdMapAssumption DEF FdSlots
  <1>2. /\ buckets[Probe(c, 0)].stack = ideal[c]
        /\ buckets[Probe(c, 0)].valid => buckets[Probe(c, 0)].captured_fd = c
    BY DEF OwnBuckets
  <1>3. Stops(c, 0)
    BY <1>2 DEF Stops
  <1>4. \A j \in 0 .. 0 - 1 : ~Stops(c, j)
    OBVIOUS
  <1>5. Probe(c, 0) \in StopsAt(c)
    BY <1>1, <1>3, <1>4 DEF StopsAt
  <1> QED
    BY <1>2, <1>5, OneStop

\* Then the top of the ideal stack is what the descriptor resolves to.
LEMMA HomeResolves ==
    ASSUME FdTypeOK, NoCollision, OwnBuckets
    PROVE  ResolvesLatest
  <1> SUFFICES ASSUME NEW c \in InRange
               PROVE  resolve_fd(c) = IF ideal[c] = <<>> THEN -1 ELSE Last(ideal[c])
    BY DEF ResolvesLatest
  <1>1. c \in CapFds /\ resolve_fd(c) = fd_map_get(c)
    BY DEF InRange, resolve_fd
  <1>2. PICK b \in FdSlots : StopsAt(c) = {b} /\ buckets[b].stack = ideal[c]
    BY <1>1, StopsAtHome
  <1>3. buckets[b].valid <=> ideal[c] # <<>>
    BY <1>2 DEF FdTypeOK
  <1>4. CASE buckets[b].valid
    <2>1. Holder(c) = {b}
      BY <1>2, <1>4 DEF Holder
    <2>2. (CHOOSE k \in Holder(c) : TRUE) = b
      BY <2>1
    <2> QED
      BY <1>1, <1>2, <1>3, <1>4, <2>1, <2>2 DEF fd_map_get
  <1>5. CASE ~buckets[b].valid
    <2>1. Holder(c) = {}
      BY <1>2, <1>5 DEF Holder
    <2> QED
      BY <1>1, <1>3, <1>5, <2>1 DEF fd_map_get
  <1> QED
    BY <1>4, <1>5

OwnInv == FdTypeOK /\ NamesOpenFilesOnce /\ ideal \in [CapFds -> Seq(Nat)] /\ OwnBuckets

\* The bucket of one descriptor is written, and its ideal stack likewise.
LEMMA OwnWrite ==
    ASSUME OwnInv, NoCollision, NEW c \in CapFds, NEW s, NEW v,
           buckets' = [buckets EXCEPT ![Probe(c, 0)] = [captured_fd |-> c, stack |-> s, valid |-> v]],
           ideal' = [ideal EXCEPT ![c] = s]
    PROVE  OwnBuckets'
  <1>1. Probe(c, 0) \in FdSlots /\ \A d \in CapFds : Probe(d, 0) \in FdSlots
    <2>1. 0 \in FdSlots
      BY FdMapAssumption DEF FdSlots
    <2> QED
      BY <2>1, OneStop
  <1>2. \A d \in CapFds : d # c => Probe(d, 0) # Probe(c, 0)
    BY DEF NoCollision
  <1>3. /\ buckets \in [FdSlots -> Bucket] /\ ideal \in [CapFds -> Seq(Nat)]
        /\ \A d \in CapFds : /\ buckets[Probe(d, 0)].stack = ideal[d]
                             /\ buckets[Probe(d, 0)].valid => buckets[Probe(d, 0)].captured_fd = d
    BY DEF OwnInv, FdTypeOK, Bucket, OwnBuckets
  <1>4. /\ buckets'[Probe(c, 0)].stack = s /\ buckets'[Probe(c, 0)].captured_fd = c /\ ideal'[c] = s
        /\ \A d \in CapFds : d # c => buckets'[Probe(d, 0)] = buckets[Probe(d, 0)] /\ ideal'[d] = ideal[d]
    BY <1>1, <1>2, <1>3
  <1>5. \A d \in CapFds : /\ buckets'[Probe(d, 0)].stack = ideal'[d]
                          /\ buckets'[Probe(d, 0)].valid => buckets'[Probe(d, 0)].captured_fd = d
    BY <1>3, <1>4
  <1> QED
    BY <1>5 DEF OwnBuckets, Probe

LEMMA OwnOpen ==
    ASSUME OwnInv, NoCollision, NEW c \in CapFds, NEW r \in Nat,
           buckets' = fd_map_set(c, r), ideal' = [ideal EXCEPT ![c] = Push(ideal[c], r)]
    PROVE  OwnBuckets' /\ ideal' \in [CapFds -> Seq(Nat)]
  <1>1. FdTypeOK /\ OwnBuckets /\ ideal \in [CapFds -> Seq(Nat)]
    BY DEF OwnInv
  <1>2. StopsAt(c) = {Probe(c, 0)} /\ Probe(c, 0) \in FdSlots /\ buckets[Probe(c, 0)].stack = ideal[c]
    BY <1>1, StopsAtHome
  <1>3. PICK b \in FdSlots :
          /\ StopsAt(c) = {b}
          /\ buckets' = [buckets EXCEPT ![b] =
               [captured_fd |-> c, valid |-> TRUE, stack |-> Push(buckets[b].stack, r)]]
    BY <1>1, <1>2, SetFd
  <1>4. b = Probe(c, 0) /\ buckets[b].stack = ideal[c]
    BY <1>2, <1>3
  <1>5. PICK s : s = Push(ideal[c], r)
    OBVIOUS
  <1>6. buckets' = [buckets EXCEPT ![Probe(c, 0)] = [captured_fd |-> c, stack |-> s, valid |-> TRUE]]
    BY <1>3, <1>4, <1>5
  <1>7. OwnBuckets'
    BY <1>5, <1>6, OwnWrite
  <1>8. ideal[c] \in Seq(Nat) /\ Len(ideal[c]) <= StackMax
    BY <1>1, <1>3, <1>4 DEF FdTypeOK
  <1>9. Push(ideal[c], r) \in Seq(Nat)
    BY <1>8, PushOne
  <1> QED
    BY <1>1, <1>7, <1>9

LEMMA OwnClose ==
    ASSUME OwnInv, NoCollision, NEW c \in CapFds, resolve_fd(c) >= 0,
           buckets' = fd_map_clear_fd(c, resolve_fd(c)), ideal' = [ideal EXCEPT ![c] = Without(@, resolve_fd(c))]
    PROVE  OwnBuckets' /\ ideal' \in [CapFds -> Seq(Nat)]
  <1>1. FdTypeOK /\ OwnBuckets /\ ideal \in [CapFds -> Seq(Nat)]
    BY DEF OwnInv
  <1>2. StopsAt(c) = {Probe(c, 0)} /\ buckets[Probe(c, 0)].stack = ideal[c]
    BY <1>1, StopsAtHome
  <1>3. PICK b \in FdSlots :
             /\ Holder(c) = {b}
             /\ buckets[b].stack \in Seq(Nat) /\ buckets[b].stack # <<>>
             /\ resolve_fd(c) = Last(buckets[b].stack)
             /\ LET s == Without(buckets[b].stack, Last(buckets[b].stack)) IN
                  buckets' = [buckets EXCEPT ![b] =
                     [captured_fd |-> c, stack |-> s, valid |-> s # <<>>]]
    BY <1>1, ClearFd
  <1>4. b = Probe(c, 0) /\ buckets[b].stack = ideal[c]
    BY <1>2, <1>3 DEF Holder
  <1>5. PICK s : s = Without(ideal[c], Last(ideal[c]))
    OBVIOUS
  <1>6. buckets' = [buckets EXCEPT ![Probe(c, 0)] = [captured_fd |-> c, stack |-> s, valid |-> s # <<>>]]
    BY <1>3, <1>4, <1>5
  <1>7. ideal' = [ideal EXCEPT ![c] = s]
    BY <1>3, <1>4, <1>5
  <1>8. OwnBuckets'
    BY <1>6, <1>7, OwnWrite
  <1>9. s \in Seq(Nat)
    BY <1>3, <1>4, <1>5, WithoutTop
  <1> QED
    BY <1>1, <1>7, <1>8, <1>9

\* When no two captured descriptors have one bucket, every captured
\* descriptor resolves to the file it was opened for last.
THEOREM LatestResolved == NoCollision => (FdSpec => []DescriptorsResolve)
  <1> SUFFICES ASSUME NoCollision PROVE FdSpec => []DescriptorsResolve
    OBVIOUS
  <1>1. FdInit => OwnInv
    <2> SUFFICES ASSUME FdInit PROVE OwnInv
      OBVIOUS
    <2>1. FdTypeOK /\ NamesOpenFilesOnce
      BY FilesStart DEF FilesInv
    <2>2. ideal \in [CapFds -> Seq(Nat)]
      BY DEF FdInit
    <2>3. OwnBuckets
      <3>1. \A d \in CapFds : Probe(d, 0) \in FdSlots
        <4>1. 0 \in FdSlots
          BY FdMapAssumption DEF FdSlots
        <4> QED
          BY <4>1, OneStop
      <3> QED
        BY <3>1 DEF FdInit, OwnBuckets, NoEntry
    <2> QED
      BY <2>1, <2>2, <2>3 DEF OwnInv
  <1>2. OwnInv /\ [FdNext]_fdVars => OwnInv'
    <2> SUFFICES ASSUME OwnInv, [FdNext]_fdVars PROVE OwnInv'
      OBVIOUS
    <2>1. FdTypeOK' /\ NamesOpenFilesOnce'
      BY FilesStep DEF OwnInv, FilesInv
    <2>2. kernel \subseteq 0 .. MaxOpen /\ MaxOpen \in Nat
      BY FdMapAssumption DEF OwnInv, FdTypeOK
    <2>3. CASE UNCHANGED <<buckets, ideal>>
      BY <2>1, <2>3 DEF OwnInv, OwnBuckets
    <2>4. ASSUME NEW c \in CapFds, Cardinality(kernel) < MaxOpen,
                 buckets' = fd_map_set(c, LowestFree),
                 ideal' = [ideal EXCEPT ![c] = Push(@, LowestFree)]
          PROVE  OwnInv'
      <3>1. LowestFree \in 0 .. MaxOpen
        BY <2>2, <2>4, FreeDescriptor
      <3>2. PICK r \in Nat : r = LowestFree
        BY <2>2, <3>1
      <3>3. buckets' = fd_map_set(c, r) /\ ideal' = [ideal EXCEPT ![c] = Push(ideal[c], r)]
        BY <2>4, <3>2
      <3> QED
        BY <2>1, <3>3, OwnOpen DEF OwnInv
    <2>5. ASSUME NEW c \in CapFds, Close(c) PROVE OwnInv'
      <3>1. CASE UNCHANGED <<buckets, ideal>>
        BY <2>3, <3>1
      <3>2. CASE /\ resolve_fd(c) >= 0 /\ buckets' = fd_map_clear_fd(c, resolve_fd(c))
                 /\ ideal' = [ideal EXCEPT ![c] = Without(@, resolve_fd(c))]
        BY <2>1, <3>2, OwnClose DEF OwnInv
      <3> QED
        BY <2>5, <3>1, <3>2 DEF Close
    <2> QED
      BY <2>3, <2>4, <2>5 DEF FdNext, fdVars, Open, OpenAt, Use
  <1>3. OwnInv => DescriptorsResolve
    BY HomeResolves DEF OwnInv, DescriptorsResolve
  <1> QED
    BY <1>1, <1>2, <1>3, PTL DEF FdSpec

----------------------------------------------------------------------------
(* The tables of mmap.                                                     *)

Steps == ExitSteps \cup {"unmap", "erase"}
Addresses == {AddrOf[c] : c \in Calls}

\* The type of busy, as it is used.
BusyTyped ==
    /\ busy = [p \in Pids |-> busy[p]]
    /\ \A p \in Pids : busy[p] # None =>
         IF busy[p].step \in ExitSteps THEN busy[p] \in ExitWork ELSE busy[p] \in UnmapWork

LEMMA BusyFields ==
    ASSUME MmapTypeOK, NEW p \in Pids, busy[p] # None
    PROVE  /\ busy[p].call \in Calls /\ busy[p].step \in Steps
           /\ busy[p] = [call |-> busy[p].call, step |-> busy[p].step, val |-> busy[p].val]
           /\ busy[p].step \in ExitSteps => busy[p].val \in PendingEntries
           /\ busy[p].step \notin ExitSteps => busy[p].val \in Addresses
  <1>1. CASE busy[p].step \in ExitSteps
    <2>1. busy[p] \in ExitWork
      BY <1>1 DEF MmapTypeOK
    <2> QED
      BY <1>1, <2>1 DEF ExitWork, Steps
  <1>2. CASE busy[p].step \notin ExitSteps
    <2>1. busy[p] \in UnmapWork
      BY <1>2 DEF MmapTypeOK
    <2> QED
      BY <1>2, <2>1 DEF UnmapWork, Steps, Addresses
  <1> QED
    BY <1>1, <1>2

\* A worker moves on to another step of the same call.
LEMMA NextStep ==
    ASSUME MmapTypeOK, NEW p \in Pids, busy[p] # None, NEW s \in Steps,
           s \in ExitSteps <=> busy[p].step \in ExitSteps,
           busy' = [busy EXCEPT ![p].step = s]
    PROVE  /\ busy'[p] # None /\ busy'[p].call = busy[p].call /\ busy'[p].step = s
           /\ busy'[p].val = busy[p].val
           /\ \A q \in Pids : q # p => busy'[q] = busy[q]
           /\ BusyTyped'
  <1> DEFINE r == [call |-> busy[p].call, step |-> s, val |-> busy[p].val]
  <1>0. busy = [q \in Pids |-> busy[q]]
    BY DEF MmapTypeOK
  <1>1. /\ busy[p].call \in Calls
        /\ busy[p] = [call |-> busy[p].call, step |-> busy[p].step, val |-> busy[p].val]
        /\ busy[p].step \in ExitSteps => busy[p].val \in PendingEntries
        /\ busy[p].step \notin ExitSteps => busy[p].val \in Addresses
    BY BusyFields
  <1>2. [busy[p] EXCEPT !.step = s] = r
    <2>1. ASSUME NEW a, NEW b, NEW c
          PROVE  [[call |-> a, step |-> b, val |-> c] EXCEPT !.step = s] = [call |-> a, step |-> s, val |-> c]
      OBVIOUS
    <2> QED
      BY <1>1, <2>1
  <1>3. busy' = [busy EXCEPT ![p] = r]
    <2>1. busy' = [busy EXCEPT ![p] = [busy[p] EXCEPT !.step = s]]
      OBVIOUS
    <2> QED
      BY <1>2, <2>1
  <1>4. r.call = busy[p].call /\ r.step = s /\ r.val = busy[p].val
    OBVIOUS
  <1>5. IF s \in ExitSteps THEN r \in ExitWork ELSE r \in UnmapWork
    BY <1>1 DEF ExitWork, UnmapWork, Steps, Addresses
  <1>6. r # None
    BY <1>5, NoneAssumption
  <1> HIDE DEF r
  <1>7. busy'[p] = r /\ (\A q \in Pids : q # p => busy'[q] = busy[q]) /\ busy' = [q \in Pids |-> busy'[q]]
    BY <1>0, <1>3
  <1>8. \A q \in Pids : busy[q] # None =>
          IF busy[q].step \in ExitSteps THEN busy[q] \in ExitWork ELSE busy[q] \in UnmapWork
    BY DEF MmapTypeOK
  <1>9. \A q \in Pids : busy'[q] # None =>
          IF busy'[q].step \in ExitSteps THEN busy'[q] \in ExitWork ELSE busy'[q] \in UnmapWork
    BY <1>4, <1>5, <1>7, <1>8
  <1> QED
    BY <1>4, <1>6, <1>7, <1>9 DEF BusyTyped

\* A worker begins with the records of a call, or is done with them.
LEMMA WorkSet ==
    ASSUME MmapTypeOK, NEW p \in Pids, NEW r,
           r = None \/ (IF r.step \in ExitSteps THEN r \in ExitWork ELSE r \in UnmapWork),
           busy' = [busy EXCEPT ![p] = r]
    PROVE  busy'[p] = r /\ (\A q \in Pids : q # p => busy'[q] = busy[q]) /\ BusyTyped'
  <1>0. busy = [q \in Pids |-> busy[q]]
    BY DEF MmapTypeOK
  <1>1. busy'[p] = r /\ (\A q \in Pids : q # p => busy'[q] = busy[q]) /\ busy' = [q \in Pids |-> busy'[q]]
    BY <1>0
  <1>2. \A q \in Pids : busy[q] # None =>
          IF busy[q].step \in ExitSteps THEN busy[q] \in ExitWork ELSE busy[q] \in UnmapWork
    BY DEF MmapTypeOK
  <1> QED
    BY <1>1, <1>2 DEF BusyTyped

LEMMA BeginExit ==
    ASSUME NEW c \in Calls, NEW v \in PendingEntries
    PROVE  LET r == [call |-> c, step |-> "clear", val |-> v] IN
           r \in ExitWork /\ r # None /\ r.call = c /\ r.step = "clear" /\ r.val = v
  <1>1. [call |-> c, step |-> "clear", val |-> v] \in ExitWork
    BY DEF ExitWork, ExitSteps
  <1> QED
    BY <1>1, NoneAssumption

LEMMA BeginUnmap ==
    ASSUME NEW c \in Calls, NEW a \in Addresses
    PROVE  LET r == [call |-> c, step |-> "unmap", val |-> a] IN
           r \in UnmapWork /\ r # None /\ r.call = c /\ r.step = "unmap" /\ r.val = a
  <1>1. [call |-> c, step |-> "unmap", val |-> a] \in UnmapWork
    BY DEF UnmapWork, Addresses
  <1> QED
    BY <1>1, NoneAssumption

LEMMA Found ==
    ASSUME MmapTypeOK, NEW c \in Calls, NEW i \in FindSlot(c)
    PROVE  i \in PSlots /\ pending[i] \in PendingEntries /\ pending[i].call = c
  <1>1. PICK j \in PSlots : i = PProbe(c, j) /\ pending[i] # None /\ pending[i].call = c
    BY DEF FindSlot
  <1>2. i \in PSlots
    <2>1. SlotOf[c] \in Int /\ PendingSize \in Nat \ {0} /\ j \in Int
      BY MmapAssumption, <1>1 DEF PSlots
    <2> QED
      BY <1>1, <2>1 DEF PProbe, PSlots
  <1>3. pending[i] \in PendingEntries
    BY <1>1, <1>2 DEF MmapTypeOK
  <1> QED
    BY <1>1, <1>2, <1>3

StageTyped == stage \in [Calls -> Stages]

\* The kinds of step, by what they do to the stages, the workers and the
\* mappings; the pending table is left to the type invariant.
Entering ==
    \E c \in Calls : /\ stage[c] \in {"new", "entered", "refused"} /\ Idle(c)
                     /\ \E s \in {"entered", "refused", "skipped"} : stage' = [stage EXCEPT ![c] = s]
                     /\ UNCHANGED <<table, live, busy>>
Getting ==
    \E c \in Calls, v \in PendingEntries :
        /\ stage[c] \in {"entered", "refused"} /\ Idle(c) /\ v.call = c
        /\ busy' = [busy EXCEPT ![PidOf[c]] = [call |-> c, step |-> "clear", val |-> v]]
        /\ UNCHANGED <<table, live, stage>>
Looking ==
    \E c \in Calls, i \in MSlots :
        /\ Idle(c) /\ table[i] # None /\ table[i].addr = AddrOf[c] /\ AddrOf[c] # None
        /\ busy' = [busy EXCEPT ![PidOf[c]] = [call |-> table[i].call, step |-> "unmap", val |-> AddrOf[c]]]
        /\ UNCHANGED <<table, live, stage>>

\* A worker goes on to the next step of its call.
Moving(p) ==
    /\ busy[p] # None /\ UNCHANGED <<table, stage>>
    /\ \/ /\ busy[p].step = "clear" /\ busy' = [busy EXCEPT ![p].step = "map"] /\ live' = live
       \/ /\ busy[p].step = "map" /\ busy' = [busy EXCEPT ![p].step = "set"]
          /\ live' = live \cup {busy[p].call}
       \/ /\ busy[p].step = "unmap" /\ busy' = [busy EXCEPT ![p].step = "erase"]
          /\ live' = live \ {busy[p].call}

\* A worker is done with a call that it has not mapped or not unmapped.
Leaving(p) ==
    /\ busy[p] # None /\ UNCHANGED table /\ busy' = [busy EXCEPT ![p] = None]
    /\ \/ /\ busy[p].step \in {"clear", "map"} /\ live' = live
          /\ \E s \in {"skipped", "failed"} : stage' = [stage EXCEPT ![busy[p].call] = s]
       \/ /\ busy[p].step = "unmap" /\ live' = live /\ stage' = stage

\* Every step is of one of these kinds, ends an exit record or an munmap
\* record, or leaves the stages, the workers and the mappings alone.
LEMMA Kinds ==
    ASSUME MmapTypeOK, [MmapNext]_mmapVars
    PROVE  \/ Entering \/ Getting \/ Looking
           \/ UNCHANGED <<stage, busy, table, live>>
           \/ \E p \in Pids : \/ Moving(p) \/ Leaving(p) \/ MunmapErase(p)
                              \/ MmapExitSet(p) \/ MmapExitFull(p) \/ MmapExitNoAddr(p)
  <1>1. ASSUME NEW c \in Calls, MmapEntry(c) PROVE Entering
    BY <1>1 DEF MmapEntry, Entering
  <1>2. ASSUME NEW c \in Calls, MmapEntryRefuse(c) PROVE Entering
    BY <1>2 DEF MmapEntryRefuse, Entering
  <1>3. ASSUME NEW c \in Calls, MmapExitSkip(c) PROVE Entering
    BY <1>3 DEF MmapExitSkip, Entering
  <1>4. ASSUME NEW c \in Calls, MmapExitGet(c) PROVE Getting
    <2>1. PICK i \in FindSlot(c) :
            busy' = [busy EXCEPT ![PidOf[c]] = [call |-> c, step |-> "clear", val |-> pending[i]]]
      BY <1>4 DEF MmapExitGet
    <2>2. pending[i] \in PendingEntries /\ pending[i].call = c
      BY Found
    <2> QED
      BY <1>4, <2>1, <2>2 DEF MmapExitGet, Getting
  <1>5. ASSUME NEW c \in Calls, MunmapGet(c) PROVE Looking
    BY <1>5 DEF MunmapGet, Looking, Entry
  <1>6. ASSUME NEW p \in Pids, MmapExitClear(p) \/ MmapExitMap(p) \/ MunmapDo(p)
        PROVE  Moving(p) \/ Leaving(p)
    BY <1>6 DEF MmapExitClear, MmapExitMap, MunmapDo, Moving, Leaving
  <1>7. UNCHANGED mmapVars => UNCHANGED <<stage, busy, table, live>>
    BY DEF mmapVars
  <1> QED
    BY <1>1, <1>2, <1>3, <1>4, <1>5, <1>6, <1>7 DEF MmapNext

\* What a kind does to its worker.
LEMMA GetsWork ==
    ASSUME MmapTypeOK, Getting
    PROVE  \E c \in Calls, p \in Pids :
             /\ p = PidOf[c] /\ busy[p] = None /\ stage[c] \in {"entered", "refused"}
             /\ busy'[p] # None /\ busy'[p].call = c /\ busy'[p].step = "clear" /\ busy'[p].val.call = c
             /\ \A q \in Pids : q # p => busy'[q] = busy[q]
             /\ UNCHANGED <<table, live, stage>> /\ BusyTyped'
  <1>1. PICK c \in Calls, v \in PendingEntries :
          /\ stage[c] \in {"entered", "refused"} /\ Idle(c) /\ v.call = c
          /\ busy' = [busy EXCEPT ![PidOf[c]] = [call |-> c, step |-> "clear", val |-> v]]
          /\ UNCHANGED <<table, live, stage>>
    BY DEF Getting
  <1>2. PICK r : r = [call |-> c, step |-> "clear", val |-> v]
    OBVIOUS
  <1>3. r \in ExitWork /\ r # None /\ r.call = c /\ r.step = "clear" /\ r.val = v /\ r.step \in ExitSteps
    BY <1>2, BeginExit DEF ExitSteps
  <1>4. PICK p \in Pids : p = PidOf[c]
    BY MmapAssumption
  <1>5. busy'[p] = r /\ (\A q \in Pids : q # p => busy'[q] = busy[q]) /\ BusyTyped'
    <2>1. busy' = [busy EXCEPT ![p] = r]
      BY <1>1, <1>2, <1>4
    <2> QED
      BY <1>3, <2>1, WorkSet
  <1> QED
    BY <1>1, <1>3, <1>4, <1>5 DEF Idle

LEMMA LooksUp ==
    ASSUME MmapTypeOK, Looking
    PROVE  \E c \in Calls, p \in Pids, i \in MSlots :
             /\ p = PidOf[c] /\ busy[p] = None /\ AddrOf[c] # None
             /\ table[i] # None /\ table[i].addr = AddrOf[c] /\ table[i].call \in Calls
             /\ busy'[p] # None /\ busy'[p].call = table[i].call /\ busy'[p].step = "unmap"
             /\ busy'[p].val = AddrOf[c]
             /\ \A q \in Pids : q # p => busy'[q] = busy[q]
             /\ UNCHANGED <<table, live, stage>> /\ BusyTyped'
  <1>1. PICK c \in Calls, i \in MSlots :
        /\ Idle(c) /\ table[i] # None /\ table[i].addr = AddrOf[c] /\ AddrOf[c] # None
        /\ busy' = [busy EXCEPT ![PidOf[c]] = [call |-> table[i].call, step |-> "unmap", val |-> AddrOf[c]]]
        /\ UNCHANGED <<table, live, stage>>
    BY DEF Looking
  <1>2. table[i].call \in Calls /\ AddrOf[c] \in Addresses
    BY <1>1 DEF MmapTypeOK, TableEntries, Addresses
  <1>3. PICK r : r = [call |-> table[i].call, step |-> "unmap", val |-> AddrOf[c]]
    OBVIOUS
  <1>4. r \in UnmapWork /\ r # None /\ r.call = table[i].call /\ r.step = "unmap" /\ r.val = AddrOf[c]
        /\ r.step \notin ExitSteps
    BY <1>2, <1>3, BeginUnmap DEF ExitSteps
  <1>5. PICK p \in Pids : p = PidOf[c]
    BY MmapAssumption
  <1>6. busy'[p] = r /\ (\A q \in Pids : q # p => busy'[q] = busy[q]) /\ BusyTyped'
    <2>1. busy' = [busy EXCEPT ![p] = r]
      BY <1>1, <1>3, <1>5
    <2> QED
      BY <1>4, <2>1, WorkSet
  <1> QED
    BY <1>1, <1>2, <1>4, <1>5, <1>6 DEF Idle

LEMMA MovesOn ==
    ASSUME MmapTypeOK, NEW p \in Pids, Moving(p)
    PROVE  /\ busy'[p] # None /\ busy'[p].call = busy[p].call /\ busy'[p].val = busy[p].val
           /\ \/ busy[p].step = "clear" /\ busy'[p].step = "map"
              \/ busy[p].step = "map" /\ busy'[p].step = "set"
              \/ busy[p].step = "unmap" /\ busy'[p].step = "erase"
           /\ \A q \in Pids : q # p => busy'[q] = busy[q]
           /\ BusyTyped'
  BY NextStep DEF Moving, Steps, ExitSteps

\* The worker is done: the others are where they were.
LEMMA DoneWith ==
    ASSUME MmapTypeOK, NEW p \in Pids, busy' = [busy EXCEPT ![p] = None]
    PROVE  busy'[p] = None /\ (\A q \in Pids : q # p => busy'[q] = busy[q]) /\ BusyTyped'
  BY WorkSet

LEMMA BusyStep ==
    ASSUME MmapTypeOK, [MmapNext]_mmapVars
    PROVE  BusyTyped' /\ StageTyped'
  <1>0. BusyTyped /\ stage \in [Calls -> Stages]
    BY DEF MmapTypeOK, BusyTyped
  <1>1. CASE Entering \/ UNCHANGED <<stage, busy, table, live>>
    BY <1>0, <1>1 DEF Entering, BusyTyped, StageTyped, Stages
  <1>2. CASE Getting \/ Looking
    <2>1. BusyTyped' /\ stage' = stage
      BY <1>2, GetsWork, LooksUp
    <2> QED
      BY <1>0, <2>1 DEF StageTyped
  <1>3. ASSUME NEW p \in Pids, Moving(p) PROVE BusyTyped' /\ StageTyped'
    BY <1>0, <1>3, MovesOn DEF Moving, StageTyped
  <1>4. ASSUME NEW p \in Pids, \/ Leaving(p) \/ MunmapErase(p) \/ MmapExitSet(p) \/ MmapExitFull(p)
                               \/ MmapExitNoAddr(p)
        PROVE  BusyTyped' /\ StageTyped'
    <2>1. BusyTyped'
      BY <1>4, DoneWith DEF Leaving, MunmapErase, MmapExitSet, MmapExitFull, MmapExitNoAddr
    <2>0. {"skipped", "failed", "unrecorded", "mapped", "replaced", "unmapped"} \subseteq Stages
      BY DEF Stages
    <2>2. CASE \/ stage' = stage
               \/ \E s \in {"skipped", "failed", "unrecorded"} : stage' = [stage EXCEPT ![busy[p].call] = s]
      BY <1>0, <2>0, <2>1, <2>2 DEF StageTyped
    <2>3. CASE MunmapErase(p)
      BY <1>0, <2>0, <2>1, <2>3 DEF MunmapErase, StageTyped
    <2>4. CASE MmapExitSet(p)
      <3>1. PICK m : stage' = [d \in Calls |-> CASE d = busy[p].call -> "mapped"
                                   [] d # busy[p].call /\ table[m] # None /\ table[m].call = d -> "replaced"
                                   [] OTHER -> stage[d]]
        BY <2>4 DEF MmapExitSet
      <3> QED
        BY <1>0, <2>0, <2>1, <3>1 DEF StageTyped
    <2> QED
      BY <1>4, <2>1, <2>2, <2>3, <2>4 DEF Leaving, MmapExitFull, MmapExitNoAddr
  <1> QED
    BY <1>1, <1>2, <1>3, <1>4, Kinds

LEMMA MmapTypeStep ==
    ASSUME MmapTypeOK, [MmapNext]_mmapVars
    PROVE  MmapTypeOK'
  <1>0. /\ pending \in [PSlots -> PendingEntries \cup {None}]
        /\ table \in [MSlots -> TableEntries \cup {None}] /\ live \subseteq Calls
    BY DEF MmapTypeOK
  <1>1. pending' \in [PSlots -> PendingEntries \cup {None}]
    <2>1. ASSUME NEW c \in Calls, MmapEntry(c)
          PROVE  pending' \in [PSlots -> PendingEntries \cup {None}]
      <3>1. [call |-> c] \in PendingEntries
        BY DEF PendingEntries
      <3> QED
        BY <1>0, <2>1, <3>1 DEF MmapEntry
    <2>2. ASSUME NEW p \in Pids, MmapExitClear(p)
          PROVE  pending' \in [PSlots -> PendingEntries \cup {None}]
      BY <1>0, <2>2 DEF MmapExitClear
    <2>3. CASE pending' = pending
      BY <1>0, <2>3
    <2> QED
      BY <2>1, <2>2, <2>3 DEF MmapNext, mmapVars, MmapEntryRefuse, MmapExitSkip, MmapExitGet,
         MmapExitMap, MmapExitSet, MmapExitFull, MmapExitNoAddr, MunmapGet, MunmapDo, MunmapErase
  <1>2. table' \in [MSlots -> TableEntries \cup {None}]
    <2>1. ASSUME NEW p \in Pids, MmapExitSet(p)
          PROVE  table' \in [MSlots -> TableEntries \cup {None}]
      <3> DEFINE e == [addr |-> AddrOf[busy[p].call], call |-> busy[p].call]
      <3>1. e \in TableEntries
        BY <2>1, BusyFields DEF MmapExitSet, TableEntries
      <3>2. \E m : table' = [table EXCEPT ![m] = e]
        BY <2>1 DEF MmapExitSet
      <3> HIDE DEF e
      <3> QED
        BY <1>0, <3>1, <3>2
    <2>2. ASSUME NEW p \in Pids, MunmapErase(p)
          PROVE  table' \in [MSlots -> TableEntries \cup {None}]
      BY <1>0, <2>2 DEF MunmapErase
    <2>3. CASE table' = table
      BY <1>0, <2>3
    <2> QED
      BY <2>1, <2>2, <2>3, Kinds DEF Entering, Getting, Looking, Moving, Leaving, MmapExitFull, MmapExitNoAddr
  <1>3. live' \subseteq Calls
    <2>1. ASSUME NEW p \in Pids, Moving(p) PROVE live' \subseteq Calls
      BY <1>0, <2>1, BusyFields DEF Moving
    <2>2. CASE live' \subseteq live
      BY <1>0, <2>2
    <2> QED
      BY <2>1, <2>2, Kinds DEF Entering, Getting, Looking, Leaving, MmapExitSet, MmapExitFull,
         MmapExitNoAddr, MunmapErase
  <1> QED
    BY <1>1, <1>2, <1>3, BusyStep DEF MmapTypeOK, BusyTyped, StageTyped

----------------------------------------------------------------------------
(* Workers and table.                                                      *)

KeptInv == MmapTypeOK /\ ArgumentsAreMine /\ RecordsInTurn /\ TableKept

\* What RecordsInTurn and ArgumentsAreMine say of one worker.
InTurn(p) ==
    busy[p] # None =>
      /\ busy[p].step \in ExitSteps =>
           PidOf[busy[p].call] = p /\ stage[busy[p].call] \in {"entered", "refused"}
      /\ busy[p].step \notin ExitSteps => busy[p].val = AddrOf[busy[p].call]
      /\ busy[p].step \in {"clear", "map"} => busy[p].val.call = busy[p].call

LEMMA TurnOf ==
    ASSUME KeptInv, NEW p \in Pids
    PROVE  InTurn(p)
  BY DEF KeptInv, ArgumentsAreMine, RecordsInTurn, InTurn

\* One worker is written, and stages change only of its own calls and of
\* those in the table.
LEMMA TurnWrite ==
    ASSUME KeptInv, NEW p \in Pids, \A q \in Pids : q # p => busy'[q] = busy[q],
           \A d \in Calls : stage'[d] = stage[d] \/ PidOf[d] = p \/ stage[d] = "mapped",
           InTurn(p)'
    PROVE  ArgumentsAreMine' /\ RecordsInTurn'
  <1>1. ASSUME NEW q \in Pids PROVE InTurn(q)'
    <2>1. CASE q = p
      BY <2>1
    <2>2. CASE q # p
      <3>1. InTurn(q) /\ busy'[q] = busy[q] /\ (busy[q] # None => busy[q].call \in Calls)
        BY <2>2, TurnOf, BusyFields DEF KeptInv
      <3>2. busy[q] # None /\ busy[q].step \in ExitSteps => stage'[busy[q].call] = stage[busy[q].call]
        BY <2>2, <3>1 DEF InTurn
      <3> QED
        BY <3>1, <3>2 DEF InTurn
    <2> QED
      BY <2>1, <2>2
  <1> QED
    BY <1>1 DEF InTurn, ArgumentsAreMine, RecordsInTurn

\* The table is left alone, and no call enters or leaves it.
LEMMA KeptQuiet ==
    ASSUME KeptInv, table' = table, \A d \in Calls : stage'[d] = "mapped" <=> stage[d] = "mapped"
    PROVE  TableKept'
  <1>1. \A i \in MSlots : table[i] # None => table[i].call \in Calls
    BY DEF KeptInv, MmapTypeOK, TableEntries
  <1>2. \A c : InTable(c)' <=> InTable(c)
    BY DEF InTable
  <1> QED
    BY <1>1, <1>2 DEF KeptInv, TableKept

\* An address is entered in a free place, or in its own.
LEMMA SetEffect ==
    ASSUME KeptInv, NEW p \in Pids, MmapExitSet(p)
    PROVE  \E c \in Calls, m \in MSlots :
             /\ c = busy[p].call /\ PidOf[c] = p /\ stage[c] \in {"entered", "refused"} /\ AddrOf[c] # None
             /\ busy[p] # None /\ busy[p].step = "set"
             /\ busy'[p] = None /\ \A q \in Pids : q # p => busy'[q] = busy[q]
             /\ table[m] # None => table[m].addr = AddrOf[c]
             /\ table[m] = None => \A i \in MSlots : table[i] # None => table[i].addr # AddrOf[c]
             /\ table'[m] # None /\ table'[m].addr = AddrOf[c] /\ table'[m].call = c
             /\ \A i \in MSlots : i # m => table'[i] = table[i]
             /\ live' = live /\ stage'[c] = "mapped"
             /\ \A d \in Calls : d # c =>
                  IF table[m] # None /\ table[m].call = d THEN stage'[d] = "replaced" ELSE stage'[d] = stage[d]
  <1>1. PICK c \in Calls : /\ c = busy[p].call /\ PidOf[c] = p /\ stage[c] \in {"entered", "refused"}
                           /\ AddrOf[c] # None /\ busy[p] # None /\ busy[p].step = "set"
    BY TurnOf, BusyFields DEF KeptInv, InTurn, MmapExitSet, ExitSteps
  <1>2. PICK m \in MapSlot(AddrOf[c]) :
          /\ table' = [table EXCEPT ![m] = [addr |-> AddrOf[c], call |-> c]]
          /\ stage' = [d \in Calls |-> CASE d = c -> "mapped"
                                         [] d # c /\ table[m] # None /\ table[m].call = d -> "replaced"
                                         [] OTHER -> stage[d]]
    BY <1>1 DEF MmapExitSet
  <1>3. /\ m \in MSlots /\ (table[m] # None => table[m].addr = AddrOf[c])
        /\ table[m] = None => \A i \in MSlots : table[i] # None => table[i].addr # AddrOf[c]
    <2>1. CASE Entry(AddrOf[c]) # {}
      BY <1>2, <2>1 DEF MapSlot, Entry
    <2>2. CASE Entry(AddrOf[c]) = {}
      <3> DEFINE free == {i \in MSlots : table[i] = None}
      <3>1. m = Min(free) /\ free # {}
        BY <1>2, <2>2 DEF MapSlot
      <3>2. free \in SUBSET Nat
        BY MmapAssumption DEF MSlots
      <3>3. \E x \in free : \A y \in free : x <= y
        BY <3>1, <3>2, LeastNat
      <3>4. Min(free) \in free
        BY <3>3 DEF Min
      <3> QED
        BY <2>2, <3>1, <3>4 DEF Entry
    <2> QED
      BY <2>1, <2>2
  <1>4. PICK e : e = [addr |-> AddrOf[c], call |-> c]
    OBVIOUS
  <1>5. e.addr = AddrOf[c] /\ e.call = c /\ e # None
    <2>1. e \in TableEntries
      BY <1>4 DEF TableEntries
    <2> QED
      BY <1>4, <2>1, NoneAssumption
  <1>6. table'[m] = e /\ \A i \in MSlots : i # m => table'[i] = table[i]
    <2>1. table \in [MSlots -> TableEntries \cup {None}] /\ table' = [table EXCEPT ![m] = e]
      BY <1>2, <1>4 DEF KeptInv, MmapTypeOK
    <2> QED
      BY <1>3, <2>1
  <1>7. /\ stage'[c] = "mapped"
        /\ \A d \in Calls : d # c =>
             IF table[m] # None /\ table[m].call = d THEN stage'[d] = "replaced" ELSE stage'[d] = stage[d]
    BY <1>2
  <1>8. busy'[p] = None /\ (\A q \in Pids : q # p => busy'[q] = busy[q]) /\ live' = live
    BY DoneWith DEF MmapExitSet, KeptInv
  <1> QED
    BY <1>1, <1>3, <1>5, <1>6, <1>7, <1>8

\* The one entry of an address is dropped.
LEMMA EraseEffect ==
    ASSUME KeptInv, NEW p \in Pids, MunmapErase(p)
    PROVE  /\ busy[p] # None /\ busy[p].step = "erase" /\ busy[p].call \in Calls
           /\ busy[p].val = AddrOf[busy[p].call] /\ live' = live
           /\ busy'[p] = None /\ \A q \in Pids : q # p => busy'[q] = busy[q]
           /\ \A i \in MSlots : IF table[i] # None /\ table[i].addr = busy[p].val
                                THEN table'[i] = None ELSE table'[i] = table[i]
           /\ \A d \in Calls :
                IF \E i \in MSlots : table[i] # None /\ table[i].addr = busy[p].val /\ table[i].call = d
                THEN stage'[d] = "unmapped" ELSE stage'[d] = stage[d]
  <1>1. busy[p] # None /\ busy[p].step = "erase" /\ busy[p].call \in Calls /\ busy[p].val = AddrOf[busy[p].call]
    BY TurnOf, BusyFields DEF KeptInv, InTurn, MunmapErase, ExitSteps
  <1>2. busy'[p] = None /\ (\A q \in Pids : q # p => busy'[q] = busy[q]) /\ live' = live
    BY DoneWith DEF MunmapErase, KeptInv
  <1>3. \A i \in MSlots : IF table[i] # None /\ table[i].addr = busy[p].val
                          THEN table'[i] = None ELSE table'[i] = table[i]
    BY DEF MunmapErase, Entry
  <1>4. \A d \in Calls :
          IF \E i \in MSlots : table[i] # None /\ table[i].addr = busy[p].val /\ table[i].call = d
          THEN stage'[d] = "unmapped" ELSE stage'[d] = stage[d]
    BY DEF MunmapErase, Entry
  <1> QED
    BY <1>1, <1>2, <1>3, <1>4

LEMMA KeptSet ==
    ASSUME KeptInv, NEW p \in Pids, MmapExitSet(p)
    PROVE  ArgumentsAreMine' /\ RecordsInTurn' /\ TableKept'
  <1>1. PICK c \in Calls, m \in MSlots :
             /\ c = busy[p].call /\ PidOf[c] = p /\ stage[c] \in {"entered", "refused"} /\ AddrOf[c] # None
             /\ busy[p] # None /\ busy[p].step = "set"
             /\ busy'[p] = None /\ \A q \in Pids : q # p => busy'[q] = busy[q]
             /\ table[m] # None => table[m].addr = AddrOf[c]
             /\ table[m] = None => \A i \in MSlots : table[i] # None => table[i].addr # AddrOf[c]
             /\ table'[m] # None /\ table'[m].addr = AddrOf[c] /\ table'[m].call = c
             /\ \A i \in MSlots : i # m => table'[i] = table[i]
             /\ live' = live /\ stage'[c] = "mapped"
             /\ \A d \in Calls : d # c =>
                  IF table[m] # None /\ table[m].call = d THEN stage'[d] = "replaced" ELSE stage'[d] = stage[d]
    BY SetEffect
  <1>2. \A i \in MSlots : table[i] # None =>
          /\ table[i].call \in Calls /\ table[i].addr = AddrOf[table[i].call] /\ table[i].addr # None
          /\ stage[table[i].call] = "mapped"
    BY DEF KeptInv, TableKept, MmapTypeOK, TableEntries
  <1>3. \A i, j \in MSlots : table[i] # None /\ table[j] # None /\ table[i].addr = table[j].addr => i = j
    BY DEF KeptInv, TableKept
  <1>4. ArgumentsAreMine' /\ RecordsInTurn'
    <2>1. \A d \in Calls : stage'[d] = stage[d] \/ PidOf[d] = p \/ stage[d] = "mapped"
      BY <1>1, <1>2
    <2> QED
      BY <1>1, <2>1, TurnWrite DEF InTurn
  <1>5. \A i \in MSlots : table'[i] # None =>
          /\ table'[i].addr = AddrOf[table'[i].call] /\ table'[i].addr # None
          /\ stage'[table'[i].call] = "mapped"
    <2> SUFFICES ASSUME NEW i \in MSlots, table'[i] # None
                 PROVE  /\ table'[i].addr = AddrOf[table'[i].call] /\ table'[i].addr # None
                        /\ stage'[table'[i].call] = "mapped"
      OBVIOUS
    <2>1. CASE i = m
      BY <1>1, <2>1
    <2>2. CASE i # m
      <3>1. /\ table'[i] = table[i] /\ table[i] # None /\ table[i].call \in Calls
            /\ table[i].addr = AddrOf[table[i].call] /\ table[i].addr # None /\ stage[table[i].call] = "mapped"
        BY <1>1, <1>2, <2>2
      <3>2. table[i].call # c
        BY <1>1, <3>1
      <3>3. ~(table[m] # None /\ table[m].call = table[i].call)
        BY <1>2, <1>3, <2>2, <3>1
      <3> QED
        BY <1>1, <3>1, <3>2, <3>3
    <2> QED
      BY <2>1, <2>2
  <1>6. \A i, j \in MSlots : table'[i] # None /\ table'[j] # None /\ table'[i].addr = table'[j].addr => i = j
    BY <1>1, <1>3
  <1>7. ASSUME NEW d \in Calls, stage'[d] = "mapped" PROVE InTable(d)'
    <2>1. CASE d = c
      BY <1>1, <2>1 DEF InTable
    <2>2. CASE d # c
      <3>1. stage[d] = "mapped" /\ ~(table[m] # None /\ table[m].call = d)
        BY <1>1, <1>7, <2>2
      <3>2. PICK i \in MSlots : table[i] # None /\ table[i].call = d
        BY <3>1 DEF KeptInv, TableKept, InTable
      <3>3. table'[i] = table[i]
        BY <1>1, <3>1, <3>2
      <3> QED
        BY <3>2, <3>3 DEF InTable
    <2> QED
      BY <2>1, <2>2
  <1> QED
    BY <1>4, <1>5, <1>6, <1>7 DEF TableKept

LEMMA KeptErase ==
    ASSUME KeptInv, NEW p \in Pids, MunmapErase(p)
    PROVE  ArgumentsAreMine' /\ RecordsInTurn' /\ TableKept'
  <1>1. /\ busy'[p] = None /\ \A q \in Pids : q # p => busy'[q] = busy[q]
        /\ \A i \in MSlots : IF table[i] # None /\ table[i].addr = busy[p].val
                             THEN table'[i] = None ELSE table'[i] = table[i]
        /\ \A d \in Calls :
             IF \E i \in MSlots : table[i] # None /\ table[i].addr = busy[p].val /\ table[i].call = d
             THEN stage'[d] = "unmapped" ELSE stage'[d] = stage[d]
    BY EraseEffect
  <1>2. \A i \in MSlots : table[i] # None =>
          /\ table[i].call \in Calls /\ table[i].addr = AddrOf[table[i].call] /\ table[i].addr # None
          /\ stage[table[i].call] = "mapped"
    BY DEF KeptInv, TableKept, MmapTypeOK, TableEntries
  <1>3. \A i, j \in MSlots : table[i] # None /\ table[j] # None /\ table[i].addr = table[j].addr => i = j
    BY DEF KeptInv, TableKept
  <1>4. ArgumentsAreMine' /\ RecordsInTurn'
    <2>1. \A d \in Calls : stage'[d] = stage[d] \/ PidOf[d] = p \/ stage[d] = "mapped"
      BY <1>1, <1>2
    <2> QED
      BY <1>1, <2>1, TurnWrite DEF InTurn
  <1>5. ASSUME NEW i \in MSlots, table'[i] # None
        PROVE  /\ table'[i].addr = AddrOf[table'[i].call] /\ table'[i].addr # None
               /\ stage'[table'[i].call] = "mapped"
    <2>1. table'[i] = table[i] /\ table[i] # None /\ table[i].addr # busy[p].val
      BY <1>1, <1>5
    <2>2. \A j \in MSlots : table[j] # None /\ table[j].call = table[i].call => table[j].addr # busy[p].val
      BY <1>2, <2>1
    <2> QED
      BY <1>1, <1>2, <2>1, <2>2
  <1>6. \A i, j \in MSlots : table'[i] # None /\ table'[j] # None /\ table'[i].addr = table'[j].addr => i = j
    BY <1>1, <1>3
  <1>7. ASSUME NEW d \in Calls, stage'[d] = "mapped" PROVE InTable(d)'
    <2>1. stage[d] = "mapped" /\ \A i \in MSlots : ~(table[i] # None /\ table[i].addr = busy[p].val /\ table[i].call = d)
      BY <1>1, <1>7
    <2>2. PICK i \in MSlots : table[i] # None /\ table[i].call = d
      BY <2>1 DEF KeptInv, TableKept, InTable
    <2>3. table'[i] = table[i]
      BY <1>1, <2>1, <2>2
    <2> QED
      BY <2>2, <2>3 DEF InTable
  <1> QED
    BY <1>4, <1>5, <1>6, <1>7 DEF TableKept

\* The end of an exit record that enters nothing in the table.
Closing(p) == Leaving(p) \/ MmapExitFull(p) \/ MmapExitNoAddr(p)

LEMMA CloseEffect ==
    ASSUME KeptInv, NEW p \in Pids, Closing(p)
    PROVE  /\ busy[p] # None /\ busy[p].call \in Calls /\ table' = table
           /\ busy'[p] = None /\ \A q \in Pids : q # p => busy'[q] = busy[q]
           /\ \A d \in Calls : d # busy[p].call => stage'[d] = stage[d]
           /\ \/ /\ busy[p].step \in {"clear", "map"} /\ live' = live
                 /\ PidOf[busy[p].call] = p /\ stage[busy[p].call] \in {"entered", "refused"}
                 /\ stage'[busy[p].call] # "mapped"
              \/ busy[p].step = "unmap" /\ live' = live /\ stage' = stage
              \/ /\ busy[p].step = "set" /\ PidOf[busy[p].call] = p
                 /\ stage[busy[p].call] \in {"entered", "refused"}
                 /\ \/ live' = live \ {busy[p].call} /\ stage'[busy[p].call] = "failed"
                    \/ live' = live /\ stage'[busy[p].call] = "unrecorded"
  <1>1. busy[p] # None /\ busy[p].call \in Calls /\ InTurn(p) /\ busy' = [busy EXCEPT ![p] = None] /\ table' = table
    BY TurnOf, BusyFields DEF KeptInv, Closing, Leaving, MmapExitFull, MmapExitNoAddr
  <1>2. busy'[p] = None /\ \A q \in Pids : q # p => busy'[q] = busy[q]
    BY <1>1, DoneWith DEF KeptInv
  <1>3. stage \in [Calls -> Stages]
    BY DEF KeptInv, MmapTypeOK
  <1>4. PICK c \in Calls : c = busy[p].call
    BY <1>1
  <1>5. CASE Leaving(p)
    <2>1. CASE /\ busy[p].step \in {"clear", "map"} /\ live' = live
               /\ \E s \in {"skipped", "failed"} : stage' = [stage EXCEPT ![c] = s]
      <3>1. (\A d \in Calls : d # c => stage'[d] = stage[d]) /\ stage'[c] # "mapped"
        BY <1>3, <2>1
      <3> QED
        BY <1>1, <1>2, <1>4, <2>1, <3>1 DEF InTurn, ExitSteps
    <2>2. CASE busy[p].step = "unmap" /\ live' = live /\ stage' = stage
      BY <1>1, <1>2, <2>2
    <2> QED
      BY <1>4, <1>5, <2>1, <2>2 DEF Leaving
  <1>6. CASE MmapExitFull(p)
    <2>1. busy[p].step = "set" /\ live' = live \ {c} /\ stage' = [stage EXCEPT ![c] = "failed"]
      BY <1>4, <1>6 DEF MmapExitFull
    <2>2. (\A d \in Calls : d # c => stage'[d] = stage[d]) /\ stage'[c] = "failed"
      BY <1>3, <2>1
    <2> QED
      BY <1>1, <1>2, <1>4, <2>1, <2>2 DEF InTurn, ExitSteps
  <1>7. CASE MmapExitNoAddr(p)
    <2>1. busy[p].step = "set" /\ live' = live /\ stage' = [stage EXCEPT ![c] = "unrecorded"]
      BY <1>4, <1>7 DEF MmapExitNoAddr
    <2>2. (\A d \in Calls : d # c => stage'[d] = stage[d]) /\ stage'[c] = "unrecorded"
      BY <1>3, <2>1
    <2> QED
      BY <1>1, <1>2, <1>4, <2>1, <2>2 DEF InTurn, ExitSteps
  <1> QED
    BY <1>5, <1>6, <1>7 DEF Closing

LEMMA EnterEffect ==
    ASSUME KeptInv, Entering
    PROVE  \E c \in Calls, p \in Pids :
             /\ p = PidOf[c] /\ busy[p] = None /\ UNCHANGED <<table, live, busy>>
             /\ \A d \in Calls : d # c => stage'[d] = stage[d]
             /\ stage[c] \in {"new", "entered", "refused"} /\ stage'[c] \in {"entered", "refused", "skipped"}
  <1>1. PICK c \in Calls : /\ stage[c] \in {"new", "entered", "refused"} /\ Idle(c)
                     /\ \E s \in {"entered", "refused", "skipped"} : stage' = [stage EXCEPT ![c] = s]
                     /\ UNCHANGED <<table, live, busy>>
    BY DEF Entering
  <1>2. PidOf[c] \in Pids /\ stage \in [Calls -> Stages]
    BY MmapAssumption DEF KeptInv, MmapTypeOK
  <1>3. (\A d \in Calls : d # c => stage'[d] = stage[d]) /\ stage'[c] \in {"entered", "refused", "skipped"}
    BY <1>1, <1>2
  <1> QED
    BY <1>1, <1>2, <1>3 DEF Idle

LEMMA KeptStep ==
    ASSUME KeptInv, [MmapNext]_mmapVars
    PROVE  ArgumentsAreMine' /\ RecordsInTurn' /\ TableKept'
  <1>0. MmapTypeOK
    BY DEF KeptInv
  <1>1. CASE UNCHANGED <<stage, busy, table, live>>
    <2>1. ArgumentsAreMine' /\ RecordsInTurn'
      BY <1>1 DEF KeptInv, ArgumentsAreMine, RecordsInTurn
    <2> QED
      BY <1>1, <2>1, KeptQuiet
  <1>2. CASE Entering
    <2>1. PICK c \in Calls, p \in Pids :
             /\ p = PidOf[c] /\ busy[p] = None /\ UNCHANGED <<table, live, busy>>
             /\ \A d \in Calls : d # c => stage'[d] = stage[d]
             /\ stage[c] \in {"new", "entered", "refused"} /\ stage'[c] \in {"entered", "refused", "skipped"}
      BY <1>2, EnterEffect
    <2>2. \A d \in Calls : /\ stage'[d] = stage[d] \/ PidOf[d] = p
                           /\ stage'[d] = "mapped" <=> stage[d] = "mapped"
      BY <2>1
    <2>3. ArgumentsAreMine' /\ RecordsInTurn'
      BY <2>1, <2>2, TurnWrite DEF InTurn
    <2> QED
      BY <2>1, <2>2, <2>3, KeptQuiet
  <1>3. CASE Getting
    <2>1. PICK c \in Calls, p \in Pids :
             /\ p = PidOf[c] /\ busy[p] = None /\ stage[c] \in {"entered", "refused"}
             /\ busy'[p] # None /\ busy'[p].call = c /\ busy'[p].step = "clear" /\ busy'[p].val.call = c
             /\ \A q \in Pids : q # p => busy'[q] = busy[q]
             /\ UNCHANGED <<table, live, stage>>
      BY <1>0, <1>3, GetsWork
    <2>2. InTurn(p)'
      BY <2>1 DEF InTurn, ExitSteps
    <2>3. ArgumentsAreMine' /\ RecordsInTurn'
      BY <2>1, <2>2, TurnWrite
    <2> QED
      BY <2>1, <2>3, KeptQuiet
  <1>4. CASE Looking
    <2>1. PICK c \in Calls, p \in Pids, i \in MSlots :
             /\ table[i] # None /\ table[i].addr = AddrOf[c]
             /\ busy'[p] # None /\ busy'[p].call = table[i].call /\ busy'[p].step = "unmap"
             /\ busy'[p].val = AddrOf[c]
             /\ \A q \in Pids : q # p => busy'[q] = busy[q]
             /\ UNCHANGED <<table, live, stage>>
      BY <1>0, <1>4, LooksUp
    <2>2. table[i].addr = AddrOf[table[i].call]
      BY <2>1 DEF KeptInv, TableKept
    <2>3. InTurn(p)'
      BY <2>1, <2>2 DEF InTurn, ExitSteps
    <2>4. ArgumentsAreMine' /\ RecordsInTurn'
      BY <2>1, <2>3, TurnWrite
    <2> QED
      BY <2>1, <2>4, KeptQuiet
  <1>5. ASSUME NEW p \in Pids, Moving(p) PROVE ArgumentsAreMine' /\ RecordsInTurn' /\ TableKept'
    <2>1. /\ busy'[p] # None /\ busy'[p].call = busy[p].call /\ busy'[p].val = busy[p].val
          /\ \/ busy[p].step = "clear" /\ busy'[p].step = "map"
             \/ busy[p].step = "map" /\ busy'[p].step = "set"
             \/ busy[p].step = "unmap" /\ busy'[p].step = "erase"
          /\ \A q \in Pids : q # p => busy'[q] = busy[q]
          /\ busy[p] # None /\ UNCHANGED <<table, stage>>
      BY <1>0, <1>5, MovesOn DEF Moving
    <2>2. InTurn(p)'
      BY <2>1, TurnOf DEF InTurn, ExitSteps
    <2>3. ArgumentsAreMine' /\ RecordsInTurn'
      BY <2>1, <2>2, TurnWrite
    <2> QED
      BY <2>1, <2>3, KeptQuiet
  <1>6. ASSUME NEW p \in Pids, Closing(p) PROVE ArgumentsAreMine' /\ RecordsInTurn' /\ TableKept'
    <2>1. /\ table' = table /\ busy'[p] = None /\ \A q \in Pids : q # p => busy'[q] = busy[q]
          /\ \A d \in Calls : /\ stage'[d] = stage[d] \/ PidOf[d] = p
                              /\ stage'[d] = "mapped" <=> stage[d] = "mapped"
      BY <1>6, CloseEffect
    <2>2. ArgumentsAreMine' /\ RecordsInTurn'
      BY <2>1, TurnWrite DEF InTurn
    <2> QED
      BY <2>1, <2>2, KeptQuiet
  <1> QED
    BY <1>0, <1>1, <1>2, <1>3, <1>4, <1>5, <1>6, KeptSet, KeptErase, Kinds DEF Closing

----------------------------------------------------------------------------
(* The mappings under OneOwner.                                            *)

ExactInv == KeptInv /\ MappingsExact

\* What MappingsExact says of one worker, one entry and one mapping.
WorkExact(p) ==
    busy[p] # None =>
      /\ busy[p].step = "set" => busy[p].call \in live
      /\ busy[p].step \in {"unmap", "erase"} => PidOf[busy[p].call] = p /\ stage[busy[p].call] = "mapped"
      /\ busy[p].step = "erase" => busy[p].call \notin live
Erased(c) == WorksOn(PidOf[c], c, {"erase"})
Held(c) == InTable(c) \/ WorksOn(PidOf[c], c, {"set"}) \/ stage[c] \in {"replaced", "unrecorded"}

LEMMA Exactly ==
    ASSUME ExactInv, OneOwner
    PROVE  /\ \A p \in Pids : WorkExact(p) /\ InTurn(p) /\ (busy[p] # None => busy[p].call \in Calls)
           /\ \A i \in MSlots : table[i] # None =>
                /\ table[i].call \in Calls /\ table[i].addr = AddrOf[table[i].call] /\ table[i].addr # None
                /\ stage[table[i].call] = "mapped" /\ (table[i].call \in live \/ Erased(table[i].call))
           /\ \A i, j \in MSlots : table[i] # None /\ table[j] # None /\ table[i].addr = table[j].addr => i = j
           /\ \A c \in live : Held(c)
           /\ live \subseteq Calls /\ PidOf \in [Calls -> Pids]
  <1>1. KeptInv /\ MmapTypeOK
    BY DEF ExactInv, KeptInv
  <1>2. \A p \in Pids : InTurn(p) /\ (busy[p] # None => busy[p].call \in Calls)
    BY <1>1, TurnOf, BusyFields
  <1>3. /\ \A i \in MSlots : table[i] # None =>
             /\ table[i].call \in Calls /\ table[i].addr = AddrOf[table[i].call] /\ table[i].addr # None
             /\ stage[table[i].call] = "mapped"
        /\ \A i, j \in MSlots : table[i] # None /\ table[j] # None /\ table[i].addr = table[j].addr => i = j
    BY <1>1 DEF KeptInv, TableKept, MmapTypeOK, TableEntries
  <1>4. live \subseteq Calls /\ PidOf \in [Calls -> Pids]
    BY <1>1, MmapAssumption DEF MmapTypeOK
  <1> QED
    BY <1>2, <1>3, <1>4 DEF ExactInv, MappingsExact, WorkExact, Erased, Held

LEMMA ExactFrom ==
    ASSUME ExactInv, \A p \in Pids : WorkExact(p)',
           \A i \in MSlots : \A d : table'[i] # None /\ d = table'[i].call => d \in live' \/ Erased(d)',
           \A c \in live' : Held(c)'
    PROVE  MappingsExact'
  <1>1. \A p \in Pids : busy'[p] # None =>
          /\ busy'[p].step = "set" => busy'[p].call \in live'
          /\ busy'[p].step \in {"unmap", "erase"} =>
               PidOf[busy'[p].call] = p /\ stage'[busy'[p].call] = "mapped"
          /\ busy'[p].step = "erase" => busy'[p].call \notin live'
    BY DEF WorkExact
  <1>2. \A i \in MSlots : table'[i] # None =>
          table'[i].call \in live' \/ (WorksOn(PidOf[table[i].call], table[i].call, {"erase"}))'
    BY DEF Erased, WorksOn
  <1>3. \A c \in live' : (InTable(c) \/ WorksOn(PidOf[c], c, {"set"}) \/ stage[c] \in {"replaced", "unrecorded"})'
    BY DEF Held
  <1> QED
    BY <1>1, <1>2, <1>3 DEF MappingsExact

\* A step of a worker that is neither at set nor at erase, which changes
\* neither the table nor what is mapped, and the stages of calls only that
\* are not mapped yet.
LEMMA ExactQuiet ==
    ASSUME ExactInv, OneOwner, UNCHANGED <<table, live>>, NEW p \in Pids,
           \A q \in Pids : q # p => busy'[q] = busy[q],
           \A d \in Calls : stage[d] \in {"mapped", "replaced", "unrecorded"} => stage'[d] = stage[d],
           busy[p] # None => busy[p].step \notin {"set", "erase"},
           WorkExact(p)'
    PROVE  MappingsExact'
  <1>1. ASSUME NEW q \in Pids PROVE WorkExact(q)'
    <2>1. CASE q = p
      BY <2>1
    <2>2. CASE q # p
      <3>1. WorkExact(q) /\ busy'[q] = busy[q] /\ (busy[q] # None => busy[q].call \in Calls)
        BY <2>2, Exactly
      <3> QED
        BY <3>1 DEF WorkExact
    <2> QED
      BY <2>1, <2>2
  <1>2. ASSUME NEW c \in Calls PROVE /\ Erased(c) => Erased(c)'
                                     /\ WorksOn(PidOf[c], c, {"set"}) => WorksOn(PidOf[c], c, {"set"})'
    <2>1. PidOf[c] \in Pids
      BY Exactly
    <2> QED
      BY <2>1 DEF Erased, WorksOn
  <1>3. \A c : InTable(c)' <=> InTable(c)
    BY DEF InTable
  <1>4. \A i \in MSlots : \A d : table'[i] # None /\ d = table'[i].call => d \in live' \/ Erased(d)'
    <2> SUFFICES ASSUME NEW i \in MSlots, table[i] # None, NEW d, d = table[i].call
                 PROVE  d \in live \/ Erased(d)'
      OBVIOUS
    <2>1. d \in Calls /\ (d \in live \/ Erased(d))
      BY Exactly
    <2> QED
      BY <1>2, <2>1
  <1>5. \A c \in live' : Held(c)'
    <2> SUFFICES ASSUME NEW c \in live PROVE Held(c)'
      OBVIOUS
    <2>1. c \in Calls /\ Held(c)
      BY Exactly
    <2> QED
      BY <1>2, <1>3, <2>1 DEF Held
  <1> QED
    BY <1>1, <1>4, <1>5, ExactFrom

\* The other workers' calls are not the worker's.
LEMMA OthersApart ==
    ASSUME ExactInv, OneOwner, NEW p \in Pids, NEW q \in Pids, q # p, busy[q] # None,
           NEW c \in Calls, PidOf[c] = p
    PROVE  busy[q].call # c
  <1>1. WorkExact(q) /\ InTurn(q) /\ busy[q].step \in Steps
    BY Exactly, BusyFields DEF ExactInv, KeptInv
  <1> QED
    BY <1>1 DEF WorkExact, InTurn, Steps, ExitSteps

LEMMA ExactMove ==
    ASSUME ExactInv, OneOwner, NEW p \in Pids, Moving(p)
    PROVE  MappingsExact'
  <1>1. /\ busy'[p] # None /\ busy'[p].call = busy[p].call /\ busy'[p].val = busy[p].val
        /\ \/ busy[p].step = "clear" /\ busy'[p].step = "map"
           \/ busy[p].step = "map" /\ busy'[p].step = "set"
           \/ busy[p].step = "unmap" /\ busy'[p].step = "erase"
        /\ \A q \in Pids : q # p => busy'[q] = busy[q]
        /\ busy[p] # None /\ UNCHANGED <<table, stage>>
    BY MovesOn DEF Moving, ExactInv, KeptInv
  <1>2. PICK c \in Calls : c = busy[p].call
    BY <1>1, Exactly
  <1>3. CASE busy[p].step = "clear"
    <2>1. live' = live /\ busy'[p].step = "map"
      BY <1>1, <1>3 DEF Moving
    <2> QED
      BY <1>1, <1>3, <2>1, ExactQuiet DEF WorkExact
  <1>4. CASE busy[p].step \in {"map", "unmap"}
    <2>1. /\ PidOf[c] = p
          /\ busy[p].step = "map" => live' = live \cup {c} /\ busy'[p].step = "set" /\ stage[c] # "mapped"
          /\ busy[p].step = "unmap" => live' = live \ {c} /\ busy'[p].step = "erase" /\ stage[c] = "mapped"
      <3>1. WorkExact(p) /\ InTurn(p)
        BY Exactly
      <3> QED
        BY <1>1, <1>2, <1>4, <3>1 DEF Moving, WorkExact, InTurn, ExitSteps
    <2>2. ASSUME NEW q \in Pids PROVE WorkExact(q)'
      <3>1. CASE q = p
        BY <1>1, <1>2, <1>4, <2>1, <3>1 DEF WorkExact
      <3>2. CASE q # p
        <4>1. WorkExact(q) /\ busy'[q] = busy[q] /\ (busy[q] # None => busy[q].call # c)
          BY <1>1, <2>1, <3>2, Exactly, OthersApart
        <4> QED
          BY <1>1, <1>4, <2>1, <4>1 DEF WorkExact
      <3> QED
        BY <3>1, <3>2
    <2>3. ASSUME NEW d \in Calls, d # c
          PROVE  /\ d \in live' <=> d \in live
                 /\ Erased(d) => Erased(d)'
                 /\ WorksOn(PidOf[d], d, {"set"}) => WorksOn(PidOf[d], d, {"set"})'
      <3>1. PidOf[d] \in Pids
        BY Exactly
      <3> QED
        BY <1>1, <1>2, <1>4, <2>1, <2>3, <3>1 DEF Erased, WorksOn
    <2>4. \A d : InTable(d)' <=> InTable(d)
      BY <1>1 DEF InTable
    <2>5. (c \in live' \/ Erased(c)') /\ (c \in live' => Held(c)')
      BY <1>1, <1>2, <1>4, <2>1 DEF Erased, Held, WorksOn
    <2>6. \A i \in MSlots : \A d : table'[i] # None /\ d = table'[i].call => d \in live' \/ Erased(d)'
      <3> SUFFICES ASSUME NEW i \in MSlots, table[i] # None, NEW d, d = table[i].call
                   PROVE  d \in live' \/ Erased(d)'
        BY <1>1
      <3>1. d \in Calls /\ (d \in live \/ Erased(d))
        BY Exactly
      <3> QED
        BY <2>3, <2>5, <3>1
    <2>7. \A d \in live' : Held(d)'
      <3> SUFFICES ASSUME NEW d \in live', d # c PROVE Held(d)'
        BY <2>5
      <3>1. d \in Calls /\ d \in live
        BY <1>4, <2>1, Exactly
      <3>2. Held(d)
        BY <3>1, Exactly
      <3> QED
        BY <1>1, <2>3, <2>4, <3>1, <3>2 DEF Held
    <2> QED
      BY <2>2, <2>6, <2>7, ExactFrom
  <1> QED
    BY <1>1, <1>3, <1>4

\* The end of an exit record at its last step, or of an munmap record.
LEMMA ExactEnd ==
    ASSUME ExactInv, OneOwner, NEW p \in Pids, NEW c \in Calls, busy[p] # None,
           c = busy[p].call, PidOf[c] = p,
           busy'[p] = None, \A q \in Pids : q # p => busy'[q] = busy[q],
           \A d \in Calls : d # c =>
             /\ d \in live' <=> d \in live
             /\ PidOf[d] = p /\ Held(d) => Held(d)'
             /\ PidOf[d] # p => stage'[d] = stage[d] /\ (InTable(d) => InTable(d)'),
           live' \subseteq Calls, c \in live' => Held(c)',
           \A i \in MSlots : table'[i] # None => table'[i].call = c \/ table'[i] = table[i],
           \A i \in MSlots : table'[i] # None /\ table'[i].call = c => c \in live',
           busy[p].step = "erase" => \A i \in MSlots : table'[i] # None => table'[i].call # c
    PROVE  MappingsExact'
  <1>1. ASSUME NEW q \in Pids PROVE WorkExact(q)'
    <2>1. CASE q = p
      BY <2>1 DEF WorkExact
    <2>2. CASE q # p /\ busy[q] # None
      <3>1. WorkExact(q) /\ InTurn(q) /\ busy'[q] = busy[q] /\ busy[q].call # c /\ busy[q].call \in Calls
            /\ busy[q].step \in Steps
        BY <2>2, Exactly, OthersApart, BusyFields DEF ExactInv, KeptInv
      <3>2. PidOf[busy[q].call] = q
        BY <2>2, <3>1 DEF WorkExact, InTurn, Steps, ExitSteps
      <3> QED
        BY <2>2, <3>1, <3>2 DEF WorkExact
    <2> QED
      BY <2>1, <2>2 DEF WorkExact
  <1>2. ASSUME NEW d \in Calls, d # c
        PROVE  /\ Erased(d) => Erased(d)'
               /\ WorksOn(PidOf[d], d, {"set"}) => WorksOn(PidOf[d], d, {"set"})'
    <2>1. PidOf[d] \in Pids
      BY Exactly
    <2> QED
      BY <1>2, <2>1 DEF Erased, WorksOn
  <1>3. \A i \in MSlots : \A d : table'[i] # None /\ d = table'[i].call => d \in live' \/ Erased(d)'
    <2> SUFFICES ASSUME NEW i \in MSlots, table'[i] # None, NEW d, d = table'[i].call, d # c
                 PROVE  d \in live' \/ Erased(d)'
      OBVIOUS
    <2>1. d = table[i].call /\ table[i] # None
      OBVIOUS
    <2>2. d \in Calls /\ (d \in live \/ Erased(d))
      BY <2>1, Exactly
    <2> QED
      BY <1>2, <2>2
  <1>4. ASSUME NEW d \in live' PROVE Held(d)'
    <2>1. CASE d = c
      BY <2>1
    <2>2. CASE d # c
      <3>1. d \in Calls /\ d \in live /\ Held(d)
        BY <2>2, Exactly
      <3> QED
        BY <1>2, <2>2, <3>1 DEF Held
    <2> QED
      BY <2>1, <2>2
  <1> QED
    BY <1>1, <1>3, <1>4, ExactFrom

LEMMA ExactSet ==
    ASSUME ExactInv, OneOwner, NEW p \in Pids, MmapExitSet(p)
    PROVE  MappingsExact'
  <1>0. KeptInv
    BY DEF ExactInv
  <1>1. PICK c \in Calls, m \in MSlots :
             /\ c = busy[p].call /\ PidOf[c] = p /\ stage[c] \in {"entered", "refused"} /\ AddrOf[c] # None
             /\ busy[p] # None /\ busy[p].step = "set"
             /\ busy'[p] = None /\ \A q \in Pids : q # p => busy'[q] = busy[q]
             /\ table[m] # None => table[m].addr = AddrOf[c]
             /\ table'[m] # None /\ table'[m].addr = AddrOf[c] /\ table'[m].call = c
             /\ \A i \in MSlots : i # m => table'[i] = table[i]
             /\ live' = live /\ stage'[c] = "mapped"
             /\ \A d \in Calls : d # c =>
                  IF table[m] # None /\ table[m].call = d THEN stage'[d] = "replaced" ELSE stage'[d] = stage[d]
    BY <1>0, SetEffect
  <1>2. c \in live
    BY <1>1, Exactly DEF WorkExact
  \* What the entry named is a call of the same process.
  <1>3. table[m] # None => table[m].call \in Calls /\ PidOf[table[m].call] = p
    BY <1>1, Exactly DEF OneOwner
  <1>4. \A d : d # c /\ InTable(d) => InTable(d)' \/ (table[m] # None /\ table[m].call = d)
    BY <1>1 DEF InTable
  <1>5. \A d \in Calls : WorksOn(PidOf[d], d, {"set"}) /\ d # c => WorksOn(PidOf[d], d, {"set"})'
    <2> SUFFICES ASSUME NEW d \in Calls, d # c, WorksOn(PidOf[d], d, {"set"})
                 PROVE  WorksOn(PidOf[d], d, {"set"})'
      OBVIOUS
    <2>1. PidOf[d] \in Pids /\ PidOf[d] # p
      BY <1>1, Exactly DEF WorksOn
    <2> QED
      BY <1>1, <2>1 DEF WorksOn
  <1>6. ASSUME NEW d \in Calls, d # c
        PROVE  /\ d \in live' <=> d \in live
               /\ Held(d) => Held(d)'
               /\ PidOf[d] # p => stage'[d] = stage[d] /\ (InTable(d) => InTable(d)')
    BY <1>1, <1>3, <1>4, <1>5, <1>6 DEF Held
  <1>7. Held(c)' /\ live' \subseteq Calls
    BY <1>1, Exactly DEF Held, InTable
  <1> QED
    BY <1>1, <1>2, <1>6, <1>7, ExactEnd

LEMMA ExactClose ==
    ASSUME ExactInv, OneOwner, NEW p \in Pids, Closing(p)
    PROVE  MappingsExact'
  <1>0. KeptInv
    BY DEF ExactInv
  <1>1. /\ busy[p] # None /\ busy[p].call \in Calls /\ table' = table
        /\ busy'[p] = None /\ \A q \in Pids : q # p => busy'[q] = busy[q]
        /\ \A d \in Calls : d # busy[p].call => stage'[d] = stage[d]
    BY <1>0, CloseEffect
  <1>2. CASE busy[p].step # "set"
    <2>1. live' = live /\ busy[p].step \notin {"set", "erase"}
          /\ \A d \in Calls : stage[d] \in {"mapped", "replaced", "unrecorded"} => stage'[d] = stage[d]
      BY <1>0, <1>1, <1>2, CloseEffect
    <2> QED
      BY <1>1, <2>1, ExactQuiet DEF WorkExact
  <1>3. CASE busy[p].step = "set"
    <2>1. PICK c \in Calls :
            /\ c = busy[p].call /\ PidOf[c] = p /\ stage[c] \in {"entered", "refused"}
            /\ \/ live' = live \ {c} /\ stage'[c] = "failed"
               \/ live' = live /\ stage'[c] = "unrecorded"
      BY <1>0, <1>1, <1>3, CloseEffect
    <2>2. \A d : InTable(d)' <=> InTable(d)
      BY <1>1 DEF InTable
    <2>3. \A i \in MSlots : table[i] # None => table[i].call # c
      BY <2>1, Exactly
    <2>4. \A d \in Calls : WorksOn(PidOf[d], d, {"set"}) /\ d # c => WorksOn(PidOf[d], d, {"set"})'
      <3> SUFFICES ASSUME NEW d \in Calls, d # c, WorksOn(PidOf[d], d, {"set"})
                   PROVE  WorksOn(PidOf[d], d, {"set"})'
        OBVIOUS
      <3>1. PidOf[d] \in Pids /\ PidOf[d] # p
        BY <2>1, Exactly DEF WorksOn
      <3> QED
        BY <1>1, <3>1 DEF WorksOn
    <2>5. ASSUME NEW d \in Calls, d # c
          PROVE  /\ d \in live' <=> d \in live
                 /\ Held(d) => Held(d)'
                 /\ PidOf[d] # p => stage'[d] = stage[d] /\ (InTable(d) => InTable(d)')
      BY <1>1, <2>1, <2>2, <2>4, <2>5 DEF Held
    <2>6. live' \subseteq Calls /\ (c \in live' => Held(c)')
      BY <2>1, Exactly DEF Held
    <2> QED
      BY <1>1, <1>3, <2>1, <2>3, <2>5, <2>6, ExactEnd
  <1> QED
    BY <1>2, <1>3

LEMMA ExactErase ==
    ASSUME ExactInv, OneOwner, NEW p \in Pids, MunmapErase(p)
    PROVE  MappingsExact'
  <1>0. KeptInv
    BY DEF ExactInv
  <1>1. /\ busy[p] # None /\ busy[p].step = "erase" /\ busy[p].call \in Calls
        /\ busy[p].val = AddrOf[busy[p].call] /\ live' = live
        /\ busy'[p] = None /\ \A q \in Pids : q # p => busy'[q] = busy[q]
        /\ \A i \in MSlots : IF table[i] # None /\ table[i].addr = busy[p].val
                             THEN table'[i] = None ELSE table'[i] = table[i]
        /\ \A d \in Calls :
             IF \E i \in MSlots : table[i] # None /\ table[i].addr = busy[p].val /\ table[i].call = d
             THEN stage'[d] = "unmapped" ELSE stage'[d] = stage[d]
    BY <1>0, EraseEffect
  <1>2. PICK c \in Calls : c = busy[p].call /\ PidOf[c] = p /\ stage[c] = "mapped" /\ c \notin live
    BY <1>1, Exactly DEF WorkExact
  \* The entry of the address is the call's own.
  <1>3. \A i \in MSlots : table[i] # None => (table[i].addr = busy[p].val <=> table[i].call = c)
    <2>1. PICK j \in MSlots : table[j] # None /\ table[j].call = c
      BY <1>0, <1>2 DEF KeptInv, TableKept, InTable
    <2>2. table[j].addr = busy[p].val
      BY <1>1, <1>2, <2>1, Exactly
    <2> QED
      BY <1>1, <1>2, <2>1, <2>2, Exactly
  <1>4. \A d : d # c /\ InTable(d) => InTable(d)'
    BY <1>1, <1>3 DEF InTable
  <1>5. \A d \in Calls : d # c => stage'[d] = stage[d]
    BY <1>1, <1>3
  <1>6. \A d \in Calls : WorksOn(PidOf[d], d, {"set"}) /\ d # c => WorksOn(PidOf[d], d, {"set"})'
    <2> SUFFICES ASSUME NEW d \in Calls, d # c, WorksOn(PidOf[d], d, {"set"})
                 PROVE  WorksOn(PidOf[d], d, {"set"})'
      OBVIOUS
    <2>1. PidOf[d] \in Pids /\ PidOf[d] # p
      BY <1>1, Exactly DEF WorksOn
    <2> QED
      BY <1>1, <2>1 DEF WorksOn
  <1>7. ASSUME NEW d \in Calls, d # c
        PROVE  /\ d \in live' <=> d \in live
               /\ Held(d) => Held(d)'
               /\ PidOf[d] # p => stage'[d] = stage[d] /\ (InTable(d) => InTable(d)')
    BY <1>1, <1>4, <1>5, <1>6, <1>7 DEF Held
  <1>8. \A i \in MSlots : table'[i] # None => table'[i] = table[i] /\ table'[i].call # c
    BY <1>1, <1>3
  <1>9. live' \subseteq Calls /\ c \notin live'
    BY <1>1, <1>2, Exactly
  <1> QED
    BY <1>1, <1>2, <1>7, <1>8, <1>9, ExactEnd

LEMMA ExactStep ==
    ASSUME ExactInv, OneOwner, [MmapNext]_mmapVars
    PROVE  MappingsExact'
  <1>0. KeptInv /\ MmapTypeOK
    BY DEF ExactInv, KeptInv
  <1>1. CASE UNCHANGED <<stage, busy, table, live>>
    BY <1>1 DEF ExactInv, MappingsExact, WorksOn, InTable
  <1>2. CASE Entering
    <2>1. PICK c \in Calls, p \in Pids :
             /\ p = PidOf[c] /\ busy[p] = None /\ UNCHANGED <<table, live, busy>>
             /\ \A d \in Calls : d # c => stage'[d] = stage[d]
             /\ stage[c] \in {"new", "entered", "refused"}
      BY <1>0, <1>2, EnterEffect
    <2>2. \A d \in Calls : stage[d] \in {"mapped", "replaced", "unrecorded"} => stage'[d] = stage[d]
      BY <2>1
    <2> QED
      BY <2>1, <2>2, ExactQuiet DEF WorkExact
  <1>3. CASE Getting
    <2>1. PICK c \in Calls, p \in Pids :
             /\ p = PidOf[c] /\ busy[p] = None
             /\ busy'[p] # None /\ busy'[p].step = "clear"
             /\ \A q \in Pids : q # p => busy'[q] = busy[q]
             /\ UNCHANGED <<table, live, stage>>
      BY <1>0, <1>3, GetsWork
    <2> QED
      BY <2>1, ExactQuiet DEF WorkExact
  <1>4. CASE Looking
    <2>1. PICK c \in Calls, p \in Pids, i \in MSlots :
             /\ p = PidOf[c] /\ busy[p] = None /\ AddrOf[c] # None
             /\ table[i] # None /\ table[i].addr = AddrOf[c] /\ table[i].call \in Calls
             /\ busy'[p] # None /\ busy'[p].call = table[i].call /\ busy'[p].step = "unmap"
             /\ \A q \in Pids : q # p => busy'[q] = busy[q]
             /\ UNCHANGED <<table, live, stage>>
      BY <1>0, <1>4, LooksUp
    <2>2. PidOf[table[i].call] = p /\ stage[table[i].call] = "mapped"
      BY <2>1, Exactly DEF OneOwner
    <2>3. WorkExact(p)'
      BY <2>1, <2>2 DEF WorkExact
    <2> QED
      BY <2>1, <2>3, ExactQuiet
  <1> QED
    BY <1>0, <1>1, <1>2, <1>3, <1>4, ExactMove, ExactSet, ExactClose, ExactErase, Kinds DEF Closing

----------------------------------------------------------------------------
LEMMA MmapStart == MmapInit => MmapInv
  <1> SUFFICES ASSUME MmapInit PROVE MmapInv
    OBVIOUS
  <1>1. /\ pending = [i \in PSlots |-> None] /\ table = [i \in MSlots |-> None] /\ live = {}
        /\ stage = [c \in Calls |-> "new"] /\ busy = [p \in Pids |-> None]
    BY DEF MmapInit
  <1>2. MmapTypeOK
    BY <1>1 DEF MmapTypeOK, Stages
  <1>3. ArgumentsAreMine /\ RecordsInTurn /\ TableKept
    BY <1>1 DEF ArgumentsAreMine, RecordsInTurn, TableKept
  <1>4. MappingsExact
    BY <1>1 DEF MappingsExact
  <1> QED
    BY <1>2, <1>3, <1>4 DEF MmapInv

LEMMA MmapStep == MmapInv /\ [MmapNext]_mmapVars => MmapInv'
  <1> SUFFICES ASSUME MmapInv, [MmapNext]_mmapVars PROVE MmapInv'
    OBVIOUS
  <1>1. KeptInv /\ ExactInv
    BY DEF MmapInv, KeptInv, ExactInv
  <1>2. MmapTypeOK' /\ ArgumentsAreMine' /\ RecordsInTurn' /\ TableKept'
    BY <1>1, MmapTypeStep, KeptStep DEF KeptInv
  <1>3. OneOwner => MappingsExact'
    BY <1>1, ExactStep
  <1>4. MappingsExact'
    BY <1>3 DEF MappingsExact, OneOwner
  <1> QED
    BY <1>2, <1>4 DEF MmapInv

\* For every number of workers and calls and every size of the tables, also
\* when captured addresses coincide: the tables are well typed, an exit
\* record is replayed with the arguments of its own entry record, and the
\* address table holds each mapped call at its address, once; and mappings
\* are exact if no address has two owners.
THEOREM MmapInvariant == MmapSpec => []MmapInv
  BY MmapStart, MmapStep, PTL DEF MmapSpec

\* If no two processes mapped the same address, no mapping is lost but by a
\* further mmap of its process at its address, a settled one resolves to
\* itself, and munmap takes away a mapping of its own process.
THEOREM MappingsOwned == OneOwner => (MmapSpec => []MappingsStayOwn)
  <1> SUFFICES ASSUME OneOwner PROVE MmapSpec => []MappingsStayOwn
    OBVIOUS
  <1>1. MmapInv => TableMatchesMappings /\ UnmapsOwnMapping
    <2> SUFFICES ASSUME MmapInv PROVE TableMatchesMappings /\ UnmapsOwnMapping
      OBVIOUS
    <2>1. ExactInv
      BY DEF MmapInv, ExactInv, KeptInv
    <2>2. UnmapsOwnMapping
      BY <2>1, Exactly DEF UnmapsOwnMapping, WorkExact
    <2>3. \A c \in live : \/ \E i \in MSlots : table[i] # None /\ table[i].call = c
                          \/ busy[PidOf[c]] # None /\ busy[PidOf[c]].call = c
                          \/ stage[c] \in {"replaced", "unrecorded"}
      BY <2>1, Exactly DEF Held, InTable, WorksOn
    <2>4. \A i \in MSlots : table[i] # None /\ Idle(table[i].call) => table[i].call \in live
      BY <2>1, Exactly DEF Erased, WorksOn, Idle
    <2>5. ASSUME NEW c \in Calls, Settled(c)
          PROVE  c \in live /\ \E i \in Entry(AddrOf[c]) : table[i].call = c
      <3>1. PICK i \in MSlots : table[i] # None /\ table[i].call = c
        BY <2>1, <2>5 DEF ExactInv, KeptInv, TableKept, Settled, InTable
      <3>2. table[i].addr = AddrOf[c]
        BY <2>1, <3>1, Exactly
      <3> QED
        BY <2>4, <2>5, <3>1, <3>2 DEF Settled, Entry
    <2> QED
      BY <2>2, <2>3, <2>4, <2>5 DEF TableMatchesMappings
  <1> QED
    BY <1>1, MmapInvariant, PTL DEF MappingsStayOwn
============================================================================
