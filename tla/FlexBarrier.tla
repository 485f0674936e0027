---------------------------- MODULE FlexBarrier ----------------------------
(***************************************************************************)
(* The flexible barrier of syscall_replayer.c (struct flex_barrier).  Each *)
(* replay worker calls flex_barrier_wait before an I/O system call and     *)
(* flex_barrier_unregister once when it has no record left.  The barrier   *)
(* counts the workers that are alive and the workers that wait, and a      *)
(* worker that has waited for 10 ms stops waiting.                         *)
(*                                                                         *)
(* Every function body runs under the barrier's mutex and is one action.   *)
(* pthread_cond_timedwait gives the mutex up, so a call that has to wait   *)
(* is several actions: the thread sleeps ("asleep"), then either a         *)
(* broadcast wakes it ("woken") or its deadline passes ("expired"), and    *)
(* only then does it take the mutex back.  A broadcast that falls between  *)
(* the deadline and the mutex does not change the ETIMEDOUT result.        *)
(* Spurious wake-ups return to the same sleep and are stuttering steps.    *)
(***************************************************************************)
EXTENDS Integers, FiniteSets

CONSTANTS
    Threads,    \* the threads the barrier was initialised for (n_total)
    MaxRounds   \* bound on the number of releases explored

ASSUME ThreadsAssumption == IsFiniteSet(Threads)
ASSUME MaxRoundsAssumption == MaxRounds \in Nat

VARIABLES
    n_active,    \* threads that have not unregistered
    n_waiting,   \* the barrier's count of the threads that wait
    generation,  \* number of releases
    my_gen,      \* generation a thread saw when it began to wait
    at           \* where a thread is in the protocol

barrierVars == <<n_active, n_waiting, generation, my_gen, at>>

BarrierPlaces == {"away", "asleep", "expired", "woken", "gone"}

(***************************************************************************)
(* Derived sets: the threads that are alive, the threads inside            *)
(* flex_barrier_wait, and those of them no release has covered yet.        *)
(***************************************************************************)
Alive == {t \in Threads : at[t] # "gone"}
Inside == {t \in Threads : at[t] \in {"asleep", "expired", "woken"}}
Unreleased == {t \in Inside : my_gen[t] = generation}

BarrierInit ==
    /\ n_active = Cardinality(Threads)
    /\ n_waiting = 0
    /\ generation = 0
    /\ my_gen = [t \in Threads |-> 0]
    /\ at = [t \in Threads |-> "away"]

----------------------------------------------------------------------------

\* pthread_cond_broadcast: every sleeper is woken, an expired one is not.
Broadcast(places) ==
    [t \in Threads |-> IF places[t] = "asleep" THEN "woken" ELSE places[t]]

\* The three assignments that release a round.
Release(places) ==
    /\ n_waiting' = 0
    /\ generation' = generation + 1
    /\ at' = Broadcast(places)

\* flex_barrier_wait with at most one thread alive: no synchronisation.
PassThrough(t) ==
    /\ at[t] = "away"
    /\ n_active <= 1
    /\ UNCHANGED barrierVars

\* As ArriveLast, one arrival early.
ArriveEarly(t) ==
    /\ at[t] = "away"
    /\ n_active > 1
    /\ generation < MaxRounds
    /\ n_waiting + 1 >= n_active - 1
    /\ Release(at)
    /\ UNCHANGED <<n_active, my_gen>>

\* flex_barrier_wait, the last thread alive to arrive releases the round.
ArriveLast(t) ==
    /\ at[t] = "away"
    /\ n_active > 1
    /\ generation < MaxRounds
    /\ n_waiting + 1 >= n_active
    /\ Release(at)
    /\ UNCHANGED <<n_active, my_gen>>

\* flex_barrier_wait, not the last: remember the generation and sleep.
ArriveAndSleep(t) ==
    /\ at[t] = "away"
    /\ n_active > 1
    /\ generation < MaxRounds
    /\ n_waiting + 1 < n_active
    /\ n_waiting' = n_waiting + 1
    /\ my_gen' = [my_gen EXCEPT ![t] = generation]
    /\ at' = [at EXCEPT ![t] = "asleep"]
    /\ UNCHANGED <<n_active, generation>>

\* The deadline never passes.
NeverExpire(t) == FALSE

\* The 10 ms deadline of a sleeper passes; the mutex is not held yet.
Expire(t) ==
    /\ at[t] = "asleep"
    /\ at' = [at EXCEPT ![t] = "expired"]
    /\ UNCHANGED <<n_active, n_waiting, generation, my_gen>>

\* As LeaveByTimeout, waiting again.
WaitAgain(t) ==
    /\ at[t] = "expired"
    /\ at' = [at EXCEPT ![t] = "asleep"]
    /\ UNCHANGED <<n_active, n_waiting, generation, my_gen>>

\* pthread_cond_timedwait returned ETIMEDOUT: the count is decremented and
\* the call returns, whatever the generation is by now.
LeaveByTimeout(t) ==
    /\ at[t] = "expired"
    /\ n_waiting' = n_waiting - 1
    /\ at' = [at EXCEPT ![t] = "away"]
    /\ UNCHANGED <<n_active, generation, my_gen>>

\* The loop condition after a wake-up: the generation moved, so return.
LeaveByRelease(t) ==
    /\ at[t] = "woken"
    /\ generation # my_gen[t]
    /\ at' = [at EXCEPT ![t] = "away"]
    /\ UNCHANGED <<n_active, n_waiting, generation, my_gen>>

\* As Unregister, without the release of those who wait for the leaver.
UnregisterOnly(t) ==
    /\ at[t] = "away"
    /\ n_active' = n_active - 1
    /\ at' = [at EXCEPT ![t] = "gone"]
    /\ UNCHANGED <<n_waiting, generation, my_gen>>

\* flex_barrier_unregister: one thread fewer; if everybody left is waiting,
\* nobody else would release them.
Unregister(t) ==
    /\ at[t] = "away"
    /\ n_active' = n_active - 1
    /\ LET places == [at EXCEPT ![t] = "gone"] IN
         IF n_waiting > 0 /\ n_waiting >= n_active - 1
           THEN Release(places)
           ELSE at' = places /\ UNCHANGED <<n_waiting, generation>>
    /\ UNCHANGED my_gen

\* Every worker has finished; the pool joins them.
AllWorkersGone ==
    /\ Alive = {}
    /\ UNCHANGED barrierVars

Wait(t) == PassThrough(t) \/ ArriveLast(t) \/ ArriveAndSleep(t)

Return(t) == LeaveByTimeout(t) \/ LeaveByRelease(t)

BarrierNext ==
    \/ \E t \in Threads :
         \/ Wait(t) \/ Expire(t) \/ Return(t) \/ Unregister(t)
    \/ AllWorkersGone

BarrierSpec == BarrierInit /\ [][BarrierNext]_barrierVars

(***************************************************************************)
(* Fairness: a deadline passes and a runnable thread gets the mutex.       *)
(* Nothing is assumed of arrivals: a worker may never come (its pid had    *)
(* no record, or it is blocked on its queue or in a system call).          *)
(***************************************************************************)
BarrierFairSpec ==
    /\ BarrierSpec
    /\ \A t \in Threads : WF_barrierVars(Expire(t)) /\ WF_barrierVars(Return(t))

----------------------------------------------------------------------------

\* Type invariant.  n_waiting can be negative: see LeaveByTimeout.
BarrierTypeOK ==
    /\ n_active \in 0 .. Cardinality(Threads)
    /\ n_waiting \in -Cardinality(Threads) .. Cardinality(Threads)
    /\ generation \in Nat
    /\ my_gen \in [Threads -> Nat]
    /\ at \in [Threads -> BarrierPlaces]

\* The two counters against the threads: n_active is the number of threads
\* that have not unregistered, and n_waiting never exceeds the threads that
\* really wait for the round, so a release can only happen when it is due.
CountsSound ==
    /\ n_active = Cardinality(Alive)
    /\ n_waiting <= Cardinality(Unreleased)

\* No lost wake-up: a thread still asleep waits for the current round; the
\* release of its round would have woken it.
NoLostWakeup ==
    \A t \in Threads : at[t] = "asleep" => my_gen[t] = generation

\* A round everybody alive has joined is never left unreleased.
NoFullRound == n_waiting > 0 => n_waiting < n_active

\* flex_barrier_wait "blocks until all active workers arrive": a release
\* finds every thread alive but the one that takes the step at the barrier.
ReleaseOnlyWhenAllArrived ==
    [][generation' # generation =>
         \E t \in Threads : at[t] = "away" /\ Alive \ {t} = Unreleased]_barrierVars

\* Fewer threads are counted than wait.
Skewed == n_waiting < Cardinality(Unreleased)

\* What the race between a deadline and a release leads to: once n_waiting
\* has been decremented for a thread the release had already taken out of
\* the count, no round is ever released again (every wait then ends by the
\* deadline).
SkewIsPermanent == [][Skewed => Skewed' /\ generation' = generation]_barrierVars

(***************************************************************************)
(* The inductive invariant.  Drift (Unreleased against n_waiting) grows by *)
(* one when an expired thread of an earlier round leaves, so it is bounded *)
(* by the threads together with those that can still make it grow.         *)
(***************************************************************************)
Overdue == {t \in Threads : at[t] = "expired" /\ my_gen[t] # generation}

DriftBounded ==
    Cardinality(Unreleased) - n_waiting + Cardinality(Overdue)
        <= Cardinality(Threads)

\* The conjunction that is preserved by every step.
BarrierInv ==
    /\ BarrierTypeOK
    /\ CountsSound
    /\ NoLostWakeup
    /\ NoFullRound
    /\ DriftBounded
    /\ \A t \in Threads : my_gen[t] <= generation

\* A thread that waits returns, even if the others never arrive.
EveryWaitReturns ==
    \A t \in Threads : at[t] = "asleep" ~> at[t] = "away"

============================================================================
