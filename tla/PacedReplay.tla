---------------------------- MODULE PacedReplay ----------------------------
(***************************************************************************)
(* The --paced mode of syscall_replayer.c: every worker issues its records *)
(* no earlier, relative to one shared anchor, than they were captured      *)
(* relative to the first record of the capture.  The anchor is the time at *)
(* which the first worker gets here, set under a lock after an unlocked    *)
(* look at start_done.  A worker that is ahead sleeps once, for at most    *)
(* one second; a worker that is behind issues at once.                     *)
(***************************************************************************)
EXTENDS Integers, Sequences

CONSTANTS
    Workers,
    Due,        \* worker -> the times of its records after capture_start_ns
    MaxSleep,   \* the cap on one sleep (1 s)
    Horizon     \* bound on the clock

ASSUME PacedAssumption ==
    /\ Due \in [Workers -> Seq(Nat)]
    /\ MaxSleep \in Nat /\ Horizon \in Nat

VARIABLES
    clock,            \* CLOCK_MONOTONIC
    start_done, replay_start,
    holder,           \* workers that hold start_lock (at most one)
    pc, next,         \* where a worker is, and the record it is at
    wake,             \* when a worker's sleep ends
    early             \* workers whose last record was issued before its time

pacedVars == <<clock, start_done, replay_start, holder, pc, next, wake, early>>

PacedInit ==
    /\ clock = 0 /\ start_done = FALSE /\ replay_start = 0 /\ holder = {}
    /\ pc = [w \in Workers |-> "take"]
    /\ next = [w \in Workers |-> 1]
    /\ wake = [w \in Workers |-> 0]
    /\ early = {}

Tick ==
    /\ clock < Horizon
    /\ clock' = clock + 1
    /\ UNCHANGED <<start_done, replay_start, holder, pc, next, wake, early>>

\* Take a record and look at start_done without the lock.
Take(w) ==
    /\ pc[w] = "take" /\ next[w] <= Len(Due[w])
    /\ pc' = [pc EXCEPT ![w] = IF start_done THEN "plan" ELSE "lock"]
    /\ UNCHANGED <<clock, start_done, replay_start, holder, next, wake, early>>

\* As Lock, without looking at start_done again.
LockNoRecheck(w) ==
    /\ pc[w] = "lock" /\ holder = {}
    /\ replay_start' = clock
    /\ holder' = {w}
    /\ pc' = [pc EXCEPT ![w] = "publish"]
    /\ UNCHANGED <<clock, start_done, next, wake, early>>

\* With the lock, look again; the first one writes the anchor.
Lock(w) ==
    /\ pc[w] = "lock" /\ holder = {}
    /\ IF start_done
         THEN /\ pc' = [pc EXCEPT ![w] = "plan"]
              /\ UNCHANGED <<holder, replay_start>>
         ELSE /\ replay_start' = clock
              /\ holder' = {w}
              /\ pc' = [pc EXCEPT ![w] = "publish"]
    /\ UNCHANGED <<clock, start_done, next, wake, early>>

\* Then publish it and unlock.
Publish(w) ==
    /\ pc[w] = "publish"
    /\ start_done' = TRUE /\ holder' = {}
    /\ pc' = [pc EXCEPT ![w] = "plan"]
    /\ UNCHANGED <<clock, replay_start, next, wake, early>>

\* Compare the two elapsed times and choose the sleep.
Plan(w) ==
    /\ pc[w] = "plan"
    /\ LET ahead == Due[w][next[w]] - (clock - replay_start)
       IN  wake' = [wake EXCEPT ![w] =
             clock + (IF ahead <= 0 THEN 0
                      ELSE IF ahead > MaxSleep THEN MaxSleep ELSE ahead)]
    /\ pc' = [pc EXCEPT ![w] = "sleep"]
    /\ UNCHANGED <<clock, start_done, replay_start, holder, next, early>>

\* The sleep is over: issue the record.
Issue(w) ==
    /\ pc[w] = "sleep" /\ clock >= wake[w]
    /\ early' = IF clock - replay_start < Due[w][next[w]]
                THEN early \cup {w} ELSE early \ {w}
    /\ next' = [next EXCEPT ![w] = @ + 1]
    /\ pc' = [pc EXCEPT ![w] = "take"]
    /\ UNCHANGED <<clock, start_done, replay_start, holder, wake>>

Step(w) == Take(w) \/ Lock(w) \/ Publish(w) \/ Plan(w) \/ Issue(w)

\* Nothing is left to replay, or the clock has reached its bound.
Stopped ==
    /\ clock = Horizon
    /\ UNCHANGED pacedVars

PacedNext == Tick \/ (\E w \in Workers : Step(w)) \/ Stopped

PacedSpec == PacedInit /\ [][PacedNext]_pacedVars

----------------------------------------------------------------------------
PacedPlaces == {"take", "lock", "publish", "plan", "sleep"}

\* Type invariant.
PacedTypeOK ==
    /\ clock \in 0 .. Horizon
    /\ start_done \in BOOLEAN /\ replay_start \in 0 .. Horizon
    /\ holder \subseteq Workers
    /\ pc \in [Workers -> PacedPlaces]
    /\ next \in [Workers -> Nat \ {0}]
    /\ wake \in [Workers -> Nat]
    /\ early \subseteq Workers

\* No sleep is cut: the gaps between a worker's records fit in one sleep.
GapsFit ==
    \A w \in Workers : \A i \in 1 .. Len(Due[w]) :
        Due[w][i] <= MaxSleep + (IF i = 1 THEN 0 ELSE Due[w][i - 1])

\* "a record captured 5ms after t0 is issued ~5ms after replay t0
\* regardless of which worker owns it": no record is issued before its time.
NeverEarly == early = {}

\* The same for a capture whose gaps fit in one sleep.
NeverEarlyIfGapsFit == GapsFit => NeverEarly

\* The shared anchor, once published, never moves.
AnchorIsSetOnce == [][start_done => replay_start' = replay_start]_pacedVars

\* The inductive invariant: the anchor lies in the past and is fixed for
\* everybody past the lock; a worker has lived through the time of its
\* previous record, and a sleeper wakes no earlier than its record's time.
Anchored ==
    /\ replay_start <= clock
    /\ start_done => holder = {}
    /\ \A w \in Workers :
         /\ pc[w] = "publish" <=> w \in holder
         /\ pc[w] \in {"plan", "sleep"} => start_done
         /\ pc[w] # "take" => next[w] <= Len(Due[w])
         /\ next[w] > 1 => start_done

OnTime ==
    \A w \in Workers :
        /\ next[w] > 1 /\ next[w] <= Len(Due[w]) + 1 =>
             clock - replay_start >= Due[w][next[w] - 1]
        /\ pc[w] = "sleep" => wake[w] - replay_start >= Due[w][next[w]]

PacedInv ==
    /\ PacedTypeOK
    /\ Anchored
    /\ \A v, w \in holder : v = w
    /\ \A w \in Workers : next[w] <= Len(Due[w]) + 1
    /\ GapsFit => OnTime /\ NeverEarly
============================================================================
