----------------------------- MODULE ClockProbe -----------------------------
(***************************************************************************)
(* How the coordinator measures a client's clock (coordinator.py,          *)
(* _probe_clock) and puts the client's times on its own time line          *)
(* (_merge): of several round trips the shortest gives the offset, taken   *)
(* at the middle of the round trip.  The client then starts its run, at    *)
(* some time after the coordinator's start.                                *)
(***************************************************************************)
EXTENDS Integers

CONSTANTS
    Skews,      \* client clock minus coordinator clock
    Probes,     \* PROBES: round trips
    LastTick    \* bound on the coordinator's clock

ASSUME ProbeAssumption ==
    /\ Skews \subseteq Int
    /\ Probes \in Nat \ {0} /\ LastTick \in Nat

VARIABLES
    skew,        \* the true offset
    tick,        \* the coordinator's clock
    leg,         \* where the probe is
    t0,          \* when the ping was sent
    tClient,     \* the client's clock in the pong
    trips,       \* round trips made
    best,        \* the least (rtt, offset)
    startNs,     \* when the coordinator sent start
    coordStart   \* when the client started, on the coordinator's time line

probeVars == <<skew, tick, leg, t0, tClient, trips, best, startNs, coordStart>>

ProbeInit ==
    /\ skew \in Skews
    /\ tick = 0 /\ leg = "idle" /\ t0 = 0 /\ tClient = 0 /\ trips = 0
    /\ best = [rtt |-> 0, offset |-> 0]
    /\ startNs = 0 /\ coordStart = 0

ProbeTick ==
    /\ tick < LastTick /\ leg # "over"
    /\ tick' = tick + 1
    /\ UNCHANGED <<skew, leg, t0, tClient, trips, best, startNs, coordStart>>

Ping ==
    /\ leg = "idle" /\ trips < Probes
    /\ t0' = tick /\ leg' = "out"
    /\ UNCHANGED <<skew, tick, tClient, trips, best, startNs, coordStart>>

\* The client reads its clock.
Pong ==
    /\ leg = "out"
    /\ tClient' = tick + skew /\ leg' = "back"
    /\ UNCHANGED <<skew, tick, t0, trips, best, startNs, coordStart>>

\* Tuples compare by round trip, then by offset.
Less(s, t) == s.rtt < t.rtt \/ (s.rtt = t.rtt /\ s.offset < t.offset)

\* As Sample, taking the client's clock to be read at the start of the trip.
SampleEarly == [rtt |-> tick - t0, offset |-> tClient - t0]

\* client clock minus coordinator clock, assuming symmetric delay
Sample == [rtt |-> tick - t0, offset |-> tClient - (t0 + (tick - t0) \div 2)]

KeepBest(s) == IF trips = 0 \/ Less(s, best) THEN s ELSE best

RoundTrip ==
    /\ leg = "back"
    /\ best' = KeepBest(Sample)
    /\ trips' = trips + 1 /\ leg' = "idle"
    /\ UNCHANGED <<skew, tick, t0, tClient, startNs, coordStart>>

\* All probed: the coordinator starts the run.
StartRun ==
    /\ leg = "idle" /\ trips = Probes
    /\ startNs' = tick /\ leg' = "start"
    /\ UNCHANGED <<skew, tick, t0, tClient, trips, best, coordStart>>

\* The client starts; a row at time 0 of its run is put on the
\* coordinator's time line relative to the start.
MergeStart ==
    /\ leg = "start"
    /\ coordStart' = (tick + skew) - best.offset - startNs
    /\ leg' = "over"
    /\ UNCHANGED <<skew, tick, t0, tClient, trips, best, startNs>>

ProbeNext == ProbeTick \/ Ping \/ Pong \/ RoundTrip \/ StartRun \/ MergeStart

ProbeSpec == ProbeInit /\ [][ProbeNext]_probeVars

----------------------------------------------------------------------------
\* Type invariant.
ProbeTypeOK ==
    /\ skew \in Skews /\ tick \in Nat /\ t0 \in Nat /\ trips \in Nat
    /\ tClient \in Int /\ startNs \in Nat /\ coordStart \in Int
    /\ leg \in {"idle", "out", "back", "start", "over"}
    /\ best \in [rtt : Nat, offset : Int]

\* uncertainty_ns, half the shortest round trip
Uncertainty == best.rtt \div 2

\* The measured offset is the true one within the recorded uncertainty, but
\* for the nanosecond that halving an odd round trip loses.
OffsetWithinUncertainty ==
    trips > 0 => best.offset - skew \in -Uncertainty .. Uncertainty + 1

\* On the coordinator's time line no client starts before the coordinator
\* does, within the uncertainty and that nanosecond.
StartsAfterStart == leg = "over" => coordStart >= -(Uncertainty + 1)

\* What else holds during a round trip: the client's clock was read between
\* the ping and now.
TripBounds ==
    /\ t0 <= tick
    /\ leg = "back" => tClient - skew \in t0 .. tick
    /\ leg \in {"start", "over"} => trips > 0 /\ startNs <= tick

\* The inductive invariant: both promises of the measurement, the types, and
\* the order of the readings in a round trip.
ProbeInv == ProbeTypeOK /\ TripBounds /\ OffsetWithinUncertainty /\ StartsAfterStart

\* The recorded uncertainty never grows with another probe.
UncertaintyShrinks == [][trips > 0 => best'.rtt <= best.rtt]_probeVars
============================================================================
