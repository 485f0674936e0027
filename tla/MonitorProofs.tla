--------------------------- MODULE MonitorProofs ---------------------------
(***************************************************************************)
(* For any threads, any number of calls and any size of the buffers: the   *)
(* statistics of the monitor count every call unless two first calls of a  *)
(* kind overlap, and while mmap_entry_map holds every thread, a captured   *)
(* return record of mmap has the time of the entry record of its own call. *)
(* Then the ftrace collector: tracefs is as it was found however collect   *)
(* ends, and as long as the kernel drops no line, an NVMe latency in the   *)
(* sample is that of one command.  And the I/O path observer: whatever the *)
(* processes do meanwhile, a record is about the process and the file of   *)
(* its event, and a descendant of the target is tracked.                   *)
(***************************************************************************)
EXTENDS SyscallMonitor, FtraceCollector, PathObserver,
        FiniteSetTheorems, SequenceTheorems, WellFoundedInduction, TLAPS

----------------------------------------------------------------------------
(* The statistics.                                                         *)

\* Initially nothing is counted and nobody counts.
LEMMA CountsStart == MonInit => CountsAllUnlessRaced
  <1> SUFFICES ASSUME MonInit PROVE CountsAllUnlessRaced
    OBVIOUS
  <1>1. ProbesTyped
    BY DEF MonInit, ProbesTyped, Probes
  <1>2. StatsTyped
    BY DEF MonInit, StatsTyped
  <1>3. LogTyped
    BY MonitorAssumption DEF MonInit, LogTyped
  <1>4. LookupsFresh /\ syscall_counts = calls /\ \A n \in Nrs : elem[n] = 0 => calls[n] = 0
    BY DEF MonInit, LookupsFresh
  <1> QED
    BY <1>1, <1>2, <1>3, <1>4 DEF CountsAllUnlessRaced, MonTypeOK

\* A step in a probe's life that keeps within the kinds of probe.
LEMMA ProbeMoves ==
    ASSUME ProbesTyped, NEW t \in Tasks, NEW p \in Probes, probe' = [probe EXCEPT ![t] = p],
           p.at # "user" => p.kind # "none" /\ p.nr \in Nrs,
           p.kind = "return" => p.nr = "mmap"
    PROVE  /\ ProbesTyped' /\ probe'[t] = p
           /\ \A u \in Tasks : u # t => probe'[u] = probe[u]
  BY DEF ProbesTyped

\* A probe is a record of its fields.
LEMMA ProbeFields ==
    ASSUME NEW p \in Probes
    PROVE  /\ p.kind \in {"none", "entry", "return", "exit"} /\ p.at \in {"user", "look", "stat", "log"}
           /\ p.nr \in Nrs \cup {"none"} /\ p.call \in Nat
           /\ p = [kind |-> p.kind, at |-> p.at, nr |-> p.nr, call |-> p.call]
  BY DEF Probes

\* An entry probe begins, or only the exit of an unreadable openat.
LEMMA EnterTyped ==
    ASSUME MonTypeOK, NEW t \in Tasks, EnterCall(t) \/ EnterUnreadable(t)
    PROVE  /\ ProbesTyped' /\ probe'[t].at \in {"look", "log"} /\ probe'[t].kind # "return"
           /\ \A u \in Tasks : u # t => probe'[u] = probe[u]
  <1>0. ProbesTyped /\ probe[t] \in Probes /\ probe[t].call \in Nat
    BY ProbeFields DEF MonTypeOK, ProbesTyped
  <1>1. ASSUME NEW k \in {"entry", "exit"}, NEW a \in {"look", "log"}, NEW n \in Nrs,
               probe' = [probe EXCEPT ![t] = [kind |-> k, at |-> a, nr |-> n, call |-> @.call + 1]]
        PROVE  /\ ProbesTyped' /\ probe'[t].at \in {"look", "log"} /\ probe'[t].kind # "return"
               /\ \A u \in Tasks : u # t => probe'[u] = probe[u]
    <2>1. PICK p : p = [kind |-> k, at |-> a, nr |-> n, call |-> probe[t].call + 1]
      OBVIOUS
    <2>2. p \in Probes /\ p.kind = k /\ p.at = a /\ p.nr = n
      BY <1>0, <2>1 DEF Probes
    <2>3. probe' = [probe EXCEPT ![t] = p]
      BY <1>1, <2>1
    <2> QED
      BY <1>0, <2>2, <2>3, ProbeMoves
  <1>2. CASE EnterCall(t)
    BY <1>1, <1>2 DEF EnterCall
  <1>3. CASE EnterUnreadable(t)
    BY <1>1, <1>3 DEF EnterUnreadable
  <1> QED
    BY <1>2, <1>3

\* A probe goes on from its lookup to its update and from there to its log.
LEMMA StatTyped ==
    ASSUME MonTypeOK, NEW t \in Tasks, NEW a \in {"stat", "log"}, probe[t].at # "user",
           probe' = [probe EXCEPT ![t].at = a]
    PROVE  /\ ProbesTyped' /\ probe[t].nr \in Nrs
           /\ probe'[t].at = a /\ probe'[t].nr = probe[t].nr
           /\ probe'[t].kind = probe[t].kind /\ probe'[t].call = probe[t].call
           /\ \A u \in Tasks : u # t => probe'[u] = probe[u]
  <1>0. ProbesTyped /\ probe[t] \in Probes /\ probe[t].nr \in Nrs /\ probe[t].kind # "none"
        /\ (probe[t].kind = "return" => probe[t].nr = "mmap")
    BY DEF MonTypeOK, ProbesTyped
  <1>1. PICK q \in Probes : q = probe[t]
    BY <1>0
  <1>2. PICK p : p = [kind |-> q.kind, at |-> a, nr |-> q.nr, call |-> q.call]
    OBVIOUS
  <1>3. p \in Probes /\ p.kind = q.kind /\ p.at = a /\ p.nr = q.nr /\ p.call = q.call
    BY <1>2, ProbeFields DEF Probes
  <1>4. probe' = [probe EXCEPT ![t] = p]
    <2>1. q = [kind |-> q.kind, at |-> q.at, nr |-> q.nr, call |-> q.call]
      BY ProbeFields
    <2>2. [q EXCEPT !.at = a] = p
      BY <1>2, <2>1
    <2> QED
      BY <1>1, <2>2
  <1>5. p.nr \in Nrs /\ p.kind # "none" /\ (p.kind = "return" => p.nr = "mmap")
    BY <1>0, <1>1, <1>3
  <1>6. ProbesTyped' /\ probe'[t] = p /\ \A u \in Tasks : u # t => probe'[u] = probe[u]
    BY <1>0, <1>3, <1>4, <1>5, ProbeMoves
  <1> QED
    BY <1>0, <1>1, <1>3, <1>6

\* A probe that has logged goes on to the next probe of its call.
LEMMA NextTyped ==
    ASSUME MonTypeOK, NEW t \in Tasks, probe[t].at = "log", probe' = [probe EXCEPT ![t] = NextProbe(@)]
    PROVE  /\ ProbesTyped' /\ probe'[t].at # "stat" /\ probe'[t].call = probe[t].call
           /\ probe[t].nr \in Nrs /\ probe[t].kind \in {"entry", "return", "exit"} /\ probe[t].call \in Nat
           /\ probe[t].kind = "return" => probe[t].nr = "mmap"
           /\ probe'[t].kind = "return" => probe[t].kind = "entry" /\ probe[t].nr = "mmap"
           /\ \A u \in Tasks : u # t => probe'[u] = probe[u]
  <1>1. PICK q \in Probes : q = probe[t]
    BY DEF MonTypeOK, ProbesTyped
  <1>2. /\ q.kind # "none" /\ q.nr \in Nrs /\ (q.kind = "return" => q.nr = "mmap")
        /\ q.kind \in {"entry", "return", "exit"} /\ q.call \in Nat
    BY <1>1, ProbeFields DEF MonTypeOK, ProbesTyped
  <1>3. PICK p : p = NextProbe(q)
    OBVIOUS
  <1>4. /\ p \in Probes /\ p.nr = q.nr /\ p.call = q.call /\ p.at # "stat"
        /\ p.at # "user" => p.kind # "none"
        /\ p.kind = "return" => q.kind = "entry" /\ q.nr = "mmap"
    BY <1>2, <1>3 DEF NextProbe, Goes, Probes
  <1>5. probe' = [probe EXCEPT ![t] = p]
    BY <1>1, <1>3
  <1>6. p.nr \in Nrs /\ (p.kind = "return" => p.nr = "mmap")
    BY <1>2, <1>4
  <1>7. ProbesTyped' /\ probe'[t] = p /\ \A u \in Tasks : u # t => probe'[u] = probe[u]
    BY <1>4, <1>5, <1>6, ProbeMoves DEF MonTypeOK
  <1> QED
    BY <1>1, <1>2, <1>4, <1>7

\* What log_event writes is a record, and a time for a thread at most.
LEMMA LogStepTyped ==
    ASSUME MonTypeOK, NEW t \in Tasks, LogEvent(t)
    PROVE  LogTyped' /\ Stamp(t) \in Nat
  <1>0. /\ ktime \in Nat /\ lost \subseteq Tasks /\ DOMAIN mmap_entry_map \subseteq Tasks
        /\ \A u \in DOMAIN mmap_entry_map : mmap_entry_map[u] \in Nat
        /\ ring \in Seq(LogRecords) /\ Len(ring) <= RingRecords
        /\ events \in Seq(LogRecords) /\ max_events \in Nat \ {0} /\ Len(events) <= max_events
        /\ events_dropped \in Nat
    BY DEF MonTypeOK, LogTyped
  <1>1. probe[t].nr \in Nrs /\ probe[t].kind \in {"entry", "return", "exit"} /\ probe[t].call \in Nat
    BY NextTyped DEF LogEvent
  <1>2. Stamp(t) \in Nat
    BY <1>0 DEF Stamp, EntryKey
  <1>3. ktime' \in Nat /\ lost' \subseteq Tasks /\ UNCHANGED <<events, max_events, events_dropped>>
    BY <1>0 DEF LogEvent
  <1>4. ring' \in Seq(LogRecords) /\ Len(ring') <= RingRecords
    <2>1. PICK r : r = [task |-> t, kind |-> probe[t].kind, nr |-> probe[t].nr,
                        call |-> probe[t].call, timestamp |-> Stamp(t)]
      OBVIOUS
    <2>2. r \in LogRecords
      BY <1>1, <1>2, <2>1 DEF LogRecords
    <2>3. ring' = ring \/ (Len(ring) < RingRecords /\ ring' = Append(ring, r))
      BY <2>1 DEF LogEvent
    <2>4. CASE Len(ring) < RingRecords /\ ring' = Append(ring, r)
      <3>1. ring' \in Seq(LogRecords) /\ Len(ring') = Len(ring) + 1
        BY <1>0, <2>2, <2>4
      <3>2. Len(ring) \in Nat /\ RingRecords \in Nat
        BY <1>0, MonitorAssumption
      <3> QED
        BY <2>4, <3>1, <3>2
    <2> QED
      BY <1>0, <2>3, <2>4
  <1>5. DOMAIN mmap_entry_map' \subseteq Tasks /\ \A u \in DOMAIN mmap_entry_map' : mmap_entry_map'[u] \in Nat
    <2>1. mmap_entry_map' = mmap_entry_map \/ mmap_entry_map' = EntryMapAfter(t)
      BY DEF LogEvent
    <2>2. CASE mmap_entry_map' = EntryMapAfter(t)
      BY <1>0, <2>2 DEF EntryMapAfter, EntryKey, Saved, With, Without
    <2> QED
      BY <1>0, <2>1, <2>2
  <1> QED
    BY <1>0, <1>2, <1>3, <1>4, <1>5 DEF LogTyped

\* handle_event stores a record within the array, which it may have doubled.
LEMMA HandleStepTyped ==
    ASSUME MonTypeOK, HandleEvent
    PROVE  /\ LogTyped' /\ Head(ring) \in LogRecords /\ Head(ring) = ring[1] /\ Len(ring) > 0
           /\ Len(ring') = Len(ring) - 1 /\ \A i \in 1 .. Len(ring) - 1 : ring'[i] = ring[i + 1]
  <1>0. /\ ktime \in Nat /\ lost \subseteq Tasks /\ DOMAIN mmap_entry_map \subseteq Tasks
        /\ \A u \in DOMAIN mmap_entry_map : mmap_entry_map[u] \in Nat
        /\ ring \in Seq(LogRecords) /\ Len(ring) <= RingRecords
        /\ events \in Seq(LogRecords) /\ max_events \in Nat \ {0} /\ Len(events) <= max_events
        /\ events_dropped \in Nat
    BY DEF MonTypeOK, LogTyped
  <1>1. ring # <<>> /\ ring' = Tail(ring) /\ UNCHANGED <<ktime, mmap_entry_map>>
    BY DEF HandleEvent
  <1>2. Head(ring) \in LogRecords /\ Head(ring) = ring[1] /\ Len(ring) > 0 /\ Len(ring) \in Nat
    BY <1>0, <1>1
  <1>3. /\ ring' \in Seq(LogRecords) /\ Len(ring') = Len(ring) - 1
        /\ \A i \in 1 .. Len(ring) - 1 : ring'[i] = ring[i + 1]
    BY <1>0, <1>1
  <1>4. Head(ring).task \in Tasks
    BY <1>2 DEF LogRecords
  <1>5. lost' \subseteq Tasks /\ events_dropped' \in Nat
    BY <1>0, <1>4 DEF HandleEvent
  <1>6. events' \in Seq(LogRecords) /\ max_events' \in Nat \ {0} /\ Len(events') <= max_events'
    <2>1. CASE Len(events) < max_events /\ events' = Append(events, Head(ring)) /\ max_events' = max_events
      BY <1>0, <1>2, <2>1
    <2>2. CASE max_events' = max_events * 2 /\ events' = Append(events, Head(ring))
      BY <1>0, <1>2, <2>2
    <2>3. CASE UNCHANGED <<events, max_events>>
      BY <1>0, <2>3
    <2> QED
      BY <2>1, <2>2, <2>3 DEF HandleEvent
  <1> QED
    BY <1>0, <1>1, <1>2, <1>3, <1>5, <1>6, MonitorAssumption DEF LogTyped

\* A step of update_stats keeps the types of the statistics.
LEMMA StatsStepTyped ==
    ASSUME MonTypeOK, NEW t \in Tasks, StatsLookup(t) \/ StatsUpdate(t)
    PROVE  StatsTyped'
  <1>0. /\ syscall_counts \in [Nrs -> Nat] /\ elem \in [Nrs -> Nat] /\ found \in [Tasks -> Nat]
        /\ calls \in [Nrs -> Nat] /\ raced \in BOOLEAN
    BY DEF MonTypeOK, StatsTyped
  <1>1. probe[t].nr \in Nrs
    BY DEF MonTypeOK, ProbesTyped, StatsLookup, StatsUpdate
  <1>2. CASE StatsLookup(t)
    <2>1. found' \in [Tasks -> Nat]
      BY <1>0, <1>1, <1>2 DEF StatsLookup
    <2>2. raced' \in BOOLEAN
      BY <1>2 DEF StatsLookup
    <2> QED
      BY <1>0, <1>2, <2>1, <2>2 DEF StatsLookup, StatsTyped
  <1>3. CASE StatsUpdate(t)
    <2>1. elem' \in [Nrs -> Nat] /\ calls' \in [Nrs -> Nat]
      BY <1>0, <1>1, <1>3 DEF StatsUpdate
    <2>2. syscall_counts' \in [Nrs -> Nat]
      BY <1>0, <1>1, <1>3 DEF StatsUpdate, CountFor
    <2> QED
      BY <1>0, <1>3, <2>1, <2>2 DEF StatsUpdate, StatsTyped
  <1> QED
    BY <1>2, <1>3

\* What a lookup found stays so while other probes move, unless it races.
LEMMA LookupStep ==
    ASSUME MonTypeOK, LookupsFresh, NEW t \in Tasks, StatsLookup(t), ~raced'
    PROVE  LookupsFresh'
  <1>0. /\ probe[t].at = "look" /\ probe' = [probe EXCEPT ![t].at = "stat"] /\ elem' = elem
        /\ found' = [found EXCEPT ![t] = elem[probe[t].nr]] /\ found \in [Tasks -> Nat]
    BY DEF StatsLookup, MonTypeOK, StatsTyped
  <1>1. /\ probe'[t].at = "stat" /\ probe'[t].nr = probe[t].nr
        /\ \A u \in Tasks : u # t => probe'[u] = probe[u]
    BY <1>0, StatTyped
  <1>2. found'[t] = elem[probe[t].nr] /\ \A u \in Tasks : u # t => found'[u] = found[u]
    BY <1>0
  <1>3. \A u \in Tasks : u # t /\ probe[u].at = "stat" /\ probe[u].nr = probe[t].nr
                           => found[u] # 0 \/ found'[t] # 0
    BY DEF StatsLookup
  <1>4. ASSUME NEW v \in Tasks, probe'[v].at = "stat"
        PROVE  /\ found'[v] = elem'[probe'[v].nr]
               /\ \A u \in Tasks \ {v} : probe'[u].at = "stat" /\ probe'[u].nr = probe'[v].nr => found'[v] # 0
    <2>1. CASE v = t
      BY <1>0, <1>1, <1>2, <1>3, <2>1 DEF LookupsFresh
    <2>2. CASE v # t
      <3>1. probe[v].at = "stat" /\ probe'[v] = probe[v] /\ found'[v] = found[v] /\ found[v] = elem[probe[v].nr]
        BY <1>1, <1>2, <1>4, <2>2 DEF LookupsFresh
      <3>2. ASSUME NEW u \in Tasks \ {v}, probe'[u].at = "stat", probe'[u].nr = probe'[v].nr
            PROVE  found[v] # 0
        <4>1. CASE u = t
          BY <1>1, <1>2, <1>3, <3>1, <3>2, <4>1
        <4>2. CASE u # t
          BY <1>1, <3>1, <3>2, <4>2 DEF LookupsFresh
        <4> QED
          BY <4>1, <4>2
      <3> QED
        BY <1>0, <3>1, <3>2
    <2> QED
      BY <2>1, <2>2
  <1> QED
    BY <1>4 DEF LookupsFresh

\* Without a race every count is the number of updates, and stays so.
LEMMA UpdateStep ==
    ASSUME MonTypeOK, LookupsFresh, syscall_counts = calls, \A n \in Nrs : elem[n] = 0 => calls[n] = 0,
           NEW t \in Tasks, StatsUpdate(t)
    PROVE  LookupsFresh' /\ syscall_counts' = calls' /\ \A n \in Nrs : elem'[n] = 0 => calls'[n] = 0
  <1>0. /\ probe[t].at = "stat" /\ probe' = [probe EXCEPT ![t].at = "log"] /\ found' = found
        /\ elem \in [Nrs -> Nat] /\ calls \in [Nrs -> Nat]
        /\ calls' = [calls EXCEPT ![probe[t].nr] = @ + 1]
        /\ elem' = IF found[t] = 0 THEN [elem EXCEPT ![probe[t].nr] = @ + 1] ELSE elem
    BY DEF StatsUpdate, MonTypeOK, StatsTyped
  <1>1. /\ probe[t].nr \in Nrs /\ probe'[t].at = "log"
        /\ \A u \in Tasks : u # t => probe'[u] = probe[u]
    BY <1>0, StatTyped
  <1>2. found[t] = elem[probe[t].nr]
    BY <1>0 DEF LookupsFresh
  <1>3. syscall_counts' = [syscall_counts EXCEPT ![probe[t].nr] = CountFor(t)]
    BY <1>2 DEF StatsUpdate
  <1>4. CountFor(t) = calls[probe[t].nr] + 1
    BY <1>0, <1>1, <1>2 DEF CountFor
  <1>5. syscall_counts' = calls'
    BY <1>0, <1>3, <1>4
  <1>6. \A n \in Nrs : elem'[n] = 0 => calls'[n] = 0
    BY <1>0, <1>1, <1>2
  <1>7. ASSUME NEW v \in Tasks, probe'[v].at = "stat"
        PROVE  /\ found'[v] = elem'[probe'[v].nr]
               /\ \A u \in Tasks \ {v} : probe'[u].at = "stat" /\ probe'[u].nr = probe'[v].nr => found'[v] # 0
    <2>1. v # t /\ probe'[v] = probe[v] /\ probe[v].at = "stat" /\ found[v] = elem[probe[v].nr]
      BY <1>1, <1>7 DEF LookupsFresh
    <2>2. probe[v].nr = probe[t].nr => found[t] # 0
      BY <1>0, <2>1 DEF LookupsFresh
    <2>3. probe[v].nr \in Nrs
      BY <2>1 DEF MonTypeOK, ProbesTyped
    <2>4. elem'[probe[v].nr] = elem[probe[v].nr]
      BY <1>0, <1>1, <2>2, <2>3
    <2>5. ASSUME NEW u \in Tasks \ {v}, probe'[u].at = "stat", probe'[u].nr = probe'[v].nr
          PROVE  found[v] # 0
      BY <1>1, <2>1, <2>5 DEF LookupsFresh
    <2> QED
      BY <1>0, <2>1, <2>4, <2>5
  <1> QED
    BY <1>5, <1>6, <1>7 DEF LookupsFresh

\* A probe that is not at its update, and goes to no update, disturbs no count.
LEMMA QuietStep ==
    ASSUME LookupsFresh, NEW t \in Tasks, probe'[t].at # "stat", UNCHANGED <<found, elem>>,
           \A u \in Tasks : u # t => probe'[u] = probe[u]
    PROVE  LookupsFresh'
  BY DEF LookupsFresh

\* Every step keeps the types and the counts.
LEMMA CountsStep == CountsAllUnlessRaced /\ [MonNext]_monVars => CountsAllUnlessRaced'
  <1> SUFFICES ASSUME CountsAllUnlessRaced, [MonNext]_monVars PROVE CountsAllUnlessRaced'
    OBVIOUS
  <1> DEFINE Exact == LookupsFresh /\ syscall_counts = calls /\ \A n \in Nrs : elem[n] = 0 => calls[n] = 0
  <1>0. MonTypeOK /\ (raced \/ Exact)
    BY DEF CountsAllUnlessRaced
  <1>1. ASSUME NEW t \in Tasks, EnterCall(t) \/ EnterUnreadable(t) PROVE MonTypeOK' /\ (raced' \/ Exact')
    <2>0. UNCHANGED <<ktime, syscall_counts, elem, found, mmap_entry_map, readerVars, historyVars>>
      BY <1>1 DEF EnterCall, EnterUnreadable
    <2>1. ProbesTyped' /\ probe'[t].at # "stat" /\ \A u \in Tasks : u # t => probe'[u] = probe[u]
      BY <1>0, <1>1, EnterTyped
    <2>2. MonTypeOK'
      BY <1>0, <2>0, <2>1 DEF MonTypeOK, StatsTyped, LogTyped, readerVars, historyVars
    <2>3. Exact => Exact'
      BY <2>0, <2>1, QuietStep DEF readerVars, historyVars
    <2> QED
      BY <1>0, <2>0, <2>2, <2>3 DEF historyVars
  <1>2. ASSUME NEW t \in Tasks, StatsLookup(t) PROVE MonTypeOK' /\ (raced' \/ Exact')
    <2>0. /\ probe[t].at = "look" /\ probe' = [probe EXCEPT ![t].at = "stat"]
          /\ UNCHANGED <<ktime, syscall_counts, elem, mmap_entry_map, readerVars, calls, lost>>
      BY <1>2 DEF StatsLookup
    <2>1. ProbesTyped' /\ StatsTyped'
      BY <1>0, <1>2, <2>0, StatTyped, StatsStepTyped
    <2>2. MonTypeOK'
      BY <1>0, <2>0, <2>1 DEF MonTypeOK, LogTyped, readerVars
    <2>3. ~raced' => ~raced
      BY <1>2 DEF StatsLookup
    <2>4. ~raced' => Exact'
      BY <1>0, <1>2, <2>0, <2>3, LookupStep
    <2> QED
      BY <2>2, <2>4
  <1>3. ASSUME NEW t \in Tasks, StatsUpdate(t) PROVE MonTypeOK' /\ (raced' \/ Exact')
    <2>0. /\ probe[t].at = "stat" /\ probe' = [probe EXCEPT ![t].at = "log"]
          /\ UNCHANGED <<ktime, mmap_entry_map, readerVars, raced, lost>>
      BY <1>3 DEF StatsUpdate
    <2>1. ProbesTyped' /\ StatsTyped'
      BY <1>0, <1>3, <2>0, StatTyped, StatsStepTyped
    <2>2. MonTypeOK'
      BY <1>0, <2>0, <2>1 DEF MonTypeOK, LogTyped, readerVars
    <2>3. Exact => Exact'
      BY <1>0, <1>3, UpdateStep
    <2> QED
      BY <1>0, <2>0, <2>2, <2>3
  <1>4. ASSUME NEW t \in Tasks, LogEvent(t) PROVE MonTypeOK' /\ (raced' \/ Exact')
    <2>0. /\ probe[t].at = "log" /\ probe' = [probe EXCEPT ![t] = NextProbe(@)]
          /\ UNCHANGED <<syscall_counts, elem, found, calls, raced>>
      BY <1>4 DEF LogEvent
    <2>1. ProbesTyped' /\ probe'[t].at # "stat" /\ \A u \in Tasks : u # t => probe'[u] = probe[u]
      BY <1>0, <2>0, NextTyped
    <2>2. MonTypeOK'
      BY <1>0, <1>4, <2>0, <2>1, LogStepTyped DEF MonTypeOK, StatsTyped
    <2>3. Exact => Exact'
      BY <2>0, <2>1, QuietStep
    <2> QED
      BY <1>0, <2>0, <2>2, <2>3
  <1>5. CASE HandleEvent
    <2>0. UNCHANGED <<probe, syscall_counts, elem, found, calls, raced>>
      BY <1>5 DEF HandleEvent
    <2>1. MonTypeOK'
      BY <1>0, <1>5, <2>0, HandleStepTyped DEF MonTypeOK, ProbesTyped, StatsTyped
    <2> QED
      BY <1>0, <2>0, <2>1 DEF LookupsFresh, CountsAllUnlessRaced
  <1>6. CASE StopMonitor \/ UNCHANGED monVars
    <2>0. UNCHANGED <<probe, ktime, syscall_counts, elem, found, mmap_entry_map, ring, events, max_events,
                      events_dropped, calls, raced, lost>>
      BY <1>6 DEF StopMonitor, monVars, readerVars, historyVars
    <2> QED
      BY <1>0, <2>0 DEF MonTypeOK, ProbesTyped, StatsTyped, LogTyped, LookupsFresh, CountsAllUnlessRaced
  <1>7. MonTypeOK' /\ (raced' \/ Exact') => CountsAllUnlessRaced'
    BY DEF CountsAllUnlessRaced
  <1> HIDE DEF Exact
  <1> QED
    BY <1>1, <1>2, <1>3, <1>4, <1>5, <1>6, <1>7 DEF MonNext

\* The statistics of update_stats count every probe that has finished, unless
\* the first two calls of a kind overlapped, however many threads there are.
THEOREM CountsCorrect == MonSpec => []CountsAllUnlessRaced
  BY CountsStart, CountsStep, PTL DEF MonSpec

----------------------------------------------------------------------------
(* The times of the records.                                               *)

\* The fields of a record that was logged.
LEMMA RecordFields ==
    ASSUME NEW s \in Seq(LogRecords), NEW i \in DOMAIN s
    PROVE  s[i].timestamp \in Nat /\ s[i].task \in Tasks /\ i \in 1 .. Len(s)
  <1>1. i \in 1 .. Len(s)
    OBVIOUS
  <1>2. s[i] \in LogRecords
    BY <1>1
  <1> QED
    BY <1>1, <1>2 DEF LogRecords

\* There is room in the map for a thread that is not in it.
LEMMA RoomForAll ==
    ASSUME MapHoldsAll, NEW f, DOMAIN f \subseteq Tasks, NEW t \in Tasks, NEW v
    PROVE  Saved(f, t, v) = With(f, t, v)
  <1>1. CASE t \notin DOMAIN f
    <2>1. IsFiniteSet(Tasks) /\ MaxEntries \in Nat
      BY MonitorAssumption
    <2>2. Cardinality(DOMAIN f) <= Cardinality(Tasks) /\ IsFiniteSet(DOMAIN f)
      BY <2>1, FS_Subset
    <2>3. Cardinality(DOMAIN f) # Cardinality(Tasks)
      BY <1>1, <2>1, FS_Subset
    <2>4. Cardinality(DOMAIN f) \in Nat /\ Cardinality(Tasks) \in Nat
      BY <2>1, <2>2, FS_CardinalityType
    <2> QED
      BY <2>1, <2>2, <2>3, <2>4 DEF Saved, MapHoldsAll
  <1> QED
    BY <1>1 DEF Saved

\* What log_event does to the records of a ring buffer that has room.
LEMMA RecordLogged ==
    ASSUME MonTypeOK, NEW t \in Tasks, LogEvent(t)
    PROVE  /\ ktime' = ktime + 1 /\ ktime \in Nat /\ events' = events
           /\ DOMAIN ring = 1 .. Len(ring) /\ DOMAIN ring' = 1 .. Len(ring') /\ Len(ring) \in Nat
           /\ \/ ring' = ring /\ mmap_entry_map' = mmap_entry_map /\ lost' = lost \cup {t}
              \/ /\ Len(ring') = Len(ring) + 1 /\ (\A i \in 1 .. Len(ring) : ring'[i] = ring[i])
                 /\ mmap_entry_map' = EntryMapAfter(t) /\ lost' = lost
                 /\ ring'[Len(ring) + 1] = [task |-> t, kind |-> probe[t].kind, nr |-> probe[t].nr,
                                            call |-> probe[t].call, timestamp |-> Stamp(t)]
  <1>1. ring \in Seq(LogRecords) /\ ring' \in Seq(LogRecords) /\ ktime \in Nat
    BY LogStepTyped DEF MonTypeOK, LogTyped
  <1>2. PICK r : r = [task |-> t, kind |-> probe[t].kind, nr |-> probe[t].nr,
                      call |-> probe[t].call, timestamp |-> Stamp(t)]
    OBVIOUS
  <1>3. \/ ring' = ring /\ mmap_entry_map' = mmap_entry_map /\ lost' = lost \cup {t}
        \/ ring' = Append(ring, r) /\ mmap_entry_map' = EntryMapAfter(t) /\ lost' = lost
    BY <1>2 DEF LogEvent
  <1>4. ring' = Append(ring, r) =>
          /\ Len(ring') = Len(ring) + 1 /\ (\A i \in 1 .. Len(ring) : ring'[i] = ring[i])
          /\ ring'[Len(ring) + 1] = r
    BY <1>1
  <1>5. DOMAIN ring = 1 .. Len(ring) /\ DOMAIN ring' = 1 .. Len(ring') /\ Len(ring) \in Nat
    BY <1>1
  <1>6. ktime' = ktime + 1 /\ events' = events
    BY DEF LogEvent
  <1> QED
    BY <1>1, <1>2, <1>3, <1>4, <1>5, <1>6

\* An entry record gets a time no entry record had before.
LEMMA StampedByLog ==
    ASSUME MonTypeOK, StampedOnce, NEW t \in Tasks, LogEvent(t)
    PROVE  StampedOnce'
  <1>0. /\ ktime' = ktime + 1 /\ ktime \in Nat /\ events' = events
        /\ DOMAIN ring = 1 .. Len(ring) /\ DOMAIN ring' = 1 .. Len(ring') /\ Len(ring) \in Nat
    BY RecordLogged
  <1>1. \A i \in Entries(events) : events[i].timestamp \in Nat
    BY RecordFields DEF MonTypeOK, LogTyped, Entries
  <1>2. \A i \in Entries(ring) : ring[i].timestamp \in Nat
    BY RecordFields DEF MonTypeOK, LogTyped, Entries
  <1>3. \A i \in Entries(ring') : \/ i \in Entries(ring) /\ ring'[i] = ring[i]
                                  \/ i = Len(ring) + 1 /\ ring'[i].timestamp = ktime
    <2>1. CASE ring' = ring
      BY <2>1
    <2>2. CASE /\ Len(ring') = Len(ring) + 1 /\ (\A i \in 1 .. Len(ring) : ring'[i] = ring[i])
               /\ ring'[Len(ring) + 1] = [task |-> t, kind |-> probe[t].kind, nr |-> probe[t].nr,
                                          call |-> probe[t].call, timestamp |-> Stamp(t)]
      <3>1. ring'[Len(ring) + 1].kind = "entry" => ring'[Len(ring) + 1].timestamp = ktime
        BY <2>2 DEF Stamp
      <3>2. \A i \in 1 .. Len(ring) + 1 : i \in 1 .. Len(ring) \/ i = Len(ring) + 1
        BY <1>0
      <3>3. DOMAIN ring' = 1 .. Len(ring) + 1
        BY <1>0, <2>2
      <3> QED
        BY <1>0, <2>2, <3>1, <3>2, <3>3 DEF Entries
    <2> QED
      BY <2>1, <2>2, RecordLogged
  <1>4. \A i \in Entries(ring') : ring'[i].timestamp < ktime'
    BY <1>0, <1>2, <1>3 DEF StampedOnce
  <1>5. \A i \in Entries(events) : events[i].timestamp < ktime'
    BY <1>0, <1>1 DEF StampedOnce
  <1>6. \A i, j \in Entries(ring') : ring'[i].timestamp = ring'[j].timestamp => i = j
    BY <1>0, <1>2, <1>3 DEF StampedOnce
  <1>7. \A i \in Entries(events), j \in Entries(ring') : events[i].timestamp # ring'[j].timestamp
    BY <1>0, <1>1, <1>2, <1>3 DEF StampedOnce
  <1> QED
    BY <1>0, <1>4, <1>5, <1>6, <1>7 DEF StampedOnce

\* What handle_event does to the records: the first of the ring buffer goes
\* to the end of the array, or is dropped and its thread has lost a record.
LEMMA RecordHandled ==
    ASSUME MonTypeOK, HandleEvent
    PROVE  /\ ktime' = ktime /\ probe' = probe /\ mmap_entry_map' = mmap_entry_map
           /\ Len(ring) \in Nat /\ Len(ring) > 0 /\ Len(events) \in Nat
           /\ DOMAIN ring = 1 .. Len(ring) /\ DOMAIN ring' = 1 .. Len(ring) - 1 /\ DOMAIN events = 1 .. Len(events)
           /\ \A i \in 1 .. Len(ring) - 1 : ring'[i] = ring[i + 1]
           /\ \/ events' = events /\ lost' = lost \cup {ring[1].task}
              \/ /\ DOMAIN events' = 1 .. Len(events) + 1 /\ Len(events') = Len(events) + 1 /\ lost' = lost
                 /\ (\A i \in 1 .. Len(events) : events'[i] = events[i]) /\ events'[Len(events) + 1] = ring[1]
  <1>1. /\ ring \in Seq(LogRecords) /\ ring' \in Seq(LogRecords)
        /\ events \in Seq(LogRecords) /\ events' \in Seq(LogRecords)
    BY HandleStepTyped DEF MonTypeOK, LogTyped
  <1>2. /\ Head(ring) = ring[1] /\ Len(ring) > 0 /\ Len(ring') = Len(ring) - 1
        /\ \A i \in 1 .. Len(ring) - 1 : ring'[i] = ring[i + 1]
    BY HandleStepTyped
  <1>3. \/ events' = events /\ lost' = lost \cup {ring[1].task}
        \/ events' = Append(events, ring[1]) /\ lost' = lost
    BY <1>2 DEF HandleEvent
  <1>4. events' = Append(events, ring[1]) =>
          /\ Len(events') = Len(events) + 1 /\ (\A i \in 1 .. Len(events) : events'[i] = events[i])
          /\ events'[Len(events) + 1] = ring[1]
    BY <1>1
  <1>5. /\ DOMAIN ring = 1 .. Len(ring) /\ DOMAIN ring' = 1 .. Len(ring') /\ Len(ring) \in Nat
        /\ DOMAIN events = 1 .. Len(events) /\ DOMAIN events' = 1 .. Len(events') /\ Len(events) \in Nat
    BY <1>1
  <1>6. ktime' = ktime /\ probe' = probe /\ mmap_entry_map' = mmap_entry_map
    BY DEF HandleEvent
  <1> QED
    BY <1>2, <1>3, <1>4, <1>5, <1>6

\* Handling a record changes no time.
LEMMA StampedByHandle ==
    ASSUME MonTypeOK, StampedOnce, HandleEvent
    PROVE  StampedOnce'
  <1>0. /\ ktime' = ktime /\ Len(ring) \in Nat /\ Len(ring) > 0 /\ Len(events) \in Nat
        /\ DOMAIN ring = 1 .. Len(ring) /\ DOMAIN ring' = 1 .. Len(ring) - 1 /\ DOMAIN events = 1 .. Len(events)
        /\ \A i \in 1 .. Len(ring) - 1 : ring'[i] = ring[i + 1]
    BY RecordHandled
  <1>1. \A i \in Entries(ring') : i \in Int /\ i + 1 \in Entries(ring) /\ i + 1 # 1 /\ ring'[i] = ring[i + 1]
    BY <1>0 DEF Entries
  <1>2. \A i \in Entries(events') : \/ i \in Entries(events) /\ events'[i] = events[i] /\ i # Len(events) + 1
                                    \/ i = Len(events) + 1 /\ 1 \in Entries(ring) /\ events'[i] = ring[1]
    <2>1. CASE events' = events
      BY <1>0, <2>1 DEF Entries
    <2>2. CASE /\ DOMAIN events' = 1 .. Len(events) + 1
               /\ (\A i \in 1 .. Len(events) : events'[i] = events[i]) /\ events'[Len(events) + 1] = ring[1]
      <3>1. \A i \in 1 .. Len(events) + 1 : i \in 1 .. Len(events) \/ i = Len(events) + 1
        BY <1>0
      <3>2. 1 \in 1 .. Len(ring)
        BY <1>0
      <3> QED
        BY <1>0, <2>2, <3>1, <3>2 DEF Entries
    <2> QED
      BY <2>1, <2>2, RecordHandled
  <1>3. \A i \in Entries(ring') : ring'[i].timestamp < ktime'
    BY <1>0, <1>1 DEF StampedOnce
  <1>4. \A i \in Entries(events') : events'[i].timestamp < ktime'
    BY <1>0, <1>2 DEF StampedOnce
  <1>5. \A i, j \in Entries(ring') : ring'[i].timestamp = ring'[j].timestamp => i = j
    <2> SUFFICES ASSUME NEW i \in Entries(ring'), NEW j \in Entries(ring'), ring'[i].timestamp = ring'[j].timestamp
                 PROVE  i = j
      OBVIOUS
    <2>1. i + 1 = j + 1 /\ i \in Int /\ j \in Int
      BY <1>1 DEF StampedOnce
    <2> QED
      BY <2>1
  <1>6. \A i, j \in Entries(events') : events'[i].timestamp = events'[j].timestamp => i = j
    BY <1>2 DEF StampedOnce
  <1>7. \A i \in Entries(events'), j \in Entries(ring') : events'[i].timestamp # ring'[j].timestamp
    BY <1>1, <1>2 DEF StampedOnce
  <1> QED
    BY <1>3, <1>4, <1>5, <1>6, <1>7 DEF StampedOnce

\* The records and the saved times stay, and so does what their threads do.
LEMMA CorrelatedQuiet ==
    ASSUME Correlated, UNCHANGED <<events, ring, lost, mmap_entry_map>>,
           \A t \in Tasks : probe'[t].kind = "return" => probe[t].kind = "return" /\ probe'[t].call = probe[t].call
    PROVE  Correlated'
  <1>1. \A t \in Tasks \ lost' : probe'[t].kind = "return" => UnderWay(t)'
    BY DEF Correlated, UnderWay, EntryAt
  <1>2. \A i \in DOMAIN events' :
          events'[i].kind = "return" /\ events'[i].task \notin lost' => InEvents(events[i], i)'
    BY DEF Correlated, InEvents, EntryAt
  <1>3. \A i \in DOMAIN ring' : ring'[i].kind = "return" /\ ring'[i].task \notin lost' =>
          InEvents(ring[i], Len(events) + 1)' \/ InRing(ring[i], i)'
    BY DEF Correlated, InEvents, InRing, EntryAt
  <1> QED
    BY <1>1, <1>2, <1>3 DEF Correlated

\* What log_event keeps for the other threads, and for its own.
LEMMA MapAfterLog ==
    ASSUME MonTypeOK, MapHoldsAll, NEW t \in Tasks, LogEvent(t), lost' = lost
    PROVE  /\ \A u \in Tasks : u # t /\ u \in DOMAIN mmap_entry_map =>
                 u \in DOMAIN mmap_entry_map' /\ mmap_entry_map'[u] = mmap_entry_map[u]
           /\ probe[t].kind = "entry" /\ probe[t].nr = "mmap" /\ t \notin lost =>
                 t \in DOMAIN mmap_entry_map' /\ mmap_entry_map'[t] = ktime
  <1>1. DOMAIN mmap_entry_map \subseteq Tasks
    BY DEF MonTypeOK, LogTyped
  <1>2. Saved(mmap_entry_map, t, ktime) = With(mmap_entry_map, t, ktime)
    BY <1>1, RoomForAll
  <1>3. CASE mmap_entry_map' = mmap_entry_map /\ t \in lost
    BY <1>3
  <1>4. CASE mmap_entry_map' = EntryMapAfter(t)
    BY <1>2, <1>4 DEF EntryMapAfter, EntryKey, With, Without
  <1> QED
    BY <1>3, <1>4 DEF LogEvent

\* A return record is logged with the time of its entry record, and the time
\* of an entry is kept until then.
LEMMA CorrelatedByLog ==
    ASSUME MonTypeOK, MapHoldsAll, Correlated, NEW t \in Tasks, LogEvent(t)
    PROVE  Correlated'
  <1>0. /\ events' = events /\ lost \subseteq lost'
        /\ DOMAIN ring = 1 .. Len(ring) /\ DOMAIN ring' = 1 .. Len(ring') /\ Len(ring) \in Nat
    BY RecordLogged
  <1>1. /\ probe'[t].call = probe[t].call
        /\ probe'[t].kind = "return" => probe[t].kind = "entry" /\ probe[t].nr = "mmap"
        /\ probe[t].kind = "return" => probe[t].nr = "mmap"
        /\ \A u \in Tasks : u # t => probe'[u] = probe[u]
    BY NextTyped DEF LogEvent
  <1>2. CASE ring' = ring /\ mmap_entry_map' = mmap_entry_map /\ lost' = lost \cup {t}
    <2>1. \A u \in Tasks \ lost' : probe'[u].kind = "return" => UnderWay(u)'
      BY <1>0, <1>1, <1>2 DEF Correlated, UnderWay, EntryAt
    <2>2. \A i \in DOMAIN events' :
            events'[i].kind = "return" /\ events'[i].task \notin lost' => InEvents(events[i], i)'
      BY <1>0, <1>2 DEF Correlated, InEvents, EntryAt
    <2>3. \A i \in DOMAIN ring' : ring'[i].kind = "return" /\ ring'[i].task \notin lost' =>
            InEvents(ring[i], Len(events) + 1)' \/ InRing(ring[i], i)'
      BY <1>0, <1>2 DEF Correlated, InEvents, InRing, EntryAt
    <2> QED
      BY <2>1, <2>2, <2>3 DEF Correlated
  <1>3. CASE /\ Len(ring') = Len(ring) + 1 /\ (\A i \in 1 .. Len(ring) : ring'[i] = ring[i]) /\ lost' = lost
             /\ ring'[Len(ring) + 1] = [task |-> t, kind |-> probe[t].kind, nr |-> probe[t].nr,
                                        call |-> probe[t].call, timestamp |-> Stamp(t)]
    <2>0. PICK n : n = Len(ring) + 1
      OBVIOUS
    <2>1. /\ n \in DOMAIN ring' /\ (\A i \in DOMAIN ring : i \in DOMAIN ring' /\ ring'[i] = ring[i] /\ i < n)
          /\ \A i \in DOMAIN ring' : i \in DOMAIN ring \/ i = n
      BY <1>0, <1>3, <2>0
    <2>2. /\ ring'[n].task = t /\ ring'[n].kind = probe[t].kind /\ ring'[n].call = probe[t].call
          /\ ring'[n].timestamp = Stamp(t)
      BY <1>3, <2>0
    <2>3. /\ \A u \in Tasks : u # t /\ u \in DOMAIN mmap_entry_map =>
                 u \in DOMAIN mmap_entry_map' /\ mmap_entry_map'[u] = mmap_entry_map[u]
          /\ probe[t].kind = "entry" /\ probe[t].nr = "mmap" /\ t \notin lost =>
                 t \in DOMAIN mmap_entry_map' /\ mmap_entry_map'[t] = ktime
      BY <1>3, MapAfterLog
    <2>4. ASSUME NEW u \in Tasks \ lost', probe'[u].kind = "return"
          PROVE  UnderWay(u)'
      <3>1. CASE u # t
        <4>1. probe'[u] = probe[u] /\ UnderWay(u)
          BY <1>1, <1>3, <2>4, <3>1 DEF Correlated
        <4>2. u \in DOMAIN mmap_entry_map' /\ mmap_entry_map'[u] = mmap_entry_map[u]
          BY <2>3, <3>1, <4>1 DEF UnderWay
        <4> QED
          BY <1>0, <2>1, <4>1, <4>2 DEF UnderWay, EntryAt
      <3>2. CASE u = t
        <4>1. probe[t].kind = "entry" /\ probe[t].nr = "mmap"
          BY <1>1, <2>4, <3>2
        <4>2. t \in DOMAIN mmap_entry_map' /\ mmap_entry_map'[t] = ktime
          BY <1>3, <2>3, <2>4, <3>2, <4>1
        <4>3. Stamp(t) = ktime
          BY <4>1 DEF Stamp
        <4> QED
          BY <1>1, <2>1, <2>2, <3>2, <4>1, <4>2, <4>3 DEF UnderWay, EntryAt
      <3> QED
        BY <3>1, <3>2
    <2>5. \A i \in DOMAIN events' :
            events'[i].kind = "return" /\ events'[i].task \notin lost' => InEvents(events[i], i)'
      BY <1>0, <1>3 DEF Correlated, InEvents, EntryAt
    <2>6. ASSUME NEW i \in DOMAIN ring', ring'[i].kind = "return", ring'[i].task \notin lost'
          PROVE  InEvents(ring[i], Len(events) + 1)' \/ InRing(ring[i], i)'
      <3>1. CASE i \in DOMAIN ring
        <4>1. ring'[i] = ring[i] /\ (InEvents(ring[i], Len(events) + 1) \/ InRing(ring[i], i))
          BY <1>3, <2>1, <2>6, <3>1 DEF Correlated
        <4> QED
          BY <1>0, <2>1, <4>1 DEF InEvents, InRing, EntryAt
      <3>2. CASE i = n
        <4>1. probe[t].kind = "return" /\ t \in Tasks \ lost /\ UnderWay(t)
          BY <1>3, <2>2, <2>6, <3>2 DEF Correlated
        <4>2. Stamp(t) = mmap_entry_map[t]
          BY <1>1, <4>1 DEF Stamp, EntryKey, UnderWay
        <4>3. DOMAIN events = 1 .. Len(events) /\ Len(events) \in Nat
          BY DEF MonTypeOK, LogTyped
        <4>4. \A j \in DOMAIN events : j < Len(events) + 1
          BY <4>3
        <4>5. CASE \E j \in DOMAIN events : EntryAt(events, j, t, probe[t].call, mmap_entry_map[t])
          BY <1>0, <2>2, <3>2, <4>2, <4>4, <4>5 DEF InEvents, EntryAt
        <4>6. CASE \E j \in DOMAIN ring : EntryAt(ring, j, t, probe[t].call, mmap_entry_map[t])
          BY <2>1, <2>2, <3>2, <4>2, <4>6 DEF InRing, EntryAt
        <4> QED
          BY <4>1, <4>5, <4>6 DEF UnderWay
      <3> QED
        BY <2>1, <2>6, <3>1, <3>2
    <2> QED
      BY <2>4, <2>5, <2>6 DEF Correlated
  <1> QED
    BY <1>2, <1>3, RecordLogged

\* A record that is handled comes after its entry record, or its thread has
\* lost one.
LEMMA CorrelatedByHandle ==
    ASSUME MonTypeOK, Correlated, HandleEvent
    PROVE  Correlated'
  <1>0. /\ probe' = probe /\ mmap_entry_map' = mmap_entry_map
        /\ Len(ring) \in Nat /\ Len(ring) > 0 /\ Len(events) \in Nat
        /\ DOMAIN ring = 1 .. Len(ring) /\ DOMAIN ring' = 1 .. Len(ring) - 1 /\ DOMAIN events = 1 .. Len(events)
        /\ \A i \in 1 .. Len(ring) - 1 : ring'[i] = ring[i + 1]
    BY RecordHandled
  <1>1. \A j \in DOMAIN ring : j # 1 => j - 1 \in DOMAIN ring' /\ ring'[j - 1] = ring[j]
    <2> SUFFICES ASSUME NEW j \in DOMAIN ring, j # 1 PROVE j - 1 \in DOMAIN ring' /\ ring'[j - 1] = ring[j]
      OBVIOUS
    <2>1. j - 1 \in 1 .. Len(ring) - 1 /\ (j - 1) + 1 = j
      BY <1>0
    <2> QED
      BY <1>0, <2>1
  <1>2. CASE events' = events /\ lost' = lost \cup {ring[1].task}
    <2>1. ASSUME NEW u \in Tasks \ lost', probe'[u].kind = "return" PROVE UnderWay(u)'
      <3>1. UnderWay(u) /\ u # ring[1].task
        BY <1>0, <1>2, <2>1 DEF Correlated
      <3> QED
        BY <1>0, <1>1, <1>2, <3>1 DEF UnderWay, EntryAt
    <2>2. \A i \in DOMAIN events' :
            events'[i].kind = "return" /\ events'[i].task \notin lost' => InEvents(events[i], i)'
      BY <1>2 DEF Correlated, InEvents, EntryAt
    <2>3. ASSUME NEW i \in DOMAIN ring', ring'[i].kind = "return", ring'[i].task \notin lost'
          PROVE  InEvents(ring[i], Len(events) + 1)' \/ InRing(ring[i], i)'
      <3>1. i \in Int /\ i + 1 \in DOMAIN ring /\ ring'[i] = ring[i + 1]
        BY <1>0
      <3>2. PICK r : r = ring[i + 1]
        OBVIOUS
      <3>3. r.kind = "return" /\ r.task \notin lost /\ r.task # ring[1].task
        BY <1>2, <2>3, <3>1, <3>2
      <3>4. InEvents(r, Len(events) + 1) \/ InRing(r, i + 1)
        BY <3>1, <3>2, <3>3 DEF Correlated
      <3>5. CASE InEvents(r, Len(events) + 1)
        BY <1>2, <3>1, <3>2, <3>5 DEF InEvents, EntryAt
      <3>6. CASE InRing(r, i + 1)
        <4>1. PICK j \in DOMAIN ring : j < i + 1 /\ EntryAt(ring, j, r.task, r.call, r.timestamp)
          BY <3>6 DEF InRing
        <4>2. j # 1 /\ j \in Int
          BY <1>0, <3>3, <4>1 DEF EntryAt
        <4>3. j - 1 < i /\ j - 1 \in DOMAIN ring' /\ ring'[j - 1] = ring[j]
          BY <1>1, <3>1, <4>1, <4>2
        <4> QED
          BY <3>1, <3>2, <4>1, <4>3 DEF InRing, EntryAt
      <3> QED
        BY <3>4, <3>5, <3>6
    <2> QED
      BY <2>1, <2>2, <2>3 DEF Correlated
  <1>3. CASE /\ DOMAIN events' = 1 .. Len(events) + 1 /\ Len(events') = Len(events) + 1 /\ lost' = lost
             /\ (\A i \in 1 .. Len(events) : events'[i] = events[i]) /\ events'[Len(events) + 1] = ring[1]
    <2>0. PICK n \in Int : n = Len(events) + 1
      BY <1>0
    <2>1. /\ n \in DOMAIN events' /\ events'[n] = ring[1] /\ Len(events') = n
          /\ \A i \in DOMAIN events : i \in DOMAIN events' /\ events'[i] = events[i] /\ i < n /\ i \in Int
          /\ \A i \in DOMAIN events' : i \in DOMAIN events \/ i = n
      BY <1>0, <1>3, <2>0
    <2>2. ASSUME NEW u \in Tasks \ lost', probe'[u].kind = "return" PROVE UnderWay(u)'
      <3>1. UnderWay(u)
        BY <1>0, <1>3, <2>2 DEF Correlated
      <3>2. CASE \E j \in DOMAIN events : EntryAt(events, j, u, probe[u].call, mmap_entry_map[u])
        BY <1>0, <2>1, <3>1, <3>2 DEF UnderWay, EntryAt
      <3>3. CASE \E j \in DOMAIN ring : EntryAt(ring, j, u, probe[u].call, mmap_entry_map[u])
        <4>1. PICK j \in DOMAIN ring : EntryAt(ring, j, u, probe[u].call, mmap_entry_map[u])
          BY <3>3
        <4>2. CASE j = 1
          BY <1>0, <2>1, <3>1, <4>1, <4>2 DEF UnderWay, EntryAt
        <4>3. CASE j # 1
          BY <1>0, <1>1, <3>1, <4>1, <4>3 DEF UnderWay, EntryAt
        <4> QED
          BY <4>2, <4>3
      <3> QED
        BY <3>1, <3>2, <3>3 DEF UnderWay
    <2>3. ASSUME NEW i \in DOMAIN events', events'[i].kind = "return", events'[i].task \notin lost'
          PROVE  InEvents(events[i], i)'
      <3>1. CASE i \in DOMAIN events
        BY <1>3, <2>1, <2>3, <3>1 DEF Correlated, InEvents, EntryAt
      <3>2. CASE i = n
        <4>1. PICK r : r = ring[1]
          OBVIOUS
        <4>2. 1 \in DOMAIN ring /\ r.kind = "return" /\ r.task \notin lost /\ ~ \E j \in DOMAIN ring : j < 1
          BY <1>0, <1>3, <2>1, <2>3, <3>2, <4>1
        <4>3. InEvents(r, n)
          BY <2>0, <4>1, <4>2 DEF Correlated, InRing
        <4> QED
          BY <2>1, <3>2, <4>1, <4>3 DEF InEvents, EntryAt
      <3> QED
        BY <2>1, <2>3, <3>1, <3>2
    <2>4. ASSUME NEW i \in DOMAIN ring', ring'[i].kind = "return", ring'[i].task \notin lost'
          PROVE  InEvents(ring[i], Len(events) + 1)' \/ InRing(ring[i], i)'
      <3>1. i \in Int /\ i + 1 \in DOMAIN ring /\ ring'[i] = ring[i + 1]
        BY <1>0
      <3>2. PICK r : r = ring[i + 1]
        OBVIOUS
      <3>3. InEvents(r, n) \/ InRing(r, i + 1)
        BY <1>3, <2>0, <2>4, <3>1, <3>2 DEF Correlated
      <3>4. n < Len(events') + 1 /\ \A j \in DOMAIN events : j < Len(events') + 1
        BY <2>1
      <3>5. CASE InEvents(r, n)
        BY <2>1, <3>1, <3>2, <3>4, <3>5 DEF InEvents, EntryAt
      <3>6. CASE InRing(r, i + 1)
        <4>1. PICK j \in DOMAIN ring : j < i + 1 /\ EntryAt(ring, j, r.task, r.call, r.timestamp)
          BY <3>6 DEF InRing
        <4>2. CASE j = 1
          BY <2>1, <3>1, <3>2, <3>4, <4>1, <4>2 DEF InEvents, EntryAt
        <4>3. CASE j # 1
          <5>1. j - 1 < i /\ j - 1 \in DOMAIN ring' /\ ring'[j - 1] = ring[j]
            BY <1>0, <1>1, <3>1, <4>1, <4>3
          <5> QED
            BY <3>1, <3>2, <4>1, <5>1 DEF InRing, EntryAt
        <4> QED
          BY <4>2, <4>3
      <3> QED
        BY <3>3, <3>5, <3>6
    <2> QED
      BY <2>2, <2>3, <2>4 DEF Correlated
  <1> QED
    BY <1>2, <1>3, RecordHandled

\* Initially there is no record.
LEMMA TimesStart == MonInit => StampedOnce /\ Correlated
  <1> SUFFICES ASSUME MonInit PROVE StampedOnce /\ Correlated
    OBVIOUS
  <1>1. DOMAIN events = {} /\ DOMAIN ring = {} /\ \A t \in Tasks : probe[t].kind # "return"
    BY DEF MonInit
  <1> QED
    BY <1>1 DEF StampedOnce, Entries, Correlated

\* Every step keeps entry times apart and returns with their entries.
LEMMA TimesStep ==
    ASSUME MonTypeOK, StampedOnce, MapHoldsAll => Correlated, [MonNext]_monVars
    PROVE  StampedOnce' /\ (MapHoldsAll => Correlated')
  <1>1. ASSUME NEW t \in Tasks, EnterCall(t) \/ EnterUnreadable(t) \/ StatsLookup(t) \/ StatsUpdate(t)
        PROVE  StampedOnce' /\ (MapHoldsAll => Correlated')
    <2>1. UNCHANGED <<ktime, events, ring, lost, mmap_entry_map>>
      BY <1>1 DEF EnterCall, EnterUnreadable, StatsLookup, StatsUpdate, readerVars, historyVars
    <2>2. \A u \in Tasks : probe'[u].kind = "return" => probe[u].kind = "return" /\ probe'[u].call = probe[u].call
      <3>1. CASE EnterCall(t) \/ EnterUnreadable(t)
        BY <3>1, EnterTyped
      <3>2. CASE StatsLookup(t) \/ StatsUpdate(t)
        <4>1. PICK a \in {"stat", "log"} : probe[t].at # "user" /\ probe' = [probe EXCEPT ![t].at = a]
          BY <3>2 DEF StatsLookup, StatsUpdate
        <4> QED
          BY <4>1, StatTyped
      <3> QED
        BY <1>1, <3>1, <3>2
    <2> QED
      BY <2>1, <2>2, CorrelatedQuiet DEF StampedOnce, Entries
  <1>2. ASSUME NEW t \in Tasks, LogEvent(t) PROVE StampedOnce' /\ (MapHoldsAll => Correlated')
    BY <1>2, StampedByLog, CorrelatedByLog
  <1>3. CASE HandleEvent
    BY <1>3, StampedByHandle, CorrelatedByHandle
  <1>4. CASE StopMonitor \/ UNCHANGED monVars
    <2>1. UNCHANGED <<probe, ktime, events, ring, lost, mmap_entry_map>>
      BY <1>4 DEF StopMonitor, monVars, readerVars, historyVars
    <2> QED
      BY <2>1, CorrelatedQuiet DEF StampedOnce, Entries
  <1> QED
    BY <1>1, <1>2, <1>3, <1>4 DEF MonNext

\* A return record and its entry have one time, which no other entry has.
LEMMA TimesSuffice ==
    ASSUME StampedOnce, MapHoldsAll, Correlated
    PROVE  ReturnCarriesEntryTime
  <1>1. ASSUME NEW i \in DOMAIN events, events[i].kind = "return", events[i].task \notin lost
        PROVE  LET same == {j \in DOMAIN events :
                              /\ events[j].kind = "entry" /\ events[j].task = events[i].task
                              /\ events[j].timestamp = events[i].timestamp}
               IN \E j \in same : j < i /\ events[j].call = events[i].call /\ same = {j}
    <2>1. PICK j \in DOMAIN events :
             j < i /\ EntryAt(events, j, events[i].task, events[i].call, events[i].timestamp)
      BY <1>1 DEF Correlated, InEvents
    <2>2. ASSUME NEW k \in DOMAIN events, events[k].kind = "entry",
                 events[k].timestamp = events[i].timestamp
          PROVE  k = j
      <3>1. k \in Entries(events) /\ j \in Entries(events) /\ events[k].timestamp = events[j].timestamp
        BY <2>1, <2>2 DEF Entries, EntryAt
      <3> QED
        BY <3>1 DEF StampedOnce
    <2> QED
      BY <2>1, <2>2 DEF EntryAt
  <1> QED
    BY <1>1 DEF ReturnCarriesEntryTime

\* "reuse the exact timestamp from entry": as long as mmap_entry_map holds
\* every thread, a captured return record of mmap has the time of the entry
\* record of its own call and of no other, whatever was lost of other threads.
THEOREM ReturnsCorrelated == MapHoldsAll => (MonSpec => []ReturnCarriesEntryTime)
  <1> SUFFICES ASSUME MapHoldsAll PROVE MonSpec => []ReturnCarriesEntryTime
    OBVIOUS
  <1> DEFINE Inv == CountsAllUnlessRaced /\ StampedOnce /\ Correlated
  <1>1. MonInit => Inv
    BY CountsStart, TimesStart
  <1>2. Inv /\ [MonNext]_monVars => Inv'
    BY CountsStep, TimesStep DEF CountsAllUnlessRaced
  <1>3. Inv => ReturnCarriesEntryTime
    BY TimesSuffice
  <1> QED
    BY <1>1, <1>2, <1>3, PTL DEF MonSpec

----------------------------------------------------------------------------
(* The settings of tracefs.                                                *)

\* _restore writes every file the set-up may have written.
LEMMA RestoresAll == Range(RestoreOrder) = TracefsFiles
<1>2. Range(RestoreOrder) = {"tracing_on", "issue_enable", "comp_enable", "issue_filter", "comp_filter",
                             "nvme_setup_enable", "nvme_comp_enable"}
  BY DEF Range, RestoreOrder
<1>3. Range(Events) = {"issue_enable", "comp_enable", "nvme_setup_enable", "nvme_comp_enable"}
  BY DEF Range, Events
<1>4. Range(Filters) = {"issue_filter", "comp_filter"} BY DEF Range, Filters
<1> QED BY <1>2, <1>3, <1>4 DEF TracefsFiles

\* A file that rejects writes is not changed by any.
LEMMA WritesKeep ==
    ASSUME NEW files, NEW value, NEW f \in TracefsFiles
    PROVE  /\ f \in broken => WriteAll(files, value)[f] = tracefs[f]
           /\ f \in Range(files) \ broken /\ value[f] # None => WriteAll(files, value)[f] = value[f]
BY DEF WriteAll

\* Steps that write no setting and leave collect where it is.
LEMMA SettingsKept ==
    ASSUME TracefsRestored, UNCHANGED collectVars
    PROVE  TracefsRestored'
BY DEF TracefsRestored, SettingsSaved, collectVars

\* The set-up and the end of the tracing write settings.
LEMMA SettingsWritten ==
    ASSUME TracefsRestored, NEW files, NEW value, tracefs' = WriteAll(files, value),
           UNCHANGED <<broken, before, state>>, collector # "begin",
           collector' \notin {"begin", "join", "result", "failed"}
    PROVE  TracefsRestored'
<1>1. \A f \in broken \cap TracefsFiles : tracefs'[f] = before[f]
  BY WritesKeep DEF TracefsRestored, SettingsSaved
<1> QED BY <1>1 DEF TracefsRestored, SettingsSaved

\* Restored: the files that were read have what was read, or reject writes
\* and have not changed.
LEMMA SettingsBack ==
    ASSUME TracefsRestored, tracefs' = WriteAll(RestoreOrder, state), collector \in {"restore", "refused"},
           UNCHANGED <<broken, before, state>>, collector' \in {"failed", "join"}
    PROVE  TracefsRestored'
<1>1. ASSUME NEW f \in TracefsFiles PROVE /\ state[f] # None => tracefs'[f] = before[f]
                                          /\ f \in broken => tracefs'[f] = before[f]
  <2>1. f \in broken => tracefs'[f] = tracefs[f] /\ tracefs[f] = before[f]
    BY WritesKeep DEF TracefsRestored, SettingsSaved
  <2>2. f \notin broken /\ state[f] # None => tracefs'[f] = state[f] BY WritesKeep, RestoresAll
  <2>3. state[f] # None => state[f] = before[f] BY DEF TracefsRestored, SettingsSaved
  <2> QED BY <2>1, <2>2, <2>3
<1>2. \A f \in TracefsFiles : state[f] # None => state[f] = before[f] BY DEF TracefsRestored, SettingsSaved
<1> QED BY <1>1, <1>2 DEF TracefsRestored, SettingsSaved

\* Every step of the collector, the reader and the kernel.
LEMMA SettingsStep == TracefsRestored /\ [FtraceNext]_ftraceVars => TracefsRestored'
<1> SUFFICES ASSUME TracefsRestored, [FtraceNext]_ftraceVars PROVE TracefsRestored'
  OBVIOUS
<1>1. CASE DeviceStep \/ ReaderCheck \/ ReadLine \/ ReaderFails \/ UNCHANGED ftraceVars
  <2>1. UNCHANGED collectVars BY <1>1 DEF DeviceStep, ReaderCheck, ReadLine, ReaderFails, ftraceVars
  <2> QED BY <2>1, SettingsKept
<1>2. CASE SaveRestore
  <2>1. /\ UNCHANGED <<tracefs, broken, before>> /\ collector = "begin" /\ collector' = "enable"
        /\ \E unread : state' = [f \in TracefsFiles |-> IF f \in unread THEN None ELSE tracefs[f]]
    BY <1>2 DEF SaveRestore
  <2>2. \A f \in TracefsFiles : state'[f] # None => state'[f] = before[f]
    BY <2>1 DEF TracefsRestored, SettingsSaved
  <2> QED BY <2>1, <2>2 DEF TracefsRestored, SettingsSaved
<1>3. CASE Enable
  <2>1. UNCHANGED <<broken, before, state>> /\ collector = "enable" BY <1>3 DEF Enable
  <2>2. \E files : tracefs' = WriteAll(files, SetupValues) BY <1>3 DEF Enable
  <2>3. collector' \in {"raw", "refused", "raised"} BY <1>3 DEF Enable
  <2> QED BY <2>1, <2>2, <2>3, SettingsWritten
<1>4. CASE OpenRaw
  <2>1. /\ UNCHANGED <<tracefs, broken, before, state>>
        /\ collector = "raw" /\ collector' \in {"running", "raised"}
    BY <1>4 DEF OpenRaw
  <2> QED BY <2>1 DEF TracefsRestored, SettingsSaved
<1>5. CASE StopReader
  <2>1. UNCHANGED <<broken, before, state>> /\ collector = "running" /\ collector' = "restore"
    BY <1>5 DEF StopReader
  <2>2. \E files : tracefs' = WriteAll(files, [f \in TracefsFiles |-> 0]) BY <1>5 DEF StopReader
  <2> QED BY <2>1, <2>2, SettingsWritten
<1>6. CASE Restore
  <2>1. UNCHANGED <<broken, before, state>> /\ collector \in {"restore", "refused"} BY <1>6 DEF Restore
  <2>2. CASE tracefs' = WriteAll(RestoreOrder, state) /\ collector' \in {"failed", "join"}
    BY <2>1, <2>2, SettingsBack
  <2>3. CASE collector' = "raised" /\ \E files : tracefs' = WriteAll(files, state)
    BY <2>1, <2>3, SettingsWritten
  <2> QED BY <1>6, <2>2, <2>3 DEF Restore
<1>7. CASE Join
  <2>1. UNCHANGED <<tracefs, broken, before, state>> /\ collector = "join" /\ collector' = "result"
    BY <1>7 DEF Join
  <2> QED BY <2>1 DEF TracefsRestored, SettingsSaved
<1> QED BY <1>1, <1>2, <1>3, <1>4, <1>5, <1>6, <1>7 DEF FtraceNext

\* Whatever the settings were, whichever files reject writes or cannot be
\* read and whatever the device and the reader do meanwhile, collect leaves
\* every file it could read as it found it.
THEOREM SettingsRestored == FtraceSpec => []TracefsRestored
<1>1. FtraceInit => TracefsRestored BY DEF FtraceInit, TracefsRestored, SettingsSaved
<1> QED BY <1>1, SettingsStep, PTL DEF FtraceSpec

----------------------------------------------------------------------------
(* The commands that wait for their completion.                            *)

\* A nonempty set of naturals has a least element.
LEMMA LeastNat ==
    ASSUME NEW S \in SUBSET Nat, S # {}
    PROVE  \E t \in S : \A u \in S : t <= u
<1>1. PICK x \in S : \A y \in S : ~(<<y, x>> \in OpToRel(<, Nat))
  BY WFMin, NatLessThanWellFounded
<1>2. ASSUME NEW u \in S PROVE x <= u
  <2>1. ~(u < x) BY <1>1 DEF OpToRel
  <2> QED BY <2>1
<1> QED BY <1>2

\* A sequence is one of its own elements.
LEMMA OwnElements ==
    ASSUME NEW S, NEW q \in Seq(S)
    PROVE  /\ q \in Seq(Range(q)) /\ Len(q) \in Nat /\ DOMAIN q = 1..Len(q)
           /\ \A i \in 1..Len(q) : q[i] \in Range(q) /\ q[i] \in S
           /\ \A x \in Range(q) : \E i \in 1..Len(q) : x = q[i]
<1>1. Len(q) \in Nat /\ q \in [1..Len(q) -> S] /\ DOMAIN q = 1..Len(q) BY LenProperties
<1>2. \A i \in 1..Len(q) : q[i] \in Range(q) /\ q[i] \in S BY <1>1 DEF Range
<1>3. q \in [1..Len(q) -> Range(q)] BY <1>1, <1>2
<1>4. q \in Seq(Range(q))
  <2>1. \E n \in Nat : q \in [1..n -> Range(q)] BY <1>1, <1>3
  <2> QED BY <2>1, SeqDef
<1>5. \A x \in Range(q) : \E i \in 1..Len(q) : x = q[i] BY <1>1 DEF Range
<1> QED BY <1>1, <1>2, <1>4, <1>5

\* Part of a sequence.
LEMMA PartOf ==
    ASSUME NEW S, NEW q \in Seq(S), NEW m \in Nat, m <= Len(q)
    PROVE  /\ SubSeq(q, m + 1, Len(q)) \in Seq(S) /\ Len(SubSeq(q, m + 1, Len(q))) = Len(q) - m
           /\ \A i \in 1..Len(q) - m : SubSeq(q, m + 1, Len(q))[i] = q[m + i]
<1>1. Len(q) \in Nat /\ \A i \in 1..Len(q) : q[i] \in S BY OwnElements
<1>2. m + 1 \in Int /\ Len(q) \in Int /\ \A i \in m + 1..Len(q) : q[i] \in S BY <1>1
<1>3. /\ SubSeq(q, m + 1, Len(q)) \in Seq(S)
      /\ Len(SubSeq(q, m + 1, Len(q))) = IF m + 1 <= Len(q) THEN Len(q) - (m + 1) + 1 ELSE 0
      /\ \A i \in 1..Len(q) - (m + 1) + 1 : SubSeq(q, m + 1, Len(q))[i] = q[m + 1 + i - 1]
  BY <1>2, SubSeqProperties
<1>4. Len(q) - (m + 1) + 1 = Len(q) - m /\ \A i \in 1..Len(q) - m : m + 1 + i - 1 = m + i BY <1>1
<1>5. Len(SubSeq(q, m + 1, Len(q))) = Len(q) - m BY <1>1, <1>3
<1>6. \A i \in 1..Len(q) - m : SubSeq(q, m + 1, Len(q))[i] = q[m + i] BY <1>3, <1>4
<1> QED BY <1>3, <1>5, <1>6

\* Expiry stops somewhere in the queue.
LEMMA ExpiryStops ==
    ASSUME NEW S, NEW q \in Seq(S), NEW t
    PROVE  Expired(q, t) \in 0..Len(q)
<1>0. Len(q) \in Nat BY OwnElements
<1> DEFINE old(i) == q[i].ts < t - PendingTimeout
           Stop == {n \in 0..Len(q) : n < Len(q) => ~old(n + 1)}
<1>1. PICK n \in Stop : \A m \in Stop : n <= m
  <2>1. Stop \in SUBSET Nat OBVIOUS
  <2>2. Len(q) \in Stop BY <1>0
  <2> HIDE DEF Stop
  <2> QED BY <2>1, <2>2, LeastNat
<1>2. n \in 0..Len(q) /\ (n < Len(q) => ~old(n + 1)) OBVIOUS
<1>3. ASSUME NEW i \in 1..n PROVE old(i)
  <2>1. i - 1 \in 0..Len(q) /\ i - 1 < n /\ i - 1 + 1 = i /\ i - 1 \in Nat /\ n \in Nat BY <1>0, <1>2
  <2>2. i - 1 \notin Stop
    <3> HIDE DEF Stop
    <3> QED BY <1>1, <2>1
  <2> HIDE DEF old
  <2> QED BY <2>1, <2>2
<1>4. \E k \in 0..Len(q) : (\A i \in 1..k : old(i)) /\ (k < Len(q) => ~old(k + 1)) BY <1>2, <1>3
<1>5. PendingTimeout = 0 \/ Expired(q, t) = CHOOSE k \in 0..Len(q) : (\A i \in 1..k : old(i)) /\ (k < Len(q) => ~old(k + 1))
  BY DEF Expired
<1>6. PendingTimeout = 0 => Expired(q, t) = 0 BY DEF Expired
<1> HIDE DEF old
<1> QED BY <1>0, <1>4, <1>5, <1>6

\* Pruning leaves at most MaxPending commands, as they were, and accounts
\* for the others.
PrunedFrom(S, q, p) ==
    /\ p.queue \in Seq(S) /\ Len(p.queue) <= MaxPending
    /\ p.expired \in Nat /\ p.evicted \in Nat /\ Len(p.queue) + p.expired + p.evicted = Len(q)
    /\ \A i \in 1..Len(p.queue) : \E j \in 1..Len(q) : p.queue[i] = q[j]
LEMMA PruneLeaves ==
    ASSUME NEW S, NEW q \in Seq(S), NEW t
    PROVE  PrunedFrom(S, q, Prune(q, t))
<1> DEFINE p == Prune(q, t)
<1>0. Len(q) \in Nat /\ MaxPending \in Nat BY OwnElements, CollectorAssumption
<1>1. PICK n \in 0..Len(q) : n = Expired(q, t) BY ExpiryStops
<1>2. PICK left : left = SubSeq(q, n + 1, Len(q)) OBVIOUS
<1>3. left \in Seq(S) /\ Len(left) = Len(q) - n /\ \A i \in 1..Len(q) - n : left[i] = q[n + i]
  <2>1. n \in Nat /\ n <= Len(q) BY <1>0, <1>1
  <2> QED BY <1>2, <2>1, PartOf
<1>4. PICK m : m = IF Len(left) > MaxPending THEN Len(left) - MaxPending ELSE 0 OBVIOUS
<1>5. m \in Nat /\ m <= Len(left) /\ Len(left) - m <= MaxPending
  <2>1. PICK ll : ll = Len(left) OBVIOUS
  <2>2. PICK ql : ql = Len(q) OBVIOUS
  <2>3. ll = ql - n /\ ql \in Nat /\ n \in 0..ql BY <1>0, <1>1, <1>3, <2>1, <2>2
  <2>4. m = IF ll > MaxPending THEN ll - MaxPending ELSE 0 BY <1>4, <2>1
  <2>5. m \in Nat /\ m <= ll /\ ll - m <= MaxPending
    <3>1. ll \in Nat /\ MaxPending \in Nat BY <1>0, <2>3
    <3> QED BY <2>4, <3>1
  <2> QED BY <2>1, <2>5
<1>6. PICK rest : rest = SubSeq(left, m + 1, Len(left)) OBVIOUS
<1>7. rest \in Seq(S) /\ Len(rest) = Len(left) - m /\ \A i \in 1..Len(left) - m : rest[i] = left[m + i]
  BY <1>3, <1>5, <1>6, PartOf
<1>8. p = [queue |-> rest, expired |-> n, evicted |-> m] BY <1>1, <1>2, <1>4, <1>6 DEF Prune
<1> HIDE DEF p
<1>9. p.queue = rest /\ p.expired = n /\ p.evicted = m BY <1>8
<1>10. ASSUME NEW i \in 1..Len(rest) PROVE \E j \in 1..Len(q) : rest[i] = q[j]
  <2>1. i \in 1..Len(left) - m /\ m + i \in 1..Len(q) - n /\ n + (m + i) \in 1..Len(q) BY <1>0, <1>1, <1>3, <1>5, <1>7
  <2>2. rest[i] = left[m + i] BY <1>7, <2>1
  <2>3. left[m + i] = q[n + (m + i)] BY <1>3, <2>1
  <2> QED BY <2>1, <2>2, <2>3
<1>11. Len(rest) + n + m = Len(q) /\ n \in Nat /\ Len(rest) <= MaxPending
  <2>1. PICK ll, ql, rl : ll = Len(left) /\ ql = Len(q) /\ rl = Len(rest) OBVIOUS
  <2>2. ll = ql - n /\ ql \in Nat /\ n \in 0..ql /\ rl = ll - m /\ m \in Nat /\ ll - m <= MaxPending
    BY <1>0, <1>1, <1>3, <1>5, <1>7, <2>1
  <2>3. rl + n + m = ql /\ n \in Nat /\ rl <= MaxPending BY <2>2
  <2> QED BY <2>1, <2>3
<1>12. PrunedFrom(S, q, p) BY <1>5, <1>7, <1>9, <1>10, <1>11 DEF PrunedFrom
<1> QED BY <1>12 DEF p

\* A sequence without one of its elements.
LEMMA OneRemoved ==
    ASSUME NEW S, NEW q \in Seq(S), NEW k \in 1..Len(q)
    PROVE  /\ RemoveAt(q, k) \in Seq(S) /\ Len(RemoveAt(q, k)) = Len(q) - 1
           /\ \A i \in 1..Len(q) - 1 : \E j \in 1..Len(q) : RemoveAt(q, k)[i] = q[j]
<1>0. Len(q) \in Nat /\ k \in Nat /\ \A i \in 1..Len(q) : q[i] \in S BY OwnElements
<1> DEFINE a == SubSeq(q, 1, k - 1)
           b == SubSeq(q, k + 1, Len(q))
<1>1. /\ a \in Seq(S) /\ Len(a) = (IF 1 <= k - 1 THEN k - 1 - 1 + 1 ELSE 0)
      /\ \A i \in 1..k - 1 - 1 + 1 : a[i] = q[1 + i - 1]
  <2>1. 1 \in Int /\ k - 1 \in Int /\ \A i \in 1..k - 1 : q[i] \in S BY <1>0
  <2> QED BY <2>1, SubSeqProperties
<1>2. b \in Seq(S) /\ Len(b) = Len(q) - k /\ \A i \in 1..Len(q) - k : b[i] = q[k + i]
  BY <1>0, PartOf
<1> HIDE DEF a, b
<1>3. Len(a) = k - 1 /\ \A i \in 1..k - 1 : a[i] = q[i] BY <1>0, <1>1
<1>4. /\ a \o b \in Seq(S) /\ Len(a \o b) = Len(a) + Len(b)
      /\ \A i \in 1..Len(a) + Len(b) : (a \o b)[i] = IF i <= Len(a) THEN a[i] ELSE b[i - Len(a)]
  BY <1>1, <1>2, ConcatProperties
<1>5. RemoveAt(q, k) = a \o b BY DEF RemoveAt, a, b
<1> DEFINE c == a \o b
<1> HIDE DEF c
<1>6. Len(c) = Len(q) - 1 /\ c \in Seq(S) BY <1>0, <1>2, <1>3, <1>4 DEF c
<1>7. ASSUME NEW i \in 1..Len(q) - 1 PROVE \E j \in 1..Len(q) : c[i] = q[j]
  <2>1. c[i] = IF i <= Len(a) THEN a[i] ELSE b[i - Len(a)] BY <1>0, <1>2, <1>3, <1>4 DEF c
  <2>2. CASE i <= k - 1
    <3>1. c[i] = q[i] /\ i \in 1..Len(q) BY <1>0, <1>3, <2>1, <2>2
    <3> QED BY <3>1
  <2>3. CASE ~(i <= k - 1)
    <3>1. i - (k - 1) \in 1..Len(q) - k /\ k + (i - (k - 1)) \in 1..Len(q) BY <1>0, <2>3
    <3>2. c[i] = b[i - (k - 1)] BY <1>3, <2>1, <2>3
    <3>3. b[i - (k - 1)] = q[k + (i - (k - 1))] BY <1>2, <3>1
    <3> QED BY <3>1, <3>2, <3>3
  <2> QED BY <2>2, <2>3
<1> QED BY <1>5, <1>6, <1>7 DEF c

----------------------------------------------------------------------------
(* The lines in trace_pipe.                                                *)

\* A line that is made while the tracepoints are on is appended or lost.
LEMMA LineMade ==
    ASSUME FtraceTypeOK, TracingIsOn, collector = "running", NEW file \in Range(Events), NEW l, Traced(file, l)
    PROVE  /\ clock' \in Nat
           /\ \/ trace_pipe' = Append(trace_pipe, l) /\ lostSetups' = lostSetups
              \/ trace_pipe' = trace_pipe /\ lostSetups' = (lostSetups \/ l.kind = "setup")
<1>1. tracefs["tracing_on"] = 1 /\ tracefs[file] = 1 BY DEF TracingIsOn
<1>2. PICK drop \in BOOLEAN : /\ trace_pipe' = IF drop THEN trace_pipe ELSE Append(trace_pipe, l)
                              /\ lostSetups' = (lostSetups \/ (drop /\ l.kind = "setup"))
  BY <1>1 DEF Traced
<1>3. clock' \in Nat
  <2>1. clock' \in clock..clock + 1 /\ clock \in Nat BY DEF Traced, FtraceTypeOK
  <2> QED BY <2>1
<1>4. lostSetups \in BOOLEAN BY DEF FtraceTypeOK
<1>5. CASE drop BY <1>2, <1>3, <1>4, <1>5
<1>6. CASE ~drop BY <1>2, <1>3, <1>4, <1>6
<1> QED BY <1>5, <1>6

\* What the lines before the new one say of a key stays as it is.
LEMMA EarlierUses ==
    ASSUME NEW l \in Lines, trace_pipe \in Seq(Lines), trace_pipe' = Append(trace_pipe, l), UNCHANGED nvme_inflight,
           NEW n \in 0..Len(trace_pipe), NEW k, NEW disk, NEW ts, BeganAt(k, disk, ts, n)
    PROVE  BeganAt(k, disk, ts, n)'
<1>1. \A i \in 1..n : trace_pipe'[i] = trace_pipe[i]
  <2>1. Len(trace_pipe) \in Nat BY OwnElements
  <2>2. \A i \in 1..n : i \in 1..Len(trace_pipe) BY <2>1
  <2> QED BY <2>2, AppendProperties
<1>2. UsesOf(k, n)' = UsesOf(k, n) BY <1>1 DEF UsesOf
<1>3. \A i \in UsesOf(k, n) : i \in 1..n BY DEF UsesOf
<1>4. Positions(nvme_inflight, k)' = Positions(nvme_inflight, k) BY DEF Positions
<1> QED BY <1>1, <1>2, <1>3, <1>4 DEF BeganAt

\* A line that is not a use of the key leaves its latest use.
LEMMA OtherUse ==
    ASSUME NEW l \in Lines, trace_pipe \in Seq(Lines), trace_pipe' = Append(trace_pipe, l), UNCHANGED nvme_inflight,
           NEW k, NEW disk, NEW ts, NEW n, n = Len(trace_pipe), BeganAt(k, disk, ts, n),
           l.key # k \/ l.kind \notin {"setup", "complete"}
    PROVE  BeganAt(k, disk, ts, n + 1)'
<1>1. n \in Nat /\ n \in 0..Len(trace_pipe) BY OwnElements
<1>2. BeganAt(k, disk, ts, n)' BY <1>1, EarlierUses
<1>3. trace_pipe'[n + 1] = l BY AppendProperties
<1>4. UsesOf(k, n + 1)' = UsesOf(k, n)' BY <1>1, <1>3 DEF UsesOf
<1> QED BY <1>2, <1>4 DEF BeganAt

\* A line of the device: the completions in the pipe are paired as they
\* were, the new one with the command under way.
LEMMA PipeGrows ==
    ASSUME NEW l \in Lines, trace_pipe \in Seq(Lines), trace_pipe' = Append(trace_pipe, l), UNCHANGED nvme_inflight,
           UsesArePaired,
           l.kind = "complete" => BeganAt(l.key, l.disk, l.since, Len(trace_pipe)),
           \A k \in DOMAIN busy' : \/ /\ k \in DOMAIN busy /\ busy'[k].ts = busy[k].ts /\ busy'[k].disk = busy[k].disk
                                      /\ l.key # k \/ l.kind \notin {"setup", "complete"}
                                   \/ l.kind = "setup" /\ l.key = k /\ busy'[k].ts = l.ts /\ busy'[k].disk = l.disk
    PROVE  UsesArePaired'
<1>0. PICK n : n = Len(trace_pipe) OBVIOUS
<1>1. n \in Nat /\ Len(trace_pipe)' = n + 1 BY <1>0, OwnElements, AppendProperties
<1>2. trace_pipe'[n + 1] = l /\ \A i \in 1..n : trace_pipe'[i] = trace_pipe[i] BY <1>0, AppendProperties
<1>3. ASSUME NEW m \in 1..n + 1, trace_pipe'[m].kind = "complete"
      PROVE  BeganAt(trace_pipe[m].key, trace_pipe[m].disk, trace_pipe[m].since, m - 1)'
  <2>1. PICK e : e = trace_pipe'[m] OBVIOUS
  <2>2. m - 1 \in 0..n BY <1>1
  <2>3. BeganAt(e.key, e.disk, e.since, m - 1)
    <3>1. CASE m = n + 1
      <4>1. e = l /\ m - 1 = n BY <1>1, <1>2, <2>1, <3>1
      <4> QED BY <1>0, <1>3, <2>1, <4>1
    <3>2. CASE m # n + 1
      <4>1. m \in 1..n BY <1>1, <3>2
      <4> QED BY <1>0, <1>2, <1>3, <2>1, <4>1 DEF UsesArePaired
    <3> QED BY <3>1, <3>2
  <2>4. BeganAt(e.key, e.disk, e.since, m - 1)' BY <1>0, <2>2, <2>3, EarlierUses
  <2> QED BY <2>1, <2>4
<1>4. ASSUME NEW k \in DOMAIN busy' PROVE BeganAt(k, busy[k].disk, busy[k].ts, n + 1)'
  <2>1. PICK d, t : d = busy'[k].disk /\ t = busy'[k].ts OBVIOUS
  <2>2. CASE k \in DOMAIN busy /\ busy'[k].ts = busy[k].ts /\ busy'[k].disk = busy[k].disk
             /\ (l.key # k \/ l.kind \notin {"setup", "complete"})
    <3>1. BeganAt(k, d, t, n) BY <1>0, <2>1, <2>2 DEF UsesArePaired
    <3>2. BeganAt(k, d, t, n + 1)' BY <1>0, <2>2, <3>1, OtherUse
    <3> QED BY <2>1, <3>2
  <2>3. CASE l.kind = "setup" /\ l.key = k /\ busy'[k].ts = l.ts /\ busy'[k].disk = l.disk
    <3>1. n + 1 \in UsesOf(k, n + 1)' BY <1>1, <1>2, <2>3 DEF UsesOf
    <3>2. \A j \in UsesOf(k, n + 1)' : j <= n + 1 BY <1>1 DEF UsesOf
    <3>3. BeganAt(k, d, t, n + 1)' BY <1>2, <2>1, <2>3, <3>1, <3>2 DEF BeganAt
    <3> QED BY <2>1, <3>3
  <2> QED BY <2>2, <2>3
<1>5. \A k \in DOMAIN busy' : BeganAt(k, busy[k].disk, busy[k].ts, Len(trace_pipe))' BY <1>1, <1>4
<1> QED BY <1>1, <1>3, <1>5 DEF UsesArePaired

\* A line of the device, traced or lost, keeps the invariant.
LEMMA LineKeeps ==
    ASSUME LatenciesAreOwn, collector = "running", NEW file \in Range(Events), NEW l \in Lines, Traced(file, l),
           UNCHANGED <<collectVars, readerVars2>>,
           ~lostSetups /\ l.kind = "complete" => BeganAt(l.key, l.disk, l.since, Len(trace_pipe)),
           \A k \in DOMAIN busy' : \/ /\ k \in DOMAIN busy /\ busy'[k].ts = busy[k].ts /\ busy'[k].disk = busy[k].disk
                                      /\ l.key # k \/ l.kind \notin {"setup", "complete"}
                                   \/ l.kind = "setup" /\ l.key = k /\ busy'[k].ts = l.ts /\ busy'[k].disk = l.disk,
           \A k \in DOMAIN busy' : k \in NvmeKeys
    PROVE  LatenciesAreOwn'
<1>1. /\ clock' \in Nat
      /\ \/ trace_pipe' = Append(trace_pipe, l) /\ lostSetups' = lostSetups
         \/ trace_pipe' = trace_pipe /\ lostSetups' = (lostSetups \/ l.kind = "setup")
  BY LineMade DEF LatenciesAreOwn
<1>2. UNCHANGED <<tracefs, collector, nvme_inflight, counts, samples>> BY DEF collectVars, readerVars2
<1>3. trace_pipe \in Seq(Lines) /\ lostSetups \in BOOLEAN BY DEF LatenciesAreOwn, FtraceTypeOK
<1>4. trace_pipe' \in Seq(Lines) /\ lostSetups' \in BOOLEAN
  <2>1. Append(trace_pipe, l) \in Seq(Lines) BY <1>3, AppendProperties
  <2> QED BY <1>1, <1>3, <2>1
<1>5. ASSUME NEW k \in DOMAIN busy' PROVE k \in NvmeKeys /\ busy'[k].ts \in Nat /\ busy'[k].disk \in Disks
  <2>1. l.ts \in Nat /\ l.disk \in Disks BY DEF Lines
  <2>2. k \in DOMAIN busy => busy[k].ts \in Nat /\ busy[k].disk \in Disks BY DEF LatenciesAreOwn, FtraceTypeOK
  <2> QED BY <2>1, <2>2
<1>6. FtraceTypeOK'
  <2>1. /\ nvme_inflight' \in Seq(Range(nvme_inflight)') /\ samples' \in Seq(Range(samples)')
        /\ counts' \in [setup : Nat, complete : Nat, matched : Nat, expired : Nat, evicted : Nat,
                        seen : Nat, issued : Nat, timed : Nat]
    BY <1>2 DEF LatenciesAreOwn, FtraceTypeOK, Range
  <2> QED BY <1>1, <1>4, <1>5, <2>1 DEF FtraceTypeOK
<1>7. TracingIsOn' BY <1>2 DEF LatenciesAreOwn, TracingIsOn
<1>8. ASSUME ~lostSetups' PROVE UsesArePaired' /\ \A i \in 1..Len(samples)' : samples'[i][1] = samples'[i][2]
  <2>1. ~lostSetups BY <1>1, <1>8
  <2>2. UsesArePaired /\ \A i \in 1..Len(samples) : samples[i][1] = samples[i][2] BY <2>1 DEF LatenciesAreOwn
  <2>3. UsesArePaired'
    <3>1. CASE trace_pipe' = Append(trace_pipe, l) BY <1>2, <1>3, <2>1, <2>2, <3>1, PipeGrows
    <3>2. CASE trace_pipe' = trace_pipe /\ l.kind # "setup"
      <4>1. \A k, disk, ts, n : BeganAt(k, disk, ts, n)' <=> BeganAt(k, disk, ts, n)
        BY <1>2, <3>2 DEF BeganAt, UsesOf, Positions
      <4>2. \A k \in DOMAIN busy' : k \in DOMAIN busy /\ busy'[k].ts = busy[k].ts /\ busy'[k].disk = busy[k].disk
        BY <3>2
      <4>3. \A k \in DOMAIN busy' : BeganAt(k, busy'[k].disk, busy'[k].ts, Len(trace_pipe))
        BY <2>2, <4>2 DEF UsesArePaired
      <4> QED BY <2>2, <3>2, <4>1, <4>3 DEF UsesArePaired
    <3> QED BY <1>1, <1>8, <3>1, <3>2
  <2> QED BY <1>2, <2>2, <2>3
<1> QED BY <1>2, <1>6, <1>7, <1>8 DEF LatenciesAreOwn

\* Every step of the device.
LEMMA DeviceKeeps == ASSUME LatenciesAreOwn, DeviceStep PROVE LatenciesAreOwn'
<1>0. collector = "running" /\ UNCHANGED <<collectVars, readerVars2>> BY DEF DeviceStep
<1>1. FtraceTypeOK /\ TracingIsOn /\ clock \in Nat /\ (~lostSetups => UsesArePaired)
  BY DEF LatenciesAreOwn, FtraceTypeOK
<1>2. \A e \in {"issue_enable", "comp_enable", "nvme_setup_enable", "nvme_comp_enable"} : e \in Range(Events)
  <2>1. DOMAIN Events = 1..4 BY DEF Events
  <2>2. /\ Events[1] = "issue_enable" /\ Events[2] = "comp_enable"
        /\ Events[3] = "nvme_setup_enable" /\ Events[4] = "nvme_comp_enable"
    BY DEF Events
  <2> QED BY <2>1, <2>2 DEF Range
<1>3. ASSUME NEW file, NEW l, Traced(file, l) PROVE clock' \in Nat
  <2>1. clock' \in clock..clock + 1 BY <1>3 DEF Traced
  <2> QED BY <1>1, <2>1
<1>5. \A k \in DOMAIN busy : k \in NvmeKeys /\ busy[k].ts \in Nat /\ busy[k].disk \in Disks BY <1>1 DEF FtraceTypeOK
<1>6. ASSUME NEW key \in NvmeKeys, NEW cmd \in Commands, NEW disk \in {<<TracedDevice.disk, 0>>, None},
             NvmeSetup(key, cmd, disk)
      PROVE  LatenciesAreOwn'
  <2>1. PICK l : l = Line("setup", key, disk, cmd, 0) OBVIOUS
  <2>2. Traced("nvme_setup_enable", l) BY <1>6, <2>1 DEF NvmeSetup, Traced
  <2>3. clock' \in Nat BY <1>3, <2>2
  <2>4. /\ l.kind = "setup" /\ l.key = key /\ l.ts = clock' /\ l.disk = disk
        /\ l \in Lines
    BY <2>1, <2>3 DEF Line, Lines, Disks
  <2>5. PICK v : v = [ts |-> l.ts, disk |-> disk] OBVIOUS
  <2>6. busy' = Put(busy, key, v) /\ v.ts = l.ts /\ v.disk = l.disk BY <1>6, <2>4, <2>5 DEF NvmeSetup
  <2>61. /\ DOMAIN busy' = DOMAIN busy \cup {key} /\ busy'[key] = v
         /\ \A x \in DOMAIN busy : x # key => busy'[x] = busy[x]
    BY <2>6 DEF Put
  <2>7. \A k \in DOMAIN busy' : \/ /\ k \in DOMAIN busy /\ busy'[k].ts = busy[k].ts /\ busy'[k].disk = busy[k].disk
                                   /\ l.key # k \/ l.kind \notin {"setup", "complete"}
                                \/ l.kind = "setup" /\ l.key = k /\ busy'[k].ts = l.ts /\ busy'[k].disk = l.disk
    BY <2>4, <2>6, <2>61
  <2>8. \A k \in DOMAIN busy' : k \in NvmeKeys BY <1>5, <2>61
  <2>9. "nvme_setup_enable" \in Range(Events) /\ l.kind # "complete" BY <1>2, <2>4
  <2> QED BY <1>0, <2>2, <2>4, <2>7, <2>8, <2>9, LineKeeps
<1>7. ASSUME NEW key \in NvmeKeys, NvmeComplete(key) PROVE LatenciesAreOwn'
  <2>1. PICK l : l = Line("complete", key, busy[key].disk, NoCommand, busy[key].ts) OBVIOUS
  <2>2. Traced("nvme_comp_enable", l) BY <1>7, <2>1 DEF NvmeComplete, Traced
  <2>3. clock' \in Nat /\ key \in DOMAIN busy /\ busy' = Pop(busy, key) BY <1>3, <1>7, <2>2 DEF NvmeComplete
  <2>4. /\ l.kind = "complete" /\ l.key = key /\ l.disk = busy[key].disk /\ l.since = busy[key].ts
        /\ l \in Lines
    BY <1>5, <2>1, <2>3 DEF Line, Lines
  <2>5. ~lostSetups => BeganAt(l.key, l.disk, l.since, Len(trace_pipe)) BY <1>1, <2>3, <2>4 DEF UsesArePaired
  <2>6. \A k \in DOMAIN busy' : k # key /\ k \in DOMAIN busy /\ busy'[k] = busy[k] BY <2>3 DEF Pop
  <2>7. \A k \in DOMAIN busy' : k \in NvmeKeys BY <1>5, <2>6
  <2>8. "nvme_comp_enable" \in Range(Events) BY <1>2
  <2>9. \A k \in DOMAIN busy' : /\ k \in DOMAIN busy /\ busy'[k].ts = busy[k].ts /\ busy'[k].disk = busy[k].disk
                                /\ l.key # k \/ l.kind \notin {"setup", "complete"}
    BY <2>4, <2>6
  <2> QED BY <1>0, <2>2, <2>4, <2>5, <2>7, <2>8, <2>9, LineKeeps
<1>8. ASSUME NEW file \in {"issue_enable", "comp_enable"}, NEW kind \in {"issue", "comp"}, NEW e \in Extents,
             NEW disk \in Disks, NEW cmd \in {NoCommand, [op |-> "read"]},
             Traced(file, Line(kind, e, disk, cmd, 0)), UNCHANGED busy
      PROVE  LatenciesAreOwn'
  <2>1. PICK l : l = Line(kind, e, disk, cmd, 0) OBVIOUS
  <2>2. Traced(file, l) BY <1>8, <2>1 DEF Traced
  <2>3. clock' \in Nat BY <1>3, <2>2
  <2>4. l.kind = kind /\ l \in Lines BY <2>1, <2>3 DEF Line, Lines
  <2>5. l.kind \notin {"setup", "complete"} BY <2>4
  <2>6. \A k \in DOMAIN busy' : k \in NvmeKeys BY <1>5, <1>8
  <2>7. \A k \in DOMAIN busy' : /\ k \in DOMAIN busy /\ busy'[k].ts = busy[k].ts /\ busy'[k].disk = busy[k].disk
                                /\ l.key # k \/ l.kind \notin {"setup", "complete"}
    BY <1>8, <2>5
  <2>8. file \in Range(Events) BY <1>2
  <2> QED BY <1>0, <2>2, <2>4, <2>5, <2>6, <2>7, <2>8, LineKeeps
<1>9. ASSUME NEW e \in Extents, NEW disk \in Disks, BlockIssue(e, "read", disk) PROVE LatenciesAreOwn'
  BY <1>8, <1>9 DEF BlockIssue
<1>10. ASSUME NEW e \in Extents, NEW disk \in Disks, BlockComplete(e, disk) PROVE LatenciesAreOwn'
  BY <1>8, <1>10 DEF BlockComplete
<1>11. <<TracedDevice.disk, 0>> \in Disks /\ <<OtherDisk, 0>> \in Disks BY DEF Disks
<1> QED BY <1>6, <1>7, <1>9, <1>10, <1>11 DEF DeviceStep

----------------------------------------------------------------------------
(* The reader takes the first line.                                        *)

\* What may become of the pending commands when line h is read: each one was
\* pending before, or is the one of h; an accepted setup leaves no other use
\* of its key.
QueueFollows(h) ==
    /\ \A i \in 1..Len(nvme_inflight)' :
          \/ \E j \in 1..Len(nvme_inflight) : /\ nvme_inflight[j].key = nvme_inflight'[i].key
                                              /\ nvme_inflight[j].ts = nvme_inflight'[i].ts
          \/ h.kind = "setup" /\ nvme_inflight'[i].key = h.key /\ nvme_inflight'[i].ts = h.ts
    /\ h.kind = "setup" /\ nvme_line_is_for_device(h) =>
          \A i \in 1..Len(nvme_inflight)' : nvme_inflight'[i].key = h.key => nvme_inflight'[i].ts = h.ts

\* The latest use of a key is the same with one line read and one to read
\* less.
LEMMA UseMoves ==
    ASSUME trace_pipe \in Seq(Lines), trace_pipe # <<>>, trace_pipe' = Tail(trace_pipe), NEW h, h = Head(trace_pipe),
           QueueFollows(h), NEW n \in 1..Len(trace_pipe), NEW k, NEW disk, NEW ts, BeganAt(k, disk, ts, n)
    PROVE  BeganAt(k, disk, ts, n - 1)'
<1>0. PICK len : len = Len(trace_pipe) OBVIOUS
<1>1. len \in Nat /\ n \in 1..len BY <1>0, OwnElements
<1>2. h = trace_pipe[1] /\ \A i \in 1..n - 1 : trace_pipe'[i] = trace_pipe[i + 1]
  <2>1. \A i \in 1..len - 1 : trace_pipe'[i] = trace_pipe[i + 1] BY <1>0, HeadTailProperties
  <2>2. \A i \in 1..n - 1 : i \in 1..len - 1 BY <1>1
  <2> QED BY <2>1, <2>2, HeadTailProperties
<1> DEFINE Used(e) == e.key = k /\ e.kind \in {"setup", "complete"}
           For == nvme_line_is_for_device([disk |-> disk, key |-> k])
<1>3. UsesOf(k, n) = {i \in 1..n : Used(trace_pipe[i])} BY DEF UsesOf
<1>4. UsesOf(k, n - 1)' = {i \in 1..n - 1 : Used(trace_pipe[i + 1])} BY <1>2 DEF UsesOf
<1> HIDE DEF Used
<1>5. \A i \in UsesOf(k, n - 1)' : i \in Nat /\ i + 1 \in UsesOf(k, n) BY <1>1, <1>3, <1>4
<1>6. \A i \in UsesOf(k, n) : i # 1 => i - 1 \in UsesOf(k, n - 1)' /\ trace_pipe'[i - 1] = trace_pipe[i]
  <2> SUFFICES ASSUME NEW i \in UsesOf(k, n), i # 1
               PROVE  i - 1 \in UsesOf(k, n - 1)' /\ trace_pipe'[i - 1] = trace_pipe[i]
    OBVIOUS
  <2>1. i - 1 \in 1..n - 1 /\ (i - 1) + 1 = i BY <1>1, <1>3
  <2> QED BY <1>2, <1>3, <1>4, <2>1
<1>7. CASE UsesOf(k, n) = {}
  <2>1. ~Used(h) BY <1>1, <1>2, <1>3, <1>7
  <2>2. UsesOf(k, n - 1)' = {} BY <1>5, <1>7
  <2>3. For => \A i \in Positions(nvme_inflight, k) : nvme_inflight[i].ts = ts BY <1>7 DEF BeganAt
  <2>4. ASSUME For, NEW i \in Positions(nvme_inflight, k)' PROVE nvme_inflight'[i].ts = ts
    <3>1. i \in 1..Len(nvme_inflight)' /\ nvme_inflight'[i].key = k BY <2>4 DEF Positions
    <3>2. PICK j \in 1..Len(nvme_inflight) : /\ nvme_inflight[j].key = nvme_inflight'[i].key
                                             /\ nvme_inflight[j].ts = nvme_inflight'[i].ts
      BY <2>1, <3>1 DEF QueueFollows, Used
    <3>3. j \in Positions(nvme_inflight, k) BY <3>1, <3>2 DEF Positions
    <3> QED BY <2>3, <2>4, <3>2, <3>3
  <2> QED BY <2>2, <2>4 DEF BeganAt, nvme_line_is_for_device
<1>8. CASE UsesOf(k, n) # {}
  <2>1. PICK i \in UsesOf(k, n) : /\ \A j \in UsesOf(k, n) : j <= i
                                  /\ trace_pipe[i].kind = "setup" /\ trace_pipe[i].ts = ts /\ trace_pipe[i].disk = disk
    BY <1>8 DEF BeganAt
  <2>2. i \in Nat /\ Used(trace_pipe[i]) BY <1>3
  <2>3. CASE i # 1
    <3>1. i - 1 \in UsesOf(k, n - 1)' /\ trace_pipe'[i - 1] = trace_pipe[i] BY <1>6, <2>3
    <3>2. ASSUME NEW j \in UsesOf(k, n - 1)' PROVE j <= i - 1
      <4>1. j \in Nat /\ j + 1 <= i BY <1>5, <2>1
      <4> QED BY <2>2, <4>1
    <3> QED BY <2>1, <3>1, <3>2 DEF BeganAt
  <2>4. CASE i = 1
    <3>1. UsesOf(k, n - 1)' = {}
      <4>1. ASSUME NEW j \in UsesOf(k, n - 1)' PROVE FALSE
        <5>1. j \in 1..n - 1 /\ j + 1 <= 1 BY <1>4, <1>5, <2>1, <2>4
        <5> QED BY <1>1, <5>1
      <4> QED BY <4>1
    <3>2. h.kind = "setup" /\ h.ts = ts /\ h.disk = disk /\ h.key = k BY <1>2, <2>1, <2>2, <2>4 DEF Used
    <3>3. For => nvme_line_is_for_device(h) BY <3>2 DEF nvme_line_is_for_device
    <3>4. ASSUME For, NEW j \in Positions(nvme_inflight, k)' PROVE nvme_inflight'[j].ts = ts
      <4>1. j \in 1..Len(nvme_inflight)' /\ nvme_inflight'[j].key = k BY <3>4 DEF Positions
      <4> QED BY <3>2, <3>3, <3>4, <4>1 DEF QueueFollows
    <3> QED BY <3>1, <3>4 DEF BeganAt, nvme_line_is_for_device
  <2> QED BY <2>3, <2>4
<1> QED BY <1>7, <1>8

\* So every completion in the pipe and every command under way is paired as
\* before.
LEMMA PipeShrinks ==
    ASSUME trace_pipe \in Seq(Lines), trace_pipe # <<>>, trace_pipe' = Tail(trace_pipe), NEW h, h = Head(trace_pipe),
           QueueFollows(h), UNCHANGED busy, UsesArePaired
    PROVE  UsesArePaired'
<1>0. PICK len : len = Len(trace_pipe) OBVIOUS
<1>1. len \in Nat /\ len >= 1
  <2>1. len \in Nat BY <1>0, OwnElements
  <2>2. len # 0 BY <1>0, EmptySeq
  <2> QED BY <2>1, <2>2
<1>2. Len(trace_pipe)' = len - 1 /\ \A i \in 1..len - 1 : trace_pipe'[i] = trace_pipe[i + 1]
  BY <1>0, HeadTailProperties
<1>3. ASSUME NEW m \in 1..len - 1, trace_pipe'[m].kind = "complete"
      PROVE  BeganAt(trace_pipe[m].key, trace_pipe[m].disk, trace_pipe[m].since, m - 1)'
  <2>1. PICK e : e = trace_pipe'[m] OBVIOUS
  <2>2. m + 1 \in 1..len /\ m \in 1..len /\ (m + 1) - 1 = m /\ e = trace_pipe[m + 1] BY <1>1, <1>2, <2>1
  <2>3. BeganAt(e.key, e.disk, e.since, m) BY <1>0, <1>3, <2>1, <2>2 DEF UsesArePaired
  <2>4. BeganAt(e.key, e.disk, e.since, m - 1)' BY <1>0, <2>2, <2>3, UseMoves
  <2> QED BY <2>1, <2>4
<1>4. ASSUME NEW k \in DOMAIN busy' PROVE BeganAt(k, busy[k].disk, busy[k].ts, Len(trace_pipe))'
  <2>1. PICK d, t : d = busy[k].disk /\ t = busy[k].ts OBVIOUS
  <2>2. BeganAt(k, d, t, len) BY <1>0, <2>1 DEF UsesArePaired
  <2>3. BeganAt(k, d, t, len - 1)' BY <1>0, <1>1, <2>2, UseMoves
  <2>4. d = busy'[k].disk /\ t = busy'[k].ts BY <2>1
  <2> QED BY <1>2, <2>3, <2>4
<1> QED BY <1>2, <1>3, <1>4 DEF UsesArePaired

\* What the reader keeps: the part of the invariant that is about it alone.
Counters == [setup : Nat, complete : Nat, matched : Nat, expired : Nat, evicted : Nat, seen : Nat, issued : Nat, timed : Nat]
ReaderKeeps ==
    /\ nvme_inflight \in Seq(Range(nvme_inflight)) /\ samples \in Seq(Range(samples)) /\ counts \in Counters
    /\ Len(nvme_inflight) <= MaxPending + (counts.setup % PruneEvery)
    /\ counts.setup >= counts.matched + counts.expired + counts.evicted + Len(nvme_inflight)
    /\ counts.matched <= counts.complete

\* The setup counter and the prunes: the remainder is zero at a prune and
\* goes up by one between them.
LEMMA BetweenPrunes ==
    ASSUME NEW s \in Nat
    PROVE  /\ s % PruneEvery \in Nat
           /\ (s + 1) % PruneEvery = 0 \/ (s + 1) % PruneEvery = (s % PruneEvery) + 1
<1>1. PruneEvery \in Nat \ {0} BY CollectorAssumption
<1>2. ASSUME NEW p \in Nat \ {0}
      PROVE  s % p \in 0..p - 1 /\ ((s + 1) % p = 0 \/ (s + 1) % p = (s % p) + 1)
  OBVIOUS
<1>3. PICK p : p = PruneEvery OBVIOUS
<1>4. p \in Nat \ {0} BY <1>1, <1>3
<1>5. s % p \in 0..p - 1 /\ ((s + 1) % p = 0 \/ (s + 1) % p = (s % p) + 1) BY <1>2, <1>4
<1>6. s % p \in Nat BY <1>4, <1>5
<1> QED BY <1>3, <1>5, <1>6

\* A block line leaves the commands as they are.
LEMMA BlockRead ==
    ASSUME ReaderKeeps, NEW h \in Lines, h.kind \in {"issue", "comp"}, OnIssue(h) \/ OnComp(h)
    PROVE  QueueFollows(h) /\ ReaderKeeps' /\ UNCHANGED samples
<1>1. UNCHANGED <<nvme_inflight, samples>> BY DEF OnIssue, OnComp
<1>2. QueueFollows(h) BY <1>1 DEF QueueFollows
<1>3. counts' \in Counters /\ counts'.setup = counts.setup /\ counts'.matched = counts.matched
      /\ counts'.expired = counts.expired /\ counts'.evicted = counts.evicted /\ counts'.complete = counts.complete
  <2>0. counts \in Counters BY DEF ReaderKeeps
  <2>1. CASE UNCHANGED counts BY <2>0, <2>1
  <2>2. CASE counts' = CountUp([issued |-> 1]) BY <2>0, <2>2 DEF CountUp, Counters
  <2>3. CASE \E x \in {0, 1} : counts' = CountUp([timed |-> x]) BY <2>0, <2>3 DEF CountUp, Counters
  <2>4. UNCHANGED counts \/ counts' = CountUp([issued |-> 1]) \/ \E x \in {0, 1} : counts' = CountUp([timed |-> x])
    BY DEF OnIssue, OnComp
  <2> QED BY <2>1, <2>2, <2>3, <2>4
<1> QED BY <1>1, <1>2, <1>3 DEF ReaderKeeps, Range

\* The command of an accepted setup takes the place of its key, or the last.
WithCommand(q, key, e) ==
    IF Positions(q, key) = {} THEN Append(q, e)
    ELSE [i \in 1..Len(q) |-> IF i \in Positions(q, key) THEN e ELSE q[i]]
PlacedIn(q, key, e, r) ==
    /\ r \in Seq(Range(q) \cup {e}) /\ Len(r) <= Len(q) + 1
    /\ \A i \in 1..Len(r) : r[i] = e \/ \E j \in 1..Len(q) : r[i] = q[j] /\ q[j].key # key
LEMMA PlaceTaken ==
    ASSUME NEW q, q \in Seq(Range(q)), NEW key, NEW e
    PROVE  PlacedIn(q, key, e, WithCommand(q, key, e))
<1>0. PICK r : r = WithCommand(q, key, e) OBVIOUS
<1>1. Len(q) \in Nat /\ \A i \in 1..Len(q) : q[i] \in Range(q) BY OwnElements
<1>2. CASE Positions(q, key) = {}
  <2>1. r = Append(q, e) BY <1>0, <1>2 DEF WithCommand
  <2>2. \A j \in 1..Len(q) : q[j].key # key BY <1>2 DEF Positions
  <2>3. q \in Seq(Range(q) \cup {e}) /\ e \in Range(q) \cup {e} OBVIOUS
  <2>4. /\ r \in Seq(Range(q) \cup {e}) /\ Len(r) = Len(q) + 1 /\ r[Len(q) + 1] = e
        /\ \A i \in 1..Len(q) : r[i] = q[i]
    BY <2>1, <2>3, AppendProperties
  <2>5. ASSUME NEW i \in 1..Len(r) PROVE r[i] = e \/ \E j \in 1..Len(q) : r[i] = q[j] /\ q[j].key # key
    <3>1. i \in 1..Len(q) \/ i = Len(q) + 1 BY <1>1, <2>4
    <3> QED BY <2>2, <2>4, <3>1
  <2>6. Len(r) <= Len(q) + 1 BY <1>1, <2>4
  <2> QED BY <1>0, <2>4, <2>5, <2>6 DEF PlacedIn
<1>3. CASE Positions(q, key) # {}
  <2>1. r = [i \in 1..Len(q) |-> IF i \in Positions(q, key) THEN e ELSE q[i]] BY <1>0, <1>3 DEF WithCommand
  <2>2. r \in [1..Len(q) -> Range(q) \cup {e}] BY <1>1, <2>1
  <2>3. r \in Seq(Range(q) \cup {e}) BY <1>1, <2>2, SeqDef
  <2>4. Len(r) = Len(q) BY <1>1, <2>1, <2>2, <2>3, LenProperties
  <2>5. \A i \in 1..Len(q) : r[i] = IF i \in Positions(q, key) THEN e ELSE q[i] BY <2>1
  <2>6. \A i \in 1..Len(q) : i \notin Positions(q, key) => q[i].key # key BY DEF Positions
  <2>7. Len(r) <= Len(q) + 1 BY <1>1, <2>4
  <2>8. \A i \in 1..Len(r) : r[i] = e \/ \E j \in 1..Len(q) : r[i] = q[j] /\ q[j].key # key BY <2>4, <2>5, <2>6
  <2> QED BY <1>0, <2>3, <2>7, <2>8 DEF PlacedIn
<1> QED BY <1>2, <1>3

\* A setup is read.
LEMMA SetupRead ==
    ASSUME ReaderKeeps, NEW h \in Lines, h.kind = "setup", OnSetup(h)
    PROVE  QueueFollows(h) /\ ReaderKeeps' /\ UNCHANGED samples
<1>0. /\ nvme_inflight \in Seq(Range(nvme_inflight)) /\ samples \in Seq(Range(samples)) /\ counts \in Counters
      /\ UNCHANGED samples
  BY DEF ReaderKeeps, OnSetup
<1>1. CASE ~nvme_line_is_for_device(h)
  <2>1. UNCHANGED <<nvme_inflight, counts>> BY <1>1 DEF OnSetup
  <2>2. QueueFollows(h) BY <1>1, <2>1 DEF QueueFollows
  <2> QED BY <1>0, <2>1, <2>2 DEF ReaderKeeps, Range
<1>2. CASE nvme_line_is_for_device(h)
  <2> DEFINE size == nvme_cmd_lba_size(h.cmd)
  <2>1. PICK e : e = [key |-> h.key, ts |-> h.ts, op |-> h.cmd.op, sector |-> size.sector, bytes |-> size.bytes] OBVIOUS
  <2>2. e.key = h.key /\ e.ts = h.ts BY <2>1
  <2>3. PICK q : q = nvme_inflight OBVIOUS
  <2>4. PICK r : r = IF Positions(q, h.key) = {} THEN Append(q, e)
                     ELSE [i \in 1..Len(q) |-> IF i \in Positions(q, h.key) THEN e ELSE q[i]]
    OBVIOUS
  <2>5. PICK p : p = IF (counts.setup + 1) % PruneEvery = 0 THEN Prune(r, h.ts)
                     ELSE [queue |-> r, expired |-> 0, evicted |-> 0]
    OBVIOUS
  <2>6. /\ nvme_inflight' = p.queue
        /\ counts' = CountUp([setup |-> 1, expired |-> p.expired, evicted |-> p.evicted])
    BY <1>2, <2>1, <2>3, <2>4, <2>5 DEF OnSetup
  <2>7. /\ r \in Seq(Range(q) \cup {e}) /\ Len(r) <= Len(q) + 1
        /\ \A i \in 1..Len(r) : r[i] = e \/ \E j \in 1..Len(q) : r[i] = q[j] /\ q[j].key # h.key
    <3>1. q \in Seq(Range(q)) BY <1>0, <2>3
    <3>2. r = WithCommand(q, h.key, e) BY <2>4 DEF WithCommand
    <3>3. PlacedIn(q, h.key, e, r) BY <3>1, <3>2, PlaceTaken
    <3> QED BY <3>3 DEF PlacedIn
  <2>8. /\ p.queue \in Seq(Range(q) \cup {e}) /\ p.expired \in Nat /\ p.evicted \in Nat
        /\ Len(p.queue) + p.expired + p.evicted = Len(r)
        /\ \A i \in 1..Len(p.queue) : \E j \in 1..Len(r) : p.queue[i] = r[j]
        /\ IF (counts.setup + 1) % PruneEvery = 0 THEN Len(p.queue) <= MaxPending ELSE Len(p.queue) = Len(r)
    <3>1. CASE (counts.setup + 1) % PruneEvery = 0
      <4>1. p = Prune(r, h.ts) BY <2>5, <3>1
      <4>2. r \in Seq(Range(q) \cup {e}) BY <2>7
      <4>3. PrunedFrom(Range(q) \cup {e}, r, p) BY <4>1, <4>2, PruneLeaves
      <4> QED BY <3>1, <4>3 DEF PrunedFrom
    <3>2. CASE (counts.setup + 1) % PruneEvery # 0
      <4>1. p = [queue |-> r, expired |-> 0, evicted |-> 0] BY <2>5, <3>2
      <4>2. p.queue = r /\ p.expired = 0 /\ p.evicted = 0 BY <4>1
      <4>3. Len(r) \in Nat BY <2>7, OwnElements
      <4>4. Len(r) + 0 + 0 = Len(r) BY <4>3
      <4> QED BY <2>7, <3>2, <4>2, <4>4
    <3> QED BY <3>1, <3>2
  <2>9. \A i \in 1..Len(p.queue) : p.queue[i] = e \/ \E j \in 1..Len(q) : p.queue[i] = q[j] /\ q[j].key # h.key
    BY <2>7, <2>8
  <2>10. QueueFollows(h)
    <3>1. Len(nvme_inflight)' = Len(p.queue) BY <2>6
    <3>2. ASSUME NEW i \in 1..Len(p.queue)
          PROVE  /\ \/ \E j \in 1..Len(q) : q[j].key = p.queue[i].key /\ q[j].ts = p.queue[i].ts
                    \/ p.queue[i].key = h.key /\ p.queue[i].ts = h.ts
                 /\ p.queue[i].key = h.key => p.queue[i].ts = h.ts
      BY <2>2, <2>9
    <3> QED BY <2>3, <2>6, <3>1, <3>2 DEF QueueFollows
  <2>11. nvme_inflight' \in Seq(Range(nvme_inflight)') BY <2>6, <2>8, OwnElements
  <2>12. PICK c : c = counts OBVIOUS
  <2>13. PICK a, b : a = p.expired /\ b = p.evicted OBVIOUS
  <2>14. counts' = [x \in DOMAIN c |-> IF x \in DOMAIN [setup |-> 1, expired |-> a, evicted |-> b]
                                       THEN c[x] + [setup |-> 1, expired |-> a, evicted |-> b][x] ELSE c[x]]
    BY <2>6, <2>12, <2>13 DEF CountUp
  <2>15. c \in Counters /\ a \in Nat /\ b \in Nat BY <1>0, <2>8, <2>12, <2>13
  <2>16. /\ counts' \in Counters /\ counts'.setup = c.setup + 1 /\ counts'.matched = c.matched
         /\ counts'.expired = c.expired + a /\ counts'.evicted = c.evicted + b /\ counts'.complete = c.complete
    BY <2>14, <2>15 DEF Counters
  <2>17. /\ Len(p.queue) <= MaxPending + ((c.setup + 1) % PruneEvery)
         /\ c.setup + 1 >= c.matched + (c.expired + a) + (c.evicted + b) + Len(p.queue)
    <3>1. PICK ql, rl, pl : ql = Len(q) /\ rl = Len(r) /\ pl = Len(p.queue) OBVIOUS
    <3>2. ql \in Nat /\ rl \in Nat /\ pl \in Nat BY <1>0, <2>3, <2>7, <2>8, <3>1, OwnElements
    <3>3. rl <= ql + 1 /\ pl + a + b = rl BY <2>7, <2>8, <2>13, <3>1
    <3>4. PICK s, m, x, v : s = c.setup /\ m = c.matched /\ x = c.expired /\ v = c.evicted OBVIOUS
    <3>5. s \in Nat /\ m \in Nat /\ x \in Nat /\ v \in Nat BY <2>15, <3>4 DEF Counters
    <3>6. ql <= MaxPending + (s % PruneEvery) /\ s >= m + x + v + ql BY <2>3, <2>12, <3>1, <3>4 DEF ReaderKeeps
    <3>7. s + 1 >= m + (x + a) + (v + b) + pl BY <2>15, <3>2, <3>3, <3>5, <3>6
    <3>8. IF (s + 1) % PruneEvery = 0 THEN pl <= MaxPending ELSE pl = rl BY <2>8, <2>12, <3>1, <3>4
    <3>9. s % PruneEvery \in Nat /\ ((s + 1) % PruneEvery = 0 \/ (s + 1) % PruneEvery = (s % PruneEvery) + 1)
      BY <3>5, BetweenPrunes
    <3>10. pl <= MaxPending + ((s + 1) % PruneEvery)
      <4>1. PICK u, w : u = s % PruneEvery /\ w = (s + 1) % PruneEvery OBVIOUS
      <4>2. u \in Nat /\ (w = 0 \/ w = u + 1) /\ ql <= MaxPending + u /\ (IF w = 0 THEN pl <= MaxPending ELSE pl = rl)
        BY <3>6, <3>8, <3>9, <4>1
      <4>3. MaxPending \in Nat BY CollectorAssumption
      <4>4. pl <= MaxPending + w BY <3>2, <3>3, <4>2, <4>3
      <4> QED BY <4>1, <4>4
    <3> QED BY <3>1, <3>4, <3>7, <3>10
  <2>18. c.matched <= c.complete BY <2>12 DEF ReaderKeeps
  <2>19. samples' \in Seq(Range(samples)') BY <1>0 DEF Range
  <2> QED BY <1>0, <2>6, <2>10, <2>11, <2>16, <2>17, <2>18, <2>19 DEF ReaderKeeps
<1> QED BY <1>1, <1>2

\* The reservoir holds what it held, and the new latency.
LEMMA ReservoirKeeps ==
    ASSUME samples \in Seq(Range(samples)), NEW x, NEW seen, ReservoirAdd(x, seen)
    PROVE  /\ samples' \in Seq(Range(samples)')
           /\ \A i \in 1..Len(samples)' : samples'[i] = x \/ \E j \in 1..Len(samples) : samples'[i] = samples[j]
<1>0. PICK s : s = samples OBVIOUS
<1>1. PICK r : r = samples' OBVIOUS
<1>2. s \in Seq(Range(s)) /\ Len(s) \in Nat /\ \A i \in 1..Len(s) : s[i] \in Range(s) BY <1>0, OwnElements
<1>3. PICK S : S = Range(s) \cup {x} OBVIOUS
<1>4. s \in Seq(S) BY <1>2, <1>3
<1>5. \/ r = Append(s, x) \/ r = s
      \/ \E j \in 1..Len(s) : r = [s EXCEPT ![j] = x]
  <2>1. CASE Len(s) < MaxSamples /\ r = Append(s, x) BY <2>1
  <2>2. CASE Len(s) >= MaxSamples /\ \E j \in 0..seen - 1 : r = IF j < MaxSamples THEN [s EXCEPT ![j + 1] = x] ELSE s
    <3>1. PICK j \in 0..seen - 1 : r = IF j < MaxSamples THEN [s EXCEPT ![j + 1] = x] ELSE s BY <2>2
    <3>2. j < MaxSamples => j + 1 \in 1..Len(s)
      <4>1. MaxSamples \in Nat /\ j \in Int /\ j >= 0 BY CollectorAssumption
      <4> QED BY <1>2, <2>2, <4>1
    <3> QED BY <3>1, <3>2
  <2> QED BY <1>0, <1>1, <2>1, <2>2 DEF ReservoirAdd
<1>6. r \in Seq(S) /\ \A i \in 1..Len(r) : r[i] = x \/ \E j \in 1..Len(s) : r[i] = s[j]
  <2>1. CASE r = s BY <1>4, <2>1
  <2>2. CASE r = Append(s, x)
    <3>1. x \in S BY <1>3
    <3>2. r \in Seq(S) /\ Len(r) = Len(s) + 1 /\ r[Len(s) + 1] = x /\ \A i \in 1..Len(s) : r[i] = s[i]
      BY <1>4, <2>2, <3>1, AppendProperties
    <3>3. \A i \in 1..Len(r) : i \in 1..Len(s) \/ i = Len(s) + 1 BY <1>2, <3>2
    <3> QED BY <3>2, <3>3
  <2>3. CASE \E j \in 1..Len(s) : r = [s EXCEPT ![j] = x]
    <3>1. PICK j \in 1..Len(s) : r = [s EXCEPT ![j] = x] BY <2>3
    <3>2. s \in [1..Len(s) -> S] BY <1>4, LenProperties
    <3>3. r \in [1..Len(s) -> S] BY <1>3, <3>1, <3>2
    <3>4. r \in Seq(S) BY <1>2, <3>3, SeqDef
    <3>5. Len(r) = Len(s) BY <1>2, <3>3, <3>4, LenProperties
    <3>6. \A i \in 1..Len(s) : r[i] = x \/ r[i] = s[i] BY <3>1, <3>2
    <3> QED BY <3>4, <3>5, <3>6
  <2> QED BY <1>5, <2>1, <2>2, <2>3
<1>7. r \in Seq(Range(r)) BY <1>6, OwnElements
<1> QED BY <1>0, <1>1, <1>6, <1>7

\* A completion is read: the latency that is added is that of a pending
\* command of its key.
LEMMA CompletionRead ==
    ASSUME ReaderKeeps, NEW h \in Lines, h.kind = "complete", OnComplete(h)
    PROVE  /\ QueueFollows(h) /\ ReaderKeeps'
           /\ \A i \in 1..Len(samples)' :
                 \/ \E j \in 1..Len(samples) : samples'[i] = samples[j]
                 \/ /\ nvme_line_is_for_device(h)
                    /\ \E j \in Positions(nvme_inflight, h.key) :
                          samples'[i] = <<h.ts - nvme_inflight[j].ts, h.ts - h.since>>
<1>0. nvme_inflight \in Seq(Range(nvme_inflight)) /\ samples \in Seq(Range(samples)) /\ counts \in Counters
  BY DEF ReaderKeeps
<1>1. CASE ~nvme_line_is_for_device(h)
  <2>1. UNCHANGED <<nvme_inflight, counts, samples>> BY <1>1 DEF OnComplete
  <2>2. QueueFollows(h) BY <2>1 DEF QueueFollows
  <2>3. ReaderKeeps' BY <2>1 DEF ReaderKeeps, Range
  <2> QED BY <2>1, <2>2, <2>3
<1>2. CASE nvme_line_is_for_device(h)
  <2> DEFINE at == Positions(nvme_inflight, h.key)
             k == CHOOSE i \in at : TRUE
             e == nvme_inflight[k]
             timed == at # {} /\ h.ts > e.ts
  <2>1. /\ nvme_inflight' = IF at = {} THEN nvme_inflight ELSE RemoveAt(nvme_inflight, k)
        /\ counts' = IF timed THEN CountUp([complete |-> 1, matched |-> 1, seen |-> 1]) ELSE CountUp([complete |-> 1])
        /\ IF timed THEN ReservoirAdd(<<h.ts - e.ts, h.ts - h.since>>, counts.seen + 1) ELSE UNCHANGED samples
    BY <1>2 DEF OnComplete
  <2>2. at # {} => k \in at /\ k \in 1..Len(nvme_inflight) BY DEF Positions
  <2> HIDE DEF at, k
  <2>3. PICK q : q = nvme_inflight OBVIOUS
  <2>4. PICK r : r = nvme_inflight' OBVIOUS
  <2>5. /\ r \in Seq(Range(q)) /\ (IF at = {} THEN Len(r) = Len(q) ELSE Len(r) = Len(q) - 1)
        /\ \A i \in 1..Len(r) : \E j \in 1..Len(q) : r[i] = q[j]
    <3>1. CASE at = {}
      <4>1. r = q BY <2>1, <2>3, <2>4, <3>1
      <4>2. r \in Seq(Range(q)) BY <1>0, <2>3, <4>1
      <4>3. \A i \in 1..Len(r) : \E j \in 1..Len(q) : r[i] = q[j] BY <4>1
      <4> QED BY <3>1, <4>1, <4>2, <4>3
    <3>2. CASE at # {}
      <4>1. r = RemoveAt(q, k) /\ k \in 1..Len(q) /\ q \in Seq(Range(q)) BY <1>0, <2>1, <2>2, <2>3, <2>4, <3>2
      <4>2. PICK S : S = Range(q) OBVIOUS
      <4>3. q \in Seq(S) BY <4>1, <4>2
      <4>4. /\ r \in Seq(S) /\ Len(r) = Len(q) - 1
            /\ \A i \in 1..Len(q) - 1 : \E j \in 1..Len(q) : r[i] = q[j]
        BY <4>1, <4>3, OneRemoved
      <4> QED BY <3>2, <4>2, <4>4
    <3> QED BY <3>1, <3>2
  <2>6. QueueFollows(h) BY <2>3, <2>4, <2>5 DEF QueueFollows
  <2>7. nvme_inflight' \in Seq(Range(nvme_inflight)') BY <2>4, <2>5, OwnElements
  <2>8. /\ samples' \in Seq(Range(samples)')
        /\ \A i \in 1..Len(samples)' : \/ \E j \in 1..Len(samples) : samples'[i] = samples[j]
                                       \/ timed /\ samples'[i] = <<h.ts - e.ts, h.ts - h.since>>
    <3>1. CASE timed BY <1>0, <2>1, <3>1, ReservoirKeeps
    <3>2. CASE ~timed
      <4>1. UNCHANGED samples BY <2>1, <3>2
      <4> QED BY <1>0, <4>1 DEF Range
    <3> QED BY <3>1, <3>2
  <2>9. PICK c : c = counts OBVIOUS
  <2>10. c \in Counters BY <1>0, <2>9
  <2>11. /\ counts' \in Counters /\ counts'.setup = c.setup /\ counts'.expired = c.expired
         /\ counts'.evicted = c.evicted /\ counts'.complete = c.complete + 1
         /\ counts'.matched = c.matched \/ (at # {} /\ counts'.matched = c.matched + 1)
    <3>1. CASE timed
      <4>1. counts' = CountUp([complete |-> 1, matched |-> 1, seen |-> 1]) BY <2>1, <3>1
      <4>2. /\ counts' \in Counters /\ counts'.setup = c.setup /\ counts'.expired = c.expired
            /\ counts'.evicted = c.evicted /\ counts'.complete = c.complete + 1 /\ counts'.matched = c.matched + 1
        BY <2>9, <2>10, <4>1 DEF CountUp, Counters
      <4> QED BY <3>1, <4>2
    <3>2. CASE ~timed
      <4>1. counts' = CountUp([complete |-> 1]) BY <2>1, <3>2
      <4>2. /\ counts' \in Counters /\ counts'.setup = c.setup /\ counts'.expired = c.expired
            /\ counts'.evicted = c.evicted /\ counts'.complete = c.complete + 1 /\ counts'.matched = c.matched
        BY <2>9, <2>10, <4>1 DEF CountUp, Counters
      <4> QED BY <4>2
    <3> QED BY <3>1, <3>2
  <2>12. /\ Len(r) <= MaxPending + (counts'.setup % PruneEvery)
         /\ counts'.setup >= counts'.matched + counts'.expired + counts'.evicted + Len(r)
         /\ counts'.matched <= counts'.complete
    <3>1. PICK ql, rl : ql = Len(q) /\ rl = Len(r) OBVIOUS
    <3>2. ql \in Nat /\ rl \in Nat BY <1>0, <2>3, <2>5, <3>1, OwnElements
    <3>3. PICK s, m, x, v, w : s = c.setup /\ m = c.matched /\ x = c.expired /\ v = c.evicted /\ w = c.complete OBVIOUS
    <3>4. s \in Nat /\ m \in Nat /\ x \in Nat /\ v \in Nat /\ w \in Nat BY <2>10, <3>3 DEF Counters
    <3>5. ql <= MaxPending + (s % PruneEvery) /\ s >= m + x + v + ql /\ m <= w
      BY <2>3, <2>9, <3>1, <3>3 DEF ReaderKeeps
    <3>6. PICK n : n = counts'.matched OBVIOUS
    <3>7. (rl = ql /\ n = m) \/ (rl = ql - 1 /\ (n = m \/ n = m + 1)) BY <2>5, <2>11, <3>1, <3>3, <3>6
    <3>8. s >= n + x + v + rl /\ n <= w + 1 BY <3>2, <3>4, <3>5, <3>7
    <3>9. rl <= MaxPending + (s % PruneEvery)
      <4>1. PICK u : u = s % PruneEvery OBVIOUS
      <4>2. u \in Nat /\ MaxPending \in Nat BY <3>4, <4>1, BetweenPrunes, CollectorAssumption
      <4>3. ql <= MaxPending + u BY <3>5, <4>1
      <4>4. rl <= MaxPending + u BY <3>2, <3>7, <4>2, <4>3
      <4> QED BY <4>1, <4>4
    <3> QED BY <2>11, <3>1, <3>3, <3>6, <3>8, <3>9
  <2>13. ReaderKeeps' BY <2>4, <2>7, <2>8, <2>11, <2>12 DEF ReaderKeeps
  <2> QED BY <1>2, <2>2, <2>6, <2>8, <2>13 DEF at
<1> QED BY <1>1, <1>2

\* The latencies in the sample after a line: one that is new is that of the
\* command the completion ends.
LEMMA SampleIsOwn ==
    ASSUME UsesArePaired, trace_pipe \in Seq(Lines), trace_pipe # <<>>, NEW h, h = Head(trace_pipe),
           h.kind = "complete", nvme_line_is_for_device(h), NEW j \in Positions(nvme_inflight, h.key)
    PROVE  nvme_inflight[j].ts = h.since
<1>1. h = trace_pipe[1] BY HeadTailProperties
<1>2. 1 \in 1..Len(trace_pipe)
  <2>1. Len(trace_pipe) \in Nat BY OwnElements
  <2>2. Len(trace_pipe) # 0 BY EmptySeq
  <2> QED BY <2>1, <2>2
<1>3. BeganAt(h.key, h.disk, h.since, 0)
  <2>1. BeganAt(h.key, h.disk, h.since, 1 - 1) BY <1>1, <1>2 DEF UsesArePaired
  <2> QED BY <2>1
<1>4. UsesOf(h.key, 0) = {} BY DEF UsesOf
<1>5. nvme_line_is_for_device([disk |-> h.disk, key |-> h.key]) BY DEF nvme_line_is_for_device
<1> QED BY <1>3, <1>4, <1>5 DEF BeganAt

\* A line is read.
LEMMA ReadKeeps == ASSUME LatenciesAreOwn, ReadLine PROVE LatenciesAreOwn'
<1>0. PICK h : h = Head(trace_pipe) OBVIOUS
<1>1. /\ trace_pipe # <<>> /\ trace_pipe' = Tail(trace_pipe)
      /\ UNCHANGED <<tracefs, collector, busy, clock, lostSetups>>
  BY DEF ReadLine, collectVars
<1>2. trace_pipe \in Seq(Lines) /\ FtraceTypeOK /\ TracingIsOn BY DEF LatenciesAreOwn, FtraceTypeOK
<1>3. h \in Lines /\ trace_pipe' \in Seq(Lines) BY <1>0, <1>1, <1>2, HeadTailProperties
<1>4. ReaderKeeps BY DEF LatenciesAreOwn, FtraceTypeOK, ReaderKeeps, Counters
<1> DEFINE Own == \A i \in 1..Len(samples)' :
                     \/ \E j \in 1..Len(samples) : samples'[i] = samples[j]
                     \/ /\ h.kind = "complete" /\ nvme_line_is_for_device(h)
                        /\ \E j \in Positions(nvme_inflight, h.key) :
                              samples'[i] = <<h.ts - nvme_inflight[j].ts, h.ts - h.since>>
<1>5. QueueFollows(h) /\ ReaderKeeps' /\ Own
  <2>1. CASE h.kind \in {"issue", "comp"} /\ (OnIssue(h) \/ OnComp(h)) BY <1>3, <1>4, <2>1, BlockRead
  <2>2. CASE h.kind = "setup" /\ OnSetup(h) BY <1>3, <1>4, <2>2, SetupRead
  <2>3. CASE h.kind = "complete" /\ OnComplete(h) BY <1>3, <1>4, <2>3, CompletionRead
  <2>4. \/ h.kind = "issue" /\ OnIssue(h)
        \/ h.kind = "comp" /\ OnComp(h)
        \/ h.kind = "setup" /\ OnSetup(h)
        \/ h.kind = "complete" /\ OnComplete(h)
    BY <1>0 DEF ReadLine
  <2> QED BY <2>1, <2>2, <2>3, <2>4
<1>6. FtraceTypeOK'
  <2>1. /\ nvme_inflight' \in Seq(Range(nvme_inflight)') /\ samples' \in Seq(Range(samples)')
        /\ counts' \in [setup : Nat, complete : Nat, matched : Nat, expired : Nat, evicted : Nat,
                        seen : Nat, issued : Nat, timed : Nat]
    BY <1>5 DEF ReaderKeeps, Counters
  <2>2. clock' \in Nat /\ lostSetups' \in BOOLEAN BY <1>1, <1>2 DEF FtraceTypeOK
  <2>3. \A k \in DOMAIN busy' : k \in NvmeKeys /\ busy'[k].ts \in Nat /\ busy'[k].disk \in Disks
    BY <1>1, <1>2 DEF FtraceTypeOK
  <2> QED BY <1>3, <2>1, <2>2, <2>3 DEF FtraceTypeOK
<1>7. TracingIsOn' BY <1>1, <1>2 DEF TracingIsOn
<1>8. ASSUME ~lostSetups' PROVE UsesArePaired' /\ \A i \in 1..Len(samples)' : samples'[i][1] = samples'[i][2]
  <2>1. UsesArePaired /\ \A i \in 1..Len(samples) : samples[i][1] = samples[i][2] BY <1>1, <1>8 DEF LatenciesAreOwn
  <2>2. UsesArePaired' BY <1>0, <1>1, <1>2, <1>5, <2>1, PipeShrinks
  <2>3. ASSUME NEW i \in 1..Len(samples)' PROVE samples'[i][1] = samples'[i][2]
    <3>1. CASE \E j \in 1..Len(samples) : samples'[i] = samples[j] BY <2>1, <3>1
    <3>2. CASE ~\E j \in 1..Len(samples) : samples'[i] = samples[j]
      <4>1. h.kind = "complete" /\ nvme_line_is_for_device(h) BY <1>5, <3>2
      <4>2. PICK j \in Positions(nvme_inflight, h.key) : samples'[i] = <<h.ts - nvme_inflight[j].ts, h.ts - h.since>>
        BY <1>5, <3>2
      <4>3. nvme_inflight[j].ts = h.since BY <1>0, <1>1, <1>2, <2>1, <4>1, SampleIsOwn
      <4> QED BY <4>2, <4>3
    <3> QED BY <3>1, <3>2
  <2> QED BY <2>2, <2>3
<1> QED BY <1>5, <1>6, <1>7, <1>8 DEF LatenciesAreOwn, ReaderKeeps

\* When the set-up writes all are done, tracing is on.
LEMMA SetupWritesAll ==
    ASSUME tracefs' = WriteAll(SetupWrites, SetupValues),
           \A i \in 1..Len(SetupWrites) : SetupWrites[i] \notin broken \ Range(Filters),
           NEW f \in Range(Events) \cup {"tracing_on"}
    PROVE  tracefs'[f] = 1
<1>1. /\ SetupWrites = <<"issue_filter", "comp_filter", "issue_enable", "comp_enable", "nvme_setup_enable",
                         "nvme_comp_enable", "tracing_on">>
      /\ Range(Filters) = {"issue_filter", "comp_filter"}
      /\ Range(Events) = {"issue_enable", "comp_enable", "nvme_setup_enable", "nvme_comp_enable"}
  <2>1. Range(Filters) = {"issue_filter", "comp_filter"}
    <3>1. DOMAIN Filters = 1..2 /\ Filters[1] = "issue_filter" /\ Filters[2] = "comp_filter" BY DEF Filters
    <3>2. 1..2 = {1, 2} OBVIOUS
    <3> QED BY <3>1, <3>2 DEF Range
  <2>2. Range(Events) = {"issue_enable", "comp_enable", "nvme_setup_enable", "nvme_comp_enable"}
    <3>1. DOMAIN Events = 1..4 /\ Events[1] = "issue_enable" /\ Events[2] = "comp_enable"
          /\ Events[3] = "nvme_setup_enable" /\ Events[4] = "nvme_comp_enable"
      BY DEF Events
    <3>2. 1..4 = {1, 2, 3, 4} OBVIOUS
    <3> QED BY <3>1, <3>2 DEF Range
  <2>3. SetupWrites = <<"issue_filter", "comp_filter", "issue_enable", "comp_enable", "nvme_setup_enable",
                        "nvme_comp_enable", "tracing_on">>
    BY DEF SetupWrites, Filters, Events
  <2> QED BY <2>1, <2>2, <2>3
<1>2. f \in TracefsFiles /\ f \notin Range(Filters) BY <1>1 DEF TracefsFiles
<1>3. PICK i \in 1..Len(SetupWrites) : SetupWrites[i] = f
  <2>1. Len(SetupWrites) = 7 BY <1>1
  <2>2. /\ SetupWrites[3] = "issue_enable" /\ SetupWrites[4] = "comp_enable" /\ SetupWrites[5] = "nvme_setup_enable"
        /\ SetupWrites[6] = "nvme_comp_enable" /\ SetupWrites[7] = "tracing_on"
    BY <1>1
  <2>3. f \in {"issue_enable", "comp_enable", "nvme_setup_enable", "nvme_comp_enable", "tracing_on"} BY <1>1
  <2>4. 3 \in 1..7 /\ 4 \in 1..7 /\ 5 \in 1..7 /\ 6 \in 1..7 /\ 7 \in 1..7 OBVIOUS
  <2> QED BY <2>1, <2>2, <2>3, <2>4
<1>4. f \notin broken BY <1>2, <1>3
<1>5. f \in Range(SetupWrites)
  <2>1. DOMAIN SetupWrites = 1..Len(SetupWrites) BY <1>1
  <2> QED BY <1>3, <2>1 DEF Range
<1>6. SetupValues[f] = 1 /\ 1 # None BY <1>2, CollectorAssumption DEF SetupValues
<1> QED BY <1>2, <1>4, <1>5, <1>6 DEF WriteAll

\* A step of the collector or of the reader's loop changes none of the lines
\* and none of what the reader keeps.
LEMMA OthersKeep ==
    ASSUME LatenciesAreOwn, UNCHANGED <<kernelVars, readerVars2>>, TracingIsOn'
    PROVE  LatenciesAreOwn'
<1>1. UNCHANGED <<trace_pipe, busy, clock, lostSetups, nvme_inflight, counts, samples>> BY DEF kernelVars, readerVars2
<1>2. FtraceTypeOK' BY <1>1 DEF LatenciesAreOwn, FtraceTypeOK, Range
<1>3. UsesArePaired => UsesArePaired'
  <2>1. ASSUME NEW k, NEW n PROVE UsesOf(k, n)' = UsesOf(k, n) /\ Positions(nvme_inflight, k)' = Positions(nvme_inflight, k)
    BY <1>1 DEF UsesOf, Positions
  <2>2. ASSUME NEW k, NEW disk, NEW ts, NEW n PROVE BeganAt(k, disk, ts, n)' = BeganAt(k, disk, ts, n)
    BY <1>1, <2>1 DEF BeganAt, nvme_line_is_for_device
  <2> QED BY <1>1, <2>2, Zenon DEF UsesArePaired
<1> QED BY <1>1, <1>2, <1>3 DEF LatenciesAreOwn

LEMMA LatenciesStep == LatenciesAreOwn /\ [FtraceNext]_ftraceVars => LatenciesAreOwn'
<1> SUFFICES ASSUME LatenciesAreOwn, [FtraceNext]_ftraceVars PROVE LatenciesAreOwn'
  OBVIOUS
<1>0. TracingIsOn BY DEF LatenciesAreOwn
<1>1. CASE DeviceStep BY <1>1, DeviceKeeps
<1>2. CASE ReadLine BY <1>2, ReadKeeps
<1>3. CASE ReaderCheck \/ ReaderFails \/ UNCHANGED ftraceVars
  <2>1. UNCHANGED <<tracefs, collector>> /\ UNCHANGED <<kernelVars, readerVars2>>
    BY <1>3 DEF ReaderCheck, ReaderFails, ftraceVars, collectVars
  <2>2. TracingIsOn' BY <1>0, <2>1 DEF TracingIsOn
  <2> QED BY <2>1, <2>2, OthersKeep
<1>4. CASE SaveRestore \/ StopReader \/ Restore \/ Join
  <2>1. UNCHANGED <<kernelVars, readerVars2>> /\ collector' \notin {"raw", "running"}
    BY <1>4 DEF SaveRestore, StopReader, Restore, Join
  <2>2. TracingIsOn' BY <2>1 DEF TracingIsOn
  <2> QED BY <2>1, <2>2, OthersKeep
<1>5. CASE OpenRaw
  <2>1. UNCHANGED <<kernelVars, readerVars2>> /\ collector = "raw" /\ UNCHANGED tracefs BY <1>5 DEF OpenRaw
  <2>2. TracingIsOn' BY <1>0, <2>1 DEF TracingIsOn
  <2> QED BY <2>1, <2>2, OthersKeep
<1>6. CASE Enable
  <2>1. UNCHANGED <<kernelVars, readerVars2>> BY <1>6 DEF Enable
  <2>2. ASSUME collector' \in {"raw", "running"}
        PROVE  /\ tracefs' = WriteAll(SetupWrites, SetupValues)
               /\ \A i \in 1..Len(SetupWrites) : SetupWrites[i] \notin broken \ Range(Filters)
    <3> DEFINE refused == {i \in 1..Len(SetupWrites) : SetupWrites[i] \in broken \ Range(Filters)}
    <3>1. refused = {} /\ tracefs' = WriteAll(UpTo(SetupWrites, Len(SetupWrites)), SetupValues)
      BY <1>6, <2>2 DEF Enable
    <3>2. UpTo(SetupWrites, Len(SetupWrites)) = SetupWrites
      <4>1. SetupWrites \in Seq(Range(SetupWrites))
        <5>1. SetupWrites \in [1..7 -> Range(SetupWrites)] BY DEF SetupWrites, Range
        <5> QED BY <5>1, SeqDef
      <4> QED BY <4>1, SubSeqFull DEF UpTo
    <3> QED BY <3>1, <3>2
  <2>3. TracingIsOn' BY <2>2, SetupWritesAll DEF TracingIsOn
  <2> QED BY <2>1, <2>3, OthersKeep
<1> QED BY <1>1, <1>2, <1>3, <1>4, <1>5, <1>6 DEF FtraceNext

\* Whatever the device does, whatever numbers it gives its commands, however
\* many are pending when they are pruned: as long as the kernel has dropped
\* no line, every latency in the sample is that of one command, from its own
\* setup to its own completion, and the commands waiting stay bounded.
THEOREM LatenciesOwned == FtraceSpec => []LatenciesAreOwn
<1>1. FtraceInit => LatenciesAreOwn
  <2> SUFFICES ASSUME FtraceInit PROVE LatenciesAreOwn
    OBVIOUS
  <2>1. /\ trace_pipe = <<>> /\ busy = <<>> /\ clock = 1 /\ lostSetups = FALSE /\ nvme_inflight = <<>> /\ samples = <<>>
        /\ collector = "begin"
        /\ counts = [setup |-> 0, complete |-> 0, matched |-> 0, expired |-> 0, evicted |-> 0, seen |-> 0,
                     issued |-> 0, timed |-> 0]
    BY DEF FtraceInit
  <2>2. FtraceTypeOK
    <3>1. \A k \in DOMAIN busy : FALSE BY <2>1
    <3>2. nvme_inflight \in Seq(Range(nvme_inflight)) /\ samples \in Seq(Range(samples)) /\ trace_pipe \in Seq(Lines)
      BY <2>1
    <3> QED BY <2>1, <3>1, <3>2 DEF FtraceTypeOK
  <2>3. TracingIsOn BY <2>1 DEF TracingIsOn
  <2>4. UsesArePaired /\ \A i \in 1..Len(samples) : samples[i][1] = samples[i][2]
    <3>1. Len(trace_pipe) = 0 /\ Len(samples) = 0 /\ \A k \in DOMAIN busy : FALSE BY <2>1
    <3> QED BY <3>1 DEF UsesArePaired
  <2>5. /\ Len(nvme_inflight) = 0 /\ counts.setup = 0 /\ counts.matched = 0 /\ counts.expired = 0
        /\ counts.evicted = 0 /\ counts.complete = 0
    BY <2>1
  <2>6. Len(nvme_inflight) <= MaxPending + (counts.setup % PruneEvery)
    <3>1. 0 % PruneEvery \in Nat /\ MaxPending \in Nat BY BetweenPrunes, CollectorAssumption
    <3>2. 0 <= MaxPending + (0 % PruneEvery) BY <3>1
    <3> QED BY <2>5, <3>2
  <2> QED BY <2>2, <2>3, <2>4, <2>5, <2>6 DEF LatenciesAreOwn
<1> QED BY <1>1, LatenciesStep, PTL DEF FtraceSpec

----------------------------------------------------------------------------
(* The I/O path observer.                                                  *)

\* What a process may become, as far as an event of it can tell: what held
\* of it still does, or its generation has moved on.
Follows(r, s) ==
    r.state # "none" =>
        /\ s.state # "none" /\ r.gen <= s.gen
        /\ s.gen = r.gen =>
            /\ s.state = r.state
            /\ r.file \in ObsFiles => s.file = r.file
            /\ \A a \in MapAddrs : r.at[a] \in ObsFiles => s.at[a] = r.at[a]

\* Processes and their threads.
LEMMA TidFacts ==
    /\ ObsPids \subseteq Nat \ {0} /\ ObsPids \subseteq ObsTids /\ ObsTids \subseteq Int \ {0} /\ Owner(0) = 0
    /\ \A t \in ObsTids : Owner(t) \in ObsPids /\ t \in {Owner(t), -Owner(t)}
    /\ \A p \in ObsPids : -p \in ObsTids /\ Owner(p) = p /\ Owner(-p) = p /\ -p # p /\ -p < 0 /\ ~(p < 0) /\ -p \notin ObsPids
<1>1. ObsPids \subseteq Nat \ {0} BY ObsAssumption
<1>2. \A p \in ObsPids : -p \in Int \ {0} /\ -p < 0 /\ ~(p < 0) /\ -(-p) = p /\ -p # p BY <1>1
<1>3. \A p \in ObsPids : -p \in ObsTids /\ Owner(p) = p /\ Owner(-p) = p BY <1>2 DEF ObsTids, Owner
<1>4. \A t \in ObsTids : \E p \in ObsPids : t = p \/ t = -p BY DEF ObsTids
<1>7. \A t \in ObsTids : Owner(t) \in ObsPids /\ t \in {Owner(t), -Owner(t)} BY <1>3, <1>4
<1>8. ObsPids \subseteq ObsTids BY DEF ObsTids
<1>9. ObsTids \subseteq Int \ {0} BY <1>1, <1>2, <1>4
<1>5. Owner(0) = 0 BY DEF Owner
<1>6. \A p \in ObsPids : -p \notin ObsPids BY <1>1, <1>2
<1> QED BY <1>1, <1>2, <1>3, <1>5, <1>6, <1>7, <1>8, <1>9

\* A process is a record of its fields.
LEMMA ProcessFields ==
    ASSUME NEW r \in Processes
    PROVE  /\ r.state \in {"none", "live", "dead"} /\ r.parent \in ObsTids \cup {0} /\ r.named \in BOOLEAN
           /\ r.helper \in {"none", "live", "dead"}
           /\ r.file \in Files /\ r.at \in [MapAddrs -> Files] /\ r.gen \in Nat /\ r.dirty \in SUBSET MapAddrs
           /\ r = [state |-> r.state, parent |-> r.parent, helper |-> r.helper, named |-> r.named, file |-> r.file, at |-> r.at,
                   gen |-> r.gen, dirty |-> r.dirty]
  BY DEF Processes

\* What each call makes of a process is a process, and follows it.
LEMMA CallFollows ==
    ASSUME NEW r \in Processes
    PROVE  /\ \A t \in ObsTids \cup {0} : Adopted(r, t) \in Processes /\ Follows(r, Adopted(r, t))
           /\ Threaded(r) \in Processes /\ Follows(r, Threaded(r))
           /\ HelperGone(r) \in Processes /\ Follows(r, HelperGone(r))
           /\ Renamed(r) \in Processes /\ Follows(r, Renamed(r))
           /\ Cleared(r) \in Processes /\ Follows(r, Cleared(r))
           /\ Exited(r) \in Processes /\ Follows(r, Exited(r))
           /\ Closed(r) \in Processes /\ Follows(r, Closed(r))
           /\ Follows(r, r)
<1>0. /\ r.gen \in Nat /\ r.gen + 1 \in Nat /\ r.gen <= r.gen + 1 /\ r.gen # r.gen + 1 /\ r.gen <= r.gen
  BY ProcessFields
<1>1. \A t \in ObsTids \cup {0} : Adopted(r, t) \in Processes /\ Follows(r, Adopted(r, t))
  BY <1>0 DEF Adopted, Follows, Processes
<1>7. Threaded(r) \in Processes /\ Follows(r, Threaded(r))
  BY <1>0 DEF Threaded, Follows, Processes
<1>8. HelperGone(r) \in Processes /\ Follows(r, HelperGone(r))
  BY <1>0 DEF HelperGone, Follows, Processes
<1>2. Renamed(r) \in Processes /\ Follows(r, Renamed(r))
  BY <1>0 DEF Renamed, Follows, Processes
<1>3. Cleared(r) \in Processes /\ Follows(r, Cleared(r))
  BY <1>0 DEF Cleared, Follows, Processes
<1>4. Exited(r) \in Processes /\ Follows(r, Exited(r))
  BY <1>0 DEF Exited, Follows, Processes
<1>5. Closed(r) \in Processes /\ Follows(r, Closed(r))
  BY <1>0 DEF Closed, Follows, Processes, Files
<1>6. Follows(r, r)
  BY <1>0 DEF Follows
<1> QED BY <1>1, <1>2, <1>3, <1>4, <1>5, <1>6, <1>7, <1>8

LEMMA MapFollows ==
    ASSUME NEW r \in Processes, NEW a \in MapAddrs
    PROVE  /\ Mapped(r, a) \in Processes /\ Unmapped(r, a) \in Processes
           /\ r.at[a] = NoFile => Follows(r, Mapped(r, a)) /\ Mapped(r, a).at[a] = r.file
           /\ Mapped(r, a).state = r.state /\ Mapped(r, a).file = r.file /\ Mapped(r, a).gen = r.gen
           /\ Follows(r, Unmapped(r, a))
<1>0. /\ r.gen \in Nat /\ r.gen + 1 \in Nat /\ r.gen <= r.gen + 1 /\ r.gen # r.gen + 1 /\ r.gen <= r.gen
      /\ r.at \in [MapAddrs -> Files] /\ r.file \in Files /\ NoFile \in Files /\ r.dirty \in SUBSET MapAddrs
  BY ProcessFields DEF Files
<1>1. PICK m : m = [r.at EXCEPT ![a] = r.file] OBVIOUS
<1>2. PICK u : u = [r.at EXCEPT ![a] = NoFile] OBVIOUS
<1>3. m \in [MapAddrs -> Files] /\ u \in [MapAddrs -> Files] /\ m[a] = r.file /\ \A b \in MapAddrs : b # a => m[b] = r.at[b]
  BY <1>0, <1>1, <1>2
<1>4. Mapped(r, a) = [r EXCEPT !.at = m, !.dirty = @ \cup {a}] /\ Unmapped(r, a) = [r EXCEPT !.at = u, !.gen = @ + 1, !.dirty = @ \ {a}]
  BY <1>1, <1>2 DEF Mapped, Unmapped, Processes
<1>5. Mapped(r, a) = [state |-> r.state, parent |-> r.parent, helper |-> r.helper, named |-> r.named, file |-> r.file, at |-> m, gen |-> r.gen, dirty |-> r.dirty \cup {a}]
  BY <1>4 DEF Processes
<1>6. Unmapped(r, a) = [state |-> r.state, parent |-> r.parent, helper |-> r.helper, named |-> r.named, file |-> r.file, at |-> u, gen |-> r.gen + 1, dirty |-> r.dirty \ {a}]
  BY <1>4 DEF Processes
<1>7. Mapped(r, a) \in Processes
  BY <1>0, <1>3, <1>5, ProcessFields DEF Processes
<1>8. Unmapped(r, a) \in Processes
  BY <1>0, <1>3, <1>6, ProcessFields DEF Processes
<1>9. Follows(r, Unmapped(r, a))
  BY <1>0, <1>6 DEF Follows
<1>10. r.at[a] = NoFile => Follows(r, Mapped(r, a))
  BY <1>0, <1>3, <1>5, ObsAssumption DEF Follows
<1> QED BY <1>3, <1>5, <1>7, <1>8, <1>9, <1>10

LEMMA OpenFollows ==
    ASSUME NEW r \in Processes, NEW f \in ObsFiles
    PROVE  /\ Opened(r, f) \in Processes
           /\ r.file = NoFile => Follows(r, Opened(r, f))
           /\ Opened(r, f).state = r.state /\ Opened(r, f).file = f /\ Opened(r, f).gen = r.gen
<1>0. r.gen \in Nat /\ r.gen <= r.gen BY ProcessFields
<1> QED BY <1>0, ObsAssumption DEF Opened, Follows, Processes, Files

LEMMA ForkTyped ==
    ASSUME NEW r \in Processes, NEW t \in ObsTids
    PROVE  ForkedFrom(r, t) \in Processes
  BY DEF ForkedFrom, Processes

\* An event is a record of its fields.
LEMMA EventFields ==
    ASSUME NEW e \in ObsEvents
    PROVE  /\ e.kind \in {"openat", "rw", "fsync", "mmap"} /\ e.pid \in ObsPids /\ e.fd \in {0, 3}
           /\ e.file \in ObsFiles /\ e.hint \in MapAddrs \cup {0} /\ e.ret \in MapAddrs \cup {0} /\ e.gen \in Nat
  BY DEF ObsEvents

\* An event that held, and the path looked up for it, still do when its
\* process goes on.
LEMMA EventGoesOn ==
    ASSUME NEW e \in ObsEvents, task \in [ObsPids -> Processes], task' \in [ObsPids -> Processes],
           EventHolds(e), Follows(task[e.pid], task'[e.pid])
    PROVE  EventHolds(e)' /\ (task'[e.pid].gen = e.gen => task[e.pid].gen = e.gen)
<1>1. PICK r \in Processes : r = task[e.pid] BY EventFields
<1>2. PICK s \in Processes : s = task'[e.pid] BY EventFields
<1>3. r.gen \in Nat /\ s.gen \in Nat /\ e.gen \in Nat BY ProcessFields, EventFields
<1>4. r.state # "none" /\ e.gen <= r.gen /\ (e.kind # "mmap" => e.ret = 0) /\ (e.ret # 0 => e.ret \in MapAddrs) BY <1>1, EventFields DEF EventHolds
<1>5. s.state # "none" /\ r.gen <= s.gen BY <1>1, <1>2, <1>4 DEF Follows
<1>6. e.gen <= s.gen /\ (e.gen = s.gen => e.gen = r.gen /\ s.gen = r.gen) BY <1>3, <1>4, <1>5
<1>7. ASSUME e.gen = s.gen
      PROVE  /\ s.state = "live" /\ (e.fd # 0 => s.file = e.file)
             /\ e.kind = "mmap" /\ e.ret # 0 => s.at[e.ret] = e.file
  <2>1. /\ r.state = "live" /\ (e.fd # 0 => r.file = e.file)
        /\ e.kind = "mmap" /\ e.ret # 0 => r.at[e.ret] = e.file
    BY <1>1, <1>6, <1>7 DEF EventHolds
  <2>2. /\ s.state = r.state /\ (r.file \in ObsFiles => s.file = r.file)
        /\ \A a \in MapAddrs : r.at[a] \in ObsFiles => s.at[a] = r.at[a]
    BY <1>1, <1>2, <1>4, <1>6, <1>7 DEF Follows
  <2>3. e.file \in ObsFiles BY EventFields
  <2> QED BY <1>4, <2>1, <2>2, <2>3
<1>8. EventHolds(e)' BY <1>2, <1>4, <1>5, <1>6, <1>7 DEF EventHolds
<1> QED BY <1>1, <1>2, <1>6, <1>8

\* A process goes on: what was polled, looked up and recorded still holds.
LEMMA ProcessesGoOn ==
    ASSUME RecordsAreOwn, task' \in [ObsPids -> Processes],
           \A p \in ObsPids : Follows(task[p], task'[p]),
           perf' \in Seq(ObsEvents), (\A i \in 1..Len(perf) : EventHolds(perf[i]))',
           UNCHANGED <<ophase, trace, live_pids, fd_cache, maps_cache, records>>
    PROVE  RecordsAreOwn'
<1>1. /\ task \in [ObsPids -> Processes] /\ trace \in Seq(ObsEvents) /\ \A i \in 1..Len(trace) : trace[i] \in ObsEvents
      /\ \A i \in 1..Len(trace) : EventHolds(trace[i])
  BY ElementOfSeq DEF RecordsAreOwn, ObsTypeOK, EventsHold
<1>2. ASSUME NEW i \in 1..Len(trace) PROVE EventHolds(trace[i])' /\ PathHolds(trace[i])' /\ MapsHold(trace[i])'
  <2>1. PICK e \in ObsEvents : e = trace[i] BY <1>1
  <2>2. trace'[i] = e BY <2>1
  <2>3. EventHolds(e) /\ PathHolds(e) /\ MapsHold(e) BY <1>1, <2>1 DEF RecordsAreOwn, LookupsHold
  <2>4. Follows(task[e.pid], task'[e.pid]) BY EventFields
  <2>5. EventHolds(e)' /\ (task'[e.pid].gen = e.gen => task[e.pid].gen = e.gen) BY <1>1, <2>3, <2>4, EventGoesOn
  <2>6. PathHolds(e)' BY <2>3, <2>5 DEF PathHolds
  <2>7. MapsHold(e)' BY <2>3 DEF MapsHold
  <2> QED BY <2>2, <2>5, <2>6, <2>7
<1>3. ObsTypeOK' BY DEF RecordsAreOwn, ObsTypeOK
<1>4. EventsHold' BY <1>2 DEF EventsHold
<1>5. LookupsHold' BY <1>2 DEF RecordsAreOwn, LookupsHold, Pending, analysis_pids, active_pids
<1>6. (\A i \in 1..Len(records) : RecordIsOwn(records[i]))' BY DEF RecordsAreOwn, RecordIsOwn
<1> QED BY <1>3, <1>4, <1>5, <1>6 DEF RecordsAreOwn

\* A process goes on and at most adds an event that holds.
LEMMA CallGoesOn ==
    ASSUME RecordsAreOwn, task' \in [ObsPids -> Processes],
           \A p \in ObsPids : Follows(task[p], task'[p]),
           NEW e, perf' = perf \/ (e \in ObsEvents /\ EventHolds(e)' /\ perf' = Append(perf, e)),
           UNCHANGED <<ophase, trace, live_pids, fd_cache, maps_cache, records>>
    PROVE  RecordsAreOwn'
<1>1. /\ task \in [ObsPids -> Processes] /\ perf \in Seq(ObsEvents) /\ \A i \in 1..Len(perf) : perf[i] \in ObsEvents
      /\ \A i \in 1..Len(perf) : EventHolds(perf[i])
  BY ElementOfSeq DEF RecordsAreOwn, ObsTypeOK, EventsHold
<1>2. ASSUME NEW i \in 1..Len(perf), NEW d \in ObsEvents, d = perf[i] PROVE EventHolds(d)'
  <2>1. EventHolds(d) BY <1>1, <1>2
  <2>2. Follows(task[d.pid], task'[d.pid]) BY EventFields
  <2> QED BY <1>1, <2>1, <2>2, EventGoesOn
<1>3. perf' \in Seq(ObsEvents) /\ (\A i \in 1..Len(perf) : EventHolds(perf[i]))'
  <2>1. CASE perf' = perf
    <3>1. ASSUME NEW i \in 1..Len(perf) PROVE EventHolds(perf[i])'
      <4>1. PICK d \in ObsEvents : d = perf[i] BY <1>1
      <4>2. EventHolds(d)' BY <1>2, <4>1
      <4> QED BY <2>1, <4>1, <4>2
    <3> QED BY <1>1, <2>1, <3>1
  <2>2. CASE e \in ObsEvents /\ EventHolds(e)' /\ perf' = Append(perf, e)
    <3>1. /\ perf' \in Seq(ObsEvents) /\ Len(perf') = Len(perf) + 1 /\ perf'[Len(perf) + 1] = e
          /\ \A i \in 1..Len(perf) : perf'[i] = perf[i]
      BY <1>1, <2>2, AppendProperties
    <3>2. ASSUME NEW i \in 1..Len(perf') PROVE EventHolds(perf[i])'
      <4>1. Len(perf) \in Nat BY <1>1, LenProperties
      <4>2. i \in 1..Len(perf) \/ i = Len(perf) + 1 BY <3>1, <4>1
      <4>3. CASE i \in 1..Len(perf)
        <5>1. PICK d \in ObsEvents : d = perf[i] BY <1>1, <4>3
        <5>2. EventHolds(d)' BY <1>2, <4>3, <5>1
        <5>3. perf'[i] = d BY <3>1, <4>3, <5>1
        <5> QED BY <5>2, <5>3
      <4>4. CASE i = Len(perf) + 1
        <5>1. perf'[i] = e BY <3>1, <4>4
        <5> QED BY <2>2, <5>1
      <4> QED BY <4>2, <4>3, <4>4
    <3> QED BY <3>1, <3>2
  <2> QED BY <2>1, <2>2
<1> QED BY <1>3, ProcessesGoOn

\* One process changes.
LEMMA OneFollows ==
    ASSUME task \in [ObsPids -> Processes], NEW p \in ObsPids, NEW s \in Processes, Follows(task[p], s),
           task' = [task EXCEPT ![p] = s]
    PROVE  /\ task' \in [ObsPids -> Processes] /\ task'[p] = s
           /\ \A q \in ObsPids : Follows(task[q], task'[q])
<1>1. \A q \in ObsPids : Follows(task[q], task[q]) BY CallFollows
<1>2. task' \in [ObsPids -> Processes] /\ task'[p] = s /\ \A q \in ObsPids : q # p => task'[q] = task[q] OBVIOUS
<1> QED BY <1>1, <1>2

\* The calls that tell nobody.
LEMMA SilentCalls ==
    ASSUME RecordsAreOwn, NEW p \in ObsPids,
           \/ ObsExit(p) \/ ObsExec(p) \/ ObsClose(p) \/ ObsClone(p) \/ ObsThreadExit(p)
           \/ (\E c \in ObsPids, t \in ObsTids : ObsFork(p, t, c)) \/ (\E a \in MapAddrs : ObsMunmap(p, a))
    PROVE  RecordsAreOwn'
<1>1. task \in [ObsPids -> Processes] /\ task[p] \in Processes BY DEF RecordsAreOwn, ObsTypeOK
<1>2. UNCHANGED <<perf, ophase, trace, live_pids, fd_cache, maps_cache, records>>
  BY DEF ObsExit, ObsExec, ObsClose, ObsClone, ObsThreadExit, ObsFork, ForkProbe, ObsMunmap, ProcStep, bufferVars, analysisVars
<1>3. task' \in [ObsPids -> Processes] /\ \A q \in ObsPids : Follows(task[q], task'[q])
  <2>1. CASE ObsExit(p)
    <3>1. \A q \in ObsPids : task'[q] \in {Exited(task[q]), Adopted(task[q], 0), task[q]} /\ task[q] \in Processes
      BY <1>1, <2>1 DEF ObsExit
    <3>2. \A q \in ObsPids : task'[q] \in Processes /\ Follows(task[q], task'[q]) BY <3>1, CallFollows
    <3>3. \E f : task' = [q \in ObsPids |-> f[q]]
      <4> DEFINE f == [q \in ObsPids |-> IF q = p THEN Exited(task[q]) ELSE IF Owner(task[q].parent) = p THEN Adopted(task[q], 0) ELSE task[q]]
      <4>1. task' = f BY <2>1 DEF ObsExit
      <4> QED BY <4>1
    <3> QED BY <3>2, <3>3
  <2>2. CASE ObsExec(p)
    <3>1. task' = [task EXCEPT ![p] = Renamed(task[p])] BY <2>2 DEF ObsExec
    <3>2. Renamed(task[p]) \in Processes /\ Follows(task[p], Renamed(task[p])) BY <1>1, CallFollows
    <3> QED BY <1>1, <3>1, <3>2, OneFollows
  <2>3. CASE ObsClose(p)
    <3>1. task' = [task EXCEPT ![p] = Closed(task[p])] BY <2>3 DEF ObsClose
    <3>2. Closed(task[p]) \in Processes /\ Follows(task[p], Closed(task[p])) BY <1>1, CallFollows
    <3> QED BY <1>1, <3>1, <3>2, OneFollows
  <2>4. ASSUME NEW c \in ObsPids, NEW t \in ObsTids, ObsFork(p, t, c)
        PROVE  task' \in [ObsPids -> Processes] /\ \A q \in ObsPids : Follows(task[q], task'[q])
    <3>1. task' = [task EXCEPT ![c] = ForkedFrom(task[p], t)] /\ task[c].state = "none" BY <2>4 DEF ObsFork
    <3>2. ForkedFrom(task[p], t) \in Processes BY <1>1, ForkTyped
    <3>3. Follows(task[c], ForkedFrom(task[p], t)) BY <3>1 DEF Follows
    <3> QED BY <1>1, <3>1, <3>2, <3>3, OneFollows
  <2>5. ASSUME NEW a \in MapAddrs, ObsMunmap(p, a) PROVE task' \in [ObsPids -> Processes] /\ \A q \in ObsPids : Follows(task[q], task'[q])
    <3>1. task' = [task EXCEPT ![p] = Unmapped(task[p], a)] BY <2>5 DEF ObsMunmap
    <3>2. Unmapped(task[p], a) \in Processes /\ Follows(task[p], Unmapped(task[p], a)) BY <1>1, MapFollows
    <3> QED BY <1>1, <3>1, <3>2, OneFollows
  <2>6. CASE ObsClone(p)
    <3>1. task' = [task EXCEPT ![p] = Threaded(task[p])] BY <2>6 DEF ObsClone
    <3>2. Threaded(task[p]) \in Processes /\ Follows(task[p], Threaded(task[p])) BY <1>1, CallFollows
    <3> QED BY <1>1, <3>1, <3>2, OneFollows
  <2>7. CASE ObsThreadExit(p)
    <3>1. \A q \in ObsPids : task'[q] \in {HelperGone(task[q]), Adopted(task[q], p), task[q]} /\ task[q] \in Processes
      BY <1>1, <2>7 DEF ObsThreadExit
    <3>2. \A q \in ObsPids : task'[q] \in Processes /\ Follows(task[q], task'[q]) BY <3>1, CallFollows, TidFacts
    <3>3. \E f : task' = [q \in ObsPids |-> f[q]]
      <4> DEFINE f == [q \in ObsPids |-> IF q = p THEN HelperGone(task[q]) ELSE IF task[q].parent = -p THEN Adopted(task[q], p) ELSE task[q]]
      <4>1. task' = f BY <2>7 DEF ObsThreadExit
      <4> QED BY <4>1
    <3> QED BY <3>2, <3>3
  <2> QED BY <2>1, <2>2, <2>3, <2>4, <2>5, <2>6, <2>7
<1> QED BY <1>2, <1>3, CallGoesOn

\* The calls whose probes submit an event: it holds after the call.
LEMMA TracedCalls ==
    ASSUME RecordsAreOwn, NEW p \in ObsPids,
           \/ \E f \in ObsFiles : ObsOpen(p, f)
           \/ \E kind \in {"rw", "fsync"} : ObsReadWrite(p, kind)
           \/ \E hint, a \in MapAddrs \cup {0} : ObsMmap(p, hint, a)
    PROVE  RecordsAreOwn'
<1>1. task \in [ObsPids -> Processes] /\ task[p] \in Processes BY DEF RecordsAreOwn, ObsTypeOK
<1>2. UNCHANGED <<ophase, trace, live_pids, fd_cache, maps_cache, records>> /\ task[p].state = "live"
  BY DEF ObsOpen, ObsReadWrite, ObsMmap, ProcStep, analysisVars, Live
<1>3. task[p].gen \in Nat /\ task[p].gen <= task[p].gen BY <1>1, ProcessFields
<1>4. ASSUME NEW f \in ObsFiles, ObsOpen(p, f) PROVE RecordsAreOwn'
  <2>1. PICK s \in {task[p], Opened(task[p], f)} : task' = [task EXCEPT ![p] = s] BY <1>1, <1>4 DEF ObsOpen
  <2>2. PICK e : e = Event("openat", p, 0, f, 0, 0) OBVIOUS
  <2>3. /\ s \in Processes /\ Follows(task[p], s) /\ s.state = "live" /\ s.gen = task[p].gen
    <3>1. task[p].file = NoFile BY <1>4 DEF ObsOpen
    <3>2. CASE s = task[p] BY <1>1, <1>2, <3>2, CallFollows
    <3>3. CASE s = Opened(task[p], f) BY <1>1, <1>2, <3>1, <3>3, OpenFollows
    <3> QED BY <2>1, <3>2, <3>3
  <2>5. /\ task' \in [ObsPids -> Processes] /\ task'[p] = s /\ \A q \in ObsPids : Follows(task[q], task'[q])
    BY <1>1, <2>1, <2>3, OneFollows
  <2>6. e \in ObsEvents /\ e.pid = p /\ e.fd = 0 /\ e.ret = 0 /\ e.gen = task[p].gen /\ e.kind = "openat"
    BY <1>3, <2>2 DEF Event, ObsEvents
  <2>7. EventHolds(e)' BY <1>3, <2>3, <2>5, <2>6 DEF EventHolds
  <2>8. perf' = perf \/ perf' = Append(perf, e) BY <1>4, <2>2 DEF ObsOpen, Submit
  <2> QED BY <1>2, <2>5, <2>6, <2>7, <2>8, CallGoesOn
<1>5. ASSUME NEW kind \in {"rw", "fsync"}, ObsReadWrite(p, kind) PROVE RecordsAreOwn'
  <2>1. PICK fd \in {0, 3} : fd = IF kind = "fsync" THEN 0 ELSE 3 OBVIOUS
  <2>2. PICK e : e = Event(kind, p, fd, task[p].file, 0, 0) OBVIOUS
  <2>3. task' = task /\ task[p].file # NoFile BY <1>5 DEF ObsReadWrite
  <2>4. task[p].file \in ObsFiles BY <1>1, <2>3, ProcessFields DEF Files
  <2>5. task' \in [ObsPids -> Processes] /\ \A q \in ObsPids : Follows(task[q], task'[q])
    BY <1>1, <2>3, CallFollows
  <2>6. e \in ObsEvents /\ e.pid = p /\ e.file = task[p].file /\ e.gen = task[p].gen /\ e.kind # "mmap" /\ e.ret = 0
    BY <1>3, <2>2, <2>4 DEF Event, ObsEvents
  <2>7. EventHolds(e)' BY <1>2, <1>3, <2>3, <2>6 DEF EventHolds
  <2>8. perf' = perf \/ perf' = Append(perf, e) BY <1>5, <2>1, <2>2 DEF ObsReadWrite, Submit
  <2> QED BY <1>2, <2>5, <2>6, <2>7, <2>8, CallGoesOn
<1>6. ASSUME NEW hint \in MapAddrs \cup {0}, NEW a \in MapAddrs \cup {0}, ObsMmap(p, hint, a) PROVE RecordsAreOwn'
  <2>2. PICK e : e = Event("mmap", p, 3, task[p].file, hint, a) OBVIOUS
  <2>3. task[p].file # NoFile BY <1>6 DEF ObsMmap
  <2>5. task[p].file \in ObsFiles BY <1>1, <2>3, ProcessFields DEF Files
  <2>7. /\ e \in ObsEvents /\ e.pid = p /\ e.file = task[p].file /\ e.gen = task[p].gen /\ e.ret = a /\ e.kind = "mmap"
    BY <1>3, <2>2, <2>5 DEF Event, ObsEvents
  <2>9. perf' = perf \/ perf' = Append(perf, e) BY <1>6, <2>2 DEF ObsMmap, Submit
  <2>10. CASE a = 0
    <3>1. task' = task BY <1>6, <2>10 DEF ObsMmap
    <3>2. task' \in [ObsPids -> Processes] /\ \A q \in ObsPids : Follows(task[q], task'[q]) BY <1>1, <3>1, CallFollows
    <3>3. EventHolds(e)' BY <1>2, <1>3, <2>7, <2>10, <3>1 DEF EventHolds
    <3> QED BY <1>2, <2>7, <2>9, <3>2, <3>3, CallGoesOn
  <2>11. CASE a # 0
    <3>0. a \in MapAddrs BY <2>11
    <3>1. PICK s : s = Mapped(task[p], a) OBVIOUS
    <3>2. task[p].at[a] = NoFile /\ task' = [task EXCEPT ![p] = s] BY <1>6, <2>11, <3>1 DEF ObsMmap
    <3>3. /\ s \in Processes /\ Follows(task[p], s) /\ s.state = "live" /\ s.gen = task[p].gen
          /\ s.file = task[p].file /\ s.at[a] = task[p].file
      BY <1>1, <1>2, <3>0, <3>1, <3>2, MapFollows
    <3>4. /\ task' \in [ObsPids -> Processes] /\ task'[p] = s /\ \A q \in ObsPids : Follows(task[q], task'[q])
      BY <1>1, <3>2, <3>3, OneFollows
    <3>5. EventHolds(e)' BY <1>3, <2>7, <3>3, <3>4 DEF EventHolds
    <3> QED BY <1>2, <2>7, <2>9, <3>4, <3>5, CallGoesOn
  <2> QED BY <2>10, <2>11
<1> QED BY <1>4, <1>5, <1>6

\* Seeding the table changes nothing an event or a record speaks of.
LEMMA SeedingKeeps ==
    ASSUME RecordsAreOwn,
           \/ _discover_pids_by_comm \/ Attach \/ _seed_tracked_pids \/ _discover_existing_children
           \/ (\E c \in ObsPids : SeedChild(c)) \/ OpenBuffers
           \/ UNCHANGED obsVars
    PROVE  RecordsAreOwn'
<1>1. UNCHANGED <<task, perf, trace, live_pids, fd_cache, maps_cache, records>>
  BY DEF _discover_pids_by_comm, Attach, _seed_tracked_pids, _discover_existing_children, SeedChild, OpenBuffers,
         ObsStep, procVars, bufferVars, analysisVars, obsVars
<1>2. \/ ophase' = ophase
      \/ ophase \in {"construct", "attached", "scan", "seed"} /\ ophase' \in {"attached", "scan", "seed", "poll"}
  BY DEF _discover_pids_by_comm, Attach, _seed_tracked_pids, _discover_existing_children, SeedChild, OpenBuffers,
         ObsStep, obsVars
<1>3. ObsTypeOK' /\ EventsHold' /\ (\A i \in 1..Len(records) : RecordIsOwn(records[i]))'
  BY <1>1 DEF RecordsAreOwn, ObsTypeOK, EventsHold, EventHolds, RecordIsOwn
<1>4. (\A i \in 1..Len(trace) : PathHolds(trace[i]) /\ MapsHold(trace[i]))'
  BY <1>1 DEF RecordsAreOwn, LookupsHold, PathHolds, MapsHold
<1>5. LookupsHold' BY <1>1, <1>2, <1>4 DEF RecordsAreOwn, LookupsHold, Pending, analysis_pids, active_pids
<1> QED BY <1>3, <1>5 DEF RecordsAreOwn

\* poll_ebpf: the events polled hold as they did in the buffers.
LEMMA PollKeeps ==
    ASSUME RecordsAreOwn, poll_ebpf
    PROVE  RecordsAreOwn'
<1>1. /\ UNCHANGED <<task, ophase, live_pids, fd_cache, maps_cache, records>> /\ ophase = "poll"
      /\ trace' = trace \o perf /\ perf' = <<>>
  BY DEF poll_ebpf, ObsStep, procVars, analysisVars
<1>2. /\ trace \in Seq(ObsEvents) /\ perf \in Seq(ObsEvents) /\ Len(trace) \in Nat /\ Len(perf) \in Nat
      /\ fd_cache = <<>> /\ maps_cache = <<>>
  BY <1>1, LenProperties DEF RecordsAreOwn, ObsTypeOK, LookupsHold, Empty
<1>3. /\ trace' \in Seq(ObsEvents) /\ Len(trace') = Len(trace) + Len(perf)
      /\ \A i \in 1..Len(trace) + Len(perf) : trace'[i] = IF i <= Len(trace) THEN trace[i] ELSE perf[i - Len(trace)]
  BY <1>1, <1>2, ConcatProperties
<1>4. ASSUME NEW i \in 1..Len(trace') PROVE EventHolds(trace[i])' /\ PathHolds(trace[i])' /\ MapsHold(trace[i])'
  <2>1. PICK e : e = trace'[i] OBVIOUS
  <2>2. EventHolds(e)
    <3>1. CASE i <= Len(trace)
      <4>1. i \in 1..Len(trace) /\ e = trace[i] BY <1>2, <1>3, <2>1, <3>1
      <4> QED BY <4>1 DEF RecordsAreOwn, EventsHold
    <3>2. CASE ~(i <= Len(trace))
      <4>1. i - Len(trace) \in 1..Len(perf) /\ e = perf[i - Len(trace)] BY <1>2, <1>3, <2>1, <3>2
      <4> QED BY <4>1 DEF RecordsAreOwn, EventsHold
    <3> QED BY <3>1, <3>2
  <2>3. EventHolds(e)' BY <1>1, <2>2 DEF EventHolds
  <2>4. DOMAIN fd_cache' = {} /\ DOMAIN maps_cache' = {} BY <1>1, <1>2
  <2> QED BY <2>1, <2>3, <2>4 DEF PathHolds, MapsHold
<1>5. ObsTypeOK' BY <1>1, <1>3, EmptySeq DEF RecordsAreOwn, ObsTypeOK
<1>6. EventsHold'
  <2>1. Len(perf') = 0 BY <1>1
  <2> QED BY <1>4, <2>1 DEF EventsHold
<1>7. LookupsHold' BY <1>1, <1>2, <1>4 DEF RecordsAreOwn, LookupsHold, Empty
<1>8. (\A i \in 1..Len(records) : RecordIsOwn(records[i]))' BY <1>1 DEF RecordsAreOwn, RecordIsOwn
<1> QED BY <1>5, <1>6, <1>7, <1>8 DEF RecordsAreOwn

\* The end of tracing, and the processes that are still alive.
LEMMA StopKeeps ==
    ASSUME RecordsAreOwn, stop_ebpf \/ FilterStale
    PROVE  RecordsAreOwn'
<1>1. /\ UNCHANGED <<task, trace, fd_cache, maps_cache, records>> /\ perf' \in {perf, <<>>} /\ ophase \in {"poll", "live"}
      /\ ophase' \in {"done", "live", "fds"} /\ (live_pids' = live_pids \/ live_pids' \subseteq ObsTids)
  BY DEF stop_ebpf, FilterStale, ObsStep, procVars, analysisVars, bufferVars
<1>2. records = <<>> /\ fd_cache = Empty /\ maps_cache = Empty BY <1>1 DEF RecordsAreOwn, LookupsHold
<1>3. ObsTypeOK' BY <1>1, EmptySeq DEF RecordsAreOwn, ObsTypeOK
<1>4. (\A i \in 1..Len(trace) : EventHolds(trace[i]) /\ PathHolds(trace[i]) /\ MapsHold(trace[i]))'
  BY <1>1 DEF RecordsAreOwn, EventsHold, LookupsHold, EventHolds, PathHolds, MapsHold
<1>5. (\A i \in 1..Len(perf) : EventHolds(perf[i]))'
  <2>1. CASE perf' = perf BY <1>1, <2>1 DEF RecordsAreOwn, EventsHold, EventHolds
  <2>2. CASE perf' = <<>>
    <3>1. Len(perf') = 0 BY <2>2
    <3> QED BY <3>1
  <2> QED BY <1>1, <2>1, <2>2
<1>6. LookupsHold' BY <1>1, <1>2, <1>4 DEF LookupsHold
<1>7. (\A i \in 1..Len(records) : RecordIsOwn(records[i]))'
  <2>1. Len(records') = 0 BY <1>1, <1>2
  <2> QED BY <2>1
<1> QED BY <1>3, <1>4, <1>5, <1>6, <1>7 DEF RecordsAreOwn, EventsHold

\* Step 2: the paths of the descriptors of one process.
LEMMA FdsKeep ==
    ASSUME RecordsAreOwn, ExtractFds
    PROVE  RecordsAreOwn'
<1>1. /\ UNCHANGED <<task, perf, trace, live_pids, maps_cache, records>> /\ ophase = "fds" /\ ophase' \in {"fds", "maps"}
  BY DEF ExtractFds, ObsStep, procVars, bufferVars
<1>2. records = <<>> /\ maps_cache = Empty BY <1>1 DEF RecordsAreOwn, LookupsHold
<1>3. ObsTypeOK' /\ EventsHold' BY <1>1 DEF RecordsAreOwn, ObsTypeOK, EventsHold, EventHolds
<1>4. (\A i \in 1..Len(trace) : MapsHold(trace[i]))'
  <2>1. DOMAIN maps_cache' = {} BY <1>1, <1>2 DEF Empty
  <2> QED BY <2>1 DEF MapsHold
<1>5. (\A i \in 1..Len(trace) : PathHolds(trace[i]))' /\ (ophase' = "maps" => Pending(fd_cache)' = {})
  <2>1. CASE Pending(fd_cache) = {}
    <3>1. fd_cache' = fd_cache BY <2>1 DEF ExtractFds
    <3>2. Pending(fd_cache)' = {} BY <1>1, <2>1, <3>1 DEF Pending, analysis_pids, active_pids
    <3> QED BY <1>1, <3>1, <3>2 DEF RecordsAreOwn, LookupsHold, PathHolds
  <2>2. CASE Pending(fd_cache) # {}
    <3>1. PICK p : fd_cache' = Extend(fd_cache, p, [fd \in {trace[i].fd : i \in {j \in 1..Len(trace) : trace[j].pid = p}} |-> get_fd_path(p, fd)])
      BY <2>2 DEF ExtractFds
    <3>2. ophase' = "fds" BY <1>1, <2>2 DEF ExtractFds
    <3> DEFINE fds == {trace[i].fd : i \in {j \in 1..Len(trace) : trace[j].pid = p}}
    <3>3. PICK paths : paths = [fd \in fds |-> get_fd_path(p, fd)] OBVIOUS
    <3>4. /\ DOMAIN fd_cache' = DOMAIN fd_cache \cup {p} /\ fd_cache'[p] = paths
          /\ \A z \in DOMAIN fd_cache : z # p => fd_cache'[z] = fd_cache[z]
      <4>1. fd_cache' = Extend(fd_cache, p, paths) BY <3>1, <3>3
      <4> QED BY <4>1 DEF Extend
    <3>5. ASSUME NEW i \in 1..Len(trace) PROVE PathHolds(trace[i])'
      <4>1. PICK e \in ObsEvents : e = trace[i] /\ e = trace'[i] BY <1>1, ElementOfSeq DEF RecordsAreOwn, ObsTypeOK
      <4>2. EventHolds(e) /\ PathHolds(e) BY <4>1 DEF RecordsAreOwn, EventsHold, LookupsHold
      <4>3. CASE e.pid # p
        <5>1. e.pid \in DOMAIN fd_cache' => e.pid \in DOMAIN fd_cache /\ fd_cache'[e.pid] = fd_cache[e.pid] BY <3>4, <4>3
        <5> QED BY <1>1, <4>1, <4>2, <5>1 DEF PathHolds
      <4>4. CASE e.pid = p
        <5>1. e.fd \in fds BY <4>1, <4>4
        <5>2. paths[e.fd] = get_fd_path(p, e.fd) /\ e.fd \in DOMAIN paths BY <3>3, <5>1
        <5>0. p \in ObsPids BY <4>4, EventFields
        <5>3. task[p] \in Processes /\ Owner(p) = p /\ (Alive(p) <=> Live(p)) BY <5>0, TidFacts DEF RecordsAreOwn, ObsTypeOK, Alive
        <5>4. task[p].file \in Files /\ e.file \in ObsFiles /\ NoFile \in Files BY <5>3, ProcessFields, EventFields DEF Files
        <5>5. get_fd_path(p, e.fd) \in Files \cup {Stdin} BY <5>3, <5>4 DEF get_fd_path
        <5>6. e.fd = 0 => get_fd_path(p, e.fd) \in {NoFile, Stdin} BY DEF get_fd_path
        <5>7. e.fd # 0 /\ e.gen = task[p].gen => get_fd_path(p, e.fd) = e.file
          BY <4>2, <4>4, <5>3 DEF get_fd_path, EventHolds, Live
        <5>8. fd_cache'[e.pid][e.fd] = get_fd_path(p, e.fd) /\ e.fd \in DOMAIN fd_cache'[e.pid] BY <3>4, <4>4, <5>2
        <5>9. task'[e.pid].gen = task[p].gen BY <1>1, <4>4
        <5> QED BY <4>1, <5>5, <5>6, <5>7, <5>8, <5>9 DEF PathHolds
      <4> QED BY <4>3, <4>4
    <3> QED BY <1>1, <3>2, <3>5
  <2> QED BY <2>1, <2>2
<1>6. LookupsHold' BY <1>1, <1>2, <1>4, <1>5 DEF LookupsHold
<1>7. (\A i \in 1..Len(records) : RecordIsOwn(records[i]))'
  <2>1. Len(records') = 0 BY <1>1, <1>2
  <2> QED BY <2>1
<1> QED BY <1>3, <1>6, <1>7 DEF RecordsAreOwn

\* Step 3: the mappings of one process.
LEMMA MapsKeep ==
    ASSUME RecordsAreOwn, parse_maps
    PROVE  RecordsAreOwn'
<1>1. /\ UNCHANGED <<task, ophase, perf, trace, live_pids, fd_cache, records>> /\ ophase = "maps"
  BY DEF parse_maps, ObsStep, procVars, bufferVars
<1>2. records = <<>> /\ Pending(fd_cache) = {} BY <1>1 DEF RecordsAreOwn, LookupsHold
<1>3. ObsTypeOK' /\ EventsHold' BY <1>1 DEF RecordsAreOwn, ObsTypeOK, EventsHold, EventHolds
<1>4. PICK p \in Pending(maps_cache) :
        maps_cache' = Extend(maps_cache, p, [at |-> IF Alive(p) THEN task[Owner(p)].at ELSE Unborn.at, gen |-> task[Owner(p)].gen])
  BY DEF parse_maps
<1>5. PICK m : m = [at |-> IF Alive(p) THEN task[Owner(p)].at ELSE Unborn.at, gen |-> task[Owner(p)].gen] OBVIOUS
<1>6. /\ DOMAIN maps_cache' = DOMAIN maps_cache \cup {p} /\ maps_cache'[p] = m
      /\ \A z \in DOMAIN maps_cache : z # p => maps_cache'[z] = maps_cache[z]
  <2>1. maps_cache' = Extend(maps_cache, p, m) BY <1>4, <1>5
  <2> QED BY <2>1 DEF Extend
<1>7. p \in DOMAIN fd_cache BY <1>2, <1>4 DEF Pending
<1>8. (\A i \in 1..Len(trace) : PathHolds(trace[i]))' BY <1>1 DEF RecordsAreOwn, LookupsHold, PathHolds
<1>9. (\A i \in 1..Len(trace) : MapsHold(trace[i]))'
  <2>1. ASSUME NEW i \in 1..Len(trace) PROVE MapsHold(trace[i])'
    <3>1. PICK e \in ObsEvents : e = trace[i] /\ e = trace'[i] BY <1>1, ElementOfSeq DEF RecordsAreOwn, ObsTypeOK
    <3>2. EventHolds(e) /\ PathHolds(e) /\ MapsHold(e) BY <3>1 DEF RecordsAreOwn, EventsHold, LookupsHold
    <3>3. CASE e.pid # p
      <4>1. e.pid \in DOMAIN maps_cache' => e.pid \in DOMAIN maps_cache /\ maps_cache'[e.pid] = maps_cache[e.pid] BY <1>6, <3>3
      <4> QED BY <1>1, <3>1, <3>2, <4>1 DEF MapsHold
    <3>4. CASE e.pid = p
      <4>0. p \in ObsPids BY <3>4, EventFields
      <4>1. task[p] \in Processes /\ Owner(p) = p /\ (Alive(p) <=> Live(p)) BY <4>0, TidFacts DEF RecordsAreOwn, ObsTypeOK, Alive
      <4>2. task[p].at \in [MapAddrs -> Files] BY <4>1, ProcessFields
      <4>3. Unborn.at \in [MapAddrs -> Files] BY DEF Unborn, Files
      <4>4. m.at \in [MapAddrs -> Files] /\ m.gen = task[p].gen BY <1>5, <4>1, <4>2, <4>3
      <4>5. e.gen = task[p].gen => /\ e.fd # 0 => fd_cache[p][e.fd] = e.file
                                   /\ e.kind = "mmap" /\ e.ret # 0 => m.at[e.ret] = e.file
        BY <1>5, <1>7, <3>2, <3>4, <4>1 DEF EventHolds, PathHolds, Live
      <4> QED BY <1>1, <1>6, <1>7, <3>1, <3>4, <4>4, <4>5 DEF MapsHold
    <3> QED BY <3>3, <3>4
  <2> QED BY <1>1, <2>1
<1>10. LookupsHold' BY <1>1, <1>2, <1>8, <1>9 DEF RecordsAreOwn, LookupsHold, Pending, analysis_pids, active_pids
<1>11. (\A i \in 1..Len(records) : RecordIsOwn(records[i]))'
  <2>1. Len(records') = 0 BY <1>1, <1>2
  <2> QED BY <2>1
<1> QED BY <1>3, <1>10, <1>11 DEF RecordsAreOwn

\* The mapping an event is given is one of the process's: that of the address
\* an mmap returned if there is one, else that of its hint, of the path looked
\* up or of the name opened.
LEMMA CrossReferenced ==
    ASSUME NEW e \in ObsEvents, NEW path, NEW at \in [MapAddrs -> Files], NEW m, m = cross_reference(e, path, at)
    PROVE  /\ m \in MapAddrs \cup {0}
           /\ m # 0 =>
                /\ at[m] # NoFile
                /\ \/ e.kind = "mmap" /\ m = e.ret
                   \/ e.kind = "mmap" /\ m = e.hint
                   \/ at[m] = path \/ <<path, at[m]>> \in SameBase
                   \/ e.kind = "openat" /\ <<e.file, at[m]>> \in NamedIn
           /\ e.kind = "mmap" /\ e.ret # 0 /\ at[e.ret] # NoFile => m = e.ret
<1> DEFINE First(S) == CHOOSE a \in S : \A b \in S : a <= b
<1> DEFINE At(x) == {a \in MapAddrs : e.kind = "mmap" /\ a = x /\ at[a] # NoFile}
<1> DEFINE OfPath == OfFile(path, at)
<1> DEFINE Named == {a \in MapAddrs : e.kind = "openat" /\ <<e.file, at[a]>> \in NamedIn}
<1>1. m = CASE At(e.ret) # {} -> e.ret
            [] At(e.ret) = {} /\ At(e.hint) # {} -> e.hint
            [] At(e.ret) = {} /\ At(e.hint) = {} /\ OfPath # {} -> First(OfPath)
            [] At(e.ret) = {} /\ At(e.hint) = {} /\ OfPath = {} /\ Named # {} -> First(Named)
            [] OTHER -> 0
  BY DEF cross_reference
<1>2. ASSUME NEW S \in SUBSET MapAddrs, S # {} PROVE First(S) \in S
  <2>1. \E a \in S : \A b \in S : a <= b BY <1>2, LeastNat, ObsAssumption
  <2> QED BY <2>1
<1>3. OfPath \in SUBSET MapAddrs /\ Named \in SUBSET MapAddrs BY DEF OfFile
<1>4. \A x : \A a \in At(x) : a = x /\ a \in MapAddrs /\ at[a] # NoFile /\ e.kind = "mmap" OBVIOUS
<1>5. \A a \in OfPath : a \in MapAddrs /\ at[a] # NoFile /\ (at[a] = path \/ <<path, at[a]>> \in SameBase) BY DEF OfFile
<1>6. \A a \in Named : a \in MapAddrs /\ e.kind = "openat" /\ <<e.file, at[a]>> \in NamedIn /\ at[a] # NoFile
  BY ObsAssumption
<1>7. e.kind = "mmap" /\ e.ret # 0 /\ at[e.ret] # NoFile => e.ret \in At(e.ret) BY EventFields
<1>11. At(0) = {} BY ObsAssumption
<1> HIDE DEF OfPath, First, At, Named
<1>8. CASE At(e.ret) # {}
  <2>1. m = e.ret BY <1>1, <1>8
  <2> QED BY <1>4, <1>8, <2>1
<1>9. CASE At(e.ret) = {} /\ At(e.hint) # {}
  <2>1. m = e.hint BY <1>1, <1>9
  <2> QED BY <1>4, <1>7, <1>9, <2>1
<1>10. CASE At(e.ret) = {} /\ At(e.hint) = {} /\ OfPath # {}
  <2>1. m = First(OfPath) BY <1>1, <1>10
  <2>2. m \in OfPath BY <1>2, <1>3, <1>10, <2>1
  <2> QED BY <1>5, <1>7, <1>10, <2>2
<1>12. CASE At(e.ret) = {} /\ At(e.hint) = {} /\ OfPath = {} /\ Named # {}
  <2>1. m = First(Named) BY <1>1, <1>12
  <2>2. m \in Named BY <1>2, <1>3, <1>12, <2>1
  <2> QED BY <1>6, <1>7, <1>12, <2>2
<1>13. CASE At(e.ret) = {} /\ At(e.hint) = {} /\ OfPath = {} /\ Named = {}
  <2>1. m = 0 BY <1>1, <1>13
  <2> QED BY <1>7, <1>13, <2>1
<1> QED BY <1>8, <1>9, <1>10, <1>12, <1>13

\* A record as built is its event's own.
LEMMA RecordBuilt ==
    ASSUME RecordsAreOwn, ophase = "maps", NEW i \in 1..Len(trace), NEW r, r = ObsRecord(trace[i])
    PROVE  r \in ObsRecords /\ RecordIsOwn(r)
<1>1. PICK e \in ObsEvents : e = trace[i] BY ElementOfSeq DEF RecordsAreOwn, ObsTypeOK
<1>2. EventHolds(e) /\ PathHolds(e) /\ MapsHold(e) BY <1>1 DEF RecordsAreOwn, EventsHold, LookupsHold
<1>3. PICK p \in ObsPids : p = e.pid BY EventFields
<1>4. PICK path : path = fd_info(p, e.fd) OBVIOUS
<1>5. PICK at : at = MapsAt(p) OBVIOUS
<1>6. PICK m : m = cross_reference(e, path, at) OBVIOUS
<1>7. r = [event |-> e, path |-> path, mapping |-> m, pages |-> {}] BY <1>1, <1>3, <1>4, <1>5, <1>6 DEF ObsRecord
<1>8. at \in [MapAddrs -> Files] /\ (p \notin DOMAIN maps_cache => \A a \in MapAddrs : at[a] = NoFile)
  <2>1. CASE p \in DOMAIN maps_cache BY <1>2, <1>3, <1>5, <2>1 DEF MapsAt, MapsHold
  <2>2. CASE p \notin DOMAIN maps_cache
    <3>1. at = [a \in MapAddrs |-> NoFile] BY <1>5, <2>2 DEF MapsAt, Unborn
    <3> QED BY <3>1, <2>2 DEF Files
  <2> QED BY <2>1, <2>2
<1>9. p \in DOMAIN maps_cache => at = maps_cache[p].at /\ p \in DOMAIN fd_cache
  BY <1>2, <1>3, <1>5 DEF MapsAt, MapsHold
<1>10. /\ p \in DOMAIN fd_cache => path = fd_cache[p][e.fd]
       /\ path \in Files \cup {Stdin}
       /\ e.fd = 0 => path \in {NoFile, Stdin}
  <2>1. CASE p \in DOMAIN fd_cache BY <1>2, <1>3, <1>4, <2>1 DEF PathHolds, fd_info
  <2>2. CASE p \notin DOMAIN fd_cache BY <1>4, <2>2 DEF fd_info, Files
  <2> QED BY <2>1, <2>2
<1>11. /\ m \in MapAddrs \cup {0}
       /\ m # 0 =>
            /\ at[m] # NoFile
            /\ \/ e.kind = "mmap" /\ m = e.ret
               \/ e.kind = "mmap" /\ m = e.hint
               \/ at[m] = path \/ <<path, at[m]>> \in SameBase
               \/ e.kind = "openat" /\ <<e.file, at[m]>> \in NamedIn
       /\ e.kind = "mmap" /\ e.ret # 0 /\ at[e.ret] # NoFile => m = e.ret
  BY <1>6, <1>8, CrossReferenced
<1>12. r \in ObsRecords BY <1>7, <1>10, <1>11 DEF ObsRecords
<1>13. e.fd # 0 /\ p \in DOMAIN maps_cache /\ maps_cache[p].gen = e.gen => path = e.file
  BY <1>2, <1>3, <1>9, <1>10 DEF MapsHold
<1>17. e.file \in ObsFiles /\ e.file # NoFile BY EventFields, ObsAssumption
<1>18. p \in DOMAIN maps_cache /\ maps_cache[p].gen = e.gen /\ e.kind = "mmap" /\ e.ret # 0 => m = e.ret /\ at[m] = e.file
  BY <1>2, <1>3, <1>9, <1>11, <1>17 DEF MapsHold
<1>14. m # 0 => p \in DOMAIN maps_cache /\ (maps_cache[p].gen = e.gen => MayShow(e, m, maps_cache[p].at[m]))
  <2>1. SUFFICES ASSUME m # 0 PROVE p \in DOMAIN maps_cache /\ (maps_cache[p].gen = e.gen => MayShow(e, m, maps_cache[p].at[m]))
    OBVIOUS
  <2>2. p \in DOMAIN maps_cache BY <1>8, <1>11, <2>1
  <2>3. SUFFICES ASSUME maps_cache[p].gen = e.gen PROVE MayShow(e, m, at[m]) BY <1>9, <2>2
  <2>4. CASE e.kind = "mmap" /\ e.ret # 0 BY <1>18, <2>2, <2>3, <2>4 DEF MayShow
  <2>5. CASE ~(e.kind = "mmap" /\ e.ret # 0)
    <3>0. e.ret = 0 BY <1>2, <2>5 DEF EventHolds
    <3>1. CASE e.kind = "mmap" /\ m = e.ret BY <2>1, <3>0, <3>1
    <3>2. CASE e.kind = "mmap" /\ m = e.hint BY <3>0, <3>2 DEF MayShow
    <3>3. CASE at[m] = path \/ <<path, at[m]>> \in SameBase
      <4>1. path # NoFile BY <1>11, <2>1, <3>3, ObsAssumption
      <4>2. path = e.file \/ (e.fd = 0 /\ path = Stdin) BY <1>10, <1>13, <2>2, <2>3, <4>1
      <4> QED BY <3>0, <3>3, <4>2 DEF MayShow
    <3>4. CASE e.kind = "openat" /\ <<e.file, at[m]>> \in NamedIn BY <3>4 DEF MayShow
    <3> QED BY <1>11, <2>1, <3>1, <3>2, <3>3, <3>4
  <2> QED BY <2>4, <2>5
<1>15. p \in live_pids => p \in DOMAIN fd_cache
  <2>1. SUFFICES ASSUME p \in live_pids PROVE p \in DOMAIN fd_cache OBVIOUS
  <2>2. p \in active_pids BY <1>1, <1>3 DEF active_pids
  <2>3. p \in analysis_pids \cap live_pids BY <2>1, <2>2 DEF analysis_pids
  <2>4. Pending(fd_cache) = {} BY DEF RecordsAreOwn, LookupsHold
  <2> QED BY <2>3, <2>4 DEF Pending
<1>16. r.event = e /\ r.path = path /\ r.mapping = m /\ r.pages = {} BY <1>7
<1> QED BY <1>3, <1>12, <1>13, <1>14, <1>15, <1>16, <1>18 DEF RecordIsOwn

\* A sequence of as many records as another has elements.
LEMMA MappedSeq ==
    ASSUME NEW S, NEW s \in Seq(S), NEW T, NEW t \in [1..Len(s) -> T]
    PROVE  t \in Seq(T) /\ Len(t) = Len(s)
<1>1. Len(s) \in Nat BY LenProperties
<1>2. t \in Seq(T) BY <1>1, SeqDef
<1>3. DOMAIN t = 1..Len(s) OBVIOUS
<1> QED BY <1>1, <1>2, <1>3, LenProperties

\* Step 4: the records are built.
LEMMA BuildKeeps ==
    ASSUME RecordsAreOwn, BuildRecords
    PROVE  RecordsAreOwn'
<1>1. /\ UNCHANGED <<task, perf, trace, live_pids, fd_cache, maps_cache>> /\ ophase = "maps" /\ ophase' = "monitor"
      /\ records' = [i \in 1..Len(trace) |-> ObsRecord(trace[i])]
  BY DEF BuildRecords, ObsStep, procVars, bufferVars
<1>2. \A i \in 1..Len(trace) : ObsRecord(trace[i]) \in ObsRecords /\ RecordIsOwn(ObsRecord(trace[i])) BY <1>1, RecordBuilt
<1>3. records' \in Seq(ObsRecords) /\ Len(records') = Len(trace)
  <2>1. records' \in [1..Len(trace) -> ObsRecords] BY <1>1, <1>2
  <2>2. trace \in Seq(ObsEvents) BY DEF RecordsAreOwn, ObsTypeOK
  <2> QED BY <2>1, <2>2, MappedSeq
<1>4. (\A i \in 1..Len(records) : RecordIsOwn(records[i]))'
  <2>1. ASSUME NEW i \in 1..Len(records') PROVE RecordIsOwn(records[i])'
    <3>1. PICK r : r = ObsRecord(trace[i]) OBVIOUS
    <3>2. RecordIsOwn(r) /\ records'[i] = r BY <1>1, <1>2, <1>3, <3>1
    <3>3. RecordIsOwn(r)' BY <1>1, <3>2 DEF RecordIsOwn
    <3> QED BY <3>2, <3>3
  <2> QED BY <2>1
<1>5. ObsTypeOK' /\ EventsHold' BY <1>1, <1>3 DEF RecordsAreOwn, ObsTypeOK, EventsHold, EventHolds
<1>6. LookupsHold' BY <1>1 DEF RecordsAreOwn, LookupsHold, PathHolds, MapsHold
<1> QED BY <1>4, <1>5, <1>6 DEF RecordsAreOwn

\* Clearing the soft-dirty bits, and the end of the pipeline.
LEMMA ClearKeeps ==
    ASSUME RecordsAreOwn, ClearRefs \/ EndPipeline
    PROVE  RecordsAreOwn'
<1>1. task \in [ObsPids -> Processes] BY DEF RecordsAreOwn, ObsTypeOK
<1>2. CASE ClearRefs
  <2>1. UNCHANGED <<perf, ophase, trace, live_pids, fd_cache, maps_cache, records>> BY <1>2 DEF ClearRefs, bufferVars
  <2>2. PICK p : p = Owner(Head(monitor.left)[1]) OBVIOUS
  <2>3. task' = task \/ task' = [task EXCEPT ![p] = Cleared(@)] BY <1>2, <2>2 DEF ClearRefs
  <2>4. task' \in [ObsPids -> Processes] /\ \A q \in ObsPids : Follows(task[q], task'[q])
    <3>1. \A q \in ObsPids : task[q] \in Processes /\ Follows(task[q], task[q]) BY <1>1, CallFollows
    <3>2. CASE task' = task BY <1>1, <3>1, <3>2
    <3>3. CASE p \in ObsPids /\ task' = [task EXCEPT ![p] = Cleared(@)]
      <4>1. task' = [task EXCEPT ![p] = Cleared(task[p])] BY <3>3
      <4>2. Cleared(task[p]) \in Processes /\ Follows(task[p], Cleared(task[p])) BY <3>1, <3>3, CallFollows
      <4> QED BY <1>1, <3>3, <4>1, <4>2, OneFollows
    <3>4. CASE p \notin ObsPids /\ task' = [task EXCEPT ![p] = Cleared(@)]
      <4>1. task' = task BY <1>1, <3>4
      <4> QED BY <1>1, <3>1, <4>1
    <3> QED BY <2>3, <3>2, <3>3, <3>4
  <2> QED BY <2>1, <2>4, CallGoesOn
<1>3. CASE EndPipeline
  <2>1. /\ UNCHANGED <<task, perf, trace, live_pids, fd_cache, maps_cache, records>> /\ ophase' = "done"
    BY <1>3 DEF EndPipeline, ObsStep, procVars, bufferVars, analysisVars
  <2>2. ObsTypeOK' /\ EventsHold' /\ (\A i \in 1..Len(records) : RecordIsOwn(records[i]))'
    BY <2>1 DEF RecordsAreOwn, ObsTypeOK, EventsHold, EventHolds, RecordIsOwn
  <2>3. LookupsHold' BY <2>1 DEF RecordsAreOwn, LookupsHold, PathHolds, MapsHold
  <2> QED BY <2>2, <2>3 DEF RecordsAreOwn
<1> QED BY <1>2, <1>3

\* The pages seen go to the records of the process and the region they are of.
LEMMA ScanKeeps ==
    ASSUME RecordsAreOwn, ScanPages
    PROVE  RecordsAreOwn'
<1>1. /\ UNCHANGED <<task, perf, trace, live_pids, fd_cache, maps_cache, ophase>> /\ ophase = "monitor"
  BY DEF ScanPages, ObsStep, procVars, bufferVars
<1>2. PICK p : p = Head(monitor.left)[1] OBVIOUS
<1>3. PICK a : a = Head(monitor.left)[2] OBVIOUS
<1>4. PICK seen : records' = [i \in 1..Len(records) |->
                    IF seen /\ records[i].event.pid = p /\ records[i].mapping = a
                    THEN [records[i] EXCEPT !.pages = @ \cup {<<p, a>>}] ELSE records[i]]
  BY <1>2, <1>3 DEF ScanPages
<1>5. records \in Seq(ObsRecords) /\ \A i \in 1..Len(records) : records[i] \in ObsRecords /\ RecordIsOwn(records[i])
  BY ElementOfSeq DEF RecordsAreOwn, ObsTypeOK
<1>6. ASSUME NEW i \in 1..Len(records), NEW r \in ObsRecords, r = records[i]
      PROVE  records'[i] \in ObsRecords /\ RecordIsOwn(records'[i])
  <2>1. RecordIsOwn(r) BY <1>5, <1>6
  <2>2. CASE records'[i] = r BY <1>6, <2>1, <2>2
  <2>3. CASE records'[i] = [r EXCEPT !.pages = @ \cup {<<p, a>>}] /\ r.event.pid = p /\ r.mapping = a
    <3>1. PICK ps : ps = r.pages \cup {<<p, a>>} OBVIOUS
    <3>2. records'[i] = [event |-> r.event, path |-> r.path, mapping |-> r.mapping, pages |-> ps] BY <2>3, <3>1 DEF ObsRecords
    <3>3. p \in ObsPids /\ a \in MapAddrs \cup {0} BY <2>3 DEF ObsRecords, ObsEvents
    <3>4. ps \in SUBSET (ObsPids \X (MapAddrs \cup {0})) BY <3>1, <3>3 DEF ObsRecords
    <3>5. records'[i] \in ObsRecords BY <3>2, <3>4 DEF ObsRecords
    <3>6. ps \subseteq {<<p, a>>} BY <2>1, <2>3, <3>1 DEF RecordIsOwn
    <3> QED BY <2>1, <2>3, <3>2, <3>5, <3>6 DEF RecordIsOwn
  <2> QED BY <1>4, <1>6, <2>2, <2>3
<1>7. records' \in Seq(ObsRecords) /\ Len(records') = Len(records)
  <2>1. \A i \in 1..Len(records) : records'[i] \in ObsRecords BY <1>5, <1>6
  <2>2. \E f : records' = [i \in 1..Len(records) |-> f[i]]
    <3> DEFINE f == [i \in 1..Len(records) |->
                    IF seen /\ records[i].event.pid = p /\ records[i].mapping = a
                    THEN [records[i] EXCEPT !.pages = @ \cup {<<p, a>>}] ELSE records[i]]
    <3>1. records' = f BY <1>4
    <3> QED BY <3>1
  <2>3. records' \in [1..Len(records) -> ObsRecords] BY <2>1, <2>2
  <2> QED BY <1>5, <2>3, MappedSeq
<1>8. (\A i \in 1..Len(records) : RecordIsOwn(records[i]))'
  <2>1. ASSUME NEW i \in 1..Len(records) PROVE RecordIsOwn(records[i])'
    <3>1. PICK s : s = records'[i] OBVIOUS
    <3>2. RecordIsOwn(s) BY <1>5, <1>6, <3>1
    <3>3. RecordIsOwn(s)' BY <1>1, <3>2 DEF RecordIsOwn
    <3> QED BY <3>1, <3>3
  <2> QED BY <1>7, <2>1
<1>9. ObsTypeOK' /\ EventsHold' BY <1>1, <1>7 DEF RecordsAreOwn, ObsTypeOK, EventsHold, EventHolds
<1>10. LookupsHold' BY <1>1 DEF RecordsAreOwn, LookupsHold, PathHolds, MapsHold
<1> QED BY <1>8, <1>9, <1>10 DEF RecordsAreOwn

\* The processes when the observer starts, and nothing else yet.
LEMMA ObserverStarts == ObsInit => RecordsAreOwn
<1> SUFFICES ASSUME ObsInit PROVE RecordsAreOwn OBVIOUS
<1>1. Target \in ObsPids
  <2>1. ObsPids \in SUBSET Nat /\ ObsPids # {} BY ObsAssumption
  <2>2. \E p \in ObsPids : \A q \in ObsPids : p <= q BY <2>1, LeastNat
  <2> QED BY <2>2 DEF Target
<1>2. Unborn \in Processes BY DEF Unborn, Processes, Files
<1>3. \A parent \in ObsTids \cup {0}, helper \in {"none", "live"}, f \in Files, at \in [MapAddrs -> Files] :
        Born(parent, helper, f, at) \in Processes
  BY <1>2 DEF Born, Processes
<1>4. Unborn.at \in [MapAddrs -> Files] /\ NoFile \in Files /\ ObsFiles \subseteq Files BY DEF Unborn, Files
<1>8. Born(0, "none", NoFile, Unborn.at) \in Processes BY <1>3, <1>4
<1>9. Alone \in [ObsPids -> Processes] BY <1>2, <1>8 DEF Alone
<1>10. ASSUME NEW f \in ObsFiles, NEW g \in ObsFiles, NEW t \in {Target, -Target}, NEW at \in [MapAddrs -> {NoFile, g}]
       PROVE  WithChild(f, g, t, at) \in [ObsPids -> Processes]
  <2>1. t \in ObsTids BY <1>1, TidFacts
  <2>2. at \in [MapAddrs -> Files] /\ f \in Files /\ g \in Files BY <1>4
  <2>3. Born(0, "live", f, at) \in Processes /\ Born(t, "none", g, Unborn.at) \in Processes BY <1>3, <1>4, <2>1, <2>2
  <2> QED BY <1>9, <2>3 DEF WithChild
<1>11. task \in [ObsPids -> Processes] BY <1>9, <1>10 DEF ObsInit
<1>12. /\ perf = <<>> /\ trace = <<>> /\ records = <<>> /\ live_pids = {} /\ fd_cache = Empty /\ maps_cache = Empty
       /\ ophase = "construct"
  BY DEF ObsInit
<1>13. Len(perf) = 0 /\ Len(trace) = 0 /\ Len(records) = 0 BY <1>12
<1>14. ObsTypeOK BY <1>11, <1>12, EmptySeq DEF ObsTypeOK
<1> QED BY <1>12, <1>13, <1>14 DEF RecordsAreOwn, EventsHold, LookupsHold

LEMMA ObserverStep == RecordsAreOwn /\ [ObsNext]_obsVars => RecordsAreOwn'
<1> SUFFICES ASSUME RecordsAreOwn, [ObsNext]_obsVars PROVE RecordsAreOwn' OBVIOUS
<1>1. ASSUME NEW p \in ObsPids,
             \/ ObsExit(p) \/ ObsExec(p) \/ ObsClose(p) \/ ObsClone(p) \/ ObsThreadExit(p)
             \/ (\E c \in ObsPids, t \in ObsTids : ObsFork(p, t, c)) \/ (\E a \in MapAddrs : ObsMunmap(p, a))
      PROVE  RecordsAreOwn'
  BY <1>1, SilentCalls
<1>2. ASSUME NEW p \in ObsPids,
             \/ \E f \in ObsFiles : ObsOpen(p, f)
             \/ \E kind \in {"rw", "fsync"} : ObsReadWrite(p, kind)
             \/ \E hint, a \in MapAddrs \cup {0} : ObsMmap(p, hint, a)
      PROVE  RecordsAreOwn'
  BY <1>2, TracedCalls
<1>3. CASE \/ _discover_pids_by_comm \/ Attach \/ _seed_tracked_pids \/ _discover_existing_children
           \/ (\E c \in ObsPids : SeedChild(c)) \/ OpenBuffers \/ UNCHANGED obsVars
  BY <1>3, SeedingKeeps
<1>4. CASE poll_ebpf BY <1>4, PollKeeps
<1>5. CASE stop_ebpf \/ FilterStale BY <1>5, StopKeeps
<1>6. CASE ExtractFds BY <1>6, FdsKeep
<1>7. CASE parse_maps BY <1>7, MapsKeep
<1>8. CASE BuildRecords BY <1>8, BuildKeeps
<1>9. CASE ClearRefs \/ EndPipeline BY <1>9, ClearKeeps
<1>10. CASE ScanPages BY <1>10, ScanKeeps
<1> QED BY <1>1, <1>2, <1>3, <1>4, <1>5, <1>6, <1>7, <1>8, <1>9, <1>10 DEF ObsNext

\* Whatever the processes do while they are watched and afterwards, however
\* many there are, a record of the I/O path observer is about the process and
\* the file of its event, but for the files cross_reference takes for it: of
\* the same base name, with the opened name in their path, at the hint of an
\* mmap that failed, of descriptor 0.
THEOREM RecordsOwned == ObsSpec => []RecordsAreOwn
<1> QED BY ObserverStarts, ObserverStep, PTL DEF ObsSpec
----------------------------------------------------------------------------
(* Which processes are tracked: the scan for children, while the processes *)
(* fork and exit.                                                          *)

\* The call of a process, or a step of the observer, that changes nobody's
\* parent and ends nobody.
FamilyKept ==
    \A c \in ObsPids : task'[c].state = task[c].state /\ task'[c].parent = task[c].parent /\ task'[c].helper = task[c].helper

\* What every call that makes and ends nobody leaves alone: a process that a
\* probe registers again is in the table, when processes are chosen by id.
LEMMA OtherCalls ==
    ASSUME task \in [ObsPids -> Processes], NEW p \in ObsPids,
           \/ ObsExec(p) \/ ObsClose(p)
           \/ \E f \in ObsFiles : ObsOpen(p, f)
           \/ \E kind \in {"rw", "fsync"} : ObsReadWrite(p, kind)
           \/ \E hint, a \in MapAddrs \cup {0} : ObsMmap(p, hint, a)
           \/ \E a \in MapAddrs : ObsMunmap(p, a)
    PROVE  /\ FamilyKept
           /\ UNCHANGED <<trace_mode, ophase, tracked_set, todo, foundPids, forks, missed>>
           /\ tracked_pids' \subseteq tracked_pids \cup {p} /\ (trace_mode = "pid" => tracked_pids' = tracked_pids)
<1>1. UNCHANGED <<trace_mode, ophase, tracked_set, todo, foundPids, forks, missed>>
  BY DEF ObsExec, ObsClose, ObsOpen, ObsReadWrite, ObsMmap, ObsMunmap, ProcStep, Submit, bufferVars
<1>2. tracked_pids' \subseteq tracked_pids \cup {p} /\ (trace_mode = "pid" => tracked_pids' = tracked_pids)
  BY DEF ObsExec, ObsClose, ObsOpen, ObsReadWrite, ObsMmap, ObsMunmap, Registers, Passes
<1> DEFINE Kept(r) == r.state = task[p].state /\ r.parent = task[p].parent /\ r.helper = task[p].helper
<1>3. \E r : (task' = [task EXCEPT ![p] = r] \/ task' = task) /\ Kept(r)
  <2>1. task[p] \in Processes OBVIOUS
  <2>2. CASE ObsExec(p)
    <3>1. Kept(Renamed(task[p])) BY <2>1 DEF Renamed, Processes
    <3> HIDE DEF Kept
    <3> QED BY <2>2, <3>1 DEF ObsExec
  <2>3. CASE ObsClose(p)
    <3>1. Kept(Closed(task[p])) BY <2>1 DEF Closed, Processes
    <3> HIDE DEF Kept
    <3> QED BY <2>3, <3>1 DEF ObsClose
  <2>4. ASSUME NEW f \in ObsFiles, ObsOpen(p, f) PROVE \E r : (task' = [task EXCEPT ![p] = r] \/ task' = task) /\ Kept(r)
    <3>1. Kept(Opened(task[p], f)) BY <2>1 DEF Opened, Processes
    <3> HIDE DEF Kept
    <3> QED BY <2>4, <3>1 DEF ObsOpen
  <2>5. ASSUME NEW kind \in {"rw", "fsync"}, ObsReadWrite(p, kind) PROVE \E r : (task' = [task EXCEPT ![p] = r] \/ task' = task) /\ Kept(r)
    BY <2>5 DEF ObsReadWrite
  <2>6. ASSUME NEW hint \in MapAddrs \cup {0}, NEW a \in MapAddrs \cup {0}, ObsMmap(p, hint, a) PROVE \E r : (task' = [task EXCEPT ![p] = r] \/ task' = task) /\ Kept(r)
    <3>1. Kept(Mapped(task[p], a)) BY <2>1 DEF Mapped, Processes
    <3> HIDE DEF Kept
    <3> QED BY <2>6, <3>1 DEF ObsMmap
  <2>7. ASSUME NEW a \in MapAddrs, ObsMunmap(p, a) PROVE \E r : (task' = [task EXCEPT ![p] = r] \/ task' = task) /\ Kept(r)
    <3>1. Kept(Unmapped(task[p], a)) BY <2>1 DEF Unmapped, Processes
    <3> HIDE DEF Kept
    <3> QED BY <2>7, <3>1 DEF ObsMunmap
  <2> HIDE DEF Kept
  <2> QED BY <2>2, <2>3, <2>4, <2>5, <2>6, <2>7
<1>4. FamilyKept BY <1>3 DEF FamilyKept
<1> QED BY <1>1, <1>2, <1>4

\* What the other steps leave alone.
LEMMA ObserverFrames ==
    ASSUME task \in [ObsPids -> Processes],
           \/ _discover_pids_by_comm \/ Attach \/ _seed_tracked_pids \/ _discover_existing_children
           \/ (\E c \in ObsPids : SeedChild(c)) \/ OpenBuffers \/ poll_ebpf \/ stop_ebpf
           \/ FilterStale \/ ExtractFds \/ parse_maps \/ BuildRecords \/ ClearRefs \/ ScanPages \/ EndPipeline
           \/ UNCHANGED obsVars
    PROVE  FamilyKept /\ trace_mode' = trace_mode /\ missed' = missed
<1>1. CASE ClearRefs
  <2> DEFINE p == Owner(Head(monitor.left)[1])
  <2>1. /\ trace_mode' = trace_mode /\ missed' = missed
        /\ task' = task \/ task' = [task EXCEPT ![p] = Cleared(task[p])]
    BY <1>1 DEF ClearRefs
  <2>2. CASE p \in ObsPids
    <3>1. task[p] \in Processes BY <2>2
    <3>2. /\ Cleared(task[p]).state = task[p].state /\ Cleared(task[p]).parent = task[p].parent
          /\ Cleared(task[p]).helper = task[p].helper
      BY <3>1 DEF Cleared, Processes
    <3> HIDE DEF p
    <3> QED BY <2>1, <3>2 DEF FamilyKept
  <2>3. CASE p \notin ObsPids
    <3> HIDE DEF p
    <3> QED BY <2>1, <2>3 DEF FamilyKept
  <2> QED BY <2>2, <2>3
<1>2. CASE ~ClearRefs
  <2>1. UNCHANGED <<trace_mode, task, missed>>
    BY <1>2 DEF _discover_pids_by_comm, Attach, _seed_tracked_pids, _discover_existing_children, SeedChild, OpenBuffers, poll_ebpf,
                stop_ebpf, FilterStale, ExtractFds, parse_maps, BuildRecords, ScanPages, EndPipeline, ObsStep, procVars, obsVars
  <2> QED BY <2>1 DEF FamilyKept
<1> QED BY <1>1, <1>2

\* A process dies: its children have no parent, and nothing else changes.
LEMMA ExitFamily ==
    ASSUME task \in [ObsPids -> Processes], NEW p \in ObsPids, ObsExit(p)
    PROVE  /\ ~Live(p)' /\ \A c \in ObsPids \ {p} : task'[c].state = task[c].state /\ task'[c].helper = task[c].helper
           /\ \A c \in ObsPids : (Owner(task[c].parent) # p /\ task'[c].parent = task[c].parent) \/ (c # p => task'[c].parent = 0)
<1>1. \A c \in ObsPids : task'[c] = IF c = p THEN Exited(task[c]) ELSE IF Owner(task[c].parent) = p THEN Adopted(task[c], 0) ELSE task[c]
  BY DEF ObsExit
<1>2. \A c \in ObsPids : /\ Exited(task[c]).state = "dead"
                         /\ Adopted(task[c], 0).state = task[c].state /\ Adopted(task[c], 0).parent = 0
                         /\ Adopted(task[c], 0).helper = task[c].helper
  BY DEF Exited, Adopted, Processes
<1> QED BY <1>1, <1>2 DEF Live

\* A child is born, of a thread of its parent.
LEMMA ForkFamily ==
    ASSUME task \in [ObsPids -> Processes], NEW p \in ObsPids, NEW c \in ObsPids, NEW t \in ObsTids, ObsFork(p, t, c)
    PROVE  /\ Live(p) /\ ~Live(c) /\ c # p /\ Owner(t) = p /\ Alive(t)
           /\ task'[c].state = "live" /\ task'[c].parent = t
           /\ \A d \in ObsPids \ {c} : task'[d] = task[d]
<1>1. /\ Live(p) /\ task[c].state = "none" /\ task' = [task EXCEPT ![c] = ForkedFrom(task[p], t)] /\ t \in Threads(p)
  BY DEF ObsFork, ProcStep
<1>2. ForkedFrom(task[p], t).state = task[p].state /\ ForkedFrom(task[p], t).parent = t BY DEF ForkedFrom, Processes
<1>3. Owner(t) = p /\ Alive(t) BY <1>1, TidFacts DEF Threads
<1> QED BY <1>1, <1>2, <1>3 DEF Live

\* A process gets its helper.
LEMMA CloneFamily ==
    ASSUME task \in [ObsPids -> Processes], NEW p \in ObsPids, ObsClone(p)
    PROVE  /\ task'[p].helper = "live" /\ \A c \in ObsPids : task'[c].state = task[c].state /\ task'[c].parent = task[c].parent
           /\ \A c \in ObsPids \ {p} : task'[c].helper = task[c].helper
<1>1. task' = [task EXCEPT ![p] = Threaded(task[p])] BY DEF ObsClone
<1>2. Threaded(task[p]).state = task[p].state /\ Threaded(task[p]).parent = task[p].parent /\ Threaded(task[p]).helper = "live"
  BY DEF Threaded, Processes
<1> QED BY <1>1, <1>2

\* A helper ends and leaves its children to the leading thread.
LEMMA ThreadExitFamily ==
    ASSUME task \in [ObsPids -> Processes], NEW p \in ObsPids, ObsThreadExit(p)
    PROVE  /\ Live(p) /\ task[p].helper = "live"
           /\ \A c \in ObsPids : task'[c].state = task[c].state
           /\ \A c \in ObsPids \ {p} : task'[c].helper = task[c].helper
           /\ \A c \in ObsPids : IF c # p /\ task[c].parent = -p THEN task'[c].parent = p ELSE task'[c].parent = task[c].parent
<1>1. /\ Live(p) /\ task[p].helper = "live"
      /\ \A c \in ObsPids : task'[c] = IF c = p THEN HelperGone(task[c]) ELSE IF task[c].parent = -p THEN Adopted(task[c], p) ELSE task[c]
  BY DEF ObsThreadExit, ProcStep
<1>2. \A c \in ObsPids : /\ HelperGone(task[c]).state = task[c].state /\ HelperGone(task[c]).parent = task[c].parent
                         /\ Adopted(task[c], p).state = task[c].state /\ Adopted(task[c], p).parent = p
                         /\ Adopted(task[c], p).helper = task[c].helper
  BY DEF HelperGone, Adopted, Processes
<1> QED BY <1>1, <1>2

\* A step makes or ends a process or a thread, or is another call or a step of
\* the observer.
LEMMA ObsStepKinds ==
    ASSUME task \in [ObsPids -> Processes], [ObsNext]_obsVars
    PROVE  \/ \E p, c \in ObsPids, t \in ObsTids : ObsFork(p, t, c)
           \/ \E p \in ObsPids : ObsExit(p) \/ ObsClone(p) \/ ObsThreadExit(p)
           \/ FamilyKept /\ trace_mode' = trace_mode /\ missed' = missed
<1>1. ASSUME NEW p \in ObsPids,
             \/ ObsExec(p) \/ ObsClose(p)
             \/ \E f \in ObsFiles : ObsOpen(p, f)
             \/ \E kind \in {"rw", "fsync"} : ObsReadWrite(p, kind)
             \/ \E hint, a \in MapAddrs \cup {0} : ObsMmap(p, hint, a)
             \/ \E a \in MapAddrs : ObsMunmap(p, a)
      PROVE  FamilyKept /\ trace_mode' = trace_mode /\ missed' = missed
  BY <1>1, OtherCalls
<1>2. CASE \/ _discover_pids_by_comm \/ Attach \/ _seed_tracked_pids \/ _discover_existing_children
           \/ (\E c \in ObsPids : SeedChild(c)) \/ OpenBuffers \/ poll_ebpf \/ stop_ebpf
           \/ FilterStale \/ ExtractFds \/ parse_maps \/ BuildRecords \/ ClearRefs \/ ScanPages \/ EndPipeline
           \/ UNCHANGED obsVars
  BY <1>2, ObserverFrames
<1> QED BY <1>1, <1>2 DEF ObsNext

\* A child whose parent is alive.
ParentLives(c) == task[c].parent = 0 \/ (task[c].parent \in ObsTids /\ Alive(task[c].parent) /\ Owner(task[c].parent) # c)

LEMMA ParentsStayLive ==
    ASSUME task \in [ObsPids -> Processes], ParentsLive, [ObsNext]_obsVars
    PROVE  ParentsLive'
<1>0. \A c \in ObsPids : Live(c) => ParentLives(c) BY DEF ParentsLive, ParentLives
<1>1. ASSUME NEW p \in ObsPids, NEW c \in ObsPids, NEW t \in ObsTids, ObsFork(p, t, c) PROVE ParentsLive'
  <2>1. /\ Live(p) /\ ~Live(c) /\ c # p /\ task'[c].parent = t /\ Owner(t) = p /\ Alive(t)
        /\ \A d \in ObsPids \ {c} : task'[d] = task[d]
    BY <1>1, ForkFamily
  <2>2. SUFFICES ASSUME NEW d \in ObsPids, Live(d)' PROVE ParentLives(d)' BY DEF ParentsLive, ParentLives
  <2>3. CASE d = c BY <2>1, <2>3 DEF Live, Alive, ParentLives
  <2>4. CASE d # c
    <3>1. task'[d] = task[d] /\ Live(d) BY <2>1, <2>2, <2>4 DEF Live
    <3>2. CASE task[d].parent = 0 BY <3>1, <3>2 DEF ParentLives
    <3>3. CASE task[d].parent # 0
      <4>1. /\ task[d].parent \in ObsTids /\ Live(Owner(task[d].parent)) /\ Owner(task[d].parent) # d
            /\ Alive(task[d].parent) /\ Owner(task[d].parent) \in ObsPids
        BY <1>0, <3>1, <3>3, TidFacts DEF ParentLives, Alive
      <4>2. task'[Owner(task[d].parent)] = task[Owner(task[d].parent)] BY <2>1, <4>1
      <4> QED BY <3>1, <4>1, <4>2 DEF ParentLives, Alive, Live
    <3> QED BY <3>2, <3>3
  <2> QED BY <2>3, <2>4
<1>2. ASSUME NEW p \in ObsPids, ObsExit(p) PROVE ParentsLive'
  <2>1. /\ ~Live(p)' /\ \A d \in ObsPids \ {p} : task'[d].state = task[d].state /\ task'[d].helper = task[d].helper
        /\ \A d \in ObsPids : (Owner(task[d].parent) # p /\ task'[d].parent = task[d].parent) \/ (d # p => task'[d].parent = 0)
    BY <1>2, ExitFamily
  <2>2. SUFFICES ASSUME NEW d \in ObsPids, Live(d)' PROVE ParentLives(d)' BY DEF ParentsLive, ParentLives
  <2>3. d # p /\ Live(d) BY <2>1, <2>2 DEF Live
  <2>4. CASE task'[d].parent = 0 BY <2>4 DEF ParentLives
  <2>5. CASE task'[d].parent # 0
    <3>1. task'[d].parent = task[d].parent /\ Owner(task[d].parent) # p BY <2>1, <2>3, <2>5
    <3>2. /\ task[d].parent \in ObsTids /\ Alive(task[d].parent) /\ Owner(task[d].parent) # d
          /\ Owner(task[d].parent) \in ObsPids
      BY <1>0, <2>3, <2>5, <3>1, TidFacts DEF ParentLives
    <3> QED BY <2>1, <3>1, <3>2 DEF ParentLives, Alive, Live
  <2> QED BY <2>4, <2>5
<1>3. CASE FamilyKept
  <2>1. SUFFICES ASSUME NEW d \in ObsPids, Live(d)' PROVE ParentLives(d)' BY DEF ParentsLive, ParentLives
  <2>2. Live(d) /\ ParentLives(d) /\ task'[d].parent = task[d].parent BY <1>0, <1>3, <2>1 DEF FamilyKept, Live
  <2>3. CASE task[d].parent = 0 BY <2>2, <2>3 DEF ParentLives
  <2>4. CASE task[d].parent # 0
    <3>1. Owner(task[d].parent) \in ObsPids BY <2>2, <2>4, TidFacts DEF ParentLives
    <3> QED BY <1>3, <2>2, <2>4, <3>1 DEF FamilyKept, ParentLives, Alive, Live
  <2> QED BY <2>3, <2>4
<1>4. ASSUME NEW p \in ObsPids, ObsClone(p) PROVE ParentsLive'
  <2>1. /\ task'[p].helper = "live" /\ \A c \in ObsPids : task'[c].state = task[c].state /\ task'[c].parent = task[c].parent
        /\ \A c \in ObsPids \ {p} : task'[c].helper = task[c].helper
    BY <1>4, CloneFamily
  <2>2. SUFFICES ASSUME NEW d \in ObsPids, Live(d)' PROVE ParentLives(d)' BY DEF ParentsLive, ParentLives
  <2>3. Live(d) /\ ParentLives(d) /\ task'[d].parent = task[d].parent BY <1>0, <2>1, <2>2 DEF Live
  <2>4. CASE task[d].parent = 0 BY <2>3, <2>4 DEF ParentLives
  <2>5. CASE task[d].parent # 0
    <3>1. Owner(task[d].parent) \in ObsPids BY <2>3, <2>5, TidFacts DEF ParentLives
    <3> QED BY <2>1, <2>3, <2>5, <3>1 DEF ParentLives, Alive, Live
  <2> QED BY <2>4, <2>5
<1>5. ASSUME NEW p \in ObsPids, ObsThreadExit(p) PROVE ParentsLive'
  <2>1. /\ Live(p) /\ \A c \in ObsPids : task'[c].state = task[c].state
        /\ \A c \in ObsPids \ {p} : task'[c].helper = task[c].helper
        /\ \A c \in ObsPids : IF c # p /\ task[c].parent = -p THEN task'[c].parent = p ELSE task'[c].parent = task[c].parent
    BY <1>5, ThreadExitFamily
  <2>2. SUFFICES ASSUME NEW d \in ObsPids, Live(d)' PROVE ParentLives(d)' BY DEF ParentsLive, ParentLives
  <2>3. Live(d) /\ ParentLives(d) BY <1>0, <2>1, <2>2 DEF Live
  <2>4. CASE task[d].parent = 0
    <3>1. -p # 0 BY TidFacts
    <3> QED BY <2>1, <2>4, <3>1 DEF ParentLives
  <2>5. CASE d # p /\ task[d].parent = -p
    <3>1. task'[d].parent = p BY <2>1, <2>5
    <3> QED BY <2>1, <2>5, <3>1, TidFacts DEF ParentLives, Alive, Live
  <2>6. CASE task[d].parent # 0 /\ ~(d # p /\ task[d].parent = -p)
    <3>1. task[d].parent \in ObsTids /\ Owner(task[d].parent) \in ObsPids /\ Owner(task[d].parent) # d /\ task'[d].parent = task[d].parent
      BY <2>1, <2>3, <2>6, TidFacts DEF ParentLives
    <3>2. CASE Owner(task[d].parent) = p
      <4>1. d # p /\ task[d].parent = p BY <2>6, <3>1, <3>2, TidFacts
      <4> QED BY <2>1, <3>1, <4>1, TidFacts DEF ParentLives, Alive, Live
    <3>3. CASE Owner(task[d].parent) # p BY <2>1, <2>3, <2>6, <3>1, <3>3 DEF ParentLives, Alive, Live
    <3> QED BY <3>2, <3>3
  <2> QED BY <2>4, <2>5, <2>6
<1> QED BY <1>1, <1>2, <1>3, <1>4, <1>5, ObsStepKinds

\* What the scan has to do: a set of it in some order, before the rest.
Items == {"list", "read"} \X ObsTids

LEMMA OrderIsSeq ==
    ASSUME NEW next \in SUBSET Items, NEW order \in [1..Cardinality(next) -> next], NEW rest \in Seq(Items)
    PROVE  order \o rest \in Seq(Items) /\ Range(order \o rest) = Range(order) \cup Range(rest)
<1>0. IsFiniteSet(Items)
  <2>0. DEFINE minus == [p \in ObsPids |-> -p]
               Minus == {-p : p \in ObsPids}
  <2>1. IsFiniteSet(ObsPids) /\ IsFiniteSet(Minus)
    <3>1. minus \in Surjection(ObsPids, Minus) BY DEF Surjection
    <3>2. IsFiniteSet(ObsPids) BY ObsAssumption
    <3> HIDE DEF minus, Minus
    <3> QED BY <3>1, <3>2, FS_Surjection
  <2>2. IsFiniteSet(ObsTids) BY <2>1, FS_Union DEF ObsTids
  <2>3. PICK A, B : A = {"list"} /\ B = {"read"} OBVIOUS
  <2>4. IsFiniteSet(A) /\ IsFiniteSet(B) BY <2>3, FS_Singleton
  <2>5. IsFiniteSet(A \cup B) BY <2>4, FS_Union
  <2>6. A \cup B = {"list", "read"} BY <2>3
  <2> QED BY <2>2, <2>5, <2>6, FS_Product DEF Items
<1>1. Cardinality(next) \in Nat BY <1>0, FS_Subset, FS_CardinalityType
<1>2. PICK n \in Nat : n = Cardinality(next) BY <1>1
<1>3. order \in [1..n -> Items] BY <1>2
<1>4. order \in Seq(Items) BY <1>3 DEF Seq
<1> QED BY <1>4, ConcatProperties, RangeConcatenation

\* A step of the scan that is not its last: the files of the threads of a
\* process are read next, or the children in a file are found and listed.
LEMMA ScanStep ==
    ASSUME TablesOK, _discover_existing_children, todo # <<>>
    PROVE  \E kind \in {"list", "read"}, x \in ObsTids, kids \in SUBSET ObsPids, next \in SUBSET Items :
              /\ Head(todo) = <<kind, x>>
              /\ kind = "read" => kids = ThreadKids(x) /\ next = {"list"} \X kids
              /\ kind = "list" => kids = {} /\ next = {"read"} \X Threads(x)
              /\ foundPids' = foundPids \cup kids
              /\ ophase' = ophase
              /\ Tail(todo) \in Seq(Items) /\ Range(todo) = {Head(todo)} \cup Range(Tail(todo))
              /\ todo' \in Seq(Items) /\ Range(todo') = next \cup Range(Tail(todo))
<1>1. todo \in Seq(Items) BY DEF TablesOK, Items
<1>2. Head(todo) \in Items /\ Tail(todo) \in Seq(Items) BY <1>1
<1>3. PICK kind \in {"list", "read"}, x \in ObsTids : Head(todo) = <<kind, x>> BY <1>2 DEF Items
<1>4. PICK kids : kids = IF kind = "read" THEN ThreadKids(x) ELSE {} OBVIOUS
<1>5. PICK next : next = IF kind = "read" THEN {"list"} \X kids ELSE {"read"} \X Threads(x) OBVIOUS
<1>6. kids \in SUBSET ObsPids /\ next \in SUBSET Items
  <2>1. kids \subseteq ObsPids /\ kids \subseteq ObsTids BY <1>4, TidFacts DEF ThreadKids
  <2>2. Threads(x) \subseteq ObsTids
    <3>1. -x \in ObsTids
      <4>1. CASE x = Owner(x) BY <4>1, TidFacts
      <4>2. CASE x = -Owner(x)
        <5>1. Owner(x) \in ObsPids /\ Owner(x) \in Int BY TidFacts
        <5>2. -x = Owner(x) BY <4>2, <5>1
        <5> QED BY <5>1, <5>2, TidFacts
      <4> QED BY <4>1, <4>2, TidFacts
    <3> QED BY <3>1 DEF Threads
  <2> QED BY <1>5, <2>1, <2>2 DEF Items
<1>7. foundPids' = foundPids \cup kids /\ ophase' = ophase
  BY <1>3, <1>4 DEF _discover_existing_children
<1>8. PICK order \in [1..Cardinality(next) -> next] : Range(order) = next /\ todo' = order \o Tail(todo)
  <2>1. Head(todo)[1] = kind /\ Head(todo)[2] = x BY <1>3
  <2>2. CASE kind = "read"
    <3>1. next = {"list"} \X ThreadKids(x) BY <1>4, <1>5, <2>2
    <3> QED BY <2>1, <2>2, <3>1 DEF _discover_existing_children
  <2>3. CASE kind = "list"
    <3>1. next = {"read"} \X Threads(x) BY <1>5, <2>3
    <3> QED BY <2>1, <2>3, <3>1 DEF _discover_existing_children
  <2> QED BY <2>2, <2>3
<1>9. todo' \in Seq(Items) /\ Range(todo') = next \cup Range(Tail(todo))
  <2>1. PICK rest \in Seq(Items) : rest = Tail(todo) BY <1>2
  <2>2. order \o rest \in Seq(Items) /\ Range(order \o rest) = Range(order) \cup Range(rest) BY <1>6, OrderIsSeq
  <2> QED BY <1>8, <2>1, <2>2
<1>10. Range(todo) = {Head(todo)} \cup Range(Tail(todo))
  <2>1. todo = <<Head(todo)>> \o Tail(todo) BY <1>1
  <2>2. <<Head(todo)>> \in Seq(Items) /\ Range(<<Head(todo)>>) = {Head(todo)} BY <1>2 DEF Range
  <2>3. PICK h \in Seq(Items), t \in Seq(Items) : h = <<Head(todo)>> /\ t = Tail(todo) BY <1>2, <2>2
  <2>4. Range(h \o t) = Range(h) \cup Range(t) BY RangeConcatenation
  <2> QED BY <2>1, <2>2, <2>3, <2>4
<1> QED BY <1>2, <1>3, <1>4, <1>5, <1>6, <1>7, <1>9, <1>10

LEMMA TargetIsProcess == Target \in ObsPids
<1>1. ObsPids \in SUBSET Nat /\ ObsPids # {} BY ObsAssumption
<1>2. \E p \in ObsPids : \A q \in ObsPids : p <= q BY <1>1, LeastNat
<1> QED BY <1>2 DEF Target

LEMMA TablesStayOK ==
    ASSUME task \in [ObsPids -> Processes], TablesOK, [ObsNext]_obsVars
    PROVE  TablesOK'
<1>0. todo \in Seq(Items) /\ tracked_pids \subseteq ObsTids /\ foundPids \subseteq ObsPids /\ tracked_set \subseteq ObsTids
      /\ forks \subseteq ObsTids /\ ObsPids \subseteq ObsTids
  BY TidFacts DEF TablesOK, Known, Items
<1>1. ASSUME NEW p \in ObsPids, NEW c \in ObsPids, NEW t \in ObsTids, ObsFork(p, t, c) PROVE TablesOK'
  BY <1>0, <1>1 DEF ObsFork, ForkProbe, ProcStep, TablesOK, Known
<1>2. ASSUME NEW p \in ObsPids, ObsExit(p) PROVE TablesOK'
  BY <1>0, <1>2 DEF ObsExit, ProcStep, TablesOK, Known, bufferVars
<1>11. ASSUME NEW p \in ObsPids, ObsClone(p) PROVE TablesOK'
  <2>1. -p \in ObsTids BY TidFacts
  <2> QED BY <1>0, <1>11, <2>1 DEF ObsClone, ForkProbe, ProcStep, TablesOK, Known
<1>12. ASSUME NEW p \in ObsPids, ObsThreadExit(p) PROVE TablesOK'
  BY <1>0, <1>12 DEF ObsThreadExit, ProcStep, TablesOK, Known, bufferVars
<1>3. ASSUME NEW p \in ObsPids,
             \/ ObsExec(p) \/ ObsClose(p)
             \/ \E f \in ObsFiles : ObsOpen(p, f)
             \/ \E kind \in {"rw", "fsync"} : ObsReadWrite(p, kind)
             \/ \E hint, a \in MapAddrs \cup {0} : ObsMmap(p, hint, a)
             \/ \E a \in MapAddrs : ObsMunmap(p, a)
      PROVE  TablesOK'
  <2>1. /\ UNCHANGED <<tracked_set, todo, foundPids, forks>> /\ tracked_pids' \subseteq tracked_pids \cup {p}
    BY <1>3, OtherCalls
  <2> QED BY <1>0, <2>1 DEF TablesOK, Known, Items
<1>4. CASE _discover_pids_by_comm
  <2>1. tracked_set' \subseteq ObsPids BY <1>4 DEF _discover_pids_by_comm, Descendants
  <2>2. UNCHANGED <<tracked_pids, todo, foundPids, forks>> BY <1>4 DEF _discover_pids_by_comm, bufferVars
  <2> QED BY <1>0, <2>1, <2>2 DEF TablesOK, Known, Items
<1>5. CASE _seed_tracked_pids
  <2>2. <<<<"list", Target>>>> \in Seq(Items) BY <1>0, TargetIsProcess DEF Items
  <2>3. tracked_pids' \subseteq ObsTids /\ todo' \in Seq(Items) /\ UNCHANGED <<tracked_set, foundPids, forks>>
    BY <1>0, <1>5, <2>2 DEF _seed_tracked_pids, bufferVars
  <2> QED BY <1>0, <2>3 DEF TablesOK, Known, Items
<1>6. CASE _discover_existing_children
  <2>1. UNCHANGED <<tracked_pids, tracked_set, forks>> BY <1>6 DEF _discover_existing_children, bufferVars
  <2>2. CASE todo = <<>> BY <1>0, <1>6, <2>1, <2>2 DEF _discover_existing_children, TablesOK, Known, Items
  <2>3. CASE todo # <<>>
    <3>1. todo' \in Seq(Items) /\ \E kids \in SUBSET ObsPids : foundPids' = foundPids \cup kids BY <1>6, <2>3, ScanStep
    <3> QED BY <1>0, <2>1, <3>1 DEF TablesOK, Known, Items
  <2> QED BY <2>2, <2>3
<1>7. ASSUME NEW c \in ObsPids, SeedChild(c) PROVE TablesOK'
  BY <1>0, <1>7 DEF SeedChild, TablesOK, Known, bufferVars, Items
<1>8. CASE poll_ebpf BY <1>0, <1>8 DEF poll_ebpf, TablesOK, Known, Items
<1>9. CASE stop_ebpf BY <1>0, <1>9 DEF stop_ebpf, TablesOK, Known, Items
<1>10. CASE Attach \/ OpenBuffers \/ FilterStale \/ ExtractFds \/ parse_maps \/ BuildRecords \/ ClearRefs \/ ScanPages
            \/ EndPipeline \/ UNCHANGED obsVars
  <2>1. UNCHANGED <<tracked_pids, tracked_set, todo, foundPids, forks>>
    BY <1>10 DEF Attach, OpenBuffers, FilterStale, ExtractFds, parse_maps, BuildRecords, ClearRefs, ScanPages, EndPipeline,
                 bufferVars, obsVars
  <2> QED BY <1>0, <2>1 DEF TablesOK, Known, Items
<1> QED BY <1>1, <1>2, <1>3, <1>4, <1>5, <1>6, <1>7, <1>8, <1>9, <1>10, <1>11, <1>12 DEF ObsNext

\* A step that leaves the family and the tables alone.
LEMMA QuietScan ==
    ASSUME FamilyKept, ScanLeavesNone, UNCHANGED <<trace_mode, ophase, tracked_pids, tracked_set, todo, foundPids, missed>>
    PROVE  ScanLeavesNone'
BY DEF FamilyKept, ScanLeavesNone, Covered, ToBeRead, Known, Live

\* A live child has a parent that is not 0 when it is known.
LEMMA KnownParent ==
    ASSUME ParentsLive, TablesOK, NEW d \in ObsPids, Live(d), Owner(task[d].parent) \in Known
    PROVE  /\ task[d].parent \in ObsTids /\ Alive(task[d].parent) /\ Owner(task[d].parent) \in ObsPids
           /\ task[d].parent \in {Owner(task[d].parent), -Owner(task[d].parent)}
<1>1. Known \subseteq ObsTids BY DEF TablesOK
<1>2. task[d].parent # 0 BY <1>1, TidFacts
<1> QED BY <1>2, TidFacts DEF ParentsLive

\* Before the scan, the table is empty when a process forks.  Afterwards a
\* child of a tracked thread is tracked, and one of another is excepted unless
\* the thread is still to be read; whoever was alive is not a child of the
\* newborn.
LEMMA ForkCovered ==
    ASSUME task \in [ObsPids -> Processes], ParentsLive, TablesOK, ScanLeavesNone, trace_mode = "pid",
           NEW p \in ObsPids, NEW c \in ObsPids, NEW t \in ObsTids, ObsFork(p, t, c)
    PROVE  ScanLeavesNone'
<1>1. /\ Live(p) /\ ~Live(c) /\ c # p /\ task'[c].parent = t /\ Owner(t) = p
      /\ \A d \in ObsPids \ {c} : task'[d] = task[d]
  BY ForkFamily
<1>2. /\ UNCHANGED <<trace_mode, ophase, tracked_set, todo, foundPids>>
      /\ tracked_pids' = IF Passes(t) THEN tracked_pids \cup {c} ELSE tracked_pids
      /\ IF Passes(t) THEN UNCHANGED missed ELSE Misses(t, {c})
  BY DEF ObsFork, ForkProbe, ProcStep
<1>3. Passes(t) <=> ophase \in {"attached", "scan", "seed", "poll"} /\ t \in tracked_pids BY DEF Passes, Attached
<1>4. CASE ophase \in {"construct", "attached"} BY <1>2, <1>3, <1>4 DEF ScanLeavesNone
<1>5. CASE FollowForks /\ ophase \in {"scan", "seed", "poll"}
  <2>1. /\ Target \in tracked_pids /\ (ophase = "poll" => foundPids \subseteq tracked_pids)
        /\ \A d \in ObsPids : Live(d) /\ Owner(task[d].parent) \in Known => Covered(d)
    BY <1>5 DEF ScanLeavesNone
  <2>2. missed \subseteq missed' /\ Known \subseteq Known' /\ Known' \subseteq Known \cup {c} BY <1>2 DEF Misses, Known
  <2>3. \A x : ToBeRead(x) => ToBeRead(x)' BY <1>2 DEF ToBeRead
  <2>4. ASSUME NEW d \in ObsPids, Live(d)', Owner(task'[d].parent) \in Known' PROVE Covered(d)'
    <3>1. CASE d = c
      <4>2. CASE Passes(t) BY <1>2, <3>1, <4>2 DEF Covered, Known
      <4>3. CASE ~Passes(t)
        <5>1. Known' = Known /\ p \in Known BY <1>1, <1>2, <2>4, <3>1, <4>3 DEF Known
        <5>2. CASE ToBeRead(t) BY <1>1, <2>3, <3>1, <5>2 DEF Covered
        <5>3. CASE ~ToBeRead(t)
          <6>1. missed' = missed \cup ({c} \ Known) BY <1>1, <1>2, <1>5, <4>3, <5>1, <5>3 DEF Misses
          <6> QED BY <3>1, <5>1, <6>1 DEF Covered
        <5> QED BY <5>2, <5>3
      <4> QED BY <4>2, <4>3
    <3>2. CASE d # c
      <4>1. task'[d] = task[d] /\ Live(d) BY <1>1, <2>4, <3>2 DEF Live
      <4>2. Owner(task[d].parent) \in Known
        <5>1. SUFFICES ASSUME Owner(task[d].parent) = c PROVE FALSE BY <2>2, <2>4, <4>1
        <5>2. task[d].parent # 0 BY <5>1, TidFacts
        <5>3. Alive(task[d].parent) BY <4>1, <5>2 DEF ParentsLive
        <5> QED BY <1>1, <5>1, <5>3 DEF Alive
      <4>3. Covered(d) BY <2>1, <4>1, <4>2
      <4> QED BY <2>2, <2>3, <4>1, <4>3 DEF Covered
    <3> QED BY <3>1, <3>2
  <2> QED BY <1>2, <1>5, <2>1, <2>4 DEF ScanLeavesNone
<1>6. CASE ophase \notin {"construct", "attached"} /\ ~(FollowForks /\ ophase \in {"scan", "seed", "poll"})
  BY <1>2, <1>6 DEF ScanLeavesNone
<1> QED BY <1>4, <1>5, <1>6

\* A new thread is nobody's parent yet.
LEMMA CloneCovered ==
    ASSUME task \in [ObsPids -> Processes], ParentsLive, TablesOK, ScanLeavesNone, trace_mode = "pid",
           NEW p \in ObsPids, ObsClone(p)
    PROVE  ScanLeavesNone'
<1>1. \A c \in ObsPids : task'[c].state = task[c].state /\ task'[c].parent = task[c].parent BY CloneFamily
<1>2. /\ UNCHANGED <<trace_mode, ophase, tracked_set, todo, foundPids, missed>>
      /\ tracked_pids' = IF Passes(p) THEN tracked_pids \cup {-p} ELSE tracked_pids
  BY DEF ObsClone, ForkProbe, ProcStep
<1>3. Passes(p) => p \in tracked_pids BY DEF Passes
<1>4. CASE ophase \in {"construct", "attached"} BY <1>2, <1>3, <1>4 DEF ScanLeavesNone
<1>5. CASE ophase \notin {"construct", "attached"}
  <2>1. Known \subseteq Known' /\ Known' \subseteq Known \cup {-p} /\ tracked_pids \subseteq tracked_pids' BY <1>2 DEF Known
  <2>2. \A x : ToBeRead(x) => ToBeRead(x)' BY <1>2 DEF ToBeRead
  <2>3. ASSUME NEW d \in ObsPids, Live(d)', Owner(task'[d].parent) \in Known' PROVE Live(d) /\ Owner(task[d].parent) \in Known
    <3>1. Live(d) /\ task'[d].parent = task[d].parent BY <1>1, <2>3 DEF Live
    <3>2. Owner(task[d].parent) # -p
      <4>1. task[d].parent = 0 \/ task[d].parent \in ObsTids BY <3>1 DEF ParentsLive
      <4> QED BY <4>1, TidFacts
    <3> QED BY <2>1, <2>3, <3>1, <3>2
  <2>4. \A d \in ObsPids : Covered(d) => Covered(d)' BY <1>1, <1>2, <2>1, <2>2 DEF Covered
  <2> QED BY <1>2, <1>5, <2>1, <2>3, <2>4 DEF ScanLeavesNone
<1> QED BY <1>4, <1>5

\* The children of a thread that ends are covered by its leader, which is to
\* be read, or excepted.
LEMMA ThreadExitCovered ==
    ASSUME task \in [ObsPids -> Processes], ParentsLive, TablesOK, ScanLeavesNone, trace_mode = "pid",
           NEW p \in ObsPids, ObsThreadExit(p)
    PROVE  ScanLeavesNone'
<1>1. /\ Live(p) /\ task[p].helper = "live"
      /\ \A c \in ObsPids : task'[c].state = task[c].state
      /\ \A c \in ObsPids : IF c # p /\ task[c].parent = -p THEN task'[c].parent = p ELSE task'[c].parent = task[c].parent
  BY ThreadExitFamily
<1>2. /\ UNCHANGED <<trace_mode, ophase, tracked_pids, tracked_set, todo, foundPids>> /\ Misses(p, ThreadKids(-p))
  BY DEF ObsThreadExit, ProcStep
<1>3. Known' = Known /\ missed \subseteq missed' BY <1>2 DEF Known, Misses
<1>4. \A x : ToBeRead(x) => ToBeRead(x)' BY <1>2 DEF ToBeRead
<1>5. ASSUME FollowForks, ophase \in {"scan", "seed", "poll"}, NEW d \in ObsPids, Live(d)', Owner(task'[d].parent) \in Known'
      PROVE  Covered(d)'
  <2>1. Live(d) BY <1>1, <1>5 DEF Live
  <2>2. CASE task'[d].parent = task[d].parent
    <3>1. Covered(d) BY <1>3, <1>5, <2>1, <2>2 DEF ScanLeavesNone
    <3> QED BY <1>3, <1>4, <2>2, <3>1 DEF Covered
  <2>3. CASE task[d].parent = -p /\ task'[d].parent = p
    <3>1. Owner(p) = p /\ Owner(-p) = p /\ p \in Known BY <1>3, <1>5, <2>3, TidFacts
    <3>2. d \in ThreadKids(-p) BY <1>1, <2>1, <2>3, <3>1 DEF ThreadKids, Alive
    <3>3. CASE ToBeRead(p) BY <1>4, <2>3, <3>3 DEF Covered
    <3>4. CASE ~ToBeRead(p)
      <4>1. missed' = missed \cup (ThreadKids(-p) \ Known) BY <1>2, <1>5, <3>1, <3>4 DEF Misses
      <4> QED BY <1>3, <3>2, <4>1 DEF Covered
    <3> QED BY <3>3, <3>4
  <2> QED BY <1>1, <2>2, <2>3
<1> QED BY <1>2, <1>5 DEF ScanLeavesNone

\* The orphans of a process that exits are nobody's children.
LEMMA ExitCovered ==
    ASSUME task \in [ObsPids -> Processes], TablesOK, ScanLeavesNone, trace_mode = "pid",
           NEW p \in ObsPids, ObsExit(p)
    PROVE  ScanLeavesNone'
<1>1. /\ ~Live(p)' /\ \A c \in ObsPids \ {p} : task'[c].state = task[c].state
      /\ \A c \in ObsPids : (Owner(task[c].parent) # p /\ task'[c].parent = task[c].parent) \/ (c # p => task'[c].parent = 0)
  BY ExitFamily
<1>2. UNCHANGED <<trace_mode, ophase, tracked_pids, tracked_set, todo, foundPids, missed>> BY DEF ObsExit, ProcStep
<1>3. ASSUME NEW d \in ObsPids, Live(d)', Owner(task'[d].parent) \in Known' PROVE Live(d) /\ task'[d].parent = task[d].parent
  <2>1. task'[d].parent # 0 BY <1>2, <1>3, TidFacts DEF TablesOK, Known
  <2> QED BY <1>1, <1>3, <2>1 DEF Live
<1>4. Known' = Known /\ \A x : ToBeRead(x) => ToBeRead(x)' BY <1>2 DEF Known, ToBeRead
<1> QED BY <1>2, <1>3, <1>4 DEF ScanLeavesNone, Covered

\* The scan starts with the target, which is in the table by then.
LEMMA SeedCovered ==
    ASSUME ScanLeavesNone, trace_mode = "pid", _seed_tracked_pids
    PROVE  ScanLeavesNone'
<1>1. /\ ophase = "attached" /\ UNCHANGED <<trace_mode, task, foundPids, missed>> /\ tracked_pids' = tracked_pids \cup tracked_set
      /\ IF FollowForks THEN ophase' = "scan" /\ todo' = <<<<"list", Target>>>> ELSE ophase' = "poll"
  BY DEF _seed_tracked_pids, ObsStep, procVars
<1>2. tracked_pids' = {Target} /\ foundPids' = {} BY <1>1 DEF ScanLeavesNone
<1>3. CASE FollowForks
  <2>1. Range(todo') = {<<"list", Target>>} BY <1>1, <1>3 DEF Range
  <2>2. Known' = {Target} BY <1>2 DEF Known
  <2>3. \A x : Owner(x) = Target => ToBeRead(x)' BY <1>1, <1>3, <2>1 DEF ToBeRead
  <2> QED BY <1>1, <1>2, <1>3, <2>2, <2>3 DEF ScanLeavesNone, Covered
<1>4. CASE ~FollowForks BY <1>1, <1>4 DEF ScanLeavesNone
<1> QED BY <1>3, <1>4

\* The scan goes from a process to its threads, from a thread to its children
\* and to these; what is gone has no children.
LEMMA DiscoveryCovered ==
    ASSUME task \in [ObsPids -> Processes], ParentsLive, TablesOK, ScanLeavesNone, trace_mode = "pid", _discover_existing_children
    PROVE  ScanLeavesNone'
<1>1. ophase = "scan" /\ UNCHANGED <<trace_mode, task, missed, tracked_pids, tracked_set>>
  BY DEF _discover_existing_children, ObsStep, procVars
<1>2. CASE ~FollowForks
  <2>1. ophase' \in {"scan", "seed"} BY <1>1 DEF _discover_existing_children
  <2> QED BY <1>1, <1>2, <2>1 DEF ScanLeavesNone
<1>3. CASE FollowForks
  <2>1. /\ Target \in tracked_pids
        /\ \A c \in ObsPids : Live(c) /\ Owner(task[c].parent) \in Known => Covered(c)
    BY <1>1, <1>3 DEF ScanLeavesNone
  <2>2. CASE todo = <<>>
    <3>1. ophase' = "seed" /\ UNCHANGED <<todo, foundPids>> BY <2>2 DEF _discover_existing_children
    <3>2. Range(todo) = {} BY <2>2 DEF Range
    <3>3. \A c \in ObsPids : Covered(c) => c \in Known \cup missed BY <3>2 DEF Covered, ToBeRead
    <3> QED BY <1>1, <2>1, <3>1, <3>3 DEF ScanLeavesNone, Covered, Known, Live
  <2>3. CASE todo # <<>>
    <3>1. PICK kind \in {"list", "read"}, x \in ObsTids, kids \in SUBSET ObsPids, next \in SUBSET Items :
              /\ Head(todo) = <<kind, x>>
              /\ kind = "read" => kids = ThreadKids(x) /\ next = {"list"} \X kids
              /\ kind = "list" => kids = {} /\ next = {"read"} \X Threads(x)
              /\ foundPids' = foundPids \cup kids
              /\ ophase' = ophase
              /\ Range(todo) = {Head(todo)} \cup Range(Tail(todo))
              /\ Range(todo') = next \cup Range(Tail(todo))
      BY <2>3, ScanStep
    <3>2. Known' = Known \cup kids BY <1>1, <3>1 DEF Known
    <3>3. \A t : ToBeRead(t)' <=> (<<"list", Owner(t)>> \in Range(todo') \/ <<"read", t>> \in Range(todo')) BY <1>1, <3>1 DEF ToBeRead
    <3>4. \A t : ToBeRead(t) <=> (<<"list", Owner(t)>> \in Range(todo) \/ <<"read", t>> \in Range(todo)) BY <1>1 DEF ToBeRead
    <3>5. ASSUME NEW d \in ObsPids, Live(d), Owner(task[d].parent) \in Known'
          PROVE  d \in Known' \cup missed \/ ToBeRead(task[d].parent)'
      <4> DEFINE t == task[d].parent
      <4>1. CASE Owner(t) \in kids
        <5>1. kind = "read" BY <3>1, <4>1
        <5>2. <<"list", Owner(t)>> \in Range(todo') BY <3>1, <4>1, <5>1
        <5> QED BY <1>1, <3>3, <5>2
      <4>2. CASE Owner(t) \in Known
        <5>0. Alive(t) /\ t \in {Owner(t), -Owner(t)} BY <3>5, <4>2, KnownParent
        <5>1. d \in Known \cup missed \/ ToBeRead(t) BY <2>1, <3>5, <4>2 DEF Covered
        <5>2. CASE ToBeRead(t) /\ <<"list", Owner(t)>> = Head(todo)
          <6>1. kind = "list" /\ x = Owner(t) BY <3>1, <5>2
          <6>2. t \in Threads(x) BY <5>0, <6>1 DEF Threads
          <6>3. <<"read", t>> \in Range(todo') BY <3>1, <6>1, <6>2
          <6> QED BY <1>1, <3>3, <6>3
        <5>3. CASE ToBeRead(t) /\ <<"read", t>> = Head(todo)
          <6>1. kind = "read" /\ x = t BY <3>1, <5>3
          <6>2. d \in kids BY <3>1, <3>5, <5>0, <6>1 DEF ThreadKids
          <6> QED BY <3>2, <6>2
        <5>4. CASE ToBeRead(t) /\ <<"list", Owner(t)>> # Head(todo) /\ <<"read", t>> # Head(todo)
          <6>1. <<"list", Owner(t)>> \in Range(Tail(todo)) \/ <<"read", t>> \in Range(Tail(todo)) BY <3>1, <3>4, <5>4
          <6> QED BY <1>1, <3>1, <3>3, <6>1
        <5> QED BY <3>2, <5>1, <5>2, <5>3, <5>4
      <4> QED BY <3>2, <3>5, <4>1, <4>2
    <3>6. \A d \in ObsPids : Live(d)' /\ Owner(task'[d].parent) \in Known' => Covered(d)' BY <1>1, <3>5 DEF Covered, Live
    <3> QED BY <1>1, <2>1, <3>1, <3>6 DEF ScanLeavesNone
  <2> QED BY <2>2, <2>3
<1> QED BY <1>2, <1>3

\* The children found are entered; when they are in the table, tracing starts.
LEMMA EntryCovered ==
    ASSUME ScanLeavesNone, trace_mode = "pid", (\E c \in ObsPids : SeedChild(c)) \/ OpenBuffers
    PROVE  ScanLeavesNone'
<1>1. ophase = "seed" /\ UNCHANGED <<trace_mode, task, missed, todo, foundPids>> BY DEF SeedChild, OpenBuffers, ObsStep, procVars
<1>2. Known' = Known /\ tracked_pids \subseteq tracked_pids' BY DEF SeedChild, OpenBuffers, Known
<1>3. ophase' = "seed" \/ (ophase' = "poll" /\ foundPids' \subseteq tracked_pids') BY <1>1 DEF SeedChild, OpenBuffers
<1>4. \A c \in ObsPids : Covered(c) => Covered(c)' BY <1>1, <1>2 DEF Covered, ToBeRead
<1> QED BY <1>1, <1>2, <1>3, <1>4 DEF ScanLeavesNone, Live

LEMMA ScanGoesOn ==
    ASSUME task \in [ObsPids -> Processes], ParentsLive, TablesOK, ScanLeavesNone, [ObsNext]_obsVars
    PROVE  ScanLeavesNone'
<1>1. trace_mode' = trace_mode BY ObsStepKinds DEF ObsFork, ObsExit, ObsClone, ObsThreadExit, ProcStep
<1>2. CASE trace_mode # "pid" BY <1>1, <1>2 DEF ScanLeavesNone
<1>3. CASE trace_mode = "pid"
  <2>1. ASSUME NEW p \in ObsPids, NEW c \in ObsPids, NEW t \in ObsTids, ObsFork(p, t, c) PROVE ScanLeavesNone' BY <1>3, <2>1, ForkCovered
  <2>12. ASSUME NEW p \in ObsPids, ObsClone(p) PROVE ScanLeavesNone' BY <1>3, <2>12, CloneCovered
  <2>13. ASSUME NEW p \in ObsPids, ObsThreadExit(p) PROVE ScanLeavesNone' BY <1>3, <2>13, ThreadExitCovered
  <2>2. ASSUME NEW p \in ObsPids, ObsExit(p) PROVE ScanLeavesNone' BY <1>3, <2>2, ExitCovered
  <2>3. ASSUME NEW p \in ObsPids,
               \/ ObsExec(p) \/ ObsClose(p)
               \/ \E f \in ObsFiles : ObsOpen(p, f)
               \/ \E kind \in {"rw", "fsync"} : ObsReadWrite(p, kind)
               \/ \E hint, a \in MapAddrs \cup {0} : ObsMmap(p, hint, a)
               \/ \E a \in MapAddrs : ObsMunmap(p, a)
        PROVE  ScanLeavesNone'
    <3>1. FamilyKept /\ UNCHANGED <<trace_mode, ophase, tracked_pids, tracked_set, todo, foundPids, missed>>
      BY <1>3, <2>3, OtherCalls
    <3> QED BY <3>1, QuietScan
  <2>4. CASE UNCHANGED obsVars
    <3>1. FamilyKept /\ UNCHANGED <<trace_mode, ophase, tracked_pids, tracked_set, todo, foundPids, missed>>
      BY <2>4 DEF obsVars, FamilyKept
    <3> QED BY <3>1, QuietScan
  <2>5. CASE _discover_pids_by_comm BY <1>3, <2>5 DEF _discover_pids_by_comm
  <2>6. CASE Attach BY <1>3, <2>6 DEF Attach, ObsStep, ScanLeavesNone
  <2>7. CASE _seed_tracked_pids BY <1>3, <2>7, SeedCovered
  <2>8. CASE _discover_existing_children BY <1>3, <2>8, DiscoveryCovered
  <2>9. CASE (\E c \in ObsPids : SeedChild(c)) \/ OpenBuffers BY <1>3, <2>9, EntryCovered
  <2>10. CASE poll_ebpf
    <3>1. ophase = "poll" /\ UNCHANGED <<trace_mode, ophase, task, missed, tracked_pids, todo, foundPids>>
      BY <2>10 DEF poll_ebpf, ObsStep, procVars
    <3> QED BY <3>1 DEF ScanLeavesNone, Covered, ToBeRead, Known, Live
  <2>11. CASE stop_ebpf \/ FilterStale \/ ExtractFds \/ parse_maps \/ BuildRecords \/ ClearRefs \/ ScanPages \/ EndPipeline
    <3>1. ophase' \in {"live", "fds", "maps", "monitor", "done"}
      BY <2>11 DEF stop_ebpf, FilterStale, ExtractFds, parse_maps, BuildRecords, ClearRefs, ScanPages, EndPipeline, ObsStep
    <3> QED BY <3>1 DEF ScanLeavesNone
  <2> QED BY <2>1, <2>2, <2>3, <2>4, <2>5, <2>6, <2>7, <2>8, <2>9, <2>10, <2>11, <2>12, <2>13 DEF ObsNext
<1> QED BY <1>2, <1>3

\* Initially the target is alive and may have a child.
LEMMA FamilyStarts == ObsInit => ParentsLive /\ TablesOK /\ ScanLeavesNone
<1> SUFFICES ASSUME ObsInit PROVE ParentsLive /\ TablesOK /\ ScanLeavesNone OBVIOUS
<1>1. /\ Unborn.state = "none"
      /\ \A parent, helper, f, at : /\ Born(parent, helper, f, at).state = "live" /\ Born(parent, helper, f, at).parent = parent
                                     /\ Born(parent, helper, f, at).helper = helper
  BY DEF Unborn, Born
<1>5. FirstChild \in ObsPids \ {Target}
  <2>0. PICK p \in ObsPids, q \in ObsPids : p # q BY ObsAssumption
  <2>1. p \in ObsPids \ {Target} \/ q \in ObsPids \ {Target} BY <2>0
  <2>2. PICK S \in SUBSET Nat : S = ObsPids \ {Target} /\ S # {} BY <2>1, ObsAssumption
  <2>3. \E x \in S : \A y \in S : x <= y BY <2>2, LeastNat
  <2> QED BY <2>2, <2>3 DEF FirstChild
<1>7. ParentsLive
  <2>1. CASE task = Alone BY <1>1, <2>1 DEF ParentsLive, Live, Alone
  <2>2. ASSUME NEW f \in ObsFiles, NEW g \in ObsFiles, NEW t \in {Target, -Target}, NEW at \in [MapAddrs -> {NoFile, g}],
               task = WithChild(f, g, t, at)
        PROVE  ParentsLive
    <3>1. \A c \in ObsPids : task[c] = IF c = FirstChild THEN Born(t, "none", g, Unborn.at) ELSE IF c = Target THEN Born(0, "live", f, at) ELSE Unborn
      BY <1>5, <2>2, TargetIsProcess DEF WithChild, Alone
    <3>2. t \in ObsTids /\ Owner(t) = Target BY TargetIsProcess, TidFacts
    <3>3. Alive(t) BY <1>1, <1>5, <3>1, <3>2, TargetIsProcess DEF Alive, Live
    <3> QED BY <1>1, <1>5, <3>1, <3>2, <3>3, TargetIsProcess DEF ParentsLive, Live
  <2> QED BY <2>1, <2>2 DEF ObsInit
<1>8. /\ tracked_pids = {} /\ todo = <<>> /\ foundPids = {} /\ forks = {} /\ ophase = "construct"
      /\ tracked_set = IF trace_mode = "pid" THEN {Target} ELSE {}
  BY DEF ObsInit
<1>9. tracked_set \subseteq ObsTids BY <1>8, TargetIsProcess, TidFacts
<1>10. TablesOK BY <1>8, <1>9, EmptySeq DEF TablesOK, Known
<1> QED BY <1>7, <1>8, <1>10 DEF ScanLeavesNone

\* The tracked, the excepted and the descendants of these are closed under
\* children, and have the children of the target.
LEMMA CoverIsClosed ==
    ASSUME ParentsLive, TablesOK, ScanLeavesNone, trace_mode = "pid", FollowForks, ophase = "poll"
    PROVE  Descendants(Target) \subseteq tracked_pids \cup missed \cup UNION {Descendants(m) : m \in missed}
<1> DEFINE G == ObsPids \cap (tracked_pids \cup missed \cup UNION {Descendants(m) : m \in missed})
<1>1. /\ Target \in tracked_pids /\ Known = tracked_pids
      /\ \A c \in ObsPids : Live(c) /\ Owner(task[c].parent) \in tracked_pids => c \in tracked_pids \cup missed
  BY DEF ScanLeavesNone, Covered, ToBeRead, Known
<1>2. ASSUME NEW q \in ObsPids, q \in tracked_pids PROVE Children(q) \subseteq G
  BY <1>1, <1>2 DEF Children
<1>3. ASSUME NEW m PROVE Children(m) \subseteq Descendants(m) BY DEF Descendants, Children
<1>4. ASSUME NEW m, NEW q \in Descendants(m) PROVE Children(q) \subseteq Descendants(m)
  <2>1. SUFFICES ASSUME NEW c \in Children(q), NEW S \in SUBSET ObsPids,
                        Children(m) \subseteq S, \A r \in S : Children(r) \subseteq S
                 PROVE  c \in S
    BY DEF Descendants, Children
  <2>2. q \in S BY <1>4, <2>1 DEF Descendants
  <2> QED BY <2>1, <2>2
<1>5. ASSUME NEW q \in G PROVE Children(q) \subseteq G
  <2>0. Children(q) \subseteq ObsPids BY DEF Children
  <2>1. CASE q \in tracked_pids BY <1>2, <2>1
  <2>2. CASE q \in missed BY <1>3, <2>0, <2>2
  <2>3. ASSUME NEW m \in missed, q \in Descendants(m) PROVE Children(q) \subseteq G BY <1>4, <2>0, <2>3
  <2> QED BY <1>5, <2>1, <2>2, <2>3
<1>6. Children(Target) \subseteq G BY <1>1, <1>2, TargetIsProcess
<1>7. G \in SUBSET ObsPids OBVIOUS
<1>8. Descendants(Target) \subseteq G
  <2> HIDE DEF G
  <2> QED BY <1>5, <1>6, <1>7 DEF Descendants
<1> QED BY <1>8

\* However many processes there are and whatever they and their threads fork
\* and end while the children are looked up: once the I/O path observer
\* traces, every live descendant of its target is in the table of the kernel,
\* but for a child forked by a thread that is not in the table, after the scan
\* read it, a child left to such a thread by one that ended, and what these
\* fork.
THEOREM DescendantsFound == ObsSpec => []DescendantsTracked
<1> DEFINE I == RecordsAreOwn /\ ParentsLive /\ TablesOK /\ ScanLeavesNone
<1>1. ObsInit => I BY ObserverStarts, FamilyStarts
<1>2. I /\ [ObsNext]_obsVars => I'
  <2> SUFFICES ASSUME I, [ObsNext]_obsVars PROVE I' OBVIOUS
  <2>1. task \in [ObsPids -> Processes] BY DEF RecordsAreOwn, ObsTypeOK
  <2>2. RecordsAreOwn' BY ObserverStep
  <2>3. ParentsLive' BY <2>1, ParentsStayLive
  <2>4. TablesOK' BY <2>1, TablesStayOK
  <2>5. ScanLeavesNone' BY <2>1, ScanGoesOn
  <2> QED BY <2>2, <2>3, <2>4, <2>5
<1>3. I => DescendantsTracked BY CoverIsClosed DEF DescendantsTracked
<1> QED BY <1>1, <1>2, <1>3, PTL DEF ObsSpec
============================================================================
