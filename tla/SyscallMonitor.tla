--------------------------- MODULE SyscallMonitor ---------------------------
(***************************************************************************)
(* The system call monitor: the probes of syscall_monitor.bpf.c, which run *)
(* in the traced threads on any CPU, and the loop of syscall_monitor.c     *)
(* that reads their records.                                               *)
(*                                                                         *)
(* A traced call runs an entry probe; mmap also a return probe; and every  *)
(* call the sys_exit tracepoint.  Entry and return probes first count the  *)
(* call in a shared map (update_stats: look the key up, then add or        *)
(* insert), then log_event reserves a record in the ring buffer and, for   *)
(* mmap, keeps the time of the entry in mmap_entry_map so that the return  *)
(* record carries it too.  The two statistics maps are updated alike; one  *)
(* is modelled.  Detailed logging is on and every event is sampled, as the *)
(* program sets them for a capture.                                        *)
(***************************************************************************)
EXTENDS Integers, Sequences, FiniteSets

CONSTANTS
    Tasks,        \* traced threads
    TgidOf,       \* thread -> its process
    Nrs,          \* system calls traced; "mmap" is one of them
    MaxCalls,     \* thread -> bound on its calls
    MaxEntries,   \* MAX_ENTRIES of mmap_entry_map
    RingRecords,  \* records the ring buffer holds
    FirstMax,     \* max_events at the start
    HardMax       \* the 10000000 records handle_event stops at

ASSUME MonitorAssumption ==
    /\ IsFiniteSet(Tasks) /\ TgidOf \in [Tasks -> Tasks]
    /\ MaxCalls \in [Tasks -> Nat] /\ MaxEntries \in Nat \ {0} /\ RingRecords \in Nat \ {0}
    /\ FirstMax \in Nat \ {0} /\ HardMax \in Nat

VARIABLES
    probe,           \* thread -> [kind, at, nr, call]: the probe it runs
    ktime,           \* bpf_ktime_get_ns
    syscall_counts,  \* nr -> count
    elem,            \* nr -> which map element holds its count, 0 if there is none
    found,           \* thread -> the element its lookup returned, 0 if none
    mmap_entry_map,  \* key -> time, for the keys present
    ring,            \* records not yet read
    running,         \* the monitor reads records
    events, max_events, events_dropped,
    calls,           \* history: nr -> update_stats calls completed
    raced,           \* history: the first counts of a system call overlapped
    lost,            \* history: threads of which a record was lost
    crowded          \* history: more mmaps under way at once than the map holds

readerVars == <<ring, running, events, max_events, events_dropped>>
historyVars == <<calls, raced, lost, crowded>>
monVars == <<probe, ktime, syscall_counts, elem, found, mmap_entry_map, readerVars, historyVars>>

MonInit ==
    /\ probe = [t \in Tasks |-> [kind |-> "none", at |-> "user", nr |-> "none", call |-> 0]]
    /\ ktime = 0
    /\ syscall_counts = [n \in Nrs |-> 0]
    /\ elem = [n \in Nrs |-> 0]
    /\ found = [t \in Tasks |-> 0]
    /\ mmap_entry_map = <<>>
    /\ ring = <<>> /\ running = TRUE
    /\ events = <<>> /\ max_events = FirstMax /\ events_dropped = 0
    /\ calls = [n \in Nrs |-> 0]
    /\ raced = FALSE /\ lost = {} /\ crowded = FALSE

----------------------------------------------------------------------------
(* A thread in the kernel.                                                 *)

\* The entry probe of a call, whichever arguments it records.
EnterCall(t) ==
    /\ probe[t].at = "user" /\ probe[t].call < MaxCalls[t]
    /\ \E n \in Nrs : probe' = [probe EXCEPT ![t] =
           [kind |-> "entry", at |-> "look", nr |-> n, call |-> @.call + 1]]
    /\ UNCHANGED <<ktime, syscall_counts, elem, found, mmap_entry_map, readerVars, historyVars>>

\* trace_openat cannot read the file name from user memory: it neither counts
\* nor logs the call, whose exit is logged all the same.
EnterUnreadable(t) ==
    /\ probe[t].at = "user" /\ probe[t].call < MaxCalls[t]
    /\ "openat" \in Nrs
    /\ probe' = [probe EXCEPT ![t] =
           [kind |-> "exit", at |-> "log", nr |-> "openat", call |-> @.call + 1]]
    /\ UNCHANGED <<ktime, syscall_counts, elem, found, mmap_entry_map, readerVars, historyVars>>

\* update_stats looks the key up.  It races if another thread has found none
\* either and not inserted it yet.
StatsLookup(t) ==
    /\ probe[t].at = "look"
    /\ found' = [found EXCEPT ![t] = elem[probe[t].nr]]
    /\ raced' = (raced \/ \E u \in Tasks :
                            /\ probe[u].at = "stat" /\ probe[u].nr = probe[t].nr
                            /\ found[u] = 0 /\ found'[t] = 0)
    /\ probe' = [probe EXCEPT ![t].at = "stat"]
    /\ UNCHANGED <<ktime, syscall_counts, elem, mmap_entry_map, readerVars, calls, lost, crowded>>

\* As CountFor, inserting whether or not the key was found.
InsertAlways(t) == 1

\* __sync_fetch_and_add on the value found, or a new entry.
CountFor(t) == IF found[t] # 0 THEN syscall_counts[probe[t].nr] + 1 ELSE 1

\* A new entry replaces the one another thread has inserted meanwhile.  A
\* thread that had found the replaced element adds to it still: it may hold
\* nothing or be the element of another key by then.
StatsUpdate(t) ==
    /\ probe[t].at = "stat"
    /\ LET n == probe[t].nr
           stale == found[t] \notin {0, elem[n]} IN
         /\ elem' = IF found[t] = 0 THEN [elem EXCEPT ![n] = @ + 1] ELSE elem
         /\ \/ ~stale /\ syscall_counts' = [syscall_counts EXCEPT ![n] = CountFor(t)]
            \/ stale /\ UNCHANGED syscall_counts
            \/ stale /\ \E m \in Nrs : elem[m] # 0 /\ syscall_counts' = [syscall_counts EXCEPT ![m] = @ + 1]
         /\ calls' = [calls EXCEPT ![n] = @ + 1]
    /\ probe' = [probe EXCEPT ![t].at = "log"]
    /\ UNCHANGED <<ktime, found, mmap_entry_map, readerVars, raced, lost, crowded>>

\* As EntryKey, the process.
EntryKeyPid(t) == TgidOf[t]

\* The key of mmap_entry_map: pid_tgid, a thread.
EntryKey(t) == t

Without(f, k) == [x \in DOMAIN f \ {k} |-> f[x]]
With(f, k, v) == [x \in DOMAIN f \cup {k} |-> IF x = k THEN v ELSE f[x]]

\* bpf_map_update_elem fails when the key is new and the map full.
Saved(f, k, v) ==
    IF k \in DOMAIN f \/ Cardinality(DOMAIN f) < MaxEntries THEN With(f, k, v) ELSE f

\* log_event tells an mmap entry by its empty file name, which the sys_exit
\* record has as well; the return record takes the saved time.
Stamp(t) ==
    IF probe[t].nr = "mmap" /\ probe[t].kind = "return" /\ EntryKey(t) \in DOMAIN mmap_entry_map
      THEN mmap_entry_map[EntryKey(t)] ELSE ktime

EntryMapAfter(t) ==
    IF probe[t].nr # "mmap" THEN mmap_entry_map
    ELSE IF probe[t].kind = "return" THEN Without(mmap_entry_map, EntryKey(t))
    ELSE Saved(mmap_entry_map, EntryKey(t), ktime)

\* The next probe of the call.
Goes(p, kind, at) == [kind |-> kind, at |-> at, nr |-> p.nr, call |-> p.call]
NextProbe(p) ==
    CASE p.kind = "entry" /\ p.nr = "mmap" -> Goes(p, "return", "look")
      [] p.kind = "entry" /\ p.nr # "mmap" -> Goes(p, "exit", "log")
      [] p.kind = "return" -> Goes(p, "exit", "log")
      [] p.kind = "exit" -> Goes(p, "none", "user")

\* log_event: without room in the ring buffer it returns at once.
LogEvent(t) ==
    /\ probe[t].at = "log"
    /\ probe' = [probe EXCEPT ![t] = NextProbe(@)]
    /\ ktime' = ktime + 1
    /\ \/ /\ Len(ring) < RingRecords
          /\ ring' = Append(ring, [task |-> t, kind |-> probe[t].kind, nr |-> probe[t].nr,
                                   call |-> probe[t].call, timestamp |-> Stamp(t)])
          /\ mmap_entry_map' = EntryMapAfter(t)
          /\ UNCHANGED lost
       \/ /\ Len(ring) = RingRecords
          /\ lost' = lost \cup {t}
          /\ UNCHANGED <<ring, mmap_entry_map>>
    /\ crowded' = (crowded \/ Cardinality({u \in Tasks : probe'[u].kind = "return"}) > MaxEntries)
    /\ UNCHANGED <<syscall_counts, elem, found, running, events, max_events, events_dropped, calls, raced>>

----------------------------------------------------------------------------
(* The monitor.                                                            *)

\* handle_event: a full array is doubled, unless that exceeds the limit or
\* realloc fails; then the record is dropped and counted.
HandleEvent ==
    /\ running /\ ring # <<>>
    /\ ring' = Tail(ring)
    /\ \/ /\ Len(events) < max_events
          /\ events' = Append(events, Head(ring))
          /\ UNCHANGED <<max_events, events_dropped, lost>>
       \/ /\ Len(events) >= max_events /\ max_events * 2 <= HardMax
          /\ max_events' = max_events * 2
          /\ events' = Append(events, Head(ring))
          /\ UNCHANGED <<events_dropped, lost>>
       \/ /\ Len(events) >= max_events
          /\ events_dropped' = events_dropped + 1
          /\ lost' = lost \cup {Head(ring).task}
          /\ UNCHANGED <<events, max_events>>
    /\ UNCHANGED <<probe, ktime, syscall_counts, elem, found, mmap_entry_map, running, calls, raced, crowded>>

\* A signal or the end of the monitoring time; what is still in the ring
\* buffer is never read.
StopMonitor ==
    /\ running
    /\ running' = FALSE
    /\ UNCHANGED <<probe, ktime, syscall_counts, elem, found, mmap_entry_map, ring, events, max_events,
                   events_dropped, historyVars>>

MonNext ==
    \/ \E t \in Tasks : EnterCall(t) \/ EnterUnreadable(t) \/ StatsLookup(t) \/ StatsUpdate(t) \/ LogEvent(t)
    \/ HandleEvent
    \/ StopMonitor

MonSpec == MonInit /\ [][MonNext]_monVars

----------------------------------------------------------------------------
\* The types, what kinds of probe there are, and that the array of captured
\* records is never written past its end.
Probes == [kind : {"none", "entry", "return", "exit"}, at : {"user", "look", "stat", "log"},
           nr : Nrs \cup {"none"}, call : Nat]
LogRecords == [task : Tasks, kind : {"entry", "return", "exit"}, nr : Nrs, call : Nat, timestamp : Nat]
ProbesTyped ==
    /\ probe \in [Tasks -> Probes]
    /\ \A t \in Tasks :
          /\ probe[t].at # "user" => probe[t].kind # "none" /\ probe[t].nr \in Nrs
          /\ probe[t].kind = "return" => probe[t].nr = "mmap"
StatsTyped ==
    /\ syscall_counts \in [Nrs -> Nat] /\ elem \in [Nrs -> Nat] /\ found \in [Tasks -> Nat]
    /\ calls \in [Nrs -> Nat] /\ raced \in BOOLEAN
LogTyped ==
    /\ ktime \in Nat /\ lost \subseteq Tasks
    /\ DOMAIN mmap_entry_map \subseteq Tasks
    /\ \A t \in DOMAIN mmap_entry_map : mmap_entry_map[t] \in Nat
    /\ ring \in Seq(LogRecords) /\ Len(ring) <= RingRecords
    /\ events \in Seq(LogRecords) /\ max_events \in Nat \ {0} /\ Len(events) <= max_events
    /\ events_dropped \in Nat
MonTypeOK == ProbesTyped /\ StatsTyped /\ LogTyped

\* Unless two first calls overlapped, what a lookup has found is still so
\* when it is used, and one thread at most is about to insert a key.
LookupsFresh ==
    \A t \in Tasks : probe[t].at = "stat" =>
        /\ found[t] = elem[probe[t].nr]
        /\ \A u \in Tasks \ {t} : probe[u].at = "stat" /\ probe[u].nr = probe[t].nr => found[t] # 0

\* The statistics lose a call only if the first two calls of a kind overlap:
\* otherwise they count every probe that has finished.
CountsAllUnlessRaced ==
    /\ MonTypeOK
    /\ raced \/ /\ LookupsFresh /\ syscall_counts = calls
                /\ \A n \in Nrs : elem[n] = 0 => calls[n] = 0

----------------------------------------------------------------------------
\* The entry records among the records s.
Entries(s) == {j \in DOMAIN s : s[j].kind = "entry"}

\* No two entry records, read or still to be read, have the same time.
StampedOnce ==
    /\ \A i \in Entries(events) : events[i].timestamp < ktime
    /\ \A i \in Entries(ring) : ring[i].timestamp < ktime
    /\ \A i, j \in Entries(events) : events[i].timestamp = events[j].timestamp => i = j
    /\ \A i, j \in Entries(ring) : ring[i].timestamp = ring[j].timestamp => i = j
    /\ \A i \in Entries(events), j \in Entries(ring) : events[i].timestamp # ring[j].timestamp

\* The entry record of call c of thread t, stamped ts, is at j in s.
EntryAt(s, j, t, c, ts) == s[j].kind = "entry" /\ s[j].task = t /\ s[j].call = c /\ s[j].timestamp = ts

\* Of a thread none of whose records was lost: the time kept for a call that
\* is under way, and the time in its return record, is the one of its entry
\* record, which comes first.
UnderWay(t) ==
    /\ t \in DOMAIN mmap_entry_map
    /\ \/ \E j \in DOMAIN events : EntryAt(events, j, t, probe[t].call, mmap_entry_map[t])
       \/ \E j \in DOMAIN ring : EntryAt(ring, j, t, probe[t].call, mmap_entry_map[t])
InEvents(r, n) == \E j \in DOMAIN events : j < n /\ EntryAt(events, j, r.task, r.call, r.timestamp)
InRing(r, n) == \E j \in DOMAIN ring : j < n /\ EntryAt(ring, j, r.task, r.call, r.timestamp)
Correlated ==
    /\ \A t \in Tasks \ lost : probe[t].kind = "return" => UnderWay(t)
    /\ \A i \in DOMAIN events :
          events[i].kind = "return" /\ events[i].task \notin lost => InEvents(events[i], i)
    /\ \A i \in DOMAIN ring : ring[i].kind = "return" /\ ring[i].task \notin lost =>
          InEvents(ring[i], Len(events) + 1) \/ InRing(ring[i], i)

\* mmap_entry_map has room for every thread.
MapHoldsAll == Cardinality(Tasks) <= MaxEntries

\* "reuse the exact timestamp from entry so both log records are correlated":
\* a captured return record of mmap has the time of the entry record of its
\* own call, and of no other call of the thread, as long as none of the
\* thread's records was lost and there were never more calls under way than
\* mmap_entry_map holds.
ReturnCarriesEntryTime ==
    /\ StampedOnce /\ (MapHoldsAll => Correlated)
    /\ \A i \in DOMAIN events :
        events[i].kind = "return" /\ events[i].task \notin lost /\ ~crowded =>
            LET same == {j \in DOMAIN events :
                           /\ events[j].kind = "entry" /\ events[j].task = events[i].task
                           /\ events[j].timestamp = events[i].timestamp}
            IN \E j \in same : j < i /\ events[j].call = events[i].call /\ same = {j}
============================================================================
