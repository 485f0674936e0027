----------------------------- MODULE FilterLog -----------------------------
(***************************************************************************)
(* filter_syscall_log.py: the pass between the monitor's raw log and the   *)
(* replayer.  It gives every openat entry the descriptor its exit record   *)
(* returned, drops the exit records, and moves a write that the ring       *)
(* buffer delivered before its openat behind that openat.                  *)
(*                                                                         *)
(* The log is produced here as the monitor produces it: threads of the     *)
(* traced processes open, write and close, and a record may overtake the   *)
(* records just before it, because each CPU reserves and submits on its    *)
(* own.  A record carries the file it really was about, which the program  *)
(* does not see: the replayed log is compared with it.                     *)
(***************************************************************************)
EXTENDS Integers, Sequences, FiniteSets, SequencesExt

CONSTANTS
    LogPids, LogFds,
    Precapture,   \* processes whose lowest descriptor was open before the capture
    Lookahead,    \* --lookahead
    Overtakes,    \* bound: the records one record may overtake
    MaxLog,       \* bound on the records of a log
    MaxOpening    \* bound on the openat calls of a process under way at once

VARIABLES
    table,    \* pid -> fd -> the file it names, 0 if it is closed, -1 if opened before the capture
    opening,  \* pid -> the files its openat calls under way will open, in entry order
    log,      \* the raw log
    opened,   \* files opened so far
    excuse    \* history: what happened that the pass does not claim to undo

filterVars == <<table, opening, log, opened, excuse>>

OPENAT_NR == 257
CLOSE_NR == 3
WRITE_NRS == {1, 18}
LowestFd == CHOOSE fd \in LogFds : \A g \in LogFds : fd <= g

FilterInit ==
    /\ table = [p \in LogPids |-> [fd \in LogFds |-> IF p \in Precapture /\ fd = LowestFd THEN -1 ELSE 0]]
    /\ opening = [p \in LogPids |-> <<>>]
    /\ log = <<>> /\ opened = 0 /\ excuse = {}

\* A record enters the log, ahead of up to Overtakes records already there.
\* Out of order within its own process, it is a case the pass handles only
\* for a write that overtakes nothing but its own openat; nor does it handle
\* a close by one thread while another is in openat.
Handled(r, passed) ==
    /\ r.nr = CLOSE_NR => opening[r.pid] = <<>>
    /\ \/ passed = {}
       \/ r.nr \in WRITE_NRS /\ \A q \in passed : q.nr = OPENAT_NR /\ q.file = r.file
Emit(r) ==
    /\ Len(log) < MaxLog
    /\ \E k \in 0..Overtakes :
        /\ k <= Len(log)
        /\ LET at == Len(log) - k
               passed == {log[i] : i \in {j \in at + 1..Len(log) : log[j].pid = r.pid}} IN
           /\ log' = SubSeq(log, 1, at) \o <<r>> \o SubSeq(log, at + 1, Len(log))
           /\ excuse' = IF Handled(r, passed) THEN excuse ELSE excuse \cup {"scrambled"}

\* A record as the monitor writes it: openat_exit has no name, an entry of
\* openat an unreadable one at worst; entries carry ret = -1.
LogRec(nr, p, fd, ret, named, file) == [nr |-> nr, pid |-> p, fd |-> fd, ret |-> ret, named |-> named, file |-> file]

OpenEntry(p) ==
    /\ Len(opening[p]) < MaxOpening
    /\ opened' = opened + 1
    /\ opening' = [opening EXCEPT ![p] = Append(@, opened + 1)]
    /\ Emit(LogRec(OPENAT_NR, p, -1, -1, TRUE, opened + 1))
    /\ UNCHANGED table

\* An openat returns, with the lowest free descriptor or with an error.
\* Exits of one process that return in another order than their entries,
\* and a number written to before the capture that is handed out again, are
\* outside what the pass claims.
OpenExit(p) ==
    \E i \in 1..Len(opening[p]) :
        LET file == opening[p][i]
            free == {fd \in LogFds : table[p][fd] = 0} IN
        \E fd \in {-1} \cup {f \in free : \A g \in free : f <= g} :
            /\ opening' = [opening EXCEPT ![p] = RemoveAt(@, i)]
            /\ table' = IF fd = -1 THEN table ELSE [table EXCEPT ![p][fd] = file]
            /\ LET overtaken == i > 1
                   recycled == \E q \in Range(log) : q.pid = p /\ q.nr \in WRITE_NRS /\ q.fd = fd /\ q.file = -1
                   exit == LogRec(OPENAT_NR, p, -1, fd, FALSE, file) IN
               /\ Len(log) < MaxLog
               /\ log' = Append(log, exit)
               /\ excuse' = excuse \cup (IF overtaken THEN {"crossed"} ELSE {}) \cup (IF recycled THEN {"recycled"} ELSE {})
            /\ UNCHANGED opened

WriteCall(p) ==
    /\ \E fd \in LogFds :
        /\ table[p][fd] # 0
        /\ Emit(LogRec(1, p, fd, -1, TRUE, table[p][fd]))
    /\ UNCHANGED <<table, opening, opened>>

\* close, and the exit record of any call, which carries no payload.
CloseCall(p) ==
    \E fd \in LogFds :
        /\ table[p][fd] # 0
        /\ table' = [table EXCEPT ![p][fd] = 0]
        /\ Emit(LogRec(CLOSE_NR, p, fd, -1, TRUE, table[p][fd]))
        /\ UNCHANGED <<opening, opened>>
GenericExit(p) ==
    /\ log # <<>> /\ Last(log).pid = p /\ Last(log).nr = CLOSE_NR /\ Last(log).fd # -1
    /\ Emit(LogRec(CLOSE_NR, p, -1, 0, TRUE, 0))
    /\ UNCHANGED <<table, opening, opened>>

FilterNext == \E p \in LogPids : OpenEntry(p) \/ OpenExit(p) \/ WriteCall(p) \/ CloseCall(p) \/ GenericExit(p)

----------------------------------------------------------------------------
(* filter_log.                                                             *)

is_generic_exit(r) == r.nr # OPENAT_NR /\ r.fd = -1
is_openat_exit(r) == r.nr = OPENAT_NR /\ ~r.named
is_openat_entry(r) == r.nr = OPENAT_NR /\ r.named
same_owner_openat_exit_for_fd(r, p, fd) == is_openat_exit(r) /\ r.pid = p /\ r.ret = fd

\* Pass 1: what the exits of a process returned, in log order.
ExitQueue(data, p) ==
    LET exits == SelectSeq(data, LAMBDA r : is_openat_exit(r) /\ r.pid = p) IN [i \in 1..Len(exits) |-> exits[i].ret]

\* As OpenatEntry, but deferred writes of any process are flushed.
PatchAnyOwner(st, r) ==
    LET queue == st.queue[r.pid]
        ret == IF queue # <<>> /\ Head(queue) >= 0 THEN Head(queue) ELSE r.ret
        mine == SelectSeq(st.deferred, LAMBDA w : w.fd = ret) IN
    [st EXCEPT !.queue[r.pid] = IF @ = <<>> THEN @ ELSE Tail(@),
               !.registered[r.pid] = IF ret >= 0 THEN @ \cup {ret} ELSE @,
               !.kept = @ \o <<[r EXCEPT !.ret = ret]>> \o mine,
               !.deferred = SelectSeq(@, LAMBDA w : w.fd # ret)]
\* An entry takes the next exit of its process and registers the descriptor;
\* the writes that wait for it follow at once.
OpenatEntry(st, r) ==
    LET queue == st.queue[r.pid]
        ret == IF queue # <<>> /\ Head(queue) >= 0 THEN Head(queue) ELSE r.ret
        Waits(w) == w.pid = r.pid /\ w.fd = ret IN
    [st EXCEPT !.queue[r.pid] = IF @ = <<>> THEN @ ELSE Tail(@),
               !.registered[r.pid] = IF ret >= 0 THEN @ \cup {ret} ELSE @,
               !.kept = @ \o <<[r EXCEPT !.ret = ret]>> \o SelectSeq(st.deferred, Waits),
               !.deferred = SelectSeq(@, LAMBDA w : ~Waits(w))]

CloseEntry(st, r) == [st EXCEPT !.registered[r.pid] = @ \ {r.fd}, !.kept = Append(@, r)]

\* A write to a descriptor that is not registered waits for the openat whose
\* exit the next Lookahead records hold, if there is one.
WriteEntry(st, r, data, idx) ==
    LET window == {i \in idx + 1..idx + Lookahead : i <= Len(data)}
        has_same_pid_openat == \E i \in window : same_owner_openat_exit_for_fd(data[i], r.pid, r.fd) IN
    IF r.fd \notin st.registered[r.pid] /\ has_same_pid_openat
    THEN [st EXCEPT !.deferred = Append(@, r)]
    ELSE [st EXCEPT !.kept = Append(@, r)]

FilterStep(data, st, idx) ==
    LET r == data[idx] IN
    CASE is_openat_exit(r) \/ is_generic_exit(r) -> st
      [] is_openat_entry(r) -> OpenatEntry(st, r)
      [] r.nr = CLOSE_NR -> CloseEntry(st, r)
      [] r.nr \in WRITE_NRS -> WriteEntry(st, r, data, idx)

\* filter_log with a pid filter: the records kept, with the writes that never
\* found their openat at the end, by process and descriptor.
filter_log(pids) ==
    LET data == SelectSeq(log, LAMBDA r : r.pid \in pids)
        start == [queue |-> [p \in pids |-> ExitQueue(data, p)], registered |-> [p \in pids |-> {}],
                  deferred |-> <<>>, kept |-> <<>>]
        done == FoldLeft(LAMBDA st, idx : FilterStep(data, st, idx), start, [i \in 1..Len(data) |-> i])
        late == SortSeq(done.deferred, LAMBDA v, w : v.pid < w.pid \/ (v.pid = w.pid /\ v.fd < w.fd)) IN
    done.kept \o late

----------------------------------------------------------------------------
\* What the writes of a filtered log reach when it is replayed: each process
\* has a table of captured descriptors, filled by the openat records.
Replayed(kept) ==
    FoldLeft(LAMBDA st, r :
                 CASE r.nr = OPENAT_NR -> IF r.ret < 0 THEN st ELSE [st EXCEPT !.names[r.pid][r.ret] = r.file]
                   [] r.nr = CLOSE_NR -> [st EXCEPT !.names[r.pid][r.fd] = 0]
                   [] OTHER -> [st EXCEPT !.reached = Append(@, <<r.file, st.names[r.pid][r.fd]>>)],
             [names |-> [p \in LogPids |-> [fd \in LogFds |-> 0]], reached |-> <<>>], kept)

Unpatched(r) == IF r.nr = OPENAT_NR THEN [r EXCEPT !.ret = -1] ELSE r

\* Every write comes at most Lookahead records before the exit of its openat.
Near ==
    \A i, j \in 1..Len(log) :
        log[i].nr \in WRITE_NRS /\ is_openat_exit(log[j]) /\ log[i].file = log[j].file => j <= i + Lookahead

\* The filtered log, whole or of one process, holds every record but the
\* exits exactly once, and when it is replayed each write reaches the file it
\* was issued to, and a write to a descriptor opened before the capture
\* reaches none.  This is claimed when the openat exits of a process come in
\* the order of its entries, nothing but a write overtook records of its own
\* process, and by no more than the lookahead, and no number written to from
\* before the capture is handed out again.
FilterKeepsMeaning ==
    \A pids \in {LogPids} \cup {{p} : p \in LogPids} :
        LET kept == filter_log(pids)
            Wanted(r) == r.pid \in pids /\ ~is_openat_exit(r) /\ ~is_generic_exit(r)
            reached == Replayed(kept).reached IN
        /\ Len(kept) = Len(SelectSeq(log, Wanted))
        /\ {Unpatched(kept[i]) : i \in 1..Len(kept)} = {r \in Range(log) : Wanted(r)}
        /\ excuse = {} /\ Near => \A i \in 1..Len(reached) : reached[i][2] = (IF reached[i][1] = -1 THEN 0 ELSE reached[i][1])

============================================================================
