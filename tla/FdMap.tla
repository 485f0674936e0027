------------------------------- MODULE FdMap -------------------------------
(***************************************************************************)
(* How one captured process's file descriptors are translated on replay:   *)
(* the fd_map hash table of syscall_replayer.c and the handlers of         *)
(* dispatch_one that use it (open, openat, close, and the descriptor       *)
(* lookup of every other system call).  A process's records are replayed   *)
(* by one worker, so the handlers of one fd_map never overlap.             *)
(*                                                                         *)
(* A bucket holds a captured descriptor and the stack of replay            *)
(* descriptors opened for it.  The kernel's table of open descriptors is   *)
(* external: open returns the lowest free number.                          *)
(***************************************************************************)
EXTENDS Integers, Sequences, FiniteSets, SequencesExt

CONSTANTS
    Buckets,    \* FD_MAP_BUCKETS, which is also MAX_FD
    StackMax,   \* the 64 places of a bucket's stack
    CapFds,     \* descriptors the captured open calls returned
    MaxOpen     \* bound on the descriptors open at replay time

ASSUME FdMapAssumption ==
    /\ Buckets \in Nat \ {0} /\ StackMax \in Nat \ {0}
    /\ CapFds \subseteq Int /\ MaxOpen \in Nat

VARIABLES
    buckets,    \* the hash table
    kernel,     \* descriptors open in the replayer
    ideal,      \* history: the stack each captured descriptor stands for
    stale       \* history: numbers that a close released although it failed

fdVars == <<buckets, kernel, ideal, stale>>

FdSlots == 0 .. Buckets - 1
NoEntry == [captured_fd |-> 0, stack |-> <<>>, valid |-> FALSE]

FdInit ==
    /\ buckets = [i \in FdSlots |-> NoEntry]
    /\ kernel = {} /\ stale = {}
    /\ ideal = [c \in CapFds |-> <<>>]

----------------------------------------------------------------------------
\* The i-th bucket that is probed for a captured descriptor.
Probe(c, i) == (c + i) % Buckets

\* The bucket a lookup ends at: the first that is unused or holds c.
Stops(c, i) ==
    LET b == buckets[Probe(c, i)] IN ~b.valid \/ b.captured_fd = c

StopsAt(c) ==
    LET Before == {i \in FdSlots : Stops(c, i) /\ \A j \in 0 .. i - 1 : ~Stops(c, j)}
    IN  {Probe(c, i) : i \in Before}

\* The bucket that holds c, if the probe sequence leads to it.
Holder(c) == {k \in StopsAt(c) : buckets[k].valid}

\* fd_map_get: the top of the stack, -1 if there is none.
fd_map_get(c) ==
    IF Holder(c) = {} THEN -1
    ELSE LET s == buckets[CHOOSE k \in Holder(c) : TRUE].stack
         IN  IF s = <<>> THEN -1 ELSE Last(s)

\* resolve_fd: descriptors outside the table's range are never looked up.
resolve_fd(c) == IF c \in 0 .. Buckets - 1 THEN fd_map_get(c) ELSE -1

\* Pushing on a full stack overwrites its top.
Push(s, r) == IF Len(s) < StackMax THEN Append(s, r) ELSE [s EXCEPT ![Len(s)] = r]

\* fd_map_set with a replay descriptor; a full table drops it.
fd_map_set(c, r) ==
    [k \in FdSlots |->
        IF k \notin StopsAt(c) THEN buckets[k]
        ELSE [captured_fd |-> c, valid |-> TRUE, stack |-> Push(buckets[k].stack, r)]]

\* A stack without its topmost occurrence of r.
Without(s, r) ==
    LET At == {i \in 1 .. Len(s) : s[i] = r /\ \A j \in i + 1 .. Len(s) : s[j] # r}
    IN  IF At = {} THEN s ELSE RemoveAt(s, CHOOSE i \in At : TRUE)

\* fd_map_clear_fd: take one replay descriptor out; an empty stack frees
\* the bucket, which ends the probe sequences that lead over it.
fd_map_clear_fd(c, r) ==
    [k \in FdSlots |->
        IF k \notin Holder(c) THEN buckets[k]
        ELSE LET s == Without(buckets[k].stack, r)
             IN  [captured_fd |-> c, stack |-> s, valid |-> s # <<>>]]

----------------------------------------------------------------------------
\* The descriptor the kernel hands out.
LowestFree == CHOOSE r \in 0 .. MaxOpen : r \notin kernel /\ 0 .. r - 1 \subseteq kernel

\* open (2): the replayed call succeeded; the captured return value, also
\* that of a call that failed in the capture, is mapped to it.
Open(c) ==
    /\ Cardinality(kernel) < MaxOpen
    /\ kernel' = kernel \cup {LowestFree}
    /\ buckets' = fd_map_set(c, LowestFree)
    /\ ideal' = [ideal EXCEPT ![c] = Push(@, LowestFree)]
    /\ UNCHANGED stale

\* openat (257), relative to the working directory (an absolute path counts
\* as that) or to a captured descriptor that is open on replay; only a call
\* that succeeded in the capture is mapped.
AT_FDCWD == -100

OpenAt(c, dirfd) ==
    /\ dirfd = AT_FDCWD \/ (dirfd >= 0 /\ fd_map_get(dirfd) >= 0)
    /\ Cardinality(kernel) < MaxOpen
    /\ kernel' = kernel \cup {LowestFree}
    /\ IF c >= 0
         THEN /\ buckets' = fd_map_set(c, LowestFree)
              /\ ideal' = [ideal EXCEPT ![c] = Push(@, LowestFree)]
         ELSE UNCHANGED <<buckets, ideal>>
    /\ UNCHANGED stale

\* As Close, without taking the descriptor out of the map.
CloseOnly(c) ==
    /\ resolve_fd(c) >= 0
    /\ kernel' = kernel \ {resolve_fd(c)}
    /\ ideal' = [ideal EXCEPT ![c] = Without(@, resolve_fd(c))]
    /\ UNCHANGED <<buckets, stale>>

\* close (3): an unmapped descriptor is skipped, a mapped one is closed and,
\* if close(2) returned 0, taken out of the map.  A close(2) that fails has
\* released the number all the same, if it was open.
Close(c) ==
    /\ resolve_fd(c) >= 0
    /\ kernel' = kernel \ {resolve_fd(c)}
    /\ \/ /\ resolve_fd(c) \in kernel
          /\ buckets' = fd_map_clear_fd(c, resolve_fd(c))
          /\ ideal' = [ideal EXCEPT ![c] = Without(@, resolve_fd(c))]
          /\ UNCHANGED stale
       \/ /\ stale' = stale \cup {resolve_fd(c)}
          /\ UNCHANGED <<buckets, ideal>>

\* Every other system call with a descriptor, and a close of one that is
\* not mapped, only looks it up.
Use(c) == UNCHANGED fdVars

FdNext ==
    \E c \in CapFds :
        \/ Open(c)
        \/ \E dirfd \in CapFds \cup {AT_FDCWD} : OpenAt(c, dirfd)
        \/ Close(c)
        \/ Use(c)

FdSpec == FdInit /\ [][FdNext]_fdVars

----------------------------------------------------------------------------
InRange == CapFds \cap (0 .. Buckets - 1)

Mapped == [k \in FdSlots |-> IF buckets[k].valid THEN buckets[k].stack ELSE <<>>]

\* Type invariant.
FdTypeOK ==
    /\ buckets \in [FdSlots -> [captured_fd : Int, stack : Seq(Nat), valid : BOOLEAN]]
    /\ kernel \subseteq 0 .. MaxOpen
    /\ \A k \in FdSlots : Len(buckets[k].stack) <= StackMax
    /\ \A k \in FdSlots : buckets[k].valid <=> buckets[k].stack # <<>>

\* A mapping names descriptors that are open, and no descriptor is named by
\* two captured ones: a record can never act on another record's file.  A
\* close(2) that failed spoils its own number and no other.
NamesOpenFilesOnce ==
    /\ \A k \in FdSlots : ToSet(Mapped[k]) \subseteq kernel \cup stale
    /\ \A k, l \in FdSlots : \A i \in DOMAIN Mapped[k], j \in DOMAIN Mapped[l] :
         Mapped[k][i] = Mapped[l][j] => <<k, i>> = <<l, j>> \/ Mapped[k][i] \in stale

\* "Map it to our replayed fd so subsequent syscalls using this fd can
\* resolve it": a captured descriptor resolves to the file it was opened for
\* last and that no successful close has closed since, and to none when
\* there is no such file.
ResolvesLatest ==
    \A c \in InRange :
        resolve_fd(c) = IF ideal[c] = <<>> THEN -1 ELSE Last(ideal[c])

\* No two captured descriptors have the same bucket.  (Among descriptors in
\* the table's range none have; the failures a captured open may return are
\* in the last buckets.)
NoCollision == \A c, d \in CapFds : Probe(c, 0) = Probe(d, 0) => c = d

\* Then a descriptor's own bucket holds its stack.
OwnBuckets ==
    NoCollision => \A c \in CapFds :
        LET b == buckets[Probe(c, 0)] IN
          b.stack = ideal[c] /\ (b.valid => b.captured_fd = c)

\* The map is well formed, names every open file once and resolves every
\* captured descriptor to its latest file (FdMap, dispatch_one).
DescriptorsResolve == FdTypeOK /\ NamesOpenFilesOnce /\ OwnBuckets /\ ResolvesLatest

============================================================================
