----------------------------- MODULE MmapReplay -----------------------------
(***************************************************************************)
(* Replay of mmap and munmap by the concurrent workers of                  *)
(* syscall_replayer.c.  A captured mmap is two records: the entry leaves   *)
(* its arguments in the pending table, the exit takes them out, maps, and  *)
(* records captured address -> replay mapping for a later munmap.  Both    *)
(* tables are shared by all workers and locked per call, so the handlers   *)
(* of different workers interleave between the calls.                      *)
(*                                                                         *)
(* A call is a member of Calls: its worker, the hash slot of its           *)
(* (pid, timestamp) key and the address its exit record holds, None if it  *)
(* holds none.  Calls of one process may have the same address, after an   *)
(* munmap or without one (MAP_FIXED, a munmap of a part).                  *)
(* What is mapped, a file or memory, is left out: the descriptor is        *)
(* resolved by the entry record (FdMap) and used by the exit record.       *)
(***************************************************************************)
EXTENDS Integers, FiniteSets, FiniteSetsExt

CONSTANTS
    Pids,         \* captured processes, one worker each
    Calls,        \* captured mmap calls, each with an entry and an exit
    PidOf, SlotOf, AddrOf,   \* functions on Calls
    PendingSize,  \* MMAP_PENDING_MAX
    MapSize,      \* MMAP_MAP_SIZE
    None          \* an empty slot, an idle worker, no address

ASSUME MmapAssumption ==
    /\ PendingSize \in Nat \ {0} /\ MapSize \in Nat
    /\ PidOf \in [Calls -> Pids] /\ SlotOf \in [Calls -> 0 .. PendingSize - 1]

VARIABLES
    pending,   \* pending table: slot -> None or [call], the key
    table,     \* mmap_map: slot -> None or [addr, call]
    live,      \* replay mappings that exist, named by the call that made them
    stage,     \* how far the records of a call have been replayed
    busy       \* the call a worker is replaying an exit or munmap of

mmapVars == <<pending, table, live, stage, busy>>

PSlots == 0 .. PendingSize - 1
MSlots == 1 .. MapSize

MmapInit ==
    /\ pending = [i \in PSlots |-> None]
    /\ table = [i \in MSlots |-> None]
    /\ live = {}
    /\ stage = [c \in Calls |-> "new"]
    /\ busy = [p \in Pids |-> None]

----------------------------------------------------------------------------
(* The pending table: open addressing without tombstones. *)

PProbe(c, i) == (SlotOf[c] + i) % PendingSize

\* mmap_pending_set: the first slot that is free or holds the key.
SetSlot(c) ==
    LET ok == {i \in PSlots : LET s == pending[PProbe(c, i)] IN
                                s = None \/ s.call = c}
    IN  IF ok = {} THEN {} ELSE {PProbe(c, Min(ok))}

\* mmap_pending_get and mmap_pending_clear: the slot with the key, if no
\* free slot comes before it in the probe sequence.
FindSlot(c) ==
    {PProbe(c, i) : i \in {j \in PSlots :
        /\ pending[PProbe(c, j)] # None
        /\ pending[PProbe(c, j)].call = c
        /\ \A k \in 0 .. j - 1 : pending[PProbe(c, k)] # None}}

----------------------------------------------------------------------------
(* The address table: linear scan, keyed by the captured address alone. *)

\* The slots with a captured address.
Entry(a) == {i \in MSlots : table[i] # None /\ table[i].addr = a}

\* mmap_map_set: the slot of the address, else the first free one.
MapSlot(a) ==
    IF Entry(a) # {} THEN Entry(a)
    ELSE LET free == {i \in MSlots : table[i] = None}
         IN  IF free = {} THEN {} ELSE {Min(free)}

----------------------------------------------------------------------------
Idle(c) == busy[PidOf[c]] = None

\* mmap entry record: the arguments wait in the pending table; a full table
\* loses them.
MmapEntry(c) ==
    /\ stage[c] = "new" /\ Idle(c)
    /\ pending' = [i \in PSlots |-> IF i \in SetSlot(c) THEN [call |-> c] ELSE pending[i]]
    /\ stage' = [stage EXCEPT ![c] = "entered"]
    /\ UNCHANGED <<table, live, busy>>

\* mmap entry record of a file that is not in fd_map: skipped (-2).
MmapEntryRefuse(c) ==
    /\ stage[c] = "new" /\ Idle(c)
    /\ stage' = [stage EXCEPT ![c] = "refused"]
    /\ UNCHANGED <<pending, table, live, busy>>

\* mmap exit record: without pending arguments it is skipped (-2).
MmapExitSkip(c) ==
    /\ stage[c] \in {"entered", "refused"} /\ Idle(c)
    /\ FindSlot(c) = {}
    /\ stage' = [stage EXCEPT ![c] = "skipped"]
    /\ UNCHANGED <<pending, table, live, busy>>

\* mmap exit record: copy the arguments out of the table.
MmapExitGet(c) ==
    /\ stage[c] \in {"entered", "refused"} /\ Idle(c)
    /\ \E i \in FindSlot(c) :
         busy' = [busy EXCEPT ![PidOf[c]] =
                    [call |-> c, step |-> "clear", val |-> pending[i]]]
    /\ UNCHANGED <<pending, table, live, stage>>

\* Then free the slot, early; a length of zero ends it there (-2).
MmapExitClear(p) ==
    /\ busy[p] # None /\ busy[p].step = "clear"
    /\ pending' = [i \in PSlots |->
                     IF i \in FindSlot(busy[p].call) THEN None ELSE pending[i]]
    /\ \/ /\ busy' = [busy EXCEPT ![p].step = "map"]
          /\ UNCHANGED stage
       \/ /\ busy' = [busy EXCEPT ![p] = None]
          /\ stage' = [stage EXCEPT ![busy[p].call] = "skipped"]
    /\ UNCHANGED <<table, live>>

\* Then map: a descriptor that fstat rejects turns into an anonymous
\* mapping.  The kernel may refuse (-1).
MmapExitMap(p) ==
    /\ busy[p] # None /\ busy[p].step = "map"
    /\ \/ /\ live' = live \cup {busy[p].call}
          /\ busy' = [busy EXCEPT ![p].step = "set"]
          /\ UNCHANGED stage
       \/ /\ stage' = [stage EXCEPT ![busy[p].call] = "failed"]
          /\ busy' = [busy EXCEPT ![p] = None]
          /\ UNCHANGED live
    /\ UNCHANGED <<pending, table>>

\* Then record the address.  The mapping an entry of the same address named
\* is in the table no more, and stays mapped.
MmapExitSet(p) ==
    /\ busy[p] # None /\ busy[p].step = "set" /\ AddrOf[busy[p].call] # None
    /\ LET c == busy[p].call IN
       \E m \in MapSlot(AddrOf[c]) :
         /\ table' = [table EXCEPT ![m] = [addr |-> AddrOf[c], call |-> c]]
         /\ stage' = [d \in Calls |-> CASE d = c -> "mapped"
                                       [] d # c /\ table[m] # None /\ table[m].call = d -> "replaced"
                                       [] OTHER -> stage[d]]
    /\ busy' = [busy EXCEPT ![p] = None]
    /\ UNCHANGED <<pending, live>>

\* As MmapExitFull, keeping the mapping the table has no room for.
MmapExitLeak(p) ==
    /\ busy[p] # None /\ busy[p].step = "set" /\ AddrOf[busy[p].call] # None
    /\ MapSlot(AddrOf[busy[p].call]) = {}
    /\ stage' = [stage EXCEPT ![busy[p].call] = "failed"]
    /\ busy' = [busy EXCEPT ![p] = None]
    /\ UNCHANGED <<pending, table, live>>

\* A full table undoes the mapping (-1).
MmapExitFull(p) ==
    /\ busy[p] # None /\ busy[p].step = "set" /\ AddrOf[busy[p].call] # None
    /\ MapSlot(AddrOf[busy[p].call]) = {}
    /\ live' = live \ {busy[p].call}
    /\ stage' = [stage EXCEPT ![busy[p].call] = "failed"]
    /\ busy' = [busy EXCEPT ![p] = None]
    /\ UNCHANGED <<pending, table>>

\* An exit record without an address (parse_hex_addr returns 0) maps and
\* records nothing.
MmapExitNoAddr(p) ==
    /\ busy[p] # None /\ busy[p].step = "set" /\ AddrOf[busy[p].call] = None
    /\ stage' = [stage EXCEPT ![busy[p].call] = "unrecorded"]
    /\ busy' = [busy EXCEPT ![p] = None]
    /\ UNCHANGED <<pending, table, live>>

\* munmap record of the process of c at the address of c: look the address
\* up.  One without an address, or of an address that is not there, is
\* skipped (-2) and changes nothing.
MunmapGet(c) ==
    /\ Idle(c) /\ AddrOf[c] # None
    /\ \E i \in Entry(AddrOf[c]) :
         busy' = [busy EXCEPT ![PidOf[c]] =
                    [call |-> table[i].call, step |-> "unmap", val |-> AddrOf[c]]]
    /\ UNCHANGED <<pending, table, live, stage>>

\* Then unmap what the table named.  A munmap that fails, as it did when it
\* was captured, leaves mapping and entry alone.
MunmapDo(p) ==
    /\ busy[p] # None /\ busy[p].step = "unmap"
    /\ \/ /\ live' = live \ {busy[p].call}
          /\ busy' = [busy EXCEPT ![p].step = "erase"]
       \/ /\ busy' = [busy EXCEPT ![p] = None]
          /\ UNCHANGED live
    /\ UNCHANGED <<pending, table, stage>>

\* Then drop the entry of the address, whatever it names by now.
MunmapErase(p) ==
    /\ busy[p] # None /\ busy[p].step = "erase"
    /\ LET at == Entry(busy[p].val) IN
         /\ table' = [i \in MSlots |-> IF i \in at THEN None ELSE table[i]]
         /\ stage' = [d \in Calls |-> IF \E i \in at : table[i].call = d
                                       THEN "unmapped" ELSE stage[d]]
    /\ busy' = [busy EXCEPT ![p] = None]
    /\ UNCHANGED <<pending, live>>

MmapNext ==
    \/ \E c \in Calls :
         \/ MmapEntry(c) \/ MmapEntryRefuse(c) \/ MmapExitSkip(c) \/ MmapExitGet(c) \/ MunmapGet(c)
    \/ \E p \in Pids :
         \/ MmapExitClear(p) \/ MmapExitMap(p)
         \/ MmapExitSet(p) \/ MmapExitFull(p) \/ MmapExitNoAddr(p)
         \/ MunmapDo(p) \/ MunmapErase(p)

MmapSpec == MmapInit /\ [][MmapNext]_mmapVars

----------------------------------------------------------------------------
Settled(c) == stage[c] = "mapped" /\ Idle(c)

\* What the tables and a busy worker hold.
PendingEntries == [call : Calls]
TableEntries == [addr : {AddrOf[c] : c \in Calls}, call : Calls]
ExitSteps == {"clear", "map", "set"}
ExitWork == [call : Calls, step : ExitSteps, val : PendingEntries]
UnmapWork == [call : Calls, step : {"unmap", "erase"}, val : {AddrOf[c] : c \in Calls}]
Stages == {"new", "entered", "refused", "skipped", "failed", "mapped",
           "replaced", "unrecorded", "unmapped"}

ASSUME NoneAssumption ==
    None \notin PendingEntries \cup TableEntries \cup ExitWork \cup UnmapWork

\* Type invariant.
MmapTypeOK ==
    /\ pending \in [PSlots -> PendingEntries \cup {None}]
    /\ table \in [MSlots -> TableEntries \cup {None}]
    /\ busy = [p \in Pids |-> busy[p]]
    /\ \A p \in Pids : busy[p] # None =>
         IF busy[p].step \in ExitSteps THEN busy[p] \in ExitWork ELSE busy[p] \in UnmapWork
    /\ live \subseteq Calls
    /\ stage \in [Calls -> Stages]

\* The arguments an exit record replays are those of its own entry record,
\* whatever other calls share its probe sequence.
ArgumentsAreMine ==
    \A p \in Pids : busy[p] # None /\ busy[p].step \in {"clear", "map"} =>
        busy[p].val.call = busy[p].call

\* The address table and the mappings agree: no mapping is lost (one that
\* exists is in the table, about to be entered in it or erased from it, or
\* has no address or one that the process has mapped again), a captured
\* mapping that is not being worked on resolves to the mapping replayed for
\* it, and the table names mappings that exist.
TableMatchesMappings ==
    /\ \A c \in live :
         \/ \E i \in MSlots : table[i] # None /\ table[i].call = c
         \/ busy[PidOf[c]] # None /\ busy[PidOf[c]].call = c
         \/ stage[c] \in {"replaced", "unrecorded"}
    /\ \A c \in Calls : Settled(c) =>
         c \in live /\ \E i \in Entry(AddrOf[c]) : table[i].call = c
    /\ \A i \in MSlots : table[i] # None /\ Idle(table[i].call) =>
         table[i].call \in live

\* A munmap record takes away a mapping its own process made ("the fd_map /
\* mmap tables ar keyed per-PID").
UnmapsOwnMapping ==
    \A p \in Pids : busy[p] # None /\ busy[p].step \in {"unmap", "erase"} =>
        PidOf[busy[p].call] = p

(***************************************************************************)
(* The inductive invariant.                                                *)
(***************************************************************************)

\* Whether worker p is at one of these steps of a call's records.
WorksOn(p, c, steps) == busy[p] # None /\ busy[p].call = c /\ busy[p].step \in steps
InTable(c) == \E i \in MSlots : table[i] # None /\ table[i].call = c

\* A worker replays its own process's records in their order, and unmaps
\* what has the address of its record.
RecordsInTurn ==
    \A p \in Pids : busy[p] # None =>
      IF busy[p].step \in ExitSteps
      THEN PidOf[busy[p].call] = p /\ stage[busy[p].call] \in {"entered", "refused"}
      ELSE busy[p].val = AddrOf[busy[p].call]

\* The table holds the mapped calls, each at its address, one entry for each
\* address.
TableKept ==
    /\ \A i \in MSlots : table[i] # None =>
         /\ table[i].addr = AddrOf[table[i].call] /\ table[i].addr # None
         /\ stage[table[i].call] = "mapped"
    /\ \A i, j \in MSlots : table[i] # None /\ table[j] # None /\ table[i].addr = table[j].addr =>
         i = j
    /\ \A c \in Calls : stage[c] = "mapped" => InTable(c)

\* No two processes map the same address.
OneOwner == \A c, d \in Calls : AddrOf[c] = AddrOf[d] /\ AddrOf[c] # None => PidOf[c] = PidOf[d]

\* Then a mapping exists from the mmap of its exit record to the munmap of
\* its process, and leaves the table before that only for another one.
MappingsExact ==
    OneOwner =>
      /\ \A p \in Pids : busy[p] # None =>
           /\ busy[p].step = "set" => busy[p].call \in live
           /\ busy[p].step \in {"unmap", "erase"} =>
                PidOf[busy[p].call] = p /\ stage[busy[p].call] = "mapped"
           /\ busy[p].step = "erase" => busy[p].call \notin live
      /\ \A i \in MSlots : table[i] # None =>
           \/ table[i].call \in live
           \/ WorksOn(PidOf[table[i].call], table[i].call, {"erase"})
      /\ \A c \in live : \/ InTable(c) \/ WorksOn(PidOf[c], c, {"set"})
                         \/ stage[c] \in {"replaced", "unrecorded"}

MmapInv == MmapTypeOK /\ ArgumentsAreMine /\ RecordsInTurn /\ TableKept /\ MappingsExact

\* The tables of mmap are well formed, and every record acts with its own
\* arguments on a mapping of its own process, which is neither lost nor
\* named after it is gone (pending_mmap, mmap_map).
MappingsStayOwn == MmapInv /\ TableMatchesMappings /\ UnmapsOwnMapping

============================================================================
