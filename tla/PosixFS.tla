------------------------------ MODULE PosixFS ------------------------------
(***************************************************************************)
(* tools/kvio/posix_fs.py.  An application calls a RecordingFS, one call   *)
(* at a time; each call is performed by the kernel on the application's    *)
(* directory, recorded, turned into an operation by                        *)
(* normalize_posix_capture, and replayed by PosixBackend on another        *)
(* directory and by FakeFS in memory.  A capture is one stream, so its     *)
(* operations replay in the recorded order and the replays can be followed *)
(* call by call.                                                           *)
(*                                                                         *)
(* A path is a sequence of names; <<>> is the root.  A file's data is the  *)
(* sequence of its blocks; the block a profile realizes for a node at an   *)
(* offset is <<node, offset>>, and Hole is a block of zeros nobody wrote.  *)
(* Identities of directories play no role and are left out.                *)
(***************************************************************************)
EXTENDS Workload3

CONSTANTS
    PosixCalls,   \* the calls the application makes: records with call and its arguments
    Files, Dirs,  \* files (path -> size) and directories there before the capture
    MaxPosixCalls \* bound on the number of calls

Hole == <<-1, 0>>
Content(node, off, len) == [i \in 1 .. len |-> <<node, off + i - 1>>]
Parent(p) == SubSeq(p, 1, Len(p) - 1)
Drop(f, keys) == [k \in DOMAIN f \ keys |-> f[k]]
Least(S) == CHOOSE n \in 1 .. Cardinality(S) + 1 : n \notin S /\ \A k \in 1 .. n - 1 : k \in S

----------------------------------------------------------------------------
(* The kernel and the file system.                                         *)

\* A result: outcome_of_oserror for a failed call, else what it returned.
Res(fs, outcome) == [fs |-> fs, outcome |-> outcome, bytes |-> 0, data |-> <<>>, fd |-> None, count |-> 0]

\* The inode and descriptor numbers in use; the lowest free one is next.
InUse(fs) == {fs.names[p] : p \in DOMAIN fs.names} \cup {fs.fds[d].ino : d \in DOMAIN fs.fds}
Children(fs, p) == {q \in DOMAIN fs.names \cup fs.dirs : q # <<>> /\ Parent(q) = p}

KOpen(fs, p, flags) ==
    LET there == p \in DOMAIN fs.names
        ino == IF there THEN fs.names[p] ELSE Least(InUse(fs))
        fd == Least(DOMAIN fs.fds)
    IN CASE p \in fs.dirs -> Res(fs, "error")
         [] there /\ {"creat", "excl"} \subseteq flags -> Res(fs, "exists")
         [] ~there /\ ("creat" \notin flags \/ Parent(p) \notin fs.dirs) -> Res(fs, "miss")
         [] OTHER ->
              [Res([fs EXCEPT !.names = Put(@, p, ino),
                              !.data = Put(@, ino, IF there /\ "trunc" \notin flags THEN @[ino] ELSE <<>>),
                              !.fds = Put(@, fd, [ino |-> ino, pos |-> 0, flags |-> flags])], "success")
                 EXCEPT !.fd = fd]

\* Overwriting from off on; a gap is filled with holes.
Overwritten(data, off, blocks) ==
    [i \in 1 .. Max({Len(data), off + Len(blocks)}) |->
        IF i > off /\ i <= off + Len(blocks) THEN blocks[i - off]
        ELSE IF i <= Len(data) THEN data[i] ELSE Hole]

Resized(data, size) == [i \in 1 .. size |-> IF i <= Len(data) THEN data[i] ELSE Hole]

KWrite(fs, fd, off, blocks) ==   \* off = None: at the descriptor's position
    IF fd \notin DOMAIN fs.fds \/ fs.fds[fd].flags \cap {"wr", "rdwr"} = {} THEN Res(fs, "error")
    ELSE LET d == fs.fds[fd]
             at == IF "append" \in d.flags THEN Len(fs.data[d.ino]) ELSE IF off = None THEN d.pos ELSE off
         IN [Res([fs EXCEPT !.data[d.ino] = Overwritten(@, at, blocks),
                            !.fds[fd].pos = IF off = None THEN at + Len(blocks) ELSE @], "success")
               EXCEPT !.bytes = Len(blocks)]

KRead(fs, fd, off, len) ==
    IF fd \notin DOMAIN fs.fds \/ fs.fds[fd].flags \cap {"rd", "rdwr"} = {} THEN Res(fs, "error")
    ELSE LET d == fs.fds[fd]
             at == IF off = None THEN d.pos ELSE off
             blocks == SubSeq(fs.data[d.ino], at + 1, Min({at + len, Len(fs.data[d.ino])}))
         IN [Res([fs EXCEPT !.fds[fd].pos = IF off = None THEN at + Len(blocks) ELSE @],
                 IF Len(blocks) = len THEN "success" ELSE "eof") EXCEPT !.bytes = Len(blocks), !.data = blocks]

KRename(fs, p, q) ==
    LET Moved(r) == IF IsPrefix(p, r) THEN q \o SubSeq(r, Len(p) + 1, Len(r)) ELSE r
        gone == {r \in DOMAIN fs.names : IsPrefix(p, r)}
        kept == Drop(fs.names, gone \cup {q})
        moved == [r \in {Moved(s) : s \in gone} |-> fs.names[CHOOSE s \in gone : Moved(s) = r]]
    IN CASE p \notin DOMAIN fs.names \cup fs.dirs \/ Parent(q) \notin fs.dirs -> Res(fs, "miss")
         [] p = q -> Res(fs, "success")
         [] IsPrefix(p, q) -> Res(fs, "error")
         [] p \in fs.dirs /\ q \in DOMAIN fs.names -> Res(fs, "error")
         [] p \in DOMAIN fs.names /\ q \in fs.dirs -> Res(fs, "error")
         [] q \in fs.dirs /\ Children(fs, q) # {} -> Res(fs, "not_empty")
         [] OTHER -> Res([fs EXCEPT !.names = kept @@ moved, !.dirs = {Moved(r) : r \in @}], "success")

\* The other calls, by path or by descriptor.
KCall(fs, c) ==
    LET p == c.path
        noFile == p \notin DOMAIN fs.names
        Failing == IF p \in fs.dirs THEN "error" ELSE "miss"
    IN CASE c.call = "stat" -> Res(fs, IF noFile /\ p \notin fs.dirs THEN "miss" ELSE "success")
         [] c.call = "readdir" -> IF p \in fs.dirs
                                  THEN [Res(fs, "success") EXCEPT !.count = Cardinality(Children(fs, p))]
                                  ELSE Res(fs, IF noFile THEN "miss" ELSE "error")
         [] c.call = "unlink" -> IF noFile THEN Res(fs, Failing)
                                 ELSE Res([fs EXCEPT !.names = Drop(@, {p})], "success")
         [] c.call = "mkdir" -> IF ~noFile \/ p \in fs.dirs THEN Res(fs, "exists")
                                ELSE IF Parent(p) \notin fs.dirs THEN Res(fs, "miss")
                                ELSE Res([fs EXCEPT !.dirs = @ \cup {p}], "success")
         [] c.call = "rmdir" -> IF p \notin fs.dirs THEN Res(fs, IF noFile THEN "miss" ELSE "error")
                                ELSE IF Children(fs, p) # {} THEN Res(fs, "not_empty")
                                ELSE Res([fs EXCEPT !.dirs = @ \ {p}], "success")
         [] c.call = "truncate" -> IF noFile THEN Res(fs, Failing)
                                   ELSE Res([fs EXCEPT !.data[fs.names[p]] = Resized(@, c.size)], "success")

KDescriptor(fs, c, fd) ==
    LET bad == fd \notin DOMAIN fs.fds
    IN CASE c.call = "close" -> IF bad THEN Res(fs, "error") ELSE Res([fs EXCEPT !.fds = Drop(@, {fd})], "success")
         [] c.call = "ftruncate" ->
              IF bad \/ fs.fds[fd].flags \cap {"wr", "rdwr"} = {} THEN Res(fs, "error")
              ELSE Res([fs EXCEPT !.data[fs.fds[fd].ino] = Resized(@, c.size)], "success")
         [] c.call \in {"fstat", "fsync", "fdatasync"} -> Res(fs, IF bad THEN "error" ELSE "success")

\* A call on fs; for the application fd is a descriptor and the blocks it
\* writes are its own.
Kernel(fs, c, fd, blocks) ==
    CASE c.call = "open" -> KOpen(fs, c.path, c.flags)
      [] c.call = "pwrite" -> KWrite(fs, fd, c.offset, blocks)
      [] c.call = "write" -> KWrite(fs, fd, None, blocks)
      [] c.call = "pread" -> KRead(fs, fd, c.offset, c.length)
      [] c.call = "read" -> KRead(fs, fd, None, c.length)
      [] c.call = "rename" -> KRename(fs, c.path, c.new_path)
      [] "path" \in DOMAIN c -> KCall(fs, c)
      [] OTHER -> KDescriptor(fs, c, fd)

----------------------------------------------------------------------------
(* Capture.                                                                *)

\* _synthetic: each name is numbered among those of its directory when it is
\* first seen; rec.names holds the number of every path seen.
Naming(names, rel) ==
    LET Next(acc, i) ==
            LET p == SubSeq(rel, 1, i)
                siblings == {q \in DOMAIN acc : Parent(q) = Parent(p)}
            IN IF p \in DOMAIN acc THEN acc ELSE Put(acc, p, Cardinality(siblings))
    IN FoldLeft(Next, names, [i \in 1 .. Len(rel) |-> i])

Synthetic(names, rel) == [i \in 1 .. Len(rel) |-> names[SubSeq(rel, 1, i)]]

\* _node: the id of an inode, the same for a number that is used again.
Noding(nodes, ino) == IF ino \in DOMAIN nodes THEN nodes ELSE Put(nodes, ino, Cardinality(DOMAIN nodes) + 1)

\* These calls record an error they meet; the others raise without a record.
RecordsErrors == {"open", "close", "pwrite", "pread", "stat", "readdir", "rename", "unlink",
                  "mkdir", "rmdir", "truncate"}

\* The recorder after call c with result r, and the event it wrote: the
\* arguments with synthetic names and handle ids.
Recording(rec, c, r, seq) ==
    LET named == IF "new_path" \in DOMAIN c THEN Naming(Naming(rec.names, c.path), c.new_path)
                 ELSE IF "path" \in DOMAIN c THEN Naming(rec.names, c.path) ELSE rec.names
        opened == c.call = "open" /\ r.outcome = "success"
        seen == IF opened THEN r.fs.names[c.path]
                ELSE IF c.call = "stat" /\ c.path \in DOMAIN r.fs.names THEN r.fs.names[c.path]
                ELSE IF c.call = "fstat" /\ r.outcome = "success" THEN r.fs.fds[c.fd].ino ELSE None
        nodes == IF seen = None THEN rec.nodes ELSE Noding(rec.nodes, seen)
        hid == IF c.call = "open" THEN (IF opened THEN <<r.fd, seq>> ELSE None)
               ELSE IF "fd" \in DOMAIN c THEN Get(rec.handles, c.fd, None) ELSE None
        args == [f \in (DOMAIN c \ {"call", "fd"}) \cup (IF "fd" \in DOMAIN c \/ c.call = "open" THEN {"handle"} ELSE {}) |->
                   CASE f = "handle" -> hid
                     [] f \in {"path", "new_path"} -> Synthetic(named, c[f])
                     [] OTHER -> c[f]]
    IN [rec |-> [names |-> named, nodes |-> nodes,
                 handles |-> IF opened THEN Put(rec.handles, r.fd, hid)
                             ELSE IF c.call = "close" THEN Drop(rec.handles, {c.fd}) ELSE rec.handles],
        written |-> r.outcome \in {"success", "eof"} \/ c.call \in RecordsErrors,
        event |-> [call |-> c.call, args |-> args, outcome |-> r.outcome,
                   node |-> IF seen = None THEN None ELSE nodes[seen]]]

\* normalize_posix_capture, one event: a failed open gets a handle of its
\* own that nothing else names (_relax_failed_opens).
Operation(e, seq) ==
    [op_id |-> seq, family |-> "posix", call |-> e.call,
     args |-> IF e.call = "open" /\ e.args.handle = None THEN [e.args EXCEPT !.handle = <<0, seq>>] ELSE e.args,
     stream |-> "app", deps |-> {}, release_ns |-> seq, expected |-> [outcome |-> e.outcome, node |-> e.node]]

----------------------------------------------------------------------------
(* Replay.                                                                 *)

\* The node whose content an opened path holds.
OpenedNode(b, op) ==
    IF op.args.path \in DOMAIN b.path_node THEN b.path_node[op.args.path]
    ELSE IF op.expected.node # None THEN op.expected.node ELSE 0   \* no captured id

\* As NodesAfter, a renamed file's node left under its old name.
NodesAfterKept(b, op) == IF op.call = "unlink" THEN Drop(b.path_node, {op.args.path}) ELSE b.path_node

\* The path table after a successful rename or unlink.
NodesAfter(b, op) ==
    LET a == op.args IN
    CASE op.call = "rename" /\ a.path \in DOMAIN b.path_node ->
           Put(Drop(b.path_node, {a.path}), a.new_path, b.path_node[a.path])
      [] op.call = "unlink" -> Drop(b.path_node, {a.path})
      [] OTHER -> b.path_node

Reply(b, outcome) == [backend |-> b, outcome |-> outcome]

\* What a read answers: the blocks must be the profile's for the node.
ReadReply(b, node, off, blocks, len) ==
    Reply(b, IF blocks # Content(node, off, Len(blocks)) THEN "error"
             ELSE IF Len(blocks) = len THEN "success" ELSE "eof")

\* PosixBackend.perform: b = [fs, handles, handle_node, path_node, pos].
BackendPerform(b, op) ==
    LET a == op.args
        c == a @@ [call |-> op.call]
        named == "handle" \in DOMAIN a /\ op.call # "open"
        fd == b.handles[a.handle]
        node == b.handle_node[a.handle]
        at == IF "offset" \in DOMAIN a THEN a.offset ELSE b.pos[fd]
        r == Kernel(b.fs, c, IF named THEN fd ELSE None,
                    IF op.call \in {"pwrite", "write"} THEN Content(node, at, a.length) ELSE <<>>)
        moved == [b EXCEPT !.fs = r.fs]
        advanced == IF op.call \in {"read", "write"} THEN [moved EXCEPT !.pos[fd] = @ + r.bytes] ELSE moved
    IN CASE named /\ a.handle \notin DOMAIN b.handles -> Reply(b, "error")
         [] r.outcome \notin {"success", "eof"} ->
              Reply(IF op.call = "close" THEN [b EXCEPT !.handles = Drop(@, {a.handle})] ELSE b, r.outcome)
         [] op.call = "open" ->
              Reply([fs |-> r.fs, handles |-> Put(b.handles, a.handle, r.fd),
                     handle_node |-> Put(b.handle_node, a.handle, OpenedNode(b, op)),
                     path_node |-> Put(b.path_node, a.path, OpenedNode(b, op)),
                     pos |-> Put(b.pos, r.fd, 0)], "success")
         [] op.call = "close" ->
              Reply([moved EXCEPT !.handles = Drop(@, {a.handle}), !.pos = Drop(@, {fd})], "success")
         [] op.call \in {"pread", "read"} -> ReadReply(advanced, node, at, r.data, a.length)
         [] OTHER -> Reply([advanced EXCEPT !.path_node = NodesAfter(b, op)], r.outcome)

\* FakeFS.perform: f = [names, dirs, data, handles, handle_node, path_node, pos]; it knows
\* neither modes nor append, and an entry of a renamed directory stays.
FakePerform(f, op) ==
    LET a == op.args
        p == a.path
        here == IF "handle" \in DOMAIN a /\ op.call # "open" THEN f.handles[a.handle] ELSE f.names[p]
        node == f.handle_node[a.handle]
        at == IF "offset" \in DOMAIN a THEN a.offset ELSE f.pos[a.handle]
        ino == IF p \in DOMAIN f.names THEN f.names[p] ELSE Cardinality(DOMAIN f.data) + 1
        blocks == SubSeq(f.data[here], at + 1, Min({at + a.length, Len(f.data[here])}))
        Advanced(n) == IF "offset" \in DOMAIN a THEN f.pos ELSE [f.pos EXCEPT ![a.handle] = @ + n]
    IN CASE op.call = "open" ->
              IF p \notin DOMAIN f.names /\ ("creat" \notin a.flags \/ Parent(p) \notin f.dirs) THEN Reply(f, "miss")
              ELSE IF p \in DOMAIN f.names /\ {"creat", "excl"} \subseteq a.flags THEN Reply(f, "exists")
              ELSE Reply([f EXCEPT !.names = Put(@, p, ino),
                            !.data = Put(@, ino, IF p \in DOMAIN f.names /\ "trunc" \notin a.flags THEN @[ino] ELSE <<>>),
                            !.handles = Put(@, a.handle, ino),
                            !.handle_node = Put(@, a.handle, OpenedNode(f, op)),
                            !.path_node = Put(@, p, OpenedNode(f, op)),
                            !.pos = Put(@, a.handle, 0)], "success")
         [] "handle" \in DOMAIN a /\ a.handle \notin DOMAIN f.handles -> Reply(f, "error")
         [] op.call = "close" -> Reply([f EXCEPT !.handles = Drop(@, {a.handle})], "success")
         [] op.call \in {"pwrite", "write"} ->
              Reply([f EXCEPT !.data[here] = Overwritten(@, at, Content(node, at, a.length)),
                              !.pos = Advanced(a.length)], "success")
         [] op.call \in {"pread", "read"} ->
              ReadReply([f EXCEPT !.pos = Advanced(Len(blocks))], node, at, blocks, a.length)
         [] op.call \in {"fstat", "fsync", "fdatasync"} -> Reply(f, "success")
         [] op.call = "stat" -> Reply(f, IF p \in DOMAIN f.names \cup f.dirs THEN "success" ELSE "miss")
         [] op.call = "readdir" -> Reply(f, IF p \in f.dirs THEN "success" ELSE "miss")
         [] op.call = "rename" ->
              IF p \in DOMAIN f.names
                THEN Reply([f EXCEPT !.names = Put(Drop(@, {p}), a.new_path, @[p]),
                                     !.path_node = NodesAfter(f, op)], "success")
              ELSE IF p \in f.dirs
                THEN Reply([f EXCEPT !.dirs = (@ \ {p}) \cup {a.new_path}, !.path_node = NodesAfter(f, op)], "success")
              ELSE Reply(f, "miss")
         [] op.call = "unlink" ->
              IF p \notin DOMAIN f.names THEN Reply(f, "miss")
              ELSE Reply([f EXCEPT !.names = Drop(@, {p}), !.path_node = NodesAfter(f, op)], "success")
         [] op.call = "mkdir" ->
              IF p \in f.dirs \cup DOMAIN f.names THEN Reply(f, "exists")
              ELSE IF Parent(p) \notin f.dirs THEN Reply(f, "miss")
              ELSE Reply([f EXCEPT !.dirs = @ \cup {p}], "success")
         [] op.call = "rmdir" ->
              IF p \notin f.dirs THEN Reply(f, "miss")
              ELSE IF Children(f, p) # {} THEN Reply(f, "not_empty")
              ELSE Reply([f EXCEPT !.dirs = @ \ {p}], "success")
         [] op.call \in {"truncate", "ftruncate"} ->
              IF op.call = "truncate" /\ p \notin DOMAIN f.names THEN Reply(f, "miss")
              ELSE Reply([f EXCEPT !.data[here] = Resized(@, a.size)], "success")

----------------------------------------------------------------------------
VARIABLES
    src,      \* the application's directory and descriptors
    rec,      \* the recorder's tables
    calls,    \* calls made
    liveIds,  \* the handles validate_workload holds for open
    target, fake,   \* PosixBackend and FakeFS
    verdict,  \* of the last operation: whether it validates and what each replay answered
    cause,    \* why the replays may have stopped agreeing: what was met so far
    moved     \* history: the names directories were given by renames

posixVars == <<src, rec, calls, liveIds, target, fake, verdict, cause, moved>>

\* _snapshot, then initialize on both targets: synthetic names, one node per
\* file, its content from the profile.
PosixInit ==
    LET files == SetToSeq(DOMAIN Files)
        inos == [p \in DOMAIN Files |-> CHOOSE i \in DOMAIN files : files[i] = p]
        names == FoldLeft(Naming, <<>>, SetToSeq(Dirs \ {<<>>}) \o files)
        Syn(p) == Synthetic(names, p)
        synFiles == [q \in {Syn(p) : p \in DOMAIN Files} |-> inos[CHOOSE p \in DOMAIN Files : Syn(p) = q]]
        contents == [i \in DOMAIN files |-> Content(i, 0, Files[files[i]])]
        synDirs == {Syn(p) : p \in Dirs}
    IN /\ src = [names |-> inos, dirs |-> Dirs, data |-> contents, fds |-> <<>>]
       /\ rec = [names |-> names, nodes |-> [i \in DOMAIN files |-> i], handles |-> <<>>]
       /\ target = [fs |-> [names |-> synFiles, dirs |-> synDirs, data |-> contents, fds |-> <<>>],
                    handles |-> <<>>, handle_node |-> <<>>, path_node |-> synFiles, pos |-> <<>>]
       /\ fake = [names |-> synFiles, dirs |-> synDirs, data |-> contents, handles |-> <<>>,
                  handle_node |-> <<>>, path_node |-> synFiles, pos |-> <<>>]
       /\ calls = 0 /\ liveIds = {} /\ cause = {} /\ moved = {}
       /\ verdict = [valid |-> TRUE, expected |-> "success", target |-> "success", fake |-> "success"]

\* What call c with result r does that a replay cannot follow: it leaves a
\* hole, writes through an append descriptor, uses a descriptor the recorder
\* does not know, names a path in a directory that has been renamed (it is
\* numbered anew there), fails for another reason than the fake knows, or
\* renames a directory or into a missing one.
Causes(c, r) ==
    LET size == IF "fd" \in DOMAIN c /\ c.fd \in DOMAIN src.fds THEN Len(src.data[src.fds[c.fd].ino])
                ELSE IF "path" \in DOMAIN c /\ c.path \in DOMAIN src.names THEN Len(src.data[src.names[c.path]]) ELSE 0
        at == IF c.call = "pwrite" THEN c.offset
              ELSE IF c.call = "write" THEN src.fds[c.fd].pos
              ELSE IF c.call \in {"truncate", "ftruncate"} THEN c.size ELSE 0
    IN (IF r.outcome = "success" /\ at > size THEN {"hole"} ELSE {})
         \cup (IF r.outcome = "success" /\ c.call \in {"write", "pwrite"} /\ "append" \in src.fds[c.fd].flags
               THEN {"append"} ELSE {})
         \cup (IF "fd" \in DOMAIN c /\ c.fd \notin DOMAIN rec.handles THEN {"unknown handle"} ELSE {})
         \cup (IF \E q \in moved, f \in {"path", "new_path"} \cap DOMAIN c : IsStrictPrefix(q, c[f]) THEN {"moved"} ELSE {})
         \cup (IF r.outcome = "error" \/ (c.call = "rename" /\ (c.path \in src.dirs \/ Parent(c.new_path) \notin src.dirs))
               THEN {"beyond the fake"} ELSE {})

\* One call of the application: performed, recorded, normalized, replayed.
PosixCall(c) ==
    LET r == Kernel(src, c, Get(c, "fd", None), [i \in 1 .. Get(c, "length", 0) |-> <<0, 0>>])
        recorded == Recording(rec, c, r, calls + 1)
        op == Operation(recorded.event, calls + 1)
        envelope == new_workload("api", "declared", "captured", "observed_submission", "complete", {})
        t == BackendPerform(target, op)
        f == FakePerform(fake, op)
    IN /\ calls < MaxPosixCalls
       /\ calls' = calls + 1
       /\ src' = r.fs
       /\ rec' = recorded.rec
       /\ cause' = cause \cup Causes(c, r)
       /\ moved' = IF c.call = "rename" /\ r.outcome = "success" /\ c.path \in src.dirs /\ c.path # c.new_path
                     THEN moved \cup {c.new_path} ELSE moved
       /\ IF recorded.written
            THEN /\ liveIds' = OpenAfter(liveIds, op)
                 /\ target' = t.backend /\ fake' = f.backend
                 /\ verdict' = [valid |-> ValidOp(envelope, 1 .. calls, liveIds, op), expected |-> r.outcome,
                                target |-> t.outcome, fake |-> f.outcome]
            ELSE UNCHANGED <<liveIds, target, fake, verdict>>

PosixNext == \E c \in PosixCalls : PosixCall(c)

----------------------------------------------------------------------------
\* normalize_posix_capture, PosixBackend and FakeFS: unless the application
\* leaves a hole, appends, uses a descriptor the recorder never opened or a
\* path in a directory it has renamed, a capture is valid and its replay on a
\* real directory gives every recorded outcome, the verified reads included,
\* through renames, reused inodes, names and descriptors and unlinked open
\* files; and FakeFS answers as the mount does while the calls stay within
\* what it models.
PosixReplays ==
    /\ cause \cap {"hole", "append", "unknown handle", "moved"} = {} =>
         verdict.valid /\ verdict.target = verdict.expected
    /\ cause = {} => verdict.fake = verdict.target
============================================================================
