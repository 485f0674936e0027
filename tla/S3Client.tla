------------------------------ MODULE S3Client ------------------------------
(***************************************************************************)
(* tools/kvio/s3_client.py.  An application calls a RecordingS3; the SDK   *)
(* performs the call at the source endpoint; the record becomes an         *)
(* operation, which S3Backend replays at another endpoint and FakeS3 in    *)
(* memory.  At either endpoint a call may time out with the request        *)
(* applied or not, or fail with an error in the body of its answer.  As in *)
(* PosixFS one capture is one stream, so the replays follow it call by     *)
(* call.                                                                   *)
(*                                                                         *)
(* A key is a sequence of components and a listed prefix the components    *)
(* before its trailing slash.  A body is a sequence of blocks, as in       *)
(* PosixFS: <<identity, offset>>.                                          *)
(***************************************************************************)
EXTENDS PosixFS

CONSTANTS
    S3Calls,      \* the calls the application makes
    Stored,       \* keys in the source bucket before the capture, of one block
    MaxS3Calls,   \* bound on the calls
    MaxTimeouts   \* bound on the calls that time out or fail in their body, at either endpoint

----------------------------------------------------------------------------
(* An endpoint: objects by key and uploads by id, each with its parts.     *)

Answer3(store, outcome) == [store |-> store, outcome |-> outcome, body |-> <<>>, upload |-> None, count |-> 0]

Under(store, prefix) == {k \in DOMAIN store.objects : IsStrictPrefix(prefix, k)}

\* The parts of an upload, one after the other.
Assembled(parts) == FlattenSeq([i \in 1 .. Cardinality(DOMAIN parts) |->
                                   parts[SetToSortSeq(DOMAIN parts, <)[i]]])

\* A call at an endpoint, with the body and the upload id it carries.  A
\* ranged GET that begins past the end is refused.
Endpoint(store, c, body, upload) ==
    CASE c.call = "put" -> Answer3([store EXCEPT !.objects = Put(@, c.key, body)], "success")
      [] c.call = "get" ->
           IF c.key \notin DOMAIN store.objects THEN Answer3(store, "miss")
           ELSE IF "offset" \notin DOMAIN c THEN [Answer3(store, "success") EXCEPT !.body = store.objects[c.key]]
           ELSE IF c.offset >= Len(store.objects[c.key]) THEN Answer3(store, "error")
           ELSE [Answer3(store, "success") EXCEPT !.body =
                   SubSeq(store.objects[c.key], c.offset + 1, Min({c.offset + c.length, Len(store.objects[c.key])}))]
      [] c.call = "head" -> Answer3(store, IF c.key \in DOMAIN store.objects THEN "success" ELSE "miss")
      [] c.call = "list" -> [Answer3(store, "success") EXCEPT !.count = Cardinality(Under(store, c.prefix))]
      [] c.call = "delete" -> Answer3([store EXCEPT !.objects = Drop(@, {c.key})], "success")
      [] c.call = "mpu_create" ->
           [Answer3([store EXCEPT !.uploads = Put(@, store.ids + 1, <<>>), !.ids = @ + 1], "success")
              EXCEPT !.upload = store.ids + 1]
      [] upload \notin DOMAIN store.uploads -> Answer3(store, "miss")
      [] c.call = "mpu_part" -> Answer3([store EXCEPT !.uploads[upload] = Put(@, c.part, body)], "success")
      [] c.call = "mpu_complete" /\ store.uploads[upload] = <<>> -> Answer3(store, "error")
      [] c.call = "mpu_complete" ->
           Answer3([store EXCEPT !.objects = Put(@, c.key, Assembled(store.uploads[upload])),
                                 !.uploads = Drop(@, {upload})], "success")
      [] c.call = "mpu_abort" -> Answer3([store EXCEPT !.uploads = Drop(@, {upload})], "success")

\* The caller's view of answer r to a call at store: the answer, a timeout
\* before or after the request took effect, or an error inside the answer.
Fates(c) == {"answered", "lost", "late"} \cup (IF c.call = "mpu_complete" THEN {"in body"} ELSE {})
Seen(store, r, fate) ==
    CASE fate = "answered" -> r
      [] fate = "lost" -> Answer3(store, "timeout")
      [] fate = "late" -> Answer3(r.store, "timeout")
      [] fate = "in body" -> Answer3(store, "error")

----------------------------------------------------------------------------
(* Capture.                                                                *)

\* _upload: the synthetic id of an upload the endpoint named.
Uploading(ids, real) == IF real \in DOMAIN ids THEN ids ELSE Put(ids, real, Cardinality(DOMAIN ids) + 1)

\* _key: every component is numbered within its real prefix.
KeyNames(names, path) == Naming(names, path)

\* _call and the call's own record: the recorder after c with answer r.  A
\* GET is recorded once its body has been read.
Recording3(rec3, c, r) ==
    LET path == IF c.call = "list" THEN c.prefix ELSE c.key
        names == KeyNames(rec3.names, path)
        real == IF c.call = "mpu_create" THEN r.upload ELSE Get(c, "upload", None)
        ids == IF real = None THEN rec3.ids ELSE Uploading(rec3.ids, real)
        args == [f \in DOMAIN c \ {"call"} |->
                    CASE f \in {"key", "prefix"} -> Synthetic(names, c[f])
                      [] f = "upload" -> ids[c.upload]
                      [] OTHER -> c[f]]
    IN [rec |-> [names |-> names, ids |-> ids],
        event |-> [call |-> c.call, args |-> args, outcome |-> r.outcome,
                   upload |-> IF c.call = "mpu_create" /\ real # None THEN ids[real] ELSE None]]

\* normalize_s3_capture, one event: a create is given the upload id its
\* result had, or one of its own when it failed.
Operation3(e, seq) ==
    [op_id |-> seq, family |-> "s3", call |-> e.call, stream |-> "app", release_ns |-> seq,
     args |-> IF e.call = "mpu_create"
                THEN e.args @@ [upload |-> IF e.upload # None THEN e.upload ELSE -seq] ELSE e.args,
     deps |-> {}, expected |-> [outcome |-> e.outcome]]

----------------------------------------------------------------------------
(* Replay.                                                                 *)

\* The content identity of a key, and of a part of an upload to it.
KeyId(key) == <<key, 0>>
PartId(key, part) == <<key, part>>

Verified(a, body) == body = Content(KeyId(a.key), Get(a, "offset", 0), Len(body))

\* As Rebound, sending the captured upload id to the target.
ReboundNot(b, a) == Get(a, "upload", None)

\* The target's id of the captured upload.
Rebound(b, a) == b.uploads[a.upload]

UploadCalls == {"mpu_part", "mpu_complete", "mpu_abort"}

\* S3Backend.perform: b = [store, uploads, etags]; an upload is completed
\* with the parts whose tags were kept.
Kept(b, op) ==
    IF op.call # "mpu_complete" \/ Rebound(b, op.args) \notin DOMAIN b.store.uploads THEN b.store
    ELSE [b.store EXCEPT !.uploads[Rebound(b, op.args)] = [p \in {p \in DOMAIN @ : <<op.args.upload, p>> \in b.etags} |-> @[p]]]

Backend3(b, op, fate) ==
    LET a == op.args
        c == a @@ [call |-> op.call]
        bound == op.call \in UploadCalls
        r == Seen(b.store,
                  Endpoint(Kept(b, op), c,
                     CASE op.call = "put" -> Content(KeyId(a.key), 0, a.size)
                       [] op.call = "mpu_part" -> Content(PartId(a.key, a.part), 0, a.size)
                       [] OTHER -> <<>>,
                     IF bound THEN Rebound(b, a) ELSE None), fate)
        done == r.outcome = "success"
    IN CASE bound /\ a.upload \notin DOMAIN b.uploads -> Reply(b, "error")
         [] done /\ op.call = "get" /\ ~Verified(a, r.body) -> Reply(b, "error")
         [] OTHER -> Reply([store |-> r.store,
                            uploads |-> IF done /\ op.call = "mpu_create" THEN Put(b.uploads, a.upload, r.upload) ELSE b.uploads,
                            etags |-> IF done /\ op.call = "mpu_part" THEN b.etags \cup {<<a.upload, a.part>>} ELSE b.etags],
                           r.outcome)

\* FakeS3.perform: f = [objects, uploads]; it knows no invalid range.
Fake3(f, op) ==
    LET a == op.args
        body == IF "offset" \in DOMAIN a THEN SubSeq(f.objects[a.key], a.offset + 1,
                                                     Min({a.offset + a.length, Len(f.objects[a.key])}))
                ELSE f.objects[a.key]
    IN CASE op.call = "put" -> Reply([f EXCEPT !.objects = Put(@, a.key, Content(KeyId(a.key), 0, a.size))], "success")
         [] op.call = "get" -> Reply(f, IF a.key \notin DOMAIN f.objects THEN "miss"
                                        ELSE IF ~Verified(a, body) THEN "error" ELSE "success")
         [] op.call = "head" -> Reply(f, IF a.key \in DOMAIN f.objects THEN "success" ELSE "miss")
         [] op.call = "list" -> Reply(f, "success")
         [] op.call = "delete" -> Reply([f EXCEPT !.objects = Drop(@, {a.key})], "success")
         [] op.call = "mpu_create" -> Reply([f EXCEPT !.uploads = Put(@, a.upload, <<>>)], "success")
         [] a.upload \notin DOMAIN f.uploads -> Reply(f, "miss")
         [] op.call = "mpu_part" ->
              Reply([f EXCEPT !.uploads[a.upload] = Put(@, a.part, Content(PartId(a.key, a.part), 0, a.size))], "success")
         [] op.call = "mpu_complete" ->
              Reply([f EXCEPT !.objects = Put(@, a.key, Assembled(f.uploads[a.upload])),
                              !.uploads = Drop(@, {a.upload})], "success")
         [] op.call = "mpu_abort" -> Reply([f EXCEPT !.uploads = Drop(@, {a.upload})], "success")

----------------------------------------------------------------------------
VARIABLES
    bucket,    \* the source endpoint
    rec3,      \* the recorder's tables
    calls3,    \* calls made
    timeouts,  \* calls that timed out or failed in their body, at either endpoint
    backend3, fake3,
    verdict3,  \* of the last call
    cause3,    \* why the replays may have stopped agreeing
    told3      \* history: an outcome differed, which compare_outcomes reports

s3Vars == <<bucket, rec3, calls3, timeouts, backend3, fake3, verdict3, cause3, told3>>

\* No snapshot is taken: the targets begin empty.
S3Init ==
    /\ bucket = [objects |-> [k \in Stored |-> <<<<KeyId(k), 0>>>>], uploads |-> <<>>, ids |-> 0]
    /\ rec3 = [names |-> <<>>, ids |-> <<>>]
    /\ calls3 = 0 /\ timeouts = 0
    /\ backend3 = [store |-> [objects |-> <<>>, uploads |-> <<>>, ids |-> 7], uploads |-> <<>>, etags |-> {}]
    /\ fake3 = [objects |-> <<>>, uploads |-> <<>>]
    /\ verdict3 = [valid |-> TRUE, expected |-> "success", target |-> "success", fake |-> "success",
                   count |-> 0, replayed |-> 0]
    /\ cause3 = {} /\ told3 = FALSE

\* What call c answered r, and t in the replay, does that a replay cannot
\* follow: it times out in both, meets an object from before the capture,
\* reads what an upload assembled, or fails as the fake does not.
Causes3(c, r, t) ==
    LET key == IF c.call = "list" THEN c.prefix ELSE c.key
    IN (IF r.outcome = "timeout" /\ t.outcome = "timeout" THEN {"two timeouts"} ELSE {})
         \cup (IF \E k \in DOMAIN bucket.objects : (k = key \/ c.call = "list") /\ bucket.objects[k] = <<<<KeyId(k), 0>>>>
               THEN {"from before"} ELSE {})
         \cup (IF c.call = "get" /\ \E b \in ToSet(r.body) : b[1][2] # 0 THEN {"assembled"} ELSE {})
         \cup (IF r.outcome = "error" THEN {"beyond the fake"} ELSE {})

\* The application's own bytes; those of a part carry its number.
AppBody(c) == Content(<<<<>>, Get(c, "part", 0)>>, 0, Get(c, "size", 0))

\* An application completes the uploads it has given parts to, and names
\* only uploads it was given.
CallMakesSense(c) ==
    /\ c.call \in UploadCalls => c.upload \in DOMAIN rec3.ids
    /\ c.call = "mpu_complete" /\ c.upload \in DOMAIN bucket.uploads => bucket.uploads[c.upload] # <<>>

\* One call at the source and its replay, each with its fate.
S3Call(c, fate, replayed) ==
    LET r == Endpoint(bucket, c, AppBody(c), Get(c, "upload", None))
        answer == Seen(bucket, r, fate)
        recorded == Recording3(rec3, c, answer)
        op == Operation3(recorded.event, calls3 + 1)
        envelope == new_workload("api", "declared", "captured", "observed_submission", "complete", {})
        t == Backend3(backend3, op, replayed)
        f == Fake3(fake3, op)
    IN /\ calls3 < MaxS3Calls /\ CallMakesSense(c)
       /\ calls3' = calls3 + 1
       /\ timeouts' = timeouts + (IF fate = "answered" THEN 0 ELSE 1) + (IF replayed = "answered" THEN 0 ELSE 1)
       /\ timeouts' <= MaxTimeouts
       /\ bucket' = answer.store
       /\ rec3' = recorded.rec
       /\ backend3' = t.backend /\ fake3' = f.backend
       /\ cause3' = cause3 \cup Causes3(c, answer, t)
       /\ told3' = (told3 \/ t.outcome # answer.outcome)
       /\ verdict3' = [valid |-> ValidOp(envelope, 1 .. calls3, {}, op), expected |-> answer.outcome,
                       target |-> t.outcome, fake |-> f.outcome, count |-> r.count,
                       replayed |-> IF c.call = "list"
                                    THEN Cardinality(Under(backend3.store, op.args.prefix)) ELSE 0]

S3Next == \E c \in S3Calls : \E fate, replayed \in Fates(c) : S3Call(c, fate, replayed)

----------------------------------------------------------------------------
\* normalize_s3_capture, S3Backend and FakeS3: every capture is valid; and
\* until a call meets an object stored before the capture, times out both
\* when it is captured and when it is replayed, or reads an object assembled
\* from parts: an outcome of the replay differs only after a call that failed
\* at one of the endpoints; such a failure is never silent, as long as no
\* outcome differed every listing counts what the source's did, uploads
\* rebound to the target's ids; and without failures FakeS3 answers as the
\* endpoint.
S3Replays ==
    /\ verdict3.valid
    /\ cause3 \ {"beyond the fake"} = {} =>
         /\ told3 => timeouts > 0
         /\ ~told3 => verdict3.replayed = verdict3.count
    /\ cause3 = {} /\ timeouts = 0 => verdict3.fake = verdict3.target
============================================================================
