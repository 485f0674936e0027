------------------------------ MODULE Release ------------------------------
(***************************************************************************)
(* tools/kvio/release.py: a result is validated and written with a manifest *)
(* to a new directory; verification lists the directory, reads both files  *)
(* and checks them against each other, which is also how a build ends.     *)
(* Builders may race, fail or die between two system calls (a file that    *)
(* was written and not synced stays), and the result may be replaced while *)
(* a verifier reads.  A stop of the machine is not modelled.               *)
(*                                                                         *)
(* The bytes of a file are [doc, whole]: a write cut short is not whole    *)
(* and does not decode; a digest tells all contents apart.                 *)
(***************************************************************************)
EXTENDS Integers, Sequences, FiniteSets

CONSTANTS Builders,     \* the processes that build the bundle
          Inputs,       \* builder -> the result it was given
          Replacements, \* results another process may put in the place of result.json
          MaxVerifies   \* bound on the verifications

QUESTION_METRICS == [restore_tail_latency |-> "p99-completion-latency", restore_throughput |-> "throughput",
                     same_device_interference |-> "p99-probe-latency", write_tail_latency |-> "p99-completion-latency"]
LOWER_BANDS == {"below-0.80", "0.80-to-0.90", "0.90-to-0.95"}
HIGHER_BANDS == {"1.05-to-1.10", "1.10-to-1.20", "above-1.20"}

\* The closed grammar of a result: metric, band and evidence from their
\* enumerations and agreeing with the question and with each other.
validate_result(r) ==
    /\ r.status = "draft" /\ r.offered_load = "fixed"
    /\ r.question \in DOMAIN QUESTION_METRICS
    /\ r.metric = QUESTION_METRICS[r.question]
    /\ \/ r.outcome = "candidate-lower" /\ r.ratio_band \in LOWER_BANDS
       \/ r.outcome = "candidate-higher" /\ r.ratio_band \in HIGHER_BANDS
       \/ r.outcome = "no-material-change" /\ r.ratio_band = "0.95-to-1.05"
       \/ r.outcome = "inconclusive" /\ r.ratio_band = "not-reported"
    /\ r.repeat_count_band \in {"5-to-9", "10-to-19", "20-or-more"}
    /\ r.all_disclosures

Manifest(bytes) == [size |-> bytes.whole, sha256 |-> bytes]

Reader == <<"reader">>
ASSUME ReaderAssumption == Reader \notin Builders

VARIABLES
    bundle,     \* the directory: absent or a function from the names in it to bytes
    building,   \* builder -> the step it is at, or how its build ended: "built", "failed"
    verify,     \* a verification: by a builder or a reader, its step, what it read
    passed,     \* the bundles that passed: the bytes read
    verifies,   \* verifications begun by readers
    wrote       \* history: the builders that wrote the whole of their manifest

releaseVars == <<bundle, building, verify, passed, verifies, wrote>>

Absent == [exists |-> FALSE, files |-> <<>>]
NoVerify == [by |-> Reader, at |-> "idle", result |-> <<>>, manifest |-> <<>>]

ReleaseInit ==
    /\ bundle = Absent /\ building = [b \in Builders |-> "start"]
    /\ verify = NoVerify /\ passed = {} /\ verifies = 0 /\ wrote = {}

ResultBytes(b) == [doc |-> Inputs[b], whole |-> TRUE]
PutFile(name, content) ==
    bundle' = [bundle EXCEPT !.files = [n \in DOMAIN @ \cup {name} |-> IF n = name THEN content ELSE @[n]]]
Builder(b, from, to) == building[b] = from /\ building' = [building EXCEPT ![b] = to]

\* build_candidate: validate, make the directory, which must be new, then
\* each file opened, which must be new, written and synced; then the bundle
\* is verified.
Validate(b) ==
    /\ Builder(b, "start", IF validate_result(Inputs[b]) THEN "mkdir" ELSE "failed")
    /\ UNCHANGED <<bundle, wrote>>
MkDir(b) ==
    /\ Builder(b, "mkdir", IF bundle.exists THEN "failed" ELSE "result.json")
    /\ bundle' = IF bundle.exists THEN bundle ELSE [bundle EXCEPT !.exists = TRUE]
    /\ UNCHANGED wrote
CreateFile(b, name, then) ==
    /\ IF name \in DOMAIN bundle.files THEN Builder(b, name, "failed") /\ UNCHANGED bundle
       ELSE Builder(b, name, then) /\ PutFile(name, [doc |-> <<>>, whole |-> FALSE])
    /\ UNCHANGED wrote
WriteResult(b) ==
    /\ Builder(b, "write result", "sync result")
    /\ PutFile("result.json", ResultBytes(b))
    /\ UNCHANGED wrote
WriteManifest(b) ==
    /\ Builder(b, "write manifest", "sync manifest")
    /\ PutFile("manifest.json", [doc |-> Manifest(ResultBytes(b)), whole |-> TRUE])
    /\ wrote' = wrote \cup {b}
SyncFile(b, from, then) == Builder(b, from, then) /\ UNCHANGED <<bundle, wrote>>

BuildStep(b) ==
    \/ Validate(b)
    \/ MkDir(b)
    \/ CreateFile(b, "result.json", "write result")
    \/ WriteResult(b)
    \/ SyncFile(b, "sync result", "manifest.json")
    \/ CreateFile(b, "manifest.json", "write manifest")
    \/ WriteManifest(b)
    \/ SyncFile(b, "sync manifest", "verify")

\* The builder dies or one of its calls fails, the sync of a file included:
\* what is written stays.  The build reports an incomplete candidate, or
\* nothing.
BuilderDies(b) ==
    /\ building[b] \notin {"verifying", "built", "failed"}
    /\ building' = [building EXCEPT ![b] = "failed"]
    /\ UNCHANGED <<bundle, wrote>>

\* Another process replaces result.json as a whole.
Replace(r) ==
    /\ "result.json" \in DOMAIN bundle.files /\ bundle.files["result.json"].doc # r
    /\ PutFile("result.json", [doc |-> r, whole |-> TRUE])
    /\ UNCHANGED <<building, wrote>>

----------------------------------------------------------------------------
\* verify_candidate, by a reader or at the end of a build: the inventory, the
\* two files, then the checks.  A builder is told by an exception of what
\* does not pass.
BeginVerify(who) ==
    \/ who = Reader /\ verifies < MaxVerifies /\ verifies' = verifies + 1 /\ UNCHANGED building
    \/ who \in Builders /\ Builder(who, "verify", "verifying") /\ UNCHANGED verifies
Listed(who) ==
    /\ verify.at = "idle" /\ bundle.exists /\ DOMAIN bundle.files = {"result.json", "manifest.json"}
    /\ BeginVerify(who)
    /\ verify' = [NoVerify EXCEPT !.by = who, !.at = "result"]
    /\ UNCHANGED passed
\* A reader that finds other names, or no directory, refuses at once.
Refused ==
    /\ verify.at = "idle" /\ DOMAIN bundle.files # {"result.json", "manifest.json"}
    /\ BeginVerify(Reader)
    /\ UNCHANGED <<verify, passed>>
ReadResult ==
    /\ verify.at = "result"
    /\ verify' = [verify EXCEPT !.at = "manifest", !.result = bundle.files["result.json"]]
    /\ UNCHANGED <<building, passed, verifies>>
ReadManifest ==
    /\ verify.at = "manifest"
    /\ verify' = [verify EXCEPT !.at = "decide", !.manifest = bundle.files["manifest.json"]]
    /\ UNCHANGED <<building, passed, verifies>>

\* As ValidManifest, satisfied with the right size.
ValidManifestBySize(manifest, bytes) == manifest.size = bytes.whole

\* _validate_manifest against the bytes of the result that were read.
ValidManifest(manifest, bytes) == manifest.size = bytes.whole /\ manifest.sha256 = bytes

Conforms(v) ==
    /\ v.result.whole /\ v.manifest.whole
    /\ validate_result(v.result.doc)
    /\ ValidManifest(v.manifest.doc, v.result)

Decide ==
    /\ verify.at = "decide"
    /\ passed' = IF Conforms(verify) THEN passed \cup {verify.result} ELSE passed
    /\ building' = [b \in Builders |-> IF verify.by # b THEN building[b]
                                     ELSE IF Conforms(verify) THEN "built" ELSE "failed"]
    /\ verify' = NoVerify
    /\ UNCHANGED verifies

ReleaseNext ==
    \/ (\E b \in Builders : BuildStep(b) \/ BuilderDies(b)) /\ UNCHANGED <<verify, passed, verifies>>
    \/ (\E r \in Replacements : Replace(r)) /\ UNCHANGED <<verify, passed, verifies>>
    \/ ((\E who \in Builders \cup {Reader} : Listed(who)) \/ Refused \/ ReadResult \/ ReadManifest \/ Decide)
       /\ UNCHANGED <<bundle, wrote>>

ReleaseSpec == ReleaseInit /\ [][ReleaseNext]_releaseVars

----------------------------------------------------------------------------
Steps == {"start", "mkdir", "result.json", "write result", "sync result", "manifest.json", "write manifest",
          "sync manifest", "verify", "verifying", "built", "failed"}
ReleaseTypeOK ==
    /\ bundle \in [exists : BOOLEAN, files : {bundle.files}]
    /\ DOMAIN bundle.files \subseteq {"result.json", "manifest.json"}
    /\ building \in [Builders -> Steps]
    /\ verify \in [by : Builders \cup {Reader}, at : {"idle", "result", "manifest", "decide"},
                   result : {verify.result}, manifest : {verify.manifest}]
    /\ verifies \in Nat /\ wrote \subseteq Builders

\* Who has made the directory has a valid result, and is the only one that
\* ever was inside it.
Written == {"sync manifest", "verify", "verifying", "built"}
Inside == {"result.json", "write result", "sync result", "manifest.json", "write manifest"} \cup Written
OneBuilder ==
    /\ \A b \in Builders : building[b] \in Inside \cup {"mkdir"} \/ b \in wrote => validate_result(Inputs[b])
    /\ \A b \in Builders : building[b] \in Inside \/ b \in wrote => bundle.exists
    /\ \A b, c \in Builders : (building[b] \in Inside \/ b \in wrote) /\ (building[c] \in Inside \/ c \in wrote) => b = c
    /\ \A b \in Builders : building[b] \in Written => b \in wrote

\* A whole manifest, in the directory or as it was read, was written by a
\* builder over its own result; files once listed stay.
OfABuild(bytes) == bytes.whole => \E b \in wrote : bytes.doc = Manifest(ResultBytes(b))
ManifestsAreBuilt ==
    /\ "manifest.json" \in DOMAIN bundle.files => OfABuild(bundle.files["manifest.json"])
    /\ verify.at \in {"result", "manifest"} => {"result.json", "manifest.json"} \subseteq DOMAIN bundle.files
    /\ verify.at = "decide" => OfABuild(verify.manifest)
    /\ verify.at # "idle" /\ verify.by \in Builders => building[verify.by] = "verifying"

ReleaseInv == ReleaseTypeOK /\ OneBuilder /\ ManifestsAreBuilt

\* What passes verification is the whole, valid result of the one builder
\* that wrote both files: no mixture of two builds, no build cut short before
\* its manifest, and nothing put in its place, whatever happens while it is
\* read.  It need not be a build that reported success: one that failed or
\* died after its manifest was written passes too.  And a build that reports
\* success is of the bytes that passed.
PassedAsBuilt ==
    /\ ReleaseInv
    /\ \A bytes \in passed : \E b \in Builders :
        bytes = ResultBytes(b) /\ wrote = {b} /\ validate_result(Inputs[b])
    /\ \A b \in Builders : building[b] = "built" => passed = {ResultBytes(b)}
============================================================================
