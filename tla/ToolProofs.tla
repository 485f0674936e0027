---------------------------- MODULE ToolProofs ----------------------------
(***************************************************************************)
(* Release bundles: for any number of builders and verifications, crashes  *)
(* and results put in the place of others included, what passes            *)
(* verification is the result of the one builder that wrote both files.    *)
(* The benchmark: for any devices, profiles, cases and signals, settings   *)
(* go back and a finished run has all its rows.                            *)
(* The watchdog of a replay of a log, for any timeout.                     *)
(***************************************************************************)
EXTENDS Release, Bench, RecordReplay,
        FiniteSetTheorems, SequenceTheorems, WellFoundedInduction, TLAPS

\* The directory after a file was put into it.
LEMMA FilePut ==
    ASSUME ReleaseTypeOK, NEW name \in {"result.json", "manifest.json"}, NEW text, PutFile(name, text)
    PROVE  /\ bundle'.exists = bundle.exists /\ bundle'.files[name] = text
           /\ DOMAIN bundle'.files = DOMAIN bundle.files \cup {name}
           /\ DOMAIN bundle'.files \subseteq {"result.json", "manifest.json"}
           /\ \A n \in DOMAIN bundle.files : n # name => bundle'.files[n] = bundle.files[n]
           /\ bundle' \in [exists : BOOLEAN, files : {bundle'.files}]
  <1>1. /\ bundle = [exists |-> bundle.exists, files |-> bundle.files] /\ bundle.exists \in BOOLEAN
        /\ DOMAIN bundle.files \subseteq {"result.json", "manifest.json"}
    BY DEF ReleaseTypeOK
  <1>2. PICK f : f = [n \in DOMAIN bundle.files \cup {name} |-> IF n = name THEN text ELSE bundle.files[n]]
    OBVIOUS
  <1>3. bundle' = [exists |-> bundle.exists, files |-> f]
    BY <1>1, <1>2 DEF PutFile
  <1> QED
    BY <1>1, <1>2, <1>3

\* A manifest of a builder stays one while builders only add to who wrote.
LEMMA StaysOfABuild ==
    ASSUME wrote \subseteq wrote', NEW m, OfABuild(m)
    PROVE  OfABuild(m)'
  BY DEF OfABuild, Manifest, ResultBytes

\* Initially there is no directory and nobody builds or verifies.
LEMMA ReleaseStart == ReleaseInit => ReleaseInv /\ PassedAsBuilt
  BY DEF ReleaseInit, ReleaseInv, PassedAsBuilt, ReleaseTypeOK, OneBuilder, ManifestsAreBuilt, Absent, NoVerify, Inside, Written, Steps

\* A builder that stays where one may be, and the manifests with it.
LEMMA BuilderKeeps ==
    ASSUME ReleaseInv, NEW b \in Builders, building[b] \notin {"verifying", "built"}, UNCHANGED verify,
           verifies' = verifies,
           \A c \in Builders : c # b => building'[c] = building[c],
           building' \in [Builders -> Steps],
           building'[b] \in Inside \cup {"mkdir"} => validate_result(Inputs[b]),
           building'[b] \in Inside => bundle'.exists /\ (building[b] \in Inside \/ ~bundle.exists),
           wrote' = wrote \/ (wrote' = wrote \cup {b} /\ building'[b] \in Inside),
           building'[b] \in Written => b \in wrote',
           bundle.exists => bundle'.exists,
           bundle' \in [exists : BOOLEAN, files : {bundle'.files}],
           DOMAIN bundle'.files \subseteq {"result.json", "manifest.json"},
           DOMAIN bundle.files \subseteq DOMAIN bundle'.files,
           "manifest.json" \in DOMAIN bundle'.files =>
               \/ "manifest.json" \in DOMAIN bundle.files
                    /\ bundle'.files["manifest.json"] = bundle.files["manifest.json"]
               \/ OfABuild(bundle.files["manifest.json"])'
    PROVE  ReleaseInv'
  <1>0. ReleaseTypeOK /\ OneBuilder /\ ManifestsAreBuilt
    BY DEF ReleaseInv
  <1>1. ReleaseTypeOK'
    BY <1>0 DEF ReleaseTypeOK
  <1>2. OneBuilder'
    <2>1. \A c \in Builders : building'[c] \in Inside \cup {"mkdir"} \/ c \in wrote' => validate_result(Inputs[c])
      BY <1>0 DEF OneBuilder
    <2>2. \A c \in Builders : building'[c] \in Inside \/ c \in wrote' => bundle'.exists
      BY <1>0 DEF OneBuilder
    <2>3. ASSUME NEW c \in Builders, NEW d \in Builders,
                 building'[c] \in Inside \/ c \in wrote', building'[d] \in Inside \/ d \in wrote'
          PROVE  c = d
      BY <1>0, <2>3 DEF OneBuilder
    <2>4. \A c \in Builders : building'[c] \in Written => c \in wrote'
      BY <1>0 DEF OneBuilder
    <2> QED
      BY <2>1, <2>2, <2>3, <2>4 DEF OneBuilder
  <1>3. "manifest.json" \in DOMAIN bundle'.files => OfABuild(bundle.files["manifest.json"])'
    <2> SUFFICES ASSUME "manifest.json" \in DOMAIN bundle.files,
                        bundle'.files["manifest.json"] = bundle.files["manifest.json"]
                 PROVE  OfABuild(bundle.files["manifest.json"])'
      OBVIOUS
    <2>1. PICK m : m = bundle.files["manifest.json"]
      OBVIOUS
    <2>2. OfABuild(m)
      BY <1>0, <2>1 DEF ManifestsAreBuilt
    <2>3. OfABuild(m)'
      BY <2>2, StaysOfABuild
    <2> QED
      BY <2>1, <2>3 DEF OfABuild
  <1>4. verify.at = "decide" => OfABuild(verify.manifest)'
    <2>1. PICK m : m = verify.manifest
      OBVIOUS
    <2>2. verify.at = "decide" => OfABuild(m)
      BY <1>0, <2>1 DEF ManifestsAreBuilt
    <2>3. OfABuild(m) => OfABuild(m)'
      BY StaysOfABuild
    <2> QED
      BY <2>1, <2>2, <2>3 DEF OfABuild
  <1>5. ManifestsAreBuilt'
    BY <1>0, <1>3, <1>4 DEF ManifestsAreBuilt
  <1> QED
    BY <1>1, <1>2, <1>5 DEF ReleaseInv

\* What has passed is of who wrote, and who wrote is one.
LEMMA PassedStays ==
    ASSUME ReleaseInv', NEW b \in Builders, building'[b] # "built", passed' = passed, wrote \subseteq wrote',
           \A c \in Builders : c # b => building'[c] = building[c], PassedAsBuilt
    PROVE  PassedAsBuilt'
  <1>1. ASSUME NEW bytes \in passed
        PROVE  \E c \in Builders : bytes = ResultBytes(c) /\ wrote' = {c} /\ validate_result(Inputs[c])
    <2>1. PICK c \in Builders : bytes = ResultBytes(c) /\ wrote = {c} /\ validate_result(Inputs[c])
      BY <1>1 DEF PassedAsBuilt
    <2>2. wrote' = {c}
      BY <2>1 DEF ReleaseInv, OneBuilder, ReleaseTypeOK
    <2> QED
      BY <2>1, <2>2
  <1>2. \A c \in Builders : building'[c] = "built" => passed' = {ResultBytes(c)}
    BY DEF PassedAsBuilt
  <1> QED
    BY <1>1, <1>2 DEF PassedAsBuilt, ResultBytes

\* build_candidate and its death keep to one builder and to whole manifests.
LEMMA BuildSteps ==
    ASSUME ReleaseInv, PassedAsBuilt, NEW b \in Builders, BuildStep(b) \/ BuilderDies(b),
           UNCHANGED <<verify, passed, verifies>>
    PROVE  ReleaseInv' /\ PassedAsBuilt'
  <1> USE DEF Inside, Written
  <1>0. /\ ReleaseTypeOK /\ OneBuilder /\ bundle \in [exists : BOOLEAN, files : {bundle.files}]
        /\ DOMAIN bundle.files \subseteq {"result.json", "manifest.json"}
        /\ building \in [Builders -> Steps]
    BY DEF ReleaseInv, ReleaseTypeOK
  <1>1. CASE Validate(b)
    <2>1. /\ building[b] = "start" /\ \A c \in Builders : c # b => building'[c] = building[c]
          /\ building'[b] = IF validate_result(Inputs[b]) THEN "mkdir" ELSE "failed"
          /\ building' \in [Builders -> Steps] /\ UNCHANGED <<bundle, wrote>>
      BY <1>0, <1>1 DEF Validate, Builder, Steps
    <2>2. ReleaseInv'
      BY <1>0, <2>1, BuilderKeeps
    <2> QED
      BY <2>1, <2>2, PassedStays
  <1>2. CASE MkDir(b)
    <2>1. validate_result(Inputs[b])
      BY <1>0, <1>2 DEF MkDir, Builder, OneBuilder
    <2>2. /\ bundle' \in [exists : BOOLEAN, files : {bundle'.files}] /\ bundle'.files = bundle.files
          /\ bundle'.exists /\ wrote' = wrote
      BY <1>0, <1>2 DEF MkDir
    <2>3. /\ building[b] = "mkdir" /\ \A c \in Builders : c # b => building'[c] = building[c]
          /\ building'[b] = IF bundle.exists THEN "failed" ELSE "result.json"
          /\ building' \in [Builders -> Steps]
      BY <1>0, <1>2 DEF MkDir, Builder, Steps
    <2>4. ReleaseInv'
      BY <1>0, <2>1, <2>2, <2>3, BuilderKeeps
    <2> QED
      BY <2>2, <2>3, <2>4, PassedStays
  <1>3. ASSUME NEW name \in {"result.json", "manifest.json"}, NEW then \in {"write result", "write manifest"},
               CreateFile(b, name, then)
        PROVE  ReleaseInv' /\ PassedAsBuilt'
    <2>1. /\ building[b] = name /\ \A c \in Builders : c # b => building'[c] = building[c]
          /\ building'[b] \in {"failed", then} /\ wrote' = wrote
          /\ building' \in [Builders -> Steps]
      BY <1>0, <1>3 DEF CreateFile, Builder, Steps
    <2>2. validate_result(Inputs[b]) /\ bundle.exists
      BY <1>0, <2>1 DEF OneBuilder
    <2>3. CASE bundle' = bundle
      <3>1. ReleaseInv'
        BY <1>0, <2>1, <2>2, <2>3, BuilderKeeps
      <3> QED
        BY <2>1, <3>1, PassedStays
    <2>4. CASE PutFile(name, [doc |-> <<>>, whole |-> FALSE])
      <3>1. /\ bundle'.exists /\ bundle'.files[name] = [doc |-> <<>>, whole |-> FALSE]
            /\ DOMAIN bundle'.files = DOMAIN bundle.files \cup {name}
            /\ DOMAIN bundle'.files \subseteq {"result.json", "manifest.json"}
            /\ \A n \in DOMAIN bundle.files : n # name => bundle'.files[n] = bundle.files[n]
            /\ bundle' \in [exists : BOOLEAN, files : {bundle'.files}]
        BY <1>0, <2>2, <2>4, FilePut
      <3>2. name = "manifest.json" => OfABuild(bundle.files["manifest.json"])'
        <4>1. PICK m : m = [doc |-> <<>>, whole |-> FALSE]
          OBVIOUS
        <4>2. ~m.whole
          BY <4>1
        <4>3. name = "manifest.json" => bundle'.files["manifest.json"] = m
          BY <3>1, <4>1
        <4> QED
          BY <4>2, <4>3 DEF OfABuild
      <3>3. ReleaseInv'
        BY <1>0, <2>1, <2>2, <3>1, <3>2, BuilderKeeps
      <3> QED
        BY <2>1, <3>3, PassedStays
    <2> QED
      BY <1>3, <2>3, <2>4 DEF CreateFile
  <1>4. CASE WriteResult(b)
    <2>1. /\ building[b] = "write result" /\ \A c \in Builders : c # b => building'[c] = building[c]
          /\ building'[b] = "sync result" /\ wrote' = wrote
          /\ building' \in [Builders -> Steps]
      BY <1>0, <1>4 DEF WriteResult, Builder, Steps
    <2>2. validate_result(Inputs[b]) /\ bundle.exists
      BY <1>0, <2>1 DEF OneBuilder
    <2>3. /\ bundle'.exists /\ DOMAIN bundle'.files = DOMAIN bundle.files \cup {"result.json"}
          /\ DOMAIN bundle'.files \subseteq {"result.json", "manifest.json"}
          /\ \A n \in DOMAIN bundle.files : n # "result.json" => bundle'.files[n] = bundle.files[n]
          /\ bundle' \in [exists : BOOLEAN, files : {bundle'.files}]
      BY <1>0, <1>4, <2>2, FilePut DEF WriteResult
    <2>4. ReleaseInv'
      BY <1>0, <2>1, <2>2, <2>3, BuilderKeeps
    <2> QED
      BY <2>1, <2>4, PassedStays
  <1>5. CASE WriteManifest(b)
    <2>1. /\ building[b] = "write manifest" /\ \A c \in Builders : c # b => building'[c] = building[c]
          /\ building'[b] = "sync manifest" /\ wrote' = wrote \cup {b}
          /\ building' \in [Builders -> Steps]
      BY <1>0, <1>5 DEF WriteManifest, Builder, Steps
    <2>2. validate_result(Inputs[b]) /\ bundle.exists
      BY <1>0, <2>1 DEF OneBuilder
    <2>3. /\ bundle'.exists /\ DOMAIN bundle'.files = DOMAIN bundle.files \cup {"manifest.json"}
          /\ bundle'.files["manifest.json"] = [doc |-> Manifest(ResultBytes(b)), whole |-> TRUE]
          /\ DOMAIN bundle'.files \subseteq {"result.json", "manifest.json"}
          /\ bundle' \in [exists : BOOLEAN, files : {bundle'.files}]
      BY <1>0, <1>5, <2>2, FilePut DEF WriteManifest
    <2>4. OfABuild(bundle.files["manifest.json"])'
      <3>1. PICK m : m = [doc |-> Manifest(ResultBytes(b)), whole |-> TRUE]
        OBVIOUS
      <3>2. m.doc = Manifest(ResultBytes(b)) /\ bundle'.files["manifest.json"] = m
        BY <2>3, <3>1
      <3> QED
        BY <2>1, <3>2 DEF OfABuild, Manifest, ResultBytes
    <2>5. ReleaseInv'
      BY <1>0, <2>1, <2>2, <2>3, <2>4, BuilderKeeps
    <2> QED
      BY <2>1, <2>5, PassedStays
  <1>6. ASSUME NEW from \in {"sync result", "sync manifest"}, NEW then \in {"manifest.json", "verify"},
               SyncFile(b, from, then), then = "verify" => from = "sync manifest"
        PROVE  ReleaseInv' /\ PassedAsBuilt'
    <2>1. /\ building[b] = from /\ \A c \in Builders : c # b => building'[c] = building[c]
          /\ building'[b] = then /\ UNCHANGED <<bundle, wrote>>
          /\ building' \in [Builders -> Steps]
      BY <1>0, <1>6 DEF SyncFile, Builder, Steps
    <2>2. validate_result(Inputs[b]) /\ bundle.exists /\ (then = "verify" => b \in wrote)
      BY <1>0, <1>6, <2>1 DEF OneBuilder
    <2>3. ReleaseInv'
      BY <1>0, <2>1, <2>2, BuilderKeeps
    <2> QED
      BY <2>1, <2>3, PassedStays
  <1>7. CASE BuilderDies(b)
    <2>1. /\ building[b] \notin {"verifying", "built"} /\ \A c \in Builders : c # b => building'[c] = building[c]
          /\ building'[b] = "failed" /\ UNCHANGED <<bundle, wrote>>
          /\ building' \in [Builders -> Steps]
      BY <1>0, <1>7 DEF BuilderDies, Steps
    <2>2. ReleaseInv'
      BY <1>0, <2>1, BuilderKeeps
    <2> QED
      BY <2>1, <2>2, PassedStays
  <1> QED
    BY <1>1, <1>2, <1>3, <1>4, <1>5, <1>6, <1>7 DEF BuildStep

\* A result put in the place of another leaves the manifest.
LEMMA ReplaceSteps ==
    ASSUME ReleaseInv, PassedAsBuilt, NEW r, Replace(r), UNCHANGED <<verify, passed, verifies>>
    PROVE  ReleaseInv' /\ PassedAsBuilt'
  <1>0. ReleaseTypeOK /\ OneBuilder /\ ManifestsAreBuilt
    BY DEF ReleaseInv
  <1>1. PICK text : PutFile("result.json", text) /\ UNCHANGED <<building, wrote>>
    BY DEF Replace
  <1>2. /\ bundle'.exists = bundle.exists /\ DOMAIN bundle'.files = DOMAIN bundle.files \cup {"result.json"}
        /\ DOMAIN bundle'.files \subseteq {"result.json", "manifest.json"}
        /\ \A n \in DOMAIN bundle.files : n # "result.json" => bundle'.files[n] = bundle.files[n]
        /\ bundle' \in [exists : BOOLEAN, files : {bundle'.files}]
    BY <1>0, <1>1, FilePut
  <1>3. ReleaseTypeOK' /\ OneBuilder'
    BY <1>0, <1>1, <1>2 DEF ReleaseTypeOK, OneBuilder
  <1>4. ManifestsAreBuilt'
    BY <1>0, <1>1, <1>2 DEF ManifestsAreBuilt, OfABuild
  <1> QED
    BY <1>1, <1>3, <1>4 DEF ReleaseInv, PassedAsBuilt

\* verify_candidate passes only what the manifest of who wrote it names, and
\* a build reports success only over it.
LEMMA VerifySteps ==
    ASSUME ReleaseInv, PassedAsBuilt, UNCHANGED <<bundle, wrote>>,
           (\E who \in Builders \cup {Reader} : Listed(who)) \/ Refused \/ ReadResult \/ ReadManifest \/ Decide
    PROVE  ReleaseInv' /\ PassedAsBuilt'
  <1>0. ReleaseTypeOK /\ OneBuilder /\ ManifestsAreBuilt
    BY DEF ReleaseInv
  <1>2. ASSUME passed' = passed, ReleaseTypeOK', ManifestsAreBuilt', building' = building
        PROVE  ReleaseInv' /\ PassedAsBuilt'
    <2>1. OneBuilder'
      BY <1>0, <1>2 DEF OneBuilder
    <2> QED
      BY <1>2, <2>1 DEF PassedAsBuilt, ReleaseInv
  <1>3. ASSUME NEW who \in Builders \cup {Reader}, Listed(who) PROVE ReleaseInv' /\ PassedAsBuilt'
    <2>1. /\ passed' = passed /\ verify'.by = who /\ verify'.at = "result"
          /\ DOMAIN bundle.files = {"result.json", "manifest.json"}
          /\ verify' \in [by : Builders \cup {Reader}, at : {"idle", "result", "manifest", "decide"},
                          result : {verify'.result}, manifest : {verify'.manifest}]
      BY <1>3 DEF Listed, NoVerify
    <2>2. CASE who = Reader /\ verifies' = verifies + 1 /\ UNCHANGED building
      <3>1. verifies' \in Nat
        <4>1. verifies \in Nat /\ verifies' = verifies + 1
          BY <1>0, <2>2 DEF ReleaseTypeOK
        <4> QED
          BY <4>1
      <3>2. ReleaseTypeOK'
        BY <1>0, <2>1, <2>2, <3>1 DEF ReleaseTypeOK
      <3>3. ManifestsAreBuilt'
        BY <1>0, <2>1, <2>2, ReaderAssumption DEF ManifestsAreBuilt, OfABuild
      <3> QED
        BY <1>2, <2>1, <2>2, <3>2, <3>3
    <2>3. CASE who \in Builders /\ Builder(who, "verify", "verifying") /\ UNCHANGED verifies
      <3>1. /\ building[who] = "verify" /\ building'[who] = "verifying" /\ building' \in [Builders -> Steps]
            /\ \A c \in Builders : c # who => building'[c] = building[c]
        BY <1>0, <2>3 DEF ReleaseTypeOK, Builder, Steps
      <3>2. ReleaseTypeOK'
        BY <1>0, <2>1, <2>3, <3>1 DEF ReleaseTypeOK
      <3>3. OneBuilder'
        BY <1>0, <3>1 DEF OneBuilder, Inside, Written
      <3>4. ManifestsAreBuilt'
        BY <1>0, <2>1, <3>1 DEF ManifestsAreBuilt, OfABuild
      <3>5. ReleaseInv'
        BY <3>2, <3>3, <3>4 DEF ReleaseInv
      <3> QED
        BY <2>1, <2>3, <3>1, <3>5, PassedStays
    <2> QED
      BY <1>3, <2>2, <2>3 DEF Listed, BeginVerify
  <1>4. CASE Refused
    <2>1. /\ UNCHANGED <<verify, passed>>
          /\ \/ verifies' = verifies + 1 /\ UNCHANGED building
             \/ Reader \in Builders
      BY <1>4 DEF Refused, BeginVerify
    <2>2. verifies' = verifies + 1 /\ UNCHANGED <<verify, passed, building>>
      BY <2>1, ReaderAssumption
    <2>3. verifies' \in Nat
      <3>1. verifies \in Nat /\ verifies' = verifies + 1
        BY <1>0, <2>2 DEF ReleaseTypeOK
      <3> QED
        BY <3>1
    <2>4. ReleaseTypeOK' /\ ManifestsAreBuilt'
      BY <1>0, <2>2, <2>3 DEF ReleaseTypeOK, ManifestsAreBuilt, OfABuild
    <2> QED
      BY <1>2, <2>2, <2>4
  <1>5. CASE ReadResult
    <2>1. ReleaseTypeOK' /\ ManifestsAreBuilt'
      BY <1>0, <1>5 DEF ReadResult, ReleaseTypeOK, ManifestsAreBuilt, OfABuild
    <2> QED
      BY <1>2, <1>5, <2>1 DEF ReadResult
  <1>6. CASE ReadManifest
    <2>1. ReleaseTypeOK' /\ ManifestsAreBuilt'
      BY <1>0, <1>6 DEF ReadManifest, ReleaseTypeOK, ManifestsAreBuilt, OfABuild
    <2> QED
      BY <1>2, <1>6, <2>1 DEF ReadManifest
  <1>7. CASE Decide
    <2>1. /\ verify.at = "decide" /\ verify' = NoVerify /\ UNCHANGED verifies
          /\ passed' = IF Conforms(verify) THEN passed \cup {verify.result} ELSE passed
          /\ \A c \in Builders : building'[c] = IF verify.by # c THEN building[c]
                                               ELSE IF Conforms(verify) THEN "built" ELSE "failed"
          /\ building' \in [Builders -> Steps]
      BY <1>0, <1>7 DEF Decide, ReleaseTypeOK, Steps
    <2>2. ReleaseTypeOK' /\ ManifestsAreBuilt'
      BY <1>0, <2>1 DEF NoVerify, ReleaseTypeOK, ManifestsAreBuilt, OfABuild
    <2>3. \A c \in Builders : verify.by = c => building[c] = "verifying"
      BY <1>0, <2>1 DEF ManifestsAreBuilt
    <2>4. OneBuilder'
      BY <1>0, <2>1, <2>3 DEF OneBuilder, Inside, Written
    <2>5. ReleaseInv'
      BY <2>2, <2>4 DEF ReleaseInv
    <2>6. CASE ~Conforms(verify)
      <3>1. \A c \in Builders : building'[c] = "built" => building[c] = "built"
        BY <2>1, <2>6
      <3> QED
        BY <2>1, <2>5, <2>6, <3>1 DEF PassedAsBuilt, ResultBytes
    <2>7. CASE Conforms(verify)
      <3>1. PICK b \in wrote : verify.manifest.doc = Manifest(ResultBytes(b))
        BY <1>0, <2>1, <2>7 DEF ManifestsAreBuilt, OfABuild, Conforms
      <3>2. verify.result = ResultBytes(b)
        BY <2>7, <3>1 DEF Conforms, ValidManifest, Manifest
      <3>3. b \in Builders /\ validate_result(Inputs[b]) /\ wrote = {b}
        BY <1>0, <3>1 DEF OneBuilder, ReleaseTypeOK
      <3>4. \A bytes \in passed : bytes = ResultBytes(b)
        BY <3>3 DEF PassedAsBuilt
      <3>5. passed' = {ResultBytes(b)}
        BY <2>1, <2>7, <3>2, <3>4
      <3>6. \A c \in Builders : building'[c] = "built" => c = b
        BY <2>4, <3>3 DEF OneBuilder, Written
      <3> QED
        BY <2>5, <3>3, <3>5, <3>6 DEF PassedAsBuilt, ResultBytes
    <2> QED
      BY <2>6, <2>7
  <1> QED
    BY <1>3, <1>4, <1>5, <1>6, <1>7

\* However many builders race, fail or die at any call or find their result
\* replaced: what verify_candidate passes is the whole valid result of the one
\* builder that wrote both files, and what a build reports as passed is its own.
THEOREM ReleasesAsBuilt == ReleaseSpec => []PassedAsBuilt
  <1>1. ReleaseInv /\ PassedAsBuilt /\ [ReleaseNext]_releaseVars => ReleaseInv' /\ PassedAsBuilt'
    <2> SUFFICES ASSUME ReleaseInv, PassedAsBuilt, [ReleaseNext]_releaseVars PROVE ReleaseInv' /\ PassedAsBuilt'
      OBVIOUS
    <2>1. CASE UNCHANGED releaseVars
      BY <2>1 DEF releaseVars, ReleaseInv, PassedAsBuilt, ReleaseTypeOK, OneBuilder, ManifestsAreBuilt, OfABuild
    <2> QED
      BY <2>1, BuildSteps, ReplaceSteps, VerifySteps DEF ReleaseNext
  <1> QED
    BY <1>1, ReleaseStart, PTL DEF ReleaseSpec

----------------------------------------------------------------------------
(* The benchmark.                                                          *)

LEMMA DivMod ==
    ASSUME NEW a \in Nat, NEW n \in Nat \ {0}
    PROVE  /\ a \div n \in Nat /\ a % n \in 0 .. n - 1
           /\ a = n * (a \div n) + (a % n)
  OBVIOUS

LEMMA ProductMonotone ==
    ASSUME NEW m \in Nat, NEW n \in Nat, NEW x \in Nat, m <= n
    PROVE  m * x <= n * x /\ m * x \in Nat /\ n * x \in Nat
  OBVIOUS

\* A share of the region times the number of clones fits in the region.
LEMMA SharesFit ==
    ASSUME NEW job \in JobRecords, NEW region \in Nat
    PROVE  PerJob(job, region) \in Nat /\ job.numjobs * PerJob(job, region) <= region
  <1> DEFINE n == job.numjobs
             share == region \div n
             p == share - (share % 4096)
  <1>1. n \in Nat \ {0}
    BY DEF JobRecords
  <1>2. share \in Nat /\ n * share <= region /\ n * share \in Nat
    <2> HIDE DEF n
    <2>1. region \div n \in Nat /\ region % n \in 0 .. n - 1 /\ region = n * (region \div n) + (region % n)
      BY <1>1, DivMod
    <2>2. n * (region \div n) \in Nat
      BY <1>1, <2>1
    <2> QED
      BY <2>1, <2>2
  <1>3. p \in Nat /\ p <= share
    <2> HIDE DEF share
    <2>1. share \div 4096 \in Nat /\ share % 4096 \in 0 .. 4095 /\ share = 4096 * (share \div 4096) + (share % 4096)
      BY <1>2
    <2> QED
      BY <1>2, <2>1
  <1>4. n * p <= n * share
    <2> HIDE DEF n, p, share
    <2>1. p * n <= share * n
      BY <1>1, <1>2, <1>3, ProductMonotone
    <2> QED
      BY <1>1, <1>2, <1>3, <2>1
  <1>5. n * p \in Nat
    BY <1>1, <1>3
  <1>6. PerJob(job, region) = p
    BY DEF PerJob
  <1> HIDE DEF n, p, share
  <1>7. n * p <= region
    BY <1>2, <1>4, <1>5
  <1> QED
    BY <1>3, <1>6, <1>7 DEF n

\* The jobs of a case are jobs a profile may have.
LEMMA JobsAreJobs ==
    ASSUME NEW case \in DOMAIN Profiles
    PROVE  profile_jobs(case) \in Seq(JobRecords)
  <1>1. Profiles[case] \in Seq(JobRecords) /\ Profiles[case][1] \in JobRecords
    BY BenchAssumption
  <1>2. CASE case = "restore-calibrated" /\ CalibratedBs # 0
    <2>1. PICK job \in JobRecords : job = Profiles[case][1]
      BY <1>1
    <2>2. CalibratedBs \in Nat \ {0}
      BY <1>2, BenchAssumption
    <2>3. [job EXCEPT !.bs = CalibratedBs] \in JobRecords
      BY <2>2 DEF JobRecords
    <2>4. profile_jobs(case) = <<[job EXCEPT !.bs = CalibratedBs]>>
      BY <1>2, <2>1 DEF profile_jobs
    <2> QED
      BY <2>3, <2>4
  <1> QED
    BY <1>1, <1>2 DEF profile_jobs

LEMMA ClonesStay ==
    ASSUME asked.region \in Regions
    PROVE  ClonesStayInRegion
  <1> SUFFICES ASSUME NEW n \in DOMAIN Cases, NEW job \in ToSet(profile_jobs(Cases[n])),
                      NEW k \in DOMAIN fio_config(job, asked.region).extents
               PROVE  LET c == fio_config(job, asked.region) IN
                      /\ c.extents[k].from + c.extents[k].size <= asked.region
                      /\ job.partition_region /\ k > 0 =>
                            c.extents[k - 1].from + c.extents[k - 1].size <= c.extents[k].from
    BY DEF ClonesStayInRegion
  <1>1. job \in JobRecords
    <2>1. Cases[n] \in DOMAIN Profiles
      BY BenchAssumption
    <2> QED
      BY <2>1, JobsAreJobs DEF ToSet
  <1>2. PICK region \in Nat : region = asked.region
    BY BenchAssumption
  <1>3. PICK p \in Nat : p = PerJob(job, region) /\ job.numjobs * p <= region
    BY <1>1, <1>2, SharesFit
  <1>4. job.numjobs \in Nat \ {0}
    BY <1>1 DEF JobRecords
  <1> DEFINE extent(j) == IF job.partition_region THEN [from |-> j * p, size |-> p] ELSE [from |-> 0, size |-> region]
  <1>5. /\ DOMAIN fio_config(job, asked.region).extents = 0 .. job.numjobs - 1
        /\ \A j \in 0 .. job.numjobs - 1 : fio_config(job, asked.region).extents[j] = extent(j)
    BY <1>2, <1>3 DEF fio_config
  <1>6. k \in 0 .. job.numjobs - 1
    BY <1>5
  <1>7. k * p + p <= region
    <2>1. (k + 1) * p <= job.numjobs * p
      BY <1>3, <1>4, <1>6, ProductMonotone
    <2>2. (k + 1) * p = k * p + p
      BY <1>3, <1>6
    <2>3. job.numjobs * p \in Nat /\ k * p \in Nat
      BY <1>3, <1>4, <1>6
    <2> QED
      BY <1>3, <2>1, <2>2, <2>3
  <1>8. extent(k).from + extent(k).size <= region
    BY <1>2, <1>7
  <1>9. ASSUME job.partition_region, k > 0
        PROVE  extent(k - 1).from + extent(k - 1).size <= extent(k).from
    <2>1. (k - 1) * p + p = k * p
      BY <1>3, <1>6, <1>9
    <2>2. k * p \in Nat
      BY <1>3, <1>6
    <2> QED
      BY <1>9, <2>1, <2>2
  <1>10. k > 0 => k - 1 \in 0 .. job.numjobs - 1
    BY <1>4, <1>6
  <1> HIDE DEF extent
  <1> QED
    BY <1>2, <1>5, <1>6, <1>8, <1>9, <1>10

----------------------------------------------------------------------------
\* The fio runs: Reps times the cases, all different if the cases are.
RunAt(n) ==
    /\ FioRuns[n].case \in DOMAIN Profiles /\ FioRuns[n].rep \in Nat
    /\ n \in Nat

LEMMA RunsAre ==
    /\ Len(FioRuns) \in Nat /\ DOMAIN FioRuns = 1 .. Len(FioRuns)
    /\ \A n \in 1 .. Len(FioRuns) : RunAt(n)
  <1> DEFINE c == Len(Cases)
             Run(n) == [case |-> Cases[((n - 1) % c) + 1], rep |-> ((n - 1) \div c) + 1]
  <1>1. c \in Nat /\ Reps \in Nat /\ Reps * c \in Nat /\ DOMAIN Cases = 1 .. c
    BY BenchAssumption
  <1>2. FioRuns = [n \in 1 .. Reps * c |-> Run(n)]
    BY DEF FioRuns
  <1>3. \A n \in 1 .. Reps * c : Run(n).case \in DOMAIN Profiles /\ Run(n).rep \in Nat
    <2> SUFFICES ASSUME NEW n \in 1 .. Reps * c
                 PROVE  Cases[((n - 1) % c) + 1] \in DOMAIN Profiles /\ ((n - 1) \div c) + 1 \in Nat
      OBVIOUS
    <2>1. c # 0
      BY <1>1
    <2>2. (n - 1) \div c \in Nat /\ (n - 1) % c \in 0 .. c - 1
      <3> HIDE DEF c
      <3>1. n - 1 \in Nat /\ c \in Nat \ {0}
        BY <1>1, <2>1
      <3> QED
        BY <3>1, DivMod
    <2>3. ((n - 1) % c) + 1 \in DOMAIN Cases
      BY <1>1, <2>2
    <2>4. Cases \in Seq(DOMAIN Profiles)
      BY BenchAssumption
    <2> HIDE DEF c
    <2>5. Cases[((n - 1) % c) + 1] \in DOMAIN Profiles
      BY <2>3, <2>4
    <2> QED
      BY <2>2, <2>5
  <1> HIDE DEF Run
  <1>4. FioRuns \in Seq({Run(n) : n \in 1 .. Reps * c}) /\ Len(FioRuns) = Reps * c
    BY <1>1, <1>2
  <1> QED
    BY <1>1, <1>2, <1>3, <1>4 DEF RunAt

LEMMA RunsDiffer ==
    ASSUME CasesDistinct, NEW m \in 1 .. Len(FioRuns), NEW n \in 1 .. Len(FioRuns),
           FioRuns[m].case = FioRuns[n].case, FioRuns[m].rep = FioRuns[n].rep
    PROVE  m = n
  <1> DEFINE c == Len(Cases)
             Run(i) == [case |-> Cases[((i - 1) % c) + 1], rep |-> ((i - 1) \div c) + 1]
  <1>1. c \in Nat /\ Reps \in Nat /\ Reps * c \in Nat /\ DOMAIN Cases = 1 .. c
    BY BenchAssumption
  <1>2. FioRuns = [i \in 1 .. Reps * c |-> Run(i)]
    BY DEF FioRuns
  <1>3. Len(FioRuns) = Reps * c
    <2> HIDE DEF Run
    <2> QED
      BY <1>1, <1>2
  <1>4. c # 0
    BY <1>1, <1>3
  <1>5. \A i \in {m, n} : /\ (i - 1) \div c \in Nat /\ (i - 1) % c \in 0 .. c - 1
                          /\ i - 1 = c * ((i - 1) \div c) + ((i - 1) % c)
    <2> SUFFICES ASSUME NEW i \in {m, n}
                 PROVE  /\ (i - 1) \div c \in Nat /\ (i - 1) % c \in 0 .. c - 1
                        /\ i - 1 = c * ((i - 1) \div c) + ((i - 1) % c)
      OBVIOUS
    <2> HIDE DEF c
    <2>1. i - 1 \in Nat /\ c \in Nat \ {0}
      BY <1>1, <1>3, <1>4
    <2> QED
      BY <2>1, DivMod
  <1>6. \A i \in {m, n} : FioRuns[i] = Run(i)
    BY <1>2, <1>3
  <1>7. /\ Cases[((m - 1) % c) + 1] = Cases[((n - 1) % c) + 1]
        /\ ((m - 1) \div c) + 1 = ((n - 1) \div c) + 1
    BY <1>6
  <1>8. (m - 1) % c = (n - 1) % c
    <2>1. ((m - 1) % c) + 1 \in DOMAIN Cases /\ ((n - 1) % c) + 1 \in DOMAIN Cases
      BY <1>1, <1>5
    <2>2. ((m - 1) % c) + 1 = ((n - 1) % c) + 1
      BY <1>7, <2>1 DEF CasesDistinct
    <2> QED
      BY <1>5, <2>2
  <1>9. (m - 1) \div c = (n - 1) \div c
    <2> HIDE DEF c
    <2>1. (m - 1) \div c \in Nat /\ (n - 1) \div c \in Nat
      BY <1>5
    <2> QED
      BY <1>7, <2>1
  <1>10. m - 1 = n - 1
    BY <1>5, <1>8, <1>9
  <1> QED
    BY <1>10, <1>1, <1>3

\* The rows of a run.
RowsOfRun(rows, n) ==
    /\ rows \in Seq(RowRecords) /\ Len(rows) \in Nat /\ DOMAIN rows = 1 .. Len(rows)
    /\ \A k \in 1 .. Len(rows) : rows[k] \in RowRecords /\ OfRun(rows[k], n)

LEMMA ExpectedRows ==
    ASSUME NEW n \in 1 .. Len(FioRuns)
    PROVE  RowsOfRun(parse_fio(FioRuns[n].case, FioRuns[n].rep), n)
  <1>1. PICK case \in DOMAIN Profiles, rep \in Nat : case = FioRuns[n].case /\ rep = FioRuns[n].rep
    BY RunsAre DEF RunAt
  <1>2. Reported[case] \in Seq([job : STRING, dir : {"read", "write"}])
    BY BenchAssumption
  <1>3. PICK c \in Nat : c = Len(Reported[case])
    BY <1>2
  <1>4. PICK row : row = [j \in 1 .. c |-> [case |-> case, job |-> Reported[case][j].job,
                                           dir |-> Reported[case][j].dir, rep |-> rep]]
    OBVIOUS
  <1>5. \A j \in 1 .. c : row[j] \in RowRecords /\ row[j].case = case /\ row[j].rep = rep
    <2> SUFFICES ASSUME NEW j \in 1 .. c
                 PROVE  row[j] \in RowRecords /\ row[j].case = case /\ row[j].rep = rep
      OBVIOUS
    <2>1. Reported[case][j].job \in STRING /\ Reported[case][j].dir \in {"read", "write"}
      <3>1. Reported[case][j] \in [job : STRING, dir : {"read", "write"}]
        BY <1>2, <1>3, ElementOfSeq
      <3> QED
        BY <3>1
    <2>2. row[j] = [case |-> case, job |-> Reported[case][j].job, dir |-> Reported[case][j].dir, rep |-> rep]
      BY <1>4
    <2> QED
      BY <2>1, <2>2 DEF RowRecords
  <1>6. row \in [1 .. c -> RowRecords]
    BY <1>4, <1>5
  <1>7. row \in Seq(RowRecords) /\ Len(row) = c
    BY <1>6
  <1>8. parse_fio(case, rep) = row
    BY <1>3, <1>4 DEF parse_fio
  <1> QED
    BY <1>1, <1>5, <1>6, <1>7, <1>8 DEF RowsOfRun, OfRun

----------------------------------------------------------------------------
\* Tuning is asked for at most two settings, which are different ones.
Asks(requested) ==
    /\ Len(requested) \in Nat /\ DOMAIN requested = 1 .. Len(requested)
    /\ \A i \in 1 .. Len(requested) : requested[i].path \in DOMAIN Before
    /\ \A i, j \in 1 .. Len(requested) : requested[i].path = requested[j].path => i = j

LEMMA RequestedAsks == Asks(Requested)
  <1> DEFINE all_jobs == FlattenSeq([n \in DOMAIN Cases |-> profile_jobs(Cases[n])])
             r == [path |-> "max_sectors_kb", value |-> MaxSectorsKb]
             s == [path |-> "nr_hugepages", value |-> hugepages_needed(all_jobs, Hugepage)]
  <1>1. Requested = (IF MaxSectorsKb = 0 THEN <<>> ELSE <<r>>) \o (IF Hugepage = 0 THEN <<>> ELSE <<s>>)
    BY DEF Requested
  <1>2. r.path = "max_sectors_kb" /\ s.path = "nr_hugepages"
    OBVIOUS
  <1> HIDE DEF r, s
  <1>3. r.path \in DOMAIN Before /\ s.path \in DOMAIN Before /\ r.path # s.path
    BY <1>2, BenchAssumption
  <1>4. Requested \in {<<>>, <<r>>, <<s>>, <<r, s>>}
    <2>1. <<>> \in Seq({r, s}) /\ <<r>> \in Seq({r, s}) /\ <<s>> \in Seq({r, s})
      OBVIOUS
    <2>2. <<>> \o <<>> = <<>> /\ <<r>> \o <<>> = <<r>> /\ <<>> \o <<s>> = <<s>>
      BY <2>1, ConcatEmptySeq
    <2>3. <<r>> \o <<s>> = <<r, s>>
      <3>1. /\ <<r>> \o <<s>> \in Seq({r, s}) /\ Len(<<r>> \o <<s>>) = 2
            /\ (<<r>> \o <<s>>)[1] = r /\ (<<r>> \o <<s>>)[2] = s
        BY <2>1, ConcatProperties
      <3>2. <<r, s>> \in Seq({r, s}) /\ Len(<<r, s>>) = 2 /\ <<r, s>>[1] = r /\ <<r, s>>[2] = s
        OBVIOUS
      <3>3. \A i \in 1 .. 2 : (<<r>> \o <<s>>)[i] = <<r, s>>[i]
        BY <3>1, <3>2
      <3> QED
        BY <3>1, <3>2, <3>3, SeqEqual
    <2> QED
      BY <1>1, <2>2, <2>3
  <1>5. Asks(<<>>) /\ Asks(<<r>>) /\ Asks(<<s>>)
    BY <1>3 DEF Asks
  <1>6. Asks(<<r, s>>)
    <2>1. Len(<<r, s>>) = 2 /\ DOMAIN <<r, s>> = 1 .. 2 /\ <<r, s>>[1] = r /\ <<r, s>>[2] = s
      OBVIOUS
    <2> QED
      BY <1>3, <2>1 DEF Asks
  <1> QED
    BY <1>4, <1>5, <1>6

----------------------------------------------------------------------------
\* The row of the next run belongs to none of the runs done.
LEMMA RowsAppend ==
    ASSUME NEW rows \in Seq(RowRecords), NEW row \in RowRecords, NEW n \in 0 .. Len(rows),
           NEW r \in Nat, r + 1 <= Len(FioRuns), OfRun(row, r + 1), RowsDoneBy(rows, n, r)
    PROVE  RowsDoneBy(Append(rows, row), n, r)
  <1>1. PICK more \in Seq(RowRecords) :
          /\ more = Append(rows, row) /\ Len(more) = Len(rows) + 1 /\ more[Len(rows) + 1] = row
          /\ \A i \in 1 .. Len(rows) : more[i] = rows[i]
    <2>1. /\ Append(rows, row) \in Seq(RowRecords) /\ Len(Append(rows, row)) = Len(rows) + 1
          /\ \A i \in 1 .. Len(rows) : Append(rows, row)[i] = rows[i]
          /\ Append(rows, row)[Len(rows) + 1] = row
      BY AppendProperties
    <2> QED
      BY <2>1
  <1>2. \A i \in 1 .. n : \E m \in 1 .. r : OfRun(more[i], m)
    BY <1>1 DEF RowsDoneBy
  <1>3. ASSUME CasesDistinct, NEW m \in 1 .. r PROVE RunWhole(more, m)
    <2> DEFINE expected == parse_fio(FioRuns[m].case, FioRuns[m].rep)
    <2>1. RunWhole(rows, m)
      BY <1>3 DEF RowsDoneBy
    <2>2. PICK before \in 0 .. Len(rows) :
            /\ \A k \in DOMAIN expected : before + k \in DOMAIN rows /\ rows[before + k] = expected[k]
            /\ \A i \in DOMAIN rows : OfRun(rows[i], m) => i - before \in DOMAIN expected
      BY <2>1 DEF RunWhole
    <2> HIDE DEF expected
    <2>3. ~OfRun(row, m)
      <3>1. m \in 1 .. Len(FioRuns) /\ r + 1 \in 1 .. Len(FioRuns) /\ m # r + 1
        BY RunsAre
      <3> QED
        BY <1>3, <3>1, RunsDiffer DEF OfRun
    <2>4. \A k \in DOMAIN expected : before + k \in DOMAIN more /\ more[before + k] = expected[k]
      BY <1>1, <2>2
    <2>5. \A i \in DOMAIN more : OfRun(more[i], m) => i - before \in DOMAIN expected
      <3> SUFFICES ASSUME NEW i \in DOMAIN more, OfRun(more[i], m) PROVE i - before \in DOMAIN expected
        OBVIOUS
      <3>1. i # Len(rows) + 1
        BY <1>1, <2>3
      <3>2. i \in DOMAIN rows /\ more[i] = rows[i]
        BY <1>1, <3>1
      <3> QED
        BY <2>2, <3>2
    <2>6. before \in 0 .. Len(more)
      BY <1>1
    <2> QED
      BY <2>4, <2>5, <2>6 DEF RunWhole, expected
  <1> QED
    BY <1>1, <1>2, <1>3 DEF RowsDoneBy

\* All rows of the next run are there: it is done.
LEMMA RowsComplete ==
    ASSUME NEW rows \in Seq(RowRecords), NEW n \in 0 .. Len(rows), NEW r \in Nat, r + 1 <= Len(FioRuns),
           NEW expected, expected = parse_fio(FioRuns[r + 1].case, FioRuns[r + 1].rep),
           Len(rows) = n + Len(expected), \A k \in 1 .. Len(expected) : rows[n + k] = expected[k],
           RowsDoneBy(rows, n, r)
    PROVE  RowsDoneBy(rows, Len(rows), r + 1)
  <1>1. r + 1 \in 1 .. Len(FioRuns)
    BY RunsAre
  <1>2. /\ Len(expected) \in Nat /\ DOMAIN expected = 1 .. Len(expected)
        /\ \A k \in 1 .. Len(expected) : OfRun(expected[k], r + 1)
    BY <1>1, ExpectedRows DEF RowsOfRun
  <1>3. \A i \in 1 .. Len(rows) : \E m \in 1 .. r + 1 : OfRun(rows[i], m)
    <2> SUFFICES ASSUME NEW i \in 1 .. Len(rows) PROVE \E m \in 1 .. r + 1 : OfRun(rows[i], m)
      OBVIOUS
    <2>1. CASE i <= n
      BY <2>1 DEF RowsDoneBy
    <2>2. CASE i > n
      <3>1. i - n \in 1 .. Len(expected) /\ n + (i - n) = i
        BY <1>2, <2>2
      <3>2. rows[i] = expected[i - n]
        BY <3>1
      <3> QED
        BY <1>1, <1>2, <3>1, <3>2
    <2> QED
      BY <2>1, <2>2
  <1>4. ASSUME CasesDistinct, NEW m \in 1 .. r + 1 PROVE RunWhole(rows, m)
    <2>1. CASE m \in 1 .. r
      BY <1>4, <2>1 DEF RowsDoneBy
    <2>2. CASE m = r + 1
      <3>1. \A k \in DOMAIN expected : n + k \in DOMAIN rows /\ rows[n + k] = expected[k]
        BY <1>2
      <3>2. \A i \in DOMAIN rows : OfRun(rows[i], m) => i - n \in DOMAIN expected
        <4> SUFFICES ASSUME NEW i \in DOMAIN rows, OfRun(rows[i], r + 1) PROVE i - n \in DOMAIN expected
          BY <2>2
        <4>1. ASSUME i <= n PROVE FALSE
          <5>1. PICK l \in 1 .. r : OfRun(rows[i], l)
            BY <4>1 DEF RowsDoneBy
          <5>2. l \in 1 .. Len(FioRuns) /\ l # r + 1
            BY <1>1, RunsAre
          <5> QED
            BY <1>1, <1>4, <5>1, <5>2, RunsDiffer DEF OfRun
        <4> QED
          BY <1>2, <4>1
      <3> QED
        BY <2>2, <3>1, <3>2 DEF RunWhole
    <2> QED
      BY <2>1, <2>2
  <1> QED
    BY <1>3, <1>4 DEF RowsDoneBy

\* compare.py groups what parse_fio reported of one run.
LEMMA WholeIsRecorded ==
    ASSUME NEW rows \in Seq(RowRecords), NEW n \in 1 .. Len(FioRuns), RunWhole(rows, n)
    PROVE  RunRecorded(rows, FioRuns[n])
  <1> DEFINE expected == parse_fio(FioRuns[n].case, FioRuns[n].rep)
  <1>1. PICK before \in 0 .. Len(rows) :
          /\ \A k \in DOMAIN expected : before + k \in DOMAIN rows /\ rows[before + k] = expected[k]
          /\ \A i \in DOMAIN rows : OfRun(rows[i], n) => i - before \in DOMAIN expected
    BY DEF RunWhole
  <1>2. \A k \in DOMAIN expected : OfRun(expected[k], n)
    BY ExpectedRows DEF RowsOfRun
  <1>3. \A k \in DOMAIN expected : \A i \in load(rows, Key(expected[k])) :
           rows[i].rep = FioRuns[n].rep => i - before \in DOMAIN expected
    <2> HIDE DEF expected
    <2> SUFFICES ASSUME NEW k \in DOMAIN expected, NEW i \in load(rows, Key(expected[k])), rows[i].rep = FioRuns[n].rep
                 PROVE  i - before \in DOMAIN expected
      OBVIOUS
    <2>1. i \in DOMAIN rows /\ rows[i].case = expected[k].case
      BY DEF load, Key
    <2> QED
      BY <1>1, <1>2, <2>1 DEF OfRun
  <1> QED
    BY <1>1, <1>3 DEF RunRecorded

\* FrontOf(s, t): t is s without its last element.
FrontOf(s, t) ==
    /\ Len(t) = Len(s) - 1 /\ Len(s) \in Nat \ {0}
    /\ DOMAIN t = 1 .. Len(t) /\ DOMAIN s = 1 .. Len(s)
    /\ \A i \in 1 .. Len(t) : t[i] = s[i]
    /\ Last(s) = s[Len(s)]

LEMMA FrontIsFront ==
    ASSUME NEW S, NEW s \in Seq(S), s # <<>>
    PROVE  Front(s) \in Seq(S) /\ FrontOf(s, Front(s))
  <1>1. Len(s) \in Nat \ {0} /\ 1 \in 1 .. Len(s) + 1 /\ Len(s) - 1 \in 0 .. Len(s) /\ DOMAIN s = 1 .. Len(s)
    OBVIOUS
  <1>2. /\ SubSeq(s, 1, Len(s) - 1) \in Seq(S) /\ Len(SubSeq(s, 1, Len(s) - 1)) = Len(s) - 1
        /\ \A i \in 1 .. Len(s) - 1 : SubSeq(s, 1, Len(s) - 1)[i] = s[i]
    BY <1>1
  <1>3. DOMAIN SubSeq(s, 1, Len(s) - 1) = 1 .. Len(s) - 1
    BY <1>1, <1>2
  <1> QED
    BY <1>1, <1>2, <1>3 DEF Front, Last, FrontOf

----------------------------------------------------------------------------
BenchInv == BenchTypeOK /\ OldsAreTrue /\ RowsAreWhole

LEMMA BenchStart == BenchInit => BenchInv
  <1> SUFFICES ASSUME BenchInit PROVE BenchInv
    OBVIOUS
  <1> USE DEF BenchInit
  <1>1. Len(FioRuns) \in Nat /\ Len(Requested) \in Nat
    BY RunsAre, RequestedAsks DEF Asks
  <1>2. BenchTypeOK
    BY <1>1, BenchAssumption DEF BenchTypeOK
  <1>3. OldsAreTrue
    BY <1>1 DEF OldsAreTrue
  <1>4. RowsAreWhole
    BY DEF RowsAreWhole
  <1> QED
    BY <1>2, <1>3, <1>4 DEF BenchInv

\* The run whose rows are written.
RowsNow ==
    /\ RowsOfRun(Rows, ran + 1)
    /\ Rows = parse_fio(FioRuns[ran + 1].case, FioRuns[ran + 1].rep)

LEMMA RowsNowAre ==
    ASSUME ran \in 0 .. Len(FioRuns), ran < Len(FioRuns)
    PROVE  RowsNow
  <1>1. ran + 1 \in 1 .. Len(FioRuns)
    BY RunsAre
  <1> QED
    BY <1>1, ExpectedRows DEF Rows, RowsNow

LEMMA BenchTypes ==
    ASSUME BenchInv, BenchNext
    PROVE  BenchTypeOK'
  <1> USE DEF BenchInv
  <1>0. Len(FioRuns) \in Nat
    BY RunsAre
  <1>1. CASE Check \/ Entered \/ Precondition \/ Fio \/ FioFails \/ Leave \/ ChangeFails \/ Restored \/ Signal
    <2>1. UNCHANGED <<asked, setting, olds, ran, structured, resultLog>>
      BY <1>1 DEF Check, Entered, Precondition, Fio, FioFails, Leave, ChangeFails, Restored, Signal
    <2>2. nth' \in Nat
      <3>1. nth' = nth \/ nth' = 0
        BY <1>1 DEF Check, Entered, Precondition, Fio, FioFails, Leave, ChangeFails, Restored, Signal
      <3> QED
        BY <3>1 DEF BenchTypeOK
    <2>3. /\ bstep' \in {"check", "enter", "write", "precondition", "fio", "rows", "restore", "exited"}
          /\ bstep' \notin {"restore", "exited"} => rc' = -1
      <3>1. CASE Check \/ Entered \/ Precondition \/ Fio
        BY <3>1 DEF BenchTypeOK, Check, Entered, Precondition, Fio
      <3>2. CASE FioFails \/ Leave \/ ChangeFails \/ Restored \/ Signal
        BY <3>2 DEF FioFails, Leave, ChangeFails, Restored, Signal, SignalTo
      <3> QED
        BY <1>1, <3>1, <3>2
    <2> QED
      BY <2>1, <2>2, <2>3 DEF BenchTypeOK
  <1>2. CASE Remember
    <2> DEFINE path == Requested[nth + 1].path
    <2>1. nth + 1 \in 1 .. Len(Requested) /\ path \in DOMAIN Before
      BY <1>2, RequestedAsks DEF Remember, BenchTypeOK, Asks
    <2>2. Len(olds) = nth /\ \A i \in DOMAIN olds : olds[i].path = Requested[i].path
      BY <1>2 DEF Remember, OldsAreTrue
    <2>3. \A i \in DOMAIN olds : olds[i].path # path
      BY <2>1, <2>2, RequestedAsks DEF Asks, BenchTypeOK
    <2>4. setting[path] = Before[path]
      BY <1>2, <2>1, <2>3 DEF Remember, OldsAreTrue
    <2>5. [path |-> path, old |-> setting[path]] \in [path : DOMAIN Before, old : {Before[p] : p \in DOMAIN Before}]
      BY <2>1, <2>4
    <2>6. olds' = Append(olds, [path |-> path, old |-> setting[path]])
      BY <1>2 DEF Remember
    <2> HIDE DEF path
    <2>7. olds' \in Seq([path : DOMAIN Before, old : {Before[p] : p \in DOMAIN Before}])
      BY <2>5, <2>6, AppendProperties DEF BenchTypeOK
    <2> QED
      BY <1>2, <2>7 DEF BenchTypeOK, Remember
  <1>3. CASE Change
    <2>1. PICK p, v : setting' = [setting EXCEPT ![p] = v]
      BY <1>3 DEF Change
    <2>2. setting' = [path \in DOMAIN Before |-> setting'[path]]
      BY <2>1 DEF BenchTypeOK
    <2> QED
      BY <1>3, <2>2 DEF BenchTypeOK, Change
  <1>4. CASE WriteRow
    <2>1. ran < Len(FioRuns)
      BY <1>4 DEF WriteRow, RowsAreWhole
    <2>2. nth + 1 \in 1 .. Len(Rows) /\ Rows[nth + 1] \in RowRecords
      BY <1>4, <2>1, RowsNowAre DEF WriteRow, RowsNow, RowsOfRun, BenchTypeOK
    <2>3. structured' \in Seq(RowRecords)
      BY <1>4, <2>2, AppendProperties DEF WriteRow, BenchTypeOK
    <2> QED
      BY <1>4, <2>3 DEF WriteRow, BenchTypeOK
  <1>5. CASE WriteLog
    <2>1. Last(structured) \in RowRecords
      BY <1>5 DEF WriteLog, BenchTypeOK, Last
    <2>2. resultLog' \in Seq(RowRecords)
      BY <1>5, <2>1, AppendProperties DEF WriteLog, BenchTypeOK
    <2> QED
      BY <1>5, <2>2 DEF WriteLog, BenchTypeOK
  <1>6. CASE RowsDone
    <2>1. ran < Len(FioRuns)
      BY <1>6 DEF RowsDone, RowsAreWhole
    <2> QED
      BY <1>0, <1>6, <2>1 DEF RowsDone, BenchTypeOK
  <1>7. CASE Restore
    <2>1. olds' \in Seq([path : DOMAIN Before, old : {Before[p] : p \in DOMAIN Before}])
      BY <1>7, FrontIsFront DEF Restore, BenchTypeOK
    <2>2. setting' = [path \in DOMAIN Before |-> setting'[path]]
      BY <1>7 DEF Restore, BenchTypeOK
    <2> QED
      BY <1>7, <2>1, <2>2 DEF Restore, BenchTypeOK
  <1> QED
    BY <1>1, <1>2, <1>3, <1>4, <1>5, <1>6, <1>7 DEF BenchNext

\* The settings: remembered before they are changed, put back last first.
LEMMA BenchOlds ==
    ASSUME BenchInv, BenchNext, BenchTypeOK'
    PROVE  OldsAreTrue'
  <1>0. /\ BenchTypeOK /\ OldsAreTrue /\ Len(Requested) \in Nat
        /\ Len(olds) \in Nat /\ DOMAIN olds = 1 .. Len(olds)
    BY RequestedAsks DEF BenchInv, BenchTypeOK, Asks
  <1>1. CASE Check \/ Entered \/ Precondition \/ Fio \/ FioFails \/ Leave \/ ChangeFails \/ Restored \/ Signal
    <2>1. UNCHANGED <<setting, olds>>
      BY <1>1 DEF Check, Entered, Precondition, Fio, FioFails, Leave, ChangeFails, Restored, Signal
    <2>2. /\ bstep' = "check" => olds = <<>> /\ nth' = 0
          /\ bstep' = "enter" => Len(olds) = nth'
          /\ bstep' = "write" => Len(olds) = nth' + 1
      <3>1. CASE Check
        BY <1>0, <3>1 DEF Check, OldsAreTrue
      <3>2. CASE Entered \/ Precondition \/ Fio \/ FioFails \/ Leave \/ ChangeFails \/ Restored \/ Signal
        BY <3>2 DEF Entered, Precondition, Fio, FioFails, Leave, ChangeFails, Restored, Signal, SignalTo
      <3> QED
        BY <1>1, <3>1, <3>2
    <2>3. /\ bstep' \notin {"restore", "exited"} => unrestored' = {}
          /\ unrestored' = {} => unrestored = {} /\ (bstep' = "exited" => olds = <<>>)
      <3>1. CASE Check \/ Entered \/ Precondition \/ Fio \/ FioFails \/ Leave \/ ChangeFails \/ Restored
        BY <1>0, <3>1 DEF Check, Entered, Precondition, Fio, FioFails, Leave, ChangeFails, Restored, OldsAreTrue
      <3>2. CASE Signal
        <4>1. bstep \in {"enter", "write", "precondition", "fio", "rows", "restore"}
          BY <1>0, <3>2 DEF Signal, BenchTypeOK
        <4>2. bstep \in {"enter", "write", "restore"} => unrestored' # {}
          BY <3>2 DEF Signal
        <4>3. bstep' \in {"restore", "exited"} /\ (unrestored' = {} => unrestored = {})
          BY <3>2 DEF Signal, SignalTo
        <4>4. bstep \in {"precondition", "fio", "rows"} => bstep' = "restore"
          BY <3>2 DEF Signal, SignalTo
        <4> QED
          BY <4>1, <4>2, <4>3, <4>4
      <3> QED
        BY <1>1, <3>1, <3>2
    <2> QED
      BY <1>0, <2>1, <2>2, <2>3 DEF OldsAreTrue
  <1>2. CASE Remember
    <2> DEFINE path == Requested[nth + 1].path
               r == [path |-> path, old |-> setting[path]]
    <2>1. nth + 1 \in 1 .. Len(Requested) /\ path \in DOMAIN Before /\ nth \in Nat
      BY <1>0, <1>2, RequestedAsks DEF Remember, BenchTypeOK, Asks
    <2>2. Len(olds) = nth /\ (\A i \in DOMAIN olds : olds[i].path = Requested[i].path /\ olds[i].old = Before[olds[i].path])
      BY <1>0, <1>2 DEF Remember, OldsAreTrue
    <2>3. \A i \in DOMAIN olds : olds[i].path # path
      BY <1>0, <2>1, <2>2, RequestedAsks DEF Asks
    <2>4. unrestored = {} /\ (\A p \in DOMAIN Before : (\A i \in DOMAIN olds : olds[i].path # p) => setting[p] = Before[p])
      BY <1>0, <1>2 DEF Remember, OldsAreTrue
    <2>5. r.path = path /\ r.old = Before[path]
      BY <2>1, <2>3, <2>4
    <2>6. olds' = Append(olds, r) /\ bstep' = "write" /\ UNCHANGED <<nth, setting, unrestored>>
      BY <1>2 DEF Remember
    <2> HIDE DEF path, r
    <2>7. /\ Len(olds') = nth + 1 /\ DOMAIN olds' = 1 .. nth + 1 /\ olds'[nth + 1] = r
          /\ \A i \in 1 .. nth : olds'[i] = olds[i]
      <3>1. olds \in Seq(Range(olds) \cup {r})
        BY <1>0 DEF BenchTypeOK, Range
      <3> QED
        BY <1>0, <2>1, <2>2, <2>6, <3>1
    <2>8. \A i \in DOMAIN olds' : olds'[i].path = Requested[i].path /\ olds'[i].old = Before[olds'[i].path]
      BY <1>0, <2>1, <2>2, <2>5, <2>7 DEF path
    <2>9. \A p \in DOMAIN Before : (\A i \in DOMAIN olds' : olds'[i].path # p) => setting[p] = Before[p]
      BY <1>0, <2>1, <2>2, <2>4, <2>7
    <2> QED
      BY <2>1, <2>4, <2>6, <2>7, <2>8, <2>9 DEF OldsAreTrue
  <1>3. CASE Change
    <2>1. PICK v : setting' = [setting EXCEPT ![Requested[nth + 1].path] = v]
      BY <1>3 DEF Change
    <2>2. UNCHANGED <<olds, unrestored>> /\ nth' = nth + 1 /\ bstep' = "enter" /\ bstep = "write"
      BY <1>3 DEF Change
    <2>3. Len(olds) = nth + 1 /\ nth \in Nat /\ nth + 1 \in DOMAIN olds
      BY <1>0, <2>2 DEF OldsAreTrue, BenchTypeOK
    <2>4. olds[nth + 1].path = Requested[nth + 1].path
      BY <1>0, <2>3 DEF OldsAreTrue
    <2>5. \A p \in DOMAIN Before : p # Requested[nth + 1].path => setting'[p] = setting[p]
      BY <1>0, <2>1 DEF BenchTypeOK
    <2> QED
      BY <1>0, <2>2, <2>3, <2>4, <2>5 DEF OldsAreTrue
  <1>4. CASE WriteRow \/ WriteLog \/ RowsDone
    <2>1. UNCHANGED <<setting, olds, unrestored>> /\ bstep = "rows" /\ bstep' \in {"rows", "fio"}
      BY <1>4 DEF WriteRow, WriteLog, RowsDone
    <2> QED
      BY <1>0, <2>1 DEF OldsAreTrue
  <1>5. CASE Restore
    <2> DEFINE p == Last(olds)
    <2>1. FrontOf(olds, olds')
      BY <1>0, <1>5, FrontIsFront DEF Restore, BenchTypeOK
    <2>2. bstep = "restore" /\ bstep' = "restore" /\ p = olds[Len(olds)]
      BY <1>5, <2>1 DEF Restore, FrontOf
    <2>3. \A i \in DOMAIN olds' : i \in DOMAIN olds /\ olds'[i] = olds[i]
      BY <2>1 DEF FrontOf
    <2>4. \A i \in DOMAIN olds : olds[i].path = Requested[i].path /\ olds[i].old = Before[olds[i].path]
      BY <1>0 DEF OldsAreTrue
    <2>5. Len(olds') <= Len(Requested)
      BY <1>0, <2>1 DEF FrontOf, OldsAreTrue
    <2>6. ASSUME unrestored' = {}, NEW path \in DOMAIN Before, \A i \in DOMAIN olds' : olds'[i].path # path
          PROVE  setting'[path] = Before[path]
      <3>1. unrestored = {} /\ setting' = [setting EXCEPT ![p.path] = p.old]
        BY <1>5, <2>6 DEF Restore
      <3>2. Len(olds) \in DOMAIN olds /\ p.old = Before[p.path]
        BY <1>0, <2>1, <2>2, <2>4 DEF FrontOf
      <3>3. CASE path = p.path
        BY <1>0, <2>6, <3>1, <3>2, <3>3 DEF BenchTypeOK
      <3>4. CASE path # p.path
        <4>1. \A i \in DOMAIN olds : olds[i].path # path
          BY <2>1, <2>2, <2>6, <3>4 DEF FrontOf
        <4>2. setting[path] = Before[path]
          BY <1>0, <3>1, <4>1, <2>6 DEF OldsAreTrue
        <4> QED
          BY <1>0, <2>6, <3>1, <3>4, <4>2 DEF BenchTypeOK
      <3> QED
        BY <3>3, <3>4
    <2>7. \A i \in DOMAIN olds' : olds'[i].path = Requested[i].path /\ olds'[i].old = Before[olds'[i].path]
      BY <2>3, <2>4
    <2> QED
      BY <2>2, <2>5, <2>6, <2>7 DEF OldsAreTrue
  <1> QED
    BY <1>1, <1>2, <1>3, <1>4, <1>5 DEF BenchNext

\* The files: a run's rows go to both, the structured one first.
LEMMA BenchRows ==
    ASSUME BenchInv, BenchNext, BenchTypeOK'
    PROVE  RowsAreWhole'
  <1>0. /\ BenchTypeOK /\ RowsAreWhole /\ Len(FioRuns) \in Nat /\ ran \in Nat /\ nth \in Nat
        /\ structured \in Seq(RowRecords) /\ resultLog \in Seq(RowRecords)
        /\ Len(structured) \in Nat /\ Len(resultLog) \in Nat
    BY RunsAre DEF BenchInv, BenchTypeOK
  <1>1. CASE Check \/ Remember \/ Change \/ ChangeFails
    <2>1. /\ UNCHANGED <<ran, structured, resultLog>> /\ rc' # 0
          /\ bstep' \notin {"precondition", "fio", "rows"} /\ bstep \in {"check", "enter", "write"}
      BY <1>0, <1>1 DEF Check, Remember, Change, ChangeFails, BenchTypeOK
    <2> QED
      BY <1>0, <2>1 DEF RowsAreWhole
  <1>2. CASE Entered \/ Precondition
    <2>1. UNCHANGED <<ran, structured, resultLog>> /\ ran = 0 /\ structured = <<>> /\ resultLog = <<>> /\ rc' # 0
      BY <1>0, <1>2 DEF Entered, Precondition, BenchTypeOK, RowsAreWhole
    <2>2. bstep' \in {"fio", "precondition", "restore"}
      BY <1>2 DEF Entered, Precondition
    <2>3. bstep' \in {"fio", "precondition"} => nth' = 0
      BY <1>0, <1>2 DEF Entered, Precondition, RowsAreWhole
    <2>4. RowsDoneBy(<<>>, 0, 0)
      BY DEF RowsDoneBy
    <2> QED
      BY <2>1, <2>2, <2>3, <2>4 DEF RowsAreWhole
  <1>3. CASE Fio
    <2>1. /\ UNCHANGED <<nth, ran, structured, resultLog, rc>> /\ bstep = "fio" /\ bstep' = "rows"
          /\ ran < Len(FioRuns) /\ rc # 0
      BY <1>0, <1>3 DEF Fio, BenchTypeOK
    <2>2. nth = 0 /\ structured = resultLog /\ RowsDoneBy(structured, Len(structured), ran)
      BY <1>0, <2>1 DEF RowsAreWhole
    <2>3. Rows' = Rows /\ Len(Rows) \in Nat
      BY <1>0, <2>1, RowsNowAre DEF Rows, RowsNow, RowsOfRun, BenchTypeOK
    <2> QED
      BY <1>0, <2>1, <2>2, <2>3 DEF RowsAreWhole
  <1>4. CASE WriteRow
    <2>1. /\ UNCHANGED <<nth, ran, resultLog, rc, bstep>> /\ bstep = "rows" /\ rc # 0
          /\ structured' = Append(structured, Rows[nth + 1])
          /\ Len(structured) = Len(resultLog) /\ nth < Len(Rows)
      BY <1>0, <1>4 DEF WriteRow, BenchTypeOK
    <2>2. /\ ran < Len(FioRuns) /\ nth <= Len(resultLog)
          /\ \A i \in DOMAIN resultLog : structured[i] = resultLog[i]
          /\ \A k \in 1 .. Len(structured) - Len(resultLog) + nth : structured[Len(resultLog) - nth + k] = Rows[k]
          /\ RowsDoneBy(structured, Len(resultLog) - nth, ran)
      BY <1>0, <2>1 DEF RowsAreWhole
    <2>3. RowsNow
      BY <1>0, <2>2, RowsNowAre DEF BenchTypeOK
    <2>4. Rows' = Rows /\ Rows[nth + 1] \in RowRecords /\ OfRun(Rows[nth + 1], ran + 1) /\ Len(Rows) \in Nat
      BY <1>0, <2>1, <2>3 DEF RowsNow, RowsOfRun, Rows
    <2>5. PICK row \in RowRecords : row = Rows[nth + 1]
      BY <2>4
    <2>6. /\ Len(structured') = Len(structured) + 1 /\ structured'[Len(structured) + 1] = row
          /\ \A i \in 1 .. Len(structured) : structured'[i] = structured[i]
      BY <1>0, <2>1, <2>5, AppendProperties
    <2>7. RowsDoneBy(structured', Len(resultLog) - nth, ran)
      <3>1. Len(resultLog) - nth \in 0 .. Len(structured) /\ ran + 1 <= Len(FioRuns)
        BY <1>0, <2>1, <2>2
      <3> QED
        BY <1>0, <2>1, <2>2, <2>4, <2>5, <3>1, RowsAppend
    <2>8. \A i \in DOMAIN resultLog : structured'[i] = resultLog[i]
      BY <1>0, <2>1, <2>2, <2>6
    <2>9. \A k \in 1 .. Len(structured') - Len(resultLog) + nth : structured'[Len(resultLog) - nth + k] = Rows[k]
      <3>0. /\ Len(structured') - Len(resultLog) + nth = nth + 1
            /\ Len(resultLog) - nth + (nth + 1) = Len(structured) + 1
        BY <1>0, <2>1, <2>6
      <3> SUFFICES ASSUME NEW k \in 1 .. nth + 1 PROVE structured'[Len(resultLog) - nth + k] = Rows[k]
        BY <3>0
      <3>1. CASE k = nth + 1
        BY <2>5, <2>6, <3>0, <3>1
      <3>2. CASE k # nth + 1
        <4>1. k \in 1 .. Len(structured) - Len(resultLog) + nth /\ Len(resultLog) - nth + k \in 1 .. Len(structured)
          BY <1>0, <2>1, <2>2, <3>2
        <4> QED
          BY <2>2, <2>6, <4>1
      <3> QED
        BY <3>1, <3>2
    <2> QED
      BY <1>0, <2>1, <2>2, <2>4, <2>6, <2>7, <2>8, <2>9 DEF RowsAreWhole
  <1>5. CASE WriteLog
    <2>1. /\ UNCHANGED <<ran, structured, rc, bstep>> /\ bstep = "rows" /\ rc # 0 /\ nth' = nth + 1
          /\ resultLog' = Append(resultLog, Last(structured)) /\ Len(structured) > Len(resultLog)
      BY <1>0, <1>5 DEF WriteLog, BenchTypeOK
    <2>2. /\ ran < Len(FioRuns) /\ nth <= Len(resultLog) /\ nth < Len(Rows) /\ Len(structured) = Len(resultLog) + 1
          /\ \A i \in DOMAIN resultLog : structured[i] = resultLog[i]
          /\ \A k \in 1 .. Len(structured) - Len(resultLog) + nth : structured[Len(resultLog) - nth + k] = Rows[k]
          /\ RowsDoneBy(structured, Len(resultLog) - nth, ran)
      BY <1>0, <2>1 DEF RowsAreWhole
    <2>3. PICK row \in RowRecords : row = Last(structured) /\ row = structured[Len(resultLog) + 1]
      BY <1>0, <2>2 DEF Last
    <2>4. /\ Len(resultLog') = Len(resultLog) + 1 /\ resultLog'[Len(resultLog) + 1] = row
          /\ \A i \in 1 .. Len(resultLog) : resultLog'[i] = resultLog[i]
          /\ DOMAIN resultLog' = 1 .. Len(resultLog) + 1
      <3>1. resultLog' = Append(resultLog, row)
        BY <2>1, <2>3
      <3> QED
        BY <1>0, <3>1, AppendProperties
    <2>5. \A i \in DOMAIN resultLog' : structured[i] = resultLog'[i]
      BY <1>0, <2>2, <2>3, <2>4
    <2>6. Rows' = Rows /\ Len(Rows) \in Nat
      BY <1>0, <2>1, <2>2, RowsNowAre DEF Rows, RowsNow, RowsOfRun, BenchTypeOK
    <2>7. /\ Len(resultLog') - nth' = Len(resultLog) - nth
          /\ Len(structured') - Len(resultLog') + nth' = Len(structured) - Len(resultLog) + nth
      <3>1. Len(structured') = Len(structured) /\ Len(resultLog') = Len(resultLog) + 1 /\ nth' = nth + 1
        BY <2>1, <2>4
      <3>2. Len(structured) \in Nat /\ Len(resultLog) \in Nat /\ nth \in Nat
        BY <1>0
      <3> QED
        BY <3>1, <3>2
    <2>8. /\ \A k \in 1 .. Len(structured') - Len(resultLog') + nth' : structured'[Len(resultLog') - nth' + k] = Rows'[k]
          /\ RowsDoneBy(structured', Len(resultLog') - nth', ran')
      BY <2>1, <2>2, <2>6, <2>7
    <2>9. nth' <= Len(Rows') /\ nth' <= Len(resultLog') /\ Len(structured') = Len(resultLog')
      BY <1>0, <2>1, <2>2, <2>4, <2>6
    <2> QED
      BY <2>1, <2>2, <2>5, <2>8, <2>9 DEF RowsAreWhole
  <1>6. CASE RowsDone
    <2>1. /\ UNCHANGED <<structured, resultLog, rc>> /\ bstep = "rows" /\ bstep' = "fio" /\ rc # 0
          /\ nth' = 0 /\ ran' = ran + 1 /\ nth = Len(Rows)
      BY <1>0, <1>6 DEF RowsDone, BenchTypeOK
    <2>2. /\ ran < Len(FioRuns) /\ nth <= Len(resultLog) /\ Len(structured) = Len(resultLog)
          /\ \A i \in DOMAIN resultLog : structured[i] = resultLog[i]
          /\ \A k \in 1 .. Len(structured) - Len(resultLog) + nth : structured[Len(resultLog) - nth + k] = Rows[k]
          /\ RowsDoneBy(structured, Len(resultLog) - nth, ran)
      BY <1>0, <2>1 DEF RowsAreWhole
    <2>3. structured = resultLog
      <3>1. DOMAIN resultLog = 1 .. Len(structured)
        BY <1>0, <2>2
      <3>2. \A i \in 1 .. Len(structured) : structured[i] = resultLog[i]
        BY <2>2, <3>1
      <3> QED
        BY <1>0, <2>2, <3>2, SeqEqual
    <2>4. RowsNow
      BY <1>0, <2>2, RowsNowAre DEF BenchTypeOK
    <2>5. PICK n \in 0 .. Len(structured) : n = Len(resultLog) - nth
      BY <1>0, <2>2
    <2>6. Len(structured) = n + Len(Rows) /\ (\A k \in 1 .. Len(Rows) : structured[n + k] = Rows[k])
      BY <1>0, <2>1, <2>2, <2>5
    <2>7. RowsDoneBy(structured, Len(structured), ran + 1)
      <3>1. Rows = parse_fio(FioRuns[ran + 1].case, FioRuns[ran + 1].rep) /\ ran + 1 <= Len(FioRuns)
        BY <1>0, <2>2, <2>4 DEF RowsNow
      <3>2. RowsDoneBy(structured, n, ran)
        BY <2>2, <2>5
      <3> QED
        BY <1>0, <2>6, <3>1, <3>2, RowsComplete
    <2> QED
      BY <2>1, <2>3, <2>7 DEF RowsAreWhole
  <1>7. CASE FioFails \/ Signal
    <2>1. rc' # 0 /\ bstep' \in {"restore", "exited"}
      <3>1. CASE FioFails
        BY <3>1 DEF FioFails
      <3>2. CASE Signal
        <4>1. rc' = 130 /\ bstep' = SignalTo
          BY <3>2 DEF Signal
        <4>2. SignalTo \in {"restore", "exited"}
          BY DEF SignalTo
        <4> QED
          BY <4>1, <4>2
      <3> QED
        BY <1>7, <3>1, <3>2
    <2> QED
      BY <2>1 DEF RowsAreWhole
  <1>8. CASE Leave
    <2>1. UNCHANGED <<structured, resultLog>> /\ bstep = "fio" /\ bstep' = "restore" /\ ran = Len(FioRuns)
      BY <1>8 DEF Leave
    <2> QED
      BY <1>0, <2>1 DEF RowsAreWhole
  <1>9. CASE Restore \/ Restored
    <2>1. UNCHANGED <<structured, resultLog, rc>> /\ bstep' \in {"restore", "exited"}
      BY <1>9 DEF Restore, Restored
    <2> QED
      BY <1>0, <2>1 DEF RowsAreWhole
  <1> QED
    BY <1>1, <1>2, <1>3, <1>4, <1>5, <1>6, <1>7, <1>8, <1>9 DEF BenchNext

LEMMA BenchStep == BenchInv /\ [BenchNext]_benchVars => BenchInv'
  <1> SUFFICES ASSUME BenchInv, [BenchNext]_benchVars PROVE BenchInv'
    OBVIOUS
  <1>1. CASE BenchNext
    BY <1>1, BenchTypes, BenchOlds, BenchRows DEF BenchInv
  <1>2. CASE UNCHANGED benchVars
    BY <1>2 DEF benchVars, BenchInv, BenchTypeOK, OldsAreTrue, RowsAreWhole, Rows
  <1> QED
    BY <1>1, <1>2

\* For any devices, profiles, cases, settings and signals: the settings go
\* back except where a signal or a failed write is named, a run of status 0
\* has the rows of every fio run in both files, and no clone of a job leaves
\* the region or meets another.
THEOREM BenchSafe == BenchSpec => []BenchIsSafe
  <1>1. BenchInv => BenchIsSafe
    <2> SUFFICES ASSUME BenchInv PROVE BenchIsSafe
      OBVIOUS
    <2>1. BenchTypeOK /\ OldsAreTrue /\ RowsAreWhole
      BY DEF BenchInv
    <2>2. ClonesStayInRegion
      BY <2>1, ClonesStay DEF BenchTypeOK
    <2>3. ASSUME bstep = "exited", unrestored = {} PROVE setting = Before
      <3>1. \A path \in DOMAIN Before : setting[path] = Before[path]
        BY <2>1, <2>3 DEF OldsAreTrue
      <3>2. setting = [path \in DOMAIN Before |-> setting[path]] /\ Before = [path \in DOMAIN Before |-> Before[path]]
        BY <2>1, BenchAssumption DEF BenchTypeOK
      <3>3. [path \in DOMAIN Before |-> setting[path]] = [path \in DOMAIN Before |-> Before[path]]
        BY <3>1
      <3> QED
        BY <3>2, <3>3
    <2>4. ASSUME rc = 0
          PROVE  /\ structured = resultLog
                 /\ CasesDistinct => \A n \in DOMAIN FioRuns : RunRecorded(structured, FioRuns[n])
      <3>1. structured = resultLog /\ structured \in Seq(RowRecords)
        BY <2>1, <2>4 DEF RowsAreWhole, BenchTypeOK
      <3>2. CasesDistinct => \A n \in 1 .. Len(FioRuns) : RunWhole(structured, n)
        BY <2>1, <2>4 DEF RowsAreWhole, RowsDoneBy
      <3> QED
        BY <3>1, <3>2, RunsAre, WholeIsRecorded
    <2> QED
      BY <2>1, <2>2, <2>3, <2>4 DEF BenchIsSafe, BenchRestores
  <1> QED
    BY <1>1, BenchStart, BenchStep, PTL DEF BenchSpec

----------------------------------------------------------------------------
\* The poll period is some ticks, and the larger of two numbers is one of them.
LEMMA PollIsNat == Poll \in Nat
  <1>1. ASSUME NEW i \in Nat, NEW j \in Nat PROVE Max({i, j}) \in {i, j} /\ Max({i, j}) >= i /\ Max({i, j}) >= j
    BY DEF Max
  <1>2. Min({20, OpTimeout}) \in {20, OpTimeout}
    BY RecordAssumption DEF Min
  <1>3. Poll4 \in Nat
    BY <1>1, <1>2, RecordAssumption DEF Poll4
  <1> QED
    BY <1>3 DEF Poll

\* The replay and its watchdog move on.
LEMMA WatchdogStep ==
    ASSUME WatchdogInv, [RecNext]_recVars
    PROVE  WatchdogInv'
  <1> USE PollIsNat, RecordAssumption
  <1>1. PICK poll \in Nat : poll = Poll
    OBVIOUS
  <1>2. CASE BeginOp
    BY <1>1, <1>2 DEF BeginOp, WatchdogInv
  <1>3. CASE EndOp
    BY <1>3 DEF EndOp, WatchdogInv
  <1>4. CASE StopDog
    BY <1>4 DEF StopDog, WatchdogInv
  <1>5. CASE DogReads
    <2>1. CASE rpos.phase = "done"
      BY <1>5, <2>1 DEF DogReads, WatchdogInv
    <2>2. CASE rpos.phase # "done"
      <3>1. /\ dog' \in [state : {"wait", "read", "off", "exit", "aborted"}, wake : Nat, now : Nat]
            /\ dog'.state = "read" /\ dog'.now = rclock /\ UNCHANGED <<last, rclock, slowest>>
        BY <1>5, <2>2 DEF DogReads, WatchdogInv
      <3>2. rclock - last <= OpTimeout + poll + DogLag
        BY <1>1, <1>5 DEF DogReads, WatchdogInv
      <3> QED
        BY <1>1, <3>1, <3>2 DEF WatchdogInv
    <2> QED
      BY <2>1, <2>2
  <1>9. CASE DogCompares
    <2>1. /\ dog' \in [state : {"wait", "read", "off", "exit", "aborted"}, wake : Nat, now : Nat]
          /\ dog'.state = IF dog.now - last > OpTimeout THEN "exit" ELSE "wait"
          /\ dog'.wake = rclock /\ UNCHANGED <<last, rclock, slowest>> /\ dog.state = "read" /\ dog.now \in Nat
      BY <1>9 DEF DogCompares, WatchdogInv
    <2>2. /\ dog.now <= rclock /\ rclock <= dog.now + DogLag /\ dog.now - last <= OpTimeout + poll + DogLag
          /\ rclock \in Nat /\ last \in 0 .. rclock /\ slowest \in Nat /\ slowest >= rclock - last
      BY <1>1, <2>1 DEF WatchdogInv
    <2>3. CASE dog.now - last > OpTimeout
      <3>1. slowest > OpTimeout /\ rclock - last <= OpTimeout + poll + 2 * DogLag
        BY <2>1, <2>2, <2>3
      <3> QED
        BY <1>1, <2>1, <2>2, <2>3, <3>1 DEF WatchdogInv
    <2>4. CASE ~(dog.now - last > OpTimeout)
      <3>1. rclock - last <= OpTimeout + DogLag
        BY <2>1, <2>2, <2>4
      <3> QED
        BY <1>1, <2>1, <2>2, <2>4, <3>1 DEF WatchdogInv
    <2> QED
      BY <2>3, <2>4
  <1>6. CASE DogExits
    BY <1>6 DEF DogExits, WatchdogInv
  <1>7. CASE RecTick
    <2>1. slowest' \in {slowest, rclock + 1 - last} /\ slowest' >= slowest /\ slowest' >= rclock + 1 - last
      <3>1. PICK d \in Int : d = rclock + 1 - last
        BY DEF WatchdogInv
      <3>2. slowest \in Nat /\ slowest' = Max({slowest, d})
        BY <1>7, <3>1 DEF RecTick, WatchdogInv
      <3>3. ASSUME NEW i \in Int, NEW j \in Int PROVE Max({i, j}) \in {i, j} /\ Max({i, j}) >= i /\ Max({i, j}) >= j
        BY DEF Max
      <3>4. Max({slowest, d}) \in {slowest, d} /\ Max({slowest, d}) >= slowest /\ Max({slowest, d}) >= d
        BY <3>2, <3>3
      <3> QED
        BY <3>1, <3>2, <3>4
    <2>2. dog' = dog /\ last' = last /\ rclock' = rclock + 1 /\ dog.state # "exit"
      BY <1>7 DEF RecTick
    <2>3. (dog.state = "wait" => rclock < dog.wake + Poll) /\ (dog.state = "read" => rclock < dog.now + DogLag)
      BY <1>7 DEF RecTick
    <2> QED
      BY <1>1, <2>1, <2>2, <2>3 DEF WatchdogInv
  <1>8. CASE UNCHANGED recVars
    BY <1>8 DEF recVars, WatchdogInv
  <1> QED
    BY <1>2, <1>3, <1>4, <1>5, <1>6, <1>7, <1>8, <1>9 DEF RecNext

\* For any timeout, log and number of passes, the watchdog of a replay ends
\* the process only when an operation went on for longer than the timeout,
\* whatever begins between its readings, and no later than a poll period and
\* two readings after that (ProgressWatchdog).
THEOREM WatchdogRight == RecSpec => []WatchdogIsRight
  <1>1. RecInit => WatchdogInv
    BY PollIsNat, RecordAssumption DEF RecInit, WatchdogInv
  <1>2. WatchdogInv => WatchdogIsRight
    BY PollIsNat, RecordAssumption DEF WatchdogInv, WatchdogIsRight, Running
  <1> QED
    BY <1>1, <1>2, WatchdogStep, PTL DEF RecSpec
============================================================================
