---------------------------- MODULE DeviceReplay ----------------------------
(***************************************************************************)
(* examples/replay: an NVMe capture becomes a fio log, the log is replayed *)
(* and captured again, and the two captures are compared (capture_format,  *)
(* mk_dev_iolog, compare_streams).                                         *)
(*                                                                         *)
(* A capture is a file of lines: commands and completions, known to each   *)
(* other by hardware queue and command id, which the device reuses; lines  *)
(* are dropped, and counted, when the ring is full, and two may be written *)
(* in the wrong order.  Every event has its own time.                      *)
(***************************************************************************)
EXTENDS Integers, Sequences, FiniteSets, SequencesExt

CONSTANTS
    NoRun,
    DevCommands,   \* [op, slba, len] of the commands of the source
    CmdKeys,       \* <<hwq, cid>> as numbers
    TickNs,        \* nanoseconds between two events
    LbaBytes,      \* lba_bytes
    MaxDevEvents,  \* bound on the events of the source capture
    MaxRunEvents,  \* bound on the events of the replay capture
    MaxFaults,     \* bound on what goes wrong: lines dropped or reordered, failed and stray commands, damaged files
    MaxCrashes     \* bound on crashes of the update

VARIABLES
    stage,     \* "source" | "translate" | "replay" | "compare" | "update" | "swap" | "done"
    dev,       \* the device: [inflight: key -> [id, ts], issued, events, ahead]
    taken,     \* lines of the capture under way and the lines dropped
    files,     \* the capture files: "source" and "replay"
    iolog,     \* the fio log
    devBundle,    \* [workload, certificate, sums]
    verdict,   \* exact_comparison
    history,   \* what the device received in each run
    faults, crashes

devVars == <<stage, dev, taken, files, iolog, devBundle, verdict, history, faults, crashes>>

Idle == [inflight |-> <<>>, issued |-> <<>>, events |-> 0]
NoBundle == [workload |-> NoRun, certificate |-> NoRun, sums |-> NoRun]
DevInit ==
    /\ stage = "source"
    /\ \E early \in SUBSET {CHOOSE k \in CmdKeys : TRUE} :  \* under way when the capture starts
        dev = [Idle EXCEPT !.inflight = [k \in early |-> [id |-> 0, ts |-> -1]]]
    /\ taken = [rows |-> <<>>, drops |-> 0]
    /\ files = [source |-> NoRun, replay |-> NoRun]
    /\ iolog = NoRun /\ devBundle = NoBundle /\ verdict = NoRun
    /\ history = [source |-> NoRun, replay |-> NoRun]
    /\ faults = 0 /\ crashes = 0

----------------------------------------------------------------------------
(* The device and the capture.                                             *)

Capturing ==
    \/ stage = "source" /\ dev.events < MaxDevEvents
    \/ stage = "replay" /\ dev.events < MaxRunEvents
Fault(yes) == faults' = (IF yes THEN faults + 1 ELSE faults) /\ faults' <= MaxFaults
Takes(row, failed) ==
    \/ taken' = [taken EXCEPT !.rows = Append(@, row)] /\ Fault(failed)
    \/ taken' = [taken EXCEPT !.drops = @ + 1] /\ Fault(TRUE)
    \/ /\ taken.rows # <<>>
       /\ taken' = [taken EXCEPT !.rows = Front(@) \o <<row, Last(@)>>] /\ Fault(TRUE)

SubmitCommand(c, k, stray) ==
    LET id == Len(dev.issued) + 1 IN
    /\ Capturing /\ k \notin DOMAIN dev.inflight
    /\ \A x \in CmdKeys : x < k => x \in DOMAIN dev.inflight  \* the first free id
    /\ dev' = [inflight |-> [x \in DOMAIN dev.inflight \cup {k} |-> IF x = k THEN [id |-> id, ts |-> dev.events] ELSE dev.inflight[x]],
               issued |-> Append(dev.issued, c), events |-> dev.events + 1]
    /\ Takes([type |-> "nvme_cmd", ts |-> dev.events, seq |-> id, op |-> c.op, slba |-> c.slba, len |-> c.len, key |-> k, id |-> id], stray)
    /\ UNCHANGED <<files, devBundle, verdict, history, crashes>>
CompleteCommand(k, ok) ==
    /\ Capturing /\ k \in DOMAIN dev.inflight
    /\ dev' = [dev EXCEPT !.inflight = [x \in DOMAIN dev.inflight \ {k} |-> dev.inflight[x]], !.events = @ + 1]
    /\ Takes([type |-> "nvme_cmp", ts |-> dev.events, lat |-> dev.events - dev.inflight[k].ts, key |-> k, ok |-> ok, id |-> dev.inflight[k].id], ~ok)
    /\ UNCHANGED <<stage, files, iolog, devBundle, verdict, history, crashes>>
\* The source submits what it likes; the replay the next command of the log,
\* or the one after it first.
SourceSubmits(c, k) == stage = "source" /\ SubmitCommand(c, k, FALSE) /\ UNCHANGED <<stage, iolog>>
ReplaySubmits(i, k) ==
    /\ stage = "replay" /\ i <= Len(iolog)
    /\ SubmitCommand([op |-> IF iolog[i].op = "datasync" THEN "flush" ELSE iolog[i].op, slba |-> iolog[i].offset \div LbaBytes, len |-> iolog[i].len], k, FALSE)
    /\ iolog' = RemoveAt(iolog, i)
    /\ UNCHANGED stage
\* Another user of the device, or a command the block layer split.
StraySubmits(c, k) == stage = "replay" /\ SubmitCommand(c, k, TRUE) /\ UNCHANGED <<stage, iolog>>
\* The file of the capture: its first line says what was captured, its last
\* how many lines were dropped; it may be cut short, hold two captures, or be
\* of the legacy format, which has no first line.
FinishCapture(fault) ==
    LET meta == [type |-> "capture_meta"]
        end == [type |-> "drops", dropped |-> taken.drops]
        rows == CASE fault = "none" -> <<meta>> \o taken.rows \o <<end>>
                  [] fault = "legacy" -> taken.rows \o <<end>>
                  [] fault = "cut" -> <<meta>> \o taken.rows
                  [] fault = "joined" -> <<meta>> \o taken.rows \o <<end, meta>> \o taken.rows \o <<end>> IN
    /\ stage \in {"source", "replay"} /\ dev.issued # <<>>
    /\ files' = [files EXCEPT ![stage] = rows]
    /\ history' = [history EXCEPT ![stage] = dev.issued]
    /\ stage' = IF stage = "source" THEN "translate" ELSE "compare"
    /\ dev' = Idle /\ taken' = [rows |-> <<>>, drops |-> 0]
    /\ Fault(fault # "none")
    /\ UNCHANGED <<iolog, devBundle, verdict, crashes>>

----------------------------------------------------------------------------
(* capture_format.                                                         *)

At(rows, type) == {i \in 1..Len(rows) : rows[i].type = type}
validate_envelope(rows, allow_legacy) ==
    /\ At(rows, "capture_meta") \in {{}, {1}}
    /\ At(rows, "drops") = {Len(rows)}
    /\ At(rows, "capture_meta") = {} => allow_legacy
ByTime(rows) ==
    LET Insert(sorted, r) ==
            LET before == SelectSeq(sorted, LAMBDA x : x.ts <= r.ts) IN
            before \o <<r>> \o SubSeq(sorted, Len(before) + 1, Len(sorted)) IN
    FoldLeft(Insert, <<>>, rows)

----------------------------------------------------------------------------
(* mk_dev_iolog.                                                           *)

Supported == {"read", "write", "flush"}
\* load_capture: the supported commands in the order of their times; a capture
\* with drops, other commands or in the legacy format is refused unless asked.
CommandsOf(rows) == SelectSeq(rows, LAMBDA r : r.type = "nvme_cmd")
Unsupported(rows) == {i \in 1..Len(rows) : rows[i].type = "nvme_cmd" /\ rows[i].op \notin Supported}
load_capture(rows, allow) ==
    LET s == ByTime(SelectSeq(CommandsOf(rows), LAMBDA r : r.op \in Supported)) IN
    IF \/ ~validate_envelope(rows, "legacy" \in allow) \/ s = <<>>
       \/ Last(rows).dropped > 0 /\ "drops" \notin allow
       \/ Unsupported(rows) # {} /\ "unsupported" \notin allow
    THEN NoRun
    ELSE [i \in 1..Len(s) |-> [ns |-> s[i].ts * TickNs, op |-> IF s[i].op = "flush" THEN "datasync" ELSE s[i].op,
                               offset |-> s[i].slba * LbaBytes, len |-> IF s[i].op = "flush" THEN 0 ELSE s[i].len]]
\* emit_iolog: microseconds; a datasync has no extent.
emit_iolog(rows) ==
    [i \in 1..Len(rows) |-> LET sync == rows[i].op = "datasync" IN
        [us |-> (rows[i].ns - rows[1].ns) \div 1000, op |-> rows[i].op,
         offset |-> IF sync THEN 0 ELSE rows[i].offset, len |-> IF sync THEN 0 ELSE rows[i].len]]
Normalized(rows) ==
    [i \in 1..Len(rows) |-> [ns |-> rows[i].ns - rows[1].ns, op |-> rows[i].op, offset |-> rows[i].offset, len |-> rows[i].len]]
\* translation_certificate: the log read back is the stream, and the
\* certificate says what of the capture is missing in it.
TranslationEqual(rows) ==
    LET log == emit_iolog(rows) IN
    \A i \in 1..Len(rows) : <<log[i].op, log[i].offset, log[i].len>> = <<rows[i].op, rows[i].offset, rows[i].len>>
Certificate(rows) ==
    LET drops == Last(rows).dropped
        omitted == Cardinality(Unsupported(rows)) IN
    [source |-> "source", capture_drops |-> drops, unsupported_commands_omitted |-> omitted,
     equivalence_level |-> IF drops > 0 \/ omitted > 0 THEN "partial-stream-translation" ELSE "stream-translation",
     runtime |-> NoRun]
\* write_bundle, or an error and no bundle.
Translate(allow) ==
    LET rows == load_capture(files.source, allow) IN
    /\ stage = "translate"
    /\ IF rows # NoRun /\ TranslationEqual(rows)
       THEN LET cert == Certificate(files.source) IN
            /\ iolog' = emit_iolog(rows)
            /\ devBundle' = [workload |-> Normalized(rows), certificate |-> cert, sums |-> cert]
            /\ stage' = "replay"
       ELSE stage' = "done" /\ UNCHANGED <<iolog, devBundle>>
    /\ UNCHANGED <<dev, taken, files, verdict, history, faults, crashes>>

----------------------------------------------------------------------------
(* compare_streams.                                                        *)

\* As PairStep, but the latency of a completion is not compared.
PairAnyLatency(st, r) ==
    LET k == r.key IN
    IF r.type = "nvme_cmd"
    THEN [st EXCEPT !.ambiguous = @ \/ k \in DOMAIN st.pending,
                    !.pending = [x \in DOMAIN @ \cup {k} |-> IF x = k THEN r ELSE @[x]]]
    ELSE IF k \notin DOMAIN st.pending THEN [st EXCEPT !.orphans = @ + 1]
    ELSE LET cmd == st.pending[k] IN
         [st EXCEPT !.pending = [x \in DOMAIN @ \ {k} |-> @[x]], !.pairs = @ \cup {<<cmd, r>>}]

\* _pair_completions, one event.
PairStep(st, r) ==
    LET k == r.key IN
    IF r.type = "nvme_cmd"
    THEN [st EXCEPT !.ambiguous = @ \/ k \in DOMAIN st.pending,
                    !.pending = [x \in DOMAIN @ \cup {k} |-> IF x = k THEN r ELSE @[x]]]
    ELSE IF k \notin DOMAIN st.pending THEN [st EXCEPT !.orphans = @ + 1]
    ELSE LET cmd == st.pending[k]
             rest == [st EXCEPT !.pending = [x \in DOMAIN @ \ {k} |-> @[x]]] IN
         IF r.ts - cmd.ts # r.lat THEN [rest EXCEPT !.invalid = @ + 1] ELSE [rest EXCEPT !.pairs = @ \cup {<<cmd, r>>}]

_pair_completions(events) ==
    FoldLeft(PairStep, [pending |-> <<>>, pairs |-> {}, orphans |-> 0, invalid |-> 0, ambiguous |-> FALSE], events)
\* load: the commands in order, the pairing and the drops; every capture
\* needs its envelope and supported commands.
load_stream(rows, allow_legacy) ==
    LET events == ByTime(SelectSeq(rows, LAMBDA r : r.type \in {"nvme_cmd", "nvme_cmp"}))
        cmds == SelectSeq(events, LAMBDA r : r.type = "nvme_cmd")
        pairing == _pair_completions(events) IN
    IF ~validate_envelope(rows, allow_legacy) \/ Unsupported(rows) # {} THEN NoRun
    ELSE [commands |-> [i \in 1..Len(cmds) |-> LET sync == cmds[i].op = "flush" IN
                         [ts |-> cmds[i].ts, op |-> IF sync THEN "datasync" ELSE cmds[i].op,
                          offset |-> IF sync THEN 0 ELSE cmds[i].slba * LbaBytes, len |-> IF sync THEN 0 ELSE cmds[i].len]],
          pairs |-> pairing.pairs, drops |-> Last(rows).dropped,
          complete |-> Cardinality(pairing.pairs) = Len(cmds) /\ pairing.orphans = 0 /\ pairing.invalid = 0 /\ ~pairing.ambiguous]
Tuples(cs) == [i \in 1..Len(cs) |-> <<cs[i].op, cs[i].offset, cs[i].len>>]
\* _completion_status.
AllSucceeded(s) == s.commands # <<>> /\ s.complete /\ \A p \in s.pairs : p[2].ok

exact_comparison(s, r) ==
    [device_stream_equal |-> s.drops = 0 /\ r.drops = 0 /\ Tuples(s.commands) = Tuples(r.commands),
     latency_compared |-> Tuples(s.commands) = Tuples(r.commands) /\ s.complete /\ r.complete /\ s.commands # <<>>,
     succeeded |-> <<AllSucceeded(s), AllSucceeded(r)>>]

\* report; the update is asked for with any file as its source.
Compare(src, allow_legacy) ==
    LET s == load_stream(files[src], allow_legacy)
        r == load_stream(files.replay, allow_legacy) IN
    /\ stage = "compare"
    /\ IF s = NoRun \/ r = NoRun THEN stage' = "done" /\ UNCHANGED verdict
       ELSE stage' = "update" /\ verdict' = [result |-> exact_comparison(s, r), source |-> src, s |-> s, r |-> r]
    /\ UNCHANGED <<dev, taken, files, iolog, devBundle, history, faults, crashes>>

\* As _verify_bundle, but the inventory alone is checked.
VerifyInventory(b) == b.workload # NoRun /\ b.certificate # NoRun /\ b.sums # NoRun

\* _verify_bundle: every file has the digest of the list.
_verify_bundle(b) == b.certificate # NoRun /\ b.sums = b.certificate

\* update_runtime_bundle: the bundle must be of this source; then the
\* certificate is replaced, and then the list of digests.
_normalized_commands(cs) ==
    [i \in 1..Len(cs) |-> [ns |-> (cs[i].ts - cs[1].ts) * TickNs, op |-> cs[i].op, offset |-> cs[i].offset, len |-> cs[i].len]]
ReplaceCertificate ==
    /\ stage = "update"
    /\ IF /\ _verify_bundle(devBundle)
          /\ files[devBundle.certificate.source] = files[verdict.source]
          /\ devBundle.workload = _normalized_commands(verdict.s.commands)
       THEN devBundle' = [devBundle EXCEPT !.certificate.runtime = verdict.result] /\ stage' = "swap"
       ELSE stage' = "done" /\ UNCHANGED devBundle
    /\ UNCHANGED <<dev, taken, files, iolog, verdict, history, faults, crashes>>
ReplaceSums ==
    /\ stage = "swap"
    /\ devBundle' = [devBundle EXCEPT !.sums = devBundle.certificate] /\ stage' = "done"
    /\ UNCHANGED <<dev, taken, files, iolog, verdict, history, faults, crashes>>
\* The process dies between the two, or the second write fails; it is run again.
CrashUpdate ==
    /\ stage = "swap" /\ crashes < MaxCrashes
    /\ crashes' = crashes + 1 /\ stage' = "compare" /\ verdict' = NoRun
    /\ UNCHANGED <<dev, taken, files, iolog, devBundle, history, faults>>

DevNext ==
    \/ \E c \in DevCommands, k \in CmdKeys : SourceSubmits(c, k) \/ StraySubmits(c, k)
    \/ \E i \in 1..2, k \in CmdKeys : ReplaySubmits(i, k)
    \/ \E k \in CmdKeys, ok \in BOOLEAN : CompleteCommand(k, ok)
    \/ \E fault \in {"none", "cut", "joined", "legacy"} : FinishCapture(fault)
    \/ \E allow \in SUBSET {"drops", "unsupported", "legacy"} : Translate(allow)
    \/ \E src \in {"source", "replay"}, allow_legacy \in BOOLEAN : Compare(src, allow_legacy)
    \/ ReplaceCertificate \/ ReplaceSums \/ CrashUpdate

----------------------------------------------------------------------------
\* What the device received in a run: a flush has no extent.
Received(run) ==
    [i \in 1..Len(history[run]) |-> LET c == history[run][i] IN
        IF c.op = "flush" THEN <<"datasync", 0, 0>> ELSE <<c.op, c.slba * LbaBytes, c.len>>]

SelectByIndex(s, kept) == LET at == SetToSortSeq(kept, <) IN [i \in 1..Len(at) |-> s[at[i]]]

\* A replay reported equal made the device receive the same commands in the
\* same order as the source, lines dropped, reordered or joined or not; and
\* where latencies are compared or a run is said to have succeeded, every
\* completion is that of its own command.
VerdictIsTrue ==
    verdict # NoRun =>
        /\ verdict.result.device_stream_equal => Received(verdict.source) = Received("replay")
        /\ verdict.result.latency_compared => \A p \in verdict.s.pairs \cup verdict.r.pairs : p[1].id = p[2].id
        /\ verdict.result.succeeded[1] => \A p \in verdict.s.pairs : p[1].id = p[2].id
        /\ verdict.result.succeeded[2] => \A p \in verdict.r.pairs : p[1].id = p[2].id

\* A bundle that verifies is whole: it says of its log whether it is the
\* stream of its source or lacks commands of it, and no more than the lines it
\* counts as dropped or left out; a command's time is off by less than a
\* microsecond; a comparison it carries is one the tool finished or will not
\* accept again, and says equal of no partial log; a bundle left between the
\* two writes is refused.
BundleIsWhole ==
    stage \in {"compare", "update", "swap", "done"} /\ devBundle # NoBundle /\ _verify_bundle(devBundle) =>
        LET cert == devBundle.certificate
            stream == Tuples(devBundle.workload)
            all == Received("source")
            log == emit_iolog(devBundle.workload) IN
        /\ stage # "swap"
        /\ cert.runtime # NoRun => verdict # NoRun /\ cert.runtime = verdict.result
        /\ cert.equivalence_level = "stream-translation" => stream = all
        /\ Len(all) - Len(stream) <= cert.capture_drops + cert.unsupported_commands_omitted
        /\ \E kept \in SUBSET (1..Len(all)) : stream = SelectByIndex(all, kept)
        /\ cert.runtime # NoRun /\ cert.runtime.device_stream_equal => stream = all
        /\ \A i \in 1..Len(log) : devBundle.workload[i].ns - 1000 * log[i].us \in 0..999

\* Neither the verdict of a comparison nor the bundle that carries it says
\* more than what happened (compare_streams, mk_dev_iolog).
ReplayIsJudged == VerdictIsTrue /\ BundleIsWhole

============================================================================
