------------------------------- MODULE Bench -------------------------------
(***************************************************************************)
(* kvio bench (tools/kvio/bench.py): a device is accepted or refused, the  *)
(* queue and huge page settings are changed for the run, fio runs every    *)
(* case and repetition, its rows go to two files, and the settings are put *)
(* back, all of it under SIGINT and SIGTERM handlers that raise            *)
(* KeyboardInterrupt wherever the program is.  compare.py reads the rows.  *)
(*                                                                         *)
(* A setting is a number; a row is the case, the repetition and its job;   *)
(* what fio measures is left out.  The handlers return to their previous   *)
(* values at the end, when a signal no longer matters here.                *)
(***************************************************************************)
EXTENDS Integers, Sequences, FiniteSets, SequencesExt

CONSTANTS
    Targets,        \* the devices: [block, partition, holders, mounted, sectors, signatures]
    Cases,          \* the cases of the command line, a sequence
    Profiles,       \* case -> the jobs of its profile
    Reported,       \* case -> what fio reports of them: [job, dir] in order
    Regions,        \* the values of --size, in bytes
    Reps,           \* --reps
    MaxSectorsKb,   \* --max-sectors-kb, 0 when absent
    Hugepage,       \* the size of a huge page, 0 with --no-hugepages
    CalibratedBs,   \* --calibrated-block-size, 0 when absent
    Before,         \* path -> its value before the run
    MaxSignals      \* bound on the signals

\* What load_profile has accepted, argparse converted and sysfs holds.
JobRecords ==
    [name : STRING, rw : STRING, bs : Nat \ {0}, iodepth : Nat \ {0}, numjobs : Nat \ {0},
     partition_region : BOOLEAN, group_reporting : BOOLEAN, mmaphuge : BOOLEAN]

ASSUME BenchAssumption ==
    /\ Cases \in Seq(DOMAIN Profiles) /\ DOMAIN Reported = DOMAIN Profiles
    /\ \A case \in DOMAIN Profiles : /\ Profiles[case] \in Seq(JobRecords) /\ Profiles[case] # <<>>
                                     /\ Reported[case] \in Seq([job : STRING, dir : {"read", "write"}])
    /\ Regions \subseteq Nat /\ Reps \in Nat
    /\ CalibratedBs \in Nat
    /\ {"max_sectors_kb", "nr_hugepages"} \subseteq DOMAIN Before
    /\ Before = [path \in DOMAIN Before |-> Before[path]]

VARIABLES
    bstep,          \* where main() is
    asked,          \* [device, region, acknowledged, allow_signatures]
    setting,        \* path -> its value
    olds,           \* Tuning.paths, the old values to write back
    nth,            \* how many of the settings, or of the rows, are done
    ran,            \* the fio runs finished
    structured,     \* the rows in results.jsonl
    resultLog,      \* the rows in results.log
    rc,             \* the exit status
    signals,        \* signals delivered
    unrestored      \* ghost: why a setting may be left as it is

benchVars == <<bstep, asked, setting, olds, nth, ran, structured, resultLog, rc, signals, unrestored>>

----------------------------------------------------------------------------
\* validate_device: nothing but a whole, unused block device that holds the
\* region and, unless allowed, no signature.
validate_device(device, region, allow_signatures) ==
    /\ device.block /\ ~device.partition
    /\ device.holders = {} /\ ~device.mounted
    /\ region > 0 /\ region <= device.sectors * 512
    /\ allow_signatures \/ ~device.signatures

\* What load_profile asks of a job.
ValidJob(job) ==
    /\ job.rw \in {"read", "randread", "write", "randwrite"}
    /\ job.bs > 0 /\ job.iodepth > 0 /\ job.numjobs > 0

\* profile_jobs: the calibrated case may be given another block size.
profile_jobs(case) ==
    IF case = "restore-calibrated" /\ CalibratedBs # 0
    THEN <<[Profiles[case][1] EXCEPT !.bs = CalibratedBs]>> ELSE Profiles[case]

\* The share of the region of each clone of a job that partitions it, in
\* whole blocks.
PerJob(job, region) ==
    LET share == region \div job.numjobs IN share - (share % 4096)

\* fio_config: where the clones of a job read or write; a share smaller than
\* a block is refused.
fio_config(job, region) ==
    [ok |-> job.partition_region => PerJob(job, region) >= job.bs,
     extents |-> [k \in 0 .. job.numjobs - 1 |->
        IF job.partition_region THEN [from |-> k * PerJob(job, region), size |-> PerJob(job, region)]
        ELSE [from |-> 0, size |-> region]]]

\* hugepages_needed: the buffers of every job in huge pages, and a reserve.
hugepages_needed(jobs, hugepage) ==
    LET Buffers(job) == IF job.mmaphuge
                        THEN ((job.bs + hugepage - 1) \div hugepage) * job.iodepth * job.numjobs ELSE 0
        total == FoldLeft(LAMBDA n, job : n + Buffers(job), 0, jobs)
    IN total + (IF total \div 8 > 16 THEN total \div 8 ELSE 16)

\* What Tuning is asked to set, in order.
Requested ==
    LET all_jobs == FlattenSeq([n \in DOMAIN Cases |-> profile_jobs(Cases[n])])
    IN (IF MaxSectorsKb = 0 THEN <<>> ELSE <<[path |-> "max_sectors_kb", value |-> MaxSectorsKb]>>)
       \o (IF Hugepage = 0 THEN <<>>
           ELSE <<[path |-> "nr_hugepages", value |-> hugepages_needed(all_jobs, Hugepage)]>>)

\* parse_fio: a row for each thing fio reports that moved bytes.  fio merges
\* the jobs of a group_reporting file, which fio_config asks for if all of
\* them want it, and else reports every clone.
parse_fio(case, rep) ==
    [j \in 1 .. Len(Reported[case]) |->
        [case |-> case, job |-> Reported[case][j].job, dir |-> Reported[case][j].dir, rep |-> rep]]

\* The fio runs, repetition by repetition.
FioRuns == [n \in 1 .. Reps * Len(Cases) |->
               [case |-> Cases[((n - 1) % Len(Cases)) + 1], rep |-> ((n - 1) \div Len(Cases)) + 1]]

Rows == LET r == FioRuns[ran + 1] IN parse_fio(r.case, r.rep)

----------------------------------------------------------------------------
BenchInit ==
    /\ asked \in [device : Targets, region : Regions, acknowledged : BOOLEAN, allow_signatures : BOOLEAN]
    /\ bstep = "check" /\ setting = Before /\ olds = <<>> /\ nth = 0 /\ ran = 0
    /\ structured = <<>> /\ resultLog = <<>> /\ rc = -1 /\ signals = 0 /\ unrestored = {}

\* main() up to the handlers.  An exit here has changed nothing.
Check ==
    /\ bstep = "check"
    /\ IF asked.acknowledged /\ validate_device(asked.device, asked.region, asked.allow_signatures)
       THEN bstep' = "enter" /\ rc' = rc
       ELSE bstep' = "exited" /\ rc' = 1
    /\ UNCHANGED <<asked, setting, olds, nth, ran, structured, resultLog, signals, unrestored>>

\* Tuning.__enter__, one setting: the old value is remembered, then the new
\* one written; huge pages are only ever added.
Remember ==
    /\ bstep = "enter" /\ nth < Len(Requested)
    /\ olds' = Append(olds, [path |-> Requested[nth + 1].path, old |-> setting[Requested[nth + 1].path]])
    /\ bstep' = "write"
    /\ UNCHANGED <<asked, setting, nth, ran, structured, resultLog, rc, signals, unrestored>>

Change ==
    LET r == Requested[nth + 1]
        old == setting[r.path]
    IN /\ bstep = "write"
       /\ setting' = [setting EXCEPT ![r.path] = IF r.path = "nr_hugepages" /\ old > r.value THEN old ELSE r.value]
       /\ nth' = nth + 1 /\ bstep' = "enter"
       /\ UNCHANGED <<asked, olds, ran, structured, resultLog, rc, signals, unrestored>>

\* As ChangeFails, the exception passed on as it is.
ChangeFailsUnrestored ==
    /\ bstep = "write"
    /\ bstep' = "exited" /\ rc' = 1
    /\ UNCHANGED <<asked, setting, olds, nth, ran, structured, resultLog, signals, unrestored>>

\* The write is refused: an Exception, so __enter__ restores and re-raises.
ChangeFails ==
    /\ bstep = "write"
    /\ bstep' = "restore" /\ rc' = 1
    /\ UNCHANGED <<asked, setting, olds, nth, ran, structured, resultLog, signals, unrestored>>

Entered ==
    /\ bstep = "enter" /\ nth = Len(Requested)
    /\ bstep' \in {"fio", "precondition"} /\ nth' = 0
    /\ UNCHANGED <<asked, setting, olds, ran, structured, resultLog, rc, signals, unrestored>>

\* The device written once from end to end, unless --skip-precondition.
Precondition ==
    /\ bstep = "precondition"
    /\ \/ bstep' = "fio" /\ rc' = rc
       \/ bstep' = "restore" /\ rc' = 1
    /\ UNCHANGED <<asked, setting, olds, nth, ran, structured, resultLog, signals, unrestored>>

\* fio itself; a job that does not fit, or fio failing, raises.
Fio ==
    /\ bstep = "fio" /\ ran < Len(FioRuns)
    /\ \A job \in ToSet(profile_jobs(FioRuns[ran + 1].case)) : ValidJob(job) /\ fio_config(job, asked.region).ok
    /\ bstep' = "rows"
    /\ UNCHANGED <<asked, setting, olds, nth, ran, structured, resultLog, rc, signals, unrestored>>

FioFails ==
    /\ bstep = "fio" /\ ran < Len(FioRuns)
    /\ bstep' = "restore" /\ rc' = 1
    /\ UNCHANGED <<asked, setting, olds, nth, ran, structured, resultLog, signals, unrestored>>

\* A row to each file, the structured one first.
WriteRow ==
    /\ bstep = "rows" /\ Len(structured) = Len(resultLog) /\ nth < Len(Rows)
    /\ structured' = Append(structured, Rows[nth + 1])
    /\ UNCHANGED <<bstep, asked, setting, olds, nth, ran, resultLog, rc, signals, unrestored>>

WriteLog ==
    /\ bstep = "rows" /\ Len(structured) > Len(resultLog)
    /\ resultLog' = Append(resultLog, Last(structured))
    /\ nth' = nth + 1
    /\ UNCHANGED <<bstep, asked, setting, olds, ran, structured, rc, signals, unrestored>>

RowsDone ==
    /\ bstep = "rows" /\ nth = Len(Rows)
    /\ bstep' = "fio" /\ nth' = 0 /\ ran' = ran + 1
    /\ UNCHANGED <<asked, setting, olds, structured, resultLog, rc, signals, unrestored>>

Leave ==
    /\ bstep = "fio" /\ ran = Len(FioRuns)
    /\ bstep' = "restore" /\ rc' = 0
    /\ UNCHANGED <<asked, setting, olds, nth, ran, structured, resultLog, signals, unrestored>>

\* Tuning.restore, one setting, the last first; a write that fails is only
\* warned about.
Restore ==
    /\ bstep = "restore" /\ olds # <<>>
    /\ LET p == Last(olds)
       IN \/ setting' = [setting EXCEPT ![p.path] = p.old] /\ unrestored' = unrestored
          \/ setting' = setting /\ unrestored' = unrestored \cup {"write failed"}
    /\ olds' = Front(olds)
    /\ UNCHANGED <<bstep, asked, nth, ran, structured, resultLog, rc, signals>>

Restored ==
    /\ bstep = "restore" /\ olds = <<>>
    /\ bstep' = "exited"
    /\ UNCHANGED <<asked, setting, olds, nth, ran, structured, resultLog, rc, signals, unrestored>>

\* Where KeyboardInterrupt takes main(): in the body of the with statement to
\* __exit__, which restores; in __enter__ out of it without restoring, for it
\* is not an Exception; in restore() out of that.
SignalTo == IF bstep \in {"precondition", "fio", "rows"} THEN "restore" ELSE "exited"

Signal ==
    /\ bstep \notin {"check", "exited"} /\ signals < MaxSignals
    /\ signals' = signals + 1
    /\ rc' = 130
    /\ bstep' = SignalTo
    /\ unrestored' = unrestored \cup (IF bstep \in {"enter", "write"} THEN {"interrupted while entering"}
                                      ELSE IF bstep = "restore" THEN {"interrupted while restoring"} ELSE {})
    /\ UNCHANGED <<asked, setting, olds, nth, ran, structured, resultLog>>

BenchNext ==
    \/ Check \/ Remember \/ Change \/ ChangeFails \/ Entered \/ Precondition
    \/ Fio \/ FioFails \/ WriteRow \/ WriteLog \/ RowsDone \/ Leave
    \/ Restore \/ Restored \/ Signal

BenchSpec == BenchInit /\ [][BenchNext]_benchVars

\* compare.py: where the values of a case, job and direction are in a file; a
\* median is taken of them.
Key(row) == <<row.case, row.job, row.dir>>
load(rows, key) == {i \in DOMAIN rows : Key(rows[i]) = key}

----------------------------------------------------------------------------
\* The rows of a fio run are in the file one behind the other, and no row of
\* their keys is of the same repetition: compare.py takes medians of what fio
\* reported, of nothing less and nothing twice.
RunRecorded(rows, run) ==
    LET expected == parse_fio(run.case, run.rep)
    IN \E before \in 0 .. Len(rows) :
         /\ \A k \in DOMAIN expected : before + k \in DOMAIN rows /\ rows[before + k] = expected[k]
         /\ \A k \in DOMAIN expected : \A i \in load(rows, Key(expected[k])) :
              rows[i].rep = run.rep => i - before \in DOMAIN expected

\* --cases names no case twice.
CasesDistinct == \A m, n \in DOMAIN Cases : Cases[m] = Cases[n] => m = n

\* Whatever the run meets, it leaves the settings as it found them, unless
\* a signal came while they were being changed or put back or a write to
\* restore one failed.  And a run that ends with status 0 has every row of
\* every repetition in both files, once if no case is asked for twice.
BenchRestores ==
    bstep = "exited" =>
        /\ unrestored = {} => setting = Before
        /\ rc = 0 => /\ structured = resultLog
                     /\ CasesDistinct => \A n \in DOMAIN FioRuns : RunRecorded(structured, FioRuns[n])

\* The clones of a job that partitions the region stay inside it and do not
\* overlap, whatever the region's size and the number of clones.
ClonesStayInRegion ==
    \A n \in DOMAIN Cases : \A job \in ToSet(profile_jobs(Cases[n])) :
        LET c == fio_config(job, asked.region)
        IN c.ok => \A k \in DOMAIN c.extents :
             /\ c.extents[k].from + c.extents[k].size <= asked.region
             /\ job.partition_region /\ k > 0 => c.extents[k - 1].from + c.extents[k - 1].size <= c.extents[k].from

\* What the steps maintain.  The types, and which rows a run has.
RowRecords == [case : DOMAIN Profiles, job : STRING, dir : {"read", "write"}, rep : Nat]
BenchTypeOK ==
    /\ asked.region \in Regions
    /\ bstep \in {"check", "enter", "write", "precondition", "fio", "rows", "restore", "exited"}
    /\ setting = [path \in DOMAIN Before |-> setting[path]]
    /\ olds \in Seq([path : DOMAIN Before, old : {Before[path] : path \in DOMAIN Before}])
    /\ nth \in Nat /\ ran \in 0 .. Len(FioRuns)
    /\ structured \in Seq(RowRecords) /\ resultLog \in Seq(RowRecords)
    /\ bstep \notin {"restore", "exited"} => rc = -1

\* The old values are those before the run, each setting's once, and every
\* other setting is as it was.
OldsAreTrue ==
    /\ Len(olds) <= Len(Requested)
    /\ bstep = "check" => olds = <<>> /\ nth = 0
    /\ bstep = "enter" => Len(olds) = nth
    /\ bstep = "write" => Len(olds) = nth + 1
    /\ \A i \in DOMAIN olds : olds[i].path = Requested[i].path /\ olds[i].old = Before[olds[i].path]
    /\ bstep \notin {"restore", "exited"} => unrestored = {}
    /\ unrestored = {} =>
        /\ bstep = "exited" => olds = <<>>
        /\ \A path \in DOMAIN Before : (\A i \in DOMAIN olds : olds[i].path # path) => setting[path] = Before[path]

\* The rows are those of the runs done, each of them whole, then the first of
\* the run whose rows are being written.
OfRun(row, n) == row.case = FioRuns[n].case /\ row.rep = FioRuns[n].rep
RunWhole(rows, n) ==
    LET expected == parse_fio(FioRuns[n].case, FioRuns[n].rep)
    IN \E before \in 0 .. Len(rows) :
         /\ \A k \in DOMAIN expected : before + k \in DOMAIN rows /\ rows[before + k] = expected[k]
         /\ \A i \in DOMAIN rows : OfRun(rows[i], n) => i - before \in DOMAIN expected
RowsDoneBy(rows, n, r) ==
    /\ \A i \in 1 .. n : \E m \in 1 .. r : OfRun(rows[i], m)
    /\ CasesDistinct => \A m \in 1 .. r : RunWhole(rows, m)
RowsAreWhole ==
    /\ bstep \in {"check", "enter", "write", "precondition"} => ran = 0 /\ structured = <<>> /\ resultLog = <<>>
    /\ bstep = "precondition" => nth = 0
    /\ bstep = "fio" => nth = 0 /\ structured = resultLog /\ RowsDoneBy(structured, Len(structured), ran)
    /\ bstep = "rows" =>
        /\ ran < Len(FioRuns) /\ nth <= Len(Rows) /\ nth <= Len(resultLog)
        /\ \/ Len(structured) = Len(resultLog)
           \/ Len(structured) = Len(resultLog) + 1 /\ nth < Len(Rows)
        /\ \A i \in DOMAIN resultLog : structured[i] = resultLog[i]
        /\ \A k \in 1 .. Len(structured) - Len(resultLog) + nth : structured[Len(resultLog) - nth + k] = Rows[k]
        /\ RowsDoneBy(structured, Len(resultLog) - nth, ran)
    /\ rc = 0 => structured = resultLog /\ RowsDoneBy(structured, Len(structured), Len(FioRuns))

\* A benchmark run neither leaves settings or results half done nor writes
\* outside the region it was given (Tuning, fio_config).
BenchIsSafe ==
    /\ BenchTypeOK /\ OldsAreTrue /\ RowsAreWhole
    /\ BenchRestores /\ ClonesStayInRegion

============================================================================
