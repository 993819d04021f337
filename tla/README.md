# Verification of duckdb-vortex

`duckdb-vortex` builds the Vortex file format as a DuckDB/Vane extension. The
extension itself is a few forwarding lines around the external Vortex engine;
what this repository implements is everything around it: the workflow that
builds, signs and publishes the *provider wheels*, and the benchmark drivers
whose reports are the evidence for performance claims. Both are concurrent,
both are interrupted in practice, and both produce documents that other people
rely on. This directory models them in TLA+, checks the models with TLC and
proves the safety of all but the readers of worker output with TLAPS.

## 1. Inventory

### Components that are modelled

**Phase barrier** — `scripts/bench_index_resources.py` (`run_constrained`) and
`scripts/native/bench_index_sift_capi.cpp` (`Phase`).
State: the controller's position, snapshots and `constraints.json`; the CPU
affinity of the calling thread; two buffered pipes; the worker's program and
its counters; the transient systemd unit and the `systemd-run` client.
Operations: spawn, read a phase line, capture counters, record, answer
`continue`, qualify, the six cleanup steps of the `finally` block.
Hard: three processes interleave; the worker may fork, repeat or skip phases,
die, hang or be killed for memory; every cleanup step may raise; the user
interrupts; the controller may be killed between two writes of its document.
Correct when a *verified* result is what the worker really consumed, phase by
phase, the document never claims more, and nothing is left behind.

**Provider release** — `.github/workflows/VaneExtension.yml` from job
`preflight` on, and `scripts/vane_release_preflight.py`.
State: per run the status of its jobs and the artifacts its outputs name; the
two package indexes, which only ever gain files.
Operations: dispatch, queue, start, end; twelve jobs; the three ways GitHub can
re-run them.
Hard: jobs fail half way through an upload; builds are not reproducible;
two runs for one version; a re-run works with what an older attempt validated.
Correct when whoever installs a version from PyPI gets the wheels of one build,
which was tested as it is.

**HNSW matrix driver** — `scripts/bench_index_hnsw_layers.py` (`main`).
State: the report, its copy on disk, the affinity of the main thread, the
sampling thread and the event that stops it, the identity of the input files.
Hard: two threads; measured windows against samples of the host; an exception
or an interrupt at any statement; files replaced while it runs.
Correct when `ok` means a complete, quiet matrix over one set of inputs, and
whatever breaks the loop is on record.

**Readers of worker output** — `parse_capi`, `summarize_records` and
`cache_counters` of `scripts/bench_index_sift_end_to_end.py`, `parse_native` and
`validate_samples` of `scripts/bench_index_layers.py`.
State: the sample being collected and the number of samples judged, or all
samples by round and query; the answers of the first round; the lifecycle lines
seen; the cumulative counters of each phase.
Hard: any file at all, from a worker that died or repeats itself; samples are
recognised by consecutive keys and positions by division of a running count, or
by keys in any order; counters are registered late, or lost on close.
Correct when exactly the complete measurements with the expected answers are
accepted, and what is reported as measured is what happened in the measured
rounds.

**SIFT comparison** — `scripts/bench_index_sift.py` (`main`).
State: inputs and fixture on disk, the reference that was fingerprinted, the
tuning so far, the layers measured, `progress.json` and `summary.json`.
Hard: eleven or more processes one after the other on files that anybody may
replace; quality is tuned once and must hold for every layer; a shell retains an
index, or not, whatever is said of its budget.
Correct when a summary compares layers of one index at equal quality, and its
status says what was measured.

**SQL and layer benchmarks** — `scripts/bench_index_sql.py` and
`scripts/bench_index_layers.py` (`main` of both).
State: rows, files, queries, index and result files in one directory; the two
reports.
Hard: the second starts from the directory of the first, at any later time and
perhaps with another shell, and the first has named only some of its files.
Correct when a report of the layers speaks of what the SQL benchmark measured.

**Bison cache** — `scripts/fetch_vane_bison.py`.
State: the cached archive, one temporary download per build.
Hard: builds that share the cache, mirrors that serve anything, kills.
Correct when whoever returns leaves the pinned bytes, and every fetch ends.

**Provider jobs** — `scripts/build_vane_dynamic_wheel.py`,
`sign_vane_dynamic_bundle.py`, `package_vane_dynamic_wheel.py`, and the three
jobs of `VaneExtension.yml` that run them.
State: the private key in its input file and in a script's own file; the
native artifact, its signed copy, the staged and the finished wheels; the
uploads the jobs share.
Hard: every step raises, also the erasure of a key; a process is killed in the
middle of a copy; a second attempt finds what the first left; other processes
edit the signer's input and output; jobs are run again.
Correct when keys do not stay on disk, what is finished is whole and of one
build, and the packages hold the prepared code although the signer is not
trusted.

**End-to-end driver** — `bench_index_sift_end_to_end.py` (`run`, `main`).
State: the report, its copy on disk, the frozen probes, the fixture.
Hard: errors at every step, in the handler too; torn writes; interrupts that
are not caught; a fixture that is damaged or rebuilt meanwhile; a second process
with the same output directory, later or at the same time.
Correct when `ok` means two engines of comparable quality, SQL with the answers
that its parity test recorded, and a failure is on record and stays there.

### How they interact

The matrix driver and the end-to-end driver call `run_constrained` once per
worker: it pins and restores *their* thread's affinity (HnswMatrix's
`AfterWorker` is PhaseBarrier's `NothingLeftBehind`), and it always ends
(PhaseBarrier's `Terminates` is the fairness of HnswMatrix). What a worker wrote
is judged by the readers: `RunChunk` of SiftComparison and `MeasureNative` of
LayerComparison are steps that happen when NativeSamples accepts, `MeasureSql`
of EndToEnd when SampleStream does, and its diagnostic when CacheCounters does.
The two benchmarks of LayerComparison communicate through files only. The
release workflow consumes the provider jobs as jobs that succeed or fail; what
it relies on in them is `ArtifactChain`; their build downloads through the Bison
cache.

### Components that are not modelled (yet)

| component | why |
|---|---|
| `vane_scan_lifecycle.py`, `build_capi` | one command after the other, the first error ends the process; no state beyond one call |
| `test/object_store/` S3 fault proxy | test support; the COPY protocol it exercises is in the external engine |
| `src/`, `vortex-extension*/` | forwarding shims without state |
| distributed scan and COPY protocol | implemented in the external engine; only its test is here |
| build files, docs, ordinary CI | configuration and text |

## 2. Modules

| module | what it is |
|---|---|
| `PhaseBarrier` | controller, worker, systemd; all safety and liveness properties |
| `PhasePlan` | `phases`, `phase_deltas` and the worker's `main` as sequences |
| `MeasuredRun` | abstract specification of a measured run |
| `ProviderRelease` | jobs, runs, artifacts and indexes |
| `StagedRelease` | abstract specification of a staged release |
| `HnswMatrix` | main thread, monitor, host, report |
| `SampleStream`, `NativeSamples` | the readers of samples, each with its reference definition of a measurement |
| `NativeArtifact` | artifacts, signatures and wheels: the checks the scripts share |
| `ProviderBuild`, `SigningJob`, `PackagingJob` | one script each |
| `ProviderJobs` | their composition: jobs, uploads and re-runs |
| `ArtifactChain` | abstract specification of the three jobs |
| `EndToEnd` | the end-to-end driver and its report |
| `CacheCounters` | recorder and reader of the cache counters |
| `Readers` | the three readers beside each other, one per behaviour |
| `SiftComparison` | the SIFT driver: tuning, layers, budgets, reports |
| `LayerComparison` | the SQL benchmark and the layer benchmark on its directory |
| `BisonFetch` | the download cache |
| `*_proofs` | inductive invariant and theorems of the module they are named after; those of BisonFetch are at the end of `ProviderJobs_proofs` |
| `MC*` | instances of the above for TLC |

### PhaseBarrier

`pc` is the line of `run_constrained` the controller is at; `Pin`, `Spawn`,
`ReadPhase`, `Capture`, `Record`, `Acknowledge` are its loop, `Qualify` the
checks after it, and `RestoreAffinity` to `ResetFailed` the `finally` block,
each with its own failure. The worker executes a *program*, a sequence of work
and announcements; `AnnouncePhase` writes and flushes a line, `Resume` is the
end of `getline`. Counters are abstracted to what the worker has done: every
unit of work adds one to the counter of the process that does it, so two
snapshots are equal exactly when no work was done between them. The variables
`announced`, `oomAt` and `contended` observe and are never read by an action.
`MeasuredRun` knows only how many boundaries were reached, how many were
measured and what the verdict is; `ImplementsMeasuredRun` is the refinement.

### ProviderRelease

One action per job; `needs` and `if` of the workflow are `Needs` and `InScope`.
A publishing job takes several steps (`StartPublish`, one `UploadWheel` per
file, `FinishPublish`), since it can stop in between; every other job changes
shared state at most once, when it uploads its artifact. `JobFails` is a failed
check, an expired artifact, a rejected approval or a lost machine. Re-runs and
the concurrency group are GitHub's, and external, as is the release validator
(`vane_provider_release.py`, in a submodule): it is modelled by what the
workflow relies on. Group membership is the operation alone, because the
preflight job pins every publishing run to the same protected branch
(`require_publish_dispatch`). What else `vane_release_preflight.py` checks
depends on sources and indexes of other packages: it passes (`Preflight`) or
fails (`JobFails`). A
*scenario* says what the runs are for and which re-runs the operator uses: any,
those that validate again, or *Re-run failed jobs*.
`StagedRelease` is what a user of PyPI may rely on.

### HnswMatrix

`pc` names the statement groups of `main`. A *window* lies between the phases
`ready` and `after_close` of one worker; a run's record keeps what
`host_qualification` can later know of it (`first`, `fresh`) and, for the
properties only, what really happened (`compiling`, `busy`, `files`).
Reading the host may raise, in either thread; `seen.blind` remembers that the
monitor has gone in this way. What raises after a complete loop, where no
handler is, or while report.json is written, is an action of its own
(`AcceptUnsaved`, `HandleUnsaved`, `HostJsonFails`, `QualifyRaises`,
`QualifyUnsaved`, `Report`); `broken` remembers which file, counter or stream it
was, for the properties only. `QualifyRaises` has the two errors of
`host_qualification`: no sample before a window, and counters of the host that
went back or stood still (`busy`).
A live monitor samples ten times a second, so a window or a six-second
preflight does not pass without a sample. `run_constrained` is one step here
that ends or fails: its inside is PhaseBarrier. An input file is replaced at
most once, for good.

### SampleStream, NativeSamples, CacheCounters

`Read` and `Refuse` are one line of the file, `EndOfFile` the code after the
loop. In SampleStream, `hits` and `events` observe the lines read and are never
read by an action; `Measured` is the reference: it says of a whole file,
position by position, that a worker's `main` could have written it, without any
of the reader's state. `AsExpected` is the comparison with the answers of the
parity samples, which both callers of `parse_capi` ask for (a row of a hit is
its id with its distance); the records of OpenData, which are judged without
expected answers, are not modelled. In NativeSamples, whose reader accepts lines in any
order, it is a bag, `Measurement`. In CacheCounters `Snapshot` is the recorder
at the phases of PhasePlan, `Continuous`, `RoundDelta` and `Measured` are the
three loops of `cache_counters`, and `inMeasured`, which counts while it
happens, is the reference. Readers runs the three beside each other, one per
behaviour; they share no state.

### ProviderJobs

`buildAt`, `signAt` and `packAt` name the step a script is at, `idle` between
two attempts; an attempt's own temporary directory is new, everything else is
as it was left. An artifact is its payload and what is in its signature slot.
A script's errors are `BuildRaises`, `SignRaises`, `PackStops` and, where a key
file exists, alternatives of the steps themselves, since the `finally` and
`with` blocks then decide what is left. `Edit` lets anybody in the signing job
write anything to the signer's input or output at any moment. `ProviderJobs`
adds uploads and downloads, which happen on success only, and `Rerun`.
`ArtifactChain` says what publishing relies on: wheels appear at once, a
complete set of the code that was built. The wheel tool and the check of a wheel
by a runtime are in a submodule and external.

### EndToEnd

One action per statement group of `run`, a separate one per write of
`summary.json`, since a write that fails or is interrupted tears the file.
`Handler` is the `except` clause of `main`; `Stop` is what it does not catch.
A worker reports any recall, probes and recorder; `Configured`, `qualify_recall`,
`AsExpected`, `sql_cache_hits` and `SameWork` are the code's checks of it. The
answers of a SQL worker are those of the parity samples, with their recall, or
others. `fixture` is a build of it, whole or not; `Damage` and `Rebuild` are
anybody, at any moment. `load_fixture` sees that files are missing or replaced,
not that they are those of another build, and neither `LoadInputs` nor
`CheckFixture` compares more than that. `served` observes which build SQL workers
found, whole or damaged, and what they answered. `Overlap`, `OverlapReads` and
`OverlapMarks` are a second process that has passed the check for the output
directory too: of the two, the process that made the directory is the one
modelled in full, and the other can only lose `mkdir` and run its handler.

### SiftComparison

One action per statement group of `main`; `RunChunk` is one process of
`run_chunks`, `Score` and `Compare` what is done with a layer's answers.
Answers are what a chunk of queries was answered; `Sufficient` are those whose
recall reaches the target. `sorted(set(probes))` is `NextProbes`, the fewest
that are left untried. `holds` is what a shell really retains, `Retained`
what the driver computes from the budget it was told. `inputs` and `fixture`
are files: `Interfere` may replace, damage or rebuild them at any moment, and
`read` observes which fixture each worker opened. When fewer strict queries are
configured, strict SQL answers a part of the queries; it is modelled with all.

### LayerComparison

`Generate` to `Describe` are the SQL benchmark, `LoadFixture` to `Report` the
layers, in one history. The Float32 vectors that SQL makes of the
fixture's queries, and with which the layers then search, are taken for these
queries: the code checks that they are finite Float32 vectors of the right
length. An answer says of which rows it is, by which ids, to which queries and
of what quality; a search that mixes an index with other files
fails or shows the mixture. `Replace` is anybody with access to the directory,
before, between and during the measurements.

### BisonFetch

One process per build; `Download` is one `curl`, which may leave any bytes
behind and still succeed. `Again` is the next build in the same place.

## 3. Runs

| run | question |
|---|---|
| `barrier_safety` | do verdict, document, affinity and unit stay right over all interleavings, interrupts, kills, OOMs and deviating workers, and does the barrier refine `MeasuredRun`? |
| `barrier_ends` | does the call always end, by the timer alone, and by the handshake alone? |
| `provider_release` | what do failures, cancellations and every kind of re-run do to two runs, does the workflow refine `StagedRelease`, and, where retries validate again, can a version mix builds on any index? |
| `provider_stale` | (violated) is a version retried only with identical bytes when failed jobs are re-run? |
| `matrix` | what does an accepted matrix vouch for, when only is the report left without a verdict, and does the process end? |
| `matrix_blind` | (violated) is a compiler that overlaps a window always rejected? |
| `readers` | do the readers accept exactly the complete measurements (of SQL: with the expected answers), and is the measured sum of the counters exact? |
| `provider_jobs` | do keys vanish and results stay whole over failing, killed and repeated scripts, and do the jobs refine `ArtifactChain`? |
| `e2e_report` | what may the report on disk say after errors, interrupts, torn writes, other answers, a damaged or rebuilt fixture, a second start and a process that overlaps? |
| `sift_report` | does a summary compare layers of one index at equal quality, with budgets that are real? |
| `layers_report` | does a layer report speak of what the SQL benchmark measured? |
| `bison_fetch` | do builds that share the cache end, and only with verified bytes? |

**Bounds.**
*Barrier*: the real worker with one warm-up round, one measured round and one
query, and eight programs that deviate from it (one round too many, a missing
phase, a missing last phase, no barrier at all, phases swapped, a forked
process announcing, a process outside the unit, work after the last phase). It
has every kind of phase, and a deviation at a boundary in the middle and at the
end; that the controller's list of phases and the worker's calls agree is
checked separately for up to three rounds of each kind and three queries
(`ProtocolsAgree`). `StopMayFail` is FALSE where `NothingLeftBehind` is
checked in full and TRUE for liveness.
*Release*: two runs, two wheels per version (enough for a partial upload), two
possible builds (enough for builds to differ); the builds are symmetric and no
property names one. The scenarios let the runs be for one version or one per
channel, with every re-run or with those that validate again.
*Matrix*: one repeat, one file, two answers, one interrupt at any statement, any
number of samples and of compilers coming and going. That the order of layers
alternates is checked for all the repeats the driver allows (`OrderAlternates`).
*Readers*: two queries, one round of each kind, two hits, a tie in distance on the
first query, and a row that is valid but not expected; at most one field of a
line is wrong, any number of lines is. One
counter (each is treated by itself), one warm-up and two measured rounds, where
the code has one, so that the sum over rounds matters.
*Provider jobs*: two attempts per workspace (the second finds what the first
left), two re-runs, two edits by others (one of the input and one of the output),
two runtimes, and arguments that name one of them twice. Two builds, symmetric.
*End-to-end*: recalls from below the floor to beyond the tolerance either way;
two probe values; two starts one after the other, and one that overlaps; one
rebuild, so that a worker may have read what is there no more.
*SIFT*: three numbers of probes, two chunks, so that a layer may agree in one
and differ in the other; one replacement of inputs and one of the fixture, after
which nothing new can happen. Probes may suffice or not independently of their
number.
*Layers*: two replacements, so that one can hide another.
*Bison*: two builds that share the cache, each again and again, and two mirrors.

**Fairness.** `Progress`: every call of the controller returns, except the read
from the worker; systemd starts the unit; its client notices the end. `Timer`
is `RuntimeMaxSec`, given to every unit. `Responsive` replaces it by a worker
that keeps going. Interrupts, kills, OOMs and failures are never fair. In the
matrix, the main thread goes on whenever it can (workers end, see `Terminates`,
and the preflight gives up after fifteen minutes), the monitor's loop runs and
stops when told to. A fetch of the Bison archive goes on unless it is killed, since `curl` is
given 150 seconds at most. The release has no liveness: jobs and operators may
stop at any time. The provider jobs, the end-to-end, SIFT and layer drivers and
the readers are checked for safety only: a script may be killed at any step, and
nothing repeats it.

## 4. Proofs

Every safety invariant, action property and refinement that a passing run checks
is also a theorem. What a run shows for two builds, two
runtimes or two replacements holds for any number of them. Each proofs module
has the same plan: an inductive invariant `IInv` as a conjunction of named
parts, a lemma for `Init`, lemmas for its steps (by part, with one case per
action, or by action, with one step per part), `THEOREM Invariant ==
Spec => []IInv`, and the properties from it. Each `IInv` was checked with TLC on
the run's instance before it was proved.

| theorem | property |
|---|---|
| `PhaseBarrier_proofs!TypeCorrect`, `Exact`, `VerdictIsEarned`, `OomDisqualifies`, `DiskIsTruthful`, `CleansUp`, `BarrierHolds`, `Implements` | `TypeOK`, `SnapshotsAreExact`, `VerifiedMeansMeasured`, `NoOomWhileMeasured`, `DiskMatchesOutcome`, `NothingLeftBehind`, `NoWorkDuringCapture`, `ImplementsMeasuredRun` |
| `ProviderRelease_proofs!OneBuildOnPypi`, `SuccessLasts`, `OneBuildPerRun`, `PromotionIsRetryable`, `RetriesAreIdentical`, `Implements` | `PypiHoldsOneBuild`, `SuccessIsComplete`, `ArtifactsBelongTogether`, `PartialPromotionIsRetryable`, `RevalidatedRetriesAreIdentical`, `ImplementsStagedRelease` |
| `HnswMatrix_proofs!OkReportIsComplete`, `OkReportIsQuiet`, `ReportHoldsTheVerdict`, `VerdictStands` | `OkIsComplete`, `OkIsQuietIfSampled`, `VerdictIsRecorded`, `VerdictIsFinal` |
| `ProviderJobs_proofs!NoKeyStays`, `ResultsAreComplete`, `FinishedIsKept`, `Implements` | `KeysErased`, `BuildIsComplete`, `FinishedStands`, `ImplementsArtifactChain` |
| `EndToEnd_proofs!OkReportIsComparable`, `OkReportAnswersParity`, `OkReportSawDamage`, `FailureStaysRecorded`, `SavedReportStands` | `OkIsComparable`, `OkAnswersParity`, `LastingDamageIsSeen`, `FailureIsRecorded`, `SavedStands` |
| `SiftComparison_proofs!ReportHasEqualQuality`, `ReportedBudgetsAreReal`, `ReportReadsOneFixture` | `LayersHaveEqualQuality`, `BudgetsAreReal`, `ReportIsOfOneFixture` |
| `LayerComparison_proofs!ReportMeasuresTheSource` | `LayersMeasureTheSource` |
| `Readers_proofs!CompleteOutput`, `DeviatingOutput`, `NativeMeasurement`, `ExactCounters` | `AcceptedIsComplete`, `RejectedIsDeviating`, `AcceptedIsMeasurement`, `CountersAreExact` |
| `ProviderJobs_proofs!CacheIsVerified` | `ReturnedIsVerified` |

### The barrier

`PhaseBarrier_proofs` proves every safety property of the barrier and the
refinement, for all phases, programs, processes and intervals, from the one
assumption `Shape` on the constants (what kind of thing each of them is).

None of the properties is inductive. `IInv` is the conjunction of ten parts:
*SnapshotsAreExact* needs to know, between the printing of a line and the
answer, where each line is and that the worker waits (*Handshake*, *Pending*);
that a client's status is the unit's, and a unit without a client is not
measured (*Lifecycle*); that what was measured is a prefix of what is expected
(*Prefix*). *Verdict* ties `verified` to the checks of the loop and of
`Qualify`; *OomHistory* and *Isolation* tie the observers to the snapshots;
*Documents* and *Cleaned* follow the `finally` block. The proof of
`Invariant` has one lemma per part and in it one step per action; the
properties follow from it (`Exact`, `VerdictIsEarned`, `OomDisqualifies`,
`DiskIsTruthful`, `CleansUp`), the action property `BarrierHolds`
and the refinement `Implements` use it step by step.

### The Bison cache

`CacheIsVerified`, in `ProviderJobs_proofs` since the build of the provider is
what fetches, holds for any number of builds and of mirrors: what returns
has left the pinned bytes. The inductive invariant adds
what is needed between the check and the end: a candidate about to be renamed is
verified and nobody else writes to it (*PublishesVerified*, where a temporary
directory of its own is essential), and the archive stays verified while the
directory is removed (*LeftIsVerified*).

### The release

For any number of runs, builds and wheels. The `needs` of the workflow become
levels: a job has begun only when all of a lower level have succeeded
(*Ordered*), which no re-run breaks, since it resets everything downstream.
Hence what a run's outputs name is of one build (*OutputsNameOneBuild*), what a
verification found is still there because an index forgets nothing
(*StillStaged*, *StillPublished*), and what is promoted was tested (*Tested*).
`PypiHoldsOneBuild` follows from *PromotedIsStaged*: a file on PyPI is of the
one build that TestPyPI holds completely. This argument uses neither the
concurrency group nor the validation, so that stale validations, the first of
the findings below, cannot reach PyPI. The properties about operators who
validate again need more (`RInv`): one run per channel is going (*Serial*), a
run that is not going has nothing validated (*ValidatedAfresh*), and therefore
what was validated stays true until it is used (*ValidationHolds*); some run
still holds the wheels of a promotion that was begun (*PromotionIsHeld*).
Assumptions: `Dispatches`, and `NoneIsNoArtifact` (no artifact is not an
artifact).

### The matrix

For any number of repeats the driver allows, of files and of answers, and
interrupts anywhere. *RunsInOrder* and *RunsAgree* follow the loop. A worker
finds each file no older than it was when it was fingerprinted and no newer than now
(*FilesAreBetween*), so that a file found unchanged at the end was never
anything else. *WindowIsTrue* ties what the driver knows of a window to what
happened in it and *MonitorWatches* says that, as long as reading the host
works, no window passes without the monitor; together they give
`OkIsQuietIfSampled`, and its exception `seen.blind` is the second finding.
*DocumentsAgree* and *EndIsRecorded* follow the report through errors,
interrupts and writes that fail: when the process has ended by itself, a report
without a verdict could not be written, or belongs to a loop that was complete
and was not judged afterwards. Assumptions: `MatrixParameters`, and
`SignalsReachAProcess` (no interrupt after the process has ended).

### The provider jobs

The invariants of the three scripts (`BuildInv`, `SignInv`, `PackInv`) are kept
by the steps of each script and by the jobs around them, which touch a
workspace only between two attempts; *UploadsBelongTogether* relates the
uploads. In a script, the places say what is on disk (which key files, which
half of a bundle, which wheels in which order), and wheels are those of
the attempt's own artifact, one per runtime (*WheelsAreOwn*, *PackPlaces*). That
distinct names imply distinct wheels, and as many as runtimes, is a lemma about
cardinalities (`DistinctValues`). `Implements` needs nothing of the signer:
`require_signed_payload` alone brings its output back to the code that was
prepared. Assumptions: `PayloadsAreDistinct` and `NoneIsNoFile` (distinguished
values are distinct), `RuntimesAreDistinct` and `RequestsNameAllRuntimes` (what
the workflow passes).

### The end-to-end report

For all recalls, probes, floors and tolerances. *Directory* says who may write:
only the process that made the directory, and before that nothing is there.
*Progress*, *Probes*, *Compared* and *Diagnosed* say what the report in memory
holds at each statement, *DiskIsBehind* that the one on disk has nothing else,
and *Verdict* that a verdict is the last thing that is written. *Expected* carries
the answers of the SQL workers along: a process goes on only after those of the
parity samples. *Builds* says that a build which is whole now was never found
damaged, since damage is undone by a later build only; so the fixture that loads
at the end settles what was damaged before. A process that
overlaps may hold an earlier report; *DiskIsBehind* covers what it has
found. Assumptions: `EndToEndParameters` and `FilesAreDistinct`.

### The SIFT summary

For any probes, chunks and answers, whichever suffice. *Ascending*: whatever was
tried, everything smaller was tried before it, so that the first that suffices is
the smallest; that a set of numbers has a smallest one is proved from the
well-foundedness of `<`. *SameQuality* and *Shells* carry the comparison and the
diagnostics through the layers. *OneFixture*: as long as the fixture is the
recorded one, nothing else was read, and once it is not it never is again, so
the last verification settles what all workers read. Assumptions:
`SiftParameters` (at least one probe: `--probes` takes one or more) and
`NoneIsNoAnswer`.

### The layer report

For any number of replacements at any time. The report verifies its files twice
and reads them in between; this is sound because nothing that was replaced
returns (*NoReturn*: rows and queries of others differ, an index that is built
again differs from the first). So what a layer answered is tied to the source as
long as the source is there (*LayersAgree*, *ReadIsKnown*), and the second
verification, which finds it there, settles it (*Settled*), although the files
may be replaced right after. No assumption.

### The readers

For any numbers of queries, rounds and hits, and of counters, any rows, distances
and answers, and any lines a file may consist of. `IInv` is one invariant per
reader.

*The stream* (`StreamInv`). The reader knows a running count, one pending sample
and the answers of the first round; the reference speaks of positions in the
whole file. *JudgedHits* says of every hit of a judged sample what its position
implies, *PendingHits* that the hits after those are the pending sample's,
*FirstIsValid* that the answers of the first round are valid, *EventsAreOnce* and
*AcceptedIsAll* do the bookkeeping. The step that needs an argument is the one
from a count to a position, `(p * d + r) \div d = p` (`DividedOnce`), once by
queries and once by hits. That `K` distinct rows are those of an injective
sequence, which the code checks by the size of a set, is `DistinctValues`.
`StreamRejects` is the other direction: whatever continues a measurement passes
every check of the reader.

*The native reader* (`NativeInv`). Lines are read once (*LinesAreOnce*); what was
collected is the lines read, and the reverse (*CollectedIsRead*,
*ReadIsCollected*), so that the bag read is `Measurement` exactly when every
sample is there with every rank. The code only counts its samples; that a set of
keys within range which has as many elements as there are keys has all of them is
a lemma about cardinalities.

*The counters* (`CountersInv`). `PhaseList` computes the controller's list of
phases by index, and `RoundPhases` where a round begins and ends in it. Until the
recorder closes, snapshots show no less than earlier ones (*SnapshotsGrow*) and
the newest shows the totals (*NewestIsTotal*); what has been accessed in measured
rounds is the sum over those that are over, and what has been added since the
last began (*MeasuredIsSum*). `SumsAdd` proves that the recursive sum of the
reader satisfies its equations, since a function that does exists, and `SumsAre`
that it is the sum of the invariant. Both, and `PhaseList`'s rounds, are
inductions over numbers: `InductiveSet`, proved from the well-foundedness of `<`,
takes the set of numbers for which a statement holds instead of an operator.
So `ExactCounters` covers any number of measured rounds, where the run sums two.
`IntervalsAreOrdered`, from the same list, says that `phase_deltas` pairs an
earlier snapshot with a later one and never uses the last: what PhaseBarrier's
`Shape` assumes of `Intervals` holds for the code's, for any number of rounds.

Assumption: `ReaderParameters` (numbers are numbers, there is a query, a measured
round and a hit, which the drivers' arguments require; a sample is not a
lifecycle event, and these are finitely many; lines are lines).

### Only model-checked

*Liveness*: `Terminates`, `RunsToItsEnd`, `EventuallyGone` and `FetchEnds`,
since TLAPS has no ENABLED here. *The instance facts*: that the controller's and
the worker's phase lists agree (`ProtocolsAgree`; the worker's is flattened by a
recursive operator), that levels follow from needs (`LevelsFollowNeeds`) and that
the order of layers alternates (`OrderAlternates`), each evaluated over bounded
arguments.

## 5. Findings

*A stale validation on TestPyPI* (`provider_stale`).
`docs/VANE_RELEASE.md:254` promises that an existing version is retried only
with identical bytes. `publish_testpypi` uploads with `skip-existing` what its
run's `assemble` validated, perhaps long ago. If another run has put part of
the version there meanwhile, re-running the failed jobs of the first adds
wheels of another build. `verify_testpypi` then fails and PyPI is safe, but the
version on TestPyPI stays mixed. `RevalidatedRetriesAreIdentical` shows that
retries from `assemble`, or an earlier failed job, are free of this.

*A monitor that is gone* (`matrix_blind`). `docs/HNSWLIB_INTEGRATION.md:112`
says that compiler overlap is rejected. The sampling thread ends silently when
reading a process name raises (`UnicodeDecodeError`), and the windows after that
are judged by samples from before and after them. `OkIsQuietIfSampled` shows that
this is the only way: as long as the monitor lives, the claim holds.

## 6. What is left out

Numbers (latencies, percentiles, deltas of real counters) are abstracted to
whether they are right; the property *OkIsQuiet* speaks of a compiler that runs
through a whole window, since a shorter one may fall between two samples.
An interrupt during the cleanup of a barrier run, the first or another, is not
modelled: it skips what is left of the `finally` block. Nor is an error of setting
the affinity, of running `systemctl` or of writing `constraints.json` in it.
An interrupt between `thread.start()` and `try` in the matrix
driver leaves a thread that is never stopped; `EventuallyGone` therefore starts
in the `try` statement. An OOM after the last captured phase does not disqualify
a barrier run, and `NoOomWhileMeasured` says so.

Key bytes in memory are not modelled; that they are overwritten is a matter of
two statements. `--package-local-runtime` also emits the repaired base wheel,
which is left out. In a full build the key file lies in the build directory, so
an erasure that fails leaves it there; `KeysErased` says that the build fails
then. An end-to-end process that overlaps with another on one output directory
may mark its report as failed, also one that was ok, and drop modes saved
meanwhile; `SavedStands` excludes exactly these two steps. A fixture that is
rebuilt in place while the end-to-end driver runs goes unnoticed if it is whole
at the end: the driver records `reference_sha256` and compares it with nothing
(the SIFT driver does). `OkAnswersParity` says what still holds then, the SQL
answers, and `LastingDamageIsSeen` that a rebuild is the only way. An interleaving of
two writes of one file inside a single `write_text` counts as a torn file. A SQL
benchmark does not record its index: one that is rebuilt together with the
saved results, before the layers are measured, goes unnoticed, and `Replace` in
LayerComparison does not do that. Binaries that are replaced while a driver
runs are not modelled. `parse_phases` and
`snapshot_cache_status` judge one diagnostic line by line and are part of the
step that reads it. `cache_counters` accepts interval counts that
happen not to decrease; `CountersAreExact` is about cumulative ones, which the
harness is asked for.

## 7. Plan

1. *done* PhaseBarrier, BisonFetch, ProviderRelease, HnswMatrix, the three
   readers, the provider jobs, EndToEnd, SiftComparison, LayerComparison.
2. *done* Theorems for the safety properties and refinements of all of them.
3. Relating the models: the worker call of EndToEnd and HnswMatrix as an instance
   of `MeasuredRun`, and the jobs `prepare`, `sign` and `package` of
   ProviderRelease as `ArtifactChain`.
