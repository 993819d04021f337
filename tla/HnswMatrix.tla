------------------------------ MODULE HnswMatrix ------------------------------
(***************************************************************************)
(* The matrix driver of scripts/bench_index_hnsw_layers.py.                *)
(*                                                                         *)
(* The main thread measures every layer once per repeat, each in a worker  *)
(* of its own (PhaseBarrier), while a second thread samples the host.      *)
(* Afterwards the samples decide whether the matrix counts.  Input files   *)
(* may be replaced while it runs, compilers come and go, workers fail, the *)
(* user interrupts, and the process may be killed.                         *)
(***************************************************************************)
EXTENDS Naturals, Sequences

CONSTANTS
  Repeats,         \* --repeats
  File,            \* graph, binaries, sources: what the report identifies
  Ranking,         \* what a worker may answer
  None,            \* no answer yet
  SignalPoint      \* where the one interrupt may arrive

ASSUME MatrixParameters ==
  /\ Repeats \in 1..10
  /\ None \notin Ranking

(* Where the main thread is.                                               *)
TryBody == {"preflight", "switched", "measuring", "returned", "reverify"}
Main    == TryBody \cup {"inputs", "quiet", "setup", "failing", "finally",
                         "join", "final", "qualify", "print", "exited", "killed"}

ASSUME SignalsReachAProcess == SignalPoint \subseteq Main \ {"exited", "killed"}

VARIABLES
  pc,              \* the main thread
  code,            \* exit code: "none", "zero", "error"
  affinity,        \* of the main thread: "original" or "controller"
  report,          \* the dictionary result
  disk,            \* report.json
  raised,          \* an exception is on its way through the finally block
  signalled,       \* where the interrupt arrived, or "nowhere"
  broken,          \* what could not be written, or judged by its counters
  expected,        \* the answer all layers have to agree on
  outcome,         \* of the worker that has just returned
  version,         \* of every input file, as it is now
  recorded,        \* of every input file, as identified at the start
  monitor,         \* the sampling thread
  done,            \* the event that stops it
  seen,            \* what its samples show; blind: reading the host has raised
  compiler,        \* a compiler is running on the host
  window           \* the measured window: ready to after_close

exits     == <<code, raised, signalled, broken>>
documents == <<report, disk>>
judging   == <<expected, outcome>>
sampling  == <<monitor, done, seen>>
host      == <<version, compiler, recorded>>
vars == <<pc, affinity, window, exits, documents, judging, sampling, host>>

Absent == [status |-> "absent", runs |-> <<>>]
Torn   == [status |-> "torn", runs |-> <<>>]

Closed == [open |-> FALSE, sampled |-> FALSE, first |-> FALSE,
           fresh |-> FALSE, throughout |-> FALSE]

Init ==
  /\ pc = "inputs" /\ code = "none" /\ affinity = "original"
  /\ report = [status |-> "in_progress", runs |-> <<>>]
  /\ disk = Absent
  /\ raised = FALSE /\ signalled = "nowhere" /\ broken = {}
  /\ expected = None /\ outcome = None
  /\ version = [f \in File |-> 0] /\ recorded = [f \in File |-> 0]
  /\ monitor = "absent" /\ done = FALSE
  /\ seen = [any |-> FALSE, compiler |-> FALSE, blind |-> FALSE]
  /\ compiler = FALSE /\ window = Closed
-----------------------------------------------------------------------------
(***************************************************************************)
(* Helpers.                                                                *)
(***************************************************************************)
Layers == 3

(* In every other repeat the layers come in reverse.                       *)
Order(repeat) == IF repeat % 2 = 0 THEN <<"native", "provider", "sql">>
                                   ELSE <<"sql", "provider", "native">>

(* The layer that is measured after n others.                              *)
LayerAfter(n) == Order(n \div Layers)[(n % Layers) + 1]

(* Mutant: the exit code says so, the report does not.                     *)
Save_verdict_only(status, runs) ==
  /\ report' = [status |-> status, runs |-> runs]
  /\ disk' = IF status \in {"failed", "interrupted"} THEN disk ELSE report'

Save(status, runs) == report' = [status |-> status, runs |-> runs]
                      /\ disk' = report'

(* Writing report.json raises: before the file was opened, or after it was *)
(* truncated.  The dictionary has been updated already.                    *)
SaveFails(status, runs) ==
  /\ report' = [status |-> status, runs |-> runs]
  /\ disk' \in {disk, Torn}
  /\ broken' = broken \cup {"report.json"}

Exit(c) == pc' = "exited" /\ code' = c

(* An exception inside the try statement is caught and reported.           *)
Raise == pc' = "failing"

(* A sample of the host.                                                   *)
Observe ==
  seen' = [seen EXCEPT !.any = TRUE, !.compiler = seen.compiler \/ compiler]

(* Reading /proc raises, as for a process name that is not UTF-8.          *)
Blinded == seen' = [seen EXCEPT !.blind = TRUE]

(* run_constrained restores the affinity it found, and the driver pins     *)
(* itself again, whatever happened.                                        *)
AfterWorker == "controller"
-----------------------------------------------------------------------------
(***************************************************************************)
(* The main thread.                                                        *)
(***************************************************************************)
(* Pin the controller, read and compare all inputs, record what they are.  *)
LoadInputs ==
  /\ pc = "inputs"
  /\ pc' = "quiet"
  /\ affinity' = "controller"
  /\ recorded' = version
  /\ UNCHANGED <<window, version, compiler, exits, documents, judging,
                 sampling>>

(* Until here, and until the try statement, an error just ends the process.*)
StartupFails ==
  /\ pc \in {"inputs", "quiet", "setup"}
  /\ Exit("error")
  /\ UNCHANGED <<affinity, raised, signalled, broken, window, host, documents,
                 judging, sampling>>

(* Wait for a quiet host, then start the monitor.  It pins itself first.   *)
StartMonitor ==
  /\ pc = "quiet"
  /\ ~compiler
  /\ pc' = "setup"
  /\ monitor' = "running"
  /\ UNCHANGED <<affinity, done, seen, window, host, exits, documents,
                 judging>>

EnterTry ==
  /\ pc = "setup"
  /\ pc' = "preflight"
  /\ UNCHANGED <<affinity, window, host, exits, documents, judging, sampling>>

(* Another quiet period, then the affinity the launcher wants to see.  The *)
(* period takes six seconds: a live monitor has sampled the host.          *)
Preflight ==
  /\ pc = "preflight"
  /\ ~compiler
  /\ monitor = "running" => seen.any
  /\ pc' = "switched"
  /\ affinity' = "original"
  /\ UNCHANGED <<window, host, exits, documents, judging, sampling>>

(* The worker reaches "ready": the window opens.  The launcher has pinned  *)
(* the main thread again (PhaseBarrier).                                   *)
Launch ==
  /\ pc = "switched"
  /\ pc' = "measuring"
  /\ affinity' = "controller"
  /\ window' = [open |-> TRUE, sampled |-> FALSE, first |-> seen.any,
                fresh |-> seen.any /\ monitor = "running",
                throughout |-> compiler]
  /\ UNCHANGED <<host, exits, documents, judging, sampling>>

(* The worker reaches "after_close" and returns.  A live monitor samples   *)
(* ten times a second: no window passes without a sample.                  *)
WorkerReturns ==
  /\ pc = "measuring"
  /\ monitor = "running" => window.sampled
  /\ pc' = "returned"
  /\ affinity' = AfterWorker
  /\ \E ranking \in Ranking, verified, busy \in BOOLEAN :
       outcome' = [layer |-> LayerAfter(Len(report.runs)), ranking |-> ranking,
                   verified |-> verified, busy |-> busy, first |-> window.first,
                   fresh |-> window.fresh /\ monitor = "running",
                   compiling |-> window.throughout, files |-> version]
  /\ window' = Closed
  /\ UNCHANGED <<expected, host, exits, documents, sampling>>

(* The preflight times out, the launcher or the worker fails.              *)
WorkerFails ==
  /\ pc \in {"preflight", "switched", "measuring"}
  /\ Raise
  /\ affinity' = AfterWorker
  /\ window' = Closed
  /\ UNCHANGED <<host, exits, documents, judging, sampling>>

(* The answer differs from that of the first worker.                       *)
Mismatch == expected # None /\ outcome.ranking # expected

Acceptable == outcome.verified /\ ~Mismatch

Complete(runs) == Len(runs) = Layers * Repeats

(* Validate, append to the report and save it.                             *)
Accept ==
  /\ pc = "returned"
  /\ Acceptable
  /\ expected' = IF expected = None THEN outcome.ranking ELSE expected
  /\ Save("in_progress", Append(report.runs, outcome))
  /\ pc' = IF Complete(report'.runs) THEN "reverify" ELSE "preflight"
  /\ outcome' = None
  /\ UNCHANGED <<affinity, window, host, exits, sampling>>

AcceptUnsaved ==
  /\ pc = "returned"
  /\ Acceptable
  /\ expected' = IF expected = None THEN outcome.ranking ELSE expected
  /\ SaveFails("in_progress", Append(report.runs, outcome))
  /\ Raise
  /\ outcome' = None
  /\ UNCHANGED <<code, raised, signalled, affinity, window, host, sampling>>

Reject ==
  /\ pc = "returned"
  /\ ~Acceptable
  /\ Raise
  /\ outcome' = None
  /\ UNCHANGED <<affinity, expected, window, host, exits, documents,
                 sampling>>

(* Mutant: the inputs are not identified again.                            *)
Unchanged_trusted == TRUE

Unchanged == version = recorded

Reverify ==
  /\ pc = "reverify"
  /\ IF Unchanged THEN pc' = "finally" ELSE Raise
  /\ UNCHANGED <<affinity, window, host, exits, documents, judging, sampling>>

(* An interrupt that arrived is what brought the main thread here.         *)
Failure == IF signalled # "nowhere" THEN "interrupted" ELSE "failed"

(* Mutant: the handler does not raise again.                               *)
Handle_swallowing ==
  /\ pc = "failing"
  /\ Save(Failure, report.runs)
  /\ pc' = "finally"
  /\ UNCHANGED <<affinity, window, host, exits, judging, sampling>>

Handle ==
  /\ pc = "failing"
  /\ Save(Failure, report.runs)
  /\ raised' = TRUE
  /\ pc' = "finally"
  /\ UNCHANGED <<code, affinity, signalled, broken, window, host, judging,
                 sampling>>

(* The handler's own exception passes the finally block instead.           *)
HandleUnsaved ==
  /\ pc = "failing"
  /\ SaveFails(Failure, report.runs)
  /\ raised' = TRUE
  /\ pc' = "finally"
  /\ UNCHANGED <<code, affinity, signalled, window, host, judging, sampling>>

(* Mutant: the event is set on success only.                               *)
StopMonitor_on_success ==
  /\ pc = "finally"
  /\ done' = ~raised
  /\ pc' = "join"
  /\ UNCHANGED <<affinity, monitor, seen, window, host, exits, documents,
                 judging>>

StopMonitor ==
  /\ pc = "finally"
  /\ done' = TRUE
  /\ pc' = "join"
  /\ UNCHANGED <<affinity, monitor, seen, window, host, exits, documents,
                 judging>>

Join ==
  /\ pc = "join"
  /\ monitor # "running"
  /\ pc' = "final"
  /\ UNCHANGED <<affinity, window, host, exits, documents, judging, sampling>>

(* A last sample, and host.json.  The exception goes on from here.         *)
FinalSample ==
  /\ pc = "final"
  /\ Observe
  /\ IF raised THEN Exit("error") ELSE pc' = "qualify" /\ UNCHANGED code
  /\ UNCHANGED <<affinity, raised, signalled, broken, monitor, done, window,
                 host, documents, judging>>

FinalSampleFails ==
  /\ pc = "final"
  /\ Blinded
  /\ Exit("error")
  /\ UNCHANGED <<affinity, raised, signalled, broken, monitor, done, window,
                 host, documents, judging>>

HostJsonFails ==
  /\ pc = "final"
  /\ Observe
  /\ broken' = broken \cup {"host.json"}
  /\ Exit("error")
  /\ UNCHANGED <<affinity, raised, signalled, monitor, done, window, host,
                 documents, judging>>

(* Mutant: the windows are judged, compilers are not.                      *)
Qualified_by_load(run) == run.fresh => ~run.busy

(* No compiler in any sample; and the counters of the two samples around a *)
(* window show its load, unless these samples are so far from it that the  *)
(* load may be diluted.                                                    *)
Qualified(run) == ~seen.compiler /\ (run.fresh => ~run.busy)

Runs == {report.runs[i] : i \in DOMAIN report.runs}

(* What the judgement may be.                                              *)
Verdicts ==
  {qualified \in BOOLEAN :
     /\ qualified => \A run \in Runs : Qualified(run)
     /\ ~qualified => \E run \in Runs : ~(Qualified(run) /\ run.fresh)}

(* max() of the samples before the window, when there is none; or busy(),  *)
(* when a counter went back or none moved.  Nobody catches these.          *)
QualifyRaises ==
  /\ pc = "qualify"
  /\ \/ \E run \in Runs : ~run.first
        /\ UNCHANGED broken
     \/ Runs # {} /\ broken' = broken \cup {"counters"}
  /\ Exit("error")
  /\ UNCHANGED <<affinity, raised, signalled, window, host, documents,
                 judging, sampling>>

Qualify ==
  /\ pc = "qualify"
  /\ \A run \in Runs : run.first
  /\ \E qualified \in Verdicts :
       /\ Save(IF qualified THEN "ok" ELSE "excluded", report.runs)
       /\ IF qualified THEN pc' = "print" /\ UNCHANGED code ELSE Exit("error")
  /\ UNCHANGED <<affinity, raised, signalled, broken, window, host, judging,
                 sampling>>

QualifyUnsaved ==
  /\ pc = "qualify"
  /\ \A run \in Runs : run.first
  /\ \E qualified \in Verdicts :
       SaveFails(IF qualified THEN "ok" ELSE "excluded", report.runs)
  /\ Exit("error")
  /\ UNCHANGED <<affinity, raised, signalled, window, host, judging, sampling>>

(* The summary on standard output, which may be gone.                      *)
Report ==
  /\ pc = "print"
  /\ \/ Exit("zero") /\ UNCHANGED broken
     \/ Exit("error") /\ broken' = broken \cup {"stdout"}
  /\ UNCHANGED <<affinity, raised, signalled, window, host, documents,
                 judging, sampling>>
-----------------------------------------------------------------------------
(***************************************************************************)
(* The monitor, the host and the user.                                     *)
(***************************************************************************)
Sample ==
  /\ monitor = "running"
  /\ ~done
  /\ Observe
  /\ window' = [window EXCEPT !.sampled = window.open]
  /\ UNCHANGED <<pc, affinity, monitor, done, host, exits, documents,
                 judging>>

(* The thread is gone and nobody is told.                                  *)
MonitorFails ==
  /\ monitor = "running"
  /\ monitor' = "failed"
  /\ Blinded
  /\ UNCHANGED <<pc, affinity, done, window, host, exits, documents, judging>>

MonitorStops ==
  /\ monitor = "running"
  /\ done
  /\ monitor' = "stopped"
  /\ UNCHANGED <<pc, affinity, done, seen, window, host, exits, documents,
                 judging>>

(* An interrupt: caught in the try statement, not caught elsewhere, but in *)
(* the handler it still passes the finally block.  While a worker is       *)
(* running, its launcher cleans up first.                                  *)
Interrupt ==
  /\ signalled = "nowhere"
  /\ pc \in SignalPoint
  /\ signalled' = pc
  /\ \/ pc \in TryBody /\ Raise /\ UNCHANGED <<code, raised>>
     \/ pc = "failing" /\ pc' = "finally" /\ raised' = TRUE /\ UNCHANGED code
     \/ pc \notin TryBody \cup {"failing"} /\ Exit("error") /\ UNCHANGED raised
  /\ affinity' = IF pc \in {"switched", "measuring"} THEN AfterWorker ELSE affinity
  /\ window' = Closed
  /\ outcome' = None
  /\ UNCHANGED <<expected, broken, host, documents, sampling>>

(* A kill may tear the document that is being written.                     *)
Kill ==
  /\ pc \notin {"exited", "killed"}
  /\ pc' = "killed"
  /\ monitor' = IF monitor = "running" THEN "stopped" ELSE monitor
  /\ \/ UNCHANGED disk
     \/ pc \in {"returned", "failing", "qualify"} /\ disk' = Torn
  /\ UNCHANGED <<affinity, report, done, seen, window, host, exits, judging>>

(* A file is replaced, once and for good.                                  *)
Replace(f) ==
  /\ version[f] = 0
  /\ version' = [version EXCEPT ![f] = 1]
  /\ UNCHANGED <<pc, affinity, recorded, compiler, window, exits, documents,
                 judging, sampling>>

CompilerStarts ==
  /\ ~compiler
  /\ compiler' = TRUE
  /\ UNCHANGED <<pc, affinity, recorded, version, window, exits, documents,
                 judging, sampling>>

CompilerStops ==
  /\ compiler
  /\ compiler' = FALSE
  /\ window' = [window EXCEPT !.throughout = FALSE]
  /\ UNCHANGED <<pc, affinity, recorded, version, exits, documents, judging,
                 sampling>>

MainStep ==
  \/ LoadInputs \/ StartupFails \/ StartMonitor \/ EnterTry \/ Preflight
  \/ Launch \/ WorkerReturns \/ WorkerFails \/ Accept \/ AcceptUnsaved
  \/ Reject \/ Reverify \/ Handle \/ HandleUnsaved \/ StopMonitor \/ Join
  \/ FinalSample \/ FinalSampleFails \/ HostJsonFails
  \/ QualifyRaises \/ Qualify \/ QualifyUnsaved \/ Report

Next ==
  \/ MainStep
  \/ Sample \/ MonitorFails \/ MonitorStops
  \/ Interrupt \/ Kill
  \/ CompilerStarts \/ CompilerStops \/ \E f \in File : Replace(f)

Spec == Init /\ [][Next]_vars

(* The main thread goes on whenever it can (workers end: PhaseBarrier's    *)
(* Terminates; a preflight gives up after 15 minutes), and the monitor     *)
(* samples every 0.1 s and stops when it is told to.                       *)
FairSpec == Spec /\ WF_vars(MainStep) /\ WF_vars(Sample) /\ WF_vars(MonitorStops)
-----------------------------------------------------------------------------
(***************************************************************************)
(* Properties.                                                             *)
(***************************************************************************)
(* The layers in the order they have to be measured in: back and forth.    *)
Sequence(repeats) ==
  [i \in 1 .. Layers * repeats |->
     LET place == (i - 1) % (2 * Layers)
     IN  <<"native", "provider", "sql">>[
           IF place < Layers THEN place + 1 ELSE 2 * Layers - place]]

DiskRuns == {disk.runs[i] : i \in DOMAIN disk.runs}

(* A report "ok" has every layer once per repeat, in alternating order,    *)
(* every worker verified, one answer, and no layer was measured with a     *)
(* file other than the one that the report identifies.                     *)
OkIsComplete ==
  disk.status = "ok" =>
    /\ [i \in DOMAIN disk.runs |-> disk.runs[i].layer] = Sequence(Repeats)
    /\ \A r, s \in DiskRuns : r.verified /\ r.ranking = s.ranking
    /\ \A run \in DiskRuns : run.files = recorded

(* docs/HNSWLIB_INTEGRATION.md: "The driver rejects compiler overlap and   *)
(* excessive host/sibling activity".  A compiler that runs from the start  *)
(* of a measured window to its end, or load in it, excludes the matrix.    *)
OkIsQuiet ==
  disk.status = "ok" => \A run \in DiskRuns : ~run.compiling /\ ~run.busy

(* True as long as the monitor can read the host.                          *)
OkIsQuietIfSampled == seen.blind \/ OkIsQuiet

(* A report without a verdict.                                             *)
Unfinished == {"absent", "in_progress", "torn"}

(* When the process has ended by itself, and has been interrupted inside   *)
(* the try statement at most:                                              *)
(* - the exit code is zero only with "ok" on disk, and is another with it  *)
(*   only where the summary could not be printed;                          *)
(* - the report has no verdict only where it could not be written, or where*)
(*   all layers were measured and accepted, and then the host could not be *)
(*   read, its samples not be written or its counters not be judged.       *)
(* So whatever breaks the loop itself is recorded.                         *)
VerdictIsRecorded ==
  /\ pc = "exited" /\ report.runs # <<>>
  /\ signalled \in TryBody \cup {"nowhere"}
  =>
    /\ code = "zero" => disk.status = "ok"
    /\ disk.status = "ok" => code = "zero" \/ "stdout" \in broken
    /\ disk.status \in Unfinished =>
         \/ "report.json" \in broken
         \/ ~raised /\ Complete(disk.runs) /\ (seen.blind \/ broken # {})

(* A verdict on disk is final, and runs that were saved stay saved (unless *)
(* a kill or an error tears the file).                                     *)
VerdictIsFinal ==
  [][disk'.status # "torn" /\ disk # disk' =>
       /\ disk.status \in Unfinished
       /\ Len(disk.runs) <= Len(disk'.runs)
       /\ SubSeq(disk'.runs, 1, Len(disk.runs)) = disk.runs]_vars

(* The process consists of the main thread and the monitor: it is gone     *)
(* when neither is left.                                                   *)
Gone == pc \in {"exited", "killed"} /\ monitor # "running"

(* Once the try statement is entered the process ends: the monitor is told *)
(* to stop and joined, however a worker or the user breaks the loop.  (An  *)
(* interrupt just before the event is set leaves the thread behind.)       *)
EventuallyGone == pc \in TryBody ~> Gone \/ signalled = "finally"
=============================================================================
