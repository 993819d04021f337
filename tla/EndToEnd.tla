------------------------------ MODULE EndToEnd ------------------------------
(***************************************************************************)
(* scripts/bench_index_sift_end_to_end.py run: two engines measured one    *)
(* after the other, then, under resource limits, a diagnostic worker for   *)
(* each.  SQL searches the index of a fixture that others may write to,    *)
(* and must answer as its parity samples do; OpenData has a store of its   *)
(* own.  The report is saved after every step of the comparison, and       *)
(* diagnostics with the last save only.  Whatever raises is recorded in    *)
(* the report that is on disk; an interrupt or a kill leaves it as it is.  *)
(* The operator may try again with the same output directory, or have      *)
(* started another process with it just before the first one made it.      *)
(***************************************************************************)
EXTENDS Naturals, FiniteSets, Sequences, FiniteSetsExt

CONSTANTS
  Recall,          \* what a recall may be, in units of the tolerance
  Minimum,         \* --minimum-recall
  Tolerance,       \* what --recall-tolerance may be, and its default
  Probe,           \* values of nprobe
  Queries,         \* queries of a diagnostic
  None,            \* nothing there, nothing asked for
  Torn,            \* a file that was truncated and not written
  MaxTries,        \* bound: processes started with one output directory
  MaxRebuilds      \* bound: rebuilds of the fixture

ASSUME EndToEndParameters ==
  /\ Recall \subseteq Nat /\ Minimum \in Nat /\ Queries \in Nat \ {0}
  /\ Tolerance \subseteq Nat
  /\ None \notin Probe \cup Recall \cup Tolerance
  /\ MaxTries \in Nat /\ MaxRebuilds \in Nat

Mode == {"sql-snapshot-capi", "opendata"}

(* What a report keeps of a mode, and a report.                            *)
Measured == [recall : Recall, nprobe : Probe \cup {None}]
Reports  == [status : {"none", "running", "ok", "failed"},
             modes : UNION {[modes -> Measured] : modes \in SUBSET Mode},
             qualified : BOOLEAN, sql : BOOLEAN, diagnosed : Recall \cup {None}]

(* What is in the directory of the fixture: a build of it, whole when its  *)
(* files are the ones that its index.json and build.json name.             *)
Fixtures == [build : 0 .. MaxRebuilds, whole : BOOLEAN]

(* The answers of a SQL worker: those of the parity samples, or others.    *)
Answers == {"parity", "other"}

ASSUME FilesAreDistinct == None # Torn /\ None \notin Reports /\ Torn \notin Reports

VARIABLES
  order,           \* argument: the modes in the order of measurement
  limits,          \* argument: resource limits are given
  tolerance,       \* argument: largest gap, None for any
  requested,       \* argument: nprobe, or None for the engine's own
  parity,          \* argument: the parity samples' answers, by their recall
  nprobe,          \* what the next OpenData worker is asked for, or None
  at,              \* where the process is, "idle" when there is none
  tries,           \* processes started
  outcome,         \* how the last one ended
  made,            \* the output directory exists
  report,          \* the report in memory
  disk,            \* summary.json: None, Torn, or a report
  fixture,         \* what is in the fixture's directory
  served,          \* what SQL workers found there, and what they answered
  rival, found     \* where a process that overlaps is, what it has read

args    == <<order, limits, tolerance, requested, parity>>
process == <<at, tries, outcome, made>>
kept    == <<args, rival, found>>
vars    == <<kept, nprobe, process, report, disk, fixture, served>>

NoReport == [status |-> "none", modes |-> <<>>, qualified |-> FALSE,
             sql |-> FALSE, diagnosed |-> None]

Init ==
  /\ order \in {<<"sql-snapshot-capi", "opendata">>, <<"opendata", "sql-snapshot-capi">>}
  /\ limits \in BOOLEAN
  /\ tolerance \in IF limits THEN Tolerance ELSE Tolerance \cup {None}
  /\ requested \in Probe \cup {None} /\ nprobe = requested
  /\ parity \in Recall
  /\ at = "idle" /\ tries = 0 /\ outcome = "none" /\ made = FALSE
  /\ report = NoReport /\ disk = None
  /\ fixture = [build |-> 0, whole |-> TRUE] /\ served = {}
  /\ rival = "none" /\ found = None
-----------------------------------------------------------------------------
(* write_json truncates and rewrites in place: an error leaves a torn file.*)
Save(content, to) ==
  \/ disk' = content /\ at' = to
  \/ disk' = Torn /\ at' = "handler"

Steps == {"arguments", "load", "save_first", "worker", "save_mode", "qualify",
          "save_quality", "sql_diagnostic", "diagnostic", "final",
          "save_last"}

(* Mutant: the directory is refused where errors are caught.               *)
Start_caught ==
  /\ at = "idle" /\ tries < MaxTries
  /\ tries' = tries + 1
  /\ at' = (IF made THEN "handler" ELSE "arguments") /\ outcome' = "none"
  /\ report' = NoReport
  /\ UNCHANGED <<kept, nprobe, made, disk, fixture, served>>

(* main refuses an output directory that exists, before anything is caught.*)
Start ==
  /\ at = "idle" /\ tries < MaxTries
  /\ tries' = tries + 1
  /\ IF made THEN at' = "idle" /\ outcome' = "refused"
             ELSE at' = "arguments" /\ outcome' = "none"
  /\ report' = NoReport
  /\ UNCHANGED <<kept, nprobe, made, disk, fixture, served>>

MakeDirectory ==
  /\ at = "arguments" /\ at' = "load"
  /\ made' = TRUE
  /\ UNCHANGED <<kept, nprobe, tries, outcome, report, disk, fixture, served>>

(* load_fixture: the files are the ones that the fixture itself names.     *)
(* Nothing says which build it is.                                         *)
load_fixture == fixture.whole

(* load_inputs, load_fixture and what is compared with them.               *)
LoadInputs ==
  /\ at = "load"
  /\ IF load_fixture THEN at' = "save_first" ELSE at' = "handler"
  /\ report' = [NoReport EXCEPT !.status = "running"]
  /\ UNCHANGED <<kept, nprobe, tries, outcome, made, disk, fixture, served>>

SaveFirst ==
  /\ at = "save_first" /\ Save(report, "worker")
  /\ UNCHANGED <<kept, nprobe, tries, outcome, made, report, fixture, served>>

(* What a worker reports.  Only OpenData has probes and a recorder.        *)
Result == [recall : Recall, nprobe : Probe, recorder : BOOLEAN]

(* The effective configuration must be the one that was asked for.         *)
Configured(result) ==
  /\ nprobe = None \/ result.nprobe = nprobe
  /\ limits => ~result.recorder

NextMode == order[Cardinality(DOMAIN report.modes) + 1]

(* The report with what a mode has measured.                               *)
WithMode(mode, measured) ==
  [report EXCEPT !.modes =
     [m \in DOMAIN report.modes \cup {mode} |->
        IF m = mode THEN measured ELSE report.modes[m]]]

(* What a SQL worker answers, with the recall of its answers.              *)
SqlResult == {r \in [answers : Answers, recall : Recall] :
                r.answers = "parity" => r.recall = parity}

Serve(answers) ==
  served' = served \cup {[fixture |-> fixture, answers |-> answers]}

(* Mutant: the SQL answers are compared with nothing.                      *)
AsExpected_unchecked(answers) == TRUE

(* summarize_records, with the expected results.                           *)
AsExpected(answers) == answers = "parity"

(* run_worker, and summarize_records of what it wrote: SampleStream.       *)
MeasureSql ==
  /\ at = "worker" /\ NextMode = "sql-snapshot-capi"
  /\ \E result \in SqlResult :
       /\ Serve(result.answers)
       /\ IF AsExpected(result.answers)
          THEN at' = "save_mode"
               /\ report' = WithMode(NextMode, [recall |-> result.recall, nprobe |-> None])
          ELSE at' = "handler" /\ UNCHANGED report
  /\ UNCHANGED <<kept, nprobe, tries, outcome, made, disk, fixture>>

(* The probes are frozen at what the engine used.                          *)
MeasureOpendata ==
  /\ at = "worker" /\ NextMode = "opendata"
  /\ \E result \in Result :
       IF Configured(result)
       THEN /\ at' = "save_mode" /\ nprobe' = result.nprobe
            /\ report' = WithMode(NextMode, [recall |-> result.recall,
                                             nprobe |-> result.nprobe])
       ELSE at' = "handler" /\ UNCHANGED <<nprobe, report>>
  /\ UNCHANGED <<kept, tries, outcome, made, disk, fixture, served>>

SaveMode ==
  /\ at = "save_mode"
  /\ Save(report, IF DOMAIN report.modes = Mode THEN "qualify" ELSE "worker")
  /\ UNCHANGED <<kept, nprobe, tries, outcome, made, report, fixture, served>>
-----------------------------------------------------------------------------
(* Mutant: the gap is taken for a signed difference.                       *)
qualify_recall_signed(modes) ==
  /\ \A m \in Mode : modes[m].recall >= Minimum
  /\ tolerance # None =>
       modes["sql-snapshot-capi"].recall <= modes["opendata"].recall + tolerance

(* Both recalls reach the floor, and they are close.                       *)
qualify_recall(modes) ==
  LET values == {modes[m].recall : m \in Mode}
  IN  /\ Min(values) >= Minimum
      /\ tolerance # None => Max(values) <= Min(values) + tolerance

Qualify ==
  /\ at = "qualify"
  /\ IF qualify_recall(report.modes)
     THEN at' = "save_quality" /\ report' = [report EXCEPT !.qualified = TRUE]
     ELSE at' = "handler" /\ UNCHANGED report
  /\ UNCHANGED <<kept, nprobe, tries, outcome, made, disk, fixture, served>>

SaveQuality ==
  /\ at = "save_quality"
  /\ Save(report, IF limits THEN "sql_diagnostic" ELSE "final")
  /\ UNCHANGED <<kept, nprobe, tries, outcome, made, report, fixture, served>>

(* Two passes over the queries: the first search misses the cache, and no  *)
(* other does.                                                             *)
sql_cache_hits(events) ==
  /\ Len(events) = 2 * Queries
  /\ \A i \in DOMAIN events : events[i] <=> i > 1

SqlDiagnostic ==
  /\ at = "sql_diagnostic"
  /\ \E answers \in Answers, n \in 2 * Queries - 1 .. 2 * Queries + 1 :
     \E events \in [1 .. n -> BOOLEAN] :
       /\ Serve(answers)
       /\ IF AsExpected(answers) /\ sql_cache_hits(events)
          THEN at' = "diagnostic" /\ report' = [report EXCEPT !.sql = TRUE]
          ELSE at' = "handler" /\ UNCHANGED report
  /\ UNCHANGED <<kept, nprobe, tries, outcome, made, disk, fixture>>

(* It must have recorded, and done what was compared.                      *)
SameWork(result) ==
  /\ result.recorder
  /\ result.nprobe = nprobe
  /\ result.recall = report.modes["opendata"].recall

(* A second worker, on a copy of its own of the store and with the frozen  *)
(* probes; its counters are read as in CacheCounters.                      *)
OpendataDiagnostic ==
  /\ at = "diagnostic"
  /\ \E result \in Result, counted \in BOOLEAN :
       IF SameWork(result) /\ counted
       THEN at' = "final" /\ report' = [report EXCEPT !.diagnosed = result.recall]
       ELSE at' = "handler" /\ UNCHANGED report
  /\ UNCHANGED <<kept, nprobe, tries, outcome, made, disk, fixture, served>>

(* Mutant: the fixture is not looked at again.                             *)
CheckFixture_trusting ==
  /\ at = "final" /\ at' = "save_last"
  /\ report' = [report EXCEPT !.status = "ok"]
  /\ UNCHANGED <<kept, nprobe, tries, outcome, made, disk, fixture, served>>

(* The fixture must load once more.  It is not compared with the one that  *)
(* was loaded at the start.                                                *)
CheckFixture ==
  /\ at = "final"
  /\ IF load_fixture
     THEN at' = "save_last" /\ report' = [report EXCEPT !.status = "ok"]
     ELSE at' = "handler" /\ UNCHANGED report
  /\ UNCHANGED <<kept, nprobe, tries, outcome, made, disk, fixture, served>>

SaveLast ==
  /\ at = "save_last" /\ Save(report, "idle")
  /\ outcome' = IF at' = "idle" THEN "ok" ELSE outcome
  /\ UNCHANGED <<kept, nprobe, tries, made, report, fixture, served>>
-----------------------------------------------------------------------------
(* Any step may raise: a worker fails or times out, a sample is refused, a *)
(* file cannot be read.                                                    *)
Raise ==
  /\ at \in Steps /\ at' = "handler"
  /\ UNCHANGED <<kept, nprobe, tries, outcome, made, report, disk, fixture,
                 served>>

(* Mutant: without a report on disk there is nothing to mark.              *)
Handler_present ==
  /\ at = "handler" /\ at' = "idle" /\ outcome' = "failed"
  /\ IF disk \in {None, Torn}
     THEN UNCHANGED disk
     ELSE disk' \in {[disk EXCEPT !.status = "failed"], Torn}
  /\ UNCHANGED <<kept, nprobe, tries, made, report, fixture, served>>

(* The handler of main marks the report it finds on disk; a torn one makes *)
(* the handler itself raise.                                               *)
Handler ==
  /\ at = "handler" /\ at' = "idle" /\ outcome' = "failed"
  /\ IF ~made \/ disk = Torn
     THEN UNCHANGED disk
     ELSE LET partial == IF disk = None THEN NoReport ELSE disk
          IN  disk' \in {[partial EXCEPT !.status = "failed"], Torn}
  /\ UNCHANGED <<kept, nprobe, tries, made, report, fixture, served>>

(* Interrupted or killed, which main does not catch.                       *)
Stop ==
  /\ at # "idle" /\ at' = "idle" /\ outcome' = "stopped"
  /\ disk' \in IF at \in {"save_first", "save_mode", "save_quality",
                          "save_last", "handler"} /\ made
               THEN {disk, Torn} ELSE {disk}
  /\ UNCHANGED <<kept, nprobe, tries, made, report, fixture, served>>

(* A second process has found no directory either.  Of the two, this one   *)
(* comes too late to make it; the one that made it is the process above.   *)
Overlap ==
  /\ at = "arguments" /\ ~made /\ rival = "none" /\ rival' = "late"
  /\ UNCHANGED <<args, nprobe, process, report, disk, fixture, served, found>>

(* It raises, and its handler finds a directory that is not its own.       *)
OverlapReads ==
  /\ rival = "late" /\ made
  /\ IF disk = Torn
     THEN rival' = "gone" /\ UNCHANGED found
     ELSE rival' = "marks" /\ found' = IF disk = None THEN NoReport ELSE disk
  /\ UNCHANGED <<args, nprobe, process, report, disk, fixture, served>>

(* It writes back what it has read, whatever was saved in between.         *)
OverlapMarks ==
  /\ rival = "marks" /\ rival' = "gone"
  /\ disk' \in {[found EXCEPT !.status = "failed"], Torn}
  /\ UNCHANGED <<args, nprobe, process, report, fixture, served, found>>

(* Somebody replaces or removes a file of the fixture.                     *)
Damage ==
  /\ fixture.whole /\ fixture' = [fixture EXCEPT !.whole = FALSE]
  /\ UNCHANGED <<kept, nprobe, process, report, disk, served>>

(* Somebody builds it anew in the same place, or puts its files back.      *)
Rebuild ==
  /\ fixture.build < MaxRebuilds
  /\ fixture' = [build |-> fixture.build + 1, whole |-> TRUE]
  /\ UNCHANGED <<kept, nprobe, process, report, disk, served>>

Next ==
  \/ Start \/ MakeDirectory \/ LoadInputs \/ SaveFirst
  \/ MeasureSql \/ MeasureOpendata \/ SaveMode \/ Qualify \/ SaveQuality
  \/ SqlDiagnostic \/ OpendataDiagnostic
  \/ CheckFixture \/ SaveLast
  \/ Raise \/ Handler \/ Stop
  \/ Overlap \/ OverlapReads \/ OverlapMarks
  \/ Damage \/ Rebuild

Spec == Init /\ [][Next]_vars
-----------------------------------------------------------------------------
Saved == disk \notin {None, Torn}
Ok    == Saved /\ disk.status = "ok"

(* A report that says ok compares two engines that both reached the floor, *)
(* within the tolerance, the second with the probes that were asked for;   *)
(* under limits it has both diagnostics, the second of a worker that found *)
(* what the compared one had found.  That also holds of a report into      *)
(* which a process that overlaps has written.                              *)
OkIsComparable ==
  Ok =>
    LET sql == disk.modes["sql-snapshot-capi"]
        opendata == disk.modes["opendata"]
    IN  /\ sql.recall >= Minimum /\ opendata.recall >= Minimum
        /\ tolerance # None => /\ sql.recall <= opendata.recall + tolerance
                               /\ opendata.recall <= sql.recall + tolerance
        /\ requested # None => opendata.nprobe = requested
        /\ disk.sql <=> limits
        /\ disk.diagnosed = IF limits THEN opendata.recall ELSE None

(* And every SQL worker of the run, the diagnostic one too, has answered   *)
(* what the parity samples answer, so that the recall reported is theirs,  *)
(* whatever became of the fixture in the meantime.                         *)
OkAnswersParity ==
  Ok => /\ \A s \in served : s.answers = "parity"
        /\ disk.modes["sql-snapshot-capi"].recall = parity

(* If one of them has read a damaged fixture, then somebody has rebuilt it *)
(* since: damage that lasts does not pass.  A rebuild does, since nothing  *)
(* compares the two builds: of that, OkAnswersParity says what is left.    *)
LastingDamageIsSeen ==
  Ok => \A s \in served : s.fixture.whole \/ s.fixture.build < fixture.build

(* A run that raised after it made its directory leaves a report that says *)
(* so, unless the report could not be written, and no process that         *)
(* overlaps puts back what had been there before.                          *)
FailureIsRecorded ==
  outcome = "failed" /\ made => disk = Torn \/ (Saved /\ disk.status = "failed")

(* A verdict on disk is final, whatever is started with the same output    *)
(* directory, and a mode once saved is not dropped from the report: but by *)
(* a process that overlaps, which may mark any report as failed and put    *)
(* back an earlier one.  It never lets a verdict pass for another.         *)
SavedStands ==
  [][ Saved /\ Saved' =>
        IF rival' = rival
        THEN /\ disk.status \in {"ok", "failed"} /\ rival # "gone" => disk' = disk
             /\ \A m \in DOMAIN disk.modes :
                  m \in DOMAIN disk'.modes /\ disk'.modes[m] = disk.modes[m]
        ELSE disk'.status = "failed" \/ disk' = disk ]_vars
=============================================================================
