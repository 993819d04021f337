-------------------------- MODULE EndToEnd_proofs --------------------------
(***************************************************************************)
(* Proofs about EndToEnd, for every set of recalls and of probes, every    *)
(* floor and tolerance, any number of queries and of processes.            *)
(***************************************************************************)
EXTENDS EndToEnd, FiniteSetTheorems, TLAPS

Orders == {<<"sql-snapshot-capi", "opendata">>, <<"opendata", "sql-snapshot-capi">>}

(* What kind of value each variable has.                                   *)
ArgumentTypes ==
  /\ order \in Orders
  /\ limits \in BOOLEAN
  /\ tolerance \in Tolerance \cup {None}
  /\ requested \in Probe \cup {None}
  /\ parity \in Recall

ProcessTypes ==
  /\ at \in Steps \cup {"idle", "handler"}
  /\ tries \in Nat
  /\ outcome \in {"none", "ok", "failed", "stopped", "refused"}
  /\ made \in BOOLEAN
  /\ nprobe \in Probe \cup {None}

FileTypes ==
  /\ report \in Reports
  /\ disk \in Reports \cup {None, Torn}
  /\ fixture \in Fixtures
  /\ served \subseteq [fixture : Fixtures, answers : Answers]
  /\ rival \in {"none", "late", "marks", "gone"}
  /\ found \in Reports \cup {None}

TypeOK == ArgumentTypes /\ ProcessTypes /\ FileTypes

(* Who owns the directory: only the process that has made it works in it,  *)
(* and before that nothing has been written.                               *)
Directory ==
  /\ at = "arguments" => ~made
  /\ at \notin {"idle", "arguments", "handler"} => made
  /\ ~made => disk = None /\ served = {}
  /\ at # "idle" => outcome = "none"
  /\ rival = "marks" => made /\ found \in Reports

Measuring == {"qualify", "save_quality", "sql_diagnostic", "diagnostic",
              "final", "save_last"}

(* How far the report in memory is, by the place where the process is.     *)
Progress ==
  /\ at \in {"arguments", "load"} => report = NoReport
  /\ at = "save_first" => DOMAIN report.modes = {}
  /\ at = "worker" => DOMAIN report.modes = {} \/ DOMAIN report.modes = {order[1]}
  /\ at = "save_mode" => DOMAIN report.modes = {order[1]} \/ DOMAIN report.modes = Mode
  /\ at \in Measuring => DOMAIN report.modes = Mode
  /\ at \in Steps \ {"arguments", "load", "save_last"} => report.status = "running"
  /\ at = "save_last" => report.status = "ok"

(* The probes are those that were asked for, and those of the report.      *)
Probes ==
  /\ requested # None => nprobe = requested
  /\ "opendata" \in DOMAIN report.modes => report.modes["opendata"].nprobe = nprobe

Close(modes) ==
  LET sql == modes["sql-snapshot-capi"].recall
      opendata == modes["opendata"].recall
  IN  /\ sql >= Minimum /\ opendata >= Minimum
      /\ tolerance # None => /\ sql <= opendata + tolerance
                             /\ opendata <= sql + tolerance

(* Past the comparison the two recalls are close.                          *)
Compared == at \in Measuring \ {"qualify"} => Close(report.modes)

(* Which diagnostics the report holds.                                     *)
Diagnosed ==
  /\ at \in {"save_first", "worker", "save_mode", "qualify", "save_quality",
             "sql_diagnostic"} => ~report.sql /\ report.diagnosed = None
  /\ at = "sql_diagnostic" => limits
  /\ at = "diagnostic" => limits /\ report.sql /\ report.diagnosed = None
  /\ at \in {"final", "save_last"} =>
       /\ report.sql <=> limits
       /\ report.diagnosed = IF limits THEN report.modes["opendata"].recall ELSE None

(* A process goes on only after answers that are the expected ones.        *)
Expected ==
  at \in Steps =>
    /\ \A s \in served : s.answers = "parity"
    /\ "sql-snapshot-capi" \in DOMAIN report.modes =>
         report.modes["sql-snapshot-capi"].recall = parity

(* What was found there was whole, or has been built anew since.           *)
Outlived(s) == s.fixture.whole \/ s.fixture.build < fixture.build

(* A build that is whole now has never been found damaged.                 *)
Builds ==
  /\ \A s \in served : s.fixture.build <= fixture.build
  /\ fixture.whole \/ at = "save_last" => \A s \in served : Outlived(s)

(* What a report that says ok holds.                                       *)
Good(r) ==
  /\ Close(r.modes)
  /\ r.modes["sql-snapshot-capi"].recall = parity
  /\ requested # None => r.modes["opendata"].nprobe = requested
  /\ r.sql <=> limits
  /\ r.diagnosed = IF limits THEN r.modes["opendata"].recall ELSE None

(* A verdict on disk is the last thing a process writes.                   *)
Verdict ==
  /\ Ok => at = "idle" /\ made /\ Good(disk)
  /\ Ok => \A s \in served : s.answers = "parity" /\ Outlived(s)
  /\ Saved /\ disk.status = "failed" /\ rival # "gone" => at = "idle" /\ made

Within(saved) ==
  \A m \in DOMAIN saved.modes :
    m \in DOMAIN report.modes /\ report.modes[m] = saved.modes[m]

(* What is on disk, and what a process that overlaps has read of it, is    *)
(* also in memory.                                                         *)
DiskIsBehind ==
  at \notin {"idle", "arguments"} =>
    /\ Saved => Within(disk)
    /\ rival = "marks" => Within(found)

-----------------------------------------------------------------------------
(* The empty report is a report.                                           *)
LEMMA EmptyReport == /\ NoReport \in Reports
                     /\ DOMAIN NoReport.modes = {}
<1>1. DOMAIN <<>> = {}
  OBVIOUS
<1>2. <<>> \in [{} -> Measured]
  OBVIOUS
<1>3. <<>> \in UNION {[modes -> Measured] : modes \in SUBSET Mode}
  BY <1>2
<1>4. QED
  BY <1>1, <1>3 DEF NoReport, Reports

(* Which modes a report may hold, and what of them.                        *)
LEMMA ModesOfReport ==
  ASSUME NEW r \in Reports
  PROVE  /\ DOMAIN r.modes \subseteq Mode
         /\ \A m \in DOMAIN r.modes : r.modes[m] \in Measured
<1>1. PICK modes \in SUBSET Mode : r.modes \in [modes -> Measured]
  BY DEF Reports
<1>2. QED
  BY <1>1

(* A report with one more mode is a report, and keeps the others.          *)
LEMMA AddedMode ==
  ASSUME report \in Reports, NEW mode \in Mode, NEW x \in Measured
  PROVE  /\ WithMode(mode, x) \in Reports
         /\ DOMAIN WithMode(mode, x).modes = DOMAIN report.modes \cup {mode}
         /\ WithMode(mode, x).modes[mode] = x
         /\ \A m \in DOMAIN report.modes \ {mode} :
              WithMode(mode, x).modes[m] = report.modes[m]
         /\ WithMode(mode, x).status = report.status
         /\ WithMode(mode, x).sql = report.sql
         /\ WithMode(mode, x).diagnosed = report.diagnosed
<1> DEFINE with == [m \in DOMAIN report.modes \cup {mode} |->
                      IF m = mode THEN x ELSE report.modes[m]]
<1>1. with \in [DOMAIN report.modes \cup {mode} -> Measured]
  BY ModesOfReport
<1>2. DOMAIN report.modes \cup {mode} \in SUBSET Mode
  BY ModesOfReport
<1>3. with \in UNION {[modes -> Measured] : modes \in SUBSET Mode}
  BY <1>1, <1>2
<1>4. WithMode(mode, x) = [report EXCEPT !.modes = with]
  BY DEF WithMode
<1>5. DOMAIN with = DOMAIN report.modes \cup {mode} /\ with[mode] = x
  OBVIOUS
<1>6. \A m \in DOMAIN report.modes \ {mode} : with[m] = report.modes[m]
  OBVIOUS
<1> HIDE DEF with
<1>7. QED
  BY <1>3, <1>4, <1>5, <1>6 DEF Reports

(* The modes are measured in the order that was given.                     *)
LEMMA OrderOfModes ==
  ASSUME order \in Orders
  PROVE  /\ Mode = {order[1], order[2]} /\ order[1] # order[2]
         /\ DOMAIN report.modes = {} => NextMode = order[1]
         /\ DOMAIN report.modes = {order[1]} => NextMode = order[2]
<1>1. Mode = {order[1], order[2]} /\ order[1] # order[2]
  BY DEF Orders, Mode
<1>2. Cardinality({}) = 0 /\ Cardinality({order[1]}) = 1
  BY FS_EmptySet, FS_Singleton
<1>3. QED
  BY <1>1, <1>2 DEF NextMode

(* The smallest and the largest of two recalls.                            *)
LEMMA TwoRecalls ==
  ASSUME NEW a \in Nat, NEW b \in Nat
  PROVE  /\ Min({a, b}) \in {a, b} /\ Min({a, b}) <= a /\ Min({a, b}) <= b
         /\ Max({a, b}) \in {a, b} /\ Max({a, b}) >= a /\ Max({a, b}) >= b
<1>1. \E x \in {a, b} : \A y \in {a, b} : x <= y
  OBVIOUS
<1>2. \E x \in {a, b} : \A y \in {a, b} : x >= y
  OBVIOUS
<1>3. QED
  BY <1>1, <1>2 DEF Min, Max

(* What the comparison of the recalls demands.                             *)
LEMMA QualifiedIsClose ==
  ASSUME report \in Reports, DOMAIN report.modes = Mode,
         tolerance \in Tolerance \cup {None}, qualify_recall(report.modes)
  PROVE  Close(report.modes)
<1> DEFINE a == report.modes["sql-snapshot-capi"].recall
           b == report.modes["opendata"].recall
<1>1. a \in Nat /\ b \in Nat
  BY ModesOfReport, EndToEndParameters DEF Mode, Measured
<1>2. {report.modes[m].recall : m \in Mode} = {a, b}
  BY DEF Mode
<1>3. tolerance # None => tolerance \in Nat
  BY EndToEndParameters
<1>4. /\ Min({a, b}) >= Minimum
      /\ tolerance # None => Max({a, b}) <= Min({a, b}) + tolerance
  BY <1>2 DEF qualify_recall
<1> SUFFICES /\ a >= Minimum /\ b >= Minimum
             /\ tolerance # None => a <= b + tolerance /\ b <= a + tolerance
  BY DEF Close
<1> HIDE DEF a, b
<1>5. Minimum \in Nat
  BY EndToEndParameters
<1>6. QED
  BY <1>1, <1>3, <1>4, <1>5, TwoRecalls
-----------------------------------------------------------------------------
USE DEF args, process, kept

(* Arguments do not change.                                                *)
LEMMA ArgumentsStep == ASSUME ArgumentTypes, [Next]_vars PROVE ArgumentTypes'
<1> SUFFICES UNCHANGED args
  BY DEF ArgumentTypes
<1>0. CASE UNCHANGED vars
  BY <1>0 DEF vars
<1>1. CASE Start \/ MakeDirectory \/ LoadInputs \/ SaveFirst
  BY <1>1 DEF Start, MakeDirectory, LoadInputs, SaveFirst, Save
<1>2. CASE MeasureSql \/ MeasureOpendata \/ SaveMode \/ Qualify
  BY <1>2 DEF MeasureSql, MeasureOpendata, SaveMode, Qualify, Save
<1>3. CASE SaveQuality \/ SqlDiagnostic \/ OpendataDiagnostic \/ CheckFixture
  BY <1>3 DEF SaveQuality, SqlDiagnostic, OpendataDiagnostic, CheckFixture,
       Save
<1>4. CASE SaveLast \/ Raise \/ Handler \/ Stop
  BY <1>4 DEF SaveLast, Raise, Handler, Stop, Save
<1>5. CASE Overlap \/ OverlapReads \/ OverlapMarks \/ Damage \/ Rebuild
  BY <1>5 DEF Overlap, OverlapReads, OverlapMarks, Damage, Rebuild
<1>6. QED
  BY <1>0, <1>1, <1>2, <1>3, <1>4, <1>5 DEF Next

(* A process stays at one of its places.                                   *)
LEMMA ProcessStep == ASSUME TypeOK, [Next]_vars PROVE ProcessTypes'
<1> USE DEF TypeOK, ProcessTypes, Steps
<1>0. CASE UNCHANGED vars
  BY <1>0 DEF vars
<1>1. CASE Start
  <2>1. tries + 1 \in Nat
    OBVIOUS
  <2>2. QED
    BY <2>1, <1>1 DEF Start
<1>2. CASE MakeDirectory \/ LoadInputs \/ SaveFirst \/ MeasureSql
  BY <1>2 DEF MakeDirectory, LoadInputs, SaveFirst, MeasureSql, Save
<1>3. CASE MeasureOpendata
  BY <1>3 DEF MeasureOpendata, Result
<1>4. CASE SaveMode \/ Qualify \/ SaveQuality \/ SqlDiagnostic
  BY <1>4 DEF SaveMode, Qualify, SaveQuality, SqlDiagnostic, Save
<1>5. CASE OpendataDiagnostic \/ CheckFixture \/ SaveLast \/ Raise
  BY <1>5 DEF OpendataDiagnostic, CheckFixture, SaveLast, Raise, Save
<1>6. CASE Handler \/ Stop \/ Overlap \/ OverlapReads
  BY <1>6 DEF Handler, Stop, Overlap, OverlapReads
<1>7. CASE OverlapMarks \/ Damage \/ Rebuild
  BY <1>7 DEF OverlapMarks, Damage, Rebuild
<1>8. QED
  BY <1>0, <1>1, <1>2, <1>3, <1>4, <1>5, <1>6, <1>7 DEF Next

(* A mode that is about to be measured.                                    *)
LEMMA NextIsMode == ASSUME TypeOK, Progress, at = "worker"
                    PROVE  NextMode \in Mode \ DOMAIN report.modes
  BY OrderOfModes DEF TypeOK, ArgumentTypes, Progress

(* The report in memory remains a report.                                  *)
LEMMA ReportStep == ASSUME TypeOK, Progress, [Next]_vars PROVE report' \in Reports
<1> USE DEF TypeOK, FileTypes
<1>0. CASE UNCHANGED vars
  BY <1>0 DEF vars
<1>1. CASE Start
  BY <1>1, EmptyReport DEF Start
<1>2. CASE MakeDirectory
  BY <1>2 DEF MakeDirectory
<1>3. CASE LoadInputs
  BY <1>3, EmptyReport DEF LoadInputs, Reports
<1>4. CASE SaveFirst
  BY <1>4 DEF SaveFirst, Save
<1>5. CASE MeasureSql
  <2>1. PICK result \in SqlResult :
          \/ report' = report
          \/ report' = WithMode(NextMode, [recall |-> result.recall, nprobe |-> None])
    BY <1>5 DEF MeasureSql
  <2>2. [recall |-> result.recall, nprobe |-> None] \in Measured
    BY DEF Measured, SqlResult
  <2>3. at = "worker"
    BY <1>5 DEF MeasureSql
  <2>4. QED
    BY <2>1, <2>2, <2>3, NextIsMode, AddedMode
<1>6. CASE MeasureOpendata
  <2>1. PICK result \in Result :
          \/ report' = report
          \/ report' = WithMode(NextMode, [recall |-> result.recall, nprobe |-> result.nprobe])
    BY <1>6 DEF MeasureOpendata
  <2>2. [recall |-> result.recall, nprobe |-> result.nprobe] \in Measured
    BY DEF Measured, Result
  <2>3. at = "worker"
    BY <1>6 DEF MeasureOpendata
  <2>4. QED
    BY <2>1, <2>2, <2>3, NextIsMode, AddedMode
<1>7. CASE SaveMode
  BY <1>7 DEF SaveMode, Save
<1>8. CASE Qualify
  BY <1>8 DEF Qualify, Reports
<1>9. CASE SaveQuality
  BY <1>9 DEF SaveQuality, Save
<1>10. CASE SqlDiagnostic
  BY <1>10 DEF SqlDiagnostic, Reports
<1>11. CASE OpendataDiagnostic
  BY <1>11 DEF OpendataDiagnostic, Reports, Result
<1>12. CASE CheckFixture
  BY <1>12 DEF CheckFixture, Reports
<1>13. CASE SaveLast \/ Raise \/ Handler \/ Stop
  BY <1>13 DEF SaveLast, Raise, Handler, Stop, Save
<1>14. CASE Overlap \/ OverlapReads \/ OverlapMarks \/ Damage \/ Rebuild
  BY <1>14 DEF Overlap, OverlapReads, OverlapMarks, Damage, Rebuild
<1>15. QED
  BY <1>0, <1>1, <1>2, <1>3, <1>4, <1>5, <1>6, <1>7, <1>8, <1>9, <1>10, <1>11, <1>12,
       <1>13, <1>14 DEF Next

(* Files remain reports, or torn, or absent.                               *)
LEMMA FilesStep == ASSUME TypeOK, Directory, Progress, [Next]_vars PROVE FileTypes'
<1>report. report' \in Reports
  BY ReportStep
<1> USE <1>report DEF TypeOK, FileTypes
<1>0. CASE UNCHANGED vars
  BY <1>0 DEF vars
<1>1. CASE Start \/ MakeDirectory \/ LoadInputs \/ SaveFirst
  BY <1>1 DEF Start, MakeDirectory, LoadInputs, SaveFirst, Save
<1>2. CASE MeasureOpendata \/ SaveMode \/ Qualify
  BY <1>2 DEF MeasureOpendata, SaveMode, Qualify, Save
<1>3. CASE SaveQuality \/ OpendataDiagnostic \/ CheckFixture
  BY <1>3 DEF SaveQuality, OpendataDiagnostic, CheckFixture, Save
<1>4. CASE SaveLast \/ Raise
  BY <1>4 DEF SaveLast, Raise, Save
<1>5. CASE Handler
  <2>1. DEFINE partial == IF disk = None THEN NoReport ELSE disk
  <2>2. CASE disk # Torn
    <3>1. partial \in Reports
      BY <2>2, EmptyReport
    <3>2. [partial EXCEPT !.status = "failed"] \in Reports
      BY <3>1 DEF Reports
    <3>3. QED
      BY <3>2, <1>5 DEF Handler
  <2>3. CASE disk = Torn
    BY <2>3, <1>5 DEF Handler
  <2>4. QED
    BY <2>2, <2>3
<1>6. CASE Stop \/ Overlap
  BY <1>6 DEF Stop, Overlap
<1>7. CASE OverlapReads
  BY <1>7, EmptyReport DEF OverlapReads
<1>8. CASE OverlapMarks
  <2>1. found \in Reports
    BY <1>8 DEF OverlapMarks, Directory
  <2>2. [found EXCEPT !.status = "failed"] \in Reports
    BY <2>1 DEF Reports
  <2>3. QED
    BY <2>2, <1>8 DEF OverlapMarks
<1>served. ASSUME NEW answers \in Answers, Serve(answers)
           PROVE  served' \subseteq [fixture : Fixtures, answers : Answers]
  BY <1>served DEF Serve
<1>9. CASE MeasureSql
  <2>1. PICK answers \in Answers : Serve(answers)
    BY <1>9 DEF MeasureSql, SqlResult
  <2>2. QED
    BY <2>1, <1>served, <1>9 DEF MeasureSql
<1>10. CASE SqlDiagnostic
  <2>1. PICK answers \in Answers : Serve(answers)
    BY <1>10 DEF SqlDiagnostic
  <2>2. QED
    BY <2>1, <1>served, <1>10 DEF SqlDiagnostic
<1>11. CASE Damage \/ Rebuild
  <2>1. fixture.build \in 0 .. MaxRebuilds /\ MaxRebuilds \in Nat
    BY EndToEndParameters DEF Fixtures
  <2>2. CASE Damage
    BY <2>2 DEF Damage, Fixtures
  <2>3. CASE Rebuild
    <3>1. fixture.build + 1 \in 0 .. MaxRebuilds
      BY <2>1, <2>3 DEF Rebuild
    <3>2. QED
      BY <3>1, <2>3 DEF Rebuild, Fixtures
  <2>4. fixture' \in Fixtures
    BY <1>11, <2>2, <2>3
  <2>5. QED
    BY <2>4, <1>11 DEF Damage, Rebuild
<1>12. QED
  BY <1>0, <1>1, <1>2, <1>3, <1>4, <1>5, <1>6, <1>7, <1>8, <1>9, <1>10,
       <1>11 DEF Next

(* Only the process that made the directory works in it.                   *)
LEMMA DirectoryStep == ASSUME TypeOK, Directory, [Next]_vars PROVE Directory'
<1> USE DEF TypeOK, FileTypes, ProcessTypes, Directory, Steps
<1>0. CASE UNCHANGED vars
  BY <1>0 DEF vars
<1>1. CASE Start \/ MakeDirectory \/ LoadInputs \/ SaveFirst
  BY <1>1 DEF Start, MakeDirectory, LoadInputs, SaveFirst, Save
<1>2. CASE MeasureSql \/ MeasureOpendata \/ SaveMode \/ Qualify
  BY <1>2 DEF MeasureSql, MeasureOpendata, SaveMode, Qualify, Save
<1>3. CASE SaveQuality \/ SqlDiagnostic \/ OpendataDiagnostic \/ CheckFixture
  BY <1>3 DEF SaveQuality, SqlDiagnostic, OpendataDiagnostic, CheckFixture,
       Save
<1>4. CASE SaveLast \/ Raise
  BY <1>4 DEF SaveLast, Raise, Save
<1>5. CASE Handler
  BY <1>5 DEF Handler
<1>6. CASE Stop
  BY <1>6 DEF Stop
<1>7. CASE Overlap
  BY <1>7 DEF Overlap
<1>8. CASE OverlapReads
  BY <1>8, EmptyReport DEF OverlapReads
<1>9. CASE OverlapMarks \/ Damage \/ Rebuild
  BY <1>9 DEF OverlapMarks, Damage, Rebuild
<1>10. QED
  BY <1>0, <1>1, <1>2, <1>3, <1>4, <1>5, <1>6, <1>7, <1>8, <1>9 DEF Next
-----------------------------------------------------------------------------
(* What a step that measures does to the report.                           *)
Measures(mode) ==
  /\ at = "worker" /\ mode = NextMode /\ mode \in Mode \ DOMAIN report.modes
  /\ at' = "save_mode"
  /\ DOMAIN report'.modes = DOMAIN report.modes \cup {mode}
  /\ \A m \in DOMAIN report.modes : report'.modes[m] = report.modes[m]
  /\ report'.status = report.status
  /\ report'.sql = report.sql
  /\ report'.diagnosed = report.diagnosed

(* A SQL worker adds its mode, with the recall of the expected answers, or *)
(* the run fails.                                                          *)
LEMMA SqlMeasures ==
  ASSUME TypeOK, Progress, MeasureSql
  PROVE  \/ at = "worker" /\ at' = "handler" /\ UNCHANGED report
         \/ /\ Measures("sql-snapshot-capi")
            /\ report'.modes["sql-snapshot-capi"].recall = parity
            /\ Serve("parity")
<1>1. PICK result \in SqlResult :
        /\ Serve(result.answers)
        /\ IF AsExpected(result.answers)
           THEN at' = "save_mode"
                /\ report' = WithMode(NextMode, [recall |-> result.recall, nprobe |-> None])
           ELSE at' = "handler" /\ UNCHANGED report
  BY DEF MeasureSql
<1>2. at = "worker" /\ NextMode = "sql-snapshot-capi"
  BY DEF MeasureSql
<1>3. CASE ~AsExpected(result.answers)
  BY <1>1, <1>2, <1>3
<1>4. CASE AsExpected(result.answers)
  <2>1. result.answers = "parity" /\ result.recall = parity
    BY <1>4 DEF AsExpected, SqlResult
  <2>2. [recall |-> result.recall, nprobe |-> None] \in Measured
    BY DEF Measured, SqlResult
  <2>3. NextMode \in Mode \ DOMAIN report.modes
    BY <1>2, NextIsMode
  <2>4. /\ at' = "save_mode"
        /\ report' = WithMode(NextMode, [recall |-> result.recall, nprobe |-> None])
    BY <1>1, <1>4
  <2>5. Measures("sql-snapshot-capi") /\ report'.modes[NextMode].recall = result.recall
    BY <1>2, <2>2, <2>3, <2>4, AddedMode DEF Measures, TypeOK, FileTypes
  <2>6. QED
    BY <1>1, <1>2, <2>1, <2>5
<1>5. QED
  BY <1>3, <1>4

(* An OpenData worker adds its mode with the probes that it was asked for, *)
(* or the run fails.                                                       *)
LEMMA OpendataMeasures ==
  ASSUME TypeOK, Progress, MeasureOpendata
  PROVE  \/ at = "worker" /\ at' = "handler" /\ UNCHANGED <<nprobe, report>>
         \/ /\ Measures("opendata")
            /\ report'.modes["opendata"].nprobe = nprobe'
            /\ nprobe # None => nprobe' = nprobe
<1>1. CASE at' = "handler"
  BY <1>1 DEF MeasureOpendata
<1>2. CASE at' # "handler"
  <2>1. PICK result \in Result :
          /\ Configured(result) /\ at' = "save_mode" /\ nprobe' = result.nprobe
          /\ report' = WithMode(NextMode, [recall |-> result.recall, nprobe |-> result.nprobe])
    BY <1>2 DEF MeasureOpendata
  <2>2. [recall |-> result.recall, nprobe |-> result.nprobe] \in Measured
    BY DEF Measured, Result
  <2>3. NextMode \in Mode \ DOMAIN report.modes
    BY NextIsMode DEF MeasureOpendata
  <2>4. Measures("opendata") /\ report'.modes["opendata"].nprobe = result.nprobe
    BY <2>1, <2>2, <2>3, AddedMode DEF MeasureOpendata, Measures, TypeOK, FileTypes
  <2>5. QED
    BY <2>1, <2>4 DEF Configured
<1>3. QED
  BY <1>1, <1>2

(* A mode is measured once, and in its turn.                               *)
LEMMA ProgressStep == ASSUME TypeOK, Directory, Progress, [Next]_vars PROVE Progress'
<1> USE DEF Progress, Steps, Measuring
<1>0. CASE UNCHANGED vars
  BY <1>0 DEF vars
<1>1. CASE Start
  BY <1>1 DEF Start
<1>2. CASE MakeDirectory
  BY <1>2 DEF MakeDirectory
<1>3. CASE LoadInputs
  BY <1>3, EmptyReport DEF LoadInputs, Reports
<1>4. CASE SaveFirst
  BY <1>4 DEF SaveFirst, Save
<1>5. CASE MeasureSql
  <2>1. UNCHANGED order
    BY <1>5 DEF MeasureSql
  <2>2. QED
    BY <2>1, <1>5, SqlMeasures, OrderOfModes DEF Measures, TypeOK, ArgumentTypes
<1>6. CASE MeasureOpendata
  <2>1. UNCHANGED order
    BY <1>6 DEF MeasureOpendata
  <2>2. QED
    BY <2>1, <1>6, OpendataMeasures, OrderOfModes DEF Measures, TypeOK, ArgumentTypes
<1>7. CASE SaveMode
  BY <1>7, OrderOfModes DEF SaveMode, Save, TypeOK, ArgumentTypes
<1>8. CASE Qualify
  BY <1>8 DEF Qualify, Reports, TypeOK, FileTypes
<1>9. CASE SaveQuality
  BY <1>9 DEF SaveQuality, Save
<1>10. CASE SqlDiagnostic
  BY <1>10 DEF SqlDiagnostic, Reports, TypeOK, FileTypes
<1>11. CASE OpendataDiagnostic
  BY <1>11 DEF OpendataDiagnostic, Reports, TypeOK, FileTypes
<1>12. CASE CheckFixture
  BY <1>12 DEF CheckFixture, Reports, TypeOK, FileTypes
<1>13. CASE SaveLast \/ Raise
  BY <1>13 DEF SaveLast, Raise, Save
<1>14. CASE Handler
  BY <1>14 DEF Handler
<1>15. CASE Stop
  BY <1>15 DEF Stop
<1>16. CASE Overlap \/ OverlapReads \/ OverlapMarks \/ Damage \/ Rebuild
  BY <1>16 DEF Overlap, OverlapReads, OverlapMarks, Damage, Rebuild
<1>17. QED
  BY <1>0, <1>1, <1>2, <1>3, <1>4, <1>5, <1>6, <1>7, <1>8, <1>9, <1>10, <1>11, <1>12,
       <1>13, <1>14, <1>15, <1>16 DEF Next

(* The probes stay those that were asked for.                              *)
LEMMA ProbesStep == ASSUME TypeOK, Progress, Probes, [Next]_vars PROVE Probes'
<1> USE DEF Probes
<1>0. CASE UNCHANGED vars
  BY <1>0 DEF vars
<1>1. CASE Start
  BY <1>1, EmptyReport DEF Start
<1>2. CASE MakeDirectory
  BY <1>2 DEF MakeDirectory
<1>3. CASE LoadInputs
  <2>1. DOMAIN report'.modes = {}
    BY <1>3, EmptyReport DEF LoadInputs, Reports
  <2>2. QED
    BY <2>1, <1>3 DEF LoadInputs
<1>4. CASE SaveFirst
  BY <1>4 DEF SaveFirst, Save
<1>5. CASE MeasureSql
  <2>1. UNCHANGED <<requested, nprobe>>
    BY <1>5 DEF MeasureSql
  <2>2. QED
    BY <2>1, <1>5, SqlMeasures DEF Measures
<1>6. CASE MeasureOpendata
  <2>1. UNCHANGED requested
    BY <1>6 DEF MeasureOpendata
  <2>2. requested # None => nprobe # None
    OBVIOUS
  <2>3. QED
    BY <2>1, <2>2, <1>6, OpendataMeasures DEF Measures
<1>7. CASE SaveMode
  BY <1>7 DEF SaveMode, Save
<1>8. CASE Qualify
  BY <1>8 DEF Qualify, Reports, TypeOK, FileTypes
<1>9. CASE SaveQuality
  BY <1>9 DEF SaveQuality, Save
<1>10. CASE SqlDiagnostic
  BY <1>10 DEF SqlDiagnostic, Reports, TypeOK, FileTypes
<1>11. CASE OpendataDiagnostic
  BY <1>11 DEF OpendataDiagnostic, Reports, TypeOK, FileTypes
<1>12. CASE CheckFixture
  BY <1>12 DEF CheckFixture, Reports, TypeOK, FileTypes
<1>13. CASE SaveLast \/ Raise \/ Handler \/ Stop
  BY <1>13 DEF SaveLast, Raise, Handler, Stop, Save
<1>14. CASE Overlap \/ OverlapReads \/ OverlapMarks \/ Damage \/ Rebuild
  BY <1>14 DEF Overlap, OverlapReads, OverlapMarks, Damage, Rebuild
<1>15. QED
  BY <1>0, <1>1, <1>2, <1>3, <1>4, <1>5, <1>6, <1>7, <1>8, <1>9, <1>10, <1>11, <1>12,
       <1>13, <1>14 DEF Next

(* After the comparison nothing changes what was compared.                 *)
LEMMA ComparedStep == ASSUME TypeOK, Progress, Compared, [Next]_vars PROVE Compared'
<1> USE DEF Compared, Close, Measuring
<1>0. CASE UNCHANGED vars
  BY <1>0 DEF vars
<1>1. CASE Start \/ MakeDirectory \/ LoadInputs \/ SaveFirst
  BY <1>1 DEF Start, MakeDirectory, LoadInputs, SaveFirst, Save
<1>2. CASE MeasureSql
  BY <1>2 DEF MeasureSql
<1>3. CASE MeasureOpendata
  BY <1>3 DEF MeasureOpendata
<1>4. CASE SaveMode
  BY <1>4 DEF SaveMode, Save
<1>5. CASE Qualify
  <2>1. CASE qualify_recall(report.modes)
    <3>1. DOMAIN report.modes = Mode
      BY <1>5 DEF Qualify, Progress
    <3>2. Close(report.modes)
      BY <2>1, <3>1, QualifiedIsClose DEF TypeOK, FileTypes, ArgumentTypes
    <3>3. report'.modes = report.modes /\ tolerance' = tolerance
      BY <2>1, <1>5 DEF Qualify, Reports, TypeOK, FileTypes
    <3>4. QED
      BY <3>2, <3>3
  <2>2. CASE ~qualify_recall(report.modes)
    BY <2>2, <1>5 DEF Qualify
  <2>3. QED
    BY <2>1, <2>2
<1>6. CASE SaveQuality
  BY <1>6 DEF SaveQuality, Save
<1>7. CASE SqlDiagnostic
  BY <1>7 DEF SqlDiagnostic, Reports, TypeOK, FileTypes
<1>8. CASE OpendataDiagnostic
  BY <1>8 DEF OpendataDiagnostic, Reports, TypeOK, FileTypes
<1>9. CASE CheckFixture
  BY <1>9 DEF CheckFixture, Reports, TypeOK, FileTypes
<1>10. CASE SaveLast \/ Raise \/ Handler \/ Stop
  BY <1>10 DEF SaveLast, Raise, Handler, Stop, Save
<1>11. CASE Overlap \/ OverlapReads \/ OverlapMarks \/ Damage \/ Rebuild
  BY <1>11 DEF Overlap, OverlapReads, OverlapMarks, Damage, Rebuild
<1>12. QED
  BY <1>0, <1>1, <1>2, <1>3, <1>4, <1>5, <1>6, <1>7, <1>8, <1>9, <1>10, <1>11 DEF
       Next

(* The report says which diagnostics were made, and the second one found   *)
(* what had been compared.                                                 *)
LEMMA DiagnosedStep == ASSUME TypeOK, Progress, Diagnosed, [Next]_vars PROVE Diagnosed'
<1> USE DEF Diagnosed
<1>0. CASE UNCHANGED vars
  BY <1>0 DEF vars, TypeOK, ArgumentTypes
<1>1. CASE Start
  BY <1>1 DEF Start, TypeOK, ArgumentTypes
<1>2. CASE MakeDirectory
  BY <1>2 DEF MakeDirectory, TypeOK, ArgumentTypes
<1>3. CASE LoadInputs
  BY <1>3 DEF LoadInputs, Reports, NoReport
<1>4. CASE SaveFirst
  BY <1>4 DEF SaveFirst, Save, TypeOK, ArgumentTypes
<1>5. CASE MeasureSql
  BY <1>5, SqlMeasures DEF Measures
<1>6. CASE MeasureOpendata
  BY <1>6, OpendataMeasures DEF Measures
<1>7. CASE SaveMode
  BY <1>7 DEF SaveMode, Save, TypeOK, ArgumentTypes
<1>8. CASE Qualify
  BY <1>8 DEF Qualify, Reports, TypeOK, FileTypes
<1>9. CASE SaveQuality
  BY <1>9 DEF SaveQuality, Save, TypeOK, ArgumentTypes
<1>10. CASE SqlDiagnostic
  BY <1>10 DEF SqlDiagnostic, Reports, TypeOK, FileTypes
<1>11. CASE OpendataDiagnostic
  BY <1>11 DEF OpendataDiagnostic, SameWork, Reports, TypeOK, FileTypes
<1>12. CASE CheckFixture
  BY <1>12 DEF CheckFixture, Reports, TypeOK, FileTypes
<1>13. CASE SaveLast \/ Raise \/ Handler
  BY <1>13 DEF SaveLast, Raise, Handler, Save, TypeOK, ArgumentTypes
<1>14. CASE Stop
  BY <1>14 DEF Stop, TypeOK, ArgumentTypes
<1>15. CASE Overlap \/ OverlapReads \/ OverlapMarks \/ Damage \/ Rebuild
  BY <1>15 DEF Overlap, OverlapReads, OverlapMarks, Damage, Rebuild,
       TypeOK, ArgumentTypes
<1>16. QED
  BY <1>0, <1>1, <1>2, <1>3, <1>4, <1>5, <1>6, <1>7, <1>8, <1>9, <1>10, <1>11, <1>12,
       <1>13, <1>14, <1>15 DEF Next
-----------------------------------------------------------------------------
(* Other answers than the expected ones end the process.                   *)
LEMMA ExpectedStep ==
  ASSUME TypeOK, Directory, Progress, Expected, [Next]_vars PROVE Expected'
<1> USE DEF Expected, Steps
<1>same. ASSUME UNCHANGED <<served, parity>>, at \in Steps,
                report'.modes = report.modes
         PROVE  Expected'
  BY <1>same
<1>0. CASE UNCHANGED vars
  BY <1>0 DEF vars
<1>1. CASE Start
  <2>1. DOMAIN report'.modes = {} /\ UNCHANGED served
    BY <1>1, EmptyReport DEF Start
  <2>2. at' \in Steps => served = {}
    BY <1>1 DEF Start, Directory
  <2>3. QED
    BY <2>1, <2>2
<1>2. CASE MakeDirectory
  BY <1>2, <1>same DEF MakeDirectory
<1>3. CASE LoadInputs
  <2>1. DOMAIN report'.modes = {} /\ UNCHANGED served /\ at \in Steps
    BY <1>3, EmptyReport DEF LoadInputs, Reports
  <2>2. QED
    BY <2>1
<1>4. CASE SaveFirst
  BY <1>4, <1>same DEF SaveFirst
<1>5. CASE MeasureSql
  <2>1. CASE at' = "handler"
    BY <2>1
  <2>2. CASE at' # "handler"
    <3>1. /\ report'.modes["sql-snapshot-capi"].recall = parity
          /\ Serve("parity") /\ at = "worker"
      BY <2>2, <1>5, SqlMeasures DEF Measures
    <3>2. UNCHANGED parity
      BY <1>5 DEF MeasureSql
    <3>3. QED
      BY <3>1, <3>2 DEF Serve
  <2>3. QED
    BY <2>1, <2>2
<1>6. CASE MeasureOpendata
  <2>1. UNCHANGED <<parity, served>>
    BY <1>6 DEF MeasureOpendata
  <2>2. QED
    BY <2>1, <1>6, OpendataMeasures DEF Measures
<1>7. CASE SaveMode
  BY <1>7, <1>same DEF SaveMode
<1>8. CASE Qualify
  <2>1. report'.modes = report.modes
    BY <1>8 DEF Qualify, Reports, TypeOK, FileTypes
  <2>2. QED
    BY <2>1, <1>8, <1>same DEF Qualify
<1>9. CASE SaveQuality
  BY <1>9, <1>same DEF SaveQuality
<1>10. CASE SqlDiagnostic
  <2>1. CASE at' = "handler"
    BY <2>1
  <2>2. CASE at' # "handler"
    <3>1. Serve("parity") /\ at = "sql_diagnostic" /\ UNCHANGED parity
      BY <2>2, <1>10 DEF SqlDiagnostic, AsExpected
    <3>2. report'.modes = report.modes
      BY <1>10 DEF SqlDiagnostic, Reports, TypeOK, FileTypes
    <3>3. QED
      BY <3>1, <3>2 DEF Serve
  <2>3. QED
    BY <2>1, <2>2
<1>11. CASE OpendataDiagnostic
  <2>1. report'.modes = report.modes
    BY <1>11 DEF OpendataDiagnostic, Reports, TypeOK, FileTypes
  <2>2. QED
    BY <2>1, <1>11, <1>same DEF OpendataDiagnostic
<1>12. CASE CheckFixture
  <2>1. report'.modes = report.modes
    BY <1>12 DEF CheckFixture, Reports, TypeOK, FileTypes
  <2>2. QED
    BY <2>1, <1>12, <1>same DEF CheckFixture
<1>13. CASE SaveLast
  BY <1>13, <1>same DEF SaveLast
<1>14. CASE Raise \/ Handler \/ Stop
  BY <1>14 DEF Raise, Handler, Stop
<1>15. CASE Overlap \/ OverlapReads \/ OverlapMarks
  BY <1>15 DEF Overlap, OverlapReads, OverlapMarks
<1>16. CASE Damage \/ Rebuild
  BY <1>16 DEF Damage, Rebuild
<1>17. QED
  BY <1>0, <1>1, <1>2, <1>3, <1>4, <1>5, <1>6, <1>7, <1>8, <1>9, <1>10, <1>11, <1>12,
       <1>13, <1>14, <1>15, <1>16 DEF Next

(* The builds follow one another, and what was found belongs to one of     *)
(* them.                                                                   *)
LEMMA BuildsStep == ASSUME TypeOK, Builds, [Next]_vars PROVE Builds'
<1> USE DEF Builds, Outlived
<1>type. /\ fixture.build \in Int /\ fixture.whole \in BOOLEAN
         /\ \A s \in served : s.fixture.build \in Int /\ s.fixture.whole \in BOOLEAN
  BY DEF TypeOK, FileTypes, Fixtures
<1>same. ASSUME UNCHANGED <<fixture, served>>, at' # "save_last" PROVE Builds'
  BY <1>same
<1>serve. ASSUME NEW answers, Serve(answers), UNCHANGED fixture, at' # "save_last"
          PROVE  Builds'
  BY <1>serve, <1>type DEF Serve
<1>0. CASE UNCHANGED vars
  BY <1>0 DEF vars
<1>1. CASE Start \/ MakeDirectory \/ LoadInputs \/ SaveFirst
  BY <1>1, <1>same DEF Start, MakeDirectory, LoadInputs, SaveFirst, Save
<1>2. CASE MeasureSql
  BY <1>2, <1>serve DEF MeasureSql
<1>3. CASE MeasureOpendata \/ SaveMode \/ Qualify \/ SaveQuality
  BY <1>3, <1>same DEF MeasureOpendata, SaveMode, Qualify, SaveQuality, Save
<1>4. CASE SqlDiagnostic
  BY <1>4, <1>serve DEF SqlDiagnostic
<1>5. CASE OpendataDiagnostic
  BY <1>5, <1>same DEF OpendataDiagnostic
<1>6. CASE CheckFixture
  BY <1>6 DEF CheckFixture, load_fixture
<1>7. CASE SaveLast \/ Raise \/ Handler \/ Stop
  BY <1>7, <1>same DEF SaveLast, Raise, Handler, Stop, Save
<1>8. CASE Overlap \/ OverlapReads \/ OverlapMarks
  BY <1>8 DEF Overlap, OverlapReads, OverlapMarks
<1>9. CASE Damage
  <2>1. /\ fixture.whole /\ fixture'.build = fixture.build /\ UNCHANGED <<at, served>>
    BY <1>9 DEF Damage, TypeOK, FileTypes, Fixtures
  <2>2. QED
    BY <2>1
<1>10. CASE Rebuild
  <2>1. fixture'.build = fixture.build + 1 /\ UNCHANGED <<at, served>>
    BY <1>10 DEF Rebuild
  <2>2. QED
    BY <2>1, <1>type
<1>11. QED
  BY <1>0, <1>1, <1>2, <1>3, <1>4, <1>5, <1>6, <1>7, <1>8, <1>9, <1>10 DEF Next

(* What is about to be saved last is a good report.                        *)
LEMMA LastIsGood ==
  ASSUME TypeOK, Progress, Probes, Compared, Diagnosed, Expected, at = "save_last"
  PROVE  Good(report)
  BY DEF Progress, Probes, Compared, Diagnosed, Expected, Measuring, Mode, Steps, Good

(* A report is not a file that is absent or torn.                          *)
LEMMA ReportIsSaved == None \notin Reports /\ Torn \notin Reports /\ None # Torn
  BY FilesAreDistinct

(* A verdict is written last.                                              *)
LEMMA VerdictStep ==
  ASSUME TypeOK, Directory, Progress, Probes, Compared, Diagnosed, Expected,
         Builds, Verdict, [Next]_vars
  PROVE  Verdict'
<1> USE ReportIsSaved DEF Verdict, Ok, Saved, TypeOK, FileTypes
<1>good. ASSUME UNCHANGED <<args, disk>>, Good(disk) PROVE Good(disk)'
  BY <1>good DEF Good, Close
<1>outlived. ASSUME UNCHANGED fixture, NEW s, Outlived(s) PROVE Outlived(s)'
  BY <1>outlived DEF Outlived
<1>0. CASE UNCHANGED vars
  BY <1>good, <1>outlived, <1>0 DEF vars
<1>1. CASE Start
  BY <1>1, <1>good, <1>outlived DEF Start, Directory
<1>2. CASE MakeDirectory \/ LoadInputs
  BY <1>good, <1>outlived, <1>2 DEF MakeDirectory, LoadInputs
<1>3. CASE SaveFirst
  <2>1. report.status = "running"
    BY <1>3 DEF SaveFirst, Progress, Steps
  <2>2. QED
    BY <2>1, <1>3, <1>good, <1>outlived DEF SaveFirst, Save
<1>4. CASE MeasureSql \/ MeasureOpendata
  BY <1>good, <1>outlived, <1>4 DEF MeasureSql, MeasureOpendata
<1>5. CASE SaveMode
  <2>1. report.status = "running"
    BY <1>5 DEF SaveMode, Progress, Steps
  <2>2. QED
    BY <2>1, <1>5, <1>good, <1>outlived DEF SaveMode, Save
<1>6. CASE Qualify
  BY <1>good, <1>outlived, <1>6 DEF Qualify
<1>7. CASE SaveQuality
  <2>1. report.status = "running"
    BY <1>7 DEF SaveQuality, Progress, Steps
  <2>2. QED
    BY <2>1, <1>7, <1>good, <1>outlived DEF SaveQuality, Save
<1>8. CASE SqlDiagnostic \/ OpendataDiagnostic \/ CheckFixture
  BY <1>good, <1>outlived, <1>8 DEF SqlDiagnostic, OpendataDiagnostic, CheckFixture
<1>9. CASE SaveLast
  <2>1. report.status = "ok" /\ Good(report) /\ made
    BY <1>9, LastIsGood DEF SaveLast, Progress, Directory
  <2>served. \A s \in served : s.answers = "parity" /\ Outlived(s)
    BY <1>9 DEF SaveLast, Expected, Builds, Steps
  <2>2. CASE at' = "idle" /\ disk' = report
    <3>1. Good(disk')
      BY <2>1, <2>2
    <3>2. Good(disk)'
      BY <3>1, <1>9 DEF SaveLast, Good, Close
    <3>3. QED
      BY <2>1, <2>2, <2>served, <3>2, <1>outlived, <1>9 DEF SaveLast
  <2>3. CASE disk' = Torn
    BY <2>3
  <2>4. QED
    BY <2>2, <2>3, <1>9 DEF SaveLast, Save
<1>10. CASE Raise
  BY <1>10, <1>good, <1>outlived DEF Raise, Steps
<1>11. CASE Handler
  <2>1. DEFINE partial == IF disk = None THEN NoReport ELSE disk
  <2>2. CASE ~made \/ disk = Torn
    BY <2>2, <1>11, <1>good, <1>outlived DEF Handler, Directory
  <2>3. CASE made /\ disk # Torn
    <3>1. partial \in Reports
      BY <2>3, EmptyReport
    <3>2. [partial EXCEPT !.status = "failed"].status = "failed"
      BY <3>1 DEF Reports
    <3>3. disk' \in {[partial EXCEPT !.status = "failed"], Torn}
      BY <2>3, <1>11 DEF Handler
    <3>4. QED
      BY <2>3, <3>2, <3>3, <1>11 DEF Handler
  <2>4. QED
    BY <2>2, <2>3
<1>12. CASE Stop
  BY <1>12, <1>good, <1>outlived DEF Stop
<1>13. CASE Overlap \/ OverlapReads
  BY <1>good, <1>outlived, <1>13 DEF Overlap, OverlapReads
<1>14. CASE OverlapMarks
  <2>1. [found EXCEPT !.status = "failed"].status = "failed"
    BY <1>14 DEF OverlapMarks, Directory, Reports
  <2>2. QED
    BY <2>1, <1>14 DEF OverlapMarks
<1>15. CASE Damage \/ Rebuild
  <2>1. fixture'.build \in Int /\ fixture.build \in Int /\ fixture'.build >= fixture.build
    BY <1>15 DEF Damage, Rebuild, Fixtures
  <2>2. \A s \in served : Outlived(s) => Outlived(s)'
    BY <2>1 DEF Outlived, Fixtures
  <2>3. QED
    BY <1>good, <2>2, <1>15 DEF Damage, Rebuild
<1>16. QED
  BY <1>0, <1>1, <1>2, <1>3, <1>4, <1>5, <1>6, <1>7, <1>8, <1>9, <1>10, <1>11, <1>12,
       <1>13, <1>14, <1>15 DEF Next

(* What has been saved, or read by a process that overlaps, is in memory.  *)
LEMMA DiskIsBehindStep ==
  ASSUME TypeOK, Directory, Progress, DiskIsBehind, [Next]_vars
  PROVE  DiskIsBehind'
<1> USE ReportIsSaved DEF DiskIsBehind, Saved, TypeOK, FileTypes
<1>within. ASSUME NEW s, Within(s), report'.modes = report.modes PROVE Within(s)'
  BY <1>within DEF Within
<1>disk. ASSUME Within(disk), UNCHANGED disk, report'.modes = report.modes
         PROVE  Within(disk)'
  BY <1>disk DEF Within
<1>found. ASSUME Within(found), UNCHANGED found, report'.modes = report.modes
          PROVE  Within(found)'
  BY <1>found DEF Within
<1>0. CASE UNCHANGED vars
  BY <1>disk, <1>found, <1>0 DEF vars
<1>1. CASE Start
  BY <1>1 DEF Start
<1>2. CASE MakeDirectory
  <2>1. ~Saved' /\ rival # "marks"
    BY <1>2 DEF MakeDirectory, Directory
  <2>2. QED
    BY <2>1, <1>2 DEF MakeDirectory
<1>3. CASE LoadInputs
  <2>1. report'.modes = report.modes
    BY <1>3, EmptyReport DEF LoadInputs, Reports, Progress
  <2>2. QED
    BY <2>1, <1>disk, <1>found, <1>3 DEF LoadInputs
<1>4. CASE SaveFirst
  <2>1. UNCHANGED <<report, rival, found>> /\ at \notin {"idle", "arguments"}
    BY <1>4 DEF SaveFirst
  <2>2. disk' = report \/ disk' = Torn
    BY <1>4 DEF SaveFirst, Save
  <2>3. QED
    BY <2>1, <2>2, <1>found DEF Within
<1>5. CASE MeasureSql
  <2>1. UNCHANGED <<disk, rival, found>>
    BY <1>5 DEF MeasureSql
  <2>2. QED
    BY <2>1, <1>5, SqlMeasures DEF Measures, Within
<1>6. CASE MeasureOpendata
  <2>1. UNCHANGED <<disk, rival, found>>
    BY <1>6 DEF MeasureOpendata
  <2>2. QED
    BY <2>1, <1>6, OpendataMeasures DEF Measures, Within
<1>7. CASE SaveMode
  <2>1. UNCHANGED <<report, rival, found>> /\ at \notin {"idle", "arguments"}
    BY <1>7 DEF SaveMode
  <2>2. disk' = report \/ disk' = Torn
    BY <1>7 DEF SaveMode, Save
  <2>3. QED
    BY <2>1, <2>2, <1>found DEF Within
<1>8. CASE Qualify
  <2>1. report'.modes = report.modes /\ UNCHANGED <<disk, rival, found>>
    BY <1>8 DEF Qualify, Reports
  <2>2. at \notin {"idle", "arguments"}
    BY <1>8 DEF Qualify
  <2>3. QED
    BY <2>1, <2>2, <1>disk, <1>found
<1>9. CASE SaveQuality
  <2>1. UNCHANGED <<report, rival, found>> /\ at \notin {"idle", "arguments"}
    BY <1>9 DEF SaveQuality
  <2>2. disk' = report \/ disk' = Torn
    BY <1>9 DEF SaveQuality, Save
  <2>3. QED
    BY <2>1, <2>2, <1>found DEF Within
<1>10. CASE SqlDiagnostic
  <2>1. report'.modes = report.modes /\ UNCHANGED <<disk, rival, found>>
    BY <1>10 DEF SqlDiagnostic, Reports
  <2>2. at \notin {"idle", "arguments"}
    BY <1>10 DEF SqlDiagnostic
  <2>3. QED
    BY <2>1, <2>2, <1>disk, <1>found
<1>11. CASE OpendataDiagnostic
  <2>1. report'.modes = report.modes /\ UNCHANGED <<disk, rival, found>>
    BY <1>11 DEF OpendataDiagnostic, Reports
  <2>2. at \notin {"idle", "arguments"}
    BY <1>11 DEF OpendataDiagnostic
  <2>3. QED
    BY <2>1, <2>2, <1>disk, <1>found
<1>12. CASE CheckFixture
  <2>1. report'.modes = report.modes /\ UNCHANGED <<disk, rival, found>>
    BY <1>12 DEF CheckFixture, Reports
  <2>2. at \notin {"idle", "arguments"}
    BY <1>12 DEF CheckFixture
  <2>3. QED
    BY <2>1, <2>2, <1>disk, <1>found
<1>13. CASE SaveLast
  <2>1. UNCHANGED <<report, rival, found>> /\ at \notin {"idle", "arguments"}
    BY <1>13 DEF SaveLast
  <2>2. disk' = report \/ disk' = Torn
    BY <1>13 DEF SaveLast, Save
  <2>3. QED
    BY <2>1, <2>2, <1>found DEF Within
<1>14. CASE Raise
  BY <1>14, <1>disk, <1>found DEF Raise, Steps, Directory
<1>15. CASE Handler
  BY <1>15 DEF Handler
<1>16. CASE Stop
  BY <1>16 DEF Stop
<1>17. CASE Overlap
  BY <1>disk, <1>found, <1>17 DEF Overlap
<1>18. CASE OverlapReads
  <2>1. UNCHANGED <<at, disk, report>>
    BY <1>18 DEF OverlapReads
  <2>2. at \notin {"idle", "arguments"} /\ rival' = "marks" => Within(found')
    BY <1>18, EmptyReport DEF OverlapReads, Within
  <2>3. QED
    BY <2>1, <2>2, <1>disk DEF Within
<1>19. CASE OverlapMarks
  <2>1. UNCHANGED <<at, report>> /\ rival' = "gone"
    BY <1>19 DEF OverlapMarks
  <2>2. [found EXCEPT !.status = "failed"].modes = found.modes
    BY <1>19 DEF OverlapMarks, Directory, Reports
  <2>3. at \notin {"idle", "arguments"} => Within(found)
    BY <1>19 DEF OverlapMarks
  <2>4. QED
    BY <2>1, <2>2, <2>3, <1>19 DEF OverlapMarks, Within
<1>20. CASE Damage \/ Rebuild
  BY <1>disk, <1>found, <1>20 DEF Damage, Rebuild
<1>21. QED
  BY <1>0, <1>1, <1>2, <1>3, <1>4, <1>5, <1>6, <1>7, <1>8, <1>9, <1>10, <1>11, <1>12,
       <1>13, <1>14, <1>15, <1>16, <1>17, <1>18, <1>19, <1>20 DEF Next

(* A failure is recorded, and stays so.                                    *)
LEMMA FailureStep ==
  ASSUME TypeOK, Directory, Progress, FailureIsRecorded, [Next]_vars
  PROVE  FailureIsRecorded'
<1> USE ReportIsSaved DEF FailureIsRecorded, Saved, TypeOK, FileTypes, Directory
<1>0. CASE UNCHANGED vars
  BY <1>0 DEF vars
<1>1. CASE Start
  BY <1>1 DEF Start
<1>2. CASE MakeDirectory \/ LoadInputs \/ SaveFirst \/ MeasureSql
  BY <1>2 DEF MakeDirectory, LoadInputs, SaveFirst, MeasureSql, Save
<1>3. CASE MeasureOpendata \/ SaveMode \/ Qualify \/ SaveQuality
  BY <1>3 DEF MeasureOpendata, SaveMode, Qualify, SaveQuality, Save
<1>4. CASE SqlDiagnostic \/ OpendataDiagnostic \/ CheckFixture \/ SaveLast
  BY <1>4 DEF SqlDiagnostic, OpendataDiagnostic, CheckFixture, SaveLast, Save
<1>5. CASE Raise
  BY <1>5 DEF Raise
<1>6. CASE Handler
  <2>1. DEFINE partial == IF disk = None THEN NoReport ELSE disk
  <2>2. CASE ~made \/ disk = Torn
    BY <2>2, <1>6 DEF Handler
  <2>3. CASE made /\ disk # Torn
    <3>1. partial \in Reports
      BY <2>3, EmptyReport
    <3>2. /\ [partial EXCEPT !.status = "failed"].status = "failed"
          /\ [partial EXCEPT !.status = "failed"] \in Reports
      BY <3>1 DEF Reports
    <3>3. disk' \in {[partial EXCEPT !.status = "failed"], Torn}
      BY <2>3, <1>6 DEF Handler
    <3>4. QED
      BY <2>3, <3>2, <3>3
  <2>4. QED
    BY <2>2, <2>3
<1>7. CASE Stop \/ Overlap \/ OverlapReads
  BY <1>7 DEF Stop, Overlap, OverlapReads
<1>8. CASE OverlapMarks
  <2>1. /\ [found EXCEPT !.status = "failed"].status = "failed"
        /\ [found EXCEPT !.status = "failed"] \in Reports
    BY <1>8 DEF OverlapMarks, Reports
  <2>2. QED
    BY <2>1, <1>8 DEF OverlapMarks
<1>9. CASE Damage \/ Rebuild
  BY <1>9 DEF Damage, Rebuild
<1>10. QED
  BY <1>0, <1>1, <1>2, <1>3, <1>4, <1>5, <1>6, <1>7, <1>8, <1>9 DEF Next
-----------------------------------------------------------------------------
(* The inductive invariant.                                                *)
IInv ==
  /\ TypeOK
  /\ Directory
  /\ Progress
  /\ Probes
  /\ Compared
  /\ Diagnosed
  /\ Expected
  /\ Builds
  /\ Verdict
  /\ DiskIsBehind
  /\ FailureIsRecorded

(* It holds when nothing has been started.                                 *)
LEMMA InitIInv == Init => IInv
<1> SUFFICES ASSUME Init PROVE IInv
  OBVIOUS
<1> USE EmptyReport, ReportIsSaved DEF Init
<1>1. TypeOK
  <2>1. 0 \in 0 .. MaxRebuilds
    BY EndToEndParameters
  <2>2. [build |-> 0, whole |-> TRUE] \in Fixtures
    BY <2>1 DEF Fixtures
  <2>3. QED
    BY <2>2 DEF TypeOK, ArgumentTypes, ProcessTypes, FileTypes, Orders
<1>2. Directory /\ Progress /\ Probes /\ Compared /\ Diagnosed
  BY DEF Directory, Progress, Probes, Compared, Diagnosed, Measuring, Steps
<1>3. Expected /\ Builds /\ Verdict /\ DiskIsBehind /\ FailureIsRecorded
  BY DEF Expected, Builds, Steps, Verdict, DiskIsBehind, FailureIsRecorded, Ok, Saved
<1>4. QED
  BY <1>1, <1>2, <1>3 DEF IInv

(* Every step preserves it.                                                *)
LEMMA StepIInv == IInv /\ [Next]_vars => IInv'
<1> SUFFICES ASSUME IInv, [Next]_vars PROVE IInv'
  OBVIOUS
<1> USE DEF IInv
<1>1. TypeOK'
  BY ArgumentsStep, ProcessStep, FilesStep DEF TypeOK
<1>2. Directory' /\ Progress' /\ Probes'
  BY DirectoryStep, ProgressStep, ProbesStep
<1>3. Compared' /\ Diagnosed' /\ Expected' /\ Builds'
  BY ComparedStep, DiagnosedStep, ExpectedStep, BuildsStep
<1>4. Verdict' /\ DiskIsBehind' /\ FailureIsRecorded'
  BY VerdictStep, DiskIsBehindStep, FailureStep
<1>5. QED
  BY <1>1, <1>2, <1>3, <1>4

(* The inductive invariant of the driver, the process that overlaps and    *)
(* the operator.                                                           *)
THEOREM Invariant == Spec => []IInv
  BY InitIInv, StepIInv, PTL DEF Spec

(* A report that says ok compares two engines that reached the floor,      *)
(* within the tolerance and with the probes that were asked for, whatever  *)
(* was started beside the process that wrote it.                           *)
THEOREM OkReportIsComparable == Spec => []OkIsComparable
<1>1. IInv => OkIsComparable
  BY DEF IInv, Verdict, Good, Close, OkIsComparable
<1>2. QED
  BY <1>1, Invariant, PTL

(* All SQL workers of such a report have given the expected answers, and   *)
(* the recall it reports for them is the recall of those answers, whatever *)
(* became of the fixture.                                                  *)
THEOREM OkReportAnswersParity == Spec => []OkAnswersParity
<1>1. IInv => OkAnswersParity
  BY DEF IInv, Verdict, Good, OkAnswersParity
<1>2. QED
  BY <1>1, Invariant, PTL

(* A fixture that one of them read damaged has been built anew since, for  *)
(* any number of rebuilds at any time.                                     *)
THEOREM OkReportSawDamage == Spec => []LastingDamageIsSeen
<1>1. IInv => LastingDamageIsSeen
  BY DEF IInv, Verdict, Outlived, LastingDamageIsSeen
<1>2. QED
  BY <1>1, Invariant, PTL

(* A failure after the directory was made is on disk, or the file is torn. *)
THEOREM FailureStaysRecorded == Spec => []FailureIsRecorded
  BY Invariant, PTL DEF IInv

(* One step never drops a saved mode nor changes a verdict, unless it is   *)
(* the one in which an overlapping process marks the report as failed.     *)
LEMMA SavedStandsStep ==
  ASSUME IInv, [Next]_vars, Saved, Saved'
  PROVE  IF rival' = rival
         THEN /\ disk.status \in {"ok", "failed"} /\ rival # "gone" => disk' = disk
              /\ \A m \in DOMAIN disk.modes :
                   m \in DOMAIN disk'.modes /\ disk'.modes[m] = disk.modes[m]
         ELSE disk'.status = "failed" \/ disk' = disk
<1> USE ReportIsSaved DEF IInv, Saved, TypeOK, FileTypes, Directory
<1>0. CASE UNCHANGED vars
  BY <1>0 DEF vars
<1>1. CASE Start \/ MakeDirectory \/ LoadInputs
  BY <1>1 DEF Start, MakeDirectory, LoadInputs
<1>2. CASE SaveFirst
  <2>1. at \notin {"idle", "arguments"} /\ UNCHANGED rival /\ disk' = report
    BY <1>2 DEF SaveFirst, Save
  <2>2. QED
    BY <2>1 DEF Verdict, Ok, DiskIsBehind, Within
<1>3. CASE MeasureSql \/ MeasureOpendata
  BY <1>3 DEF MeasureSql, MeasureOpendata
<1>4. CASE SaveMode
  <2>1. at \notin {"idle", "arguments"} /\ UNCHANGED rival /\ disk' = report
    BY <1>4 DEF SaveMode, Save
  <2>2. QED
    BY <2>1 DEF Verdict, Ok, DiskIsBehind, Within
<1>5. CASE Qualify
  BY <1>5 DEF Qualify
<1>6. CASE SaveQuality
  <2>1. at \notin {"idle", "arguments"} /\ UNCHANGED rival /\ disk' = report
    BY <1>6 DEF SaveQuality, Save
  <2>2. QED
    BY <2>1 DEF Verdict, Ok, DiskIsBehind, Within
<1>7. CASE SqlDiagnostic \/ OpendataDiagnostic \/ CheckFixture
  BY <1>7 DEF SqlDiagnostic, OpendataDiagnostic, CheckFixture
<1>8. CASE SaveLast
  <2>1. at \notin {"idle", "arguments"} /\ UNCHANGED rival /\ disk' = report
    BY <1>8 DEF SaveLast, Save
  <2>2. QED
    BY <2>1 DEF Verdict, Ok, DiskIsBehind, Within
<1>9. CASE Raise
  BY <1>9 DEF Raise
<1>10. CASE Handler
  <2>1. UNCHANGED rival /\ (disk' = disk \/ disk' = [disk EXCEPT !.status = "failed"])
    BY <1>10 DEF Handler
  <2>2. [disk EXCEPT !.status = "failed"].modes = disk.modes
    BY DEF Reports
  <2>3. disk.status \in {"ok", "failed"} /\ rival # "gone" => FALSE
    BY <1>10 DEF Handler, Verdict, Ok
  <2>4. QED
    BY <2>1, <2>2, <2>3
<1>11. CASE Stop
  BY <1>11 DEF Stop
<1>12. CASE Overlap
  BY <1>12 DEF Overlap
<1>13. CASE OverlapReads
  BY <1>13 DEF OverlapReads
<1>14. CASE OverlapMarks
  <2>1. [found EXCEPT !.status = "failed"].status = "failed"
    BY <1>14 DEF OverlapMarks, Reports
  <2>2. QED
    BY <2>1, <1>14 DEF OverlapMarks
<1>15. CASE Damage \/ Rebuild
  BY <1>15 DEF Damage, Rebuild
<1>16. QED
  BY <1>0, <1>1, <1>2, <1>3, <1>4, <1>5, <1>6, <1>7, <1>8, <1>9, <1>10, <1>11, <1>12,
       <1>13, <1>14, <1>15 DEF Next

(* What has been saved stands.                                             *)
THEOREM SavedReportStands == Spec => SavedStands
<1>1. IInv /\ [Next]_vars =>
        [ Saved /\ Saved' =>
            IF rival' = rival
            THEN /\ disk.status \in {"ok", "failed"} /\ rival # "gone" => disk' = disk
                 /\ \A m \in DOMAIN disk.modes :
                      m \in DOMAIN disk'.modes /\ disk'.modes[m] = disk.modes[m]
            ELSE disk'.status = "failed" \/ disk' = disk ]_vars
  BY SavedStandsStep
<1>2. QED
  BY <1>1, Invariant, PTL DEF Spec, SavedStands
=============================================================================
