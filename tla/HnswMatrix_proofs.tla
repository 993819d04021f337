-------------------------- MODULE HnswMatrix_proofs --------------------------
(***************************************************************************)
(* Proofs about HnswMatrix, for every number of repeats, of input files    *)
(* and of answers, and interrupts wherever they may arrive.                *)
(***************************************************************************)
EXTENDS HnswMatrix, TLAPS

Version == [File -> {0, 1}]
Layer   == {"native", "provider", "sql"}

RunRecord == [layer : Layer, ranking : Ranking, verified : BOOLEAN,
              busy : BOOLEAN, first : BOOLEAN, fresh : BOOLEAN,
              compiling : BOOLEAN, files : Version]

Status   == {"in_progress", "ok", "excluded", "failed", "interrupted"}
Document == [status : Status \cup {"absent", "torn"}, runs : Seq(RunRecord)]

(* What kind of value each variable has.                                   *)
MainTypes ==
  /\ pc \in Main
  /\ code \in {"none", "zero", "error"}
  /\ raised \in BOOLEAN
  /\ signalled \in Main \cup {"nowhere"}
  /\ broken \subseteq {"report.json", "host.json", "counters", "stdout"}

DocumentTypes ==
  /\ report \in Document
  /\ disk \in Document
  /\ expected \in Ranking \cup {None}
  /\ pc = "returned" => outcome \in RunRecord
  /\ version \in Version /\ recorded \in Version

HostTypes ==
  /\ monitor \in {"absent", "running", "failed", "stopped"}
  /\ done \in BOOLEAN
  /\ seen \in [any : BOOLEAN, compiler : BOOLEAN, blind : BOOLEAN]
  /\ compiler \in BOOLEAN
  /\ window \in [open : BOOLEAN, sampled : BOOLEAN, first : BOOLEAN,
                 fresh : BOOLEAN, throughout : BOOLEAN]

TypeOK == MainTypes /\ DocumentTypes /\ HostTypes

USE DEF exits, documents, judging, sampling, host

(* The order of the layers gives names of layers.                          *)
LEMMA LayerType == ASSUME NEW n \in Nat PROVE LayerAfter(n) \in Layer
<1>1. n % Layers \in 0 .. 2
  BY DEF Layers
<1>2. QED
  BY <1>1 DEF LayerAfter, Order, Layer

(* The variables of the main thread keep their types.                      *)
LEMMA MainTypeStep == ASSUME TypeOK, [Next]_vars PROVE MainTypes'
<1> USE DEF TypeOK, MainTypes, Main, TryBody
<1>1. CASE UNCHANGED vars
  BY <1>1 DEF vars
<1>2. CASE LoadInputs \/ StartMonitor \/ EnterTry \/ Preflight \/ Launch \/ WorkerReturns
  BY <1>2 DEF LoadInputs, StartMonitor, EnterTry, Preflight, Launch, WorkerReturns
<1>3. CASE StartupFails \/ WorkerFails \/ Accept \/ Reject \/ Reverify \/ Handle
  BY <1>3 DEF StartupFails, WorkerFails, Accept, Reject, Reverify, Handle, Exit, Raise
<1>3a. CASE AcceptUnsaved \/ HandleUnsaved \/ QualifyUnsaved
  BY <1>3a DEF AcceptUnsaved, HandleUnsaved, QualifyUnsaved, SaveFails, Exit, Raise
<1>4. CASE StopMonitor \/ Join \/ FinalSample \/ FinalSampleFails \/ Qualify
  BY <1>4 DEF StopMonitor, Join, FinalSample, FinalSampleFails, Qualify, Exit
<1>4a. CASE HostJsonFails \/ QualifyRaises \/ Report
  BY <1>4a DEF HostJsonFails, QualifyRaises, Report, Exit
<1>5. CASE Sample \/ MonitorFails \/ MonitorStops \/ CompilerStarts \/ CompilerStops
  BY <1>5 DEF Sample, MonitorFails, MonitorStops, CompilerStarts, CompilerStops
<1>6. CASE Interrupt \/ Kill
  BY <1>6 DEF Interrupt, Kill, Exit, Raise
<1>7. CASE \E f \in File : Replace(f)
  BY <1>7 DEF Replace
<1>8. QED
  BY <1>1, <1>2, <1>3, <1>3a, <1>4, <1>4a, <1>5, <1>6, <1>7 DEF Next, MainStep

(* What a worker returns is the record of a run.                           *)
LEMMA OutcomeType ==
  ASSUME TypeOK, WorkerReturns
  PROVE  outcome' \in RunRecord
<1>1. Len(report.runs) \in Nat
  BY DEF TypeOK, DocumentTypes, Document
<1>2. LayerAfter(Len(report.runs)) \in Layer
  BY <1>1, LayerType
<1>3. PICK ranking \in Ranking, verified \in BOOLEAN, busy \in BOOLEAN :
        outcome' = [layer |-> LayerAfter(Len(report.runs)), ranking |-> ranking,
                    verified |-> verified, busy |-> busy, first |-> window.first,
                    fresh |-> window.fresh /\ monitor = "running",
                    compiling |-> window.throughout, files |-> version]
  BY DEF WorkerReturns
<1>4. /\ window.first \in BOOLEAN /\ window.throughout \in BOOLEAN
      /\ (window.fresh /\ monitor = "running") \in BOOLEAN
      /\ version \in Version
  BY DEF TypeOK, HostTypes, DocumentTypes
<1>5. QED
  BY <1>2, <1>3, <1>4 DEF RunRecord

(* The documents keep their types.                                         *)
LEMMA DocumentTypeStep == ASSUME TypeOK, [Next]_vars PROVE DocumentTypes'
<1> USE DEF TypeOK, DocumentTypes
<1>0. Torn \in Document
  BY DEF Torn, Document
<1>1. CASE UNCHANGED vars
  BY <1>1 DEF vars
<1>2. CASE LoadInputs \/ StartMonitor \/ EnterTry \/ Preflight \/ Launch
  BY <1>2 DEF LoadInputs, StartMonitor, EnterTry, Preflight, Launch
<1>3. CASE WorkerReturns
  BY <1>3, OutcomeType DEF WorkerReturns
<1>4. CASE Accept
  <2>1. pc = "returned" /\ outcome \in RunRecord
    BY <1>4 DEF Accept
  <2>2. Append(report.runs, outcome) \in Seq(RunRecord)
    BY <2>1 DEF Document
  <2>3. report' \in Document /\ disk' \in Document
    BY <1>4, <2>2 DEF Accept, Save, Document, Status
  <2>4. outcome.ranking \in Ranking
    BY <2>1 DEF RunRecord
  <2>5. expected' \in Ranking \cup {None}
    BY <1>4, <2>4 DEF Accept
  <2>6. pc' # "returned"
    BY <1>4 DEF Accept
  <2>7. QED
    BY <1>4, <2>3, <2>5, <2>6 DEF Accept
<1>4a. CASE AcceptUnsaved
  <2>1. pc = "returned" /\ outcome \in RunRecord
    BY <1>4a DEF AcceptUnsaved
  <2>2. Append(report.runs, outcome) \in Seq(RunRecord)
    BY <2>1 DEF Document
  <2>3. report' \in Document /\ disk' \in Document
    BY <1>0, <1>4a, <2>2 DEF AcceptUnsaved, SaveFails, Document, Status
  <2>4. outcome.ranking \in Ranking
    BY <2>1 DEF RunRecord
  <2>5. expected' \in Ranking \cup {None}
    BY <1>4a, <2>4 DEF AcceptUnsaved
  <2>6. QED
    BY <1>4a, <2>3, <2>5 DEF AcceptUnsaved, Raise
<1>5. CASE StartupFails \/ WorkerFails \/ Reject \/ Reverify
  BY <1>5 DEF StartupFails, WorkerFails, Reject, Reverify, Exit, Raise
<1>6. CASE Handle \/ HandleUnsaved
  <2>1. report' \in Document /\ disk' \in Document
    BY <1>0, <1>6 DEF Handle, HandleUnsaved, Failure, Save, SaveFails, Document, Status
  <2>2. QED
    BY <1>6, <2>1 DEF Handle, HandleUnsaved
<1>7. CASE StopMonitor \/ Join \/ FinalSample \/ FinalSampleFails \/ HostJsonFails
  BY <1>7 DEF StopMonitor, Join, FinalSample, FinalSampleFails, HostJsonFails, Exit
<1>7a. CASE QualifyRaises \/ Report
  BY <1>7a DEF QualifyRaises, Report, Exit
<1>8. CASE Qualify \/ QualifyUnsaved
  <2>1. report' \in Document /\ disk' \in Document
    BY <1>0, <1>8 DEF Qualify, QualifyUnsaved, Save, SaveFails, Document, Status
  <2>2. QED
    BY <1>8, <2>1 DEF Qualify, QualifyUnsaved, Exit
<1>9. CASE Sample \/ MonitorFails \/ MonitorStops \/ CompilerStarts \/ CompilerStops
  BY <1>9 DEF Sample, MonitorFails, MonitorStops, CompilerStarts, CompilerStops
<1>10. CASE Interrupt
  BY <1>10, SignalsReachAProcess DEF Interrupt, Exit, Raise
<1>11. CASE Kill
  BY <1>0, <1>11 DEF Kill
<1>12. ASSUME NEW f \in File, Replace(f)
       PROVE  DocumentTypes'
  BY <1>12 DEF Replace, Version
<1>13. QED
  BY <1>1, <1>2, <1>3, <1>4, <1>4a, <1>5, <1>6, <1>7, <1>7a, <1>8, <1>9, <1>10, <1>11,
     <1>12
  DEF Next, MainStep

(* The monitor, the host and the window keep their types.                  *)
LEMMA HostTypeStep == ASSUME TypeOK, [Next]_vars PROVE HostTypes'
<1> USE DEF TypeOK, HostTypes
<1>0. Closed \in [open : BOOLEAN, sampled : BOOLEAN, first : BOOLEAN,
                  fresh : BOOLEAN, throughout : BOOLEAN]
  BY DEF Closed
<1>1. CASE UNCHANGED vars
  BY <1>1 DEF vars
<1>2. CASE LoadInputs \/ StartMonitor \/ EnterTry \/ Preflight
  BY <1>2 DEF LoadInputs, StartMonitor, EnterTry, Preflight
<1>3. CASE Launch
  BY <1>3 DEF Launch
<1>4. CASE WorkerReturns
  BY <1>0, <1>4 DEF WorkerReturns
<1>4a. CASE WorkerFails
  BY <1>0, <1>4a DEF WorkerFails
<1>5. CASE Accept \/ StartupFails \/ Reject \/ Reverify \/ Handle
  BY <1>5 DEF Accept, StartupFails, Reject, Reverify, Handle
<1>5a. CASE AcceptUnsaved \/ HandleUnsaved \/ QualifyUnsaved
  BY <1>5a DEF AcceptUnsaved, HandleUnsaved, QualifyUnsaved
<1>6. CASE StopMonitor \/ Join \/ QualifyRaises \/ Qualify \/ Report
  BY <1>6 DEF StopMonitor, Join, QualifyRaises, Qualify, Report
<1>7. CASE FinalSample \/ FinalSampleFails \/ HostJsonFails
  BY <1>7 DEF FinalSample, FinalSampleFails, HostJsonFails, Observe, Blinded
<1>8. CASE Sample
  BY <1>8 DEF Sample, Observe
<1>9. CASE MonitorFails \/ MonitorStops
  BY <1>9 DEF MonitorFails, MonitorStops, Blinded
<1>10. CASE CompilerStarts \/ CompilerStops
  BY <1>10 DEF CompilerStarts, CompilerStops
<1>11. CASE Interrupt
  BY <1>0, <1>11 DEF Interrupt
<1>11a. CASE Kill
  BY <1>11a DEF Kill
<1>12. CASE \E f \in File : Replace(f)
  BY <1>12 DEF Replace
<1>13. QED
  BY <1>1, <1>2, <1>3, <1>4, <1>4a, <1>5, <1>5a, <1>6, <1>7, <1>8, <1>9, <1>10, <1>11,
     <1>11a, <1>12
  DEF Next, MainStep

(* The types are an invariant by themselves.                               *)
LEMMA TypeInit == Init => TypeOK
<1> SUFFICES ASSUME Init PROVE TypeOK
  OBVIOUS
<1>1. MainTypes
  BY DEF Init, MainTypes, Main
<1>2. DocumentTypes
  BY DEF Init, DocumentTypes, Document, Status, Absent, Version
<1>3. HostTypes
  BY DEF Init, HostTypes, Closed
<1>4. QED
  BY <1>1, <1>2, <1>3 DEF TypeOK

(* No step changes the kind of value a variable has.                       *)
LEMMA TypeStep == TypeOK /\ [Next]_vars => TypeOK'
BY MainTypeStep, DocumentTypeStep, HostTypeStep DEF TypeOK

-----------------------------------------------------------------------------
(***************************************************************************)
(* The inductive invariant.                                                *)
(***************************************************************************)
Looping   == {"preflight", "switched", "measuring", "returned"}
Concluded == {"finally", "join", "final", "qualify"}

(* The report holds the layers in the order they are due, all of them once *)
(* the loop has been left without an exception.                            *)
RunsInOrder ==
  /\ \A i \in DOMAIN report.runs : report.runs[i].layer = LayerAfter(i - 1)
  /\ pc = "returned" => outcome.layer = LayerAfter(Len(report.runs))
  /\ pc \in {"inputs", "quiet", "setup"} => report.runs = <<>>
  /\ pc \in Looping => Len(report.runs) < Layers * Repeats
  /\ pc = "reverify" => Complete(report.runs)
  /\ pc \in Concluded /\ ~raised => Complete(report.runs)

(* Only verified workers with the one answer are in the report.            *)
RunsAgree ==
  \A i \in DOMAIN report.runs :
    report.runs[i].verified /\ report.runs[i].ranking = expected

(* A worker finds each file no older than recorded and no newer than now.  *)
Between(files) ==
  \A f \in File : recorded[f] <= files[f] /\ files[f] <= version[f]

FilesAreBetween ==
  /\ Between(version)
  /\ \A i \in DOMAIN report.runs : Between(report.runs[i].files)
  /\ pc = "returned" => Between(outcome.files)
  /\ pc \in Concluded /\ ~raised =>
       \A i \in DOMAIN report.runs : report.runs[i].files = recorded

(* The file and the dictionary agree unless a write has failed, the file    *)
(* never holds more than the dictionary, and both say how the process      *)
(* stands.                                                                 *)
DocumentsAgree ==
  /\ pc # "killed" /\ "report.json" \notin broken =>
       disk = report \/ (disk = Absent /\ report.runs = <<>>)
  /\ \A i \in DOMAIN disk.runs :
       i \in DOMAIN report.runs /\ disk.runs[i] = report.runs[i]
  /\ raised => pc \in Concluded \cup {"exited", "killed"} /\ pc # "qualify"
  /\ ~raised /\ pc \notin {"print", "exited", "killed"} =>
       report.status = "in_progress" /\ disk.status \in Unfinished
  /\ raised /\ signalled \in TryBody \cup {"nowhere"} =>
       report.status \in {"failed", "interrupted"}
  /\ code = "none" \/ pc = "exited"
  /\ pc = "print" \/ code = "zero" => disk.status = "ok"

(* The window is open while a worker measures, and what it remembers of    *)
(* the host is true.                                                       *)
WindowIsTrue ==
  /\ pc # "killed" => (window.open <=> pc = "measuring")
  /\ window.throughout => compiler
  /\ window.open /\ window.sampled /\ window.throughout => seen.compiler
  /\ pc \notin {"join", "final", "qualify", "print", "exited", "killed"} => ~done

(* What a run says of the samples, when no sample failed.                  *)
Watched(run) == run.first /\ run.fresh /\ (run.compiling => seen.compiler)

(* As long as reading the host works the monitor runs, and no window       *)
(* passes without it.                                                      *)
MonitorWatches ==
  ~seen.blind =>
    /\ pc \in TryBody \cup {"setup", "failing", "finally"} => monitor = "running"
    /\ pc \in {"switched", "measuring"} => seen.any
    /\ pc = "measuring" => window.first /\ window.fresh
    /\ pc = "returned" => Watched(outcome)
    /\ \A i \in DOMAIN report.runs : Watched(report.runs[i])

(* What "ok" means.                                                        *)
OkIsEarned ==
  disk.status = "ok" =>
    /\ pc \in {"print", "exited", "killed"} /\ disk = report
    /\ Complete(report.runs)
    /\ \A i \in DOMAIN report.runs : report.runs[i].files = recorded
    /\ seen.blind \/ \A i \in DOMAIN report.runs :
                        ~report.runs[i].compiling /\ ~report.runs[i].busy

(* What the end of the process means for the report.                       *)
EndIsRecorded ==
  /\ pc = "exited" /\ report.runs # <<>>
  /\ signalled \in TryBody \cup {"nowhere"}
  =>
    /\ disk.status = "ok" => code = "zero" \/ "stdout" \in broken
    /\ disk.status \in Unfinished =>
         \/ "report.json" \in broken
         \/ ~raised /\ Complete(disk.runs) /\ (seen.blind \/ broken # {})

IInv ==
  /\ TypeOK /\ RunsInOrder /\ RunsAgree /\ FilesAreBetween /\ DocumentsAgree
  /\ WindowIsTrue /\ MonitorWatches /\ OkIsEarned /\ EndIsRecorded
-----------------------------------------------------------------------------
(***************************************************************************)
(* Every step preserves it, one conjunct after the other.                  *)
(***************************************************************************)
(* What a report holds are records of runs.                                *)
LEMMA RunType ==
  ASSUME NEW runs \in Seq(RunRecord), NEW i \in DOMAIN runs
  PROVE  /\ runs[i].ranking \in Ranking /\ runs[i].files \in Version
         /\ runs[i].layer \in Layer
<1>1. runs[i] \in RunRecord
  OBVIOUS
<1>2. QED
  BY <1>1 DEF RunRecord

(* A worker's layer, one of those that are due.                            *)
LEMMA RunsInOrderStep == ASSUME IInv, [Next]_vars PROVE RunsInOrder'
<1> USE DEF IInv, RunsInOrder, Looping, Concluded, Complete
<1>0. /\ report.runs \in Seq(RunRecord) /\ Len(report.runs) \in Nat
      /\ Layers * Repeats \in Nat /\ Layers * Repeats > 0
      /\ pc \in Main
  BY MatrixParameters DEF TypeOK, MainTypes, DocumentTypes, Document, Layers
<1>1. CASE UNCHANGED vars
  BY <1>1 DEF vars
<1>2. CASE LoadInputs \/ StartupFails \/ StartMonitor \/ Preflight \/ Launch
  BY <1>2 DEF LoadInputs, StartupFails, StartMonitor, Preflight, Launch, Exit
<1>3. CASE EnterTry
  BY <1>0, <1>3 DEF EnterTry
<1>4. CASE WorkerReturns
  BY <1>4 DEF WorkerReturns
<1>5. CASE Accept \/ AcceptUnsaved
  <2>1. /\ pc = "returned" /\ outcome \in RunRecord /\ ~raised /\ raised' = raised
        /\ report'.runs = Append(report.runs, outcome)
        /\ \/ pc' = IF Len(report'.runs) = Layers * Repeats THEN "reverify"
                                                           ELSE "preflight"
           \/ pc' = "failing"
    BY <1>5 DEF Accept, AcceptUnsaved, Save, SaveFails, Raise, TypeOK, DocumentTypes,
                DocumentsAgree
  <2>2. /\ Len(report'.runs) = Len(report.runs) + 1
        /\ DOMAIN report'.runs = 1 .. Len(report.runs) + 1
        /\ \A i \in DOMAIN report.runs : report'.runs[i] = report.runs[i]
        /\ report'.runs[Len(report.runs) + 1] = outcome
    BY <1>0, <2>1
  <2>3. ASSUME NEW i \in DOMAIN report'.runs
        PROVE  report'.runs[i].layer = LayerAfter(i - 1)
    BY <1>0, <2>1, <2>2
  <2>4. QED
    BY <1>0, <2>1, <2>2, <2>3
<1>6. CASE WorkerFails \/ Reject \/ Reverify
  BY <1>6 DEF WorkerFails, Reject, Reverify, Raise
<1>7. CASE Handle \/ HandleUnsaved
  BY <1>7 DEF Handle, HandleUnsaved, Save, SaveFails
<1>8. CASE StopMonitor \/ Join \/ FinalSample \/ FinalSampleFails
  BY <1>8 DEF StopMonitor, Join, FinalSample, FinalSampleFails, Exit
<1>8a. CASE HostJsonFails \/ QualifyRaises \/ Report
  BY <1>8a DEF HostJsonFails, QualifyRaises, Report, Exit
<1>9. CASE Qualify \/ QualifyUnsaved
  BY <1>9 DEF Qualify, QualifyUnsaved, Save, SaveFails, Exit
<1>10. CASE Sample \/ MonitorFails \/ MonitorStops \/ CompilerStarts \/ CompilerStops
  BY <1>10 DEF Sample, MonitorFails, MonitorStops, CompilerStarts, CompilerStops
<1>11. CASE Interrupt
  BY <1>11 DEF Interrupt, Exit, Raise, TryBody
<1>12. CASE Kill
  BY <1>12 DEF Kill
<1>13. CASE \E f \in File : Replace(f)
  BY <1>13 DEF Replace
<1>14. QED
  BY <1>1, <1>2, <1>3, <1>4, <1>5, <1>6, <1>7, <1>8, <1>8a, <1>9, <1>10, <1>11, <1>12,
     <1>13 DEF Next, MainStep

(* The answers that are kept agree with the first one.                     *)
LEMMA RunsAgreeStep == ASSUME IInv, [Next]_vars PROVE RunsAgree'
<1> USE DEF IInv, RunsAgree
<1>0. report.runs \in Seq(RunRecord) /\ Len(report.runs) \in Nat
  BY DEF TypeOK, DocumentTypes, Document
<1>1. CASE UNCHANGED vars
  BY <1>1 DEF vars
<1>2. CASE LoadInputs \/ StartupFails \/ StartMonitor \/ EnterTry \/ Preflight \/ Launch
  BY <1>2 DEF LoadInputs, StartupFails, StartMonitor, EnterTry, Preflight, Launch
<1>3. CASE WorkerReturns \/ WorkerFails \/ Reject \/ Reverify
  BY <1>3 DEF WorkerReturns, WorkerFails, Reject, Reverify
<1>4. CASE Accept \/ AcceptUnsaved
  <2>1. /\ outcome \in RunRecord /\ outcome.verified
        /\ expected = None \/ outcome.ranking = expected
        /\ report'.runs = Append(report.runs, outcome)
        /\ expected' = IF expected = None THEN outcome.ranking ELSE expected
    BY <1>4 DEF Accept, AcceptUnsaved, Acceptable, Mismatch, Save, SaveFails, TypeOK,
                DocumentTypes
  <2>2. \A i \in DOMAIN report.runs : report.runs[i].ranking \in Ranking
    BY <1>0, RunType
  <2>3. expected = None => DOMAIN report.runs = {}
    BY <2>2, MatrixParameters
  <2>4. ASSUME NEW i \in DOMAIN report'.runs
        PROVE  report'.runs[i].verified /\ report'.runs[i].ranking = expected'
    <3>1. CASE i = Len(report.runs) + 1
      BY <1>0, <2>1, <3>1
    <3>2. CASE i \in DOMAIN report.runs
      BY <1>0, <2>1, <2>3, <3>2
    <3>3. QED
      BY <1>0, <2>1, <2>4, <3>1, <3>2
  <2>5. QED
    BY <2>4
<1>5. CASE Handle \/ Qualify \/ HandleUnsaved \/ QualifyUnsaved
  BY <1>5 DEF Handle, Qualify, HandleUnsaved, QualifyUnsaved, Save, SaveFails
<1>6. CASE StopMonitor \/ Join \/ FinalSample \/ FinalSampleFails
  BY <1>6 DEF StopMonitor, Join, FinalSample, FinalSampleFails
<1>6a. CASE HostJsonFails \/ QualifyRaises \/ Report
  BY <1>6a DEF HostJsonFails, QualifyRaises, Report
<1>7. CASE Sample \/ MonitorFails \/ MonitorStops \/ CompilerStarts \/ CompilerStops
  BY <1>7 DEF Sample, MonitorFails, MonitorStops, CompilerStarts, CompilerStops
<1>8. CASE Interrupt \/ Kill
  BY <1>8 DEF Interrupt, Kill
<1>9. CASE \E f \in File : Replace(f)
  BY <1>9 DEF Replace
<1>10. QED
  BY <1>1, <1>2, <1>3, <1>4, <1>5, <1>6, <1>6a, <1>7, <1>8, <1>9 DEF Next, MainStep

(* A version only goes up, and once all files are found unchanged so were  *)
(* they for every worker.                                                  *)
LEMMA FilesAreBetweenStep == ASSUME IInv, [Next]_vars PROVE FilesAreBetween'
<1> USE DEF IInv, FilesAreBetween, Between, Concluded
<1>0. /\ report.runs \in Seq(RunRecord) /\ Len(report.runs) \in Nat
      /\ version \in Version /\ recorded \in Version
  BY DEF TypeOK, DocumentTypes, Document
<1>1. CASE UNCHANGED vars
  BY <1>1 DEF vars
<1>2. CASE LoadInputs
  <2>1. report'.runs = <<>> /\ recorded' = version /\ version' = version /\ pc' = "quiet"
    BY <1>2 DEF LoadInputs, RunsInOrder
  <2>2. QED
    BY <1>0, <2>1 DEF Version
<1>3. CASE StartupFails \/ StartMonitor \/ EnterTry \/ Preflight \/ Launch
  BY <1>3 DEF StartupFails, StartMonitor, EnterTry, Preflight, Launch, Exit
<1>4. CASE WorkerReturns
  <2>1. outcome'.files = version
    BY <1>4 DEF WorkerReturns
  <2>2. QED
    BY <1>0, <1>4, <2>1 DEF WorkerReturns, Version
<1>5. CASE Accept \/ AcceptUnsaved
  <2>1. /\ pc = "returned" /\ report'.runs = Append(report.runs, outcome)
        /\ UNCHANGED host /\ pc' \in {"reverify", "preflight", "failing"}
        /\ outcome \in RunRecord
    BY <1>5 DEF Accept, AcceptUnsaved, Save, SaveFails, Raise, TypeOK, DocumentTypes
  <2>2. ASSUME NEW i \in DOMAIN report'.runs PROVE Between(report'.runs[i].files)
    <3>1. CASE i = Len(report.runs) + 1
      BY <1>0, <2>1, <3>1
    <3>2. CASE i \in DOMAIN report.runs
      BY <1>0, <2>1, <3>2
    <3>3. QED
      BY <1>0, <2>1, <2>2, <3>1, <3>2
  <2>3. QED
    BY <2>1, <2>2
<1>6. CASE WorkerFails \/ Reject
  BY <1>6 DEF WorkerFails, Reject, Raise
<1>7. CASE Reverify
  <2>1. ASSUME version = recorded, NEW i \in DOMAIN report.runs
        PROVE  report.runs[i].files = recorded
    <3>1. report.runs[i].files \in Version
      BY <1>0, <2>1, RunType
    <3>2. \A f \in File : report.runs[i].files[f] = recorded[f]
      BY <1>0, <2>1, <3>1 DEF Version
    <3>3. QED
      BY <1>0, <3>1, <3>2 DEF Version
  <2>2. QED
    BY <1>7, <2>1 DEF Reverify, Unchanged, Raise
<1>8. CASE Handle \/ Qualify \/ HandleUnsaved \/ QualifyUnsaved
  BY <1>8 DEF Handle, Qualify, HandleUnsaved, QualifyUnsaved, Save, SaveFails, Exit
<1>9. CASE StopMonitor \/ Join \/ FinalSample \/ FinalSampleFails
  BY <1>9 DEF StopMonitor, Join, FinalSample, FinalSampleFails, Exit
<1>9a. CASE HostJsonFails \/ QualifyRaises \/ Report
  BY <1>9a DEF HostJsonFails, QualifyRaises, Report, Exit
<1>10. CASE Sample \/ MonitorFails \/ MonitorStops \/ CompilerStarts \/ CompilerStops
  BY <1>10 DEF Sample, MonitorFails, MonitorStops, CompilerStarts, CompilerStops
<1>11. CASE Interrupt \/ Kill
  BY <1>11 DEF Interrupt, Kill, Exit, Raise
<1>12. ASSUME NEW f \in File, Replace(f)
       PROVE  FilesAreBetween'
  <2>1. \A g \in File : version[g] <= version'[g]
    BY <1>0, <1>12 DEF Replace, Version
  <2>2. \A i \in DOMAIN report.runs : report.runs[i].files \in Version
    BY <1>0, RunType
  <2>3. pc = "returned" => outcome.files \in Version
    BY DEF TypeOK, DocumentTypes, RunRecord
  <2>4. version' \in Version
    BY <1>0, <1>12 DEF Replace, Version
  <2>5. QED
    BY <1>0, <1>12, <2>1, <2>2, <2>3, <2>4 DEF Replace, Version
<1>13. QED
  BY <1>1, <1>2, <1>3, <1>4, <1>5, <1>6, <1>7, <1>8, <1>9, <1>9a, <1>10, <1>11, <1>12
  DEF Next, MainStep

(* The dictionary is written whenever it changes, if that can be written.  *)
LEMMA DocumentsAgreeStep == ASSUME IInv, [Next]_vars PROVE DocumentsAgree'
<1> USE DEF IInv, DocumentsAgree, Concluded, TryBody, Unfinished
<1>0. /\ pc \in Main /\ code \in {"none", "zero", "error"}
      /\ report.runs \in Seq(RunRecord) /\ disk.runs \in Seq(RunRecord)
      /\ disk.status = "ok" => disk = report
  BY DEF OkIsEarned, TypeOK, MainTypes, DocumentTypes, Document
<1>1. CASE UNCHANGED vars
  BY <1>1 DEF vars
<1>2. CASE LoadInputs \/ StartMonitor \/ EnterTry \/ Preflight \/ Launch \/ WorkerReturns
  BY <1>2 DEF LoadInputs, StartMonitor, EnterTry, Preflight, Launch, WorkerReturns
<1>3. CASE StartupFails
  BY <1>0, <1>3 DEF StartupFails, Exit
<1>4. CASE Accept
  BY <1>0, <1>4 DEF Accept, Save
<1>4a. CASE AcceptUnsaved
  <2>1. /\ report'.runs = Append(report.runs, outcome)
        /\ report'.status = "in_progress"
        /\ disk' \in {disk, Torn} /\ "report.json" \in broken'
        /\ pc = "returned" /\ pc' = "failing"
        /\ UNCHANGED <<code, raised, signalled>>
    BY <1>4a DEF AcceptUnsaved, SaveFails, Raise
  <2>2. \A i \in DOMAIN report.runs :
          i \in DOMAIN report'.runs /\ report'.runs[i] = report.runs[i]
    BY <1>0, <2>1
  <2>3. QED
    BY <1>0, <2>1, <2>2 DEF Torn
<1>5. CASE WorkerFails \/ Reject \/ Reverify
  BY <1>5 DEF WorkerFails, Reject, Reverify, Raise
<1>6. CASE Handle
  BY <1>0, <1>6 DEF Handle, Failure, Save
<1>6a. CASE HandleUnsaved
  BY <1>0, <1>6a DEF HandleUnsaved, Failure, SaveFails, Torn
<1>7. CASE StopMonitor \/ Join
  BY <1>7 DEF StopMonitor, Join
<1>8. CASE FinalSample \/ FinalSampleFails \/ HostJsonFails
  BY <1>0, <1>8 DEF FinalSample, FinalSampleFails, HostJsonFails, Exit
<1>9. CASE QualifyRaises \/ Report
  BY <1>0, <1>9 DEF QualifyRaises, Report, Exit
<1>10. CASE Qualify
  BY <1>0, <1>10 DEF Qualify, Save, Exit
<1>10a. CASE QualifyUnsaved
  BY <1>0, <1>10a DEF QualifyUnsaved, SaveFails, Torn, Exit
<1>11. CASE Sample \/ MonitorFails \/ MonitorStops \/ CompilerStarts \/ CompilerStops
  BY <1>11 DEF Sample, MonitorFails, MonitorStops, CompilerStarts, CompilerStops
<1>12. CASE Interrupt
  BY <1>0, <1>12, SignalsReachAProcess DEF Interrupt, Exit, Raise
<1>13. CASE Kill
  BY <1>0, <1>13 DEF Kill, Torn
<1>14. CASE \E f \in File : Replace(f)
  BY <1>14 DEF Replace
<1>15. QED
  BY <1>1, <1>2, <1>3, <1>4, <1>4a, <1>5, <1>6, <1>6a, <1>7, <1>8, <1>9, <1>10, <1>10a,
     <1>11, <1>12, <1>13, <1>14 DEF Next, MainStep

(* The window closes with the worker, and a sample inside it notices a     *)
(* compiler that has been there all the time.                              *)
LEMMA WindowIsTrueStep == ASSUME IInv, [Next]_vars PROVE WindowIsTrue'
<1> USE DEF IInv, WindowIsTrue, TryBody
<1>0. /\ HostTypes /\ pc \in Main
  BY DEF TypeOK, MainTypes
<1> USE DEF HostTypes
<1>1. CASE UNCHANGED vars
  BY <1>1 DEF vars
<1>2. CASE LoadInputs \/ StartupFails \/ StartMonitor \/ EnterTry \/ Preflight
  BY <1>2 DEF LoadInputs, StartupFails, StartMonitor, EnterTry, Preflight, Exit
<1>3. CASE Launch
  <2>1. /\ window'.open = TRUE /\ window'.sampled = FALSE
        /\ window'.throughout = compiler
    BY <1>3 DEF Launch
  <2>2. QED
    BY <1>3, <2>1 DEF Launch
<1>4. CASE WorkerReturns
  BY <1>4 DEF WorkerReturns, Closed
<1>5. CASE WorkerFails
  BY <1>5 DEF WorkerFails, Closed, Raise
<1>6. CASE Accept \/ Reject \/ Reverify \/ Handle
  BY <1>6 DEF Accept, Reject, Reverify, Handle, Raise
<1>6a. CASE AcceptUnsaved \/ HandleUnsaved \/ QualifyUnsaved
  BY <1>6a DEF AcceptUnsaved, HandleUnsaved, QualifyUnsaved, Raise, Exit
<1>7. CASE StopMonitor \/ Join \/ QualifyRaises \/ Qualify \/ Report
  BY <1>7 DEF StopMonitor, Join, QualifyRaises, Qualify, Report, Exit
<1>8. CASE FinalSample \/ HostJsonFails
  <2>1. seen'.compiler = (seen.compiler \/ compiler)
    BY <1>0, <1>8 DEF FinalSample, HostJsonFails, Observe
  <2>2. QED
    BY <1>8, <2>1 DEF FinalSample, HostJsonFails, Exit
<1>9. CASE FinalSampleFails
  <2>1. seen'.compiler = seen.compiler
    BY <1>0, <1>9 DEF FinalSampleFails, Blinded
  <2>2. QED
    BY <1>9, <2>1 DEF FinalSampleFails, Exit
<1>10. CASE Sample
  <2>1. seen'.compiler = (seen.compiler \/ compiler)
    BY <1>0, <1>10 DEF Sample, Observe
  <2>2. /\ window'.open = window.open
        /\ window'.throughout = window.throughout
    BY <1>0, <1>10 DEF Sample
  <2>3. QED
    BY <1>0, <1>10, <2>1, <2>2 DEF Sample
<1>11. CASE MonitorFails
  <2>1. seen'.compiler = seen.compiler
    BY <1>0, <1>11 DEF MonitorFails, Blinded
  <2>2. QED
    BY <1>11, <2>1 DEF MonitorFails
<1>12. CASE MonitorStops \/ CompilerStarts
  BY <1>12 DEF MonitorStops, CompilerStarts
<1>13. CASE CompilerStops
  <2>1. /\ window'.open = window.open /\ window'.sampled = window.sampled
        /\ window'.throughout = FALSE
    BY <1>0, <1>13 DEF CompilerStops
  <2>2. QED
    BY <1>13, <2>1 DEF CompilerStops
<1>14. CASE Interrupt
  BY <1>14 DEF Interrupt, Closed, Exit, Raise
<1>15. CASE Kill
  BY <1>15 DEF Kill
<1>16. CASE \E f \in File : Replace(f)
  BY <1>16 DEF Replace
<1>17. QED
  BY <1>1, <1>2, <1>3, <1>4, <1>5, <1>6, <1>6a, <1>7, <1>8, <1>9, <1>10, <1>11, <1>12,
     <1>13, <1>14, <1>15, <1>16 DEF Next, MainStep

(* The monitor only ends by failing, which the samples show, or after it   *)
(* has been told to.                                                       *)
LEMMA MonitorWatchesStep == ASSUME IInv, [Next]_vars PROVE MonitorWatches'
<1> USE DEF IInv, MonitorWatches, Watched, TryBody
<1>0. /\ HostTypes /\ pc \in Main
      /\ report.runs \in Seq(RunRecord) /\ Len(report.runs) \in Nat
  BY DEF TypeOK, MainTypes, DocumentTypes, Document
<1> USE DEF HostTypes
<1>1. CASE UNCHANGED vars
  BY <1>1 DEF vars
<1>2. CASE LoadInputs \/ StartupFails \/ StartMonitor \/ EnterTry
  BY <1>2 DEF LoadInputs, StartupFails, StartMonitor, EnterTry, Exit
<1>3. CASE Preflight
  BY <1>3 DEF Preflight
<1>4. CASE Launch
  <2>1. /\ window'.first = seen.any
        /\ window'.fresh = (seen.any /\ monitor = "running")
    BY <1>4 DEF Launch
  <2>2. QED
    BY <1>4, <2>1 DEF Launch
<1>5. CASE WorkerReturns
  <2>1. /\ outcome'.first = window.first
        /\ outcome'.fresh = (window.fresh /\ monitor = "running")
        /\ outcome'.compiling = window.throughout
    BY <1>5 DEF WorkerReturns
  <2>2. ~seen.blind => Watched(outcome)'
    BY <1>0, <1>5, <2>1 DEF WorkerReturns, WindowIsTrue
  <2>3. QED
    BY <1>5, <2>2 DEF WorkerReturns
<1>6. CASE WorkerFails \/ Reject \/ Reverify
  BY <1>6 DEF WorkerFails, Reject, Reverify, Raise
<1>7. CASE Accept \/ AcceptUnsaved
  <2>1. /\ pc = "returned" /\ report'.runs = Append(report.runs, outcome)
        /\ UNCHANGED sampling /\ pc' \in {"reverify", "preflight", "failing"}
        /\ outcome \in RunRecord
    BY <1>7 DEF Accept, AcceptUnsaved, Save, SaveFails, Raise, TypeOK, DocumentTypes
  <2>2. ASSUME ~seen.blind, NEW i \in DOMAIN report'.runs
        PROVE  Watched(report'.runs[i])
    <3>1. CASE i = Len(report.runs) + 1
      BY <1>0, <2>1, <2>2, <3>1
    <3>2. CASE i \in DOMAIN report.runs
      BY <1>0, <2>1, <2>2, <3>2
    <3>3. QED
      BY <1>0, <2>1, <2>2, <3>1, <3>2
  <2>3. QED
    BY <2>1, <2>2
<1>8. CASE Handle \/ Qualify \/ HandleUnsaved \/ QualifyUnsaved
  BY <1>8 DEF Handle, Qualify, HandleUnsaved, QualifyUnsaved, Save, SaveFails, Exit
<1>9. CASE StopMonitor \/ Join \/ QualifyRaises \/ Report
  BY <1>9 DEF StopMonitor, Join, QualifyRaises, Report, Exit
<1>10. CASE FinalSample \/ HostJsonFails \/ Sample
  <2>1. /\ seen'.blind = seen.blind /\ seen'.any = TRUE
        /\ seen'.compiler = (seen.compiler \/ compiler)
    BY <1>0, <1>10 DEF FinalSample, HostJsonFails, Sample, Observe
  <2>2. CASE FinalSample \/ HostJsonFails
    BY <2>1, <2>2 DEF FinalSample, HostJsonFails, Exit
  <2>3. CASE Sample
    <3>1. window'.first = window.first /\ window'.fresh = window.fresh
      BY <1>0, <2>3 DEF Sample
    <3>2. QED
      BY <2>1, <2>3, <3>1 DEF Sample
  <2>4. QED
    BY <1>10, <2>2, <2>3
<1>11. CASE FinalSampleFails \/ MonitorFails
  <2>1. seen'.blind = TRUE
    BY <1>0, <1>11 DEF FinalSampleFails, MonitorFails, Blinded
  <2>2. QED
    BY <2>1
<1>12. CASE MonitorStops
  BY <1>0, <1>12 DEF MonitorStops, WindowIsTrue
<1>13. CASE CompilerStarts
  BY <1>13 DEF CompilerStarts
<1>14. CASE CompilerStops
  <2>1. window'.first = window.first /\ window'.fresh = window.fresh
    BY <1>0, <1>14 DEF CompilerStops
  <2>2. QED
    BY <1>14, <2>1 DEF CompilerStops
<1>15. CASE Interrupt
  BY <1>15 DEF Interrupt, Exit, Raise
<1>16. CASE Kill
  BY <1>16 DEF Kill
<1>17. CASE \E f \in File : Replace(f)
  BY <1>17 DEF Replace
<1>18. QED
  BY <1>1, <1>2, <1>3, <1>4, <1>5, <1>6, <1>7, <1>8, <1>9, <1>10, <1>11, <1>12,
     <1>13, <1>14, <1>15, <1>16, <1>17 DEF Next, MainStep

(* "ok" is written by Qualify alone, which looked at every run.            *)
LEMMA OkIsEarnedStep == ASSUME IInv, [Next]_vars PROVE OkIsEarned'
<1> USE DEF IInv, OkIsEarned, Complete
<1>1. CASE UNCHANGED vars
  BY <1>1 DEF vars
<1>2. CASE LoadInputs \/ StartupFails \/ StartMonitor \/ EnterTry \/ Preflight \/ Launch
  BY <1>2 DEF LoadInputs, StartupFails, StartMonitor, EnterTry, Preflight, Launch
<1>3. CASE WorkerReturns \/ WorkerFails \/ Reject \/ Reverify
  BY <1>3 DEF WorkerReturns, WorkerFails, Reject, Reverify
<1>4. CASE Accept \/ Handle
  BY <1>4 DEF Accept, Handle, Failure, Save
<1>4a. CASE AcceptUnsaved \/ HandleUnsaved \/ QualifyUnsaved
  <2>1. pc \in {"returned", "failing", "qualify"} /\ disk' \in {disk, Torn}
    BY <1>4a DEF AcceptUnsaved, HandleUnsaved, QualifyUnsaved, SaveFails
  <2>2. QED
    BY <2>1 DEF Torn
<1>5. CASE StopMonitor \/ Join \/ FinalSample \/ FinalSampleFails
  BY <1>5 DEF StopMonitor, Join, FinalSample, FinalSampleFails
<1>5a. CASE HostJsonFails \/ QualifyRaises \/ Report
  BY <1>5a DEF HostJsonFails, QualifyRaises, Report, Exit
<1>6. CASE Qualify
  <2>1. PICK qualified \in BOOLEAN :
          /\ qualified => \A run \in Runs : Qualified(run)
          /\ disk' = [status |-> IF qualified THEN "ok" ELSE "excluded",
                      runs |-> report.runs]
          /\ report' = disk'
    BY <1>6 DEF Qualify, Save, Verdicts
  <2>2. /\ pc = "qualify" /\ pc' \in {"print", "exited"} /\ ~raised
        /\ UNCHANGED <<recorded, seen>>
    BY <1>6 DEF Qualify, Exit, DocumentsAgree
  <2>3. Complete(report.runs) /\ \A i \in DOMAIN report.runs :
                                    report.runs[i].files = recorded
    BY <2>2 DEF RunsInOrder, FilesAreBetween, Concluded
  <2>4. ASSUME qualified, ~seen.blind, NEW i \in DOMAIN report.runs
        PROVE  ~report.runs[i].compiling /\ ~report.runs[i].busy
    <3>1. Qualified(report.runs[i])
      BY <2>1, <2>4 DEF Runs
    <3>2. Watched(report.runs[i])
      BY <2>4 DEF MonitorWatches
    <3>3. QED
      BY <3>1, <3>2 DEF Qualified, Watched
  <2>5. disk'.status = "ok" => qualified
    BY <2>1
  <2>6. report'.runs = report.runs
    BY <2>1
  <2>7. QED
    BY <2>1, <2>2, <2>3, <2>4, <2>5, <2>6
<1>7. CASE Sample
  <2>1. seen'.blind = seen.blind
    BY <1>7 DEF Sample, Observe, TypeOK, HostTypes
  <2>2. QED
    BY <1>7, <2>1 DEF Sample
<1>8. CASE MonitorFails
  <2>1. seen'.blind
    BY <1>8 DEF MonitorFails, Blinded, TypeOK, HostTypes
  <2>2. QED
    BY <1>8, <2>1 DEF MonitorFails
<1>9. CASE MonitorStops \/ CompilerStarts \/ CompilerStops
  BY <1>9 DEF MonitorStops, CompilerStarts, CompilerStops
<1>10. CASE Interrupt
  BY <1>10, SignalsReachAProcess DEF Interrupt, Exit, Raise, TryBody
<1>11. CASE Kill
  BY <1>11 DEF Kill, Torn
<1>12. CASE \E f \in File : Replace(f)
  BY <1>12 DEF Replace
<1>13. QED
  BY <1>1, <1>2, <1>3, <1>4, <1>4a, <1>5, <1>5a, <1>6, <1>7, <1>8, <1>9, <1>10, <1>11,
     <1>12
  DEF Next, MainStep

(* The process ends without a verdict only where nothing has been measured,*)
(* an interrupt is not caught, a document could not be written, or the     *)
(* complete matrix could not be judged.                                    *)
LEMMA EndIsRecordedStep == ASSUME IInv, [Next]_vars PROVE EndIsRecorded'
<1> USE DEF IInv, EndIsRecorded, TryBody, Unfinished
<1>0. HostTypes /\ DocumentTypes /\ MainTypes
  BY DEF TypeOK
<1>1. CASE UNCHANGED vars
  BY <1>1 DEF vars
<1>2. CASE LoadInputs \/ StartMonitor \/ EnterTry \/ Preflight \/ Launch
  BY <1>2 DEF LoadInputs, StartMonitor, EnterTry, Preflight, Launch
<1>3. CASE StartupFails
  BY <1>3 DEF StartupFails, RunsInOrder
<1>4. CASE WorkerReturns \/ WorkerFails \/ Accept \/ Reject \/ Reverify
  BY <1>4 DEF WorkerReturns, WorkerFails, Accept, Reject, Reverify, Raise
<1>4a. CASE AcceptUnsaved \/ HandleUnsaved
  BY <1>4a DEF AcceptUnsaved, HandleUnsaved, Raise
<1>5. CASE Handle \/ StopMonitor \/ Join
  BY <1>5 DEF Handle, StopMonitor, Join
<1>6. CASE FinalSample \/ FinalSampleFails \/ HostJsonFails
  <2>1. /\ pc = "final" /\ UNCHANGED <<report, disk, raised, signalled>>
        /\ pc' = "exited" => raised \/ seen'.blind \/ broken' # {}
        /\ broken \subseteq broken'
    BY <1>0, <1>6 DEF FinalSample, FinalSampleFails, HostJsonFails, Exit, Blinded,
                      HostTypes
  <2>2. /\ ~raised => Complete(report.runs) /\ disk.status # "ok"
        /\ raised /\ signalled \in TryBody \cup {"nowhere"} =>
             report.status \in {"failed", "interrupted"}
        /\ "report.json" \notin broken =>
             disk = report \/ (disk = Absent /\ report.runs = <<>>)
        /\ disk.status # "ok"
    BY <2>1 DEF RunsInOrder, DocumentsAgree, Concluded, OkIsEarned
  <2>3. QED
    BY <2>1, <2>2
<1>7. CASE QualifyRaises
  <2>1. /\ pc = "qualify" /\ UNCHANGED <<report, disk, raised, signalled, seen>>
        /\ seen.blind \/ broken' # {}
        /\ broken \subseteq broken'
    BY <1>7 DEF QualifyRaises, Runs, MonitorWatches, Watched
  <2>2. /\ ~raised /\ Complete(report.runs) /\ disk.status # "ok"
        /\ "report.json" \notin broken =>
             disk = report \/ (disk = Absent /\ report.runs = <<>>)
    BY <2>1 DEF RunsInOrder, DocumentsAgree, Concluded, OkIsEarned
  <2>3. QED
    BY <2>1, <2>2
<1>8. CASE Qualify
  <2>1. \/ pc' = "print"
        \/ disk'.status = "excluded"
    BY <1>8 DEF Qualify, Save
  <2>2. QED
    BY <2>1
<1>9. CASE QualifyUnsaved
  <2>1. pc = "qualify" /\ disk' \in {disk, Torn} /\ "report.json" \in broken'
    BY <1>9 DEF QualifyUnsaved, SaveFails
  <2>2. disk'.status # "ok"
    BY <2>1 DEF OkIsEarned, Torn
  <2>3. QED
    BY <2>1, <2>2
<1>9a. CASE Report
  BY <1>9a DEF Report, Exit, DocumentsAgree
<1>10. CASE Sample
  <2>1. seen'.blind = seen.blind
    BY <1>0, <1>10 DEF Sample, Observe, HostTypes
  <2>2. QED
    BY <1>10, <2>1 DEF Sample, Complete
<1>11. CASE MonitorFails
  <2>1. seen'.blind
    BY <1>0, <1>11 DEF MonitorFails, Blinded, HostTypes
  <2>2. QED
    BY <1>11, <2>1 DEF MonitorFails, Complete
<1>12. CASE MonitorStops \/ CompilerStarts \/ CompilerStops
  BY <1>12 DEF MonitorStops, CompilerStarts, CompilerStops, Complete
<1>13. CASE Interrupt
  BY <1>0, <1>13, SignalsReachAProcess DEF Interrupt, Exit, Raise, MainTypes, Main
<1>14. CASE Kill
  BY <1>14 DEF Kill
<1>15. CASE \E f \in File : Replace(f)
  BY <1>15 DEF Replace, Complete
<1>16. QED
  BY <1>1, <1>2, <1>3, <1>4, <1>4a, <1>5, <1>6, <1>7, <1>8, <1>9, <1>9a, <1>10, <1>11,
     <1>12, <1>13, <1>14, <1>15 DEF Next, MainStep

(* Before anything has happened all of it holds.                           *)
LEMMA IInvInit == Init => IInv
<1> SUFFICES ASSUME Init PROVE IInv
  OBVIOUS
<1>1. TypeOK
  BY TypeInit
<1>2. /\ report.runs = <<>> /\ disk = Absent /\ report.status = "in_progress"
      /\ disk.status = "absent"
    BY DEF Init, Absent
<1>3. RunsInOrder /\ RunsAgree /\ EndIsRecorded
  BY <1>2 DEF Init, RunsInOrder, RunsAgree, EndIsRecorded, Looping, Concluded
<1>4. FilesAreBetween
  BY <1>2 DEF Init, FilesAreBetween, Between, Concluded
<1>5. DocumentsAgree /\ OkIsEarned
  BY <1>2 DEF Init, DocumentsAgree, OkIsEarned, Concluded, Unfinished, Absent
<1>6. WindowIsTrue /\ MonitorWatches
  BY <1>2 DEF Init, WindowIsTrue, MonitorWatches, Closed, TryBody
<1>7. QED
  BY <1>1, <1>3, <1>4, <1>5, <1>6 DEF IInv

(* No step leaves the invariant.                                           *)
LEMMA IInvStep == IInv /\ [Next]_vars => IInv'
<1> SUFFICES ASSUME IInv, [Next]_vars PROVE IInv'
  OBVIOUS
<1>1. TypeOK'
  BY TypeStep DEF IInv
<1>2. QED
  BY <1>1, RunsInOrderStep, RunsAgreeStep, FilesAreBetweenStep, DocumentsAgreeStep,
     WindowIsTrueStep, MonitorWatchesStep, OkIsEarnedStep, EndIsRecordedStep
  DEF IInv

(* Types, order and agreement of the runs, the recorded files, the two     *)
(* documents, the window and the monitor: in every reachable state.        *)
THEOREM Invariant == Spec => []IInv
BY IInvInit, IInvStep, PTL DEF Spec
-----------------------------------------------------------------------------
(***************************************************************************)
(* What it is for.                                                         *)
(***************************************************************************)
(* Back and forth: the layer after n others is the one that the sequence   *)
(* has at that place.                                                      *)
LEMMA LayersAlternate ==
  ASSUME NEW repeats \in Nat, NEW i \in 1 .. Layers * repeats
  PROVE  LayerAfter(i - 1) = Sequence(repeats)[i]
<1> DEFINE n == i - 1
           p == n % 6
           q == n \div 6
<1>1. n \in Nat /\ p \in 0 .. 5 /\ q \in Nat /\ n = 6 * q + p
  BY DEF Layers
<1>2. p < 3 => n \div 3 = 2 * q /\ n % 3 = p
  BY <1>1
<1>3. p >= 3 => n \div 3 = 2 * q + 1 /\ n % 3 = p - 3
  BY <1>1
<1>4. Sequence(repeats)[i] = <<"native", "provider", "sql">>[
                               IF p < 3 THEN p + 1 ELSE 6 - p]
  BY DEF Sequence, Layers
<1>5. CASE p < 3
  <2>1. LayerAfter(n) = <<"native", "provider", "sql">>[p + 1]
    BY <1>1, <1>2, <1>5 DEF LayerAfter, Order, Layers
  <2>2. QED
    BY <1>4, <1>5, <2>1
<1>6. CASE p >= 3
  <2>1. (2 * q + 1) % 2 = 1
    BY <1>1
  <2>2. LayerAfter(n) = <<"sql", "provider", "native">>[p - 3 + 1]
    BY <1>1, <1>3, <1>6, <2>1 DEF LayerAfter, Order, Layers
  <2>3. p \in {3, 4, 5}
    BY <1>1, <1>6
  <2>4. <<"sql", "provider", "native">>[p - 3 + 1] =
        <<"native", "provider", "sql">>[6 - p]
    BY <2>3
  <2>5. QED
    BY <1>1, <1>4, <1>6, <2>2, <2>4
<1>7. QED
  BY <1>1, <1>5, <1>6

(* A report "ok" is a complete measurement of the files it identifies.     *)
THEOREM OkReportIsComplete == Spec => []OkIsComplete
<1>1. IInv => OkIsComplete
  <2> SUFFICES ASSUME IInv, disk.status = "ok"
               PROVE  /\ [i \in DOMAIN disk.runs |-> disk.runs[i].layer]
                           = Sequence(Repeats)
                      /\ \A r, s \in DiskRuns : r.verified /\ r.ranking = s.ranking
                      /\ \A run \in DiskRuns : run.files = recorded
    BY DEF OkIsComplete
  <2>1. /\ disk = report /\ Len(report.runs) = Layers * Repeats
        /\ report.runs \in Seq(RunRecord) /\ Repeats \in Nat
        /\ DOMAIN report.runs = 1 .. Layers * Repeats
    BY MatrixParameters
    DEF IInv, OkIsEarned, Complete, TypeOK, DocumentTypes, Document
  <2>2. \A i \in 1 .. Layers * Repeats :
          disk.runs[i].layer = Sequence(Repeats)[i]
    BY <2>1, LayersAlternate DEF IInv, RunsInOrder
  <2>3. [i \in DOMAIN disk.runs |-> disk.runs[i].layer] = Sequence(Repeats)
    BY <2>1, <2>2 DEF Sequence
  <2>4. QED
    BY <2>1, <2>3 DEF DiskRuns, IInv, RunsAgree, OkIsEarned
<1>2. QED
  BY <1>1, Invariant, PTL

(* No measured window of a report "ok" was disturbed, as far as the        *)
(* samples, which all succeeded, can show it.                              *)
THEOREM OkReportIsQuiet == Spec => []OkIsQuietIfSampled
<1>1. IInv => OkIsQuietIfSampled
  BY DEF IInv, OkIsEarned, OkIsQuietIfSampled, OkIsQuiet, DiskRuns
<1>2. QED
  BY <1>1, Invariant, PTL

(* The exit code and the report on disk tell the same end, and what breaks *)
(* the loop is recorded: no report is left without a verdict but where it  *)
(* could not be written, or the complete matrix could not be judged.       *)
THEOREM ReportHoldsTheVerdict == Spec => []VerdictIsRecorded
<1>1. IInv => VerdictIsRecorded
  BY DEF IInv, EndIsRecorded, DocumentsAgree, VerdictIsRecorded
<1>2. QED
  BY <1>1, Invariant, PTL

(* Saving runs that were saved before keeps them.                          *)
LEMMA SavedRunsAreAPrefix ==
  ASSUME NEW old \in Seq(RunRecord), NEW new \in Seq(RunRecord),
         Len(old) <= Len(new),
         \A i \in DOMAIN old : new[i] = old[i]
  PROVE  SubSeq(new, 1, Len(old)) = old
OBVIOUS

(* No verdict is replaced, no measured run is lost from the report.        *)
THEOREM VerdictStands == Spec => VerdictIsFinal
<1>1. ASSUME IInv, [Next]_vars, disk'.status # "torn", disk # disk'
      PROVE  /\ disk.status \in Unfinished
             /\ Len(disk.runs) <= Len(disk'.runs)
             /\ SubSeq(disk'.runs, 1, Len(disk.runs)) = disk.runs
  <2>0. /\ report.runs \in Seq(RunRecord) /\ Len(report.runs) \in Nat
        /\ disk.runs \in Seq(RunRecord) /\ Len(disk.runs) \in Nat
        /\ \A i \in DOMAIN disk.runs :
             i \in DOMAIN report.runs /\ disk.runs[i] = report.runs[i]
    BY <1>1 DEF IInv, TypeOK, DocumentTypes, Document, DocumentsAgree
  <2>1. Accept \/ Handle \/ Qualify
    <3>1. ~(AcceptUnsaved \/ HandleUnsaved \/ QualifyUnsaved \/ Kill)
      BY <1>1 DEF AcceptUnsaved, HandleUnsaved, QualifyUnsaved, SaveFails, Kill, Torn
    <3>2. QED
      BY <1>1, <3>1 DEF Next, MainStep, vars, LoadInputs, StartupFails, StartMonitor,
         EnterTry, Preflight, Launch, WorkerReturns, WorkerFails, Reject, Reverify,
         StopMonitor, Join, FinalSample, FinalSampleFails, HostJsonFails,
         QualifyRaises, Report, Sample, MonitorFails, MonitorStops,
         CompilerStarts, CompilerStops, Interrupt, Replace
  <2>2. pc \in {"returned", "failing", "qualify"} /\ ~raised
    BY <1>1, <2>1 DEF Accept, Handle, Qualify, IInv, DocumentsAgree, Concluded
  <2>3. disk.status \in Unfinished
    BY <1>1, <2>2 DEF IInv, DocumentsAgree
  <2>4. /\ disk'.runs \in Seq(RunRecord)
        /\ \A i \in DOMAIN report.runs :
             i \in DOMAIN disk'.runs /\ disk'.runs[i] = report.runs[i]
    <3>1. CASE Accept
      <4>1. /\ disk'.runs = Append(report.runs, outcome)
            /\ outcome \in RunRecord
        BY <1>1, <3>1 DEF Accept, Save, IInv, TypeOK, DocumentTypes
      <4>2. QED
        BY <2>0, <4>1
    <3>2. CASE Handle \/ Qualify
      BY <2>0, <3>2 DEF Handle, Qualify, Save
    <3>3. QED
      BY <2>1, <3>1, <3>2
  <2>5. /\ \A i \in DOMAIN disk.runs :
             i \in DOMAIN disk'.runs /\ disk'.runs[i] = disk.runs[i]
        /\ Len(disk.runs) <= Len(disk'.runs)
    <3>1. \A i \in DOMAIN disk.runs :
            i \in DOMAIN disk'.runs /\ disk'.runs[i] = disk.runs[i]
      BY <2>0, <2>4
    <3>2. /\ DOMAIN disk.runs = 1 .. Len(disk.runs)
          /\ DOMAIN disk'.runs = 1 .. Len(disk'.runs) /\ Len(disk'.runs) \in Nat
      BY <2>0, <2>4
    <3>3. QED
      BY <2>0, <3>1, <3>2
  <2>6. QED
    BY <2>0, <2>3, <2>4, <2>5, SavedRunsAreAPrefix
<1>2. QED
  BY <1>1, Invariant, PTL DEF Spec, VerdictIsFinal

=============================================================================
