-------------------------- MODULE LayerComparison --------------------------
(***************************************************************************)
(* main() of scripts/bench_index_sql.py, and main() of                     *)
(* scripts/bench_index_layers.py, which is given the first one's directory *)
(* and report: the layers below SQL are measured on the index of a SQL     *)
(* benchmark that succeeded, perhaps with another shell, and every layer   *)
(* has to answer as that benchmark did.                                    *)
(*                                                                         *)
(* The directory is frozen by convention only: its files are named in the  *)
(* report as they are when the SQL benchmark ends, which does not record   *)
(* the index at all, and anyone may replace them at any time.              *)
(***************************************************************************)
EXTENDS Naturals, FiniteSets, Functions

CONSTANTS
  MaxReplaced,     \* bound: files replaced from outside
  None, Torn       \* a file that is not there, or was truncated only

VARIABLES
  args,            \* skip: no diagnostics; changed: another shell is used now;
                   \*   candidate: which was said with --qualify-sql-candidate
  at,              \* where the process is, the SQL benchmark's or the layers'
  csv, vortex,     \* rows with their ids; the files copied from them
  queries,         \* queries.json
  index,           \* index.json and generation: of which rows, how good, which
  results,         \* first result files of exact and ann
  replaced,        \* files replaced from outside
  source,          \* summary.json of the SQL benchmark
  measured,        \* what the SQL benchmark measured
  fixture,         \* what load_fixture has in memory
  modes,           \* layers measured, with their answers
  read,            \* indexes that the layers' processes have opened
  report           \* summary.json of the layers

files == <<csv, vortex, queries, index, results>>
sql   == <<source, measured>>
layer == <<fixture, modes, read, report>>
vars  == <<args, at, files, replaced, sql, layer>>

Engines == {"exact", "ann"}
Nothing == [engine \in Engines |-> None]

Init ==
  /\ args \in [skip : BOOLEAN, prepared : BOOLEAN, changed : BOOLEAN, candidate : BOOLEAN]
  /\ at = "generate"
  /\ csv = None /\ vortex = None /\ queries = None /\ index = None
  /\ results = Nothing /\ replaced = 0
  /\ source = None /\ measured = Nothing
  /\ fixture = None /\ modes = <<>> /\ read = {} /\ report = None
-----------------------------------------------------------------------------
(***************************************************************************)
(* Searches, as the drivers use them.                                      *)
(***************************************************************************)
(* A scan of the files.                                                    *)
Scan(q) == [rows |-> vortex, ids |-> vortex, queries |-> q, quality |-> "all"]

(* A search of the index; SQL takes the rows from the files.               *)
Search(q) == [rows |-> index.of, ids |-> index.of, queries |-> q,
              quality |-> index.quality]

(* A SQL search fails when the files are not those of the index.           *)
Answer(engine, q) == IF engine = "exact" THEN Scan(q) ELSE Search(q)
Answers(engine)   == engine = "ann" => index.of = vortex

(* Below SQL, ids are what the csv files said when they were loaded.       *)
NativeAnswer == [Search(fixture.queries) EXCEPT !.ids = fixture.csv]

(* validate_hits: distances are those of the query.                        *)
Valid(answer, q) == answer.queries = q

(* The order of the layers.                                                *)
Layers == <<"cpp-reset", "cpp-reuse", "bridge", "provider", "sql-exact", "sql-ann">>
Done    == Cardinality(DOMAIN modes)
Current == Layers[Done + 1]
WithLayer(current, answer) ==
  [l \in DOMAIN modes \cup {current} |-> IF l = current THEN answer ELSE modes[l]]
EngineOf(l) == IF l = "sql-exact" THEN "exact" ELSE "ann"

Inputs == [csv |-> csv, vortex |-> vortex, queries |-> queries]
-----------------------------------------------------------------------------
(***************************************************************************)
(* The SQL benchmark.                                                      *)
(***************************************************************************)
Generate ==
  /\ at = "generate" /\ at' = "prepare"
  /\ csv' = "made" /\ queries' = "made"
  /\ UNCHANGED <<args, vortex, index, results, replaced, sql, layer>>

Prepare ==
  /\ at = "prepare" /\ at' = "build"
  /\ vortex' = csv
  /\ UNCHANGED <<args, csv, queries, index, results, replaced, sql, layer>>

Build ==
  /\ at = "build" /\ at' = "exact"
  /\ index' = [of |-> vortex, quality |-> "good", build |-> 1]
  /\ UNCHANGED <<args, csv, vortex, queries, results, replaced, sql, layer>>

(* One process per engine, exact first: every round gives what the first   *)
(* one gave, to the queries in memory.                                     *)
Measure(engine) ==
  /\ at = engine /\ Answers(engine)
  /\ results' = [results EXCEPT ![engine] = Answer(engine, "made")]
  /\ measured' = [measured EXCEPT ![engine] = Answer(engine, "made")]
  /\ at' = IF engine = "exact" THEN "ann"
           ELSE IF args.skip THEN "describe" ELSE "diagnostic"
  /\ UNCHANGED <<args, csv, vortex, queries, index, replaced, source, layer>>

(* Another process, with stage timings, must give the same answers.        *)
Diagnose ==
  /\ at = "diagnostic" /\ Answers("ann")
  /\ Answer("ann", "made") = measured["ann"]
  /\ at' = "describe"
  /\ UNCHANGED <<args, files, replaced, sql, layer>>

(* Files are named as they are now.  Writing may fail half-way.            *)
Describe ==
  /\ at = "describe"
  /\ \/ source' = [status |-> "ok", inputs |-> Inputs, prepared |-> args.prepared]
        /\ at' = "load"
     \/ source' = Torn /\ at' = "failed"
  /\ UNCHANGED <<args, files, replaced, measured, layer>>
-----------------------------------------------------------------------------
(***************************************************************************)
(* The layers.                                                             *)
(***************************************************************************)
(* load_fixture up to its last call: the report, a generation that is      *)
(* consistent in itself and of the rows the report names, and first results*)
(* that fit the queries.                                                   *)
LoadFixture ==
  /\ at = "load"
  /\ source.prepared
  /\ index.of = source.inputs.vortex
  /\ \A engine \in Engines : Valid(results[engine], queries)
  /\ fixture' = [reference |-> index, queries |-> queries, csv |-> csv,
                 expected |-> results]
  /\ at' = "verify"
  /\ UNCHANGED <<args, files, replaced, sql, modes, read, report>>

(* verify_fixture.                                                         *)
Frozen == Inputs = source.inputs /\ index = fixture.reference

(* After loading, and once more after the last measurement.                *)
VerifyFixture ==
  /\ at \in {"verify", "verify again"} /\ Frozen
  /\ at' = IF at = "verify" THEN "qualify" ELSE "report"
  /\ UNCHANGED <<args, files, replaced, sql, layer>>

(* qualify_sql_artifacts: another shell only when that is the purpose; and *)
(* qualify_queries, with that shell.                                       *)
Qualify ==
  /\ at = "qualify" /\ (args.changed => args.candidate)
  /\ at' = "measure"
  /\ UNCHANGED <<args, files, replaced, sql, layer>>

(* The modes of the native program, and the provider: each in a process of *)
(* its own, whose samples validate_samples compares.                       *)
MeasureNative ==
  /\ at = "measure" /\ Done < 4
  /\ NativeAnswer = fixture.expected["ann"]
  /\ modes' = WithLayer(Current, NativeAnswer)
  /\ read' = read \cup {index}
  /\ UNCHANGED <<args, at, files, replaced, sql, fixture, report>>

(* Mutant: the hits fit the query, and are not compared.                   *)
SameRows_valid(answer, engine) == Valid(answer, fixture.queries)

(* SQL gives the rows that the SQL benchmark gave.                         *)
SameRows(answer, engine) == answer = fixture.expected[engine]

(* Another shell may answer otherwise.                                     *)
MeasureSql ==
  /\ at = "measure" /\ Done >= 4
  /\ LET engine == EngineOf(Current)
     IN  /\ Answers(engine)
         /\ \E answer \in {Answer(engine, fixture.queries)} \cup
               (IF args.changed
                THEN {[Answer(engine, fixture.queries) EXCEPT !.quality = "other"]}
                ELSE {}) :
              /\ SameRows(answer, engine)
              /\ modes' = WithLayer(Current, answer)
  /\ read' = IF Current = "sql-ann" THEN read \cup {index} ELSE read
  /\ at' = IF Current = "sql-ann" THEN "diagnostics" ELSE "measure"
  /\ UNCHANGED <<args, files, replaced, sql, fixture, report>>

(* One more process: a first miss of the provider's cache, and hits.       *)
DiagnoseLayers ==
  /\ at = "diagnostics" /\ Answers("ann")
  /\ SameRows(Answer("ann", fixture.queries), "ann")
  /\ read' = read \cup {index}
  /\ at' = "verify again"
  /\ UNCHANGED <<args, files, replaced, sql, fixture, modes, report>>

Report ==
  /\ at = "report"
  /\ \/ report' = [status |-> "ok", modes |-> modes, reference |-> fixture.reference,
                   inputs |-> source.inputs, changed |-> args.changed]
        /\ at' = "done"
     \/ report' = Torn /\ at' = "failed"
  /\ UNCHANGED <<args, files, replaced, sql, fixture, modes, read>>
-----------------------------------------------------------------------------
Running == at \notin {"done", "failed"}

(* A requirement that fails, a worker that fails or times out, an          *)
(* interrupt: nothing is caught.                                           *)
Raise ==
  /\ Running /\ at' = "failed"
  /\ UNCHANGED <<args, files, replaced, sql, layer>>

(* Somebody replaces rows, files or queries, edits a result, or builds     *)
(* another index in place, as good as before or not.  (A result may not be *)
(* replaced by that of a rebuilt index: the SQL benchmark's report         *)
(* identifies neither, and nothing could tell.)                            *)
Replace ==
  /\ Running /\ replaced < MaxReplaced
  /\ replaced' = replaced + 1
  /\ \/ csv # None /\ csv' = "other" /\ UNCHANGED <<vortex, queries, index, results>>
     \/ vortex # None /\ vortex' = "foreign" /\ UNCHANGED <<csv, queries, index, results>>
     \/ queries # None /\ queries' = "other" /\ UNCHANGED <<csv, vortex, index, results>>
     \/ /\ index # None
        /\ \E quality \in {"good", "bad"} :
             index' = [of |-> vortex, quality |-> quality, build |-> index.build + 1]
        /\ UNCHANGED <<csv, vortex, queries, results>>
     \/ /\ \E engine \in Engines :
             /\ results[engine] # None
             /\ results' = [results EXCEPT ![engine].quality = "edited"]
        /\ UNCHANGED <<csv, vortex, queries, index>>
  /\ UNCHANGED <<args, at, sql, layer>>

Next ==
  \/ Generate \/ Prepare \/ Build
  \/ \E engine \in Engines : Measure(engine)
  \/ Diagnose \/ Describe
  \/ LoadFixture \/ VerifyFixture \/ Qualify
  \/ MeasureNative \/ MeasureSql \/ DiagnoseLayers \/ Report
  \/ Raise \/ Replace

Spec == Init /\ [][Next]_vars
-----------------------------------------------------------------------------
(***************************************************************************)
(* Properties.                                                             *)
(***************************************************************************)
Reported == report \notin {None, Torn}

(* docs/INDEX_SQL_BENCHMARK.md compares the layers by what they cost for   *)
(* the same answers.  Every answer in a report is the one that the SQL     *)
(* benchmark measured, to the same queries, of the rows that both reports  *)
(* name: also when files were replaced before or while either ran, and     *)
(* whatever another shell answers.  All processes that contributed opened  *)
(* one index, the one that the report identifies.                          *)
LayersMeasureTheSource ==
  Reported =>
    /\ DOMAIN report.modes = Range(Layers)
    /\ \A l \in DOMAIN report.modes : report.modes[l] = measured[EngineOf(l)]
    /\ \A engine \in Engines : /\ measured[engine].rows = report.inputs.vortex
                               /\ measured[engine].queries = report.inputs.queries
    /\ read = {report.reference}
=============================================================================
