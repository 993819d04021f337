--------------------------- MODULE SiftComparison ---------------------------
(***************************************************************************)
(* main() of scripts/bench_index_sift.py: how the layers of one index are  *)
(* compared at equal quality.                                              *)
(*                                                                         *)
(* A sealed fixture is built or given; the number of probes is tuned until *)
(* the recall suffices; then every layer is measured with these probes, in *)
(* processes of at most one chunk of queries, and has to answer as the     *)
(* tuning did.  SQL is measured strictly and with a snapshot, which the    *)
(* default shell cannot retain when the index is oversized.  Nothing is    *)
(* caught: what raises ends the process, and progress.json is what is left.*)
(***************************************************************************)
EXTENDS Naturals, FiniteSets, Sequences, FiniteSetsExt

CONSTANTS
  Probe,           \* --probes
  Chunks,          \* processes that the queries of one layer take
  Ranking,         \* what the answers to one chunk may be
  Sufficient,      \* answers to all chunks whose recall reaches the target
  None,            \* a file that is not there, probes not selected
  Torn             \* a file that was truncated and not written

ASSUME SiftParameters ==
  /\ Probe \subseteq Nat /\ IsFiniteSet(Probe) /\ Probe # {}
  /\ Chunks \in Nat \ {0}
  /\ Sufficient \subseteq [1 .. Chunks -> Ranking]
  /\ None \notin Probe

(* A layer that was not measured is told from one that was.                *)
ASSUME NoneIsNoAnswer == None \notin [1 .. Chunks -> Ranking]

VARIABLES
  given,           \* argument: an existing fixture
  oversized,       \* the index exceeds the default budget of SQL
  candidate,       \* argument: "none", or a snapshot shell, whose stated
                   \*   budget the index "fits" or not
  holds,           \* what each shell really retains
  at,              \* where the process is
  inputs,          \* base, queries and truth: "original", or "replaced"
  fixture,         \* index and source files, with the base they were built from
  recorded,        \* the fixture whose reference was fingerprinted
  tried,           \* the tuning: << probes, answers >> in order
  selected,        \* the probes
  answers,         \* of the layer being measured, chunk by chunk
  modes,           \* layers measured, with their answers
  control,         \* the default snapshot was seen to be rejected
  progress,        \* progress.json: None, Torn, or layers with their answers
  summary,         \* summary.json
  read             \* fixtures that measured workers have opened

args    == <<given, oversized, candidate, holds>>
host    == <<inputs, fixture>>
tuning  == <<tried, selected>>
measured == <<answers, modes, control, read>>
files   == <<progress, summary>>
vars    == <<args, at, host, recorded, tuning, measured, files>>

NoFixture == [index |-> "absent", base |-> "original"]

Init ==
  /\ given \in BOOLEAN /\ oversized \in BOOLEAN
  /\ candidate \in {"none", "fits", "short"}
  /\ holds \in [{"default", "candidate"} -> BOOLEAN]
  /\ at = "load" /\ inputs = "original"
  /\ fixture \in IF given THEN [index : {"sealed"}, base : {"original", "replaced"}]
                          ELSE {NoFixture}
  /\ recorded = NoFixture
  /\ tried = <<>> /\ selected = None
  /\ answers = <<>> /\ modes = <<>> /\ control = FALSE
  /\ progress = None /\ summary = None /\ read = {}
-----------------------------------------------------------------------------
(***************************************************************************)
(* Helpers.                                                                *)
(***************************************************************************)
Steps == {"load", "build", "fixture", "tune", "measure", "progress", "control",
          "diagnose", "verify", "summary"}

Layers == <<"cpp-reset", "cpp-reuse", "bridge", "provider", "sql-strict",
            "sql-snapshot">>

Done    == Cardinality(DOMAIN modes)
Current == Layers[Done + 1]
InSql   == Done >= 4

(* The layers with what one more of them gave.                             *)
WithLayer(layer, given_answers) ==
  [l \in DOMAIN modes \cup {layer} |-> IF l = layer THEN given_answers ELSE modes[l]]

(* Probes that were not tried yet.                                         *)
Untried == Probe \ {tried[i].probes : i \in DOMAIN tried}

(* Mutant: in the order of the command line, here downwards.               *)
NextProbes_unsorted == Max(Untried)

(* Probes are tried in increasing order.                                   *)
NextProbes == Min(Untried)

Expected == tried[Len(tried)].answers

Shell(layer) ==
  IF layer = "sql-snapshot" /\ candidate # "none" THEN "candidate" ELSE "default"

(* The index is within the budget that the shell is said to have.          *)
Retained(layer) ==
  IF Shell(layer) = "candidate" THEN candidate = "fits" ELSE ~oversized

(* Mutant: the fixture is loaded again, its reference is not compared.     *)
Unchanged_loadable == fixture.index # "damaged" /\ inputs = "original"

(* The second load_fixture succeeds with the same reference, and the input *)
(* files still have the checksums of the manifest.                         *)
Unchanged == fixture.index = recorded.index /\ inputs = "original"

(* write_json truncates and rewrites in place: an error leaves a torn file.*)
Save(file, content, to) ==
  \/ file' = content /\ at' = to
  \/ file' = Torn /\ at' = "failed"
-----------------------------------------------------------------------------
(***************************************************************************)
(* Inputs and fixture.                                                     *)
(***************************************************************************)
LoadInputs ==
  /\ at = "load" /\ inputs = "original"
  /\ at' = IF given THEN "fixture" ELSE "build"
  /\ UNCHANGED <<args, host, recorded, tuning, measured, files>>

(* The builder reads the base as it is now, and main() writes down what    *)
(* load_inputs had identified.                                             *)
BuildFixture ==
  /\ at = "build" /\ at' = "fixture"
  /\ fixture' = [index |-> "sealed", base |-> inputs]
  /\ UNCHANGED <<args, inputs, recorded, tuning, measured, files>>

(* Every checksum of the generation holds, and a fixture that was given    *)
(* was built from these inputs.                                            *)
Acceptable ==
  /\ fixture.index # "damaged"
  /\ given => fixture.base = "original"

LoadFixture ==
  /\ at = "fixture" /\ Acceptable
  /\ at' = "tune"
  /\ recorded' = fixture
  /\ UNCHANGED <<args, host, tuning, measured, files>>
-----------------------------------------------------------------------------
(***************************************************************************)
(* Tuning and native measurement.                                          *)
(***************************************************************************)
(* run_chunks: one process per chunk, whose complete rounds are validated. *)
RunChunk ==
  /\ at \in {"tune", "measure"} /\ ~InSql
  /\ Len(answers) < Chunks
  /\ \E ranking \in Ranking : answers' = Append(answers, ranking)
  /\ read' = read \cup {fixture}
  /\ UNCHANGED <<args, at, host, recorded, tuning, modes, control, files>>

(* The first probes that suffice are selected; without any, main() raises. *)
Score ==
  /\ at = "tune" /\ Len(answers) = Chunks
  /\ tried' = Append(tried, [probes |-> NextProbes, answers |-> answers])
  /\ IF answers \in Sufficient
     THEN selected' = NextProbes /\ at' = "measure"
     ELSE selected' = None /\ at' = IF Untried' # {} THEN "tune" ELSE "failed"
  /\ answers' = <<>>
  /\ UNCHANGED <<args, host, recorded, modes, control, read, files>>

(* compare_hits, for every sample of every round.                          *)
SameAnswers(given_answers) == given_answers = Expected

Compare ==
  /\ at = "measure" /\ ~InSql
  /\ Len(answers) = Chunks /\ SameAnswers(answers)
  /\ modes' = WithLayer(Current, answers)
  /\ answers' = <<>> /\ at' = "progress"
  /\ UNCHANGED <<args, host, recorded, tuning, control, read, files>>

(* After the last native layer an oversized index is tried first.          *)
SaveProgress ==
  /\ at = "progress"
  /\ Save(progress, modes,
          CASE Done < 4 -> "measure" [] Done > 4 -> "diagnose"
            [] OTHER -> IF oversized THEN "control" ELSE "measure")
  /\ UNCHANGED <<args, host, recorded, tuning, measured, summary>>
-----------------------------------------------------------------------------
(***************************************************************************)
(* SQL.                                                                    *)
(***************************************************************************)
(* snapshot_budget_control: the default shell has to refuse the snapshot.  *)
Control ==
  /\ at = "control" /\ ~holds["default"]
  /\ at' = "measure"
  /\ control' = TRUE
  /\ UNCHANGED <<args, host, recorded, tuning, answers, modes, read, files>>

(* No shell could retain the snapshot.                                     *)
Unsupported == Current = "sql-snapshot" /\ control /\ candidate = "none"

(* One process with one prepared owner answers all queries; it fails when  *)
(* its shell cannot retain the snapshot.                                   *)
MeasureSql ==
  /\ at = "measure" /\ InSql /\ ~Unsupported
  /\ Current = "sql-snapshot" => holds[Shell(Current)]
  /\ \E given_answers \in [1 .. Chunks -> Ranking] :
       /\ SameAnswers(given_answers)
       /\ modes' = WithLayer(Current, given_answers)
  /\ read' = read \cup {fixture}
  /\ at' = "progress"
  /\ UNCHANGED <<args, host, recorded, tuning, answers, control, files>>

MarkUnsupported ==
  /\ at = "measure" /\ InSql /\ Unsupported
  /\ modes' = WithLayer(Current, None)
  /\ at' = "verify"
  /\ UNCHANGED <<args, host, recorded, tuning, answers, control, read, files>>

(* Mutant: the hits are counted, and not checked.                          *)
Confirmed_counted(layer) == TRUE

(* After its first search the worker hits the provider's handle if the     *)
(* shell retains it, which must be what the budget says.                   *)
Confirmed(layer) == holds[Shell(layer)] = Retained(layer)

(* A second process for every SQL layer.                                   *)
Diagnose ==
  /\ at = "diagnose"
  /\ Confirmed(Layers[Done])
  /\ at' = IF Layers[Done] = "sql-snapshot" THEN "verify" ELSE "measure"
  /\ UNCHANGED <<args, host, recorded, tuning, measured, files>>
-----------------------------------------------------------------------------
Verify ==
  /\ at = "verify" /\ Unchanged
  /\ at' = "summary"
  /\ UNCHANGED <<args, host, recorded, tuning, measured, files>>

Status ==
  IF modes["sql-snapshot"] # None THEN "ok" ELSE "partial_unsupported_snapshot_budget"

SaveSummary ==
  /\ at = "summary"
  /\ Save(summary, [status |-> Status, probes |-> selected, modes |-> modes,
                    index |-> recorded.index], "done")
  /\ UNCHANGED <<args, host, recorded, tuning, measured, progress>>

(* A check that does not hold, a worker that fails, times out or leaves    *)
(* incomplete samples, an interrupt.                                       *)
Raise ==
  /\ at \in Steps /\ at' = "failed"
  /\ UNCHANGED <<args, host, recorded, tuning, measured, files>>

(* Somebody replaces an input file, or a file of the fixture; or builds    *)
(* another fixture in its place, which is consistent in itself.            *)
Interfere ==
  /\ \/ inputs' = "replaced" /\ inputs = "original" /\ UNCHANGED fixture
     \/ /\ fixture.index = "sealed" /\ UNCHANGED inputs
        /\ \E index \in {"damaged", "rebuilt"} :
             fixture' = [fixture EXCEPT !.index = index]
  /\ UNCHANGED <<args, at, recorded, tuning, measured, files>>

Next ==
  \/ LoadInputs \/ BuildFixture \/ LoadFixture
  \/ RunChunk \/ Score \/ Compare \/ SaveProgress
  \/ Control \/ MeasureSql \/ MarkUnsupported \/ Diagnose
  \/ Verify \/ SaveSummary \/ Raise \/ Interfere

Spec == Init /\ [][Next]_vars
-----------------------------------------------------------------------------
(***************************************************************************)
(* Properties.                                                             *)
(***************************************************************************)
Summarized == summary \notin {None, Torn}
Measured   == {m \in DOMAIN summary.modes : summary.modes[m] # None}

(* docs/INDEX_SQL_BENCHMARK.md: "The first tested internal_results [...]   *)
(* reaching --recall-target 0.99 is frozen across layers".  The recall of  *)
(* the probes a report names suffices, and that of no fewer ones did; and  *)
(* every measured layer gave, in every chunk, the answers of that tuning.  *)
LayersHaveEqualQuality ==
  Summarized =>
    \E i \in DOMAIN tried :
      /\ tried[i].probes = summary.probes
      /\ tried[i].answers \in Sufficient
      /\ \A m \in Measured : summary.modes[m] = tried[i].answers
      /\ \A probes \in Probe : probes < summary.probes =>
           \E j \in DOMAIN tried : /\ tried[j].probes = probes
                                   /\ tried[j].answers \notin Sufficient

(* "It must not silently fall back to a snapshot", nor be without one: a   *)
(* report is "ok" exactly when the snapshot was measured, it lacks one     *)
(* only when the default shell cannot retain it and no other was given,    *)
(* and the shells really retain what the report says of their budgets.     *)
BudgetsAreReal ==
  Summarized =>
    /\ (summary.status = "ok") = ("sql-snapshot" \in Measured)
    /\ "sql-snapshot" \in Measured \/ (oversized /\ candidate = "none")
    /\ Layers[6] \in Measured => holds[Shell("sql-snapshot")] /\ Retained("sql-snapshot")
    /\ holds["default"] = ~oversized

(* All workers that contributed to a report opened one and the same index, *)
(* the one it identifies, built from the base it identifies.               *)
ReportIsOfOneFixture ==
  Summarized => read = {[index |-> summary.index, base |-> "original"]}
=============================================================================
