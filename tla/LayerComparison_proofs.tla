----------------------- MODULE LayerComparison_proofs -----------------------
(***************************************************************************)
(* Proofs about LayerComparison, for any number of files replaced, at any  *)
(* moment, and for every shell.                                            *)
(***************************************************************************)
EXTENDS LayerComparison, FiniteSetTheorems, TLAPS

Rows    == {"made", "other", "foreign"}
Queries == {"made", "other"}
Hits    == [rows : Rows, ids : Rows, queries : Queries,
            quality : {"all", "good", "bad", "other", "edited"}]
Indexes == [of : Rows, quality : {"good", "bad"}, build : Nat]
Named   == [csv : Rows, vortex : Rows, queries : Queries]

Building  == {"generate", "prepare", "build", "exact", "ann"}
Reporting == {"load", "verify", "qualify", "measure", "diagnostics",
              "verify again", "report", "done"}
Loaded    == Reporting \ {"load"}
Measured  == {"diagnostics", "verify again", "report", "done"}
Places    == Building \cup {"diagnostic", "describe", "failed"} \cup Reporting

(* What kind of value each variable has.                                   *)
FileTypes ==
  /\ args \in [skip : BOOLEAN, prepared : BOOLEAN, changed : BOOLEAN, candidate : BOOLEAN]
  /\ at \in Places
  /\ csv \in Rows \cup {None} /\ vortex \in Rows \cup {None}
  /\ queries \in Queries \cup {None}
  /\ index \in Indexes \cup {None}
  /\ replaced \in Nat

ResultTypes ==
  /\ results \in [Engines -> Hits \cup {None}]
  /\ measured \in [Engines -> Hits \cup {None}]
  /\ at \in Reporting =>
       source \in [status : {"ok"}, inputs : Named, prepared : BOOLEAN]
  /\ at \in Loaded =>
       fixture \in [reference : Indexes, queries : Queries, csv : Rows,
                    expected : [Engines -> Hits]]

LayerTypes ==
  /\ DOMAIN modes \subseteq Range(Layers)
  /\ \A l \in DOMAIN modes : modes[l] \in Hits
  /\ read \subseteq Indexes

TypeOK == FileTypes /\ ResultTypes /\ LayerTypes

(* What there is by the time the process has come to a place.              *)
Made ==
  /\ at \in {"generate", "prepare"} => vortex = None /\ index = None
  /\ at \in Places \ {"generate", "failed"} => csv \in Rows /\ queries \in Queries
  /\ at \in Places \ {"generate", "prepare", "failed"} => vortex \in Rows
  /\ at \in Places \ {"generate", "prepare", "build", "failed"} => index \in Indexes
  /\ at \in {"ann", "diagnostic", "describe"} \cup Reporting =>
       /\ measured["exact"] \in Hits /\ measured["exact"].queries = "made"
       /\ results["exact"] \in Hits
  /\ at \in {"diagnostic", "describe"} \cup Reporting =>
       /\ measured["ann"] \in Hits /\ measured["ann"].queries = "made"
       /\ results["ann"] \in Hits

(* A first result is what was measured, or shows that it was edited.       *)
FirstResults ==
  /\ \A engine \in Engines :
       results[engine] = measured[engine] \/ results[engine].quality = "edited"
  /\ at \in Loaded => \A engine \in Engines :
       /\ \/ fixture.expected[engine] = measured[engine]
          \/ fixture.expected[engine].quality = "edited"
       /\ fixture.expected[engine].queries = fixture.queries

(* No file returns to what it was before it was replaced.                  *)
NoReturn ==
  /\ at \in Reporting =>
       /\ vortex = source.inputs.vortex \/ vortex = "foreign"
       /\ queries = source.inputs.queries \/ queries = "other"
  /\ at \in Loaded =>
       /\ fixture.reference.of = source.inputs.vortex
       /\ fixture.queries = source.inputs.queries \/ fixture.queries = "other"
       /\ index.build >= fixture.reference.build
       /\ index.build = fixture.reference.build => index = fixture.reference

(* The index that a layer has opened is the reference, or the directory    *)
(* no longer holds the reference.                                          *)
ReadIsKnown ==
  at \in Loaded /\ index = fixture.reference => read \subseteq {index}

First(n) == {Layers[i] : i \in 1 .. n}

(* The layers are measured one after the other.                            *)
Progress ==
  /\ at \in {"load", "verify", "qualify"} => DOMAIN modes = {}
  /\ at = "measure" => \E n \in 0 .. 5 : DOMAIN modes = First(n)
  /\ at \in Measured => DOMAIN modes = Range(Layers)
  /\ at \in Loaded /\ DOMAIN modes # {} => read # {}
  /\ at \in Building \cup {"diagnostic", "describe"} => modes = <<>> /\ read = {}
  /\ at = "load" => read = {}

(* A layer answered as was expected, and with the rows of the source if    *)
(* what it read is still there.                                            *)
LayersAgree ==
  at \in Loaded => \A l \in DOMAIN modes :
    /\ modes[l] = fixture.expected[EngineOf(l)]
    /\ modes[l] = measured[EngineOf(l)]
    /\ EngineOf(l) = "exact" /\ vortex = source.inputs.vortex =>
         modes[l].rows = source.inputs.vortex
    /\ EngineOf(l) = "ann" /\ index = fixture.reference =>
         modes[l].rows = source.inputs.vortex

(* The last look at the files settles which rows, queries and index were   *)
(* used, though they may be replaced right after it.                       *)
Settled ==
  at \in {"report", "done"} =>
    /\ \A l \in DOMAIN modes : modes[l].rows = source.inputs.vortex
    /\ fixture.queries = source.inputs.queries
    /\ read = {fixture.reference}

(* A report is written last.                                               *)
ReportIsLast == Reported => at = "done" /\ LayersMeasureTheSource
-----------------------------------------------------------------------------
(* The layers by number are distinct.                                      *)
LEMMA FirstAndNext ==
  ASSUME NEW n \in 0 .. 5
  PROVE  /\ Layers[n + 1] \in Range(Layers)
         /\ Layers[n + 1] \notin First(n)
         /\ First(n + 1) = First(n) \cup {Layers[n + 1]}
<1>1. n = 0 \/ n = 1 \/ n = 2 \/ n = 3 \/ n = 4 \/ n = 5
  OBVIOUS
<1>2. 1 .. n + 1 = (1 .. n) \cup {n + 1}
  OBVIOUS
<1>3. First(n + 1) = First(n) \cup {Layers[n + 1]}
  BY <1>2 DEF First
<1>4. \A i \in 1 .. n : Layers[i] # Layers[n + 1]
  BY <1>1 DEF Layers
<1>5. Layers[n + 1] \in Range(Layers)
  BY <1>1 DEF Layers, Range
<1>6. QED
  BY <1>3, <1>4, <1>5 DEF First

(* There are as many as were counted.                                      *)
LEMMA FirstCount == \A n \in 0 .. 5 : Cardinality(First(n)) = n
<1>1. First(0) = {} /\ IsFiniteSet(First(0)) /\ Cardinality(First(0)) = 0
  BY FS_EmptySet DEF First
<1>2. IsFiniteSet(First(1)) /\ Cardinality(First(1)) = 1
  <2>1. 1 = 0 + 1 /\ 0 \in 0 .. 5
    OBVIOUS
  <2>2. Layers[1] \notin First(0) /\ First(1) = First(0) \cup {Layers[1]}
    BY ONLY <2>1, FirstAndNext
  <2>3. QED
    BY <1>1, <2>2, FS_AddElement
<1>3. IsFiniteSet(First(2)) /\ Cardinality(First(2)) = 2
  <2>1. 2 = 1 + 1 /\ 1 \in 0 .. 5
    OBVIOUS
  <2>2. Layers[2] \notin First(1) /\ First(2) = First(1) \cup {Layers[2]}
    BY ONLY <2>1, FirstAndNext
  <2>3. QED
    BY <1>2, <2>2, FS_AddElement
<1>4. IsFiniteSet(First(3)) /\ Cardinality(First(3)) = 3
  <2>1. 3 = 2 + 1 /\ 2 \in 0 .. 5
    OBVIOUS
  <2>2. Layers[3] \notin First(2) /\ First(3) = First(2) \cup {Layers[3]}
    BY ONLY <2>1, FirstAndNext
  <2>3. QED
    BY <1>3, <2>2, FS_AddElement
<1>5. IsFiniteSet(First(4)) /\ Cardinality(First(4)) = 4
  <2>1. 4 = 3 + 1 /\ 3 \in 0 .. 5
    OBVIOUS
  <2>2. Layers[4] \notin First(3) /\ First(4) = First(3) \cup {Layers[4]}
    BY ONLY <2>1, FirstAndNext
  <2>3. QED
    BY <1>4, <2>2, FS_AddElement
<1>6. IsFiniteSet(First(5)) /\ Cardinality(First(5)) = 5
  <2>1. 5 = 4 + 1 /\ 4 \in 0 .. 5
    OBVIOUS
  <2>2. Layers[5] \notin First(4) /\ First(5) = First(4) \cup {Layers[5]}
    BY ONLY <2>1, FirstAndNext
  <2>3. QED
    BY <1>5, <2>2, FS_AddElement
<1>7. QED
  BY <1>1, <1>2, <1>3, <1>4, <1>5, <1>6

(* Six of them are all.                                                    *)
LEMMA AllLayers == First(6) = Range(Layers)
<1>1. 1 .. 6 = {1, 2, 3, 4, 5, 6} /\ DOMAIN Layers = 1 .. 6
  BY DEF Layers
<1>2. QED
  BY <1>1 DEF First, Range

(* The layer that is measured next is the first that is missing.           *)
LEMMA NextLayer ==
  ASSUME Progress, at = "measure"
  PROVE  \E n \in 0 .. 5 : /\ DOMAIN modes = First(n) /\ Done = n
                           /\ Current = Layers[n + 1]
                           /\ Current \in Range(Layers) \ DOMAIN modes
                           /\ DOMAIN modes \cup {Current} = First(n + 1)
<1>1. PICK n \in 0 .. 5 : DOMAIN modes = First(n)
  BY DEF Progress
<1>2. Done = n /\ Current = Layers[n + 1]
  BY <1>1, FirstCount DEF Done, Current
<1>3. QED
  BY <1>1, <1>2, FirstAndNext

(* The layers in the order they have.                                      *)
LEMMA LayerEngines ==
  ASSUME NEW n \in 0 .. 5
  PROVE  /\ EngineOf(Layers[n + 1]) \in Engines
         /\ n < 4 => EngineOf(Layers[n + 1]) = "ann"
         /\ n = 4 => Layers[n + 1] = "sql-exact"
         /\ n = 5 => Layers[n + 1] = "sql-ann"
<1>1. n = 0 \/ n = 1 \/ n = 2 \/ n = 3 \/ n = 4 \/ n = 5
  OBVIOUS
<1>2. QED
  BY <1>1 DEF Layers, EngineOf, Engines

(* What the layer's answers are added to keeps the others.                 *)
LEMMA WithLayerKeeps ==
  ASSUME NEW l, NEW x, modes' = WithLayer(l, x)
  PROVE  /\ DOMAIN modes' = DOMAIN modes \cup {l}
         /\ modes'[l] = x
         /\ \A k \in DOMAIN modes \ {l} : modes'[k] = modes[k]
  BY DEF WithLayer
-----------------------------------------------------------------------------
USE DEF files, sql, layer

(* What an engine answers once there is an index.                          *)
LEMMA AnswerTypes ==
  ASSUME TypeOK, Made, at \in Places \ {"generate", "prepare", "build", "failed"},
         NEW engine \in Engines, NEW q \in Queries
  PROVE  /\ Answer(engine, q) \in Hits
         /\ Answer(engine, q).queries = q
         /\ Answer(engine, q).quality # "edited"
<1>1. vortex \in Rows /\ index \in Indexes
  BY DEF TypeOK, FileTypes, Made, Places, Building, Reporting
<1>2. QED
  BY <1>1 DEF Answer, Scan, Search, Hits, Indexes

(* And what the native program does.                                       *)
LEMMA NativeTypes ==
  ASSUME TypeOK, Made, at \in Loaded
  PROVE  /\ NativeAnswer \in Hits
         /\ NativeAnswer.rows = index.of
         /\ NativeAnswer.quality # "edited"
<1>1. index \in Indexes
  BY DEF TypeOK, FileTypes, Made, Places, Building, Reporting, Loaded
<1>2. fixture.queries \in Queries /\ fixture.csv \in Rows
  BY DEF TypeOK, ResultTypes
<1>3. QED
  BY <1>1, <1>2 DEF NativeAnswer, Search, Hits, Indexes

(* What a SQL layer may answer: with another shell, anything that is still *)
(* of the same rows.                                                       *)
LEMMA SqlTypes ==
  ASSUME TypeOK, Made, at \in Loaded, NEW engine \in Engines,
         NEW answer \in {Answer(engine, fixture.queries)} \cup
               (IF args.changed
                THEN {[Answer(engine, fixture.queries) EXCEPT !.quality = "other"]}
                ELSE {})
  PROVE  /\ answer \in Hits
         /\ answer.rows = IF engine = "exact" THEN vortex ELSE index.of
         /\ answer.quality # "edited"
<1>1. vortex \in Rows /\ index \in Indexes
  BY DEF TypeOK, FileTypes, Made, Places, Building, Reporting, Loaded
<1>2. fixture.queries \in Queries
  BY DEF TypeOK, ResultTypes
<1>3. CASE engine = "exact"
  BY <1>1, <1>2, <1>3 DEF Answer, Scan, Hits
<1>4. CASE engine # "exact"
  BY <1>1, <1>2, <1>4 DEF Answer, Search, Hits, Indexes
<1>5. QED
  BY <1>3, <1>4

(* An index that was built again is an index, and another one.             *)
LEMMA RebuiltIndex ==
  ASSUME NEW i \in Indexes, NEW rows \in Rows, NEW quality \in {"good", "bad"}
  PROVE  [of |-> rows, quality |-> quality, build |-> i.build + 1] \in Indexes
<1>1. i.build + 1 \in Nat
  BY DEF Indexes
<1>2. QED
  BY <1>1 DEF Indexes

(* Another file may be counted.                                            *)
LEMMA OneMore == ASSUME FileTypes PROVE replaced + 1 \in Nat
  BY DEF FileTypes

(* What a step that measures a layer does.                                 *)
Measures(l) ==
  /\ l \in Range(Layers) \ DOMAIN modes
  /\ DOMAIN modes' = DOMAIN modes \cup {l}
  /\ \A k \in DOMAIN modes : modes'[k] = modes[k]
  /\ modes'[l] \in Hits
  /\ modes'[l] = fixture.expected[EngineOf(l)]
  /\ modes'[l].quality # "edited"
  /\ modes'[l].rows = IF EngineOf(l) = "exact" THEN vortex ELSE index.of

(* The native program.                                                     *)
LEMMA NativeMeasures ==
  ASSUME TypeOK, Made, Progress, MeasureNative
  PROVE  /\ Measures(Current)
         /\ EngineOf(Current) = "ann"
         /\ \E n \in 0 .. 3 : DOMAIN modes' = First(n + 1)
<1>1. PICK n \in 0 .. 5 : /\ DOMAIN modes = First(n) /\ Done = n
                          /\ Current = Layers[n + 1]
                          /\ Current \in Range(Layers) \ DOMAIN modes
                          /\ DOMAIN modes \cup {Current} = First(n + 1)
  BY NextLayer DEF MeasureNative
<1>2. n \in 0 .. 3 /\ EngineOf(Current) = "ann"
  BY <1>1, LayerEngines DEF MeasureNative
<1>3. modes' = WithLayer(Current, NativeAnswer)
  BY DEF MeasureNative
<1>4. /\ NativeAnswer \in Hits /\ NativeAnswer.rows = index.of
      /\ NativeAnswer.quality # "edited"
  BY NativeTypes DEF MeasureNative, Loaded, Reporting
<1>5. NativeAnswer = fixture.expected["ann"]
  BY DEF MeasureNative
<1>6. /\ DOMAIN modes' = DOMAIN modes \cup {Current}
      /\ modes'[Current] = NativeAnswer
      /\ \A k \in DOMAIN modes : modes'[k] = modes[k]
  BY <1>1, <1>3, WithLayerKeeps
<1>7. QED
  BY <1>1, <1>2, <1>4, <1>5, <1>6 DEF Measures

(* SQL, exact and then with the index.                                     *)
LEMMA SqlMeasures ==
  ASSUME TypeOK, Made, Progress, MeasureSql
  PROVE  /\ Measures(Current)
         /\ \/ /\ Current = "sql-exact" /\ at' = "measure" /\ read' = read
               /\ DOMAIN modes' = First(5) /\ DOMAIN modes # {}
            \/ /\ Current = "sql-ann" /\ at' = "diagnostics"
               /\ read' = read \cup {index}
               /\ DOMAIN modes' = Range(Layers)
<1>1. PICK n \in 0 .. 5 : /\ DOMAIN modes = First(n) /\ Done = n
                          /\ Current = Layers[n + 1]
                          /\ Current \in Range(Layers) \ DOMAIN modes
                          /\ DOMAIN modes \cup {Current} = First(n + 1)
  BY NextLayer DEF MeasureSql
<1>2. n = 4 \/ n = 5
  BY <1>1 DEF MeasureSql
<1>3. EngineOf(Current) \in Engines
  BY <1>1, LayerEngines
<1>4. PICK answer : /\ answer \in {Answer(EngineOf(Current), fixture.queries)} \cup
                          (IF args.changed
                           THEN {[Answer(EngineOf(Current), fixture.queries)
                                    EXCEPT !.quality = "other"]}
                           ELSE {})
                    /\ answer = fixture.expected[EngineOf(Current)]
                    /\ modes' = WithLayer(Current, answer)
  BY DEF MeasureSql, SameRows
<1>5. /\ answer \in Hits /\ answer.quality # "edited"
      /\ answer.rows = IF EngineOf(Current) = "exact" THEN vortex ELSE index.of
  BY <1>3, <1>4, SqlTypes DEF MeasureSql, Loaded, Reporting
<1>6. /\ DOMAIN modes' = DOMAIN modes \cup {Current}
      /\ modes'[Current] = answer
      /\ \A k \in DOMAIN modes : modes'[k] = modes[k]
  <2>1. modes' = WithLayer(Current, answer) /\ Current \notin DOMAIN modes
    BY <1>1, <1>4
  <2>2. QED
    BY <2>1, WithLayerKeeps
<1>7. Measures(Current)
  BY <1>1, <1>4, <1>5, <1>6 DEF Measures
<1>8. CASE n = 4
  <2>1. Current = "sql-exact" /\ DOMAIN modes' = First(5)
    BY <1>1, <1>6, <1>8, LayerEngines
  <2>2. Layers[1] \in First(4)
    BY DEF First
  <2>3. QED
    BY <1>1, <1>7, <1>8, <2>1, <2>2 DEF MeasureSql
<1>9. CASE n = 5
  <2>1. Current = "sql-ann" /\ DOMAIN modes' = First(6)
    BY <1>1, <1>6, <1>9, LayerEngines
  <2>2. QED
    BY <1>7, <2>1, AllLayers DEF MeasureSql
<1>10. QED
  BY <1>2, <1>8, <1>9

(* Files keep their types.                                                 *)
LEMMA FileStep == ASSUME TypeOK, Made, [Next]_vars PROVE FileTypes'
<1> USE DEF TypeOK, FileTypes, Places, Building, Reporting
<1>0. CASE UNCHANGED vars
  BY <1>0 DEF vars
<1>1. CASE Generate
  BY <1>1 DEF Generate, Rows, Queries
<1>2. CASE Prepare
  BY <1>2 DEF Prepare
<1>3. CASE Build
  <2>1. vortex \in Rows
    BY <1>3 DEF Build, Made
  <2>2. [of |-> vortex, quality |-> "good", build |-> 1] \in Indexes
    BY <2>1 DEF Indexes
  <2>3. QED
    BY <2>2, <1>3 DEF Build
<1>4. ASSUME NEW engine \in Engines, Measure(engine) PROVE FileTypes'
  BY <1>4 DEF Measure
<1>5. CASE Diagnose \/ Describe \/ LoadFixture
  BY <1>5 DEF Diagnose, Describe, LoadFixture
<1>6. CASE VerifyFixture
  BY <1>6 DEF VerifyFixture
<1>7. CASE Qualify \/ MeasureNative
  BY <1>7 DEF Qualify, MeasureNative
<1>8. CASE MeasureSql
  BY <1>8 DEF MeasureSql
<1>9. CASE DiagnoseLayers \/ Report \/ Raise
  BY <1>9 DEF DiagnoseLayers, Report, Raise
<1>10. CASE Replace
  <2>1. replaced + 1 \in Nat
    BY OneMore
  <2>2. ASSUME index # None, NEW quality \in {"good", "bad"}
        PROVE  [of |-> vortex, quality |-> quality, build |-> index.build + 1] \in Indexes
    <3>1. vortex \in Rows /\ index \in Indexes
      BY <2>2, <1>10 DEF Replace, Running, Made
    <3>2. QED
      BY <3>1, RebuiltIndex
  <2>3. "other" \in Rows /\ "foreign" \in Rows /\ "other" \in Queries
    BY DEF Rows, Queries
  <2>4. index' \in Indexes \cup {None}
    BY <2>2, <1>10 DEF Replace
  <2>5. QED
    BY <2>1, <2>3, <2>4, <1>10 DEF Replace
<1>11. QED
  BY <1>0, <1>1, <1>2, <1>3, <1>4, <1>5, <1>6, <1>7, <1>8, <1>9, <1>10 DEF Next

(* A result that somebody edited is a result, and shows it.                *)
LEMMA EditedResult ==
  ASSUME TypeOK, NEW engine \in Engines, results[engine] # None
  PROVE  /\ [results EXCEPT ![engine].quality = "edited"] \in [Engines -> Hits \cup {None}]
         /\ [results EXCEPT ![engine].quality = "edited"][engine].quality = "edited"
         /\ \A e \in Engines \ {engine} :
              [results EXCEPT ![engine].quality = "edited"][e] = results[e]
<1>1. results[engine] \in Hits
  BY DEF TypeOK, ResultTypes
<1>2. [results[engine] EXCEPT !.quality = "edited"] \in Hits
  BY <1>1 DEF Hits
<1>3. QED
  BY <1>1, <1>2 DEF TypeOK, ResultTypes, Hits

(* Results, reports and what was loaded keep their types.                  *)
LEMMA ResultStep == ASSUME TypeOK, Made, [Next]_vars PROVE ResultTypes'
<1> USE DEF TypeOK, ResultTypes, Reporting, Loaded
<1>0. CASE UNCHANGED vars
  BY <1>0 DEF vars
<1>1. CASE Generate \/ Prepare \/ Build
  BY <1>1 DEF Generate, Prepare, Build
<1>2. ASSUME NEW engine \in Engines, Measure(engine) PROVE ResultTypes'
  <2>1. at \in {"exact", "ann"} /\ "made" \in Queries
    BY <1>2 DEF Measure, Engines, Queries
  <2>2. Answer(engine, "made") \in Hits
    BY <2>1, AnswerTypes DEF Places, Building
  <2>3. QED
    BY <2>2, <1>2 DEF Measure, Engines
<1>3. CASE Diagnose
  BY <1>3 DEF Diagnose
<1>4. CASE Describe
  <2>1. csv \in Rows /\ vortex \in Rows /\ queries \in Queries /\ args.prepared \in BOOLEAN
    BY <1>4 DEF Describe, Made, FileTypes, Places
  <2>2. [status |-> "ok", inputs |-> Inputs, prepared |-> args.prepared]
          \in [status : {"ok"}, inputs : Named, prepared : BOOLEAN]
    BY <2>1 DEF Inputs, Named
  <2>3. QED
    BY <2>2, <1>4 DEF Describe
<1>5. CASE LoadFixture
  <2>1. csv \in Rows /\ index \in Indexes /\ queries \in Queries
    BY <1>5 DEF LoadFixture, Made, FileTypes, Places
  <2>2. results \in [Engines -> Hits]
    BY <1>5 DEF LoadFixture, Made, Engines
  <2>3. [reference |-> index, queries |-> queries, csv |-> csv, expected |-> results]
          \in [reference : Indexes, queries : Queries, csv : Rows,
               expected : [Engines -> Hits]]
    BY <2>1, <2>2
  <2>4. QED
    BY <2>3, <1>5 DEF LoadFixture
<1>6. CASE VerifyFixture
  BY <1>6 DEF VerifyFixture
<1>7. CASE Qualify
  BY <1>7 DEF Qualify
<1>8. CASE MeasureNative
  BY <1>8 DEF MeasureNative
<1>9. CASE MeasureSql
  BY <1>9 DEF MeasureSql
<1>10. CASE DiagnoseLayers \/ Report \/ Raise
  BY <1>10 DEF DiagnoseLayers, Report, Raise
<1>11. CASE Replace
  BY <1>11, EditedResult DEF Replace
<1>12. QED
  BY <1>0, <1>1, <1>2, <1>3, <1>4, <1>5, <1>6, <1>7, <1>8, <1>9, <1>10, <1>11
       DEF Next

(* Layers and the indexes they have read keep their types.                 *)
LEMMA LayerStep == ASSUME TypeOK, Made, Progress, [Next]_vars PROVE LayerTypes'
<1> USE DEF TypeOK, LayerTypes
<1>0. CASE UNCHANGED vars
  BY <1>0 DEF vars
<1>1. CASE Generate \/ Prepare \/ Build
  BY <1>1 DEF Generate, Prepare, Build
<1>2. ASSUME NEW engine \in Engines, Measure(engine) PROVE LayerTypes'
  BY <1>2 DEF Measure
<1>3. CASE Diagnose \/ Describe \/ LoadFixture \/ VerifyFixture
  BY <1>3 DEF Diagnose, Describe, LoadFixture, VerifyFixture
<1>4. CASE Qualify
  BY <1>4 DEF Qualify
<1>5. CASE MeasureNative
  <2>1. index \in Indexes /\ read' = read \cup {index}
    BY <1>5 DEF MeasureNative, Reporting, FileTypes, Made, Places
  <2>2. QED
    BY <2>1, <1>5, NativeMeasures DEF Measures
<1>6. CASE MeasureSql
  <2>1. index \in Indexes
    BY <1>6 DEF MeasureSql, Reporting, FileTypes, Made, Places
  <2>2. QED
    BY <2>1, <1>6, SqlMeasures DEF Measures
<1>7. CASE DiagnoseLayers
  BY <1>7 DEF DiagnoseLayers, Reporting, FileTypes, Made, Places
<1>8. CASE Report \/ Raise \/ Replace
  BY <1>8 DEF Report, Raise, Replace
<1>9. QED
  BY <1>0, <1>1, <1>2, <1>3, <1>4, <1>5, <1>6, <1>7, <1>8 DEF Next

(* What has been made stays, though it may be replaced.                    *)
LEMMA MadeStep == ASSUME TypeOK, Made, [Next]_vars PROVE Made'
<1> USE DEF Made, Places, Building, Reporting
<1>0. CASE UNCHANGED vars
  BY <1>0 DEF vars
<1>1. CASE Generate
  <2>1. "made" \in Rows /\ "made" \in Queries
    BY DEF Rows, Queries
  <2>2. QED
    BY <2>1, <1>1 DEF Generate
<1>2. CASE Prepare
  BY <1>2 DEF Prepare
<1>3. CASE Build
  <2>1. vortex \in Rows
    BY <1>3 DEF Build, TypeOK, FileTypes
  <2>2. [of |-> vortex, quality |-> "good", build |-> 1] \in Indexes
    BY <2>1 DEF Indexes
  <2>3. QED
    BY <2>2, <1>3 DEF Build
<1>4. ASSUME NEW engine \in Engines, Measure(engine) PROVE Made'
  <2>1. at \in {"exact", "ann"} /\ "made" \in Queries
    BY <1>4 DEF Measure, Engines, Queries
  <2>2. Answer(engine, "made") \in Hits /\ Answer(engine, "made").queries = "made"
    BY <2>1, AnswerTypes
  <2>3. QED
    BY <2>2, <1>4 DEF Measure, Engines, TypeOK, ResultTypes
<1>5. CASE Diagnose
  BY <1>5 DEF Diagnose
<1>6. CASE Describe
  BY <1>6 DEF Describe
<1>7. CASE LoadFixture
  BY <1>7 DEF LoadFixture
<1>8. CASE VerifyFixture
  BY <1>8 DEF VerifyFixture
<1>9. CASE Qualify
  BY <1>9 DEF Qualify
<1>10. CASE MeasureNative
  BY <1>10 DEF MeasureNative
<1>11. CASE MeasureSql
  BY <1>11 DEF MeasureSql
<1>12. CASE DiagnoseLayers
  BY <1>12 DEF DiagnoseLayers
<1>13. CASE Report
  BY <1>13 DEF Report
<1>14. CASE Raise
  BY <1>14 DEF Raise
<1>15. CASE Replace
  <2>1. "other" \in Rows /\ "foreign" \in Rows /\ "other" \in Queries
    BY DEF Rows, Queries
  <2>2. index \in Indexes /\ vortex \in Rows => \A quality \in {"good", "bad"} :
          [of |-> vortex, quality |-> quality, build |-> index.build + 1] \in Indexes
    BY RebuiltIndex
  <2>3. ASSUME NEW engine \in Engines, results[engine] # None,
               results' = [results EXCEPT ![engine].quality = "edited"]
        PROVE  \A e \in Engines : results[e] \in Hits => results'[e] \in Hits
    BY <2>3, EditedResult DEF TypeOK, ResultTypes, Hits
  <2>4. UNCHANGED <<at, measured>> /\ at # "failed"
    BY <1>15 DEF Replace, Running
  <2>5. (csv \in Rows => csv' \in Rows) /\ (queries \in Queries => queries' \in Queries)
    BY <2>1, <1>15 DEF Replace
  <2>6. (vortex \in Rows => vortex' \in Rows) /\ (vortex = None => vortex' = None)
    BY <2>1, <1>15 DEF Replace
  <2>7. index \in Indexes /\ vortex \in Rows => index' \in Indexes
    BY <2>2, <1>15 DEF Replace
  <2>8. index = None => index' = None
    BY <1>15 DEF Replace
  <2>9. \A e \in Engines : results[e] \in Hits => results'[e] \in Hits
    BY <2>3, <1>15 DEF Replace
  <2>10. QED
    BY <2>4, <2>5, <2>6, <2>7, <2>8, <2>9 DEF Engines
<1>16. QED
  BY <1>0, <1>1, <1>2, <1>3, <1>4, <1>5, <1>6, <1>7, <1>8, <1>9, <1>10, <1>11,
       <1>12, <1>13, <1>14, <1>15 DEF Next
-----------------------------------------------------------------------------
(* The first results are known, or were edited.                            *)
LEMMA FirstResultsStep ==
  ASSUME TypeOK, Made, FirstResults, [Next]_vars PROVE FirstResults'
<1> USE DEF FirstResults, Loaded, Reporting
<1>0. CASE UNCHANGED vars
  BY <1>0 DEF vars
<1>1. CASE Generate \/ Prepare \/ Build
  BY <1>1 DEF Generate, Prepare, Build
<1>2. ASSUME NEW engine \in Engines, Measure(engine) PROVE FirstResults'
  BY <1>2 DEF Measure, TypeOK, ResultTypes
<1>3. CASE Diagnose \/ Describe
  BY <1>3 DEF Diagnose, Describe
<1>4. CASE LoadFixture
  <2>1. /\ UNCHANGED <<results, measured>>
        /\ fixture'.expected = results /\ fixture'.queries = queries
        /\ \A engine \in Engines : results[engine].queries = queries
    BY <1>4 DEF LoadFixture, Valid
  <2>2. QED
    BY <2>1
<1>5. CASE VerifyFixture \/ Qualify \/ MeasureNative \/ MeasureSql
  BY <1>5 DEF VerifyFixture, Qualify, MeasureNative, MeasureSql
<1>6. CASE DiagnoseLayers \/ Report \/ Raise
  BY <1>6 DEF DiagnoseLayers, Report, Raise
<1>7. CASE Replace
  <2>1. UNCHANGED <<at, measured, fixture>>
    BY <1>7 DEF Replace
  <2>2. CASE results' = results
    BY <2>1, <2>2
  <2>3. CASE \E engine \in Engines : /\ results[engine] # None
                 /\ results' = [results EXCEPT ![engine].quality = "edited"]
    <3>1. PICK engine \in Engines :
            /\ results'[engine].quality = "edited"
            /\ \A e \in Engines \ {engine} : results'[e] = results[e]
      BY <2>3, EditedResult
    <3>2. QED
      BY <2>1, <3>1
  <2>4. QED
    BY <2>2, <2>3, <1>7 DEF Replace
<1>8. QED
  BY <1>0, <1>1, <1>2, <1>3, <1>4, <1>5, <1>6, <1>7 DEF Next

(* What a replacement does to the index.                                   *)
LEMMA ReplacedIndex ==
  ASSUME TypeOK, Made, Replace, at \in Loaded
  PROVE  index' = index \/ index'.build = index.build + 1
<1>1. index' = index \/ \E quality \in {"good", "bad"} :
         index' = [of |-> vortex, quality |-> quality, build |-> index.build + 1]
  BY DEF Replace
<1>2. QED
  BY <1>1

(* A build that comes later has a larger number.                           *)
LEMMA BuiltLater ==
  ASSUME NEW i, NEW j, NEW k, i.build \in Nat, k.build \in Nat,
         i.build >= k.build, i.build = k.build => i = k,
         j = i \/ j.build = i.build + 1
  PROVE  j.build >= k.build /\ (j.build = k.build => j = k)
  OBVIOUS

(* Before the first layer there is none.                                   *)
LEMMA NoLayers == DOMAIN <<>> = {}
  OBVIOUS

(* Numbers of layers.                                                      *)
LEMMA Counts == 0 \in 0 .. 5 /\ 5 \in 0 .. 5 /\ \A n \in 0 .. 3 : n + 1 \in 0 .. 5
  OBVIOUS

(* What is replaced never returns.                                         *)
LEMMA NoReturnStep == ASSUME TypeOK, Made, NoReturn, [Next]_vars PROVE NoReturn'
<1> USE DEF NoReturn, Loaded, Reporting
<1>0. CASE UNCHANGED vars
  BY <1>0 DEF vars
<1>1. CASE Generate \/ Prepare \/ Build
  BY <1>1 DEF Generate, Prepare, Build
<1>2. ASSUME NEW engine \in Engines, Measure(engine) PROVE NoReturn'
  BY <1>2 DEF Measure, Engines
<1>3. CASE Diagnose
  BY <1>3 DEF Diagnose
<1>4. CASE Describe
  <2>1. CASE at' = "load"
    <3>1. source' = [status |-> "ok", inputs |-> Inputs, prepared |-> args.prepared]
      BY <2>1, <1>4 DEF Describe
    <3>2. source'.inputs.vortex = vortex /\ source'.inputs.queries = queries
      BY <3>1 DEF Inputs
    <3>3. UNCHANGED <<vortex, queries>>
      BY <1>4 DEF Describe
    <3>4. QED
      BY <2>1, <3>2, <3>3
  <2>2. CASE at' = "failed"
    BY <2>2
  <2>3. QED
    BY <2>1, <2>2, <1>4 DEF Describe
<1>5. CASE LoadFixture
  <2>1. /\ fixture'.reference = index /\ fixture'.queries = queries
        /\ UNCHANGED <<vortex, queries, index, source>>
        /\ index.of = source.inputs.vortex
    BY <1>5 DEF LoadFixture
  <2>2. at = "load" /\ at' = "verify"
    BY <1>5 DEF LoadFixture
  <2>3. index.build \in Nat
    BY <2>2 DEF Made, Indexes, Places
  <2>4. QED
    BY <2>1, <2>2, <2>3
<1>6. CASE VerifyFixture \/ Qualify \/ MeasureNative \/ MeasureSql
  BY <1>6 DEF VerifyFixture, Qualify, MeasureNative, MeasureSql
<1>7. CASE DiagnoseLayers \/ Report \/ Raise
  BY <1>7 DEF DiagnoseLayers, Report, Raise
<1>8. CASE Replace
  <2>1. UNCHANGED <<at, source, fixture>>
    BY <1>8 DEF Replace
  <2>2. vortex' \in {vortex, "foreign"} /\ queries' \in {queries, "other"}
    BY <1>8 DEF Replace
  <2>3. ASSUME at \in Loaded
        PROVE  /\ index'.build >= fixture.reference.build
               /\ index'.build = fixture.reference.build => index' = fixture.reference
    <3>1. index.build \in Nat /\ fixture.reference.build \in Nat
      BY <2>3 DEF Made, Indexes, TypeOK, ResultTypes, Places
    <3>2. index' = index \/ index'.build = index.build + 1
      BY <2>3, <1>8, ReplacedIndex
    <3>3. /\ index.build >= fixture.reference.build
          /\ index.build = fixture.reference.build => index = fixture.reference
      BY <2>3
    <3>4. QED
      BY <3>1, <3>2, <3>3, BuiltLater
  <2>4. QED
    BY <2>1, <2>2, <2>3
<1>9. QED
  BY <1>0, <1>1, <1>2, <1>3, <1>4, <1>5, <1>6, <1>7, <1>8 DEF Next

(* A reference that is still there was not replaced just now.              *)
LEMMA ReferenceIsKept ==
  ASSUME TypeOK, Made, NoReturn, Replace, at \in Loaded, index' = fixture.reference
  PROVE  index' = index
<1>1. index.build \in Nat /\ fixture.reference.build \in Nat
  BY DEF Made, Indexes, TypeOK, ResultTypes, Places, Loaded, Reporting
<1>2. index' = index \/ index'.build = index.build + 1
  BY ReplacedIndex
<1>3. index.build >= fixture.reference.build
  BY DEF NoReturn
<1>4. QED
  BY <1>1, <1>2, <1>3

(* While the reference is there, nothing else has been read.               *)
LEMMA ReadIsKnownStep ==
  ASSUME TypeOK, Made, NoReturn, Progress, ReadIsKnown, [Next]_vars
  PROVE  ReadIsKnown'
<1> USE DEF ReadIsKnown, Loaded, Reporting
<1>0. CASE UNCHANGED vars
  BY <1>0 DEF vars
<1>1. CASE Generate \/ Prepare \/ Build
  BY <1>1 DEF Generate, Prepare, Build
<1>2. ASSUME NEW engine \in Engines, Measure(engine) PROVE ReadIsKnown'
  BY <1>2 DEF Measure, Engines
<1>3. CASE Diagnose \/ Describe
  BY <1>3 DEF Diagnose, Describe
<1>4. CASE LoadFixture
  BY <1>4 DEF LoadFixture, Progress
<1>5. CASE VerifyFixture \/ Qualify
  BY <1>5 DEF VerifyFixture, Qualify
<1>6. CASE MeasureNative
  BY <1>6 DEF MeasureNative
<1>7. CASE MeasureSql
  BY <1>7 DEF MeasureSql
<1>8. CASE DiagnoseLayers
  BY <1>8 DEF DiagnoseLayers
<1>9. CASE Report \/ Raise
  BY <1>9 DEF Report, Raise
<1>10. CASE Replace
  <2>1. UNCHANGED <<at, read, fixture>>
    BY <1>10 DEF Replace
  <2>2. QED
    BY <2>1, <1>10, ReferenceIsKept
<1>11. QED
  BY <1>0, <1>1, <1>2, <1>3, <1>4, <1>5, <1>6, <1>7, <1>8, <1>9, <1>10 DEF Next

(* The layers are measured in their order.                                 *)
LEMMA ProgressStep == ASSUME TypeOK, Made, Progress, [Next]_vars PROVE Progress'
<1> USE DEF Progress, Measured, Building, Loaded, Reporting
<1>0. CASE UNCHANGED vars
  BY <1>0 DEF vars
<1>1. CASE Generate \/ Prepare \/ Build
  BY <1>1 DEF Generate, Prepare, Build
<1>2. ASSUME NEW engine \in Engines, Measure(engine) PROVE Progress'
  BY <1>2 DEF Measure, Engines
<1>3. CASE Diagnose
  BY <1>3 DEF Diagnose
<1>4. CASE Describe
  <2>1. DOMAIN <<>> = {}
    BY NoLayers
  <2>2. modes = <<>> /\ read = {} /\ UNCHANGED <<modes, read>> /\ at' \in {"load", "failed"}
    BY <1>4 DEF Describe
  <2>3. QED
    BY <2>1, <2>2
<1>5. CASE LoadFixture
  BY <1>5 DEF LoadFixture
<1>6. CASE VerifyFixture
  BY <1>6 DEF VerifyFixture
<1>7. CASE Qualify
  <2>1. DOMAIN modes = First(0)
    BY <1>7 DEF Qualify, First
  <2>2. QED
    BY <2>1, Counts, <1>7 DEF Qualify
<1>8. CASE MeasureNative
  <2>1. PICK n \in 0 .. 3 : DOMAIN modes' = First(n + 1)
    BY <1>8, NativeMeasures
  <2>2. n + 1 \in 0 .. 5
    BY Counts
  <2>3. at' = "measure" /\ index \in read'
    BY <1>8 DEF MeasureNative
  <2>4. QED
    BY <2>1, <2>2, <2>3
<1>9. CASE MeasureSql
  <2>1. 5 \in 0 .. 5 /\ at = "measure"
    BY Counts, <1>9 DEF MeasureSql
  <2>2. QED
    BY <2>1, <1>9, SqlMeasures
<1>10. CASE DiagnoseLayers
  BY <1>10 DEF DiagnoseLayers
<1>11. CASE Report
  BY <1>11 DEF Report
<1>12. CASE Raise
  BY <1>12 DEF Raise
<1>13. CASE Replace
  BY <1>13 DEF Replace
<1>14. QED
  BY <1>0, <1>1, <1>2, <1>3, <1>4, <1>5, <1>6, <1>7, <1>8, <1>9, <1>10, <1>11,
       <1>12, <1>13 DEF Next

(* Every layer has an engine.                                              *)
LEMMA EngineOfLayer == \A l \in Range(Layers) : EngineOf(l) \in Engines
  BY DEF EngineOf, Engines

(* A layer that is measured agrees, and the others still do.               *)
LEMMA MeasuredAgrees ==
  ASSUME FirstResults, NoReturn, LayersAgree, at \in Loaded,
         NEW current, Measures(current),
         UNCHANGED <<vortex, index, source, fixture, measured>>
  PROVE  LayersAgree'
<1>1. current \in Range(Layers) /\ EngineOf(current) \in Engines
  BY EngineOfLayer DEF Measures
<1>2. /\ modes'[current] = fixture.expected[EngineOf(current)]
      /\ modes'[current] = measured[EngineOf(current)]
  BY <1>1 DEF Measures, FirstResults
<1>3. index = fixture.reference => index.of = source.inputs.vortex
  BY DEF NoReturn
<1>4. modes'[current].rows = IF EngineOf(current) = "exact" THEN vortex ELSE index.of
  BY DEF Measures
<1>5. \A l \in DOMAIN modes' : l = current \/ (l \in DOMAIN modes /\ modes'[l] = modes[l])
  <2>1. DOMAIN modes' = DOMAIN modes \cup {current}
    BY DEF Measures
  <2>2. \A k \in DOMAIN modes : modes'[k] = modes[k]
    BY DEF Measures
  <2>3. QED
    BY <2>1, <2>2
<1>6. QED
  BY <1>2, <1>3, <1>4, <1>5 DEF LayersAgree

(* A layer gives what the source gave.                                     *)
LEMMA LayersAgreeStep ==
  ASSUME TypeOK, Made, FirstResults, NoReturn, Progress, LayersAgree, [Next]_vars
  PROVE  LayersAgree'
<1> USE DEF LayersAgree, Loaded, Reporting
<1>0. CASE UNCHANGED vars
  BY <1>0 DEF vars
<1>1. CASE Generate \/ Prepare \/ Build
  BY <1>1 DEF Generate, Prepare, Build
<1>2. ASSUME NEW engine \in Engines, Measure(engine) PROVE LayersAgree'
  BY <1>2 DEF Measure, Engines
<1>3. CASE Diagnose \/ Describe
  BY <1>3 DEF Diagnose, Describe
<1>4. CASE LoadFixture
  BY <1>4 DEF LoadFixture, Progress
<1>5. CASE VerifyFixture \/ Qualify
  BY <1>5 DEF VerifyFixture, Qualify
<1>6. CASE MeasureNative
  <2>1. Measures(Current)
    BY <1>6, NativeMeasures
  <2>2. at = "measure" /\ UNCHANGED <<vortex, index, source, fixture, measured>>
    BY <1>6 DEF MeasureNative
  <2>3. QED
    BY <2>1, <2>2, MeasuredAgrees
<1>7. CASE MeasureSql
  <2>1. Measures(Current)
    BY <1>7, SqlMeasures
  <2>2. at = "measure" /\ UNCHANGED <<vortex, index, source, fixture, measured>>
    BY <1>7 DEF MeasureSql
  <2>3. QED
    BY <2>1, <2>2, MeasuredAgrees
<1>8. CASE DiagnoseLayers \/ Report \/ Raise
  BY <1>8 DEF DiagnoseLayers, Report, Raise
<1>9. CASE Replace
  <2>1. UNCHANGED <<at, source, measured, fixture, modes>>
    BY <1>9 DEF Replace
  <2>2. vortex' \in {vortex, "foreign"}
    BY <1>9 DEF Replace
  <2>3. at \in Loaded /\ vortex' = source.inputs.vortex => vortex' = vortex
    BY <2>2 DEF NoReturn
  <2>4. at \in Loaded /\ index' = fixture.reference => index' = index
    BY <1>9, ReferenceIsKept
  <2>5. QED
    BY <2>1, <2>3, <2>4
<1>10. QED
  BY <1>0, <1>1, <1>2, <1>3, <1>4, <1>5, <1>6, <1>7, <1>8, <1>9 DEF Next

(* The last look at the files settles it.                                  *)
LEMMA SettledStep ==
  ASSUME TypeOK, Made, FirstResults, NoReturn, ReadIsKnown, Progress, LayersAgree,
         Settled, [Next]_vars
  PROVE  Settled'
<1> USE DEF Settled
<1>0. CASE UNCHANGED vars
  BY <1>0 DEF vars
<1>1. CASE Generate \/ Prepare \/ Build
  BY <1>1 DEF Generate, Prepare, Build
<1>2. ASSUME NEW engine \in Engines, Measure(engine) PROVE Settled'
  BY <1>2 DEF Measure, Engines
<1>3. CASE Diagnose
  BY <1>3 DEF Diagnose
<1>4. CASE Describe
  BY <1>4 DEF Describe
<1>5. CASE LoadFixture
  BY <1>5 DEF LoadFixture
<1>6. CASE VerifyFixture
  <2>1. UNCHANGED <<modes, source, fixture, read>>
    BY <1>6 DEF VerifyFixture
  <2>2. CASE at = "verify again"
    <3>1. /\ vortex = source.inputs.vortex /\ queries = source.inputs.queries
          /\ index = fixture.reference
      <4>1. Inputs = source.inputs /\ index = fixture.reference
        BY <1>6 DEF VerifyFixture, Frozen
      <4>2. Inputs.vortex = vortex /\ Inputs.queries = queries
        BY DEF Inputs
      <4>3. QED
        BY <4>1, <4>2
    <3>2. at \in Loaded /\ DOMAIN modes = Range(Layers)
      BY <2>2 DEF Loaded, Reporting, Progress, Measured
    <3>3. \A l \in DOMAIN modes : modes[l].rows = source.inputs.vortex
      BY <3>1, <3>2, EngineOfLayer DEF LayersAgree, Engines
    <3>4. "sql-exact" \in Range(Layers) /\ EngineOf("sql-exact") = "exact"
      BY LayerEngines, FirstAndNext DEF EngineOf
    <3>5. fixture.queries = "made"
      <4>1. fixture.expected["exact"] = measured["exact"]
        BY <3>2, <3>4 DEF LayersAgree
      <4>2. measured["exact"].queries = "made"
        BY <3>2 DEF Made, Loaded
      <4>3. fixture.expected["exact"].queries = fixture.queries
        BY <3>2 DEF FirstResults, Engines
      <4>4. QED
        BY <4>1, <4>2, <4>3
    <3>6. fixture.queries = source.inputs.queries
      BY <3>2, <3>5 DEF NoReturn
    <3>7. read = {fixture.reference}
      BY <3>1, <3>2, <3>4 DEF ReadIsKnown, Progress
    <3>8. QED
      BY <2>1, <3>3, <3>6, <3>7
  <2>3. CASE at = "verify"
    BY <2>3, <1>6 DEF VerifyFixture
  <2>4. QED
    BY <2>2, <2>3, <1>6 DEF VerifyFixture
<1>7. CASE Qualify \/ MeasureNative
  BY <1>7 DEF Qualify, MeasureNative
<1>8. CASE MeasureSql
  BY <1>8 DEF MeasureSql
<1>9. CASE DiagnoseLayers \/ Report \/ Raise
  BY <1>9 DEF DiagnoseLayers, Report, Raise
<1>10. CASE Replace
  BY <1>10 DEF Replace
<1>11. QED
  BY <1>0, <1>1, <1>2, <1>3, <1>4, <1>5, <1>6, <1>7, <1>8, <1>9, <1>10 DEF Next

(* A report is written once, and then nothing is done.                     *)
LEMMA ReportIsLastStep ==
  ASSUME TypeOK, Made, FirstResults, Progress, LayersAgree, Settled, ReportIsLast,
         [Next]_vars
  PROVE  ReportIsLast'
<1> USE DEF ReportIsLast, Reported
<1>same. ASSUME UNCHANGED <<at, measured, read, report>> PROVE ReportIsLast'
  BY <1>same DEF LayersMeasureTheSource
<1>later. ASSUME at # "done", UNCHANGED report PROVE ReportIsLast'
  BY <1>later
<1>0. CASE UNCHANGED vars
  BY <1>0, <1>same DEF vars
<1>1. CASE Generate \/ Prepare \/ Build
  BY <1>later, <1>1 DEF Generate, Prepare, Build
<1>2. ASSUME NEW engine \in Engines, Measure(engine) PROVE ReportIsLast'
  BY <1>2, <1>later DEF Measure, Engines
<1>3. CASE Diagnose \/ Describe \/ LoadFixture \/ VerifyFixture
  BY <1>later, <1>3 DEF Diagnose, Describe, LoadFixture, VerifyFixture
<1>4. CASE Qualify \/ MeasureNative \/ MeasureSql \/ DiagnoseLayers
  BY <1>later, <1>4 DEF Qualify, MeasureNative, MeasureSql, DiagnoseLayers
<1>5. CASE Report
  <2>1. CASE at' = "done"
    <3>1. /\ report'.modes = modes /\ report'.reference = fixture.reference
          /\ report'.inputs = source.inputs
      BY <2>1, <1>5 DEF Report
    <3>2. at = "report" /\ UNCHANGED <<measured, read>>
      BY <1>5 DEF Report
    <3>3. DOMAIN modes = Range(Layers)
      BY <3>2 DEF Progress, Measured
    <3>4. \A l \in DOMAIN modes : modes[l] = measured[EngineOf(l)]
      BY <3>2 DEF LayersAgree, Loaded, Reporting
    <3>5. /\ "sql-exact" \in Range(Layers) /\ EngineOf("sql-exact") = "exact"
          /\ "sql-ann" \in Range(Layers) /\ EngineOf("sql-ann") = "ann"
      BY LayerEngines, FirstAndNext DEF EngineOf
    <3>6. \A engine \in Engines : measured[engine].rows = source.inputs.vortex
      BY <3>2, <3>3, <3>4, <3>5 DEF Settled, Engines
    <3>7. \A engine \in Engines : measured[engine].queries = source.inputs.queries
      <4>1. measured["exact"].queries = "made" /\ measured["ann"].queries = "made"
        BY <3>2 DEF Made, Reporting
      <4>2. fixture.expected["exact"] = measured["exact"]
        BY <3>2, <3>3, <3>5 DEF LayersAgree, Loaded, Reporting
      <4>3. fixture.expected["exact"].queries = fixture.queries
        BY <3>2 DEF FirstResults, Engines, Loaded, Reporting
      <4>4. fixture.queries = source.inputs.queries
        BY <3>2 DEF Settled
      <4>5. QED
        BY <4>1, <4>2, <4>3, <4>4 DEF Engines
    <3>8. read = {fixture.reference}
      BY <3>2 DEF Settled
    <3>9. QED
      BY <2>1, <3>1, <3>2, <3>3, <3>4, <3>6, <3>7, <3>8 DEF LayersMeasureTheSource
  <2>2. CASE report' = Torn
    BY <2>2
  <2>3. QED
    BY <2>1, <2>2, <1>5 DEF Report
<1>6. CASE Raise
  BY <1>6, <1>later DEF Raise, Running
<1>7. CASE Replace
  BY <1>7, <1>later DEF Replace, Running
<1>8. QED
  BY <1>0, <1>1, <1>2, <1>3, <1>4, <1>5, <1>6, <1>7 DEF Next
-----------------------------------------------------------------------------
(* The inductive invariant.                                                *)
IInv ==
  /\ TypeOK
  /\ Made
  /\ FirstResults
  /\ NoReturn
  /\ ReadIsKnown
  /\ Progress
  /\ LayersAgree
  /\ Settled
  /\ ReportIsLast

(* It holds before anything is generated.                                  *)
LEMMA InitIInv == Init => IInv
<1> SUFFICES ASSUME Init PROVE IInv
  OBVIOUS
<1> USE DEF Init
<1>1. DOMAIN modes = {}
  OBVIOUS
<1>2. FileTypes
  BY DEF FileTypes, Places, Building
<1>3. ResultTypes
  BY DEF ResultTypes, Nothing, Loaded, Reporting
<1>4. LayerTypes
  BY <1>1 DEF LayerTypes
<1>5. Made /\ FirstResults /\ NoReturn
  BY DEF Made, FirstResults, NoReturn, Loaded, Reporting
<1>6. ReadIsKnown /\ Progress /\ LayersAgree
  BY DEF ReadIsKnown, Progress, LayersAgree, Measured, Loaded, Reporting
<1>7. Settled /\ ReportIsLast
  BY DEF Settled, ReportIsLast, Reported
<1>8. QED
  BY <1>2, <1>3, <1>4, <1>5, <1>6, <1>7 DEF IInv, TypeOK

(* Every step preserves it.                                                *)
LEMMA StepIInv == IInv /\ [Next]_vars => IInv'
<1> SUFFICES ASSUME IInv, [Next]_vars PROVE IInv'
  OBVIOUS
<1> USE DEF IInv
<1>1. TypeOK'
  BY FileStep, ResultStep, LayerStep DEF TypeOK
<1>2. Made' /\ FirstResults' /\ NoReturn'
  BY MadeStep, FirstResultsStep, NoReturnStep
<1>3. ReadIsKnown' /\ Progress' /\ LayersAgree'
  BY ReadIsKnownStep, ProgressStep, LayersAgreeStep
<1>4. Settled' /\ ReportIsLast'
  BY SettledStep, ReportIsLastStep
<1>5. QED
  BY <1>1, <1>2, <1>3, <1>4

(* The inductive invariant of both benchmarks and of whoever replaces      *)
(* files beside them.                                                      *)
THEOREM Invariant == Spec => []IInv
  BY InitIInv, StepIInv, PTL DEF Spec

(* Every answer in a report is what the SQL benchmark measured, and every  *)
(* process that contributed has opened the index that the report           *)
(* identifies, however often files were replaced.                          *)
THEOREM ReportMeasuresTheSource == Spec => []LayersMeasureTheSource
<1>1. IInv => LayersMeasureTheSource
  BY DEF IInv, ReportIsLast, LayersMeasureTheSource
<1>2. QED
  BY <1>1, Invariant, PTL
=============================================================================
