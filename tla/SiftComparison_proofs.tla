------------------------ MODULE SiftComparison_proofs ------------------------
(***************************************************************************)
(* Proofs about SiftComparison, for every set of probes, any number of     *)
(* chunks and answers, and whichever of them suffice.                      *)
(***************************************************************************)
EXTENDS SiftComparison, FiniteSetTheorems, WellFoundedInduction, TLAPS

Fixtures == [index : {"absent", "sealed", "damaged", "rebuilt"},
             base : {"original", "replaced"}]
Complete == [1 .. Chunks -> Ranking]
Trial    == [probes : Probe, answers : Complete]

Loading   == {"load", "build", "fixture"}
Measuring == {"measure", "progress", "control", "diagnose", "verify", "summary", "done"}

(* What kind of value each variable has.                                   *)
ArgumentTypes ==
  /\ given \in BOOLEAN /\ oversized \in BOOLEAN
  /\ candidate \in {"none", "fits", "short"}
  /\ holds \in [{"default", "candidate"} -> BOOLEAN]
  /\ at \in Steps \cup {"done", "failed"}

FixtureTypes ==
  /\ inputs \in {"original", "replaced"}
  /\ fixture \in Fixtures
  /\ recorded \in Fixtures
  /\ read \subseteq Fixtures

AnswerTypes ==
  /\ tried \in Seq(Trial)
  /\ selected \in Probe \cup {None}
  /\ answers \in Seq(Ranking) /\ Len(answers) <= Chunks
  /\ DOMAIN modes \subseteq Range(Layers)
  /\ \A l \in DOMAIN modes : modes[l] \in Complete \cup {None}
  /\ control \in BOOLEAN

TypeOK == ArgumentTypes /\ FixtureTypes /\ AnswerTypes

(* Probes are tried in increasing order, and the first that suffice end    *)
(* the tuning.                                                             *)
Ascending ==
  /\ at \in Loading => tried = <<>>
  /\ at \in Loading \cup {"tune"} => Untried # {}
  /\ \A i \in DOMAIN tried : \A probes \in Probe : probes < tried[i].probes =>
       \E j \in DOMAIN tried : j < i /\ tried[j].probes = probes
  /\ at = "tune" => \A i \in DOMAIN tried : tried[i].answers \notin Sufficient
  /\ at \in Measuring =>
       /\ tried # <<>> /\ selected = tried[Len(tried)].probes
       /\ Expected \in Sufficient
       /\ \A i \in DOMAIN tried : i < Len(tried) => tried[i].answers \notin Sufficient

First(n) == {Layers[i] : i \in 1 .. n}

(* How many layers have been measured, by the place where the process is.  *)
Progress ==
  /\ at \in Loading => answers = <<>> /\ read = {}
  /\ at \in Loading \cup {"tune"} => modes = <<>>
  /\ at = "measure" => \E n \in 0 .. 5 : DOMAIN modes = First(n)
  /\ at = "progress" => \E n \in 1 .. 6 : DOMAIN modes = First(n)
  /\ at = "control" => oversized /\ DOMAIN modes = First(4)
  /\ at = "diagnose" => DOMAIN modes = First(5) \/ DOMAIN modes = First(6)
  /\ at \in {"verify", "summary", "done"} => DOMAIN modes = First(6)

(* A layer answered as the tuning did, or was the snapshot that no shell   *)
(* could retain.                                                           *)
SameQuality ==
  at \in Measuring => \A l \in DOMAIN modes :
    \/ modes[l] = Expected
    \/ /\ modes[l] = None /\ l = "sql-snapshot"
       /\ control /\ candidate = "none"

(* What has been seen of the shells.                                       *)
Shells ==
  /\ control => oversized /\ ~holds["default"]
  /\ at = "measure" /\ "sql-strict" \in DOMAIN modes => holds["default"] = ~oversized
  /\ at \in Measuring /\ "sql-snapshot" \in DOMAIN modes =>
       /\ holds["default"] = ~oversized
       /\ modes["sql-snapshot"] # None => holds[Shell("sql-snapshot")]
  /\ at \in {"verify", "summary", "done"} /\ modes["sql-snapshot"] # None =>
       Confirmed("sql-snapshot")

(* While the fixture is the one that was loaded, nothing else was read; if *)
(* it is not, it never will be again.                                      *)
OneFixture ==
  /\ ~given /\ inputs = "original" => fixture.base = "original"
  /\ at \in Measuring \cup {"tune"} =>
       /\ given => recorded.base = "original"
       /\ fixture.base = recorded.base
       /\ \/ fixture = recorded /\ read \subseteq {recorded}
          \/ recorded.index = "sealed" /\ fixture.index \in {"damaged", "rebuilt"}
       /\ answers # <<>> \/ tried # <<>> => read # {}
  /\ at \in {"summary", "done"} => recorded.base = "original" /\ read = {recorded}

(* The summary is written last.                                            *)
SummaryIsLast ==
  Summarized =>
    /\ at = "done"
    /\ summary.probes = selected /\ summary.modes = modes
    /\ summary.index = recorded.index /\ summary.status = Status
-----------------------------------------------------------------------------
(* A set of numbers has a smallest one.                                    *)
LEMMA Smallest == ASSUME NEW S \in SUBSET Nat, S # {}
                  PROVE  \E x \in S : \A y \in S : x <= y
<1> DEFINE R == {ss \in Nat \X Nat : ss[1] < ss[2]}
<1>1. IsWellFoundedOn(OpToRel(<, Nat), Nat)
  BY NatLessThanWellFounded
<1>2. IsWellFoundedOn(R, Nat)
  BY <1>1 DEF OpToRel
<1> HIDE DEF R
<1>3. PICK x \in S : \A y \in S : <<y, x>> \notin R
  BY <1>2, WFMin
<1>4. \A y \in S : ~(y < x)
  BY <1>3 DEF R
<1>5. QED
  BY <1>4

(* The probes that are tried next are the fewest of those left.            *)
LEMMA FewestProbes == ASSUME Untried # {}
                      PROVE  /\ NextProbes \in Untried /\ NextProbes \in Probe
                             /\ \A y \in Untried : NextProbes <= y
<1>1. Untried \in SUBSET Nat /\ Untried \subseteq Probe
  BY SiftParameters DEF Untried
<1>2. \E x \in Untried : \A y \in Untried : x <= y
  BY <1>1, Smallest
<1>3. QED
  BY <1>1, <1>2 DEF NextProbes, Min

(* The layers by number are distinct.                                      *)
LEMMA FirstAndNext ==
  ASSUME NEW n \in 0 .. 5
  PROVE  /\ Layers[n + 1] \in Range(Layers)
         /\ Layers[n + 1] \notin First(n)
         /\ First(n + 1) = First(n) \cup {Layers[n + 1]}
<1>1. n = 0 \/ n = 1 \/ n = 2 \/ n = 3 \/ n = 4 \/ n = 5
  OBVIOUS
<1>2. 1 .. n + 1 = (1 .. n) \cup {n + 1}
  OBVIOUS
<1>3. First(n + 1) = First(n) \cup {Layers[n + 1]}
  BY <1>2 DEF First
<1>4. \A i \in 1 .. n : Layers[i] # Layers[n + 1]
  BY <1>1 DEF Layers
<1>5. Layers[n + 1] \in Range(Layers)
  BY <1>1 DEF Layers, Range
<1>6. QED
  BY <1>3, <1>4, <1>5 DEF First

(* There are as many as were counted.                                      *)
LEMMA FirstCount == \A n \in 0 .. 6 : Cardinality(First(n)) = n
<1>1. First(0) = {} /\ IsFiniteSet(First(0)) /\ Cardinality(First(0)) = 0
  BY FS_EmptySet DEF First
<1>2. IsFiniteSet(First(1)) /\ Cardinality(First(1)) = 1
  <2>1. 1 = 0 + 1 /\ 0 \in 0 .. 5
    OBVIOUS
  <2>2. Layers[1] \notin First(0) /\ First(1) = First(0) \cup {Layers[1]}
    BY <2>1, FirstAndNext
  <2>3. QED
    BY <1>1, <2>2, FS_AddElement
<1>3. IsFiniteSet(First(2)) /\ Cardinality(First(2)) = 2
  <2>1. 2 = 1 + 1 /\ 1 \in 0 .. 5
    OBVIOUS
  <2>2. Layers[2] \notin First(1) /\ First(2) = First(1) \cup {Layers[2]}
    BY <2>1, FirstAndNext
  <2>3. QED
    BY <1>2, <2>2, FS_AddElement
<1>4. IsFiniteSet(First(3)) /\ Cardinality(First(3)) = 3
  <2>1. 3 = 2 + 1 /\ 2 \in 0 .. 5
    OBVIOUS
  <2>2. Layers[3] \notin First(2) /\ First(3) = First(2) \cup {Layers[3]}
    BY <2>1, FirstAndNext
  <2>3. QED
    BY <1>3, <2>2, FS_AddElement
<1>5. IsFiniteSet(First(4)) /\ Cardinality(First(4)) = 4
  <2>1. 4 = 3 + 1 /\ 3 \in 0 .. 5
    OBVIOUS
  <2>2. Layers[4] \notin First(3) /\ First(4) = First(3) \cup {Layers[4]}
    BY <2>1, FirstAndNext
  <2>3. QED
    BY <1>4, <2>2, FS_AddElement
<1>6. IsFiniteSet(First(5)) /\ Cardinality(First(5)) = 5
  <2>1. 5 = 4 + 1 /\ 4 \in 0 .. 5
    OBVIOUS
  <2>2. Layers[5] \notin First(4) /\ First(5) = First(4) \cup {Layers[5]}
    BY <2>1, FirstAndNext
  <2>3. QED
    BY <1>5, <2>2, FS_AddElement
<1>7. IsFiniteSet(First(6)) /\ Cardinality(First(6)) = 6
  <2>1. 6 = 5 + 1 /\ 5 \in 0 .. 5
    OBVIOUS
  <2>2. Layers[6] \notin First(5) /\ First(6) = First(5) \cup {Layers[6]}
    BY <2>1, FirstAndNext
  <2>3. QED
    BY <1>6, <2>2, FS_AddElement
<1>8. QED
  BY <1>1, <1>2, <1>3, <1>4, <1>5, <1>6, <1>7

(* Which SQL layers are among them.                                        *)
LEMMA SqlLayers ==
  ASSUME NEW n \in 0 .. 6
  PROVE  /\ "sql-strict" \in First(n) <=> n >= 5
         /\ "sql-snapshot" \in First(n) <=> n = 6
<1>1. n = 0 \/ n = 1 \/ n = 2 \/ n = 3 \/ n = 4 \/ n = 5 \/ n = 6
  OBVIOUS
<1>2. \A i \in 1 .. 6 : /\ Layers[i] = "sql-strict" <=> i = 5
                        /\ Layers[i] = "sql-snapshot" <=> i = 6
  BY DEF Layers
<1>3. QED
  BY <1>1, <1>2 DEF First

(* Which layer is next, by those that there are.                           *)
LEMMA NextLayer ==
  ASSUME NEW n \in 0 .. 6, DOMAIN modes = First(n)
  PROVE  /\ Done = n /\ Current = Layers[n + 1]
         /\ InSql <=> n >= 4
         /\ n < 6 => /\ Current \in Range(Layers) \ DOMAIN modes
                     /\ DOMAIN modes \cup {Current} = First(n + 1)
         /\ n < 5 => Current # "sql-snapshot"
         /\ n = 5 => Current = "sql-snapshot"
<1>1. Done = n /\ Current = Layers[n + 1]
  BY FirstCount DEF Done, Current
<1>2. n < 6 => /\ Current \in Range(Layers) \ DOMAIN modes
               /\ DOMAIN modes \cup {Current} = First(n + 1)
  BY <1>1, FirstAndNext
<1>3. n < 5 => Current # "sql-snapshot"
  <2>1. n = 0 \/ n = 1 \/ n = 2 \/ n = 3 \/ n = 4 \/ n = 5 \/ n = 6
    OBVIOUS
  <2>2. QED
    BY <1>1, <2>1 DEF Layers
<1>4. n = 5 => Current = "sql-snapshot"
  BY <1>1 DEF Layers
<1>5. QED
  BY <1>1, <1>2, <1>3, <1>4 DEF InSql

(* One layer more keeps the others.                                        *)
LEMMA WithLayerKeeps ==
  ASSUME NEW l, NEW x, modes' = WithLayer(l, x)
  PROVE  /\ DOMAIN modes' = DOMAIN modes \cup {l}
         /\ modes'[l] = x
         /\ \A k \in DOMAIN modes \ {l} : modes'[k] = modes[k]
  BY DEF WithLayer

(* A layer that all processes have answered.                               *)
LEMMA AllChunks == ASSUME TypeOK, Len(answers) = Chunks PROVE answers \in Complete
<1>1. answers \in Seq(Ranking)
  BY DEF TypeOK, AnswerTypes
<1>2. QED
  BY <1>1 DEF Complete
-----------------------------------------------------------------------------
USE DEF args, host, tuning, measured, files

(* What a step that measures a layer does.                                 *)
Measures(n, x) ==
  /\ DOMAIN modes = First(n) /\ DOMAIN modes' = First(n + 1)
  /\ Layers[n + 1] \in Range(Layers)
  /\ \A l \in DOMAIN modes' :
       IF l = Layers[n + 1] THEN modes'[l] = x ELSE l \in DOMAIN modes /\ modes'[l] = modes[l]

(* It adds the layer that is next.                                         *)
LEMMA MeasuresNext ==
  ASSUME NEW n \in 0 .. 5, DOMAIN modes = First(n), NEW x,
         modes' = WithLayer(Current, x)
  PROVE  Measures(n, x)
<1>1. /\ Current = Layers[n + 1] /\ Current \in Range(Layers) \ DOMAIN modes
      /\ DOMAIN modes \cup {Current} = First(n + 1)
  BY NextLayer
<1>2. /\ DOMAIN modes' = DOMAIN modes \cup {Current}
      /\ modes'[Current] = x
      /\ \A k \in DOMAIN modes \ {Current} : modes'[k] = modes[k]
  BY WithLayerKeeps
<1>3. \A l \in DOMAIN modes' :
        IF l = Current THEN modes'[l] = x ELSE l \in DOMAIN modes /\ modes'[l] = modes[l]
  BY <1>2
<1>4. QED
  BY <1>1, <1>2, <1>3 DEF Measures

(* The native layers.                                                      *)
LEMMA CompareMeasures ==
  ASSUME TypeOK, Progress, Compare
  PROVE  /\ \E n \in 0 .. 3 : Measures(n, Expected)
         /\ Expected \in Complete
<1>1. PICK n \in 0 .. 5 : DOMAIN modes = First(n)
  BY DEF Progress, Compare
<1>2. n \in 0 .. 3
  BY <1>1, NextLayer DEF Compare
<1>3. modes' = WithLayer(Current, Expected) /\ answers = Expected
  BY DEF Compare, SameAnswers
<1>4. Measures(n, Expected)
  BY <1>1, <1>3, MeasuresNext
<1>5. Expected \in Complete
  BY <1>3, AllChunks DEF Compare
<1>6. QED
  BY <1>2, <1>4, <1>5

(* The two of SQL; the second one needs a shell that retains the snapshot. *)
LEMMA SqlMeasures ==
  ASSUME TypeOK, Progress, MeasureSql
  PROVE  /\ Expected \in Complete
         /\ \/ Measures(4, Expected)
            \/ Measures(5, Expected) /\ holds[Shell("sql-snapshot")]
<1>1. PICK n \in 0 .. 5 : DOMAIN modes = First(n)
  BY DEF Progress, MeasureSql
<1>2. n = 4 \/ n = 5
  BY <1>1, NextLayer DEF MeasureSql
<1>3. modes' = WithLayer(Current, Expected) /\ Expected \in Complete
  BY DEF MeasureSql, SameAnswers, Complete
<1>4. Measures(n, Expected)
  BY <1>1, <1>3, MeasuresNext
<1>5. n = 5 => holds[Shell("sql-snapshot")]
  BY <1>1, NextLayer DEF MeasureSql
<1>6. QED
  BY <1>2, <1>3, <1>4, <1>5

(* The snapshot that no shell could retain.                                *)
LEMMA MarkMeasures ==
  ASSUME TypeOK, Progress, MarkUnsupported
  PROVE  Measures(5, None) /\ control /\ candidate = "none"
<1>1. PICK n \in 0 .. 5 : DOMAIN modes = First(n)
  BY DEF Progress, MarkUnsupported
<1>2. n = 5 /\ control /\ candidate = "none"
  BY <1>1, NextLayer DEF MarkUnsupported, Unsupported
<1>3. modes' = WithLayer(Current, None)
  BY DEF MarkUnsupported
<1>4. Measures(n, None)
  BY <1>1, <1>3, MeasuresNext
<1>5. QED
  BY <1>2, <1>4

(* Arguments do not change.                                                *)
LEMMA ArgumentStep == ASSUME TypeOK, Progress, [Next]_vars PROVE ArgumentTypes'
<1> USE DEF TypeOK, ArgumentTypes, Steps
<1>0. CASE UNCHANGED vars
  BY <1>0 DEF vars
<1>1. CASE LoadInputs
  BY <1>1 DEF LoadInputs
<1>2. CASE BuildFixture \/ LoadFixture \/ RunChunk
  BY <1>2 DEF BuildFixture, LoadFixture, RunChunk
<1>3. CASE Score
  BY <1>3 DEF Score
<1>4. CASE Compare
  BY <1>4 DEF Compare
<1>5. CASE SaveProgress
  <2>1. UNCHANGED args /\ at' \in {"measure", "diagnose", "control", "failed"}
    <3>1. at' = "failed" \/ at' = CASE Done < 4 -> "measure" [] Done > 4 -> "diagnose"
                  [] OTHER -> IF oversized THEN "control" ELSE "measure"
      BY <1>5 DEF SaveProgress, Save
    <3>2. QED
      BY <3>1, <1>5 DEF SaveProgress
  <2>2. QED
    BY <2>1
<1>6. CASE Control \/ MeasureSql \/ MarkUnsupported \/ Diagnose
  BY <1>6 DEF Control, MeasureSql, MarkUnsupported, Diagnose
<1>7. CASE Verify \/ SaveSummary \/ Raise \/ Interfere
  BY <1>7 DEF Verify, SaveSummary, Raise, Interfere, Save
<1>8. QED
  BY <1>0, <1>1, <1>2, <1>3, <1>4, <1>5, <1>6, <1>7 DEF Next

(* Fixtures are fixtures.                                                  *)
LEMMA FixtureStep == ASSUME TypeOK, [Next]_vars PROVE FixtureTypes'
<1> USE DEF TypeOK, FixtureTypes, Fixtures
<1>0. CASE UNCHANGED vars
  BY <1>0 DEF vars
<1>1. CASE LoadInputs \/ BuildFixture \/ LoadFixture \/ RunChunk
  BY <1>1 DEF LoadInputs, BuildFixture, LoadFixture, RunChunk
<1>2. CASE Score \/ Compare \/ SaveProgress \/ Control
  BY <1>2 DEF Score, Compare, SaveProgress, Control, Save
<1>3. CASE MeasureSql \/ MarkUnsupported \/ Diagnose \/ Verify
  BY <1>3 DEF MeasureSql, MarkUnsupported, Diagnose, Verify
<1>4. CASE SaveSummary \/ Raise \/ Interfere
  BY <1>4 DEF SaveSummary, Raise, Interfere, Save
<1>5. QED
  BY <1>0, <1>1, <1>2, <1>3, <1>4 DEF Next

(* Tuning ends with answers to all chunks.                                 *)
LEMMA ScoreTrial ==
  ASSUME TypeOK, Ascending, Score
  PROVE  /\ [probes |-> NextProbes, answers |-> answers] \in Trial
         /\ tried' \in Seq(Trial) /\ Len(tried') = Len(tried) + 1
         /\ tried'[Len(tried')] = [probes |-> NextProbes, answers |-> answers]
         /\ \A i \in DOMAIN tried : i < Len(tried') /\ tried'[i] = tried[i]
         /\ \A i \in DOMAIN tried' : i \in DOMAIN tried \/ i = Len(tried')
<1>1. Untried # {}
  BY DEF Score, Ascending
<1>2. NextProbes \in Probe /\ answers \in Complete
  BY <1>1, FewestProbes, AllChunks DEF Score
<1>3. [probes |-> NextProbes, answers |-> answers] \in Trial
  BY <1>2 DEF Trial
<1>4. tried \in Seq(Trial) /\ tried' = Append(tried, [probes |-> NextProbes, answers |-> answers])
  BY DEF Score, TypeOK, AnswerTypes
<1>5. QED
  BY <1>3, <1>4

(* Answers and layers keep their types.                                    *)
LEMMA AnswerStep == ASSUME TypeOK, Ascending, Progress, [Next]_vars PROVE AnswerTypes'
<1>chunks. Chunks \in Nat
  BY SiftParameters
<1>none. <<>> \in Seq(Ranking) /\ Len(<<>>) = 0
  OBVIOUS
<1>0. CASE UNCHANGED vars
  BY <1>0 DEF vars, TypeOK, AnswerTypes
<1>1. CASE LoadInputs \/ BuildFixture \/ LoadFixture
  BY <1>1 DEF LoadInputs, BuildFixture, LoadFixture, TypeOK, AnswerTypes
<1>2. CASE RunChunk
  <2>1. PICK ranking \in Ranking : answers' = Append(answers, ranking)
    BY <1>2 DEF RunChunk
  <2>2. answers \in Seq(Ranking) /\ Len(answers) < Chunks
    BY <1>2 DEF RunChunk, TypeOK, AnswerTypes
  <2>3. answers' \in Seq(Ranking) /\ Len(answers') <= Chunks
    BY <2>1, <2>2, <1>chunks
  <2>4. UNCHANGED <<tried, selected, modes, control>>
    BY <1>2 DEF RunChunk
  <2>5. QED
    BY <2>3, <2>4 DEF TypeOK, AnswerTypes
<1>3. CASE Score
  <2>1. tried' \in Seq(Trial) /\ NextProbes \in Probe
    BY <1>3, ScoreTrial, FewestProbes DEF Score, Ascending
  <2>2. selected' \in Probe \cup {None} /\ UNCHANGED <<modes, control>>
    BY <2>1, <1>3 DEF Score
  <2>3. answers' \in Seq(Ranking) /\ Len(answers') <= Chunks
    <3>1. answers' = <<>>
      BY <1>3 DEF Score
    <3>2. QED
      BY <3>1, <1>chunks, <1>none
  <2>4. QED
    BY <2>1, <2>2, <2>3 DEF TypeOK, AnswerTypes
<1>4. CASE Compare
  <2>1. PICK n \in 0 .. 3 : Measures(n, Expected)
    BY <1>4, CompareMeasures
  <2>2. Expected \in Complete /\ UNCHANGED <<tried, selected, control>>
    BY <1>4, CompareMeasures DEF Compare
  <2>3. answers' \in Seq(Ranking) /\ Len(answers') <= Chunks
    <3>1. answers' = <<>>
      BY <1>4 DEF Compare
    <3>2. QED
      BY <3>1, <1>chunks, <1>none
  <2>4. QED
    BY <2>1, <2>2, <2>3 DEF Measures, TypeOK, AnswerTypes
<1>5. CASE SaveProgress \/ Control
  BY <1>5 DEF SaveProgress, Control, Save, TypeOK, AnswerTypes
<1>6. CASE MeasureSql
  <2>1. PICK n : Measures(n, Expected)
    BY <1>6, SqlMeasures
  <2>2. Expected \in Complete /\ UNCHANGED <<tried, selected, answers, control>>
    BY <1>6, SqlMeasures DEF MeasureSql
  <2>3. QED
    BY <2>1, <2>2 DEF Measures, TypeOK, AnswerTypes
<1>7. CASE MarkUnsupported
  <2>1. Measures(5, None) /\ UNCHANGED <<tried, selected, answers, control>>
    BY <1>7, MarkMeasures DEF MarkUnsupported
  <2>2. QED
    BY <2>1 DEF Measures, TypeOK, AnswerTypes
<1>8. CASE Diagnose \/ Verify \/ SaveSummary \/ Raise
  BY <1>8 DEF Diagnose, Verify, SaveSummary, Raise, Save, TypeOK, AnswerTypes
<1>9. CASE Interfere
  BY <1>9 DEF Interfere, TypeOK, AnswerTypes
<1>10. QED
  BY <1>0, <1>1, <1>2, <1>3, <1>4, <1>5, <1>6, <1>7, <1>8, <1>9 DEF Next
-----------------------------------------------------------------------------
(* Tuning tries the probes in order.                                       *)
LEMMA AscendingStep == ASSUME TypeOK, Ascending, [Next]_vars PROVE Ascending'
<1> USE DEF Ascending, Loading, Measuring
<1>same. ASSUME UNCHANGED tried
         PROVE  /\ Untried' = Untried /\ Expected' = Expected
                /\ \A i \in DOMAIN tried' : \A probes \in Probe : probes < tried'[i].probes =>
                     \E j \in DOMAIN tried' : j < i /\ tried'[j].probes = probes
  BY <1>same DEF Untried, Expected
<1>0. CASE UNCHANGED vars
  BY <1>same, <1>0 DEF vars
<1>1. CASE LoadInputs \/ BuildFixture \/ LoadFixture
  BY <1>same, <1>1 DEF LoadInputs, BuildFixture, LoadFixture
<1>2. CASE RunChunk
  BY <1>2, <1>same DEF RunChunk
<1>3. CASE Score
  <2>1. Untried # {} /\ at = "tune"
    BY <1>3 DEF Score
  <2>2. /\ tried \in Seq(Trial) /\ tried' \in Seq(Trial) /\ Len(tried') = Len(tried) + 1
        /\ tried'[Len(tried')] = [probes |-> NextProbes, answers |-> answers]
        /\ \A i \in DOMAIN tried : i < Len(tried') /\ tried'[i] = tried[i]
        /\ \A i \in DOMAIN tried' : i \in DOMAIN tried \/ i = Len(tried')
    BY <1>3, ScoreTrial DEF TypeOK, AnswerTypes
  <2>3. /\ DOMAIN tried \subseteq DOMAIN tried' /\ Len(tried') \in DOMAIN tried'
        /\ tried' # <<>>
    BY <2>2
  <2>4. ASSUME NEW i \in DOMAIN tried', NEW probes \in Probe, probes < tried'[i].probes
        PROVE  \E j \in DOMAIN tried' : j < i /\ tried'[j].probes = probes
    <3>1. CASE i \in DOMAIN tried
      <4>1. PICK j \in DOMAIN tried : j < i /\ tried[j].probes = probes
        BY <2>2, <2>4, <3>1
      <4>2. QED
        BY <2>2, <2>3, <4>1
    <3>2. CASE i = Len(tried')
      <4>1. probes < NextProbes
        BY <2>2, <2>4, <3>2
      <4>2. probes \notin Untried
        <5>1. NextProbes \in Nat /\ probes \in Nat
          BY <2>1, FewestProbes, SiftParameters
        <5>2. \A y \in Untried : NextProbes <= y
          BY <2>1, FewestProbes
        <5>3. QED
          BY <4>1, <5>1, <5>2
      <4>3. PICK j \in DOMAIN tried : tried[j].probes = probes
        BY <4>2 DEF Untried
      <4>4. QED
        BY <2>2, <2>3, <3>2, <4>3
    <3>3. QED
      BY <2>2, <3>1, <3>2
  <2>5. CASE answers \in Sufficient
    <3>1. at' = "measure" /\ selected' = NextProbes
      BY <2>5, <1>3 DEF Score
    <3>2. Expected' = answers
      BY <2>2 DEF Expected
    <3>3. \A i \in DOMAIN tried' : i < Len(tried') => tried'[i].answers \notin Sufficient
      BY <2>1, <2>2
    <3>4. QED
      BY <2>2, <2>3, <2>4, <2>5, <3>1, <3>2, <3>3
  <2>6. CASE answers \notin Sufficient
    <3>1. at' = "failed" \/ (at' = "tune" /\ Untried' # {})
      BY <2>6, <1>3 DEF Score
    <3>2. \A i \in DOMAIN tried' : tried'[i].answers \notin Sufficient
      BY <2>1, <2>2, <2>6
    <3>3. QED
      BY <2>4, <3>1, <3>2
  <2>7. QED
    BY <2>5, <2>6
<1>4. CASE Compare
  BY <1>same, <1>4 DEF Compare
<1>5. CASE SaveProgress
  <2>1. UNCHANGED <<tried, selected>> /\ at = "progress"
    BY <1>5 DEF SaveProgress
  <2>2. at' \in Measuring \cup {"failed"} /\ at' \notin Loading \cup {"tune"}
    BY <1>5 DEF SaveProgress, Save
  <2>3. QED
    BY <2>1, <2>2, <1>same
<1>6. CASE Control \/ MeasureSql \/ MarkUnsupported \/ Diagnose
  BY <1>same, <1>6 DEF Control, MeasureSql, MarkUnsupported, Diagnose
<1>7. CASE Verify \/ SaveSummary \/ Raise \/ Interfere
  BY <1>same, <1>7 DEF Verify, SaveSummary, Raise, Interfere, Save
<1>8. QED
  BY <1>0, <1>1, <1>2, <1>3, <1>4, <1>5, <1>6, <1>7 DEF Next

(* The layers are measured one after the other.                            *)
LEMMA ProgressStep == ASSUME TypeOK, Progress, [Next]_vars PROVE Progress'
<1> USE DEF Progress, Loading
<1>counts. /\ 0 \in 0 .. 5 /\ 4 \in 0 .. 5 /\ 5 \in 0 .. 5
           /\ \A n \in 0 .. 5 : n + 1 \in 1 .. 6
           /\ \A n \in 1 .. 6 : n # 6 => n \in 0 .. 5
           /\ \A n \in 1 .. 6 : n \in 0 .. 6
           /\ \A n \in 0 .. 3 : n \in 0 .. 5
           /\ 4 + 1 = 5 /\ 5 + 1 = 6
  BY SMT
<1>empty. DOMAIN <<>> = {} /\ First(0) = {}
  BY DEF First
<1>0. CASE UNCHANGED vars
  BY <1>0 DEF vars
<1>1. CASE LoadInputs \/ BuildFixture \/ LoadFixture \/ RunChunk
  BY <1>1 DEF LoadInputs, BuildFixture, LoadFixture, RunChunk
<1>2. CASE Score
  <2>1. modes' = <<>> /\ at' \in {"measure", "tune", "failed"}
    BY <1>2 DEF Score
  <2>2. QED
    BY <2>1, <1>counts, <1>empty
<1>3. CASE Compare
  <2>1. PICK n \in 0 .. 3 : Measures(n, Expected)
    BY <1>3, CompareMeasures
  <2>2. at' = "progress"
    BY <1>3 DEF Compare
  <2>3. n + 1 \in 1 .. 6
    BY <1>counts
  <2>4. QED
    BY <2>1, <2>2, <2>3 DEF Measures
<1>4. CASE SaveProgress
  <2>1. PICK n \in 1 .. 6 : DOMAIN modes = First(n)
    BY <1>4 DEF SaveProgress
  <2>2. Done = n /\ UNCHANGED modes
    BY <1>4, <2>1, NextLayer DEF SaveProgress
  <2>3. CASE n < 4
    <3>1. at' \in {"measure", "failed"} /\ n \in 0 .. 5
      BY <1>4, <2>2, <2>3 DEF SaveProgress, Save
    <3>2. QED
      BY <2>1, <2>2, <3>1
  <2>4. CASE n > 4
    <3>1. at' \in {"diagnose", "failed"} /\ n \in {5, 6}
      BY <1>4, <2>2, <2>4 DEF SaveProgress, Save
    <3>2. QED
      BY <2>1, <2>2, <3>1
  <2>5. CASE n = 4
    <3>1. (at' = "control" /\ oversized') \/ at' \in {"measure", "failed"}
      BY <1>4, <2>2, <2>5 DEF SaveProgress, Save
    <3>2. QED
      BY <2>1, <2>2, <2>5, <3>1, <1>counts
  <2>6. QED
    BY <2>3, <2>4, <2>5
<1>5. CASE Control
  BY <1>5, <1>counts DEF Control
<1>6. CASE MeasureSql
  <2>1. PICK n \in {4, 5} : Measures(n, Expected)
    BY <1>6, SqlMeasures
  <2>2. at' = "progress"
    BY <1>6 DEF MeasureSql
  <2>3. n + 1 \in 1 .. 6
    BY <1>counts
  <2>4. QED
    BY <2>1, <2>2, <2>3 DEF Measures
<1>7. CASE MarkUnsupported
  <2>1. DOMAIN modes' = First(6) /\ at' = "verify"
    BY <1>7, MarkMeasures, <1>counts DEF MarkUnsupported, Measures
  <2>2. QED
    BY <2>1
<1>8. CASE Diagnose
  <2>1. PICK n \in {5, 6} : DOMAIN modes = First(n)
    BY <1>8 DEF Diagnose
  <2>2. Done = n
    BY <2>1, NextLayer
  <2>3. n = 6 <=> Layers[Done] = "sql-snapshot"
    BY <2>2 DEF Layers
  <2>4. UNCHANGED modes /\ at' = IF n = 6 THEN "verify" ELSE "measure"
    BY <1>8, <2>3 DEF Diagnose
  <2>5. QED
    BY <2>1, <2>4, <1>counts
<1>9. CASE Verify \/ SaveSummary \/ Raise \/ Interfere
  BY <1>9 DEF Verify, SaveSummary, Raise, Interfere, Save
<1>10. QED
  BY <1>0, <1>1, <1>2, <1>3, <1>4, <1>5, <1>6, <1>7, <1>8, <1>9 DEF Next

(* A layer that is measured agrees, and the others still do.               *)
LEMMA MeasuredAgrees ==
  ASSUME SameQuality, at \in Measuring, UNCHANGED <<tried, control, candidate>>,
         NEW n, NEW x, Measures(n, x),
         \/ x = Expected
         \/ x = None /\ Layers[n + 1] = "sql-snapshot" /\ control /\ candidate = "none"
  PROVE  SameQuality'
<1>1. Expected' = Expected
  BY DEF Expected
<1>2. ASSUME NEW l \in DOMAIN modes'
      PROVE  IF l = Layers[n + 1] THEN modes'[l] = x
                                  ELSE l \in DOMAIN modes /\ modes'[l] = modes[l]
  BY DEF Measures
<1>3. QED
  BY <1>1, <1>2 DEF SameQuality

(* Layers agree with the tuning.                                           *)
LEMMA SameQualityStep ==
  ASSUME TypeOK, Progress, SameQuality, [Next]_vars PROVE SameQuality'
<1> USE DEF SameQuality, Measuring
<1>same. ASSUME UNCHANGED tried PROVE Expected' = Expected
  BY <1>same DEF Expected
<1>empty. DOMAIN <<>> = {}
  OBVIOUS
<1>0. CASE UNCHANGED vars
  BY <1>same, <1>0 DEF vars
<1>1. CASE LoadInputs \/ BuildFixture \/ LoadFixture \/ RunChunk
  BY <1>same, <1>1 DEF LoadInputs, BuildFixture, LoadFixture, RunChunk
<1>2. CASE Score
  BY <1>2, <1>empty DEF Score, Progress
<1>3. CASE Compare
  <2>1. PICK n : Measures(n, Expected)
    BY <1>3, CompareMeasures
  <2>2. at \in Measuring /\ UNCHANGED <<tried, control, candidate>>
    BY <1>3 DEF Compare
  <2>3. QED
    BY <2>1, <2>2, MeasuredAgrees
<1>4. CASE SaveProgress
  <2>1. at \in Measuring /\ UNCHANGED <<tried, modes, control, candidate>>
    BY <1>4 DEF SaveProgress
  <2>2. QED
    BY <2>1, <1>same
<1>5. CASE Control
  BY <1>5, <1>same DEF Control
<1>6. CASE MeasureSql
  <2>1. PICK n : Measures(n, Expected)
    BY <1>6, SqlMeasures
  <2>2. at \in Measuring /\ UNCHANGED <<tried, control, candidate>>
    BY <1>6 DEF MeasureSql
  <2>3. QED
    BY <2>1, <2>2, MeasuredAgrees
<1>7. CASE MarkUnsupported
  <2>1. Measures(5, None) /\ control /\ candidate = "none"
    BY <1>7, MarkMeasures
  <2>2. at \in Measuring /\ UNCHANGED <<tried, control, candidate>>
    BY <1>7 DEF MarkUnsupported
  <2>3. Layers[5 + 1] = "sql-snapshot"
    BY DEF Layers
  <2>4. QED
    BY <2>1, <2>2, <2>3, MeasuredAgrees
<1>8. CASE Diagnose \/ Verify \/ SaveSummary \/ Raise
  BY <1>same, <1>8 DEF Diagnose, Verify, SaveSummary, Raise, Save
<1>9. CASE Interfere
  BY <1>same, <1>9 DEF Interfere
<1>10. QED
  BY <1>0, <1>1, <1>2, <1>3, <1>4, <1>5, <1>6, <1>7, <1>8, <1>9 DEF Next
-----------------------------------------------------------------------------
(* What is known of the shells.                                            *)
LEMMA ShellsStep == ASSUME TypeOK, Progress, Shells, [Next]_vars PROVE Shells'
<1> USE DEF Shells, Measuring
<1>same. ASSUME UNCHANGED args
         PROVE  /\ \A l : Shell(l)' = Shell(l)
                /\ Confirmed("sql-snapshot")' = Confirmed("sql-snapshot")
  BY <1>same DEF Shell, Confirmed, Retained
<1>empty. DOMAIN <<>> = {}
  OBVIOUS
<1>0. CASE UNCHANGED vars
  BY <1>same, <1>0 DEF vars
<1>1. CASE LoadInputs \/ BuildFixture \/ LoadFixture \/ RunChunk
  BY <1>same, <1>1 DEF LoadInputs, BuildFixture, LoadFixture, RunChunk
<1>2. CASE Score
  <2>1. at' \in {"measure", "tune", "failed"} /\ modes' = <<>> /\ UNCHANGED <<args, control>>
    BY <1>2 DEF Score, Progress
  <2>2. QED
    BY <2>1, <1>empty
<1>3. CASE Compare
  <2>1. PICK n \in 0 .. 3 : Measures(n, Expected)
    BY <1>3, CompareMeasures
  <2>2. UNCHANGED <<args, control>> /\ at' = "progress"
    BY <1>3 DEF Compare
  <2>3. n + 1 \in 0 .. 6 /\ n + 1 < 6
    OBVIOUS
  <2>4. "sql-snapshot" \notin DOMAIN modes'
    BY <2>1, <2>3, SqlLayers DEF Measures
  <2>5. QED
    BY <2>2, <2>4, <1>same
<1>4. CASE SaveProgress
  <2>1. UNCHANGED <<args, control, modes>> /\ at = "progress"
    BY <1>4 DEF SaveProgress
  <2>2. PICK n \in 1 .. 6 : DOMAIN modes = First(n)
    BY <2>1 DEF Progress
  <2>3. Done = n
    BY <2>2, NextLayer
  <2>4. at' \in {"measure", "diagnose", "control", "failed"}
    BY <1>4 DEF SaveProgress, Save
  <2>5. at' = "measure" => n <= 4
    BY <1>4, <2>3 DEF SaveProgress, Save
  <2>6. at' = "measure" => "sql-strict" \notin DOMAIN modes'
    BY <2>1, <2>2, <2>5, SqlLayers
  <2>7. QED
    BY <2>1, <2>4, <2>6, <1>same
<1>5. CASE Control
  <2>1. /\ UNCHANGED <<args, modes>> /\ at = "control" /\ at' = "measure" /\ control'
        /\ oversized /\ ~holds["default"] /\ DOMAIN modes = First(4)
    BY <1>5 DEF Control, Progress
  <2>2. "sql-strict" \notin DOMAIN modes /\ "sql-snapshot" \notin DOMAIN modes
    BY <2>1, SqlLayers
  <2>3. QED
    BY <2>1, <2>2, <1>same
<1>6. CASE MeasureSql
  <2>1. UNCHANGED <<args, control>> /\ at = "measure" /\ at' = "progress"
    BY <1>6 DEF MeasureSql
  <2>2. CASE Measures(4, Expected)
    <3>1. "sql-snapshot" \notin DOMAIN modes'
      BY <2>2, SqlLayers DEF Measures
    <3>2. QED
      BY <2>1, <3>1, <1>same
  <2>3. CASE Measures(5, Expected) /\ holds[Shell("sql-snapshot")]
    <3>1. "sql-strict" \in DOMAIN modes
      BY <2>3, SqlLayers DEF Measures
    <3>2. QED
      BY <2>1, <2>3, <3>1, <1>same
  <2>4. QED
    BY <1>6, <2>2, <2>3, SqlMeasures
<1>7. CASE MarkUnsupported
  <2>1. UNCHANGED <<args, control>> /\ at = "measure" /\ at' = "verify"
    BY <1>7 DEF MarkUnsupported
  <2>2. Measures(5, None)
    BY <1>7, MarkMeasures
  <2>3. "sql-strict" \in DOMAIN modes /\ "sql-snapshot" \in DOMAIN modes'
    BY <2>2, SqlLayers DEF Measures
  <2>4. modes'["sql-snapshot"] = None
    BY <2>2, <2>3 DEF Measures, Layers
  <2>5. QED
    BY <2>1, <2>3, <2>4, <1>same
<1>8. CASE Diagnose
  <2>1. UNCHANGED <<args, control, modes>> /\ at = "diagnose" /\ Confirmed(Layers[Done])
    BY <1>8 DEF Diagnose
  <2>2. CASE DOMAIN modes = First(5)
    <3>1. Layers[Done] = "sql-strict" /\ "sql-snapshot" \notin DOMAIN modes
      BY <2>2, NextLayer, SqlLayers DEF Layers
    <3>2. at' = "measure" /\ holds["default"] = ~oversized
      BY <1>8, <2>1, <3>1 DEF Diagnose, Confirmed, Shell, Retained
    <3>3. QED
      BY <2>1, <3>1, <3>2, <1>same
  <2>3. CASE DOMAIN modes = First(6)
    <3>1. Layers[Done] = "sql-snapshot"
      BY <2>3, NextLayer DEF Layers
    <3>2. at' = "verify" /\ Confirmed("sql-snapshot")
      BY <1>8, <2>1, <3>1 DEF Diagnose
    <3>3. QED
      BY <2>1, <3>2, <1>same
  <2>4. QED
    BY <2>1, <2>2, <2>3 DEF Progress
<1>9. CASE Verify
  BY <1>same, <1>9 DEF Verify
<1>10. CASE SaveSummary \/ Raise \/ Interfere
  BY <1>same, <1>10 DEF SaveSummary, Raise, Interfere, Save
<1>11. QED
  BY <1>0, <1>1, <1>2, <1>3, <1>4, <1>5, <1>6, <1>7, <1>8, <1>9, <1>10 DEF Next

(* A fixture that was replaced does not come back.                         *)
LEMMA OneFixtureStep ==
  ASSUME TypeOK, Ascending, Progress, OneFixture, [Next]_vars PROVE OneFixture'
<1> USE DEF OneFixture, Measuring, TypeOK, FixtureTypes
<1>0. CASE UNCHANGED vars
  BY <1>0 DEF vars
<1>1. CASE LoadInputs \/ BuildFixture
  BY <1>1 DEF LoadInputs, BuildFixture
<1>2. CASE LoadFixture
  BY <1>2 DEF LoadFixture, Acceptable, Progress, Ascending, Loading
<1>3. CASE RunChunk
  <2>1. UNCHANGED <<args, at, host, recorded>> /\ read' = read \cup {fixture}
    BY <1>3 DEF RunChunk
  <2>2. at \in {"tune", "measure"}
    BY <1>3 DEF RunChunk
  <2>3. QED
    BY <2>1, <2>2
<1>4. CASE Score
  <2>1. answers # <<>>
    BY <1>4, SiftParameters DEF Score
  <2>2. QED
    BY <2>1, <1>4 DEF Score
<1>5. CASE Compare
  BY <1>5 DEF Compare
<1>6. CASE SaveProgress
  <2>1. UNCHANGED <<args, host, recorded, tuning, measured>> /\ at = "progress"
    BY <1>6 DEF SaveProgress
  <2>2. at' \in {"measure", "diagnose", "control", "failed"}
    BY <1>6 DEF SaveProgress, Save
  <2>3. QED
    BY <2>1, <2>2
<1>7. CASE Control \/ MeasureSql \/ MarkUnsupported \/ Diagnose
  BY <1>7 DEF Control, MeasureSql, MarkUnsupported, Diagnose
<1>8. CASE Verify
  <2>1. /\ UNCHANGED <<args, host, recorded, tuning, measured>>
        /\ at = "verify" /\ at' = "summary"
        /\ fixture.index = recorded.index /\ inputs = "original"
    BY <1>8 DEF Verify, Unchanged
  <2>2. fixture = recorded /\ read \subseteq {recorded}
    BY <2>1
  <2>3. recorded.base = "original"
    BY <2>1, <2>2 DEF ArgumentTypes
  <2>4. read # {}
    BY <2>1 DEF Ascending
  <2>5. QED
    BY <2>1, <2>2, <2>3, <2>4
<1>9. CASE SaveSummary \/ Raise
  BY <1>9 DEF SaveSummary, Raise, Save
<1>10. CASE Interfere
  <2>1. UNCHANGED <<args, at, recorded, tuning, measured>>
    BY <1>10 DEF Interfere
  <2>2. CASE inputs' = "replaced" /\ UNCHANGED fixture
    BY <2>1, <2>2
  <2>3. CASE /\ fixture.index = "sealed" /\ UNCHANGED inputs
             /\ \E index \in {"damaged", "rebuilt"} :
                  fixture' = [fixture EXCEPT !.index = index]
    <3>1. fixture'.base = fixture.base /\ fixture'.index \in {"damaged", "rebuilt"}
      BY <2>3 DEF Fixtures
    <3>2. at \in Measuring \cup {"tune"} => recorded.index = "sealed"
      BY <2>3
    <3>3. QED
      BY <2>1, <2>3, <3>1, <3>2
  <2>4. QED
    BY <2>2, <2>3, <1>10 DEF Interfere
<1>11. QED
  BY <1>0, <1>1, <1>2, <1>3, <1>4, <1>5, <1>6, <1>7, <1>8, <1>9, <1>10 DEF Next

(* The summary is written last.                                            *)
LEMMA SummaryIsLastStep ==
  ASSUME TypeOK, SummaryIsLast, [Next]_vars PROVE SummaryIsLast'
<1> USE DEF SummaryIsLast, Summarized
<1>same. ASSUME UNCHANGED <<at, selected, modes, recorded, summary>> PROVE SummaryIsLast'
  BY <1>same DEF Status
<1>later. ASSUME at # "done", UNCHANGED summary PROVE SummaryIsLast'
  BY <1>later
<1>0. CASE UNCHANGED vars
  BY <1>0, <1>same DEF vars
<1>1. CASE LoadInputs \/ BuildFixture \/ LoadFixture \/ RunChunk
  BY <1>later, <1>1 DEF LoadInputs, BuildFixture, LoadFixture, RunChunk
<1>2. CASE Score \/ Compare \/ SaveProgress \/ Control
  BY <1>later, <1>2 DEF Score, Compare, SaveProgress, Control, Save
<1>3. CASE MeasureSql \/ MarkUnsupported \/ Diagnose \/ Verify
  BY <1>later, <1>3 DEF MeasureSql, MarkUnsupported, Diagnose, Verify
<1>4. CASE SaveSummary
  <2>1. CASE at' = "done" /\ summary' = [status |-> Status, probes |-> selected,
                 modes |-> modes, index |-> recorded.index]
    <3>1. UNCHANGED <<selected, modes, recorded>>
      BY <1>4 DEF SaveSummary
    <3>2. QED
      BY <2>1, <3>1 DEF Status
  <2>2. CASE summary' = Torn
    BY <2>2
  <2>3. QED
    BY <2>1, <2>2, <1>4 DEF SaveSummary, Save
<1>5. CASE Raise
  BY <1>5, <1>later DEF Raise, Steps
<1>6. CASE Interfere
  BY <1>6, <1>same DEF Interfere
<1>7. QED
  BY <1>0, <1>1, <1>2, <1>3, <1>4, <1>5, <1>6 DEF Next
-----------------------------------------------------------------------------
(* The inductive invariant.                                                *)
IInv ==
  /\ TypeOK
  /\ Ascending
  /\ Progress
  /\ SameQuality
  /\ Shells
  /\ OneFixture
  /\ SummaryIsLast

(* It holds when nothing has been loaded.                                  *)
LEMMA InitIInv == Init => IInv
<1> SUFFICES ASSUME Init PROVE IInv
  OBVIOUS
<1> USE DEF Init
<1>1. DOMAIN <<>> = {} /\ <<>> \in Seq(Ranking) /\ <<>> \in Seq(Trial) /\ Len(<<>>) = 0
  OBVIOUS
<1>2. ArgumentTypes /\ FixtureTypes
  BY DEF ArgumentTypes, FixtureTypes, Fixtures, NoFixture, Steps
<1>3. AnswerTypes
  <2>1. tried \in Seq(Trial) /\ answers \in Seq(Ranking) /\ Len(answers) = 0
    BY <1>1
  <2>2. DOMAIN modes = {}
    BY <1>1
  <2>3. Chunks \in Nat /\ selected = None /\ control = FALSE
    BY SiftParameters
  <2>4. Len(answers) <= Chunks
    BY <2>1, <2>3
  <2>5. /\ DOMAIN modes \subseteq Range(Layers)
        /\ \A l \in DOMAIN modes : modes[l] \in Complete \cup {None}
    BY <2>2
  <2>6. QED
    BY <2>1, <2>3, <2>4, <2>5 DEF AnswerTypes
<1>4. Ascending
  BY <1>1, SiftParameters DEF Ascending, Untried, Loading, Measuring
<1>5. Progress /\ SameQuality /\ Shells /\ OneFixture /\ SummaryIsLast
  BY <1>1 DEF Progress, SameQuality, Shells, OneFixture, SummaryIsLast, Summarized,
       Measuring, NoFixture
<1>6. QED
  BY <1>2, <1>3, <1>4, <1>5 DEF IInv, TypeOK

(* Every step preserves it.                                                *)
LEMMA StepIInv == IInv /\ [Next]_vars => IInv'
<1> SUFFICES ASSUME IInv, [Next]_vars PROVE IInv'
  OBVIOUS
<1> USE DEF IInv
<1>1. TypeOK'
  BY ArgumentStep, FixtureStep, AnswerStep DEF TypeOK
<1>2. Ascending' /\ Progress' /\ SameQuality'
  BY AscendingStep, ProgressStep, SameQualityStep
<1>3. Shells' /\ OneFixture' /\ SummaryIsLast'
  BY ShellsStep, OneFixtureStep, SummaryIsLastStep
<1>4. QED
  BY <1>1, <1>2, <1>3

(* The inductive invariant of the comparison and of whoever interferes.    *)
THEOREM Invariant == Spec => []IInv
  BY InitIInv, StepIInv, PTL DEF Spec

(* What a summary and the invariant say together.                          *)
LEMMA SummaryOfAll ==
  ASSUME IInv, Summarized
  PROVE  /\ at = "done" /\ summary.modes = modes /\ summary.status = Status
         /\ summary.probes = selected /\ summary.index = recorded.index
         /\ "sql-snapshot" \in DOMAIN modes /\ "sql-strict" \in DOMAIN modes
<1>1. DOMAIN modes = First(6) /\ at = "done"
  BY DEF IInv, SummaryIsLast, Progress
<1>2. "sql-snapshot" \in First(6) /\ "sql-strict" \in First(6)
  BY SqlLayers
<1>3. QED
  BY <1>1, <1>2 DEF IInv, SummaryIsLast

(* The layers of a report are compared at the quality of the fewest probes *)
(* that suffice.                                                           *)
THEOREM ReportHasEqualQuality == Spec => []LayersHaveEqualQuality
<1>1. ASSUME IInv, Summarized
      PROVE  \E i \in DOMAIN tried :
               /\ tried[i].probes = summary.probes
               /\ tried[i].answers \in Sufficient
               /\ \A m \in Measured : summary.modes[m] = tried[i].answers
               /\ \A probes \in Probe : probes < summary.probes =>
                    \E j \in DOMAIN tried : /\ tried[j].probes = probes
                                            /\ tried[j].answers \notin Sufficient
  <2> DEFINE last == Len(tried)
  <2>1. /\ at = "done" /\ summary.modes = modes /\ summary.probes = selected
    BY <1>1, SummaryOfAll
  <2>2. /\ tried # <<>> /\ selected = tried[last].probes /\ Expected \in Sufficient
        /\ \A i \in DOMAIN tried : i < last => tried[i].answers \notin Sufficient
        /\ \A i \in DOMAIN tried : \A probes \in Probe : probes < tried[i].probes =>
             \E j \in DOMAIN tried : j < i /\ tried[j].probes = probes
    BY <1>1, <2>1 DEF IInv, Ascending, Measuring
  <2>3. last \in DOMAIN tried
    BY <1>1, <2>2 DEF IInv, TypeOK, AnswerTypes
  <2>4. \A m \in Measured : summary.modes[m] = tried[last].answers
    BY <1>1, <2>1 DEF IInv, SameQuality, Measuring, Measured, Expected
  <2>5. \A probes \in Probe : probes < summary.probes =>
          \E j \in DOMAIN tried : /\ tried[j].probes = probes
                                  /\ tried[j].answers \notin Sufficient
    BY <2>1, <2>2, <2>3
  <2>6. QED
    BY <2>1, <2>2, <2>3, <2>4, <2>5 DEF Expected
<1>2. IInv => LayersHaveEqualQuality
  BY <1>1 DEF LayersHaveEqualQuality
<1>3. QED
  BY <1>2, Invariant, PTL

(* A report is ok exactly when the snapshot was measured, and what it says *)
(* of the budgets is what the shells really retain.                        *)
THEOREM ReportedBudgetsAreReal == Spec => []BudgetsAreReal
<1>1. ASSUME IInv, Summarized
      PROVE  /\ (summary.status = "ok") = ("sql-snapshot" \in Measured)
             /\ "sql-snapshot" \in Measured \/ (oversized /\ candidate = "none")
             /\ Layers[6] \in Measured =>
                  holds[Shell("sql-snapshot")] /\ Retained("sql-snapshot")
             /\ holds["default"] = ~oversized
  <2>1. /\ at = "done" /\ summary.modes = modes /\ summary.status = Status
        /\ "sql-snapshot" \in DOMAIN modes
    BY <1>1, SummaryOfAll
  <2>2. "sql-snapshot" \in Measured <=> modes["sql-snapshot"] # None
    BY <2>1 DEF Measured
  <2>3. summary.status = "ok" <=> modes["sql-snapshot"] # None
    BY <2>1 DEF Status
  <2>4. modes["sql-snapshot"] = None => oversized /\ candidate = "none"
    <3>1. ASSUME modes["sql-snapshot"] = None PROVE control /\ candidate = "none"
      <4>1. Expected # None
        BY <1>1, <2>1, SiftParameters, NoneIsNoAnswer DEF IInv, Ascending, Measuring
      <4>2. QED
        BY <1>1, <2>1, <3>1, <4>1 DEF IInv, SameQuality, Measuring
    <3>2. QED
      BY <1>1, <3>1 DEF IInv, Shells
  <2>5. holds["default"] = ~oversized
    BY <1>1, <2>1 DEF IInv, Shells, Measuring
  <2>6. modes["sql-snapshot"] # None =>
          holds[Shell("sql-snapshot")] /\ Retained("sql-snapshot")
    BY <1>1, <2>1 DEF IInv, Shells, Measuring, Confirmed
  <2>7. Layers[6] = "sql-snapshot"
    BY DEF Layers
  <2>8. QED
    BY <2>2, <2>3, <2>4, <2>5, <2>6, <2>7
<1>2. IInv => BudgetsAreReal
  BY <1>1 DEF BudgetsAreReal
<1>3. QED
  BY <1>2, Invariant, PTL

(* All workers of a report opened the fixture that it identifies.          *)
THEOREM ReportReadsOneFixture == Spec => []ReportIsOfOneFixture
<1>1. ASSUME IInv, Summarized
      PROVE  read = {[index |-> summary.index, base |-> "original"]}
  <2>1. at = "done" /\ summary.index = recorded.index
    BY <1>1, SummaryOfAll
  <2>2. recorded \in Fixtures /\ recorded.base = "original" /\ read = {recorded}
    BY <1>1, <2>1 DEF IInv, OneFixture, TypeOK, FixtureTypes
  <2>3. recorded = [index |-> recorded.index, base |-> "original"]
    BY <2>2 DEF Fixtures
  <2>4. QED
    BY <2>1, <2>2, <2>3
<1>2. IInv => ReportIsOfOneFixture
  BY <1>1 DEF ReportIsOfOneFixture
<1>3. QED
  BY <1>2, Invariant, PTL
=============================================================================
