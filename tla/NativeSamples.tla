---------------------------- MODULE NativeSamples ----------------------------
(***************************************************************************)
(* How bench_index_layers.py reads what a native worker measured:          *)
(* parse_native collects the lines of samples.csv by their round and query,*)
(* in any order, and validate_samples compares every sample with the answer*)
(* that SQL gave to its query.  The file may be anything.                  *)
(***************************************************************************)
EXTENDS Naturals, Sequences, FiniteSets, Bags

CONSTANTS
  Queries, Warmup, Rounds,
  K,               \* hits per query
  Row,             \* what a hit may say: the id of a row and its distance
  Expected,        \* of every query, the answer of SQL
  Line             \* what the file may consist of

(* A line; a latency of 0 stands for every one that is not positive.       *)
LifecycleLine == [event : {"open", "close"}]
HitLine == [event : {"sample"}, round : 0 .. Warmup + Rounds, query : 0 .. Queries,
            rank : 0 .. K, row : Row, latency : {0, 1}]

Parameters ==
  /\ {Queries, Rounds, K} \subseteq Nat \ {0} /\ Warmup \in Nat
  /\ Expected \in [0 .. Queries - 1 -> [1 .. K -> Row]]
  /\ Line \subseteq LifecycleLine \cup HitLine

VARIABLES
  lines,           \* the bag of lines read so far
  collected,       \* by round and query: latency, and hits by rank
  marks,           \* lifecycle events read
  result           \* "reading", "accepted", "rejected"

vars == <<lines, collected, marks, result>>

Init ==
  /\ lines = EmptyBag /\ collected = <<>> /\ marks = {}
  /\ result = "reading"
-----------------------------------------------------------------------------
Key(l) == <<l.round, l.query>>

(* dict[key] = value                                                       *)
With(dict, key, value) ==
  [k \in DOMAIN dict \cup {key} |-> IF k = key THEN value ELSE dict[k]]

InRange(l) ==
  l.round < Warmup + Rounds /\ l.query < Queries /\ l.rank < K

(* Mutant: the timings of a sample are not compared.                       *)
Fits_untimed(l) ==
  Key(l) \in DOMAIN collected => l.rank \notin DOMAIN collected[Key(l)].hits

(* Another rank of the same sample, with the same timing.                  *)
Fits(l) ==
  Key(l) \in DOMAIN collected =>
    /\ l.rank \notin DOMAIN collected[Key(l)].hits
    /\ collected[Key(l)].latency = l.latency

Takes(l) ==
  IF l.event # "sample" THEN l.event \notin marks ELSE InRange(l) /\ Fits(l)

Mark(l) ==
  /\ l.event # "sample"
  /\ marks' = marks \cup {l.event}
  /\ UNCHANGED collected

Collect(l) ==
  /\ l.event = "sample"
  /\ LET sample == IF Key(l) \in DOMAIN collected THEN collected[Key(l)]
                   ELSE [latency |-> l.latency, hits |-> <<>>]
     IN  collected' = With(collected, Key(l),
                           [sample EXCEPT !.hits = With(@, l.rank, l.row)])
  /\ UNCHANGED marks

Read(l) ==
  /\ result = "reading" /\ Takes(l)
  /\ lines' = lines (+) SetToBag({l})
  /\ Mark(l) \/ Collect(l)
  /\ UNCHANGED result

Refuse(l) ==
  /\ result = "reading" /\ ~Takes(l)
  /\ result' = "rejected"
  /\ UNCHANGED <<lines, collected, marks>>

(* All samples with all ranks, and both events.                            *)
Parsed ==
  /\ marks = {"open", "close"}
  /\ Cardinality(DOMAIN collected) = (Warmup + Rounds) * Queries
  /\ \A k \in DOMAIN collected : DOMAIN collected[k].hits = 0 .. K - 1

(* validate_samples, with compare_hits: positive timings, SQL's answers.   *)
Validated ==
  \A k \in DOMAIN collected :
    /\ collected[k].latency > 0
    /\ \A r \in 0 .. K - 1 : collected[k].hits[r] = Expected[k[2]][r + 1]

EndOfFile ==
  /\ result = "reading"
  /\ result' = IF Parsed /\ Validated THEN "accepted" ELSE "rejected"
  /\ UNCHANGED <<lines, collected, marks>>

Next == EndOfFile \/ \E l \in Line : Read(l) \/ Refuse(l)
-----------------------------------------------------------------------------
(* What a worker that works has written, in whatever order: every hit of   *)
(* every sample and both events, once.                                     *)
Measurement ==
  SetToBag(LifecycleLine \cup
    {[event |-> "sample", round |-> n, query |-> q, rank |-> r,
      row |-> Expected[q][r + 1], latency |-> 1] :
       n \in 0 .. Warmup + Rounds - 1, q \in 0 .. Queries - 1, r \in 0 .. K - 1})

(* A file is accepted if and only if it is such a measurement: lines that  *)
(* are missing, repeated, foreign or attributed to another sample are      *)
(* refused at the latest at its end, and their order does not matter.      *)
AcceptedIsMeasurement ==
  /\ result = "accepted" => lines = Measurement
  /\ result = "reading" =>
       /\ lines = Measurement => Parsed /\ Validated
       /\ lines \sqsubseteq Measurement =>
            \A l \in DOMAIN Measurement \ DOMAIN lines : Takes(l)
=============================================================================
