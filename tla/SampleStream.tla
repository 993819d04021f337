----------------------------- MODULE SampleStream -----------------------------
(***************************************************************************)
(* How the driver reads what a C API worker measured.                      *)
(*                                                                         *)
(* parse_capi (scripts/bench_index_sift_end_to_end.py) turns the lines of  *)
(* samples.csv, one per hit, into samples, and summarize_records judges    *)
(* each sample as it is yielded.  Every caller of parse_capi passes the    *)
(* answers that are expected.  The file may be anything: a worker that     *)
(* died, that repeats or skips a query, or that answers differently from   *)
(* one round to the next or from what is expected.  An accepted file is a  *)
(* complete measurement.                                                   *)
(***************************************************************************)
EXTENDS Naturals, Sequences, FiniteSets, SequencesExt

CONSTANTS
  Queries,         \* number of queries
  Warmup, Rounds,  \* rounds of each kind
  K,               \* hits per query
  Lifecycle,       \* lifecycle events: open, prepare and close
  Row,             \* what a hit may say: the id of a row and its distance
  Id,              \* the id in it
  Distance,        \* the distance in it, by query
  Expected,        \* of every query, the answer of the other layers
  Line             \* what the file may consist of

(* A line.  A latency of 0 stands for every one that is not positive, and  *)
(* exact says that the vector is the row's and the distance is right.      *)
LifecycleLine == [event : Lifecycle]
HitLine == [event : {"sample"}, round : 0 .. Warmup + Rounds,
            query : 0 .. Queries - 1, warmup : BOOLEAN, latency : {0, 1},
            rank : 0 .. K, row : Row, exact : BOOLEAN]

Parameters ==
  /\ {Queries, Rounds, K} \subseteq Nat \ {0} /\ Warmup \in Nat
  /\ IsFiniteSet(Lifecycle) /\ "sample" \notin Lifecycle
  /\ Id \in [Row -> Nat]
  /\ Distance \in [0 .. Queries - 1 -> [Row -> Nat]]
  /\ Expected \in [0 .. Queries - 1 -> [1 .. K -> Row]]
  /\ Line \subseteq LifecycleLine \cup HitLine

VARIABLES
  hits,            \* the hit lines read so far
  events,          \* the events of the lifecycle lines read so far
  current,         \* the sample being collected, << >> or << sample >>
  lifecycle,       \* the lifecycle events read
  samples,         \* samples judged
  first,           \* the answers of the first round: one per query
  verdict          \* "reading", "accepted", "rejected"

vars == <<hits, events, current, lifecycle, samples, first, verdict>>

Init ==
  /\ hits = <<>> /\ events = <<>> /\ current = <<>> /\ lifecycle = {}
  /\ samples = 0 /\ first = <<>>
  /\ verdict = "reading"
-----------------------------------------------------------------------------
(***************************************************************************)
(* The judgement of one sample.                                            *)
(***************************************************************************)
(* Mutant: one warmup round too many.                                      *)
InSequence_late(s) ==
  /\ s.round = samples \div Queries
  /\ s.query = samples % Queries
  /\ s.warmup = (s.round <= Warmup)

(* The next sample in the only order there is, and its warmup marker.      *)
InSequence(s) ==
  /\ s.round = samples \div Queries
  /\ s.query = samples % Queries
  /\ s.warmup = (s.round < Warmup)

(* k hits, of distinct rows with their own vectors, by increasing distance.*)
ValidHits(s) ==
  /\ Len(s.hits) = K
  /\ Cardinality({Id[s.hits[i]] : i \in DOMAIN s.hits}) = K
  /\ s.exact
  /\ \A i \in 1 .. K - 1 :
       Distance[s.query][s.hits[i]] <= Distance[s.query][s.hits[i + 1]]

(* The same hits as in the first round.                                    *)
Repeated(s) == s.query < Len(first) => s.hits = first[s.query + 1]

(* Mutant: the rounds agree with each other, that is enough.               *)
AsExpected_repeated(s) == Repeated(s)

(* The hits that are expected.                                             *)
AsExpected(s) == s.hits = Expected[s.query]

Qualifies(s) ==
  /\ InSequence(s) /\ s.latency > 0 /\ ValidHits(s)
  /\ Repeated(s) /\ AsExpected(s)

(* The pending sample, if any, is judged before the next one begins.       *)
Judged == \A i \in DOMAIN current : Qualifies(current[i])

Count ==
  /\ samples' = samples + Len(current)
  /\ first' = IF current # <<>> /\ samples < Queries
              THEN Append(first, current[1].hits) ELSE first
-----------------------------------------------------------------------------
(***************************************************************************)
(* The reader.                                                             *)
(***************************************************************************)
(* The line belongs to the sample being collected.                         *)
Belongs(l) ==
  current # <<>> /\ l.round = current[1].round /\ l.query = current[1].query

Fits(l) ==
  /\ l.rank = Len(current[1].hits)
  /\ l.latency = current[1].latency
  /\ l.warmup = current[1].warmup

(* The line is accepted in this state.                                     *)
Takes(l) ==
  IF l.event # "sample" THEN l.event \notin lifecycle
  ELSE IF Belongs(l) THEN Fits(l)
  ELSE Judged /\ l.rank = 0

(* A lifecycle line does not end the sample it interrupts.                 *)
ReadLifecycle(l) ==
  /\ l.event # "sample"
  /\ lifecycle' = lifecycle \cup {l.event} /\ events' = Append(events, l.event)
  /\ UNCHANGED <<hits, current, samples, first>>

ContinueSample(l) ==
  /\ l.event = "sample" /\ Belongs(l)
  /\ current' = <<[current[1] EXCEPT !.hits = Append(@, l.row),
                                     !.exact = @ /\ l.exact]>>
  /\ hits' = Append(hits, l)
  /\ UNCHANGED <<events, lifecycle, samples, first>>

BeginSample(l) ==
  /\ l.event = "sample" /\ ~Belongs(l)
  /\ Count
  /\ current' = <<[round |-> l.round, query |-> l.query, warmup |-> l.warmup,
                   latency |-> l.latency, hits |-> <<l.row>>, exact |-> l.exact]>>
  /\ hits' = Append(hits, l)
  /\ UNCHANGED <<events, lifecycle>>

Read(l) ==
  /\ verdict = "reading"
  /\ Takes(l)
  /\ ReadLifecycle(l) \/ ContinueSample(l) \/ BeginSample(l)
  /\ UNCHANGED verdict

Refuse(l) ==
  /\ verdict = "reading"
  /\ ~Takes(l)
  /\ verdict' = "rejected"
  /\ UNCHANGED <<hits, events, current, lifecycle, samples, first>>

(* The end of the file: what is pending is judged, all must be there.      *)
Complete ==
  /\ Judged
  /\ lifecycle = Lifecycle
  /\ samples + Len(current) = Queries * (Warmup + Rounds)

EndOfFile ==
  /\ verdict = "reading"
  /\ verdict' = IF Complete THEN "accepted" ELSE "rejected"
  /\ IF Judged THEN Count /\ current' = <<>> ELSE UNCHANGED <<current, samples, first>>
  /\ UNCHANGED <<hits, events, lifecycle>>

Next == EndOfFile \/ \E l \in Line : Read(l) \/ Refuse(l)

Spec == Init /\ [][Next]_vars
-----------------------------------------------------------------------------
(***************************************************************************)
(* Properties.                                                             *)
(***************************************************************************)
Total == Queries * (Warmup + Rounds)

(* What a worker that measures as main() of bench_index_sift_capi.cpp does *)
(* has written when it has got so far, hit by hit: the expected answers, if*)
(* they are answers.                                                       *)
Position(i) == (i - 1) \div K                \* index of the sample of hit i

MeasuredHits(h) ==
  /\ Len(h) <= Total * K
  /\ \A i \in DOMAIN h :
       /\ h[i].round = Position(i) \div Queries
       /\ h[i].query = Position(i) % Queries
       /\ h[i].rank = (i - 1) % K
       /\ h[i].warmup = (h[i].round < Warmup)
       /\ h[i].latency > 0 /\ h[i].exact
       /\ h[i].row = Expected[h[i].query][h[i].rank + 1]
  /\ \A i, j \in DOMAIN h : i < j /\ Position(i) = Position(j) =>
       /\ h[i].latency = h[j].latency
       /\ Id[h[i].row] # Id[h[j].row]
       /\ Distance[h[i].query][h[i].row] <= Distance[h[j].query][h[j].row]

Measured(h, e) == MeasuredHits(h) /\ IsInjective(e)

(* An accepted file holds every sample of every round once, in order, with *)
(* the k right answers that are expected, and every lifecycle event.       *)
AcceptedIsComplete ==
  verdict = "accepted" =>
    /\ Measured(hits, events)
    /\ Len(hits) = Total * K /\ Len(events) = Cardinality(Lifecycle)

(* Nothing else is rejected: not a line as long as the file with it is the *)
(* beginning of a measurement, and not the end of a measurement.           *)
RejectedIsDeviating ==
  verdict = "reading" =>
    /\ \A l \in Line :
         (IF l.event = "sample" THEN Measured(Append(hits, l), events)
                                ELSE Measured(hits, Append(events, l.event))) => Takes(l)
    /\ /\ Measured(hits, events)
       /\ Len(hits) = Total * K /\ Len(events) = Cardinality(Lifecycle)
       => Complete
=============================================================================
