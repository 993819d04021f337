---------------------------- MODULE CacheCounters ----------------------------
(***************************************************************************)
(* The cache counters of a diagnostic worker, and how the driver reads     *)
(* them (cache_counters in scripts/bench_index_sift_end_to_end.py).        *)
(*                                                                         *)
(* At every phase the worker appends a snapshot of the counters that are   *)
(* registered so far.  They are meant to be cumulative; recorders have     *)
(* exported interval counts (those since the last snapshot) instead, and   *)
(* have lost their counters on close.                                      *)
(***************************************************************************)
EXTENDS PhasePlan

CONSTANTS
  Access,          \* counters: outcomes of a data block access
  Warmup, Rounds,  \* rounds of the diagnostic, 1 and 1 in the code
  MaxWork          \* bound: accesses of a kind between two phases

Parameters ==
  {Warmup, MaxWork} \subseteq Nat /\ Rounds \in Nat \ {0}

VARIABLES
  kind,            \* what the recorder exports: "cumulative", "interval"
  total,           \* accesses so far
  inMeasured,      \* accesses in measured rounds so far
  registered,      \* counters that exist
  snapshots        \* lines of metrics.jsonl

vars == <<kind, total, inMeasured, registered, snapshots>>

Zero == [a \in Access |-> 0]
Plus(f, g) == [a \in Access |-> f[a] + g[a]]

Phases == phases(Warmup, Rounds)
Written == Len(snapshots) = Len(Phases)

Init ==
  /\ kind \in {"cumulative", "interval"}
  /\ total = Zero /\ inMeasured = Zero
  /\ registered = {} /\ snapshots = <<>>

(* The work before phase i is that of a measured round.                    *)
InMeasuredRound(i) ==
  \E r \in Warmup .. Warmup + Rounds - 1 : \E b, a \in DOMAIN Phases :
    /\ Phases[b] = BeforeRound(r) /\ Phases[a] = AfterRound(r)
    /\ b < i /\ i <= a

(* The worker accesses blocks, which registers the counters concerned; it  *)
(* may register others; then it appends the snapshot of the next phase.    *)
Snapshot ==
  /\ ~Written
  /\ \E work \in [Access -> 0 .. MaxWork], more \in SUBSET Access, lost \in BOOLEAN :
       LET next  == Len(snapshots) + 1
           known == registered \cup more \cup {a \in Access : work[a] > 0}
           value == IF kind = "cumulative" THEN Plus(total, work) ELSE work
       IN  /\ lost => next = Len(Phases)
           /\ total' = Plus(total, work)
           /\ inMeasured' = IF InMeasuredRound(next) THEN Plus(inMeasured, work)
                                                     ELSE inMeasured
           /\ registered' = known
           /\ snapshots' = Append(snapshots,
                [phase |-> Phases[next],
                 counters |-> [a \in IF lost THEN {} ELSE known |-> value[a]]])
  /\ UNCHANGED kind
-----------------------------------------------------------------------------
(* A counter once registered stays and never decreases, from each snapshot *)
(* to the next.                                                            *)
Continuous(lines) ==
  \A i \in 1 .. Len(lines) - 1 :
    LET previous == lines[i].counters
        current  == lines[i + 1].counters
    IN  \A key \in DOMAIN previous :
          key \in DOMAIN current /\ previous[key] <= current[key]

Count(counters, key) == IF key \in DOMAIN counters THEN counters[key] ELSE 0

RoundDelta(lines, r) ==
  LET At(name) == lines[CHOOSE i \in DOMAIN lines : lines[i].phase = name].counters
      before   == At(BeforeRound(r))
      after    == At(AfterRound(r))
  IN  [key \in DOMAIN after |-> after[key] - Count(before, key)]

Add(f, g) == [key \in DOMAIN f \cup DOMAIN g |-> Count(f, key) + Count(g, key)]

(* Mutant: the warmup counts.                                              *)
MeasuredRounds_all == [k \in 1 .. Warmup + Rounds |-> k - 1]

MeasuredRounds == [k \in 1 .. Rounds |-> Warmup + k - 1]

(* What has been added up after so many of the measured rounds.            *)
Sums(lines) ==
  LET sum[k \in 0 .. Len(MeasuredRounds)] ==
        IF k = 0 THEN <<>>
        ELSE Add(sum[k - 1], RoundDelta(lines, MeasuredRounds[k]))
  IN  sum

Measured(lines) == Sums(lines)[Len(MeasuredRounds)]

(* cache_counters: the file is refused, or these are the measured counts.  *)
Accepted(lines) ==
  /\ [i \in DOMAIN lines |-> lines[i].phase] = Phases
  /\ Continuous(lines)
  /\ DOMAIN Measured(lines) # {}
-----------------------------------------------------------------------------
(* A file of cumulative counters, kept to the end, is accepted whenever a  *)
(* counter was registered by the end of the last round, however late, and  *)
(* then what it reports as measured is what was accessed in the measured   *)
(* rounds.  (Interval counts are refused when one of them decreases, and   *)
(* not otherwise: the recorder must not export them.)                      *)
CountersAreExact ==
  Written /\ kind = "cumulative" =>
    LET kept  == \A a \in registered : a \in DOMAIN snapshots[Len(Phases)].counters
        shown == DOMAIN snapshots[Len(Phases) - 1].counters
    IN  /\ Accepted(snapshots) <=> kept /\ shown # {}
        /\ Accepted(snapshots) =>
             Measured(snapshots) = [a \in shown |-> inMeasured[a]]
=============================================================================
