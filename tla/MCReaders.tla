------------------------------ MODULE MCReaders ------------------------------
(***************************************************************************)
(* Constants of Readers for TLC.                                           *)
(*                                                                         *)
(* Samples of two queries with two hits each, one warmup and one measured  *)
(* round.  For the C API, the first query has a tie, so that an answer may *)
(* differ from the expected one without being wrong, and c names the row   *)
(* of a with a distance that differs in its last bit.  A line has at most  *)
(* one fault, and for the native reader, one of query 0 if it is in its    *)
(* answer.                                                                 *)
(* One cache counter (the reader treats every counter for itself), and two *)
(* measured rounds to be summed.                                           *)
(***************************************************************************)
EXTENDS Readers

CONSTANTS a, b, c

MCRow == {a, b, c}

MCId == [r \in MCRow |-> IF r = b THEN 1 ELSE 0]

MCLifecycle == {"close"}       \* the events are interchangeable

AtMostOne(faults) == Cardinality({fault \in faults : fault[2]}) <= 1

MCLine ==
  LifecycleLine \cup
  {l \in HitLine : AtMostOne({<<"warmup", l.warmup # (l.round < Warmup)>>,
                              <<"latency", l.latency = 0>>, <<"exact", ~l.exact>>,
                              <<"distance", l.row = c>>})}

MCDistance == [q \in 0 .. 1 |-> [r \in MCRow |-> IF q = 0 \/ r = b THEN 1 ELSE 2]]

(* By query and rank; lines out of range say b.                            *)
MCAnswer == [q \in 0 .. 2 |-> [r \in 0 .. 2 |-> IF q = r THEN a ELSE b]]
MCExpected == [q \in 0 .. 1 |-> [i \in 1 .. 2 |-> MCAnswer[q][i - 1]]]

MCNativeHit == [event : {"sample"}, round : 0 .. 2, query : 0 .. 2, rank : 0 .. 2,
                latency : {0, 1}, row : {a, b}]

MCNativeLine ==
  [event : {"open", "close"}] \cup
  {l \in MCNativeHit :
     /\ AtMostOne({<<"round", l.round = 2>>, <<"query", l.query = 2>>,
                   <<"rank", l.rank = 2>>, <<"latency", l.latency = 0>>,
                   <<"row", l.row # MCAnswer[l.query][l.rank]>>})
     /\ l.query = 1 => l.latency = 1 /\ l.row = MCAnswer[1][l.rank]}

MCAccess == {"hit"}
=============================================================================
