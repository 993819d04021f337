------------------------------ MODULE PhasePlan ------------------------------
(***************************************************************************)
(* The two independent descriptions of the phase protocol: the sequence    *)
(* the Python controller expects (bench_index_resources.phases) and the    *)
(* one the C++ worker produces (bench_index_sift_capi main).  A phase name *)
(* is a pair of its fixed part and the round in it.                        *)
(***************************************************************************)
EXTENDS Naturals, Sequences, SequencesExt

BeforeRound(r) == <<"before_round", r>>
AfterRound(r)  == <<"after_round", r>>
BeforeOpen     == <<"before_open", 0>>
Ready          == <<"ready", 0>>
BeforeFirst    == <<"before_first_search", 0>>
AfterFirst     == <<"after_first_search", 0>>
AfterClose     == <<"after_close", 0>>

PhaseNames(n) ==
  {BeforeOpen, Ready, BeforeFirst, AfterFirst, AfterClose}
    \cup {BeforeRound(r) : r \in 0 .. n - 1} \cup {AfterRound(r) : r \in 0 .. n - 1}

(* phases: what the controller expects.  There is at least one round, and  *)
(* the first is interrupted for the first search.                          *)
phases(warmup, rounds) ==
  <<BeforeOpen, Ready, BeforeRound(0), BeforeFirst, AfterFirst, AfterRound(0)>>
  \o [i \in 1 .. 2 * (warmup + rounds - 1) |->
       IF i % 2 = 1 THEN BeforeRound((i + 1) \div 2) ELSE AfterRound(i \div 2)]
  \o <<AfterClose>>

(* main of the C API worker: every call of Phase, and between them the     *)
(* work it does (open and connect, prepare, bind, search, write, close).   *)
capi_main(warmup, rounds, queries, p) ==
  LET Say(name)   == [kind |-> "phase", name |-> name, by |-> p]
      Do          == [kind |-> "work", by |-> p]
      First(r, q) == r = 0 /\ q = 0
      Query(r, q) == <<Do>>                                      \* bind
                     \o (IF First(r, q) THEN <<Say(BeforeFirst)>> ELSE << >>)
                     \o <<Do>>                       \* execute and materialise
                     \o (IF First(r, q) THEN <<Say(AfterFirst)>> ELSE << >>)
      Round(r)    == <<Say(BeforeRound(r))>>
                     \o FlattenSeq([q \in 1 .. queries |-> Query(r, q - 1)])
                     \o <<Do>>                             \* write and flush
                     \o <<Say(AfterRound(r))>>
  IN  <<Say(BeforeOpen), Do, Say(Ready)>>
      \o FlattenSeq([i \in 1 .. warmup + rounds |-> Round(i - 1)])
      \o <<Do, Say(AfterClose)>>

(* phase_deltas: the pairs of snapshots whose counters are subtracted.     *)
phase_deltas(warmup, rounds) ==
  LET P == phases(warmup, rounds)
      IndexOf(name) == CHOOSE i \in DOMAIN P : P[i] = name
  IN  {<<IndexOf(BeforeOpen), IndexOf(Ready)>>,
       <<IndexOf(BeforeFirst), IndexOf(AfterFirst)>>}
      \cup {<<IndexOf(BeforeRound(r)), IndexOf(AfterRound(r))>> :
              r \in 0 .. warmup + rounds - 1}
=============================================================================
