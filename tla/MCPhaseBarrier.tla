---------------------------- MODULE MCPhaseBarrier ----------------------------
(***************************************************************************)
(* PhaseBarrier for TLC: the real worker with one warm-up and one measured *)
(* round, and workers that deviate from it the way run_constrained has to  *)
(* notice.                                                                 *)
(***************************************************************************)
EXTENDS PhaseBarrier, PhasePlan

CONSTANTS w, child, outsider   \* processes: the worker, one it forks, another unit's

MCProcess   == {w, child, outsider}
MCConfined  == {w, child}
MCExpected  == phases(1, 1)
MCPhase     == PhaseNames(3)
MCIntervals == phase_deltas(1, 1)

Real == capi_main(1, 1, 1, w)

(* The step of Real that announces the k-th expected phase.                *)
AnnounceOf(k) ==
  CHOOSE i \in DOMAIN Real : Real[i].kind = "phase" /\ Real[i].name = MCExpected[k]

Say(k, p) == [kind |-> "phase", name |-> MCExpected[k], by |-> p]

MCPrograms ==
  {Real,
   capi_main(1, 2, 1, w),                                 \* one round too many
   RemoveAt(Real, AnnounceOf(4)),                         \* a phase is missing
   RemoveAt(Real, Len(Real)),                             \* the last one is
   SelectSeq(Real, LAMBDA s : s.kind = "work"),           \* barrier not enabled
   ReplaceAt(Real, AnnounceOf(4), Say(5, w)),             \* reordered
   ReplaceAt(Real, AnnounceOf(7), Say(7, child)),         \* another process
   [i \in DOMAIN Real |-> [Real[i] EXCEPT !.by = outsider]],  \* not in the unit
   Real \o <<[kind |-> "work", by |-> w]>>}               \* teardown work

(* The controller's list and the worker's calls of Phase agree, for every  *)
(* number of rounds and queries the worker accepts (bounded here).         *)
ASSUME ProtocolsAgree ==
  \A warmup \in 1 .. 3, rounds \in 1 .. 3, queries \in 1 .. 3 :
    LET said == SelectSeq(capi_main(warmup, rounds, queries, w),
                          LAMBDA s : s.kind = "phase")
    IN  [i \in DOMAIN said |-> said[i].name] = phases(warmup, rounds)
=============================================================================
