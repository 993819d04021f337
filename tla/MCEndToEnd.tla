----------------------------- MODULE MCEndToEnd -----------------------------
(***************************************************************************)
(* EndToEnd for TLC.  Recall is counted in tolerances of 0.002; with a     *)
(* floor of 1, the pairs of recalls fall below it, agree, lie within the   *)
(* tolerance, and beyond it either way.                                    *)
(***************************************************************************)
EXTENDS EndToEnd

MCRecall    == {0, 1, 2, 3}
MCTolerance == {1}
MCProbe     == {256, 320}
=============================================================================
