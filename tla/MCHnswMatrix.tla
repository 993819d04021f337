----------------------------- MODULE MCHnswMatrix -----------------------------
(***************************************************************************)
(* HnswMatrix for TLC: one input file and one or two answers that a worker *)
(* may give, and one repeat.                                               *)
(***************************************************************************)
EXTENDS HnswMatrix

CONSTANTS graph, right, wrong

OneFile == {graph}
Answers == {right, wrong}
OneAnswer == {right}

Nowhere    == {}
Everywhere == Main \ {"exited", "killed"}

(* Every number of repeats measures the layers in the alternating order.   *)
ASSUME OrderAlternates ==
  \A repeats \in 1 .. 10 :
    [i \in 1 .. Layers * repeats |-> LayerAfter(i - 1)] = Sequence(repeats)
=============================================================================
