---------------------------- MODULE StagedRelease ----------------------------
(***************************************************************************)
(* What the provider release promises to those who install from PyPI: a    *)
(* version is one set of wheels, all of them were staged and tested as one *)
(* set before the first was promoted, and nothing is ever replaced.        *)
(***************************************************************************)
CONSTANTS
  File,                \* the wheels of one version
  Content,             \* what a set of wheels may have been built from
  Nothing              \* a file that is not there

VARIABLES
  staged,              \* the staging index, per file
  promoted,            \* the production index, per file
  qualified            \* contents that passed every test as a complete set

svars == <<staged, promoted, qualified>>

Init ==
  /\ staged = [f \in File |-> Nothing]
  /\ promoted = [f \in File |-> Nothing]
  /\ qualified = {}

(* A file is staged once.  Nothing forces the files to agree.              *)
Stage ==
  /\ \E f \in File, c \in Content :
       /\ staged[f] = Nothing
       /\ staged' = [staged EXCEPT ![f] = c]
  /\ UNCHANGED <<promoted, qualified>>

(* Only a complete, uniform set can be tested.                             *)
Test ==
  /\ \E c \in Content :
       /\ \A f \in File : staged[f] = c
       /\ qualified' = qualified \cup {c}
  /\ UNCHANGED <<staged, promoted>>

(* What is promoted is the file that was staged and tested.                *)
Promote ==
  /\ \E f \in File :
       /\ promoted[f] = Nothing
       /\ staged[f] \in qualified
       /\ promoted' = [promoted EXCEPT ![f] = staged[f]]
  /\ UNCHANGED <<staged, qualified>>

Next == Stage \/ Test \/ Promote

Spec == Init /\ [][Next]_svars
=============================================================================
