---------------------------- MODULE ArtifactChain ----------------------------
(***************************************************************************)
(* What the jobs that prepare, sign and package the provider promise to    *)
(* the jobs that publish: wheels appear all at once, a complete set for    *)
(* the runtimes, made of the native code that was built and of nothing     *)
(* else; and they do not change unless a job before them is run again.     *)
(***************************************************************************)
EXTENDS Naturals, FiniteSets

CONSTANTS
  Code,                \* native code a build may produce
  Target,              \* the runtimes
  Nothing              \* not built yet

VARIABLES
  code,                \* what was built
  wheels               \* what packaging hands over: by runtime, the code

cvars == <<code, wheels>>

Init == code = Nothing /\ wheels = Nothing

(* The build is over, or is run again: what was made of it is gone.        *)
Build == code' \in Code \cup {Nothing} /\ wheels' = Nothing

Package ==
  /\ code # Nothing
  /\ wheels' = [t \in Target |-> code]
  /\ UNCHANGED code

(* Signing or packaging is run again.                                      *)
Withdraw == wheels' = Nothing /\ UNCHANGED code

Next == Build \/ Package \/ Withdraw

Spec == Init /\ [][Next]_cvars
=============================================================================
