-------------------------- MODULE MCProviderRelease --------------------------
(***************************************************************************)
(* ProviderRelease for TLC: two runs, two wheels per version, and builds   *)
(* that may or may not be reproducible.                                    *)
(***************************************************************************)
EXTENDS ProviderRelease, TLC

CONSTANTS r1, r2, cp310, cp312, p1, p2

MCRun     == {r1, r2}
MCRuntime == {cp310, cp312}
MCPayload == {p1, p2}

(* Two runs for one version, or one for each channel.                      *)
SameVersion  == [r \in MCRun |-> "release"]
TwoChannels  == [r \in MCRun |-> IF r = r1 THEN "release" ELSE "testpypi-dev"]

Mirrored     == [r \in MCRun |-> IF r = r2 THEN "release" ELSE "testpypi-dev"]

(* Everything that operators may do with one version; and both channels,   *)
(* with operators who validate before they upload.                         *)
MCScenarios ==
  {[operation |-> SameVersion, policy |-> "any"]}
    \cup [operation : {SameVersion, TwoChannels, Mirrored}, policy : {"revalidated"}]

(* Operators who re-run failed jobs, on one version.                       *)
MCFailedJobs == {[operation |-> SameVersion, policy |-> "failed jobs"]}

(* The builds are interchangeable, and so are the two runs.                *)
Symmetry == Permutations(MCPayload) \cup Permutations(MCRun)

(* The levels agree with the dependencies: the jobs of a higher level are  *)
(* those that need this one, directly or not.                              *)
ASSUME LevelsFollowNeeds ==
  LET Above(j) == {k \in Job : Level[k] > Level[j]}
  IN  \A j \in Job :
        Above(j) = UNION {{k} \cup Above(k) : k \in {l \in Job : j \in Needs(l)}}
=============================================================================
