--------------------------- MODULE ProviderRelease ---------------------------
(***************************************************************************)
(* The publishing part of .github/workflows/VaneExtension.yml.             *)
(*                                                                         *)
(* A dispatched run is a chain of jobs on fresh machines.  They share      *)
(* nothing but artifacts, named by the immutable identifier their producer *)
(* reported, and the two package indexes, which keep what they were given  *)
(* for ever.  Jobs fail at any point; operators cancel runs, re-run failed *)
(* jobs, or re-run one job with everything that depends on it; several     *)
(* runs for one version may exist, and the concurrency group lets one of   *)
(* them go at a time.                                                      *)
(***************************************************************************)
EXTENDS Naturals, FiniteSets

CONSTANTS
  Run,             \* dispatched runs of the workflow
  Scenarios,       \* what the runs may be dispatched for, and how operators
                   \*   may re-run them
  Runtime,         \* interpreters: a version has one wheel for each
  SmokeRuntime,    \* the one whose wheel the installed tests download
  Payload,         \* native code a build may produce (builds may differ)
  None             \* an artifact or a file that does not exist

Channel == {"testpypi-dev", "release"}   \* each has versions of its own
Policy  == {"any", "failed jobs", "revalidated"}

ASSUME Dispatches ==
  /\ Scenarios \subseteq [operation : [Run -> Channel], policy : Policy]
  /\ SmokeRuntime \in Runtime
  /\ None \notin Payload

Job == {"preflight", "prepare", "sign", "package", "assemble",
        "publish_testpypi", "verify_testpypi", "smoke", "ray",
        "promotion", "publish_pypi", "verify_pypi"}

Index == {"testpypi", "pypi"}

(* A signed artifact.  Packaging adds nothing of its own, so a wheel is    *)
(* identified by what is in it and by the interpreter in its name.         *)
Signed == [payload : Payload, profile : {"testpypi", "production"}]

ASSUME NoneIsNoArtifact == None \notin Signed

VARIABLES
  operation,       \* the operation of every run
  policy,          \* what operators re-run
  phase,           \* of every run: "none", "queued", "active", "done"
  job,             \* status of the jobs of every run
  artifact,        \* artifacts that the job outputs of every run name
  index,           \* the two indexes: per channel and runtime, a wheel
  passed           \* installed tests that passed, with what they tested

vars == <<operation, policy, phase, job, artifact, index, passed>>

Unbuilt == [unsigned |-> None, signed |-> None, wheels |-> None,
            distributions |-> None]

Init ==
  /\ \E s \in Scenarios : operation = s.operation /\ policy = s.policy
  /\ phase = [r \in Run |-> "none"]
  /\ job = [r \in Run |-> [j \in Job |-> "waiting"]]
  /\ artifact = [r \in Run |-> Unbuilt]
  /\ index = [i \in Index |-> [c \in Channel |-> [f \in Runtime |-> None]]]
  /\ passed = {}
-----------------------------------------------------------------------------
(***************************************************************************)
(* Jobs.                                                                   *)
(***************************************************************************)
(* Direct dependencies.                                                    *)
Needs(j) ==
  CASE j = "preflight"        -> {}
    [] j = "prepare"          -> {"preflight"}
    [] j = "sign"             -> {"prepare"}
    [] j = "package"          -> {"preflight", "prepare", "sign"}
    [] j = "assemble"         -> {"package"}
    [] j = "publish_testpypi" -> {"assemble"}
    [] j = "verify_testpypi"  -> {"assemble", "publish_testpypi"}
    [] j \in {"smoke", "ray"} -> {"assemble", "verify_testpypi"}
    [] j = "promotion"        -> {"assemble", "smoke", "ray"}
    [] j = "publish_pypi"     -> {"assemble", "promotion"}
    [] j = "verify_pypi"      -> {"assemble", "publish_pypi"}

(* Mutant: the promotion waits for one of the two installed tests.         *)
needs_one_test == [j \in Job |-> Needs(j) \ {"ray"}]

needs == [j \in Job |-> Needs(j)]

(* The last three jobs have the condition operation == 'release'.          *)
InScope(r, j) ==
  j \in {"promotion", "publish_pypi", "verify_pypi"} => operation[r] = "release"

Ready(r, j) ==
  /\ phase[r] = "active"
  /\ InScope(r, j)
  /\ job[r][j] = "waiting"
  /\ \A k \in needs[j] : job[r][k] = "ok"

Becomes(r, j, status) == job' = [job EXCEPT ![r][j] = status]

Output(r, name, value) ==
  artifact' = [artifact EXCEPT ![r] = [@ EXCEPT ![name] = value]]

Profile(r) == IF operation[r] = "release" THEN "production" ELSE "testpypi"

(* The wheels of the version that run r publishes, on index i.             *)
Files(i, r) == index[i][operation[r]]

(* The release validator: whatever the index has under these names is      *)
(* byte for byte what we are about to publish, and it has nothing else.    *)
Publishable(i, r, wheels) == \A f \in Runtime : Files(i, r)[f] \in {None, wheels}

(* Mutant: the names are compared, not the digests.                        *)
Indexed_names(i, r, wheels) == \A f \in Runtime : Files(i, r)[f] # None

(* verify-index: the index has exactly the files of the artifact.          *)
Indexed(i, r, wheels) == \A f \in Runtime : Files(i, r)[f] = wheels

Preflight(r) ==
  /\ Ready(r, "preflight")
  /\ Becomes(r, "preflight", "ok")
  /\ UNCHANGED <<operation, policy, phase, artifact, index, passed>>

(* A native build: nothing promises that two of them are identical.        *)
Prepare(r) ==
  /\ Ready(r, "prepare")
  /\ \E p \in Payload : Output(r, "unsigned", p)
  /\ Becomes(r, "prepare", "ok")
  /\ UNCHANGED <<operation, policy, phase, index, passed>>

(* The signer fills the signature slot of the bundle it downloads.         *)
Sign(r) ==
  /\ Ready(r, "sign")
  /\ Output(r, "signed",
            [payload |-> artifact[r].unsigned, profile |-> Profile(r)])
  /\ Becomes(r, "sign", "ok")
  /\ UNCHANGED <<operation, policy, phase, index, passed>>

MayPublish(r, wheels) ==
  /\ Publishable("testpypi", r, wheels)
  /\ operation[r] = "release" => Publishable("pypi", r, wheels)

(* Packaging compares the signed payload with the original unsigned one,   *)
(* builds every wheel, and validates the complete set.                     *)
Package(r) ==
  /\ Ready(r, "package")
  /\ artifact[r].signed.payload = artifact[r].unsigned
  /\ MayPublish(r, artifact[r].signed)
  /\ Output(r, "wheels", artifact[r].signed)
  /\ Becomes(r, "package", "ok")
  /\ UNCHANGED <<operation, policy, phase, index, passed>>

Assemble(r) ==
  /\ Ready(r, "assemble")
  /\ MayPublish(r, artifact[r].wheels)
  /\ Output(r, "distributions", artifact[r].wheels)
  /\ Becomes(r, "assemble", "ok")
  /\ UNCHANGED <<operation, policy, phase, index, passed>>

PublishJob(i) == IF i = "testpypi" THEN "publish_testpypi" ELSE "publish_pypi"

(* Publishing uploads one wheel after the other and, with skip-existing,   *)
(* passes over every name the index already has.                           *)
StartPublish(r, i) ==
  /\ Ready(r, PublishJob(i))
  /\ Becomes(r, PublishJob(i), "running")
  /\ UNCHANGED <<operation, policy, phase, artifact, index, passed>>

(* Mutant: the wheels are built again to be published.                     *)
UploadWheel_rebuilt(r, i) ==
  /\ job[r][PublishJob(i)] = "running"
  /\ \E f \in Runtime, p \in Payload :
       /\ Files(i, r)[f] = None
       /\ index' = [index EXCEPT ![i][operation[r]][f] =
                                    [payload |-> p, profile |-> Profile(r)]]
  /\ UNCHANGED <<operation, policy, phase, job, artifact, passed>>

UploadWheel(r, i) ==
  /\ job[r][PublishJob(i)] = "running"
  /\ \E f \in Runtime :
       /\ Files(i, r)[f] = None
       /\ index' = [index EXCEPT ![i][operation[r]][f] =
                                    artifact[r].distributions]
  /\ UNCHANGED <<operation, policy, phase, job, artifact, passed>>

FinishPublish(r, i) ==
  /\ job[r][PublishJob(i)] = "running"
  /\ \A f \in Runtime : Files(i, r)[f] # None
  /\ Becomes(r, PublishJob(i), "ok")
  /\ UNCHANGED <<operation, policy, phase, artifact, index, passed>>

VerifyTestpypi(r) ==
  /\ Ready(r, "verify_testpypi")
  /\ Indexed("testpypi", r, artifact[r].distributions)
  /\ Becomes(r, "verify_testpypi", "ok")
  /\ UNCHANGED <<operation, policy, phase, artifact, index, passed>>

(* Default Ray, and Ray with two workers: download by version, compare     *)
(* with the artifact, install and run.                                     *)
InstalledTest(r, j) ==
  /\ Ready(r, j)
  /\ Files("testpypi", r)[SmokeRuntime] = artifact[r].distributions
  /\ passed' = passed \cup {<<j, artifact[r].distributions>>}
  /\ Becomes(r, j, "ok")
  /\ UNCHANGED <<operation, policy, phase, artifact, index>>

(* verify-promotion: the complete staged set is ours, and the production   *)
(* index has nothing that conflicts with it.                               *)
MayPromote(r, wheels) ==
  Indexed("testpypi", r, wheels) /\ Publishable("pypi", r, wheels)

Promotion(r) ==
  /\ Ready(r, "promotion")
  /\ MayPromote(r, artifact[r].distributions)
  /\ Becomes(r, "promotion", "ok")
  /\ UNCHANGED <<operation, policy, phase, artifact, index, passed>>

VerifyPypi(r) ==
  /\ Ready(r, "verify_pypi")
  /\ Indexed("pypi", r, artifact[r].distributions)
  /\ Becomes(r, "verify_pypi", "ok")
  /\ UNCHANGED <<operation, policy, phase, artifact, index, passed>>

(* A check that does not hold, an expired artifact, a rejected approval, a *)
(* timeout, a lost machine: a job fails before it starts or half way.      *)
JobFails(r, j) ==
  /\ \/ Ready(r, j)
     \/ phase[r] = "active" /\ job[r][j] = "running"
  /\ Becomes(r, j, "failed")
  /\ UNCHANGED <<operation, policy, phase, artifact, index, passed>>
-----------------------------------------------------------------------------
(***************************************************************************)
(* Runs.                                                                   *)
(***************************************************************************)
Group(r) == {s \in Run : operation[s] = operation[r]}

(* A run waits for its concurrency group; a newer one replaces it there.   *)
Enqueue(r) ==
  [s \in Run |-> CASE s = r -> "queued"
                   [] s # r /\ s \in Group(r) /\ phase[s] = "queued" -> "done"
                   [] OTHER -> phase[s]]

Dispatch(r) ==
  /\ phase[r] = "none"
  /\ phase' = Enqueue(r)
  /\ UNCHANGED <<operation, policy, job, artifact, index, passed>>

(* Mutant: the concurrency group is missing.                               *)
Start_unserialised(r) ==
  /\ phase[r] = "queued"
  /\ phase' = [phase EXCEPT ![r] = "active"]
  /\ UNCHANGED <<operation, policy, job, artifact, index, passed>>

(* cancel-in-progress is false for both publishing operations.             *)
Start(r) ==
  /\ phase[r] = "queued"
  /\ \A s \in Group(r) : phase[s] # "active"
  /\ phase' = [phase EXCEPT ![r] = "active"]
  /\ UNCHANGED <<operation, policy, job, artifact, index, passed>>

(* A run ends when nothing is left to do, and at any time by cancellation. *)
End(r) ==
  /\ phase[r] = "active"
  /\ phase' = [phase EXCEPT ![r] = "done"]
  /\ job' = [job EXCEPT ![r] = [j \in Job |->
               IF @[j] = "running" THEN "failed" ELSE @[j]]]
  /\ UNCHANGED <<operation, policy, artifact, index, passed>>

Again(r, jobs) ==
  /\ phase[r] = "done"
  /\ phase' = Enqueue(r)
  /\ job' = [job EXCEPT ![r] = [j \in Job |->
               IF j \in jobs THEN "waiting" ELSE @[j]]]
  /\ UNCHANGED <<operation, policy, artifact, index, passed>>

(* "Re-run failed jobs": the outputs of the others are kept.               *)
RerunFailed(r) ==
  /\ \E j \in Job : InScope(r, j) /\ job[r][j] # "ok"
  /\ Again(r, {j \in Job : job[r][j] = "failed"})

(* Mutants: the job alone; all jobs, as if it depended on nothing.         *)
Downstream_itself(j) == {j}
Downstream_all(j)    == Job

(* A job and what needs it, directly or not.  The dependencies form a      *)
(* chain, but for the two installed tests.                                 *)
Level ==
  [j \in Job |->
     CASE j = "preflight" -> 0 [] j = "prepare" -> 1 [] j = "sign" -> 2
       [] j = "package" -> 3 [] j = "assemble" -> 4
       [] j = "publish_testpypi" -> 5 [] j = "verify_testpypi" -> 6
       [] j \in {"smoke", "ray"} -> 7 [] j = "promotion" -> 8
       [] j = "publish_pypi" -> 9 [] j = "verify_pypi" -> 10]

Downstream(j) == {j} \cup {k \in Job : Level[k] > Level[j]}

(* "Re-run job", or all jobs (from the first): it runs again with          *)
(* everything downstream of it.                                            *)
RerunJob(r, j) ==
  /\ job[r][j] \in {"ok", "failed"}
  /\ Again(r, Downstream(j))

JobStep(r) ==
  \/ Preflight(r) \/ Prepare(r) \/ Sign(r) \/ Package(r) \/ Assemble(r)
  \/ \E i \in Index : StartPublish(r, i) \/ UploadWheel(r, i) \/ FinishPublish(r, i)
  \/ VerifyTestpypi(r) \/ Promotion(r) \/ VerifyPypi(r)
  \/ \E j \in {"smoke", "ray"} : InstalledTest(r, j)
  \/ \E j \in Job : JobFails(r, j)

(* From a failed job, but never from a later one than assemble, which      *)
(* validates the complete set.                                             *)
Revalidate(r) ==
  \E j \in Job :
    /\ j = "assemble" \/ (job[r][j] = "failed" /\ Level[j] < Level["assemble"])
    /\ RerunJob(r, j)

(* Any job; only ever the failed ones; or with the validation before them. *)
Rerun(r) ==
  \/ policy = "any" /\ \E j \in Job : RerunJob(r, j)
  \/ policy # "revalidated" /\ RerunFailed(r)
  \/ policy = "revalidated" /\ Revalidate(r)

Next ==
  \E r \in Run : JobStep(r) \/ Dispatch(r) \/ Start(r) \/ End(r) \/ Rerun(r)

Spec == Init /\ [][Next]_vars
-----------------------------------------------------------------------------
(***************************************************************************)
(* Properties.                                                             *)
(***************************************************************************)
Present(i, c) == {index[i][c][f] : f \in Runtime} \ {None}

(* Whoever installs a version from PyPI gets wheels of one single build,   *)
(* whatever was cancelled, re-run or dispatched twice (publish-pypi-vortex *)
(* promotes the original candidate).                                       *)
PypiHoldsOneBuild == \A c \in Channel : Cardinality(Present("pypi", c)) <= 1

(* A run that ended well published exactly its own wheels, all of them, on *)
(* both indexes, and later runs have not changed that.                     *)
SuccessIsComplete ==
  \A r \in Run : job[r]["verify_pypi"] = "ok" =>
    \A i \in Index, f \in Runtime :
      index[i][operation[r]][f] = artifact[r].distributions

(* A job that is done has consumed what its producers' outputs name now:   *)
(* no re-run leaves the signature of an older build behind a newer one.    *)
ArtifactsBelongTogether ==
  \A r \in Run :
    /\ job[r]["sign"] = "ok" => artifact[r].signed.payload = artifact[r].unsigned
    /\ job[r]["package"] = "ok" => artifact[r].wheels = artifact[r].signed
    /\ job[r]["assemble"] = "ok" => artifact[r].distributions = artifact[r].wheels

(* The pipeline implements the staged release of the production versions.  *)
Staging == INSTANCE StagedRelease WITH
             File <- Runtime,
             Content <- Signed,
             Nothing <- None,
             staged <- index["testpypi"]["release"],
             promoted <- index["pypi"]["release"],
             qualified <- {w \in Signed :
                             /\ w.profile = "production"
                             /\ {<<"smoke", w>>, <<"ray", w>>} \subseteq passed}

ImplementsStagedRelease == Staging!Spec

(* A promotion that stopped half way can be completed: some run still      *)
(* holds the wheels that PyPI has begun to receive, validated or to be     *)
(* validated again, and nothing has to be built.                           *)
PartialPromotionIsRetryable ==
  policy = "revalidated" =>
    \A c \in Channel : Present("pypi", c) # {} =>
      \E r \in Run : /\ operation[r] = c
                     /\ job[r]["package"] = "ok"
                     /\ MayPromote(r, artifact[r].wheels)

(* Nothing is added to a version that already has wheels of another build. *)
AddsIdenticalBytes ==
  \A i \in Index, r \in Run, f \in Runtime :
    index[i][operation[r]][f] # index'[i][operation[r]][f] =>
      Present(i, operation[r]) \subseteq {index'[i][operation[r]][f]}

(* docs/VANE_RELEASE.md: "An existing version/tag can be retried only with *)
(* identical wheel bytes".  True of an operator who has the complete set   *)
(* validated again before anything is uploaded.                            *)
RevalidatedRetriesAreIdentical == [][policy = "revalidated" => AddsIdenticalBytes]_vars

(* The same, of all operators: the statement as the document makes it.     *)
RetriedOnlyWithIdenticalBytes == [][AddsIdenticalBytes]_vars
=============================================================================
