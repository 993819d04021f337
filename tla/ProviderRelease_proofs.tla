----------------------- MODULE ProviderRelease_proofs -----------------------
(***************************************************************************)
(* Proofs about ProviderRelease, for any number of runs, of wheels per     *)
(* version and of builds, and whatever the runs are dispatched for.        *)
(***************************************************************************)
EXTENDS ProviderRelease, FiniteSetTheorems, TLAPS

Wheel  == Signed \cup {None}

(* What kind of value each variable has.                                   *)
TypeOK ==
  /\ operation \in [Run -> Channel]
  /\ policy \in Policy
  /\ phase \in [Run -> {"none", "queued", "active", "done"}]
  /\ job \in [Run -> [Job -> {"waiting", "running", "ok", "failed"}]]
  /\ artifact \in [Run -> [unsigned : Payload \cup {None}, signed : Wheel,
                           wheels : Wheel, distributions : Wheel]]
  /\ index \in [Index -> [Channel -> [Runtime -> Wheel]]]

(* A job has begun only after everything before it has ended well.         *)
Ordered ==
  \A r \in Run, j, k \in Job :
    job[r][j] # "waiting" /\ Level[k] < Level[j] => job[r][k] = "ok"

(* What runs is a publication, and its run is going.                       *)
RunningPublishes ==
  \A r \in Run, j \in Job : job[r][j] = "running" =>
    phase[r] = "active" /\ j \in {"publish_testpypi", "publish_pypi"}

(* Only a release has begun a job that is for releases only.               *)
BegunInScope == \A r \in Run, j \in Job : job[r][j] # "waiting" => InScope(r, j)

(* What the outputs of the jobs of one run name.                           *)
OutputsNameOneBuild ==
  \A r \in Run :
    /\ job[r]["prepare"] = "ok" => artifact[r].unsigned \in Payload
    /\ job[r]["sign"] = "ok" =>
         artifact[r].signed = [payload |-> artifact[r].unsigned, profile |-> Profile(r)]
    /\ job[r]["package"] = "ok" => artifact[r].wheels = artifact[r].signed
    /\ job[r]["assemble"] = "ok" => artifact[r].distributions = artifact[r].wheels

(* What a verification found is still so: an index forgets nothing.        *)
StillStaged ==
  \A r \in Run : job[r]["verify_testpypi"] = "ok" =>
    Indexed("testpypi", r, artifact[r].distributions)

StillPublished ==
  \A r \in Run : job[r]["verify_pypi"] = "ok" =>
    Indexed("pypi", r, artifact[r].distributions)

(* A test that ended well has tested what the run still wants to publish.  *)
Tested ==
  \A r \in Run, j \in {"smoke", "ray"} : job[r][j] = "ok" =>
    <<j, artifact[r].distributions>> \in passed

(* A file on PyPI is of the one build that TestPyPI has, completely.       *)
PromotedIsStaged ==
  \A c \in Channel, f \in Runtime : index["pypi"][c][f] # None =>
    \A g \in Runtime : index["testpypi"][c][g] = index["pypi"][c][f]

IInv ==
  /\ TypeOK /\ Ordered /\ RunningPublishes /\ BegunInScope
  /\ OutputsNameOneBuild /\ StillStaged /\ StillPublished /\ Tested
  /\ PromotedIsStaged
-----------------------------------------------------------------------------
(* The levels of the jobs, as numbers.                                     *)
LEMMA Levels ==
  /\ \A j \in Job : Level[j] \in Nat
  /\ Level["preflight"] = 0 /\ Level["prepare"] = 1 /\ Level["sign"] = 2
  /\ Level["package"] = 3 /\ Level["assemble"] = 4
  /\ Level["publish_testpypi"] = 5 /\ Level["verify_testpypi"] = 6
  /\ Level["smoke"] = 7 /\ Level["ray"] = 7 /\ Level["promotion"] = 8
  /\ Level["publish_pypi"] = 9 /\ Level["verify_pypi"] = 10
BY DEF Level, Job

(* What is of a lower level is needed, or is of a lower level than         *)
(* something that is.                                                      *)
LEMMA NeedsWhatIsBelow ==
  ASSUME NEW j \in Job, NEW k \in Job, Level[k] < Level[j]
  PROVE  k \in needs[j] \/ \E l \in needs[j] : Level[k] < Level[l] /\ l \in Job
<1>1. needs[j] = Needs(j)
  BY DEF needs
<1>2. CASE j \in {"preflight", "prepare", "sign"}
  BY <1>1, <1>2, Levels DEF Needs, Job
<1>3. CASE j \in {"package", "assemble", "publish_testpypi"}
  BY <1>1, <1>3, Levels DEF Needs, Job
<1>4. CASE j \in {"verify_testpypi", "smoke", "ray"}
  BY <1>1, <1>4, Levels DEF Needs, Job
<1>5. CASE j \in {"promotion", "publish_pypi", "verify_pypi"}
  BY <1>1, <1>5, Levels DEF Needs, Job
<1>6. QED
  BY <1>2, <1>3, <1>4, <1>5 DEF Job

(* Where a job is ready, everything before it has ended well, and nothing  *)
(* after it has begun.                                                     *)
LEMMA ReadyInOrder ==
  ASSUME Ordered, NEW r \in Run, NEW j \in Job, Ready(r, j), NEW k \in Job
  PROVE  /\ Level[k] < Level[j] => job[r][k] = "ok"
         /\ Level[k] > Level[j] => job[r][k] = "waiting"
         /\ job[r][j] = "waiting" /\ phase[r] = "active" /\ InScope(r, j)
<1>1. job[r][j] = "waiting" /\ phase[r] = "active" /\ InScope(r, j)
  BY DEF Ready
<1>2. Level[k] > Level[j] => job[r][k] = "waiting"
  BY <1>1, Levels DEF Ordered
<1>3. ASSUME Level[k] < Level[j] PROVE job[r][k] = "ok"
  BY <1>3, NeedsWhatIsBelow DEF Ready, Ordered
<1>4. QED
  BY <1>1, <1>2, <1>3
-----------------------------------------------------------------------------
(* Every variable is initially of its kind, and the rest holds of runs     *)
(* that have not begun.                                                    *)
LEMMA InitInvariant == ASSUME Init PROVE IInv
<1>1. TypeOK
  BY Dispatches DEF Init, TypeOK, Unbuilt, Wheel, Policy
<1>2. \A r \in Run, j \in Job : job[r][j] = "waiting"
  BY DEF Init
<1>3. PromotedIsStaged
  BY DEF Init, PromotedIsStaged, Index
<1>4. QED
  BY <1>1, <1>2, <1>3 DEF IInv, Ordered, RunningPublishes, BegunInScope,
     OutputsNameOneBuild, StillStaged, StillPublished, Tested, Job

(* The cases of a step, for the run that takes it.                         *)
RunStep(r) == JobStep(r) \/ Dispatch(r) \/ Start(r) \/ End(r) \/ Rerun(r)

(* What operators do to a run: failed jobs, or one job with all after it.  *)
LEMMA RerunSteps ==
  ASSUME NEW r \in Run, Rerun(r)
  PROVE  \/ policy # "revalidated" /\ RerunFailed(r)
         \/ \E j \in Job : RerunJob(r, j)
BY DEF Rerun, Revalidate

(* Runs change their status, and jobs that run again are waiting again;    *)
(* nothing else changes.                                                   *)
LEMMA AgainType ==
  ASSUME TypeOK, NEW r \in Run, NEW jobs, Again(r, jobs)
  PROVE  TypeOK'
BY DEF Again, Enqueue, TypeOK

(* No step leaves the types.                                               *)
LEMMA TypeStep ==
  ASSUME IInv, [Next]_vars
  PROVE  TypeOK'
<1>1. CASE UNCHANGED vars
  BY <1>1 DEF IInv, TypeOK, vars
<1>2. ASSUME NEW r \in Run, RunStep(r)
      PROVE  TypeOK'
  <2> USE DEF IInv, TypeOK, Becomes, Output
  <2>1. CASE Preflight(r)
    BY <2>1 DEF Preflight
  <2>2. CASE Prepare(r)
    BY <2>2 DEF Prepare
  <2>3. CASE Sign(r)
    <3>1. artifact[r].unsigned \in Payload
      BY <2>3, ReadyInOrder, Levels DEF Sign, OutputsNameOneBuild, Job
    <3>2. [payload |-> artifact[r].unsigned, profile |-> Profile(r)] \in Wheel
      BY <3>1 DEF Wheel, Signed, Profile
    <3>3. QED
      BY <2>3, <3>2 DEF Sign
  <2>4. CASE Package(r)
    BY <2>4 DEF Package
  <2>5. CASE Assemble(r)
    BY <2>5 DEF Assemble
  <2>6. ASSUME NEW i \in Index, StartPublish(r, i)
        PROVE  TypeOK'
    BY <2>6 DEF StartPublish
  <2>7. ASSUME NEW i \in Index, UploadWheel(r, i)
        PROVE  TypeOK'
    BY <2>7 DEF UploadWheel
  <2>8. ASSUME NEW i \in Index, FinishPublish(r, i)
        PROVE  TypeOK'
    BY <2>8 DEF FinishPublish
  <2>9. CASE VerifyTestpypi(r) \/ Promotion(r) \/ VerifyPypi(r)
    <3>1. CASE VerifyTestpypi(r)
      BY <3>1 DEF VerifyTestpypi
    <3>2. CASE Promotion(r)
      BY <3>2 DEF Promotion
    <3>3. CASE VerifyPypi(r)
      BY <3>3 DEF VerifyPypi
    <3>4. QED
      BY <2>9, <3>1, <3>2, <3>3
  <2>10. ASSUME NEW j \in {"smoke", "ray"}, InstalledTest(r, j)
         PROVE  TypeOK'
    BY <2>10 DEF InstalledTest
  <2>11. ASSUME NEW j \in Job, JobFails(r, j)
         PROVE  TypeOK'
    BY <2>11 DEF JobFails
  <2>12. CASE Dispatch(r)
    BY <2>12 DEF Dispatch, Enqueue
  <2>13. CASE Start(r)
    BY <2>13 DEF Start
  <2>14. CASE End(r)
    BY <2>14 DEF End
  <2>15. CASE Rerun(r)
    BY <2>15, AgainType, RerunSteps DEF RerunFailed, RerunJob
  <2>16. QED
    BY <1>2, <2>1, <2>2, <2>3, <2>4, <2>5, <2>6, <2>7, <2>8, <2>9, <2>10,
       <2>11, <2>12, <2>13, <2>14, <2>15 DEF RunStep, JobStep
<1>3. QED
  BY <1>1, <1>2 DEF Next, RunStep
-----------------------------------------------------------------------------
(***************************************************************************)
(* How the jobs of a run change.                                           *)
(***************************************************************************)
Publishing == {"publish_testpypi", "publish_pypi"}

(* A job may begin, or has begun and is not over.                          *)
Going(r, j) == Ready(r, j) \/ (phase[r] = "active" /\ job[r][j] = "running")

(* With a job, all that was begun after it is run again.                   *)
ClosedUpwards(r, jobs) ==
  \A j \in jobs, k \in Job :
    Level[k] > Level[j] => k \in jobs \/ job[r][k] = "waiting"

(* The same of a job that is going.                                        *)
LEMMA GoingInOrder ==
  ASSUME TypeOK, Ordered, NEW r \in Run, NEW j \in Job, Going(r, j), NEW k \in Job
  PROVE  /\ Level[k] < Level[j] => job[r][k] = "ok"
         /\ Level[k] > Level[j] => job[r][k] = "waiting"
         /\ phase[r] = "active"
<1>1. CASE Ready(r, j)
  BY <1>1, ReadyInOrder
<1>2. CASE job[r][j] = "running" /\ phase[r] = "active"
  BY <1>2, Levels DEF Ordered
<1>3. QED
  BY <1>1, <1>2 DEF Going

(* What operators run again is closed upwards: Downstream is, and nothing  *)
(* has begun after a failed job.                                           *)
LEMMA RerunIsClosed ==
  ASSUME TypeOK, Ordered, NEW r \in Run, Rerun(r)
  PROVE  \E jobs \in SUBSET Job : Again(r, jobs) /\ ClosedUpwards(r, jobs)
<1>1. CASE RerunFailed(r)
  <2> DEFINE failed == {j \in Job : job[r][j] = "failed"}
  <2>1. ClosedUpwards(r, failed)
    BY Levels DEF ClosedUpwards, Ordered
  <2>2. QED
    BY <1>1, <2>1 DEF RerunFailed
<1>2. ASSUME NEW j \in Job, RerunJob(r, j)
      PROVE  \E jobs \in SUBSET Job : Again(r, jobs) /\ ClosedUpwards(r, jobs)
  <2>1. ClosedUpwards(r, Downstream(j))
    BY Levels DEF ClosedUpwards, Downstream
  <2>2. Downstream(j) \in SUBSET Job
    BY DEF Downstream
  <2>3. QED
    BY <1>2, <2>1, <2>2 DEF RerunJob
<1>3. QED
  BY <1>1, <1>2, RerunSteps

(* The four ways in which a step may change the jobs of the run that takes *)
(* it, and it changes no other's.                                          *)
LEMMA JobsStep ==
  ASSUME IInv, NEW r \in Run, RunStep(r)
  PROVE  \/ UNCHANGED job /\ (UNCHANGED phase \/ Dispatch(r) \/ Start(r))
         \/ \E j \in Job, status \in {"running", "ok", "failed"} :
              /\ Going(r, j) /\ Becomes(r, j, status) /\ UNCHANGED phase
              /\ status = "running" => j \in Publishing
         \/ End(r)
         \/ /\ Rerun(r)
            /\ \E jobs \in SUBSET Job : Again(r, jobs) /\ ClosedUpwards(r, jobs)
<1> DEFINE Changes(j, status) ==
             /\ Going(r, j) /\ Becomes(r, j, status) /\ UNCHANGED phase
             /\ status = "running" => j \in Publishing
<1>1. CASE Preflight(r) \/ Prepare(r) \/ Sign(r) \/ Package(r) \/ Assemble(r)
  <2>1. CASE Preflight(r)
    BY <2>1 DEF Preflight, Going, Job
  <2>2. CASE Prepare(r)
    BY <2>2 DEF Prepare, Going, Job
  <2>3. CASE Sign(r)
    BY <2>3 DEF Sign, Going, Job
  <2>4. CASE Package(r)
    BY <2>4 DEF Package, Going, Job
  <2>5. CASE Assemble(r)
    BY <2>5 DEF Assemble, Going, Job
  <2>6. QED
    BY <1>1, <2>1, <2>2, <2>3, <2>4, <2>5
<1>2. CASE VerifyTestpypi(r) \/ Promotion(r) \/ VerifyPypi(r)
  <2>1. CASE VerifyTestpypi(r)
    BY <2>1 DEF VerifyTestpypi, Going, Job
  <2>2. CASE Promotion(r)
    BY <2>2 DEF Promotion, Going, Job
  <2>3. CASE VerifyPypi(r)
    BY <2>3 DEF VerifyPypi, Going, Job
  <2>4. QED
    BY <1>2, <2>1, <2>2, <2>3
<1>3. ASSUME NEW j \in {"smoke", "ray"}, InstalledTest(r, j)
      PROVE  Changes(j, "ok") /\ j \in Job
  BY <1>3 DEF InstalledTest, Going, Job
<1>4. ASSUME NEW j \in Job, JobFails(r, j)
      PROVE  Changes(j, "failed")
  BY <1>4 DEF JobFails, Going
<1>5. ASSUME NEW i \in Index, StartPublish(r, i)
      PROVE  Changes(PublishJob(i), "running") /\ PublishJob(i) \in Job
  BY <1>5 DEF StartPublish, Going, PublishJob, Publishing, Job
<1>6. ASSUME NEW i \in Index, FinishPublish(r, i)
      PROVE  Changes(PublishJob(i), "ok") /\ PublishJob(i) \in Job
  BY <1>6 DEF FinishPublish, Going, PublishJob, Job, IInv, RunningPublishes
<1>7. ASSUME NEW i \in Index, UploadWheel(r, i)
      PROVE  UNCHANGED <<job, phase>>
  BY <1>7 DEF UploadWheel
<1>8. CASE Dispatch(r) \/ Start(r)
  BY <1>8 DEF Dispatch, Start
<1>9. CASE Rerun(r)
  BY <1>9, RerunIsClosed DEF IInv
<1>10. QED
  BY <1>1, <1>2, <1>3, <1>4, <1>5, <1>6, <1>7, <1>8, <1>9 DEF RunStep, JobStep

(* No step changes what the runs are for.                                  *)
LEMMA ArgumentsStay ==
  ASSUME [Next]_vars PROVE UNCHANGED <<operation, policy>>
<1>1. ASSUME NEW r \in Run, RunStep(r)
      PROVE  UNCHANGED <<operation, policy>>
  BY <1>1 DEF RunStep, JobStep, Preflight, Prepare, Sign, Package, Assemble,
     StartPublish, UploadWheel, FinishPublish, VerifyTestpypi, Promotion,
     VerifyPypi, InstalledTest, JobFails, Dispatch, Start, End, Rerun,
     RerunFailed, Revalidate, RerunJob, Again
<1>2. QED
  BY <1>1 DEF Next, RunStep, vars

(* A job changes its status: those before it are done, those after it have *)
(* not begun.                                                              *)
LEMMA OrderedStep ==
  ASSUME TypeOK, Ordered, NEW r \in Run, NEW j \in Job, Going(r, j),
         NEW status, Becomes(r, j, status)
  PROVE  Ordered'
<1> SUFFICES ASSUME NEW q \in Run, NEW l \in Job, NEW k \in Job,
                    job'[q][l] # "waiting", Level[k] < Level[l]
             PROVE  job'[q][k] = "ok"
  BY DEF Ordered
<1>1. /\ Level[k] < Level[j] => job[r][k] = "ok"
      /\ Level[l] > Level[j] => job[r][l] = "waiting"
  BY GoingInOrder
<1>2. Level[l] \in Nat /\ Level[k] \in Nat /\ Level[j] \in Nat
  BY Levels
<1>3. job' = [job EXCEPT ![r] = [job[r] EXCEPT ![j] = status]]
  BY DEF Becomes
<1>4. CASE q # r
  BY <1>3, <1>4 DEF TypeOK, Ordered
<1>5. CASE q = r /\ l = j
  BY <1>1, <1>2, <1>3, <1>5 DEF TypeOK
<1>6. CASE q = r /\ l # j
  <2>1. job[r][l] # "waiting"
    BY <1>3, <1>6 DEF TypeOK
  <2>2. k # j
    BY <1>1, <1>2, <2>1
  <2>3. QED
    BY <1>3, <1>6, <2>1, <2>2 DEF TypeOK, Ordered
<1>7. QED
  BY <1>4, <1>5, <1>6

(* Jobs keep their order, only publications run, and only releases reach   *)
(* the last jobs.                                                          *)
LEMMA OrderStep ==
  ASSUME IInv, [Next]_vars
  PROVE  (Ordered /\ RunningPublishes /\ BegunInScope)'
<1>0. UNCHANGED operation
  BY ArgumentsStay
<1> USE <1>0 DEF IInv, TypeOK, Ordered, RunningPublishes, BegunInScope, InScope
<1>1. CASE UNCHANGED vars
  BY <1>1 DEF vars
<1>2. ASSUME NEW r \in Run, RunStep(r)
      PROVE  (Ordered /\ RunningPublishes /\ BegunInScope)'
  <2>1. CASE UNCHANGED <<job, phase>>
    BY <2>1
  <2>2. CASE UNCHANGED job /\ (Dispatch(r) \/ Start(r))
    BY <2>2 DEF Dispatch, Start, Enqueue
  <2>3. ASSUME NEW j \in Job, NEW status \in {"running", "ok", "failed"},
               Going(r, j), Becomes(r, j, status), UNCHANGED phase,
               status = "running" => j \in Publishing
        PROVE  (Ordered /\ RunningPublishes /\ BegunInScope)'
    <3>1. /\ job' = [job EXCEPT ![r] = [job[r] EXCEPT ![j] = status]]
          /\ \A k \in Job : /\ Level[k] < Level[j] => job[r][k] = "ok"
                            /\ Level[k] > Level[j] => job[r][k] = "waiting"
          /\ phase[r] = "active"
      BY <2>3, GoingInOrder DEF Becomes
    <3>2. InScope(r, j)
      BY <2>3 DEF Going, Ready
    <3>3. Ordered'
      BY <2>3, OrderedStep
    <3>4. RunningPublishes'
      BY <2>3, <3>1 DEF Publishing
    <3>5. BegunInScope'
      BY <3>1, <3>2
    <3>6. QED
      BY <3>3, <3>4, <3>5
  <2>4. CASE End(r)
    BY <2>4, Levels DEF End
  <2>5. ASSUME NEW jobs \in SUBSET Job, Again(r, jobs), ClosedUpwards(r, jobs)
        PROVE  (Ordered /\ RunningPublishes /\ BegunInScope)'
    <3>1. job' = [job EXCEPT ![r] = [j \in Job |->
                    IF j \in jobs THEN "waiting" ELSE job[r][j]]]
      BY <2>5 DEF Again
    <3>2. Ordered'
      BY <2>5, <3>1, Levels DEF ClosedUpwards
    <3>3. RunningPublishes'
      BY <2>5, <3>1 DEF Again, Enqueue
    <3>4. BegunInScope'
      BY <3>1
    <3>5. QED
      BY <3>2, <3>3, <3>4
  <2>6. QED
    BY <1>2, <2>1, <2>2, <2>3, <2>4, <2>5, JobsStep
<1>3. QED
  BY <1>1, <1>2 DEF Next, RunStep
-----------------------------------------------------------------------------
(***************************************************************************)
(* How artifacts and indexes change.                                       *)
(***************************************************************************)
Produces(r) == Prepare(r) \/ Sign(r) \/ Package(r) \/ Assemble(r)

(* Nobody but a producer changes what the outputs of a run name, and       *)
(* nothing but an upload changes an index.                                 *)
LEMMA WhatChanges ==
  ASSUME NEW r \in Run, RunStep(r)
  PROVE  /\ UNCHANGED artifact \/ Produces(r)
         /\ UNCHANGED index \/ \E i \in Index : UploadWheel(r, i)
BY DEF RunStep, JobStep, Produces, Preflight, Prepare, Sign, Package, Assemble,
   StartPublish, UploadWheel, FinishPublish, VerifyTestpypi, Promotion,
   VerifyPypi, InstalledTest, JobFails, Dispatch, Start, End, Rerun,
   RerunFailed, Revalidate, RerunJob, Again

(* Only the tests record what they have passed.                            *)
LEMMA PassedGrows ==
  ASSUME [Next]_vars PROVE passed \subseteq passed'
<1>1. ASSUME NEW r \in Run, RunStep(r)
      PROVE  passed \subseteq passed'
  BY <1>1 DEF RunStep, JobStep, Preflight, Prepare, Sign, Package, Assemble,
     StartPublish, UploadWheel, FinishPublish, VerifyTestpypi, Promotion,
     VerifyPypi, InstalledTest, JobFails, Dispatch, Start, End, Rerun,
     RerunFailed, Revalidate, RerunJob, Again
<1>2. QED
  BY <1>1 DEF Next, RunStep, vars

(* The step that lets a job end well.                                      *)
Succeeds(r, j) ==
  \/ j = "preflight" /\ Preflight(r)
  \/ j = "prepare" /\ Prepare(r)
  \/ j = "sign" /\ Sign(r)
  \/ j = "package" /\ Package(r)
  \/ j = "assemble" /\ Assemble(r)
  \/ \E i \in Index : j = PublishJob(i) /\ FinishPublish(r, i)
  \/ j = "verify_testpypi" /\ VerifyTestpypi(r)
  \/ j \in {"smoke", "ray"} /\ InstalledTest(r, j)
  \/ j = "promotion" /\ Promotion(r)
  \/ j = "verify_pypi" /\ VerifyPypi(r)

(* A job that is done either was already, or its own step has just ended   *)
(* it: no other step sets it so.                                           *)
LEMMA NewlyOk ==
  ASSUME TypeOK, NEW r \in Run, RunStep(r), NEW q \in Run, NEW j \in Job,
         job'[q][j] = "ok"
  PROVE  job[q][j] = "ok" \/ (q = r /\ Succeeds(r, j))
<1> USE DEF Becomes, TypeOK, Succeeds
<1>1. CASE Preflight(r)
  BY <1>1 DEF Preflight
<1>2. CASE Prepare(r)
  BY <1>2 DEF Prepare
<1>3. CASE Sign(r)
  BY <1>3 DEF Sign
<1>4. CASE Package(r)
  BY <1>4 DEF Package
<1>5. CASE Assemble(r)
  BY <1>5 DEF Assemble
<1>6. ASSUME NEW i \in Index, StartPublish(r, i)
      PROVE  job[q][j] = "ok"
  BY <1>6 DEF StartPublish
<1>7. ASSUME NEW i \in Index, UploadWheel(r, i)
      PROVE  job[q][j] = "ok"
  BY <1>7 DEF UploadWheel
<1>8. ASSUME NEW i \in Index, FinishPublish(r, i)
      PROVE  job[q][j] = "ok" \/ (q = r /\ j = PublishJob(i))
  BY <1>8 DEF FinishPublish
<1>9. CASE VerifyTestpypi(r)
  BY <1>9 DEF VerifyTestpypi
<1>10. CASE Promotion(r)
  BY <1>10 DEF Promotion
<1>11. CASE VerifyPypi(r)
  BY <1>11 DEF VerifyPypi
<1>12. ASSUME NEW k \in {"smoke", "ray"}, InstalledTest(r, k)
       PROVE  job[q][j] = "ok" \/ (q = r /\ j = k)
  BY <1>12 DEF InstalledTest
<1>13. ASSUME NEW k \in Job, JobFails(r, k)
       PROVE  job[q][j] = "ok"
  BY <1>13 DEF JobFails
<1>14. CASE Dispatch(r) \/ Start(r)
  BY <1>14 DEF Dispatch, Start
<1>15. CASE End(r)
  BY <1>15 DEF End
<1>16. ASSUME NEW jobs, Again(r, jobs)
       PROVE  job[q][j] = "ok"
  BY <1>16 DEF Again
<1>17. CASE Rerun(r)
  BY <1>16, <1>17, RerunSteps DEF RerunFailed, RerunJob
<1>18. QED
  BY <1>1, <1>2, <1>3, <1>4, <1>5, <1>6, <1>7, <1>8, <1>9, <1>10, <1>11, <1>12,
     <1>13, <1>14, <1>15, <1>17 DEF RunStep, JobStep

(* What a run wants to publish does not change as long as a job that comes *)
(* after assemble is not waiting.                                          *)
LEMMA DistributionsStay ==
  ASSUME IInv, NEW r \in Run, RunStep(r), NEW q \in Run,
         NEW j \in Job, Level[j] > Level["assemble"], job[q][j] # "waiting"
  PROVE  artifact'[q].distributions = artifact[q].distributions
<1> USE DEF IInv, TypeOK, Output
<1>1. CASE Assemble(r)
  <2>1. r # q
    BY <1>1, ReadyInOrder DEF Assemble, Job
  <2>2. QED
    BY <1>1, <2>1 DEF Assemble
<1>2. CASE Prepare(r)
  BY <1>2 DEF Prepare
<1>3. CASE Sign(r)
  BY <1>3 DEF Sign
<1>4. CASE Package(r)
  BY <1>4 DEF Package
<1>5. CASE UNCHANGED artifact
  BY <1>5
<1>6. QED
  BY <1>1, <1>2, <1>3, <1>4, <1>5, WhatChanges DEF Produces

(* What assemble has handed over is a signed artifact.                     *)
LEMMA DistributionsAreSigned ==
  ASSUME IInv, NEW r \in Run, NEW j \in Job, job[r][j] # "waiting",
         Level[j] > Level["assemble"]
  PROVE  /\ artifact[r].distributions \in Signed
         /\ artifact[r].distributions = [payload |-> artifact[r].unsigned,
                                         profile |-> Profile(r)]
<1>1. /\ job[r]["prepare"] = "ok" /\ job[r]["sign"] = "ok"
      /\ job[r]["package"] = "ok" /\ job[r]["assemble"] = "ok"
  BY Levels DEF IInv, Ordered, Job
<1>2. /\ artifact[r].unsigned \in Payload
      /\ artifact[r].distributions = [payload |-> artifact[r].unsigned,
                                      profile |-> Profile(r)]
  BY <1>1 DEF IInv, OutputsNameOneBuild
<1>3. QED
  BY <1>2 DEF Signed, Profile

(* An index keeps what it was given, and an upload adds one signed file to *)
(* the version of its run.                                                 *)
LEMMA UploadAdds ==
  ASSUME IInv, NEW r \in Run, NEW i \in Index, UploadWheel(r, i)
  PROVE  \E f \in Runtime :
           /\ index[i][operation[r]][f] = None
           /\ artifact[r].distributions \in Signed
           /\ \A h \in Index, c \in Channel, g \in Runtime :
                index'[h][c][g] = IF h = i /\ c = operation[r] /\ g = f
                                  THEN artifact[r].distributions
                                  ELSE index[h][c][g]
<1>1. PublishJob(i) \in Job /\ Level[PublishJob(i)] > Level["assemble"]
  BY Levels DEF PublishJob, Job
<1>2. artifact[r].distributions \in Signed
  BY <1>1, DistributionsAreSigned DEF UploadWheel
<1>3. QED
  BY <1>2 DEF UploadWheel, Files, IInv, TypeOK

(* What an index has, it keeps.                                            *)
LEMMA IndexKeeps ==
  ASSUME IInv, NEW r \in Run, RunStep(r), NEW i \in Index, NEW c \in Channel,
         NEW f \in Runtime, index[i][c][f] # None
  PROVE  index'[i][c][f] = index[i][c][f]
BY WhatChanges, UploadAdds
-----------------------------------------------------------------------------
(***************************************************************************)
(* The inductive invariant.                                                *)
(***************************************************************************)
(* A producer runs when those before it are done and those after it have   *)
(* not begun: what is done keeps naming one build.                         *)
LEMMA OutputsStep ==
  ASSUME IInv, NEW r \in Run, RunStep(r), UNCHANGED operation
  PROVE  OutputsNameOneBuild'
<1> SUFFICES ASSUME NEW q \in Run
             PROVE  /\ job'[q]["prepare"] = "ok" => artifact'[q].unsigned \in Payload
                    /\ job'[q]["sign"] = "ok" =>
                         artifact'[q].signed = [payload |-> artifact'[q].unsigned,
                                                profile |-> Profile(q)]
                    /\ job'[q]["package"] = "ok" =>
                         artifact'[q].wheels = artifact'[q].signed
                    /\ job'[q]["assemble"] = "ok" =>
                         artifact'[q].distributions = artifact'[q].wheels
  BY DEF OutputsNameOneBuild, Profile
<1> USE DEF IInv, TypeOK, OutputsNameOneBuild, Output, Becomes
<1>1. CASE Prepare(r)
  <2>1. /\ job[r]["sign"] = "waiting" /\ job[r]["package"] = "waiting"
        /\ job[r]["assemble"] = "waiting"
    BY <1>1, ReadyInOrder, Levels DEF Prepare, Job
  <2>2. QED
    BY <1>1, <2>1 DEF Prepare, Job
<1>2. CASE Sign(r)
  <2>1. job[r]["package"] = "waiting" /\ job[r]["assemble"] = "waiting"
    BY <1>2, ReadyInOrder, Levels DEF Sign, Job
  <2>2. QED
    BY <1>2, <2>1 DEF Sign, Job
<1>3. CASE Package(r)
  <2>1. job[r]["assemble"] = "waiting"
    BY <1>3, ReadyInOrder, Levels DEF Package, Job
  <2>2. QED
    BY <1>3, <2>1 DEF Package, Job
<1>4. CASE Assemble(r)
  BY <1>4 DEF Assemble, Job
<1>5. CASE UNCHANGED artifact /\ ~Produces(r)
  <2>1. ASSUME NEW j \in {"prepare", "sign", "package", "assemble"},
               job'[q][j] = "ok"
        PROVE  job[q][j] = "ok"
    <3>1. ~Succeeds(r, j)
      BY <1>5 DEF Succeeds, Produces, PublishJob
    <3>2. QED
      BY <2>1, <3>1, NewlyOk DEF Job
  <2>2. QED
    BY <1>5, <2>1
<1>6. QED
  BY <1>1, <1>2, <1>3, <1>4, <1>5, WhatChanges DEF Produces

(* What a job after assemble has established of the distributions and the  *)
(* indexes remains so while the job is done.                               *)
LEMMA StillStep ==
  ASSUME IInv, NEW r \in Run, RunStep(r), UNCHANGED operation
  PROVE  (StillStaged /\ StillPublished)'
<1>1. ASSUME NEW q \in Run, NEW i \in Index, NEW j \in Job,
             Level[j] > Level["assemble"],
             job'[q][j] = "ok", Indexed(i, q, artifact[q].distributions),
             job[q][j] # "waiting"
      PROVE  Indexed(i, q, artifact[q].distributions)'
  <2>1. artifact'[q].distributions = artifact[q].distributions
    BY <1>1, DistributionsStay
  <2>2. artifact[q].distributions # None
    BY <1>1, DistributionsAreSigned, NoneIsNoArtifact
  <2>3. operation[q] \in Channel
    BY DEF IInv, TypeOK
  <2>4. QED
    BY <1>1, <2>1, <2>2, <2>3, IndexKeeps DEF Indexed, Files
<1>2. ASSUME NEW q \in Run, NEW i \in Index, NEW j \in Job, job'[q][j] = "ok",
             Level[j] > Level["assemble"], UNCHANGED <<artifact, index>>,
             Indexed(i, q, artifact[q].distributions)
      PROVE  Indexed(i, q, artifact[q].distributions)'
  BY <1>2 DEF Indexed, Files
<1>3. StillStaged'
  <2> SUFFICES ASSUME NEW q \in Run, job'[q]["verify_testpypi"] = "ok"
               PROVE  Indexed("testpypi", q, artifact[q].distributions)'
    BY DEF StillStaged
  <2>1. CASE job[q]["verify_testpypi"] = "ok"
    BY <1>1, <2>1, Levels DEF IInv, StillStaged, Job, Index
  <2>2. CASE q = r /\ Succeeds(r, "verify_testpypi")
    BY <1>2, <2>2, Levels DEF Succeeds, VerifyTestpypi, PublishJob, Job, Index
  <2>3. QED
    BY <2>1, <2>2, NewlyOk DEF IInv, Job
<1>4. StillPublished'
  <2> SUFFICES ASSUME NEW q \in Run, job'[q]["verify_pypi"] = "ok"
               PROVE  Indexed("pypi", q, artifact[q].distributions)'
    BY DEF StillPublished
  <2>1. CASE job[q]["verify_pypi"] = "ok"
    BY <1>1, <2>1, Levels DEF IInv, StillPublished, Job, Index
  <2>2. CASE q = r /\ Succeeds(r, "verify_pypi")
    BY <1>2, <2>2, Levels DEF Succeeds, VerifyPypi, PublishJob, Job, Index
  <2>3. QED
    BY <2>1, <2>2, NewlyOk DEF IInv, Job
<1>5. QED
  BY <1>3, <1>4

(* A run that was tested still wants to publish what was tested.           *)
LEMMA TestedStep ==
  ASSUME IInv, [Next]_vars, NEW r \in Run, RunStep(r)
  PROVE  Tested'
<1> SUFFICES ASSUME NEW q \in Run, NEW j \in {"smoke", "ray"}, job'[q][j] = "ok"
             PROVE  <<j, artifact'[q].distributions>> \in passed'
  BY DEF Tested
<1>1. CASE job[q][j] = "ok"
  <2>1. artifact'[q].distributions = artifact[q].distributions
    BY <1>1, DistributionsStay, Levels DEF Job
  <2>2. QED
    BY <1>1, <2>1, PassedGrows DEF IInv, Tested
<1>2. CASE q = r /\ Succeeds(r, j)
  BY <1>2 DEF Succeeds, InstalledTest, PublishJob
<1>3. QED
  BY <1>1, <1>2, NewlyOk DEF IInv, Job

(* PyPI receives a file when TestPyPI has the complete set of that build,  *)
(* which nothing can change any more.                                      *)
LEMMA PromotedStep ==
  ASSUME IInv, NEW r \in Run, RunStep(r)
  PROVE  PromotedIsStaged'
<1>1. CASE UNCHANGED index
  BY <1>1 DEF IInv, PromotedIsStaged
<1>2. CASE UploadWheel(r, "testpypi")
  <2> SUFFICES ASSUME NEW c \in Channel, NEW f \in Runtime,
                      index'["pypi"][c][f] # None, NEW g \in Runtime
               PROVE  index'["testpypi"][c][g] = index'["pypi"][c][f]
    BY DEF PromotedIsStaged
  <2>1. index'["pypi"][c][f] = index["pypi"][c][f]
    BY <1>2, UploadAdds DEF Index
  <2>2. index["testpypi"][c][g] = index["pypi"][c][f]
    BY <2>1 DEF IInv, PromotedIsStaged
  <2>3. QED
    BY <2>1, <2>2, IndexKeeps DEF Index
<1>3. CASE UploadWheel(r, "pypi")
  <2>1. Indexed("testpypi", r, artifact[r].distributions)
    <3>1. job[r]["publish_pypi"] = "running"
      BY <1>3 DEF UploadWheel, PublishJob
    <3>2. job[r]["verify_testpypi"] = "ok"
      BY <3>1, Levels DEF IInv, Ordered, Job
    <3>3. QED
      BY <3>2 DEF IInv, StillStaged
  <2> SUFFICES ASSUME NEW c \in Channel, NEW f \in Runtime,
                      index'["pypi"][c][f] # None, NEW g \in Runtime
               PROVE  index'["testpypi"][c][g] = index'["pypi"][c][f]
    BY DEF PromotedIsStaged
  <2>2. index'["testpypi"][c][g] = index["testpypi"][c][g]
    BY <1>3, UploadAdds DEF Index
  <2>3. \/ index'["pypi"][c][f] = index["pypi"][c][f]
        \/ /\ c = operation[r]
           /\ index'["pypi"][c][f] = artifact[r].distributions
    BY <1>3, UploadAdds DEF Index
  <2>4. QED
    BY <2>1, <2>2, <2>3 DEF Indexed, Files, IInv, PromotedIsStaged
<1>4. QED
  BY <1>1, <1>2, <1>3, WhatChanges DEF Index

(* Every step keeps every part of the invariant.                           *)
LEMMA Inductive == IInv /\ [Next]_vars => IInv'
<1> SUFFICES ASSUME IInv, [Next]_vars
             PROVE  IInv'
  OBVIOUS
<1>1. TypeOK'
  BY TypeStep
<1>2. (Ordered /\ RunningPublishes /\ BegunInScope)'
  BY OrderStep
<1>3. UNCHANGED operation
  BY ArgumentsStay
<1>4. (OutputsNameOneBuild /\ StillStaged /\ StillPublished /\ Tested /\ PromotedIsStaged)'
  <2>1. CASE UNCHANGED vars
    BY <2>1 DEF vars, IInv, OutputsNameOneBuild, StillStaged, StillPublished, Tested,
       PromotedIsStaged, Indexed, Files, Profile
  <2>2. ASSUME NEW r \in Run, RunStep(r)
        PROVE  (OutputsNameOneBuild /\ StillStaged /\ StillPublished
                  /\ Tested /\ PromotedIsStaged)'
    BY <1>3, <2>2, OutputsStep, StillStep, TestedStep, PromotedStep
  <2>3. QED
    BY <2>1, <2>2 DEF Next, RunStep
<1>5. QED
  BY <1>1, <1>2, <1>4 DEF IInv

(* Runs keep their jobs in order and name one build each; the indexes keep *)
(* what was verified, and PyPI follows TestPyPI.                           *)
THEOREM Invariant == Spec => []IInv
<1>1. Init => IInv
  BY InitInvariant
<1>2. QED
  BY <1>1, Inductive, PTL DEF Spec
-----------------------------------------------------------------------------
(***************************************************************************)
(* What follows from it.                                                   *)
(***************************************************************************)
(* Whoever installs a version from PyPI gets wheels of one build, whatever *)
(* jobs fail, runs are cancelled or jobs are run again, with any number of *)
(* runs for a version at the same time.                                    *)
THEOREM OneBuildOnPypi == Spec => []PypiHoldsOneBuild
<1>1. IInv => PypiHoldsOneBuild
  <2> SUFFICES ASSUME IInv, NEW c \in Channel
               PROVE  Cardinality(Present("pypi", c)) <= 1
    BY DEF PypiHoldsOneBuild
  <2> DEFINE staged == index["testpypi"][c][SmokeRuntime]
  <2>1. Present("pypi", c) \subseteq {staged}
    BY Dispatches DEF IInv, PromotedIsStaged, Present
  <2>2. IsFiniteSet({staged}) /\ Cardinality({staged}) = 1
    BY FS_Singleton
  <2>3. QED
    BY <2>1, <2>2, FS_Subset
<1>2. QED
  BY <1>1, Invariant, PTL

(* A run that ended well has its own wheels, all of them, on both indexes. *)
THEOREM SuccessLasts == Spec => []SuccessIsComplete
<1>1. IInv => SuccessIsComplete
  <2> SUFFICES ASSUME IInv, NEW r \in Run, job[r]["verify_pypi"] = "ok",
                      NEW i \in Index, NEW f \in Runtime
               PROVE  index[i][operation[r]][f] = artifact[r].distributions
    BY DEF SuccessIsComplete
  <2>1. job[r]["verify_testpypi"] = "ok"
    BY Levels DEF IInv, Ordered, Job
  <2>2. QED
    BY <2>1 DEF IInv, StillStaged, StillPublished, Indexed, Files, Index
<1>2. QED
  BY <1>1, Invariant, PTL

(* No re-run leaves what an older build has produced behind a newer one.   *)
THEOREM OneBuildPerRun == Spec => []ArtifactsBelongTogether
<1>1. IInv => ArtifactsBelongTogether
  <2> SUFFICES ASSUME IInv, NEW r \in Run
               PROVE  /\ job[r]["sign"] = "ok" =>
                           artifact[r].signed.payload = artifact[r].unsigned
                      /\ job[r]["package"] = "ok" =>
                           artifact[r].wheels = artifact[r].signed
                      /\ job[r]["assemble"] = "ok" =>
                           artifact[r].distributions = artifact[r].wheels
    BY DEF ArtifactsBelongTogether
  <2>1. job[r]["sign"] = "ok" =>
          artifact[r].signed = [payload |-> artifact[r].unsigned, profile |-> Profile(r)]
    BY DEF IInv, OutputsNameOneBuild
  <2>2. job[r]["sign"] = "ok" => artifact[r].signed.payload = artifact[r].unsigned
    BY <2>1
  <2>3. QED
    BY <2>2 DEF IInv, OutputsNameOneBuild
<1>2. QED
  BY <1>1, Invariant, PTL
-----------------------------------------------------------------------------
(***************************************************************************)
(* The refinement of StagedRelease.                                        *)
(***************************************************************************)
QualifiedSet == {w \in Signed : /\ w.profile = "production"
                               /\ {<<"smoke", w>>, <<"ray", w>>} \subseteq passed}

(* Nothing is staged, promoted or tested at first.                         *)
LEMMA StagingInit == ASSUME Init PROVE Staging!Init
BY DEF Init, Staging!Init, Index, Channel

(* An upload to TestPyPI stages a file, one to PyPI promotes one that was  *)
(* staged and has passed both tests, or it is for another version.         *)
LEMMA UploadRefines ==
  ASSUME IInv, NEW r \in Run, NEW i \in Index, UploadWheel(r, i)
  PROVE  Staging!Stage \/ Staging!Promote \/ UNCHANGED Staging!svars
<1> DEFINE staged == index["testpypi"]["release"]
           promoted == index["pypi"]["release"]
           dist == artifact[r].distributions
<1>1. UNCHANGED passed
  BY DEF UploadWheel
<1>2. PICK f \in Runtime :
        /\ index[i][operation[r]][f] = None
        /\ dist \in Signed
        /\ \A h \in Index, c \in Channel, g \in Runtime :
             index'[h][c][g] = IF h = i /\ c = operation[r] /\ g = f
                               THEN dist ELSE index[h][c][g]
  BY UploadAdds
<1>3. TypeOK /\ TypeOK'
  BY TypeStep DEF IInv, Next, RunStep, JobStep
<1>4. /\ staged \in [Runtime -> Wheel] /\ staged' \in [Runtime -> Wheel]
      /\ promoted \in [Runtime -> Wheel] /\ promoted' \in [Runtime -> Wheel]
  BY <1>3 DEF TypeOK, Index, Channel
<1>5. CASE operation[r] # "release"
  <2>1. staged' = staged /\ promoted' = promoted
    BY <1>2, <1>4, <1>5 DEF Index, Channel
  <2>2. QED
    BY <1>1, <2>1 DEF Staging!svars
<1>6. CASE operation[r] = "release" /\ i = "testpypi"
  <2>1. staged[f] = None /\ staged' = [staged EXCEPT ![f] = dist] /\ promoted' = promoted
    BY <1>2, <1>4, <1>6 DEF Index, Channel
  <2>2. QED
    BY <1>1, <1>2, <2>1 DEF Staging!Stage
<1>7. CASE operation[r] = "release" /\ i = "pypi"
  <2>1. promoted[f] = None /\ promoted' = [promoted EXCEPT ![f] = dist] /\ staged' = staged
    BY <1>2, <1>4, <1>7 DEF Index, Channel
  <2>2. job[r]["publish_pypi"] = "running"
    BY <1>7 DEF UploadWheel, PublishJob
  <2>3. /\ job[r]["verify_testpypi"] = "ok" /\ job[r]["smoke"] = "ok"
        /\ job[r]["ray"] = "ok"
    BY <2>2, Levels DEF IInv, Ordered, Job
  <2>4. staged[f] = dist
    BY <1>7, <2>3 DEF IInv, StillStaged, Indexed, Files
  <2>5. {<<"smoke", dist>>, <<"ray", dist>>} \subseteq passed
    BY <2>3 DEF IInv, Tested
  <2>6. dist = [payload |-> artifact[r].unsigned, profile |-> "production"]
    BY <1>7, <2>2, DistributionsAreSigned, Levels DEF Profile, Job
  <2>7. dist \in QualifiedSet
    BY <1>2, <2>5, <2>6 DEF QualifiedSet
  <2>8. QED
    BY <1>1, <2>1, <2>4, <2>7 DEF Staging!Promote, QualifiedSet
<1>8. QED
  BY <1>5, <1>6, <1>7 DEF Index

(* An installed test qualifies its wheels if it was the second to pass, and*)
(* it ran on a set that was complete.                                      *)
LEMMA TestRefines ==
  ASSUME IInv, NEW r \in Run, NEW j \in {"smoke", "ray"}, InstalledTest(r, j)
  PROVE  Staging!Test \/ UNCHANGED Staging!svars
<1> DEFINE dist == artifact[r].distributions
<1>1. UNCHANGED index /\ passed' = passed \cup {<<j, dist>>}
  BY DEF InstalledTest
<1>2. /\ job[r]["verify_testpypi"] = "ok"
      /\ Indexed("testpypi", r, dist)
  <2>1. job[r]["verify_testpypi"] = "ok"
    BY ReadyInOrder, Levels DEF InstalledTest, IInv, Job
  <2>2. QED
    BY <2>1 DEF IInv, StillStaged
<1>3. dist \in Signed /\ dist.profile = Profile(r)
  <2>1. /\ dist \in Signed
        /\ dist = [payload |-> artifact[r].unsigned, profile |-> Profile(r)]
    BY <1>2, DistributionsAreSigned, Levels DEF Job
  <2>2. QED
    BY <2>1
<1>4. QualifiedSet \subseteq QualifiedSet'
  BY <1>1 DEF QualifiedSet
<1>5. ASSUME NEW w \in QualifiedSet', w \notin QualifiedSet
      PROVE  w = dist /\ w.profile = "production"
  BY <1>1, <1>5 DEF QualifiedSet
<1>6. CASE QualifiedSet' = QualifiedSet
  BY <1>1, <1>6 DEF Staging!svars, QualifiedSet
<1>7. CASE QualifiedSet' # QualifiedSet
  <2>1. PICK w \in QualifiedSet' : w \notin QualifiedSet
    BY <1>4, <1>7
  <2>2. w = dist /\ dist.profile = "production"
    BY <1>5, <2>1
  <2>3. QualifiedSet' = QualifiedSet \cup {dist}
    BY <1>4, <1>5, <2>1, <2>2
  <2>4. operation[r] = "release"
    BY <1>3, <2>2 DEF Profile
  <2>5. \A f \in Runtime : index["testpypi"]["release"][f] = dist
    BY <1>2, <2>4 DEF Indexed, Files
  <2>6. QED
    BY <1>1, <1>3, <2>3, <2>5 DEF Staging!Test, QualifiedSet
<1>8. QED
  BY <1>6, <1>7

(* Every step maps to a step of the staged release, or to none.            *)
LEMMA StagingStep ==
  ASSUME IInv, [Next]_vars
  PROVE  [Staging!Next]_(Staging!svars)
<1>1. CASE UNCHANGED <<index, passed>>
  BY <1>1 DEF Staging!svars
<1>2. ASSUME NEW r \in Run, RunStep(r), ~UNCHANGED <<index, passed>>
      PROVE  [Staging!Next]_(Staging!svars)
  <2>1. ASSUME NEW i \in Index, UploadWheel(r, i)
        PROVE  [Staging!Next]_(Staging!svars)
    BY <2>1, UploadRefines DEF Staging!Next
  <2>2. ASSUME NEW j \in {"smoke", "ray"}, InstalledTest(r, j)
        PROVE  [Staging!Next]_(Staging!svars)
    BY <2>2, TestRefines DEF Staging!Next
  <2>3. \/ \E i \in Index : UploadWheel(r, i)
        \/ \E j \in {"smoke", "ray"} : InstalledTest(r, j)
    BY <1>2 DEF RunStep, JobStep, Preflight, Prepare, Sign, Package, Assemble,
       StartPublish, FinishPublish, VerifyTestpypi, Promotion, VerifyPypi,
       JobFails, Dispatch, Start, End, Rerun, RerunFailed, Revalidate, RerunJob,
       Again
  <2>4. QED
    BY <2>1, <2>2, <2>3
<1>3. QED
  BY <1>1, <1>2 DEF Next, RunStep, vars

(* The workflow implements the staged release of the production versions:  *)
(* nothing on PyPI was not staged, complete and tested before.             *)
THEOREM Implements == Spec => ImplementsStagedRelease
<1>1. Init => Staging!Init
  BY StagingInit
<1>2. IInv /\ [Next]_vars => [Staging!Next]_(Staging!svars)
  BY StagingStep
<1>3. QED
  BY <1>1, <1>2, Invariant, PTL DEF ImplementsStagedRelease, Spec, Staging!Spec
-----------------------------------------------------------------------------
(***************************************************************************)
(* Operators who validate again before anything is uploaded.               *)
(***************************************************************************)
(* The concurrency group: one run per channel is going.                    *)
Serial ==
  \A r, s \in Run :
    phase[r] = "active" /\ phase[s] = "active" /\ operation[r] = operation[s] => r = s

(* A run that is not going yet has nothing validated.                      *)
ValidatedAfresh ==
  \A r \in Run : phase[r] \in {"none", "queued"} => job[r]["assemble"] = "waiting"

(* What was validated in a run that is going has not become stale.         *)
ValidationHolds ==
  \A r \in Run : phase[r] = "active" /\ job[r]["assemble"] = "ok" =>
    MayPublish(r, artifact[r].distributions)

(* Some run still holds the wheels of a promotion that was begun.          *)
PromotionIsHeld ==
  \A c \in Channel : Present("pypi", c) # {} =>
    \E r \in Run : /\ operation[r] = c
                   /\ job[r]["package"] = "ok"
                   /\ Indexed("testpypi", r, artifact[r].wheels)

Revalidated == ValidatedAfresh /\ ValidationHolds /\ PromotionIsHeld

RInv == IInv /\ Serial /\ (policy = "revalidated" => Revalidated)

(* Nothing is going, validated or published at first.                      *)
LEMMA InitRevalidated == ASSUME Init PROVE RInv
<1>1. Serial
  BY DEF Init, Serial
<1>2. ValidatedAfresh /\ ValidationHolds
  BY DEF Init, ValidatedAfresh, ValidationHolds, Job
<1>3. PromotionIsHeld
  BY DEF Init, PromotionIsHeld, Present, Index
<1>4. QED
  BY <1>1, <1>2, <1>3, InitInvariant DEF RInv, Revalidated

(* A run begins when no other of its group is going.                       *)
LEMMA SerialStep ==
  ASSUME RInv, NEW r \in Run, RunStep(r), UNCHANGED operation
  PROVE  Serial'
<1> USE DEF RInv, IInv, TypeOK, Serial
<1>1. CASE UNCHANGED phase
  BY <1>1
<1>2. CASE Dispatch(r)
  BY <1>2 DEF Dispatch, Enqueue
<1>3. CASE Start(r)
  BY <1>3 DEF Start, Group
<1>4. CASE End(r)
  BY <1>4 DEF End
<1>5. ASSUME NEW jobs, Again(r, jobs)
      PROVE  Serial'
  BY <1>5 DEF Again, Enqueue
<1>6. QED
  BY <1>1, <1>2, <1>3, <1>4, <1>5, JobsStep

(* The jobs of a run that is run again include the assembly, and not the   *)
(* packaging when that is done.                                            *)
LEMMA RevalidateStep ==
  ASSUME IInv, NEW r \in Run, Rerun(r), policy = "revalidated"
  PROVE  /\ job'[r]["assemble"] = "waiting"
         /\ job[r]["package"] = "ok" => job'[r]["package"] = "ok"
<1>1. PICK j \in Job : /\ j = "assemble" \/ (job[r][j] = "failed" /\ Level[j] < Level["assemble"])
                      /\ RerunJob(r, j)
  BY DEF Rerun, Revalidate
<1>2. job' = [job EXCEPT ![r] = [k \in Job |->
                IF k \in Downstream(j) THEN "waiting" ELSE job[r][k]]]
  BY <1>1 DEF RerunJob, Again
<1>3. "assemble" \in Downstream(j)
  BY <1>1, Levels DEF Downstream, Job
<1>4. ASSUME job[r]["package"] = "ok"
      PROVE  "package" \notin Downstream(j)
  <2>1. ~(Level[j] < Level["package"])
    BY <1>1, <1>4, Levels DEF IInv, Ordered, Job
  <2>2. j # "package"
    BY <1>1, <1>4
  <2>3. QED
    BY <2>1, <2>2, Levels DEF Downstream, Job
<1>5. QED
  BY <1>2, <1>3, <1>4 DEF IInv, TypeOK, Job

(* A run that is queued to go again will validate again.                   *)
LEMMA AfreshStep ==
  ASSUME RInv, NEW r \in Run, RunStep(r), policy = "revalidated"
  PROVE  ValidatedAfresh'
<1> USE DEF RInv, Revalidated, IInv, TypeOK, ValidatedAfresh
<1>1. CASE UNCHANGED <<job, phase>>
  BY <1>1
<1>2. CASE UNCHANGED job /\ Dispatch(r)
  BY <1>2 DEF Dispatch, Enqueue
<1>3. CASE UNCHANGED job /\ Start(r)
  BY <1>3 DEF Start
<1>4. ASSUME NEW j \in Job, NEW status, Going(r, j), Becomes(r, j, status),
             UNCHANGED phase
      PROVE  ValidatedAfresh'
  BY <1>4 DEF Going, Ready, Becomes
<1>5. CASE End(r)
  BY <1>5 DEF End
<1>6. CASE Rerun(r)
  <2>1. job'[r]["assemble"] = "waiting"
    BY <1>6, RevalidateStep
  <2>2. PICK jobs \in SUBSET Job : Again(r, jobs)
    BY <1>6, RerunIsClosed
  <2>3. QED
    BY <2>1, <2>2 DEF Again, Enqueue
<1>7. QED
  BY <1>1, <1>2, <1>3, <1>4, <1>5, <1>6, JobsStep

(* While a run is going, nobody else uploads to its version, and what it   *)
(* uploads itself is what it has validated.                                *)
LEMMA ValidationStep ==
  ASSUME RInv, NEW r \in Run, RunStep(r), policy = "revalidated",
         UNCHANGED operation
  PROVE  ValidationHolds'
<1> SUFFICES ASSUME NEW q \in Run, phase'[q] = "active", job'[q]["assemble"] = "ok"
             PROVE  MayPublish(q, artifact[q].distributions)'
  BY DEF ValidationHolds
<1>0. ValidatedAfresh /\ ValidationHolds /\ IInv /\ Serial /\ TypeOK
  BY DEF RInv, Revalidated, IInv
<1>1. CASE Assemble(r) /\ q = r
  BY <1>0, <1>1 DEF Assemble, Output, MayPublish, Publishable, Files, TypeOK
<1>2. CASE ~(Assemble(r) /\ q = r)
  <2>1. job[q]["assemble"] = "ok"
    BY <1>0, <1>2, NewlyOk DEF Succeeds, PublishJob, Job
  <2>2. phase[q] = "active"
    <3>1. phase[q] \notin {"none", "queued"}
      BY <1>0, <2>1 DEF ValidatedAfresh
    <3>2. phase[q] # "done" \/ phase'[q] # "active"
      BY <1>0, JobsStep DEF TypeOK, Dispatch, Start, End, Again, Enqueue
    <3>3. QED
      BY <1>0, <3>1, <3>2 DEF TypeOK
  <2>3. MayPublish(q, artifact[q].distributions)
    BY <1>0, <2>1, <2>2 DEF ValidationHolds
  <2>4. artifact'[q].distributions = artifact[q].distributions
    <3>1. CASE UNCHANGED artifact
      BY <3>1
    <3>2. CASE Produces(r) /\ q # r
      BY <1>0, <3>2 DEF Produces, Prepare, Sign, Package, Assemble, Output, TypeOK
    <3>3. CASE Produces(r) /\ q = r
      BY <1>0, <2>1, <3>3, ReadyInOrder, Levels
      DEF Produces, Prepare, Sign, Package, Assemble, IInv, Job
    <3>4. QED
      BY <3>1, <3>2, <3>3, WhatChanges
  <2>5. CASE UNCHANGED index
    BY <2>3, <2>4, <2>5 DEF MayPublish, Publishable, Files
  <2>6. ASSUME NEW i \in Index, UploadWheel(r, i)
        PROVE  MayPublish(q, artifact[q].distributions)'
    <3>1. PICK f \in Runtime :
            \A h \in Index, c \in Channel, g \in Runtime :
              index'[h][c][g] = IF h = i /\ c = operation[r] /\ g = f
                                THEN artifact[r].distributions ELSE index[h][c][g]
      BY <1>0, <2>6, UploadAdds
    <3>2. phase[r] = "active"
      BY <1>0, <2>6 DEF UploadWheel, PublishJob, IInv, RunningPublishes, Job
    <3>3. operation[q] = operation[r] => q = r
      BY <1>0, <2>2, <3>2 DEF Serial
    <3>4. operation[q] \in Channel
      BY <1>0 DEF TypeOK
    <3>5. ASSUME NEW h \in Index, Publishable(h, q, artifact[q].distributions)
          PROVE  Publishable(h, q, artifact[q].distributions)'
      BY <2>4, <3>1, <3>3, <3>4, <3>5 DEF Publishable, Files
    <3>6. QED
      BY <2>3, <2>4, <3>5 DEF MayPublish, Index
  <2>7. QED
    BY <2>5, <2>6, WhatChanges
<1>3. QED
  BY <1>1, <1>2

(* The wheels that a promotion was begun with stay where they are.         *)
LEMMA HeldStep ==
  ASSUME RInv, NEW r \in Run, RunStep(r), policy = "revalidated",
         UNCHANGED operation
  PROVE  PromotionIsHeld'
<1>0. PromotionIsHeld /\ IInv /\ TypeOK
  BY DEF RInv, Revalidated, IInv
<1> DEFINE Holds(q, c) == /\ operation[q] = c
                          /\ job[q]["package"] = "ok"
                          /\ Indexed("testpypi", q, artifact[q].wheels)
<1>1. ASSUME NEW q \in Run, NEW c \in Channel, Holds(q, c)
      PROVE  Holds(q, c)'
  <2>1. job'[q]["package"] = "ok"
    <3>1. CASE UNCHANGED job
      BY <1>1, <3>1
    <3>2. ASSUME NEW j \in Job, NEW status, Going(r, j), Becomes(r, j, status)
          PROVE  job'[q]["package"] = "ok"
      <4>1. q = r => j # "package"
        BY <1>1, <3>2 DEF Going, Ready
      <4>2. QED
        BY <1>0, <1>1, <3>2, <4>1 DEF Becomes, TypeOK, Job
    <3>3. CASE End(r)
      BY <1>0, <1>1, <3>3 DEF End, TypeOK, Job
    <3>4. CASE Rerun(r)
      <4>1. CASE q = r
        BY <1>0, <1>1, <3>4, <4>1, RevalidateStep
      <4>2. CASE q # r
        BY <1>0, <1>1, <3>4, <4>2, RerunIsClosed DEF Again, IInv, TypeOK
      <4>3. QED
        BY <4>1, <4>2
    <3>5. QED
      BY <1>0, <3>1, <3>2, <3>3, <3>4, JobsStep
  <2>2. artifact'[q].wheels = artifact[q].wheels
    <3>1. CASE UNCHANGED artifact
      BY <3>1
    <3>2. CASE Produces(r) /\ q # r
      BY <1>0, <3>2 DEF Produces, Prepare, Sign, Package, Assemble, Output, TypeOK
    <3>3. CASE q = r /\ (Prepare(r) \/ Sign(r) \/ Package(r))
      BY <1>0, <1>1, <3>3, ReadyInOrder, Levels DEF Prepare, Sign, Package, IInv, Job
    <3>4. CASE q = r /\ Assemble(r)
      BY <1>0, <3>4 DEF Assemble, Output, TypeOK
    <3>5. QED
      BY <3>1, <3>2, <3>3, <3>4, WhatChanges DEF Produces
  <2>3. artifact[q].wheels # None
    <3>1. job[q]["sign"] = "ok" /\ job[q]["prepare"] = "ok"
      BY <1>0, <1>1, Levels DEF IInv, Ordered, Job
    <3>2. artifact[q].wheels = [payload |-> artifact[q].unsigned, profile |-> Profile(q)]
      BY <1>0, <1>1, <3>1 DEF IInv, OutputsNameOneBuild
    <3>3. artifact[q].unsigned \in Payload
      BY <1>0, <3>1 DEF IInv, OutputsNameOneBuild
    <3>4. artifact[q].wheels \in Signed
      BY <3>2, <3>3 DEF Signed, Profile
    <3>5. QED
      BY <3>4, NoneIsNoArtifact
  <2>4. operation[q] \in Channel
    BY <1>0 DEF TypeOK
  <2>5. Indexed("testpypi", q, artifact[q].wheels)'
    BY <1>0, <1>1, <2>2, <2>3, <2>4, IndexKeeps DEF Indexed, Files, Index
  <2>6. QED
    BY <1>1, <2>1, <2>5
<1> SUFFICES ASSUME NEW c \in Channel, Present("pypi", c)' # {}
             PROVE  \E q \in Run : Holds(q, c)'
  BY DEF PromotionIsHeld
<1>2. CASE Present("pypi", c) # {}
  BY <1>0, <1>1, <1>2 DEF PromotionIsHeld
<1>3. CASE Present("pypi", c) = {}
  <2>1. PICK f \in Runtime : index'["pypi"][c][f] # None
    BY DEF Present
  <2>2. index["pypi"][c][f] = None
    BY <1>3 DEF Present
  <2>3. UploadWheel(r, "pypi") /\ operation[r] = c
    BY <1>0, <2>1, <2>2, WhatChanges, UploadAdds DEF Index
  <2>4. job[r]["publish_pypi"] = "running"
    BY <2>3 DEF UploadWheel, PublishJob
  <2>5. /\ job[r]["verify_testpypi"] = "ok" /\ job[r]["assemble"] = "ok"
        /\ job[r]["package"] = "ok"
    BY <1>0, <2>4, Levels DEF IInv, Ordered, Job
  <2>6. Indexed("testpypi", r, artifact[r].wheels)
    BY <1>0, <2>5 DEF IInv, StillStaged, OutputsNameOneBuild
  <2>7. QED
    BY <1>1, <2>3, <2>5, <2>6
<1>4. QED
  BY <1>2, <1>3

(* Every step keeps it.                                                    *)
LEMMA RevalidatedInductive == RInv /\ [Next]_vars => RInv'
<1> SUFFICES ASSUME RInv, [Next]_vars
             PROVE  RInv'
  OBVIOUS
<1>1. IInv'
  BY Inductive DEF RInv
<1>2. UNCHANGED <<operation, policy>>
  BY ArgumentsStay
<1>3. CASE UNCHANGED vars
  BY <1>1, <1>3 DEF vars, RInv, Serial, Revalidated, ValidatedAfresh, ValidationHolds,
     PromotionIsHeld, Present, MayPublish, Publishable, Indexed, Files
<1>4. ASSUME NEW r \in Run, RunStep(r)
      PROVE  RInv'
  BY <1>1, <1>2, <1>4, SerialStep, AfreshStep, ValidationStep, HeldStep
  DEF RInv, Revalidated
<1>5. QED
  BY <1>3, <1>4 DEF Next, RunStep

(* Where retries validate again, no validation is ever stale.              *)
THEOREM RevalidatedInvariant == Spec => []RInv
<1>1. Init => RInv
  BY InitRevalidated
<1>2. QED
  BY <1>1, RevalidatedInductive, PTL DEF Spec

(* Where retries validate again, a promotion that stopped half way can be  *)
(* completed with wheels that some run holds.                              *)
THEOREM PromotionIsRetryable == Spec => []PartialPromotionIsRetryable
<1>1. RInv => PartialPromotionIsRetryable
  <2> SUFFICES ASSUME RInv, policy = "revalidated", NEW c \in Channel,
                      Present("pypi", c) # {}
               PROVE  \E r \in Run : /\ operation[r] = c
                                     /\ job[r]["package"] = "ok"
                                     /\ MayPromote(r, artifact[r].wheels)
    BY DEF PartialPromotionIsRetryable
  <2>1. PICK r \in Run : /\ operation[r] = c
                        /\ job[r]["package"] = "ok"
                        /\ Indexed("testpypi", r, artifact[r].wheels)
    BY DEF RInv, Revalidated, PromotionIsHeld
  <2>2. Publishable("pypi", r, artifact[r].wheels)
    BY <2>1 DEF RInv, IInv, PromotedIsStaged, Publishable, Indexed, Files
  <2>3. QED
    BY <2>1, <2>2 DEF MayPromote
<1>2. QED
  BY <1>1, RevalidatedInvariant, PTL

(* Where retries validate again, no upload mixes builds, on either index.  *)
THEOREM RetriesAreIdentical == Spec => RevalidatedRetriesAreIdentical
<1>1. RInv /\ [Next]_vars => [policy = "revalidated" => AddsIdenticalBytes]_vars
  <2> SUFFICES ASSUME RInv, NEW q \in Run, RunStep(q), policy = "revalidated",
                      NEW i \in Index, NEW r \in Run, NEW f \in Runtime,
                      index[i][operation[r]][f] # index'[i][operation[r]][f]
               PROVE  Present(i, operation[r]) \subseteq {index'[i][operation[r]][f]}
    BY DEF Next, RunStep, AddsIdenticalBytes
  <2>0. IInv /\ TypeOK /\ ValidationHolds
    BY DEF RInv, IInv, Revalidated
  <2>1. /\ UploadWheel(q, i) /\ operation[r] = operation[q]
        /\ index'[i][operation[r]][f] = artifact[q].distributions
    <3>1. operation[r] \in Channel
      BY <2>0 DEF TypeOK
    <3>2. QED
      BY <2>0, <3>1, WhatChanges, UploadAdds
  <2>2. job[q][PublishJob(i)] = "running" /\ PublishJob(i) \in Job
    BY <2>1 DEF UploadWheel, PublishJob, Job
  <2>3. phase[q] = "active" /\ job[q]["assemble"] = "ok"
    BY <2>0, <2>2, Levels DEF IInv, RunningPublishes, Ordered, PublishJob, Job
  <2>4. i = "pypi" => operation[q] = "release"
    BY <2>0, <2>2 DEF IInv, BegunInScope, InScope, PublishJob
  <2>5. Publishable(i, q, artifact[q].distributions)
    BY <2>0, <2>3, <2>4 DEF ValidationHolds, MayPublish, Index
  <2>6. QED
    BY <2>1, <2>5 DEF Publishable, Files, Present
<1>2. QED
  BY <1>1, RevalidatedInvariant, PTL DEF Spec, RevalidatedRetriesAreIdentical
=============================================================================
