---------------------------- MODULE ProviderJobs ----------------------------
(***************************************************************************)
(* The jobs of .github/workflows/VaneExtension.yml that prepare, sign and  *)
(* package the provider, with the scripts they run: ProviderBuild,         *)
(* SigningJob and PackagingJob.  The jobs share uploaded artifacts only; a *)
(* job uploads when its script ended well, and one that is run again       *)
(* starts on a fresh machine, with all the jobs after it.  A build in one  *)
(* process ("full") has no other jobs.                                     *)
(* A machine is discarded with its job, when that has uploaded its result. *)
(***************************************************************************)
EXTENDS ProviderBuild, SigningJob, PackagingJob

CONSTANT MaxReruns   \* bound: jobs run again

VARIABLES
  bundle,          \* upload of the preparation
  signedBundle,    \* upload of the signing job
  wheels,          \* upload of the packaging job
  reruns

uploads == <<bundle, signedBundle, wheels>>
vars == <<buildVars, signVars, packVars, uploads, reruns>>

Init ==
  /\ BuildInit /\ SignInit /\ PackInit
  /\ bundle = None /\ signedBundle = None /\ wheels = None
  /\ reruns = 0

Build == bundle = None /\ BuildNext /\ UNCHANGED <<signVars, packVars, uploads, reruns>>
Sign  == SignNext /\ UNCHANGED <<buildVars, packVars, uploads, reruns>>
Pack  == PackNext /\ UNCHANGED <<buildVars, signVars, uploads, reruns>>
-----------------------------------------------------------------------------
UploadBundle ==
  /\ phase = "prepare" /\ buildAt = "idle" /\ buildVerdict = "ok"
  /\ bundle' = bundleOut
  /\ BuildAfresh
  /\ UNCHANGED <<signVars, packVars, signedBundle, wheels, reruns>>

DownloadToSign ==
  /\ bundle # None /\ signedBundle = None /\ incoming = None
  /\ incoming' = bundle.artifact
  /\ UNCHANGED <<buildVars, signRun, signTries, secret, prepared, signRaising,
                 signKeys, lost, signedOut, edits, packVars, uploads, reruns>>

UploadSigned ==
  /\ signAt = "idle" /\ signVerdict = "ok"
  /\ signedBundle' = signedOut
  /\ SignAfresh
  /\ UNCHANGED <<buildVars, packVars, bundle, wheels, reruns>>

(* Each by the identifier its own producer reported.                       *)
DownloadToPackage ==
  /\ signedBundle # None /\ wheels = None /\ bundleIn = None
  /\ bundleIn' = bundle /\ signedIn' = signedBundle
  /\ UNCHANGED <<buildVars, signVars, packRun, packTries, requested, built,
                 wheelsOut, uploads, reruns>>

UploadWheels ==
  /\ packAt = "idle" /\ packVerdict = "ok"
  /\ wheels' = wheelsOut
  /\ PackAfresh
  /\ UNCHANGED <<buildVars, signVars, bundle, signedBundle, reruns>>

(* A job is run again, and so are the jobs after it.                       *)
Rerun(first) ==
  /\ phase = "prepare" /\ reruns < MaxReruns /\ reruns' = reruns + 1
  /\ IF first = "prepare" THEN BuildAfresh /\ bundle' = None
                          ELSE UNCHANGED <<buildVars, bundle>>
  /\ IF first \in {"prepare", "sign"} THEN SignAfresh /\ signedBundle' = None
                                      ELSE UNCHANGED <<signVars, signedBundle>>
  /\ PackAfresh /\ wheels' = None

Next ==
  \/ Build \/ Sign \/ Pack
  \/ UploadBundle \/ DownloadToSign \/ UploadSigned
  \/ DownloadToPackage \/ UploadWheels
  \/ \E first \in {"prepare", "sign", "package"} : Rerun(first)

Spec == Init /\ [][Next]_vars
-----------------------------------------------------------------------------
(* No script leaves a private key on disk, whatever fails, short of being  *)
(* killed or of every erasure failing.                                     *)
KeysErased == BuildKeysErased /\ SignKeysErased

(* A finished result is complete, and of one build: the local wheels of    *)
(* the one-process build, and the bundle that is handed to the signer.     *)
BuildIsComplete == FullIsComplete /\ PreparedIsComplete

(* What a script has finished, no later attempt in the same workspace      *)
(* writes to: it refuses instead.                                          *)
Finished(file) == file # None /\ file.artifact # None /\ file.licenses

FinishedStands ==
  [][ /\ Finished(bundleOut) => bundleOut' \in {bundleOut, None}
      /\ localWheels \subseteq localWheels'
      /\ signedOut # None /\ edits' = edits => signedOut' \in {signedOut, None}
      /\ wheelsOut \subseteq wheelsOut' \/ wheelsOut' = {} ]_vars

(* The jobs together: wheels of the prepared build, or none, although the  *)
(* signing job may have been given, or have left, anything.                *)
CodeFor(runtime) ==
  LET artifacts == {w.artifact : w \in {v \in wheels : v.runtime = runtime}}
  IN  IF \E p \in Payload : artifacts = {[payload |-> p, slot |-> "trusted"]}
      THEN CHOOSE p \in Payload : artifacts = {[payload |-> p, slot |-> "trusted"]}
      ELSE Torn

Chain == INSTANCE ArtifactChain WITH
  Code <- Payload, Target <- ToSet(Runtimes), Nothing <- None,
  code <- IF bundle = None THEN None ELSE bundle.artifact.payload,
  wheels <- IF wheels = None THEN None ELSE [r \in ToSet(Runtimes) |-> CodeFor(r)]

ImplementsArtifactChain == Chain!Spec
=============================================================================
