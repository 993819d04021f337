---------------------------- MODULE PackagingJob ----------------------------
(***************************************************************************)
(* scripts/package_vane_dynamic_wheel.py: one process per attempt, in a    *)
(* job that has neither a compiler nor a key.  It compares the signed      *)
(* artifact with the unsigned one it downloaded itself, makes and verifies *)
(* one wheel per runtime in a temporary directory, and copies them out.    *)
(***************************************************************************)
EXTENDS NativeArtifact

CONSTANT Requests   \* what --runtime-wheel may name, sequences of runtimes

(* The workflow names every runtime, so that arguments that pass the check *)
(* for distinct targets name all of them.                                  *)
ASSUME RequestsNameAllRuntimes ==
  \A request \in Requests :
    /\ request \in Seq(ToSet(Runtimes))
    /\ Cardinality(ToSet(request)) = Len(request)
         => ToSet(request) = ToSet(Runtimes)

VARIABLES
  packAt,          \* where the process is, "idle" when there is none
  packTries,       \* attempts started
  packVerdict,     \* how the last one ended
  requested,       \* runtimes named by the arguments of the attempt
  bundleIn,        \* download of the preparation: artifact and licenses
  signedIn,        \* download of the signing job
  built,           \* verified wheels in the temporary directory
  wheelsOut        \* wheels in the output directory

packRun  == <<packAt, packVerdict>>
packIn   == <<bundleIn, signedIn>>
packVars == <<packRun, packTries, requested, packIn, built, wheelsOut>>

PackInit ==
  /\ packAt = "idle" /\ packTries = 0 /\ packVerdict = "none"
  /\ requested = <<>> /\ bundleIn = None /\ signedIn = None
  /\ built = <<>> /\ wheelsOut = {}
-----------------------------------------------------------------------------
PackEnds(verdict) == packAt' = "idle" /\ packVerdict' = verdict

PackRequires(condition, from, to) ==
  /\ packAt = from
  /\ IF condition THEN packAt' = to /\ UNCHANGED packVerdict
                  ELSE PackEnds("failed")
  /\ UNCHANGED <<packTries, requested, packIn, built, wheelsOut>>

PackStart ==
  /\ packAt = "idle" /\ packTries < MaxTries /\ bundleIn # None /\ signedIn # None
  /\ packAt' = "runtimes" /\ packVerdict' = "none"
  /\ packTries' = packTries + 1
  /\ requested' \in Requests
  /\ built' = <<>>
  /\ UNCHANGED <<packIn, wheelsOut>>

(* Each runtime wheel is for a CPython of its own.                         *)
require_runtime_wheels ==
  PackRequires(Cardinality(ToSet(requested)) = Len(requested),
               "runtimes", "payload")

RequireSignedPayload ==
  PackRequires(require_signed_payload(bundleIn.artifact, signedIn),
               "payload", "licenses")

require_licenses == PackRequires(bundleIn.licenses, "licenses", "claim")

ClaimDirectory == PackRequires(wheelsOut = {}, "claim", "wheels")

(* The tool builds a wheel and verifies it against its runtime.            *)
BuildWheel ==
  /\ packAt = "wheels" /\ Len(built) < Len(requested)
  /\ IF Verified(signedIn)
     THEN /\ UNCHANGED packRun
          /\ LET runtime == requested[Len(built) + 1]
             IN  \E name \in WheelName(runtime) :
                   built' = Append(built, Wheel(name, runtime, signedIn))
     ELSE PackEnds("failed") /\ UNCHANGED built
  /\ UNCHANGED <<packTries, requested, packIn, wheelsOut>>

RequireDistinctNames ==
  /\ Len(built) = Len(requested)
  /\ PackRequires(DistinctNames(built), "wheels", "copy")

(* shutil.copyfile, one wheel after the other.                             *)
CopyWheel ==
  /\ packAt = "copy"
  /\ IF NotYet(built, wheelsOut) = {}
     THEN PackEnds("ok") /\ UNCHANGED wheelsOut
     ELSE /\ \E i \in NextOf(built, wheelsOut) :
               wheelsOut' = {w \in wheelsOut : w.name # built[i].name}
                              \cup {built[i]}
          /\ UNCHANGED packRun
  /\ UNCHANGED <<packTries, requested, packIn, built>>

(* What a copy that is under way may leave in the output directory.        *)
PackCopyStops ==
  \/ UNCHANGED wheelsOut
  \/ /\ packAt = "copy"
     /\ \E i \in NextOf(built, wheelsOut) :
          wheelsOut' = wheelsOut \cup {[built[i] EXCEPT !.artifact = Half]}

(* Any step raises, or the process is killed.                              *)
PackStops ==
  /\ packAt # "idle" /\ \E verdict \in {"failed", "killed"} : PackEnds(verdict)
  /\ PackCopyStops
  /\ UNCHANGED <<packTries, requested, packIn, built>>

(* What a job on a fresh machine starts from.                              *)
PackAfresh ==
  /\ packAt' = "idle" /\ packTries' = 0 /\ packVerdict' = "none"
  /\ requested' = <<>> /\ bundleIn' = None /\ signedIn' = None
  /\ built' = <<>> /\ wheelsOut' = {}

PackNext ==
  \/ PackStart \/ require_runtime_wheels \/ RequireSignedPayload
  \/ require_licenses \/ ClaimDirectory \/ BuildWheel \/ RequireDistinctNames
  \/ CopyWheel \/ PackStops
=============================================================================
