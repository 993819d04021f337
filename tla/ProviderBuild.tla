---------------------------- MODULE ProviderBuild ----------------------------
(***************************************************************************)
(* scripts/build_vane_dynamic_wheel.py: one process per attempt.           *)
(*                                                                         *)
(* "prepare" leaves the unsigned native code with its licenses for the     *)
(* signing job; "full" signs with the public test key and packages in the  *)
(* same process, for CI and for developers.  Every step may raise, the     *)
(* process may be killed, and the next attempt finds the directories as    *)
(* they were left.                                                         *)
(***************************************************************************)
EXTENDS NativeArtifact

VARIABLES
  phase,           \* argument: "full" or "prepare"
  consume,         \* argument: the input key is removed once it was read
  trusted,         \* the key in the input file is the one runtimes trust
  buildAt,         \* where the process is, "idle" when there is none
  buildTries,      \* attempts started
  buildVerdict,    \* how the last one ended
  inputKey,        \* the input file still holds the key
  buildKeys,       \* attempts whose own key file still holds the key
  eraseFailed,     \* the current attempt could not erase its key file
  raising,         \* an error is on its way through the finally block
  native,          \* the artifact in the build directory
  signedNative,    \* its signed copy there
  staged,          \* wheels in the temporary directory
  bundleOut,       \* output directory of prepare
  localWheels      \* wheels in the output directory of full

buildArgs  == <<phase, consume, trusted>>
buildKeyVars == <<inputKey, buildKeys, eraseFailed, raising>>
buildFiles == <<native, signedNative, staged>>
buildOut   == <<bundleOut, localWheels>>
buildVars  == <<buildArgs, buildAt, buildTries, buildVerdict, buildKeyVars,
                buildFiles, buildOut>>

Phase == {"full", "prepare"}

BuildInit ==
  /\ phase \in Phase
  /\ consume \in BOOLEAN /\ trusted \in BOOLEAN
  /\ phase = "prepare" => ~consume /\ trusted       \* _validate_phase
  /\ buildAt = "idle" /\ buildTries = 0 /\ buildVerdict = "none"
  /\ inputKey = (phase = "full")
  /\ buildKeys = {} /\ eraseFailed = FALSE /\ raising = FALSE
  /\ native = None /\ signedNative = None /\ staged = <<>>
  /\ bundleOut = None /\ localWheels = {}
-----------------------------------------------------------------------------
BuildEnds(verdict) == buildAt' = "idle" /\ buildVerdict' = verdict

BuildGoes(from, to) ==
  buildAt = from /\ buildAt' = to /\ UNCHANGED buildVerdict

(* Mutant: wheels in the output directory do not matter.                   *)
BuildStart_unchecked ==
  /\ buildAt = "idle" /\ buildTries < MaxTries
  /\ buildTries' = buildTries + 1
  /\ staged' = <<>> /\ eraseFailed' = FALSE /\ raising' = FALSE
  /\ buildAt' = (IF phase = "full" THEN "key" ELSE "base")
  /\ buildVerdict' = "none"
  /\ UNCHANGED <<buildArgs, inputKey, buildKeys, native, signedNative, buildOut>>

(* A new process.  Its temporary directories are its own; a wheel in the   *)
(* output directory is refused before anything is built.                   *)
BuildStart ==
  /\ buildAt = "idle" /\ buildTries < MaxTries
  /\ buildTries' = buildTries + 1
  /\ staged' = <<>> /\ eraseFailed' = FALSE /\ raising' = FALSE
  /\ IF localWheels # {}
     THEN BuildEnds("failed")
     ELSE /\ buildAt' = IF phase = "full" THEN "key" ELSE "base"
          /\ buildVerdict' = "none"
  /\ UNCHANGED <<buildArgs, inputKey, buildKeys, native, signedNative, buildOut>>

(* The key is read, and removed before the first build process starts.     *)
ReadKey ==
  /\ inputKey
  /\ BuildGoes("key", "base")
  /\ inputKey' = ~consume
  /\ UNCHANGED <<buildArgs, buildTries, buildKeys, eraseFailed, raising,
                 buildFiles, buildOut>>

BuildBase ==
  /\ BuildGoes("base", "compile")
  /\ UNCHANGED <<buildArgs, buildTries, buildKeyVars, buildFiles, buildOut>>

(* The artifact replaces that of an earlier attempt, and need not be equal *)
(* to it.                                                                  *)
Compile ==
  /\ BuildGoes("compile", "licenses")
  /\ \E payload \in Payload : native' = Unsigned(payload)
  /\ UNCHANGED <<buildArgs, buildTries, buildKeyVars, signedNative, staged,
                 buildOut>>

StageLicenses ==
  /\ BuildGoes("licenses", IF phase = "full" THEN "write" ELSE "emit")
  /\ UNCHANGED <<buildArgs, buildTries, buildKeyVars, buildFiles, buildOut>>
-----------------------------------------------------------------------------
(* Mutant: whatever is in the output directory is written over.            *)
EmitDirectories_anyway ==
  /\ BuildGoes("emit", "copy_native")
  /\ bundleOut' = IF bundleOut = None THEN [artifact |-> None, licenses |-> FALSE]
                                      ELSE bundleOut
  /\ UNCHANGED <<buildArgs, buildTries, buildKeyVars, buildFiles, localWheels>>

(* prepare: the output directory must be empty; then the files are copied. *)
EmitDirectories ==
  /\ bundleOut = None
  /\ BuildGoes("emit", "copy_native")
  /\ bundleOut' = [artifact |-> None, licenses |-> FALSE]
  /\ UNCHANGED <<buildArgs, buildTries, buildKeyVars, buildFiles, localWheels>>

CopyNative ==
  /\ BuildGoes("copy_native", "copy_licenses")
  /\ bundleOut' = [bundleOut EXCEPT !.artifact = native]
  /\ UNCHANGED <<buildArgs, buildTries, buildKeyVars, buildFiles, localWheels>>

CopyLicenses ==
  /\ buildAt = "copy_licenses" /\ BuildEnds("ok")
  /\ bundleOut' = [bundleOut EXCEPT !.licenses = TRUE]
  /\ UNCHANGED <<buildArgs, buildTries, buildKeyVars, buildFiles, localWheels>>
-----------------------------------------------------------------------------
(* full: a key file of this attempt, the signing tool, and the finally     *)
(* block that destroys the file, whatever the tool did.                    *)
WriteBuildKey ==
  /\ BuildGoes("write", "tool")
  /\ buildKeys' = buildKeys \cup {buildTries}
  /\ UNCHANGED <<buildArgs, buildTries, inputKey, eraseFailed, raising,
                 buildFiles, buildOut>>

SignNative ==
  /\ BuildGoes("tool", "erase")
  /\ \/ /\ signedNative' = [native EXCEPT !.slot = IF trusted THEN "trusted"
                                                              ELSE "foreign"]
        /\ UNCHANGED raising
     \/ /\ signedNative' \in {signedNative, Half}
        /\ raising' = TRUE
  /\ UNCHANGED <<buildArgs, buildTries, inputKey, buildKeys, eraseFailed,
                 native, staged, buildOut>>

EraseBuildKey ==
  /\ buildAt = "erase"
  /\ IF raising THEN BuildEnds("failed") ELSE BuildGoes("erase", "wheels")
  /\ buildKeys' = buildKeys \ {buildTries}
  /\ UNCHANGED <<buildArgs, buildTries, inputKey, eraseFailed, raising,
                 buildFiles, buildOut>>

(* Its directory is not temporary: a file that cannot be erased stays.     *)
BuildKeyStays ==
  /\ buildAt = "erase" /\ BuildEnds("failed")
  /\ eraseFailed' = TRUE
  /\ buildKeys' \in {buildKeys, buildKeys \ {buildTries}}
  /\ UNCHANGED <<buildArgs, buildTries, inputKey, raising,
                 buildFiles, buildOut>>

(* One wheel per runtime, each verified with its runtime.                  *)
BuildLocalWheel ==
  /\ Len(staged) < Len(Runtimes)
  /\ Verified(signedNative)
  /\ BuildGoes("wheels", "wheels")
  /\ LET runtime == Runtimes[Len(staged) + 1]
     IN  \E name \in WheelName(runtime) :
           staged' = Append(staged, Wheel(name, runtime, signedNative))
  /\ UNCHANGED <<buildArgs, buildTries, buildKeyVars, native, signedNative,
                 buildOut>>

(* With a wheel for every runtime, under names of their own, they are      *)
(* copied out one by one; a file of that name must not exist.              *)
CopyLocalWheel ==
  /\ buildAt \in {"wheels", "copy"}
  /\ Len(staged) = Len(Runtimes) /\ DistinctNames(staged)
  /\ \E i \in NextOf(staged, localWheels) :
       /\ \A w \in localWheels : w.name # staged[i].name
       /\ localWheels' = localWheels \cup {staged[i]}
       /\ IF NotYet(staged, localWheels) = {i}
          THEN BuildEnds("ok")
          ELSE buildAt' = "copy" /\ UNCHANGED buildVerdict
  /\ UNCHANGED <<buildArgs, buildTries, buildKeyVars, buildFiles, bundleOut>>
-----------------------------------------------------------------------------
(* What a copy that is under way may leave in the output directory.        *)
CopyStops ==
  \/ UNCHANGED buildOut
  \/ /\ buildAt = "copy_native"
     /\ bundleOut' = [bundleOut EXCEPT !.artifact = Half]
     /\ UNCHANGED localWheels
  \/ /\ buildAt \in {"wheels", "copy"}
     /\ Len(staged) = Len(Runtimes) /\ DistinctNames(staged)
     /\ \E i \in NextOf(staged, localWheels) :
          localWheels' = localWheels \cup {[staged[i] EXCEPT !.artifact = Half]}
     /\ UNCHANGED bundleOut

(* Any step raises: a missing key, a failing tool, a full disk, an         *)
(* interrupt, or a check of the step that does not hold.                   *)
BuildRaises ==
  /\ buildAt \notin {"idle", "write", "tool", "erase"} /\ BuildEnds("failed")
  /\ inputKey' \in IF buildAt = "key" /\ consume THEN {inputKey, FALSE}
                                                 ELSE {inputKey}
  /\ CopyStops
  /\ UNCHANGED <<buildArgs, buildTries, buildKeys, eraseFailed, raising, buildFiles>>

(* Writing the key raises inside the try statement.                        *)
BuildWriteRaises ==
  /\ BuildGoes("write", "erase")
  /\ raising' = TRUE
  /\ buildKeys' \in {buildKeys, buildKeys \cup {buildTries}}
  /\ UNCHANGED <<buildArgs, buildTries, inputKey, eraseFailed, buildFiles, buildOut>>

(* Killed in the middle of a step.                                         *)
BuildKilled ==
  /\ buildAt # "idle" /\ BuildEnds("killed")
  /\ CopyStops
  /\ signedNative' \in IF buildAt = "tool" THEN {signedNative, Half}
                                           ELSE {signedNative}
  /\ UNCHANGED <<buildArgs, buildTries, buildKeyVars, native, staged>>

(* What a job on a fresh machine starts from.                              *)
BuildAfresh ==
  /\ UNCHANGED buildArgs
  /\ buildAt' = "idle" /\ buildTries' = 0 /\ buildVerdict' = "none"
  /\ inputKey' = FALSE /\ buildKeys' = {}
  /\ eraseFailed' = FALSE /\ raising' = FALSE
  /\ native' = None /\ signedNative' = None /\ staged' = <<>>
  /\ bundleOut' = None /\ localWheels' = {}

BuildNext ==
  \/ BuildStart \/ ReadKey \/ BuildBase \/ Compile \/ StageLicenses
  \/ EmitDirectories \/ CopyNative \/ CopyLicenses
  \/ WriteBuildKey \/ SignNative \/ EraseBuildKey \/ BuildKeyStays
  \/ BuildLocalWheel \/ CopyLocalWheel
  \/ BuildRaises \/ BuildWriteRaises \/ BuildKilled

BuildSpec == BuildInit /\ [][BuildNext]_buildVars
-----------------------------------------------------------------------------
(* A key file of the build exists while the signing tool needs it and at   *)
(* no other time, unless the process was killed or the file could not be   *)
(* erased; and a key that is to be consumed is gone before a build process *)
(* runs.                                                                   *)
BuildKeysErased ==
  /\ buildAt \notin {"tool", "erase"} /\ buildTries \in buildKeys
       => eraseFailed \/ buildVerdict = "killed"
  /\ consume /\ buildAt \in {"base", "compile", "licenses", "tool", "wheels"}
       => ~inputKey

(* full: a build that ends well leaves the complete set of its own wheels, *)
(* whatever earlier attempts left behind.                                  *)
FullIsComplete ==
  phase = "full" /\ buildVerdict = "ok" =>
    Complete(localWheels, ToSet(Runtimes), native.payload)

(* prepare: a build that ends well leaves its own artifact and all of the  *)
(* licenses.                                                               *)
PreparedIsComplete ==
  phase = "prepare" /\ buildVerdict = "ok" =>
    bundleOut = [artifact |-> native, licenses |-> TRUE]
=============================================================================
