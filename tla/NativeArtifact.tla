--------------------------- MODULE NativeArtifact ---------------------------
(***************************************************************************)
(* The native extension as the provider scripts see it: what the build     *)
(* made (the payload, everything but the last 256 bytes) and the slot at   *)
(* the end that holds a signature.  And the wheels made of it.             *)
(***************************************************************************)
EXTENDS Naturals, FiniteSets, Sequences, SequencesExt

CONSTANTS
  Payload,         \* native code a build may produce (builds may differ)
  Torn,            \* the payload of a file that was not written to its end
  None,            \* a file or a directory entry that does not exist
  Runtimes,        \* the runtimes that wheels are wanted for, in order
  MaxTries         \* bound: attempts of a script in one workspace

ASSUME PayloadsAreDistinct == Torn \notin Payload /\ None \notin Payload

(* The workflow names five different interpreters.                         *)
ASSUME RuntimesAreDistinct ==
  /\ Runtimes \in Seq(ToSet(Runtimes))
  /\ \A i, j \in DOMAIN Runtimes : Runtimes[i] = Runtimes[j] => i = j

(* The slot: all zero, signed by the key the runtimes trust, or anything   *)
(* else.                                                                   *)
Slot == {"empty", "trusted", "foreign"}

File == [payload : Payload \cup {Torn}, slot : Slot]

(* What the preparation hands over: the artifact and the licenses.         *)
Bundle == [artifact : File \cup {None}, licenses : BOOLEAN]

ASSUME NoneIsNoFile == None \notin File /\ None \notin Bundle

Unsigned(payload) == [payload |-> payload, slot |-> "empty"]

(* What is left of a copy or a signature that stopped half way.            *)
Half == [payload |-> Torn, slot |-> "foreign"]

(* The payload of an artifact that is still to be signed, or None.         *)
require_artifact(file) ==
  IF file # None /\ file.slot = "empty" THEN file.payload ELSE None

(* The signed artifact is what was prepared, in all but the slot.          *)
require_signed_artifact(file, prepared) ==
  file # None /\ file.payload = prepared /\ file.slot # "empty"

(* Mutant: both sides are taken from the signing job.                      *)
require_signed_payload_one_sided(unsigned, signed) ==
  require_signed_artifact(signed, signed.payload)

(* The packaging job compares the two files itself.                        *)
require_signed_payload(unsigned, signed) ==
  /\ require_artifact(unsigned) # None
  /\ require_signed_artifact(signed, unsigned.payload)
-----------------------------------------------------------------------------
(* A wheel for a runtime.  The packaging tool names it, for that runtime   *)
(* or for all of them.                                                     *)
WheelName(runtime) == {runtime, "any"}

Wheel(name, runtime, file) ==
  [name |-> name, runtime |-> runtime, artifact |-> file]

(* Two wheels of one name would overwrite each other.                      *)
DistinctNames(wheels) ==
  Cardinality({w.name : w \in ToSet(wheels)}) = Len(wheels)

(* The wheels are copied in their order: which of them are not yet in a    *)
(* directory, and which of these is the next one (if there is one).        *)
NotYet(wheels, directory) == {i \in DOMAIN wheels : wheels[i] \notin directory}

NextOf(wheels, directory) ==
  {i \in NotYet(wheels, directory) : \A j \in NotYet(wheels, directory) : i <= j}

(* The tool's own check of a wheel against a runtime accepts nothing but   *)
(* native code signed by the trusted key.                                  *)
Verified(file) == file # None /\ file.slot = "trusted"

(* A complete set: one wheel for each runtime, all of the same code.       *)
Complete(wheels, runtimes, payload) ==
  /\ {w.runtime : w \in wheels} = runtimes
  /\ Cardinality(wheels) = Cardinality(runtimes)
  /\ \A w \in wheels : w.artifact = [payload |-> payload, slot |-> "trusted"]
=============================================================================
