----------------------------- MODULE SigningJob -----------------------------
(***************************************************************************)
(* scripts/sign_vane_dynamic_bundle.py sign: one process per attempt.      *)
(*                                                                         *)
(* The key arrives in the environment, is written to a file for as long as *)
(* the signing tool runs, and the result must be the prepared artifact in  *)
(* all but the signature.  Other processes of the job may edit the input   *)
(* and the output at any moment, which the script must not be fooled by.   *)
(***************************************************************************)
EXTENDS NativeArtifact

CONSTANT MaxEdits   \* bound: edits by others in one workspace

VARIABLES
  signAt,          \* where the process is, "idle" when there is none
  signTries,       \* attempts started
  signVerdict,     \* how the last one ended
  secret,          \* the key it was given has the pinned fingerprint
  prepared,        \* payload of the input as snapshot, None before
  signRaising,     \* an error is on its way out of the with block
  signKeys,        \* attempts whose key file still holds the key
  lost,            \* erasures of the current attempt that did not happen
  incoming,        \* the downloaded artifact
  signedOut,       \* the file in the output directory
  edits            \* edits by others so far

signRun   == <<signAt, signVerdict>>
signFiles == <<incoming, signedOut>>
signVars  == <<signRun, signTries, secret, prepared, signRaising, signKeys, lost,
               signFiles, edits>>

SignInit ==
  /\ signAt = "idle" /\ signTries = 0 /\ signVerdict = "none"
  /\ secret = FALSE /\ prepared = None /\ signRaising = FALSE
  /\ signKeys = {} /\ lost = {}
  /\ incoming = None /\ signedOut = None /\ edits = 0
-----------------------------------------------------------------------------
SignEnds(verdict) == signAt' = "idle" /\ signVerdict' = verdict

SignGoes(from, to) ==
  signAt = from /\ signAt' = to /\ UNCHANGED signVerdict

SignRequires(condition, from, to) ==
  /\ signAt = from
  /\ IF condition THEN SignGoes(from, to) ELSE SignEnds("failed")

(* A process with the key in its environment, from where main() removes it.*)
SignStart ==
  /\ signAt = "idle" /\ signTries < MaxTries /\ incoming # None
  /\ signAt' = "source" /\ signVerdict' = "none"
  /\ signTries' = signTries + 1
  /\ secret' \in BOOLEAN
  /\ prepared' = None /\ signRaising' = FALSE /\ lost' = {}
  /\ UNCHANGED <<signKeys, signFiles, edits>>

(* The manifest is the committed one and the tool's checkout is clean.     *)
CheckSource ==
  /\ SignGoes("source", "snapshot")
  /\ UNCHANGED <<signTries, secret, prepared, signRaising, signKeys, lost,
                 signFiles, edits>>

Snapshot ==
  /\ SignRequires(require_artifact(incoming) # None, "snapshot", "fingerprint")
  /\ prepared' = require_artifact(incoming)
  /\ UNCHANGED <<signTries, secret, signRaising, signKeys, lost, signFiles, edits>>

require_key_fingerprint ==
  /\ SignRequires(secret, "fingerprint", "claim")
  /\ UNCHANGED <<signTries, secret, prepared, signRaising, signKeys, lost,
                 signFiles, edits>>

(* The output directory is made, and must be empty.                        *)
ClaimOutput ==
  /\ SignRequires(signedOut = None, "claim", "write")
  /\ UNCHANGED <<signTries, secret, prepared, signRaising, signKeys, lost,
                 signFiles, edits>>

WriteKey ==
  /\ SignGoes("write", "tool")
  /\ signKeys' = signKeys \cup {signTries}
  /\ UNCHANGED <<signTries, secret, prepared, signRaising, lost, signFiles, edits>>

(* Writing raises inside the try statement, with or without the key on     *)
(* disk; or just before it, when the file is still empty.                  *)
WriteRaises ==
  /\ signAt = "write" /\ UNCHANGED signVerdict
  /\ signRaising' = TRUE
  /\ \/ signAt' = "wipe" /\ signKeys' \in {signKeys, signKeys \cup {signTries}}
     \/ signAt' = "remove" /\ UNCHANGED signKeys
  /\ UNCHANGED <<signTries, secret, prepared, lost, signFiles, edits>>

(* The tool reads the input as it is now.  It ends well or it does not,    *)
(* and then may leave part of the output.                                  *)
SignTool ==
  /\ SignGoes("tool", "wipe")
  /\ \/ signedOut' = [incoming EXCEPT !.slot = "trusted"] /\ UNCHANGED signRaising
     \/ signedOut' \in {signedOut, Half} /\ signRaising' = TRUE
  /\ UNCHANGED <<signTries, secret, prepared, signKeys, lost, incoming, edits>>

(* Mutant: an error of the wipe is taken for the end of it all.            *)
Wipe_last ==
  /\ signAt = "wipe"
  /\ \/ /\ SignGoes("wipe", "remove")
        /\ signKeys' = signKeys \ {signTries} /\ UNCHANGED <<signRaising, lost>>
     \/ /\ SignEnds("failed")
        /\ lost' = lost \cup {"wipe"} /\ UNCHANGED <<signRaising, signKeys>>
  /\ UNCHANGED <<signTries, secret, prepared, signFiles, edits>>

(* The finally block overwrites and unlinks the key file.                  *)
Wipe ==
  /\ SignGoes("wipe", "remove")
  /\ \/ signKeys' = signKeys \ {signTries} /\ UNCHANGED <<signRaising, lost>>
     \/ signRaising' = TRUE /\ lost' = lost \cup {"wipe"} /\ UNCHANGED signKeys
  /\ UNCHANGED <<signTries, secret, prepared, signFiles, edits>>

(* The with block removes its directory with all that is left in it.       *)
RemoveDirectory ==
  /\ signAt = "remove"
  /\ \/ /\ IF signRaising THEN SignEnds("failed") ELSE SignGoes("remove", "inspect")
        /\ signKeys' = signKeys \ {signTries} /\ UNCHANGED lost
     \/ /\ SignEnds("failed")
        /\ lost' = lost \cup {"remove"} /\ UNCHANGED signKeys
  /\ UNCHANGED <<signTries, secret, prepared, signRaising, signFiles, edits>>

Inspect ==
  /\ signAt = "inspect"
  /\ SignEnds(IF require_signed_artifact(signedOut, prepared) THEN "ok" ELSE "failed")
  /\ UNCHANGED <<signTries, secret, prepared, signRaising, signKeys, lost,
                 signFiles, edits>>

(* An error or an interrupt where no key file exists.                      *)
SignRaises ==
  /\ signAt \in {"source", "snapshot", "fingerprint", "claim", "inspect"}
  /\ SignEnds("failed")
  /\ UNCHANGED <<signTries, secret, prepared, signRaising, signKeys, lost,
                 signFiles, edits>>

SignKilled ==
  /\ signAt # "idle" /\ SignEnds("killed")
  /\ signedOut' \in IF signAt = "tool" THEN {signedOut, Half} ELSE {signedOut}
  /\ UNCHANGED <<signTries, secret, prepared, signRaising, signKeys, lost,
                 incoming, edits>>

(* Another process of the job writes the input or the output.              *)
Edit ==
  /\ edits < MaxEdits /\ edits' = edits + 1
  /\ \E payload \in Payload, slot \in Slot :
       LET file == [payload |-> payload, slot |-> slot]
       IN  \/ /\ incoming # None /\ incoming' = file
              /\ UNCHANGED signedOut
           \/ /\ signedOut # None /\ signedOut' = file
              /\ UNCHANGED incoming
  /\ UNCHANGED <<signRun, signTries, secret, prepared, signRaising, signKeys, lost>>

(* What a job on a fresh machine starts from.                              *)
SignAfresh ==
  /\ signAt' = "idle" /\ signTries' = 0 /\ signVerdict' = "none"
  /\ secret' = FALSE /\ prepared' = None /\ signRaising' = FALSE
  /\ signKeys' = {} /\ lost' = {}
  /\ incoming' = None /\ signedOut' = None /\ edits' = 0

SignNext ==
  \/ SignStart \/ CheckSource \/ Snapshot \/ require_key_fingerprint
  \/ ClaimOutput \/ WriteKey \/ WriteRaises \/ SignTool \/ Wipe \/ RemoveDirectory
  \/ Inspect \/ SignRaises \/ SignKilled \/ Edit
-----------------------------------------------------------------------------
(* A process that was not killed leaves no key behind unless both ways of  *)
(* erasing it failed, and then it does not succeed; and only a key with    *)
(* the right fingerprint was ever written.                                 *)
SignKeysErased ==
  /\ signAt \in {"idle", "inspect"} /\ signTries \in signKeys
       => signVerdict = "killed" \/ lost = {"wipe", "remove"}
  /\ signVerdict = "ok" => signTries \notin signKeys
  /\ signTries \in signKeys => secret
=============================================================================
