------------------------- MODULE ProviderJobs_proofs -------------------------
(***************************************************************************)
(* Proofs about ProviderJobs, for every set of builds, every list of       *)
(* runtimes, and any number of attempts, edits and jobs run again; and, at *)
(* the end, about BisonFetch, whose cache the builds share.                *)
(***************************************************************************)
EXTENDS ProviderJobs, BisonFetch, FiniteSetTheorems, TLAPS

WheelRecord == [name : ToSet(Runtimes) \cup {"any"}, runtime : ToSet(Runtimes),
                artifact : File]

Verdict == {"none", "failed", "ok", "killed"}
-----------------------------------------------------------------------------
(***************************************************************************)
(* The inductive invariant of the build script.                            *)
(***************************************************************************)
BuildPlace == {"idle", "key", "base", "compile", "licenses", "emit",
               "copy_native", "copy_licenses", "write", "tool", "erase",
               "wheels", "copy"}

BuildTypes ==
  /\ phase \in Phase /\ consume \in BOOLEAN /\ trusted \in BOOLEAN
  /\ buildAt \in BuildPlace /\ buildTries \in Nat /\ buildVerdict \in Verdict
  /\ inputKey \in BOOLEAN /\ eraseFailed \in BOOLEAN /\ raising \in BOOLEAN
  /\ buildKeys \subseteq 0 .. buildTries
  /\ native \in {Unsigned(p) : p \in Payload} \cup {None}
  /\ signedNative \in File \cup {None}
  /\ staged \in Seq(WheelRecord)
  /\ bundleOut \in Bundle \cup {None}
  /\ localWheels \subseteq WheelRecord

(* Which phase goes where, and what it has on its way.                     *)
BuildPlaces ==
  /\ buildAt # "idle" => buildVerdict = "none"
  /\ consume => phase = "full"
  /\ buildAt \in {"key", "write", "tool", "erase", "wheels", "copy"} => phase = "full"
  /\ buildAt \in {"emit", "copy_native", "copy_licenses"} => phase = "prepare"
  /\ phase = "prepare" => localWheels = {}
  /\ buildAt \notin {"idle", "key", "base", "compile"} => native # None
  /\ raising => buildAt \in {"idle", "erase"}
  /\ consume /\ buildAt \notin {"idle", "key"} => ~inputKey

(* Wheels are those of the attempt, of its own artifact, one per runtime.  *)
WheelsAreOwn ==
  /\ buildAt \notin {"idle", "copy"} => localWheels = {}
  /\ buildAt \notin {"idle", "wheels", "copy"} => staged = <<>>
  /\ buildAt \in {"wheels", "copy"} \/ (buildAt = "erase" /\ ~raising) =>
       signedNative \in File /\ signedNative.payload = native.payload
  /\ buildAt \in {"wheels", "copy"} =>
       /\ Len(staged) <= Len(Runtimes)
       /\ \A i \in DOMAIN staged :
            /\ staged[i].runtime = Runtimes[i] /\ staged[i].artifact = signedNative
            /\ signedNative.slot = "trusted"
  /\ buildAt = "copy" =>
       /\ Len(staged) = Len(Runtimes) /\ DistinctNames(staged)
       /\ localWheels \subseteq ToSet(staged)

(* The bundle is filled in an empty directory.                             *)
BundleIsOwn ==
  /\ buildAt = "copy_native" => bundleOut = [artifact |-> None, licenses |-> FALSE]
  /\ buildAt = "copy_licenses" =>
       bundleOut = [artifact |-> native, licenses |-> FALSE]

PreparedHasArtifact == phase = "prepare" /\ buildVerdict = "ok" => native # None

BuildInv ==
  /\ BuildTypes /\ BuildPlaces /\ WheelsAreOwn /\ BundleIsOwn
  /\ PreparedHasArtifact
  /\ BuildKeysErased /\ FullIsComplete /\ PreparedIsComplete
-----------------------------------------------------------------------------
(***************************************************************************)
(* The inductive invariant of the signing script.                          *)
(***************************************************************************)
SignPlace == {"idle", "source", "snapshot", "fingerprint", "claim", "write",
              "tool", "wipe", "remove", "inspect"}

SignTypes ==
  /\ signAt \in SignPlace /\ signTries \in Nat /\ signVerdict \in Verdict
  /\ secret \in BOOLEAN /\ signRaising \in BOOLEAN
  /\ signKeys \subseteq 0 .. signTries /\ lost \subseteq {"wipe", "remove"}
  /\ prepared \in Payload \cup {Torn, None}
  /\ incoming \in File \cup {None} /\ signedOut \in File \cup {None}
  /\ edits \in Nat

(* The key is on disk from "write" on, and what an erasure has not done is *)
(* remembered.                                                             *)
SignPlaces ==
  /\ signAt # "idle" => signVerdict = "none" /\ incoming # None
  /\ signAt \in {"write", "tool"} => signedOut = None
  /\ signAt \in {"claim", "write", "tool", "wipe", "remove"} => secret
  /\ signAt \in {"source", "snapshot", "fingerprint", "claim", "write", "inspect"} =>
       signTries \notin signKeys
  /\ signAt \notin {"idle", "remove", "inspect"} => lost = {}
  /\ signAt = "remove" =>
       lost \subseteq {"wipe"} /\ (signTries \in signKeys => lost = {"wipe"})

SignedHadInput == signVerdict = "ok" => incoming # None

SignInv == SignTypes /\ SignPlaces /\ SignedHadInput /\ SignKeysErased
-----------------------------------------------------------------------------
(***************************************************************************)
(* The inductive invariant of the packaging script.                        *)
(***************************************************************************)
PackPlace == {"idle", "runtimes", "payload", "licenses", "claim", "wheels", "copy"}

PackTypes ==
  /\ packAt \in PackPlace /\ packTries \in Nat /\ packVerdict \in Verdict
  /\ requested \in Seq(ToSet(Runtimes))
  /\ bundleIn \in Bundle \cup {None} /\ signedIn \in File \cup {None}
  /\ built \in Seq(WheelRecord)
  /\ wheelsOut \subseteq WheelRecord

AllRuntimes == ToSet(requested) = ToSet(Runtimes)
SignedAsBuilt == require_signed_payload(bundleIn.artifact, signedIn)

PackPlaces ==
  /\ packAt # "idle" => packVerdict = "none" /\ bundleIn # None /\ signedIn # None
  /\ packAt # "idle" => requested \in Requests
  /\ packAt \in {"payload", "licenses", "claim", "wheels", "copy"} => AllRuntimes
  /\ packAt \in {"licenses", "claim", "wheels", "copy"} => SignedAsBuilt
  /\ packAt \notin {"idle", "wheels", "copy"} => built = <<>>
  /\ packAt \in {"wheels", "copy"} =>
       /\ Len(built) <= Len(requested)
       /\ \A i \in DOMAIN built :
            /\ built[i].runtime = requested[i] /\ built[i].artifact = signedIn
            /\ signedIn.slot = "trusted"
  /\ packAt = "wheels" => wheelsOut = {}
  /\ packAt = "copy" =>
       /\ Len(built) = Len(requested) /\ DistinctNames(built)
       /\ wheelsOut \subseteq ToSet(built)

(* What a successful attempt leaves in the output directory.               *)
PackedIsComplete ==
  packVerdict = "ok" =>
    /\ bundleIn # None /\ signedIn # None /\ SignedAsBuilt
    /\ {w.runtime : w \in wheelsOut} = ToSet(Runtimes)
    /\ \A w \in wheelsOut : w.artifact = signedIn /\ signedIn.slot = "trusted"

PackInv == PackTypes /\ PackPlaces /\ PackedIsComplete
-----------------------------------------------------------------------------
(***************************************************************************)
(* What the uploads have to do with each other.                            *)
(***************************************************************************)
UploadsBelongTogether ==
  /\ bundle # None =>
       /\ phase = "prepare" /\ buildVerdict = "none"
       /\ bundle \in {[artifact |-> Unsigned(p), licenses |-> TRUE] : p \in Payload}
  /\ bundle = None =>
       signedBundle = None /\ wheels = None /\ bundleIn = None /\ incoming = None
  /\ bundleIn # None => bundleIn = bundle
  /\ signedBundle \in File \cup {None}

IInv == BuildInv /\ SignInv /\ PackInv /\ UploadsBelongTogether
-----------------------------------------------------------------------------
(***************************************************************************)
(* Wheels, names and runtimes.                                             *)
(***************************************************************************)
(* A function on 1..n has n values if and only if no two of them are equal.*)
LEMMA DistinctValues ==
  ASSUME NEW n \in Nat, NEW f, DOMAIN f = 1 .. n
  PROVE  LET T == {f[i] : i \in 1 .. n}
         IN  Cardinality(T) = n <=> \A i, j \in 1 .. n : f[i] = f[j] => i = j
<1> DEFINE T == {f[i] : i \in 1 .. n}
           g == [i \in 1 .. n |-> f[i]]
<1>1. IsFiniteSet(1 .. n) /\ Cardinality(1 .. n) = n
  BY FS_Interval
<1>2. g \in Surjection(1 .. n, T)
  BY DEF Surjection
<1>3. Cardinality(T) = n <=> g \in Injection(1 .. n, T)
  <2> HIDE DEF T, g
  <2>1. QED
    BY <1>1, <1>2, FS_Surjection
<1>4. g \in Injection(1 .. n, T) <=> \A i, j \in 1 .. n : f[i] = f[j] => i = j
  BY DEF Injection, IsInjective
<1>5. QED
  BY <1>3, <1>4

(* Wheels of different names are different.                                *)
LEMMA DistinctWheels ==
  ASSUME NEW ws \in Seq(WheelRecord), DistinctNames(ws)
  PROVE  /\ \A i, j \in DOMAIN ws : ws[i].name = ws[j].name => i = j
         /\ Cardinality(ToSet(ws)) = Len(ws)
<1> DEFINE n == Len(ws)
           names == [i \in 1 .. n |-> ws[i].name]
<1>1. n \in Nat /\ DOMAIN ws = 1 .. n
  OBVIOUS
<1>2. {w.name : w \in ToSet(ws)} = {names[i] : i \in 1 .. n}
  BY <1>1 DEF ToSet
<1>3. Cardinality({names[i] : i \in 1 .. n}) = n
  BY <1>2 DEF DistinctNames
<1>4. \A i, j \in 1 .. n : names[i] = names[j] => i = j
  <2> HIDE DEF names, n
  <2>1. DOMAIN names = 1 .. n
    BY DEF names
  <2>2. QED
    BY <1>1, <1>3, <2>1, DistinctValues
<1>5. \A i, j \in DOMAIN ws : ws[i].name = ws[j].name => i = j
  BY <1>1, <1>4
<1>6. \A i, j \in 1 .. n : ws[i] = ws[j] => i = j
  BY <1>1, <1>5
<1>7. Cardinality({ws[i] : i \in 1 .. n}) = n
  <2> HIDE DEF n
  <2>1. QED
    BY <1>1, <1>6, DistinctValues
<1>8. QED
  BY <1>1, <1>5, <1>7 DEF ToSet

(* The runtimes are as many as their list is long.                         *)
LEMMA RuntimesCounted == Cardinality(ToSet(Runtimes)) = Len(Runtimes)
<1>1. Len(Runtimes) \in Nat /\ DOMAIN Runtimes = 1 .. Len(Runtimes)
  BY RuntimesAreDistinct
<1>2. QED
  BY <1>1, RuntimesAreDistinct, DistinctValues DEF ToSet

(* A name, a runtime and a file make a wheel; as does half of the file.    *)
LEMMA WheelType ==
  ASSUME NEW file \in File, NEW r \in ToSet(Runtimes), NEW name \in WheelName(r)
  PROVE  Wheel(name, r, file) \in WheelRecord
BY DEF WheelName, Wheel, WheelRecord

LEMMA HalfWheelType ==
  ASSUME NEW ws \in Seq(WheelRecord), NEW i \in DOMAIN ws
  PROVE  [ws[i] EXCEPT !.artifact = Half] \in WheelRecord
<1>1. ws[i] \in WheelRecord
  OBVIOUS
<1>2. Half \in File
  BY DEF Half, File, Slot
<1>3. QED
  BY <1>1, <1>2 DEF WheelRecord

(* When the only wheel that was not there is there, all of them are.       *)
LEMMA LastCopied ==
  ASSUME NEW ws \in Seq(WheelRecord), NEW out, NEW i \in DOMAIN ws,
         out \subseteq ToSet(ws), NotYet(ws, out) = {i}
  PROVE  out \cup {ws[i]} = ToSet(ws)
BY DEF NotYet, ToSet
-----------------------------------------------------------------------------
(***************************************************************************)
(* The build script.                                                       *)
(***************************************************************************)
USE DEF buildArgs, buildKeyVars, buildFiles, buildOut, BuildEnds, BuildGoes

(* A copy that stops leaves wheels, halves of them included.               *)
LEMMA CopyStopsType ==
  ASSUME BuildInv, CopyStops
  PROVE  bundleOut' \in Bundle \cup {None} /\ localWheels' \subseteq WheelRecord
<1> USE DEF BuildInv, BuildTypes
<1>1. CASE UNCHANGED buildOut
  BY <1>1
<1>2. CASE buildAt = "copy_native" /\ bundleOut' = [bundleOut EXCEPT !.artifact = Half]
           /\ UNCHANGED localWheels
  <2>1. Half \in File
    BY DEF Half, File, Slot
  <2>2. bundleOut = [artifact |-> None, licenses |-> FALSE]
    BY <1>2 DEF BundleIsOwn
  <2>2a. bundleOut' = [artifact |-> Half, licenses |-> FALSE]
    BY <1>2, <2>2
  <2>3. [artifact |-> Half, licenses |-> FALSE] \in Bundle
    BY <2>1 DEF Bundle
  <2>4. QED
    BY <1>2, <2>2a, <2>3
<1>3. CASE /\ UNCHANGED bundleOut
           /\ \E i \in NextOf(staged, localWheels) :
                localWheels' = localWheels \cup {[staged[i] EXCEPT !.artifact = Half]}
  BY <1>3, HalfWheelType DEF NextOf, NotYet
<1>4. QED
  BY <1>1, <1>2, <1>3 DEF CopyStops

(* The variables of the build keep their types.                            *)
LEMMA BuildTypesStep == ASSUME BuildInv, BuildNext PROVE BuildTypes'
<1> USE DEF BuildInv, BuildTypes, BuildPlace, Verdict
<1>1. CASE BuildStart
  <2>1. buildKeys \subseteq 0 .. buildTries + 1
    OBVIOUS
  <2>2. buildAt' \in BuildPlace /\ buildVerdict' \in Verdict
    BY <1>1 DEF BuildStart
  <2>3. buildTries' \in Nat /\ buildKeys' \subseteq 0 .. buildTries'
    BY <1>1, <2>1 DEF BuildStart
  <2>4. eraseFailed' \in BOOLEAN /\ raising' \in BOOLEAN
    BY <1>1 DEF BuildStart
  <2>4a. staged' \in Seq(WheelRecord)
    <3>1. staged' = <<>>
      BY <1>1 DEF BuildStart
    <3>2. QED
      BY <3>1
  <2>5. /\ UNCHANGED <<phase, consume, trusted, inputKey, native, signedNative,
                       bundleOut, localWheels>>
    BY <1>1 DEF BuildStart
  <2>6. QED
    BY <2>2, <2>3, <2>4, <2>4a, <2>5
<1>2. CASE ReadKey \/ BuildBase \/ Compile \/ StageLicenses
  BY <1>2 DEF ReadKey, BuildBase, Compile, StageLicenses
<1>3. CASE EmitDirectories
  <2>1. [artifact |-> None, licenses |-> FALSE] \in Bundle
    BY DEF Bundle
  <2>2. QED
    BY <1>3, <2>1 DEF EmitDirectories
<1>4. CASE CopyNative
  <2>1. native \in File
    BY <1>4 DEF CopyNative, BuildPlaces, Unsigned, File, Slot
  <2>2. bundleOut = [artifact |-> None, licenses |-> FALSE]
    BY <1>4 DEF CopyNative, BundleIsOwn
  <2>2a. bundleOut' = [artifact |-> native, licenses |-> FALSE]
    BY <1>4, <2>2 DEF CopyNative
  <2>3. bundleOut' \in Bundle
    BY <2>1, <2>2a DEF Bundle
  <2>4. QED
    BY <1>4, <2>3 DEF CopyNative
<1>5. CASE CopyLicenses
  <2>1. native \in File
    BY <1>5 DEF CopyLicenses, BuildPlaces, Unsigned, File, Slot
  <2>2. bundleOut = [artifact |-> native, licenses |-> FALSE]
    BY <1>5 DEF CopyLicenses, BundleIsOwn
  <2>2a. bundleOut' = [artifact |-> native, licenses |-> TRUE]
    BY <1>5, <2>2 DEF CopyLicenses
  <2>3. bundleOut' \in Bundle
    BY <2>1, <2>2a DEF Bundle
  <2>4. QED
    BY <1>5, <2>3 DEF CopyLicenses
<1>6. CASE WriteBuildKey
  BY <1>6 DEF WriteBuildKey
<1>7. CASE SignNative
  <2>1. PICK p \in Payload : native = Unsigned(p)
    BY <1>7 DEF SignNative, BuildPlaces
  <2>2. Half \in File /\ [native EXCEPT !.slot = IF trusted THEN "trusted" ELSE "foreign"]
                           \in File
    BY <2>1 DEF Half, Unsigned, File, Slot
  <2>3. QED
    BY <1>7, <2>2 DEF SignNative
<1>8. CASE EraseBuildKey
  BY <1>8 DEF EraseBuildKey
<1>9. CASE BuildKeyStays
  BY <1>9 DEF BuildKeyStays
<1>10. CASE BuildLocalWheel
  <2>1. signedNative \in File
    BY <1>10 DEF BuildLocalWheel, WheelsAreOwn
  <2>2. Len(staged) + 1 \in DOMAIN Runtimes
    BY <1>10, RuntimesAreDistinct DEF BuildLocalWheel
  <2>3. Runtimes[Len(staged) + 1] \in ToSet(Runtimes)
    BY <2>2 DEF ToSet
  <2>4. staged' \in Seq(WheelRecord)
    BY <1>10, <2>1, <2>3, WheelType DEF BuildLocalWheel
  <2>5. QED
    BY <1>10, <2>4 DEF BuildLocalWheel
<1>11. CASE CopyLocalWheel
  <2>1. \A i \in NextOf(staged, localWheels) : staged[i] \in WheelRecord
    BY DEF NextOf, NotYet
  <2>2. QED
    BY <1>11, <2>1 DEF CopyLocalWheel
<1>12. CASE BuildRaises
  BY <1>12, CopyStopsType DEF BuildRaises
<1>13. CASE BuildWriteRaises
  BY <1>13 DEF BuildWriteRaises
<1>14. CASE BuildKilled
  <2>1. Half \in File
    BY DEF Half, File, Slot
  <2>2. QED
    BY <1>14, <2>1, CopyStopsType DEF BuildKilled
<1>15. QED
    BY <1>1, <1>2, <1>3, <1>4, <1>5, <1>6, <1>7, <1>8, <1>9, <1>10, <1>11,
     <1>12, <1>13, <1>14 DEF BuildNext

(* The phases keep to their steps.                                         *)
LEMMA BuildPlacesStep == ASSUME BuildInv, BuildNext PROVE BuildPlaces'
<1> USE DEF BuildInv, BuildPlaces, BuildPlace, Phase
<1>0. BuildTypes
  OBVIOUS
<1>a. None \notin {Unsigned(p) : p \in Payload}
  BY NoneIsNoFile DEF Unsigned, File, Slot
<1>1. CASE BuildStart
  BY <1>0, <1>1 DEF BuildStart, BuildTypes
<1>2. CASE ReadKey
  BY <1>0, <1>a, <1>2 DEF ReadKey, BuildTypes
<1>3. CASE BuildBase \/ Compile \/ StageLicenses
  BY <1>0, <1>a, <1>3 DEF BuildBase, Compile, StageLicenses, BuildTypes
<1>4. CASE EmitDirectories
  BY <1>0, <1>a, <1>4 DEF EmitDirectories, BuildTypes
<1>5. CASE CopyNative
  BY <1>0, <1>a, <1>5 DEF CopyNative, BuildTypes
<1>6. CASE CopyLicenses
  BY <1>0, <1>a, <1>6 DEF CopyLicenses, BuildTypes
<1>7. CASE WriteBuildKey \/ SignNative
  BY <1>0, <1>a, <1>7 DEF WriteBuildKey, SignNative, BuildTypes
<1>8. CASE EraseBuildKey \/ BuildKeyStays
  BY <1>0, <1>a, <1>8 DEF EraseBuildKey, BuildKeyStays, BuildTypes
<1>9. CASE BuildLocalWheel
  BY <1>0, <1>a, <1>9 DEF BuildLocalWheel, BuildTypes
<1>10. CASE CopyLocalWheel
  BY <1>0, <1>10 DEF CopyLocalWheel, BuildTypes
<1>11. CASE BuildRaises
  BY <1>0, <1>11 DEF BuildRaises, CopyStops, BuildTypes
<1>12. CASE BuildWriteRaises
  BY <1>0, <1>a, <1>12 DEF BuildWriteRaises, BuildTypes
<1>13. CASE BuildKilled
  BY <1>0, <1>13 DEF BuildKilled, CopyStops, BuildTypes
<1>14. QED
  BY <1>1, <1>2, <1>3, <1>4, <1>5, <1>6, <1>7, <1>8, <1>9, <1>10, <1>11, <1>12,
       <1>13 DEF BuildNext

(* Wheels are made of the artifact of the attempt, and copied out of the   *)
(* temporary directory.                                                    *)
LEMMA WheelsAreOwnStep == ASSUME BuildInv, BuildNext PROVE WheelsAreOwn'
<1> USE DEF BuildInv, WheelsAreOwn
<1>0. BuildTypes /\ staged \in Seq(WheelRecord) /\ Len(staged) \in Nat
  BY DEF BuildTypes
<1>a. Len(Runtimes) \in Nat
  BY RuntimesAreDistinct
<1>1. CASE BuildStart
  BY <1>0, <1>1 DEF BuildStart
<1>2. CASE ReadKey
  BY <1>0, <1>2 DEF ReadKey
<1>3. CASE BuildBase \/ Compile \/ StageLicenses
  BY <1>0, <1>3 DEF BuildBase, Compile, StageLicenses
<1>4. CASE EmitDirectories
  BY <1>0, <1>4 DEF EmitDirectories
<1>5. CASE CopyNative
  BY <1>0, <1>5 DEF CopyNative
<1>6. CASE CopyLicenses
  BY <1>0, <1>6 DEF CopyLicenses
<1>7. CASE WriteBuildKey
  BY <1>0, <1>7 DEF WriteBuildKey
<1>8. CASE SignNative
  <2>1. PICK p \in Payload : native = Unsigned(p)
    BY <1>0, <1>8 DEF SignNative, BuildPlaces, BuildTypes
  <2>2. LET new == [native EXCEPT !.slot = IF trusted THEN "trusted" ELSE "foreign"]
        IN  new \in File /\ new.payload = native.payload
    BY <2>1 DEF Unsigned, File, Slot
  <2>3. QED
    BY <1>8, <2>2 DEF SignNative
<1>9. CASE EraseBuildKey \/ BuildKeyStays
  BY <1>0, <1>9 DEF EraseBuildKey, BuildKeyStays
<1>10. CASE BuildLocalWheel
  <2>1. PICK name \in WheelName(Runtimes[Len(staged) + 1]) :
          staged' = Append(staged, Wheel(name, Runtimes[Len(staged) + 1], signedNative))
    BY <1>10 DEF BuildLocalWheel
  <2>2. Len(staged') = Len(staged) + 1 /\ Len(staged') <= Len(Runtimes)
    BY <1>0, <1>a, <1>10, <2>1 DEF BuildLocalWheel
  <2>3. ASSUME NEW i \in DOMAIN staged'
        PROVE  /\ staged'[i].runtime = Runtimes[i]
               /\ staged'[i].artifact = signedNative
    <3>1. CASE i \in DOMAIN staged
      BY <1>0, <1>10, <2>1, <3>1 DEF BuildLocalWheel
    <3>2. CASE i = Len(staged) + 1
      BY <1>0, <2>1, <3>2 DEF Wheel
    <3>3. QED
      BY <1>0, <2>2, <2>1, <2>3, <3>1, <3>2
  <2>4. QED
    BY <1>10, <2>2, <2>3 DEF BuildLocalWheel, Verified
<1>11. CASE CopyLocalWheel
  <2>1. PICK i \in NextOf(staged, localWheels) :
          /\ localWheels' = localWheels \cup {staged[i]}
          /\ buildAt' \in {"idle", "copy"}
    BY <1>11 DEF CopyLocalWheel
  <2>2. localWheels' \subseteq ToSet(staged)
    BY <1>11, <2>1 DEF CopyLocalWheel, NextOf, NotYet, ToSet
  <2>3. QED
    BY <1>0, <1>11, <2>1, <2>2 DEF CopyLocalWheel
<1>12. CASE BuildRaises
  BY <1>12 DEF BuildRaises, CopyStops
<1>13. CASE BuildWriteRaises
  BY <1>0, <1>13 DEF BuildWriteRaises
<1>14. CASE BuildKilled
  BY <1>14 DEF BuildKilled, CopyStops
<1>15. QED
  BY <1>1, <1>2, <1>3, <1>4, <1>5, <1>6, <1>7, <1>8, <1>9, <1>10, <1>11, <1>12,
       <1>13, <1>14 DEF BuildNext

(* prepare fills its own directory.                                        *)
LEMMA BundleIsOwnStep == ASSUME BuildInv, BuildNext PROVE BundleIsOwn'
<1> USE DEF BuildInv, BundleIsOwn
<1>1. CASE BuildStart
  BY <1>1 DEF BuildStart
<1>2. CASE ReadKey
  BY <1>2 DEF ReadKey
<1>3. CASE BuildBase \/ Compile \/ StageLicenses
  BY <1>3 DEF BuildBase, Compile, StageLicenses
<1>4. CASE EmitDirectories
  BY <1>4 DEF EmitDirectories
<1>5. CASE CopyNative
  <2>1. bundleOut = [artifact |-> None, licenses |-> FALSE]
    BY <1>5 DEF CopyNative
  <2>2. bundleOut' = [artifact |-> native, licenses |-> FALSE]
    BY <1>5, <2>1 DEF CopyNative
  <2>3. QED
    BY <1>5, <2>2 DEF CopyNative
<1>6. CASE CopyLicenses
  BY <1>6 DEF CopyLicenses
<1>7. CASE WriteBuildKey \/ SignNative
  BY <1>7 DEF WriteBuildKey, SignNative
<1>8. CASE EraseBuildKey \/ BuildKeyStays
  BY <1>8 DEF EraseBuildKey, BuildKeyStays
<1>9. CASE BuildLocalWheel
  BY <1>9 DEF BuildLocalWheel
<1>10. CASE CopyLocalWheel
  BY <1>10 DEF CopyLocalWheel
<1>11. CASE BuildRaises
  BY <1>11 DEF BuildRaises
<1>12. CASE BuildWriteRaises
  BY <1>12 DEF BuildWriteRaises
<1>13. CASE BuildKilled
  BY <1>13 DEF BuildKilled
<1>14. QED
  BY <1>1, <1>2, <1>3, <1>4, <1>5, <1>6, <1>7, <1>8, <1>9, <1>10, <1>11, <1>12,
       <1>13 DEF BuildNext

(* The key file of an attempt goes with the signing tool, the input key    *)
(* before the first build process starts.                                  *)
LEMMA BuildKeysErasedStep == ASSUME BuildInv, BuildNext PROVE BuildKeysErased'
<1> USE DEF BuildInv, BuildKeysErased, BuildPlaces
<1>0. BuildTypes
  OBVIOUS
<1> USE DEF BuildTypes
<1>1. CASE BuildStart
  BY <1>0, <1>1 DEF BuildStart
<1>2. CASE ReadKey
  BY <1>0, <1>2 DEF ReadKey
<1>3. CASE BuildBase \/ Compile \/ StageLicenses
  BY <1>0, <1>3 DEF BuildBase, Compile, StageLicenses
<1>4. CASE EmitDirectories
  BY <1>0, <1>4 DEF EmitDirectories
<1>5. CASE CopyNative
  BY <1>0, <1>5 DEF CopyNative
<1>6. CASE CopyLicenses
  BY <1>0, <1>6 DEF CopyLicenses
<1>7. CASE WriteBuildKey \/ SignNative
  BY <1>0, <1>7 DEF WriteBuildKey, SignNative
<1>8. CASE EraseBuildKey \/ BuildKeyStays
  BY <1>0, <1>8 DEF EraseBuildKey, BuildKeyStays
<1>9. CASE BuildLocalWheel
  BY <1>0, <1>9 DEF BuildLocalWheel
<1>10. CASE CopyLocalWheel
  BY <1>0, <1>10 DEF CopyLocalWheel
<1>11. CASE BuildRaises
  BY <1>0, <1>11 DEF BuildRaises
<1>12. CASE BuildWriteRaises
  BY <1>0, <1>12 DEF BuildWriteRaises
<1>13. CASE BuildKilled
  BY <1>0, <1>13 DEF BuildKilled
<1>14. QED
  BY <1>1, <1>2, <1>3, <1>4, <1>5, <1>6, <1>7, <1>8, <1>9, <1>10, <1>11, <1>12,
       <1>13 DEF BuildNext

(* The last wheel completes the set.                                       *)
LEMMA FullIsCompleteStep == ASSUME BuildInv, BuildNext PROVE FullIsComplete'
<1> USE DEF BuildInv, FullIsComplete
<1>0. BuildTypes /\ BuildPlaces
  OBVIOUS
<1>a. staged \in Seq(WheelRecord) /\ Len(Runtimes) \in Nat
      /\ DOMAIN staged = 1 .. Len(staged) /\ DOMAIN Runtimes = 1 .. Len(Runtimes)
  BY <1>0, RuntimesAreDistinct DEF BuildTypes
<1>1. CASE BuildStart
  BY <1>0, <1>1 DEF BuildStart, BuildPlaces
<1>2. CASE ReadKey
  BY <1>0, <1>2 DEF ReadKey, BuildPlaces
<1>3. CASE BuildBase \/ Compile \/ StageLicenses
  BY <1>0, <1>3 DEF BuildBase, Compile, StageLicenses, BuildPlaces
<1>4. CASE EmitDirectories
  BY <1>0, <1>4 DEF EmitDirectories, BuildPlaces
<1>5. CASE CopyNative
  BY <1>0, <1>5 DEF CopyNative, BuildPlaces
<1>6. CASE CopyLicenses
  BY <1>0, <1>6 DEF CopyLicenses, BuildPlaces
<1>7. CASE WriteBuildKey \/ SignNative
  BY <1>0, <1>7 DEF WriteBuildKey, SignNative, BuildPlaces
<1>8. CASE EraseBuildKey \/ BuildKeyStays
  BY <1>0, <1>8 DEF EraseBuildKey, BuildKeyStays, BuildPlaces
<1>9. CASE BuildLocalWheel
  BY <1>0, <1>9 DEF BuildLocalWheel, BuildPlaces
<1>10. CASE CopyLocalWheel
  <2>1. PICK i \in NextOf(staged, localWheels) :
          /\ localWheels' = localWheels \cup {staged[i]}
          /\ buildVerdict' = "ok" => NotYet(staged, localWheels) = {i}
    BY <1>0, <1>10 DEF CopyLocalWheel, BuildPlaces
  <2>2. /\ localWheels \subseteq ToSet(staged)
        /\ Len(staged) = Len(Runtimes) /\ DistinctNames(staged)
        /\ \A j \in DOMAIN staged :
             /\ staged[j].runtime = Runtimes[j] /\ staged[j].artifact = signedNative
             /\ signedNative.slot = "trusted"
        /\ signedNative \in File /\ signedNative.payload = native.payload
    BY <1>10 DEF CopyLocalWheel, WheelsAreOwn
  <2>3. SUFFICES ASSUME buildVerdict' = "ok"
                 PROVE  Complete(localWheels', ToSet(Runtimes), native.payload)
    BY <1>10 DEF CopyLocalWheel
  <2>4. localWheels' = ToSet(staged)
    BY <1>a, <2>1, <2>2, <2>3, LastCopied DEF NextOf, NotYet
  <2>5. {w.runtime : w \in ToSet(staged)} = ToSet(Runtimes)
    BY <1>a, <2>2 DEF ToSet
  <2>6. Cardinality(ToSet(staged)) = Cardinality(ToSet(Runtimes))
    BY <1>a, <2>2, DistinctWheels, RuntimesCounted
  <2>7. signedNative = [payload |-> native.payload, slot |-> "trusted"]
        \/ DOMAIN staged = {}
    BY <2>2 DEF File
  <2>8. \A w \in ToSet(staged) :
          w.artifact = [payload |-> native.payload, slot |-> "trusted"]
    BY <2>2, <2>7 DEF ToSet
  <2>9. QED
    BY <2>4, <2>5, <2>6, <2>8 DEF Complete
<1>11. CASE BuildRaises
  BY <1>11 DEF BuildRaises
<1>12. CASE BuildWriteRaises
  BY <1>0, <1>12 DEF BuildWriteRaises, BuildPlaces
<1>13. CASE BuildKilled
  BY <1>13 DEF BuildKilled
<1>14. QED
  BY <1>1, <1>2, <1>3, <1>4, <1>5, <1>6, <1>7, <1>8, <1>9, <1>10, <1>11, <1>12,
       <1>13 DEF BuildNext

(* The licenses complete the bundle.                                       *)
LEMMA PreparedIsCompleteStep == ASSUME BuildInv, BuildNext PROVE PreparedIsComplete'
<1> USE DEF BuildInv, PreparedIsComplete, BuildPlaces
<1>1. CASE BuildStart
  BY <1>1 DEF BuildStart
<1>2. CASE ReadKey
  BY <1>2 DEF ReadKey
<1>3. CASE BuildBase \/ Compile \/ StageLicenses
  BY <1>3 DEF BuildBase, Compile, StageLicenses
<1>4. CASE EmitDirectories
  BY <1>4 DEF EmitDirectories
<1>5. CASE CopyNative
  BY <1>5 DEF CopyNative
<1>6. CASE CopyLicenses
  <2>1. bundleOut = [artifact |-> native, licenses |-> FALSE]
    BY <1>6 DEF CopyLicenses, BundleIsOwn
  <2>2. bundleOut' = [artifact |-> native, licenses |-> TRUE]
    BY <1>6, <2>1 DEF CopyLicenses
  <2>3. QED
    BY <1>6, <2>2 DEF CopyLicenses
<1>7. CASE WriteBuildKey \/ SignNative
  BY <1>7 DEF WriteBuildKey, SignNative
<1>8. CASE EraseBuildKey \/ BuildKeyStays
  BY <1>8 DEF EraseBuildKey, BuildKeyStays
<1>9. CASE BuildLocalWheel
  BY <1>9 DEF BuildLocalWheel
<1>10. CASE CopyLocalWheel
  BY <1>10 DEF CopyLocalWheel
<1>11. CASE BuildRaises
  BY <1>11 DEF BuildRaises
<1>12. CASE BuildWriteRaises
  BY <1>12 DEF BuildWriteRaises
<1>13. CASE BuildKilled
  BY <1>13 DEF BuildKilled
<1>14. QED
  BY <1>1, <1>2, <1>3, <1>4, <1>5, <1>6, <1>7, <1>8, <1>9, <1>10, <1>11, <1>12,
       <1>13 DEF BuildNext

(* It has an artifact then.                                                *)
LEMMA PreparedHasArtifactStep ==
  ASSUME BuildInv, BuildNext
  PROVE  PreparedHasArtifact'
<1> USE DEF BuildInv, PreparedHasArtifact, BuildPlaces
<1>1. CASE BuildStart
  BY <1>1 DEF BuildStart
<1>2. CASE ReadKey
  BY <1>2 DEF ReadKey
<1>3. CASE BuildBase \/ Compile \/ StageLicenses
  BY <1>3 DEF BuildBase, Compile, StageLicenses
<1>4. CASE EmitDirectories
  BY <1>4 DEF EmitDirectories
<1>5. CASE CopyNative
  BY <1>5 DEF CopyNative
<1>6. CASE CopyLicenses
  BY <1>6 DEF CopyLicenses
<1>7. CASE WriteBuildKey \/ SignNative
  BY <1>7 DEF WriteBuildKey, SignNative
<1>8. CASE EraseBuildKey \/ BuildKeyStays
  BY <1>8 DEF EraseBuildKey, BuildKeyStays
<1>9. CASE BuildLocalWheel
  BY <1>9 DEF BuildLocalWheel
<1>10. CASE CopyLocalWheel
  BY <1>10 DEF CopyLocalWheel
<1>11. CASE BuildRaises
  BY <1>11 DEF BuildRaises
<1>12. CASE BuildWriteRaises
  BY <1>12 DEF BuildWriteRaises
<1>13. CASE BuildKilled
  BY <1>13 DEF BuildKilled
<1>14. QED
  BY <1>1, <1>2, <1>3, <1>4, <1>5, <1>6, <1>7, <1>8, <1>9, <1>10, <1>11, <1>12,
       <1>13 DEF BuildNext

(* The build script keeps its invariant.                                   *)
LEMMA BuildStep == BuildInv /\ [BuildNext]_buildVars => BuildInv'
<1>1. ASSUME BuildInv, BuildNext PROVE BuildInv'
  BY <1>1, BuildTypesStep, BuildPlacesStep, WheelsAreOwnStep, BundleIsOwnStep,
     BuildKeysErasedStep, FullIsCompleteStep, PreparedIsCompleteStep,
     PreparedHasArtifactStep
  DEF BuildInv
<1>2. ASSUME BuildInv, UNCHANGED buildVars PROVE BuildInv'
  BY <1>2
  DEF buildVars, BuildInv, BuildTypes, BuildPlaces, WheelsAreOwn, BundleIsOwn,
      BuildKeysErased, FullIsComplete, PreparedIsComplete,
      PreparedHasArtifact
<1>3. QED
  BY <1>1, <1>2

(* A fresh machine has it from the start.                                  *)
LEMMA BuildFresh == BuildInv /\ BuildAfresh => BuildInv'
<1> SUFFICES ASSUME BuildInv, BuildAfresh PROVE BuildInv'
  OBVIOUS
<1>0. staged' \in Seq(WheelRecord)
  <2>1. staged' = <<>>
    BY DEF BuildAfresh
  <2>2. QED
    BY <2>1
<1>1. BuildTypes'
  BY <1>0 DEF BuildAfresh, BuildInv, BuildTypes, BuildPlace, Verdict
<1>2. QED
  BY <1>1
  DEF BuildAfresh, BuildInv, BuildPlaces, WheelsAreOwn, BundleIsOwn,
      BuildKeysErased, FullIsComplete, PreparedIsComplete, PreparedHasArtifact

(* And so has the first one.                                               *)
LEMMA BuildAtFirst == BuildInit => BuildInv
<1> SUFFICES ASSUME BuildInit PROVE BuildInv
  OBVIOUS
<1>0. staged \in Seq(WheelRecord)
  <2>1. staged = <<>>
    BY DEF BuildInit
  <2>2. QED
    BY <2>1
<1>1. BuildTypes
  BY <1>0 DEF BuildInit, BuildTypes, BuildPlace, Verdict
<1>2. QED
  BY <1>1
  DEF BuildInit, BuildInv, BuildPlaces, WheelsAreOwn, BundleIsOwn,
      BuildKeysErased, FullIsComplete, PreparedIsComplete, PreparedHasArtifact,
      Phase
-----------------------------------------------------------------------------
(***************************************************************************)
(* The signing script.                                                     *)
(***************************************************************************)
USE DEF signRun, signFiles, SignEnds, SignGoes, SignRequires

(* The variables of the signing script keep their types.                   *)
LEMMA SignTypesStep == ASSUME SignInv, SignNext PROVE SignTypes'
<1> USE DEF SignInv, SignTypes, SignPlace, Verdict
<1>0. Half \in File
  BY DEF Half, File, Slot
<1>1. CASE SignStart
  <2>1. signKeys \subseteq 0 .. signTries + 1
    OBVIOUS
  <2>2. signTries' \in Nat /\ signKeys' \subseteq 0 .. signTries'
    BY <1>1, <2>1 DEF SignStart
  <2>3. /\ signAt' = "source" /\ signVerdict' = "none" /\ secret' \in BOOLEAN
        /\ prepared' = None /\ signRaising' = FALSE /\ lost' = {}
        /\ UNCHANGED <<incoming, signedOut, edits>>
    BY <1>1 DEF SignStart
  <2>4. QED
    BY <2>2, <2>3
<1>2. CASE CheckSource \/ require_key_fingerprint \/ ClaimOutput
  BY <1>0, <1>2 DEF CheckSource, require_key_fingerprint, ClaimOutput
<1>3. CASE Snapshot
  <2>1. require_artifact(incoming) \in Payload \cup {Torn, None}
    BY DEF require_artifact, File
  <2>2. QED
    BY <1>3, <2>1 DEF Snapshot
<1>4. CASE WriteKey
  BY <1>0, <1>4 DEF WriteKey
<1>5. CASE WriteRaises
  <2>0. signKeys' \in {signKeys, signKeys \cup {signTries}}
    BY <1>5 DEF WriteRaises
  <2>1. signTries' = signTries /\ signKeys' \subseteq 0 .. signTries
    BY <2>0, <1>5 DEF WriteRaises
  <2>2. /\ signAt' \in {"wipe", "remove"} /\ signRaising' = TRUE
        /\ UNCHANGED <<signVerdict, signTries, secret, prepared, lost, incoming,
                       signedOut, edits>>
    BY <1>5 DEF WriteRaises
  <2>3. QED
    BY <2>1, <2>2
<1>6. CASE SignTool
  <2>1. incoming \in File
    BY <1>6 DEF SignTool, SignPlaces
  <2>2. [incoming EXCEPT !.slot = "trusted"] \in File
    BY <2>1 DEF File, Slot
  <2>3. QED
    BY <1>0, <1>6, <2>2 DEF SignTool
<1>7. CASE Wipe
  BY <1>0, <1>7 DEF Wipe
<1>8. CASE RemoveDirectory
  BY <1>0, <1>8 DEF RemoveDirectory
<1>9. CASE Inspect
  BY <1>0, <1>9 DEF Inspect
<1>10. CASE SignRaises
  BY <1>0, <1>10 DEF SignRaises
<1>11. CASE SignKilled
  BY <1>0, <1>11 DEF SignKilled
<1>12. CASE Edit
  <2>1. \A p \in Payload, s \in Slot : [payload |-> p, slot |-> s] \in File
    BY DEF File
  <2>2. QED
    BY <1>12, <2>1 DEF Edit
<1>13. QED
  BY <1>1, <1>2, <1>3, <1>4, <1>5, <1>6, <1>7, <1>8, <1>9, <1>10, <1>11, <1>12
       DEF SignNext

(* What is on disk follows where the script is.                            *)
LEMMA SignPlacesStep == ASSUME SignInv, SignNext PROVE SignPlaces'
<1> USE DEF SignInv, SignPlaces, SignPlace
<1>0. SignTypes
  OBVIOUS
<1> USE DEF SignTypes
<1>1. CASE SignStart
  BY <1>0, <1>1 DEF SignStart
<1>2. CASE CheckSource \/ require_key_fingerprint \/ ClaimOutput
  BY <1>0, <1>2 DEF CheckSource, require_key_fingerprint, ClaimOutput
<1>3. CASE Snapshot
  BY <1>0, <1>3 DEF Snapshot
<1>4. CASE WriteKey
  BY <1>0, <1>4 DEF WriteKey
<1>5. CASE WriteRaises
  BY <1>0, <1>5 DEF WriteRaises
<1>6. CASE SignTool
  BY <1>0, <1>6 DEF SignTool
<1>7. CASE Wipe
  BY <1>0, <1>7 DEF Wipe
<1>8. CASE RemoveDirectory
  BY <1>0, <1>8 DEF RemoveDirectory
<1>9. CASE Inspect
  BY <1>0, <1>9 DEF Inspect
<1>10. CASE SignRaises
  BY <1>0, <1>10 DEF SignRaises
<1>11. CASE SignKilled
  BY <1>0, <1>11 DEF SignKilled
<1>12. CASE Edit
  <2>1. \A p \in Payload, s \in Slot : [payload |-> p, slot |-> s] # None
    BY NoneIsNoFile DEF File
  <2>2. QED
    BY <1>0, <1>12, <2>1 DEF Edit
<1>13. QED
  BY <1>1, <1>2, <1>3, <1>4, <1>5, <1>6, <1>7, <1>8, <1>9, <1>10, <1>11, <1>12
       DEF SignNext

(* A key file goes one way or the other.                                   *)
LEMMA SignKeysErasedStep == ASSUME SignInv, SignNext PROVE SignKeysErased'
<1> USE DEF SignInv, SignPlaces, SignKeysErased
<1>0. SignTypes
  OBVIOUS
<1> USE DEF SignTypes
<1>1. CASE SignStart
  BY <1>0, <1>1 DEF SignStart
<1>2. CASE CheckSource \/ require_key_fingerprint \/ ClaimOutput
  BY <1>0, <1>2 DEF CheckSource, require_key_fingerprint, ClaimOutput
<1>3. CASE Snapshot
  BY <1>0, <1>3 DEF Snapshot
<1>4. CASE WriteKey
  BY <1>0, <1>4 DEF WriteKey
<1>5. CASE WriteRaises
  BY <1>0, <1>5 DEF WriteRaises
<1>6. CASE SignTool
  BY <1>0, <1>6 DEF SignTool
<1>7. CASE Wipe
  BY <1>0, <1>7 DEF Wipe
<1>8. CASE RemoveDirectory
  BY <1>0, <1>8 DEF RemoveDirectory
<1>9. CASE Inspect
  BY <1>0, <1>9 DEF Inspect
<1>10. CASE SignRaises
  BY <1>0, <1>10 DEF SignRaises
<1>11. CASE SignKilled
  BY <1>0, <1>11 DEF SignKilled
<1>12. CASE Edit
  BY <1>0, <1>12 DEF Edit
<1>13. QED
  BY <1>1, <1>2, <1>3, <1>4, <1>5, <1>6, <1>7, <1>8, <1>9, <1>10, <1>11, <1>12
       DEF SignNext

(* A script that ended well had an input, and it is still there.           *)
LEMMA SignedHadInputStep == ASSUME SignInv, SignNext PROVE SignedHadInput'
<1> USE DEF SignInv, SignPlaces, SignedHadInput
<1>1. CASE SignStart
  BY <1>1 DEF SignStart
<1>2. CASE CheckSource \/ require_key_fingerprint \/ ClaimOutput
  BY <1>2 DEF CheckSource, require_key_fingerprint, ClaimOutput
<1>3. CASE Snapshot
  BY <1>3 DEF Snapshot
<1>4. CASE WriteKey
  BY <1>4 DEF WriteKey
<1>5. CASE WriteRaises
  BY <1>5 DEF WriteRaises
<1>6. CASE SignTool
  BY <1>6 DEF SignTool
<1>7. CASE Wipe
  BY <1>7 DEF Wipe
<1>8. CASE RemoveDirectory
  BY <1>8 DEF RemoveDirectory
<1>9. CASE Inspect
  BY <1>9 DEF Inspect
<1>10. CASE SignRaises
  BY <1>10 DEF SignRaises
<1>11. CASE SignKilled
  BY <1>11 DEF SignKilled
<1>12. CASE Edit
  <2>1. \A p \in Payload, s \in Slot : [payload |-> p, slot |-> s] # None
    BY NoneIsNoFile DEF File
  <2>2. QED
    BY <1>12, <2>1 DEF Edit
<1>13. QED
  BY <1>1, <1>2, <1>3, <1>4, <1>5, <1>6, <1>7, <1>8, <1>9, <1>10, <1>11, <1>12
       DEF SignNext

(* The signing script keeps its invariant.                                 *)
LEMMA SignStep == SignInv /\ [SignNext]_signVars => SignInv'
<1>1. ASSUME SignInv, SignNext PROVE SignInv'
  BY <1>1, SignTypesStep, SignPlacesStep, SignKeysErasedStep,
     SignedHadInputStep DEF SignInv
<1>2. ASSUME SignInv, UNCHANGED signVars PROVE SignInv'
  BY <1>2 DEF signVars, SignInv, SignTypes, SignPlaces, SignKeysErased,
              SignedHadInput
<1>3. QED
  BY <1>1, <1>2

(* A fresh machine has it from the start.                                  *)
LEMMA SignFresh == SignAfresh => SignInv'
<1> SUFFICES ASSUME SignAfresh PROVE SignInv'
  OBVIOUS
<1>1. SignTypes'
  BY DEF SignAfresh, SignTypes, SignPlace, Verdict
<1>2. SignPlaces' /\ SignKeysErased' /\ SignedHadInput'
  BY DEF SignAfresh, SignPlaces, SignKeysErased, SignedHadInput
<1>3. QED
  BY <1>1, <1>2 DEF SignInv

(* And so has the first one.                                               *)
LEMMA SignAtFirst == SignInit => SignInv
<1> SUFFICES ASSUME SignInit PROVE SignInv
  OBVIOUS
<1>1. SignTypes
  BY DEF SignInit, SignTypes, SignPlace, Verdict
<1>2. SignPlaces /\ SignKeysErased /\ SignedHadInput
  BY DEF SignInit, SignPlaces, SignKeysErased, SignedHadInput
<1>3. QED
  BY <1>1, <1>2 DEF SignInv

(* Its input arrives while the script is not running.                      *)
LEMMA SignDownload ==
  ASSUME SignInv, incoming' \in File, incoming = None,
         UNCHANGED <<signRun, signTries, secret, prepared, signRaising, signKeys,
                     lost, signedOut, edits>>
  PROVE  SignInv'
BY NoneIsNoFile
DEF SignInv, SignTypes, SignPlaces, SignKeysErased, SignedHadInput
-----------------------------------------------------------------------------
(***************************************************************************)
(* The packaging script.                                                   *)
(***************************************************************************)
USE DEF packRun, packIn, PackEnds, PackRequires

(* The variables of the packaging script keep their types.                 *)
LEMMA PackTypesStep == ASSUME PackInv, PackNext PROVE PackTypes'
<1> USE DEF PackInv, PackTypes, PackPlace, Verdict
<1>1. CASE PackStart
  <2>1. requested' \in Seq(ToSet(Runtimes))
    BY <1>1, RequestsNameAllRuntimes DEF PackStart
  <2>2. built' \in Seq(WheelRecord)
    <3>1. built' = <<>>
      BY <1>1 DEF PackStart
    <3>2. QED
      BY <3>1
  <2>3. QED
    BY <1>1, <2>1, <2>2 DEF PackStart
<1>2. CASE require_runtime_wheels
  BY <1>2 DEF require_runtime_wheels
<1>3. CASE RequireSignedPayload
  BY <1>3 DEF RequireSignedPayload
<1>4. CASE require_licenses
  BY <1>4 DEF require_licenses
<1>5. CASE ClaimDirectory
  BY <1>5 DEF ClaimDirectory
<1>6. CASE BuildWheel
  <2>1. signedIn \in File
    BY <1>6 DEF BuildWheel, PackPlaces
  <2>2. Len(built) + 1 \in DOMAIN requested
    BY <1>6 DEF BuildWheel
  <2>3. requested[Len(built) + 1] \in ToSet(Runtimes)
    BY <2>2
  <2>4. built' \in Seq(WheelRecord)
    BY <1>6, <2>1, <2>3, WheelType DEF BuildWheel
  <2>5. QED
    BY <1>6, <2>4 DEF BuildWheel
<1>7. CASE RequireDistinctNames
  BY <1>7 DEF RequireDistinctNames
<1>8. CASE CopyWheel
  <2>1. \A i \in NextOf(built, wheelsOut) : built[i] \in WheelRecord
    BY DEF NextOf, NotYet
  <2>2. wheelsOut' \subseteq WheelRecord
    BY <1>8, <2>1 DEF CopyWheel
  <2>3. QED
    BY <1>8, <2>2 DEF CopyWheel
<1>9. CASE PackStops
  <2>1. wheelsOut' \subseteq WheelRecord
    BY <1>9, HalfWheelType DEF PackStops, PackCopyStops, NextOf, NotYet
  <2>2. QED
    BY <1>9, <2>1 DEF PackStops
<1>10. QED
  BY <1>1, <1>2, <1>3, <1>4, <1>5, <1>6, <1>7, <1>8, <1>9 DEF PackNext

(* Copying does not replace: all the wheels in the output directory are    *)
(* from the same temporary directory, and have names of their own.         *)
LEMMA CopyOnlyAdds ==
  ASSUME PackInv, packAt = "copy", NEW i \in NextOf(built, wheelsOut)
  PROVE  {w \in wheelsOut : w.name # built[i].name} = wheelsOut
<1>1. built \in Seq(WheelRecord) /\ DistinctNames(built) /\ wheelsOut \subseteq ToSet(built)
  BY DEF PackInv, PackTypes, PackPlaces
<1>2. i \in DOMAIN built /\ built[i] \notin wheelsOut
  BY DEF NextOf, NotYet
<1>3. ASSUME NEW w \in wheelsOut PROVE w.name # built[i].name
  <2>1. PICK j \in DOMAIN built : w = built[j]
    BY <1>1, <1>3 DEF ToSet
  <2>2. i # j
    BY <1>2, <1>3, <2>1
  <2>3. QED
    BY <1>1, <1>2, <2>1, <2>2, DistinctWheels
<1>4. QED
  BY <1>3

(* Wheels are made of the compared artifact, one for each runtime.         *)
LEMMA PackPlacesStep == ASSUME PackInv, PackNext PROVE PackPlaces'
<1> USE DEF PackInv, PackPlaces, PackPlace, AllRuntimes, SignedAsBuilt
<1>0. PackTypes /\ built \in Seq(WheelRecord) /\ requested \in Seq(ToSet(Runtimes))
      /\ Len(built) \in Nat /\ Len(requested) \in Nat /\ packAt \in PackPlace
  BY DEF PackTypes
<1>1. CASE PackStart
  <2>1. /\ packAt' = "runtimes" /\ packVerdict' = "none" /\ built' = <<>>
        /\ requested' \in Requests /\ bundleIn' # None /\ signedIn' # None
    BY <1>1 DEF PackStart
  <2>2. QED
    BY <2>1
<1>2. CASE require_runtime_wheels
  BY <1>0, <1>2, RequestsNameAllRuntimes DEF require_runtime_wheels
<1>3. CASE RequireSignedPayload
  BY <1>0, <1>3 DEF RequireSignedPayload
<1>4. CASE require_licenses
  BY <1>0, <1>4 DEF require_licenses
<1>5. CASE ClaimDirectory
  BY <1>0, <1>5 DEF ClaimDirectory
<1>6. CASE BuildWheel
  <2>1. CASE UNCHANGED built
    BY <1>0, <1>6, <2>1 DEF BuildWheel
  <2>2. CASE Verified(signedIn)
    <3>1. PICK name \in WheelName(requested[Len(built) + 1]) :
            built' = Append(built, Wheel(name, requested[Len(built) + 1], signedIn))
      BY <1>6, <2>2 DEF BuildWheel
    <3>2. Len(built') = Len(built) + 1 /\ Len(built') <= Len(requested)
      BY <1>0, <1>6, <3>1 DEF BuildWheel
    <3>3. ASSUME NEW i \in DOMAIN built'
          PROVE  built'[i].runtime = requested[i] /\ built'[i].artifact = signedIn
      <4>1. CASE i \in DOMAIN built
        BY <1>0, <1>6, <3>1, <4>1 DEF BuildWheel
      <4>2. CASE i = Len(built) + 1
        BY <1>0, <3>1, <4>2 DEF Wheel
      <4>3. QED
        BY <1>0, <3>1, <3>2, <3>3, <4>1, <4>2
    <3>4. QED
      BY <1>6, <2>2, <3>2, <3>3 DEF BuildWheel, Verified
  <2>3. QED
    BY <1>6, <2>1, <2>2 DEF BuildWheel
<1>7. CASE RequireDistinctNames
  <2>1. wheelsOut' \subseteq ToSet(built)
    BY <1>7 DEF RequireDistinctNames
  <2>2. QED
    BY <1>0, <1>7, <2>1 DEF RequireDistinctNames
<1>8. CASE CopyWheel
  <2>1. wheelsOut' \subseteq ToSet(built)
    BY <1>8 DEF CopyWheel, NextOf, NotYet, ToSet
  <2>2. QED
    BY <1>0, <1>8, <2>1 DEF CopyWheel
<1>9. CASE PackStops
  BY <1>0, <1>9 DEF PackStops
<1>10. QED
  BY <1>1, <1>2, <1>3, <1>4, <1>5, <1>6, <1>7, <1>8, <1>9 DEF PackNext

(* An attempt is over when all wheels are there.                           *)
LEMMA PackedIsCompleteStep == ASSUME PackInv, PackNext PROVE PackedIsComplete'
<1> USE DEF PackInv, PackedIsComplete, PackPlaces
<1>0. PackTypes /\ built \in Seq(WheelRecord) /\ requested \in Seq(ToSet(Runtimes))
      /\ DOMAIN built = 1 .. Len(built) /\ DOMAIN requested = 1 .. Len(requested)
  BY DEF PackTypes
<1>1. CASE PackStart
  BY <1>1 DEF PackStart
<1>2. CASE require_runtime_wheels
  BY <1>2 DEF require_runtime_wheels
<1>3. CASE RequireSignedPayload
  BY <1>3 DEF RequireSignedPayload
<1>4. CASE require_licenses
  BY <1>4 DEF require_licenses
<1>5. CASE ClaimDirectory
  BY <1>5 DEF ClaimDirectory
<1>6. CASE BuildWheel
  BY <1>6 DEF BuildWheel
<1>7. CASE RequireDistinctNames
  BY <1>7 DEF RequireDistinctNames
<1>8. CASE CopyWheel
  <2>1. SUFFICES ASSUME packVerdict' = "ok"
                 PROVE  PackedIsComplete'
    OBVIOUS
  <2>2. /\ NotYet(built, wheelsOut) = {} /\ wheelsOut' = wheelsOut
        /\ UNCHANGED <<bundleIn, signedIn, requested>>
    BY <1>8, <2>1 DEF CopyWheel
  <2>3. wheelsOut = ToSet(built)
    BY <1>8, <2>2 DEF CopyWheel, NotYet, ToSet
  <2>4. {w.runtime : w \in ToSet(built)} = ToSet(requested)
    BY <1>0, <1>8 DEF CopyWheel, ToSet
  <2>5. \A w \in ToSet(built) : w.artifact = signedIn /\ signedIn.slot = "trusted"
    BY <1>8 DEF CopyWheel, ToSet
  <2>6. ToSet(requested) = ToSet(Runtimes) /\ SignedAsBuilt
        /\ bundleIn # None /\ signedIn # None
    BY <1>8 DEF CopyWheel, AllRuntimes
  <2>7. QED
    BY <2>2, <2>3, <2>4, <2>5, <2>6 DEF SignedAsBuilt
<1>9. CASE PackStops
  BY <1>9 DEF PackStops
<1>10. QED
  BY <1>1, <1>2, <1>3, <1>4, <1>5, <1>6, <1>7, <1>8, <1>9 DEF PackNext

(* The packaging script keeps its invariant.                               *)
LEMMA PackStep == PackInv /\ [PackNext]_packVars => PackInv'
<1>1. ASSUME PackInv, PackNext PROVE PackInv'
  BY <1>1, PackTypesStep, PackPlacesStep, PackedIsCompleteStep DEF PackInv
<1>2. ASSUME PackInv, UNCHANGED packVars PROVE PackInv'
  BY <1>2
  DEF packVars, PackInv, PackTypes, PackPlaces, PackedIsComplete, AllRuntimes,
      SignedAsBuilt
<1>3. QED
  BY <1>1, <1>2

(* The empty list, of runtimes and of wheels.                              *)
LEMMA EmptyLists == <<>> \in Seq(ToSet(Runtimes)) /\ <<>> \in Seq(WheelRecord)
OBVIOUS

(* A fresh machine has it from the start.                                  *)
LEMMA PackFresh == PackAfresh => PackInv'
BY EmptyLists
DEF PackAfresh, PackInv, PackTypes, PackPlaces, PackedIsComplete, PackPlace, Verdict

(* And so has the first one.                                               *)
LEMMA PackAtFirst == PackInit => PackInv
BY EmptyLists
DEF PackInit, PackInv, PackTypes, PackPlaces, PackedIsComplete, PackPlace, Verdict

(* Its input arrives while the script is not running.                      *)
LEMMA PackDownload ==
  ASSUME PackInv, bundleIn = None, bundleIn' \in Bundle, signedIn' \in File,
         UNCHANGED <<packRun, packTries, requested, built, wheelsOut>>
  PROVE  PackInv'
BY DEF PackInv, PackTypes, PackPlaces, PackedIsComplete, AllRuntimes, SignedAsBuilt
-----------------------------------------------------------------------------
(***************************************************************************)
(* The jobs together.                                                      *)
(***************************************************************************)
USE DEF uploads

(* Native code that is still unsigned is a file, and not None.             *)
LEMMA UnsignedIsFile ==
  ASSUME NEW p \in Payload
  PROVE  /\ Unsigned(p) \in File /\ Unsigned(p) # None
         /\ [artifact |-> Unsigned(p), licenses |-> TRUE] \in Bundle
         /\ [artifact |-> Unsigned(p), licenses |-> TRUE] # None
<1>1. Unsigned(p) \in File
  BY DEF Unsigned, File, Slot
<1>2. [artifact |-> Unsigned(p), licenses |-> TRUE] \in Bundle
  BY <1>1 DEF Bundle
<1>3. QED
  BY <1>1, <1>2, NoneIsNoFile

(* The scripts know nothing of the uploads.                                *)
LEMMA ScriptsStep ==
  ASSUME IInv, Build \/ Sign \/ Pack
  PROVE  IInv'
<1> USE DEF IInv
<1>0. UNCHANGED <<bundle, signedBundle, wheels>>
  BY DEF Build, Sign, Pack
<1>1. CASE Build
  <2>1. BuildInv'
    BY <1>1, BuildStep DEF Build
  <2>2. SignInv' /\ PackInv'
    BY <1>1, SignStep, PackStep DEF Build
  <2>3. UploadsBelongTogether'
    BY <1>0, <1>1 DEF Build, UploadsBelongTogether, signVars, packVars
  <2>4. QED
    BY <2>1, <2>2, <2>3
<1>2. CASE Sign
  <2>1. BuildInv' /\ SignInv' /\ PackInv'
    BY <1>2, BuildStep, SignStep, PackStep DEF Sign
  <2>2. incoming = None => incoming' = None
    BY <1>2
    DEF Sign, SignNext, SignStart, CheckSource, Snapshot, require_key_fingerprint,
        ClaimOutput, WriteKey, WriteRaises, SignTool, Wipe, RemoveDirectory,
        Inspect, SignRaises, SignKilled, Edit
  <2>3. UNCHANGED <<phase, buildVerdict, bundleIn>>
    BY <1>2 DEF Sign, buildVars, packVars
  <2>4. UploadsBelongTogether'
    BY <1>0, <2>2, <2>3 DEF UploadsBelongTogether
  <2>5. QED
    BY <2>1, <2>4
<1>3. CASE Pack
  <2>1. BuildInv' /\ SignInv' /\ PackInv'
    BY <1>3, BuildStep, SignStep, PackStep DEF Pack
  <2>2. UNCHANGED <<bundleIn, signedIn>>
    BY <1>3
    DEF Pack, PackNext, PackStart, require_runtime_wheels, RequireSignedPayload,
        require_licenses, ClaimDirectory, BuildWheel, RequireDistinctNames,
        CopyWheel, PackStops
  <2>3. UNCHANGED <<phase, buildVerdict, incoming>>
    BY <1>3 DEF Pack, buildVars, signVars
  <2>4. UploadsBelongTogether'
    BY <1>0, <2>2, <2>3 DEF UploadsBelongTogether
  <2>5. QED
    BY <2>1, <2>4
<1>4. QED
  BY <1>1, <1>2, <1>3

(* The bundle of a build that ended well.                                  *)
LEMMA UploadedBundle ==
  ASSUME IInv, UploadBundle
  PROVE  bundle = None
         /\ bundle' \in {[artifact |-> Unsigned(p), licenses |-> TRUE] : p \in Payload}
<1>1. bundle = None
  BY DEF IInv, UploadsBelongTogether, UploadBundle
<1>2. bundleOut = [artifact |-> native, licenses |-> TRUE]
  BY DEF IInv, BuildInv, PreparedIsComplete, UploadBundle
<1>3. bundleOut # None
  <2>1. CASE native = None
    <3>1. bundleOut \in Bundle
      BY <1>2, <2>1 DEF Bundle
    <3>2. QED
      BY <3>1, NoneIsNoFile
  <2>2. CASE native # None
    BY <1>2, <2>2, UnsignedIsFile DEF IInv, BuildInv, BuildTypes
  <2>3. QED
    BY <2>1, <2>2
<1>4. native # None
  BY DEF IInv, BuildInv, PreparedHasArtifact, UploadBundle
<1>5. PICK p \in Payload : native = Unsigned(p)
  BY <1>4 DEF IInv, BuildInv, BuildTypes
<1>6. QED
  BY <1>1, <1>2, <1>5 DEF UploadBundle

(* Uploads and downloads keep what belongs together together.              *)
LEMMA TransferStep ==
  ASSUME IInv, UploadBundle \/ DownloadToSign \/ UploadSigned
               \/ DownloadToPackage \/ UploadWheels
  PROVE  IInv'
<1> USE DEF IInv
<1>1. CASE UploadBundle
  <2>1. BuildInv' /\ SignInv' /\ PackInv'
    BY <1>1, BuildFresh, SignStep, PackStep DEF UploadBundle
  <2>2. PICK p \in Payload : bundle' = [artifact |-> Unsigned(p), licenses |-> TRUE]
    BY <1>1, UploadedBundle
  <2>3. bundle' # None /\ phase' = "prepare" /\ buildVerdict' = "none"
    BY <1>1, <2>2, UnsignedIsFile DEF UploadBundle, BuildAfresh
  <2>4. bundle = None /\ bundleIn' = None /\ UNCHANGED signedBundle
    BY <1>1, UploadedBundle DEF UploadBundle, UploadsBelongTogether, packVars
  <2>5. UploadsBelongTogether'
    BY <2>2, <2>3, <2>4 DEF UploadsBelongTogether
  <2>6. QED
    BY <2>1, <2>5
<1>2. CASE DownloadToSign
  <2>1. PICK p \in Payload : bundle = [artifact |-> Unsigned(p), licenses |-> TRUE]
    BY <1>2 DEF DownloadToSign, UploadsBelongTogether
  <2>2. incoming' \in File
    BY <1>2, <2>1, UnsignedIsFile DEF DownloadToSign
  <2>3. SignInv'
    BY <1>2, <2>2, SignDownload DEF DownloadToSign
  <2>4. BuildInv' /\ PackInv'
    BY <1>2, BuildStep, PackStep DEF DownloadToSign
  <2>5. UploadsBelongTogether'
    BY <1>2 DEF DownloadToSign, UploadsBelongTogether, buildVars, packVars
  <2>6. QED
    BY <2>3, <2>4, <2>5
<1>3. CASE UploadSigned
  <2>1. BuildInv' /\ SignInv' /\ PackInv'
    BY <1>3, BuildStep, SignFresh, PackStep DEF UploadSigned
  <2>2. signedBundle' \in File \cup {None}
    BY <1>3 DEF UploadSigned, SignInv, SignTypes
  <2>3. bundle # None
    BY <1>3 DEF UploadSigned, SignInv, SignedHadInput, UploadsBelongTogether
  <2>4. UploadsBelongTogether'
    BY <1>3, <2>2, <2>3 DEF UploadSigned, UploadsBelongTogether, buildVars, packVars
  <2>5. QED
    BY <2>1, <2>4
<1>4. CASE DownloadToPackage
  <2>1. signedIn' \in File /\ bundle # None
    BY <1>4 DEF DownloadToPackage, UploadsBelongTogether
  <2>2. bundleIn' \in Bundle
    BY <1>4, <2>1, UnsignedIsFile DEF DownloadToPackage, UploadsBelongTogether
  <2>3. PackInv'
    BY <1>4, <2>1, <2>2, PackDownload DEF DownloadToPackage
  <2>4. BuildInv' /\ SignInv'
    BY <1>4, BuildStep, SignStep DEF DownloadToPackage
  <2>5. UploadsBelongTogether'
    BY <1>4, <2>1 DEF DownloadToPackage, UploadsBelongTogether, buildVars, signVars
  <2>6. QED
    BY <2>3, <2>4, <2>5
<1>5. CASE UploadWheels
  <2>1. BuildInv' /\ SignInv' /\ PackInv'
    BY <1>5, BuildStep, SignStep, PackFresh DEF UploadWheels
  <2>2. bundle # None
    BY <1>5
    DEF UploadWheels, PackInv, PackedIsComplete, UploadsBelongTogether
  <2>3. bundleIn' = None
    BY <1>5 DEF UploadWheels, PackAfresh
  <2>4. UploadsBelongTogether'
    BY <1>5, <2>2, <2>3 DEF UploadWheels, UploadsBelongTogether, buildVars, signVars
  <2>5. QED
    BY <2>1, <2>4
<1>6. QED
  BY <1>1, <1>2, <1>3, <1>4, <1>5

(* A job that is run again takes the jobs after it with it.                *)
LEMMA RerunStep ==
  ASSUME IInv, NEW first \in {"prepare", "sign", "package"}, Rerun(first)
  PROVE  IInv'
<1> USE DEF IInv, Rerun
<1>1. PackInv' /\ bundleIn' = None /\ wheels' = None
  BY PackFresh DEF PackAfresh
<1>2. BuildInv' /\ SignInv'
  BY BuildFresh, BuildStep, SignFresh, SignStep
<1>3. CASE first = "prepare"
  BY <1>1, <1>2, <1>3 DEF UploadsBelongTogether, SignAfresh
<1>4. CASE first = "sign"
  BY <1>1, <1>2, <1>4 DEF UploadsBelongTogether, SignAfresh, buildVars
<1>5. CASE first = "package"
  BY <1>1, <1>2, <1>5 DEF UploadsBelongTogether, signVars, buildVars
<1>6. QED
  BY <1>3, <1>4, <1>5

(* At first nothing is there.                                              *)
LEMMA IInvInit == Init => IInv
<1> SUFFICES ASSUME Init PROVE IInv
  OBVIOUS
<1>1. BuildInv /\ SignInv /\ PackInv
  BY BuildAtFirst, SignAtFirst, PackAtFirst DEF Init
<1>2. UploadsBelongTogether
  BY DEF Init, UploadsBelongTogether, PackInit, SignInit
<1>3. QED
  BY <1>1, <1>2 DEF IInv

(* No step leaves the invariant.                                           *)
LEMMA IInvStep == IInv /\ [Next]_vars => IInv'
<1>1. ASSUME IInv, Next PROVE IInv'
  BY <1>1, ScriptsStep, TransferStep, RerunStep DEF Next
<1>2. ASSUME IInv, UNCHANGED vars PROVE IInv'
  <2>1. BuildInv' /\ SignInv' /\ PackInv'
    BY <1>2, BuildStep, SignStep, PackStep DEF IInv, vars
  <2>2. UploadsBelongTogether'
    BY <1>2 DEF IInv, vars, UploadsBelongTogether, buildVars, signVars, packVars
  <2>3. QED
    BY <2>1, <2>2 DEF IInv
<1>3. QED
  BY <1>1, <1>2

(* Types, the steps of the three scripts and the uploads between them, in  *)
(* every reachable state.                                                  *)
THEOREM Invariant == Spec => []IInv
BY IInvInit, IInvStep, PTL DEF Spec

(* A private key is on disk while it is needed, and not left behind.       *)
THEOREM NoKeyStays == Spec => []KeysErased
<1>1. IInv => KeysErased
  BY DEF IInv, BuildInv, SignInv, KeysErased
<1>2. QED
  BY <1>1, Invariant, PTL

(* Who reports success has all of its result, of one build.                *)
THEOREM ResultsAreComplete == Spec => []BuildIsComplete
<1>1. IInv => BuildIsComplete
  BY DEF IInv, BuildInv, BuildIsComplete
<1>2. QED
  BY <1>1, Invariant, PTL
-----------------------------------------------------------------------------
(***************************************************************************)
(* What is finished stands.                                                *)
(***************************************************************************)
(* A complete bundle and the wheels that are out stay as they are.         *)
LEMMA BuildStands ==
  ASSUME BuildInv, BuildNext
  PROVE  /\ Finished(bundleOut) => bundleOut' \in {bundleOut, None}
         /\ localWheels \subseteq localWheels'
<1> USE DEF BuildInv, Finished
<1>0. buildAt \in {"copy_native", "copy_licenses"} => ~Finished(bundleOut)
  BY DEF BundleIsOwn
<1>1. CASE BuildStart
  BY <1>0, <1>1 DEF BuildStart
<1>2. CASE ReadKey
  BY <1>0, <1>2 DEF ReadKey
<1>3. CASE BuildBase \/ Compile \/ StageLicenses
  BY <1>0, <1>3 DEF BuildBase, Compile, StageLicenses
<1>4. CASE EmitDirectories
  BY <1>0, <1>4 DEF EmitDirectories
<1>5. CASE CopyNative
  BY <1>0, <1>5 DEF CopyNative
<1>6. CASE CopyLicenses
  BY <1>0, <1>6 DEF CopyLicenses
<1>7. CASE WriteBuildKey \/ SignNative
  BY <1>0, <1>7 DEF WriteBuildKey, SignNative
<1>8. CASE EraseBuildKey \/ BuildKeyStays
  BY <1>0, <1>8 DEF EraseBuildKey, BuildKeyStays
<1>9. CASE BuildLocalWheel
  BY <1>0, <1>9 DEF BuildLocalWheel
<1>10. CASE CopyLocalWheel
  BY <1>0, <1>10 DEF CopyLocalWheel
<1>11. CASE BuildRaises
  BY <1>0, <1>11 DEF BuildRaises, CopyStops
<1>12. CASE BuildWriteRaises
  BY <1>0, <1>12 DEF BuildWriteRaises
<1>13. CASE BuildKilled
  BY <1>0, <1>13 DEF BuildKilled, CopyStops
<1>14. QED
  BY <1>1, <1>2, <1>3, <1>4, <1>5, <1>6, <1>7, <1>8, <1>9, <1>10, <1>11, <1>12,
       <1>13 DEF BuildNext

(* A signed file is not written to again, unless others do.                *)
LEMMA SignedStands ==
  ASSUME SignInv, SignNext, signedOut # None, edits' = edits
  PROVE  signedOut' = signedOut
BY DEF SignInv, SignTypes, SignPlaces, SignNext, SignStart, CheckSource, Snapshot,
       require_key_fingerprint, ClaimOutput, WriteKey, WriteRaises, SignTool, Wipe,
       RemoveDirectory, Inspect, SignRaises, SignKilled, Edit

(* Wheels that are out stay.                                               *)
LEMMA PackedStands ==
  ASSUME PackInv, PackNext
  PROVE  wheelsOut \subseteq wheelsOut'
<1>1. CASE CopyWheel
  BY <1>1, CopyOnlyAdds DEF CopyWheel
<1>2. CASE PackStops
  BY <1>2 DEF PackStops, PackCopyStops
<1>3. CASE ~CopyWheel /\ ~PackStops
  BY <1>3
  DEF PackNext, PackStart, require_runtime_wheels, RequireSignedPayload,
      require_licenses, ClaimDirectory, BuildWheel, RequireDistinctNames
<1>4. QED
  BY <1>1, <1>2, <1>3

(* A later attempt in the same workspace refuses to write to what an       *)
(* earlier one has finished.                                               *)
THEOREM FinishedIsKept == Spec => FinishedStands
<1> DEFINE Stands ==
      /\ Finished(bundleOut) => bundleOut' \in {bundleOut, None}
      /\ localWheels \subseteq localWheels'
      /\ signedOut # None /\ edits' = edits => signedOut' \in {signedOut, None}
      /\ wheelsOut \subseteq wheelsOut' \/ wheelsOut' = {}
<1>0. ASSUME IInv, BuildAfresh, phase = "prepare"
      PROVE  bundleOut' = None /\ localWheels = {}
  BY <1>0 DEF IInv, BuildInv, BuildPlaces, BuildAfresh
<1>1. ASSUME IInv, Build \/ Sign \/ Pack PROVE Stands
  <2>1. CASE Build
    BY <1>1, <2>1, BuildStands DEF Build, IInv, signVars, packVars
  <2>2. CASE Sign
    BY <1>1, <2>2, SignedStands DEF Sign, IInv, buildVars, packVars
  <2>3. CASE Pack
    BY <1>1, <2>3, PackedStands DEF Pack, IInv, buildVars, signVars
  <2>4. QED
    BY <1>1, <2>1, <2>2, <2>3
<1>2. ASSUME IInv, UploadBundle PROVE Stands
  BY <1>0, <1>2 DEF UploadBundle, signVars, packVars
<1>3. ASSUME IInv, DownloadToSign \/ UploadSigned PROVE Stands
  BY <1>3 DEF DownloadToSign, UploadSigned, SignAfresh, buildVars, packVars
<1>4. ASSUME IInv, DownloadToPackage \/ UploadWheels PROVE Stands
  BY <1>4 DEF DownloadToPackage, UploadWheels, PackAfresh, buildVars, signVars
<1>5. ASSUME IInv, NEW first \in {"prepare", "sign", "package"}, Rerun(first)
      PROVE  Stands
  <2>1. wheelsOut' = {}
    BY <1>5 DEF Rerun, PackAfresh
  <2>2. signedOut' \in {signedOut, None}
    BY <1>5 DEF Rerun, SignAfresh, signVars
  <2>3. /\ bundleOut' \in {bundleOut, None}
        /\ localWheels \subseteq localWheels'
    BY <1>0, <1>5 DEF Rerun, buildVars
  <2>4. QED
    BY <2>1, <2>2, <2>3
<1>6. ASSUME IInv, UNCHANGED vars PROVE Stands
  BY <1>6 DEF vars, buildVars, signVars, packVars
<1>7. IInv /\ [Next]_vars => Stands
  <2> HIDE DEF Stands
  <2>1. QED
    BY <1>1, <1>2, <1>3, <1>4, <1>5, <1>6 DEF Next
<1>8. QED
  BY <1>7, Invariant, PTL DEF Spec, FinishedStands
-----------------------------------------------------------------------------
(***************************************************************************)
(* The jobs implement ArtifactChain.                                       *)
(***************************************************************************)
(* The abstract state: the code that was built, the code in the wheels.    *)
ChainCode == IF bundle = None THEN None ELSE bundle.artifact.payload

ChainWheels ==
  IF wheels = None THEN None ELSE [r \in ToSet(Runtimes) |-> CodeFor(r)]

(* Wheels that are all made of one trusted file are of its code.           *)
LEMMA CodeOfWheels ==
  ASSUME NEW ws, NEW r, NEW p \in Payload,
         r \in {w.runtime : w \in ws},
         \A w \in ws : w.artifact = [payload |-> p, slot |-> "trusted"]
  PROVE  LET artifacts == {w.artifact : w \in {v \in ws : v.runtime = r}}
         IN  /\ \E q \in Payload : artifacts = {[payload |-> q, slot |-> "trusted"]}
             /\ (CHOOSE q \in Payload :
                   artifacts = {[payload |-> q, slot |-> "trusted"]}) = p
<1> DEFINE artifacts == {w.artifact : w \in {v \in ws : v.runtime = r}}
           Only(q) == artifacts = {[payload |-> q, slot |-> "trusted"]}
<1>1. Only(p)
  OBVIOUS
<1>2. ASSUME NEW q \in Payload, Only(q) PROVE q = p
  <2>1. [payload |-> q, slot |-> "trusted"] = [payload |-> p, slot |-> "trusted"]
    BY <1>1, <1>2
  <2>2. [payload |-> q, slot |-> "trusted"].payload
          = [payload |-> p, slot |-> "trusted"].payload
    BY <2>1
  <2>3. QED
    BY <2>2
<1>3. (CHOOSE q \in Payload : Only(q)) = p
  <2> HIDE DEF Only
  <2>1. QED
    BY <1>1, <1>2
<1>4. QED
  BY <1>1, <1>3

(* Wheels are uploaded of the code that was built, for every runtime.      *)
LEMMA UploadIsPackage ==
  ASSUME IInv, UploadWheels
  PROVE  /\ bundle # None /\ ChainCode # None
         /\ wheels' # None =>
              ChainWheels' = [r \in ToSet(Runtimes) |-> ChainCode]
<1>1. /\ bundleIn # None /\ signedIn # None /\ SignedAsBuilt
      /\ {w.runtime : w \in wheelsOut} = ToSet(Runtimes)
      /\ \A w \in wheelsOut : w.artifact = signedIn /\ signedIn.slot = "trusted"
      /\ signedIn \in File
  BY DEF IInv, PackInv, PackTypes, PackedIsComplete, UploadWheels
<1>2. bundleIn = bundle /\ bundle # None
  BY <1>1 DEF IInv, UploadsBelongTogether
<1>3. PICK p \in Payload : bundle = [artifact |-> Unsigned(p), licenses |-> TRUE]
  BY <1>2 DEF IInv, UploadsBelongTogether
<1>4. bundle.artifact.payload = p /\ bundleIn.artifact.payload = p
  BY <1>2, <1>3 DEF Unsigned
<1>5. signedIn.payload = p
  BY <1>1, <1>4 DEF SignedAsBuilt, require_signed_payload, require_signed_artifact
<1>6. \A w \in wheelsOut : w.artifact = [payload |-> p, slot |-> "trusted"]
  <2>1. signedIn = [payload |-> signedIn.payload, slot |-> signedIn.slot]
    BY <1>1 DEF File
  <2>2. QED
    BY <1>1, <1>5, <2>1
<1>7. wheels' = wheelsOut
  BY DEF UploadWheels
<1>8. ASSUME NEW r \in ToSet(Runtimes) PROVE CodeFor(r)' = p
  BY <1>1, <1>6, <1>7, <1>8, CodeOfWheels DEF CodeFor
<1>9. ChainCode = p /\ p # None
  BY <1>2, <1>4, PayloadsAreDistinct DEF ChainCode
<1>10. QED
  BY <1>2, <1>8, <1>9 DEF ChainWheels

(* Building, packaging and running again are the only steps that are seen  *)
(* from outside; all others are invisible.                                 *)
LEMMA ChainStep ==
  ASSUME IInv, IInv', [Next]_vars
  PROVE  [Chain!Next]_(Chain!cvars)
<1> USE DEF Chain!Next, Chain!Build, Chain!Package, Chain!Withdraw, Chain!cvars
<1>0. bundle # None => ChainCode \in Payload
  BY DEF IInv, UploadsBelongTogether, ChainCode, Unsigned
<1>1. CASE UNCHANGED <<bundle, wheels>>
  BY <1>1 DEF CodeFor
<1>2. CASE UploadBundle
  <2>1. bundle' # None => ChainCode' \in Payload
    BY DEF IInv, UploadsBelongTogether, ChainCode, Unsigned
  <2>2. wheels = None /\ wheels' = None
    BY <1>2, UploadedBundle DEF UploadBundle, IInv, UploadsBelongTogether
  <2>3. QED
    BY <2>1, <2>2 DEF ChainCode
<1>3. CASE UploadWheels
  <2>1. UNCHANGED bundle
    BY <1>3 DEF UploadWheels
  <2>2. QED
    BY <1>3, <2>1, UploadIsPackage DEF ChainCode, ChainWheels
<1>4. CASE \E first \in {"prepare", "sign", "package"} : Rerun(first)
  <2>1. wheels' = None /\ bundle' \in {bundle, None}
    BY <1>4 DEF Rerun
  <2>2. QED
    BY <2>1
<1>5. QED
  BY <1>1, <1>2, <1>3, <1>4
  DEF Next, vars, Build, Sign, Pack, DownloadToSign, UploadSigned, DownloadToPackage

(* The jobs together hand over complete sets of wheels, of the code that   *)
(* was built and nothing else, or no wheels.                               *)
THEOREM Implements == Spec => ImplementsArtifactChain
<1>1. Init => Chain!Init
  BY DEF Init, Chain!Init
<1>2. QED
  BY <1>1, ChainStep, Invariant, PTL DEF ImplementsArtifactChain, Spec, Chain!Spec
-----------------------------------------------------------------------------
(***************************************************************************)
(* The download cache, from which the build on every machine takes bison,  *)
(* alone: for every number of builds that share it and of mirrors.         *)
(***************************************************************************)
(* What is about to be published was verified: nobody else writes in the   *)
(* directory where it lies.                                                *)
PublishesVerified ==
  \A f \in Fetchers : pc[f] = "publish" => candidate[WorkDir(f)] = Good

(* Who will return after the cleanup has published, and nobody has put     *)
(* anything but the pinned bytes there since.                              *)
LeftIsVerified ==
  \A f \in Fetchers : pc[f] = "cleanup" /\ outcome[f] = "returned" => archive = Good

FetchInv ==
  /\ TypeOK
  /\ PublishesVerified /\ LeftIsVerified
  /\ ReturnedIsVerified

(* The inductive invariant holds at the beginning.                         *)
LEMMA FetchBegins == FetchInit => FetchInv
BY BisonParameters
DEF Parameters, FetchInit, FetchInv, TypeOK, PublishesVerified, LeftIsVerified,
    ReturnedIsVerified, Working, Ended, WorkDir

(* No step leaves the types.                                               *)
LEMMA FetchTypes ==
  ASSUME TypeOK, [FetchNext]_fetchVars
  PROVE  TypeOK'
<1>1. CASE UNCHANGED fetchVars
  BY <1>1 DEF TypeOK, fetchVars
<1>2. ASSUME NEW f \in Fetchers,
             Step(f) \/ Raise(f) \/ Kill(f) \/ Again(f)
      PROVE  TypeOK'
  <2> USE BisonParameters, <1>2
      DEF Parameters, TypeOK, Working, Ended, Go, Leave, WorkDir
  <2>1. CASE LookUp(f)   BY <2>1 DEF LookUp
  <2>2. CASE Make(f)     BY <2>2 DEF Make
  <2>3. CASE Download(f) BY <2>3 DEF Download
  <2>4. CASE Verify(f)   BY <2>4 DEF Verify
  <2>5. CASE Publish(f)  BY <2>5 DEF Publish
  <2>6. CASE Discard(f)  BY <2>6 DEF Discard
  <2>7. CASE Cleanup(f)  BY <2>7 DEF Cleanup
  <2>8. CASE Raise(f)    BY <2>8 DEF Raise
  <2>9. CASE Kill(f)     BY <2>9 DEF Kill
  <2>10. CASE Again(f)   BY <2>10 DEF Again
  <2>11. QED
    BY <2>1, <2>2, <2>3, <2>4, <2>5, <2>6, <2>7, <2>8, <2>9, <2>10 DEF Step
<1>3. QED
  BY <1>1, <1>2 DEF FetchNext

(* The archive changes only in Publish, which makes it the pinned one.     *)
LEMMA ArchiveChange ==
  ASSUME FetchInv, [FetchNext]_fetchVars
  PROVE  archive' = archive \/ archive' = Good
<1>1. CASE UNCHANGED fetchVars
  BY <1>1 DEF fetchVars
<1>2. ASSUME NEW f \in Fetchers,
             Step(f) \/ Raise(f) \/ Kill(f) \/ Again(f)
      PROVE  archive' = archive \/ archive' = Good
  <2>1. CASE Publish(f)
    BY <1>2, <2>1 DEF Publish, FetchInv, PublishesVerified
  <2>2. CASE ~Publish(f)
    BY <1>2, <2>2
    DEF Step, LookUp, Make, Download, Verify,
        Discard, Cleanup, Raise, Kill, Again
  <2>3. QED
    BY <2>1, <2>2
<1>3. QED
  BY <1>1, <1>2 DEF FetchNext

(* Every step keeps the three parts that relate places and bytes.          *)
LEMMA FetchBytes ==
  ASSUME FetchInv, [FetchNext]_fetchVars
  PROVE  (PublishesVerified /\ LeftIsVerified /\ ReturnedIsVerified)'
<1>0. archive' = archive \/ archive' = Good
  BY ArchiveChange
<1>1. CASE UNCHANGED fetchVars
  BY <1>1 DEF FetchInv, fetchVars, PublishesVerified, LeftIsVerified,
              ReturnedIsVerified, WorkDir
<1>2. ASSUME NEW f \in Fetchers,
             Step(f) \/ Raise(f) \/ Kill(f) \/ Again(f)
      PROVE  (PublishesVerified /\ LeftIsVerified /\ ReturnedIsVerified)'
  <2> USE BisonParameters, <1>0, <1>2
      DEF Parameters, FetchInv, TypeOK, PublishesVerified, LeftIsVerified,
          ReturnedIsVerified, Working, Ended, Go, Leave,
          IsPinned, WorkDir
  <2>1. CASE LookUp(f)   BY <2>1 DEF LookUp
  <2>2. CASE Make(f)     BY <2>2 DEF Make
  <2>3. CASE Download(f) BY <2>3 DEF Download
  <2>4. CASE Verify(f)   BY <2>4 DEF Verify
  <2>5. CASE Publish(f)  BY <2>5 DEF Publish
  <2>6. CASE Discard(f)  BY <2>6 DEF Discard
  <2>7. CASE Cleanup(f)  BY <2>7 DEF Cleanup
  <2>8. CASE Raise(f)    BY <2>8 DEF Raise
  <2>9. CASE Kill(f)     BY <2>9 DEF Kill
  <2>10. CASE Again(f)   BY <2>10 DEF Again
  <2>11. QED
    BY <2>1, <2>2, <2>3, <2>4, <2>5, <2>6, <2>7, <2>8, <2>9, <2>10 DEF Step
<1>3. QED
  BY <1>1, <1>2 DEF FetchNext

(* A fetcher that has returned has left the pinned bytes in the cache, for *)
(* any number of builds that share it and any mirrors.                     *)
THEOREM CacheIsVerified == FetchSpec => []ReturnedIsVerified
<1>1. FetchInit => FetchInv
  BY FetchBegins
<1>2. FetchInv /\ [FetchNext]_fetchVars => FetchInv'
  BY FetchTypes, FetchBytes DEF FetchInv
<1>3. FetchInv => ReturnedIsVerified
  BY DEF FetchInv
<1>4. QED
  BY <1>1, <1>2, <1>3, PTL DEF FetchSpec
=============================================================================
