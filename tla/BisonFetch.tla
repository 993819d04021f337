----------------------------- MODULE BisonFetch -----------------------------
(***************************************************************************)
(* fetch_bison() of scripts/fetch_vane_bison.py, run by several builds     *)
(* that share VANE_BUILD_TOOLS_DIR: each looks at the cached archive, and  *)
(* downloads it into a directory of its own, from one mirror after the     *)
(* other, until the pinned digest fits.                                    *)
(***************************************************************************)
EXTENDS Naturals

CONSTANTS
  Fetchers,        \* processes
  Mirrors,         \* how many URLS there are
  Good, Bad,       \* bytes with the pinned digest, and any others
  NoFile           \* no file

Parameters ==
  /\ Mirrors \in Nat \ {0}
  /\ Good # Bad /\ NoFile \notin {Good, Bad}

ASSUME BisonParameters == Parameters

VARIABLES
  archive,         \* the cached file
  candidate,       \* in each temporary directory, the file being downloaded
  url,             \* mirror that a fetcher is at
  pc,              \* where a fetcher is
  outcome          \* what it leaves its temporary directory with

fetchVars == <<archive, candidate, url, pc, outcome>>

Working == {"inspect", "make", "download", "verify", "publish", "discard", "cleanup"}
Ended   == {"returned", "failed", "killed"}

FetchInit ==
  /\ archive \in {Good, Bad, NoFile}
  /\ candidate = [f \in Fetchers |-> NoFile]
  /\ url = [f \in Fetchers |-> 1]
  /\ pc = [f \in Fetchers |-> "inspect"]
  /\ outcome = [f \in Fetchers |-> "failed"]

Go(f, to) == pc' = [pc EXCEPT ![f] = to]

(* Mutant: one directory in the build root, where everybody downloads.     *)
WorkDir_shared(f) == CHOOSE g \in Fetchers : TRUE

(* TemporaryDirectory: a new directory, known to its process only.         *)
WorkDir(f) == f

(* Out of the with statement.                                              *)
Leave(f, how) == Go(f, "cleanup") /\ outcome' = [outcome EXCEPT ![f] = how]
-----------------------------------------------------------------------------
IsPinned(bytes) == bytes = Good

LookUp(f) ==
  /\ pc[f] = "inspect"
  /\ Go(f, IF IsPinned(archive) THEN "returned" ELSE "make")
  /\ UNCHANGED <<archive, candidate, url, outcome>>

Make(f) ==
  /\ pc[f] = "make"
  /\ candidate' = [candidate EXCEPT ![WorkDir(f)] = NoFile]
  /\ url' = [url EXCEPT ![f] = 1]
  /\ Go(f, "download")
  /\ UNCHANGED <<archive, outcome>>

(* curl writes what the mirror serves; or it fails, or is killed after 150 *)
(* seconds, with any beginning of it written.                              *)
Download(f) ==
  /\ pc[f] = "download"
  /\ \/ \E bytes \in {Good, Bad} :
          candidate' = [candidate EXCEPT ![WorkDir(f)] = bytes] /\ Go(f, "verify")
     \/ \E bytes \in {Good, Bad, NoFile} :
          candidate' = [candidate EXCEPT ![WorkDir(f)] = bytes] /\ Go(f, "discard")
  /\ UNCHANGED <<archive, url, outcome>>

Verify(f) ==
  /\ pc[f] = "verify"
  /\ Go(f, IF IsPinned(candidate[WorkDir(f)]) THEN "publish" ELSE "discard")
  /\ UNCHANGED <<archive, candidate, url, outcome>>

(* rename: the archive is replaced at once, also under a reader's eyes.    *)
Publish(f) ==
  /\ pc[f] = "publish"
  /\ archive' = candidate[WorkDir(f)]
  /\ candidate' = [candidate EXCEPT ![WorkDir(f)] = NoFile]
  /\ Leave(f, "returned")
  /\ UNCHANGED url

(* Mutant: the same mirror again, until it serves the archive.             *)
Discard_again(f) ==
  /\ pc[f] = "discard"
  /\ candidate' = [candidate EXCEPT ![WorkDir(f)] = NoFile]
  /\ Go(f, "download")
  /\ UNCHANGED <<archive, url, outcome>>

(* The next mirror, or the final error.                                    *)
Discard(f) ==
  /\ pc[f] = "discard"
  /\ candidate' = [candidate EXCEPT ![WorkDir(f)] = NoFile]
  /\ IF url[f] < Mirrors
     THEN Go(f, "download") /\ url' = [url EXCEPT ![f] = @ + 1] /\ UNCHANGED outcome
     ELSE Leave(f, "failed") /\ UNCHANGED url
  /\ UNCHANGED archive

Cleanup(f) ==
  /\ pc[f] = "cleanup"
  /\ candidate' = [candidate EXCEPT ![WorkDir(f)] = NoFile]
  /\ Go(f, outcome[f])
  /\ UNCHANGED <<archive, url, outcome>>

(* A full disk, a directory that cannot be written, an interrupt.          *)
Raise(f) ==
  /\ pc[f] \in Working \ {"cleanup"} /\ Leave(f, "failed")
  /\ UNCHANGED <<archive, candidate, url>>

(* A build that is killed leaves its temporary directory behind.           *)
Kill(f) ==
  /\ pc[f] \in Working /\ Go(f, "killed")
  /\ UNCHANGED <<archive, candidate, url, outcome>>

(* The next build, in the same place.                                      *)
Again(f) ==
  /\ pc[f] \in Ended /\ Go(f, "inspect")
  /\ UNCHANGED <<archive, candidate, url, outcome>>

Step(f) ==
  \/ LookUp(f) \/ Make(f) \/ Download(f) \/ Verify(f)
  \/ Publish(f) \/ Discard(f) \/ Cleanup(f)

FetchNext == \E f \in Fetchers : Step(f) \/ Raise(f) \/ Kill(f) \/ Again(f)

FetchSpec == FetchInit /\ [][FetchNext]_fetchVars

(* A process that is not killed goes on; curl is given 150 seconds.        *)
FairFetchSpec == FetchSpec /\ \A f \in Fetchers : WF_fetchVars(Step(f))
-----------------------------------------------------------------------------
TypeOK ==
  /\ archive \in {Good, Bad, NoFile}
  /\ candidate \in [Fetchers -> {Good, Bad, NoFile}]
  /\ url \in [Fetchers -> 1 .. Mirrors]
  /\ pc \in [Fetchers -> Working \cup Ended]
  /\ outcome \in [Fetchers -> {"returned", "failed"}]

(* docs/VANE_RELEASE.md: downloads are verified before they enter the      *)
(* cache.  After a fetcher has returned the archive, its path holds the    *)
(* pinned bytes, whatever other fetchers download and publish meanwhile.   *)
ReturnedIsVerified == \A f \in Fetchers : pc[f] = "returned" => archive = Good

(* Every fetch ends, whatever the mirrors serve.                           *)
FetchEnds == \A f \in Fetchers : pc[f] \in Working ~> pc[f] \in Ended
=============================================================================
