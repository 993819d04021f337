--------------------------- MODULE MCProviderJobs ---------------------------
(***************************************************************************)
(* ProviderJobs for TLC: two runtimes, builds that may or may not be       *)
(* reproducible, and arguments that name a runtime twice.                  *)
(***************************************************************************)
EXTENDS ProviderJobs

CONSTANTS cp310, cp312, p1, p2

MCPayload  == {p1, p2}
MCRuntimes == <<cp310, cp312>>
MCRequests == {<<cp310, cp312>>, <<cp310, cp310>>}

(* The builds are interchangeable.                                         *)
Symmetry == Permutations(MCPayload)
=============================================================================
