-------------------------- MODULE MCSiftComparison --------------------------
(***************************************************************************)
(* SiftComparison for TLC: three numbers of probes, two chunks, and two    *)
(* answers per chunk; the recall suffices when the first answer is given   *)
(* to either chunk.                                                        *)
(***************************************************************************)
EXTENDS SiftComparison, Functions

CONSTANTS near, far

MCProbe   == {64, 128, 256}
MCRanking == {near, far}
MCSufficient == {a \in [1 .. Chunks -> MCRanking] : near \in Range(a)}
=============================================================================
