------------------------------ MODULE Readers ------------------------------
(***************************************************************************)
(* The three readers of what workers leave behind, one at a time:          *)
(* SampleStream for the lines of a C API worker, NativeSamples for those of*)
(* a native worker, CacheCounters for the snapshots of a diagnostic.       *)
(***************************************************************************)
EXTENDS SampleStream

CONSTANTS
  NativeLine,                                         \* of NativeSamples
  Access, DiagnosticWarmup, DiagnosticRounds, MaxWork \* of CacheCounters

VARIABLES
  reader,                                             \* which one it is
  lines, collected, marks, result,                    \* of NativeSamples
  kind, total, inMeasured, registered, snapshots      \* of CacheCounters

nativeVars  == <<lines, collected, marks, result>>
counterVars == <<kind, total, inMeasured, registered, snapshots>>
readerVars  == <<reader, vars, nativeVars, counterVars>>

Native   == INSTANCE NativeSamples WITH Line <- NativeLine
Counters == INSTANCE CacheCounters WITH Warmup <- DiagnosticWarmup,
                                        Rounds <- DiagnosticRounds

ASSUME ReaderParameters == Parameters /\ Native!Parameters /\ Counters!Parameters

ReadersInit ==
  /\ reader \in {"capi", "native", "counters"}
  /\ Init /\ Native!Init
  /\ Counters!Init /\ (reader # "counters" => kind = "cumulative")

ReadCapi   == reader = "capi" /\ Next /\ UNCHANGED <<nativeVars, counterVars>>
ReadNative == reader = "native" /\ Native!Next /\ UNCHANGED <<vars, counterVars>>
Record     == reader = "counters" /\ Counters!Snapshot /\ UNCHANGED <<vars, nativeVars>>

ReadersNext == (ReadCapi \/ ReadNative \/ Record) /\ UNCHANGED reader

ReadersSpec == ReadersInit /\ [][ReadersNext]_readerVars
-----------------------------------------------------------------------------
(* The native reader accepts the complete measurements and nothing else.   *)
AcceptedIsMeasurement == Native!AcceptedIsMeasurement

(* The counters of an accepted file are those of the measured rounds.      *)
CountersAreExact == Counters!CountersAreExact
=============================================================================
