----------------------------- MODULE TelemetryMC -----------------------------
(***************************************************************************)
(* Telemetry with three handlers, so that two can be derived from one, and *)
(* two records, so that one can be sampled away; levels on both sides of   *)
(* every threshold, one of them between two of Zap's; and configurations   *)
(* with two outputs, one and none, with and without sampling, and two that *)
(* cannot be parsed.                                                       *)
(***************************************************************************)
EXTENDS Telemetry, TLC

CONSTANTS h1, h2, h3, r1, r2, a1, a2

MCHandlers   == {h1, h2, h3}
MCRecords    == {r1, r2}
MCAttrs      == {a1, a2}
MCSlogLevels == {-4, 6, 8}
Outputs(level, file, console, consoleLevel, initial, thereafter) ==
  [LogLevel |-> level, LogToFile |-> file, LogToConsole |-> console,
   ConsoleLogLevel |-> consoleLevel, StacktraceLevel |-> Error,
   SamplingInitial |-> initial, SamplingThereafter |-> thereafter]
MCConfigs ==
  {Outputs(Info, TRUE,  TRUE,  Warn, 1, 2),
   Outputs(Warn, TRUE,  TRUE,  Info, 0, 2),
   Outputs(Error, TRUE, FALSE, Info, 1, 0),
   Outputs(Info, FALSE, FALSE, Info, 1, 2),
   Outputs(Info, FALSE, TRUE,  99,   0, 0),
   [Outputs(Info, TRUE, FALSE, Info, 0, 0) EXCEPT !.StacktraceLevel = 99]}
MCSymmetry   == Permutations(MCHandlers) \cup Permutations(MCRecords) \cup
                Permutations(MCAttrs)
=============================================================================
