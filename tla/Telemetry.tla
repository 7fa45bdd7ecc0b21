------------------------------ MODULE Telemetry ------------------------------
(***************************************************************************)
(* What a service says of itself: the Zap logger of                        *)
(* observability/logging/logger.go with its slog adapter, and the tracer   *)
(* provider of observability/tracing, whose set-up reports to that logger. *)
(*                                                                         *)
(* Handlers are derived, and records logged, by any number of goroutines.  *)
(* A slice is modelled as Go has it: an array and a length, so that two    *)
(* slices may share an array.  Zap, lumberjack and the OpenTelemetry SDK   *)
(* are external: a logger writes an entry to its cores one after another,  *)
(* and a log file that was closed is opened again by the next write.       *)
(* The name of a logger, the times and the encodings are left out.         *)
(***************************************************************************)
EXTENDS Integers, Sequences

CONSTANTS
  Handlers,     \* slog handlers
  Records,      \* records the application logs, all with the same message
  Attrs,        \* attributes
  SlogLevels,   \* levels of those records
  Configs,      \* configurations of the logger
  Unparsable,   \* a level ParseLevel does not know
  Depth         \* bound: attributes of a handler

Config ==
  [LogLevel : Int, ConsoleLogLevel : Int, StacktraceLevel : Int,
   LogToFile : BOOLEAN, LogToConsole : BOOLEAN,
   SamplingInitial : Nat, SamplingThereafter : Nat]

ASSUME TelemetryAssumption ==
  /\ Configs \subseteq Config
  /\ SlogLevels \subseteq Int /\ Depth \in Nat /\ Unparsable \in Int
  /\ {"partial", "initialised"} \cap Records = {}

\* Zap's levels are those of slog divided by four.
Debug == -1
Info  == 0
Warn  == 1
Error == 2
ZapLevels == Debug..Error

\* The entries: the application's, and the tracer's two.
Entries    == Records \cup {"partial", "initialised"}
Message(e) == IF e \in Records THEN "request" ELSE e
Messages   == {"request", "partial", "initialised"}
Sinks      == {"file", "console", "stderr"}

VARIABLES
  config,    \* the configuration
  logger,    \* "none", "error", "made", or "cleaned" up
  cores,     \* the logger's cores: where it writes, and from which level
  counts,    \* the sampler's counters, of this second
  handler,   \* the slog handlers
  array,     \* the array each handler allocated, if it did
  entry,     \* the entries, once they are logged
  written,   \* what the sinks got
  tracer     \* the set-up of the tracer provider

vars == <<config, logger, cores, counts, handler, array, entry,
          written, tracer>>

NoHandler == [made |-> FALSE, nop |-> FALSE, array |-> 0, len |-> 0,
              given |-> <<>>]
NoEntry   == [pc |-> "idle", level |-> Info, fields |-> <<>>, due |-> {},
              sampled |-> FALSE, nop |-> FALSE, given |-> <<>>]

Init ==
  /\ config \in Configs
  /\ logger = "none"
  /\ cores = {}
  /\ counts = [k \in ZapLevels \X Messages |-> 0]
  /\ handler = [h \in Handlers |-> NoHandler]
  /\ array = [h \in Handlers |-> <<>>]
  /\ entry = [e \in Entries |-> NoEntry]
  /\ written = [s \in Sinks |-> {}]
  /\ tracer = [pc |-> "idle", identity |-> FALSE]

-----------------------------------------------------------------------------
(***************************************************************************)
(* The logger.                                                             *)
(***************************************************************************)

\* The cores that were asked for.
ConfiguredCores(c) ==
  {k \in {[sink |-> "file",    level |-> c.LogLevel],
          [sink |-> "console", level |-> c.ConsoleLogLevel]} :
     IF k.sink = "file" THEN c.LogToFile ELSE c.LogToConsole}

\* The file's, the console's, and with neither the standard error's.
Cores(c) ==
  IF ConfiguredCores(c) = {} THEN {[sink |-> "stderr", level |-> c.LogLevel]}
  ELSE ConfiguredCores(c)

NewLogger ==
  /\ logger = "none"
  /\ IF Unparsable \in {config.LogLevel, config.ConsoleLogLevel,
                       config.StacktraceLevel}
     THEN logger' = "error" /\ UNCHANGED cores
     ELSE logger' = "made" /\ cores' = Cores(config)
  /\ UNCHANGED <<config, counts, handler, array, entry, written,
                 tracer>>

\* There is a sampler only when both numbers are given.  It lets the first
\* SamplingInitial messages of a second pass, and every SamplingThereafter-th
\* from there.
Sampler == config.SamplingInitial > 0 /\ config.SamplingThereafter > 0

Sampled(n) ==
  /\ Sampler
  /\ n > config.SamplingInitial
  /\ (n - config.SamplingInitial) % config.SamplingThereafter # 0

\* Logs entry e: decides, once for every core, whether it is written.  The
\* logger of a context without one ("nop") writes nothing.
Log(e, level, fields, given, nop) ==
  LET key == <<level, Message(e)>>
      due == {k.sink : k \in {c \in cores : c.level <= level}}
      n   == counts[key] + 1
  IN  /\ logger \in {"made", "cleaned"}
      /\ entry[e].pc = "idle"
      /\ counts' = IF nop \/ due = {} \/ ~Sampler
                    THEN counts ELSE [counts EXCEPT ![key] = n]
      /\ entry' = [entry EXCEPT ![e] =
           [pc |-> "logged", level |-> level, fields |-> fields,
            due |-> IF nop \/ Sampled(n) THEN {} ELSE due,
            sampled |-> ~nop /\ due # {} /\ Sampled(n),
            nop |-> nop, given |-> given]]

\* The cores are written one after another, the file's first.
Write(e) ==
  \E s \in entry[e].due :
    /\ s = "file" \/ "file" \notin entry[e].due
    /\ written' = [written EXCEPT ![s] =
                     @ \cup {[entry |-> e, fields |-> entry[e].fields]}]
    /\ entry' = [entry EXCEPT ![e].due = @ \ {s}]
    /\ UNCHANGED <<config, logger, cores, counts, handler, array, tracer>>

\* A second has passed.
Tick ==
  /\ counts # [k \in ZapLevels \X Messages |-> 0]
  /\ counts' = [k \in ZapLevels \X Messages |-> 0]
  /\ UNCHANGED <<config, logger, cores, handler, array, entry,
                 written, tracer>>

\* The function NewLogger returns with the logger: the file is closed, and
\* whoever still logs is not told, but opens it again.
Cleanup ==
  /\ logger = "made"
  /\ logger' = "cleaned"
  /\ UNCHANGED <<config, cores, counts, handler, array, entry, written,
                 tracer>>

-----------------------------------------------------------------------------
(***************************************************************************)
(* The slog adapter.                                                       *)
(***************************************************************************)
Derive(h, new, arrays) ==
  /\ ~handler[h].made
  /\ handler' = [handler EXCEPT ![h] = new]
  /\ array' = arrays
  /\ UNCHANGED <<config, logger, cores, counts, entry, written,
                 tracer>>

\* LoggerFromContext: a context has the logger, or has none, or nil.
LoggerFromContext == {"logger", "nop"}

NewSlogHandler(h) ==
  /\ logger = "made"
  /\ \E l \in LoggerFromContext :
       Derive(h, [made |-> TRUE, nop |-> (l = "nop"), array |-> h,
                  len |-> 0, given |-> <<>>], array)

\* The attributes a handler sees in its array.
Seen(h) == SubSeq(array[handler[h].array], 1, handler[h].len)

\* Fault: appends to the handler's own array, past its length.
WithAttrsInPlace(p, h) ==
  /\ handler[p].made /\ handler[p].len < Depth
  /\ \E a \in Attrs :
       Derive(h, [handler[p] EXCEPT !.len = @ + 1, !.given = Append(@, a)],
              [array EXCEPT ![handler[p].array] = Append(Seen(p), a)])

\* Copies the attributes into an array of the child's own.
WithAttrs(p, h) ==
  /\ handler[p].made /\ handler[p].len < Depth
  /\ \E a \in Attrs :
       Derive(h, [handler[p] EXCEPT !.array = h, !.len = @ + 1,
                                    !.given = Append(@, a)],
              [array EXCEPT ![h] = Append(Seen(p), a)])

\* Shares the attributes.
WithGroup(p, h) == handler[p].made /\ Derive(h, handler[p], array)

\* The level is rounded down to one of Zap's, and debug is the lowest.
ZapLevel(l) == IF l < 0 THEN Debug ELSE IF l >= 8 THEN Error ELSE l \div 4

\* The handler's attributes come first, then the record's own, which are one
\* value: the record.
Handle(e, h) ==
  /\ handler[h].made
  /\ \E l \in SlogLevels :
       Log(e, ZapLevel(l), Append(Seen(h), e), Append(handler[h].given, e),
           handler[h].nop)
  /\ UNCHANGED <<config, logger, cores, handler, array, written,
                 tracer>>

-----------------------------------------------------------------------------
(***************************************************************************)
(* The tracer provider, set up once by a service that has a logger.        *)
(***************************************************************************)
Trace(pc, identity) ==
  /\ tracer' = [pc |-> pc, identity |-> identity]
  /\ UNCHANGED <<config, logger, cores, handler, array, written>>

Returned(e) == entry[e].pc = "logged" /\ entry[e].due = {}

\* The exporter cannot be created.
ExporterFails ==
  /\ logger = "made" /\ tracer.pc = "idle"
  /\ Trace("error", FALSE) /\ UNCHANGED <<counts, entry>>

\* Fault: the error is not passed on.
NewResourceQuietly ==
  \E identity \in BOOLEAN :
    Trace("install", identity) /\ UNCHANGED <<counts, entry>>

\* A resource with the service's name, environment and version; or, after
\* any error of its parts, the SDK's default and a warning.
NewResource ==
  \/ Trace("install", TRUE) /\ UNCHANGED <<counts, entry>>
  \/ Trace("warn", FALSE) /\ Log("partial", Warn, <<>>, <<>>, FALSE)

InitProvider ==
  /\ logger = "made" /\ tracer.pc = "idle"
  /\ NewResource

WarningReturns ==
  /\ tracer.pc = "warn" /\ Returned("partial")
  /\ Trace("install", tracer.identity) /\ UNCHANGED <<counts, entry>>

\* The provider is installed, and that is logged.
SetTracerProvider ==
  /\ tracer.pc = "install"
  /\ Trace("installed", tracer.identity)
  /\ Log("initialised", Info, <<>>, <<>>, FALSE)

-----------------------------------------------------------------------------
Next ==
  \/ NewLogger \/ Tick \/ Cleanup
  \/ \E e \in Entries : Write(e)
  \/ \E h \in Handlers :
       \/ NewSlogHandler(h)
       \/ \E p \in Handlers : WithAttrs(p, h) \/ WithGroup(p, h)
       \/ \E e \in Records : Handle(e, h)
  \/ ExporterFails \/ InitProvider \/ WarningReturns \/ SetTracerProvider

Spec == Init /\ [][Next]_vars

-----------------------------------------------------------------------------
(***************************************************************************)
(* Properties.                                                             *)
(***************************************************************************)
AttrsOf == UNION {[1..n -> Attrs] : n \in 0..Depth}
Fields  == Seq(Attrs \cup Records)

\* Types; a logger always has somewhere to write.
TypeOK ==
  /\ config \in Configs
  /\ logger \in {"none", "error", "made", "cleaned"}
  /\ cores \subseteq [sink : Sinks, level : Int \ {Unparsable}]
  /\ logger \in {"made", "cleaned"} => cores # {}
  /\ counts \in [ZapLevels \X Messages -> Nat]
  /\ handler \in [Handlers -> {NoHandler} \cup
       [made : {TRUE}, nop : BOOLEAN, array : Handlers, len : 0..Depth,
        given : AttrsOf]]
  /\ array \in [Handlers -> AttrsOf]
  /\ entry \in [Entries ->
       [pc : {"idle", "logged"}, level : ZapLevels, fields : Fields,
        due : SUBSET Sinks, sampled : BOOLEAN, nop : BOOLEAN,
        given : Fields]]
  /\ \A s \in Sinks :
       written[s] \subseteq [entry : Entries, fields : Fields]
  /\ tracer \in [pc : {"idle", "warn", "install", "installed", "error"},
                 identity : BOOLEAN]

\* A record is written to every sink that wants its level and to no other,
\* unless it was sampled away or logged without a logger, and with exactly
\* the attributes given to the handlers it came through, and its own then:
\* whatever other handlers are derived from the same parents meanwhile, and
\* also when the logger is cleaned up before it is written.
WrittenAsLogged ==
  \A e \in Entries :
    Returned(e) =>
      \A s \in Sinks :
        {w.fields : w \in {x \in written[s] : x.entry = e}} =
          IF /\ ~entry[e].sampled /\ ~entry[e].nop
             /\ \E c \in cores : c.sink = s /\ c.level <= entry[e].level
          THEN {entry[e].given} ELSE {}

\* When the provider was installed without the identity of the service, every
\* sink that takes warnings has one that says so: the sampler never drops it.
IdentityLossIsLogged ==
  tracer.pc = "installed" /\ ~tracer.identity =>
    \A c \in cores :
      c.level <= Warn => \E w \in written[c.sink] : w.entry = "partial"
=============================================================================
