--------------------------- MODULE TelemetryProofs ---------------------------
(***************************************************************************)
(* Theorems about Telemetry, for all handlers, records, attributes and     *)
(* levels, every configuration and every depth.                            *)
(***************************************************************************)
EXTENDS Telemetry, SequenceTheorems, TLAPS

(***************************************************************************)
(* The inductive invariant.                                                *)
(***************************************************************************)

\* What a handler sees is what it was given: its attributes are in an array
\* that a handler allocated when it was made, and nobody writes to since.
SeesGiven(h) ==
  handler[h].made =>
    /\ handler[handler[h].array].made
    /\ Len(handler[h].given) = handler[h].len
    /\ Seen(h) = handler[h].given

\* The fields under which a sink has an entry.
WrittenFields(e, s) == {w.fields : w \in {x \in written[s] : x.entry = e}}

\* The sinks an entry is meant for.
Wants(e, s) ==
  /\ ~entry[e].sampled /\ ~entry[e].nop
  /\ \E c \in cores : c.sink = s /\ c.level <= entry[e].level

\* An entry is logged with the fields that were given.  A sink it is meant
\* for is due or has it; no other is due, and no other has it.
OnItsWay(e) ==
  IF entry[e].pc = "idle"
  THEN entry[e].due = {} /\ \A s \in Sinks : WrittenFields(e, s) = {}
  ELSE /\ logger \in {"made", "cleaned"}
       /\ entry[e].fields = entry[e].given
       /\ \A s \in Sinks :
            /\ s \in entry[e].due => Wants(e, s)
            /\ WrittenFields(e, s) =
                 IF Wants(e, s) /\ s \notin entry[e].due
                 THEN {entry[e].given} ELSE {}

\* The warning is the first entry of its kind, so the sampler lets it pass.
WarningIsFirst ==
  entry["partial"].pc = "idle" => counts[<<Warn, "partial">>] = 0

\* A provider without the identity of the service comes after the warning.
WarningPrecedes ==
  tracer.pc \in {"warn", "install", "installed"} /\ ~tracer.identity =>
    /\ entry["partial"].pc = "logged" /\ entry["partial"].level = Warn
    /\ ~entry["partial"].sampled /\ ~entry["partial"].nop
    /\ tracer.pc # "warn" => entry["partial"].due = {}

IInv ==
  /\ TypeOK
  /\ written \in [Sinks -> SUBSET [entry : Entries, fields : Fields]]
  /\ \A h \in Handlers : SeesGiven(h)
  /\ \A e \in Entries : OnItsWay(e)
  /\ WarningIsFirst
  /\ WarningPrecedes

-----------------------------------------------------------------------------
(***************************************************************************)
(* Attributes.                                                             *)
(***************************************************************************)
LEMMA AttrsAreSequences ==
  /\ \A q : q \in AttrsOf <=> q \in Seq(Attrs) /\ Len(q) <= Depth
  /\ <<>> \in AttrsOf
<1>1. \A q \in AttrsOf : q \in Seq(Attrs) /\ Len(q) <= Depth
  <2> SUFFICES ASSUME NEW n \in 0..Depth, NEW q \in [1..n -> Attrs]
               PROVE  q \in Seq(Attrs) /\ Len(q) <= Depth
    BY DEF AttrsOf
  <2>1. n \in Nat /\ n <= Depth
    BY TelemetryAssumption
  <2>2. q \in Seq(Attrs)
    BY <2>1, SeqDef
  <2>3. Len(q) = n
    BY <2>1, <2>2, LenProperties
  <2>4. QED
    BY <2>1, <2>2, <2>3
<1>2. ASSUME NEW q \in Seq(Attrs), Len(q) <= Depth PROVE q \in AttrsOf
  <2>1. Len(q) \in 0..Depth /\ q \in [1..Len(q) -> Attrs]
    BY <1>2, LenProperties, TelemetryAssumption
  <2>2. QED
    BY <2>1 DEF AttrsOf
<1>3. <<>> \in AttrsOf
  <2>1. <<>> \in Seq(Attrs) /\ Len(<<>>) = 0
    BY EmptySeq
  <2>2. Len(<<>>) <= Depth
    BY <2>1, TelemetryAssumption
  <2>3. QED
    BY <1>2, <2>1, <2>2
<1>4. QED
  BY <1>1, <1>2, <1>3

\* Attributes are fields, and so are they with a record's own.
LEMMA OwnAttrFollows ==
  /\ <<>> \in Fields
  /\ \A q \in AttrsOf, e \in Records : Append(q, e) \in Fields
<1>1. <<>> \in Seq(Attrs \cup Records)
  BY EmptySeq
<1>2. ASSUME NEW q \in AttrsOf, NEW e \in Records
      PROVE  Append(q, e) \in Seq(Attrs \cup Records)
  <2>1. q \in Seq(Attrs)
    BY AttrsAreSequences
  <2>2. q \in Seq(Attrs \cup Records)
    BY <2>1
  <2>3. QED
    BY <2>2, AppendProperties
<1>3. QED
  BY <1>1, <1>2 DEF Fields

\* A child sees its parent's attributes and its own.
LEMMA AppendedIsSeen ==
  ASSUME NEW q \in AttrsOf, Len(q) < Depth, NEW a \in Attrs
  PROVE  /\ Append(q, a) \in AttrsOf
         /\ Len(q) \in Nat /\ Len(q) + 1 \in 0..Depth
         /\ Len(Append(q, a)) = Len(q) + 1
         /\ SubSeq(Append(q, a), 1, Len(q) + 1) = Append(q, a)
<1>1. q \in Seq(Attrs) /\ Len(q) \in Nat
  BY AttrsAreSequences, LenProperties
<1>2. Append(q, a) \in Seq(Attrs) /\ Len(Append(q, a)) = Len(q) + 1
  BY <1>1, AppendProperties
<1>3. Len(q) + 1 \in 0..Depth
  BY <1>1, TelemetryAssumption
<1>4. Append(q, a) \in AttrsOf
  <2>1. Len(Append(q, a)) <= Depth
    BY <1>2, <1>3, TelemetryAssumption
  <2>2. QED
    BY <1>2, <2>1, AttrsAreSequences
<1>5. SubSeq(Append(q, a), 1, Len(q) + 1) = Append(q, a)
  BY <1>2, SubSeqFull
<1>6. QED
  BY <1>1, <1>2, <1>3, <1>4, <1>5

-----------------------------------------------------------------------------
(***************************************************************************)
(* Logging and writing an entry.                                           *)
(***************************************************************************)
EntryTypes ==
  [pc : {"idle", "logged"}, level : ZapLevels, fields : Fields,
   due : SUBSET Sinks, sampled : BOOLEAN, nop : BOOLEAN, given : Fields]

SinksFrom(level) == {k.sink : k \in {c \in cores : c.level <= level}}

\* What Log does.
Logged(e, level, given, nop) ==
  /\ logger \in {"made", "cleaned"} /\ entry[e].pc = "idle"
  /\ entry' \in [Entries -> EntryTypes]
  /\ \A f \in Entries \ {e} : entry'[f] = entry[f]
  /\ entry'[e].pc = "logged" /\ entry'[e].level = level
  /\ entry'[e].fields = given /\ entry'[e].given = given
  /\ entry'[e].nop = nop
  /\ entry'[e].sampled => Sampled(counts[<<level, Message(e)>>] + 1)
  /\ \A s \in Sinks : s \in entry'[e].due <=>
       s \in SinksFrom(level) /\ ~nop /\ ~entry'[e].sampled
  /\ counts' \in [ZapLevels \X Messages -> Nat]
  /\ \A k \in ZapLevels \X Messages :
       k # <<level, Message(e)>> => counts'[k] = counts[k]

\* Log writes one entry's record and one counter.
LEMMA LogIs ==
  ASSUME TypeOK, NEW e \in Entries, NEW level \in ZapLevels,
         NEW given \in Fields, NEW nop \in BOOLEAN,
         Log(e, level, given, given, nop)
  PROVE  Logged(e, level, given, nop)
<1> DEFINE key == <<level, Message(e)>>
           due == SinksFrom(level)
           n == counts[key] + 1
           new == [pc |-> "logged", level |-> level, fields |-> given,
                   due |-> IF nop \/ Sampled(n) THEN {} ELSE due,
                   sampled |-> ~nop /\ due # {} /\ Sampled(n),
                   nop |-> nop, given |-> given]
<1>1. /\ logger \in {"made", "cleaned"} /\ entry[e].pc = "idle"
      /\ counts' = IF nop \/ due = {} \/ ~Sampler
                    THEN counts ELSE [counts EXCEPT ![key] = n]
      /\ entry' = [entry EXCEPT ![e] = new]
  BY DEF Log, SinksFrom
<1>2. key \in ZapLevels \X Messages
  BY DEF Message, Messages, Entries
<1>3. n \in Nat
  BY <1>2 DEF TypeOK
<1>4. due \in SUBSET Sinks
  BY DEF TypeOK, SinksFrom
<1>5. new \in EntryTypes
  <2>1. (IF nop \/ Sampled(n) THEN {} ELSE due) \in SUBSET Sinks
    BY <1>4
  <2>2. (~nop /\ due # {} /\ Sampled(n)) \in BOOLEAN
    OBVIOUS
  <2> HIDE DEF due, n
  <2>3. QED
    BY <2>1, <2>2 DEF EntryTypes
<1>6. entry \in [Entries -> EntryTypes]
  BY DEF TypeOK, EntryTypes
<1> HIDE DEF key, n
<1>7. entry'[e] = new
  BY <1>1, <1>6
<1>8. \A s \in Sinks : s \in new.due <=> s \in due /\ ~nop /\ ~new.sampled
  BY Zenon
<1>9. new.sampled => Sampled(n)
  OBVIOUS
<1>10. /\ counts' \in [ZapLevels \X Messages -> Nat]
       /\ \A k \in ZapLevels \X Messages : k # key => counts'[k] = counts[k]
  BY <1>1, <1>2, <1>3 DEF TypeOK
<1>11. /\ new.pc = "logged" /\ new.level = level /\ new.fields = given
       /\ new.given = given /\ new.nop = nop
  OBVIOUS
<1> HIDE DEF new, due
<1>12. /\ entry' \in [Entries -> EntryTypes]
       /\ \A f \in Entries \ {e} : entry'[f] = entry[f]
  BY <1>1, <1>5, <1>6
<1>13. QED
  BY <1>1, <1>7, <1>8, <1>9, <1>10, <1>11, <1>12
     DEF key, n, due, Logged

\* What is said of an entry depends on nothing but the entry, what was
\* written, and the cores.
LEMMA EntriesStay ==
  ASSUME NEW e \in Entries, OnItsWay(e),
         entry'[e] = entry[e], written' = written, cores' = cores,
         logger \in {"made", "cleaned"} => logger' \in {"made", "cleaned"}
  PROVE  OnItsWay(e)'
<1>1. \A s \in Sinks : WrittenFields(e, s)' = WrittenFields(e, s)
  BY DEF WrittenFields
<1>2. \A s \in Sinks : Wants(e, s)' <=> Wants(e, s)
  BY DEF Wants
<1>3. QED
  BY <1>1, <1>2 DEF OnItsWay

\* Logging an entry.
LEMMA LogKeeps ==
  ASSUME IInv, NEW e \in Entries, NEW level \in ZapLevels,
         NEW given \in Fields, NEW nop \in BOOLEAN,
         Log(e, level, given, given, nop),
         UNCHANGED <<config, logger, cores, handler, array, written>>
  PROVE  /\ entry' \in [Entries -> EntryTypes]
         /\ counts' \in [ZapLevels \X Messages -> Nat]
         /\ \A f \in Entries : OnItsWay(f)'
<1>1. /\ logger \in {"made", "cleaned"} /\ entry[e].pc = "idle"
      /\ entry' \in [Entries -> EntryTypes]
      /\ \A f \in Entries \ {e} : entry'[f] = entry[f]
      /\ entry'[e].pc = "logged" /\ entry'[e].level = level
      /\ entry'[e].fields = given /\ entry'[e].given = given
      /\ entry'[e].nop = nop
      /\ \A s \in Sinks : s \in entry'[e].due <=>
           s \in SinksFrom(level) /\ ~nop /\ ~entry'[e].sampled
      /\ counts' \in [ZapLevels \X Messages -> Nat]
  <2>1. TypeOK
    BY DEF IInv
  <2>2. Logged(e, level, given, nop)
    BY <2>1, LogIs
  <2>3. QED
    BY <2>2 DEF Logged
<1>2. \A f \in Entries \ {e} : OnItsWay(f)'
  BY <1>1, EntriesStay DEF IInv
<1>3. \A s \in Sinks : WrittenFields(e, s)' = {}
  BY <1>1 DEF IInv, OnItsWay, WrittenFields
<1>4. \A s \in Sinks : s \in entry'[e].due <=> Wants(e, s)'
  <2> SUFFICES ASSUME NEW s \in Sinks
               PROVE  s \in entry'[e].due <=> Wants(e, s)'
    OBVIOUS
  <2>1. s \in SinksFrom(level) <=> \E c \in cores : c.sink = s /\ c.level <= level
    BY DEF SinksFrom
  <2>2. Wants(e, s)' <=> /\ ~entry'[e].sampled /\ ~nop
                         /\ \E c \in cores : c.sink = s /\ c.level <= level
    BY <1>1 DEF Wants
  <2>3. QED
    BY <1>1, <2>1, <2>2
<1>5. OnItsWay(e)'
  BY <1>1, <1>3, <1>4 DEF OnItsWay
<1>6. QED
  BY <1>1, <1>2, <1>5

\* Writing an entry to one sink.
LEMMA WriteKeeps ==
  ASSUME IInv, NEW e \in Entries, Write(e)
  PROVE  IInv'
<1>1. /\ TypeOK /\ entry \in [Entries -> EntryTypes]
      /\ written \in [Sinks -> SUBSET [entry : Entries, fields : Fields]]
      /\ OnItsWay(e)
  BY DEF IInv, TypeOK, EntryTypes
<1>2. PICK s \in entry[e].due :
        /\ written' = [written EXCEPT ![s] =
                         @ \cup {[entry |-> e, fields |-> entry[e].fields]}]
        /\ entry' = [entry EXCEPT ![e].due = @ \ {s}]
        /\ UNCHANGED <<config, logger, cores, counts, handler, array, tracer>>
  BY DEF Write
<1>3. entry[e] \in EntryTypes
  BY <1>1
<1>4. /\ s \in Sinks /\ entry[e].fields \in Fields
      /\ entry[e].due \in SUBSET Sinks
  BY <1>3 DEF EntryTypes
<1>5. entry[e].pc # "idle" /\ entry[e].fields = entry[e].given
      /\ WrittenFields(e, s) = {} /\ Wants(e, s)
  BY <1>1, <1>4 DEF OnItsWay
<1>6. /\ entry' \in [Entries -> EntryTypes]
      /\ \A f \in Entries \ {e} : entry'[f] = entry[f]
      /\ entry'[e] = [entry[e] EXCEPT !.due = entry[e].due \ {s}]
  <2>1. [entry[e] EXCEPT !.due = entry[e].due \ {s}] \in EntryTypes
    BY <1>3, <1>4 DEF EntryTypes
  <2>2. QED
    BY <1>1, <1>2, <2>1
<1>7. /\ entry'[e].pc = entry[e].pc /\ entry'[e].level = entry[e].level
      /\ entry'[e].fields = entry[e].fields /\ entry'[e].given = entry[e].given
      /\ entry'[e].sampled = entry[e].sampled /\ entry'[e].nop = entry[e].nop
      /\ entry'[e].due = entry[e].due \ {s}
  BY <1>3, <1>6 DEF EntryTypes
<1>8. /\ written' \in [Sinks -> SUBSET [entry : Entries, fields : Fields]]
      /\ \A t \in Sinks \ {s} : written'[t] = written[t]
      /\ written'[s] =
           written[s] \cup {[entry |-> e, fields |-> entry[e].fields]}
  <2>1. [entry |-> e, fields |-> entry[e].fields]
          \in [entry : Entries, fields : Fields]
    BY <1>4
  <2>2. QED
    BY <1>1, <1>2, <1>4, <2>1
<1>9. \A f \in Entries, t \in Sinks : Wants(f, t)' <=> Wants(f, t)
  BY <1>2, <1>6, <1>7 DEF Wants
<1>10. \A f \in Entries, t \in Sinks : f # e \/ t # s =>
         WrittenFields(f, t)' = WrittenFields(f, t)
  BY <1>8 DEF WrittenFields
<1>11. WrittenFields(e, s)' = {entry[e].given}
  <2>1. \A w \in written[s] : w.entry # e
    BY <1>5 DEF WrittenFields
  <2> DEFINE rec == [entry |-> e, fields |-> entry[e].fields]
  <2>2. rec.entry = e /\ rec.fields = entry[e].given
    BY <1>5
  <2>3. written'[s] = written[s] \cup {rec}
    BY <1>8
  <2> HIDE DEF rec
  <2>4. {x \in written'[s] : x.entry = e} = {rec}
    BY <2>1, <2>2, <2>3
  <2>5. WrittenFields(e, s)' = {w.fields : w \in {rec}}
    BY <2>4 DEF WrittenFields
  <2>6. QED
    BY <2>2, <2>5
<1>12. \A f \in Entries : OnItsWay(f)'
  <2> SUFFICES ASSUME NEW f \in Entries PROVE OnItsWay(f)'
    OBVIOUS
  <2>1. OnItsWay(f)
    BY DEF IInv
  <2>2. CASE f = e
    BY <1>1, <1>2, <1>5, <1>7, <1>9, <1>10, <1>11, <2>2 DEF OnItsWay
  <2>3. CASE f # e
    BY <1>2, <1>6, <1>9, <1>10, <2>1, <2>3 DEF OnItsWay
  <2>4. QED
    BY <2>2, <2>3
<1>13. TypeOK'
  <2>1. \A t \in Sinks :
          written'[t] \subseteq [entry : Entries, fields : Fields]
    BY <1>8
  <2>2. QED
    BY <1>1, <1>2, <1>6, <2>1 DEF TypeOK, EntryTypes
<1>14. \A h \in Handlers : SeesGiven(h)'
  BY <1>2 DEF IInv, SeesGiven, Seen
<1>15. "partial" \in Entries
  BY DEF Entries
<1>16. WarningIsFirst' /\ WarningPrecedes'
  <2>1. /\ entry'["partial"].pc = entry["partial"].pc
        /\ entry'["partial"].level = entry["partial"].level
        /\ entry'["partial"].sampled = entry["partial"].sampled
        /\ entry'["partial"].nop = entry["partial"].nop
        /\ entry["partial"].due = {} => entry'["partial"].due = {}
    BY <1>6, <1>7, <1>15
  <2>2. QED
    BY <1>2, <2>1 DEF IInv, WarningIsFirst, WarningPrecedes
<1>17. QED
  BY <1>8, <1>12, <1>13, <1>14, <1>16 DEF IInv

-----------------------------------------------------------------------------
(***************************************************************************)
(* The handlers.                                                           *)
(***************************************************************************)
HandlerTypes ==
  {NoHandler} \cup
  [made : {TRUE}, nop : BOOLEAN, array : Handlers, len : 0..Depth,
   given : AttrsOf]

MadeHandler ==
  [made : {TRUE}, nop : BOOLEAN, array : Handlers, len : 0..Depth,
   given : AttrsOf]

\* Only NoHandler is not made.
LEMMA MadeIsMade ==
  ASSUME NEW x \in HandlerTypes, x.made
  PROVE  x \in MadeHandler /\ x.array \in Handlers
<1>1. NoHandler.made = FALSE
  BY DEF NoHandler
<1>2. x # NoHandler
  BY <1>1
<1>3. x \in MadeHandler
  BY <1>2 DEF HandlerTypes, MadeHandler
<1>4. QED
  BY <1>3 DEF MadeHandler

Child(x, h, n, g) == [x EXCEPT !.array = h, !.len = n, !.given = g]

IsChild(y, h, n, g) ==
  y \in HandlerTypes /\ y.made /\ y.array = h /\ y.len = n /\ y.given = g

\* A handler with another array and more attributes is one.
LEMMA ChildIsMade ==
  ASSUME NEW x \in MadeHandler, NEW h \in Handlers, NEW n \in 0..Depth,
         NEW g \in AttrsOf
  PROVE  IsChild(Child(x, h, n, g), h, n, g)
<1> DEFINE y == Child(x, h, n, g)
<1>1. y \in MadeHandler
  BY DEF MadeHandler, Child
<1>2. y.array = h /\ y.len = n /\ y.given = g
  BY DEF MadeHandler, Child
<1> HIDE DEF y
<1>3. y.made
  BY <1>1 DEF MadeHandler
<1>4. IsChild(y, h, n, g)
  BY <1>1, <1>2, <1>3 DEF HandlerTypes, MadeHandler, IsChild
<1>5. QED
  BY <1>4 DEF y

\* A handler that is made sees what it was given, and the others do as
\* before, if only the array of the new one is written to.
LEMMA DeriveKeeps ==
  ASSUME IInv, NEW h \in Handlers, NEW new \in HandlerTypes, NEW arrays,
         Derive(h, new, arrays), new.made,
         arrays \in [Handlers -> AttrsOf],
         \A g \in Handlers \ {h} : arrays[g] = array[g],
         new.array = h \/ handler[new.array].made,
         Len(new.given) = new.len,
         SubSeq(arrays[new.array], 1, new.len) = new.given
  PROVE  IInv'
<1>1. /\ TypeOK /\ handler \in [Handlers -> HandlerTypes]
      /\ \A g \in Handlers : SeesGiven(g)
  BY DEF IInv, TypeOK, HandlerTypes
<1>2. /\ handler' = [handler EXCEPT ![h] = new] /\ array' = arrays
      /\ ~handler[h].made
      /\ UNCHANGED <<config, logger, cores, counts, entry, written, tracer>>
  BY DEF Derive
<1>3. /\ handler' \in [Handlers -> HandlerTypes] /\ handler'[h] = new
      /\ \A g \in Handlers \ {h} : handler'[g] = handler[g]
  BY <1>1, <1>2
<1>4. \A g \in Handlers : handler[g].made => handler[g].array \in Handlers
  BY <1>1, MadeIsMade
<1>5. \A g \in Handlers : handler[g].made => handler'[g].made
  BY <1>2, <1>3
<1>6. new.array \in Handlers
  BY MadeIsMade
<1>7. \A g \in Handlers : SeesGiven(g)'
  <2> SUFFICES ASSUME NEW g \in Handlers, handler'[g].made
               PROVE  /\ handler'[handler'[g].array].made
                      /\ Len(handler'[g].given) = handler'[g].len
                      /\ SubSeq(array'[handler'[g].array], 1, handler'[g].len)
                           = handler'[g].given
    BY DEF SeesGiven, Seen
  <2>1. CASE g = h
    <3>1. handler'[g] = new
      BY <1>3, <2>1
    <3>2. handler'[new.array].made
      BY <1>3, <1>5, <1>6
    <3>3. QED
      BY <1>2, <3>1, <3>2
  <2>2. CASE g # h
    <3>1. handler'[g] = handler[g] /\ handler[g].made
      BY <1>3, <2>2
    <3>2. /\ handler[handler[g].array].made
          /\ Len(handler[g].given) = handler[g].len
          /\ SubSeq(array[handler[g].array], 1, handler[g].len) = handler[g].given
      BY <1>1, <3>1 DEF SeesGiven, Seen
    <3>3. handler[g].array \in Handlers \ {h}
      BY <1>2, <1>4, <3>1, <3>2
    <3>4. QED
      BY <1>2, <1>5, <3>1, <3>2, <3>3
  <2>3. QED
    BY <2>1, <2>2
<1>8. TypeOK'
  BY <1>1, <1>2, <1>3 DEF TypeOK, HandlerTypes
<1>9. \A e \in Entries : OnItsWay(e)'
  BY <1>2, EntriesStay DEF IInv
<1>10. WarningIsFirst' /\ WarningPrecedes'
  BY <1>2 DEF IInv, WarningIsFirst, WarningPrecedes
<1>11. written' \in [Sinks -> SUBSET [entry : Entries, fields : Fields]]
  BY <1>2 DEF IInv
<1>12. QED
  BY <1>7, <1>8, <1>9, <1>10, <1>11 DEF IInv

\* The three ways to a new handler.
LEMMA HandlerKeeps ==
  ASSUME IInv, NEW h \in Handlers, NEW p \in Handlers,
         NewSlogHandler(h) \/ WithAttrs(p, h) \/ WithGroup(p, h)
  PROVE  IInv'
<1>1. /\ handler \in [Handlers -> HandlerTypes]
      /\ array \in [Handlers -> AttrsOf] /\ SeesGiven(p)
  BY DEF IInv, TypeOK, HandlerTypes
<1>2. handler[p].made =>
        /\ handler[p] \in HandlerTypes /\ handler[p] \in MadeHandler
        /\ handler[handler[p].array].made
        /\ Len(handler[p].given) = handler[p].len
        /\ Seen(p) = handler[p].given
  <2>1. handler[p] \in HandlerTypes
    BY <1>1
  <2>2. QED
    BY <1>1, <2>1, MadeIsMade DEF SeesGiven
<1>3. CASE NewSlogHandler(h)
  <2>1. PICK l \in LoggerFromContext :
          Derive(h, [made |-> TRUE, nop |-> (l = "nop"), array |-> h,
                     len |-> 0, given |-> <<>>], array)
    BY <1>3 DEF NewSlogHandler
  <2> DEFINE new == [made |-> TRUE, nop |-> (l = "nop"), array |-> h,
                     len |-> 0, given |-> <<>>]
  <2>3. /\ new \in HandlerTypes /\ new.made /\ new.array = h
        /\ new.len = 0 /\ new.given = <<>>
    <3>1. 0 \in 0..Depth /\ <<>> \in AttrsOf /\ (l = "nop") \in BOOLEAN
      BY AttrsAreSequences, TelemetryAssumption
    <3>2. QED
      BY <3>1 DEF HandlerTypes
  <2> HIDE DEF new
  <2>4. Len(new.given) = new.len
    BY <2>3, EmptySeq
  <2>5. SubSeq(array[new.array], 1, new.len) = new.given
    BY <2>3, SubSeqEmpty
  <2>6. Derive(h, new, array)
    BY <2>1 DEF new
  <2>7. QED
    BY <1>1, <2>3, <2>4, <2>5, <2>6, DeriveKeeps
<1>4. CASE WithAttrs(p, h)
  <2>1. handler[p].made /\ handler[p].len < Depth
    BY <1>4 DEF WithAttrs
  <2>2. PICK a \in Attrs :
          Derive(h, [handler[p] EXCEPT !.array = h, !.len = @ + 1,
                                       !.given = Append(@, a)],
                 [array EXCEPT ![h] = Append(Seen(p), a)])
    BY <1>4 DEF WithAttrs
  <2> DEFINE q == handler[p].given
             new == [handler[p] EXCEPT !.array = h, !.len = @ + 1,
                                       !.given = Append(@, a)]
             arrays == [array EXCEPT ![h] = Append(Seen(p), a)]
  <2>3. /\ q \in AttrsOf /\ Len(q) = handler[p].len /\ Seen(p) = q
        /\ handler[p] \in MadeHandler
    BY <1>2, <2>1 DEF MadeHandler
  <2>4. /\ Append(q, a) \in AttrsOf /\ Len(q) + 1 \in 0..Depth
        /\ Len(Append(q, a)) = Len(q) + 1
        /\ SubSeq(Append(q, a), 1, Len(q) + 1) = Append(q, a)
    BY <2>1, <2>3, AppendedIsSeen
  <2>5. new = Child(handler[p], h, Len(q) + 1, Append(q, a))
    BY <2>3 DEF Child
  <2> HIDE DEF q, new
  <2>6. /\ new \in HandlerTypes /\ new.made /\ new.array = h
        /\ new.len = Len(q) + 1 /\ new.given = Append(q, a)
    <3>1. IsChild(new, h, Len(q) + 1, Append(q, a))
      BY <2>3, <2>4, <2>5, ChildIsMade
    <3>2. QED
      BY <3>1 DEF IsChild
  <2>7. /\ arrays \in [Handlers -> AttrsOf] /\ arrays[h] = Append(q, a)
        /\ \A g \in Handlers \ {h} : arrays[g] = array[g]
    BY <1>1, <2>3, <2>4
  <2>8. Derive(h, new, arrays)
    BY <2>2 DEF new
  <2> HIDE DEF arrays
  <2>9. QED
    BY <2>4, <2>6, <2>7, <2>8, DeriveKeeps
<1>5. CASE WithGroup(p, h)
  <2>1. handler[p].made /\ Derive(h, handler[p], array)
    BY <1>5 DEF WithGroup
  <2>2. SubSeq(array[handler[p].array], 1, handler[p].len) = handler[p].given
    BY <1>2, <2>1 DEF Seen
  <2>3. QED
    BY <1>1, <1>2, <2>1, <2>2, DeriveKeeps
<1>6. QED
  BY <1>3, <1>4, <1>5

-----------------------------------------------------------------------------
(***************************************************************************)
(* The steps that log an entry, and those of the logger and the tracer.    *)
(***************************************************************************)
TracerTypes ==
  [pc : {"idle", "warn", "install", "installed", "error"}, identity : BOOLEAN]

\* The tracer's entries share neither identity nor counter with a record.
LEMMA TheKeys ==
  /\ "partial" \in Entries /\ "initialised" \in Entries
  /\ "partial" \notin Records /\ "initialised" \notin Records
  /\ <<Warn, "partial">> \in ZapLevels \X Messages
  /\ Message("partial") = "partial" /\ Message("initialised") = "initialised"
  /\ \A e \in Records : Message(e) = "request"
<1>1. "partial" \notin Records /\ "initialised" \notin Records
  BY TelemetryAssumption
<1>2. Warn \in ZapLevels /\ "partial" \in Messages
  BY DEF Warn, ZapLevels, Debug, Error, Messages
<1>3. QED
  BY <1>1, <1>2 DEF Entries, Message

\* Logging keeps the invariant if the tracer's part of it is kept.
LEMMA LoggingKeeps ==
  ASSUME IInv, NEW e \in Entries, NEW level \in ZapLevels,
         NEW given \in Fields, NEW nop \in BOOLEAN,
         Log(e, level, given, given, nop),
         UNCHANGED <<config, logger, cores, handler, array, written>>,
         tracer' \in TracerTypes, WarningIsFirst', WarningPrecedes'
  PROVE  IInv'
<1>1. /\ entry' \in [Entries -> EntryTypes]
      /\ counts' \in [ZapLevels \X Messages -> Nat]
      /\ \A f \in Entries : OnItsWay(f)'
  BY LogKeeps
<1>2. TypeOK'
  BY <1>1 DEF IInv, TypeOK, EntryTypes, TracerTypes
<1>3. \A h \in Handlers : SeesGiven(h)'
  BY DEF IInv, SeesGiven, Seen
<1>4. written' \in [Sinks -> SUBSET [entry : Entries, fields : Fields]]
  BY DEF IInv
<1>5. QED
  BY <1>1, <1>2, <1>3, <1>4 DEF IInv

\* Every level of slog becomes one of Zap's.
LEMMA ZapLevelIsOne == ASSUME NEW l \in Int PROVE ZapLevel(l) \in ZapLevels
<1>1. CASE l < 0
  BY <1>1 DEF ZapLevel, ZapLevels, Debug, Error
<1>2. CASE l >= 8
  BY <1>2 DEF ZapLevel, ZapLevels, Debug, Error
<1>3. CASE l \in 0..7
  <2>1. l \div 4 \in 0..1
    BY <1>3
  <2>2. QED
    BY <1>3, <2>1 DEF ZapLevel, ZapLevels, Debug, Error
<1>4. QED
  BY <1>1, <1>2, <1>3

\* Logging a record through a handler.
LEMMA HandleKeeps ==
  ASSUME IInv, NEW e \in Records, NEW h \in Handlers, Handle(e, h)
  PROVE  IInv'
<1>1. PICK l \in SlogLevels :
        Log(e, ZapLevel(l), Append(Seen(h), e), Append(handler[h].given, e),
            handler[h].nop)
  BY DEF Handle
<1>2. UNCHANGED <<config, logger, cores, handler, array, written, tracer>>
  BY DEF Handle
<1>3. /\ handler[h].given \in AttrsOf /\ handler[h].nop \in BOOLEAN
      /\ Seen(h) = handler[h].given
  <2>1. handler[h].made /\ SeesGiven(h)
    BY DEF Handle, IInv
  <2>2. handler[h] \in HandlerTypes
    BY DEF IInv, TypeOK, HandlerTypes
  <2>3. handler[h] \in MadeHandler
    BY <2>1, <2>2, MadeIsMade
  <2>4. QED
    BY <2>1, <2>3 DEF SeesGiven, MadeHandler
<1>4. e \in Entries /\ ZapLevel(l) \in ZapLevels
  BY ZapLevelIsOne, TelemetryAssumption DEF Entries
<1> DEFINE level == ZapLevel(l)
           given == Append(handler[h].given, e)
           nop == handler[h].nop
<1>5. Log(e, level, given, given, nop)
  BY <1>1, <1>3
<1>6. TypeOK /\ tracer' \in TracerTypes
  BY <1>2 DEF IInv, TypeOK, TracerTypes
<1> HIDE DEF level, given, nop
<1>7. level \in ZapLevels /\ given \in Fields /\ nop \in BOOLEAN
  BY <1>3, <1>4, OwnAttrFollows DEF level, given, nop
<1>8. Logged(e, level, given, nop)
  BY <1>4, <1>5, <1>6, <1>7, LogIs
<1>9. entry'["partial"] = entry["partial"]
  BY <1>8, TheKeys DEF Logged
<1>10. counts'[<<Warn, "partial">>] = counts[<<Warn, "partial">>]
  <2>1. <<Warn, "partial">> # <<level, Message(e)>>
    BY TheKeys
  <2>2. QED
    BY <1>8, <2>1, TheKeys DEF Logged
<1>11. WarningIsFirst' /\ WarningPrecedes'
  BY <1>2, <1>9, <1>10 DEF IInv, WarningIsFirst, WarningPrecedes
<1>12. QED
  BY <1>2, <1>4, <1>5, <1>6, <1>7, <1>11, LoggingKeeps

\* Steps of the tracer that log nothing.
LEMMA TraceKeeps ==
  ASSUME IInv, NEW pc, NEW identity, Trace(pc, identity),
         UNCHANGED <<counts, entry>>, tracer' \in TracerTypes, WarningPrecedes'
  PROVE  IInv'
<1>1. UNCHANGED <<config, logger, cores, counts, handler, array, entry, written>>
  BY DEF Trace
<1>2. TypeOK'
  BY <1>1 DEF IInv, TypeOK, TracerTypes
<1>3. \A h \in Handlers : SeesGiven(h)'
  BY <1>1 DEF IInv, SeesGiven, Seen
<1>4. \A e \in Entries : OnItsWay(e)'
  BY <1>1, EntriesStay DEF IInv
<1>5. WarningIsFirst'
  BY <1>1 DEF IInv, WarningIsFirst
<1>6. written' \in [Sinks -> SUBSET [entry : Entries, fields : Fields]]
  BY <1>1 DEF IInv
<1>7. QED
  BY <1>2, <1>3, <1>4, <1>5, <1>6 DEF IInv

\* The sampler lets the first message of a second pass.
LEMMA FirstIsNotSampled == ASSUME TypeOK PROVE ~Sampled(1)
<1>1. config \in Config
  BY TelemetryAssumption DEF TypeOK
<1>2. config.SamplingInitial \in Nat
  BY <1>1 DEF Config
<1>3. QED
  BY <1>2 DEF Sampled, Sampler

\* The set-up of the tracer provider.
LEMMA TracerKeeps ==
  ASSUME IInv,
         ExporterFails \/ InitProvider \/ WarningReturns \/ SetTracerProvider
  PROVE  IInv'
<1>1. /\ TypeOK /\ tracer \in TracerTypes /\ WarningIsFirst /\ WarningPrecedes
      /\ tracer.identity \in BOOLEAN
  BY DEF IInv, TypeOK, TracerTypes
<1>2. <<>> \in Fields /\ FALSE \in BOOLEAN
  BY OwnAttrFollows
<1>3. ASSUME NEW pc \in {"warn", "install", "installed", "error"},
             NEW identity \in BOOLEAN, Trace(pc, identity)
      PROVE  /\ tracer' = [pc |-> pc, identity |-> identity]
             /\ tracer' \in TracerTypes
             /\ tracer'.pc = pc /\ tracer'.identity = identity
             /\ UNCHANGED <<config, logger, cores, handler, array, written>>
  BY <1>3 DEF Trace, TracerTypes
<1>4. CASE ExporterFails
  <2>1. Trace("error", FALSE) /\ UNCHANGED <<counts, entry>>
    BY <1>4 DEF ExporterFails
  <2>2. tracer' \in TracerTypes /\ tracer'.pc = "error"
    BY <1>3, <2>1
  <2>3. WarningPrecedes'
    BY <2>2 DEF WarningPrecedes
  <2>4. QED
    BY <2>1, <2>2, <2>3, TraceKeeps
<1>5. CASE InitProvider
  <2>1. CASE Trace("install", TRUE) /\ UNCHANGED <<counts, entry>>
    <3>1. tracer' \in TracerTypes /\ tracer'.identity = TRUE
      BY <1>3, <2>1
    <3>2. WarningPrecedes'
      BY <3>1 DEF WarningPrecedes
    <3>3. QED
      BY <2>1, <3>1, <3>2, TraceKeeps
  <2>2. CASE Trace("warn", FALSE) /\ Log("partial", Warn, <<>>, <<>>, FALSE)
    <3>1. /\ tracer' \in TracerTypes /\ tracer'.pc = "warn"
          /\ UNCHANGED <<config, logger, cores, handler, array, written>>
      BY <1>3, <2>2
    <3>2. Warn \in ZapLevels /\ "partial" \in Entries
      BY TheKeys DEF Warn, ZapLevels, Debug, Error
    <3>3. Logged("partial", Warn, <<>>, FALSE)
      BY <1>1, <1>2, <2>2, <3>2, LogIs
    <3>4. counts[<<Warn, Message("partial")>>] + 1 = 1
      BY <1>1, <3>3, TheKeys DEF Logged, WarningIsFirst
    <3>5. ~entry'["partial"].sampled
      BY <1>1, <3>3, <3>4, FirstIsNotSampled DEF Logged
    <3>6. WarningIsFirst'
      BY <3>3 DEF Logged, WarningIsFirst
    <3>7. WarningPrecedes'
      BY <3>1, <3>3, <3>5 DEF Logged, WarningPrecedes
    <3>8. QED
      BY <1>2, <2>2, <3>1, <3>2, <3>6, <3>7, LoggingKeeps
  <2>3. QED
    BY <1>5, <2>1, <2>2 DEF InitProvider, NewResource
<1>6. CASE WarningReturns
  <2>1. /\ Trace("install", tracer.identity) /\ UNCHANGED <<counts, entry>>
        /\ tracer.pc = "warn" /\ entry["partial"].due = {}
    BY <1>6 DEF WarningReturns, Returned
  <2>2. tracer' \in TracerTypes /\ tracer'.identity = tracer.identity
    BY <1>1, <1>3, <2>1
  <2>3. WarningPrecedes'
    BY <1>1, <2>1, <2>2 DEF WarningPrecedes
  <2>4. QED
    BY <2>1, <2>2, <2>3, TraceKeeps
<1>7. CASE SetTracerProvider
  <2>1. /\ Trace("installed", tracer.identity) /\ tracer.pc = "install"
        /\ Log("initialised", Info, <<>>, <<>>, FALSE)
    BY <1>7 DEF SetTracerProvider
  <2>2. /\ tracer' \in TracerTypes /\ tracer'.pc = "installed"
        /\ tracer'.identity = tracer.identity
        /\ UNCHANGED <<config, logger, cores, handler, array, written>>
    BY <1>1, <1>3, <2>1
  <2>3. Info \in ZapLevels /\ "initialised" \in Entries
    BY TheKeys DEF Info, ZapLevels, Debug, Error
  <2>4. Logged("initialised", Info, <<>>, FALSE)
    BY <1>1, <1>2, <2>1, <2>3, LogIs
  <2>5. entry'["partial"] = entry["partial"]
    BY <2>4, TheKeys DEF Logged
  <2>6. counts'[<<Warn, "partial">>] = counts[<<Warn, "partial">>]
    <3>1. <<Warn, "partial">> # <<Info, Message("initialised")>>
      BY TheKeys
    <3>2. QED
      BY <2>4, <3>1, TheKeys DEF Logged
  <2>7. WarningIsFirst' /\ WarningPrecedes'
    BY <1>1, <2>1, <2>2, <2>5, <2>6 DEF WarningIsFirst, WarningPrecedes
  <2>8. QED
    BY <1>2, <2>1, <2>2, <2>3, <2>7, LoggingKeeps
<1>8. QED
  BY <1>4, <1>5, <1>6, <1>7

\* Before there is a logger nothing is logged, so its cores are no entry's.
LEMMA LoggerKeeps ==
  ASSUME IInv, NewLogger \/ Tick \/ Cleanup
  PROVE  IInv'
<1>1. UNCHANGED <<config, handler, array, entry, written, tracer>>
  BY DEF NewLogger, Tick, Cleanup
<1>2. \A h \in Handlers : SeesGiven(h)'
  BY <1>1 DEF IInv, SeesGiven, Seen
<1>3. written' \in [Sinks -> SUBSET [entry : Entries, fields : Fields]]
  BY <1>1 DEF IInv
<1>4. WarningPrecedes'
  BY <1>1 DEF IInv, WarningPrecedes
<1>5. CASE NewLogger
  <2>1. logger = "none" /\ counts' = counts
    BY <1>5 DEF NewLogger
  <2>2. \A e \in Entries : OnItsWay(e)'
    <3> SUFFICES ASSUME NEW e \in Entries PROVE OnItsWay(e)'
      OBVIOUS
    <3>1. /\ entry[e].pc = "idle" /\ entry[e].due = {}
          /\ \A s \in Sinks : WrittenFields(e, s) = {}
      BY <2>1 DEF IInv, OnItsWay
    <3>2. QED
      BY <1>1, <3>1 DEF OnItsWay, WrittenFields
  <2>3. /\ logger' \in {"none", "error", "made", "cleaned"}
        /\ cores' \subseteq [sink : Sinks, level : Int \ {Unparsable}]
        /\ logger' \in {"made", "cleaned"} => cores' # {}
    <3>1. CASE Unparsable \in {config.LogLevel, config.ConsoleLogLevel,
                              config.StacktraceLevel}
      BY <1>5, <2>1, <3>1 DEF NewLogger, IInv, TypeOK
    <3>2. CASE Unparsable \notin {config.LogLevel, config.ConsoleLogLevel,
                              config.StacktraceLevel}
      <4>1. logger' = "made" /\ cores' = Cores(config)
        BY <1>5, <3>2 DEF NewLogger
      <4>2. config \in Config
        BY TelemetryAssumption DEF IInv, TypeOK
      <4>3. /\ config.LogLevel \in Int \ {Unparsable}
            /\ config.ConsoleLogLevel \in Int \ {Unparsable}
        BY <3>2, <4>2 DEF Config
      <4>4. /\ ConfiguredCores(config) \subseteq
                 [sink : Sinks, level : Int \ {Unparsable}]
            /\ [sink |-> "stderr", level |-> config.LogLevel] \in
                 [sink : Sinks, level : Int \ {Unparsable}]
        BY <4>3 DEF ConfiguredCores, Sinks
      <4>5. /\ Cores(config) \subseteq [sink : Sinks, level : Int \ {Unparsable}]
            /\ Cores(config) # {}
        BY <4>4 DEF Cores
      <4>6. QED
        BY <4>1, <4>5
    <3>3. QED
      BY <3>1, <3>2
  <2>4. TypeOK'
    BY <1>1, <2>1, <2>3 DEF IInv, TypeOK
  <2>5. WarningIsFirst'
    BY <1>1, <2>1 DEF IInv, WarningIsFirst
  <2>6. QED
    BY <1>2, <1>3, <1>4, <2>2, <2>4, <2>5 DEF IInv
<1>6. CASE Tick
  <2>1. /\ counts' = [k \in ZapLevels \X Messages |-> 0]
        /\ logger' = logger /\ cores' = cores
    BY <1>6 DEF Tick
  <2>2. \A e \in Entries : OnItsWay(e)'
    BY <1>1, <2>1, EntriesStay DEF IInv
  <2>3. counts' \in [ZapLevels \X Messages -> Nat]
    BY <2>1
  <2>4. TypeOK'
    BY <1>1, <2>1, <2>3 DEF IInv, TypeOK
  <2>5. WarningIsFirst'
    BY <2>1, TheKeys DEF WarningIsFirst
  <2>6. QED
    BY <1>2, <1>3, <1>4, <2>2, <2>4, <2>5 DEF IInv
<1>7. CASE Cleanup
  <2>1. /\ counts' = counts /\ cores' = cores
        /\ logger = "made" /\ logger' = "cleaned"
    BY <1>7 DEF Cleanup
  <2>2. \A e \in Entries : OnItsWay(e)'
    BY <1>1, <2>1, EntriesStay DEF IInv
  <2>3. TypeOK'
    BY <1>1, <2>1 DEF IInv, TypeOK
  <2>4. WarningIsFirst'
    BY <1>1, <2>1 DEF IInv, WarningIsFirst
  <2>5. QED
    BY <1>2, <1>3, <1>4, <2>2, <2>3, <2>4 DEF IInv
<1>8. QED
  BY <1>5, <1>6, <1>7

-----------------------------------------------------------------------------
(***************************************************************************)
(* The theorems.                                                           *)
(***************************************************************************)
LEMMA InitEstablishes == Init => IInv
<1> SUFFICES ASSUME Init PROVE IInv
  OBVIOUS
<1>1. <<>> \in AttrsOf /\ <<>> \in Fields
  BY AttrsAreSequences, OwnAttrFollows
<1>2. NoHandler.made = FALSE /\ NoHandler \in HandlerTypes
  BY DEF NoHandler, HandlerTypes
<1>3. NoEntry \in EntryTypes /\ NoEntry.pc = "idle" /\ NoEntry.due = {}
  BY <1>1 DEF NoEntry, EntryTypes, ZapLevels, Debug, Error, Info
<1>4. TypeOK
  <2>1. handler \in [Handlers -> HandlerTypes] /\ array \in [Handlers -> AttrsOf]
    BY <1>1, <1>2 DEF Init
  <2>2. entry \in [Entries -> EntryTypes]
    BY <1>3 DEF Init
  <2>3. counts \in [ZapLevels \X Messages -> Nat]
    BY DEF Init
  <2>4. tracer \in TracerTypes
    BY DEF Init, TracerTypes
  <2>5. /\ config \in Configs /\ logger = "none" /\ cores = {}
        /\ \A s \in Sinks : written[s] = {}
    BY DEF Init
  <2>6. QED
    BY <2>1, <2>2, <2>3, <2>4, <2>5
       DEF TypeOK, HandlerTypes, EntryTypes, TracerTypes
<1>5. written \in [Sinks -> SUBSET [entry : Entries, fields : Fields]]
  BY DEF Init
<1>6. \A h \in Handlers : SeesGiven(h)
  BY <1>2 DEF Init, SeesGiven
<1>7. \A e \in Entries : OnItsWay(e)
  <2>1. \A e \in Entries : \A s \in Sinks : WrittenFields(e, s) = {}
    BY DEF Init, WrittenFields
  <2>2. QED
    BY <1>3, <2>1 DEF Init, OnItsWay
<1>8. WarningIsFirst /\ WarningPrecedes
  BY TheKeys DEF Init, WarningIsFirst, WarningPrecedes
<1>9. QED
  BY <1>4, <1>5, <1>6, <1>7, <1>8 DEF IInv

\* Every step keeps the invariant.
LEMMA Inductive == IInv /\ [Next]_vars => IInv'
<1> SUFFICES ASSUME IInv, [Next]_vars PROVE IInv'
  OBVIOUS
<1>1. CASE NewLogger \/ Tick \/ Cleanup
  BY <1>1, LoggerKeeps
<1>2. CASE \E e \in Entries : Write(e)
  BY <1>2, WriteKeeps
<1>3. CASE \E h \in Handlers :
             \/ NewSlogHandler(h)
             \/ \E p \in Handlers : WithAttrs(p, h) \/ WithGroup(p, h)
             \/ \E e \in Records : Handle(e, h)
  BY <1>3, HandlerKeeps, HandleKeeps
<1>4. CASE ExporterFails \/ InitProvider \/ WarningReturns \/ SetTracerProvider
  BY <1>4, TracerKeeps
<1>5. CASE UNCHANGED vars
  <2>1. UNCHANGED <<config, logger, cores, counts, handler, array, entry,
                    written, tracer>>
    BY <1>5 DEF vars
  <2>2. \A e \in Entries : OnItsWay(e)'
    BY <2>1, EntriesStay DEF IInv
  <2>3. TypeOK' /\ WarningIsFirst' /\ WarningPrecedes'
    BY <2>1 DEF IInv, TypeOK, WarningIsFirst, WarningPrecedes
  <2>4. \A h \in Handlers : SeesGiven(h)'
    BY <2>1 DEF IInv, SeesGiven, Seen
  <2>5. QED
    BY <2>1, <2>2, <2>3, <2>4 DEF IInv
<1>6. QED
  BY <1>1, <1>2, <1>3, <1>4, <1>5 DEF Next

\* The strengthening holds in every state of every behaviour.
THEOREM Invariance == Spec => []IInv
BY InitEstablishes, Inductive, PTL DEF Spec

\* Type correctness; in particular a logger that was made writes somewhere.
THEOREM TypeCorrect == Spec => []TypeOK
<1>1. IInv => TypeOK
  BY DEF IInv
<1>2. QED
  BY <1>1, Invariance, PTL

\* A record reaches the sinks that want its level, and no other, with the
\* attributes given to the handlers it came through, whatever is derived from
\* the same parents meanwhile (WithAttrs copies), sampling and clean-up
\* included.
THEOREM RecordsAreWritten == Spec => []WrittenAsLogged
<1>1. IInv => WrittenAsLogged
  <2> SUFFICES ASSUME IInv, NEW e \in Entries, Returned(e), NEW s \in Sinks
               PROVE  WrittenFields(e, s) =
                        IF Wants(e, s) THEN {entry[e].given} ELSE {}
    BY DEF WrittenAsLogged, WrittenFields, Wants
  <2>1. entry[e].pc # "idle" /\ entry[e].due = {}
    BY DEF Returned
  <2>2. QED
    BY <2>1 DEF IInv, OnItsWay
<1>2. QED
  BY <1>1, Invariance, PTL

\* A provider installed without the identity of the service has said so in
\* every sink that takes warnings: the warning is the first entry of its
\* message and level, so no sampler drops it.
THEOREM LossIsLogged == Spec => []IdentityLossIsLogged
<1>1. IInv => IdentityLossIsLogged
  <2> SUFFICES ASSUME IInv, tracer.pc = "installed", ~tracer.identity,
                      NEW c \in cores, c.level <= Warn
               PROVE  \E w \in written[c.sink] : w.entry = "partial"
    BY DEF IdentityLossIsLogged
  <2>1. /\ entry["partial"].pc = "logged" /\ entry["partial"].level = Warn
        /\ ~entry["partial"].sampled /\ ~entry["partial"].nop
        /\ entry["partial"].due = {}
    BY DEF IInv, WarningPrecedes
  <2>2. "partial" \in Entries /\ c.sink \in Sinks
    BY TheKeys DEF IInv, TypeOK
  <2>3. Wants("partial", c.sink)
    BY <2>1 DEF Wants
  <2>4. WrittenFields("partial", c.sink) = {entry["partial"].given}
    BY <2>1, <2>2, <2>3 DEF IInv, OnItsWay
  <2>5. QED
    BY <2>4 DEF WrittenFields
<1>2. QED
  BY <1>1, Invariance, PTL
=============================================================================
