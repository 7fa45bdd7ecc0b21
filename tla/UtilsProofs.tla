---------------------------- MODULE UtilsProofs -----------------------------
(***************************************************************************)
(* Theorems about HttpExchange, for every set of calls and bodies; and     *)
(* about CountryCache, for every number of lookups, reloads, codes and     *)
(* versions.  The two share nothing but the package (utils).               *)
(***************************************************************************)
EXTENDS HttpExchange, CountryCache, TLAPS

(***************************************************************************)
(* The inductive invariant.  A handler reads what was sent, or a beginning *)
(* of it that is marked as cut; what it wrote as status is still there     *)
(* when the caller reads it; and a connection in use is open.              *)
(***************************************************************************)
Cut(c) ==
  \E n \in 0..Len(Body(c)) : stream[c] = Append(SubSeq(Body(c), 1, n), "cut")

StreamsAreSent ==
  \A c \in Calls : handler[c] # "none" =>
    stream[c] = Append(Body(c), "eof") \/ Cut(c)

StatusIsTrue ==
  \A c \in Calls :
    /\ status[c] = "2xx" => c \in applied
    /\ handler[c] # "done" => c \notin applied /\ status[c] = "none"
    /\ pc[c] \in {"idle", "send"} => handler[c] = "none"
    /\ pc[c] = "read" => handler[c] = "done"

AppliedWasRead == \A c \in applied : ReadRequestBody(stream[c])

ConnectionsInUse ==
  \A c \in Calls :
    /\ uses[c] # {} => pc[c] \in {"send", "wait", "read", "held"}
    /\ pc[c] = "idle" => conn[c] = "none"
    /\ \A k \in uses[c] : conn[k] = "open"

IInv ==
  /\ TypeOK
  /\ StreamsAreSent
  /\ StatusIsTrue
  /\ AppliedWasRead
  /\ ConnectionsInUse
  /\ NoConnectionLeft
  /\ OkMeansApplied

\* What the handler reads is a body and a mark.
LEMMA BodyType ==
  ASSUME TypeOK, NEW c \in Calls
  PROVE  Body(c) \in Seq(Values)
  BY BodiesAssumption DEF TypeOK, Body

\* Only a complete body of one good value passes ReadRequestBody.
LEMMA OnlyOneValuePasses ==
  ASSUME NEW s \in Seq(Values), NEW mark \in {"eof", "cut"},
         ReadRequestBody(Append(s, mark))
  PROVE  s = <<"good">> /\ mark = "eof"
<1> DEFINE read == Append(s, mark)
<1>1. read[1] = "good" /\ read[2] = "eof"
  BY DEF ReadRequestBody
<1>2. /\ Len(s) \in Nat
      /\ \A i \in 1..Len(s) : read[i] = s[i] /\ s[i] \in Values
      /\ read[Len(s) + 1] = mark
  OBVIOUS
<1>3. Len(s) = 1
  <2>1. Len(s) # 0
    BY <1>1, <1>2
  <2>2. ~ Len(s) >= 2
    <3>1. "eof" \notin Values
      BY DEF Values
    <3>2. QED
      BY <1>1, <1>2, <3>1
  <2>3. QED
    BY <1>2, <2>1, <2>2
<1>4. s[1] = "good" /\ mark = "eof"
  BY <1>1, <1>2, <1>3
<1>5. s = <<"good">>
  BY <1>3, <1>4
<1>6. QED
  BY <1>4, <1>5


-----------------------------------------------------------------------------
(***************************************************************************)
(* What every step preserves, taken apart into the caller's side (who uses *)
(* which connection) and the exchange with the handler.                    *)
(***************************************************************************)
ClientType ==
  /\ helper \in [Calls -> Helpers]
  /\ method \in [Calls -> {"GET", "POST"}]
  /\ payload \in [Calls -> Bodies]
  /\ pc \in [Calls -> {"idle", "send", "wait", "read", "held", "done"}]
  /\ result \in [Calls -> {"none", "ok", "err", "response"}]
  /\ uses \in [Calls -> SUBSET Calls]
  /\ \A c, d \in Calls : c # d => uses[c] \cap uses[d] = {}
  /\ conn \in [Calls -> {"none", "open", "idle", "closed"}]

ServerType ==
  /\ stream \in [Calls -> Seq(Values \cup {"eof", "cut"})]
  /\ handler \in [Calls -> {"none", "reading", "done", "panicked"}]
  /\ status \in [Calls -> {"none", "2xx", "other"}]
  /\ applied \subseteq Calls

ClientInv   == ClientType /\ ConnectionsInUse /\ NoConnectionLeft
ExchangeInv == /\ ServerType
               /\ StreamsAreSent
               /\ StatusIsTrue
               /\ AppliedWasRead
               /\ OkMeansApplied

LEMMA InvParts == IInv <=> ClientInv /\ ExchangeInv
  BY DEF IInv, ClientInv, ExchangeInv, TypeOK, ClientType, ServerType

LEMMA InvPartsNext ==
  ASSUME ClientInv', ExchangeInv'
  PROVE  IInv'
  BY DEF IInv, ClientInv, ExchangeInv, TypeOK, ClientType, ServerType

LEMMA InitEstablishes == Init => IInv
<1> SUFFICES ASSUME Init PROVE ClientInv /\ ExchangeInv
  BY InvParts
<1>1. ClientInv
  BY DEF Init, ClientInv, ClientType, ConnectionsInUse, NoConnectionLeft
<1>2. ExchangeInv
  BY DEF Init, ExchangeInv, ServerType, StreamsAreSent, StatusIsTrue,
         AppliedWasRead, OkMeansApplied
<1>3. QED
  BY <1>1, <1>2

\* However a call returns, its connection is no longer in use or open.
LEMMA ReturnKeepsClient ==
  ASSUME ClientInv, NEW c \in Calls, NEW value \in {"ok", "err"},
         NEW left \in {"idle", "closed"}, Return(c, value, left)
  PROVE  ClientInv'
<1> USE DEF ClientInv, Return, caller
<1>1. ClientType'
  BY DEF ClientType
<1>2. ConnectionsInUse'
  BY DEF ClientType, ConnectionsInUse
<1>3. NoConnectionLeft'
  BY DEF ClientType, NoConnectionLeft
<1>4. QED
  BY <1>1, <1>2, <1>3

\* What was sent does not change while it is read.
LEMMA StreamsStay ==
  ASSUME StreamsAreSent, UNCHANGED caller, UNCHANGED stream,
         \A d \in Calls : handler'[d] # "none" => handler[d] # "none"
  PROVE  StreamsAreSent'
<1>1. \A d \in Calls : Body(d)' = Body(d)
  BY DEF Body, caller
<1>2. \A d \in Calls : Cut(d) => Cut(d)'
  BY <1>1 DEF Cut
<1>3. QED
  BY <1>1, <1>2 DEF StreamsAreSent

\* Nothing but the caller's own bookkeeping changes.
LEMMA ServerUnchanged ==
  ASSUME ExchangeInv, UNCHANGED caller, UNCHANGED server,
         NEW c \in Calls, NEW to \in {"send", "done"},
         pc' = [pc EXCEPT ![c] = to],
         ClientType,
         \/ UNCHANGED result
         \/ \E v \in {"ok", "err"} : /\ result' = [result EXCEPT ![c] = v]
                                     /\ v = "ok" => status[c] = "2xx",
         to = "send" => pc[c] = "idle"
  PROVE  ExchangeInv'
<1>1. StreamsAreSent'
  BY StreamsStay DEF ExchangeInv, server
<1>2. ServerType' /\ AppliedWasRead'
  BY DEF ExchangeInv, ServerType, AppliedWasRead, server
<1>3. StatusIsTrue'
  BY DEF ExchangeInv, StatusIsTrue, ClientType, server
<1>4. OkMeansApplied'
  BY DEF ExchangeInv, OkMeansApplied, StatusIsTrue, ClientType, server
<1>5. QED
  BY <1>1, <1>2, <1>3, <1>4 DEF ExchangeInv

\* The handler starts with a body and a mark.
LEMMA DeliverKeepsExchange ==
  ASSUME ClientType, ExchangeInv, UNCHANGED caller, NEW c \in Calls,
         pc[c] = "send",
         NEW to \in {"wait", "done"}, pc' = [pc EXCEPT ![c] = to],
         \/ UNCHANGED result
         \/ result' = [result EXCEPT ![c] = "err"],
         NEW body, Deliver(c, body),
         \/ body = Append(Body(c), "eof")
         \/ \E n \in 0..Len(Body(c)) :
              body = Append(SubSeq(Body(c), 1, n), "cut")
  PROVE  ExchangeInv'
<1>1. body \in Seq(Values \cup {"eof", "cut"})
  <2>1. Body(c) \in Seq(Values)
    BY BodiesAssumption DEF ClientType, Body
  <2> DEFINE b == Body(c)
  <2> HIDE DEF b
  <2>2. b \in Seq(Values \cup {"eof", "cut"})
    BY <2>1 DEF b
  <2>3. Append(b, "eof") \in Seq(Values \cup {"eof", "cut"})
    BY <2>2
  <2>4. ASSUME NEW n \in 0..Len(b)
        PROVE  Append(SubSeq(b, 1, n), "cut") \in Seq(Values \cup {"eof", "cut"})
    <3>1. SubSeq(b, 1, n) \in Seq(Values \cup {"eof", "cut"})
      BY <2>2
    <3>2. QED
      BY <3>1
  <2>5. QED
    BY <2>3, <2>4 DEF b
<1>2. ServerType'
  BY <1>1 DEF ExchangeInv, ServerType, Deliver
<1>3. StreamsAreSent'
  BY DEF ExchangeInv, ServerType, StreamsAreSent, Deliver, caller, Cut, Body
<1>4. StatusIsTrue' /\ AppliedWasRead' /\ OkMeansApplied'
  BY DEF ExchangeInv, ServerType, StatusIsTrue, AppliedWasRead,
         OkMeansApplied, Deliver, ClientType
<1>5. QED
  BY <1>2, <1>3, <1>4 DEF ExchangeInv

LEMMA CallPreserves ==
  ASSUME IInv, NEW c \in Calls, CallStep(c) \/ TimesOut(c)
  PROVE  IInv'
<1>1. ClientInv /\ ExchangeInv
  BY InvParts
<1>2. SUFFICES ClientInv' /\ ExchangeInv'
  BY InvPartsNext
<1>3. CASE RequestFails(c)
  <2>1. ClientInv'
    BY <1>1, <1>3, ReturnKeepsClient DEF RequestFails
  <2>2. ExchangeInv'
    BY <1>1, <1>3, ServerUnchanged DEF RequestFails, Return, ClientInv
  <2>3. QED
    BY <2>1, <2>2
<1>4. CASE Dial(c)
  <2>1. ClientInv'
    BY <1>1, <1>4 DEF Dial, Goto, ClientInv, ClientType, ConnectionsInUse,
                      NoConnectionLeft, caller
  <2>2. ExchangeInv'
    BY <1>1, <1>4, ServerUnchanged DEF Dial, Goto, ClientInv, ClientType
  <2>3. QED
    BY <2>1, <2>2
<1>5. CASE Reuse(c)
  <2>1. PICK k \in Calls \ {c} :
          /\ conn[k] = "idle"
          /\ uses' = [uses EXCEPT ![c] = {k}]
          /\ conn' = [conn EXCEPT ![k] = "open"]
    BY <1>5 DEF Reuse
  <2>2. ClientInv'
    BY <1>1, <1>5, <2>1 DEF Reuse, Goto, ClientInv, ClientType,
                            ConnectionsInUse, NoConnectionLeft, caller
  <2>3. ExchangeInv'
    BY <1>1, <1>5, ServerUnchanged DEF Reuse, Goto, ClientInv, ClientType
  <2>4. QED
    BY <2>2, <2>3
<1>6. CASE Send(c)
  <2>1. ClientInv'
    BY <1>1, <1>6 DEF Send, Goto, ClientInv, ClientType, ConnectionsInUse,
                      NoConnectionLeft, caller
  <2>2. ExchangeInv'
    BY <1>1, <1>6, DeliverKeepsExchange DEF Send, Goto, ClientInv
  <2>3. QED
    BY <2>1, <2>2
<1>7. CASE SendBreaks(c)
  <2>1. pc[c] = "send" /\ Return(c, "err", "closed")
    BY <1>7 DEF SendBreaks
  <2>2. ClientInv'
    BY <1>1, <2>1, ReturnKeepsClient
  <2>3. CASE UNCHANGED server
    BY <1>1, <2>1, <2>2, <2>3, ServerUnchanged DEF Return, ClientInv
  <2>4. ASSUME NEW n \in 0..Len(Body(c)),
               Deliver(c, Append(SubSeq(Body(c), 1, n), "cut"))
        PROVE  ExchangeInv'
    <3> DEFINE body == Append(SubSeq(Body(c), 1, n), "cut")
    <3>1. \E m \in 0..Len(Body(c)) :
            body = Append(SubSeq(Body(c), 1, m), "cut")
      OBVIOUS
    <3>2. Deliver(c, body)
      BY <2>4
    <3>3. /\ pc' = [pc EXCEPT ![c] = "done"]
          /\ result' = [result EXCEPT ![c] = "err"]
          /\ UNCHANGED caller
          /\ ClientType
      BY <1>1, <2>1 DEF Return, ClientInv
    <3> HIDE DEF body
    <3>4. QED
      BY <1>1, <2>1, <3>1, <3>2, <3>3, DeliverKeepsExchange
  <2>5. QED
    BY <1>7, <2>2, <2>3, <2>4 DEF SendBreaks
<1>8. CASE ReceiveResponse(c)
  <2>1. ClientInv'
    BY <1>1, <1>8 DEF ReceiveResponse, Goto, ClientInv, ClientType,
                      ConnectionsInUse, NoConnectionLeft, caller
  <2>2. StreamsAreSent'
    BY <1>1, <1>8, StreamsStay DEF ReceiveResponse, ExchangeInv, server
  <2>3. ExchangeInv'
    BY <1>1, <1>8, <2>2 DEF ReceiveResponse, Goto, ClientInv, ClientType,
      ExchangeInv, ServerType, StatusIsTrue, AppliedWasRead, OkMeansApplied,
      server
  <2>4. QED
    BY <2>1, <2>3
<1>9. CASE ReadResponse(c)
  <2>1. ClientInv'
    BY <1>1, <1>9, ReturnKeepsClient DEF ReadResponse
  <2>2. ExchangeInv'
    BY <1>1, <1>9, ServerUnchanged DEF ReadResponse, Return, ClientInv
  <2>3. QED
    BY <2>1, <2>2
<1>10. CASE ConnectionLost(c) \/ TimesOut(c)
  <2>1. Return(c, "err", "closed") /\ UNCHANGED server
    BY <1>10 DEF ConnectionLost, TimesOut
  <2>2. ClientInv'
    BY <1>1, <2>1, ReturnKeepsClient
  <2>3. ExchangeInv'
    BY <1>1, <2>1, ServerUnchanged DEF Return, ClientInv
  <2>4. QED
    BY <2>2, <2>3
<1>11. CASE MtlsRequest(c)
  <2>1. ClientInv'
    BY <1>1, <1>11 DEF MtlsRequest, Goto, ClientInv, ClientType,
                       ConnectionsInUse, NoConnectionLeft, caller
  <2>2. StreamsAreSent'
    BY <1>1, <1>11, StreamsStay DEF MtlsRequest, ExchangeInv, server
  <2>3. ExchangeInv'
    BY <1>1, <1>11, <2>2 DEF MtlsRequest, Goto, ClientInv, ClientType,
      ExchangeInv, ServerType, StatusIsTrue, AppliedWasRead, OkMeansApplied,
      server
  <2>4. QED
    BY <2>1, <2>3
<1>12. CASE CloseBody(c)
  <2>1. PICK left \in {"idle", "closed"} :
          conn' = [k \in Calls |-> IF k \in uses[c] THEN left ELSE conn[k]]
    BY <1>12 DEF CloseBody
  <2>2. ClientInv'
    BY <1>1, <1>12, <2>1 DEF CloseBody, Goto, ClientInv, ClientType,
                             ConnectionsInUse, NoConnectionLeft, caller
  <2>3. ExchangeInv'
    BY <1>1, <1>12, ServerUnchanged DEF CloseBody, Goto, ClientInv
  <2>4. QED
    BY <2>2, <2>3
<1>13. QED
  BY <1>3, <1>4, <1>5, <1>6, <1>7, <1>8, <1>9, <1>10, <1>11, <1>12
  DEF CallStep

LEMMA HandlerPreserves ==
  ASSUME IInv, NEW c \in Calls, HandlerStep(c)
  PROVE  IInv'
<1>1. ClientInv /\ ExchangeInv
  BY InvParts
<1>2. SUFFICES ClientInv' /\ ExchangeInv'
  BY InvPartsNext
<1>3. ClientInv'
  BY <1>1 DEF HandlerStep, HandlerAccepts, HandlerRefuses, HandlerFails,
              HandlerPanics, Respond, ClientInv, ClientType, ConnectionsInUse,
              NoConnectionLeft, caller, client
<1> USE DEF ExchangeInv, ServerType, StatusIsTrue, AppliedWasRead,
            OkMeansApplied, Respond, caller, client
<1>4. StreamsAreSent'
  BY <1>1, StreamsStay
  DEF HandlerStep, HandlerAccepts, HandlerRefuses, HandlerFails, HandlerPanics
<1>5. CASE HandlerAccepts(c)
  BY <1>1, <1>3, <1>4, <1>5 DEF HandlerAccepts
<1>6. CASE HandlerRefuses(c)
  BY <1>1, <1>3, <1>4, <1>6 DEF HandlerRefuses
<1>7. CASE HandlerFails(c)
  BY <1>1, <1>3, <1>4, <1>7 DEF HandlerFails
<1>8. CASE HandlerPanics(c)
  BY <1>1, <1>3, <1>4, <1>8 DEF HandlerPanics
<1>9. QED
  BY <1>5, <1>6, <1>7, <1>8 DEF HandlerStep

LEMMA Invariance == Spec => []IInv
<1>1. Init => IInv
  BY InitEstablishes
<1>2. IInv /\ [Next]_vars => IInv'
  <2> SUFFICES ASSUME IInv, [Next]_vars
               PROVE  IInv'
    OBVIOUS
  <2>1. ASSUME NEW k \in Calls, IdleConnTimeout(k)
        PROVE  IInv'
    <3>1. ClientInv'
      BY <2>1, InvParts DEF IdleConnTimeout, ClientInv, ClientType,
                            ConnectionsInUse, NoConnectionLeft, caller
    <3>2. ExchangeInv'
      BY <2>1, InvParts
      DEF IdleConnTimeout, ExchangeInv, ServerType, StreamsAreSent,
          StatusIsTrue, AppliedWasRead, OkMeansApplied, caller, server, Cut,
          Body
    <3>3. QED
      BY <3>1, <3>2, InvPartsNext
  <2>2. CASE UNCHANGED vars
    BY <2>2 DEF vars, caller, client, server, IInv, TypeOK, StreamsAreSent,
                StatusIsTrue, AppliedWasRead, ConnectionsInUse,
                NoConnectionLeft, OkMeansApplied, Cut, Body
  <2>3. QED
    BY <2>1, <2>2, CallPreserves, HandlerPreserves DEF Next
<1>3. QED
  BY <1>1, <1>2, PTL DEF Spec

\* Types, and no two calls ever share a connection.
THEOREM TypeCorrect == Spec => []TypeOK
<1>1. IInv => TypeOK
  BY DEF IInv
<1>2. QED
  BY <1>1, Invariance, PTL

\* What a helper returns without an error was carried out, through every
\* loss, timeout and early answer.
THEOREM SuccessIsReal == Spec => []OkMeansApplied
<1>1. IInv => OkMeansApplied
  BY DEF IInv
<1>2. QED
  BY <1>1, Invariance, PTL

\* No prefix, continuation or concatenation of bodies passes for one.
THEOREM OnlySentIsApplied == Spec => []AppliedAsSent
<1>1. IInv => AppliedAsSent
  <2> SUFFICES ASSUME IInv, NEW c \in applied
               PROVE  Body(c) = <<"good">> /\ stream[c] = <<"good", "eof">>
    BY DEF AppliedAsSent
  <2>1. c \in Calls
    BY DEF IInv, TypeOK
  <2>2. Body(c) \in Seq(Values)
    BY <2>1, BodyType DEF IInv
  <2>3. ReadRequestBody(stream[c])
    BY DEF IInv, AppliedWasRead
  <2>4. handler[c] = "done"
    BY <2>1 DEF IInv, StatusIsTrue
  <2>5. CASE stream[c] = Append(Body(c), "eof")
    <3>1. Body(c) = <<"good">>
      BY <2>2, <2>3, <2>5, OnlyOneValuePasses
    <3> DEFINE read == Append(<<"good">>, "eof")
    <3>2. /\ read \in Seq({"good", "eof"})
          /\ Len(read) = 2 /\ read[1] = "good" /\ read[2] = "eof"
      BY <<"good">> \in Seq({"good", "eof"})
    <3> HIDE DEF read
    <3>3. read = <<"good", "eof">>
      BY <3>2
    <3>4. QED
      BY <2>5, <3>1, <3>3 DEF read
  <2>6. CASE Cut(c)
    <3>1. PICK n \in 0..Len(Body(c)) :
            stream[c] = Append(SubSeq(Body(c), 1, n), "cut")
      BY <2>6 DEF Cut
    <3>2. SubSeq(Body(c), 1, n) \in Seq(Values)
      BY <2>2, <3>1
    <3>3. QED
      BY <2>3, <3>1, <3>2, OnlyOneValuePasses
  <2>7. QED
    BY <2>1, <2>4, <2>5, <2>6 DEF IInv, StreamsAreSent
<1>2. QED
  BY <1>1, Invariance, PTL

\* Every return closes or gives back its connection.
THEOREM NothingLeftOpen == Spec => []NoConnectionLeft
<1>1. IInv => NoConnectionLeft
  BY DEF IInv
<1>2. QED
  BY <1>1, Invariance, PTL

-----------------------------------------------------------------------------
(***************************************************************************)
(* CountryCache.                                                           *)
(***************************************************************************)

(***************************************************************************)
(* The inductive invariant.  What a lookup is about to store is as good as *)
(* what is cached: a fetch that was not under way at the last reload began *)
(* after it, and so was answered with that version or a later one.         *)
(***************************************************************************)
NothingFromTheFuture ==
  /\ swapped <= version
  /\ \A k \in Loaders : fetched[k] <= version

\* The names of a list are those of the version it was fetched from.
ListsAreUniform ==
  \A k \in Loaders : \A c \in Codes :
    newCache[k][c] \in {NoName, Nameless, fetched[k]}

StoresFresh ==
  \A l \in Lookups :
    lookupPc[l] = "store" /\ code[l] \notin overlapped => name[l] >= swapped

CacheIInv ==
  /\ CacheTypeOK
  /\ NothingFromTheFuture
  /\ ListsAreUniform
  /\ StoresFresh
  /\ FreshUnlessOverlapping
  /\ ListedStayCached

LEMMA CacheInitEstablishes == CacheInit => CacheIInv
  BY MaxVersionAssumption
  DEF CacheInit, CacheIInv, CacheTypeOK, NothingFromTheFuture, ListsAreUniform,
      StoresFresh, FreshUnlessOverlapping, ListedStayCached, NoName, Nameless,
      Entries, NoEntries, Versions

LEMMA LookupPreserves ==
  ASSUME CacheIInv, NEW l \in Lookups, LookupStep(l)
  PROVE  CacheIInv'
<1> USE DEF CacheIInv, CacheTypeOK, NothingFromTheFuture, ListsAreUniform,
            StoresFresh, FreshUnlessOverlapping, ListedStayCached, NoName,
            Nameless, Entries, NoEntries, Versions, LookupGoto, lookupVars,
            loaderVars, history
<1> USE MaxVersionAssumption
<1>1. CASE Locate(l)
  BY <1>1 DEF Locate
<1>2. CASE ReadHit(l)
  BY <1>2 DEF ReadHit
<1>3. CASE ReadMiss(l)
  BY <1>3 DEF ReadMiss
<1>4. CASE FetchName(l)
  BY <1>4 DEF FetchName
<1>5. CASE FetchNothing(l)
  BY <1>5 DEF FetchNothing
<1>6. CASE Store(l)
  BY <1>6 DEF Store
<1>7. QED
  BY <1>1, <1>2, <1>3, <1>4, <1>5, <1>6 DEF LookupStep

LEMMA LoaderPreserves ==
  ASSUME CacheIInv, NEW k \in Loaders, LoaderStep(k)
  PROVE  CacheIInv'
<1> USE DEF CacheIInv, CacheTypeOK, NothingFromTheFuture, ListsAreUniform,
            StoresFresh, FreshUnlessOverlapping, ListedStayCached, NoName,
            Nameless, Entries, NoEntries, Versions, LoaderGoto, lookupVars,
            loaderVars, history
<1> USE MaxVersionAssumption
<1>1. CASE FetchAll(k)
  BY <1>1 DEF FetchAll
<1>2. CASE Swap(k)
  <2>1. CacheTypeOK' /\ NothingFromTheFuture' /\ ListsAreUniform'
    BY <1>2 DEF Swap, NoteSwap
  <2>2. StoresFresh'
    BY <1>2 DEF Swap, NoteSwap
  <2>3. ListedStayCached'
    BY <1>2 DEF Swap, NoteSwap
  <2>4. FreshUnlessOverlapping'
    <3>1. countryCache' = newCache[k] /\ swapped' = fetched[k]
      BY <1>2 DEF Swap, NoteSwap
    <3>2. \A c \in Codes : newCache[k][c] \in {NoName, Nameless, fetched[k]}
      BY DEF CacheIInv, ListsAreUniform
    <3>3. fetched[k] \in Nat
      BY DEF CacheIInv, CacheTypeOK, Versions
    <3>4. \A c \in Codes :
            countryCache'[c] \in Versions => countryCache'[c] = swapped'
      BY <3>1, <3>2
    <3>5. QED
      BY <3>1, <3>3, <3>4
  <2>5. QED
    BY <2>1, <2>2, <2>3, <2>4
<1>3. QED
  BY <1>1, <1>2 DEF LoaderStep

LEMMA CacheInvariance == CacheSpec => []CacheIInv
<1>1. CacheInit => CacheIInv
  BY CacheInitEstablishes
<1>2. CacheIInv /\ [CacheNext]_cacheVars => CacheIInv'
  <2> SUFFICES ASSUME CacheIInv, [CacheNext]_cacheVars
               PROVE  CacheIInv'
    OBVIOUS
  <2> USE DEF CacheIInv, ListsAreUniform, StoresFresh,
              FreshUnlessOverlapping, ListedStayCached,
              lookupVars, loaderVars, history
  <2>1. CASE NewVersion
    <3>1. /\ version < MaxVersion /\ version' = version + 1
          /\ UNCHANGED <<countryCache, lookupVars, loaderVars, history>>
      BY <2>1 DEF NewVersion
    <3>2. CacheTypeOK'
      BY <3>1, MaxVersionAssumption DEF CacheTypeOK, Versions, Entries
    <3>3. NothingFromTheFuture'
      BY <3>1, MaxVersionAssumption
         DEF CacheTypeOK, NothingFromTheFuture, Versions
    <3>4. ListsAreUniform' /\ StoresFresh'
      BY <3>1
    <3>5. FreshUnlessOverlapping' /\ ListedStayCached'
      BY <3>1
    <3>6. QED
      BY <3>2, <3>3, <3>4, <3>5
  <2>2. CASE UNCHANGED cacheVars
    BY <2>2 DEF cacheVars, CacheTypeOK, NothingFromTheFuture
  <2>3. QED
    BY <2>1, <2>2, LookupPreserves, LoaderPreserves DEF CacheNext
<1>3. QED
  BY <1>1, <1>2, PTL DEF CacheSpec

\* Types, and no lookup ever stores an absent name.
THEOREM CacheTypeCorrect == CacheSpec => []CacheTypeOK
<1>1. CacheIInv => CacheTypeOK
  BY DEF CacheIInv
<1>2. QED
  BY <1>1, CacheInvariance, PTL

\* Only a fetch that overlapped the last reload can leave a cached name older
\* than that reload (user-location.go:75-101, 129-131).
THEOREM Freshness == CacheSpec => []FreshUnlessOverlapping
<1>1. CacheIInv => FreshUnlessOverlapping
  BY DEF CacheIInv
<1>2. QED
  BY <1>1, CacheInvariance, PTL

\* A country the last reload listed is never missing from the cache
\* (user-location.go:124-131).
THEOREM ListedAlwaysHit == CacheSpec => []ListedStayCached
<1>1. CacheIInv => ListedStayCached
  BY DEF CacheIInv
<1>2. QED
  BY <1>1, CacheInvariance, PTL
=============================================================================
