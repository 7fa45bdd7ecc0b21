---------------------------- MODULE HttpExchange ----------------------------
(***************************************************************************)
(* One service calls another with the helpers of utils/http-helpers.go and *)
(* utils/http-helpers-new.go: HTTPRequest, HTTPMultipartRequest and        *)
(* HTTPRequestWithTrace and MtlsRequest on one side, a handler that uses   *)
(* ReadRequestBody and WriteJsonResponse on the other.                     *)
(*                                                                         *)
(* The first two make an http.Client of their own for every call, with a   *)
(* timeout; HTTPRequestWithTrace uses the client it is given, which need   *)
(* have none, and which keeps its idle connections for the next call.      *)
(* MtlsRequest makes a client without any timeout and gives its caller the *)
(* response with the body still open.                                      *)
(*                                                                         *)
(* A body is the sequence of the JSON values in it: "good" for one the     *)
(* handler's destination accepts, "bad" for malformed JSON, an unknown     *)
(* field or a wrong type, "tooLarge" for what passes the 1 MiB limit.  The *)
(* handler reads it followed by "eof", or by "cut" if the connection broke *)
(* before the end.  A connection has the identity of the call that dialed. *)
(***************************************************************************)
EXTENDS Naturals, Sequences, FiniteSets

CONSTANTS
  Calls,    \* calls of the four helpers
  Bodies    \* bodies the callers send: sequences of JSON values

Values  == {"good", "bad", "tooLarge"}
Helpers == {"HTTPRequest", "HTTPMultipartRequest", "HTTPRequestWithTrace",
            "MtlsRequest"}

ASSUME BodiesAssumption == Bodies \subseteq Seq(Values)

VARIABLES
  helper,   \* the helper each call uses
  method,   \* "GET" or "POST", standing for methods without and with a body
  payload,  \* the body the caller wants sent
  pc,       \* where each call is
  result,   \* what it returned: "none" until then, "ok", "err", ...
  uses,     \* the connection each call is using: a set, of one or none
  conn,     \* each connection: "none" until dialed, "open", "idle", "closed"
  stream,   \* what the handler of each call's request gets to read
  handler,  \* the handler of each call's request
  status,   \* the status it wrote: "none", "2xx" or "other"
  applied   \* calls whose request the handler carried out

caller == <<helper, method, payload>>
client == <<pc, result, uses, conn>>
server == <<stream, handler, status, applied>>
vars == <<caller, client, server>>

OwnClient(c) == helper[c] # "HTTPRequestWithTrace"

HasTimeout(c) == helper[c] \in {"HTTPRequest", "HTTPMultipartRequest"}

\* A marshalled payload is one JSON value; HTTPMultipartRequest sends what
\* its reader holds, MtlsRequest the request it is given.
Sendable(h, b) ==
  h \in {"HTTPMultipartRequest", "MtlsRequest"} \/ Len(b) <= 1

Init ==
  /\ helper \in [Calls -> Helpers]
  /\ method \in [Calls -> {"GET", "POST"}]
  /\ payload \in [Calls -> Bodies]
  /\ \A c \in Calls : Sendable(helper[c], payload[c])
  /\ pc = [c \in Calls |-> "idle"]
  /\ result = [c \in Calls |-> "none"]
  /\ uses = [c \in Calls |-> {}]
  /\ conn = [c \in Calls |-> "none"]
  /\ stream = [c \in Calls |-> <<>>]
  /\ handler = [c \in Calls |-> "none"]
  /\ status = [c \in Calls |-> "none"]
  /\ applied = {}

\* HTTPRequestWithTrace marshals its payload only for methods with a body.
Body(c) ==
  IF helper[c] = "HTTPRequestWithTrace" /\ method[c] = "GET"
  THEN <<>> ELSE payload[c]

Goto(c, from, to) ==
  /\ pc[c] = from
  /\ pc' = [pc EXCEPT ![c] = to]

\* The call returns, and its connection, if it has one, is left in a state.
Return(c, value, left) ==
  /\ pc' = [pc EXCEPT ![c] = "done"]
  /\ result' = [result EXCEPT ![c] = value]
  /\ uses' = [uses EXCEPT ![c] = {}]
  /\ conn' = [k \in Calls |-> IF k \in uses[c] THEN left ELSE conn[k]]
  /\ UNCHANGED caller

-----------------------------------------------------------------------------
(***************************************************************************)
(* The caller's side.                                                      *)
(***************************************************************************)

\* The payload cannot be marshalled, the endpoint is no URL, or a file of
\* mtlsClient cannot be read; or, in client.Do, no connection is made.
RequestFails(c) ==
  /\ pc[c] = "idle"
  /\ Return(c, "err", "closed")
  /\ UNCHANGED server

\* client.Do dials ...
Dial(c) ==
  /\ Goto(c, "idle", "send")
  /\ uses' = [uses EXCEPT ![c] = {c}]
  /\ conn' = [conn EXCEPT ![c] = "open"]
  /\ UNCHANGED <<caller, result, server>>

\* Fault: any connection of the client will do.
ReuseAny(c) ==
  /\ ~OwnClient(c)
  /\ Goto(c, "idle", "send")
  /\ \E k \in Calls \ {c} :
       /\ ~OwnClient(k)
       /\ conn[k] \in {"open", "idle"}
       /\ uses' = [uses EXCEPT ![c] = {k}]
       /\ conn' = [conn EXCEPT ![k] = "open"]
  /\ UNCHANGED <<caller, result, server>>

\* ... or takes an idle connection of the same client.
Reuse(c) ==
  /\ ~OwnClient(c)
  /\ Goto(c, "idle", "send")
  /\ \E k \in Calls \ {c} :
       /\ ~OwnClient(k)
       /\ conn[k] = "idle"
       /\ uses' = [uses EXCEPT ![c] = {k}]
       /\ conn' = [conn EXCEPT ![k] = "open"]
  /\ UNCHANGED <<caller, result, server>>

\* The handler is invoked, and will find the body.
Deliver(c, body) ==
  /\ stream' = [stream EXCEPT ![c] = body]
  /\ handler' = [handler EXCEPT ![c] = "reading"]
  /\ UNCHANGED <<status, applied>>

Send(c) ==
  /\ Goto(c, "send", "wait")
  /\ Deliver(c, Append(Body(c), "eof"))
  /\ UNCHANGED <<caller, result, uses, conn>>

\* The connection breaks or the call times out before all is sent; what has
\* arrived may have started the handler.
SendBreaks(c) ==
  /\ pc[c] = "send"
  /\ Return(c, "err", "closed")
  /\ \/ UNCHANGED server
     \/ \E n \in 0..Len(Body(c)) :
          Deliver(c, Append(SubSeq(Body(c), 1, n), "cut"))

\* client.Do returns with the status and the headers.
ReceiveResponse(c) ==
  /\ helper[c] # "MtlsRequest"
  /\ handler[c] = "done"
  /\ Goto(c, "wait", "read")
  /\ UNCHANGED <<caller, result, uses, conn, server>>

\* MtlsRequest returns the response as it is, whatever its status ...
MtlsRequest(c) ==
  /\ helper[c] = "MtlsRequest"
  /\ handler[c] = "done"
  /\ Goto(c, "wait", "held")
  /\ result' = [result EXCEPT ![c] = "response"]
  /\ UNCHANGED <<caller, uses, conn, server>>

\* ... and its caller closes the body, having read all of it or not.
CloseBody(c) ==
  /\ Goto(c, "held", "done")
  /\ uses' = [uses EXCEPT ![c] = {}]
  /\ \E left \in {"idle", "closed"} :
       conn' = [k \in Calls |-> IF k \in uses[c] THEN left ELSE conn[k]]
  /\ UNCHANGED <<caller, result, server>>

\* Fault: the status is not looked at.
ReadAnyResponse(c) ==
  /\ pc[c] = "read"
  /\ Return(c, "ok", "idle")
  /\ UNCHANGED server

\* Fault: the body is closed only by the successful return.
ReadResponseUnclosed(c) ==
  /\ pc[c] = "read"
  /\ IF status[c] = "2xx" THEN Return(c, "ok", "idle")
                          ELSE Return(c, "err", "open")
  /\ UNCHANGED server

\* The body is read to its end and closed, which leaves the connection idle
\* in its client; any status outside 200..299 is an error.
ReadResponse(c) ==
  /\ pc[c] = "read"
  /\ Return(c, IF status[c] = "2xx" THEN "ok" ELSE "err", "idle")
  /\ UNCHANGED server

\* Reading breaks off, or the connection is lost while waiting.
ConnectionLost(c) ==
  /\ pc[c] \in {"wait", "read"}
  /\ Return(c, "err", "closed")
  /\ UNCHANGED server

\* Fault: only the wait for the headers has a timeout.
WaitTimesOut(c) ==
  /\ pc[c] = "wait"
  /\ Return(c, "err", "closed")
  /\ UNCHANGED server

\* The client's timeout, or that of the request's context.
TimesOut(c) ==
  /\ pc[c] \in {"send", "wait", "read"}
  /\ Return(c, "err", "closed")
  /\ UNCHANGED server

\* IdleConnTimeout, or the peer's.
IdleConnTimeout(k) ==
  /\ conn[k] = "idle"
  /\ conn' = [conn EXCEPT ![k] = "closed"]
  /\ UNCHANGED <<caller, pc, result, uses, server>>

-----------------------------------------------------------------------------
(***************************************************************************)
(* The handler's side.                                                     *)
(***************************************************************************)

\* Fault: what follows the first value is not looked at.
ReadFirstValue(body) == body[1] = "good"

\* One value is decoded, and then the end of the body.
ReadRequestBody(body) == body[1] = "good" /\ body[2] = "eof"

Respond(c, code) ==
  /\ handler' = [handler EXCEPT ![c] = "done"]
  /\ status' = [status EXCEPT ![c] = code]
  /\ UNCHANGED <<caller, client, stream>>

\* A request whose body was read is carried out and answered 2xx with
\* WriteJsonResponse, whether or not the caller still waits.
HandlerAccepts(c) ==
  /\ handler[c] = "reading"
  /\ ReadRequestBody(stream[c])
  /\ applied' = applied \cup {c}
  /\ Respond(c, "2xx")

HandlerRefuses(c) ==
  /\ handler[c] = "reading"
  /\ ~ReadRequestBody(stream[c])
  /\ Respond(c, "other")
  /\ UNCHANGED applied

\* The handler's own work fails, before or after it had its effect.
HandlerFails(c) ==
  /\ handler[c] = "reading"
  /\ ReadRequestBody(stream[c])
  /\ applied' \in {applied, applied \cup {c}}
  /\ Respond(c, "other")

\* ReadRequestBody panics on a destination that nothing can be decoded into,
\* found when a first value has been read.  http.Server recovers the panic
\* and closes the connection: there is no response.
HandlerPanics(c) ==
  /\ handler[c] = "reading"
  /\ stream[c][1] \in {"good", "bad"}
  /\ handler' = [handler EXCEPT ![c] = "panicked"]
  /\ UNCHANGED <<caller, client, stream, status, applied>>

-----------------------------------------------------------------------------
CallStep(c) ==
  \/ RequestFails(c)
  \/ Dial(c)
  \/ Reuse(c)
  \/ Send(c)
  \/ SendBreaks(c)
  \/ ReceiveResponse(c)
  \/ MtlsRequest(c)
  \/ CloseBody(c)
  \/ ReadResponse(c)
  \/ ConnectionLost(c)

HandlerStep(c) ==
  \/ HandlerAccepts(c)
  \/ HandlerRefuses(c)
  \/ HandlerFails(c)
  \/ HandlerPanics(c)

Next ==
  \/ \E c \in Calls : CallStep(c) \/ TimesOut(c) \/ HandlerStep(c)
  \/ \E k \in Calls : IdleConnTimeout(k)

Spec == Init /\ [][Next]_vars

\* Two of the helpers that make their own client give it a timeout and an
\* IdleConnTimeout.  Neither the network nor the handler owes a thing.
FairSpec ==
  /\ Spec
  /\ \A c \in Calls : WF_vars(HasTimeout(c) /\ TimesOut(c))
  /\ \A k \in Calls : WF_vars(HasTimeout(k) /\ IdleConnTimeout(k))

-----------------------------------------------------------------------------
(***************************************************************************)
(* Properties.                                                             *)
(***************************************************************************)

\* Types; no two calls share a connection.
TypeOK ==
  /\ helper \in [Calls -> Helpers]
  /\ method \in [Calls -> {"GET", "POST"}]
  /\ payload \in [Calls -> Bodies]
  /\ pc \in [Calls -> {"idle", "send", "wait", "read", "held", "done"}]
  /\ result \in [Calls -> {"none", "ok", "err", "response"}]
  /\ uses \in [Calls -> SUBSET Calls]
  /\ \A c, d \in Calls : c # d => uses[c] \cap uses[d] = {}
  /\ conn \in [Calls -> {"none", "open", "idle", "closed"}]
  /\ stream \in [Calls -> Seq(Values \cup {"eof", "cut"})]
  /\ handler \in [Calls -> {"none", "reading", "done", "panicked"}]
  /\ status \in [Calls -> {"none", "2xx", "other"}]
  /\ applied \subseteq Calls

\* A call that returned a body had its request carried out; the reverse does
\* not hold, and an error says nothing about it.
OkMeansApplied == \A c \in Calls : result[c] = "ok" => c \in applied

\* The handler carries out only what the caller meant to send: one value,
\* complete, whatever was cut off or followed it (http-helpers.go:122-160).
AppliedAsSent ==
  \A c \in applied : Body(c) = <<"good">> /\ stream[c] = <<"good", "eof">>

\* An open connection is in use: every return, also of an error, closes the
\* response body (http-helpers.go:97-101) or hands it to the caller.
NoConnectionLeft ==
  \A k \in Calls : conn[k] = "open" => \E c \in Calls : k \in uses[c]

\* A connection made by HTTPRequest or HTTPMultipartRequest ends, although
\* nobody can use or close it once the call has returned.
ConnectionsEnd ==
  \A c \in Calls : HasTimeout(c) /\ conn[c] # "none" ~> conn[c] = "closed"
=============================================================================
