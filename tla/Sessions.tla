------------------------------ MODULE Sessions ------------------------------
(***************************************************************************)
(* A browser and a service that signs it in and out with the helpers of    *)
(* security/iam/authentication (oauth2.go, jwt-token.go) and of            *)
(* utils/http-helpers.go: a token is obtained, kept in a cookie, and       *)
(* decoded or validated when it comes back with a request.                 *)
(*                                                                         *)
(* The handlers that call the helpers are the application's; they are      *)
(* taken from what the helpers' comments say of their use.  The identity   *)
(* provider is external: it signs with a key it publishes, or with the     *)
(* secret the service knows, and changes its keys at will.                 *)
(*                                                                         *)
(* Requests are handled concurrently and their responses reach the browser *)
(* in any order.  A panic ends the request, as net/http recovers it.       *)
(***************************************************************************)
EXTENDS Naturals

CONSTANTS
  Signings,     \* requests to sign in or out
  Visits,       \* requests that need a user
  Keys,         \* RSA keys of the identity provider
  Lives,        \* values of the parameter expirationTime of SetCookie
  DefaultLife,  \* what SetCookie takes for 0 (five minutes)
  TokenLife,    \* how long a token is valid
  MaxTime       \* bound: the last moment of a behaviour

\* TokenGenerator.SecretKey, which is taken to be configured: with a public
\* key only, DecodeToken would verify with an empty secret (README, section 5).
Secret == "secret"
Names  == {"access_token", "refresh_token"}

ASSUME KeysAssumption == "secret" \notin Keys /\ "none" \notin Keys
ASSUME TimeAssumption ==
  /\ Lives \subseteq Nat
  /\ DefaultLife \in Nat /\ TokenLife \in Nat /\ MaxTime \in Nat \ {0}

\* What signed a token, and its claim exp: {} when it has none.
Tokens  == [key : Keys \cup {Secret}, exp : SUBSET Nat]
NoToken == [key |-> "none", exp |-> {}]    \* the string ""
Values  == Tokens \cup {NoToken}
Cookies == [name : Names, value : Values, expires : Nat, from : Signings]

VARIABLES
  now,        \* the time
  check,      \* what the service passes tokens to
  published,  \* the keys in the provider's JWKS document
  jar,        \* the browser's cookies
  sign,       \* the requests to sign in or out
  visit,      \* the visits and their handlers
  past        \* history: sign-ins answered before a sign-out was

vars == <<now, check, published, jar, sign, visit, past>>

Checks == {"DecodeToken", "ValidateAWSCognitoAccessToken"}

Signing ==
  [kind     : {"none", "signIn", "signOut"},
   pc       : {"idle", "answered", "done"},
   response : SUBSET Cookies]  \* its Set-Cookie headers, until received

Visit ==
  [pc      : {"idle", "check", "parse", "handle"},
   token   : Values,           \* the token it presents
   keySet  : SUBSET Keys,      \* the keys fetched to validate it
   user    : BOOLEAN,          \* the request context carries the user
   result  : {"none", "served", "refused", "unavailable", "panic"},
             \* of the last visit made
   arrival : Nat,              \* history: when it arrived
   seen    : SUBSET Keys,      \* history: published at some moment since
   kept    : SUBSET Keys]      \* history: published at every moment since

\* No visit, after one with that result.
VisitOf(result) ==
  [pc |-> "idle", token |-> NoToken, keySet |-> {}, user |-> FALSE,
   result |-> result, arrival |-> 0, seen |-> {}, kept |-> {}]

Init ==
  /\ now = 1
  /\ check \in Checks
  /\ published \in SUBSET Keys \ {{}}
  /\ jar = {}
  /\ sign = [s \in Signings |->
               [kind |-> "none", pc |-> "idle", response |-> {}]]
  /\ visit = [v \in Visits |-> VisitOf("none")]
  /\ past = {}

-----------------------------------------------------------------------------
(***************************************************************************)
(* Signing in and out.                                                     *)
(***************************************************************************)

\* GenerateTokenWithCode and GenerateToken return an access token, or "" when
\* the request failed or its response was anything else: the error is printed.
GenerateToken ==
  {NoToken} \cup [key : published \cup {Secret}, exp : {{now + TokenLife}}]

Cookie(name, value, life, s) ==
  [name |-> name, value |-> value, from |-> s,
   expires |-> now + (IF life > 0 THEN life ELSE DefaultLife)]

\* A response with one cookie more.  setCookieInHeader replaces the header,
\* and with it the cookies set before.
SetCookie(cookies, cookie, setCookieInHeader) ==
  IF setCookieInHeader THEN {cookie} ELSE cookies \cup {cookie}

Respond(s, kind, cookies) ==
  /\ sign[s].pc = "idle"
  /\ sign' = [sign EXCEPT ![s] = [kind |-> kind, pc |-> "answered",
                                 response |-> cookies]]
  /\ UNCHANGED <<now, check, published, jar, visit, past>>

\* The user signs in: both cookies are set, the access token's first.
SignIn(s) ==
  \E t \in GenerateToken, life \in Lives, inHeader \in BOOLEAN :
    LET access  == Cookie("access_token", t, life, s)
        refresh == Cookie("refresh_token", t, life, s)
    IN  Respond(s, "signIn",
                SetCookie(SetCookie({}, access, inHeader), refresh, inHeader))

Cleared(name, s) ==
  [name |-> name, value |-> NoToken, expires |-> 0, from |-> s]

\* Fault: each cookie replaces the header the one before it set.
ClearLastCookie(names, s) == {Cleared(CHOOSE n \in names : TRUE, s)}

\* A cookie for each name, that expired a day ago.
ClearCookies(names, s) == {Cleared(n, s) : n \in names}

SignOut(s) == Respond(s, "signOut", ClearCookies(Names, s))

\* A cookie replaces the one of the same name, and goes when it is past.
ReceiveResponse(s) ==
  /\ sign[s].pc = "answered"
  /\ sign' = [sign EXCEPT ![s].pc = "done", ![s].response = {}]
  /\ LET new == sign[s].response
     IN  jar' = {c \in jar : \A d \in new : d.name # c.name} \cup
                {c \in new : c.expires > now}
  /\ past' = IF sign[s].kind = "signOut"
             THEN {q \in Signings : /\ sign[q].kind = "signIn"
                                    /\ sign[q].pc = "done"}
             ELSE past
  /\ UNCHANGED <<now, check, published, visit>>

-----------------------------------------------------------------------------
(***************************************************************************)
(* Visits.                                                                 *)
(***************************************************************************)
Alone == UNCHANGED <<now, check, published, jar, sign, past>>

Arrive(v, pc, t) ==
  /\ visit[v].pc = "idle"
  /\ visit' = [visit EXCEPT ![v] =
       [@ EXCEPT !.pc = pc, !.token = t, !.result = "none",
                 !.arrival = now, !.seen = published, !.kept = published]]
  /\ Alone

Answer(v, value) ==
  /\ visit' = [visit EXCEPT ![v] = VisitOf(value)]
  /\ Alone

GetCookie(name) ==
  {c.value : c \in {d \in jar : d.name = name}}

VisitWithCookie(v) ==
  \E t \in GetCookie("access_token") : Arrive(v, "check", t)

\* ExtractBearerToken: the header can hold any token.
ExtractBearerToken(v) ==
  \E t \in [key : Keys \cup {Secret}, exp : {{}, {0}, {now + 1}}] :
    Arrive(v, "check", t)

\* No cookie, no header, or one that is not "Bearer" and a token.
VisitWithNothing(v) == visit[v].pc = "idle" /\ Answer(v, "refused")

\* A route without the check in front of it.
VisitUnguarded(v) == Arrive(v, "handle", NoToken)

\* The check succeeded and the next handler gets the request.
SetValueInRequestContext(v) ==
  /\ visit' = [visit EXCEPT ![v] =
       [@ EXCEPT !.pc = "handle", !.user = TRUE, !.keySet = {}, !.kept = {}]]
  /\ Alone

\* What jwt.Parse checks of exp: to the library, 0 is no expiration time.
Unexpired(t, time) == \A e \in t.exp : e = 0 \/ time < e

\* The verification with the public key comes first and its result is lost.
\* Verification with the secret leaves no token at all for a string without
\* three parts, and an invalid one for any other failure; of a token without
\* exp, or with 0, the nil expiration time is formatted.
DecodeToken(v) ==
  LET t == visit[v].token
  IN  /\ check = "DecodeToken"
      /\ visit[v].pc = "check"
      /\ IF t = NoToken \/ (t.key = Secret /\ t.exp \subseteq {0})
         THEN Answer(v, "panic")
         ELSE IF t.key = Secret /\ Unexpired(t, now)
         THEN SetValueInRequestContext(v)
         ELSE Answer(v, "refused")

\* Fault: only the first of the keys is looked at.
FetchFirst(v) ==
  /\ check = "ValidateAWSCognitoAccessToken"
  /\ visit[v].pc = "check"
  /\ \E K \in {{k} : k \in published} :
       visit' = [visit EXCEPT ![v] = [@ EXCEPT !.pc = "parse", !.keySet = K]]
  /\ Alone

\* Fault: a fetch that failed leaves nil for the key set, and is not noticed.
FetchUnchecked(v) ==
  /\ check = "ValidateAWSCognitoAccessToken"
  /\ visit[v].pc = "check"
  /\ \E K \in {published, {"nil"}} :
       visit' = [visit EXCEPT ![v] = [@ EXCEPT !.pc = "parse", !.keySet = K]]
  /\ Alone

\* ValidateAWSCognitoAccessToken fetches the keys, and nothing bounds the
\* time it takes, ...
Fetch(v) ==
  /\ check = "ValidateAWSCognitoAccessToken"
  /\ visit[v].pc = "check"
  /\ visit' = [visit EXCEPT ![v] =
       [@ EXCEPT !.pc = "parse", !.keySet = published]]
  /\ Alone

FetchFails(v) ==
  /\ check = "ValidateAWSCognitoAccessToken"
  /\ visit[v].pc = "check"
  /\ Answer(v, "unavailable")

\* ... then verifies the token with the key it names, its expiry, and that
\* it has one.
Parse(v) ==
  LET t == visit[v].token
  IN  /\ visit[v].pc = "parse"
      /\ IF t.key \in visit[v].keySet /\ Unexpired(t, now) /\ t.exp # {}
         THEN SetValueInRequestContext(v)
         ELSE Answer(v, "refused")

\* Fault: a missing value is returned as nil.
HandleAnyone(v) == visit[v].pc = "handle" /\ Answer(v, "served")

\* The handler asks for the user with GetValueFromRequestContext, which
\* panics when there is none.
Handle(v) ==
  /\ visit[v].pc = "handle"
  /\ Answer(v, IF visit[v].user THEN "served" ELSE "panic")

-----------------------------------------------------------------------------
\* The browser drops the cookies that are past.
Tick ==
  /\ now < MaxTime
  /\ now' = now + 1
  /\ jar' = {c \in jar : c.expires > now'}
  /\ UNCHANGED <<check, published, sign, visit, past>>

\* The provider replaces its keys.
Rotate ==
  /\ published' \in SUBSET Keys \ {{}, published}
  /\ visit' = [v \in Visits |->
       IF visit[v].pc \in {"check", "parse"}
       THEN [visit[v] EXCEPT !.seen = @ \cup published',
                             !.kept = @ \cap published']
       ELSE visit[v]]
  /\ UNCHANGED <<now, check, jar, sign, past>>

VisitStep(v) ==
  \/ VisitWithCookie(v)
  \/ ExtractBearerToken(v)
  \/ VisitWithNothing(v)
  \/ VisitUnguarded(v)
  \/ DecodeToken(v)
  \/ Fetch(v)
  \/ FetchFails(v)
  \/ Parse(v)
  \/ Handle(v)

Next ==
  \/ Tick
  \/ Rotate
  \/ \E s \in Signings : SignIn(s) \/ SignOut(s) \/ ReceiveResponse(s)
  \/ \E v \in Visits : VisitStep(v)

Spec == Init /\ [][Next]_vars

-----------------------------------------------------------------------------
(***************************************************************************)
(* Properties.                                                             *)
(***************************************************************************)

\* Types; the jar has one cookie of a name.
TypeOK ==
  /\ now \in 1..MaxTime
  /\ check \in Checks
  /\ published \subseteq Keys
  /\ jar \subseteq Cookies
  /\ \A c, d \in jar : c.name = d.name => c = d
  /\ sign \in [Signings -> Signing]
  /\ visit \in [Visits -> Visit]
  /\ past \subseteq Signings

Trusted(t, keys) ==
  IF check = "DecodeToken" THEN t.key = Secret ELSE t.key \in keys

IsGood(t) == t.exp # {} /\ Unexpired(t, now)

Answers(v, value) == visit[v].pc # "idle" /\ visit'[v].result = value

\* A visit is served only with a token that had not expired when it arrived
\* and that the secret, or a key published while it was handled, signed;
\* whatever keys are changed between the fetch and the verification, and
\* also on a route where the check was forgotten.
ServedIsAuthentic ==
  [][\A v \in Visits :
       Answers(v, "served") =>
         /\ Trusted(visit[v].token, visit[v].seen)
         /\ Unexpired(visit[v].token, visit[v].arrival)]_vars

\* A visit is not refused with a token that has an expiration time not even
\* now past, and that the key in use signed: the secret for DecodeToken, for
\* ValidateAWSCognitoAccessToken a key published all the while.
GoodTokenServed ==
  [][\A v \in Visits :
       Answers(v, "refused") => ~ /\ Trusted(visit[v].token, visit[v].kept)
                                  /\ IsGood(visit[v].token)]_vars

\* No cookie of a sign-in that was answered before a sign-out was is left:
\* only a sign-in that overlapped the sign-out can be undone by nobody.
SignedOutStaysOut == \A c \in jar : c.from \notin past
=============================================================================
