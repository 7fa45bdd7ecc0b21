--------------------------- MODULE SessionsProofs ---------------------------
(***************************************************************************)
(* Theorems about Sessions, for every number of requests, visits and keys  *)
(* and for every lifetime of cookies and tokens.                           *)
(***************************************************************************)
EXTENDS Sessions, TLAPS

(***************************************************************************)
(* The inductive invariant.  The answer to a sign-out clears every cookie, *)
(* that of a sign-in sets cookies of its own only, and nothing is past     *)
(* that was not received.                                                  *)
(***************************************************************************)
OneOfAName(cookies) == \A c, d \in cookies : c.name = d.name => c = d

AnswersAreOwn ==
  \A s \in Signings :
    /\ OneOfAName(sign[s].response)
    /\ sign[s].pc = "answered" =>
         IF sign[s].kind = "signOut"
         THEN sign[s].response = ClearCookies(Names, s)
         ELSE \A c \in sign[s].response : c.from = s

PastIsDone == \A s \in past : sign[s].pc = "done"

(***************************************************************************)
(* And of a visit: the keys it fetched were published while it was         *)
(* handled and include those that always were; what it has of a user was   *)
(* checked against a token that was valid on arrival.                      *)
(***************************************************************************)
KeysAreCurrent ==
  \A v \in Visits :
    visit[v].pc = "parse" => /\ check = "ValidateAWSCognitoAccessToken"
                             /\ visit[v].keySet \subseteq visit[v].seen
                             /\ visit[v].kept \subseteq visit[v].keySet

UserIsChecked ==
  \A v \in Visits :
    /\ visit[v].pc # "idle" => visit[v].result = "none"
    /\ visit[v].arrival <= now
    /\ visit[v].pc \in {"check", "parse"} => /\ visit[v].kept \subseteq published
                                             /\ published \subseteq visit[v].seen
    /\ visit[v].pc # "handle" => ~visit[v].user
    /\ visit[v].user => /\ Trusted(visit[v].token, visit[v].seen)
                        /\ Unexpired(visit[v].token, visit[v].arrival)

IInv ==
  /\ TypeOK
  /\ AnswersAreOwn
  /\ PastIsDone
  /\ SignedOutStaysOut
  /\ KeysAreCurrent
  /\ UserIsChecked

LEMMA InitEstablishes == Init => IInv
  BY TimeAssumption
  DEF Init, IInv, TypeOK, AnswersAreOwn, PastIsDone, SignedOutStaysOut,
      OneOfAName, KeysAreCurrent, UserIsChecked, VisitOf, Signing, Visit, Values, NoToken,
      Tokens

\* A cookie set by SetCookie, directly or in the header, is of the request's.
LEMMA CookiesAreTyped ==
  ASSUME TypeOK, NEW s \in Signings, NEW n \in Names, NEW t \in Values,
         NEW life \in Lives
  PROVE  Cookie(n, t, life, s) \in Cookies /\ Cookie(n, t, life, s).from = s
  BY TimeAssumption DEF TypeOK, Cookie, Cookies

LEMMA TokensAreTyped == ASSUME TypeOK PROVE GenerateToken \subseteq Values
  BY TimeAssumption DEF TypeOK, GenerateToken, Values, NoToken, Tokens

LEMMA VisitsUntouched ==
  ASSUME IInv, UNCHANGED <<now, check, published, visit>>
  PROVE  KeysAreCurrent' /\ UserIsChecked'
  BY DEF IInv, KeysAreCurrent, UserIsChecked, Trusted

\* An answered request changes nothing but its own response.
LEMMA RespondPreserves ==
  ASSUME IInv, NEW s \in Signings, NEW kind \in {"signIn", "signOut"},
         NEW cookies \in SUBSET Cookies, OneOfAName(cookies),
         Respond(s, kind, cookies),
         IF kind = "signOut" THEN cookies = ClearCookies(Names, s)
         ELSE \A c \in cookies : c.from = s
  PROVE  IInv'
<1> USE DEF IInv, TypeOK, Respond
<1>1. TypeOK'
  BY DEF Signing
<1>2. AnswersAreOwn'
  BY DEF AnswersAreOwn, Signing, OneOfAName, ClearCookies, Cleared
<1>3. PastIsDone' /\ SignedOutStaysOut'
  BY DEF PastIsDone, SignedOutStaysOut, Signing
<1>4. KeysAreCurrent' /\ UserIsChecked'
  BY VisitsUntouched
<1>5. QED
  BY <1>1, <1>2, <1>3, <1>4

LEMMA SigningPreserves ==
  ASSUME IInv, NEW s \in Signings, SignIn(s) \/ SignOut(s) \/ ReceiveResponse(s)
  PROVE  IInv'
<1> USE DEF IInv
<1>1. CASE SignIn(s)
  <2>1. PICK t \in GenerateToken, life \in Lives, inHeader \in BOOLEAN :
          Respond(s, "signIn",
            SetCookie(SetCookie({}, Cookie("access_token", t, life, s), inHeader),
                      Cookie("refresh_token", t, life, s), inHeader))
    BY <1>1 DEF SignIn
  <2> DEFINE cookies ==
        SetCookie(SetCookie({}, Cookie("access_token", t, life, s), inHeader),
                  Cookie("refresh_token", t, life, s), inHeader)
  <2>2. cookies \in SUBSET Cookies /\ \A c \in cookies : c.from = s
    BY CookiesAreTyped, TokensAreTyped DEF SetCookie, Names
  <2>3. OneOfAName(cookies)
    BY DEF OneOfAName, SetCookie, Cookie
  <2>4. Respond(s, "signIn", cookies)
    BY <2>1
  <2> HIDE DEF cookies
  <2>5. QED
    BY <2>2, <2>3, <2>4, RespondPreserves
<1>2. CASE SignOut(s)
  <2>1. ClearCookies(Names, s) \in SUBSET Cookies
    BY DEF ClearCookies, Cleared, Cookies, Values
  <2>2. OneOfAName(ClearCookies(Names, s))
    BY DEF OneOfAName, ClearCookies, Cleared
  <2>3. QED
    BY <1>2, <2>1, <2>2, RespondPreserves DEF SignOut
<1>3. CASE ReceiveResponse(s)
  <2> DEFINE new == sign[s].response
  <2>1. new \subseteq Cookies /\ OneOfAName(new)
    BY DEF TypeOK, AnswersAreOwn, Signing
  <2>2. jar' = {c \in jar : \A d \in new : d.name # c.name} \cup
               {c \in new : c.expires > now}
    BY <1>3 DEF ReceiveResponse
  <2>3. TypeOK'
    <3>1. jar' \subseteq Cookies /\ \A c, d \in jar' : c.name = d.name => c = d
      BY <2>1, <2>2 DEF TypeOK, OneOfAName
    <3>2. sign' \in [Signings -> Signing] /\ past' \subseteq Signings
      <4>1. /\ sign' = [sign EXCEPT ![s] =
                          [@ EXCEPT !.pc = "done", !.response = {}]]
            /\ past' \subseteq Signings
        BY <1>3 DEF ReceiveResponse, TypeOK
      <4>2. sign[s] \in Signing
        BY DEF TypeOK
      <4>3. [sign[s] EXCEPT !.pc = "done", !.response = {}] \in Signing
        BY <4>2 DEF Signing
      <4>4. QED
        BY <4>1, <4>3 DEF TypeOK
    <3>3. QED
      BY <1>3, <3>1, <3>2 DEF ReceiveResponse, TypeOK
  <2>4. AnswersAreOwn'
    BY <1>3 DEF ReceiveResponse, TypeOK, AnswersAreOwn, Signing, OneOfAName,
                ClearCookies, Cleared
  <2>5. KeysAreCurrent' /\ UserIsChecked'
    BY <1>3, VisitsUntouched DEF ReceiveResponse
  <2>6. PastIsDone'
    BY <1>3 DEF ReceiveResponse, TypeOK, PastIsDone, Signing
  <2>7. SignedOutStaysOut'
    <3>1. CASE sign[s].kind = "signOut"
      <4>1. new = ClearCookies(Names, s)
        BY <1>3, <3>1 DEF ReceiveResponse, AnswersAreOwn
      <4>2. ASSUME NEW n \in Names PROVE \E c \in new : c.name = n
        <5>1. Cleared(n, s) \in new /\ Cleared(n, s).name = n
          BY <4>1 DEF ClearCookies, Cleared
        <5>2. QED
          BY <5>1
      <4>3. \A c \in new : c.expires = 0
        <5>1. \A c \in ClearCookies(Names, s) : c.expires = 0
          BY DEF ClearCookies, Cleared
        <5>2. QED
          BY <4>1, <5>1
      <4>4. jar' = {}
        BY <2>2, <4>2, <4>3 DEF TypeOK, Cookies
      <4>5. QED
        BY <4>4 DEF SignedOutStaysOut
    <3>2. CASE sign[s].kind # "signOut"
      <4>1. \A c \in jar' : c \in jar \/ c.from = s
        BY <1>3, <2>2, <3>2 DEF ReceiveResponse, AnswersAreOwn
      <4>2. past' = past /\ s \notin past
        BY <1>3, <3>2 DEF ReceiveResponse, PastIsDone
      <4>3. QED
        BY <4>1, <4>2 DEF SignedOutStaysOut
    <3>3. QED
      BY <3>1, <3>2
  <2>8. QED
    BY <2>3, <2>4, <2>5, <2>6, <2>7
<1>4. QED
  BY <1>1, <1>2, <1>3

\* What visits do leaves alone all that signing in and out is about.
LEMMA SigningUntouched ==
  ASSUME IInv, Alone
  PROVE  /\ AnswersAreOwn' /\ PastIsDone' /\ SignedOutStaysOut'
         /\ (visit' \in [Visits -> Visit] => TypeOK')
  BY DEF IInv, Alone, TypeOK, AnswersAreOwn, PastIsDone, SignedOutStaysOut,
         ClearCookies, Cleared

LEMMA AnswerPreserves ==
  ASSUME IInv, NEW v \in Visits, Answer(v, "served") \/ Answer(v, "refused")
                              \/ Answer(v, "unavailable") \/ Answer(v, "panic")
  PROVE  IInv'
<1>1. visit' \in [Visits -> Visit]
  <2>1. \A r \in {"served", "refused", "unavailable", "panic"} :
          VisitOf(r) \in Visit
    BY DEF VisitOf, Visit, Values
  <2>2. QED
    BY <2>1 DEF IInv, TypeOK, Answer
<1>2. KeysAreCurrent' /\ UserIsChecked'
  BY DEF IInv, TypeOK, KeysAreCurrent, UserIsChecked, Answer, VisitOf, Alone,
         Visit, Trusted
<1>3. QED
  BY <1>1, <1>2, SigningUntouched DEF IInv, Answer

LEMMA ArrivePreserves ==
  ASSUME IInv, NEW v \in Visits, NEW pc \in {"check", "handle"},
         NEW t \in Values, Arrive(v, pc, t)
  PROVE  IInv'
<1> DEFINE new == [visit[v] EXCEPT !.pc = pc, !.token = t, !.result = "none",
                     !.arrival = now, !.seen = published, !.kept = published]
<1>1. visit' \in [Visits -> Visit]
  <2>1. visit[v] \in Visit /\ now \in Nat /\ published \subseteq Keys
    BY TimeAssumption DEF IInv, TypeOK
  <2>2. new \in Visit
    BY <2>1 DEF Visit
  <2>3. QED
    BY <2>2 DEF IInv, TypeOK, Arrive
<1>2. KeysAreCurrent' /\ UserIsChecked'
  <2>1. visit[v] \in Visit /\ now \in Nat /\ visit[v].user = FALSE
    BY TimeAssumption DEF IInv, TypeOK, UserIsChecked, Visit, Arrive
  <2>2. /\ new.pc = pc /\ new.result = "none" /\ new.arrival = now
        /\ new.seen = published /\ new.kept = published /\ new.user = FALSE
    BY <2>1 DEF Visit
  <2>3. visit' = [visit EXCEPT ![v] = new]
    BY DEF Arrive
  <2> HIDE DEF new
  <2>4. QED
    BY <2>1, <2>2, <2>3
    DEF IInv, TypeOK, KeysAreCurrent, UserIsChecked, Arrive, Alone, Trusted
<1>3. QED
  BY <1>1, <1>2, SigningUntouched DEF IInv, Arrive

\* The check passes only a token that is valid.
LEMMA SetValuePreserves ==
  ASSUME IInv, NEW v \in Visits, SetValueInRequestContext(v),
         visit[v].pc # "idle",
         Trusted(visit[v].token, visit[v].seen), Unexpired(visit[v].token, now)
  PROVE  IInv'
<1>1. visit' \in [Visits -> Visit]
  <2>1. [visit[v] EXCEPT !.pc = "handle", !.user = TRUE, !.keySet = {},
                         !.kept = {}] \in Visit
    <3>1. visit[v] \in Visit
      BY DEF IInv, TypeOK
    <3>2. QED
      BY <3>1 DEF Visit
  <2>2. QED
    BY <2>1 DEF IInv, TypeOK, SetValueInRequestContext
<1>2. Unexpired(visit[v].token, visit[v].arrival)
  <2>1. /\ visit[v].arrival \in Nat /\ now \in Nat /\ visit[v].arrival <= now
        /\ visit[v].token.exp \subseteq Nat
    BY TimeAssumption
    DEF IInv, TypeOK, UserIsChecked, Visit, Values, NoToken, Tokens
  <2>2. QED
    BY <2>1 DEF Unexpired
<1>3. KeysAreCurrent' /\ UserIsChecked'
  BY <1>2 DEF IInv, TypeOK, KeysAreCurrent, UserIsChecked, Alone,
              SetValueInRequestContext, Visit, Trusted
<1>4. QED
  BY <1>1, <1>3, SigningUntouched DEF IInv, SetValueInRequestContext

LEMMA FetchPreserves ==
  ASSUME IInv, NEW v \in Visits, Fetch(v)
  PROVE  IInv'
<1>1. visit' \in [Visits -> Visit]
  <2>1. [visit[v] EXCEPT !.pc = "parse", !.keySet = published] \in Visit
    <3>1. visit[v] \in Visit /\ published \subseteq Keys
      BY DEF IInv, TypeOK
    <3>2. QED
      BY <3>1 DEF Visit
  <2>2. QED
    BY <2>1 DEF IInv, TypeOK, Fetch
<1>2. KeysAreCurrent' /\ UserIsChecked'
  BY DEF IInv, TypeOK, KeysAreCurrent, UserIsChecked, Fetch, Alone, Visit,
         Trusted
<1>3. QED
  BY <1>1, <1>2, SigningUntouched DEF IInv, Fetch

LEMMA VisitPreserves ==
  ASSUME IInv, NEW v \in Visits, VisitStep(v)
  PROVE  IInv'
<1>1. CASE VisitWithCookie(v)
  <2>1. GetCookie("access_token") \subseteq Values
    BY DEF GetCookie, IInv, TypeOK, Cookies
  <2>2. QED
    BY <1>1, <2>1, ArrivePreserves DEF VisitWithCookie
<1>2. CASE ExtractBearerToken(v)
  <2>1. [key : Keys \cup {Secret}, exp : {{}, {0}, {now + 1}}] \subseteq Values
    BY TimeAssumption DEF IInv, TypeOK, Values, Tokens
  <2>2. QED
    BY <1>2, <2>1, ArrivePreserves DEF ExtractBearerToken
<1>3. CASE VisitWithNothing(v)
  BY <1>3, AnswerPreserves DEF VisitWithNothing
<1>4. CASE VisitUnguarded(v)
  BY <1>4, ArrivePreserves DEF VisitUnguarded, Values
<1>5. CASE DecodeToken(v)
  BY <1>5, AnswerPreserves, SetValuePreserves DEF DecodeToken, Trusted
<1>6. CASE Fetch(v)
  BY <1>6, FetchPreserves
<1>7. CASE FetchFails(v)
  BY <1>7, AnswerPreserves DEF FetchFails
<1>8. CASE Parse(v)
  <2>1. check = "ValidateAWSCognitoAccessToken"
        /\ visit[v].keySet \subseteq visit[v].seen
    BY <1>8 DEF Parse, IInv, KeysAreCurrent
  <2>2. QED
    BY <1>8, <2>1, AnswerPreserves, SetValuePreserves DEF Parse, Trusted
<1>9. CASE Handle(v)
  BY <1>9, AnswerPreserves DEF Handle
<1>10. QED
  BY <1>1, <1>2, <1>3, <1>4, <1>5, <1>6, <1>7, <1>8, <1>9 DEF VisitStep

LEMMA TickPreserves == ASSUME IInv, Tick PROVE IInv'
<1>1. TypeOK' /\ AnswersAreOwn' /\ PastIsDone' /\ SignedOutStaysOut'
  BY TimeAssumption
  DEF IInv, Tick, TypeOK, AnswersAreOwn, PastIsDone, SignedOutStaysOut,
      OneOfAName, ClearCookies, Cleared
<1>2. KeysAreCurrent' /\ UserIsChecked'
  BY TimeAssumption
  DEF IInv, Tick, TypeOK, KeysAreCurrent, UserIsChecked, Visit, Trusted
<1>3. QED
  BY <1>1, <1>2 DEF IInv

LEMMA RotatePreserves == ASSUME IInv, Rotate PROVE IInv'
<1>1. TypeOK'
  <2>1. ASSUME NEW v \in Visits
        PROVE  [visit[v] EXCEPT !.seen = @ \cup published',
                                !.kept = @ \cap published'] \in Visit
    <3>1. visit[v] \in Visit /\ published' \subseteq Keys
      BY DEF IInv, TypeOK, Rotate
    <3>2. QED
      BY <3>1 DEF Visit
  <2>2. visit' \in [Visits -> Visit]
    BY <2>1 DEF IInv, TypeOK, Rotate
  <2>3. QED
    BY <2>2 DEF IInv, Rotate, TypeOK
<1>2. AnswersAreOwn' /\ PastIsDone' /\ SignedOutStaysOut'
  BY DEF IInv, Rotate, AnswersAreOwn, PastIsDone, SignedOutStaysOut,
         ClearCookies, Cleared
<1>3. ASSUME NEW v \in Visits
      PROVE  /\ visit'[v].pc = visit[v].pc
             /\ visit'[v].result = visit[v].result
             /\ visit'[v].user = visit[v].user
             /\ visit'[v].token = visit[v].token
             /\ visit'[v].arrival = visit[v].arrival
             /\ visit'[v].keySet = visit[v].keySet
             /\ visit[v].seen \subseteq visit'[v].seen
             /\ visit'[v].kept \subseteq visit[v].kept
             /\ visit[v].pc \in {"check", "parse"} =>
                  /\ visit'[v].kept \subseteq published'
                  /\ published' \subseteq visit'[v].seen
  <2>1. visit[v] \in Visit
    BY DEF IInv, TypeOK
  <2>2. visit'[v] = IF visit[v].pc \in {"check", "parse"}
                    THEN [visit[v] EXCEPT !.seen = @ \cup published',
                                          !.kept = @ \cap published']
                    ELSE visit[v]
    BY DEF Rotate
  <2>3. CASE visit[v].pc \in {"check", "parse"}
    BY <2>1, <2>2, <2>3 DEF Visit
  <2>4. CASE visit[v].pc \notin {"check", "parse"}
    BY <2>2, <2>4
  <2>5. QED
    BY <2>3, <2>4
<1>4. KeysAreCurrent' /\ UserIsChecked'
  <2>1. check' = check /\ now' = now
    BY DEF Rotate
  <2>2. KeysAreCurrent'
    BY <1>3, <2>1 DEF IInv, KeysAreCurrent
  <2>3. ASSUME NEW v \in Visits, visit'[v].user
        PROVE  Trusted(visit[v].token, visit[v].seen)'
    BY <1>3, <2>1, <2>3 DEF IInv, UserIsChecked, Trusted
  <2>4. UserIsChecked'
    BY <1>3, <2>1, <2>3 DEF IInv, UserIsChecked
  <2>5. QED
    BY <2>2, <2>4
<1>5. QED
  BY <1>1, <1>2, <1>4 DEF IInv

LEMMA Invariance == Spec => []IInv
<1>1. Init => IInv
  BY InitEstablishes
<1>2. IInv /\ [Next]_vars => IInv'
  <2> SUFFICES ASSUME IInv, [Next]_vars
               PROVE  IInv'
    OBVIOUS
  <2>1. CASE UNCHANGED vars
    BY <2>1, VisitsUntouched, SigningUntouched
    DEF vars, Alone, IInv, TypeOK
  <2>2. QED
    BY <2>1, TickPreserves, RotatePreserves, SigningPreserves, VisitPreserves
    DEF Next
<1>3. QED
  BY <1>1, <1>2, PTL DEF Spec

LEMMA SigningLeavesVisits ==
  ASSUME NEW s \in Signings, SignIn(s) \/ SignOut(s) \/ ReceiveResponse(s)
  PROVE  visit' = visit
  BY DEF SignIn, SignOut, Respond, ReceiveResponse

LEMMA OthersUntouched ==
  ASSUME IInv, NEW v \in Visits, NEW w \in Visits, w # v, VisitStep(w)
  PROVE  visit'[v] = visit[v]
  BY DEF IInv, TypeOK, VisitStep, VisitWithCookie, ExtractBearerToken,
         VisitWithNothing, VisitUnguarded, Arrive, Answer, DecodeToken,
         SetValueInRequestContext, Fetch, FetchFails, Parse, Handle

LEMMA StepOfAnswer ==
  ASSUME IInv, Next, NEW v \in Visits, NEW r \in {"served", "refused"},
         Answers(v, r)
  PROVE  visit[v].result = "none" /\ VisitStep(v)
<1>1. visit[v] \in Visit /\ visit[v].result = "none"
  BY DEF Answers, IInv, TypeOK, UserIsChecked
<1>2. visit'[v] # visit[v]
  BY <1>1 DEF Answers
<1>3. ~Rotate
  <2>1. Rotate => visit'[v] \in {visit[v], [visit[v] EXCEPT
                                   !.seen = @ \cup published',
                                   !.kept = @ \cap published']}
    BY DEF Rotate
  <2>2. Rotate => visit'[v].result = visit[v].result
    BY <1>1, <2>1 DEF Visit
  <2>3. QED
    BY <1>1, <2>2 DEF Answers
<1>4. \E w \in Visits : VisitStep(w)
  BY <1>2, <1>3, SigningLeavesVisits DEF Next, Tick
<1>5. QED
  BY <1>1, <1>2, <1>4, OthersUntouched

\* Only a handler that finds a user serves.
LEMMA AnswersOfAStep ==
  ASSUME IInv, NEW v \in Visits, VisitStep(v), visit'[v].result = "served",
         visit[v].result = "none"
  PROVE  Handle(v) /\ visit[v].user
<1>1. visit[v] \in Visit
  BY DEF IInv, TypeOK
<1>2. ASSUME NEW pc, NEW t, Arrive(v, pc, t) PROVE visit'[v].result = "none"
  BY <1>1, <1>2 DEF IInv, TypeOK, Arrive, Visit
<1>3. ASSUME NEW r, Answer(v, r) PROVE visit'[v].result = r
  BY <1>3 DEF IInv, TypeOK, Answer, VisitOf
<1>4. ASSUME SetValueInRequestContext(v) \/ Fetch(v)
      PROVE  visit'[v].result = "none"
  <2>1. CASE SetValueInRequestContext(v)
    BY <1>1, <2>1 DEF IInv, TypeOK, SetValueInRequestContext, Visit
  <2>2. CASE Fetch(v)
    BY <1>1, <2>2 DEF IInv, TypeOK, Fetch, Visit
  <2>3. QED
    BY <1>4, <2>1, <2>2
<1>5. ~VisitWithCookie(v) /\ ~ExtractBearerToken(v) /\ ~VisitUnguarded(v)
  BY <1>2 DEF VisitWithCookie, ExtractBearerToken, VisitUnguarded
<1>6. ~VisitWithNothing(v) /\ ~FetchFails(v) /\ ~DecodeToken(v) /\ ~Parse(v)
  BY <1>3, <1>4 DEF VisitWithNothing, FetchFails, DecodeToken, Parse
<1>7. QED
  BY <1>3, <1>4, <1>5, <1>6 DEF VisitStep, Handle

\* Type correctness; the browser never has two cookies of a name.
THEOREM TypeCorrect == Spec => []TypeOK
<1>1. IInv => TypeOK
  BY DEF IInv
<1>2. QED
  BY <1>1, Invariance, PTL

\* A sign-out leaves no cookie of a sign-in that was answered before it
\* (http-helpers.go:217-242).
THEOREM SignOutIsFinal == Spec => []SignedOutStaysOut
<1>1. IInv => SignedOutStaysOut
  BY DEF IInv
<1>2. QED
  BY <1>1, Invariance, PTL

\* Only a token that was valid on arrival, and signed by the secret or a key
\* published during the visit, is served (jwt-token.go:67-105, 201-252).
THEOREM OnlyAuthentic == Spec => ServedIsAuthentic
<1>1. ASSUME IInv, Next, NEW v \in Visits, Answers(v, "served")
      PROVE  /\ Trusted(visit[v].token, visit[v].seen)
             /\ Unexpired(visit[v].token, visit[v].arrival)
  <2>1. visit[v].result = "none" /\ VisitStep(v)
    BY <1>1, StepOfAnswer
  <2>2. Handle(v) /\ visit[v].user
    BY <1>1, <2>1, AnswersOfAStep DEF Answers
  <2>3. QED
    BY <1>1, <2>2 DEF IInv, UserIsChecked
<1>2. IInv /\ [Next]_vars =>
        [\A v \in Visits :
           Answers(v, "served") =>
             /\ Trusted(visit[v].token, visit[v].seen)
             /\ Unexpired(visit[v].token, visit[v].arrival)]_vars
  BY <1>1
<1>3. QED
  BY <1>2, Invariance, PTL DEF Spec, ServedIsAuthentic

\* Only a check that fails refuses.
LEMMA RefusalsOfAStep ==
  ASSUME IInv, NEW v \in Visits, VisitStep(v), visit'[v].result = "refused",
         visit[v].result = "none", visit[v].pc # "idle"
  PROVE  ~(Trusted(visit[v].token, visit[v].kept) /\ IsGood(visit[v].token))
<1>1. visit[v] \in Visit
  BY DEF IInv, TypeOK
<1>2. ASSUME NEW r, Answer(v, r) PROVE visit'[v].result = r
  BY <1>2 DEF IInv, TypeOK, Answer, VisitOf
<1>3. ~SetValueInRequestContext(v)
  <2>1. SUFFICES ASSUME SetValueInRequestContext(v)
                 PROVE  visit'[v].result = visit[v].result
    OBVIOUS
  <2>2. QED
    BY <1>1, <2>1 DEF IInv, TypeOK, SetValueInRequestContext, Visit
<1>4. ~Fetch(v)
  <2>1. Fetch(v) =>
          visit'[v] = [visit[v] EXCEPT !.pc = "parse", !.keySet = published]
    BY DEF IInv, TypeOK, Fetch
  <2>2. QED
    BY <1>1, <2>1 DEF Visit
<1>5. ~FetchFails(v) /\ ~Handle(v)
  BY <1>2 DEF FetchFails, Handle
<1>6. DecodeToken(v) \/ Parse(v)
  BY <1>4, <1>5
  DEF VisitStep, VisitWithCookie, ExtractBearerToken, VisitWithNothing,
      VisitUnguarded, Arrive
<1>7. CASE DecodeToken(v)
  BY <1>2, <1>3, <1>7 DEF DecodeToken, Trusted, IsGood
<1>8. CASE Parse(v)
  BY <1>3, <1>8 DEF Parse, IInv, KeysAreCurrent, Trusted, IsGood
<1>9. QED
  BY <1>6, <1>7, <1>8

\* No visit is refused with a token that is valid even now, and was all the
\* while it took (jwt-token.go:67-105, 201-252).
THEOREM GoodIsServed == Spec => GoodTokenServed
<1>1. ASSUME IInv, Next, NEW v \in Visits, Answers(v, "refused")
      PROVE  ~(Trusted(visit[v].token, visit[v].kept) /\ IsGood(visit[v].token))
  <2>1. visit[v].result = "none" /\ VisitStep(v)
    BY <1>1, StepOfAnswer
  <2>2. QED
    BY <1>1, <2>1, RefusalsOfAStep DEF Answers
<1>2. IInv /\ [Next]_vars =>
        [\A v \in Visits :
           Answers(v, "refused") => ~ /\ Trusted(visit[v].token, visit[v].kept)
                                      /\ IsGood(visit[v].token)]_vars
  BY <1>1
<1>3. QED
  BY <1>2, Invariance, PTL DEF Spec, GoodTokenServed
=============================================================================
