------------------------ MODULE ConcurrencyLimiter ------------------------
(***************************************************************************)
(* LimitMaxConcurrentRequestPerHour (middlewares/rate-limit.go): each      *)
(* request runs in a goroutine of its own and shares the RateLimitOptions, *)
(* whose counter maxConcurrentRequest is compared, incremented and         *)
(* decremented under mut.  The check and the increment are one critical    *)
(* section, the decrement of the deferred function another.                *)
(*                                                                         *)
(* A request is modelled from the moment tollbooth lets it through; those  *)
(* tollbooth throttles never reach this code.  A sync.Mutex is the set of  *)
(* its holders, {} when it is free.                                        *)
(***************************************************************************)
EXTENDS Integers, FiniteSets

CONSTANTS
  Requests,   \* goroutines that may serve a request at the same time
  Limits      \* the arguments NewRateLimiter may be called with

ASSUME RequestsAssumption == IsFiniteSet(Requests)
ASSUME LimitsAssumption   == Limits \subseteq Int

VARIABLES
  maxRequest,            \* RateLimitOptions.maxRequest
  maxConcurrentRequest,  \* RateLimitOptions.maxConcurrentRequest
  mut,                   \* RateLimitOptions.mut
  pc                     \* where each request is

vars == <<maxRequest, maxConcurrentRequest, mut, pc>>

Outside  == {"idle", "enter", "serving", "exit"}
Critical == {"check", "reject", "incr", "admit", "decr", "release"}

\* NewRateLimiter(limit)
Init ==
  /\ maxRequest \in Limits
  /\ maxConcurrentRequest = 0
  /\ mut = {}
  /\ pc = [r \in Requests |-> "idle"]

Goto(r, from, to) ==
  /\ pc[r] = from
  /\ pc' = [pc EXCEPT ![r] = to]

\* tollbooth.LimitHandler calls middle.
Arrive(r) ==
  /\ Goto(r, "idle", "enter")
  /\ UNCHANGED <<maxRequest, maxConcurrentRequest, mut>>

\* Fault: the check runs without the mutex.
EnterUnlocked(r) ==
  /\ Goto(r, "enter", "check")
  /\ UNCHANGED <<maxRequest, maxConcurrentRequest, mut>>

\* mut.Lock() before the check
LockEntry(r) ==
  /\ mut = {}
  /\ mut' = {r}
  /\ Goto(r, "enter", "check")
  /\ UNCHANGED <<maxRequest, maxConcurrentRequest>>

\* Fault: requests are refused from one below the limit.
CheckTooStrict(r) ==
  /\ Goto(r, "check",
          IF maxConcurrentRequest + 1 = maxRequest THEN "reject" ELSE "incr")
  /\ UNCHANGED <<maxRequest, maxConcurrentRequest, mut>>

\* maxHit := maxConcurrentRequest == maxRequest
Check(r) ==
  /\ Goto(r, "check",
          IF maxConcurrentRequest = maxRequest THEN "reject" ELSE "incr")
  /\ UNCHANGED <<maxRequest, maxConcurrentRequest, mut>>

\* Fault: the early return keeps the mutex.
RejectLocked(r) ==
  /\ Goto(r, "reject", "idle")
  /\ UNCHANGED <<maxRequest, maxConcurrentRequest, mut>>

\* mut.Unlock(), 429 Too Many Requests, return
Reject(r) ==
  /\ Goto(r, "reject", "idle")
  /\ mut' = mut \ {r}
  /\ UNCHANGED <<maxRequest, maxConcurrentRequest>>

\* maxConcurrentRequest += 1
Increment(r) ==
  /\ Goto(r, "incr", "admit")
  /\ maxConcurrentRequest' = maxConcurrentRequest + 1
  /\ UNCHANGED <<maxRequest, mut>>

\* mut.Unlock(); from here on the deferred decrement is certain to run
UnlockEntry(r) ==
  /\ Goto(r, "admit", "serving")
  /\ mut' = mut \ {r}
  /\ UNCHANGED <<maxRequest, maxConcurrentRequest>>

\* Fault: no defer, so a handler that panics skips the decrement.
HandlerPanics(r) ==
  /\ \/ Goto(r, "serving", "exit")
     \/ Goto(r, "serving", "idle")
  /\ UNCHANGED <<maxRequest, maxConcurrentRequest, mut>>

\* The handler returns, or panics; the deferred function runs after either.
HandlerEnds(r) ==
  /\ Goto(r, "serving", "exit")
  /\ UNCHANGED <<maxRequest, maxConcurrentRequest, mut>>

\* mut.Lock() in the deferred function
LockExit(r) ==
  /\ mut = {}
  /\ mut' = {r}
  /\ Goto(r, "exit", "decr")
  /\ UNCHANGED <<maxRequest, maxConcurrentRequest>>

\* maxConcurrentRequest -= 1
Decrement(r) ==
  /\ Goto(r, "decr", "release")
  /\ maxConcurrentRequest' = maxConcurrentRequest - 1
  /\ UNCHANGED <<maxRequest, mut>>

\* mut.Unlock(), and the request is done
UnlockExit(r) ==
  /\ Goto(r, "release", "idle")
  /\ mut' = mut \ {r}
  /\ UNCHANGED <<maxRequest, maxConcurrentRequest>>

Acquire(r) == LockEntry(r) \/ LockExit(r)
Proceed(r) ==
  \/ Check(r)
  \/ Reject(r)
  \/ Increment(r)
  \/ UnlockEntry(r)
  \/ HandlerEnds(r)
  \/ Decrement(r)
  \/ UnlockExit(r)

Next == \E r \in Requests : Arrive(r) \/ Acquire(r) \/ Proceed(r)

Spec == Init /\ [][Next]_vars

(***************************************************************************)
(* Go's mutex hands itself to a goroutine that has waited long enough, so  *)
(* whoever keeps asking gets it; handlers are assumed to end.  Nothing     *)
(* obliges a request to arrive.                                            *)
(***************************************************************************)
Fairness == \A r \in Requests : SF_vars(Acquire(r)) /\ WF_vars(Proceed(r))

FairSpec == Spec /\ Fairness

-----------------------------------------------------------------------------
(***************************************************************************)
(* Properties.                                                             *)
(***************************************************************************)

\* Types, and mut has at most one holder, the request in a critical section.
TypeOK ==
  /\ maxRequest \in Limits
  /\ maxConcurrentRequest \in Nat
  /\ mut \subseteq Requests
  /\ pc \in [Requests -> Outside \cup Critical]
  /\ \A r \in Requests : pc[r] \in Critical <=> mut = {r}

\* The requests that have been counted and not yet uncounted.
Holding == {r \in Requests : pc[r] \in {"admit", "serving", "exit", "decr"}}

\* The counter is the number of requests that hold a place, however many
\* goroutines move at once and however their handlers end.
SlotsAccounted == maxConcurrentRequest = Cardinality(Holding)

\* No more than maxRequest handlers run at once (rate-limit.go:32, 40).  The
\* comparison is an equality, so it limits nothing when maxRequest < 0.
LimitRespected ==
  maxRequest >= 0 =>
    Cardinality({r \in Requests : pc[r] = "serving"}) <= maxRequest

\* A 429 is sent only if, at the moment it is decided, every place is taken.
NoSpuriousReject ==
  \A r \in Requests :
    pc[r] = "reject" => Cardinality(Holding) = maxRequest

\* Every request is answered: no early return leaves the mutex locked.
EveryRequestEnds ==
  \A r \in Requests : pc[r] = "enter" ~> pc[r] = "idle"

\* Where the contract sees a request.
StatusAt(p) ==
  CASE p \in {"admit", "serving", "exit", "decr"} -> "inside"
    [] p \in {"enter", "check", "incr"}           -> "asking"
    [] p = "reject"                               -> "refused"
    [] OTHER                                      -> "out"

AdmissionStatus == [r \in Requests |-> StatusAt(pc[r])]

\* Check and increment together are an atomic admission decision.
Admission == INSTANCE AdmissionControl WITH
  limit  <- maxRequest,
  status <- AdmissionStatus

ImplementsAdmissionControl == Admission!Spec
=============================================================================
