--------------------------- MODULE DrainContract ---------------------------
(***************************************************************************)
(* What a caller of server/http.New relies on, and nothing more: while the *)
(* server is open it admits requests; once it drains it admits none and    *)
(* those in flight can only finish; it stops with the outcome "nil" only   *)
(* when nothing is in flight, and may stop with an error at any moment.    *)
(* GracefulShutdown is shown to implement this contract.                   *)
(***************************************************************************)
CONSTANT Requests          \* identities of HTTP requests

VARIABLES
  phase,                   \* "open", "draining" or "stopped"
  active,                  \* requests being handled
  outcome                  \* what New returned: "none" until it returns

vars == <<phase, active, outcome>>

Init ==
  /\ phase = "open"
  /\ active = {}
  /\ outcome = "none"

Admit(r) ==
  /\ phase = "open"
  /\ active' = active \cup {r}
  /\ UNCHANGED <<phase, outcome>>

Finish(r) ==
  /\ active' = active \ {r}
  /\ UNCHANGED <<phase, outcome>>

StartDrain ==
  /\ phase = "open"
  /\ phase' = "draining"
  /\ UNCHANGED <<active, outcome>>

StopClean ==
  /\ phase = "draining"
  /\ active = {}
  /\ phase' = "stopped"
  /\ outcome' = "nil"
  /\ UNCHANGED active

StopWithError ==
  /\ phase # "stopped"
  /\ phase' = "stopped"
  /\ outcome' = "error"
  /\ UNCHANGED active

Next ==
  \/ \E r \in Requests : Admit(r) \/ Finish(r)
  \/ StartDrain
  \/ StopClean
  \/ StopWithError

Spec == Init /\ [][Next]_vars
=============================================================================
