------------------------- MODULE AdmissionControl -------------------------
(***************************************************************************)
(* What a limit on concurrent requests promises: a request that asks gets  *)
(* in unless the limit is reached at that moment, is refused only if it    *)
(* is, and gives its place back when it leaves.  A negative limit admits   *)
(* everything.  ConcurrencyLimiter is shown to implement this contract.    *)
(***************************************************************************)
EXTENDS Integers, FiniteSets

CONSTANTS
  Requests,     \* identities of requests
  Limits        \* the values the limit is chosen from

VARIABLES
  limit,        \* how many requests may be inside at once
  status        \* status[r]: "out", "asking", "inside" or "refused"

vars == <<limit, status>>

Inside == {r \in Requests : status[r] = "inside"}
Full   == Cardinality(Inside) = limit

Init ==
  /\ limit \in Limits
  /\ status = [r \in Requests |-> "out"]

Move(r, from, to) ==
  /\ status[r] = from
  /\ status' = [status EXCEPT ![r] = to]
  /\ UNCHANGED limit

Ask(r)      == Move(r, "out", "asking")
Admit(r)    == ~Full /\ Move(r, "asking", "inside")
Refuse(r)   == Full /\ Move(r, "asking", "refused")
Leave(r)    == Move(r, "inside", "out") \/ Move(r, "refused", "out")

Next == \E r \in Requests : Ask(r) \/ Admit(r) \/ Refuse(r) \/ Leave(r)

Spec == Init /\ [][Next]_vars
=============================================================================
