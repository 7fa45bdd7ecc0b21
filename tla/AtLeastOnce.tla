---------------------------- MODULE AtLeastOnce ----------------------------
(***************************************************************************)
(* What a queue promises its users: a message is processed only after it   *)
(* was accepted, perhaps several times, and disappears only after it was   *)
(* processed.  SqsQueue is shown to implement this contract.               *)
(***************************************************************************)
CONSTANT Messages

VARIABLES
  status,      \* status[m]: "new", "accepted" or "deleted"
  processed    \* messages a worker has processed

vars == <<status, processed>>

Init ==
  /\ status = [m \in Messages |-> "new"]
  /\ processed = {}

Accept(m) ==
  /\ status[m] = "new"
  /\ status' = [status EXCEPT ![m] = "accepted"]
  /\ UNCHANGED processed

Process(m) ==
  /\ status[m] # "new"
  /\ processed' = processed \cup {m}
  /\ UNCHANGED status

Delete(m) ==
  /\ m \in processed
  /\ status' = [status EXCEPT ![m] = "deleted"]
  /\ UNCHANGED processed

Next == \E m \in Messages : Accept(m) \/ Process(m) \/ Delete(m)

Spec == Init /\ [][Next]_vars
=============================================================================
