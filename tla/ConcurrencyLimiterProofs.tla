--------------------- MODULE ConcurrencyLimiterProofs ---------------------
(***************************************************************************)
(* Theorems about ConcurrencyLimiter, for every finite set of requests and *)
(* every limit.                                                            *)
(***************************************************************************)
EXTENDS ConcurrencyLimiter, FiniteSetTheorems, TLAPS

(***************************************************************************)
(* The inductive invariant.  The limit itself is not inductive: the step   *)
(* that could break it is Increment, and there one needs that the counter  *)
(* still differs from maxRequest, which is what the check established and  *)
(* the mutex protects until the increment.                                 *)
(***************************************************************************)
NotFullWhenAdmitting ==
  \A r \in Requests : pc[r] = "incr" => maxConcurrentRequest # maxRequest

FullWhenRejecting ==
  \A r \in Requests : pc[r] = "reject" => maxConcurrentRequest = maxRequest

NeverOverLimit == maxRequest >= 0 => maxConcurrentRequest <= maxRequest

IInv ==
  /\ TypeOK
  /\ SlotsAccounted
  /\ NotFullWhenAdmitting
  /\ FullWhenRejecting
  /\ NeverOverLimit

HoldingPCs == {"admit", "serving", "exit", "decr"}

\* Holding is a finite set, so its size is a natural number.
LEMMA HoldingFinite ==
  /\ IsFiniteSet(Holding)
  /\ Cardinality(Holding) \in Nat
BY FS_Subset, FS_CardinalityType, RequestsAssumption DEF Holding

LEMMA HoldingGrows ==
  ASSUME NEW r \in Requests, TypeOK, pc[r] \notin HoldingPCs,
         NEW to \in HoldingPCs, pc' = [pc EXCEPT ![r] = to]
  PROVE  Cardinality(Holding') = Cardinality(Holding) + 1
<1>1. Holding' = Holding \cup {r}
  BY DEF Holding, HoldingPCs, TypeOK
<1>2. r \notin Holding
  BY DEF Holding, HoldingPCs
<1>3. QED
  BY <1>1, <1>2, HoldingFinite, FS_AddElement

LEMMA HoldingShrinks ==
  ASSUME NEW r \in Requests, TypeOK, pc[r] \in HoldingPCs,
         NEW to \in {"release"}, pc' = [pc EXCEPT ![r] = to]
  PROVE  Cardinality(Holding') = Cardinality(Holding) - 1
<1>1. Holding' = Holding \ {r}
  BY DEF Holding, HoldingPCs, TypeOK
<1>2. r \in Holding
  BY DEF Holding, HoldingPCs
<1>3. QED
  BY <1>1, <1>2, HoldingFinite, FS_RemoveElement

\* A step that stays inside or outside the counted region keeps the set.
LEMMA HoldingStays ==
  ASSUME NEW r \in Requests, TypeOK, NEW to \in Outside \cup Critical,
         pc[r] \in HoldingPCs <=> to \in HoldingPCs,
         pc' = [pc EXCEPT ![r] = to]
  PROVE  Holding' = Holding
BY DEF Holding, HoldingPCs, TypeOK

LEMMA InitEstablishes == Init => IInv
<1> SUFFICES ASSUME Init
             PROVE  IInv
  OBVIOUS
<1>1. TypeOK
  BY DEF Init, TypeOK, Outside, Critical
<1>2. Holding = {}
  BY DEF Init, Holding
<1>3. SlotsAccounted
  BY <1>2, FS_EmptySet DEF Init, SlotsAccounted
<1>4. QED
  BY <1>1, <1>3 DEF Init, IInv, NotFullWhenAdmitting, FullWhenRejecting,
                    NeverOverLimit

\* Every step keeps the types and the mutual exclusion mut provides.
LEMMA TypeStep ==
  ASSUME TypeOK, SlotsAccounted, NEW r \in Requests,
         Arrive(r) \/ Acquire(r) \/ Proceed(r)
  PROVE  TypeOK'
<1> USE DEF TypeOK, Goto, Outside, Critical
<1>1. CASE Arrive(r)
  BY <1>1 DEF Arrive
<1>2. CASE LockEntry(r)
  BY <1>2 DEF LockEntry
<1>3. CASE LockExit(r)
  BY <1>3 DEF LockExit
<1>4. CASE Check(r)
  BY <1>4 DEF Check
<1>5. CASE Reject(r)
  BY <1>5 DEF Reject
<1>6. CASE Increment(r)
  BY <1>6 DEF Increment
<1>7. CASE UnlockEntry(r)
  BY <1>7 DEF UnlockEntry
<1>8. CASE HandlerEnds(r)
  BY <1>8 DEF HandlerEnds
<1>9. CASE Decrement(r)
  <2>1. r \in Holding
    BY <1>9 DEF Decrement, Holding
  <2>2. Cardinality(Holding) # 0
    BY <2>1, HoldingFinite, FS_EmptySet
  <2>3. maxConcurrentRequest' \in Nat
    BY <1>9, <2>2, HoldingFinite DEF Decrement, SlotsAccounted
  <2>4. QED
    BY <1>9, <2>3 DEF Decrement
<1>10. CASE UnlockExit(r)
  BY <1>10 DEF UnlockExit
<1>11. QED
  BY <1>1, <1>2, <1>3, <1>4, <1>5, <1>6, <1>7, <1>8, <1>9, <1>10
  DEF Acquire, Proceed

\* Every step moves the counter exactly as it moves Holding.
LEMMA SlotsStep ==
  ASSUME TypeOK, SlotsAccounted, NEW r \in Requests,
         Arrive(r) \/ Acquire(r) \/ Proceed(r)
  PROVE  SlotsAccounted'
<1> USE DEF SlotsAccounted, Goto, HoldingPCs, Outside, Critical
<1>1. CASE Increment(r)
  BY <1>1, HoldingGrows, HoldingFinite DEF Increment
<1>2. CASE Decrement(r)
  BY <1>2, HoldingShrinks, HoldingFinite DEF Decrement
<1>3. CASE Check(r)
  <2>1. PICK to \in {"reject", "incr"} : pc' = [pc EXCEPT ![r] = to]
    BY <1>3 DEF Check
  <2>2. Holding' = Holding
    BY <1>3, <2>1, HoldingStays DEF Check
  <2>3. QED
    BY <1>3, <2>2 DEF Check
<1>4. CASE Arrive(r) \/ LockEntry(r) \/ Reject(r) \/ UnlockExit(r)
  <2>1. Holding' = Holding
    BY <1>4, HoldingStays DEF Arrive, LockEntry, Reject, UnlockExit
  <2>2. QED
    BY <1>4, <2>1 DEF Arrive, LockEntry, Reject, UnlockExit
<1>5. CASE UnlockEntry(r) \/ HandlerEnds(r) \/ LockExit(r)
  <2>1. Holding' = Holding
    BY <1>5, HoldingStays DEF UnlockEntry, HandlerEnds, LockExit
  <2>2. QED
    BY <1>5, <2>1 DEF UnlockEntry, HandlerEnds, LockExit
<1>6. QED
  BY <1>1, <1>2, <1>3, <1>4, <1>5 DEF Acquire, Proceed

\* What the check found stays true until the mutex is released.
LEMMA DecisionStep ==
  ASSUME IInv, NEW r \in Requests,
         Arrive(r) \/ Acquire(r) \/ Proceed(r)
  PROVE  NotFullWhenAdmitting' /\ FullWhenRejecting' /\ NeverOverLimit'
<1> USE DEF IInv, TypeOK, NotFullWhenAdmitting, FullWhenRejecting,
            NeverOverLimit, Goto
<1>1. CASE Increment(r)
  <2>1. \A q \in Requests \ {r} : pc[q] \notin Critical /\ pc'[q] = pc[q]
    BY <1>1 DEF Increment, Critical
  <2>2. pc'[r] = "admit"
    BY <1>1 DEF Increment
  <2>3. \A q \in Requests : pc'[q] \notin {"incr", "reject"}
    BY <2>1, <2>2 DEF Critical
  <2>4. maxRequest \in Int /\ maxConcurrentRequest # maxRequest
    BY <1>1, LimitsAssumption DEF Increment
  <2>5. QED
    BY <1>1, <2>3, <2>4 DEF Increment
<1>2. CASE Decrement(r)
  <2>1. \A q \in Requests \ {r} : pc[q] \notin Critical /\ pc'[q] = pc[q]
    BY <1>2 DEF Decrement, Critical
  <2>2. pc'[r] = "release"
    BY <1>2 DEF Decrement
  <2>3. \A q \in Requests : pc'[q] \notin {"incr", "reject"}
    BY <2>1, <2>2 DEF Critical
  <2>4. maxRequest \in Int
    BY LimitsAssumption
  <2>5. QED
    BY <1>2, <2>3, <2>4 DEF Decrement
<1>3. CASE Check(r)
  BY <1>3 DEF Check
<1>4. CASE \/ Arrive(r) \/ LockEntry(r) \/ LockExit(r) \/ Reject(r)
           \/ UnlockEntry(r) \/ HandlerEnds(r) \/ UnlockExit(r)
  BY <1>4 DEF Arrive, LockEntry, LockExit, Reject, UnlockEntry, HandlerEnds,
              UnlockExit
<1>5. QED
  BY <1>1, <1>2, <1>3, <1>4 DEF Acquire, Proceed

LEMMA Invariance == Spec => []IInv
<1>1. Init => IInv
  BY InitEstablishes
<1>2. IInv /\ [Next]_vars => IInv'
  <2> SUFFICES ASSUME IInv, [Next]_vars
               PROVE  IInv'
    OBVIOUS
  <2>1. ASSUME NEW r \in Requests, Arrive(r) \/ Acquire(r) \/ Proceed(r)
        PROVE  IInv'
    BY <2>1, TypeStep, SlotsStep, DecisionStep DEF IInv
  <2>2. CASE UNCHANGED vars
    BY <2>2 DEF vars, IInv, TypeOK, SlotsAccounted, Holding,
                NotFullWhenAdmitting, FullWhenRejecting, NeverOverLimit
  <2>3. QED
    BY <2>1, <2>2 DEF Next
<1>3. QED
  BY <1>1, <1>2, PTL DEF Spec

\* At most one request is in a critical section, and the counter never goes
\* negative.
THEOREM TypeCorrect == Spec => []TypeOK
<1>1. IInv => TypeOK
  BY DEF IInv
<1>2. QED
  BY <1>1, Invariance, PTL

\* The counter is the number of requests that hold a place
\* (rate-limit.go:40, 45).
THEOREM CounterIsAccurate == Spec => []SlotsAccounted
<1>1. IInv => SlotsAccounted
  BY DEF IInv
<1>2. QED
  BY <1>1, Invariance, PTL

\* For every non-negative limit no more handlers run than it allows
\* (rate-limit.go:32-41, 50).
THEOREM LimitHolds == Spec => []LimitRespected
<1>1. IInv => LimitRespected
  <2> SUFFICES ASSUME IInv, maxRequest >= 0
               PROVE  Cardinality({r \in Requests : pc[r] = "serving"})
                        <= maxRequest
    BY DEF LimitRespected
  <2> DEFINE Serving == {r \in Requests : pc[r] = "serving"}
  <2>1. Serving \subseteq Holding
    BY DEF Holding
  <2>2. Cardinality(Serving) <= Cardinality(Holding)
    BY <2>1, HoldingFinite, FS_Subset
  <2>3. Cardinality(Holding) <= maxRequest
    BY DEF IInv, SlotsAccounted, NeverOverLimit
  <2>4. Cardinality(Serving) \in Nat /\ maxRequest \in Int
    BY <2>1, HoldingFinite, FS_Subset, FS_CardinalityType, LimitsAssumption
    DEF IInv, TypeOK
  <2>5. QED
    BY <2>2, <2>3, <2>4, HoldingFinite
<1>2. QED
  BY <1>1, Invariance, PTL

\* A request is refused only when every place is taken (rate-limit.go:34).
THEOREM RejectsOnlyWhenFull == Spec => []NoSpuriousReject
<1>1. IInv => NoSpuriousReject
  BY DEF IInv, SlotsAccounted, FullWhenRejecting, NoSpuriousReject
<1>2. QED
  BY <1>1, Invariance, PTL

(***************************************************************************)
(* The refinement.  A request enters at its increment and leaves at its    *)
(* decrement; it is refused at the check.                                  *)
(***************************************************************************)

\* Those the contract sees inside are those that hold a place.
LEMMA InsideIsHolding == Admission!Inside = Holding
BY DEF Admission!Inside, AdmissionStatus, StatusAt, Holding

\* The contract counts them with its own copy of Cardinality.
LEMMA SameCardinality ==
  ASSUME NEW S
  PROVE  Admission!Cardinality(S) = Cardinality(S)
BY DEF Admission!Cardinality, Cardinality

LEMMA StatusMoves ==
  ASSUME NEW r \in Requests, TypeOK, NEW from, NEW to, Goto(r, from, to),
         UNCHANGED maxRequest
  PROVE  Admission!Move(r, StatusAt(from), StatusAt(to))
<1>1. pc' = [pc EXCEPT ![r] = to] /\ pc[r] = from
  BY DEF Goto
<1>2. AdmissionStatus[r] = StatusAt(from)
  BY <1>1 DEF AdmissionStatus
<1>3. \A q \in Requests : pc'[q] = IF q = r THEN to ELSE pc[q]
  BY <1>1 DEF TypeOK
<1>4. AdmissionStatus' = [q \in Requests |-> StatusAt(pc'[q])]
  BY DEF AdmissionStatus
<1>5. AdmissionStatus' = [AdmissionStatus EXCEPT ![r] = StatusAt(to)]
  BY <1>3, <1>4 DEF AdmissionStatus
<1>6. QED
  BY <1>2, <1>5 DEF Admission!Move

\* A step between two places the contract does not tell apart is a stutter.
LEMMA StatusStutters ==
  ASSUME NEW r \in Requests, TypeOK, NEW from, NEW to, Goto(r, from, to),
         StatusAt(from) = StatusAt(to), UNCHANGED maxRequest
  PROVE  UNCHANGED Admission!vars
<1>1. \A q \in Requests : pc'[q] = IF q = r THEN to ELSE pc[q]
  BY DEF Goto, TypeOK
<1>2. \A q \in Requests : StatusAt(pc'[q]) = StatusAt(pc[q])
  BY <1>1 DEF Goto
<1>3. AdmissionStatus' = AdmissionStatus
  BY <1>2 DEF AdmissionStatus
<1>4. QED
  BY <1>3 DEF Admission!vars

\* Check and increment, although two steps, decide admission atomically:
\* every behaviour of the middleware is one AdmissionControl allows.
THEOREM Refinement == Spec => ImplementsAdmissionControl
<1>1. Init => Admission!Init
  BY DEF Init, Admission!Init, AdmissionStatus, StatusAt
<1>2. IInv /\ [Next]_vars => [Admission!Next]_(Admission!vars)
  <2> SUFFICES ASSUME IInv, [Next]_vars
               PROVE  [Admission!Next]_(Admission!vars)
    OBVIOUS
  <2>1. CASE UNCHANGED vars
    BY <2>1 DEF vars, Admission!vars, AdmissionStatus
  <2>2. ASSUME NEW r \in Requests, Arrive(r) \/ Acquire(r) \/ Proceed(r)
        PROVE  [Admission!Next]_(Admission!vars)
    <3> USE DEF IInv
    <3>1. CASE Arrive(r)
      <4>1. Admission!Move(r, StatusAt("idle"), StatusAt("enter"))
        BY <3>1, StatusMoves DEF Arrive
      <4>2. Admission!Ask(r)
        BY <4>1 DEF Admission!Ask, StatusAt
      <4>3. QED
        BY <4>2 DEF Admission!Next
    <3>2. CASE LockEntry(r)
      BY <3>2, StatusStutters DEF LockEntry, StatusAt
    <3>3. CASE LockExit(r)
      BY <3>3, StatusStutters DEF LockExit, StatusAt
    <3>4. CASE Check(r) /\ maxConcurrentRequest = maxRequest
      <4>1. Admission!Move(r, StatusAt("check"), StatusAt("reject"))
        BY <3>4, StatusMoves DEF Check
      <4>2. Admission!Full
        BY <3>4, InsideIsHolding, SameCardinality
        DEF Admission!Full, SlotsAccounted
      <4>3. Admission!Refuse(r)
        BY <4>1, <4>2 DEF Admission!Refuse, StatusAt
      <4>4. QED
        BY <4>3 DEF Admission!Next
    <3>5. CASE Check(r) /\ maxConcurrentRequest # maxRequest
      <4>1. Goto(r, "check", "incr") /\ UNCHANGED maxRequest
        BY <3>5 DEF Check
      <4>2. QED
        BY <4>1, StatusStutters DEF StatusAt
    <3>6. CASE Reject(r)
      <4>1. Admission!Move(r, StatusAt("reject"), StatusAt("idle"))
        BY <3>6, StatusMoves DEF Reject
      <4>2. Admission!Leave(r)
        BY <4>1 DEF Admission!Leave, StatusAt
      <4>3. QED
        BY <4>2 DEF Admission!Next
    <3>7. CASE Increment(r)
      <4>1. Admission!Move(r, StatusAt("incr"), StatusAt("admit"))
        BY <3>7, StatusMoves DEF Increment
      <4>2. ~Admission!Full
        BY <3>7, InsideIsHolding, SameCardinality
        DEF Admission!Full, SlotsAccounted, NotFullWhenAdmitting, Increment,
            Goto
      <4>3. Admission!Admit(r)
        BY <4>1, <4>2 DEF Admission!Admit, StatusAt
      <4>4. QED
        BY <4>3 DEF Admission!Next
    <3>8. CASE UnlockEntry(r)
      BY <3>8, StatusStutters DEF UnlockEntry, StatusAt
    <3>9. CASE HandlerEnds(r)
      BY <3>9, StatusStutters DEF HandlerEnds, StatusAt
    <3>10. CASE Decrement(r)
      <4>1. Admission!Move(r, StatusAt("decr"), StatusAt("release"))
        BY <3>10, StatusMoves DEF Decrement
      <4>2. Admission!Leave(r)
        BY <4>1 DEF Admission!Leave, StatusAt
      <4>3. QED
        BY <4>2 DEF Admission!Next
    <3>11. CASE UnlockExit(r)
      BY <3>11, StatusStutters DEF UnlockExit, StatusAt
    <3>12. QED
      BY <2>2, <3>1, <3>2, <3>3, <3>4, <3>5, <3>6, <3>7, <3>8, <3>9, <3>10,
         <3>11 DEF Acquire, Proceed
  <2>3. QED
    BY <2>1, <2>2 DEF Next
<1>3. QED
  BY <1>1, <1>2, Invariance, PTL DEF Spec, Admission!Spec,
     ImplementsAdmissionControl
=============================================================================
