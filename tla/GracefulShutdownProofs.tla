---------------------- MODULE GracefulShutdownProofs ----------------------
(***************************************************************************)
(* Theorems about GracefulShutdown, for every set of requests and tasks    *)
(* and every bound on signals.                                             *)
(***************************************************************************)
EXTENDS GracefulShutdown, TLAPS

(***************************************************************************)
(* The inductive invariant.  NilMeansCleanStop alone is not inductive: the *)
(* step that makes it interesting is DeliverNil, and there one must know   *)
(* that a caller still waiting cannot have been sent an error before.      *)
(***************************************************************************)
BeforeReturn == {"boot", "listen", "binding", "serving", "awaiting"}
AfterSignal  == {"closing", "polling", "sendErr", "wgWait", "sendNil",
                 "exited"}

\* New has not returned while its caller is inside it, and when it returned
\* nil its goroutine is done.
CallerInside ==
  /\ pc \in BeforeReturn => ret = "none"
  /\ ret = "nil" => sig = "exited"
  /\ pc = "boot" => sig = "unborn"

\* What the signal goroutine knows at each of its steps.
GoroutineKnows ==
  /\ sig \in AfterSignal => inShutdown
  /\ sig = "sendErr" => shutdownResult = "err"
  /\ sig = "sendNil" => wgCopy = {}

\* Past its first send, the goroutine either saw Shutdown succeed or has
\* already delivered the error (or the caller left or died before).
NilAfterErrorIsLate ==
  sig \in {"wgWait", "sendNil"} =>
     \/ shutdownResult = "nil"
     \/ shutdownResult = "err" /\ pc \in {"returned", "killed"}

\* A successful Shutdown leaves nothing behind and nothing new comes in.
DrainedForGood == shutdownResult = "nil" => active = {} /\ inShutdown

\* The CA was loaded exactly when its file could be read.
CALoadedFromFile ==
  pc \in {"listen", "binding", "serving"} =>
     (caLoaded <=> secure /\ certReadable)

\* An instance that serves read its certificate.
ServingReadCert == pc = "serving" => (secure => certReadable)

IInv ==
  /\ TypeOK
  /\ CallerInside
  /\ GoroutineKnows
  /\ NilAfterErrorIsLate
  /\ DrainedForGood
  /\ CALoadedFromFile
  /\ ServingReadCert
  /\ NilMeansCleanStop

\* The invariant holds when the process starts.
LEMMA InitEstablishes == Init => IInv
<1> SUFFICES ASSUME Init
             PROVE  IInv
  OBVIOUS
<1>1. TypeOK
  <2>1. /\ pc \in PCs /\ sig \in Sigs
        /\ quit \in 0..1 /\ signals \in 0..MaxSignals
    BY MaxSignalsAssumption DEF Init, PCs, Sigs
  <2>2. /\ secure \in BOOLEAN /\ certReadable \in BOOLEAN
        /\ caLoaded \in BOOLEAN /\ inShutdown \in BOOLEAN
    BY DEF Init
  <2>3. QED
    BY <2>1, <2>2 DEF Init, TypeOK
<1>2. CallerInside /\ GoroutineKnows /\ NilAfterErrorIsLate
  BY DEF Init, CallerInside, GoroutineKnows, NilAfterErrorIsLate, AfterSignal
<1>3. DrainedForGood /\ NilMeansCleanStop
  BY DEF Init, DrainedForGood, NilMeansCleanStop
<1>4. CALoadedFromFile /\ ServingReadCert
  BY DEF Init, CALoadedFromFile, ServingReadCert
<1>5. QED
  BY <1>1, <1>2, <1>3, <1>4 DEF IInv

\* Every step, of any goroutine or of the environment, keeps the types.
LEMMA TypeStep == TypeOK /\ [Next]_vars => TypeOK'
<1> SUFFICES ASSUME TypeOK, [Next]_vars
             PROVE  TypeOK'
  OBVIOUS
<1> USE MaxSignalsAssumption DEF TypeOK, PCs, Sigs, Alive, serverVars, taskVars
<1>1. CASE New
  BY <1>1 DEF New
<1>2. CASE StartListening \/ ListenBinds \/ ListenFails \/ ListenClosed
  BY <1>2 DEF StartListening, ListenBinds, ListenFails, ListenClosed
<1>3. CASE SignalGoroutine
  <2>1. CASE InstallNotify \/ StartPolling \/ WaitReturns
    BY <2>1 DEF InstallNotify, StartPolling, WaitReturns
  <2>2. CASE TakeSignal
    BY <2>2 DEF TakeSignal
  <2>3. CASE ShutdownSucceeds \/ ShutdownFails
    BY <2>3 DEF ShutdownSucceeds, ShutdownFails
  <2>4. CASE DeliverError \/ DeliverNil
    BY <2>4 DEF DeliverError, DeliverNil
  <2>5. QED
    BY <1>3, <2>1, <2>2, <2>3, <2>4 DEF SignalGoroutine
<1>4. CASE Signal
  BY <1>4 DEF Signal
<1>5. ASSUME NEW r \in Requests, AcceptRequest(r) \/ FinishRequest(r)
      PROVE  TypeOK'
  BY <1>5 DEF AcceptRequest, FinishRequest
<1>6. ASSUME NEW t \in OwnTasks, StartOwnTask(t) \/ FinishOwnTask(t)
      PROVE  TypeOK'
  BY <1>6 DEF StartOwnTask, FinishOwnTask
<1>7. ASSUME NEW t \in HelperTasks,
             RunInTheBackground(t) \/ BackgroundTaskEnds(t)
      PROVE  TypeOK'
  BY <1>7 DEF RunInTheBackground, BackgroundTaskEnds
<1>8. ASSUME NEW p \in Periodics,
             \/ BackgroundProcess(p)
             \/ MinutePasses(p)
             \/ PeriodicReturns(p)
             \/ PeriodicPanics(p)
      PROVE  TypeOK'
  BY <1>8 DEF BackgroundProcess, MinutePasses, PeriodicReturns,
              PeriodicPanics, Periodic
<1>9. CASE UNCHANGED vars
  BY <1>9 DEF vars
<1>10. QED
  BY <1>1, <1>2, <1>3, <1>4, <1>5, <1>6, <1>7, <1>8, <1>9
  DEF Next, Caller, Environment

\* The inductive step.
LEMMA NextPreserves == IInv /\ [Next]_vars => IInv'
<1> SUFFICES ASSUME IInv, [Next]_vars
             PROVE  IInv'
  OBVIOUS
<1>0. TypeOK'
  BY TypeStep DEF IInv
<1> USE <1>0
    DEF IInv, TypeOK, CallerInside, GoroutineKnows, NilAfterErrorIsLate,
        DrainedForGood, CALoadedFromFile, ServingReadCert, NilMeansCleanStop,
        BeforeReturn, AfterSignal, PCs, Sigs, Alive, serverVars, taskVars
<1>1. CASE New
  BY <1>1 DEF New
<1>2. CASE StartListening
  BY <1>2 DEF StartListening
<1>3. CASE ListenBinds
  BY <1>3 DEF ListenBinds
<1>4. CASE ListenFails
  BY <1>4 DEF ListenFails
<1>5. CASE ListenClosed
  BY <1>5 DEF ListenClosed
<1>6. CASE InstallNotify
  BY <1>6 DEF InstallNotify
<1>7. CASE TakeSignal
  BY <1>7 DEF TakeSignal
<1>8. CASE StartPolling
  BY <1>8 DEF StartPolling
<1>9. CASE ShutdownSucceeds
  BY <1>9 DEF ShutdownSucceeds
<1>10. CASE ShutdownFails
  BY <1>10 DEF ShutdownFails
<1>11. CASE WaitReturns
  BY <1>11 DEF WaitReturns
<1>12. CASE DeliverError
  BY <1>12 DEF DeliverError
<1>13. CASE DeliverNil
  BY <1>13 DEF DeliverNil
<1>14. CASE Signal
  BY <1>14 DEF Signal
<1>15. ASSUME NEW r \in Requests, AcceptRequest(r)
       PROVE  IInv'
  BY <1>15 DEF AcceptRequest
<1>16. ASSUME NEW r \in Requests, FinishRequest(r)
       PROVE  IInv'
  BY <1>16 DEF FinishRequest
<1>17. ASSUME NEW t \in OwnTasks, StartOwnTask(t) \/ FinishOwnTask(t)
       PROVE  IInv'
  BY <1>17 DEF StartOwnTask, FinishOwnTask
<1>18. ASSUME NEW t \in HelperTasks,
              RunInTheBackground(t) \/ BackgroundTaskEnds(t)
       PROVE  IInv'
  BY <1>18 DEF RunInTheBackground, BackgroundTaskEnds
<1>19. ASSUME NEW p \in Periodics,
              \/ BackgroundProcess(p)
              \/ MinutePasses(p)
              \/ PeriodicReturns(p)
       PROVE  IInv'
  BY <1>19 DEF BackgroundProcess, MinutePasses, PeriodicReturns, Periodic
<1>20. ASSUME NEW p \in Periodics, PeriodicPanics(p)
       PROVE  IInv'
  BY <1>20 DEF PeriodicPanics, Periodic
<1>21. CASE UNCHANGED vars
  BY <1>21 DEF vars
<1>22. QED
  BY <1>1, <1>2, <1>3, <1>4, <1>5, <1>6, <1>7, <1>8, <1>9, <1>10, <1>11,
     <1>12, <1>13, <1>14, <1>15, <1>16, <1>17, <1>18, <1>19, <1>20,
     <1>21
  DEF Next, Caller, SignalGoroutine, Environment

LEMMA Invariance == Spec => []IInv
<1>1. Init => IInv
  BY InitEstablishes
<1>2. IInv /\ [Next]_vars => IInv'
  BY NextPreserves
<1>3. QED
  BY <1>1, <1>2, PTL DEF Spec

\* Every variable keeps its type; quit never holds more than one signal.
THEOREM TypeCorrect == Spec => []TypeOK
<1>1. IInv => TypeOK
  BY DEF IInv
<1>2. QED
  BY <1>1, Invariance, PTL

\* New returns nil only after a drain that left no request in flight
\* (http.go:55-63, 72-82).
THEOREM NilIsClean == Spec => []NilMeansCleanStop
<1>1. IInv => NilMeansCleanStop
  BY DEF IInv
<1>2. QED
  BY <1>1, Invariance, PTL

\* A mutual-TLS server that serves has the CA it verifies clients against
\* (http.go:89-94, 145).
THEOREM ServingHasCA == Spec => []MutualTLSHasCA
<1>1. IInv => MutualTLSHasCA
  BY DEF IInv, CALoadedFromFile, ServingReadCert, MutualTLSHasCA
<1>2. QED
  BY <1>1, Invariance, PTL

\* Every behaviour of New, NewmTLS and their environment is one the drain
\* contract allows.
THEOREM Refinement == Spec => ImplementsDrainContract
<1>1. Init => Drain!Init
  BY DEF Init, Drain!Init
<1>2. IInv /\ [Next]_vars => [Drain!Next]_(Drain!vars)
  <2> SUFFICES ASSUME IInv, [Next]_vars
               PROVE  [Drain!Next]_(Drain!vars)
    OBVIOUS
  <2> USE DEF Drain!vars
  <2>0. /\ pc \in BeforeReturn => ret = "none"
        /\ sig = "sendNil" => inShutdown
        /\ pc = "awaiting" /\ sig = "sendNil" => active = {}
    BY DEF IInv, CallerInside, GoroutineKnows, NilAfterErrorIsLate,
           DrainedForGood, AfterSignal
  <2>1. CASE UNCHANGED <<ret, inShutdown, active>>
    BY <2>1
  <2>2. CASE ListenFails
    BY <2>0, <2>2 DEF ListenFails, Drain!Next, Drain!StopWithError,
                      BeforeReturn
  <2>3. CASE TakeSignal
    BY <2>3 DEF TakeSignal, Drain!Next, Drain!StartDrain
  <2>4. CASE DeliverError
    BY <2>0, <2>4 DEF DeliverError, Drain!Next, Drain!StopWithError,
                      BeforeReturn
  <2>5. CASE DeliverNil
    BY <2>0, <2>5 DEF DeliverNil, Drain!Next, Drain!StopClean, BeforeReturn
  <2>6. ASSUME NEW r \in Requests, AcceptRequest(r)
        PROVE  Drain!Next
    BY <2>0, <2>6 DEF AcceptRequest, Drain!Next, Drain!Admit, BeforeReturn
  <2>7. ASSUME NEW r \in Requests, FinishRequest(r)
        PROVE  Drain!Next
    BY <2>7 DEF FinishRequest, Drain!Next, Drain!Finish
  <2>8. CASE \/ New \/ StartListening \/ ListenBinds \/ ListenClosed
             \/ InstallNotify \/ StartPolling \/ ShutdownSucceeds
             \/ ShutdownFails \/ WaitReturns \/ Signal
             \/ \E t \in OwnTasks : StartOwnTask(t) \/ FinishOwnTask(t)
             \/ \E t \in HelperTasks :
                  RunInTheBackground(t) \/ BackgroundTaskEnds(t)
             \/ \E p \in Periodics :
                  \/ BackgroundProcess(p) \/ MinutePasses(p)
                  \/ PeriodicReturns(p) \/ PeriodicPanics(p)
             \/ UNCHANGED vars
    BY <2>1, <2>8
    DEF New, StartListening, ListenBinds, ListenClosed, InstallNotify,
        StartPolling, ShutdownSucceeds, ShutdownFails, WaitReturns, Signal,
        StartOwnTask, FinishOwnTask, RunInTheBackground, BackgroundTaskEnds,
        BackgroundProcess, MinutePasses, PeriodicReturns, PeriodicPanics,
        Periodic, vars, serverVars, taskVars
  <2>9. QED
    BY <2>2, <2>3, <2>4, <2>5, <2>6, <2>7, <2>8
    DEF Next, Caller, SignalGoroutine, Environment
<1>3. QED
  BY <1>1, <1>2, Invariance, PTL DEF Spec, Drain!Spec,
     ImplementsDrainContract
=============================================================================
