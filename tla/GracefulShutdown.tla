------------------------- MODULE GracefulShutdown -------------------------
(***************************************************************************)
(* The life of a server started with New or NewmTLS (server/http/http.go), *)
(* together with the background tasks of the process around it             *)
(* (utils/concurrency-threads.go).                                         *)
(*                                                                         *)
(* Two goroutines share the http.Server, the channel shutDownError and the *)
(* parameter wg: the caller's (pc), which runs ListenAndServe and then     *)
(* receives from shutDownError, and the one New starts (sig), which waits  *)
(* for a signal, calls Shutdown and waits on wg.  wg is passed BY VALUE:   *)
(* New waits on a copy that no Done ever reaches.                          *)
(*                                                                         *)
(* A WaitGroup is the set of tasks that called Add and not yet Done; Wait  *)
(* returns when it is empty.  The same holds for its copy.                 *)
(***************************************************************************)
EXTENDS Naturals, FiniteSets

CONSTANTS
  Requests,      \* identities of HTTP requests the server may be handling
  OwnTasks,      \* goroutines counted by the WaitGroup the caller passes
  HelperTasks,   \* goroutines launched with utils.RunInTheBackground
  Periodics,     \* functions given to utils.BackgroundProcess
  MaxSignals     \* bound: SIGINT/SIGTERM delivered in one behaviour

ASSUME MaxSignalsAssumption == MaxSignals \in Nat

VARIABLES
  pc,             \* the goroutine that calls New or NewmTLS
  sig,            \* the goroutine New starts
  ret,            \* what New returned
  secure,         \* TRUE when NewmTLS was called
  certReadable,   \* the file mTLS_CERT_FILE_PATH can be read
  caLoaded,       \* NewmTLS put a CA certificate into the pool
  quit,           \* number of signals buffered in the channel quit
  signals,        \* signals delivered so far
  inShutdown,     \* http.Server: Shutdown has been called
  shutdownResult, \* what srv.Shutdown returned: "none", "nil" or "err"
  active,         \* http.Server: requests being handled
  wg,             \* the caller's WaitGroup
  wgCopy,         \* the parameter wg of New: the copy made at the call
  helperWg,       \* the package variable utils.wg
  periodic        \* each periodic function: "off", "asleep", "running"

serverVars == <<secure, certReadable, caLoaded>>
taskVars   == <<wg, helperWg, periodic>>
vars == <<pc, sig, ret, serverVars, quit, signals, inShutdown,
          shutdownResult, active, wgCopy, taskVars>>

PCs  == {"boot", "listen", "binding", "serving", "awaiting", "returned",
         "killed"}
Sigs == {"unborn", "notify", "waitSignal", "closing", "polling", "sendErr",
         "wgWait", "sendNil", "exited"}

Init ==
  /\ pc = "boot"
  /\ sig = "unborn"
  /\ ret = "none"
  /\ secure \in BOOLEAN
  /\ certReadable \in BOOLEAN
  /\ caLoaded = FALSE
  /\ quit = 0
  /\ signals = 0
  /\ inShutdown = FALSE
  /\ shutdownResult = "none"
  /\ active = {}
  /\ wg = {}
  /\ wgCopy = {}
  /\ helperWg = {}
  /\ periodic = [p \in Periodics |-> "off"]

Alive == pc # "killed"

-----------------------------------------------------------------------------
(***************************************************************************)
(* The goroutine that calls New.                                           *)
(***************************************************************************)

\* New and NewmTLS: copy wg into the parameter, build the http.Server and
\* start the signal goroutine.  NewmTLS first reads the CA file; an error
\* there is only logged and the pool stays empty.
New ==
  /\ pc = "boot"
  /\ pc' = "listen"
  /\ sig' = "notify"
  /\ wgCopy' = wg
  /\ caLoaded' = (secure /\ certReadable)
  /\ UNCHANGED <<ret, secure, certReadable, quit, signals, inShutdown,
                 shutdownResult, active, taskVars>>

\* ListenAndServe first looks whether Shutdown was already called ...
StartListening ==
  /\ pc = "listen"
  /\ ~inShutdown
  /\ pc' = "binding"
  /\ UNCHANGED <<sig, ret, serverVars, quit, signals, inShutdown,
                 shutdownResult, active, wgCopy, taskVars>>

\* ... then binds the port.  ListenAndServeTLS also reads the certificate,
\* from the file NewmTLS took the CA from, and fails when it cannot.
ListenBinds ==
  /\ pc = "binding"
  /\ secure => certReadable
  /\ pc' = "serving"
  /\ UNCHANGED <<sig, ret, serverVars, quit, signals, inShutdown,
                 shutdownResult, active, wgCopy, taskVars>>

\* ListenAndServe returns an error other than ErrServerClosed and New returns
\* it at once: the port is in use or the certificate unreadable (even when
\* Shutdown is called meanwhile), or Accept failed on an open server.
ListenFails ==
  /\ \/ pc = "binding"
     \/ pc = "serving" /\ ~inShutdown
  /\ pc' = "returned"
  /\ ret' = "listenErr"
  /\ UNCHANGED <<sig, serverVars, quit, signals, inShutdown,
                 shutdownResult, active, wgCopy, taskVars>>

\* Once Shutdown has been called ListenAndServe returns ErrServerClosed,
\* whether it was serving already or not, and New goes on to receive from
\* shutDownError.
ListenClosed ==
  /\ pc \in {"listen", "serving"}
  /\ inShutdown
  /\ pc' = "awaiting"
  /\ UNCHANGED <<sig, ret, serverVars, quit, signals, inShutdown,
                 shutdownResult, active, wgCopy, taskVars>>

-----------------------------------------------------------------------------
(***************************************************************************)
(* The goroutine New starts.                                               *)
(***************************************************************************)

\* signal.Notify(quit, SIGINT, SIGTERM)
InstallNotify ==
  /\ sig = "notify"
  /\ sig' = "waitSignal"
  /\ UNCHANGED <<pc, ret, serverVars, quit, signals, inShutdown,
                 shutdownResult, active, wgCopy, taskVars>>

\* Fault: the signal is taken and logged, and the server goes on serving.
TakeSignalOnly ==
  /\ sig = "waitSignal"
  /\ quit = 1
  /\ quit' = 0
  /\ sig' = "exited"
  /\ UNCHANGED <<pc, ret, serverVars, signals, inShutdown, shutdownResult,
                 active, wgCopy, taskVars>>

\* receivedSignal := <-quit, then the call of srv.Shutdown, which first
\* marks the server as shutting down and closes its listeners.
TakeSignal ==
  /\ sig = "waitSignal"
  /\ quit = 1
  /\ quit' = 0
  /\ inShutdown' = TRUE
  /\ sig' = "closing"
  /\ UNCHANGED <<pc, ret, serverVars, signals, shutdownResult, active,
                 wgCopy, taskVars>>

\* Shutdown found connections still active: it polls until they are idle
\* or its 5-second context expires.
StartPolling ==
  /\ sig = "closing"
  /\ active # {}
  /\ sig' = "polling"
  /\ UNCHANGED <<pc, ret, serverVars, quit, signals, inShutdown,
                 shutdownResult, active, wgCopy, taskVars>>

\* Fault: srv.Close in place of srv.Shutdown.
CloseSucceeds ==
  /\ sig = "closing"
  /\ shutdownResult' = "nil"
  /\ sig' = "wgWait"
  /\ UNCHANGED <<pc, ret, serverVars, quit, signals, inShutdown, active,
                 wgCopy, taskVars>>

\* Shutdown finds no active connection, at once or while it polls.
ShutdownSucceeds ==
  /\ sig \in {"closing", "polling"}
  /\ active = {}
  /\ shutdownResult' = "nil"
  /\ sig' = "wgWait"
  /\ UNCHANGED <<pc, ret, serverVars, quit, signals, inShutdown, active,
                 wgCopy, taskVars>>

\* The context expired while polling, or closing a listener failed (which
\* Shutdown reports when it finds the server idle).  The context may win
\* even though the last request has just finished.
ShutdownFails ==
  /\ \/ sig = "closing" /\ active = {}
     \/ sig = "polling"
  /\ shutdownResult' = "err"
  /\ sig' = "sendErr"
  /\ UNCHANGED <<pc, ret, serverVars, quit, signals, inShutdown, active,
                 wgCopy, taskVars>>

\* wg.Wait() on the copy.
WaitReturns ==
  /\ sig = "wgWait"
  /\ wgCopy = {}
  /\ sig' = "sendNil"
  /\ UNCHANGED <<pc, ret, serverVars, quit, signals, inShutdown,
                 shutdownResult, active, wgCopy, taskVars>>

\* Fault: what was received is not what is returned.
DeliverErrorAsNil ==
  /\ pc = "awaiting"
  /\ sig = "sendErr"
  /\ pc' = "returned"
  /\ ret' = "nil"
  /\ sig' = "wgWait"
  /\ UNCHANGED <<serverVars, quit, signals, inShutdown, shutdownResult,
                 active, wgCopy, taskVars>>

\* shutDownError is unbuffered: a send happens together with the receive.
\* After an error New returns, and the goroutine goes on to wg.Wait.
DeliverError ==
  /\ pc = "awaiting"
  /\ sig = "sendErr"
  /\ pc' = "returned"
  /\ ret' = "shutdownErr"
  /\ sig' = "wgWait"
  /\ UNCHANGED <<serverVars, quit, signals, inShutdown, shutdownResult,
                 active, wgCopy, taskVars>>

DeliverNil ==
  /\ pc = "awaiting"
  /\ sig = "sendNil"
  /\ pc' = "returned"
  /\ ret' = "nil"
  /\ sig' = "exited"
  /\ UNCHANGED <<serverVars, quit, signals, inShutdown, shutdownResult,
                 active, wgCopy, taskVars>>

-----------------------------------------------------------------------------
(***************************************************************************)
(* The environment: signals, requests and background tasks.                *)
(***************************************************************************)

\* Fault: quit has room for every signal.
SignalQueues ==
  /\ Alive
  /\ signals < MaxSignals
  /\ signals' = signals + 1
  /\ sig \notin {"unborn", "notify"}
  /\ quit' = quit + 1
  /\ UNCHANGED <<pc, sig, ret, serverVars, inShutdown, shutdownResult,
                 active, wgCopy, taskVars>>

\* A signal has its default disposition, which ends the process, until
\* Notify is installed.  Afterwards it is put in quit without blocking: the
\* buffer holds one and the rest are dropped.
Signal ==
  /\ Alive
  /\ signals < MaxSignals
  /\ signals' = signals + 1
  /\ IF sig \in {"unborn", "notify"}
     THEN pc' = "killed" /\ UNCHANGED quit
     ELSE quit' = 1 /\ UNCHANGED pc
  /\ UNCHANGED <<sig, ret, serverVars, inShutdown, shutdownResult, active,
                 wgCopy, taskVars>>

\* net/http accepts a connection; the request counts as active from here, as
\* Shutdown counts the connection, to the end of its handler.
AcceptRequest(r) ==
  /\ pc = "serving"
  /\ ~inShutdown
  /\ r \notin active
  /\ active' = active \cup {r}
  /\ UNCHANGED <<pc, sig, ret, serverVars, quit, signals, inShutdown,
                 shutdownResult, wgCopy, taskVars>>

FinishRequest(r) ==
  /\ Alive
  /\ r \in active
  /\ active' = active \ {r}
  /\ UNCHANGED <<pc, sig, ret, serverVars, quit, signals, inShutdown,
                 shutdownResult, wgCopy, taskVars>>

\* The application's own goroutines: Add and Done on its WaitGroup.
StartOwnTask(t) ==
  /\ Alive
  /\ t \notin wg
  /\ wg' = wg \cup {t}
  /\ UNCHANGED <<pc, sig, ret, serverVars, quit, signals, inShutdown,
                 shutdownResult, active, wgCopy, helperWg, periodic>>

FinishOwnTask(t) ==
  /\ Alive
  /\ t \in wg
  /\ wg' = wg \ {t}
  /\ UNCHANGED <<pc, sig, ret, serverVars, quit, signals, inShutdown,
                 shutdownResult, active, wgCopy, helperWg, periodic>>

\* RunInTheBackground: wg.Add(1), then the goroutine.
RunInTheBackground(t) ==
  /\ Alive
  /\ t \notin helperWg
  /\ helperWg' = helperWg \cup {t}
  /\ UNCHANGED <<pc, sig, ret, serverVars, quit, signals, inShutdown,
                 shutdownResult, active, wgCopy, wg, periodic>>

\* The goroutine of RunInTheBackground ends: fn returned, or it panicked and
\* the deferred function recovered; wg.Done runs after either.
BackgroundTaskEnds(t) ==
  /\ Alive
  /\ t \in helperWg
  /\ helperWg' = helperWg \ {t}
  /\ UNCHANGED <<pc, sig, ret, serverVars, quit, signals, inShutdown,
                 shutdownResult, active, wgCopy, wg, periodic>>

\* The goroutine of BackgroundProcess changes to another of its states.
Periodic(p, from, to) ==
  /\ Alive
  /\ periodic[p] = from
  /\ periodic' = [periodic EXCEPT ![p] = to]
  /\ UNCHANGED <<sig, ret, serverVars, quit, signals, inShutdown,
                 shutdownResult, active, wgCopy, wg, helperWg>>

\* BackgroundProcess starts a goroutine that no WaitGroup counts and nothing
\* ends: it sleeps for a minute, calls the function, and again.
BackgroundProcess(p) == Periodic(p, "off", "asleep") /\ UNCHANGED pc

\* mu is a variable of this call of BackgroundProcess, hence always free.
MinutePasses(p) == Periodic(p, "asleep", "running") /\ UNCHANGED pc

PeriodicReturns(p) == Periodic(p, "running", "asleep") /\ UNCHANGED pc

\* Unlike in RunInTheBackground nothing recovers a panic, which ends the
\* process.
PeriodicPanics(p) == Periodic(p, "running", "off") /\ pc' = "killed"

-----------------------------------------------------------------------------
Caller ==
  New \/ StartListening \/ ListenBinds \/ ListenFails \/ ListenClosed
SignalGoroutine ==
  /\ Alive
  /\ \/ InstallNotify
     \/ TakeSignal
     \/ StartPolling
     \/ ShutdownSucceeds
     \/ ShutdownFails
     \/ WaitReturns
     \/ DeliverError
     \/ DeliverNil
Environment ==
  \/ Signal
  \/ \E r \in Requests : AcceptRequest(r) \/ FinishRequest(r)
  \/ \E t \in OwnTasks : StartOwnTask(t) \/ FinishOwnTask(t)
  \/ \E t \in HelperTasks : RunInTheBackground(t) \/ BackgroundTaskEnds(t)
  \/ \E p \in Periodics :
       \/ BackgroundProcess(p)
       \/ MinutePasses(p)
       \/ PeriodicReturns(p)
       \/ PeriodicPanics(p)

Next == Caller \/ SignalGoroutine \/ Environment

Spec == Init /\ [][Next]_vars

\* What the caller's goroutine does as soon as it can run.  Binding the port
\* ends, in one way or the other; a server that serves need never fail to
\* Accept and leaves ListenAndServe only once Shutdown was called.
CallerProceeds ==
  \/ New
  \/ StartListening
  \/ pc = "binding" /\ (ListenBinds \/ ListenFails)
  \/ ListenClosed

(***************************************************************************)
(* The Go scheduler runs every goroutine that can run, and the context of  *)
(* Shutdown expires.  Signals, requests, tasks and failures of Accept are  *)
(* under no obligation: a request may hang and no signal need ever come.   *)
(***************************************************************************)
Fairness == WF_vars(CallerProceeds) /\ WF_vars(SignalGoroutine)
FairSpec == Spec /\ Fairness
-----------------------------------------------------------------------------
(***************************************************************************)
(* Properties.                                                             *)
(***************************************************************************)

\* Types, and the facts every reader assumes: quit holds at most one signal.
TypeOK ==
  /\ pc \in PCs
  /\ sig \in Sigs
  /\ ret \in {"none", "nil", "shutdownErr", "listenErr"}
  /\ secure \in BOOLEAN
  /\ certReadable \in BOOLEAN
  /\ caLoaded \in BOOLEAN
  /\ quit \in 0..1
  /\ signals \in 0..MaxSignals
  /\ inShutdown \in BOOLEAN
  /\ shutdownResult \in {"none", "nil", "err"}
  /\ active \subseteq Requests
  /\ wg \subseteq OwnTasks
  /\ wgCopy \subseteq OwnTasks
  /\ helperWg \subseteq HelperTasks
  /\ periodic \in [Periodics -> {"off", "asleep", "running"}]

\* New returns nil ("server successfully shut down") only when Shutdown
\* succeeded and no request is, or will ever be, in flight, although its
\* goroutine sends a second value after an error (http.go:55-63).
NilMeansCleanStop ==
  ret = "nil" => /\ active = {}
                 /\ inShutdown
                 /\ shutdownResult = "nil"
                 /\ wgCopy = {}

\* NewmTLS only logs that it could not read the CA file (http.go:89-92), yet
\* a server that got as far as serving has its CA, because the listener
\* needs the same file.
MutualTLSHasCA == secure /\ pc = "serving" => caLoaded

\* Once a signal is caught New returns, whatever requests and background
\* tasks do, provided no task was registered with wg before the call: the
\* sends on the unbuffered shutDownError always find their receiver.  Only
\* the panic of a periodic function can end the process before.
SignalStopsServer ==
  quit = 1 /\ wgCopy = {} ~> pc \in {"returned", "killed"}

\* The server admits nothing once it drains and reports nil only when idle:
\* it implements the contract its callers rely on.
Drain == INSTANCE DrainContract WITH
  phase   <- IF ret # "none" THEN "stopped"
             ELSE IF inShutdown THEN "draining" ELSE "open",
  outcome <- IF ret \in {"none", "nil"} THEN ret ELSE "error"

ImplementsDrainContract == Drain!Spec

-----------------------------------------------------------------------------
(***************************************************************************)
(* What the code says of wg.Wait() and does not do, because New and        *)
(* NewmTLS receive the WaitGroup by value.                                 *)
(***************************************************************************)

\* "Wait for all background processes to complete their task" (http.go:59):
\* the goroutine passes Wait only when no background task is running.
WaitCoversBackgroundTasks ==
  [][sig = "wgWait" /\ sig' = "sendNil" =>
       /\ wg = {}
       /\ helperWg = {}
       /\ \A p \in Periodics : periodic[p] # "running"]_vars
=============================================================================
