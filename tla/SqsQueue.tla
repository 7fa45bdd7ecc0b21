----------------------------- MODULE SqsQueue -----------------------------
(***************************************************************************)
(* A process that consumes an SQS queue with messaging/aws-sqs/sqs.go:     *)
(* one goroutine runs ProcessMessages, which receives up to                *)
(* MaxNumberOfMessages at a time and sends them one by one on a channel    *)
(* the caller made, buffered or not; workers of the application take them, *)
(* process them and call DeleteMessage, which swallows its error.  SQS     *)
(* hides a received message and shows it again when its visibility timeout *)
(* expires, wherever the delivery is by then.  The process may crash and   *)
(* start again; what it held in memory is lost.                            *)
(***************************************************************************)
EXTENDS Naturals, SequencesExt

CONSTANTS
  Messages,             \* identities of SQS messages
  Workers,              \* the application's goroutines that read the channel
  MaxNumberOfMessages,  \* 2 in the code
  ChanCaps,             \* capacities the caller may give the channel
  MaxCrashes            \* bound: crashes in one behaviour

ASSUME MaxNumberOfMessagesAssumption == MaxNumberOfMessages \in Nat \ {0}
ASSUME ChanCapsAssumption == ChanCaps \subseteq Nat
ASSUME MaxCrashesAssumption == MaxCrashes \in Nat

VARIABLES
  store,      \* SQS: "unsent", "visible", "inflight" or "deleted"
  acked,      \* messages for which SendMessage returned nil
  poller,     \* "starting" (no Queue yet), "receive" or "push"
  batch,      \* result.Messages not yet sent on the channel
  chn,        \* the channel's buffer
  chanCap,    \* the channel's capacity
  held,       \* held[w]: what worker w works on, {} or {m}
  finished,   \* workers whose handler returned
  processed,  \* messages some handler has processed
  crashes     \* crashes so far

memory == <<poller, batch, chn, held, finished>>
vars == <<store, acked, memory, chanCap, processed, crashes>>

Init ==
  /\ store = [m \in Messages |-> "unsent"]
  /\ acked = {}
  /\ poller = "starting"
  /\ batch = <<>>
  /\ chn = <<>>
  /\ chanCap \in ChanCaps
  /\ held = [w \in Workers |-> {}]
  /\ finished = {}
  /\ processed = {}
  /\ crashes = 0

-----------------------------------------------------------------------------
(***************************************************************************)
(* The producer and the poller.                                            *)
(***************************************************************************)

\* SendMessage returns nil once SQS has stored the message.  When it returns
\* an error SQS may have stored it or not.
SendMessage(m) ==
  /\ store[m] = "unsent"
  /\ store' = [store EXCEPT ![m] = "visible"]
  /\ acked' \in {acked, acked \cup {m}}
  /\ UNCHANGED <<memory, chanCap, processed, crashes>>

\* NewQueue found the queue's URL, and ProcessMessages enters its loop.  When
\* it cannot (no session, GetQueueUrl fails) NewQueue dereferences nil and
\* the process dies and is started again: no change of state.
NewQueue ==
  /\ poller = "starting"
  /\ poller' = "receive"
  /\ UNCHANGED <<store, acked, batch, chn, chanCap, held, finished,
                 processed, crashes>>

\* What ReceiveMessage may return: visible messages, in any order, or none.
Batches ==
  UNION {{ms \in [1..n -> {m \in Messages : store[m] = "visible"}] :
            IsInjective(ms)} : n \in 0..MaxNumberOfMessages}

\* SQS hides what it returns.
Hide(ms) ==
  store' = [m \in Messages |->
              IF m \in Range(ms) THEN "inflight" ELSE store[m]]

\* Fault: an empty result ends the loop.
ReceiveOnce(ms) ==
  /\ poller = "receive"
  /\ ms \in Batches
  /\ Hide(ms)
  /\ batch' = ms
  /\ poller' = IF ms = <<>> THEN "stopped" ELSE "push"
  /\ UNCHANGED <<acked, chn, chanCap, held, finished, processed, crashes>>

\* Fault: messages are deleted as soon as they are received.
ReceiveAndDelete(ms) ==
  /\ poller = "receive"
  /\ ms \in Batches
  /\ store' = [m \in Messages |->
                 IF m \in Range(ms) THEN "deleted" ELSE store[m]]
  /\ batch' = ms
  /\ poller' = IF ms = <<>> THEN "receive" ELSE "push"
  /\ UNCHANGED <<acked, chn, chanCap, held, finished, processed, crashes>>

\* The messages received go into the batch.  A long poll that found nothing
\* starts the loop over.
ReceiveMessage(ms) ==
  /\ poller = "receive"
  /\ ms \in Batches
  /\ Hide(ms)
  /\ batch' = ms
  /\ poller' = IF ms = <<>> THEN "receive" ELSE "push"
  /\ UNCHANGED <<acked, chn, chanCap, held, finished, processed, crashes>>

\* An error is printed and leaves result.Messages empty: the loop starts
\* over.  The request may have reached SQS, which then has hidden messages
\* nobody received.
ReceiveFails(ms) ==
  /\ poller = "receive"
  /\ ms \in Batches
  /\ Hide(ms)
  /\ UNCHANGED <<acked, memory, chanCap, processed, crashes>>

\* Fault: the loop runs once too often.
MessageSentTooOften ==
  /\ batch' = Tail(batch)
  /\ poller' = "push"

\* The loop over result.Messages moves on; after the last message it ends.
MessageSent ==
  /\ batch' = Tail(batch)
  /\ poller' = IF Len(batch) = 1 THEN "receive" ELSE "push"

\* Fault: a send that would block is skipped (select with a default).
PushOrDrop ==
  /\ poller = "push"
  /\ chn' = IF Len(chn) < chanCap THEN Append(chn, Head(batch)) ELSE chn
  /\ MessageSent
  /\ UNCHANGED <<store, acked, chanCap, held, finished, processed, crashes>>

\* chn <- message, into the buffer; it blocks while the buffer is full.
PushMessage ==
  /\ poller = "push"
  /\ Len(chn) < chanCap
  /\ chn' = Append(chn, Head(batch))
  /\ MessageSent
  /\ UNCHANGED <<store, acked, chanCap, held, finished, processed, crashes>>

Idle(w) == held[w] = {} /\ poller # "starting"

\* chn <- message, straight to a worker that is waiting to receive.
HandOff(w) ==
  /\ poller = "push"
  /\ chn = <<>>
  /\ Idle(w)
  /\ held' = [held EXCEPT ![w] = {Head(batch)}]
  /\ MessageSent
  /\ UNCHANGED <<store, acked, chn, chanCap, finished, processed, crashes>>

-----------------------------------------------------------------------------
(***************************************************************************)
(* The application's workers.                                              *)
(***************************************************************************)

\* message := <-chn
Take(w) ==
  /\ chn # <<>>
  /\ Idle(w)
  /\ held' = [held EXCEPT ![w] = {Head(chn)}]
  /\ chn' = Tail(chn)
  /\ UNCHANGED <<store, acked, poller, batch, chanCap, finished, processed,
                 crashes>>

Process(w, m) ==
  /\ held[w] = {m}
  /\ w \notin finished
  /\ processed' = processed \cup {m}
  /\ finished' = finished \cup {w}
  /\ UNCHANGED <<store, acked, poller, batch, chn, chanCap, held, crashes>>

\* The handler fails and the worker leaves the message to its timeout.
Abandon(w) ==
  /\ held[w] # {}
  /\ w \notin finished
  /\ held' = [held EXCEPT ![w] = {}]
  /\ UNCHANGED <<store, acked, poller, batch, chn, chanCap, finished,
                 processed, crashes>>

\* DeleteMessage tells its caller nothing: the request may fail, and the
\* receipt handle may be stale, since the message was received again.
DeleteMessage(w) ==
  /\ w \in finished
  /\ store' \in {store, [m \in Messages |->
                           IF m \in held[w] THEN "deleted" ELSE store[m]]}
  /\ held' = [held EXCEPT ![w] = {}]
  /\ finished' = finished \ {w}
  /\ UNCHANGED <<acked, poller, batch, chn, chanCap, processed, crashes>>

-----------------------------------------------------------------------------
(***************************************************************************)
(* The environment.                                                        *)
(***************************************************************************)

VisibilityTimeout(m) ==
  /\ store[m] = "inflight"
  /\ store' = [store EXCEPT ![m] = "visible"]
  /\ UNCHANGED <<acked, memory, chanCap, processed, crashes>>

Crash ==
  /\ poller # "starting"
  /\ crashes < MaxCrashes
  /\ crashes' = crashes + 1
  /\ poller' = "starting"
  /\ batch' = <<>>
  /\ chn' = <<>>
  /\ held' = [w \in Workers |-> {}]
  /\ finished' = {}
  /\ UNCHANGED <<store, acked, chanCap, processed>>

Next ==
  \/ \E m \in Messages : SendMessage(m) \/ VisibilityTimeout(m)
  \/ NewQueue
  \/ \E ms \in Batches : ReceiveMessage(ms) \/ ReceiveFails(ms)
  \/ PushMessage
  \/ \E w \in Workers : \/ HandOff(w)
                        \/ Take(w)
                        \/ \E m \in Messages : Process(w, m)
                        \/ Abandon(w)
                        \/ DeleteMessage(w)
  \/ Crash

Spec == Init /\ [][Next]_vars

(***************************************************************************)
(* The process is restarted until NewQueue succeeds and its goroutines are *)
(* scheduled; SQS delivers every message that stays visible sooner or      *)
(* later and hides none for ever; and no handler fails on the same message *)
(* for ever.  Nothing obliges a message to be sent.                        *)
(***************************************************************************)
Fairness ==
  /\ WF_vars(NewQueue)
  /\ WF_vars(PushMessage)
  /\ \A m \in Messages :
       /\ SF_vars(\E ms \in Batches : m \in Range(ms) /\ ReceiveMessage(ms))
       /\ WF_vars(VisibilityTimeout(m))
       /\ SF_vars(\E w \in Workers : Process(w, m))
  /\ \A w \in Workers :
       /\ WF_vars(HandOff(w) \/ Take(w))
       /\ WF_vars(Abandon(w) \/ \E m \in Messages : Process(w, m))
       /\ WF_vars(DeleteMessage(w))

FairSpec == Spec /\ Fairness

-----------------------------------------------------------------------------
(***************************************************************************)
(* Properties.                                                             *)
(***************************************************************************)

\* Types; the poller is in the middle of a send exactly when it has one left.
TypeOK ==
  /\ store \in [Messages -> {"unsent", "visible", "inflight", "deleted"}]
  /\ acked \subseteq Messages
  /\ poller \in {"starting", "receive", "push"}
  /\ batch \in Seq(Messages)
  /\ poller = "push" <=> batch # <<>>
  /\ chn \in Seq(Messages)
  /\ chanCap \in ChanCaps
  /\ held \in [Workers -> {{}} \cup {{m} : m \in Messages}]
  /\ finished \subseteq {w \in Workers : held[w] # {}}
  /\ processed \subseteq Messages
  /\ crashes \in 0..MaxCrashes

\* Received messages that no worker has taken yet, in order.
Pipeline == chn \o batch

\* A received message leaves the pipeline only at its head and into the
\* hands of a worker, or in a crash: none is skipped or overtaken.
HandOffKeepsOrder ==
  [][\/ IsPrefix(Pipeline, Pipeline')
     \/ /\ Pipeline' = Tail(Pipeline)
        /\ \E w \in Workers :
             held[w] = {} /\ held'[w] = {Head(Pipeline)}
     \/ poller' = "starting"]_vars

\* A message whose SendMessage returned nil is processed in the end, through
\* crashes, lost deletes, failing handlers and empty or failed receives.
AckedIsProcessed ==
  \A m \in Messages : m \in acked ~> m \in processed

\* Nothing is deleted unprocessed, nothing is processed that was not sent.
Delivery == INSTANCE AtLeastOnce WITH
  status <- [m \in Messages |->
               CASE store[m] = "unsent"  -> "new"
                 [] store[m] = "deleted" -> "deleted"
                 [] OTHER                -> "accepted"]

ImplementsAtLeastOnce == Delivery!Spec
=============================================================================
