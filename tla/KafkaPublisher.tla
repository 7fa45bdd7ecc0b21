-------------------------- MODULE KafkaPublisher --------------------------
(***************************************************************************)
(* BrokerClient.Publish (messaging/kafka/sarama.go).  Every call opens a   *)
(* producer of its own, encodes the payload, sends one message and closes  *)
(* the producer in a deferred function.  The function has one variable     *)
(* err; the closure publishMessage assigns the encoding error to it, but   *)
(* declares a second err for what SendMessage returns, so a failed send    *)
(* never reaches the `return err`.  The deferred function assigns to err   *)
(* after the return value has been taken.                                  *)
(*                                                                         *)
(* The brokers are external: each attempt of SendMessage may append the    *)
(* record or not, and be acknowledged or not; sarama retries.              *)
(***************************************************************************)
EXTENDS Naturals

CONSTANTS
  Calls,     \* concurrent calls of Publish
  RetryMax   \* config.Producer.Retry.Max, 5 in the code

ASSUME RetryMaxAssumption == RetryMax \in Nat

VARIABLES
  pc,        \* where each call is
  err,       \* the variable err of publish: "nil" or an error
  body,      \* b.Bytes(): "none" yet, "payload" or "empty"
  attempts,  \* sends tried so far
  log,       \* records the brokers hold for a call, by their body
  open,      \* calls whose producer is open
  result     \* what Publish returned: "none" until then

publisherVars == <<pc, err, body, attempts, log, open, result>>

Errors == {"startErr", "encodeErr", "closeErr"}

PublisherInit ==
  /\ pc       = [c \in Calls |-> "start"]
  /\ err      = [c \in Calls |-> "nil"]
  /\ body     = [c \in Calls |-> "none"]
  /\ attempts = [c \in Calls |-> 0]
  /\ log      = [c \in Calls |-> [payload |-> 0, empty |-> 0]]
  /\ open     = {}
  /\ result   = [c \in Calls |-> "none"]

Goto(c, from, to) ==
  /\ pc[c] = from
  /\ pc' = [pc EXCEPT ![c] = to]

\* producer, err := sarama.NewSyncProducer(...)
NewProducer(c) ==
  /\ Goto(c, "start", "encode")
  /\ open' = open \cup {c}
  /\ UNCHANGED <<err, body, attempts, log, result>>

\* It fails, and publish returns before the defer is reached.
NewProducerFails(c) ==
  /\ Goto(c, "start", "done")
  /\ err' = [err EXCEPT ![c] = "startErr"]
  /\ result' = [result EXCEPT ![c] = "startErr"]
  /\ UNCHANGED <<body, attempts, log, open>>

Encode(c) ==
  /\ Goto(c, "encode", "send")
  /\ body' = [body EXCEPT ![c] = "payload"]
  /\ UNCHANGED <<err, attempts, log, open, result>>

\* Fault: the closure declares a new err here as well.
EncodeErrorShadowed(c) ==
  /\ Goto(c, "encode", "send")
  /\ body' = [body EXCEPT ![c] = "empty"]
  /\ UNCHANGED <<err, attempts, log, open, result>>

\* The encoder refuses the payload: the error is logged and kept in err, and
\* the closure goes on with an empty buffer.
EncodeFails(c) ==
  /\ Goto(c, "encode", "send")
  /\ body' = [body EXCEPT ![c] = "empty"]
  /\ err' = [err EXCEPT ![c] = "encodeErr"]
  /\ UNCHANGED <<attempts, log, open, result>>

AppendRecord(c) == log' = [log EXCEPT ![c][body[c]] = @ + 1]

\* An attempt of producer.SendMessage is acknowledged.
SendAcknowledged(c) ==
  /\ Goto(c, "send", "return")
  /\ attempts' = [attempts EXCEPT ![c] = @ + 1]
  /\ AppendRecord(c)
  /\ UNCHANGED <<err, body, open, result>>

\* Fault: the retries are counted after the attempt that fails.
SendUnansweredOnceMore(c) ==
  /\ pc[c] = "send"
  /\ attempts' = [attempts EXCEPT ![c] = @ + 1]
  /\ AppendRecord(c) \/ UNCHANGED log
  /\ pc' = [pc EXCEPT ![c] =
              IF attempts[c] > RetryMax THEN "return" ELSE "send"]
  /\ UNCHANGED <<err, body, open, result>>

\* An attempt fails, though the record may have been appended.  SendMessage
\* tries again until RetryMax retries have failed, and then returns an error
\* that is logged and forgotten.
SendUnanswered(c) ==
  /\ pc[c] = "send"
  /\ attempts' = [attempts EXCEPT ![c] = @ + 1]
  /\ AppendRecord(c) \/ UNCHANGED log
  /\ pc' = [pc EXCEPT ![c] =
              IF attempts[c] = RetryMax THEN "return" ELSE "send"]
  /\ UNCHANGED <<err, body, open, result>>

\* return err evaluates err; the deferred function runs next.
Return(c) ==
  /\ Goto(c, "return", "close")
  /\ result' = [result EXCEPT ![c] = err[c]]
  /\ UNCHANGED <<err, body, attempts, log, open>>

\* producer.Close() releases the producer and may report an error, which
\* is logged; err changes too late for anyone to see it.
Close(c) ==
  /\ Goto(c, "close", "done")
  /\ open' = open \ {c}
  /\ \E e \in {"nil", "closeErr"} : err' = [err EXCEPT ![c] = e]
  /\ UNCHANGED <<body, attempts, log, result>>

Publish(c) ==
  \/ NewProducer(c)
  \/ NewProducerFails(c)
  \/ Encode(c)
  \/ EncodeFails(c)
  \/ SendAcknowledged(c)
  \/ SendUnanswered(c)
  \/ Return(c)
  \/ Close(c)

PublisherNext == \E c \in Calls : Publish(c)

PublisherSpec == PublisherInit /\ [][PublisherNext]_publisherVars

-----------------------------------------------------------------------------
(***************************************************************************)
(* Properties.                                                             *)
(***************************************************************************)

\* Types; no call makes more than RetryMax + 1 attempts, so a message that
\* is retried leaves at most that many copies.
PublisherTypeOK ==
  /\ pc \in [Calls -> {"start", "encode", "send", "return", "close", "done"}]
  /\ err \in [Calls -> Errors \cup {"nil"}]
  /\ body \in [Calls -> {"none", "payload", "empty"}]
  /\ attempts \in [Calls -> 0..(RetryMax + 1)]
  /\ log \in [Calls -> [payload : Nat, empty : Nat]]
  /\ \A c \in Calls : log[c].payload + log[c].empty <= attempts[c]
  /\ open \subseteq Calls
  /\ result \in [Calls -> Errors \cup {"nil", "none"}]

\* A caller that gets nil never left an empty record on the topic: although
\* an encoding failure does not stop the send, it is reported.
EmptyRecordReported ==
  \A c \in Calls : log[c].empty > 0 =>
    result[c] = "encodeErr" \/ (pc[c] # "done" /\ err[c] = "encodeErr")

\* "Publish publishes a message indicating a record was created."
\* (sarama.go:69): no error means the message is on the topic.
NilMeansPublished ==
  \A c \in Calls : result[c] = "nil" => log[c].payload > 0
=============================================================================
