-------------------------- MODULE MessagingProofs ---------------------------
(***************************************************************************)
(* Theorems about SqsQueue, for every set of messages and workers, every   *)
(* capacity of the channel and every size of a batch; and about            *)
(* KafkaPublisher, for every set of calls and every number of retries.     *)
(* The two share nothing but the package (messaging).                      *)
(***************************************************************************)
EXTENDS SqsQueue, KafkaPublisher, SequenceTheorems, TLAPS

\* What the process may hold in memory, wherever it is: messages that were
\* sent.
InMemory(m) ==
  \/ \E i \in 1..Len(batch) : batch[i] = m
  \/ \E i \in 1..Len(chn) : chn[i] = m
  \/ \E w \in Workers : m \in held[w]

SentOnly == \A m \in Messages : InMemory(m) \/ m \in processed => store[m] # "unsent"

\* A worker deletes only what it processed, and so nothing else is deleted.
DeletesProcessed ==
  /\ \A w \in finished : held[w] \subseteq processed
  /\ \A m \in Messages : store[m] = "deleted" => m \in processed

\* The channel and the batch keep to their sizes.
Bounds == Len(chn) <= chanCap /\ Len(batch) <= MaxNumberOfMessages

IInv == TypeOK /\ SentOnly /\ DeletesProcessed /\ Bounds

LEMMA InitEstablishes == Init => IInv
  BY ChanCapsAssumption, MaxNumberOfMessagesAssumption, MaxCrashesAssumption
  DEF Init, IInv, TypeOK, SentOnly, InMemory, DeletesProcessed, Bounds

\* A batch is a sequence of visible messages, no longer than was asked for.
LEMMA BatchesAreVisible ==
  ASSUME NEW ms \in Batches
  PROVE  /\ ms \in Seq(Messages) /\ Len(ms) <= MaxNumberOfMessages
         /\ \A i \in 1..Len(ms) : store[ms[i]] = "visible"
         /\ Range(ms) = {ms[i] : i \in 1..Len(ms)}
<1>1. PICK n \in 0..MaxNumberOfMessages :
        ms \in [1..n -> {m \in Messages : store[m] = "visible"}]
  BY DEF Batches
<1>2. ms \in Seq(Messages) /\ Len(ms) = n
  BY <1>1, MaxNumberOfMessagesAssumption
<1>3. QED
  BY <1>1, <1>2, MaxNumberOfMessagesAssumption DEF Range

LEMMA ReceivePreserves ==
  ASSUME IInv, NEW ms \in Batches, ReceiveMessage(ms) \/ ReceiveFails(ms)
  PROVE  IInv'
<1>1. /\ ms \in Seq(Messages) /\ Len(ms) <= MaxNumberOfMessages
      /\ \A i \in 1..Len(ms) : ms[i] \in Messages
      /\ \A i \in 1..Len(ms) : store[ms[i]] = "visible"
      /\ Range(ms) = {ms[i] : i \in 1..Len(ms)}
  BY BatchesAreVisible
<1>2. \A m \in Messages :
        store'[m] = IF m \in Range(ms) THEN "inflight" ELSE store[m]
  BY DEF ReceiveMessage, ReceiveFails, Hide
<1>3. CASE ReceiveMessage(ms)
  <2>1. TypeOK'
    BY <1>1, <1>3 DEF IInv, TypeOK, ReceiveMessage, Hide
  <2>2. SentOnly'
    BY <1>1, <1>2, <1>3 DEF IInv, SentOnly, InMemory, ReceiveMessage
  <2>3. DeletesProcessed'
    BY <1>2, <1>3 DEF IInv, DeletesProcessed, ReceiveMessage
  <2>4. Bounds'
    BY <1>1, <1>3 DEF IInv, Bounds, ReceiveMessage
  <2>5. QED
    BY <2>1, <2>2, <2>3, <2>4 DEF IInv
<1>4. CASE ReceiveFails(ms)
  <2>1. TypeOK'
    BY <1>4 DEF IInv, TypeOK, ReceiveFails, Hide, memory
  <2>2. SentOnly'
    BY <1>2, <1>4 DEF IInv, SentOnly, InMemory, ReceiveFails, memory
  <2>3. DeletesProcessed' /\ Bounds'
    BY <1>2, <1>4 DEF IInv, DeletesProcessed, Bounds, ReceiveFails, memory
  <2>4. QED
    BY <2>1, <2>2, <2>3 DEF IInv
<1>5. QED
  BY <1>3, <1>4

\* Sending the next message of the batch shortens it by its head.
LEMMA MessageSentShortens ==
  ASSUME TypeOK, poller = "push", MessageSent
  PROVE  /\ batch' \in Seq(Messages) /\ Len(batch') = Len(batch) - 1
         /\ Head(batch) \in Messages /\ Head(batch) = batch[1]
         /\ Len(batch) \in Nat \ {0}
         /\ \A i \in 1..Len(batch') : batch'[i] = batch[i + 1]
         /\ poller' \in {"receive", "push"}
         /\ poller' = "push" <=> batch' # <<>>
<1>1. batch \in Seq(Messages) /\ batch # <<>>
  BY DEF TypeOK
<1>2. Len(batch) \in Nat \ {0} /\ Head(batch) \in Messages /\ Head(batch) = batch[1]
  BY <1>1
<1>3. batch' \in Seq(Messages) /\ Len(batch') = Len(batch) - 1
      /\ \A i \in 1..Len(batch') : batch'[i] = batch[i + 1]
  BY <1>1 DEF MessageSent
<1>4. batch' # <<>> <=> Len(batch) # 1
  BY <1>2, <1>3
<1>5. QED
  BY <1>2, <1>3, <1>4 DEF MessageSent

LEMMA PushPreserves == ASSUME IInv, PushMessage PROVE IInv'
<1>1. /\ batch' \in Seq(Messages) /\ Len(batch') = Len(batch) - 1
      /\ Head(batch) \in Messages /\ Head(batch) = batch[1]
      /\ Len(batch) \in Nat \ {0}
      /\ \A i \in 1..Len(batch') : batch'[i] = batch[i + 1]
      /\ poller' \in {"receive", "push"} /\ (poller' = "push" <=> batch' # <<>>)
  BY MessageSentShortens DEF IInv, PushMessage
<1>2. /\ chn' \in Seq(Messages) /\ Len(chn') = Len(chn) + 1
      /\ \A i \in 1..Len(chn') :
           chn'[i] = IF i = Len(chn) + 1 THEN Head(batch) ELSE chn[i]
  BY <1>1 DEF IInv, TypeOK, PushMessage
<1>3. TypeOK'
  BY <1>1, <1>2 DEF IInv, TypeOK, PushMessage
<1>4. \A m \in Messages : InMemory(m)' => InMemory(m)
  <2> SUFFICES ASSUME NEW m \in Messages, InMemory(m)' PROVE InMemory(m)
    OBVIOUS
  <2>1. CASE \E i \in 1..Len(batch') : batch'[i] = m
    <3>1. PICK i \in 1..Len(batch') : batch'[i] = m
      BY <2>1
    <3>2. i + 1 \in 1..Len(batch) /\ batch[i + 1] = m
      BY <1>1, <3>1
    <3>3. QED
      BY <3>2 DEF InMemory
  <2>2. CASE \E i \in 1..Len(chn') : chn'[i] = m
    <3>1. PICK i \in 1..Len(chn') : chn'[i] = m
      BY <2>2
    <3>2. CASE i = Len(chn) + 1
      <4>1. 1 \in 1..Len(batch) /\ batch[1] = m
        BY <1>1, <1>2, <3>1, <3>2
      <4>2. QED
        BY <4>1 DEF InMemory
    <3>3. CASE i # Len(chn) + 1
      <4>1. Len(chn) \in Nat
        BY DEF IInv, TypeOK
      <4>2. i \in 1..Len(chn) /\ chn[i] = m
        BY <1>2, <3>1, <3>3, <4>1
      <4>3. QED
        BY <4>2 DEF InMemory
    <3>4. QED
      BY <3>2, <3>3
  <2>3. CASE \E w \in Workers : m \in held'[w]
    BY <2>3 DEF InMemory, PushMessage
  <2>4. QED
    BY <2>1, <2>2, <2>3 DEF InMemory
<1>5. SentOnly'
  BY <1>4 DEF IInv, SentOnly, PushMessage
<1>6. DeletesProcessed'
  BY DEF IInv, DeletesProcessed, PushMessage
<1>7. Bounds'
  <2>1. chanCap \in Nat /\ chanCap' = chanCap /\ Len(chn) \in Nat
        /\ Len(chn) < chanCap
    BY ChanCapsAssumption DEF IInv, TypeOK, PushMessage
  <2>2. QED
    BY <1>1, <1>2, <2>1, MaxNumberOfMessagesAssumption DEF IInv, Bounds
<1>8. QED
  BY <1>3, <1>5, <1>6, <1>7 DEF IInv

LEMMA HandOffPreserves ==
  ASSUME IInv, NEW w \in Workers, HandOff(w)
  PROVE  IInv'
<1>1. /\ batch' \in Seq(Messages) /\ Len(batch') = Len(batch) - 1
      /\ Head(batch) \in Messages /\ Head(batch) = batch[1]
      /\ Len(batch) \in Nat \ {0}
      /\ \A i \in 1..Len(batch') : batch'[i] = batch[i + 1]
      /\ poller' \in {"receive", "push"} /\ (poller' = "push" <=> batch' # <<>>)
  BY MessageSentShortens DEF IInv, HandOff
<1>2. w \notin finished
  BY DEF IInv, TypeOK, HandOff, Idle
<1>3. \A v \in Workers : held'[v] = IF v = w THEN {Head(batch)} ELSE held[v]
  BY DEF IInv, HandOff, TypeOK
<1>4. TypeOK'
  BY <1>1, <1>3 DEF IInv, TypeOK, HandOff
<1>5. \A m \in Messages : InMemory(m)' => InMemory(m)
  <2> SUFFICES ASSUME NEW m \in Messages, InMemory(m)' PROVE InMemory(m)
    OBVIOUS
  <2>1. CASE \E i \in 1..Len(batch') : batch'[i] = m
    <3>1. PICK i \in 1..Len(batch') : batch'[i] = m
      BY <2>1
    <3>2. i + 1 \in 1..Len(batch) /\ batch[i + 1] = m
      BY <1>1, <3>1
    <3>3. QED
      BY <3>2 DEF InMemory
  <2>2. CASE \E i \in 1..Len(chn') : chn'[i] = m
    BY <2>2 DEF InMemory, HandOff
  <2>3. CASE \E v \in Workers : m \in held'[v]
    <3>1. 1 \in 1..Len(batch)
      BY <1>1
    <3>2. QED
      BY <1>1, <1>3, <2>3, <3>1 DEF InMemory
  <2>4. QED
    BY <2>1, <2>2, <2>3 DEF InMemory
<1>6. SentOnly'
  BY <1>5 DEF IInv, SentOnly, HandOff
<1>7. DeletesProcessed'
  BY <1>2, <1>3 DEF IInv, TypeOK, DeletesProcessed, HandOff
<1>8. Bounds'
  BY <1>1, MaxNumberOfMessagesAssumption DEF IInv, Bounds, HandOff
<1>9. QED
  BY <1>4, <1>6, <1>7, <1>8 DEF IInv

LEMMA TakePreserves ==
  ASSUME IInv, NEW w \in Workers, Take(w)
  PROVE  IInv'
<1>1. /\ chn' \in Seq(Messages) /\ Len(chn') = Len(chn) - 1
      /\ Head(chn) \in Messages /\ Head(chn) = chn[1]
      /\ Len(chn) \in Nat \ {0}
      /\ \A i \in 1..Len(chn') : chn'[i] = chn[i + 1]
  BY DEF IInv, TypeOK, Take
<1>2. w \notin finished
  BY DEF IInv, TypeOK, Take, Idle
<1>3. \A v \in Workers : held'[v] = IF v = w THEN {Head(chn)} ELSE held[v]
  BY DEF IInv, Take, TypeOK
<1>4. TypeOK'
  BY <1>1, <1>3 DEF IInv, TypeOK, Take
<1>5. \A m \in Messages : InMemory(m)' => InMemory(m)
  BY <1>1, <1>3 DEF IInv, TypeOK, InMemory, Take
<1>6. SentOnly'
  BY <1>5 DEF IInv, SentOnly, Take
<1>7. DeletesProcessed'
  BY <1>2, <1>3 DEF IInv, TypeOK, DeletesProcessed, Take
<1>8. Bounds'
  <2>1. chanCap \in Nat /\ chanCap' = chanCap /\ Len(chn) <= chanCap
    BY ChanCapsAssumption DEF IInv, TypeOK, Bounds, Take
  <2>2. QED
    BY <1>1, <2>1 DEF IInv, Bounds, Take
<1>9. QED
  BY <1>4, <1>6, <1>7, <1>8 DEF IInv

WorkerStep(w) ==
  \/ \E m \in Messages : Process(w, m)
  \/ Abandon(w)
  \/ DeleteMessage(w)

LEMMA WorkerPreserves ==
  ASSUME IInv, NEW w \in Workers, WorkerStep(w)
  PROVE  IInv'
<1>1. CASE \E m \in Messages : Process(w, m)
  <2>1. PICK m \in Messages : Process(w, m)
    BY <1>1
  <2>2. TypeOK'
    BY <2>1 DEF IInv, TypeOK, Process
  <2>3. SentOnly'
    BY <2>1 DEF IInv, SentOnly, InMemory, Process
  <2>4. DeletesProcessed' /\ Bounds'
    BY <2>1 DEF IInv, TypeOK, DeletesProcessed, Bounds, Process
  <2>5. QED
    BY <2>2, <2>3, <2>4 DEF IInv
<1>2. CASE Abandon(w)
  <2>1. \A v \in Workers : held'[v] = IF v = w THEN {} ELSE held[v]
    BY <1>2 DEF IInv, TypeOK, Abandon
  <2>2. TypeOK'
    BY <1>2, <2>1 DEF IInv, TypeOK, Abandon
  <2>3. SentOnly'
    BY <1>2, <2>1 DEF IInv, SentOnly, InMemory, Abandon
  <2>4. DeletesProcessed' /\ Bounds'
    BY <1>2, <2>1 DEF IInv, TypeOK, DeletesProcessed, Bounds, Abandon
  <2>5. QED
    BY <2>2, <2>3, <2>4 DEF IInv
<1>3. CASE DeleteMessage(w)
  <2>1. \A v \in Workers : held'[v] = IF v = w THEN {} ELSE held[v]
    BY <1>3 DEF IInv, TypeOK, DeleteMessage
  <2>2. \A m \in Messages : \/ store'[m] = store[m]
                            \/ m \in held[w] /\ store'[m] = "deleted"
    BY <1>3 DEF IInv, TypeOK, DeleteMessage
  <2>3. w \in finished
    BY <1>3 DEF DeleteMessage
  <2>4. TypeOK'
    BY <1>3, <2>1, <2>2 DEF IInv, TypeOK, DeleteMessage
  <2>5. SentOnly'
    BY <1>3, <2>1, <2>2 DEF IInv, SentOnly, InMemory, DeleteMessage
  <2>6. DeletesProcessed' /\ Bounds'
    BY <1>3, <2>1, <2>2, <2>3
    DEF IInv, TypeOK, DeletesProcessed, Bounds, DeleteMessage
  <2>7. QED
    BY <2>4, <2>5, <2>6 DEF IInv
<1>4. QED
  BY <1>1, <1>2, <1>3 DEF WorkerStep

LEMMA EnvironmentPreserves ==
  ASSUME IInv,
         \/ \E m \in Messages : SendMessage(m) \/ VisibilityTimeout(m)
         \/ NewQueue
         \/ Crash
         \/ UNCHANGED vars
  PROVE  IInv'
<1> USE DEF IInv
<1>1. ASSUME NEW m \in Messages, SendMessage(m) PROVE IInv'
  <2>1. TypeOK' /\ DeletesProcessed' /\ Bounds'
    BY <1>1 DEF TypeOK, DeletesProcessed, Bounds, SendMessage, memory
  <2>2. SentOnly'
    BY <1>1 DEF TypeOK, SentOnly, InMemory, SendMessage, memory
  <2>3. QED
    BY <2>1, <2>2
<1>2. ASSUME NEW m \in Messages, VisibilityTimeout(m) PROVE IInv'
  <2>1. TypeOK' /\ DeletesProcessed' /\ Bounds'
    BY <1>2 DEF TypeOK, DeletesProcessed, Bounds, VisibilityTimeout, memory
  <2>2. SentOnly'
    BY <1>2 DEF TypeOK, SentOnly, InMemory, VisibilityTimeout, memory
  <2>3. QED
    BY <2>1, <2>2
<1>3. CASE NewQueue
  BY <1>3 DEF TypeOK, SentOnly, InMemory, DeletesProcessed, Bounds, NewQueue
<1>4. CASE Crash
  <2>1. TypeOK' /\ DeletesProcessed'
    BY <1>4, MaxCrashesAssumption DEF TypeOK, DeletesProcessed, Crash
  <2>2. SentOnly'
    BY <1>4 DEF SentOnly, InMemory, Crash
  <2>3. Bounds'
    BY <1>4, ChanCapsAssumption, MaxNumberOfMessagesAssumption
    DEF TypeOK, Bounds, Crash
  <2>4. QED
    BY <2>1, <2>2, <2>3
<1>5. CASE UNCHANGED vars
  BY <1>5 DEF vars, memory, TypeOK, SentOnly, InMemory, DeletesProcessed, Bounds
<1>6. QED
  BY <1>1, <1>2, <1>3, <1>4, <1>5

LEMMA Invariance == Spec => []IInv
<1>1. IInv /\ [Next]_vars => IInv'
  BY ReceivePreserves, PushPreserves, HandOffPreserves, TakePreserves,
     WorkerPreserves, EnvironmentPreserves
  DEF Next, WorkerStep
<1>2. QED
  BY <1>1, InitEstablishes, PTL DEF Spec

\* Type correctness; the poller is in a send exactly while it has a message.
THEOREM TypeCorrect == Spec => []TypeOK
<1>1. IInv => TypeOK
  BY DEF IInv
<1>2. QED
  BY <1>1, Invariance, PTL

\* Backpressure: no more messages than the channel holds and one request
\* returns wait in memory while their visibility timeout runs (sqs.go:86, 95).
BoundedPrefetch == Len(Pipeline) <= chanCap + MaxNumberOfMessages

\* Memory holds no more than the channel and one batch.
THEOREM PrefetchIsBounded == Spec => []BoundedPrefetch
<1>1. IInv => BoundedPrefetch
  BY ChanCapsAssumption, MaxNumberOfMessagesAssumption
  DEF IInv, TypeOK, Bounds, BoundedPrefetch, Pipeline
<1>2. QED
  BY <1>1, Invariance, PTL

-----------------------------------------------------------------------------
(***************************************************************************)
(* The hand-over keeps the order.                                          *)
(***************************************************************************)

\* What is stepped over and what is put at the end.
LEMMA PrefixOfConcat ==
  ASSUME NEW s \in Seq(Messages), NEW t \in Seq(Messages)
  PROVE  IsPrefix(s, s) /\ IsPrefix(s, s \o t)
<1>1. s \o t \in Seq(Messages) /\ Len(s \o t) = Len(s) + Len(t)
      /\ Len(s) \in Nat /\ Len(t) \in Nat
      /\ \A i \in 1..Len(s) : (s \o t)[i] = s[i] /\ s[i] \in Messages
  BY ConcatProperties, LenProperties, ElementOfSeq
<1>2. SubSeq(s, 1, Len(s)) = s
  BY SubSeqFull
<1>3. SubSeq(s \o t, 1, Len(s)) = s
  <2>1. /\ SubSeq(s \o t, 1, Len(s)) \in Seq(Messages)
        /\ Len(SubSeq(s \o t, 1, Len(s))) = Len(s)
        /\ \A i \in 1..Len(s) : SubSeq(s \o t, 1, Len(s))[i] = s[i]
    BY <1>1
  <2>2. QED
    BY <2>1, SeqEqual
<1>4. QED
  BY <1>1, <1>2, <1>3 DEF IsPrefix

\* A message that moves from the batch to the channel stays in its place.
LEMMA MoveKeepsConcat ==
  ASSUME NEW s \in Seq(Messages), NEW t \in Seq(Messages), t # <<>>
  PROVE  Append(s, Head(t)) \o Tail(t) = s \o t
<1>1. /\ Head(t) \in Messages /\ Head(t) = t[1] /\ Tail(t) \in Seq(Messages)
      /\ Len(Tail(t)) = Len(t) - 1 /\ Len(t) \in Nat \ {0} /\ Len(s) \in Nat
      /\ \A i \in 1..Len(Tail(t)) : Tail(t)[i] = t[i + 1]
  BY HeadTailProperties, LenProperties, EmptySeq
<1> DEFINE a == Append(s, Head(t))
<1>2. /\ a \in Seq(Messages) /\ Len(a) = Len(s) + 1
      /\ \A i \in 1..Len(s) : a[i] = s[i]
      /\ a[Len(s) + 1] = t[1]
  BY <1>1, AppendProperties
<1>3. /\ a \o Tail(t) \in Seq(Messages) /\ s \o t \in Seq(Messages)
      /\ Len(a \o Tail(t)) = Len(s) + Len(t) /\ Len(s \o t) = Len(s) + Len(t)
      /\ \A i \in 1..Len(s) + Len(t) :
           (a \o Tail(t))[i] = IF i <= Len(s) + 1 THEN a[i]
                               ELSE Tail(t)[i - (Len(s) + 1)]
      /\ \A i \in 1..Len(s) + Len(t) :
           (s \o t)[i] = IF i <= Len(s) THEN s[i] ELSE t[i - Len(s)]
  <2> HIDE DEF a
  <2>1. Len(a) + Len(Tail(t)) = Len(s) + Len(t)
    BY <1>1, <1>2
  <2>2. s \o t \in Seq(Messages) /\ Len(s \o t) = Len(s) + Len(t)
        /\ \A i \in 1..Len(s) + Len(t) :
             (s \o t)[i] = IF i <= Len(s) THEN s[i] ELSE t[i - Len(s)]
    BY ConcatProperties
  <2>3. /\ a \o Tail(t) \in Seq(Messages)
        /\ Len(a \o Tail(t)) = Len(a) + Len(Tail(t))
        /\ \A i \in 1..Len(a) + Len(Tail(t)) :
             (a \o Tail(t))[i] = IF i <= Len(a) THEN a[i] ELSE Tail(t)[i - Len(a)]
    BY <1>1, <1>2, ConcatProperties
  <2>4. QED
    BY <1>2, <2>1, <2>2, <2>3
<1>4. \A i \in 1..Len(s) + Len(t) : (a \o Tail(t))[i] = (s \o t)[i]
  <2> HIDE DEF a
  <2> SUFFICES ASSUME NEW i \in 1..Len(s) + Len(t)
               PROVE  (a \o Tail(t))[i] = (s \o t)[i]
    OBVIOUS
  <2>1. CASE i <= Len(s)
    BY <1>1, <1>2, <1>3, <2>1
  <2>2. CASE i = Len(s) + 1
    BY <1>1, <1>2, <1>3, <2>2
  <2>3. CASE i > Len(s) + 1
    <3>1. i - (Len(s) + 1) \in 1..Len(Tail(t))
          /\ (i - (Len(s) + 1)) + 1 = i - Len(s)
      BY <1>1, <2>3
    <3>2. Tail(t)[i - (Len(s) + 1)] = t[i - Len(s)]
      BY <1>1, <3>1
    <3>3. QED
      BY <1>1, <1>3, <2>3, <3>2
  <2>4. i <= Len(s) \/ i = Len(s) + 1 \/ i > Len(s) + 1
    BY <1>1
  <2>5. QED
    BY <2>1, <2>2, <2>3, <2>4
<1>5. QED
  <2> HIDE DEF a
  <2>1. a \o Tail(t) = s \o t
    BY <1>3, <1>4, SeqEqual
  <2>2. QED
    BY <2>1 DEF a

\* Head and Tail of a concatenation are those of its first part, if that has any.
LEMMA TailOfConcat ==
  ASSUME NEW s \in Seq(Messages), NEW t \in Seq(Messages), s # <<>>
  PROVE  Head(s \o t) = Head(s) /\ Tail(s \o t) = Tail(s) \o t
<1>1. /\ Len(s) \in Nat \ {0} /\ Len(t) \in Nat
      /\ Head(s) = s[1] /\ Tail(s) \in Seq(Messages)
      /\ Len(Tail(s)) = Len(s) - 1
      /\ \A i \in 1..Len(Tail(s)) : Tail(s)[i] = s[i + 1]
  BY HeadTailProperties, LenProperties, EmptySeq
<1>2. /\ s \o t \in Seq(Messages) /\ Len(s \o t) = Len(s) + Len(t)
      /\ s \o t # <<>>
      /\ \A i \in 1..Len(s) + Len(t) :
           (s \o t)[i] = IF i <= Len(s) THEN s[i] ELSE t[i - Len(s)]
  BY <1>1, ConcatProperties, EmptySeq
<1>3. /\ Head(s \o t) = (s \o t)[1] /\ Tail(s \o t) \in Seq(Messages)
      /\ Len(Tail(s \o t)) = Len(s) + Len(t) - 1
      /\ \A i \in 1..Len(s) + Len(t) - 1 : Tail(s \o t)[i] = (s \o t)[i + 1]
  BY <1>2, HeadTailProperties
<1>4. /\ Tail(s) \o t \in Seq(Messages)
      /\ Len(Tail(s) \o t) = Len(s) + Len(t) - 1
      /\ \A i \in 1..Len(s) + Len(t) - 1 :
           (Tail(s) \o t)[i] = IF i <= Len(s) - 1 THEN Tail(s)[i]
                               ELSE t[i - (Len(s) - 1)]
  <2>1. Len(Tail(s)) + Len(t) = Len(s) + Len(t) - 1
    BY <1>1
  <2>2. QED
    BY <1>1, <2>1, ConcatProperties
<1>5. \A i \in 1..Len(s) + Len(t) - 1 : Tail(s \o t)[i] = (Tail(s) \o t)[i]
  <2> SUFFICES ASSUME NEW i \in 1..Len(s) + Len(t) - 1
               PROVE  Tail(s \o t)[i] = (Tail(s) \o t)[i]
    OBVIOUS
  <2>1. i + 1 \in 1..Len(s) + Len(t) /\ (i + 1) - Len(s) = i - (Len(s) - 1)
    BY <1>1
  <2>2. Tail(s \o t)[i] = IF i + 1 <= Len(s) THEN s[i + 1]
                          ELSE t[i - (Len(s) - 1)]
    BY <1>2, <1>3, <2>1
  <2>3. QED
    BY <1>1, <1>4, <2>2
<1>6. Tail(s \o t) = Tail(s) \o t
  BY <1>3, <1>4, <1>5, SeqEqual
<1>7. QED
  BY <1>1, <1>2, <1>3, <1>6

\* What one step may do to the pipeline.
InOrder ==
  \/ IsPrefix(Pipeline, Pipeline')
  \/ /\ Pipeline' = Tail(Pipeline)
     /\ \E w \in Workers : held[w] = {} /\ held'[w] = {Head(Pipeline)}
  \/ poller' = "starting"

\* Every step extends the pipeline, takes its head, or is a crash.
LEMMA StepKeepsOrder == ASSUME IInv, [Next]_vars PROVE InOrder
<1>1. chn \in Seq(Messages) /\ batch \in Seq(Messages)
      /\ (poller = "push" <=> batch # <<>>)
      /\ Pipeline \in Seq(Messages)
  BY ConcatProperties DEF IInv, TypeOK, Pipeline
<1>2. ASSUME UNCHANGED <<chn, batch>> PROVE InOrder
  BY <1>1, <1>2, PrefixOfConcat DEF InOrder, Pipeline
<1>3. ASSUME NEW ms \in Batches, ReceiveMessage(ms) PROVE InOrder
  <2>1. batch = <<>> /\ chn' = chn /\ batch' = ms /\ ms \in Seq(Messages)
    BY <1>1, <1>3, BatchesAreVisible DEF ReceiveMessage
  <2>2. Pipeline = chn /\ Pipeline' = chn \o ms
    BY <1>1, <2>1, ConcatEmptySeq DEF Pipeline
  <2>3. QED
    BY <1>1, <2>1, <2>2, PrefixOfConcat DEF InOrder
<1>4. CASE PushMessage
  <2>1. /\ batch # <<>> /\ chn' = Append(chn, Head(batch))
        /\ batch' = Tail(batch)
    BY <1>1, <1>4 DEF PushMessage, MessageSent
  <2>2. Pipeline' = Pipeline
    BY <1>1, <2>1, MoveKeepsConcat DEF Pipeline
  <2>3. QED
    BY <1>1, <2>2, PrefixOfConcat DEF InOrder
<1>5. ASSUME NEW w \in Workers, HandOff(w) PROVE InOrder
  <2>1. /\ batch # <<>> /\ chn = <<>> /\ chn' = <<>> /\ batch' = Tail(batch)
        /\ held[w] = {} /\ held'[w] = {Head(batch)}
    BY <1>1, <1>5 DEF HandOff, MessageSent, Idle, IInv, TypeOK
  <2>2. Tail(batch) \in Seq(Messages)
    BY <1>1, <2>1, HeadTailProperties
  <2>3. Pipeline = batch /\ Pipeline' = Tail(batch)
    BY <1>1, <2>1, <2>2, ConcatEmptySeq DEF Pipeline
  <2>4. QED
    BY <2>1, <2>3 DEF InOrder
<1>6. ASSUME NEW w \in Workers, Take(w) PROVE InOrder
  <2>1. /\ chn # <<>> /\ chn' = Tail(chn) /\ batch' = batch
        /\ held[w] = {} /\ held'[w] = {Head(chn)}
    BY <1>1, <1>6 DEF Take, Idle, IInv, TypeOK
  <2>2. Pipeline' = Tail(Pipeline) /\ Head(Pipeline) = Head(chn)
    BY <1>1, <2>1, TailOfConcat DEF Pipeline
  <2>3. QED
    BY <2>1, <2>2 DEF InOrder
<1>7. ASSUME NEW w \in Workers, WorkerStep(w) PROVE InOrder
  BY <1>2, <1>7 DEF WorkerStep, Process, Abandon, DeleteMessage
<1>8. ASSUME NEW m \in Messages, SendMessage(m) \/ VisibilityTimeout(m)
      PROVE  InOrder
  BY <1>2, <1>8 DEF SendMessage, VisibilityTimeout, memory
<1>9. CASE NewQueue \/ (\E ms \in Batches : ReceiveFails(ms)) \/ UNCHANGED vars
  BY <1>2, <1>9 DEF NewQueue, ReceiveFails, vars, memory
<1>10. CASE Crash
  BY <1>10 DEF Crash, InOrder
<1>11. QED
  BY <1>3, <1>4, <1>5, <1>6, <1>7, <1>8, <1>9, <1>10 DEF Next, WorkerStep

\* The poller sends the messages of a batch one after another and a channel
\* is first in, first out, so none is skipped or overtaken (sqs.go:94-97).
THEOREM OrderIsKept == Spec => HandOffKeepsOrder
<1>1. IInv /\ [Next]_vars => [InOrder]_vars
  BY StepKeepsOrder
<1>2. Spec => [][InOrder]_vars
  BY <1>1, Invariance, PTL DEF Spec
<1>3. QED
  BY <1>2 DEF HandOffKeepsOrder, InOrder

\* What was acknowledged and not yet processed is still in the queue, visible
\* or hidden, wherever its copies in memory went.
NoneLost == \A m \in acked \ processed : store[m] \in {"visible", "inflight"}

AckedWasSent == \A m \in acked : store[m] # "unsent"

\* Every step leaves acknowledged messages sent.
LEMMA AckedWasSentIsKept ==
  ASSUME TypeOK, AckedWasSent, [Next]_vars
  PROVE  AckedWasSent'
<1>1. ASSUME NEW m \in Messages, SendMessage(m) PROVE AckedWasSent'
  <2>1. acked' \subseteq acked \cup {m}
    BY <1>1 DEF SendMessage
  <2>2. \A n \in Messages : store'[n] = IF n = m THEN "visible" ELSE store[n]
    BY <1>1 DEF SendMessage, TypeOK
  <2>3. QED
    BY <2>1, <2>2 DEF AckedWasSent, TypeOK
<1>2. ASSUME NEW m \in Messages, VisibilityTimeout(m) PROVE AckedWasSent'
  BY <1>2 DEF VisibilityTimeout, AckedWasSent, TypeOK
<1>3. ASSUME NEW ms \in Batches, ReceiveMessage(ms) \/ ReceiveFails(ms)
      PROVE  AckedWasSent'
  BY <1>3 DEF ReceiveMessage, ReceiveFails, Hide, AckedWasSent, TypeOK
<1>4. ASSUME NEW w \in Workers, DeleteMessage(w) PROVE AckedWasSent'
  BY <1>4 DEF DeleteMessage, AckedWasSent, TypeOK
<1>5. ASSUME NEW w \in Workers,
             HandOff(w) \/ Take(w) \/ (\E m \in Messages : Process(w, m)) \/ Abandon(w)
      PROVE  AckedWasSent'
  BY <1>5 DEF HandOff, Take, Process, Abandon, AckedWasSent
<1>6. CASE NewQueue \/ PushMessage \/ Crash \/ UNCHANGED vars
  BY <1>6 DEF NewQueue, PushMessage, Crash, vars, AckedWasSent
<1>7. QED
  BY <1>1, <1>2, <1>3, <1>4, <1>5, <1>6 DEF Next

\* The safety behind AckedIsProcessed: a message SendMessage returned nil for
\* is not lost before it is processed, through crashes and failed handlers.
THEOREM AckedIsKept == Spec => []NoneLost
<1>1. Init => AckedWasSent
  BY DEF Init, AckedWasSent
<1>2. IInv /\ AckedWasSent /\ [Next]_vars => AckedWasSent'
  BY AckedWasSentIsKept DEF IInv
<1>3. IInv /\ AckedWasSent => NoneLost
  BY DEF IInv, TypeOK, DeletesProcessed, AckedWasSent, NoneLost
<1>4. QED
  BY <1>1, <1>2, <1>3, Invariance, PTL DEF Spec

-----------------------------------------------------------------------------
(***************************************************************************)
(* The queue and the process implement AtLeastOnce.                        *)
(***************************************************************************)

StatusOf(state) ==
  CASE state = "unsent"  -> "new"
    [] state = "deleted" -> "deleted"
    [] OTHER             -> "accepted"

Status == [m \in Messages |-> StatusOf(store[m])]

Abstract == INSTANCE AtLeastOnce WITH status <- Status

LEMMA SameAbstraction == Delivery!Spec <=> Abstract!Spec
  BY DEF Delivery!Spec, Delivery!Init, Delivery!Next, Delivery!Accept,
         Delivery!Process, Delivery!Delete, Delivery!vars,
         Abstract!Spec, Abstract!Init, Abstract!Next, Abstract!Accept,
         Abstract!Process, Abstract!Delete, Abstract!vars, Status, StatusOf

\* A step that gives no message another status and processes none.
LEMMA Stutters ==
  ASSUME processed' = processed,
         \A m \in Messages : StatusOf(store'[m]) = StatusOf(store[m])
  PROVE  UNCHANGED Abstract!vars
  BY DEF Abstract!vars, Status

LEMMA ProcessMaps ==
  ASSUME IInv, NEW w \in Workers, NEW m \in Messages, Process(w, m)
  PROVE  Abstract!Process(m)
<1>1. InMemory(m)
  BY DEF Process, InMemory
<1>2. store[m] # "unsent" /\ store' = store /\ processed' = processed \cup {m}
  BY <1>1 DEF IInv, SentOnly, Process
<1>3. StatusOf(store[m]) # "new"
  BY <1>2 DEF StatusOf
<1>4. QED
  BY <1>2, <1>3 DEF Abstract!Process, Status

\* A delete that takes effect takes what the worker held, which it processed.
LEMMA DeleteMaps ==
  ASSUME IInv, NEW w \in Workers, DeleteMessage(w)
  PROVE  UNCHANGED Abstract!vars \/ \E m \in Messages : Abstract!Delete(m)
<1>1. PICK m \in Messages : held[w] = {m}
  BY DEF IInv, TypeOK, DeleteMessage
<1>2. m \in processed /\ processed' = processed
  BY <1>1 DEF IInv, DeletesProcessed, DeleteMessage
<1>3. CASE store' = store
  BY <1>2, <1>3, Stutters
<1>4. CASE store' # store
  <2>1. store' = [n \in Messages |->
                    IF n \in held[w] THEN "deleted" ELSE store[n]]
    BY <1>4 DEF DeleteMessage
  <2>2. \A n \in Messages :
          StatusOf(store'[n]) = IF n = m THEN "deleted" ELSE StatusOf(store[n])
    BY <1>1, <2>1 DEF StatusOf
  <2>3. Status' = [Status EXCEPT ![m] = "deleted"]
    BY <2>2 DEF Status
  <2>4. QED
    BY <1>2, <2>3 DEF Abstract!Delete
<1>5. QED
  BY <1>3, <1>4

LEMMA StepMaps ==
  ASSUME IInv, [Next]_vars
  PROVE  [Abstract!Next]_Abstract!vars
<1>1. ASSUME NEW m \in Messages, SendMessage(m)
      PROVE  Abstract!Accept(m)
  <2>1. /\ store[m] = "unsent" /\ processed' = processed
        /\ \A n \in Messages : store'[n] = IF n = m THEN "visible" ELSE store[n]
    BY <1>1 DEF IInv, TypeOK, SendMessage
  <2>2. StatusOf(store[m]) = "new" /\ StatusOf("visible") = "accepted"
    BY <2>1 DEF StatusOf
  <2>3. Status' = [Status EXCEPT ![m] = "accepted"]
    BY <2>1, <2>2 DEF Status
  <2>4. QED
    BY <2>1, <2>2, <2>3 DEF Abstract!Accept, Status
<1>2. ASSUME NEW m \in Messages, VisibilityTimeout(m)
      PROVE  UNCHANGED Abstract!vars
  <2>1. \A n \in Messages : \/ store'[n] = store[n]
                            \/ store[n] = "inflight" /\ store'[n] = "visible"
    BY <1>2 DEF IInv, TypeOK, VisibilityTimeout
  <2>2. processed' = processed
    BY <1>2 DEF VisibilityTimeout
  <2>3. QED
    BY <2>1, <2>2, Stutters DEF StatusOf
<1>3. ASSUME NEW ms \in Batches, ReceiveMessage(ms) \/ ReceiveFails(ms)
      PROVE  UNCHANGED Abstract!vars
  <2>1. \A n \in Messages : \/ store'[n] = store[n]
                            \/ store[n] = "visible" /\ store'[n] = "inflight"
    BY <1>3, BatchesAreVisible DEF ReceiveMessage, ReceiveFails, Hide
  <2>2. processed' = processed
    BY <1>3 DEF ReceiveMessage, ReceiveFails
  <2>3. QED
    BY <2>1, <2>2, Stutters DEF StatusOf
<1>4. ASSUME NEW w \in Workers, HandOff(w) \/ Take(w) \/ Abandon(w)
      PROVE  UNCHANGED Abstract!vars
  BY <1>4, Stutters DEF HandOff, Take, Abandon
<1>5. CASE NewQueue \/ PushMessage \/ Crash \/ UNCHANGED vars
  BY <1>5, Stutters DEF NewQueue, PushMessage, Crash, vars
<1>6. QED
  BY <1>1, <1>2, <1>3, <1>4, <1>5, ProcessMaps, DeleteMaps
  DEF Next, Abstract!Next

\* Through timeouts, crashes, deletes that fail and handlers that fail, a
\* message is processed only after SQS accepted it and goes only after it was
\* processed (sqs.go:58-98).
THEOREM Refinement == Spec => ImplementsAtLeastOnce
<1>1. Init => Abstract!Init
  BY DEF Init, Abstract!Init, Status, StatusOf
<1>2. Spec => Abstract!Spec
  BY <1>1, StepMaps, Invariance, PTL DEF Spec, Abstract!Spec
<1>3. QED
  BY <1>2, SameAbstraction DEF ImplementsAtLeastOnce

-----------------------------------------------------------------------------
(***************************************************************************)
(* KafkaPublisher.                                                         *)
(***************************************************************************)

\* The buffer is filled before the first attempt, and a call that still
\* sends has a retry left.
Progress ==
  \A c \in Calls :
    /\ pc[c] \in {"start", "encode"} => body[c] = "none" /\ attempts[c] = 0
    /\ pc[c] = "send" => body[c] # "none" /\ attempts[c] <= RetryMax

\* Only an empty buffer leaves an empty record, and its error is in err
\* until the return statement takes it.
EmptyIsKnown ==
  \A c \in Calls :
    /\ log[c].empty > 0 => body[c] = "empty"
    /\ body[c] = "empty" =>
         IF pc[c] \in {"close", "done"} THEN result[c] = "encodeErr"
                                        ELSE err[c] = "encodeErr"

PublisherIInv == PublisherTypeOK /\ Progress /\ EmptyIsKnown

LEMMA PublisherInitEstablishes == PublisherInit => PublisherIInv
  BY RetryMaxAssumption
  DEF PublisherInit, PublisherIInv, PublisherTypeOK, Progress, EmptyIsKnown,
      Errors

\* An attempt adds at most one record, of the body the call sends.
LEMMA AppendAddsOne ==
  ASSUME PublisherTypeOK, NEW c \in Calls, body[c] # "none",
         AppendRecord(c) \/ UNCHANGED log
  PROVE  /\ log' \in [Calls -> [payload : Nat, empty : Nat]]
         /\ \A d \in Calls : d # c => log'[d] = log[d]
         /\ log'[c].payload + log'[c].empty <= log[c].payload + log[c].empty + 1
         /\ log'[c].empty > 0 => log[c].empty > 0 \/ body[c] = "empty"
<1>1. log[c] \in [payload : Nat, empty : Nat] /\ body[c] \in {"payload", "empty"}
  BY DEF PublisherTypeOK
<1>2. CASE UNCHANGED log
  BY <1>1, <1>2 DEF PublisherTypeOK
<1>3. CASE AppendRecord(c)
  <2>1. log' = [log EXCEPT ![c] = [log[c] EXCEPT ![body[c]] = @ + 1]]
    BY <1>3 DEF AppendRecord
  <2>2. CASE body[c] = "payload"
    BY <1>1, <2>1, <2>2 DEF PublisherTypeOK
  <2>3. CASE body[c] = "empty"
    BY <1>1, <2>1, <2>3 DEF PublisherTypeOK
  <2>4. QED
    BY <1>1, <2>2, <2>3
<1>4. QED
  BY <1>2, <1>3

LEMMA SendPreserves ==
  ASSUME PublisherIInv, NEW c \in Calls, SendAcknowledged(c) \/ SendUnanswered(c)
  PROVE  PublisherIInv'
<1>1. /\ pc[c] = "send" /\ pc' \in {[pc EXCEPT ![c] = "return"],
                                    [pc EXCEPT ![c] = "send"]}
      /\ attempts' = [attempts EXCEPT ![c] = @ + 1]
      /\ AppendRecord(c) \/ UNCHANGED log
      /\ pc'[c] = "send" => attempts[c] # RetryMax
      /\ UNCHANGED <<err, body, open, result>>
  BY DEF PublisherIInv, PublisherTypeOK, SendAcknowledged, SendUnanswered, Goto
<1>2. body[c] # "none" /\ attempts[c] \in 0..RetryMax
  BY <1>1, RetryMaxAssumption DEF PublisherIInv, PublisherTypeOK, Progress
<1>3. /\ log' \in [Calls -> [payload : Nat, empty : Nat]]
      /\ \A d \in Calls : d # c => log'[d] = log[d]
      /\ log'[c].payload + log'[c].empty <= log[c].payload + log[c].empty + 1
      /\ log'[c].empty > 0 => log[c].empty > 0 \/ body[c] = "empty"
  BY <1>1, <1>2, AppendAddsOne DEF PublisherIInv
<1>4. \A d \in Calls : log'[d].payload + log'[d].empty <= attempts'[d]
  <2> SUFFICES ASSUME NEW d \in Calls
               PROVE  log'[d].payload + log'[d].empty <= attempts'[d]
    OBVIOUS
  <2>1. log[d].payload + log[d].empty <= attempts[d]
        /\ log[d] \in [payload : Nat, empty : Nat]
        /\ log'[d] \in [payload : Nat, empty : Nat]
        /\ attempts'[d] = IF d = c THEN attempts[d] + 1 ELSE attempts[d]
    BY <1>1, <1>3 DEF PublisherIInv, PublisherTypeOK
  <2>2. attempts[d] \in Nat
    BY RetryMaxAssumption DEF PublisherIInv, PublisherTypeOK
  <2>3. QED
    BY <1>3, <2>1, <2>2
<1>5. attempts' \in [Calls -> 0..(RetryMax + 1)]
  BY <1>1, <1>2, RetryMaxAssumption DEF PublisherIInv, PublisherTypeOK
<1>6. PublisherTypeOK'
  BY <1>1, <1>3, <1>4, <1>5 DEF PublisherIInv, PublisherTypeOK
<1>7. Progress'
  <2>1. pc'[c] \in {"return", "send"} /\ attempts'[c] = attempts[c] + 1
    BY <1>1 DEF PublisherIInv, PublisherTypeOK
  <2>2. pc'[c] = "send" => attempts'[c] <= RetryMax
    BY <1>1, <1>2, <2>1, RetryMaxAssumption
  <2>3. \A d \in Calls : d # c => /\ pc'[d] = pc[d]
                                 /\ attempts'[d] = attempts[d]
    BY <1>1 DEF PublisherIInv, PublisherTypeOK
  <2>4. QED
    BY <1>1, <1>2, <2>1, <2>2, <2>3 DEF PublisherIInv, Progress
<1>8. EmptyIsKnown'
  BY <1>1, <1>3 DEF PublisherIInv, PublisherTypeOK, EmptyIsKnown
<1>9. QED
  BY <1>6, <1>7, <1>8 DEF PublisherIInv

LEMMA OtherStepsPreserve ==
  ASSUME PublisherIInv, NEW c \in Calls,
         \/ NewProducer(c) \/ NewProducerFails(c)
         \/ Encode(c) \/ EncodeFails(c)
         \/ Return(c) \/ Close(c)
  PROVE  PublisherIInv'
<1> USE RetryMaxAssumption DEF PublisherIInv, Goto, Errors
<1>1. CASE NewProducer(c)
  BY <1>1 DEF PublisherTypeOK, Progress, EmptyIsKnown, NewProducer
<1>2. CASE NewProducerFails(c)
  BY <1>2 DEF PublisherTypeOK, Progress, EmptyIsKnown, NewProducerFails
<1>3. CASE Encode(c)
  BY <1>3 DEF PublisherTypeOK, Progress, EmptyIsKnown, Encode
<1>4. CASE EncodeFails(c)
  BY <1>4 DEF PublisherTypeOK, Progress, EmptyIsKnown, EncodeFails
<1>5. CASE Return(c)
  BY <1>5 DEF PublisherTypeOK, Progress, EmptyIsKnown, Return
<1>6. CASE Close(c)
  BY <1>6 DEF PublisherTypeOK, Progress, EmptyIsKnown, Close
<1>7. QED
  BY <1>1, <1>2, <1>3, <1>4, <1>5, <1>6

LEMMA PublisherInvariance == PublisherSpec => []PublisherIInv
<1>1. PublisherIInv /\ [PublisherNext]_publisherVars => PublisherIInv'
  <2>1. PublisherIInv /\ PublisherNext => PublisherIInv'
    BY SendPreserves, OtherStepsPreserve DEF PublisherNext, Publish
  <2>2. PublisherIInv /\ UNCHANGED publisherVars => PublisherIInv'
    BY DEF publisherVars, PublisherIInv, PublisherTypeOK, Progress, EmptyIsKnown
  <2>3. QED
    BY <2>1, <2>2
<1>2. QED
  BY <1>1, PublisherInitEstablishes, PTL DEF PublisherSpec

\* Type correctness; a message leaves no more copies on the topic than
\* attempts were made, RetryMax + 1 at most.
THEOREM PublisherTypeCorrect == PublisherSpec => []PublisherTypeOK
<1>1. PublisherIInv => PublisherTypeOK
  BY DEF PublisherIInv
<1>2. QED
  BY <1>1, PublisherInvariance, PTL

\* A call that appended an empty record reports the encoding error: err is
\* shadowed for the send (sarama.go:104) but not for the encoder (:94).
THEOREM EmptyIsReported == PublisherSpec => []EmptyRecordReported
<1>1. PublisherIInv => EmptyRecordReported
  BY DEF PublisherIInv, PublisherTypeOK, EmptyIsKnown, EmptyRecordReported
<1>2. QED
  BY <1>1, PublisherInvariance, PTL
=============================================================================
