---------------------------- MODULE Notifications ----------------------------
(***************************************************************************)
(* The notification service: processes that pull payment.completed events  *)
(* from one durable JetStream consumer, record the message id in           *)
(* processed_messages, send the notification, and acknowledge.             *)
(*                                                                         *)
(* JetStream redelivers a message that was Nak'ed, or not acknowledged     *)
(* within AckWait, at most MaxDeliver times in all, and hands out no       *)
(* further message while one is outstanding (MaxAckPending = 1).  AckWait  *)
(* can expire while a slow process still works on the delivery, so another *)
(* process, or a restarted one, may handle the same message at the same    *)
(* time.  The stream can also hold one message id twice, once its          *)
(* duplicate window has passed.                                            *)
(***************************************************************************)
EXTENDS Naturals, Sequences, FiniteSets

CONSTANTS Workers,       \* processes that run the consumer
          MessageIds,
          NoId,          \* an event that cannot be decoded, or has no message id
          MaxDeliver,    \* NOTIFICATION_MAX_DELIVER, 3 by default
          MaxMessages,   \* bound: events published
          MaxFaults,     \* bound: failed database and broker operations
          MaxCrashes     \* bound: crashes of a process

ASSUME ConstantsAssumption ==
  /\ NoId \notin MessageIds
  /\ MaxDeliver \in Nat \ {0}
  /\ MaxMessages \in Nat /\ MaxFaults \in Nat /\ MaxCrashes \in Nat

Event == [id : MessageIds \cup {NoId}, complete : BOOLEAN]
Sequences == 1..MaxMessages
Statuses == {"new", "pending", "due", "acked", "dropped"}
PCs == {"fetch", "handle", "notify", "failed", "ack"}

VARIABLES
  \* JetStream
  stream,      \* the events of the subject, by stream sequence
  status,      \* where the durable consumer is with each of them
  deliveries,  \* NumDelivered of each of them
  dlq,         \* message ids in payment.completed.dlq
  \* the service's database, and what it logged
  processed,   \* processed_messages
  sent,        \* how often each id was notified
  \* the processes
  pc,
  job,         \* the stream sequence being handled
  delivery,    \* NumDelivered in the metadata of the delivery being handled
  \* the environment
  faults, crashes

consumer == <<status, deliveries>>
workers == <<pc, job, delivery>>
env == <<faults, crashes>>
vars == <<stream, status, deliveries, dlq, processed, sent, pc, job, delivery, faults,
          crashes>>

------------------------------------------------------------------------------
Published == 1..Len(stream)
In(s, set) == s \in Published /\ status[s] \in set

\* The checks of HandlePaymentCompleted and, before them, of the decoder.
Accepted(e) == e.id # NoId /\ e.complete

IdOf(w) == stream[job[w]].id

\* An event without a message id is dead-lettered under its stream sequence.
DeadId(s) == IF stream[s].id = NoId THEN s ELSE stream[s].id

Goto(w, label) == pc' = [pc EXCEPT ![w] = label]
Fault == faults < MaxFaults /\ faults' = faults + 1 /\ UNCHANGED crashes

Init ==
  /\ stream = << >>
  /\ status = [s \in Sequences |-> "new"]
  /\ deliveries = [s \in Sequences |-> 0]
  /\ dlq = {}
  /\ processed = {}
  /\ sent = [m \in MessageIds |-> 0]
  /\ pc = [w \in Workers |-> "fetch"]
  /\ job = [w \in Workers |-> 0]
  /\ delivery = [w \in Workers |-> 0]
  /\ faults = 0
  /\ crashes = 0

------------------------------------------------------------------------------
\* JetStream, as the consumer configuration asks of it

Publish(e) ==
  /\ Len(stream) < MaxMessages
  /\ stream' = Append(stream, e)
  /\ UNCHANGED <<consumer, dlq, processed, sent, workers, env>>

\* Mutant: a consumer without AckWait, that waits for an answer for ever.
NeverExpires(s) == FALSE /\ UNCHANGED vars

\* AckWait has passed without an Ack or a Nak.
AckWaitExpires(s) ==
  /\ In(s, {"pending"})
  /\ status' = [status EXCEPT ![s] = "due"]
  /\ UNCHANGED <<stream, deliveries, dlq, processed, sent, workers, env>>

\* MaxDeliver deliveries were made in vain; the consumer goes on to the next message.
Drop(s) ==
  /\ In(s, {"due"})
  /\ deliveries[s] >= MaxDeliver
  /\ status' = [status EXCEPT ![s] = "dropped"]
  /\ UNCHANGED <<stream, deliveries, dlq, processed, sent, workers, env>>

\* Mutant: a consumer configured without MaxDeliver, or with more than the service uses.
DeliverableForEver(s) ==
  \/ In(s, {"due"})
  \/ /\ In(s, {"new"})
     /\ \A t \in Published : /\ status[t] \notin {"pending", "due"}
                             /\ status[t] = "new" => s <= t

\* What a fetch can return: a message due again, or else the next new one.
Deliverable(s) ==
  \/ In(s, {"due"}) /\ deliveries[s] < MaxDeliver
  \/ /\ In(s, {"new"})
     /\ \A t \in Published : /\ status[t] \notin {"pending", "due"}
                             /\ status[t] = "new" => s <= t

\* message.Ack and message.NakWithDelay; of a message no longer outstanding they are
\* ignored.
Acked(s) == status' = IF status[s] \in {"pending", "due"}
                      THEN [status EXCEPT ![s] = "acked"] ELSE status
Naked(s) == status' = IF status[s] = "pending"
                      THEN [status EXCEPT ![s] = "due"] ELSE status

------------------------------------------------------------------------------
\* The processes

Fetch(w, s) ==
  /\ pc[w] = "fetch"
  /\ Deliverable(s)
  /\ status' = [status EXCEPT ![s] = "pending"]
  /\ deliveries' = [deliveries EXCEPT ![s] = @ + 1]
  /\ job' = [job EXCEPT ![w] = s]
  /\ delivery' = [delivery EXCEPT ![w] = deliveries[s] + 1]
  /\ Goto(w, "handle")
  /\ UNCHANGED <<stream, dlq, processed, sent, env>>

Reject(w) ==
  /\ pc[w] = "handle"
  /\ ~Accepted(stream[job[w]])
  /\ Goto(w, "failed")
  /\ UNCHANGED <<stream, consumer, dlq, processed, sent, job, delivery, env>>

\* Mutant: the result of the insert is not looked at, and a duplicate sent again.
MarkAlways(w) ==
  /\ pc[w] = "handle"
  /\ Accepted(stream[job[w]])
  /\ processed' = processed \cup {IdOf(w)}
  /\ Goto(w, "notify")
  /\ UNCHANGED <<stream, consumer, dlq, sent, job, delivery, env>>

\* Mutant: the result of the insert is negated, and the first delivery not notified.
MarkWithoutNotice(w) ==
  /\ pc[w] = "handle"
  /\ Accepted(stream[job[w]])
  /\ processed' = processed \cup {IdOf(w)}
  /\ IF IdOf(w) \in processed THEN Goto(w, "notify") ELSE Goto(w, "ack")
  /\ UNCHANGED <<stream, consumer, dlq, sent, job, delivery, env>>

\* MarkProcessed: INSERT ... ON CONFLICT DO NOTHING, and whether a row was inserted.
Mark(w) ==
  /\ pc[w] = "handle"
  /\ Accepted(stream[job[w]])
  /\ processed' = processed \cup {IdOf(w)}
  /\ IF IdOf(w) \in processed THEN Goto(w, "ack") ELSE Goto(w, "notify")
  /\ UNCHANGED <<stream, consumer, dlq, sent, job, delivery, env>>

\* Mutant: the error is logged and the message acknowledged.
MarkErrorIgnored(w) ==
  /\ pc[w] = "handle"
  /\ Accepted(stream[job[w]])
  /\ Fault
  /\ Goto(w, "ack")
  /\ UNCHANGED <<stream, consumer, dlq, processed, sent, job, delivery>>

\* The insert fails, or its commit is not heard of.
MarkFails(w) ==
  /\ pc[w] = "handle"
  /\ Accepted(stream[job[w]])
  /\ Fault
  /\ processed' \in {processed, processed \cup {IdOf(w)}}
  /\ Goto(w, "failed")
  /\ UNCHANGED <<stream, consumer, dlq, sent, job, delivery>>

Notify(w) ==
  /\ pc[w] = "notify"
  /\ sent' = [sent EXCEPT ![IdOf(w)] = @ + 1]
  /\ Goto(w, "ack")
  /\ UNCHANGED <<stream, consumer, dlq, processed, job, delivery, env>>

\* The end of a delivery; whatever happens to the Ack the loop goes on.
Ack(w) ==
  /\ pc[w] = "ack"
  /\ Acked(job[w])
  /\ Goto(w, "fetch")
  /\ UNCHANGED <<stream, deliveries, dlq, processed, sent, job, delivery, env>>

AckLost(w) ==
  /\ pc[w] = "ack"
  /\ Fault
  /\ Goto(w, "fetch")
  /\ UNCHANGED <<stream, consumer, dlq, processed, sent, job, delivery>>

\* Mutant: one delivery too few.
LastDeliveryEarly(w) == delivery[w] + 1 >= MaxDeliver

\* handleFailure tells by the metadata of the delivery whether another will come.
LastDelivery(w) == delivery[w] >= MaxDeliver

Retry(w) ==
  /\ pc[w] = "failed"
  /\ ~LastDelivery(w)
  /\ Naked(job[w])
  /\ Goto(w, "fetch")
  /\ UNCHANGED <<stream, deliveries, dlq, processed, sent, job, delivery, env>>

\* A Nak that is lost leaves the message to AckWait.
RetryLost(w) ==
  /\ pc[w] = "failed"
  /\ ~LastDelivery(w)
  /\ Fault
  /\ Goto(w, "fetch")
  /\ UNCHANGED <<stream, consumer, dlq, processed, sent, job, delivery>>

\* Mutant: the message is acknowledged without being dead-lettered.
DeadLetterSkipped(w) ==
  /\ pc[w] = "failed"
  /\ LastDelivery(w)
  /\ Goto(w, "ack")
  /\ UNCHANGED <<stream, consumer, dlq, processed, sent, job, delivery, env>>

\* JetStream deduplicates dead letters by their message id too.
DeadLetter(w) ==
  /\ pc[w] = "failed"
  /\ LastDelivery(w)
  /\ dlq' = dlq \cup {DeadId(job[w])}
  /\ Goto(w, "ack")
  /\ UNCHANGED <<stream, consumer, processed, sent, job, delivery, env>>

\* The dead letter is not stored, or not known to be: the message is Nak'ed, although
\* it will not be delivered again.
DeadLetterFails(w) ==
  /\ pc[w] = "failed"
  /\ LastDelivery(w)
  /\ Fault
  /\ dlq' \in {dlq, dlq \cup {DeadId(job[w])}}
  /\ Naked(job[w])
  /\ Goto(w, "fetch")
  /\ UNCHANGED <<stream, deliveries, processed, sent, job, delivery>>

\* A process dies and is started again; what it was doing is forgotten.
Crash(w) ==
  /\ pc[w] # "fetch"
  /\ crashes < MaxCrashes
  /\ crashes' = crashes + 1
  /\ Goto(w, "fetch")
  /\ UNCHANGED <<stream, consumer, dlq, processed, sent, job, delivery, faults>>

------------------------------------------------------------------------------
Receive(w) == \E s \in Published : Fetch(w, s)
Progress(w) ==
  Receive(w) \/ Reject(w) \/ Mark(w) \/ Notify(w) \/ Ack(w) \/ Retry(w) \/ DeadLetter(w)
Failure(w) ==
  MarkFails(w) \/ AckLost(w) \/ RetryLost(w) \/ DeadLetterFails(w) \/ Crash(w)
Timers(s) == AckWaitExpires(s) \/ Drop(s)

Next ==
  \/ \E e \in Event : Publish(e)
  \/ \E s \in Sequences : Timers(s)
  \/ \E w \in Workers : Progress(w) \/ Failure(w)

Spec == Init /\ [][Next]_vars

\* The processes run their loop, and the broker's timers fire.
FairSpec ==
  /\ Spec
  /\ \A w \in Workers : WF_vars(Progress(w))
  /\ \A s \in Sequences : WF_vars(AckWaitExpires(s)) /\ WF_vars(Drop(s))

------------------------------------------------------------------------------
\* Every variable has its type.
TypeOK ==
  /\ stream \in Seq(Event) /\ Len(stream) <= MaxMessages
  /\ status \in [Sequences -> Statuses]
  /\ deliveries \in [Sequences -> 0..MaxDeliver]
  /\ dlq \subseteq MessageIds \cup Sequences
  /\ processed \subseteq MessageIds
  /\ sent \in [MessageIds -> Nat]
  /\ pc \in [Workers -> PCs]
  /\ job \in [Workers -> 0..MaxMessages]
  /\ \A w \in Workers : pc[w] # "fetch" => job[w] \in Published
  /\ delivery \in [Workers -> 0..MaxDeliver]
  /\ faults \in 0..MaxFaults
  /\ crashes \in 0..MaxCrashes

\* However often an event is stored, delivered or handled by two processes at once, a
\* message id is notified once at most (README.md:12: message deduplication).
NotifiedOnce == \A m \in MessageIds : sent[m] <= 1

\* An event is acknowledged only when its id has been recorded or dead-lettered, so
\* JetStream never forgets one that left no trace.
AckedIsSettled ==
  \A s \in Published :
    status[s] = "acked" => stream[s].id \in processed \/ DeadId(s) \in dlq

\* The id is recorded before the notification goes out, and what goes missing in
\* between is at most one notification per failure.
InHand(m) == \E w \in Workers : pc[w] = "notify" /\ IdOf(w) = m
Unsent == {m \in processed : sent[m] = 0 /\ ~InHand(m)}
LostPerFailure == Cardinality(Unsent) <= faults + crashes

\* A dead letter has used up every delivery (README.md:12: after retry exhaustion).
DeadAfterRetries ==
  \A s \in Published :
    DeadId(s) \in dlq =>
      \E t \in Published : DeadId(t) = DeadId(s) /\ deliveries[t] = MaxDeliver

\* Fewer failures than deliveries cannot keep a well-formed event from being recorded.
AcceptedIsProcessed ==
  \A s \in Sequences :
    s \in Published /\ Accepted(stream[s])
      ~> s \in Published /\ stream[s].id \in processed

\* No event, malformed or not, and no crash holds up the events behind it for ever.
EveryEventIsFinished ==
  \A s \in Sequences : s \in Published ~> status[s] \in {"acked", "dropped"}

\* "a payment.completed.dlq subject after retry exhaustion" (README.md:12): an event
\* that is not delivered again and that no process still works on is in the
\* dead-letter subject, unless it was recorded.
Held(s) == \E w \in Workers : pc[w] # "fetch" /\ job[w] = s
ExhaustedIsDeadLettered ==
  \A s \in Published :
    status[s] = "dropped" /\ ~Held(s) => stream[s].id \in processed \/ DeadId(s) \in dlq
==============================================================================
