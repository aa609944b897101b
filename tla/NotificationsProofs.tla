------------------------- MODULE NotificationsProofs -------------------------
(***************************************************************************)
(* Proofs about Notifications, for any number of processes, deliveries,    *)
(* faults and crashes: what is acknowledged left a trace, nobody is        *)
(* notified twice, and each failure costs one notification at most.        *)
(***************************************************************************)
EXTENDS Notifications, TLAPS, SequenceTheorems, FiniteSetTheorems

USE DEF consumer, workers, env, Goto

\* The type invariant in parts.
StreamTypes == stream \in Seq(Event) /\ Len(stream) <= MaxMessages

ConsumerTypes ==
  /\ status \in [Sequences -> Statuses]
  /\ deliveries \in [Sequences -> 0..MaxDeliver]

StoreTypes ==
  /\ dlq \subseteq MessageIds \cup Sequences
  /\ processed \subseteq MessageIds
  /\ sent \in [MessageIds -> Nat]

WorkerTypes ==
  /\ pc \in [Workers -> PCs]
  /\ job \in [Workers -> 0..MaxMessages]
  /\ \A w \in Workers : pc[w] # "fetch" => job[w] \in Published
  /\ delivery \in [Workers -> 0..MaxDeliver]

EnvTypes == faults \in 0..MaxFaults /\ crashes \in 0..MaxCrashes

\* A message that was never handed out has no deliveries.
Fresh ==
  \A s \in Sequences :
    /\ status[s] = "new" => deliveries[s] = 0
    /\ s \notin Published => status[s] = "new"

TypeInv ==
  StreamTypes /\ ConsumerTypes /\ StoreTypes /\ WorkerTypes /\ EnvTypes /\ Fresh

LEMMA TypeParts == TypeInv => TypeOK
  BY DEF TypeInv, TypeOK, StreamTypes, ConsumerTypes, StoreTypes, WorkerTypes, EnvTypes

\* The steps of a process that has a message in hand.
Local(w) ==
  Reject(w) \/ Mark(w) \/ Notify(w) \/ Ack(w) \/ Retry(w) \/ DeadLetter(w) \/ Failure(w)

LEMMA Cases ==
  ASSUME [Next]_vars
  PROVE  \/ \E e \in Event : Publish(e)
         \/ \E s \in Sequences : Timers(s)
         \/ \E w \in Workers, s \in Published : Fetch(w, s)
         \/ \E w \in Workers : Local(w)
         \/ UNCHANGED vars
  BY DEF Next, Progress, Receive, Local

\* What is in the stream stays there.
LEMMA StreamKept ==
  ASSUME TypeInv, [Next]_vars
  PROVE  /\ Published \subseteq Sequences
         /\ \A s \in Published : s \in Published' /\ stream'[s] = stream[s]
         /\ \A s \in Published : DeadId(s)' = DeadId(s)
<1>1. Len(stream) \in Nat /\ Len(stream) <= MaxMessages /\ stream \in Seq(Event)
  BY DEF TypeInv, StreamTypes
<1>2. Published \subseteq Sequences
  BY <1>1, ConstantsAssumption DEF Published, Sequences
<1>3. \A s \in Published : s \in Published' /\ stream'[s] = stream[s]
  <2>1. CASE \E e \in Event : Publish(e)
    <3>1. PICK e \in Event : Publish(e)
      BY <2>1
    <3>2. stream' = Append(stream, e)
      BY <3>1 DEF Publish
    <3> QED BY <1>1, <3>2, AppendProperties DEF Published
  <2>2. CASE stream' = stream
    BY <2>2 DEF Published
  <2>3. (\E e \in Event : Publish(e)) \/ stream' = stream
    BY Cases DEF Timers, AckWaitExpires, Drop, Fetch, Local, Reject, Mark, Notify, Ack, Retry,
                 DeadLetter, Failure, MarkFails, AckLost, RetryLost, DeadLetterFails, Crash, vars
  <2> QED BY <2>1, <2>2, <2>3
<1>4. \A s \in Published : DeadId(s)' = DeadId(s)
  BY <1>3 DEF DeadId
<1> QED BY <1>2, <1>3, <1>4

\* What a process in hand of a message refers to.
LEMMA JobTypes ==
  ASSUME TypeInv, NEW w \in Workers, pc[w] # "fetch"
  PROVE  /\ job[w] \in Published /\ job[w] \in Sequences
         /\ stream[job[w]] \in Event
         /\ Accepted(stream[job[w]]) => IdOf(w) \in MessageIds
         /\ DeadId(job[w]) \in MessageIds \cup Sequences
<1>1. Len(stream) \in Nat /\ Len(stream) <= MaxMessages /\ stream \in Seq(Event)
  BY DEF TypeInv, StreamTypes
<1>2. job[w] \in Published
  BY DEF TypeInv, WorkerTypes
<1>3. job[w] \in Sequences
  BY <1>1, <1>2, ConstantsAssumption DEF Published, Sequences
<1>4. stream[job[w]] \in Event
  BY <1>1, <1>2, ElementOfSeq DEF Published
<1>5. stream[job[w]].id \in MessageIds \cup {NoId}
  BY <1>4 DEF Event
<1> QED BY <1>2, <1>3, <1>4, <1>5 DEF Accepted, IdOf, DeadId

LEMMA TypeInit == Init => TypeInv
<1> SUFFICES ASSUME Init PROVE TypeInv
  OBVIOUS
<1>1. 0 \in 0..MaxDeliver /\ 0 \in 0..MaxMessages /\ 0 \in 0..MaxFaults /\ 0 \in 0..MaxCrashes
  BY ConstantsAssumption
<1>2. StreamTypes
  BY ConstantsAssumption, EmptySeq DEF Init, StreamTypes
<1>3. ConsumerTypes /\ StoreTypes /\ EnvTypes /\ Fresh
  BY <1>1 DEF Init, ConsumerTypes, StoreTypes, EnvTypes, Fresh, Statuses
<1>4. WorkerTypes
  BY <1>1 DEF Init, WorkerTypes, PCs
<1> QED BY <1>2, <1>3, <1>4 DEF TypeInv

LEMMA TypePublish ==
  ASSUME TypeInv, NEW e \in Event, Publish(e)
  PROVE  TypeInv'
<1>1. Len(stream) \in Nat /\ Len(stream) < MaxMessages /\ stream \in Seq(Event)
  BY DEF TypeInv, StreamTypes, Publish
<1>2. stream' \in Seq(Event) /\ Len(stream') = Len(stream) + 1
  BY <1>1, AppendProperties DEF Publish
<1>3. StreamTypes'
  BY <1>1, <1>2, ConstantsAssumption DEF StreamTypes
<1>4. Published \subseteq Published'
  BY <1>1, <1>2 DEF Published
<1>5. ConsumerTypes' /\ StoreTypes' /\ EnvTypes'
  BY DEF Publish, TypeInv, ConsumerTypes, StoreTypes, EnvTypes
<1>6. WorkerTypes'
  BY <1>4 DEF Publish, TypeInv, WorkerTypes
<1>7. Fresh'
  BY <1>4 DEF Publish, TypeInv, Fresh
<1> QED BY <1>3, <1>5, <1>6, <1>7 DEF TypeInv

LEMMA TypeTimers ==
  ASSUME TypeInv, NEW s \in Sequences, Timers(s)
  PROVE  TypeInv'
<1>1. s \in Published /\ \E t \in {"due", "dropped"} : status' = [status EXCEPT ![s] = t]
  BY DEF Timers, AckWaitExpires, Drop, In
<1>2. UNCHANGED <<stream, deliveries, dlq, processed, sent, pc, job, delivery, faults, crashes>>
  BY DEF Timers, AckWaitExpires, Drop
<1>3. ConsumerTypes'
  BY <1>1, <1>2 DEF TypeInv, ConsumerTypes, Statuses
<1>4. StreamTypes' /\ StoreTypes' /\ WorkerTypes' /\ EnvTypes'
  BY <1>2 DEF TypeInv, StreamTypes, StoreTypes, WorkerTypes, EnvTypes, Published
<1>5. Fresh'
  BY <1>1, <1>2 DEF TypeInv, ConsumerTypes, Fresh, Published
<1> QED BY <1>3, <1>4, <1>5 DEF TypeInv

LEMMA TypeFetch ==
  ASSUME TypeInv, NEW w \in Workers, NEW s \in Published, Fetch(w, s)
  PROVE  TypeInv'
<1>1. Len(stream) \in Nat /\ Len(stream) <= MaxMessages
  BY DEF TypeInv, StreamTypes
<1>2. s \in Sequences /\ s \in 0..MaxMessages
  BY <1>1, ConstantsAssumption DEF Published, Sequences
<1>3. deliveries[s] \in 0..MaxDeliver /\ deliveries[s] < MaxDeliver
  BY <1>2, ConstantsAssumption DEF Fetch, Deliverable, In, TypeInv, ConsumerTypes, Fresh
<1>4. deliveries[s] + 1 \in 0..MaxDeliver
  BY <1>3, ConstantsAssumption
<1>5. StreamTypes' /\ StoreTypes' /\ EnvTypes'
  BY DEF Fetch, TypeInv, StreamTypes, StoreTypes, EnvTypes
<1>6. ConsumerTypes'
  BY <1>2, <1>4 DEF Fetch, TypeInv, ConsumerTypes, Statuses
<1>7. WorkerTypes'
  BY <1>2, <1>4 DEF Fetch, TypeInv, WorkerTypes, PCs, Published
<1>8. Fresh'
  BY <1>2 DEF Fetch, TypeInv, ConsumerTypes, Fresh, Published
<1> QED BY <1>5, <1>6, <1>7, <1>8 DEF TypeInv

\* A process goes on with its message, and the broker hears of it or not.
LEMMA LocalFrame ==
  ASSUME TypeInv, NEW w \in Workers, Local(w)
  PROVE  /\ pc[w] # "fetch"
         /\ UNCHANGED <<stream, deliveries, job, delivery>>
         /\ \E label \in PCs : pc' = [pc EXCEPT ![w] = label]
         /\ \/ UNCHANGED status
            \/ /\ status[job[w]] # "new"
               /\ \E t \in {"due", "acked"} : status' = [status EXCEPT ![job[w]] = t]
<1>1. pc[w] # "fetch" /\ UNCHANGED <<stream, deliveries, job, delivery>>
  BY DEF Local, Reject, Mark, Notify, Ack, Retry, DeadLetter, Failure, MarkFails, AckLost,
         RetryLost, DeadLetterFails, Crash
<1>2. \E label \in PCs : pc' = [pc EXCEPT ![w] = label]
  BY DEF Local, Reject, Mark, Notify, Ack, Retry, DeadLetter, Failure, MarkFails, AckLost,
         RetryLost, DeadLetterFails, Crash, PCs
<1>3. UNCHANGED status \/ Acked(job[w]) \/ Naked(job[w])
  BY DEF Local, Reject, Mark, Notify, Ack, Retry, DeadLetter, Failure, MarkFails, AckLost,
         RetryLost, DeadLetterFails, Crash
<1> QED BY <1>1, <1>2, <1>3 DEF Acked, Naked

LEMMA TypeLocal ==
  ASSUME TypeInv, NEW w \in Workers, Local(w)
  PROVE  TypeInv'
<1>1. /\ job[w] \in Published /\ job[w] \in Sequences
      /\ Accepted(stream[job[w]]) => IdOf(w) \in MessageIds
      /\ DeadId(job[w]) \in MessageIds \cup Sequences
  BY LocalFrame, JobTypes
<1>2. ConsumerTypes' /\ Fresh'
  <2>1. CASE UNCHANGED status
    BY <2>1, LocalFrame DEF TypeInv, ConsumerTypes, Fresh, Published
  <2>2. CASE /\ status[job[w]] # "new"
             /\ \E t \in {"due", "acked"} : status' = [status EXCEPT ![job[w]] = t]
    <3>1. UNCHANGED <<stream, deliveries>>
      BY LocalFrame
    <3>2. PICK t \in {"due", "acked"} : status' = [status EXCEPT ![job[w]] = t]
      BY <2>2
    <3>3. ConsumerTypes'
      BY <1>1, <3>1, <3>2 DEF TypeInv, ConsumerTypes, Statuses
    <3>4. Fresh'
      BY <1>1, <3>1, <3>2 DEF TypeInv, ConsumerTypes, Fresh, Published
    <3> QED BY <3>3, <3>4
  <2> QED BY <2>1, <2>2, LocalFrame
<1>3. StreamTypes' /\ WorkerTypes'
  BY LocalFrame DEF TypeInv, StreamTypes, WorkerTypes, Published
<1>4. StoreTypes'
  <2>1. dlq' \subseteq MessageIds \cup Sequences
    BY <1>1 DEF Local, Reject, Mark, Notify, Ack, Retry, DeadLetter, Failure, MarkFails, AckLost,
                RetryLost, DeadLetterFails, Crash, TypeInv, StoreTypes
  <2>2. processed' \subseteq MessageIds
    BY <1>1 DEF Local, Reject, Mark, Notify, Ack, Retry, DeadLetter, Failure, MarkFails, AckLost,
                RetryLost, DeadLetterFails, Crash, TypeInv, StoreTypes
  <2>3. sent' \in [MessageIds -> Nat]
    BY DEF Local, Reject, Mark, Notify, Ack, Retry, DeadLetter, Failure, MarkFails, AckLost,
           RetryLost, DeadLetterFails, Crash, TypeInv, StoreTypes
  <2> QED BY <2>1, <2>2, <2>3 DEF StoreTypes
<1>5. EnvTypes'
  BY ConstantsAssumption DEF Local, Reject, Mark, Notify, Ack, Retry, DeadLetter, Failure,
     MarkFails, AckLost, RetryLost, DeadLetterFails, Crash, Fault, TypeInv, EnvTypes
<1> QED BY <1>2, <1>3, <1>4, <1>5 DEF TypeInv

LEMMA TypeStep == TypeInv /\ [Next]_vars => TypeInv'
<1> SUFFICES ASSUME TypeInv, [Next]_vars PROVE TypeInv'
  OBVIOUS
<1>1. CASE UNCHANGED vars
  BY <1>1 DEF vars, TypeInv, StreamTypes, ConsumerTypes, StoreTypes, WorkerTypes, EnvTypes, Fresh,
              Published
<1> QED BY <1>1, Cases, TypePublish, TypeTimers, TypeFetch, TypeLocal

LEMMA Typed == Spec => []TypeInv
<1>1. Init => TypeInv
  BY TypeInit
<1>2. TypeInv /\ [Next]_vars => TypeInv'
  BY TypeStep
<1> QED BY <1>1, <1>2, PTL DEF Spec

\* Every variable of the notification service keeps its type.
THEOREM TypeCorrect == Spec => []TypeOK
  BY Typed, TypeParts, PTL

------------------------------------------------------------------------------
\* Who has the id of an event in hand has recorded it, and nobody else has it.
Claims ==
  /\ \A w \in Workers : pc[w] = "notify" => IdOf(w) \in processed /\ sent[IdOf(w)] = 0
  /\ \A v, w \in Workers :
       pc[v] = "notify" /\ pc[w] = "notify" /\ IdOf(v) = IdOf(w) => v = w
  /\ \A m \in MessageIds : sent[m] # 0 => m \in processed
  /\ NotifiedOnce

\* A step that gives nobody an id and notifies nobody keeps the claims.
LEMMA ClaimsQuiet ==
  ASSUME Claims, processed \subseteq processed', sent' = sent,
         \A v \in Workers : pc'[v] = "notify" => pc[v] = "notify" /\ IdOf(v)' = IdOf(v)
  PROVE  Claims'
<1>1. \A w \in Workers : pc'[w] = "notify" => IdOf(w)' \in processed' /\ sent'[IdOf(w)'] = 0
  BY DEF Claims
<1>2. \A v, w \in Workers :
        pc'[v] = "notify" /\ pc'[w] = "notify" /\ IdOf(v)' = IdOf(w)' => v = w
  BY DEF Claims
<1>3. \A m \in MessageIds : sent'[m] # 0 => m \in processed'
  BY DEF Claims
<1>4. NotifiedOnce'
  BY DEF Claims, NotifiedOnce
<1> QED BY <1>1, <1>2, <1>3, <1>4 DEF Claims

LEMMA ClaimsMark ==
  ASSUME TypeInv, Claims, NEW w \in Workers, Mark(w)
  PROVE  Claims'
<1>1. /\ IdOf(w) \in MessageIds /\ UNCHANGED <<stream, job, sent>>
      /\ processed' = processed \cup {IdOf(w)} /\ pc \in [Workers -> PCs]
  BY JobTypes DEF Mark, TypeInv, WorkerTypes
<1>2. \A v \in Workers : IdOf(v)' = IdOf(v)
  BY <1>1 DEF IdOf
<1>3. CASE IdOf(w) \in processed
  <2>1. \A v \in Workers : pc'[v] = "notify" => pc[v] = "notify"
    BY <1>1, <1>3 DEF Mark
  <2> QED BY <1>1, <1>2, <2>1, ClaimsQuiet
<1>4. CASE IdOf(w) \notin processed
  <2>1. pc' = [pc EXCEPT ![w] = "notify"]
    BY <1>4 DEF Mark
  <2>2. sent[IdOf(w)] = 0
    BY <1>1, <1>4 DEF Claims
  <2>3. \A v \in Workers : pc'[v] = "notify" => v = w \/ pc[v] = "notify"
    BY <1>1, <2>1
  <2>4. \A v \in Workers : pc[v] = "notify" => IdOf(v) # IdOf(w) /\ sent[IdOf(v)] = 0
    BY <1>4 DEF Claims
  <2>5. \A v \in Workers : pc'[v] = "notify" => IdOf(v)' \in processed' /\ sent'[IdOf(v)'] = 0
    BY <1>1, <1>2, <2>2, <2>3 DEF Claims
  <2>6. \A v, x \in Workers :
          pc'[v] = "notify" /\ pc'[x] = "notify" /\ IdOf(v)' = IdOf(x)' => v = x
    BY <1>2, <2>3, <2>4 DEF Claims
  <2>7. (\A m \in MessageIds : sent'[m] # 0 => m \in processed') /\ NotifiedOnce'
    BY <1>1 DEF Claims, NotifiedOnce
  <2> QED BY <2>5, <2>6, <2>7 DEF Claims
<1> QED BY <1>3, <1>4

LEMMA ClaimsNotify ==
  ASSUME TypeInv, Claims, NEW w \in Workers, Notify(w)
  PROVE  Claims'
<1>1. /\ UNCHANGED <<stream, job, processed>> /\ pc \in [Workers -> PCs]
      /\ pc[w] = "notify" /\ pc' = [pc EXCEPT ![w] = "ack"]
      /\ sent' = [sent EXCEPT ![IdOf(w)] = @ + 1]
  BY DEF Notify, TypeInv, WorkerTypes
<1>2. \A v \in Workers : IdOf(v)' = IdOf(v)
  BY <1>1 DEF IdOf
<1>3. IdOf(w) \in processed /\ sent[IdOf(w)] = 0 /\ IdOf(w) \in MessageIds
      /\ sent \in [MessageIds -> Nat]
  BY <1>1 DEF Claims, TypeInv, StoreTypes
<1>4. \A v \in Workers : pc'[v] = "notify" => pc[v] = "notify" /\ v # w
  BY <1>1
<1>5. \A v \in Workers : pc'[v] = "notify" => IdOf(v) # IdOf(w) /\ IdOf(v) \in processed
  BY <1>1, <1>4 DEF Claims
<1>6. \A v \in Workers : pc'[v] = "notify" => IdOf(v)' \in processed' /\ sent'[IdOf(v)'] = 0
  <2> SUFFICES ASSUME NEW v \in Workers, pc'[v] = "notify"
               PROVE  IdOf(v)' \in processed' /\ sent'[IdOf(v)'] = 0
    OBVIOUS
  <2>1. IdOf(v) \in MessageIds /\ sent[IdOf(v)] = 0
    BY <1>4, <1>5 DEF Claims, TypeInv, StoreTypes
  <2>2. sent'[IdOf(v)] = sent[IdOf(v)]
    BY <1>1, <1>3, <1>5, <2>1
  <2> QED BY <1>1, <1>2, <1>5, <2>1, <2>2
<1>7. \A v, x \in Workers :
        pc'[v] = "notify" /\ pc'[x] = "notify" /\ IdOf(v)' = IdOf(x)' => v = x
  BY <1>2, <1>4 DEF Claims
<1>8. \A m \in MessageIds : sent'[m] = IF m = IdOf(w) THEN 1 ELSE sent[m]
  BY <1>1, <1>3
<1>9. (\A m \in MessageIds : sent'[m] # 0 => m \in processed') /\ NotifiedOnce'
  BY <1>1, <1>3, <1>8 DEF Claims, NotifiedOnce
<1> QED BY <1>6, <1>7, <1>9 DEF Claims

\* What a process was doing with a message stays what it was about.
LEMMA IdKept ==
  ASSUME TypeInv, [Next]_vars, NEW v \in Workers, pc[v] # "fetch", job'[v] = job[v]
  PROVE  IdOf(v)' = IdOf(v) /\ DeadId(job[v])' = DeadId(job[v])
<1>1. job[v] \in Published
  BY DEF TypeInv, WorkerTypes
<1> QED BY <1>1, StreamKept DEF IdOf

\* The steps outside the processes leave the store alone, and only Fetch takes a job.
LEMMA OuterFrame ==
  ASSUME TypeInv,
         \/ \E e \in Event : Publish(e)
         \/ \E s \in Sequences : Timers(s)
         \/ \E w \in Workers, s \in Published : Fetch(w, s)
         \/ UNCHANGED vars
  PROVE  /\ UNCHANGED <<dlq, processed, sent, faults, crashes>>
         /\ \A v \in Workers :
              \/ pc'[v] = pc[v] /\ job'[v] = job[v]
              \/ pc[v] = "fetch" /\ pc'[v] = "handle"
<1>1. CASE \E e \in Event : Publish(e)
  BY <1>1 DEF Publish
<1>2. CASE \E s \in Sequences : Timers(s)
  BY <1>2 DEF Timers, AckWaitExpires, Drop
<1>3. CASE \E w \in Workers, s \in Published : Fetch(w, s)
  BY <1>3 DEF Fetch, TypeInv, WorkerTypes
<1>4. CASE UNCHANGED vars
  BY <1>4 DEF vars
<1> QED BY <1>1, <1>2, <1>3, <1>4

LEMMA LocalIds ==
  ASSUME TypeInv, NEW w \in Workers, Local(w)
  PROVE  \A v \in Workers : IdOf(v)' = IdOf(v) /\ (v # w => pc'[v] = pc[v])
  BY LocalFrame DEF IdOf, TypeInv, WorkerTypes

LEMMA ClaimsStep ==
  ASSUME TypeInv, Claims, [Next]_vars
  PROVE  Claims'
<1>1. CASE \E w \in Workers : Local(w)
  <2> PICK w \in Workers : Local(w)
    BY <1>1
  <2>1. CASE Mark(w)
    BY <2>1, ClaimsMark
  <2>2. CASE Notify(w)
    BY <2>2, ClaimsNotify
  <2>3. CASE ~Mark(w) /\ ~Notify(w)
    <3>1. processed \subseteq processed' /\ sent' = sent /\ pc'[w] # "notify"
      BY <2>3 DEF Local, Reject, Ack, Retry, DeadLetter, Failure, MarkFails, AckLost, RetryLost,
                  DeadLetterFails, Crash, TypeInv, WorkerTypes
    <3> QED BY <3>1, LocalIds, ClaimsQuiet
  <2> QED BY <2>1, <2>2, <2>3
<1>2. CASE ~\E w \in Workers : Local(w)
  <2>1. /\ UNCHANGED <<processed, sent>>
        /\ \A v \in Workers : pc'[v] = "notify" => pc[v] = "notify" /\ job'[v] = job[v]
    BY <1>2, Cases, OuterFrame
  <2>2. \A v \in Workers : pc'[v] = "notify" => pc[v] = "notify" /\ IdOf(v)' = IdOf(v)
    BY <2>1, IdKept
  <2> QED BY <2>1, <2>2, ClaimsQuiet
<1> QED BY <1>1, <1>2

------------------------------------------------------------------------------
\* What is acknowledged, and what a process is about to acknowledge, left a trace.
Settled(s) == stream[s].id \in processed \/ DeadId(s) \in dlq
Traces == AckedIsSettled /\ \A w \in Workers : pc[w] = "ack" => Settled(job[w])

LEMMA SettledKept ==
  ASSUME TypeInv, [Next]_vars
  PROVE  \A s \in Published : Settled(s) => Settled(s)'
<1>1. processed \subseteq processed' /\ dlq \subseteq dlq'
  <2>1. CASE \E w \in Workers : Local(w)
    BY <2>1 DEF Local, Reject, Mark, Notify, Ack, Retry, DeadLetter, Failure, MarkFails, AckLost,
                RetryLost, DeadLetterFails, Crash
  <2>2. CASE ~\E w \in Workers : Local(w)
    BY <2>2, Cases, OuterFrame
  <2> QED BY <2>1, <2>2
<1> QED BY <1>1, StreamKept DEF Settled

\* Only Ack makes a message acknowledged.
LEMMA AckedBy ==
  ASSUME TypeInv, [Next]_vars, NEW s \in Sequences, status'[s] = "acked"
  PROVE  \/ status[s] = "acked"
         \/ \E w \in Workers : pc[w] = "ack" /\ job[w] = s
<1>1. status \in [Sequences -> Statuses]
  BY DEF TypeInv, ConsumerTypes
<1>2. CASE \E w \in Workers : Local(w)
  <2> PICK w \in Workers : Local(w)
    BY <1>2
  <2>1. CASE Ack(w)
    BY <1>1, <2>1 DEF Ack, Acked
  <2>2. CASE ~Ack(w)
    <3>1. UNCHANGED status \/ Naked(job[w])
      BY <2>2 DEF Local, Reject, Mark, Notify, Retry, DeadLetter, Failure, MarkFails, AckLost,
                  RetryLost, DeadLetterFails, Crash
    <3> QED BY <1>1, <3>1 DEF Naked
  <2> QED BY <2>1, <2>2
<1>3. CASE \E e \in Event : Publish(e)
  BY <1>3 DEF Publish
<1>4. CASE \E t \in Sequences : Timers(t)
  BY <1>1, <1>4 DEF Timers, AckWaitExpires, Drop
<1>5. CASE \E w \in Workers, t \in Published : Fetch(w, t)
  BY <1>1, <1>5 DEF Fetch
<1>6. CASE UNCHANGED vars
  BY <1>6 DEF vars
<1> QED BY <1>2, <1>3, <1>4, <1>5, <1>6, Cases

\* A process comes to acknowledge a message with a trace of it.
LEMMA AckingBy ==
  ASSUME TypeInv, Claims, [Next]_vars, NEW v \in Workers, pc'[v] = "ack", pc[v] # "ack"
  PROVE  job'[v] = job[v] /\ job[v] \in Published /\ Settled(job[v])'
<1>1. CASE \E w \in Workers : Local(w)
  <2> PICK w \in Workers : Local(w)
    BY <1>1
  <2>1. v = w
    BY LocalIds
  <2>2. job' = job /\ stream' = stream /\ job[w] \in Published
    BY LocalFrame, JobTypes
  <2>3. Mark(w) \/ Notify(w) \/ DeadLetter(w)
    BY <2>1 DEF Local, Reject, Ack, Retry, Failure, MarkFails, AckLost, RetryLost,
                DeadLetterFails, Crash, TypeInv, WorkerTypes
  <2>4. CASE Mark(w)
    BY <2>1, <2>2, <2>4 DEF Mark, Settled, IdOf
  <2>5. CASE Notify(w)
    BY <2>1, <2>2, <2>5 DEF Notify, Settled, IdOf, Claims
  <2>6. CASE DeadLetter(w)
    BY <2>1, <2>2, <2>6 DEF DeadLetter, Settled, DeadId
  <2> QED BY <2>1, <2>2, <2>3, <2>4, <2>5, <2>6
<1>2. CASE ~\E w \in Workers : Local(w)
  BY <1>2, Cases, OuterFrame
<1> QED BY <1>1, <1>2

LEMMA TracesStep ==
  ASSUME TypeInv, Claims, Traces, [Next]_vars
  PROVE  Traces'
<1>1. AckedIsSettled'
  <2> SUFFICES ASSUME NEW s \in Published', status'[s] = "acked"
               PROVE  Settled(s)'
    BY DEF AckedIsSettled, Settled
  <2>1. s \in Sequences
    BY TypeStep, ConstantsAssumption DEF TypeInv, StreamTypes, Published, Sequences
  <2>2. CASE status[s] = "acked"
    <3>1. s \in Published
      BY <2>1, <2>2 DEF TypeInv, Fresh
    <3> QED BY <2>2, <3>1, SettledKept DEF Traces, AckedIsSettled, Settled
  <2>3. CASE \E w \in Workers : pc[w] = "ack" /\ job[w] = s
    BY <2>3, SettledKept, JobTypes DEF Traces
  <2> QED BY <2>1, <2>2, <2>3, AckedBy
<1>2. \A w \in Workers : pc'[w] = "ack" => Settled(job[w])'
  <2> SUFFICES ASSUME NEW w \in Workers, pc'[w] = "ack"
               PROVE  Settled(job[w])'
    OBVIOUS
  <2>1. CASE pc[w] = "ack"
    <3>1. job'[w] = job[w]
      <4>1. CASE \E v \in Workers : Local(v)
        BY <4>1, LocalFrame
      <4>2. CASE ~\E v \in Workers : Local(v)
        BY <2>1, <4>2, Cases, OuterFrame
      <4> QED BY <4>1, <4>2
    <3>2. Settled(job[w])' <=> (stream'[job[w]].id \in processed' \/ DeadId(job[w])' \in dlq')
      BY <3>1 DEF Settled, DeadId
    <3>3. job[w] \in Published /\ Settled(job[w])
      BY <2>1, JobTypes DEF Traces
    <3> QED BY <3>1, <3>3, SettledKept DEF Settled, DeadId
  <2>2. CASE pc[w] # "ack"
    BY <2>2, AckingBy DEF Settled, DeadId
  <2> QED BY <2>1, <2>2
<1> QED BY <1>1, <1>2 DEF Traces

------------------------------------------------------------------------------
\* The metadata of a delivery never runs ahead of the consumer, so a dead letter is
\* only written for a message whose deliveries are used up.
Behind == \A w \in Workers : pc[w] # "fetch" => delivery[w] <= deliveries[job[w]]
DeadLetters ==
  \A d \in dlq : \E t \in Published : DeadId(t) = d /\ deliveries[t] = MaxDeliver
Exhausted == Behind /\ DeadLetters

LEMMA DeliveriesGrow ==
  ASSUME TypeInv, [Next]_vars
  PROVE  \A s \in Sequences : /\ deliveries[s] \in 0..MaxDeliver
                              /\ deliveries'[s] \in 0..MaxDeliver
                              /\ deliveries[s] <= deliveries'[s]
<1>1. \A s \in Sequences : deliveries[s] \in 0..MaxDeliver /\ deliveries'[s] \in 0..MaxDeliver
  BY TypeStep DEF TypeInv, ConsumerTypes
<1>2. CASE \E w \in Workers, t \in Published : Fetch(w, t)
  <2> PICK w \in Workers, t \in Published : Fetch(w, t)
    BY <1>2
  <2>1. \A s \in Sequences : deliveries'[s] = IF s = t THEN deliveries[s] + 1 ELSE deliveries[s]
    BY DEF Fetch, TypeInv, ConsumerTypes
  <2> QED BY <1>1, <2>1, ConstantsAssumption
<1>3. CASE deliveries' = deliveries
  BY <1>1, <1>3, ConstantsAssumption
<1>4. (\E w \in Workers, t \in Published : Fetch(w, t)) \/ deliveries' = deliveries
  BY Cases, LocalFrame DEF Publish, Timers, AckWaitExpires, Drop, vars
<1> QED BY <1>1, <1>2, <1>3, <1>4

LEMMA BehindStep ==
  ASSUME TypeInv, Behind, [Next]_vars
  PROVE  Behind'
<1> SUFFICES ASSUME NEW v \in Workers, pc'[v] # "fetch"
             PROVE  delivery'[v] <= deliveries'[job'[v]]
  BY DEF Behind
<1>1. CASE pc[v] # "fetch" /\ job'[v] = job[v] /\ delivery'[v] = delivery[v]
  <2>1. delivery[v] <= deliveries[job[v]] /\ delivery[v] \in 0..MaxDeliver /\ job[v] \in Sequences
    BY <1>1, JobTypes DEF Behind, TypeInv, WorkerTypes
  <2> QED BY <1>1, <2>1, DeliveriesGrow, ConstantsAssumption
<1>2. CASE \E t \in Published : Fetch(v, t)
  <2> PICK t \in Published : Fetch(v, t)
    BY <1>2
  <2>1. t \in Sequences
    BY StreamKept
  <2>2. deliveries[t] \in 0..MaxDeliver
    BY <2>1 DEF TypeInv, ConsumerTypes
  <2>3. delivery'[v] = deliveries[t] + 1 /\ job'[v] = t /\ deliveries'[t] = deliveries[t] + 1
    BY <2>1 DEF Fetch, TypeInv, WorkerTypes, ConsumerTypes
  <2> QED BY <2>2, <2>3, ConstantsAssumption
<1>3. \/ pc[v] # "fetch" /\ job'[v] = job[v] /\ delivery'[v] = delivery[v]
      \/ \E t \in Published : Fetch(v, t)
  <2>1. CASE \E w \in Workers : Local(w)
    BY <2>1, LocalFrame DEF TypeInv, WorkerTypes
  <2>2. CASE \E w \in Workers, t \in Published : Fetch(w, t)
    BY <2>2 DEF Fetch, TypeInv, WorkerTypes
  <2>3. CASE \/ \E e \in Event : Publish(e)
             \/ \E s \in Sequences : Timers(s)
             \/ UNCHANGED vars
    BY <2>3 DEF Publish, Timers, AckWaitExpires, Drop, vars
  <2> QED BY <2>1, <2>2, <2>3, Cases
<1> QED BY <1>1, <1>2, <1>3

\* A dead letter is new: it is the one of the message in hand, on its last delivery.
LEMMA DeadLetterBy ==
  ASSUME TypeInv, Behind, [Next]_vars, NEW d \in dlq', d \notin dlq
  PROVE  \E t \in Published : DeadId(t) = d /\ deliveries[t] = MaxDeliver
<1>1. PICK w \in Workers : Local(w)
  BY Cases, OuterFrame
<1>2. d = DeadId(job[w]) /\ LastDelivery(w)
  BY <1>1 DEF Local, Reject, Mark, Notify, Ack, Retry, DeadLetter, Failure, MarkFails, AckLost,
              RetryLost, DeadLetterFails, Crash
<1>3. job[w] \in Published /\ job[w] \in Sequences /\ delivery[w] <= deliveries[job[w]]
  BY <1>1, LocalFrame, JobTypes DEF Behind
<1>4. delivery[w] \in 0..MaxDeliver /\ deliveries[job[w]] \in 0..MaxDeliver
  BY <1>3 DEF TypeInv, WorkerTypes, ConsumerTypes
<1>5. deliveries[job[w]] = MaxDeliver
  BY <1>2, <1>3, <1>4, ConstantsAssumption DEF LastDelivery
<1> QED BY <1>2, <1>3, <1>5

LEMMA ExhaustedStep ==
  ASSUME TypeInv, Exhausted, [Next]_vars
  PROVE  Exhausted'
<1>1. Behind'
  BY BehindStep DEF Exhausted
<1>2. DeadLetters'
  <2> SUFFICES ASSUME NEW d \in dlq'
               PROVE  \E t \in Published' : DeadId(t)' = d /\ deliveries'[t] = MaxDeliver
    BY DEF DeadLetters
  <2>1. PICK t \in Published : DeadId(t) = d /\ deliveries[t] = MaxDeliver
    BY DeadLetterBy DEF Exhausted, DeadLetters
  <2>2. t \in Published' /\ t \in Sequences /\ DeadId(t)' = d
    BY <2>1, StreamKept
  <2>3. deliveries'[t] = MaxDeliver
    BY <2>1, <2>2, DeliveriesGrow, ConstantsAssumption
  <2> QED BY <2>2, <2>3
<1> QED BY <1>1, <1>2 DEF Exhausted

------------------------------------------------------------------------------
\* Failures are counted, and each silences one recorded id at most.
Counted == IsFiniteSet(processed) /\ LostPerFailure

\* A step takes an id out of hand only where the process that has it drops it.
LEMMA InHandKept ==
  ASSUME TypeInv, NEW w \in Workers, Local(w)
  PROVE  /\ \A m : InHand(m) /\ m # IdOf(w) => InHand(m)'
         /\ pc[w] # "notify" => \A m : InHand(m) => InHand(m)'
<1>1. \A v \in Workers : v # w /\ pc[v] = "notify" => pc'[v] = "notify" /\ IdOf(v)' = IdOf(v)
  BY LocalIds
<1>2. \A m : InHand(m) /\ m # IdOf(w) => InHand(m)'
  BY <1>1 DEF InHand
<1>3. pc[w] # "notify" => \A m : InHand(m) => InHand(m)'
  BY <1>1 DEF InHand
<1> QED BY <1>2, <1>3

\* The set of ids gone missing does not grow without a failure, and by one with one.
LEMMA UnsentGrows ==
  ASSUME TypeInv, Claims, [Next]_vars
  PROVE  \/ Unsent' \subseteq Unsent /\ faults' + crashes' >= faults + crashes
         \/ /\ \E m \in MessageIds : Unsent' \subseteq Unsent \cup {m}
            /\ faults' + crashes' = faults + crashes + 1
<1>1. /\ faults \in Nat /\ crashes \in Nat /\ pc \in [Workers -> PCs]
      /\ sent \in [MessageIds -> Nat] /\ processed \subseteq MessageIds
  BY ConstantsAssumption DEF TypeInv, EnvTypes, WorkerTypes, StoreTypes
<1>2. ASSUME processed' = processed, sent' = sent, \A m : InHand(m) => InHand(m)'
      PROVE  Unsent' \subseteq Unsent
  BY <1>2 DEF Unsent
<1>3. CASE ~\E w \in Workers : Local(w)
  <2>1. /\ UNCHANGED <<processed, sent, faults, crashes>>
        /\ \A v \in Workers : pc[v] = "notify" => pc'[v] = "notify" /\ job'[v] = job[v]
    BY <1>3, Cases, OuterFrame
  <2>2. \A v \in Workers : pc[v] = "notify" => pc'[v] = "notify" /\ IdOf(v)' = IdOf(v)
    BY <2>1, IdKept
  <2>3. \A m : InHand(m) => InHand(m)'
    BY <2>2 DEF InHand
  <2> QED BY <1>1, <1>2, <2>1, <2>3
<1>4. CASE \E w \in Workers : Local(w)
  <2> PICK w \in Workers : Local(w)
    BY <1>4
  <2>1. /\ \A m : InHand(m) /\ m # IdOf(w) => InHand(m)'
        /\ pc[w] # "notify" => \A m : InHand(m) => InHand(m)'
    BY InHandKept
  <2>2. CASE Mark(w)
    <3>1. IdOf(w) \in processed \/ pc'[w] = "notify"
      BY <1>1, <2>2 DEF Mark
    <3>2. processed' = processed \cup {IdOf(w)} /\ UNCHANGED <<sent, faults, crashes>>
          /\ pc[w] = "handle"
      BY <2>2 DEF Mark
    <3>3. pc'[w] = "notify" => \A m : m = IdOf(w) => InHand(m)'
      BY LocalIds DEF InHand
    <3>4. \A m : InHand(m) => InHand(m)'
      BY <2>1, <3>2
    <3>5. Unsent' \subseteq Unsent
      BY <3>1, <3>2, <3>3, <3>4 DEF Unsent
    <3> QED BY <1>1, <3>2, <3>5
  <2>3. CASE MarkFails(w)
    <3>1. /\ processed' \subseteq processed \cup {IdOf(w)} /\ UNCHANGED sent
          /\ faults' = faults + 1 /\ UNCHANGED crashes /\ pc[w] = "handle"
          /\ Accepted(stream[job[w]])
      BY <2>3 DEF MarkFails, Fault
    <3>2. \A m : InHand(m) => InHand(m)'
      BY <2>1, <3>1
    <3>3. IdOf(w) \in MessageIds
      BY <3>1, JobTypes
    <3>4. Unsent' \subseteq Unsent \cup {IdOf(w)}
      BY <3>1, <3>2 DEF Unsent
    <3> QED BY <1>1, <3>1, <3>3, <3>4
  <2>4. CASE Notify(w)
    <3>1. /\ UNCHANGED <<processed, faults, crashes>> /\ pc[w] = "notify"
          /\ sent' = [sent EXCEPT ![IdOf(w)] = @ + 1]
      BY <2>4 DEF Notify
    <3>2. IdOf(w) \in MessageIds /\ sent[IdOf(w)] = 0
      BY <1>1, <3>1 DEF Claims
    <3>3. \A m \in MessageIds : sent'[m] = 0 => sent[m] = 0 /\ m # IdOf(w)
      BY <1>1, <3>1, <3>2
    <3>4. Unsent' \subseteq Unsent
      BY <1>1, <2>1, <3>1, <3>3 DEF Unsent
    <3> QED BY <1>1, <3>1, <3>4
  <2>5. CASE Crash(w)
    <3>1. UNCHANGED <<processed, sent, faults>> /\ crashes' = crashes + 1
      BY <2>5 DEF Crash
    <3>2. CASE pc[w] = "notify"
      <4>1. IdOf(w) \in MessageIds
        BY <1>1, <3>2 DEF Claims
      <4>2. Unsent' \subseteq Unsent \cup {IdOf(w)}
        BY <2>1, <3>1 DEF Unsent
      <4> QED BY <1>1, <3>1, <4>1, <4>2
    <3>3. CASE pc[w] # "notify"
      <4>1. Unsent' \subseteq Unsent
        BY <1>2, <2>1, <3>1, <3>3
      <4> QED BY <1>1, <3>1, <4>1
    <3> QED BY <3>2, <3>3
  <2>6. CASE ~Mark(w) /\ ~MarkFails(w) /\ ~Notify(w) /\ ~Crash(w)
    <3>1. UNCHANGED <<processed, sent>> /\ pc[w] # "notify"
      BY <2>6 DEF Local, Reject, Ack, Retry, DeadLetter, Failure, AckLost, RetryLost,
                  DeadLetterFails
    <3>2. faults' + crashes' >= faults + crashes
      BY <1>1, <2>6 DEF Local, Reject, Ack, Retry, DeadLetter, Failure, AckLost, RetryLost,
                        DeadLetterFails, Fault
    <3>3. Unsent' \subseteq Unsent
      BY <1>2, <2>1, <3>1
    <3> QED BY <3>2, <3>3
  <2> QED BY <2>2, <2>3, <2>4, <2>5, <2>6
<1> QED BY <1>3, <1>4

LEMMA AtMost ==
  \A n, c, f, x, g, y \in Nat : n <= c /\ c <= f + x /\ g + y >= f + x => n <= g + y
  OBVIOUS
LEMMA OneMore ==
  \A n, c, f, x, g, y \in Nat : n <= c + 1 /\ c <= f + x /\ g + y = f + x + 1 => n <= g + y
  OBVIOUS

LEMMA CountedStep ==
  ASSUME TypeInv, Claims, Counted, [Next]_vars
  PROVE  Counted'
<1>1. IsFiniteSet(processed')
  <2>1. \/ processed' = processed
        \/ \E m : processed' = processed \cup {m}
    <3>1. CASE \E w \in Workers : Local(w)
      BY <3>1 DEF Local, Reject, Mark, Notify, Ack, Retry, DeadLetter, Failure, MarkFails, AckLost,
                  RetryLost, DeadLetterFails, Crash
    <3>2. CASE ~\E w \in Workers : Local(w)
      BY <3>2, Cases, OuterFrame
    <3> QED BY <3>1, <3>2
  <2> QED BY <2>1, FS_AddElement DEF Counted
<1>2. IsFiniteSet(Unsent) /\ Cardinality(Unsent) \in Nat
  <2>1. Unsent \in SUBSET processed
    BY DEF Unsent
  <2>2. IsFiniteSet(Unsent)
    BY <2>1, FS_Subset DEF Counted
  <2> QED BY <2>2, FS_CardinalityType
<1>3. IsFiniteSet(Unsent') /\ Cardinality(Unsent') \in Nat
  <2>1. Unsent' \in SUBSET processed'
    BY DEF Unsent
  <2>2. IsFiniteSet(Unsent')
    BY <1>1, <2>1, FS_Subset
  <2> QED BY <2>2, FS_CardinalityType
<1>4. Cardinality(Unsent) <= faults + crashes
  BY DEF Counted, LostPerFailure
<1>5. /\ faults \in Nat /\ crashes \in Nat /\ faults' \in Nat /\ crashes' \in Nat
  BY TypeStep, ConstantsAssumption DEF TypeInv, EnvTypes
<1>6. CASE Unsent' \subseteq Unsent /\ faults' + crashes' >= faults + crashes
  <2>1. Cardinality(Unsent') <= Cardinality(Unsent)
    BY <1>2, <1>6, FS_Subset
  <2>2. Cardinality(Unsent') <= faults' + crashes'
    BY <1>2, <1>3, <1>4, <1>5, <1>6, <2>1, AtMost
  <2> QED BY <1>1, <2>2 DEF Counted, LostPerFailure
<1>7. CASE /\ \E m \in MessageIds : Unsent' \subseteq Unsent \cup {m}
           /\ faults' + crashes' = faults + crashes + 1
  <2> PICK m \in MessageIds : Unsent' \subseteq Unsent \cup {m}
    BY <1>7
  <2>1. IsFiniteSet(Unsent \cup {m}) /\ Cardinality(Unsent \cup {m}) <= Cardinality(Unsent) + 1
    BY <1>2, FS_AddElement
  <2>2. Cardinality(Unsent \cup {m}) \in Nat
    BY <2>1, FS_CardinalityType
  <2>3. Cardinality(Unsent') <= Cardinality(Unsent \cup {m})
    BY <2>1, FS_Subset
  <2>4. Cardinality(Unsent') <= Cardinality(Unsent) + 1
    BY <1>2, <1>3, <2>1, <2>2, <2>3
  <2>5. Cardinality(Unsent') <= faults' + crashes'
    BY <1>2, <1>3, <1>4, <1>5, <1>7, <2>4, OneMore
  <2> QED BY <1>1, <2>5 DEF Counted, LostPerFailure
<1> QED BY <1>6, <1>7, UnsentGrows

------------------------------------------------------------------------------
\* The inductive invariant.
IInv == TypeInv /\ Claims /\ Traces /\ Exhausted /\ Counted

LEMMA IInvInit == Init => IInv
<1> SUFFICES ASSUME Init PROVE IInv
  OBVIOUS
<1>1. TypeInv
  BY TypeInit
<1>2. Claims
  BY DEF Init, Claims, NotifiedOnce
<1>3. Traces
  BY DEF Init, Traces, AckedIsSettled, Published
<1>4. Exhausted
  BY DEF Init, Exhausted, Behind, DeadLetters
<1>5. Counted
  <2>1. Unsent = {} /\ faults + crashes = 0
    BY DEF Init, Unsent
  <2> QED BY <2>1, FS_EmptySet DEF Init, Counted, LostPerFailure
<1> QED BY <1>1, <1>2, <1>3, <1>4, <1>5 DEF IInv

LEMMA IInvStep == IInv /\ [Next]_vars => IInv'
  BY TypeStep, ClaimsStep, TracesStep, ExhaustedStep, CountedStep DEF IInv

\* The inductive invariant of the notification service holds in every state.
THEOREM Invariance == Spec => []IInv
<1>1. Init => IInv
  BY IInvInit
<1>2. IInv /\ [Next]_vars => IInv'
  BY IInvStep
<1> QED BY <1>1, <1>2, PTL DEF Spec

\* However often an event is stored, delivered or handled by several processes at once,
\* HandlePaymentCompleted notifies its message id once at most.
THEOREM Once == Spec => []NotifiedOnce
<1>1. IInv => NotifiedOnce
  BY DEF IInv, Claims
<1> QED BY <1>1, Invariance, PTL

\* handleMessage and handleFailure acknowledge an event only when its id has been
\* recorded or dead-lettered.
THEOREM AckAfterTrace == Spec => []AckedIsSettled
<1>1. IInv => AckedIsSettled
  BY DEF IInv, Traces
<1> QED BY <1>1, Invariance, PTL

\* handleFailure writes a dead letter only when every delivery is used up.
THEOREM DeadOnlyAfterRetries == Spec => []DeadAfterRetries
<1>1. IInv => DeadAfterRetries
  BY DEF IInv, Exhausted, DeadLetters, DeadAfterRetries
<1> QED BY <1>1, Invariance, PTL

\* Between MarkProcessed and the notification at most one event goes missing for each
\* failed operation or crash.
THEOREM OneLostPerFailure == Spec => []LostPerFailure
<1>1. IInv => LostPerFailure
  BY DEF IInv, Counted
<1> QED BY <1>1, Invariance, PTL
==============================================================================
