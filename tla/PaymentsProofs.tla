---------------------------- MODULE PaymentsProofs ----------------------------
(***************************************************************************)
(* Proofs about Payments, for any number of calls, orders, amounts and     *)
(* faults.                                                                 *)
(***************************************************************************)
EXTENDS Payments, TLAPS, FiniteSetTheorems

USE DEF broker, calls, env, OrderOf, KeyTaken, Goto, Answer, Fault

LEMMA AuthorizationType ==
  ASSUME NEW c \in Calls, request[c] \in Request
  PROVE  Authorization(c) \in Payment
  BY DEF Authorization, Request, Payment

\* Requests are only read by calls that have one.
Arrived == \A c \in Calls : pc[c] # "idle" => request[c] \in Request

\* From the insert on, a call holds a payment.
Holds == \A c \in Calls : pc[c] \in {"insert", "publish", "reply"} => payment[c] \in Payment

TypeInv == TypeOK /\ Arrived /\ Holds

LEMMA TypeInit == Init => TypeInv
  BY ConstantsAssumption DEF Init, TypeInv, TypeOK, Arrived, Holds, PCs, Replies

LEMMA StoreType ==
  ASSUME TypeInv, NEW c \in Calls, pc[c] = "publish", Store(c)
  PROVE  stream' \in Seq(Event) /\ window' \subseteq OrderIds
<1>1. request[c] \in Request /\ payment[c] \in Payment
  BY DEF TypeInv, Arrived, Holds
<1>2. [id |-> MessageID(c), order |-> OrderOf(c), payment |-> payment[c]] \in Event
  BY <1>1 DEF Event, Request, MessageID
<1>3. stream \in Seq(Event) /\ window \subseteq OrderIds
  BY DEF TypeInv, TypeOK
<1>4. Append(stream, [id |-> MessageID(c), order |-> OrderOf(c),
                      payment |-> payment[c]]) \in Seq(Event)
  BY <1>2, <1>3
<1>5. MessageID(c) \in OrderIds
  BY <1>1 DEF MessageID, Request
<1> QED BY <1>3, <1>4, <1>5 DEF Store

LEMMA TypeStep == TypeInv /\ [Next]_vars => TypeInv'
<1> SUFFICES ASSUME TypeInv, [Next]_vars PROVE TypeInv'
  OBVIOUS
<1> USE ConstantsAssumption, NullsAssumption DEF TypeInv, TypeOK, Arrived, Holds, PCs, Replies
<1>1. ASSUME NEW c \in Calls, Arrive(c) PROVE TypeInv'
  <2>1. PICK q \in Request : Receive(c, q)
    BY <1>1 DEF Arrive
  <2>2. request' \in [Calls -> Request \cup {NoRequest}] /\ Arrived'
    BY <2>1 DEF Receive, Answer, Goto
  <2>3. pc' \in [Calls -> PCs] /\ reply' \in [Calls -> Replies]
    BY <2>1 DEF Receive, Answer, Goto
  <2>4. Holds'
    BY <2>1 DEF Receive, Answer, Goto
  <2> QED BY <2>1, <2>2, <2>3, <2>4 DEF Receive
<1>2. ASSUME NEW c \in Calls, Load(c) PROVE TypeInv'
  <2>1. Authorization(c) \in Payment /\ OrderOf(c) \in OrderIds
    BY <1>2, AuthorizationType DEF Load, Request
  <2>2. payment' \in [Calls -> Payment \cup {NoPayment}]
    BY <1>2, <2>1 DEF Load
  <2>3. Holds'
    BY <1>2, <2>1 DEF Load
  <2> QED BY <1>2, <2>2, <2>3 DEF Load
<1>3. ASSUME NEW c \in Calls, Insert(c) PROVE TypeInv'
  BY <1>3 DEF Insert, Request
<1>4. ASSUME NEW c \in Calls, InsertDuplicate(c) PROVE TypeInv'
  BY <1>4 DEF InsertDuplicate
<1>5. ASSUME NEW c \in Calls, Reload(c) PROVE TypeInv'
  <2>1. OrderOf(c) \in OrderIds
    BY <1>5 DEF Reload, Request
  <2>2. payment' \in [Calls -> Payment \cup {NoPayment}] /\ Holds'
    BY <1>5, <2>1 DEF Reload
  <2> QED BY <1>5, <2>2 DEF Reload
<1>6. ASSUME NEW c \in Calls, Publish(c) PROVE TypeInv'
  BY <1>6, StoreType DEF Publish
<1>7. ASSUME NEW c \in Calls, Reply(c) PROVE TypeInv'
  BY <1>7 DEF Reply
<1>8. ASSUME NEW c \in Calls, LoadFails(c) PROVE TypeInv'
  BY <1>8 DEF LoadFails
<1>9. ASSUME NEW c \in Calls, InsertFails(c) PROVE TypeInv'
  <2>1. payments' \in [OrderIds -> Payment \cup {NoPayment}]
    BY <1>9 DEF InsertFails
  <2> QED BY <1>9, <2>1 DEF InsertFails
<1>10. ASSUME NEW c \in Calls, ReloadFails(c) PROVE TypeInv'
  BY <1>10 DEF ReloadFails
<1>11. ASSUME NEW c \in Calls, PublishFails(c) PROVE TypeInv'
  BY <1>11, StoreType DEF PublishFails, PublishFailedCode
<1>12. ASSUME NEW o \in OrderIds, Expire(o) PROVE TypeInv'
  BY <1>12 DEF Expire
<1>13. CASE Crash
  BY <1>13 DEF Crash, InFlight
<1>14. CASE UNCHANGED vars
  BY <1>14 DEF vars
<1> QED
  BY <1>1, <1>2, <1>3, <1>4, <1>5, <1>6, <1>7, <1>8, <1>9, <1>10, <1>11, <1>12,
     <1>13, <1>14 DEF Next, Progress, Failure

\* Every variable keeps its type.
THEOREM TypeCorrect == Spec => []TypeOK
<1>1. Spec => []TypeInv
  BY TypeInit, TypeStep, PTL DEF Spec
<1> QED BY <1>1, PTL DEF TypeInv
------------------------------------------------------------------------------
(***************************************************************************)
(* The inductive invariant.  The properties speak of finished calls; the   *)
(* invariant has to follow a payment through the local variable of every   *)
(* call in flight.                                                         *)
(***************************************************************************)
Answered == \A c \in Calls : reply[c] # "none" => pc[c] = "done"

\* What a call is about to publish or to answer, or has answered, is the row.
Held(c) == pc[c] \in {"publish", "reply"} \/ reply[c] = "ok"
LocalAgrees ==
  \A c \in Calls : Held(c) => /\ payments[OrderOf(c)] # NoPayment
                             /\ payment[c] = payments[OrderOf(c)]

\* A message id in the window belongs to a stored event, so a publication that
\* is dropped as a duplicate is one that is already there.
WindowStored == \A o \in window : Published(o)
Announced ==
  \A c \in Calls : pc[c] = "reply" \/ reply[c] = "ok" => Published(OrderOf(c))

Creators ==
  \A c \in Calls : created[c] => /\ payments[OrderOf(c)] # NoPayment
                                 /\ pc[c] \notin {"idle", "load", "insert"}

\* Every copy of an order's event but the last has left the window.
Counted ==
  \A o \in OrderIds :
    Cardinality(Copies(o)) = expiries[o] + (IF o \in window THEN 1 ELSE 0)

IInv ==
  /\ TypeInv /\ Answered /\ LocalAgrees /\ EventsAgree
  /\ WindowStored /\ Announced /\ Creators /\ OneCreator /\ Counted

\* A payment row, once there, stays as it is: the insert is the only statement
\* that writes the table, and the primary key refuses a second one.
RowsKept == \A o \in OrderIds : payments[o] # NoPayment => payments'[o] = payments[o]
RequestsKept ==
  \A c \in Calls : pc[c] # "idle" => pc'[c] # "idle" /\ request'[c] = request[c]
StreamGrows ==
  /\ Len(stream') \in Nat /\ Len(stream) \in Nat /\ Len(stream') >= Len(stream)
  /\ \A i \in 1..Len(stream) : stream'[i] = stream[i]

\* Every step either leaves the stream alone or appends what one call, about to
\* publish, holds.
LEMMA StoreStep ==
  ASSUME TypeInv, NEW c \in Calls, pc[c] = "publish", Store(c)
  PROVE  /\ StreamGrows
         /\ \/ stream' = stream /\ window' = window /\ OrderOf(c) \in window
            \/ /\ Len(stream') = Len(stream) + 1
               /\ stream'[Len(stream')].order = OrderOf(c)
               /\ stream'[Len(stream')].payment = payment[c]
               /\ window' = window \cup {OrderOf(c)}
<1>1. stream \in Seq(Event)
  BY DEF TypeInv, TypeOK
<1>2. CASE OrderOf(c) \in window
  BY <1>1, <1>2 DEF Store, MessageID, StreamGrows
<1>3. CASE OrderOf(c) \notin window
  <2> DEFINE e == [id |-> MessageID(c), order |-> OrderOf(c), payment |-> payment[c]]
  <2>1. e \in Event
    BY DEF TypeInv, Arrived, Holds, Event, Request, MessageID
  <2>2. stream' = Append(stream, e) /\ window' = window \cup {OrderOf(c)}
    BY <1>3 DEF Store, MessageID
  <2>3. /\ Len(stream') = Len(stream) + 1
        /\ stream'[Len(stream) + 1] = e
        /\ \A i \in 1..Len(stream) : stream'[i] = stream[i]
    BY <1>1, <2>1, <2>2
  <2> QED BY <1>1, <2>2, <2>3 DEF StreamGrows
<1> QED BY <1>2, <1>3

LEMMA Monotone ==
  ASSUME TypeInv, [Next]_vars
  PROVE  RowsKept /\ RequestsKept /\ StreamGrows
<1>1. RowsKept
  BY DEF RowsKept, TypeInv, TypeOK, vars, Next, Progress, Failure, Arrive, Receive,
         Load, Insert, InsertDuplicate, Reload, Publish, Reply, LoadFails,
         InsertFails, ReloadFails, PublishFails, Expire, Crash
<1>2. RequestsKept
  BY DEF RequestsKept, TypeInv, TypeOK, vars, Next, Progress, Failure, Arrive, Receive,
         Load, Insert, InsertDuplicate, Reload, Publish, Reply, LoadFails,
         InsertFails, ReloadFails, PublishFails, Expire, Crash, InFlight
<1>3. StreamGrows
  <2>1. ASSUME stream' = stream PROVE StreamGrows
    BY <2>1 DEF StreamGrows, TypeInv, TypeOK
  <2>2. ASSUME NEW c \in Calls, Publish(c) \/ PublishFails(c) PROVE StreamGrows
    BY <2>1, <2>2, StoreStep DEF Publish, PublishFails
  <2> QED
    BY <2>1, <2>2 DEF vars, Next, Progress, Failure, Arrive, Receive, Load, Insert,
         InsertDuplicate, Reload, Reply, LoadFails, InsertFails, ReloadFails,
         Expire, Crash
<1> QED BY <1>1, <1>2, <1>3
LEMMA PublishedKept ==
  ASSUME StreamGrows, NEW o, Published(o)
  PROVE  Published(o)'
  BY DEF StreamGrows, Published

LEMMA InvInit == Init => IInv
<1> SUFFICES ASSUME Init PROVE IInv
  OBVIOUS
<1>1. TypeInv
  BY TypeInit
<1>2. Len(stream) = 0
  BY DEF Init
<1>3. \A o \in OrderIds : Cardinality(Copies(o)) = 0
  <2>1. \A o \in OrderIds : Copies(o) = {}
    BY <1>2 DEF Copies
  <2> QED BY <2>1, FS_EmptySet
<1>4. Counted
  BY <1>3 DEF Init, Counted
<1> QED
  BY <1>1, <1>2, <1>4 DEF Init, IInv, Answered, LocalAgrees, Held, EventsAgree,
     WindowStored, Announced, Creators, OneCreator

LEMMA AnsweredStep ==
  ASSUME TypeInv, Answered, [Next]_vars
  PROVE  Answered'
  BY DEF Answered, TypeInv, TypeOK, vars, Next, Progress, Failure, Arrive, Receive,
         Load, Insert, InsertDuplicate, Reload, Publish, Reply, LoadFails,
         InsertFails, ReloadFails, PublishFails, Expire, Crash, InFlight

\* The heart of the argument: the row a call read, inserted or reloaded is still
\* the row when it publishes and answers.
LEMMA LocalAgreesStep ==
  ASSUME TypeInv, Answered, LocalAgrees, [Next]_vars
  PROVE  LocalAgrees'
<1> USE DEF LocalAgrees, Held, Answered, TypeInv, TypeOK
<1>1. RowsKept /\ RequestsKept
  BY Monotone
<1>2. ASSUME NEW d \in Calls, Held(d), request'[d] = request[d], payment'[d] = payment[d]
      PROVE  payments'[OrderOf(d)'] # NoPayment /\ payment'[d] = payments'[OrderOf(d)']
  <2>1. request[d] \in Request
    BY <1>2 DEF Arrived
  <2> QED BY <1>1, <1>2, <2>1 DEF RowsKept, Request
<1>3. ASSUME NEW c \in Calls, Arrive(c) PROVE LocalAgrees'
  BY <1>2, <1>3 DEF Arrive, Receive
<1>4. ASSUME NEW c \in Calls, Load(c) PROVE LocalAgrees'
  BY <1>2, <1>4 DEF Load
<1>5. ASSUME NEW c \in Calls, Insert(c) PROVE LocalAgrees'
  <2>1. payment[c] # NoPayment /\ OrderOf(c) \in OrderIds
    BY <1>5, NullsAssumption DEF Insert, Holds, Arrived, Request
  <2> QED BY <1>2, <1>5, <2>1 DEF Insert
<1>6. ASSUME NEW c \in Calls, InsertDuplicate(c) \/ InsertFails(c)
      PROVE LocalAgrees'
  BY <1>2, <1>6 DEF InsertDuplicate, InsertFails
<1>7. ASSUME NEW c \in Calls, Reload(c) PROVE LocalAgrees'
  BY <1>2, <1>7 DEF Reload
<1>8. ASSUME NEW c \in Calls, Publish(c) \/ Reply(c) PROVE LocalAgrees'
  BY <1>2, <1>8 DEF Publish, Reply
<1>9. ASSUME NEW c \in Calls, LoadFails(c) \/ ReloadFails(c) \/ PublishFails(c)
      PROVE LocalAgrees'
  BY <1>2, <1>9 DEF LoadFails, ReloadFails, PublishFails, PublishFailedCode
<1>10. ASSUME Crash \/ UNCHANGED vars \/ \E o \in OrderIds : Expire(o)
       PROVE LocalAgrees'
  BY <1>2, <1>10 DEF Crash, InFlight, Expire, vars
<1> QED
  BY <1>3, <1>4, <1>5, <1>6, <1>7, <1>8, <1>9, <1>10 DEF Next, Progress, Failure

LEMMA EventsAgreeStep ==
  ASSUME TypeInv, LocalAgrees, EventsAgree, [Next]_vars
  PROVE  EventsAgree'
<1>1. RowsKept /\ StreamGrows
  BY Monotone
<1>2. ASSUME NEW i \in 1..Len(stream)
      PROVE  /\ payments'[stream'[i].order] # NoPayment
             /\ stream'[i].payment = payments'[stream'[i].order]
  <2>1. stream[i] \in Event
    BY DEF TypeInv, TypeOK
  <2>2. stream[i].order \in OrderIds
    BY <2>1 DEF Event
  <2> QED BY <1>1, <2>2 DEF EventsAgree, RowsKept, StreamGrows
<1>3. ASSUME stream' = stream PROVE EventsAgree'
  BY <1>2, <1>3 DEF EventsAgree
<1>4. ASSUME NEW c \in Calls, Publish(c) \/ PublishFails(c) PROVE EventsAgree'
  <2>1. CASE stream' = stream
    BY <1>3, <2>1
  <2>2. CASE Store(c) /\ stream' # stream
    <3>1. /\ Len(stream') = Len(stream) + 1
          /\ stream'[Len(stream')].order = OrderOf(c)
          /\ stream'[Len(stream')].payment = payment[c]
      BY <1>4, <2>2, StoreStep DEF Publish, PublishFails
    <3>2. payments[OrderOf(c)] # NoPayment /\ payment[c] = payments[OrderOf(c)]
      BY <1>4 DEF Publish, PublishFails, LocalAgrees, Held
    <3>3. OrderOf(c) \in OrderIds
      BY <1>4 DEF Publish, PublishFails, TypeInv, Arrived, Request
    <3>4. payments' = payments
      BY <1>4 DEF Publish, PublishFails
    <3>5. \A i \in 1..Len(stream') : i \in 1..Len(stream) \/ i = Len(stream')
      BY <1>1, <3>1 DEF StreamGrows
    <3> QED BY <1>2, <3>1, <3>2, <3>3, <3>4, <3>5 DEF EventsAgree
  <2> QED BY <1>4, <2>1, <2>2 DEF Publish, PublishFails
<1> QED
  BY <1>3, <1>4 DEF vars, Next, Progress, Failure, Arrive, Receive, Load, Insert,
     InsertDuplicate, Reload, Reply, LoadFails, InsertFails, ReloadFails, Expire, Crash

LEMMA AnnouncedStep ==
  ASSUME TypeInv, Answered, WindowStored, Announced, [Next]_vars
  PROVE  WindowStored' /\ Announced'
<1> USE DEF WindowStored, Announced
<1>1. StreamGrows /\ RequestsKept
  BY Monotone
<1>2. ASSUME NEW o, Published(o) PROVE Published(o)'
  BY <1>1, <1>2, PublishedKept
<1>3. ASSUME NEW c \in Calls, pc[c] = "publish", Store(c)
      PROVE  Published(OrderOf(c))' /\ WindowStored'
  <2>1. /\ StreamGrows
        /\ \/ stream' = stream /\ window' = window /\ OrderOf(c) \in window
           \/ /\ Len(stream') = Len(stream) + 1
              /\ stream'[Len(stream')].order = OrderOf(c)
              /\ window' = window \cup {OrderOf(c)}
    BY <1>3, StoreStep
  <2>2. request'[c] = request[c]
    BY <1>1, <1>3 DEF RequestsKept
  <2>3. Published(OrderOf(c))'
    BY <2>1, <2>2, <1>2 DEF Published, StreamGrows
  <2>4. WindowStored'
    BY <2>1, <2>2, <2>3, <1>2
  <2> QED BY <2>3, <2>4
<1>4. ASSUME window' \subseteq window PROVE WindowStored'
  BY <1>2, <1>4
<1>5. WindowStored'
  <2>1. ASSUME NEW c \in Calls, Publish(c) \/ PublishFails(c) PROVE WindowStored'
    BY <1>3, <1>4, <2>1 DEF Publish, PublishFails
  <2> QED
    BY <2>1, <1>4 DEF vars, Next, Progress, Failure, Arrive, Receive, Load, Insert,
       InsertDuplicate, Reload, Reply, LoadFails, InsertFails, ReloadFails, Expire, Crash
<1>6. Announced'
  <2> USE DEF TypeInv, TypeOK
  <2>1. ASSUME NEW c \in Calls, Publish(c) PROVE Announced'
    BY <1>1, <1>2, <1>3, <2>1 DEF Publish, RequestsKept
  <2>2. ASSUME NEW c \in Calls, PublishFails(c) PROVE Announced'
    BY <1>1, <1>2, <2>2 DEF PublishFails, RequestsKept, PublishFailedCode
  <2>3. ASSUME NEW c \in Calls, Reply(c) PROVE Announced'
    BY <1>2, <2>3 DEF Reply
  <2>4. ASSUME NEW c \in Calls, Arrive(c) PROVE Announced'
    BY <1>2, <2>4 DEF Arrive, Receive, Answered
  <2>5. ASSUME NEW c \in Calls, Load(c) \/ LoadFails(c) \/ Reload(c) \/ ReloadFails(c)
        PROVE Announced'
    BY <1>2, <2>5 DEF Load, LoadFails, Reload, ReloadFails
  <2>6. ASSUME NEW c \in Calls, Insert(c) \/ InsertDuplicate(c) \/ InsertFails(c)
        PROVE Announced'
    BY <1>2, <2>6 DEF Insert, InsertDuplicate, InsertFails
  <2>7. ASSUME Crash \/ UNCHANGED vars \/ \E o \in OrderIds : Expire(o)
        PROVE Announced'
    BY <1>2, <2>7 DEF Crash, InFlight, Expire, vars
  <2> QED
    BY <2>1, <2>2, <2>3, <2>4, <2>5, <2>6, <2>7 DEF Next, Progress, Failure
<1> QED BY <1>5, <1>6

\* Two calls never both insert: the second finds the row, and a created call's
\* row is never removed.
LEMMA CreatorsStep ==
  ASSUME TypeInv, Creators, OneCreator, [Next]_vars
  PROVE  Creators' /\ OneCreator'
<1> USE DEF Creators, OneCreator
<1>1. RowsKept /\ RequestsKept
  BY Monotone
<1>2. ASSUME created' = created,
             \A c \in Calls : created[c] => pc'[c] \notin {"idle", "load", "insert"}
      PROVE  Creators' /\ OneCreator'
  <2>1. \A c \in Calls : created[c] => request'[c] = request[c] /\ OrderOf(c) \in OrderIds
    BY <1>1 DEF RequestsKept, TypeInv, Arrived, Request
  <2> QED BY <1>1, <1>2, <2>1 DEF RowsKept
<1>3. ASSUME NEW c \in Calls, Insert(c) PROVE Creators' /\ OneCreator'
  <2>1. /\ payments[OrderOf(c)] = NoPayment /\ OrderOf(c) \in OrderIds
        /\ created' = [created EXCEPT ![c] = TRUE] /\ request' = request
        /\ payments' = [payments EXCEPT ![OrderOf(c)] = payment[c]]
        /\ pc' = [pc EXCEPT ![c] = "publish"]
        /\ payment[c] # NoPayment
    BY <1>3, NullsAssumption DEF Insert, TypeInv, Arrived, Holds, Request
  <2>2. \A d \in Calls : created[d] => OrderOf(d) # OrderOf(c)
    BY <2>1
  <2>3. created \in [Calls -> BOOLEAN] /\ pc \in [Calls -> PCs]
        /\ payments \in [OrderIds -> Payment \cup {NoPayment}]
    BY DEF TypeInv, TypeOK
  <2>4. \A d \in Calls : created'[d] => d = c \/ created[d]
    BY <2>1, <2>3
  <2>5. Creators'
    BY <2>1, <2>2, <2>3, <2>4
  <2>6. OneCreator'
    BY <2>1, <2>2, <2>4
  <2> QED BY <2>5, <2>6
<1>4. ASSUME NEW c \in Calls, Arrive(c) \/ Load(c) \/ LoadFails(c) PROVE Creators' /\ OneCreator'
  BY <1>2, <1>4 DEF Arrive, Receive, Load, LoadFails, TypeInv, TypeOK
<1>5. ASSUME NEW c \in Calls, InsertDuplicate(c) \/ InsertFails(c) PROVE Creators' /\ OneCreator'
  BY <1>2, <1>5 DEF InsertDuplicate, InsertFails, TypeInv, TypeOK
<1>6. ASSUME NEW c \in Calls, Reload(c) \/ ReloadFails(c) PROVE Creators' /\ OneCreator'
  BY <1>2, <1>6 DEF Reload, ReloadFails, TypeInv, TypeOK
<1>7. ASSUME NEW c \in Calls, Publish(c) \/ PublishFails(c) \/ Reply(c)
      PROVE Creators' /\ OneCreator'
  BY <1>2, <1>7 DEF Publish, PublishFails, Reply, TypeInv, TypeOK
<1>8. ASSUME Crash \/ UNCHANGED vars \/ \E o \in OrderIds : Expire(o)
      PROVE Creators' /\ OneCreator'
  BY <1>2, <1>8 DEF Crash, InFlight, Expire, vars, TypeInv, TypeOK
<1> QED
  BY <1>3, <1>4, <1>5, <1>6, <1>7, <1>8 DEF Next, Progress, Failure

\* Each message that is stored takes its id into the window, and each that leaves
\* the window has been stored, so the copies of an event are counted by the two.
LEMMA CountedStep ==
  ASSUME TypeInv, Counted, [Next]_vars
  PROVE  Counted'
<1>0. expiries \in [OrderIds -> 0..MaxExpiries] /\ MaxExpiries \in Nat
      /\ stream \in Seq(Event)
  BY ConstantsAssumption DEF TypeInv, TypeOK
<1>1. ASSUME UNCHANGED broker PROVE Counted'
  BY <1>1 DEF Counted, Copies
<1>2. ASSUME NEW o \in OrderIds, Expire(o) PROVE Counted'
  <2>1. \A p \in OrderIds : Copies(p)' = Copies(p)
    BY <1>2 DEF Expire, Copies
  <2>2. /\ o \in window /\ window' = window \ {o}
        /\ expiries' = [expiries EXCEPT ![o] = @ + 1]
    BY <1>2 DEF Expire
  <2> QED BY <1>0, <2>1, <2>2 DEF Counted
<1>3. ASSUME NEW c \in Calls, pc[c] = "publish", Store(c), UNCHANGED expiries
      PROVE  Counted'
  <2> DEFINE n == Len(stream) + 1
  <2>1. CASE stream' = stream /\ window' = window
    BY <1>1, <1>3, <2>1
  <2>2. CASE stream' # stream \/ window' # window
    <3>1. /\ stream' = Append(stream, [id |-> MessageID(c), order |-> OrderOf(c),
                                       payment |-> payment[c]])
          /\ OrderOf(c) \notin window /\ window' = window \cup {OrderOf(c)}
      BY <1>3, <2>2 DEF Store, MessageID
    <3>2. Len(stream') = n /\ stream'[n].order = OrderOf(c) /\ n \in Nat
          /\ \A i \in 1..Len(stream) : stream'[i] = stream[i]
      BY <1>0, <3>1
    <3>3. ASSUME NEW p \in OrderIds
          PROVE  Copies(p)' = IF p = OrderOf(c) THEN Copies(p) \cup {n} ELSE Copies(p)
      BY <1>0, <3>2 DEF Copies
    <3>4. ASSUME NEW p \in OrderIds
          PROVE  IsFiniteSet(Copies(p)) /\ n \notin Copies(p)
      <4>1. IsFiniteSet(1..Len(stream))
        BY <1>0, FS_Interval
      <4>2. Copies(p) \in SUBSET (1..Len(stream)) /\ n \notin Copies(p)
        BY <1>0 DEF Copies
      <4> QED BY <4>1, <4>2, FS_Subset
    <3>5. Cardinality(Copies(OrderOf(c)) \cup {n}) = Cardinality(Copies(OrderOf(c))) + 1
      <4>1. OrderOf(c) \in OrderIds
        BY <1>3 DEF TypeInv, Arrived, Request
      <4> QED BY <3>4, <4>1, FS_AddElement
    <3>6. ASSUME NEW p \in OrderIds
          PROVE  Cardinality(Copies(p))' = expiries'[p] + (IF p \in window' THEN 1 ELSE 0)
      <4> DEFINE size == Cardinality(Copies(p))
      <4>1. /\ size = expiries[p] + (IF p \in window THEN 1 ELSE 0)
            /\ expiries[p] \in Int /\ expiries' = expiries
        BY <1>0, <1>3 DEF Counted
      <4>2. CASE p = OrderOf(c)
        <5>1. Cardinality(Copies(p))' = size + 1
          BY <3>3, <3>5, <4>2
        <5> QED BY <3>1, <4>1, <4>2, <5>1
      <4>3. CASE p # OrderOf(c)
        <5>1. Cardinality(Copies(p))' = size
          BY <3>3, <4>3
        <5> QED BY <3>1, <4>1, <4>3, <5>1
      <4> QED BY <4>2, <4>3
    <3> QED BY <3>6 DEF Counted
  <2> QED BY <2>1, <2>2
<1>4. ASSUME NEW c \in Calls, Publish(c) \/ PublishFails(c) PROVE Counted'
  BY <1>1, <1>3, <1>4 DEF Publish, PublishFails
<1> QED
  BY <1>1, <1>2, <1>4 DEF vars, Next, Progress, Failure, Arrive, Receive, Load, Insert,
     InsertDuplicate, Reload, Reply, LoadFails, InsertFails, ReloadFails, Crash

LEMMA InvStep == IInv /\ [Next]_vars => IInv'
  BY TypeStep, AnsweredStep, LocalAgreesStep, EventsAgreeStep,
     AnnouncedStep, CreatorsStep, CountedStep DEF IInv

\* The invariant holds throughout.
THEOREM Invariance == Spec => []IInv
  BY InvInit, InvStep, PTL DEF Spec

\* Two callers are never given different payments for one order.
THEOREM AnswersAgree == Spec => []RepliesAgree
<1>1. IInv => RepliesAgree
  BY DEF IInv, LocalAgrees, Held, RepliesAgree
<1> QED BY <1>1, Invariance, PTL

\* The stream only ever holds events about committed payments, as committed.
THEOREM EventsAreCommitted == Spec => []EventsAgree
<1>1. IInv => EventsAgree
  BY DEF IInv
<1> QED BY <1>1, Invariance, PTL

\* No caller is told a payment whose event is not in the stream.
THEOREM EventPrecedesAnswer == Spec => []PublishedBeforeReply
<1>1. IInv => PublishedBeforeReply
  BY DEF IInv, Announced, PublishedBeforeReply
<1> QED BY <1>1, Invariance, PTL

\* JetStream stores one event per order and window.
THEOREM EventsAreNotRepeated == Spec => []OncePerWindow
<1>1. IInv => OncePerWindow
  <2> SUFFICES ASSUME IInv, NEW o \in OrderIds
               PROVE  Cardinality(Copies(o)) <= 1 + expiries[o]
    BY DEF OncePerWindow
  <2>1. expiries[o] \in 0..MaxExpiries /\ MaxExpiries \in Nat
    BY ConstantsAssumption DEF IInv, TypeInv, TypeOK
  <2> QED BY <2>1 DEF IInv, Counted
<1> QED BY <1>1, Invariance, PTL

\* One call at most is told that it created the payment of an order.
THEOREM SingleCreator == Spec => []OneCreator
<1>1. IInv => OneCreator
  BY DEF IInv
<1> QED BY <1>1, Invariance, PTL

\* A committed decision never changes.
THEOREM DecisionsAreFinal == Spec => DecisionIsFinal
<1>1. IInv /\ [Next]_vars
      => [\A o \in OrderIds : payments[o] # NoPayment => payments'[o] = payments[o]]_vars
  BY Monotone DEF IInv, RowsKept
<1> QED BY <1>1, Invariance, PTL DEF Spec, DecisionIsFinal

------------------------------------------------------------------------------
(***************************************************************************)
(* The refinement of PaymentLedger.                                        *)
(***************************************************************************)
Stored == {<<stream[i].order, stream[i].payment>> : i \in 1..Len(stream)}
Served == {<<OrderOf(c), payment[c]>> : c \in {d \in Calls : reply[d] = "ok"}}

\* An answered call keeps what it was answered.
LEMMA ServedKept ==
  ASSUME IInv, NEW c \in Calls, request' = [request EXCEPT ![c] = request'[c]],
         payment' = [payment EXCEPT ![c] = payment'[c]],
         reply' = [reply EXCEPT ![c] = reply'[c]],
         reply[c] # "ok", reply'[c] # "ok"
  PROVE  Served' = Served
<1>1. \A d \in Calls : reply'[d] = "ok" <=> reply[d] = "ok"
  BY DEF IInv, TypeInv, TypeOK
<1>2. \A d \in Calls : reply[d] = "ok" => request'[d] = request[d] /\ payment'[d] = payment[d]
  BY DEF IInv, TypeInv, TypeOK
<1> QED BY <1>1, <1>2 DEF Served

LEMMA LedgerStep == IInv /\ [Next]_vars => [Ledger!LedgerNext]_(Ledger!ledgerVars)
<1> SUFFICES ASSUME IInv, [Next]_vars PROVE [Ledger!LedgerNext]_(Ledger!ledgerVars)
  OBVIOUS
<1>0. TypeInv /\ TypeOK /\ Arrived /\ Holds /\ Answered
  BY DEF IInv, TypeInv
<1>1. ASSUME payments' = payments, stream' = stream, Served' = Served
      PROVE  UNCHANGED Ledger!ledgerVars
  BY <1>1 DEF Served, Ledger!ledgerVars
<1>2. ASSUME NEW c \in Calls, Arrive(c) \/ Load(c) \/ LoadFails(c) PROVE UNCHANGED Ledger!ledgerVars
  <2>1. Served' = Served
    BY <1>0, <1>2, ServedKept DEF Arrive, Receive, Load, LoadFails, TypeOK, Answered
  <2> QED BY <1>1, <1>2, <2>1 DEF Arrive, Receive, Load, LoadFails
<1>3. ASSUME NEW c \in Calls, Reload(c) \/ ReloadFails(c) PROVE UNCHANGED Ledger!ledgerVars
  <2>1. Served' = Served
    BY <1>0, <1>3, ServedKept DEF Reload, ReloadFails, TypeOK, Answered
  <2> QED BY <1>1, <1>3, <2>1 DEF Reload, ReloadFails
<1>4. ASSUME NEW c \in Calls, InsertDuplicate(c) PROVE UNCHANGED Ledger!ledgerVars
  BY <1>1, <1>4 DEF InsertDuplicate, Served
\* A committed insert decides.
<1>5. ASSUME NEW c \in Calls, Insert(c) \/ InsertFails(c)
      PROVE  \/ UNCHANGED Ledger!ledgerVars
             \/ Ledger!Decide(OrderOf(c), payment[c])
  <2>1. stream' = stream /\ Served' = Served
    BY <1>5 DEF Insert, InsertFails, Served
  <2>2. CASE payments' = payments
    BY <1>1, <2>1, <2>2
  <2>3. CASE payments' # payments
    BY <1>5, <2>1, <2>3 DEF Insert, InsertFails, Ledger!Decide, Served
  <2> QED BY <2>2, <2>3
\* A stored event announces the row of its order.
<1>6. ASSUME NEW c \in Calls, Publish(c) \/ PublishFails(c)
      PROVE  UNCHANGED Ledger!ledgerVars \/ Ledger!Announce(OrderOf(c))
  <2>1. Served' = Served
    BY <1>0, <1>6, ServedKept DEF Publish, PublishFails, PublishFailedCode, TypeOK, Answered, Served
  <2>2. payments' = payments /\ payments[OrderOf(c)] # NoPayment
        /\ payment[c] = payments[OrderOf(c)]
    BY <1>6 DEF Publish, PublishFails, IInv, LocalAgrees, Held
  <2>3. CASE stream' = stream
    BY <1>1, <2>1, <2>2, <2>3
  <2>4. CASE Store(c) /\ stream' # stream
    <3>1. /\ StreamGrows
          /\ Len(stream') = Len(stream) + 1
          /\ stream'[Len(stream')].order = OrderOf(c)
          /\ stream'[Len(stream')].payment = payment[c]
      BY <1>0, <1>6, <2>4, StoreStep DEF Publish, PublishFails
    <3>2. \A i : i \in 1..Len(stream') <=> i \in 1..Len(stream) \/ i = Len(stream')
      BY <3>1 DEF StreamGrows
    <3>3. Stored' = Stored \cup {<<OrderOf(c), payments[OrderOf(c)]>>}
      BY <2>2, <3>1, <3>2 DEF Stored, StreamGrows
    <3> QED BY <2>1, <2>2, <3>3 DEF Ledger!Announce, Stored, Served
  <2> QED BY <1>6, <2>3, <2>4 DEF Publish, PublishFails
\* A successful answer tells the row, and only after it was announced.
<1>7. ASSUME NEW c \in Calls, Reply(c) PROVE Ledger!Tell(OrderOf(c))
  <2>1. payment[c] = payments[OrderOf(c)] /\ Published(OrderOf(c))
    BY <1>7 DEF Reply, IInv, LocalAgrees, Held, Announced
  <2>2. <<OrderOf(c), payments[OrderOf(c)]>> \in Stored
    BY <2>1 DEF Published, Stored, IInv, EventsAgree
  <2>3. \A d \in Calls : reply'[d] = "ok" <=> d = c \/ reply[d] = "ok"
    BY <1>0, <1>7 DEF Reply, TypeOK
  <2>4. Served' = Served \cup {<<OrderOf(c), payments[OrderOf(c)]>>}
    BY <1>7, <2>1, <2>3 DEF Reply, Served
  <2> QED BY <1>7, <2>2, <2>4 DEF Reply, Ledger!Tell, Stored, Served
<1>8. ASSUME Crash \/ UNCHANGED vars \/ \E o \in OrderIds : Expire(o)
      PROVE  UNCHANGED Ledger!ledgerVars
  <2>1. Served' = Served
    <3>1. CASE Crash
      <4>1. \A d \in Calls : reply'[d] = "ok" <=> reply[d] = "ok"
        BY <1>0, <3>1 DEF Crash, InFlight, TypeOK, Answered
      <4> QED BY <3>1, <4>1 DEF Crash, Served
    <3> QED BY <1>8, <3>1 DEF vars, Expire, Served
  <2> QED BY <1>1, <1>8, <2>1 DEF Crash, vars, Expire
<1>9. ASSUME NEW c \in Calls, Insert(c) \/ InsertFails(c)
      PROVE  UNCHANGED Ledger!ledgerVars \/ Ledger!LedgerNext
  <2>1. OrderOf(c) \in OrderIds /\ payment[c] \in Payment
    BY <1>0, <1>9 DEF Arrived, Request, Holds, Insert, InsertFails
  <2> QED BY <1>5, <1>9, <2>1 DEF Ledger!LedgerNext
<1>10. ASSUME NEW c \in Calls, Publish(c) \/ PublishFails(c) \/ Reply(c)
       PROVE  UNCHANGED Ledger!ledgerVars \/ Ledger!LedgerNext
  <2>1. OrderOf(c) \in OrderIds
    BY <1>0, <1>10 DEF Arrived, Request, Publish, PublishFails, Reply
  <2>2. Ledger!Announce(OrderOf(c)) \/ Ledger!Tell(OrderOf(c)) => Ledger!LedgerNext
    BY <2>1 DEF Ledger!LedgerNext, Ledger!Announce, Ledger!Tell
  <2>3. CASE Reply(c)
    BY <1>7, <2>2, <2>3
  <2>4. CASE Publish(c) \/ PublishFails(c)
    BY <1>6, <2>2, <2>4
  <2> QED BY <1>10, <2>3, <2>4
<1> QED
  BY <1>2, <1>3, <1>4, <1>8, <1>9, <1>10 DEF Next, Progress, Failure

\* The payment service implements the ledger: the handlers' races, failures and
\* crashes only ever show as decisions, announcements and answers of the ledger.
THEOREM Refinement == Spec => ImplementsLedger
<1>1. Init => Ledger!LedgerInit
  BY DEF Init, Ledger!LedgerInit
<1> QED BY <1>1, Invariance, LedgerStep, PTL DEF Spec, ImplementsLedger, Ledger!LedgerSpec
==============================================================================
