------------------------------- MODULE Payments -------------------------------
(***************************************************************************)
(* The payment service: any number of Authorize calls, over gRPC           *)
(* (ProcessPayment) and over HTTP (POST /payments), running at the same    *)
(* time against one payments table and one JetStream stream.               *)
(*                                                                         *)
(* A call is one execution of the handler.  Between two actions of a call  *)
(* any other call can run: the service takes no lock, and what makes it    *)
(* correct is the primary key of the payments table, the reload after a    *)
(* failed insert, and the message id that JetStream deduplicates.          *)
(*                                                                         *)
(* The transaction id a call draws with uuid.NewString() is the call's own *)
(* identity: a call draws one at most, and no two draw the same.           *)
(***************************************************************************)
EXTENDS Naturals, Sequences, FiniteSets

CONSTANTS Calls,              \* executions of the Authorize handler
          OrderIds,           \* order ids callers send
          BlankIds,           \* those made of white space only
          Amounts,            \* amounts callers send
          AuthorizationLimit, \* 100000 in the code
          NoPayment,          \* no row, no local payment
          NoTransaction,      \* the NULL transaction id of a declined payment
          NoRequest,          \* a call that has not arrived
          MaxFaults,          \* bound: failed database or broker operations
          MaxCrashes,         \* bound: crashes of the service
          MaxExpiries         \* bound: times a message id leaves the window

ASSUME ConstantsAssumption ==
  /\ BlankIds \subseteq OrderIds
  /\ Amounts \subseteq Nat
  /\ AuthorizationLimit \in Nat
  /\ MaxFaults \in Nat /\ MaxCrashes \in Nat /\ MaxExpiries \in Nat
  /\ NoTransaction \notin Calls

Transports == {"grpc", "http"}
Request == [via : Transports, order : OrderIds, amount : Amounts]
Payment == [amount : Amounts, status : {"Authorized", "Declined"},
            tx : Calls \cup {NoTransaction}]
Event == [id : OrderIds, order : OrderIds, payment : Payment]

ASSUME NullsAssumption == NoPayment \notin Payment /\ NoRequest \notin Request

PCs == {"idle", "load", "insert", "reload", "publish", "reply", "done"}
Replies == {"none", "ok", "invalid", "unavailable", "internal", "lost"}

VARIABLES
  payments,   \* the payments table: a row or NoPayment for each order id
  \* JetStream, stream PAYMENTS, subject payment.completed
  stream,     \* the events stored, in order
  window,     \* message ids still inside the 24 h duplicate window
  expiries,   \* how often each message id has left the window
  \* the calls
  pc,         \* where each call is
  request,    \* what it was asked
  payment,    \* the local variable holding the payment
  created,    \* the second result of Authorize
  reply,      \* what the caller was answered
  \* the environment
  faults, crashes

broker == <<stream, window, expiries>>
calls == <<pc, request, payment, created, reply>>
env == <<faults, crashes>>
vars == <<payments, stream, window, expiries, pc, request, payment, created,
          reply, faults, crashes>>

------------------------------------------------------------------------------
OrderOf(c) == request[c].order
InFlight == {c \in Calls : pc[c] \notin {"idle", "done"}}

\* PRIMARY KEY (order_id); the mutant is a table without it.
NoPrimaryKey(c) == FALSE
KeyTaken(c) == payments[OrderOf(c)] # NoPayment

Published(o) == \E i \in 1..Len(stream) : stream[i].order = o

\* The payment the service builds for a new order.
Authorization(c) ==
  LET approved == ~(request[c].amount > AuthorizationLimit)
  IN  [amount |-> request[c].amount,
       status |-> IF approved THEN "Authorized" ELSE "Declined",
       tx     |-> IF approved THEN c ELSE NoTransaction]

\* The message id is drawn from the order alone, so every publication about an
\* order carries the same one.
MessageID(c) == OrderOf(c)

\* Answering ends the call.
Answer(c, code) ==
  /\ pc' = [pc EXCEPT ![c] = "done"]
  /\ reply' = [reply EXCEPT ![c] = code]

\* Mutant: the error of the publication is logged and dropped.
PublishErrorIgnored(c) == "ok"

\* ErrEventPublishFailed is Unavailable over gRPC and a plain 500 over HTTP.
PublishFailedCode(c) ==
  IF request[c].via = "grpc" THEN "unavailable" ELSE "internal"

Goto(c, label) == pc' = [pc EXCEPT ![c] = label]
Fault == faults < MaxFaults /\ faults' = faults + 1 /\ UNCHANGED crashes

------------------------------------------------------------------------------
Init ==
  /\ payments = [o \in OrderIds |-> NoPayment]
  /\ stream = << >>
  /\ window = {}
  /\ expiries = [o \in OrderIds |-> 0]
  /\ pc = [c \in Calls |-> "idle"]
  /\ request = [c \in Calls |-> NoRequest]
  /\ payment = [c \in Calls |-> NoPayment]
  /\ created = [c \in Calls |-> FALSE]
  /\ reply = [c \in Calls |-> "none"]
  /\ faults = 0
  /\ crashes = 0

\* Only gRPC trims the order id; both transports insist on a positive amount.
Rejected(q) == q.amount = 0 \/ (q.via = "grpc" /\ q.order \in BlankIds)

Receive(c, q) ==
  /\ pc[c] = "idle"
  /\ request' = [request EXCEPT ![c] = q]
  /\ IF Rejected(q) THEN Answer(c, "invalid")
                    ELSE Goto(c, "load") /\ UNCHANGED reply
  /\ UNCHANGED <<payments, broker, payment, created, env>>

\* Mutant: an existing payment is returned without being published again.
LoadSkipsPublish(c) ==
  /\ pc[c] = "load"
  /\ LET row == payments[OrderOf(c)]
     IN  IF row # NoPayment
         THEN Goto(c, "reply") /\ payment' = [payment EXCEPT ![c] = row]
         ELSE /\ Goto(c, "insert")
              /\ payment' = [payment EXCEPT ![c] = Authorization(c)]
  /\ UNCHANGED <<payments, broker, request, created, reply, env>>

\* Mutant: the row that was found is not copied, and nil is published.
LoadForgetsRow(c) ==
  /\ pc[c] = "load"
  /\ IF payments[OrderOf(c)] # NoPayment
     THEN Goto(c, "publish") /\ UNCHANGED payment
     ELSE Goto(c, "insert") /\ payment' = [payment EXCEPT ![c] = Authorization(c)]
  /\ UNCHANGED <<payments, broker, request, created, reply, env>>

\* repository.GetByOrderID: a row is published again, an absent one decided.
Load(c) ==
  /\ pc[c] = "load"
  /\ LET row == payments[OrderOf(c)]
     IN  IF row # NoPayment
         THEN Goto(c, "publish") /\ payment' = [payment EXCEPT ![c] = row]
         ELSE /\ Goto(c, "insert")
              /\ payment' = [payment EXCEPT ![c] = Authorization(c)]
  /\ UNCHANGED <<payments, broker, request, created, reply, env>>

LoadFails(c) ==
  /\ pc[c] = "load"
  /\ Fault
  /\ Answer(c, "internal")
  /\ UNCHANGED <<payments, broker, request, payment, created>>

\* repository.Create when the primary key is free.
Insert(c) ==
  /\ pc[c] = "insert"
  /\ ~KeyTaken(c)
  /\ payments' = [payments EXCEPT ![OrderOf(c)] = payment[c]]
  /\ created' = [created EXCEPT ![c] = TRUE]
  /\ Goto(c, "publish")
  /\ UNCHANGED <<broker, request, payment, reply, env>>

\* 23505: another call inserted the row since this one looked.
InsertDuplicate(c) ==
  /\ pc[c] = "insert"
  /\ KeyTaken(c)
  /\ Goto(c, "reload")
  /\ UNCHANGED <<payments, broker, request, payment, created, reply, env>>

\* Mutant: after any failed insert the service goes on with the payment it built.
InsertErrorIgnored(c) ==
  /\ pc[c] = "insert"
  /\ Fault
  /\ Goto(c, "publish")
  /\ UNCHANGED <<payments, broker, request, payment, created, reply>>

\* Any other error of the insert, which may have been committed before the
\* connection or the context was lost.  The service reloads in either case.
InsertFails(c) ==
  /\ pc[c] = "insert"
  /\ Fault
  /\ \/ UNCHANGED payments
     \/ /\ ~KeyTaken(c)
        /\ payments' = [payments EXCEPT ![OrderOf(c)] = payment[c]]
  /\ Goto(c, "reload")
  /\ UNCHANGED <<broker, request, payment, created, reply>>

\* Mutants: the row is looked at but not taken; or the caller is told it is new.
ReloadKeepsOwn(c) ==
  /\ pc[c] = "reload"
  /\ IF KeyTaken(c) THEN Goto(c, "publish") /\ UNCHANGED reply ELSE Answer(c, "internal")
  /\ UNCHANGED <<payments, broker, request, payment, created, env>>

ReloadCreates(c) ==
  /\ pc[c] = "reload"
  /\ KeyTaken(c)
  /\ Goto(c, "publish")
  /\ payment' = [payment EXCEPT ![c] = payments[OrderOf(c)]]
  /\ created' = [created EXCEPT ![c] = TRUE]
  /\ UNCHANGED <<payments, broker, request, reply, env>>

Reload(c) ==
  /\ pc[c] = "reload"
  /\ LET row == payments[OrderOf(c)]
     IN  IF row # NoPayment
         THEN /\ Goto(c, "publish")
              /\ payment' = [payment EXCEPT ![c] = row]
              /\ UNCHANGED reply
         ELSE Answer(c, "internal") /\ UNCHANGED payment
  /\ UNCHANGED <<payments, broker, request, created, env>>

ReloadFails(c) ==
  /\ pc[c] = "reload"
  /\ Fault
  /\ Answer(c, "internal")
  /\ UNCHANGED <<payments, broker, request, payment, created>>

\* Mutant: the publication carries no Nats-Msg-Id.
StoreAlways(c) ==
  /\ stream' = Append(stream, [id |-> MessageID(c), order |-> OrderOf(c),
                               payment |-> payment[c]])
  /\ window' = window \cup {MessageID(c)}

\* JetStream stores a message unless its id is still in the duplicate window;
\* it acknowledges the publication in both cases.
Store(c) ==
  IF MessageID(c) \in window
  THEN UNCHANGED <<stream, window>>
  ELSE /\ stream' = Append(stream, [id |-> MessageID(c), order |-> OrderOf(c),
                                    payment |-> payment[c]])
       /\ window' = window \cup {MessageID(c)}

Publish(c) ==
  /\ pc[c] = "publish"
  /\ Store(c)
  /\ Goto(c, "reply")
  /\ UNCHANGED <<payments, expiries, request, payment, created, reply, env>>

\* The broker is away, or its acknowledgement does not arrive in time.
PublishFails(c) ==
  /\ pc[c] = "publish"
  /\ Fault
  /\ Store(c) \/ UNCHANGED <<stream, window>>
  /\ Answer(c, PublishFailedCode(c))
  /\ UNCHANGED <<payments, expiries, request, payment, created>>

\* The handler returns the payment it holds.
Reply(c) ==
  /\ pc[c] = "reply"
  /\ Answer(c, "ok")
  /\ UNCHANGED <<payments, broker, request, payment, created, env>>

\* The process dies: every call in flight is cut off, what was committed stays.
Crash ==
  /\ crashes < MaxCrashes
  /\ InFlight # {}
  /\ crashes' = crashes + 1
  /\ pc' = [c \in Calls |-> IF c \in InFlight THEN "done" ELSE pc[c]]
  /\ reply' = [c \in Calls |-> IF c \in InFlight THEN "lost" ELSE reply[c]]
  /\ UNCHANGED <<payments, broker, request, payment, created, faults>>

\* 24 hours after a message was stored its id no longer suppresses another.
Expire(o) ==
  /\ o \in window
  /\ expiries[o] < MaxExpiries
  /\ window' = window \ {o}
  /\ expiries' = [expiries EXCEPT ![o] = @ + 1]
  /\ UNCHANGED <<payments, stream, calls, env>>

------------------------------------------------------------------------------
Progress(c) ==
  \/ Load(c) \/ Insert(c) \/ InsertDuplicate(c) \/ Reload(c)
  \/ Publish(c) \/ Reply(c)

Failure(c) ==
  \/ LoadFails(c) \/ InsertFails(c) \/ ReloadFails(c) \/ PublishFails(c)

Arrive(c) == \E q \in Request : Receive(c, q)

Next ==
  \/ \E c \in Calls : Arrive(c) \/ Progress(c) \/ Failure(c)
  \/ \E o \in OrderIds : Expire(o)
  \/ Crash

Spec == Init /\ [][Next]_vars

\* A handler that was entered runs; nobody has to call, fail or crash.
FairSpec == Spec /\ \A c \in Calls : WF_vars(Progress(c))

------------------------------------------------------------------------------
\* Every variable has its type.
TypeOK ==
  /\ payments \in [OrderIds -> Payment \cup {NoPayment}]
  /\ stream \in Seq(Event)
  /\ window \subseteq OrderIds
  /\ expiries \in [OrderIds -> 0..MaxExpiries]
  /\ pc \in [Calls -> PCs]
  /\ request \in [Calls -> Request \cup {NoRequest}]
  /\ payment \in [Calls -> Payment \cup {NoPayment}]
  /\ created \in [Calls -> BOOLEAN]
  /\ reply \in [Calls -> Replies]
  /\ faults \in 0..MaxFaults
  /\ crashes \in 0..MaxCrashes

\* Whatever the interleaving of inserts, duplicates and reloads, a caller that
\* is answered with a payment is answered with the row of its order: two callers
\* never hold different decisions or transaction ids for one order.
RepliesAgree ==
  \A c \in Calls : reply[c] = "ok" => payment[c] = payments[OrderOf(c)]

\* The consumer never learns of a payment that was not committed, nor of other
\* contents than the committed ones (service.go publishes the reloaded row, never
\* the payment it failed to insert).
EventsAgree ==
  \A i \in 1..Len(stream) :
    /\ payments[stream[i].order] # NoPayment
    /\ stream[i].payment = payments[stream[i].order]

\* A caller is told a payment only after its event is in the stream, also when the
\* row comes from a call that died before publishing: this is what makes a retry
\* repair the lost event.
PublishedBeforeReply ==
  \A c \in Calls : reply[c] = "ok" => Published(OrderOf(c))

\* One event per order and 24 h window, however many calls, retries and lost
\* acknowledgements there are.
Copies(o) == {i \in 1..Len(stream) : stream[i].order = o}
OncePerWindow == \A o \in OrderIds : Cardinality(Copies(o)) <= 1 + expiries[o]

\* At most one call is told that it created the payment (201 rather than 200).
OneCreator ==
  \A c, d \in Calls :
    created[c] /\ created[d] /\ OrderOf(c) = OrderOf(d) => c = d

\* A decision is never replaced, by a retry with another amount or by a late call.
DecisionIsFinal ==
  [][\A o \in OrderIds : payments[o] # NoPayment => payments'[o] = payments[o]]_vars

\* Once a payment is committed its event reaches the stream (README.md:12).
CommittedIsPublished ==
  \A o \in OrderIds : payments[o] # NoPayment ~> Published(o)

------------------------------------------------------------------------------
\* What the service promises, with the rows as decisions, the stored events as
\* announcements and the successful answers as what was told.
Ledger == INSTANCE PaymentLedger
  WITH Decisions <- Payment,
       Undecided <- NoPayment,
       decision  <- payments,
       announced <- {<<stream[i].order, stream[i].payment>> : i \in 1..Len(stream)},
       told      <- {<<OrderOf(c), payment[c]>> : c \in {d \in Calls : reply[d] = "ok"}}

\* The handlers, with their failures, crashes and duplicates, never do anything the
\* ledger does not allow.
ImplementsLedger == Ledger!LedgerSpec
==============================================================================
