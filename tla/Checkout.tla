------------------------------- MODULE Checkout -------------------------------
(***************************************************************************)
(* Orders and Payments together, joined by one of the two payment clients  *)
(* of the order service.  A call of the gRPC client, the one main.go wires *)
(* in, is up to MaxAttempts ProcessPayment attempts, sent one after the    *)
(* other under one deadline; the HTTP client sends one POST /payments.  An *)
(* attempt whose connection was lost can still be running, or yet have to  *)
(* arrive, while the next one is under way and after the caller gave up.   *)
(*                                                                         *)
(* The module shows that the order service with this payment service       *)
(* behaves as Orders says it does with the abstract PaymentLedger.         *)
(***************************************************************************)
EXTENDS Naturals, Sequences, FiniteSetsExt

CONSTANTS Creates, Cancels, Keys, Amounts, AuthorizationLimit,
          Clients,            \* the payment clients a build may choose from
          MaxAttempts,        \* maxAttempts of the gRPC retry policy
          NoTransaction, NoOrder, NoRequest, NoDecision, NoPayment,
          MaxFaults,          \* bound: failures the order service sees
          MaxCrashes,         \* bound: crashes of the order service
          MaxLosses,          \* bound: connections lost while both services work
          MaxPaymentFaults,   \* bound: failures inside the payment service
          MaxPaymentCrashes,  \* bound: crashes of the payment service
          MaxExpiries,        \* bound: times a message id leaves the duplicate window
          MaxDisturbances     \* bound: all of these and the cancellations together

ASSUME CheckoutAssumption ==
  /\ MaxAttempts \in Nat \ {0}
  /\ Clients \subseteq {"grpc", "http"}
  /\ Amounts \subseteq Nat /\ AuthorizationLimit \in Nat
  /\ MaxFaults \in Nat /\ MaxCrashes \in Nat /\ MaxLosses \in Nat
  /\ MaxPaymentFaults \in Nat /\ MaxPaymentCrashes \in Nat
  /\ MaxExpiries \in Nat /\ MaxDisturbances \in Nat

Attempts == Creates \X (1..MaxAttempts)

VARIABLES
  orders, pc, request, order, created, verdict, reply,   \* see Orders
  cpc, target, creply, asked, faults, crashes,
  payments, stream, window, expiries,                    \* see Payments
  callPc, callRequest, callPayment, callCreated, callReply, callFaults, callCrashes,
  client,        \* the PaymentAuthorizer the service was built with
  attempt,       \* the number of attempts each request has sent
  losses

orderSide == <<orders, pc, request, order, created, verdict, reply, cpc, target, creply,
               asked, faults, crashes>>
paymentSide == <<payments, stream, window, expiries, callPc, callRequest, callPayment,
                 callCreated, callReply, callFaults, callCrashes>>
link == <<client, attempt, losses>>
vars == <<orderSide, paymentSide, link>>

------------------------------------------------------------------------------
\* The payment service as the order service sees it (server.go, mapPayment).
Response(p) == [status |-> p.status, tx |-> p.tx]
Decided == [o \in Creates |-> IF payments[o] = NoPayment THEN NoDecision
                                                        ELSE Response(payments[o])]
Announced == {<<stream[i].order, Response(stream[i].payment)>> : i \in 1..Len(stream)}
Told == {<<order[r].id, verdict[r]>> : r \in {s \in Creates : verdict[s] # NoDecision}}

Order == INSTANCE Orders
  WITH Payloads <- Amounts, Transactions <- Attempts,
       decision <- Decided, announced <- Announced, told <- Told

Payment == INSTANCE Payments
  WITH Calls <- Attempts, OrderIds <- Creates, BlankIds <- {},
       MaxFaults <- MaxPaymentFaults, MaxCrashes <- MaxPaymentCrashes,
       pc <- callPc, request <- callRequest, payment <- callPayment,
       created <- callCreated, reply <- callReply,
       faults <- callFaults, crashes <- callCrashes

ASSUME NullsAssumption ==
  /\ NoTransaction \notin Attempts
  /\ NoOrder \notin Order!Order /\ NoPayment \notin Payment!Payment
  /\ NoRequest \notin Order!Request /\ NoRequest \notin Payment!Request
  /\ NoDecision \notin Order!Decision

Init ==
  /\ Payment!Init
  /\ Order!Init
  /\ client \in Clients
  /\ attempt = [r \in Creates |-> 0]
  /\ losses = 0

------------------------------------------------------------------------------
\* What can upset the two services in one behaviour is bounded as a whole.
Cancelling == {k \in Cancels : cpc[k] # "idle"}
Expired == {o \in Creates : expiries[o] > 0}
Disturbable ==
  faults + crashes + losses + callFaults + callCrashes
    + Cardinality(Cancelling) + Cardinality(Expired) < MaxDisturbances

\* Everything of a request that does not involve the payment service.
OrderProgress(r) ==
  /\ UNCHANGED <<paymentSide, link>>
  /\ \/ Order!Lookup(r) \/ Order!Insert(r) \/ Order!InsertDuplicate(r)
     \/ Order!Reload(r) \/ Order!Settle(r)

OrderArrives(r) == UNCHANGED <<paymentSide, link>> /\ Order!CreateArrives(r)

OrderFailure(r) ==
  /\ Disturbable
  /\ UNCHANGED <<paymentSide, link>>
  /\ Order!ReadFails(r) \/ Order!InsertFails(r) \/ Order!SettleFails(r)

OrderCrash == Disturbable /\ UNCHANGED <<paymentSide, link>> /\ Order!Crash

Cancel(k) ==
  /\ UNCHANGED <<paymentSide, link>>
  /\ \/ Disturbable /\ (Order!CancelReceive(k) \/ Order!CancelFails(k))
     \/ Order!CancelProgress(k)

\* The first attempt of a call.
Send(r) ==
  /\ UNCHANGED <<paymentSide, client, losses>>
  /\ Order!Authorize(r)
  /\ attempt' = [attempt EXCEPT ![r] = 1]

Waiting(r) == pc[r] = "waiting"
Current(r) == <<r, attempt[r]>>

\* Mutant: retries without the limit of the policy.
AgainForEver(r) == attempt' = [attempt EXCEPT ![r] = @ + 1]

\* maxAttempts counts the first attempt too; the HTTP client has no retries.
Limit == IF client = "grpc" THEN MaxAttempts ELSE 1
Again(r) == attempt[r] < Limit /\ attempt' = [attempt EXCEPT ![r] = @ + 1]

\* The answers each client takes for "no answer": the code Unavailable, also of a
\* connection that broke with the process, or any status from 500 up.
Unanswered ==
  IF client = "grpc" THEN {"unavailable", "lost"} ELSE {"internal", "unavailable", "lost"}

Resend(r) ==
  /\ Waiting(r)
  /\ callReply[Current(r)] \in Unanswered
  /\ Again(r)
  /\ UNCHANGED <<orderSide, paymentSide, client, losses>>

\* The connection is lost between two working services.
ConnectionLost(r) ==
  /\ Waiting(r)
  /\ Disturbable
  /\ losses < MaxLosses /\ losses' = losses + 1
  /\ Again(r)
  /\ UNCHANGED <<orderSide, paymentSide, client>>

\* Mutants: the payment is asked for under the id of the request, not of the order
\* the request resumed; or amounts are cut off at one.
PaymentRequestOwnId(r) == [via |-> client, order |-> r, amount |-> order[r].payload]
PaymentRequestCapped(r) ==
  [via |-> client, order |-> order[r].id,
   amount |-> IF order[r].payload > 1 THEN 1 ELSE order[r].payload]

PaymentRequest(r) ==
  [via |-> client, order |-> order[r].id, amount |-> order[r].payload]

\* An attempt reaches the payment service, in time or not.
Arrive(r, n) ==
  /\ n <= attempt[r]
  /\ UNCHANGED <<orderSide, link>>
  /\ Payment!Receive(<<r, n>>, PaymentRequest(r))

PaymentProgress(c) == UNCHANGED <<orderSide, link>> /\ Payment!Progress(c)
PaymentFailure(c) == Disturbable /\ Payment!Failure(c) /\ UNCHANGED <<orderSide, link>>
PaymentCrash == Disturbable /\ Payment!Crash /\ UNCHANGED <<orderSide, link>>

\* The duplicate window of the event of an order passes: an order left Pending may be
\* retried long after.
WindowPasses(o) == Disturbable /\ Payment!Expire(o) /\ UNCHANGED <<orderSide, link>>

\* Mutant: a payment that comes with an error is accepted all the same.
TrustedPartial == {"ok", "unavailable"}

\* The answers from which the clients take a PaymentResult.
Trusted == {"ok"}

AnswerArrives(r) ==
  /\ Waiting(r)
  /\ callReply[Current(r)] \in Trusted
  /\ verdict' = [verdict EXCEPT ![r] = Response(callPayment[Current(r)])]
  /\ pc' = [pc EXCEPT ![r] = "settle"]
  /\ UNCHANGED <<orders, request, order, created, reply, cpc, target, creply, asked,
                 faults, crashes, paymentSide, link>>

\* The deadline passes, or the connection breaks for good.
TimesOut(r) == Disturbable /\ UNCHANGED <<paymentSide, link>> /\ Order!PaymentUnavailable(r)

\* The last attempt fails too.
GivesUp(r) ==
  /\ UNCHANGED <<paymentSide, link>>
  /\ Waiting(r) /\ attempt[r] = Limit /\ callReply[Current(r)] \in Unanswered
  /\ Order!PaymentUnavailable(r)

\* The payment service answers with any other code.
ErrorArrives(r) ==
  /\ UNCHANGED <<paymentSide, link>>
  /\ Waiting(r) /\ callReply[Current(r)] \in {"internal", "invalid"} \ Unanswered
  /\ Order!PaymentErrors(r)

------------------------------------------------------------------------------
\* Mutant: the sum is taken over every order.
RevenueOfAll ==
  [count |-> Cardinality(Order!Rows),
   total |-> MapThenSumSet(LAMBDA o : orders[o].payload, Order!Rows)]

\* GET /orders/revenue: count and sum of the Paid rows (of one customer).
Revenue ==
  LET paid == {o \in Order!Rows : orders[o].status = "Paid"}
  IN  [count |-> Cardinality(paid), total |-> MapThenSumSet(LAMBDA o : orders[o].payload, paid)]

------------------------------------------------------------------------------
ClientProgress(r) ==
  Send(r) \/ Resend(r) \/ AnswerArrives(r) \/ GivesUp(r) \/ ErrorArrives(r)

Next ==
  \/ \E r \in Creates :
       \/ OrderArrives(r) \/ OrderProgress(r) \/ OrderFailure(r)
       \/ ClientProgress(r) \/ ConnectionLost(r) \/ TimesOut(r)
       \/ \E n \in 1..MaxAttempts : Arrive(r, n)
  \/ \E c \in Attempts : PaymentProgress(c) \/ PaymentFailure(c)
  \/ \E k \in Cancels : Cancel(k)
  \/ \E o \in Creates : WindowPasses(o)
  \/ OrderCrash \/ PaymentCrash

Spec == Init /\ [][Next]_vars

\* Both services run, what is sent arrives, and a client whose order is not settled
\* asks again.
RetrySpec ==
  /\ Spec
  /\ \A r \in Creates :
       /\ WF_vars(OrderArrives(r)) /\ WF_vars(OrderProgress(r)) /\ WF_vars(ClientProgress(r))
       /\ \A n \in 1..MaxAttempts : WF_vars(Arrive(r, n))
  /\ \A c \in Attempts : WF_vars(PaymentProgress(c))

------------------------------------------------------------------------------
\* Every variable has its type.
TypeOK ==
  /\ Order!TypeOK
  /\ Payment!TypeOK
  /\ client \in Clients
  /\ attempt \in [Creates -> 0..MaxAttempts]
  /\ losses \in 0..MaxLosses

\* With this payment service behind it, through retries, late attempts, and crashes on
\* both sides, the order service does nothing Orders does not allow.
ImplementsOrders == Order!Spec

\* A customer who repeats a request under one idempotency key is charged once
\* (README.md:7-8): no two payments exist for orders with the same key, nor one
\* without an order.
OneChargePerKey ==
  /\ \A o \in Creates : payments[o] # NoPayment => orders[o] # NoOrder
  /\ \A o, p \in Creates :
       payments[o] # NoPayment /\ payments[p] # NoPayment /\ orders[o].key = orders[p].key
       => o = p

\* A settled order states the outcome of its own payment, which followed from its own
\* amount whichever of the attempts made for it took the decision, and which is announced;
\* and a transaction that an order records, even a cancelled one, is that of its payment.
OutcomeMatchesPayment ==
  \A o \in Order!Rows :
    LET row == orders[o]
        charge == payments[o]
    IN  /\ row.status = "Paid" =>
             charge # NoPayment /\ charge.status = "Authorized" /\ charge.tx = row.tx
             /\ row.payload <= AuthorizationLimit
        /\ row.status = "Failed" =>
             charge # NoPayment /\ charge.status = "Declined"
             /\ row.payload > AuthorizationLimit
        /\ row.status \in {"Paid", "Failed"} => Payment!Published(o)
        /\ row.tx # NoTransaction => charge # NoPayment /\ charge.tx = row.tx

\* GetRevenue never counts money no customer was charged: the amounts of the Paid
\* orders, added up by the query, stay within the payments that were authorized.
RevenueIsCharged ==
  LET charged == {o \in Creates : payments[o] # NoPayment /\ payments[o].tx # NoTransaction}
  IN  /\ Revenue.count <= Cardinality(charged)
      /\ Revenue.total <= MapThenSumSet(LAMBDA o : payments[o].amount, charged)

\* Where nobody cancels it, a stored order is settled in the end and its event is then
\* in the stream, however the attempts failed, unless no request about it succeeds.
OrderIsSettled ==
  \A o \in Creates :
    o \in Order!Rows ~>
      \/ /\ o \in Order!Rows /\ orders[o].status \in {"Paid", "Failed"}
         /\ Payment!Published(o)
      \/ \A r \in Creates : pc[r] = "done" /\ reply[r] \notin {"created", "ok"}
==============================================================================
