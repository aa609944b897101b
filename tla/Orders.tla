-------------------------------- MODULE Orders --------------------------------
(***************************************************************************)
(* The order service: concurrent POST /orders and PATCH /orders/{id}/cancel*)
(* requests against one orders table, with the payment service behind it   *)
(* as PaymentLedger describes it.                                          *)
(*                                                                         *)
(* Create persists a Pending row, asks the payment service, and writes the *)
(* decision back; a request whose idempotency key is taken resumes the row *)
(* it finds.  Cancel reads the row, checks that it is Pending, and writes  *)
(* Cancelled.  Every database access is a step of its own and both updates *)
(* are "WHERE id = $1" only, so any other request runs in between.         *)
(*                                                                         *)
(* The id Create draws with uuid.NewString() is the request's own identity.*)
(***************************************************************************)
EXTENDS Naturals, FiniteSets

CONSTANTS Creates,        \* executions of Create; also the order ids
          Cancels,        \* executions of Cancel
          Keys,           \* idempotency keys
          Payloads,       \* customer, item and amount: what is fingerprinted
          Transactions,   \* transaction ids the payment service can draw
          NoTransaction, NoOrder, NoRequest, NoDecision,
          MaxFaults,      \* bound: failed database or payment operations
          MaxCrashes      \* bound: crashes of the order service

ASSUME ConstantsAssumption ==
  /\ NoTransaction \notin Transactions
  /\ MaxFaults \in Nat /\ MaxCrashes \in Nat

Statuses == {"Pending", "Paid", "Failed", "Cancelled"}
Order == [id : Creates, key : Keys, payload : Payloads, status : Statuses,
          tx : Transactions \cup {NoTransaction}]
Request == [key : Keys, payload : Payloads]
Authorized == [status : {"Authorized"}, tx : Transactions]
Declined == [status : {"Declined"}, tx : {NoTransaction}]
Decision == Authorized \cup Declined

ASSUME NullsAssumption ==
  NoOrder \notin Order /\ NoRequest \notin Request /\ NoDecision \notin Decision

PCs == {"idle", "lookup", "insert", "reload", "authorize", "waiting", "settle", "done"}
Replies == {"none", "created", "ok", "unavailable", "mismatch", "internal", "lost"}
CancelPCs == {"idle", "read", "update", "done"}
CancelReplies == {"none", "ok", "not found", "conflict", "internal", "lost"}

VARIABLES
  orders,     \* the orders table: a row or NoOrder for each id
  \* the Create requests
  pc, request,
  order,      \* the local copy of the row, and the body of the answer
  created,    \* the second result of Create
  verdict,    \* what Authorize returned
  reply,
  \* the Cancel requests
  cpc, target, creply,
  \* the payment service
  asked,      \* order ids whose payment was requested
  decision, announced, told,
  \* the environment
  faults, crashes

creates == <<pc, request, order, created, verdict, reply>>
cancels == <<cpc, target, creply>>
ledger == <<decision, announced, told>>
env == <<faults, crashes>>
vars == <<orders, pc, request, order, created, verdict, reply, cpc, target, creply,
          asked, decision, announced, told, faults, crashes>>

Ledger == INSTANCE PaymentLedger
  WITH OrderIds <- Creates, Decisions <- Decision, Undecided <- NoDecision

------------------------------------------------------------------------------
Rows == {o \in Creates : orders[o] # NoOrder}
WithKey(k) == {o \in Rows : orders[o].key = k}

\* The unique index on idempotency_key; the mutant is a table without it.
NoUniqueIndex(r) == FALSE
KeyTaken(r) == WithKey(request[r].key) # {}

Goto(r, label) == pc' = [pc EXCEPT ![r] = label]
Answer(r, code) ==
  /\ pc' = [pc EXCEPT ![r] = "done"]
  /\ reply' = [reply EXCEPT ![r] = code]
CancelAnswer(k, code) ==
  /\ cpc' = [cpc EXCEPT ![k] = "done"]
  /\ creply' = [creply EXCEPT ![k] = code]
Fault == faults < MaxFaults /\ faults' = faults + 1 /\ UNCHANGED crashes

\* Mutant: every successful request is told it created the order.
AlwaysCreated(r) == "created"

\* 201 for the request that inserted the row, 200 for every other.
SuccessCode(r) == IF created[r] THEN "created" ELSE "ok"

Init ==
  /\ orders = [o \in Creates |-> NoOrder]
  /\ pc = [r \in Creates |-> "idle"]
  /\ request = [r \in Creates |-> NoRequest]
  /\ order = [r \in Creates |-> NoOrder]
  /\ created = [r \in Creates |-> FALSE]
  /\ verdict = [r \in Creates |-> NoDecision]
  /\ reply = [r \in Creates |-> "none"]
  /\ cpc = [k \in Cancels |-> "idle"]
  /\ target \in [Cancels -> Creates]
  /\ creply = [k \in Cancels |-> "none"]
  /\ asked = {}
  /\ Ledger!LedgerInit
  /\ faults = 0
  /\ crashes = 0

------------------------------------------------------------------------------
\* Create

Receive(r, q) ==
  /\ pc[r] = "idle"
  /\ request' = [request EXCEPT ![r] = q]
  /\ Goto(r, "lookup")
  /\ UNCHANGED <<orders, order, created, verdict, reply, cancels, asked, env>>
  /\ UNCHANGED ledger

\* Mutant: the fingerprints are not compared.
ResumeUnchecked(r, row) ==
  /\ order' = [order EXCEPT ![r] = row]
  /\ IF row.status = "Pending" THEN Goto(r, "authorize") /\ UNCHANGED reply
                               ELSE Answer(r, "ok")

\* A row with the request's key: refused if it was made of another payload,
\* returned as it is once it is settled, paid for while it is Pending.
Resume(r, row) ==
  \/ /\ row.payload # request[r].payload
     /\ Answer(r, "mismatch")
     /\ UNCHANGED order
  \/ /\ row.payload = request[r].payload
     /\ order' = [order EXCEPT ![r] = row]
     /\ IF row.status = "Pending" THEN Goto(r, "authorize") /\ UNCHANGED reply
                                  ELSE Answer(r, "ok")

Lookup(r) ==
  /\ pc[r] = "lookup"
  /\ \/ \E o \in WithKey(request[r].key) : Resume(r, orders[o])
     \/ /\ WithKey(request[r].key) = {}
        /\ Goto(r, "insert")
        /\ UNCHANGED <<order, reply>>
  /\ UNCHANGED <<orders, request, created, verdict, cancels, asked, env>>
  /\ UNCHANGED ledger

NewOrder(r) == [id |-> r, key |-> request[r].key, payload |-> request[r].payload,
                status |-> "Pending", tx |-> NoTransaction]

Insert(r) ==
  /\ pc[r] = "insert"
  /\ ~KeyTaken(r)
  /\ orders' = [orders EXCEPT ![r] = NewOrder(r)]
  /\ order' = [order EXCEPT ![r] = NewOrder(r)]
  /\ created' = [created EXCEPT ![r] = TRUE]
  /\ Goto(r, "authorize")
  /\ UNCHANGED <<request, verdict, reply, cancels, asked, env>>
  /\ UNCHANGED ledger

\* ErrDuplicateIdempotencyKey: the unique index holds a row with this key.
InsertDuplicate(r) ==
  /\ pc[r] = "insert"
  /\ KeyTaken(r)
  /\ Goto(r, "reload")
  /\ UNCHANGED <<orders, request, order, created, verdict, reply, cancels, asked, env>>
  /\ UNCHANGED ledger

\* Any other error, after which the row may or may not be there.
InsertFails(r) ==
  /\ pc[r] = "insert"
  /\ Fault
  /\ \/ UNCHANGED orders
     \/ /\ ~KeyTaken(r)
        /\ orders' = [orders EXCEPT ![r] = NewOrder(r)]
  /\ Answer(r, "internal")
  /\ UNCHANGED <<request, order, created, verdict, cancels, asked>>
  /\ UNCHANGED ledger

Reload(r) ==
  /\ pc[r] = "reload"
  /\ \E o \in WithKey(request[r].key) : Resume(r, orders[o])
  /\ UNCHANGED <<orders, request, created, verdict, cancels, asked, env>>
  /\ UNCHANGED ledger

ReadFails(r) ==
  /\ pc[r] \in {"lookup", "reload"}
  /\ Fault
  /\ Answer(r, "internal")
  /\ UNCHANGED <<orders, request, order, created, verdict, cancels, asked>>
  /\ UNCHANGED ledger

\* reconcilePayment: the call to the payment service leaves ...
Authorize(r) ==
  /\ pc[r] = "authorize"
  /\ asked' = asked \cup {order[r].id}
  /\ Goto(r, "waiting")
  /\ UNCHANGED <<orders, request, order, created, verdict, reply, cancels, env>>
  /\ UNCHANGED ledger

\* ... and comes back with the decision, ...
PaymentAnswers(r) ==
  /\ pc[r] = "waiting"
  /\ Ledger!Tell(order[r].id)
  /\ verdict' = [verdict EXCEPT ![r] = decision[order[r].id]]
  /\ Goto(r, "settle")
  /\ UNCHANGED <<orders, request, order, created, reply, cancels, asked, env>>

\* Mutant: no answer is taken for a refusal.
TimeoutDeclines(r) ==
  /\ pc[r] = "waiting"
  /\ Fault
  /\ orders' = [orders EXCEPT ![order[r].id] = [@ EXCEPT !.status = "Failed"]]
  /\ Answer(r, "ok")
  /\ UNCHANGED <<request, order, created, verdict, cancels, asked>>
  /\ UNCHANGED ledger

\* ... or does not come back in time, or fails as Unavailable or Canceled: the
\* order is answered with 503 as it was read, and stays as it is, ...
PaymentUnavailable(r) ==
  /\ pc[r] = "waiting"
  /\ Fault
  /\ Answer(r, "unavailable")
  /\ UNCHANGED <<orders, request, order, created, verdict, cancels, asked>>
  /\ UNCHANGED ledger

\* ... or fails in another way.
PaymentErrors(r) ==
  /\ pc[r] = "waiting"
  /\ Fault
  /\ Answer(r, "internal")
  /\ UNCHANGED <<orders, request, order, created, verdict, cancels, asked>>
  /\ UNCHANGED ledger

\* Mutant: the payment's status is written without translation.
SettledVerbatim(row, d) == [row EXCEPT !.status = d.status, !.tx = d.tx]

\* repository.UpdatePaymentStatus: sets status and transaction of the row,
\* whatever they are by now.
Settled(row, d) ==
  IF d.status = "Authorized"
  THEN [row EXCEPT !.status = "Paid", !.tx = d.tx]
  ELSE [row EXCEPT !.status = "Failed", !.tx = NoTransaction]

WriteSettled(r) ==
  LET o == order[r].id
  IN  orders' = [orders EXCEPT ![o] = Settled(orders[o], verdict[r])]

Settle(r) ==
  /\ pc[r] = "settle"
  /\ WriteSettled(r)
  /\ order' = [order EXCEPT ![r] = Settled(orders[order[r].id], verdict[r])]
  /\ Answer(r, SuccessCode(r))
  /\ UNCHANGED <<request, created, verdict, cancels, asked, env>>
  /\ UNCHANGED ledger

SettleFails(r) ==
  /\ pc[r] = "settle"
  /\ Fault
  /\ WriteSettled(r) \/ UNCHANGED orders
  /\ Answer(r, "internal")
  /\ UNCHANGED <<request, order, created, verdict, cancels, asked>>
  /\ UNCHANGED ledger

------------------------------------------------------------------------------
\* Cancel

CancelReceive(k) ==
  /\ cpc[k] = "idle"
  /\ cpc' = [cpc EXCEPT ![k] = "read"]
  /\ UNCHANGED <<orders, creates, target, creply, asked, env>>
  /\ UNCHANGED ledger

CancelRead(k) ==
  /\ cpc[k] = "read"
  /\ LET row == orders[target[k]]
     IN  \/ row = NoOrder /\ CancelAnswer(k, "not found")
         \/ row # NoOrder /\ row.status # "Pending" /\ CancelAnswer(k, "conflict")
         \/ /\ row # NoOrder /\ row.status = "Pending"
            /\ cpc' = [cpc EXCEPT ![k] = "update"]
            /\ UNCHANGED creply
  /\ UNCHANGED <<orders, creates, target, asked, env>>
  /\ UNCHANGED ledger

\* Mutant: the whole row is saved, with the transaction id it had when it was read.
WriteCancelledRow(k) ==
  orders' = [orders EXCEPT ![target[k]] =
               [@ EXCEPT !.status = "Cancelled", !.tx = NoTransaction]]

\* repository.UpdateStatus: the status alone, the transaction id stays.
WriteCancelled(k) ==
  orders' = [orders EXCEPT ![target[k]] = [@ EXCEPT !.status = "Cancelled"]]

CancelUpdate(k) ==
  /\ cpc[k] = "update"
  /\ WriteCancelled(k)
  /\ CancelAnswer(k, "ok")
  /\ UNCHANGED <<creates, target, asked, env>>
  /\ UNCHANGED ledger

CancelFails(k) ==
  /\ cpc[k] \in {"read", "update"}
  /\ Fault
  /\ \/ UNCHANGED orders
     \/ cpc[k] = "update" /\ WriteCancelled(k)
  /\ CancelAnswer(k, "internal")
  /\ UNCHANGED <<creates, target, asked>>
  /\ UNCHANGED ledger

------------------------------------------------------------------------------
\* The payment service takes and announces its decision about an order it was
\* asked about; it may do so after the caller has given up.
PaymentDecides(o) ==
  /\ o \in asked
  /\ \E d \in Decision : Ledger!Decide(o, d)
  /\ UNCHANGED <<orders, creates, cancels, asked, env>>

PaymentAnnounces(o) ==
  /\ <<o, decision[o]>> \notin announced
  /\ Ledger!Announce(o)
  /\ UNCHANGED <<orders, creates, cancels, asked, env>>

\* The order service dies and is restarted: the requests in flight are lost.
InFlight == {r \in Creates : pc[r] \notin {"idle", "done"}}
CancelsInFlight == {k \in Cancels : cpc[k] \notin {"idle", "done"}}
Crash ==
  /\ crashes < MaxCrashes
  /\ InFlight # {} \/ CancelsInFlight # {}
  /\ crashes' = crashes + 1
  /\ pc' = [r \in Creates |-> IF r \in InFlight THEN "done" ELSE pc[r]]
  /\ reply' = [r \in Creates |-> IF r \in InFlight THEN "lost" ELSE reply[r]]
  /\ cpc' = [k \in Cancels |-> IF k \in CancelsInFlight THEN "done" ELSE cpc[k]]
  /\ creply' = [k \in Cancels |-> IF k \in CancelsInFlight THEN "lost" ELSE creply[k]]
  /\ UNCHANGED <<orders, request, order, created, verdict, target, asked, faults>>
  /\ UNCHANGED ledger

------------------------------------------------------------------------------
CreateProgress(r) ==
  \/ Lookup(r) \/ Insert(r) \/ InsertDuplicate(r) \/ Reload(r)
  \/ Authorize(r) \/ PaymentAnswers(r) \/ Settle(r)

CreateFailure(r) ==
  \/ ReadFails(r) \/ InsertFails(r) \/ SettleFails(r)
  \/ PaymentUnavailable(r) \/ PaymentErrors(r)

CreateArrives(r) == \E q \in Request : Receive(r, q)
CancelProgress(k) == CancelRead(k) \/ CancelUpdate(k)
PaymentStep(o) == PaymentDecides(o) \/ PaymentAnnounces(o)

Next ==
  \/ \E r \in Creates : CreateArrives(r) \/ CreateProgress(r) \/ CreateFailure(r)
  \/ \E k \in Cancels : CancelReceive(k) \/ CancelProgress(k) \/ CancelFails(k)
  \/ \E o \in Creates : PaymentStep(o)
  \/ Crash

Spec == Init /\ [][Next]_vars

------------------------------------------------------------------------------
\* Every variable has its type.
TypeOK ==
  /\ orders \in [Creates -> Order \cup {NoOrder}]
  /\ pc \in [Creates -> PCs]
  /\ request \in [Creates -> Request \cup {NoRequest}]
  /\ order \in [Creates -> Order \cup {NoOrder}]
  /\ created \in [Creates -> BOOLEAN]
  /\ verdict \in [Creates -> Decision \cup {NoDecision}]
  /\ reply \in [Creates -> Replies]
  /\ cpc \in [Cancels -> CancelPCs]
  /\ target \in [Cancels -> Creates]
  /\ creply \in [Cancels -> CancelReplies]
  /\ asked \subseteq Creates
  /\ Ledger!LedgerTypeOK
  /\ faults \in 0..MaxFaults
  /\ crashes \in 0..MaxCrashes

\* Concurrent requests with one key never make two orders: the lookup alone does
\* not ensure it, the unique index and the reload do.
OneOrderPerKey ==
  \A o, p \in Rows : orders[o].key = orders[p].key => o = p

\* Whoever is answered with an order asked for it, with this key and this payload,
\* also on the path through a duplicate insert.
AnswersMatchRequest ==
  \A r \in Creates :
    reply[r] \in {"created", "ok", "unavailable"} =>
      /\ order[r].key = request[r].key
      /\ order[r].payload = request[r].payload

\* Requests with one key that succeed are told of one order, which is settled, with one
\* outcome and one transaction; the row keeps them, but for a cancellation that was under
\* way; and only one of the requests is told 201 Created.
Succeeded(r) == reply[r] \in {"created", "ok"}
SuccessesAgree ==
  \A r, s \in Creates :
    Succeeded(r) /\ Succeeded(s) /\ request[r].key = request[s].key =>
      LET row == orders[order[r].id]
      IN  /\ order[s].id = order[r].id
          /\ order[r].status # "Pending" /\ row.status # "Pending"
          /\ ~({"Paid", "Failed"} \subseteq {order[r].status, order[s].status, row.status})
          /\ order[r].tx # NoTransaction => row.tx = order[r].tx
          /\ reply[r] = "created" /\ reply[s] = "created" => r = s

\* The row is committed before the payment service is asked, so a payment never
\* exists for an order that does not (README.md:6).
PersistedBeforePayment == asked \subseteq Rows

\* A Paid or Failed order states what the payment service decided and announced:
\* no timeout, retry or lost answer is ever taken for a decision.
Backed(row) ==
  LET d == decision[row.id]
  IN  /\ row.status \in {"Paid", "Failed"} => <<row.id, d>> \in announced
      /\ row.status = "Paid" => d.status = "Authorized" /\ row.tx = d.tx
      /\ row.status = "Failed" => d.status = "Declined"

OutcomesAreBacked ==
  /\ \A o \in Rows : Backed(orders[o])
  /\ \A r \in Creates : order[r] # NoOrder => Backed(order[r])

\* A request is settling order o, of which it has read that it is Pending.
BeingPaid(o) ==
  \E r \in Creates : pc[r] \in {"authorize", "waiting", "settle"} /\ order[r].id = o

\* A row is never removed, never returns to Pending, never changes between Paid and
\* Failed, and a transaction id, once recorded, is never lost or replaced, although
\* both updates are unconditional and several requests settle the same order. A payment
\* overwrites a cancellation only if a request was settling the order when it was
\* cancelled: none begins to afterwards, so that it is final once those have ended.
RowsMoveForward ==
  [][\A o \in Rows :
       LET old == orders[o]
           new == orders'[o]
       IN  /\ new # NoOrder
           /\ new.key = old.key /\ new.payload = old.payload
           /\ new.status = "Pending" => old.status = "Pending"
           /\ {old.status, new.status} # {"Paid", "Failed"}
           /\ old.tx # NoTransaction => new.tx = old.tx
           /\ old.status = "Cancelled" /\ ~BeingPaid(o)
                => new.status = "Cancelled" /\ ~BeingPaid(o)']_vars

\* "Cancelled before payment" (src/order/src/App.tsx): once no request about it is under
\* way, no payment was authorized for a cancelled order.
CancelledBeforePayment ==
  \A o \in Rows :
    /\ orders[o].status = "Cancelled"
    /\ \A r \in Creates : order[r] # NoOrder /\ order[r].id = o => pc[r] = "done"
    => decision[o] \notin Authorized
==============================================================================
