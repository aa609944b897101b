---------------------------- MODULE CheckoutProofs ----------------------------
(***************************************************************************)
(* Proofs about Checkout, for any number of requests, attempts, amounts    *)
(* and faults.  They rest on what is proved about its two components: the  *)
(* inductive invariants of Orders and of Payments, taken from OrdersProofs *)
(* and PaymentsProofs under the substitutions of Checkout.                 *)
(***************************************************************************)
EXTENDS Checkout, DataLemmas, TLAPS

OP == INSTANCE OrdersProofs
  WITH Payloads <- Amounts, Transactions <- Attempts,
       decision <- Decided, announced <- Announced, told <- Told

PP == INSTANCE PaymentsProofs
  WITH Calls <- Attempts, OrderIds <- Creates, BlankIds <- {},
       MaxFaults <- MaxPaymentFaults, MaxCrashes <- MaxPaymentCrashes,
       pc <- callPc, request <- callRequest, payment <- callPayment,
       created <- callCreated, reply <- callReply,
       faults <- callFaults, crashes <- callCrashes

\* The assumptions of the two components.
LEMMA OrderAssumptions ==
  /\ NoTransaction \notin Attempts /\ MaxFaults \in Nat /\ MaxCrashes \in Nat
  /\ NoOrder \notin OP!Order /\ NoRequest \notin OP!Request /\ NoDecision \notin OP!Decision
  BY CheckoutAssumption, NullsAssumption
     DEF Order!Order, OP!Order, Order!Request, OP!Request, Order!Decision, OP!Decision,
         Order!Authorized, OP!Authorized, Order!Declined, OP!Declined, Order!Statuses,
         OP!Statuses

LEMMA PaymentAssumptions ==
  /\ {} \subseteq Creates /\ Amounts \subseteq Nat /\ AuthorizationLimit \in Nat
  /\ MaxPaymentFaults \in Nat /\ MaxPaymentCrashes \in Nat /\ MaxExpiries \in Nat
  /\ NoTransaction \notin Attempts /\ NoPayment \notin PP!Payment /\ NoRequest \notin PP!Request
  BY CheckoutAssumption, NullsAssumption
     DEF Payment!Payment, PP!Payment, Payment!Request, PP!Request, Payment!Transports,
         PP!Transports

\* The two instances of each component are the same specification.
LEMMA SameOrder ==
  /\ [Order!Next]_(Order!vars) <=> [OP!Next]_(OP!vars)
  /\ Order!Init <=> OP!Init
  /\ Order!TypeOK <=> OP!TypeOK
  BY DEF
    Order!Next, OP!Next, Order!vars, OP!vars, Order!Init, OP!Init, Order!TypeOK,
    OP!TypeOK, Order!CreateArrives, OP!CreateArrives, Order!Receive, OP!Receive,
    Order!CreateProgress, OP!CreateProgress, Order!Lookup, OP!Lookup, Order!Resume,
    OP!Resume, Order!Insert, OP!Insert, Order!InsertDuplicate, OP!InsertDuplicate,
    Order!Reload, OP!Reload, Order!Authorize, OP!Authorize, Order!PaymentAnswers,
    OP!PaymentAnswers, Order!Settle, OP!Settle, Order!CreateFailure,
    OP!CreateFailure, Order!ReadFails, OP!ReadFails, Order!InsertFails,
    OP!InsertFails, Order!SettleFails, OP!SettleFails, Order!PaymentUnavailable,
    OP!PaymentUnavailable, Order!PaymentErrors, OP!PaymentErrors,
    Order!CancelReceive, OP!CancelReceive, Order!CancelProgress, OP!CancelProgress,
    Order!CancelRead, OP!CancelRead, Order!CancelUpdate, OP!CancelUpdate,
    Order!CancelFails, OP!CancelFails, Order!PaymentStep, OP!PaymentStep,
    Order!PaymentDecides, OP!PaymentDecides, Order!PaymentAnnounces,
    OP!PaymentAnnounces, Order!Crash, OP!Crash, Order!InFlight, OP!InFlight,
    Order!CancelsInFlight, OP!CancelsInFlight, Order!Goto, OP!Goto, Order!Answer,
    OP!Answer, Order!CancelAnswer, OP!CancelAnswer, Order!Fault, OP!Fault,
    Order!KeyTaken, OP!KeyTaken, Order!WithKey, OP!WithKey, Order!Rows, OP!Rows,
    Order!NewOrder, OP!NewOrder, Order!Settled, OP!Settled, Order!WriteSettled,
    OP!WriteSettled, Order!WriteCancelled, OP!WriteCancelled, Order!SuccessCode,
    OP!SuccessCode, Order!creates, OP!creates, Order!cancels, OP!cancels,
    Order!ledger, OP!ledger, Order!env, OP!env, Order!Order, OP!Order,
    Order!Request, OP!Request, Order!Decision, OP!Decision, Order!Authorized,
    OP!Authorized, Order!Declined, OP!Declined, Order!Statuses, OP!Statuses,
    Order!PCs, OP!PCs, Order!Replies, OP!Replies, Order!CancelPCs, OP!CancelPCs,
    Order!CancelReplies, OP!CancelReplies, Order!Ledger!Decide, OP!Ledger!Decide,
    Order!Ledger!Announce, OP!Ledger!Announce, Order!Ledger!Tell, OP!Ledger!Tell,
    Order!Ledger!LedgerInit, OP!Ledger!LedgerInit, Order!Ledger!LedgerTypeOK,
    OP!Ledger!LedgerTypeOK, Order!Ledger!Pairs, OP!Ledger!Pairs

LEMMA SamePayment ==
  /\ [Payment!Next]_(Payment!vars) <=> [PP!Next]_(PP!vars)
  /\ Payment!Init <=> PP!Init
  /\ Payment!TypeOK <=> PP!TypeOK
  BY DEF
    Payment!Next, PP!Next, Payment!vars, PP!vars, Payment!Init, PP!Init,
    Payment!TypeOK, PP!TypeOK, Payment!Arrive, PP!Arrive, Payment!Receive,
    PP!Receive, Payment!Rejected, PP!Rejected, Payment!Progress, PP!Progress,
    Payment!Load, PP!Load, Payment!Insert, PP!Insert, Payment!InsertDuplicate,
    PP!InsertDuplicate, Payment!Reload, PP!Reload, Payment!Publish, PP!Publish,
    Payment!Reply, PP!Reply, Payment!Failure, PP!Failure, Payment!LoadFails,
    PP!LoadFails, Payment!InsertFails, PP!InsertFails, Payment!ReloadFails,
    PP!ReloadFails, Payment!PublishFails, PP!PublishFails, Payment!Crash, PP!Crash,
    Payment!InFlight, PP!InFlight, Payment!Expire, PP!Expire, Payment!Store,
    PP!Store, Payment!MessageID, PP!MessageID, Payment!OrderOf, PP!OrderOf,
    Payment!KeyTaken, PP!KeyTaken, Payment!Authorization, PP!Authorization,
    Payment!Goto, PP!Goto, Payment!Answer, PP!Answer, Payment!Fault, PP!Fault,
    Payment!PublishFailedCode, PP!PublishFailedCode, Payment!broker, PP!broker,
    Payment!calls, PP!calls, Payment!env, PP!env, Payment!Transports, PP!Transports,
    Payment!Request, PP!Request, Payment!Payment, PP!Payment, Payment!Event,
    PP!Event, Payment!PCs, PP!PCs, Payment!Replies, PP!Replies

LEMMA OrderInvStep == OP!IInv /\ [OP!Next]_(OP!vars) => OP!IInv'
  BY OP!InvStep, OrderAssumptions

LEMMA PaymentInvStep == PP!IInv /\ [PP!Next]_(PP!vars) => PP!IInv'
  BY PP!InvStep, PaymentAssumptions

------------------------------------------------------------------------------
(***************************************************************************)
(* The inductive invariant: those of the two components, and what ties     *)
(* them together.                                                          *)
(***************************************************************************)
LinkType ==
  /\ client \in Clients
  /\ attempt \in [Creates -> 0..MaxAttempts]
  /\ losses \in 0..MaxLosses

\* An attempt at the payment service is one that was sent, for the order its sender
\* still holds.
Linked ==
  \A c \in Attempts : callPc[c] # "idle" =>
    /\ c[2] <= attempt[c[1]]
    /\ callRequest[c].order = order[c[1]].id
    /\ callRequest[c].amount = order[c[1]].payload

Sent == {"waiting", "settle", "done"}
Sending ==
  \A r \in Creates :
    /\ attempt[r] # 0 => pc[r] \in Sent /\ order[r] # NoOrder /\ order[r].id \in asked
    /\ pc[r] = "waiting" => attempt[r] # 0

Undecided == \A r \in Creates : pc[r] \notin {"settle", "done"} => verdict[r] = NoDecision

\* The decision follows from the amount.
Proper(p) ==
  \/ p.status = "Authorized" /\ p.amount <= AuthorizationLimit /\ p.tx \in Attempts
  \/ p.status = "Declined" /\ p.amount > AuthorizationLimit /\ p.tx = NoTransaction

Charged ==
  \A o \in Creates : payments[o] # NoPayment =>
    Proper(payments[o]) /\ o \in asked /\ payments[o].amount = orders[o].payload
Charging ==
  \A c \in Attempts : callPc[c] = "insert" =>
    Proper(callPayment[c]) /\ callPayment[c].amount = callRequest[c].amount

Inv ==
  /\ OP!IInv /\ PP!IInv
  /\ LinkType /\ Linked /\ Sending /\ Undecided /\ Charged /\ Charging

LEMMA OrderTypes ==
  ASSUME Inv
  PROVE  /\ orders \in [Creates -> OP!Order \cup {NoOrder}]
         /\ pc \in [Creates -> OP!PCs]
         /\ order \in [Creates -> OP!Order \cup {NoOrder}]
         /\ verdict \in [Creates -> OP!Decision \cup {NoDecision}]
         /\ asked \subseteq Creates
         /\ NoOrder \notin OP!Order /\ NoDecision \notin OP!Decision
  BY OrderAssumptions DEF Inv, OP!IInv, OP!TypeInv, OP!TypeOK

LEMMA PaymentTypes ==
  ASSUME Inv
  PROVE  /\ payments \in [Creates -> PP!Payment \cup {NoPayment}]
         /\ stream \in Seq(PP!Event)
         /\ callPc \in [Attempts -> PP!PCs]
         /\ callRequest \in [Attempts -> PP!Request \cup {NoRequest}]
         /\ callPayment \in [Attempts -> PP!Payment \cup {NoPayment}]
         /\ NoPayment \notin PP!Payment /\ NoRequest \notin PP!Request
  BY PaymentAssumptions DEF Inv, PP!IInv, PP!TypeInv, PP!TypeOK

LEMMA InvInit == Init => Inv
<1> SUFFICES ASSUME Init PROVE Inv
  OBVIOUS
<1>1. OP!IInv
  BY OP!InvInit, OrderAssumptions, SameOrder DEF Init
<1>2. PP!IInv
  BY PP!InvInit, PaymentAssumptions, SamePayment DEF Init
<1>3. LinkType /\ Sending /\ Undecided
  BY CheckoutAssumption DEF Init, Order!Init, LinkType, Sending, Undecided
<1>4. Linked /\ Charged /\ Charging
  BY DEF Init, Payment!Init, Linked, Charged, Charging
<1> QED BY <1>1, <1>2, <1>3, <1>4 DEF Inv

\* An attempt that arrived was made for a stored order that was asked about.
LEMMA AttemptOf ==
  ASSUME Inv, NEW c \in Attempts, callPc[c] # "idle"
  PROVE  /\ c[1] \in Creates /\ c[2] \in 1..MaxAttempts
         /\ order[c[1]] \in OP!Order
         /\ callRequest[c].order = order[c[1]].id
         /\ callRequest[c].amount = order[c[1]].payload
         /\ callRequest[c].order \in asked /\ callRequest[c].order \in Creates
         /\ orders[callRequest[c].order] \in OP!Order
         /\ orders[callRequest[c].order].payload = callRequest[c].amount
<1>1. c[1] \in Creates /\ c[2] \in 1..MaxAttempts
  BY DEF Attempts
<1>2. attempt[c[1]] # 0 /\ callRequest[c].order = order[c[1]].id
      /\ callRequest[c].amount = order[c[1]].payload
  BY <1>1, CheckoutAssumption DEF Inv, Linked, LinkType
<1>3. order[c[1]] # NoOrder /\ order[c[1]].id \in asked
  BY <1>1, <1>2 DEF Inv, Sending
<1>4. order[c[1]] \in OP!Order /\ order[c[1]].id \in Creates
  BY <1>1, <1>3, OrderTypes
<1>5. /\ order[c[1]].id \in OP!Rows
      /\ orders[order[c[1]].id].payload = order[c[1]].payload
  BY <1>1, <1>3 DEF Inv, OP!IInv, OP!LocalMatches
<1>6. orders[order[c[1]].id] \in OP!Order
  BY <1>5, OrderTypes DEF OP!Rows
<1> QED BY <1>1, <1>2, <1>3, <1>4, <1>5, <1>6

------------------------------------------------------------------------------
(***************************************************************************)
(* Each step, as either component sees it.                                 *)
(***************************************************************************)
\* Attempts bring well-formed requests, and the order service does nothing to the
\* payment service but send them.
LEMMA PaymentSees ==
  ASSUME Inv, [Next]_vars
  PROVE  [Payment!Next]_(Payment!vars)
<1>1. ASSUME UNCHANGED paymentSide PROVE UNCHANGED Payment!vars
  BY <1>1 DEF paymentSide, Payment!vars
<1>2. ASSUME NEW r \in Creates, NEW n \in 1..MaxAttempts, Arrive(r, n)
      PROVE  Payment!Next
  <2>1. attempt[r] # 0
    BY <1>2, CheckoutAssumption DEF Arrive, Inv, LinkType
  <2>2. order[r] \in OP!Order
    BY <2>1, OrderTypes DEF Inv, Sending
  <2>3. PaymentRequest(r) \in Payment!Request
    BY <2>2, CheckoutAssumption
       DEF PaymentRequest, Payment!Request, Payment!Transports, OP!Order, Inv, LinkType
  <2>4. <<r, n>> \in Attempts
    BY DEF Attempts
  <2> QED BY <1>2, <2>3, <2>4 DEF Arrive, Payment!Next, Payment!Arrive
<1>3. ASSUME NEW c \in Attempts, PaymentProgress(c) \/ PaymentFailure(c)
      PROVE  Payment!Next
  BY <1>3 DEF PaymentProgress, PaymentFailure, Payment!Next
<1>4. CASE PaymentCrash
  BY <1>4 DEF PaymentCrash, Payment!Next
<1>5. ASSUME NEW o \in Creates, WindowPasses(o) PROVE Payment!Next
  BY <1>5 DEF WindowPasses, Payment!Next
<1> QED
  BY <1>1, <1>2, <1>3, <1>4, <1>5
     DEF vars, Next, OrderArrives, OrderProgress, OrderFailure, ClientProgress, Send,
         Resend, AnswerArrives, GivesUp, ErrorArrives, ConnectionLost, TimesOut, Cancel,
         OrderCrash

LEMMA PaymentInvKept == ASSUME Inv, [Next]_vars PROVE PP!IInv'
  BY PaymentSees, SamePayment, PaymentInvStep DEF Inv

\* What the payment service does between its commits and its publications is hidden
\* from the order service.
LEMMA Hidden ==
  ASSUME UNCHANGED <<orderSide, payments, stream>>
  PROVE  UNCHANGED Order!vars
<1>1. UNCHANGED <<Decided, Announced, Told>>
  BY DEF orderSide, Decided, Announced, Told
<1> QED BY <1>1 DEF orderSide, Order!vars

LEMMA ProperDecides ==
  ASSUME Inv, NEW p \in PP!Payment, Proper(p)
  PROVE  Response(p) \in Order!Decision /\ Response(p) # NoDecision
  BY NullsAssumption
     DEF Proper, Response, Order!Decision, Order!Authorized, Order!Declined

\* The insert of the payment is the decision.
LEMMA InsertDecides ==
  ASSUME Inv, NEW c \in Attempts, callPc[c] = "insert", ~Payment!KeyTaken(c),
         payments' = [payments EXCEPT ![Payment!OrderOf(c)] = callPayment[c]],
         UNCHANGED <<orderSide, stream>>
  PROVE  Order!Next
<1> DEFINE o == Payment!OrderOf(c)
           p == callPayment[c]
<1>1. o \in asked /\ o \in Creates /\ payments[o] = NoPayment
  BY AttemptOf DEF Payment!KeyTaken, Payment!OrderOf
<1>2. p \in PP!Payment /\ Proper(p)
  BY DEF Inv, Charging, PP!IInv, PP!TypeInv, PP!Holds
<1>3. Response(p) \in Order!Decision /\ p # NoPayment
  BY <1>2, ProperDecides, PaymentAssumptions
<1>4. /\ payments' = [payments EXCEPT ![o] = p]
      /\ payments \in [Creates -> PP!Payment \cup {NoPayment}]
  BY PaymentTypes
<1> HIDE DEF o, p
<1>5. Decided[o] = NoDecision /\ Decided' = [Decided EXCEPT ![o] = Response(p)]
  BY <1>1, <1>3, <1>4 DEF Decided
<1>6. UNCHANGED <<Announced, Told>>
  BY DEF orderSide, Announced, Told
<1>7. Order!Ledger!Decide(o, Response(p))
  BY <1>5, <1>6 DEF Order!Ledger!Decide
<1>8. Order!PaymentDecides(o)
  BY <1>1, <1>3, <1>7
     DEF Order!PaymentDecides, orderSide, Order!creates, Order!cancels, Order!env
<1> QED BY <1>1, <1>8 DEF Order!Next, Order!PaymentStep

\* The first publication is the announcement.
LEMMA StoreAnnounces ==
  ASSUME Inv, NEW c \in Attempts, callPc[c] = "publish", Payment!Store(c),
         UNCHANGED <<orderSide, payments>>
  PROVE  [Order!Next]_(Order!vars)
<1> DEFINE o == Payment!OrderOf(c)
           p == callPayment[c]
           d == Response(payments[o])
<1>1. o \in asked /\ o \in Creates
  BY AttemptOf DEF Payment!OrderOf
<1>2. p = payments[o] /\ payments[o] # NoPayment
  BY DEF Inv, PP!IInv, PP!LocalAgrees, PP!Held, PP!OrderOf, Payment!OrderOf
<1>3. d \in Order!Decision /\ d # NoDecision /\ Decided[o] = d
  BY <1>1, <1>2, ProperDecides, PaymentTypes DEF Inv, Charged, Decided
<1>4. CASE UNCHANGED stream
  BY <1>4, Hidden
<1>5. ASSUME stream' # stream PROVE Order!Next \/ UNCHANGED Order!vars
  <2> DEFINE e == [id |-> Payment!MessageID(c), order |-> o, payment |-> p]
  <2>1. stream' = Append(stream, e) /\ stream \in Seq(PP!Event)
    BY <1>5, PaymentTypes DEF Payment!Store
  <2>2. e.order = o /\ Response(e.payment) = d
    BY <1>2
  <2> HIDE DEF o, p, d, e
  <2>3. Announced' = Announced \cup {<<o, d>>}
    <3>1. /\ Len(stream) \in Nat /\ Len(stream') = Len(stream) + 1
          /\ \A i \in 1..Len(stream) : stream'[i] = stream[i]
          /\ stream'[Len(stream) + 1] = e
      BY <2>1
    <3>2. 1..Len(stream') = 1..Len(stream) \cup {Len(stream) + 1}
      BY <3>1
    <3>3. ASSUME NEW x PROVE x \in Announced' <=> x \in Announced \/ x = <<o, d>>
      <4> DEFINE A(i) == <<stream[i].order, Response(stream[i].payment)>>
                 B(i) == <<stream'[i].order, Response(stream'[i].payment)>>
      <4>1. x \in Announced <=> \E i \in 1..Len(stream) : x = A(i)
        BY DEF Announced
      <4>2. x \in Announced' <=> \E i \in 1..Len(stream') : x = B(i)
        BY DEF Announced, Response
      <4>3. \A i \in 1..Len(stream) : A(i) = B(i)
        BY <3>1
      <4>4. B(Len(stream) + 1) = <<o, d>>
        BY <3>1, <2>2
      <4> HIDE DEF A, B
      <4> QED BY <3>2, <4>1, <4>2, <4>3, <4>4
    <3> QED BY <3>3
  <2>4. UNCHANGED <<Decided, Told>>
    BY DEF orderSide, Decided, Told
  <2>5. CASE <<o, d>> \in Announced
    BY <2>3, <2>4, <2>5 DEF orderSide, Order!vars
  <2>6. CASE <<o, d>> \notin Announced
    <3>1. Order!PaymentAnnounces(o)
      BY <1>3, <2>3, <2>4, <2>6
         DEF Order!PaymentAnnounces, Order!Ledger!Announce, orderSide, Order!creates,
             Order!cancels, Order!env
    <3> QED BY <1>1, <3>1 DEF Order!Next, Order!PaymentStep
  <2> QED BY <2>5, <2>6
<1> QED BY <1>4, <1>5

\* An answer is the announced decision about the order it was asked for.
LEMMA AnswerTells ==
  ASSUME Inv, NEW r \in Creates, AnswerArrives(r)
  PROVE  Order!PaymentAnswers(r)
<1> DEFINE c == Current(r)
           o == order[r].id
           d == Response(payments[o])
<1>1. pc[r] = "waiting" /\ attempt[r] # 0
  BY DEF AnswerArrives, Waiting, Inv, Sending
<1>2. c \in Attempts /\ c[1] = r
  BY <1>1, CheckoutAssumption DEF Current, Attempts, Inv, LinkType
<1>3. callReply[c] = "ok"
  BY DEF AnswerArrives, Trusted
<1>4. callPc[c] = "done"
  BY <1>2, <1>3 DEF Inv, PP!IInv, PP!Answered
<1>5. callRequest[c].order = o /\ o \in asked /\ o \in Creates
  BY <1>2, <1>4, AttemptOf
<1>6. callPayment[c] = payments[o] /\ payments[o] # NoPayment /\ PP!Published(o)
  BY <1>2, <1>3, <1>5
     DEF Inv, PP!IInv, PP!LocalAgrees, PP!Announced, PP!Held, PP!OrderOf
<1>7. d # NoDecision /\ Decided[o] = d
  BY <1>5, <1>6, ProperDecides, PaymentTypes DEF Inv, Charged, Decided
<1>8. <<o, d>> \in Announced
  <2>1. PICK i \in 1..Len(stream) : stream[i].order = o
    BY <1>6 DEF PP!Published
  <2>2. stream[i].payment = payments[o]
    BY <2>1 DEF Inv, PP!IInv, PP!EventsAgree
  <2> HIDE DEF o
  <2> QED BY <2>1, <2>2 DEF Announced
<1>9. verdict[r] = NoDecision /\ verdict \in [Creates -> OP!Decision \cup {NoDecision}]
  BY <1>1, OrderTypes DEF Inv, Undecided
<1>10. verdict' = [verdict EXCEPT ![r] = d] /\ order' = order
  BY <1>6 DEF AnswerArrives
<1>11. Told' = Told \cup {<<o, d>>}
  <2> HIDE DEF c, d
  <2>1. \A s \in Creates : verdict'[s] = IF s = r THEN d ELSE verdict[s]
    BY <1>9, <1>10
  <2> QED BY <1>7, <1>9, <1>10, <2>1 DEF Told
<1>12. UNCHANGED <<Decided, Announced>>
  BY DEF AnswerArrives, paymentSide, Decided, Announced
<1> QED
  BY <1>1, <1>7, <1>8, <1>10, <1>11, <1>12
     DEF AnswerArrives, Order!PaymentAnswers, Order!Ledger!Tell, Order!Goto, Order!cancels,
         Order!env

\* The step of Orders behind each step of the composition.
LEMMA OrderSees ==
  ASSUME Inv, [Next]_vars
  PROVE  [Order!Next]_(Order!vars)
<1>1. CASE UNCHANGED <<orderSide, payments, stream>>
  BY <1>1, Hidden
<1>2. ASSUME NEW r \in Creates,
             OrderArrives(r) \/ OrderProgress(r) \/ OrderFailure(r) \/ Send(r) \/ GivesUp(r)
               \/ ErrorArrives(r) \/ TimesOut(r)
      PROVE  Order!Next
  BY <1>2 DEF OrderArrives, OrderProgress, OrderFailure, Send, GivesUp, ErrorArrives,
     TimesOut, Order!Next, Order!CreateProgress, Order!CreateFailure
<1>3. ASSUME NEW k \in Cancels, Cancel(k) PROVE Order!Next
  BY <1>3 DEF Cancel, Order!Next
<1>4. CASE OrderCrash
  BY <1>4 DEF OrderCrash, Order!Next
<1>5. ASSUME NEW r \in Creates, AnswerArrives(r) PROVE Order!Next
  BY <1>5, AnswerTells DEF Order!Next, Order!CreateProgress
<1>6. ASSUME NEW r \in Creates, Resend(r) \/ ConnectionLost(r) PROVE UNCHANGED Order!vars
  BY <1>6, Hidden DEF Resend, ConnectionLost, paymentSide
<1>7. ASSUME NEW r \in Creates, NEW n \in 1..MaxAttempts, Arrive(r, n)
       PROVE  UNCHANGED Order!vars
  BY <1>7, Hidden DEF Arrive, Payment!Receive, Payment!broker
<1>8. ASSUME NEW c \in Attempts, PaymentProgress(c) \/ PaymentFailure(c)
      PROVE  [Order!Next]_(Order!vars)
  <2>1. CASE Payment!Insert(c) \/ Payment!InsertFails(c)
    <3>1. callPc[c] = "insert" /\ UNCHANGED <<orderSide, stream>>
      BY <1>8, <2>1 DEF PaymentProgress, PaymentFailure, Payment!Insert,
         Payment!InsertFails, Payment!broker
    <3>2. \/ UNCHANGED payments
          \/ /\ ~Payment!KeyTaken(c)
             /\ payments' = [payments EXCEPT ![Payment!OrderOf(c)] = callPayment[c]]
      BY <2>1 DEF Payment!Insert, Payment!InsertFails
    <3> QED BY <1>1, <3>1, <3>2, InsertDecides
  <2>2. CASE Payment!Publish(c) \/ Payment!PublishFails(c)
    <3>1. /\ callPc[c] = "publish" /\ UNCHANGED <<orderSide, payments>>
          /\ Payment!Store(c) \/ UNCHANGED stream
      BY <1>8, <2>2 DEF PaymentProgress, PaymentFailure, Payment!Publish,
         Payment!PublishFails
    <3> QED BY <1>1, <3>1, StoreAnnounces
  <2>3. CASE \/ Payment!Load(c) \/ Payment!InsertDuplicate(c) \/ Payment!Reload(c)
             \/ Payment!Reply(c) \/ Payment!LoadFails(c) \/ Payment!ReloadFails(c)
    BY <1>1, <1>8, <2>3
       DEF PaymentProgress, PaymentFailure, Payment!Load, Payment!InsertDuplicate,
           Payment!Reload, Payment!Reply, Payment!LoadFails, Payment!ReloadFails,
           Payment!broker
  <2> QED
    BY <1>8, <2>1, <2>2, <2>3
       DEF PaymentProgress, PaymentFailure, Payment!Progress, Payment!Failure
<1>9. CASE PaymentCrash
  BY <1>1, <1>9 DEF PaymentCrash, Payment!Crash, Payment!broker
<1>10. ASSUME NEW o \in Creates, WindowPasses(o) PROVE UNCHANGED Order!vars
  BY <1>10, Hidden DEF WindowPasses, Payment!Expire
<1>11. CASE UNCHANGED vars
  BY <1>1, <1>11 DEF vars, paymentSide
<1> QED
  BY <1>2, <1>3, <1>4, <1>5, <1>6, <1>7, <1>8, <1>9, <1>10, <1>11 DEF Next, ClientProgress

LEMMA OrderInvKept == ASSUME Inv, [Next]_vars PROVE OP!IInv'
  BY OrderSees, SameOrder, OrderInvStep DEF Inv

------------------------------------------------------------------------------
(***************************************************************************)
(* The link is kept.                                                       *)
(***************************************************************************)
\* Apart from the first attempt of a call, nothing a request does starts to wait or
\* changes the order its attempts were made for.
Steady(r) ==
  /\ attempt[r] # 0 => /\ order'[r] # NoOrder /\ order'[r].id = order[r].id
                      /\ order'[r].payload = order[r].payload
  /\ pc[r] \in Sent => pc'[r] \in Sent
  /\ pc'[r] = "waiting" => pc[r] = "waiting"
  /\ pc'[r] \notin {"settle", "done"} =>
       pc[r] \notin {"settle", "done"} /\ verdict'[r] = verdict[r]

Quiet == UNCHANGED <<pc, order, verdict>>

LEMMA QuietIsSteady == ASSUME Inv, Quiet, NEW r \in Creates PROVE Steady(r)
  BY DEF Quiet, Steady, Inv, Sending

\* A step of a request that holds no order yet, or that ends the request.
LEMMA OneRequestSteady ==
  ASSUME Inv, NEW s \in Creates, NEW l \in OP!PCs, pc' = [pc EXCEPT ![s] = l],
         \/ pc[s] \notin Sent /\ l # "waiting" /\ verdict' = verdict
            /\ \A r \in Creates \ {s} : order'[r] = order[r]
         \/ pc[s] = "waiting" /\ l \in {"settle", "done"} /\ order' = order
            /\ \A r \in Creates \ {s} : verdict'[r] = verdict[r]
         \/ pc[s] = "settle" /\ l = "done" /\ verdict' = verdict /\ order' = order,
         NEW r \in Creates
  PROVE  Steady(r)
<1>1. pc'[r] = (IF r = s THEN l ELSE pc[r])
  BY OrderTypes
<1>2. attempt[r] # 0 => pc[r] \in Sent /\ order[r] # NoOrder
  BY DEF Inv, Sending
<1>3. CASE r = s
  BY <1>1, <1>2, <1>3 DEF Steady, Sent
<1>4. CASE r # s
  BY <1>1, <1>2, <1>4 DEF Steady
<1> QED BY <1>3, <1>4

LEMMA SettleSteady ==
  ASSUME Inv, NEW s \in Creates, Order!Settle(s), NEW r \in Creates
  PROVE  Steady(r)
<1> DEFINE o == order[s].id
           row == Order!Settled(orders[o], verdict[s])
<1>1. pc[s] = "settle" /\ pc' = [pc EXCEPT ![s] = "done"] /\ verdict' = verdict
      /\ order' = [order EXCEPT ![s] = row]
  BY DEF Order!Settle, Order!Answer
<1>2. order[s] \in OP!Order /\ o \in OP!Rows /\ order[s] # NoOrder
  BY <1>1, OrderTypes DEF Inv, OP!IInv, OP!TypeInv, OP!Holds, OP!Settling, OP!Paying
<1>3. orders[o] \in OP!Order /\ orders[o].id = o /\ orders[o].payload = order[s].payload
  BY <1>2, OrderTypes DEF OP!Rows, Inv, OP!IInv, OP!TypeInv, OP!Keyed, OP!LocalMatches
<1>4. row \in OP!Order /\ row.id = orders[o].id /\ row.payload = orders[o].payload
  <2>1. verdict[s] \in OP!Decision
    BY <1>1 DEF Inv, OP!IInv, OP!TypeInv, OP!HasVerdict
  <2> HIDE DEF o
  <2> QED
    BY <1>3, <2>1 DEF Order!Settled, OP!Order, OP!Statuses, OP!Decision, OP!Authorized,
       OP!Declined
<1>5. row # NoOrder
  BY <1>4, OrderTypes
<1> HIDE DEF row
<1>6. pc'[r] = (IF r = s THEN "done" ELSE pc[r]) /\ order'[r] = (IF r = s THEN row ELSE order[r])
  BY <1>1, OrderTypes
<1>7. attempt[r] # 0 => pc[r] \in Sent /\ order[r] # NoOrder
  BY DEF Inv, Sending
<1>8. CASE r = s
  BY <1>1, <1>3, <1>4, <1>5, <1>6, <1>8 DEF Steady, Sent
<1>9. CASE r # s
  BY <1>1, <1>6, <1>7, <1>9 DEF Steady
<1> QED BY <1>8, <1>9

LEMMA ProgressSteady ==
  ASSUME Inv, NEW s \in Creates, OrderProgress(s), NEW r \in Creates
  PROVE  Steady(r)
<1>1. CASE Order!Settle(s)
  BY <1>1, SettleSteady
<1>2. ASSUME Order!Lookup(s) \/ Order!Reload(s)
      PROVE  /\ pc[s] \in {"lookup", "reload"} /\ verdict' = verdict
             /\ \A q \in Creates \ {s} : order'[q] = order[q]
             /\ \E l \in {"insert", "authorize", "done"} : pc' = [pc EXCEPT ![s] = l]
  <2>1. \/ /\ pc' = [pc EXCEPT ![s] = "insert"] /\ order' = order
        \/ \E row : Order!Resume(s, row)
    BY <1>2 DEF Order!Lookup, Order!Reload, Order!Goto
  <2>2. ASSUME NEW row, Order!Resume(s, row)
        PROVE  /\ \A q \in Creates \ {s} : order'[q] = order[q]
               /\ \E l \in {"authorize", "done"} : pc' = [pc EXCEPT ![s] = l]
    BY <2>2, OrderTypes DEF Order!Resume, Order!Answer, Order!Goto
  <2>3. pc[s] \in {"lookup", "reload"} /\ verdict' = verdict
    BY <1>2 DEF Order!Lookup, Order!Reload
  <2> QED BY <2>1, <2>2, <2>3
<1>3. CASE Order!Lookup(s) \/ Order!Reload(s)
  BY <1>2, <1>3, OneRequestSteady DEF Sent, OP!PCs
<1>4. CASE Order!Insert(s)
  <2>1. /\ pc[s] \notin Sent /\ pc' = [pc EXCEPT ![s] = "authorize"] /\ verdict' = verdict
        /\ \A q \in Creates \ {s} : order'[q] = order[q]
    BY <1>4, OrderTypes DEF Order!Insert, Order!Goto, Sent
  <2> QED BY <2>1, OneRequestSteady DEF OP!PCs
<1>5. CASE Order!InsertDuplicate(s)
  <2>1. pc[s] \notin Sent /\ pc' = [pc EXCEPT ![s] = "reload"] /\ UNCHANGED <<verdict, order>>
    BY <1>5 DEF Order!InsertDuplicate, Order!Goto, Sent
  <2> QED BY <2>1, OneRequestSteady DEF OP!PCs
<1> QED BY <1>1, <1>3, <1>4, <1>5 DEF OrderProgress

LEMMA EndSteady ==
  ASSUME Inv, NEW s \in Creates, NEW r \in Creates,
         \/ OrderArrives(s) \/ OrderFailure(s) \/ TimesOut(s) \/ GivesUp(s)
         \/ ErrorArrives(s) \/ AnswerArrives(s)
  PROVE  Steady(r)
<1>1. CASE OrderArrives(s)
  <2>1. pc[s] \notin Sent /\ pc' = [pc EXCEPT ![s] = "lookup"] /\ UNCHANGED <<verdict, order>>
    BY <1>1 DEF OrderArrives, Order!CreateArrives, Order!Receive, Order!Goto, Sent
  <2> QED BY <2>1, OneRequestSteady DEF OP!PCs
<1>2. CASE OrderFailure(s) \/ TimesOut(s) \/ GivesUp(s) \/ ErrorArrives(s)
  <2>1. pc[s] \in {"lookup", "reload", "insert", "waiting", "settle"}
        /\ pc' = [pc EXCEPT ![s] = "done"] /\ UNCHANGED <<verdict, order>>
    BY <1>2 DEF OrderFailure, TimesOut, GivesUp, ErrorArrives, Order!ReadFails,
       Order!InsertFails, Order!SettleFails, Order!PaymentUnavailable,
       Order!PaymentErrors, Order!Answer
  <2> QED BY <2>1, OneRequestSteady DEF OP!PCs, Sent
<1>3. CASE AnswerArrives(s)
  <2>1. /\ pc[s] = "waiting" /\ pc' = [pc EXCEPT ![s] = "settle"] /\ order' = order
        /\ \A q \in Creates \ {s} : verdict'[q] = verdict[q]
    BY <1>3, OrderTypes DEF AnswerArrives, Waiting
  <2> QED BY <2>1, OneRequestSteady DEF OP!PCs
<1> QED BY <1>1, <1>2, <1>3

LEMMA CrashSteady == ASSUME Inv, OrderCrash, NEW r \in Creates PROVE Steady(r)
<1>1. /\ pc'[r] = (IF r \in Order!InFlight THEN "done" ELSE pc[r])
      /\ UNCHANGED <<order, verdict>>
  BY DEF OrderCrash, Order!Crash
<1>2. attempt[r] # 0 => pc[r] \in Sent /\ order[r] # NoOrder
  BY DEF Inv, Sending
<1> QED BY <1>1, <1>2 DEF Steady, Sent, Order!InFlight

LEMMA SteadyStep ==
  ASSUME Inv, [Next]_vars, \A s \in Creates : ~Send(s), NEW r \in Creates
  PROVE  Steady(r)
<1>1. ASSUME NEW k \in Cancels, Cancel(k) PROVE Quiet
  BY <1>1 DEF Quiet, Cancel, Order!CancelReceive, Order!CancelFails, Order!CancelProgress,
     Order!CancelRead, Order!CancelUpdate, Order!creates
<1>2. ASSUME NEW s \in Creates, Resend(s) \/ ConnectionLost(s) PROVE Quiet
  BY <1>2 DEF Quiet, Resend, ConnectionLost, orderSide
<1>3. ASSUME NEW s \in Creates, NEW n \in 1..MaxAttempts, Arrive(s, n) PROVE Quiet
  BY <1>3 DEF Quiet, Arrive, orderSide
<1>4. ASSUME NEW c \in Attempts, PaymentProgress(c) \/ PaymentFailure(c) PROVE Quiet
  BY <1>4 DEF Quiet, PaymentProgress, PaymentFailure, orderSide
<1>5. CASE PaymentCrash
  BY <1>5, QuietIsSteady DEF Quiet, PaymentCrash, orderSide
<1>6. CASE UNCHANGED vars
  BY <1>6, QuietIsSteady DEF Quiet, vars, orderSide
<1>7. ASSUME NEW o \in Creates, WindowPasses(o) PROVE Quiet
  BY <1>7 DEF Quiet, WindowPasses, orderSide
<1> QED
  BY <1>1, <1>2, <1>3, <1>4, <1>5, <1>6, <1>7, QuietIsSteady, ProgressSteady, EndSteady,
     CrashSteady DEF Next, ClientProgress

\* The first attempt of a call.
LEMMA SendStep ==
  ASSUME Inv, NEW s \in Creates, Send(s)
  PROVE  LinkType' /\ Linked' /\ Sending' /\ Undecided' /\ Charged' /\ Charging'
<1>1. /\ pc[s] = "authorize" /\ pc' = [pc EXCEPT ![s] = "waiting"]
      /\ asked' = asked \cup {order[s].id} /\ attempt' = [attempt EXCEPT ![s] = 1]
      /\ UNCHANGED <<orders, order, verdict, paymentSide, client, losses>>
  BY DEF Send, Order!Authorize, Order!Goto
<1>2. attempt[s] = 0 /\ attempt \in [Creates -> 0..MaxAttempts] /\ MaxAttempts \in Nat \ {0}
  BY <1>1, CheckoutAssumption DEF Inv, Sending, LinkType, Sent
<1>3. order[s] \in OP!Order /\ order[s] # NoOrder
  BY <1>1, OrderTypes DEF Inv, OP!IInv, OP!TypeInv, OP!Holds, OP!Paying
<1>4. LinkType'
  BY <1>1, <1>2 DEF Inv, LinkType
<1>5. Sending'
  <2> SUFFICES ASSUME NEW r \in Creates
               PROVE  /\ attempt'[r] # 0 => /\ pc'[r] \in Sent /\ order'[r] # NoOrder
                                           /\ order'[r].id \in asked'
                      /\ pc'[r] = "waiting" => attempt'[r] # 0
    BY DEF Sending
  <2> QED BY <1>1, <1>2, <1>3, OrderTypes DEF Inv, Sending, Sent
<1>6. Undecided'
  BY <1>1, OrderTypes DEF Inv, Undecided
<1>7. Linked'
  <2> SUFFICES ASSUME NEW c \in Attempts, callPc[c] # "idle"
               PROVE  c[2] <= attempt'[c[1]]
    BY <1>1 DEF Inv, Linked, paymentSide
  <2>1. c[1] \in Creates /\ c[2] \in 1..MaxAttempts /\ c[2] <= attempt[c[1]]
    BY DEF Attempts, Inv, Linked
  <2> QED BY <1>1, <1>2, <2>1
<1>8. Charged' /\ Charging'
  BY <1>1 DEF Inv, Charged, Charging, Proper, paymentSide
<1> QED BY <1>4, <1>5, <1>6, <1>7, <1>8

\* Every other step at most counts one attempt more of a request that waits.
LEMMA AttemptStep ==
  ASSUME Inv, [Next]_vars, \A s \in Creates : ~Send(s)
  PROVE  /\ asked' = asked /\ LinkType'
         /\ \A r \in Creates : /\ attempt'[r] \in Nat /\ attempt[r] \in Nat
                               /\ attempt'[r] >= attempt[r]
                               /\ attempt'[r] # 0 => attempt[r] # 0
<1> USE DEF link
<1>0. /\ LinkType /\ MaxAttempts \in Nat \ {0} /\ MaxLosses \in Nat
      /\ attempt \in [Creates -> 0..MaxAttempts]
  BY CheckoutAssumption DEF Inv, LinkType
<1>1. ASSUME asked' = asked, UNCHANGED link
      PROVE  /\ asked' = asked /\ LinkType'
             /\ \A r \in Creates : /\ attempt'[r] \in Nat /\ attempt[r] \in Nat
                                   /\ attempt'[r] >= attempt[r]
                                   /\ attempt'[r] # 0 => attempt[r] # 0
  BY <1>0, <1>1 DEF LinkType
<1>2. ASSUME NEW s \in Creates, Resend(s) \/ ConnectionLost(s)
      PROVE  /\ asked' = asked /\ LinkType'
             /\ \A r \in Creates : /\ attempt'[r] \in Nat /\ attempt[r] \in Nat
                                   /\ attempt'[r] >= attempt[r]
                                   /\ attempt'[r] # 0 => attempt[r] # 0
  <2>1. /\ asked' = asked /\ client' = client /\ losses' \in {losses, losses + 1}
        /\ losses' # losses => losses < MaxLosses
        /\ attempt[s] < Limit /\ attempt' = [attempt EXCEPT ![s] = attempt[s] + 1]
        /\ pc[s] = "waiting"
    BY <1>2 DEF Resend, ConnectionLost, Again, Waiting, orderSide
  <2>2. Limit \in 1..MaxAttempts /\ attempt[s] # 0
    BY <1>0, <2>1 DEF Limit, Inv, Sending
  <2>3. losses' \in 0..MaxLosses
    BY <1>0, <2>1 DEF LinkType
  <2>4. attempt' \in [Creates -> 0..MaxAttempts]
    BY <1>0, <2>1, <2>2
  <2> QED BY <1>0, <2>1, <2>2, <2>3, <2>4 DEF LinkType
<1>3. ASSUME NEW s \in Creates,
             OrderArrives(s) \/ OrderProgress(s) \/ OrderFailure(s) \/ TimesOut(s)
               \/ GivesUp(s) \/ ErrorArrives(s) \/ AnswerArrives(s)
      PROVE  asked' = asked /\ UNCHANGED link
  BY <1>3
     DEF OrderArrives, OrderProgress, OrderFailure, TimesOut, GivesUp, ErrorArrives,
         AnswerArrives, Order!CreateArrives, Order!Receive, Order!Lookup, Order!Insert,
         Order!InsertDuplicate, Order!Reload, Order!Settle, Order!ReadFails,
         Order!InsertFails, Order!SettleFails, Order!PaymentUnavailable, Order!PaymentErrors
<1>4. ASSUME NEW k \in Cancels, Cancel(k) PROVE asked' = asked /\ UNCHANGED link
  BY <1>4 DEF Cancel, Order!CancelReceive, Order!CancelFails, Order!CancelProgress,
     Order!CancelRead, Order!CancelUpdate
<1>5. CASE OrderCrash
  BY <1>1, <1>5 DEF OrderCrash, Order!Crash
<1>6. ASSUME NEW s \in Creates, NEW n \in 1..MaxAttempts, Arrive(s, n)
      PROVE  asked' = asked /\ UNCHANGED link
  BY <1>6 DEF Arrive, orderSide
<1>7. ASSUME NEW c \in Attempts, PaymentProgress(c) \/ PaymentFailure(c)
      PROVE  asked' = asked /\ UNCHANGED link
  BY <1>7 DEF PaymentProgress, PaymentFailure, orderSide
<1>8. CASE PaymentCrash
  BY <1>1, <1>8 DEF PaymentCrash, orderSide
<1>9. CASE UNCHANGED vars
  BY <1>1, <1>9 DEF vars, orderSide
<1>10. ASSUME NEW o \in Creates, WindowPasses(o) PROVE asked' = asked /\ UNCHANGED link
  BY <1>10 DEF WindowPasses, orderSide
<1> QED
  BY <1>1, <1>2, <1>3, <1>4, <1>5, <1>6, <1>7, <1>8, <1>9, <1>10 DEF Next, ClientProgress

LEMMA SendingStep ==
  ASSUME Inv, [Next]_vars, \A s \in Creates : ~Send(s)
  PROVE  Sending' /\ Undecided'
<1> SUFFICES ASSUME NEW r \in Creates
             PROVE  /\ attempt'[r] # 0 => /\ pc'[r] \in Sent /\ order'[r] # NoOrder
                                         /\ order'[r].id \in asked'
                    /\ pc'[r] = "waiting" => attempt'[r] # 0
                    /\ pc'[r] \notin {"settle", "done"} => verdict'[r] = NoDecision
  BY DEF Sending, Undecided
<1> QED BY AttemptStep, SteadyStep DEF Steady, Inv, Sending, Undecided

\* Calls are entered by arriving, and keep what they were asked.
LEMMA CallStep ==
  ASSUME Inv, [Next]_vars, NEW c \in Attempts
  PROVE  \/ callPc'[c] = callPc[c] /\ UNCHANGED <<callRequest[c], callPayment[c]>>
         \/ callPc[c] # "idle" /\ callRequest'[c] = callRequest[c]
            /\ (callPc'[c] = "insert" => callPayment'[c] = Payment!Authorization(c))
         \/ callPc[c] = "idle" /\ callPc'[c] # "insert" /\ Arrive(c[1], c[2])
<1> DEFINE Kept == callPc'[c] = callPc[c] /\ UNCHANGED <<callRequest[c], callPayment[c]>>
           Moved == callPc[c] # "idle" /\ callRequest'[c] = callRequest[c]
                    /\ (callPc'[c] = "insert" => callPayment'[c] = Payment!Authorization(c))
           Entered == callPc[c] = "idle" /\ callPc'[c] # "insert" /\ Arrive(c[1], c[2])
<1>1. ASSUME UNCHANGED paymentSide PROVE Kept
  BY <1>1 DEF paymentSide
<1>2. ASSUME NEW r \in Creates, NEW n \in 1..MaxAttempts, Arrive(r, n) PROVE Kept \/ Entered
  <2>1. /\ callPc[<<r, n>>] = "idle" /\ callPayment' = callPayment
        /\ callRequest' = [callRequest EXCEPT ![<<r, n>>] = PaymentRequest(r)]
        /\ \E l \in {"done", "load"} : callPc' = [callPc EXCEPT ![<<r, n>>] = l]
    BY <1>2 DEF Arrive, Payment!Receive, Payment!Answer, Payment!Goto
  <2>2. CASE c = <<r, n>>
    BY <1>2, <2>1, <2>2, PaymentTypes
  <2>3. CASE c # <<r, n>>
    BY <2>1, <2>3, PaymentTypes
  <2> QED BY <2>2, <2>3
<1>3. ASSUME NEW d \in Attempts, PaymentProgress(d) \/ PaymentFailure(d) PROVE Kept \/ Moved
  <2>1. /\ callPc[d] # "idle" /\ callRequest' = callRequest
        /\ \A x \in Attempts \ {d} : callPc'[x] = callPc[x] /\ callPayment'[x] = callPayment[x]
        /\ callPc'[d] = "insert" => callPayment'[d] = Payment!Authorization(d)
    <3>1. CASE Payment!Load(d)
      BY <3>1, PaymentTypes DEF Payment!Load, Payment!Goto
    <3>2. CASE \/ Payment!Insert(d) \/ Payment!InsertDuplicate(d) \/ Payment!Publish(d)
               \/ Payment!Reply(d) \/ Payment!LoadFails(d) \/ Payment!InsertFails(d)
               \/ Payment!ReloadFails(d) \/ Payment!PublishFails(d)
      <4>1. /\ callPc[d] # "idle" /\ UNCHANGED <<callRequest, callPayment>>
            /\ \E l \in {"publish", "reload", "reply", "done"} :
                 callPc' = [callPc EXCEPT ![d] = l]
        BY <3>2 DEF Payment!Insert, Payment!InsertDuplicate, Payment!Publish,
           Payment!Reply, Payment!LoadFails, Payment!InsertFails, Payment!ReloadFails,
           Payment!PublishFails, Payment!Goto, Payment!Answer
      <4> QED BY <4>1, PaymentTypes
    <3>3. CASE Payment!Reload(d)
      BY <3>3, PaymentTypes DEF Payment!Reload, Payment!Goto, Payment!Answer
    <3> QED
      BY <1>3, <3>1, <3>2, <3>3
         DEF PaymentProgress, PaymentFailure, Payment!Progress, Payment!Failure
  <2> QED BY <2>1
<1>4. CASE PaymentCrash
  BY <1>4 DEF PaymentCrash, Payment!Crash, Payment!InFlight
<1>5. CASE UNCHANGED vars
  BY <1>1, <1>5 DEF vars
<1>6. ASSUME NEW r \in Creates,
             OrderArrives(r) \/ OrderProgress(r) \/ OrderFailure(r) \/ ClientProgress(r)
               \/ ConnectionLost(r) \/ TimesOut(r)
      PROVE  Kept
  <2>1. UNCHANGED paymentSide
    BY <1>6 DEF OrderArrives, OrderProgress, OrderFailure, ClientProgress, Send, Resend,
       AnswerArrives, GivesUp, ErrorArrives, ConnectionLost, TimesOut
  <2> QED BY <1>1, <2>1
<1>7. ASSUME NEW k \in Cancels, Cancel(k) PROVE Kept
  BY <1>1, <1>7 DEF Cancel
<1>8. CASE OrderCrash
  BY <1>1, <1>8 DEF OrderCrash
<1>9. ASSUME NEW o \in Creates, WindowPasses(o) PROVE Kept
  BY <1>9 DEF WindowPasses, Payment!Expire, Payment!calls
<1>10. CASE Next
  <2>1. CASE \E r \in Creates : \/ OrderArrives(r) \/ OrderProgress(r) \/ OrderFailure(r)
                                \/ ClientProgress(r) \/ ConnectionLost(r) \/ TimesOut(r)
    BY <1>6, <2>1
  <2>2. CASE \E r \in Creates : \E n \in 1..MaxAttempts : Arrive(r, n)
    BY <1>2, <2>2
  <2>3. CASE \E d \in Attempts : PaymentProgress(d) \/ PaymentFailure(d)
    BY <1>3, <2>3
  <2>4. CASE \E k \in Cancels : Cancel(k)
    BY <1>7, <2>4
  <2>5. CASE \E o \in Creates : WindowPasses(o)
    BY <1>9, <2>5
  <2> QED BY <1>4, <1>8, <1>10, <2>1, <2>2, <2>3, <2>4, <2>5 DEF Next
<1> QED BY <1>5, <1>10

LEMMA LinkedStep ==
  ASSUME Inv, [Next]_vars, \A s \in Creates : ~Send(s)
  PROVE  Linked'
<1> SUFFICES ASSUME NEW c \in Attempts, callPc'[c] # "idle"
             PROVE  /\ c[2] <= attempt'[c[1]]
                    /\ callRequest'[c].order = order'[c[1]].id
                    /\ callRequest'[c].amount = order'[c[1]].payload
  BY DEF Linked
<1>0. c[1] \in Creates /\ c[2] \in 1..MaxAttempts
  BY DEF Attempts
<1>1. CASE callPc[c] # "idle" /\ callRequest'[c] = callRequest[c]
  <2>1. /\ c[2] <= attempt[c[1]]
        /\ callRequest[c].order = order[c[1]].id /\ callRequest[c].amount = order[c[1]].payload
    BY <1>1 DEF Inv, Linked
  <2>2. attempt'[c[1]] >= attempt[c[1]] /\ attempt[c[1]] \in Nat /\ attempt'[c[1]] \in Nat
    BY <1>0, AttemptStep
  <2>3. order'[c[1]].id = order[c[1]].id /\ order'[c[1]].payload = order[c[1]].payload
    BY <1>0, <2>1, <2>2, SteadyStep DEF Steady
  <2> QED BY <1>0, <1>1, <2>1, <2>2, <2>3
<1>2. CASE callPc[c] = "idle" /\ Arrive(c[1], c[2])
  <2>0. c = <<c[1], c[2]>>
    BY DEF Attempts
  <2>1. /\ c[2] <= attempt[c[1]] /\ UNCHANGED <<order, attempt>>
        /\ callRequest' = [callRequest EXCEPT ![<<c[1], c[2]>>] = PaymentRequest(c[1])]
    BY <1>2 DEF Arrive, Payment!Receive, orderSide, link
  <2>2. callRequest'[c] = PaymentRequest(c[1])
    BY <2>0, <2>1, PaymentTypes
  <2> QED BY <2>1, <2>2 DEF PaymentRequest
<1> QED BY <1>1, <1>2, CallStep

LEMMA ChargingStep ==
  ASSUME Inv, [Next]_vars
  PROVE  Charging'
<1> SUFFICES ASSUME NEW c \in Attempts, callPc'[c] = "insert"
             PROVE  /\ Proper(callPayment'[c])
                    /\ callPayment'[c].amount = callRequest'[c].amount
  BY DEF Charging, Proper
<1>1. CASE callPc[c] = "insert" /\ UNCHANGED <<callRequest[c], callPayment[c]>>
  <2>1. Proper(callPayment[c]) /\ callPayment[c].amount = callRequest[c].amount
    BY <1>1 DEF Inv, Charging
  <2> QED BY <1>1, <2>1
<1>2. ASSUME callPc[c] # "idle", callRequest'[c] = callRequest[c],
             callPayment'[c] = Payment!Authorization(c)
      PROVE  /\ Proper(callPayment'[c])
             /\ callPayment'[c].amount = callRequest'[c].amount
  <2>1. callRequest[c].amount \in Nat /\ AuthorizationLimit \in Nat
    BY <1>2, PaymentAssumptions DEF Inv, PP!IInv, PP!TypeInv, PP!Arrived, PP!Request
  <2>2. Proper(Payment!Authorization(c))
        /\ Payment!Authorization(c).amount = callRequest[c].amount
    BY <2>1 DEF Payment!Authorization, Proper
  <2> QED BY <1>2, <2>2
<1> QED BY <1>1, <1>2, CallStep

\* The payments table after a step.
LEMMA PaymentsWritten ==
  ASSUME [Next]_vars
  PROVE  \/ payments' = payments
         \/ \E c \in Attempts :
              /\ callPc[c] = "insert"
              /\ payments' = [payments EXCEPT ![callRequest[c].order] = callPayment[c]]
  BY DEF vars, paymentSide, Next, OrderArrives, OrderProgress, OrderFailure,
     ClientProgress, Send, Resend, AnswerArrives, GivesUp, ErrorArrives, ConnectionLost,
     TimesOut, Cancel, OrderCrash, Arrive, PaymentProgress, PaymentFailure, PaymentCrash,
     WindowPasses, Payment!Expire, Payment!Receive, Payment!Progress, Payment!Failure, Payment!Load, Payment!Insert,
     Payment!InsertDuplicate, Payment!Reload, Payment!Publish, Payment!Reply,
     Payment!LoadFails, Payment!InsertFails, Payment!ReloadFails, Payment!PublishFails,
     Payment!Crash, Payment!OrderOf

LEMMA ChargedStep ==
  ASSUME Inv, [Next]_vars, asked \subseteq asked'
  PROVE  Charged'
<1>1. OP!RowsKept
  BY OrderSees, SameOrder, OP!OrdersWritten, OP!TableStep, OrderAssumptions
     DEF Inv, OP!IInv
<1>2. \A o \in asked : o \in Creates /\ orders'[o].payload = orders[o].payload
  BY <1>1, OrderTypes DEF Inv, OP!IInv, OP!PersistedBeforePayment, OP!RowsKept
<1> SUFFICES ASSUME NEW o \in Creates, payments'[o] # NoPayment
             PROVE  /\ Proper(payments'[o]) /\ o \in asked
                    /\ payments'[o].amount = orders[o].payload
  BY <1>2 DEF Charged, Proper
<1>3. CASE payments'[o] = payments[o]
  BY <1>3 DEF Inv, Charged
<1>4. ASSUME NEW c \in Attempts, callPc[c] = "insert", o = callRequest[c].order,
             payments'[o] = callPayment[c]
      PROVE  /\ Proper(payments'[o]) /\ o \in asked
             /\ payments'[o].amount = orders[o].payload
  <2>1. Proper(callPayment[c]) /\ callPayment[c].amount = callRequest[c].amount
    BY <1>4 DEF Inv, Charging
  <2> QED BY <1>4, <2>1, AttemptOf
<1> QED BY <1>3, <1>4, PaymentsWritten, PaymentTypes

LEMMA InvStep == Inv /\ [Next]_vars => Inv'
<1> SUFFICES ASSUME Inv, [Next]_vars PROVE Inv'
  OBVIOUS
<1>1. OP!IInv' /\ PP!IInv'
  BY OrderInvKept, PaymentInvKept
<1>2. ASSUME NEW s \in Creates, Send(s) PROVE Inv'
  BY <1>1, <1>2, SendStep DEF Inv
<1>3. ASSUME \A s \in Creates : ~Send(s) PROVE Inv'
  BY <1>1, <1>3, AttemptStep, SendingStep, LinkedStep, ChargingStep, ChargedStep DEF Inv
<1> QED BY <1>2, <1>3

\* The inductive invariant is an invariant.
THEOREM Invariance == Spec => []Inv
  BY InvInit, InvStep, PTL DEF Spec

------------------------------------------------------------------------------
\* Every variable has its type.
THEOREM TypeCorrect == Spec => []TypeOK
<1>1. Inv => TypeOK
  BY SameOrder, SamePayment DEF Inv, LinkType, TypeOK, OP!IInv, OP!TypeInv, PP!IInv,
     PP!TypeInv
<1> QED BY <1>1, Invariance, PTL

\* Behind the retrying client, with late attempts and crashes on both sides, this
\* payment service is the PaymentLedger that Orders is proved with.
THEOREM Refinement == Spec => ImplementsOrders
<1>1. Init => Order!Init
  BY DEF Init
<1>2. Inv /\ [Next]_vars => [Order!Next]_(Order!vars)
  BY OrderSees
<1> QED BY <1>1, <1>2, Invariance, PTL DEF Spec, ImplementsOrders, Order!Spec

\* At most one payment per idempotency key, and none without an order.
THEOREM ChargedOnce == Spec => []OneChargePerKey
<1>1. ASSUME Inv, NEW o \in Creates, payments[o] # NoPayment PROVE o \in OP!Rows
  BY <1>1 DEF Inv, Charged, OP!IInv, OP!PersistedBeforePayment
<1>2. Inv => OneChargePerKey
  BY <1>1 DEF Inv, OP!IInv, OP!OneOrderPerKey, OP!Rows, OneChargePerKey
<1> QED BY <1>2, Invariance, PTL

\* Through retries, late attempts, cancellations and crashes on both sides, the outcome of
\* an order is that of its own payment, and follows from its own amount.
THEOREM OutcomesMatch == Spec => []OutcomeMatchesPayment
<1>1. ASSUME Inv, NEW o \in Order!Rows
      PROVE  /\ o \in Creates /\ o \in OP!Rows /\ OP!Backed(orders[o]) /\ orders[o].id = o
             /\ payments[o] # NoPayment =>
                  /\ Proper(payments[o]) /\ payments[o].amount = orders[o].payload
                  /\ Decided[o].status = payments[o].status /\ Decided[o].tx = payments[o].tx
             /\ Decided[o] # NoDecision => payments[o] # NoPayment
             /\ orders[o].tx # NoTransaction =>
                  Decided[o] # NoDecision /\ Decided[o].tx = orders[o].tx
  <2>1. o \in Creates /\ o \in OP!Rows /\ orders[o].id = o
    BY <1>1 DEF Order!Rows, OP!Rows, OP!IInv, OP!TypeInv, OP!Keyed, Inv
  <2>2. OP!Backed(orders[o])
    BY <1>1, <2>1 DEF Inv, OP!IInv, OP!OutcomesAreBacked
  <2>3. payments[o] # NoPayment =>
          /\ Proper(payments[o]) /\ payments[o].amount = orders[o].payload
          /\ Decided[o].status = payments[o].status /\ Decided[o].tx = payments[o].tx
    BY <1>1, <2>1 DEF Inv, Charged, Decided, Response
  <2>4. Decided[o] # NoDecision => payments[o] # NoPayment
    BY <2>1 DEF Decided
  <2>5. orders[o].tx # NoTransaction =>
          Decided[o] # NoDecision /\ Decided[o].tx = orders[o].tx
    BY <1>1, <2>1 DEF Inv, OP!IInv, OP!TxBacked
  <2> QED BY <2>1, <2>2, <2>3, <2>4, <2>5
<1>2. ASSUME Inv, NEW o \in Order!Rows, orders[o].status \in {"Paid", "Failed"}
      PROVE  payments[o] # NoPayment /\ Payment!Published(o)
  <2>1. o \in Creates /\ <<o, Decided[o]>> \in Announced
    BY <1>1, <1>2 DEF OP!Backed
  <2>2. PICK i \in 1..Len(stream) : stream[i].order = o
    BY <2>1 DEF Announced
  <2>3. payments[o] # NoPayment
    BY <1>2, <2>1, <2>2 DEF Inv, PP!IInv, PP!EventsAgree
  <2> QED BY <2>2, <2>3 DEF Payment!Published
<1>3. ASSUME Inv, NEW o \in Order!Rows
      PROVE  /\ orders[o].status = "Paid" =>
                  /\ payments[o].status = "Authorized" /\ payments[o].tx = orders[o].tx
                  /\ orders[o].payload <= AuthorizationLimit
             /\ orders[o].status = "Failed" =>
                  payments[o].status = "Declined" /\ orders[o].payload > AuthorizationLimit
  <2>1. ASSUME orders[o].status \in {"Paid", "Failed"}
        PROVE  /\ Proper(payments[o]) /\ payments[o].amount = orders[o].payload
               /\ Decided[o].status = payments[o].status /\ Decided[o].tx = payments[o].tx
               /\ OP!Backed(orders[o]) /\ orders[o].id = o
    BY <1>1, <1>2, <1>3, <2>1
  <2> QED BY <2>1 DEF OP!Backed, Proper
<1>4. ASSUME Inv, NEW o \in Order!Rows, orders[o].tx # NoTransaction
      PROVE  payments[o] # NoPayment /\ payments[o].tx = orders[o].tx
  BY <1>1, <1>4
<1>5. Inv => OutcomeMatchesPayment
  BY <1>2, <1>3, <1>4 DEF OutcomeMatchesPayment
<1> QED BY <1>5, Invariance, PTL

\* The properties of Orders in the two instances.
LEMMA SameProperties ==
  /\ OP!OneOrderPerKey <=> Order!OneOrderPerKey
  /\ OP!AnswersMatchRequest <=> Order!AnswersMatchRequest
  /\ OP!SuccessesAgree <=> Order!SuccessesAgree
  /\ OP!PersistedBeforePayment <=> Order!PersistedBeforePayment
  /\ OP!OutcomesAreBacked <=> Order!OutcomesAreBacked
  BY DEF OP!OneOrderPerKey, Order!OneOrderPerKey, OP!AnswersMatchRequest,
     Order!AnswersMatchRequest, OP!SuccessesAgree, Order!SuccessesAgree,
     OP!Succeeded, Order!Succeeded,
     OP!PersistedBeforePayment, Order!PersistedBeforePayment, OP!OutcomesAreBacked,
     Order!OutcomesAreBacked, OP!Backed, Order!Backed, OP!Rows, Order!Rows

\* What is proved of the order service with an abstract payment service holds of it with
\* the real one behind the client: no two orders under one key, answers that match their
\* requests, successes under one key that agree with one 201 among them, no payment
\* before its order, outcomes only from decisions, and rows that only move forward.
THEOREM OrdersHoldsOfBoth ==
  Spec => /\ [](Order!OneOrderPerKey /\ Order!AnswersMatchRequest /\ Order!SuccessesAgree)
          /\ [](Order!PersistedBeforePayment /\ Order!OutcomesAreBacked)
          /\ Order!RowsMoveForward
<1>1. Inv => /\ OP!OneOrderPerKey /\ OP!AnswersMatchRequest /\ OP!SuccessesAgree
             /\ OP!PersistedBeforePayment /\ OP!OutcomesAreBacked
  BY OP!AnswersMatchInv, OP!SuccessesAgreeInv, OrderAssumptions DEF Inv, OP!IInv
<1>2. Inv /\ [Next]_vars => [\A o \in Order!Rows :
        LET old == orders[o]
            new == orders'[o]
        IN  /\ new # NoOrder
            /\ new.key = old.key /\ new.payload = old.payload
            /\ new.status = "Pending" => old.status = "Pending"
            /\ {old.status, new.status} # {"Paid", "Failed"}
            /\ old.tx # NoTransaction => new.tx = old.tx
            /\ old.status = "Cancelled" /\ ~Order!BeingPaid(o)
                 => new.status = "Cancelled" /\ ~Order!BeingPaid(o)']_(Order!vars)
  <2>1. ASSUME Inv, [Next]_vars, NEW o \in Order!Rows PROVE OP!Forward(o) /\ OP!Final(o)
    <3>1. o \in OP!Rows
      BY DEF Order!Rows, OP!Rows
    <3> QED BY <2>1, <3>1, OrderSees, SameOrder, OP!ForwardStep, OP!FinalStep, OrderAssumptions
           DEF Inv, OP!IInv
  <2> QED BY <2>1 DEF OP!Forward, OP!Final, OP!BeingPaid, Order!BeingPaid
<1> QED
  BY <1>1, <1>2, SameProperties, Invariance, PTL DEF Spec, Order!RowsMoveForward

\* The properties of Payments in the two instances.
LEMMA SamePaymentProperties ==
  /\ PP!RepliesAgree <=> Payment!RepliesAgree
  /\ PP!EventsAgree <=> Payment!EventsAgree
  /\ PP!PublishedBeforeReply <=> Payment!PublishedBeforeReply
  /\ PP!OneCreator <=> Payment!OneCreator
  /\ \A o : PP!Cardinality(PP!Copies(o)) = Payment!Cardinality(Payment!Copies(o))
  BY DEF PP!Copies, Payment!Copies, PP!Cardinality, Payment!Cardinality,
         PP!RepliesAgree, Payment!RepliesAgree, PP!EventsAgree, Payment!EventsAgree,
         PP!PublishedBeforeReply, Payment!PublishedBeforeReply, PP!OneCreator,
         Payment!OneCreator, PP!Published, Payment!Published, PP!OrderOf, Payment!OrderOf

\* Seen from the payment service, the order service and its client are callers like any
\* others: everything proved of Payments holds of the two. Nobody is told a payment that is
\* not the stored and announced one, decisions are final, and the event of an order, which
\* may be retried for as long as it is Pending, is stored once per duplicate window.
THEOREM PaymentsHoldsOfBoth ==
  Spec => /\ Payment!Spec
          /\ [](Payment!RepliesAgree /\ Payment!EventsAgree)
          /\ [](Payment!PublishedBeforeReply /\ Payment!OneCreator)
          /\ []Payment!OncePerWindow
          /\ Payment!DecisionIsFinal
<1>1. Init => Payment!Init
  BY DEF Init
<1>2. Inv => /\ PP!RepliesAgree /\ PP!EventsAgree
             /\ PP!PublishedBeforeReply /\ PP!OneCreator
  BY DEF Inv, PP!IInv, PP!LocalAgrees, PP!Held, PP!RepliesAgree, PP!Announced,
         PP!PublishedBeforeReply
<1>3. ASSUME Inv, NEW o \in Creates
      PROVE  Payment!Cardinality(Payment!Copies(o)) <= 1 + expiries[o]
  <2>1. expiries[o] \in 0..MaxExpiries
    BY <1>3 DEF Inv, PP!IInv, PP!TypeInv, PP!TypeOK
  <2>2. PP!Cardinality(PP!Copies(o)) = expiries[o] + (IF o \in window THEN 1 ELSE 0)
    BY <1>3 DEF Inv, PP!IInv, PP!Counted
  <2> QED BY <2>1, <2>2, SamePaymentProperties, CheckoutAssumption
<1>4. Inv /\ [Next]_vars => [Payment!Next]_(Payment!vars)
  BY PaymentSees
<1>5. Inv /\ [Next]_vars
      => [\A o \in Creates : payments[o] # NoPayment => payments'[o] = payments[o]]_(Payment!vars)
  BY <1>4, SamePayment, PP!Monotone, PaymentAssumptions DEF Inv, PP!IInv, PP!RowsKept
<1>6. Inv => Payment!OncePerWindow
  BY <1>3 DEF Payment!OncePerWindow
<1> QED
  BY <1>1, <1>2, <1>4, <1>5, <1>6, SamePaymentProperties, Invariance, PTL
     DEF Spec, Payment!Spec, Payment!DecisionIsFinal

------------------------------------------------------------------------------
(***************************************************************************)
(* Revenue.                                                                *)
(***************************************************************************)
Stored == {o \in Creates : payments[o] # NoPayment}
ChargedOrders == {o \in Creates : payments[o] # NoPayment /\ payments[o].tx # NoTransaction}
PaidOrders == {o \in Order!Rows : orders[o].status = "Paid"}

\* At any time there are finitely many payments, whatever the number of requests.
FinitelyMany == IsFiniteSet(Stored)

LEMMA FinitelyManyInit == Init => FinitelyMany
<1>1. Init => Stored = {}
  BY DEF Init, Payment!Init, Stored
<1> QED BY <1>1, FS_EmptySet DEF FinitelyMany

LEMMA FinitelyManyStep ==
  ASSUME Inv, [Next]_vars, FinitelyMany
  PROVE  FinitelyMany'
<1>1. CASE payments' = payments
  BY <1>1 DEF FinitelyMany, Stored
<1>2. ASSUME NEW c \in Attempts,
             payments' = [payments EXCEPT ![callRequest[c].order] = callPayment[c]]
      PROVE  FinitelyMany'
  <2>1. Stored' \subseteq Stored \cup {callRequest[c].order}
    BY <1>2, PaymentTypes DEF Stored
  <2>2. IsFiniteSet(Stored \cup {callRequest[c].order})
    BY FS_AddElement DEF FinitelyMany
  <2> QED BY <2>1, <2>2, FS_Subset DEF FinitelyMany
<1> QED BY <1>1, <1>2, PaymentsWritten

\* A Paid order was charged, and exactly its amount.
LEMMA PaidIsCharged ==
  ASSUME Inv, NEW o \in PaidOrders
  PROVE  /\ o \in ChargedOrders
         /\ orders[o].payload = payments[o].amount
<1>1. o \in Creates /\ o \in OP!Rows /\ orders[o].status = "Paid" /\ orders[o].id = o
  BY DEF PaidOrders, Order!Rows, OP!Rows, Inv, OP!IInv, OP!TypeInv, OP!Keyed
<1>2. OP!Backed(orders[o])
  BY <1>1 DEF Inv, OP!IInv, OP!OutcomesAreBacked
<1>3. /\ <<o, Decided[o]>> \in Announced
      /\ Decided[o].status = "Authorized"
  BY <1>1, <1>2 DEF OP!Backed
<1>4. payments[o] # NoPayment
  <2>1. PICK i \in 1..Len(stream) : stream[i].order = o
    BY <1>3 DEF Announced
  <2> QED BY <1>1, <2>1 DEF Inv, PP!IInv, PP!EventsAgree
<1>5. Proper(payments[o]) /\ payments[o].amount = orders[o].payload
  BY <1>1, <1>4 DEF Inv, Charged
<1>6. payments[o].status = "Authorized"
  BY <1>1, <1>3, <1>4 DEF Decided, Response
<1>7. payments[o].tx # NoTransaction
  BY <1>5, <1>6, NullsAssumption DEF Proper
<1> QED BY <1>1, <1>4, <1>5, <1>7 DEF ChargedOrders

\* What the two folds of RevenueIsCharged compute.
LEMMA RevenueIsSum ==
  ASSUME IsFiniteSet(PaidOrders)
  PROVE  \E f : /\ Sums(f, [o \in PaidOrders |-> orders[o].payload], PaidOrders)
                /\ Revenue.total = f[PaidOrders]
<1> DEFINE v == [o \in PaidOrders |-> orders[o].payload]
           Adds(f) == f = [s \in SUBSET PaidOrders |->
                             IF s = {} THEN 0
                             ELSE orders[Pick(s)].payload + f[s \ {Pick(s)}]]
<1>1. ASSUME NEW s \in SUBSET PaidOrders, s # {} PROVE v[Pick(s)] = orders[Pick(s)].payload
  BY <1>1, PickIn
<1>2. ASSUME NEW f PROVE Adds(f) <=> Sums(f, v, PaidOrders)
  BY <1>1 DEF Sums
<1>3. Adds(CHOOSE f : Adds(f))
  <2>1. PICK f : Sums(f, v, PaidOrders)
    BY SumsExist
  <2>2. Adds(f)
    BY <1>2, <2>1
  <2> HIDE DEF Adds
  <2> QED BY <2>2
<1>4. Revenue.total = (CHOOSE f : Adds(f))[PaidOrders]
  BY DEF Revenue, MapThenSumSet, MapThenFoldSet, PaidOrders, Pick
<1> QED BY <1>2, <1>3, <1>4

LEMMA ChargeIsSum ==
  ASSUME IsFiniteSet(ChargedOrders)
  PROVE  \E f : /\ Sums(f, [o \in ChargedOrders |-> payments[o].amount], ChargedOrders)
                /\ MapThenSumSet(LAMBDA o : payments[o].amount, ChargedOrders)
                     = f[ChargedOrders]
<1> DEFINE w == [o \in ChargedOrders |-> payments[o].amount]
           Adds(f) == f = [s \in SUBSET ChargedOrders |->
                             IF s = {} THEN 0
                             ELSE payments[Pick(s)].amount + f[s \ {Pick(s)}]]
<1>1. ASSUME NEW s \in SUBSET ChargedOrders, s # {}
      PROVE  w[Pick(s)] = payments[Pick(s)].amount
  BY <1>1, PickIn
<1>2. ASSUME NEW f PROVE Adds(f) <=> Sums(f, w, ChargedOrders)
  BY <1>1 DEF Sums
<1>3. Adds(CHOOSE f : Adds(f))
  <2>1. PICK f : Sums(f, w, ChargedOrders)
    BY SumsExist
  <2>2. Adds(f)
    BY <1>2, <2>1
  <2> HIDE DEF Adds
  <2> QED BY <2>2
<1>4. MapThenSumSet(LAMBDA o : payments[o].amount, ChargedOrders)
        = (CHOOSE f : Adds(f))[ChargedOrders]
  BY DEF MapThenSumSet, MapThenFoldSet, Pick
<1> QED BY <1>2, <1>3, <1>4 DEF MapThenSumSet, MapThenFoldSet

\* Every amount that the revenue counts was charged to a customer, however many orders
\* there are and whatever was cancelled, retried or lost on the way.
THEOREM RevenueCharged == Spec => []RevenueIsCharged
<1>1. ASSUME Inv, FinitelyMany PROVE RevenueIsCharged
  <2> DEFINE v == [o \in PaidOrders |-> orders[o].payload]
             w == [o \in ChargedOrders |-> payments[o].amount]
             sum == MapThenSumSet(LAMBDA o : payments[o].amount, ChargedOrders)
  <2>1. PaidOrders \subseteq ChargedOrders
    BY <1>1, PaidIsCharged
  <2>2. IsFiniteSet(ChargedOrders)
    <3>1. ChargedOrders \subseteq Stored
      BY DEF ChargedOrders, Stored
    <3> QED BY <1>1, <3>1, FS_Subset DEF FinitelyMany
  <2>3. IsFiniteSet(PaidOrders) /\ Cardinality(PaidOrders) <= Cardinality(ChargedOrders)
    BY <2>1, <2>2, FS_Subset
  <2>4. w \in [ChargedOrders -> Nat]
    BY <1>1, PaymentTypes, CheckoutAssumption DEF ChargedOrders, PP!Payment
  <2>5. /\ v \in [PaidOrders -> Nat]
        /\ \A o \in PaidOrders : v[o] <= w[o]
    BY <1>1, <2>1, <2>4, PaidIsCharged
  <2>6. Revenue.total <= sum
    <3>1. PICK f : Sums(f, v, PaidOrders) /\ Revenue.total = f[PaidOrders]
      BY <2>3, RevenueIsSum
    <3>2. \E g : Sums(g, w, ChargedOrders) /\ sum = g[ChargedOrders]
      BY <2>2, ChargeIsSum
    <3> HIDE DEF sum
    <3>3. PICK g : Sums(g, w, ChargedOrders) /\ sum = g[ChargedOrders]
      BY <3>2
    <3> HIDE DEF v, w
    <3>4. f[PaidOrders] <= g[ChargedOrders]
      BY <2>1, <2>2, <2>4, <2>5, <3>1, <3>3, SumsGrow
    <3> QED BY <3>1, <3>3, <3>4
  <2>7. Revenue.count = Cardinality(PaidOrders)
    BY DEF Revenue, PaidOrders
  <2> QED BY <2>3, <2>6, <2>7 DEF RevenueIsCharged, ChargedOrders
<1>2. Spec => [](Inv /\ FinitelyMany)
  <2>1. Init => Inv /\ FinitelyMany
    BY InvInit, FinitelyManyInit
  <2>2. Inv /\ FinitelyMany /\ [Next]_vars => (Inv /\ FinitelyMany)'
    BY InvStep, FinitelyManyStep
  <2> QED BY <2>1, <2>2, PTL DEF Spec
<1> QED BY <1>1, <1>2, PTL
==============================================================================
