----------------------------- MODULE OrdersProofs -----------------------------
(***************************************************************************)
(* Proofs about Orders, for any number of requests, keys, payloads and     *)
(* faults.                                                                 *)
(***************************************************************************)
EXTENDS Orders, TLAPS

USE DEF KeyTaken, creates, cancels, ledger, env, Goto, Answer, CancelAnswer, Fault

\* What TypeOK does not say: which variables are set at which point of a handler.
Arrived == \A r \in Creates : pc[r] # "idle" => request[r] \in Request
Paying == {"authorize", "waiting", "settle"}
Holds == \A r \in Creates : pc[r] \in Paying => order[r] \in Order
HasVerdict == \A r \in Creates : pc[r] = "settle" => verdict[r] \in Decision
Keyed == \A o \in Rows : orders[o].id = o
Settling == \A r \in Creates : pc[r] \in Paying => order[r].id \in Rows
Fresh == \A r \in Creates : pc[r] \in {"idle", "lookup", "insert"} => orders[r] = NoOrder
Cancelling == \A k \in Cancels : cpc[k] = "update" => target[k] \in Rows

TypeInv ==
  TypeOK /\ Arrived /\ Holds /\ HasVerdict /\ Keyed /\ Settling /\ Fresh /\ Cancelling

LEMMA TypeInit == Init => TypeInv
  BY ConstantsAssumption
     DEF Init, TypeInv, TypeOK, Arrived, Holds, HasVerdict, Keyed, Settling, Fresh,
         Cancelling, PCs, Replies, CancelPCs, CancelReplies, Rows, Paying,
         Ledger!LedgerInit, Ledger!LedgerTypeOK

LEMMA NewOrderType ==
  ASSUME NEW r \in Creates, request[r] \in Request
  PROVE  NewOrder(r) \in Order /\ NewOrder(r).id = r /\ NewOrder(r) # NoOrder
  BY NullsAssumption DEF NewOrder, Order, Request, Statuses

LEMMA SettledType ==
  ASSUME NEW row \in Order, NEW d \in Decision
  PROVE  /\ Settled(row, d) \in Order /\ Settled(row, d) # NoOrder
         /\ Settled(row, d).id = row.id
         /\ Settled(row, d).key = row.key /\ Settled(row, d).payload = row.payload
  BY NullsAssumption DEF Settled, Order, Decision, Authorized, Declined, Statuses

LEMMA CancelledType ==
  ASSUME NEW row \in Order
  PROVE  LET new == [row EXCEPT !.status = "Cancelled"]
         IN  /\ new \in Order /\ new # NoOrder /\ new.id = row.id /\ new.key = row.key
             /\ new.payload = row.payload /\ new.tx = row.tx /\ new.status = "Cancelled"
  BY NullsAssumption DEF Order, Statuses

\* The table after a step: rows are inserted under their own id, settled or
\* cancelled, and never removed.
OrdersStep ==
  \/ orders' = orders
  \/ \E r \in Creates : /\ pc[r] = "insert" /\ WithKey(request[r].key) = {}
                        /\ orders' = [orders EXCEPT ![r] = NewOrder(r)]
  \/ \E r \in Creates : pc[r] = "settle" /\ WriteSettled(r)
  \/ \E k \in Cancels : cpc[k] = "update" /\ WriteCancelled(k)

LEMMA OrdersWritten == [Next]_vars => OrdersStep
  BY DEF OrdersStep, vars, Next, CreateArrives, Receive, CreateProgress, Lookup, Insert,
         InsertDuplicate, Reload, Authorize, PaymentAnswers, Settle, CreateFailure,
         ReadFails, InsertFails, SettleFails, PaymentUnavailable, PaymentErrors,
         CancelReceive, CancelProgress, CancelRead, CancelUpdate, CancelFails, PaymentStep,
         PaymentDecides, PaymentAnnounces, Crash

\* Whatever a step does to the table, rows keep their id, key and payload, and the
\* table keeps its type.
RowsKept ==
  \A o \in Rows : /\ orders'[o] # NoOrder /\ orders'[o].id = orders[o].id
                  /\ orders'[o].key = orders[o].key
                  /\ orders'[o].payload = orders[o].payload

LEMMA TableStep ==
  ASSUME TypeInv, OrdersStep
  PROVE  RowsKept /\ orders' \in [Creates -> Order \cup {NoOrder}] /\ Keyed'
<1> USE DEF RowsKept, Keyed, Rows
<1>0. orders \in [Creates -> Order \cup {NoOrder}] /\ Keyed
  BY DEF TypeInv, TypeOK
<1>1. CASE orders' = orders
  BY <1>0, <1>1
<1>2. ASSUME NEW r \in Creates, pc[r] = "insert",
             orders' = [orders EXCEPT ![r] = NewOrder(r)]
      PROVE  RowsKept /\ orders' \in [Creates -> Order \cup {NoOrder}] /\ Keyed'
  <2>1. NewOrder(r) \in Order /\ NewOrder(r).id = r /\ NewOrder(r) # NoOrder
    BY <1>2, NewOrderType DEF TypeInv, Arrived
  <2>2. orders[r] = NoOrder
    BY <1>2 DEF TypeInv, Fresh
  <2> QED BY <1>0, <1>2, <2>1, <2>2
<1>3. ASSUME NEW r \in Creates, pc[r] = "settle", WriteSettled(r)
      PROVE  RowsKept /\ orders' \in [Creates -> Order \cup {NoOrder}] /\ Keyed'
  <2> DEFINE o == order[r].id
             new == Settled(orders[o], verdict[r])
  <2>1. o \in Rows /\ verdict[r] \in Decision /\ orders[o] \in Order
    BY <1>0, <1>3 DEF TypeInv, Settling, HasVerdict, Paying
  <2>2. new \in Order /\ new # NoOrder /\ new.id = orders[o].id
        /\ new.key = orders[o].key /\ new.payload = orders[o].payload
    BY <2>1, SettledType
  <2>3. orders' = [orders EXCEPT ![o] = new]
    BY <1>3 DEF WriteSettled
  <2> HIDE DEF o, new
  <2> QED BY <1>0, <2>1, <2>2, <2>3
<1>4. ASSUME NEW k \in Cancels, cpc[k] = "update", WriteCancelled(k)
      PROVE  RowsKept /\ orders' \in [Creates -> Order \cup {NoOrder}] /\ Keyed'
  <2> DEFINE o == target[k]
             new == [orders[o] EXCEPT !.status = "Cancelled"]
  <2>1. o \in Rows /\ orders[o] \in Order
    BY <1>0, <1>4 DEF TypeInv, Cancelling
  <2>2. new \in Order /\ new # NoOrder /\ new.id = orders[o].id
        /\ new.key = orders[o].key /\ new.payload = orders[o].payload
    BY <2>1, CancelledType
  <2>3. orders' = [orders EXCEPT ![o] = new]
    BY <1>4 DEF WriteCancelled
  <2> HIDE DEF o, new
  <2> QED BY <1>0, <2>1, <2>2, <2>3
<1> QED BY <1>1, <1>2, <1>3, <1>4 DEF OrdersStep

\* What Resume does to the request.
LEMMA ResumeStep ==
  ASSUME TypeInv, NEW r \in Creates, NEW o \in WithKey(request[r].key), Resume(r, orders[o])
  PROVE  /\ o \in Rows /\ orders[o] \in Order /\ orders[o].id = o
         /\ orders[o].key = request[r].key
         /\ \/ /\ order' = order
               /\ pc' = [pc EXCEPT ![r] = "done"]
               /\ reply' = [reply EXCEPT ![r] = "mismatch"]
            \/ /\ order' = [order EXCEPT ![r] = orders[o]]
               /\ orders[o].payload = request[r].payload
               /\ \/ /\ orders[o].status = "Pending"
                     /\ pc' = [pc EXCEPT ![r] = "authorize"] /\ reply' = reply
                  \/ /\ orders[o].status # "Pending"
                     /\ pc' = [pc EXCEPT ![r] = "done"]
                     /\ reply' = [reply EXCEPT ![r] = "ok"]
  BY DEF Resume, WithKey, Rows, TypeInv, TypeOK, Keyed

\* The type invariant by owner of the variables.
CreateTypes ==
  /\ pc \in [Creates -> PCs]
  /\ request \in [Creates -> Request \cup {NoRequest}]
  /\ order \in [Creates -> Order \cup {NoOrder}]
  /\ created \in [Creates -> BOOLEAN]
  /\ verdict \in [Creates -> Decision \cup {NoDecision}]
  /\ reply \in [Creates -> Replies]
CancelTypes ==
  /\ cpc \in [Cancels -> CancelPCs]
  /\ target \in [Cancels -> Creates]
  /\ creply \in [Cancels -> CancelReplies]
PaymentTypes == asked \subseteq Creates /\ Ledger!LedgerTypeOK
EnvTypes == faults \in 0..MaxFaults /\ crashes \in 0..MaxCrashes
TableType == orders \in [Creates -> Order \cup {NoOrder}]

LEMMA TypesByOwner ==
  TypeOK <=> TableType /\ CreateTypes /\ CancelTypes /\ PaymentTypes /\ EnvTypes
  BY DEF TypeOK, TableType, CreateTypes, CancelTypes, PaymentTypes, EnvTypes

LEMMA CreateTypesStep ==
  ASSUME TypeInv, [Next]_vars
  PROVE  CreateTypes'
<1>0. TableType /\ CreateTypes /\ PaymentTypes
  BY TypesByOwner DEF TypeInv
<1>t. orders' \in [Creates -> Order \cup {NoOrder}]
  BY OrdersWritten, TableStep
<1> USE DEF CreateTypes, PCs, Replies
<1>1. ASSUME NEW r \in Creates, CreateArrives(r) PROVE CreateTypes'
  BY <1>0, <1>1 DEF CreateArrives, Receive
<1>2. ASSUME NEW r \in Creates, Lookup(r) \/ Reload(r) PROVE CreateTypes'
  <2>1. ASSUME NEW o \in WithKey(request[r].key), Resume(r, orders[o]) 
        PROVE  /\ pc' \in [Creates -> PCs] /\ order' \in [Creates -> Order \cup {NoOrder}]
               /\ reply' \in [Creates -> Replies]
    BY <1>0, <2>1, ResumeStep
  <2> QED BY <1>0, <1>2, <2>1 DEF Lookup, Reload
<1>3. ASSUME NEW r \in Creates, Insert(r) PROVE CreateTypes'
  <2>1. NewOrder(r) \in Order
    BY <1>3, NewOrderType DEF Insert, TypeInv, Arrived
  <2> QED BY <1>0, <1>3, <2>1 DEF Insert
<1>4. ASSUME NEW r \in Creates, InsertDuplicate(r) \/ InsertFails(r) PROVE CreateTypes'
  BY <1>0, <1>4 DEF InsertDuplicate, InsertFails
<1>5. ASSUME NEW r \in Creates, Authorize(r) PROVE CreateTypes'
  BY <1>0, <1>5 DEF Authorize
<1>6. ASSUME NEW r \in Creates, PaymentAnswers(r) PROVE CreateTypes'
  <2>1. order[r].id \in Creates
    BY <1>6 DEF PaymentAnswers, TypeInv, Holds, Paying, Order
  <2>2. decision[order[r].id] \in Decision \cup {NoDecision}
    BY <1>0, <2>1 DEF PaymentTypes, Ledger!LedgerTypeOK
  <2> QED BY <1>0, <1>6, <2>2 DEF PaymentAnswers
<1>7. ASSUME NEW r \in Creates, Settle(r) PROVE CreateTypes'
  <2>1. Settled(orders[order[r].id], verdict[r]) \in Order
    BY <1>0, <1>7, SettledType
       DEF Settle, TypeInv, HasVerdict, Settling, Paying, Rows, TableType
  <2> QED BY <1>0, <1>7, <2>1 DEF Settle, SuccessCode
<1>8. ASSUME NEW r \in Creates, SettleFails(r) \/ ReadFails(r) PROVE CreateTypes'
  BY <1>0, <1>8 DEF SettleFails, ReadFails
<1>9. ASSUME NEW r \in Creates, PaymentUnavailable(r) \/ PaymentErrors(r)
      PROVE CreateTypes'
  BY <1>0, <1>9 DEF PaymentUnavailable, PaymentErrors
<1>10. CASE Crash
  BY <1>0, <1>10 DEF Crash, InFlight
<1>11. ASSUME UNCHANGED creates PROVE CreateTypes'
  BY <1>0, <1>11
<1> QED
  BY <1>1, <1>2, <1>3, <1>4, <1>5, <1>6, <1>7, <1>8, <1>9, <1>10, <1>11
     DEF vars, Next, CreateProgress, CreateFailure, CancelReceive, CancelProgress,
         CancelRead, CancelUpdate, CancelFails, PaymentStep, PaymentDecides, PaymentAnnounces

LEMMA OtherTypesStep ==
  ASSUME TypeInv, [Next]_vars
  PROVE  CancelTypes' /\ PaymentTypes' /\ EnvTypes'
<1>0. CancelTypes /\ PaymentTypes /\ EnvTypes /\ MaxFaults \in Nat /\ MaxCrashes \in Nat
  BY TypesByOwner, ConstantsAssumption DEF TypeInv
<1>1. CancelTypes'
  BY <1>0
     DEF CancelTypes, CancelPCs, CancelReplies, vars, Next, CreateArrives, Receive,
         CreateProgress, Lookup, Insert, InsertDuplicate, Reload, Authorize,
         PaymentAnswers, Settle, CreateFailure, ReadFails, InsertFails, SettleFails,
         PaymentUnavailable, PaymentErrors, CancelReceive, CancelProgress, CancelRead,
         CancelUpdate, CancelFails, PaymentStep, PaymentDecides, PaymentAnnounces, Crash,
         CancelsInFlight
<1>2. EnvTypes'
  <2>1. /\ faults' = faults \/ (faults < MaxFaults /\ faults' = faults + 1)
        /\ crashes' = crashes \/ (crashes < MaxCrashes /\ crashes' = crashes + 1)
    BY DEF vars, Next, CreateArrives, Receive,
         CreateProgress, Lookup, Insert, InsertDuplicate, Reload, Authorize,
         PaymentAnswers, Settle, CreateFailure, ReadFails, InsertFails, SettleFails,
         PaymentUnavailable, PaymentErrors, CancelReceive, CancelProgress, CancelRead,
         CancelUpdate, CancelFails, PaymentStep, PaymentDecides, PaymentAnnounces, Crash
  <2> QED BY <1>0, <2>1 DEF EnvTypes
<1>3. PaymentTypes'
  <2> USE DEF PaymentTypes, Ledger!LedgerTypeOK, Ledger!Pairs
  <2>1. ASSUME NEW r \in Creates, Authorize(r) PROVE PaymentTypes'
    BY <1>0, <2>1 DEF Authorize, TypeInv, Holds, Paying, Order
  <2>2. ASSUME NEW r \in Creates, PaymentAnswers(r) PROVE PaymentTypes'
    BY <1>0, <2>2 DEF PaymentAnswers, Ledger!Tell
  <2>3. ASSUME NEW o \in Creates, PaymentStep(o) PROVE PaymentTypes'
    BY <1>0, <2>3 DEF PaymentStep, PaymentDecides, PaymentAnnounces, Ledger!Decide,
       Ledger!Announce
  <2>4. ASSUME UNCHANGED <<asked, ledger>> PROVE PaymentTypes'
    BY <1>0, <2>4
  <2> QED
    BY <2>1, <2>2, <2>3, <2>4
       DEF vars, Next, CreateArrives, Receive, CreateProgress, Lookup, Insert,
         InsertDuplicate, Reload, Settle, CreateFailure, ReadFails, InsertFails,
         SettleFails, PaymentUnavailable, PaymentErrors, CancelReceive, CancelProgress,
         CancelRead, CancelUpdate, CancelFails, Crash
<1> QED BY <1>1, <1>2, <1>3

\* Where a handler is tells what its variables hold.
LEMMA FlowStep ==
  ASSUME TypeInv, [Next]_vars
  PROVE  Arrived' /\ Holds' /\ HasVerdict' /\ Settling'
<1> DEFINE Flow == Arrived' /\ Holds' /\ HasVerdict' /\ Settling'
<1>0. CreateTypes /\ Arrived /\ Holds /\ HasVerdict /\ Settling /\ Keyed /\ TableType
  BY TypesByOwner DEF TypeInv
<1>k. Rows \subseteq Rows'
  <2>1. RowsKept
    BY OrdersWritten, TableStep
  <2> QED BY <2>1 DEF RowsKept, Rows
<1> USE DEF CreateTypes, Arrived, Holds, HasVerdict, Settling, Paying
<1>1. ASSUME NEW r \in Creates, CreateArrives(r) PROVE Flow
  BY <1>0, <1>k, <1>1 DEF CreateArrives, Receive
<1>2. ASSUME NEW r \in Creates, Lookup(r) \/ Reload(r) PROVE Flow
  <2>0. pc[r] # "idle" /\ request' = request /\ verdict' = verdict
    BY <1>2 DEF Lookup, Reload
  <2>1. ASSUME NEW o \in WithKey(request[r].key), Resume(r, orders[o]) PROVE Flow
    BY <1>0, <1>k, <2>0, <2>1, ResumeStep
  <2>2. ASSUME pc' = [pc EXCEPT ![r] = "insert"], order' = order PROVE Flow
    BY <1>0, <1>k, <2>0, <2>2
  <2> QED BY <1>2, <2>1, <2>2 DEF Lookup, Reload
<1>3. ASSUME NEW r \in Creates, Insert(r) PROVE Flow
  <2>1. NewOrder(r) \in Order /\ NewOrder(r).id = r /\ NewOrder(r) # NoOrder
    BY <1>0, <1>3, NewOrderType DEF Insert
  <2>2. r \in Rows'
    BY <1>0, <1>3, <2>1 DEF Insert, Rows, TableType
  <2> QED BY <1>0, <1>k, <1>3, <2>1, <2>2 DEF Insert
<1>4. ASSUME NEW r \in Creates, InsertDuplicate(r) \/ InsertFails(r) PROVE Flow
  BY <1>0, <1>k, <1>4 DEF InsertDuplicate, InsertFails
<1>5. ASSUME NEW r \in Creates, Authorize(r) PROVE Flow
  BY <1>0, <1>k, <1>5 DEF Authorize
<1>6. ASSUME NEW r \in Creates, PaymentAnswers(r) PROVE Flow
  <2>1. decision[order[r].id] \in Decision
    BY <1>6, NullsAssumption
       DEF PaymentAnswers, Ledger!Tell, Ledger!Pairs, TypeInv, TypeOK, Ledger!LedgerTypeOK
  <2> QED BY <1>0, <1>k, <1>6, <2>1 DEF PaymentAnswers
<1>7. ASSUME NEW r \in Creates, Settle(r) PROVE Flow
  BY <1>0, <1>k, <1>7 DEF Settle
<1>8. ASSUME NEW r \in Creates, SettleFails(r) \/ ReadFails(r) PROVE Flow
  BY <1>0, <1>k, <1>8 DEF SettleFails, ReadFails
<1>9. ASSUME NEW r \in Creates, PaymentUnavailable(r) \/ PaymentErrors(r)
      PROVE Flow
  BY <1>0, <1>k, <1>9 DEF PaymentUnavailable, PaymentErrors
<1>10. CASE Crash
  BY <1>0, <1>k, <1>10 DEF Crash, InFlight
<1>11. ASSUME UNCHANGED creates PROVE Flow
  BY <1>0, <1>k, <1>11
<1> QED
  BY <1>1, <1>2, <1>3, <1>4, <1>5, <1>6, <1>7, <1>8, <1>9, <1>10, <1>11
     DEF vars, Next, CreateProgress, CreateFailure, CancelReceive, CancelProgress,
         CancelRead, CancelUpdate, CancelFails, PaymentStep, PaymentDecides, PaymentAnnounces

\* A request's id is free until the request inserts it.
LEMMA FreshStep ==
  ASSUME TypeInv, [Next]_vars
  PROVE  Fresh'
<1>0. CreateTypes /\ TableType /\ Fresh /\ Settling /\ Cancelling
  BY TypesByOwner DEF TypeInv
<1>1. \A r \in Creates : pc'[r] \in {"idle", "lookup", "insert"}
                       => pc[r] \in {"idle", "lookup", "insert"}
  <2> DEFINE Early == {"idle", "lookup", "insert"}
             Back == \A r \in Creates : pc'[r] \in Early => pc[r] \in Early
  <2> USE DEF CreateTypes
  <2>1. ASSUME NEW r \in Creates, CreateArrives(r) \/ Insert(r) \/ InsertDuplicate(r)
               \/ Authorize(r) \/ PaymentAnswers(r) \/ Settle(r) PROVE Back
    BY <1>0, <2>1 DEF CreateArrives, Receive, Insert, InsertDuplicate, Authorize,
       PaymentAnswers, Settle
  <2>2. ASSUME NEW r \in Creates, Lookup(r) \/ Reload(r) PROVE Back
    BY <1>0, <2>2 DEF Lookup, Reload, Resume
  <2>3. ASSUME NEW r \in Creates, CreateFailure(r) PROVE Back
    BY <1>0, <2>3 DEF CreateFailure, ReadFails, InsertFails, SettleFails,
       PaymentUnavailable, PaymentErrors
  <2>4. CASE Crash
    BY <1>0, <2>4 DEF Crash, InFlight
  <2>5. CASE pc' = pc
    BY <2>5
  <2> QED
    BY <2>1, <2>2, <2>3, <2>4, <2>5
       DEF vars, Next, CreateProgress, CancelReceive, CancelProgress, CancelRead,
           CancelUpdate, CancelFails, PaymentStep, PaymentDecides, PaymentAnnounces
<1>2. ASSUME NEW r \in Creates, Insert(r) \/ InsertFails(r) PROVE Fresh'
  BY <1>0, <1>1, <1>2 DEF Insert, InsertFails, Fresh, CreateTypes, TableType
<1>3. ASSUME \A o \in Creates : orders[o] = NoOrder => orders'[o] = NoOrder PROVE Fresh'
  BY <1>0, <1>1, <1>3 DEF Fresh
<1>4. ASSUME NEW r \in Creates, Settle(r) \/ SettleFails(r) PROVE Fresh'
  <2>1. order[r].id \in Rows
    BY <1>0, <1>4 DEF Settle, SettleFails, Settling, Paying
  <2> QED BY <1>0, <1>3, <1>4, <2>1 DEF Settle, SettleFails, WriteSettled, Rows, TableType
<1>5. ASSUME NEW k \in Cancels, CancelUpdate(k) \/ CancelFails(k) PROVE Fresh'
  <2>1. CASE orders' = orders
    BY <1>3, <2>1
  <2>2. CASE cpc[k] = "update" /\ WriteCancelled(k)
    BY <1>0, <1>3, <2>2 DEF WriteCancelled, Rows, Cancelling, TableType
  <2> QED BY <1>5, <2>1, <2>2 DEF CancelUpdate, CancelFails
<1>6. ASSUME orders' = orders PROVE Fresh'
  BY <1>3, <1>6
<1> QED
  BY <1>2, <1>4, <1>5, <1>6
     DEF vars, Next, CreateArrives, Receive, CreateProgress, Lookup, InsertDuplicate,
         Reload, Authorize, PaymentAnswers, CreateFailure, ReadFails, PaymentUnavailable,
         PaymentErrors, CancelReceive, CancelProgress, CancelRead, PaymentStep,
         PaymentDecides, PaymentAnnounces, Crash

LEMMA CancellingStep ==
  ASSUME TypeInv, [Next]_vars
  PROVE  Cancelling'
<1>0. CancelTypes /\ Cancelling
  BY TypesByOwner DEF TypeInv
<1>k. Rows \subseteq Rows'
  <2>1. RowsKept
    BY OrdersWritten, TableStep
  <2> QED BY <2>1 DEF RowsKept, Rows
<1>1. target' = target
  BY DEF vars, Next, CreateArrives, Receive, CreateProgress, Lookup,
         Insert, InsertDuplicate, Reload, Authorize, Resume, PaymentAnswers, Settle,
         CreateFailure, ReadFails, InsertFails, SettleFails, PaymentUnavailable,
         PaymentErrors, CancelReceive, CancelProgress, CancelRead, CancelUpdate,
         CancelFails, PaymentStep, PaymentDecides, PaymentAnnounces, Crash
<1>2. ASSUME NEW k \in Cancels, CancelReceive(k) \/ CancelProgress(k) \/ CancelFails(k)
      PROVE  \A j \in Cancels : cpc'[j] = "update" => cpc[j] = "update" \/ target[j] \in Rows
  <2>1. ASSUME CancelRead(k)
        PROVE  \A j \in Cancels :
                 cpc'[j] = "update" => cpc[j] = "update" \/ target[j] \in Rows
    BY <1>0, <2>1 DEF CancelTypes, Rows, CancelRead, CancelAnswer
  <2>2. ASSUME CancelReceive(k) \/ CancelUpdate(k) \/ CancelFails(k)
        PROVE  \A j \in Cancels : cpc'[j] = "update" => cpc[j] = "update"
    BY <1>0, <2>2 DEF CancelTypes, CancelReceive, CancelUpdate, CancelFails, CancelAnswer
  <2> QED BY <1>2, <2>1, <2>2 DEF CancelProgress
<1>3. ASSUME Crash
      PROVE  \A j \in Cancels : cpc'[j] = "update" => cpc[j] = "update"
  BY <1>0, <1>3 DEF CancelTypes, Crash, CancelsInFlight
<1>4. \A k \in Cancels : cpc'[k] = "update" => cpc[k] = "update" \/ target[k] \in Rows
  <2>1. CASE \E k \in Cancels : CancelReceive(k) \/ CancelProgress(k) \/ CancelFails(k)
    BY <1>2, <2>1
  <2>2. CASE Crash
    BY <1>3, <2>2
  <2>3. CASE UNCHANGED cpc
    BY <2>3
  <2> QED
    BY <2>1, <2>2, <2>3
       DEF vars, cancels, Next, CreateArrives, Receive, CreateProgress, Lookup,
           Insert, InsertDuplicate, Reload, Authorize, PaymentAnswers, Settle,
           CreateFailure, ReadFails, InsertFails, SettleFails, PaymentUnavailable,
           PaymentErrors, PaymentStep, PaymentDecides, PaymentAnnounces
<1> QED BY <1>0, <1>k, <1>1, <1>4 DEF Cancelling

LEMMA TypeStep == TypeInv /\ [Next]_vars => TypeInv'
<1> SUFFICES ASSUME TypeInv, [Next]_vars PROVE TypeInv'
  OBVIOUS
<1>1. TableType' /\ Keyed'
  BY OrdersWritten, TableStep DEF TableType
<1>2. TypeOK'
  BY <1>1, CreateTypesStep, OtherTypesStep
     DEF TypeOK, TableType, CreateTypes, CancelTypes, PaymentTypes, EnvTypes
<1> QED BY <1>1, <1>2, FlowStep, FreshStep, CancellingStep DEF TypeInv

\* Every variable keeps its type.
THEOREM TypeCorrect == Spec => []TypeOK
<1>1. Spec => []TypeInv
  BY TypeInit, TypeStep, PTL DEF Spec
<1> QED BY <1>1, PTL DEF TypeInv
------------------------------------------------------------------------------
(***************************************************************************)
(* The inductive invariant.                                                *)
(***************************************************************************)
\* The row a request works on is a row of its key and payload.
LocalMatches ==
  \A r \in Creates : order[r] # NoOrder =>
    /\ pc[r] # "idle"
    /\ order[r].key = request[r].key /\ order[r].payload = request[r].payload
    /\ order[r].id \in Rows
    /\ orders[order[r].id].key = request[r].key
    /\ orders[order[r].id].payload = request[r].payload
Replied ==
  \A r \in Creates :
    /\ reply[r] \in {"created", "ok", "unavailable"} => order[r] # NoOrder
    /\ reply[r] # "none" => pc[r] = "done"
Own ==
  \A r \in Creates : /\ created[r] => /\ order[r] # NoOrder /\ order[r].id = r
                                     /\ pc[r] \in Paying \cup {"done"}
                     /\ reply[r] = "created" => created[r]

\* The verdict a request is about to write is the decision, and announced.
VerdictAnnounced ==
  \A r \in Creates : pc[r] = "settle" =>
    /\ verdict[r] = decision[order[r].id]
    /\ <<order[r].id, verdict[r]>> \in announced

\* A recorded transaction is that of the order's authorized payment, also when the
\* order has been cancelled since.
TxBacked ==
  \A o \in Rows : orders[o].tx # NoTransaction =>
    /\ decision[o] # NoDecision
    /\ decision[o].status = "Authorized" /\ orders[o].tx = decision[o].tx

\* What a request knows of its order is still so, and it succeeds only with an outcome.
Told ==
  \A r \in Creates :
    /\ Succeeded(r) => order[r].status # "Pending"
    /\ order[r] # NoOrder =>
         LET row == orders[order[r].id]
         IN  /\ order[r].status # "Pending" => row.status # "Pending"
             /\ order[r].tx # NoTransaction => row.tx = order[r].tx

IInv ==
  /\ TypeInv /\ LocalMatches /\ Replied /\ Own /\ OneOrderPerKey
  /\ PersistedBeforePayment /\ VerdictAnnounced /\ OutcomesAreBacked /\ TxBacked
  /\ Told

LEMMA InvInit == Init => IInv
<1> SUFFICES ASSUME Init PROVE IInv
  OBVIOUS
<1>1. TypeInv /\ Rows = {}
  BY TypeInit DEF Init, Rows
<1> QED
  BY <1>1
     DEF Init, IInv, LocalMatches, Replied, Own, OneOrderPerKey, PersistedBeforePayment,
         VerdictAnnounced, OutcomesAreBacked, TxBacked, Paying, Told, Succeeded

\* The ledger only grows: decisions stay, announcements stay.
LedgerGrows ==
  /\ \A o \in Creates : decision[o] # NoDecision => decision'[o] = decision[o]
  /\ announced \subseteq announced'

LEMMA LedgerStep ==
  ASSUME TypeInv, [Next]_vars
  PROVE  LedgerGrows
<1>0. decision \in [Creates -> Decision \cup {NoDecision}]
  BY DEF TypeInv, TypeOK, Ledger!LedgerTypeOK
<1>1. ASSUME UNCHANGED <<decision, announced>> PROVE LedgerGrows
  BY <1>1 DEF LedgerGrows
<1>2. ASSUME NEW o \in Creates, PaymentStep(o) PROVE LedgerGrows
  BY <1>0, <1>2 DEF LedgerGrows, PaymentStep, PaymentDecides, PaymentAnnounces,
     Ledger!Decide, Ledger!Announce
<1>3. ASSUME NEW r \in Creates, PaymentAnswers(r) PROVE LedgerGrows
  BY <1>1, <1>3 DEF PaymentAnswers, Ledger!Tell
<1> QED
  BY <1>1, <1>2, <1>3
     DEF vars, Next, CreateArrives, Receive, CreateProgress, Lookup, Insert,
         InsertDuplicate, Reload, Authorize, Settle, CreateFailure, ReadFails, InsertFails,
         SettleFails, PaymentUnavailable, PaymentErrors, CancelReceive, CancelProgress,
         CancelRead, CancelUpdate, CancelFails, Crash

\* Every row after a step is the row before it, or new, settled or cancelled.
LEMMA RowStep ==
  ASSUME TypeInv, [Next]_vars, NEW o \in Rows'
  PROVE  \/ o \in Rows /\ orders'[o] = orders[o]
         \/ o \notin Rows /\ orders'[o].status = "Pending" /\ orders'[o].tx = NoTransaction
         \/ o \in Rows /\ \E r \in Creates : /\ pc[r] = "settle" /\ o = order[r].id
                                           /\ orders'[o] = Settled(orders[o], verdict[r])
         \/ o \in Rows /\ orders'[o].status = "Cancelled" /\ orders'[o].tx = orders[o].tx
<1>0. OrdersStep /\ TableType /\ o \in Creates
  BY OrdersWritten DEF TypeInv, TypeOK, TableType, Rows
<1>1. CASE orders' = orders
  BY <1>1 DEF Rows
<1>2. ASSUME NEW r \in Creates, pc[r] = "insert", orders' = [orders EXCEPT ![r] = NewOrder(r)],
             ~(o \in Rows /\ orders'[o] = orders[o])
      PROVE  o \notin Rows /\ orders'[o].status = "Pending" /\ orders'[o].tx = NoTransaction
  BY <1>0, <1>2 DEF TypeInv, Fresh, NewOrder, TableType, Rows
<1>3. ASSUME NEW r \in Creates, pc[r] = "settle", WriteSettled(r),
             ~(o \in Rows /\ orders'[o] = orders[o])
      PROVE  o \in Rows /\ o = order[r].id /\ orders'[o] = Settled(orders[o], verdict[r])
  BY <1>0, <1>3 DEF TypeInv, Settling, Paying, WriteSettled, TableType, Rows
<1>4. ASSUME NEW k \in Cancels, cpc[k] = "update", WriteCancelled(k),
             ~(o \in Rows /\ orders'[o] = orders[o])
      PROVE  o \in Rows /\ orders'[o].status = "Cancelled" /\ orders'[o].tx = orders[o].tx
  <2>1. target[k] \in Rows /\ orders[target[k]] \in Order
    BY <1>0, <1>4 DEF TypeInv, Cancelling, TableType, Rows
  <2>2. o = target[k]
    BY <1>0, <1>4, <2>1 DEF WriteCancelled, TableType, Rows
  <2> QED BY <1>0, <1>4, <2>1, <2>2, CancelledType DEF WriteCancelled, TableType, Rows
<1> QED BY <1>0, <1>1, <1>2, <1>3, <1>4 DEF OrdersStep

LEMMA KeyStep ==
  ASSUME TypeInv, OneOrderPerKey, [Next]_vars
  PROVE  OneOrderPerKey'
<1>0. OrdersStep /\ TableType /\ RowsKept
  BY OrdersWritten, TableStep DEF TypeInv, TypeOK, TableType
<1>1. ASSUME Rows' \subseteq Rows PROVE OneOrderPerKey'
  BY <1>0, <1>1 DEF OneOrderPerKey, RowsKept
<1>2. ASSUME NEW r \in Creates, WithKey(request[r].key) = {},
             orders' = [orders EXCEPT ![r] = NewOrder(r)]
      PROVE  OneOrderPerKey'
  BY <1>0, <1>2 DEF OneOrderPerKey, WithKey, NewOrder, Rows, TableType
<1>3. ASSUME NEW r \in Creates, pc[r] = "settle", WriteSettled(r) PROVE Rows' \subseteq Rows
  BY <1>0, <1>3 DEF TypeInv, Settling, Paying, WriteSettled, TableType, Rows
<1>4. ASSUME NEW k \in Cancels, cpc[k] = "update", WriteCancelled(k) PROVE Rows' \subseteq Rows
  <2>1. target[k] \in Rows
    BY <1>4 DEF TypeInv, Cancelling
  <2> QED BY <1>0, <1>4, <2>1 DEF WriteCancelled, TableType, Rows
<1>5. CASE orders' = orders
  BY <1>1, <1>5 DEF Rows
<1> QED BY <1>0, <1>1, <1>2, <1>3, <1>4, <1>5 DEF OrdersStep

LEMMA LocalStep ==
  ASSUME TypeInv, LocalMatches, Replied, Own, [Next]_vars
  PROVE  LocalMatches' /\ Replied' /\ Own'
<1> DEFINE Local == LocalMatches' /\ Replied' /\ Own'
<1>0. /\ CreateTypes /\ TableType /\ Arrived /\ Holds /\ Settling /\ Keyed /\ TableType
      /\ RowsKept /\ NoOrder \notin Order
  BY TypesByOwner, OrdersWritten, TableStep, NullsAssumption DEF TypeInv
<1>k. ASSUME NEW r \in Creates, order[r] # NoOrder
      PROVE  /\ order[r].id \in Rows' /\ orders'[order[r].id].key = request[r].key
             /\ orders'[order[r].id].payload = request[r].payload
  BY <1>0, <1>k DEF RowsKept, Rows, LocalMatches
<1> USE DEF CreateTypes, LocalMatches, Replied, Own
<1>1. ASSUME NEW r \in Creates, CreateArrives(r) PROVE Local
  BY <1>0, <1>k, <1>1 DEF CreateArrives, Receive
<1>2. ASSUME NEW r \in Creates, Lookup(r) \/ Reload(r) PROVE Local
  <2>0. pc[r] \notin {"idle", "done"} /\ request' = request /\ created' = created /\ orders' = orders
        /\ Rows' = Rows
    BY <1>2 DEF Lookup, Reload, Rows
  <2>1. ASSUME NEW o \in WithKey(request[r].key), Resume(r, orders[o]) PROVE Local
    <3>1. ~created[r]
      BY <1>0, <1>2 DEF Lookup, Reload, Paying
    <3> QED BY <1>0, <1>k, <2>0, <2>1, <3>1, ResumeStep
  <2>2. ASSUME pc' = [pc EXCEPT ![r] = "insert"], order' = order, reply' = reply PROVE Local
    <3>1. ~created[r]
      BY <1>0, <1>2 DEF Lookup, Reload, Paying
    <3> QED BY <1>0, <1>k, <2>0, <2>2, <3>1
  <2> QED BY <1>2, <2>1, <2>2 DEF Lookup, Reload
<1>3. ASSUME NEW r \in Creates, Insert(r) PROVE Local
  <2>1. NewOrder(r) \in Order /\ NewOrder(r).id = r /\ NewOrder(r) # NoOrder
        /\ NewOrder(r).key = request[r].key /\ NewOrder(r).payload = request[r].payload
    BY <1>0, <1>3, NewOrderType DEF Insert, NewOrder, Arrived
  <2>2. r \in Rows' /\ orders'[r] = NewOrder(r)
    BY <1>0, <1>3, <2>1 DEF Insert, Rows, TableType
  <2> QED BY <1>0, <1>k, <1>3, <2>1, <2>2 DEF Insert, Paying
<1>4. ASSUME NEW r \in Creates, InsertDuplicate(r) \/ InsertFails(r) PROVE Local
  BY <1>0, <1>k, <1>4 DEF InsertDuplicate, InsertFails, Paying
<1>5. ASSUME NEW r \in Creates, Authorize(r) \/ PaymentAnswers(r) PROVE Local
  BY <1>0, <1>k, <1>5 DEF Authorize, PaymentAnswers, Paying
<1>7. ASSUME NEW r \in Creates, Settle(r) PROVE Local
  <2> DEFINE o == order[r].id
             new == Settled(orders[o], verdict[r])
  <2>1. o \in Rows /\ orders[o] \in Order /\ verdict[r] \in Decision /\ order[r] # NoOrder
        /\ orders[o].id = o
    BY <1>0, <1>7 DEF Settle, Paying, TypeInv, HasVerdict, Settling, TableType, Rows, Holds, Keyed
  <2>2. new \in Order /\ new # NoOrder /\ new.id = o /\ new.key = orders[o].key
        /\ new.payload = orders[o].payload
    BY <2>1, SettledType
  <2>3. new.key = request[r].key /\ new.payload = request[r].payload
    BY <1>0, <2>1, <2>2, <1>7 DEF Settle
  <2>4. order' = [order EXCEPT ![r] = new] /\ pc[r] = "settle"
        /\ pc' = [pc EXCEPT ![r] = "done"]
        /\ reply' = [reply EXCEPT ![r] = IF created[r] THEN "created" ELSE "ok"]
        /\ request' = request /\ created' = created
    BY <1>7 DEF Settle, SuccessCode
  <2>5. /\ orders'[o].key = request[r].key /\ orders'[o].payload = request[r].payload
        /\ o \in Rows'
    BY <1>0, <1>k, <2>1
  <2> HIDE DEF new
  <2> QED BY <1>0, <1>k, <2>1, <2>2, <2>3, <2>4, <2>5
<1>8. ASSUME NEW r \in Creates, SettleFails(r) \/ ReadFails(r) PROVE Local
  BY <1>0, <1>k, <1>8 DEF SettleFails, ReadFails, Paying
<1>9. ASSUME NEW r \in Creates, PaymentUnavailable(r) \/ PaymentErrors(r)
      PROVE Local
  BY <1>0, <1>k, <1>9 DEF PaymentUnavailable, PaymentErrors, Paying, Holds
<1>10. CASE Crash
  BY <1>0, <1>k, <1>10 DEF Crash, InFlight
<1>11. ASSUME UNCHANGED creates PROVE Local
  BY <1>0, <1>k, <1>11
<1> QED
  BY <1>1, <1>2, <1>3, <1>4, <1>5, <1>7, <1>8, <1>9, <1>10, <1>11
     DEF vars, Next, CreateProgress, CreateFailure, CancelReceive, CancelProgress,
         CancelRead, CancelUpdate, CancelFails, PaymentStep, PaymentDecides, PaymentAnnounces

LEMMA AskedStep ==
  ASSUME TypeInv, PersistedBeforePayment, [Next]_vars
  PROVE  PersistedBeforePayment'
<1>1. Rows \subseteq Rows'
  <2>1. RowsKept
    BY OrdersWritten, TableStep
  <2> QED BY <2>1 DEF RowsKept, Rows
<1>2. ASSUME asked' = asked PROVE PersistedBeforePayment'
  BY <1>1, <1>2 DEF PersistedBeforePayment
<1>3. ASSUME NEW r \in Creates, Authorize(r) PROVE PersistedBeforePayment'
  <2>1. order[r].id \in Rows
    BY <1>3 DEF Authorize, TypeInv, Settling, Paying
  <2> QED BY <1>1, <1>3, <2>1 DEF Authorize, PersistedBeforePayment
<1> QED
  BY <1>2, <1>3
     DEF vars, Next, CreateArrives, Receive, CreateProgress, Lookup, Insert,
         InsertDuplicate, Reload, PaymentAnswers, Settle, CreateFailure, ReadFails,
         InsertFails, SettleFails, PaymentUnavailable, PaymentErrors, CancelReceive,
         CancelProgress, CancelRead, CancelUpdate, CancelFails, PaymentStep,
         PaymentDecides, PaymentAnnounces, Crash

\* A verdict is taken from an announced decision, and the ledger keeps both.
LEMMA VerdictStep ==
  ASSUME TypeInv, VerdictAnnounced, [Next]_vars
  PROVE  VerdictAnnounced'
<1>0. /\ CreateTypes /\ LedgerGrows /\ HasVerdict /\ Settling
      /\ NoDecision \notin Decision
  BY TypesByOwner, LedgerStep, NullsAssumption DEF TypeInv
<1>1. ASSUME NEW r \in Creates, pc[r] = "settle", order'[r] = order[r], verdict'[r] = verdict[r]
      PROVE  /\ verdict'[r] = decision'[order'[r].id]
             /\ <<order'[r].id, verdict'[r]>> \in announced'
  BY <1>0, <1>1 DEF VerdictAnnounced, LedgerGrows, HasVerdict, Settling, Paying, Rows
<1>2. ASSUME NEW r \in Creates, PaymentAnswers(r) PROVE VerdictAnnounced'
  <2>1. <<order[r].id, decision[order[r].id]>> \in announced /\ announced' = announced
        /\ decision' = decision
    BY <1>2 DEF PaymentAnswers, Ledger!Tell
  <2> QED BY <1>0, <1>1, <1>2, <2>1 DEF PaymentAnswers, VerdictAnnounced, CreateTypes
<1>3. ASSUME NEW r \in Creates, CreateArrives(r) \/ Insert(r) \/ InsertDuplicate(r)
             \/ Authorize(r) \/ Settle(r)
      PROVE  VerdictAnnounced'
  BY <1>0, <1>1, <1>3
     DEF CreateArrives, Receive, Insert, InsertDuplicate, Authorize, Settle, CreateTypes,
         VerdictAnnounced
<1>4. ASSUME NEW r \in Creates, Lookup(r) \/ Reload(r) PROVE VerdictAnnounced'
  BY <1>0, <1>1, <1>4 DEF Lookup, Reload, Resume, CreateTypes, VerdictAnnounced
<1>5. ASSUME NEW r \in Creates, CreateFailure(r) PROVE VerdictAnnounced'
  BY <1>0, <1>1, <1>5
     DEF CreateFailure, ReadFails, InsertFails, SettleFails, PaymentUnavailable,
         PaymentErrors, CreateTypes, VerdictAnnounced
<1>6. CASE Crash
  BY <1>0, <1>1, <1>6 DEF Crash, InFlight, CreateTypes, VerdictAnnounced
<1>7. ASSUME UNCHANGED creates PROVE VerdictAnnounced'
  BY <1>0, <1>1, <1>7 DEF VerdictAnnounced
<1> QED
  BY <1>2, <1>3, <1>4, <1>5, <1>6, <1>7
     DEF vars, Next, CreateProgress, CancelReceive, CancelProgress, CancelRead,
         CancelUpdate, CancelFails, PaymentStep, PaymentDecides, PaymentAnnounces

\* A row that was backed stays backed while the ledger grows.
BackedBy(row, d, a) ==
  /\ row.status \in {"Paid", "Failed"} => <<row.id, d>> \in a
  /\ row.status = "Paid" => d.status = "Authorized" /\ row.tx = d.tx
  /\ row.status = "Failed" => d.status = "Declined"

LEMMA BackedKept ==
  ASSUME TypeInv, LedgerGrows, NEW row \in Order, BackedBy(row, decision[row.id], announced)
  PROVE  BackedBy(row, decision'[row.id], announced')
<1>1. row.id \in Creates
  BY DEF Order
<1>2. CASE row.status \in {"Paid", "Failed"}
  <2>1. decision[row.id] \in Decision
    BY <1>2 DEF BackedBy, TypeInv, TypeOK, Ledger!LedgerTypeOK, Ledger!Pairs
  <2>2. decision'[row.id] = decision[row.id]
    BY <1>1, <2>1, NullsAssumption DEF LedgerGrows
  <2> QED BY <2>2 DEF LedgerGrows, BackedBy
<1>3. CASE row.status \notin {"Paid", "Failed"}
  BY <1>3 DEF BackedBy
<1> QED BY <1>2, <1>3

\* Writing a verdict makes a backed row.
LEMMA SettledBacked ==
  ASSUME TypeInv, VerdictAnnounced, LedgerGrows, NEW r \in Creates, pc[r] = "settle",
         NEW row \in Order, row.id = order[r].id
  PROVE  BackedBy(Settled(row, verdict[r]), decision'[row.id], announced')
<1>1. /\ verdict[r] \in Decision /\ verdict[r] = decision[row.id]
      /\ <<row.id, verdict[r]>> \in announced /\ row.id \in Creates
  BY DEF TypeInv, HasVerdict, VerdictAnnounced, Order
<1>2. decision'[row.id] = verdict[r] /\ <<row.id, verdict[r]>> \in announced'
  BY <1>1, NullsAssumption DEF LedgerGrows
<1> QED BY <1>1, <1>2 DEF Settled, BackedBy, Order, Decision, Authorized, Declined

\* Every row stays backed ...
LEMMA RowsBacked ==
  ASSUME TypeInv, VerdictAnnounced, OutcomesAreBacked, [Next]_vars, NEW o \in Rows'
  PROVE  BackedBy(orders'[o], decision'[o], announced')
<1>0. LedgerGrows /\ TableType /\ Keyed
  BY LedgerStep DEF TypeInv, TypeOK, TableType
<1>1. ASSUME o \in Rows
      PROVE  orders[o] \in Order /\ orders[o].id = o
             /\ BackedBy(orders[o], decision[o], announced)
  BY <1>0, <1>1 DEF TableType, Rows, Keyed, OutcomesAreBacked, Backed, BackedBy
<1>2. CASE o \in Rows /\ orders'[o] = orders[o]
  BY <1>0, <1>1, <1>2, BackedKept
<1>3. CASE orders'[o].status \in {"Pending", "Cancelled"}
  BY <1>3 DEF BackedBy
<1>4. ASSUME o \in Rows, NEW r \in Creates, pc[r] = "settle", o = order[r].id,
             orders'[o] = Settled(orders[o], verdict[r])
      PROVE  BackedBy(orders'[o], decision'[o], announced')
  <2>1. BackedBy(Settled(orders[o], verdict[r]), decision'[o], announced')
    BY <1>0, <1>1, <1>4, SettledBacked
  <2> QED BY <1>4, <2>1
<1> QED BY <1>2, <1>3, <1>4, RowStep

\* ... and so does every copy of a row a request holds.
LEMMA LocalBacked ==
  ASSUME TypeInv, VerdictAnnounced, OutcomesAreBacked, [Next]_vars,
         NEW s \in Creates, order'[s] # NoOrder
  PROVE  BackedBy(order'[s], decision'[order'[s].id], announced')
<1> DEFINE Goal == BackedBy(order'[s], decision'[order'[s].id], announced')
<1>0. CreateTypes /\ TableType /\ LedgerGrows /\ Keyed
  BY LedgerStep, TypesByOwner DEF TypeInv
<1>1. ASSUME order'[s] = order[s] PROVE Goal
  <2>1. order[s] \in Order /\ BackedBy(order[s], decision[order[s].id], announced)
    BY <1>0, <1>1 DEF CreateTypes, OutcomesAreBacked, Backed, BackedBy
  <2> QED BY <1>0, <1>1, <2>1, BackedKept
<1>2. ASSUME NEW r \in Creates, Lookup(r) \/ Reload(r) PROVE Goal
  <2>1. ASSUME NEW o \in WithKey(request[r].key), Resume(r, orders[o]) PROVE Goal
    <3>1. order' = order \/ order' = [order EXCEPT ![r] = orders[o]]
      BY <2>1, ResumeStep
    <3>2. orders[o] \in Order /\ orders[o].id = o
          /\ BackedBy(orders[o], decision[orders[o].id], announced)
      BY <1>0, <2>1, ResumeStep DEF OutcomesAreBacked, Backed, BackedBy
    <3>3. BackedBy(orders[o], decision'[orders[o].id], announced')
      BY <1>0, <3>2, BackedKept
    <3>4. order'[s] = order[s] \/ order'[s] = orders[o]
      BY <1>0, <3>1 DEF CreateTypes
    <3> QED BY <1>1, <3>3, <3>4
  <2> QED BY <1>1, <1>2, <2>1 DEF Lookup, Reload
<1>3. ASSUME NEW r \in Creates, Insert(r) PROVE Goal
  <2>1. order'[s] = order[s] \/ order'[s] = NewOrder(r)
    BY <1>0, <1>3 DEF Insert, CreateTypes
  <2>2. ASSUME order'[s] = NewOrder(r) PROVE Goal
    <3>1. order'[s].status = "Pending"
      BY <2>2 DEF NewOrder
    <3> QED BY <3>1 DEF BackedBy
  <2> QED BY <1>1, <2>1, <2>2
<1>4. ASSUME NEW r \in Creates, Settle(r) PROVE Goal
  <2> DEFINE row == orders[order[r].id]
  <2>1. pc[r] = "settle" /\ row \in Order /\ row.id = order[r].id /\ verdict[r] \in Decision
    BY <1>0, <1>4 DEF Settle, TypeInv, Settling, HasVerdict, Paying, Rows, TableType, Keyed
  <2>2. BackedBy(Settled(row, verdict[r]), decision'[row.id], announced')
    BY <1>0, <2>1, SettledBacked
  <2>3. Settled(row, verdict[r]).id = row.id
    BY <2>1, SettledType
  <2>4. order'[s] = order[s] \/ order'[s] = Settled(row, verdict[r])
    BY <1>0, <1>4 DEF Settle, CreateTypes
  <2> HIDE DEF row
  <2> QED BY <1>1, <2>2, <2>3, <2>4
<1>5. ASSUME order' = order PROVE Goal
  BY <1>1, <1>5
<1> QED
  BY <1>2, <1>3, <1>4, <1>5
     DEF vars, Next, CreateArrives, Receive, CreateProgress, InsertDuplicate, Authorize,
         PaymentAnswers, CreateFailure, ReadFails, InsertFails, SettleFails,
         PaymentUnavailable, PaymentErrors, CancelReceive, CancelProgress, CancelRead,
         CancelUpdate, CancelFails, PaymentStep, PaymentDecides, PaymentAnnounces, Crash

LEMMA BackedStep ==
  ASSUME TypeInv, VerdictAnnounced, OutcomesAreBacked, [Next]_vars
  PROVE  OutcomesAreBacked'
<1>1. Keyed'
  BY OrdersWritten, TableStep
<1>2. ASSUME NEW o \in Rows' PROVE Backed(orders[o])'
  <2>1. orders'[o].id = o
    BY <1>1 DEF Keyed
  <2> QED BY <2>1, RowsBacked DEF Backed, BackedBy
<1>3. ASSUME NEW s \in Creates, order'[s] # NoOrder PROVE Backed(order[s])'
  BY <1>3, LocalBacked DEF Backed, BackedBy
<1> QED BY <1>2, <1>3 DEF OutcomesAreBacked

LEMMA TxStep ==
  ASSUME TypeInv, VerdictAnnounced, TxBacked, [Next]_vars
  PROVE  TxBacked'
<1>0. LedgerGrows /\ TableType
  BY LedgerStep DEF TypeInv, TypeOK, TableType
<1> SUFFICES ASSUME NEW o \in Rows', orders'[o].tx # NoTransaction
             PROVE  /\ decision'[o] # NoDecision /\ decision'[o].status = "Authorized"
                    /\ orders'[o].tx = decision'[o].tx
  BY DEF TxBacked
<1>1. ASSUME o \in Rows, orders'[o].tx = orders[o].tx
      PROVE  /\ decision'[o] # NoDecision /\ decision'[o].status = "Authorized"
             /\ orders'[o].tx = decision'[o].tx
  BY <1>0, <1>1 DEF TxBacked, LedgerGrows, Rows
<1>2. ASSUME o \in Rows, NEW r \in Creates, pc[r] = "settle", o = order[r].id,
             orders'[o] = Settled(orders[o], verdict[r])
      PROVE  /\ decision'[o] # NoDecision /\ decision'[o].status = "Authorized"
             /\ orders'[o].tx = decision'[o].tx
  <2>1. orders[o] \in Order /\ verdict[r] \in Decision /\ verdict[r] = decision[o]
    BY <1>0, <1>2 DEF TableType, Rows, TypeInv, HasVerdict, VerdictAnnounced
  <2>2. decision'[o] = verdict[r]
    BY <1>0, <2>1, NullsAssumption DEF LedgerGrows, Rows
  <2>3. verdict[r].status = "Authorized" /\ orders'[o].tx = verdict[r].tx
    BY <1>2, <2>1 DEF Settled, Order
  <2> QED BY <2>1, <2>2, <2>3, NullsAssumption
<1> QED BY <1>1, <1>2, RowStep

\* What may become of a row in a step.
Forward(o) ==
  /\ orders'[o] # NoOrder
  /\ orders'[o].key = orders[o].key /\ orders'[o].payload = orders[o].payload
  /\ orders'[o].status = "Pending" => orders[o].status = "Pending"
  /\ {orders[o].status, orders'[o].status} # {"Paid", "Failed"}
  /\ orders[o].tx # NoTransaction => orders'[o].tx = orders[o].tx

LEMMA ForwardStep ==
  ASSUME IInv, [Next]_vars, NEW o \in Rows
  PROVE  Forward(o)
<1> USE DEF Forward
<1>0. /\ TypeInv /\ OutcomesAreBacked /\ TxBacked /\ VerdictAnnounced
      /\ TableType /\ LedgerGrows /\ RowsKept /\ Keyed
  BY LedgerStep, OrdersWritten, TableStep DEF IInv, TypeInv, TypeOK, TableType
<1>1. o \in Rows'
  BY <1>0 DEF RowsKept, Rows
<1>2. orders[o] \in Order /\ orders[o].id = o
  BY <1>0 DEF TableType, Rows, Keyed
<1>3. /\ orders[o].status = "Paid" => decision[o].status = "Authorized"
      /\ orders[o].status = "Failed" => decision[o].status = "Declined"
  BY <1>0, <1>2 DEF OutcomesAreBacked, Backed
<1>4. CASE orders'[o] = orders[o]
  BY <1>0, <1>4 DEF RowsKept
<1>5. ASSUME NEW r \in Creates, pc[r] = "settle", o = order[r].id,
             orders'[o] = Settled(orders[o], verdict[r])
      PROVE  Forward(o)
  <2>1. verdict[r] \in Decision /\ verdict[r] = decision[o]
    BY <1>0, <1>5 DEF TypeInv, HasVerdict, VerdictAnnounced
  <2>2. CASE verdict[r].status = "Authorized"
    <3>1. orders'[o].status = "Paid" /\ orders'[o].tx = verdict[r].tx
      BY <1>2, <1>5, <2>2 DEF Settled, Order
    <3> QED BY <1>0, <1>3, <2>1, <2>2, <3>1 DEF RowsKept, TxBacked
  <2>3. CASE verdict[r].status # "Authorized"
    <3>1. orders'[o].status = "Failed" /\ orders'[o].tx = NoTransaction
      BY <1>2, <1>5, <2>3 DEF Settled, Order
    <3> QED BY <1>0, <1>3, <2>1, <2>3, <3>1 DEF RowsKept, TxBacked
  <2> QED BY <2>2, <2>3
<1>6. CASE orders'[o].status = "Cancelled" /\ orders'[o].tx = orders[o].tx
  BY <1>0, <1>6 DEF RowsKept
<1> QED BY <1>0, <1>1, <1>4, <1>5, <1>6, RowStep

\* A request begins to settle an order only if it finds it Pending or inserts it.
LEMMA PaidStep ==
  ASSUME TypeInv, [Next]_vars, NEW o \in Rows, ~BeingPaid(o), BeingPaid(o)'
  PROVE  orders[o].status = "Pending"
<1> DEFINE Labels == {"authorize", "waiting", "settle"}
           Now(s) == pc[s] \in Labels /\ order[s].id = o
<1>0. CreateTypes /\ TableType
  BY TypesByOwner DEF TypeInv
<1>1. PICK s \in Creates : pc'[s] \in Labels /\ order'[s].id = o
  BY DEF BeingPaid
<1>2. ~Now(s)
  BY DEF BeingPaid
<1>3. ASSUME order'[s] = order[s], pc'[s] \in Labels => pc[s] \in Labels PROVE FALSE
  BY <1>1, <1>2, <1>3
<1>4. ASSUME NEW r \in Creates, order' = order, NEW x \in PCs, pc' = [pc EXCEPT ![r] = x],
             x \in Labels => pc[r] \in Labels
      PROVE  FALSE
  BY <1>0, <1>3, <1>4 DEF CreateTypes
<1>5. ASSUME NEW r \in Creates, Lookup(r) \/ Reload(r) PROVE orders[o].status = "Pending"
  <2>1. ASSUME NEW p \in WithKey(request[r].key), Resume(r, orders[p])
        PROVE  orders[o].status = "Pending"
    <3>1. CASE s # r
      BY <1>0, <1>3, <2>1, <3>1, ResumeStep DEF CreateTypes
    <3>2. CASE s = r
      BY <1>0, <1>1, <2>1, <3>2, ResumeStep DEF CreateTypes
    <3> QED BY <3>1, <3>2
  <2>2. CASE order' = order /\ pc' = [pc EXCEPT ![r] = "insert"]
    BY <1>4, <2>2 DEF PCs
  <2> QED BY <1>5, <2>1, <2>2 DEF Lookup, Reload, Goto
<1>6. ASSUME NEW r \in Creates, Insert(r) PROVE orders[o].status = "Pending"
  <2>1. r # o
    BY <1>6 DEF Insert, TypeInv, Fresh, Rows
  <2>2. order'[s] = order[s] /\ pc'[s] = pc[s]
    BY <1>0, <1>1, <1>6, <2>1 DEF Insert, Goto, NewOrder, CreateTypes
  <2> QED BY <1>3, <2>2
<1>7. ASSUME NEW r \in Creates, Settle(r) PROVE orders[o].status = "Pending"
  <2>1. pc' = [pc EXCEPT ![r] = "done"] /\ s # r
    BY <1>0, <1>1, <1>7 DEF Settle, Answer, CreateTypes
  <2>2. order'[s] = order[s] /\ pc'[s] = pc[s]
    BY <1>0, <1>7, <2>1 DEF Settle, CreateTypes
  <2> QED BY <1>3, <2>2
<1>8. CASE Crash
  BY <1>0, <1>3, <1>8 DEF Crash, CreateTypes
<1>9. CASE order' = order /\ pc' = pc
  BY <1>3, <1>9
<1> QED
  BY <1>4, <1>5, <1>6, <1>7, <1>8, <1>9
     DEF vars, creates, Next, CreateArrives, Receive, CreateProgress, InsertDuplicate,
         Authorize, PaymentAnswers, CreateFailure, ReadFails, InsertFails, SettleFails,
         Answer, Goto, PaymentUnavailable, PaymentErrors, CancelReceive, CancelProgress,
         CancelRead, CancelUpdate, CancelFails, PaymentStep, PaymentDecides,
         PaymentAnnounces, PCs

\* A cancelled order that no request is settling stays cancelled.
Final(o) ==
  orders[o].status = "Cancelled" /\ ~BeingPaid(o)
    => orders'[o].status = "Cancelled" /\ ~BeingPaid(o)'

LEMMA FinalStep ==
  ASSUME TypeInv, [Next]_vars, NEW o \in Rows
  PROVE  Final(o)
<1>1. SUFFICES ASSUME orders[o].status = "Cancelled", ~BeingPaid(o)
               PROVE  orders'[o].status = "Cancelled" /\ ~BeingPaid(o)'
  BY DEF Final
<1>2. ~BeingPaid(o)'
  BY <1>1, PaidStep
<1>3. o \in Rows'
  BY OrdersWritten, TableStep DEF TypeInv, TypeOK, TableType, RowsKept, Rows
<1>4. ASSUME NEW r \in Creates, pc[r] = "settle", o = order[r].id PROVE FALSE
  BY <1>1, <1>4 DEF BeingPaid
<1> QED BY <1>1, <1>2, <1>3, <1>4, RowStep

\* A request's copy of its order is the one it had, or the row as it is now.
LEMMA CopyStep ==
  ASSUME IInv, [Next]_vars, NEW s \in Creates
  PROVE  \/ order'[s] = order[s] /\ (Succeeded(s)' => Succeeded(s))
         \/ /\ order'[s] = orders'[order'[s].id]
            /\ Succeeded(s)' => order'[s].status # "Pending"
<1> DEFINE Goal == \/ order'[s] = order[s] /\ (Succeeded(s)' => Succeeded(s))
                   \/ /\ order'[s] = orders'[order'[s].id]
                      /\ Succeeded(s)' => order'[s].status # "Pending"
<1>0. CreateTypes /\ TableType /\ TypeInv /\ Replied
  BY TypesByOwner DEF IInv, TypeInv
<1>1. ASSUME order'[s] = order[s], reply'[s] \in {reply[s], "mismatch", "unavailable",
                                                  "internal", "lost"}
      PROVE  Goal
  BY <1>1 DEF Succeeded
<1>2. ASSUME NEW r \in Creates, Lookup(r) \/ Reload(r) PROVE Goal
  <2>1. ASSUME NEW o \in WithKey(request[r].key), Resume(r, orders[o]) PROVE Goal
    <3>1. orders[o].id = o /\ orders' = orders /\ reply[r] = "none"
      BY <1>0, <1>2, <2>1, ResumeStep DEF Lookup, Reload, Replied
    <3>2. CASE order' = order
      BY <1>0, <1>1, <2>1, <3>1, <3>2, ResumeStep DEF CreateTypes, Succeeded
    <3>3. CASE order' = [order EXCEPT ![r] = orders[o]] /\ order' # order
      BY <1>0, <1>1, <2>1, <3>1, <3>3, ResumeStep DEF CreateTypes, Succeeded
    <3> QED BY <1>0, <2>1, <3>2, <3>3, ResumeStep
  <2>2. CASE order' = order /\ reply' = reply
    BY <1>1, <2>2
  <2> QED BY <1>2, <2>1, <2>2 DEF Lookup, Reload
<1>3. ASSUME NEW r \in Creates, Insert(r) PROVE Goal
  <2>1. order' = [order EXCEPT ![r] = NewOrder(r)] /\ NewOrder(r).id = r
        /\ orders' = [orders EXCEPT ![r] = NewOrder(r)] /\ reply' = reply
        /\ pc[r] = "insert"
    BY <1>3 DEF Insert, NewOrder
  <2>2. CASE s = r
    <3>1. order'[s] = orders'[order'[s].id]
      BY <1>0, <2>1, <2>2 DEF CreateTypes, TableType
    <3>2. reply'[s] = "none"
      BY <1>0, <2>1, <2>2 DEF Replied
    <3> QED BY <3>1, <3>2 DEF Succeeded
  <2>3. CASE s # r
    BY <1>0, <1>1, <2>1, <2>3 DEF CreateTypes
  <2> QED BY <2>2, <2>3
<1>4. ASSUME NEW r \in Creates, Settle(r) PROVE Goal
  <2> DEFINE o == order[r].id
             new == Settled(orders[o], verdict[r])
  <2>1. o \in Creates /\ orders[o] \in Order /\ verdict[r] \in Decision /\ orders[o].id = o
    BY <1>0, <1>4 DEF Settle, TypeInv, Settling, HasVerdict, Paying, Rows, TableType, Keyed
  <2>2. new.id = o
    BY <2>1, SettledType
  <2>3. new.status \in {"Paid", "Failed"}
    BY <2>1 DEF Settled, Order
  <2>4. order' = [order EXCEPT ![r] = new] /\ orders' = [orders EXCEPT ![o] = new]
        /\ reply' = [reply EXCEPT ![r] = SuccessCode(r)]
    BY <1>4 DEF Settle, WriteSettled, Answer
  <2> HIDE DEF new
  <2>5. CASE s = r
    <3>1. order'[s] = new /\ orders'[o] = new
      BY <1>0, <2>1, <2>4, <2>5 DEF CreateTypes, TableType
    <3> QED BY <2>2, <2>3, <3>1
  <2>6. CASE s # r
    BY <1>0, <1>1, <2>4, <2>6 DEF CreateTypes
  <2> QED BY <2>5, <2>6
<1>5. ASSUME order' = order,
             \/ reply' = reply
             \/ \E r \in Creates, x \in {"unavailable", "internal"} :
                  reply' = [reply EXCEPT ![r] = x]
             \/ \A r \in Creates : reply'[r] \in {reply[r], "lost"}
      PROVE  Goal
  <2>1. ASSUME NEW r \in Creates, NEW x \in {"unavailable", "internal"},
               reply' = [reply EXCEPT ![r] = x]
        PROVE  reply'[s] \in {reply[s], "unavailable", "internal"}
    BY <1>0, <2>1 DEF CreateTypes
  <2>2. reply'[s] \in {reply[s], "mismatch", "unavailable", "internal", "lost"}
    <3>1. CASE reply' = reply
      BY <3>1
    <3>2. CASE \E r \in Creates, x \in {"unavailable", "internal"} :
                 reply' = [reply EXCEPT ![r] = x]
      BY <2>1, <3>2
    <3>3. CASE \A r \in Creates : reply'[r] \in {reply[r], "lost"}
      BY <3>3
    <3> QED BY <1>5, <3>1, <3>2, <3>3
  <2>3. order'[s] = order[s]
    BY <1>5
  <2> QED BY <1>1, <2>2, <2>3
<1>6. CASE Crash
  BY <1>0, <1>5, <1>6 DEF Crash, CreateTypes
<1> QED
  BY <1>2, <1>3, <1>4, <1>5, <1>6
     DEF vars, Next, CreateArrives, Receive, CreateProgress, InsertDuplicate, Authorize,
         PaymentAnswers, CreateFailure, ReadFails, InsertFails, SettleFails, Answer,
         PaymentUnavailable, PaymentErrors, CancelReceive, CancelProgress, CancelRead,
         CancelUpdate, CancelFails, PaymentStep, PaymentDecides, PaymentAnnounces

LEMMA ToldStep ==
  ASSUME IInv, [Next]_vars
  PROVE  Told'
<1> SUFFICES ASSUME NEW r \in Creates
             PROVE  /\ Succeeded(r)' => order'[r].status # "Pending"
                    /\ order'[r] # NoOrder =>
                         /\ order'[r].status # "Pending"
                              => orders'[order'[r].id].status # "Pending"
                         /\ order'[r].tx # NoTransaction
                              => orders'[order'[r].id].tx = order'[r].tx
  BY DEF Told, Succeeded
<1>1. CASE order'[r] = order[r] /\ (Succeeded(r)' => Succeeded(r))
  <2>1. Succeeded(r)' => order'[r].status # "Pending"
    BY <1>1 DEF IInv, Told
  <2>2. ASSUME order[r] # NoOrder
        PROVE  /\ order[r].status # "Pending" => orders'[order[r].id].status # "Pending"
               /\ order[r].tx # NoTransaction => orders'[order[r].id].tx = order[r].tx
    <3>1. order[r].id \in Rows
      BY <2>2 DEF IInv, LocalMatches
    <3>2. Forward(order[r].id)
      BY <3>1, ForwardStep
    <3> QED BY <2>2, <3>2 DEF Forward, IInv, Told
  <2> QED BY <1>1, <2>1, <2>2
<1>2. CASE /\ order'[r] = orders'[order'[r].id]
           /\ Succeeded(r)' => order'[r].status # "Pending"
  BY <1>2
<1> QED BY <1>1, <1>2, CopyStep

LEMMA InvStep == IInv /\ [Next]_vars => IInv'
<1> SUFFICES ASSUME IInv, [Next]_vars PROVE IInv'
  OBVIOUS
<1> QED
  BY TypeStep, LocalStep, KeyStep, AskedStep, VerdictStep, BackedStep, TxStep, ToldStep
     DEF IInv

\* The inductive invariant is an invariant.
THEOREM Invariance == Spec => []IInv
  BY InvInit, InvStep, PTL DEF Spec

------------------------------------------------------------------------------
\* Concurrent creations with one idempotency key never make two orders.
THEOREM KeysAreUnique == Spec => []OneOrderPerKey
  BY Invariance, PTL DEF IInv

LEMMA AnswersMatchInv == IInv => AnswersMatchRequest
  BY DEF IInv, LocalMatches, Replied, AnswersMatchRequest

LEMMA SuccessesAgreeInv == IInv => SuccessesAgree
<1> SUFFICES ASSUME IInv, NEW r \in Creates, NEW s \in Creates, Succeeded(r), Succeeded(s),
                    request[r].key = request[s].key
             PROVE  LET row == orders[order[r].id]
                    IN  /\ order[s].id = order[r].id
                        /\ order[r].status # "Pending" /\ row.status # "Pending"
                        /\ ~({"Paid", "Failed"} \subseteq
                              {order[r].status, order[s].status, row.status})
                        /\ order[r].tx # NoTransaction => row.tx = order[r].tx
                        /\ reply[r] = "created" /\ reply[s] = "created" => r = s
  BY DEF SuccessesAgree
<1> DEFINE row == orders[order[r].id]
<1>1. order[r] # NoOrder /\ order[s] # NoOrder
  BY DEF IInv, Replied, Succeeded
<1>2. order[s].id = order[r].id /\ order[r].id \in Rows
  BY <1>1 DEF IInv, LocalMatches, OneOrderPerKey
<1>3. /\ order[r].status # "Pending" /\ row.status # "Pending"
      /\ order[r].tx # NoTransaction => row.tx = order[r].tx
  BY <1>1 DEF IInv, Told
<1>4. Backed(order[r]) /\ Backed(order[s]) /\ Backed(row) /\ row.id = order[r].id
  BY <1>1, <1>2 DEF IInv, OutcomesAreBacked, TypeInv, Keyed
<1>5. ~({"Paid", "Failed"} \subseteq {order[r].status, order[s].status, row.status})
  <2> DEFINE d == decision[order[r].id]
  <2>1. \A x \in {order[r].status, order[s].status, row.status} :
          (x = "Paid" => d.status = "Authorized") /\ (x = "Failed" => d.status = "Declined")
    BY <1>2, <1>4 DEF Backed
  <2> HIDE DEF d, row
  <2> QED BY <2>1
<1>6. reply[r] = "created" /\ reply[s] = "created" => r = s
  BY <1>2 DEF IInv, Own
<1> QED BY <1>2, <1>3, <1>5, <1>6

\* An answered order is the one that was asked for.
THEOREM AnswersMatch == Spec => []AnswersMatchRequest
  BY AnswersMatchInv, Invariance, PTL

\* However creations with one key race, fail and are repeated, and whoever settles the
\* order, those that succeed are told the same, and it stays true; one is told 201.
THEOREM SuccessesTold == Spec => []SuccessesAgree
  BY SuccessesAgreeInv, Invariance, PTL

\* No payment is requested for an order that is not in the table.
THEOREM PersistedFirst == Spec => []PersistedBeforePayment
  BY Invariance, PTL DEF IInv

\* A Paid or Failed order carries the announced decision of its payment.
THEOREM OutcomesBacked == Spec => []OutcomesAreBacked
  BY Invariance, PTL DEF IInv

\* Rows are kept, only move forward, and keep a recorded transaction; a cancellation is
\* final once the requests that read the order before it have ended.
THEOREM OrdersMoveForward == Spec => RowsMoveForward
<1>1. IInv /\ [Next]_vars =>
        [\A o \in Rows :
           LET old == orders[o]
               new == orders'[o]
           IN  /\ new # NoOrder
               /\ new.key = old.key /\ new.payload = old.payload
               /\ new.status = "Pending" => old.status = "Pending"
               /\ {old.status, new.status} # {"Paid", "Failed"}
               /\ old.tx # NoTransaction => new.tx = old.tx
               /\ old.status = "Cancelled" /\ ~BeingPaid(o)
                    => new.status = "Cancelled" /\ ~BeingPaid(o)']_vars
  BY ForwardStep, FinalStep DEF Forward, Final, IInv
<1> QED BY <1>1, Invariance, PTL DEF Spec, RowsMoveForward
==============================================================================
