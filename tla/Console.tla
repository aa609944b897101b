------------------------------- MODULE Console -------------------------------
(***************************************************************************)
(* The browser's store (useOrderStore): creating, looking up and           *)
(* cancelling orders, and the revenue and payments panels.  Each operation *)
(* sets the store, waits for the server, and sets the store again; the     *)
(* answers of operations that wait at the same time arrive in any order.   *)
(* The only guards are the buttons: a slice of the store disables its own  *)
(* while it is loading, except the one that loads the revenue of the       *)
(* customer of the selected order.                                         *)
(*                                                                         *)
(* The server is Orders as the console sees it.  A key has one order at    *)
(* most, so an order goes by the key it was made with.                     *)
(***************************************************************************)
EXTENDS Naturals, Sequences, FiniteSets

CONSTANTS Keys,       \* idempotency keys; bound: once all are used nothing takes a new one
          Calls,      \* requests under way at once
          NoOrder,
          NoReply,
          MaxRecent,  \* MAX_RECENT_ORDERS
          MaxEdits    \* bound: changes of the key by the user, and page reloads

ASSUME ConstantsAssumption ==
  /\ MaxRecent \in Nat \ {0}
  /\ MaxEdits \in Nat
  /\ IsFiniteSet(Keys) /\ IsFiniteSet(Calls)

\* The store only tells Pending orders from others; Paid and Failed are both Settled.
Statuses == {"Pending", "Settled", "Cancelled"}
Order == [id : Keys, status : Statuses]
Slice == [data : Order \cup {NoOrder}, loading : BOOLEAN]
Panels == {"revenue", "payments"}
Reply == [ok : BOOLEAN, order : Order \cup {NoOrder}]

ASSUME NullsAssumption == NoOrder \notin Order /\ NoReply \notin Reply

\* A request; saved is the order a cancellation shows again when it fails, and a reply
\* to a page that was left is awaited by nobody.
Idle == [kind |-> "none", id |-> NoOrder, saved |-> NoOrder, reply |-> NoReply,
         awaited |-> FALSE]
Request(kind, id, saved) ==
  [kind |-> kind, id |-> id, saved |-> saved, reply |-> NoReply, awaited |-> TRUE]

VARIABLES
  key,          \* createForm.idempotencyKey
  used,         \* the keys it has had
  createResult,
  selectedOrder,
  recentOrders, \* kept in the browser's storage
  panelLoading, \* revenueResult.loading and paymentListResult.loading
  call,
  row,          \* the status of the order of each key at the server, or "none"
  edits

store == <<key, used, createResult, selectedOrder, recentOrders, panelLoading>>
vars == <<key, used, createResult, selectedOrder, recentOrders, panelLoading, call, row, edits>>

Shown(order) == [data |-> order, loading |-> FALSE]

Init ==
  /\ key \in Keys
  /\ used = {key}
  /\ createResult = Shown(NoOrder)
  /\ selectedOrder = Shown(NoOrder)
  /\ recentOrders = << >>
  /\ panelLoading = [p \in Panels |-> FALSE]
  /\ call = [c \in Calls |-> Idle]
  /\ row = [k \in Keys |-> "none"]
  /\ edits = 0

NextIdempotencyKey ==
  \E k \in Keys \ used : key' = k /\ used' = used \cup {k}

Newest(orders) == IF Len(orders) <= MaxRecent THEN orders ELSE SubSeq(orders, 1, MaxRecent)

\* The orders of the list but the one with this id.
Without(orders, id) ==
  LET kept[n \in 0..Len(orders)] ==
        IF n = 0 THEN << >>
        ELSE IF orders[n].id = id THEN kept[n - 1] ELSE Append(kept[n - 1], orders[n])
  IN  kept[Len(orders)]

\* Mutant: the list is never cut.
MergeAll(orders, order) == <<order>> \o Without(orders, order.id)

MergeRecentOrders(orders, order) == Newest(<<order>> \o Without(orders, order.id))

Send(c, kind, id, saved) ==
  /\ call[c] = Idle
  /\ call' = [call EXCEPT ![c] = Request(kind, id, saved)]

\* The reply to a request of this kind arrives.
Arrives(c, kind, ok) ==
  /\ call[c].kind = kind /\ call[c].awaited
  /\ call[c].reply # NoReply /\ call[c].reply.ok = ok
  /\ call' = [call EXCEPT ![c] = Idle]

------------------------------------------------------------------------------
\* The form

Edit == edits < MaxEdits /\ edits' = edits + 1

ResetIdempotencyKey ==
  /\ Edit
  /\ NextIdempotencyKey
  /\ UNCHANGED <<panelLoading, createResult, selectedOrder, recentOrders, call, row>>

\* setCreateField: the user types a key that was used before.
TypeKey(k) ==
  /\ Edit
  /\ k \in used /\ k # key
  /\ key' = k
  /\ UNCHANGED <<panelLoading, used, createResult, selectedOrder, recentOrders, call, row>>

SubmitOrder(c) ==
  /\ ~createResult.loading
  /\ Send(c, "submit", key, NoOrder)
  /\ createResult' = [data |-> NoOrder, loading |-> TRUE]
  /\ UNCHANGED <<panelLoading, key, used, selectedOrder, recentOrders, row, edits>>

SubmitSucceeds(c) ==
  /\ Arrives(c, "submit", TRUE)
  /\ LET order == call[c].reply.order
     IN  /\ createResult' = Shown(order)
         /\ selectedOrder' = Shown(order)
         /\ recentOrders' = MergeRecentOrders(recentOrders, order)
  /\ NextIdempotencyKey
  /\ UNCHANGED <<panelLoading, row, edits>>

\* Mutant: the form takes a new key after a failure as well.
SubmitFailsWithNewKey(c) ==
  /\ Arrives(c, "submit", FALSE)
  /\ createResult' = Shown(call[c].reply.order)
  /\ selectedOrder' = Shown(call[c].reply.order)
  /\ NextIdempotencyKey
  /\ UNCHANGED <<panelLoading, recentOrders, row, edits>>

\* The error may carry the order, which is then Pending; the form keeps its key.
SubmitFails(c) ==
  /\ Arrives(c, "submit", FALSE)
  /\ LET pendingOrder == call[c].reply.order
     IN  /\ createResult' = Shown(pendingOrder)
         /\ selectedOrder' = Shown(pendingOrder)
         /\ recentOrders' = IF pendingOrder = NoOrder THEN recentOrders
                            ELSE MergeRecentOrders(recentOrders, pendingOrder)
  /\ UNCHANGED <<panelLoading, key, used, row, edits>>

------------------------------------------------------------------------------
\* The selected order

LoadOrder(c, id) ==
  /\ ~selectedOrder.loading
  /\ Send(c, "load", id, NoOrder)
  /\ selectedOrder' = [selectedOrder EXCEPT !.loading = TRUE]
  /\ UNCHANGED <<panelLoading, key, used, createResult, recentOrders, row, edits>>

\* No id was given.
LoadNothing ==
  /\ ~selectedOrder.loading
  /\ selectedOrder' = Shown(NoOrder)
  /\ UNCHANGED <<panelLoading, key, used, createResult, recentOrders, call, row, edits>>

LoadSucceeds(c) ==
  /\ Arrives(c, "load", TRUE)
  /\ selectedOrder' = Shown(call[c].reply.order)
  /\ recentOrders' = MergeRecentOrders(recentOrders, call[c].reply.order)
  /\ UNCHANGED <<panelLoading, key, used, createResult, row, edits>>

\* Mutant: the error is shown, and the slice goes on loading.
LoadFailsSilently(c) ==
  /\ Arrives(c, "load", FALSE)
  /\ UNCHANGED <<store, row, edits>>

LoadFails(c) ==
  /\ Arrives(c, "load", FALSE)
  /\ selectedOrder' = Shown(NoOrder)
  /\ UNCHANGED <<panelLoading, key, used, createResult, recentOrders, row, edits>>

LoadRecentOrder(i) ==
  /\ selectedOrder' = Shown(recentOrders[i])
  /\ UNCHANGED <<panelLoading, key, used, createResult, recentOrders, call, row, edits>>

CancelSelectedOrder(c) ==
  /\ selectedOrder.data # NoOrder /\ selectedOrder.data.status = "Pending"
  /\ ~selectedOrder.loading
  /\ Send(c, "cancel", selectedOrder.data.id, selectedOrder.data)
  /\ selectedOrder' = [selectedOrder EXCEPT !.loading = TRUE]
  /\ UNCHANGED <<panelLoading, key, used, createResult, recentOrders, row, edits>>

\* Mutant: the create panel is refreshed whatever it shows.
CancelRefreshes(c) ==
  /\ Arrives(c, "cancel", TRUE)
  /\ selectedOrder' = Shown(call[c].reply.order)
  /\ createResult' = Shown(call[c].reply.order)
  /\ recentOrders' = MergeRecentOrders(recentOrders, call[c].reply.order)
  /\ UNCHANGED <<panelLoading, key, used, row, edits>>

CancelSucceeds(c) ==
  /\ Arrives(c, "cancel", TRUE)
  /\ LET order == call[c].reply.order
         created == createResult.data # NoOrder /\ createResult.data.id = order.id
     IN  /\ selectedOrder' = Shown(order)
         /\ createResult' = IF created THEN Shown(order) ELSE createResult
         /\ recentOrders' = MergeRecentOrders(recentOrders, order)
  /\ UNCHANGED <<panelLoading, key, used, row, edits>>

\* Mutant: the order is shown as cancelled before the server has agreed.
CancelAssumed(c) ==
  /\ Arrives(c, "cancel", FALSE)
  /\ selectedOrder' = Shown([call[c].saved EXCEPT !.status = "Cancelled"])
  /\ UNCHANGED <<panelLoading, key, used, createResult, recentOrders, row, edits>>

CancelFails(c) ==
  /\ Arrives(c, "cancel", FALSE)
  /\ selectedOrder' = Shown(call[c].saved)
  /\ UNCHANGED <<panelLoading, key, used, createResult, recentOrders, row, edits>>

------------------------------------------------------------------------------
\* The panels beside: a result that is only shown.

\* "Load customer revenue", next to the selected order, is enabled all the time.
Enabled(panel) ==
  \/ ~panelLoading[panel]
  \/ panel = "revenue" /\ selectedOrder.data # NoOrder

LoadPanel(c, panel) ==
  /\ Enabled(panel)
  /\ Send(c, panel, NoOrder, NoOrder)
  /\ panelLoading' = [panelLoading EXCEPT ![panel] = TRUE]
  /\ UNCHANGED <<key, used, createResult, selectedOrder, recentOrders, row, edits>>

\* An answer, an error, or none at all: the panel shows it, whichever lookup it is of.
PanelAnswers(c, panel) ==
  /\ call[c].kind = panel
  /\ call' = [call EXCEPT ![c] = Idle]
  /\ panelLoading' = [panelLoading EXCEPT ![panel] = FALSE]
  /\ UNCHANGED <<key, used, createResult, selectedOrder, recentOrders, row, edits>>

\* The page is loaded again: only the recent orders survive, and requests under way
\* have nobody to answer (those that only read are forgotten).
Reload ==
  /\ Edit
  /\ NextIdempotencyKey
  /\ createResult' = Shown(NoOrder)
  /\ selectedOrder' = Shown(NoOrder)
  /\ panelLoading' = [p \in Panels |-> FALSE]
  /\ call' = [c \in Calls |-> IF call[c].reply = NoReply /\ call[c].kind \in {"submit", "cancel"}
                              THEN [call[c] EXCEPT !.awaited = FALSE] ELSE Idle]
  /\ UNCHANGED <<recentOrders, row>>

------------------------------------------------------------------------------
\* The server

Answer(c, reply) ==
  call' = [call EXCEPT ![c] = IF @.awaited THEN [@ EXCEPT !.reply = reply] ELSE Idle]

Stored(k) == [id |-> k, status |-> row[k]]
Refused == [ok |-> FALSE, order |-> NoOrder]

Asked(c, kind) == call[c].kind = kind /\ call[c].reply = NoReply

\* An order that is new or still Pending is paid for; one that stays Pending comes with
\* the error.
ServeSubmit(c) ==
  LET k == call[c].id
  IN  /\ Asked(c, "submit")
      /\ row[k] \in {"none", "Pending"}
      /\ \E status \in {"Pending", "Settled"} :
           /\ row' = [row EXCEPT ![k] = status]
           /\ Answer(c, [ok |-> status # "Pending", order |-> [id |-> k, status |-> status]])
      /\ UNCHANGED <<store, edits>>

ServeReplay(c) ==
  /\ Asked(c, "submit")
  /\ row[call[c].id] \notin {"none", "Pending"}
  /\ Answer(c, [ok |-> TRUE, order |-> Stored(call[c].id)])
  /\ UNCHANGED <<store, row, edits>>

ServeLoad(c) ==
  /\ Asked(c, "load")
  /\ row[call[c].id] # "none"
  /\ Answer(c, [ok |-> TRUE, order |-> Stored(call[c].id)])
  /\ UNCHANGED <<store, row, edits>>

ServeCancel(c) ==
  LET k == call[c].id
  IN  /\ Asked(c, "cancel")
      /\ row[k] = "Pending"
      /\ row' = [row EXCEPT ![k] = "Cancelled"]
      /\ Answer(c, [ok |-> TRUE, order |-> [id |-> k, status |-> "Cancelled"]])
      /\ UNCHANGED <<store, edits>>

\* The request is refused, or it fails or is lost before it does anything.
Refuse(c) ==
  /\ call[c] # Idle /\ call[c].reply = NoReply /\ call[c].kind \notin Panels
  /\ Answer(c, Refused)
  /\ UNCHANGED <<store, row, edits>>

\* What the server did stands, but its answer is an error without an order, or lost.
AnswerLost(c) ==
  /\ call[c].reply \notin {NoReply, Refused}
  /\ Answer(c, Refused)
  /\ UNCHANGED <<store, row, edits>>

------------------------------------------------------------------------------
Submission(c) == SubmitOrder(c) \/ SubmitSucceeds(c) \/ SubmitFails(c)
Loading(c) == (\E k \in used : LoadOrder(c, k)) \/ LoadSucceeds(c) \/ LoadFails(c)
Cancellation(c) == CancelSelectedOrder(c) \/ CancelSucceeds(c) \/ CancelFails(c)
PanelStep(c) == \E panel \in Panels : LoadPanel(c, panel) \/ PanelAnswers(c, panel)
Serve(c) ==
  \/ ServeSubmit(c) \/ ServeReplay(c) \/ ServeLoad(c) \/ ServeCancel(c)
  \/ Refuse(c) \/ AnswerLost(c)

Next ==
  \/ ResetIdempotencyKey \/ \E k \in Keys : TypeKey(k)
  \/ LoadNothing \/ \E i \in 1..Len(recentOrders) : LoadRecentOrder(i)
  \/ Reload
  \/ \E c \in Calls : Submission(c) \/ Loading(c) \/ Cancellation(c) \/ PanelStep(c) \/ Serve(c)

Spec == Init /\ [][Next]_vars

------------------------------------------------------------------------------
\* Every variable has its type.
TypeOK ==
  /\ key \in used /\ used \subseteq Keys
  /\ createResult \in Slice /\ selectedOrder \in Slice
  /\ recentOrders \in Seq(Order) /\ Len(recentOrders) <= MaxRecent
  /\ panelLoading \in [Panels -> BOOLEAN]
  /\ call \in [Calls -> {Idle} \cup {Request(p, NoOrder, NoOrder) : p \in Panels} \cup
                 [kind : {"submit", "load", "cancel"}, id : Keys,
                  saved : Order \cup {NoOrder}, reply : Reply \cup {NoReply},
                  awaited : BOOLEAN]]
  /\ row \in [Keys -> Statuses \cup {"none"}]
  /\ edits \in 0..MaxEdits

\* The requests of these kinds the page waits for.
Awaited(kinds) == {c \in Calls : call[c].kind \in kinds /\ call[c].awaited}

\* The button of the create form is disabled exactly while a submission is under way,
\* whatever answers arrive meanwhile, so a key is never submitted twice at once.
OneSubmission == Cardinality(Awaited({"submit"})) = (IF createResult.loading THEN 1 ELSE 0)

\* No panel is ever stuck: while it is loading, an answer is to come; and two payment
\* listings are never under way at once.
LoadingIsBacked ==
  /\ selectedOrder.loading => Awaited({"load", "cancel"}) # {}
  /\ \A panel \in Panels : panelLoading[panel] => Awaited({panel}) # {}
  /\ Cardinality(Awaited({"payments"})) <= 1

\* Through late, lost and overtaken answers, an outcome that any panel shows is the one
\* that is stored; only an order shown as Pending may have gone on (that the server may
\* overwrite an outcome itself is the subject of Orders).
ShownOrders ==
  {createResult.data, selectedOrder.data} \cup {recentOrders[i] : i \in 1..Len(recentOrders)}
OutcomesAreStored ==
  \A o \in ShownOrders \ {NoOrder} :
    row[o.id] # "none" /\ (o.status # "Pending" => row[o.id] = o.status)

\* "The order is stored as Pending and can be retried with the same idempotency key"
\* (useOrderStore.ts): the form lets go of an unsettled order only when the user changes
\* the key or leaves the page.
Abandoned == {k \in Keys : row[k] = "Pending" /\ k # key}
PendingIsKept == Cardinality(Abandoned) <= edits
==============================================================================
