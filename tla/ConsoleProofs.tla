---------------------------- MODULE ConsoleProofs ----------------------------
(***************************************************************************)
(* Proofs about Console, for any number of keys, requests under way and    *)
(* edits: the create form is never submitted twice at once, no panel is    *)
(* left loading, the form keeps the key of a Pending order, and what the   *)
(* page shows is stored, in a list that shows no order twice.              *)
(***************************************************************************)
EXTENDS Console, DataLemmas, SequenceTheorems, TLAPS

\* Requests as records, and as a function on Calls.
Shaped(x) ==
  /\ x = [kind |-> x.kind, id |-> x.id, saved |-> x.saved, reply |-> x.reply,
          awaited |-> x.awaited]
  /\ x.awaited \in BOOLEAN
Slicelike(s) == s = [data |-> s.data, loading |-> s.loading] /\ s.loading \in BOOLEAN

Shape ==
  /\ call = [c \in Calls |-> call[c]]
  /\ \A c \in Calls : Shaped(call[c])
  /\ Slicelike(createResult) /\ Slicelike(selectedOrder)
  /\ panelLoading \in [Panels -> BOOLEAN]
  /\ key \in used /\ used \subseteq Keys
  /\ row \in [Keys -> Statuses \cup {"none"}]
  /\ edits \in Nat

\* What the store knows of a request under way.
CallKept(x, u, r) ==
  /\ x.kind = "none" => x = Idle
  /\ x.kind \in Panels \/ x.reply # NoReply => x.awaited
  /\ x.kind = "submit" => x.id \in u
  /\ x.kind = "submit" /\ x.reply # NoReply /\ x.reply.ok => r[x.id] \notin {"none", "Pending"}
CallsKept == \A c \in Calls : CallKept(call[c], used, row)
RowsUsed == \A k \in Keys : row[k] # "none" => k \in used

\* A server step never takes an outcome back.
Settles(r, s) == \A k \in Keys : r[k] \notin {"none", "Pending"} => s[k] = r[k]

LEMMA RequestShaped ==
  ASSUME NEW kind, NEW id, NEW saved
  PROVE  /\ Shaped(Request(kind, id, saved)) /\ Request(kind, id, saved).kind = kind
         /\ Request(kind, id, saved).id = id /\ Request(kind, id, saved).awaited
         /\ Request(kind, id, saved).reply = NoReply
  BY DEF Shaped, Request

LEMMA IdleShaped ==
  Shaped(Idle) /\ Idle.kind = "none" /\ Idle.awaited = FALSE /\ Idle.reply = NoReply
  BY DEF Shaped, Idle

LEMMA AnsweredShaped ==
  ASSUME NEW x, Shaped(x), NEW reply
  PROVE  LET y == [x EXCEPT !.reply = reply]
         IN  /\ Shaped(y) /\ y.kind = x.kind /\ y.id = x.id /\ y.awaited = x.awaited
             /\ y.saved = x.saved /\ y.reply = reply
  BY DEF Shaped

LEMMA LeftShaped ==
  ASSUME NEW x, Shaped(x)
  PROVE  LET y == [x EXCEPT !.awaited = FALSE]
         IN  /\ Shaped(y) /\ y.kind = x.kind /\ y.id = x.id /\ y.awaited = FALSE
             /\ y.saved = x.saved /\ y.reply = x.reply
<1>1. ASSUME NEW k, NEW i, NEW s, NEW r, NEW a,
             x = [kind |-> k, id |-> i, saved |-> s, reply |-> r, awaited |-> a]
      PROVE  [x EXCEPT !.awaited = FALSE]
               = [kind |-> k, id |-> i, saved |-> s, reply |-> r, awaited |-> FALSE]
  <2>1. \A b : [x EXCEPT !.awaited = b]
                = [kind |-> k, id |-> i, saved |-> s, reply |-> r, awaited |-> b]
    BY <1>1, SMT
  <2> QED BY <2>1, Zenon
<1>2. PICK k, i, s, r, a :
        /\ x = [kind |-> k, id |-> i, saved |-> s, reply |-> r, awaited |-> a]
        /\ x.kind = k /\ x.id = i /\ x.saved = s /\ x.reply = r
  BY DEF Shaped
<1>3. [x EXCEPT !.awaited = FALSE]
        = [kind |-> k, id |-> i, saved |-> s, reply |-> r, awaited |-> FALSE]
  BY <1>1, <1>2
<1> QED BY <1>2, <1>3 DEF Shaped

LEMMA LoadingShaped ==
  ASSUME NEW s, Slicelike(s)
  PROVE  LET t == [s EXCEPT !.loading = TRUE]
         IN  Slicelike(t) /\ t.data = s.data /\ t.loading
<1>0. \A d, l, m : [[data |-> d, loading |-> l] EXCEPT !.loading = m]
                     = [data |-> d, loading |-> m]
  OBVIOUS
<1>1. ASSUME NEW d, NEW l, s = [data |-> d, loading |-> l]
      PROVE  [s EXCEPT !.loading = TRUE] = [data |-> d, loading |-> TRUE]
  BY <1>0, <1>1, Zenon
<1>2. [s EXCEPT !.loading = TRUE] = [data |-> s.data, loading |-> TRUE]
  BY <1>1, Zenon DEF Slicelike
<1> QED BY <1>2 DEF Slicelike

LEMMA ShownShaped ==
  ASSUME NEW o
  PROVE  Slicelike(Shown(o)) /\ Shown(o).data = o /\ Shown(o).loading = FALSE
  BY DEF Slicelike, Shown

LEMMA AnswerIs ==
  ASSUME NEW c \in Calls, Shaped(call[c]), NEW reply, Answer(c, reply)
  PROVE  \E x : /\ Shaped(x) /\ call' = [call EXCEPT ![c] = x]
                /\ \/ call[c].awaited = FALSE /\ x = Idle
                   \/ /\ call[c].awaited = TRUE /\ x.awaited = TRUE /\ x.kind = call[c].kind
                      /\ x.id = call[c].id /\ x.saved = call[c].saved /\ x.reply = reply
<1>1. CASE call[c].awaited = TRUE
  <2>1. call' = [call EXCEPT ![c] = [call[c] EXCEPT !.reply = reply]]
    BY <1>1 DEF Answer
  <2>2. PICK x : x = [call[c] EXCEPT !.reply = reply]
    OBVIOUS
  <2>3. /\ Shaped(x) /\ x.kind = call[c].kind /\ x.id = call[c].id
        /\ x.awaited = call[c].awaited /\ x.saved = call[c].saved /\ x.reply = reply
    BY <2>2, AnsweredShaped
  <2> QED BY <1>1, <2>1, <2>2, <2>3
<1>2. CASE call[c].awaited = FALSE
  <2>1. call' = [call EXCEPT ![c] = Idle]
    BY <1>2 DEF Answer
  <2> QED BY <1>2, <2>1, IdleShaped
<1> QED BY <1>1, <1>2 DEF Shaped

Base == Shape /\ CallsKept /\ RowsUsed
BaseKept == Base' /\ used \subseteq used' /\ Settles(row, row')

\* The parts of the state that a step leaves in shape.
StoreShape ==
  /\ Slicelike(createResult) /\ Slicelike(selectedOrder)
  /\ panelLoading \in [Panels -> BOOLEAN]
  /\ key \in used /\ used \subseteq Keys
  /\ edits \in Nat

LEMMA OneCall ==
  ASSUME Base, StoreShape', used \subseteq used', Settles(row, row'),
         row' \in [Keys -> Statuses \cup {"none"}], RowsUsed',
         NEW c \in Calls, NEW x, Shaped(x), CallKept(x, used', row'),
         call' = [call EXCEPT ![c] = x]
  PROVE  BaseKept
<1>1. /\ call = [d \in Calls |-> call[d]] /\ \A d \in Calls : Shaped(call[d])
      /\ used \subseteq Keys
  BY DEF Base, Shape
<1>2. /\ call' = [d \in Calls |-> call'[d]]
      /\ call'[c] = x /\ \A d \in Calls \ {c} : call'[d] = call[d]
  BY <1>1
<1>3. \A d \in Calls : Shaped(call'[d])
  BY <1>1, <1>2
<1>4. ASSUME NEW d \in Calls PROVE CallKept(call'[d], used', row')
  <2>1. CASE d = c
    BY <1>2, <2>1
  <2>2. CASE d # c
    <3>1. CallKept(call[d], used, row) /\ call'[d] = call[d]
      BY <1>2, <2>2 DEF Base, CallsKept
    <3>2. PICK y : y = call[d]
      OBVIOUS
    <3>3. CallKept(y, used, row)
      BY <3>1, <3>2
    <3>4. CallKept(y, used', row')
      BY <1>1, <3>3 DEF CallKept, Settles
    <3> QED BY <3>1, <3>2, <3>4
  <2> QED BY <2>1, <2>2
<1>5. Shape'
  BY <1>2, <1>3 DEF Shape, StoreShape
<1> QED BY <1>4, <1>5 DEF BaseKept, Base, CallsKept

LEMMA SameCalls ==
  ASSUME Base, StoreShape', used \subseteq used', UNCHANGED <<call, row>>
  PROVE  BaseKept
<1>1. Shape' /\ RowsUsed' /\ Settles(row, row')
  BY DEF Base, Shape, StoreShape, RowsUsed, Settles
<1>2. CallsKept'
  BY DEF Base, CallsKept, CallKept
<1> QED BY <1>1, <1>2 DEF BaseKept, Base

\* A request is sent.
LEMMA Sends ==
  ASSUME Base, StoreShape', UNCHANGED <<used, row>>, NEW c \in Calls, NEW kind, NEW id,
         NEW saved, Send(c, kind, id, saved), kind # "none", kind = "submit" => id \in used
  PROVE  BaseKept
<1>1. PICK x : x = Request(kind, id, saved)
  OBVIOUS
<1>2. Shaped(x) /\ CallKept(x, used', row') /\ call' = [call EXCEPT ![c] = x]
  BY <1>1, RequestShaped DEF CallKept, Send
<1>3. row' \in [Keys -> Statuses \cup {"none"}] /\ RowsUsed' /\ Settles(row, row')
  BY DEF Base, Shape, RowsUsed, Settles
<1> QED BY <1>2, <1>3, OneCall

\* A request ends.
LEMMA Ends ==
  ASSUME Base, StoreShape', used \subseteq used', row' = row, NEW c \in Calls,
         call' = [call EXCEPT ![c] = Idle]
  PROVE  BaseKept
<1>1. Shaped(Idle) /\ CallKept(Idle, used', row')
  BY IdleShaped DEF CallKept, Panels
<1>2. row' \in [Keys -> Statuses \cup {"none"}] /\ RowsUsed' /\ Settles(row, row')
  BY DEF Base, Shape, RowsUsed, Settles
<1> QED BY <1>1, <1>2, OneCall

\* A request is answered.
LEMMA Answers ==
  ASSUME Base, StoreShape', used' = used, Settles(row, row'),
         row' \in [Keys -> Statuses \cup {"none"}], RowsUsed',
         NEW c \in Calls, call[c].kind # "none", NEW reply, Answer(c, reply),
         call[c].kind = "submit" /\ reply # NoReply /\ reply.ok
           => row'[call[c].id] \notin {"none", "Pending"}
  PROVE  BaseKept
<1>1. Shaped(call[c]) /\ CallKept(call[c], used, row)
  BY DEF Base, Shape, CallsKept
<1>2. PICK x : /\ Shaped(x) /\ call' = [call EXCEPT ![c] = x]
               /\ \/ call[c].awaited = FALSE /\ x = Idle
                  \/ /\ call[c].awaited = TRUE /\ x.awaited = TRUE /\ x.kind = call[c].kind
                     /\ x.id = call[c].id /\ x.saved = call[c].saved /\ x.reply = reply
  BY <1>1, AnswerIs
<1>3. CallKept(x, used', row')
  BY <1>1, <1>2, IdleShaped DEF CallKept, Panels
<1> QED BY <1>2, <1>3, OneCall

LEMMA StoreShapeOf == ASSUME Base PROVE StoreShape
  BY DEF Base, Shape, StoreShape

LEMMA EditBase ==
  ASSUME Base, ResetIdempotencyKey \/ \E k \in Keys : TypeKey(k)
  PROVE  BaseKept
<1>1. StoreShape' /\ used \subseteq used'
  BY StoreShapeOf DEF StoreShape, ResetIdempotencyKey, TypeKey, Edit, NextIdempotencyKey
<1> QED BY <1>1, SameCalls DEF ResetIdempotencyKey, TypeKey

LEMMA SubmissionBase ==
  ASSUME Base, NEW c \in Calls, Submission(c)
  PROVE  BaseKept
<1> USE StoreShapeOf
<1>1. CASE SubmitOrder(c)
  <2>1. Slicelike(createResult')
    BY <1>1 DEF SubmitOrder, Slicelike
  <2>2. StoreShape' /\ key \in used
    BY <1>1, <2>1 DEF StoreShape, SubmitOrder
  <2> QED BY <1>1, <2>2, Sends DEF SubmitOrder
<1>2. CASE SubmitSucceeds(c)
  <2>1. StoreShape' /\ used \subseteq used'
    BY <1>2, ShownShaped DEF StoreShape, SubmitSucceeds, NextIdempotencyKey
  <2> QED BY <1>2, <2>1, Ends DEF SubmitSucceeds, Arrives
<1>3. CASE SubmitFails(c)
  <2>1. StoreShape' /\ used \subseteq used'
    BY <1>3, ShownShaped DEF StoreShape, SubmitFails
  <2> QED BY <1>3, <2>1, Ends DEF SubmitFails, Arrives
<1> QED BY <1>1, <1>2, <1>3 DEF Submission

LEMMA LoadingBase ==
  ASSUME Base, NEW c \in Calls, Loading(c)
  PROVE  BaseKept
<1> USE StoreShapeOf
<1>1. ASSUME NEW k \in used, LoadOrder(c, k) PROVE BaseKept
  <2>1. StoreShape'
    BY <1>1, LoadingShaped DEF StoreShape, LoadOrder
  <2> QED BY <1>1, <2>1, Sends DEF LoadOrder
<1>2. CASE LoadSucceeds(c) \/ LoadFails(c)
  <2>1. StoreShape' /\ used \subseteq used'
    BY <1>2, ShownShaped DEF StoreShape, LoadSucceeds, LoadFails
  <2> QED BY <1>2, <2>1, Ends DEF LoadSucceeds, LoadFails, Arrives
<1> QED BY <1>1, <1>2 DEF Loading

LEMMA CancellationBase ==
  ASSUME Base, NEW c \in Calls, Cancellation(c)
  PROVE  BaseKept
<1> USE StoreShapeOf
<1>1. CASE CancelSelectedOrder(c)
  <2>1. StoreShape'
    BY <1>1, LoadingShaped DEF StoreShape, CancelSelectedOrder
  <2> QED BY <1>1, <2>1, Sends DEF CancelSelectedOrder
<1>2. CASE CancelSucceeds(c) \/ CancelFails(c)
  <2>1. StoreShape' /\ used \subseteq used'
    BY <1>2, ShownShaped DEF StoreShape, CancelSucceeds, CancelFails
  <2> QED BY <1>2, <2>1, Ends DEF CancelSucceeds, CancelFails, Arrives
<1> QED BY <1>1, <1>2 DEF Cancellation

LEMMA PanelBase ==
  ASSUME Base, NEW c \in Calls, PanelStep(c)
  PROVE  BaseKept
<1> USE StoreShapeOf
<1>1. ASSUME NEW panel \in Panels, LoadPanel(c, panel) PROVE BaseKept
  <2>1. StoreShape' /\ panel \notin {"none", "submit"}
    BY <1>1 DEF StoreShape, LoadPanel, Panels
  <2> QED BY <1>1, <2>1, Sends DEF LoadPanel
<1>2. ASSUME NEW panel \in Panels, PanelAnswers(c, panel) PROVE BaseKept
  <2>1. StoreShape'
    BY <1>2 DEF StoreShape, PanelAnswers
  <2> QED BY <1>2, <2>1, Ends DEF PanelAnswers
<1> QED BY <1>1, <1>2 DEF PanelStep

LEMMA RowSet ==
  ASSUME Base, NEW k \in Keys, row[k] \in {"none", "Pending"}, NEW status \in Statuses,
         row' = [row EXCEPT ![k] = status], k \in used, used' = used
  PROVE  /\ row' \in [Keys -> Statuses \cup {"none"}] /\ RowsUsed' /\ Settles(row, row')
         /\ row'[k] = status
<1>1. row \in [Keys -> Statuses \cup {"none"}]
  BY DEF Base, Shape
<1> QED BY <1>1 DEF Base, RowsUsed, Settles

LEMMA ServeBase ==
  ASSUME Base, NEW c \in Calls, Serve(c)
  PROVE  BaseKept
<1> USE StoreShapeOf
<1>0. Shaped(call[c]) /\ CallKept(call[c], used, row) /\ used \subseteq Keys
      /\ row \in [Keys -> Statuses \cup {"none"}]
  BY DEF Base, Shape, CallsKept
<1>s. ASSUME UNCHANGED <<store, edits>> PROVE StoreShape' /\ used' = used
  BY <1>s DEF store, StoreShape
<1>r. ASSUME UNCHANGED <<row, used>> PROVE Settles(row, row') /\ RowsUsed'
  BY <1>r DEF Settles, Base, RowsUsed
<1>n. Idle.kind = "none"
  BY IdleShaped
<1>1. CASE ServeSubmit(c)
  <2>0. PICK status \in {"Pending", "Settled"} :
          /\ row' = [row EXCEPT ![call[c].id] = status]
          /\ Answer(c, [ok |-> status # "Pending",
                        order |-> [id |-> call[c].id, status |-> status]])
    BY <1>1 DEF ServeSubmit
  <2>1. PICK reply :
          /\ reply = [ok |-> status # "Pending",
                      order |-> [id |-> call[c].id, status |-> status]]
          /\ Answer(c, reply)
    BY <2>0
  <2>2. call[c].kind = "submit" /\ row[call[c].id] \in {"none", "Pending"}
        /\ StoreShape' /\ used' = used
    BY <1>1, <1>s DEF ServeSubmit, Asked
  <2>3. call[c].id \in used
    BY <1>0, <2>2 DEF CallKept
  <2>4. /\ row' \in [Keys -> Statuses \cup {"none"}] /\ RowsUsed' /\ Settles(row, row')
        /\ row'[call[c].id] = status
    BY <1>0, <2>0, <2>2, <2>3, RowSet DEF Statuses
  <2>5. reply.ok => status # "Pending"
    BY <2>1
  <2>6. call[c].kind = "submit" /\ reply # NoReply /\ reply.ok
           => row'[call[c].id] \notin {"none", "Pending"}
    BY <2>1, <2>4, <2>5
  <2> QED BY <2>1, <2>2, <2>4, <2>6, Answers
<1>2. CASE ServeReplay(c)
  <2>1. PICK reply : Answer(c, reply)
    BY <1>2 DEF ServeReplay
  <2> QED BY <1>0, <1>2, <1>s, <1>r, <2>1, Answers DEF ServeReplay, Asked
<1>3. CASE ServeLoad(c)
  <2>1. PICK reply : Answer(c, reply)
    BY <1>3 DEF ServeLoad
  <2> QED BY <1>0, <1>3, <1>s, <1>r, <2>1, Answers DEF ServeLoad, Asked
<1>4. CASE ServeCancel(c)
  <2>1. PICK reply : Answer(c, reply)
    BY <1>4 DEF ServeCancel
  <2>2. call[c].kind = "cancel" /\ row[call[c].id] = "Pending" /\ StoreShape' /\ used' = used
        /\ row' = [row EXCEPT ![call[c].id] = "Cancelled"]
    BY <1>4, <1>s DEF ServeCancel, Asked
  <2>3. CASE call[c].id \in Keys
    <3>1. call[c].id \in used
      BY <2>2, <2>3 DEF Base, RowsUsed
    <3>2. row' \in [Keys -> Statuses \cup {"none"}] /\ RowsUsed' /\ Settles(row, row')
      BY <2>2, <2>3, <3>1, RowSet DEF Statuses
    <3> QED BY <2>1, <2>2, <3>2, Answers
  <2>4. CASE call[c].id \notin Keys
    <3>1. row' = row
      BY <1>0, <2>2, <2>4
    <3> QED BY <1>0, <1>r, <2>1, <2>2, <3>1, Answers
  <2> QED BY <2>3, <2>4
<1>5. CASE Refuse(c) \/ AnswerLost(c)
  <2>1. Answer(c, Refused) /\ row' = row /\ StoreShape' /\ used' = used
    BY <1>5, <1>s DEF Refuse, AnswerLost
  <2>2. call[c].kind # "none"
    BY <1>0, <1>5, IdleShaped DEF Refuse, AnswerLost, CallKept
  <2>3. Refused.ok = FALSE
    BY DEF Refused
  <2> QED BY <1>0, <1>r, <2>1, <2>2, <2>3, Answers
<1> QED BY <1>1, <1>2, <1>3, <1>4, <1>5 DEF Serve

LEMMA ReloadBase ==
  ASSUME Base, Reload
  PROVE  BaseKept
<1>0. /\ Slicelike(createResult') /\ Slicelike(selectedOrder')
      /\ panelLoading' \in [Panels -> BOOLEAN]
  BY ShownShaped DEF Reload
<1>1. StoreShape' /\ used \subseteq used' /\ row' = row
  BY <1>0, StoreShapeOf DEF StoreShape, Reload, Edit, NextIdempotencyKey
<1>2. ASSUME NEW c \in Calls PROVE Shaped(call'[c]) /\ CallKept(call'[c], used', row')
  <2>0. Shaped(call[c]) /\ CallKept(call[c], used, row)
    BY DEF Base, Shape, CallsKept
  <2>1. CASE call[c].reply = NoReply /\ call[c].kind \in {"submit", "cancel"}
    <3>1. PICK x : x = [call[c] EXCEPT !.awaited = FALSE]
      OBVIOUS
    <3>2. Shaped(x) /\ x.kind = call[c].kind /\ x.id = call[c].id /\ x.reply = call[c].reply
      BY <2>0, <3>1, LeftShaped
    <3>3. call'[c] = x
      BY <2>1, <3>1 DEF Reload
    <3> QED BY <1>1, <2>0, <2>1, <3>2, <3>3 DEF CallKept, Panels
  <2>2. CASE ~(call[c].reply = NoReply /\ call[c].kind \in {"submit", "cancel"})
    <3>1. call'[c] = Idle
      BY <2>2 DEF Reload
    <3> QED BY <3>1, IdleShaped DEF CallKept, Panels
  <2> QED BY <2>1, <2>2
<1>3. call' = [c \in Calls |-> call'[c]]
  BY DEF Reload
<1>4. Shape' /\ RowsUsed' /\ Settles(row, row')
  BY <1>1, <1>2, <1>3 DEF Base, Shape, StoreShape, RowsUsed, Settles
<1> QED BY <1>1, <1>2, <1>4 DEF BaseKept, Base, CallsKept

LEMMA BaseStep ==
  ASSUME Base, [Next]_vars
  PROVE  BaseKept
<1>1. CASE LoadNothing \/ \E i \in 1..Len(recentOrders) : LoadRecentOrder(i)
  <2>1. StoreShape' /\ used \subseteq used'
    BY <1>1, StoreShapeOf, ShownShaped DEF StoreShape, LoadNothing, LoadRecentOrder
  <2> QED BY <1>1, <2>1, SameCalls DEF LoadNothing, LoadRecentOrder
<1>2. CASE UNCHANGED vars
  <2>1. StoreShape' /\ used \subseteq used'
    BY <1>2, StoreShapeOf DEF StoreShape, vars
  <2> QED BY <1>2, <2>1, SameCalls DEF vars
<1> QED
  BY <1>1, <1>2, EditBase, ReloadBase, SubmissionBase, LoadingBase, CancellationBase,
     PanelBase, ServeBase DEF Next

------------------------------------------------------------------------------
(***************************************************************************)
(* The buttons and the requests the page waits for.                        *)
(***************************************************************************)
\* What the page waits for, if for anything, in each request.
WaitsIn(x) == IF x.awaited THEN x.kind ELSE "none"
Waiting == [c \in Calls |-> WaitsIn(call[c])]

FormWaits ==
  /\ createResult.loading => createResult.data = NoOrder
  /\ createResult.loading <=> \E c \in Calls : Waiting[c] = "submit"
  /\ \A c, d \in Calls : Waiting[c] = "submit" /\ Waiting[d] = "submit" => c = d
OrderWaits == selectedOrder.loading => \E c \in Calls : Waiting[c] \in {"load", "cancel"}
PanelsWait ==
  /\ \A panel \in Panels : panelLoading[panel] => \E c \in Calls : Waiting[c] = panel
  /\ \A c, d \in Calls : Waiting[c] = "payments" /\ Waiting[d] = "payments" => c = d
  /\ \A c \in Calls : Waiting[c] = "payments" => panelLoading["payments"]
Waits == FormWaits /\ OrderWaits /\ PanelsWait

LEMMA WaitingSet ==
  ASSUME Base, NEW c \in Calls, NEW x, call' = [call EXCEPT ![c] = x]
  PROVE  Waiting' = [Waiting EXCEPT ![c] = WaitsIn(x)]
<1>1. call = [d \in Calls |-> call[d]]
  BY DEF Base, Shape
<1>2. call'[c] = x /\ \A d \in Calls \ {c} : call'[d] = call[d]
  BY <1>1
<1>3. \A d \in Calls : WaitsIn(call'[d]) = IF d = c THEN WaitsIn(x) ELSE WaitsIn(call[d])
  BY <1>2
<1> QED BY <1>3 DEF Waiting

LEMMA SendWaits ==
  ASSUME Base, NEW c \in Calls, NEW kind, NEW id, NEW saved, Send(c, kind, id, saved)
  PROVE  Waiting[c] = "none" /\ Waiting' = [Waiting EXCEPT ![c] = kind]
<1>1. PICK x : x = Request(kind, id, saved)
  OBVIOUS
<1>2. call' = [call EXCEPT ![c] = x] /\ x.awaited /\ x.kind = kind
  BY <1>1, RequestShaped DEF Send
<1>3. Waiting' = [Waiting EXCEPT ![c] = kind]
  BY <1>2, WaitingSet DEF WaitsIn
<1> QED BY <1>3, IdleShaped DEF Send, Waiting, WaitsIn

LEMMA EndWaits ==
  ASSUME Base, NEW c \in Calls, call' = [call EXCEPT ![c] = Idle]
  PROVE  Waiting' = [Waiting EXCEPT ![c] = "none"]
  BY WaitingSet, IdleShaped DEF WaitsIn

LEMMA ArriveWaits ==
  ASSUME Base, NEW c \in Calls, NEW kind, NEW ok, Arrives(c, kind, ok)
  PROVE  Waiting[c] = kind /\ Waiting' = [Waiting EXCEPT ![c] = "none"]
  BY EndWaits DEF Arrives, Waiting, WaitsIn

LEMMA AnswerWaits ==
  ASSUME Base, NEW c \in Calls, NEW reply, Answer(c, reply)
  PROVE  Waiting' = Waiting
<1>1. Shaped(call[c])
  BY DEF Base, Shape
<1>2. PICK x : /\ Shaped(x) /\ call' = [call EXCEPT ![c] = x]
               /\ \/ call[c].awaited = FALSE /\ x = Idle
                  \/ /\ call[c].awaited = TRUE /\ x.awaited = TRUE /\ x.kind = call[c].kind
                     /\ x.id = call[c].id /\ x.saved = call[c].saved /\ x.reply = reply
  BY <1>1, AnswerIs
<1>3. Waiting' = [Waiting EXCEPT ![c] = WaitsIn(x)]
  BY <1>2, WaitingSet
<1>4. Waiting[c] = WaitsIn(x)
  BY <1>2, IdleShaped DEF Waiting, WaitsIn
<1> QED BY <1>3, <1>4 DEF Waiting

LEMMA ReloadWaits ==
  ASSUME Base, Reload, NEW c \in Calls
  PROVE  Waiting'[c] = "none"
<1>1. Shaped(call[c])
  BY DEF Base, Shape
<1>2. CASE call[c].reply = NoReply /\ call[c].kind \in {"submit", "cancel"}
  <2>1. PICK x : x = [call[c] EXCEPT !.awaited = FALSE]
    OBVIOUS
  <2>2. x.awaited = FALSE /\ call'[c] = x
    BY <1>1, <1>2, <2>1, LeftShaped DEF Reload
  <2> QED BY <2>2 DEF Waiting, WaitsIn
<1>3. CASE ~(call[c].reply = NoReply /\ call[c].kind \in {"submit", "cancel"})
  <2>1. call'[c] = Idle
    BY <1>3 DEF Reload
  <2> QED BY <2>1, IdleShaped DEF Waiting, WaitsIn
<1> QED BY <1>2, <1>3

LEMMA ServeWaits ==
  ASSUME Base, NEW c \in Calls, Serve(c)
  PROVE  UNCHANGED <<Waiting, createResult, selectedOrder, panelLoading>>
<1>1. \E reply : Answer(c, reply)
  BY DEF Serve, ServeSubmit, ServeReplay, ServeLoad, ServeCancel, Refuse, AnswerLost
<1>2. UNCHANGED store
  BY DEF Serve, ServeSubmit, ServeReplay, ServeLoad, ServeCancel, Refuse, AnswerLost
<1> QED BY <1>1, <1>2, AnswerWaits DEF store

LEMMA WaitsInit == Init => Waits
  BY IdleShaped, ShownShaped DEF Init, Waits, FormWaits, OrderWaits, PanelsWait, Waiting, WaitsIn

LEMMA WaitsStep ==
  ASSUME Base, Waits, [Next]_vars
  PROVE  Waits'
<1> USE DEF Waits, FormWaits, OrderWaits, PanelsWait
<1>w. Waiting = [c \in Calls |-> Waiting[c]] /\ panelLoading \in [Panels -> BOOLEAN]
      /\ Slicelike(createResult) /\ Slicelike(selectedOrder)
  BY DEF Waiting, Base, Shape
<1>u. ASSUME UNCHANGED <<Waiting, createResult, selectedOrder, panelLoading>> PROVE Waits'
  BY <1>u
<1>c. ASSUME call' = call PROVE Waiting' = Waiting
  BY <1>c DEF Waiting
<1>1. CASE ResetIdempotencyKey \/ \E k \in Keys : TypeKey(k)
  BY <1>1, <1>u, <1>c DEF ResetIdempotencyKey, TypeKey
<1>2. CASE LoadNothing \/ \E i \in 1..Len(recentOrders) : LoadRecentOrder(i)
  <2>1. \E o : selectedOrder' = Shown(o)
    BY <1>2 DEF LoadNothing, LoadRecentOrder
  <2>2. selectedOrder'.loading = FALSE
    BY <2>1 DEF Shown
  <2>3. UNCHANGED <<createResult, panelLoading>> /\ Waiting' = Waiting
    BY <1>2, <1>c DEF LoadNothing, LoadRecentOrder
  <2> QED BY <2>2, <2>3
<1>3. CASE Reload
  BY <1>3, ReloadWaits, ShownShaped DEF Reload
<1>4. ASSUME NEW c \in Calls, SubmitOrder(c) PROVE Waits'
  <2>1. Waiting[c] = "none" /\ Waiting' = [Waiting EXCEPT ![c] = "submit"]
    BY <1>4, SendWaits DEF SubmitOrder
  <2>2. createResult.loading = FALSE /\ createResult'.data = NoOrder /\ createResult'.loading
        /\ UNCHANGED <<selectedOrder, panelLoading>>
    BY <1>4, <1>w DEF SubmitOrder, Slicelike
  <2>3. Waiting'[c] = "submit" /\ \A d \in Calls \ {c} : Waiting'[d] = Waiting[d]
    BY <1>w, <2>1
  <2>4. FormWaits'
    BY <2>2, <2>3
  <2>5. OrderWaits' /\ PanelsWait'
    BY <2>1, <2>2, <2>3 DEF Panels
  <2> QED BY <2>4, <2>5
<1>5. ASSUME NEW c \in Calls, SubmitSucceeds(c) \/ SubmitFails(c) PROVE Waits'
  <2>1. Waiting[c] = "submit" /\ Waiting' = [Waiting EXCEPT ![c] = "none"]
    BY <1>5, ArriveWaits DEF SubmitSucceeds, SubmitFails
  <2>2. createResult'.loading = FALSE /\ selectedOrder'.loading = FALSE
        /\ panelLoading' = panelLoading
    <3>1. (\E o : createResult' = Shown(o) /\ selectedOrder' = Shown(o))
          /\ panelLoading' = panelLoading
      BY <1>5 DEF SubmitSucceeds, SubmitFails
    <3> QED BY <3>1 DEF Shown
  <2>3. Waiting'[c] = "none" /\ \A d \in Calls \ {c} : Waiting'[d] = Waiting[d]
    BY <1>w, <2>1
  <2>4. FormWaits' /\ OrderWaits'
    BY <2>1, <2>2, <2>3
  <2>5. PanelsWait'
    BY <2>1, <2>2, <2>3 DEF Panels
  <2> QED BY <2>4, <2>5
<1>6. ASSUME NEW c \in Calls, (\E k \in used : LoadOrder(c, k)) \/ CancelSelectedOrder(c)
      PROVE  Waits'
  <2>1. \E kind \in {"load", "cancel"} :
          Waiting[c] = "none" /\ Waiting' = [Waiting EXCEPT ![c] = kind]
    BY <1>6, SendWaits DEF LoadOrder, CancelSelectedOrder
  <2>2. UNCHANGED <<createResult, panelLoading>>
    BY <1>6 DEF LoadOrder, CancelSelectedOrder
  <2>3. Waiting'[c] \in {"load", "cancel"} /\ Waiting[c] = "none"
        /\ \A d \in Calls \ {c} : Waiting'[d] = Waiting[d]
    BY <1>w, <2>1
  <2>4. FormWaits' /\ OrderWaits'
    BY <2>2, <2>3
  <2>5. PanelsWait'
    BY <2>2, <2>3 DEF Panels
  <2> QED BY <2>4, <2>5
<1>7. ASSUME NEW c \in Calls, LoadSucceeds(c) \/ LoadFails(c) \/ CancelSucceeds(c) \/ CancelFails(c)
      PROVE  Waits'
  <2>1. Waiting[c] \in {"load", "cancel"} /\ Waiting' = [Waiting EXCEPT ![c] = "none"]
    BY <1>7, ArriveWaits DEF LoadSucceeds, LoadFails, CancelSucceeds, CancelFails
  <2>2. selectedOrder'.loading = FALSE /\ panelLoading' = panelLoading
    <3>1. (\E o : selectedOrder' = Shown(o)) /\ panelLoading' = panelLoading
      BY <1>7 DEF LoadSucceeds, LoadFails, CancelSucceeds, CancelFails
    <3> QED BY <3>1 DEF Shown
  <2>3. \/ createResult' = createResult
        \/ createResult.loading = FALSE /\ createResult'.loading = FALSE
    <3>1. CASE createResult.data # NoOrder /\ \E o : createResult' = Shown(o)
      <4>1. createResult'.loading = FALSE
        BY <3>1 DEF Shown
      <4>2. createResult.loading = FALSE
        BY <1>w, <3>1 DEF Slicelike
      <4> QED BY <4>1, <4>2
    <3>2. \/ createResult' = createResult
          \/ createResult.data # NoOrder /\ \E o : createResult' = Shown(o)
      BY <1>7 DEF LoadSucceeds, LoadFails, CancelSucceeds, CancelFails
    <3> QED BY <3>1, <3>2
  <2>4. Waiting'[c] = "none" /\ \A d \in Calls \ {c} : Waiting'[d] = Waiting[d]
    BY <1>w, <2>1
  <2>5. FormWaits'
    BY <2>1, <2>3, <2>4
  <2>6. OrderWaits' /\ PanelsWait'
    BY <2>1, <2>2, <2>4 DEF Panels
  <2> QED BY <2>5, <2>6
<1>8. ASSUME NEW c \in Calls, NEW panel \in Panels, LoadPanel(c, panel) PROVE Waits'
  <2>1. Waiting[c] = "none" /\ Waiting' = [Waiting EXCEPT ![c] = panel]
    BY <1>8, SendWaits DEF LoadPanel
  <2>2. UNCHANGED <<createResult, selectedOrder>>
        /\ panelLoading' = [panelLoading EXCEPT ![panel] = TRUE]
        /\ (panel = "payments" => ~panelLoading[panel])
    BY <1>8 DEF LoadPanel, Enabled
  <2>3. Waiting'[c] = panel /\ \A d \in Calls \ {c} : Waiting'[d] = Waiting[d]
    BY <1>w, <2>1
  <2>4. FormWaits' /\ OrderWaits'
    BY <1>8, <2>1, <2>2, <2>3 DEF Panels
  <2>5. panelLoading'[panel] /\ \A p \in Panels \ {panel} : panelLoading'[p] = panelLoading[p]
    BY <1>8, <1>w, <2>2, Zenon
  <2>6. PanelsWait'
    BY <1>8, <2>1, <2>2, <2>3, <2>5 DEF Panels
  <2> QED BY <2>4, <2>6
<1>9. ASSUME NEW c \in Calls, NEW panel \in Panels, PanelAnswers(c, panel) PROVE Waits'
  <2>1. Waiting' = [Waiting EXCEPT ![c] = "none"]
    BY <1>9, EndWaits DEF PanelAnswers
  <2>2. Waiting[c] = panel
    BY <1>9 DEF PanelAnswers, Base, CallsKept, CallKept, Waiting, WaitsIn
  <2>3. UNCHANGED <<createResult, selectedOrder>>
        /\ panelLoading' = [panelLoading EXCEPT ![panel] = FALSE]
    BY <1>9 DEF PanelAnswers
  <2>4. Waiting'[c] = "none" /\ \A d \in Calls \ {c} : Waiting'[d] = Waiting[d]
    BY <1>w, <2>1
  <2>5. FormWaits' /\ OrderWaits'
    BY <2>2, <2>3, <2>4 DEF Panels
  <2>6. ~panelLoading'[panel] /\ \A p \in Panels \ {panel} : panelLoading'[p] = panelLoading[p]
    BY <1>w, <2>3
  <2>7. PanelsWait'
    BY <2>2, <2>4, <2>6 DEF Panels
  <2> QED BY <2>5, <2>7
<1>10. ASSUME NEW c \in Calls, Serve(c) PROVE Waits'
  BY <1>10, <1>u, ServeWaits
<1>11. CASE UNCHANGED vars
  BY <1>11, <1>u, <1>c DEF vars
<1> HIDE DEF Waits, FormWaits, OrderWaits, PanelsWait
<1> QED
  BY <1>1, <1>2, <1>3, <1>4, <1>5, <1>6, <1>7, <1>8, <1>9, <1>10, <1>11
     DEF Next, Submission, Loading, Cancellation, PanelStep

------------------------------------------------------------------------------
(***************************************************************************)
(* Orders that the form may have let go of: those that are Pending or may  *)
(* still become so under another key, and the present key while a          *)
(* submission under another one is about to succeed and replace it.        *)
(***************************************************************************)
Unserved(x, k) == x.kind = "submit" /\ x.id = k /\ x.reply = NoReply
Replaces(x, k, r) ==
  /\ x.kind = "submit" /\ x.awaited = TRUE /\ x.id # k /\ r[x.id] \notin {"none", "Pending"}
  /\ x.reply = NoReply \/ x.reply.ok
LetGo ==
  {k \in Keys \ {key} : \/ row[k] = "Pending"
                        \/ row[k] = "none" /\ \E c \in Calls : Unserved(call[c], k)}
Replaced == \E c \in Calls : Replaces(call[c], key, row)
Risked == LetGo \cup {k \in {key} : Replaced}
FewRisked == Cardinality(Risked) <= edits

LEMMA RiskedFinite == IsFiniteSet(LetGo) /\ IsFiniteSet(Risked)
<1>1. IsFiniteSet(LetGo)
  BY ConstantsAssumption, FS_Subset DEF LetGo
<1>2. IsFiniteSet({k \in {key} : Replaced})
  <2>1. IsFiniteSet({key}) /\ {k \in {key} : Replaced} \subseteq {key}
    BY FS_Singleton
  <2> QED BY <2>1, FS_Subset
<1> QED BY <1>1, <1>2, FS_Union DEF Risked

LEMMA OneMore ==
  ASSUME NEW S, IsFiniteSet(S), NEW z
  PROVE  /\ IsFiniteSet(S \cup {z}) /\ Cardinality(S) \in Nat
         /\ Cardinality(S \cup {z}) \in Nat /\ Cardinality(S \cup {z}) <= Cardinality(S) + 1
<1>1. /\ IsFiniteSet(S \cup {z})
      /\ Cardinality(S \cup {z}) = IF z \in S THEN Cardinality(S) ELSE Cardinality(S) + 1
  BY FS_AddElement, Zenon
<1>2. Cardinality(S) \in Nat
  BY FS_CardinalityType, Zenon
<1> QED BY <1>1, <1>2, SMT

\* How the number of risked orders changes with their set.
LEMMA FewerRisked ==
  ASSUME Base, Risked' \subseteq Risked
  PROVE  Cardinality(Risked') <= Cardinality(Risked)
  BY RiskedFinite, FS_Subset

LEMMA OneMoreRisked ==
  ASSUME Base, NEW z, Risked' \subseteq Risked \cup {z}
  PROVE  Cardinality(Risked') <= Cardinality(Risked) + 1
<1>1. /\ IsFiniteSet(Risked \cup {z}) /\ Cardinality(Risked) \in Nat
      /\ Cardinality(Risked \cup {z}) <= Cardinality(Risked) + 1
  BY RiskedFinite, OneMore
<1>2. Cardinality(Risked') <= Cardinality(Risked \cup {z}) /\ Cardinality(Risked') \in Nat
      /\ Cardinality(Risked \cup {z}) \in Nat
  BY <1>1, FS_Subset, FS_CardinalityType
<1> QED BY <1>1, <1>2

LEMMA SwappedRisked ==
  ASSUME Base, NEW j \in Risked, NEW z, Risked' \subseteq (Risked \ {j}) \cup {z}
  PROVE  Cardinality(Risked') <= Cardinality(Risked)
<1> DEFINE R == Risked \ {j}
<1>1. IsFiniteSet(R) /\ Cardinality(R) = Cardinality(Risked) - 1 /\ Cardinality(Risked) \in Nat
  BY RiskedFinite, FS_RemoveElement, FS_CardinalityType
<1> HIDE DEF R
<1>2. /\ IsFiniteSet(R \cup {z}) /\ Cardinality(R) \in Nat
      /\ Cardinality(R \cup {z}) <= Cardinality(R) + 1
  BY <1>1, OneMore
<1>3. Cardinality(Risked') <= Cardinality(R \cup {z}) /\ Cardinality(Risked') \in Nat
      /\ Cardinality(R \cup {z}) \in Nat
  BY <1>2, FS_Subset, FS_CardinalityType DEF R
<1> QED BY <1>1, <1>2, <1>3

\* A step on one request that is no more of a submission than before.
LEMMA NoNewRisk ==
  ASSUME Base, UNCHANGED <<key, row>>, NEW c \in Calls, NEW x, call' = [call EXCEPT ![c] = x],
         \A k \in Keys \ {key} : Unserved(x, k) => Unserved(call[c], k),
         Replaces(x, key, row) => Replaces(call[c], key, row)
  PROVE  Risked' \subseteq Risked
<1>1. call = [d \in Calls |-> call[d]]
  BY DEF Base, Shape
<1>2. call'[c] = x /\ \A d \in Calls \ {c} : call'[d] = call[d]
  BY <1>1
<1>3. ASSUME NEW k \in Keys \ {key}, NEW d \in Calls, Unserved(call'[d], k)
      PROVE  \E e \in Calls : Unserved(call[e], k)
  BY <1>2, <1>3
<1>4. ASSUME NEW d \in Calls, Replaces(call'[d], key, row)
      PROVE  \E e \in Calls : Replaces(call[e], key, row)
  BY <1>2, <1>4
<1>5. LetGo' \subseteq LetGo
  BY <1>3 DEF LetGo
<1>6. Replaced' => Replaced
  BY <1>4 DEF Replaced
<1> QED BY <1>5, <1>6 DEF Risked

LEMMA SameRisk ==
  ASSUME Base, UNCHANGED <<key, row, call>>
  PROVE  Risked' = Risked
  BY DEF Risked, LetGo, Replaced

LEMMA SendRisk ==
  ASSUME Base, UNCHANGED <<key, row>>, NEW c \in Calls, NEW kind, NEW id, NEW saved,
         Send(c, kind, id, saved), kind = "submit" => id = key
  PROVE  Risked' \subseteq Risked
<1>1. PICK x : x = Request(kind, id, saved)
  OBVIOUS
<1>2. x.kind = kind /\ x.id = id /\ call' = [call EXCEPT ![c] = x]
  BY <1>1, RequestShaped DEF Send
<1>3. ~Replaces(x, key, row) /\ \A k \in Keys \ {key} : ~Unserved(x, k)
  BY <1>2 DEF Unserved, Replaces
<1> QED BY <1>2, <1>3, NoNewRisk

LEMMA EndRisk ==
  ASSUME Base, UNCHANGED <<key, row>>, NEW c \in Calls, call' = [call EXCEPT ![c] = Idle]
  PROVE  Risked' \subseteq Risked
  BY NoNewRisk, IdleShaped DEF Unserved, Replaces

\* A reply that reports success to a submission only if there is an outcome.
Rightly(x, reply, r) ==
  x.kind = "submit" /\ reply.ok => r[x.id] \notin {"none", "Pending"} /\ x.reply = NoReply

LEMMA AnswerRisk ==
  ASSUME Base, UNCHANGED <<key, row>>, NEW c \in Calls, NEW reply, Answer(c, reply),
         call[c].kind = "submit" => reply # NoReply, Rightly(call[c], reply, row)
  PROVE  Risked' \subseteq Risked
<1>1. Shaped(call[c])
  BY DEF Base, Shape
<1>2. PICK x : /\ Shaped(x) /\ call' = [call EXCEPT ![c] = x]
               /\ \/ call[c].awaited = FALSE /\ x = Idle
                  \/ /\ call[c].awaited = TRUE /\ x.awaited = TRUE /\ x.kind = call[c].kind
                     /\ x.id = call[c].id /\ x.saved = call[c].saved /\ x.reply = reply
  BY <1>1, AnswerIs
<1>3. \A k \in Keys \ {key} : Unserved(x, k) => Unserved(call[c], k)
  BY <1>2, IdleShaped DEF Unserved
<1>4. Replaces(x, key, row) => Replaces(call[c], key, row)
  BY <1>2, IdleShaped DEF Replaces, Rightly
<1> QED BY <1>2, <1>3, <1>4, NoNewRisk

\* A submission or a cancellation gives the order of a key its status.
LEMMA SettleRisk ==
  ASSUME Base, key' = key, NEW c \in Calls, NEW reply, Answer(c, reply), reply # NoReply,
         NEW j \in Keys, call[c].id = j, call[c].kind \in {"submit", "cancel"},
         NEW status \in Statuses, row' = [row EXCEPT ![j] = status],
         \/ row[j] = "Pending"
         \/ row[j] = "none" /\ Unserved(call[c], j)
  PROVE  Cardinality(Risked') <= Cardinality(Risked)
<1>1. Shaped(call[c]) /\ call = [d \in Calls |-> call[d]]
      /\ row \in [Keys -> Statuses \cup {"none"}]
  BY DEF Base, Shape
<1>2. PICK x : /\ Shaped(x) /\ call' = [call EXCEPT ![c] = x]
               /\ \/ call[c].awaited = FALSE /\ x = Idle
                  \/ /\ call[c].awaited = TRUE /\ x.awaited = TRUE /\ x.kind = call[c].kind
                     /\ x.id = call[c].id /\ x.saved = call[c].saved /\ x.reply = reply
  BY <1>1, AnswerIs
<1>3. call'[c] = x /\ \A d \in Calls \ {c} : call'[d] = call[d]
  BY <1>1, <1>2
<1>4. row'[j] = status /\ \A k \in Keys \ {j} : row'[k] = row[k]
  BY <1>1
<1>5. \A k : ~Unserved(x, k)
  BY <1>2, IdleShaped DEF Unserved
<1>6. ASSUME NEW d \in Calls, Replaces(call'[d], key, row'), status = "Pending" \/ j = key
      PROVE  \E e \in Calls : Replaces(call[e], key, row)
  <2>1. call'[d].id # j
    BY <1>4, <1>6 DEF Replaces
  <2>2. d # c
    BY <1>2, <1>3, <1>6, <2>1, IdleShaped DEF Replaces
  <2>3. call'[d] = call[d] /\ call[d].kind = "submit"
    BY <1>3, <1>6, <2>2 DEF Replaces
  <2>4. call[d].id \in Keys
    BY <2>3 DEF Base, Shape, CallsKept, CallKept
  <2>5. row'[call[d].id] = row[call[d].id]
    BY <1>4, <2>1, <2>3, <2>4
  <2> QED BY <1>6, <2>3, <2>5 DEF Replaces
<1>7. ASSUME NEW k \in LetGo' PROVE k \in LetGo \ (IF status = "Pending" THEN {} ELSE {j})
  <2>1. k \in Keys \ {key}
    BY <1>7 DEF LetGo
  <2>2. CASE k = j
    <3>1. row'[k] = status /\ status \in {"Pending", "Settled", "Cancelled"}
      BY <1>4, <2>2 DEF Statuses
    <3>2. status = "Pending"
      BY <1>7, <3>1 DEF LetGo
    <3> QED BY <2>1, <2>2, <3>2 DEF LetGo
  <2>3. CASE k # j
    <3>1. row'[k] = row[k]
      BY <1>4, <2>1, <2>3
    <3>2. \A d \in Calls : Unserved(call'[d], k) => Unserved(call[d], k)
      BY <1>3, <1>5
    <3> QED BY <1>7, <2>1, <2>3, <3>1, <3>2 DEF LetGo
  <2> QED BY <2>2, <2>3
<1>8. CASE status = "Pending" \/ j = key
  <2>1. Replaced' => Replaced
    BY <1>6, <1>8 DEF Replaced
  <2>2. LetGo' \subseteq LetGo
    BY <1>7
  <2> QED BY <2>1, <2>2, FewerRisked DEF Risked
<1>9. CASE status # "Pending" /\ j # key
  <2>1. j \in LetGo
    BY <1>9 DEF LetGo
  <2>2. LetGo' \subseteq LetGo \ {j}
    BY <1>7, <1>9
  <2>3. Risked' \subseteq (Risked \ {j}) \cup {key} /\ j \in Risked
    BY <1>9, <2>1, <2>2 DEF Risked
  <2> QED BY <2>3, SwappedRisked
<1> QED BY <1>8, <1>9

\* The user changes the key: either its order is risked, or a submission under it.
LEMMA EditRisk ==
  ASSUME Base, UNCHANGED <<row, call>>
  PROVE  Cardinality(Risked') <= Cardinality(Risked) + 1
<1>1. LetGo' \subseteq LetGo \cup {key}
  BY DEF LetGo
<1>2. CASE row[key] \in {"none", "Pending"}
  <2>1. ASSUME Replaced' PROVE Replaced
    BY <1>2, <2>1 DEF Replaced, Replaces
  <2>2. CASE Replaced
    <3>1. Risked' \subseteq Risked \cup {key'}
      BY <1>1, <2>2 DEF Risked
    <3> QED BY <3>1, OneMoreRisked
  <2>3. CASE ~Replaced
    <3>1. Risked' \subseteq Risked \cup {key}
      BY <1>1, <2>1, <2>3 DEF Risked
    <3> QED BY <3>1, OneMoreRisked
  <2> QED BY <2>2, <2>3
<1>3. CASE row[key] \notin {"none", "Pending"}
  <2>1. LetGo' \subseteq LetGo
    BY <1>3 DEF LetGo
  <2>2. Risked' \subseteq Risked \cup {key'}
    BY <2>1 DEF Risked
  <2> QED BY <2>2, OneMoreRisked
<1> QED BY <1>2, <1>3

LEMMA ReloadRisk ==
  ASSUME Base, Reload
  PROVE  Cardinality(Risked') <= Cardinality(Risked) + 1
<1>1. ASSUME NEW c \in Calls
      PROVE  /\ ~Replaces(call'[c], key', row')
             /\ \A k : Unserved(call'[c], k) => Unserved(call[c], k)
  <2>0. Shaped(call[c])
    BY DEF Base, Shape
  <2>1. CASE call[c].reply = NoReply /\ call[c].kind \in {"submit", "cancel"}
    <3>1. PICK x : x = [call[c] EXCEPT !.awaited = FALSE]
      OBVIOUS
    <3>2. /\ x.kind = call[c].kind /\ x.id = call[c].id /\ x.reply = call[c].reply
          /\ x.awaited = FALSE
      BY <2>0, <3>1, LeftShaped
    <3>3. call'[c] = x
      BY <2>1, <3>1 DEF Reload
    <3> QED BY <3>2, <3>3 DEF Unserved, Replaces
  <2>2. CASE ~(call[c].reply = NoReply /\ call[c].kind \in {"submit", "cancel"})
    <3>1. call'[c] = Idle
      BY <2>2 DEF Reload
    <3> QED BY <3>1, IdleShaped DEF Unserved, Replaces
  <2> QED BY <2>1, <2>2
<1>2. ~Replaced'
  BY <1>1 DEF Replaced
<1>3. LetGo' \subseteq LetGo \cup {key}
  BY <1>1 DEF LetGo, Reload
<1>4. Risked' \subseteq Risked \cup {key}
  BY <1>2, <1>3 DEF Risked
<1> QED BY <1>4, OneMoreRisked

\* A submission succeeds: no other one is under way, and the key it replaces is its own,
\* whose order has an outcome, or one that was risked.
LEMMA SuccessRisk ==
  ASSUME Base, Waits, NEW c \in Calls, SubmitSucceeds(c)
  PROVE  Risked' \subseteq Risked
<1>0. /\ call = [d \in Calls |-> call[d]] /\ CallKept(call[c], used, row)
      /\ call' = [call EXCEPT ![c] = Idle] /\ row' = row
  BY DEF Base, Shape, CallsKept, SubmitSucceeds, Arrives
<1>1. call'[c] = Idle /\ \A d \in Calls \ {c} : call'[d] = call[d]
  BY <1>0
<1>2. Waiting[c] = "submit" /\ Waiting' = [Waiting EXCEPT ![c] = "none"]
  BY ArriveWaits DEF SubmitSucceeds
<1>3. ASSUME NEW d \in Calls, Replaces(call'[d], key', row') PROVE FALSE
  <2>1. d # c
    BY <1>1, <1>3, IdleShaped DEF Replaces
  <2>2. Waiting[d] = "submit"
    BY <1>1, <1>3, <2>1 DEF Replaces, Waiting, WaitsIn
  <2> QED BY <1>2, <2>1, <2>2 DEF Waits, FormWaits
<1>4. ~Replaced'
  BY <1>3 DEF Replaced
<1>5. ASSUME NEW k \in LetGo' PROVE k \in LetGo \cup {key}
  BY <1>0, <1>1, <1>5, IdleShaped DEF LetGo, Unserved
<1>6. CASE call[c].id = key
  <2>1. row[key] \notin {"none", "Pending"}
    BY <1>0, <1>6 DEF SubmitSucceeds, Arrives, CallKept
  <2>2. LetGo' \subseteq LetGo
    BY <1>0, <1>5, <2>1 DEF LetGo
  <2> QED BY <1>4, <2>2 DEF Risked
<1>7. CASE call[c].id # key
  <2>1. Replaces(call[c], key, row)
    BY <1>0, <1>7 DEF SubmitSucceeds, Arrives, CallKept, Replaces
  <2>2. Replaced
    BY <2>1 DEF Replaced
  <2> QED BY <1>4, <1>5, <2>2 DEF Risked
<1> QED BY <1>6, <1>7

LEMMA Replies ==
  /\ Refused # NoReply /\ Refused.ok = FALSE
  /\ \A ok \in BOOLEAN, k \in Keys, status \in Statuses :
       [ok |-> ok, order |-> [id |-> k, status |-> status]] # NoReply
<1>1. Refused.ok = FALSE
  BY DEF Refused
<1>2. Refused \in Reply
  BY Zenon DEF Refused, Reply
<1>3. ASSUME NEW ok \in BOOLEAN, NEW k \in Keys, NEW status \in Statuses
      PROVE  [ok |-> ok, order |-> [id |-> k, status |-> status]] \in Reply
  <2>1. [id |-> k, status |-> status] \in Order
    BY DEF Order
  <2> QED BY <2>1, Zenon DEF Reply
<1> QED BY <1>1, <1>2, <1>3, NullsAssumption, Zenon

LEMMA ServeRisk ==
  ASSUME Base, NEW c \in Calls, Serve(c)
  PROVE  Cardinality(Risked') <= Cardinality(Risked) /\ edits' = edits
<1>0. Shaped(call[c]) /\ CallKept(call[c], used, row) /\ used \subseteq Keys
      /\ row \in [Keys -> Statuses \cup {"none"}]
  BY DEF Base, Shape, CallsKept
<1>k. UNCHANGED <<key, edits>>
  BY DEF Serve, ServeSubmit, ServeReplay, ServeLoad, ServeCancel, Refuse, AnswerLost, store
<1>1. CASE ServeSubmit(c)
  <2>1. PICK j : j = call[c].id
    OBVIOUS
  <2>2. /\ call[c].kind = "submit" /\ j \in Keys
        /\ \/ row[j] = "Pending"
           \/ row[j] = "none" /\ Unserved(call[c], j)
    BY <1>0, <1>1, <2>1 DEF ServeSubmit, Asked, CallKept, Unserved
  <2>3. PICK status \in {"Pending", "Settled"} :
          /\ row' = [row EXCEPT ![j] = status]
          /\ Answer(c, [ok |-> status # "Pending", order |-> [id |-> j, status |-> status]])
    BY <1>1, <2>1 DEF ServeSubmit
  <2>4. PICK reply :
          reply = [ok |-> status # "Pending", order |-> [id |-> j, status |-> status]]
    OBVIOUS
  <2>5. status \in Statuses /\ (status # "Pending") \in BOOLEAN
    BY <2>3 DEF Statuses
  <2>6. reply # NoReply
    BY <2>2, <2>4, <2>5, Replies, Zenon
  <2>7. Answer(c, reply)
    BY <2>3, <2>4
  <2> QED BY <1>k, <2>1, <2>2, <2>3, <2>5, <2>6, <2>7, SettleRisk
<1>2. CASE ServeReplay(c)
  <2>1. PICK j : j = call[c].id
    OBVIOUS
  <2>2. /\ call[c].kind = "submit" /\ j \in Keys /\ call[c].reply = NoReply /\ row' = row
        /\ row[j] \in Statuses /\ row[j] \notin {"none", "Pending"}
    BY <1>0, <1>2, <2>1 DEF ServeReplay, Asked, CallKept
  <2>3. PICK reply : reply = [ok |-> TRUE, order |-> [id |-> j, status |-> row[j]]]
    OBVIOUS
  <2>4. reply # NoReply
    BY <2>2, <2>3, Replies, Zenon
  <2>5. Answer(c, reply)
    BY <1>2, <2>1, <2>3 DEF ServeReplay, Stored
  <2>6. Rightly(call[c], reply, row)
    BY <2>1, <2>2 DEF Rightly
  <2> QED BY <1>k, <2>2, <2>4, <2>5, <2>6, AnswerRisk, FewerRisked
<1>3. CASE ServeLoad(c)
  <2>1. PICK reply : Answer(c, reply)
    BY <1>3 DEF ServeLoad
  <2>2. call[c].kind = "load" /\ row' = row
    BY <1>3 DEF ServeLoad, Asked
  <2> QED BY <1>k, <2>1, <2>2, AnswerRisk, FewerRisked DEF Rightly
<1>4. CASE ServeCancel(c)
  <2>1. PICK j : j = call[c].id
    OBVIOUS
  <2>2. call[c].kind = "cancel" /\ row[j] = "Pending"
        /\ row' = [row EXCEPT ![j] = "Cancelled"]
    BY <1>4, <2>1 DEF ServeCancel, Asked
  <2>3. PICK reply : reply = [ok |-> TRUE, order |-> [id |-> j, status |-> "Cancelled"]]
    OBVIOUS
  <2>4. Answer(c, reply)
    BY <1>4, <2>1, <2>3 DEF ServeCancel
  <2>5. CASE j \in Keys
    <3>1. reply # NoReply /\ "Cancelled" \in Statuses
      BY <2>3, <2>5, Replies DEF Statuses
    <3> QED BY <1>k, <2>1, <2>2, <2>4, <2>5, <3>1, SettleRisk
  <2>6. CASE j \notin Keys
    <3>1. row' = row
      BY <1>0, <2>2, <2>6
    <3> QED BY <1>k, <2>2, <2>4, <3>1, AnswerRisk, FewerRisked DEF Rightly
  <2> QED BY <2>5, <2>6
<1>5. CASE Refuse(c) \/ AnswerLost(c)
  <2>1. Answer(c, Refused) /\ row' = row
    BY <1>5 DEF Refuse, AnswerLost
  <2> QED BY <1>k, <2>1, Replies, AnswerRisk, FewerRisked DEF Rightly
<1> QED BY <1>1, <1>2, <1>3, <1>4, <1>5 DEF Serve

LEMMA FewRiskedInit == Init => FewRisked
<1> SUFFICES ASSUME Init PROVE FewRisked
  OBVIOUS
<1>1. LetGo = {} /\ ~Replaced
  BY IdleShaped DEF Init, LetGo, Replaced, Replaces, Unserved
<1>2. Risked = {}
  BY <1>1 DEF Risked
<1> QED BY <1>2, FS_EmptySet DEF FewRisked, Init

LEMMA FewRiskedStep ==
  ASSUME Base, Waits, FewRisked, [Next]_vars
  PROVE  FewRisked'
<1>n. /\ edits \in Nat /\ edits' \in Nat
      /\ Cardinality(Risked) \in Nat /\ Cardinality(Risked') \in Nat
  <2>1. Base'
    BY BaseStep DEF BaseKept
  <2>2. edits \in Nat /\ edits' \in Nat
    BY <2>1 DEF Base, Shape
  <2>3. Cardinality(Risked) \in Nat
    BY RiskedFinite, FS_CardinalityType
  <2>4. IsFiniteSet(Risked')
    <3>1. IsFiniteSet(Keys \cup {key'})
      BY ConstantsAssumption, FS_AddElement
    <3>2. Risked' \subseteq Keys \cup {key'}
      BY DEF Risked, LetGo
    <3> QED BY <3>1, <3>2, FS_Subset
  <2> QED BY <2>2, <2>3, <2>4, FS_CardinalityType
<1>s. ASSUME Cardinality(Risked') <= Cardinality(Risked), edits' = edits PROVE FewRisked'
  BY <1>n, <1>s DEF FewRisked
<1>m. ASSUME Cardinality(Risked') <= Cardinality(Risked) + 1, edits' = edits + 1 PROVE FewRisked'
  BY <1>n, <1>m DEF FewRisked
<1>f. ASSUME Risked' \subseteq Risked, edits' = edits PROVE FewRisked'
  BY <1>f, <1>s, FewerRisked
<1>1. CASE ResetIdempotencyKey \/ \E k \in Keys : TypeKey(k)
  BY <1>1, <1>m, EditRisk DEF ResetIdempotencyKey, TypeKey, Edit
<1>2. CASE LoadNothing \/ \E i \in 1..Len(recentOrders) : LoadRecentOrder(i)
  BY <1>2, <1>f, SameRisk DEF LoadNothing, LoadRecentOrder
<1>3. CASE Reload
  BY <1>3, <1>m, ReloadRisk DEF Reload, Edit
<1>4. ASSUME NEW c \in Calls, Submission(c) PROVE FewRisked'
  <2>1. CASE SubmitOrder(c)
    BY <1>f, <2>1, SendRisk DEF SubmitOrder
  <2>2. CASE SubmitSucceeds(c)
    BY <1>f, <2>2, SuccessRisk DEF SubmitSucceeds
  <2>3. CASE SubmitFails(c)
    BY <1>f, <2>3, EndRisk DEF SubmitFails, Arrives
  <2> QED BY <1>4, <2>1, <2>2, <2>3 DEF Submission
<1>5. ASSUME NEW c \in Calls, Loading(c) \/ Cancellation(c) PROVE FewRisked'
  <2>1. CASE (\E k \in used : LoadOrder(c, k)) \/ CancelSelectedOrder(c)
    BY <1>f, <2>1, SendRisk DEF LoadOrder, CancelSelectedOrder
  <2>2. CASE LoadSucceeds(c) \/ LoadFails(c) \/ CancelSucceeds(c) \/ CancelFails(c)
    BY <1>f, <2>2, EndRisk DEF LoadSucceeds, LoadFails, CancelSucceeds, CancelFails, Arrives
  <2> QED BY <1>5, <2>1, <2>2 DEF Loading, Cancellation
<1>6. ASSUME NEW c \in Calls, NEW panel \in Panels, LoadPanel(c, panel) \/ PanelAnswers(c, panel)
      PROVE  FewRisked'
  <2>1. CASE LoadPanel(c, panel)
    BY <1>f, <2>1, SendRisk DEF LoadPanel, Panels
  <2>2. CASE PanelAnswers(c, panel)
    BY <1>f, <2>2, EndRisk DEF PanelAnswers
  <2> QED BY <1>6, <2>1, <2>2
<1>7. ASSUME NEW c \in Calls, Serve(c) PROVE FewRisked'
  BY <1>7, <1>s, ServeRisk
<1>8. CASE UNCHANGED vars
  BY <1>8, <1>f, SameRisk DEF vars
<1> QED BY <1>1, <1>2, <1>3, <1>4, <1>5, <1>6, <1>7, <1>8 DEF Next, PanelStep

------------------------------------------------------------------------------
Inv == Base /\ Waits /\ FewRisked

LEMMA BaseInit == Init => Base
<1> SUFFICES ASSUME Init PROVE Base
  OBVIOUS
<1>1. /\ call = [c \in Calls |-> call[c]] /\ \A c \in Calls : call[c] = Idle
      /\ panelLoading \in [Panels -> BOOLEAN] /\ key \in used /\ used \subseteq Keys
      /\ row \in [Keys -> Statuses \cup {"none"}] /\ edits \in Nat
      /\ \A k \in Keys : row[k] = "none"
  BY DEF Init
<1>2. Slicelike(createResult) /\ Slicelike(selectedOrder)
  BY ShownShaped DEF Init
<1>3. Shape
  BY <1>1, <1>2, IdleShaped DEF Shape
<1>4. CallsKept /\ RowsUsed
  BY <1>1, IdleShaped DEF CallsKept, CallKept, RowsUsed, Panels
<1> QED BY <1>3, <1>4 DEF Base

\* The inductive invariant of the page and the server: what the page waits for in each
\* request matches the buttons that are disabled, and no more orders are at risk of being
\* let go of than the user made edits.
THEOREM Invariance == Spec => []Inv
<1>1. Init => Inv
  BY BaseInit, WaitsInit, FewRiskedInit DEF Inv
<1>2. Inv /\ [Next]_vars => Inv'
  BY BaseStep, WaitsStep, FewRiskedStep DEF Inv, BaseKept
<1> QED BY <1>1, <1>2, PTL DEF Spec

\* useOrderStore.submitOrder: however many requests are under way and in whatever order
\* they are answered, the create form is disabled exactly while one submission is.
THEOREM NeverTwice == Spec => []OneSubmission
<1>1. Inv => OneSubmission
  <2> SUFFICES ASSUME Inv PROVE OneSubmission
    OBVIOUS
  <2>1. Awaited({"submit"}) = {c \in Calls : Waiting[c] = "submit"}
    BY DEF Awaited, Waiting, WaitsIn, Inv, Base, Shape, Shaped
  <2>2. CASE createResult.loading
    <3>1. PICK c \in Calls : Waiting[c] = "submit"
      BY <2>2 DEF Inv, Waits, FormWaits
    <3>2. Awaited({"submit"}) = {c}
      BY <2>1, <3>1 DEF Inv, Waits, FormWaits
    <3> QED BY <2>2, <3>2, FS_Singleton DEF OneSubmission
  <2>3. CASE ~createResult.loading
    <3>1. Awaited({"submit"}) = {}
      BY <2>1, <2>3 DEF Inv, Waits, FormWaits
    <3> QED BY <2>3, <3>1, FS_EmptySet DEF OneSubmission
  <2> QED BY <2>2, <2>3
<1> QED BY <1>1, Invariance, PTL

\* useOrderStore's loading flags: each one that is set has an answer to come that clears it.
THEOREM NeverStuck == Spec => []LoadingIsBacked
<1>1. Inv => LoadingIsBacked
  <2> SUFFICES ASSUME Inv PROVE LoadingIsBacked
    OBVIOUS
  <2>1. \A kinds : "none" \notin kinds =>
          Awaited(kinds) = {c \in Calls : Waiting[c] \in kinds}
    BY DEF Awaited, Waiting, WaitsIn, Inv, Base, Shape, Shaped
  <2>2. selectedOrder.loading => Awaited({"load", "cancel"}) # {}
    <3>1. Awaited({"load", "cancel"}) = {c \in Calls : Waiting[c] \in {"load", "cancel"}}
      BY <2>1
    <3> QED BY <3>1 DEF Inv, Waits, OrderWaits
  <2>3. \A panel \in Panels : panelLoading[panel] => Awaited({panel}) # {}
    <3>1. \A panel \in Panels : Awaited({panel}) = {c \in Calls : Waiting[c] \in {panel}}
      BY <2>1 DEF Panels
    <3> QED BY <3>1 DEF Inv, Waits, PanelsWait
  <2>4. Cardinality(Awaited({"payments"})) <= 1
    <3>1. Awaited({"payments"}) = {c \in Calls : Waiting[c] = "payments"}
      BY <2>1
    <3>2. CASE Awaited({"payments"}) = {}
      BY <3>2, FS_EmptySet
    <3>3. CASE Awaited({"payments"}) # {}
      <4>1. PICK c \in Calls : Waiting[c] = "payments"
        BY <3>1, <3>3
      <4>2. Awaited({"payments"}) = {c}
        BY <3>1, <4>1 DEF Inv, Waits, PanelsWait
      <4>3. Cardinality({c}) = 1
        BY FS_Singleton
      <4> QED BY <4>2, <4>3
    <3> QED BY <3>2, <3>3
  <2> QED BY <2>2, <2>3, <2>4 DEF LoadingIsBacked
<1> QED BY <1>1, Invariance, PTL

\* "The order is stored as Pending and can be retried with the same idempotency key"
\* (useOrderStore.ts): for any number of orders and requests, only the user's own edits
\* make the form let go of a Pending order.
THEOREM KeepsPending == Spec => []PendingIsKept
<1>1. Inv => PendingIsKept
  <2> SUFFICES ASSUME Inv PROVE PendingIsKept
    OBVIOUS
  <2>1. Abandoned \subseteq Risked
    BY DEF Abandoned, Risked, LetGo
  <2>2. Cardinality(Abandoned) <= Cardinality(Risked) /\ Cardinality(Abandoned) \in Nat
        /\ Cardinality(Risked) \in Nat /\ edits \in Nat
    BY <2>1, RiskedFinite, FS_Subset, FS_CardinalityType DEF Inv, Base, Shape
  <2> QED BY <2>2 DEF Inv, FewRisked, PendingIsKept
<1> QED BY <1>1, Invariance, PTL

------------------------------------------------------------------------------
(***************************************************************************)
(* The list of recent orders.                                              *)
(***************************************************************************)
\* The orders of a list by their id.
Distinct(orders) == \A i, j \in 1..Len(orders) : orders[i].id = orders[j].id => i = j

\* What Without(orders, id) has kept of the first n orders.
Keeps(orders, id, n, w) ==
  /\ w \in Seq(Order) /\ Len(w) <= n
  /\ \A i \in 1..Len(w) : w[i].id # id /\ \E j \in 1..n : w[i] = orders[j]
  /\ Distinct(w)

LEMMA KeepsNext ==
  ASSUME NEW orders \in Seq(Order), Distinct(orders), NEW id,
         NEW n \in Nat, n + 1 <= Len(orders), NEW w, Keeps(orders, id, n, w)
  PROVE  Keeps(orders, id, n + 1,
               IF orders[n + 1].id = id THEN w ELSE Append(w, orders[n + 1]))
<1> DEFINE o == orders[n + 1]
<1>1. Len(orders) \in Nat /\ n + 1 \in 1..Len(orders) /\ 1..n \subseteq 1..n + 1
  OBVIOUS
<1>2. o \in Order
  BY <1>1
<1>3. w \in Seq(Order) /\ Len(w) \in Nat /\ Len(w) <= n
  BY DEF Keeps
<1>4. CASE o.id = id
  <2>1. Len(w) <= n + 1
    BY <1>3
  <2> QED BY <1>1, <1>4, <2>1 DEF Keeps
<1>5. CASE o.id # id
  <2> DEFINE v == Append(w, o)
  <2>1. /\ v \in Seq(Order) /\ Len(v) = Len(w) + 1
        /\ \A i \in 1..Len(w) : v[i] = w[i]
        /\ v[Len(w) + 1] = o
    BY <1>2, <1>3, AppendProperties
  <2>2. ASSUME NEW i \in 1..Len(v)
        PROVE  v[i].id # id /\ \E j \in 1..n + 1 : v[i] = orders[j]
    <3>1. CASE i = Len(w) + 1
      BY <1>1, <1>5, <2>1, <3>1
    <3>2. CASE i \in 1..Len(w)
      <4>1. PICK j \in 1..n : w[i] = orders[j]
        BY <3>2 DEF Keeps
      <4> QED BY <1>1, <2>1, <3>2, <4>1 DEF Keeps
    <3> HIDE DEF v, o
    <3>3. i \in 1..Len(w) \/ i = Len(w) + 1
      BY <1>3, <2>1
    <3> QED BY <3>1, <3>2, <3>3
  <2>3. ASSUME NEW i \in 1..Len(w) PROVE w[i].id # o.id
    <3>1. PICK j \in 1..n : w[i] = orders[j]
      BY DEF Keeps
    <3>2. j \in 1..Len(orders) /\ j # n + 1
      BY <1>1
    <3> QED BY <1>1, <3>1, <3>2 DEF Distinct
  <2>4. ASSUME NEW i \in 1..Len(v), NEW j \in 1..Len(v), v[i].id = v[j].id PROVE i = j
    <3> HIDE DEF v, o
    <3>1. i \in 1..Len(w) \/ i = Len(w) + 1
      BY <1>3, <2>1
    <3>2. j \in 1..Len(w) \/ j = Len(w) + 1
      BY <1>3, <2>1
    <3>3. ASSUME i \in 1..Len(w), j \in 1..Len(w) PROVE i = j
      BY <2>1, <2>4, <3>3 DEF Keeps, Distinct
    <3> QED BY <2>1, <2>3, <2>4, <3>1, <3>2, <3>3
  <2>5. Len(v) <= n + 1
    BY <1>3, <2>1
  <2> HIDE DEF v
  <2>6. Keeps(orders, id, n + 1, v)
    BY <2>1, <2>2, <2>4, <2>5 DEF Keeps, Distinct
  <2> QED BY <1>5, <2>6 DEF v
<1> QED BY <1>4, <1>5

\* Without removes the order with this id and keeps nothing that was not there.
LEMMA WithoutKeeps ==
  ASSUME NEW orders \in Seq(Order), Distinct(orders), NEW id
  PROVE  Keeps(orders, id, Len(orders), Without(orders, id))
<1> DEFINE step(f, n) ==
             IF n = 0 THEN << >>
             ELSE IF orders[n].id = id THEN f[n - 1] ELSE Append(f[n - 1], orders[n])
           Kept(f) == f = [n \in 0..Len(orders) |-> step(f, n)]
           UpTo(f, n) == \A m \in 0..n : f[m] = step(f, m)
           F == {n \in Nat : \E f : UpTo(f, n)}
<1>1. Len(orders) \in Nat
  OBVIOUS
<1>2. Nat \subseteq F
  <2>1. 0 \in F
    <3> DEFINE f == [m \in 0..0 |-> << >>]
    <3>1. \A m \in 0..0 : f[m] = step(f, m)
      OBVIOUS
    <3>2. UpTo(f, 0)
      BY <3>1
    <3> HIDE DEF UpTo, f
    <3> QED BY <3>2
  <2>2. ASSUME NEW n \in Nat, n \in F PROVE n + 1 \in F
    <3>1. PICK f : UpTo(f, n)
      BY <2>2
    <3> DEFINE g == [m \in 0..n + 1 |-> step(f, m)]
    <3>2. \A m \in 0..n : g[m] = f[m]
      BY <3>1
    <3>3. ASSUME NEW m \in 0..n + 1 PROVE g[m] = step(g, m)
      <4>1. g[m] = step(f, m)
        OBVIOUS
      <4>2. CASE m = 0
        BY <4>1, <4>2
      <4>3. CASE m # 0
        <5>1. m - 1 \in 0..n
          BY <4>3
        <5>2. g[m - 1] = f[m - 1]
          BY <3>2, <5>1
        <5> HIDE DEF g
        <5> QED BY <4>1, <4>3, <5>2
      <4> QED BY <4>2, <4>3
    <3> HIDE DEF g
    <3>4. UpTo(g, n + 1)
      BY <3>3
    <3> HIDE DEF UpTo
    <3> QED BY <3>4
  <2> HIDE DEF F
  <2> QED BY <2>1, <2>2, NumberInduction
<1>3. \E f : Kept(f)
  <2>1. PICK f : UpTo(f, Len(orders))
    BY <1>1, <1>2
  <2> DEFINE g == [n \in 0..Len(orders) |-> f[n]]
  <2>2. ASSUME NEW n \in 0..Len(orders) PROVE f[n] = step(g, n)
    <3>1. f[n] = step(f, n)
      BY <2>1
    <3>2. n # 0 => n - 1 \in 0..Len(orders)
      BY <1>1
    <3>3. n # 0 => g[n - 1] = f[n - 1]
      BY <3>2
    <3> HIDE DEF g
    <3> QED BY <3>1, <3>3
  <2>3. g = [n \in 0..Len(orders) |-> step(g, n)]
    BY <2>2
  <2> QED BY <2>3
<1> DEFINE kept == CHOOSE f : Kept(f)
<1>4. Kept(kept)
  <2> HIDE DEF Kept
  <2> QED BY <1>3
<1>5. Without(orders, id) = kept[Len(orders)]
  BY DEF Without
<1>6. ASSUME NEW n \in 0..Len(orders) PROVE kept[n] = step(kept, n)
  <2> HIDE DEF kept, step
  <2> QED BY <1>4
<1> DEFINE G == {n \in Nat : n <= Len(orders) => Keeps(orders, id, n, kept[n])}
<1> HIDE DEF kept
<1>7. 0 \in G
  <2>1. kept[0] = << >>
    BY <1>1, <1>6
  <2>2. Keeps(orders, id, 0, << >>)
    BY DEF Keeps, Distinct
  <2> QED BY <2>1, <2>2
<1>8. ASSUME NEW n \in Nat, n \in G PROVE n + 1 \in G
  <2>1. ASSUME n + 1 <= Len(orders) PROVE Keeps(orders, id, n + 1, kept[n + 1])
    <3>1. n <= Len(orders) /\ n + 1 \in 0..Len(orders) /\ n + 1 # 0 /\ (n + 1) - 1 = n
      BY <1>1, <2>1
    <3>2. Keeps(orders, id, n, kept[n])
      BY <1>8, <3>1
    <3>3. kept[n + 1] = IF orders[n + 1].id = id THEN kept[n] ELSE Append(kept[n], orders[n + 1])
      BY <1>6, <3>1
    <3>4. Keeps(orders, id, n + 1,
                IF orders[n + 1].id = id THEN kept[n] ELSE Append(kept[n], orders[n + 1]))
      BY <2>1, <3>2, KeepsNext
    <3> QED BY <3>3, <3>4
  <2> QED BY <2>1
<1>9. Nat \subseteq G
  <2> HIDE DEF G
  <2> QED BY <1>7, <1>8, NumberInduction
<1> QED BY <1>1, <1>5, <1>9

------------------------------------------------------------------------------
(***************************************************************************)
(* What the panels show is stored at the server: it goes on from Pending,  *)
(* and stays at an outcome.                                                *)
(***************************************************************************)
KnownOrder(o, r) ==
  /\ o \in Order /\ r[o.id] # "none"
  /\ o.status # "Pending" => r[o.id] = o.status
KnownOrNone(o, r) == o = NoOrder \/ KnownOrder(o, r)

ListKnown(orders, r) ==
  /\ orders \in Seq(Order) /\ Len(orders) <= MaxRecent /\ Distinct(orders)
  /\ \A i \in 1..Len(orders) : KnownOrder(orders[i], r)

CallKnown(x, r) ==
  /\ x.kind \in {"none", "submit", "load", "cancel"} \cup Panels
  /\ x.kind \in {"submit", "load", "cancel"} => x.id \in Keys
  /\ x.kind \in Panels => x.id = NoOrder /\ x.saved = NoOrder /\ x.reply = NoReply
  /\ KnownOrNone(x.saved, r)
  /\ x.reply # NoReply =>
       x.reply \in Reply /\ KnownOrNone(x.reply.order, r) /\ (x.reply.ok => x.reply.order # NoOrder)

StoreKnown ==
  /\ KnownOrNone(createResult.data, row) /\ KnownOrNone(selectedOrder.data, row)
  /\ ListKnown(recentOrders, row)
CallsKnown == \A c \in Calls : CallKnown(call[c], row)
Known == StoreKnown /\ CallsKnown /\ edits \in 0..MaxEdits

Grows(r, s) == \A k \in Keys : r[k] # "none" => s[k] # "none" /\ (r[k] # "Pending" => s[k] = r[k])

LEMMA NoOrderKnown == ASSUME NEW r PROVE KnownOrNone(NoOrder, r)
  BY DEF KnownOrNone

LEMMA OrderGrows ==
  ASSUME NEW r, NEW s, Grows(r, s), NEW o, KnownOrder(o, r)
  PROVE  KnownOrder(o, s)
<1>1. o \in Order /\ o.id \in Keys /\ r[o.id] # "none"
  BY DEF KnownOrder, Order
<1> QED BY <1>1 DEF KnownOrder, Grows

LEMMA OrNoneGrows ==
  ASSUME NEW r, NEW s, Grows(r, s), NEW o, KnownOrNone(o, r)
  PROVE  KnownOrNone(o, s)
  BY OrderGrows DEF KnownOrNone

LEMMA StoreGrows ==
  ASSUME StoreKnown, Grows(row, row'), UNCHANGED <<createResult, selectedOrder, recentOrders>>
  PROVE  StoreKnown'
<1>1. KnownOrNone(createResult.data, row') /\ KnownOrNone(selectedOrder.data, row')
  BY OrNoneGrows DEF StoreKnown
<1>2. ListKnown(recentOrders, row')
  BY OrderGrows DEF StoreKnown, ListKnown
<1> QED BY <1>1, <1>2 DEF StoreKnown

LEMMA CallGrows ==
  ASSUME NEW r, NEW s, Grows(r, s), NEW x, CallKnown(x, r)
  PROVE  CallKnown(x, s)
<1>1. KnownOrNone(x.saved, s)
  BY OrNoneGrows DEF CallKnown
<1>2. x.reply # NoReply => KnownOrNone(x.reply.order, s)
  BY OrNoneGrows DEF CallKnown
<1> QED BY <1>1, <1>2 DEF CallKnown

LEMMA OneCallKnown ==
  ASSUME Base, CallsKnown, Grows(row, row'), NEW c \in Calls, NEW x, CallKnown(x, row'),
         call' = [call EXCEPT ![c] = x]
  PROVE  CallsKnown'
<1>1. call = [d \in Calls |-> call[d]]
  BY DEF Base, Shape
<1>2. call'[c] = x /\ \A d \in Calls \ {c} : call'[d] = call[d]
  BY <1>1
<1>3. ASSUME NEW d \in Calls, d # c PROVE CallKnown(call'[d], row')
  BY <1>2, <1>3, CallGrows DEF CallsKnown
<1> QED BY <1>2, <1>3 DEF CallsKnown

LEMMA SameGrows == ASSUME row' = row PROVE Grows(row, row')
  BY DEF Grows

\* An order goes to the head of the list, and its former entry goes.
LEMMA MergeKnown ==
  ASSUME NEW r, NEW orders, ListKnown(orders, r), NEW o, KnownOrder(o, r)
  PROVE  ListKnown(MergeRecentOrders(orders, o), r)
<1> DEFINE w == Without(orders, o.id)
           s == <<o>> \o w
<1>1. orders \in Seq(Order) /\ Distinct(orders) /\ Len(orders) \in Nat /\ o \in Order
  BY DEF ListKnown, KnownOrder
<1>2. Keeps(orders, o.id, Len(orders), w)
  BY <1>1, WithoutKeeps
<1> HIDE DEF w
<1>3. w \in Seq(Order) /\ Len(w) \in Nat /\ Distinct(w)
  BY <1>2 DEF Keeps
<1>4. ASSUME NEW i \in 1..Len(w) PROVE w[i].id # o.id /\ KnownOrder(w[i], r)
  BY <1>2 DEF Keeps, ListKnown
<1>5. /\ s \in Seq(Order) /\ Len(s) = 1 + Len(w) /\ s[1] = o
      /\ \A i \in 1..Len(w) : s[i + 1] = w[i]
  <2>1. <<o>> \in Seq(Order) /\ Len(<<o>>) = 1 /\ <<o>>[1] = o
    BY <1>1
  <2>2. /\ s \in Seq(Order) /\ Len(s) = 1 + Len(w)
        /\ \A i \in 1..1 + Len(w) : s[i] = IF i <= 1 THEN <<o>>[i] ELSE w[i - 1]
    BY <1>3, <2>1, ConcatProperties
  <2>3. \A i \in 1..Len(w) : i + 1 \in 1..1 + Len(w) /\ ~(i + 1 <= 1) /\ (i + 1) - 1 = i
    BY <1>3
  <2> HIDE DEF s
  <2> QED BY <1>3, <2>1, <2>2, <2>3
<1> HIDE DEF s
<1>6. ASSUME NEW i \in 1..Len(s) PROVE i = 1 \/ (i - 1 \in 1..Len(w) /\ s[i] = w[i - 1])
  <2>1. i = 1 \/ (i - 1 \in 1..Len(w) /\ (i - 1) + 1 = i)
    BY <1>3, <1>5
  <2> QED BY <1>5, <2>1
<1>7. \A i \in 1..Len(s) : KnownOrder(s[i], r)
  BY <1>4, <1>5, <1>6
<1>8. ASSUME NEW i \in 1..Len(s), NEW j \in 1..Len(s), s[i].id = s[j].id PROVE i = j
  <2>1. CASE i = 1 /\ j # 1
    BY <1>4, <1>5, <1>6, <1>8, <2>1
  <2>2. CASE i # 1 /\ j = 1
    BY <1>4, <1>5, <1>6, <1>8, <2>2
  <2>3. CASE i # 1 /\ j # 1
    <3>2. PICK a \in 1..Len(w) : a = i - 1 /\ s[i] = w[a]
      BY <1>6, <2>3
    <3>3. PICK b \in 1..Len(w) : b = j - 1 /\ s[j] = w[b]
      BY <1>6, <2>3
    <3>4. w[a].id = w[b].id
      BY <1>8, <3>2, <3>3
    <3>5. a = b
      BY <1>3, <3>4 DEF Distinct
    <3>1. i - 1 = j - 1
      BY <3>2, <3>3, <3>5
    <3> QED BY <1>5, <1>3, <3>1
  <2> QED BY <2>1, <2>2, <2>3
<1>9. MaxRecent \in Nat \ {0} /\ Len(s) \in Nat
  BY <1>3, <1>5, ConstantsAssumption
<1>10. CASE Len(s) <= MaxRecent
  BY <1>5, <1>7, <1>8, <1>10 DEF MergeRecentOrders, Newest, ListKnown, Distinct, w, s
<1>11. CASE ~(Len(s) <= MaxRecent)
  <2> DEFINE v == SubSeq(s, 1, MaxRecent)
  <2>1. /\ v \in Seq(Order) /\ Len(v) = MaxRecent
        /\ \A i \in 1..MaxRecent : v[i] = s[i] /\ i \in 1..Len(s)
    <3>1. \A i \in 1..MaxRecent : i \in 1..Len(s) /\ s[i] \in Order /\ 1 + i - 1 = i
      BY <1>5, <1>9, <1>11
    <3>2. 1 \in Int /\ MaxRecent \in Int /\ 1 <= MaxRecent /\ MaxRecent - 1 + 1 = MaxRecent
      BY <1>9
    <3>3. /\ SubSeq(s, 1, MaxRecent) \in Seq(Order)
          /\ Len(SubSeq(s, 1, MaxRecent)) = IF 1 <= MaxRecent THEN MaxRecent - 1 + 1 ELSE 0
          /\ \A i \in 1..MaxRecent - 1 + 1 : SubSeq(s, 1, MaxRecent)[i] = s[1 + i - 1]
      BY <3>1, <3>2, SubSeqProperties
    <3> HIDE DEF v
    <3>4. \A i \in 1..MaxRecent : SubSeq(s, 1, MaxRecent)[i] = s[i]
      BY <3>1, <3>2, <3>3
    <3> QED BY <3>1, <3>2, <3>3, <3>4 DEF v
  <2>2. MergeRecentOrders(orders, o) = v
    BY <1>11 DEF MergeRecentOrders, Newest, w, s
  <2> HIDE DEF v
  <2>3. ListKnown(v, r)
    BY <1>7, <1>8, <1>9, <2>1 DEF ListKnown, Distinct
  <2> QED BY <2>2, <2>3
<1> QED BY <1>10, <1>11

LEMMA KnownInit == Init => Known
<1> SUFFICES ASSUME Init PROVE Known
  OBVIOUS
<1>1. /\ createResult.data = NoOrder /\ selectedOrder.data = NoOrder /\ recentOrders = << >>
      /\ \A c \in Calls : call[c] = Idle
  BY ShownShaped DEF Init
<1>2. StoreKnown
  BY <1>1, NoOrderKnown, ConstantsAssumption DEF StoreKnown, ListKnown, Distinct
<1>3. CallsKnown
  BY <1>1, NoOrderKnown, IdleShaped DEF CallsKnown, CallKnown, Idle, Panels
<1>4. edits \in 0..MaxEdits
  BY ConstantsAssumption DEF Init
<1> QED BY <1>2, <1>3, <1>4 DEF Known

LEMMA IdleKnown == ASSUME NEW r PROVE CallKnown(Idle, r)
<1>1. Idle.saved = NoOrder
  BY DEF Idle
<1> QED BY <1>1, NoOrderKnown, IdleShaped DEF CallKnown, Panels

\* A request is sent, or ends, and the rows stay.
LEMMA SendKnown ==
  ASSUME Base, CallsKnown, row' = row, NEW c \in Calls, NEW kind, NEW id, NEW saved,
         Send(c, kind, id, saved), KnownOrNone(saved, row),
         \/ kind \in {"submit", "load", "cancel"} /\ id \in Keys
         \/ kind \in Panels /\ id = NoOrder /\ saved = NoOrder
  PROVE  CallsKnown'
<1>1. PICK x : x = Request(kind, id, saved)
  OBVIOUS
<1>2. /\ x.kind = kind /\ x.id = id /\ x.saved = saved /\ x.reply = NoReply
      /\ call' = [call EXCEPT ![c] = x]
  BY <1>1 DEF Request, Send
<1>3. CallKnown(x, row')
  BY <1>2 DEF CallKnown, Panels
<1> QED BY <1>2, <1>3, OneCallKnown, SameGrows

LEMMA EndKnown ==
  ASSUME Base, CallsKnown, row' = row, NEW c \in Calls, call' = [call EXCEPT ![c] = Idle]
  PROVE  CallsKnown'
  BY OneCallKnown, SameGrows, IdleKnown

\* A request is answered with what the rows hold.
LEMMA AnswerKnown ==
  ASSUME Base, CallsKnown, Grows(row, row'), NEW c \in Calls, NEW reply, Answer(c, reply),
         call[c].kind \in {"submit", "load", "cancel"},
         reply \in Reply, KnownOrNone(reply.order, row'), reply.ok => reply.order # NoOrder
  PROVE  CallsKnown'
<1>1. Shaped(call[c]) /\ CallKnown(call[c], row')
  BY CallGrows DEF Base, Shape, CallsKnown
<1>2. PICK x : /\ Shaped(x) /\ call' = [call EXCEPT ![c] = x]
               /\ \/ call[c].awaited = FALSE /\ x = Idle
                  \/ /\ call[c].awaited = TRUE /\ x.awaited = TRUE /\ x.kind = call[c].kind
                     /\ x.id = call[c].id /\ x.saved = call[c].saved /\ x.reply = reply
  BY <1>1, AnswerIs
<1>3. CallKnown(x, row')
  <2>1. CASE x = Idle
    BY <2>1, IdleKnown
  <2>2. CASE x # Idle
    BY <1>1, <1>2, <2>2 DEF CallKnown, Panels
  <2> QED BY <2>1, <2>2
<1> QED BY <1>2, <1>3, OneCallKnown

\* The order of a reply that has arrived.
LEMMA ArrivedKnown ==
  ASSUME CallsKnown, NEW c \in Calls, NEW kind, NEW ok \in BOOLEAN, Arrives(c, kind, ok)
  PROVE  /\ KnownOrNone(call[c].reply.order, row) /\ KnownOrNone(call[c].saved, row)
         /\ ok => KnownOrder(call[c].reply.order, row)
  BY DEF CallsKnown, CallKnown, Arrives, KnownOrNone

\* A slice shows one of the orders that are known, and the list may have taken it in.
LEMMA ShowKnown ==
  ASSUME StoreKnown, row' = row, NEW o, KnownOrNone(o, row),
         createResult' = createResult \/ createResult'.data \in {NoOrder, o},
         \/ selectedOrder' = selectedOrder \/ selectedOrder'.data \in {NoOrder, o}
         \/ selectedOrder'.data = selectedOrder.data,
         \/ recentOrders' = recentOrders
         \/ o # NoOrder /\ recentOrders' = MergeRecentOrders(recentOrders, o)
  PROVE  StoreKnown'
<1>1. ListKnown(recentOrders', row')
  BY MergeKnown DEF StoreKnown, KnownOrNone
<1>2. KnownOrNone(createResult'.data, row') /\ KnownOrNone(selectedOrder'.data, row')
  BY NoOrderKnown DEF StoreKnown
<1> QED BY <1>1, <1>2 DEF StoreKnown

LEMMA SubmissionKnown ==
  ASSUME Base, Known, NEW c \in Calls, Submission(c)
  PROVE  Known'
<1> USE DEF Known
<1>0. key \in Keys /\ NoOrder = NoOrder /\ KnownOrNone(NoOrder, row)
  BY NoOrderKnown DEF Base, Shape
<1>1. CASE SubmitOrder(c)
  <2>1. CallsKnown'
    BY <1>0, <1>1, SendKnown DEF SubmitOrder
  <2>2. StoreKnown'
    <3>1. createResult'.data = NoOrder /\ row' = row /\ UNCHANGED <<selectedOrder, recentOrders>>
      BY <1>1 DEF SubmitOrder
    <3> QED BY <1>0, <3>1, ShowKnown
  <2> QED BY <1>1, <2>1, <2>2 DEF SubmitOrder
<1>2. CASE SubmitSucceeds(c)
  <2>1. CallsKnown'
    BY <1>2, EndKnown DEF SubmitSucceeds, Arrives
  <2>2. PICK o : o = call[c].reply.order
    OBVIOUS
  <2>3. KnownOrder(o, row)
    BY <1>2, <2>2, ArrivedKnown DEF SubmitSucceeds
  <2>4. StoreKnown'
    <3>1. /\ createResult'.data = o /\ selectedOrder'.data = o /\ row' = row
          /\ recentOrders' = MergeRecentOrders(recentOrders, o)
      BY <1>2, <2>2, ShownShaped DEF SubmitSucceeds
    <3>2. o # NoOrder
      BY <2>3, NullsAssumption DEF KnownOrder
    <3> QED BY <2>3, <3>1, <3>2, ShowKnown DEF KnownOrNone
  <2> QED BY <1>2, <2>1, <2>4 DEF SubmitSucceeds
<1>3. CASE SubmitFails(c)
  <2>1. CallsKnown'
    BY <1>3, EndKnown DEF SubmitFails, Arrives
  <2>2. PICK o : o = call[c].reply.order
    OBVIOUS
  <2>3. KnownOrNone(o, row)
    BY <1>3, <2>2, ArrivedKnown DEF SubmitFails
  <2>4. StoreKnown'
    <3>1. /\ createResult'.data = o /\ selectedOrder'.data = o /\ row' = row
          /\ \/ recentOrders' = recentOrders
             \/ o # NoOrder /\ recentOrders' = MergeRecentOrders(recentOrders, o)
      BY <1>3, <2>2, ShownShaped DEF SubmitFails
    <3> QED BY <2>3, <3>1, ShowKnown
  <2> QED BY <1>3, <2>1, <2>4 DEF SubmitFails
<1> QED BY <1>1, <1>2, <1>3 DEF Submission

LEMMA LoadingKnown ==
  ASSUME Base, Known, NEW c \in Calls, Loading(c)
  PROVE  Known'
<1> USE DEF Known
<1>0. used \subseteq Keys /\ KnownOrNone(NoOrder, row)
  BY NoOrderKnown DEF Base, Shape
<1>1. ASSUME NEW k \in used, LoadOrder(c, k) PROVE Known'
  <2>1. CallsKnown'
    BY <1>0, <1>1, SendKnown DEF LoadOrder
  <2>2. StoreKnown'
    <3>1. /\ selectedOrder'.data = selectedOrder.data /\ row' = row
          /\ UNCHANGED <<createResult, recentOrders>>
      BY <1>1, LoadingShaped DEF LoadOrder, Base, Shape
    <3> QED BY <1>0, <3>1, ShowKnown
  <2> QED BY <1>1, <2>1, <2>2 DEF LoadOrder
<1>2. CASE LoadSucceeds(c)
  <2>1. CallsKnown'
    BY <1>2, EndKnown DEF LoadSucceeds, Arrives
  <2>2. PICK o : o = call[c].reply.order
    OBVIOUS
  <2>3. KnownOrder(o, row)
    BY <1>2, <2>2, ArrivedKnown DEF LoadSucceeds
  <2>4. StoreKnown'
    <3>1. /\ createResult' = createResult /\ selectedOrder'.data = o /\ row' = row
          /\ recentOrders' = MergeRecentOrders(recentOrders, o)
      BY <1>2, <2>2, ShownShaped DEF LoadSucceeds
    <3>2. o # NoOrder
      BY <2>3, NullsAssumption DEF KnownOrder
    <3> QED BY <2>3, <3>1, <3>2, ShowKnown DEF KnownOrNone
  <2> QED BY <1>2, <2>1, <2>4 DEF LoadSucceeds
<1>3. CASE LoadFails(c)
  <2>1. CallsKnown'
    BY <1>3, EndKnown DEF LoadFails, Arrives
  <2>2. StoreKnown'
    <3>1. /\ selectedOrder'.data = NoOrder /\ row' = row
          /\ UNCHANGED <<createResult, recentOrders>>
      BY <1>3, ShownShaped DEF LoadFails
    <3> QED BY <1>0, <3>1, ShowKnown
  <2> QED BY <1>3, <2>1, <2>2 DEF LoadFails
<1> QED BY <1>1, <1>2, <1>3 DEF Loading

LEMMA CancellationKnown ==
  ASSUME Base, Known, NEW c \in Calls, Cancellation(c)
  PROVE  Known'
<1> USE DEF Known
<1>1. CASE CancelSelectedOrder(c)
  <2>1. KnownOrder(selectedOrder.data, row)
    BY <1>1 DEF CancelSelectedOrder, StoreKnown, KnownOrNone
  <2>2. CallsKnown'
    <3>1. selectedOrder.data.id \in Keys
      BY <2>1 DEF KnownOrder, Order
    <3> QED BY <1>1, <2>1, <3>1, SendKnown DEF CancelSelectedOrder, KnownOrNone
  <2>3. StoreKnown'
    <3>1. /\ selectedOrder'.data = selectedOrder.data /\ row' = row
          /\ UNCHANGED <<createResult, recentOrders>>
      BY <1>1, LoadingShaped DEF CancelSelectedOrder, Base, Shape
    <3> QED BY <3>1, NoOrderKnown, ShowKnown
  <2> QED BY <1>1, <2>2, <2>3 DEF CancelSelectedOrder
<1>2. CASE CancelSucceeds(c)
  <2>1. CallsKnown'
    BY <1>2, EndKnown DEF CancelSucceeds, Arrives
  <2>2. PICK o : o = call[c].reply.order
    OBVIOUS
  <2>3. KnownOrder(o, row)
    BY <1>2, <2>2, ArrivedKnown DEF CancelSucceeds
  <2>4. StoreKnown'
    <3>1. /\ createResult' = createResult \/ createResult'.data = o
          /\ selectedOrder'.data = o /\ row' = row
          /\ recentOrders' = MergeRecentOrders(recentOrders, o)
      BY <1>2, <2>2, ShownShaped DEF CancelSucceeds
    <3>2. o # NoOrder
      BY <2>3, NullsAssumption DEF KnownOrder
    <3> QED BY <2>3, <3>1, <3>2, ShowKnown DEF KnownOrNone
  <2> QED BY <1>2, <2>1, <2>4 DEF CancelSucceeds
<1>3. CASE CancelFails(c)
  <2>1. CallsKnown'
    BY <1>3, EndKnown DEF CancelFails, Arrives
  <2>2. StoreKnown'
    <3>1. KnownOrNone(call[c].saved, row)
      BY <1>3, ArrivedKnown DEF CancelFails
    <3>2. /\ selectedOrder'.data = call[c].saved /\ row' = row
          /\ UNCHANGED <<createResult, recentOrders>>
      BY <1>3, ShownShaped DEF CancelFails
    <3> QED BY <3>1, <3>2, ShowKnown
  <2> QED BY <1>3, <2>1, <2>2 DEF CancelFails
<1> QED BY <1>1, <1>2, <1>3 DEF Cancellation

LEMMA PanelKnown ==
  ASSUME Base, Known, NEW c \in Calls, PanelStep(c)
  PROVE  Known'
<1>1. PICK panel \in Panels : LoadPanel(c, panel) \/ PanelAnswers(c, panel)
  BY DEF PanelStep
<1>2. UNCHANGED <<createResult, selectedOrder, recentOrders, row, edits>>
  BY <1>1 DEF LoadPanel, PanelAnswers
<1>3. StoreKnown'
  BY <1>2, SameGrows, StoreGrows DEF Known
<1>4. CASE LoadPanel(c, panel)
  <2>1. CallsKnown'
    BY <1>2, <1>4, SendKnown, NoOrderKnown DEF LoadPanel, Known
  <2> QED BY <1>2, <1>3, <2>1 DEF Known
<1>5. CASE PanelAnswers(c, panel)
  <2>1. CallsKnown'
    BY <1>2, <1>5, EndKnown DEF PanelAnswers, Known
  <2> QED BY <1>2, <1>3, <2>1 DEF Known
<1> QED BY <1>1, <1>4, <1>5

LEMMA RowGrows ==
  ASSUME Base, NEW k \in Keys, row[k] \in {"none", "Pending"}, NEW status \in Statuses,
         row' = [row EXCEPT ![k] = status]
  PROVE  Grows(row, row') /\ row'[k] = status
<1>1. row \in [Keys -> Statuses \cup {"none"}]
  BY DEF Base, Shape
<1> QED BY <1>1 DEF Grows, Statuses

LEMMA ReplyKnown ==
  ASSUME NEW r, NEW k \in Keys, r[k] \in Statuses, NEW ok \in BOOLEAN, NEW reply,
         reply = [ok |-> ok, order |-> [id |-> k, status |-> r[k]]]
  PROVE  reply \in Reply /\ KnownOrNone(reply.order, r) /\ (reply.ok => reply.order # NoOrder)
<1>1. PICK o : o = [id |-> k, status |-> r[k]]
  OBVIOUS
<1>2. o \in Order /\ o.id = k /\ o.status = r[k]
  BY <1>1 DEF Order
<1>3. KnownOrder(o, r)
  BY <1>2 DEF KnownOrder, Statuses
<1>4. reply.order = o /\ reply = [ok |-> ok, order |-> o]
  BY <1>1
<1>5. reply \in Reply
  <2>1. [ok |-> ok, order |-> o] \in Reply
    BY <1>2 DEF Reply
  <2> QED BY <1>4, <2>1
<1> QED BY <1>2, <1>3, <1>4, <1>5, NullsAssumption DEF KnownOrNone

LEMMA RefusedKnown ==
  ASSUME NEW r
  PROVE  Refused \in Reply /\ KnownOrNone(Refused.order, r) /\ Refused.ok = FALSE
<1>1. Refused.order = NoOrder /\ Refused.ok = FALSE
  BY DEF Refused
<1>2. Refused \in Reply
  BY Zenon DEF Refused, Reply
<1> QED BY <1>1, <1>2, NoOrderKnown

LEMMA ServeKnown ==
  ASSUME Base, Known, NEW c \in Calls, Serve(c)
  PROVE  Known'
<1>0. /\ CallKnown(call[c], row) /\ CallKept(call[c], used, row)
      /\ row \in [Keys -> Statuses \cup {"none"}]
  BY DEF Base, Shape, CallsKept, Known, CallsKnown
<1>k. UNCHANGED <<createResult, selectedOrder, recentOrders, edits>>
  BY DEF Serve, ServeSubmit, ServeReplay, ServeLoad, ServeCancel, Refuse, AnswerLost, store
<1>s. ASSUME Grows(row, row'), CallsKnown' PROVE Known'
  BY <1>k, <1>s, StoreGrows DEF Known
<1>a. ASSUME NEW reply, Answer(c, reply), Grows(row, row'),
             call[c].kind \in {"submit", "load", "cancel"}, reply \in Reply,
             KnownOrNone(reply.order, row'), reply.ok => reply.order # NoOrder
      PROVE  Known'
  BY <1>a, <1>s, AnswerKnown DEF Known
<1>p. PICK j : j = call[c].id
  OBVIOUS
<1>1. CASE ServeSubmit(c)
  <2>1. call[c].kind = "submit" /\ j \in Keys /\ row[j] \in {"none", "Pending"}
    BY <1>0, <1>p, <1>1 DEF ServeSubmit, Asked, CallKnown
  <2>2. PICK status \in {"Pending", "Settled"} :
          /\ row' = [row EXCEPT ![j] = status]
          /\ Answer(c, [ok |-> status # "Pending", order |-> [id |-> j, status |-> status]])
    BY <1>p, <1>1 DEF ServeSubmit
  <2>3. status \in Statuses /\ (status # "Pending") \in BOOLEAN
    BY <2>2 DEF Statuses
  <2>4. Grows(row, row') /\ row'[j] = status
    BY <2>1, <2>2, <2>3, RowGrows
  <2>5. PICK reply :
          /\ reply = [ok |-> status # "Pending", order |-> [id |-> j, status |-> row'[j]]]
          /\ Answer(c, reply)
    BY <2>2, <2>4
  <2>6. reply \in Reply /\ KnownOrNone(reply.order, row') /\ (reply.ok => reply.order # NoOrder)
    BY <2>1, <2>3, <2>4, <2>5, ReplyKnown
  <2> QED BY <1>a, <2>1, <2>4, <2>5, <2>6
<1>2. CASE ServeReplay(c) \/ ServeLoad(c)
  <2>1. /\ call[c].kind \in {"submit", "load"} /\ j \in Keys /\ row[j] \in Statuses
        /\ row' = row
    BY <1>0, <1>p, <1>2 DEF ServeReplay, ServeLoad, Asked, CallKnown
  <2>2. PICK reply : /\ reply = [ok |-> TRUE, order |-> [id |-> j, status |-> row[j]]]
                     /\ Answer(c, reply)
    BY <1>p, <1>2 DEF ServeReplay, ServeLoad, Stored
  <2>3. reply \in Reply /\ KnownOrNone(reply.order, row) /\ (reply.ok => reply.order # NoOrder)
    BY <2>1, <2>2, ReplyKnown
  <2> QED BY <1>a, <2>1, <2>2, <2>3, SameGrows
<1>3. CASE ServeCancel(c)
  <2>1. /\ call[c].kind = "cancel" /\ j \in Keys /\ row[j] = "Pending"
        /\ row' = [row EXCEPT ![j] = "Cancelled"] /\ "Cancelled" \in Statuses
    BY <1>0, <1>p, <1>3 DEF ServeCancel, Asked, CallKnown, Statuses
  <2>2. Grows(row, row') /\ row'[j] = "Cancelled"
    BY <2>1, RowGrows
  <2>3. PICK reply : /\ reply = [ok |-> TRUE, order |-> [id |-> j, status |-> row'[j]]]
                     /\ Answer(c, reply)
    BY <1>p, <1>3, <2>2 DEF ServeCancel
  <2>4. reply \in Reply /\ KnownOrNone(reply.order, row') /\ (reply.ok => reply.order # NoOrder)
    BY <2>1, <2>2, <2>3, ReplyKnown
  <2> QED BY <1>a, <2>1, <2>2, <2>3, <2>4
<1>4. CASE Refuse(c) \/ AnswerLost(c)
  <2>1. Answer(c, Refused) /\ row' = row
    BY <1>4 DEF Refuse, AnswerLost
  <2>2. call[c].kind \in {"submit", "load", "cancel"}
    BY <1>0, <1>4, IdleShaped DEF Refuse, AnswerLost, CallKnown, CallKept
  <2> QED BY <1>a, <2>1, <2>2, RefusedKnown, SameGrows
<1> QED BY <1>1, <1>2, <1>3, <1>4 DEF Serve

LEMMA ReloadKnown ==
  ASSUME Base, Known, Reload
  PROVE  Known'
<1>1. ASSUME NEW c \in Calls PROVE CallKnown(call'[c], row')
  <2>0. Shaped(call[c]) /\ CallKnown(call[c], row) /\ row' = row
    BY DEF Base, Shape, Known, CallsKnown, Reload
  <2>1. CASE call[c].reply = NoReply /\ call[c].kind \in {"submit", "cancel"}
    <3>1. PICK x : x = [call[c] EXCEPT !.awaited = FALSE]
      OBVIOUS
    <3>2. /\ x.kind = call[c].kind /\ x.id = call[c].id /\ x.saved = call[c].saved
          /\ x.reply = call[c].reply
      BY <2>0, <3>1, LeftShaped
    <3>3. call'[c] = x
      BY <2>1, <3>1 DEF Reload
    <3> QED BY <2>0, <3>2, <3>3 DEF CallKnown
  <2>2. CASE ~(call[c].reply = NoReply /\ call[c].kind \in {"submit", "cancel"})
    <3>1. call'[c] = Idle
      BY <2>2 DEF Reload
    <3> QED BY <3>1, IdleKnown
  <2> QED BY <2>1, <2>2
<1>2. StoreKnown'
  <2>1. /\ createResult'.data = NoOrder /\ selectedOrder'.data = NoOrder
        /\ row' = row /\ recentOrders' = recentOrders
    BY ShownShaped DEF Reload
  <2> QED BY <2>1, NoOrderKnown, ShowKnown DEF Known
<1>3. edits' \in 0..MaxEdits
  BY ConstantsAssumption DEF Known, Reload, Edit
<1> QED BY <1>1, <1>2, <1>3 DEF Known, CallsKnown

LEMMA KnownStep ==
  ASSUME Base, Known, [Next]_vars
  PROVE  Known'
<1>s. ASSUME UNCHANGED <<call, row>> PROVE CallsKnown'
  BY <1>s DEF Known, CallsKnown
<1>1. CASE ResetIdempotencyKey \/ \E k \in Keys : TypeKey(k)
  <2>1. UNCHANGED <<call, row, createResult, selectedOrder, recentOrders>>
        /\ edits' \in 0..MaxEdits
    BY <1>1, ConstantsAssumption DEF ResetIdempotencyKey, TypeKey, Edit, Known
  <2> QED BY <1>s, <2>1, SameGrows, StoreGrows DEF Known
<1>2. CASE LoadNothing
  <2>1. /\ selectedOrder'.data = NoOrder
        /\ UNCHANGED <<call, row, createResult, recentOrders, edits>>
    BY <1>2, ShownShaped DEF LoadNothing
  <2>2. StoreKnown'
    BY <2>1, NoOrderKnown, ShowKnown DEF Known
  <2> QED BY <1>s, <2>1, <2>2 DEF Known
<1>3. ASSUME NEW i \in 1..Len(recentOrders), LoadRecentOrder(i) PROVE Known'
  <2>1. /\ selectedOrder'.data = recentOrders[i]
        /\ UNCHANGED <<call, row, createResult, recentOrders, edits>>
    BY <1>3, ShownShaped DEF LoadRecentOrder
  <2>2. KnownOrNone(recentOrders[i], row)
    BY DEF Known, StoreKnown, ListKnown, KnownOrNone
  <2>3. StoreKnown'
    BY <2>1, <2>2, ShowKnown DEF Known
  <2> QED BY <1>s, <2>1, <2>3 DEF Known
<1>4. CASE UNCHANGED vars
  <2>1. UNCHANGED <<call, row, createResult, selectedOrder, recentOrders, edits>>
    BY <1>4 DEF vars
  <2> QED BY <1>s, <2>1, SameGrows, StoreGrows DEF Known
<1> QED
  BY <1>1, <1>2, <1>3, <1>4, ReloadKnown, SubmissionKnown, LoadingKnown, CancellationKnown,
     PanelKnown, ServeKnown DEF Next

\* With what the page waits for, what it shows is always stored.
THEOREM KnownInvariance == Spec => [](Inv /\ Known)
<1>1. Known /\ Inv /\ [Next]_vars => Known'
  BY KnownStep DEF Inv
<1> QED BY <1>1, KnownInit, Invariance, PTL DEF Spec

\* Every variable has its type, whatever number of keys and requests there is.
THEOREM TypeCorrect == Spec => []TypeOK
<1>1. Inv /\ Known => TypeOK
  <2> SUFFICES ASSUME Inv, Known PROVE TypeOK
    OBVIOUS
  <2> DEFINE Sent == [kind : {"submit", "load", "cancel"}, id : Keys,
                      saved : Order \cup {NoOrder}, reply : Reply \cup {NoReply},
                      awaited : BOOLEAN]
             Panes == {Request(p, NoOrder, NoOrder) : p \in Panels}
  <2>1. ASSUME NEW c \in Calls PROVE call[c] \in {Idle} \cup Panes \cup Sent
    <3>0. /\ Shaped(call[c]) /\ CallKept(call[c], used, row) /\ CallKnown(call[c], row)
      BY DEF Inv, Base, Shape, CallsKept, Known, CallsKnown
    <3>1. CASE call[c].kind = "none"
      BY <3>0, <3>1 DEF CallKept
    <3>2. CASE call[c].kind \in Panels
      <4>1. /\ call[c].id = NoOrder /\ call[c].saved = NoOrder /\ call[c].reply = NoReply
            /\ call[c].awaited = TRUE
        BY <3>0, <3>2 DEF CallKnown, CallKept, Shaped
      <4>2. call[c] = Request(call[c].kind, NoOrder, NoOrder)
        BY <3>0, <4>1 DEF Shaped, Request
      <4> QED BY <3>2, <4>2
    <3>3. CASE call[c].kind \in {"submit", "load", "cancel"}
      <4>1. /\ call[c].id \in Keys /\ call[c].saved \in Order \cup {NoOrder}
            /\ call[c].reply \in Reply \cup {NoReply} /\ call[c].awaited \in BOOLEAN
        BY <3>0, <3>3 DEF CallKnown, KnownOrNone, KnownOrder, Shaped
      <4>2. call[c] \in Sent
        BY <3>0, <3>3, <4>1 DEF Shaped
      <4> QED BY <4>2
    <3> QED BY <3>0, <3>1, <3>2, <3>3 DEF CallKnown
  <2>2. call \in [Calls -> {Idle} \cup Panes \cup Sent]
    <3> HIDE DEF Panes, Sent
    <3> QED BY <2>1 DEF Inv, Base, Shape
  <2>3. createResult \in Slice /\ selectedOrder \in Slice
    <3>1. ASSUME NEW x, Slicelike(x), KnownOrNone(x.data, row) PROVE x \in Slice
      BY <3>1 DEF Slicelike, Slice, KnownOrNone, KnownOrder
    <3> QED BY <3>1 DEF Inv, Base, Shape, Known, StoreKnown
  <2>4. /\ key \in used /\ used \subseteq Keys /\ panelLoading \in [Panels -> BOOLEAN]
        /\ row \in [Keys -> Statuses \cup {"none"}] /\ edits \in 0..MaxEdits
        /\ recentOrders \in Seq(Order) /\ Len(recentOrders) <= MaxRecent
    BY DEF Inv, Base, Shape, Known, StoreKnown, ListKnown
  <2> QED BY <2>2, <2>3, <2>4 DEF TypeOK
<1> QED BY <1>1, KnownInvariance, PTL

\* useOrderStore: through late, lost and overtaken answers, reloads and any number of
\* requests, an outcome shown by any panel is the one the server has stored.
THEOREM OutcomesStored == Spec => []OutcomesAreStored
<1>1. Known => OutcomesAreStored
  BY DEF Known, StoreKnown, ListKnown, KnownOrNone, KnownOrder, OutcomesAreStored, ShownOrders
<1> QED BY <1>1, KnownInvariance, PTL

\* mergeRecentOrders: the list of recent orders, which the browser keeps over reloads, never
\* grows beyond MAX_RECENT_ORDERS and never shows one order twice.
THEOREM RecentDistinct == Spec => [](Distinct(recentOrders) /\ Len(recentOrders) <= MaxRecent)
<1>1. Known => Distinct(recentOrders) /\ Len(recentOrders) <= MaxRecent
  BY DEF Known, StoreKnown, ListKnown
<1> QED BY <1>1, KnownInvariance, PTL
==============================================================================
