----------------------------- MODULE OrderStream -----------------------------
(***************************************************************************)
(* How the subscribers of one order learn of its updates.  A trigger       *)
(* notifies every commit of the row to the one connection that listens;    *)
(* the listener hands each notification to the broker, and the broker to   *)
(* the channel of every subscriber, each of which holds one update and     *)
(* gives way to the next.  SubscribeToOrderUpdates subscribes first, then  *)
(* reads the row, then sends whichever of the row and the update already   *)
(* buffered carries the later timestamp, and from then on every update.    *)
(*                                                                         *)
(* The timestamp of a version is NOW() of its transaction: the time it     *)
(* began, not the time it was committed.                                   *)
(*                                                                         *)
(* Orders do not meet anywhere in this part, so the module is about one.   *)
(* A version of the row is named by its place in the order of commits.     *)
(***************************************************************************)
EXTENDS Naturals, Sequences

CONSTANTS Contents,      \* what a version says: its status and payment transaction
          Placed,        \* what the first one says
          Subscribers,   \* executions of SubscribeToOrderUpdates
          Writes,        \* transactions that update the order
          NoSubscriber,
          MaxTime,       \* bound: ticks of the database clock
          MaxLosses,     \* bound: lost connections of the listener
          MaxFaults      \* bound: other failures of the snapshot query

ASSUME ConstantsAssumption ==
  /\ Placed \in Contents
  /\ NoSubscriber \notin Subscribers
  /\ MaxTime \in Nat /\ MaxLosses \in Nat /\ MaxFaults \in Nat

Version == [content : Contents, stamp : 0..MaxTime]

VARIABLES
  \* the database
  log,        \* the committed versions of the row; the last is the row
  time,
  began,      \* the time at which each open transaction began
  wpc,        \* where each transaction is
  \* the listener
  listening,  \* whether the server has its connection
  inbox,      \* notifications sent to it and not read yet
  lpc,
  update,     \* the version the listener is about to publish
  \* the broker
  subscribed, \* the subscribers whose channel is in the map, and open
  closed,
  channel,    \* what each channel holds: nothing or one version
  todo,       \* Publish: the subscribers still to be served
  sending,    \* sendLatest: whose full channel it has just emptied
  \* the stream server
  spc,
  initial,    \* the version read from the table
  latest,     \* the last version drained from the channel, or 0
  seen,       \* the last version sent to the client, or 0
  \* the environment
  stopping, losses, faults,
  unheard     \* the versions whose notification reached nobody

database == <<log, time, began, wpc>>
listener == <<listening, inbox, lpc, update>>
broker == <<subscribed, closed, channel, todo, sending>>
server == <<spc, initial, latest, seen>>
env == <<stopping, losses, faults, unheard>>
vars == <<log, time, began, wpc, listening, inbox, lpc, update, subscribed, closed,
          channel, todo, sending, spc, initial, latest, seen, stopping, losses, faults,
          unheard>>

Row == Len(log)

\* Publish holds the read lock, so nobody takes the write lock meanwhile.
Locked == lpc = "publish"

Goto(s, label) == spc' = [spc EXCEPT ![s] = label]

Init ==
  /\ log = <<[content |-> Placed, stamp |-> 0]>>
  /\ time = 0
  /\ began = [w \in Writes |-> 0]
  /\ wpc = [w \in Writes |-> "idle"]
  /\ listening = TRUE
  /\ inbox = << >>
  /\ lpc = "read"
  /\ update = 0
  /\ subscribed = {}
  /\ closed = FALSE
  /\ channel = [s \in Subscribers |-> << >>]
  /\ todo = {}
  /\ sending = NoSubscriber
  /\ spc = [s \in Subscribers |-> "idle"]
  /\ initial = [s \in Subscribers |-> 0]
  /\ latest = [s \in Subscribers |-> 0]
  /\ seen = [s \in Subscribers |-> 0]
  /\ stopping = FALSE
  /\ losses = 0
  /\ faults = 0
  /\ unheard = {}

------------------------------------------------------------------------------
\* The database

Tick ==
  /\ time < MaxTime
  /\ time' = time + 1
  /\ UNCHANGED <<log, began, wpc, listener, broker, server, env>>

Begin(w) ==
  /\ wpc[w] = "idle"
  /\ wpc' = [wpc EXCEPT ![w] = "open"]
  /\ began' = [began EXCEPT ![w] = time]
  /\ UNCHANGED <<log, time, listener, broker, server, env>>

\* Transactions take the row in any order; the trigger's notification goes to a
\* connection that listens at the time of the commit, in the order of commits.
Commit(w, content) ==
  /\ wpc[w] = "open"
  /\ wpc' = [wpc EXCEPT ![w] = "done"]
  /\ log' = Append(log, [content |-> content, stamp |-> began[w]])
  /\ IF listening THEN inbox' = Append(inbox, Len(log) + 1) /\ UNCHANGED unheard
                  ELSE unheard' = unheard \cup {Len(log) + 1} /\ UNCHANGED inbox
  /\ UNCHANGED <<time, began, listening, lpc, update, broker, server, stopping, losses, faults>>

\* The connection breaks.  What the driver had read already is still delivered.
ConnectionLost ==
  /\ listening
  /\ losses < MaxLosses
  /\ losses' = losses + 1
  /\ listening' = FALSE
  /\ \E n \in 0..Len(inbox) :
       /\ inbox' = SubSeq(inbox, 1, n)
       /\ unheard' = unheard \cup {inbox[i] : i \in n + 1..Len(inbox)}
  /\ UNCHANGED <<database, lpc, update, broker, server, stopping, faults>>

------------------------------------------------------------------------------
\* The listener, one goroutine

ReadNotification ==
  /\ lpc = "read"
  /\ inbox # << >>
  /\ update' = Head(inbox)
  /\ inbox' = Tail(inbox)
  /\ lpc' = "deliver"
  /\ UNCHANGED <<database, listening, broker, server, env>>

ReadFails ==
  /\ lpc = "read"
  /\ inbox = << >> /\ ~listening
  /\ lpc' = "down"
  /\ UNCHANGED <<database, listening, inbox, update, broker, server, env>>

Reconnect ==
  /\ lpc = "down" /\ ~stopping
  /\ listening' = TRUE
  /\ inbox' = << >>
  /\ lpc' = "ids"
  /\ UNCHANGED <<database, update, broker, server, env>>

\* Mutant: after a reconnection the listener just goes on reading.
NoSnapshots ==
  /\ lpc = "ids"
  /\ lpc' = "read"
  /\ UNCHANGED <<database, listening, inbox, update, broker, server, env>>

\* publishSnapshots: only orders somebody has subscribed to are read again.
OrderIDs ==
  /\ lpc = "ids"
  /\ lpc' = IF subscribed = {} THEN "read" ELSE "snapshot"
  /\ UNCHANGED <<database, listening, inbox, update, broker, server, env>>

LoadSnapshot ==
  /\ lpc = "snapshot"
  /\ listening
  /\ update' = Row
  /\ lpc' = "deliver"
  /\ UNCHANGED <<database, listening, inbox, broker, server, env>>

\* The error is logged, and the listener goes on with the new connection.
SnapshotFails ==
  /\ lpc = "snapshot"
  /\ \/ (~listening \/ stopping) /\ UNCHANGED faults
     \/ faults < MaxFaults /\ faults' = faults + 1
  /\ lpc' = "read"
  /\ UNCHANGED <<database, listening, inbox, update, broker, server, stopping, losses, unheard>>

ListenerStops ==
  /\ stopping
  /\ lpc \in {"read", "down"}
  /\ lpc' = "stopped"
  /\ listening' = FALSE
  /\ inbox' = << >>
  /\ UNCHANGED <<database, update, broker, server, env>>

------------------------------------------------------------------------------
\* The broker

\* Publish takes the read lock and goes through the subscribers, in any order.
Publish ==
  /\ lpc = "deliver"
  /\ lpc' = "publish"
  /\ todo' = subscribed
  /\ UNCHANGED <<database, listening, inbox, update, subscribed, closed, channel, sending,
                 server, env>>

Published ==
  /\ lpc = "publish" /\ todo = {}
  /\ lpc' = "read"
  /\ UNCHANGED <<database, listening, inbox, update, broker, server, env>>

\* Mutant: a channel with room for more than one update.
SendAnyway(s) ==
  /\ lpc = "publish" /\ s \in todo /\ sending = NoSubscriber
  /\ channel' = [channel EXCEPT ![s] = Append(@, update)]
  /\ todo' = todo \ {s}
  /\ UNCHANGED <<database, listener, subscribed, closed, sending, server, env>>

\* sendLatest: a send that finds room, ...
Send(s) ==
  /\ lpc = "publish" /\ s \in todo /\ sending = NoSubscriber
  /\ channel[s] = << >>
  /\ channel' = [channel EXCEPT ![s] = <<update>>]
  /\ todo' = todo \ {s}
  /\ UNCHANGED <<database, listener, subscribed, closed, sending, server, env>>

\* Mutant: the update that is buffered is left where it is.
DropNothing(s) ==
  /\ lpc = "publish" /\ s \in todo /\ sending = NoSubscriber
  /\ channel[s] # << >>
  /\ sending' = s
  /\ UNCHANGED <<database, listener, subscribed, closed, channel, todo, server, env>>

\* ... or else the older update is dropped, if the subscriber does not take it first, ...
DropOldest(s) ==
  /\ lpc = "publish" /\ s \in todo /\ sending = NoSubscriber
  /\ channel[s] # << >>
  /\ sending' = s
  /\ channel' = [channel EXCEPT ![s] = << >>]
  /\ UNCHANGED <<database, listener, subscribed, closed, todo, server, env>>

\* ... and a second send, which waits for room.
SendAgain(s) ==
  /\ lpc = "publish" /\ sending = s
  /\ channel[s] = << >>
  /\ channel' = [channel EXCEPT ![s] = <<update>>]
  /\ todo' = todo \ {s}
  /\ sending' = NoSubscriber
  /\ UNCHANGED <<database, listener, subscribed, closed, server, env>>

\* Mutant: Close without the lock.
CloseUnlocked ==
  /\ stopping /\ ~closed
  /\ closed' = TRUE
  /\ subscribed' = {}
  /\ UNCHANGED <<database, listener, channel, todo, sending, server, env>>

\* Close: every channel is closed, with what it still holds, and none is added later.
CloseBroker ==
  /\ stopping /\ ~closed
  /\ ~Locked
  /\ closed' = TRUE
  /\ subscribed' = {}
  /\ UNCHANGED <<database, listener, channel, todo, sending, server, env>>

------------------------------------------------------------------------------
\* The stream server

Subscribe(s) ==
  /\ spc[s] = "idle"
  /\ ~Locked
  /\ subscribed' = IF closed THEN subscribed ELSE subscribed \cup {s}
  /\ Goto(s, "load")
  /\ UNCHANGED <<database, listener, closed, channel, todo, sending, initial, latest, seen,
                 env>>

GetByID(s) ==
  /\ spc[s] = "load"
  /\ initial' = [initial EXCEPT ![s] = Row]
  /\ Goto(s, "drain")
  /\ UNCHANGED <<database, listener, broker, latest, seen, env>>

DrainLatest(s) ==
  /\ spc[s] = "drain"
  /\ channel[s] # << >>
  /\ latest' = [latest EXCEPT ![s] = Head(channel[s])]
  /\ channel' = [channel EXCEPT ![s] = << >>]
  /\ UNCHANGED <<database, listener, subscribed, closed, todo, sending, spc, initial, seen,
                 env>>

\* Mutant: of two updates with one time the buffered one is dropped.
IsLaterUpdate(old, new) == log[new].stamp > log[old].stamp

IsNewerUpdate(old, new) ==
  \/ log[new].stamp > log[old].stamp
  \/ log[new].stamp = log[old].stamp /\ log[new].content # log[old].content

\* The channel is empty: the first message goes out.
SendInitial(s) ==
  /\ spc[s] = "drain"
  /\ channel[s] = << >>
  /\ LET buffered == latest[s] # 0 /\ IsNewerUpdate(initial[s], latest[s])
     IN  seen' = [seen EXCEPT ![s] = IF buffered THEN latest[s] ELSE initial[s]]
  /\ Goto(s, "stream")
  /\ UNCHANGED <<database, listener, broker, initial, latest, env>>

SendUpdate(s) ==
  /\ spc[s] = "stream"
  /\ channel[s] # << >>
  /\ seen' = [seen EXCEPT ![s] = Head(channel[s])]
  /\ channel' = [channel EXCEPT ![s] = << >>]
  /\ UNCHANGED <<database, listener, subscribed, closed, todo, sending, spc, initial,
                 latest, env>>

\* The channel is closed and empty.
EndOfUpdates(s) ==
  /\ spc[s] = "stream"
  /\ channel[s] = << >> /\ s \notin subscribed
  /\ Goto(s, "done")
  /\ UNCHANGED <<database, listener, broker, initial, latest, seen, env>>

\* The client goes away, the time limit passes, or the order cannot be read.
Leave(s) ==
  /\ spc[s] \in {"load", "drain", "stream"}
  /\ Goto(s, "leave")
  /\ UNCHANGED <<database, listener, broker, initial, latest, seen, env>>

\* The deferred cancel of the subscription.
Unsubscribe(s) ==
  /\ spc[s] = "leave"
  /\ ~Locked
  /\ subscribed' = subscribed \ {s}
  /\ Goto(s, "done")
  /\ UNCHANGED <<database, listener, closed, channel, todo, sending, initial, latest, seen,
                 env>>

Shutdown ==
  /\ ~stopping
  /\ stopping' = TRUE
  /\ UNCHANGED <<database, listener, broker, server, losses, faults, unheard>>

------------------------------------------------------------------------------
ListenerStep ==
  \/ ReadNotification \/ ReadFails \/ Reconnect \/ OrderIDs \/ LoadSnapshot
  \/ SnapshotFails \/ ListenerStops
BrokerStep ==
  Publish \/ Published \/ \E s \in Subscribers : Send(s) \/ DropOldest(s) \/ SendAgain(s)
ServerStep(s) ==
  \/ GetByID(s) \/ DrainLatest(s) \/ SendInitial(s) \/ SendUpdate(s)
  \/ EndOfUpdates(s) \/ Unsubscribe(s)

Next ==
  \/ Tick \/ \E w \in Writes : Begin(w) \/ \E c \in Contents \ {Placed} : Commit(w, c)
  \/ ConnectionLost \/ ListenerStep \/ BrokerStep
  \/ \E s \in Subscribers : Subscribe(s) \/ ServerStep(s) \/ Leave(s)
  \/ Shutdown \/ CloseBroker

Spec == Init /\ [][Next]_vars

\* The goroutines run, and the database can be reached again after a while.
FairSpec ==
  /\ Spec
  /\ WF_vars(ListenerStep) /\ WF_vars(BrokerStep) /\ WF_vars(CloseBroker)
  /\ \A s \in Subscribers : WF_vars(ServerStep(s))

------------------------------------------------------------------------------
\* Every variable has its type.
TypeOK ==
  /\ log \in Seq(Version) /\ log # << >>
  /\ time \in 0..MaxTime
  /\ began \in [Writes -> 0..MaxTime]
  /\ wpc \in [Writes -> {"idle", "open", "done"}]
  /\ listening \in BOOLEAN
  /\ inbox \in Seq(1..Row)
  /\ lpc \in {"read", "deliver", "publish", "down", "ids", "snapshot", "stopped"}
  /\ update \in 0..Row
  /\ subscribed \subseteq Subscribers
  /\ closed \in BOOLEAN
  /\ channel \in [Subscribers -> {<< >>} \cup {<<n>> : n \in 1..Row}]
  /\ todo \subseteq Subscribers
  /\ sending \in Subscribers \cup {NoSubscriber}
  /\ spc \in [Subscribers -> {"idle", "load", "drain", "stream", "leave", "done"}]
  /\ {initial, latest, seen} \subseteq [Subscribers -> 0..Row]
  /\ stopping \in BOOLEAN
  /\ losses \in 0..MaxLosses /\ faults \in 0..MaxFaults
  /\ unheard \subseteq 1..Row

\* Publish never sends to a channel that Close or an unsubscription has closed, which
\* would panic, and its second send never waits for a slow subscriber, which would
\* hold the lock against everybody else.
SendsAreSafe ==
  /\ todo \subseteq subscribed
  /\ sending # NoSubscriber => channel[sending] = << >>

\* Through lost connections, snapshots, slow subscribers and late subscriptions, a
\* stream that stays open ends with the state the order is in.  Two cases are beyond
\* the code: a version that committed last but began earlier than the one the client
\* was sent first, and a snapshot that failed on a working connection, after which a
\* stream lacks a version that was not heard of, until the next one is.
Current(s) == log[seen[s]] = log[Row]
Outdated(s) == log[seen[s]].stamp > log[Row].stamp
CaughtUp ==
  \A s \in Subscribers :
    <>[](spc[s] = "stream" => Current(s) \/ Outdated(s) \/ (faults > 0 /\ Row \in unheard))

\* What CaughtUp ends in, as a condition on each state: whenever the listener has read all
\* there is and a stream has sent all it holds, the stream shows the state the order is in,
\* but for the same two cases.  Nothing is lost between the trigger's notification, the
\* snapshot, the channel and the row read by a subscription that begins meanwhile.
NothingMissed ==
  lpc = "read" /\ listening /\ inbox = << >> /\ ~stopping =>
    \A s \in subscribed :
      spc[s] = "stream" /\ channel[s] = << >> =>
        Current(s) \/ Outdated(s) \/ (faults > 0 /\ Row \in unheard)

\* TestServerSubscribeToOrderUpdatesPrefersBufferedUpdateOverStaleSnapshot
\* (server_test.go:119): an update that was committed after the row was read goes out
\* first.
BufferedUpdateWins ==
  [][\A s \in Subscribers :
       seen[s] = 0 /\ seen'[s] # 0 /\ latest[s] > initial[s]
       => log[seen'[s]] = log[latest[s]]]_vars
==============================================================================
