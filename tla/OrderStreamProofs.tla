-------------------------- MODULE OrderStreamProofs --------------------------
(***************************************************************************)
(* Proofs about OrderStream, for any number of subscribers, writes, lost   *)
(* connections and faults.                                                 *)
(***************************************************************************)
EXTENDS OrderStream, TLAPS, SequenceTheorems

USE DEF database, listener, broker, server, env, Goto, Row

\* The type invariant in parts; and what the listener publishes is a version.
DatabaseTypes ==
  /\ log \in Seq(Version) /\ log # << >>
  /\ time \in 0..MaxTime
  /\ began \in [Writes -> 0..MaxTime]
  /\ wpc \in [Writes -> {"idle", "open", "done"}]

ListenerTypes ==
  /\ listening \in BOOLEAN
  /\ inbox \in Seq(1..Row)
  /\ lpc \in {"read", "deliver", "publish", "down", "ids", "snapshot", "stopped"}
  /\ update \in 0..Row
  /\ lpc \in {"deliver", "publish"} => update # 0

Held == {<< >>} \cup {<<n>> : n \in 1..Row}

BrokerTypes ==
  /\ subscribed \subseteq Subscribers
  /\ closed \in BOOLEAN
  /\ channel \in [Subscribers -> Held]
  /\ todo \subseteq Subscribers
  /\ sending \in Subscribers \cup {NoSubscriber}

ServerTypes ==
  /\ spc \in [Subscribers -> {"idle", "load", "drain", "stream", "leave", "done"}]
  /\ initial \in [Subscribers -> 0..Row]
  /\ latest \in [Subscribers -> 0..Row]
  /\ seen \in [Subscribers -> 0..Row]

EnvTypes ==
  /\ stopping \in BOOLEAN
  /\ losses \in 0..MaxLosses
  /\ faults \in 0..MaxFaults
  /\ unheard \subseteq 1..Row

TypeInv == DatabaseTypes /\ ListenerTypes /\ BrokerTypes /\ ServerTypes /\ EnvTypes

LEMMA TypeParts == TypeInv => TypeOK
  BY DEF TypeInv, TypeOK, DatabaseTypes, ListenerTypes, BrokerTypes, ServerTypes, EnvTypes,
         Held

\* The row exists, and a step that leaves a component alone keeps its types.
LEMMA Kept ==
  ASSUME TypeInv
  PROVE  /\ Row \in Nat /\ Row > 0
         /\ UNCHANGED database => DatabaseTypes'
         /\ UNCHANGED <<log, listener>> => ListenerTypes'
         /\ UNCHANGED <<log, broker>> => BrokerTypes'
         /\ UNCHANGED <<log, server>> => ServerTypes'
         /\ UNCHANGED <<log, env>> => EnvTypes'
<1>1. Row \in Nat /\ Row > 0
  BY DEF TypeInv, DatabaseTypes
<1>2. UNCHANGED database => DatabaseTypes'
  BY DEF TypeInv, DatabaseTypes
<1>3. UNCHANGED <<log, listener>> => ListenerTypes'
  BY DEF TypeInv, ListenerTypes
<1>4. UNCHANGED <<log, broker>> => BrokerTypes'
  BY DEF TypeInv, BrokerTypes, Held
<1>5. UNCHANGED <<log, server>> => ServerTypes'
  BY DEF TypeInv, ServerTypes
<1>6. UNCHANGED <<log, env>> => EnvTypes'
  BY DEF TypeInv, EnvTypes
<1> QED BY <1>1, <1>2, <1>3, <1>4, <1>5, <1>6

LEMMA TypeInit == Init => TypeInv
<1> SUFFICES ASSUME Init PROVE TypeInv
  OBVIOUS
<1>1. [content |-> Placed, stamp |-> 0] \in Version
  BY ConstantsAssumption DEF Version
<1>2. log \in Seq(Version) /\ log # << >> /\ Len(log) = 1
  BY <1>1 DEF Init
<1>3. DatabaseTypes
  BY <1>2, ConstantsAssumption DEF Init, DatabaseTypes
<1>4. ListenerTypes
  BY <1>2 DEF Init, ListenerTypes
<1>5. BrokerTypes
  BY DEF Init, BrokerTypes, Held
<1>6. ServerTypes
  BY <1>2 DEF Init, ServerTypes
<1>7. EnvTypes
  <2>1. 0 \in 0..MaxLosses /\ 0 \in 0..MaxFaults
    BY ConstantsAssumption
  <2> QED BY <2>1 DEF Init, EnvTypes
<1> QED BY <1>3, <1>4, <1>5, <1>6, <1>7 DEF TypeInv

\* A commit adds a version, which widens every variable that names one.
LEMMA TypeCommit ==
  ASSUME TypeInv, NEW w \in Writes, NEW c \in Contents, Commit(w, c)
  PROVE  TypeInv'
<1>1. log \in Seq(Version) /\ Len(log) \in Nat /\ began[w] \in 0..MaxTime
  BY DEF TypeInv, DatabaseTypes
<1>2. [content |-> c, stamp |-> began[w]] \in Version
  BY <1>1 DEF Version
<1>3. log' \in Seq(Version) /\ log' # << >> /\ Len(log') = Len(log) + 1
  BY <1>1, <1>2, AppendProperties DEF Commit
<1>4. 1..Len(log) \subseteq 1..Len(log') /\ 0..Len(log) \subseteq 0..Len(log')
  BY <1>1, <1>3
<1>5. DatabaseTypes'
  <2>1. wpc' \in [Writes -> {"idle", "open", "done"}]
    BY DEF Commit, TypeInv, DatabaseTypes
  <2> QED BY <1>3, <2>1 DEF Commit, TypeInv, DatabaseTypes
<1>6. inbox' \in Seq(1..Len(log'))
  <2>1. inbox \in Seq(1..Len(log'))
    BY <1>4, SeqMonotonic DEF TypeInv, ListenerTypes
  <2>2. Append(inbox, Len(log) + 1) \in Seq(1..Len(log'))
    BY <1>1, <1>3, <2>1, AppendProperties
  <2> QED BY <2>1, <2>2 DEF Commit
<1>7. ListenerTypes'
  BY <1>4, <1>6 DEF Commit, TypeInv, ListenerTypes
<1>8. BrokerTypes'
  <2>1. Held \subseteq Held'
    BY <1>4 DEF Held
  <2>2. channel' \in [Subscribers -> Held']
    BY <2>1 DEF Commit, TypeInv, BrokerTypes
  <2> QED BY <2>2 DEF Commit, TypeInv, BrokerTypes
<1>9. ServerTypes'
  BY <1>4 DEF Commit, TypeInv, ServerTypes
<1>10. EnvTypes'
  <2>1. unheard \subseteq 1..Len(log') /\ Len(log) + 1 \in 1..Len(log')
    BY <1>1, <1>3, <1>4 DEF TypeInv, EnvTypes
  <2> QED BY <2>1 DEF Commit, TypeInv, EnvTypes
<1> QED BY <1>5, <1>7, <1>8, <1>9, <1>10 DEF TypeInv

LEMMA TypeListener ==
  ASSUME TypeInv, ListenerStep
  PROVE  TypeInv'
<1>1. DatabaseTypes' /\ BrokerTypes' /\ ServerTypes'
  BY Kept DEF ListenerStep, ReadNotification, ReadFails, Reconnect, OrderIDs, LoadSnapshot,
              SnapshotFails, ListenerStops
<1>2. ListenerTypes'
  <2>1. CASE ReadNotification
    <3>1. inbox \in Seq(1..Row) /\ inbox # << >> /\ UNCHANGED log
      BY <2>1 DEF ReadNotification, TypeInv, ListenerTypes
    <3>2. Head(inbox) \in 1..Row /\ Tail(inbox) \in Seq(1..Row)
      BY <3>1, HeadTailProperties
    <3> QED BY <2>1, <3>1, <3>2, Kept DEF ReadNotification, TypeInv, ListenerTypes
  <2>2. CASE Reconnect \/ ListenerStops
    <3>1. inbox' = << >> /\ lpc' \in {"ids", "stopped"} /\ listening' \in BOOLEAN
          /\ UNCHANGED <<log, update>>
      BY <2>2 DEF Reconnect, ListenerStops
    <3>2. inbox' \in Seq(1..Row)
      BY <3>1
    <3> QED BY <3>1, <3>2 DEF TypeInv, ListenerTypes
  <2>3. CASE LoadSnapshot
    <3>1. update' \in 1..Row /\ UNCHANGED <<log, inbox, listening>> /\ lpc' = "deliver"
      BY <2>3, Kept DEF LoadSnapshot
    <3> QED BY <3>1 DEF TypeInv, ListenerTypes
  <2>4. CASE ReadFails \/ OrderIDs \/ SnapshotFails
    BY <2>4 DEF ReadFails, OrderIDs, SnapshotFails, TypeInv, ListenerTypes
  <2> QED BY <2>1, <2>2, <2>3, <2>4 DEF ListenerStep
<1>3. EnvTypes'
  <2>1. CASE SnapshotFails
    BY <2>1, ConstantsAssumption DEF SnapshotFails, TypeInv, EnvTypes
  <2>2. CASE ~SnapshotFails
    BY <2>2, Kept DEF ListenerStep, ReadNotification, ReadFails, Reconnect, OrderIDs,
                      LoadSnapshot, ListenerStops
  <2> QED BY <2>1, <2>2
<1> QED BY <1>1, <1>2, <1>3 DEF TypeInv

LEMMA TypeBroker ==
  ASSUME TypeInv, BrokerStep \/ CloseBroker
  PROVE  TypeInv'
<1>1. DatabaseTypes' /\ ServerTypes' /\ EnvTypes'
  BY Kept DEF BrokerStep, Publish, Published, Send, DropOldest, SendAgain, CloseBroker
<1>2. CASE Publish \/ Published \/ CloseBroker
  <2>1. ListenerTypes'
    BY <1>2 DEF Publish, Published, CloseBroker, TypeInv, ListenerTypes
  <2>2. BrokerTypes'
    BY <1>2 DEF Publish, Published, CloseBroker, TypeInv, BrokerTypes, Held
  <2> QED BY <1>1, <2>1, <2>2 DEF TypeInv
<1>3. ASSUME NEW s \in Subscribers, Send(s) \/ SendAgain(s) PROVE TypeInv'
  <2>1. ListenerTypes'
    BY <1>3, Kept DEF Send, SendAgain
  <2>2. <<update>> \in Held
    BY <1>3, Kept DEF Send, SendAgain, TypeInv, ListenerTypes, Held
  <2>3. Held' = Held
    BY <1>3 DEF Send, SendAgain, Held
  <2>4. channel' \in [Subscribers -> Held]
    BY <1>3, <2>2 DEF Send, SendAgain, TypeInv, BrokerTypes
  <2>5. BrokerTypes'
    BY <1>3, <2>3, <2>4 DEF Send, SendAgain, TypeInv, BrokerTypes
  <2> QED BY <1>1, <2>1, <2>5 DEF TypeInv
<1>4. ASSUME NEW s \in Subscribers, DropOldest(s) PROVE TypeInv'
  <2>1. ListenerTypes'
    BY <1>4, Kept DEF DropOldest
  <2>2. Held' = Held /\ << >> \in Held
    BY <1>4 DEF DropOldest, Held
  <2>3. BrokerTypes'
    BY <1>4, <2>2 DEF DropOldest, TypeInv, BrokerTypes
  <2> QED BY <1>1, <2>1, <2>3 DEF TypeInv
<1> QED BY <1>2, <1>3, <1>4 DEF BrokerStep

LEMMA TypeServer ==
  ASSUME TypeInv, NEW s \in Subscribers, Subscribe(s) \/ ServerStep(s) \/ Leave(s)
  PROVE  TypeInv'
<1>1. DatabaseTypes' /\ ListenerTypes' /\ EnvTypes' /\ UNCHANGED log
  BY Kept DEF Subscribe, ServerStep, Leave, GetByID, DrainLatest, SendInitial, SendUpdate,
              EndOfUpdates, Unsubscribe
<1>2. ASSUME channel[s] # << >> PROVE Head(channel[s]) \in 1..Row
  <2>1. PICK n \in 1..Row : channel[s] = <<n>>
    BY <1>2 DEF TypeInv, BrokerTypes, Held
  <2> QED BY <2>1
<1>3. BrokerTypes'
  <2>1. Held' = Held /\ << >> \in Held
    BY <1>1 DEF Held
  <2>2. CASE DrainLatest(s) \/ SendUpdate(s)
    BY <2>1, <2>2 DEF DrainLatest, SendUpdate, TypeInv, BrokerTypes
  <2>3. CASE Subscribe(s) \/ Unsubscribe(s)
    BY <2>1, <2>3 DEF Subscribe, Unsubscribe, TypeInv, BrokerTypes
  <2>4. CASE GetByID(s) \/ SendInitial(s) \/ EndOfUpdates(s) \/ Leave(s)
    BY <1>1, <2>4, Kept DEF GetByID, SendInitial, EndOfUpdates, Leave
  <2> QED BY <2>2, <2>3, <2>4 DEF ServerStep
<1>4. ServerTypes'
  <2>1. CASE Subscribe(s) \/ Leave(s) \/ EndOfUpdates(s) \/ Unsubscribe(s)
    BY <2>1 DEF Subscribe, Leave, EndOfUpdates, Unsubscribe, TypeInv, ServerTypes
  <2>2. CASE GetByID(s)
    BY <2>2, Kept DEF GetByID, TypeInv, ServerTypes
  <2>3. CASE DrainLatest(s)
    <3>1. Head(channel[s]) \in 0..Row
      BY <1>2, <2>3, Kept DEF DrainLatest
    <3> QED BY <2>3, <3>1 DEF DrainLatest, TypeInv, ServerTypes
  <2>4. CASE SendInitial(s)
    <3>1. latest[s] \in 0..Row /\ initial[s] \in 0..Row
      BY DEF TypeInv, ServerTypes
    <3> QED BY <2>4, <3>1 DEF SendInitial, TypeInv, ServerTypes
  <2>5. CASE SendUpdate(s)
    <3>1. Head(channel[s]) \in 0..Row
      BY <1>2, <2>5, Kept DEF SendUpdate
    <3> QED BY <2>5, <3>1 DEF SendUpdate, TypeInv, ServerTypes
  <2> QED BY <2>1, <2>2, <2>3, <2>4, <2>5 DEF ServerStep
<1> QED BY <1>1, <1>3, <1>4 DEF TypeInv

LEMMA TypeStep == TypeInv /\ [Next]_vars => TypeInv'
<1> SUFFICES ASSUME TypeInv, [Next]_vars PROVE TypeInv'
  OBVIOUS
<1>1. CASE Tick
  <2>1. DatabaseTypes'
    BY <1>1, ConstantsAssumption DEF Tick, TypeInv, DatabaseTypes
  <2> QED BY <1>1, <2>1, Kept DEF Tick, TypeInv
<1>2. ASSUME NEW w \in Writes, Begin(w) PROVE TypeInv'
  <2>1. DatabaseTypes'
    BY <1>2 DEF Begin, TypeInv, DatabaseTypes
  <2> QED BY <1>2, <2>1, Kept DEF Begin, TypeInv
<1>3. ASSUME NEW w \in Writes, NEW c \in Contents \ {Placed}, Commit(w, c) PROVE TypeInv'
  BY <1>3, TypeCommit
<1>4. CASE ConnectionLost
  <2>1. PICK n \in 0..Len(inbox) :
          /\ inbox' = SubSeq(inbox, 1, n)
          /\ unheard' = unheard \cup {inbox[i] : i \in n + 1..Len(inbox)}
    BY <1>4 DEF ConnectionLost
  <2>2. inbox \in Seq(1..Row) /\ Len(inbox) \in Nat
    BY DEF TypeInv, ListenerTypes
  <2>3. \A i \in 1..n : inbox[i] \in 1..Row
    BY <2>2, ElementOfSeq
  <2>4. inbox' \in Seq(1..Row)
    BY <2>1, <2>2, <2>3, SubSeqProperties
  <2>5. ListenerTypes'
    BY <1>4, <2>4 DEF ConnectionLost, TypeInv, ListenerTypes
  <2>6. EnvTypes'
    <3>1. \A i \in n + 1..Len(inbox) : inbox[i] \in 1..Row
      BY <2>2, ElementOfSeq
    <3>2. unheard' \subseteq 1..Row /\ UNCHANGED log
      BY <1>4, <2>1, <3>1 DEF ConnectionLost, TypeInv, EnvTypes
    <3> QED BY <1>4, <3>2, ConstantsAssumption DEF ConnectionLost, TypeInv, EnvTypes
  <2> QED BY <1>4, <2>5, <2>6, Kept DEF ConnectionLost, TypeInv
<1>5. CASE ListenerStep
  BY <1>5, TypeListener
<1>6. CASE BrokerStep \/ CloseBroker
  BY <1>6, TypeBroker
<1>7. ASSUME NEW s \in Subscribers, Subscribe(s) \/ ServerStep(s) \/ Leave(s) PROVE TypeInv'
  BY <1>7, TypeServer
<1>8. CASE Shutdown
  <2>1. EnvTypes'
    BY <1>8 DEF Shutdown, TypeInv, EnvTypes
  <2> QED BY <1>8, <2>1, Kept DEF Shutdown, TypeInv
<1>9. CASE UNCHANGED vars
  BY <1>9, Kept DEF vars, TypeInv
<1> QED BY <1>1, <1>2, <1>3, <1>4, <1>5, <1>6, <1>7, <1>8, <1>9 DEF Next

\* Every variable of the update stream keeps its type.
THEOREM TypeCorrect == Spec => []TypeOK
  BY TypeParts, TypeInit, TypeStep, PTL DEF Spec

------------------------------------------------------------------------------
\* Publish is done with a subscriber when it has sent to it, and with all of them
\* when it gives the lock back.
Publishing ==
  /\ ~Locked => todo = {} /\ sending = NoSubscriber
  /\ sending # NoSubscriber => sending \in todo

IInv == TypeOK /\ Publishing /\ SendsAreSafe

LEMMA SafeListener ==
  ASSUME IInv, ListenerStep
  PROVE  Publishing' /\ SendsAreSafe'
  BY DEF IInv, Publishing, SendsAreSafe, Locked, ListenerStep, ReadNotification, ReadFails,
         Reconnect, OrderIDs, LoadSnapshot, SnapshotFails, ListenerStops

LEMMA SafeBroker ==
  ASSUME IInv, BrokerStep \/ CloseBroker
  PROVE  Publishing' /\ SendsAreSafe'
<1>0. channel \in [Subscribers -> {<< >>} \cup {<<n>> : n \in 1..Len(log)}]
  BY DEF IInv, TypeOK
<1>1. CASE Publish \/ Published \/ CloseBroker
  BY <1>1 DEF IInv, Publishing, SendsAreSafe, Locked, Publish, Published, CloseBroker
<1>2. ASSUME NEW s \in Subscribers, Send(s) PROVE Publishing' /\ SendsAreSafe'
  BY <1>2 DEF IInv, Publishing, SendsAreSafe, Locked, Send
<1>3. ASSUME NEW s \in Subscribers, DropOldest(s) PROVE Publishing' /\ SendsAreSafe'
  BY <1>0, <1>3 DEF IInv, Publishing, SendsAreSafe, Locked, DropOldest
<1>4. ASSUME NEW s \in Subscribers, SendAgain(s) PROVE Publishing' /\ SendsAreSafe'
  BY <1>4 DEF IInv, Publishing, SendsAreSafe, Locked, SendAgain
<1> QED BY <1>1, <1>2, <1>3, <1>4 DEF BrokerStep

\* A subscriber takes from its channel, and comes and goes only while nothing is being
\* published.
LEMMA SafeServer ==
  ASSUME IInv, NEW s \in Subscribers, Subscribe(s) \/ ServerStep(s) \/ Leave(s)
  PROVE  Publishing' /\ SendsAreSafe'
<1>0. channel \in [Subscribers -> {<< >>} \cup {<<n>> : n \in 1..Len(log)}]
  BY DEF IInv, TypeOK
<1>1. CASE Subscribe(s) \/ Unsubscribe(s)
  BY <1>1 DEF IInv, Publishing, SendsAreSafe, Locked, Subscribe, Unsubscribe
<1>2. CASE DrainLatest(s) \/ SendUpdate(s)
  <2>1. channel' = [channel EXCEPT ![s] = << >>]
        /\ UNCHANGED <<lpc, subscribed, todo, sending>>
    BY <1>2 DEF DrainLatest, SendUpdate
  <2>2. sending # NoSubscriber => sending \in Subscribers /\ channel[sending] = << >>
    BY DEF IInv, TypeOK, SendsAreSafe
  <2>3. sending # NoSubscriber => channel'[sending] = << >>
    BY <1>0, <2>1, <2>2
  <2> QED BY <2>1, <2>3 DEF IInv, Publishing, SendsAreSafe, Locked
<1>3. CASE GetByID(s) \/ SendInitial(s) \/ EndOfUpdates(s) \/ Leave(s)
  BY <1>3 DEF IInv, Publishing, SendsAreSafe, Locked, GetByID, SendInitial, EndOfUpdates,
              Leave
<1> QED BY <1>1, <1>2, <1>3 DEF ServerStep

LEMMA SafeStep == IInv /\ [Next]_vars => Publishing' /\ SendsAreSafe'
<1> SUFFICES ASSUME IInv, [Next]_vars PROVE Publishing' /\ SendsAreSafe'
  OBVIOUS
<1>1. CASE ListenerStep
  BY <1>1, SafeListener
<1>2. CASE BrokerStep \/ CloseBroker
  BY <1>2, SafeBroker
<1>3. ASSUME NEW s \in Subscribers, Subscribe(s) \/ ServerStep(s) \/ Leave(s)
      PROVE  Publishing' /\ SendsAreSafe'
  BY <1>3, SafeServer
<1>4. CASE Tick \/ ConnectionLost \/ Shutdown \/ UNCHANGED vars
  BY <1>4 DEF IInv, Publishing, SendsAreSafe, Locked, Tick, ConnectionLost, Shutdown, vars
<1>5. ASSUME NEW w \in Writes, Begin(w) PROVE Publishing' /\ SendsAreSafe'
  BY <1>5 DEF IInv, Publishing, SendsAreSafe, Locked, Begin
<1>6. ASSUME NEW w \in Writes, NEW c \in Contents, Commit(w, c)
      PROVE  Publishing' /\ SendsAreSafe'
  BY <1>6 DEF IInv, Publishing, SendsAreSafe, Locked, Commit
<1> QED BY <1>1, <1>2, <1>3, <1>4, <1>5, <1>6 DEF Next

\* However many subscribers come and go, and whenever the broker is closed, Publish
\* never sends to a closed channel and never waits for a subscriber.
THEOREM PublishIsSafe == Spec => []SendsAreSafe
<1>1. Init => Publishing /\ SendsAreSafe
  BY ConstantsAssumption DEF Init, Publishing, SendsAreSafe
<1>2. TypeOK /\ Publishing /\ SendsAreSafe /\ [Next]_vars => Publishing' /\ SendsAreSafe'
  BY SafeStep DEF IInv
<1> QED BY <1>1, <1>2, TypeCorrect, PTL DEF Spec

------------------------------------------------------------------------------
(***************************************************************************)
(* No update is missed.  While the connection stands, the last             *)
(* notification to be read is that of the row, so what is older is always  *)
(* followed by the row itself or, after a lost connection, by a snapshot.  *)
(***************************************************************************)
Queued == inbox # << >> /\ inbox[Len(inbox)] = Row
Missed == Row \in unheard /\ ~listening
Older == lpc \in {"deliver", "publish"} /\ update # Row

InOrder ==
  /\ inbox # << >> \/ Older => (Queued \/ Missed)
  /\ lpc = "down" => inbox = << >> /\ ~listening

\* The row is on its way to the subscriber: read by the listener, in the channel, or due
\* with the next snapshot; unless a snapshot failed or the listener has stopped.
Pending(s) ==
  /\ lpc \in {"deliver", "publish"} /\ update = Row
  /\ Locked => s \in todo
Due == Row \in unheard /\ (~listening \/ lpc \in {"ids", "snapshot"})
GivenUp == lpc = "stopped" \/ (Row \in unheard /\ (faults > 0 \/ stopping))
Coming(s) == Queued \/ Pending(s) \/ channel[s] = <<Row>> \/ Due \/ GivenUp

\* Or else it has arrived, or is about to be read from the table.
Has(s) ==
  /\ channel[s] = << >>
  /\ \/ spc[s] = "load"
     \/ spc[s] = "drain" /\ initial[s] = Row /\ latest[s] = 0
     \/ spc[s] = "drain" /\ latest[s] = Row
     \/ spc[s] = "stream" /\ (Current(s) \/ Outdated(s))

Active(s) == s \in subscribed /\ spc[s] \in {"load", "drain", "stream"}
Begins(s) ==
  /\ spc[s] = "idle" => s \notin subscribed /\ channel[s] = << >>
  /\ spc[s] \in {"idle", "load"} => latest[s] = 0
  /\ spc[s] = "drain" => initial[s] # 0
Informed(s) == Begins(s) /\ (Active(s) => Coming(s) \/ Has(s))

SInv == TypeInv /\ IInv /\ InOrder /\ \A s \in Subscribers : Informed(s)

LEMMA InformedInit == Init => InOrder /\ \A s \in Subscribers : Informed(s)
  BY DEF Init, InOrder, Older, Informed, Begins, Active

\* The listener's steps, and those of its connection.
LEMMA InboxTail ==
  ASSUME TypeInv, inbox # << >>
  PROVE  /\ Tail(inbox) = << >> => Head(inbox) = inbox[Len(inbox)]
         /\ Tail(inbox) # << >> => Tail(inbox)[Len(Tail(inbox))] = inbox[Len(inbox)]
<1>1. inbox \in Seq(1..Row) /\ Len(inbox) \in Nat /\ Len(inbox) # 0
  BY DEF TypeInv, ListenerTypes
<1>2. /\ Tail(inbox) \in Seq(1..Row) /\ Len(Tail(inbox)) = Len(inbox) - 1
      /\ \A i \in 1..Len(Tail(inbox)) : Tail(inbox)[i] = inbox[i + 1]
  BY <1>1, HeadTailProperties
<1>3. CASE Tail(inbox) = << >>
  <2>1. Len(inbox) = 1
    <3>1. Len(Tail(inbox)) = 0
      BY <1>2, <1>3, EmptySeq
    <3>2. Len(inbox) - 1 = 0
      BY <1>2, <3>1
    <3> QED BY <1>1, <3>2
  <2> QED BY <1>1, <1>3, <2>1
<1>4. CASE Tail(inbox) # << >>
  <2>1. Len(Tail(inbox)) \in 1..Len(Tail(inbox))
    BY <1>2, <1>4
  <2> QED BY <1>1, <1>2, <1>4, <2>1
<1> QED BY <1>3, <1>4

LEMMA InboxCut ==
  ASSUME TypeInv, NEW n \in 0..Len(inbox),
         inbox' = SubSeq(inbox, 1, n),
         unheard' = unheard \cup {inbox[i] : i \in n + 1..Len(inbox)},
         UNCHANGED log
  PROVE  /\ n = Len(inbox) => inbox' = inbox
         /\ n # Len(inbox) /\ Queued => Row \in unheard'
<1>1. inbox \in Seq(1..Row) /\ Len(inbox) \in Nat
  BY DEF TypeInv, ListenerTypes
<1>2. CASE n = Len(inbox)
  BY <1>1, <1>2
<1>3. CASE n # Len(inbox)
  <2>1. Len(inbox) \in n + 1..Len(inbox)
    BY <1>1, <1>3
  <2> QED BY <1>1, <1>3, <2>1 DEF Queued
<1> QED BY <1>2, <1>3

LEMMA Lost ==
  ASSUME TypeInv, InOrder, ConnectionLost
  PROVE  InOrder' /\ \A s \in Subscribers : Coming(s) => Coming(s)'
<1>1. PICK n \in 0..Len(inbox) :
        /\ inbox' = SubSeq(inbox, 1, n)
        /\ unheard' = unheard \cup {inbox[i] : i \in n + 1..Len(inbox)}
  BY DEF ConnectionLost
<1>2. UNCHANGED <<log, lpc, update, channel, todo, stopping, faults>> /\ ~listening'
      /\ listening
  BY DEF ConnectionLost
<1>3. /\ n = Len(inbox) => inbox' = inbox
      /\ n # Len(inbox) /\ Queued => Row \in unheard'
  BY <1>1, <1>2, InboxCut
<1>4. Queued => Queued' \/ (Row \in unheard')
  BY <1>2, <1>3 DEF Queued
<1>5. Row' = Row /\ (Row \in unheard => Row \in unheard')
  BY <1>1, <1>2
<1>6. inbox' # << >> => inbox # << >>
  <2>1. inbox \in Seq(1..Row)
    BY DEF TypeInv, ListenerTypes
  <2> QED BY <1>1, <2>1
<1>7. InOrder'
  BY <1>2, <1>4, <1>5, <1>6 DEF InOrder, Older, Missed
<1>8. ASSUME NEW s \in Subscribers, Coming(s) PROVE Coming(s)'
  BY <1>2, <1>4, <1>5, <1>8 DEF Coming, Pending, Due, GivenUp, Locked
<1> QED BY <1>7, <1>8

LEMMA ListenerInOrder ==
  ASSUME TypeInv, InOrder, ListenerStep
  PROVE  InOrder'
<1>1. CASE ReadNotification
  <2>1. UNCHANGED <<log, listening, unheard>> /\ inbox # << >> /\ inbox' = Tail(inbox)
        /\ update' = Head(inbox) /\ lpc' = "deliver"
    BY <1>1 DEF ReadNotification
  <2>2. CASE Missed
    BY <2>1, <2>2 DEF InOrder, Missed
  <2>3. CASE Queued
    BY <2>1, <2>3, InboxTail DEF InOrder, Older, Queued
  <2> QED BY <2>1, <2>2, <2>3 DEF InOrder
<1>2. CASE ReadFails \/ Reconnect \/ LoadSnapshot \/ ListenerStops
  BY <1>2 DEF InOrder, Older, Queued, Missed, ReadFails, Reconnect, LoadSnapshot,
              ListenerStops
<1>3. CASE OrderIDs \/ SnapshotFails
  BY <1>3 DEF InOrder, Older, Queued, Missed, OrderIDs, SnapshotFails
<1> QED BY <1>1, <1>2, <1>3 DEF ListenerStep

LEMMA ListenerComing ==
  ASSUME TypeInv, InOrder, ListenerStep, NEW s \in subscribed, Coming(s)
  PROVE  Coming(s)'
<1>1. CASE ReadNotification
  <2>1. /\ UNCHANGED <<log, listening, unheard, channel, todo, faults, stopping>>
        /\ inbox # << >> /\ inbox' = Tail(inbox)
        /\ update' = Head(inbox) /\ lpc = "read" /\ lpc' = "deliver"
    BY <1>1 DEF ReadNotification
  <2>2. CASE Queued
    BY <2>1, <2>2, InboxTail DEF Coming, Pending, Queued, Locked
  <2>3. CASE ~Queued
    BY <2>1, <2>3 DEF Coming, Pending, Due, GivenUp
  <2> QED BY <2>2, <2>3
<1>2. CASE ReadFails \/ Reconnect \/ ListenerStops
  BY <1>2 DEF Coming, Queued, Pending, Due, GivenUp, InOrder, ReadFails, Reconnect,
              ListenerStops
<1>3. CASE OrderIDs \/ LoadSnapshot
  BY <1>3 DEF Coming, Queued, Pending, Due, GivenUp, Locked, OrderIDs, LoadSnapshot
<1>4. CASE SnapshotFails
  <2>1. faults \in Nat
    BY ConstantsAssumption DEF TypeInv, EnvTypes
  <2> QED BY <1>4, <2>1 DEF Coming, Queued, Pending, Due, GivenUp, SnapshotFails
<1> QED BY <1>1, <1>2, <1>3, <1>4 DEF ListenerStep

\* A commit is notified, or due with the next snapshot.
LEMMA CommitComing ==
  ASSUME TypeInv, InOrder, NEW w \in Writes, NEW c \in Contents, Commit(w, c)
  PROVE  InOrder' /\ \A s \in Subscribers : Coming(s)'
<1>1. Len(log) \in Nat /\ Len(log') = Len(log) + 1
  BY DEF Commit, TypeInv, DatabaseTypes
<1>2. CASE listening
  <2>1. inbox \in Seq(Nat) /\ inbox' = Append(inbox, Len(log')) /\ Len(log') \in Nat
    <3>1. 1..Row \subseteq Nat
      OBVIOUS
    <3> QED BY <1>1, <1>2, <3>1, SeqMonotonic DEF Commit, TypeInv, ListenerTypes
  <2>2. Queued'
    BY <2>1, AppendProperties DEF Queued
  <2> QED BY <1>2, <2>2 DEF Commit, InOrder, Coming
<1>3. CASE ~listening
  BY <1>1, <1>3 DEF Commit, InOrder, Missed, Coming, Due
<1> QED BY <1>2, <1>3 DEF TypeInv, ListenerTypes

\* The broker hands the row on, and replaces it only when it is still to come.
LEMMA BrokerInOrder ==
  ASSUME InOrder, BrokerStep \/ CloseBroker
  PROVE  InOrder'
<1>1. UNCHANGED <<log, listening, inbox, update, unheard>>
  BY DEF BrokerStep, CloseBroker, Publish, Published, Send, DropOldest, SendAgain
<1>2. /\ lpc' = "down" => lpc = "down"
      /\ lpc' \in {"deliver", "publish"} => lpc \in {"deliver", "publish"}
  BY DEF BrokerStep, CloseBroker, Publish, Published, Send, DropOldest, SendAgain
<1> QED BY <1>1, <1>2 DEF InOrder, Older, Queued, Missed

LEMMA BrokerInforms ==
  ASSUME TypeInv, IInv, InOrder, BrokerStep \/ CloseBroker,
         NEW s \in Subscribers, Informed(s)
  PROVE  Informed(s)'
<1>1. UNCHANGED <<log, listening, inbox, update, unheard, faults, stopping, server>>
  BY DEF BrokerStep, CloseBroker, Publish, Published, Send, DropOldest, SendAgain
<1>2. channel \in [Subscribers -> Held]
  BY DEF TypeInv, BrokerTypes
<1>3. CASE Publish
  <2>1. Begins(s)'
    BY <1>1, <1>3 DEF Publish, Informed, Begins
  <2>2. Active(s)' => Coming(s)' \/ Has(s)'
    BY <1>1, <1>3 DEF Publish, Informed, Active, Coming, Has, Queued, Pending, Due, GivenUp,
                      Current, Outdated
  <2> QED BY <2>1, <2>2 DEF Informed
<1>4. CASE Published
  <2>1. Begins(s)'
    BY <1>1, <1>4 DEF Published, Informed, Begins
  <2>2. Active(s)' => Coming(s)' \/ Has(s)'
    BY <1>1, <1>4 DEF Published, Informed, Active, Coming, Has, Queued, Pending, Due,
                      GivenUp, Current, Outdated, Locked
  <2> QED BY <2>1, <2>2 DEF Informed
<1>5. CASE CloseBroker
  BY <1>1, <1>5 DEF CloseBroker, Informed, Begins, Active
<1>6. ASSUME NEW t \in Subscribers, Send(t) \/ DropOldest(t) \/ SendAgain(t)
      PROVE  Informed(s)'
  <2>1. UNCHANGED <<lpc, subscribed>> /\ lpc = "publish"
    BY <1>6 DEF Send, DropOldest, SendAgain
  <2>2. t \in todo /\ t \in subscribed
    BY <1>6, ConstantsAssumption
       DEF Send, DropOldest, SendAgain, IInv, Publishing, SendsAreSafe
  <2>3. CASE s = t
    <3>1. Begins(s)'
      BY <1>1, <2>1, <2>2, <2>3 DEF Informed, Begins
    <3>2. Coming(s)'
      <4>1. CASE update = Row
        BY <1>1, <1>2, <1>6, <2>1, <2>2, <2>3, <4>1
           DEF Send, DropOldest, SendAgain, Coming, Pending, Locked
      <4>2. CASE update # Row
        BY <1>1, <2>1, <4>2 DEF InOrder, Older, Missed, Queued, Coming, Due
      <4> QED BY <4>1, <4>2
    <3> QED BY <3>1, <3>2 DEF Informed
  <2>4. CASE s # t
    <3>1. channel'[s] = channel[s] /\ (s \in todo' <=> s \in todo)
      BY <1>2, <1>6, <2>4 DEF Send, DropOldest, SendAgain
    <3>2. Begins(s)'
      BY <1>1, <2>1, <3>1 DEF Informed, Begins
    <3>3. Active(s)' => Coming(s)' \/ Has(s)'
      BY <1>1, <2>1, <3>1 DEF Informed, Active, Coming, Has, Queued, Pending, Due, GivenUp,
                              Current, Outdated, Locked
    <3> QED BY <3>2, <3>3 DEF Informed
  <2> QED BY <2>3, <2>4
<1> QED BY <1>3, <1>4, <1>5, <1>6 DEF BrokerStep

\* What a subscriber does: its first message is the row, or a version that replaces it.
LEMMA FirstMessage ==
  ASSUME TypeInv, NEW s \in Subscribers, SendInitial(s), Begins(s), Has(s)
  PROVE  Current(s)' \/ Outdated(s)'
<1>0. log \in Seq(Version) /\ Row \in Nat /\ Row > 0
  BY Kept DEF TypeInv, DatabaseTypes
<1>1. /\ UNCHANGED log /\ spc[s] = "drain"
      /\ seen'[s] = IF latest[s] # 0 /\ IsNewerUpdate(initial[s], latest[s])
                    THEN latest[s] ELSE initial[s]
  BY DEF SendInitial, TypeInv, ServerTypes
<1>2. initial[s] \in 1..Row
  BY <1>0, <1>1 DEF Begins, TypeInv, ServerTypes
<1>3. CASE initial[s] = Row /\ latest[s] = 0
  BY <1>1, <1>3 DEF Current
<1>4. CASE latest[s] = Row
  <2>1. log[Row] \in Version /\ log[initial[s]] \in Version
    BY <1>0, <1>2, ElementOfSeq
  <2>2. CASE IsNewerUpdate(initial[s], Row)
    BY <1>0, <1>1, <1>4, <2>2 DEF Current
  <2>3. CASE ~IsNewerUpdate(initial[s], Row)
    <3>1. seen'[s] = initial[s]
      BY <1>1, <1>4, <2>3
    <3>2. \/ log[Row].stamp < log[initial[s]].stamp
          \/ log[Row].stamp = log[initial[s]].stamp
             /\ log[Row].content = log[initial[s]].content
      BY <2>1, <2>3, ConstantsAssumption DEF IsNewerUpdate, Version
    <3>3. CASE log[Row].stamp < log[initial[s]].stamp
      BY <1>1, <2>1, <3>1, <3>3, ConstantsAssumption DEF Outdated, Version
    <3>4. CASE log[Row].stamp = log[initial[s]].stamp
               /\ log[Row].content = log[initial[s]].content
      <4>1. log[Row] = log[initial[s]]
        BY <2>1, <3>4 DEF Version
      <4> QED BY <1>1, <3>1, <4>1 DEF Current
    <3> QED BY <3>2, <3>3, <3>4
  <2> QED BY <2>2, <2>3
<1> QED BY <1>1, <1>3, <1>4 DEF Has

LEMMA ServerInOrder ==
  ASSUME InOrder, NEW s \in Subscribers, Subscribe(s) \/ ServerStep(s) \/ Leave(s)
  PROVE  InOrder'
<1>1. UNCHANGED <<log, listener, unheard>>
  BY DEF Subscribe, ServerStep, Leave, GetByID, DrainLatest, SendInitial, SendUpdate,
         EndOfUpdates, Unsubscribe
<1> QED BY <1>1 DEF InOrder, Older, Queued, Missed

LEMMA OtherServer ==
  ASSUME TypeInv, NEW t \in Subscribers, Subscribe(t) \/ ServerStep(t) \/ Leave(t),
         NEW s \in Subscribers, s # t, Informed(s)
  PROVE  Informed(s)'
<1>1. UNCHANGED <<log, listener, todo, env>>
  BY DEF Subscribe, ServerStep, Leave, GetByID, DrainLatest, SendInitial, SendUpdate,
         EndOfUpdates, Unsubscribe
<1>2. /\ channel'[s] = channel[s] /\ spc'[s] = spc[s] /\ initial'[s] = initial[s]
      /\ latest'[s] = latest[s] /\ seen'[s] = seen[s]
      /\ s \in subscribed' <=> s \in subscribed
  BY DEF Subscribe, ServerStep, Leave, GetByID, DrainLatest, SendInitial, SendUpdate,
         EndOfUpdates, Unsubscribe, TypeInv, BrokerTypes, ServerTypes
<1>3. Begins(s)'
  BY <1>2 DEF Informed, Begins
<1>4. Active(s)' => Coming(s)' \/ Has(s)'
  BY <1>1, <1>2 DEF Informed, Active, Coming, Has, Queued, Pending, Due, GivenUp, Current,
                    Outdated, Locked
<1> QED BY <1>3, <1>4 DEF Informed

LEMMA ServerInforms ==
  ASSUME TypeInv, InOrder, NEW s \in Subscribers, Subscribe(s) \/ ServerStep(s) \/ Leave(s),
         Informed(s)
  PROVE  Informed(s)'
<1>1. UNCHANGED <<log, listener, todo, env>>
  BY DEF Subscribe, ServerStep, Leave, GetByID, DrainLatest, SendInitial, SendUpdate,
         EndOfUpdates, Unsubscribe
<1>2. channel \in [Subscribers -> Held]
      /\ spc \in [Subscribers -> {"idle", "load", "drain", "stream", "leave", "done"}]
      /\ initial \in [Subscribers -> 0..Row] /\ latest \in [Subscribers -> 0..Row]
      /\ seen \in [Subscribers -> 0..Row] /\ Row > 0
  BY Kept DEF TypeInv, BrokerTypes, ServerTypes
<1>3. ASSUME channel'[s] = channel[s], Coming(s) PROVE Coming(s)'
  BY <1>1, <1>3 DEF Coming, Queued, Pending, Due, GivenUp, Locked
<1>4. ASSUME channel[s] # <<Row>>, Coming(s) PROVE Coming(s)'
  BY <1>1, <1>4 DEF Coming, Queued, Pending, Due, GivenUp, Locked
<1>5. CASE Subscribe(s)
  <2>1. Begins(s)'
    BY <1>2, <1>5 DEF Subscribe, Informed, Begins
  <2>2. Has(s)'
    BY <1>2, <1>5 DEF Subscribe, Informed, Begins, Has
  <2> QED BY <2>1, <2>2 DEF Informed
<1>6. CASE GetByID(s)
  <2>1. Begins(s)'
    BY <1>2, <1>6 DEF GetByID, Informed, Begins
  <2>2. Active(s)' => Coming(s)' \/ Has(s)'
    <3>1. channel' = channel /\ latest' = latest /\ subscribed' = subscribed
          /\ spc[s] = "load" /\ spc'[s] = "drain" /\ initial'[s] = Row
      BY <1>2, <1>6 DEF GetByID
    <3> QED BY <1>1, <1>3, <3>1 DEF Informed, Begins, Active, Has
  <2> QED BY <2>1, <2>2 DEF Informed
<1>7. CASE DrainLatest(s)
  <2>1. /\ spc' = spc /\ initial' = initial /\ subscribed' = subscribed
        /\ channel[s] # << >> /\ channel'[s] = << >> /\ spc[s] = "drain"
        /\ latest'[s] = Head(channel[s])
    BY <1>2, <1>7 DEF DrainLatest
  <2>2. Begins(s)'
    BY <2>1 DEF Informed, Begins
  <2>3. CASE channel[s] = <<Row>>
    BY <1>1, <2>1, <2>2, <2>3 DEF Informed, Has
  <2>4. CASE channel[s] # <<Row>>
    BY <1>4, <2>1, <2>2, <2>4 DEF Informed, Active, Has
  <2> QED BY <2>3, <2>4
<1>8. CASE SendInitial(s)
  <2>1. /\ initial' = initial /\ latest' = latest /\ UNCHANGED <<channel, subscribed>>
        /\ spc[s] = "drain" /\ spc'[s] = "stream"
    BY <1>2, <1>8 DEF SendInitial
  <2>2. Begins(s)'
    BY <2>1 DEF Informed, Begins
  <2>3. CASE Coming(s)
    BY <1>3, <2>1, <2>2, <2>3 DEF Informed
  <2>4. CASE Has(s)
    BY <1>8, <2>1, <2>2, <2>4, FirstMessage DEF Informed, Has
  <2> QED BY <2>1, <2>2, <2>3, <2>4 DEF Informed, Active
<1>9. CASE SendUpdate(s)
  <2>1. /\ spc' = spc /\ initial' = initial /\ latest' = latest /\ subscribed' = subscribed
        /\ channel[s] # << >> /\ channel'[s] = << >> /\ spc[s] = "stream"
        /\ seen'[s] = Head(channel[s])
    BY <1>2, <1>9 DEF SendUpdate
  <2>2. Begins(s)'
    BY <2>1 DEF Informed, Begins
  <2>3. CASE channel[s] = <<Row>>
    BY <1>1, <2>1, <2>2, <2>3 DEF Informed, Has, Current
  <2>4. CASE channel[s] # <<Row>>
    BY <1>4, <2>1, <2>2, <2>4 DEF Informed, Active, Has
  <2> QED BY <2>3, <2>4
<1>10. CASE EndOfUpdates(s) \/ Leave(s) \/ Unsubscribe(s)
  <2>1. spc'[s] \in {"done", "leave"}
    BY <1>2, <1>10 DEF EndOfUpdates, Leave, Unsubscribe
  <2> QED BY <2>1 DEF Informed, Begins, Active
<1> QED BY <1>5, <1>6, <1>7, <1>8, <1>9, <1>10 DEF ServerStep

LEMMA InformedStep ==
  ASSUME SInv, [Next]_vars
  PROVE  InOrder' /\ \A s \in Subscribers : Informed(s)'
<1>1. TypeInv /\ IInv /\ InOrder /\ \A s \in Subscribers : Informed(s)
  BY DEF SInv
<1>2. ASSUME UNCHANGED <<log, channel, todo, subscribed, server>>,
             NEW s \in Subscribers, Active(s) /\ Coming(s) => Coming(s)'
      PROVE  Informed(s)'
  <2>1. Begins(s)' /\ (Active(s)' <=> Active(s)) /\ (Has(s)' <=> Has(s))
    BY <1>1, <1>2 DEF Informed, Begins, Active, Has, Current, Outdated
  <2> QED BY <1>1, <1>2, <2>1 DEF Informed
<1>3. ASSUME NEW w \in Writes, NEW c \in Contents \ {Placed}, Commit(w, c)
      PROVE  InOrder' /\ \A s \in Subscribers : Informed(s)'
  <2>1. InOrder' /\ \A s \in Subscribers : Coming(s)'
    BY <1>1, <1>3, CommitComing
  <2>2. UNCHANGED <<channel, subscribed, server>>
    BY <1>3 DEF Commit
  <2>3. \A s \in Subscribers : Begins(s)'
    BY <1>1, <2>2 DEF Informed, Begins
  <2> QED BY <2>1, <2>3 DEF Informed
<1>4. CASE ConnectionLost
  <2>1. UNCHANGED <<log, channel, todo, subscribed, server>>
    BY <1>4 DEF ConnectionLost
  <2> QED BY <1>1, <1>2, <1>4, <2>1, Lost
<1>5. CASE ListenerStep
  <2>1. UNCHANGED <<log, channel, todo, subscribed, server>>
    BY <1>5 DEF ListenerStep, ReadNotification, ReadFails, Reconnect, OrderIDs,
                LoadSnapshot, SnapshotFails, ListenerStops
  <2>2. \A s \in Subscribers : Active(s) /\ Coming(s) => Coming(s)'
    BY <1>1, <1>5, ListenerComing DEF Active
  <2> QED BY <1>1, <1>2, <1>5, <2>1, <2>2, ListenerInOrder
<1>6. CASE BrokerStep \/ CloseBroker
  BY <1>1, <1>6, BrokerInOrder, BrokerInforms
<1>7. ASSUME NEW t \in Subscribers, Subscribe(t) \/ ServerStep(t) \/ Leave(t)
      PROVE  InOrder' /\ \A s \in Subscribers : Informed(s)'
  BY <1>1, <1>7, ServerInOrder, ServerInforms, OtherServer
<1>8. ASSUME Tick \/ Shutdown \/ UNCHANGED vars \/ (\E w \in Writes : Begin(w))
      PROVE  InOrder' /\ \A s \in Subscribers : Informed(s)'
  <2>1. UNCHANGED <<log, listener, broker, server, faults, unheard>>
        /\ (stopping => stopping')
    BY <1>8 DEF Tick, Shutdown, Begin, vars
  <2>2. InOrder'
    BY <1>1, <2>1 DEF InOrder, Older, Queued, Missed
  <2>3. \A s \in Subscribers : Coming(s) => Coming(s)'
    BY <2>1 DEF Coming, Queued, Pending, Due, GivenUp, Locked
  <2> QED BY <1>2, <2>1, <2>2, <2>3
<1> QED BY <1>3, <1>4, <1>5, <1>6, <1>7, <1>8 DEF Next

LEMMA Arrived == SInv => NothingMissed
<1> SUFFICES ASSUME SInv, lpc = "read", listening, inbox = << >>, ~stopping,
                    NEW s \in subscribed, spc[s] = "stream", channel[s] = << >>
             PROVE  Current(s) \/ Outdated(s) \/ (faults > 0 /\ Row \in unheard)
  BY DEF NothingMissed
<1>1. s \in Subscribers
  BY DEF SInv, TypeInv, BrokerTypes
<1> QED
  BY <1>1 DEF SInv, Informed, Active, Coming, Has, Queued, Pending, Due, GivenUp

\* SubscribeToOrderUpdates misses nothing: for any number of subscribers, updates, lost
\* connections and snapshots, in whatever order they meet, a stream that holds nothing
\* more shows the state the order is in.
THEOREM StreamsCatchUp == Spec => []NothingMissed
<1>1. Init => SInv
  <2>1. Init => Publishing /\ SendsAreSafe
    BY ConstantsAssumption DEF Init, Publishing, SendsAreSafe
  <2> QED BY <2>1, TypeInit, TypeParts, InformedInit DEF SInv, IInv
<1>2. SInv /\ [Next]_vars => SInv'
  <2>1. SInv /\ [Next]_vars => TypeInv' /\ TypeOK'
    BY TypeStep, TypeParts, PTL DEF SInv
  <2> QED BY <2>1, SafeStep, InformedStep DEF SInv, IInv
<1> QED BY <1>1, <1>2, Arrived, PTL DEF Spec
==============================================================================
