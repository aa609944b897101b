---------------------------- MODULE ServiceProofs ----------------------------
(***************************************************************************)
(* Proofs about Service and its parts Migrations and Metrics, for any      *)
(* number of processes, migration files, requests, starts and failures:    *)
(* migrations are applied once and in order, pages of metrics add up, and  *)
(* an orderly shutdown loses nothing that was accepted.                    *)
(***************************************************************************)
EXTENDS Service, DataLemmas

USE DEF Migration!Goto, Become

\* How a step looks to the database: a step of some process in migrate.Run, or its end.
Ends(p) == phase' = [phase EXCEPT ![p] = "down"] /\ UNCHANGED <<file, versions, schema>>
Migrates(p) ==
  \/ Migration!Start(p) \/ Migration!CreateTable(p) \/ Migration!Check(p) \/ Migration!Apply(p)
  \/ Migration!Record(p) \/ Migration!Commit(p) \/ Migration!Fail(p) \/ Ends(p)

LEMMA MigrationCases ==
  ASSUME [Next]_vars
  PROVE  (\E p \in Processes : Migrates(p)) \/ UNCHANGED migration
<1>1. ASSUME NEW p \in Processes,
             \/ Start(p) \/ Migrate(p) \/ LosesMigration(p) \/ Stopped(p) \/ Fails(p)
      PROVE  Migrates(p)
  BY <1>1 DEF Start, Migrate, LosesMigration, Stopped, Fails, Migrates, Ends, Migration!Step,
              Migration!Conflict
<1>2. ASSUME NEW p \in Processes,
             Serve(p) \/ Scrape(p) \/ Signal(p) \/ Shutdown(p) \/ LimitPasses(p)
      PROVE  UNCHANGED migration
  BY <1>2 DEF Serve, Scrape, Signal, Shutdown, LimitPasses
<1>3. ASSUME NEW h \in Requests,
             \/ Handle(h) \/ Answer(h)
             \/ \E p \in Processes, q \in Metric!Request : Accept(h, p, q)
      PROVE  UNCHANGED migration
  BY <1>3 DEF Handle, Answer, Accept
<1>4. CASE UNCHANGED vars
  BY <1>4 DEF vars
<1> QED BY <1>1, <1>2, <1>3, <1>4 DEF Next

------------------------------------------------------------------------------
\* A process that is past a file found it recorded; one with the file in its
\* transaction is alone with it, and one about to commit it is the first.
MigrationTypes == Migration!TypeOK
Passed ==
  \A p \in Processes :
    phase[p] \in {"check", "apply", "record", "commit", "ready"}
      => \A f \in 1..Files : f < file[p] => f \in versions
Places ==
  \A p \in Processes :
    /\ phase[p] \in {"apply", "record", "commit"} => file[p] \in 1..Files
    /\ phase[p] = "ready" => file[p] > Files
    /\ phase[p] = "commit" => file[p] \notin versions
Alone ==
  \A p, q \in Processes :
    Migration!Uncommitted(p) /\ Migration!Uncommitted(q) /\ file[p] = file[q] => p = q
Applied ==
  /\ \A f \in 1..Files : schema[f] = IF f \in versions THEN 1 ELSE 0
  /\ \A f \in versions : 1..f \subseteq versions

MigrationInv == MigrationTypes /\ Passed /\ Places /\ Alone /\ Applied

LEMMA MigrationInit == Init => MigrationInv
<1> SUFFICES ASSUME Migration!Init PROVE MigrationInv
  BY DEF Init
<1>1. /\ phase = [p \in Processes |-> "down"] /\ file = [p \in Processes |-> 1]
      /\ versions = {} /\ schema = [f \in 1..Files |-> 0]
  BY DEF Migration!Init
<1>2. MigrationTypes
  BY <1>1, ServiceAssumption DEF MigrationTypes, Migration!TypeOK, Migration!Phases
<1>3. Passed /\ Places /\ Alone
  BY <1>1 DEF Passed, Places, Alone, Migration!Uncommitted
<1>4. Applied
  BY <1>1 DEF Applied
<1> QED BY <1>2, <1>3, <1>4 DEF MigrationInv

LEMMA MigrationTyped ==
  ASSUME MigrationInv
  PROVE  /\ phase \in [Processes -> Migration!Phases] /\ file \in [Processes -> 1..Files + 1]
         /\ versions \subseteq 1..Files /\ schema \in [1..Files -> Nat] /\ Files \in Nat
  BY ServiceAssumption DEF MigrationInv, MigrationTypes, Migration!TypeOK

\* The steps that change no more than where a process is.
LEMMA MigrationWalks ==
  ASSUME MigrationInv, NEW p \in Processes,
         \/ Migration!Start(p) \/ Migration!CreateTable(p) \/ Migration!Check(p) \/ Ends(p)
         \/ Migration!Apply(p) \/ Migration!Record(p)
  PROVE  MigrationInv'
<1>1. UNCHANGED <<versions, schema>>
  BY DEF Migration!Start, Migration!CreateTable, Migration!Check, Migration!Apply,
         Migration!Record, Ends
<1>2. \A q \in Processes : q # p => phase'[q] = phase[q] /\ file'[q] = file[q]
  BY MigrationTyped DEF Migration!Start, Migration!CreateTable, Migration!Check,
     Migration!Apply, Migration!Record, Ends
<1>3. /\ phase' \in [Processes -> Migration!Phases] /\ file' \in [Processes -> 1..Files + 1]
  <2>1. phase' = phase \/ \E label \in Migration!Phases : phase' = [phase EXCEPT ![p] = label]
    BY DEF Migration!Start, Migration!CreateTable, Migration!Check, Migration!Apply,
       Migration!Record, Ends, Migration!Phases
  <2>2. phase' \in [Processes -> Migration!Phases]
    BY <2>1, MigrationTyped
  <2>3. 1 \in 1..Files + 1 /\ (file[p] \in versions => file[p] + 1 \in 1..Files + 1)
    BY MigrationTyped
  <2>4. \/ file' = file \/ file' = [file EXCEPT ![p] = 1]
        \/ file[p] \in versions /\ file' = [file EXCEPT ![p] = @ + 1]
    BY DEF Migration!Start, Migration!CreateTable, Migration!Check, Migration!Apply,
       Migration!Record, Ends
  <2>5. file' \in [Processes -> 1..Files + 1]
    BY <2>3, <2>4, MigrationTyped
  <2> QED BY <2>2, <2>5
<1>4. MigrationTypes'
  BY <1>1, <1>3, MigrationTyped DEF MigrationTypes, Migration!TypeOK
<1>5. /\ phase'[p] \in {"check", "apply", "record", "commit", "ready"}
           => \A f \in 1..Files : f < file'[p] => f \in versions
      /\ phase'[p] \in {"apply", "record", "commit"} => file'[p] \in 1..Files
      /\ phase'[p] = "ready" => file'[p] > Files
      /\ phase'[p] = "commit" => file'[p] \notin versions
  <2>1. CASE Migration!Start(p) \/ Ends(p) \/ Migration!CreateTable(p)
    BY <2>1, MigrationTyped DEF Migration!Start, Migration!CreateTable, Ends, Migration!Phases
  <2>2. CASE Migration!Check(p)
    <3>1. \A f \in 1..Files : f < file[p] => f \in versions
      BY <2>2 DEF Migration!Check, MigrationInv, Passed
    <3> QED BY <2>2, <3>1, MigrationTyped DEF Migration!Check, Migration!Phases
  <2>3. CASE Migration!Apply(p) \/ Migration!Record(p)
    <3>1. phase[p] \in {"apply", "record"}
      BY <2>3 DEF Migration!Apply, Migration!Record
    <3>2. (\A f \in 1..Files : f < file[p] => f \in versions) /\ file[p] \in 1..Files
      BY <3>1 DEF MigrationInv, Passed, Places
    <3> QED BY <2>3, <3>2, MigrationTyped DEF Migration!Apply, Migration!Record
  <2> QED BY <2>1, <2>2, <2>3
<1>6. Passed' /\ Places'
  BY <1>1, <1>2, <1>5 DEF MigrationInv, Passed, Places
<1>7. Alone'
  <2>1. Migration!Uncommitted(p)' => \A q \in Processes \ {p} :
          Migration!Uncommitted(q) => file[q] # file'[p]
    BY MigrationTyped DEF Migration!Start, Migration!CreateTable, Migration!Check,
       Migration!Apply, Migration!Record, Ends, Migration!Uncommitted, MigrationInv, Alone
  <2> QED BY <1>2, <2>1 DEF MigrationInv, Alone, Migration!Uncommitted
<1>8. Applied'
  BY <1>1 DEF MigrationInv, Applied
<1> QED BY <1>4, <1>6, <1>7, <1>8 DEF MigrationInv

\* A commit, heard of or not.
LEMMA MigrationCommits ==
  ASSUME MigrationInv, NEW p \in Processes, phase[p] = "commit", Migration!Committed(p),
         \/ phase' = [phase EXCEPT ![p] = "check"] /\ file' = [file EXCEPT ![p] = @ + 1]
         \/ phase' = [phase EXCEPT ![p] = "down"] /\ UNCHANGED file
  PROVE  MigrationInv'
<1>1. /\ file[p] \in 1..Files /\ file[p] \notin versions
      /\ \A f \in 1..Files : f < file[p] => f \in versions
  BY DEF MigrationInv, Places, Passed
<1>2. /\ versions' = versions \cup {file[p]}
      /\ schema' = [schema EXCEPT ![file[p]] = @ + 1]
  BY DEF Migration!Committed
<1>3. \A q \in Processes : q # p => phase'[q] = phase[q] /\ file'[q] = file[q]
  BY MigrationTyped
<1>4. phase' \in [Processes -> Migration!Phases] /\ file' \in [Processes -> 1..Files + 1]
  <2>1. phase' \in [Processes -> Migration!Phases]
    <3>1. "check" \in Migration!Phases /\ "down" \in Migration!Phases
      BY DEF Migration!Phases
    <3> QED BY <3>1, MigrationTyped
  <2>2. file[p] + 1 \in 1..Files + 1
    BY <1>1, MigrationTyped
  <2>3. file' \in [Processes -> 1..Files + 1]
    BY <2>2, MigrationTyped
  <2> QED BY <2>1, <2>3
<1>5. MigrationTypes'
  BY <1>1, <1>2, <1>4, MigrationTyped DEF MigrationTypes, Migration!TypeOK
<1>6. Passed'
  <2>1. ASSUME NEW q \in Processes \ {p}, NEW f \in 1..Files, f < file[q],
               phase[q] \in {"check", "apply", "record", "commit", "ready"}
        PROVE  f \in versions'
    BY <1>2, <2>1 DEF MigrationInv, Passed
  <2>2. phase'[p] = "down" \/ (phase'[p] = "check" /\ file'[p] = file[p] + 1)
    <3>0. file \in [Processes -> 1..Files + 1]
      BY MigrationTyped
    <3>1. ASSUME phase' = [phase EXCEPT ![p] = "check"], file' = [file EXCEPT ![p] = @ + 1]
          PROVE  phase'[p] = "check" /\ file'[p] = file[p] + 1
      BY <3>0, <3>1, MigrationTyped
    <3>2. ASSUME phase' = [phase EXCEPT ![p] = "down"] PROVE phase'[p] = "down"
      BY <3>2, MigrationTyped
    <3> QED BY <3>1, <3>2, Zenon
  <2>3. ASSUME NEW f \in 1..Files, f < file[p] + 1 PROVE f \in versions'
    BY <1>1, <1>2, <2>3
  <2> QED BY <1>3, <2>1, <2>2, <2>3 DEF Passed
<1>7. \A q \in Processes \ {p} : phase[q] = "commit" => file[q] # file[p]
  BY DEF MigrationInv, Alone, Migration!Uncommitted
<1>8. phase'[p] \in {"check", "down"}
  BY MigrationTyped
<1>9. Places'
  BY <1>2, <1>3, <1>7, <1>8 DEF MigrationInv, Places
<1>10. Alone'
  BY <1>3, <1>8 DEF MigrationInv, Alone, Migration!Uncommitted
<1>11. Applied'
  <2>1. \A f \in 1..Files : schema'[f] = IF f = file[p] THEN schema[f] + 1 ELSE schema[f]
    BY <1>1, <1>2, MigrationTyped
  <2>2. \A f \in 1..Files : schema'[f] = IF f \in versions' THEN 1 ELSE 0
    BY <1>1, <1>2, <2>1 DEF MigrationInv, Applied
  <2>3. 1..file[p] \subseteq versions'
    BY <1>1, <1>2, MigrationTyped
  <2>4. \A f \in versions' : 1..f \subseteq versions'
    BY <1>2, <2>3 DEF MigrationInv, Applied
  <2> QED BY <2>2, <2>4 DEF Applied
<1> QED BY <1>5, <1>6, <1>9, <1>10, <1>11 DEF MigrationInv

LEMMA MigrationStep == MigrationInv /\ [Next]_vars => MigrationInv'
<1> SUFFICES ASSUME MigrationInv, [Next]_vars PROVE MigrationInv'
  OBVIOUS
<1>1. CASE UNCHANGED migration
  BY <1>1 DEF migration, MigrationInv, MigrationTypes, Migration!TypeOK, Passed, Places, Alone,
              Applied, Migration!Uncommitted
<1>2. ASSUME NEW p \in Processes, Migrates(p) PROVE MigrationInv'
  <2>1. CASE Migration!Commit(p)
    BY <2>1, MigrationCommits DEF Migration!Commit
  <2>2. CASE Migration!Fail(p)
    <3>1. CASE phase[p] = "commit" /\ Migration!Committed(p)
      BY <2>2, <3>1, MigrationCommits DEF Migration!Fail
    <3>2. CASE UNCHANGED <<versions, schema>>
      BY <2>2, <3>2, MigrationWalks DEF Migration!Fail, Ends
    <3> QED BY <2>2, <3>1, <3>2 DEF Migration!Fail
  <2> QED BY <1>2, <2>1, <2>2, MigrationWalks DEF Migrates
<1> QED BY <1>1, <1>2, MigrationCases

\* However many processes start, fail and die at the same time, every file is applied
\* once and in order, and who gets through migrate.Run finds all of them applied.
THEOREM Migrated == Spec => []MigratedInOrder
<1>1. Init => MigrationInv
  BY MigrationInit
<1>2. MigrationInv /\ [Next]_vars => MigrationInv'
  BY MigrationStep
<1>3. MigrationInv => MigratedInOrder
  <2> SUFFICES ASSUME MigrationInv PROVE MigratedInOrder
    OBVIOUS
  <2>1. \A p \in Processes : phase[p] = "ready" => versions = 1..Files
    <3> SUFFICES ASSUME NEW p \in Processes, phase[p] = "ready" PROVE versions = 1..Files
      OBVIOUS
    <3>1. file[p] > Files /\ file[p] \in 1..Files + 1
      BY MigrationTyped DEF MigrationInv, Places
    <3>2. \A f \in 1..Files : f < file[p]
      BY <3>1, MigrationTyped
    <3> QED BY <3>2, MigrationTyped DEF MigrationInv, Passed
  <2> QED BY <2>1 DEF MigrationInv, Applied, MigratedInOrder, Migration!MigratedInOrder
<1> QED BY <1>1, <1>2, <1>3, PTL DEF Spec

------------------------------------------------------------------------------
\* The life of a process: once its HTTP server is shut down only streams are left.
LifeTypes ==
  /\ status \in [Processes -> Statuses]
  /\ outcome \in [Requests -> Outcomes]
  /\ starts \in 0..MaxStarts /\ failures \in 0..MaxFailures

Stopping == \A p \in Processes : status[p] = "stopping" => InFlight(p) \subseteq Streams

LEMMA LifeInit == Init => LifeTypes /\ Stopping
<1> SUFFICES ASSUME Init PROVE LifeTypes /\ Stopping
  OBVIOUS
<1>1. 0 \in 0..MaxStarts /\ 0 \in 0..MaxFailures
  BY ServiceAssumption
<1> QED BY <1>1 DEF Init, LifeTypes, Stopping, Statuses, Outcomes

LEMMA LifeTypesStep ==
  ASSUME LifeTypes, [Next]_vars
  PROVE  LifeTypes'
<1>1. starts \in Nat /\ failures \in Nat /\ MaxStarts \in Nat /\ MaxFailures \in Nat
  BY ServiceAssumption DEF LifeTypes
<1>2. ASSUME NEW p \in Processes,
             \/ Start(p) \/ LosesMigration(p) \/ Serve(p) \/ Signal(p) \/ Shutdown(p)
             \/ LimitPasses(p) \/ Stopped(p) \/ Fails(p)
      PROVE  LifeTypes'
  <2>1. \E s \in Statuses : status' = [status EXCEPT ![p] = s]
    BY <1>2 DEF Start, LosesMigration, Serve, Signal, Shutdown, LimitPasses, Stopped, Fails, Exit,
                Statuses
  <2>2. outcome' \in [Requests -> Outcomes]
    BY <1>2 DEF Start, LosesMigration, Serve, Signal, Shutdown, LimitPasses, Stopped, Fails, Exit,
                Outcomes, LifeTypes
  <2>3. starts' \in 0..MaxStarts
    BY <1>1, <1>2 DEF Start, LosesMigration, Serve, Signal, Shutdown, LimitPasses, Stopped, Fails,
                      LifeTypes
  <2>4. failures' \in 0..MaxFailures
    BY <1>1, <1>2 DEF Start, LosesMigration, Serve, Signal, Shutdown, LimitPasses, Stopped, Fails,
                      LifeTypes
  <2> QED BY <2>1, <2>2, <2>3, <2>4 DEF LifeTypes
<1>3. ASSUME NEW h \in Requests, Answer(h) PROVE LifeTypes'
  BY <1>3 DEF Answer, LifeTypes, Outcomes
<1>4. CASE UNCHANGED life
  BY <1>4 DEF life, LifeTypes
<1> QED BY <1>2, <1>3, <1>4 DEF Next, Migrate, Scrape, Handle, Accept, vars

\* What a request is and where it runs changes when it is accepted and when its
\* process ends.
LEMMA RequestsKept ==
  ASSUME [Next]_vars, NEW h \in Requests,
         ~\E p \in Processes, q \in Metric!Request : Accept(h, p, q)
  PROVE  request'[h] = request[h] /\ (at'[h] = at[h] \/ at'[h] = Nobody)
<1>1. CASE UNCHANGED <<at, request>>
  BY <1>1
<1>2. ASSUME NEW p \in Processes, Exit(p)
      PROVE  request'[h] = request[h] /\ (at'[h] = at[h] \/ at'[h] = Nobody)
  BY <1>2 DEF Exit, Metric!Forget
<1>3. ASSUME NEW g \in Requests, g # h, NEW p \in Processes, NEW q \in Metric!Request,
             Accept(g, p, q)
      PROVE  request'[h] = request[h] /\ at'[h] = at[h]
  BY <1>3 DEF Accept, Metric!Accept
<1>4. ASSUME NEW g \in Requests, Handle(g) \/ Answer(g)
      PROVE  UNCHANGED <<at, request>>
  BY <1>4 DEF Handle, Answer, metrics, Metric!Work, Metric!Add, Metric!Observe,
              Metric!FillBuckets
<1>5. ASSUME NEW p \in Processes,
             \/ Start(p) \/ Migrate(p) \/ LosesMigration(p) \/ Serve(p) \/ Scrape(p)
             \/ Signal(p) \/ Shutdown(p) \/ LimitPasses(p)
      PROVE  UNCHANGED <<at, request>>
  BY <1>5 DEF Start, Migrate, LosesMigration, Serve, Scrape, Signal, Shutdown, LimitPasses,
              metrics, Metric!Scrape
<1>6. CASE UNCHANGED vars
  BY <1>6 DEF vars, metrics
<1> QED BY <1>1, <1>2, <1>3, <1>4, <1>5, <1>6 DEF Next, Stopped, Fails

LEMMA StoppingStep ==
  ASSUME LifeTypes, Stopping, [Next]_vars
  PROVE  Stopping'
<1> SUFFICES ASSUME NEW p \in Processes, status'[p] = "stopping", NEW h \in Requests,
                    at'[h] = p, outcome'[h] = "none"
             PROVE  request'[h] # NoRequest /\ request'[h].kind = "stream"
  BY DEF Stopping, InFlight, Streams
<1>1. p # Nobody
  BY ServiceAssumption
<1>2. outcome[h] = "none"
  BY DEF Next, vars, life, Start, Migrate, LosesMigration, Serve, Scrape, Signal, Shutdown,
         LimitPasses, Stopped, Fails, Exit, Handle, Answer, Accept, LifeTypes, Outcomes
<1>3. status[p] = "stopping" \/ Shutdown(p)
  BY DEF Next, vars, life, Start, Migrate, LosesMigration, Serve, Scrape, Signal, Shutdown,
         LimitPasses, Stopped, Fails, Exit, Handle, Answer, Accept, LifeTypes, Statuses
<1>4. CASE \E r \in Processes, q \in Metric!Request : Accept(h, r, q)
  <2> PICK r \in Processes, q \in Metric!Request : Accept(h, r, q)
    BY <1>4
  <2>1. UNCHANGED status /\ status[r] \in {"serving", "draining"}
    BY DEF Accept, life
  <2>2. at'[h] = r \/ at'[h] = at[h]
    BY DEF Accept, Metric!Accept
  <2>3. status[p] = "stopping" /\ r # p
    BY <2>1
  <2>4. at[h] = p /\ (at'[h] = r => FALSE)
    BY <2>2, <2>3
  <2>5. request[h] = NoRequest
    BY DEF Accept, Metric!Accept
  <2> QED BY <1>2, <2>3, <2>4, <2>5 DEF Stopping, InFlight, Streams
<1>5. CASE ~\E r \in Processes, q \in Metric!Request : Accept(h, r, q)
  <2>1. request'[h] = request[h] /\ at[h] = p
    BY <1>1, <1>5, RequestsKept
  <2>2. h \in Streams
    BY <1>2, <1>3, <2>1 DEF Stopping, InFlight, Shutdown, Drained
  <2> QED BY <2>1, <2>2 DEF Streams
<1> QED BY <1>4, <1>5

LEMMA LifeStep == LifeTypes /\ Stopping /\ [Next]_vars => (LifeTypes /\ Stopping)'
  BY LifeTypesStep, StoppingStep

\* Only Exit loses a request, and main only gets there in order when the HTTP handlers
\* and then the streams have ended.
LEMMA LostBy ==
  ASSUME LifeTypes, Stopping, [Next]_vars, NEW h \in Requests,
         outcome[h] = "none", outcome'[h] = "lost"
  PROVE  failures' > failures \/ status[at[h]] = "overdue"
<1>1. PICK p \in Processes : (Stopped(p) \/ Fails(p)) /\ h \in InFlight(p)
  <2>1. \E p \in Processes : (Stopped(p) \/ Fails(p)) /\ Exit(p)
    BY DEF Next, vars, life, Start, Migrate, LosesMigration, Serve, Scrape, Signal, Shutdown,
           LimitPasses, Stopped, Fails, Handle, Answer, Accept, LifeTypes
  <2> QED BY <2>1 DEF Exit
<1>2. CASE Fails(p)
  BY <1>2 DEF Fails, LifeTypes
<1>3. CASE Stopped(p)
  <2>1. at[h] = p
    BY <1>1 DEF InFlight
  <2>2. CASE status[p] = "stopping" /\ InFlight(p) \cap Streams = {}
    BY <1>1, <2>2 DEF Stopping
  <2> QED BY <1>3, <2>1, <2>2 DEF Stopped
<1> QED BY <1>1, <1>2, <1>3

\* A request main's servers have accepted is only lost to a failure or to the limit of
\* the shutdown, for any number of requests, streams and restarts.
THEOREM Answered == Spec => AcceptedIsAnswered
<1>1. Init => LifeTypes /\ Stopping
  BY LifeInit
<1>2. LifeTypes /\ Stopping /\ [Next]_vars => (LifeTypes /\ Stopping)'
  BY LifeStep
<1>3. LifeTypes /\ Stopping /\ [Next]_vars =>
        [\A h \in Requests : outcome[h] = "none" /\ outcome'[h] = "lost"
           => failures' > failures \/ status[at[h]] = "overdue"]_vars
  BY LostBy
<1> QED BY <1>1, <1>2, <1>3, PTL DEF Spec, AcceptedIsAnswered

------------------------------------------------------------------------------
\* The metrics.  What a step does to them:
LEMMA MetricCases ==
  ASSUME [Next]_vars
  PROVE  \/ \E h \in Requests : Metric!Work(h)
         \/ \E h \in Requests, p \in Processes, q \in Metric!Request : Metric!Accept(h, p, q)
         \/ \E p \in Processes : Metric!Scrape(p) \/ Metric!Forget(p)
         \/ UNCHANGED metrics
<1>1. ASSUME NEW p \in Processes, Scrape(p) \/ Stopped(p) \/ Fails(p)
      PROVE  Metric!Scrape(p) \/ Metric!Forget(p)
  BY <1>1 DEF Scrape, Stopped, Fails, Exit
<1>2. ASSUME NEW p \in Processes,
             \/ Start(p) \/ Migrate(p) \/ LosesMigration(p) \/ Serve(p) \/ Signal(p)
             \/ Shutdown(p) \/ LimitPasses(p)
      PROVE  UNCHANGED metrics
  BY <1>2 DEF Start, Migrate, LosesMigration, Serve, Signal, Shutdown, LimitPasses
<1>3. ASSUME NEW h \in Requests, Handle(h) \/ Answer(h)
      PROVE  Metric!Work(h) \/ UNCHANGED metrics
  BY <1>3 DEF Handle, Answer
<1>4. ASSUME NEW h \in Requests, NEW p \in Processes, NEW q \in Metric!Request,
             Accept(h, p, q)
      PROVE  Metric!Accept(h, p, q)
  BY <1>4 DEF Accept
<1>5. CASE UNCHANGED vars
  BY <1>5 DEF vars
<1> QED BY <1>1, <1>2, <1>3, <1>4, <1>5 DEF Next

\* A plan goes through a vector at most once.
LEMMA VectorsAre ==
  Metric!Vectors = {"http requests", "http durations", "client requests", "client durations"}
<1>1. DOMAIN Metric!Registered = {1, 2, 3, 4}
  BY DEF Metric!Registered
<1>2. /\ Metric!Registered[1] = "http requests" /\ Metric!Registered[2] = "http durations"
      /\ Metric!Registered[3] = "client requests" /\ Metric!Registered[4] = "client durations"
  BY DEF Metric!Registered
<1> QED BY <1>1, <1>2 DEF Metric!Vectors, Metric!ToSet

LEMMA PlanFacts ==
  ASSUME NEW k \in Metric!Kinds
  PROVE  /\ Len(Metric!Plan(k)) \in 0..4
         /\ \A i \in 1..Len(Metric!Plan(k)) : Metric!Plan(k)[i] \in Metric!Vectors
         /\ \A i, j \in 1..Len(Metric!Plan(k)) :
              Metric!Plan(k)[i] = Metric!Plan(k)[j] => i = j
<1>1. CASE k = "create"
  <2> DEFINE plan == <<"client requests", "client durations", "http requests", "http durations">>
  <2>1. Metric!Plan(k) = plan
    BY <1>1 DEF Metric!Plan
  <2>2. Len(plan) \in 0..4 /\ 1..Len(plan) = {1, 2, 3, 4}
    OBVIOUS
  <2>3. /\ plan[1] = "client requests" /\ plan[2] = "client durations"
        /\ plan[3] = "http requests" /\ plan[4] = "http durations"
    OBVIOUS
  <2> HIDE DEF plan
  <2>4. \A i, j \in {1, 2, 3, 4} : plan[i] \in Metric!Vectors /\ (plan[i] = plan[j] => i = j)
    BY <2>3, VectorsAre
  <2> QED BY <2>1, <2>2, <2>4, Zenon
<1>2. CASE k = "read"
  <2> DEFINE plan == <<"http requests", "http durations">>
  <2>1. Metric!Plan(k) = plan
    BY <1>2 DEF Metric!Plan
  <2>2. Len(plan) \in 0..4 /\ 1..Len(plan) = {1, 2}
    OBVIOUS
  <2>3. /\ plan[1] = "http requests" /\ plan[2] = "http durations"
    OBVIOUS
  <2> HIDE DEF plan
  <2>4. \A i, j \in {1, 2} : plan[i] \in Metric!Vectors /\ (plan[i] = plan[j] => i = j)
    BY <2>3, VectorsAre
  <2> QED BY <2>1, <2>2, <2>4, Zenon
<1>3. CASE k \in {"probe", "stream"}
  <2>1. Metric!Plan(k) = << >>
    BY <1>3 DEF Metric!Plan
  <2> QED BY <2>1
<1> QED BY <1>1, <1>2, <1>3 DEF Metric!Kinds

LEMMA RequestFacts ==
  ASSUME NEW q \in Metric!Request
  PROVE  /\ q.kind \in Metric!Kinds
         /\ Len(Metric!Plan(q.kind)) # 0 => q.took \in Nat
         /\ q # NoRequest
<1>1. q.kind \in Metric!Kinds
  BY DEF Metric!Request, Metric!Kinds
<1>2. Len(Metric!Plan(q.kind)) # 0 => q.took \in Nat
  BY ServiceAssumption DEF Metric!Request, Metric!Plan
<1> QED BY <1>1, <1>2, RequestAssumption

MetricTypes ==
  /\ Metric!TypeOK
Requested ==
  \A h \in Requests :
    /\ request[h] = NoRequest => at[h] = Nobody /\ step[h] = 0
    /\ request[h] # NoRequest => step[h] <= Len(Metric!PlanOf(h))

LEMMA MetricTyped ==
  ASSUME MetricTypes
  PROVE  /\ at \in [Requests -> Processes \cup {Nobody}]
         /\ request \in [Requests -> Metric!Request \cup {NoRequest}]
         /\ step \in [Requests -> 0..Len(Metric!Registered)]
         /\ series \in [Processes -> [Metric!Vectors -> [Metric!Kinds -> Metric!Sample]]]
         /\ lock \in [Processes -> [Metric!Vectors -> Requests \cup {Nobody}]]
         /\ page \in [of : Processes \cup {Nobody}, size : 0..Len(Metric!Registered),
                      last : [Metric!Kinds -> Metric!Sample]]
         /\ Len(Metric!Registered) = 4
         /\ Nobody \notin Processes /\ Nobody \notin Requests
  BY ServiceAssumption DEF MetricTypes, Metric!TypeOK, Metric!Registered

\* A handler that is inside Add, or in either half of Observe.
LEMMA ObservingFacts ==
  ASSUME MetricTypes, Requested, NEW h \in Requests, NEW v \in Metric!Vectors,
         Metric!Observing(h, v)
  PROVE  /\ at[h] \in Processes /\ request[h] \in Metric!Request
         /\ request[h].kind \in Metric!Kinds /\ request[h].took \in Nat
         /\ step[h] \in 0..3
         /\ step[h] + 1 \in 1..Len(Metric!Plan(request[h].kind))
         /\ Metric!Plan(request[h].kind)[step[h] + 1] = v
<1>1. at[h] \in Processes /\ request[h] \in Metric!Request
  BY MetricTyped DEF Metric!Observing, Metric!Running, Requested
<1>2. request[h].kind \in Metric!Kinds
      /\ (Len(Metric!Plan(request[h].kind)) # 0 => request[h].took \in Nat)
  BY <1>1, RequestFacts
<1>3. Len(Metric!Plan(request[h].kind)) \in 0..4 /\ step[h] \in 0..4
  BY <1>2, PlanFacts, MetricTyped
<1>4. step[h] <= Len(Metric!Plan(request[h].kind)) /\ step[h] # Len(Metric!Plan(request[h].kind))
  BY <1>1, RequestFacts DEF Requested, Metric!PlanOf, Metric!Observing, Metric!Recorded
<1>5. step[h] \in 0..3 /\ step[h] + 1 \in 1..Len(Metric!Plan(request[h].kind))
  <2> HIDE DEF Metric!Plan
  <2>1. \A m, n \in 0..4 : m <= n /\ m # n => m \in 0..3 /\ m + 1 \in 1..n
    OBVIOUS
  <2> QED BY <1>3, <1>4, <2>1
<1>6. request[h].took \in Nat
  BY <1>2, <1>5
<1>7. Metric!Plan(request[h].kind)[step[h] + 1] = v
  BY DEF Metric!Observing, Metric!Vector, Metric!PlanOf
<1> QED BY <1>1, <1>2, <1>5, <1>6, <1>7

LEMMA ZeroFacts ==
  /\ Metric!Zero \in Metric!Sample
  /\ Metric!NewSeries \in [Metric!Vectors -> [Metric!Kinds -> Metric!Sample]]
  /\ Metric!Unlocked \in [Metric!Vectors -> Requests \cup {Nobody}]
  /\ Metric!NewPage \in [of : Processes \cup {Nobody}, size : 0..4,
                         last : [Metric!Kinds -> Metric!Sample]]
<1>1. Metric!Zero \in Metric!Sample
  BY DEF Metric!Zero, Metric!Sample
<1> QED BY <1>1 DEF Metric!NewSeries, Metric!Unlocked, Metric!NewPage

LEMMA CountEffect ==
  ASSUME MetricTypes, NEW h \in Requests, NEW v \in Metric!Vectors,
         at[h] \in Processes, request[h].kind \in Metric!Kinds, request[h].took \in Nat,
         Metric!Count(h, v)
  PROVE  /\ series' \in [Processes -> [Metric!Vectors -> [Metric!Kinds -> Metric!Sample]]]
         /\ \A p \in Processes, w \in Metric!Vectors, k \in Metric!Kinds :
              /\ series'[p][w][k].within = series[p][w][k].within
              /\ series'[p][w][k].count =
                   series[p][w][k].count
                   + (IF p = at[h] /\ w = v /\ k = request[h].kind THEN 1 ELSE 0)
              /\ series'[p][w][k].sum =
                   IF p = at[h] /\ w = v /\ k = request[h].kind /\ v \in Metric!Histograms
                   THEN series[p][w][k].sum + request[h].took ELSE series[p][w][k].sum
<1> DEFINE r == at[h]
           kind == request[h].kind
           old == series[r][v][kind]
           adds == v \in Metric!Histograms
           took == request[h].took
           new == Metric!WithOne(old, h, v)
<1>1. series \in [Processes -> [Metric!Vectors -> [Metric!Kinds -> Metric!Sample]]]
  BY MetricTyped
<1>2. old \in Metric!Sample
  BY <1>1
<1>3. /\ new \in Metric!Sample /\ new.within = old.within /\ new.count = old.count + 1
      /\ new.sum = IF adds THEN old.sum + took ELSE old.sum
  <2> DEFINE added == IF adds THEN old.sum + took ELSE old.sum
  <2>1. old.count + 1 \in Nat /\ added \in Nat /\ old.within \in [Bounds -> Nat]
    BY <1>2 DEF Metric!Sample
  <2>2. new = [count |-> old.count + 1, sum |-> added, within |-> old.within]
    BY DEF Metric!WithOne
  <2> HIDE DEF new, added
  <2>3. /\ new.count = old.count + 1 /\ new.sum = added /\ new.within = old.within
        /\ new \in Metric!Sample
    BY <2>1, <2>2 DEF Metric!Sample
  <2> QED BY <2>3 DEF added
<1>4. series' = [series EXCEPT ![r][v][kind] = new]
  BY <1>1 DEF Metric!Count
<1> HIDE DEF new, adds, took
<1>5. series' \in [Processes -> [Metric!Vectors -> [Metric!Kinds -> Metric!Sample]]]
  BY <1>1, <1>3, <1>4
<1>6. ASSUME NEW p \in Processes, NEW w \in Metric!Vectors, NEW k \in Metric!Kinds
      PROVE  series'[p][w][k] = IF p = r /\ w = v /\ k = kind THEN new ELSE series[p][w][k]
  BY <1>1, <1>4
<1>7. \A p \in Processes, w \in Metric!Vectors, k \in Metric!Kinds :
        series[p][w][k].count \in Nat
  BY <1>1 DEF Metric!Sample
<1>8. ASSUME NEW p \in Processes, NEW w \in Metric!Vectors, NEW k \in Metric!Kinds
      PROVE  /\ series'[p][w][k].within = series[p][w][k].within
             /\ series'[p][w][k].count =
                  series[p][w][k].count + (IF p = r /\ w = v /\ k = kind THEN 1 ELSE 0)
             /\ series'[p][w][k].sum =
                  IF p = r /\ w = v /\ k = kind /\ adds
                  THEN series[p][w][k].sum + took ELSE series[p][w][k].sum
  <2>1. CASE p = r /\ w = v /\ k = kind
    BY <1>3, <1>6, <2>1
  <2>2. CASE ~(p = r /\ w = v /\ k = kind)
    BY <1>6, <1>7, <2>2
  <2> QED BY <2>1, <2>2
<1> QED BY <1>5, <1>8 DEF adds, took

LEMMA Filled ==
  ASSUME NEW w \in [Bounds -> Nat], NEW t
  PROVE  LET filled == [b \in Bounds |-> IF t <= b THEN w[b] + 1 ELSE w[b]]
         IN  /\ filled \in [Bounds -> Nat]
             /\ \A b \in Bounds : filled[b] = w[b] + (IF t <= b THEN 1 ELSE 0)
  OBVIOUS

LEMMA FillEffect ==
  ASSUME MetricTypes, NEW h \in Requests, NEW v \in Metric!Vectors,
         at[h] \in Processes, request[h].kind \in Metric!Kinds,
         Metric!FillBuckets(h, v)
  PROVE  /\ series' \in [Processes -> [Metric!Vectors -> [Metric!Kinds -> Metric!Sample]]]
         /\ \A p \in Processes, w \in Metric!Vectors, k \in Metric!Kinds :
              /\ series'[p][w][k].count = series[p][w][k].count
              /\ series'[p][w][k].sum = series[p][w][k].sum
              /\ \A b \in Bounds :
                   series'[p][w][k].within[b] =
                     series[p][w][k].within[b]
                     + (IF p = at[h] /\ w = v /\ k = request[h].kind /\ request[h].took <= b
                        THEN 1 ELSE 0)
<1> DEFINE r == at[h]
           kind == request[h].kind
           old == series[r][v][kind]
           filled == [b \in Bounds |-> IF request[h].took <= b THEN old.within[b] + 1
                                                              ELSE old.within[b]]
           new == [old EXCEPT !.within = filled]
<1>1. series \in [Processes -> [Metric!Vectors -> [Metric!Kinds -> Metric!Sample]]]
  BY MetricTyped
<1>2. old \in Metric!Sample /\ old.within \in [Bounds -> Nat]
  BY <1>1 DEF Metric!Sample
<1>3. filled \in [Bounds -> Nat]
  BY <1>2, Filled
<1>4. /\ new \in Metric!Sample /\ new.within = filled
      /\ new.count = old.count /\ new.sum = old.sum
  BY <1>2, <1>3 DEF Metric!Sample
<1>5. \A b \in Bounds :
        filled[b] = old.within[b] + (IF request[h].took <= b THEN 1 ELSE 0)
  BY <1>2, Filled
<1>6. series' = [series EXCEPT ![r][v][kind] = new]
  <2>1. series' = [series EXCEPT ![r][v][kind].within = filled]
    BY DEF Metric!FillBuckets
  <2> HIDE DEF filled
  <2> QED BY <1>1, <2>1
<1> HIDE DEF filled, new
<1>7. series' \in [Processes -> [Metric!Vectors -> [Metric!Kinds -> Metric!Sample]]]
  BY <1>1, <1>4, <1>6
<1>8. ASSUME NEW p \in Processes, NEW w \in Metric!Vectors, NEW k \in Metric!Kinds
      PROVE  series'[p][w][k] = IF p = r /\ w = v /\ k = kind THEN new ELSE series[p][w][k]
  BY <1>1, <1>6
<1>9. \A p \in Processes, w \in Metric!Vectors, k \in Metric!Kinds, b \in Bounds :
        series[p][w][k].within[b] \in Nat
  BY <1>1 DEF Metric!Sample
<1>10. ASSUME NEW p \in Processes, NEW w \in Metric!Vectors, NEW k \in Metric!Kinds,
              NEW b \in Bounds
       PROVE  series'[p][w][k].within[b] =
                series[p][w][k].within[b]
                + (IF p = r /\ w = v /\ k = kind /\ request[h].took <= b THEN 1 ELSE 0)
  <2>1. CASE p = r /\ w = v /\ k = kind
    BY <1>4, <1>5, <1>8, <2>1
  <2>2. CASE ~(p = r /\ w = v /\ k = kind)
    BY <1>8, <1>9, <2>2
  <2> QED BY <2>1, <2>2
<1>11. ASSUME NEW p \in Processes, NEW w \in Metric!Vectors, NEW k \in Metric!Kinds
       PROVE  /\ series'[p][w][k].count = series[p][w][k].count
              /\ series'[p][w][k].sum = series[p][w][k].sum
  BY <1>4, <1>8
<1> QED BY <1>7, <1>10, <1>11

\* The kinds of metric steps a handler takes, told apart by what they leave alone.
LEMMA WorkFacts ==
  ASSUME MetricTypes, Requested, NEW h \in Requests, Metric!Work(h)
  PROVE  \E v \in Metric!Vectors :
           /\ Metric!Observing(h, v)
           /\ Metric!Add(h, v) \/ Metric!Observe(h, v) \/ Metric!FillBuckets(h, v)
           /\ UNCHANGED <<at, request, page>>
           /\ at[h] \in Processes /\ request[h] \in Metric!Request
           /\ request[h].kind \in Metric!Kinds /\ request[h].took \in Nat
           /\ step[h] \in 0..3 /\ step[h] + 1 \in 1..Len(Metric!Plan(request[h].kind))
           /\ Metric!Plan(request[h].kind)[step[h] + 1] = v
<1>1. PICK v \in Metric!Vectors :
        Metric!Add(h, v) \/ Metric!Observe(h, v) \/ Metric!FillBuckets(h, v)
  BY DEF Metric!Work
<1>2. Metric!Observing(h, v) /\ UNCHANGED <<at, request, page>>
  BY <1>1 DEF Metric!Add, Metric!Observe, Metric!FillBuckets
<1> QED BY <1>1, <1>2, ObservingFacts

LEMMA MetricTypesInit == Init => MetricTypes /\ Requested
<1> SUFFICES ASSUME Metric!Init PROVE MetricTypes /\ Requested
  BY DEF Init
<1>1. at \in [Requests -> Processes \cup {Nobody}] /\ 0 \in 0..4
  BY DEF Metric!Init
<1>2. Len(Metric!Registered) = 4
  BY DEF Metric!Registered
<1>3. MetricTypes
  BY <1>1, <1>2, ZeroFacts DEF Metric!Init, MetricTypes, Metric!TypeOK
<1>4. Requested
  BY DEF Metric!Init, Requested
<1> QED BY <1>3, <1>4

LEMMA MetricTypesStep ==
  ASSUME MetricTypes, Requested, [Next]_vars
  PROVE  MetricTypes' /\ Requested'
<1> USE MetricTyped
<1>1. ASSUME NEW h \in Requests, Metric!Work(h)
      PROVE  MetricTypes' /\ Requested'
  <2> PICK v \in Metric!Vectors :
           /\ Metric!Observing(h, v)
           /\ Metric!Add(h, v) \/ Metric!Observe(h, v) \/ Metric!FillBuckets(h, v)
           /\ UNCHANGED <<at, request, page>>
           /\ at[h] \in Processes /\ request[h] \in Metric!Request
           /\ request[h].kind \in Metric!Kinds /\ request[h].took \in Nat
           /\ step[h] \in 0..3 /\ step[h] + 1 \in 1..Len(Metric!Plan(request[h].kind))
           /\ Metric!Plan(request[h].kind)[step[h] + 1] = v
    BY <1>1, WorkFacts
  <2>1. series' \in [Processes -> [Metric!Vectors -> [Metric!Kinds -> Metric!Sample]]]
    <3>1. CASE Metric!Count(h, v)
      BY <3>1, CountEffect
    <3>2. CASE Metric!FillBuckets(h, v)
      BY <3>2, FillEffect
    <3> QED BY <3>1, <3>2 DEF Metric!Add, Metric!Observe
  <2>2. step' = step \/ step' = [step EXCEPT ![h] = @ + 1]
    BY DEF Metric!Add, Metric!Observe, Metric!FillBuckets, Metric!StepOn
  <2>3. step[h] + 1 \in 0..4
    OBVIOUS
  <2>4. step' \in [Requests -> 0..4]
    BY <2>2, <2>3
  <2>5. lock' \in [Processes -> [Metric!Vectors -> Requests \cup {Nobody}]]
    <3>1. lock' = lock \/ \E w \in Requests \cup {Nobody} : lock' = [lock EXCEPT ![at[h]][v] = w]
      BY DEF Metric!Add, Metric!Observe, Metric!FillBuckets
    <3>2. \A r \in Processes, w \in Requests \cup {Nobody} :
            [lock EXCEPT ![r][v] = w] \in [Processes -> [Metric!Vectors -> Requests \cup {Nobody}]]
      OBVIOUS
    <3>3. at[h] \in Processes
      OBVIOUS
    <3>4. CASE lock' = lock
      BY <3>4
    <3>5. ASSUME NEW w \in Requests \cup {Nobody}, lock' = [lock EXCEPT ![at[h]][v] = w]
          PROVE  lock' \in [Processes -> [Metric!Vectors -> Requests \cup {Nobody}]]
      BY <3>2, <3>3, <3>5, Zenon
    <3> QED BY <3>1, <3>4, <3>5
  <2>6. MetricTypes'
    BY <2>1, <2>4, <2>5 DEF MetricTypes, Metric!TypeOK
  <2>7. Requested'
    <3>1. request[h] # NoRequest
      BY RequestAssumption
    <3>2. step[h] + 1 <= Len(Metric!Plan(request[h].kind))
      OBVIOUS
    <3>3. \A g \in Requests : step'[g] = step[g] \/ (g = h /\ step'[g] = step[h] + 1)
      BY <2>2
    <3> QED BY <3>1, <3>2, <3>3 DEF Requested, Metric!PlanOf
  <2> QED BY <2>6, <2>7
<1>2. ASSUME NEW h \in Requests, NEW p \in Processes, NEW q \in Metric!Request,
             Metric!Accept(h, p, q)
      PROVE  MetricTypes' /\ Requested'
  <2>1. /\ request[h] = NoRequest /\ step[h] = 0
        /\ at' = [at EXCEPT ![h] = p] /\ request' = [request EXCEPT ![h] = q]
        /\ UNCHANGED <<step, series, lock, page>>
    BY <1>2 DEF Metric!Accept, Requested
  <2>2. q # NoRequest /\ 0 <= Len(Metric!Plan(q.kind))
    BY RequestFacts, PlanFacts
  <2>3. MetricTypes'
    BY <2>1 DEF MetricTypes, Metric!TypeOK
  <2>4. Requested'
    BY <2>1, <2>2 DEF Requested, Metric!PlanOf
  <2> QED BY <2>3, <2>4
<1>3. ASSUME NEW p \in Processes, Metric!Scrape(p)
      PROVE  MetricTypes' /\ Requested'
  <2>1. UNCHANGED <<at, request, step, series, lock>>
    BY <1>3 DEF Metric!Scrape
  <2>2. page' \in [of : Processes \cup {Nobody}, size : 0..4, last : [Metric!Kinds -> Metric!Sample]]
    <3>1. CASE page' = Metric!NewPage
      BY <3>1, ZeroFacts
    <3>2. CASE page.size < 4 /\ \E v \in Metric!Vectors :
                page' = [of |-> p, size |-> page.size + 1, last |-> series[p][v]]
      <4>1. page.size + 1 \in 0..4
        BY <3>2
      <4> QED BY <3>2, <4>1
    <3> QED BY <1>3, <3>1, <3>2 DEF Metric!Scrape
  <2>3. MetricTypes'
    BY <2>1, <2>2 DEF MetricTypes, Metric!TypeOK
  <2> QED BY <2>1, <2>3 DEF Requested, Metric!PlanOf
<1>4. ASSUME NEW p \in Processes, Metric!Forget(p)
      PROVE  MetricTypes' /\ Requested'
  <2>1. MetricTypes'
    BY <1>4, ZeroFacts DEF MetricTypes, Metric!TypeOK, Metric!Forget
  <2> QED BY <1>4, <2>1 DEF Requested, Metric!PlanOf, Metric!Forget
<1>5. CASE UNCHANGED metrics
  BY <1>5 DEF metrics, MetricTypes, Metric!TypeOK, Requested, Metric!PlanOf
<1> QED BY <1>1, <1>2, <1>3, <1>4, <1>5, MetricCases

\* Every variable has its type, with any number of processes and requests.
THEOREM TypeCorrect == Spec => []TypeOK
<1> DEFINE Inv == LifeTypes /\ MigrationInv /\ MetricTypes /\ Requested
<1>1. Init => Inv
  BY LifeInit, MigrationInit, MetricTypesInit
<1>2. Inv /\ [Next]_vars => Inv'
  BY LifeTypesStep, MigrationStep, MetricTypesStep
<1>3. Inv => TypeOK
  BY DEF LifeTypes, MigrationInv, MigrationTypes, MetricTypes, TypeOK
<1> QED BY <1>1, <1>2, <1>3, PTL DEF Spec

------------------------------------------------------------------------------
\* A lock is held by a handler of the process that is in the middle of Observe; a
\* vector counts what was observed, and adds up its times, and does so while it is
\* locked with what is being observed.
Locks ==
  \A p \in Processes, v \in Metric!Vectors : ~Metric!Free(p, v) =>
    /\ v \in Metric!Histograms
    /\ at[lock[p][v]] = p
    /\ Metric!Observing(lock[p][v], v)
Fits(H, b) == {h \in H : request[h].took <= b}
Inside(p, v, k) == ~Metric!Free(p, v) /\ request[lock[p][v]].kind = k
TookBy(r, H) == Summed([h \in H |-> r[h].took], H)
Timed(p, v, k) ==
  series[p][v][k].sum =
    IF v \notin Metric!Histograms THEN 0
    ELSE IF Inside(p, v, k)
    THEN TookBy(request, Metric!Observed(p, v, k)) + request[lock[p][v]].took
    ELSE TookBy(request, Metric!Observed(p, v, k))
Total(p, v, k) ==
  /\ series[p][v][k].count =
       Cardinality(Metric!Observed(p, v, k)) + (IF Inside(p, v, k) THEN 1 ELSE 0)
  /\ \A b \in Bounds :
       series[p][v][k].within[b] =
         IF v \in Metric!Histograms
         THEN Cardinality(Fits(Metric!Observed(p, v, k), b)) ELSE 0
Totals == \A p \in Processes, v \in Metric!Vectors, k \in Metric!Kinds : Total(p, v, k)
Times == \A p \in Processes, v \in Metric!Vectors, k \in Metric!Kinds : Timed(p, v, k)

\* How the observations of a vector change.
LEMMA ObservedGrows ==
  ASSUME MetricTypes, Requested, NEW h \in Requests, NEW v \in Metric!Vectors,
         Metric!Observing(h, v), UNCHANGED <<at, request>>, Metric!StepOn(h),
         NEW p \in Processes, NEW w \in Metric!Vectors, NEW k \in Metric!Kinds
  PROVE  /\ h \notin Metric!Observed(at[h], v, request[h].kind)
         /\ Metric!Observed(p, w, k)' =
              IF p = at[h] /\ w = v /\ k = request[h].kind
              THEN Metric!Observed(p, w, k) \cup {h} ELSE Metric!Observed(p, w, k)
<1>1. /\ step[h] \in 0..3 /\ request[h].kind \in Metric!Kinds
      /\ step[h] + 1 \in 1..Len(Metric!Plan(request[h].kind))
      /\ Metric!Plan(request[h].kind)[step[h] + 1] = v
  BY ObservingFacts
<1>2. Len(Metric!Plan(request[h].kind)) \in 0..4
  BY <1>1, PlanFacts
<1>3. \A i \in 1..step[h] : i \in 1..Len(Metric!Plan(request[h].kind)) /\ i # step[h] + 1
  BY <1>1, <1>2
<1>4. \A i \in 1..step[h] : Metric!Plan(request[h].kind)[i] # v
  BY <1>1, <1>3, PlanFacts
<1>5. h \notin Metric!Observed(at[h], v, request[h].kind)
  BY <1>4 DEF Metric!Observed
<1>6. \A g \in Requests : step'[g] = IF g = h THEN step[h] + 1 ELSE step[g]
  BY MetricTyped DEF Metric!StepOn
<1>7. 1..(step[h] + 1) = (1..step[h]) \cup {step[h] + 1}
  BY <1>1
<1>8. \A g \in Requests :
        g \in Metric!Observed(p, w, k)'
          <=> \/ g \in Metric!Observed(p, w, k)
              \/ g = h /\ p = at[h] /\ w = v /\ k = request[h].kind
  <2> SUFFICES ASSUME NEW g \in Requests, at[g] = p, request[g].kind = k
               PROVE  (\E i \in 1..step'[g] : Metric!Plan(k)[i] = w)
                        <=> \/ \E i \in 1..step[g] : Metric!Plan(k)[i] = w
                            \/ g = h /\ p = at[h] /\ w = v /\ k = request[h].kind
    BY DEF Metric!Observed
  <2>1. CASE g # h
    BY <1>6, <2>1
  <2>2. CASE g = h
    BY <1>1, <1>6, <1>7, <2>2
  <2> QED BY <2>1, <2>2
<1> QED BY <1>5, <1>8 DEF Metric!Observed

LEMMA ObservedFinite ==
  \A p, v, k : IsFiniteSet(Metric!Observed(p, v, k)) /\ Metric!Observed(p, v, k) \subseteq Requests
  BY RequestAssumption, FS_Subset DEF Metric!Observed

LEMMA OneMore ==
  ASSUME NEW H \in SUBSET Requests, NEW h \in Requests, h \notin H, NEW b
  PROVE  /\ Cardinality(H \cup {h}) = Cardinality(H) + 1
         /\ Cardinality(Fits(H \cup {h}, b))
              = Cardinality(Fits(H, b)) + (IF request[h].took <= b THEN 1 ELSE 0)
<1>1. IsFiniteSet(H) /\ IsFiniteSet(Fits(H, b))
  BY RequestAssumption, FS_Subset DEF Fits
<1>2. Cardinality(H \cup {h}) = Cardinality(H) + 1
  BY <1>1, FS_AddElement
<1>3. CASE request[h].took <= b
  <2>1. Fits(H \cup {h}, b) = Fits(H, b) \cup {h} /\ h \notin Fits(H, b)
    BY <1>3 DEF Fits
  <2>2. Cardinality(Fits(H \cup {h}, b)) = Cardinality(Fits(H, b)) + 1
    BY <1>1, <2>1, FS_AddElement
  <2> QED BY <1>2, <1>3, <2>2
<1>4. CASE ~(request[h].took <= b)
  <2>1. Fits(H \cup {h}, b) = Fits(H, b)
    BY <1>4 DEF Fits
  <2>2. Cardinality(Fits(H, b)) \in Nat
    BY <1>1, FS_CardinalityType
  <2> QED BY <1>2, <1>4, <2>1, <2>2
<1> QED BY <1>3, <1>4

\* The steps of a handler.
LEMMA TotalsWork ==
  ASSUME MetricTypes, Requested, Locks, Totals, NEW h \in Requests, Metric!Work(h)
  PROVE  Locks' /\ Totals'
<1> USE MetricTyped
<1> PICK v \in Metric!Vectors :
         /\ Metric!Observing(h, v)
         /\ Metric!Add(h, v) \/ Metric!Observe(h, v) \/ Metric!FillBuckets(h, v)
         /\ UNCHANGED <<at, request, page>>
         /\ at[h] \in Processes /\ request[h] \in Metric!Request
         /\ request[h].kind \in Metric!Kinds /\ request[h].took \in Nat
         /\ step[h] \in 0..3 /\ step[h] + 1 \in 1..Len(Metric!Plan(request[h].kind))
         /\ Metric!Plan(request[h].kind)[step[h] + 1] = v
  BY WorkFacts
<1>1. \A p \in Processes, w \in Metric!Vectors, k \in Metric!Kinds :
        Metric!Observed(p, w, k) \in SUBSET Requests
        /\ Cardinality(Metric!Observed(p, w, k)) \in Nat
  BY ObservedFinite, FS_CardinalityType
<1>2. CASE Metric!Add(h, v)
  <2>1. /\ v \notin Metric!Histograms /\ lock' = lock /\ Metric!Free(at[h], v)
        /\ Metric!Count(h, v) /\ Metric!StepOn(h)
    BY <1>2 DEF Metric!Add
  <2>2. Locks'
    <3> SUFFICES ASSUME NEW p \in Processes, NEW w \in Metric!Vectors, NEW g,
                        lock'[p][w] = g, g # Nobody
                 PROVE  w \in Metric!Histograms /\ at[g] = p /\ Metric!Observing(g, w)'
      BY DEF Locks, Metric!Free
    <3>1. lock[p][w] = g /\ g \in Requests /\ w \in Metric!Histograms /\ at[g] = p
          /\ Metric!Observing(g, w)
      BY <2>1 DEF Locks, Metric!Free
    <3>2. g # h
      BY <2>1, <3>1 DEF Metric!Observing
    <3>3. step'[g] = step[g]
      BY <2>1, <3>1, <3>2 DEF Metric!StepOn
    <3> QED BY <2>1, <3>1, <3>3 DEF Metric!Observing, Metric!Running, Metric!Recorded,
                                    Metric!Vector, Metric!PlanOf
  <2>3. Totals'
    <3> SUFFICES ASSUME NEW p \in Processes, NEW w \in Metric!Vectors, NEW k \in Metric!Kinds
                 PROVE  Total(p, w, k)'
      BY DEF Totals
    <3> SUFFICES /\ series'[p][w][k].count =
                      Cardinality(Metric!Observed(p, w, k)')
                      + (IF Inside(p, w, k) THEN 1 ELSE 0)
                 /\ \A b \in Bounds : series'[p][w][k].within[b] =
                      IF w \in Metric!Histograms
                      THEN Cardinality(Fits(Metric!Observed(p, w, k)', b)) ELSE 0
      <4>1. UNCHANGED <<lock, request>>
        BY <2>1
      <4>2. Inside(p, w, k)' <=> Inside(p, w, k)
        BY <4>1 DEF Inside, Metric!Free
      <4>3. \A b : Fits(Metric!Observed(p, w, k), b)' = Fits(Metric!Observed(p, w, k)', b)
        BY <4>1 DEF Fits
      <4> QED BY <4>2, <4>3 DEF Total
    <3>1. /\ series'[p][w][k].within = series[p][w][k].within
          /\ series'[p][w][k].count =
               series[p][w][k].count + (IF p = at[h] /\ w = v /\ k = request[h].kind THEN 1 ELSE 0)
      BY <2>1, CountEffect
    <3>2. /\ series[p][w][k].count =
               Cardinality(Metric!Observed(p, w, k)) + (IF Inside(p, w, k) THEN 1 ELSE 0)
          /\ \A b \in Bounds : series[p][w][k].within[b] =
               IF w \in Metric!Histograms
               THEN Cardinality(Fits(Metric!Observed(p, w, k), b)) ELSE 0
      BY DEF Totals, Total
    <3>3. CASE p = at[h] /\ w = v /\ k = request[h].kind
      <4>1. /\ h \notin Metric!Observed(p, w, k)
            /\ Metric!Observed(p, w, k)' = Metric!Observed(p, w, k) \cup {h}
        BY <2>1, <3>3, ObservedGrows
      <4>2. Cardinality(Metric!Observed(p, w, k)') = Cardinality(Metric!Observed(p, w, k)) + 1
        BY <1>1, <4>1, OneMore
      <4>3. ~Inside(p, w, k)
        BY <2>1, <3>3 DEF Inside
      <4>4. series[p][w][k].count = Cardinality(Metric!Observed(p, w, k)) + 0
        BY <3>2, <4>3
      <4>5. series'[p][w][k].count = Cardinality(Metric!Observed(p, w, k)') + 0
        BY <1>1, <3>1, <3>3, <4>2, <4>4
      <4>6. w \notin Metric!Histograms
        BY <2>1, <3>3
      <4>7. \A b \in Bounds : series'[p][w][k].within[b] = 0
        BY <3>1, <3>2, <4>6
      <4> QED BY <4>3, <4>5, <4>6, <4>7
    <3>4. CASE ~(p = at[h] /\ w = v /\ k = request[h].kind)
      <4>1. Metric!Observed(p, w, k)' = Metric!Observed(p, w, k)
        BY <2>1, <3>4, ObservedGrows
      <4>2. series[p][w][k].count \in Nat
        BY DEF Metric!Sample
      <4>3. series'[p][w][k].count = series[p][w][k].count
        BY <3>1, <3>4, <4>2
      <4> QED BY <3>1, <3>2, <4>1, <4>3
    <3> QED BY <3>3, <3>4
  <2> QED BY <2>2, <2>3
<1>3. CASE Metric!Observe(h, v)
  <2>1. /\ v \in Metric!Histograms /\ lock' = [lock EXCEPT ![at[h]][v] = h]
        /\ Metric!Free(at[h], v) /\ Metric!Count(h, v) /\ UNCHANGED step
    BY <1>3 DEF Metric!Observe
  <2>2. \A p \in Processes, w \in Metric!Vectors :
          lock'[p][w] = IF p = at[h] /\ w = v THEN h ELSE lock[p][w]
    BY <2>1
  <2>3. \A g \in Requests, w \in Metric!Vectors : Metric!Observing(g, w)' <=> Metric!Observing(g, w)
    BY <2>1 DEF Metric!Observing, Metric!Running, Metric!Recorded, Metric!Vector, Metric!PlanOf
  <2>4. Locks'
    <3> SUFFICES ASSUME NEW p \in Processes, NEW w \in Metric!Vectors, NEW g,
                        lock'[p][w] = g, g # Nobody
                 PROVE  w \in Metric!Histograms /\ at[g] = p /\ Metric!Observing(g, w)'
      BY DEF Locks, Metric!Free
    <3>1. CASE p = at[h] /\ w = v
      BY <2>1, <2>2, <2>3, <3>1
    <3>2. CASE ~(p = at[h] /\ w = v)
      <4>1. lock[p][w] = g /\ g \in Requests
        BY <2>2, <3>2
      <4>2. w \in Metric!Histograms /\ at[g] = p /\ Metric!Observing(g, w)
        BY <4>1 DEF Locks, Metric!Free
      <4> QED BY <2>3, <4>1, <4>2
    <3> QED BY <3>1, <3>2
  <2>5. Totals'
    <3> SUFFICES ASSUME NEW p \in Processes, NEW w \in Metric!Vectors, NEW k \in Metric!Kinds
                 PROVE  Total(p, w, k)'
      BY DEF Totals
    <3> SUFFICES /\ series'[p][w][k].count =
                      Cardinality(Metric!Observed(p, w, k))
                      + (IF Inside(p, w, k)' THEN 1 ELSE 0)
                 /\ series'[p][w][k].within = series[p][w][k].within
      <4>1. Total(p, w, k)
        BY DEF Totals
      <4>2. UNCHANGED <<at, request, step>>
        BY <2>1
      <4>3. Metric!Observed(p, w, k)' = Metric!Observed(p, w, k)
        BY <4>2 DEF Metric!Observed
      <4>4. \A b : Fits(Metric!Observed(p, w, k), b)' = Fits(Metric!Observed(p, w, k), b)
        BY <4>2, <4>3 DEF Fits
      <4> QED BY <4>1, <4>3, <4>4 DEF Total
    <3>1. /\ series'[p][w][k].within = series[p][w][k].within
          /\ series'[p][w][k].count =
               series[p][w][k].count + (IF p = at[h] /\ w = v /\ k = request[h].kind THEN 1 ELSE 0)
      BY <2>1, CountEffect
    <3>2. series[p][w][k].count =
            Cardinality(Metric!Observed(p, w, k)) + (IF Inside(p, w, k) THEN 1 ELSE 0)
      BY DEF Totals, Total
    <3>3. CASE p = at[h] /\ w = v /\ k = request[h].kind
      <4>1. ~Inside(p, w, k) /\ Inside(p, w, k)'
        BY <2>1, <2>2, <3>3 DEF Inside, Metric!Free
      <4> QED BY <1>1, <3>1, <3>2, <3>3, <4>1
    <3>4. CASE ~(p = at[h] /\ w = v /\ k = request[h].kind)
      <4>1. Inside(p, w, k)' <=> Inside(p, w, k)
        BY <2>1, <2>2, <3>4 DEF Inside, Metric!Free
      <4> QED BY <1>1, <3>1, <3>2, <3>4, <4>1
    <3> QED BY <3>3, <3>4
  <2> QED BY <2>4, <2>5
<1>4. CASE Metric!FillBuckets(h, v)
  <2>1. /\ lock[at[h]][v] = h /\ lock' = [lock EXCEPT ![at[h]][v] = Nobody] /\ Metric!StepOn(h)
    BY <1>4 DEF Metric!FillBuckets
  <2>2. \A p \in Processes, w \in Metric!Vectors :
          lock'[p][w] = IF p = at[h] /\ w = v THEN Nobody ELSE lock[p][w]
    BY <2>1
  <2>3. v \in Metric!Histograms
    BY <2>1 DEF Locks, Metric!Free
  <2>4. Locks'
    <3> SUFFICES ASSUME NEW p \in Processes, NEW w \in Metric!Vectors, NEW g,
                        lock'[p][w] = g, g # Nobody
                 PROVE  w \in Metric!Histograms /\ at[g] = p /\ Metric!Observing(g, w)'
      BY DEF Locks, Metric!Free
    <3>1. lock[p][w] = g /\ g \in Requests /\ ~(p = at[h] /\ w = v)
      BY <2>2
    <3>2. w \in Metric!Histograms /\ at[g] = p /\ Metric!Observing(g, w)
      BY <3>1 DEF Locks, Metric!Free
    <3>3. g # h
      BY <3>1, <3>2 DEF Metric!Observing
    <3>4. step'[g] = step[g]
      BY <2>1, <3>1, <3>3 DEF Metric!StepOn
    <3> QED BY <3>1, <3>2, <3>4 DEF Metric!Observing, Metric!Running, Metric!Recorded,
                                    Metric!Vector, Metric!PlanOf
  <2>5. Totals'
    <3> SUFFICES ASSUME NEW p \in Processes, NEW w \in Metric!Vectors, NEW k \in Metric!Kinds
                 PROVE  Total(p, w, k)'
      BY DEF Totals
    <3> SUFFICES /\ series'[p][w][k].count =
                      Cardinality(Metric!Observed(p, w, k)')
                      + (IF Inside(p, w, k)' THEN 1 ELSE 0)
                 /\ \A b \in Bounds : series'[p][w][k].within[b] =
                      IF w \in Metric!Histograms
                      THEN Cardinality(Fits(Metric!Observed(p, w, k)', b)) ELSE 0
      BY DEF Total, Fits
    <3>1. /\ series'[p][w][k].count = series[p][w][k].count
          /\ \A b \in Bounds : series'[p][w][k].within[b] =
               series[p][w][k].within[b]
               + (IF p = at[h] /\ w = v /\ k = request[h].kind /\ request[h].took <= b
                  THEN 1 ELSE 0)
      BY <1>4, FillEffect
    <3>2. /\ series[p][w][k].count =
               Cardinality(Metric!Observed(p, w, k)) + (IF Inside(p, w, k) THEN 1 ELSE 0)
          /\ \A b \in Bounds : series[p][w][k].within[b] =
               IF w \in Metric!Histograms
               THEN Cardinality(Fits(Metric!Observed(p, w, k), b)) ELSE 0
      BY DEF Totals, Total
    <3>3. CASE p = at[h] /\ w = v /\ k = request[h].kind
      <4>1. /\ h \notin Metric!Observed(p, w, k)
            /\ Metric!Observed(p, w, k)' = Metric!Observed(p, w, k) \cup {h}
        BY <2>1, <3>3, ObservedGrows
      <4>2. /\ Cardinality(Metric!Observed(p, w, k)') = Cardinality(Metric!Observed(p, w, k)) + 1
            /\ \A b \in Bounds : Cardinality(Fits(Metric!Observed(p, w, k)', b)) =
                 Cardinality(Fits(Metric!Observed(p, w, k), b))
                 + (IF request[h].took <= b THEN 1 ELSE 0)
        <5> DEFINE H == Metric!Observed(p, w, k)
        <5>1. H \in SUBSET Requests /\ h \notin H
          BY <1>1, <4>1
        <5> HIDE DEF H
        <5>2. \A b : /\ Cardinality(H \cup {h}) = Cardinality(H) + 1
                     /\ Cardinality(Fits(H \cup {h}, b))
                          = Cardinality(Fits(H, b)) + (IF request[h].took <= b THEN 1 ELSE 0)
          BY <5>1, OneMore
        <5> QED BY <4>1, <5>2 DEF H
      <4>3. Inside(p, w, k) /\ ~Inside(p, w, k)'
        BY <2>1, <2>2, <3>3 DEF Inside, Metric!Free
      <4>4. series'[p][w][k].count = Cardinality(Metric!Observed(p, w, k)') + 0
        BY <1>1, <3>1, <3>2, <4>2, <4>3
      <4>5. \A b \in Bounds : series'[p][w][k].within[b] = Cardinality(Fits(Metric!Observed(p, w, k)', b))
        <5> SUFFICES ASSUME NEW b \in Bounds
                     PROVE  series'[p][w][k].within[b] = Cardinality(Fits(Metric!Observed(p, w, k)', b))
          OBVIOUS
        <5>1. series[p][w][k].within[b] = Cardinality(Fits(Metric!Observed(p, w, k), b))
          BY <2>3, <3>2, <3>3
        <5>2. series'[p][w][k].within[b] =
                series[p][w][k].within[b] + (IF request[h].took <= b THEN 1 ELSE 0)
          BY <3>1, <3>3
        <5> QED BY <4>2, <5>1, <5>2
      <4> QED BY <2>3, <3>3, <4>3, <4>4, <4>5
    <3>4. CASE ~(p = at[h] /\ w = v /\ k = request[h].kind)
      <4>1. Metric!Observed(p, w, k)' = Metric!Observed(p, w, k)
        BY <2>1, <3>4, ObservedGrows
      <4>2. Inside(p, w, k)' <=> Inside(p, w, k)
        BY <2>1, <2>2, <3>4 DEF Inside, Metric!Free
      <4>3. \A b \in Bounds : series[p][w][k].within[b] \in Nat
        BY DEF Metric!Sample
      <4>4. \A b \in Bounds : series'[p][w][k].within[b] = series[p][w][k].within[b]
        BY <3>1, <3>4, <4>3
      <4> QED BY <3>1, <3>2, <4>1, <4>2, <4>4
    <3> QED BY <3>3, <3>4
  <2> QED BY <2>4, <2>5
<1> QED BY <1>2, <1>3, <1>4

\* The other steps: a request that is accepted has observed nothing yet, and a process
\* that ends takes its observations, series and locks with it.
LEMMA TotalsAccept ==
  ASSUME MetricTypes, Requested, Locks, Totals,
         NEW h \in Requests, NEW p \in Processes, NEW q \in Metric!Request,
         Metric!Accept(h, p, q)
  PROVE  /\ Locks' /\ Totals'
         /\ \A r \in Processes : \A v, k :
              /\ Metric!Observed(r, v, k)' = Metric!Observed(r, v, k)
              /\ \A g \in Metric!Observed(r, v, k) : request'[g] = request[g]
<1> USE MetricTyped
<1>1. /\ request[h] = NoRequest /\ step[h] = 0 /\ at[h] = Nobody
      /\ at' = [at EXCEPT ![h] = p] /\ request' = [request EXCEPT ![h] = q]
      /\ UNCHANGED <<step, series, lock, page>>
  BY DEF Metric!Accept, Requested
<1>2. \A g \in Requests : g # h => at'[g] = at[g] /\ request'[g] = request[g]
  BY <1>1
<1>3. ASSUME NEW r \in Processes, NEW v, NEW k
      PROVE  Metric!Observed(r, v, k)' = Metric!Observed(r, v, k)
  <2>1. h \notin Metric!Observed(r, v, k)
    BY <1>1 DEF Metric!Observed
  <2>2. ~\E i \in 1..step'[h] : Metric!Plan(k)[i] = v
    BY <1>1
  <2> QED BY <1>1, <1>2, <2>1, <2>2 DEF Metric!Observed
<1>4. ASSUME NEW r \in Processes, NEW v, NEW k, NEW g \in Metric!Observed(r, v, k)
      PROVE  request'[g] = request[g]
  <2>1. g \in Requests /\ g # h
    BY <1>1 DEF Metric!Observed
  <2> QED BY <1>2, <2>1
<1>5. \A r \in Processes, v \in Metric!Vectors : ~Metric!Free(r, v) =>
        lock[r][v] \in Requests /\ lock[r][v] # h
  BY <1>1 DEF Locks, Metric!Free
<1>6. Locks'
  <2> SUFFICES ASSUME NEW r \in Processes, NEW v \in Metric!Vectors, NEW g,
                      lock'[r][v] = g, g # Nobody
               PROVE  v \in Metric!Histograms /\ at'[g] = r /\ Metric!Observing(g, v)'
    BY DEF Locks, Metric!Free
  <2>1. /\ lock[r][v] = g /\ g \in Requests /\ g # h
        /\ v \in Metric!Histograms /\ at[g] = r /\ Metric!Observing(g, v)
    BY <1>1, <1>5 DEF Locks, Metric!Free
  <2> QED BY <1>1, <1>2, <2>1 DEF Metric!Observing, Metric!Running, Metric!Recorded,
                                  Metric!Vector, Metric!PlanOf
<1>7. Totals'
  <2> SUFFICES ASSUME NEW r \in Processes, NEW v \in Metric!Vectors, NEW k \in Metric!Kinds
               PROVE  Total(r, v, k)'
    BY DEF Totals
  <2>1. Total(r, v, k)
    BY DEF Totals
  <2>2. Inside(r, v, k)' <=> Inside(r, v, k)
    BY <1>1, <1>2, <1>5 DEF Inside, Metric!Free
  <2>3. Metric!Observed(r, v, k)' = Metric!Observed(r, v, k)
    BY <1>3
  <2>4. \A b : Fits(Metric!Observed(r, v, k), b)' = Fits(Metric!Observed(r, v, k), b)
    <3>1. \A b : Fits(Metric!Observed(r, v, k), b)' =
                   {g \in Metric!Observed(r, v, k) : request'[g].took <= b}
      BY <2>3 DEF Fits
    <3>2. \A g \in Metric!Observed(r, v, k) : request'[g] = request[g]
      BY <1>1, <1>2 DEF Metric!Observed
    <3> QED BY <3>1, <3>2 DEF Fits
  <2> QED BY <1>1, <2>1, <2>2, <2>3, <2>4 DEF Total
<1> QED BY <1>3, <1>4, <1>6, <1>7

LEMMA TotalsForget ==
  ASSUME MetricTypes, Requested, Locks, Totals, NEW p \in Processes, Metric!Forget(p)
  PROVE  /\ Locks' /\ Totals'
         /\ \A r \in Processes \ {p} : \A v, k :
              Metric!Observed(r, v, k)' = Metric!Observed(r, v, k)
<1> USE MetricTyped
<1>1. /\ at' = [h \in Requests |-> IF at[h] = p THEN Nobody ELSE at[h]]
      /\ series' = [series EXCEPT ![p] = Metric!NewSeries]
      /\ lock' = [lock EXCEPT ![p] = Metric!Unlocked]
      /\ UNCHANGED <<request, step>>
  BY DEF Metric!Forget
<1>2. \A r \in Processes, v \in Metric!Vectors :
        IF r = p THEN lock'[r][v] = Nobody ELSE lock'[r][v] = lock[r][v]
  BY <1>1 DEF Metric!Unlocked
<1>3. ASSUME NEW r \in Processes \ {p}, NEW v, NEW k
      PROVE  Metric!Observed(r, v, k)' = Metric!Observed(r, v, k)
  BY <1>1 DEF Metric!Observed
<1>4. Locks'
  <2> SUFFICES ASSUME NEW r \in Processes, NEW v \in Metric!Vectors, NEW g,
                      lock'[r][v] = g, g # Nobody
               PROVE  v \in Metric!Histograms /\ at'[g] = r /\ Metric!Observing(g, v)'
    BY DEF Locks, Metric!Free
  <2>1. r # p /\ lock[r][v] = g /\ g \in Requests
    BY <1>2
  <2>2. v \in Metric!Histograms /\ at[g] = r /\ Metric!Observing(g, v)
    BY <2>1 DEF Locks, Metric!Free
  <2>3. at'[g] = at[g]
    BY <1>1, <2>1, <2>2
  <2> QED BY <1>1, <2>2, <2>3 DEF Metric!Observing, Metric!Running, Metric!Recorded,
                                  Metric!Vector, Metric!PlanOf
<1>5. Totals'
  <2> SUFFICES ASSUME NEW r \in Processes, NEW v \in Metric!Vectors, NEW k \in Metric!Kinds
               PROVE  Total(r, v, k)'
    BY DEF Totals
  <2>1. CASE r # p
    <3>1. Total(r, v, k)
      BY DEF Totals
    <3>2. Inside(r, v, k)' <=> Inside(r, v, k)
      BY <1>1, <1>2, <2>1 DEF Inside, Metric!Free
    <3>3. Metric!Observed(r, v, k)' = Metric!Observed(r, v, k)
      BY <1>3, <2>1
    <3>4. \A b : Fits(Metric!Observed(r, v, k), b)' = Fits(Metric!Observed(r, v, k), b)
      BY <1>1, <3>3 DEF Fits
    <3>5. series'[r][v][k] = series[r][v][k]
      BY <1>1, <2>1
    <3> QED BY <3>1, <3>2, <3>3, <3>4, <3>5 DEF Total
  <2>2. CASE r = p
    <3>1. Metric!Observed(r, v, k)' = {}
      BY <1>1, <2>2 DEF Metric!Observed
    <3>2. \A b : Fits(Metric!Observed(r, v, k), b)' = {}
      BY <3>1 DEF Fits
    <3>3. ~Inside(r, v, k)'
      BY <1>2, <2>2 DEF Inside, Metric!Free
    <3>4. series'[r][v][k] = Metric!Zero
      BY <1>1, <2>2 DEF Metric!NewSeries
    <3>5. series'[r][v][k].count = 0 /\ \A b \in Bounds : series'[r][v][k].within[b] = 0
      BY <3>4 DEF Metric!Zero
    <3>6. Cardinality({}) = 0
      BY FS_EmptySet
    <3>7. /\ Cardinality(Metric!Observed(r, v, k))' = 0
          /\ \A b \in Bounds : Cardinality(Fits(Metric!Observed(r, v, k), b))' = 0
      BY <3>1, <3>2, <3>6
    <3> QED BY <3>3, <3>5, <3>7 DEF Total
  <2> QED BY <2>1, <2>2
<1> QED BY <1>3, <1>4, <1>5

LEMMA TotalsStep ==
  ASSUME MetricTypes, Requested, Locks, Totals, [Next]_vars
  PROVE  Locks' /\ Totals'
<1>1. ASSUME UNCHANGED <<at, request, step, series, lock>>
      PROVE  Locks' /\ Totals'
  <2>1. Locks'
    BY <1>1 DEF Locks, Metric!Free, Metric!Observing, Metric!Running, Metric!Recorded,
                Metric!Vector, Metric!PlanOf
  <2>2. ASSUME NEW p \in Processes, NEW v \in Metric!Vectors, NEW k \in Metric!Kinds
        PROVE  Total(p, v, k)'
    <3>1. Total(p, v, k)
      BY DEF Totals
    <3>2. Metric!Observed(p, v, k)' = Metric!Observed(p, v, k)
      BY <1>1 DEF Metric!Observed
    <3>3. \A b : Fits(Metric!Observed(p, v, k), b)' = Fits(Metric!Observed(p, v, k), b)
      BY <1>1, <3>2 DEF Fits
    <3>4. Inside(p, v, k)' <=> Inside(p, v, k)
      BY <1>1 DEF Inside, Metric!Free
    <3> QED BY <1>1, <3>1, <3>2, <3>3, <3>4 DEF Total
  <2> QED BY <2>1, <2>2 DEF Totals
<1>2. ASSUME NEW p \in Processes, Metric!Scrape(p)
      PROVE  UNCHANGED <<at, request, step, series, lock>>
  BY <1>2 DEF Metric!Scrape
<1>3. CASE UNCHANGED metrics
  BY <1>1, <1>3 DEF metrics
<1> QED BY <1>1, <1>2, <1>3, MetricCases, TotalsWork, TotalsAccept, TotalsForget

\* The times of a set of requests add up, and depend on no other requests.
LEMMA TookSame ==
  ASSUME NEW H, NEW r, NEW q, \A h \in H : r[h].took = q[h].took
  PROVE  TookBy(r, H) = TookBy(q, H)
<1>1. [h \in H |-> r[h].took] = [h \in H |-> q[h].took]
  OBVIOUS
<1> QED BY <1>1 DEF TookBy

LEMMA TookMore ==
  ASSUME NEW H \in SUBSET Requests, NEW h \in Requests, h \notin H, NEW r,
         \A g \in H \cup {h} : r[g].took \in Nat
  PROVE  TookBy(r, H \cup {h}) = TookBy(r, H) + r[h].took
<1> DEFINE w == [g \in H \cup {h} |-> r[g].took]
<1>1. IsFiniteSet(H)
  BY RequestAssumption, FS_Subset
<1>2. w \in [H \cup {h} -> Nat] /\ w[h] = r[h].took
  OBVIOUS
<1>3. [g \in H |-> w[g]] = [g \in H |-> r[g].took]
  OBVIOUS
<1> HIDE DEF w
<1>4. Summed(w, H \cup {h}) = Summed([g \in H |-> w[g]], H) + w[h]
  BY <1>1, <1>2, SummedAdd
<1> QED BY <1>2, <1>3, <1>4 DEF TookBy, w

LEMMA ObservedTook ==
  ASSUME MetricTypes, Requested, NEW p \in Processes, NEW v, NEW k \in Metric!Kinds,
         NEW h \in Metric!Observed(p, v, k)
  PROVE  request[h].took \in Nat
<1>1. /\ h \in Requests /\ at[h] = p /\ request[h].kind = k
      /\ \E i \in 1..step[h] : Metric!Plan(k)[i] = v
  BY DEF Metric!Observed
<1>2. request[h] \in Metric!Request /\ step[h] <= Len(Metric!PlanOf(h)) /\ step[h] \in 0..4
  BY <1>1, MetricTyped DEF Requested
<1>3. Len(Metric!Plan(k)) \in 0..4 /\ step[h] # 0
  BY <1>1, <1>2, PlanFacts
<1>4. Len(Metric!Plan(k)) # 0
  BY <1>1, <1>2, <1>3 DEF Metric!PlanOf
<1> QED BY <1>1, <1>2, <1>4, RequestFacts

LEMMA TimesWork ==
  ASSUME MetricTypes, Requested, Times, NEW h \in Requests, Metric!Work(h),
         Locks
  PROVE  Times'
<1> USE MetricTyped
<1> PICK v \in Metric!Vectors :
         /\ Metric!Observing(h, v)
         /\ Metric!Add(h, v) \/ Metric!Observe(h, v) \/ Metric!FillBuckets(h, v)
         /\ UNCHANGED <<at, request, page>>
         /\ at[h] \in Processes /\ request[h] \in Metric!Request
         /\ request[h].kind \in Metric!Kinds /\ request[h].took \in Nat
         /\ step[h] \in 0..3 /\ step[h] + 1 \in 1..Len(Metric!Plan(request[h].kind))
         /\ Metric!Plan(request[h].kind)[step[h] + 1] = v
  BY WorkFacts
<1> SUFFICES ASSUME NEW p \in Processes, NEW w \in Metric!Vectors, NEW k \in Metric!Kinds
             PROVE  Timed(p, w, k)'
  BY DEF Times
<1> DEFINE mine == p = at[h] /\ w = v /\ k = request[h].kind
           H == Metric!Observed(p, w, k)
<1>1. Timed(p, w, k)
  BY DEF Times
<1>2. CASE Metric!Add(h, v)
  <2>1. /\ v \notin Metric!Histograms /\ lock' = lock
        /\ Metric!Count(h, v) /\ Metric!StepOn(h)
    BY <1>2 DEF Metric!Add
  <2>2. series'[p][w][k].sum = series[p][w][k].sum
    BY <2>1, CountEffect
  <2>3. CASE w \in Metric!Histograms
    <3>1. H' = H
      BY <2>1, <2>3, ObservedGrows
    <3>2. Inside(p, w, k)' <=> Inside(p, w, k)
      BY <2>1 DEF Inside, Metric!Free
    <3> HIDE DEF H
    <3> QED BY <1>1, <2>1, <2>2, <3>1, <3>2 DEF Timed, H
  <2> QED BY <1>1, <2>2, <2>3 DEF Timed
<1>3. CASE Metric!Observe(h, v)
  <2>1. /\ v \in Metric!Histograms /\ lock' = [lock EXCEPT ![at[h]][v] = h]
        /\ Metric!Free(at[h], v) /\ Metric!Count(h, v) /\ UNCHANGED <<at, request, step>>
    BY <1>3 DEF Metric!Observe
  <2>2. lock'[p][w] = IF p = at[h] /\ w = v THEN h ELSE lock[p][w]
    BY <2>1
  <2>3. series'[p][w][k].sum =
          IF mine THEN series[p][w][k].sum + request[h].took ELSE series[p][w][k].sum
    BY <2>1, CountEffect
  <2>4. H' = H
    BY <2>1 DEF Metric!Observed
  <2>5. mine => ~Inside(p, w, k) /\ Inside(p, w, k)' /\ lock'[p][w] = h
    BY <2>1, <2>2 DEF Inside, Metric!Free
  <2>6. ~mine => /\ Inside(p, w, k)' <=> Inside(p, w, k)
                 /\ Inside(p, w, k) => lock'[p][w] = lock[p][w]
    BY <2>1, <2>2 DEF Inside, Metric!Free
  <2> HIDE DEF H, mine
  <2>7. CASE mine
    <3>1. w \in Metric!Histograms
      BY <2>1, <2>7 DEF mine
    <3> QED BY <1>1, <2>1, <2>3, <2>4, <2>5, <2>7, <3>1 DEF Timed, H
  <2>8. CASE ~mine
    BY <1>1, <2>1, <2>3, <2>4, <2>6, <2>8 DEF Timed, H
  <2> QED BY <2>7, <2>8
<1>4. CASE Metric!FillBuckets(h, v)
  <2>1. /\ lock[at[h]][v] = h /\ lock' = [lock EXCEPT ![at[h]][v] = Nobody] /\ Metric!StepOn(h)
    BY <1>4 DEF Metric!FillBuckets
  <2>2. lock'[p][w] = IF p = at[h] /\ w = v THEN Nobody ELSE lock[p][w]
    BY <2>1
  <2>3. series'[p][w][k].sum = series[p][w][k].sum
    BY <1>4, FillEffect
  <2>4. CASE mine
    <3>1. h \notin H /\ H' = H \cup {h} /\ H \in SUBSET Requests
      BY <2>1, <2>4, ObservedGrows, ObservedFinite
    <3>2. \A g \in H \cup {h} : request[g].took \in Nat
      BY ObservedTook
    <3>3. Inside(p, w, k) /\ lock[p][w] = h /\ ~Inside(p, w, k)'
      BY <2>1, <2>2, <2>4 DEF Inside, Metric!Free
    <3> HIDE DEF H
    <3>4. TookBy(request, H \cup {h}) = TookBy(request, H) + request[h].took
      BY <3>1, <3>2, TookMore
    <3>5. request' = request
      OBVIOUS
    <3> QED BY <1>1, <2>3, <3>1, <3>3, <3>4, <3>5 DEF Timed, H
  <2>5. CASE ~mine
    <3>1. H' = H
      BY <2>1, <2>5, ObservedGrows
    <3>2. /\ Inside(p, w, k)' <=> Inside(p, w, k)
          /\ Inside(p, w, k) => lock'[p][w] = lock[p][w]
      BY <2>1, <2>2, <2>5 DEF Inside, Metric!Free
    <3>3. request' = request
      OBVIOUS
    <3> HIDE DEF H
    <3> QED BY <1>1, <2>3, <3>1, <3>2, <3>3 DEF Timed, H
  <2> QED BY <2>4, <2>5
<1> QED BY <1>2, <1>3, <1>4

LEMMA TimesStep ==
  ASSUME MetricTypes, Requested, Locks, Totals, Times, [Next]_vars
  PROVE  Times'
<1> USE MetricTyped
<1> SUFFICES ASSUME ~\E h \in Requests : Metric!Work(h),
                    NEW p \in Processes, NEW v \in Metric!Vectors, NEW k \in Metric!Kinds
             PROVE  Timed(p, v, k)'
  BY TimesWork DEF Times
<1> DEFINE H == Metric!Observed(p, v, k)
<1>1. Timed(p, v, k)
  BY DEF Times
<1>2. ASSUME UNCHANGED <<at, request, step, series, lock>>
      PROVE  Timed(p, v, k)'
  <2>1. H' = H /\ (Inside(p, v, k)' <=> Inside(p, v, k))
    BY <1>2 DEF Metric!Observed, Inside, Metric!Free
  <2> HIDE DEF H
  <2> QED BY <1>1, <1>2, <2>1 DEF Timed, H
<1>3. ASSUME NEW q \in Processes, Metric!Scrape(q)
      PROVE  UNCHANGED <<at, request, step, series, lock>>
  BY <1>3 DEF Metric!Scrape
<1>4. ASSUME NEW h \in Requests, NEW r \in Processes, NEW q \in Metric!Request,
             Metric!Accept(h, r, q)
      PROVE  Timed(p, v, k)'
  <2>1. /\ request' = [request EXCEPT ![h] = q] /\ at[h] = Nobody
        /\ UNCHANGED <<series, lock>>
    BY <1>4 DEF Metric!Accept, Requested
  <2>2. H' = H /\ \A g \in H : request'[g] = request[g]
    BY <1>4, TotalsAccept
  <2>3. ~Metric!Free(p, v) => lock[p][v] # h /\ request'[lock[p][v]] = request[lock[p][v]]
    BY <2>1 DEF Locks, Metric!Free
  <2>4. Inside(p, v, k)' <=> Inside(p, v, k)
    BY <2>1, <2>3 DEF Inside, Metric!Free
  <2> HIDE DEF H
  <2>5. TookBy(request', H) = TookBy(request, H)
    BY <2>2, TookSame
  <2> QED BY <1>1, <2>1, <2>2, <2>3, <2>4, <2>5 DEF Timed, Inside, H
<1>5. ASSUME NEW r \in Processes, Metric!Forget(r)
      PROVE  Timed(p, v, k)'
  <2>1. /\ at' = [h \in Requests |-> IF at[h] = r THEN Nobody ELSE at[h]]
        /\ series' = [series EXCEPT ![r] = Metric!NewSeries]
        /\ lock' = [lock EXCEPT ![r] = Metric!Unlocked]
        /\ UNCHANGED <<request, step>>
    BY <1>5 DEF Metric!Forget
  <2>2. CASE p # r
    <3>1. H' = H
      BY <1>5, <2>2, TotalsForget
    <3>2. lock'[p] = lock[p] /\ series'[p] = series[p]
      BY <2>1, <2>2
    <3>3. Inside(p, v, k)' <=> Inside(p, v, k)
      BY <2>1, <3>2 DEF Inside, Metric!Free
    <3> HIDE DEF H
    <3> QED BY <1>1, <2>1, <3>1, <3>2, <3>3 DEF Timed, H
  <2>3. CASE p = r
    <3>1. H' = {}
      BY <2>1, <2>3 DEF Metric!Observed
    <3>2. series'[p][v][k].sum = 0
      BY <2>1, <2>3 DEF Metric!NewSeries, Metric!Zero
    <3>3. ~Inside(p, v, k)'
      BY <2>1, <2>3 DEF Inside, Metric!Free, Metric!Unlocked
    <3>4. TookBy(request', {}) = 0
      BY SummedNothing DEF TookBy
    <3> HIDE DEF H
    <3> QED BY <3>1, <3>2, <3>3, <3>4 DEF Timed, H
  <2> QED BY <2>2, <2>3
<1>6. CASE UNCHANGED metrics
  BY <1>2, <1>6 DEF metrics
<1> QED BY <1>2, <1>3, <1>4, <1>5, <1>6, MetricCases

\* What is read of a vector that nobody is inside of is the sum of what was observed,
\* and a page keeps what it has read while the handlers go on.
LEMMA SameCardinality == \A S : Metric!Cardinality(S) = Cardinality(S)
  BY DEF Metric!Cardinality, Cardinality

\* The sum as the model states it, in a state and in the next.
LEMMA SameTook ==
  ASSUME NEW H \in SUBSET Requests
  PROVE  Metric!Took(H) = TookBy(request, H) /\ Metric!Took(H)' = TookBy(request', H)
<1> DEFINE w(r) == [h \in H |-> r[h].took]
           Adds(f, r) == f = [s \in SUBSET H |->
                               IF s = {} THEN 0 ELSE r[Pick(s)].took + f[s \ {Pick(s)}]]
<1>1. ASSUME NEW r PROVE (CHOOSE f : Adds(f, r))[H] = TookBy(r, H)
  <2>1. \A s \in SUBSET H : s # {} => w(r)[Pick(s)] = r[Pick(s)].took
    BY PickIn
  <2>2. \A f : Adds(f, r) <=> Sums(f, w(r), H)
    BY <2>1 DEF Sums
  <2>3. IsFiniteSet(H)
    BY RequestAssumption, FS_Subset
  <2> DEFINE g == CHOOSE f : Adds(f, r)
  <2> HIDE DEF w
  <2>4. PICK f : Sums(f, w(r), H)
    BY <2>3, SumsExist
  <2>5. Adds(f, r)
    BY <2>2, <2>4
  <2> HIDE DEF Adds
  <2>6. Adds(g, r)
    BY <2>5
  <2> HIDE DEF g
  <2>7. Sums(g, w(r), H)
    BY <2>2, <2>6
  <2>8. Summed(w(r), H) = g[H]
    BY <2>3, <2>7, SummedIs
  <2> QED BY <2>8 DEF TookBy, w, g
<1>2. Metric!Took(H) = (CHOOSE f : Adds(f, request))[H]
  BY DEF Metric!Took, Metric!MapThenSumSet, Metric!MapThenFoldSet, Pick
<1>3. Metric!Took(H)' = (CHOOSE f : Adds(f, request'))[H]
  BY DEF Metric!Took, Metric!MapThenSumSet, Metric!MapThenFoldSet, Pick
<1> HIDE DEF Adds
<1> QED BY <1>1, <1>2, <1>3

LEMMA ReadsSum ==
  ASSUME MetricTypes, Totals, Times, NEW p \in Processes, NEW v \in Metric!Vectors,
         Metric!Free(p, v), NEW k \in Metric!Kinds
  PROVE  series[p][v][k] = Metric!Sum(Metric!Observed(p, v, k), v)
<1> DEFINE H == Metric!Observed(p, v, k)
           s == series[p][v][k]
<1>1. s \in Metric!Sample
  BY MetricTyped
<1>2. Cardinality(H) \in Nat
  BY ObservedFinite, FS_CardinalityType
<1>3. /\ s.count = Cardinality(H) + 0
      /\ \A b \in Bounds : s.within[b] =
           IF v \in Metric!Histograms THEN Cardinality(Fits(H, b)) ELSE 0
  BY DEF Totals, Total, Inside
<1>4. \A b : Fits(H, b) = {h \in H : request[h].took <= b}
  BY DEF Fits
<1>5. s.sum = IF v \in Metric!Histograms THEN Metric!Took(H) ELSE 0
  <2>1. s.sum = IF v \in Metric!Histograms THEN TookBy(request, H) ELSE 0
    BY DEF Times, Timed, Inside
  <2>2. H \in SUBSET Requests
    BY ObservedFinite
  <2> HIDE DEF H
  <2> QED BY <2>1, <2>2, SameTook
<1> HIDE DEF H, s
<1>6. /\ s = [count |-> s.count, sum |-> s.sum, within |-> s.within]
      /\ s.within \in [Bounds -> Nat]
  BY <1>1 DEF Metric!Sample
<1>7. s.within = [b \in Bounds |-> IF v \in Metric!Histograms
                                   THEN Cardinality({h \in H : request[h].took <= b}) ELSE 0]
  BY <1>3, <1>4, <1>6
<1>8. s.count = Cardinality(H)
  BY <1>2, <1>3
<1>9. s = Metric!Sum(H, v)
  <2> DEFINE fitting == [b \in Bounds |-> IF v \in Metric!Histograms
                                         THEN Cardinality({h \in H : request[h].took <= b}) ELSE 0]
  <2>1. Metric!Sum(H, v) =
          [count |-> Cardinality(H),
           sum |-> IF v \in Metric!Histograms THEN Metric!Took(H) ELSE 0, within |-> fitting]
    BY SameCardinality DEF Metric!Sum
  <2>2. s.within = fitting
    BY <1>7
  <2> HIDE DEF fitting
  <2> QED BY <1>5, <1>6, <1>8, <2>1, <2>2
<1> QED BY <1>9 DEF H, s

PageOf(p, v) ==
  \A k \in Metric!Kinds :
    \E H \in SUBSET Metric!Observed(p, v, k) : page.last[k] = Metric!Sum(H, v)
Paged ==
  page.size > 0 => page.of # Nobody /\ PageOf(page.of, Metric!Registered[page.size])

LEMMA PageKept ==
  ASSUME NEW p, NEW v, PageOf(p, v), UNCHANGED page,
         \A k \in Metric!Kinds :
           /\ Metric!Observed(p, v, k) \subseteq Metric!Observed(p, v, k)'
           /\ \A h \in Metric!Observed(p, v, k) : request'[h] = request[h]
  PROVE  PageOf(p, v)'
<1> SUFFICES ASSUME NEW k \in Metric!Kinds
             PROVE  \E H \in SUBSET Metric!Observed(p, v, k)' : page.last[k] = Metric!Sum(H, v)'
  BY DEF PageOf
<1>1. PICK H \in SUBSET Metric!Observed(p, v, k) : page.last[k] = Metric!Sum(H, v)
  BY DEF PageOf
<1>2. H \in SUBSET Requests /\ \A h \in H : request'[h] = request[h]
  BY <1>1, ObservedFinite
<1>3. \A b : {h \in H : request'[h].took <= b} = {h \in H : request[h].took <= b}
  BY <1>2
<1>4. Metric!Took(H)' = Metric!Took(H)
  BY <1>2, SameTook, TookSame
<1>5. Metric!Sum(H, v)' = Metric!Sum(H, v)
  BY <1>3, <1>4 DEF Metric!Sum
<1>6. H \in SUBSET Metric!Observed(p, v, k)'
  BY <1>1
<1> QED BY <1>1, <1>5, <1>6, Zenon

LEMMA RegisteredFacts == \A i \in 1..4 : Metric!Registered[i] \in Metric!Vectors
<1>1. DOMAIN Metric!Registered = 1..4
  BY DEF Metric!Registered
<1> QED BY <1>1 DEF Metric!Vectors, Metric!ToSet

LEMMA ObservedKept ==
  ASSUME MetricTypes, Requested, NEW h \in Requests, Metric!Work(h),
         NEW p \in Processes, NEW w \in Metric!Vectors, NEW k \in Metric!Kinds
  PROVE  Metric!Observed(p, w, k) \subseteq Metric!Observed(p, w, k)'
<1> PICK v \in Metric!Vectors :
         /\ Metric!Observing(h, v)
         /\ Metric!Add(h, v) \/ Metric!Observe(h, v) \/ Metric!FillBuckets(h, v)
         /\ UNCHANGED <<at, request, page>>
  BY WorkFacts
<1>1. UNCHANGED <<at, request>>
  OBVIOUS
<1>2. CASE Metric!StepOn(h)
  BY <1>1, <1>2, ObservedGrows
<1>3. CASE UNCHANGED step
  BY <1>1, <1>3 DEF Metric!Observed
<1> QED BY <1>2, <1>3 DEF Metric!Add, Metric!Observe, Metric!FillBuckets

LEMMA PagedStep ==
  ASSUME MetricTypes, Requested, Locks, Totals, Times, Paged, [Next]_vars
  PROVE  Paged'
<1> PICK of, shown : of = page.of /\ shown = Metric!Registered[page.size]
  OBVIOUS
<1>1. page.size > 0 /\ Paged => of \in Processes /\ shown \in Metric!Vectors
  <2>1. page.of \in Processes \cup {Nobody} /\ page.size \in 0..4
    BY MetricTyped
  <2>2. page.size > 0 => page.size \in 1..4
    BY <2>1
  <2> QED BY <2>1, <2>2, RegisteredFacts DEF Paged
<1>2. ASSUME UNCHANGED <<page, request>>,
             page.size > 0 => \A k \in Metric!Kinds :
               Metric!Observed(of, shown, k) \subseteq Metric!Observed(of, shown, k)'
      PROVE  Paged'
  <2> SUFFICES ASSUME page.size > 0 PROVE PageOf(of, shown)'
    BY <1>2 DEF Paged
  <2>1. PageOf(of, shown) /\ UNCHANGED page
    BY <1>2 DEF Paged
  <2>2. \A k \in Metric!Kinds :
          /\ Metric!Observed(of, shown, k) \subseteq Metric!Observed(of, shown, k)'
          /\ \A h \in Metric!Observed(of, shown, k) : request'[h] = request[h]
    BY <1>2
  <2> QED BY <2>1, <2>2, PageKept
<1>3. ASSUME NEW h \in Requests, Metric!Work(h) PROVE Paged'
  <2>1. UNCHANGED <<page, request>>
    BY <1>3, WorkFacts
  <2>2. page.size > 0 => \A k \in Metric!Kinds :
          Metric!Observed(of, shown, k) \subseteq Metric!Observed(of, shown, k)'
    BY <1>1, <1>3, ObservedKept
  <2> QED BY <1>2, <2>1, <2>2
<1>4. ASSUME NEW h \in Requests, NEW p \in Processes, NEW q \in Metric!Request,
             Metric!Accept(h, p, q)
      PROVE  Paged'
  <2> SUFFICES ASSUME page.size > 0 PROVE PageOf(of, shown)'
    BY <1>4 DEF Paged, Metric!Accept
  <2>1. PageOf(of, shown) /\ of \in Processes /\ UNCHANGED page
    BY <1>1, <1>4 DEF Paged, Metric!Accept
  <2>2. \A k \in Metric!Kinds :
          /\ Metric!Observed(of, shown, k) \subseteq Metric!Observed(of, shown, k)'
          /\ \A g \in Metric!Observed(of, shown, k) : request'[g] = request[g]
    BY <1>4, <2>1, TotalsAccept
  <2> QED BY <2>1, <2>2, PageKept
<1>5. ASSUME NEW p \in Processes, Metric!Scrape(p) PROVE Paged'
  <2>1. UNCHANGED <<at, request, step, series, lock>>
    BY <1>5 DEF Metric!Scrape
  <2>2. CASE page' = Metric!NewPage
    BY <2>2 DEF Paged, Metric!NewPage
  <2>3. ASSUME NEW v \in Metric!Vectors, v = Metric!Registered[page.size + 1],
               Metric!Readable(p, v),
               page' = [of |-> p, size |-> page.size + 1, last |-> series[p][v]]
        PROVE  Paged'
    <3> SUFFICES PageOf(p, v)'
      <4>1. page'.of = p /\ Metric!Registered[page'.size] = v /\ p # Nobody
        BY <2>3, ServiceAssumption
      <4>2. PageOf(p, v)' => PageOf(page.of, Metric!Registered[page.size])'
        BY <4>1
      <4> QED BY <4>1, <4>2 DEF Paged
    <3> SUFFICES ASSUME NEW k \in Metric!Kinds
                 PROVE  \E H \in SUBSET Metric!Observed(p, v, k) :
                          series[p][v][k] = Metric!Sum(H, v)
      <4>1. \A k : Metric!Observed(p, v, k)' = Metric!Observed(p, v, k)
        BY <2>1 DEF Metric!Observed
      <4>2. \A H \in SUBSET Requests : Metric!Sum(H, v)' = Metric!Sum(H, v)
        <5> SUFFICES ASSUME NEW H \in SUBSET Requests PROVE Metric!Sum(H, v)' = Metric!Sum(H, v)
          OBVIOUS
        <5>1. Metric!Took(H)' = Metric!Took(H)
          BY <2>1, SameTook
        <5> QED BY <2>1, <5>1 DEF Metric!Sum
      <4>3. page'.last = series[p][v]
        BY <2>3
      <4> QED BY <4>1, <4>2, <4>3, ObservedFinite DEF PageOf
    <3>1. series[p][v][k] = Metric!Sum(Metric!Observed(p, v, k), v)
      BY <2>3, ReadsSum DEF Metric!Readable
    <3> QED BY <3>1
  <2> QED BY <1>5, <2>2, <2>3 DEF Metric!Scrape
<1>6. ASSUME NEW p \in Processes, Metric!Forget(p) PROVE Paged'
  <2>1. CASE of = p
    BY <1>6, <2>1 DEF Metric!Forget, Metric!NewPage, Paged
  <2>2. CASE of # p
    <3>1. UNCHANGED <<page, request>>
      BY <1>6, <2>2 DEF Metric!Forget
    <3>2. page.size > 0 => of \in Processes
      BY <1>1
    <3>3. page.size > 0 => \A k : Metric!Observed(of, shown, k)' = Metric!Observed(of, shown, k)
      BY <1>6, <2>2, <3>2, TotalsForget
    <3> QED BY <1>2, <3>1, <3>3
  <2> QED BY <2>1, <2>2
<1>7. CASE UNCHANGED metrics
  BY <1>2, <1>7 DEF metrics, Metric!Observed
<1> QED BY <1>3, <1>4, <1>5, <1>6, <1>7, MetricCases

\* Every page adds up, for any number of handlers that observe while it is written, and
\* concurrent writers lose nothing.
THEOREM Pages == Spec => []PagesAddUp
<1> DEFINE Inv == MetricTypes /\ Requested /\ Locks /\ Totals /\ Times /\ Paged
<1>1. Init => Inv
  <2> SUFFICES ASSUME Init PROVE Locks /\ Totals /\ Times /\ Paged
    BY MetricTypesInit
  <2>1. Locks /\ Paged
    BY DEF Init, Metric!Init, Metric!Unlocked, Metric!NewPage, Locks, Paged, Metric!Free
  <2>2. Totals /\ Times
    <3> SUFFICES ASSUME NEW p \in Processes, NEW v \in Metric!Vectors, NEW k \in Metric!Kinds
                 PROVE  Total(p, v, k) /\ Timed(p, v, k)
      BY DEF Totals, Times
    <3>1. Metric!Observed(p, v, k) = {} /\ \A b : Fits(Metric!Observed(p, v, k), b) = {}
      BY ServiceAssumption DEF Init, Metric!Init, Metric!Observed, Fits
    <3>2. ~Inside(p, v, k)
      BY DEF Init, Metric!Init, Metric!Unlocked, Inside, Metric!Free
    <3>3. series[p][v][k] = Metric!Zero
      BY DEF Init, Metric!Init, Metric!NewSeries
    <3>4. /\ series[p][v][k].count = 0 /\ series[p][v][k].sum = 0
          /\ \A b \in Bounds : series[p][v][k].within[b] = 0
      BY <3>3 DEF Metric!Zero
    <3>5. TookBy(request, {}) = 0
      BY SummedNothing DEF TookBy
    <3> QED
      <4>1. Total(p, v, k)
        BY <3>1, <3>2, <3>4, FS_EmptySet DEF Total
      <4>2. Timed(p, v, k)
        BY <3>1, <3>2, <3>4, <3>5 DEF Timed
      <4> QED BY <4>1, <4>2
  <2> QED BY <2>1, <2>2
<1>2. Inv /\ [Next]_vars => Inv'
  BY MetricTypesStep, TotalsStep, TimesStep, PagedStep
<1>3. Inv => PagesAddUp
  BY ReadsSum DEF PagesAddUp, Metric!PagesAddUp, Paged, PageOf
<1> QED BY <1>1, <1>2, <1>3, PTL DEF Spec
==============================================================================
