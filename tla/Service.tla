-------------------------------- MODULE Service --------------------------------
(***************************************************************************)
(* The life of an order service process, from main.go: it migrates the     *)
(* database, serves HTTP and gRPC, and on a signal closes the update       *)
(* broker, lets the HTTP handlers and then the gRPC ones finish, all       *)
(* within one time limit, and exits.  Several processes share a database,  *)
(* as when one replaces another; one that ended is started again.          *)
(***************************************************************************)
EXTENDS Naturals, FiniteSets, Sequences

CONSTANTS Processes, Files, Requests, Durations, Bounds, Nobody, NoRequest,
          MaxStarts,    \* bound: starts of all processes together
          MaxFailures   \* bound: failures and crashes of all processes together

ASSUME ServiceAssumption ==
  /\ Files \in Nat
  /\ Durations \subseteq Nat /\ Bounds \subseteq Nat
  /\ Nobody \notin Requests \cup Processes
  /\ MaxStarts \in Nat /\ MaxFailures \in Nat

VARIABLES
  status,    \* what main is doing in each process
  outcome,   \* what became of each request
  starts, failures,
  phase, file, versions, schema,                \* see Migrations
  at, request, step, series, lock, page         \* see Metrics

Migration == INSTANCE Migrations
Metric == INSTANCE Metrics

ASSUME RequestAssumption == IsFiniteSet(Requests) /\ NoRequest \notin Metric!Request

life == <<status, outcome, starts, failures>>
migration == <<phase, file, versions, schema>>
metrics == <<at, request, step, series, lock, page>>
vars == <<life, migration, metrics>>

Statuses == {"down", "starting", "serving", "draining", "stopping", "overdue"}
Outcomes == {"none", "answered", "lost"}

Init ==
  /\ status = [p \in Processes |-> "down"]
  /\ outcome = [h \in Requests |-> "none"]
  /\ starts = 0 /\ failures = 0
  /\ Migration!Init
  /\ Metric!Init

Become(p, s) == status' = [status EXCEPT ![p] = s]
InFlight(p) == {h \in Requests : at[h] = p /\ outcome[h] = "none"}
Streams == {h \in Requests : request[h] # NoRequest /\ request[h].kind = "stream"}

------------------------------------------------------------------------------
Start(p) ==
  /\ status[p] = "down"
  /\ starts < MaxStarts /\ starts' = starts + 1
  /\ Become(p, "starting")
  /\ Migration!Start(p)
  /\ UNCHANGED <<outcome, failures, metrics>>

Migrate(p) == Migration!Step(p) /\ UNCHANGED <<life, metrics>>

\* log.Fatalf, because another process was first.
LosesMigration(p) ==
  /\ Migration!Conflict(p)
  /\ Become(p, "down")
  /\ UNCHANGED <<outcome, starts, failures, metrics>>

\* The metrics are registered and both servers listen.
Serve(p) ==
  /\ status[p] = "starting" /\ phase[p] = "ready"
  /\ Become(p, "serving")
  /\ UNCHANGED <<outcome, starts, failures, migration, metrics>>

\* Shutdown closes the HTTP listener first; gRPC goes on until GracefulStop.
Accept(h, p, q) ==
  /\ status[p] = "serving" \/ (status[p] = "draining" /\ q.kind = "stream")
  /\ Metric!Accept(h, p, q)
  /\ UNCHANGED <<life, migration>>

Handle(h) == Metric!Work(h) /\ UNCHANGED <<life, migration>>

\* The middleware has made its observations; a stream ends with its client, its
\* timeout, or the broker.
Answer(h) ==
  /\ Metric!Running(h) /\ outcome[h] = "none" /\ Metric!Recorded(h)
  /\ outcome' = [outcome EXCEPT ![h] = "answered"]
  /\ UNCHANGED <<status, starts, failures, migration, metrics>>

Scrape(p) ==
  /\ status[p] = "serving"
  /\ Metric!Scrape(p)
  /\ UNCHANGED <<life, migration>>

------------------------------------------------------------------------------
\* SIGTERM or an interrupt.
Signal(p) ==
  /\ status[p] = "serving"
  /\ Become(p, "draining")
  /\ UNCHANGED <<outcome, starts, failures, migration, metrics>>

\* Mutant: Shutdown is not waited for.
DrainedAtOnce(p) == TRUE

\* server.Shutdown returns when no HTTP request is in flight; GracefulStop is next, ...
Drained(p) == InFlight(p) \subseteq Streams
Shutdown(p) ==
  /\ status[p] = "draining"
  /\ Drained(p)
  /\ Become(p, "stopping")
  /\ UNCHANGED <<outcome, starts, failures, migration, metrics>>

\* ... or the limit of ten seconds passes, which ends the one and cuts the other short.
LimitPasses(p) ==
  /\ status[p] \in {"draining", "stopping"}
  /\ Become(p, "overdue")
  /\ UNCHANGED <<outcome, starts, failures, migration, metrics>>

\* The process ends, and with it whatever it was still working on.
Exit(p) ==
  /\ Become(p, "down")
  /\ outcome' = [h \in Requests |-> IF h \in InFlight(p) THEN "lost" ELSE outcome[h]]
  /\ Metric!Forget(p)

\* main returns when GracefulStop is done, or has been cut short by Stop.
Stopped(p) ==
  /\ \/ status[p] = "stopping" /\ InFlight(p) \cap Streams = {}
     \/ status[p] = "overdue"
  /\ Exit(p)
  /\ phase' = [phase EXCEPT ![p] = "down"]
  /\ UNCHANGED <<starts, failures, file, versions, schema>>

\* A step of the start-up fails, a server fails (log.Fatalf), or the process is killed.
Fails(p) ==
  /\ failures < MaxFailures /\ failures' = failures + 1
  /\ Exit(p)
  /\ Migration!Fail(p)
  /\ UNCHANGED <<starts>>

------------------------------------------------------------------------------
Next ==
  \/ \E p \in Processes :
       \/ Start(p) \/ Migrate(p) \/ LosesMigration(p) \/ Serve(p) \/ Scrape(p)
       \/ Signal(p) \/ Shutdown(p) \/ LimitPasses(p) \/ Stopped(p) \/ Fails(p)
  \/ \E h \in Requests :
       \/ Handle(h) \/ Answer(h)
       \/ \E p \in Processes, q \in Metric!Request : Accept(h, p, q)

Spec == Init /\ [][Next]_vars

------------------------------------------------------------------------------
\* Every variable has its type.
TypeOK ==
  /\ status \in [Processes -> Statuses]
  /\ outcome \in [Requests -> Outcomes]
  /\ starts \in 0..MaxStarts /\ failures \in 0..MaxFailures
  /\ Migration!TypeOK
  /\ Metric!TypeOK

MigratedInOrder == Migration!MigratedInOrder
PagesAddUp == Metric!PagesAddUp

\* A request that was accepted, over either server and also after the signal, is only
\* lost to a failure or to the limit of the shutdown.
AcceptedIsAnswered ==
  [][\A h \in Requests :
       outcome[h] = "none" /\ outcome'[h] = "lost" =>
         failures' > failures \/ status[at[h]] = "overdue"]_vars
==============================================================================
