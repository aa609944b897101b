-------------------------------- MODULE Metrics --------------------------------
(***************************************************************************)
(* The metrics of the order service: the hand-written counters and         *)
(* histograms of internal/platform/metrics, fed by the HTTP middleware and *)
(* by the payment client, and read by GET /metrics.                        *)
(*                                                                         *)
(* Each vector has a lock of its own.  A handler passes through up to four *)
(* vectors one after the other, and the page copies them one after the     *)
(* other too, so a page may show a request in one vector and not in the    *)
(* next; within a vector it shows whole observations.                      *)
(*                                                                         *)
(* The labels of a request (method, route, status) are its kind; the time  *)
(* it took is one whole number for all of its observations, so that sums   *)
(* of times are exact, which those of the code's float64 are nearly.       *)
(***************************************************************************)
EXTENDS Naturals, FiniteSets, SequencesExt

CONSTANTS Processes,
          Requests,
          Durations, Bounds,  \* times requests take, upper bounds of the buckets
          Nobody, NoRequest

\* The vectors, in the order main.go registers them, and the page writes them.
Registered == <<"http requests", "http durations", "client requests", "client durations">>
Vectors == ToSet(Registered)
Histograms == {"http durations", "client durations"}

\* POST /orders, which calls the payment service; the other API routes; the routes
\* the middleware ignores; and the gRPC streams, which have no metrics.
Kinds == {"create", "read", "probe", "stream"}
Request == [kind : {"create", "read"}, took : Durations] \cup [kind : {"probe", "stream"}]

\* What a request observes, in order; the middleware comes last.
Plan(k) ==
  CASE k = "create" -> <<"client requests", "client durations", "http requests", "http durations">>
    [] k = "read" -> <<"http requests", "http durations">>
    [] k \in {"probe", "stream"} -> << >>

VARIABLES
  at,       \* the process each request was accepted by, while that runs
  request,  \* what it is
  step,     \* how many of its observations are made
  series,   \* the samples of each process, vector and kind of request
  lock,     \* the writer that is inside each vector of each process, or Nobody
  page      \* a page being written: by whom, how far it is, the last vector in it

metrics == <<at, request, step, series, lock, page>>

\* A counter has neither sum nor buckets: they stay 0.
Sample == [count : Nat, sum : Nat, within : [Bounds -> Nat]]
Zero == [count |-> 0, sum |-> 0, within |-> [b \in Bounds |-> 0]]
NewSeries == [v \in Vectors |-> [k \in Kinds |-> Zero]]
Unlocked == [v \in Vectors |-> Nobody]
NewPage == [of |-> Nobody, size |-> 0, last |-> [k \in Kinds |-> Zero]]

Init ==
  /\ at = [h \in Requests |-> Nobody]
  /\ request = [h \in Requests |-> NoRequest]
  /\ step = [h \in Requests |-> 0]
  /\ series = [p \in Processes |-> NewSeries]
  /\ lock = [p \in Processes |-> Unlocked]
  /\ page = NewPage

Accept(h, p, q) ==
  /\ request[h] = NoRequest
  /\ at' = [at EXCEPT ![h] = p]
  /\ request' = [request EXCEPT ![h] = q]
  /\ UNCHANGED <<step, series, lock, page>>

\* Nothing survives the process.
Forget(p) ==
  /\ at' = [h \in Requests |-> IF at[h] = p THEN Nobody ELSE at[h]]
  /\ series' = [series EXCEPT ![p] = NewSeries]
  /\ lock' = [lock EXCEPT ![p] = Unlocked]
  /\ page' = IF page.of = p THEN NewPage ELSE page
  /\ UNCHANGED <<request, step>>

------------------------------------------------------------------------------
Running(h) == at[h] # Nobody
PlanOf(h) == Plan(request[h].kind)
Recorded(h) == step[h] = Len(PlanOf(h))
Vector(h) == PlanOf(h)[step[h] + 1]

Observing(h, v) == Running(h) /\ ~Recorded(h) /\ Vector(h) = v

\* Mutant: the page does not take the lock.
ReadableAlways(p, v) == TRUE
Free(p, v) == lock[p][v] = Nobody
Readable(p, v) == Free(p, v)
StepOn(h) == step' = [step EXCEPT ![h] = @ + 1]
WithOne(s, h, v) ==
  [count |-> s.count + 1,
   sum |-> IF v \in Histograms THEN s.sum + request[h].took ELSE s.sum,
   within |-> s.within]
Count(h, v) == series' = [series EXCEPT ![at[h]][v][request[h].kind] = WithOne(@, h, v)]

\* CounterVec.Add: one critical section, and nothing is seen of its inside.
Add(h, v) ==
  /\ Observing(h, v) /\ v \notin Histograms
  /\ Free(at[h], v)
  /\ Count(h, v)
  /\ StepOn(h)
  /\ UNCHANGED <<at, request, lock, page>>

\* HistogramVec.Observe takes the lock, counts the observation and adds its time, ...
Observe(h, v) ==
  /\ Observing(h, v) /\ v \in Histograms
  /\ Free(at[h], v)
  /\ lock' = [lock EXCEPT ![at[h]][v] = h]
  /\ Count(h, v)
  /\ UNCHANGED <<at, request, step, page>>

\* ... adds it to every bucket it fits in, and lets go of the lock.
FillBuckets(h, v) ==
  /\ Observing(h, v) /\ lock[at[h]][v] = h
  /\ series' = [series EXCEPT ![at[h]][v][request[h].kind].within =
                  [b \in Bounds |-> IF request[h].took <= b THEN @[b] + 1 ELSE @[b]]]
  /\ lock' = [lock EXCEPT ![at[h]][v] = Nobody]
  /\ StepOn(h)
  /\ UNCHANGED <<at, request, page>>

\* GET /metrics copies one vector after the other, each under its read lock.  Pages do
\* not touch what others read, so it is enough to look at one of them at a time.
Scrape(p) ==
  /\ \/ page.of = p /\ page.size = Len(Registered) /\ page' = NewPage
     \/ /\ page.of \in {p, Nobody} /\ page.size < Len(Registered)
        /\ \E v \in Vectors :
             /\ v = Registered[page.size + 1]
             /\ Readable(p, v)
             /\ page' = [of |-> p, size |-> page.size + 1, last |-> series[p][v]]
  /\ UNCHANGED <<at, request, step, series, lock>>

Work(h) == \E v \in Vectors : Add(h, v) \/ Observe(h, v) \/ FillBuckets(h, v)

Next ==
  \/ \E h \in Requests : Work(h) \/ \E p \in Processes, q \in Request : Accept(h, p, q)
  \/ \E p \in Processes : Scrape(p) \/ Forget(p)

Spec == Init /\ [][Next]_metrics

------------------------------------------------------------------------------
\* Every variable has its type.
TypeOK ==
  /\ at \in [Requests -> Processes \cup {Nobody}]
  /\ request \in [Requests -> Request \cup {NoRequest}]
  /\ step \in [Requests -> 0..Len(Registered)]
  /\ series \in [Processes -> [Vectors -> [Kinds -> Sample]]]
  /\ lock \in [Processes -> [Vectors -> Requests \cup {Nobody}]]
  /\ page \in [of : Processes \cup {Nobody}, size : 0..Len(Registered),
               last : [Kinds -> Sample]]

\* The observations a process has made of a kind of request in a vector, and the
\* sample that adds up a set of them.
Observed(p, v, k) ==
  {h \in Requests :
     at[h] = p /\ request[h].kind = k /\ \E i \in 1..step[h] : Plan(k)[i] = v}
Took(H) == MapThenSumSet(LAMBDA h : request[h].took, H)
Sum(H, v) ==
  [count |-> Cardinality(H),
   sum |-> IF v \in Histograms THEN Took(H) ELSE 0,
   within |-> [b \in Bounds |-> IF v \in Histograms
                                THEN Cardinality({h \in H : request[h].took <= b}) ELSE 0]]

\* What a page shows of a vector adds up: its buckets, sum and count are those of a set
\* of whole requests that were made, although handlers observe while the page is
\* written; and nothing observed is lost by concurrent writers.
PagesAddUp ==
  /\ \A p \in Processes, v \in Vectors, k \in Kinds :
       Free(p, v) => series[p][v][k] = Sum(Observed(p, v, k), v)
  /\ page.size > 0 =>
       LET v == Registered[page.size]
       IN  \A k \in Kinds : \E H \in SUBSET Observed(page.of, v, k) : page.last[k] = Sum(H, v)
================================================================================
