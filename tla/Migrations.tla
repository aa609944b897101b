------------------------------ MODULE Migrations ------------------------------
(***************************************************************************)
(* migrate.Run: every process of a service applies the SQL files embedded  *)
(* in it, in the order of their names, before it serves.  Each file runs   *)
(* in a transaction of its own together with its row of schema_migrations. *)
(* There is no lock around the whole: two processes that start at the same *)
(* time on one database check, apply and record side by side.              *)
(*                                                                         *)
(* The changes of an open transaction are seen by nobody else, and another *)
(* one that makes the same changes waits for its end (PostgreSQL).  Every  *)
(* file is written to be applied to a schema that has it (IF NOT EXISTS,   *)
(* OR REPLACE), so what stops the second process is the primary key.       *)
(***************************************************************************)
EXTENDS Naturals, FiniteSets

CONSTANTS Processes,
          Files        \* the number of files; a file is its place in their order

VARIABLES
  phase,     \* where each process is in migrate.Run
  file,      \* the file it is at
  versions,  \* the committed rows of schema_migrations
  schema     \* how often the changes of each file were committed

migration == <<phase, file, versions, schema>>

Phases == {"down", "create", "check", "apply", "record", "commit", "ready"}

Init ==
  /\ phase = [p \in Processes |-> "down"]
  /\ file = [p \in Processes |-> 1]
  /\ versions = {}
  /\ schema = [f \in 1..Files |-> 0]

Goto(p, label) == phase' = [phase EXCEPT ![p] = label]

Start(p) ==
  /\ phase[p] = "down"
  /\ Goto(p, "create")
  /\ UNCHANGED <<file, versions, schema>>

\* CREATE TABLE IF NOT EXISTS schema_migrations; the files are listed and sorted.
CreateTable(p) ==
  /\ phase[p] = "create"
  /\ Goto(p, "check")
  /\ file' = [file EXCEPT ![p] = 1]
  /\ UNCHANGED <<versions, schema>>

\* SELECT EXISTS(...) for the next file, if there is one.
Check(p) ==
  /\ phase[p] = "check"
  /\ \/ file[p] > Files /\ Goto(p, "ready") /\ UNCHANGED file
     \/ file[p] \in versions /\ file' = [file EXCEPT ![p] = @ + 1] /\ UNCHANGED phase
     \/ file[p] \in 1..Files \ versions /\ Goto(p, "apply") /\ UNCHANGED file
  /\ UNCHANGED <<versions, schema>>

\* Mutant: the file is executed on the pool and not in the transaction.
ApplyOnPool(p) ==
  /\ phase[p] = "apply"
  /\ schema' = [schema EXCEPT ![file[p]] = @ + 1]
  /\ Goto(p, "record")
  /\ UNCHANGED <<file, versions>>

\* Begin, and the statements of the file.
Uncommitted(p) == phase[p] \in {"record", "commit"}
Apply(p) ==
  /\ phase[p] = "apply"
  /\ \A q \in Processes : Uncommitted(q) => file[q] # file[p]
  /\ Goto(p, "record")
  /\ UNCHANGED <<file, versions, schema>>

\* INSERT INTO schema_migrations, whose primary key is the version.
Record(p) ==
  /\ phase[p] = "record"
  /\ file[p] \notin versions
  /\ Goto(p, "commit")
  /\ UNCHANGED <<file, versions, schema>>

Committed(p) ==
  /\ versions' = versions \cup {file[p]}
  /\ schema' = [schema EXCEPT ![file[p]] = @ + 1]

Commit(p) ==
  /\ phase[p] = "commit"
  /\ Committed(p)
  /\ Goto(p, "check")
  /\ file' = [file EXCEPT ![p] = @ + 1]

\* The other process was first: rollback, and main ends with log.Fatalf.
Conflict(p) ==
  /\ phase[p] = "record"
  /\ file[p] \in versions
  /\ Goto(p, "down")
  /\ UNCHANGED <<file, versions, schema>>

\* Mutant: a file is recorded although its transaction was rolled back.
FailRecords(p) ==
  /\ phase[p] # "down"
  /\ Goto(p, "down")
  /\ versions' = versions \cup {file[p]}
  /\ UNCHANGED <<file, schema>>

\* Any statement fails, or the process dies; a commit may have gone through.
Fail(p) ==
  /\ phase[p] # "down"
  /\ Goto(p, "down")
  /\ \/ UNCHANGED <<versions, schema>>
     \/ phase[p] = "commit" /\ Committed(p)
  /\ UNCHANGED file

Step(p) == CreateTable(p) \/ Check(p) \/ Apply(p) \/ Record(p) \/ Commit(p)
Next == \E p \in Processes : Start(p) \/ Step(p) \/ Conflict(p) \/ Fail(p)

Spec == Init /\ [][Next]_migration

------------------------------------------------------------------------------
\* Every variable has its type.
TypeOK ==
  /\ phase \in [Processes -> Phases]
  /\ file \in [Processes -> 1..Files + 1]
  /\ versions \subseteq 1..Files
  /\ schema \in [1..Files -> Nat]

\* However many processes start and die at the same time, every file is applied once,
\* after those before it, exactly when it is recorded, and a process that gets through
\* start-up finds all of them applied.
MigratedInOrder ==
  /\ \A f \in 1..Files : schema[f] = IF f \in versions THEN 1 ELSE 0
  /\ \A f \in versions : 1..f \subseteq versions
  /\ \A p \in Processes : phase[p] = "ready" => versions = 1..Files
==============================================================================
