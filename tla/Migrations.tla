----------------------------- MODULE Migrations -----------------------------
(***************************************************************************)
(* The migrations of the database (packages/db/src/migrate.ts).  The api   *)
(* and the worker run them at the same time when they start, each in a     *)
(* session that holds an advisory lock; PostgreSQL takes the lock back     *)
(* when the session ends.  Files are applied in the order of their names,  *)
(* so that what is done is always a prefix of them.                        *)
(***************************************************************************)
EXTENDS Naturals, Sequences

CONSTANTS
  Starters,  \* processes that migrate when they start
  Files      \* number of files in migrations/

VARIABLES
  schema,    \* _aetherdust_migrations: the files applied, in order
  session    \* session[s]: whether s holds the lock, and the files it knows as done

Out == [holds |-> FALSE, done |-> 0]

MigrationsType ==
  /\ schema = [i \in 1..Len(schema) |-> i] /\ Len(schema) <= Files
  /\ session \in [Starters -> [holds : BOOLEAN, done : 0..Files]]
  /\ \A s, t \in Starters : session[s].holds /\ session[t].holds => s = t

MigrationsInit == schema = <<>> /\ session = [s \in Starters |-> Out]

Release(s) == session' = [session EXCEPT ![s] = Out]

\* The list of what is done is read under the lock.
Lock(s) ==
  /\ \A t \in Starters : ~session[t].holds
  /\ session' = [session EXCEPT ![s] = [holds |-> TRUE, done |-> Len(schema)]]
  /\ UNCHANGED schema

\* One file and its row in one transaction.
ApplyFile(s) ==
  /\ session[s].holds /\ session[s].done < Files
  /\ schema' = Append(schema, session[s].done + 1)
  /\ session' = [session EXCEPT ![s].done = @ + 1]

Unlock(s) ==
  /\ session[s].holds /\ session[s].done = Files
  /\ Release(s) /\ UNCHANGED schema

\* A file is rolled back, and those before it stay.
FileFails(s) ==
  /\ session[s].holds /\ session[s].done < Files
  /\ Release(s) /\ UNCHANGED schema
=============================================================================
