------------------------------ MODULE PgSchema ------------------------------
(***************************************************************************)
(* What the proxy promises about schemas.  A new schema is empty, it and   *)
(* its tables last until they are dropped, and ROLLBACK undoes what a      *)
(* block did.  DROP SCHEMA CASCADE outside a block is not atomic, as it is *)
(* in PostgreSQL: it dooms the schema and takes its tables one by one, and *)
(* when it fails or the server ends, the schema keeps the others.          *)
(***************************************************************************)
EXTENDS Naturals

CONSTANTS Schemas, Tables

VARIABLES
  schemas,   \* the schemas there are
  tables,    \* the tables in each of them
  saved,     \* schemas and tables at the start of the open block
  block,     \* whether a transaction block is open
  doomed     \* the schema a DROP CASCADE is taking apart, if any

vars == <<schemas, tables, saved, block, doomed>>

Empty == [s \in Schemas |-> {}]

Init ==
  /\ schemas = {}
  /\ tables = Empty
  /\ saved = [schemas |-> {}, tables |-> Empty]
  /\ block = FALSE
  /\ doomed = {}

Now == [schemas |-> schemas, tables |-> tables]

\* Outside a block a statement is committed when it ends.
Statement == UNCHANGED <<block, doomed>> /\ saved' = IF block THEN saved ELSE Now'

Create(s) ==
  /\ doomed = {}
  /\ s \notin schemas
  /\ schemas' = schemas \cup {s}
  /\ UNCHANGED tables
  /\ Statement

CreateTable(s, t) ==
  /\ doomed = {}
  /\ s \in schemas
  /\ tables' = [tables EXCEPT ![s] = @ \cup {t}]
  /\ UNCHANGED schemas
  /\ Statement

Doom(s) ==
  /\ doomed = {} /\ ~block
  /\ s \in schemas
  /\ doomed' = {s}
  /\ UNCHANGED <<schemas, tables, saved, block>>

LoseTable(s, t) ==
  /\ s \in doomed
  /\ tables' = [tables EXCEPT ![s] = @ \ {t}]
  /\ UNCHANGED schemas
  /\ Statement

\* The schema has lost its tables, or keeps those it still has.
Spare == doomed' = {} /\ UNCHANGED <<schemas, tables, saved, block>>

Drop(s) ==
  /\ doomed = {} /\ ~block
  /\ s \in schemas /\ tables[s] = {}
  /\ schemas' = schemas \ {s}
  /\ UNCHANGED tables
  /\ Statement

Begin ==
  /\ doomed = {} /\ ~block
  /\ block' = TRUE
  /\ UNCHANGED <<schemas, tables, saved, doomed>>

Commit ==
  /\ doomed = {}
  /\ block' = FALSE
  /\ saved' = Now
  /\ UNCHANGED <<schemas, tables, doomed>>

\* ROLLBACK, and a restart of the server.
Undo ==
  /\ block' = FALSE
  /\ schemas' = saved.schemas
  /\ tables' = saved.tables
  /\ doomed' = {}
  /\ UNCHANGED saved

Next ==
  \/ \E s \in Schemas :
       \/ Create(s) \/ Doom(s) \/ Drop(s)
       \/ \E t \in Tables : CreateTable(s, t) \/ LoseTable(s, t)
  \/ Spare
  \/ Begin
  \/ Commit
  \/ Undo

Spec == Init /\ [][Next]_vars
=============================================================================
