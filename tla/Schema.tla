------------------------------- MODULE Schema -------------------------------
(***************************************************************************)
(* Schemas as attached database files.  A schema is a row of               *)
(* __pg_namespace__ in the main database, a file beside it, and an         *)
(* ATTACH of that file to the SQLite connection, which the SchemaManager   *)
(* notes.  Rows and tables belong to the transaction; files, attachments   *)
(* and notes do not.  CREATE SCHEMA and DROP SCHEMA are several SQLite     *)
(* statements, each committed at once outside a block; the connection's    *)
(* mutex is held from the first to the last, so that only a crash comes    *)
(* between them.                                                           *)
(***************************************************************************)
EXTENDS Naturals, FiniteSets

CONSTANTS
  Schemas,   \* names of schemas, lower case
  Tables,    \* names of tables
  Limit,     \* how many databases SQLite attaches (SQLITE_LIMIT_ATTACHED)
  Env        \* what happens beyond the ordinary

EnvNames ==
  {"create_in_block", "drop_in_block", \* the statements inside a transaction block
   "stray_table",                      \* CREATE TABLE in a schema there is no more
   "limit",                            \* ATTACH refused
   "step_fails",                       \* a step of DROP SCHEMA fails
   "restart"}

ASSUME SchemaAssumption == Env \subseteq EnvNames /\ Limit \in Nat

VARIABLES
  catalog,   \* rows of __pg_namespace__
  attached,  \* attached_schemas of the SchemaManager
  db,        \* databases attached to the SQLite connection
  file,      \* schemas whose database file is on disk
  tables,    \* the tables in each schema's database
  status,    \* session status
  saved,     \* catalog and tables as last committed
  pc, target,\* the step the statement under way is at, and its schema
  answer,    \* the answer to the last statement
  made       \* history: schemas whose CREATE this process confirmed

vars == <<catalog, attached, db, file, tables, status, saved, pc, target, answer, made>>

Contents == [Schemas -> SUBSET Tables]
Empty    == [s \in Schemas |-> {}]

Init ==
  /\ catalog = {}
  /\ attached = {}
  /\ db = {}
  /\ file = {}
  /\ tables = Empty
  /\ status = "Idle"
  /\ saved = [catalog |-> {}, tables |-> Empty]
  /\ pc = "ready"
  /\ target \in Schemas
  /\ answer = "ok"
  /\ made = {}

Now == [catalog |-> catalog, tables |-> tables]

\* Faulty variant: only the first step of a statement is committed.
CommittedAtTheEnd == saved' = IF status = "Idle" /\ pc = "ready" THEN Now' ELSE saved

\* Outside a block every step is committed at once.
Committed == saved' = IF status = "Idle" THEN Now' ELSE saved

\* The end of a statement; an error inside a block fails the block.
Answer(a) ==
  /\ answer' = a
  /\ status' = IF a = "error" /\ status = "InTransaction" THEN "InError" ELSE status
  /\ pc' = "ready"
  /\ UNCHANGED target
  /\ Committed

\* On to the next step of the statement on s.
Proceed(step, s) ==
  /\ pc' = step
  /\ target' = s
  /\ UNCHANGED <<status, answer>>
  /\ Committed

MayStart(flag) ==
  /\ pc = "ready"
  /\ status = "Idle" \/ (status = "InTransaction" /\ flag \in Env)

CanAttach(s) == s \in attached \/ Cardinality(db) < Limit

\* Faulty variant: the note is made before ATTACH is tried.
AttachNoted(s) ==
  IF s \in attached THEN UNCHANGED <<attached, db, file>>
  ELSE /\ file' = file \cup {s}
       /\ attached' = attached \cup {s}
       /\ IF CanAttach(s) THEN db' = db \cup {s} ELSE UNCHANGED db

\* attach_schema: creates the file, if there is none, before ATTACH can fail.
\* To an attached schema it does nothing.
Attach(s) ==
  IF s \in attached THEN UNCHANGED <<attached, db, file>>
  ELSE /\ file' = file \cup {s}
       /\ IF CanAttach(s) THEN attached' = attached \cup {s} /\ db' = db \cup {s}
          ELSE UNCHANGED <<attached, db>>

(* CREATE SCHEMA: the row, then the attachment.  lenient: IF NOT EXISTS. *)

CreateSchema(s, lenient) ==
  /\ MayStart("create_in_block")
  /\ UNCHANGED <<tables, attached, db, file>>
  /\ \/ /\ s \in catalog
        /\ UNCHANGED <<catalog, made>>
        /\ Answer(IF lenient THEN "ok" ELSE "error")
     \/ /\ s \notin catalog
        /\ "limit" \in Env \/ CanAttach(s)
        /\ catalog' = catalog \cup {s}
        /\ made' = made \ {s}
        /\ Proceed("attach", s)

\* Faulty variant: the refusal is only logged, as that of DETACH is.
AttachNewRegardless ==
  /\ pc = "attach"
  /\ Attach(target)
  /\ UNCHANGED <<catalog, tables>>
  /\ Answer("ok")
  /\ made' = made \cup {target}

AttachNew ==
  /\ pc = "attach"
  /\ Attach(target)
  /\ UNCHANGED <<catalog, tables>>
  /\ IF CanAttach(target) THEN Answer("ok") /\ made' = made \cup {target}
     ELSE Answer("error") /\ UNCHANGED made

(* DROP SCHEMA: with CASCADE the objects one by one; the row; DETACH; the   *)
(* file.  lenient: IF EXISTS.                                              *)

\* Faulty variant: whether the schema is empty is not asked.
RefusedIfDetached(s, cascade) == ~CanAttach(s)

\* What keeps an existing schema from being dropped.
Refused(s, cascade) == ~CanAttach(s) \/ (~cascade /\ tables[s] # {})

DropSchema(s, cascade, lenient) ==
  /\ MayStart("drop_in_block")
  /\ UNCHANGED <<catalog, tables, made>>
  /\ \/ /\ s \notin catalog
        /\ UNCHANGED <<attached, db, file>>
        /\ Answer(IF lenient THEN "ok" ELSE "error")
     \/ /\ s \in catalog
        /\ Attach(s)
        /\ IF Refused(s, cascade) THEN Answer("error")
           ELSE Proceed(IF cascade THEN "objects" ELSE "row", s)

\* SQLite refuses to write a database whose file was removed under it, unless
\* the block has its journal open already.
Removed(s)  == s \in db /\ s \notin file
CanWrite(s) == Removed(s) => status = "InTransaction"

DropObject(t) ==
  /\ pc = "objects"
  /\ t \in tables[target] /\ CanWrite(target)
  /\ tables' = [tables EXCEPT ![target] = @ \ {t}]
  /\ UNCHANGED <<catalog, attached, db, file, made>>
  /\ Proceed("objects", target)

ObjectsDropped ==
  /\ pc = "objects"
  /\ tables[target] = {}
  /\ UNCHANGED <<catalog, attached, db, file, tables, made>>
  /\ Proceed("row", target)

DeleteRow ==
  /\ pc = "row"
  /\ catalog' = catalog \ {target}
  /\ UNCHANGED <<attached, db, file, tables, made>>
  /\ Proceed("detach", target)

\* A DROP TABLE (a name that needs quotes, a full disk) or the DELETE fails;
\* what went before stays done.
DropFails ==
  /\ \/ pc = "objects" /\ tables[target] # {} /\ ("step_fails" \in Env \/ ~CanWrite(target))
     \/ pc = "row" /\ "step_fails" \in Env
  /\ UNCHANGED <<catalog, attached, db, file, tables, made>>
  /\ Answer("error")

\* DETACH fails in a transaction, which has looked into the schema; the error is
\* logged only.
Detach ==
  /\ pc = "detach"
  /\ IF status = "Idle" THEN attached' = attached \ {target} /\ db' = db \ {target}
     ELSE UNCHANGED <<attached, db>>
  /\ UNCHANGED <<catalog, file, tables, made>>
  /\ Proceed("file", target)

\* remove_file: its error is reported although the schema is gone.
DeleteFile ==
  /\ pc = "file"
  /\ UNCHANGED <<catalog, attached, db, tables, made>>
  /\ \/ file' = file \ {target} /\ Answer("ok")
     \/ "step_fails" \in Env /\ UNCHANGED file /\ Answer("error")

\* CREATE TABLE s.t asks SQLite only, not the catalog.
CreateTable(s, t) ==
  /\ pc = "ready" /\ status # "InError"
  /\ t \notin tables[s]
  /\ s \in catalog \/ "stray_table" \in Env
  /\ UNCHANGED <<catalog, attached, db, file, made>>
  /\ IF s \in db /\ CanWrite(s)
       THEN tables' = [tables EXCEPT ![s] = @ \cup {t}] /\ Answer("ok")
       ELSE UNCHANGED tables /\ Answer("error")

Begin ==
  /\ pc = "ready" /\ status = "Idle"
  /\ status' = "InTransaction"
  /\ answer' = "ok"
  /\ UNCHANGED <<catalog, attached, db, file, tables, saved, pc, target, made>>

Commit ==
  /\ pc = "ready" /\ status # "Idle"
  /\ status' = "Idle"
  /\ saved' = Now
  /\ answer' = "ok"
  /\ UNCHANGED <<catalog, attached, db, file, tables, pc, target, made>>

Rollback ==
  /\ pc = "ready" /\ status # "Idle"
  /\ status' = "Idle"
  /\ catalog' = saved.catalog
  /\ tables' = saved.tables
  /\ answer' = "ok"
  /\ UNCHANGED <<attached, db, file, saved, pc, target, made>>

\* The process ends, also between two steps, and is started again; no schema is
\* attached on startup.
Restart ==
  /\ "restart" \in Env
  /\ status' = "Idle"
  /\ catalog' = saved.catalog
  /\ tables' = [s \in Schemas |-> IF s \in file THEN saved.tables[s] ELSE {}]
  /\ saved' = Now'
  /\ attached' = {}
  /\ db' = {}
  /\ pc' = "ready"
  /\ answer' = "ok"
  /\ made' = {}
  /\ UNCHANGED <<file, target>>

Next ==
  \/ \E s \in Schemas :
       \/ \E lenient \in BOOLEAN :
            \/ CreateSchema(s, lenient)
            \/ \E cascade \in BOOLEAN : DropSchema(s, cascade, lenient)
       \/ \E t \in Tables : CreateTable(s, t)
  \/ \E t \in Tables : DropObject(t)
  \/ AttachNew
  \/ ObjectsDropped
  \/ DropFails
  \/ DeleteRow
  \/ Detach
  \/ DeleteFile
  \/ Begin
  \/ Commit
  \/ Rollback
  \/ Restart

Spec == Init /\ [][Next]_vars

-----------------------------------------------------------------------------
(* Properties *)

\* Types of the state; outside a block nothing is uncommitted, also between two
\* steps of a statement.
TypeOK ==
  /\ catalog \subseteq Schemas /\ attached \subseteq Schemas
  /\ db \subseteq Schemas /\ file \subseteq Schemas
  /\ tables \in Contents
  /\ status \in {"Idle", "InTransaction", "InError"}
  /\ saved \in [catalog : SUBSET Schemas, tables : Contents]
  /\ pc \in {"ready", "attach", "objects", "row", "detach", "file"}
  /\ target \in Schemas
  /\ answer \in {"ok", "error"}
  /\ made \subseteq Schemas
  /\ status = "Idle" => saved = Now

\* The SchemaManager knows what SQLite has attached, so that it neither attaches
\* a database twice nor takes a detached one for attached.
ManagerKnowsAttached == attached = db

\* A schema whose creation this process confirmed, and which is still there, can
\* be used: its database is attached and its file is there.  (After a restart
\* only DROP SCHEMA attaches a schema that was there before: attach_all_schemas,
\* "called on startup", is called by nobody.)
SchemasUsable == catalog \cap made \subseteq db \cap file

InCatalog(c, content) == [s \in Schemas |-> IF s \in c THEN content[s] ELSE {}]

Promise == INSTANCE PgSchema WITH
  schemas <- catalog,
  tables  <- InCatalog(catalog, tables),
  saved   <- [schemas |-> saved.catalog, tables |-> InCatalog(saved.catalog, saved.tables)],
  block   <- status # "Idle",
  doomed  <- IF pc = "objects" THEN {target} ELSE {}

\* A schema is created empty, is dropped only when it is empty, loses its tables
\* only to a DROP SCHEMA CASCADE of its own, keeps them over restarts between
\* any two steps and failures of each, and ROLLBACK undoes its creation.
ImplementsPgSchema == Promise!Spec
=============================================================================
