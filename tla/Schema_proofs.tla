---------------------------- MODULE Schema_proofs ----------------------------
(***************************************************************************)
(* What holds of schemas for any names, tables and limit, with a crash     *)
(* between any two steps: always, while DROP SCHEMA stays outside of       *)
(* transaction blocks, and while tables are made in existing schemas.      *)
(***************************************************************************)
EXTENDS Schema, TLAPS

Steps == {"ready", "attach", "objects", "row", "detach", "file"}

LEMMA InitTypeOK == Init => TypeOK
BY DEF Init, TypeOK, Now, Contents, Empty

\* What the end of a statement, or one of its steps, leaves of the types.
LEMMA StepType ==
  ASSUME TypeOK, NEW a \in {"ok", "error"}, NEW step \in Steps, NEW s \in Schemas,
         Answer(a) \/ Proceed(step, s),
         catalog' \subseteq Schemas, tables' \in Contents,
         attached' \subseteq Schemas, db' \subseteq Schemas, file' \subseteq Schemas,
         made' \subseteq Schemas
  PROVE  TypeOK'
<1>1. Now' \in [catalog : SUBSET Schemas, tables : Contents]
  BY DEF Now
<1>2. Committed
  BY DEF Answer, Proceed
<1>3. saved' \in [catalog : SUBSET Schemas, tables : Contents]
  BY <1>1, <1>2 DEF Committed, TypeOK
<1>4. /\ answer' \in {"ok", "error"} /\ status' \in {"Idle", "InTransaction", "InError"}
      /\ pc' \in Steps /\ target' \in Schemas
  BY DEF Answer, Proceed, TypeOK, Steps
<1>5. status' = "Idle" => saved' = Now'
  BY <1>2 DEF Answer, Proceed, Committed
<1>6. QED
  BY <1>3, <1>4, <1>5 DEF TypeOK, Steps

LEMMA AttachType ==
  ASSUME NEW s \in Schemas, Attach(s), TypeOK
  PROVE  attached' \subseteq Schemas /\ db' \subseteq Schemas /\ file' \subseteq Schemas
BY DEF Attach, TypeOK

LEMMA ContentsType ==
  ASSUME TypeOK, NEW s \in Schemas, NEW T \in SUBSET Tables
  PROVE  [tables EXCEPT ![s] = T] \in Contents
BY DEF TypeOK, Contents

LEMMA NextTypeOK == TypeOK /\ [Next]_vars => TypeOK'
<1> SUFFICES ASSUME TypeOK, [Next]_vars PROVE TypeOK'
  OBVIOUS
<1>t. /\ catalog \subseteq Schemas /\ tables \in Contents /\ attached \subseteq Schemas
      /\ db \subseteq Schemas /\ file \subseteq Schemas /\ made \subseteq Schemas
      /\ target \in Schemas
  BY DEF TypeOK
<1>1. ASSUME NEW s \in Schemas, NEW lenient \in BOOLEAN, CreateSchema(s, lenient)
      PROVE  TypeOK'
  <2>1. UNCHANGED <<tables, attached, db, file>>
    BY <1>1 DEF CreateSchema
  <2>2. CASE UNCHANGED <<catalog, made>> /\ Answer(IF lenient THEN "ok" ELSE "error")
    BY <1>t, <2>1, <2>2, StepType DEF Steps
  <2>3. CASE catalog' = catalog \cup {s} /\ made' = made \ {s} /\ Proceed("attach", s)
    BY <1>t, <2>1, <2>3, StepType DEF Steps
  <2>4. QED
    BY <1>1, <2>2, <2>3 DEF CreateSchema
<1>2. CASE AttachNew
  <2>1. /\ Attach(target) /\ UNCHANGED <<catalog, tables>>
        /\ \/ Answer("ok") /\ made' = made \cup {target}
           \/ Answer("error") /\ UNCHANGED made
    BY <1>2 DEF AttachNew
  <2>2. QED
    BY <1>t, <2>1, AttachType, StepType DEF Steps
<1>3. ASSUME NEW s \in Schemas, NEW cascade \in BOOLEAN, NEW lenient \in BOOLEAN,
             DropSchema(s, cascade, lenient)
      PROVE  TypeOK'
  <2>1. UNCHANGED <<catalog, tables, made>>
    BY <1>3 DEF DropSchema
  <2>2. attached' \subseteq Schemas /\ db' \subseteq Schemas /\ file' \subseteq Schemas
    BY <1>t, <1>3, AttachType DEF DropSchema
  <2>3. \/ \E a \in {"ok", "error"} : Answer(a)
        \/ \E step \in Steps : Proceed(step, s)
    BY <1>3 DEF DropSchema, Steps
  <2>4. QED
    BY <1>t, <2>1, <2>2, <2>3, StepType DEF Steps
<1>4. ASSUME NEW t \in Tables, DropObject(t) PROVE TypeOK'
  <2>1. /\ tables' = [tables EXCEPT ![target] = tables[target] \ {t}] /\ Proceed("objects", target)
        /\ UNCHANGED <<catalog, attached, db, file, made>>
    BY <1>4 DEF DropObject
  <2>2. tables[target] \ {t} \in SUBSET Tables
    BY <1>t DEF Contents
  <2>3. tables' \in Contents
    BY <1>t, <2>1, <2>2, ContentsType
  <2>4. QED
    BY <1>t, <2>1, <2>3, StepType DEF Steps
<1>5. CASE ObjectsDropped \/ DropFails
  <2>1. /\ UNCHANGED <<catalog, attached, db, file, tables, made>>
        /\ Proceed("row", target) \/ Answer("error")
    BY <1>5 DEF ObjectsDropped, DropFails
  <2>2. QED
    BY <1>t, <2>1, StepType DEF Steps
<1>6. CASE DeleteRow
  BY <1>t, <1>6, StepType DEF DeleteRow, Steps
<1>7. CASE Detach
  <2>1. /\ attached' \subseteq attached /\ db' \subseteq db
        /\ UNCHANGED <<catalog, file, tables, made>> /\ Proceed("file", target)
    BY <1>7 DEF Detach
  <2>2. QED
    BY <1>t, <2>1, StepType DEF Steps
<1>8. CASE DeleteFile
  <2>1. /\ file' \subseteq file /\ UNCHANGED <<catalog, attached, db, tables, made>>
        /\ Answer("ok") \/ Answer("error")
    BY <1>8 DEF DeleteFile
  <2>2. QED
    BY <1>t, <2>1, StepType DEF Steps
<1>9. ASSUME NEW s \in Schemas, NEW t \in Tables, CreateTable(s, t) PROVE TypeOK'
  <2>1. UNCHANGED <<catalog, attached, db, file, made>>
    BY <1>9 DEF CreateTable
  <2>2. CASE tables' = [tables EXCEPT ![s] = tables[s] \cup {t}] /\ Answer("ok")
    <3>1. tables[s] \cup {t} \in SUBSET Tables
      BY <1>t DEF Contents
    <3>2. tables' \in Contents
      BY <2>2, <3>1, ContentsType
    <3>3. QED
      BY <1>t, <2>1, <2>2, <3>2, StepType DEF Steps
  <2>3. CASE UNCHANGED tables /\ Answer("error")
    BY <1>t, <2>1, <2>3, StepType DEF Steps
  <2>4. QED
    BY <1>9, <2>2, <2>3 DEF CreateTable
<1>10. CASE Begin
  BY <1>10 DEF Begin, TypeOK
<1>11. CASE Commit
  BY <1>11 DEF Commit, TypeOK, Now
<1>12. CASE Rollback
  BY <1>12 DEF Rollback, TypeOK, Now
<1>13. CASE Restart
  <2>1. catalog' \subseteq Schemas /\ tables' \in Contents
    BY <1>13 DEF Restart, TypeOK, Contents
  <2>2. saved' = Now' /\ Now' \in [catalog : SUBSET Schemas, tables : Contents]
    BY <1>13, <2>1 DEF Restart, Now
  <2>3. QED
    BY <1>13, <2>1, <2>2 DEF Restart, TypeOK
<1>14. CASE UNCHANGED vars
  BY <1>14 DEF vars, TypeOK, Now
<1>15. QED
  BY <1>1, <1>2, <1>3, <1>4, <1>5, <1>6, <1>7, <1>8, <1>9, <1>10, <1>11, <1>12, <1>13, <1>14
     DEF Next

\* Catalog, files and tables have their types, and outside a block nothing is
\* uncommitted, also between two steps of a statement, whatever happens.
THEOREM TypeCorrect == Spec => []TypeOK
BY InitTypeOK, NextTypeOK, PTL DEF Spec

-----------------------------------------------------------------------------
(* The SchemaManager's notes *)

LEMMA NextManager == ManagerKnowsAttached /\ [Next]_vars => ManagerKnowsAttached'
<1> SUFFICES ASSUME ManagerKnowsAttached, [Next]_vars PROVE ManagerKnowsAttached'
  OBVIOUS
<1>1. ASSUME UNCHANGED <<attached, db>> PROVE ManagerKnowsAttached'
  BY <1>1 DEF ManagerKnowsAttached
<1>2. ASSUME NEW s, Attach(s) PROVE ManagerKnowsAttached'
  BY <1>2 DEF Attach, ManagerKnowsAttached
<1>3. ASSUME NEW s \in Schemas, NEW lenient \in BOOLEAN, CreateSchema(s, lenient)
      PROVE  ManagerKnowsAttached'
  BY <1>3, <1>1 DEF CreateSchema
<1>4. ASSUME NEW s \in Schemas, NEW cascade \in BOOLEAN, NEW lenient \in BOOLEAN,
             DropSchema(s, cascade, lenient)
      PROVE  ManagerKnowsAttached'
  BY <1>4, <1>1, <1>2 DEF DropSchema
<1>5. CASE AttachNew
  BY <1>5, <1>2 DEF AttachNew
<1>6. CASE Detach
  BY <1>6 DEF Detach, ManagerKnowsAttached
<1>7. ASSUME NEW s \in Schemas, NEW t \in Tables, CreateTable(s, t) PROVE ManagerKnowsAttached'
  BY <1>7, <1>1 DEF CreateTable
<1>8. ASSUME NEW t \in Tables, DropObject(t) PROVE ManagerKnowsAttached'
  BY <1>8, <1>1 DEF DropObject
<1>9. CASE ObjectsDropped \/ DropFails \/ DeleteRow \/ DeleteFile
  BY <1>9, <1>1 DEF ObjectsDropped, DropFails, DeleteRow, DeleteFile
<1>10. CASE Begin \/ Commit \/ Rollback
  BY <1>10, <1>1 DEF Begin, Commit, Rollback
<1>11. CASE Restart
  BY <1>11 DEF Restart, ManagerKnowsAttached
<1>12. CASE UNCHANGED vars
  BY <1>12, <1>1 DEF vars
<1>13. QED
  BY <1>3, <1>4, <1>5, <1>6, <1>7, <1>8, <1>9, <1>10, <1>11, <1>12 DEF Next

\* Over errors, blocks, refused attachments and restarts between any two steps,
\* the SchemaManager knows exactly which databases SQLite has attached.
THEOREM ManagerIsRight == Spec => []ManagerKnowsAttached
<1>1. Init => ManagerKnowsAttached
  BY DEF Init, ManagerKnowsAttached
<1>2. QED
  BY <1>1, NextManager, PTL DEF Spec

-----------------------------------------------------------------------------
(* Usable schemas *)

\* DROP SCHEMA stays outside of transaction blocks.
Calm == "drop_in_block" \notin Env

\* A confirmed schema that a ROLLBACK brings back is usable too; a schema being
\* dropped is not in the catalog any more, one being created not yet confirmed.
Usable ==
  /\ TypeOK
  /\ ManagerKnowsAttached
  /\ SchemasUsable
  /\ saved.catalog \cap made \subseteq db \cap file
  /\ pc \in {"objects", "row", "detach", "file"} => status = "Idle"
  /\ pc \in {"detach", "file"} => target \notin catalog
  /\ db \subseteq file
  /\ pc = "file" => target \notin db

\* A step of a statement keeps what a ROLLBACK needs.
LEMMA StepUsable ==
  ASSUME Usable, Committed, catalog' \cap made' \subseteq db' \cap file',
         saved.catalog \cap made' \subseteq db' \cap file'
  PROVE  SchemasUsable' /\ saved'.catalog \cap made' \subseteq db' \cap file'
<1>1. CASE status = "Idle"
  <2>1. saved'.catalog = catalog'
    BY <1>1 DEF Committed, Now
  <2>2. QED
    BY <2>1 DEF SchemasUsable
<1>2. CASE status # "Idle"
  BY <1>2 DEF Committed, SchemasUsable
<1>3. QED
  BY <1>1, <1>2

LEMMA AttachUsable ==
  ASSUME Usable, NEW s \in Schemas, Attach(s)
  PROVE  /\ db \subseteq db' /\ file \subseteq file' /\ db' \subseteq file'
         /\ CanAttach(s) => s \in db'
<1>1. attached = db /\ db \subseteq file
  BY DEF Usable, ManagerKnowsAttached
<1>2. CASE s \in attached
  BY <1>1, <1>2 DEF Attach
<1>3. CASE s \notin attached
  BY <1>1, <1>3 DEF Attach
<1>4. QED
  BY <1>2, <1>3

LEMMA NextUsable == ASSUME Calm PROVE Usable /\ [Next]_vars => Usable'
<1> DEFINE Goal == /\ SchemasUsable'
                   /\ saved'.catalog \cap made' \subseteq db' \cap file'
                   /\ pc' \in {"objects", "row", "detach", "file"} => status' = "Idle"
                   /\ pc' \in {"detach", "file"} => target' \notin catalog'
                   /\ db' \subseteq file'
                   /\ pc' = "file" => target' \notin db'
<1> SUFFICES ASSUME Usable, [Next]_vars PROVE Goal
  BY NextTypeOK, NextManager DEF Usable
<1>u. /\ catalog \cap made \subseteq db \cap file /\ saved.catalog \cap made \subseteq db \cap file
      /\ pc \in {"objects", "row", "detach", "file"} => status = "Idle"
      /\ pc \in {"detach", "file"} => target \notin catalog
      /\ db \subseteq file
      /\ pc = "file" => target \notin db
      /\ status = "Idle" => saved.catalog = catalog
      /\ target \in Schemas
  BY DEF Usable, SchemasUsable, TypeOK, Now
\* The end of a statement that gives up nothing, or a step on to another.
<1>a. ASSUME NEW a, Answer(a) \/ (\E s : Proceed("attach", s)),
             catalog' \cap made' \subseteq db' \cap file',
             saved.catalog \cap made' \subseteq db' \cap file', db' \subseteq file'
      PROVE  Goal
  <2>1. Committed /\ pc' \in {"ready", "attach"}
    BY <1>a DEF Answer, Proceed
  <2>2. SchemasUsable' /\ saved'.catalog \cap made' \subseteq db' \cap file'
    BY <1>a, <2>1, StepUsable
  <2>3. QED
    BY <1>a, <2>1, <2>2
<1>b. ASSUME NEW step \in {"objects", "row", "detach", "file"}, NEW s, Proceed(step, s),
             status = "Idle",
             catalog' \cap made \subseteq db' \cap file', UNCHANGED made,
             step \in {"detach", "file"} => s \notin catalog',
             db' \subseteq file', step = "file" => s \notin db'
      PROVE  Goal
  <2>1. /\ saved'.catalog = catalog' /\ pc' = step /\ target' = s /\ status' = "Idle"
    BY <1>b DEF Proceed, Committed, Now
  <2>2. QED
    BY <1>b, <2>1 DEF SchemasUsable
<1>1. ASSUME NEW s \in Schemas, NEW lenient \in BOOLEAN, CreateSchema(s, lenient)
      PROVE  Goal
  <2>1. pc = "ready" /\ UNCHANGED <<tables, attached, db, file>>
    BY <1>1 DEF CreateSchema, MayStart
  <2>2. CASE UNCHANGED <<catalog, made>> /\ Answer(IF lenient THEN "ok" ELSE "error")
    BY <1>u, <1>a, <2>1, <2>2
  <2>3. CASE catalog' = catalog \cup {s} /\ made' = made \ {s} /\ Proceed("attach", s)
    BY <1>u, <1>a, <2>1, <2>3
  <2>4. QED
    BY <1>1, <2>2, <2>3 DEF CreateSchema
<1>2. CASE AttachNew
  <2>1. pc = "attach" /\ Attach(target) /\ UNCHANGED <<catalog, tables>>
    BY <1>2 DEF AttachNew
  <2>2. /\ db \subseteq db' /\ file \subseteq file' /\ db' \subseteq file'
        /\ CanAttach(target) => target \in db'
    BY <1>u, <2>1, AttachUsable
  <2>3. CASE CanAttach(target) /\ Answer("ok") /\ made' = made \cup {target}
    <3>1. made' \cap catalog \subseteq db' \cap file'
      BY <1>u, <2>2, <2>3
    <3>2. saved.catalog \cap made' \subseteq db' \cap file'
      BY <1>u, <2>2, <2>3
    <3>3. QED
      BY <1>a, <2>1, <2>2, <2>3, <3>1, <3>2
  <2>4. CASE Answer("error") /\ UNCHANGED made
    <3>1. catalog' \cap made' \subseteq db' \cap file' /\ saved.catalog \cap made' \subseteq db' \cap file'
      BY <1>u, <2>1, <2>2, <2>4
    <3>2. QED
      BY <1>a, <2>2, <2>4, <3>1
  <2>5. QED
    BY <1>2, <2>3, <2>4 DEF AttachNew
<1>3. ASSUME NEW s \in Schemas, NEW cascade \in BOOLEAN, NEW lenient \in BOOLEAN,
             DropSchema(s, cascade, lenient)
      PROVE  Goal
  <2>1. pc = "ready" /\ status = "Idle" /\ UNCHANGED <<catalog, tables, made>>
    BY <1>3 DEF DropSchema, MayStart, Calm
  <2>2. CASE UNCHANGED <<attached, db, file>> /\ Answer(IF lenient THEN "ok" ELSE "error")
    BY <1>u, <1>a, <2>1, <2>2
  <2>3. CASE /\ Attach(s)
             /\ \/ Answer("error")
                \/ Proceed("objects", s) \/ Proceed("row", s)
    <3>1. db \subseteq db' /\ file \subseteq file' /\ db' \subseteq file'
      BY <2>1, <2>3, AttachUsable
    <3>2. catalog' \cap made' \subseteq db' \cap file' /\ saved.catalog \cap made' \subseteq db' \cap file'
      BY <1>u, <2>1, <3>1
    <3>3. CASE Answer("error")
      BY <1>a, <3>1, <3>2, <3>3
    <3>4. CASE Proceed("objects", s) \/ Proceed("row", s)
      BY <1>b, <2>1, <3>1, <3>2, <3>4
    <3>5. QED
      BY <2>3, <3>3, <3>4
  <2>4. QED
    BY <1>3, <2>2, <2>3 DEF DropSchema
<1>4. ASSUME NEW t \in Tables, DropObject(t) PROVE Goal
  BY <1>u, <1>b, <1>4 DEF DropObject
<1>5. CASE ObjectsDropped
  BY <1>u, <1>b, <1>5 DEF ObjectsDropped
<1>6. CASE DropFails
  BY <1>u, <1>a, <1>6 DEF DropFails
<1>7. CASE DeleteRow
  <2>1. /\ pc = "row" /\ catalog' = catalog \ {target} /\ Proceed("detach", target)
        /\ UNCHANGED <<attached, db, file, tables, made>>
    BY <1>7 DEF DeleteRow
  <2>2. QED
    BY <1>u, <1>b, <2>1
<1>8. CASE Detach
  <2>1. /\ pc = "detach" /\ db' = db \ {target} /\ Proceed("file", target)
        /\ UNCHANGED <<catalog, file, tables, made>>
    BY <1>u, <1>8 DEF Detach
  <2>2. QED
    BY <1>u, <1>b, <2>1
<1>9. CASE DeleteFile
  <2>1. /\ pc = "file" /\ UNCHANGED <<catalog, attached, db, tables, made>>
        /\ file \ {target} \subseteq file'
        /\ Answer("ok") \/ Answer("error")
    BY <1>9 DEF DeleteFile
  <2>2. QED
    BY <1>u, <1>a, <2>1
<1>10. ASSUME NEW s \in Schemas, NEW t \in Tables, CreateTable(s, t) PROVE Goal
  <2>1. pc = "ready" /\ UNCHANGED <<catalog, attached, db, file, made>> /\ \E a : Answer(a)
    BY <1>10 DEF CreateTable
  <2>2. QED
    BY <1>u, <1>a, <2>1
<1>11. CASE Begin
  BY <1>11, <1>u DEF Begin, SchemasUsable
<1>12. CASE Commit
  BY <1>12, <1>u DEF Commit, Now, SchemasUsable
<1>13. CASE Rollback
  BY <1>13, <1>u DEF Rollback, SchemasUsable
<1>14. CASE Restart
  BY <1>14 DEF Restart, SchemasUsable
<1>15. CASE UNCHANGED vars
  BY <1>15 DEF vars, Usable, SchemasUsable
<1>16. QED
  BY <1>1, <1>2, <1>3, <1>4, <1>5, <1>6, <1>7, <1>8, <1>9, <1>10, <1>11, <1>12, <1>13, <1>14, <1>15
     DEF Next

\* While DROP SCHEMA stays outside of blocks, every schema that this process
\* confirmed and that is still there is attached and has its file: over refused
\* attachments, failing steps, rolled back creations and restarts.
THEOREM SchemasStayUsable == ASSUME Calm PROVE Spec => []SchemasUsable
<1>1. Init => Usable
  BY InitTypeOK DEF Init, Usable, ManagerKnowsAttached, SchemasUsable
<1>2. Usable /\ [Next]_vars => Usable'
  BY NextUsable
<1>3. Usable => SchemasUsable
  BY DEF Usable
<1>4. QED
  BY <1>1, <1>2, <1>3, PTL DEF Spec

-----------------------------------------------------------------------------
(* Schemas as the proxy promises them *)

\* DROP SCHEMA stays outside of blocks, and tables are made in schemas there are.
Outside == Env \cap {"drop_in_block", "stray_table"} = {}

\* Only schemas that exist hold tables, only on disk, now and after a ROLLBACK,
\* and a schema whose row is about to go holds none.
Kept ==
  /\ Usable
  /\ saved.catalog \subseteq catalog
  /\ pc \in {"objects", "row"} => target \in catalog
  /\ pc = "row" => tables[target] = {}
  /\ \A s \in Schemas : tables[s] # {} => s \in catalog \cap file
  /\ \A s \in Schemas : saved.tables[s] # {} => s \in saved.catalog \cap file

LEMMA NextKept == ASSUME Outside PROVE Kept /\ [Next]_vars => Kept'
<1> DEFINE Goal == /\ saved'.catalog \subseteq catalog'
                   /\ pc' \in {"objects", "row"} => target' \in catalog'
                   /\ pc' = "row" => tables'[target'] = {}
                   /\ \A s \in Schemas : tables'[s] # {} => s \in catalog' \cap file'
                   /\ \A s \in Schemas : saved'.tables[s] # {} => s \in saved'.catalog \cap file'
<1>c. Calm
  BY DEF Calm, Outside
<1> SUFFICES ASSUME Kept, [Next]_vars PROVE Goal
  BY <1>c, NextUsable DEF Kept
<1>k. /\ saved.catalog \subseteq catalog
      /\ pc \in {"objects", "row"} => target \in catalog
      /\ pc = "row" => tables[target] = {}
      /\ \A s \in Schemas : tables[s] # {} => s \in catalog \cap file
      /\ \A s \in Schemas : saved.tables[s] # {} => s \in saved.catalog \cap file
      /\ pc \in {"objects", "row", "detach", "file"} => status = "Idle"
      /\ pc \in {"detach", "file"} => target \notin catalog
      /\ db \subseteq file
      /\ status = "Idle" => saved.catalog = catalog /\ saved.tables = tables
      /\ target \in Schemas /\ tables \in Contents
  BY DEF Kept, Usable, TypeOK, Now
<1>u. CASE UNCHANGED <<catalog, tables, file, saved, pc, target>>
  BY <1>k, <1>u
\* A step that takes no file away.
<1>a. ASSUME Committed, catalog \subseteq catalog', file \subseteq file',
             pc' \in {"objects", "row"} => target' \in catalog',
             pc' = "row" => tables'[target'] = {},
             \A s \in Schemas : tables'[s] # {} => s \in catalog' \cap file'
      PROVE  Goal
  <2>1. CASE status = "Idle"
    BY <1>a, <2>1 DEF Committed, Now
  <2>2. CASE status # "Idle"
    BY <1>a, <1>k, <2>2 DEF Committed
  <2>3. QED
    BY <2>1, <2>2
<1>b. ASSUME NEW a, Answer(a), UNCHANGED catalog, file \subseteq file',
             \A s \in Schemas : tables'[s] # {} => s \in catalog' \cap file'
      PROVE  Goal
  BY <1>a, <1>b DEF Answer
<1>1. ASSUME NEW s \in Schemas, NEW lenient \in BOOLEAN, CreateSchema(s, lenient)
      PROVE  Goal
  <2>1. UNCHANGED <<tables, file>>
    BY <1>1 DEF CreateSchema
  <2>2. CASE UNCHANGED catalog /\ Answer(IF lenient THEN "ok" ELSE "error")
    BY <1>k, <1>b, <2>1, <2>2
  <2>3. CASE catalog' = catalog \cup {s} /\ Proceed("attach", s)
    BY <1>k, <1>a, <2>1, <2>3 DEF Proceed
  <2>4. QED
    BY <1>1, <2>2, <2>3 DEF CreateSchema
<1>2. CASE AttachNew
  <2>1. Attach(target) /\ UNCHANGED <<catalog, tables>> /\ (Answer("ok") \/ Answer("error"))
    BY <1>2 DEF AttachNew
  <2>2. file \subseteq file'
    BY <2>1 DEF Attach
  <2>3. QED
    BY <1>k, <1>b, <2>1, <2>2
<1>3. ASSUME NEW s \in Schemas, NEW cascade \in BOOLEAN, NEW lenient \in BOOLEAN,
             DropSchema(s, cascade, lenient)
      PROVE  Goal
  <2>1. UNCHANGED <<catalog, tables>> /\ file \subseteq file'
    BY <1>3 DEF DropSchema, Attach
  <2>2. CASE \E a : Answer(a)
    BY <1>k, <1>b, <2>1, <2>2
  <2>3. CASE /\ s \in catalog
             /\ Proceed("objects", s) \/ (Proceed("row", s) /\ tables[s] = {})
    BY <1>k, <1>a, <2>1, <2>3 DEF Proceed
  <2>4. QED
    BY <1>3, <2>2, <2>3 DEF DropSchema, Refused
<1>4. ASSUME NEW t \in Tables, DropObject(t) PROVE Goal
  <2>1. /\ pc = "objects" /\ Proceed("objects", target)
        /\ tables' = [tables EXCEPT ![target] = tables[target] \ {t}]
        /\ UNCHANGED <<catalog, file>>
    BY <1>4 DEF DropObject
  <2>2. \A s \in Schemas : tables'[s] \subseteq tables[s]
    BY <1>k, <2>1 DEF Contents
  <2>3. QED
    BY <1>k, <1>a, <2>1, <2>2 DEF Proceed
<1>5. CASE ObjectsDropped
  BY <1>k, <1>a, <1>5 DEF ObjectsDropped, Proceed
<1>6. CASE DropFails
  BY <1>k, <1>b, <1>6 DEF DropFails
<1>7. CASE DeleteRow
  <2>1. /\ pc = "row" /\ catalog' = catalog \ {target} /\ UNCHANGED <<tables, file>>
        /\ pc' = "detach" /\ Committed
    BY <1>7 DEF DeleteRow, Proceed
  <2>2. saved'.catalog = catalog' /\ saved'.tables = tables'
    BY <1>k, <2>1 DEF Committed, Now
  <2>3. QED
    BY <1>k, <2>1, <2>2
<1>8. CASE Detach
  BY <1>k, <1>a, <1>8 DEF Detach, Proceed
<1>9. CASE DeleteFile
  <2>1. /\ pc = "file" /\ UNCHANGED <<catalog, tables>> /\ file \ {target} \subseteq file'
        /\ pc' = "ready" /\ Committed
    BY <1>9 DEF DeleteFile, Answer
  <2>2. saved'.catalog = catalog' /\ saved'.tables = tables'
    BY <1>k, <2>1 DEF Committed, Now
  <2>3. QED
    BY <1>k, <2>1, <2>2
<1>10. ASSUME NEW s \in Schemas, NEW t \in Tables, CreateTable(s, t) PROVE Goal
  <2>1. UNCHANGED <<catalog, file>> /\ s \in catalog
    BY <1>10 DEF CreateTable, Outside
  <2>2. CASE s \in db /\ tables' = [tables EXCEPT ![s] = tables[s] \cup {t}] /\ Answer("ok")
    <3>1. \A r \in Schemas \ {s} : tables'[r] = tables[r]
      BY <1>k, <2>2 DEF Contents
    <3>2. QED
      BY <1>k, <1>b, <2>1, <2>2, <3>1
  <2>3. CASE UNCHANGED tables /\ Answer("error")
    BY <1>k, <1>b, <2>1, <2>3
  <2>4. QED
    BY <1>10, <2>2, <2>3 DEF CreateTable
<1>11. CASE Begin
  BY <1>11, <1>u DEF Begin
<1>12. CASE Commit
  BY <1>12, <1>k DEF Commit, Now
<1>13. CASE Rollback
  BY <1>13, <1>k DEF Rollback
<1>14. CASE Restart
  <2>1. /\ catalog' = saved.catalog /\ file' = file /\ pc' = "ready"
        /\ saved'.catalog = catalog' /\ saved'.tables = tables'
        /\ \A s \in Schemas : tables'[s] # {} => saved.tables[s] # {}
    BY <1>14 DEF Restart, Now
  <2>2. QED
    BY <1>k, <2>1
<1>15. CASE UNCHANGED vars
  BY <1>15, <1>u DEF vars
<1>16. QED
  BY <1>1, <1>2, <1>3, <1>4, <1>5, <1>6, <1>7, <1>8, <1>9, <1>10, <1>11, <1>12, <1>13, <1>14, <1>15
     DEF Next

\* Nothing is hidden from the refinement: the tables shown are all there are.
LEMMA AllShown ==
  ASSUME NEW c, NEW content \in Contents, \A s \in Schemas : content[s] # {} => s \in c
  PROVE  InCatalog(c, content) = content
BY DEF InCatalog, Contents

Doomed == IF pc = "objects" THEN {target} ELSE {}

LEMMA StepImplements ==
  ASSUME Outside, Kept, Kept', [Next]_vars
  PROVE  [Promise!Next]_(Promise!vars)
<1>a. /\ InCatalog(catalog, tables) = tables
      /\ InCatalog(saved.catalog, saved.tables) = saved.tables
  <2>1. tables \in Contents /\ saved.tables \in Contents
    BY DEF Kept, Usable, TypeOK
  <2>2. QED
    BY <2>1, AllShown DEF Kept
<1>b. /\ InCatalog(catalog', tables') = tables'
      /\ InCatalog(saved'.catalog, saved'.tables) = saved'.tables
  <2>1. tables' \in Contents /\ saved'.tables \in Contents
    BY DEF Kept, Usable, TypeOK
  <2>2. QED
    BY <2>1, AllShown DEF Kept
<1>s. /\ saved = [catalog |-> saved.catalog, tables |-> saved.tables]
      /\ status = "Idle" => saved = Now
      /\ pc \in {"objects", "row", "detach", "file"} => status = "Idle"
      /\ pc \in {"objects", "row"} => target \in catalog
      /\ pc = "row" => tables[target] = {}
      /\ target \in Schemas
  BY DEF Kept, Usable, TypeOK
<1>1. ASSUME UNCHANGED <<catalog, tables, saved>>, status' # "Idle" <=> status # "Idle",
             Doomed' = Doomed
      PROVE  UNCHANGED Promise!vars
  BY <1>1 DEF Promise!vars, InCatalog, Doomed
\* What a statement, or a step of one, is to the promise.
<1>2. ASSUME Committed, status' # "Idle" <=> status # "Idle", Doomed' = Doomed
      PROVE  Promise!Statement
  <2>1. CASE status = "Idle"
    BY <1>2, <2>1, <1>a, <1>b, <1>s DEF Committed, Now, Doomed, Promise!Statement, Promise!Now
  <2>2. CASE status # "Idle"
    BY <1>2, <2>2, <1>a, <1>b, <1>s DEF Committed, Now, Doomed, Promise!Statement, Promise!Now
  <2>3. QED
    BY <2>1, <2>2
<1>3. ASSUME Committed, UNCHANGED <<catalog, tables>> PROVE UNCHANGED saved
  BY <1>3, <1>s DEF Committed, Now
<1>4. ASSUME NEW a, Answer(a) PROVE Committed /\ (status' # "Idle" <=> status # "Idle") /\ Doomed' = {}
  BY <1>4 DEF Answer, Doomed
<1>5. ASSUME NEW step, NEW s, Proceed(step, s)
      PROVE  /\ Committed /\ (status' # "Idle" <=> status # "Idle")
             /\ Doomed' = IF step = "objects" THEN {s} ELSE {}
  BY <1>5 DEF Proceed, Doomed
\* The end of a statement that leaves catalog and tables, and a step to another.
<1>6. ASSUME (\E a : Answer(a)) \/ (\E step \in {"attach", "row", "detach", "file"} : \E s : Proceed(step, s)),
             UNCHANGED <<catalog, tables>>
      PROVE  [Promise!Next]_(Promise!vars)
  <2>1. UNCHANGED saved /\ (status' # "Idle" <=> status # "Idle") /\ Doomed' = {}
    BY <1>3, <1>4, <1>5, <1>6
  <2>2. Promise!Spare
    BY <1>6, <1>a, <1>b, <2>1 DEF Doomed, InCatalog, Promise!Spare
  <2>3. QED
    BY <2>2 DEF Promise!Next
<1>7. ASSUME NEW s \in Schemas, NEW lenient \in BOOLEAN, CreateSchema(s, lenient)
      PROVE  [Promise!Next]_(Promise!vars)
  <2>1. pc = "ready" /\ UNCHANGED tables
    BY <1>7 DEF CreateSchema, MayStart
  <2>2. CASE UNCHANGED catalog /\ Answer(IF lenient THEN "ok" ELSE "error")
    BY <1>6, <2>1, <2>2
  <2>3. CASE s \notin catalog /\ catalog' = catalog \cup {s} /\ Proceed("attach", s)
    <3>1. Doomed = {} /\ Doomed' = {} /\ Promise!Statement
      BY <1>2, <1>5, <2>1, <2>3 DEF Doomed
    <3>2. Promise!Create(s)
      BY <2>1, <2>3, <3>1, <1>a, <1>b DEF Doomed, Promise!Create
    <3>3. QED
      BY <3>2 DEF Promise!Next
  <2>4. QED
    BY <1>7, <2>2, <2>3 DEF CreateSchema
<1>8. CASE AttachNew
  BY <1>6, <1>8 DEF AttachNew
<1>9. ASSUME NEW s \in Schemas, NEW cascade \in BOOLEAN, NEW lenient \in BOOLEAN,
             DropSchema(s, cascade, lenient)
      PROVE  [Promise!Next]_(Promise!vars)
  <2>1. pc = "ready" /\ status = "Idle" /\ UNCHANGED <<catalog, tables>>
    BY <1>9 DEF DropSchema, MayStart, Outside
  <2>2. CASE (\E a : Answer(a)) \/ Proceed("row", s)
    BY <1>6, <2>1, <2>2
  <2>3. CASE s \in catalog /\ Proceed("objects", s)
    <3>1. UNCHANGED saved /\ status' = "Idle" /\ Doomed = {} /\ Doomed' = {s}
      BY <1>3, <1>5, <2>1, <2>3 DEF Doomed
    <3>2. Promise!Doom(s)
      BY <1>a, <1>b, <2>1, <2>3, <3>1 DEF Doomed, Promise!Doom
    <3>3. QED
      BY <3>2 DEF Promise!Next
  <2>4. QED
    BY <1>9, <2>2, <2>3 DEF DropSchema
<1>10. ASSUME NEW t \in Tables, DropObject(t) PROVE [Promise!Next]_(Promise!vars)
  <2>1. /\ pc = "objects" /\ Proceed("objects", target) /\ UNCHANGED catalog
        /\ tables' = [tables EXCEPT ![target] = tables[target] \ {t}]
    BY <1>10 DEF DropObject
  <2>2. Doomed = {target} /\ Doomed' = {target} /\ Promise!Statement
    BY <1>2, <1>5, <2>1 DEF Doomed
  <2>3. Promise!LoseTable(target, t)
    BY <1>a, <1>b, <2>1, <2>2 DEF Doomed, Promise!LoseTable
  <2>4. QED
    BY <1>s, <2>3 DEF Promise!Next
<1>11. CASE ObjectsDropped \/ DropFails
  BY <1>6, <1>11 DEF ObjectsDropped, DropFails
<1>12. CASE DeleteRow
  <2>1. /\ pc = "row" /\ Proceed("detach", target) /\ UNCHANGED tables
        /\ catalog' = catalog \ {target}
    BY <1>12 DEF DeleteRow
  <2>c. Committed /\ (status' # "Idle" <=> status # "Idle") /\ Doomed' = {}
    BY <1>5, <2>1
  <2>d. Doomed = {}
    BY <2>1 DEF Doomed
  <2>2. Doomed = {} /\ Doomed' = {} /\ Promise!Statement
    BY <1>2, <2>c, <2>d
  <2>3. Promise!Drop(target)
    BY <1>a, <1>b, <1>s, <2>1, <2>2 DEF Doomed, Promise!Drop
  <2>4. QED
    BY <1>s, <2>3 DEF Promise!Next
<1>13. CASE Detach \/ DeleteFile
  BY <1>6, <1>13 DEF Detach, DeleteFile
<1>14. ASSUME NEW s \in Schemas, NEW t \in Tables, CreateTable(s, t)
      PROVE  [Promise!Next]_(Promise!vars)
  <2>1. pc = "ready" /\ s \in catalog /\ UNCHANGED catalog
    BY <1>14 DEF CreateTable, Outside
  <2>2. CASE tables' = [tables EXCEPT ![s] = tables[s] \cup {t}] /\ Answer("ok")
    <3>1. Committed /\ (status' # "Idle" <=> status # "Idle") /\ Doomed' = {}
      BY <1>4, <2>2
    <3>2. Doomed = {}
      BY <2>1 DEF Doomed
    <3>3. Promise!Statement
      BY <1>2, <3>1, <3>2
    <3>4. Promise!CreateTable(s, t)
      BY <2>1, <2>2, <3>2, <3>3, <1>a, <1>b DEF Doomed, Promise!CreateTable
    <3>5. QED
      BY <3>4 DEF Promise!Next
  <2>3. CASE UNCHANGED tables /\ Answer("error")
    BY <1>6, <2>1, <2>3
  <2>4. QED
    BY <1>14, <2>2, <2>3 DEF CreateTable
<1>15. CASE Begin
  BY <1>15, <1>a, <1>b DEF Begin, InCatalog, Promise!Begin, Promise!Next
<1>16. CASE Commit
  <2>1. Promise!Commit
    BY <1>16, <1>a, <1>b DEF Commit, Now, Promise!Commit, Promise!Now
  <2>2. QED
    BY <2>1 DEF Promise!Next
<1>17. CASE Rollback
  <2>1. Promise!Undo
    BY <1>17, <1>a, <1>b DEF Rollback, Promise!Undo
  <2>2. QED
    BY <2>1 DEF Promise!Next
<1>18. CASE Restart
  <2>1. tables' = saved.tables /\ catalog' = saved.catalog
    BY <1>18 DEF Restart, Kept, Usable, TypeOK, Contents
  <2>2. Promise!Undo
    BY <1>18, <2>1, <1>a, <1>b, <1>s DEF Restart, Now, Promise!Undo
  <2>3. QED
    BY <2>2 DEF Promise!Next
<1>19. CASE UNCHANGED vars
  BY <1>19, <1>1 DEF vars, Doomed
<1>20. QED
  BY <1>7, <1>8, <1>9, <1>10, <1>11, <1>12, <1>13, <1>14, <1>15, <1>16, <1>17, <1>18, <1>19
     DEF Next

\* While DROP SCHEMA stays outside of blocks and tables are made in schemas there
\* are, schemas are what the proxy promises: created empty, dropped only empty,
\* robbed of tables only by their own DROP SCHEMA CASCADE, and kept over
\* restarts between any two steps, failing steps and refused attachments; what a
\* block creates, ROLLBACK undoes.
THEOREM SchemasAreDurable == ASSUME Outside PROVE Spec => ImplementsPgSchema
<1>c. Calm
  BY DEF Calm, Outside
<1>1. Init => Kept
  BY InitTypeOK DEF Init, Kept, Usable, ManagerKnowsAttached, SchemasUsable, Empty
<1>2. Kept /\ [Next]_vars => Kept'
  BY NextKept
<1>3. Init => Promise!Init
  BY DEF Init, Promise!Init, Promise!Empty, InCatalog, Empty
<1>4. Kept /\ Kept' /\ [Next]_vars => [Promise!Next]_(Promise!vars)
  BY StepImplements
<1>5. QED
  BY <1>1, <1>2, <1>3, <1>4, PTL DEF Spec, ImplementsPgSchema, Promise!Spec
=============================================================================
