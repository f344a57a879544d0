------------------------------ MODULE Catalog ------------------------------
(***************************************************************************)
(* What the catalog of tables and columns says of the tables there are.    *)
(* CREATE TABLE runs in SQLite first; then the metadata of its columns,    *)
(* its owner and the rows of pg_attribute, pg_index and pg_constraint are  *)
(* written, one statement at a time, under the connection's mutex.  Each   *)
(* can fail, and the process can end between two: outside a block, or in   *)
(* one that is committed although it failed, the table stays with what was *)
(* written of it.  DROP removes tables and indexes and leaves the catalog  *)
(* as it is.                                                               *)
(***************************************************************************)
EXTENDS Integers, FiniteSets, Sequences, SequencesExt, FiniteSetsExt, Functions

CONSTANTS
  TableNames,     \* names of tables
  Indexes,        \* names of indexes
  Refs,           \* tables as they are written: [schema, name], with an attached
                  \* database, "public", or no schema ("")
  Definitions,    \* sequences of [name, type], the columns of a table
  Users,
  Nobody,         \* no owner is noted
  MaxStatements   \* bound: CREATE and DROP statements in a behaviour

\* CREATE and TRUNCATE take public for main; DROP writes it out, and there is
\* no database of that name.
Created(ref) == [schema |-> IF ref.schema = "" THEN "public" ELSE ref.schema, name |-> ref.name]
Dropped(ref) == [schema |-> IF ref.schema = "" THEN "public" ELSE IF ref.schema = "public" THEN "unknown" ELSE ref.schema,
                 name |-> ref.name]

\* rewrite_type_for_sqlite, the type pg_attribute is given from that, and the
\* type a result's description has from the original one.
SqliteType(type)    == IF type \in {"INTEGER", "SERIAL", "BOOLEAN"} THEN "integer" ELSE "text"
AttributeType(type) == IF SqliteType(type) = "integer" THEN 23 ELSE 25
FieldType(type)     ==
  CASE type \in {"INTEGER", "SERIAL", "integer"} -> "INT4" [] type = "BOOLEAN" -> "BOOL" [] OTHER -> "TEXT"

\* The first serial column of a database brings a table of sequences with it.
Sequence == "sqlite_sequence"

ColumnType == [name : STRING, type : STRING]

\* SQLite keeps its own names to itself, and refuses a table without columns or
\* with two of one name.
ASSUME CatalogAssumption ==
  /\ Sequence \notin TableNames \cup Indexes
  /\ \A r \in Refs : r.name \in TableNames
  /\ \A cs \in Definitions :
       /\ cs \in Seq(ColumnType) \ {<<>>}
       /\ \A i, j \in DOMAIN cs : cs[i].name = cs[j].name => i = j

VARIABLES
  objects,     \* rowid -> [kind, name, table, columns], rows of main's sqlite_master
  elsewhere,   \* [schema, name] -> columns, the tables of attached databases
  meta,        \* of each name: its rows of __pg_meta__, in the order of their rowids
  owners,      \* __pg_relation_meta__
  attributes,  \* __pg_attribute__
  indexRows,   \* __pg_index__
  keyRows,     \* __pg_constraint__, primary keys
  history      \* of each name: the tables made, and where CREATE was cut off

VARIABLES
  saved,       \* the database when the block began; <<>> outside a block
  failed,      \* the block has had an error
  pending,     \* what CREATE TABLE has still to write
  statements

database    == <<objects, elsewhere, meta, owners, attributes, indexRows, keyRows, history>>
catalogVars == <<objects, elsewhere, meta, owners, attributes, indexRows, keyRows, history,
                 saved, failed, pending, statements>>

CatalogInit ==
  /\ objects = <<>>
  /\ elsewhere = <<>>
  /\ meta = [n \in TableNames |-> <<>>]
  /\ owners = [n \in TableNames |-> Nobody]
  /\ attributes = {}
  /\ indexRows = {}
  /\ keyRows = {}
  /\ history = [n \in TableNames |-> {}]
  /\ saved = <<>>
  /\ failed = FALSE
  /\ pending = <<>>
  /\ statements = 0

-----------------------------------------------------------------------------
(* Reading the catalog *)

\* SQLite gives a new row of sqlite_master the next number after the largest,
\* so the number of what was made last is used again once that is dropped.
NextRow(objs) == 1 + Max({0} \cup DOMAIN objs)

AddObject(objs, o) == [i \in DOMAIN objs \cup {NextRow(objs)} |-> IF i \in DOMAIN objs THEN objs[i] ELSE o]

OidsOf(name) == {i \in DOMAIN objects : objects[i].name = name /\ name # Sequence}

\* A table's columns: main first, then the attached databases.
TablesNamed(name) ==
  {objects[i].columns : i \in {i \in OidsOf(name) : objects[i].kind = "table"}}
Elsewhere(name) == {elsewhere[r] : r \in {r \in DOMAIN elsewhere : r.name = name}}

TableInfo(name) ==
  IF TablesNamed(name) # {} THEN CHOOSE cs \in TablesNamed(name) : TRUE
  ELSE IF Elsewhere(name) # {} THEN CHOOSE cs \in Elsewhere(name) : TRUE ELSE <<>>

\* get_table_columns_with_defaults: the metadata, and where there is none what
\* SQLite knows.
Known(name) ==
  IF meta[name] # <<>> THEN meta[name]
  ELSE [i \in DOMAIN TableInfo(name) |-> [TableInfo(name)[i] EXCEPT !.type = SqliteType(@)]]

\* build_field_info: the type of the first column of that name, in the order of
\* the tables the statement names.
Told(tables, column) ==
  LET places == {p \in UNION {{t} \X DOMAIN Known(tables[t]) : t \in DOMAIN tables} :
                   Known(tables[p[1]])[p[2]].name = column}
      first  == CHOOSE p \in places :
                  \A q \in places \ {p} : p[1] < q[1] \/ (p[1] = q[1] /\ p[2] < q[2])
  IN  IF places = {} THEN "TEXT" ELSE FieldType(Known(tables[first[1]])[first[2]].type)

\* A value of a row as it is sent, by the type told: numbers and texts as text,
\* an integer told to be boolean as t or f; bytes are not read, and are NULL.
Sent(type, value) ==
  CASE value.kind \in {"null", "blob"} -> "NULL"
    [] value.kind = "integer" /\ type = "BOOL" -> IF value.is = "1" THEN "t" ELSE "f"
    [] OTHER -> value.is

-----------------------------------------------------------------------------
(* Statements *)

Idle    == pending = <<>>
InBlock == saved # <<>>

\* A statement outside a block is refused in one that failed.
Ready ==
  /\ Idle /\ ~failed
  /\ statements < MaxStatements
  /\ statements' = statements + 1

Fail == failed' = InBlock

\* CREATE TABLE in SQLite.  IF NOT EXISTS is not written.
ExecuteCreate(ref, columns) ==
  LET table  == Created(ref)
      serial == \E i \in DOMAIN columns : columns[i].type = "SERIAL"
      made   == AddObject(objects, [kind |-> "table", name |-> ref.name, table |-> ref.name, columns |-> columns])
      there  == \E i \in DOMAIN objects : objects[i].name = Sequence
      exists == IF table.schema = "public" THEN OidsOf(ref.name) # {} ELSE table \in DOMAIN elsewhere
  IN  /\ Ready
      /\ IF exists THEN Fail /\ UNCHANGED <<objects, elsewhere, pending>>
         ELSE /\ IF table.schema = "public"
                 THEN /\ objects' = IF serial /\ ~there
                                    THEN AddObject(made, [kind |-> "table", name |-> Sequence, table |-> Sequence, columns |-> <<>>])
                                    ELSE made
                      /\ UNCHANGED elsewhere
                 ELSE elsewhere' = (table :> columns) @@ elsewhere /\ UNCHANGED objects
              /\ pending' = <<[ref |-> table, columns |-> columns, owner |-> Nobody, next |-> 1]>>
              /\ UNCHANGED failed
      /\ UNCHANGED <<meta, owners, attributes, indexRows, keyRows, history, saved>>

Creating    == pending[1]
Advance     == pending' = <<[Creating EXCEPT !.next = @ + 1]>>
AfterColumns(k) == ~Idle /\ Creating.next = Len(Creating.columns) + k
Bookkeeping == UNCHANGED <<objects, elsewhere, saved, failed, statements>>

\* Faulty variant: a row is added where the column had one.
ReplaceRowKept(rows, c) == Append(rows, c)

\* INSERT OR REPLACE: the column's row, if it has one, is deleted, and the new
\* one gets the last rowid.
ReplaceRow(rows, c) ==
  LET had == {i \in DOMAIN rows : rows[i].name = c.name}
  IN  Append(IF had = {} THEN rows ELSE RemoveAt(rows, CHOOSE i \in had : TRUE), c)

StoreColumn ==
  /\ ~Idle /\ Creating.next <= Len(Creating.columns)
  /\ meta' = [meta EXCEPT ![Creating.ref.name] = ReplaceRow(@, Creating.columns[Creating.next])]
  /\ Advance
  /\ Bookkeeping /\ UNCHANGED <<owners, attributes, indexRows, keyRows, history>>

\* The owner is current_user of the session that all connections share, as it
\* is now: another connection's SET ROLE does not wait for the mutex.
StoreOwner(user) ==
  /\ AfterColumns(1)
  /\ owners' = [owners EXCEPT ![Creating.ref.name] = user]
  /\ pending' = <<[ref |-> Creating.ref, columns |-> Creating.columns, owner |-> user, next |-> Creating.next + 1]>>
  /\ Bookkeeping /\ UNCHANGED <<meta, attributes, indexRows, keyRows, history>>

\* Faulty variant: rows that are there are left.
WithoutRowsOfAll(oid) == attributes

\* What a table that had the number has left is deleted.
WithoutRowsOf(oid) == {a \in attributes : a.table # oid}

\* The rows of a table's columns, of the indexes, and of primary keys; only a
\* serial column is one.
AttributeRows(oid, columns) ==
  {[table |-> oid, name |-> columns[i].name, number |-> i, type |-> AttributeType(columns[i].type)]
   : i \in DOMAIN columns}

AllIndexRows ==
  UNION {{[index |-> i, table |-> t] : t \in OidsOf(objects[i].table)}
         : i \in {i \in DOMAIN objects : objects[i].kind = "index"}}

KeyRows(oid, columns) ==
  {[table |-> oid, column |-> i] : i \in {i \in DOMAIN columns : columns[i].type = "SERIAL"}}

AllKeyRows ==
  UNION {KeyRows(t, objects[t].columns) : t \in {t \in DOMAIN objects : objects[t].kind = "table"}}

\* populate_pg_attribute: the table of that name in main, if there is one.
PopulateAttributes ==
  /\ AfterColumns(2)
  /\ LET name == Creating.ref.name
     IN  IF OidsOf(name) = {} THEN UNCHANGED attributes
         ELSE \E oid \in OidsOf(name) :
                attributes' = WithoutRowsOf(oid) \cup AttributeRows(oid, TableInfo(name))
  /\ Advance
  /\ Bookkeeping /\ UNCHANGED <<meta, owners, indexRows, keyRows, history>>

\* populate_pg_index: all indexes afresh.
PopulateIndexes ==
  /\ AfterColumns(3)
  /\ indexRows' = AllIndexRows
  /\ Advance
  /\ Bookkeeping /\ UNCHANGED <<meta, owners, attributes, keyRows, history>>

\* How CREATE TABLE ended goes to the history.
Note(cut) ==
  history' = [history EXCEPT ![Creating.ref.name] =
                @ \cup {[cut |-> cut, columns |-> Creating.columns, owner |-> Creating.owner]}]

\* populate_pg_constraint: all primary keys afresh.
PopulateConstraints ==
  /\ AfterColumns(4)
  /\ keyRows' = AllKeyRows
  /\ pending' = <<>>
  /\ Note(FALSE)
  /\ Bookkeeping /\ UNCHANGED <<meta, owners, attributes, indexRows>>

\* What is left of main when tables, and with them their indexes, are gone.
WithoutTables(objs, names) == Restrict(objs, {i \in DOMAIN objs : objs[i].table \notin names})

\* DROP TABLE of several: one statement each, up to the first that fails.  With
\* IF EXISTS none does, in a database that is not there either.
DropTables(refs, ifExists) ==
  LET there(k) == LET r == Dropped(refs[k])
                  IN  /\ IF r.schema = "public" THEN TablesNamed(r.name) # {} ELSE r \in DOMAIN elsewhere
                      /\ \A j \in 1..(k - 1) : Dropped(refs[j]) # r
      count    == IF ifExists THEN Len(refs) ELSE Max({k \in 0..Len(refs) : \A j \in 1..k : there(j)})
      gone     == {Dropped(refs[k]) : k \in 1..count}
  IN  /\ Ready
      /\ objects' = WithoutTables(objects, {r.name : r \in {r \in gone : r.schema = "public"}})
      /\ elsewhere' = Restrict(elsewhere, DOMAIN elsewhere \ gone)
      /\ IF count < Len(refs) THEN Fail ELSE UNCHANGED failed
      /\ UNCHANGED <<meta, owners, attributes, indexRows, keyRows, history, saved, pending>>

CreateIndex(index, name) ==
  /\ Ready
  /\ IF TablesNamed(name) = {} \/ OidsOf(index) # {} THEN Fail /\ UNCHANGED objects
     ELSE /\ objects' = AddObject(objects, [kind |-> "index", name |-> index, table |-> name, columns |-> <<>>])
          /\ UNCHANGED failed
  /\ UNCHANGED <<elsewhere, meta, owners, attributes, indexRows, keyRows, history, saved, pending>>

DropIndex(index) ==
  LET oids == {i \in OidsOf(index) : objects[i].kind = "index"}
  IN  /\ Ready
      /\ IF oids = {} THEN Fail ELSE UNCHANGED failed
      /\ objects' = Restrict(objects, DOMAIN objects \ oids)
      /\ UNCHANGED <<elsewhere, meta, owners, attributes, indexRows, keyRows, history, saved, pending>>

-----------------------------------------------------------------------------
(* Blocks, failed writes and the end of the process *)

Begin ==
  /\ Idle /\ ~InBlock
  /\ saved' = database
  /\ UNCHANGED <<database, failed, pending, statements>>

Restore ==
  \E d \in {IF InBlock THEN saved ELSE database} :
    /\ objects' = d[1] /\ elsewhere' = d[2] /\ meta' = d[3] /\ owners' = d[4]
    /\ attributes' = d[5] /\ indexRows' = d[6] /\ keyRows' = d[7] /\ history' = d[8]

\* COMMIT commits what is there, also of a block that has failed.
EndBlock(commit) ==
  /\ Idle /\ InBlock
  /\ IF commit THEN UNCHANGED database ELSE Restore
  /\ saved' = <<>>
  /\ failed' = FALSE
  /\ UNCHANGED <<pending, statements>>

\* What a function that deletes rows and inserts others one by one leaves when
\* it is cut off: nothing has changed, or some of the new rows are there.
PartlyWritten ==
  \/ UNCHANGED <<attributes, indexRows, keyRows>>
  \/ /\ AfterColumns(2) /\ UNCHANGED <<indexRows, keyRows>>
     /\ \E oid \in OidsOf(Creating.ref.name) :
          \E rows \in SUBSET AttributeRows(oid, TableInfo(Creating.ref.name)) : attributes' = WithoutRowsOf(oid) \cup rows
  \/ /\ AfterColumns(3) /\ UNCHANGED <<attributes, keyRows>>
     /\ indexRows' \in SUBSET AllIndexRows
  \/ /\ AfterColumns(4) /\ UNCHANGED <<attributes, indexRows>>
     /\ keyRows' \in SUBSET AllKeyRows

CutOff ==
  /\ PartlyWritten
  /\ Note(TRUE)
  /\ UNCHANGED <<objects, elsewhere, meta, owners>>

\* A write of CREATE TABLE fails, and with it the statement: its table and what
\* has been written stay, unless SQLite, out of space, rolls the block back.
WriteFails ==
  /\ ~Idle
  /\ CutOff \/ (InBlock /\ Restore)
  /\ Fail
  /\ pending' = <<>>
  /\ UNCHANGED <<saved, statements>>

\* The process ends, also between two writes of CREATE TABLE, and is started
\* again.
StartAgain ==
  /\ IF Idle \/ InBlock THEN Restore ELSE CutOff
  /\ saved' = <<>>
  /\ failed' = FALSE
  /\ pending' = <<>>
  /\ UNCHANGED statements

CatalogNext ==
  \/ \E ref \in Refs, columns \in Definitions : ExecuteCreate(ref, columns)
  \/ StoreColumn \/ (\E u \in Users : StoreOwner(u)) \/ PopulateAttributes \/ PopulateIndexes \/ PopulateConstraints
  \/ \E r \in Refs, ifExists \in BOOLEAN :
       DropTables(<<r>>, ifExists) \/ \E q \in Refs : DropTables(<<r, q>>, ifExists)
  \/ \E i \in Indexes : DropIndex(i) \/ \E n \in TableNames : CreateIndex(i, n)
  \/ Begin
  \/ \E commit \in BOOLEAN : EndBlock(commit)
  \/ WriteFails \/ StartAgain

CatalogSpec == CatalogInit /\ [][CatalogNext]_catalogVars

-----------------------------------------------------------------------------
(* Properties *)

\* Names under which only one table was ever made, by one user, or the same one
\* again, and no CREATE TABLE was cut off.
Steady(name) == \E h \in history[name] : history[name] = {h} /\ ~h.cut

\* What the catalog says of a table is what the table is, with the types it was
\* created with: INSERT without columns names its columns in order, results
\* have its types, truth values are sent as such from its boolean columns, and
\* its owner is who made it.  DROP leaves metadata and
\* other schemas share it, so this is of names with one table; rollbacks,
\* restarts, failures of other tables' CREATE and a COMMIT of a block that
\* failed do not matter.
CatalogTellsColumns ==
  Idle => \A name \in TableNames :
            Steady(name) =>
              \A h \in history[name] :
                /\ owners[name] = h.owner
                /\ Known(name) = h.columns
                /\ \A i \in DOMAIN h.columns :
                     LET told == Told(<<name>>, h.columns[i].name)
                         type == h.columns[i].type
                     IN  /\ told = FieldType(type)
                         /\ Sent(told, [kind |-> "integer", is |-> "1"]) = IF type = "BOOLEAN" THEN "t" ELSE "1"

\* No CREATE TABLE of the name, or of any, was cut off.
Whole(name) == \A h \in history[name] : ~h.cut
AllWhole    == \A name \in TableNames : Whole(name)

\* pg_attribute has the columns of every table in main that was completely
\* created, and under its number none but them, whatever was dropped before,
\* whatever had the number, and whatever failed of other tables; pg_constraint,
\* which every CREATE TABLE writes afresh, has its primary key if none failed.
AttributesAreColumns ==
  Idle => \A oid \in DOMAIN objects :
            LET o == objects[oid]
            IN  o.kind = "table" /\ o.name # Sequence /\ Whole(o.name) =>
                  /\ {a \in attributes : a.table = oid} = AttributeRows(oid, o.columns)
                  /\ AllWhole => {k \in keyRows : k.table = oid} = KeyRows(oid, o.columns)
=============================================================================
