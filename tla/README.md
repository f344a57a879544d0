# TLA+ specifications of pgqt

pgqt speaks the PostgreSQL wire protocol to its clients and keeps their data
in SQLite.  This directory holds specifications of what its clients share
(sessions, locks, COPY, schemas, functions, catalogs), and of what it makes of
one statement or value (the translation of statements, and the types SQLite
has not); the TLC runs that check them on small instances; and theorems about
them that TLAPS has checked for every value of the constants.

## The system

`main` opens one SQLite connection, wraps it and everything else in one
`SqliteHandler`, and gives that handler to every connection that arrives.
Each connection is a task; each simple query runs from start to end on a
worker thread without an `await` in the middle.  So everything below is shared
by all clients:

| State | Where | Guarded by |
| --- | --- | --- |
| the SQLite connection, with its one transaction, savepoints and attached databases | `SqliteHandler.conn` | a mutex |
| session 0: status, savepoints, user, search path | `SqliteHandler.sessions` | a DashMap shard |
| the set of attached schemas | `SchemaManager.attached_schemas` | a mutex |
| the functions known to the transpiler | `SqliteHandler.functions` | DashMap shards |
| state, buffer and row count of COPY | `CopyHandler` | three mutexes |
| catalog tables (`__pg_meta__`, `__pg_namespace__`, `__pg_authid__`, ...) | the SQLite database | the transaction |
| one file for each schema | the directory of the database | nothing |

A query goes through `execute_query` (src/src/handler/query.rs): SET and SHOW
of settings, then transaction control, then the check that the block has not
failed, then CREATE/DROP SCHEMA, EXPLAIN, functions and calls, then the
transpiler, COPY, SET ROLE, permissions, row-level security, and at last
SQLite.  A failure marks the block.  COPY data comes as separate messages that
do not pass through `execute_query`.

### Components

| Component | Keeps | Operations | What makes it hard | What makes it correct | Modelled |
| --- | --- | --- | --- | --- | --- |
| Sessions and transaction control (`handler/transaction.rs`, `query.rs`, `main.rs`) | session 0, SQLite's transaction | BEGIN, COMMIT, ROLLBACK, savepoints, SET, statements and their failures | two copies of the same state, changed in three steps under two locks; failures whose results are dropped; crashes | status and savepoints are SQLite's; a single client sees a PostgreSQL session; nothing is committed unasked | TxnSession |
| Locks (all handlers) | guards | every request | lock orders across files, guards that live longer than they are looked at | no circle of waiting, every request ends | Locks |
| COPY (`copy.rs`) | state, buffer | COPY, CopyData, CopyDone, CopyFail | messages of several clients on one state; errors outside of the usual path; rows one by one | each COPY stores its own client's lines | Copy |
| COPY formats (`copy.rs`, `transpiler/ddl.rs`) | nothing | format, parse, options | escapes, quotes, NULL and empty values | what was copied out comes back | CopyCodec |
| Schemas (`schema.rs`, `handler/utils.rs`) | catalog rows, files, attachments, notes | CREATE/DROP SCHEMA, ROLLBACK, restart | four places that change one after the other, with a failure or a crash in between | schemas and their tables last until dropped; a schema that was just created is usable | Schema |
| Catalog of tables (`catalog/`) | column types, defaults, owners, pg_catalog rows | CREATE and DROP TABLE and INDEX, description of results | six writes for one CREATE TABLE, each of which may fail, none for DROP; numbers that SQLite uses again | the catalog says of a table what the table is | Catalog |
| Functions (`functions.rs`, `catalog/function.rs`, `transpiler/func.rs`) | catalog rows, cache, functions registered with SQLite | CREATE/DROP FUNCTION, calls | three copies of one definition, of which one is transactional; two ways to answer a call | a call runs the newest function that was confirmed | SqlFunctions |
| Roles and grants (`handler/utils.rs`, `transpiler/rls/utils.rs`) | roles, grants | CREATE and DROP ROLE, GRANT, REVOKE | grants outlive their role | a role is recorded to have what was granted to it | Roles |
| Row-level security (`rls*.rs`, `transpiler/rls`) | policies | combine policies, inject predicates | | | no |
| PL/pgSQL (`plpgsql/`) | nothing between calls | parse, translate to Lua, run | not reached by any statement | | no |
| Ranges, arrays (`range.rs`, `array/`) | nothing | the functions that SQLite is given | brackets, infinite bounds, quotes, NULL; everything is a text that each function parses again | the functions agree with sets and sequences | Ranges, Arrays |
| Transpiler (`transpiler/`, `distinct_on.rs`) | a context for each statement | rewrite a syntax tree to text | precedence, order of NULL, defaults, the nesting of set operations | the text means in SQLite what the tree means in PostgreSQL | Overloading, Expressions, Select, Writes |
| Boxes, full-text search (`geo.rs`, `fts.rs`) | nothing | operators on values | a text that is read twice, by two parsers | answers are those of the points and of the words | Boxes, TextSearch |
| Vectors, distances, statistics | nothing | computations on one value | floating point | | no |
| Result metadata (`handler/rewriter.rs`, `query.rs`) | nothing | types of result columns | metadata found by name | the type that was declared | Catalog |
| Errors (`handler/errors.rs`) | nothing | classify messages | | | no |

## The modules

| Module | What it is |
| --- | --- |
| `Sqlite` | SQLite's transaction as the proxy uses it: autocommit, BEGIN or savepoint mode, the stack of savepoints, what is durable and what a statement sees. External. |
| `TxnSession` | Transaction control over `Sqlite`: clients, the shared session, the mutex, and the steps of `execute_query`. |
| `PgTransaction` | What a PostgreSQL session promises one client; `TxnSession` implements it. |
| `Locks` | Each request as its sequence of acquisitions and releases. |
| `Copy` | COPY statements and messages over the shared handler. |
| `PgCopy` | What COPY promises; `Copy` implements it. |
| `CopyCodec` | The formats as functions from tables to characters and back. |
| `Schema` | CREATE and DROP SCHEMA as their steps over catalog, files, attachments and notes. |
| `PgSchema` | What schemas promise; `Schema` implements it. |
| `SqlFunctions` | CREATE FUNCTION, DROP FUNCTION and calls over catalog, cache and SQLite. |
| `Catalog` | CREATE TABLE as its sequence of writes, each of which may fail, DROP TABLE, indexes, blocks and restarts; what results, INSERT and pg_catalog are told. |
| `Roles` | Roles, their numbers, and what is granted to a number. |
| `Overloading` | What is found out of the texts of two operands, and the function that an operator on arrays, ranges, shapes or vectors becomes. |
| `Expressions` | The tree of an expression written as text, and SQLite's reading of that text. |
| `Select` | DISTINCT ON, ORDER BY, LIMIT, set operations, joins, recursion and the names of result columns, as PostgreSQL and as SQLite answers them. |
| `Writes` | INSERT with its defaults, UPDATE and DELETE, and the splitting of a text into statements. |
| `Ranges` | Parsing of ranges to canonical form, and what SQLite is given of them: `range_contains`, `isempty`, `lower`, `upper` and `int4range`. |
| `Arrays` | Arrays read and written in three forms, and the functions and operators on them. |
| `Boxes` | The operators on boxes. |
| `TextSearch` | to_tsvector, to_tsquery, @@ and ts_rank. |
| `MC*` | Values of the constants for TLC.  `MCStatements` puts the modules about single statements and values, and `Catalog` and `Roles`, side by side in one run. |
| `*_proofs` | Theorems and their proofs. |

### TxnSession

A client's request is several steps, because other clients' requests come in
between: `ReadSession` clones the session and applies
`handle_transaction_control` to the clone; `ApplyToSqlite` takes the
connection and sends SQLite what the change of status calls for;
`StoreSession` inserts the clone with the connection still locked.  A data
statement is `StartStatement`, `CheckErrorState`, and `Execute` or
`ExecuteFails`; after a failure `ReadForAbort` and `StoreAbort` clone and
insert the session once more.  SET search_path and DROP FUNCTION are one step
each, and come before the error check as in the code, so that DROP FUNCTION
deletes in a failed block too.  `frame` holds the locals of a request: the
clone and the status it was read with.

Rows are abstract: a statement inserts a row that is not there, and DROP
FUNCTION deletes one.  `Env` names
what clients and environment do beyond the ordinary (`overlap`, `crash`,
`auto_rollback`, `commit_fails`, ...), so that a run says under which
conditions a property holds; nothing in the code depends on it.  `block` and
`acked` are history: what clients were told.

### Locks

`Program` gives each kind of request the locks it takes, in the order of the
code, with the guards that live across another acquisition nested.  The guard
of a function that is found in a call lives while the call's arguments are
rewritten; where they are in an INSERT and ask for a default (`insert_call`),
the connection is locked under it.  A mutex
and a shard of a DashMap differ only in that readers of a shard do not exclude
each other.  What happens under a lock is left out; where a path depends on
data, the program takes the path with the most locks.

### Copy and CopyCodec

`Copy` keeps the lines a client sends apart from what they mean: a line is
stored or refused.  `Process` is the part of CopyDone that runs under state,
buffer and connection; `Clear` is the rest, after those locks are released.
`Overlap` says whether clients may start statements while another copies.
`CopyCodec` has one-letter strings for characters and tokens for the fields of
the binary format.  A value is a text, NULL, or something else (a BLOB, a
floating-point number) of which `Shown` is the text that is written.  `Split`, `UnescapeText` and `CsvFields` take a text one
character at a time (`SplitStep`, `UnescapeStep`, `CsvStep`).  Nothing in the
code checks the options; `Sensible` is what PostgreSQL asks of them, and the
properties of text and CSV speak of such options.  Chunks of CopyData that split a line are not modelled: the
buffer is read only after CopyDone.

### Schema

Catalog rows and tables are undone by ROLLBACK; files, attachments and the
SchemaManager's notes are not.  A statement is its steps, since each is
committed at once outside a block: `CreateSchema` stores the row and
`AttachNew` attaches; `DropSchema` attaches if need be and decides, then
`DropObject` for each table, `ObjectsDropped`, `DeleteRow`, `Detach` and
`DeleteFile`.  `pc` and `target` are the step and the schema under way.  The
connection's mutex is held all along, so no other statement comes in between,
but a failure (`DropFails`, a refused ATTACH, `remove_file`) or a restart does.
`made` is history: what this process has confirmed to exist.  Of SQLite it assumes: at most `Limit` attached
databases; DETACH fails in a transaction that has read the database; writing
to a database whose file was removed fails unless its journal is open.

### SqlFunctions

CREATE FUNCTION stores a row and then caches and registers the function, under
one guard of the connection (`StoreFunction`, `RegisterFunction`).  A call is
tried on the catalog first (`SimpleCall`); whatever that refuses is transpiled
with the body from the cache (`Transpile`) and executed later, under the lock
again (`ExecuteCall`).  So a call in the middle of its steps meets CREATE OR
REPLACE, DROP, ROLLBACK and restarts of others.  Of a function it keeps the
number of parameters, STRICT, and whether its body gives a value; of a call
its arguments' number, whether a literal NULL is among them, and whether it
has only literals and a FROM clause.  `Env` names what ordinary clients do not
do.  `created`, `confirmed`, `dropped` and `answer` are history.  All transaction control
is one step here, and a block belongs to all clients, as in `Schema`.

PL/pgSQL is not reached: `parse_create_function_stmt` makes every function's
language `sql`, whatever its LANGUAGE says (func.rs:318).

### Catalog

`objects` is SQLite's list of tables and indexes with its row numbers, which
pg_catalog uses as oids and which SQLite gives again after a drop.  CREATE
TABLE is `ExecuteCreate` and then one action for each write to the catalog, as
in the code: `StoreColumn` for each column, `StoreOwner`,
`PopulateAttributes`, `PopulateIndexes`, `PopulateConstraints`.  The mutex is
held all along, so no other statement comes in between, but a crash does
(`StartAgain`), a write that fails (`WriteFails`: `PartlyWritten` is what a
function leaves that deletes rows and inserts others one by one), and another
connection's SET ROLE, which changes the owner that is noted.  COMMIT keeps
what is there, also of a block that has failed.  `history` marks the tables
whose CREATE was cut off.  DROP changes `objects` only.  `Known`, `Told` and `Sent`
are what INSERT, the description of a result and its rows are made from.

### Roles

CREATE ROLE, GRANT and REVOKE are rewritten to INSERT and DELETE on
`__pg_authid__` and `__pg_acl__`, as the actions say.  A user without a role is
given one at its first statement (`MakeRole`).  `granted` is history: what
GRANT and REVOKE say the role has, with ALL meaning all (`Meaning`).  `lost`
and `kept` are the roles of which a GRANT or REVOKE was not recorded as it was
said: a GRANT records one object, privilege and grantee, and ALL is nothing to
either.

### Overloading, Expressions, Select, Writes

Each has a function for what pgqt writes and one for what SQLite makes of it,
and beside them what PostgreSQL makes of the original, so that a property
compares two meanings and not a text with itself.  In `Expressions` the text
is a sequence of items that `Reparse` reads by SQLite's precedences.  In
`Overloading` each item has the marks that are in its characters (brackets,
commas, `<`, the word range), which is all that pgqt tells the type of an
operator's operands by.  In `Select` a table is a sequence of rows
of two columns and an answer a sequence of rows; statements with ties have
sets of answers.  In `Writes` a value is known by where it comes from
(`given`, `default`, ...), and `AllInserts` and `AllUpdates` are statements of
which PostgreSQL accepts most.

### Ranges, Arrays, Boxes, TextSearch

The values that SQLite has no type for are texts, which every operator parses
again.  Parsing is modelled by what it does to brackets, bounds, quotes and
NULL.  `Ranges` has the functions that SQLite is given, and no more of
range.rs: each parses its range as one of integers, whatever the column's type,
with what is no integer read as 0 (`AsNumber`), takes an element that is given
as text only, and answers `''` for a bound that is not there.  Integers wrap
at `MaxValue`.  `Arrays` keeps characters, since quoting is what goes wrong;
`Survives` says which elements each form loses.  Its characters are any but
white space other than the space, which is trimmed like it, and control
characters, which JSON escapes; `ArraysAssumption` leaves these out, and calls
with an element whose text is NULL, which functions take for the element NULL.
Each function refuses an argument that is NULL (`UnlessNull`).
Numbers are written without quotes in ARRAY[...] if they have up to 18 digits.  `Boxes` has integers for
numbers: nothing is computed.  `TextSearch` has words as tokens; `Stem` and
`StopWords` are tables.  Queries, like the trees of `Select`, are a set that
has the parts of its members, each with a rank (`Depth`, `Height`) above those
of its parts; the recursion over them is a function on that set.

## The runs

| Run | Module | Bounds | Shows |
| --- | --- | --- | --- |
| `txn_mirror` | MCTxnSession | 2 clients in turn, 2 names, 2 rows, 2 savepoints; crashes, disconnects, control statements in failed blocks | session status and savepoints are SQLite's |
| `txn_pg` | MCTxnSession | 1 client, 2 names, 2 rows, 2 savepoints, 2 roles, 2 paths; crashes | the proxy implements `PgTransaction`; confirmed rows survive; settings change only by SET |
| `txn_failed` | MCTxnSession | 1 client with BEGIN, COMMIT and writes | violated: COMMIT of a failed block commits what it did before the error |
| `txn_any` | MCTxnSession | 2 overlapping clients, every statement and spelling, everything in `Env` | nothing becomes durable inside a transaction but by COMMIT or the release of the savepoint that opened it |
| `txn_orphan` | MCTxnSession | 2 overlapping clients with BEGIN, COMMIT and writes | violated: the session ends Idle with SQLite in a transaction |
| `locks` | MCLocks | 2 threads, 2 requests each, every request but transaction control, CopyDone and `insert_call` | no circle, every request ends; the orders of the locks, of `insert_call` too |
| `locks_session` | MCLocks | 2 threads, transaction control and queries | violated: the two wait for each other |
| `copy_serial` | MCCopy | 2 clients in turn, 2 tables, 3 lines for each COPY, 2 rows before | `Copy` implements `PgCopy`; failed blocks store nothing |
| `copy_mixed` | MCCopy | 2 overlapping clients | violated: one client's lines go to the other's table |
| `statements` | MCStatements | for COPY tables of up to two values of up to two characters, or two rows of one, and 10 WITH clauses, one of which is not sensible; a range with 6 texts for a bound, one of them no integer, or none; arrays of up to 3 elements; boxes on a 3 by 3 grid; documents and queries of up to 3 words; expressions of up to 4 operators; SELECT from up to 3 rows; INSERT of up to 3 rows; 3 CREATE or DROP statements with blocks, failing writes and restarts; 3 roles and numbers up to 13 | which tables COPY brings back; that what is asked of ranges, arrays, boxes and documents is answered as PostgreSQL answers it; which expressions, SELECTs, INSERTs and UPDATEs keep their meaning; what the catalogs of tables and roles say |
| `schema` | MCSchema | 3 schemas, 2 tables, limit 2, blocks around CREATE SCHEMA, failing steps, restarts between any two | `Schema` implements `PgSchema`; schemas that were just created are usable; the SchemaManager's notes are right |
| `functions` | MCSqlFunctions | 2 clients, 2 functions in two cases of letters, 2 creations, blocks, restarts | catalog and cache agree; calls run the newest confirmed function and give what it was declared to give |

Why the bounds are enough.  Savepoints need two names and two levels for a
name to be hidden by a newer one and for ROLLBACK TO to cut in the middle.
Two clients show every interleaving of one request with another; the theorems
cover more.  A COPY of three lines has one before, at and after a refused one,
a header included.  Three schemas under a limit of two have one attachment
refused; the limit of SQLite is ten.  Two characters make a pair of quotes, an
escape, `\N`, or a line end after a character; two columns put a delimiter
between values and a carriage return at the end of a line or not.  Three
operators show each precedence on either side of each other, under a third;
five integers give a range every order of its bounds and both limits of i64; three rows have a tie and
a NULL; three statements create, drop and create again under one number, and
four numbers make a role, drop it and make the next.  Four values stand for
limits of the code that nothing else depends on: `MaxCompound` for SQLite's
500 selects, `MaxRecursionDepth` for the 100 rows of a recursion, and
`MinValue` and `MaxValue` for the least and greatest i64.  Two
creations make a replacement; one of the two functions gives a value and one
writes, which is where the two ways to answer a call differ.  DROP SCHEMA in
a block is in no run, since most properties fail with it; the theorems on
types and on the SchemaManager cover it.

MaxSavepoints, Budget, MaxLines, MaxRows, MaxMade, MaxElems, MaxStatements and
MaxOid are the only bounds in guards.  Deadlock is checked in all runs but
`locks`, `locks_session` and `statements`, where the threads run out of
requests and a value has nothing left to do.

### Fairness

Only `locks` needs any: weak fairness of each thread's acquisitions and
releases.  The tokio scheduler runs each ready task, and a thread blocked in
`Mutex::lock` gets it if it stays free.  Nobody is promised a contended lock,
so the property holds because the requests of a run are finitely many: it
says that none of them blocks itself or a circle of others for ever.

## The proofs

| Theorem | From | Says |
| --- | --- | --- |
| `TxnSession_proofs!TypeCorrect` | nothing | types, the mutex, and SQLite's autocommit invariant, in every environment |
| `TxnSession_proofs!CommitsAreAsked` | nothing | `OnlyCommitCommits`, however requests overlap |
| `TxnSession_proofs!SerialSessionMirrorsSqlite` | no overlap, and SQLite obeys | `StatusMirrorsSqlite` and, as a corollary, `SavepointsMirrorSqlite`, for any number of clients and savepoints |
| `TxnSession_proofs!SerialSessionImplementsPostgres` | besides, ordinary statements (`OrdinaryUse`): a failed block is only rolled back | `TxnSession` implements `PgTransaction` |
| `TxnSession_proofs!SerialSettingsSurvive` | no overlap | `OnlySetChangesSettings` |
| `TxnSession_proofs!SoleClientKeepsItsRows` | one client, which stays | `AckedRowsAreDurable`, over crashes and restarts |
| `Locks_proofs!TypeCorrect` | nothing | threads are at steps of their programs |
| `Locks_proofs!RankedRequestsNeverDeadlock` | a rank of the acquisitions | `NoDeadlock` for any number of threads |
| `Copy_proofs!TypeCorrect` | nothing | types |
| `Copy_proofs!SerialCopyIsItsClients` | no overlap | `Copy` implements `PgCopy` |
| `Copy_proofs!SerialFailedBlockStoresNothing` | no overlap | a failed block stores nothing |
| `Schema_proofs!TypeCorrect`, `ManagerIsRight` | nothing | types; the notes are what SQLite has attached |
| `Schema_proofs!SchemasStayUsable` | `Calm`: no DROP SCHEMA in a block | `SchemasUsable`: what this process created is usable, over refused attachments, failing steps and restarts |
| `Schema_proofs!SchemasAreDurable` | `Outside`: besides, no table made in a schema there is no more | `Schema` implements `PgSchema` for any limit, over failures of each step and restarts between any two |
| `SqlFunctions_proofs!TypeCorrect` | nothing | types; the mutex is held exactly between storing and registering; one cached definition for a name |
| `SqlFunctions_proofs!CacheStaysNewest`, `CallsNeverFallBack` | functions created outside of blocks, lower-case names | `CacheIsNewest`, `CallsRunNewest` for any clients and functions, over ROLLBACK, DROP and restarts |
| `SqlFunctions_proofs!CallsAnswerAsDeclared` | besides, calls and declarations that fit their function's signature | `CallsAnswer`, over ROLLBACK, DROP and restarts, of functions that were not dropped |
| `Statements_proofs!RolesHaveTheirGrants` | `RolesAssumption`: grants name relations, privileges and grantees | `GrantsAreTheRolesOwn` for any roles and grants, ALL and lists of several among them |
| `Statements_proofs!CatalogKnowsTables` | `CatalogAssumption`: what SQLite refuses is left out, that is tables without columns, columns of one name, names of its own | `CatalogTellsColumns` for any definitions and users, over blocks, failed writes, commits of failed blocks, crashes and restarts |
| `Statements_proofs!AttributesStayColumns` | the same | `AttributesAreColumns`, whatever had a table's number before |
| `Statements_proofs!WritesStoreWhatTheySay` | `WritesAssumption`: tables, INSERTs and UPDATEs are well formed | `WritesDoWhatTheySay` for any tables, any number of rows and any UPDATE |
| `CopyCodec_proofs!CsvCopiesComeBack`, `TextCopiesComeBack`, `BinaryCopiesComeBack` | `CopyCodecAssumption`: rows are as wide as their table, NULL is no text | `CsvComesBack`, `TextComesBack`, `BinaryComesBack` for any tables of texts and any options, of any size |
| `Texts_proofs!ArraysComeBack` | `ArraysAssumption`: the characters named above, arrays have a row, NULL is no text | `ArraysReadBack` for any arrays of one or two dimensions, elements and arguments, over any number of array functions |
| `Texts_proofs!TsmatchFinds` | `TextSearchAssumption`: words are no operators, no stem is written in capitals, a query's parts are less deep than it | `TsmatchFindsDocuments` for any words, stems, stop words, documents and queries, however deep |
| `Statements_proofs!SelectAnswers` | `SelectAssumption`: tables and queries are well formed, a tree's parts are less high than it | `SelectsAnswer` for any rows, select lists, ORDER BY, DISTINCT ON, LIMIT, set operations, joins, names and CTEs |
| `Statements_proofs!OverloadedOperatorsReachTheirType` | `OverloadingAssumption`: operands are columns or literals of their type, ranges also made by int4range; circles and dates are left out | `OperatorsReachTheirType` for any such operands |
| `Statements_proofs!RangesKnowTheirPoints` | the domain is the integers | `RangeKnowsItsPoints` for any bounds, at the limits of i64 too |
| `Statements_proofs!BoxesAreTheirPoints` | nothing | `BoxesAnswerAsPoints` for any coordinates on any axis of integers |

Along which arguments:

* *Mirror.*  `StatusMirrorsSqlite` is not inductive: a request in the middle
  of its steps has to be known to act on what it read.  The strengthening says
  that at most one request is under way, that its clone comes from the session
  there is, and that the session's savepoints name SQLite's marks.
* *Refinement.*  The mirror says that what a request will insert is its clone
  as its statement changes it; `OrdinaryInv` adds that the session still lets
  that statement through.  Then cloning, SQLite's statement and the insertion
  are one step of `PgTransaction`, taken when SQLite executes the statement:
  `ControlStep` shows it for each control statement.
* *Confirmed rows.*  `DurableGrows`: in every environment a committed row stays.
  `Nested`: every state a rollback returns to holds the committed rows.
  `BlockInv`: a client that opened no block is outside of one, so that what it
  writes is committed before it is confirmed.
* *No deadlock.*  A rank orders acquisitions so that whoever holds up an
  acquisition can itself only wait for one of lower rank.  In a circle there
  would be a waiting thread of least rank.  `MCLocks` gives three ranks and
  assumes (TLC evaluates it) that the requests without transaction control,
  CopyDone and `insert_call` follow `DataOrder`, those and `insert_call` without
  CREATE FUNCTION `DefaultOrder`, and those without queries and COPY FROM
  `ControlOrder`.  No rank serves transaction control and queries, which is what
  `locks_session` shows, nor `insert_call` and CREATE FUNCTION.
* *COPY.*  The strengthening `Own` says that while a client copies, the shared
  state is its operation and the shared buffer its lines.
* *Schemas.*  `Usable`: what this process created and is in the catalog, now or
  after a ROLLBACK, is attached, and what is attached has its file; a schema
  that is about to be detached or to lose its file has lost its row, so that a
  failure at any of these steps leaves nothing half usable.  `Kept`: only
  schemas that exist hold tables, and on disk, and one that is about to lose its
  row has none; from that a restart, between any two steps, is a step of
  `PgSchema`, and the objects that DROP SCHEMA CASCADE drops one by one are the
  losses that `PgSchema` allows a doomed schema.
* *Functions.*  `CacheIsNewest` does not hold between storing and registering;
  there the strengthening `Current` says that all but the name under way is the
  newest, and that the stored row is newer than everything else.  `Kept`: what
  was confirmed has a row at least as new, and the cache is no older.
  `Calling`: what a call has in its hands is no older than what was confirmed
  before it.  `Declared`: every row is the definition it was created with, what
  SQLite has registered is in the cache, and so a call that comes to SQLite
  without a body came before its function was confirmed.
* *Roles.*  That a new role has nothing of an old one's depends on numbers
  never given twice: `NumbersAreFresh` says that every number in a role or a
  grant is below the next, `NumbersDiffer` that no two roles share one, and
  `RowsMatch` that the rows of a role's number are what was granted to it, no
  less unless a GRANT was lost and no more unless a REVOKE kept.
* *Catalog.*  `CatalogInv`: outside of a CREATE TABLE the catalog is right about
  every table that has its name to itself; inside of one it lags behind at the
  tables of the name under way only, and in a way that the next write makes
  good (`FirstOf`: the first columns are stored; `Rotated`: storing a column
  again moves its row to the end, until all are in order again).  Where one is
  cut off its name is marked and nothing is said of it any more, and the rows of
  other tables are as they were (`PartlyWritten` deletes and writes under the
  name's own numbers, but for pg_index and pg_constraint, of which only
  `NoneCut` speaks).  What a block can be rolled
  back to is such a database as well, with nothing under way.  SQLite gives a
  number again after a drop, so rows of pg_attribute under a number may be
  older than the table: `PopulateAttributes` deletes them before it writes.
* *Writes.*  Each row of an INSERT is made of items that are given, asked for by
  DEFAULT or left out.  Of a row for which the catalog tells all that is asked,
  the lemmas say that it is written at full width and stored as PostgreSQL
  stores it; the rows of a statement are written independently of each other.
  A reference in an UPDATE means the same column unless it comes from FROM or is
  captured by a column of a subquery (`SameReference`).
* *COPY formats.*  Writing is joining, reading is a scan: one step for each
  character.  A recursive function has no induction theorem that the provers
  here can use, so the lemma `Ladder` gives it for sets: what holds at the first place and is
  handed on to the next one holds at all, or else there were a least place
  (`NatLessThanWellFounded`) at which it does not.
  From it, a scan of two joined texts is the scan of the second from where the
  first ended, and what was joined from pieces is scanned piece by piece.
  `SplitJoined` cuts a joined text where it was joined if no piece has the
  delimiter in it; escaping and quoting have one lemma each that says what the
  reader makes of one written field from any state between fields.  The CSV
  reader looks a character ahead; `Reader` is one that looks back instead, in
  which a second quote takes back what the first one did.
* *Arrays.*  Each element is one word of a text, and a lemma says what the
  reader makes of it: `PgReads` in PostgreSQL's format, `JsonReads` in JSON's,
  from any state between two elements.  `NestedReads` reads rows: one without
  quotes leads from between two rows to between two rows, and once there was a
  quote no row is read any more, which is why a nested array may have none.  `RowsKept` is the invariant: the text holds the rows, and is
  empty or begins as an array does, since what a function reads is not the NULL
  text that it would start from anew.  `ChangeKeeps` says for all functions at
  once that what they write is read as what they meant, or an element is lost.
* *Trees.*  Queries, joins, set operations and the targets of a select list are
  nested.  What is said of one is a recursive function, and each tree has a
  rank (`Depth`, `Height`) above those of its parts, as any finite tree does.
  `TreeInduction` gives induction over ranks for sets, from `LeastNat` like
  `Ladder`; `Lowers` says that a definition looks at trees of lower rank only,
  from which `TreeRecursion` has that the function it defines exists.
* *Text search.*  Each token is written and read for itself but for what the
  reader remembers of a negation.  `ScanPieces` turns the scan of what is
  written for FTS5 into a scan of the tokens of the query, and `TypedScan`
  that into one of what a client types.  Over the trees, each query adds its
  terms to those before it, and a negation it leaves open, as a stop word
  does, ends at the next operator or bracket (`AddsThenEnds`, `AddsBracketed`);
  `TermsStand` says that the terms collected stand for the query as far as it
  has no `|` or `<->`.
* *SELECT.*  Where the columns can be sorted alike, what is left to show is
  DISTINCT ON.  SQLite takes the first rows of the sorted rows and sorts them
  again, by which rows that are tied may change places; PostgreSQL sorts all
  rows once and takes the first.  `Arranged`: the rows can be counted so that
  they are sorted, the first of every group are found where SQLite has put
  them, and the others come after the first ones they are tied with
  (`Weight`); `LeadsLinear` says that this order is linear, and
  `OrderedByCounts` that a finite set can be counted along any such order.
* *Operators.*  `Appears` says of one operand's text what the code finds out of
  it: a shape, a bracket, the word range, a range's literal.  `ArrayOperand`,
  `BoxOperand` and `RangeAppears` say what each kind of operand appears as, and
  `CallsOneOf` what is called for two of them; then each operator is a case.
* *Ranges.*  A canonical range has a lower and an upper cut.  The lemma
  `CrossingCuts` says that a point lies between two cuts exactly if they cross,
  which is what the code compares.  `ParsingKeepsPoints` is where brackets and
  raised bounds matter, `CanonicalIsRead` that a text the constructor wrote is
  read again as it is; so `ColumnHoldsRange`, that the text has the points the
  client meant, is kept by each step.  `BoundsArePoints` then finds `lower` and
  `upper` among the points.  The run has a finite part of the integers, with
  points below and above all bounds.
* *Boxes.*  The code compares the least and greatest corner; the property is
  about sets of points.  The lemmas on intervals of one axis find in each
  case the corner that is a common or a missing point.

Only model-checked: liveness (`EveryRequestReturns`), which TLAPS cannot prove;
and `ExpressionsReadBack`, where `Reparse` reads a text by RECURSIVE calls on
its parts.

## Where code and documents part

Found while modelling.  The first four have runs.

* A control statement inserts a clone of the session that it read before it
  locked the connection (query.rs:66, 107), and so takes back what another
  client did in between: `txn_orphan`.
* Control statements hold the connection while they insert the session;
  permission checks hold the session while they lock the connection
  (query.rs:107, utils.rs:32, 43): `locks_session`.  CopyDone and the start of
  a COPY take `buffer` and `row_count` in opposite orders (copy.rs:699-707).
  docs/ARCHITECTURE.md:190 says "No deadlocks possible".
* All connections share one COPY state and buffer (copy.rs:228): `copy_mixed`.
* COMMIT of a failed block is sent to SQLite as COMMIT and commits what the
  block did before the error (query.rs:85-90), where handler/mod.rs:30 says of
  the status "must ROLLBACK": `txn_failed`.

The following show under other values of the constants:

* SAVEPOINT outside a block opens a SQLite transaction the session does not
  know of (`Env` with `savepoint_when_idle`, `StatusMirrorsSqlite`).  `BEGIN;`
  is not recognised as transaction control and does the same (`Statements`
  with the spellings of `RawControl`).
* SAVEPOINT, RELEASE and DROP FUNCTION are executed in a failed block
  (query.rs:91, utils.rs:861); with `savepoint_when_failed`,
  `release_when_failed` or `drop_when_failed` `IsPgTransaction` is violated.
* An INSERT with a call among its values holds the guard of the function while
  it asks for the default of a column in the call's arguments (func.rs:38,
  dml.rs:19-75), and CREATE FUNCTION takes the functions under the connection
  (utils.rs:560-579): the two wait for each other (`insert_call` and
  `create_function` in `Requests`, `NoDeadlock`).
* A COMMIT that SQLite refuses is confirmed (`commit_fails`,
  `StatusMirrorsSqlite`).
* A row confirmed to a client in no block is lost with the ROLLBACK of another
  client (two clients, `AckedRowsAreDurable`); a control statement undoes
  another client's SET ROLE (`overlap`, `OnlySetChangesSettings`).
* ROLLBACK TO an unknown savepoint is an error that does not fail the block
  (transaction.rs:67).  SET ROLE NONE sets the role named none (query.rs:181).
* A COPY that fails outside a block keeps the rows before the bad one, one that
  fails inside a block does not fail the block (copy.rs:716), and the state
  stays FromStdin after a COPY has succeeded.
* After a restart no schema is attached, since `attach_all_schemas`, "called on
  startup" (schema.rs:198), is called by nobody: a schema that was there before
  is in the catalog and cannot be used until DROP SCHEMA attaches it.
  `SchemasUsable` is therefore about what the running process created.
* CREATE SCHEMA whose ATTACH is refused reports an error and leaves the schema
  in the catalog (utils.rs:257).  DROP SCHEMA CASCADE, which docs/SCHEMAS.md:336
  names as PostgreSQL's, is not atomic: a failure or a crash leaves the schema
  with a part of its tables (schema.rs:402-405), and an error of `remove_file`
  is reported when the schema is gone (schema.rs:189).  `PgSchema` allows this;
  what it forbids is that anything else loses a table.
* ROLLBACK of CREATE SCHEMA leaves file and attachment; ROLLBACK of DROP SCHEMA
  does not bring back the file (`drop_in_block`, `ImplementsPgSchema`), and the
  database stays attached, since DETACH fails in a transaction.
* DROP FUNCTION f deletes the row of `F` (utils.rs:864), which a function
  written without quotes does not have, so that f stays and goes on answering,
  where docs/FUNCTIONS.md:202 says "Remove a function"; with IF EXISTS it
  deletes the row of `IF`.  `CallsAnswer` says nothing of a function that a DROP
  FUNCTION named.  Its end-to-end test catches its own failure
  (tests/function_e2e_test.py:229-236).  A function dropped under its
  capital-letter name stays in the cache (`quoted`, `CacheIsNewest`).
* ROLLBACK of CREATE FUNCTION leaves the function in the cache
  (`create_in_block`, `CacheIsNewest`).  After a restart the cache is empty:
  calls with anything but literals fail, as do calls of void functions.
* A STRICT function that is called with a literal NULL or with anything but
  literals runs its body (`null_to_strict` and a STRICT `Declared`,
  `CallsAnswer`); too many arguments are dropped (`arity`); `SELECT f(1) FROM t`
  gives one row (`from`).  A call that is transpiled while its function is
  first created gives NULL, from the function registered with SQLite.
* COPY in default text format does not escape: a tab or line feed in a value
  breaks the row, where docs/COPY.md:13-17 gives the format the backslash as
  escape character; only ESCAPE '\' in the statement makes it one, for reading.
  In CSV a quoted line feed ends the row, an empty value comes back as NULL,
  and the NULL option is not used on export.  FORMAT after DELIMITER takes the
  delimiter back.  The binary export of an empty table cannot be imported.
* COPY TO makes a text of every value, of a BLOB with `from_utf8_lossy` and of a
  number with `to_string` (copy.rs:304-316, 610), also in binary format, and
  COPY FROM inserts texts: a BLOB does not come back as one.  The properties of
  `CopyCodec` are of tables of texts.

The properties of `statements` say under which conditions SQLite's answer is
PostgreSQL's.  They say nothing of the rest, which is where the code does
something else:

* *Expressions.*  No brackets are written around an operator's operands:
  `(a + b) * c` becomes `a + b * c`.  NOT IN, NULLIF, IS [NOT] DISTINCT FROM,
  BETWEEN and `-` lose their operator, where README.md:516 has
  `now() - interval '1 day'` and README.md:903-906 `revenue - lag(revenue)`.
  Of the operators on ranges only `@>` with an element has a function in SQLite,
  where docs/RANGE.md:25-48 names eight operators and `lower_inc`, `upper_inc`,
  `lower_inf` and `upper_inf`.  `<->` on vectors (docs/VECTOR.md:77) and `@@`
  (docs/FTS.md:27) are written as `vector_l2_distance` and `fts_match`
  (operators.rs:65, 211), where SQLite is given `l2_distance` and `tsmatch`.
  An array whose text has a `<` in an element, or both brackets and a comma but
  no `[`, is taken for a shape, and an array column that is named like a range
  for a range (geo.rs:15, ranges.rs:129).
* *SELECT.*  DISTINCT ON fails if a column it needs is renamed, qualified or
  not selected, as in the example "With JOIN" of docs/DISTINCT_ON.md:107-115 and
  the features that README.md:948-967 lists, and with `*` has a column too many.  NULLS FIRST and LAST are
  not written, and SQLite sorts NULL at the other end.  INTERSECT ALL and
  EXCEPT ALL lose ALL.  RIGHT and FULL joins are written as LEFT, and a join
  on the right of a join fails.  Under WITH RECURSIVE every CTE without a
  LIMIT is cut at a hundred rows.  Casts, CASE and subqueries name their
  columns otherwise.
* *INSERT, UPDATE, DELETE.*  A default that another clause follows is stored
  with it: `DEFAULT 5 NOT NULL` inserts true, `DEFAULT 5 UNIQUE` is no SQL;
  one with brackets is lost.  ON CONFLICT and RETURNING, which
  docs/TODO-FEATURES.md:38-39 marks as done, UPDATE ... FROM and
  DELETE ... USING are dropped.  Leaving a subquery in FROM forgets which table
  the INSERT is into, and the defaults after it are lost (stmt.rs:199).  SET c = DEFAULT sets NULL.  A `;` in a text
  splits the statement (query.rs:256, 466).  More than 500 rows fail.  Cutting
  the alias from the text makes it refer to a subquery's column of that name.
* *Catalog.*  DROP leaves metadata, owner and pg_catalog rows, which a later
  table of that name has beside its own; tables of two schemas share one
  name's metadata.  DROP TABLE public.t fails (ddl.rs:504), and with IF EXISTS
  is confirmed without a drop.  CREATE TABLE IF NOT EXISTS is written without
  IF NOT EXISTS; table constraints, PRIMARY KEY and FOREIGN KEY are not
  written.  A crash or a write that fails leaves the table with a part of its
  metadata, and so does COMMIT of the block in which it failed.  ALTER TABLE reports
  success and does nothing but switch row-level security (ddl.rs:440).
  pg_index is as it was at the last CREATE TABLE.  Values of type bytea are
  read as NULL (query.rs:341-353).
* *Roles.*  GRANT writes the first object, privilege and grantee only
  (README.md:202 has three privileges), nothing of GRANT ALL (README.md:203,
  286) or ALL TABLES, and fails when repeated; REVOKE ALL deletes nothing; GRANT to a role that is not there goes to number 0,
  which is PUBLIC's; REVOKE FROM PUBLIC deletes nothing.  GRANT role TO role
  is not recorded (utils.rs:197-204), where README.md:206 shows it.
* *Ranges.*  SQLite's functions take every range for one of integers
  (handler/mod.rs:466-533): bounds that are dates, timestamps or decimals count as 0, so
  that a range of them comes out empty or with the wrong elements.  An element
  that is not written as a text, as in `r @> 15`, is refused, and so is NULL.
  `lower` and `upper` answer '' where PostgreSQL has NULL.  An exclusive bound
  at the greatest integer wraps to the least.
* *Arrays.*  Elements that are empty or the text NULL, that begin or end with
  white space, or that have certain quotes or backslashes are lost or changed,
  as `Survives` lists for each form; ARRAY[0] becomes one of a truth value.  A
  NULL argument is an error (handler/mod.rs:299-397), where PostgreSQL's
  `array_append(NULL, 'a')` is `{a}`; the text NULL is stored as NULL; array
  functions flatten nested arrays.  Of the
  control characters that ARRAY[...] escapes, `unescape_json_string`
  (array/utils.rs:105) knows the line ends and the tab only.
* *Full-text search.*  OR is read as AND, `<->` as AND, and `!( ... )` loses
  its negation; a word whose stem is and, or or not is taken for the operator
  when the query is read (fts.rs:491-497); a query of stop words matches everything; operator characters
  in a document take places.  plainto_tsquery, phraseto_tsquery,
  websearch_to_tsquery, ts_headline, setweight and strip are not registered.

## What is not modelled

* Access control: row-level security, and the check of a statement against the
  grants.  Its locks are in `Locks`.
* PL/pgSQL: no statement of a client reaches its parser, translator or runtime.
* Vectors, distances, ranking by weights, statistics: floating point.
* Window frames, intervals, dates, JSON, regular expressions: texts rewritten
  one for one, whose meaning is SQLite's.
* Views, TRUNCATE, and the SQL of the pg_catalog views.
* Errors and the wire format: tables of texts and bytes.
* The extended protocol but for its locks: it runs the same statements.
* A panic under the connection's mutex, which would poison it: no modelled
  operation panics.

## Plan

1. Done: `TxnSession`, `Locks`, `Copy`, `CopyCodec`, `Schema` with DROP SCHEMA
   as its steps, `SqlFunctions`, with the proofs above, the refinements to `PgTransaction`, `PgCopy` and
   `PgSchema` among them.
2. Done: `Catalog`, `Roles`, and the modules about statements and values, with
   proofs for `Catalog`, `Roles`, `Writes`, `Select`, `Overloading`, `Ranges`,
   `Boxes`, `Arrays`, `TextSearch` and `CopyCodec`.
3. Left: a proof for `Expressions`; DROP SCHEMA in a block, for which
   `PgSchema` would have to say what a half-removed database may answer; views
   and TRUNCATE in `Catalog`; window functions in `Select`.
