------------------------------- MODULE Sqlite -------------------------------
(***************************************************************************)
(* The part of SQLite the proxy's transaction control relies on: one       *)
(* connection, its autocommit mode, its savepoint stack and the rows.      *)
(* SQLite is not under src/; the operators below say how its documented    *)
(* statements change a connection, and return the connection unchanged     *)
(* where SQLite reports an error (the proxy drops those errors).           *)
(***************************************************************************)
EXTENDS Naturals, Sequences

\* "savepoint": the transaction was opened by SAVEPOINT, not by BEGIN.
Modes == {"autocommit", "begun", "savepoint"}

Database(Names, Rows) ==
  [mode    : Modes,
   durable : SUBSET Rows,    \* rows a restart finds
   view    : SUBSET Rows,    \* rows the connection sees
   marks   : Seq([name : Names, view : SUBSET Rows])]

EmptyDatabase == [mode |-> "autocommit", durable |-> {}, view |-> {}, marks |-> <<>>]

EndTransaction(db, rows) ==
  [mode |-> "autocommit", durable |-> rows, view |-> rows, marks |-> <<>>]

\* The position of the newest savepoint called n, as a set of at most one.
NewestMark(names, n) ==
  {i \in 1..Len(names) : names[i] = n /\ \A j \in (i+1)..Len(names) : names[j] # n}

MarkNames(marks) == [i \in 1..Len(marks) |-> marks[i].name]

SqlBegin(db) ==
  IF db.mode = "autocommit" THEN [db EXCEPT !.mode = "begun"] ELSE db

SqlCommit(db)   == EndTransaction(db, db.view)
SqlRollback(db) == EndTransaction(db, db.durable)

SqlInsert(db, r) ==
  [db EXCEPT !.view = @ \cup {r},
             !.durable = IF db.mode = "autocommit" THEN db.view \cup {r} ELSE @]

SqlDelete(db, r) ==
  [db EXCEPT !.view = @ \ {r},
             !.durable = IF db.mode = "autocommit" THEN db.view \ {r} ELSE @]

SqlSavepoint(db, n) ==
  [db EXCEPT !.marks = Append(@, [name |-> n, view |-> db.view]),
             !.mode  = IF @ = "autocommit" THEN "savepoint" ELSE @]

\* Sets of results: the connection after the statement, one element each.
SqlRollbackTo(db, n) ==
  LET at == NewestMark(MarkNames(db.marks), n)
  IN  IF at = {} THEN {db}
      ELSE {[db EXCEPT !.view = db.marks[i].view, !.marks = SubSeq(@, 1, i)] : i \in at}

\* Releasing the outermost savepoint of a transaction that SAVEPOINT opened commits it.
SqlRelease(db, n) ==
  LET at == NewestMark(MarkNames(db.marks), n)
  IN  IF at = {} THEN {db}
      ELSE {IF i = 1 /\ db.mode = "savepoint" THEN SqlCommit(db)
            ELSE [db EXCEPT !.marks = SubSeq(@, 1, i - 1)] : i \in at}
=============================================================================
