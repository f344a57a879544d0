----------------------------- MODULE TxnSession -----------------------------
(***************************************************************************)
(* Transaction control of the proxy.  Every connection works on session 0  *)
(* of one SqliteHandler and on its one SQLite connection.  A control       *)
(* statement clones the session, changes the clone, runs the SQLite        *)
(* statement under the connection's mutex and inserts the clone back; a    *)
(* data statement checks the error state, executes, and on failure clones  *)
(* the session once more to mark the block as failed.                      *)
(***************************************************************************)
EXTENDS Sqlite

CONSTANTS
  Clients,        \* connections, each sending one simple query at a time
  Names,          \* savepoint names
  Rows,           \* rows a client may insert, each at most once at a time; functions
                  \* are rows of the catalog
  Roles, Paths,   \* values of SET ROLE and of SET search_path
  Statements,     \* the kinds of statement the clients send
  Env,            \* what clients and environment do beyond the ordinary
  MaxSavepoints,  \* bound on open savepoints
  Free            \* the connection's mutex when no thread holds it

Control    == {"BEGIN", "COMMIT", "ROLLBACK", "SAVEPOINT", "ROLLBACK TO", "RELEASE"}
\* Spellings is_transaction_control does not recognise; SQLite executes them.
RawControl == {"BEGIN;", "COMMIT;", "ROLLBACK;"}

EnvNames ==
  {"overlap",             \* requests of different clients are in flight together
   "savepoint_when_idle", \* SAVEPOINT outside a block
   "savepoint_when_failed", "release_when_failed", "commit_when_failed", "drop_when_failed",
   "auto_rollback",       \* an error after which SQLite ends the transaction itself
   "commit_fails",        \* SQLite refuses a COMMIT and stays in its transaction
   "disconnect", "crash"}

ASSUME ConstantsAssumption ==
  /\ Free \notin Clients
  /\ Statements \subseteq Control \cup RawControl
                     \cup {"WRITE", "DROP FUNCTION", "SET ROLE", "SET SEARCH_PATH"}
  /\ Env \subseteq EnvNames
  /\ MaxSavepoints \in Nat

VARIABLES
  session,   \* sessions[0], shared by every connection
  conn,      \* holder of the mutex around the SQLite connection
  db,        \* the SQLite connection
  pc, frame, \* each client's position in execute_query, and its locals: the
             \* statement, the session's clone and the status before it
  block,     \* history: clients that were told BEGIN and not yet its end
  acked      \* history: rows whose insertion was confirmed outside such a block and
             \* that no client asked to delete since

vars == <<session, conn, db, pc, frame, block, acked>>

NoFrame == [op |-> "NONE", arg |-> Free, prev |-> "Idle", next |-> Free]

Status  == {"Idle", "InTransaction", "InError"}
Session == [status : Status, savepoints : Seq(Names), authenticated_user : Roles,
            current_user : Roles, search_path : Paths]

NewSession(role, path) ==
  [status |-> "Idle", savepoints |-> <<>>, authenticated_user |-> role,
   current_user |-> role, search_path |-> path]

-----------------------------------------------------------------------------
(* handle_transaction_control: the sessions it may leave, one element each. *)

HandleBegin(s) == [s EXCEPT !.status = IF @ = "Idle" THEN "InTransaction" ELSE @]

HandleCommit(s) ==
  IF s.status = "Idle" THEN s ELSE [s EXCEPT !.status = "Idle", !.savepoints = <<>>]

\* Faulty variant: the clone is replaced by a session with default settings.
HandleRollbackResets(s) ==
  NewSession(CHOOSE role \in Roles : TRUE, CHOOSE path \in Paths : TRUE)

HandleRollback(s) == [s EXCEPT !.status = "Idle", !.savepoints = <<>>]

HandleSavepoint(s, n) == [s EXCEPT !.savepoints = Append(@, n)]

\* Faulty variant: the savepoint itself is dropped, as RELEASE does.
HandleRollbackToDrops(s, n) ==
  LET at == NewestMark(s.savepoints, n)
  IN  IF at = {} THEN {s}
      ELSE {[s EXCEPT !.savepoints = SubSeq(@, 1, i - 1),
                      !.status = IF @ = "InError" THEN "InTransaction" ELSE @] : i \in at}

HandleRollbackTo(s, n) ==
  LET at == NewestMark(s.savepoints, n)
  IN  IF at = {} THEN {s}
      ELSE {[s EXCEPT !.savepoints = SubSeq(@, 1, i),
                      !.status = IF @ = "InError" THEN "InTransaction" ELSE @] : i \in at}

HandleRelease(s, n) ==
  LET at == NewestMark(s.savepoints, n)
  IN  IF at = {} THEN {s} ELSE {[s EXCEPT !.savepoints = SubSeq(@, 1, i - 1)] : i \in at}

Handle(op, n, s) ==
  CASE op = "BEGIN"       -> {HandleBegin(s)}
    [] op = "COMMIT"      -> {HandleCommit(s)}
    [] op = "ROLLBACK"    -> {HandleRollback(s)}
    [] op = "SAVEPOINT"   -> {HandleSavepoint(s, n)}
    [] op = "ROLLBACK TO" -> HandleRollbackTo(s, n)
    [] op = "RELEASE"     -> HandleRelease(s, n)

\* Faulty variant: whatever ends a block is sent to SQLite as COMMIT.
SqliteAfterAlwaysCommits(op, n, prev, next, d) ==
  IF prev = "Idle" /\ next = "InTransaction" THEN {SqlBegin(d)}
  ELSE IF prev # "Idle" /\ next = "Idle" THEN {SqlCommit(d)}
  ELSE CASE op = "SAVEPOINT"   -> {SqlSavepoint(d, n)}
         [] op = "ROLLBACK TO" -> SqlRollbackTo(d, n)
         [] op = "RELEASE"     -> SqlRelease(d, n)
         [] OTHER              -> {d}

\* Faulty variant: a failed block is not ended in SQLite.
SqliteAfterOnlyFromActive(op, n, prev, next, d) ==
  IF prev = "Idle" /\ next = "InTransaction" THEN {SqlBegin(d)}
  ELSE IF prev = "InTransaction" /\ next = "Idle"
       THEN {IF op = "ROLLBACK" THEN SqlRollback(d) ELSE SqlCommit(d)}
  ELSE CASE op = "SAVEPOINT"   -> {SqlSavepoint(d, n)}
         [] op = "ROLLBACK TO" -> SqlRollbackTo(d, n)
         [] op = "RELEASE"     -> SqlRelease(d, n)
         [] OTHER              -> {d}

\* Faulty variant: ROLLBACK TO changes the session only.
SqliteAfterForgetsRollbackTo(op, n, prev, next, d) ==
  IF prev = "Idle" /\ next = "InTransaction" THEN {SqlBegin(d)}
  ELSE IF prev # "Idle" /\ next = "Idle"
       THEN {IF op = "ROLLBACK" THEN SqlRollback(d) ELSE SqlCommit(d)}
  ELSE CASE op = "SAVEPOINT"   -> {SqlSavepoint(d, n)}
         [] op = "RELEASE"     -> SqlRelease(d, n)
         [] OTHER              -> {d}

\* The SQLite statement execute_query sends for a status change prev -> next.
SqliteAfter(op, n, prev, next, d) ==
  IF prev = "Idle" /\ next = "InTransaction" THEN {SqlBegin(d)}
  ELSE IF prev # "Idle" /\ next = "Idle"
       THEN {IF op = "ROLLBACK" THEN SqlRollback(d) ELSE SqlCommit(d)}
  ELSE CASE op = "SAVEPOINT"   -> {SqlSavepoint(d, n)}
         [] op = "ROLLBACK TO" -> SqlRollbackTo(d, n)
         [] op = "RELEASE"     -> SqlRelease(d, n)
         [] OTHER              -> {d}

-----------------------------------------------------------------------------
Init ==
  /\ \E role \in Roles, path \in Paths : session = NewSession(role, path)
  /\ conn = Free
  /\ db = EmptyDatabase
  /\ pc = [c \in Clients |-> "ready"]
  /\ frame = [c \in Clients |-> NoFrame]
  /\ block = {}
  /\ acked = {}

Goto(c, label) == pc' = [pc EXCEPT ![c] = label] /\ UNCHANGED frame

\* The reply is sent and the locals are gone.
Return(c) ==
  /\ pc' = [pc EXCEPT ![c] = "ready"]
  /\ frame' = [frame EXCEPT ![c] = NoFrame]

Enter(c, label, op, arg, prev, next) ==
  /\ pc' = [pc EXCEPT ![c] = label]
  /\ frame' = [frame EXCEPT ![c] = [op |-> op, arg |-> arg, prev |-> prev, next |-> next]]

MayStart(c) ==
  /\ pc[c] = "ready"
  /\ "overlap" \in Env \/ \A d \in Clients : pc[d] = "ready"

MaySend(c, op) == MayStart(c) /\ op \in Statements

\* What an ordinary client refrains from, unless Env says otherwise.
Ordinary(op) ==
  /\ op = "SAVEPOINT" =>
       /\ session.status = "Idle"    => "savepoint_when_idle" \in Env
       /\ session.status = "InError" => "savepoint_when_failed" \in Env
  /\ op = "RELEASE" /\ session.status = "InError" => "release_when_failed" \in Env
  /\ op = "COMMIT"  /\ session.status = "InError" => "commit_when_failed" \in Env
  /\ op = "DROP FUNCTION" /\ session.status = "InError" => "drop_when_failed" \in Env

(* Transaction control: clone and handle; SQLite under the mutex; insert. *)

ReadSession(c, op, n) ==
  /\ op \in Control
  /\ op = "SAVEPOINT" => /\ Len(session.savepoints) < MaxSavepoints
                         /\ Len(db.marks) < MaxSavepoints
  /\ Ordinary(op)
  /\ MaySend(c, op)
  /\ \E next \in Handle(op, n, session) : Enter(c, "apply", op, n, session.status, next)
  /\ UNCHANGED <<session, conn, db, block, acked>>

ApplyToSqlite(c) ==
  /\ pc[c] = "apply"
  /\ conn = Free
  /\ conn' = c
  /\ db' \in SqliteAfter(frame[c].op, frame[c].arg, frame[c].prev, frame[c].next.status, db)
  /\ Goto(c, "store")
  /\ UNCHANGED <<session, block, acked>>

\* `let _ = conn.execute("COMMIT", [])`: the reply does not tell.
CommitFails(c) ==
  /\ "commit_fails" \in Env
  /\ pc[c] = "apply"
  /\ frame[c].op = "COMMIT" /\ frame[c].prev # "Idle"
  /\ conn = Free
  /\ conn' = c
  /\ Goto(c, "store")
  /\ UNCHANGED <<session, db, block, acked>>

\* Faulty variant: the mutex stays held after the reply.
StoreSessionKeepsLock(c) ==
  /\ pc[c] = "store"
  /\ session' = frame[c].next
  /\ Return(c)
  /\ UNCHANGED <<conn, db, block, acked>>

\* sessions.insert(0, clone); then the reply.
StoreSession(c) ==
  /\ pc[c] = "store"
  /\ session' = frame[c].next
  /\ conn' = Free
  /\ block' = CASE frame[c].op = "BEGIN"                  -> block \cup {c}
                [] frame[c].op \in {"COMMIT", "ROLLBACK"} -> block \ {c}
                [] OTHER                                -> block
  /\ Return(c)
  /\ UNCHANGED <<db, acked>>

(* Data statements, SET ROLE and unrecognised control statements.  SET     *)
(* search_path and DROP FUNCTION are handled before the error check, in    *)
(* one step; DROP FUNCTION fails without failing its block.                *)

StartStatement(c, op, arg) ==
  /\ \/ op = "WRITE" /\ arg \in Rows \ db.view
     \/ op = "SET ROLE" /\ arg \in Roles
     \/ op \in RawControl /\ arg = Free
  /\ MaySend(c, op)
  /\ Enter(c, "check", op, arg, "Idle", Free)
  /\ UNCHANGED <<session, conn, db, block, acked>>

SetSearchPath(c, path) ==
  /\ MaySend(c, "SET SEARCH_PATH")
  /\ session' = [session EXCEPT !.search_path = path]
  /\ UNCHANGED <<conn, db, pc, frame, block, acked>>

DropFunction(c, r) ==
  /\ Ordinary("DROP FUNCTION")
  /\ MaySend(c, "DROP FUNCTION")
  /\ conn = Free
  /\ db' = SqlDelete(db, r)
  /\ acked' = acked \ {r}
  /\ UNCHANGED <<session, conn, pc, frame, block>>

CheckErrorState(c) ==
  /\ pc[c] = "check"
  /\ IF session.status = "InError" /\ frame[c].op # "ROLLBACK;"
       THEN Return(c)    \* 25P02
       ELSE Goto(c, "exec")
  /\ UNCHANGED <<session, conn, db, block, acked>>

\* Only the upper-case "NONE" is special in the code; the parser says "none",
\* which is a role name like any other.
SetRole(c) ==
  /\ pc[c] = "exec"
  /\ frame[c].op = "SET ROLE"
  /\ session' = [session EXCEPT !.current_user = frame[c].arg]
  /\ Return(c)
  /\ UNCHANGED <<conn, db, block, acked>>

Execute(c) ==
  /\ pc[c] = "exec"
  /\ frame[c].op = "WRITE"
  /\ conn = Free
  /\ db' = SqlInsert(db, frame[c].arg)
  /\ acked' = IF c \in block THEN acked ELSE acked \cup {frame[c].arg}
  /\ Return(c)
  /\ UNCHANGED <<session, conn, block>>

\* SQLite undoes the failed statement, and for some errors its transaction.
ExecuteFails(c) ==
  /\ pc[c] = "exec"
  /\ frame[c].op = "WRITE"
  /\ conn = Free
  /\ \/ UNCHANGED db
     \/ "auto_rollback" \in Env /\ db' = SqlRollback(db)
  /\ Goto(c, "fail")
  /\ UNCHANGED <<session, conn, block, acked>>

\* "begin", "commit", "rollback" reach SQLite as ordinary statements.
ExecuteRaw(c) ==
  /\ pc[c] = "exec"
  /\ frame[c].op \in RawControl
  /\ conn = Free
  /\ IF (frame[c].op = "BEGIN;") = (db.mode = "autocommit")
       THEN /\ db' = CASE frame[c].op = "BEGIN;"    -> SqlBegin(db)
                       [] frame[c].op = "COMMIT;"   -> SqlCommit(db)
                       [] frame[c].op = "ROLLBACK;" -> SqlRollback(db)
            /\ Return(c)
       ELSE UNCHANGED db /\ Goto(c, "fail")
  /\ UNCHANGED <<session, conn, block, acked>>

ReadForAbort(c) ==
  /\ pc[c] = "fail"
  /\ IF session.status = "InTransaction"
       THEN Enter(c, "abort", frame[c].op, frame[c].arg, "Idle",
                  [session EXCEPT !.status = "InError"])
       ELSE Return(c)
  /\ UNCHANGED <<session, conn, db, block, acked>>

StoreAbort(c) ==
  /\ pc[c] = "abort"
  /\ session' = frame[c].next
  /\ Return(c)
  /\ UNCHANGED <<conn, db, block, acked>>

(* A client that leaves is replaced by a new one; the server notices neither. *)
Disconnect(c) ==
  /\ "disconnect" \in Env
  /\ pc[c] = "ready"
  /\ c \in block
  /\ block' = block \ {c}
  /\ UNCHANGED <<session, conn, db, pc, frame, acked>>

\* The process ends and is started again; the first client names the user.
Crash ==
  /\ "crash" \in Env
  /\ \E role \in Roles, path \in Paths : session' = NewSession(role, path)
  /\ conn' = Free
  /\ db' = EndTransaction(db, db.durable)
  /\ pc' = [c \in Clients |-> "ready"]
  /\ frame' = [c \in Clients |-> NoFrame]
  /\ block' = {}
  /\ UNCHANGED <<acked>>

Request(c) ==
  \/ \E op \in Control, n \in Names : ReadSession(c, op, n)
  \/ \E r \in Rows : StartStatement(c, "WRITE", r)
  \/ \E role \in Roles : StartStatement(c, "SET ROLE", role)
  \/ \E op \in RawControl : StartStatement(c, op, Free)
  \/ \E path \in Paths : SetSearchPath(c, path)

Acquire(c)  == ApplyToSqlite(c) \/ CommitFails(c) \/ Execute(c) \/ ExecuteFails(c) \/ ExecuteRaw(c)
Continue(c) == StoreSession(c) \/ CheckErrorState(c) \/ SetRole(c)
               \/ ReadForAbort(c) \/ StoreAbort(c)

Next ==
  \/ Crash
  \/ \E c \in Clients :
       \/ Request(c) \/ Acquire(c) \/ Continue(c) \/ Disconnect(c)
       \/ \E r \in Rows : DropFunction(c, r)

Spec == Init /\ [][Next]_vars

-----------------------------------------------------------------------------
(* Properties *)

\* Types of the state.  The mutex is held only by a client about to insert its
\* clone, and outside a transaction SQLite holds nothing back.
TypeOK ==
  /\ session \in Session
  /\ conn \in Clients \cup {Free}
  /\ db \in Database(Names, Rows)
  /\ pc \in [Clients -> {"ready", "apply", "store", "check", "exec", "fail", "abort"}]
  /\ frame \in [Clients -> [op   : Statements \cup {"NONE"},
                            arg  : Names \cup Rows \cup Roles \cup {Free},
                            prev : Status,
                            next : Session \cup {Free}]]
  /\ block \subseteq Clients
  /\ acked \subseteq Rows
  /\ \A c \in Clients : pc[c] = "store" <=> conn = c
  /\ db.mode = "autocommit" => db.marks = <<>> /\ db.view = db.durable

\* The session the proxy acts on: the clone, while its insertion is pending.
Current == IF conn = Free THEN session ELSE frame[conn].next

\* The session is in a block exactly when SQLite is in a transaction
\* (TransactionStatus::Idle, "Not in a transaction").
StatusMirrorsSqlite == Current.status = "Idle" <=> db.mode = "autocommit"

\* The session's savepoints are SQLite's, in the same order: ROLLBACK TO and
\* RELEASE decide on the first and act on the second.
SavepointsMirrorSqlite == Current.savepoints = MarkNames(db.marks)

\* A row confirmed to a client that is not in a block is committed, so that
\* neither another client's ROLLBACK nor a restart can take it away; only who
\* asks for its deletion can.
AckedRowsAreDurable == acked \subseteq db.durable

\* Inserting a clone back changes no setting of the session: what SET stored
\* since the clone was taken is not lost, by the end of a block or its failure.
OnlySetChangesSettings ==
  [][ (\E c \in Clients : StoreSession(c) \/ StoreAbort(c))
        => UNCHANGED <<session.current_user, session.search_path>> ]_vars

\* While SQLite is in a transaction nothing becomes durable but by a COMMIT a
\* client sent, or by releasing the savepoint that opened the transaction.
OnlyCommitCommits ==
  [][ db.mode # "autocommit" /\ db'.durable # db.durable =>
        \E c \in Clients :
          \/ ApplyToSqlite(c) /\ frame[c].op = "COMMIT"
          \/ ExecuteRaw(c) /\ frame[c].op = "COMMIT;"
          \/ ApplyToSqlite(c) /\ frame[c].op = "RELEASE" /\ db.mode = "savepoint" ]_vars

\* What a failed block did is never made durable: the block "must ROLLBACK"
\* (TransactionStatus::InError).
FailedBlockCommitsNothing ==
  [][ Current.status = "InError" => db'.durable = db.durable ]_vars

\* To a single client the proxy is a PostgreSQL session.
PG == INSTANCE PgTransaction WITH
        blk <- Current.status, durable <- db.durable, view <- db.view, marks <- db.marks
IsPgTransaction == PG!Spec
=============================================================================
