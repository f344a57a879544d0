------------------------- MODULE TxnSession_proofs -------------------------
(***************************************************************************)
(* Theorems about TxnSession for every set of clients, names, rows, roles  *)
(* and paths, and every bound on the savepoints.                           *)
(***************************************************************************)
EXTENDS TxnSession, SequenceTheorems, TLAPS

Mark == [name : Names, view : SUBSET Rows]
DB   == Database(Names, Rows)

\* Outside a transaction SQLite holds nothing back.
Coherent(d) == d.mode = "autocommit" => d.marks = <<>> /\ d.view = d.durable

-----------------------------------------------------------------------------
(* Sequences *)

\* The names of a savepoint stack form a sequence of the same length.
LEMMA MarkNamesType ==
  ASSUME NEW m \in Seq(Mark)
  PROVE  /\ MarkNames(m) \in Seq(Names)
         /\ Len(MarkNames(m)) = Len(m)
         /\ \A i \in 1..Len(m) : MarkNames(m)[i] = m[i].name
<1>1. \A i \in 1..Len(m) : m[i] \in Mark
  BY ElementOfSeq
<1>2. MarkNames(m) \in [1..Len(m) -> Names]
  BY <1>1 DEF MarkNames, Mark
<1>3. Len(m) \in Nat
  OBVIOUS
<1>4. MarkNames(m) \in Seq(Names)
  BY <1>2, <1>3, SeqDef
<1>5. Len(MarkNames(m)) = Len(m)
  BY <1>2, <1>3, <1>4, LenProperties
<1>6. QED
  BY <1>4, <1>5 DEF MarkNames

\* A prefix of a sequence is a sequence over the same set.
LEMMA PrefixType ==
  ASSUME NEW S, NEW s \in Seq(S), NEW i \in 0..Len(s)
  PROVE  /\ SubSeq(s, 1, i) \in Seq(S)
         /\ Len(SubSeq(s, 1, i)) = i
         /\ \A j \in 1..i : SubSeq(s, 1, i)[j] = s[j]
<1>1. i \in Nat /\ Len(s) \in Nat /\ i <= Len(s)
  OBVIOUS
<1>2. \A j \in 1..i : s[j] \in S
  BY <1>1, ElementOfSeq
<1>3. QED
  BY <1>1, <1>2, SubSeqProperties

\* Cutting the stack cuts its names at the same place.
LEMMA MarkNamesPrefix ==
  ASSUME NEW m \in Seq(Mark), NEW i \in 0..Len(m)
  PROVE  MarkNames(SubSeq(m, 1, i)) = SubSeq(MarkNames(m), 1, i)
<1>1. /\ SubSeq(m, 1, i) \in Seq(Mark)
      /\ Len(SubSeq(m, 1, i)) = i
      /\ \A j \in 1..i : SubSeq(m, 1, i)[j] = m[j]
  BY PrefixType
<1>2. /\ MarkNames(m) \in Seq(Names)
      /\ Len(MarkNames(m)) = Len(m)
      /\ \A j \in 1..Len(m) : MarkNames(m)[j] = m[j].name
  BY MarkNamesType
<1>3. /\ SubSeq(MarkNames(m), 1, i) \in Seq(Names)
      /\ Len(SubSeq(MarkNames(m), 1, i)) = i
      /\ \A j \in 1..i : SubSeq(MarkNames(m), 1, i)[j] = MarkNames(m)[j]
  BY <1>2, PrefixType
<1>4. /\ MarkNames(SubSeq(m, 1, i)) \in Seq(Names)
      /\ Len(MarkNames(SubSeq(m, 1, i))) = i
      /\ \A j \in 1..i : MarkNames(SubSeq(m, 1, i))[j] = m[j].name
  BY <1>1, MarkNamesType
<1>5. \A j \in 1..i : MarkNames(SubSeq(m, 1, i))[j] = SubSeq(MarkNames(m), 1, i)[j]
  BY <1>2, <1>3, <1>4
<1>6. QED
  BY <1>3, <1>4, <1>5, SeqEqual

\* Pushing a savepoint pushes its name.
LEMMA MarkNamesAppend ==
  ASSUME NEW m \in Seq(Mark), NEW e \in Mark
  PROVE  MarkNames(Append(m, e)) = Append(MarkNames(m), e.name)
<1>1. /\ Append(m, e) \in Seq(Mark)
      /\ Len(Append(m, e)) = Len(m) + 1
      /\ \A j \in 1..Len(m) + 1 :
           Append(m, e)[j] = IF j = Len(m) + 1 THEN e ELSE m[j]
  OBVIOUS
<1>2. /\ MarkNames(m) \in Seq(Names)
      /\ Len(MarkNames(m)) = Len(m)
      /\ \A j \in 1..Len(m) : MarkNames(m)[j] = m[j].name
  BY MarkNamesType
<1>3. /\ MarkNames(Append(m, e)) \in Seq(Names)
      /\ Len(MarkNames(Append(m, e))) = Len(m) + 1
      /\ \A j \in 1..Len(m) + 1 : MarkNames(Append(m, e))[j] = Append(m, e)[j].name
  BY <1>1, MarkNamesType
<1>4. e.name \in Names
  BY DEF Mark
<1>5. /\ Append(MarkNames(m), e.name) \in Seq(Names)
      /\ Len(Append(MarkNames(m), e.name)) = Len(m) + 1
      /\ \A j \in 1..Len(m) + 1 :
           Append(MarkNames(m), e.name)[j] = IF j = Len(m) + 1 THEN e.name ELSE MarkNames(m)[j]
  BY <1>2, <1>4
<1>6. \A j \in 1..Len(m) + 1 :
        MarkNames(Append(m, e))[j] = Append(MarkNames(m), e.name)[j]
  BY <1>1, <1>2, <1>3, <1>5
<1>7. QED
  BY <1>3, <1>5, <1>6, SeqEqual

\* NewestMark yields positions of the sequence.
LEMMA NewestMarkRange ==
  ASSUME NEW s, NEW n, NEW i \in NewestMark(s, n)
  PROVE  i \in 1..Len(s)
BY DEF NewestMark

\* A name has one newest position.
LEMMA NewestMarkUnique ==
  ASSUME NEW S, NEW s \in Seq(S), NEW n, NEW i \in NewestMark(s, n), NEW j \in NewestMark(s, n)
  PROVE  i = j
<1>1. i \in 1..Len(s) /\ j \in 1..Len(s) /\ s[i] = n /\ s[j] = n /\ Len(s) \in Nat
      /\ (\A k \in (i+1)..Len(s) : s[k] # n) /\ (\A k \in (j+1)..Len(s) : s[k] # n)
  BY DEF NewestMark
<1>2. ~(i < j) /\ ~(j < i)
  BY <1>1
<1>3. QED
  BY <1>1, <1>2

-----------------------------------------------------------------------------
(* SQLite and the session keep their types *)

LEMMA EndTransactionType ==
  ASSUME NEW d \in DB, NEW rows \in SUBSET Rows
  PROVE  EndTransaction(d, rows) \in DB /\ Coherent(EndTransaction(d, rows))
BY DEF DB, Database, Modes, EndTransaction, Coherent

LEMMA CommitRollbackType ==
  ASSUME NEW d \in DB
  PROVE  /\ SqlCommit(d) \in DB /\ Coherent(SqlCommit(d))
         /\ SqlRollback(d) \in DB /\ Coherent(SqlRollback(d))
BY EndTransactionType DEF SqlCommit, SqlRollback, DB, Database

LEMMA InsertType ==
  ASSUME NEW d \in DB, Coherent(d), NEW r \in Rows
  PROVE  SqlInsert(d, r) \in DB /\ Coherent(SqlInsert(d, r))
BY DEF SqlInsert, DB, Database, Coherent, Modes

LEMMA DeleteType ==
  ASSUME NEW d \in DB, Coherent(d), NEW r \in Rows
  PROVE  SqlDelete(d, r) \in DB /\ Coherent(SqlDelete(d, r))
BY DEF SqlDelete, DB, Database, Coherent, Modes

LEMMA BeginType ==
  ASSUME NEW d \in DB, Coherent(d)
  PROVE  SqlBegin(d) \in DB /\ Coherent(SqlBegin(d))
BY DEF SqlBegin, DB, Database, Coherent, Modes

LEMMA SavepointType ==
  ASSUME NEW d \in DB, NEW n \in Names
  PROVE  SqlSavepoint(d, n) \in DB /\ Coherent(SqlSavepoint(d, n))
<1>1. d.marks \in Seq(Mark) /\ [name |-> n, view |-> d.view] \in Mark
  BY DEF DB, Database, Mark
<1>2. Append(d.marks, [name |-> n, view |-> d.view]) \in Seq(Mark)
  BY <1>1
<1>3. SqlSavepoint(d, n).mode # "autocommit"
  BY DEF SqlSavepoint, DB, Database
<1>4. SqlSavepoint(d, n) \in DB
  BY <1>2 DEF SqlSavepoint, DB, Database, Modes, Mark
<1>5. QED
  BY <1>3, <1>4 DEF Coherent

\* What ROLLBACK TO a savepoint that exists leaves.
LEMMA RollbackToShape ==
  ASSUME NEW d \in DB, NEW n \in Names, NEW e \in SqlRollbackTo(d, n)
  PROVE  \/ e = d /\ NewestMark(MarkNames(d.marks), n) = {}
         \/ \E i \in NewestMark(MarkNames(d.marks), n) :
              /\ i \in 1..Len(d.marks)
              /\ e = [d EXCEPT !.view = d.marks[i].view, !.marks = SubSeq(d.marks, 1, i)]
<1>1. d.marks \in Seq(Mark)
  BY DEF DB, Database, Mark
<1>2. Len(MarkNames(d.marks)) = Len(d.marks)
  BY <1>1, MarkNamesType
<1>3. \A i \in NewestMark(MarkNames(d.marks), n) : i \in 1..Len(d.marks)
  BY <1>2, NewestMarkRange
<1>4. QED
  BY <1>3 DEF SqlRollbackTo

LEMMA ReleaseShape ==
  ASSUME NEW d \in DB, NEW n \in Names, NEW e \in SqlRelease(d, n)
  PROVE  \/ e = d /\ NewestMark(MarkNames(d.marks), n) = {}
         \/ \E i \in NewestMark(MarkNames(d.marks), n) :
              /\ i \in 1..Len(d.marks)
              /\ e = IF i = 1 /\ d.mode = "savepoint" THEN SqlCommit(d)
                     ELSE [d EXCEPT !.marks = SubSeq(d.marks, 1, i - 1)]
<1>1. d.marks \in Seq(Mark)
  BY DEF DB, Database, Mark
<1>2. Len(MarkNames(d.marks)) = Len(d.marks)
  BY <1>1, MarkNamesType
<1>3. \A i \in NewestMark(MarkNames(d.marks), n) : i \in 1..Len(d.marks)
  BY <1>2, NewestMarkRange
<1>4. QED
  BY <1>3 DEF SqlRelease

LEMMA RollbackToType ==
  ASSUME NEW d \in DB, Coherent(d), NEW n \in Names, NEW e \in SqlRollbackTo(d, n)
  PROVE  e \in DB /\ Coherent(e)
<1>1. CASE e = d
  BY <1>1
<1>2. ASSUME NEW i \in 1..Len(d.marks),
             e = [d EXCEPT !.view = d.marks[i].view, !.marks = SubSeq(d.marks, 1, i)]
      PROVE  e \in DB /\ Coherent(e)
  <2>1. d.marks \in Seq(Mark)
    BY DEF DB, Database, Mark
  <2>2. d.marks[i] \in Mark /\ i \in 0..Len(d.marks) /\ d.marks # <<>>
    BY <2>1, ElementOfSeq
  <2>3. SubSeq(d.marks, 1, i) \in Seq(Mark)
    BY <2>1, <2>2, PrefixType
  <2>4. QED
    BY <1>2, <2>2, <2>3 DEF DB, Database, Mark, Coherent
<1>3. QED
  BY <1>1, <1>2, RollbackToShape

LEMMA ReleaseType ==
  ASSUME NEW d \in DB, Coherent(d), NEW n \in Names, NEW e \in SqlRelease(d, n)
  PROVE  e \in DB /\ Coherent(e)
<1>1. CASE e = d
  BY <1>1
<1>2. CASE e = SqlCommit(d)
  BY <1>2, CommitRollbackType
<1>3. ASSUME NEW i \in 1..Len(d.marks), e = [d EXCEPT !.marks = SubSeq(d.marks, 1, i - 1)]
      PROVE  e \in DB /\ Coherent(e)
  <2>1. d.marks \in Seq(Mark)
    BY DEF DB, Database, Mark
  <2>2. i - 1 \in 0..Len(d.marks) /\ d.marks # <<>>
    BY <2>1
  <2>3. SubSeq(d.marks, 1, i - 1) \in Seq(Mark)
    BY <2>1, <2>2, PrefixType
  <2>4. QED
    BY <1>3, <2>2, <2>3 DEF DB, Database, Mark, Coherent
<1>4. QED
  BY <1>1, <1>2, <1>3, ReleaseShape

LEMMA SqliteAfterType ==
  ASSUME NEW d \in DB, Coherent(d), NEW n \in Names,
         NEW op, NEW prev, NEW next, NEW e \in SqliteAfter(op, n, prev, next, d)
  PROVE  e \in DB /\ Coherent(e)
<1>1. \/ e = SqlBegin(d) \/ e = SqlCommit(d) \/ e = SqlRollback(d) \/ e = SqlSavepoint(d, n)
      \/ e \in SqlRollbackTo(d, n) \/ e \in SqlRelease(d, n) \/ e = d
  BY DEF SqliteAfter
<1>2. QED
  BY <1>1, BeginType, CommitRollbackType, SavepointType, RollbackToType, ReleaseType

\* Every control statement leaves a session.
LEMMA HandleType ==
  ASSUME NEW s \in Session, NEW op \in Control, NEW n \in Names, NEW t \in Handle(op, n, s)
  PROVE  t \in Session
<1>1. s.savepoints \in Seq(Names)
  BY DEF Session
<1>2. \A i \in NewestMark(s.savepoints, n) :
        /\ SubSeq(s.savepoints, 1, i) \in Seq(Names)
        /\ SubSeq(s.savepoints, 1, i - 1) \in Seq(Names)
  <2>1. TAKE i \in NewestMark(s.savepoints, n)
  <2>2. i \in 0..Len(s.savepoints) /\ i - 1 \in 0..Len(s.savepoints)
    BY <1>1, NewestMarkRange
  <2>3. QED
    BY <1>1, <2>2, PrefixType
<1>3. CASE op = "BEGIN"
  BY <1>3 DEF Handle, HandleBegin, Session, Status
<1>4. CASE op = "COMMIT"
  BY <1>4, EmptySeq DEF Handle, HandleCommit, Session, Status
<1>5. CASE op = "ROLLBACK"
  BY <1>5, EmptySeq DEF Handle, HandleRollback, Session, Status
<1>6. CASE op = "SAVEPOINT"
  BY <1>1, <1>6 DEF Handle, HandleSavepoint, Session, Status
<1>7. CASE op = "ROLLBACK TO"
  <2>1. t = s \/ \E i \in NewestMark(s.savepoints, n) :
          t = [s EXCEPT !.savepoints = SubSeq(s.savepoints, 1, i),
                        !.status = IF s.status = "InError" THEN "InTransaction" ELSE s.status]
    BY <1>7 DEF Handle, HandleRollbackTo
  <2>2. ASSUME NEW p \in Seq(Names), NEW u \in Status,
               t = [s EXCEPT !.savepoints = p, !.status = u]
        PROVE  t \in Session
    BY <2>2 DEF Session
  <2>3. (IF s.status = "InError" THEN "InTransaction" ELSE s.status) \in Status
    BY DEF Session, Status
  <2>4. QED
    BY <1>2, <2>1, <2>2, <2>3
<1>8. CASE op = "RELEASE"
  <2>1. t = s \/ \E i \in NewestMark(s.savepoints, n) :
          t = [s EXCEPT !.savepoints = SubSeq(s.savepoints, 1, i - 1)]
    BY <1>8 DEF Handle, HandleRelease
  <2>2. QED
    BY <1>2, <2>1 DEF Session, Status
<1>9. QED
  BY <1>3, <1>4, <1>5, <1>6, <1>7, <1>8 DEF Control

-----------------------------------------------------------------------------
(* Type correctness, in every environment *)

\* What the locals of a client hold at each position.
FrameOK ==
  \A c \in Clients :
    /\ pc[c] \in {"apply", "store", "abort"} => frame[c].next \in Session
    /\ pc[c] \in {"apply", "store"} => frame[c].op \in Control /\ frame[c].arg \in Names
    /\ pc[c] \in {"check", "exec", "fail"} /\ frame[c].op = "WRITE" => frame[c].arg \in Rows
    /\ pc[c] \in {"check", "exec", "fail"} /\ frame[c].op = "SET ROLE" => frame[c].arg \in Roles

TypeInv == TypeOK /\ FrameOK

Frames == [op : Statements \cup {"NONE"}, arg : Names \cup Rows \cup Roles \cup {Free},
           prev : Status, next : Session \cup {Free}]

LEMMA NewSessionType ==
  ASSUME NEW role \in Roles, NEW path \in Paths
  PROVE  NewSession(role, path) \in Session
BY EmptySeq DEF NewSession, Session, Status

LEMMA InitTypeInv == Init => TypeInv
<1> SUFFICES ASSUME Init PROVE TypeInv
  OBVIOUS
<1>1. session \in Session
  BY NewSessionType DEF Init
<1>2. db \in Database(Names, Rows) /\ db.marks = <<>> /\ db.view = db.durable
  BY EmptySeq DEF Init, EmptyDatabase, Database, Modes
<1>3. frame \in [Clients -> Frames]
  BY DEF Init, Frames, NoFrame, Status
<1>4. FrameOK
  BY DEF Init, FrameOK
<1>5. QED
  BY <1>1, <1>2, <1>3, <1>4, ConstantsAssumption DEF Init, TypeInv, TypeOK, Frames

\* One step of a request, with the state it leaves alone.
LEMMA NextTypeInv == TypeInv /\ [Next]_vars => TypeInv'
<1> SUFFICES ASSUME TypeInv, [Next]_vars PROVE TypeInv'
  OBVIOUS
<1> USE ConstantsAssumption DEF Frames
<1>t. /\ session \in Session /\ conn \in Clients \cup {Free} /\ db \in DB /\ Coherent(db)
      /\ pc \in [Clients -> {"ready", "apply", "store", "check", "exec", "fail", "abort"}]
      /\ frame \in [Clients -> Frames]
      /\ block \subseteq Clients /\ acked \subseteq Rows
      /\ \A c \in Clients : pc[c] = "store" <=> conn = c
      /\ FrameOK
  BY DEF TypeInv, TypeOK, DB, Coherent
<1>g. ASSUME session' \in Session, conn' \in Clients \cup {Free}, db' \in DB, Coherent(db'),
             pc' \in [Clients -> {"ready", "apply", "store", "check", "exec", "fail", "abort"}],
             frame' \in [Clients -> Frames],
             block' \subseteq Clients, acked' \subseteq Rows,
             \A c \in Clients : pc'[c] = "store" <=> conn' = c,
             FrameOK'
      PROVE  TypeInv'
  BY <1>g DEF TypeInv, TypeOK, DB, Coherent
<1>n. NoFrame \in Frames
  BY DEF NoFrame, Status
<1>1. CASE Crash
  <2>1. session' \in Session
    BY <1>1, NewSessionType DEF Crash
  <2>2. db' \in DB /\ Coherent(db')
    BY <1>1, <1>t, EndTransactionType DEF Crash, DB, Database
  <2>3. frame' \in [Clients -> Frames] /\ FrameOK'
    BY <1>1, <1>n DEF Crash, FrameOK
  <2>4. QED
    BY <1>1, <1>t, <1>g, <2>1, <2>2, <2>3 DEF Crash
<1>2. ASSUME NEW c \in Clients, Request(c) PROVE TypeInv'
  <2>1. ASSUME NEW op \in Control, NEW n \in Names, ReadSession(c, op, n) PROVE TypeInv'
    <3>1. PICK next \in Handle(op, n, session) : Enter(c, "apply", op, n, session.status, next)
      BY <2>1 DEF ReadSession
    <3>2. next \in Session /\ session.status \in Status
      BY <1>t, HandleType DEF Session
    <3>3. [op |-> op, arg |-> n, prev |-> session.status, next |-> next] \in Frames
      BY <2>1, <3>2 DEF ReadSession, MaySend
    <3>4. pc[c] = "ready"
      BY <2>1 DEF ReadSession, MaySend, MayStart
    <3>5. FrameOK'
      BY <1>t, <3>1, <3>2 DEF Enter, FrameOK
    <3>6. QED
      BY <1>t, <1>g, <2>1, <3>1, <3>3, <3>4, <3>5 DEF ReadSession, Enter
  <2>2. ASSUME NEW op \in {"WRITE", "SET ROLE"} \cup RawControl,
               NEW arg \in Rows \cup Roles \cup {Free}, StartStatement(c, op, arg)
        PROVE  TypeInv'
    <3>1. [op |-> op, arg |-> arg, prev |-> "Idle", next |-> Free] \in Frames
      BY <2>2 DEF StartStatement, MaySend, Status
    <3>2. pc[c] = "ready" /\ Enter(c, "check", op, arg, "Idle", Free)
      BY <2>2 DEF StartStatement, MaySend, MayStart
    <3>3. /\ op = "WRITE" => arg \in Rows
          /\ op = "SET ROLE" => arg \in Roles
          /\ UNCHANGED <<session, conn, db, block, acked>>
      BY <2>2 DEF StartStatement, RawControl
    <3>4. FrameOK'
      BY <1>t, <3>2, <3>3 DEF Enter, FrameOK
    <3>5. QED
      BY <1>t, <1>g, <3>1, <3>2, <3>3, <3>4 DEF Enter
  <2>3. ASSUME NEW path \in Paths, SetSearchPath(c, path) PROVE TypeInv'
    <3>1. session' \in Session
      BY <1>t, <2>3 DEF SetSearchPath, Session
    <3>2. QED
      BY <1>t, <1>g, <2>3, <3>1 DEF SetSearchPath, FrameOK
  <2>4. QED
    BY <1>2, <2>1, <2>2, <2>3 DEF Request
<1>3. ASSUME NEW c \in Clients, Acquire(c) PROVE TypeInv'
  <2>1. CASE ApplyToSqlite(c)
    <3>1. db' \in DB /\ Coherent(db')
      BY <1>t, <2>1, SqliteAfterType DEF ApplyToSqlite, FrameOK
    <3>2. QED
      BY <1>t, <1>g, <2>1, <3>1 DEF ApplyToSqlite, Goto, FrameOK
  <2>2. CASE Execute(c)
    <3>1. db' \in DB /\ Coherent(db') /\ acked' \subseteq Rows
      BY <1>t, <2>2, InsertType DEF Execute, FrameOK
    <3>2. QED
      BY <1>t, <1>g, <1>n, <2>2, <3>1 DEF Execute, Return, FrameOK
  <2>3. CASE ExecuteFails(c)
    <3>1. db' \in DB /\ Coherent(db')
      BY <1>t, <2>3, CommitRollbackType, ZenonT(60) DEF ExecuteFails
    <3>2. QED
      BY <1>t, <1>g, <2>3, <3>1 DEF ExecuteFails, Goto, FrameOK
  <2>4. CASE ExecuteRaw(c)
    <3>1. db' \in DB /\ Coherent(db')
      BY <1>t, <2>4, CommitRollbackType, BeginType, ZenonT(60) DEF ExecuteRaw, RawControl
    <3>2. CASE Return(c)
      BY <1>t, <1>g, <1>n, <2>4, <3>1, <3>2, ZenonT(60) DEF ExecuteRaw, Return, FrameOK
    <3>3. CASE Goto(c, "fail")
      BY <1>t, <1>g, <2>4, <3>1, <3>3 DEF ExecuteRaw, Goto, FrameOK
    <3>4. QED
      BY <2>4, <3>2, <3>3 DEF ExecuteRaw
  <2>5. CASE CommitFails(c)
    BY <1>t, <1>g, <2>5 DEF CommitFails, Goto, FrameOK
  <2>6. QED
    BY <1>3, <2>1, <2>2, <2>3, <2>4, <2>5 DEF Acquire
<1>4. ASSUME NEW c \in Clients, Continue(c) PROVE TypeInv'
  <2>1. CASE StoreSession(c)
    <3>1. session' \in Session /\ block' \subseteq Clients
      BY <1>t, <2>1 DEF StoreSession, FrameOK
    <3>2. QED
      BY <1>t, <1>g, <1>n, <2>1, <3>1, ZenonT(60) DEF StoreSession, Return, FrameOK
  <2>2. CASE CheckErrorState(c)
    <3>1. CASE Return(c)
      BY <1>t, <1>g, <1>n, <2>2, <3>1 DEF CheckErrorState, Return, FrameOK
    <3>2. CASE Goto(c, "exec")
      BY <1>t, <1>g, <2>2, <3>2 DEF CheckErrorState, Goto, FrameOK
    <3>3. QED
      BY <2>2, <3>1, <3>2 DEF CheckErrorState
  <2>3. CASE SetRole(c)
    <3>1. session' \in Session
      BY <1>t, <2>3 DEF SetRole, Session, FrameOK
    <3>2. QED
      BY <1>t, <1>g, <1>n, <2>3, <3>1 DEF SetRole, Return, FrameOK
  <2>4. CASE ReadForAbort(c)
    <3>1. [session EXCEPT !.status = "InError"] \in Session
      BY <1>t DEF Session, Status
    <3>2. CASE Return(c)
      BY <1>t, <1>g, <1>n, <2>4, <3>2 DEF ReadForAbort, Return, FrameOK
    <3>3. CASE Enter(c, "abort", frame[c].op, frame[c].arg, "Idle",
                     [session EXCEPT !.status = "InError"])
      <4>1. [op |-> frame[c].op, arg |-> frame[c].arg, prev |-> "Idle",
             next |-> [session EXCEPT !.status = "InError"]] \in Frames
        BY <1>t, <3>1 DEF Status
      <4>2. FrameOK'
        BY <1>t, <3>1, <3>3 DEF Enter, FrameOK
      <4>3. QED
        BY <1>t, <1>g, <2>4, <3>3, <4>1, <4>2 DEF ReadForAbort, Enter
    <3>4. QED
      BY <2>4, <3>2, <3>3 DEF ReadForAbort
  <2>5. CASE StoreAbort(c)
    <3>1. session' \in Session
      BY <1>t, <2>5 DEF StoreAbort, FrameOK
    <3>2. QED
      BY <1>t, <1>g, <1>n, <2>5, <3>1 DEF StoreAbort, Return, FrameOK
  <2>6. QED
    BY <1>4, <2>1, <2>2, <2>3, <2>4, <2>5 DEF Continue
<1>5. ASSUME NEW c \in Clients, Disconnect(c) PROVE TypeInv'
  BY <1>t, <1>g, <1>5 DEF Disconnect, FrameOK
<1>6. ASSUME NEW c \in Clients, NEW r \in Rows, DropFunction(c, r) PROVE TypeInv'
  BY <1>t, <1>g, <1>6, DeleteType DEF DropFunction, FrameOK
<1>7. CASE UNCHANGED vars
  BY <1>t, <1>g, <1>7 DEF vars, FrameOK
<1>8. QED
  BY <1>1, <1>2, <1>3, <1>4, <1>5, <1>6, <1>7 DEF Next

\* The state of the proxy and of its SQLite connection keeps its type, the
\* mutex is held only by a client about to insert its session, and SQLite
\* holds nothing back outside a transaction, whatever the clients do.
THEOREM TypeCorrect == Spec => []TypeOK
<1>1. TypeInv => TypeOK
  BY DEF TypeInv
<1>2. QED
  BY <1>1, InitTypeInv, NextTypeInv, PTL DEF Spec

-----------------------------------------------------------------------------
(* Durability: only COMMIT commits, in every environment *)

\* A control statement that leaves a block is COMMIT or ROLLBACK.
LEMMA LeavesBlock ==
  ASSUME NEW s \in Session, NEW op \in Control, NEW n \in Names, NEW t \in Handle(op, n, s),
         s.status # "Idle", t.status = "Idle"
  PROVE  op \in {"COMMIT", "ROLLBACK"}
<1>1. CASE op = "BEGIN"
  BY <1>1 DEF Handle, HandleBegin, Session, Status
<1>2. CASE op = "SAVEPOINT"
  BY <1>2 DEF Handle, HandleSavepoint, Session
<1>3. CASE op = "ROLLBACK TO"
  <2>1. t = s \/ \E i \in NewestMark(s.savepoints, n) :
          t = [s EXCEPT !.savepoints = SubSeq(s.savepoints, 1, i),
                        !.status = IF s.status = "InError" THEN "InTransaction" ELSE s.status]
    BY <1>3 DEF Handle, HandleRollbackTo
  <2>2. t.status = s.status \/ t.status = "InTransaction"
    BY <2>1 DEF Session
  <2>3. QED
    BY <2>2
<1>4. CASE op = "RELEASE"
  BY <1>4 DEF Handle, HandleRelease, Session
<1>5. QED
  BY <1>1, <1>2, <1>3, <1>4 DEF Control

ApplyOK ==
  \A c \in Clients :
    pc[c] = "apply" /\ frame[c].prev # "Idle" /\ frame[c].next.status = "Idle"
      => frame[c].op \in {"COMMIT", "ROLLBACK"}

LEMMA NextApplyOK == TypeInv /\ ApplyOK /\ [Next]_vars => ApplyOK'
<1> SUFFICES ASSUME TypeInv, ApplyOK, [Next]_vars PROVE ApplyOK'
  OBVIOUS
<1>t. session \in Session /\ pc \in [Clients -> {"ready", "apply", "store", "check", "exec", "fail", "abort"}]
      /\ frame \in [Clients -> Frames]
  BY DEF TypeInv, TypeOK, Frames
<1>1. ASSUME NEW c \in Clients, NEW l, NEW op, NEW arg, NEW prev, NEW next,
             Enter(c, l, op, arg, prev, next),
             l = "apply" /\ prev # "Idle" /\ next.status = "Idle" => op \in {"COMMIT", "ROLLBACK"}
      PROVE  ApplyOK'
  BY <1>t, <1>1 DEF Enter, ApplyOK, Frames
<1>2. ASSUME NEW c \in Clients, Return(c) PROVE ApplyOK'
  BY <1>t, <1>2 DEF Return, ApplyOK
<1>3. ASSUME NEW c \in Clients, NEW l \in {"store", "exec", "fail"}, Goto(c, l) PROVE ApplyOK'
  BY <1>t, <1>3 DEF Goto, ApplyOK
<1>4. ASSUME UNCHANGED <<pc, frame>> PROVE ApplyOK'
  BY <1>4 DEF ApplyOK
<1>5. ASSUME NEW c \in Clients, NEW op \in Control, NEW n \in Names, ReadSession(c, op, n)
      PROVE  ApplyOK'
  <2>1. PICK next \in Handle(op, n, session) : Enter(c, "apply", op, n, session.status, next)
    BY <1>5 DEF ReadSession
  <2>2. QED
    BY <1>1, <1>t, <2>1, LeavesBlock
<1>6. ASSUME NEW c \in Clients, Request(c) PROVE ApplyOK'
  BY <1>1, <1>4, <1>5, <1>6 DEF Request, StartStatement, SetSearchPath
<1>7. ASSUME NEW c \in Clients, Acquire(c) PROVE ApplyOK'
  BY <1>2, <1>3, <1>7 DEF Acquire, ApplyToSqlite, CommitFails, Execute, ExecuteFails, ExecuteRaw
<1>8. ASSUME NEW c \in Clients, Continue(c) PROVE ApplyOK'
  BY <1>1, <1>2, <1>3, <1>8
     DEF Continue, StoreSession, CheckErrorState, SetRole, ReadForAbort, StoreAbort
<1>9. QED
  BY <1>4, <1>6, <1>7, <1>8 DEF Next, Crash, Disconnect, DropFunction, ApplyOK, vars

\* What a control statement does to the committed rows of an open transaction.
LEMMA ApplyDurable ==
  ASSUME NEW d \in DB, d.mode # "autocommit", NEW n \in Names, NEW op \in Control,
         NEW prev, NEW next, NEW e \in SqliteAfter(op, n, prev, next, d),
         prev # "Idle" /\ next = "Idle" => op \in {"COMMIT", "ROLLBACK"},
         e.durable # d.durable
  PROVE  op = "COMMIT" \/ (op = "RELEASE" /\ d.mode = "savepoint")
<1>1. SqlBegin(d).durable = d.durable /\ SqlRollback(d).durable = d.durable
      /\ SqlSavepoint(d, n).durable = d.durable
  BY DEF SqlBegin, SqlRollback, SqlSavepoint, EndTransaction, DB, Database
<1>2. \A x \in SqlRollbackTo(d, n) : x.durable = d.durable
  <2>1. TAKE x \in SqlRollbackTo(d, n)
  <2>2. \/ x = d /\ NewestMark(MarkNames(d.marks), n) = {}
        \/ \E i \in NewestMark(MarkNames(d.marks), n) :
             /\ i \in 1..Len(d.marks)
             /\ x = [d EXCEPT !.view = d.marks[i].view, !.marks = SubSeq(d.marks, 1, i)]
    BY RollbackToShape, ZenonT(60)
  <2>3. QED
    BY <2>2 DEF DB, Database
<1>3. \A x \in SqlRelease(d, n) : d.mode # "savepoint" => x.durable = d.durable
  <2>1. TAKE x \in SqlRelease(d, n)
  <2>2. HAVE d.mode # "savepoint"
  <2>3. x = d \/ \E i \in NewestMark(MarkNames(d.marks), n) :
          x = [d EXCEPT !.marks = SubSeq(d.marks, 1, i - 1)]
    BY <2>2, ReleaseShape
  <2>4. QED
    BY <2>3 DEF DB, Database
<1>4. QED
  BY <1>1, <1>2, <1>3 DEF SqliteAfter, Control

LEMMA StepCommits ==
  ASSUME TypeInv, ApplyOK, [Next]_vars, db.mode # "autocommit", db'.durable # db.durable
  PROVE  \E c \in Clients :
           \/ ApplyToSqlite(c) /\ frame[c].op = "COMMIT"
           \/ ExecuteRaw(c) /\ frame[c].op = "COMMIT;"
           \/ ApplyToSqlite(c) /\ frame[c].op = "RELEASE" /\ db.mode = "savepoint"
<1>t. db \in DB
  BY DEF TypeInv, TypeOK, DB
<1>1. ~Crash
  BY DEF Crash, EndTransaction
<1>2. db' # db
  OBVIOUS
<1>3. ASSUME NEW c \in Clients PROVE ~Request(c) /\ ~Continue(c) /\ ~Disconnect(c)
  BY <1>2 DEF Request, ReadSession, StartStatement, SetSearchPath, Disconnect,
              Continue, StoreSession, CheckErrorState, SetRole, ReadForAbort, StoreAbort
<1>4. ASSUME NEW c \in Clients PROVE ~Execute(c) /\ ~ExecuteFails(c) /\ ~CommitFails(c)
  <2>1. \A r : SqlInsert(db, r).durable = db.durable
    BY <1>t DEF SqlInsert, DB, Database
  <2>2. SqlRollback(db).durable = db.durable
    BY DEF SqlRollback, EndTransaction
  <2>3. QED
    BY <1>2, <2>1, <2>2 DEF Execute, ExecuteFails, CommitFails
<1>5. ASSUME NEW c \in Clients, ExecuteRaw(c) PROVE frame[c].op = "COMMIT;"
  <2>1. SqlBegin(db).durable = db.durable /\ SqlRollback(db).durable = db.durable
    BY <1>t DEF SqlBegin, SqlRollback, EndTransaction, DB, Database
  <2>2. \/ db' = db
        \/ frame[c].op = "BEGIN;" /\ db' = SqlBegin(db)
        \/ frame[c].op = "COMMIT;"
        \/ frame[c].op = "ROLLBACK;" /\ db' = SqlRollback(db)
    BY <1>5 DEF ExecuteRaw, RawControl
  <2>3. QED
    BY <2>1, <2>2
<1>6. ASSUME NEW c \in Clients, ApplyToSqlite(c)
      PROVE  frame[c].op = "COMMIT" \/ (frame[c].op = "RELEASE" /\ db.mode = "savepoint")
  <2>1. pc[c] = "apply" /\ frame[c].op \in Control /\ frame[c].arg \in Names
    BY <1>6 DEF ApplyToSqlite, TypeInv, FrameOK
  <2>2. db' \in SqliteAfter(frame[c].op, frame[c].arg, frame[c].prev, frame[c].next.status, db)
    BY <1>6 DEF ApplyToSqlite
  <2>3. frame[c].prev # "Idle" /\ frame[c].next.status = "Idle"
          => frame[c].op \in {"COMMIT", "ROLLBACK"}
    BY <2>1 DEF ApplyOK
  <2>4. QED
    BY <1>t, <2>1, <2>2, <2>3, ApplyDurable
<1>7. ~UNCHANGED vars
  BY <1>2 DEF vars
<1>d. ASSUME NEW c \in Clients, NEW r \in Rows PROVE ~DropFunction(c, r)
  BY <1>t DEF DropFunction, SqlDelete, DB, Database
<1>8. PICK c \in Clients : Acquire(c)
  BY <1>1, <1>3, <1>7, <1>d DEF Next
<1>9. QED
  BY <1>4, <1>5, <1>6, <1>8 DEF Acquire

\* While SQLite is in a transaction, rows become durable only by a COMMIT that
\* a client sent or by the release of the savepoint that opened the
\* transaction: no interleaving of the clients, no stale clone, failure or
\* restart commits what nobody asked to commit.
THEOREM CommitsAreAsked == Spec => OnlyCommitCommits
<1>1. Init => ApplyOK
  BY DEF Init, ApplyOK
<1>2. TypeInv /\ ApplyOK /\ [Next]_vars =>
        [ db.mode # "autocommit" /\ db'.durable # db.durable =>
          \E c \in Clients :
            \/ ApplyToSqlite(c) /\ frame[c].op = "COMMIT"
            \/ ExecuteRaw(c) /\ frame[c].op = "COMMIT;"
            \/ ApplyToSqlite(c) /\ frame[c].op = "RELEASE" /\ db.mode = "savepoint" ]_vars
  BY StepCommits
<1>3. QED
  BY <1>1, <1>2, InitTypeInv, NextTypeInv, NextApplyOK, PTL DEF Spec, OnlyCommitCommits

-----------------------------------------------------------------------------
(* The session mirrors SQLite, when requests do not overlap *)

\* One request at a time, SAVEPOINT only in a block, control statements spelled
\* as the proxy recognises them, no transaction ended by SQLite itself and no
\* COMMIT refused by it.
SerialUse ==
  /\ Env \cap {"overlap", "savepoint_when_idle", "auto_rollback", "commit_fails"} = {}
  /\ Statements \cap RawControl = {}

Mirror(s, d) ==
  /\ s.status = "Idle" <=> d.mode = "autocommit"
  /\ d.mode # "savepoint"
  /\ s.savepoints = MarkNames(d.marks)

\* The clone a client holds is what its statement makes of the session, which
\* has not changed since: nobody else is at work.
MirrorInv ==
  /\ \A c, d \in Clients : pc[c] # "ready" /\ pc[d] # "ready" => c = d
  /\ Mirror(Current, db)
  /\ \A c \in Clients : pc[c] = "apply" =>
       /\ frame[c].prev = session.status
       /\ frame[c].next \in Handle(frame[c].op, frame[c].arg, session)
       /\ frame[c].op = "SAVEPOINT" => session.status # "Idle"
  /\ \A c \in Clients : pc[c] = "abort" =>
       /\ session.status = "InTransaction"
       /\ frame[c].next = [session EXCEPT !.status = "InError"]

LEMMA MirrorEmpty ==
  ASSUME NEW s \in Session, NEW d \in DB,
         s.status = "Idle", s.savepoints = <<>>, d.mode = "autocommit", d.marks = <<>>
  PROVE  Mirror(s, d)
<1>1. d.marks \in Seq(Mark) /\ Len(d.marks) = 0
  BY EmptySeq DEF DB, Database, Mark
<1>2. MarkNames(d.marks) \in Seq(Names) /\ Len(MarkNames(d.marks)) = 0
  BY <1>1, MarkNamesType
<1>3. MarkNames(d.marks) = <<>>
  BY <1>2, EmptySeq
<1>4. QED
  BY <1>3 DEF Mirror

\* A control statement takes a session and the SQLite connection it mirrors to
\* a session and the connection that one mirrors.
LEMMA MirrorStep ==
  ASSUME NEW s \in Session, NEW d \in DB, Coherent(d), Mirror(s, d),
         NEW op \in Control, NEW n \in Names, op = "SAVEPOINT" => s.status # "Idle",
         NEW t \in Handle(op, n, s), NEW e \in SqliteAfter(op, n, s.status, t.status, d)
  PROVE  Mirror(t, e)
<1>1. t \in Session /\ e \in DB /\ d.marks \in Seq(Mark) /\ s.savepoints \in Seq(Names)
  BY HandleType, SqliteAfterType DEF DB, Database, Mark, Session
<1>2. s.savepoints = MarkNames(d.marks) /\ d.mode # "savepoint"
      /\ (s.status = "Idle" <=> d.mode = "autocommit") /\ s.status \in Status
  BY DEF Mirror, Session
<1>3. CASE op = "BEGIN"
  <2>1. t = HandleBegin(s)
    BY <1>3 DEF Handle
  <2>2. CASE s.status = "Idle"
    <3>1. t.status = "InTransaction" /\ t.savepoints = s.savepoints
      BY <2>1, <2>2 DEF HandleBegin, Session
    <3>2. e = SqlBegin(d)
      BY <2>2, <3>1 DEF SqliteAfter
    <3>3. QED
      BY <1>2, <2>2, <3>1, <3>2 DEF SqlBegin, Mirror, DB, Database
  <2>3. CASE s.status # "Idle"
    <3>1. t.status = s.status /\ t.savepoints = s.savepoints
      BY <2>1, <2>3 DEF HandleBegin, Session
    <3>2. e = d
      BY <1>3, <2>3, <3>1 DEF SqliteAfter
    <3>3. QED
      BY <1>2, <3>1, <3>2 DEF Mirror
  <2>4. QED
    BY <2>2, <2>3
<1>4. CASE op \in {"COMMIT", "ROLLBACK"}
  <2>1. t.status = "Idle"
    BY <1>4 DEF Handle, HandleCommit, HandleRollback, Session
  <2>2. CASE s.status = "Idle"
    <3>1. e = d
      BY <1>4, <2>1, <2>2 DEF SqliteAfter
    <3>2. d.marks = <<>> /\ d.mode = "autocommit"
      BY <1>2, <2>2 DEF Coherent
    <3>3. Len(d.marks) = 0
      BY <3>2, EmptySeq
    <3>4. Len(s.savepoints) = 0
      BY <1>1, <1>2, <3>3, MarkNamesType
    <3>5. s.savepoints = <<>>
      BY <1>1, <3>4, EmptySeq
    <3>6. t.savepoints = <<>>
      BY <1>4, <2>2, <3>5 DEF Handle, HandleCommit, HandleRollback, Session
    <3>7. QED
      BY <1>1, <2>1, <3>1, <3>2, <3>6, MirrorEmpty
  <2>3. CASE s.status # "Idle"
    <3>1. t.savepoints = <<>>
      BY <1>4, <2>3 DEF Handle, HandleCommit, HandleRollback, Session
    <3>2. e = SqlCommit(d) \/ e = SqlRollback(d)
      BY <2>1, <2>3 DEF SqliteAfter
    <3>3. e.mode = "autocommit" /\ e.marks = <<>>
      BY <3>2 DEF SqlCommit, SqlRollback, EndTransaction
    <3>4. QED
      BY <1>1, <2>1, <3>1, <3>3, MirrorEmpty
  <2>4. QED
    BY <2>2, <2>3
<1>5. CASE op = "SAVEPOINT"
  <2>1. t = HandleSavepoint(s, n)
    BY <1>5 DEF Handle
  <2>2. t.status = s.status /\ s.status # "Idle" /\ t.savepoints = Append(s.savepoints, n)
    BY <1>5, <2>1 DEF HandleSavepoint, Session
  <2>3. e = SqlSavepoint(d, n)
    BY <1>5, <2>2 DEF SqliteAfter
  <2>4. [name |-> n, view |-> d.view] \in Mark
    BY DEF DB, Database, Mark
  <2>5. e.mode = d.mode /\ e.marks = Append(d.marks, [name |-> n, view |-> d.view])
    BY <1>2, <2>2, <2>3 DEF SqlSavepoint, DB, Database
  <2>6. MarkNames(e.marks) = Append(MarkNames(d.marks), n)
    BY <1>1, <2>4, <2>5, MarkNamesAppend
  <2>7. QED
    BY <1>2, <2>2, <2>5, <2>6 DEF Mirror
<1>6. CASE op = "ROLLBACK TO"
  <2>1. t.status = "Idle" <=> s.status = "Idle"
    <3>1. t = s \/ \E i \in NewestMark(s.savepoints, n) :
            t = [s EXCEPT !.savepoints = SubSeq(s.savepoints, 1, i),
                          !.status = IF s.status = "InError" THEN "InTransaction" ELSE s.status]
      BY <1>6 DEF Handle, HandleRollbackTo
    <3>2. t.status = s.status \/ (s.status = "InError" /\ t.status = "InTransaction")
      BY <3>1 DEF Session
    <3>3. QED
      BY <3>2
  <2>2. e \in SqlRollbackTo(d, n)
    BY <1>6, <2>1 DEF SqliteAfter
  <2>3. CASE NewestMark(s.savepoints, n) = {}
    <3>1. t = s
      BY <1>6, <2>3 DEF Handle, HandleRollbackTo
    <3>2. e = d
      BY <1>2, <2>2, <2>3 DEF SqlRollbackTo
    <3>3. QED
      BY <3>1, <3>2
  <2>4. ASSUME NEW i \in NewestMark(s.savepoints, n) PROVE Mirror(t, e)
    <3>1. PICK j \in NewestMark(s.savepoints, n) :
            t = [s EXCEPT !.savepoints = SubSeq(s.savepoints, 1, j),
                          !.status = IF s.status = "InError" THEN "InTransaction" ELSE s.status]
      BY <1>6, <2>4 DEF Handle, HandleRollbackTo
    <3>2. PICK k \in NewestMark(MarkNames(d.marks), n) :
            /\ k \in 1..Len(d.marks)
            /\ e = [d EXCEPT !.view = d.marks[k].view, !.marks = SubSeq(d.marks, 1, k)]
      <4>1. NewestMark(MarkNames(d.marks), n) # {}
        BY <1>2, <2>4 DEF Mirror
      <4>2. \/ e = d /\ NewestMark(MarkNames(d.marks), n) = {}
            \/ \E k \in NewestMark(MarkNames(d.marks), n) :
                 /\ k \in 1..Len(d.marks)
                 /\ e = [d EXCEPT !.view = d.marks[k].view, !.marks = SubSeq(d.marks, 1, k)]
        BY ONLY <2>2, d \in DB, n \in Names, RollbackToShape, ZenonT(60)
      <4>3. QED
        BY <4>1, <4>2, Zenon
    <3>3. j = k
      BY <1>1, <1>2, <3>1, <3>2, NewestMarkUnique
    <3>4. t.savepoints = SubSeq(s.savepoints, 1, k)
      BY <3>1, <3>3 DEF Session
    <3>5. e.mode = d.mode /\ e.marks = SubSeq(d.marks, 1, k)
      BY <3>2 DEF DB, Database
    <3>6. MarkNames(e.marks) = SubSeq(MarkNames(d.marks), 1, k)
      BY <1>1, <3>2, <3>5, MarkNamesPrefix
    <3>7. QED
      BY <1>2, <2>1, <3>4, <3>5, <3>6 DEF Mirror
  <2>5. QED
    BY <2>3, <2>4
<1>7. CASE op = "RELEASE"
  <2>1. t.status = s.status
    BY <1>7 DEF Handle, HandleRelease, Session
  <2>2. e \in SqlRelease(d, n)
    BY <1>7, <2>1 DEF SqliteAfter
  <2>3. CASE NewestMark(s.savepoints, n) = {}
    <3>1. t = s
      BY <1>7, <2>3 DEF Handle, HandleRelease
    <3>2. e = d
      BY <1>2, <2>2, <2>3 DEF SqlRelease
    <3>3. QED
      BY <3>1, <3>2
  <2>4. ASSUME NEW i \in NewestMark(s.savepoints, n) PROVE Mirror(t, e)
    <3>1. PICK j \in NewestMark(s.savepoints, n) :
            t = [s EXCEPT !.savepoints = SubSeq(s.savepoints, 1, j - 1)]
      BY <1>7, <2>4 DEF Handle, HandleRelease
    <3>2. PICK k \in NewestMark(MarkNames(d.marks), n) :
            /\ k \in 1..Len(d.marks)
            /\ e = [d EXCEPT !.marks = SubSeq(d.marks, 1, k - 1)]
      <4>1. NewestMark(MarkNames(d.marks), n) # {}
        BY <1>2, <2>4 DEF Mirror
      <4>2. \/ e = d /\ NewestMark(MarkNames(d.marks), n) = {}
            \/ \E k \in NewestMark(MarkNames(d.marks), n) :
                 /\ k \in 1..Len(d.marks)
                 /\ e = IF k = 1 /\ d.mode = "savepoint" THEN SqlCommit(d)
                        ELSE [d EXCEPT !.marks = SubSeq(d.marks, 1, k - 1)]
        BY ONLY <2>2, d \in DB, n \in Names, ReleaseShape, ZenonT(60)
      <4>3. QED
        BY <1>2, <4>1, <4>2
    <3>3. j = k
      BY <1>1, <1>2, <3>1, <3>2, NewestMarkUnique
    <3>4. t.savepoints = SubSeq(s.savepoints, 1, k - 1)
      BY <3>1, <3>3 DEF Session
    <3>5. e.mode = d.mode /\ e.marks = SubSeq(d.marks, 1, k - 1)
      BY <3>2 DEF DB, Database
    <3>6. k - 1 \in 0..Len(d.marks)
      BY <1>1, <3>2
    <3>7. MarkNames(e.marks) = SubSeq(MarkNames(d.marks), 1, k - 1)
      BY <1>1, <3>5, <3>6, MarkNamesPrefix
    <3>8. QED
      BY <1>2, <2>1, <3>4, <3>5, <3>7 DEF Mirror
  <2>5. QED
    BY <2>3, <2>4
<1>8. QED
  BY <1>3, <1>4, <1>5, <1>6, <1>7 DEF Control

LEMMA InitMirrorInv == Init => MirrorInv
<1> SUFFICES ASSUME Init PROVE MirrorInv
  OBVIOUS
<1>1. session \in Session /\ session.status = "Idle" /\ session.savepoints = <<>>
  BY NewSessionType DEF Init, NewSession
<1>2. db \in DB /\ db.mode = "autocommit" /\ db.marks = <<>>
  BY EmptySeq DEF Init, EmptyDatabase, DB, Database, Modes
<1>3. Mirror(Current, db)
  BY <1>1, <1>2, MirrorEmpty DEF Init, Current
<1>4. QED
  BY <1>3 DEF Init, MirrorInv

\* The mirror sees only the status, the savepoints, the mode and the marks.
LEMMA MirrorSame ==
  ASSUME NEW s, NEW t, NEW d, NEW e, Mirror(s, d),
         t.status = "Idle" <=> s.status = "Idle", t.savepoints = s.savepoints,
         e.mode = d.mode, e.marks = d.marks
  PROVE  Mirror(t, e)
BY DEF Mirror

LEMMA NextMirrorInv ==
  ASSUME SerialUse, TypeInv, MirrorInv, [Next]_vars
  PROVE  MirrorInv'
<1> USE ConstantsAssumption
<1> DEFINE Pcs == {"ready", "apply", "store", "check", "exec", "fail", "abort"}
           Serial == \A c, d \in Clients : pc[c] # "ready" /\ pc[d] # "ready" => c = d
           Applying == \A c \in Clients : pc[c] = "apply" =>
                         /\ frame[c].prev = session.status
                         /\ frame[c].next \in Handle(frame[c].op, frame[c].arg, session)
                         /\ frame[c].op = "SAVEPOINT" => session.status # "Idle"
           Aborting == \A c \in Clients : pc[c] = "abort" =>
                         /\ session.status = "InTransaction"
                         /\ frame[c].next = [session EXCEPT !.status = "InError"]
<1>t. /\ session \in Session /\ conn \in Clients \cup {Free} /\ db \in DB /\ Coherent(db)
      /\ pc \in [Clients -> Pcs] /\ frame \in [Clients -> Frames]
      /\ \A c \in Clients : pc[c] = "store" <=> conn = c
      /\ FrameOK
  BY DEF TypeInv, TypeOK, DB, Coherent, Frames
<1>m. Serial /\ Mirror(Current, db) /\ Applying /\ Aborting
  BY DEF MirrorInv
<1>g. ASSUME Serial', Mirror(Current', db'), Applying', Aborting'
      PROVE  MirrorInv'
  BY <1>g DEF MirrorInv
<1>f. ASSUME \A c \in Clients : pc[c] # "store" PROVE conn = Free /\ Mirror(session, db)
  BY <1>t, <1>m, <1>f DEF Current
<1>r. ASSUME NEW c \in Clients, MayStart(c)
      PROVE  /\ \A d \in Clients : pc[d] = "ready"
             /\ conn = Free /\ Mirror(session, db)
  BY <1>f, <1>r DEF MayStart, SerialUse
<1>b. ASSUME NEW c \in Clients, pc[c] # "ready"
      PROVE  /\ \A d \in Clients \ {c} : pc[d] = "ready"
             /\ pc[c] # "store" => conn = Free /\ Mirror(session, db)
  <2>1. \A d \in Clients \ {c} : pc[d] = "ready"
    BY <1>m, <1>b
  <2>2. QED
    BY <2>1, <1>f
\* A busy client that returns leaves every client ready.
<1>v. ASSUME NEW c \in Clients, pc[c] # "ready", Return(c), conn' = Free, Mirror(session', db')
      PROVE  MirrorInv'
  <2>1. \A d \in Clients : pc'[d] = "ready"
    BY <1>t, <1>b, <1>v DEF Return
  <2>2. QED
    BY <1>g, <1>v, <2>1 DEF Current
\* Nor does it disturb anything on its way to a position without a clone.
<1>w. ASSUME NEW c \in Clients, pc[c] # "ready", NEW label \in {"exec", "fail"}, Goto(c, label),
             conn' = Free, Mirror(session', db')
      PROVE  MirrorInv'
  <2>1. pc'[c] = label /\ \A d \in Clients \ {c} : pc'[d] = "ready"
    BY <1>t, <1>b, <1>w DEF Goto
  <2>2. QED
    BY <1>g, <1>w, <2>1 DEF Current
<1>1. CASE Crash
  <2>1. session' \in Session /\ session'.status = "Idle" /\ session'.savepoints = <<>>
    <3>1. PICK role \in Roles, path \in Paths : session' = NewSession(role, path)
      BY <1>1 DEF Crash
    <3>2. session' \in Session
      BY <3>1, NewSessionType
    <3>3. QED
      BY <3>1, <3>2 DEF NewSession
  <2>2. db' \in DB /\ db'.mode = "autocommit" /\ db'.marks = <<>>
    BY <1>1, <1>t, EndTransactionType DEF Crash, EndTransaction, DB, Database
  <2>3. Mirror(session', db')
    BY <2>1, <2>2, MirrorEmpty
  <2>4. conn' = Free /\ \A c \in Clients : pc'[c] = "ready"
    BY <1>1 DEF Crash
  <2>5. QED
    BY <1>g, <2>3, <2>4 DEF Current
<1>2. ASSUME NEW c \in Clients, Request(c) PROVE MirrorInv'
  <2>1. ASSUME NEW op \in Control, NEW n \in Names, ReadSession(c, op, n) PROVE MirrorInv'
    <3>1. PICK next \in Handle(op, n, session) : Enter(c, "apply", op, n, session.status, next)
      BY <2>1 DEF ReadSession
    <3>2. /\ \A d \in Clients : pc[d] = "ready"
          /\ conn = Free /\ Mirror(session, db)
      BY <1>r, <2>1 DEF ReadSession, MaySend
    <3>3. op = "SAVEPOINT" => session.status # "Idle"
      BY <2>1 DEF ReadSession, Ordinary, SerialUse
    <3>4. UNCHANGED <<session, conn, db>>
      BY <2>1 DEF ReadSession
    <3>5. pc'[c] = "apply" /\ \A d \in Clients \ {c} : pc'[d] = "ready"
      BY <1>t, <3>1, <3>2 DEF Enter
    <3>6. /\ frame'[c].op = op /\ frame'[c].arg = n
          /\ frame'[c].prev = session.status /\ frame'[c].next = next
      BY <1>t, <3>1 DEF Enter
    <3>7. Applying'
      <4>1. next \in Handle(frame'[c].op, frame'[c].arg, session')
        BY <3>1, <3>4, <3>6
      <4>2. ASSUME NEW d \in Clients, pc'[d] = "apply" PROVE d = c
        BY <3>5, <4>2
      <4>3. QED
        BY <3>3, <3>4, <3>6, <4>1, <4>2
    <3>8. Mirror(Current', db')
      BY <3>2, <3>4 DEF Current
    <3>9. QED
      BY <1>g, <3>5, <3>7, <3>8
  <2>2. ASSUME NEW op, NEW arg, StartStatement(c, op, arg) PROVE MirrorInv'
    <3>1. /\ \A d \in Clients : pc[d] = "ready"
          /\ conn = Free /\ Mirror(session, db)
      BY <1>r, <2>2 DEF StartStatement, MaySend
    <3>2. UNCHANGED <<session, conn, db>>
      BY <2>2 DEF StartStatement
    <3>3. pc'[c] = "check" /\ \A d \in Clients \ {c} : pc'[d] = "ready"
      BY <1>t, <2>2, <3>1 DEF StartStatement, Enter
    <3>4. QED
      BY <1>g, <3>1, <3>2, <3>3 DEF Current
  <2>3. ASSUME NEW path \in Paths, SetSearchPath(c, path) PROVE MirrorInv'
    <3>1. /\ \A d \in Clients : pc[d] = "ready"
          /\ conn = Free /\ Mirror(session, db)
      BY <1>r, <2>3 DEF SetSearchPath, MaySend
    <3>2. session'.status = session.status /\ session'.savepoints = session.savepoints
      BY <1>t, <2>3 DEF SetSearchPath, Session
    <3>3. UNCHANGED <<conn, db, pc>>
      BY <2>3 DEF SetSearchPath
    <3>4. Mirror(session', db')
      BY <3>1, <3>2, <3>3, MirrorSame
    <3>5. QED
      BY <1>g, <3>1, <3>3, <3>4 DEF Current
  <2>4. QED
    BY <1>2, <2>1, <2>2, <2>3 DEF Request
<1>3. ASSUME NEW c \in Clients, ApplyToSqlite(c) PROVE MirrorInv'
  <2>1. /\ pc[c] = "apply" /\ conn = Free /\ conn' = c /\ Goto(c, "store")
        /\ db' \in SqliteAfter(frame[c].op, frame[c].arg, frame[c].prev, frame[c].next.status, db)
        /\ UNCHANGED session
    BY <1>3 DEF ApplyToSqlite
  <2>2. Mirror(session, db) /\ \A d \in Clients \ {c} : pc[d] = "ready"
    BY <1>b, <2>1
  <2>3. /\ frame[c].op \in Control /\ frame[c].arg \in Names
        /\ frame[c].prev = session.status
        /\ frame[c].next \in Handle(frame[c].op, frame[c].arg, session)
        /\ frame[c].op = "SAVEPOINT" => session.status # "Idle"
    BY <1>t, <1>m, <2>1 DEF FrameOK
  <2>4. Mirror(frame[c].next, db')
    BY <1>t, <2>1, <2>2, <2>3, MirrorStep
  <2>5. frame' = frame /\ pc'[c] = "store" /\ \A d \in Clients \ {c} : pc'[d] = "ready"
    BY <1>t, <2>1, <2>2 DEF Goto
  <2>6. Current' = frame[c].next
    BY <2>1, <2>5 DEF Current
  <2>7. QED
    BY <1>g, <2>4, <2>5, <2>6
<1>0. ASSUME NEW c \in Clients, CommitFails(c) PROVE FALSE
  BY <1>0 DEF CommitFails, SerialUse
<1>4. ASSUME NEW c \in Clients, Execute(c) PROVE MirrorInv'
  <2>1. /\ pc[c] = "exec" /\ Return(c) /\ UNCHANGED <<session, conn>>
        /\ db' = SqlInsert(db, frame[c].arg)
    BY <1>4 DEF Execute
  <2>2. conn = Free /\ Mirror(session, db)
    BY <1>b, <2>1
  <2>3. db'.mode = db.mode /\ db'.marks = db.marks
    BY <1>t, <2>1 DEF SqlInsert, DB, Database
  <2>4. Mirror(session', db')
    BY <2>1, <2>2, <2>3, MirrorSame
  <2>5. QED
    BY <1>v, <2>1, <2>2, <2>4
<1>5. ASSUME NEW c \in Clients, ExecuteFails(c) PROVE MirrorInv'
  <2>1. pc[c] = "exec" /\ Goto(c, "fail") /\ UNCHANGED <<session, conn, db>>
    BY <1>5 DEF ExecuteFails, SerialUse
  <2>2. conn = Free /\ Mirror(session, db)
    BY <1>b, <2>1
  <2>3. QED
    BY <1>w, <2>1, <2>2
<1>6. ASSUME NEW c \in Clients, ExecuteRaw(c) PROVE FALSE
  <2>1. frame[c].op \in RawControl
    BY <1>6 DEF ExecuteRaw
  <2>2. frame[c].op \in Statements \cup {"NONE"}
    BY <1>t DEF Frames
  <2>3. QED
    BY <2>1, <2>2 DEF RawControl, SerialUse
<1>7. ASSUME NEW c \in Clients, StoreSession(c) PROVE MirrorInv'
  <2>1. /\ pc[c] = "store" /\ session' = frame[c].next /\ conn' = Free /\ Return(c)
        /\ UNCHANGED db
    BY <1>7 DEF StoreSession
  <2>2. conn = c
    BY <1>t, <2>1
  <2>3. Mirror(session', db')
    BY <1>m, <2>1, <2>2 DEF Current
  <2>4. QED
    BY <1>v, <2>1, <2>3
<1>8. ASSUME NEW c \in Clients, CheckErrorState(c) PROVE MirrorInv'
  <2>1. pc[c] = "check" /\ UNCHANGED <<session, conn, db>> /\ (Return(c) \/ Goto(c, "exec"))
    BY <1>8 DEF CheckErrorState
  <2>2. conn = Free /\ Mirror(session, db)
    BY <1>b, <2>1
  <2>3. QED
    BY <1>v, <1>w, <2>1, <2>2
<1>9. ASSUME NEW c \in Clients, SetRole(c) PROVE MirrorInv'
  <2>1. /\ pc[c] = "exec" /\ UNCHANGED <<conn, db>> /\ Return(c)
        /\ session' = [session EXCEPT !.current_user = frame[c].arg]
    BY <1>9 DEF SetRole
  <2>2. conn = Free /\ Mirror(session, db)
    BY <1>b, <2>1
  <2>3. session'.status = session.status /\ session'.savepoints = session.savepoints
    BY <1>t, <2>1 DEF Session
  <2>4. Mirror(session', db')
    BY <2>1, <2>2, <2>3, MirrorSame
  <2>5. QED
    BY <1>v, <2>1, <2>2, <2>4
<1>10. ASSUME NEW c \in Clients, ReadForAbort(c) PROVE MirrorInv'
  <2>1. pc[c] = "fail" /\ UNCHANGED <<session, conn, db>>
    BY <1>10 DEF ReadForAbort
  <2>2. conn = Free /\ Mirror(session, db) /\ \A d \in Clients \ {c} : pc[d] = "ready"
    BY <1>b, <2>1
  <2>3. CASE session.status # "InTransaction"
    BY <1>10, <1>v, <2>1, <2>2, <2>3 DEF ReadForAbort
  <2>4. CASE session.status = "InTransaction"
    <3>1. Enter(c, "abort", frame[c].op, frame[c].arg, "Idle",
                [session EXCEPT !.status = "InError"])
      BY <1>10, <2>4 DEF ReadForAbort
    <3>2. pc'[c] = "abort" /\ \A d \in Clients \ {c} : pc'[d] = "ready"
      BY <1>t, <2>2, <3>1 DEF Enter
    <3>3. frame'[c].next = [session EXCEPT !.status = "InError"]
      BY <1>t, <3>1 DEF Enter
    <3>4. QED
      BY <1>g, <2>1, <2>2, <2>4, <3>2, <3>3 DEF Current
  <2>5. QED
    BY <2>3, <2>4
<1>11. ASSUME NEW c \in Clients, StoreAbort(c) PROVE MirrorInv'
  <2>1. pc[c] = "abort" /\ UNCHANGED <<conn, db>> /\ Return(c) /\ session' = frame[c].next
    BY <1>11 DEF StoreAbort
  <2>2. conn = Free /\ Mirror(session, db)
    BY <1>b, <2>1
  <2>3. session.status = "InTransaction" /\ session' = [session EXCEPT !.status = "InError"]
    BY <1>m, <2>1
  <2>4. session'.status = "InError" /\ session'.savepoints = session.savepoints
    BY <1>t, <2>3 DEF Session
  <2>5. Mirror(session', db')
    BY <2>1, <2>2, <2>3, <2>4, MirrorSame
  <2>6. QED
    BY <1>v, <2>1, <2>2, <2>5
<1>12. ASSUME NEW c \in Clients, Disconnect(c) PROVE MirrorInv'
  BY <1>12, <1>m, <1>g DEF Disconnect, Current
<1>d. ASSUME NEW c \in Clients, NEW r \in Rows, DropFunction(c, r) PROVE MirrorInv'
  <2>1. /\ \A e \in Clients : pc[e] = "ready"
        /\ conn = Free /\ Mirror(session, db)
    BY <1>r, <1>d DEF DropFunction, MaySend
  <2>2. UNCHANGED <<session, conn, pc>> /\ db'.mode = db.mode /\ db'.marks = db.marks
    BY <1>t, <1>d DEF DropFunction, SqlDelete, DB, Database
  <2>3. Mirror(session', db')
    BY <2>1, <2>2, MirrorSame
  <2>4. QED
    BY <1>g, <2>1, <2>2, <2>3 DEF Current
<1>13. CASE UNCHANGED vars
  BY <1>13, <1>m, <1>g DEF vars, Current
<1>14. QED
  BY <1>0, <1>d, <1>1, <1>2, <1>3, <1>4, <1>5, <1>6, <1>7, <1>8, <1>9, <1>10, <1>11, <1>12, <1>13
     DEF Next, Acquire, Continue

\* When requests do not overlap, SAVEPOINT is used in blocks only and SQLite
\* neither ends a transaction by itself nor refuses to commit one, the session
\* and SQLite agree at every moment on being in a block and on the block's
\* savepoints, however many clients share the session, leave it, fail in it or
\* crash it.
THEOREM SerialSessionMirrorsSqlite ==
  ASSUME SerialUse
  PROVE  Spec => [](StatusMirrorsSqlite /\ SavepointsMirrorSqlite)
<1>1. TypeInv /\ MirrorInv /\ [Next]_vars => MirrorInv'
  BY NextMirrorInv
<1>2. MirrorInv => StatusMirrorsSqlite /\ SavepointsMirrorSqlite
  BY DEF MirrorInv, Mirror, StatusMirrorsSqlite, SavepointsMirrorSqlite
<1>3. QED
  BY <1>1, <1>2, InitTypeInv, NextTypeInv, InitMirrorInv, PTL DEF Spec

\* In particular ROLLBACK TO and RELEASE, which decide on the session's
\* savepoints and act on SQLite's, find the same savepoint in both.
COROLLARY SerialSavepointsMirrorSqlite ==
  ASSUME SerialUse
  PROVE  Spec => []SavepointsMirrorSqlite
BY SerialSessionMirrorsSqlite, PTL

-----------------------------------------------------------------------------
(* The proxy implements a PostgreSQL session, for ordinary clients *)

\* Serial use by clients that, as PostgreSQL would, take a failed block for
\* failed: they neither open nor release savepoints in it, nor drop functions
\* in it, nor commit it.
OrdinaryUse ==
  /\ SerialUse
  /\ Env \cap {"savepoint_when_failed", "release_when_failed", "commit_when_failed",
               "drop_when_failed"} = {}

\* A statement under way was let through by the state the session is still in.
OrdinaryInv ==
  \A c \in Clients :
    /\ pc[c] = "exec" => session.status # "InError"
    /\ pc[c] = "apply" =>
         /\ frame[c].op = "SAVEPOINT" => session.status = "InTransaction"
         /\ frame[c].op \in {"RELEASE", "COMMIT"} => session.status # "InError"

LEMMA NextOrdinaryInv ==
  ASSUME OrdinaryUse, TypeInv, MirrorInv, OrdinaryInv, [Next]_vars
  PROVE  OrdinaryInv'
<1> DEFINE Pcs == {"ready", "apply", "store", "check", "exec", "fail", "abort"}
<1>t. /\ pc \in [Clients -> Pcs] /\ frame \in [Clients -> Frames]
      /\ session.status \in Status /\ session \in Session
      /\ \A c, d \in Clients : pc[c] # "ready" /\ pc[d] # "ready" => c = d
  BY DEF TypeInv, TypeOK, Frames, MirrorInv, Session
<1>q. ASSUME NEW c \in Clients, \A d \in Clients \ {c} : pc'[d] = "ready", pc'[c] \notin {"exec", "apply"}
      PROVE  OrdinaryInv'
  BY <1>q DEF OrdinaryInv
<1>b. ASSUME NEW c \in Clients, pc[c] # "ready"
      PROVE  \A d \in Clients \ {c} : pc[d] = "ready"
  BY <1>t, <1>b
<1>v. ASSUME NEW c \in Clients, pc[c] # "ready", Return(c)
      PROVE  OrdinaryInv'
  BY <1>t, <1>q, <1>b, <1>v DEF Return
<1>w. ASSUME NEW c \in Clients, pc[c] # "ready", NEW label \in {"store", "fail"}, Goto(c, label)
      PROVE  OrdinaryInv'
  BY <1>t, <1>q, <1>b, <1>w DEF Goto
<1>1. CASE Crash
  BY <1>1 DEF Crash, OrdinaryInv
<1>2. ASSUME NEW c \in Clients, Request(c) PROVE OrdinaryInv'
  <2>1. ASSUME NEW op \in Control, NEW n \in Names, ReadSession(c, op, n) PROVE OrdinaryInv'
    <3>1. PICK next \in Handle(op, n, session) : Enter(c, "apply", op, n, session.status, next)
      BY <2>1 DEF ReadSession
    <3>2. \A d \in Clients : pc[d] = "ready"
      BY <2>1 DEF ReadSession, MaySend, MayStart, OrdinaryUse, SerialUse
    <3>3. /\ op = "SAVEPOINT" => session.status = "InTransaction"
          /\ op \in {"RELEASE", "COMMIT"} => session.status # "InError"
      BY <1>t, <2>1 DEF ReadSession, Ordinary, OrdinaryUse, SerialUse, Status
    <3>4. UNCHANGED session
      BY <2>1 DEF ReadSession
    <3>5. QED
      BY <1>t, <3>1, <3>2, <3>3, <3>4 DEF Enter, OrdinaryInv
  <2>2. ASSUME NEW op, NEW arg, StartStatement(c, op, arg) PROVE OrdinaryInv'
    <3>1. \A d \in Clients : pc[d] = "ready"
      BY <2>2 DEF StartStatement, MaySend, MayStart, OrdinaryUse, SerialUse
    <3>2. QED
      BY <1>t, <1>q, <2>2, <3>1 DEF StartStatement, Enter
  <2>3. ASSUME NEW path \in Paths, SetSearchPath(c, path) PROVE OrdinaryInv'
    <3>1. \A d \in Clients : pc[d] = "ready"
      BY <2>3 DEF SetSearchPath, MaySend, MayStart, OrdinaryUse, SerialUse
    <3>2. QED
      BY <1>q, <2>3, <3>1 DEF SetSearchPath
  <2>4. QED
    BY <1>2, <2>1, <2>2, <2>3 DEF Request
<1>3. ASSUME NEW c \in Clients, Acquire(c) PROVE OrdinaryInv'
  BY <1>v, <1>w, <1>3 DEF Acquire, ApplyToSqlite, CommitFails, Execute, ExecuteFails, ExecuteRaw
<1>4. ASSUME NEW c \in Clients, CheckErrorState(c) PROVE OrdinaryInv'
  <2>1. pc[c] = "check" /\ UNCHANGED session
    BY <1>4 DEF CheckErrorState
  <2>2. frame[c].op # "ROLLBACK;"
    BY <1>t DEF Frames, OrdinaryUse, SerialUse, RawControl
  <2>3. CASE Return(c)
    BY <1>v, <2>1, <2>3
  <2>4. CASE session.status # "InError" /\ Goto(c, "exec")
    BY <1>t, <1>b, <2>1, <2>4 DEF Goto, OrdinaryInv
  <2>5. QED
    BY <1>4, <2>2, <2>3, <2>4 DEF CheckErrorState
<1>5. ASSUME NEW c \in Clients, ReadForAbort(c) PROVE OrdinaryInv'
  <2>1. pc[c] = "fail"
    BY <1>5 DEF ReadForAbort
  <2>2. CASE Return(c)
    BY <1>v, <2>1, <2>2
  <2>3. ASSUME NEW next, Enter(c, "abort", frame[c].op, frame[c].arg, "Idle", next)
        PROVE  OrdinaryInv'
    BY <1>t, <1>b, <1>q, <2>1, <2>3 DEF Enter
  <2>4. QED
    BY <1>5, <2>2, <2>3 DEF ReadForAbort
<1>6. ASSUME NEW c \in Clients, StoreSession(c) \/ SetRole(c) \/ StoreAbort(c) PROVE OrdinaryInv'
  BY <1>v, <1>6 DEF StoreSession, SetRole, StoreAbort
<1>7. ASSUME NEW c \in Clients, Disconnect(c) PROVE OrdinaryInv'
  BY <1>7 DEF Disconnect, OrdinaryInv
<1>d. ASSUME NEW c \in Clients, NEW r \in Rows, DropFunction(c, r) PROVE OrdinaryInv'
  BY <1>d DEF DropFunction, OrdinaryInv
<1>8. CASE UNCHANGED vars
  BY <1>8 DEF vars, OrdinaryInv
<1>9. QED
  BY <1>d, <1>1, <1>2, <1>3, <1>4, <1>5, <1>6, <1>7, <1>8 DEF Next, Continue

\* What PostgreSQL's control statements make of a block (s to t) and its rows
\* (d to e); NOTICEs and errors change nothing.
SameRows(d, e) == e.durable = d.durable /\ e.view = d.view /\ e.marks = d.marks

PgControl(op, n, s, t, d, e) ==
  \/ t = s /\ SameRows(d, e)
  \/ op = "BEGIN" /\ s = "Idle" /\ t = "InTransaction" /\ SameRows(d, e)
  \/ /\ op = "COMMIT" /\ s = "InTransaction" /\ t = "Idle"
     /\ e.durable = d.view /\ e.view = d.view /\ e.marks = <<>>
  \/ /\ op = "ROLLBACK" /\ s # "Idle" /\ t = "Idle"
     /\ e.durable = d.durable /\ e.view = d.durable /\ e.marks = <<>>
  \/ /\ op = "SAVEPOINT" /\ s = "InTransaction" /\ t = s
     /\ e.durable = d.durable /\ e.view = d.view
     /\ e.marks = Append(d.marks, [name |-> n, view |-> d.view])
  \/ /\ op = "ROLLBACK TO" /\ s # "Idle" /\ t = "InTransaction"
     /\ \E i \in 1..Len(d.marks) :
          /\ d.marks[i].name = n /\ \A j \in (i+1)..Len(d.marks) : d.marks[j].name # n
          /\ e.durable = d.durable /\ e.view = d.marks[i].view /\ e.marks = SubSeq(d.marks, 1, i)
  \/ /\ op = "RELEASE" /\ s = "InTransaction" /\ t = s
     /\ \E i \in 1..Len(d.marks) :
          /\ d.marks[i].name = n /\ \A j \in (i+1)..Len(d.marks) : d.marks[j].name # n
          /\ e.durable = d.durable /\ e.view = d.view /\ e.marks = SubSeq(d.marks, 1, i - 1)

\* Outside a block there are no savepoints.
LEMMA IdleHasNoMarks ==
  ASSUME NEW s \in Session, NEW d \in DB, Coherent(d), Mirror(s, d), NEW n,
         NEW i \in NewestMark(s.savepoints, n)
  PROVE  s.status # "Idle"
<1>1. d.marks \in Seq(Mark) /\ Len(s.savepoints) = Len(d.marks)
  <2>1. d.marks \in Seq(Mark)
    BY DEF DB, Database, Mark
  <2>2. QED
    BY <2>1, MarkNamesType DEF Mirror
<1>2. d.marks # <<>>
  BY <1>1, EmptySeq, NewestMarkRange
<1>3. QED
  BY <1>2 DEF Mirror, Coherent

\* The newest savepoint the session finds is the one PostgreSQL means.
LEMMA NewestMarkNames ==
  ASSUME NEW d \in DB, NEW n, NEW i \in NewestMark(MarkNames(d.marks), n)
  PROVE  /\ i \in 1..Len(d.marks)
         /\ d.marks[i].name = n
         /\ \A j \in (i+1)..Len(d.marks) : d.marks[j].name # n
<1>1. /\ d.marks \in Seq(Mark)
      /\ Len(MarkNames(d.marks)) = Len(d.marks)
      /\ \A j \in 1..Len(d.marks) : MarkNames(d.marks)[j] = d.marks[j].name
  <2>1. d.marks \in Seq(Mark)
    BY DEF DB, Database, Mark
  <2>2. QED
    BY <2>1, MarkNamesType
<1>2. i \in 1..Len(d.marks) /\ MarkNames(d.marks)[i] = n
      /\ \A j \in (i+1)..Len(d.marks) : MarkNames(d.marks)[j] # n
  BY <1>1 DEF NewestMark
<1>3. QED
  BY <1>1, <1>2

\* A control statement an ordinary client may send does to session and SQLite
\* together what it does to a PostgreSQL session.
LEMMA ControlStep ==
  ASSUME NEW s \in Session, NEW d \in DB, Coherent(d), Mirror(s, d),
         NEW op \in Control, NEW n \in Names,
         op = "SAVEPOINT" => s.status = "InTransaction",
         op \in {"RELEASE", "COMMIT"} => s.status # "InError",
         NEW t \in Handle(op, n, s), NEW e \in SqliteAfter(op, n, s.status, t.status, d)
  PROVE  PgControl(op, n, s.status, t.status, d, e)
<1>1. /\ s.savepoints = MarkNames(d.marks) /\ d.mode # "savepoint"
      /\ (s.status = "Idle" <=> d.mode = "autocommit") /\ s.status \in Status
  BY DEF Mirror, Session
<1>2. SameRows(d, d)
  BY DEF SameRows
<1>3. CASE op = "BEGIN"
  <2>1. t.status = IF s.status = "Idle" THEN "InTransaction" ELSE s.status
    BY <1>3 DEF Handle, HandleBegin, Session
  <2>2. SameRows(d, SqlBegin(d))
    BY DEF SqlBegin, SameRows, DB, Database
  <2>3. e = SqlBegin(d) \/ (s.status # "Idle" /\ e = d)
    BY <1>1, <1>3, <2>1 DEF SqliteAfter
  <2>4. QED
    BY <1>2, <1>3, <2>1, <2>2, <2>3 DEF PgControl
<1>4. CASE op = "COMMIT"
  <2>1. t.status = "Idle"
    BY <1>4 DEF Handle, HandleCommit, Session
  <2>2. CASE s.status = "Idle"
    <3>1. e = d
      BY <1>4, <2>1, <2>2 DEF SqliteAfter
    <3>2. QED
      BY <1>2, <2>1, <2>2, <3>1 DEF PgControl
  <2>3. CASE s.status = "InTransaction"
    <3>1. e = SqlCommit(d)
      BY <1>4, <2>1, <2>3 DEF SqliteAfter
    <3>2. QED
      BY <1>4, <2>1, <2>3, <3>1 DEF PgControl, SqlCommit, EndTransaction
  <2>4. QED
    BY <1>1, <1>4, <2>2, <2>3 DEF Status
<1>5. CASE op = "ROLLBACK"
  <2>1. t.status = "Idle"
    BY <1>5 DEF Handle, HandleRollback, Session
  <2>2. CASE s.status = "Idle"
    <3>1. e = d
      BY <1>5, <2>1, <2>2 DEF SqliteAfter
    <3>2. QED
      BY <1>2, <2>1, <2>2, <3>1 DEF PgControl
  <2>3. CASE s.status # "Idle"
    <3>1. e = SqlRollback(d)
      BY <1>5, <2>1, <2>3 DEF SqliteAfter
    <3>2. QED
      BY <1>5, <2>1, <2>3, <3>1 DEF PgControl, SqlRollback, EndTransaction
  <2>4. QED
    BY <2>2, <2>3
<1>6. CASE op = "SAVEPOINT"
  <2>1. t.status = s.status /\ s.status = "InTransaction"
    BY <1>6 DEF Handle, HandleSavepoint, Session
  <2>2. e = SqlSavepoint(d, n)
    BY <1>6, <2>1 DEF SqliteAfter
  <2>3. QED
    BY <1>6, <2>1, <2>2 DEF PgControl, SqlSavepoint, DB, Database
<1>7. CASE op = "ROLLBACK TO"
  <2>1. CASE NewestMark(s.savepoints, n) = {}
    <3>1. t = s
      BY <1>7, <2>1 DEF Handle, HandleRollbackTo
    <3>2. e \in SqlRollbackTo(d, n)
      BY <1>7, <3>1 DEF SqliteAfter
    <3>3. e = d
      BY <1>1, <2>1, <3>2 DEF SqlRollbackTo
    <3>4. QED
      BY <1>2, <3>1, <3>3 DEF PgControl
  <2>2. ASSUME NEW j \in NewestMark(s.savepoints, n)
        PROVE  PgControl(op, n, s.status, t.status, d, e)
    <3>1. s.status # "Idle"
      BY IdleHasNoMarks
    <3>2. t.status = IF s.status = "InError" THEN "InTransaction" ELSE s.status
      <4>1. PICK i \in NewestMark(s.savepoints, n) :
              t = [s EXCEPT !.savepoints = SubSeq(s.savepoints, 1, i),
                            !.status = IF s.status = "InError" THEN "InTransaction" ELSE s.status]
        BY <1>7, <2>2 DEF Handle, HandleRollbackTo
      <4>2. QED
        BY <4>1 DEF Session
    <3>3. t.status = "InTransaction"
      BY <1>1, <3>1, <3>2 DEF Status
    <3>4. e \in SqlRollbackTo(d, n)
      BY <1>7, <3>1, <3>3 DEF SqliteAfter
    <3>5. PICK i \in NewestMark(MarkNames(d.marks), n) :
            e = [d EXCEPT !.view = d.marks[i].view, !.marks = SubSeq(d.marks, 1, i)]
      <4>1. NewestMark(MarkNames(d.marks), n) # {}
        BY <1>1, <2>2
      <4>2. \/ e = d /\ NewestMark(MarkNames(d.marks), n) = {}
            \/ \E k \in NewestMark(MarkNames(d.marks), n) :
                 /\ k \in 1..Len(d.marks)
                 /\ e = [d EXCEPT !.view = d.marks[k].view, !.marks = SubSeq(d.marks, 1, k)]
        BY ONLY <3>4, d \in DB, n \in Names, RollbackToShape, ZenonT(60)
      <4>3. QED
        BY <4>1, <4>2, Zenon
    <3>6. /\ i \in 1..Len(d.marks)
          /\ d.marks[i].name = n /\ \A k \in (i+1)..Len(d.marks) : d.marks[k].name # n
      BY ONLY d \in DB, i \in NewestMark(MarkNames(d.marks), n), NewestMarkNames, Zenon
    <3>7. e.durable = d.durable /\ e.view = d.marks[i].view /\ e.marks = SubSeq(d.marks, 1, i)
      BY <3>5 DEF DB, Database
    <3>8. QED
      BY <1>7, <3>1, <3>3, <3>6, <3>7 DEF PgControl
  <2>3. QED
    BY <2>1, <2>2
<1>8. CASE op = "RELEASE"
  <2>1. t.status = s.status
    BY <1>8 DEF Handle, HandleRelease, Session
  <2>2. e \in SqlRelease(d, n)
    BY <1>8, <2>1 DEF SqliteAfter
  <2>3. CASE NewestMark(s.savepoints, n) = {}
    <3>1. e = d
      BY <1>1, <2>2, <2>3 DEF SqlRelease
    <3>2. QED
      BY <1>2, <2>1, <3>1 DEF PgControl
  <2>4. ASSUME NEW j \in NewestMark(s.savepoints, n)
        PROVE  PgControl(op, n, s.status, t.status, d, e)
    <3>1. s.status = "InTransaction"
      BY <1>1, <1>8, IdleHasNoMarks DEF Status
    <3>2. PICK i \in NewestMark(MarkNames(d.marks), n) :
            e = [d EXCEPT !.marks = SubSeq(d.marks, 1, i - 1)]
      <4>1. NewestMark(MarkNames(d.marks), n) # {}
        BY <1>1, <2>4
      <4>2. \/ e = d /\ NewestMark(MarkNames(d.marks), n) = {}
            \/ \E k \in NewestMark(MarkNames(d.marks), n) :
                 /\ k \in 1..Len(d.marks)
                 /\ e = IF k = 1 /\ d.mode = "savepoint" THEN SqlCommit(d)
                        ELSE [d EXCEPT !.marks = SubSeq(d.marks, 1, k - 1)]
        BY ONLY <2>2, d \in DB, n \in Names, ReleaseShape, ZenonT(60)
      <4>3. QED
        BY <1>1, <4>1, <4>2
    <3>3. /\ i \in 1..Len(d.marks)
          /\ d.marks[i].name = n /\ \A k \in (i+1)..Len(d.marks) : d.marks[k].name # n
      BY ONLY d \in DB, i \in NewestMark(MarkNames(d.marks), n), NewestMarkNames, Zenon
    <3>4. e.durable = d.durable /\ e.view = d.view /\ e.marks = SubSeq(d.marks, 1, i - 1)
      BY <3>2 DEF DB, Database
    <3>5. QED
      BY <1>8, <2>1, <3>1, <3>3, <3>4 DEF PgControl
  <2>5. QED
    BY <2>3, <2>4
<1>9. QED
  BY <1>3, <1>4, <1>5, <1>6, <1>7, <1>8 DEF Control

\* A step that leaves the session acted on and SQLite's rows alone is a stutter.
LEMMA Stutters ==
  ASSUME Current'.status = Current.status, UNCHANGED db
  PROVE  UNCHANGED PG!vars
BY DEF PG!vars

\* Every step of the proxy is a step of a PostgreSQL session, or none.
LEMMA StepRefines ==
  ASSUME OrdinaryUse, TypeInv, MirrorInv, OrdinaryInv, [Next]_vars
  PROVE  [PG!Next]_(PG!vars)
<1> USE ConstantsAssumption
<1>t. /\ session \in Session /\ conn \in Clients \cup {Free} /\ db \in DB /\ Coherent(db)
      /\ pc \in [Clients -> {"ready", "apply", "store", "check", "exec", "fail", "abort"}]
      /\ frame \in [Clients -> Frames]
      /\ \A c \in Clients : pc[c] = "store" <=> conn = c
      /\ FrameOK
  BY DEF TypeInv, TypeOK, DB, Coherent, Frames
<1>m. /\ \A c, d \in Clients : pc[c] # "ready" /\ pc[d] # "ready" => c = d
      /\ Mirror(Current, db)
  BY DEF MirrorInv
<1>c. conn = Free => Current = session
  BY DEF Current
<1>f. ASSUME NEW c \in Clients, MayStart(c)
      PROVE  conn = Free
  <2>1. \A d \in Clients : pc[d] = "ready"
    BY <1>f DEF MayStart, OrdinaryUse, SerialUse
  <2>2. QED
    BY <1>t, <2>1
\* Only the client that holds the mutex is past its SQLite statement.
<1>b. ASSUME NEW c \in Clients, pc[c] # "ready", pc[c] # "store"
      PROVE  conn = Free /\ Current = session
  BY <1>t, <1>m, <1>c, <1>b
<1>s. ASSUME conn' = Free, conn = Free, session'.status = session.status, UNCHANGED db
      PROVE  UNCHANGED PG!vars
  BY <1>s, Stutters DEF Current
<1>1. CASE Crash
  <2>1. conn' = Free /\ session'.status = "Idle"
    <3>1. \A role, path : NewSession(role, path).status = "Idle"
      BY DEF NewSession
    <3>2. QED
      BY <1>1, <3>1 DEF Crash
  <2>2. PG!Crash
    BY <1>1, <2>1 DEF Crash, Current, EndTransaction, PG!Crash, PG!EndBlock
  <2>3. QED
    BY <2>2 DEF PG!Next
<1>2. ASSUME NEW c \in Clients, Request(c) PROVE UNCHANGED PG!vars
  <2>1. conn = Free /\ UNCHANGED <<conn, db>>
    BY <1>2, <1>f DEF Request, ReadSession, StartStatement, SetSearchPath, MaySend
  <2>2. session'.status = session.status
    <3>1. UNCHANGED session \/ \E path \in Paths : session' = [session EXCEPT !.search_path = path]
      BY <1>2 DEF Request, ReadSession, StartStatement, SetSearchPath
    <3>2. QED
      BY <1>t, <3>1 DEF Session
  <2>3. QED
    BY <1>s, <2>1, <2>2
<1>3. ASSUME NEW c \in Clients, ApplyToSqlite(c) PROVE [PG!Next]_(PG!vars)
  <2>1. /\ pc[c] = "apply" /\ conn' = c /\ Goto(c, "store")
        /\ db' \in SqliteAfter(frame[c].op, frame[c].arg, frame[c].prev, frame[c].next.status, db)
    BY <1>3 DEF ApplyToSqlite
  <2>2. Current = session /\ Current' = frame[c].next
    BY <1>b, <2>1 DEF Goto, Current
  <2>3. /\ frame[c].op \in Control /\ frame[c].arg \in Names
        /\ frame[c].prev = session.status
        /\ frame[c].next \in Handle(frame[c].op, frame[c].arg, session)
        /\ frame[c].op = "SAVEPOINT" => session.status = "InTransaction"
        /\ frame[c].op \in {"RELEASE", "COMMIT"} => session.status # "InError"
    BY <1>t, <2>1 DEF FrameOK, MirrorInv, OrdinaryInv
  <2>4. PgControl(frame[c].op, frame[c].arg, session.status, frame[c].next.status, db, db')
    BY <1>t, <1>m, <2>1, <2>2, <2>3, ControlStep
  <2>5. PgControl(frame[c].op, frame[c].arg, Current.status, Current'.status, db, db')
    BY <2>2, <2>4
  <2>6. QED
    BY <2>3, <2>5 DEF PgControl, SameRows, PG!Next, PG!vars, PG!Begin, PG!Commit, PG!Rollback,
         PG!EndBlock, PG!Savepoint, PG!RollbackTo, PG!Release, PG!Newest
<1>4. ASSUME NEW c \in Clients, Execute(c) PROVE PG!Next
  <2>1. /\ pc[c] = "exec" /\ frame[c].op = "WRITE" /\ UNCHANGED <<session, conn>>
        /\ db' = SqlInsert(db, frame[c].arg)
    BY <1>4 DEF Execute
  <2>2. conn = Free /\ Current = session /\ Current' = Current /\ frame[c].arg \in Rows
    BY <1>b, <1>t, <2>1 DEF Current, FrameOK
  <2>3. Current.status # "InError" /\ (Current.status = "Idle" <=> db.mode = "autocommit")
    BY <1>m, <2>1, <2>2 DEF OrdinaryInv, Mirror
  <2>4. /\ db'.view = db.view \cup {frame[c].arg} /\ db'.marks = db.marks
        /\ db'.durable = IF db.mode = "autocommit" THEN db.view \cup {frame[c].arg} ELSE db.durable
    BY <1>t, <2>1 DEF SqlInsert, DB, Database
  <2>5. PG!Insert(frame[c].arg)
    BY <2>2, <2>3, <2>4 DEF PG!Insert
  <2>6. QED
    BY <2>2, <2>5 DEF PG!Next
<1>5. ASSUME NEW c \in Clients, CommitFails(c) \/ ExecuteRaw(c) PROVE FALSE
  <2>1. frame[c].op \in Statements \cup {"NONE"}
    BY <1>t DEF Frames
  <2>2. QED
    BY <1>5, <2>1 DEF CommitFails, ExecuteRaw, RawControl, OrdinaryUse, SerialUse
<1>6. ASSUME NEW c \in Clients, ExecuteFails(c) PROVE UNCHANGED PG!vars
  <2>1. pc[c] = "exec" /\ UNCHANGED <<session, conn, db>>
    BY <1>6 DEF ExecuteFails, OrdinaryUse, SerialUse
  <2>2. QED
    BY <1>b, <1>s, <2>1
<1>7. ASSUME NEW c \in Clients, StoreSession(c) PROVE UNCHANGED PG!vars
  <2>1. pc[c] = "store" /\ session' = frame[c].next /\ conn' = Free /\ UNCHANGED db
    BY <1>7 DEF StoreSession
  <2>2. conn = c
    BY <1>t, <2>1
  <2>3. Current' = Current
    BY <2>1, <2>2 DEF Current
  <2>4. QED
    BY <2>1, <2>3, Stutters
<1>8. ASSUME NEW c \in Clients, CheckErrorState(c) \/ ReadForAbort(c) \/ SetRole(c)
      PROVE  UNCHANGED PG!vars
  <2>1. pc[c] \in {"check", "fail", "exec"} /\ UNCHANGED <<conn, db>>
    BY <1>8 DEF CheckErrorState, ReadForAbort, SetRole
  <2>2. session'.status = session.status
    <3>1. UNCHANGED session \/ session' = [session EXCEPT !.current_user = frame[c].arg]
      BY <1>8 DEF CheckErrorState, ReadForAbort, SetRole
    <3>2. QED
      BY <1>t, <3>1 DEF Session
  <2>3. QED
    BY <1>b, <1>s, <2>1, <2>2
<1>9. ASSUME NEW c \in Clients, StoreAbort(c) PROVE PG!Next
  <2>1. pc[c] = "abort" /\ session' = frame[c].next /\ UNCHANGED <<conn, db>>
    BY <1>9 DEF StoreAbort
  <2>2. session.status = "InTransaction" /\ frame[c].next = [session EXCEPT !.status = "InError"]
    BY <2>1 DEF MirrorInv
  <2>3. Current = session /\ Current' = session' /\ session'.status = "InError"
    BY <1>b, <1>t, <2>1, <2>2 DEF Current, Session
  <2>4. PG!Fail
    BY <2>1, <2>2, <2>3 DEF PG!Fail
  <2>5. QED
    BY <2>4 DEF PG!Next
<1>10. ASSUME NEW c \in Clients, Disconnect(c) PROVE UNCHANGED PG!vars
  BY <1>10, Stutters DEF Disconnect, Current
<1>d. ASSUME NEW c \in Clients, NEW r \in Rows, DropFunction(c, r) PROVE PG!Next
  <2>1. /\ MayStart(c) /\ Ordinary("DROP FUNCTION") /\ db' = SqlDelete(db, r)
        /\ UNCHANGED <<session, conn, frame>>
    BY <1>d DEF DropFunction, MaySend
  <2>2. conn = Free /\ Current = session /\ Current' = Current
    BY <1>c, <1>f, <2>1 DEF Current
  <2>3. Current.status # "InError" /\ (Current.status = "Idle" <=> db.mode = "autocommit")
    BY <1>m, <2>1, <2>2 DEF Ordinary, OrdinaryUse, Mirror
  <2>4. /\ db'.view = db.view \ {r} /\ db'.marks = db.marks
        /\ db'.durable = IF db.mode = "autocommit" THEN db.view \ {r} ELSE db.durable
    BY <1>t, <2>1 DEF SqlDelete, DB, Database
  <2>5. PG!Delete(r)
    BY <2>2, <2>3, <2>4 DEF PG!Delete
  <2>6. QED
    BY <2>5 DEF PG!Next
<1>11. CASE UNCHANGED vars
  <2>1. UNCHANGED PG!vars
    BY <1>11, Stutters DEF vars, Current
  <2>2. QED
    BY <2>1
<1>12. QED
  BY <1>d, <1>1, <1>2, <1>3, <1>4, <1>5, <1>6, <1>7, <1>8, <1>9, <1>10, <1>11
     DEF Next, Acquire, Continue

LEMMA OrdinaryInvariant ==
  ASSUME OrdinaryUse
  PROVE  Spec => [](TypeInv /\ MirrorInv /\ OrdinaryInv)
<1>1. SerialUse
  BY DEF OrdinaryUse
<1>2. TypeInv /\ MirrorInv /\ [Next]_vars => MirrorInv'
  BY <1>1, NextMirrorInv
<1>3. TypeInv /\ MirrorInv /\ OrdinaryInv /\ [Next]_vars => OrdinaryInv'
  BY NextOrdinaryInv
<1>4. Init => OrdinaryInv
  BY DEF Init, OrdinaryInv
<1>5. QED
  BY <1>2, <1>3, <1>4, InitTypeInv, NextTypeInv, InitMirrorInv, PTL DEF Spec

\* To ordinary clients whose requests do not overlap the proxy is one
\* PostgreSQL session: the clone, the SQLite statement sent after it and its
\* insertion under another lock add up to what PostgreSQL does in one step,
\* whatever fails or crashes in between.
THEOREM SerialSessionImplementsPostgres ==
  ASSUME OrdinaryUse
  PROVE  Spec => IsPgTransaction
<1>1. Init => PG!Init
  <2>1. ASSUME Init PROVE Current.status = "Idle"
    BY <2>1 DEF Init, Current, NewSession
  <2>2. ASSUME Init PROVE db = EmptyDatabase
    BY <2>2 DEF Init
  <2>3. QED
    BY <2>1, <2>2 DEF PG!Init, EmptyDatabase
<1>2. TypeInv /\ MirrorInv /\ OrdinaryInv /\ [Next]_vars => [PG!Next]_(PG!vars)
  BY StepRefines
<1>3. QED
  BY <1>1, <1>2, OrdinaryInvariant, PTL DEF Spec, IsPgTransaction, PG!Spec

-----------------------------------------------------------------------------
(* Settings survive the session's clones, when requests do not overlap *)

SettingsInv ==
  \A c \in Clients : pc[c] \in {"apply", "store", "abort"} =>
    /\ frame[c].next.current_user = session.current_user
    /\ frame[c].next.search_path = session.search_path

\* No control statement changes a setting.
LEMMA HandleKeepsSettings ==
  ASSUME NEW s \in Session, NEW op \in Control, NEW n \in Names, NEW t \in Handle(op, n, s)
  PROVE  t.current_user = s.current_user /\ t.search_path = s.search_path
<1>1. CASE op \in {"BEGIN", "COMMIT", "ROLLBACK", "SAVEPOINT"}
  BY <1>1 DEF Handle, HandleBegin, HandleCommit, HandleRollback, HandleSavepoint, Session
<1>2. CASE op = "ROLLBACK TO"
  <2>1. t = s \/ \E i \in NewestMark(s.savepoints, n) :
          t = [s EXCEPT !.savepoints = SubSeq(s.savepoints, 1, i),
                        !.status = IF s.status = "InError" THEN "InTransaction" ELSE s.status]
    BY <1>2 DEF Handle, HandleRollbackTo
  <2>2. QED
    BY <2>1 DEF Session
<1>3. CASE op = "RELEASE"
  BY <1>3 DEF Handle, HandleRelease, Session
<1>4. QED
  BY <1>1, <1>2, <1>3 DEF Control

LEMMA NextSettingsInv ==
  ASSUME SerialUse, TypeInv, MirrorInv, SettingsInv, [Next]_vars
  PROVE  SettingsInv'
<1> DEFINE Cloned == {"apply", "store", "abort"}
<1>t. /\ session \in Session
      /\ pc \in [Clients -> {"ready", "apply", "store", "check", "exec", "fail", "abort"}]
      /\ frame \in [Clients -> Frames]
      /\ \A c, d \in Clients : pc[c] # "ready" /\ pc[d] # "ready" => c = d
  BY DEF TypeInv, TypeOK, Frames, MirrorInv
<1>b. ASSUME NEW c \in Clients, pc[c] # "ready"
      PROVE  \A d \in Clients \ {c} : pc[d] = "ready"
  BY <1>t, <1>b
<1>r. ASSUME NEW c \in Clients, MayStart(c)
      PROVE  \A d \in Clients : pc[d] = "ready"
  BY <1>r DEF MayStart, SerialUse
<1>q. ASSUME NEW c \in Clients, \A d \in Clients \ {c} : pc'[d] = "ready", pc'[c] \notin Cloned
      PROVE  SettingsInv'
  BY <1>q DEF SettingsInv
<1>v. ASSUME NEW c \in Clients, pc[c] # "ready", Return(c) PROVE SettingsInv'
  BY <1>t, <1>q, <1>b, <1>v DEF Return
<1>w. ASSUME NEW c \in Clients, pc[c] # "ready", NEW label \in {"exec", "fail"}, Goto(c, label)
      PROVE  SettingsInv'
  BY <1>t, <1>q, <1>b, <1>w DEF Goto
<1>e. ASSUME NEW c \in Clients, \A d \in Clients \ {c} : pc[d] = "ready", UNCHANGED session,
             NEW label, NEW op, NEW arg, NEW prev, NEW next \in Session,
             Enter(c, label, op, arg, prev, next),
             next.current_user = session.current_user, next.search_path = session.search_path
      PROVE  SettingsInv'
  BY <1>t, <1>e DEF Enter, SettingsInv
<1>1. CASE Crash
  BY <1>1 DEF Crash, SettingsInv
<1>2. ASSUME NEW c \in Clients, Request(c) PROVE SettingsInv'
  <2>1. ASSUME NEW op \in Control, NEW n \in Names, ReadSession(c, op, n) PROVE SettingsInv'
    <3>1. PICK next \in Handle(op, n, session) : Enter(c, "apply", op, n, session.status, next)
      BY <2>1 DEF ReadSession
    <3>2. MayStart(c) /\ UNCHANGED session
      BY <2>1 DEF ReadSession, MaySend
    <3>3. next \in Session /\ next.current_user = session.current_user
          /\ next.search_path = session.search_path
      BY <1>t, HandleType, HandleKeepsSettings
    <3>4. QED
      BY <1>r, <1>e, <3>1, <3>2, <3>3
  <2>2. ASSUME NEW op, NEW arg, StartStatement(c, op, arg) PROVE SettingsInv'
    BY <1>t, <1>r, <1>q, <2>2 DEF StartStatement, MaySend, Enter
  <2>3. ASSUME NEW path \in Paths, SetSearchPath(c, path) PROVE SettingsInv'
    BY <1>r, <1>q, <2>3 DEF SetSearchPath, MaySend
  <2>4. QED
    BY <1>2, <2>1, <2>2, <2>3 DEF Request
<1>3. ASSUME NEW c \in Clients, ApplyToSqlite(c) \/ CommitFails(c) PROVE SettingsInv'
  <2>1. pc[c] = "apply" /\ Goto(c, "store") /\ UNCHANGED session
    BY <1>3 DEF ApplyToSqlite, CommitFails
  <2>2. QED
    BY <1>t, <1>b, <2>1 DEF Goto, SettingsInv
<1>4. ASSUME NEW c \in Clients, Execute(c) \/ ExecuteFails(c) \/ ExecuteRaw(c) PROVE SettingsInv'
  BY <1>v, <1>w, <1>4 DEF Execute, ExecuteFails, ExecuteRaw
<1>5. ASSUME NEW c \in Clients, ReadForAbort(c) PROVE SettingsInv'
  <2>1. pc[c] = "fail" /\ UNCHANGED session
    BY <1>5 DEF ReadForAbort
  <2>2. CASE Return(c)
    BY <1>v, <2>1, <2>2
  <2>3. CASE Enter(c, "abort", frame[c].op, frame[c].arg, "Idle", [session EXCEPT !.status = "InError"])
    <3>1. [session EXCEPT !.status = "InError"] \in Session
      BY <1>t DEF Session, Status
    <3>2. /\ [session EXCEPT !.status = "InError"].current_user = session.current_user
          /\ [session EXCEPT !.status = "InError"].search_path = session.search_path
      BY <1>t DEF Session
    <3>3. QED
      BY <1>b, <1>e, <2>1, <2>3, <3>1, <3>2
  <2>4. QED
    BY <1>5, <2>2, <2>3 DEF ReadForAbort
<1>6. ASSUME NEW c \in Clients,
             StoreSession(c) \/ CheckErrorState(c) \/ SetRole(c) \/ StoreAbort(c)
      PROVE  SettingsInv'
  BY <1>v, <1>w, <1>6 DEF StoreSession, CheckErrorState, SetRole, StoreAbort
<1>7. ASSUME NEW c \in Clients, Disconnect(c) PROVE SettingsInv'
  BY <1>7 DEF Disconnect, SettingsInv
<1>d. ASSUME NEW c \in Clients, NEW r \in Rows, DropFunction(c, r) PROVE SettingsInv'
  BY <1>d DEF DropFunction, SettingsInv
<1>8. CASE UNCHANGED vars
  BY <1>8 DEF vars, SettingsInv
<1>9. QED
  BY <1>d, <1>1, <1>2, <1>3, <1>4, <1>5, <1>6, <1>7, <1>8 DEF Next, Acquire, Continue

\* When requests do not overlap, inserting a clone back takes no setting with
\* it: SET ROLE and SET search_path survive the end of the block, its failure
\* and its savepoints.
THEOREM SerialSettingsSurvive ==
  ASSUME SerialUse
  PROVE  Spec => OnlySetChangesSettings
<1>1. TypeInv /\ SettingsInv /\ [Next]_vars =>
        [ (\E c \in Clients : StoreSession(c) \/ StoreAbort(c))
            => UNCHANGED <<session.current_user, session.search_path>> ]_vars
  BY DEF SettingsInv, StoreSession, StoreAbort
<1>2. TypeInv /\ MirrorInv /\ [Next]_vars => MirrorInv'
  BY NextMirrorInv
<1>3. TypeInv /\ MirrorInv /\ SettingsInv /\ [Next]_vars => SettingsInv'
  BY NextSettingsInv
<1>4. Init => SettingsInv
  BY DEF Init, SettingsInv
<1>5. QED
  BY <1>1, <1>2, <1>3, <1>4, InitTypeInv, NextTypeInv, InitMirrorInv, PTL
     DEF Spec, OnlySetChangesSettings

-----------------------------------------------------------------------------
(* Confirmed rows, when one client has the proxy to itself *)

\* Every state a rollback or a restart can return to holds the given rows.
Kept(rows, d) ==
  /\ rows \subseteq d.durable
  /\ rows \subseteq d.view
  /\ \A i \in 1..Len(d.marks) : rows \subseteq d.marks[i].view

LEMMA EndTransactionKept ==
  ASSUME NEW d, NEW rows, NEW kept, kept \subseteq rows
  PROVE  Kept(kept, EndTransaction(d, rows))
BY DEF EndTransaction, Kept

\* A row inserted outside a transaction is kept from then on.
LEMMA InsertKept ==
  ASSUME NEW d \in DB, Coherent(d), NEW kept, Kept(kept, d), NEW r \in Rows
  PROVE  /\ Kept(kept, SqlInsert(d, r))
         /\ d.mode = "autocommit" => Kept(kept \cup {r}, SqlInsert(d, r))
<1>1. /\ SqlInsert(d, r).view = d.view \cup {r} /\ SqlInsert(d, r).marks = d.marks
      /\ SqlInsert(d, r).durable = IF d.mode = "autocommit" THEN d.view \cup {r} ELSE d.durable
  BY DEF SqlInsert, DB, Database
<1>2. CASE d.mode = "autocommit"
  <2>1. d.marks = <<>> /\ d.view = d.durable
    BY <1>2 DEF Coherent
  <2>2. QED
    BY <1>1, <1>2, <2>1 DEF Kept
<1>3. CASE d.mode # "autocommit"
  BY <1>1, <1>3 DEF Kept
<1>4. QED
  BY <1>2, <1>3

\* A deletion takes only the row it names.
LEMMA DeleteKept ==
  ASSUME NEW d \in DB, NEW kept, Kept(kept, d), NEW r
  PROVE  Kept(kept \ {r}, SqlDelete(d, r))
<1>1. /\ SqlDelete(d, r).view = d.view \ {r} /\ SqlDelete(d, r).marks = d.marks
      /\ SqlDelete(d, r).durable = IF d.mode = "autocommit" THEN d.view \ {r} ELSE d.durable
  BY DEF SqlDelete, DB, Database
<1>2. QED
  BY <1>1 DEF Kept

\* Cutting the savepoint stack keeps what the remaining savepoints hold.
LEMMA CutKept ==
  ASSUME NEW d \in DB, NEW kept, Kept(kept, d), NEW i \in 0..Len(d.marks), NEW e,
         e.durable = d.durable, kept \subseteq e.view, e.marks = SubSeq(d.marks, 1, i)
  PROVE  Kept(kept, e)
<1>1. d.marks \in Seq(Mark)
  BY DEF DB, Database, Mark
<1>2. /\ Len(SubSeq(d.marks, 1, i)) = i /\ Len(d.marks) \in Nat
      /\ \A j \in 1..i : SubSeq(d.marks, 1, i)[j] = d.marks[j]
  BY <1>1, PrefixType
<1>3. QED
  BY <1>2 DEF Kept

\* No control statement takes a kept row away.
LEMMA SqliteAfterKept ==
  ASSUME NEW d \in DB, NEW kept, Kept(kept, d), NEW n \in Names,
         NEW op, NEW prev, NEW next, NEW e \in SqliteAfter(op, n, prev, next, d)
  PROVE  Kept(kept, e)
<1>1. \/ e = SqlBegin(d) \/ e = SqlCommit(d) \/ e = SqlRollback(d) \/ e = SqlSavepoint(d, n)
      \/ e \in SqlRollbackTo(d, n) \/ e \in SqlRelease(d, n) \/ e = d
  BY DEF SqliteAfter
<1>2. d.marks \in Seq(Mark)
  BY DEF DB, Database, Mark
<1>3. CASE e = SqlBegin(d)
  BY <1>3 DEF SqlBegin, Kept, DB, Database
<1>4. CASE e = SqlCommit(d)
  BY <1>4, EndTransactionKept DEF SqlCommit, Kept
<1>5. CASE e = SqlRollback(d)
  BY <1>5, EndTransactionKept DEF SqlRollback, Kept
<1>6. CASE e = SqlSavepoint(d, n)
  <2>1. /\ e.durable = d.durable /\ e.view = d.view
        /\ e.marks = Append(d.marks, [name |-> n, view |-> d.view])
    BY <1>6 DEF SqlSavepoint, DB, Database
  <2>2. /\ Len(e.marks) = Len(d.marks) + 1 /\ Len(d.marks) \in Nat
        /\ \A i \in 1..Len(d.marks) + 1 :
             e.marks[i] = IF i = Len(d.marks) + 1 THEN [name |-> n, view |-> d.view] ELSE d.marks[i]
    BY <1>2, <2>1
  <2>3. \A i \in 1..Len(e.marks) : kept \subseteq e.marks[i].view
    BY <2>2 DEF Kept
  <2>4. QED
    BY <2>1, <2>3 DEF Kept
<1>7. CASE e \in SqlRollbackTo(d, n)
  <2>1. ASSUME NEW i \in 1..Len(d.marks),
               e = [d EXCEPT !.view = d.marks[i].view, !.marks = SubSeq(d.marks, 1, i)]
        PROVE  Kept(kept, e)
    <3>1. e.durable = d.durable /\ e.view = d.marks[i].view /\ e.marks = SubSeq(d.marks, 1, i)
      BY <2>1 DEF DB, Database
    <3>2. kept \subseteq e.view /\ i \in 0..Len(d.marks)
      BY <1>2, <3>1 DEF Kept
    <3>3. QED
      BY <3>1, <3>2, CutKept
  <2>2. QED
    BY <1>7, <2>1, RollbackToShape
<1>8. CASE e \in SqlRelease(d, n)
  <2>1. ASSUME NEW i \in 1..Len(d.marks), e = [d EXCEPT !.marks = SubSeq(d.marks, 1, i - 1)]
        PROVE  Kept(kept, e)
    <3>1. e.durable = d.durable /\ e.view = d.view /\ e.marks = SubSeq(d.marks, 1, i - 1)
      BY <2>1 DEF DB, Database
    <3>2. kept \subseteq e.view /\ i - 1 \in 0..Len(d.marks)
      BY <1>2, <3>1 DEF Kept
    <3>3. QED
      BY <3>1, <3>2, CutKept
  <2>2. QED
    BY <1>4, <1>8, <2>1, ReleaseShape
<1>9. QED
  BY <1>1, <1>3, <1>4, <1>5, <1>6, <1>7, <1>8

\* One client that stays, whose requests therefore do not overlap.
SoleUse(c) == Clients = {c} /\ SerialUse /\ "disconnect" \notin Env

\* A client that was not told BEGIN is outside a block, unless the answer to
\* its BEGIN is on its way.
BlockInv(c) ==
  /\ c \notin block /\ pc[c] # "store" => session.status = "Idle"
  /\ pc[c] = "store" =>
       /\ frame[c].op \in {"COMMIT", "ROLLBACK"} => frame[c].next.status = "Idle"
       /\ c \notin block /\ frame[c].op # "BEGIN" => frame[c].next.status = "Idle"

\* Only BEGIN opens a block, and COMMIT and ROLLBACK end it.
LEMMA HandleBlock ==
  ASSUME NEW s \in Session, NEW op \in Control, NEW n \in Names, NEW t \in Handle(op, n, s)
  PROVE  /\ op \in {"COMMIT", "ROLLBACK"} => t.status = "Idle"
         /\ s.status = "Idle" /\ op # "BEGIN" => t.status = "Idle"
<1>1. CASE op \in {"BEGIN", "COMMIT", "ROLLBACK", "SAVEPOINT"}
  BY <1>1 DEF Handle, HandleBegin, HandleCommit, HandleRollback, HandleSavepoint, Session
<1>2. CASE op = "ROLLBACK TO"
  <2>1. t = s \/ \E i \in NewestMark(s.savepoints, n) :
          t = [s EXCEPT !.savepoints = SubSeq(s.savepoints, 1, i),
                        !.status = IF s.status = "InError" THEN "InTransaction" ELSE s.status]
    BY <1>2 DEF Handle, HandleRollbackTo
  <2>2. QED
    BY <1>2, <2>1 DEF Session
<1>3. CASE op = "RELEASE"
  BY <1>3 DEF Handle, HandleRelease, Session
<1>4. QED
  BY <1>1, <1>2, <1>3 DEF Control

LEMMA NextBlockInv ==
  ASSUME NEW c, SoleUse(c), TypeInv, MirrorInv, BlockInv(c), [Next]_vars
  PROVE  BlockInv(c)'
<1>t. /\ session \in Session /\ Clients = {c} /\ c \in Clients
      /\ pc \in [Clients -> {"ready", "apply", "store", "check", "exec", "fail", "abort"}]
      /\ frame \in [Clients -> Frames] /\ FrameOK
  BY DEF TypeInv, TypeOK, Frames, SoleUse
<1>k. ASSUME pc'[c] # "store", session'.status = session.status, UNCHANGED block, pc[c] # "store"
      PROVE  BlockInv(c)'
  BY <1>k DEF BlockInv
<1>1. CASE Crash
  <2>1. pc'[c] = "ready" /\ session'.status = "Idle"
    <3>1. \A role, path : NewSession(role, path).status = "Idle"
      BY DEF NewSession
    <3>2. QED
      BY <1>1, <1>t, <3>1 DEF Crash
  <2>2. QED
    BY <2>1 DEF BlockInv
<1>2. CASE Request(c)
  <2>1. pc[c] = "ready" /\ UNCHANGED block
    BY <1>2 DEF Request, ReadSession, StartStatement, SetSearchPath, MaySend, MayStart
  <2>2. pc'[c] \in {"ready", "apply", "check"}
    BY <1>2, <1>t, <2>1 DEF Request, ReadSession, StartStatement, SetSearchPath, Enter
  <2>3. session'.status = session.status
    <3>1. UNCHANGED session \/ \E path \in Paths : session' = [session EXCEPT !.search_path = path]
      BY <1>2 DEF Request, ReadSession, StartStatement, SetSearchPath
    <3>2. QED
      BY <1>t, <3>1 DEF Session
  <2>4. QED
    BY <1>k, <2>1, <2>2, <2>3
<1>3. CASE ApplyToSqlite(c)
  <2>1. /\ pc[c] = "apply" /\ pc'[c] = "store" /\ UNCHANGED <<session, frame, block>>
    BY <1>3, <1>t DEF ApplyToSqlite, Goto
  <2>2. /\ frame[c].op \in Control /\ frame[c].arg \in Names
        /\ frame[c].next \in Handle(frame[c].op, frame[c].arg, session)
    BY <1>t, <2>1 DEF FrameOK, MirrorInv
  <2>3. /\ frame[c].op \in {"COMMIT", "ROLLBACK"} => frame[c].next.status = "Idle"
        /\ session.status = "Idle" /\ frame[c].op # "BEGIN" => frame[c].next.status = "Idle"
    BY <1>t, <2>2, HandleBlock
  <2>4. QED
    BY <2>1, <2>3 DEF BlockInv
<1>4. CASE Execute(c) \/ ExecuteFails(c) \/ CheckErrorState(c)
  BY <1>4, <1>t, <1>k DEF Execute, ExecuteFails, CheckErrorState, Return, Goto
<1>5. CASE CommitFails(c) \/ ExecuteRaw(c) \/ Disconnect(c)
  <2>1. frame[c].op \in Statements \cup {"NONE"}
    BY <1>t DEF Frames
  <2>2. QED
    BY <1>5, <2>1 DEF CommitFails, ExecuteRaw, RawControl, Disconnect, SoleUse, SerialUse
<1>6. CASE StoreSession(c)
  <2>1. /\ pc[c] = "store" /\ session' = frame[c].next /\ pc'[c] = "ready"
        /\ block' = CASE frame[c].op = "BEGIN"                  -> block \cup {c}
                      [] frame[c].op \in {"COMMIT", "ROLLBACK"} -> block \ {c}
                      [] OTHER                                  -> block
    BY <1>6, <1>t DEF StoreSession, Return
  <2>2. c \notin block' => session'.status = "Idle"
    <3>1. CASE frame[c].op = "BEGIN"
      BY <2>1, <3>1
    <3>2. CASE frame[c].op \in {"COMMIT", "ROLLBACK"}
      BY <2>1, <3>2 DEF BlockInv
    <3>3. CASE frame[c].op \notin {"BEGIN", "COMMIT", "ROLLBACK"}
      BY <2>1, <3>3 DEF BlockInv
    <3>4. QED
      BY <3>1, <3>2, <3>3
  <2>3. QED
    BY <2>1, <2>2 DEF BlockInv
<1>7. CASE SetRole(c)
  <2>1. /\ pc[c] = "exec" /\ pc'[c] = "ready" /\ UNCHANGED block
        /\ session' = [session EXCEPT !.current_user = frame[c].arg]
    BY <1>7, <1>t DEF SetRole, Return
  <2>2. session'.status = session.status
    BY <1>t, <2>1 DEF Session
  <2>3. QED
    BY <1>k, <2>1, <2>2
<1>8. CASE ReadForAbort(c)
  <2>1. pc[c] = "fail" /\ pc'[c] \in {"ready", "abort"} /\ UNCHANGED <<session, block>>
    BY <1>8, <1>t DEF ReadForAbort, Return, Enter
  <2>2. QED
    BY <1>k, <2>1
<1>9. CASE StoreAbort(c)
  <2>1. pc[c] = "abort" /\ pc'[c] = "ready" /\ UNCHANGED block
    BY <1>9, <1>t DEF StoreAbort, Return
  <2>2. session.status = "InTransaction"
    BY <1>t, <2>1 DEF MirrorInv
  <2>3. QED
    BY <2>1, <2>2 DEF BlockInv
<1>d. ASSUME NEW r \in Rows, DropFunction(c, r) PROVE BlockInv(c)'
  BY <1>d DEF DropFunction, BlockInv
<1>10. CASE UNCHANGED vars
  BY <1>10 DEF vars, BlockInv
<1>11. QED
  BY <1>d, <1>t, <1>1, <1>2, <1>3, <1>4, <1>5, <1>6, <1>7, <1>8, <1>9, <1>10
     DEF Next, Acquire, Continue

\* No step takes a confirmed row away but the deletion somebody asked for, and a
\* row is confirmed only when it is committed.
LEMMA NextAcked ==
  ASSUME NEW c, SoleUse(c), TypeInv, MirrorInv, BlockInv(c), Kept(acked, db), [Next]_vars
  PROVE  Kept(acked, db)'
<1>t. db \in DB /\ Coherent(db) /\ FrameOK /\ Clients = {c} /\ c \in Clients
      /\ \A d \in Clients : pc[d] = "store" <=> conn = d
  BY DEF TypeInv, TypeOK, DB, Coherent, SoleUse
<1>u. ASSUME UNCHANGED acked, db' = db \/ db' = SqlRollback(db) PROVE Kept(acked, db)'
  BY <1>u, EndTransactionKept DEF SqlRollback, Kept
<1>1. CASE Crash
  BY <1>1, EndTransactionKept DEF Crash, Kept
<1>2. CASE Request(c) \/ Continue(c) \/ Disconnect(c) \/ CommitFails(c)
  <2>1. UNCHANGED <<db, acked>>
    BY <1>2 DEF Request, ReadSession, StartStatement, SetSearchPath, Disconnect, CommitFails,
           Continue, StoreSession, CheckErrorState, SetRole, ReadForAbort, StoreAbort
  <2>2. QED
    BY <1>u, <2>1
<1>3. CASE ApplyToSqlite(c)
  <2>1. /\ frame[c].arg \in Names /\ UNCHANGED acked
        /\ db' \in SqliteAfter(frame[c].op, frame[c].arg, frame[c].prev, frame[c].next.status, db)
    BY <1>t, <1>3 DEF ApplyToSqlite, FrameOK
  <2>2. QED
    BY <1>t, <2>1, SqliteAfterKept
<1>4. CASE Execute(c)
  <2>1. /\ pc[c] = "exec" /\ conn = Free /\ frame[c].arg \in Rows
        /\ db' = SqlInsert(db, frame[c].arg)
        /\ acked' = IF c \in block THEN acked ELSE acked \cup {frame[c].arg}
    BY <1>t, <1>4 DEF Execute, FrameOK
  <2>2. c \notin block => db.mode = "autocommit"
    BY <2>1 DEF BlockInv, MirrorInv, Mirror, Current
  <2>3. QED
    BY <1>t, <2>1, <2>2, InsertKept
<1>5. CASE ExecuteRaw(c)
  <2>1. frame[c].op \in Statements \cup {"NONE"}
    BY <1>t DEF TypeInv, TypeOK
  <2>2. QED
    BY <1>5, <2>1 DEF ExecuteRaw, RawControl, SoleUse, SerialUse
<1>6. CASE ExecuteFails(c)
  BY <1>u, <1>6 DEF ExecuteFails
<1>7. ASSUME NEW r \in Rows, DropFunction(c, r) PROVE Kept(acked, db)'
  BY <1>t, <1>7, DeleteKept DEF DropFunction
<1>8. CASE UNCHANGED vars
  BY <1>u, <1>8 DEF vars
<1>9. QED
  BY <1>t, <1>1, <1>2, <1>3, <1>4, <1>5, <1>6, <1>7, <1>8 DEF Next, Acquire

\* A client that has the proxy to itself finds every row it was told is
\* inserted, outside a block, after any restart: the row is committed when the
\* answer is sent, and nothing it or a crash does later takes it back, but the
\* deletion it asks for.
THEOREM SoleClientKeepsItsRows ==
  ASSUME NEW CONSTANT c, SoleUse(c)
  PROVE  Spec => []AckedRowsAreDurable
<1>0. SerialUse
  BY DEF SoleUse
<1>1. TypeInv /\ MirrorInv /\ [Next]_vars => MirrorInv'
  BY <1>0, NextMirrorInv
<1>2. TypeInv /\ MirrorInv /\ BlockInv(c) /\ [Next]_vars => BlockInv(c)'
  BY NextBlockInv
<1>3. TypeInv /\ MirrorInv /\ BlockInv(c) /\ Kept(acked, db) /\ [Next]_vars => Kept(acked, db)'
  BY NextAcked
<1>4. Kept(acked, db) => AckedRowsAreDurable
  BY DEF Kept, AckedRowsAreDurable
<1>5. Init => BlockInv(c) /\ Kept(acked, db)
  <2> SUFFICES ASSUME Init PROVE BlockInv(c) /\ Kept(acked, db)
    OBVIOUS
  <2>1. session.status = "Idle" /\ pc[c] # "store"
    BY DEF Init, NewSession, SoleUse
  <2>2. QED
    BY <2>1 DEF Init, BlockInv, Kept, EmptyDatabase
<1>6. QED
  BY <1>1, <1>2, <1>3, <1>4, <1>5, InitTypeInv, NextTypeInv, InitMirrorInv, PTL DEF Spec
=============================================================================
