--------------------------- MODULE PgTransaction ---------------------------
(***************************************************************************)
(* What the proxy promises its client about transactions: the behaviour of *)
(* one PostgreSQL session over a set of rows.  A statement that fails      *)
(* aborts the block it is in; an aborted block can only be rolled back,    *)
(* to one of its savepoints or to its beginning.                           *)
(***************************************************************************)
EXTENDS Naturals, Sequences

CONSTANTS Names,   \* savepoint names
          Rows     \* rows a client may insert and delete

VARIABLES
  blk,       \* "Idle", "InTransaction" or "InError"
  durable,   \* committed rows: what a restart finds
  view,      \* rows the session sees
  marks      \* the block's savepoints, oldest first, with the rows each saved

vars == <<blk, durable, view, marks>>

Init ==
  /\ blk = "Idle"
  /\ durable = {}
  /\ view = {}
  /\ marks = <<>>

EndBlock(rows) ==
  /\ blk' = "Idle"
  /\ durable' = rows
  /\ view' = rows
  /\ marks' = <<>>

Begin ==
  /\ blk = "Idle"
  /\ blk' = "InTransaction"
  /\ UNCHANGED <<durable, view, marks>>

\* COMMIT of an aborted block is its rollback.
Commit   == blk # "Idle" /\ EndBlock(IF blk = "InError" THEN durable ELSE view)
Rollback == blk # "Idle" /\ EndBlock(durable)
Crash    == EndBlock(durable)

Savepoint(n) ==
  /\ blk = "InTransaction"
  /\ marks' = Append(marks, [name |-> n, view |-> view])
  /\ UNCHANGED <<blk, durable, view>>

Newest(n, i) ==
  /\ i \in 1..Len(marks)
  /\ marks[i].name = n
  /\ \A j \in (i+1)..Len(marks) : marks[j].name # n

RollbackTo(n) ==
  \E i \in 1..Len(marks) :
    /\ Newest(n, i)
    /\ blk # "Idle"
    /\ blk' = "InTransaction"
    /\ view' = marks[i].view
    /\ marks' = SubSeq(marks, 1, i)
    /\ UNCHANGED durable

Release(n) ==
  \E i \in 1..Len(marks) :
    /\ Newest(n, i)
    /\ blk = "InTransaction"
    /\ marks' = SubSeq(marks, 1, i - 1)
    /\ UNCHANGED <<blk, durable, view>>

Insert(r) ==
  /\ blk # "InError"
  /\ view' = view \cup {r}
  /\ durable' = IF blk = "Idle" THEN view' ELSE durable
  /\ UNCHANGED <<blk, marks>>

Delete(r) ==
  /\ blk # "InError"
  /\ view' = view \ {r}
  /\ durable' = IF blk = "Idle" THEN view' ELSE durable
  /\ UNCHANGED <<blk, marks>>

Fail ==
  /\ blk = "InTransaction"
  /\ blk' = "InError"
  /\ UNCHANGED <<durable, view, marks>>

Next ==
  \/ Begin \/ Commit \/ Rollback \/ Fail \/ Crash
  \/ \E n \in Names : Savepoint(n) \/ RollbackTo(n) \/ Release(n)
  \/ \E r \in Rows : Insert(r) \/ Delete(r)

Spec == Init /\ [][Next]_vars
=============================================================================
