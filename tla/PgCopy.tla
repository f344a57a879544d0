------------------------------- MODULE PgCopy -------------------------------
(***************************************************************************)
(* What COPY FROM STDIN promises a client: the lines it sends belong to    *)
(* its own operation and reach the table it named, in order, when it says  *)
(* CopyDone.  Of an operation that fails, at most the first lines do, and  *)
(* the rest are discarded.                                                 *)
(***************************************************************************)
EXTENDS Naturals, Sequences

CONSTANTS
  Clients, Tables,
  Lines,     \* lines of COPY data
  Bad        \* the lines SQLite refuses to insert

VARIABLES
  tables,    \* the rows of each table, as the next statement sees them
  saved,     \* what ROLLBACK or a crash restores
  block,     \* whether a transaction block is open
  phase,     \* "ready" or "copying", of each client
  op,        \* the operation of each copying client: its table, and whether a header comes first
  sent       \* the lines the client sent in it

vars == <<tables, saved, block, phase, op, sent>>

Contents == [Tables -> Seq(Lines)]
Ops      == [table : Tables, header : BOOLEAN]
NoOp     == CHOOSE o \in Ops : ~o.header
Phases   == {"ready", "copying"}

Init ==
  /\ tables = [t \in Tables |-> <<>>]
  /\ saved = tables
  /\ block = FALSE
  /\ phase = [c \in Clients |-> "ready"]
  /\ op = [c \in Clients |-> NoOp]
  /\ sent = [c \in Clients |-> <<>>]

Store(new) == tables' = new /\ saved' = IF block THEN saved ELSE new

Start(c, o) ==
  /\ phase[c] = "ready"
  /\ phase' = [phase EXCEPT ![c] = "copying"]
  /\ op' = [op EXCEPT ![c] = o]
  /\ UNCHANGED <<tables, saved, block, sent>>

Send(c, l) ==
  /\ phase[c] = "copying"
  /\ sent' = [sent EXCEPT ![c] = Append(@, l)]
  /\ UNCHANGED <<tables, saved, block, phase, op>>

Rows(c) == IF op[c].header /\ sent[c] # <<>> THEN Tail(sent[c]) ELSE sent[c]

Stored(c, n) == [tables EXCEPT ![op[c].table] = @ \o SubSeq(Rows(c), 1, n)]

End(c) ==
  /\ phase[c] = "copying"
  /\ phase' = [phase EXCEPT ![c] = "ready"]
  /\ op' = [op EXCEPT ![c] = NoOp]
  /\ sent' = [sent EXCEPT ![c] = <<>>]
  /\ UNCHANGED block

Finish(c) ==
  /\ End(c)
  /\ \A i \in 1..Len(Rows(c)) : Rows(c)[i] \notin Bad
  /\ Store(Stored(c, Len(Rows(c))))

\* CopyFail, a lost connection, or CopyDone after bad lines.
Fail(c) ==
  /\ End(c)
  /\ \/ UNCHANGED <<tables, saved>>
     \/ \E n \in 0..Len(Rows(c)) : Store(Stored(c, n))

Begin ==
  /\ ~block
  /\ block' = TRUE
  /\ UNCHANGED <<tables, saved, phase, op, sent>>

Commit ==
  /\ block' = FALSE
  /\ saved' = tables
  /\ UNCHANGED <<tables, phase, op, sent>>

Rollback ==
  /\ block' = FALSE
  /\ tables' = saved
  /\ UNCHANGED <<saved, phase, op, sent>>

Crash ==
  /\ \/ UNCHANGED saved
     \/ /\ ~block
        /\ \E c \in Clients : phase[c] = "copying"
             /\ \E n \in 0..Len(Rows(c)) : saved' = Stored(c, n)
  /\ tables' = saved'
  /\ block' = FALSE
  /\ phase' = [c \in Clients |-> "ready"]
  /\ op' = [c \in Clients |-> NoOp]
  /\ sent' = [c \in Clients |-> <<>>]

Next ==
  \/ \E c \in Clients :
       \/ \E o \in Ops : Start(c, o)
       \/ \E l \in Lines : Send(c, l)
       \/ Finish(c)
       \/ Fail(c)
  \/ Begin
  \/ Commit
  \/ Rollback
  \/ Crash

Spec == Init /\ [][Next]_vars
=============================================================================
