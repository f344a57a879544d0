-------------------------------- MODULE Copy --------------------------------
(***************************************************************************)
(* COPY.  The server has one CopyHandler: every connection works on clones *)
(* that share its state, its buffer and the SQLite connection.  pgwire     *)
(* hands CopyData, CopyDone and CopyFail to it while a connection is in    *)
(* COPY mode.  A line is either stored or refused by SQLite; how lines are *)
(* parsed is CopyCodec's subject.  Left out: the row count, which no code  *)
(* in use reads.                                                           *)
(***************************************************************************)
EXTENDS Naturals, Sequences

CONSTANTS
  Clients, Tables,
  Lines,     \* lines of COPY data
  Bad,       \* the lines SQLite refuses to insert
  Overlap,   \* whether a client may start a statement while another copies
  MaxLines,  \* bound on the lines of one COPY
  MaxRows    \* bound on the rows of a table when a COPY starts

ASSUME CopyAssumption ==
  /\ Tables # {}
  /\ Overlap \in BOOLEAN
  /\ MaxLines \in Nat
  /\ MaxRows \in Nat

VARIABLES
  state,     \* CopyState, shared: its variant and the options that matter
  buffer,    \* the lines received, shared
  status,    \* status of the session all connections share
  tables,    \* the rows of each table, as the next statement sees them
  saved,     \* what ROLLBACK or a crash restores
  phase,     \* of each client: "ready", "copying", or "clearing" in CopyDone
  op,        \* history: the operation each copying client asked for
  sent       \* history: the lines it sent in it

handler == <<state, buffer>>
db      == <<tables, saved>>
client  == <<phase, op, sent>>
vars    == <<handler, status, db, client>>

Ops    == [table : Tables, header : BOOLEAN]
NoOp   == CHOOSE o \in Ops : ~o.header
States == [mode : {"Idle", "FromStdin", "ToStdout"}, op : Ops]
Without(mode) == [mode |-> mode, op |-> NoOp]

Init ==
  /\ state = Without("Idle")
  /\ buffer = <<>>
  /\ status = "Idle"
  /\ tables = [t \in Tables |-> <<>>]
  /\ saved = tables
  /\ phase = [c \in Clients |-> "ready"]
  /\ op = [c \in Clients |-> NoOp]
  /\ sent = [c \in Clients |-> <<>>]

\* A client sends a statement when its last one was answered.
Turn(c) ==
  /\ phase[c] = "ready"
  /\ Overlap \/ \A d \in Clients : phase[d] = "ready"

\* The client's operation is over: p is "clearing" while CopyDone still runs.
Over(c, p) ==
  /\ phase' = [phase EXCEPT ![c] = p]
  /\ op' = [op EXCEPT ![c] = NoOp]
  /\ sent' = [sent EXCEPT ![c] = <<>>]

-----------------------------------------------------------------------------
(* The COPY statements *)

\* Faulty variant: COPY is handled before the error check.
CopyFromUnchecked(c, o) ==
  /\ Turn(c)
  /\ \A t \in Tables : Len(tables[t]) <= MaxRows
  /\ state' = [mode |-> "FromStdin", op |-> o]
  /\ buffer' = <<>>
  /\ phase' = [phase EXCEPT ![c] = "copying"]
  /\ op' = [op EXCEPT ![c] = o]
  /\ UNCHANGED <<status, db, sent>>

\* Faulty variant: the buffer is left to the end of the operation before.
CopyFromKeepsBuffer(c, o) ==
  /\ Turn(c)
  /\ status # "InError"
  /\ \A t \in Tables : Len(tables[t]) <= MaxRows
  /\ state' = [mode |-> "FromStdin", op |-> o]
  /\ phase' = [phase EXCEPT ![c] = "copying"]
  /\ op' = [op EXCEPT ![c] = o]
  /\ UNCHANGED <<buffer, status, db, sent>>

\* Refused in a failed block.
CopyFrom(c, o) ==
  /\ Turn(c)
  /\ status # "InError"
  /\ \A t \in Tables : Len(tables[t]) <= MaxRows
  /\ state' = [mode |-> "FromStdin", op |-> o]
  /\ buffer' = <<>>
  /\ phase' = [phase EXCEPT ![c] = "copying"]
  /\ op' = [op EXCEPT ![c] = o]
  /\ UNCHANGED <<status, db, sent>>

Failed == IF status = "InTransaction" THEN "InError" ELSE status

\* The whole result is produced before the answer; the state stays ToStdout.
CopyTo(c) ==
  /\ Turn(c)
  /\ status # "InError"
  /\ state' = Without("ToStdout")
  /\ status' \in {status, Failed}
  /\ UNCHANGED <<buffer, db, client>>

-----------------------------------------------------------------------------
(* The COPY messages *)

\* Faulty variant: the chunk is stored as one element.
CopyDataNested(c, l) ==
  /\ phase[c] = "copying"
  /\ Len(sent[c]) < MaxLines
  /\ buffer' = Append(buffer, <<l>>)
  /\ sent' = [sent EXCEPT ![c] = Append(@, l)]
  /\ UNCHANGED <<state, status, db, phase, op>>

CopyData(c, l) ==
  /\ phase[c] = "copying"
  /\ Len(sent[c]) < MaxLines
  /\ buffer' = Append(buffer, l)
  /\ sent' = [sent EXCEPT ![c] = Append(@, l)]
  /\ UNCHANGED <<state, status, db, phase, op>>

\* What CopyDone inserts, in the order of the buffer.
Rows ==
  IF state.mode # "FromStdin" THEN <<>>
  ELSE IF state.op.header /\ buffer # <<>> THEN Tail(buffer)
  ELSE buffer

\* The rows inserted before one is refused, or all of them.
Accepted(n) ==
  /\ \A i \in 1..n : Rows[i] \notin Bad
  /\ n < Len(Rows) => Rows[n + 1] \in Bad

Stored(n) == [tables EXCEPT ![state.op.table] = @ \o SubSeq(Rows, 1, n)]

\* Row by row, under the locks of state, buffer and connection.
Process(c) ==
  /\ phase[c] = "copying"
  /\ \E n \in 0..Len(Rows) :
       /\ Accepted(n)
       /\ tables' = Stored(n)
       /\ saved' = IF status = "Idle" THEN Stored(n) ELSE saved
       /\ Over(c, IF n = Len(Rows) THEN "clearing" ELSE "ready")
  /\ UNCHANGED <<handler, status>>

\* CopyDone goes on with the locks released; an error leaves out this part.
Clear(c) ==
  /\ phase[c] = "clearing"
  /\ buffer' = <<>>
  /\ phase' = [phase EXCEPT ![c] = "ready"]
  /\ UNCHANGED <<state, status, db, op, sent>>

CopyFail(c) ==
  /\ phase[c] = "copying"
  /\ state' = Without("Idle")
  /\ buffer' = <<>>
  /\ Over(c, "ready")
  /\ UNCHANGED <<status, db>>

-----------------------------------------------------------------------------
(* The rest of the server *)

\* The handler is not told of a connection that ends.
Disconnect(c) ==
  /\ phase[c] = "copying"
  /\ Over(c, "ready")
  /\ UNCHANGED <<handler, status, db>>

Begin(c) ==
  /\ Turn(c)
  /\ status = "Idle"
  /\ status' = "InTransaction"
  /\ UNCHANGED <<handler, db, client>>

Commit(c) ==
  /\ Turn(c)
  /\ status' = "Idle"
  /\ saved' = tables
  /\ UNCHANGED <<handler, tables, client>>

Rollback(c) ==
  /\ Turn(c)
  /\ status' = "Idle"
  /\ tables' = saved
  /\ UNCHANGED <<handler, saved, client>>

StatementFails(c) ==
  /\ Turn(c)
  /\ status' = Failed
  /\ UNCHANGED <<handler, db, client>>

\* The process ends and is started again, at worst among the inserts of a CopyDone.
Crash ==
  /\ \/ UNCHANGED saved
     \/ /\ status = "Idle"
        /\ \E c \in Clients : phase[c] = "copying"
        /\ \E n, m \in 0..Len(Rows) : n <= m /\ Accepted(m) /\ saved' = Stored(n)
  /\ tables' = saved'
  /\ state' = Without("Idle")
  /\ buffer' = <<>>
  /\ status' = "Idle"
  /\ phase' = [c \in Clients |-> "ready"]
  /\ op' = [c \in Clients |-> NoOp]
  /\ sent' = [c \in Clients |-> <<>>]

Next ==
  \/ \E c \in Clients :
       \/ \E o \in Ops : CopyFrom(c, o)
       \/ CopyTo(c)
       \/ \E l \in Lines : CopyData(c, l)
       \/ Process(c)
       \/ Clear(c)
       \/ CopyFail(c)
       \/ Disconnect(c)
       \/ Begin(c)
       \/ Commit(c)
       \/ Rollback(c)
       \/ StatementFails(c)
  \/ Crash

Spec == Init /\ [][Next]_vars

-----------------------------------------------------------------------------
(* Properties *)

\* The handler and the tables hold lines; a block is open when they differ.
TypeOK ==
  /\ state \in States
  /\ buffer \in Seq(Lines)
  /\ status \in {"Idle", "InTransaction", "InError"}
  /\ tables \in [Tables -> Seq(Lines)]
  /\ saved \in [Tables -> Seq(Lines)]
  /\ status = "Idle" => tables = saved
  /\ phase \in [Clients -> {"ready", "copying", "clearing"}]
  /\ op \in [Clients -> Ops]
  /\ sent \in [Clients -> Seq(Lines)]

PhaseSeen == [c \in Clients |-> IF phase[c] = "copying" THEN "copying" ELSE "ready"]

Kept == INSTANCE PgCopy WITH block <- status # "Idle", phase <- PhaseSeen

\* Lines reach only the table of the operation they were sent in, in order, and
\* all of them if CopyDone succeeds; nothing of an operation that failed, was
\* cancelled or lost its client turns up in a later one.
EachCopyIsItsClients == Kept!Spec

\* In a failed block nothing is stored ("commands ignored until end of
\* transaction block").
FailedBlockStoresNothing ==
  [][status = "InError" /\ status' = "InError" => UNCHANGED tables]_vars
=============================================================================
