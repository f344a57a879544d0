----------------------------- MODULE Copy_proofs -----------------------------
(***************************************************************************)
(* While no client starts a statement during another's COPY, the shared    *)
(* handler gives every client a COPY of its own.                           *)
(***************************************************************************)
EXTENDS Copy, SequenceTheorems, TLAPS

LEMMA NoOpType == NoOp \in Ops
<1>1. PICK t \in Tables : TRUE
  BY CopyAssumption
<1>2. [table |-> t, header |-> FALSE] \in Ops /\ ~[table |-> t, header |-> FALSE].header
  BY DEF Ops
<1>3. QED
  BY <1>2 DEF NoOp

LEMMA WithoutType ==
  ASSUME NEW m \in {"Idle", "FromStdin", "ToStdout"} PROVE Without(m) \in States
BY NoOpType DEF Without, States

-----------------------------------------------------------------------------
(* Type correctness *)

LEMMA RowsType == ASSUME TypeOK PROVE Rows \in Seq(Lines)
<1>1. CASE state.mode = "FromStdin" /\ state.op.header /\ buffer # <<>>
  <2>1. Tail(buffer) \in Seq(Lines)
    BY <1>1, HeadTailProperties DEF TypeOK
  <2>2. QED
    BY <1>1, <2>1 DEF Rows
<1>2. CASE ~(state.mode = "FromStdin" /\ state.op.header /\ buffer # <<>>)
  <2>1. Rows \in {<<>>, buffer}
    BY <1>2 DEF Rows
  <2>2. QED
    BY <2>1, EmptySeq DEF TypeOK
<1>3. QED
  BY <1>1, <1>2

LEMMA StoredType ==
  ASSUME TypeOK, NEW n \in 0..Len(Rows) PROVE Stored(n) \in [Tables -> Seq(Lines)]
<1>1. Rows \in Seq(Lines) /\ Len(Rows) \in Nat
  BY RowsType, LenProperties
<1>2. SubSeq(Rows, 1, n) \in Seq(Lines)
  BY <1>1, SubSeqProperties
<1>3. state.op.table \in Tables
  BY DEF TypeOK, States, Ops
<1>4. tables[state.op.table] \o SubSeq(Rows, 1, n) \in Seq(Lines)
  BY <1>2, <1>3, ConcatProperties DEF TypeOK
<1>5. QED
  BY <1>4 DEF Stored, TypeOK

LEMMA OverType ==
  ASSUME TypeOK, NEW c \in Clients, NEW p \in {"ready", "clearing"}, Over(c, p)
  PROVE  /\ phase' \in [Clients -> {"ready", "copying", "clearing"}]
         /\ op' \in [Clients -> Ops]
         /\ sent' \in [Clients -> Seq(Lines)]
BY NoOpType, EmptySeq DEF Over, TypeOK

LEMMA InitTypeOK == Init => TypeOK
BY NoOpType, WithoutType, EmptySeq DEF Init, TypeOK

LEMMA NextTypeOK == TypeOK /\ [Next]_vars => TypeOK'
<1> SUFFICES ASSUME TypeOK, [Next]_vars PROVE TypeOK'
  OBVIOUS
<1>1. ASSUME NEW c \in Clients, NEW o \in Ops, CopyFrom(c, o) PROVE TypeOK'
  <2>1. state' \in States /\ buffer' \in Seq(Lines)
    BY <1>1, EmptySeq DEF CopyFrom, States
  <2>2. QED
    BY <1>1, <2>1 DEF CopyFrom, TypeOK, db
<1>2. ASSUME NEW c \in Clients, CopyTo(c) PROVE TypeOK'
  <2>1. state' \in States
    BY <1>2, WithoutType DEF CopyTo
  <2>2. status' \in {"Idle", "InTransaction", "InError"} /\ (status' = "Idle" => status = "Idle")
    BY <1>2 DEF CopyTo, Failed, TypeOK
  <2>3. QED
    BY <1>2, <2>1, <2>2 DEF CopyTo, TypeOK, db, client
<1>3. ASSUME NEW c \in Clients, NEW l \in Lines, CopyData(c, l) PROVE TypeOK'
  <2>1. buffer' \in Seq(Lines) /\ Append(sent[c], l) \in Seq(Lines)
    BY <1>3, AppendProperties DEF CopyData, TypeOK
  <2>2. QED
    BY <1>3, <2>1 DEF CopyData, TypeOK, db
<1>4. ASSUME NEW c \in Clients, Process(c) PROVE TypeOK'
  <2>1. PICK n \in 0..Len(Rows) :
          /\ tables' = Stored(n)
          /\ saved' = IF status = "Idle" THEN Stored(n) ELSE saved
          /\ Over(c, IF n = Len(Rows) THEN "clearing" ELSE "ready")
    BY <1>4 DEF Process
  <2>2. /\ phase' \in [Clients -> {"ready", "copying", "clearing"}]
        /\ op' \in [Clients -> Ops]
        /\ sent' \in [Clients -> Seq(Lines)]
    BY <2>1, OverType
  <2>3. Stored(n) \in [Tables -> Seq(Lines)]
    BY StoredType
  <2>4. QED
    BY <1>4, <2>1, <2>2, <2>3 DEF Process, TypeOK, handler
<1>5. ASSUME NEW c \in Clients, Clear(c) PROVE TypeOK'
  BY <1>5, EmptySeq DEF Clear, TypeOK, db
<1>6. ASSUME NEW c \in Clients, CopyFail(c) PROVE TypeOK'
  <2>1. /\ phase' \in [Clients -> {"ready", "copying", "clearing"}]
        /\ op' \in [Clients -> Ops]
        /\ sent' \in [Clients -> Seq(Lines)]
    BY <1>6, OverType DEF CopyFail
  <2>2. state' \in States /\ buffer' \in Seq(Lines)
    BY <1>6, WithoutType, EmptySeq DEF CopyFail
  <2>3. QED
    BY <1>6, <2>1, <2>2 DEF CopyFail, TypeOK, db
<1>7. ASSUME NEW c \in Clients, Disconnect(c) PROVE TypeOK'
  <2>1. /\ phase' \in [Clients -> {"ready", "copying", "clearing"}]
        /\ op' \in [Clients -> Ops]
        /\ sent' \in [Clients -> Seq(Lines)]
    BY <1>7, OverType DEF Disconnect
  <2>2. QED
    BY <1>7, <2>1 DEF Disconnect, TypeOK, db, handler
<1>8. ASSUME NEW c \in Clients, Begin(c) \/ Commit(c) \/ Rollback(c) PROVE TypeOK'
  BY <1>8 DEF Begin, Commit, Rollback, TypeOK, db, handler, client
<1>9. ASSUME NEW c \in Clients, StatementFails(c) PROVE TypeOK'
  BY <1>9 DEF StatementFails, Failed, TypeOK, db, handler, client
<1>10. ASSUME Crash PROVE TypeOK'
  <2>1. saved' \in [Tables -> Seq(Lines)]
    BY <1>10, StoredType DEF Crash, TypeOK
  <2>2. state' \in States /\ buffer' \in Seq(Lines) /\ sent' \in [Clients -> Seq(Lines)]
    BY <1>10, WithoutType, EmptySeq DEF Crash
  <2>3. op' \in [Clients -> Ops]
    BY <1>10, NoOpType DEF Crash
  <2>4. QED
    BY <1>10, <2>1, <2>2, <2>3 DEF Crash, TypeOK
<1>11. CASE UNCHANGED vars
  BY <1>11 DEF vars, TypeOK, handler, db, client
<1>12. QED
  BY <1>1, <1>2, <1>3, <1>4, <1>5, <1>6, <1>7, <1>8, <1>9, <1>10, <1>11 DEF Next

\* The handler and the tables hold lines of the clients, and what a ROLLBACK
\* restores differs from the tables only inside a block.
THEOREM TypeCorrect == Spec => []TypeOK
BY InitTypeOK, NextTypeOK, PTL DEF Spec

-----------------------------------------------------------------------------
(* Refinement *)

\* The client that copies has the shared state and buffer to itself.
Own ==
  /\ TypeOK
  /\ \A c, d \in Clients : phase[c] # "ready" /\ phase[d] # "ready" => c = d
  /\ \A c \in Clients : phase[c] = "copying" =>
       state = [mode |-> "FromStdin", op |-> op[c]] /\ buffer = sent[c]
  /\ \A c \in Clients : phase[c] # "copying" => sent[c] = <<>>
  /\ \A c \in Clients : phase[c] = "copying" => status # "InError"

LEMMA InitOwn == Init => Own
BY InitTypeOK DEF Init, Own

LEMMA NextOwn == ASSUME ~Overlap PROVE Own /\ [Next]_vars => Own'
<1> SUFFICES ASSUME Own, [Next]_vars PROVE Own'
  OBVIOUS
<1>t. TypeOK /\ TypeOK'
  BY NextTypeOK DEF Own
<1>o. ASSUME NEW c \in Clients, NEW p \in {"ready", "clearing"},
             Over(c, p), phase[c] # "ready"
      PROVE  Own'
  <2>1. \A d \in Clients : d # c => phase[d] = "ready"
    BY <1>o DEF Own
  <2>2. phase' = [phase EXCEPT ![c] = p]
    BY <1>o DEF Over
  <2>3. \A d \in Clients : phase'[d] # "ready" => d = c /\ phase'[d] = "clearing"
    BY <2>1, <2>2, <1>t DEF TypeOK
  <2>4. \A d \in Clients : sent'[d] = <<>>
    BY <2>1, <1>o, <1>t DEF Over, Own, TypeOK
  <2>5. QED
    BY <2>3, <2>4, <1>t DEF Own
<1>1. ASSUME NEW c \in Clients, NEW o \in Ops, CopyFrom(c, o) PROVE Own'
  <2>1. \A d \in Clients : phase[d] = "ready"
    BY <1>1 DEF CopyFrom, Turn
  <2>2. \A d \in Clients : phase'[d] # "ready" => d = c
    BY <1>1, <2>1, <1>t DEF CopyFrom, TypeOK
  <2>3. op'[c] = o /\ state' = [mode |-> "FromStdin", op |-> o] /\ buffer' = <<>>
    BY <1>1, <1>t DEF CopyFrom, TypeOK
  <2>4. \A d \in Clients : sent'[d] = <<>>
    BY <1>1, <2>1 DEF CopyFrom, Own
  <2>5. status' # "InError"
    BY <1>1 DEF CopyFrom
  <2>6. QED
    BY <2>2, <2>3, <2>4, <2>5, <1>t DEF Own
<1>2. ASSUME NEW c \in Clients, NEW l \in Lines, CopyData(c, l) PROVE Own'
  <2>1. buffer' = Append(buffer, l) /\ sent'[c] = Append(sent[c], l) /\ buffer = sent[c]
    BY <1>2, <1>t DEF CopyData, TypeOK, Own
  <2>2. UNCHANGED <<phase, op, state, status>> /\ phase[c] = "copying"
    BY <1>2 DEF CopyData
  <2>3. \A d \in Clients : d # c => phase[d] = "ready" /\ sent'[d] = sent[d]
    BY <1>2, <2>2, <1>t DEF CopyData, Own, TypeOK
  <2>4. QED
    BY <2>1, <2>2, <2>3, <1>t DEF Own
<1>3. ASSUME NEW c \in Clients, Process(c) PROVE Own'
  BY <1>3, <1>o DEF Process
<1>4. ASSUME NEW c \in Clients, Clear(c) PROVE Own'
  <2>1. \A d \in Clients : d # c => phase[d] = "ready"
    BY <1>4 DEF Clear, Own
  <2>2. \A d \in Clients : phase'[d] = "ready" /\ sent'[d] = <<>>
    BY <1>4, <2>1, <1>t DEF Clear, TypeOK, Own
  <2>3. QED
    BY <2>2, <1>t DEF Own
<1>5. ASSUME NEW c \in Clients, CopyFail(c) \/ Disconnect(c) PROVE Own'
  BY <1>5, <1>o DEF CopyFail, Disconnect
<1>6. ASSUME NEW c \in Clients, Begin(c) \/ Commit(c) \/ Rollback(c) \/ StatementFails(c)
      PROVE  Own'
  <2>1. \A d \in Clients : phase[d] = "ready"
    BY <1>6 DEF Begin, Commit, Rollback, StatementFails, Turn
  <2>2. UNCHANGED client
    BY <1>6 DEF Begin, Commit, Rollback, StatementFails
  <2>3. QED
    BY <2>1, <2>2, <1>t DEF Own, client
<1>7. ASSUME NEW c \in Clients, CopyTo(c) PROVE Own'
  <2>1. \A d \in Clients : phase'[d] = "ready" /\ sent'[d] = <<>>
    BY <1>7 DEF CopyTo, Turn, client, Own
  <2>2. QED
    BY <2>1, <1>t DEF Own
<1>8. CASE Crash
  BY <1>8, <1>t DEF Crash, Own
<1>9. CASE UNCHANGED vars
  BY <1>9, <1>t DEF vars, Own, handler, client
<1>10. QED
  BY <1>1, <1>2, <1>3, <1>4, <1>5, <1>6, <1>7, <1>8, <1>9 DEF Next

LEMMA OwnRows ==
  ASSUME Own, NEW c \in Clients, phase[c] = "copying"
  PROVE  /\ Rows = Kept!Rows(c)
         /\ \A n \in 0..Len(Rows) : Stored(n) = Kept!Stored(c, n)
<1>1. state.mode = "FromStdin" /\ state.op = op[c] /\ buffer = sent[c]
  BY DEF Own
<1>2. Rows = Kept!Rows(c)
  BY <1>1 DEF Rows, Kept!Rows
<1>3. QED
  BY <1>1, <1>2 DEF Stored, Kept!Stored

LEMMA InitKept == Init => Kept!Init
BY DEF Init, Kept!Init, PhaseSeen, NoOp, Kept!NoOp, Ops, Kept!Ops

LEMMA NextKept == ASSUME ~Overlap PROVE Own /\ [Next]_vars => [Kept!Next]_(Kept!vars)
<1> SUFFICES ASSUME Own, [Next]_vars PROVE Kept!Next \/ UNCHANGED Kept!vars
  OBVIOUS
<1>t. TypeOK
  BY DEF Own
<1>n. NoOp = Kept!NoOp /\ Ops = Kept!Ops
  BY DEF NoOp, Kept!NoOp, Ops, Kept!Ops
<1>e. ASSUME NEW c \in Clients, NEW p \in {"ready", "clearing"}, Over(c, p),
             phase[c] = "copying", UNCHANGED status
      PROVE  Kept!End(c)
  <2>1. PhaseSeen' = [PhaseSeen EXCEPT ![c] = "ready"]
    BY <1>e, <1>t DEF Over, PhaseSeen, TypeOK
  <2>2. PhaseSeen[c] = "copying"
    BY <1>e DEF PhaseSeen
  <2>3. QED
    BY <1>e, <1>n, <2>1, <2>2 DEF Over, Kept!End
<1>1. ASSUME NEW c \in Clients, NEW o \in Ops, CopyFrom(c, o) PROVE Kept!Next
  <2>1. PhaseSeen' = [PhaseSeen EXCEPT ![c] = "copying"] /\ PhaseSeen[c] = "ready"
    BY <1>1, <1>t DEF CopyFrom, Turn, PhaseSeen, TypeOK
  <2>2. Kept!Start(c, o)
    BY <1>1, <2>1 DEF CopyFrom, Kept!Start, db
  <2>3. QED
    BY <2>2, <1>n DEF Kept!Next
<1>2. ASSUME NEW c \in Clients, NEW l \in Lines, CopyData(c, l) PROVE Kept!Next
  <2>1. PhaseSeen[c] = "copying" /\ UNCHANGED PhaseSeen
    BY <1>2 DEF CopyData, PhaseSeen
  <2>2. Kept!Send(c, l)
    BY <1>2, <2>1 DEF CopyData, Kept!Send, db
  <2>3. QED
    BY <2>2 DEF Kept!Next
<1>3. ASSUME NEW c \in Clients, Process(c) PROVE Kept!Next
  <2>1. PICK n \in 0..Len(Rows) :
          /\ Accepted(n)
          /\ tables' = Stored(n)
          /\ saved' = IF status = "Idle" THEN Stored(n) ELSE saved
          /\ Over(c, IF n = Len(Rows) THEN "clearing" ELSE "ready")
    BY <1>3 DEF Process
  <2>2. phase[c] = "copying" /\ UNCHANGED status
    BY <1>3 DEF Process
  <2>3. Rows = Kept!Rows(c) /\ Stored(n) = Kept!Stored(c, n)
    BY <2>2, OwnRows
  <2>4. Kept!End(c)
    BY <2>1, <2>2, <1>e
  <2>5. Kept!Store(Kept!Stored(c, n))
    BY <2>1, <2>3 DEF Kept!Store
  <2>6. CASE n = Len(Rows)
    <3>1. \A i \in 1..Len(Rows) : Rows[i] \notin Bad
      BY <2>1, <2>6 DEF Accepted
    <3>2. Kept!Finish(c)
      BY <2>3, <2>4, <2>5, <2>6, <3>1 DEF Kept!Finish
    <3>3. QED
      BY <3>2 DEF Kept!Next
  <2>7. CASE n # Len(Rows)
    <3>1. Kept!Fail(c)
      BY <2>3, <2>4, <2>5 DEF Kept!Fail
    <3>2. QED
      BY <3>1 DEF Kept!Next
  <2>8. QED
    BY <2>6, <2>7
<1>4. ASSUME NEW c \in Clients, Clear(c) PROVE UNCHANGED Kept!vars
  <2>1. UNCHANGED PhaseSeen
    BY <1>4, <1>t DEF Clear, PhaseSeen, TypeOK
  <2>2. QED
    BY <1>4, <2>1 DEF Clear, Kept!vars, db
<1>5. ASSUME NEW c \in Clients, CopyFail(c) \/ Disconnect(c) PROVE Kept!Next
  <2>1. Kept!End(c) /\ UNCHANGED <<tables, saved>>
    BY <1>5, <1>e DEF CopyFail, Disconnect, db
  <2>2. Kept!Fail(c)
    BY <2>1 DEF Kept!Fail
  <2>3. QED
    BY <2>2 DEF Kept!Next
<1>6. ASSUME NEW c \in Clients, Begin(c) PROVE Kept!Next
  <2>1. Kept!Begin
    BY <1>6 DEF Begin, Kept!Begin, db, client, PhaseSeen
  <2>2. QED
    BY <2>1 DEF Kept!Next
<1>7. ASSUME NEW c \in Clients, Commit(c) PROVE Kept!Next
  <2>1. Kept!Commit
    BY <1>7 DEF Commit, Kept!Commit, client, PhaseSeen
  <2>2. QED
    BY <2>1 DEF Kept!Next
<1>8. ASSUME NEW c \in Clients, Rollback(c) PROVE Kept!Next
  <2>1. Kept!Rollback
    BY <1>8 DEF Rollback, Kept!Rollback, client, PhaseSeen
  <2>2. QED
    BY <2>1 DEF Kept!Next
<1>9. ASSUME NEW c \in Clients, CopyTo(c) \/ StatementFails(c) PROVE UNCHANGED Kept!vars
  <2>1. (status' # "Idle") = (status # "Idle")
    BY <1>9 DEF CopyTo, StatementFails, Failed
  <2>2. QED
    BY <1>9, <2>1 DEF CopyTo, StatementFails, Kept!vars, db, client, PhaseSeen
<1>10. CASE Crash
  <2>1. PhaseSeen' = [c \in Clients |-> "ready"]
    BY <1>10 DEF Crash, PhaseSeen
  <2>2. \/ UNCHANGED saved
        \/ /\ status = "Idle"
           /\ \E c \in Clients : /\ PhaseSeen[c] = "copying"
                                 /\ \E n \in 0..Len(Kept!Rows(c)) : saved' = Kept!Stored(c, n)
    <3>1. CASE UNCHANGED saved
      BY <3>1
    <3>2. CASE /\ status = "Idle"
               /\ \E c \in Clients : phase[c] = "copying"
               /\ \E n, m \in 0..Len(Rows) : n <= m /\ Accepted(m) /\ saved' = Stored(n)
      <4>1. PICK c \in Clients : phase[c] = "copying"
        BY <3>2
      <4>2. PICK n \in 0..Len(Rows) : saved' = Stored(n)
        BY <3>2
      <4>3. saved' = Kept!Stored(c, n) /\ Rows = Kept!Rows(c)
        BY <4>1, <4>2, OwnRows
      <4>4. QED
        BY <3>2, <4>1, <4>3 DEF PhaseSeen
    <3>3. QED
      BY <1>10, <3>1, <3>2 DEF Crash
  <2>3. Kept!Crash
    BY <1>10, <1>n, <2>1, <2>2 DEF Crash, Kept!Crash
  <2>4. QED
    BY <2>3 DEF Kept!Next
<1>11. CASE UNCHANGED vars
  BY <1>11 DEF vars, Kept!vars, handler, db, client, PhaseSeen
<1>12. QED
  BY <1>1, <1>2, <1>3, <1>4, <1>5, <1>6, <1>7, <1>8, <1>9, <1>10, <1>11 DEF Next

\* With one COPY at a time, the shared handler implements a COPY per client:
\* what a client sends, and nothing else, reaches the table it named.
THEOREM SerialCopyIsItsClients == ASSUME ~Overlap PROVE Spec => EachCopyIsItsClients
<1>1. Own /\ [Next]_vars => Own'
  BY NextOwn
<1>2. Own /\ [Next]_vars => [Kept!Next]_(Kept!vars)
  BY NextKept
<1>3. QED
  BY InitOwn, InitKept, <1>1, <1>2, PTL DEF Spec, Kept!Spec, EachCopyIsItsClients

\* With one COPY at a time, none stores anything in a failed block.
THEOREM SerialFailedBlockStoresNothing ==
  ASSUME ~Overlap PROVE Spec => FailedBlockStoresNothing
<1>1. Own /\ [Next]_vars => Own'
  BY NextOwn
<1>2. Own /\ [Next]_vars =>
        [status = "InError" /\ status' = "InError" => UNCHANGED tables]_vars
  <2> SUFFICES ASSUME Own, [Next]_vars, status = "InError", status' = "InError"
               PROVE  UNCHANGED tables
    OBVIOUS
  <2>1. \A c \in Clients : phase[c] # "copying"
    BY DEF Own
  <2>2. ~Crash /\ \A c \in Clients : ~Commit(c) /\ ~Rollback(c) /\ ~Process(c)
    BY <2>1 DEF Crash, Commit, Rollback, Process
  <2>3. QED
    BY <2>2 DEF Next, vars, db, CopyFrom, CopyTo, CopyData, Clear, CopyFail, Disconnect,
                Begin, StatementFails
<1>3. QED
  BY InitOwn, <1>1, <1>2, PTL DEF Spec, FailedBlockStoresNothing
=============================================================================
