---------------------------- MODULE Locks_proofs ----------------------------
(***************************************************************************)
(* Theorems about Locks for any number of threads and any mix of requests. *)
(***************************************************************************)
EXTENDS Locks, SequenceTheorems, WellFoundedInduction, TLAPS

Steps    == [lock : Mutexes \cup Shards, mode : {"shared", "exclusive", "release"}]
Programs == {p \in Seq(Steps) : Len(p) > 0}

-----------------------------------------------------------------------------
(* Programs are sequences of steps *)

LEMMA GuardType ==
  ASSUME NEW lock \in Mutexes \cup Shards, NEW mode \in {"shared", "exclusive"},
         NEW body \in Seq(Steps)
  PROVE  Guard(lock, mode, body) \in Programs
<1>1. [lock |-> lock, mode |-> mode] \in Steps /\ [lock |-> lock, mode |-> "release"] \in Steps
  BY DEF Steps
<1>2. <<[lock |-> lock, mode |-> mode]>> \in Seq(Steps)
      /\ <<[lock |-> lock, mode |-> "release"]>> \in Seq(Steps)
  BY <1>1
<1>3. <<[lock |-> lock, mode |-> mode]>> \o body \in Seq(Steps)
  BY <1>2, ConcatProperties
<1>4. Guard(lock, mode, body) \in Seq(Steps)
  BY <1>2, <1>3, ConcatProperties DEF Guard
<1>5. Len(Guard(lock, mode, body)) = 1 + Len(body) + 1
  BY <1>2, <1>3, ConcatProperties DEF Guard
<1>6. QED
  BY <1>4, <1>5, LenProperties DEF Programs

LEMMA LockingType ==
  ASSUME NEW body \in Seq(Steps)
  PROVE  /\ \A m \in Mutexes : Locked(m, body) \in Programs
         /\ \A s \in Shards : Reading(s, body) \in Programs /\ Writing(s, body) \in Programs
BY GuardType DEF Locked, Reading, Writing

LEMMA SequelType ==
  ASSUME NEW p \in Seq(Steps), NEW q \in Seq(Steps)
  PROVE  p \o q \in Seq(Steps)
BY ConcatProperties

\* What follows a program is part of a program.
LEMMA ExtensionType ==
  ASSUME NEW p \in Programs, NEW q \in Seq(Steps)
  PROVE  p \o q \in Programs
<1>1. p \in Seq(Steps) /\ Len(p) > 0 /\ Len(p) \in Nat /\ Len(q) \in Nat
  BY LenProperties DEF Programs
<1>2. p \o q \in Seq(Steps) /\ Len(p \o q) = Len(p) + Len(q)
  BY <1>1, ConcatProperties
<1>3. QED
  BY <1>1, <1>2 DEF Programs

\* Every request runs a sequence of at least one step.
LEMMA ProgramType == \A k \in DOMAIN Program : Program[k] \in Programs
<1> USE DEF Mutexes, Shards
<1>p. Programs \subseteq Seq(Steps)
  BY DEF Programs
<1>n. Nothing \in Seq(Steps)
  BY EmptySeq DEF Nothing
<1>1. \A m \in Mutexes : Locked(m, Nothing) \in Programs
  BY <1>n, LockingType
<1>2. \A s \in Shards : Reading(s, Nothing) \in Programs /\ Writing(s, Nothing) \in Programs
  BY <1>n, LockingType
<1>3. \A body \in Seq(Steps) : DoQuery(body) \in Programs
  BY <1>2, ExtensionType DEF DoQuery
<1>4. /\ CheckErrorState \in Seq(Steps) /\ Abort \in Seq(Steps)
      /\ AskCatalog \in Seq(Steps) /\ Execute \in Seq(Steps)
      /\ \A body \in Seq(Steps) : Transpile(body) \in Seq(Steps)
  BY <1>p, <1>1, <1>2, SequelType, LockingType
  DEF CheckErrorState, Transpile, Abort, AskCatalog, Execute
<1>5. CheckPermissions \in Seq(Steps) /\ ApplyRls \in Seq(Steps)
  BY <1>p, <1>1, <1>2, SequelType, LockingType DEF CheckPermissions, ApplyRls
<1>t. CheckErrorState \o Transpile(Nothing) \in Seq(Steps)
  BY <1>n, <1>4, SequelType
<1>6. ASSUME NEW body \in Seq(Steps) PROVE Prepared(Nothing, body) \in Seq(Steps)
  <2>1. (CheckErrorState \o Transpile(Nothing)) \o CheckPermissions \in Seq(Steps)
    BY <1>t, <1>5, SequelType
  <2>2. ((CheckErrorState \o Transpile(Nothing)) \o CheckPermissions) \o ApplyRls \in Seq(Steps)
    BY <2>1, <1>5, SequelType
  <2>3. QED
    BY <1>6, <2>2, SequelType DEF Prepared
<1>7. \A m \in Mutexes, s \in Shards :
        /\ Locked(m, Reading(s, Nothing)) \in Programs
        /\ Locked(m, Writing(s, Nothing)) \in Programs
  BY <1>p, <1>2, LockingType
<1>8. \A m, l \in Mutexes : Locked(m, Locked(l, Nothing)) \in Programs
  BY <1>p, <1>1, LockingType
<1>9. \A m, l, j \in Mutexes : Locked(m, Locked(l, Locked(j, Nothing))) \in Programs
  BY <1>p, <1>8, LockingType
<1>10. Control \in Programs
  BY <1>p, <1>2, <1>3, <1>7, SequelType DEF Control
<1>11. Query \in Programs /\ CreateTable \in Programs
  BY <1>p, <1>3, <1>4, <1>6, <1>7 DEF Query, CreateTable
<1>12. ASSUME NEW arguments \in Seq(Steps) PROVE Insert(arguments) \in Programs
  <2>1. CheckErrorState \o AskCatalog \in Seq(Steps)
    BY <1>4, SequelType
  <2>2. (CheckErrorState \o AskCatalog) \o Transpile(arguments) \in Seq(Steps)
    BY <2>1, <1>4, SequelType
  <2>3. ((CheckErrorState \o AskCatalog) \o Transpile(arguments)) \o AskCatalog \in Seq(Steps)
    BY <2>2, <1>4, SequelType
  <2>4. (((CheckErrorState \o AskCatalog) \o Transpile(arguments)) \o AskCatalog)
           \o CheckPermissions \in Seq(Steps)
    BY <2>3, <1>5, SequelType
  <2>5. ((((CheckErrorState \o AskCatalog) \o Transpile(arguments)) \o AskCatalog)
           \o CheckPermissions) \o ApplyRls \in Seq(Steps)
    BY <2>4, <1>5, SequelType
  <2>6. (((((CheckErrorState \o AskCatalog) \o Transpile(arguments)) \o AskCatalog)
           \o CheckPermissions) \o ApplyRls) \o Execute \in Seq(Steps)
    BY <2>5, <1>4, SequelType
  <2>7. QED
    BY <2>6, <1>3 DEF Insert
<1>13. FailedQuery \in Programs
  BY <1>p, <1>1, <1>3, <1>4, <1>6, SequelType DEF FailedQuery
<1>14. /\ CallFunction \in Programs /\ DropSchema \in Programs
       /\ CreateFunction \in Programs /\ DropFunction \in Programs
  BY <1>p, <1>1, <1>3, <1>4, <1>7, <1>8, SequelType
  DEF CallFunction, DropSchema, CreateFunction, DropFunction
<1>15. SetRole \in Programs /\ SetSearchPath \in Programs /\ Show \in Programs
  <2>1. (CheckErrorState \o Transpile(Nothing)) \o Writing("session", Nothing) \in Seq(Steps)
    BY <1>p, <1>t, <1>2, SequelType
  <2>2. QED
    BY <1>p, <2>1, <1>2, <1>3 DEF SetRole, SetSearchPath, Show
<1>16. CreateSchema \in Programs
  <2>1. Locked("attached", Nothing) \o Locked("attached", Nothing) \in Seq(Steps)
    BY <1>p, <1>1, SequelType
  <2>2. Locked("conn", Locked("attached", Nothing) \o Locked("attached", Nothing)) \in Seq(Steps)
    BY <1>p, <2>1, LockingType
  <2>3. QED
    BY <1>p, <2>2, <1>3, <1>4, SequelType DEF CreateSchema
<1>17. FirstQuery \in Programs
  BY <1>p, <1>2, <1>3, SequelType DEF FirstQuery
<1>18. CopyFrom \in Programs /\ CopyFail \in Programs /\ CopyData \in Programs
  <2>1. ResetCopy \in Programs
    BY <1>9 DEF ResetCopy
  <2>2. (CheckErrorState \o Transpile(Nothing)) \o ResetCopy \in Seq(Steps)
    BY <1>p, <1>t, <2>1, SequelType
  <2>3. QED
    BY <1>p, <2>1, <2>2, <1>1, <1>3 DEF CopyFrom, CopyFail, CopyData
<1>19. CopyTo \in Programs
  <2>1. (CheckErrorState \o Transpile(Nothing)) \o Locked("state", Locked("conn", Nothing))
           \in Seq(Steps)
    BY <1>p, <1>t, <1>8, SequelType
  <2>2. QED
    BY <1>p, <2>1, <1>3 DEF CopyTo
<1>20. CopyDone \in Programs
  BY <1>p, <1>8, <1>9, ExtensionType DEF CopyDone
<1>i. Insert(Nothing) \in Programs /\ Insert(AskCatalog) \in Programs
  BY <1>n, <1>4, <1>12
<1>21. QED
  BY <1>10, <1>11, <1>i, <1>13, <1>14, <1>15, <1>16, <1>17, <1>18, <1>19, <1>20 DEF Program

-----------------------------------------------------------------------------
(* Type correctness *)

LEMMA InitTypeOK == Init => TypeOK
BY RequestsAssumption DEF Init, TypeOK, Busy

\* No program is named "none".
LEMMA NoneIsIdle == "none" \notin DOMAIN Program
BY DEF Program

LEMMA NextTypeOK == TypeOK /\ [Next]_vars => TypeOK'
<1> SUFFICES ASSUME TypeOK, [Next]_vars PROVE TypeOK'
  OBVIOUS
<1> USE RequestsAssumption
<1>1. \A k \in Requests : k # "none" /\ Len(Program[k]) \in Nat \ {0}
  <2>1. TAKE k \in Requests
  <2>2. Program[k] \in Seq(Steps) /\ Len(Program[k]) > 0
    BY ProgramType DEF Programs
  <2>3. QED
    BY <2>2, NoneIsIdle, LenProperties
<1>2. ASSUME NEW t \in Threads, NEW k \in Requests, Start(t, k) PROVE TypeOK'
  BY <1>1, <1>2 DEF Start, TypeOK, Busy
<1>3. ASSUME NEW t \in Threads, Busy(t), Advance(t) PROVE TypeOK'
  <2>1. kind[t] \in Requests /\ pos[t] \in 1..Len(Program[kind[t]])
        /\ Len(Program[kind[t]]) \in Nat
    BY <1>1, <1>3 DEF TypeOK, Busy
  <2>2. CASE pos[t] = Len(Program[kind[t]])
    <3>1. /\ kind' = [kind EXCEPT ![t] = "none"]
          /\ pos' = [pos EXCEPT ![t] = 1]
          /\ UNCHANGED left
      BY <1>3, <2>2 DEF Advance
    <3>2. /\ kind' \in [Threads -> Requests \cup {"none"}]
          /\ pos' \in [Threads -> Nat \ {0}]
          /\ left' \in [Threads -> 0..Budget]
      BY <3>1 DEF TypeOK
    <3>3. ASSUME NEW u \in Threads, Busy(u)' PROVE pos'[u] \in 1..Len(Program[kind'[u]])
      <4>1. u # t /\ kind'[u] = kind[u] /\ pos'[u] = pos[u] /\ Busy(u)
        BY <3>1, <3>3 DEF TypeOK, Busy
      <4>2. QED
        BY <4>1 DEF TypeOK
    <3>4. QED
      BY <3>2, <3>3 DEF TypeOK
  <2>3. CASE pos[t] # Len(Program[kind[t]])
    <3>1. pos' = [pos EXCEPT ![t] = pos[t] + 1] /\ UNCHANGED <<kind, left>>
      BY <1>3, <2>3 DEF Advance
    <3>2. pos[t] + 1 \in 1..Len(Program[kind[t]]) /\ pos[t] + 1 \in Nat \ {0}
      BY <2>1, <2>3
    <3>3. QED
      BY <3>1, <3>2 DEF TypeOK, Busy
  <2>4. QED
    BY <2>2, <2>3
<1>4. QED
  BY <1>2, <1>3 DEF Next, Acquire, Release, TypeOK, Busy, vars

\* Every thread is idle or at a step of its request's program.
THEOREM TypeCorrect == Spec => []TypeOK
BY InitTypeOK, NextTypeOK, PTL DEF Spec

-----------------------------------------------------------------------------
(* No deadlock *)

\* A nonempty set of natural numbers has a least one.
LEMMA LeastNatural ==
  ASSUME NEW T \in SUBSET Nat, T # {}
  PROVE  \E m \in T : \A n \in T : m <= n
<1>1. PICK m \in T : \A n \in T : ~(<<n, m>> \in OpToRel(<, Nat))
  BY NatLessThanWellFounded, WFMin
<1>2. \A n \in T : ~(n < m)
  BY <1>1 DEF OpToRel
<1>3. QED
  BY <1>2

\* Whoever blocks a thread can only wait for an acquisition of lower rank.
LEMMA BlockerRanksLower ==
  ASSUME NEW rank \in [Acquisitions -> Nat], Ordered(Requests, rank), TypeOK,
         NEW t \in Threads, Waiting(t), NEW u \in Threads, Waiting(u), Blocks(u, t)
  PROVE  /\ Step(t) \in Acquisitions /\ Step(u) \in Acquisitions
         /\ rank[Step(u)] < rank[Step(t)]
<1>1. ASSUME NEW v \in Threads, Waiting(v)
      PROVE  /\ kind[v] \in Requests /\ pos[v] \in 1..Len(Program[kind[v]])
             /\ Step(v) \in Acquisitions
  <2>1. kind[v] \in Requests /\ pos[v] \in 1..Len(Program[kind[v]])
    BY <1>1 DEF TypeOK, Waiting, Busy
  <2>2. Program[kind[v]] \in Seq(Steps)
    BY <2>1, ProgramType, RequestsAssumption DEF Programs
  <2>3. Step(v) \in Steps
    BY <2>1, <2>2, ElementOfSeq DEF Step
  <2>4. Step(v).mode # "release"
    BY <1>1 DEF Waiting, Takes
  <2>5. QED
    BY <2>1, <2>3, <2>4 DEF Steps, Acquisitions
<1>2. PICK h \in HeldAt(Program[kind[u]], pos[u]) : Conflict(h, Step(t))
  BY DEF Blocks, Held, Waiting
<1>3. Takes(Program[kind[u]][pos[u]])
  BY DEF Waiting, Step
<1>4. rank[Program[kind[u]][pos[u]]] < rank[Step(t)]
  BY <1>1, <1>2, <1>3 DEF Ordered
<1>5. QED
  BY <1>1, <1>4 DEF Step

\* If the acquisitions of the requests can be ranked, no number of threads
\* running them in any mix and order ever waits in a circle.
THEOREM RankedRequestsNeverDeadlock ==
  ASSUME NEW rank \in [Acquisitions -> Nat], Ordered(Requests, rank)
  PROVE  Spec => []NoDeadlock
<1>1. TypeOK => NoDeadlock
  <2> SUFFICES ASSUME TypeOK, NEW S \in SUBSET Threads, S # {},
                      \A t \in S : Waiting(t) /\ \E u \in S : Blocks(u, t)
               PROVE  FALSE
    BY DEF NoDeadlock
  <2>1. \A t \in S : Step(t) \in Acquisitions
    BY BlockerRanksLower
  <2>2. {rank[Step(t)] : t \in S} \in SUBSET Nat /\ {rank[Step(t)] : t \in S} # {}
    BY <2>1
  <2>3. PICK t \in S : \A u \in S : rank[Step(t)] <= rank[Step(u)]
    <3>1. PICK m \in {rank[Step(t)] : t \in S} : \A n \in {rank[Step(t)] : t \in S} : m <= n
      BY <2>2, LeastNatural
    <3>2. QED
      BY <3>1
  <2>4. PICK u \in S : Blocks(u, t)
    OBVIOUS
  <2>5. rank[Step(u)] < rank[Step(t)]
    BY <2>4, BlockerRanksLower
  <2>6. QED
    BY <2>1, <2>3, <2>5
<1>2. QED
  BY <1>1, TypeCorrect, PTL
=============================================================================
