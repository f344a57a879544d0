-------------------------------- MODULE Locks --------------------------------
(***************************************************************************)
(* The locks that requests of different connections contend for: the       *)
(* mutexes of the SQLite connection, of the attached schemas and of the    *)
(* COPY handler, and the DashMap shards of the sessions and the functions. *)
(* Every handler runs to its end on a worker thread, without an await      *)
(* between its locks, so a request is a fixed sequence of acquisitions and *)
(* releases: guards are dropped where their scope ends.                    *)
(***************************************************************************)
EXTENDS Naturals, Sequences

CONSTANTS
  Threads,    \* worker threads, each running one request at a time
  Requests,   \* the kinds of request the clients send
  Budget      \* bound on the requests each thread runs

Mutexes == {"conn", "attached", "state", "buffer", "rows"}
Shards  == {"session", "functions"}

-----------------------------------------------------------------------------
(* What the handlers lock, as sequences of steps. *)

Guard(lock, mode, body) ==
  <<[lock |-> lock, mode |-> mode]>> \o body \o <<[lock |-> lock, mode |-> "release"]>>

Nothing == <<>>
Locked(mutex, body) == Guard(mutex, "exclusive", body)   \* Mutex::lock
Reading(shard, body) == Guard(shard, "shared", body)     \* DashMap::get
Writing(shard, body) == Guard(shard, "exclusive", body)  \* DashMap::get_mut, insert

\* do_query asks whether a session exists before it runs any statement.
DoQuery(body) == Reading("session", Nothing) \o body

CheckErrorState == Reading("session", Nothing)

\* reconstruct_func_call keeps the guard of the function it found until the
\* call is rewritten, the reconstruction of its arguments included.
Transpile(arguments) == Reading("functions", arguments)

\* The metadata provider's answers: a table's columns, a column's default.
AskCatalog == Locked("conn", Nothing)

Abort           == Reading("session", Nothing) \o Writing("session", Nothing)

CheckPermissions == Reading("session", Locked("conn", Nothing))
ApplyRls         == Reading("session", Nothing) \o Locked("conn", Nothing)

\* From the error check to the execution of a statement.
Prepared(arguments, body) ==
  CheckErrorState \o Transpile(arguments) \o CheckPermissions \o ApplyRls \o body

Control == DoQuery(Reading("session", Nothing) \o Locked("conn", Writing("session", Nothing)))

\* A statement that calls a function of the user looks it up while it runs.
Execute == Locked("conn", Reading("functions", Nothing))

\* INSERT asks for the columns and their defaults while it is transpiled, among
\* the arguments of a call too: f(DEFAULT), or a row of VALUES that is short.
Insert(arguments) ==
  DoQuery(CheckErrorState \o AskCatalog \o Transpile(arguments) \o AskCatalog
          \o CheckPermissions \o ApplyRls \o Execute)

Query       == DoQuery(Prepared(Nothing, Execute))
FailedQuery == DoQuery(Prepared(Nothing, Locked("conn", Nothing)) \o Abort)

CreateTable  == DoQuery(Prepared(Nothing, Locked("conn", Reading("session", Nothing))))
CallFunction == DoQuery(CheckErrorState \o Locked("conn", Nothing))

SetRole       == DoQuery(CheckErrorState \o Transpile(Nothing) \o Writing("session", Nothing))
SetSearchPath == DoQuery(Writing("session", Nothing))
Show          == DoQuery(Reading("session", Nothing))

CreateSchema ==
  DoQuery(CheckErrorState
          \o Locked("conn", Locked("attached", Nothing) \o Locked("attached", Nothing)))
DropSchema == DoQuery(CheckErrorState \o Locked("conn", Locked("attached", Nothing)))

CreateFunction == DoQuery(CheckErrorState \o Locked("conn", Writing("functions", Nothing)))
DropFunction   == DoQuery(Locked("conn", Nothing))

\* The first query of the server's life stores the session.
FirstQuery == DoQuery(Writing("session", Nothing) \o Reading("session", Nothing))

ResetCopy == Locked("state", Locked("buffer", Locked("rows", Nothing)))
CopyFrom  == DoQuery(CheckErrorState \o Transpile(Nothing) \o ResetCopy)
CopyTo    == DoQuery(CheckErrorState \o Transpile(Nothing) \o Locked("state", Locked("conn", Nothing)))
CopyData  == Locked("buffer", Nothing)
CopyFail  == ResetCopy
CopyDone  ==
  Locked("state", Locked("buffer", Locked("conn", Nothing)))
  \o Locked("rows", Locked("buffer", Nothing))

Program ==
  [control |-> Control, query |-> Query, failed |-> FailedQuery,
   insert |-> Insert(Nothing), insert_call |-> Insert(AskCatalog),
   create_table |-> CreateTable, call |-> CallFunction, set_role |-> SetRole,
   set_path |-> SetSearchPath, show |-> Show, create_schema |-> CreateSchema,
   drop_schema |-> DropSchema, create_function |-> CreateFunction,
   drop_function |-> DropFunction, first |-> FirstQuery,
   copy_from |-> CopyFrom, copy_to |-> CopyTo, copy_data |-> CopyData,
   copy_fail |-> CopyFail, copy_done |-> CopyDone]

ASSUME RequestsAssumption == Requests \subseteq DOMAIN Program /\ Budget \in Nat

-----------------------------------------------------------------------------
VARIABLES
  kind,   \* the request each thread runs, or "none"
  pos,    \* the next step of its program
  left    \* requests each thread may still start

vars == <<kind, pos, left>>

Takes(step) == step.mode # "release"

\* The guards a program holds before its i-th step.
HeldAt(p, i) ==
  {p[j] : j \in {j \in 1..(i-1) :
     /\ Takes(p[j])
     /\ \A k \in (j+1)..(i-1) : p[k] # [lock |-> p[j].lock, mode |-> "release"]}}

Busy(t) == kind[t] # "none"
Step(t) == Program[kind[t]][pos[t]]
Held(t) == IF Busy(t) THEN HeldAt(Program[kind[t]], pos[t]) ELSE {}

\* Guards of one lock exclude each other unless both only read.
Conflict(g, h) == g.lock = h.lock /\ ~(g.mode = "shared" /\ h.mode = "shared")

\* Faulty variant: the sessions are behind a mutex, which readers do not share.
BlocksReaders(u, t) == \E h \in Held(u) : h.lock = Step(t).lock

\* A std mutex is free or not; a DashMap shard admits readers while no writer
\* has it, whether or not one waits.
Blocks(u, t) == \E h \in Held(u) : Conflict(h, Step(t))

Init ==
  /\ kind = [t \in Threads |-> "none"]
  /\ pos  = [t \in Threads |-> 1]
  /\ left = [t \in Threads |-> Budget]

Start(t, k) ==
  /\ ~Busy(t)
  /\ left[t] > 0
  /\ kind' = [kind EXCEPT ![t] = k]
  /\ pos'  = [pos EXCEPT ![t] = 1]
  /\ left' = [left EXCEPT ![t] = @ - 1]

\* Faulty variant: the thread does not return when its program is over.
AdvanceBeyond(t) == pos' = [pos EXCEPT ![t] = @ + 1] /\ UNCHANGED <<kind, left>>

\* Faulty variant: a request that is over is run once more.
AdvanceAgain(t) ==
  /\ pos' = [pos EXCEPT ![t] = IF @ = Len(Program[kind[t]]) THEN 1 ELSE @ + 1]
  /\ UNCHANGED <<kind, left>>

Advance(t) ==
  /\ IF pos[t] = Len(Program[kind[t]])
       THEN kind' = [kind EXCEPT ![t] = "none"] /\ pos' = [pos EXCEPT ![t] = 1]
       ELSE UNCHANGED kind /\ pos' = [pos EXCEPT ![t] = @ + 1]
  /\ UNCHANGED left

Acquire(t) ==
  /\ Busy(t)
  /\ Takes(Step(t))
  /\ \A u \in Threads : ~Blocks(u, t)
  /\ Advance(t)

Release(t) ==
  /\ Busy(t)
  /\ ~Takes(Step(t))
  /\ Advance(t)

Next == \E t \in Threads :
  \/ \E k \in Requests : Start(t, k)
  \/ Acquire(t)
  \/ Release(t)

\* Threads are scheduled; nothing is assumed of who gets a contended lock.
Fairness == \A t \in Threads : WF_vars(Acquire(t)) /\ WF_vars(Release(t))

Spec     == Init /\ [][Next]_vars
FairSpec == Spec /\ Fairness

-----------------------------------------------------------------------------
(* Properties *)

\* Threads are idle, or at a step of their request's program.
TypeOK ==
  /\ kind \in [Threads -> Requests \cup {"none"}]
  /\ pos \in [Threads -> Nat \ {0}]
  /\ left \in [Threads -> 0..Budget]
  /\ \A t \in Threads : Busy(t) => pos[t] \in 1..Len(Program[kind[t]])

Waiting(t) == Busy(t) /\ Takes(Step(t))

\* No requests wait for each other in a circle ("No deadlocks possible"): of
\* any threads, one waits for nobody among them.
NoDeadlock ==
  \A S \in SUBSET Threads : S # {} =>
    \E t \in S : ~(Waiting(t) /\ \E u \in S : Blocks(u, t))

\* A request that was started is answered.
EveryRequestReturns == \A t \in Threads : Busy(t) ~> ~Busy(t)

-----------------------------------------------------------------------------
(* Lock orders.  A rank of the acquisitions such that whoever blocks an    *)
(* acquisition can itself only wait for one of lower rank.                 *)

Acquisitions == [lock : Mutexes \cup Shards, mode : {"shared", "exclusive"}]

Ordered(requests, rank) ==
  \A k \in requests : \A i \in 1..Len(Program[k]) :
    Takes(Program[k][i]) =>
      \A h \in HeldAt(Program[k], i) : \A s \in Acquisitions :
        Conflict(h, s) => rank[Program[k][i]] < rank[s]
=============================================================================
