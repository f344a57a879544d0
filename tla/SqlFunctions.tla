----------------------------- MODULE SqlFunctions ----------------------------
(***************************************************************************)
(* CREATE FUNCTION, DROP FUNCTION and calls.  A definition is kept in the  *)
(* catalog, a table of SQLite that takes part in transactions, and in a    *)
(* cache of the handler that does not.  SELECT f(literals) is answered     *)
(* from the catalog, under the connection's mutex; whatever that refuses,  *)
(* and every other call, is transpiled with the body from the cache before *)
(* the mutex is taken.  A call whose function is not in the cache is left  *)
(* to SQLite, where CREATE FUNCTION registered a function that gives NULL. *)
(***************************************************************************)
EXTENDS Naturals, Sequences

CONSTANTS
  Clients,       \* connections, each running one statement at a time
  Names,         \* names of functions, as they are stored
  Lower, Upper,  \* the names in lower and in upper case
  Signature,     \* what ordinary clients declare a function of each name to be
  MaxMade,       \* bound on the functions created
  Env,           \* what clients and environment do beyond the ordinary
  Free           \* the connection's mutex when no thread holds it

EnvNames ==
  {"create_in_block",  \* CREATE FUNCTION inside a transaction block
   "quoted",           \* names with capital letters, in quotes
   "overload",         \* a name declared again with another signature
   "arity",            \* calls with a wrong number of arguments
   "null_to_strict",   \* NULL passed to a STRICT function
   "from",             \* calls with literals over the rows of a table
   "restart"}

\* A body that selects a value, or returns void and selects or modifies.
Kinds == {"scalar", "void", "modify"}
Defs  == [args : Nat, strict : BOOLEAN, kind : Kinds]

ASSUME FunctionsAssumption ==
  /\ Free \notin Clients
  /\ Lower \in [Names -> Names] /\ Upper \in [Names -> Names]
  /\ Signature \in [Names -> Defs]
  /\ MaxMade \in Nat
  /\ Env \subseteq EnvNames

VARIABLES
  conn,       \* holder of the mutex around the SQLite connection
  status,     \* of the shared session
  rows,       \* __pg_functions__ as SQLite sees it
  durable,    \* and as it is after a ROLLBACK or a restart
  cache,      \* SqliteHandler.functions
  registered, \* names, whose case SQLite ignores, and arities known to SQLite
  pc, frame,  \* each client's position in execute_query, and its locals
  created,    \* history: the definitions, in the order of their creation
  confirmed,  \* history: of each name, the last creation that was confirmed
  dropped,    \* history: and the last that a confirmed DROP FUNCTION covers
  answer      \* history: the answer to the last call

vars == <<conn, status, rows, durable, cache, registered, pc, frame, created, confirmed, dropped, answer>>

\* Only literals; only literals, but with a FROM clause; or neither.
Forms == {"literal", "from", "other"}

Row  == [name : Names, oid : 1..MaxMade, def : Defs]
Call == [name : Names, args : Nat, null : BOOLEAN, form : Forms]

\* Faulty variant: ORDER BY oid.
Oldest(table, n) ==
  {r \in table : r.name = n /\ \A s \in table : s.name = n => r.oid <= s.oid}

\* get_function: ORDER BY oid DESC LIMIT 1.  An oid is larger than those
\* before it; that ROLLBACK gives it to the next function is left out.
Newest(table, n) ==
  {r \in table : r.name = n /\ \A s \in table : s.name = n => s.oid <= r.oid}

Stored(n) == {r \in cache : r.name = n}

NoAnswer ==
  [value |-> "none", ran |-> 0, floor |-> 0, last |-> 0, kept |-> FALSE, call |-> Free]
NoFrame  == [call |-> Free, floor |-> 0, body |-> {}]

-----------------------------------------------------------------------------
(* What a call of a definition gives. *)

\* execute_function_call: a literal NULL is no argument, so a call with one
\* has too few; a body that returns rows is not executed as VOID.
Pushed(call) == IF call.null THEN call.args - 1 ELSE call.args

Direct(def, call) ==
  /\ call.form # "other"
  /\ Pushed(call) = def.args
  /\ def.kind # "void"

\* reconstruct_func_call puts the arguments into the body: too many are dropped,
\* too few leave a parameter without a value, and a body cannot modify.
Inlined(def, call) == call.args >= def.args /\ def.kind # "modify"

Value(def) == IF def.kind = "scalar" THEN "value" ELSE "null"

\* Over a table there is one for each row.
Values(def, call) == IF call.form = "from" THEN "rows" ELSE Value(def)

\* What CREATE FUNCTION declared.
Promise(def, call) ==
  IF call.args # def.args THEN "error"
  ELSE IF def.strict /\ call.null THEN "null"
  ELSE Values(def, call)

-----------------------------------------------------------------------------
Init ==
  /\ conn = Free
  /\ status = "Idle"
  /\ rows = {} /\ durable = {} /\ cache = {} /\ registered = {}
  /\ pc = [c \in Clients |-> "ready"]
  /\ frame = [c \in Clients |-> NoFrame]
  /\ created = <<>>
  /\ confirmed = [n \in Names |-> 0] /\ dropped = [n \in Names |-> 0]
  /\ answer = NoAnswer

Session == <<conn, status>>
Catalog == <<rows, durable>>
Known   == <<cache, registered>>
History == <<created, confirmed, dropped, answer>>
Local   == <<pc, frame>>

\* Faulty variant: the row is left to a COMMIT nobody sends.
Uncommitted == UNCHANGED durable

\* Outside a block a statement on the catalog is durable when it is done.
Autocommit == durable' = IF status = "Idle" THEN rows' ELSE durable

Begin ==
  /\ status = "Idle" /\ conn = Free
  /\ status' = "InTransaction"
  /\ UNCHANGED <<conn, rows, durable, Known, Local, History>>

Commit ==
  /\ status # "Idle" /\ conn = Free
  /\ status' = "Idle"
  /\ durable' = rows
  /\ UNCHANGED <<conn, rows, Known, Local, History>>

Rollback ==
  /\ status # "Idle" /\ conn = Free
  /\ status' = "Idle"
  /\ rows' = durable
  /\ UNCHANGED <<conn, durable, Known, Local, History>>

(* CREATE FUNCTION: store_function, then register_sqlite_function, under one *)
(* lock.  CREATE OR REPLACE is the same statement.                           *)

MayCreate(n, def) ==
  /\ status # "InError"
  /\ status # "Idle" => "create_in_block" \in Env
  /\ Lower[n] # n => "quoted" \in Env
  /\ def # Signature[n] => "overload" \in Env

\* One guard from the row to the cache.
KeepLock(c) == conn' = c

StoreFunction(c, n, def) ==
  /\ pc[c] = "ready"
  /\ MayCreate(n, def)
  /\ Len(created) < MaxMade
  /\ conn = Free
  /\ LET row == [name |-> n, oid |-> Len(created) + 1, def |-> def]
     IN  /\ rows' = rows \cup {row}
         /\ created' = Append(created, def)
         /\ frame' = [frame EXCEPT ![c].body = {row}]
  /\ Autocommit
  /\ KeepLock(c)
  /\ pc' = [pc EXCEPT ![c] = "register"]
  /\ UNCHANGED <<status, Known, confirmed, dropped, answer>>

Return(c) ==
  /\ pc' = [pc EXCEPT ![c] = "ready"]
  /\ frame' = [frame EXCEPT ![c] = NoFrame]

\* Faulty variant: the definition of before stays in the cache.
Beside(r) == cache' = cache \cup {r}

Replace(r) == cache' = (cache \ Stored(r.name)) \cup {r}

RegisterFunction(c) ==
  /\ pc[c] = "register"
  /\ \E r \in frame[c].body :
       /\ Replace(r)
       /\ registered' = registered \cup {<<Lower[r.name], r.def.args>>}
       /\ confirmed' = [confirmed EXCEPT ![r.name] = r.oid]
  /\ conn' = Free
  /\ Return(c)
  /\ UNCHANGED <<status, Catalog, created, dropped, answer>>

\* DROP FUNCTION is handled before the block's error state is looked at.  The
\* name is cut from the statement in upper case, the stored one is as the
\* parser gave it; the cache is left alone, and the reply is the same.
DropFunction(n) ==
  /\ conn = Free
  /\ rows' = {r \in rows : r.name # Upper[n]}
  /\ Autocommit
  /\ dropped' = [m \in Names |-> IF Lower[m] = Lower[n] THEN confirmed[m] ELSE dropped[m]]
  /\ UNCHANGED <<Session, Known, Local, created, confirmed, answer>>

(* Calls. *)

StartCall(c, call) ==
  /\ pc[c] = "ready"
  /\ status # "InError"
  /\ Lower[call.name] # call.name => "quoted" \in Env
  /\ call.args # Signature[call.name].args => "arity" \in Env
  /\ call.null => /\ call.args > 0
                  /\ Signature[call.name].strict => "null_to_strict" \in Env
  /\ call.form = "from" => "from" \in Env
  /\ pc' = [pc EXCEPT ![c] = "simple"]
  /\ frame' = [frame EXCEPT ![c] =
       [call |-> call, floor |-> confirmed[call.name], body |-> {}]]
  /\ UNCHANGED <<Session, Catalog, Known, History>>

Reply(c, value, ran) ==
  /\ LET call == frame[c].call
     IN  answer' = [value |-> value, ran |-> ran, floor |-> frame[c].floor,
                    last |-> confirmed[call.name],
                    kept |-> frame[c].floor > dropped[call.name], call |-> call]
  /\ Return(c)
  /\ UNCHANGED <<created, confirmed, dropped>>

\* try_execute_simple_function_call, whose every error means: go on.
SimpleCall(c) ==
  /\ pc[c] = "simple"
  /\ conn = Free
  /\ LET call  == frame[c].call
         found == {r \in Newest(rows, Lower[call.name]) : Direct(r.def, call)}
     IN  \/ \E r \in found : Reply(c, Value(r.def), r.oid)
         \/ /\ found = {}
            /\ pc' = [pc EXCEPT ![c] = "transpile"]
            /\ UNCHANGED <<frame, History>>
  /\ UNCHANGED <<Session, Catalog, Known>>

Transpile(c) ==
  /\ pc[c] = "transpile"
  /\ frame' = [frame EXCEPT ![c].body = Stored(Lower[frame[c].call.name])]
  /\ pc' = [pc EXCEPT ![c] = "execute"]
  /\ UNCHANGED <<Session, Catalog, Known, History>>

\* Without a body in the call SQLite looks for a function of that name and
\* arity.  An error in a block fails the block of whoever began it.
ExecuteCall(c) ==
  /\ pc[c] = "execute"
  /\ conn = Free
  /\ LET call == frame[c].call
         body == frame[c].body
         runs == {r \in body : Inlined(r.def, call)}
         stub == body = {} /\ <<Lower[call.name], call.args>> \in registered
     IN  \/ /\ \E r \in runs : Reply(c, Values(r.def, call), r.oid)
            /\ UNCHANGED status
         \/ /\ stub
            /\ Reply(c, "null", 0)
            /\ UNCHANGED status
         \/ /\ runs = {} /\ ~stub
            /\ Reply(c, "error", 0)
            /\ status' = IF status = "InTransaction" THEN "InError" ELSE status
  /\ UNCHANGED <<conn, Catalog, Known>>

\* The process ends and is started again.  Nothing loads the cache.
Restart ==
  /\ "restart" \in Env
  /\ conn' = Free
  /\ status' = "Idle"
  /\ rows' = durable
  /\ cache' = {}
  /\ registered' = {}
  /\ pc' = [c \in Clients |-> "ready"]
  /\ frame' = [c \in Clients |-> NoFrame]
  /\ UNCHANGED <<durable, History>>

Step(c) == RegisterFunction(c) \/ SimpleCall(c) \/ Transpile(c) \/ ExecuteCall(c)

\* Calls a client may send, as far as the arguments matter.
Calls == {call \in [name : Names, args : 0..2, null : BOOLEAN, form : Forms] :
            call.null => call.args > 0}

Next ==
  \/ Begin \/ Commit \/ Rollback \/ Restart
  \/ \E n \in Names : DropFunction(n)
  \/ \E c \in Clients :
       \/ \E n \in Names, m \in Names : StoreFunction(c, n, Signature[m])
       \/ \E call \in Calls : StartCall(c, call)
       \/ Step(c)

Spec == Init /\ [][Next]_vars

-----------------------------------------------------------------------------
(* Properties *)

\* Types of the state.  The mutex is held only by a client about to register
\* what it stored, and the cache has at most one definition of a name.
TypeOK ==
  /\ conn \in Clients \cup {Free}
  /\ status \in {"Idle", "InTransaction", "InError"}
  /\ rows \subseteq Row /\ durable \subseteq Row /\ cache \subseteq Row
  /\ registered \subseteq Names \X Nat
  /\ pc \in [Clients -> {"ready", "register", "simple", "transpile", "execute"}]
  /\ frame \in [Clients -> [call : Call \cup {Free}, floor : 0..MaxMade, body : SUBSET Row]]
  /\ created \in Seq(Defs) /\ Len(created) <= MaxMade
  /\ confirmed \in [Names -> 0..MaxMade] /\ dropped \in [Names -> 0..MaxMade]
  /\ \A c \in Clients : pc[c] = "register" <=> conn = c
  /\ \A r, s \in cache : r.name = s.name => r = s

\* While nobody creates a function, what the cache has of a name is the newest
\* row of the catalog: both ways of calling mean the same function.
CacheIsNewest ==
  conn = Free => \A r \in cache : r \in Newest(rows, r.name)

\* A call that starts after CREATE OR REPLACE was confirmed does not run an
\* older definition, whichever way it takes and whoever created it.
CallsRunNewest == answer.ran # 0 => answer.ran >= answer.floor

\* A call gives what the function it ran was declared to give.  A call with
\* literals of a function that was confirmed, and that no DROP FUNCTION before
\* its answer named, runs it, over restarts too; of one that was dropped nothing
\* is said.  None is left with the NULL of the registered function, unless its
\* function was created while it was under way.
CallsAnswer ==
  /\ answer.ran # 0 => answer.value = Promise(created[answer.ran], answer.call)
  /\ answer.kept /\ answer.call.form = "literal" /\ ~answer.call.null
       => answer.ran # 0 \/ created[answer.floor].kind = "void"
  /\ answer.value = "null" /\ answer.ran = 0 => answer.floor < answer.last
=============================================================================
