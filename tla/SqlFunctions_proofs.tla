------------------------- MODULE SqlFunctions_proofs -------------------------
(***************************************************************************)
(* Functions of any number and names, called and created by any number of  *)
(* clients: the types hold always, and where functions are created outside *)
(* of blocks under lower-case names, catalog and cache mean the same and   *)
(* no call falls back behind a confirmed CREATE OR REPLACE.                *)
(***************************************************************************)
EXTENDS SqlFunctions, TLAPS

Pcs    == {"ready", "register", "simple", "transpile", "execute"}
Frames == [call : Call \cup {Free}, floor : 0..MaxMade, body : SUBSET Row]

LEMMA InitTypeOK == Init => TypeOK
<1> SUFFICES ASSUME Init PROVE TypeOK
  OBVIOUS
<1>1. NoFrame \in Frames
  BY FunctionsAssumption DEF NoFrame, Frames
<1>2. frame \in [Clients -> Frames]
  BY <1>1 DEF Init
<1>3. conn \notin Clients /\ \A c \in Clients : pc[c] # "register"
  BY FunctionsAssumption DEF Init
<1>4. confirmed \in [Names -> 0..MaxMade] /\ dropped \in [Names -> 0..MaxMade]
  BY FunctionsAssumption DEF Init
<1>5. created \in Seq(Defs) /\ Len(created) <= MaxMade
  BY FunctionsAssumption DEF Init
<1>6. QED
  BY <1>2, <1>3, <1>4, <1>5 DEF Init, TypeOK, Frames

\* A step of a client that neither takes nor gives back the mutex.
LEMMA LocalType ==
  ASSUME TypeOK, NEW c \in Clients, NEW p \in {"ready", "simple", "transpile", "execute"},
         NEW f \in Frames, pc[c] # "register",
         pc' = [pc EXCEPT ![c] = p], frame' = [frame EXCEPT ![c] = f], conn' = conn
  PROVE  /\ pc' \in [Clients -> Pcs]
         /\ frame' \in [Clients -> Frames]
         /\ \A d \in Clients : pc'[d] = "register" <=> conn' = d
BY DEF TypeOK, Pcs, Frames

LEMMA EmptyFrame == NoFrame \in Frames
BY FunctionsAssumption DEF NoFrame, Frames

LEMMA NewRow ==
  ASSUME TypeOK, NEW n \in Names, NEW def \in Defs, Len(created) < MaxMade
  PROVE  [name |-> n, oid |-> Len(created) + 1, def |-> def] \in Row
<1>1. Len(created) + 1 \in 1..MaxMade
  BY FunctionsAssumption DEF TypeOK
<1>2. QED
  BY <1>1 DEF Row

LEMMA ReplaceType ==
  ASSUME cache \subseteq Row, \A r, s \in cache : r.name = s.name => r = s,
         NEW row \in Row, Replace(row)
  PROVE  cache' \subseteq Row /\ \A r, s \in cache' : r.name = s.name => r = s
BY DEF Replace, Stored

LEMMA StoreType ==
  ASSUME TypeOK, NEW c \in Clients, NEW n \in Names, NEW def \in Defs, StoreFunction(c, n, def)
  PROVE  TypeOK'
<1> DEFINE row == [name |-> n, oid |-> Len(created) + 1, def |-> def]
<1>1. row \in Row
  BY NewRow DEF StoreFunction
<1>2. /\ rows' = rows \cup {row} /\ created' = Append(created, def)
      /\ frame' = [frame EXCEPT ![c].body = {row}]
      /\ pc' = [pc EXCEPT ![c] = "register"] /\ conn = Free /\ conn' = c
      /\ UNCHANGED <<status, cache, registered, confirmed, dropped>>
  BY DEF StoreFunction, KeepLock, Known
<1> HIDE DEF row
<1>3. rows' \subseteq Row /\ durable' \subseteq Row
  BY <1>1, <1>2 DEF TypeOK, StoreFunction, Autocommit
<1>4. created' \in Seq(Defs) /\ Len(created') <= MaxMade
  BY <1>2, FunctionsAssumption DEF TypeOK, StoreFunction
<1>5. frame' \in [Clients -> Frames]
  <2>1. frame \in [Clients -> Frames]
    BY DEF TypeOK, Frames
  <2>2. [frame[c] EXCEPT !.body = {row}] \in Frames
    BY <1>1, <2>1 DEF Frames
  <2>3. QED
    BY ONLY <1>2, <2>1, <2>2, c \in Clients
<1>6. pc' \in [Clients -> Pcs]
  BY <1>2 DEF TypeOK, Pcs
<1>7. \A d \in Clients : pc[d] # "register"
  BY <1>2, FunctionsAssumption DEF TypeOK
<1>8. \A d \in Clients : pc'[d] = "register" <=> conn' = d
  BY <1>2, <1>7 DEF TypeOK
<1>9. QED
  BY <1>2, <1>3, <1>4, <1>5, <1>6, <1>8 DEF TypeOK, Frames, Pcs

LEMMA RegisterType ==
  ASSUME TypeOK, NEW c \in Clients, RegisterFunction(c)
  PROVE  TypeOK'
<1>1. PICK row \in frame[c].body :
        /\ Replace(row)
        /\ registered' = registered \cup {<<Lower[row.name], row.def.args>>}
        /\ confirmed' = [confirmed EXCEPT ![row.name] = row.oid]
  BY DEF RegisterFunction
<1>2. row \in Row
  BY DEF TypeOK
<1>3. cache' \subseteq Row /\ \A r, s \in cache' : r.name = s.name => r = s
  BY <1>1, <1>2, ReplaceType DEF TypeOK
<1>4. registered' \subseteq Names \X Nat
  <2>1. row.name \in Names /\ row.def.args \in Nat
    BY <1>2 DEF Row, Defs
  <2>2. Lower[row.name] \in Names
    BY <2>1, FunctionsAssumption
  <2>3. QED
    BY <1>1, <2>1, <2>2 DEF TypeOK
<1>5. confirmed' \in [Names -> 0..MaxMade]
  <2>1. row.oid \in 0..MaxMade
    BY <1>2, FunctionsAssumption DEF Row
  <2>2. QED
    BY <1>1, <2>1 DEF TypeOK
<1>6. /\ conn = c /\ conn' = Free /\ pc' = [pc EXCEPT ![c] = "ready"]
      /\ frame' = [frame EXCEPT ![c] = NoFrame]
      /\ UNCHANGED <<status, rows, durable, created, dropped>>
  BY DEF RegisterFunction, Return, Catalog, TypeOK
<1>7. pc' \in [Clients -> Pcs] /\ frame' \in [Clients -> Frames]
  BY <1>6, EmptyFrame DEF TypeOK, Pcs, Frames
<1>8. \A d \in Clients : pc'[d] = "register" <=> conn' = d
  BY <1>6, FunctionsAssumption DEF TypeOK
<1>9. QED
  BY <1>3, <1>4, <1>5, <1>6, <1>7, <1>8 DEF TypeOK, Pcs, Frames

LEMMA CallType ==
  ASSUME TypeOK, NEW c \in Clients,
         \/ \E call \in Calls : StartCall(c, call)
         \/ SimpleCall(c) \/ Transpile(c) \/ ExecuteCall(c)
  PROVE  TypeOK'
<1>1. UNCHANGED <<conn, rows, durable, cache, registered, created, confirmed, dropped>>
  BY DEF StartCall, SimpleCall, Transpile, ExecuteCall, Session, Catalog, Known, History, Reply
<1>2. status' \in {"Idle", "InTransaction", "InError"}
  BY DEF TypeOK, StartCall, SimpleCall, Transpile, ExecuteCall, Session
<1>3. frame[c] \in Frames
  BY DEF TypeOK, Frames
<1> DEFINE Good == /\ pc' \in [Clients -> Pcs]
                   /\ frame' \in [Clients -> Frames]
                   /\ \A d \in Clients : pc'[d] = "register" <=> conn' = d
<1>4. Good
  <2>1. ASSUME NEW call \in Calls, StartCall(c, call) PROVE Good
    <3>1. call \in Call
      BY DEF Calls, Call
    <3>2. [call |-> call, floor |-> confirmed[call.name], body |-> {}] \in Frames
      BY <3>1 DEF Frames, Call, TypeOK
    <3>3. QED
      BY <1>1, <2>1, <3>2, LocalType DEF StartCall
  <2>2. CASE SimpleCall(c)
    <3>1. CASE Return(c)
      BY <1>1, <2>2, <3>1, EmptyFrame, LocalType DEF SimpleCall, Return
    <3>2. CASE pc' = [pc EXCEPT ![c] = "transpile"] /\ UNCHANGED frame
      <4>1. frame' = [frame EXCEPT ![c] = frame[c]]
        BY <3>2 DEF TypeOK
      <4>2. QED
        BY <1>1, <1>3, <2>2, <3>2, <4>1, LocalType DEF SimpleCall
    <3>3. QED
      BY <2>2, <3>1, <3>2 DEF SimpleCall, Reply
  <2>3. CASE Transpile(c)
    <3>1. DEFINE f == [frame[c] EXCEPT !.body = Stored(Lower[frame[c].call.name])]
    <3>2. f \in Frames
      BY <1>3 DEF Frames, Stored, TypeOK
    <3>3. frame' = [frame EXCEPT ![c] = f]
      BY <2>3 DEF Transpile, TypeOK
    <3> HIDE DEF f
    <3>4. QED
      BY <1>1, <2>3, <3>2, <3>3, LocalType DEF Transpile
  <2>4. CASE ExecuteCall(c)
    <3>1. Return(c)
      BY <2>4 DEF ExecuteCall, Reply
    <3>2. QED
      BY <1>1, <2>4, <3>1, EmptyFrame, LocalType DEF ExecuteCall, Return
  <2>5. QED
    BY <2>1, <2>2, <2>3, <2>4
<1>5. QED
  BY <1>1, <1>2, <1>4 DEF TypeOK, Pcs, Frames

LEMMA OtherType ==
  ASSUME TypeOK,
         \/ Begin \/ Commit \/ Rollback \/ Restart
         \/ \E n \in Names : DropFunction(n)
         \/ UNCHANGED vars
  PROVE  TypeOK'
<1>1. CASE Begin
  BY <1>1 DEF Begin, TypeOK, Known, Local, History
<1>2. CASE Commit
  BY <1>2 DEF Commit, TypeOK, Known, Local, History
<1>3. CASE Rollback
  BY <1>3 DEF Rollback, TypeOK, Known, Local, History
<1>4. CASE Restart
  <2>1. frame' \in [Clients -> Frames]
    BY <1>4, EmptyFrame DEF Restart
  <2>2. \A d \in Clients : pc'[d] = "register" <=> conn' = d
    BY <1>4, FunctionsAssumption DEF Restart
  <2>3. QED
    BY <1>4, <2>1, <2>2 DEF Restart, TypeOK, History, Frames
<1>5. CASE \E n \in Names : DropFunction(n)
  <2>1. rows' \subseteq rows
    BY <1>5 DEF DropFunction
  <2>2. durable' \subseteq Row
    BY <1>5, <2>1 DEF DropFunction, Autocommit, TypeOK
  <2>3. dropped' \in [Names -> 0..MaxMade]
    BY <1>5 DEF DropFunction, TypeOK
  <2>4. QED
    BY <1>5, <2>1, <2>2, <2>3 DEF DropFunction, TypeOK, Session, Known, Local
<1>6. CASE UNCHANGED vars
  BY <1>6 DEF vars, TypeOK
<1>7. QED
  BY <1>1, <1>2, <1>3, <1>4, <1>5, <1>6

LEMMA NextTypeOK == TypeOK /\ [Next]_vars => TypeOK'
<1> SUFFICES ASSUME TypeOK, [Next]_vars PROVE TypeOK'
  OBVIOUS
<1>1. ASSUME NEW c \in Clients, NEW n \in Names, NEW m \in Names,
             StoreFunction(c, n, Signature[m])
      PROVE  TypeOK'
  BY <1>1, StoreType, FunctionsAssumption
<1>2. ASSUME NEW c \in Clients, NEW call \in Calls, StartCall(c, call) PROVE TypeOK'
  BY <1>2, CallType
<1>3. ASSUME NEW c \in Clients, Step(c) PROVE TypeOK'
  BY <1>3, RegisterType, CallType DEF Step
<1>4. QED
  BY <1>1, <1>2, <1>3, OtherType DEF Next

\* The types hold, the mutex is held only between the storing of a function and
\* its registration, and the cache has one definition of a name.
THEOREM TypeCorrect == Spec => []TypeOK
<1>1. QED
  BY InitTypeOK, NextTypeOK, PTL DEF Spec
-----------------------------------------------------------------------------
(* Functions created outside of blocks, under lower-case names.             *)

\* DROP FUNCTION looks for capital letters only.
Lowercase ==
  /\ Env \cap {"create_in_block", "quoted"} = {}
  /\ \A n, m \in Names : Lower[n] = n => Upper[m] # n

\* Nothing is undone; rows are no newer than the last that was created; what
\* was confirmed is there, and the cache is no older.
Kept ==
  /\ rows = durable
  /\ \A r \in rows : Lower[r.name] = r.name /\ r.oid <= Len(created)
  /\ \A n \in Names : confirmed[n] <= Len(created)
  /\ \A n \in Names : confirmed[n] # 0 =>
       \E r \in rows : r.name = n /\ r.oid >= confirmed[n]
  /\ \A r \in cache : r.oid >= confirmed[r.name]

\* All that the cache has of other names than row's is the newest, and row is
\* newer than what it has of that name.
Registering(row) ==
  /\ row \in rows
  /\ row.oid = Len(created)
  /\ \A r \in cache : r.name # row.name => r \in Newest(rows, r.name)

Current ==
  /\ CacheIsNewest
  /\ \A c \in Clients : conn = c =>
       \E row \in Row : frame[c].body = {row} /\ Registering(row)

\* A call knows no more of its function than was confirmed, and the body it
\* has is no older than what it knows.
Calling ==
  \A c \in Clients :
    /\ pc[c] \in {"simple", "transpile", "execute"} =>
         /\ frame[c].call \in Call
         /\ Lower[frame[c].call.name] = frame[c].call.name
         /\ frame[c].floor <= confirmed[frame[c].call.name]
    /\ pc[c] = "execute" => \A r \in frame[c].body : r.oid >= frame[c].floor

\* What the answers are made of, as numbers.
Answered == answer.ran \in Nat /\ answer.floor \in Nat /\ CallsRunNewest

IInv == TypeOK /\ Kept /\ Current /\ Calling /\ Answered

LEMMA InitIInv == Init => IInv
<1> SUFFICES ASSUME Init PROVE IInv
  OBVIOUS
<1>1. TypeOK
  BY InitTypeOK
<1>2. Kept
  BY DEF Init, Kept
<1>3. Current
  BY FunctionsAssumption DEF Init, Current, CacheIsNewest
<1>4. Calling
  BY DEF Init, Calling
<1>5. Answered
  BY DEF Init, Answered, CallsRunNewest, NoAnswer
<1>6. QED
  BY <1>1, <1>2, <1>3, <1>4, <1>5 DEF IInv

\* StoreFunction takes the mutex over a cache that is the newest.
LEMMA StoreIInv ==
  ASSUME Lowercase, IInv, NEW c \in Clients, NEW n \in Names, NEW def \in Defs,
         StoreFunction(c, n, def), TypeOK'
  PROVE  IInv'
<1> USE DEF IInv
<1>1. PICK row \in Row : row = [name |-> n, oid |-> Len(created) + 1, def |-> def]
  BY NewRow DEF StoreFunction
<1>2. /\ rows' = rows \cup {row} /\ created' = Append(created, def)
      /\ frame' = [frame EXCEPT ![c].body = {row}]
      /\ pc' = [pc EXCEPT ![c] = "register"] /\ conn = Free /\ conn' = c
      /\ UNCHANGED <<status, cache, registered, confirmed, answer>>
  BY <1>1 DEF StoreFunction, KeepLock, Known
<1>3. row.name = n /\ row.oid = Len(created) + 1
  BY <1>1
<1>4. Len(created) \in Nat /\ Len(created') = Len(created) + 1
  BY <1>2 DEF TypeOK
<1>5. status = "Idle" /\ Lower[n] = n
  BY DEF StoreFunction, MayCreate, Lowercase
<1>6. Kept'
  <2>1. rows' = durable'
    BY <1>5 DEF StoreFunction, Autocommit
  <2>2. \A r \in rows' : Lower[r.name] = r.name /\ r.oid <= Len(created')
    BY <1>2, <1>3, <1>4, <1>5 DEF Kept, TypeOK, Row
  <2>3. \A m \in Names : confirmed'[m] <= Len(created')
    BY <1>2, <1>4 DEF Kept, TypeOK
  <2>4. QED
    BY <1>2, <2>1, <2>2, <2>3 DEF Kept
<1>7. Current'
  <2>1. \A r \in cache : r.name # n => r \in Newest(rows', r.name)
    <3> SUFFICES ASSUME NEW r \in cache, r.name # n PROVE r \in Newest(rows', r.name)
      OBVIOUS
    <3>1. r \in Newest(rows, r.name)
      BY <1>2 DEF Current, CacheIsNewest
    <3>2. QED
      BY <1>2, <1>3, <3>1 DEF Newest
  <2>2. frame'[c].body = {row}
    BY <1>2 DEF TypeOK
  <2>3. Registering(row)'
    BY <1>2, <1>3, <1>4, <2>1 DEF Registering
  <2>4. \A d \in Clients : conn' = d => d = c
    BY <1>2
  <2>5. CacheIsNewest'
    BY <1>2, FunctionsAssumption DEF CacheIsNewest
  <2>6. QED
    BY <1>1, <2>2, <2>3, <2>4, <2>5 DEF Current
<1>8. Calling'
  BY <1>2 DEF Calling, TypeOK
<1>9. Answered'
  BY <1>2 DEF Answered, CallsRunNewest
<1>10. QED
  BY <1>6, <1>7, <1>8, <1>9

LEMMA RegisterIInv ==
  ASSUME IInv, NEW c \in Clients, RegisterFunction(c), TypeOK'
  PROVE  IInv'
<1> USE DEF IInv
<1>1. conn = c /\ pc[c] = "register"
  BY DEF RegisterFunction, TypeOK
<1>2. PICK row \in Row : frame[c].body = {row} /\ Registering(row)
  BY <1>1 DEF Current
<1>3. /\ Replace(row)
      /\ confirmed' = [confirmed EXCEPT ![row.name] = row.oid]
      /\ conn' = Free /\ pc' = [pc EXCEPT ![c] = "ready"]
      /\ frame' = [frame EXCEPT ![c] = NoFrame]
      /\ UNCHANGED <<status, rows, durable, created, answer>>
  BY <1>2 DEF RegisterFunction, Return, Catalog
<1>4. row \in rows /\ row.oid = Len(created) /\ row.name \in Names
  BY <1>2 DEF Registering, Row
<1>5. \A r \in cache' : r = row \/ (r \in cache /\ r.name # row.name)
  BY <1>3 DEF Replace, Stored
<1>6. \A m \in Names : confirmed'[m] = IF m = row.name THEN row.oid ELSE confirmed[m]
  BY <1>3 DEF TypeOK
<1>7. Len(created) \in Nat /\ confirmed \in [Names -> 0..MaxMade]
  BY DEF TypeOK
<1>8. Kept'
  <2>1. \A m \in Names : confirmed'[m] <= Len(created')
    BY <1>3, <1>4, <1>6, <1>7 DEF Kept
  <2>2. \A m \in Names : confirmed'[m] # 0 =>
          \E r \in rows' : r.name = m /\ r.oid >= confirmed'[m]
    <3> SUFFICES ASSUME NEW m \in Names, confirmed'[m] # 0
                 PROVE  \E r \in rows' : r.name = m /\ r.oid >= confirmed'[m]
      OBVIOUS
    <3>1. CASE m = row.name
      BY <1>3, <1>4, <1>6, <1>7, <3>1
    <3>2. CASE m # row.name
      BY <1>3, <1>6, <3>2 DEF Kept
    <3>3. QED
      BY <3>1, <3>2
  <2>3. \A r \in cache' : r.oid >= confirmed'[r.name]
    <3> SUFFICES ASSUME NEW r \in cache' PROVE r.oid >= confirmed'[r.name]
      OBVIOUS
    <3>1. CASE r = row
      BY <1>4, <1>6, <1>7, <3>1
    <3>2. CASE r \in cache /\ r.name # row.name
      <4>1. r.name \in Names
        BY <3>2 DEF TypeOK, Row
      <4>2. QED
        BY <1>6, <3>2, <4>1 DEF Kept
    <3>3. QED
      BY <1>5, <3>1, <3>2
  <2>4. QED
    BY <1>3, <2>1, <2>2, <2>3 DEF Kept
<1>9. Current'
  <2>1. row \in Newest(rows, row.name)
    BY <1>4 DEF Kept, Newest
  <2>2. \A r \in cache' : r \in Newest(rows', r.name)
    BY <1>2, <1>3, <1>5, <2>1 DEF Registering
  <2>3. QED
    BY <1>3, <2>2, FunctionsAssumption DEF Current, CacheIsNewest
<1>10. Calling'
  <2>1. \A m \in Names : confirmed[m] <= confirmed'[m]
    BY <1>4, <1>6, <1>7 DEF Kept
  <2>2. \A d \in Clients : pc'[d] # "ready" => pc'[d] = pc[d] /\ frame'[d] = frame[d]
    BY <1>3 DEF TypeOK
  <2> SUFFICES ASSUME NEW d \in Clients, pc'[d] \in {"simple", "transpile", "execute"}
               PROVE  /\ frame'[d].call \in Call
                      /\ Lower[frame'[d].call.name] = frame'[d].call.name
                      /\ frame'[d].floor <= confirmed'[frame'[d].call.name]
                      /\ pc'[d] = "execute" => \A r \in frame'[d].body : r.oid >= frame'[d].floor
    BY DEF Calling
  <2>3. pc'[d] = pc[d] /\ frame'[d] = frame[d]
    BY <2>2
  <2>4. /\ frame[d].call \in Call
        /\ Lower[frame[d].call.name] = frame[d].call.name
        /\ frame[d].floor <= confirmed[frame[d].call.name]
        /\ pc[d] = "execute" => \A r \in frame[d].body : r.oid >= frame[d].floor
    BY <2>3 DEF Calling
  <2>5. frame[d].call.name \in Names
    BY <2>4 DEF Call
  <2>6. frame[d].floor \in Nat
    BY FunctionsAssumption DEF TypeOK
  <2>7. confirmed[frame[d].call.name] \in Nat /\ confirmed'[frame[d].call.name] \in Nat
    BY <1>7, <2>5, FunctionsAssumption DEF TypeOK
  <2>8. frame[d].floor <= confirmed'[frame[d].call.name]
    BY <2>1, <2>4, <2>5, <2>6, <2>7
  <2>9. QED
    BY <2>3, <2>4, <2>8
<1>11. Answered'
  BY <1>3 DEF Answered, CallsRunNewest
<1>12. QED
  BY <1>8, <1>9, <1>10, <1>11

\* A step of a call changes neither the catalog nor the cache nor the mutex.
LEMMA CallIInv ==
  ASSUME Lowercase, IInv, NEW c \in Clients, TypeOK',
         \/ \E call \in Calls : StartCall(c, call)
         \/ SimpleCall(c) \/ Transpile(c) \/ ExecuteCall(c)
  PROVE  IInv'
<1> USE DEF IInv
<1>1. /\ UNCHANGED <<conn, rows, durable, cache, registered, created, confirmed>>
      /\ pc[c] # "register"
      /\ \A d \in Clients \ {c} : pc'[d] = pc[d] /\ frame'[d] = frame[d]
  BY DEF StartCall, SimpleCall, Transpile, ExecuteCall, Session, Catalog, Known, History,
         Reply, Return, TypeOK
<1>2. Kept'
  BY <1>1 DEF Kept
<1>3. Current'
  <2>1. CacheIsNewest'
    BY <1>1 DEF Current, CacheIsNewest, Newest
  <2>2. ASSUME NEW d \in Clients, conn' = d
        PROVE  \E row \in Row : frame'[d].body = {row} /\ Registering(row)'
    <3>1. pc[d] = "register" /\ d # c
      BY <1>1, <2>2 DEF TypeOK
    <3>2. PICK row \in Row : frame[d].body = {row} /\ Registering(row)
      BY <1>1, <2>2 DEF Current
    <3>3. Registering(row)'
      BY <1>1, <3>2 DEF Registering, Newest
    <3>4. QED
      BY <1>1, <3>1, <3>2, <3>3
  <2>3. QED
    BY <2>1, <2>2 DEF Current
<1> DEFINE CallOk(p, f) ==
      /\ p \in {"simple", "transpile", "execute"} =>
           /\ f.call \in Call
           /\ Lower[f.call.name] = f.call.name
           /\ f.floor <= confirmed[f.call.name]
      /\ p = "execute" => \A r \in f.body : r.oid >= f.floor
<1>4. CallOk(pc[c], frame[c])
  BY DEF Calling
<1>5. frame[c].floor \in Nat /\ pc[c] \in Pcs
  BY FunctionsAssumption DEF TypeOK, Pcs
<1> DEFINE Goal == CallOk(pc'[c], frame'[c]) /\ Answered'
<1>6. Goal
  <2>1. ASSUME NEW call \in Calls, StartCall(c, call) PROVE Goal
    <3>1. pc'[c] = "simple" /\ answer' = answer
          /\ frame'[c] = [call |-> call, floor |-> confirmed[call.name], body |-> {}]
      BY <2>1 DEF StartCall, TypeOK, History
    <3>2. call \in Call /\ Lower[call.name] = call.name
      BY <2>1 DEF StartCall, Lowercase, Calls, Call
    <3>3. confirmed[call.name] \in Nat
      BY <3>2, FunctionsAssumption DEF TypeOK, Call
    <3>4. QED
      BY <3>1, <3>2, <3>3 DEF Answered, CallsRunNewest
  <2> DEFINE name == frame[c].call.name
  <2>2. CASE SimpleCall(c)
    <3>1. /\ frame[c].call \in Call /\ Lower[name] = name /\ name \in Names
          /\ frame[c].floor <= confirmed[name] /\ confirmed[name] \in Nat
      BY <1>4, <2>2, FunctionsAssumption DEF SimpleCall, Call, TypeOK
    <3>2. CASE pc' = [pc EXCEPT ![c] = "transpile"] /\ UNCHANGED <<frame, History>>
      BY <3>1, <3>2, <1>5 DEF TypeOK, History, Answered, CallsRunNewest
    <3>3. ASSUME NEW r \in Newest(rows, Lower[name]), Reply(c, Value(r.def), r.oid)
          PROVE  Goal
      <4>1. r \in rows /\ r.oid \in Nat /\ \A s \in rows : s.name = name => s.oid <= r.oid
        BY <3>1, <3>3, FunctionsAssumption DEF Newest, TypeOK, Row
      <4>2. \A s \in rows : s.oid \in Nat
        BY FunctionsAssumption DEF TypeOK, Row
      <4>3. r.oid >= confirmed[name]
        <5>1. CASE confirmed[name] = 0
          BY <4>1, <5>1
        <5>2. CASE confirmed[name] # 0
          BY <3>1, <4>1, <4>2, <5>2 DEF Kept
        <5>3. QED
          BY <5>1, <5>2
      <4>4. answer'.ran = r.oid /\ answer'.floor = frame[c].floor
        BY <3>3 DEF Reply
      <4>5. pc'[c] = "ready"
        BY <3>3 DEF Reply, Return, TypeOK
      <4>6. answer'.ran >= answer'.floor
        BY <1>5, <3>1, <4>1, <4>3, <4>4
      <4>7. QED
        BY <1>5, <4>1, <4>4, <4>5, <4>6 DEF Answered, CallsRunNewest
    <3>4. QED
      BY <2>2, <3>2, <3>3 DEF SimpleCall
  <2>3. CASE Transpile(c)
    <3>1. /\ frame[c].call \in Call /\ Lower[name] = name /\ name \in Names
          /\ frame[c].floor <= confirmed[name] /\ confirmed[name] \in Nat
      BY <1>4, <2>3, FunctionsAssumption DEF Transpile, Call, TypeOK
    <3>2. /\ pc'[c] = "execute" /\ answer' = answer
          /\ frame'[c] = [frame[c] EXCEPT !.body = Stored(name)]
      BY <2>3, <3>1 DEF Transpile, TypeOK, History
    <3>3. frame'[c].call = frame[c].call /\ frame'[c].floor = frame[c].floor
          /\ frame'[c].body = Stored(name)
      BY <3>2 DEF TypeOK
    <3>4. \A r \in Stored(name) : r.oid \in Nat /\ r.oid >= confirmed[name]
      BY FunctionsAssumption DEF Stored, Kept, TypeOK, Row
    <3>5. \A r \in Stored(name) : r.oid >= frame[c].floor
      BY <1>5, <3>1, <3>4
    <3>6. QED
      BY <3>1, <3>2, <3>3, <3>5 DEF Answered, CallsRunNewest
  <2>4. CASE ExecuteCall(c)
    <3>1. pc'[c] = "ready" /\ answer'.floor = frame[c].floor
      BY <2>4 DEF ExecuteCall, Reply, Return, TypeOK
    <3>2. answer'.ran = 0 \/ \E r \in frame[c].body : answer'.ran = r.oid
      BY <2>4 DEF ExecuteCall, Reply
    <3>3. \A r \in frame[c].body : r.oid \in Nat /\ r.oid >= frame[c].floor
      BY <1>4, <2>4, FunctionsAssumption DEF ExecuteCall, TypeOK, Row
    <3>4. QED
      BY <1>5, <3>1, <3>2, <3>3 DEF Answered, CallsRunNewest
  <2>5. QED
    BY <2>1, <2>2, <2>3, <2>4
<1>7. Calling'
  BY <1>1, <1>6 DEF Calling
<1>8. QED
  BY <1>2, <1>3, <1>6, <1>7

\* Transactions and DROP FUNCTION change nothing of the catalog here, and a
\* restart empties the cache.
LEMMA OtherIInv ==
  ASSUME Lowercase, IInv, TypeOK',
         \/ Begin \/ Commit \/ Rollback \/ Restart
         \/ \E n \in Names : DropFunction(n)
         \/ UNCHANGED vars
  PROVE  IInv'
<1> USE DEF IInv
<1>1. UNCHANGED <<rows, durable, created, confirmed, answer>>
  <2>1. CASE \E n \in Names : DropFunction(n)
    <3>1. PICK n \in Names : DropFunction(n)
      BY <2>1
    <3>2. \A r \in rows : r.name # Upper[n]
      <4> SUFFICES ASSUME NEW r \in rows PROVE r.name # Upper[n]
        OBVIOUS
      <4>1. r.name \in Names /\ Lower[r.name] = r.name
        BY DEF Kept, TypeOK, Row
      <4>2. QED
        BY <4>1 DEF Lowercase
    <3>3. rows' = rows
      BY <3>1, <3>2 DEF DropFunction
    <3>4. QED
      BY <3>1, <3>3 DEF DropFunction, Autocommit, Kept
  <2>2. CASE Begin \/ Commit \/ Rollback \/ Restart \/ UNCHANGED vars
    BY <2>2 DEF Begin, Commit, Rollback, Restart, vars, Kept, History
  <2>3. QED
    BY <2>1, <2>2
<1>2. CASE Restart
  <2>1. /\ cache' = {} /\ conn' = Free
        /\ \A c \in Clients : pc'[c] = "ready"
    BY <1>2 DEF Restart
  <2>2. Kept'
    BY <1>1, <2>1 DEF Kept
  <2>3. Current'
    BY <2>1, FunctionsAssumption DEF Current, CacheIsNewest
  <2>4. Calling'
    BY <2>1 DEF Calling
  <2>5. QED
    BY <1>1, <2>2, <2>3, <2>4 DEF Answered, CallsRunNewest
<1>3. CASE UNCHANGED <<conn, cache, pc, frame>>
  <2>1. Kept'
    BY <1>1, <1>3 DEF Kept
  <2>2. Current'
    BY <1>1, <1>3 DEF Current, CacheIsNewest, Registering, Newest
  <2>3. Calling'
    BY <1>1, <1>3 DEF Calling
  <2>4. QED
    BY <1>1, <2>1, <2>2, <2>3 DEF Answered, CallsRunNewest
<1>4. QED
  BY <1>2, <1>3 DEF Begin, Commit, Rollback, DropFunction, Session, Known, Local, vars

LEMMA NextIInv == Lowercase /\ IInv /\ [Next]_vars => IInv'
<1> SUFFICES ASSUME Lowercase, IInv, [Next]_vars PROVE IInv'
  OBVIOUS
<1>1. TypeOK'
  BY NextTypeOK DEF IInv
<1>2. ASSUME NEW c \in Clients, NEW n \in Names, NEW m \in Names,
             StoreFunction(c, n, Signature[m])
      PROVE  IInv'
  BY <1>1, <1>2, StoreIInv, FunctionsAssumption
<1>3. ASSUME NEW c \in Clients, NEW call \in Calls, StartCall(c, call) PROVE IInv'
  BY <1>1, <1>3, CallIInv
<1>4. ASSUME NEW c \in Clients, Step(c) PROVE IInv'
  BY <1>1, <1>4, RegisterIInv, CallIInv DEF Step
<1>5. QED
  BY <1>1, <1>2, <1>3, <1>4, OtherIInv DEF Next

LEMMA InvariantHolds == ASSUME Lowercase PROVE Spec => []IInv
<1>1. Init => IInv
  BY InitIInv
<1>2. IInv /\ [Next]_vars => IInv'
  BY NextIInv
<1>3. QED
  BY <1>1, <1>2, PTL DEF Spec

\* While no CREATE FUNCTION is under way, whatever else is, the body a call is
\* inlined with is the newest in the catalog: the two ways of execute_query to
\* answer a call do not disagree, also after ROLLBACK, DROP and a restart.
THEOREM CacheStaysNewest == ASSUME Lowercase PROVE Spec => []CacheIsNewest
<1>1. IInv => CacheIsNewest
  BY DEF IInv, Current
<1>2. QED
  BY <1>1, InvariantHolds, PTL

\* However calls and CREATE OR REPLACE of any number of clients overlap, a call
\* never runs a definition older than the last that was confirmed before it.
THEOREM CallsNeverFallBack == ASSUME Lowercase PROVE Spec => []CallsRunNewest
<1>1. IInv => CallsRunNewest
  BY DEF IInv, Answered
<1>2. QED
  BY <1>1, InvariantHolds, PTL

-----------------------------------------------------------------------------
(* Calls as they were declared                                              *)

\* One signature for a name, calls with as many arguments as it has, no NULL
\* for a STRICT function, and calls with literals over no table.
AsDeclared == Lowercase /\ Env \cap {"overload", "arity", "null_to_strict", "from"} = {}

\* A row is the definition it was created with, which is its name's signature.
Sound(r) ==
  r.oid \in 1..Len(created) /\ created[r.oid] = r.def /\ r.def = Signature[r.name]

\* The cache has nothing that is not in the catalog, a name that has rows has
\* a newest one, and SQLite knows no function the cache does not.  While one is
\* being registered nothing as new is confirmed.
RowsSound ==
  /\ \A r \in rows : Sound(r)
  /\ cache \subseteq rows
  /\ \A n \in Names : (\E r \in rows : r.name = n) => Newest(rows, n) # {}
  /\ \A n \in Names : confirmed[n] # 0 => created[confirmed[n]] = Signature[n]
  /\ \A n \in Names, a \in Nat : <<n, a>> \in registered => \E r \in cache : r.name = n
  /\ conn # Free => \A n \in Names : confirmed[n] < Len(created)

\* What a call under way is known to be.  It goes past the catalog with
\* literals of a confirmed function only if that returns void, and it is left
\* without a body only if its function is confirmed after it came.
CallSound(p, f) ==
  /\ p \in {"simple", "transpile", "execute"} =>
       /\ f.call.args = Signature[f.call.name].args
       /\ f.call.null => ~Signature[f.call.name].strict
       /\ f.call.form # "from"
       /\ f.floor # 0 => f.floor \in 1..Len(created) /\ created[f.floor] = Signature[f.call.name]
  /\ p \in {"transpile", "execute"} =>
       (f.floor # 0 /\ f.call.form = "literal" /\ ~f.call.null
          => Signature[f.call.name].kind = "void")
  /\ p = "execute" =>
       /\ \A r \in f.body : r \in rows /\ r.name = f.call.name
       /\ f.body = {} => \A a \in Nat : <<f.call.name, a>> \in registered => f.floor < confirmed[f.call.name]

CallsSound == \A c \in Clients : CallSound(pc[c], frame[c])

\* What the last answer speaks of has been created.
AnswerSound ==
  /\ answer.ran # 0 => answer.ran \in 1..Len(created)
  /\ answer.floor # 0 => answer.floor \in 1..Len(created)
  /\ answer.kept => answer.floor # 0
  /\ CallsAnswer

Declared == RowsSound /\ CallsSound /\ AnswerSound

LEMMA InitDeclared == Init => Declared
<1> SUFFICES ASSUME Init PROVE Declared
  OBVIOUS
<1>1. RowsSound
  BY DEF Init, RowsSound
<1>2. CallsSound
  BY DEF Init, CallsSound, CallSound
<1>3. AnswerSound
  BY DEF Init, AnswerSound, CallsAnswer, NoAnswer
<1>4. QED
  BY <1>1, <1>2, <1>3 DEF Declared

\* What speaks of functions that are created goes on to when one is added.
LEMMA StoreDeclared ==
  ASSUME AsDeclared, IInv, Declared, NEW c \in Clients, NEW n \in Names, NEW def \in Defs,
         StoreFunction(c, n, def)
  PROVE  Declared'
<1> USE DEF IInv, Declared
<1>1. PICK row \in Row : row = [name |-> n, oid |-> Len(created) + 1, def |-> def]
  BY NewRow DEF StoreFunction
<1>2. /\ rows' = rows \cup {row} /\ created' = Append(created, def)
      /\ frame' = [frame EXCEPT ![c].body = {row}]
      /\ pc' = [pc EXCEPT ![c] = "register"] /\ conn = Free /\ conn' = c
      /\ UNCHANGED <<cache, registered, confirmed, answer>>
  BY <1>1 DEF StoreFunction, KeepLock, Known
<1>3. row.name = n /\ row.oid = Len(created) + 1 /\ row.def = def /\ def = Signature[n]
  BY <1>1 DEF StoreFunction, MayCreate, AsDeclared
<1>4. /\ Len(created) \in Nat /\ Len(created') = Len(created) + 1
      /\ created'[Len(created) + 1] = def
      /\ \A i \in 1..Len(created) : i \in 1..Len(created') /\ created'[i] = created[i]
  BY <1>2 DEF TypeOK
<1>5. \A m \in Names : confirmed[m] \in Nat /\ confirmed[m] <= Len(created)
  BY FunctionsAssumption DEF TypeOK, Kept
<1>6. \A r \in rows : r.oid \in Nat /\ r.oid < row.oid
  BY <1>3, <1>4 DEF RowsSound, Sound
<1>7. RowsSound'
  <2>1. \A r \in rows' : Sound(r)'
    <3>1. Sound(row)'
      BY <1>3, <1>4 DEF Sound
    <3>2. \A r \in rows : Sound(r)'
      BY <1>4 DEF RowsSound, Sound
    <3>3. QED
      BY <1>2, <3>1, <3>2
  <2>2. \A m \in Names : (\E r \in rows' : r.name = m) => Newest(rows', m) # {}
    <3> SUFFICES ASSUME NEW m \in Names, NEW r \in rows', r.name = m
                 PROVE  \E s \in rows' : s \in Newest(rows', m)
      OBVIOUS
    <3>1. CASE m = n
      <4>1. row \in Newest(rows', m)
        BY <1>2, <1>3, <1>4, <1>6, <3>1 DEF Newest
      <4>2. QED
        BY <1>2, <4>1
    <3>2. CASE m # n
      <4>1. r \in rows
        BY <1>2, <1>3, <3>2
      <4>2. PICK s : s \in Newest(rows, m)
        BY <4>1 DEF RowsSound
      <4>3. s \in Newest(rows', m) /\ s \in rows'
        BY <1>2, <1>3, <3>2, <4>2 DEF Newest
      <4>4. QED
        BY <4>3
    <3>3. QED
      BY <3>1, <3>2
  <2>3. \A m \in Names : confirmed'[m] # 0 => created'[confirmed'[m]] = Signature[m]
    BY <1>2, <1>4, <1>5 DEF RowsSound
  <2>4. \A m \in Names : confirmed'[m] < Len(created')
    BY <1>2, <1>4, <1>5
  <2>5. QED
    BY <1>2, <2>1, <2>2, <2>3, <2>4 DEF RowsSound
<1>8. CallsSound'
  <2> SUFFICES ASSUME NEW d \in Clients PROVE CallSound(pc[d], frame[d])'
    BY DEF CallsSound
  <2>1. CASE d = c
    BY <1>2, <2>1 DEF CallSound, TypeOK
  <2>2. CASE d # c
    <3>1. pc'[d] = pc[d] /\ frame'[d] = frame[d] /\ CallSound(pc[d], frame[d])
      BY <1>2, <2>2 DEF TypeOK, CallsSound
    <3>2. pc'[d] \in {"simple", "transpile", "execute"} =>
            /\ frame'[d].call.args = Signature[frame'[d].call.name].args
            /\ frame'[d].call.null => ~Signature[frame'[d].call.name].strict
            /\ frame'[d].call.form # "from"
      BY <3>1 DEF CallSound
    <3>3. pc'[d] \in {"simple", "transpile", "execute"} =>
            (frame'[d].floor # 0 => frame'[d].floor \in 1..Len(created')
                                    /\ created'[frame'[d].floor] = Signature[frame'[d].call.name])
      BY <1>4, <3>1 DEF CallSound
    <3>4. pc'[d] \in {"transpile", "execute"} =>
            (frame'[d].floor # 0 /\ frame'[d].call.form = "literal" /\ ~frame'[d].call.null
               => Signature[frame'[d].call.name].kind = "void")
      BY <3>1 DEF CallSound
    <3>5. pc'[d] = "execute" =>
            /\ \A r \in frame'[d].body : r \in rows' /\ r.name = frame'[d].call.name
            /\ frame'[d].body = {} => \A a \in Nat : <<frame'[d].call.name, a>> \in registered'
                                       => frame'[d].floor < confirmed'[frame'[d].call.name]
      <4>1. ASSUME pc[d] = "execute" PROVE \A r \in frame[d].body : r \in rows /\ r.name = frame[d].call.name
        BY <3>1, <4>1 DEF CallSound
      <4>2. ASSUME pc[d] = "execute", frame[d].body = {}, NEW a \in Nat,
                   <<frame[d].call.name, a>> \in registered
            PROVE  frame[d].floor < confirmed[frame[d].call.name]
        BY <3>1, <4>2 DEF CallSound
      <4>3. rows \subseteq rows' /\ registered' = registered /\ confirmed' = confirmed
        BY <1>2
      <4>4. QED
        BY <3>1, <4>1, <4>2, <4>3
    <3>6. QED
      BY <3>2, <3>3, <3>4, <3>5 DEF CallSound
  <2>3. QED
    BY <2>1, <2>2
<1>9. AnswerSound'
  BY <1>2, <1>4 DEF AnswerSound, CallsAnswer
<1>10. QED
  BY <1>7, <1>8, <1>9

LEMMA RegisterDeclared ==
  ASSUME IInv, Declared, NEW c \in Clients, RegisterFunction(c)
  PROVE  Declared'
<1> USE DEF IInv, Declared
<1>1. conn = c /\ pc[c] = "register" /\ conn # Free
  BY FunctionsAssumption DEF RegisterFunction, TypeOK
<1>2. PICK row \in Row : frame[c].body = {row} /\ Registering(row)
  BY <1>1 DEF Current
<1>3. /\ Replace(row)
      /\ registered' = registered \cup {<<Lower[row.name], row.def.args>>}
      /\ confirmed' = [confirmed EXCEPT ![row.name] = row.oid]
      /\ conn' = Free /\ pc' = [pc EXCEPT ![c] = "ready"]
      /\ frame' = [frame EXCEPT ![c] = NoFrame]
      /\ UNCHANGED <<status, rows, durable, created, answer>>
  BY <1>2 DEF RegisterFunction, Return, Catalog
<1>4. row \in rows /\ row.oid = Len(created) /\ row.name \in Names
      /\ Lower[row.name] = row.name /\ Sound(row)
  BY <1>2 DEF Registering, Row, Kept, RowsSound
<1>5. /\ \A r \in cache' : r = row \/ r \in cache
      /\ row \in cache' /\ \A r \in cache : r.name # row.name => r \in cache'
  BY <1>3 DEF Replace, Stored
<1>6. \A m \in Names : confirmed'[m] = IF m = row.name THEN row.oid ELSE confirmed[m]
  BY <1>3 DEF TypeOK
<1>7. \A m \in Names : confirmed[m] \in Nat /\ confirmed[m] < Len(created)
  BY <1>1, FunctionsAssumption DEF TypeOK, RowsSound
<1>8. RowsSound'
  <2>1. cache' \subseteq rows'
    BY <1>3, <1>4, <1>5 DEF RowsSound
  <2>2. \A m \in Names : confirmed'[m] # 0 => created'[confirmed'[m]] = Signature[m]
    BY <1>3, <1>4, <1>6 DEF RowsSound, Sound
  <2>3. \A m \in Names, a \in Nat : <<m, a>> \in registered' => \E r \in cache' : r.name = m
    <3> SUFFICES ASSUME NEW m \in Names, NEW a \in Nat, <<m, a>> \in registered'
                 PROVE  \E r \in cache' : r.name = m
      OBVIOUS
    <3>1. CASE m = row.name
      BY <1>5, <3>1
    <3>2. CASE m # row.name
      <4>1. <<m, a>> \in registered
        BY <1>3, <1>4, <3>2
      <4>2. PICK r \in cache : r.name = m
        BY <4>1 DEF RowsSound
      <4>3. QED
        BY <1>5, <3>2, <4>2
    <3>3. QED
      BY <3>1, <3>2
  <2>4. \A r \in rows' : Sound(r)'
    BY <1>3 DEF RowsSound, Sound
  <2>5. \A m \in Names : (\E r \in rows' : r.name = m) => Newest(rows', m) # {}
    BY <1>3 DEF RowsSound
  <2>6. QED
    BY <1>3, <2>1, <2>2, <2>3, <2>4, <2>5 DEF RowsSound
<1>9. CallsSound'
  <2> SUFFICES ASSUME NEW d \in Clients PROVE CallSound(pc[d], frame[d])'
    BY DEF CallsSound
  <2>1. CASE pc'[d] = "ready"
    BY <2>1 DEF CallSound
  <2>2. CASE pc'[d] # "ready"
    <3>1. pc'[d] = pc[d] /\ frame'[d] = frame[d] /\ CallSound(pc[d], frame[d])
      BY <1>3, <2>2 DEF TypeOK, CallsSound
    <3>2. ASSUME pc[d] = "execute", frame[d].body = {}, NEW a \in Nat,
                 <<frame[d].call.name, a>> \in registered'
          PROVE  frame[d].floor < confirmed'[frame[d].call.name]
      <4> DEFINE name == frame[d].call.name
      <4>1. name \in Names /\ frame[d].floor \in Nat /\ frame[d].floor <= confirmed[name]
        BY <3>2, FunctionsAssumption DEF Calling, Call, TypeOK
      <4>2. CASE name = row.name
        BY <1>4, <1>6, <1>7, <4>1, <4>2 DEF TypeOK
      <4>3. CASE name # row.name
        <5>1. <<name, a>> \in registered
          BY <1>3, <1>4, <3>2, <4>3
        <5>2. frame[d].floor < confirmed[name]
          BY <3>1, <3>2, <5>1 DEF CallSound
        <5>3. QED
          BY <1>6, <4>1, <4>3, <5>2
      <4>4. QED
        BY <4>2, <4>3
    <3>3. pc'[d] = "execute" =>
            /\ \A r \in frame'[d].body : r \in rows' /\ r.name = frame'[d].call.name
            /\ frame'[d].body = {} => \A a \in Nat : <<frame'[d].call.name, a>> \in registered'
                                       => frame'[d].floor < confirmed'[frame'[d].call.name]
      BY <1>3, <3>1, <3>2 DEF CallSound
    <3>4. QED
      BY <1>3, <3>1, <3>3 DEF CallSound
  <2>3. QED
    BY <2>1, <2>2
<1>10. AnswerSound'
  BY <1>3 DEF AnswerSound, CallsAnswer
<1>11. QED
  BY <1>8, <1>9, <1>10

\* A definition that answers a call its name's signature allows answers it as
\* declared.
LEMMA Answers ==
  ASSUME NEW def \in Defs, NEW call \in Call, call.args = def.args, call.null => ~def.strict,
         call.form # "from"
  PROVE  Promise(def, call) = Values(def, call) /\ Values(def, call) = Value(def)
<1>1. ~(def.strict /\ call.null)
  BY DEF Defs, Call
<1>2. QED
  BY <1>1 DEF Promise, Values

LEMMA CallDeclared ==
  ASSUME AsDeclared, IInv, Declared, NEW c \in Clients,
         \/ \E call \in Calls : StartCall(c, call)
         \/ SimpleCall(c) \/ Transpile(c) \/ ExecuteCall(c)
  PROVE  Declared'
<1> USE DEF IInv, Declared
<1>1. /\ UNCHANGED <<conn, rows, durable, cache, registered, created, confirmed>>
      /\ \A d \in Clients \ {c} : pc'[d] = pc[d] /\ frame'[d] = frame[d]
  BY DEF StartCall, SimpleCall, Transpile, ExecuteCall, Session, Catalog, Known, History,
         Reply, Return, TypeOK
<1>2. RowsSound'
  BY <1>1 DEF RowsSound, Sound
<1>3. \A p, f : CallSound(p, f)' <=> CallSound(p, f)
  BY <1>1 DEF CallSound
<1>4. \A m \in Names : confirmed[m] \in Nat /\ confirmed[m] <= Len(created)
      /\ (confirmed[m] # 0 => created[confirmed[m]] = Signature[m])
  BY FunctionsAssumption DEF TypeOK, Kept, RowsSound
<1>5. CallSound(pc[c], frame[c]) /\ frame[c].floor \in Nat /\ Len(created) \in Nat
  BY FunctionsAssumption DEF CallsSound, TypeOK
<1> DEFINE call == frame[c].call
           Goal == CallSound(pc'[c], frame'[c]) /\ AnswerSound'
<1>6. ASSUME pc[c] \in {"simple", "transpile", "execute"}
      PROVE  /\ call \in Call /\ call.name \in Names /\ Lower[call.name] = call.name
             /\ frame[c].floor <= confirmed[call.name]
             /\ Signature[call.name] \in Defs
  BY <1>6, FunctionsAssumption DEF Calling, Call
<1>7. ASSUME pc[c] \in {"simple", "transpile", "execute"}
       PROVE  frame[c].floor > dropped[call.name] => frame[c].floor # 0
  <2>1. dropped[call.name] \in Nat
    BY <1>6, <1>7, FunctionsAssumption DEF TypeOK
  <2>2. QED
    BY <1>5, <2>1
<1>8. ASSUME answer' = answer PROVE AnswerSound'
  BY <1>1, <1>8 DEF AnswerSound, CallsAnswer
\* A definition that answers.
<1>9. ASSUME pc[c] \in {"simple", "execute"}, NEW r \in rows, r.name = call.name,
             NEW value, value \in {Value(r.def), Values(r.def, call)}, Reply(c, value, r.oid)
      PROVE  Goal
  <2>1. Sound(r) /\ r.oid \in Nat /\ r.def = Signature[call.name]
    BY <1>9 DEF RowsSound, Sound
  <2>2. /\ call.args = r.def.args /\ (call.null => ~r.def.strict) /\ call.form # "from"
        /\ (frame[c].floor # 0 => frame[c].floor \in 1..Len(created))
    BY <1>5, <1>9, <2>1 DEF CallSound
  <2>3. value = Promise(r.def, call)
    BY <1>6, <1>9, <2>1, <2>2, Answers
  <2>4. /\ answer'.value = value /\ answer'.ran = r.oid /\ answer'.floor = frame[c].floor
        /\ answer'.call = call /\ answer'.kept = (frame[c].floor > dropped[call.name])
    BY <1>9 DEF Reply
  <2>5. r.oid \in 1..Len(created) /\ created[r.oid] = r.def
    BY <2>1 DEF Sound
  <2>6. answer'.kept => answer'.floor # 0
    BY <1>7, <1>9, <2>4
  <2>7. answer'.ran # 0 /\ created' = created
    BY <1>1, <2>1, <2>4, <2>5
  <2>8. AnswerSound'
    BY <2>2, <2>3, <2>4, <2>5, <2>6, <2>7 DEF AnswerSound, CallsAnswer
  <2>9. pc'[c] = "ready"
    BY <1>9 DEF Reply, Return, TypeOK
  <2>10. QED
    BY <2>8, <2>9 DEF CallSound
<1>10. Goal
  <2>1. ASSUME NEW k \in Calls, StartCall(c, k) PROVE Goal
    <3>1. pc'[c] = "simple" /\ answer' = answer
          /\ frame'[c] = [call |-> k, floor |-> confirmed[k.name], body |-> {}]
      BY <2>1 DEF StartCall, TypeOK, History
    <3>2. k \in Call /\ k.name \in Names
      BY <2>1 DEF StartCall, Calls, Call
    <3>3. /\ k.args = Signature[k.name].args /\ k.form # "from"
          /\ k.null => ~Signature[k.name].strict
      BY <2>1 DEF StartCall, AsDeclared
    <3>4. confirmed[k.name] # 0 =>
            confirmed[k.name] \in 1..Len(created) /\ created[confirmed[k.name]] = Signature[k.name]
      BY <1>4, <1>5, <3>2
    <3>5. CallSound(pc'[c], frame'[c])
      BY <3>1, <3>3, <3>4 DEF CallSound
    <3>6. QED
      BY <1>8, <3>1, <3>5
  <2>2. CASE SimpleCall(c)
    <3>1. pc[c] = "simple" /\ Lower[call.name] = call.name
      BY <1>6, <2>2 DEF SimpleCall
    <3> DEFINE found == {r \in Newest(rows, call.name) : Direct(r.def, call)}
    <3>2. ASSUME NEW r \in found, Reply(c, Value(r.def), r.oid) PROVE Goal
      <4>1. r \in rows /\ r.name = call.name
        BY <3>2 DEF Newest
      <4>2. QED
        BY <1>9, <3>1, <3>2, <4>1
    <3>3. CASE found = {} /\ pc' = [pc EXCEPT ![c] = "transpile"] /\ UNCHANGED <<frame, History>>
      <4>1. pc'[c] = "transpile" /\ frame'[c] = frame[c] /\ answer' = answer
        BY <3>3 DEF TypeOK, History
      <4>2. ASSUME frame[c].floor # 0, call.form = "literal", ~call.null
            PROVE  Signature[call.name].kind = "void"
        <5>1. confirmed[call.name] # 0
          BY <1>4, <1>5, <1>6, <3>1, <4>2
        <5>2. PICK r : r \in Newest(rows, call.name)
          BY <1>6, <3>1, <5>1 DEF RowsSound, Kept
        <5>3. r \in rows /\ r.name = call.name /\ ~Direct(r.def, call)
          BY <3>3, <5>2 DEF Newest
        <5>4. r.def = Signature[call.name]
          BY <5>3 DEF RowsSound, Sound
        <5>5. call.args = r.def.args
          BY <1>5, <3>1, <5>4 DEF CallSound
        <5>6. QED
          BY <4>2, <5>3, <5>4, <5>5 DEF Direct, Pushed
      <4>3. CallSound(pc'[c], frame'[c])
        BY <1>5, <3>1, <4>1, <4>2 DEF CallSound
      <4>4. QED
        BY <1>8, <4>1, <4>3
    <3>4. QED
      BY <2>2, <3>1, <3>2, <3>3 DEF SimpleCall
  <2>3. CASE Transpile(c)
    <3>1. pc[c] = "transpile" /\ Lower[call.name] = call.name /\ call.name \in Names
      BY <1>6, <2>3 DEF Transpile
    <3>2. pc'[c] = "execute" /\ answer' = answer
          /\ frame'[c].call = call /\ frame'[c].floor = frame[c].floor
          /\ frame'[c].body = Stored(call.name)
      BY <2>3, <3>1 DEF Transpile, TypeOK, History
    <3>3. \A r \in Stored(call.name) : r \in rows /\ r.name = call.name
      BY DEF Stored, RowsSound
    <3>4. Stored(call.name) = {} => \A a \in Nat : <<call.name, a>> \notin registered
      BY <3>1 DEF Stored, RowsSound
    <3>5. CallSound(pc'[c], frame'[c])
      BY <1>5, <3>1, <3>2, <3>3, <3>4 DEF CallSound
    <3>6. QED
      BY <1>8, <3>2, <3>5
  <2>4. CASE ExecuteCall(c)
    <3>1. pc[c] = "execute" /\ Lower[call.name] = call.name /\ call \in Call
      BY <1>6, <2>4 DEF ExecuteCall
    <3>2. ASSUME NEW r \in frame[c].body, Reply(c, Values(r.def, call), r.oid) PROVE Goal
      <4>1. r \in rows /\ r.name = call.name
        BY <1>5, <3>1, <3>2 DEF CallSound
      <4>2. QED
        BY <1>9, <3>1, <3>2, <4>1
    <3>3. ASSUME NEW value \in {"null", "error"}, Reply(c, value, 0),
                 value = "null" => frame[c].body = {} /\ <<call.name, call.args>> \in registered
          PROVE  Goal
      <4>1. /\ answer'.value = value /\ answer'.ran = 0 /\ answer'.floor = frame[c].floor
            /\ answer'.call = call /\ answer'.last = confirmed[call.name] /\ pc'[c] = "ready"
            /\ answer'.kept = (frame[c].floor > dropped[call.name])
        BY <3>3 DEF Reply, Return, TypeOK
      <4>2. answer'.floor # 0 =>
              answer'.floor \in 1..Len(created) /\ created[answer'.floor] = Signature[call.name]
        BY <1>5, <3>1, <4>1 DEF CallSound
      <4>3. answer'.floor # 0 /\ call.form = "literal" /\ ~call.null => Signature[call.name].kind = "void"
        BY <1>5, <3>1, <4>1 DEF CallSound
      <4>4. value = "null" => answer'.floor < answer'.last
        <5>1. call.args \in Nat
          BY <3>1 DEF Call
        <5>2. QED
          BY <1>5, <3>1, <3>3, <4>1, <5>1 DEF CallSound
      <4>5. AnswerSound'
        BY <1>1, <1>7, <3>1, <4>1, <4>2, <4>3, <4>4 DEF AnswerSound, CallsAnswer
      <4>6. QED
        BY <4>1, <4>5 DEF CallSound
    <3>4. QED
      BY <2>4, <3>1, <3>2, <3>3 DEF ExecuteCall
  <2>5. QED
    BY <2>1, <2>2, <2>3, <2>4
<1>11. CallsSound'
  BY <1>1, <1>3, <1>10 DEF CallsSound
<1>12. QED
  BY <1>2, <1>10, <1>11

LEMMA OtherDeclared ==
  ASSUME Lowercase, IInv, Declared,
         \/ Begin \/ Commit \/ Rollback \/ Restart
         \/ \E n \in Names : DropFunction(n)
         \/ UNCHANGED vars
  PROVE  Declared'
<1> USE DEF IInv, Declared
<1>1. UNCHANGED <<rows, created, confirmed, answer>>
  <2>1. ASSUME NEW n \in Names, DropFunction(n) PROVE UNCHANGED <<rows, created, confirmed, answer>>
    <3>1. \A r \in rows : r.name # Upper[n]
      <4> SUFFICES ASSUME NEW r \in rows PROVE r.name # Upper[n]
        OBVIOUS
      <4>1. r.name \in Names /\ Lower[r.name] = r.name
        BY DEF Kept, TypeOK, Row
      <4>2. QED
        BY <4>1 DEF Lowercase
    <3>2. QED
      BY <2>1, <3>1 DEF DropFunction
  <2>2. CASE Begin \/ Commit \/ Rollback \/ Restart \/ UNCHANGED vars
    BY <2>2 DEF Begin, Commit, Rollback, Restart, vars, Kept, History
  <2>3. QED
    BY <2>1, <2>2
<1>2. AnswerSound'
  BY <1>1 DEF AnswerSound, CallsAnswer
<1>3. CASE Restart
  <2>1. cache' = {} /\ registered' = {} /\ conn' = Free /\ \A c \in Clients : pc'[c] = "ready"
    BY <1>3 DEF Restart
  <2>2. RowsSound'
    BY <1>1, <2>1 DEF RowsSound, Sound
  <2>3. CallsSound'
    BY <2>1 DEF CallsSound, CallSound
  <2>4. QED
    BY <1>2, <2>2, <2>3
<1>4. CASE UNCHANGED <<conn, cache, registered, pc, frame>>
  <2>1. RowsSound'
    BY <1>1, <1>4 DEF RowsSound, Sound
  <2>2. CallsSound'
    BY <1>1, <1>4 DEF CallsSound, CallSound
  <2>3. QED
    BY <1>2, <2>1, <2>2
<1>5. QED
  BY <1>3, <1>4 DEF Begin, Commit, Rollback, DropFunction, Session, Known, Local, vars

\* For calls and declarations that fit, a call that runs a function gives what
\* the function was declared to give; a call with literals of a function that
\* was confirmed and not dropped since runs it, over ROLLBACK, the dropping of
\* other functions and restarts; and the NULL of the registered function is an
\* answer only while the function is new.
THEOREM CallsAnswerAsDeclared == ASSUME AsDeclared PROVE Spec => []CallsAnswer
<1>1. Lowercase
  BY DEF AsDeclared
<1>2. IInv /\ Declared /\ [Next]_vars => Declared'
  <2> SUFFICES ASSUME IInv, Declared, [Next]_vars PROVE Declared'
    OBVIOUS
  <2>1. ASSUME NEW c \in Clients, NEW n \in Names, NEW m \in Names,
               StoreFunction(c, n, Signature[m])
        PROVE  Declared'
    BY <2>1, StoreDeclared, FunctionsAssumption
  <2>2. ASSUME NEW c \in Clients, NEW call \in Calls, StartCall(c, call) PROVE Declared'
    BY <2>2, CallDeclared
  <2>3. ASSUME NEW c \in Clients, Step(c) PROVE Declared'
    BY <2>3, RegisterDeclared, CallDeclared DEF Step
  <2>4. QED
    BY <1>1, <2>1, <2>2, <2>3, OtherDeclared DEF Next
<1>3. Declared => CallsAnswer
  BY DEF Declared, AnswerSound
<1>4. QED
  BY <1>1, <1>2, <1>3, InitDeclared, InvariantHolds, PTL DEF Spec
=============================================================================
