------------------------------- MODULE MCLocks -------------------------------
(* Threads and mixes of requests for Locks.                                 *)
EXTENDS Locks

CONSTANTS t1, t2

TwoThreads == {t1, t2}

\* Everything but transaction control, the end of a COPY FROM, and INSERTs that
\* ask for a default among the arguments of a call.
DataRequests == DOMAIN Program \ {"control", "copy_done", "insert_call"}

\* Such INSERTs, while nobody creates a function.
DefaultRequests == (DataRequests \ {"create_function"}) \cup {"insert_call"}

\* Transaction control and what may run beside it; COPY FROM is not started anew.
ControlRequests ==
  {"control", "set_role", "set_path", "show", "call", "create_schema",
   "drop_schema", "create_function", "drop_function", "first", "copy_to", "copy_data", "copy_done"}

\* The orders, innermost lock first: check_permissions reads the session before
\* it locks the connection, transaction control writes it after; CREATE FUNCTION
\* writes the functions under the connection, such an INSERT reads them before.
DataOrder ==
  << <<"functions">>, <<"attached">>, <<"session", "shared">>, <<"conn">>, <<"rows">>,
     <<"buffer">>, <<"state">>, <<"session", "exclusive">> >>
DefaultOrder ==
  << <<"functions", "shared">>, <<"attached">>, <<"session", "shared">>, <<"conn">>, <<"rows">>,
     <<"buffer">>, <<"state">>, <<"session", "exclusive">>, <<"functions", "exclusive">> >>
ControlOrder ==
  << <<"functions">>, <<"attached">>, <<"session", "exclusive">>, <<"session", "shared">>,
     <<"conn">>, <<"buffer">>, <<"rows">>, <<"state">> >>

Rank(order) ==
  [s \in Acquisitions |->
     CHOOSE n \in 1..Len(order) : order[n] \in {<<s.lock>>, <<s.lock, s.mode>>}]

ASSUME DataRequestsOrdered    == Ordered(DataRequests, Rank(DataOrder))
ASSUME DefaultRequestsOrdered == Ordered(DefaultRequests, Rank(DefaultOrder))
ASSUME ControlRequestsOrdered == Ordered(ControlRequests, Rank(ControlOrder))
=============================================================================
