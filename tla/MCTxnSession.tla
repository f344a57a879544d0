---------------------------- MODULE MCTxnSession ----------------------------
(* Values of the constants of TxnSession for the model checker.             *)
EXTENDS TxnSession

CONSTANTS c1, c2, a, b, r1, r2, postgres, alice, public, inventory

OneClient  == {c1}
TwoClients == {c1, c2}

Data == {"WRITE", "DROP FUNCTION", "SET ROLE", "SET SEARCH_PATH"}
BlockStatements == Control \cup {"WRITE", "DROP FUNCTION"}
AllStatements   == Control \cup RawControl \cup Data

\* Requests one at a time; SQLite never ends a transaction by itself.
SerialEnv == EnvNames \ {"overlap", "savepoint_when_idle", "auto_rollback", "commit_fails"}
=============================================================================
