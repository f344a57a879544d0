------------------------------- MODULE MCCopy -------------------------------
(* Clients, tables and lines for Copy.                                      *)
EXTENDS Copy, TLC

CONSTANTS c1, c2, users, items, good, other, bad

TwoClients == {c1, c2}
TwoTables  == {users, items}
AllLines   == {good, other, bad}
BadLines   == {bad}
=============================================================================
