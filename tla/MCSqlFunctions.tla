---------------------------- MODULE MCSqlFunctions ---------------------------
(* Names in two cases and their signatures for SqlFunctions.                *)
EXTENDS SqlFunctions, TLC

CONSTANTS c1, c2

TwoClients == {c1, c2}

ClientSymmetry == Permutations(TwoClients)

FourNames == {"square", "SQUARE", "log", "LOG"}

LowerCase ==
  [n \in Names |-> CASE n = "SQUARE" -> "square" [] n = "LOG" -> "log" [] OTHER -> n]
UpperCase ==
  [n \in Names |-> CASE n = "square" -> "SQUARE" [] n = "log" -> "LOG" [] OTHER -> n]

\* square is a number's; log writes into a table.
Declared ==
  [n \in Names |->
     IF LowerCase[n] = "log" THEN [args |-> 0, strict |-> FALSE, kind |-> "modify"]
     ELSE [args |-> 1, strict |-> FALSE, kind |-> "scalar"]]
=============================================================================
