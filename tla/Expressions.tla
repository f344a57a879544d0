----------------------------- MODULE Expressions -----------------------------
(***************************************************************************)
(* Expressions.  A parsed expression is written as text for SQLite, which  *)
(* parses it again.                                                        *)
(***************************************************************************)
EXTENDS Overloading

CONSTANT Trees  \* the expressions that are written

\* [op |-> name, args |-> expressions], or a leaf.
Node(op, args) == [op |-> op, args |-> args]
Leaf(l)        == [op |-> "leaf", args |-> <<>>, leaf |-> l]

-----------------------------------------------------------------------------
(* Writing *)

\* Operators that are written as they are; a bracket is never put around them.
\* IS NULL and IS TRUE are IS with a leaf.
AsIs == {"=", "<", "+", "*", "||", "like", "is"}

\* Kinds of operator expressions that are known by the = that implements them.
AsEqual == {"nullif", "is distinct from", "is not distinct from"}

\* Faulty variant: AND and OR are written as the other operators are.
WriteBoolBare(l, op, r) == Infix(l, op, r)

WriteBool(l, op, r) == <<Group(Infix(l, op, r))>>

RECURSIVE Write(_)
Write(e) ==
  LET W(i) == Write(e.args[i])
  IN  CASE e.op = "leaf"             -> WriteLeaf(e.leaf)
        [] e.op \in {"and", "or"}    -> WriteBool(W(1), e.op, W(2))
        [] e.op = "not"              -> <<Item("not"), Group(W(1))>>
        [] e.op = "in"               -> Infix(W(1), "in", <<Group(W(2))>>)
        [] e.op = "not in"           -> Infix(W(1), "in", <<Group(W(2))>>)
        [] e.op \in {"coalesce", "cast"} -> <<Call(e.op, [i \in DOMAIN e.args |-> W(i)])>>
        [] e.op = "-"                -> <<Call("json_remove", <<W(1), W(2)>>)>>
        [] e.op = "between"          -> W(1) \o <<Item("between")>> \o W(2) \o <<Item(",")>> \o W(3)
        [] e.op \in Overloaded       -> WriteOverloaded(e.op, W(1), W(2))
        [] e.op \in AsIs             -> Infix(W(1), e.op, W(2))
        [] e.op \in AsEqual          -> Infix(W(1), "=", W(2))

-----------------------------------------------------------------------------
(* SQLite's parser *)

Binding(op) ==
  CASE op = ","    -> 0
    [] op = "or"   -> 1
    [] op = "and"  -> 2
    [] op = "not"  -> 3
    [] op \in {"=", "in", "like", "between", "is"} -> 4
    [] op = "<"    -> 5
    [] op \in {"<<", ">>"} -> 6
    [] op = "+"    -> 7
    [] op = "*"    -> 8
    [] op = "||"   -> 9
    [] OTHER       -> 10

Done(e) == [item |-> "done", e |-> e]

\* Operators associate to the left; NOT reaches as far as those that bind tighter.
RECURSIVE Reparse(_)
Reparse(text) ==
  LET ops   == {i \in DOMAIN text : text[i].item = "op"}
      nots  == {i \in ops : text[i].op = "not"}
      least == Min({Binding(text[i].op) : i \in ops})
      at    == Max({i \in ops : Binding(text[i].op) = least})
      Before(i) == SubSeq(text, 1, i - 1)
      After(i)  == SubSeq(text, i + 1, Len(text))
      only  == text[1]
  IN  CASE ops = {} ->
             (CASE only.item = "operand" -> Leaf(only.leaf)
                [] only.item = "group"   -> Reparse(only.text)
                [] only.item = "call"    -> Node(only.f, [i \in DOMAIN only.texts |-> Reparse(only.texts[i])])
                [] only.item = "done"    -> only.e)
        [] nots # {} /\ least >= 3 ->
             Reparse(Append(Before(Min(nots)), Done(Node("not", <<Reparse(After(Min(nots)))>>))))
        [] OTHER -> Node(text[at].op, <<Reparse(Before(at)), Reparse(After(at))>>)

-----------------------------------------------------------------------------
VARIABLE tree  \* an expression in a statement

expressionVars == <<tree>>

ExpressionInit == tree \in Trees

ExpressionSpec == ExpressionInit /\ [][UNCHANGED expressionVars]_expressionVars

-----------------------------------------------------------------------------
(* Properties *)

RECURSIVE NodesOf(_)
NodesOf(e) == {e} \cup UNION {NodesOf(a) : a \in ToSet(e.args)}

\* The operators of a subexpression that are not in brackets: AND and OR
\* are, and so is what NOT and a function are applied to.
Enclosed(e) == e.op \in {"leaf", "and", "or", "coalesce", "cast", "-"} \cup Overloaded

\* NOT at the end takes what follows.
RECURSIVE EndsInNot(_)
EndsInNot(e) == ~Enclosed(e) /\ (e.op = "not" \/ (e.args # <<>> /\ EndsInNot(Last(e.args))))

Brackets == {"and", "or", "not", "coalesce", "cast"}

Keeps(e) ==
  LET Fits(i) ==
        LET a == e.args[i]
        IN  \/ Enclosed(a) \/ e.op \in Brackets \/ (e.op = "in" /\ i = 2)
            \/ i = 1 /\ ~EndsInNot(a) /\ Binding(a.op) >= Binding(e.op)
            \/ i = 2 /\ (a.op = "not" \/ Binding(a.op) > Binding(e.op))
  IN  \A i \in DOMAIN e.args : Fits(i)

Lossy == {"not in", "nullif", "is distinct from", "is not distinct from", "between", "-"}

\* SQLite reads the expression that was parsed, whatever is in brackets in what
\* is written and however deep, if no operand would need the brackets that are
\* not written, by SQLite's precedences, and none of the kinds that lose their
\* operator is in it.
ExpressionsReadBack ==
  (\A e \in NodesOf(tree) : e.op \notin Lossy /\ Keeps(e)) => Reparse(Write(tree)) = tree
=============================================================================
