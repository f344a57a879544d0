---------------------------- MODULE MCStatements ----------------------------
(***************************************************************************)
(* The modules about single statements and values, in one run: a behaviour *)
(* takes up one topic, and the variables of the other topics keep a small  *)
(* value.                                                                  *)
(***************************************************************************)
EXTENDS CopyCodec, Ranges, Arrays, Boxes, TextSearch, Expressions, Select, Writes, Catalog, Roles

CONSTANTS Blob, Real, Date  \* values that are no text, and a text that is no number

-----------------------------------------------------------------------------
(* COPY: tables of one row with one or two columns, and of two short rows,  *)
(* of the characters the formats treat alike or not: delimiters, quotes,    *)
(* escapes, line ends, and letters that make an escape or a NULL with a     *)
(* backslash.                                                               *)

Clause(n, v) == [name |-> n, value |-> v]
Csv          == Clause("FORMAT", "CSV")

TablesOf(chars) ==
  LET all   == {NULL} \cup BoundedSeq(chars, 2)
      short == {NULL} \cup BoundedSeq(chars, 1)
  IN  [columns : {1}, rows : BoundedSeq(TupleOf(all, 1), 1) \cup TupleOf(TupleOf(short, 1), 2)]
      \cup [columns : {2}, rows : TupleOf(TupleOf(all, 2), 1)]

\* A BLOB of which nothing is UTF-8, and a number in a column that keeps its text.
AllShown == (Blob :> <<"?">>) @@ (Real :> <<"1", ".", "5">>)

AllSources ==
  TablesOf({"'", ",", "\"", "\n", "\r"}) \cup TablesOf({"n", "N", "|", "\\", Tab, "\n", "\r"})
  \cup [columns : {2}, rows : TupleOf(TupleOf({Blob, Real, <<"n">>}, 2), 1)]

AllStatements ==
  {<<Csv>>, <<Csv, Clause("HEADER", TRUE)>>, <<Csv, Clause("QUOTE", "'")>>,
   <<>>, <<Clause("FORMAT", "TEXT")>>, <<Clause("ESCAPE", "\\")>>,
   <<Clause("DELIMITER", "|")>>, <<Clause("DELIMITER", "|"), Clause("ESCAPE", "\\")>>,
   <<Clause("FORMAT", "BINARY")>>, <<Csv, Clause("QUOTE", ",")>>}

-----------------------------------------------------------------------------
(* Ranges of integers up to the greatest, and with a bound that is a date.  *)

AllBoundTexts == (-1..3) \cup {Date}
AllPoints     == -3..5
LeastValue    == -1

-----------------------------------------------------------------------------
(* Arrays of one element with two characters, of two with one, and two rows *)
(* of one.                                                                  *)

ArrayChars   == {"a", ",", "\"", "\\", "{", " ", "1"}
LongElems    == BoundedSeq(ArrayChars, 2) \cup {NullText, None}
ShortElems   == BoundedSeq(ArrayChars, 1) \cup {NullText, None}
AllArrays    == {<<row>> : row \in TupleOf(LongElems, 1) \cup BoundedSeq(ShortElems, 2)}
                \cup {<<<<d>>, <<e>>>> : d \in ShortElems, e \in ShortElems}
AllCharacters == ArrayChars \cup ToSet(NullText)
AllArgs      == {None, NullText, <<"a">>, <<",">>}

AllCoordinates == 0..2
AllOfAnAxis    == -1..3

-----------------------------------------------------------------------------
(* Documents of up to three words, one that changes when it is stemmed and  *)
(* one that is left out; queries with up to three words.                    *)

AllWords     == {"cat", "cats", "the", "dog", "noting"}
SearchWords  == {"cats", "the", "dog"}
AllStems     == [w \in AllWords |-> CASE w = "cats" -> "cat" [] w = "noting" -> "not" [] OTHER -> w]
AllDocuments == BoundedSeq({"cat", "dog", "the", "&"}, 3)
OneWord      == {Word(w) : w \in SearchWords}
MaybeNot     == OneWord \cup {Not(q) : q \in OneWord}
TwoWords     == {Query(op, p, q) : op \in {"&", "|"}, p \in MaybeNot, q \in MaybeNot}
                \cup {Query("<->", p, q) : p \in OneWord, q \in OneWord}
AllQueries   == MaybeNot \cup TwoWords \cup {Not(q) : q \in TwoWords}
                \cup {Query(op, p, q) : op \in {"&", "|"}, p \in OneWord, q \in TwoWords}
                \cup {Word("noting"), Query("&", Word("noting"), Word("dog"))}
AllDepths    ==
  LET depth[q \in AllQueries] ==
        CASE q.op = "word" -> 0
          [] q.op = "!"    -> depth[q.of] + 1
          [] OTHER         -> depth[q.left] + depth[q.right] + 1
  IN  depth

-----------------------------------------------------------------------------
(* Expressions of up to three operators, and up to four of a few of them;   *)
(* operands of each type as they may be written, with columns that are named *)
(* like a range among them.                                                 *)

ColumnA == Leaf(Column("a"))
Grown(es, binary, unary) ==
  es \cup {Node(op, <<d, e>>) : op \in binary, d \in es, e \in es} \cup {Node(op, <<e>>) : op \in unary, e \in es}

ManyOps == {"=", "<", "+", "*", "||", "like", "and", "or", "not in", "in", "nullif", "is distinct from", "-"}
FewOps  == {"=", "+", "and", "is"}

ManyOnce == Grown({ColumnA}, ManyOps, {"not", "coalesce"})
            \cup {Node("is", <<ColumnA, Leaf(Column("null"))>>), Node("between", <<ColumnA, ColumnA, ColumnA>>)}
FewOnce  == Grown({ColumnA}, FewOps, {"not"})
FewTwice == Grown(FewOnce, FewOps, {"not"})
AllTrees ==
  Grown(ManyOnce, ManyOps, {"not", "coalesce"})
  \cup {Node("is", <<e, Leaf(Column("null"))>>) : e \in ManyOnce}
  \cup {Node(op, <<d, e>>) : op \in FewOps, d \in FewOnce, e \in FewTwice}
  \cup {Node(op, <<e, d>>) : op \in FewOps, d \in FewOnce, e \in FewTwice}

LiteralOf(first, commas, last) == Literal(first, commas, last, {})
AnyColumns == {Column("c"), NamedRange}
AllOperands ==
  [box    |-> AnyColumns \cup {Literal("(", 3, ")", {"(", ")"}), LiteralOf("(", 1, ")")},
   array  |-> AnyColumns \cup {LiteralOf("[", 1, "]"), LiteralOf("{", 0, "}")}
              \cup {Literal("{", 1, "}", inner) : inner \in {{}, {"<"}, {"(", ")"}, {"(", ")", "["}}},
   range  |-> AnyColumns \cup {Number, MadeRange(Number, Number), LiteralOf("[", 1, ")"), LiteralOf("[", 1, "]"),
                            LiteralOf("(", 1, "]"), LiteralOf("(", 1, ")")},
   vector |-> AnyColumns \cup {LiteralOf("[", 1, "]")},
   text   |-> AnyColumns]

-----------------------------------------------------------------------------
(* SELECT from tables of up to three rows, in one order: the answers do not *)
(* depend on it.                                                            *)

Chosen(col, as, of)   == [col |-> col, as |-> as, table |-> of]
By(col, desc, nulls)  == [col |-> col, desc |-> desc, nulls |-> nulls]
Up(col)   == By(col, FALSE, "unsaid")
Down(col) == By(col, TRUE, "unsaid")

RowPlace(row)    == 3 * row.k + row.v
AllSelectTables  ==
  {s \in BoundedSeq([k : 0..1, v : 0..2], 3) :
     \A i, j \in DOMAIN s : i < j => RowPlace(s[i]) <= RowPlace(s[j])}

K == Chosen("k", "", "")
V == Chosen("v", "", "")
SelectLists == {<<>>, <<K, V>>, <<V>>, <<Chosen("k", "w", "")>>, <<K, Chosen("v", "w", "")>>,
                <<K, V, Chosen("v", "w", "")>>, <<Chosen("k", "", "t")>>}
Orders   == {<<>>, <<Up("v")>>, <<Down("v")>>, <<By("v", FALSE, "first")>>, <<By("v", TRUE, "last")>>,
             <<Up("k"), Down("v")>>}
PerGroup == {<<>>, <<Up("k")>>, <<Down("k"), Up("v")>>, <<Up("k"), Down("v")>>,
             <<By("k", FALSE, "first"), By("v", FALSE, "first")>>}
Selecting(on, orders) == [cols : SelectLists, on : {on}, order : orders, limit : {-1, 1}, offset : {0, 1}]
AllSelectQueries == Selecting(<<>>, Orders) \cup Selecting(<<"k">>, PerGroup)

SetOf(ls, rs) == [op : {"union", "intersect", "except"}, all : BOOLEAN, left : ls, right : rs]
AllBags       == {[bag |-> b] : b \in [1..2 -> 0..2]}
FewBags       == {[bag |-> b] : b \in {<<0, 1>>, <<2, 1>>, <<1, 0>>}}
AllSetTrees   == AllBags \cup SetOf(AllBags, AllBags) \cup SetOf(SetOf(FewBags, FewBags), FewBags)
                 \cup SetOf(FewBags, SetOf(FewBags, FewBags))

JoinOf(ls, rs) == [join : {"inner", "left", "right", "full"}, left : ls, right : rs]
JoinTables     == [rows : SUBSET {1, 2}]
TwoJoined      == JoinOf(JoinTables, JoinTables)
AllJoinTrees   == JoinTables \cup TwoJoined \cup JoinOf(TwoJoined, JoinTables) \cup JoinOf(JoinTables, TwoJoined)

AllRecursive == [rows : 0..4, recursive : BOOLEAN, limit : {-1, 1, 4}]

Simple     == [is : {"column", "function", "coalesce", "operator", "exists"}, of : {<<>>}]
Over(ts)   == ts \cup [is : {"cast", "case", "subquery"}, of : ts]
AllTargets == Over(Over(Over(Simple)))

\* Nothing is in the least trees and targets.
AllHeights ==
  LET parts(t) == {t[part] : part \in DOMAIN t \cap {"left", "right", "of"}} \ {<<>>}
      height[t \in AllSetTrees \cup AllJoinTrees \cup AllTargets] ==
        IF parts(t) = {} THEN 0 ELSE 1 + Max({height[p] : p \in parts(t)})
  IN  height

-----------------------------------------------------------------------------
(* INSERT of up to three rows into two columns, UPDATE with two references. *)

Declared(serial, cs) == [serial |-> serial, clauses |-> cs]
SecondColumns ==
  {Declared(FALSE, c) :
     c \in {<<>>, <<"not null">>} \cup TupleOf(Defaults, 1) \cup {<<"not null", d>> : d \in Defaults}
           \cup {<<d, "not null">> : d \in {"plain", "time"}}
           \cup {<<"plain", "unique">>, <<"plain", "check">>, <<"plain", "not null", "unique">>}}
AllWriteTables ==
  [columns : {<<first, second>> : first \in {Declared(FALSE, <<"not null">>), Declared(TRUE, <<>>)},
                                  second \in SecondColumns},
   known : BOOLEAN]

RowsOfValues == {<<"const">>, <<"from">>, <<"default">>} \cup TupleOf({"const", "default"}, 2)
                \cup {<<"from", "default">>, <<"const", "from">>}
Inserting(valueRows, marks, conflict) ==
  [listed : {<<>>, <<1>>, <<1, 2>>, <<2, 1>>}, rows : valueRows, marks : marks, conflict : conflict]
AllInserts ==
  Inserting(BoundedSeq(RowsOfValues, 2) \ {<<>>}, {{}}, {FALSE})
  \cup Inserting({<<<<"const", "const">>>>}, {{}, {";"}}, BOOLEAN)
  \cup Inserting(TupleOf({<<"const", "const">>, <<"const", "default">>}, 3), {{}}, {FALSE})

Referring(alias) ==
  {ref \in [qual : {"alias", "table", "from", ""}, inner : {"no", "same", "other"}] :
     (ref.qual = "alias" => alias) /\ (ref.qual = "table" => ~alias)}
Updating(alias) ==
  [alias : {alias}, refs : BoundedSeq(Referring(alias), 2), marks : SUBSET {";", "alias."}, default : {0, 2}]
AllUpdates == Updating(TRUE) \cup Updating(FALSE)

-----------------------------------------------------------------------------
(* Tables of two definitions under two names, in main and elsewhere; grants *)
(* of one privilege to one role, and of more.                               *)

OfType(name, ctype) == [name |-> name, type |-> ctype]
AllDefinitions == {<<OfType("a", "SERIAL"), OfType("b", "BOOLEAN")>>, <<OfType("b", "TEXT")>>}
AllRefs        == [schema : {"", "public", "s"}, name : {"t"}] \cup [schema : {""}, name : {"u"}]

AllGrants ==
  [objects : {<<"t">>}, privileges : {<<"SELECT">>, <<"INSERT">>}, grantees : {<<"alice">>, <<"bob">>, <<"PUBLIC">>}]
  \cup {[objects |-> <<"t">>, privileges |-> <<>>, grantees |-> <<"bob">>],
        [objects |-> <<>>, privileges |-> <<"SELECT">>, grantees |-> <<"alice">>]}
  \cup [objects : {<<"t">>}, privileges : {<<"SELECT", "INSERT">>}, grantees : {<<"bob", "alice">>}]

-----------------------------------------------------------------------------
VARIABLE topic

NoCopy   == /\ clauses = <<>> /\ source = [columns |-> 1, rows |-> <<>>] /\ wire = <<>>
            /\ target = [rows |-> <<>>, ok |-> TRUE] /\ next = "COPY TO"
NoRange  == given = EmptyText /\ held = EmptyText
NoArray  == form = "literal" /\ column = <<Open, Close>> /\ rows = <<<<>>>> /\ intact = FALSE
NoBox    == shape1 = PointText(0, 0) /\ shape2 = PointText(0, 0)
NoSearch == document = <<>> /\ sought = Word("the")
NoOperator   == operandType = "text" /\ operator = "@@" /\ operands = <<Column("c"), Column("c")>>
NoExpression == tree = ColumnA
NoSelect == kind = "name" /\ query = [is |-> "column", of |-> <<>>] /\ table = <<>>
NoWrite  == /\ verb = "update" /\ statement = [alias |-> FALSE, refs |-> <<>>, marks |-> {}, default |-> 0]
            /\ relation = [columns |-> <<Declared(TRUE, <<>>)>>, known |-> TRUE]

StatementInit ==
  /\ topic \in {"copy", "range", "array", "box", "search", "operator", "expression", "select", "write", "catalog", "role"}
  /\ IF topic = "copy"       THEN Init           ELSE NoCopy
  /\ IF topic = "range"      THEN RangeInit      ELSE NoRange
  /\ IF topic = "array"      THEN ArrayInit      ELSE NoArray
  /\ IF topic = "box"        THEN BoxInit        ELSE NoBox
  /\ IF topic = "search"     THEN SearchInit     ELSE NoSearch
  /\ IF topic = "operator"   THEN OperatorInit   ELSE NoOperator
  /\ IF topic = "expression" THEN ExpressionInit ELSE NoExpression
  /\ IF topic = "select"     THEN SelectInit     ELSE NoSelect
  /\ IF topic = "write"      THEN WriteInit      ELSE NoWrite
  /\ CatalogInit
  /\ RoleInit

StatementNext ==
  /\ UNCHANGED <<topic, boxVars, searchVars, operatorVars, expressionVars, selectVars, writeVars>>
  /\ \/ topic = "copy"    /\ Next        /\ UNCHANGED <<rangeVars, arrayVars, catalogVars, roleVars>>
     \/ topic = "range"   /\ RangeNext   /\ UNCHANGED <<vars, arrayVars, catalogVars, roleVars>>
     \/ topic = "array"   /\ ChangeArray /\ UNCHANGED <<vars, rangeVars, catalogVars, roleVars>>
     \/ topic = "catalog" /\ CatalogNext /\ UNCHANGED <<vars, rangeVars, arrayVars, roleVars>>
     \/ topic = "role"    /\ RoleNext    /\ UNCHANGED <<vars, rangeVars, arrayVars, catalogVars>>

StatementSpec == StatementInit /\ [][StatementNext]_<<topic, vars, rangeVars, arrayVars, boxVars, searchVars,
  operatorVars, expressionVars, selectVars, writeVars, catalogVars, roleVars>>
=============================================================================
