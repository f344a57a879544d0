------------------------------- MODULE Select -------------------------------
(***************************************************************************)
(* SELECT.  A statement is written again for SQLite, which has no DISTINCT *)
(* ON, sorts NULL the other way, and reads set operations from left to     *)
(* right.  The tables are columns k and v; a statement that leaves a       *)
(* choice among ties has several answers.                                  *)
(***************************************************************************)
EXTENDS Integers, FiniteSets, Sequences, SequencesExt

CONSTANTS
  SelectTables,   \* sequences of rows [k, v]; 0 is NULL
  SelectQueries,  \* [cols, on, order, limit, offset], see MCStatements
  SetTrees,       \* set operations over bags of numbers
  JoinTrees,      \* joins of tables with one column
  RecursiveQueries, \* [rows, recursive, limit]: CTEs under WITH [RECURSIVE]
  Targets,        \* [is, of]: columns that are selected without a name
  Height,         \* Height[t]: how deep a tree or a target is nested
  MaxRecursionDepth

\* LIMIT ALL, LIMIT NULL and no LIMIT; -1 is what is written where SQLite needs one.
NoLimit == -1

\* What a statement that SQLite refuses answers.
FailedRow == <<-1>>
Failed    == <<FailedRow>>

Columns == {"k", "v"}

IsSelect(q) ==
  /\ q.cols \in Seq([col : Columns, as : STRING, table : STRING])
  /\ q.on \in Seq(Columns)
  /\ q.order \in Seq([col : Columns, desc : BOOLEAN, nulls : {"unsaid", "first", "last"}])
  /\ q.limit \in Nat \cup {NoLimit} /\ q.offset \in Nat

IsBag(t)   == DOMAIN t = {"bag"}
IsTable(t) == DOMAIN t = {"rows"}

Within(t, parts, trees) == \A p \in parts : p \in trees /\ Height[p] \in Nat /\ Height[p] < Height[t]

IsSetTree(t) ==
  IF IsBag(t) THEN t.bag \in [{1, 2} -> Nat]
  ELSE t.op \in {"union", "intersect", "except"} /\ t.all \in BOOLEAN /\ Within(t, {t.left, t.right}, SetTrees)

IsJoinTree(t) ==
  IF IsTable(t) THEN t.rows \subseteq Nat
  ELSE t.join \in {"inner", "left", "right", "full"} /\ Within(t, {t.left, t.right}, JoinTrees)

IsTarget(t) ==
  /\ t.is \in {"column", "function", "coalesce", "operator", "exists", "cast", "case", "subquery"}
  /\ t.is \in {"cast", "case", "subquery"} => Within(t, {t.of}, Targets)

ASSUME SelectAssumption ==
  /\ \A s \in SelectTables : s \in Seq([Columns -> Nat])
  /\ \A q \in SelectQueries : IsSelect(q)
  /\ \A t \in SetTrees \cup JoinTrees \cup Targets : Height[t] \in Nat
  /\ \A t \in SetTrees : IsSetTree(t)
  /\ \A t \in JoinTrees : IsJoinTree(t)
  /\ \A t \in Targets : IsTarget(t)
  /\ \A q \in RecursiveQueries : q.rows \in Nat /\ q.recursive \in BOOLEAN /\ q.limit \in Nat \cup {NoLimit}
  /\ MaxRecursionDepth \in Nat

-----------------------------------------------------------------------------
(* ORDER BY, LIMIT and OFFSET *)

\* Where an item of ORDER BY puts NULL, in PostgreSQL and in SQLite.  What the
\* statement says of it (NULLS FIRST, NULLS LAST) is not written for SQLite.
NullsFirst(item) == item.nulls = "first" \/ (item.nulls = "unsaid" /\ item.desc)
NullsFirstInSqlite(item) == ~item.desc

PutsNullFirst(item, db) == IF db = "sqlite" THEN NullsFirstInSqlite(item) ELSE NullsFirst(item)

Precedes(item, db, x, y) ==
  IF 0 \in {x, y} THEN x # y /\ (PutsNullFirst(item, db) <=> x = 0)
  ELSE IF item.desc THEN x > y ELSE x < y

\* Row a may not come after row b: an item tells, and those before it do not.
Before(order, db, a, b) ==
  \E i \in DOMAIN order :
    /\ Precedes(order[i], db, a[order[i].col], b[order[i].col])
    /\ \A j \in 1..(i - 1) : a[order[j].col] = b[order[j].col]

Sorted(rows, order, db) ==
  {[i \in DOMAIN rows |-> rows[p[i]]] : p \in
     {p \in Bijection(DOMAIN rows, DOMAIN rows) :
        \A i, j \in DOMAIN rows : i < j => ~Before(order, db, rows[p[j]], rows[p[i]])}}

Slice(rows, limit, offset) ==
  LET from == offset + 1
      to   == IF limit = NoLimit THEN Len(rows) ELSE offset + limit
  IN  SubSeq(rows, from, IF to > Len(rows) THEN Len(rows) ELSE to)

-----------------------------------------------------------------------------
(* DISTINCT ON *)

\* The first row of every group.
Firsts(rows, on) ==
  LET Same(a, b) == \A c \in ToSet(on) : a[c] = b[c]
      First(i)   == \A j \in 1..(i - 1) : ~Same(rows[j], rows[i])
  IN  FlattenSeq([i \in DOMAIN rows |-> IF First(i) THEN <<rows[i]>> ELSE <<>>])

Names(cols) == {IF c.as = "" THEN c.col ELSE c.as : c \in ToSet(cols)}

Project(rows, cols) ==
  [i \in DOMAIN rows |-> [j \in DOMAIN cols |-> rows[i][cols[j].col]]]

\* PostgreSQL; <<>> selects *.
AllColumns == <<[col |-> "k", as |-> "", table |-> ""], [col |-> "v", as |-> "", table |-> ""]>>

Selected(q) == IF q.cols = <<>> THEN AllColumns ELSE q.cols

PgAnswers(rows, q) ==
  {Slice(Project(IF q.on = <<>> THEN s ELSE Firsts(s, q.on), Selected(q)), q.limit, q.offset) :
     s \in Sorted(rows, q.order, "postgres")}

\* reconstruct_select_stmt: the statement as it is.
WriteSelect(q) ==
  [rank |-> FALSE, cols |-> q.cols, order |-> q.order, limit |-> q.limit, offset |-> q.offset]

\* Faulty variant: the outer statement does not sort the rows that are left.
WriteDistinctOnUnsorted(q) ==
  [rank |-> TRUE, on |-> q.on, within |-> IF q.order = <<>> THEN "on" ELSE "order",
   cols |-> q.cols, order |-> <<>>, limit |-> q.limit, offset |-> q.offset]

\* reconstruct_distinct_on_select: rows are numbered within their group, in an
\* inner select of the same columns, and those with number 1 are selected.
WriteDistinctOn(q) ==
  [rank |-> TRUE, on |-> q.on, within |-> IF q.order = <<>> THEN "on" ELSE "order",
   cols |-> q.cols, order |-> q.order, limit |-> q.limit, offset |-> q.offset]

WriteQuery(q) == IF q.on = <<>> THEN WriteSelect(q) ELSE WriteDistinctOn(q)

\* SQLite.  Outside the inner select only the names of its columns are known;
\* * has the column of row numbers too.
NumberOne(row) == Append(row, 1)

SqliteAnswers(rows, s, order) ==
  IF ~s.rank
  THEN {Slice(Project(t, Selected(s)), s.limit, s.offset) :
          t \in Sorted(rows, s.order, "sqlite")}
  ELSE IF \/ \E c \in ToSet(s.cols) : c.table # "" \/ c.col \notin Names(Selected(s))
          \/ \E item \in ToSet(s.order) : item.col \notin Names(Selected(s))
  THEN {Failed}
  ELSE LET within == IF s.within = "on" THEN <<>> ELSE order
           Kept   == {Firsts(t, s.on) : t \in Sorted(rows, within, "sqlite")}
           Out(t) == LET out == Project(t, Selected(s))
                     IN  IF s.cols = <<>> THEN [i \in DOMAIN out |-> NumberOne(out[i])] ELSE out
       IN  UNION {{Slice(Out(t), s.limit, s.offset) : t \in Sorted(kept, s.order, "sqlite")}
                  : kept \in Kept}

-----------------------------------------------------------------------------
(* Set operations.  A bag of the numbers 1 and 2 is a function; a tree is   *)
(* [bag] or [op, all, left, right].                                         *)

AtMost(m, n) == IF m < n THEN m ELSE n
Monus(m, n)  == IF m < n THEN 0 ELSE m - n
OneOfEach(b) == [x \in {1, 2} |-> AtMost(b[x], 1)]

Combine(op, all, l, r) ==
  LET bag == [x \in {1, 2} |->
                CASE op = "union"               -> l[x] + r[x]
                  [] op = "intersect"           -> AtMost(l[x], r[x])
                  [] op = "except" /\ all       -> Monus(l[x], r[x])
                  [] op = "except" /\ ~all      -> IF r[x] > 0 THEN 0 ELSE l[x]]
  IN  IF all THEN bag ELSE OneOfEach(bag)

PgSet[t \in SetTrees] ==
  IF IsBag(t) THEN t.bag ELSE Combine(t.op, t.all, PgSet[t.left], PgSet[t.right])

\* A text of set operations has an operator between each two operands: bags, and
\* SELECT * FROM (...) with what is written for a tree in it.
SetOperator(t) == [op |-> IF t.op = "union" /\ t.all THEN "union all" ELSE t.op]

\* Faulty variant: an operand that is a set operation is written in place.
InPlace[t \in SetTrees] ==
  IF IsBag(t) THEN <<t>> ELSE InPlace[t.left] \o <<SetOperator(t)>> \o InPlace[t.right]
WriteSetOperandInPlace(t) == InPlace[t]

\* The operand goes into SELECT * FROM (...) if it is a set operation itself.
WriteSetOperand(t) == IF IsBag(t) THEN <<t>> ELSE <<[select |-> t]>>

WriteSet(t) ==
  IF IsBag(t) THEN <<t>>
  ELSE WriteSetOperand(t.left) \o <<SetOperator(t)>> \o WriteSetOperand(t.right)

\* SQLite knows UNION ALL only, and takes the operators from left to right.
SqliteSet[t \in SetTrees] ==
  LET text        == WriteSet(t)
      Value(item) == IF IsBag(item) THEN item.bag ELSE SqliteSet[item.select]
      after[i \in 0..(Len(text) \div 2)] ==
        IF i = 0 THEN Value(text[1])
        ELSE LET op == text[2 * i].op
             IN  Combine(IF op = "union all" THEN "union" ELSE op, op = "union all",
                         after[i - 1], Value(text[2 * i + 1]))
  IN  after[Len(text) \div 2]

-----------------------------------------------------------------------------
(* Joins.  A tree is a table, [rows] with a set of numbers, or              *)
(* [join, left, right], joined on equal values.  A row is a sequence of the *)
(* values of its tables; 0 is NULL.                                         *)

Width[t \in JoinTrees] == IF IsTable(t) THEN 1 ELSE Width[t.left] + Width[t.right]

Nulls(n) == [i \in 1..n |-> 0]

\* The condition compares the last table of the left side with the first of the right.
JoinRows(join, l, r, lw, rw) ==
  LET Match(a, b) == a[lw] = b[1] /\ a[lw] # 0
      both  == {p[1] \o p[2] : p \in {p \in l \X r : Match(p[1], p[2])}}
      left  == {a \o Nulls(rw) : a \in {a \in l : \A b \in r : ~Match(a, b)}}
      right == {Nulls(lw) \o b : b \in {b \in r : \A a \in l : ~Match(a, b)}}
  IN  both \cup (IF join \in {"left", "full"} THEN left ELSE {})
           \cup (IF join \in {"right", "full"} THEN right ELSE {})

PgJoin[t \in JoinTrees] ==
  IF IsTable(t) THEN {<<x>> : x \in t.rows}
  ELSE JoinRows(t.join, PgJoin[t.left], PgJoin[t.right], Width[t.left], Width[t.right])

\* Faulty variant: every join is an inner join.
JoinTypeInner(join) == "inner"

\* RIGHT and FULL are written as LEFT.
JoinType(join) == IF join = "inner" THEN "inner" ELSE "left"

\* Joins are written without brackets; with a join on the right the two ON
\* clauses follow each other, which SQLite does not read.
SqliteJoin[t \in JoinTrees] ==
  IF IsTable(t) THEN {<<x>> : x \in t.rows}
  ELSE IF ~IsTable(t.right) \/ SqliteJoin[t.left] = {FailedRow} THEN {FailedRow}
  ELSE JoinRows(JoinType(t.join), SqliteJoin[t.left], SqliteJoin[t.right], Width[t.left], 1)

-----------------------------------------------------------------------------
(* WITH.  A CTE that would return q.rows rows. *)

\* Every CTE under WITH RECURSIVE is cut, the ones that do not recur too,
\* unless LIMIT is written somewhere in it.
CteRows(q) ==
  IF q.recursive /\ q.limit = NoLimit THEN AtMost(q.rows, MaxRecursionDepth)
  ELSE IF q.limit = NoLimit THEN q.rows ELSE AtMost(q.rows, q.limit)

-----------------------------------------------------------------------------
(* The name of a column that is selected without one.  A target is [is, of]: *)
(* what it is and what is in it: the argument of a cast, the ELSE of a CASE, *)
(* the column of a subquery.                                                 *)

Strong == {"column", "function", "coalesce", "exists", "subquery"}

\* PostgreSQL: a cast and a CASE have the name of what is in them, if it has one.
CarriesName[t \in Targets] == t.is \in Strong \/ (t.is \in {"cast", "case"} /\ CarriesName[t.of])

PgName[t \in Targets] ==
  IF t.is = "operator" THEN "?column?"
  ELSE IF t.is = "subquery" \/ (t.is \in {"cast", "case"} /\ CarriesName[t.of]) THEN PgName[t.of]
  ELSE t.is

\* The text has a name in it already: that of a subquery's column.
HasName[t \in Targets] ==
  IF t.is \in {"cast", "case"} THEN HasName[t.of]
  ELSE t.is = "exists" \/ (t.is = "subquery" /\ t.of.is # "column")

\* Without a name, SQLite calls a column by its text.
SelectedName(t) ==
  IF HasName[t] THEN "text"
  ELSE IF t.is \in {"column", "cast", "function", "case", "coalesce"} THEN t.is
  ELSE "?column?"

-----------------------------------------------------------------------------
VARIABLES
  kind,  \* which sort of statement it is
  query, \* the statement
  table  \* the table it selects from, if it is a SELECT of columns

selectVars == <<kind, query, table>>

SelectInit ==
  \/ kind = "select"    /\ query \in SelectQueries    /\ table \in SelectTables
  \/ kind = "set"       /\ query \in SetTrees         /\ table = <<>>
  \/ kind = "join"      /\ query \in JoinTrees        /\ table = <<>>
  \/ kind = "name"      /\ query \in Targets          /\ table = <<>>
  \/ kind = "recursive" /\ query \in RecursiveQueries /\ table = <<>>

SelectSpec == SelectInit /\ [][UNCHANGED selectVars]_selectVars

-----------------------------------------------------------------------------
(* Properties *)

\* Every column that is selected or sorted by is one of the columns selected.
KnowsItsColumns ==
  /\ \A c \in ToSet(query.cols) : c.table = "" /\ c.col \in Names(Selected(query))
  /\ \A item \in ToSet(query.order) : item.col \in Names(Selected(query))

\* No NULL is sorted, unless the statement puts NULLs where SQLite does.
SortsAlike ==
  \A item \in ToSet(query.order) :
    NullsFirst(item) = NullsFirstInSqlite(item) \/ \A i \in DOMAIN table : table[i][item.col] # 0

SetNodes[t \in SetTrees]   == IF IsBag(t) THEN {} ELSE {t} \cup SetNodes[t.left] \cup SetNodes[t.right]
JoinNodes[t \in JoinTrees] == IF IsTable(t) THEN {} ELSE {t} \cup JoinNodes[t.left] \cup JoinNodes[t.right]

\* What SQLite answers is what PostgreSQL may answer, of the statements that
\* reconstruct_select_stmt carries over whole.  DISTINCT ON: the columns that
\* are selected and sorted by are named, without a table, and selected under
\* their own names.  ORDER BY: no NULL is sorted that SQLite puts at the other
\* end.  Set operations, in any nesting: ALL is said of UNION only.  Joins:
\* inner and left ones, with a table on the right.  Names: columns, functions
\* and operators, and a cast or CASE that is named for itself.  CTEs: one under
\* WITH RECURSIVE has a LIMIT or no more rows than it is cut at.
SelectsAnswer ==
  CASE kind = "select" ->
         SortsAlike /\ (query.on # <<>> => query.cols # <<>> /\ KnowsItsColumns) =>
           SqliteAnswers(table, WriteQuery(query), query.order) \subseteq PgAnswers(table, query)
    [] kind = "set" ->
         (\A t \in SetNodes[query] : t.all => t.op = "union") => SqliteSet[query] = PgSet[query]
    [] kind = "join" ->
         (\A t \in JoinNodes[query] : t.join \in {"inner", "left"} /\ IsTable(t.right)) =>
           SqliteJoin[query] = PgJoin[query]
    [] kind = "name" ->
         \/ query.is \in {"column", "function", "coalesce", "operator"}
         \/ query.is \in {"cast", "case"} /\ PgName[query] = query.is /\ ~HasName[query]
         => SelectedName(query) = PgName[query]
    [] kind = "recursive" ->
         (query.recursive /\ query.limit = NoLimit => query.rows <= MaxRecursionDepth) =>
           CteRows(query) = AtMost(query.rows, IF query.limit = NoLimit THEN query.rows ELSE query.limit)
=============================================================================
