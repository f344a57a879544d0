------------------------------- MODULE Writes -------------------------------
(***************************************************************************)
(* INSERT, UPDATE and DELETE.  DEFAULT is replaced by what the catalog of  *)
(* columns says of it, the rows of VALUES become a UNION ALL of selects,   *)
(* and the name of the table, for which SQLite takes no alias there, is    *)
(* cut from the text.  A value is known by where it comes from.            *)
(***************************************************************************)
EXTENDS Integers, FiniteSets, Sequences, SequencesExt

CONSTANTS
  WriteTables,  \* [columns |-> Seq(column), known |-> in the catalog?]
  Inserts,      \* [listed, rows, marks, conflict]
  Updates,      \* [alias, refs, marks, default]
  MaxCompound   \* how many selects SQLite takes in one statement

\* A column is [serial, clauses]: the clauses of its definition in order, which
\* are "not null", "unique", "check" and the kinds of DEFAULT.
\* "plain" is a number or text; "time" is CURRENT_TIMESTAMP; "comma" is a text
\* with a comma in it; "call" has brackets in it.
Defaults == {"plain", "time", "comma", "call"}

WriteColumn == [serial : BOOLEAN, clauses : Seq(Defaults \cup {"not null", "unique", "check"})]
Items       == {"const", "default", "from"}
References  == [qual : {"alias", "table", "from", ""}, inner : {"no", "same", "other"}]

\* A column has one DEFAULT at most; INSERT lists columns of the table, each
\* once; a name is qualified with an alias where the table has one.
ASSUME WritesAssumption ==
  /\ MaxCompound \in Nat
  /\ \A t \in WriteTables :
       /\ t.columns \in Seq(WriteColumn) /\ t.known \in BOOLEAN
       /\ \A k \in DOMAIN t.columns : \A i, j \in DOMAIN t.columns[k].clauses :
            t.columns[k].clauses[i] \in Defaults /\ t.columns[k].clauses[j] \in Defaults => i = j
  /\ \A s \in Inserts :
       /\ s.rows \in Seq(Seq(Items)) /\ s.listed \in Seq(Nat)
       /\ \A i, j \in DOMAIN s.listed : s.listed[i] = s.listed[j] => i = j
       /\ \A t \in WriteTables : ToSet(s.listed) \subseteq DOMAIN t.columns
  /\ \A s \in Updates :
       /\ s.refs \in Seq(References) /\ s.alias \in BOOLEAN
       /\ \A i \in DOMAIN s.refs : s.refs[i].qual = "alias" => s.alias

HasDefault(c) == ToSet(c.clauses) \cap Defaults # {}
NotNull(c)    == "not null" \in ToSet(c.clauses)

-----------------------------------------------------------------------------
(* The catalog's defaults.  What is written for a value: *)
(*   "given", "default", "null" and "true" are values, "broken" is no SQL. *)

\* The text after DEFAULT, up to a comma or a bracket: clauses that follow it
\* are taken for a part of it.  5 NOT NULL is a test in SQLite; brackets leave
\* nothing.
ExtractDefault(c) ==
  IF ~HasDefault(c) THEN "none"
  ELSE LET at   == CHOOSE i \in DOMAIN c.clauses : c.clauses[i] \in Defaults
           d    == c.clauses[at]
           rest == SubSeq(c.clauses, at + 1, Len(c.clauses))
       IN  CASE d = "call"           -> "none"
             [] d = "comma"          -> "broken"
             [] rest = <<>>          -> d
             [] rest = <<"not null">> -> "true"
             [] OTHER                -> "broken"

\* Faulty variant: the catalog is not asked.
PadValueNull(c) == "null"

\* For a column that VALUES has no item for.
PadValue(c) ==
  LET d == ExtractDefault(c)
  IN  CASE d = "none" -> "null" [] d \in {"plain", "time"} -> "default" [] OTHER -> d

\* For DEFAULT; the quotes of datetime('now') are lost.
SetToDefault(c) ==
  LET d == ExtractDefault(c)
  IN  CASE d = "none" -> "null" [] d = "plain" -> "default" [] d = "time" -> "broken" [] OTHER -> d

-----------------------------------------------------------------------------
(* INSERT ... VALUES.  Items are "const", "default" and "from", a subquery   *)
(* that selects from a subquery.                                             *)

AllOf(t) == [i \in DOMAIN t.columns |-> i]

\* The columns named for the values; none for a table the catalog does not know.
InsertTargets(t, s) ==
  IF s.listed # <<>> THEN s.listed ELSE IF t.known THEN AllOf(t) ELSE <<>>

\* Leaving a subquery in FROM clears the list of columns that is INSERT's.
Forgotten(s, r, i) ==
  \E q \in 1..r : \E j \in DOMAIN s.rows[q] : s.rows[q][j] = "from" /\ (q < r \/ j < i)

WriteItem(t, s, r, i) ==
  LET targets == InsertTargets(t, s)
  IN  CASE s.rows[r][i] # "default" -> "given"
        [] s.rows[r][i] = "default" /\ t.known /\ ~Forgotten(s, r, i) /\ i <= Len(targets) ->
             SetToDefault(t.columns[targets[i]])
        [] OTHER -> "null"

WriteRow(t, s, r) ==
  LET targets == InsertTargets(t, s)
      width   == Len(s.rows[r])
      written == [i \in 1..width |-> WriteItem(t, s, r, i)]
      Pad(i)  == IF t.known THEN PadValue(t.columns[targets[i]]) ELSE "null"
  IN  IF Forgotten(s, r, width + 1) \/ width >= Len(targets) THEN written
      ELSE written \o [i \in 1..(Len(targets) - width) |-> Pad(width + i)]

Refused == <<>>

\* What is stored: a row number, where there is one, and DEFAULT where nothing
\* is said.
Stored(t, targets, row) ==
  [c \in DOMAIN t.columns |->
     LET column == t.columns[c]
         said   == {i \in DOMAIN targets : targets[i] = c}
         value  == IF said # {} THEN row[CHOOSE i \in said : TRUE]
                   ELSE IF HasDefault(column) THEN "default" ELSE "null"
     IN  IF column.serial /\ value = "null" THEN "default" ELSE value]

Nullless(t, row) == \A c \in DOMAIN t.columns : NotNull(t.columns[c]) => row[c] # "null"

\* SQLite takes the rows if they are as wide as the list of columns, and no
\* more than a statement may have selects.  A text with ";" in it is taken for
\* two statements, and the first is none.
SqliteInsert(t, s) ==
  LET targets == IF InsertTargets(t, s) = <<>> THEN AllOf(t) ELSE InsertTargets(t, s)
      written == [r \in DOMAIN s.rows |-> WriteRow(t, s, r)]
      stored  == [r \in DOMAIN s.rows |-> Stored(t, targets, written[r])]
  IN  IF \/ ";" \in s.marks \/ s.conflict
         \/ InsertTargets(t, s) # <<>> /\ Len(s.rows) > MaxCompound
         \/ \E r \in DOMAIN s.rows : Len(written[r]) # Len(targets) \/ "broken" \in ToSet(written[r])
      THEN Refused
      ELSE IF \A r \in DOMAIN s.rows : Nullless(t, stored[r]) THEN stored ELSE Refused

\* PostgreSQL: without a list of columns a row may be short.  (Rows that
\* conflict are left out under ON CONFLICT DO NOTHING; SQLite is not told.)
PgInsert(t, s) ==
  LET targets == IF s.listed # <<>> THEN s.listed ELSE AllOf(t)
      Value(c, item) == IF item # "default" THEN "given"
                        ELSE IF HasDefault(c) THEN "default" ELSE "null"
      Row(r) == Stored(t, SubSeq(targets, 1, Len(s.rows[r])),
                  [i \in DOMAIN s.rows[r] |-> Value(t.columns[targets[i]], s.rows[r][i])])
      fits == \A r \in DOMAIN s.rows :
                /\ Len(s.rows[r]) = Len(s.rows[1])
                /\ IF s.listed # <<>> THEN Len(s.rows[r]) = Len(targets) ELSE Len(s.rows[r]) <= Len(targets)
  IN  IF ~fits \/ (\E r \in DOMAIN s.rows : ~Nullless(t, Row(r))) THEN Refused
      ELSE [r \in DOMAIN s.rows |-> Row(r)]

-----------------------------------------------------------------------------
(* UPDATE and DELETE.  A reference is [qual, col, inner]: qualified with the *)
(* alias, the table, a table in FROM, or nothing, to a column that the       *)
(* table has; inner says whether it is in a subquery on a table with a       *)
(* column of that name ("same"), without ("other"), or in none ("no").       *)

PgRef(s, ref) ==
  CASE ref.qual = "from"                  -> "from"
    [] ref.qual = "" /\ ref.inner = "same" -> "inner"
    [] OTHER                              -> "outer"

\* Faulty variant: qualified names stay as they are.
CutNoQualifier(s, qual) == qual

\* With an alias, the alias and the table are cut wherever they stand before a dot.
CutQualifier(s, qual) == IF s.alias /\ qual \in {"alias", "table"} THEN "" ELSE qual

\* SQLite.  The tables of FROM and USING are not written.
SqliteRef(s, ref) ==
  LET qual == CutQualifier(s, ref.qual)
  IN  CASE qual \in {"from", "alias"}        -> "unknown"
        [] qual = "" /\ ref.inner = "same"   -> "inner"
        [] OTHER                             -> "outer"

\* What a statement does: what its references mean, whether its texts are as
\* they were, and what SET c = DEFAULT sets.  Outside INSERT no default is known.
SqliteUpdate(t, s) ==
  IF ";" \in s.marks THEN [refused |-> TRUE]
  ELSE IF s.default # 0 /\ NotNull(t.columns[s.default]) THEN [refused |-> TRUE]
  ELSE [refs |-> [i \in DOMAIN s.refs |-> SqliteRef(s, s.refs[i])],
        texts |-> ~(s.alias /\ "alias." \in s.marks),
        set |-> IF s.default = 0 THEN "given" ELSE "null"]

PgUpdate(t, s) ==
  IF s.default # 0 /\ NotNull(t.columns[s.default]) /\ ~HasDefault(t.columns[s.default]) THEN [refused |-> TRUE]
  ELSE [refs |-> [i \in DOMAIN s.refs |-> PgRef(s, s.refs[i])], texts |-> TRUE,
        set |-> IF s.default = 0 THEN "given"
                ELSE IF HasDefault(t.columns[s.default]) THEN "default" ELSE "null"]

-----------------------------------------------------------------------------
VARIABLES
  verb,       \* "insert" or "update"; DELETE is an UPDATE that sets nothing
  statement,
  relation    \* the table it writes

writeVars == <<verb, statement, relation>>

WriteInit ==
  /\ relation \in WriteTables
  /\ \/ verb = "insert" /\ statement \in Inserts
     \/ verb = "update" /\ statement \in Updates

WriteSpec == WriteInit /\ [][UNCHANGED writeVars]_writeVars

-----------------------------------------------------------------------------
(* Properties *)

\* The columns whose DEFAULT the statement asks for, with DEFAULT or by saying
\* nothing.
Asked ==
  LET targets == IF statement.listed # <<>> THEN statement.listed ELSE AllOf(relation)
  IN  [item |-> UNION {{targets[i] : i \in {i \in DOMAIN row : row[i] = "default"}} : row \in ToSet(statement.rows)},
       short |-> UNION {{targets[i] : i \in (Len(row) + 1)..Len(targets)} : row \in ToSet(statement.rows)}]

\* The catalog has the default, as it was written: it is the last clause of its
\* column, and has no comma and no brackets; and with DEFAULT it is no time.
DefaultTold(c, kinds) ==
  LET column == relation.columns[c]
  IN  ~HasDefault(column) \/ (Last(column.clauses) \in kinds)

DefaultsKnown == relation.known \/ (Asked.item = {} /\ Asked.short = {})

\* No subquery before a DEFAULT selects from a subquery.
TableRemembered ==
  \A r \in DOMAIN statement.rows :
    /\ Asked.short # {} => ~Forgotten(statement, r, Len(statement.rows[r]) + 1)
    /\ \A i \in DOMAIN statement.rows[r] : statement.rows[r][i] = "default" => ~Forgotten(statement, r, i)

InsertAsAsked ==
  /\ PgInsert(relation, statement) # Refused
  /\ ~statement.conflict /\ ";" \notin statement.marks
  /\ DefaultsKnown /\ TableRemembered
  /\ Len(statement.rows) <= MaxCompound \/ InsertTargets(relation, statement) = <<>>
  /\ \A c \in Asked.item : DefaultTold(c, {"plain"})
  /\ \A c \in Asked.short : DefaultTold(c, {"plain", "time"})
  => SqliteInsert(relation, statement) = PgInsert(relation, statement)

\* The columns that a subquery in the statement may take for its own.
Captured(ref) == statement.alias /\ ref.qual \in {"alias", "table"} /\ ref.inner = "same"

UpdateAsAsked ==
  /\ ";" \notin statement.marks
  /\ ~(statement.alias /\ "alias." \in statement.marks)
  /\ statement.default = 0 \/ ~HasDefault(relation.columns[statement.default])
  /\ \A ref \in ToSet(statement.refs) : ref.qual # "from" /\ ~Captured(ref)
  => SqliteUpdate(relation, statement) = PgUpdate(relation, statement)

\* INSERT stores what PostgreSQL would, if every default that it asks for is
\* told by the catalog; no subquery selects from a subquery before a default;
\* its texts have no ";"; it has no more rows than SQLite takes; and no row
\* conflicts.  UPDATE and DELETE do what PostgreSQL would, if no column of the
\* table is named in a subquery that has its own column of that name, and no
\* other table is named; the texts have no ";" and no alias in them; and
\* DEFAULT is asked for only where the column has none.
WritesDoWhatTheySay ==
  (verb = "insert" => InsertAsAsked) /\ (verb = "update" => UpdateAsAsked)
=============================================================================
