----------------------------- MODULE Overloading -----------------------------
(***************************************************************************)
(* Operators that PostgreSQL has for arrays, ranges and shapes alike.  A   *)
(* syntax tree has no types, so that the function which an operator        *)
(* becomes is found out from the characters in its operands' texts.  A     *)
(* text is a sequence of items: operands, operators, calls and what stands *)
(* in brackets, each with the marks that matter in its text.               *)
(***************************************************************************)
EXTENDS Integers, FiniteSets, Sequences, SequencesExt

CONSTANT Operands  \* Operands[t]: operands of an overloaded operator that are of type t

\* A column; or a literal by its first and last characters, the number of its
\* commas and the other characters in it that matter.  A column whose name has
\* "range" in it is called that.
Column(name)    == [kind |-> "column", name |-> name]
Literal(first, commas, last, inner) ==
  [kind |-> "literal", first |-> first, commas |-> commas, last |-> last, inner |-> inner]
Number == Literal("1", 0, "1", {})

\* A range that is made of two operands.
MadeRange(low, high) == [kind |-> "int4range", low |-> low, high |-> high]

LeafMarks(l) ==
  IF l.kind = "column" THEN {l.name}
  ELSE {l.first, l.last} \cup l.inner \cup (IF l.commas > 0 THEN {","} ELSE {})

Marks(text) == UNION {text[k].marks : k \in DOMAIN text}

Item(op)    == [item |-> "op", op |-> op, marks |-> IF op \in {"<", "<<"} THEN {"<"} ELSE {}]
Operand(l)  == [item |-> "operand", leaf |-> l, marks |-> LeafMarks(l)]
Group(text) == [item |-> "group", text |-> text, marks |-> {"(", ")"} \cup Marks(text)]
Call(f, texts) ==
  [item |-> "call", f |-> f, texts |-> texts,
   marks |-> {"(", ")"} \cup (UNION {Marks(texts[i]) : i \in DOMAIN texts})
             \cup (IF Len(texts) > 1 THEN {","} ELSE {})
             \cup (IF f \in {"int4range", "range_canonicalize"} THEN {"range"} ELSE {})]

-----------------------------------------------------------------------------
(* What a text looks like *)

LooksLikeGeo(text) ==
  "<" \in Marks(text) \/ ("[" \notin Marks(text) /\ {"(", ",", ")"} \subseteq Marks(text))

IsLiteral(text) == Len(text) = 1 /\ text[1].item = "operand" /\ text[1].leaf.kind = "literal"

LooksLikeRangeLiteral(l) == l.first \in {"[", "("} /\ l.last \in {"]", ")"} /\ l.commas > 0

LooksLikeGeoLiteral(l) ==
  \/ l.first = "(" /\ LeafMarks(l) \cap {"[", "]"} = {} /\ l.commas \in {1, 3}
  \/ l.first = "<" /\ l.last = ">"

IsGeoOperation(l, r) == LooksLikeGeo(l) \/ LooksLikeGeo(r)

\* ARRAY[...] is written as a literal, '["a"]', so its text has a bracket.
IsArrayOperation(l, r) == ~IsGeoOperation(l, r) /\ "[" \in Marks(l) \cup Marks(r)

IsRangeOperation(l, r) ==
  /\ ~IsGeoOperation(l, r) /\ "[" \notin Marks(l) \cup Marks(r)
  /\ \/ "range" \in Marks(l) \cup Marks(r)
     \/ IsLiteral(r) /\ (LooksLikeRangeLiteral(r[1].leaf) \/ r[1].leaf = Number)

-----------------------------------------------------------------------------
(* Writing *)

\* A literal that starts with [ is always taken for a JSON array.
WriteLeaf(l) ==
  IF /\ l.kind = "literal" /\ LooksLikeRangeLiteral(l)
     /\ ~LooksLikeGeoLiteral(l) /\ l.first # "["
  THEN <<Call("range_canonicalize", <<<<Operand(l)>>>>)>>
  ELSE <<Operand(l)>>

WriteOperand(o) ==
  IF o.kind = "int4range" THEN <<Call("int4range", <<WriteLeaf(o.low), WriteLeaf(o.high)>>)>>
  ELSE WriteLeaf(o)

ByOperand(l, r, geo, array, range, other) ==
  CASE IsGeoOperation(l, r) -> <<Call(geo, <<l, r>>)>>
    [] ~IsGeoOperation(l, r) /\ IsArrayOperation(l, r) -> array
    [] IsRangeOperation(l, r) -> <<Call(range, <<l, r>>)>>
    [] OTHER -> other

Infix(l, op, r) == l \o <<Item(op)>> \o r

\* Faulty variant: << of two arrays is decided as && is.
WriteOverloadedAlike(op, l, r) ==
  LET array == <<Call("array_overlap", <<l, r>>)>>
  IN  ByOperand(l, r, "geo_overlaps", array, "range_overlaps", array)

WriteOverloaded(op, l, r) ==
  LET Array(f) == <<Call(f, <<l, r>>)>>
      OnArrays(geo, array, range) == ByOperand(l, r, geo, Array(array), range, Array(array))
      Shift(geo, range) == ByOperand(l, r, geo, Infix(l, op, r), range, Infix(l, op, r))
      Geo(f, other) == IF IsGeoOperation(l, r) THEN <<Call(f, <<l, r>>)>> ELSE other
  IN  CASE op = "&&"  -> OnArrays("geo_overlaps", "array_overlap", "range_overlaps")
        [] op = "@>"  -> OnArrays("geo_contains", "array_contains", "range_contains")
        [] op = "<@"  -> OnArrays("geo_contained", "array_contained", "range_contained")
        [] op = "<<"  -> Shift("geo_left", "range_left")
        [] op = ">>"  -> Shift("geo_right", "range_right")
        [] op = "<<|" -> Geo("geo_below", Infix(l, op, r))
        [] op = "|>>" -> Geo("geo_above", Infix(l, op, r))
        [] op = "<->" -> Geo("geo_distance", <<Call("vector_l2_distance", <<l, r>>)>>)
        [] op = "-|-" -> <<Call("range_adjacent", <<l, r>>)>>
        [] op = "@@"  -> <<Call("fts_match", <<l, r>>)>>

Overloaded == {"&&", "@>", "<@", "<<", ">>", "<<|", "|>>", "<->", "-|-", "@@"}

-----------------------------------------------------------------------------
\* The functions of these operators that SQLite is given.
Registered ==
  [box   |-> {"geo_overlaps", "geo_contains", "geo_contained", "geo_left", "geo_right",
              "geo_below", "geo_above", "geo_distance"},
   array |-> {"array_overlap", "array_contains", "array_contained"},
   range |-> {"range_contains"},
   vector |-> {}, text |-> {}]

\* What each operator means on its type.
Meant ==
  {<<"box", "&&", "geo_overlaps">>, <<"box", "@>", "geo_contains">>, <<"box", "<@", "geo_contained">>,
   <<"box", "<<", "geo_left">>, <<"box", ">>", "geo_right">>, <<"box", "<<|", "geo_below">>,
   <<"box", "|>>", "geo_above">>, <<"box", "<->", "geo_distance">>,
   <<"array", "&&", "array_overlap">>, <<"array", "@>", "array_contains">>, <<"array", "<@", "array_contained">>,
   <<"range", "@>", "range_contains">>}

\* PostgreSQL's overloaded operators.
OperatorsOf ==
  [box   |-> {"&&", "@>", "<@", "<<", ">>", "<<|", "|>>", "<->"},
   array |-> {"&&", "@>", "<@"},
   range |-> {"&&", "@>", "<@", "<<", ">>", "-|-"},
   vector |-> {"<->"}, text |-> {"@@"}]

OperandMarks == {"<", ">", "(", ")", "[", "]", ","}

IsColumnOf(o)    == o = Column(o.name) /\ o.name \notin OperandMarks
IsLiteralOf(o, ends, commas, inner) ==
  /\ o = Literal(o.first, o.commas, o.last, o.inner)
  /\ <<o.first, o.last>> \in ends /\ o.commas \in commas /\ o.inner \subseteq inner

\* Circles and dates are left out; a range has no brackets inside.
IsOperandOf(o, t) ==
  \/ o.kind = "column" /\ IsColumnOf(o)
  \/ /\ o.kind = "literal" /\ t = "array"
     /\ IsLiteralOf(o, {<<"[", "]">>, <<"{", "}">>}, Nat, OperandMarks \ {","})
  \/ o.kind = "literal" /\ t = "vector" /\ IsLiteralOf(o, {<<"[", "]">>}, Nat, {})
  \/ o.kind = "literal" /\ t = "box" /\ IsLiteralOf(o, {<<"(", ")">>}, {1, 3}, {"(", ")"})
  \/ o.kind = "literal" /\ t = "range" /\ (o = Number \/ IsLiteralOf(o, {"[", "("} \X {"]", ")"}, {1}, {}))
  \/ o.kind = "int4range" /\ t = "range" /\ o = MadeRange(o.low, o.high)
     /\ \A b \in {o.low, o.high} : b = Number \/ (b.kind = "column" /\ IsColumnOf(b))

ASSUME OverloadingAssumption ==
  \A t \in DOMAIN OperatorsOf : \A o \in Operands[t] : IsOperandOf(o, t)

VARIABLES
  operandType,  \* what the operands are
  operator,     \* an operator on them
  operands      \* and the two

operatorVars == <<operandType, operator, operands>>

OperatorInit ==
  /\ operandType \in DOMAIN OperatorsOf /\ operator \in OperatorsOf[operandType]
  /\ operands \in Operands[operandType] \X Operands[operandType]

OperatorSpec == OperatorInit /\ [][UNCHANGED operatorVars]_operatorVars

-----------------------------------------------------------------------------
(* Properties *)

\* The functions that an operator may become.
FunctionsFor(type, op) == {f \in Registered[type] : <<type, op, f>> \in Meant}

Answered ==
  LET item == WriteOverloaded(operator, WriteOperand(operands[1]), WriteOperand(operands[2]))[1]
  IN  item.item = "call" /\ item.f \in FunctionsFor(operandType, operator)

IsColumn(o)    == o.kind = "column"
NamedRange     == Column("range")
HasBracket(o)  == o.kind = "literal" /\ "[" \in {o.first} \cup o.inner

\* An array with a < in it, or both brackets and a comma but no [.
LikeAShape(o) ==
  o.kind = "literal" /\ ("<" \in o.inner \/ (~HasBracket(o) /\ o.commas > 0 /\ {"(", ")"} \subseteq o.inner))

\* Operands whose types can be told from their texts.
ArraysShow(l, r) ==
  /\ ~LikeAShape(l) /\ ~LikeAShape(r)
  /\ HasBracket(l) \/ HasBracket(r) \/ NamedRange \notin {l, r}
BoxShows(l, r)   == ~(IsColumn(l) /\ IsColumn(r))
RangeShows(l, r) == IsColumn(l) /\ IsColumn(r) /\ NamedRange \in {l, r}

\* The operator becomes the function that it means, and one that SQLite has, of
\* arrays unless one looks like a shape, or a column that is named like a range
\* stands beside no [; of boxes if one is written out; and @> of a range and an
\* element, which has the only function on ranges, if they are columns and one is
\* named like a range.  Nothing is said here of the operators that have none, on
\* ranges, vectors and texts.
OperatorsReachTheirType ==
  LET l == operands[1]
      r == operands[2]
  IN  \/ operandType = "array" /\ ArraysShow(l, r)
      \/ operandType = "box" /\ BoxShows(l, r)
      \/ operandType = "range" /\ operator = "@>" /\ RangeShows(l, r)
      => Answered
=============================================================================
