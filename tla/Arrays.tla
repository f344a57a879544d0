------------------------------- MODULE Arrays -------------------------------
(***************************************************************************)
(* Array values.  A column holds an array as text, in PostgreSQL's format  *)
(* or in JSON's; a function parses the texts it is given and writes its    *)
(* result in PostgreSQL's format.  Characters are one-letter strings and   *)
(* an element is None or a sequence of them.  Arrays have at most two      *)
(* dimensions here, and texts that are no arrays are left out, and so are  *)
(* the characters that trim or JSON treat specially and that are not named *)
(* below: all white space but the space, and control characters.           *)
(***************************************************************************)
EXTENDS Integers, Sequences, SequencesExt

CONSTANTS
  None,             \* NULL: an element or an argument, and what a refused call answers
  Characters,       \* the characters of elements
  WrittenArrays,    \* the arrays that clients write: sequences of rows
  Args,             \* the elements given to array functions
  MaxElems          \* how long an array grows

LQuote   == "\""
Space    == " "
Comma    == ","
Open     == "{"
Close    == "}"
NullText == <<"N", "U", "L", "L">>

ASSUME ArraysAssumption ==
  /\ Characters \cap {"\t", "\n", "\r", "\f"} = {}
  /\ None \notin Seq(Characters)
  /\ \A v \in WrittenArrays : v \in Seq(Seq(Seq(Characters) \cup {None})) /\ v # <<>>
  /\ Args \subseteq Seq(Characters) \cup {None}

CharsOf(s) == ToSet(s)

TrimText(s) ==
  LET ink == {i \in DOMAIN s : s[i] # Space}
  IN  IF ink = {} THEN <<>> ELSE SubSeq(s, Min(ink), Max(ink))

Inside(s) == SubSeq(s, 2, Len(s) - 1)

Joined(parts) ==
  FlattenSeq([i \in DOMAIN parts |-> IF i = 1 THEN parts[1] ELSE <<Comma>> \o parts[i]])

\* An ArrayValue: Empty, OneD or MultiD with its rows.
EmptyArray   == [nd |-> 0, rows |-> <<>>]
OneD(elems)  == [nd |-> 1, rows |-> <<elems>>]
MultiD(rows) == [nd |-> 2, rows |-> rows]
Flat(a)      == FlattenSeq(a.rows)

-----------------------------------------------------------------------------
(* Writing *)

Backslashed(c) == IF c \in {"\\", LQuote} THEN <<"\\", c>> ELSE <<c>>
InQuotes(s)    == <<LQuote>> \o FlattenSeq([i \in DOMAIN s |-> Backslashed(s[i])]) \o <<LQuote>>

\* Faulty variant: only a delimiter asks for quotes.
ElementTextBare(e) ==
  IF e = None THEN NullText
  ELSE IF Comma \in CharsOf(e) THEN InQuotes(e) ELSE e

\* to_postgres_string of an element.
ElementText(e) ==
  IF e = None THEN NullText
  ELSE IF e = <<>> \/ CharsOf(e) \cap {Comma, Open, Close, LQuote} # {} THEN InQuotes(e) ELSE e

ToPostgresString(elems) ==
  <<Open>> \o Joined([i \in DOMAIN elems |-> ElementText(elems[i])]) \o <<Close>>

Digits == {"0", "1", "2", "3", "4", "5", "6", "7", "8", "9"}

\* An element that the client writes as a number, as one that an i64 holds.
IsNumber(e) == e # <<>> /\ Head(e) # "0" /\ Len(e) <= 18 /\ CharsOf(e) \subseteq Digits

\* An element of ARRAY[...] as JSON.  The transpiler has made 1 and 0 of TRUE and
\* FALSE, and takes 1 and 0 for them here.
JsonFromSql(e) ==
  IF e = None THEN <<"n", "u", "l", "l">>
  ELSE CASE e = <<"1">> -> <<"t", "r", "u", "e">>
         [] e = <<"0">> -> <<"f", "a", "l", "s", "e">>
         [] IsNumber(e) /\ e # <<"1">> -> e
         [] OTHER       -> InQuotes(e)

ArrayExpr(elems) == <<"[">> \o Joined([i \in DOMAIN elems |-> JsonFromSql(elems[i])]) \o <<"]">>

-----------------------------------------------------------------------------
(* Parsing *)

PgElement(text) == LET e == TrimText(text) IN IF e = <<>> \/ e = NullText THEN None ELSE e

PgStep(s, c) ==
  IF s.escape THEN [s EXCEPT !.current = Append(@, c), !.escape = FALSE]
  ELSE IF c = "\\" THEN [s EXCEPT !.escape = TRUE]
  ELSE IF c = LQuote THEN [s EXCEPT !.quoted = ~@]
  ELSE IF c = Comma /\ ~s.quoted
       THEN [s EXCEPT !.out = Append(@, PgElement(s.current)), !.current = <<>>]
  ELSE [s EXCEPT !.current = Append(@, c)]

PgElements(text) ==
  LET after[i \in 0..Len(text)] ==
        IF i = 0 THEN [out |-> <<>>, current |-> <<>>, quoted |-> FALSE, escape |-> FALSE]
        ELSE PgStep(after[i - 1], text[i])
      end  == after[Len(text)]
      last == TrimText(end.current)
  IN  IF last = <<>> /\ end.out = <<>> THEN <<>>
      ELSE Append(end.out, IF last = <<>> /\ end.quoted THEN <<>> ELSE PgElement(last))

\* The inner arrays of a nested array.  A quote inside of one is never closed.
PgRowsStep(s, c) ==
  LET Push == [s EXCEPT !.current = Append(@, c)]
  IN  IF c = LQuote /\ (~s.quoted \/ s.depth = 0) THEN [Push EXCEPT !.quoted = ~@]
      ELSE IF c = Open /\ ~s.quoted THEN [Push EXCEPT !.depth = @ + 1]
      ELSE IF c = Close /\ ~s.quoted THEN
        IF s.depth = 1
        THEN [s EXCEPT !.rows = Append(@, TrimText(Append(s.current, c))), !.current = <<>>, !.depth = 0]
        ELSE [Push EXCEPT !.depth = @ - 1]
      ELSE IF c = Comma /\ ~s.quoted /\ s.depth = 0 THEN s
      ELSE Push

PgRows(text) ==
  LET after[i \in 0..Len(text)] ==
        IF i = 0 THEN [rows |-> <<>>, current |-> <<>>, quoted |-> FALSE, depth |-> 0]
        ELSE PgRowsStep(after[i - 1], text[i])
  IN  after[Len(text)].rows

ParsePgArray(text) ==
  LET inner == TrimText(Inside(text))
      rows  == PgRows(inner)
  IN  IF inner = <<>> THEN EmptyArray
      ELSE IF Head(inner) = Open
           THEN MultiD([i \in DOMAIN rows |-> PgElements(TrimText(Inside(rows[i])))])
           ELSE OneD(PgElements(inner))

JsonStep(s, c) ==
  LET Push == [s EXCEPT !.current = Append(@, c)]
  IN  IF s.escape THEN [Push EXCEPT !.escape = FALSE]
      ELSE IF c = "\\" /\ s.quoted THEN [Push EXCEPT !.escape = TRUE]
      ELSE IF c = LQuote THEN [Push EXCEPT !.quoted = ~@]
      ELSE IF c \in {"[", Open} /\ ~s.quoted THEN [Push EXCEPT !.depth = @ + 1]
      ELSE IF c \in {"]", Close} /\ ~s.quoted THEN [Push EXCEPT !.depth = @ - 1]
      ELSE IF c = Comma /\ ~s.quoted /\ s.depth = 0
           THEN [s EXCEPT !.out = Append(@, TrimText(s.current)), !.current = <<>>]
      ELSE Push

JsonElements(text) ==
  LET after[i \in 0..Len(text)] ==
        IF i = 0 THEN [out |-> <<>>, current |-> <<>>, quoted |-> FALSE, escape |-> FALSE, depth |-> 0]
        ELSE JsonStep(after[i - 1], text[i])
      end == after[Len(text)]
  IN  IF TrimText(end.current) = <<>> THEN end.out ELSE Append(end.out, TrimText(end.current))

UnescapeJsonStep(u, c) ==
  IF u.escape
  THEN [out |-> u.out \o (CASE c = "n" -> <<"\n">>
                           [] c = "r" -> <<"\r">>
                           [] c = "t" -> <<"\t">>
                           [] c \in {"\\", LQuote} -> <<c>>
                           [] OTHER -> <<"\\", c>>),
        escape |-> FALSE]
  ELSE IF c = "\\" THEN [u EXCEPT !.escape = TRUE]
  ELSE [u EXCEPT !.out = Append(@, c)]

UnescapeJson(s) ==
  LET after[i \in 0..Len(s)] ==
        IF i = 0 THEN [out |-> <<>>, escape |-> FALSE] ELSE UnescapeJsonStep(after[i - 1], s[i])
  IN  after[Len(s)].out

JsonElement(e) ==
  CASE e = <<>> \/ e = <<"n", "u", "l", "l">> -> None
    [] e # <<>> /\ Head(e) = LQuote /\ Last(e) = LQuote -> UnescapeJson(Inside(e))
    [] OTHER -> e

\* JSON texts are those of ARRAY[...], whose elements are never arrays.
ParseJsonArray(text) ==
  LET inner == TrimText(Inside(text))
      parts == JsonElements(inner)
  IN  IF inner = <<>> THEN EmptyArray ELSE OneD([i \in DOMAIN parts |-> JsonElement(parts[i])])

ParseArray(text) ==
  LET t == TrimText(text)
  IN  CASE t = <<>> -> EmptyArray
        [] t # <<>> /\ Head(t) = "[" -> ParseJsonArray(t)
        [] OTHER -> ParsePgArray(t)

Elements(text) == Flat(ParseArray(text))

-----------------------------------------------------------------------------
(* Functions *)

\* What SQLite is given reads every argument as a String: of a NULL it makes
\* an error, and the statement fails.
UnlessNull(args, answer) == IF None \in args THEN None ELSE answer

\* The text NULL is taken for a NULL.
AsElement(e) == IF e = NullText THEN None ELSE e

\* No array: array_append and array_prepend give one of the element, unquoted.
Blank(text) == text = <<>> \/ text = NullText
Alone(e)    == <<Open>> \o e \o <<Close>>

ArrayAppend(text, e) ==
  UnlessNull({text, e},
    IF Blank(text) THEN Alone(e) ELSE ToPostgresString(Append(Elements(text), AsElement(e))))

ArrayPrepend(e, text) ==
  UnlessNull({text, e},
    IF Blank(text) THEN Alone(e) ELSE ToPostgresString(<<AsElement(e)>> \o Elements(text)))

ArrayCat(l, r) == UnlessNull({l, r}, ToPostgresString(Elements(l) \o Elements(r)))

Removed(v, e) == FlattenSeq([i \in DOMAIN v |-> IF v[i] = e THEN <<>> ELSE <<v[i]>>])

ArrayRemove(text, e) ==
  UnlessNull({text, e},
    IF Blank(text) THEN <<Open, Close>> ELSE ToPostgresString(Removed(Elements(text), AsElement(e))))

Replaced(v, old, new) == [i \in DOMAIN v |-> IF v[i] = old THEN new ELSE v[i]]

ArrayReplace(text, old, new) ==
  UnlessNull({text, old, new},
    IF Blank(text) THEN <<Open, Close>>
    ELSE ToPostgresString(Replaced(Elements(text), AsElement(old), AsElement(new))))

TrimArray(text, n) ==
  LET v == Elements(text)
  IN  UnlessNull({text},
        IF Blank(text) \/ n >= Len(v) THEN <<Open, Close>>
        ELSE ToPostgresString(SubSeq(v, 1, Len(v) - n)))

ArrayOverlap(l, r)  == UnlessNull({l, r}, ToSet(Elements(l)) \cap ToSet(Elements(r)) # {})
ArrayContains(l, r) == UnlessNull({l, r}, ToSet(Elements(r)) \subseteq ToSet(Elements(l)))

-----------------------------------------------------------------------------
(* A column is written by a client and changed with array functions. *)

VARIABLES
  form,    \* how the column was written last
  column,  \* its text
  rows,    \* history: the array that it should hold
  intact   \* history: no element or argument was one that is lost

arrayVars == <<form, column, rows, intact>>

\* PostgreSQL's own text of an array, as its clients write it.
Bare(e) == e # <<>> /\ e # NullText /\ CharsOf(e) \cap {Comma, Open, Close, LQuote, "\\", Space} = {}

PgText(e) == IF e = None THEN NullText ELSE IF Bare(e) THEN e ELSE InQuotes(e)

PgLiteral(v) ==
  LET Row(r) == <<Open>> \o Joined([i \in DOMAIN r |-> PgText(r[i])]) \o <<Close>>
  IN  IF Len(v) = 1 THEN Row(v[1]) ELSE <<Open>> \o Joined([i \in DOMAIN v |-> Row(v[i])]) \o <<Close>>

Trimmed(e) == TrimText(e) = e

\* What comes back of an element, by the form it was written in.
Survives(e, f) ==
  e # None =>
    CASE f = "literal"  -> Trimmed(e) /\ e # <<>> /\ e # NullText
      [] f = "array"    -> e \notin {<<"0">>, <<"1">>}
      [] f = "function" ->
           /\ Trimmed(e) /\ e # <<>> /\ e # NullText
           /\ "\\" \in CharsOf(e) => CharsOf(e) \cap {Comma, Open, Close, LQuote} # {}

\* A nested array is read wrongly if there is a quote in it.
RowsSurvive(v, f) ==
  /\ \A r \in ToSet(v) : \A e \in ToSet(r) : Survives(e, f)
  /\ Len(v) > 1 => \A r \in ToSet(v) : \A e \in ToSet(r) : e = None \/ Bare(e)

ArrayInit ==
  /\ rows \in WrittenArrays
  /\ form \in {"literal", "array", "function"}
  /\ form # "literal" => Len(rows) = 1
  /\ column = CASE form = "literal"  -> PgLiteral(rows)
                [] form = "array"    -> ArrayExpr(rows[1])
                [] form = "function" -> ToPostgresString(rows[1])
  /\ intact = RowsSurvive(rows, form)

\* UPDATE ... SET column = f(column, args), where the array is meant to become
\* elems.  It fails where the function refuses NULL.
Change(args, text, elems) ==
  /\ text # None
  /\ Len(elems) <= MaxElems
  /\ form' = "function"
  /\ column' = text
  /\ rows' = <<elems>>
  /\ intact' = (intact /\ Len(rows) = 1 /\ NullText \notin args /\ RowsSurvive(<<elems>>, "function"))

\* What becomes of a damaged array is not followed.
ChangeArray ==
  LET v == FlattenSeq(rows)
  IN  /\ intact
      /\ \/ \E e \in Args :
              \/ Change({e}, ArrayAppend(column, e), Append(v, e))
              \/ Change({e}, ArrayPrepend(e, column), <<e>> \o v)
              \/ Change({e}, ArrayRemove(column, e), Removed(v, e))
              \/ \E new \in Args : Change({e, new}, ArrayReplace(column, e, new), Replaced(v, e, new))
         \/ \E n \in 0..Len(v) : Change({}, TrimArray(column, n), SubSeq(v, 1, Len(v) - n))
         \/ Change({}, ArrayCat(column, column), v \o v)

ArraySpec == ArrayInit /\ [][ChangeArray]_arrayVars

-----------------------------------------------------------------------------
(* Properties *)

RowsOf(text) == LET a == ParseArray(text) IN IF a.nd = 0 THEN <<<<>>>> ELSE a.rows

\* The column holds the array that was written, with its elements and its rows,
\* over any number of array functions, as long as no element is one that the form
\* it is written in loses (Survives), no argument is the text NULL, and the array
\* is no nested one, which the functions make one of one dimension.
KeepsItsElements == intact => RowsOf(column) = rows

\* && and @> compare the sets of elements as PostgreSQL does, for which no NULL
\* is like another, if neither array is
\* NULL and NULL is not in both.
OperatorsCompareSets ==
  intact =>
    \A e1, e2 \in Args :
      LET other == <<e1, e2>>
          text  == ToPostgresString(other)
          L == ToSet(FlattenSeq(rows))
          R == ToSet(other)
      IN  /\ None \notin {column, text} \cup (L \cap R)
          /\ \A e \in R : Survives(e, "function")
          =>
            /\ ArrayOverlap(column, text)  <=> (L \cap R) \ {None} # {}
            /\ ArrayContains(column, text) <=> R \subseteq L \ {None}
            /\ ArrayContains(text, column) <=> L \subseteq R \ {None}

\* What an array column holds is read back by every array function and operator
\* as the array that PostgreSQL would hold there, under the conditions above.
ArraysReadBack == KeepsItsElements /\ OperatorsCompareSets
=============================================================================
