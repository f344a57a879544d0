----------------------------- MODULE CopyCodec -----------------------------
(***************************************************************************)
(* The formats of COPY: a table is written with COPY TO and read back with *)
(* COPY FROM, under the same options.  Characters are one-letter strings;  *)
(* a value is NULL, a sequence of them or something that is no text; the   *)
(* wire is what CopyData messages carry, joined.                           *)
(***************************************************************************)
EXTENDS Naturals, Sequences, SequencesExt

CONSTANTS
  NULL,
  Shown,      \* of each value that is no text, the text that COPY TO makes of it
  Sources,    \* tables: [columns |-> Nat, rows |-> Seq(rows)]
  Statements  \* the WITH clauses of a COPY, in the order they are written

Tab   == "\t"
Quote == "\""

-----------------------------------------------------------------------------
(* Options *)

Default ==
  [format |-> "TEXT", delimiter |-> Tab, quote |-> Quote, escape |-> Tab,
   null |-> <<"\\", "N">>, header |-> FALSE]

\* Each clause overwrites the options it speaks of; FORMAT those it implies.
WithClause(options, clause) ==
  CASE clause.name = "FORMAT" /\ clause.value = "TEXT" ->
         [options EXCEPT !.format = "TEXT", !.delimiter = Tab, !.null = Default.null]
    [] clause.name = "FORMAT" /\ clause.value = "CSV" ->
         [options EXCEPT !.format = "CSV", !.delimiter = ",", !.null = <<>>]
    [] clause.name = "FORMAT" /\ clause.value = "BINARY" ->
         [options EXCEPT !.format = "BINARY"]
    [] clause.name = "DELIMITER" -> [options EXCEPT !.delimiter = clause.value]
    [] clause.name = "QUOTE"     -> [options EXCEPT !.quote = clause.value]
    [] clause.name = "ESCAPE"    -> [options EXCEPT !.escape = clause.value]
    [] clause.name = "NULL"      -> [options EXCEPT !.null = clause.value]
    [] clause.name = "HEADER"    -> [options EXCEPT !.header = TRUE]

Options(clauses) == FoldLeft(WithClause, Default, clauses)

ASSUME CopyCodecAssumption ==
  /\ NULL \notin Seq(STRING)
  /\ Shown \in [DOMAIN Shown -> Seq(STRING)]
  /\ \A t \in Sources :
       /\ t = [columns |-> t.columns, rows |-> t.rows] /\ t.columns \in Nat \ {0}
       /\ t.rows \in Seq([1..t.columns -> Seq(STRING) \cup {NULL} \cup DOMAIN Shown])

-----------------------------------------------------------------------------
(* COPY TO *)

\* String::from_utf8_lossy of a BLOB and to_string of a number.  COPY FROM inserts
\* texts only: of a number it is given back as a number only if the column makes
\* one of its text, and then it is like a text here; a BLOB never is.
AsText(v) == IF v \in DOMAIN Shown THEN Shown[v] ELSE v

AsTexts(table) ==
  [columns |-> table.columns,
   rows    |-> [i \in DOMAIN table.rows |->
                  [j \in DOMAIN table.rows[i] |-> AsText(table.rows[i][j])]]]

JoinWith(parts, c) ==
  FlattenSeq([i \in DOMAIN parts |-> IF i = 1 THEN parts[1] ELSE <<c>> \o parts[i]])

Escaped(c, e) ==
  CASE c = "\n" -> <<e, "n">>
    [] c = Tab  -> <<e, "t">>
    [] c = "\r" -> <<e, "r">>
    [] c = e    -> <<e, e>>
    [] OTHER    -> <<c>>

EscapeText(v, e) ==
  IF e = Tab THEN v ELSE FlattenSeq([i \in DOMAIN v |-> Escaped(v[i], e)])

\* Faulty variant: NULL is written as in CSV.
FormatTextNullEmpty(v, o) == IF v = NULL THEN <<>> ELSE EscapeText(v, o.escape)

FormatText(v, o) == IF v = NULL THEN o.null ELSE EscapeText(v, o.escape)

\* Faulty variant: the quotes inside a quoted value are not doubled.
FormatCsvUndoubled(v, o) ==
  IF v = NULL THEN <<>>
  ELSE IF ToSet(v) \cap {o.delimiter, o.quote, "\n", "\r"} = {} THEN v
  ELSE <<o.quote>> \o v \o <<o.quote>>

FormatCsv(v, o) ==
  IF v = NULL THEN <<>>
  ELSE IF ToSet(v) \cap {o.delimiter, o.quote, "\n", "\r"} = {} THEN v
  ELSE <<o.quote>>
       \o FlattenSeq([i \in DOMAIN v |-> IF v[i] = o.quote THEN <<o.quote, o.quote>> ELSE <<v[i]>>])
       \o <<o.quote>>

Line(row, o) ==
  LET Format(v) == IF o.format = "CSV" THEN FormatCsv(v, o) ELSE FormatText(v, o)
  IN  JoinWith([i \in DOMAIN row |-> Format(row[i])], o.delimiter) \o <<"\n">>

\* The header is a line of column names, "c" for each.
HeaderLine(columns, o) == JoinWith([i \in 1..columns |-> <<"c">>], o.delimiter) \o <<"\n">>

Tuple(row)   == [tag |-> "tuple", fields |-> row]
Mark(tag)    == [tag |-> tag, fields |-> <<>>]

\* Binary data as tokens.  The signature and header go before the first tuple.
Binary(rows) ==
  (IF rows = <<>> THEN <<>> ELSE <<Mark("header")>>)
  \o [i \in DOMAIN rows |-> Tuple(rows[i])]
  \o <<Mark("trailer")>>

Written(table, o) ==
  IF o.format = "BINARY" THEN Binary(table.rows)
  ELSE (IF o.format = "CSV" /\ o.header THEN HeaderLine(table.columns, o) ELSE <<>>)
       \o FlattenSeq([i \in DOMAIN table.rows |-> Line(table.rows[i], o)])

-----------------------------------------------------------------------------
(* COPY FROM *)

SplitStep(parts, x, c) ==
  IF x = c THEN Append(parts, <<>>) ELSE Append(Front(parts), Append(Last(parts), x))

Split(s, c) ==
  LET after[i \in 0..Len(s)] == IF i = 0 THEN << <<>> >> ELSE SplitStep(after[i - 1], s[i], c)
  IN  after[Len(s)]

\* str::lines: what is before each line feed, without a carriage return at its end.
LinesOf(wire) ==
  LET parts == Split(wire, "\n")
      Chomp(l) == IF l # <<>> /\ Last(l) = "\r" THEN Front(l) ELSE l
  IN  [i \in 1..(Len(parts) - 1) |-> Chomp(parts[i])]
      \o (IF Last(parts) = <<>> THEN <<>> ELSE <<Last(parts)>>)

Unescaped(c) ==
  CASE c = "n"  -> <<"\n">>
    [] c = "t"  -> <<Tab>>
    [] c = "r"  -> <<"\r">>
    [] c = "\\" -> <<"\\">>
    [] OTHER    -> <<"\\", c>>

UnescapeStep(s, c) ==
  IF s.pending THEN [out |-> s.out \o Unescaped(c), pending |-> FALSE]
  ELSE IF c = "\\" THEN [out |-> s.out, pending |-> TRUE]
  ELSE [out |-> Append(s.out, c), pending |-> FALSE]

\* Whatever the escape character, a backslash is what is looked for.
UnescapeText(v, e) ==
  IF e = Tab \/ ~Contains(v, "\\") THEN v
  ELSE LET after[i \in 0..Len(v)] ==
             IF i = 0 THEN [out |-> <<>>, pending |-> FALSE] ELSE UnescapeStep(after[i - 1], v[i])
           end == after[Len(v)]
       IN  IF end.pending THEN Append(end.out, "\\") ELSE end.out

TextValues(line, o) ==
  LET parts == Split(line, o.delimiter)
  IN  [i \in DOMAIN parts |->
         IF parts[i] = o.null THEN NULL ELSE UnescapeText(parts[i], o.escape)]

\* A turn of the loop of parse_csv_line, in which "skip" says that the character
\* was consumed as a second quote.
CsvStep(s, line, i, o) ==
  LET Push(c) == [s EXCEPT !.current = Append(@, c)]
      doubled == i < Len(line) /\ line[i + 1] = o.quote
  IN  IF s.skip THEN [s EXCEPT !.skip = FALSE]
      ELSE IF line[i] = o.quote THEN
        IF s.quoted /\ doubled THEN [Push(o.quote) EXCEPT !.skip = TRUE] ELSE [s EXCEPT !.quoted = ~@]
      ELSE IF line[i] = o.delimiter /\ ~s.quoted THEN
        [s EXCEPT !.fields = Append(@, s.current), !.current = <<>>]
      ELSE Push(line[i])

CsvFields(line, o) ==
  LET after[i \in 0..Len(line)] ==
        IF i = 0 THEN [fields |-> <<>>, current |-> <<>>, quoted |-> FALSE, skip |-> FALSE]
        ELSE CsvStep(after[i - 1], line, i, o)
      end == after[Len(line)]
  IN  Append(end.fields, end.current)

CsvValues(line, o) ==
  LET fields == CsvFields(line, o)
  IN  [i \in DOMAIN fields |-> IF fields[i] = o.null THEN NULL ELSE fields[i]]

\* Empty lines are passed over, and in CSV the header.
DataLines(wire, o) ==
  LET lines == LinesOf(wire)
      body  == IF o.format = "CSV" /\ o.header /\ lines # <<>> THEN Tail(lines) ELSE lines
  IN  FlattenSeq([i \in DOMAIN body |-> IF body[i] = <<>> THEN <<>> ELSE <<body[i]>>])

\* Faulty variant: the loop ends when only the trailer and one tuple are left.
BinaryRowsButLast(wire) ==
  LET body == SubSeq(wire, 2, Len(wire) - 2) IN [i \in DOMAIN body |-> body[i].fields]

\* After the header, the tuples up to the trailer.
BinaryRows(wire) ==
  LET trailers == {i \in DOMAIN wire : wire[i].tag = "trailer"}
      body     == SubSeq(wire, 2, Min(trailers) - 1)
  IN  [i \in DOMAIN body |-> body[i].fields]

\* What SQLite inserts: the rows before the first that has not a value for each
\* column, which ends the COPY with an error.
Inserted(columns, rows) ==
  LET wrong == {i \in DOMAIN rows : Len(rows[i]) # columns}
  IN  IF wrong = {} THEN [rows |-> rows, ok |-> TRUE]
      ELSE [rows |-> SubSeq(rows, 1, Min(wrong) - 1), ok |-> FALSE]

Read(wire, columns, o) ==
  IF o.format = "BINARY" THEN
    IF Head(wire).tag # "header" THEN [rows |-> <<>>, ok |-> FALSE]
    ELSE Inserted(columns, BinaryRows(wire))
  ELSE LET lines == DataLines(wire, o)
           Values(l) == IF o.format = "CSV" THEN CsvValues(l, o) ELSE TextValues(l, o)
       IN  Inserted(columns, [i \in DOMAIN lines |-> Values(lines[i])])

-----------------------------------------------------------------------------
VARIABLES
  clauses,   \* the WITH clauses
  source,    \* the table that is copied out
  wire,      \* the data between the two statements
  target,    \* the rows that were read back, and whether the COPY succeeded
  next       \* the next statement: "COPY TO", "COPY FROM" or "none"

vars == <<clauses, source, wire, target, next>>

Init ==
  /\ clauses \in Statements
  /\ source \in Sources
  /\ wire = <<>>
  /\ target = [rows |-> <<>>, ok |-> TRUE]
  /\ next = "COPY TO"

CopyTo ==
  /\ next = "COPY TO"
  /\ wire' = Written(AsTexts(source), Options(clauses))
  /\ next' = "COPY FROM"
  /\ UNCHANGED <<clauses, source, target>>

CopyFrom ==
  /\ next = "COPY FROM"
  /\ target' = Read(wire, source.columns, Options(clauses))
  /\ next' = "none"
  /\ UNCHANGED <<clauses, source, wire>>

Next == CopyTo \/ CopyFrom

Spec == Init /\ [][Next]_vars

-----------------------------------------------------------------------------
(* Properties *)

options   == Options(clauses)
Values    == UNION {ToSet(row) : row \in ToSet(source.rows)}
Texts     == Values \ {NULL}
Has(c)    == \E v \in Texts : Contains(v, c)
Restored  == target = [rows |-> source.rows, ok |-> TRUE]
OnlyTexts == \A row \in ToSet(source.rows) : ToSet(row) \cap DOMAIN Shown = {}

\* A row whose line is empty is not read back.
EmptyLine(v) == source.columns = 1 /\ \E row \in ToSet(source.rows) : row[1] = v

\* What PostgreSQL asks of the options, and here nothing checks: that characters
\* which mean something are different ones, and NULL is not like other data.
\* CSV writes NULL as nothing, whatever the option; escapes change what is read
\* for NULL, so that only \N is safe with them.
Sensible(o) ==
  LET special == {"\n", "\r", "\\", "n", "t", "r"}
  IN  /\ o.format \in {"TEXT", "CSV", "BINARY"} /\ o.header \in BOOLEAN
      /\ o.delimiter \in STRING /\ o.quote \in STRING /\ o.null \in Seq(STRING)
      /\ o.format = "CSV" =>
           o.delimiter \notin {o.quote, "\n", "\r"} /\ o.quote \notin {"\n", "\r"} /\ o.null = <<>>
      /\ o.format = "TEXT" =>
           /\ o.delimiter \notin special
           /\ o.null # <<>> /\ ToSet(o.null) \cap {o.delimiter, "\n", "\r"} = {}
           /\ o.escape = "\\" => o.null = Default.null

\* A table of texts copied out in CSV format, with sensible options, comes back as
\* it was if it has no empty value (read as NULL), no line feed (lines are split
\* before quotes are looked at), and no row that is a single NULL.
CsvComesBack ==
  /\ next = "none" /\ options.format = "CSV" /\ Sensible(options)
  /\ OnlyTexts /\ <<>> \notin Texts /\ ~Has("\n") /\ ~EmptyLine(NULL)
  => Restored

\* Without an escape character, the default: no value has the delimiter or a line
\* feed in it or reads like NULL, no line ends in a carriage return, and no row is
\* a single empty value.
RawTextIsSafe ==
  /\ ~Has("\n") /\ ~Has(options.delimiter)
  /\ options.null \notin Texts
  /\ \A row \in ToSet(source.rows) :
       Last(row) # NULL /\ Last(row) # <<>> => Last(Last(row)) # "\r"
  /\ ~EmptyLine(<<>>)

\* With ESCAPE '\', any value survives but one with a delimiter other than the
\* tab; a row that is a single empty value is lost.
EscapedTextIsSafe == (options.delimiter # Tab => ~Has(options.delimiter)) /\ ~EmptyLine(<<>>)

\* A table of texts copied out in text format, with sensible options, comes back as
\* it was if its values are safe: with the escape character of PostgreSQL, which
\* is to be asked for here, and without.
TextComesBack ==
  /\ next = "none" /\ options.format = "TEXT" /\ Sensible(options) /\ OnlyTexts
  /\ \/ options.escape = Tab /\ RawTextIsSafe
     \/ options.escape = "\\" /\ EscapedTextIsSafe
  => Restored

\* Whatever the texts, binary data comes back, if there is any.
BinaryComesBack ==
  /\ next = "none" /\ options.format = "BINARY" /\ OnlyTexts
  /\ source.rows # <<>>
  => Restored
=============================================================================
