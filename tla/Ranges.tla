------------------------------- MODULE Ranges -------------------------------
(***************************************************************************)
(* Ranges as the functions know them that SQLite is given: range_contains, *)
(* which @> becomes, isempty, lower, upper and the constructor int4range.  *)
(* A column holds a range as text.  Every function parses the text anew,   *)
(* as a range of integers whatever the column's type is, and brings it to  *)
(* the form [low, high).  NULL, which each of them refuses, and texts that *)
(* are no range are left out.                                              *)
(***************************************************************************)
EXTENDS Integers

CONSTANTS
  BoundTexts,  \* the texts of bounds and elements: integers, and others
  NoNumbers,   \* those that are no i64: dates, decimals, ranges
  Domain,      \* the points a range may contain
  MinValue,    \* the least and the greatest i64
  MaxValue,
  Infinite     \* the text of a bound that is not written, ''

ASSUME RangeAssumption ==
  /\ MinValue \in Int /\ MaxValue \in Int
  /\ BoundTexts \subseteq (MinValue..MaxValue) \cup NoNumbers
  /\ Domain \subseteq Int
  /\ NoNumbers \cap Int = {} /\ Infinite \notin Int \cup NoNumbers

VARIABLES
  given,  \* the range a client wrote
  held    \* the text in the column

rangeVars == <<given, held>>

\* "empty", or a bracket, two bounds and a bracket.
EmptyText == [empty |-> TRUE]
RangeText(low, high, lowInc, highInc) ==
  [empty |-> FALSE, low |-> low, high |-> high, lowInc |-> lowInc, highInc |-> highInc]

Literals ==
  {EmptyText} \cup {RangeText(l, h, li, hi) : l \in BoundTexts \cup {Infinite}, h \in BoundTexts \cup {Infinite},
                                              li \in BOOLEAN, hi \in BOOLEAN}

-----------------------------------------------------------------------------
(* Parsing *)

\* parse::<i64>().unwrap_or(0)
AsNumber(v) == IF v \in NoNumbers THEN 0 ELSE v

\* i64 addition wraps in a release build; what is no number stays as it is.
Increment(v) ==
  IF v \in NoNumbers THEN v ELSE IF v = MaxValue THEN MinValue ELSE v + 1

EmptyIfCrossed(r) ==
  IF /\ r.low # Infinite /\ r.high # Infinite
     /\ \/ AsNumber(r.high) < AsNumber(r.low)
        \/ AsNumber(r.high) = AsNumber(r.low) /\ ~(r.lowInc /\ r.highInc)
  THEN EmptyText ELSE r

\* Faulty variant: an inclusive upper bound keeps its value.
DiscreteUnraised(r) ==
  LET up   == ~r.lowInc /\ r.low # Infinite
      down == r.highInc /\ r.high # Infinite
  IN  RangeText(IF up THEN Increment(r.low) ELSE r.low, r.high, r.lowInc \/ up, r.highInc /\ ~down)

\* [low, high): an exclusive lower and an inclusive upper value are raised by one.
Discrete(r) ==
  LET up   == ~r.lowInc /\ r.low # Infinite
      down == r.highInc /\ r.high # Infinite
  IN  RangeText(IF up THEN Increment(r.low) ELSE r.low,
                IF down THEN Increment(r.high) ELSE r.high,
                r.lowInc \/ up, r.highInc /\ ~down)

\* parse_range of a text, which ends in canonicalize.
Parse(text) == IF text.empty THEN text ELSE EmptyIfCrossed(Discrete(text))

-----------------------------------------------------------------------------
(* The functions *)

\* An element is the text of a value or a value of type INTEGER, which the
\* function, reading its arguments as texts, refuses.
RangeElements == [text : BOOLEAN, value : BoundTexts]

HasElement(r, v) ==
  /\ ~r.empty
  /\ r.low # Infinite  => AsNumber(r.low) < v \/ (v = AsNumber(r.low) /\ r.lowInc)
  /\ r.high # Infinite => v < AsNumber(r.high) \/ (v = AsNumber(r.high) /\ r.highInc)

RangeContains(range, element) ==
  IF ~element.text THEN "error"
  ELSE IF HasElement(Parse(range), AsNumber(element.value)) THEN "yes" ELSE "no"

\* Where PostgreSQL gives NULL the answer of lower and upper is ''.
IsEmpty(range) == Parse(range).empty
Lower(range)   == LET r == Parse(range) IN IF r.empty THEN Infinite ELSE r.low
Upper(range)   == LET r == Parse(range) IN IF r.empty THEN Infinite ELSE r.high

\* int4range of two bounds, integers or texts, and the brackets.
Int4Range(low, high, lowInc, highInc) == Parse(RangeText(low, high, lowInc, highInc))

-----------------------------------------------------------------------------
(* A literal is stored as it is written; a constructor writes its own text. *)

RangeInit ==
  /\ given \in Literals
  /\ held = given

\* INSERT of int4range(low, high, '..') instead of the literal.
ConstructRange ==
  /\ ~given.empty /\ given.low # Infinite /\ given.high # Infinite
  /\ held' = Int4Range(given.low, given.high, given.lowInc, given.highInc)
  /\ UNCHANGED given

\* UPDATE with int4range(lower(range), upper(range)), by a client that knows
\* the range is not empty.
RebuildRange ==
  /\ ~IsEmpty(held)
  /\ held' = Int4Range(Lower(held), Upper(held), TRUE, FALSE)
  /\ UNCHANGED given

RangeNext == ConstructRange \/ RebuildRange

RangeSpec == RangeInit /\ [][RangeNext]_rangeVars

-----------------------------------------------------------------------------
(* Properties *)

\* What PostgreSQL means by a text.
InRange(p, text) ==
  /\ ~text.empty
  /\ text.low # Infinite  => text.low < p \/ (text.low = p /\ text.lowInc)
  /\ text.high # Infinite => p < text.high \/ (text.high = p /\ text.highInc)

Points(text) == {p \in Domain : InRange(p, text)}

\* A range of integers with no bound to be raised over the greatest.
IsInt4Range(text) ==
  ~text.empty => /\ {text.low, text.high} \cap NoNumbers = {}
                 /\ (text.lowInc \/ text.low # MaxValue)
                 /\ (text.highInc => text.high # MaxValue)

\* However a range of integers came into its column, as a literal, through the
\* constructor or from its own bounds, what is asked of it is answered from the
\* points the client meant: membership of an element that is given as text,
\* emptiness and the bounds, which are the least point and the one after the
\* greatest, and '' only where no bound was written.
RangeKnowsItsPoints ==
  IsInt4Range(given) =>
    LET P == Points(given)
        l == Lower(held)
        u == Upper(held)
    IN  /\ \A e \in RangeElements : e.text /\ e.value \notin NoNumbers =>
             (RangeContains(held, e) = "yes" <=> InRange(e.value, given))
        /\ IsEmpty(held) <=> P = {}
        /\ P # {} => /\ l = Infinite <=> given.low = Infinite
                     /\ l # Infinite => l \in P /\ \A p \in P : l <= p
                     /\ u = Infinite <=> given.high = Infinite
                     /\ u # Infinite => u - 1 \in P /\ \A p \in P : p < u
=============================================================================
