-------------------------------- MODULE Boxes --------------------------------
(***************************************************************************)
(* Geometric values.  A column holds the text a client wrote; a geo_       *)
(* function takes it for a box, whichever two opposite corners it names,   *)
(* and geo_distance takes it for a point.  A text is the numbers in it and *)
(* whether it is written with < > or [ ], as circles and paths are.        *)
(* Numbers are integers: nothing is computed but distances.                *)
(***************************************************************************)
EXTENDS Integers, Sequences

CONSTANTS
  Coordinates,  \* the numbers that clients write
  Axis          \* the points of an axis

ASSUME BoxAssumption == Coordinates \subseteq Axis /\ Axis \subseteq Int

VARIABLES shape1, shape2   \* the values of two columns

boxVars == <<shape1, shape2>>

PointText(x, y)          == [numbers |-> <<x, y>>, marked |-> FALSE]
BoxText(x1, y1, x2, y2)  == [numbers |-> <<x1, y1, x2, y2>>, marked |-> FALSE]
CircleText(x, y, r)      == [numbers |-> <<x, y, r>>, marked |-> TRUE]

Shapes ==
  {BoxText(x1, y1, x2, y2) :
     x1 \in Coordinates, y1 \in Coordinates, x2 \in Coordinates, y2 \in Coordinates}
  \cup {PointText(x, x) : x \in Coordinates}
  \cup {CircleText(x, x, x) : x \in Coordinates}

\* A function that fails answers this.
NoAnswer == "error"

-----------------------------------------------------------------------------
IsPoint(text) == ~text.marked /\ Len(text.numbers) = 2
IsBox(text)   == ~text.marked /\ Len(text.numbers) = 4

Greater(a, b) == IF a < b THEN b ELSE a
Smaller(a, b) == IF a < b THEN a ELSE b

\* Faulty variant: the corners are taken in the order they are written.
ParseBoxAsWritten(text) ==
  LET n == text.numbers IN [low |-> [x |-> n[1], y |-> n[2]], high |-> [x |-> n[3], y |-> n[4]]]

ParseBox(text) ==
  LET n == text.numbers
  IN  [low  |-> [x |-> Smaller(n[1], n[3]), y |-> Smaller(n[2], n[4])],
       high |-> [x |-> Greater(n[1], n[3]), y |-> Greater(n[2], n[4])]]

BoxOverlaps(b, c) ==
  /\ b.low.x <= c.high.x /\ c.low.x <= b.high.x
  /\ b.low.y <= c.high.y /\ c.low.y <= b.high.y

BoxContains(b, c) ==
  /\ b.low.x <= c.low.x /\ c.high.x <= b.high.x
  /\ b.low.y <= c.low.y /\ c.high.y <= b.high.y

BoxLeft(b, c)  == b.high.x < c.low.x
BoxRight(b, c) == b.low.x > c.high.x
BoxBelow(b, c) == b.high.y < c.low.y
BoxAbove(b, c) == b.low.y > c.high.y

-----------------------------------------------------------------------------
(* The functions of SQLite *)

OnBoxes(s, t, answer) == IF IsBox(s) /\ IsBox(t) THEN answer ELSE NoAnswer

GeoOverlaps(s, t)  == OnBoxes(s, t, BoxOverlaps(ParseBox(s), ParseBox(t)))
GeoContains(s, t)  == OnBoxes(s, t, BoxContains(ParseBox(s), ParseBox(t)))
GeoContained(s, t) == GeoContains(t, s)
GeoLeft(s, t)      == OnBoxes(s, t, BoxLeft(ParseBox(s), ParseBox(t)))
GeoRight(s, t)     == OnBoxes(s, t, BoxRight(ParseBox(s), ParseBox(t)))
GeoBelow(s, t)     == OnBoxes(s, t, BoxBelow(ParseBox(s), ParseBox(t)))
GeoAbove(s, t)     == OnBoxes(s, t, BoxAbove(ParseBox(s), ParseBox(t)))

\* The square of the distance.
GeoDistance(s, t) ==
  IF ~IsPoint(s) \/ ~IsPoint(t) THEN NoAnswer
  ELSE LET dx == s.numbers[1] - t.numbers[1]
           dy == s.numbers[2] - t.numbers[2]
       IN  dx * dx + dy * dy

-----------------------------------------------------------------------------
BoxInit == shape1 \in Shapes /\ shape2 \in Shapes
BoxSpec == BoxInit /\ [][UNCHANGED boxVars]_boxVars

-----------------------------------------------------------------------------
(* Properties *)

Between(p, a, b) == (a <= p /\ p <= b) \/ (b <= p /\ p <= a)

\* The points of a box along an axis, between the corners as they are written.
XsOf(text) == {p \in Axis : Between(p, text.numbers[1], text.numbers[3])}
YsOf(text) == {p \in Axis : Between(p, text.numbers[2], text.numbers[4])}

AllLess(P, Q) == \A p \in P, q \in Q : p < q

\* The operators on boxes, whichever corners they are written with, answer from
\* the points of the boxes: && is a common point, @> and <@ inclusion, and <<,
\* >>, <<| and |>> the order of the points along an axis.
BoxesAnswerAsPoints ==
  IsBox(shape1) /\ IsBox(shape2) =>
    LET X == XsOf(shape1)  V == XsOf(shape2)
        Y == YsOf(shape1)  W == YsOf(shape2)
    IN  /\ GeoOverlaps(shape1, shape2)  <=> X \cap V # {} /\ Y \cap W # {}
        /\ GeoContains(shape1, shape2)  <=> V \subseteq X /\ W \subseteq Y
        /\ GeoContained(shape1, shape2) <=> X \subseteq V /\ Y \subseteq W
        /\ GeoLeft(shape1, shape2)  <=> AllLess(X, V)
        /\ GeoRight(shape1, shape2) <=> AllLess(V, X)
        /\ GeoBelow(shape1, shape2) <=> AllLess(Y, W)
        /\ GeoAbove(shape1, shape2) <=> AllLess(W, Y)
=============================================================================
