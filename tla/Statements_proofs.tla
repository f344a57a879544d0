-------------------------- MODULE Statements_proofs ---------------------------
(***************************************************************************)
(* What holds of values, of tables, and of the catalogs about roles and    *)
(* tables.                                                                 *)
(*                                                                         *)
(* The operators on values that are kept as text answer from what the      *)
(* values are.                                                             *)
(*                                                                         *)
(* Those on a range answer from its points.  A range has a lower and an    *)
(* upper cut; parsing brings both to one form, in which two cuts cross     *)
(* exactly if an integer lies between them, and what is parsed once is     *)
(* read again as it is.                                                    *)
(*                                                                         *)
(* Those on boxes answer from the points of the boxes, for any coordinates *)
(* and any axis that has them.  Along an axis a box is an interval between *)
(* two of the coordinates, so that each question about its points is       *)
(* answered by its ends.                                                   *)
(*                                                                         *)
(* What is recorded to be granted to a role was granted to that role, for  *)
(* any names, relations and privileges, however many roles are made and    *)
(* dropped.  It rests on a number never being given twice: a row left      *)
(* behind names a number below every number still to be given, and the     *)
(* roles there are have different ones.                                    *)
(*                                                                         *)
(* What the catalog says of tables is what they are, for any names and     *)
(* definitions, however many tables are made and dropped.  While CREATE    *)
(* TABLE is under way the catalog lags behind at the tables of that name   *)
(* only, in a way that its next write makes good; and what the block can   *)
(* be rolled back to is a database in which nothing was under way.         *)
(*                                                                         *)
(* The rows that statements write are those PostgreSQL would store, for    *)
(* any tables and any statements, where the catalog tells all that the     *)
(* statement leaves to it.                                                 *)
(*                                                                         *)
(* What a SELECT answers is one of the answers PostgreSQL may give, for    *)
(* any rows and queries.  DISTINCT ON is the hard case: SQLite sorts the   *)
(* first rows of the groups a second time, and may put those that are tied *)
(* in another order than that in which they were found.  All the rows can  *)
(* be arranged so that the first ones are found in that order at once.     *)
(*                                                                         *)
(* An operator that arrays, ranges and shapes have in common becomes a     *)
(* function of its operands' type where their texts look like it.          *)
(***************************************************************************)
EXTENDS CopyCodec_proofs, Ranges, Boxes, Roles, Catalog, Writes, Select, Overloading, FiniteSetTheorems

-----------------------------------------------------------------------------
(* Cuts *)

\* The texts whose bounds are integers.
IsText(t) ==
  \/ t = EmptyText
  \/ \E a \in Int \cup {Infinite}, b \in Int \cup {Infinite}, ai \in BOOLEAN, bi \in BOOLEAN :
       t = RangeText(a, b, ai, bi)

Above(d, a, ai) == a # Infinite => a < d \/ (a = d /\ ai)
Under(d, b, bi) == b # Infinite => d < b \/ (d = b /\ bi)

\* The cuts of a canonical range.
LowerCut(a, ai) == a \in Int \cup {Infinite} /\ ai \in BOOLEAN /\ (a # Infinite => ai)
UpperCut(b, bi) == b \in Int \cup {Infinite} /\ bi \in BOOLEAN /\ (b # Infinite => ~bi)

Cross(a, b) == a = Infinite \/ b = Infinite \/ a < b

\* Two cuts cross exactly if an integer lies between them.
LEMMA CrossingCuts ==
  ASSUME NEW a, NEW ai, NEW b, NEW bi, LowerCut(a, ai), UpperCut(b, bi)
  PROVE  Cross(a, b) <=> \E d \in Int : Above(d, a, ai) /\ Under(d, b, bi)
<1>0. a \in Int \cup {Infinite} /\ b \in Int \cup {Infinite} /\ Infinite \notin Int
  BY RangeAssumption DEF LowerCut, UpperCut
<1>1. ASSUME NEW d \in Int, Above(d, a, ai), Under(d, b, bi)
      PROVE  Cross(a, b)
  BY <1>0, <1>1 DEF Above, Under, Cross, UpperCut
<1>2. ASSUME Cross(a, b)
      PROVE  \E d \in Int : Above(d, a, ai) /\ Under(d, b, bi)
  <2>1. CASE a # Infinite
    <3>1. Above(a, a, ai) /\ Under(a, b, bi)
      BY <1>0, <1>2, <2>1 DEF Above, Under, Cross, LowerCut
    <3> QED
      BY <1>0, <2>1, <3>1
  <2>2. CASE a = Infinite /\ b # Infinite
    <3>1. Above(b - 1, a, ai) /\ Under(b - 1, b, bi) /\ b - 1 \in Int
      BY <1>0, <2>2 DEF Above, Under
    <3> QED
      BY <3>1
  <2>3. CASE a = Infinite /\ b = Infinite
    BY <2>3 DEF Above, Under
  <2> QED
    BY <2>1, <2>2, <2>3
<1> QED
  BY <1>1, <1>2

-----------------------------------------------------------------------------
(* Parsing *)

LEMMA FieldsOfTexts ==
  /\ EmptyText.empty
  /\ \A a, b, ai, bi :
       LET t == RangeText(a, b, ai, bi)
       IN  t.empty = FALSE /\ t.low = a /\ t.high = b /\ t.lowInc = ai /\ t.highInc = bi
BY DEF EmptyText, RangeText

LEMMA PointsOfText ==
  ASSUME NEW a, NEW b, NEW ai, NEW bi
  PROVE  \A p : InRange(p, RangeText(a, b, ai, bi)) <=> Above(p, a, ai) /\ Under(p, b, bi)
<1>1. \A p, u : u.empty = FALSE /\ u.low = a /\ u.high = b /\ u.lowInc = ai /\ u.highInc = bi =>
        (InRange(p, u) <=> Above(p, a, ai) /\ Under(p, b, bi))
  BY DEF InRange, Above, Under
<1> QED
  BY <1>1, FieldsOfTexts

\* What parsing makes: the empty range, or one whose cuts cross.
Canonical(r) ==
  \/ r = EmptyText
  \/ \E a, b, ai, bi :
       r = RangeText(a, b, ai, bi) /\ LowerCut(a, ai) /\ UpperCut(b, bi) /\ Cross(a, b)

\* Two texts of the same points, and of the same bounds that are not written.
Same(t, u) ==
  /\ \A p \in Int : InRange(p, t) <=> InRange(p, u)
  /\ (\E p \in Int : InRange(p, t)) =>
       (t.low = Infinite <=> u.low = Infinite) /\ (t.high = Infinite <=> u.high = Infinite)

LEMMA SameIsTransitive ==
  ASSUME NEW t, NEW u, NEW v, Same(t, u), Same(u, v)
  PROVE  Same(t, v)
BY DEF Same

\* A canonical range is read again as it is.
LEMMA CanonicalIsRead ==
  ASSUME NEW r, Canonical(r)
  PROVE  IsText(r) /\ IsInt4Range(r)
<1>1. CASE r = EmptyText
  BY <1>1, FieldsOfTexts DEF IsText, IsInt4Range
<1>2. ASSUME NEW a, NEW b, NEW ai, NEW bi, r = RangeText(a, b, ai, bi), LowerCut(a, ai), UpperCut(b, bi)
      PROVE  IsText(r) /\ IsInt4Range(r)
  <2>1. r.low = a /\ r.high = b /\ r.lowInc = ai /\ r.highInc = bi
    BY <1>2, FieldsOfTexts
  <2>2. a \in Int \cup {Infinite} /\ b \in Int \cup {Infinite} /\ ai \in BOOLEAN /\ bi \in BOOLEAN
    BY <1>2 DEF LowerCut, UpperCut
  <2>3. {a, b} \cap NoNumbers = {}
    BY <2>2, RangeAssumption
  <2>4. (ai \/ a # MaxValue) /\ (bi => b # MaxValue)
    BY <1>2, RangeAssumption DEF LowerCut, UpperCut
  <2> QED
    BY <1>2, <2>1, <2>2, <2>3, <2>4 DEF IsText, IsInt4Range
<1> QED
  BY <1>1, <1>2 DEF Canonical

\* A proper canonical range has points, and its bounds are the least of them
\* and the one after the greatest.
LEMMA BoundsArePoints ==
  ASSUME NEW r, Canonical(r), ~r.empty
  PROVE  /\ \E p \in Int : InRange(p, r)
         /\ r.low # Infinite =>
              r.low \in Int /\ InRange(r.low, r) /\ \A p \in Int : InRange(p, r) => r.low <= p
         /\ r.high # Infinite =>
              r.high \in Int /\ InRange(r.high - 1, r) /\ \A p \in Int : InRange(p, r) => p < r.high
<1>1. PICK a, b, ai, bi : r = RangeText(a, b, ai, bi) /\ LowerCut(a, ai) /\ UpperCut(b, bi) /\ Cross(a, b)
  BY FieldsOfTexts DEF Canonical
<1>2. r.low = a /\ r.high = b /\ \A p : InRange(p, r) <=> Above(p, a, ai) /\ Under(p, b, bi)
  BY <1>1, FieldsOfTexts, PointsOfText
<1>3. a \in Int \cup {Infinite} /\ b \in Int \cup {Infinite} /\ Infinite \notin Int
  BY <1>1, RangeAssumption DEF LowerCut, UpperCut
<1>4. \E p \in Int : InRange(p, r)
  BY <1>1, <1>2, CrossingCuts
<1>5. ASSUME a # Infinite
      PROVE  a \in Int /\ Above(a, a, ai) /\ Under(a, b, bi) /\ \A p \in Int : Above(p, a, ai) => a <= p
  BY <1>1, <1>3, <1>5 DEF LowerCut, Cross, Above, Under
<1>6. ASSUME b # Infinite
      PROVE  b \in Int /\ Above(b - 1, a, ai) /\ Under(b - 1, b, bi) /\ \A p \in Int : Under(p, b, bi) => p < b
  <2>1. b \in Int /\ b - 1 \in Int /\ Under(b - 1, b, bi)
    BY <1>3, <1>6 DEF Under
  <2>2. Above(b - 1, a, ai)
    BY <1>1, <1>3, <1>6 DEF LowerCut, Cross, Above
  <2>3. \A p \in Int : Under(p, b, bi) => p < b
    BY <1>1, <1>3, <1>6 DEF UpperCut, Under
  <2> QED
    BY <2>1, <2>2, <2>3
<1> QED
  BY <1>2, <1>4, <1>5, <1>6

LEMMA RaisingKeepsPoints ==
  ASSUME NEW t, IsText(t), ~t.empty, IsInt4Range(t)
  PROVE  /\ \E a, b, ai, bi : Discrete(t) = RangeText(a, b, ai, bi) /\ LowerCut(a, ai) /\ UpperCut(b, bi)
         /\ Same(Discrete(t), t)
<1>1. PICK a \in Int \cup {Infinite}, b \in Int \cup {Infinite}, ai \in BOOLEAN, bi \in BOOLEAN :
        t = RangeText(a, b, ai, bi)
  BY FieldsOfTexts DEF IsText
<1>2. t.low = a /\ t.high = b /\ t.lowInc = ai /\ t.highInc = bi /\ Infinite \notin Int
  BY <1>1, FieldsOfTexts, RangeAssumption
<1> DEFINE c  == IF ~ai /\ a # Infinite THEN a + 1 ELSE a
           d  == IF bi /\ b # Infinite THEN b + 1 ELSE b
           ci == ai \/ (~ai /\ a # Infinite)
           di == bi /\ ~(bi /\ b # Infinite)
<1>3. (~ai /\ a # Infinite => Increment(a) = a + 1) /\ (bi /\ b # Infinite => Increment(b) = b + 1)
  BY <1>2, RangeAssumption DEF IsInt4Range, Increment
<1>4. Discrete(t) = RangeText(c, d, ci, di)
  BY <1>2, <1>3 DEF Discrete
<1>5. c \in Int \cup {Infinite} /\ d \in Int \cup {Infinite} /\ ci \in BOOLEAN /\ di \in BOOLEAN
  BY <1>2
<1>6. (c # Infinite => ci) /\ (d # Infinite => ~di)
  BY <1>2
<1>7. LowerCut(c, ci) /\ UpperCut(d, di)
  BY <1>5, <1>6 DEF LowerCut, UpperCut
<1>8. (c = Infinite <=> a = Infinite) /\ (d = Infinite <=> b = Infinite)
  BY <1>2
<1>9. \A p \in Int : (Above(p, c, ci) <=> Above(p, a, ai)) /\ (Under(p, d, di) <=> Under(p, b, bi))
  <2> TAKE p \in Int
  <2>1. Above(p, c, ci) <=> Above(p, a, ai)
    BY <1>2 DEF Above
  <2>2. Under(p, d, di) <=> Under(p, b, bi)
    BY <1>2 DEF Under
  <2> QED
    BY <2>1, <2>2
<1> HIDE DEF c, d, ci, di
<1>10. \A p : InRange(p, Discrete(t)) <=> Above(p, c, ci) /\ Under(p, d, di)
  BY <1>4, PointsOfText
<1>11. \A p : InRange(p, t) <=> Above(p, a, ai) /\ Under(p, b, bi)
  BY <1>1, PointsOfText
<1>12. Discrete(t).low = c /\ Discrete(t).high = d
  BY <1>4, FieldsOfTexts
<1> QED
  BY <1>2, <1>4, <1>7, <1>8, <1>9, <1>10, <1>11, <1>12 DEF Same

LEMMA ParsingKeepsPoints ==
  ASSUME NEW t, IsText(t), IsInt4Range(t)
  PROVE  Canonical(Parse(t)) /\ Same(Parse(t), t)
<1>1. CASE t.empty
  <2>1. t = EmptyText
    BY <1>1, FieldsOfTexts DEF IsText
  <2> QED
    BY <1>1, <2>1 DEF Parse, Canonical, Same
<1>2. CASE ~t.empty
  <2> DEFINE r == Discrete(t)
  <2>1. PICK a, b, ai, bi : r = RangeText(a, b, ai, bi) /\ LowerCut(a, ai) /\ UpperCut(b, bi)
    BY <1>2, RaisingKeepsPoints
  <2>2. Same(r, t) /\ Parse(t) = EmptyIfCrossed(r)
    BY <1>2, RaisingKeepsPoints DEF Parse
  <2> HIDE DEF r
  <2>3. r.low = a /\ r.high = b /\ r.lowInc = ai /\ r.highInc = bi
    BY <2>1, FieldsOfTexts
  <2>4. a \in Int \cup {Infinite} /\ b \in Int \cup {Infinite} /\ (a # Infinite => ai) /\ (b # Infinite => ~bi)
    BY <2>1 DEF LowerCut, UpperCut
  <2>5. (a # Infinite => AsNumber(a) = a) /\ (b # Infinite => AsNumber(b) = b)
    BY <2>4, RangeAssumption DEF AsNumber
  <2>6. EmptyIfCrossed(r) = IF Cross(a, b) THEN r ELSE EmptyText
    BY <2>3, <2>4, <2>5, RangeAssumption DEF EmptyIfCrossed, Cross
  <2>7. CASE Cross(a, b)
    BY <2>1, <2>2, <2>6, <2>7 DEF Canonical
  <2>8. CASE ~Cross(a, b)
    <3>1. \A p \in Int : ~InRange(p, r)
      BY <2>1, <2>8, CrossingCuts, PointsOfText
    <3>2. \A p : ~InRange(p, EmptyText)
      BY FieldsOfTexts DEF InRange
    <3>3. Same(EmptyText, t)
      BY <2>2, <3>1, <3>2 DEF Same
    <3> QED
      BY <2>2, <2>6, <2>8, <3>3 DEF Canonical
  <2> QED
    BY <2>7, <2>8
<1> QED
  BY <1>1, <1>2

-----------------------------------------------------------------------------
(* What the column holds *)

\* The column holds a text that is read as the range the client meant.
ColumnHoldsRange == IsInt4Range(given) => IsText(held) /\ IsInt4Range(held) /\ Same(held, given)

RangeInv == given \in Literals /\ ColumnHoldsRange

LEMMA ParsedRangeIsHeld ==
  ASSUME NEW t, IsText(t), IsInt4Range(t), Same(t, given), held' = Parse(t), UNCHANGED given
  PROVE  ColumnHoldsRange'
BY ParsingKeepsPoints, CanonicalIsRead, SameIsTransitive DEF ColumnHoldsRange

LEMMA ElementsAreTexts == \A e \in RangeElements : e.value \notin NoNumbers => e.value \in Int
<1>1. \A e \in RangeElements : e.value \in BoundTexts
  BY DEF RangeElements
<1>2. \A v \in BoundTexts : v \notin NoNumbers => v \in Int
  BY RangeAssumption
<1> QED
  BY <1>1, <1>2

LEMMA LiteralsAreTexts ==
  ASSUME given \in Literals, IsInt4Range(given)
  PROVE  IsText(given)
<1>1. CASE given = EmptyText
  BY <1>1 DEF IsText
<1>2. ASSUME NEW l \in BoundTexts \cup {Infinite}, NEW h \in BoundTexts \cup {Infinite},
             NEW li \in BOOLEAN, NEW hi \in BOOLEAN, given = RangeText(l, h, li, hi)
      PROVE  IsText(given)
  <2>1. given.low = l /\ given.high = h /\ given.empty = FALSE
    BY <1>2, FieldsOfTexts
  <2>2. l \in Int \cup {Infinite} /\ h \in Int \cup {Infinite}
    BY <2>1, RangeAssumption DEF IsInt4Range
  <2> QED
    BY <1>2, <2>2 DEF IsText
<1> QED
  BY <1>1, <1>2 DEF Literals

LEMMA ColumnKeepsRange == RangeSpec => []RangeInv
<1>1. RangeInit => RangeInv
  BY LiteralsAreTexts DEF RangeInit, RangeInv, ColumnHoldsRange, Same
<1>2. ASSUME RangeInv, [RangeNext]_rangeVars PROVE RangeInv'
  <2> USE DEF RangeInv
  <2>1. given' = given
    BY <1>2 DEF RangeNext, ConstructRange, RebuildRange, rangeVars
  <2>2. CASE ~IsInt4Range(given)
    BY <1>2, <2>1, <2>2 DEF ColumnHoldsRange
  <2>3. ASSUME IsInt4Range(given), ConstructRange PROVE ColumnHoldsRange'
    <3>1. IsText(given) /\ ~given.empty /\ held' = Parse(RangeText(given.low, given.high, given.lowInc, given.highInc))
      BY <1>2, <2>3, LiteralsAreTexts DEF ConstructRange, Int4Range
    <3>2. RangeText(given.low, given.high, given.lowInc, given.highInc) = given
      BY <3>1, FieldsOfTexts DEF IsText
    <3>3. Same(given, given)
      BY DEF Same
    <3> QED
      BY <2>1, <2>3, <3>1, <3>2, <3>3, ParsedRangeIsHeld
  <2>4. ASSUME IsInt4Range(given), RebuildRange PROVE ColumnHoldsRange'
    <3> DEFINE r == Parse(held)
               t == RangeText(r.low, r.high, TRUE, FALSE)
    <3>1. Canonical(r) /\ Same(r, held) /\ Same(held, given)
      BY <1>2, <2>4, ParsingKeepsPoints DEF ColumnHoldsRange
    <3>2. ~r.empty /\ held' = Parse(t)
      BY <2>4 DEF RebuildRange, IsEmpty, Lower, Upper, Int4Range
    <3> HIDE DEF r
    <3>3. PICK a, b, ai, bi : r = RangeText(a, b, ai, bi) /\ LowerCut(a, ai) /\ UpperCut(b, bi) /\ Cross(a, b)
      BY <3>1, <3>2, FieldsOfTexts DEF Canonical
    <3>4. r.low = a /\ r.high = b /\ t = RangeText(a, b, TRUE, FALSE) /\ t.low = a /\ t.high = b
      <4>1. r.low = a /\ r.high = b
        BY <3>3, FieldsOfTexts
      <4>2. t = RangeText(a, b, TRUE, FALSE)
        BY <4>1
      <4>3. RangeText(a, b, TRUE, FALSE).low = a /\ RangeText(a, b, TRUE, FALSE).high = b
        BY DEF RangeText
      <4> HIDE DEF t
      <4> QED
        BY <4>1, <4>2, <4>3
    <3> HIDE DEF t
    <3>5. LowerCut(a, TRUE) /\ UpperCut(b, FALSE)
      BY <3>3 DEF LowerCut, UpperCut
    <3>6. Canonical(t)
      BY <3>3, <3>4, <3>5 DEF Canonical
    <3>7. \A p : (Above(p, a, TRUE) <=> Above(p, a, ai)) /\ (Under(p, b, FALSE) <=> Under(p, b, bi))
      BY <3>3 DEF LowerCut, UpperCut, Above, Under
    <3>8. \A p : (InRange(p, t) <=> Above(p, a, TRUE) /\ Under(p, b, FALSE))
                 /\ (InRange(p, r) <=> Above(p, a, ai) /\ Under(p, b, bi))
      BY <3>3, <3>4, PointsOfText
    <3>9. Same(t, r)
      BY <3>4, <3>7, <3>8 DEF Same
    <3>10. Same(t, given) /\ IsText(t) /\ IsInt4Range(t)
      BY <3>1, <3>6, <3>9, SameIsTransitive, CanonicalIsRead
    <3> QED
      BY <2>1, <3>2, <3>10, ParsedRangeIsHeld
  <2>5. CASE UNCHANGED rangeVars
    BY <1>2, <2>5 DEF ColumnHoldsRange, rangeVars
  <2> QED
    BY <1>2, <2>1, <2>2, <2>3, <2>4, <2>5 DEF RangeNext
<1> QED
  BY <1>1, <1>2, PTL DEF RangeSpec

\* What the registered functions (handler/mod.rs: range_contains, isempty, lower,
\* upper) answer of a range of integers is what its points tell, whatever bounds
\* and brackets the client chose, however often the range has been rebuilt from
\* its own bounds or by its constructor.  An element is asked for as text.
THEOREM RangesKnowTheirPoints == ASSUME Domain = Int PROVE RangeSpec => []RangeKnowsItsPoints
<1>1. ASSUME RangeInv PROVE RangeKnowsItsPoints
  <2> SUFFICES ASSUME IsInt4Range(given) PROVE RangeKnowsItsPoints
    BY DEF RangeKnowsItsPoints
  <2> DEFINE P == Points(given)
             r == Parse(held)
             l == Lower(held)
             u == Upper(held)
  <2>1. Canonical(r) /\ Same(r, given)
    BY <1>1, ParsingKeepsPoints, SameIsTransitive DEF RangeInv, ColumnHoldsRange
  <2>2. l = IF r.empty THEN Infinite ELSE r.low
    BY DEF Lower
  <2>3. u = IF r.empty THEN Infinite ELSE r.high
    BY DEF Upper
  <2>4. IsEmpty(held) <=> r.empty
    BY DEF IsEmpty
  <2>5. \A p : p \in P <=> p \in Int /\ InRange(p, given)
    BY DEF Points
  <2>6. \A e : e.text /\ e.value \notin NoNumbers => (RangeContains(held, e) = "yes" <=> HasElement(r, e.value))
    BY DEF RangeContains, AsNumber
  <2> HIDE DEF r, l, u, P
  <2>7. \A p \in Int : InRange(p, r) <=> InRange(p, given)
    BY <2>1 DEF Same
  <2>8. CASE r.empty
    <3>1. \A p : ~InRange(p, r) /\ ~HasElement(r, p)
      BY <2>8 DEF InRange, HasElement
    <3>2. P = {}
      BY <2>5, <2>7, <3>1
    <3>3. \A e \in RangeElements : e.value \notin NoNumbers => e.value \in Int
      BY ElementsAreTexts
    <3> QED
      BY <2>4, <2>6, <2>7, <2>8, <3>1, <3>2, <3>3 DEF RangeKnowsItsPoints, P
  <2>9. CASE ~r.empty
    <3>1. /\ \E p \in Int : InRange(p, r)
          /\ r.low # Infinite =>
               r.low \in Int /\ InRange(r.low, r) /\ \A p \in Int : InRange(p, r) => r.low <= p
          /\ r.high # Infinite =>
               r.high \in Int /\ InRange(r.high - 1, r) /\ \A p \in Int : InRange(p, r) => p < r.high
      BY <2>1, <2>9, BoundsArePoints
    <3>2. P # {}
      BY <2>5, <2>7, <3>1
    <3>3. (r.low = Infinite <=> given.low = Infinite) /\ (r.high = Infinite <=> given.high = Infinite)
      BY <2>1, <3>1 DEF Same
    <3>4. l # Infinite => l \in P /\ \A p \in P : l <= p
      BY <2>2, <2>5, <2>7, <2>9, <3>1
    <3>5. u # Infinite => u - 1 \in P /\ \A p \in P : p < u
      BY <2>3, <2>5, <2>7, <2>9, <3>1
    <3>6. ASSUME NEW e \in RangeElements, e.text, e.value \notin NoNumbers
          PROVE  RangeContains(held, e) = "yes" <=> InRange(e.value, given)
      <4>1. e.value \in Int
        BY <3>6, ElementsAreTexts
      <4>2. (r.low # Infinite => AsNumber(r.low) = r.low) /\ (r.high # Infinite => AsNumber(r.high) = r.high)
        BY <3>1, RangeAssumption DEF AsNumber
      <4>3. HasElement(r, e.value) <=> InRange(e.value, r)
        BY <2>9, <4>2 DEF HasElement, InRange
      <4> QED
        BY <2>6, <2>7, <3>6, <4>1, <4>3
    <3>7. (l = Infinite <=> given.low = Infinite) /\ (u = Infinite <=> given.high = Infinite)
      BY <2>2, <2>3, <2>9, <3>3
    <3> QED
      BY <2>4, <2>9, <3>2, <3>4, <3>5, <3>6, <3>7 DEF RangeKnowsItsPoints, P, l, u
  <2> QED
    BY <2>8, <2>9
<1> QED
  BY <1>1, ColumnKeepsRange, PTL

-----------------------------------------------------------------------------
(* Boxes *)

\* The points of the axis from a to b.
Interval(a, b) == {p \in Axis : a <= p /\ p <= b}

LEMMA EndsAreOrdered ==
  ASSUME NEW a \in Coordinates, NEW b \in Coordinates
  PROVE  /\ Smaller(a, b) \in Axis /\ Greater(a, b) \in Axis
         /\ Smaller(a, b) <= Greater(a, b)
         /\ {p \in Axis : Between(p, a, b)} = Interval(Smaller(a, b), Greater(a, b))
<1>1. a \in Axis /\ b \in Axis /\ Axis \subseteq Int
  BY BoxAssumption
<1>2. CASE a < b
  <2>1. Smaller(a, b) = a /\ Greater(a, b) = b
    BY <1>2 DEF Smaller, Greater
  <2>2. \A p \in Axis : Between(p, a, b) <=> a <= p /\ p <= b
    BY <1>1, <1>2 DEF Between
  <2>3. {p \in Axis : Between(p, a, b)} = Interval(a, b)
    BY <2>2 DEF Interval
  <2> QED
    BY <1>1, <1>2, <2>1, <2>3
<1>3. CASE ~(a < b)
  <2>1. Smaller(a, b) = b /\ Greater(a, b) = a
    BY <1>3 DEF Smaller, Greater
  <2>2. \A p \in Axis : Between(p, a, b) <=> b <= p /\ p <= a
    BY <1>1, <1>3 DEF Between
  <2>3. {p \in Axis : Between(p, a, b)} = Interval(b, a)
    BY <2>2 DEF Interval
  <2> QED
    BY <1>1, <1>3, <2>1, <2>3
<1> QED
  BY <1>2, <1>3

\* What the ends of two intervals say of their points.
LEMMA IntervalsCompare ==
  ASSUME NEW a \in Axis, NEW b \in Axis, NEW c \in Axis, NEW d \in Axis, a <= b, c <= d
  PROVE  /\ Interval(a, b) \cap Interval(c, d) # {} <=> a <= d /\ c <= b
         /\ Interval(c, d) \subseteq Interval(a, b) <=> a <= c /\ d <= b
         /\ AllLess(Interval(a, b), Interval(c, d)) <=> b < c
<1>1. Axis \subseteq Int
  BY BoxAssumption
<1>2. \A x \in Interval(a, b) : x \in Int /\ a <= x /\ x <= b
  BY <1>1 DEF Interval
<1>3. \A x \in Interval(c, d) : x \in Int /\ c <= x /\ x <= d
  BY <1>1 DEF Interval
<1>4. a \in Interval(a, b) /\ b \in Interval(a, b) /\ c \in Interval(c, d) /\ d \in Interval(c, d)
  BY <1>1 DEF Interval
<1>5. Interval(a, b) \cap Interval(c, d) # {} <=> a <= d /\ c <= b
  <2>1. ASSUME a <= d, c <= b PROVE a \in Interval(c, d) \/ c \in Interval(a, b)
    BY <1>1, <2>1 DEF Interval
  <2>2. ASSUME NEW x \in Interval(a, b) \cap Interval(c, d) PROVE a <= d /\ c <= b
    BY <1>1, <1>2, <1>3
  <2> QED
    BY <1>4, <2>1, <2>2
<1>6. Interval(c, d) \subseteq Interval(a, b) <=> a <= c /\ d <= b
  <2>1. ASSUME a <= c, d <= b, NEW x \in Interval(c, d) PROVE x \in Interval(a, b)
    BY <1>1, <1>3, <2>1 DEF Interval
  <2> QED
    BY <1>2, <1>4, <2>1
<1>7. AllLess(Interval(a, b), Interval(c, d)) <=> b < c
  BY <1>1, <1>2, <1>3, <1>4 DEF AllLess
<1> QED
  BY <1>5, <1>6, <1>7

-----------------------------------------------------------------------------
\* A box is the interval of its corners along each axis.
LEMMA BoxIsIntervals ==
  ASSUME NEW s \in Shapes, IsBox(s), NEW b, b = ParseBox(s)
  PROVE  /\ b.low.x \in Axis /\ b.high.x \in Axis /\ b.low.x <= b.high.x
         /\ b.low.y \in Axis /\ b.high.y \in Axis /\ b.low.y <= b.high.y
         /\ XsOf(s) = Interval(b.low.x, b.high.x)
         /\ YsOf(s) = Interval(b.low.y, b.high.y)
<1>1. PICK x1 \in Coordinates, y1 \in Coordinates, x2 \in Coordinates, y2 \in Coordinates :
        s = BoxText(x1, y1, x2, y2)
  <2>1. \A x \in Coordinates : ~IsBox(PointText(x, x)) /\ ~IsBox(CircleText(x, x, x))
    BY DEF IsBox, PointText, CircleText
  <2> QED
    BY <2>1 DEF Shapes
<1>2. s.numbers = <<x1, y1, x2, y2>>
  BY <1>1 DEF BoxText
<1>3. /\ s.numbers[1] = x1 /\ s.numbers[2] = y1 /\ s.numbers[3] = x2 /\ s.numbers[4] = y2
  BY <1>2
<1>4. /\ b.low.x = Smaller(x1, x2) /\ b.high.x = Greater(x1, x2)
      /\ b.low.y = Smaller(y1, y2) /\ b.high.y = Greater(y1, y2)
  BY <1>3 DEF ParseBox
<1> QED
  BY <1>3, <1>4, EndsAreOrdered DEF XsOf, YsOf

\* For any coordinates, and any axis that has them, the operators on boxes answer
\* from the points of the boxes, whichever corners they are written with.
THEOREM BoxesAreTheirPoints == BoxSpec => []BoxesAnswerAsPoints
<1>1. BoxInit => BoxesAnswerAsPoints
  <2> SUFFICES ASSUME BoxInit, IsBox(shape1), IsBox(shape2)
               PROVE  BoxesAnswerAsPoints
    BY DEF BoxesAnswerAsPoints
  <2>1. shape1 \in Shapes /\ shape2 \in Shapes
    BY DEF BoxInit
  <2>2. PICK b : b = ParseBox(shape1)
    OBVIOUS
  <2>3. PICK c : c = ParseBox(shape2)
    OBVIOUS
  <2>4. /\ b.low.x \in Axis /\ b.high.x \in Axis /\ b.low.x <= b.high.x
        /\ b.low.y \in Axis /\ b.high.y \in Axis /\ b.low.y <= b.high.y
        /\ XsOf(shape1) = Interval(b.low.x, b.high.x)
        /\ YsOf(shape1) = Interval(b.low.y, b.high.y)
    BY <2>1, <2>2, BoxIsIntervals
  <2>5. /\ c.low.x \in Axis /\ c.high.x \in Axis /\ c.low.x <= c.high.x
        /\ c.low.y \in Axis /\ c.high.y \in Axis /\ c.low.y <= c.high.y
        /\ XsOf(shape2) = Interval(c.low.x, c.high.x)
        /\ YsOf(shape2) = Interval(c.low.y, c.high.y)
    BY <2>1, <2>3, BoxIsIntervals
  <2>x. /\ b.low.x \in Axis /\ b.high.x \in Axis /\ b.low.x <= b.high.x
        /\ c.low.x \in Axis /\ c.high.x \in Axis /\ c.low.x <= c.high.x
    BY <2>4, <2>5
  <2>y. /\ b.low.y \in Axis /\ b.high.y \in Axis /\ b.low.y <= b.high.y
        /\ c.low.y \in Axis /\ c.high.y \in Axis /\ c.low.y <= c.high.y
    BY <2>4, <2>5
  <2>6. /\ GeoOverlaps(shape1, shape2) = BoxOverlaps(b, c)
        /\ GeoContains(shape1, shape2) = BoxContains(b, c)
        /\ GeoContained(shape1, shape2) = BoxContains(c, b)
        /\ GeoLeft(shape1, shape2) = BoxLeft(b, c)
        /\ GeoRight(shape1, shape2) = BoxRight(b, c)
        /\ GeoBelow(shape1, shape2) = BoxBelow(b, c)
        /\ GeoAbove(shape1, shape2) = BoxAbove(b, c)
    BY <2>2, <2>3 DEF GeoOverlaps, GeoContains, GeoContained, GeoLeft, GeoRight, GeoBelow, GeoAbove, OnBoxes
  <2>7. Axis \subseteq Int
    BY BoxAssumption
  <2>8. GeoOverlaps(shape1, shape2) <=>
          XsOf(shape1) \cap XsOf(shape2) # {} /\ YsOf(shape1) \cap YsOf(shape2) # {}
    <3>1. Interval(b.low.x, b.high.x) \cap Interval(c.low.x, c.high.x) # {} <=> b.low.x <= c.high.x /\ c.low.x <= b.high.x
      BY ONLY <2>x, IntervalsCompare, SMTT(30)
    <3>2. Interval(b.low.y, b.high.y) \cap Interval(c.low.y, c.high.y) # {} <=> b.low.y <= c.high.y /\ c.low.y <= b.high.y
      BY ONLY <2>y, IntervalsCompare, SMTT(30)
    <3> QED
      BY <2>4, <2>5, <2>6, <2>7, <3>1, <3>2 DEF BoxOverlaps
  <2>9. GeoContains(shape1, shape2) <=> XsOf(shape2) \subseteq XsOf(shape1) /\ YsOf(shape2) \subseteq YsOf(shape1)
    <3>1. Interval(c.low.x, c.high.x) \subseteq Interval(b.low.x, b.high.x) <=> b.low.x <= c.low.x /\ c.high.x <= b.high.x
      BY ONLY <2>x, IntervalsCompare, SMTT(30)
    <3>2. Interval(c.low.y, c.high.y) \subseteq Interval(b.low.y, b.high.y) <=> b.low.y <= c.low.y /\ c.high.y <= b.high.y
      BY ONLY <2>y, IntervalsCompare, SMTT(30)
    <3> QED
      BY <2>4, <2>5, <2>6, <2>7, <3>1, <3>2 DEF BoxContains
  <2>10. GeoContained(shape1, shape2) <=> XsOf(shape1) \subseteq XsOf(shape2) /\ YsOf(shape1) \subseteq YsOf(shape2)
    <3>1. Interval(b.low.x, b.high.x) \subseteq Interval(c.low.x, c.high.x) <=> c.low.x <= b.low.x /\ b.high.x <= c.high.x
      BY ONLY <2>x, IntervalsCompare, SMTT(30)
    <3>2. Interval(b.low.y, b.high.y) \subseteq Interval(c.low.y, c.high.y) <=> c.low.y <= b.low.y /\ b.high.y <= c.high.y
      BY ONLY <2>y, IntervalsCompare, SMTT(30)
    <3> QED
      BY <2>4, <2>5, <2>6, <2>7, <3>1, <3>2 DEF BoxContains
  <2>11. GeoLeft(shape1, shape2) <=> AllLess(XsOf(shape1), XsOf(shape2))
    <3>1. AllLess(Interval(b.low.x, b.high.x), Interval(c.low.x, c.high.x)) <=> b.high.x < c.low.x
      BY ONLY <2>x, IntervalsCompare, SMTT(30)
    <3> QED
      BY <2>4, <2>5, <2>6, <2>7, <3>1 DEF BoxLeft
  <2>12. GeoRight(shape1, shape2) <=> AllLess(XsOf(shape2), XsOf(shape1))
    <3>1. AllLess(Interval(c.low.x, c.high.x), Interval(b.low.x, b.high.x)) <=> c.high.x < b.low.x
      BY ONLY <2>x, IntervalsCompare, SMTT(30)
    <3> QED
      BY <2>4, <2>5, <2>6, <2>7, <3>1 DEF BoxRight
  <2>13. GeoBelow(shape1, shape2) <=> AllLess(YsOf(shape1), YsOf(shape2))
    <3>1. AllLess(Interval(b.low.y, b.high.y), Interval(c.low.y, c.high.y)) <=> b.high.y < c.low.y
      BY ONLY <2>y, IntervalsCompare, SMTT(30)
    <3> QED
      BY <2>4, <2>5, <2>6, <2>7, <3>1 DEF BoxBelow
  <2>14. GeoAbove(shape1, shape2) <=> AllLess(YsOf(shape2), YsOf(shape1))
    <3>1. AllLess(Interval(c.low.y, c.high.y), Interval(b.low.y, b.high.y)) <=> c.high.y < b.low.y
      BY ONLY <2>y, IntervalsCompare, SMTT(30)
    <3> QED
      BY <2>4, <2>5, <2>6, <2>7, <3>1 DEF BoxAbove
  <2> QED
    BY <2>8, <2>9, <2>10, <2>11, <2>12, <2>13, <2>14 DEF BoxesAnswerAsPoints
<1>2. BoxesAnswerAsPoints /\ [UNCHANGED boxVars]_boxVars => BoxesAnswerAsPoints'
  <2> SUFFICES ASSUME BoxesAnswerAsPoints, UNCHANGED boxVars PROVE BoxesAnswerAsPoints'
    OBVIOUS
  <2>1. shape1' = shape1 /\ shape2' = shape2
    BY DEF boxVars
  <2> QED
    BY <2>1 DEF BoxesAnswerAsPoints
<1> QED
  BY <1>1, <1>2, PTL DEF BoxSpec

-----------------------------------------------------------------------------
(* Roles *)

Pair == Relations \X Privileges

RowType == [relation : Relations, privilege : Privileges, grantee : Nat]

RoleTypes ==
  /\ oid \in [RoleNames -> Nat]
  /\ nextOid \in Nat
  /\ acl \subseteq RowType
  /\ granted \in [RoleNames -> SUBSET Pair]
  /\ lost \subseteq RoleNames /\ kept \subseteq RoleNames

\* Numbers still to be given are larger than any that a role or a row has.
NumbersAreFresh ==
  /\ nextOid > FirstOid
  /\ \A n \in RoleNames : oid[n] < nextOid
  /\ \A a \in acl : a.grantee < nextOid

\* Roles that exist have different numbers, and only postgres may have the first.
NumbersDiffer ==
  /\ \A m, n \in RoleNames : Exists(m) /\ oid[m] = oid[n] => m = n
  /\ \A n \in RoleNames \ {"postgres"} : Exists(n) => oid[n] > FirstOid

\* The rows of a role are what was granted to it, where nothing was lost or kept.
RowsMatch(n) ==
  /\ n \notin kept => \A a \in acl : a.grantee = oid[n] => <<a.relation, a.privilege>> \in granted[n]
  /\ n \notin lost => \A p \in granted[n] :
                        [relation |-> p[1], privilege |-> p[2], grantee |-> oid[n]] \in acl

RoleInv ==
  /\ RoleTypes
  /\ NumbersAreFresh
  /\ NumbersDiffer
  /\ \A n \in RoleNames \ {"postgres"} : Exists(n) => RowsMatch(n)

-----------------------------------------------------------------------------
\* A set of pairs is made of the pairs.
LEMMA PairsAreGranted ==
  ASSUME RoleInv, NEW n \in RoleNames \ {"postgres"}, Exists(n)
  PROVE  /\ n \notin kept => GrantedTo(n) \subseteq granted[n]
         /\ n \notin lost => granted[n] \subseteq GrantedTo(n)
<1>1. RoleTypes /\ RowsMatch(n)
  BY DEF RoleInv
<1>2. ASSUME n \notin kept PROVE GrantedTo(n) \subseteq granted[n]
  BY <1>1, <1>2 DEF GrantedTo, RowsMatch
<1>3. ASSUME n \notin lost PROVE granted[n] \subseteq GrantedTo(n)
  <2> SUFFICES ASSUME NEW p \in granted[n] PROVE p \in GrantedTo(n)
    OBVIOUS
  <2>1. p \in Pair
    BY <1>1 DEF RoleTypes
  <2>2. p = <<p[1], p[2]>>
    BY <2>1 DEF Pair
  <2> DEFINE a == [relation |-> p[1], privilege |-> p[2], grantee |-> oid[n]]
  <2>3. a \in acl
    BY <1>1, <1>3 DEF RowsMatch
  <2>4. a.grantee = oid[n] /\ <<a.relation, a.privilege>> = p
    BY <2>2
  <2> QED
    BY <2>3, <2>4 DEF GrantedTo
<1> QED
  BY <1>2, <1>3

LEMMA InitRoles == RoleInit => RoleInv
<1> SUFFICES ASSUME RoleInit PROVE RoleInv
  OBVIOUS
<1>1. RoleTypes
  <2>1. oid \in [RoleNames -> Nat]
    BY DEF RoleInit, FirstOid
  <2>2. granted \in [RoleNames -> SUBSET Pair]
    BY DEF RoleInit
  <2>3. acl \subseteq RowType /\ lost \subseteq RoleNames /\ kept \subseteq RoleNames
    BY DEF RoleInit
  <2>4. nextOid \in Nat
    BY DEF RoleInit, FirstOid
  <2> QED
    BY <2>1, <2>2, <2>3, <2>4 DEF RoleTypes
<1>2. NumbersAreFresh
  BY DEF RoleInit, NumbersAreFresh, FirstOid
<1>3. NumbersDiffer
  BY RolesAssumption DEF RoleInit, NumbersDiffer, Exists, FirstOid
<1>4. \A n \in RoleNames \ {"postgres"} : ~Exists(n)
  BY DEF RoleInit, Exists
<1> QED
  BY <1>1, <1>2, <1>3, <1>4 DEF RoleInv

-----------------------------------------------------------------------------
LEMMA MakeRoleKeeps ==
  ASSUME RoleInv, NEW m \in RoleNames, MakeRole(m)
  PROVE  RoleInv'
<1> USE DEF RoleInv
<1>1. /\ oid' = [oid EXCEPT ![m] = nextOid] /\ nextOid' = nextOid + 1 /\ nextOid \in Nat
      /\ granted' = [granted EXCEPT ![m] = {}] /\ acl' = acl
      /\ lost' = lost \ {m} /\ kept' = kept \ {m}
  BY DEF MakeRole, NewOid, RoleTypes
<1>2. RoleTypes'
  BY <1>1 DEF RoleTypes
<1>3. NumbersAreFresh'
  BY <1>1 DEF NumbersAreFresh, RoleTypes, RowType, FirstOid
<1>4. NumbersDiffer'
  <2>1. ASSUME NEW k \in RoleNames, NEW n \in RoleNames, Exists(k)', oid'[k] = oid'[n] PROVE k = n
    BY <1>1, <2>1 DEF NumbersAreFresh, NumbersDiffer, RoleTypes, Exists
  <2>2. ASSUME NEW n \in RoleNames \ {"postgres"}, Exists(n)' PROVE oid'[n] > FirstOid
    BY <1>1, <2>2 DEF NumbersAreFresh, NumbersDiffer, RoleTypes, Exists, FirstOid
  <2> QED
    BY <2>1, <2>2 DEF NumbersDiffer, Exists
<1>5. ASSUME NEW n \in RoleNames \ {"postgres"}, Exists(n)' PROVE RowsMatch(n)'
  <2>1. CASE n = m
    BY <1>1, <2>1 DEF RowsMatch, NumbersAreFresh, RoleTypes, RowType
  <2>2. CASE n # m
    BY <1>1, <1>5, <2>2 DEF RowsMatch, RoleTypes, Exists
  <2> QED
    BY <2>1, <2>2
<1> QED
  BY <1>2, <1>3, <1>4, <1>5

LEMMA DropRoleKeeps ==
  ASSUME RoleInv, NEW ns \in SUBSET RoleNames, DropRole(ns)
  PROVE  RoleInv'
<1> USE DEF RoleInv
<1>1. /\ oid' = [n \in RoleNames |-> IF n \in ns THEN 0 ELSE oid[n]]
      /\ granted' = [n \in RoleNames |-> IF n \in ns THEN {} ELSE granted[n]]
      /\ nextOid' = nextOid /\ acl' = acl /\ lost' = lost /\ kept' = kept
  BY DEF DropRole
<1>2. RoleTypes'
  <2>1. oid' \in [RoleNames -> Nat]
    BY <1>1 DEF RoleTypes
  <2>2. granted' \in [RoleNames -> SUBSET Pair]
    BY <1>1 DEF RoleTypes
  <2> QED
    BY <1>1, <2>1, <2>2 DEF RoleTypes
<1>3. NumbersAreFresh'
  BY <1>1 DEF NumbersAreFresh, RoleTypes, FirstOid
<1>4. \A n \in RoleNames : Exists(n)' => Exists(n) /\ oid'[n] = oid[n] /\ granted'[n] = granted[n]
  BY <1>1 DEF Exists
<1>5. NumbersDiffer'
  <2>1. ASSUME NEW k \in RoleNames, NEW n \in RoleNames, Exists(k)', oid'[k] = oid'[n] PROVE k = n
    <3>1. Exists(n)'
      BY <2>1 DEF Exists
    <3> QED
      BY <1>4, <2>1, <3>1 DEF NumbersDiffer
  <2> QED
    BY <1>4, <2>1 DEF NumbersDiffer
<1>6. ASSUME NEW n \in RoleNames \ {"postgres"}, Exists(n)' PROVE RowsMatch(n)'
  BY <1>1, <1>4, <1>6 DEF RowsMatch
<1> QED
  BY <1>2, <1>3, <1>5, <1>6

LEMMA RestartKeeps ==
  ASSUME RoleInv, Restart
  PROVE  RoleInv'
<1> USE DEF RoleInv
<1>1. /\ oid' = [oid EXCEPT !["postgres"] = FirstOid] /\ "postgres" \in RoleNames
      /\ nextOid' = nextOid /\ acl' = acl
      /\ granted' = granted /\ lost' = lost /\ kept' = kept
  BY RolesAssumption DEF Restart
<1>2. RoleTypes'
  BY <1>1 DEF RoleTypes, FirstOid
<1>3. NumbersAreFresh'
  BY <1>1 DEF NumbersAreFresh, RoleTypes, FirstOid
<1>4. \A n \in RoleNames \ {"postgres"} : oid'[n] = oid[n]
  BY <1>1 DEF RoleTypes
<1>5. NumbersDiffer'
  <2>1. ASSUME NEW n \in RoleNames \ {"postgres"}, Exists(n)' PROVE oid'[n] > FirstOid
    BY <1>4, <2>1 DEF NumbersDiffer, Exists
  <2>2. oid'["postgres"] = FirstOid /\ FirstOid \in Nat
    BY <1>1 DEF RoleTypes, FirstOid
  <2>3. ASSUME NEW k \in RoleNames, NEW n \in RoleNames, Exists(k)', oid'[k] = oid'[n] PROVE k = n
    <3>1. Exists(n)'
      BY <2>3 DEF Exists
    <3>2. CASE k # "postgres" /\ n # "postgres"
      BY <1>4, <2>3, <3>2 DEF NumbersDiffer, Exists
    <3>3. CASE k = "postgres" \/ n = "postgres"
      BY <2>1, <2>2, <2>3, <3>1, <3>3
    <3> QED
      BY <3>2, <3>3
  <2> QED
    BY <2>1, <2>3 DEF NumbersDiffer
<1>6. ASSUME NEW n \in RoleNames \ {"postgres"}, Exists(n)' PROVE RowsMatch(n)'
  BY <1>1, <1>4, <1>6 DEF RowsMatch, Exists
<1> QED
  BY <1>2, <1>3, <1>5, <1>6

\* What a statement lists is part of what it speaks of.
LEMMA PairsAreMeant ==
  ASSUME NEW g \in Grants
  PROVE  Pairs(g) \subseteq Meaning(g) /\ Meaning(g) \subseteq Pair
<1>1. g.objects \in Seq(Relations) /\ g.privileges \in Seq(Privileges)
  BY RolesAssumption
<1> DEFINE os == {g.objects[i] : i \in DOMAIN g.objects}
           ps == {g.privileges[i] : i \in DOMAIN g.privileges}
           mo == IF g.objects = <<>> THEN Relations ELSE os
           mp == IF g.privileges = <<>> THEN Privileges ELSE ps
<1>2. os \subseteq Relations /\ ps \subseteq Privileges
  BY <1>1
<1>3. g.objects = <<>> => os = {}
  OBVIOUS
<1>4. g.privileges = <<>> => ps = {}
  OBVIOUS
<1>5. Pairs(g) = os \X ps /\ Meaning(g) = mo \X mp
  BY DEF Pairs, Meaning
<1> HIDE DEF os, ps
<1> QED
  BY <1>2, <1>3, <1>4, <1>5 DEF Pair

LEMMA GrantKeeps ==
  ASSUME RoleInv, NEW g \in Grants, Grant(g)
  PROVE  RoleInv'
<1> USE DEF RoleInv
<1> DEFINE Lists == g.objects # <<>> /\ g.privileges # <<>> /\ g.grantees # <<>>
<1>1. /\ g.objects \in Seq(Relations) /\ g.privileges \in Seq(Privileges) /\ g.grantees \in Seq(Grantees)
      /\ Pairs(g) \subseteq Meaning(g) /\ Meaning(g) \subseteq Pair
  BY RolesAssumption, PairsAreMeant
<1>2. PICK row : row = [relation |-> g.objects[1], privilege |-> g.privileges[1],
                        grantee |-> GranteeOid(g.grantees[1])]
  OBVIOUS
<1>3. /\ Lists => acl' = acl \cup {row}
      /\ ~Lists => acl' = acl
      /\ oid' = oid /\ nextOid' = nextOid /\ kept' = kept
  BY <1>2 DEF Grant
<1>4. ASSUME Lists PROVE row \in RowType /\ row.grantee < nextOid
  <2>1. g.objects[1] \in Relations /\ g.privileges[1] \in Privileges /\ g.grantees[1] \in Grantees
    BY <1>1, <1>4
  <2>2. GranteeOid(g.grantees[1]) \in Nat /\ GranteeOid(g.grantees[1]) < nextOid
    BY <2>1 DEF GranteeOid, RoleTypes, NumbersAreFresh, FirstOid
  <2> QED
    BY <1>2, <2>1, <2>2 DEF RowType
<1>6. \A n \in RoleNames : granted'[n] = IF n \in Named(g) /\ Exists(n) THEN granted[n] \cup Meaning(g) ELSE granted[n]
  BY DEF Grant
<1>7. granted' \in [RoleNames -> SUBSET Pair]
  <2>1. granted' = [n \in RoleNames |-> IF n \in Named(g) /\ Exists(n) THEN granted[n] \cup Meaning(g) ELSE granted[n]]
    BY DEF Grant
  <2>2. \A n \in RoleNames : granted[n] \cup Meaning(g) \in SUBSET Pair /\ granted[n] \in SUBSET Pair
    BY <1>1 DEF RoleTypes
  <2> QED
    BY <2>1, <2>2
<1>8. lost' \subseteq RoleNames
  BY DEF Grant, RoleTypes
<1> HIDE DEF Lists
<1>9. RoleTypes'
  BY <1>3, <1>4, <1>7, <1>8 DEF RoleTypes
<1>10. NumbersAreFresh'
  BY <1>3, <1>4 DEF NumbersAreFresh
<1>11. NumbersDiffer'
  BY <1>3 DEF NumbersDiffer, Exists
<1>12. ASSUME NEW n \in RoleNames \ {"postgres"}, Exists(n)' PROVE RowsMatch(n)'
  <2>1. Exists(n) /\ oid[n] > FirstOid /\ RowsMatch(n)
    BY <1>3, <1>12 DEF Exists, NumbersDiffer
  <2>2. ASSUME n \notin kept', NEW a \in acl', a.grantee = oid'[n]
        PROVE  <<a.relation, a.privilege>> \in granted'[n]
    <3>1. CASE a \in acl
      BY <1>3, <1>6, <2>1, <2>2, <3>1 DEF RowsMatch
    <3>2. CASE a = row /\ Lists
      <4>1. GranteeOid(g.grantees[1]) = oid[n] /\ oid[n] # 0
        BY <1>2, <1>3, <2>1, <2>2, <3>2 DEF Exists
      <4>2. g.grantees[1] = n
        BY <2>1, <4>1 DEF GranteeOid, NumbersDiffer
      <4>3. n \in Named(g)
        BY <1>1, <3>2, <4>2 DEF Named, Lists
      <4>4. <<a.relation, a.privilege>> \in Pairs(g)
        <5>1. 1 \in DOMAIN g.objects /\ 1 \in DOMAIN g.privileges
          BY <1>1, <3>2 DEF Lists
        <5>2. <<g.objects[1], g.privileges[1]>> \in Pairs(g)
          BY <5>1 DEF Pairs
        <5> QED
          BY <1>2, <3>2, <5>2
      <4> QED
        BY <1>1, <1>6, <2>1, <4>3, <4>4
    <3> QED
      BY <1>3, <2>2, <3>1, <3>2
  <2>3. ASSUME n \notin lost', NEW p \in granted'[n]
        PROVE  [relation |-> p[1], privilege |-> p[2], grantee |-> oid'[n]] \in acl'
    <3>1. n \notin lost /\ (NamesOne(g) \/ n \notin Named(g))
      BY <2>3 DEF Grant
    <3>3. CASE p \in granted[n]
      BY <1>3, <2>1, <3>1, <3>3 DEF RowsMatch
    <3>4. CASE p \notin granted[n]
      <4>1. n \in Named(g) /\ p \in Meaning(g)
        BY <1>6, <2>3, <3>4
      <4>2. Len(g.objects) = 1 /\ Len(g.privileges) = 1 /\ Len(g.grantees) = 1
        BY <3>1, <4>1 DEF NamesOne
      <4>3. DOMAIN g.objects = {1} /\ DOMAIN g.privileges = {1} /\ DOMAIN g.grantees = {1}
        BY <1>1, <4>2
      <4>4. Lists
        <5>1. Len(<<>>) = 0 /\ 0 # 1
          OBVIOUS
        <5> QED
          BY <4>2, <5>1, Zenon DEF Lists
      <4>5. g.grantees[1] = n
        BY <4>1, <4>3 DEF Named
      <4>6. p = <<g.objects[1], g.privileges[1]>>
        BY <4>1, <4>3, <4>4 DEF Meaning, Lists
      <4>7. GranteeOid(g.grantees[1]) = oid[n]
        BY <4>5 DEF GranteeOid
      <4> QED
        BY <1>2, <1>3, <4>4, <4>6, <4>7
    <3> QED
      BY <3>3, <3>4
  <2> QED
    BY <2>2, <2>3 DEF RowsMatch
<1> QED
  BY <1>9, <1>10, <1>11, <1>12

LEMMA RevokeKeeps ==
  ASSUME RoleInv, NEW g \in Grants, Revoke(g)
  PROVE  RoleInv'
<1> USE DEF RoleInv
<1>1. /\ oid' = oid /\ nextOid' = nextOid /\ lost' = lost
      /\ acl' = {a \in acl : ~(/\ <<a.relation, a.privilege>> \in Pairs(g)
                              /\ \E n \in Named(g) \cap RoleNames : Exists(n) /\ oid[n] = a.grantee)}
      /\ granted' = [n \in RoleNames |-> IF n \in Named(g) THEN granted[n] \ Meaning(g) ELSE granted[n]]
      /\ kept' = IF Pairs(g) = Meaning(g) THEN kept ELSE kept \cup (Named(g) \cap RoleNames)
  BY DEF Revoke
<1>6. Pairs(g) \subseteq Meaning(g)
  BY PairsAreMeant
<1>2. RoleTypes'
  <2>1. granted' \in [RoleNames -> SUBSET Pair]
    BY <1>1 DEF RoleTypes
  <2>2. kept' \subseteq RoleNames
    BY <1>1 DEF RoleTypes
  <2> QED
    BY <1>1, <2>1, <2>2 DEF RoleTypes
<1>3. NumbersAreFresh'
  BY <1>1 DEF NumbersAreFresh
<1>4. NumbersDiffer'
  BY <1>1 DEF NumbersDiffer, Exists
<1>5. ASSUME NEW n \in RoleNames \ {"postgres"}, Exists(n)' PROVE RowsMatch(n)'
  <2>1. Exists(n) /\ RowsMatch(n)
    BY <1>1, <1>5 DEF Exists
  <2>2. ASSUME n \notin kept', NEW a \in acl', a.grantee = oid'[n]
        PROVE  <<a.relation, a.privilege>> \in granted'[n]
    <3>0. n \notin kept /\ (n \in Named(g) => Pairs(g) = Meaning(g))
      BY <1>1, <2>2
    <3>1. a \in acl /\ <<a.relation, a.privilege>> \in granted[n]
      BY <1>1, <2>1, <2>2, <3>0 DEF RowsMatch
    <3>2. n \in Named(g) => <<a.relation, a.privilege>> \notin Pairs(g)
      BY <1>1, <2>1, <2>2
    <3> QED
      BY <1>1, <3>0, <3>1, <3>2
  <2>3. ASSUME n \notin lost', NEW p \in granted'[n]
        PROVE  [relation |-> p[1], privilege |-> p[2], grantee |-> oid'[n]] \in acl'
    <3>1. PICK a : a = [relation |-> p[1], privilege |-> p[2], grantee |-> oid[n]]
      OBVIOUS
    <3>2. p \in granted[n] /\ (n \in Named(g) => p \notin Pairs(g))
      BY <1>1, <1>6, <2>3
    <3>3. a \in acl
      BY <1>1, <2>1, <2>3, <3>1, <3>2 DEF RowsMatch
    <3>4. <<a.relation, a.privilege>> = p
      BY <3>1, <3>2 DEF RoleTypes, Pair
    <3>5. \A m \in Named(g) \cap RoleNames : Exists(m) /\ oid[m] = a.grantee => m = n
      BY <2>1, <3>1 DEF NumbersDiffer
    <3>6. a \in acl'
      BY <1>1, <3>2, <3>3, <3>4, <3>5
    <3> QED
      BY <1>1, <3>1, <3>6
  <2> QED
    BY <2>2, <2>3 DEF RowsMatch
<1> QED
  BY <1>2, <1>3, <1>4, <1>5

-----------------------------------------------------------------------------
LEMMA StepKeeps == RoleInv /\ [RoleNext]_roleVars => RoleInv'
<1> SUFFICES ASSUME RoleInv, [RoleNext]_roleVars PROVE RoleInv'
  OBVIOUS
<1>1. CASE \E n \in RoleNames : MakeRole(n)
  BY <1>1, MakeRoleKeeps
<1>2. CASE \E ns \in SUBSET RoleNames : DropRole(ns)
  BY <1>2, DropRoleKeeps
<1>3. CASE Restart
  BY <1>3, RestartKeeps
<1>4. CASE \E g \in Grants : Grant(g)
  BY <1>4, GrantKeeps
<1>5. CASE \E g \in Grants : Revoke(g)
  BY <1>5, RevokeKeeps
<1>6. CASE UNCHANGED roleVars
  BY <1>6 DEF roleVars, RoleInv, RoleTypes, NumbersAreFresh, NumbersDiffer, RowsMatch, Exists
<1> QED
  BY <1>1, <1>2, <1>3, <1>4, <1>5, <1>6 DEF RoleNext

\* For any names, relations, privileges and grants, a role is recorded to have
\* been granted nothing that a dropped role left and nothing else that was not
\* granted to it, unless what a REVOKE of ALL named was kept, and all that was
\* granted to it, unless a GRANT of several or of ALL lost some.
THEOREM RolesHaveTheirGrants == RoleSpec => []GrantsAreTheRolesOwn
<1>1. RoleSpec => []RoleInv
  BY InitRoles, StepKeeps, PTL DEF RoleSpec
<1>2. RoleInv => GrantsAreTheRolesOwn
  BY PairsAreGranted DEF GrantsAreTheRolesOwn
<1> QED
  BY <1>1, <1>2, PTL

-----------------------------------------------------------------------------
(* Tables *)

HistoryType == [cut : BOOLEAN, columns : Definitions, owner : Users \cup {Nobody}]
CreateType  == [ref : {Created(r) : r \in Refs}, columns : Definitions, owner : Users \cup {Nobody}, next : Nat \ {0}]

\* A CREATE TABLE is under way under the name.
Making(pend, name) == pend # <<>> /\ pend[1].ref.name = name

\* How many columns it has stored.
StoredColumns(p) == IF p.next > Len(p.columns) THEN Len(p.columns) ELSE p.next - 1

\* What it makes of no rows, and of a row for each column: each that is stored
\* moves to the end.
FirstOf(cs, m) == [i \in 1..m |-> cs[i]]
Rotated(cs, m) == [i \in 1..Len(cs) |-> IF i + m <= Len(cs) THEN cs[i + m] ELSE cs[i + m - Len(cs)]]

ObjectsRight(objs) ==
  /\ objs = [i \in DOMAIN objs |-> objs[i]]
  /\ DOMAIN objs \subseteq Nat
  /\ \E b \in Nat : \A i \in DOMAIN objs : i <= b
  /\ \A i \in DOMAIN objs : objs[i].kind = "table" /\ objs[i].name # Sequence => objs[i].name \in TableNames
  /\ \A i, j \in DOMAIN objs : objs[i].name = objs[j].name /\ objs[i].name # Sequence => i = j

MetaRight(mt, ow, hist, pend) ==
  \A n \in TableNames :
    /\ hist[n] = {} => mt[n] = IF Making(pend, n) THEN FirstOf(pend[1].columns, StoredColumns(pend[1])) ELSE <<>>
    /\ \A h \in hist[n] :
         hist[n] = {h} /\ ~h.cut =>
           IF Making(pend, n) THEN pend[1].columns = h.columns => mt[n] = Rotated(h.columns, StoredColumns(pend[1]))
           ELSE mt[n] = h.columns /\ ow[n] = h.owner
    /\ Making(pend, n) /\ pend[1].next >= Len(pend[1].columns) + 2 => ow[n] = pend[1].owner

\* The table is one of those the catalog must have right.
Complete(o, hist) == o.kind = "table" /\ o.name # Sequence /\ \A h \in hist[o.name] : ~h.cut

\* No CREATE TABLE was cut off: the keys of all tables are there.
NoneCut(hist) == \A n \in TableNames : \A h \in hist[n] : ~h.cut

AttributesRight(objs, attrs, hist, pend) ==
  \A i \in DOMAIN objs :
    Complete(objs[i], hist) /\ ~(Making(pend, objs[i].name) /\ pend[1].next <= Len(pend[1].columns) + 2) =>
      {a \in attrs : a.table = i} = AttributeRows(i, objs[i].columns)

KeysRight(objs, keys, hist, pend) ==
  NoneCut(hist) =>
    \A i \in DOMAIN objs :
      Complete(objs[i], hist) /\ ~Making(pend, objs[i].name) => {k \in keys : k.table = i} = KeyRows(i, objs[i].columns)

DatabaseRight(objs, mt, ow, attrs, keys, hist, pend) ==
  /\ mt \in [TableNames -> Seq(ColumnType)]
  /\ ow \in [TableNames -> Users \cup {Nobody}]
  /\ hist \in [TableNames -> SUBSET HistoryType]
  /\ ObjectsRight(objs)
  /\ MetaRight(mt, ow, hist, pend)
  /\ AttributesRight(objs, attrs, hist, pend)
  /\ KeysRight(objs, keys, hist, pend)

PendingRight(pend) ==
  pend # <<>> =>
    pend = <<pend[1]>> /\ pend[1] \in CreateType /\ pend[1].next <= Len(pend[1].columns) + 4

CatalogInv ==
  /\ PendingRight(pending)
  /\ DatabaseRight(objects, meta, owners, attributes, keyRows, history, pending)
  /\ InBlock => DatabaseRight(saved[1], saved[3], saved[4], saved[5], saved[7], saved[8], <<>>)

-----------------------------------------------------------------------------
\* The number of a new row is larger than any there is.
LEMMA NextRowIsNew ==
  ASSUME NEW objs, ObjectsRight(objs)
  PROVE  NextRow(objs) \in Nat /\ \A i \in DOMAIN objs : i < NextRow(objs)
<1> DEFINE D == {0} \cup DOMAIN objs
           Over == {b \in Nat : \A i \in D : i <= b}
<1>1. D \subseteq Nat /\ Over # {}
  BY DEF ObjectsRight
<1>2. PICK m \in Over : \A b \in Over : m <= b
  BY <1>1, LeastNat
<1>3. m \in D
  <2> SUFFICES ASSUME m \notin D PROVE FALSE
    OBVIOUS
  <2>1. m > 0 /\ m - 1 \in Nat /\ \A i \in D : i <= m - 1
    BY <1>1, <1>2
  <2> QED
    BY <1>2, <2>1
<1>4. Max(D) \in D /\ \A i \in D : Max(D) >= i
  BY <1>1, <1>2, <1>3 DEF Max
<1> HIDE DEF D
<1>5. NextRow(objs) = 1 + Max(D)
  BY DEF NextRow, D
<1> QED
  BY <1>1, <1>4, <1>5 DEF D

LEMMA AddObjectIs ==
  ASSUME NEW objs, ObjectsRight(objs), NEW o,
         o.kind = "table" /\ o.name # Sequence => o.name \in TableNames,
         o.name = Sequence \/ \A i \in DOMAIN objs : objs[i].name # o.name
  PROVE  /\ ObjectsRight(AddObject(objs, o))
         /\ \A i \in DOMAIN AddObject(objs, o) :
              \/ i \in DOMAIN objs /\ AddObject(objs, o)[i] = objs[i]
              \/ AddObject(objs, o)[i] = o
<1> DEFINE r    == NextRow(objs)
           more == AddObject(objs, o)
<1>1. r \in Nat /\ \A i \in DOMAIN objs : i < r
  BY NextRowIsNew
<1>2. r \notin DOMAIN objs
  BY <1>1
<1> HIDE DEF r
<1>3. more = [i \in DOMAIN objs \cup {r} |-> IF i \in DOMAIN objs THEN objs[i] ELSE o]
  BY DEF AddObject, r
<1>4. /\ DOMAIN more = DOMAIN objs \cup {r} /\ more[r] = o
      /\ \A i \in DOMAIN objs : more[i] = objs[i]
  BY <1>2, <1>3
<1>5. more = [i \in DOMAIN more |-> more[i]]
  BY <1>3
<1> HIDE DEF more
<1>6. ObjectsRight(more)
  <2>1. DOMAIN more \subseteq Nat /\ \A i \in DOMAIN more : i <= r
    BY <1>1, <1>4 DEF ObjectsRight
  <2>2. ASSUME NEW i \in DOMAIN more, more[i].kind = "table", more[i].name # Sequence
        PROVE  more[i].name \in TableNames
    BY <1>4, <2>2 DEF ObjectsRight
  <2>3. ASSUME NEW i \in DOMAIN more, NEW j \in DOMAIN more, more[i].name = more[j].name, more[i].name # Sequence
        PROVE  i = j
    BY <1>4, <2>3 DEF ObjectsRight
  <2> QED
    BY <1>1, <1>5, <2>1, <2>2, <2>3 DEF ObjectsRight
<1>7. \A i \in DOMAIN more : (i \in DOMAIN objs /\ more[i] = objs[i]) \/ more[i] = o
  BY <1>4
<1> QED
  BY <1>6, <1>7 DEF more

\* Fewer rows are right too, and say the same of what is left.
LEMMA RestrictIs ==
  ASSUME NEW objs, ObjectsRight(objs), NEW S, S \subseteq DOMAIN objs
  PROVE  /\ ObjectsRight(Restrict(objs, S))
         /\ DOMAIN Restrict(objs, S) = S
         /\ \A i \in S : Restrict(objs, S)[i] = objs[i]
<1> DEFINE less == Restrict(objs, S)
<1>1. less = [i \in S |-> objs[i]]
  BY DEF Restrict
<1>2. DOMAIN less = S /\ \A i \in S : less[i] = objs[i]
  BY <1>1
<1>3. less = [i \in DOMAIN less |-> less[i]]
  BY <1>1
<1> HIDE DEF less
<1>4. ObjectsRight(less)
  <2>1. DOMAIN less \subseteq Nat /\ \E b \in Nat : \A i \in DOMAIN less : i <= b
    BY <1>2 DEF ObjectsRight
  <2> QED
    BY <1>2, <1>3, <2>1 DEF ObjectsRight
<1> QED
  BY <1>2, <1>4 DEF less

-----------------------------------------------------------------------------
\* Storing a column moves it to the end of the rows of its table.
LEMMA StoredColumn ==
  ASSUME NEW cs \in Definitions, NEW m \in Nat, m < Len(cs)
  PROVE  /\ ReplaceRow(FirstOf(cs, m), cs[m + 1]) = FirstOf(cs, m + 1)
         /\ ReplaceRow(Rotated(cs, m), cs[m + 1]) = Rotated(cs, m + 1)
<1>1. cs \in Seq(ColumnType) /\ \A i, j \in 1..Len(cs) : cs[i].name = cs[j].name => i = j
  BY CatalogAssumption
<1>2. Len(cs) \in Nat /\ \A i \in 1..Len(cs) : cs[i] \in ColumnType
  BY <1>1
<1> DEFINE c == cs[m + 1]
<1>3. c \in ColumnType
  BY <1>2
<1>4. ReplaceRow(FirstOf(cs, m), c) = FirstOf(cs, m + 1)
  <2> DEFINE rows == FirstOf(cs, m)
  <2>1. rows \in Seq(ColumnType) /\ Len(rows) = m /\ \A i \in 1..m : rows[i] = cs[i]
    BY <1>2 DEF FirstOf
  <2>2. {i \in DOMAIN rows : rows[i].name = c.name} = {}
    BY <1>1, <1>2, <2>1
  <2>3. ReplaceRow(rows, c) = Append(rows, c)
    BY <2>2 DEF ReplaceRow
  <2> HIDE DEF rows
  <2>4. Append(rows, c) = [i \in 1..(m + 1) |-> IF i <= m THEN rows[i] ELSE c]
    BY <1>3, <2>1
  <2>5. Append(rows, c) = [i \in 1..(m + 1) |-> cs[i]]
    BY <2>1, <2>4
  <2> QED
    BY <2>3, <2>5 DEF FirstOf, rows
<1>5. ReplaceRow(Rotated(cs, m), c) = Rotated(cs, m + 1)
  <2> DEFINE rows == Rotated(cs, m)
             n    == Len(cs)
  <2>1. /\ rows \in Seq(ColumnType) /\ Len(rows) = n
        /\ \A i \in 1..n : rows[i] = IF i + m <= n THEN cs[i + m] ELSE cs[i + m - n]
    BY <1>2 DEF Rotated
  <2>2. {i \in DOMAIN rows : rows[i].name = c.name} = {1}
    <3>1. ASSUME NEW i \in 1..n, rows[i].name = c.name PROVE i = 1
      <4>1. CASE i + m <= n
        <5>1. i + m \in 1..n /\ m + 1 \in 1..n /\ cs[i + m].name = cs[m + 1].name
          BY <1>2, <2>1, <3>1, <4>1
        <5> QED
          BY <1>1, <1>2, <5>1
      <4>2. CASE i + m > n
        <5>a. i + m - n \in 1..n /\ m + 1 \in 1..n
          BY <1>2, <3>1, <4>2
        <5>b. rows[i] = cs[i + m - n]
          BY <2>1, <3>1, <4>2
        <5>1. i + m - n \in 1..n /\ m + 1 \in 1..n /\ cs[i + m - n].name = cs[m + 1].name
          BY <3>1, <5>a, <5>b, Zenon
        <5>2. i + m - n = m + 1
          BY <1>1, <1>2, <5>1
        <5> QED
          BY <1>2, <5>2
      <4> QED
        BY <1>2, <4>1, <4>2
    <3>2. 1 \in 1..n /\ rows[1].name = c.name
      BY <1>2, <2>1
    <3>3. DOMAIN rows = 1..n
      BY <2>1
    <3> HIDE DEF rows, n, c
    <3> QED
      BY ONLY <3>1, <3>2, <3>3
  <2> HIDE DEF rows
  <2>3. ReplaceRow(rows, c) = Append(RemoveAt(rows, 1), c)
    <3>1. (CHOOSE i \in {1} : TRUE) = 1
      OBVIOUS
    <3> QED
      BY <2>2, <3>1 DEF ReplaceRow
  <2>4. /\ RemoveAt(rows, 1) \in Seq(ColumnType) /\ Len(RemoveAt(rows, 1)) = n - 1
        /\ \A i \in 1..(n - 1) : RemoveAt(rows, 1)[i] = rows[i + 1]
    BY <1>2, <2>1 DEF RemoveAt
  <2> DEFINE less == RemoveAt(rows, 1)
  <2> HIDE DEF less
  <2>5. /\ Append(less, c) \in Seq(ColumnType) /\ Len(Append(less, c)) = n
        /\ \A i \in 1..n : Append(less, c)[i] = IF i < n THEN less[i] ELSE c
    BY <1>2, <1>3, <2>4 DEF less
  <2>6. \A i \in 1..n : Append(less, c)[i] = IF i + (m + 1) <= n THEN cs[i + (m + 1)] ELSE cs[i + (m + 1) - n]
    <3> SUFFICES ASSUME NEW i \in 1..n
                 PROVE  Append(less, c)[i] = IF i + (m + 1) <= n THEN cs[i + (m + 1)] ELSE cs[i + (m + 1) - n]
      OBVIOUS
    <3>1. CASE i = n
      <4>1. Append(less, c)[i] = c /\ ~(i + (m + 1) <= n) /\ i + (m + 1) - n = m + 1
        BY <1>2, <2>5, <3>1
      <4> QED
        BY <4>1
    <3>2. CASE i < n
      <4>1. Append(less, c)[i] = rows[i + 1]
        BY <1>2, <2>4, <2>5, <3>2, SMTT(30) DEF less
      <4>2. rows[i + 1] = IF (i + 1) + m <= n THEN cs[(i + 1) + m] ELSE cs[(i + 1) + m - n]
        <5>1. i + 1 \in 1..n
          BY <1>2, <3>2
        <5> QED
          BY ONLY <2>1, <5>1, Zenon
      <4>3. (i + 1) + m = i + (m + 1) /\ (i + 1) + m - n = i + (m + 1) - n
        BY <1>2
      <4>4. CASE i + (m + 1) <= n
        BY <4>1, <4>2, <4>3, <4>4
      <4>5. CASE ~(i + (m + 1) <= n)
        BY <4>1, <4>2, <4>3, <4>5
      <4> QED
        BY <4>4, <4>5
    <3>3. i = n \/ i < n
      BY <1>2
    <3> QED
      BY <3>1, <3>2, <3>3, Zenon
  <2>7. Append(less, c) = [i \in 1..n |-> IF i + (m + 1) <= n THEN cs[i + (m + 1)] ELSE cs[i + (m + 1) - n]]
    <3>1. Append(less, c) = [i \in 1..n |-> Append(less, c)[i]]
      BY <1>2, <2>5
    <3> QED
      BY <2>6, <3>1
  <2> QED
    BY <2>3, <2>7 DEF Rotated, rows, less
<1> QED
  BY <1>4, <1>5

\* The first write finds the rows as they are, and the last one leaves them so.
LEMMA RotatedEnds ==
  ASSUME NEW cs \in Definitions
  PROVE  /\ Rotated(cs, 0) = cs /\ Rotated(cs, Len(cs)) = cs
         /\ FirstOf(cs, 0) = <<>> /\ FirstOf(cs, Len(cs)) = cs
<1>1. cs \in Seq(ColumnType) /\ Len(cs) \in Nat
  BY CatalogAssumption
<1>2. cs = [i \in 1..Len(cs) |-> cs[i]]
  BY <1>1
<1>3. [i \in 1..Len(cs) |-> IF i + 0 <= Len(cs) THEN cs[i + 0] ELSE cs[i + 0 - Len(cs)]] = [i \in 1..Len(cs) |-> cs[i]]
  BY <1>1
<1>4. [i \in 1..Len(cs) |-> IF i + Len(cs) <= Len(cs) THEN cs[i + Len(cs)] ELSE cs[i + Len(cs) - Len(cs)]]
        = [i \in 1..Len(cs) |-> cs[i]]
  BY <1>1
<1>5. [i \in 1..0 |-> cs[i]] = <<>>
  OBVIOUS
<1> QED
  BY <1>2, <1>3, <1>4, <1>5 DEF Rotated, FirstOf

LEMMA StoredRange ==
  ASSUME NEW p \in CreateType
  PROVE  /\ p.columns \in Definitions /\ p.next \in Nat \ {0} /\ p.ref.name \in TableNames
         /\ Len(p.columns) \in Nat \ {0} /\ StoredColumns(p) \in 0..Len(p.columns)
         /\ p.owner \in Users \cup {Nobody}
<1>1. p.columns \in Definitions /\ p.next \in Nat \ {0} /\ p.owner \in Users \cup {Nobody}
  BY DEF CreateType
<1>2. Len(p.columns) \in Nat \ {0}
  BY <1>1, CatalogAssumption
<1>3. p.ref.name \in TableNames
  <2>1. PICK r \in Refs : p.ref = Created(r)
    BY DEF CreateType
  <2>2. Created(r).name = r.name
    BY DEF Created
  <2> QED
    BY <2>1, <2>2, CatalogAssumption
<1> QED
  BY <1>1, <1>2, <1>3 DEF StoredColumns

-----------------------------------------------------------------------------
\* Rows that are claimed to be right are there before, with no CREATE TABLE
\* under way.
LEMMA ClaimsOfOthers ==
  ASSUME NEW objs, NEW others, NEW attrs, NEW keys, NEW hist, NEW pend,
         AttributesRight(objs, attrs, hist, <<>>), KeysRight(objs, keys, hist, <<>>),
         \A i \in DOMAIN others :
           \/ i \in DOMAIN objs /\ others[i] = objs[i]
           \/ ~Complete(others[i], hist)
           \/ Making(pend, others[i].name) /\ pend[1].next <= Len(pend[1].columns) + 2
  PROVE  AttributesRight(others, attrs, hist, pend) /\ KeysRight(others, keys, hist, pend)
BY DEF AttributesRight, KeysRight, Making

\* CREATE TABLE begins: what is known of the name is what is there before the
\* first column is stored.
LEMMA CreateBegins ==
  ASSUME NEW mt, NEW ow, NEW hist, MetaRight(mt, ow, hist, <<>>), NEW p \in CreateType, p.next = 1,
         hist \in [TableNames -> SUBSET HistoryType]
  PROVE  MetaRight(mt, ow, hist, <<p>>)
<1> SUFFICES ASSUME NEW n \in TableNames
             PROVE  /\ hist[n] = {} => mt[n] = IF Making(<<p>>, n) THEN FirstOf(<<p>>[1].columns, StoredColumns(<<p>>[1])) ELSE <<>>
                    /\ \A h \in hist[n] :
                         hist[n] = {h} /\ ~h.cut =>
                           IF Making(<<p>>, n) THEN <<p>>[1].columns = h.columns => mt[n] = Rotated(h.columns, StoredColumns(<<p>>[1]))
                           ELSE mt[n] = h.columns /\ ow[n] = h.owner
                    /\ Making(<<p>>, n) /\ <<p>>[1].next >= Len(<<p>>[1].columns) + 2 => ow[n] = <<p>>[1].owner
  BY DEF MetaRight
<1>1. p.columns \in Definitions /\ Len(p.columns) \in Nat \ {0} /\ StoredColumns(p) = 0
  BY StoredRange DEF StoredColumns
<1>2. /\ hist[n] = {} => mt[n] = <<>>
      /\ \A h \in hist[n] : hist[n] = {h} /\ ~h.cut => mt[n] = h.columns /\ ow[n] = h.owner
  BY DEF MetaRight, Making
<1>3. FirstOf(p.columns, 0) = <<>> /\ Rotated(p.columns, 0) = p.columns
  BY <1>1, RotatedEnds
<1>4. <<p>>[1] = p /\ (Making(<<p>>, n) <=> p.ref.name = n)
  BY DEF Making
<1>5. ASSUME NEW h \in hist[n], hist[n] = {h}, ~h.cut
      PROVE  IF Making(<<p>>, n) THEN <<p>>[1].columns = h.columns => mt[n] = Rotated(h.columns, StoredColumns(<<p>>[1]))
             ELSE mt[n] = h.columns /\ ow[n] = h.owner
  <2>1. mt[n] = h.columns /\ ow[n] = h.owner
    BY <1>2, <1>5
  <2>2. p.columns = h.columns => mt[n] = Rotated(h.columns, 0)
    BY <1>3, <2>1
  <2> QED
    BY <1>1, <1>4, <2>1, <2>2
<1>6. ~(p.next >= Len(p.columns) + 2)
  BY <1>1
<1> QED
  BY <1>1, <1>2, <1>3, <1>4, <1>5, <1>6

-----------------------------------------------------------------------------
\* No tables, and nothing said of any.
LEMMA CatalogInitRight == CatalogInit => CatalogInv
<1> SUFFICES ASSUME CatalogInit PROVE CatalogInv
  OBVIOUS
<1>1. /\ meta \in [TableNames -> Seq(ColumnType)] /\ owners \in [TableNames -> Users \cup {Nobody}]
      /\ history \in [TableNames -> SUBSET HistoryType]
  BY DEF CatalogInit
<1>2. ObjectsRight(objects)
  BY DEF CatalogInit, ObjectsRight
<1>3. MetaRight(meta, owners, history, pending)
  BY DEF CatalogInit, MetaRight, Making
<1>4. AttributesRight(objects, attributes, history, pending) /\ KeysRight(objects, keyRows, history, pending)
  BY DEF CatalogInit, AttributesRight, KeysRight
<1>5. PendingRight(pending) /\ ~InBlock
  BY DEF CatalogInit, PendingRight, InBlock
<1> QED
  BY <1>1, <1>2, <1>3, <1>4, <1>5 DEF CatalogInv, DatabaseRight

\* Statements that only add and remove rows of sqlite_master.
LEMMA ObjectsChange ==
  ASSUME CatalogInv, Idle, UNCHANGED <<meta, owners, attributes, keyRows, history, saved>>,
         ObjectsRight(objects'),
         PendingRight(pending'), pending' = <<>> \/ (pending'[1].next = 1 /\ pending' # <<>>),
         \A i \in DOMAIN objects' :
           \/ i \in DOMAIN objects /\ objects'[i] = objects[i]
           \/ ~Complete(objects'[i], history)
           \/ Making(pending', objects'[i].name) /\ pending'[1].next <= Len(pending'[1].columns) + 2
  PROVE  CatalogInv'
<1>1. pending = <<>> /\ DatabaseRight(objects, meta, owners, attributes, keyRows, history, <<>>)
  BY DEF CatalogInv, Idle
<1>2. AttributesRight(objects', attributes, history, pending') /\ KeysRight(objects', keyRows, history, pending')
  BY <1>1, ClaimsOfOthers DEF DatabaseRight
<1>3. MetaRight(meta, owners, history, pending')
  <2>1. CASE pending' = <<>>
    BY <1>1, <2>1 DEF DatabaseRight
  <2>2. CASE pending' # <<>>
    BY <1>1, <2>2, CreateBegins DEF DatabaseRight, PendingRight
  <2> QED
    BY <2>1, <2>2
<1>4. DatabaseRight(objects', meta', owners', attributes', keyRows', history', pending')
  BY <1>1, <1>2, <1>3 DEF DatabaseRight
<1> QED
  BY <1>4 DEF CatalogInv, InBlock

-----------------------------------------------------------------------------
LEMMA CreateKeeps ==
  ASSUME CatalogInv, NEW ref \in Refs, NEW columns \in Definitions, ExecuteCreate(ref, columns)
  PROVE  CatalogInv'
<1> DEFINE create == Created(ref)
           p      == [ref |-> create, columns |-> columns, owner |-> Nobody, next |-> 1]
           object == [kind |-> "table", name |-> ref.name, table |-> ref.name, columns |-> columns]
           made   == AddObject(objects, object)
           of     == [kind |-> "table", name |-> Sequence, table |-> Sequence, columns |-> <<>>]
<1>1. Idle /\ UNCHANGED <<meta, owners, attributes, keyRows, history, saved>>
  BY DEF ExecuteCreate, Ready
<1>2. /\ pending = <<>> /\ ObjectsRight(objects) /\ history \in [TableNames -> SUBSET HistoryType]
  BY <1>1 DEF Idle, CatalogInv, DatabaseRight
<1>3. PendingRight(<<p>>) /\ <<p>> # <<>> /\ <<p>>[1] = p /\ Making(<<p>>, ref.name)
  <2>1. p \in CreateType
    BY DEF CreateType
  <2>2. create.name = ref.name
    BY DEF Created
  <2>3. p.next <= Len(p.columns) + 4
    BY <2>1, StoredRange
  <2> QED
    BY <2>1, <2>2, <2>3 DEF PendingRight, Making
<1>4. <<p>>[1].next <= Len(<<p>>[1].columns) + 2
  BY <1>3, CatalogAssumption
<1>5. \/ objects' = objects /\ (pending' = pending \/ pending' = <<p>>)
      \/ objects' = made /\ OidsOf(ref.name) = {} /\ pending' = <<p>>
      \/ /\ objects' = AddObject(made, of) /\ OidsOf(ref.name) = {} /\ pending' = <<p>>
         /\ ~\E i \in DOMAIN objects : objects[i].name = Sequence
  BY Zenon DEF ExecuteCreate
<1> HIDE DEF p, object, of
<1>6. CASE objects' = objects /\ (pending' = pending \/ pending' = <<p>>)
  <2>1. pending' = <<>> \/ (pending'[1].next = 1 /\ pending' # <<>>)
    BY <1>2, <1>3, <1>6 DEF p
  <2>2. PendingRight(pending')
    BY <1>2, <1>3, <1>6 DEF PendingRight
  <2> QED
    BY <1>1, <1>2, <1>6, <2>1, <2>2, ObjectsChange
<1>7. ASSUME OidsOf(ref.name) = {}
      PROVE  /\ ObjectsRight(made)
             /\ \A i \in DOMAIN made : \/ i \in DOMAIN objects /\ made[i] = objects[i]
                                       \/ made[i] = object /\ made[i].name = ref.name
  <2>1. ref.name \in TableNames /\ ref.name # Sequence
    BY CatalogAssumption
  <2>2. object.name = ref.name
    BY DEF object
  <2>3. \A i \in DOMAIN objects : objects[i].name # object.name
    BY <1>7, <2>1, <2>2 DEF OidsOf
  <2> QED
    BY <1>2, <2>1, <2>2, <2>3, AddObjectIs
<1>8. CASE objects' = made /\ OidsOf(ref.name) = {} /\ pending' = <<p>>
  <2>1. \A i \in DOMAIN objects' :
           \/ i \in DOMAIN objects /\ objects'[i] = objects[i]
           \/ ~Complete(objects'[i], history)
           \/ Making(pending', objects'[i].name) /\ pending'[1].next <= Len(pending'[1].columns) + 2
    BY <1>3, <1>4, <1>7, <1>8
  <2> QED
    BY <1>1, <1>3, <1>7, <1>8, <2>1, ObjectsChange DEF p
<1>9. CASE /\ objects' = AddObject(made, of) /\ OidsOf(ref.name) = {} /\ pending' = <<p>>
           /\ ~\E i \in DOMAIN objects : objects[i].name = Sequence
  <2>1. of.name = Sequence
    BY DEF of
  <2>2. /\ ObjectsRight(objects')
        /\ \A i \in DOMAIN objects' : (i \in DOMAIN made /\ objects'[i] = made[i]) \/ objects'[i] = of
    BY <1>7, <1>9, <2>1, AddObjectIs
  <2>3. \A i \in DOMAIN objects' :
           \/ i \in DOMAIN objects /\ objects'[i] = objects[i]
           \/ ~Complete(objects'[i], history)
           \/ Making(pending', objects'[i].name) /\ pending'[1].next <= Len(pending'[1].columns) + 2
    BY <1>3, <1>4, <1>7, <1>9, <2>1, <2>2 DEF Complete
  <2> QED
    BY <1>1, <1>3, <1>9, <2>2, <2>3, ObjectsChange DEF p
<1> QED
  BY <1>5, <1>6, <1>8, <1>9

LEMMA DropTablesKeeps ==
  ASSUME CatalogInv, NEW refs, NEW ifExists, DropTables(refs, ifExists)
  PROVE  CatalogInv'
<1>1. Idle /\ UNCHANGED <<meta, owners, attributes, keyRows, history, saved, pending>>
  BY DEF DropTables, Ready
<1>2. pending' = <<>> /\ ObjectsRight(objects) /\ PendingRight(pending')
  BY <1>1 DEF Idle, CatalogInv, DatabaseRight
<1>3. PICK names : objects' = WithoutTables(objects, names)
  BY Zenon DEF DropTables
<1>4. ObjectsRight(objects') /\ \A i \in DOMAIN objects' : i \in DOMAIN objects /\ objects'[i] = objects[i]
  <2> DEFINE S == {i \in DOMAIN objects : objects[i].table \notin names}
  <2>1. objects' = Restrict(objects, S)
    BY <1>3 DEF WithoutTables
  <2> HIDE DEF S
  <2>2. S \subseteq DOMAIN objects
    BY DEF S
  <2> QED
    BY <1>2, <2>1, <2>2, RestrictIs
<1> QED
  BY <1>1, <1>2, <1>4, ObjectsChange

LEMMA DropIndexKeeps ==
  ASSUME CatalogInv, NEW index, DropIndex(index)
  PROVE  CatalogInv'
<1>1. Idle /\ UNCHANGED <<meta, owners, attributes, keyRows, history, saved, pending>>
  BY DEF DropIndex, Ready
<1>2. pending' = <<>> /\ ObjectsRight(objects) /\ PendingRight(pending')
  BY <1>1 DEF Idle, CatalogInv, DatabaseRight
<1>3. PICK oids : objects' = Restrict(objects, DOMAIN objects \ oids)
  BY Zenon DEF DropIndex
<1>4. ObjectsRight(objects') /\ \A i \in DOMAIN objects' : i \in DOMAIN objects /\ objects'[i] = objects[i]
  BY <1>2, <1>3, RestrictIs
<1> QED
  BY <1>1, <1>2, <1>4, ObjectsChange

LEMMA CreateIndexKeeps ==
  ASSUME CatalogInv, NEW index \in Indexes, NEW name, CreateIndex(index, name)
  PROVE  CatalogInv'
<1>1. Idle /\ UNCHANGED <<meta, owners, attributes, keyRows, history, saved, pending>>
  BY DEF CreateIndex, Ready
<1>2. pending' = <<>> /\ ObjectsRight(objects) /\ PendingRight(pending')
  BY <1>1 DEF Idle, CatalogInv, DatabaseRight
<1> DEFINE o == [kind |-> "index", name |-> index, table |-> name, columns |-> <<>>]
<1>3. \/ objects' = objects
      \/ objects' = AddObject(objects, o) /\ OidsOf(index) = {}
  BY Zenon DEF CreateIndex
<1>4. CASE objects' = objects
  BY <1>1, <1>2, <1>4, ObjectsChange
<1>5. CASE objects' = AddObject(objects, o) /\ OidsOf(index) = {}
  <2>1. o.name = index /\ o.kind = "index"
    OBVIOUS
  <2> HIDE DEF o
  <2>2. \A i \in DOMAIN objects : objects[i].name # o.name
    BY <1>5, <2>1, CatalogAssumption DEF OidsOf
  <2>3. /\ ObjectsRight(objects')
        /\ \A i \in DOMAIN objects' : (i \in DOMAIN objects /\ objects'[i] = objects[i]) \/ objects'[i] = o
    BY <1>2, <1>5, <2>1, <2>2, AddObjectIs
  <2>4. \A i \in DOMAIN objects' : (i \in DOMAIN objects /\ objects'[i] = objects[i]) \/ ~Complete(objects'[i], history)
    BY <2>1, <2>3 DEF Complete
  <2> QED
    BY <1>1, <1>2, <2>3, <2>4, ObjectsChange
<1> QED
  BY <1>3, <1>4, <1>5

-----------------------------------------------------------------------------
\* The next write of CREATE TABLE.
LEMMA AdvanceIs ==
  ASSUME CatalogInv, ~Idle, NEW user \in Users \cup {Nobody},
         pending' = <<[ref |-> Creating.ref, columns |-> Creating.columns, owner |-> user, next |-> Creating.next + 1]>>,
         Creating.next <= Len(Creating.columns) + 3
  PROVE  /\ Creating \in CreateType /\ Creating' \in CreateType /\ PendingRight(pending')
         /\ Creating'.ref = Creating.ref /\ Creating'.columns = Creating.columns
         /\ Creating'.next = Creating.next + 1 /\ Creating'.owner = user
         /\ \A n : /\ Making(pending, n) <=> n = Creating.ref.name
                   /\ Making(pending', n) <=> n = Creating.ref.name
<1>1. pending # <<>> /\ Creating \in CreateType
  BY DEF Idle, CatalogInv, PendingRight, Creating
<1> DEFINE q == [ref |-> Creating.ref, columns |-> Creating.columns, owner |-> user, next |-> Creating.next + 1]
<1>2. /\ q \in CreateType /\ q.ref = Creating.ref /\ q.columns = Creating.columns
      /\ q.next = Creating.next + 1 /\ q.owner = user
  <2>3. /\ Creating.ref \in {Created(r) : r \in Refs} /\ Creating.columns \in Definitions
        /\ Creating.next + 1 \in Nat \ {0}
    BY <1>1 DEF CreateType
  <2> QED
    BY <2>3 DEF CreateType
<1> HIDE DEF q
<1>3. pending' = <<q>> /\ pending' # <<>> /\ Creating' = q
  BY DEF Creating, q
<1>4. Len(q.columns) \in Nat /\ q.next <= Len(q.columns) + 4
  BY <1>1, <1>2, StoredRange
<1> QED
  BY <1>1, <1>2, <1>3, <1>4 DEF PendingRight, Making, Creating

LEMMA Advances ==
  ASSUME CatalogInv, ~Idle, Advance, Creating.next <= Len(Creating.columns) + 3
  PROVE  /\ Creating \in CreateType /\ Creating' \in CreateType /\ PendingRight(pending')
         /\ Creating'.ref = Creating.ref /\ Creating'.columns = Creating.columns
         /\ Creating'.next = Creating.next + 1 /\ Creating'.owner = Creating.owner
         /\ \A n : /\ Making(pending, n) <=> n = Creating.ref.name
                   /\ Making(pending', n) <=> n = Creating.ref.name
<1>1. Creating \in CreateType
  BY DEF Idle, CatalogInv, PendingRight, Creating
<1>2. [ref |-> Creating.ref, columns |-> Creating.columns, owner |-> Creating.owner, next |-> Creating.next + 1]
        = [Creating EXCEPT !.next = @ + 1]
  BY <1>1 DEF CreateType
<1>3. Creating.owner \in Users \cup {Nobody}
  BY <1>1, StoredRange
<1> QED
  BY <1>2, <1>3, AdvanceIs DEF Advance

\* The claims about attributes and keys of a write that is not about them.
LEMMA ClaimsStay ==
  ASSUME CatalogInv, ~Idle, PendingRight(pending'), Creating' \in CreateType,
         UNCHANGED <<objects, attributes, keyRows, history>>,
         \A n : Making(pending, n) <=> Making(pending', n), Creating'.columns = Creating.columns,
         Creating'.next <= Len(Creating.columns) + 2 \/ Creating.next > Len(Creating.columns) + 2
  PROVE  AttributesRight(objects', attributes', history', pending') /\ KeysRight(objects', keyRows', history', pending')
<1>1. AttributesRight(objects, attributes, history, pending) /\ KeysRight(objects, keyRows, history, pending)
  BY DEF CatalogInv, DatabaseRight
<1>2. /\ pending[1] = Creating /\ pending'[1] = Creating' /\ Creating \in CreateType
      /\ objects' = objects /\ attributes' = attributes /\ keyRows' = keyRows /\ history' = history
  BY DEF Creating, Idle, CatalogInv, PendingRight
<1>3. ASSUME NEW i \in DOMAIN objects, Complete(objects[i], history),
             ~(Making(pending', objects[i].name) /\ pending'[1].next <= Len(pending'[1].columns) + 2)
      PROVE  {a \in attributes : a.table = i} = AttributeRows(i, objects[i].columns)
  <2>1. ~(Making(pending, objects[i].name) /\ pending[1].next <= Len(pending[1].columns) + 2)
    <3>1. Creating.next \in Nat /\ Len(Creating.columns) \in Nat
      BY <1>2, StoredRange
    <3> QED
      BY <1>2, <1>3, <3>1
  <2> QED
    BY <1>1, <1>3, <2>1 DEF AttributesRight
<1>4. AttributesRight(objects, attributes, history, pending')
  BY <1>3 DEF AttributesRight
<1>5. KeysRight(objects, keyRows, history, pending')
  BY <1>1 DEF KeysRight
<1> QED
  BY <1>2, <1>4, <1>5

LEMMA StoreColumnKeeps ==
  ASSUME CatalogInv, StoreColumn
  PROVE  CatalogInv'
<1> DEFINE p    == Creating
           name == p.ref.name
           cs   == p.columns
<1>1. /\ ~Idle /\ p.next <= Len(cs) /\ Advance /\ UNCHANGED <<objects, owners, attributes, keyRows, history, saved>>
      /\ meta' = [meta EXCEPT ![name] = ReplaceRow(@, cs[p.next])]
  BY DEF StoreColumn, Bookkeeping
<1>2. p \in CreateType
  BY <1>1 DEF Idle, CatalogInv, PendingRight, Creating
<1>3. /\ cs \in Definitions /\ p.next \in Nat \ {0} /\ name \in TableNames /\ Len(cs) \in Nat \ {0}
  BY <1>2, StoredRange
<1>4. /\ Creating' \in CreateType /\ PendingRight(pending')
      /\ Creating'.ref = p.ref /\ Creating'.columns = cs /\ Creating'.next = p.next + 1
      /\ \A n : (Making(pending, n) <=> n = name) /\ (Making(pending', n) <=> n = name)
  BY <1>1, <1>3, Advances
<1>5. AttributesRight(objects', attributes', history', pending') /\ KeysRight(objects', keyRows', history', pending')
  BY <1>1, <1>3, <1>4, ClaimsStay
<1>6. /\ meta \in [TableNames -> Seq(ColumnType)] /\ MetaRight(meta, owners, history, pending)
      /\ history \in [TableNames -> SUBSET HistoryType]
  BY DEF CatalogInv, DatabaseRight
<1>7. StoredColumns(p) = p.next - 1 /\ StoredColumns(Creating') = p.next
  BY <1>1, <1>3, <1>4 DEF StoredColumns
<1>8. /\ ReplaceRow(FirstOf(cs, p.next - 1), cs[p.next]) = FirstOf(cs, p.next)
      /\ ReplaceRow(Rotated(cs, p.next - 1), cs[p.next]) = Rotated(cs, p.next)
  <2>1. p.next - 1 \in Nat /\ p.next - 1 < Len(cs) /\ (p.next - 1) + 1 = p.next
    BY <1>1, <1>3
  <2> QED
    BY <1>3, <2>1, StoredColumn
<1>9. cs[p.next] \in ColumnType
  BY <1>1, <1>3, CatalogAssumption
<1>10. meta' \in [TableNames -> Seq(ColumnType)]
  <2>1. ASSUME NEW rows \in Seq(ColumnType) PROVE ReplaceRow(rows, cs[p.next]) \in Seq(ColumnType)
    <3>1. CASE {i \in DOMAIN rows : rows[i].name = cs[p.next].name} = {}
      BY <1>9, <3>1 DEF ReplaceRow
    <3>2. CASE {i \in DOMAIN rows : rows[i].name = cs[p.next].name} # {}
      <4> DEFINE i == CHOOSE i \in {i \in DOMAIN rows : rows[i].name = cs[p.next].name} : TRUE
      <4>1. i \in 1..Len(rows)
        BY <3>2
      <4> HIDE DEF i
      <4>2. RemoveAt(rows, i) \in Seq(ColumnType)
        BY <4>1 DEF RemoveAt
      <4>3. ReplaceRow(rows, cs[p.next]) = Append(RemoveAt(rows, i), cs[p.next])
        BY <3>2 DEF ReplaceRow, i
      <4> QED
        BY <1>9, <4>2, <4>3
    <3> QED
      BY <3>1, <3>2
  <2> QED
    BY <1>1, <1>3, <1>6, <2>1
<1>11. MetaRight(meta', owners', history', pending')
  <2> SUFFICES ASSUME NEW n \in TableNames
               PROVE  /\ history[n] = {} => meta'[n] = IF Making(pending', n) THEN FirstOf(pending'[1].columns, StoredColumns(pending'[1])) ELSE <<>>
                      /\ \A h \in history[n] :
                           history[n] = {h} /\ ~h.cut =>
                             IF Making(pending', n) THEN pending'[1].columns = h.columns => meta'[n] = Rotated(h.columns, StoredColumns(pending'[1]))
                             ELSE meta'[n] = h.columns /\ owners[n] = h.owner
                      /\ Making(pending', n) /\ pending'[1].next >= Len(pending'[1].columns) + 2 => owners[n] = pending'[1].owner
    BY <1>1 DEF MetaRight
  <2>1. pending[1] = p /\ pending'[1] = Creating'
    BY DEF Creating
  <2>2. CASE n # name
    <3>1. meta'[n] = meta[n]
      BY <1>1, <1>6, <2>2
    <3> QED
      BY <1>4, <1>6, <2>2, <3>1 DEF MetaRight
  <2>3. CASE n = name
    <3>1. meta'[n] = ReplaceRow(meta[n], cs[p.next])
      BY <1>1, <1>3, <1>6, <2>3
    <3>2. history[n] = {} => meta[n] = FirstOf(cs, p.next - 1)
      BY <1>4, <1>6, <1>7, <2>1, <2>3 DEF MetaRight
    <3>3. ASSUME NEW h \in history[n], history[n] = {h}, ~h.cut, cs = h.columns
          PROVE  meta[n] = Rotated(cs, p.next - 1)
      <4>1. Making(pending, n) /\ pending[1].columns = h.columns
        BY <1>4, <2>1, <2>3, <3>3
      <4>2. meta[n] = Rotated(h.columns, StoredColumns(pending[1]))
        BY <1>6, <3>3, <4>1 DEF MetaRight
      <4> QED
        BY <1>7, <2>1, <3>3, <4>2
    <3>4. ~(Creating'.next >= Len(cs) + 2)
      BY <1>1, <1>3, <1>4
    <3> QED
      BY <1>4, <1>7, <1>8, <2>1, <2>3, <3>1, <3>2, <3>3, <3>4
  <2> QED
    BY <2>2, <2>3
<1> QED
  BY <1>1, <1>4, <1>5, <1>10, <1>11 DEF CatalogInv, DatabaseRight, InBlock

\* From the owner on, the columns are all stored.
LEMMA MetaStays ==
  ASSUME CatalogInv, ~Idle, PendingRight(pending'), Creating \in CreateType, Creating' \in CreateType,
         UNCHANGED <<meta, history>>, Creating.next > Len(Creating.columns), Creating'.next > Len(Creating.columns),
         \A n : /\ Making(pending, n) <=> n = Creating.ref.name
                /\ Making(pending', n) <=> n = Creating.ref.name,
         Creating'.columns = Creating.columns,
         \A n \in TableNames : n # Creating.ref.name => owners'[n] = owners[n],
         Creating'.next >= Len(Creating.columns) + 2 => owners'[Creating.ref.name] = Creating'.owner
  PROVE  MetaRight(meta', owners', history', pending')
<1>1. /\ pending[1] = Creating /\ pending'[1] = Creating' /\ meta' = meta /\ history' = history
      /\ MetaRight(meta, owners, history, pending)
  BY DEF Creating, CatalogInv, DatabaseRight
<1>2. StoredColumns(Creating) = Len(Creating.columns) /\ StoredColumns(Creating') = Len(Creating.columns)
  BY DEF StoredColumns
<1> SUFFICES ASSUME NEW n \in TableNames
             PROVE  /\ history[n] = {} => meta[n] = IF Making(pending', n) THEN FirstOf(pending'[1].columns, StoredColumns(pending'[1])) ELSE <<>>
                    /\ \A h \in history[n] :
                         history[n] = {h} /\ ~h.cut =>
                           IF Making(pending', n) THEN pending'[1].columns = h.columns => meta[n] = Rotated(h.columns, StoredColumns(pending'[1]))
                           ELSE meta[n] = h.columns /\ owners'[n] = h.owner
                    /\ Making(pending', n) /\ pending'[1].next >= Len(pending'[1].columns) + 2 => owners'[n] = pending'[1].owner
  BY <1>1 DEF MetaRight
<1>3. history[n] = {} => meta[n] = IF Making(pending', n) THEN FirstOf(pending'[1].columns, StoredColumns(pending'[1])) ELSE <<>>
  BY <1>1, <1>2 DEF MetaRight
<1>4. ASSUME NEW h \in history[n], history[n] = {h}, ~h.cut
      PROVE  IF Making(pending', n) THEN pending'[1].columns = h.columns => meta[n] = Rotated(h.columns, StoredColumns(pending'[1]))
             ELSE meta[n] = h.columns /\ owners'[n] = h.owner
  <2>1. IF Making(pending, n) THEN pending[1].columns = h.columns => meta[n] = Rotated(h.columns, StoredColumns(pending[1]))
        ELSE meta[n] = h.columns /\ owners[n] = h.owner
    BY <1>1, <1>4 DEF MetaRight
  <2> QED
    BY <1>1, <1>2, <2>1
<1>5. Making(pending', n) /\ pending'[1].next >= Len(pending'[1].columns) + 2 => owners'[n] = pending'[1].owner
  BY <1>1
<1> QED
  BY <1>3, <1>4, <1>5

LEMMA StoreOwnerKeeps ==
  ASSUME CatalogInv, NEW user \in Users, StoreOwner(user)
  PROVE  CatalogInv'
<1> DEFINE p    == Creating
           name == p.ref.name
           cs   == p.columns
<1>1. /\ ~Idle /\ p.next = Len(cs) + 1 /\ UNCHANGED <<objects, meta, attributes, keyRows, history, saved>>
      /\ owners' = [owners EXCEPT ![name] = user]
      /\ pending' = <<[ref |-> p.ref, columns |-> p.columns, owner |-> user, next |-> p.next + 1]>>
  BY DEF StoreOwner, AfterColumns, Bookkeeping
<1>2. p \in CreateType
  BY <1>1 DEF Idle, CatalogInv, PendingRight, Creating
<1>3. cs \in Definitions /\ name \in TableNames /\ Len(cs) \in Nat \ {0}
  BY <1>2, StoredRange
<1>4. /\ Creating' \in CreateType /\ PendingRight(pending')
      /\ Creating'.ref = p.ref /\ Creating'.columns = cs /\ Creating'.next = p.next + 1 /\ Creating'.owner = user
      /\ \A n : (Making(pending, n) <=> n = name) /\ (Making(pending', n) <=> n = name)
  <2>1. user \in Users \cup {Nobody} /\ p.next <= Len(cs) + 3
    BY <1>1, <1>3
  <2> QED
    BY <1>1, <2>1, AdvanceIs
<1>5. AttributesRight(objects', attributes', history', pending') /\ KeysRight(objects', keyRows', history', pending')
  BY <1>1, <1>3, <1>4, ClaimsStay
<1>6. owners \in [TableNames -> Users \cup {Nobody}]
  BY DEF CatalogInv, DatabaseRight
<1>7. /\ owners' \in [TableNames -> Users \cup {Nobody}] /\ owners'[name] = user
      /\ \A n \in TableNames : n # name => owners'[n] = owners[n]
  BY <1>1, <1>3, <1>6
<1>8. MetaRight(meta', owners', history', pending')
  BY <1>1, <1>2, <1>3, <1>4, <1>7, MetaStays
<1> QED
  BY <1>1, <1>4, <1>5, <1>7, <1>8 DEF CatalogInv, DatabaseRight, InBlock

LEMMA PopulateAttributesKeeps ==
  ASSUME CatalogInv, PopulateAttributes
  PROVE  CatalogInv'
<1> DEFINE p    == Creating
           name == p.ref.name
           cs   == p.columns
<1>1. /\ ~Idle /\ p.next = Len(cs) + 2 /\ Advance /\ UNCHANGED <<objects, meta, owners, keyRows, history, saved>>
  BY DEF PopulateAttributes, AfterColumns, Bookkeeping
<1>2. p \in CreateType
  BY <1>1 DEF Idle, CatalogInv, PendingRight, Creating
<1>3. cs \in Definitions /\ name \in TableNames /\ Len(cs) \in Nat \ {0}
  BY <1>2, StoredRange
<1>4. /\ Creating' \in CreateType /\ PendingRight(pending')
      /\ Creating'.ref = p.ref /\ Creating'.columns = cs /\ Creating'.next = p.next + 1 /\ Creating'.owner = p.owner
      /\ \A n : (Making(pending, n) <=> n = name) /\ (Making(pending', n) <=> n = name)
  BY <1>1, <1>3, Advances
<1>5. /\ ObjectsRight(objects) /\ AttributesRight(objects, attributes, history, pending)
      /\ KeysRight(objects, keyRows, history, pending) /\ MetaRight(meta, owners, history, pending)
  BY DEF CatalogInv, DatabaseRight
<1>6. pending[1] = p /\ pending'[1] = Creating'
  BY DEF Creating
<1>7. MetaRight(meta', owners', history', pending')
  <2>1. owners[name] = p.owner
    BY <1>1, <1>3, <1>4, <1>5, <1>6 DEF MetaRight
  <2> QED
    BY <1>1, <1>2, <1>3, <1>4, <2>1, MetaStays
<1>8. KeysRight(objects, keyRows, history, pending')
  BY <1>4, <1>5 DEF KeysRight
<1>9. AttributesRight(objects, attributes', history, pending')
  <2> SUFFICES ASSUME NEW i \in DOMAIN objects, Complete(objects[i], history)
               PROVE  {a \in attributes' : a.table = i} = AttributeRows(i, objects[i].columns)
    BY DEF AttributesRight
  <2>1. objects[i].kind = "table" /\ objects[i].name # Sequence
    BY DEF Complete
  <2>2. ASSUME objects[i].name # name
        PROVE  {a \in attributes : a.table = i} = AttributeRows(i, objects[i].columns)
    BY <1>4, <1>5, <2>2 DEF AttributesRight
  <2>3. CASE OidsOf(name) = {}
    <3>1. attributes' = attributes
      BY <2>3 DEF PopulateAttributes
    <3>2. objects[i].name # name
      BY <2>1, <2>3 DEF OidsOf
    <3> QED
      BY <2>2, <3>1, <3>2
  <2>4. CASE OidsOf(name) # {}
    <3>1. PICK row \in OidsOf(name) :
            attributes' = WithoutRowsOf(row) \cup AttributeRows(row, TableInfo(name))
      BY <2>4 DEF PopulateAttributes
    <3>2. attributes' = {a \in attributes : a.table # row} \cup AttributeRows(row, TableInfo(name))
      BY <3>1 DEF WithoutRowsOf
    <3>3. \A a \in AttributeRows(row, TableInfo(name)) : a.table = row
      BY DEF AttributeRows
    <3>4. row \in DOMAIN objects /\ objects[row].name = name /\ name # Sequence
      BY DEF OidsOf
    <3>5. CASE i = row
      <4>1. TablesNamed(name) = {objects[i].columns}
        BY <1>5, <2>1, <3>4, <3>5 DEF TablesNamed, OidsOf, ObjectsRight
      <4>2. TableInfo(name) = objects[i].columns
        BY <4>1 DEF TableInfo
      <4> QED
        BY <3>2, <3>3, <3>5, <4>2
    <3>6. CASE i # row
      <4>1. objects[i].name # name
        BY <1>5, <3>4, <3>6 DEF ObjectsRight
      <4>2. {a \in attributes' : a.table = i} = {a \in attributes : a.table = i}
        BY <3>2, <3>3, <3>6
      <4> QED
        BY <2>2, <4>1, <4>2
    <3> QED
      BY <3>5, <3>6
  <2> QED
    BY <2>3, <2>4
<1> QED
  BY <1>1, <1>4, <1>7, <1>8, <1>9 DEF CatalogInv, DatabaseRight, InBlock

LEMMA PopulateIndexesKeeps ==
  ASSUME CatalogInv, PopulateIndexes
  PROVE  CatalogInv'
<1> DEFINE p    == Creating
           name == p.ref.name
           cs   == p.columns
<1>1. /\ ~Idle /\ p.next = Len(cs) + 3 /\ Advance
      /\ UNCHANGED <<objects, meta, owners, attributes, keyRows, history, saved>>
  BY DEF PopulateIndexes, AfterColumns, Bookkeeping
<1>2. p \in CreateType
  BY <1>1 DEF Idle, CatalogInv, PendingRight, Creating
<1>3. cs \in Definitions /\ name \in TableNames /\ Len(cs) \in Nat \ {0}
  BY <1>2, StoredRange
<1>4. /\ Creating' \in CreateType /\ PendingRight(pending')
      /\ Creating'.ref = p.ref /\ Creating'.columns = cs /\ Creating'.next = p.next + 1 /\ Creating'.owner = p.owner
      /\ \A n : (Making(pending, n) <=> n = name) /\ (Making(pending', n) <=> n = name)
  BY <1>1, <1>3, Advances
<1>5. AttributesRight(objects', attributes', history', pending') /\ KeysRight(objects', keyRows', history', pending')
  BY <1>1, <1>3, <1>4, ClaimsStay
<1>6. MetaRight(meta', owners', history', pending')
  <2>1. pending[1] = p
    BY DEF Creating
  <2>2. owners[name] = p.owner
    BY <1>1, <1>3, <1>4, <2>1 DEF MetaRight, CatalogInv, DatabaseRight
  <2> QED
    BY <1>1, <1>2, <1>3, <1>4, <2>2, MetaStays
<1> QED
  BY <1>1, <1>4, <1>5, <1>6 DEF CatalogInv, DatabaseRight, InBlock

\* CREATE TABLE is done, or cut off: the names under which one table was made
\* are those where it was the first, or is the same again.
LEMMA MadeOnce ==
  ASSUME NEW hist \in [TableNames -> SUBSET HistoryType], NEW name \in TableNames, NEW made \in HistoryType,
         NEW mt, NEW ow, NEW p \in CreateType, p.ref.name = name,
         MetaRight(mt, ow, hist, <<p>>),
         made.cut \/ (p.next = Len(p.columns) + 4 /\ made = [cut |-> FALSE, columns |-> p.columns, owner |-> p.owner])
  PROVE  MetaRight(mt, ow, [hist EXCEPT ![name] = @ \cup {made}], <<>>)
<1> DEFINE after == [hist EXCEPT ![name] = @ \cup {made}]
<1>1. /\ after[name] = hist[name] \cup {made}
      /\ \A n \in TableNames : n # name => after[n] = hist[n]
  OBVIOUS
<1> HIDE DEF after
<1>2. <<p>> # <<>> /\ <<p>>[1] = p /\ \A n : Making(<<p>>, n) <=> n = name
  BY DEF Making
<1>3. p.columns \in Definitions /\ Len(p.columns) \in Nat
  BY StoredRange
<1> SUFFICES ASSUME NEW n \in TableNames
             PROVE  /\ after[n] = {} => mt[n] = <<>>
                    /\ \A h \in after[n] : after[n] = {h} /\ ~h.cut => mt[n] = h.columns /\ ow[n] = h.owner
  BY DEF MetaRight, Making, after
<1>4. CASE n # name
  <2>1. after[n] = hist[n] /\ ~Making(<<p>>, n)
    BY <1>1, <1>2, <1>4
  <2> QED
    BY <2>1 DEF MetaRight
<1>5. CASE n = name
  <2>1. after[n] # {}
    BY <1>1, <1>5
  <2>2. ASSUME NEW h \in after[n], after[n] = {h}, ~h.cut
        PROVE  mt[n] = h.columns /\ ow[n] = h.owner
    <3>1. h = made /\ (hist[n] = {} \/ hist[n] = {h})
      BY <1>1, <1>5, <2>2
    <3>2. p.next = Len(p.columns) + 4 /\ h.columns = p.columns /\ h.owner = p.owner
      BY <2>2, <3>1
    <3>3. StoredColumns(p) = Len(p.columns)
      BY <1>3, <3>2 DEF StoredColumns
    <3>4. ow[n] = p.owner
      BY <1>2, <1>3, <1>5, <3>2 DEF MetaRight
    <3>5. CASE hist[n] = {}
      <4>1. mt[n] = FirstOf(p.columns, Len(p.columns))
        BY <1>2, <1>5, <3>3, <3>5 DEF MetaRight
      <4> QED
        BY <1>3, <3>2, <3>4, <4>1, RotatedEnds
    <3>6. CASE hist[n] = {h}
      <4>1. <<p>>[1].columns = h.columns => mt[n] = Rotated(h.columns, StoredColumns(<<p>>[1]))
        BY <1>2, <1>5, <2>2, <3>6 DEF MetaRight
      <4>2. mt[n] = Rotated(p.columns, Len(p.columns))
        BY <1>2, <3>2, <3>3, <4>1
      <4> QED
        BY <1>3, <3>2, <3>4, <4>2, RotatedEnds
    <3> QED
      BY <3>1, <3>5, <3>6
  <2> QED
    BY <2>1, <2>2
<1> QED
  BY <1>4, <1>5

LEMMA PopulateConstraintsKeeps ==
  ASSUME CatalogInv, PopulateConstraints
  PROVE  CatalogInv'
<1> DEFINE p    == Creating
           name == p.ref.name
           made == [cut |-> FALSE, columns |-> p.columns, owner |-> p.owner]
<1>1. /\ ~Idle /\ p.next = Len(p.columns) + 4 /\ pending' = <<>>
      /\ UNCHANGED <<objects, meta, owners, attributes, saved>>
      /\ keyRows' = AllKeyRows
      /\ history' = [history EXCEPT ![name] = @ \cup {made}]
  BY DEF PopulateConstraints, AfterColumns, Bookkeeping, Note
<1>2. p \in CreateType /\ pending = <<p>>
  BY <1>1 DEF Idle, CatalogInv, PendingRight, Creating
<1>3. p.columns \in Definitions /\ p.owner \in Users \cup {Nobody} /\ name \in TableNames /\ Len(p.columns) \in Nat
  BY <1>2, StoredRange
<1>4. made \in HistoryType
  BY <1>3 DEF HistoryType
<1>5. /\ history \in [TableNames -> SUBSET HistoryType] /\ ObjectsRight(objects)
      /\ AttributesRight(objects, attributes, history, pending) /\ MetaRight(meta, owners, history, pending)
  BY DEF CatalogInv, DatabaseRight
<1>6. MetaRight(meta, owners, history', <<>>)
  BY <1>1, <1>2, <1>3, <1>4, <1>5, MadeOnce
<1>7. history' \in [TableNames -> SUBSET HistoryType] /\ \A n \in TableNames : history[n] \subseteq history'[n]
  BY <1>1, <1>3, <1>4, <1>5
<1>8. AttributesRight(objects, attributes, history', <<>>)
  <2> SUFFICES ASSUME NEW i \in DOMAIN objects, Complete(objects[i], history')
               PROVE  {a \in attributes : a.table = i} = AttributeRows(i, objects[i].columns)
    BY DEF AttributesRight
  <2>1. Complete(objects[i], history)
    BY <1>5, <1>7 DEF Complete, ObjectsRight
  <2>2. ~(pending[1].next <= Len(pending[1].columns) + 2)
    BY <1>1, <1>2, <1>3
  <2> QED
    BY <1>5, <2>1, <2>2 DEF AttributesRight
<1>9. KeysRight(objects, keyRows', history', <<>>)
  <2> SUFFICES ASSUME NEW i \in DOMAIN objects, objects[i].kind = "table"
               PROVE  {k \in keyRows' : k.table = i} = KeyRows(i, objects[i].columns)
    BY DEF KeysRight, Complete
  <2>1. keyRows' = UNION {KeyRows(t, objects[t].columns) : t \in {t \in DOMAIN objects : objects[t].kind = "table"}}
    BY <1>1 DEF AllKeyRows
  <2>2. \A t : \A k \in KeyRows(t, objects[t].columns) : k.table = t
    BY DEF KeyRows
  <2>3. \A k \in keyRows' : \E t : k \in KeyRows(t, objects[t].columns)
    BY <2>1
  <2>4. \A k \in KeyRows(i, objects[i].columns) : k \in keyRows'
    BY <2>1
  <2> QED
    BY <2>2, <2>3, <2>4
<1> QED
  BY <1>1, <1>5, <1>6, <1>7, <1>8, <1>9 DEF CatalogInv, DatabaseRight, InBlock, PendingRight

-----------------------------------------------------------------------------
LEMMA BeginKeeps ==
  ASSUME CatalogInv, Begin
  PROVE  CatalogInv'
<1>1. pending = <<>> /\ saved' = database /\ UNCHANGED <<database, pending>>
  BY DEF Begin, Idle
<1>2. /\ saved'[1] = objects /\ saved'[3] = meta /\ saved'[4] = owners
      /\ saved'[5] = attributes /\ saved'[7] = keyRows /\ saved'[8] = history
  BY <1>1 DEF database
<1>3. DatabaseRight(objects, meta, owners, attributes, keyRows, history, <<>>)
  BY <1>1 DEF CatalogInv
<1>4. DatabaseRight(saved'[1], saved'[3], saved'[4], saved'[5], saved'[7], saved'[8], <<>>)
  BY <1>2, <1>3
<1> QED
  BY <1>1, <1>3, <1>4 DEF CatalogInv, database

LEMMA RestoreIsRight ==
  ASSUME CatalogInv, InBlock \/ Idle, Restore, saved' \in {<<>>, saved}, pending' = <<>>
  PROVE  CatalogInv'
<1>1. CASE InBlock
  <2>1. /\ objects' = saved[1] /\ meta' = saved[3] /\ owners' = saved[4]
        /\ attributes' = saved[5] /\ keyRows' = saved[7] /\ history' = saved[8]
    BY <1>1 DEF Restore
  <2>2. DatabaseRight(objects', meta', owners', attributes', keyRows', history', <<>>)
    BY <1>1, <2>1 DEF CatalogInv
  <2> QED
    BY <2>2 DEF CatalogInv, InBlock, PendingRight
<1>2. CASE ~InBlock
  <2>1. UNCHANGED <<objects, meta, owners, attributes, keyRows, history>>
    BY <1>2 DEF Restore, database
  <2>2. DatabaseRight(objects', meta', owners', attributes', keyRows', history', <<>>)
    BY <1>2, <2>1 DEF CatalogInv, Idle
  <2> QED
    BY <2>2 DEF CatalogInv, InBlock, PendingRight
<1> QED
  BY <1>1, <1>2

LEMMA EndBlockKeeps ==
  ASSUME CatalogInv, NEW commit \in BOOLEAN, EndBlock(commit)
  PROVE  CatalogInv'
<1>1. pending = <<>> /\ pending' = <<>> /\ saved' = <<>> /\ Idle
  BY DEF EndBlock, Idle
<1>2. CASE commit
  BY <1>1, <1>2 DEF EndBlock, database, CatalogInv, InBlock
<1>3. CASE ~commit
  BY <1>1, <1>3, RestoreIsRight DEF EndBlock
<1> QED
  BY <1>2, <1>3

\* What is cut off leaves its own table's rows in part, and the rows of others
\* in pg_attribute as they were.
LEMMA OthersStay ==
  ASSUME CatalogInv, ~Idle, PartlyWritten, NEW i \in DOMAIN objects, objects[i].name # Creating.ref.name
  PROVE  {a \in attributes' : a.table = i} = {a \in attributes : a.table = i}
<1>1. CASE attributes' = attributes
  BY <1>1
<1>2. ASSUME NEW row \in OidsOf(Creating.ref.name), NEW rows \in SUBSET AttributeRows(row, TableInfo(Creating.ref.name)),
             attributes' = WithoutRowsOf(row) \cup rows
      PROVE  {a \in attributes' : a.table = i} = {a \in attributes : a.table = i}
  <2>1. row # i
    BY DEF OidsOf
  <2>2. \A a \in rows : a.table = row
    BY DEF AttributeRows
  <2> QED
    BY <1>2, <2>1, <2>2 DEF WithoutRowsOf
<1> QED
  BY <1>1, <1>2 DEF PartlyWritten

LEMMA CutOffKeeps ==
  ASSUME CatalogInv, ~Idle, CutOff, pending' = <<>>, saved' \in {<<>>, saved}
  PROVE  CatalogInv'
<1> DEFINE p    == Creating
           name == p.ref.name
           made == [cut |-> TRUE, columns |-> p.columns, owner |-> p.owner]
<1>1. /\ UNCHANGED <<objects, meta, owners>> /\ PartlyWritten
      /\ history' = [history EXCEPT ![name] = @ \cup {made}]
  BY DEF CutOff, Note
<1>2. p \in CreateType /\ pending = <<p>>
  BY DEF Idle, CatalogInv, PendingRight, Creating
<1>3. p.columns \in Definitions /\ p.owner \in Users \cup {Nobody} /\ name \in TableNames
  BY <1>2, StoredRange
<1>4. made \in HistoryType /\ made.cut
  BY <1>3 DEF HistoryType
<1> HIDE DEF made
<1>5. /\ history \in [TableNames -> SUBSET HistoryType] /\ ObjectsRight(objects)
      /\ AttributesRight(objects, attributes, history, pending)
      /\ MetaRight(meta, owners, history, pending)
  BY DEF CatalogInv, DatabaseRight
<1>6. MetaRight(meta, owners, history', <<>>)
  BY <1>1, <1>2, <1>3, <1>4, <1>5, MadeOnce
<1>7. /\ history' \in [TableNames -> SUBSET HistoryType] /\ made \in history'[name]
      /\ \A n \in TableNames : history[n] \subseteq history'[n]
  BY <1>1, <1>3, <1>4, <1>5
<1>8. AttributesRight(objects, attributes', history', <<>>)
  <2> SUFFICES ASSUME NEW i \in DOMAIN objects, Complete(objects[i], history')
               PROVE  {a \in attributes' : a.table = i} = AttributeRows(i, objects[i].columns)
    BY DEF AttributesRight
  <2>1. Complete(objects[i], history) /\ objects[i].name # name
    BY <1>4, <1>5, <1>7 DEF Complete, ObjectsRight
  <2>2. ~Making(pending, objects[i].name)
    BY <1>2, <2>1 DEF Making
  <2>3. {a \in attributes' : a.table = i} = {a \in attributes : a.table = i}
    BY <1>1, <2>1, OthersStay
  <2> QED
    BY <1>5, <2>1, <2>2, <2>3 DEF AttributesRight
<1>9. KeysRight(objects, keyRows', history', <<>>)
  <2>1. ~NoneCut(history')
    BY <1>3, <1>4, <1>7 DEF NoneCut
  <2> QED
    BY <2>1 DEF KeysRight
<1> QED
  BY <1>1, <1>5, <1>6, <1>7, <1>8, <1>9 DEF CatalogInv, DatabaseRight, InBlock, PendingRight

LEMMA WriteFailsKeeps ==
  ASSUME CatalogInv, WriteFails
  PROVE  CatalogInv'
<1>1. ~Idle /\ pending' = <<>> /\ saved' \in {<<>>, saved}
  BY DEF WriteFails
<1> QED
  BY <1>1, CutOffKeeps, RestoreIsRight DEF WriteFails

LEMMA StartAgainKeeps ==
  ASSUME CatalogInv, StartAgain
  PROVE  CatalogInv'
<1>1. pending' = <<>> /\ saved' \in {<<>>, saved}
  BY DEF StartAgain
<1>2. CASE Idle \/ InBlock
  BY <1>1, <1>2, RestoreIsRight DEF StartAgain
<1>3. CASE ~(Idle \/ InBlock)
  BY <1>1, <1>3, CutOffKeeps DEF StartAgain
<1> QED
  BY <1>2, <1>3

LEMMA CatalogStutters ==
  ASSUME CatalogInv, UNCHANGED catalogVars
  PROVE  CatalogInv'
BY DEF catalogVars, CatalogInv, InBlock

\* The catalog is right, or becomes so with what CREATE TABLE has still to
\* write, in the database as it is and as a rollback would leave it.
THEOREM CatalogStaysRight == CatalogSpec => []CatalogInv
<1>1. CatalogInit => CatalogInv
  BY CatalogInitRight
<1>2. ASSUME CatalogInv, [CatalogNext]_catalogVars PROVE CatalogInv'
  <2>1. ASSUME NEW ref \in Refs, NEW columns \in Definitions, ExecuteCreate(ref, columns) PROVE CatalogInv'
    BY <1>2, <2>1, CreateKeeps
  <2>2. ASSUME NEW u \in Users, StoreOwner(u) PROVE CatalogInv'
    BY <1>2, <2>2, StoreOwnerKeeps
  <2>3. ASSUME NEW refs, NEW ifExists, DropTables(refs, ifExists) PROVE CatalogInv'
    BY <1>2, <2>3, DropTablesKeeps
  <2>4. ASSUME NEW i \in Indexes, NEW n \in TableNames, CreateIndex(i, n) PROVE CatalogInv'
    BY <1>2, <2>4, CreateIndexKeeps
  <2>5. ASSUME NEW i \in Indexes, DropIndex(i) PROVE CatalogInv'
    BY <1>2, <2>5, DropIndexKeeps
  <2>6. ASSUME NEW commit \in BOOLEAN, EndBlock(commit) PROVE CatalogInv'
    BY <1>2, <2>6, EndBlockKeeps
  <2>7. CASE StoreColumn
    BY <1>2, <2>7, StoreColumnKeeps
  <2>8. CASE PopulateAttributes
    BY <1>2, <2>8, PopulateAttributesKeeps
  <2>9. CASE PopulateIndexes
    BY <1>2, <2>9, PopulateIndexesKeeps
  <2>10. CASE PopulateConstraints
    BY <1>2, <2>10, PopulateConstraintsKeeps
  <2>11. CASE Begin
    BY <1>2, <2>11, BeginKeeps
  <2>12. CASE StartAgain
    BY <1>2, <2>12, StartAgainKeeps
  <2>13. CASE UNCHANGED catalogVars
    BY <1>2, <2>13, CatalogStutters
  <2>14. CASE WriteFails
    BY <1>2, <2>14, WriteFailsKeeps
  <2> QED
    BY <1>2, <2>1, <2>2, <2>3, <2>4, <2>5, <2>6, <2>7, <2>8, <2>9, <2>10, <2>11, <2>12, <2>13, <2>14, Zenon DEF CatalogNext
<1> QED
  BY <1>1, <1>2, PTL DEF CatalogSpec

-----------------------------------------------------------------------------
\* Of a table that is known, the type told is the one its column was made with.
LEMMA ToldItsType ==
  ASSUME NEW name, NEW cs \in Definitions, Known(name) = cs, NEW i \in DOMAIN cs
  PROVE  Told(<<name>>, cs[i].name) = FieldType(cs[i].type)
<1> DEFINE tables == <<name>>
           places == {p \in UNION {{t} \X DOMAIN Known(tables[t]) : t \in DOMAIN tables} :
                        Known(tables[p[1]])[p[2]].name = cs[i].name}
           first  == CHOOSE p \in places : \A q \in places \ {p} : p[1] < q[1] \/ (p[1] = q[1] /\ p[2] < q[2])
<1>1. \A j, k \in DOMAIN cs : cs[j].name = cs[k].name => j = k
  BY CatalogAssumption
<1>2. DOMAIN tables = {1} /\ tables[1] = name
  OBVIOUS
<1>3. UNION {{t} \X DOMAIN Known(tables[t]) : t \in DOMAIN tables} = {1} \X DOMAIN cs
  BY <1>2
<1>4. places = {<<1, i>>}
  <2>1. ASSUME NEW p \in places PROVE p = <<1, i>>
    <3>1. p \in {1} \X DOMAIN cs /\ Known(tables[p[1]])[p[2]].name = cs[i].name
      BY <1>3
    <3>2. p[1] = 1 /\ p[2] \in DOMAIN cs /\ p = <<p[1], p[2]>>
      BY <3>1
    <3>3. cs[p[2]].name = cs[i].name
      BY <1>2, <3>1, <3>2
    <3> QED
      BY <1>1, <3>2, <3>3
  <2>2. <<1, i>> \in places
    <3>1. <<1, i>> \in {1} \X DOMAIN cs /\ <<1, i>>[1] = 1 /\ <<1, i>>[2] = i
      OBVIOUS
    <3> QED
      BY <1>2, <1>3, <3>1
  <2> QED
    BY <2>1, <2>2
<1> HIDE DEF places
<1>5. first = <<1, i>>
  <2>1. \A q \in places \ {<<1, i>>} : <<1, i>>[1] < q[1] \/ (<<1, i>>[1] = q[1] /\ <<1, i>>[2] < q[2])
    BY <1>4
  <2> QED
    BY <1>4, <2>1
<1>6. Told(<<name>>, cs[i].name) = IF places = {} THEN "TEXT" ELSE FieldType(Known(tables[first[1]])[first[2]].type)
  BY DEF Told, places
<1> HIDE DEF first
<1> QED
  BY <1>2, <1>4, <1>5, <1>6

\* For any names, definitions and users, however many tables are made and
\* dropped: the catalog tells the columns, types and owner of every table whose
\* name was used for it only.
THEOREM CatalogKnowsTables == CatalogSpec => []CatalogTellsColumns
<1>1. CatalogInv => CatalogTellsColumns
  <2> SUFFICES ASSUME CatalogInv, Idle, NEW name \in TableNames, NEW h \in history[name], history[name] = {h}, ~h.cut
               PROVE  /\ owners[name] = h.owner
                      /\ Known(name) = h.columns
                      /\ \A i \in DOMAIN h.columns :
                           LET told == Told(<<name>>, h.columns[i].name)
                               type == h.columns[i].type
                           IN  /\ told = FieldType(type)
                               /\ Sent(told, [kind |-> "integer", is |-> "1"]) = IF type = "BOOLEAN" THEN "t" ELSE "1"
    BY Zenon DEF CatalogTellsColumns, Steady
  <2>1. /\ pending = <<>> /\ MetaRight(meta, owners, history, <<>>) /\ history \in [TableNames -> SUBSET HistoryType]
    BY DEF Idle, CatalogInv, DatabaseRight
  <2>2. meta[name] = h.columns /\ owners[name] = h.owner
    BY <2>1 DEF MetaRight, Making
  <2>3. h.columns \in Definitions
    BY <2>1 DEF HistoryType
  <2>4. Known(name) = h.columns
    BY <2>2, <2>3, CatalogAssumption DEF Known
  <2>5. ASSUME NEW i \in DOMAIN h.columns
        PROVE  /\ Told(<<name>>, h.columns[i].name) = FieldType(h.columns[i].type)
               /\ Sent(FieldType(h.columns[i].type), [kind |-> "integer", is |-> "1"])
                    = IF h.columns[i].type = "BOOLEAN" THEN "t" ELSE "1"
    <3>1. Told(<<name>>, h.columns[i].name) = FieldType(h.columns[i].type)
      BY <2>3, <2>4, ToldItsType
    <3>2. \A type : Sent(FieldType(type), [kind |-> "integer", is |-> "1"]) = IF type = "BOOLEAN" THEN "t" ELSE "1"
      BY DEF Sent, FieldType
    <3> QED
      BY <3>1, <3>2
  <2> QED
    BY <2>2, <2>4, <2>5
<1> QED
  BY <1>1, CatalogStaysRight, PTL

\* For any names and definitions: a table of main that was made completely has
\* in pg_attribute and pg_constraint its own columns and key, and no others
\* under its number, whatever tables and indexes had the number before, and
\* whatever failed writes and failed blocks left of other tables; the key if no
\* write of pg_constraint was cut off.
THEOREM AttributesStayColumns == CatalogSpec => []AttributesAreColumns
<1>1. CatalogInv => AttributesAreColumns
  <2> SUFFICES ASSUME CatalogInv, Idle, NEW row \in DOMAIN objects, objects[row].kind = "table",
                      objects[row].name # Sequence, Whole(objects[row].name)
               PROVE  /\ {a \in attributes : a.table = row} = AttributeRows(row, objects[row].columns)
                      /\ AllWhole => {k \in keyRows : k.table = row} = KeyRows(row, objects[row].columns)
    BY DEF AttributesAreColumns
  <2>1. /\ pending = <<>> /\ AttributesRight(objects, attributes, history, <<>>)
        /\ KeysRight(objects, keyRows, history, <<>>) /\ Complete(objects[row], history)
    BY DEF Idle, CatalogInv, DatabaseRight, Complete, Whole
  <2>2. AllWhole => NoneCut(history)
    BY DEF AllWhole, Whole, NoneCut
  <2> QED
    BY <2>1, <2>2 DEF AttributesRight, KeysRight, Making
<1> QED
  BY <1>1, CatalogStaysRight, PTL

-----------------------------------------------------------------------------
(* Defaults *)

LEMMA LengthIsNat == ASSUME NEW S, NEW q \in Seq(S) PROVE Len(q) \in Nat
OBVIOUS

LEMMA PartOfSequence == ASSUME NEW S, NEW q \in Seq(S), NEW i \in DOMAIN q PROVE q[i] \in S
OBVIOUS

LEMMA LastPlace ==
  ASSUME NEW S, NEW q \in Seq(S), NEW i \in DOMAIN q
  PROVE  Len(q) \in DOMAIN q /\ SubSeq(q, Len(q) + 1, Len(q)) = <<>>
<1>1. Len(q) \in Nat /\ DOMAIN q = 1..Len(q) /\ i \in 1..Len(q)
  OBVIOUS
<1>2. SubSeq(q, Len(q) + 1, Len(q)) \in Seq(S) /\ Len(SubSeq(q, Len(q) + 1, Len(q))) = 0
  BY <1>1
<1> QED
  BY <1>1, <1>2

\* What the catalog tells of a default that is its column's last clause.
LEMMA LastDefault ==
  ASSUME NEW c \in WriteColumn, HasDefault(c), Last(c.clauses) \in Defaults,
         \A i, j \in DOMAIN c.clauses : c.clauses[i] \in Defaults /\ c.clauses[j] \in Defaults => i = j,
         Last(c.clauses) \in {"plain", "time"}
  PROVE  ExtractDefault(c) = Last(c.clauses)
<1> DEFINE cl == c.clauses
           at == CHOOSE i \in DOMAIN cl : cl[i] \in Defaults
<1>1. /\ cl \in Seq(Defaults \cup {"not null", "unique", "check"})
      /\ \E i \in DOMAIN cl : cl[i] \in Defaults
  BY DEF WriteColumn, HasDefault, ToSet
<1>2. ExtractDefault(c) =
        CASE cl[at] = "call"  -> "none"
          [] cl[at] = "comma" -> "broken"
          [] SubSeq(cl, at + 1, Len(cl)) = <<>> -> cl[at]
          [] SubSeq(cl, at + 1, Len(cl)) = <<"not null">> -> "true"
          [] OTHER -> "broken"
  BY DEF ExtractDefault
<1>3. /\ cl[Len(cl)] \in Defaults \cap {"plain", "time"} /\ Last(c.clauses) = cl[Len(cl)]
      /\ \A i, j \in DOMAIN cl : cl[i] \in Defaults /\ cl[j] \in Defaults => i = j
  BY DEF Last
<1> HIDE DEF cl
<1>4. Len(cl) \in DOMAIN cl /\ SubSeq(cl, Len(cl) + 1, Len(cl)) = <<>>
  BY <1>1, LastPlace
<1>5. at = Len(cl)
  BY <1>3, <1>4
<1> HIDE DEF at
<1>6. SubSeq(cl, at + 1, Len(cl)) = <<>> /\ cl[at] \in {"plain", "time"} /\ Last(c.clauses) = cl[at]
  BY <1>3, <1>4, <1>5
<1>7. cl[at] # "call" /\ cl[at] # "comma"
  BY <1>6
<1> DEFINE rest == SubSeq(cl, at + 1, Len(cl))
<1> HIDE DEF rest
<1>8. rest = <<>>
  BY <1>6 DEF rest
<1>9. rest # <<"not null">>
  BY ONLY <1>8
<1> QED
  BY <1>2, <1>6, <1>7, <1>8, <1>9, Zenon DEF rest

LEMMA ToldDefaults ==
  ASSUME NEW c \in WriteColumn,
         \A i, j \in DOMAIN c.clauses : c.clauses[i] \in Defaults /\ c.clauses[j] \in Defaults => i = j
  PROVE  /\ ~HasDefault(c) => SetToDefault(c) = "null" /\ PadValue(c) = "null"
         /\ HasDefault(c) /\ Last(c.clauses) \in {"plain"} => SetToDefault(c) = "default"
         /\ HasDefault(c) /\ Last(c.clauses) \in {"plain", "time"} => PadValue(c) = "default"
<1>1. CASE ~HasDefault(c)
  BY <1>1 DEF SetToDefault, PadValue, ExtractDefault
<1>2. CASE HasDefault(c)
  <2>1. "plain" \in Defaults /\ "time" \in Defaults
    BY DEF Defaults
  <2>2. Last(c.clauses) \in {"plain", "time"} => ExtractDefault(c) = Last(c.clauses)
    BY <1>2, <2>1, LastDefault
  <2> QED
    BY <1>2, <2>2 DEF SetToDefault, PadValue
<1> QED
  BY <1>1, <1>2

-----------------------------------------------------------------------------
(* INSERT *)

\* The columns that the values are for, in SQLite and in PostgreSQL.
TargetsOf(t, s) == IF s.listed # <<>> THEN s.listed ELSE AllOf(t)

LEMMA TargetsAreColumns ==
  ASSUME NEW t \in WriteTables, NEW s \in Inserts
  PROVE  /\ TargetsOf(t, s) \in Seq(Nat)
         /\ \A i \in DOMAIN TargetsOf(t, s) : TargetsOf(t, s)[i] \in DOMAIN t.columns
         /\ \A i, j \in DOMAIN TargetsOf(t, s) : TargetsOf(t, s)[i] = TargetsOf(t, s)[j] => i = j
         /\ (IF InsertTargets(t, s) = <<>> THEN AllOf(t) ELSE InsertTargets(t, s)) = TargetsOf(t, s)
<1>1. t.columns \in Seq(WriteColumn) /\ s.listed \in Seq(Nat)
  BY WritesAssumption
<1>2. CASE s.listed # <<>>
  <2>1. TargetsOf(t, s) = s.listed /\ InsertTargets(t, s) = s.listed
    BY <1>2 DEF TargetsOf, InsertTargets
  <2>2. \A i \in DOMAIN s.listed : s.listed[i] \in DOMAIN t.columns
    BY WritesAssumption DEF ToSet
  <2> QED
    BY <1>1, <1>2, <2>1, <2>2, WritesAssumption
<1>3. CASE s.listed = <<>>
  <2>1. TargetsOf(t, s) = AllOf(t) /\ InsertTargets(t, s) \in {AllOf(t), <<>>}
    BY <1>3 DEF TargetsOf, InsertTargets
  <2>2. AllOf(t) \in Seq(Nat) /\ DOMAIN AllOf(t) = DOMAIN t.columns /\ \A i \in DOMAIN t.columns : AllOf(t)[i] = i
    BY <1>1 DEF AllOf
  <2> QED
    BY <2>1, <2>2
<1> QED
  BY <1>2, <1>3

\* The value PostgreSQL stores for an item.
ValueOf(c, item) == IF item # "default" THEN "given" ELSE IF HasDefault(c) THEN "default" ELSE "null"

AllTold(c, kinds) == ~HasDefault(c) \/ Last(c.clauses) \in kinds

\* What a row asks for is told: the catalog knows the table, it has not been
\* forgotten, and knows the defaults.
RowIsTold(t, s, r) ==
  LET targets == TargetsOf(t, s)
      row     == s.rows[r]
  IN  /\ Len(row) <= Len(targets)
      /\ \A i \in DOMAIN row :
           row[i] = "default" => t.known /\ ~Forgotten(s, r, i) /\ AllTold(t.columns[targets[i]], {"plain"})
      /\ Len(row) < Len(targets) =>
           /\ t.known /\ s.listed = <<>> /\ ~Forgotten(s, r, Len(row) + 1)
           /\ \A i \in (Len(row) + 1)..Len(targets) : AllTold(t.columns[targets[i]], {"plain", "time"})

LEMMA Joined ==
  ASSUME NEW n \in Nat, NEW k \in Nat, NEW f, NEW g, f = [i \in 1..n |-> f[i]], g = [i \in 1..k |-> g[i]]
  PROVE  /\ Len(f \o g) = n + k /\ DOMAIN (f \o g) = 1..(n + k)
         /\ \A i \in 1..n : (f \o g)[i] = f[i]
         /\ \A i \in 1..k : (f \o g)[n + i] = g[i]
<1> DEFINE S == {f[i] : i \in 1..n} \cup {g[i] : i \in 1..k}
<1>1. \A i \in 1..n : f[i] \in S
  OBVIOUS
<1>2. \A i \in 1..k : g[i] \in S
  OBVIOUS
<1> HIDE DEF S
<1>3. f \in [1..n -> S] /\ g \in [1..k -> S]
  BY <1>1, <1>2, Zenon
<1>4. f \in Seq(S) /\ g \in Seq(S)
  BY <1>3
<1>5. Len(f) = n /\ Len(g) = k
  BY <1>3
<1> QED
  BY <1>4, <1>5

LEMMA RowsAreItems ==
  ASSUME NEW s \in Inserts, NEW r \in DOMAIN s.rows
  PROVE  /\ s.rows[r] \in Seq(Items) /\ Len(s.rows[r]) \in Nat /\ DOMAIN s.rows[r] = 1..Len(s.rows[r])
         /\ \A i \in DOMAIN s.rows[r] : s.rows[r][i] \in Items
<1>1. s.rows \in Seq(Seq(Items))
  BY WritesAssumption
<1>2. s.rows[r] \in Seq(Items)
  BY <1>1
<1> QED
  BY <1>2

\* What is written for the items and the columns of a row.
LEMMA WrittenRow ==
  ASSUME NEW t \in WriteTables, NEW s \in Inserts, NEW r \in DOMAIN s.rows, RowIsTold(t, s, r)
  PROVE  LET targets == TargetsOf(t, s)
             row     == s.rows[r]
         IN  /\ Len(WriteRow(t, s, r)) = Len(targets) /\ DOMAIN WriteRow(t, s, r) = DOMAIN targets
             /\ \A i \in DOMAIN row : WriteRow(t, s, r)[i] = ValueOf(t.columns[targets[i]], row[i])
             /\ \A i \in (Len(row) + 1)..Len(targets) : WriteRow(t, s, r)[i] = ValueOf(t.columns[targets[i]], "default")
<1> DEFINE targets == TargetsOf(t, s)
           row     == s.rows[r]
           width   == Len(row)
           written == [i \in 1..width |-> WriteItem(t, s, r, i)]
           padding == [i \in 1..(Len(targets) - width) |-> PadValue(t.columns[targets[width + i]])]
<1>1. /\ targets \in Seq(Nat) /\ \A i \in DOMAIN targets : targets[i] \in DOMAIN t.columns
      /\ t.columns \in Seq(WriteColumn)
  BY TargetsAreColumns, WritesAssumption
<1>2. width \in Nat /\ DOMAIN row = 1..width /\ Len(targets) \in Nat /\ DOMAIN targets = 1..Len(targets) /\ width <= Len(targets)
  BY <1>1, RowsAreItems DEF RowIsTold
<1>3. \A i \in 1..Len(targets) :
        /\ t.columns[targets[i]] \in WriteColumn
        /\ \A j, k \in DOMAIN t.columns[targets[i]].clauses :
             t.columns[targets[i]].clauses[j] \in Defaults /\ t.columns[targets[i]].clauses[k] \in Defaults => j = k
  <2> SUFFICES ASSUME NEW i \in 1..Len(targets)
               PROVE  /\ t.columns[targets[i]] \in WriteColumn
                      /\ \A j, k \in DOMAIN t.columns[targets[i]].clauses :
                           t.columns[targets[i]].clauses[j] \in Defaults /\ t.columns[targets[i]].clauses[k] \in Defaults => j = k
    OBVIOUS
  <2>1. targets[i] \in DOMAIN t.columns
    BY <1>1, <1>2
  <2> HIDE DEF targets
  <2> QED
    BY <1>1, <2>1, WritesAssumption, SMTT(60)
<1>4. t.known => InsertTargets(t, s) = targets
  BY DEF InsertTargets, TargetsOf
<1>5. \A i \in 1..width : WriteItem(t, s, r, i) = ValueOf(t.columns[targets[i]], row[i])
  <2> SUFFICES ASSUME NEW i \in 1..width PROVE WriteItem(t, s, r, i) = ValueOf(t.columns[targets[i]], row[i])
    OBVIOUS
  <2>1. CASE row[i] # "default"
    BY <2>1 DEF WriteItem, ValueOf
  <2>2. CASE row[i] = "default"
    <3>1. t.known /\ ~Forgotten(s, r, i) /\ AllTold(t.columns[targets[i]], {"plain"})
      BY <1>2, <2>2 DEF RowIsTold
    <3>2. i <= Len(InsertTargets(t, s)) /\ i \in 1..Len(targets)
      BY <1>2, <1>4, <3>1
    <3>3. WriteItem(t, s, r, i) = SetToDefault(t.columns[targets[i]])
      BY <1>4, <2>2, <3>1, <3>2 DEF WriteItem
    <3>4. SetToDefault(t.columns[targets[i]]) = IF HasDefault(t.columns[targets[i]]) THEN "default" ELSE "null"
      BY <1>3, <3>1, <3>2, ToldDefaults DEF AllTold
    <3> QED
      BY <2>2, <3>3, <3>4 DEF ValueOf
  <2> QED
    BY <2>1, <2>2
<1>6. \A i \in (width + 1)..Len(targets) :
        width < Len(targets) => PadValue(t.columns[targets[i]]) = ValueOf(t.columns[targets[i]], "default")
  <2> SUFFICES ASSUME NEW i \in (width + 1)..Len(targets), width < Len(targets)
               PROVE  PadValue(t.columns[targets[i]]) = ValueOf(t.columns[targets[i]], "default")
    OBVIOUS
  <2>1. AllTold(t.columns[targets[i]], {"plain", "time"}) /\ i \in 1..Len(targets)
    BY <1>2 DEF RowIsTold
  <2> QED
    BY <1>3, <2>1, ToldDefaults DEF AllTold, ValueOf
<1>7. WriteRow(t, s, r) = IF width = Len(targets) THEN written ELSE written \o padding
  <2>1. CASE width = Len(targets)
    <3>1. width >= Len(InsertTargets(t, s))
      <4>1. InsertTargets(t, s) \in {targets, <<>>}
        BY DEF InsertTargets, TargetsOf
      <4> QED
        BY <1>2, <2>1, <4>1
    <3> QED
      BY <2>1, <3>1 DEF WriteRow
  <2>2. CASE width < Len(targets)
    <3>1. t.known /\ ~Forgotten(s, r, width + 1) /\ InsertTargets(t, s) = targets /\ ~(width >= Len(targets))
      BY <1>2, <1>4, <2>2 DEF RowIsTold
    <3>2. WriteRow(t, s, r) = written \o [i \in 1..(Len(targets) - width) |-> IF t.known THEN PadValue(t.columns[targets[width + i]]) ELSE "null"]
      BY <3>1 DEF WriteRow
    <3>3. [i \in 1..(Len(targets) - width) |-> IF t.known THEN PadValue(t.columns[targets[width + i]]) ELSE "null"] = padding
      BY <3>1
    <3>4. width # Len(targets)
      BY <1>2, <2>2
    <3> HIDE DEF written, padding, width, targets
    <3> QED
      BY <3>2, <3>3, <3>4
  <2>3. width = Len(targets) \/ width < Len(targets)
    BY <1>2
  <2> QED
    BY <2>1, <2>2, <2>3
<1>11. width = Len(targets) \/ width < Len(targets)
  <2> HIDE DEF row, targets
  <2>1. width \in Nat /\ Len(targets) \in Nat /\ width <= Len(targets)
    BY <1>2
  <2> HIDE DEF width
  <2> QED
    BY ONLY <2>1
<1> HIDE DEF targets, row
<1>8. Len(written) = width /\ \A i \in 1..width : written[i] = ValueOf(t.columns[targets[i]], row[i])
  BY <1>2, <1>5
<1>9. CASE width = Len(targets)
  BY <1>2, <1>7, <1>8, <1>9 DEF targets, row
<1>10. CASE width < Len(targets)
  <2>1. Len(targets) - width \in Nat /\ width + (Len(targets) - width) = Len(targets)
    BY <1>2, <1>10
  <2>2. written = [i \in 1..width |-> written[i]] /\ padding = [i \in 1..(Len(targets) - width) |-> padding[i]]
    OBVIOUS
  <2> HIDE DEF written, padding
  <2>3. /\ Len(written \o padding) = Len(targets) /\ DOMAIN (written \o padding) = 1..Len(targets)
        /\ \A i \in 1..width : (written \o padding)[i] = written[i]
        /\ \A i \in 1..(Len(targets) - width) : (written \o padding)[width + i] = padding[i]
    BY <1>2, <2>1, <2>2, Joined
  <2>4. \A i \in (width + 1)..Len(targets) : (written \o padding)[i] = ValueOf(t.columns[targets[i]], "default")
    <3> SUFFICES ASSUME NEW i \in (width + 1)..Len(targets)
                 PROVE  (written \o padding)[i] = ValueOf(t.columns[targets[i]], "default")
      OBVIOUS
    <3>1. i - width \in 1..(Len(targets) - width) /\ width + (i - width) = i
      BY <1>2
    <3>2. padding[i - width] = PadValue(t.columns[targets[i]])
      BY <3>1 DEF padding
    <3>3. (written \o padding)[i] = padding[i - width]
      BY <2>3, <3>1
    <3> QED
      BY <1>6, <1>10, <3>2, <3>3
  <2>5. WriteRow(t, s, r) = written \o padding
    BY <1>7, <1>10
  <2>6. /\ \A i \in 1..width : WriteRow(t, s, r)[i] = ValueOf(t.columns[targets[i]], row[i])
        /\ \A i \in (width + 1)..Len(targets) : WriteRow(t, s, r)[i] = ValueOf(t.columns[targets[i]], "default")
    BY <1>8, <2>3, <2>4, <2>5
  <2> QED
    BY <1>2, <2>3, <2>5, <2>6 DEF targets, row
<1> QED
  BY <1>9, <1>10, <1>11

\* A row of which the catalog tells all that is asked for is stored as
\* PostgreSQL stores it: a column it has no item for gets its default.
LEMMA RowsAreStored ==
  ASSUME NEW t \in WriteTables, NEW s \in Inserts, NEW r \in DOMAIN s.rows, RowIsTold(t, s, r)
  PROVE  LET targets == TargetsOf(t, s)
             row     == s.rows[r]
         IN  /\ Len(WriteRow(t, s, r)) = Len(targets)
             /\ "broken" \notin ToSet(WriteRow(t, s, r))
             /\ Stored(t, targets, WriteRow(t, s, r)) =
                  Stored(t, SubSeq(targets, 1, Len(row)), [i \in DOMAIN row |-> ValueOf(t.columns[targets[i]], row[i])])
<1> DEFINE P     == TargetsOf(t, s)
           row   == s.rows[r]
           width == Len(row)
           W     == WriteRow(t, s, r)
           short == SubSeq(P, 1, width)
           V     == [i \in DOMAIN row |-> ValueOf(t.columns[P[i]], row[i])]
<1>1. /\ P \in Seq(Nat) /\ \A i, j \in DOMAIN P : P[i] = P[j] => i = j
      /\ width \in Nat /\ DOMAIN row = 1..width /\ width <= Len(P)
  BY TargetsAreColumns, RowsAreItems DEF RowIsTold
<1>2. /\ Len(W) = Len(P) /\ DOMAIN W = DOMAIN P
      /\ \A i \in DOMAIN row : W[i] = ValueOf(t.columns[P[i]], row[i])
      /\ \A i \in (width + 1)..Len(P) : W[i] = ValueOf(t.columns[P[i]], "default")
  BY WrittenRow
<1>3. Len(P) \in Nat /\ DOMAIN P = 1..Len(P)
  BY <1>1
<1>4. /\ DOMAIN short = 1..width /\ \A i \in 1..width : short[i] = P[i]
      /\ \A i \in 1..width : V[i] = ValueOf(t.columns[P[i]], row[i])
  BY <1>1, <1>3
<1> HIDE DEF P, row, W, short, V
<1>5. \A i \in 1..Len(P) : i \in 1..width \/ i \in (width + 1)..Len(P)
  BY <1>1, <1>3
<1>6. "broken" \notin ToSet(W)
  <2>1. \A c, item : ValueOf(c, item) # "broken"
    BY DEF ValueOf
  <2>2. \A i \in DOMAIN W : W[i] # "broken"
    BY <1>1, <1>2, <1>3, <1>5, <2>1
  <2> QED
    BY <2>2 DEF ToSet
<1>7. ASSUME NEW c \in DOMAIN t.columns
      PROVE  Stored(t, P, W)[c] = Stored(t, short, V)[c]
  <2> DEFINE column == t.columns[c]
             all    == {i \in DOMAIN P : P[i] = c}
             said   == {i \in DOMAIN short : short[i] = c}
             value(q, v) == IF q # {} THEN v[CHOOSE i \in q : TRUE] ELSE IF HasDefault(column) THEN "default" ELSE "null"
  <2>1. /\ Stored(t, P, W)[c] = IF column.serial /\ value(all, W) = "null" THEN "default" ELSE value(all, W)
        /\ Stored(t, short, V)[c] = IF column.serial /\ value(said, V) = "null" THEN "default" ELSE value(said, V)
    BY DEF Stored
  <2> HIDE DEF all, said
  <2>2. value(all, W) = value(said, V)
    <3>1. CASE all = {}
      <4>1. said = {}
        BY <1>1, <1>3, <1>4, <3>1 DEF all, said
      <4> QED
        BY <3>1, <4>1
    <3>2. ASSUME NEW i \in 1..width, i \in all
          PROVE  value(all, W) = value(said, V)
      <4>1. all = {i}
        BY <1>1, <3>2 DEF all
      <4>2. i \in said /\ said \subseteq all
        BY <1>1, <1>3, <1>4, <3>2 DEF all, said
      <4>3. said = {i}
        BY <4>1, <4>2
      <4>4. W[i] = V[i]
        BY <1>1, <1>2, <1>4, <3>2
      <4> HIDE DEF value
      <4>5. (CHOOSE j \in {i} : TRUE) = i
        OBVIOUS
      <4> QED
        BY <4>1, <4>3, <4>4, <4>5 DEF value
    <3>3. ASSUME NEW i \in (width + 1)..Len(P), i \in all
          PROVE  value(all, W) = value(said, V)
      <4>1. all = {i}
        BY <1>1, <3>3 DEF all
      <4>2. i \notin said /\ said \subseteq all
        BY <1>1, <1>3, <1>4, <3>3 DEF all, said
      <4>3. said = {}
        BY <4>1, <4>2
      <4>4. W[i] = IF HasDefault(column) THEN "default" ELSE "null"
        BY <1>2, <3>3 DEF ValueOf, all
      <4>5. (CHOOSE j \in {i} : TRUE) = i
        OBVIOUS
      <4> QED
        BY <4>1, <4>3, <4>4, <4>5
    <3>4. all \subseteq 1..Len(P)
      BY <1>3 DEF all
    <3> QED
      BY <1>5, <3>1, <3>2, <3>3, <3>4
  <2> QED
    BY <2>1, <2>2
<1>8. Stored(t, P, W) = Stored(t, short, V)
  <2>1. /\ Stored(t, P, W) = [c \in DOMAIN t.columns |-> Stored(t, P, W)[c]]
        /\ Stored(t, short, V) = [c \in DOMAIN t.columns |-> Stored(t, short, V)[c]]
    BY DEF Stored
  <2> QED
    BY <1>7, <2>1
<1> QED
  BY <1>2, <1>6, <1>8 DEF P, row, W, short, V

LEMMA InsertsDoWhatTheySay ==
  ASSUME NEW t \in WriteTables, NEW s \in Inserts,
         PgInsert(t, s) # Refused, ~s.conflict, ";" \notin s.marks,
         Len(s.rows) <= MaxCompound \/ InsertTargets(t, s) = <<>>,
         \A r \in DOMAIN s.rows :
           (s.listed # <<>> => Len(s.rows[r]) = Len(s.listed)) /\ Len(s.rows[r]) <= Len(TargetsOf(t, s)) => RowIsTold(t, s, r)
  PROVE  SqliteInsert(t, s) = PgInsert(t, s)
<1> DEFINE P        == TargetsOf(t, s)
           Value(c, item) == IF item # "default" THEN "given"
                             ELSE IF HasDefault(c) THEN "default" ELSE "null"
           Row(r)   == Stored(t, SubSeq(P, 1, Len(s.rows[r])),
                         [i \in DOMAIN s.rows[r] |-> Value(t.columns[P[i]], s.rows[r][i])])
           fits     == \A r \in DOMAIN s.rows :
                         /\ Len(s.rows[r]) = Len(s.rows[1])
                         /\ IF s.listed # <<>> THEN Len(s.rows[r]) = Len(P) ELSE Len(s.rows[r]) <= Len(P)
           written  == [r \in DOMAIN s.rows |-> WriteRow(t, s, r)]
           stored   == [r \in DOMAIN s.rows |-> Stored(t, P, written[r])]
<1>1. PgInsert(t, s) = IF ~fits \/ (\E r \in DOMAIN s.rows : ~Nullless(t, Row(r))) THEN Refused
                       ELSE [r \in DOMAIN s.rows |-> Row(r)]
  BY DEF PgInsert, TargetsOf
<1>2. SqliteInsert(t, s) =
        IF \/ ";" \in s.marks \/ s.conflict
           \/ InsertTargets(t, s) # <<>> /\ Len(s.rows) > MaxCompound
           \/ \E r \in DOMAIN s.rows : Len(written[r]) # Len(P) \/ "broken" \in ToSet(written[r])
        THEN Refused
        ELSE IF \A r \in DOMAIN s.rows : Nullless(t, stored[r]) THEN stored ELSE Refused
  BY TargetsAreColumns, Zenon DEF SqliteInsert
<1>8. Len(s.rows) <= MaxCompound => ~(Len(s.rows) > MaxCompound)
  <2>1. s.rows \in Seq(Seq(Items)) /\ MaxCompound \in Nat
    BY WritesAssumption
  <2>3. Len(s.rows) \in Nat
    BY <2>1, LengthIsNat, Zenon
  <2> QED
    BY ONLY <2>1, <2>3
<1>3. fits /\ \A r \in DOMAIN s.rows : Nullless(t, Row(r))
  BY <1>1
<1>4. ASSUME NEW r \in DOMAIN s.rows
      PROVE  /\ Len(written[r]) = Len(P) /\ "broken" \notin ToSet(written[r])
             /\ stored[r] = Row(r)
  <2>1. /\ s.listed # <<>> => Len(s.rows[r]) = Len(s.listed)
        /\ Len(s.rows[r]) <= Len(P)
    <3>1. s.listed # <<>> => P = s.listed
      BY DEF TargetsOf
    <3>2. IF s.listed # <<>> THEN Len(s.rows[r]) = Len(P) ELSE Len(s.rows[r]) <= Len(P)
      BY <1>3
    <3>3. Len(s.rows[r]) \in Nat
      BY RowsAreItems
    <3> DEFINE width == Len(s.rows[r])
    <3> HIDE DEF P
    <3>4. CASE s.listed # <<>>
      <4>1. width = Len(s.listed) /\ width = Len(P)
        BY <3>1, <3>2, <3>4
      <4>2. width \in Nat
        BY <3>3
      <4> HIDE DEF width
      <4>3. width <= Len(P)
        BY ONLY <4>1, <4>2
      <4> QED
        BY <4>1, <4>3 DEF width
    <3>5. CASE s.listed = <<>>
      BY <3>2, <3>5
    <3> QED
      BY <3>4, <3>5
  <2>2. RowIsTold(t, s, r)
    BY <2>1
  <2>3. \A c, item : Value(c, item) = ValueOf(c, item)
    BY DEF ValueOf
  <2>4. written[r] = WriteRow(t, s, r) /\ stored[r] = Stored(t, P, WriteRow(t, s, r))
    OBVIOUS
  <2>5. Row(r) = Stored(t, SubSeq(P, 1, Len(s.rows[r])), [i \in DOMAIN s.rows[r] |-> ValueOf(t.columns[P[i]], s.rows[r][i])])
    BY DEF ValueOf
  <2> HIDE DEF P, Row, written, stored
  <2> QED
    BY <2>2, <2>4, <2>5, RowsAreStored DEF P
<1>5. PgInsert(t, s) = [r \in DOMAIN s.rows |-> Row(r)]
  BY <1>1, <1>3
<1>6. stored = [r \in DOMAIN s.rows |-> Row(r)]
  BY <1>4
<1> HIDE DEF P, Row, written, stored, fits
<1>7. SqliteInsert(t, s) = stored
  BY <1>2, <1>3, <1>4, <1>8
<1> QED
  BY <1>5, <1>6, <1>7

-----------------------------------------------------------------------------
(* UPDATE and DELETE *)

LEMMA SameReference ==
  ASSUME NEW s \in Updates, NEW ref \in References, ref.qual = "alias" => s.alias
  PROVE  SqliteRef(s, ref) = PgRef(s, ref) <=>
           ref.qual # "from" /\ ~(s.alias /\ ref.qual \in {"alias", "table"} /\ ref.inner = "same")
<1>1. CASE ref.qual = "from"
  BY <1>1 DEF SqliteRef, PgRef, CutQualifier
<1>2. CASE ref.qual = ""
  BY <1>2 DEF SqliteRef, PgRef, CutQualifier
<1>3. CASE ref.qual = "alias"
  BY <1>3 DEF SqliteRef, PgRef, CutQualifier
<1>4. CASE ref.qual = "table"
  BY <1>4 DEF SqliteRef, PgRef, CutQualifier
<1>5. ref.qual \in {"alias", "table", "from", ""}
  BY DEF References
<1> QED
  BY <1>1, <1>2, <1>3, <1>4, <1>5

LEMMA UpdatesDoWhatTheySay ==
  ASSUME NEW t \in WriteTables, NEW s \in Updates,
         ";" \notin s.marks,
         ~(s.alias /\ "alias." \in s.marks),
         s.default = 0 \/ ~HasDefault(t.columns[s.default]),
         \A ref \in ToSet(s.refs) :
           ref.qual # "from" /\ ~(s.alias /\ ref.qual \in {"alias", "table"} /\ ref.inner = "same")
  PROVE  SqliteUpdate(t, s) = PgUpdate(t, s)
<1>1. \A i \in DOMAIN s.refs : SqliteRef(s, s.refs[i]) = PgRef(s, s.refs[i])
  <2>0. s.refs \in Seq(References) /\ \A i \in DOMAIN s.refs : s.refs[i].qual = "alias" => s.alias
    BY WritesAssumption
  <2>1. \A i \in DOMAIN s.refs : s.refs[i] \in References /\ (s.refs[i].qual = "alias" => s.alias)
    <3> DEFINE refs == s.refs
    <3>1. refs \in Seq(References)
      BY <2>0
    <3> HIDE DEF refs, References
    <3>2. \A i \in DOMAIN refs : refs[i] \in References
      BY <3>1, PartOfSequence
    <3> QED
      BY <2>0, <3>2, Zenon DEF refs
  <2> QED
    BY <2>1, SameReference DEF ToSet
<1>2. [i \in DOMAIN s.refs |-> SqliteRef(s, s.refs[i])] = [i \in DOMAIN s.refs |-> PgRef(s, s.refs[i])]
  BY <1>1
<1>3. ~(s.alias /\ "alias." \in s.marks) = TRUE
  OBVIOUS
<1> QED
  BY <1>2, <1>3 DEF SqliteUpdate, PgUpdate

\* For any tables, INSERTs and UPDATEs: what is stored and changed is what
\* PostgreSQL would store and change, under the conditions the property states.
THEOREM WritesStoreWhatTheySay == WriteSpec => []WritesDoWhatTheySay
<1>1. WriteInit => WritesDoWhatTheySay
  <2> SUFFICES ASSUME WriteInit PROVE WritesDoWhatTheySay
    OBVIOUS
  <2>1. CASE verb = "insert"
    <3> DEFINE t == relation
               s == statement
               targets == TargetsOf(t, s)
    <3>1. t \in WriteTables /\ s \in Inserts
      BY <2>1 DEF WriteInit
    <3>2. ASSUME PgInsert(t, s) # Refused, DefaultsKnown, TableRemembered, ~s.conflict, ";" \notin s.marks,
                 Len(s.rows) <= MaxCompound \/ InsertTargets(t, s) = <<>>,
                 \A c \in Asked.item : DefaultTold(c, {"plain"}),
                 \A c \in Asked.short : DefaultTold(c, {"plain", "time"})
          PROVE  SqliteInsert(t, s) = PgInsert(t, s)
      <4>1. ASSUME NEW r \in DOMAIN s.rows, s.listed # <<>> => Len(s.rows[r]) = Len(s.listed), Len(s.rows[r]) <= Len(targets)
            PROVE  RowIsTold(t, s, r)
        <5> DEFINE row == s.rows[r]
        <5>1. Len(row) \in Nat /\ DOMAIN row = 1..Len(row) /\ row \in ToSet(s.rows)
          BY <3>1, <4>1, RowsAreItems DEF ToSet
        <5>2. /\ Asked.item = UNION {{targets[i] : i \in {i \in DOMAIN q : q[i] = "default"}} : q \in ToSet(s.rows)}
              /\ Asked.short = UNION {{targets[i] : i \in (Len(q) + 1)..Len(targets)} : q \in ToSet(s.rows)}
          BY DEF Asked, TargetsOf
        <5>3. targets \in Seq(Nat)
          BY <3>1, TargetsAreColumns
        <5> HIDE DEF row, targets
        <5>4. ASSUME NEW i \in DOMAIN row, row[i] = "default"
              PROVE  t.known /\ ~Forgotten(s, r, i) /\ AllTold(t.columns[targets[i]], {"plain"})
          <6>1. targets[i] \in Asked.item
            BY <5>1, <5>2, <5>4
          <6> QED
            BY <3>2, <4>1, <5>4, <6>1 DEF DefaultTold, AllTold, DefaultsKnown, TableRemembered, row
        <5>5. ASSUME Len(row) < Len(targets)
              PROVE  /\ t.known /\ s.listed = <<>> /\ ~Forgotten(s, r, Len(row) + 1)
                     /\ \A i \in (Len(row) + 1)..Len(targets) : AllTold(t.columns[targets[i]], {"plain", "time"})
          <6>1. \A i \in (Len(row) + 1)..Len(targets) : targets[i] \in Asked.short
            BY <5>1, <5>2
          <6>2. Len(row) + 1 \in (Len(row) + 1)..Len(targets)
            BY <5>1, <5>3, <5>5
          <6>3. s.listed = <<>>
            BY <4>1, <5>1, <5>5 DEF targets, row, TargetsOf
          <6> QED
            BY <3>2, <4>1, <6>1, <6>2, <6>3 DEF DefaultTold, AllTold, DefaultsKnown, TableRemembered, row
        <5> QED
          BY <4>1, <5>4, <5>5 DEF RowIsTold, row, targets
      <4> QED
        BY <3>1, <3>2, <4>1, InsertsDoWhatTheySay
    <3>3. InsertAsAsked
      BY <3>2, Zenon DEF InsertAsAsked
    <3> QED
      BY <2>1, <3>3 DEF WritesDoWhatTheySay
  <2>2. CASE verb = "update"
    <3>1. relation \in WriteTables /\ statement \in Updates
      BY <2>2 DEF WriteInit
    <3>2. UpdateAsAsked
      BY <3>1, UpdatesDoWhatTheySay, Zenon DEF UpdateAsAsked, Captured
    <3> QED
      BY <2>2, <3>2 DEF WritesDoWhatTheySay
  <2> QED
    BY <2>1, <2>2 DEF WriteInit
<1>2. WriteInit /\ [UNCHANGED writeVars]_writeVars => WriteInit'
  BY DEF WriteInit, writeVars
<1> QED
  BY <1>1, <1>2, PTL DEF WriteSpec

-----------------------------------------------------------------------------
(* Set operations *)

SetRank == [t \in SetTrees |-> Height[t]]
Bags    == [{1, 2} -> Nat]

LEMMA SetTreeIs ==
  /\ SetRank \in [SetTrees -> Nat]
  /\ \A t \in SetTrees :
       /\ IsBag(t) => t.bag \in Bags
       /\ ~IsBag(t) =>
            /\ t.left \in SetTrees /\ t.right \in SetTrees /\ SetRank[t.left] < SetRank[t] /\ SetRank[t.right] < SetRank[t]
            /\ t.op \in {"union", "intersect", "except"} /\ t.all \in BOOLEAN
<1>1. \A t \in SetTrees : Height[t] \in Nat /\ IsSetTree(t)
  BY SelectAssumption
<1>2. SetRank \in [SetTrees -> Nat] /\ \A t \in SetTrees : SetRank[t] = Height[t]
  BY <1>1 DEF SetRank
<1>3. ASSUME NEW t \in SetTrees, IsBag(t) PROVE t.bag \in Bags
  BY <1>1, <1>3 DEF IsSetTree, Bags
<1>4. ASSUME NEW t \in SetTrees, ~IsBag(t)
      PROVE  /\ t.left \in SetTrees /\ t.right \in SetTrees /\ Height[t.left] < Height[t] /\ Height[t.right] < Height[t]
             /\ t.op \in {"union", "intersect", "except"} /\ t.all \in BOOLEAN
  <2>1. t.op \in {"union", "intersect", "except"} /\ t.all \in BOOLEAN /\ Within(t, {t.left, t.right}, SetTrees)
    BY <1>1, <1>4 DEF IsSetTree
  <2> QED
    BY <2>1 DEF Within
<1> QED
  BY <1>2, <1>3, <1>4

LEMMA CombineIs ==
  ASSUME NEW op \in {"union", "intersect", "except"}, NEW all \in BOOLEAN, NEW l \in Bags, NEW r \in Bags
  PROVE  Combine(op, all, l, r) \in Bags
<1> DEFINE bag == [x \in {1, 2} |->
                     CASE op = "union"               -> l[x] + r[x]
                       [] op = "intersect"           -> AtMost(l[x], r[x])
                       [] op = "except" /\ all       -> Monus(l[x], r[x])
                       [] op = "except" /\ ~all      -> IF r[x] > 0 THEN 0 ELSE l[x]]
<1>1. bag \in Bags
  BY DEF Bags, AtMost, Monus
<1>2. \A b \in Bags : OneOfEach(b) \in Bags
  BY DEF OneOfEach, Bags, AtMost
<1>3. Combine(op, all, l, r) = IF all THEN bag ELSE OneOfEach(bag)
  BY DEF Combine
<1> HIDE DEF bag
<1> QED
  BY <1>1, <1>2, <1>3

PgSetStep(t, f) == IF IsBag(t) THEN t.bag ELSE Combine(t.op, t.all, f[t.left], f[t.right])

PgSetBy == [p \in SetTrees \X [SetTrees -> Bags] |-> PgSetStep(p[1], p[2])]

LEMMA PgSetStepIs ==
  ASSUME NEW t \in SetTrees, NEW f \in [SetTrees -> Bags]
  PROVE  PgSetStep(t, f) \in Bags
BY SetTreeIs, CombineIs DEF PgSetStep

LEMMA PgSetAgree ==
  ASSUME NEW t \in SetTrees, NEW f, NEW g, \A p \in SetTrees : SetRank[p] < SetRank[t] => f[p] = g[p]
  PROVE  PgSetStep(t, f) = PgSetStep(t, g)
BY SetTreeIs DEF PgSetStep

LEMMA PgSetLowers == Lowers(SetTrees, SetRank, Bags, PgSetBy)
<1> DEFINE F == [SetTrees -> Bags]
<1>1. SetRank \in [SetTrees -> Nat]
  BY SetTreeIs
<1>2. Bags # {}
  <2>1. [x \in {1, 2} |-> 0] \in Bags
    BY DEF Bags
  <2> QED
    BY <2>1
<1>3. PgSetBy \in [SetTrees \X F -> Bags] /\ \A t \in SetTrees, f \in F : PgSetBy[<<t, f>>] = PgSetStep(t, f)
  BY PgSetStepIs, Zenon DEF PgSetBy
<1>4. \A t \in SetTrees : \A f, g \in F :
        (\A p \in SetTrees : SetRank[p] < SetRank[t] => f[p] = g[p]) => PgSetBy[<<t, f>>] = PgSetBy[<<t, g>>]
  <2> HIDE DEF F
  <2> TAKE t \in SetTrees
  <2> TAKE f, g \in F
  <2> HAVE \A p \in SetTrees : SetRank[p] < SetRank[t] => f[p] = g[p]
  <2>1. PgSetStep(t, f) = PgSetStep(t, g)
    BY PgSetAgree
  <2> QED
    BY <1>3, <2>1
<1> QED
  BY <1>1, <1>2, <1>3, <1>4, Zenon DEF Lowers

LEMMA PgSetIs ==
  /\ PgSet \in [SetTrees -> Bags]
  /\ \A t \in SetTrees : PgSet[t] = PgSetStep(t, PgSet)
<1>1. PICK f \in [SetTrees -> Bags] : f = [t \in SetTrees |-> PgSetBy[<<t, f>>]]
  BY PgSetLowers, TreeRecursion
<1>2. \A t \in SetTrees : PgSetBy[<<t, f>>] = PgSetStep(t, f)
  BY Zenon DEF PgSetBy
<1>3. f = [t \in SetTrees |-> PgSetStep(t, f)]
  BY <1>1, <1>2
<1>4. PgSet = CHOOSE g : g = [t \in SetTrees |-> PgSetStep(t, g)]
  BY Zenon DEF PgSet, PgSetStep
<1>5. PgSet = [t \in SetTrees |-> PgSetStep(t, PgSet)]
  BY <1>3, <1>4, Zenon
<1>6. \A t \in SetTrees : (\A p \in SetTrees : SetRank[p] < SetRank[t] => PgSet[p] = f[p]) => PgSet[t] = f[t]
  <2> TAKE t \in SetTrees
  <2> HAVE \A p \in SetTrees : SetRank[p] < SetRank[t] => PgSet[p] = f[p]
  <2>1. PgSetStep(t, PgSet) = PgSetStep(t, f)
    BY PgSetAgree
  <2>2. PgSet[t] = PgSetStep(t, PgSet) /\ f[t] = PgSetStep(t, f)
    BY <1>3, <1>5
  <2> QED
    BY <2>1, <2>2
<1>7. \A t \in SetTrees : PgSet[t] = f[t]
  BY <1>6, SetTreeIs, TreesAgree
<1>8. \A t \in SetTrees : PgSet[t] \in Bags
  BY <1>1, <1>7
<1> QED
  BY <1>5, <1>8

SetNodesStep(t, f) == IF IsBag(t) THEN {} ELSE {t} \cup f[t.left] \cup f[t.right]

SetNodesBy == [p \in SetTrees \X [SetTrees -> SUBSET SetTrees] |-> SetNodesStep(p[1], p[2])]

LEMMA SetNodesStepIs ==
  ASSUME NEW t \in SetTrees, NEW f \in [SetTrees -> SUBSET SetTrees]
  PROVE  SetNodesStep(t, f) \in SUBSET SetTrees
<1>1. ~IsBag(t) => f[t.left] \subseteq SetTrees /\ f[t.right] \subseteq SetTrees
  BY SetTreeIs
<1> QED
  BY <1>1 DEF SetNodesStep

LEMMA SetNodesAgree ==
  ASSUME NEW t \in SetTrees, NEW f, NEW g, \A p \in SetTrees : SetRank[p] < SetRank[t] => f[p] = g[p]
  PROVE  SetNodesStep(t, f) = SetNodesStep(t, g)
BY SetTreeIs DEF SetNodesStep

LEMMA SetNodesLowers == Lowers(SetTrees, SetRank, SUBSET SetTrees, SetNodesBy)
<1> DEFINE F == [SetTrees -> SUBSET SetTrees]
<1>1. SetRank \in [SetTrees -> Nat]
  BY SetTreeIs
<1>2. SUBSET SetTrees # {}
  OBVIOUS
<1>3. SetNodesBy \in [SetTrees \X F -> SUBSET SetTrees] /\ \A t \in SetTrees, f \in F : SetNodesBy[<<t, f>>] = SetNodesStep(t, f)
  BY SetNodesStepIs, Zenon DEF SetNodesBy
<1>4. \A t \in SetTrees : \A f, g \in F :
        (\A p \in SetTrees : SetRank[p] < SetRank[t] => f[p] = g[p]) => SetNodesBy[<<t, f>>] = SetNodesBy[<<t, g>>]
  <2> HIDE DEF F
  <2> TAKE t \in SetTrees
  <2> TAKE f, g \in F
  <2> HAVE \A p \in SetTrees : SetRank[p] < SetRank[t] => f[p] = g[p]
  <2>1. SetNodesStep(t, f) = SetNodesStep(t, g)
    BY SetNodesAgree
  <2> QED
    BY <1>3, <2>1
<1> QED
  BY <1>1, <1>2, <1>3, <1>4, Zenon DEF Lowers

LEMMA SetNodesIs ==
  /\ SetNodes \in [SetTrees -> SUBSET SetTrees]
  /\ \A t \in SetTrees : SetNodes[t] = SetNodesStep(t, SetNodes)
<1>1. PICK f \in [SetTrees -> SUBSET SetTrees] : f = [t \in SetTrees |-> SetNodesBy[<<t, f>>]]
  BY SetNodesLowers, TreeRecursion
<1>2. \A t \in SetTrees : SetNodesBy[<<t, f>>] = SetNodesStep(t, f)
  BY Zenon DEF SetNodesBy
<1>3. f = [t \in SetTrees |-> SetNodesStep(t, f)]
  BY <1>1, <1>2
<1>4. SetNodes = CHOOSE g : g = [t \in SetTrees |-> SetNodesStep(t, g)]
  BY Zenon DEF SetNodes, SetNodesStep
<1>5. SetNodes = [t \in SetTrees |-> SetNodesStep(t, SetNodes)]
  BY <1>3, <1>4, Zenon
<1>6. \A t \in SetTrees : (\A p \in SetTrees : SetRank[p] < SetRank[t] => SetNodes[p] = f[p]) => SetNodes[t] = f[t]
  <2> TAKE t \in SetTrees
  <2> HAVE \A p \in SetTrees : SetRank[p] < SetRank[t] => SetNodes[p] = f[p]
  <2>1. SetNodesStep(t, SetNodes) = SetNodesStep(t, f)
    BY SetNodesAgree
  <2>2. SetNodes[t] = SetNodesStep(t, SetNodes) /\ f[t] = SetNodesStep(t, f)
    BY <1>3, <1>5
  <2> QED
    BY <2>1, <2>2
<1>7. \A t \in SetTrees : SetNodes[t] = f[t]
  BY <1>6, SetTreeIs, TreesAgree
<1>8. \A t \in SetTrees : SetNodes[t] \in SUBSET SetTrees
  BY <1>1, <1>7
<1> QED
  BY <1>5, <1>8

SqliteSetStep(t, f) ==
  LET text        == WriteSet(t)
      Value(item) == IF IsBag(item) THEN item.bag ELSE f[item.select]
      after[i \in 0..(Len(text) \div 2)] ==
        IF i = 0 THEN Value(text[1])
        ELSE LET op == text[2 * i].op
             IN  Combine(IF op = "union all" THEN "union" ELSE op, op = "union all",
                         after[i - 1], Value(text[2 * i + 1]))
  IN  after[Len(text) \div 2]

SqliteSetBy == [p \in SetTrees \X [SetTrees -> Bags] |-> SqliteSetStep(p[1], p[2])]

\* What a tree that is not a bag is: one operator between two operands.
LEMMA WrittenOnce ==
  ASSUME NEW t \in SetTrees, ~IsBag(t)
  PROVE  LET text == WriteSet(t)
             l    == IF IsBag(t.left) THEN t.left ELSE [select |-> t.left]
             r    == IF IsBag(t.right) THEN t.right ELSE [select |-> t.right]
         IN  Len(text) = 3 /\ text[1] = l /\ text[2] = SetOperator(t) /\ text[3] = r
<1> DEFINE l == IF IsBag(t.left) THEN t.left ELSE [select |-> t.left]
           r == IF IsBag(t.right) THEN t.right ELSE [select |-> t.right]
           o == SetOperator(t)
           X == {l, r, o}
           text == <<l>> \o <<o>> \o <<r>>
<1>1. WriteSet(t) = text
  BY DEF WriteSet, WriteSetOperand
<1>2. l \in X /\ r \in X /\ o \in X
  OBVIOUS
<1> HIDE DEF l, r, o, X
<1>3. <<l>> \in Seq(X) /\ <<o>> \in Seq(X) /\ <<r>> \in Seq(X)
  BY <1>2
<1>4. Len(text) = 3 /\ text[1] = l /\ text[2] = o /\ text[3] = r
  BY <1>3
<1> QED
  BY <1>1, <1>4 DEF l, r, o

LEMMA SqliteSetIsOneStep ==
  ASSUME NEW t \in SetTrees, NEW f
  PROVE  SqliteSetStep(t, f) =
           LET Value(p) == IF IsBag(p) THEN p.bag ELSE f[p]
               op       == SetOperator(t).op
           IN  IF IsBag(t) THEN t.bag
               ELSE Combine(IF op = "union all" THEN "union" ELSE op, op = "union all", Value(t.left), Value(t.right))
<1> DEFINE text        == WriteSet(t)
           Value(item) == IF IsBag(item) THEN item.bag ELSE f[item.select]
           IsAfter(g, n) == g = [i \in 0..n |->
             IF i = 0 THEN Value(text[1])
             ELSE LET op == text[2 * i].op
                  IN  Combine(IF op = "union all" THEN "union" ELSE op, op = "union all",
                              g[i - 1], Value(text[2 * i + 1]))]
           after == CHOOSE g : IsAfter(g, Len(text) \div 2)
<1>1. SqliteSetStep(t, f) = after[Len(text) \div 2]
  BY Zenon DEF SqliteSetStep
<1>2. CASE IsBag(t)
  <2>1. text = <<t>>
    BY <1>2 DEF WriteSet
  <2>2. Len(text) \div 2 = 0 /\ text[1] = t
    BY <2>1
  <2>3. \E g : IsAfter(g, 0)
    <3> DEFINE g == [i \in 0..0 |-> Value(text[1])]
    <3> HIDE DEF text, Value
    <3>1. IsAfter(g, 0)
      OBVIOUS
    <3> QED
      BY <3>1
  <2>4. IsAfter(after, 0)
    <3> HIDE DEF IsAfter
    <3> QED
      BY <2>2, <2>3
  <2> HIDE DEF after, text
  <2>5. after[0] = Value(t)
    <3> HIDE DEF Value
    <3> QED
      BY <2>2, <2>4
  <2> QED
    BY <1>1, <1>2, <2>2, <2>5
<1>3. CASE ~IsBag(t)
  <2> DEFINE l == IF IsBag(t.left) THEN t.left ELSE [select |-> t.left]
             r == IF IsBag(t.right) THEN t.right ELSE [select |-> t.right]
             op == SetOperator(t).op
             Both(a) == Combine(IF op = "union all" THEN "union" ELSE op, op = "union all", a, Value(r))
  <2>1. Len(text) = 3 /\ text[1] = l /\ text[2] = SetOperator(t) /\ text[3] = r
    BY <1>3, WrittenOnce
  <2>2. Len(text) \div 2 = 1
    BY <2>1
  <2>3. ~IsBag([select |-> t.left]) /\ ~IsBag([select |-> t.right])
    <3>1. \A x : DOMAIN [select |-> x] = {"select"}
      OBVIOUS
    <3> QED
      BY <3>1 DEF IsBag
  <2>4. Value(l) = (IF IsBag(t.left) THEN t.left.bag ELSE f[t.left]) /\ Value(r) = (IF IsBag(t.right) THEN t.right.bag ELSE f[t.right])
    BY <2>3
  <2> HIDE DEF l, r, op, text, Value
  <2>5. \A g : IsAfter(g, 1) <=> g = [i \in 0..1 |-> IF i = 0 THEN Value(l) ELSE Both(g[i - 1])]
    <3> TAKE g
    <3>1. \A i \in 0..1 :
            (IF i = 0 THEN Value(text[1])
             ELSE LET o == text[2 * i].op
                  IN  Combine(IF o = "union all" THEN "union" ELSE o, o = "union all", g[i - 1], Value(text[2 * i + 1])))
            = IF i = 0 THEN Value(l) ELSE Both(g[i - 1])
      <4> TAKE i \in 0..1
      <4>0. i \in {0, 1}
        OBVIOUS
      <4>1. CASE i = 0
        BY <2>1, <4>1
      <4>2. CASE i = 1
        <5>1. 2 * i = 2 /\ 2 * i + 1 = 3 /\ i # 0
          BY <4>2
        <5>2. text[2 * i].op = op /\ text[2 * i + 1] = r
          BY <2>1, <5>1, Zenon DEF op
        <5> QED
          BY <5>1, <5>2, Zenon
      <4> QED
        BY <4>0, <4>1, <4>2, Zenon
    <3> HIDE DEF Both
    <3> QED
      BY <3>1
  <2> HIDE DEF IsAfter, Both
  <2>6. \E g : IsAfter(g, 1)
    <3> DEFINE g == [i \in 0..1 |-> IF i = 0 THEN Value(l) ELSE Both(Value(l))]
    <3>1. g = [i \in 0..1 |-> IF i = 0 THEN Value(l) ELSE Both(g[i - 1])]
      OBVIOUS
    <3> HIDE DEF g
    <3> QED
      BY <2>5, <3>1
  <2>7. IsAfter(after, 1)
    BY <2>2, <2>6
  <2> HIDE DEF after
  <2>8. after = [i \in 0..1 |-> IF i = 0 THEN Value(l) ELSE Both(after[i - 1])]
    BY <2>5, <2>7
  <2>9. after[1] = Both(Value(l))
    BY <2>8
  <2> QED
    BY <1>1, <1>3, <2>2, <2>4, <2>9 DEF Both, op
<1> QED
  BY <1>2, <1>3

LEMMA SetOperatorIs ==
  ASSUME NEW t \in SetTrees, ~IsBag(t)
  PROVE  LET op == SetOperator(t).op
         IN  /\ (IF op = "union all" THEN "union" ELSE op) = t.op
             /\ op = "union all" <=> t.op = "union" /\ t.all
BY SetTreeIs DEF SetOperator

LEMMA SqliteSetStepIs ==
  ASSUME NEW t \in SetTrees, NEW f \in [SetTrees -> Bags]
  PROVE  SqliteSetStep(t, f) \in Bags
<1>1. CASE IsBag(t)
  BY <1>1, SqliteSetIsOneStep, SetTreeIs
<1>2. CASE ~IsBag(t)
  <2> DEFINE Value(p) == IF IsBag(p) THEN p.bag ELSE f[p]
             op       == SetOperator(t).op
             kind_    == IF op = "union all" THEN "union" ELSE op
             all_     == op = "union all"
  <2>1. SqliteSetStep(t, f) = Combine(kind_, all_, Value(t.left), Value(t.right))
    BY <1>2, SqliteSetIsOneStep
  <2>2. Value(t.left) \in Bags /\ Value(t.right) \in Bags
    BY <1>2, SetTreeIs
  <2>3. kind_ \in {"union", "intersect", "except"} /\ all_ \in BOOLEAN
    BY <1>2, SetOperatorIs, SetTreeIs
  <2> HIDE DEF kind_, all_, Value
  <2> QED
    BY <2>1, <2>2, <2>3, CombineIs
<1> QED
  BY <1>1, <1>2

LEMMA SqliteSetAgree ==
  ASSUME NEW t \in SetTrees, NEW f, NEW g, \A p \in SetTrees : SetRank[p] < SetRank[t] => f[p] = g[p]
  PROVE  SqliteSetStep(t, f) = SqliteSetStep(t, g)
<1>1. CASE IsBag(t)
  BY <1>1, SqliteSetIsOneStep
<1>2. CASE ~IsBag(t)
  <2>1. f[t.left] = g[t.left] /\ f[t.right] = g[t.right]
    BY <1>2, SetTreeIs
  <2> DEFINE op         == SetOperator(t).op
             Value(p, h) == IF IsBag(p) THEN p.bag ELSE h[p]
             Is(h)      == Combine(IF op = "union all" THEN "union" ELSE op, op = "union all",
                                   Value(t.left, h), Value(t.right, h))
  <2>2. SqliteSetStep(t, f) = Is(f)
    BY <1>2, SqliteSetIsOneStep
  <2>3. SqliteSetStep(t, g) = Is(g)
    BY <1>2, SqliteSetIsOneStep
  <2>4. Value(t.left, f) = Value(t.left, g) /\ Value(t.right, f) = Value(t.right, g)
    BY <2>1
  <2> HIDE DEF Value, op
  <2> QED
    BY <2>2, <2>3, <2>4
<1> QED
  BY <1>1, <1>2

LEMMA SqliteSetLowers == Lowers(SetTrees, SetRank, Bags, SqliteSetBy)
<1> DEFINE F == [SetTrees -> Bags]
<1>1. SetRank \in [SetTrees -> Nat]
  BY SetTreeIs
<1>2. Bags # {}
  <2>1. [x \in {1, 2} |-> 0] \in Bags
    BY DEF Bags
  <2> QED
    BY <2>1
<1>3. SqliteSetBy \in [SetTrees \X F -> Bags] /\ \A t \in SetTrees, f \in F : SqliteSetBy[<<t, f>>] = SqliteSetStep(t, f)
  BY SqliteSetStepIs, Zenon DEF SqliteSetBy
<1>4. \A t \in SetTrees : \A f, g \in F :
        (\A p \in SetTrees : SetRank[p] < SetRank[t] => f[p] = g[p]) => SqliteSetBy[<<t, f>>] = SqliteSetBy[<<t, g>>]
  <2> HIDE DEF F
  <2> TAKE t \in SetTrees
  <2> TAKE f, g \in F
  <2> HAVE \A p \in SetTrees : SetRank[p] < SetRank[t] => f[p] = g[p]
  <2>1. SqliteSetStep(t, f) = SqliteSetStep(t, g)
    BY SqliteSetAgree
  <2> QED
    BY <1>3, <2>1
<1> QED
  BY <1>1, <1>2, <1>3, <1>4, Zenon DEF Lowers

LEMMA SqliteSetIs ==
  /\ SqliteSet \in [SetTrees -> Bags]
  /\ \A t \in SetTrees : SqliteSet[t] = SqliteSetStep(t, SqliteSet)
<1>1. PICK f \in [SetTrees -> Bags] : f = [t \in SetTrees |-> SqliteSetBy[<<t, f>>]]
  BY SqliteSetLowers, TreeRecursion
<1>2. \A t \in SetTrees : SqliteSetBy[<<t, f>>] = SqliteSetStep(t, f)
  BY Zenon DEF SqliteSetBy
<1>3. f = [t \in SetTrees |-> SqliteSetStep(t, f)]
  BY <1>1, <1>2
<1>4. SqliteSet = CHOOSE g : g = [t \in SetTrees |-> SqliteSetStep(t, g)]
  BY Zenon DEF SqliteSet, SqliteSetStep
<1>5. SqliteSet = [t \in SetTrees |-> SqliteSetStep(t, SqliteSet)]
  BY <1>3, <1>4, Zenon
<1>6. \A t \in SetTrees : (\A p \in SetTrees : SetRank[p] < SetRank[t] => SqliteSet[p] = f[p]) => SqliteSet[t] = f[t]
  <2> TAKE t \in SetTrees
  <2> HAVE \A p \in SetTrees : SetRank[p] < SetRank[t] => SqliteSet[p] = f[p]
  <2>1. SqliteSetStep(t, SqliteSet) = SqliteSetStep(t, f)
    BY SqliteSetAgree
  <2>2. SqliteSet[t] = SqliteSetStep(t, SqliteSet) /\ f[t] = SqliteSetStep(t, f)
    BY <1>3, <1>5
  <2> QED
    BY <2>1, <2>2
<1>7. \A t \in SetTrees : SqliteSet[t] = f[t]
  BY <1>6, SetTreeIs, TreesAgree
<1>8. \A t \in SetTrees : SqliteSet[t] \in Bags
  BY <1>1, <1>7
<1> QED
  BY <1>5, <1>8

\* Read from left to right, what is written for a tree is the tree, unless ALL is
\* lost in it.
LEMMA SetsAnswer ==
  \A t \in SetTrees : (\A n \in SetNodes[t] : n.all => n.op = "union") => SqliteSet[t] = PgSet[t]
<1> DEFINE T == {t \in SetTrees : (\A n \in SetNodes[t] : n.all => n.op = "union") => SqliteSet[t] = PgSet[t]}
<1>1. ASSUME NEW t \in SetTrees, \A p \in SetTrees : SetRank[p] < SetRank[t] => p \in T PROVE t \in T
  <2> SUFFICES ASSUME \A n \in SetNodes[t] : n.all => n.op = "union" PROVE SqliteSet[t] = PgSet[t]
    OBVIOUS
  <2>1. SetNodes[t] = SetNodesStep(t, SetNodes) /\ PgSet[t] = PgSetStep(t, PgSet) /\ SqliteSet[t] = SqliteSetStep(t, SqliteSet)
    BY SetNodesIs, PgSetIs, SqliteSetIs
  <2>2. CASE IsBag(t)
    BY <2>1, <2>2, SqliteSetIsOneStep DEF PgSetStep
  <2>3. CASE ~IsBag(t)
    <3> DEFINE Value(p) == IF IsBag(p) THEN p.bag ELSE SqliteSet[p]
               op       == SetOperator(t).op
               kind_    == IF op = "union all" THEN "union" ELSE op
               all_     == op = "union all"
    <3>1. /\ t.left \in SetTrees /\ t.right \in SetTrees /\ SetRank[t.left] < SetRank[t] /\ SetRank[t.right] < SetRank[t]
          /\ t.all \in BOOLEAN
      BY <2>3, SetTreeIs
    <3>2. SetNodes[t] = {t} \cup SetNodes[t.left] \cup SetNodes[t.right]
      BY <2>1, <2>3 DEF SetNodesStep
    <3>3. SqliteSet[t.left] = PgSet[t.left] /\ SqliteSet[t.right] = PgSet[t.right] /\ (t.all => t.op = "union")
      BY <1>1, <3>1, <3>2
    <3>4. SqliteSet[t] = Combine(kind_, all_, Value(t.left), Value(t.right))
      BY <2>1, <2>3, SqliteSetIsOneStep
    <3>5. kind_ = t.op /\ all_ = t.all
      BY <2>3, <3>1, <3>3, SetOperatorIs
    <3>6. \A p \in SetTrees : Value(p) = SqliteSet[p]
      <4> TAKE p \in SetTrees
      <4>1. SqliteSet[p] = SqliteSetStep(p, SqliteSet)
        BY SqliteSetIs
      <4> QED
        BY <4>1, SqliteSetIsOneStep
    <3> HIDE DEF kind_, all_, Value
    <3>7. SqliteSet[t] = Combine(t.op, t.all, SqliteSet[t.left], SqliteSet[t.right])
      BY <3>1, <3>4, <3>5, <3>6
    <3> QED
      BY <2>1, <2>3, <3>3, <3>7 DEF PgSetStep
  <2> QED
    BY <2>2, <2>3
<1> HIDE DEF T
<1>2. SetTrees \subseteq T
  BY <1>1, SetTreeIs, TreeInduction
<1> QED
  BY <1>2 DEF T

-----------------------------------------------------------------------------
(* Joins *)

JoinRank == [t \in JoinTrees |-> Height[t]]

LEMMA JoinTreeIs ==
  /\ JoinRank \in [JoinTrees -> Nat]
  /\ \A t \in JoinTrees :
       /\ IsTable(t) => t.rows \subseteq Nat
       /\ ~IsTable(t) =>
            /\ t.left \in JoinTrees /\ t.right \in JoinTrees /\ JoinRank[t.left] < JoinRank[t] /\ JoinRank[t.right] < JoinRank[t]
            /\ t.join \in {"inner", "left", "right", "full"}
<1>1. \A t \in JoinTrees : Height[t] \in Nat /\ IsJoinTree(t)
  BY SelectAssumption
<1>2. JoinRank \in [JoinTrees -> Nat] /\ \A t \in JoinTrees : JoinRank[t] = Height[t]
  BY <1>1 DEF JoinRank
<1>3. ASSUME NEW t \in JoinTrees, IsTable(t) PROVE t.rows \subseteq Nat
  BY <1>1, <1>3 DEF IsJoinTree
<1>4. ASSUME NEW t \in JoinTrees, ~IsTable(t)
      PROVE  /\ t.left \in JoinTrees /\ t.right \in JoinTrees /\ Height[t.left] < Height[t] /\ Height[t.right] < Height[t]
             /\ t.join \in {"inner", "left", "right", "full"}
  <2>1. t.join \in {"inner", "left", "right", "full"} /\ Within(t, {t.left, t.right}, JoinTrees)
    BY <1>1, <1>4 DEF IsJoinTree
  <2> QED
    BY <2>1 DEF Within
<1> QED
  BY <1>2, <1>3, <1>4

LEMMA JoinRowsIs ==
  ASSUME NEW X, 0 \in X, NEW join, NEW l \in SUBSET Seq(X), NEW r \in SUBSET Seq(X), NEW lw \in Nat, NEW rw \in Nat
  PROVE  JoinRows(join, l, r, lw, rw) \in SUBSET Seq(X)
<1>1. \A n \in Nat : Nulls(n) \in Seq(X)
  BY DEF Nulls
<1> DEFINE Match(a, b) == a[lw] = b[1] /\ a[lw] # 0
           both  == {p[1] \o p[2] : p \in {p \in l \X r : Match(p[1], p[2])}}
           onlyl == {a \o Nulls(rw) : a \in {a \in l : \A b \in r : ~Match(a, b)}}
           onlyr == {Nulls(lw) \o b : b \in {b \in r : \A a \in l : ~Match(a, b)}}
<1>2. \A a, b \in Seq(X) : a \o b \in Seq(X)
  OBVIOUS
<1> HIDE DEF Match
<1>3. both \subseteq Seq(X)
  BY <1>2
<1>4. onlyl \subseteq Seq(X)
  BY <1>1, <1>2
<1>5. onlyr \subseteq Seq(X)
  BY <1>1, <1>2
<1>6. JoinRows(join, l, r, lw, rw) =
        both \cup (IF join \in {"left", "full"} THEN onlyl ELSE {}) \cup (IF join \in {"right", "full"} THEN onlyr ELSE {})
  BY DEF JoinRows, Match
<1> HIDE DEF both, onlyl, onlyr
<1> QED
  BY <1>3, <1>4, <1>5, <1>6

WidthStep(t, f) == IF IsTable(t) THEN 1 ELSE f[t.left] + f[t.right]

WidthBy == [p \in JoinTrees \X [JoinTrees -> Nat] |-> WidthStep(p[1], p[2])]

LEMMA WidthStepIs ==
  ASSUME NEW t \in JoinTrees, NEW f \in [JoinTrees -> Nat]
  PROVE  WidthStep(t, f) \in Nat
BY JoinTreeIs DEF WidthStep

LEMMA WidthAgree ==
  ASSUME NEW t \in JoinTrees, NEW f, NEW g, \A p \in JoinTrees : JoinRank[p] < JoinRank[t] => f[p] = g[p]
  PROVE  WidthStep(t, f) = WidthStep(t, g)
BY JoinTreeIs DEF WidthStep

LEMMA WidthLowers == Lowers(JoinTrees, JoinRank, Nat, WidthBy)
<1> DEFINE F == [JoinTrees -> Nat]
<1>1. JoinRank \in [JoinTrees -> Nat]
  BY JoinTreeIs
<1>2. Nat # {}
  OBVIOUS
<1>3. WidthBy \in [JoinTrees \X F -> Nat] /\ \A t \in JoinTrees, f \in F : WidthBy[<<t, f>>] = WidthStep(t, f)
  BY WidthStepIs, Zenon DEF WidthBy
<1>4. \A t \in JoinTrees : \A f, g \in F :
        (\A p \in JoinTrees : JoinRank[p] < JoinRank[t] => f[p] = g[p]) => WidthBy[<<t, f>>] = WidthBy[<<t, g>>]
  <2> HIDE DEF F
  <2> TAKE t \in JoinTrees
  <2> TAKE f, g \in F
  <2> HAVE \A p \in JoinTrees : JoinRank[p] < JoinRank[t] => f[p] = g[p]
  <2>1. WidthStep(t, f) = WidthStep(t, g)
    BY WidthAgree
  <2> QED
    BY <1>3, <2>1
<1> QED
  BY <1>1, <1>2, <1>3, <1>4, Zenon DEF Lowers

LEMMA WidthIs ==
  /\ Width \in [JoinTrees -> Nat]
  /\ \A t \in JoinTrees : Width[t] = WidthStep(t, Width)
<1>1. PICK f \in [JoinTrees -> Nat] : f = [t \in JoinTrees |-> WidthBy[<<t, f>>]]
  BY WidthLowers, TreeRecursion
<1>2. \A t \in JoinTrees : WidthBy[<<t, f>>] = WidthStep(t, f)
  BY Zenon DEF WidthBy
<1>3. f = [t \in JoinTrees |-> WidthStep(t, f)]
  BY <1>1, <1>2
<1>4. Width = CHOOSE g : g = [t \in JoinTrees |-> WidthStep(t, g)]
  BY Zenon DEF Width, WidthStep
<1>5. Width = [t \in JoinTrees |-> WidthStep(t, Width)]
  BY <1>3, <1>4, Zenon
<1>6. \A t \in JoinTrees : (\A p \in JoinTrees : JoinRank[p] < JoinRank[t] => Width[p] = f[p]) => Width[t] = f[t]
  <2> TAKE t \in JoinTrees
  <2> HAVE \A p \in JoinTrees : JoinRank[p] < JoinRank[t] => Width[p] = f[p]
  <2>1. WidthStep(t, Width) = WidthStep(t, f)
    BY WidthAgree
  <2>2. Width[t] = WidthStep(t, Width) /\ f[t] = WidthStep(t, f)
    BY <1>3, <1>5
  <2> QED
    BY <2>1, <2>2
<1>7. \A t \in JoinTrees : Width[t] = f[t]
  <2> DEFINE T == {t \in JoinTrees : Width[t] = f[t]}
  <2>1. \A t \in JoinTrees : (\A p \in JoinTrees : JoinRank[p] < JoinRank[t] => p \in T) => t \in T
    BY <1>6
  <2> HIDE DEF T
  <2>2. JoinTrees \subseteq T
    BY <2>1, JoinTreeIs, TreeInduction
  <2> QED
    BY <2>2 DEF T
<1>8. \A t \in JoinTrees : Width[t] \in Nat
  BY <1>1, <1>7
<1> QED
  BY <1>5, <1>8

JoinNodesStep(t, f) == IF IsTable(t) THEN {} ELSE {t} \cup f[t.left] \cup f[t.right]

JoinNodesBy == [p \in JoinTrees \X [JoinTrees -> SUBSET JoinTrees] |-> JoinNodesStep(p[1], p[2])]

LEMMA JoinNodesStepIs ==
  ASSUME NEW t \in JoinTrees, NEW f \in [JoinTrees -> SUBSET JoinTrees]
  PROVE  JoinNodesStep(t, f) \in SUBSET JoinTrees
<1>1. ~IsTable(t) => f[t.left] \subseteq JoinTrees /\ f[t.right] \subseteq JoinTrees
  BY JoinTreeIs
<1> QED
  BY <1>1 DEF JoinNodesStep

LEMMA JoinNodesAgree ==
  ASSUME NEW t \in JoinTrees, NEW f, NEW g, \A p \in JoinTrees : JoinRank[p] < JoinRank[t] => f[p] = g[p]
  PROVE  JoinNodesStep(t, f) = JoinNodesStep(t, g)
BY JoinTreeIs DEF JoinNodesStep

LEMMA JoinNodesLowers == Lowers(JoinTrees, JoinRank, SUBSET JoinTrees, JoinNodesBy)
<1> DEFINE F == [JoinTrees -> SUBSET JoinTrees]
<1>1. JoinRank \in [JoinTrees -> Nat]
  BY JoinTreeIs
<1>2. SUBSET JoinTrees # {}
  OBVIOUS
<1>3. JoinNodesBy \in [JoinTrees \X F -> SUBSET JoinTrees] /\ \A t \in JoinTrees, f \in F : JoinNodesBy[<<t, f>>] = JoinNodesStep(t, f)
  BY JoinNodesStepIs, Zenon DEF JoinNodesBy
<1>4. \A t \in JoinTrees : \A f, g \in F :
        (\A p \in JoinTrees : JoinRank[p] < JoinRank[t] => f[p] = g[p]) => JoinNodesBy[<<t, f>>] = JoinNodesBy[<<t, g>>]
  <2> HIDE DEF F
  <2> TAKE t \in JoinTrees
  <2> TAKE f, g \in F
  <2> HAVE \A p \in JoinTrees : JoinRank[p] < JoinRank[t] => f[p] = g[p]
  <2>1. JoinNodesStep(t, f) = JoinNodesStep(t, g)
    BY JoinNodesAgree
  <2> QED
    BY <1>3, <2>1
<1> QED
  BY <1>1, <1>2, <1>3, <1>4, Zenon DEF Lowers

LEMMA JoinNodesIs ==
  /\ JoinNodes \in [JoinTrees -> SUBSET JoinTrees]
  /\ \A t \in JoinTrees : JoinNodes[t] = JoinNodesStep(t, JoinNodes)
<1>1. PICK f \in [JoinTrees -> SUBSET JoinTrees] : f = [t \in JoinTrees |-> JoinNodesBy[<<t, f>>]]
  BY JoinNodesLowers, TreeRecursion
<1>2. \A t \in JoinTrees : JoinNodesBy[<<t, f>>] = JoinNodesStep(t, f)
  BY Zenon DEF JoinNodesBy
<1>3. f = [t \in JoinTrees |-> JoinNodesStep(t, f)]
  BY <1>1, <1>2
<1>4. JoinNodes = CHOOSE g : g = [t \in JoinTrees |-> JoinNodesStep(t, g)]
  BY Zenon DEF JoinNodes, JoinNodesStep
<1>5. JoinNodes = [t \in JoinTrees |-> JoinNodesStep(t, JoinNodes)]
  BY <1>3, <1>4, Zenon
<1>6. \A t \in JoinTrees : (\A p \in JoinTrees : JoinRank[p] < JoinRank[t] => JoinNodes[p] = f[p]) => JoinNodes[t] = f[t]
  <2> TAKE t \in JoinTrees
  <2> HAVE \A p \in JoinTrees : JoinRank[p] < JoinRank[t] => JoinNodes[p] = f[p]
  <2>1. JoinNodesStep(t, JoinNodes) = JoinNodesStep(t, f)
    BY JoinNodesAgree
  <2>2. JoinNodes[t] = JoinNodesStep(t, JoinNodes) /\ f[t] = JoinNodesStep(t, f)
    BY <1>3, <1>5
  <2> QED
    BY <2>1, <2>2
<1>7. \A t \in JoinTrees : JoinNodes[t] = f[t]
  <2> DEFINE T == {t \in JoinTrees : JoinNodes[t] = f[t]}
  <2>1. \A t \in JoinTrees : (\A p \in JoinTrees : JoinRank[p] < JoinRank[t] => p \in T) => t \in T
    BY <1>6
  <2> HIDE DEF T
  <2>2. JoinTrees \subseteq T
    BY <2>1, JoinTreeIs, TreeInduction
  <2> QED
    BY <2>2 DEF T
<1>8. \A t \in JoinTrees : JoinNodes[t] \in SUBSET JoinTrees
  BY <1>1, <1>7
<1> QED
  BY <1>5, <1>8

LEMMA TableRows ==
  ASSUME NEW t \in JoinTrees, IsTable(t)
  PROVE  {<<x>> : x \in t.rows} \subseteq Seq(Nat)
<1>1. \A x \in Nat : <<x>> \in Seq(Nat)
  OBVIOUS
<1> QED
  BY <1>1, JoinTreeIs

PgJoinStep(t, f) ==
  IF IsTable(t) THEN {<<x>> : x \in t.rows}
  ELSE JoinRows(t.join, f[t.left], f[t.right], Width[t.left], Width[t.right])

PgJoinBy == [p \in JoinTrees \X [JoinTrees -> SUBSET Seq(Nat)] |-> PgJoinStep(p[1], p[2])]

LEMMA PgJoinStepIs ==
  ASSUME NEW t \in JoinTrees, NEW f \in [JoinTrees -> SUBSET Seq(Nat)]
  PROVE  PgJoinStep(t, f) \in SUBSET Seq(Nat)
<1>1. CASE IsTable(t)
  BY <1>1, TableRows DEF PgJoinStep
<1>2. CASE ~IsTable(t)
  <2>1. t.left \in JoinTrees /\ t.right \in JoinTrees
    BY <1>2, JoinTreeIs
  <2>2. f[t.left] \in SUBSET Seq(Nat) /\ f[t.right] \in SUBSET Seq(Nat) /\ Width[t.left] \in Nat /\ Width[t.right] \in Nat
    BY <2>1, WidthIs
  <2>3. JoinRows(t.join, f[t.left], f[t.right], Width[t.left], Width[t.right]) \in SUBSET Seq(Nat)
    BY <2>2, JoinRowsIs
  <2> QED
    BY <1>2, <2>3 DEF PgJoinStep
<1> QED
  BY <1>1, <1>2

LEMMA PgJoinAgree ==
  ASSUME NEW t \in JoinTrees, NEW f, NEW g, \A p \in JoinTrees : JoinRank[p] < JoinRank[t] => f[p] = g[p]
  PROVE  PgJoinStep(t, f) = PgJoinStep(t, g)
BY JoinTreeIs DEF PgJoinStep

LEMMA PgJoinLowers == Lowers(JoinTrees, JoinRank, SUBSET Seq(Nat), PgJoinBy)
<1> DEFINE F == [JoinTrees -> SUBSET Seq(Nat)]
<1>1. JoinRank \in [JoinTrees -> Nat]
  BY JoinTreeIs
<1>2. SUBSET Seq(Nat) # {}
  OBVIOUS
<1>3. PgJoinBy \in [JoinTrees \X F -> SUBSET Seq(Nat)] /\ \A t \in JoinTrees, f \in F : PgJoinBy[<<t, f>>] = PgJoinStep(t, f)
  BY PgJoinStepIs, Zenon DEF PgJoinBy
<1>4. \A t \in JoinTrees : \A f, g \in F :
        (\A p \in JoinTrees : JoinRank[p] < JoinRank[t] => f[p] = g[p]) => PgJoinBy[<<t, f>>] = PgJoinBy[<<t, g>>]
  <2> HIDE DEF F
  <2> TAKE t \in JoinTrees
  <2> TAKE f, g \in F
  <2> HAVE \A p \in JoinTrees : JoinRank[p] < JoinRank[t] => f[p] = g[p]
  <2>1. PgJoinStep(t, f) = PgJoinStep(t, g)
    BY PgJoinAgree
  <2> QED
    BY <1>3, <2>1
<1> QED
  BY <1>1, <1>2, <1>3, <1>4, Zenon DEF Lowers

LEMMA PgJoinIs ==
  /\ PgJoin \in [JoinTrees -> SUBSET Seq(Nat)]
  /\ \A t \in JoinTrees : PgJoin[t] = PgJoinStep(t, PgJoin)
<1>1. PICK f \in [JoinTrees -> SUBSET Seq(Nat)] : f = [t \in JoinTrees |-> PgJoinBy[<<t, f>>]]
  BY PgJoinLowers, TreeRecursion
<1>2. \A t \in JoinTrees : PgJoinBy[<<t, f>>] = PgJoinStep(t, f)
  BY Zenon DEF PgJoinBy
<1>3. f = [t \in JoinTrees |-> PgJoinStep(t, f)]
  BY <1>1, <1>2
<1>4. PgJoin = CHOOSE g : g = [t \in JoinTrees |-> PgJoinStep(t, g)]
  BY Zenon DEF PgJoin, PgJoinStep
<1>5. PgJoin = [t \in JoinTrees |-> PgJoinStep(t, PgJoin)]
  BY <1>3, <1>4, Zenon
<1>6. \A t \in JoinTrees : (\A p \in JoinTrees : JoinRank[p] < JoinRank[t] => PgJoin[p] = f[p]) => PgJoin[t] = f[t]
  <2> TAKE t \in JoinTrees
  <2> HAVE \A p \in JoinTrees : JoinRank[p] < JoinRank[t] => PgJoin[p] = f[p]
  <2>1. PgJoinStep(t, PgJoin) = PgJoinStep(t, f)
    BY PgJoinAgree
  <2>2. PgJoin[t] = PgJoinStep(t, PgJoin) /\ f[t] = PgJoinStep(t, f)
    BY <1>3, <1>5
  <2> QED
    BY <2>1, <2>2
<1>7. \A t \in JoinTrees : PgJoin[t] = f[t]
  <2> DEFINE T == {t \in JoinTrees : PgJoin[t] = f[t]}
  <2>1. \A t \in JoinTrees : (\A p \in JoinTrees : JoinRank[p] < JoinRank[t] => p \in T) => t \in T
    BY <1>6
  <2> HIDE DEF T
  <2>2. JoinTrees \subseteq T
    BY <2>1, JoinTreeIs, TreeInduction
  <2> QED
    BY <2>2 DEF T
<1>8. \A t \in JoinTrees : PgJoin[t] \in SUBSET Seq(Nat)
  BY <1>1, <1>7
<1> QED
  BY <1>5, <1>8

SqliteJoinStep(t, f) ==
  IF IsTable(t) THEN {<<x>> : x \in t.rows}
  ELSE IF ~IsTable(t.right) \/ f[t.left] = {FailedRow} THEN {FailedRow}
  ELSE JoinRows(JoinType(t.join), f[t.left], f[t.right], Width[t.left], 1)

SqliteJoinBy == [p \in JoinTrees \X [JoinTrees -> SUBSET Seq(Int)] |-> SqliteJoinStep(p[1], p[2])]

LEMMA SqliteJoinStepIs ==
  ASSUME NEW t \in JoinTrees, NEW f \in [JoinTrees -> SUBSET Seq(Int)]
  PROVE  SqliteJoinStep(t, f) \in SUBSET Seq(Int)
<1>0. {FailedRow} \in SUBSET Seq(Int) /\ Seq(Nat) \subseteq Seq(Int)
  BY DEF FailedRow
<1>1. CASE IsTable(t)
  <2>1. {<<x>> : x \in t.rows} \in SUBSET Seq(Int)
    BY <1>0, <1>1, TableRows
  <2> QED
    BY <1>1, <2>1 DEF SqliteJoinStep
<1>2. CASE ~IsTable(t)
  <2>1. t.left \in JoinTrees /\ t.right \in JoinTrees
    BY <1>2, JoinTreeIs
  <2>2. f[t.left] \in SUBSET Seq(Int) /\ f[t.right] \in SUBSET Seq(Int) /\ Width[t.left] \in Nat
    BY <2>1, WidthIs
  <2>3. JoinRows(JoinType(t.join), f[t.left], f[t.right], Width[t.left], 1) \in SUBSET Seq(Int)
    BY <2>2, JoinRowsIs
  <2> QED
    BY <1>0, <1>2, <2>3 DEF SqliteJoinStep
<1> QED
  BY <1>1, <1>2

LEMMA SqliteJoinAgree ==
  ASSUME NEW t \in JoinTrees, NEW f, NEW g, \A p \in JoinTrees : JoinRank[p] < JoinRank[t] => f[p] = g[p]
  PROVE  SqliteJoinStep(t, f) = SqliteJoinStep(t, g)
BY JoinTreeIs DEF SqliteJoinStep

LEMMA SqliteJoinLowers == Lowers(JoinTrees, JoinRank, SUBSET Seq(Int), SqliteJoinBy)
<1> DEFINE F == [JoinTrees -> SUBSET Seq(Int)]
<1>1. JoinRank \in [JoinTrees -> Nat]
  BY JoinTreeIs
<1>2. SUBSET Seq(Int) # {}
  OBVIOUS
<1>3. SqliteJoinBy \in [JoinTrees \X F -> SUBSET Seq(Int)] /\ \A t \in JoinTrees, f \in F : SqliteJoinBy[<<t, f>>] = SqliteJoinStep(t, f)
  BY SqliteJoinStepIs, Zenon DEF SqliteJoinBy
<1>4. \A t \in JoinTrees : \A f, g \in F :
        (\A p \in JoinTrees : JoinRank[p] < JoinRank[t] => f[p] = g[p]) => SqliteJoinBy[<<t, f>>] = SqliteJoinBy[<<t, g>>]
  <2> HIDE DEF F
  <2> TAKE t \in JoinTrees
  <2> TAKE f, g \in F
  <2> HAVE \A p \in JoinTrees : JoinRank[p] < JoinRank[t] => f[p] = g[p]
  <2>1. SqliteJoinStep(t, f) = SqliteJoinStep(t, g)
    BY SqliteJoinAgree
  <2> QED
    BY <1>3, <2>1
<1> QED
  BY <1>1, <1>2, <1>3, <1>4, Zenon DEF Lowers

LEMMA SqliteJoinIs ==
  /\ SqliteJoin \in [JoinTrees -> SUBSET Seq(Int)]
  /\ \A t \in JoinTrees : SqliteJoin[t] = SqliteJoinStep(t, SqliteJoin)
<1>1. PICK f \in [JoinTrees -> SUBSET Seq(Int)] : f = [t \in JoinTrees |-> SqliteJoinBy[<<t, f>>]]
  BY SqliteJoinLowers, TreeRecursion
<1>2. \A t \in JoinTrees : SqliteJoinBy[<<t, f>>] = SqliteJoinStep(t, f)
  BY Zenon DEF SqliteJoinBy
<1>3. f = [t \in JoinTrees |-> SqliteJoinStep(t, f)]
  BY <1>1, <1>2
<1>4. SqliteJoin = CHOOSE g : g = [t \in JoinTrees |-> SqliteJoinStep(t, g)]
  BY Zenon DEF SqliteJoin, SqliteJoinStep
<1>5. SqliteJoin = [t \in JoinTrees |-> SqliteJoinStep(t, SqliteJoin)]
  BY <1>3, <1>4, Zenon
<1>6. \A t \in JoinTrees : (\A p \in JoinTrees : JoinRank[p] < JoinRank[t] => SqliteJoin[p] = f[p]) => SqliteJoin[t] = f[t]
  <2> TAKE t \in JoinTrees
  <2> HAVE \A p \in JoinTrees : JoinRank[p] < JoinRank[t] => SqliteJoin[p] = f[p]
  <2>1. SqliteJoinStep(t, SqliteJoin) = SqliteJoinStep(t, f)
    BY SqliteJoinAgree
  <2>2. SqliteJoin[t] = SqliteJoinStep(t, SqliteJoin) /\ f[t] = SqliteJoinStep(t, f)
    BY <1>3, <1>5
  <2> QED
    BY <2>1, <2>2
<1>7. \A t \in JoinTrees : SqliteJoin[t] = f[t]
  <2> DEFINE T == {t \in JoinTrees : SqliteJoin[t] = f[t]}
  <2>1. \A t \in JoinTrees : (\A p \in JoinTrees : JoinRank[p] < JoinRank[t] => p \in T) => t \in T
    BY <1>6
  <2> HIDE DEF T
  <2>2. JoinTrees \subseteq T
    BY <2>1, JoinTreeIs, TreeInduction
  <2> QED
    BY <2>2 DEF T
<1>8. \A t \in JoinTrees : SqliteJoin[t] \in SUBSET Seq(Int)
  BY <1>1, <1>7
<1> QED
  BY <1>5, <1>8

\* A tree of inner and left joins, with tables on the right, is for SQLite what
\* it is for PostgreSQL.
JoinAnswers(t) ==
  (\A n \in JoinNodes[t] : n.join \in {"inner", "left"} /\ IsTable(n.right)) => SqliteJoin[t] = PgJoin[t]

LEMMA JoinsAnswer ==
  \A t \in JoinTrees : JoinAnswers(t)
<1> DEFINE T == {t \in JoinTrees : JoinAnswers(t)}
<1>1. ASSUME NEW t \in JoinTrees, \A p \in JoinTrees : JoinRank[p] < JoinRank[t] => p \in T PROVE t \in T
  <2> SUFFICES JoinAnswers(t)
    OBVIOUS
  <2>1. /\ JoinNodes[t] = JoinNodesStep(t, JoinNodes) /\ PgJoin[t] = PgJoinStep(t, PgJoin)
        /\ SqliteJoin[t] = SqliteJoinStep(t, SqliteJoin)
    BY JoinNodesIs, PgJoinIs, SqliteJoinIs
  <2>2. CASE IsTable(t)
    BY <2>1, <2>2 DEF JoinNodesStep, PgJoinStep, SqliteJoinStep, JoinAnswers
  <2>3. CASE ~IsTable(t)
    <3> DEFINE l == t.left
               r == t.right
    <3>1. l \in JoinTrees /\ r \in JoinTrees /\ JoinRank[l] < JoinRank[t]
      BY <2>3, JoinTreeIs
    <3>2. JoinNodes[t] = {t} \cup JoinNodes[l] \cup JoinNodes[r]
      BY <2>1, <2>3 DEF JoinNodesStep
    <3>3. JoinAnswers(l)
      BY <1>1, <3>1
    <3>4. SUFFICES ASSUME \A n \in JoinNodes[t] : n.join \in {"inner", "left"} /\ IsTable(n.right)
                   PROVE  SqliteJoin[t] = PgJoin[t]
      BY DEF JoinAnswers
    <3>5. IsTable(r) /\ JoinType(t.join) = t.join /\ SqliteJoin[l] = PgJoin[l]
      BY <3>2, <3>3, <3>4 DEF JoinAnswers, JoinType
    <3>6. /\ Width[r] = 1
          /\ SqliteJoin[r] = {<<x>> : x \in r.rows} /\ PgJoin[r] = {<<x>> : x \in r.rows}
      BY <3>1, <3>5, WidthIs, SqliteJoinIs, PgJoinIs DEF WidthStep, SqliteJoinStep, PgJoinStep
    <3>7. PgJoin[l] # {FailedRow}
      <4>1. FailedRow \notin Seq(Nat)
        BY DEF FailedRow
      <4> QED
        BY <3>1, <4>1, PgJoinIs
    <3>8. SqliteJoin[t] = JoinRows(t.join, PgJoin[l], PgJoin[r], Width[l], 1)
      BY <2>1, <2>3, <3>5, <3>6, <3>7 DEF SqliteJoinStep
    <3> QED
      BY <2>1, <2>3, <3>6, <3>8 DEF PgJoinStep
  <2> QED
    BY <2>2, <2>3
<1> HIDE DEF T
<1>2. JoinTrees \subseteq T
  BY <1>1, JoinTreeIs, TreeInduction
<1> QED
  BY <1>2 DEF T

-----------------------------------------------------------------------------
(* Names of columns *)

TargetRank  == [t \in Targets |-> Height[t]]
TargetKinds == {"column", "function", "coalesce", "operator", "exists", "cast", "case", "subquery"}
ColumnNames == {"column", "function", "coalesce", "exists", "cast", "case", "?column?"}

LEMMA TargetRankIs ==
  /\ TargetRank \in [Targets -> Nat]
  /\ \A t \in Targets : TargetRank[t] = Height[t]
<1>1. \A t \in Targets : Height[t] \in Nat
  BY SelectAssumption
<1> QED
  BY <1>1 DEF TargetRank

LEMMA TargetIs ==
  ASSUME NEW t \in Targets
  PROVE  /\ t.is \in TargetKinds
         /\ t.is \in {"cast", "case", "subquery"} => t.of \in Targets /\ TargetRank[t.of] < TargetRank[t]
<1>1. IsTarget(t)
  BY SelectAssumption
<1>2. t.is \in {"cast", "case", "subquery"} => t.of \in Targets /\ Height[t.of] < Height[t]
  BY <1>1 DEF IsTarget, Within
<1> QED
  BY <1>1, <1>2, TargetRankIs DEF IsTarget, TargetKinds

PgNameStep(t, f) ==
  IF t.is = "operator" THEN "?column?"
  ELSE IF t.is = "subquery" \/ (t.is \in {"cast", "case"} /\ CarriesName[t.of]) THEN f[t.of]
  ELSE t.is

PgNameBy == [p \in Targets \X [Targets -> ColumnNames] |-> PgNameStep(p[1], p[2])]

LEMMA PgNameStepIs ==
  ASSUME NEW t \in Targets, NEW f \in [Targets -> ColumnNames]
  PROVE  PgNameStep(t, f) \in ColumnNames
<1>1. t.is \in {"cast", "case", "subquery"} => f[t.of] \in ColumnNames
  BY TargetIs
<1> QED
  BY <1>1, TargetIs DEF PgNameStep, ColumnNames, TargetKinds

LEMMA PgNameAgree ==
  ASSUME NEW t \in Targets, NEW f, NEW g, \A p \in Targets : TargetRank[p] < TargetRank[t] => f[p] = g[p]
  PROVE  PgNameStep(t, f) = PgNameStep(t, g)
<1>1. t.is \in {"cast", "case", "subquery"} => f[t.of] = g[t.of]
  BY TargetIs
<1> QED
  BY <1>1, TargetIs DEF PgNameStep, TargetKinds

LEMMA PgNameLowers == Lowers(Targets, TargetRank, ColumnNames, PgNameBy)
<1> DEFINE F == [Targets -> ColumnNames]
<1>1. TargetRank \in [Targets -> Nat]
  BY TargetRankIs
<1>2. ColumnNames # {}
  BY DEF ColumnNames
<1>3. PgNameBy \in [Targets \X F -> ColumnNames] /\ \A t \in Targets, f \in F : PgNameBy[<<t, f>>] = PgNameStep(t, f)
  BY PgNameStepIs, Zenon DEF PgNameBy
<1>4. \A t \in Targets : \A f, g \in F :
        (\A p \in Targets : TargetRank[p] < TargetRank[t] => f[p] = g[p]) => PgNameBy[<<t, f>>] = PgNameBy[<<t, g>>]
  <2> HIDE DEF F
  <2> TAKE t \in Targets
  <2> TAKE f, g \in F
  <2> HAVE \A p \in Targets : TargetRank[p] < TargetRank[t] => f[p] = g[p]
  <2>1. PgNameStep(t, f) = PgNameStep(t, g)
    BY PgNameAgree
  <2> QED
    BY <1>3, <2>1
<1> QED
  BY <1>1, <1>2, <1>3, <1>4, Zenon DEF Lowers

LEMMA PgNameIs ==
  /\ PgName \in [Targets -> ColumnNames]
  /\ \A t \in Targets : PgName[t] = PgNameStep(t, PgName)
<1>1. PICK f \in [Targets -> ColumnNames] : f = [t \in Targets |-> PgNameBy[<<t, f>>]]
  BY PgNameLowers, TreeRecursion
<1>2. \A t \in Targets : PgNameBy[<<t, f>>] = PgNameStep(t, f)
  BY Zenon DEF PgNameBy
<1>3. f = [t \in Targets |-> PgNameStep(t, f)]
  BY <1>1, <1>2
<1>4. PgName = CHOOSE g : g = [t \in Targets |-> PgNameStep(t, g)]
  BY Zenon DEF PgName, PgNameStep
<1>5. PgName = [t \in Targets |-> PgNameStep(t, PgName)]
  BY <1>3, <1>4, Zenon
<1>6. \A t \in Targets : (\A p \in Targets : TargetRank[p] < TargetRank[t] => PgName[p] = f[p]) => PgName[t] = f[t]
  <2> TAKE t \in Targets
  <2> HAVE \A p \in Targets : TargetRank[p] < TargetRank[t] => PgName[p] = f[p]
  <2>1. PgNameStep(t, PgName) = PgNameStep(t, f)
    BY PgNameAgree
  <2>2. PgName[t] = PgNameStep(t, PgName) /\ f[t] = PgNameStep(t, f)
    BY <1>3, <1>5
  <2> QED
    BY <2>1, <2>2
<1>7. \A t \in Targets : PgName[t] = f[t]
  <2> DEFINE T == {t \in Targets : PgName[t] = f[t]}
  <2>1. \A t \in Targets : (\A p \in Targets : TargetRank[p] < TargetRank[t] => p \in T) => t \in T
    BY <1>6
  <2> HIDE DEF T
  <2>2. Targets \subseteq T
    BY <2>1, TargetRankIs, TreeInduction
  <2> QED
    BY <2>2 DEF T
<1>8. \A t \in Targets : PgName[t] \in ColumnNames
  BY <1>1, <1>7
<1> QED
  BY <1>5, <1>8

HasNameStep(t, f) ==
  IF t.is \in {"cast", "case"} THEN f[t.of]
  ELSE t.is = "exists" \/ (t.is = "subquery" /\ t.of.is # "column")

HasNameBy == [p \in Targets \X [Targets -> BOOLEAN] |-> HasNameStep(p[1], p[2])]

LEMMA HasNameStepIs ==
  ASSUME NEW t \in Targets, NEW f \in [Targets -> BOOLEAN]
  PROVE  HasNameStep(t, f) \in BOOLEAN
<1>1. t.is \in {"cast", "case", "subquery"} => f[t.of] \in BOOLEAN
  BY TargetIs
<1> QED
  BY <1>1, TargetIs DEF HasNameStep, TargetKinds

LEMMA HasNameAgree ==
  ASSUME NEW t \in Targets, NEW f, NEW g, \A p \in Targets : TargetRank[p] < TargetRank[t] => f[p] = g[p]
  PROVE  HasNameStep(t, f) = HasNameStep(t, g)
<1>1. t.is \in {"cast", "case", "subquery"} => f[t.of] = g[t.of]
  BY TargetIs
<1> QED
  BY <1>1, TargetIs DEF HasNameStep, TargetKinds

LEMMA HasNameLowers == Lowers(Targets, TargetRank, BOOLEAN, HasNameBy)
<1> DEFINE F == [Targets -> BOOLEAN]
<1>1. TargetRank \in [Targets -> Nat]
  BY TargetRankIs
<1>2. BOOLEAN # {}
  OBVIOUS
<1>3. HasNameBy \in [Targets \X F -> BOOLEAN] /\ \A t \in Targets, f \in F : HasNameBy[<<t, f>>] = HasNameStep(t, f)
  BY HasNameStepIs, Zenon DEF HasNameBy
<1>4. \A t \in Targets : \A f, g \in F :
        (\A p \in Targets : TargetRank[p] < TargetRank[t] => f[p] = g[p]) => HasNameBy[<<t, f>>] = HasNameBy[<<t, g>>]
  <2> HIDE DEF F
  <2> TAKE t \in Targets
  <2> TAKE f, g \in F
  <2> HAVE \A p \in Targets : TargetRank[p] < TargetRank[t] => f[p] = g[p]
  <2>1. HasNameStep(t, f) = HasNameStep(t, g)
    BY HasNameAgree
  <2> QED
    BY <1>3, <2>1
<1> QED
  BY <1>1, <1>2, <1>3, <1>4, Zenon DEF Lowers

LEMMA HasNameIs ==
  /\ HasName \in [Targets -> BOOLEAN]
  /\ \A t \in Targets : HasName[t] = HasNameStep(t, HasName)
<1>1. PICK f \in [Targets -> BOOLEAN] : f = [t \in Targets |-> HasNameBy[<<t, f>>]]
  BY HasNameLowers, TreeRecursion
<1>2. \A t \in Targets : HasNameBy[<<t, f>>] = HasNameStep(t, f)
  BY Zenon DEF HasNameBy
<1>3. f = [t \in Targets |-> HasNameStep(t, f)]
  BY <1>1, <1>2
<1>4. HasName = CHOOSE g : g = [t \in Targets |-> HasNameStep(t, g)]
  BY Zenon DEF HasName, HasNameStep
<1>5. HasName = [t \in Targets |-> HasNameStep(t, HasName)]
  BY <1>3, <1>4, Zenon
<1>6. \A t \in Targets : (\A p \in Targets : TargetRank[p] < TargetRank[t] => HasName[p] = f[p]) => HasName[t] = f[t]
  <2> TAKE t \in Targets
  <2> HAVE \A p \in Targets : TargetRank[p] < TargetRank[t] => HasName[p] = f[p]
  <2>1. HasNameStep(t, HasName) = HasNameStep(t, f)
    BY HasNameAgree
  <2>2. HasName[t] = HasNameStep(t, HasName) /\ f[t] = HasNameStep(t, f)
    BY <1>3, <1>5
  <2> QED
    BY <2>1, <2>2
<1>7. \A t \in Targets : HasName[t] = f[t]
  <2> DEFINE T == {t \in Targets : HasName[t] = f[t]}
  <2>1. \A t \in Targets : (\A p \in Targets : TargetRank[p] < TargetRank[t] => p \in T) => t \in T
    BY <1>6
  <2> HIDE DEF T
  <2>2. Targets \subseteq T
    BY <2>1, TargetRankIs, TreeInduction
  <2> QED
    BY <2>2 DEF T
<1>8. \A t \in Targets : HasName[t] \in BOOLEAN
  BY <1>1, <1>7
<1> QED
  BY <1>5, <1>8

\* Columns that have the name in SQLite that they have in PostgreSQL.
LEMMA NamesAnswer ==
  ASSUME NEW t \in Targets,
         \/ t.is \in {"column", "function", "coalesce", "operator"}
         \/ t.is \in {"cast", "case"} /\ PgName[t] = t.is /\ ~HasName[t]
  PROVE  SelectedName(t) = PgName[t]
<1>0. t.is \in TargetKinds /\ PgName[t] \in ColumnNames /\ HasName[t] \in BOOLEAN
  BY TargetIs, PgNameIs, HasNameIs
<1>1. PgName[t] = PgNameStep(t, PgName) /\ (HasName[t] <=> HasNameStep(t, HasName))
  BY PgNameIs, HasNameIs
<1>2. CASE t.is \in {"column", "function", "coalesce", "operator"}
  BY <1>1, <1>2 DEF PgNameStep, HasNameStep, SelectedName
<1>3. CASE t.is \in {"cast", "case"} /\ PgName[t] = t.is /\ ~HasName[t]
  BY <1>0, <1>3 DEF SelectedName, ColumnNames
<1> QED
  BY <1>2, <1>3

-----------------------------------------------------------------------------
(* Rows of a CTE *)

LEMMA CteAnswers ==
  ASSUME NEW q \in RecursiveQueries, q.recursive /\ q.limit = NoLimit => q.rows <= MaxRecursionDepth
  PROVE  CteRows(q) = AtMost(q.rows, IF q.limit = NoLimit THEN q.rows ELSE q.limit)
<1>1. q.rows \in Nat /\ q.recursive \in BOOLEAN /\ q.limit \in Nat \cup {NoLimit} /\ MaxRecursionDepth \in Nat
  BY SelectAssumption
<1> QED
  BY <1>1 DEF CteRows, AtMost, NoLimit

-----------------------------------------------------------------------------
(* Putting in order *)

\* f counts what is in K.
Counts(f, m, K) ==
  /\ m \in Nat /\ f \in [1..m -> K]
  /\ \A a, b \in 1..m : f[a] = f[b] => a = b
  /\ \A x \in K : \E a \in 1..m : f[a] = x

InOrder(f, m, L) == \A a, b \in 1..m : a < b => <<f[a], f[b]>> \in L

LinearOn(L, K) ==
  /\ \A x \in K : <<x, x>> \notin L
  /\ \A x, y, z \in K : <<x, y>> \in L /\ <<y, z>> \in L => <<x, z>> \in L
  /\ \A x, y \in K : x # y => <<x, y>> \in L \/ <<y, x>> \in L

\* What is finite can be counted in any linear order.
LEMMA OrderedByCounts ==
  ASSUME NEW K, IsFiniteSet(K), NEW L, LinearOn(L, K)
  PROVE  \E f : Counts(f, Cardinality(K), K) /\ InOrder(f, Cardinality(K), L)
<1> DEFINE n       == Cardinality(K)
           upto(x) == {y \in K : y = x \/ <<y, x>> \in L}
           rank    == [x \in K |-> Cardinality(upto(x))]
<1>0. n \in Nat
  BY FS_CardinalityType
<1>1. \A x \in K : upto(x) \subseteq K /\ x \in upto(x) /\ IsFiniteSet(upto(x))
  BY FS_Subset
<1>2. \A x \in K : rank[x] \in 1..n
  <2> TAKE x \in K
  <2> HIDE DEF upto
  <2>1. Cardinality(upto(x)) \in Nat /\ Cardinality(upto(x)) <= n
    BY <1>1, FS_Subset, FS_CardinalityType
  <2>2. Cardinality(upto(x)) # 0
    BY <1>1, FS_EmptySet
  <2> QED
    BY <1>0, <2>1, <2>2
<1>3. \A x, y \in K : <<x, y>> \in L => rank[x] < rank[y]
  <2> TAKE x, y \in K
  <2> HAVE <<x, y>> \in L
  <2>1. upto(x) \subseteq upto(y) \ {y}
    BY DEF LinearOn
  <2> HIDE DEF upto
  <2>2. IsFiniteSet(upto(y) \ {y}) /\ Cardinality(upto(y) \ {y}) = Cardinality(upto(y)) - 1
    BY <1>1, FS_RemoveElement
  <2>3. Cardinality(upto(x)) <= Cardinality(upto(y) \ {y})
    BY <2>1, <2>2, FS_Subset
  <2>4. rank[x] = Cardinality(upto(x)) /\ rank[y] = Cardinality(upto(y)) /\ rank[x] \in Nat /\ rank[y] \in Nat
    BY <1>0, <1>2
  <2> HIDE DEF rank
  <2> QED
    BY <2>2, <2>3, <2>4
<1>4. rank \in [K -> 1..n]
  BY <1>2
<1> HIDE DEF rank
<1>5. \A x, y \in K : rank[x] = rank[y] => x = y
  <2> TAKE x, y \in K
  <2> HAVE rank[x] = rank[y]
  <2>1. rank[x] \in Nat /\ rank[y] \in Nat
    BY <1>0, <1>4
  <2>2. <<x, y>> \notin L /\ <<y, x>> \notin L
    BY <1>3, <2>1
  <2> QED
    BY <2>2 DEF LinearOn
<1>6. rank \in Injection(K, 1..n)
  BY <1>4, <1>5 DEF Injection, IsInjective
<1>7. IsFiniteSet(1..n) /\ Cardinality(1..n) = n
  <2>1. IsFiniteSet(1..n) /\ Cardinality(1..n) = IF 1 > n THEN 0 ELSE n - 1 + 1
    BY <1>0, FS_Interval
  <2> QED
    BY <1>0, <2>1
<1>8. \A a \in 1..n : \E x \in K : rank[x] = a
  <2>1. rank \in Surjection(K, 1..n)
    BY <1>6, <1>7, FS_Injection
  <2> QED
    BY <2>1 DEF Surjection
<1> DEFINE f == [a \in 1..n |-> CHOOSE x \in K : rank[x] = a]
<1>9. \A a \in 1..n : f[a] \in K /\ rank[f[a]] = a
  BY <1>8
<1>10. f \in [1..n -> K]
  BY <1>9
<1> HIDE DEF f, n
<1>11. Counts(f, n, K)
  <2>1. \A x \in K : \E a \in 1..n : f[a] = x
    <3> TAKE x \in K
    <3>1. rank[x] \in 1..n /\ f[rank[x]] \in K /\ rank[f[rank[x]]] = rank[x]
      BY <1>4, <1>9
    <3> QED
      BY <1>5, <3>1
  <2>2. \A a, b \in 1..n : f[a] = f[b] => a = b
    BY <1>9
  <2> QED
    BY <1>0, <1>10, <2>1, <2>2 DEF Counts
<1>12. InOrder(f, n, L)
  <2> SUFFICES ASSUME NEW a \in 1..n, NEW b \in 1..n, a < b PROVE <<f[a], f[b]>> \in L
    BY DEF InOrder
  <2>1. f[a] \in K /\ f[b] \in K /\ rank[f[a]] = a /\ rank[f[b]] = b
    BY <1>9
  <2>2. ~(rank[f[b]] < rank[f[a]]) /\ f[a] # f[b]
    BY <1>0, <2>1
  <2>3. <<f[b], f[a]>> \notin L
    BY <1>3, <2>1, <2>2
  <2> QED
    BY <2>1, <2>2, <2>3 DEF LinearOn
<1> QED
  BY <1>11, <1>12 DEF n

LEMMA RowAdded ==
  ASSUME NEW R, NEW w \in Seq(R), NEW x \in R
  PROVE  /\ w \o <<x>> \in Seq(R) /\ Len(w \o <<x>>) = Len(w) + 1
         /\ \A i \in 1..Len(w) : (w \o <<x>>)[i] = w[i]
         /\ (w \o <<x>>)[Len(w) + 1] = x
OBVIOUS

\* Of the rows in K, one after the other, what is left is what a count of K says.
LEMMA KeptRows ==
  ASSUME NEW R, NEW s \in Seq(R), NEW K \in SUBSET (1..Len(s)), NEW m, NEW e, Counts(e, m, K),
         \A a, b \in 1..m : a < b => e[a] < e[b]
  PROVE  FlattenSeq([i \in DOMAIN s |-> IF i \in K THEN <<s[i]>> ELSE <<>>]) = [a \in 1..m |-> s[e[a]]]
<1> DEFINE n  == Len(s)
           ss == [i \in DOMAIN s |-> IF i \in K THEN <<s[i]>> ELSE <<>>]
           To(c) == [a \in 1..c |-> s[e[a]]]
<1>0. n \in Nat /\ DOMAIN s = 1..n /\ (\A i \in 1..n : s[i] \in R) /\ m \in Nat /\ \A a \in 1..m : e[a] \in K /\ e[a] \in 1..n
  <2>1. m \in Nat /\ \A a \in 1..m : e[a] \in K
    BY DEF Counts
  <2>2. n \in Nat /\ DOMAIN s = 1..n /\ \A i \in 1..n : s[i] \in R
    OBVIOUS
  <2>3. \A x \in K : x \in 1..n
    OBVIOUS
  <2> QED
    BY ONLY <2>1, <2>2, <2>3
<1>1. ss \in Seq(Seq(R)) /\ Len(ss) = n /\ \A i \in 1..n : ss[i] = IF i \in K THEN <<s[i]>> ELSE <<>>
  <2>1. \A i \in 1..n : (IF i \in K THEN <<s[i]>> ELSE <<>>) \in Seq(R)
    BY <1>0
  <2>2. ss = [i \in 1..n |-> IF i \in K THEN <<s[i]>> ELSE <<>>]
    BY <1>0
  <2> QED
    BY <1>0, <2>1, <2>2
<1> HIDE DEF ss
<1>2. PICK f : IsFlat(f, R, ss)
  BY <1>1, FlatRun
<1>3. /\ f \in [0..n -> Seq(R)] /\ f[0] = <<>> /\ f[n] = FlattenSeq(ss)
      /\ \A k \in 1..n : f[k] = f[k - 1] \o ss[k]
  BY <1>1, <1>2 DEF IsFlat
<1>4. \A c \in 0..m : To(c) \in Seq(R) /\ Len(To(c)) = c /\ \A a \in 1..c : To(c)[a] = s[e[a]]
  <2> TAKE c \in 0..m
  <2>1. \A a \in 1..c : a \in 1..m /\ s[e[a]] \in R
    BY <1>0
  <2> QED
    BY <1>0, <2>1
<1> HIDE DEF To
<1> DEFINE Good(k) == \E c \in 0..m : (\A a \in 1..m : e[a] <= k <=> a <= c) /\ f[k] = To(c)
           T == {k \in 0..n : Good(k)}
<1>5. 0 \in T
  <2>1. To(0) = <<>>
    BY <1>0, <1>4
  <2>2. 0 \in 0..m /\ \A a \in 1..m : e[a] <= 0 <=> a <= 0
    BY <1>0
  <2>3. Good(0)
    BY <1>3, <2>1, <2>2
  <2> QED
    BY <1>0, <2>3
<1>6. \A k \in 0..(n - 1) : k \in T => k + 1 \in T
  <2> TAKE k \in 0..(n - 1)
  <2> HAVE k \in T
  <2>1. k \in Nat /\ k + 1 \in 1..n /\ (k + 1) - 1 = k /\ k + 1 \in 0..n
    BY <1>0
  <2>2. PICK c \in 0..m : (\A a \in 1..m : e[a] <= k <=> a <= c) /\ f[k] = To(c)
    OBVIOUS
  <2>3. f[k + 1] = To(c) \o ss[k + 1] /\ To(c) \in Seq(R)
    BY <1>3, <1>4, <2>1, <2>2
  <2>4. CASE k + 1 \notin K
    <3>1. ss[k + 1] = <<>>
      BY <1>1, <2>1, <2>4
    <3>2. f[k + 1] = To(c)
      BY <2>3, <3>1
    <3>3. \A a \in 1..m : e[a] <= k + 1 <=> a <= c
      <4> TAKE a \in 1..m
      <4>1. e[a] \in K /\ e[a] \in Nat /\ e[a] # k + 1
        BY <1>0, <2>4
      <4>2. e[a] <= k + 1 <=> e[a] <= k
        BY <2>1, <4>1
      <4> QED
        BY <2>2, <4>2
    <3>4. Good(k + 1)
      BY <3>2, <3>3
    <3> QED
      BY <2>1, <3>4
  <2>5. CASE k + 1 \in K
    <3>1. PICK d \in 1..m : e[d] = k + 1
      BY <2>5 DEF Counts
    <3>2. d \in Nat /\ c \in Nat /\ ~(d <= c)
      BY <1>0, <2>1, <2>2, <3>1
    <3>3. d = c + 1
      <4> SUFFICES ASSUME c + 1 < d PROVE FALSE
        BY <3>2
      <4>1. c + 1 \in 1..m
        BY <1>0, <3>2
      <4>2. e[c + 1] < k + 1 /\ e[c + 1] \in Nat
        BY <1>0, <3>1, <4>1
      <4>3. e[c + 1] <= k
        BY <2>1, <4>2
      <4> QED
        BY <2>2, <3>2, <4>1, <4>3
    <3>4. \A a \in 1..m : e[a] <= k + 1 <=> a <= c + 1
      <4> TAKE a \in 1..m
      <4>0. a \in Nat /\ e[a] \in Nat
        BY <1>0
      <4>1. CASE a <= c
        <5>1. e[a] <= k
          BY <2>2, <4>1
        <5> QED
          BY <2>1, <3>2, <4>0, <4>1, <5>1
      <4>2. CASE a = c + 1
        BY <2>1, <3>1, <3>2, <3>3, <4>2
      <4>3. CASE a > c + 1
        <5>1. e[d] < e[a]
          BY <3>3, <4>3
        <5> QED
          BY <2>1, <3>1, <3>2, <4>0, <4>3, <5>1
      <4> QED
        BY <3>2, <4>0, <4>1, <4>2, <4>3
    <3>5. f[k + 1] = To(c + 1)
      <4> DEFINE one == <<s[k + 1]>>
      <4>1. ss[k + 1] = one
        BY <1>1, <2>1, <2>5
      <4>2. s[k + 1] \in R
        BY <1>0, <2>1
      <4>3. /\ c + 1 \in 0..m /\ To(c + 1) \in Seq(R) /\ Len(To(c + 1)) = c + 1
            /\ \A a \in 1..(c + 1) : To(c + 1)[a] = s[e[a]]
        BY <1>4, <3>2, <3>3
      <4>4. Len(To(c)) = c /\ \A a \in 1..c : To(c)[a] = s[e[a]]
        BY <1>4
      <4> DEFINE w == To(c)
                 x == s[k + 1]
                 l == w \o <<x>>
      <4>5. /\ l \in Seq(R) /\ Len(l) = c + 1 /\ l[c + 1] = x
            /\ \A a \in 1..c : l[a] = w[a]
        <5>1. w \in Seq(R) /\ x \in R /\ Len(w) = c
          BY <2>3, <4>2, <4>4
        <5> HIDE DEF w, x
        <5>2. /\ l \in Seq(R) /\ Len(l) = Len(w) + 1 /\ l[Len(w) + 1] = x
              /\ \A a \in 1..Len(w) : l[a] = w[a]
          BY ONLY <5>1, RowAdded
        <5> QED
          BY ONLY <5>1, <5>2
      <4> HIDE DEF one, l
      <4>6. \A a \in 1..(c + 1) : l[a] = s[e[a]]
        <5> TAKE a \in 1..(c + 1)
        <5>1. CASE a \in 1..c
          BY <4>4, <4>5, <5>1
        <5>2. CASE a = c + 1
          BY <3>1, <3>3, <4>5, <5>2
        <5> QED
          BY <3>2, <5>1, <5>2
      <4>7. l = To(c + 1)
        BY <4>3, <4>5, <4>6, SMTT(60)
      <4> QED
        BY <2>3, <4>1, <4>7, Zenon DEF l, one
    <3>6. Good(k + 1)
      <4>1. c + 1 \in 0..m
        BY <3>2, <3>3
      <4> QED
        BY <3>4, <3>5, <4>1
    <3> QED
      BY <2>1, <3>6
  <2> QED
    BY <2>4, <2>5
<1> HIDE DEF T
<1>7. \A k \in 0..n : k \in T
  BY ONLY <1>0, <1>5, <1>6, Ladder
<1>8. Good(n)
  BY <1>0, <1>7 DEF T
<1>9. PICK c \in 0..m : (\A a \in 1..m : e[a] <= n <=> a <= c) /\ f[n] = To(c)
  BY <1>8
<1>10. c = m
  <2>1. m \in 1..m => m <= c
    BY <1>0, <1>9
  <2> QED
    BY <1>0, <2>1
<1> QED
  BY <1>3, <1>9, <1>10 DEF To, ss

-----------------------------------------------------------------------------
(* Rows in the order of a statement *)

Rows   == [Columns -> Nat]
SortItems  == [col : Columns, desc : BOOLEAN, nulls : {"unsaid", "first", "last"}]
Orders == Seq(SortItems)

Tied(order, a, b) == \A i \in DOMAIN order : a[order[i].col] = b[order[i].col]

LEMMA PrecedesIs ==
  ASSUME NEW item \in SortItems, NEW db, NEW x \in Nat, NEW y \in Nat, NEW z \in Nat
  PROVE  /\ ~Precedes(item, db, x, x)
         /\ Precedes(item, db, x, y) /\ Precedes(item, db, y, z) => Precedes(item, db, x, z)
         /\ x # y => Precedes(item, db, x, y) \/ Precedes(item, db, y, x)
<1>0. item.desc \in BOOLEAN
  BY DEF SortItems
<1>1. CASE PutsNullFirst(item, db) /\ item.desc
  BY <1>1 DEF Precedes
<1>2. CASE PutsNullFirst(item, db) /\ ~item.desc
  BY <1>2 DEF Precedes
<1>3. CASE ~PutsNullFirst(item, db) /\ item.desc
  BY <1>3 DEF Precedes
<1>4. CASE ~PutsNullFirst(item, db) /\ ~item.desc
  BY <1>4 DEF Precedes
<1> QED
  BY <1>0, <1>1, <1>2, <1>3, <1>4

LEMMA ColumnOf ==
  ASSUME NEW order \in Orders, NEW a \in Rows
  PROVE  \A i \in DOMAIN order : order[i] \in SortItems /\ a[order[i].col] \in Nat
<1> TAKE i \in DOMAIN order
<1>1. order[i] \in SortItems
  BY DEF Orders
<1> QED
  BY <1>1 DEF SortItems, Rows

LEMMA BeforeSelf ==
  ASSUME NEW order \in Orders, NEW db, NEW a \in Rows
  PROVE  ~Before(order, db, a, a)
<1>1. \A i \in DOMAIN order : ~Precedes(order[i], db, a[order[i].col], a[order[i].col])
  BY ColumnOf, PrecedesIs
<1> QED
  BY <1>1 DEF Before

LEMMA BeforeBefore ==
  ASSUME NEW order \in Orders, NEW db, NEW a \in Rows, NEW b \in Rows, NEW c \in Rows,
         Before(order, db, a, b), Before(order, db, b, c)
  PROVE  Before(order, db, a, c)
<1> DEFINE P(i, x, y) == Precedes(order[i], db, x[order[i].col], y[order[i].col])
           E(i, x, y) == x[order[i].col] = y[order[i].col]
<1>1. PICK i \in DOMAIN order : P(i, a, b) /\ \A j \in 1..(i - 1) : E(j, a, b)
  BY DEF Before
<1>2. PICK k \in DOMAIN order : P(k, b, c) /\ \A j \in 1..(k - 1) : E(j, b, c)
  BY DEF Before
<1>0. i \in Nat /\ k \in Nat /\ i \in 1..Len(order) /\ k \in 1..Len(order) /\ DOMAIN order = 1..Len(order)
  BY DEF Orders
<1> SUFFICES \E l \in DOMAIN order : P(l, a, c) /\ \A j \in 1..(l - 1) : E(j, a, c)
  BY DEF Before
<1>3. CASE i < k
  <2>1. i \in 1..(k - 1) /\ \A j \in 1..(i - 1) : j \in 1..(k - 1)
    BY <1>0, <1>3
  <2>2. E(i, b, c) /\ \A j \in 1..(i - 1) : E(j, b, c)
    BY <1>2, <2>1
  <2> QED
    BY <1>1, <2>2
<1>4. CASE k < i
  <2>1. k \in 1..(i - 1) /\ \A j \in 1..(k - 1) : j \in 1..(i - 1)
    BY <1>0, <1>4
  <2>2. E(k, a, b) /\ \A j \in 1..(k - 1) : E(j, a, b)
    BY <1>1, <2>1
  <2> QED
    BY <1>2, <2>2
<1>5. CASE i = k
  <2>1. P(i, a, c)
    <3>1. order[i] \in SortItems /\ a[order[i].col] \in Nat /\ b[order[i].col] \in Nat /\ c[order[i].col] \in Nat
      BY ColumnOf
    <3>2. P(i, a, b) /\ P(i, b, c)
      BY <1>1, <1>2, <1>5
    <3> DEFINE x == a[order[i].col]
               y == b[order[i].col]
               z == c[order[i].col]
    <3>3. Precedes(order[i], db, x, y) /\ Precedes(order[i], db, y, z) /\ x \in Nat /\ y \in Nat /\ z \in Nat
      BY <3>1, <3>2
    <3> HIDE DEF x, y, z
    <3>4. Precedes(order[i], db, x, z)
      BY ONLY <3>1, <3>3, PrecedesIs
    <3> QED
      BY <3>4 DEF x, z
  <2> QED
    BY <1>1, <1>2, <1>5, <2>1
<1> QED
  BY <1>0, <1>3, <1>4, <1>5

\* Rows that are not tied differ in the first column in which they differ.
LEMMA TiedOrNot ==
  ASSUME NEW order \in Orders, NEW db, NEW a \in Rows, NEW b \in Rows, ~Tied(order, a, b)
  PROVE  Before(order, db, a, b) \/ Before(order, db, b, a)
<1> DEFINE D == {i \in DOMAIN order : a[order[i].col] # b[order[i].col]}
<1>0. DOMAIN order = 1..Len(order) /\ Len(order) \in Nat
  BY DEF Orders
<1>1. D \subseteq Nat /\ D # {}
  BY <1>0 DEF Tied
<1>2. PICK i \in D : \A j \in D : i <= j
  <2> HIDE DEF D
  <2> QED
    BY <1>1, LeastNat
<1>3. \A j \in 1..(i - 1) : a[order[j].col] = b[order[j].col]
  <2> TAKE j \in 1..(i - 1)
  <2>1. j \in DOMAIN order /\ i \in Nat /\ j \in Nat /\ ~(i <= j)
    BY <1>0, <1>1
  <2> QED
    BY <1>2, <2>1
<1>4. i \in DOMAIN order /\ a[order[i].col] # b[order[i].col]
  OBVIOUS
<1>5. order[i] \in SortItems /\ a[order[i].col] \in Nat /\ b[order[i].col] \in Nat
  BY <1>4, ColumnOf
<1>6. \/ Precedes(order[i], db, a[order[i].col], b[order[i].col])
      \/ Precedes(order[i], db, b[order[i].col], a[order[i].col])
  BY <1>4, <1>5, PrecedesIs
<1> HIDE DEF D
<1> QED
  BY <1>3, <1>4, <1>6 DEF Before

LEMMA TiedBefore ==
  ASSUME NEW order \in Orders, NEW db, NEW a \in Rows, NEW b \in Rows, NEW c \in Rows
  PROVE  /\ Tied(order, a, b) /\ Before(order, db, b, c) => Before(order, db, a, c)
         /\ Before(order, db, a, b) /\ Tied(order, b, c) => Before(order, db, a, c)
<1>0. DOMAIN order = 1..Len(order) /\ Len(order) \in Nat
  BY DEF Orders
<1>1. ASSUME Tied(order, a, b), Before(order, db, b, c) PROVE Before(order, db, a, c)
  <2>1. PICK i \in DOMAIN order : /\ Precedes(order[i], db, b[order[i].col], c[order[i].col])
                                  /\ \A j \in 1..(i - 1) : b[order[j].col] = c[order[j].col]
    BY <1>1 DEF Before
  <2>2. \A j \in 1..(i - 1) : j \in DOMAIN order
    BY <1>0
  <2> QED
    BY <1>1, <2>1, <2>2 DEF Before, Tied
<1>2. ASSUME Before(order, db, a, b), Tied(order, b, c) PROVE Before(order, db, a, c)
  <2>1. PICK i \in DOMAIN order : /\ Precedes(order[i], db, a[order[i].col], b[order[i].col])
                                  /\ \A j \in 1..(i - 1) : a[order[j].col] = b[order[j].col]
    BY <1>2 DEF Before
  <2>2. \A j \in 1..(i - 1) : j \in DOMAIN order
    BY <1>0
  <2> QED
    BY <1>2, <2>1, <2>2 DEF Before, Tied
<1> QED
  BY <1>1, <1>2

LEMMA TiedIs ==
  ASSUME NEW order, NEW a, NEW b, NEW c
  PROVE  /\ Tied(order, a, a)
         /\ Tied(order, a, b) => Tied(order, b, a)
         /\ Tied(order, a, b) /\ Tied(order, b, c) => Tied(order, a, c)
BY DEF Tied

\* Rows without a NULL, and statements that put it where SQLite does, are in
\* the same order in both databases.
LEMMA SortedAlike ==
  ASSUME NEW order \in Orders, NEW rows \in Seq(Rows),
         \A item \in ToSet(order) :
           NullsFirst(item) = NullsFirstInSqlite(item) \/ \A i \in DOMAIN rows : rows[i][item.col] # 0
  PROVE  Sorted(rows, order, "sqlite") = Sorted(rows, order, "postgres")
<1>1. \A i, j \in DOMAIN rows : Before(order, "sqlite", rows[i], rows[j]) <=> Before(order, "postgres", rows[i], rows[j])
  <2> TAKE i, j \in DOMAIN rows
  <2>1. \A k \in DOMAIN order :
          Precedes(order[k], "sqlite", rows[i][order[k].col], rows[j][order[k].col])
            <=> Precedes(order[k], "postgres", rows[i][order[k].col], rows[j][order[k].col])
    <3> TAKE k \in DOMAIN order
    <3>1. order[k] \in ToSet(order)
      BY DEF ToSet, Orders
    <3>2. \/ NullsFirst(order[k]) = NullsFirstInSqlite(order[k])
          \/ rows[i][order[k].col] # 0 /\ rows[j][order[k].col] # 0
      BY <3>1
    <3>3. /\ PutsNullFirst(order[k], "sqlite") <=> NullsFirstInSqlite(order[k])
          /\ PutsNullFirst(order[k], "postgres") <=> NullsFirst(order[k])
      BY DEF PutsNullFirst
    <3>4. NullsFirst(order[k]) \in BOOLEAN /\ NullsFirstInSqlite(order[k]) \in BOOLEAN
      BY DEF NullsFirst, NullsFirstInSqlite
    <3> QED
      BY <3>2, <3>3, <3>4 DEF Precedes
  <2> QED
    BY <2>1 DEF Before
<1> DEFINE D        == DOMAIN rows
           Keeps(p, db) == \A i, j \in D : i < j => ~Before(order, db, rows[p[j]], rows[p[i]])
<1>2. \A p \in Bijection(D, D) : Keeps(p, "sqlite") <=> Keeps(p, "postgres")
  <2> TAKE p \in Bijection(D, D)
  <2>1. \A i \in D : p[i] \in D
    BY DEF Bijection, Injection
  <2> HIDE DEF D
  <2> QED
    BY <1>1, <2>1 DEF D
<1>3. \A db : Sorted(rows, order, db) = {[i \in D |-> rows[p[i]]] : p \in {p \in Bijection(D, D) : Keeps(p, db)}}
  BY DEF Sorted
<1> HIDE DEF D, Keeps
<1>4. {p \in Bijection(D, D) : Keeps(p, "sqlite")} = {p \in Bijection(D, D) : Keeps(p, "postgres")}
  BY <1>2
<1> QED
  BY <1>3, <1>4

KeepsOrder(order, db, s) == \A i, j \in 1..Len(s) : i < j => ~Before(order, db, s[j], s[i])

Picked(s, n, p) == [i \in 1..n |-> s[p[i]]]

LEMMA SortedIs ==
  ASSUME NEW order, NEW db, NEW rows \in Seq(Rows), NEW s
  PROVE  s \in Sorted(rows, order, db) <=>
           \E p : Counts(p, Len(rows), 1..Len(rows)) /\ s = Picked(rows, Len(rows), p) /\ KeepsOrder(order, db, s)
<1> DEFINE n == Len(rows)
           Keeps(p) == \A i, j \in 1..n : i < j => ~Before(order, db, rows[p[j]], rows[p[i]])
<1>0. DOMAIN rows = 1..n /\ n \in Nat
  OBVIOUS
<1>1. Sorted(rows, order, db) = {Picked(rows, n, p) : p \in {p \in Bijection(1..n, 1..n) : Keeps(p)}}
  BY <1>0 DEF Sorted, Picked
<1>2. \A p : p \in Bijection(1..n, 1..n) <=> Counts(p, n, 1..n)
  BY <1>0 DEF Bijection, Injection, IsInjective, Surjection, Counts
<1>3. \A p : Keeps(p) <=> KeepsOrder(order, db, Picked(rows, n, p))
  <2> TAKE p
  <2>1. Len(Picked(rows, n, p)) = n /\ \A i \in 1..n : Picked(rows, n, p)[i] = rows[p[i]]
    BY <1>0 DEF Picked
  <2> HIDE DEF n
  <2> QED
    BY <2>1 DEF KeepsOrder
<1> HIDE DEF n, Keeps
<1>4. s \in Sorted(rows, order, db) <=> \E p : p \in Bijection(1..n, 1..n) /\ Keeps(p) /\ s = Picked(rows, n, p)
  BY <1>1
<1> QED
  BY <1>2, <1>3, <1>4 DEF n

-----------------------------------------------------------------------------
(* The first row of every group *)

SameOn(on, a, b) == \A c \in ToSet(on) : a[c] = b[c]

FirstOnes(s, on) == {i \in 1..Len(s) : \A j \in 1..(i - 1) : ~SameOn(on, s[j], s[i])}

Upward(e, m) == \A a, b \in 1..m : a < b => e[a] < e[b]

LEMMA FirstsAre ==
  ASSUME NEW s \in Seq(Rows), NEW on, NEW m, NEW e, Counts(e, m, FirstOnes(s, on)), Upward(e, m)
  PROVE  Firsts(s, on) = Picked(s, m, e)
<1> DEFINE K == FirstOnes(s, on)
<1>1. K \in SUBSET (1..Len(s)) /\ DOMAIN s = 1..Len(s)
  BY DEF FirstOnes
<1>2. \A i \in DOMAIN s : (\A j \in 1..(i - 1) : ~\A c \in ToSet(on) : s[j][c] = s[i][c]) <=> i \in K
  BY <1>1 DEF FirstOnes, SameOn
<1>3. Firsts(s, on) = FlattenSeq([i \in DOMAIN s |-> IF i \in K THEN <<s[i]>> ELSE <<>>])
  <2> DEFINE F(i) == \A j \in 1..(i - 1) : ~\A c \in ToSet(on) : s[j][c] = s[i][c]
  <2>1. Firsts(s, on) = FlattenSeq([i \in DOMAIN s |-> IF F(i) THEN <<s[i]>> ELSE <<>>])
    BY DEF Firsts
  <2> HIDE DEF F
  <2>2. \A i \in DOMAIN s : F(i) <=> i \in K
    BY <1>2 DEF F
  <2> HIDE DEF K
  <2>3. [i \in DOMAIN s |-> IF F(i) THEN <<s[i]>> ELSE <<>>] = [i \in DOMAIN s |-> IF i \in K THEN <<s[i]>> ELSE <<>>]
    BY <2>2
  <2> QED
    BY <2>1, <2>3
<1> HIDE DEF K
<1>4. Counts(e, m, K) /\ \A a, b \in 1..m : a < b => e[a] < e[b]
  BY DEF K, Upward
<1> QED
  BY <1>1, <1>3, <1>4, KeptRows DEF Picked

\* The first rows are as many as are counted, in the order in which they stand.
LEMMA FirstsCounted ==
  ASSUME NEW s \in Seq(Rows), NEW on
  PROVE  \E m, e : Counts(e, m, FirstOnes(s, on)) /\ Upward(e, m) /\ Firsts(s, on) = Picked(s, m, e)
<1> DEFINE K == FirstOnes(s, on)
           L == {p \in K \X K : p[1] < p[2]}
<1>1. K \subseteq 1..Len(s) /\ Len(s) \in Nat
  BY DEF FirstOnes
<1>2. IsFiniteSet(K)
  <2>1. \A k \in Nat : IsFiniteSet(1..k)
    BY FS_Interval
  <2>2. IsFiniteSet(1..Len(s))
    BY <1>1, <2>1
  <2> HIDE DEF K
  <2> QED
    BY <1>1, <2>2, FS_Subset
<1> HIDE DEF K
<1>3. LinearOn(L, K)
  <2>1. \A x \in K : x \in Nat
    BY <1>1
  <2> QED
    BY <2>1 DEF LinearOn
<1>4. \A x, y \in K : <<x, y>> \in L <=> x < y
  OBVIOUS
<1> HIDE DEF L
<1>5. PICK e : Counts(e, Cardinality(K), K) /\ InOrder(e, Cardinality(K), L)
  BY <1>2, <1>3, OrderedByCounts
<1>6. Upward(e, Cardinality(K))
  BY <1>4, <1>5 DEF Upward, InOrder, Counts
<1>7. Firsts(s, on) = Picked(s, Cardinality(K), e)
  BY <1>5, <1>6, FirstsAre DEF K
<1> QED
  BY <1>5, <1>6, <1>7 DEF K

-----------------------------------------------------------------------------
(* Rows that are tied, the first of every group before the others *)

Leads(order, db, t, w) ==
  {p \in (1..Len(t)) \X (1..Len(t)) :
     Before(order, db, t[p[1]], t[p[2]]) \/ (Tied(order, t[p[1]], t[p[2]]) /\ w[p[1]] < w[p[2]])}

LEMMA LeadsLinear ==
  ASSUME NEW order \in Orders, NEW db, NEW t \in Seq(Rows), NEW w \in [1..Len(t) -> Nat],
         \A i, j \in 1..Len(t) : w[i] = w[j] => i = j
  PROVE  /\ LinearOn(Leads(order, db, t, w), 1..Len(t))
         /\ \A x, y \in 1..Len(t) : <<x, y>> \in Leads(order, db, t, w) => ~Before(order, db, t[y], t[x])
<1> DEFINE D == 1..Len(t)
           L == Leads(order, db, t, w)
           B(x, y) == Before(order, db, t[x], t[y])
           E(x, y) == Tied(order, t[x], t[y])
<1>0. (\A x \in D : t[x] \in Rows) /\ \A x \in D : w[x] \in Nat
  OBVIOUS
<1>1. \A x, y \in D : <<x, y>> \in L <=> B(x, y) \/ (E(x, y) /\ w[x] < w[y])
  BY DEF Leads
<1> HIDE DEF L, D
<1>2. \A x \in D : ~B(x, x) /\ E(x, x)
  BY <1>0, BeforeSelf, TiedIs
<1>3. \A x, y, z \in D : /\ B(x, y) /\ B(y, z) => B(x, z)
                         /\ E(x, y) /\ B(y, z) => B(x, z)
                         /\ B(x, y) /\ E(y, z) => B(x, z)
                         /\ E(x, y) /\ E(y, z) => E(x, z)
  BY <1>0, BeforeBefore, TiedBefore, TiedIs
<1>4. \A x, y \in D : E(x, y) => E(y, x)
  BY TiedIs
<1>5. \A x, y \in D : E(x, y) \/ B(x, y) \/ B(y, x)
  BY <1>0, TiedOrNot
<1> HIDE DEF B, E
<1>6. \A x \in D : <<x, x>> \notin L
  BY <1>0, <1>1, <1>2
<1>7. \A x, y, z \in D : <<x, y>> \in L /\ <<y, z>> \in L => <<x, z>> \in L
  <2> TAKE x, y, z \in D
  <2> HAVE <<x, y>> \in L /\ <<y, z>> \in L
  <2>1. (B(x, y) \/ (E(x, y) /\ w[x] < w[y])) /\ (B(y, z) \/ (E(y, z) /\ w[y] < w[z]))
    BY <1>1
  <2>2. w[x] < w[y] /\ w[y] < w[z] => w[x] < w[z]
    BY <1>0
  <2>3. B(x, z) \/ (E(x, z) /\ w[x] < w[z])
    BY <1>3, <2>1, <2>2
  <2> QED
    BY <1>1, <2>3
<1>8. \A x, y \in D : x # y => <<x, y>> \in L \/ <<y, x>> \in L
  <2> TAKE x, y \in D
  <2> HAVE x # y
  <2>1. w[x] < w[y] \/ w[y] < w[x]
    <3>1. w[x] # w[y]
      BY DEF D
    <3> QED
      BY <1>0, <3>1
  <2> QED
    BY <1>1, <1>4, <1>5, <2>1
<1>9. \A x, y \in D : <<x, y>> \in L => ~B(y, x)
  BY <1>1, <1>2, <1>3
<1> QED
  BY <1>6, <1>7, <1>8, <1>9 DEF LinearOn, D, L, B

\* u is the first rows of every group of t, f says which, and both are sorted.
Arranges(order, db, on, t, m, f) ==
  /\ order \in Orders /\ t \in Seq(Rows) /\ KeepsOrder(order, db, t)
  /\ Counts(f, m, FirstOnes(t, on)) /\ KeepsOrder(order, db, Picked(t, m, f))

\* The first rows come before the others they are tied with, as f counts them.
Weight(on, t, m, f) ==
  [i \in 1..Len(t) |-> IF i \in FirstOnes(t, on) THEN CHOOSE a \in 1..m : f[a] = i ELSE m + i]

LEMMA WeightIs ==
  ASSUME NEW on, NEW t \in Seq(Rows), NEW m, NEW f, Counts(f, m, FirstOnes(t, on))
  PROVE  LET w == Weight(on, t, m, f)
             K == FirstOnes(t, on)
         IN  /\ w \in [1..Len(t) -> Nat] /\ \A i, j \in 1..Len(t) : w[i] = w[j] => i = j
             /\ \A a \in 1..m : w[f[a]] = a
             /\ \A i \in 1..Len(t) : IF i \in K THEN w[i] <= m ELSE w[i] > m
<1> DEFINE w == Weight(on, t, m, f)
           K == FirstOnes(t, on)
           n == Len(t)
<1>0. /\ n \in Nat /\ m \in Nat /\ K \subseteq 1..n /\ f \in [1..m -> K]
      /\ (\A a, b \in 1..m : f[a] = f[b] => a = b) /\ \A x \in K : \E a \in 1..m : f[a] = x
  <2>1. n \in Nat
    OBVIOUS
  <2>2. K \subseteq 1..n
    BY DEF FirstOnes
  <2> HIDE DEF K
  <2> QED
    BY <2>1, <2>2 DEF Counts, K
<1>1. \A i \in 1..n : w[i] = IF i \in K THEN CHOOSE a \in 1..m : f[a] = i ELSE m + i
  BY DEF Weight
<1>2. w = [i \in 1..n |-> w[i]]
  BY DEF Weight
<1> HIDE DEF w, K, n
<1>3. \A i \in 1..n : i \in K => w[i] \in 1..m /\ f[w[i]] = i
  BY <1>0, <1>1, ZenonT(60)
<1>4. \A i \in 1..n : i \notin K => w[i] = m + i /\ w[i] \in Nat /\ w[i] > m
  BY <1>0, <1>1
<1>5. w \in [1..n -> Nat]
  <2>1. \A i \in 1..n : w[i] \in Nat
    BY <1>0, <1>3, <1>4
  <2> QED
    BY <1>2, <2>1
<1>6. \A a \in 1..m : w[f[a]] = a
  <2> TAKE a \in 1..m
  <2>1. f[a] \in K /\ f[a] \in 1..n
    BY <1>0
  <2>2. w[f[a]] \in 1..m /\ f[w[f[a]]] = f[a]
    BY <1>3, <2>1
  <2> QED
    BY <1>0, <2>2
<1>7. \A i, j \in 1..n : w[i] = w[j] => i = j
  <2> TAKE i, j \in 1..n
  <2> HAVE w[i] = w[j]
  <2>1. CASE i \in K /\ j \in K
    BY <1>3, <2>1
  <2>2. CASE i \notin K /\ j \notin K
    <3>1. m + i = m + j /\ i \in Nat /\ j \in Nat
      BY <1>4, <2>2
    <3> QED
      BY <1>0, <3>1
  <2>3. CASE (i \in K /\ j \notin K) \/ (i \notin K /\ j \in K)
    BY <1>0, <1>3, <1>4, <2>3
  <2> QED
    BY <2>1, <2>2, <2>3
<1>8. \A i \in 1..n : IF i \in K THEN w[i] <= m ELSE w[i] > m
  BY <1>0, <1>3, <1>4
<1> QED
  BY <1>5, <1>6, <1>7, <1>8 DEF w, K, n

\* All the rows can be arranged so that the first ones are found in that order.
LEMMA Arranged ==
  ASSUME NEW order, NEW db, NEW on, NEW t, NEW m, NEW f, Arranges(order, db, on, t, m, f)
  PROVE  \E g : /\ Counts(g, Len(t), 1..Len(t))
                /\ KeepsOrder(order, db, Picked(t, Len(t), g))
                /\ Firsts(Picked(t, Len(t), g), on) = Picked(t, m, f)
<1> DEFINE n == Len(t)
           D == 1..n
           K == FirstOnes(t, on)
           w == Weight(on, t, m, f)
           L == Leads(order, db, t, w)
           u == Picked(t, m, f)
           SameGroup(i, j) == SameOn(on, t[i], t[j])
<1>0. order \in Orders /\ t \in Seq(Rows) /\ n \in Nat /\ \A i \in D : t[i] \in Rows
  BY DEF Arranges
<1>1. Counts(f, m, K) /\ m \in Nat /\ K \subseteq D /\ (\A a \in 1..m : f[a] \in K) /\ \A x \in K : \E a \in 1..m : f[a] = x
  BY DEF Arranges, Counts, FirstOnes
<1>2. /\ w \in [D -> Nat] /\ \A i, j \in D : w[i] = w[j] => i = j
      /\ \A a \in 1..m : w[f[a]] = a
      /\ \A i \in D : IF i \in K THEN w[i] <= m ELSE w[i] > m
  BY <1>0, <1>1, WeightIs
<1>3. /\ LinearOn(L, D)
      /\ \A x, y \in D : <<x, y>> \in L => ~Before(order, db, t[y], t[x])
  BY <1>0, <1>2, LeadsLinear
<1>4. \A x, y \in D : <<x, y>> \in L <=>
        Before(order, db, t[x], t[y]) \/ (Tied(order, t[x], t[y]) /\ w[x] < w[y])
  BY DEF Leads
<1>5. \A i, j \in D : i < j => ~Before(order, db, t[j], t[i])
  BY DEF Arranges, KeepsOrder
<1>6. \A i \in D : i \in K <=> \A j \in 1..(i - 1) : ~SameGroup(j, i)
  BY DEF FirstOnes
<1>7. \A i, j, k : SameGroup(i, j) => SameGroup(j, i) /\ (SameGroup(j, k) => SameGroup(i, k))
  BY DEF SameOn
<1>8. \A a, b \in 1..m : a < b => ~Before(order, db, t[f[b]], t[f[a]])
  <2>1. Len(u) = m /\ \A a \in 1..m : u[a] = t[f[a]]
    BY <1>1 DEF Picked
  <2> HIDE DEF u
  <2>2. KeepsOrder(order, db, u)
    BY DEF Arranges, u
  <2> QED
    BY <2>1, <2>2 DEF KeepsOrder
<1> HIDE DEF K, w, L, SameGroup
<1>9. \A x, y \in D : ~Before(order, db, t[y], t[x]) /\ w[x] < w[y] => <<x, y>> \in L
  <2> TAKE x, y \in D
  <2> HAVE ~Before(order, db, t[y], t[x]) /\ w[x] < w[y]
  <2>1. Tied(order, t[x], t[y]) \/ Before(order, db, t[x], t[y])
    BY <1>0, TiedOrNot
  <2> QED
    BY <1>4, <2>1
<1>10. PICK g : Counts(g, n, D) /\ InOrder(g, n, L)
  <2>1. IsFiniteSet(D) /\ Cardinality(D) = n
    <3>1. \A k \in Nat : IsFiniteSet(1..k) /\ Cardinality(1..k) = k
      BY FS_Interval
    <3> QED
      BY <1>0, <3>1
  <2> HIDE DEF D, n
  <2> QED
    BY <1>3, <2>1, OrderedByCounts
<1> DEFINE h == [i \in D |-> CHOOSE a \in D : g[a] = i]
           s == Picked(t, n, g)
<1>11. /\ \A a \in D : g[a] \in D
       /\ \A i \in D : h[i] \in D /\ g[h[i]] = i
       /\ \A a \in D : h[g[a]] = a
  <2>1. g \in [D -> D] /\ (\A a, b \in D : g[a] = g[b] => a = b) /\ \A i \in D : \E a \in D : g[a] = i
    BY <1>10 DEF Counts
  <2> HIDE DEF D
  <2>2. \A i \in D : h[i] \in D /\ g[h[i]] = i
    BY <2>1
  <2> HIDE DEF h
  <2> QED
    BY <2>1, <2>2
<1>12. Len(s) = n /\ s \in Seq(Rows) /\ \A a \in D : s[a] = t[g[a]]
  <2>1. \A a \in D : t[g[a]] \in Rows
    BY <1>0, <1>11
  <2>2. s = [a \in 1..n |-> t[g[a]]]
    BY DEF Picked
  <2> QED
    BY <1>0, <2>1, <2>2
<1> HIDE DEF h, s
<1>13. \A x, y \in D : <<x, y>> \in L => h[x] < h[y]
  <2> TAKE x, y \in D
  <2> HAVE <<x, y>> \in L
  <2>1. h[x] \in D /\ h[y] \in D /\ g[h[x]] = x /\ g[h[y]] = y
    BY <1>11
  <2>2. x # y /\ <<y, x>> \notin L
    BY <1>3 DEF LinearOn
  <2>3. ~(h[y] < h[x])
    BY <1>10, <2>1, <2>2 DEF InOrder
  <2>4. h[x] # h[y]
    BY <2>1, <2>2
  <2>5. h[x] \in Nat /\ h[y] \in Nat
    BY <1>0, <2>1
  <2> QED
    BY <2>3, <2>4, <2>5
<1>14. KeepsOrder(order, db, s)
  <2> SUFFICES ASSUME NEW a \in D, NEW b \in D, a < b PROVE ~Before(order, db, s[b], s[a])
    BY <1>12 DEF KeepsOrder
  <2>1. <<g[a], g[b]>> \in L
    BY <1>10 DEF InOrder
  <2> QED
    BY <1>3, <1>11, <1>12, <2>1
\* A row is the first of its group there if it was before.
<1>15. \A a \in D : a \in FirstOnes(s, on) <=> g[a] \in K
  <2> TAKE a \in D
  <2> DEFINE i == g[a]
  <2>0. i \in D /\ h[i] = a /\ i \in Nat /\ a \in Nat
    BY <1>0, <1>11
  <2>1. a \in FirstOnes(s, on) <=> \A b \in 1..(a - 1) : ~SameGroup(g[b], i)
    <3>1. \A b \in 1..(a - 1) : b \in D
      BY <1>0
    <3>2. a \in FirstOnes(s, on) <=> \A b \in 1..(a - 1) : ~SameOn(on, s[b], s[a])
      BY <1>12 DEF FirstOnes
    <3> QED
      BY <1>12, <3>1, <3>2 DEF SameGroup
  <2> HIDE DEF i
  <2>2. ASSUME i \in K, NEW b \in 1..(a - 1), SameGroup(g[b], i) PROVE FALSE
    <3> DEFINE k == g[b]
    <3>1. b \in D /\ b < a /\ k \in D /\ k \in Nat
      BY <1>0, <1>11, <2>0
    <3>2. <<k, i>> \in L
      BY <1>10, <3>1 DEF InOrder, i
    <3>3. k # i
      BY <1>3, <2>0, <3>2 DEF LinearOn
    <3> HIDE DEF k
    <3>4. SameGroup(k, i)
      BY <2>2 DEF k
    <3>5. ~(k < i)
      <4>1. k < i => k \in 1..(i - 1)
        BY <2>0, <3>1
      <4> QED
        BY <1>6, <2>0, <2>2, <3>4, <4>1
    <3>6. i < k
      BY <2>0, <3>1, <3>3, <3>5
    <3>7. w[k] < w[i]
      BY <1>4, <1>5, <2>0, <3>1, <3>2, <3>6
    <3>8. k \notin K
      <4>1. i \in 1..(k - 1)
        BY <1>0, <2>0, <3>1, <3>6
      <4> QED
        BY <1>6, <1>7, <3>1, <3>4, <4>1
    <3>9. w[i] <= m /\ w[k] > m /\ w[i] \in Nat /\ w[k] \in Nat
      BY <1>2, <2>0, <2>2, <3>1, <3>8
    <3> QED
      BY <1>1, <3>7, <3>9
  <2>3. ASSUME i \notin K PROVE \E b \in 1..(a - 1) : SameGroup(g[b], i)
    <3> DEFINE G == {j \in D : SameGroup(j, i)}
    <3>1. PICK j \in 1..(i - 1) : SameGroup(j, i)
      BY <1>6, <2>0, <2>3
    <3>2. j \in G /\ j < i /\ j \in Nat
      BY <1>0, <2>0, <3>1
    <3>3. G \subseteq Nat /\ G # {}
      BY <1>0, <3>2
    <3>4. PICK k \in G : \A l \in G : k <= l
      <4> HIDE DEF G
      <4> QED
        BY <3>3, LeastNat
    <3>5. k \in D /\ SameGroup(k, i) /\ k \in Nat
      BY <3>3
    <3>6. k < i
      BY <2>0, <3>2, <3>4, <3>5
    <3>7. k \in K
      <4>1. \A l \in 1..(k - 1) : ~SameGroup(l, k)
        <5> SUFFICES ASSUME NEW l \in 1..(k - 1), SameGroup(l, k) PROVE FALSE
          OBVIOUS
        <5>1. l \in D /\ l < k /\ l \in Nat
          BY <1>0, <3>5
        <5>2. l \in G
          BY <1>7, <3>5, <5>1
        <5> QED
          BY <3>4, <3>5, <5>1, <5>2
      <4> QED
        BY <1>6, <3>5, <4>1
    <3>8. w[k] < w[i]
      <4>1. w[k] <= m /\ w[i] > m /\ w[k] \in Nat /\ w[i] \in Nat
        BY <1>2, <2>0, <2>3, <3>5, <3>7
      <4> QED
        BY <1>1, <4>1
    <3>9. <<k, i>> \in L
      BY <1>5, <1>9, <2>0, <3>5, <3>6, <3>8
    <3>10. h[k] < a /\ h[k] \in D /\ g[h[k]] = k
      BY <1>11, <1>13, <2>0, <3>5, <3>9
    <3>11. h[k] \in 1..(a - 1)
      BY <1>0, <2>0, <3>10
    <3> QED
      BY <3>5, <3>10, <3>11
  <2> QED
    BY <2>1, <2>2, <2>3 DEF i
<1> DEFINE e == [a \in 1..m |-> h[f[a]]]
<1>16. \A a \in 1..m : e[a] \in D /\ g[e[a]] = f[a] /\ f[a] \in D
  BY <1>1, <1>11
<1>17. e = [a \in 1..m |-> e[a]]
  OBVIOUS
<1> HIDE DEF e
<1>18. Counts(e, m, FirstOnes(s, on))
  <2>1. \A a \in 1..m : e[a] \in FirstOnes(s, on)
    BY <1>1, <1>15, <1>16
  <2>2. e \in [1..m -> FirstOnes(s, on)]
    BY <1>17, <2>1
  <2>3. \A a, b \in 1..m : e[a] = e[b] => a = b
    BY <1>1, <1>16, SMTT(60) DEF Counts
  <2>4. \A x \in FirstOnes(s, on) : \E a \in 1..m : e[a] = x
    <3> TAKE x \in FirstOnes(s, on)
    <3>1. x \in D /\ g[x] \in K
      <4>1. x \in D
        BY <1>12 DEF FirstOnes
      <4> QED
        BY <1>15, <4>1
    <3>2. PICK a \in 1..m : f[a] = g[x]
      BY <1>1, <3>1
    <3>3. e[a] = h[g[x]]
      BY <3>2 DEF e
    <3> QED
      BY <1>11, <3>1, <3>3
  <2> QED
    BY <1>1, <2>2, <2>3, <2>4 DEF Counts
<1>19. Upward(e, m)
  <2> SUFFICES ASSUME NEW a \in 1..m, NEW b \in 1..m, a < b PROVE e[a] < e[b]
    BY DEF Upward
  <2>1. w[f[a]] = a /\ w[f[b]] = b /\ ~Before(order, db, t[f[b]], t[f[a]])
    BY <1>2, <1>8
  <2>2. <<f[a], f[b]>> \in L
    BY <1>9, <1>16, <2>1
  <2> QED
    BY <1>13, <1>16, <2>2 DEF e
<1>20. Firsts(s, on) = u
  <2>1. Firsts(s, on) = Picked(s, m, e)
    BY <1>12, <1>18, <1>19, FirstsAre
  <2>2. \A a \in 1..m : s[e[a]] = t[f[a]]
    BY <1>12, <1>16
  <2>3. Picked(s, m, e) = Picked(t, m, f)
    BY <2>2 DEF Picked
  <2> QED
    BY <2>1, <2>3
<1> QED
  BY <1>10, <1>14, <1>20 DEF s

\* To count a count.
LEMMA CountsThrough ==
  ASSUME NEW S, NEW n, NEW p, NEW g, Counts(p, n, S), Counts(g, n, 1..n)
  PROVE  Counts([i \in 1..n |-> p[g[i]]], n, S)
<1> DEFINE D == 1..n
           f == [i \in D |-> p[g[i]]]
<1>1. /\ n \in Nat /\ p \in [D -> S] /\ (\A a, b \in D : p[a] = p[b] => a = b) /\ (\A x \in S : \E a \in D : p[a] = x)
      /\ g \in [D -> D] /\ (\A a, b \in D : g[a] = g[b] => a = b) /\ (\A x \in D : \E a \in D : g[a] = x)
  BY DEF Counts
<1> HIDE DEF D
<1>2. f \in [D -> S] /\ \A a, b \in D : f[a] = f[b] => a = b
  BY <1>1
<1>3. \A x \in S : \E a \in D : f[a] = x
  <2> TAKE x \in S
  <2>1. PICK b \in D : p[b] = x
    BY <1>1
  <2>2. PICK a \in D : g[a] = b
    BY <1>1
  <2> QED
    BY <2>1, <2>2
<1> HIDE DEF f
<1>4. Counts(f, n, S)
  BY <1>1, <1>2, <1>3 DEF Counts, D
<1> QED
  BY <1>4 DEF f, D

LEMMA PickedIs ==
  ASSUME NEW R, NEW s \in Seq(R), NEW n, NEW p, Counts(p, n, 1..Len(s))
  PROVE  Picked(s, n, p) \in Seq(R) /\ Len(Picked(s, n, p)) = n /\ \A i \in 1..n : Picked(s, n, p)[i] = s[p[i]]
<1>1. n \in Nat /\ \A i \in 1..n : p[i] \in 1..Len(s)
  BY DEF Counts
<1>2. \A i \in 1..Len(s) : s[i] \in R
  OBVIOUS
<1>3. \A i \in 1..n : s[p[i]] \in R
  <2> TAKE i \in 1..n
  <2>1. p[i] \in 1..Len(s)
    BY <1>1
  <2> QED
    BY <1>2, <2>1
<1> QED
  BY <1>1, <1>3 DEF Picked

Picks(R, s, K, n, p) == s \in Seq(R) /\ K \in SUBSET (1..Len(s)) /\ Counts(p, n, K)

LEMMA PickedSome ==
  ASSUME NEW R, NEW s, NEW K, NEW n, NEW p, Picks(R, s, K, n, p)
  PROVE  Picked(s, n, p) \in Seq(R) /\ Len(Picked(s, n, p)) = n /\ \A i \in 1..n : Picked(s, n, p)[i] = s[p[i]]
<1>0. s \in Seq(R) /\ K \in SUBSET (1..Len(s))
  BY DEF Picks
<1>1. n \in Nat /\ \A i \in 1..n : p[i] \in K
  BY DEF Picks, Counts
<1>2. \A i \in 1..n : s[p[i]] \in R
  <2> TAKE i \in 1..n
  <2>1. p[i] \in 1..Len(s)
    BY <1>0, <1>1
  <2> QED
    BY <1>0, <2>1
<1> QED
  BY <1>1, <1>2 DEF Picked

LEMMA PickedThrough ==
  ASSUME NEW s, NEW n, NEW p, NEW g, Counts(g, n, 1..n)
  PROVE  Picked(Picked(s, n, p), n, g) = Picked(s, n, [i \in 1..n |-> p[g[i]]])
<1>1. \A i \in 1..n : g[i] \in 1..n
  BY DEF Counts
<1> QED
  BY <1>1 DEF Picked

\* To sort the first rows again leaves what they could have been at once.
LEMMA FirstsSorted ==
  ASSUME NEW rows \in Seq(Rows), NEW order \in Orders, NEW db, NEW on,
         NEW t \in Sorted(rows, order, db), NEW u \in Sorted(Firsts(t, on), order, db)
  PROVE  \E s \in Sorted(rows, order, db) : Firsts(s, on) = u
<1> DEFINE n == Len(rows)
           K == FirstOnes(t, on)
<1>1. PICK p : Counts(p, n, 1..n) /\ t = Picked(rows, n, p) /\ KeepsOrder(order, db, t)
  BY SortedIs
<1>2. t \in Seq(Rows) /\ Len(t) = n /\ n \in Nat
  BY <1>1, PickedIs
<1>3. PICK m, e : Counts(e, m, K) /\ Firsts(t, on) = Picked(t, m, e)
  BY <1>2, FirstsCounted
<1>4. K \in SUBSET (1..Len(t))
  BY DEF FirstOnes
<1> HIDE DEF K
<1>5. Firsts(t, on) \in Seq(Rows) /\ Len(Firsts(t, on)) = m
  <2>1. Picked(t, m, e) \in Seq(Rows) /\ Len(Picked(t, m, e)) = m
    <3>1. Picks(Rows, t, K, m, e)
      BY <1>2, <1>3, <1>4 DEF Picks
    <3> QED
      BY ONLY <3>1, PickedSome
  <2> QED
    BY <1>3, <2>1, Zenon
<1>6. PICK r : Counts(r, m, 1..m) /\ u = Picked(Firsts(t, on), m, r) /\ KeepsOrder(order, db, u)
  <2> DEFINE F == Firsts(t, on)
  <2>1. F \in Seq(Rows) /\ Len(F) = m /\ u \in Sorted(F, order, db)
    BY <1>5
  <2> HIDE DEF F
  <2>2. \E r : Counts(r, m, 1..m) /\ u = Picked(F, m, r) /\ KeepsOrder(order, db, u)
    BY <2>1, SortedIs
  <2> QED
    BY <2>2 DEF F
<1> DEFINE f == [a \in 1..m |-> e[r[a]]]
<1>7. Counts(f, m, K) /\ Picked(t, m, f) = u
  BY <1>3, <1>6, CountsThrough, PickedThrough
<1> HIDE DEF f
<1>8. Arranges(order, db, on, t, m, f)
  BY <1>1, <1>2, <1>6, <1>7 DEF Arranges, K
<1>9. PICK g : /\ Counts(g, n, 1..n) /\ KeepsOrder(order, db, Picked(t, n, g))
               /\ Firsts(Picked(t, n, g), on) = u
  BY <1>2, <1>7, <1>8, Arranged
<1> DEFINE s == Picked(t, n, g)
           q == [i \in 1..n |-> p[g[i]]]
<1>10. Counts(q, n, 1..n) /\ s = Picked(rows, n, q)
  BY <1>1, <1>9, CountsThrough, PickedThrough
<1> HIDE DEF s, q
<1>11. s \in Sorted(rows, order, db)
  <2>1. KeepsOrder(order, db, s)
    BY <1>9 DEF s
  <2> QED
    BY <1>10, <2>1, SortedIs
<1> QED
  BY <1>9, <1>11 DEF s

LEMMA FirstsStaySorted ==
  ASSUME NEW rows \in Seq(Rows), NEW order \in Orders, NEW db, NEW on, NEW s \in Sorted(rows, order, db)
  PROVE  Firsts(s, on) \in Seq(Rows) /\ Firsts(s, on) \in Sorted(Firsts(s, on), order, db)
<1> DEFINE n == Len(rows)
           K == FirstOnes(s, on)
           F == Firsts(s, on)
<1>1. PICK p : Counts(p, n, 1..n) /\ s = Picked(rows, n, p) /\ KeepsOrder(order, db, s)
  BY SortedIs
<1>2. s \in Seq(Rows) /\ Len(s) = n /\ n \in Nat
  BY <1>1, PickedIs
<1>3. PICK m, e : Counts(e, m, K) /\ Upward(e, m) /\ F = Picked(s, m, e)
  BY <1>2, FirstsCounted
<1>4. K \in SUBSET (1..Len(s)) /\ m \in Nat /\ \A a \in 1..m : e[a] \in 1..Len(s)
  <2>1. K \in SUBSET (1..Len(s))
    BY DEF FirstOnes
  <2>2. m \in Nat /\ \A a \in 1..m : e[a] \in K
    BY <1>3 DEF Counts
  <2> QED
    BY <2>1, <2>2
<1> HIDE DEF K, F
<1>5. F \in Seq(Rows) /\ Len(F) = m /\ \A a \in 1..m : F[a] = s[e[a]]
  <2>1. Picks(Rows, s, K, m, e)
    BY <1>2, <1>3, <1>4 DEF Picks
  <2>2. /\ Picked(s, m, e) \in Seq(Rows) /\ Len(Picked(s, m, e)) = m
        /\ \A a \in 1..m : Picked(s, m, e)[a] = s[e[a]]
    BY ONLY <2>1, PickedSome
  <2> QED
    BY <1>3, <2>2, Zenon
<1>6. KeepsOrder(order, db, F)
  <2> SUFFICES ASSUME NEW a \in 1..m, NEW b \in 1..m, a < b PROVE ~Before(order, db, F[b], F[a])
    BY <1>5 DEF KeepsOrder
  <2>1. e[a] < e[b]
    BY <1>3 DEF Upward
  <2> QED
    BY <1>1, <1>4, <1>5, <2>1 DEF KeepsOrder
<1> DEFINE id == [a \in 1..m |-> a]
<1>7. Counts(id, m, 1..m) /\ Picked(F, m, id) = F
  BY <1>4, <1>5 DEF Counts, Picked
<1> HIDE DEF id
<1>8. F \in Sorted(F, order, db)
  BY <1>5, <1>6, <1>7, SortedIs
<1> QED
  BY <1>5, <1>8 DEF F

-----------------------------------------------------------------------------
(* Statements *)

Knows(q) ==
  /\ \A c \in ToSet(q.cols) : c.table = "" /\ c.col \in Names(Selected(q))
  /\ \A item \in ToSet(q.order) : item.col \in Names(Selected(q))

SortAlike(rows, q) ==
  \A item \in ToSet(q.order) :
    NullsFirst(item) = NullsFirstInSqlite(item) \/ \A i \in DOMAIN rows : rows[i][item.col] # 0

\* What is shown of a SELECT: the statements the property speaks of.
Answers(rows, q) ==
  SortAlike(rows, q) /\ (q.on # <<>> => q.cols # <<>> /\ Knows(q)) =>
    SqliteAnswers(rows, WriteQuery(q), q.order) \subseteq PgAnswers(rows, q)

LEMMA SelectIs ==
  ASSUME NEW rows \in SelectTables, NEW q \in SelectQueries
  PROVE  rows \in Seq(Rows) /\ q.order \in Orders /\ q.limit \in Nat \cup {NoLimit} /\ q.offset \in Nat
BY SelectAssumption, Zenon DEF IsSelect, Rows, Orders, SortItems

\* A SELECT without DISTINCT ON.
LEMMA PlainAnswers ==
  ASSUME NEW rows \in SelectTables, NEW q \in SelectQueries, q.on = <<>>
  PROVE  Answers(rows, q)
<1> SUFFICES ASSUME SortAlike(rows, q) PROVE SqliteAnswers(rows, WriteQuery(q), q.order) \subseteq PgAnswers(rows, q)
  BY DEF Answers
<1> DEFINE w == WriteQuery(q)
<1>1. ~w.rank /\ w.cols = q.cols /\ w.order = q.order /\ w.limit = q.limit /\ w.offset = q.offset
  BY DEF WriteQuery, WriteSelect
<1>2. Selected(w) = Selected(q)
  BY <1>1 DEF Selected
<1> HIDE DEF w
<1>3. SqliteAnswers(rows, w, q.order) =
        {Slice(Project(t, Selected(q)), q.limit, q.offset) : t \in Sorted(rows, q.order, "sqlite")}
  BY <1>1, <1>2 DEF SqliteAnswers
<1>4. PgAnswers(rows, q) =
        {Slice(Project(t, Selected(q)), q.limit, q.offset) : t \in Sorted(rows, q.order, "postgres")}
  BY DEF PgAnswers
<1>5. Sorted(rows, q.order, "sqlite") = Sorted(rows, q.order, "postgres")
  BY SelectIs, SortedAlike DEF SortAlike
<1> QED
  BY <1>3, <1>4, <1>5 DEF w

\* DISTINCT ON.
LEMMA DistinctAnswers ==
  ASSUME NEW rows \in SelectTables, NEW q \in SelectQueries, q.on # <<>>
  PROVE  Answers(rows, q)
<1>1. SUFFICES ASSUME SortAlike(rows, q), q.cols # <<>>, Knows(q)
               PROVE  SqliteAnswers(rows, WriteQuery(q), q.order) \subseteq PgAnswers(rows, q)
  BY DEF Answers
<1> DEFINE w   == WriteQuery(q)
           sel == Selected(q)
           sqlite == SqliteAnswers(rows, w, q.order)
           S   == Sorted(rows, q.order, "sqlite")
           Of(t) == Slice(Project(t, sel), q.limit, q.offset)
           Out(some) == {Of(t) : t \in Sorted(some, q.order, "sqlite")}
           Kept == {Firsts(t, q.on) : t \in S}
<1>2. /\ w.rank /\ w.on = q.on /\ w.cols = q.cols /\ w.order = q.order /\ w.limit = q.limit /\ w.offset = q.offset
      /\ w.within = IF q.order = <<>> THEN "on" ELSE "order"
  BY DEF WriteQuery, WriteDistinctOn
<1>3. Selected(w) = sel
  BY <1>2 DEF Selected
<1> HIDE DEF w
<1>4. (IF w.within = "on" THEN <<>> ELSE q.order) = q.order
  BY <1>2
<1>5. sqlite = UNION {Out(some) : some \in Kept}
  <2> DEFINE Bad == \/ \E c \in ToSet(w.cols) : c.table # "" \/ c.col \notin Names(Selected(w))
                    \/ \E item \in ToSet(w.order) : item.col \notin Names(Selected(w))
             within == IF w.within = "on" THEN <<>> ELSE q.order
             WKept  == {Firsts(t, w.on) : t \in Sorted(rows, within, "sqlite")}
             WOut(t) == LET out == Project(t, Selected(w))
                        IN  IF w.cols = <<>> THEN [i \in DOMAIN out |-> NumberOne(out[i])] ELSE out
             W(some) == {Slice(WOut(t), w.limit, w.offset) : t \in Sorted(some, w.order, "sqlite")}
  <2>1. sqlite = IF ~w.rank THEN {Slice(Project(t, Selected(w)), w.limit, w.offset) : t \in Sorted(rows, w.order, "sqlite")}
                 ELSE IF Bad THEN {Failed} ELSE UNION {W(some) : some \in WKept}
    BY Zenon DEF SqliteAnswers
  <2>2. ~Bad
    BY <1>1, <1>2, <1>3 DEF Knows
  <2>3. WKept = Kept
    BY <1>2, <1>4
  <2>4. \A t : WOut(t) = Project(t, sel)
    BY <1>1, <1>2, <1>3
  <2> HIDE DEF WOut, Bad, WKept, Kept, sqlite, sel
  <2>5. \A some : W(some) = Out(some)
    BY <1>2, <2>4
  <2> HIDE DEF W, Out
  <2>6. sqlite = UNION {W(some) : some \in WKept}
    BY <1>2, <2>1, <2>2
  <2> QED
    BY <2>3, <2>5, <2>6
<1>7. rows \in Seq(Rows) /\ q.order \in Orders /\ q.limit \in Nat \cup {NoLimit} /\ q.offset \in Nat
  BY SelectIs
<1>8. PgAnswers(rows, q) = {Of(Firsts(s, q.on)) : s \in S}
  <2>1. S = Sorted(rows, q.order, "postgres")
    BY <1>1, <1>7, SortedAlike DEF SortAlike
  <2> QED
    BY <2>1 DEF PgAnswers
<1> HIDE DEF S, sqlite, Of
<1>9. \A t \in S : \A u \in Sorted(Firsts(t, q.on), q.order, "sqlite") : \E s \in S : Firsts(s, q.on) = u
  BY <1>7, FirstsSorted DEF S
<1> QED
  BY <1>5, <1>8, <1>9 DEF w, sqlite

-----------------------------------------------------------------------------

\* What SQLite answers to a statement written again for it is what PostgreSQL may
\* answer, as far as Select says, for all tables, trees and limits there may be.
THEOREM SelectAnswers == SelectSpec => []SelectsAnswer
<1>1. SelectInit => SelectsAnswer
  <2> SUFFICES ASSUME SelectInit PROVE SelectsAnswer
    OBVIOUS
  <2>1. CASE kind = "select" /\ query \in SelectQueries /\ table \in SelectTables
    <3>1. Answers(table, query)
      BY <2>1, PlainAnswers, DistinctAnswers
    <3>2. (Knows(query) <=> KnowsItsColumns) /\ (SortAlike(table, query) <=> SortsAlike)
      BY DEF Knows, KnowsItsColumns, SortAlike, SortsAlike
    <3> QED
      BY <2>1, <3>1, <3>2 DEF Answers, SelectsAnswer
  <2>2. CASE kind = "set" /\ query \in SetTrees
    BY <2>2, SetsAnswer DEF SelectsAnswer
  <2>3. CASE kind = "join" /\ query \in JoinTrees
    BY <2>3, JoinsAnswer DEF SelectsAnswer, JoinAnswers
  <2>4. CASE kind = "name" /\ query \in Targets
    BY <2>4, NamesAnswer DEF SelectsAnswer
  <2>5. CASE kind = "recursive" /\ query \in RecursiveQueries
    BY <2>5, CteAnswers DEF SelectsAnswer
  <2> QED
    BY <2>1, <2>2, <2>3, <2>4, <2>5 DEF SelectInit
<1>2. SelectInit /\ [UNCHANGED selectVars]_selectVars => SelectInit'
  BY DEF selectVars, SelectInit
<1> QED
  BY <1>1, <1>2, PTL DEF SelectSpec

-----------------------------------------------------------------------------
(* Operators on arrays, ranges and shapes *)

\* What is found out of the text of an operand.
Appears(text, geo, bracket, range, literal) ==
  /\ LooksLikeGeo(text) <=> geo
  /\ "[" \in Marks(text) <=> bracket
  /\ "range" \in Marks(text) <=> range
  /\ (IsLiteral(text) /\ (LooksLikeRangeLiteral(text[1].leaf) \/ text[1].leaf = Number)) <=> literal

\* A text of one item, which is no function of SQLite.
OneItem(text) ==
  /\ text = <<text[1]>> /\ text[1].item \in {"operand", "call"}
  /\ text[1].item = "call" => text[1].f \in {"range_canonicalize", "int4range"}

LEMMA MarksOfOne == ASSUME NEW i PROVE Marks(<<i>>) = i.marks /\ Len(<<i>>) = 1 /\ <<i>>[1] = i
BY DEF Marks

LEMMA CallMarks ==
  ASSUME NEW f, NEW texts
  PROVE  \A m : m \in Call(f, texts).marks <=>
           \/ m \in {"(", ")"}
           \/ \E i \in DOMAIN texts : m \in Marks(texts[i])
           \/ Len(texts) > 1 /\ m = ","
           \/ f \in {"int4range", "range_canonicalize"} /\ m = "range"
BY DEF Call

LEMMA ColumnAppears ==
  ASSUME NEW o, o.kind = "column", IsColumnOf(o)
  PROVE  /\ OneItem(WriteOperand(o)) /\ WriteOperand(o) = <<Operand(o)>>
         /\ Appears(WriteOperand(o), FALSE, FALSE, o = NamedRange, FALSE)
<1>1. WriteOperand(o) = <<Operand(o)>>
  BY DEF WriteOperand, WriteLeaf
<1>2. Marks(<<Operand(o)>>) = {o.name} /\ OneItem(<<Operand(o)>>)
  BY MarksOfOne DEF Operand, LeafMarks, OneItem
<1>3. ~IsLiteral(<<Operand(o)>>)
  BY DEF IsLiteral, Operand
<1>4. o.name \notin {"<", "(", "["}
  BY DEF IsColumnOf, OperandMarks
<1>5. o.name = "range" <=> o = NamedRange
  BY DEF IsColumnOf, NamedRange, Column
<1> QED
  BY <1>1, <1>2, <1>3, <1>4, <1>5 DEF Appears, LooksLikeGeo

LEMMA LiteralMarks ==
  ASSUME NEW o, o.kind = "literal"
  PROVE  /\ Marks(<<Operand(o)>>) = {o.first, o.last} \cup o.inner \cup (IF o.commas > 0 THEN {","} ELSE {})
         /\ OneItem(<<Operand(o)>>) /\ IsLiteral(<<Operand(o)>>) /\ <<Operand(o)>>[1].leaf = o
BY MarksOfOne DEF Operand, LeafMarks, OneItem, IsLiteral

LEMMA NumberIs == Number.kind = "literal" /\ Number.first = "1" /\ Number.last = "1" /\ Number.commas = 0 /\ Number.inner = {}
BY DEF Number, Literal

LEMMA ArrayAppears ==
  ASSUME NEW o, o.kind = "literal", IsLiteralOf(o, {<<"[", "]">>, <<"{", "}">>}, Nat, OperandMarks \ {","})
  PROVE  /\ OneItem(WriteOperand(o))
         /\ \E literal \in BOOLEAN : /\ Appears(WriteOperand(o), LikeAShape(o), HasBracket(o), FALSE, literal)
                                     /\ literal => HasBracket(o)
<1>1. (o.first = "[" /\ o.last = "]") \/ (o.first = "{" /\ o.last = "}")
  BY DEF IsLiteralOf
<1>2. WriteOperand(o) = <<Operand(o)>>
  BY <1>1 DEF WriteOperand, WriteLeaf, LooksLikeRangeLiteral
<1> DEFINE M == Marks(<<Operand(o)>>)
<1>3. /\ M = {o.first, o.last} \cup o.inner \cup (IF o.commas > 0 THEN {","} ELSE {})
      /\ OneItem(<<Operand(o)>>) /\ IsLiteral(<<Operand(o)>>) /\ <<Operand(o)>>[1].leaf = o
  BY LiteralMarks
<1>4. o.inner \subseteq {"<", ">", "(", ")", "[", "]"} /\ o.commas \in Nat
  BY DEF IsLiteralOf, OperandMarks
<1> HIDE DEF M
<1>5. /\ "<" \in M <=> "<" \in o.inner
      /\ "(" \in M <=> "(" \in o.inner
      /\ ")" \in M <=> ")" \in o.inner
      /\ "," \in M <=> o.commas > 0
      /\ "[" \in M <=> HasBracket(o)
      /\ "range" \notin M
  BY <1>1, <1>3, <1>4 DEF HasBracket
<1>6. LooksLikeGeo(<<Operand(o)>>) <=> LikeAShape(o)
  BY <1>5 DEF LooksLikeGeo, LikeAShape, M
<1>7. LooksLikeRangeLiteral(o) \/ o = Number => HasBracket(o)
  <2>1. o # Number
    BY <1>1, NumberIs
  <2> QED
    BY <1>1, <2>1 DEF LooksLikeRangeLiteral, HasBracket
<1> DEFINE literal == LooksLikeRangeLiteral(o) \/ o = Number
<1>8. Appears(WriteOperand(o), LikeAShape(o), HasBracket(o), FALSE, literal)
  BY <1>2, <1>3, <1>5, <1>6 DEF Appears, M
<1> QED
  BY <1>2, <1>3, <1>7, <1>8

LEMMA BoxAppears ==
  ASSUME NEW o, o.kind = "literal", IsLiteralOf(o, {<<"(", ")">>}, {1, 3}, {"(", ")"})
  PROVE  OneItem(WriteOperand(o)) /\ LooksLikeGeo(WriteOperand(o))
<1>1. o.first = "(" /\ o.last = ")" /\ o.commas \in {1, 3} /\ o.inner \subseteq {"(", ")"}
  BY DEF IsLiteralOf
<1>2. LooksLikeGeoLiteral(o)
  BY <1>1 DEF LooksLikeGeoLiteral, LeafMarks
<1>3. WriteOperand(o) = <<Operand(o)>>
  BY <1>2 DEF WriteOperand, WriteLeaf
<1> DEFINE M == Marks(<<Operand(o)>>)
<1>5. M = {o.first, o.last} \cup o.inner \cup (IF o.commas > 0 THEN {","} ELSE {}) /\ OneItem(<<Operand(o)>>)
  BY LiteralMarks
<1> HIDE DEF M
<1>6. o.commas > 0
  BY <1>1
<1>4. {"(", ",", ")"} \subseteq M /\ "[" \notin M /\ OneItem(<<Operand(o)>>)
  BY <1>1, <1>5, <1>6
<1> QED
  BY <1>3, <1>4 DEF LooksLikeGeo, M

\* A number is the only literal of a range that is not taken for an array or a shape.
LEMMA RangeAppears ==
  ASSUME NEW o, IsOperandOf(o, "range")
  PROVE  /\ OneItem(WriteOperand(o))
         /\ \/ o.kind = "column" /\ IsColumnOf(o)
            \/ o = Number /\ Appears(WriteOperand(o), FALSE, FALSE, FALSE, TRUE)
            \/ o # Number /\ o.kind # "column" /\ (LooksLikeGeo(WriteOperand(o)) \/ "[" \in Marks(WriteOperand(o)))
<1>1. CASE o.kind = "column" /\ IsColumnOf(o)
  BY <1>1, ColumnAppears
<1>2. CASE o = Number
  <2>1. o.kind = "literal" /\ o.first = "1" /\ o.last = "1" /\ o.commas = 0 /\ o.inner = {}
    BY <1>2, NumberIs
  <2>2. WriteOperand(o) = <<Operand(o)>>
    BY <2>1 DEF WriteOperand, WriteLeaf, LooksLikeRangeLiteral
  <2> DEFINE text == <<Operand(o)>>
  <2>4. /\ Marks(text) = {o.first, o.last} \cup o.inner \cup (IF o.commas > 0 THEN {","} ELSE {})
        /\ OneItem(text) /\ IsLiteral(text) /\ text[1].leaf = o
    BY <2>1, LiteralMarks
  <2> HIDE DEF text
  <2>3. Marks(text) = {"1"}
    BY <2>1, <2>4
  <2>5. Appears(text, FALSE, FALSE, FALSE, TRUE)
    BY <1>2, <2>3, <2>4 DEF Appears, LooksLikeGeo
  <2> QED
    BY <1>2, <2>2, <2>4, <2>5 DEF text
<1>3. CASE o.kind = "literal" /\ o # Number /\ IsLiteralOf(o, {"[", "("} \X {"]", ")"}, {1}, {})
  <2>1. o.first \in {"[", "("} /\ o.last \in {"]", ")"} /\ o.commas = 1 /\ o.inner = {}
    BY <1>3 DEF IsLiteralOf
  <2>2. LooksLikeRangeLiteral(o)
    BY <2>1 DEF LooksLikeRangeLiteral
  <2>7. Marks(<<Operand(o)>>) = {o.first, o.last} \cup o.inner \cup (IF o.commas > 0 THEN {","} ELSE {}) /\ OneItem(<<Operand(o)>>)
    BY <1>3, LiteralMarks
  <2>8. o.commas > 0
    BY <2>1
  <2>3. Marks(<<Operand(o)>>) = {o.first, o.last, ","} /\ OneItem(<<Operand(o)>>)
    <3> DEFINE M == Marks(<<Operand(o)>>)
    <3> HIDE DEF M
    <3>1. M = {o.first, o.last} \cup o.inner \cup {","}
      BY <2>7, <2>8, Zenon DEF M
    <3>2. M = {o.first, o.last, ","}
      BY <2>1, <3>1
    <3> QED
      BY <2>7, <3>2, Zenon DEF M
  <2>4. CASE o.first = "["
    <3>1. WriteOperand(o) = <<Operand(o)>>
      BY <1>3, <2>4 DEF WriteOperand, WriteLeaf
    <3> QED
      BY <1>3, <2>3, <2>4, <3>1
  <2>5. CASE o.first = "(" /\ o.last = ")"
    <3>1. LooksLikeGeoLiteral(o)
      BY <1>3, <2>1, <2>5 DEF LooksLikeGeoLiteral, LeafMarks
    <3>2. WriteOperand(o) = <<Operand(o)>>
      BY <1>3, <3>1 DEF WriteOperand, WriteLeaf
    <3> QED
      BY <1>3, <2>3, <2>5, <3>2 DEF LooksLikeGeo
  <2>6. CASE o.first = "(" /\ o.last = "]"
    <3>1. ~LooksLikeGeoLiteral(o)
      BY <1>3, <2>6 DEF LooksLikeGeoLiteral, LeafMarks
    <3> DEFINE call == Call("range_canonicalize", <<<<Operand(o)>>>>)
    <3>2. WriteOperand(o) = <<call>>
      BY <1>3, <2>2, <2>6, <3>1 DEF WriteOperand, WriteLeaf
    <3>3. {"(", ")", ","} \subseteq call.marks /\ "[" \notin call.marks
      <4> DEFINE texts == <<<<Operand(o)>>>>
      <4>1. Len(texts) = 1 /\ DOMAIN texts = {1} /\ texts[1] = <<Operand(o)>>
        OBVIOUS
      <4> HIDE DEF texts
      <4>2. Marks(texts[1]) = {o.first, o.last, ","}
        BY <2>3, <4>1
      <4> DEFINE marks == Call("range_canonicalize", texts).marks
      <4>3. \A m : m \in marks <=>
              \/ m \in {"(", ")"}
              \/ \E i \in DOMAIN texts : m \in Marks(texts[i])
              \/ Len(texts) > 1 /\ m = ","
              \/ "range_canonicalize" \in {"int4range", "range_canonicalize"} /\ m = "range"
        BY CallMarks
      <4> HIDE DEF marks
      <4>5. "(" \in marks /\ ")" \in marks
        BY <4>3
      <4>6. "," \in Marks(texts[1]) /\ "[" \notin Marks(texts[1]) /\ 1 \in DOMAIN texts
        BY <2>6, <4>1, <4>2
      <4>7. "," \in marks
        BY <4>3, <4>6
      <4>8. "[" \notin marks
        <5>1. "[" \notin {"(", ")"} /\ "[" # "," /\ "[" # "range"
          OBVIOUS
        <5>2. \A i \in DOMAIN texts : "[" \notin Marks(texts[i])
          BY <4>1, <4>6
        <5> QED
          BY <4>3, <5>1, <5>2, Zenon
      <4>4. {"(", ")", ","} \subseteq marks /\ "[" \notin marks
        BY <4>5, <4>7, <4>8
      <4> QED
        BY <4>4 DEF texts, marks
    <3>4. OneItem(<<call>>) /\ Marks(<<call>>) = call.marks
      BY MarksOfOne DEF OneItem, Call
    <3> HIDE DEF call
    <3> QED
      BY <1>3, <2>6, <3>2, <3>3, <3>4 DEF LooksLikeGeo
  <2> QED
    BY <2>1, <2>4, <2>5, <2>6
<1>4. CASE o.kind = "int4range" /\ o = MadeRange(o.low, o.high)
           /\ \A b \in {o.low, o.high} : b = Number \/ (b.kind = "column" /\ IsColumnOf(b))
  <2> DEFINE texts == <<WriteLeaf(o.low), WriteLeaf(o.high)>>
             call  == Call("int4range", texts)
  <2>1. WriteOperand(o) = <<call>>
    BY <1>4 DEF WriteOperand
  <2>2. ASSUME NEW b \in {o.low, o.high} PROVE "[" \notin Marks(WriteLeaf(b))
    <3>1. CASE b.kind = "column" /\ IsColumnOf(b)
      <4>1. WriteLeaf(b) = WriteOperand(b)
        BY <3>1 DEF WriteOperand
      <4> QED
        BY <3>1, <4>1, ColumnAppears DEF Appears
    <3>2. CASE b = Number
      <4>1. b.kind = "literal" /\ b.first = "1" /\ b.last = "1" /\ b.commas = 0 /\ b.inner = {}
        BY <3>2, NumberIs
      <4>2. WriteLeaf(b) = <<Operand(b)>>
        BY <4>1 DEF WriteLeaf, LooksLikeRangeLiteral
      <4>3. Marks(<<Operand(b)>>) = {b.first, b.last} \cup b.inner \cup (IF b.commas > 0 THEN {","} ELSE {})
        BY <4>1, LiteralMarks
      <4> QED
        BY <4>1, <4>2, <4>3
    <3> QED
      BY <1>4, <3>1, <3>2
  <2>3. Len(texts) = 2 /\ DOMAIN texts = {1, 2} /\ texts[1] = WriteLeaf(o.low) /\ texts[2] = WriteLeaf(o.high)
    OBVIOUS
  <2> HIDE DEF texts
  <2> DEFINE marks == call.marks
  <2>7. \A m : m \in marks <=>
          \/ m \in {"(", ")"}
          \/ \E i \in DOMAIN texts : m \in Marks(texts[i])
          \/ Len(texts) > 1 /\ m = ","
          \/ "int4range" \in {"int4range", "range_canonicalize"} /\ m = "range"
    BY CallMarks
  <2> HIDE DEF marks
  <2>9. "(" \in marks /\ ")" \in marks
    BY <2>7
  <2>10. "," \in marks
    <3>1. Len(texts) > 1
      BY <2>3
    <3> QED
      BY <2>7, <3>1, Zenon
  <2>11. "[" \notin marks
    <3>1. "[" \notin {"(", ")"} /\ "[" # "," /\ "[" # "range"
      OBVIOUS
    <3>2. \A i \in DOMAIN texts : "[" \notin Marks(texts[i])
      BY <2>2, <2>3
    <3> QED
      BY <2>7, <3>1, <3>2, Zenon
  <2>8. {"(", ",", ")"} \subseteq marks /\ "[" \notin marks
    BY <2>9, <2>10, <2>11
  <2>4. {"(", ",", ")"} \subseteq call.marks /\ "[" \notin call.marks
    BY <2>8 DEF marks
  <2>5. OneItem(<<call>>) /\ Marks(<<call>>) = call.marks
    BY MarksOfOne DEF OneItem, Call
  <2>6. o # Number
    BY <1>4 DEF Number, Literal
  <2> HIDE DEF call
  <2> QED
    BY <1>4, <2>1, <2>4, <2>5, <2>6 DEF LooksLikeGeo
<1> QED
  BY <1>1, <1>2, <1>3, <1>4 DEF IsOperandOf

LEMMA RegisteredIs ==
  /\ Registered["array"] = {"array_overlap", "array_contains", "array_contained"}
  /\ Registered["box"] = {"geo_overlaps", "geo_contains", "geo_contained", "geo_left", "geo_right",
                          "geo_below", "geo_above", "geo_distance"}
  /\ Registered["range"] = {"range_contains"}
  /\ Registered["vector"] = {} /\ Registered["text"] = {}
BY DEF Registered

\* The function of each operator, if there is one.
LEMMA FunctionsAre ==
  /\ FunctionsFor("array", "&&") = {"array_overlap"}
  /\ FunctionsFor("array", "@>") = {"array_contains"}
  /\ FunctionsFor("array", "<@") = {"array_contained"}
  /\ FunctionsFor("box", "&&")   = {"geo_overlaps"}
  /\ FunctionsFor("box", "@>")   = {"geo_contains"}
  /\ FunctionsFor("box", "<@")   = {"geo_contained"}
  /\ FunctionsFor("box", "<<")   = {"geo_left"}
  /\ FunctionsFor("box", ">>")   = {"geo_right"}
  /\ FunctionsFor("box", "<<|")  = {"geo_below"}
  /\ FunctionsFor("box", "|>>")  = {"geo_above"}
  /\ FunctionsFor("box", "<->")  = {"geo_distance"}
  /\ FunctionsFor("range", "@>") = {"range_contains"}
BY RegisteredIs DEF FunctionsFor, Meant

LEMMA OperatorsAre ==
  /\ DOMAIN OperatorsOf = {"box", "array", "range", "vector", "text"}
  /\ OperatorsOf["array"] = {"&&", "@>", "<@"}
  /\ OperatorsOf["box"] = {"&&", "@>", "<@", "<<", ">>", "<<|", "|>>", "<->"}
  /\ OperatorsOf["range"] = {"&&", "@>", "<@", "<<", ">>", "-|-"}
BY DEF OperatorsOf

\* One of the functions in fs is called.
Calls(text, fs) == text[1].item = "call" /\ text[1].f \in fs

LEMMA CallCalls == ASSUME NEW f, NEW texts, NEW fs PROVE Calls(<<Call(f, texts)>>, fs) <=> f \in fs
BY DEF Calls, Call

LEMMA InfixCalls ==
  ASSUME NEW l, NEW r, NEW op, OneItem(l), OneItem(r),
         NEW fs, "range_canonicalize" \notin fs, "int4range" \notin fs
  PROVE  ~Calls(Infix(l, op, r), fs)
<1>1. Infix(l, op, r)[1] = l[1]
  <2> DEFINE i == Item(op)
  <2> HIDE DEF i
  <2>1. ASSUME NEW a, NEW b PROVE (<<a>> \o <<i>> \o <<b>>)[1] = a
    OBVIOUS
  <2>2. l = <<l[1]>> /\ r = <<r[1]>>
    BY DEF OneItem
  <2>3. (<<l[1]>> \o <<i>> \o <<r[1]>>)[1] = l[1]
    BY <2>1
  <2>4. (l \o <<i>> \o r)[1] = l[1]
    BY <2>2, <2>3, Zenon
  <2> QED
    BY <2>4 DEF Infix, i
<1> QED
  BY <1>1 DEF OneItem, Calls

\* What is called in each case.
CallsOneOf(l, r, fs, geo, array, range, other) ==
  IF IsGeoOperation(l, r) THEN geo \in fs
  ELSE IF "[" \in Marks(l) \cup Marks(r) THEN Calls(array, fs)
  ELSE IF IsRangeOperation(l, r) THEN range \in fs
  ELSE Calls(other, fs)

LEMMA ByOperandCalls ==
  ASSUME NEW l, NEW r, NEW fs, NEW geo, NEW array, NEW range, NEW other
  PROVE  Calls(ByOperand(l, r, geo, array, range, other), fs) <=> CallsOneOf(l, r, fs, geo, array, range, other)
<1>1. CASE IsGeoOperation(l, r)
  <2>1. ByOperand(l, r, geo, array, range, other) = <<Call(geo, <<l, r>>)>>
    BY <1>1 DEF ByOperand, IsRangeOperation
  <2> QED
    BY <1>1, <2>1, CallCalls DEF CallsOneOf
<1>2. CASE ~IsGeoOperation(l, r) /\ "[" \in Marks(l) \cup Marks(r)
  <2>1. ByOperand(l, r, geo, array, range, other) = array
    BY <1>2 DEF ByOperand, IsRangeOperation, IsArrayOperation
  <2> QED
    BY <1>2, <2>1 DEF CallsOneOf
<1>3. CASE ~IsGeoOperation(l, r) /\ "[" \notin Marks(l) \cup Marks(r) /\ IsRangeOperation(l, r)
  <2>1. ByOperand(l, r, geo, array, range, other) = <<Call(range, <<l, r>>)>>
    BY <1>3 DEF ByOperand, IsArrayOperation
  <2> QED
    BY <1>3, <2>1, CallCalls DEF CallsOneOf
<1>4. CASE ~IsGeoOperation(l, r) /\ "[" \notin Marks(l) \cup Marks(r) /\ ~IsRangeOperation(l, r)
  <2>1. ByOperand(l, r, geo, array, range, other) = other
    BY <1>4 DEF ByOperand, IsArrayOperation
  <2> QED
    BY <1>4, <2>1 DEF CallsOneOf
<1> QED
  BY <1>1, <1>2, <1>3, <1>4

LEMMA AnsweredIs ==
  Answered <=> Calls(WriteOverloaded(operator, WriteOperand(operands[1]), WriteOperand(operands[2])),
                     FunctionsFor(operandType, operator))
BY DEF Answered, Calls

\* An array appears as what it is, and a column of arrays as a range if it is named like one.
LEMMA ArrayOperand ==
  ASSUME NEW o, IsOperandOf(o, "array")
  PROVE  \E literal \in BOOLEAN :
           Appears(WriteOperand(o), LikeAShape(o), HasBracket(o), o = NamedRange, literal) /\ (literal => HasBracket(o))
<1>1. CASE o.kind = "column" /\ IsColumnOf(o)
  <2>1. ~LikeAShape(o) /\ ~HasBracket(o)
    BY <1>1 DEF LikeAShape, HasBracket
  <2>2. Appears(WriteOperand(o), FALSE, FALSE, o = NamedRange, FALSE)
    BY <1>1, ColumnAppears
  <2>3. Appears(WriteOperand(o), LikeAShape(o), HasBracket(o), o = NamedRange, FALSE)
    BY <2>1, <2>2 DEF Appears
  <2> QED
    BY <2>3
<1>2. CASE o.kind = "literal" /\ IsLiteralOf(o, {<<"[", "]">>, <<"{", "}">>}, Nat, OperandMarks \ {","})
  <2>1. o # NamedRange
    <3>1. NamedRange.kind = "column"
      BY DEF NamedRange, Column
    <3> QED
      BY <1>2, <3>1
  <2>2. PICK literal \in BOOLEAN : /\ Appears(WriteOperand(o), LikeAShape(o), HasBracket(o), FALSE, literal)
                                   /\ literal => HasBracket(o)
    BY <1>2, ArrayAppears
  <2>3. Appears(WriteOperand(o), LikeAShape(o), HasBracket(o), o = NamedRange, literal)
    BY <2>1, <2>2 DEF Appears
  <2> QED
    BY <2>2, <2>3
<1> QED
  BY <1>1, <1>2 DEF IsOperandOf

\* Two arrays.
LEMMA ArraysAnswered ==
  ASSUME NEW a, NEW b, IsOperandOf(a, "array"), IsOperandOf(b, "array"), NEW op \in OperatorsOf["array"]
  PROVE  Calls(WriteOverloaded(op, WriteOperand(a), WriteOperand(b)), FunctionsFor("array", op)) <=> ArraysShow(a, b)
<1> DEFINE l == WriteOperand(a)
           r == WriteOperand(b)
           fs == FunctionsFor("array", op)
           geo == IsGeoOperation(l, r)
           bracket == "[" \in Marks(l) \cup Marks(r)
           range == IsRangeOperation(l, r)
<1>l. PICK tl \in BOOLEAN :
        Appears(l, LikeAShape(a), HasBracket(a), a = NamedRange, tl) /\ (tl => HasBracket(a))
  BY ArrayOperand
<1>r. PICK tr \in BOOLEAN :
        Appears(r, LikeAShape(b), HasBracket(b), b = NamedRange, tr) /\ (tr => HasBracket(b))
  BY ArrayOperand
<1> HIDE DEF l, r
<1>1. geo <=> LikeAShape(a) \/ LikeAShape(b)
  BY <1>l, <1>r DEF Appears, IsGeoOperation
<1>2. bracket <=> HasBracket(a) \/ HasBracket(b)
  BY <1>l, <1>r DEF Appears
<1>3. ~geo /\ ~bracket => (range <=> NamedRange \in {a, b})
  BY <1>2, <1>l, <1>r DEF Appears, IsRangeOperation
<1>4. ASSUME NEW g, NEW f, NEW h, g \notin fs, f \in fs, h \notin fs
      PROVE  Calls(ByOperand(l, r, g, <<Call(f, <<l, r>>)>>, h, <<Call(f, <<l, r>>)>>), fs)
               <=> ~geo /\ (bracket \/ ~range)
  <2> DEFINE call == <<Call(f, <<l, r>>)>>
  <2>1. Calls(call, fs)
    BY <1>4, CallCalls
  <2> HIDE DEF call
  <2>2. Calls(ByOperand(l, r, g, call, h, call), fs) <=> CallsOneOf(l, r, fs, g, call, h, call)
    BY ByOperandCalls
  <2>3. CallsOneOf(l, r, fs, g, call, h, call) <=> ~geo /\ (bracket \/ ~range)
    BY <1>4, <2>1 DEF CallsOneOf
  <2>4. Calls(ByOperand(l, r, g, call, h, call), fs) <=> ~geo /\ (bracket \/ ~range)
    BY <2>2, <2>3, Zenon
  <2> QED
    BY <2>4 DEF call
<1>5. /\ op = "&&" => fs = {"array_overlap"}
      /\ op = "@>" => fs = {"array_contains"}
      /\ op = "<@" => fs = {"array_contained"}
  BY FunctionsAre
<1>6. op \in {"&&", "@>", "<@"}
  BY OperatorsAre
<1> HIDE DEF fs, geo, bracket, range
<1>7. Calls(WriteOverloaded(op, l, r), fs) <=> ~geo /\ (bracket \/ ~range)
  <2>1. CASE op = "&&"
    <3>1. WriteOverloaded(op, l, r) = ByOperand(l, r, "geo_overlaps", <<Call("array_overlap", <<l, r>>)>>,
                                                "range_overlaps", <<Call("array_overlap", <<l, r>>)>>)
      BY <2>1 DEF WriteOverloaded
    <3>2. "geo_overlaps" \notin fs /\ "array_overlap" \in fs /\ "range_overlaps" \notin fs
      BY <1>5, <2>1
    <3> QED
      BY <1>4, <3>1, <3>2
  <2>2. CASE op = "@>"
    <3>1. WriteOverloaded(op, l, r) = ByOperand(l, r, "geo_contains", <<Call("array_contains", <<l, r>>)>>,
                                                "range_contains", <<Call("array_contains", <<l, r>>)>>)
      BY <2>2 DEF WriteOverloaded
    <3>2. "geo_contains" \notin fs /\ "array_contains" \in fs /\ "range_contains" \notin fs
      BY <1>5, <2>2
    <3> QED
      BY <1>4, <3>1, <3>2
  <2>3. CASE op = "<@"
    <3>1. WriteOverloaded(op, l, r) = ByOperand(l, r, "geo_contained", <<Call("array_contained", <<l, r>>)>>,
                                                "range_contained", <<Call("array_contained", <<l, r>>)>>)
      BY <2>3 DEF WriteOverloaded
    <3>2. "geo_contained" \notin fs /\ "array_contained" \in fs /\ "range_contained" \notin fs
      BY <1>5, <2>3
    <3> QED
      BY <1>4, <3>1, <3>2
  <2> QED
    BY <1>6, <2>1, <2>2, <2>3
<1>8. Calls(WriteOverloaded(op, l, r), fs) <=> ArraysShow(a, b)
  BY <1>1, <1>2, <1>3, <1>7 DEF ArraysShow
<1> QED
  BY <1>8 DEF fs, l, r

\* Two boxes: written to one that looks like a shape, or not.
LEMMA BoxesAnswered ==
  ASSUME NEW l, NEW r, NEW op \in OperatorsOf["box"], OneItem(l), OneItem(r)
  PROVE  Calls(WriteOverloaded(op, l, r), FunctionsFor("box", op)) <=> IsGeoOperation(l, r)
<1> DEFINE fs == FunctionsFor("box", op)
           geo == IsGeoOperation(l, r)
<1>1. fs \subseteq {"geo_overlaps", "geo_contains", "geo_contained", "geo_left", "geo_right",
            "geo_below", "geo_above", "geo_distance"}
  BY RegisteredIs DEF FunctionsFor
<1>2. op \in {"&&", "@>", "<@", "<<", ">>", "<<|", "|>>", "<->"}
  BY OperatorsAre
<1>3. ~Calls(Infix(l, op, r), fs)
  BY <1>1, InfixCalls
<1>4. ASSUME NEW g, NEW a, NEW h, g \in fs, ~Calls(a, fs), h \notin fs
      PROVE  Calls(ByOperand(l, r, g, a, h, a), fs) <=> geo
  <2>1. Calls(ByOperand(l, r, g, a, h, a), fs) <=> CallsOneOf(l, r, fs, g, a, h, a)
    BY ByOperandCalls
  <2> QED
    BY <1>4, <2>1 DEF CallsOneOf
<1>5. ASSUME NEW g, NEW a, g \in fs, ~Calls(a, fs)
      PROVE  Calls(IF geo THEN <<Call(g, <<l, r>>)>> ELSE a, fs) <=> geo
  BY <1>5, CallCalls
<1>6. /\ ~Calls(<<Call("array_overlap", <<l, r>>)>>, fs) /\ ~Calls(<<Call("array_contains", <<l, r>>)>>, fs)
      /\ ~Calls(<<Call("array_contained", <<l, r>>)>>, fs) /\ ~Calls(<<Call("vector_l2_distance", <<l, r>>)>>, fs)
  BY <1>1, CallCalls
<1>7. {"range_overlaps", "range_contains", "range_contained", "range_left", "range_right"} \cap fs = {}
  BY <1>1
<1>8. /\ op = "&&"  => "geo_overlaps" \in fs
      /\ op = "@>"  => "geo_contains" \in fs
      /\ op = "<@"  => "geo_contained" \in fs
      /\ op = "<<"  => "geo_left" \in fs
      /\ op = ">>"  => "geo_right" \in fs
      /\ op = "<<|" => "geo_below" \in fs
      /\ op = "|>>" => "geo_above" \in fs
      /\ op = "<->" => "geo_distance" \in fs
  BY FunctionsAre
<1> HIDE DEF fs
<1>9. Calls(WriteOverloaded(op, l, r), fs) <=> geo
  <2>1. CASE op = "&&"
    <3>1. WriteOverloaded(op, l, r) = ByOperand(l, r, "geo_overlaps", <<Call("array_overlap", <<l, r>>)>>,
                                                "range_overlaps", <<Call("array_overlap", <<l, r>>)>>)
      BY <2>1 DEF WriteOverloaded
    <3> QED
      BY <2>1, <1>4, <1>6, <1>7, <1>8, <3>1
  <2>2. CASE op = "@>"
    <3>1. WriteOverloaded(op, l, r) = ByOperand(l, r, "geo_contains", <<Call("array_contains", <<l, r>>)>>,
                                                "range_contains", <<Call("array_contains", <<l, r>>)>>)
      BY <2>2 DEF WriteOverloaded
    <3> QED
      BY <2>2, <1>4, <1>6, <1>7, <1>8, <3>1
  <2>3. CASE op = "<@"
    <3>1. WriteOverloaded(op, l, r) = ByOperand(l, r, "geo_contained", <<Call("array_contained", <<l, r>>)>>,
                                                "range_contained", <<Call("array_contained", <<l, r>>)>>)
      BY <2>3 DEF WriteOverloaded
    <3> QED
      BY <2>3, <1>4, <1>6, <1>7, <1>8, <3>1
  <2>4. CASE op = "<<"
    <3>1. WriteOverloaded(op, l, r) = ByOperand(l, r, "geo_left", Infix(l, op, r), "range_left", Infix(l, op, r))
      BY <2>4 DEF WriteOverloaded
    <3> QED
      BY <2>4, <1>3, <1>4, <1>7, <1>8, <3>1
  <2>5. CASE op = ">>"
    <3>1. WriteOverloaded(op, l, r) = ByOperand(l, r, "geo_right", Infix(l, op, r), "range_right", Infix(l, op, r))
      BY <2>5 DEF WriteOverloaded
    <3> QED
      BY <2>5, <1>3, <1>4, <1>7, <1>8, <3>1
  <2>6. CASE op = "<<|"
    <3>1. WriteOverloaded(op, l, r) = IF geo THEN <<Call("geo_below", <<l, r>>)>> ELSE Infix(l, op, r)
      BY <2>6 DEF WriteOverloaded
    <3> QED
      BY <2>6, <1>3, <1>5, <1>8, <3>1
  <2>7. CASE op = "|>>"
    <3>1. WriteOverloaded(op, l, r) = IF geo THEN <<Call("geo_above", <<l, r>>)>> ELSE Infix(l, op, r)
      BY <2>7 DEF WriteOverloaded
    <3> QED
      BY <2>7, <1>3, <1>5, <1>8, <3>1
  <2>8. CASE op = "<->"
    <3>1. WriteOverloaded(op, l, r) =
            IF geo THEN <<Call("geo_distance", <<l, r>>)>> ELSE <<Call("vector_l2_distance", <<l, r>>)>>
      BY <2>8 DEF WriteOverloaded
    <3> QED
      BY <2>8, <1>5, <1>6, <1>8, <3>1
  <2> QED
    BY <1>2, <2>1, <2>2, <2>3, <2>4, <2>5, <2>6, <2>7, <2>8
<1> QED
  BY <1>9 DEF fs

\* Two ranges: only @> has a function.
LEMMA RangesAnswered ==
  ASSUME NEW l, NEW r, NEW op \in OperatorsOf["range"], OneItem(l), OneItem(r)
  PROVE  Calls(WriteOverloaded(op, l, r), FunctionsFor("range", op)) <=> op = "@>" /\ IsRangeOperation(l, r)
<1> DEFINE fs == FunctionsFor("range", op)
           range == IsRangeOperation(l, r)
<1>1. fs \subseteq {"range_contains"} /\ (op = "@>" => "range_contains" \in fs)
  BY RegisteredIs, FunctionsAre DEF FunctionsFor
<1>2. op \in {"&&", "@>", "<@", "<<", ">>", "-|-"}
  BY OperatorsAre
<1>3. ~Calls(Infix(l, op, r), fs)
  BY <1>1, InfixCalls
<1>4. ASSUME NEW g, NEW a, NEW h, g \notin fs, ~Calls(a, fs)
      PROVE  Calls(ByOperand(l, r, g, a, h, a), fs) <=> range /\ h \in fs
  <2>1. Calls(ByOperand(l, r, g, a, h, a), fs) <=> CallsOneOf(l, r, fs, g, a, h, a)
    BY ByOperandCalls
  <2>2. range => ~IsGeoOperation(l, r) /\ "[" \notin Marks(l) \cup Marks(r)
    BY DEF IsRangeOperation
  <2> QED
    BY <1>4, <2>1, <2>2 DEF CallsOneOf
<1>5. /\ ~Calls(<<Call("array_overlap", <<l, r>>)>>, fs) /\ ~Calls(<<Call("array_contains", <<l, r>>)>>, fs)
      /\ ~Calls(<<Call("array_contained", <<l, r>>)>>, fs) /\ ~Calls(<<Call("range_adjacent", <<l, r>>)>>, fs)
  BY <1>1, CallCalls
<1>6. {"geo_overlaps", "geo_contains", "geo_contained", "geo_left", "geo_right",
       "range_overlaps", "range_contained", "range_left", "range_right"} \cap fs = {}
      /\ (op = "@>" => "range_contains" \in fs)
  BY <1>1
<1> HIDE DEF fs, range
<1>7. Calls(WriteOverloaded(op, l, r), fs) <=> op = "@>" /\ range
  <2>1. CASE op = "&&"
    <3>1. WriteOverloaded(op, l, r) = ByOperand(l, r, "geo_overlaps", <<Call("array_overlap", <<l, r>>)>>,
                                                "range_overlaps", <<Call("array_overlap", <<l, r>>)>>)
      BY <2>1 DEF WriteOverloaded
    <3> QED
      BY <1>4, <1>5, <1>6, <2>1, <3>1
  <2>2. CASE op = "@>"
    <3>1. WriteOverloaded(op, l, r) = ByOperand(l, r, "geo_contains", <<Call("array_contains", <<l, r>>)>>,
                                                "range_contains", <<Call("array_contains", <<l, r>>)>>)
      BY <2>2 DEF WriteOverloaded
    <3> QED
      BY <1>4, <1>5, <1>6, <2>2, <3>1
  <2>3. CASE op = "<@"
    <3>1. WriteOverloaded(op, l, r) = ByOperand(l, r, "geo_contained", <<Call("array_contained", <<l, r>>)>>,
                                                "range_contained", <<Call("array_contained", <<l, r>>)>>)
      BY <2>3 DEF WriteOverloaded
    <3> QED
      BY <1>4, <1>5, <1>6, <2>3, <3>1
  <2>4. CASE op = "<<"
    <3>1. WriteOverloaded(op, l, r) = ByOperand(l, r, "geo_left", Infix(l, op, r), "range_left", Infix(l, op, r))
      BY <2>4 DEF WriteOverloaded
    <3> QED
      BY <1>3, <1>4, <1>6, <2>4, <3>1
  <2>5. CASE op = ">>"
    <3>1. WriteOverloaded(op, l, r) = ByOperand(l, r, "geo_right", Infix(l, op, r), "range_right", Infix(l, op, r))
      BY <2>5 DEF WriteOverloaded
    <3> QED
      BY <1>3, <1>4, <1>6, <2>5, <3>1
  <2>6. CASE op = "-|-"
    <3>1. WriteOverloaded(op, l, r) = <<Call("range_adjacent", <<l, r>>)>>
      BY <2>6 DEF WriteOverloaded
    <3> QED
      BY <1>5, <2>6, <3>1
  <2> QED
    BY <1>2, <2>1, <2>2, <2>3, <2>4, <2>5, <2>6
<1> QED
  BY <1>7 DEF fs, range

LEMMA OperandsAre ==
  ASSUME OperatorInit
  PROVE  /\ operandType \in {"box", "array", "range", "vector", "text"} /\ operator \in OperatorsOf[operandType]
         /\ IsOperandOf(operands[1], operandType) /\ IsOperandOf(operands[2], operandType)
<1>1. operandType \in DOMAIN OperatorsOf /\ operands[1] \in Operands[operandType] /\ operands[2] \in Operands[operandType]
  BY DEF OperatorInit
<1>2. IsOperandOf(operands[1], operandType) /\ IsOperandOf(operands[2], operandType)
  BY <1>1, OverloadingAssumption
<1> QED
  BY <1>1, <1>2, OperatorsAre DEF OperatorInit

LEMMA BoxOperand ==
  ASSUME NEW o, IsOperandOf(o, "box")
  PROVE  OneItem(WriteOperand(o)) /\ (LooksLikeGeo(WriteOperand(o)) <=> ~IsColumn(o))
<1>1. CASE o.kind = "column" /\ IsColumnOf(o)
  BY <1>1, ColumnAppears DEF Appears, IsColumn
<1>2. CASE o.kind = "literal" /\ IsLiteralOf(o, {<<"(", ")">>}, {1, 3}, {"(", ")"})
  BY <1>2, BoxAppears DEF IsColumn
<1> QED
  BY <1>1, <1>2 DEF IsOperandOf

LEMMA RangeOperation ==
  ASSUME NEW l, NEW r, IsOperandOf(l, "range"), IsOperandOf(r, "range")
  PROVE  IsRangeOperation(WriteOperand(l), WriteOperand(r)) <=>
           /\ IsColumn(l) \/ l = Number
           /\ r = Number \/ (IsColumn(r) /\ NamedRange \in {l, r})
<1> DEFINE L == WriteOperand(l)
           R == WriteOperand(r)
<1>1. ASSUME NEW o, IsOperandOf(o, "range"), IsColumn(o)
      PROVE  Appears(WriteOperand(o), FALSE, FALSE, o = NamedRange, FALSE) /\ o # Number
  <2>1. o.kind = "column"
    BY <1>1 DEF IsColumn
  <2>2. o # Number
    BY <2>1, NumberIs
  <2>3. IsColumnOf(o)
    BY <1>1, <2>1, <2>2 DEF IsOperandOf
  <2> QED
    BY <2>1, <2>2, <2>3, ColumnAppears
<1>2. ASSUME NEW o, IsOperandOf(o, "range"), ~IsColumn(o), o # Number
      PROVE  LooksLikeGeo(WriteOperand(o)) \/ "[" \in Marks(WriteOperand(o))
  BY <1>2, RangeAppears DEF IsColumn
<1>3. /\ Appears(WriteOperand(Number), FALSE, FALSE, FALSE, TRUE) /\ ~IsColumn(Number) /\ Number # NamedRange
  <2>1. IsOperandOf(Number, "range")
    BY NumberIs DEF IsOperandOf
  <2>2. ~IsColumn(Number) /\ Number # NamedRange
    BY NumberIs DEF IsColumn, NamedRange, Column
  <2> QED
    BY <2>1, <2>2, RangeAppears DEF IsColumn
<1>4. CASE ~((IsColumn(l) \/ l = Number) /\ (IsColumn(r) \/ r = Number))
  <2>1. LooksLikeGeo(L) \/ "[" \in Marks(L) \/ LooksLikeGeo(R) \/ "[" \in Marks(R)
    BY <1>2, <1>4
  <2> QED
    BY <1>4, <2>1 DEF IsRangeOperation, IsGeoOperation
<1>5. CASE (IsColumn(l) \/ l = Number) /\ (IsColumn(r) \/ r = Number)
  <2>1. Appears(L, FALSE, FALSE, l = NamedRange, l = Number)
    <3>1. CASE IsColumn(l)
      <4>1. (l = Number) = FALSE
        BY <1>1, <3>1
      <4> QED
        BY <1>1, <3>1, <4>1
    <3>2. CASE l = Number
      <4>1. (l = Number) = TRUE /\ (l = NamedRange) = FALSE
        BY <1>3, <3>2
      <4>2. Appears(L, FALSE, FALSE, FALSE, TRUE)
        BY <1>3, <3>2
      <4> QED
        BY <4>1, <4>2
    <3> QED
      BY <1>5, <3>1, <3>2
  <2>2. Appears(R, FALSE, FALSE, r = NamedRange, r = Number)
    <3>1. CASE IsColumn(r)
      <4>1. (r = Number) = FALSE
        BY <1>1, <3>1
      <4> QED
        BY <1>1, <3>1, <4>1
    <3>2. CASE r = Number
      <4>1. (r = Number) = TRUE /\ (r = NamedRange) = FALSE
        BY <1>3, <3>2
      <4>2. Appears(R, FALSE, FALSE, FALSE, TRUE)
        BY <1>3, <3>2
      <4> QED
        BY <4>1, <4>2
    <3> QED
      BY <1>5, <3>1, <3>2
  <2>3. IsRangeOperation(L, R) <=> l = NamedRange \/ r = NamedRange \/ r = Number
    BY <2>1, <2>2 DEF Appears, IsRangeOperation, IsGeoOperation
  <2>4. IsColumn(r) <=> r # Number
    BY <1>1, <1>3, <1>5
  <2>5. r = NamedRange => r # Number
    BY <1>3
  <2> QED
    BY <1>5, <2>3, <2>4, <2>5
<1> QED
  BY <1>4, <1>5

LEMMA OperatorsReach == ASSUME OperatorInit PROVE OperatorsReachTheirType
<1> DEFINE l == operands[1]
           r == operands[2]
           L == WriteOperand(l)
           R == WriteOperand(r)
<1>1. /\ operandType \in {"box", "array", "range", "vector", "text"} /\ operator \in OperatorsOf[operandType]
      /\ IsOperandOf(l, operandType) /\ IsOperandOf(r, operandType)
  BY OperandsAre
<1>2. Answered <=> Calls(WriteOverloaded(operator, L, R), FunctionsFor(operandType, operator))
  BY AnsweredIs
<1> HIDE DEF l, r
<1>3. CASE operandType = "array"
  <2>1. operator \in OperatorsOf["array"] /\ IsOperandOf(l, "array") /\ IsOperandOf(r, "array")
    BY <1>1, <1>3
  <2>2. Calls(WriteOverloaded(operator, L, R), FunctionsFor("array", operator)) <=> ArraysShow(l, r)
    BY <2>1, ArraysAnswered
  <2> HIDE DEF L, R
  <2> QED
    BY <1>2, <1>3, <2>2 DEF OperatorsReachTheirType, l, r
<1>4. CASE operandType = "box"
  <2>1. OneItem(L) /\ OneItem(R) /\ (LooksLikeGeo(L) <=> ~IsColumn(l)) /\ (LooksLikeGeo(R) <=> ~IsColumn(r))
    BY <1>1, <1>4, BoxOperand
  <2> HIDE DEF L, R
  <2>2. Calls(WriteOverloaded(operator, L, R), FunctionsFor("box", operator)) <=> IsGeoOperation(L, R)
    BY <1>1, <1>4, <2>1, BoxesAnswered
  <2>3. IsGeoOperation(L, R) <=> BoxShows(l, r)
    BY <2>1 DEF IsGeoOperation, BoxShows
  <2> QED
    BY <1>2, <1>4, <2>2, <2>3 DEF OperatorsReachTheirType, l, r
<1>5. CASE operandType = "range"
  <2>1. OneItem(L) /\ OneItem(R)
    BY <1>1, <1>5, RangeAppears
  <2>2. IsRangeOperation(L, R) <=>
          (IsColumn(l) \/ l = Number) /\ (r = Number \/ (IsColumn(r) /\ NamedRange \in {l, r}))
    BY <1>1, <1>5, RangeOperation
  <2> HIDE DEF L, R
  <2>3. Calls(WriteOverloaded(operator, L, R), FunctionsFor("range", operator)) <=> operator = "@>" /\ IsRangeOperation(L, R)
    BY <1>1, <1>5, <2>1, RangesAnswered
  <2>4. RangeShows(l, r) => IsRangeOperation(L, R)
    BY <2>2 DEF RangeShows
  <2> QED
    BY <1>2, <1>5, <2>3, <2>4 DEF OperatorsReachTheirType, l, r
<1>6. CASE operandType \in {"vector", "text"}
  BY <1>6 DEF OperatorsReachTheirType
<1> QED
  BY <1>1, <1>3, <1>4, <1>5, <1>6

\* OperatorsReachTheirType, for any operands: reconstruct_a_expr, which sees
\* their texts only, writes the function that the operator means on their type,
\* and one that SQLite is given, under the conditions that the property names.
THEOREM OverloadedOperatorsReachTheirType == OperatorSpec => []OperatorsReachTheirType
<1>1. OperatorInit /\ [UNCHANGED operatorVars]_operatorVars => OperatorInit'
  BY DEF OperatorInit, operatorVars
<1>2. OperatorInit => OperatorsReachTheirType
  BY OperatorsReach
<1> QED
  BY <1>1, <1>2, PTL DEF OperatorSpec
=============================================================================
