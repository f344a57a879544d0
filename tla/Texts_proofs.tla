---------------------------- MODULE Texts_proofs -----------------------------
(***************************************************************************)
(* The texts in which arrays are written come back as the arrays, for any  *)
(* arrays of one or two dimensions, of any length and of elements of any   *)
(* length in the characters that the model has.                            *)
(*                                                                         *)
(* Each of the two formats is read by a scan, as in CopyCodec_proofs.  A   *)
(* word is read when scanning it leaves its value in the reader, whatever  *)
(* the reader has before; words that do not begin or end with a space are  *)
(* joined to a row in which each is still found.  A nested array is read   *)
(* row by row: a row without quotes takes the reader from between two rows *)
(* to between two rows, and in one with quotes it stays, so that rows are  *)
(* missing in what is read.                                                *)
(*                                                                         *)
(* That a column holds the rows written to it is kept by every function,   *)
(* because what a function writes is read as what it meant to write, or an *)
(* element is lost.                                                        *)
(*                                                                         *)
(* A search answers what tsquery's meaning says of the document, for any   *)
(* words and any query the model's depth allows.  A query has three texts: *)
(* the one to_tsquery writes, the one that becomes of it, and the one FTS5 *)
(* is asked; each is a sequence of tokens that a tree of the same depth    *)
(* determines, and the proof goes through the trees by their depths.       *)
(***************************************************************************)
EXTENDS CopyCodec_proofs, Arrays, TextSearch, FiniteSetTheorems

-----------------------------------------------------------------------------
(* Characters and elements *)

Letters ==
  Chars \cup Characters \cup Digits \cup {Space, Comma, Open, Close, LQuote, "[", "]", "U", "L", "u", "l", "e", "f", "a", "s", "\t"}

Element == Seq(Letters) \cup {None}

\* No two of the characters with a meaning are the same.
LEMMA MarksDiffer ==
  /\ Space \notin {Comma, Open, Close, LQuote, "\\", "[", "]"}
  /\ Comma \notin {Open, Close, LQuote, "\\", "[", "]"}
  /\ Open \notin {Close, LQuote, "\\", "[", "]"}
  /\ Close \notin {LQuote, "\\", "[", "]"}
  /\ LQuote \notin {"\\", "[", "]"}
  /\ {Space, Comma, Open, Close, LQuote, "\\", "[", "]"} \subseteq Letters
  /\ {"N", "U", "L", "n", "u", "l", "t", "r", "e", "f", "a", "s", "\n", "\r", "\t"} \cup Digits \subseteq Letters
  /\ {Space, Comma, Open, Close, LQuote, "\\"} \cap {"N", "U", "L", "n", "u", "l", "t", "r", "e", "f", "a", "s", "\n"} = {}
  /\ Characters \subseteq Letters
BY Zenon DEF Space, Comma, Open, Close, LQuote, Letters, Chars, Digits

-----------------------------------------------------------------------------
(* Texts without spaces around them *)

LEMMA LeastAndGreatest ==
  ASSUME NEW n \in Nat, NEW T, T \subseteq 1..n, T # {}
  PROVE  Min(T) \in T /\ Max(T) \in T /\ \A k \in T : Min(T) <= k /\ k <= Max(T)
<1>0. T \subseteq Nat
  OBVIOUS
<1>1. PICK a \in T : \A k \in T : a <= k
  BY <1>0, LeastNat
<1> DEFINE U == {n - k : k \in T}
<1>2. U \subseteq Nat /\ U # {}
  OBVIOUS
<1> HIDE DEF U
<1>3. PICK m \in U : \A k \in U : m <= k
  BY <1>2, LeastNat
<1>4. PICK b \in T : m = n - b
  BY <1>3 DEF U
<1>5. \A k \in T : k <= b
  <2> TAKE k \in T
  <2>1. n - k \in U
    BY DEF U
  <2>2. n - b <= n - k
    BY <1>3, <1>4, <2>1
  <2> QED
    BY <2>2
<1>6. Min(T) \in T /\ \A k \in T : Min(T) <= k
  BY <1>1, Zenon DEF Min
<1>7. Max(T) \in T /\ \A k \in T : k <= Max(T)
  <2>1. \A k \in T : b >= k
    BY <1>5
  <2>2. Max(T) \in T /\ \A k \in T : Max(T) >= k
    BY <2>1, Zenon DEF Max
  <2> QED
    BY <2>2
<1> QED
  BY <1>6, <1>7

LEMMA SomethingThere ==
  ASSUME NEW X, NEW s \in Seq(X)
  PROVE  Len(s) \in Nat /\ (s # <<>> <=> Len(s) > 0) /\ \A i \in 1..Len(s) : s[i] \in X
OBVIOUS

LEMMA PartIs ==
  ASSUME NEW X, NEW s \in Seq(X), NEW a \in 1..Len(s), NEW b \in 1..Len(s), a <= b
  PROVE  LET t == SubSeq(s, a, b)
         IN  t \in Seq(X) /\ Len(t) = b - a + 1 /\ \A i \in 1..(b - a + 1) : t[i] = s[a + i - 1]
OBVIOUS

Solid(s) == s # <<>> /\ s[1] # Space /\ s[Len(s)] # Space

\* What is trimmed is empty or neither begins nor ends with a space; and what is
\* so stays as it is.
LEMMA TrimIs ==
  ASSUME NEW X, NEW s \in Seq(X)
  PROVE  /\ TrimText(s) \in Seq(X)
         /\ TrimText(s) = <<>> \/ Solid(TrimText(s))
         /\ s = <<>> \/ Solid(s) <=> TrimText(s) = s
<1> DEFINE ink == {i \in DOMAIN s : s[i] # Space}
           n   == Len(s)
           t   == SubSeq(s, Min(ink), Max(ink))
           no  == <<>>
<1>1. n \in Nat /\ (s # no <=> n > 0) /\ \A i \in 1..n : s[i] \in X
  BY SomethingThere
<1>2. DOMAIN s = 1..n /\ no \in Seq(X)
  OBVIOUS
<1>3. ink \subseteq 1..n /\ \A i \in 1..n : i \in ink <=> s[i] # Space
  BY <1>2
<1>4. TrimText(s) = IF ink = {} THEN no ELSE t
  BY DEF TrimText
<1> HIDE DEF ink, n, no
<1>5. CASE ink = {}
  <2>1. Solid(s) => n > 0
    BY <1>1 DEF Solid, no
  <2>2. ~Solid(s)
    <3> SUFFICES ASSUME Solid(s) PROVE FALSE
      OBVIOUS
    <3>1. 1 \in 1..n /\ s[1] # Space
      BY <1>1, <2>1 DEF Solid
    <3> QED
      BY <1>3, <1>5, <3>1
  <2>3. TrimText(s) = no
    BY <1>4, <1>5
  <2> QED
    BY <1>2, <2>2, <2>3 DEF no
<1>6. CASE ink # {}
  <2> DEFINE a == Min(ink)
             b == Max(ink)
  <2>1. a \in ink /\ b \in ink /\ \A k \in ink : a <= k /\ k <= b
    BY <1>1, <1>3, <1>6, LeastAndGreatest
  <2>2. t = SubSeq(s, a, b)
    OBVIOUS
  <2> HIDE DEF a, b, t
  <2>3. a <= b /\ a \in 1..n /\ b \in 1..n /\ s[a] # Space /\ s[b] # Space
    BY <1>3, <2>1
  <2>4. t \in Seq(X) /\ Len(t) = b - a + 1 /\ \A i \in 1..(b - a + 1) : t[i] = s[a + i - 1]
    BY <2>2, <2>3, PartIs DEF n
  <2>5. Len(t) > 0 /\ t[1] = s[a] /\ t[Len(t)] = s[b]
    <3>1. 1 \in 1..(b - a + 1) /\ b - a + 1 \in 1..(b - a + 1) /\ a + 1 - 1 = a /\ a + (b - a + 1) - 1 = b
      BY <2>3
    <3> QED
      BY <2>4, <3>1
  <2>6. t # no
    BY <2>4, <2>5, SomethingThere DEF no
  <2>7. Solid(t)
    BY <2>3, <2>5, <2>6 DEF Solid, no
  <2>8. ASSUME Solid(s) PROVE t = s
    <3>1. n > 0 /\ s[1] # Space /\ s[n] # Space
      BY <1>1, <2>8 DEF Solid, n, no
    <3>2. 1 \in 1..n /\ n \in 1..n
      BY <1>1, <3>1
    <3>3. 1 \in ink /\ n \in ink
      BY <1>3, <3>1, <3>2
    <3>4. a <= 1 /\ n <= b
      BY <2>1, <3>3
    <3>5. a = 1 /\ b = n
      BY <1>1, <2>3, <3>4
    <3>6. SubSeq(s, 1, n) = s
      BY WholePrefix DEF n
    <3> QED
      BY <2>2, <3>5, <3>6
  <2>9. TrimText(s) = t
    BY <1>4, <1>6
  <2>10. s = no \/ Solid(s) <=> t = s
    <3>1. t = s => Solid(s)
      BY <2>7
    <3>2. s # no
      <4>1. n > 0
        BY <1>1, <2>3
      <4> QED
        BY <1>1, <4>1
    <3> QED
      BY <2>8, <3>1, <3>2
  <2> QED
    BY <2>4, <2>7, <2>9, <2>10 DEF no
<1> QED
  BY <1>5, <1>6

LEMMA SolidIs ==
  ASSUME NEW X, NEW s \in Seq(X)
  PROVE  Solid(s) <=> Len(s) > 0 /\ s[1] # Space /\ s[Len(s)] # Space
<1> DEFINE no == <<>>
<1>1. s # no <=> Len(s) > 0
  BY SomethingThere
<1> HIDE DEF no
<1> QED
  BY <1>1, Zenon DEF Solid, no

\* What begins and ends with solid texts is solid.
LEMMA SolidEnds ==
  ASSUME NEW X, NEW s \in Seq(X), NEW u \in Seq(X), Solid(s), Solid(u)
  PROVE  s \o u \in Seq(X) /\ Solid(s \o u)
<1>1. Len(s) > 0 /\ Len(u) > 0 /\ s[1] # Space /\ u[Len(u)] # Space
  BY SolidIs
<1> DEFINE c == s \o u
<1>2. /\ c \in Seq(X) /\ Len(c) = Len(s) + Len(u) /\ Len(s) \in Nat /\ Len(u) \in Nat
      /\ \A i \in 1..Len(s) : c[i] = s[i]
      /\ \A i \in 1..Len(u) : c[Len(s) + i] = u[i]
  BY Concat
<1> HIDE DEF c
<1>3. c[1] = s[1] /\ c[Len(c)] = u[Len(u)] /\ Len(c) > 0
  <2>1. 1 \in 1..Len(s) /\ Len(u) \in 1..Len(u)
    BY <1>1, <1>2
  <2> QED
    BY <1>1, <1>2, <2>1
<1>4. Solid(c)
  BY <1>1, <1>2, <1>3, SolidIs
<1> QED
  BY <1>2, <1>4 DEF c

-----------------------------------------------------------------------------
(* Scanning what was joined, and what was written for each character *)

ScansJoined(S, X, step, c, ws, st) ==
  /\ step \in Steps(S, X) /\ c \in X /\ ws \in Seq(Seq(X)) /\ st \in [0..Len(ws) -> S]
  /\ \A k \in 1..Len(ws) : st[k] = Scan(step, IF k = 1 THEN st[0] ELSE step[<<st[k - 1], c>>], ws[k])

\* To scan what is joined is to scan one part after the other, and the character
\* between them.
LEMMA JoinedScan ==
  ASSUME NEW S, NEW X, NEW step, NEW c, NEW ws, NEW st, ScansJoined(S, X, step, c, ws, st)
  PROVE  Scan(step, st[0], JoinWith(ws, c)) = st[Len(ws)] /\ JoinWith(ws, c) \in Seq(X)
<1> DEFINE n  == Len(ws)
           ss == Pieces(ws, c)
<1>1. /\ step \in Steps(S, X) /\ c \in X /\ ws \in Seq(Seq(X)) /\ st \in [0..n -> S]
      /\ \A k \in 1..n : st[k] = Scan(step, IF k = 1 THEN st[0] ELSE step[<<st[k - 1], c>>], ws[k])
  BY Zenon DEF ScansJoined
<1>2. /\ ss \in Seq(Seq(X)) /\ Len(ss) = n /\ n \in Nat /\ JoinWith(ws, c) = FlattenSeq(ss) /\ JoinWith(ws, c) \in Seq(X)
      /\ \A i \in 1..n : ws[i] \in Seq(X) /\ ss[i] = IF i = 1 THEN ws[1] ELSE <<c>> \o ws[i]
  BY ONLY <1>1, PiecesAre, SMTT(60)
<1> HIDE DEF n, ss
<1>3. ASSUME NEW k \in 1..n PROVE st[k] = Scan(step, st[k - 1], ss[k])
  <2> DEFINE w == ws[k]
             q == st[k - 1]
  <2>1. w \in Seq(X) /\ q \in S
    <3>1. k - 1 \in 0..n
      BY <1>2
    <3> QED
      BY <1>1, <1>2, <3>1
  <2>2. CASE k = 1
    <3>1. st[1] = Scan(step, st[0], ws[1]) /\ ss[1] = ws[1] /\ k - 1 = 0
      <4>1. 1 \in 1..n
        BY <2>2
      <4>2. st[1] = Scan(step, IF 1 = 1 THEN st[0] ELSE step[<<st[1 - 1], c>>], ws[1])
        BY <1>1, <4>1, Zenon
      <4>3. ss[1] = IF 1 = 1 THEN ws[1] ELSE <<c>> \o ws[1]
        BY <1>2, <4>1, Zenon
      <4> QED
        BY <2>2, <4>2, <4>3
    <3> QED
      BY <2>2, <3>1
  <2>3. CASE k # 1
    <3> DEFINE a == <<c>>
    <3>1. st[k] = Scan(step, step[<<q, c>>], w) /\ ss[k] = a \o w
      BY <1>1, <1>2, <2>3
    <3> HIDE DEF w, q
    <3>2. Scan(step, q, <<c>>) = step[<<q, c>>]
      BY <1>1, <2>1, ScanOne
    <3>3. Scans(S, X, step, q, a)
      BY <1>1, <2>1 DEF Scans
    <3> HIDE DEF a
    <3>4. Scan(step, q, a \o w) = Scan(step, Scan(step, q, a), w)
      BY <2>1, <3>3, ScanBoth
    <3> QED
      BY <3>1, <3>2, <3>4 DEF a, q
  <2> QED
    BY <2>2, <2>3
<1>4. ScansAlong(S, X, step, ss, st)
  BY <1>1, <1>2, <1>3, Zenon DEF ScansAlong
<1>5. Scan(step, st[0], FlattenSeq(ss)) = st[Len(ss)]
  BY <1>4, ScanFlat
<1> QED
  BY <1>2, <1>5 DEF n

EachPart(P, v) == [i \in DOMAIN v |-> P[v[i]]]
Each(P, v) == FlattenSeq(EachPart(P, v))

WritesEach(X, P, v) == P \in [X -> Seq(X)] /\ v \in Seq(X)

LEMMA EachIs ==
  ASSUME NEW X, NEW P, NEW v, WritesEach(X, P, v)
  PROVE  /\ EachPart(P, v) \in Seq(Seq(X)) /\ Len(EachPart(P, v)) = Len(v) /\ Len(v) \in Nat
         /\ \A i \in 1..Len(v) : v[i] \in X /\ EachPart(P, v)[i] = P[v[i]] /\ EachPart(P, v)[i] \in Seq(X)
         /\ Each(P, v) = FlattenSeq(EachPart(P, v)) /\ Each(P, v) \in Seq(X)
<1> DEFINE ss == [i \in DOMAIN v |-> P[v[i]]]
           T  == Seq(X)
<1>0. P \in [X -> T] /\ v \in Seq(X)
  BY DEF WritesEach
<1>1. DOMAIN v = 1..Len(v) /\ Len(v) \in Nat /\ \A i \in 1..Len(v) : v[i] \in X
  BY <1>0
<1> HIDE DEF T
<1>2. P \in [X -> T]
  BY <1>0
<1>3. ss \in Seq(T) /\ Len(ss) = Len(v) /\ \A i \in 1..Len(v) : ss[i] = P[v[i]] /\ ss[i] \in T
  BY <1>1, <1>2
<1>4. FlattenSeq(ss) \in Seq(X)
  BY <1>3, FlatIsSeq DEF T
<1> QED
  BY <1>1, <1>3, <1>4 DEF T, Each, EachPart

LEMMA JoinedTwice ==
  ASSUME NEW X, NEW a \in Seq(X), NEW b \in Seq(X), NEW c \in Seq(X)
  PROVE  a \o (b \o c) = (a \o b) \o c
OBVIOUS

ScansEach(S, X, step, at, P, G, v) ==
  /\ step \in Steps(S, X) /\ at \in [Seq(X) -> S] /\ v \in Seq(X)
  /\ P \in [X -> Seq(X)] /\ G \in [X -> Seq(X)]
  /\ \A u \in Seq(X), i \in 1..Len(v) : Scan(step, at[u], P[v[i]]) = at[u \o G[v[i]]]

\* What is written for each character is read as what it is read as.
LEMMA EachScan ==
  ASSUME NEW S, NEW X, NEW step, NEW at, NEW P, NEW G, NEW v, ScansEach(S, X, step, at, P, G, v),
         NEW u \in Seq(X)
  PROVE  Scan(step, at[u], Each(P, v)) = at[u \o Each(G, v)]
<1> DEFINE n  == Len(v)
           ss == EachPart(P, v)
           gs == EachPart(G, v)
           T  == Seq(X)
<1>1. /\ step \in Steps(S, X) /\ at \in [T -> S] /\ v \in Seq(X) /\ P \in [X -> T] /\ G \in [X -> T]
      /\ \A w \in T, i \in 1..n : Scan(step, at[w], P[v[i]]) = at[w \o G[v[i]]]
  BY Zenon DEF ScansEach
<1>w. WritesEach(X, P, v) /\ WritesEach(X, G, v)
  BY <1>1 DEF WritesEach
<1>2. /\ ss \in Seq(T) /\ Len(ss) = n /\ n \in Nat /\ Each(P, v) = FlattenSeq(ss)
      /\ \A i \in 1..n : ss[i] = P[v[i]]
  BY ONLY <1>w, EachIs, SMTT(60)
<1>3. /\ gs \in Seq(T) /\ Len(gs) = n /\ Each(G, v) = FlattenSeq(gs)
      /\ \A i \in 1..n : gs[i] = G[v[i]] /\ gs[i] \in T
  BY ONLY <1>w, EachIs, SMTT(60)
<1>4. \A w, z \in T : w \o z \in T
  OBVIOUS
<1> HIDE DEF n, ss, gs
<1>5. PICK g : IsFlat(g, X, gs)
  BY <1>3, FlatRun
<1>6. g \in [0..n -> T] /\ g[0] = <<>> /\ g[n] = Each(G, v) /\ \A k \in 1..n : g[k] = g[k - 1] \o gs[k]
  BY <1>3, <1>5 DEF IsFlat
<1> DEFINE st == [k \in 0..n |-> at[u \o g[k]]]
<1>7. st[0] = at[u] /\ st[n] = at[u \o Each(G, v)]
  <2>1. st[0] = at[u \o g[0]] /\ st[n] = at[u \o g[n]]
    BY <1>2
  <2>2. u \o g[0] = u
    BY <1>6, NothingBefore
  <2> HIDE DEF st
  <2> QED
    BY <1>6, <2>1, <2>2
<1>8. st \in [0..n -> S]
  <2>1. \A k \in 0..n : u \o g[k] \in T
    BY <1>4, <1>6
  <2> HIDE DEF T
  <2> QED
    BY <1>1, <2>1
<1>9. ASSUME NEW k \in 1..n PROVE st[k] = Scan(step, st[k - 1], ss[k])
  <2> DEFINE w == u \o g[k - 1]
  <2>1. k - 1 \in 0..n /\ k \in 0..n
    BY <1>2
  <2>2. g[k - 1] \in T /\ gs[k] \in T /\ w \in T
    BY <1>3, <1>4, <1>6, <2>1
  <2>3. st[k] = at[u \o g[k]] /\ st[k - 1] = at[w]
    BY <2>1
  <2>4. u \o g[k] = w \o gs[k]
    <3>1. g[k] = g[k - 1] \o gs[k]
      BY <1>6
    <3> DEFINE a == g[k - 1]
               b == gs[k]
    <3>2. a \in Seq(X) /\ b \in Seq(X)
      BY <2>2
    <3> HIDE DEF a, b, T
    <3>3. u \o (a \o b) = (u \o a) \o b
      BY <3>2, JoinedTwice
    <3> QED
      BY <3>1, <3>3 DEF a, b
  <2> HIDE DEF w, st, T
  <2>5. Scan(step, at[w], P[v[k]]) = at[w \o G[v[k]]]
    BY <1>1, <2>2, Zenon
  <2>6. ss[k] = P[v[k]] /\ gs[k] = G[v[k]]
    BY <1>2, <1>3
  <2> QED
    BY <2>3, <2>4, <2>5, <2>6, Zenon
<1> HIDE DEF st
<1>10. ScansAlong(S, X, step, ss, st)
  BY <1>1, <1>2, <1>8, <1>9, Zenon DEF ScansAlong
<1>11. Scan(step, st[0], FlattenSeq(ss)) = st[Len(ss)]
  BY <1>10, ScanFlat
<1> QED
  BY <1>2, <1>7, <1>11

Singles(X) == [x \in X |-> <<x>>]

LEMMA SinglesAre == ASSUME NEW X PROVE Singles(X) \in [X -> Seq(X)] /\ \A x \in X : Singles(X)[x] = <<x>>
<1>1. \A x \in X : <<x>> \in Seq(X)
  OBVIOUS
<1> QED
  BY <1>1 DEF Singles

LEMMA EachSingle == ASSUME NEW X, NEW v \in Seq(X) PROVE Each(Singles(X), v) = v
<1> DEFINE n  == Len(v)
           ss == EachPart(Singles(X), v)
<1>1. /\ ss \in Seq(Seq(X)) /\ Len(ss) = n /\ n \in Nat /\ Each(Singles(X), v) = FlattenSeq(ss)
      /\ \A i \in 1..n : v[i] \in X /\ ss[i] = Singles(X)[v[i]]
  <2>1. WritesEach(X, Singles(X), v)
    BY SinglesAre DEF WritesEach
  <2> QED
    BY ONLY <2>1, EachIs, SMTT(60)
<1> HIDE DEF n, ss
<1>2. PICK f : IsFlat(f, X, ss)
  BY <1>1, FlatRun
<1> DEFINE h == [k \in 0..n |-> SubSeq(v, 1, k)]
<1>3. f[0] = <<>> /\ f[n] = FlattenSeq(ss) /\ \A k \in 1..n : f[k] = f[k - 1] \o ss[k]
  BY <1>1, <1>2 DEF IsFlat
<1>4. h[0] = f[0] /\ h[n] = v
  <2>1. h[0] = SubSeq(v, 1, 0) /\ h[n] = SubSeq(v, 1, n)
    BY <1>1
  <2> HIDE DEF h
  <2> QED
    BY <1>3, <2>1, WholePrefix DEF n
<1>5. ASSUME NEW k \in 1..n, h[k - 1] = f[k - 1] PROVE h[k] = f[k]
  <2> DEFINE u == SubSeq(v, 1, k - 1)
  <2>1. h[k] = SubSeq(v, 1, k) /\ h[k - 1] = u
    BY <1>1
  <2>2. SubSeq(v, 1, k) = Append(u, v[k]) /\ u \in Seq(X)
    BY PrefixIs DEF n
  <2>3. ss[k] = <<v[k]>> /\ v[k] \in X
    BY <1>1, SinglesAre
  <2> HIDE DEF h, u
  <2>4. Append(u, v[k]) = u \o <<v[k]>>
    BY <2>2, <2>3
  <2> QED
    BY <1>3, <1>5, <2>1, <2>2, <2>3, <2>4
<1> HIDE DEF h
<1>6. h[n] = f[n]
  BY <1>1, <1>4, <1>5, SameEnd, SMTT(60)
<1> QED
  BY <1>1, <1>3, <1>4, <1>6

ScansPlain(S, X, step, at, v) ==
  /\ step \in Steps(S, X) /\ at \in [Seq(X) -> S] /\ v \in Seq(X)
  /\ \A u \in Seq(X), i \in 1..Len(v) : step[<<at[u], v[i]>>] = at[Append(u, v[i])]

\* Characters that are kept are read as they are.
LEMMA PlainScan ==
  ASSUME NEW S, NEW X, NEW step, NEW at, NEW v, ScansPlain(S, X, step, at, v), NEW u \in Seq(X)
  PROVE  Scan(step, at[u], v) = at[u \o v]
<1> DEFINE P == Singles(X)
<1>1. /\ step \in Steps(S, X) /\ at \in [Seq(X) -> S] /\ v \in Seq(X)
      /\ \A w \in Seq(X), i \in 1..Len(v) : step[<<at[w], v[i]>>] = at[Append(w, v[i])]
  BY Zenon DEF ScansPlain
<1>2. P \in [X -> Seq(X)] /\ (\A x \in X : P[x] = <<x>>) /\ Each(P, v) = v
  BY <1>1, SinglesAre, EachSingle
<1> HIDE DEF P
<1>3. ASSUME NEW w \in Seq(X), NEW i \in 1..Len(v) PROVE Scan(step, at[w], P[v[i]]) = at[w \o P[v[i]]]
  <2> DEFINE x == v[i]
  <2>1. x \in X /\ P[x] = <<x>> /\ at[w] \in S
    BY <1>1, <1>2
  <2>2. step[<<at[w], x>>] = at[Append(w, x)]
    BY <1>1
  <2> HIDE DEF x
  <2>3. w \o <<x>> = Append(w, x)
    BY <2>1
  <2>4. Scan(step, at[w], <<x>>) = step[<<at[w], x>>]
    BY <1>1, <2>1, ScanOne
  <2> QED
    BY <2>1, <2>2, <2>3, <2>4 DEF x
<1>4. ScansEach(S, X, step, at, P, P, v)
  BY <1>1, <1>2, <1>3, Zenon DEF ScansEach
<1>5. Scan(step, at[u], Each(P, v)) = at[u \o Each(P, v)]
  BY <1>4, EachScan
<1> QED
  BY <1>2, <1>5

-----------------------------------------------------------------------------
(* Reading the elements of an array in PostgreSQL's format *)

PgState == [out : Seq(Element), current : Seq(Letters), quoted : BOOLEAN, escape : BOOLEAN]

PgAt(out, current, quoted, escape) ==
  [out |-> out, current |-> current, quoted |-> quoted, escape |-> escape]

PgReader == [p \in PgState \X Letters |-> PgStep(p[1], p[2])]

LEMMA PgElementIs ==
  ASSUME NEW s \in Seq(Letters)
  PROVE  PgElement(s) \in Element /\ PgElement(TrimText(s)) = PgElement(s)
<1>1. TrimText(s) \in Seq(Letters) /\ (TrimText(s) = <<>> \/ Solid(TrimText(s)))
  BY TrimIs
<1>2. TrimText(TrimText(s)) = TrimText(s)
  BY <1>1, TrimIs
<1> QED
  BY <1>1, <1>2 DEF PgElement, Element

\* A turn of the loop, at each kind of character.
LEMMA PgStepIs ==
  ASSUME NEW out \in Seq(Element), NEW u \in Seq(Letters), NEW q \in BOOLEAN, NEW c \in Letters
  PROVE  /\ PgStep(PgAt(out, u, q, TRUE), c) = PgAt(out, Append(u, c), q, FALSE)
         /\ c = "\\" => PgStep(PgAt(out, u, q, FALSE), c) = PgAt(out, u, q, TRUE)
         /\ c = LQuote => PgStep(PgAt(out, u, q, FALSE), c) = PgAt(out, u, ~q, FALSE)
         /\ c = Comma /\ ~q => PgStep(PgAt(out, u, q, FALSE), c) = PgAt(Append(out, PgElement(u)), <<>>, q, FALSE)
         /\ c \notin {"\\", LQuote} /\ (c # Comma \/ q) =>
              PgStep(PgAt(out, u, q, FALSE), c) = PgAt(out, Append(u, c), q, FALSE)
<1>1. LQuote # "\\" /\ Comma # "\\" /\ Comma # LQuote
  BY MarksDiffer
<1> QED
  BY <1>1 DEF PgStep, PgAt

LEMMA PgStates ==
  ASSUME NEW out \in Seq(Element), NEW u \in Seq(Letters), NEW q \in BOOLEAN, NEW e \in BOOLEAN
  PROVE  PgAt(out, u, q, e) \in PgState
BY DEF PgAt, PgState

LEMMA PgReaderSteps == PgReader \in Steps(PgState, Letters)
<1>1. ASSUME NEW s \in PgState, NEW c \in Letters PROVE PgStep(s, c) \in PgState
  <2> DEFINE out == s.out
             u   == s.current
             q   == s.quoted
             e   == s.escape
  <2>1. s = PgAt(out, u, q, e) /\ out \in Seq(Element) /\ u \in Seq(Letters) /\ q \in BOOLEAN /\ e \in BOOLEAN
    BY DEF PgAt, PgState
  <2>2. /\ Append(u, c) \in Seq(Letters) /\ <<>> \in Seq(Letters) /\ (~q) \in BOOLEAN
        /\ PgElement(u) \in Element /\ Append(out, PgElement(u)) \in Seq(Element)
    <3>1. PgElement(u) \in Element
      BY <2>1, PgElementIs
    <3> HIDE DEF out, u, q, e
    <3>2. Append(u, c) \in Seq(Letters) /\ (~q) \in BOOLEAN
      <4>1. Append(u, c) \in Seq(Letters)
        BY <2>1
      <4>2. (~q) \in BOOLEAN
        BY <2>1
      <4> QED
        BY <4>1, <4>2
    <3>4. <<>> \in Seq(Letters)
      OBVIOUS
    <3> DEFINE x == PgElement(u)
    <3> HIDE DEF x
    <3>3. Append(out, x) \in Seq(Element)
      BY <2>1, <3>1 DEF x
    <3> QED
      BY <3>1, <3>2, <3>3, <3>4 DEF x
  <2> HIDE DEF out, u, q, e
  <2> DEFINE no == <<>>
             el == Append(out, PgElement(u))
  <2>3. no \in Seq(Letters) /\ el \in Seq(Element)
    BY <2>2
  <2> HIDE DEF no, el
  <2>4. /\ PgAt(out, Append(u, c), q, FALSE) \in PgState /\ PgAt(out, u, q, TRUE) \in PgState
        /\ PgAt(out, u, ~q, FALSE) \in PgState /\ PgAt(el, no, q, FALSE) \in PgState
        /\ PgAt(out, Append(u, c), q, FALSE) \in PgState
    BY <2>1, <2>2, <2>3, PgStates
  <2>5. CASE e
    <3>1. PgStep(PgAt(out, u, q, TRUE), c) = PgAt(out, Append(u, c), q, FALSE)
      BY <2>1, PgStepIs
    <3> QED
      BY <2>1, <2>4, <2>5, <3>1
  <2>6. CASE ~e
    <3>1. /\ c = "\\" => PgStep(PgAt(out, u, q, FALSE), c) = PgAt(out, u, q, TRUE)
          /\ c = LQuote => PgStep(PgAt(out, u, q, FALSE), c) = PgAt(out, u, ~q, FALSE)
          /\ c = Comma /\ ~q => PgStep(PgAt(out, u, q, FALSE), c) = PgAt(el, no, q, FALSE)
          /\ c \notin {"\\", LQuote} /\ (c # Comma \/ q) =>
              PgStep(PgAt(out, u, q, FALSE), c) = PgAt(out, Append(u, c), q, FALSE)
      BY <2>1, PgStepIs, ZenonT(60) DEF el, no
    <3>2. s = PgAt(out, u, q, FALSE)
      BY <2>1, <2>6
    <3> QED
      BY <2>4, <3>1, <3>2
  <2> QED
    BY <2>1, <2>5, <2>6
<1> QED
  BY <1>1 DEF PgReader, Steps

LEMMA PgReaderIs ==
  ASSUME NEW out \in Seq(Element), NEW u \in Seq(Letters), NEW q \in BOOLEAN, NEW e \in BOOLEAN, NEW c \in Letters
  PROVE  /\ PgAt(out, u, q, e) \in PgState
         /\ PgReader[<<PgAt(out, u, q, e), c>>] = PgStep(PgAt(out, u, q, e), c)
<1> DEFINE s == PgAt(out, u, q, e)
<1>1. s \in PgState
  BY PgStates
<1> HIDE DEF s
<1> QED
  BY <1>1 DEF PgReader, s

PgBegin == PgAt(<<>>, <<>>, FALSE, FALSE)

PgEnd(end) ==
  LET last == TrimText(end.current)
  IN  IF last = <<>> /\ end.out = <<>> THEN <<>>
      ELSE Append(end.out, IF last = <<>> /\ end.quoted THEN <<>> ELSE PgElement(last))

LEMMA PgElementsAre ==
  ASSUME NEW w \in Seq(Letters)
  PROVE  PgElements(w) = PgEnd(Scan(PgReader, PgBegin, w)) /\ PgBegin \in PgState
<1> DEFINE n    == Len(w)
           base == [out |-> <<>>, current |-> <<>>, quoted |-> FALSE, escape |-> FALSE]
           S    == PgState
           step == PgReader
           IsF(h) == h = [i \in 0..n |-> IF i = 0 THEN base ELSE PgStep(h[i - 1], w[i])]
           after  == CHOOSE h : IsF(h)
<1>1. Scans(S, Letters, step, base, w) /\ n \in Nat /\ base \in S /\ base = PgBegin
  <2>1. base \in S
    BY DEF PgState
  <2>2. base = PgBegin
    BY DEF PgBegin, PgAt
  <2> QED
    BY <2>1, <2>2, PgReaderSteps DEF Scans
<1>2. PgElements(w) = PgEnd(after[n])
  BY Zenon DEF PgElements, PgEnd
<1> HIDE DEF base
<1>3. PICK f : IsScan(f, S, step, base, w)
  BY <1>1, ScanRun, Zenon
<1>4. f \in [0..n -> S] /\ f[0] = base /\ \A i \in 1..n : f[i] = PgStep(f[i - 1], w[i])
  <2>1. f \in [0..n -> S] /\ f[0] = base /\ \A i \in 1..n : f[i] = step[<<f[i - 1], w[i]>>]
    BY <1>3 DEF IsScan, Follows
  <2>2. \A i \in 1..n : i - 1 \in 0..n
    OBVIOUS
  <2>3. \A i \in 1..n : f[i - 1] \in S /\ w[i] \in Letters
    BY <2>1, <2>2
  <2>4. \A i \in 1..n : step[<<f[i - 1], w[i]>>] = PgStep(f[i - 1], w[i])
    BY <2>3 DEF PgReader
  <2> QED
    BY <2>1, <2>4
<1>5. IsF(f)
  <2>1. f = [i \in 0..n |-> f[i]]
    BY <1>4
  <2>2. \A i \in 0..n : f[i] = IF i = 0 THEN base ELSE PgStep(f[i - 1], w[i])
    <3>1. \A i \in 0..n : i = 0 \/ i \in 1..n
      BY <1>1
    <3> QED
      BY <1>1, <1>4, <3>1
  <2> QED
    BY <2>1, <2>2, Zenon
<1> HIDE DEF IsF
<1>6. IsF(after)
  BY <1>5, Zenon
<1> HIDE DEF after, n
<1>7. after[0] = f[0] /\ \A k \in 1..n : after[k] = PgStep(after[k - 1], w[k])
  <2>1. \A i \in 0..n : after[i] = IF i = 0 THEN base ELSE PgStep(after[i - 1], w[i])
    BY <1>6, Zenon DEF IsF
  <2>2. 0 \in 0..n /\ \A i \in 1..n : i \in 0..n /\ i # 0
    BY <1>1
  <2> QED
    BY <1>4, <2>1, <2>2, Zenon
<1>8. \A k \in 1..n : after[k - 1] = f[k - 1] => after[k] = f[k]
  BY <1>4, <1>7
<1>9. after[n] = f[n]
  BY <1>1, <1>7, <1>8, SameEnd
<1> QED
  BY <1>1, <1>2, <1>3, <1>9 DEF IsScan, n

\* How a text is read: w as the text v, wherever it begins.
PgReads(w, v) ==
  /\ w \in Seq(Letters) /\ v \in Seq(Letters)
  /\ \A out \in Seq(Element) : Scan(PgReader, PgAt(out, <<>>, FALSE, FALSE), w) = PgAt(out, v, FALSE, FALSE)

LEMMA PlainReads ==
  ASSUME NEW w \in Seq(Letters), \A i \in 1..Len(w) : w[i] \notin {"\\", LQuote, Comma}
  PROVE  PgReads(w, w)
<1> SUFFICES ASSUME NEW out \in Seq(Element)
             PROVE  Scan(PgReader, PgAt(out, <<>>, FALSE, FALSE), w) = PgAt(out, w, FALSE, FALSE)
  BY DEF PgReads
<1> DEFINE at == [u \in Seq(Letters) |-> PgAt(out, u, FALSE, FALSE)]
           no == <<>>
<1>1. at \in [Seq(Letters) -> PgState]
  <2>1. \A u \in Seq(Letters) : PgAt(out, u, FALSE, FALSE) \in PgState
    BY PgStates
  <2> QED
    BY <2>1
<1>2. ASSUME NEW u \in Seq(Letters), NEW i \in 1..Len(w) PROVE PgReader[<<at[u], w[i]>>] = at[Append(u, w[i])]
  <2> DEFINE c == w[i]
  <2>1. c \in Letters /\ c \notin {"\\", LQuote} /\ c # Comma
    OBVIOUS
  <2> HIDE DEF c
  <2>2. Append(u, c) \in Seq(Letters)
    BY <2>1
  <2>3. PgStep(PgAt(out, u, FALSE, FALSE), c) = PgAt(out, Append(u, c), FALSE, FALSE)
    BY <2>1, PgStepIs
  <2>4. PgReader[<<PgAt(out, u, FALSE, FALSE), c>>] = PgStep(PgAt(out, u, FALSE, FALSE), c)
    BY <2>1, PgReaderIs
  <2> QED
    BY <2>2, <2>3, <2>4 DEF c
<1>3. at[w] = PgAt(out, w, FALSE, FALSE) /\ at[no] = PgAt(out, no, FALSE, FALSE) /\ no \in Seq(Letters) /\ no \o w = w
  BY NothingBefore
<1> HIDE DEF at, no
<1>4. ScansPlain(PgState, Letters, PgReader, at, w)
  BY <1>1, <1>2, PgReaderSteps, Zenon DEF ScansPlain
<1>5. Scan(PgReader, at[no], w) = at[no \o w]
  <2>1. no \in Seq(Letters)
    BY <1>3
  <2> QED
    BY ONLY <1>4, <2>1, PlainScan, SMTT(60)
<1> QED
  BY <1>3, <1>5 DEF no

Backslashing == [x \in Letters |-> Backslashed(x)]

LEMMA BackslashedIs ==
  ASSUME NEW x \in Letters
  PROVE  /\ Backslashed(x) \in Seq(Letters) /\ Backslashing[x] = Backslashed(x)
         /\ x \in {"\\", LQuote} => Backslashed(x) = <<"\\", x>>
         /\ x \notin {"\\", LQuote} => Backslashed(x) = <<x>>
<1>1. "\\" \in Letters
  BY MarksDiffer
<1>2. <<"\\", x>> \in Seq(Letters) /\ <<x>> \in Seq(Letters)
  BY <1>1
<1> QED
  BY <1>2 DEF Backslashed, Backslashing

\* What is in quotes, without them.
LEMMA InQuotesIs ==
  ASSUME NEW v \in Seq(Letters)
  PROVE  /\ InQuotes(v) = (<<LQuote>> \o Each(Backslashing, v)) \o <<LQuote>>
         /\ Backslashing \in [Letters -> Seq(Letters)] /\ Each(Backslashing, v) \in Seq(Letters)
         /\ <<LQuote>> \in Seq(Letters) /\ LQuote \in Letters /\ InQuotes(v) \in Seq(Letters)
<1>1. Backslashing \in [Letters -> Seq(Letters)]
  BY BackslashedIs DEF Backslashing
<1>2. EachPart(Backslashing, v) = [i \in DOMAIN v |-> Backslashed(v[i])]
  <2>1. \A i \in DOMAIN v : Backslashing[v[i]] = Backslashed(v[i])
    BY BackslashedIs
  <2> QED
    BY <2>1 DEF EachPart
<1>3. InQuotes(v) = (<<LQuote>> \o Each(Backslashing, v)) \o <<LQuote>>
  BY <1>2, Zenon DEF InQuotes, Each
<1>4. Each(Backslashing, v) \in Seq(Letters)
  <2>1. WritesEach(Letters, Backslashing, v)
    BY <1>1 DEF WritesEach
  <2> QED
    BY <2>1, EachIs
<1>5. LQuote \in Letters
  BY MarksDiffer
<1> DEFINE a == <<LQuote>>
           b == Each(Backslashing, v)
<1>6. a \in Seq(Letters)
  BY <1>5
<1> HIDE DEF a, b
<1>7. (a \o b) \o a \in Seq(Letters)
  BY <1>4, <1>6 DEF b
<1> QED
  BY <1>1, <1>3, <1>4, <1>5, <1>6, <1>7 DEF a, b

LEMMA QuotedPiece ==
  ASSUME NEW out \in Seq(Element), NEW u \in Seq(Letters), NEW x \in Letters
  PROVE  Scan(PgReader, PgAt(out, u, TRUE, FALSE), Backslashed(x)) = PgAt(out, u \o <<x>>, TRUE, FALSE)
<1> DEFINE q == TRUE
           S == PgState
           s == PgAt(out, u, q, FALSE)
           t == PgAt(out, u, q, TRUE)
           r == PgAt(out, u \o <<x>>, q, FALSE)
           b == "\\"
<1>0. q \in BOOLEAN /\ q
  OBVIOUS
<1> HIDE DEF q
<1>1. Append(u, x) = u \o <<x>> /\ b \in Letters
  BY MarksDiffer
<1>2. s \in S /\ PgReader[<<s, b>>] = PgStep(s, b) /\ PgReader[<<s, x>>] = PgStep(s, x)
  BY <1>0, <1>1, PgReaderIs
<1>3. t \in S /\ PgReader[<<t, x>>] = PgStep(t, x)
  BY <1>0, PgReaderIs
<1>4. PgStep(s, b) = t /\ PgStep(t, x) = r
  <2>1. PgStep(PgAt(out, u, q, FALSE), b) = PgAt(out, u, q, TRUE)
    BY <1>0, <1>1, PgStepIs, ZenonT(60)
  <2>2. PgStep(PgAt(out, u, q, TRUE), x) = PgAt(out, Append(u, x), q, FALSE)
    BY <1>0, PgStepIs, ZenonT(60)
  <2> QED
    BY <1>1, <2>1, <2>2, Zenon
<1>5. x \notin {b, LQuote} => PgStep(s, x) = r
  <2>1. x \notin {b, LQuote} => PgStep(PgAt(out, u, q, FALSE), x) = PgAt(out, Append(u, x), q, FALSE)
    BY <1>0, PgStepIs, ZenonT(60)
  <2> QED
    BY <1>1, <2>1, Zenon
<1> HIDE DEF s, t, r, S
<1>6. CASE x \in {b, LQuote}
  <2>1. Backslashed(x) = <<b, x>>
    BY <1>6, BackslashedIs
  <2> HIDE DEF b
  <2>2. Scan(PgReader, s, <<b, x>>) = PgReader[<<PgReader[<<s, b>>], x>>]
    BY <1>1, <1>2, ScanTwo, PgReaderSteps DEF S
  <2> QED
    BY <1>2, <1>3, <1>4, <2>1, <2>2 DEF s, r, q
<1>7. CASE x \notin {b, LQuote}
  <2>1. Backslashed(x) = <<x>>
    BY <1>7, BackslashedIs
  <2>2. Scan(PgReader, s, <<x>>) = PgReader[<<s, x>>]
    BY <1>2, ScanOne, PgReaderSteps DEF S
  <2> QED
    BY <1>2, <1>5, <1>7, <2>1, <2>2 DEF s, r, q
<1> QED
  BY <1>6, <1>7 DEF q

\* Three texts are scanned one after the other.
ScansThree(S, X, step, q, a, b, c) ==
  step \in Steps(S, X) /\ q \in S /\ a \in Seq(X) /\ b \in Seq(X) /\ c \in Seq(X)

LEMMA ScanThree ==
  ASSUME NEW S, NEW X, NEW step, NEW q, NEW a, NEW b, NEW c, ScansThree(S, X, step, q, a, b, c)
  PROVE  Scan(step, q, (a \o b) \o c) = Scan(step, Scan(step, Scan(step, q, a), b), c)
<1>1. step \in Steps(S, X) /\ q \in S /\ a \in Seq(X) /\ b \in Seq(X) /\ c \in Seq(X)
  BY Zenon DEF ScansThree
<1> DEFINE ab == a \o b
<1>2. ab \in Seq(X)
  BY <1>1
<1>3. Scans(S, X, step, q, a) 
  BY <1>1 DEF Scans
<1>4. Scan(step, q, a \o b) = Scan(step, Scan(step, q, a), b)
  BY <1>1, <1>3, ScanBoth
<1> HIDE DEF ab
<1>5. Scans(S, X, step, q, ab)
  BY <1>1, <1>2 DEF Scans
<1>6. Scan(step, q, ab \o c) = Scan(step, Scan(step, q, ab), c)
  BY <1>1, <1>5, ScanBoth
<1> QED
  BY <1>4, <1>6 DEF ab

LEMMA QuotedReads ==
  ASSUME NEW v \in Seq(Letters)
  PROVE  PgReads(InQuotes(v), v)
<1>0. /\ InQuotes(v) = (<<LQuote>> \o Each(Backslashing, v)) \o <<LQuote>>
      /\ Backslashing \in [Letters -> Seq(Letters)] /\ Each(Backslashing, v) \in Seq(Letters)
      /\ <<LQuote>> \in Seq(Letters) /\ LQuote \in Letters /\ InQuotes(v) \in Seq(Letters)
  BY InQuotesIs
<1> SUFFICES ASSUME NEW out \in Seq(Element)
             PROVE  Scan(PgReader, PgAt(out, <<>>, FALSE, FALSE), InQuotes(v)) = PgAt(out, v, FALSE, FALSE)
  BY <1>0 DEF PgReads
<1> DEFINE at == [u \in Seq(Letters) |-> PgAt(out, u, TRUE, FALSE)]
           no == <<>>
           G  == Singles(Letters)
           P  == Backslashing
           a  == <<LQuote>>
           b  == Each(P, v)
           s  == PgAt(out, no, FALSE, FALSE)
           t  == PgAt(out, v, TRUE, FALSE)
           r  == PgAt(out, v, FALSE, FALSE)
<1>1. at \in [Seq(Letters) -> PgState]
  <2>1. \A u \in Seq(Letters) : PgAt(out, u, TRUE, FALSE) \in PgState
    BY PgStates
  <2> QED
    BY <2>1
<1>2. G \in [Letters -> Seq(Letters)] /\ (\A x \in Letters : G[x] = <<x>>) /\ Each(G, v) = v
  BY SinglesAre, EachSingle
<1>3. no \in Seq(Letters) /\ no \o v = v
  BY NothingBefore
<1>4. at[no] = PgAt(out, no, TRUE, FALSE) /\ at[v] = t
  BY <1>3
<1>5. ASSUME NEW u \in Seq(Letters), NEW i \in 1..Len(v) PROVE Scan(PgReader, at[u], P[v[i]]) = at[u \o G[v[i]]]
  <2> DEFINE x == v[i]
  <2>1. x \in Letters
    OBVIOUS
  <2> HIDE DEF x
  <2>2. P[x] = Backslashed(x) /\ G[x] = <<x>>
    BY <1>2, <2>1, BackslashedIs
  <2>3. Scan(PgReader, PgAt(out, u, TRUE, FALSE), Backslashed(x)) = PgAt(out, u \o <<x>>, TRUE, FALSE)
    BY <2>1, QuotedPiece
  <2>4. u \o <<x>> \in Seq(Letters)
    BY <2>1
  <2> HIDE DEF P, G
  <2> QED
    BY <2>2, <2>3, <2>4 DEF x
<1> HIDE DEF at, no, G
<1>6. ScansEach(PgState, Letters, PgReader, at, P, G, v)
  BY <1>0, <1>1, <1>2, <1>5, PgReaderSteps, Zenon DEF ScansEach
<1>7. Scan(PgReader, at[no], Each(P, v)) = at[no \o Each(G, v)]
  BY <1>3, <1>6, EachScan
<1>8. Scan(PgReader, at[no], b) = t
  BY <1>2, <1>3, <1>4, <1>7
<1>9. s \in PgState /\ PgReader[<<s, LQuote>>] = at[no] /\ t \in PgState /\ PgReader[<<t, LQuote>>] = r
  <2>1. s \in PgState /\ PgReader[<<s, LQuote>>] = PgStep(s, LQuote)
    BY <1>0, <1>3, PgReaderIs
  <2>2. t \in PgState /\ PgReader[<<t, LQuote>>] = PgStep(t, LQuote)
    BY <1>0, PgReaderIs
  <2>3. PgStep(s, LQuote) = PgAt(out, no, ~FALSE, FALSE) /\ PgStep(t, LQuote) = PgAt(out, v, ~TRUE, FALSE)
    BY <1>0, <1>3, PgStepIs, Zenon
  <2> QED
    BY <1>4, <2>1, <2>2, <2>3
<1> HIDE DEF s, t, r, b, P
<1>10. Scan(PgReader, s, <<LQuote>>) = at[no] /\ Scan(PgReader, t, <<LQuote>>) = r
  BY <1>0, <1>9, ScanOne, PgReaderSteps
<1> HIDE DEF a
<1>11. ScansThree(PgState, Letters, PgReader, s, a, b, a)
  BY <1>0, <1>9, PgReaderSteps DEF ScansThree, a, b, P
<1>12. Scan(PgReader, s, (a \o b) \o a) = Scan(PgReader, Scan(PgReader, Scan(PgReader, s, a), b), a)
  BY <1>11, ScanThree
<1>13. Scan(PgReader, s, (a \o b) \o a) = r
  BY <1>8, <1>10, <1>12 DEF a
<1> QED
  BY <1>0, <1>13 DEF a, b, P, s, r, no

-----------------------------------------------------------------------------
(* Texts between brackets *)

LEMMA JoinedIs == ASSUME NEW ws PROVE Joined(ws) = JoinWith(ws, Comma)
BY Zenon DEF Joined, JoinWith

LEMMA TextsJoined ==
  ASSUME NEW s \in Seq(Letters), NEW t \in Seq(Letters)
  PROVE  /\ s \o t \in Seq(Letters) /\ Len(s \o t) = Len(s) + Len(t)
         /\ Len(s) \in Nat /\ Len(t) \in Nat
         /\ \A i \in 1..Len(s) : (s \o t)[i] = s[i]
         /\ \A i \in 1..Len(t) : (s \o t)[Len(s) + i] = t[i]
BY Concat

Framed(o, w, c) == (<<o>> \o w) \o <<c>>

LEMMA FramedIs ==
  ASSUME NEW o \in Letters, NEW c \in Letters, NEW w \in Seq(Letters), o # Space, c # Space
  PROVE  /\ Framed(o, w, c) \in Seq(Letters) /\ Len(Framed(o, w, c)) = Len(w) + 2
         /\ Framed(o, w, c) # <<>> /\ Head(Framed(o, w, c)) = o /\ Last(Framed(o, w, c)) = c
         /\ Framed(o, w, c)[1] = o
         /\ Inside(Framed(o, w, c)) = w
         /\ Solid(Framed(o, w, c)) /\ TrimText(Framed(o, w, c)) = Framed(o, w, c)
<1> DEFINE T == Seq(Letters)
           a == <<o>>
           z == <<c>>
           b == a \o w
           t == b \o z
<1>1. a \in T /\ Len(a) = 1 /\ a[1] = o /\ z \in T /\ Len(z) = 1 /\ z[1] = c
  OBVIOUS
<1> HIDE DEF a, z, T
<1>2. /\ b \in T /\ Len(b) = 1 + Len(w) /\ Len(w) \in Nat /\ b[1] = o
      /\ \A i \in 1..Len(w) : b[1 + i] = w[i]
  <2>1. /\ b \in T /\ Len(b) = Len(a) + Len(w) /\ Len(w) \in Nat
        /\ \A i \in 1..Len(a) : b[i] = a[i]
        /\ \A i \in 1..Len(w) : b[Len(a) + i] = w[i]
    BY <1>1, TextsJoined DEF T
  <2> HIDE DEF b
  <2>2. 1 \in 1..Len(a)
    BY <1>1
  <2> QED
    BY <1>1, <2>1, <2>2
<1> HIDE DEF b
<1>3. /\ t \in T /\ Len(t) = Len(w) + 2
      /\ \A i \in 1..Len(b) : t[i] = b[i]
      /\ \A i \in 1..1 : t[Len(b) + i] = z[i]
  <2>1. /\ t \in T /\ Len(t) = Len(b) + Len(z)
        /\ \A i \in 1..Len(b) : t[i] = b[i]
        /\ \A i \in 1..Len(z) : t[Len(b) + i] = z[i]
    BY <1>1, <1>2, TextsJoined DEF T
  <2> HIDE DEF t
  <2> QED
    BY <1>1, <1>2, <2>1
<1> HIDE DEF t
<1>4. t[1] = o /\ t[Len(t)] = c /\ \A i \in 1..Len(w) : t[i + 1] = w[i]
  <2>1. 1 \in 1..Len(b) /\ 1 \in 1..1 /\ Len(b) + 1 = Len(t) /\ \A i \in 1..Len(w) : i + 1 \in 1..Len(b) /\ i + 1 = 1 + i
    BY <1>2, <1>3
  <2>2. t[1] = b[1]
    BY <1>3, <2>1
  <2>3. t[Len(b) + 1] = z[1]
    BY <1>3, <2>1
  <2>4. \A i \in 1..Len(w) : t[i + 1] = b[i + 1] /\ b[i + 1] = w[i]
    BY <1>2, <1>3, <2>1
  <2> QED
    BY <1>1, <1>2, <2>1, <2>2, <2>3, <2>4
<1>5. Solid(t)
  BY <1>2, <1>3, <1>4, SolidIs DEF T
<1>6. TrimText(t) = t
  BY <1>3, <1>5, TrimIs DEF T
<1>7. t # <<>> /\ Head(t) = o /\ Last(t) = c
  <2>1. t # <<>>
    BY <1>2, <1>3
  <2>2. Head(t) = t[1]
    BY <1>3, <2>1
  <2> QED
    BY <1>4, <2>1, <2>2 DEF Last
<1>8. Inside(t) = w
  <2>1. Inside(t) = SubSeq(t, 2, Len(w) + 1)
    BY <1>2, <1>3 DEF Inside, T
  <2> DEFINE m == Len(w)
             u == SubSeq(t, 2, m + 1)
  <2>2. m \in Nat /\ Len(t) = m + 2 /\ t \in T /\ w \in T /\ \A i \in 1..m : t[i + 1] = w[i]
    BY <1>2, <1>3, <1>4 DEF T
  <2>3. u \in T /\ Len(u) = m /\ \A i \in 1..m : u[i] = t[i + 1]
    BY <2>2 DEF T
  <2> HIDE DEF u
  <2>4. \A i \in 1..m : u[i] = w[i]
    BY <2>2, <2>3
  <2>5. u = w
    BY <2>2, <2>3, <2>4 DEF T
  <2> QED
    BY <2>1, <2>5 DEF u
<1>9. Framed(o, w, c) = t
  BY DEF Framed, t, b, a, z
<1> QED
  BY <1>3, <1>4, <1>5, <1>6, <1>7, <1>8, <1>9 DEF T

AllSolid(ws) == ws \in Seq(Seq(Letters)) /\ \A j \in 1..Len(ws) : Solid(ws[j])

\* What is joined begins and ends with what the first begins and the last ends with.
LEMMA JoinedSolid ==
  ASSUME NEW ws, AllSolid(ws), Len(ws) > 0
  PROVE  Joined(ws) \in Seq(Letters) /\ Solid(Joined(ws)) /\ Joined(ws)[1] = ws[1][1]
<1> DEFINE n  == Len(ws)
           ss == Pieces(ws, Comma)
           T  == Seq(Letters)
           x  == ws[1][1]
<1>0. Comma \in Letters /\ Comma # Space
  BY MarksDiffer
<1>1. /\ ss \in Seq(T) /\ Len(ss) = n /\ n \in Nat /\ Joined(ws) = FlattenSeq(ss) /\ Joined(ws) \in T
      /\ \A i \in 1..n : ws[i] \in T /\ ss[i] = IF i = 1 THEN ws[1] ELSE <<Comma>> \o ws[i]
  <2>1. ws \in Seq(Seq(Letters))
    BY DEF AllSolid
  <2>2. Joined(ws) = JoinWith(ws, Comma)
    BY JoinedIs
  <2>3. /\ ss \in Seq(Seq(Letters)) /\ Len(ss) = n /\ n \in Nat
        /\ JoinWith(ws, Comma) = FlattenSeq(ss) /\ JoinWith(ws, Comma) \in Seq(Letters)
        /\ \A i \in 1..n : ws[i] \in Seq(Letters) /\ ss[i] = IF i = 1 THEN ws[1] ELSE <<Comma>> \o ws[i]
    BY ONLY <1>0, <2>1, PiecesAre, SMTT(60)
  <2> HIDE DEF ss
  <2> QED
    BY ONLY <2>2, <2>3, Zenon
<1>2. \A i \in 1..n : Solid(ws[i])
  BY DEF AllSolid
<1> HIDE DEF ss
<1>3. PICK f : IsFlat(f, Letters, ss)
  BY <1>1, FlatRun
<1>4. /\ f \in [0..n -> T] /\ f[0] = <<>> /\ f[n] = FlattenSeq(ss)
      /\ \A k \in 1..n : f[k] = f[k - 1] \o ss[k]
  BY <1>1, <1>3 DEF IsFlat
<1> DEFINE Q == {k \in 0..n : k = 0 \/ (Solid(f[k]) /\ f[k][1] = x)}
<1>5. 0 \in Q
  BY <1>1
<1>6. ASSUME NEW k \in 0..(n - 1), k \in Q PROVE k + 1 \in Q
  <2> DEFINE i == k + 1
  <2>1. i \in 1..n /\ k \in 0..n /\ i - 1 = k /\ i \in 0..n
    BY <1>1
  <2>2. f[i] = f[k] \o ss[i] /\ ws[i] \in T /\ Solid(ws[i]) /\ f[k] \in T
    BY <1>1, <1>2, <1>4, <2>1
  <2>3. CASE k = 0
    <3>1. i = 1 /\ f[k] = <<>> /\ ss[i] = ws[1] /\ ws[1] \in T
      BY <1>1, <1>4, <2>1, <2>2, <2>3
    <3>2. <<>> \o ws[1] = ws[1]
      BY <3>1, NothingBefore
    <3>3. f[i] = ws[1]
      BY <2>2, <3>1, <3>2
    <3> QED
      BY <2>1, <2>2, <2>3, <3>1, <3>3
  <2>4. CASE k # 0
    <3> DEFINE p == <<Comma>>
    <3>1. ss[i] = p \o ws[i] /\ Solid(f[k]) /\ f[k][1] = x
      <4>1. i # 1
        BY <1>1, <2>4
      <4>2. ss[i] = p \o ws[i]
        BY <1>1, <2>1, <4>1
      <4>3. Solid(f[k]) /\ f[k][1] = x
        BY <1>6, <2>4
      <4> QED
        BY <4>2, <4>3
    <3>2. p \in T /\ Len(p) = 1 /\ p[1] = Comma
      BY <1>0
    <3> HIDE DEF p
    <3>3. Solid(p)
      BY <1>0, <3>2, SolidIs
    <3>4. ss[i] \in T /\ Solid(ss[i])
      BY <2>2, <3>1, <3>2, <3>3, SolidEnds
    <3>5. Solid(f[i])
      BY <2>2, <3>1, <3>4, SolidEnds
    <3>6. Len(f[k]) > 0 /\ Len(f[k]) \in Nat
      BY <2>2, <3>1, SolidIs
    <3>7. f[i][1] = f[k][1]
      <4>1. 1 \in 1..Len(f[k])
        BY <3>6
      <4> DEFINE y == f[k]
                 z == ss[i]
      <4>3. y \in Seq(Letters) /\ z \in Seq(Letters) /\ f[i] = y \o z
        BY <2>2, <3>4
      <4> HIDE DEF y, z
      <4>4. \A j \in 1..Len(y) : (y \o z)[j] = y[j]
        BY <4>3, TextsJoined
      <4>2. \A j \in 1..Len(f[k]) : f[i][j] = f[k][j]
        BY <4>3, <4>4 DEF y
      <4> QED
        BY <4>1, <4>2
    <3> QED
      BY <2>1, <3>1, <3>5, <3>7
  <2> QED
    BY <2>3, <2>4
<1> HIDE DEF Q
<1>7. \A k \in 0..n : k \in Q
  BY <1>1, <1>5, <1>6, Ladder
<1>8. n \in Q /\ n # 0
  BY <1>1, <1>7
<1> QED
  BY <1>1, <1>4, <1>8 DEF Q

-----------------------------------------------------------------------------
(* A row of an array *)

PgWords(ws, vs) ==
  /\ ws \in Seq(Seq(Letters)) /\ vs \in Seq(Seq(Letters)) /\ Len(ws) = Len(vs)
  /\ \A j \in 1..Len(ws) : PgReads(ws[j], vs[j])

ElementsOf(vs) == [j \in 1..Len(vs) |-> PgElement(vs[j])]

LEMMA PgRow ==
  ASSUME NEW ws, NEW vs, PgWords(ws, vs), Len(vs) > 0
  PROVE  /\ ElementsOf(vs) \in Seq(Element) /\ Len(ElementsOf(vs)) = Len(vs)
         /\ PgElements(Joined(ws)) =
              IF Len(vs) = 1 /\ TrimText(vs[1]) = <<>> THEN <<>> ELSE ElementsOf(vs)
<1> DEFINE n  == Len(vs)
           es == ElementsOf(vs)
           no == <<>>
           out(k) == SubSeq(es, 1, k - 1)
           st == [k \in 0..n |-> IF k = 0 THEN PgBegin ELSE PgAt(out(k), vs[k], FALSE, FALSE)]
<1>1. /\ n \in Nat /\ n > 0 /\ Len(ws) = n /\ ws \in Seq(Seq(Letters)) /\ vs \in Seq(Seq(Letters))
      /\ \A j \in 1..n : ws[j] \in Seq(Letters) /\ vs[j] \in Seq(Letters) /\ PgReads(ws[j], vs[j])
  BY DEF PgWords
<1>2. es \in Seq(Element) /\ Len(es) = n /\ \A k \in 1..n : es[k] = PgElement(vs[k])
  <2>1. \A k \in 1..n : PgElement(vs[k]) \in Element
    BY <1>1, PgElementIs
  <2> QED
    BY <1>1, <2>1 DEF ElementsOf
<1> HIDE DEF es
<1>3. \A k \in 1..n : /\ out(k) \in Seq(Element) /\ Len(out(k)) = k - 1 /\ Append(out(k), es[k]) = SubSeq(es, 1, k)
                      /\ k = 1 => out(k) = <<>>
  BY <1>2, PrefixIs
<1> HIDE DEF out
<1>4. Comma \in Letters /\ no \in Seq(Letters) /\ no \in Seq(Element) /\ PgBegin = PgAt(no, no, FALSE, FALSE)
  BY MarksDiffer DEF PgBegin
<1>5. PgBegin \in PgState
  BY <1>4, PgElementsAre
<1>6. \A k \in 1..n : PgAt(out(k), vs[k], FALSE, FALSE) \in PgState
  BY <1>1, <1>3, PgStates
<1>7. st \in [0..n -> PgState] /\ st[0] = PgBegin /\ \A k \in 1..n : st[k] = PgAt(out(k), vs[k], FALSE, FALSE)
  <2>1. \A k \in 1..n : k \in 0..n /\ k # 0
    BY <1>1
  <2>2. \A k \in 0..n : k = 0 \/ k \in 1..n
    BY <1>1
  <2>3. 0 \in 0..n
    BY <1>1
  <2> QED
    BY <1>5, <1>6, <2>1, <2>2, <2>3, Zenon
<1> HIDE DEF no
<1>8. ASSUME NEW k \in 1..n
      PROVE  st[k] = Scan(PgReader, IF k = 1 THEN st[0] ELSE PgReader[<<st[k - 1], Comma>>], ws[k])
  <2>1. Scan(PgReader, PgAt(out(k), no, FALSE, FALSE), ws[k]) = st[k]
    BY <1>1, <1>3, <1>7 DEF PgReads, no
  <2>2. CASE k = 1
    BY <1>3, <1>4, <1>7, <2>1, <2>2 DEF no
  <2>3. CASE k # 1
    <3> DEFINE i == k - 1
               x == vs[i]
               o == out(i)
    <3>1. i \in 1..n /\ i + 1 = k
      BY <1>1, <2>3
    <3>2. o \in Seq(Element) /\ x \in Seq(Letters) /\ st[i] = PgAt(o, x, FALSE, FALSE)
      BY <1>1, <1>3, <1>7, <3>1
    <3>3. Append(o, PgElement(x)) = out(k)
      <4>1. Append(out(i), es[i]) = SubSeq(es, 1, i) /\ es[i] = PgElement(vs[i])
        BY <1>2, <1>3, <3>1
      <4> QED
        BY <4>1 DEF out
    <3> HIDE DEF o, x
    <3>4. PgReader[<<PgAt(o, x, FALSE, FALSE), Comma>>] = PgStep(PgAt(o, x, FALSE, FALSE), Comma)
      BY <1>4, <3>2, PgReaderIs
    <3>5. PgStep(PgAt(o, x, FALSE, FALSE), Comma) = PgAt(Append(o, PgElement(x)), <<>>, FALSE, FALSE)
      BY <1>4, <3>2, PgStepIs, ZenonT(60)
    <3> QED
      BY <2>1, <2>3, <3>2, <3>3, <3>4, <3>5 DEF no
  <2> QED
    BY <2>2, <2>3
<1> HIDE DEF st
<1>9. ScansJoined(PgState, Letters, PgReader, Comma, ws, st)
  BY <1>1, <1>4, <1>7, <1>8, PgReaderSteps DEF ScansJoined
<1>10. Scan(PgReader, st[0], JoinWith(ws, Comma)) = st[n] /\ JoinWith(ws, Comma) \in Seq(Letters)
  BY ONLY <1>1, <1>9, JoinedScan, SMTT(60)
<1>11. PgElements(Joined(ws)) = PgEnd(PgAt(out(n), vs[n], FALSE, FALSE))
  <2>1. n \in 1..n
    BY <1>1
  <2> QED
    BY <1>7, <1>10, <2>1, JoinedIs, PgElementsAre
<1> DEFINE last == TrimText(vs[n])
<1>12. PgEnd(PgAt(out(n), vs[n], FALSE, FALSE))
         = IF last = no /\ out(n) = no THEN no ELSE Append(out(n), PgElement(last))
  BY DEF PgEnd, PgAt, no
<1>13. Append(out(n), PgElement(last)) = es
  <2>1. n \in 1..n
    BY <1>1
  <2>2. PgElement(last) = es[n]
    BY <1>1, <1>2, <2>1, PgElementIs
  <2>3. SubSeq(es, 1, n) = es
    BY <1>2, WholePrefix
  <2> QED
    BY <1>3, <2>1, <2>2, <2>3
<1>14. out(n) = no <=> n = 1
  <2>1. n \in 1..n
    BY <1>1
  <2>2. out(n) \in Seq(Element) /\ Len(out(n)) = n - 1
    BY <1>3, <2>1
  <2> QED
    <3> DEFINE o == out(n)
    <3> HIDE DEF o
    <3>1. o # <<>> <=> Len(o) > 0
      BY <2>2, SomethingThere DEF o
    <3>2. n - 1 > 0 <=> n # 1
      <4>1. n \in Nat /\ n > 0
        BY <1>1
      <4> HIDE DEF n
      <4> QED
        BY <4>1
    <3> QED
      BY <2>2, <3>1, <3>2 DEF no, o
<1> HIDE DEF last
<1> QED
  BY <1>2, <1>11, <1>12, <1>13, <1>14 DEF no, es, last

LEMMA ReadsNothing == PgElements(<<>>) = <<>> /\ Joined(<<>>) = <<>> /\ TrimText(<<>>) = <<>>
<1> DEFINE no == <<>>
<1>1. no \in Seq(Letters) /\ no \in Seq(Element)
  OBVIOUS
<1>2. PgElements(no) = PgEnd(Scan(PgReader, PgBegin, no)) /\ PgBegin \in PgState
  BY <1>1, PgElementsAre
<1>3. Scan(PgReader, PgBegin, no) = PgBegin
  BY <1>2, PgReaderSteps, ScanNothing
<1>4. TrimText(no) = no
  BY <1>1, TrimIs
<1>5. PgEnd(PgBegin) = no
  <2>1. PgBegin.current = no /\ PgBegin.out = no
    BY DEF PgBegin, PgAt
  <2> HIDE DEF no
  <2> QED
    BY <1>4, <2>1, Zenon DEF PgEnd, no
<1>6. Joined(no) = no
  <2>1. [i \in DOMAIN no |-> IF i = 1 THEN no[1] ELSE <<Comma>> \o no[i]] = no
    BY DOMAIN no = {}
  <2> QED
    BY <2>1, FlatNone, Zenon DEF Joined
<1> QED
  BY <1>2, <1>3, <1>4, <1>5, <1>6

\* A text in braces whose inner text does not begin with one is an array of one dimension.
LEMMA RowIsRead ==
  ASSUME NEW w \in Seq(Letters), TrimText(w) = w, w # <<>> => w[1] # Open,
         NEW text, text = Framed(Open, w, Close)
  PROVE  /\ text \in Seq(Letters) /\ text # <<>> /\ Head(text) = Open
         /\ RowsOf(text) = <<PgElements(w)>>
<1> DEFINE no == <<>>
<1>1. Open \in Letters /\ Close \in Letters /\ Open # Space /\ Close # Space /\ Open # "["
  BY MarksDiffer
<1>2. /\ text \in Seq(Letters) /\ text # <<>> /\ Head(text) = Open
      /\ Inside(text) = w /\ TrimText(text) = text
  BY <1>1, FramedIs
<1>3. w # no => Head(w) = w[1]
  OBVIOUS
<1>4. ParseArray(text) = ParsePgArray(text)
  BY <1>1, <1>2, Zenon DEF ParseArray
<1>5. ParsePgArray(text) = IF w = no THEN EmptyArray ELSE OneD(PgElements(w))
  BY <1>2, <1>3, Zenon DEF ParsePgArray
<1>6. PgElements(no) = no
  BY ReadsNothing
<1>7. CASE w = no
  BY <1>2, <1>4, <1>5, <1>6, <1>7 DEF RowsOf, EmptyArray
<1>8. CASE w # no
  BY <1>2, <1>4, <1>5, <1>8 DEF RowsOf, OneD
<1> QED
  BY <1>7, <1>8

-----------------------------------------------------------------------------
(* The words of PostgreSQL's format *)

Plainly(e) == IF e = None THEN NullText ELSE e

KeepsItsText(e) == e # None => Trimmed(e) /\ e # <<>> /\ e # NullText

WordOf(e, w) == PgReads(w, Plainly(e)) /\ Solid(w) /\ w[1] # Open

LEMMA NullTextIs ==
  /\ NullText \in Seq(Letters) /\ None \notin Seq(Characters)
  /\ \A i \in 1..Len(NullText) : NullText[i] \notin {Space, Comma, Open, Close, LQuote, "\\"}
  /\ Solid(NullText) /\ NullText[1] # Open
<1>1. {"N", "U", "L"} \subseteq Letters /\ {"N", "U", "L"} \cap {Space, Comma, Open, Close, LQuote, "\\"} = {}
  BY MarksDiffer
<1>2. NullText \in Seq(Letters)
  BY <1>1 DEF NullText
<1>3. Len(NullText) = 4 /\ \A i \in 1..4 : NullText[i] \in {"N", "U", "L"}
  BY DEF NullText
<1>4. \A i \in 1..4 : NullText[i] \notin {Space, Comma, Open, Close, LQuote, "\\"}
  BY <1>1, <1>3
<1>5. 1 \in 1..4 /\ 4 \in 1..4
  OBVIOUS
<1>6. NullText[1] \notin {Space, Open} /\ NullText[4] # Space
  BY <1>4, <1>5
<1>7. Solid(NullText)
  <2>1. Len(NullText) > 0 /\ NullText[1] # Space /\ NullText[Len(NullText)] # Space
    BY <1>3, <1>6
  <2> QED
    BY ONLY <1>2, <2>1, SolidIs, SMTT(60)
<1> QED
  BY <1>2, <1>3, <1>4, <1>6, <1>7, ArraysAssumption

LEMMA ElementIs ==
  ASSUME NEW e \in Element
  PROVE  /\ Plainly(e) \in Seq(Letters) /\ (e # None => e \in Seq(Letters))
         /\ PgElement(Plainly(e)) = e <=> KeepsItsText(e)
         /\ TrimText(Plainly(e)) = <<>> => ~KeepsItsText(e)
<1> DEFINE no == <<>>
           p  == Plainly(e)
           t  == TrimText(p)
<1>1. NullText \in Seq(Letters) /\ Solid(NullText) /\ NullText # no
  BY NullTextIs DEF Solid
<1>2. p \in Seq(Letters) /\ (e # None => e \in Seq(Letters) /\ p = e) /\ (e = None => p = NullText)
  BY <1>1 DEF Plainly, Element
<1>3. TrimText(NullText) = NullText
  BY <1>1, TrimIs
<1>4. PgElement(p) = IF t = no \/ t = NullText THEN None ELSE t
  BY DEF PgElement
<1> HIDE DEF no
<1>5. KeepsItsText(e) <=> (e # None => TrimText(e) = e /\ e # no /\ e # NullText)
  BY DEF KeepsItsText, Trimmed, no
<1> HIDE DEF p
<1>6. CASE e = None
  BY <1>1, <1>2, <1>3, <1>4, <1>5, <1>6 DEF no, p
<1>7. CASE e # None
  BY <1>2, <1>4, <1>5, <1>7 DEF no, p
<1> QED
  BY <1>6, <1>7

LEMMA QuotedWord ==
  ASSUME NEW e \in Seq(Letters), e # None
  PROVE  WordOf(e, InQuotes(e))
<1>1. /\ InQuotes(e) = Framed(LQuote, Each(Backslashing, e), LQuote) /\ Each(Backslashing, e) \in Seq(Letters)
      /\ LQuote \in Letters
  BY InQuotesIs DEF Framed
<1>2. LQuote # Space /\ LQuote # Open
  BY MarksDiffer
<1>3. Solid(InQuotes(e)) /\ InQuotes(e)[1] = LQuote
  BY <1>1, <1>2, FramedIs
<1>4. PgReads(InQuotes(e), e)
  BY QuotedReads
<1> QED
  BY <1>2, <1>3, <1>4 DEF WordOf, Plainly

LEMMA PlainWord ==
  ASSUME NEW e \in Element, Solid(Plainly(e)), Plainly(e)[1] # Open,
         e # None => \A i \in 1..Len(e) : e[i] \notin {"\\", LQuote, Comma}
  PROVE  WordOf(e, Plainly(e))
<1>1. Plainly(e) \in Seq(Letters)
  BY ElementIs
<1>2. \A i \in 1..Len(Plainly(e)) : Plainly(e)[i] \notin {"\\", LQuote, Comma}
  BY NullTextIs DEF Plainly
<1> QED
  BY <1>1, <1>2, PlainReads DEF WordOf

LEMMA NullWord == WordOf(None, NullText)
<1>1. Plainly(None) = NullText /\ None \in Element
  BY DEF Plainly, Element
<1> QED
  BY <1>1, PlainWord, NullTextIs

LEMMA CharsAre ==
  ASSUME NEW e \in Seq(Letters), NEW c
  PROVE  c \in CharsOf(e) <=> \E i \in 1..Len(e) : e[i] = c
BY DEF CharsOf, ToSet

LEMMA PgTextIs ==
  ASSUME NEW e \in Element
  PROVE  WordOf(e, PgText(e))
<1> DEFINE Marks == {Comma, Open, Close, LQuote, "\\", Space}
<1>1. CASE e = None
  BY <1>1, NullWord DEF PgText
<1>2. CASE e # None /\ ~Bare(e)
  <2>1. PgText(e) = InQuotes(e)
    BY <1>2, Zenon DEF PgText
  <2>2. e \in Seq(Letters)
    BY <1>2, ElementIs
  <2> QED
    BY <1>2, <2>1, <2>2, QuotedWord
<1>3. CASE e # None /\ Bare(e)
  <2>0. e # <<>> /\ CharsOf(e) \cap Marks = {}
    BY <1>3 DEF Bare
  <2>1. PgText(e) = Plainly(e) /\ Plainly(e) = e
    BY <1>3, Zenon DEF PgText, Plainly
  <2>2. e \in Seq(Letters)
    BY <1>3, ElementIs
  <2>3. \A i \in 1..Len(e) : e[i] \notin Marks
    BY <2>0, <2>2, CharsAre
  <2>4. Len(e) > 0 /\ 1 \in 1..Len(e) /\ Len(e) \in 1..Len(e)
    BY <2>0, <2>2, SomethingThere
  <2>5. Solid(e) /\ e[1] # Open
    BY <2>2, <2>3, <2>4, SolidIs
  <2> QED
    BY <2>1, <2>3, <2>5, PlainWord
<1> QED
  BY <1>1, <1>2, <1>3

LEMMA SurvivesIs ==
  ASSUME NEW e
  PROVE  /\ Survives(e, "literal") <=> KeepsItsText(e)
         /\ Survives(e, "array") <=> (e # None => e \notin {<<"0">>, <<"1">>})
         /\ Survives(e, "function") =>
              KeepsItsText(e) /\ (e # None /\ "\\" \in CharsOf(e) => CharsOf(e) \cap {Comma, Open, Close, LQuote} # {})
BY Zenon DEF Survives, KeepsItsText

LEMMA KeptIsSolid ==
  ASSUME NEW e \in Seq(Letters), e # None, KeepsItsText(e)
  PROVE  Solid(e) /\ Len(e) > 0 /\ 1 \in 1..Len(e)
<1>1. TrimText(e) = e /\ e # <<>>
  BY DEF KeepsItsText, Trimmed
<1>2. Solid(e)
  BY <1>1, TrimIs
<1> QED
  BY <1>1, <1>2, SomethingThere

LEMMA ElementTextIs ==
  ASSUME NEW e \in Element, Survives(e, "function")
  PROVE  WordOf(e, ElementText(e))
<1> DEFINE Marks == {Comma, Open, Close, LQuote}
<1>1. CASE e = None
  BY <1>1, NullWord DEF ElementText
<1>2. CASE e # None /\ CharsOf(e) \cap Marks # {}
  <2>1. ElementText(e) = InQuotes(e)
    BY <1>2, Zenon DEF ElementText
  <2>2. e \in Seq(Letters)
    BY <1>2, ElementIs
  <2> QED
    BY <1>2, <2>1, <2>2, QuotedWord
<1>3. CASE e # None /\ CharsOf(e) \cap Marks = {}
  <2>0. KeepsItsText(e) /\ "\\" \notin CharsOf(e)
    BY <1>3, SurvivesIs
  <2>1. ElementText(e) = Plainly(e) /\ Plainly(e) = e
    BY <1>3, <2>0, Zenon DEF ElementText, Plainly, KeepsItsText
  <2>2. e \in Seq(Letters)
    BY <1>3, ElementIs
  <2>3. \A i \in 1..Len(e) : e[i] \notin {Comma, Open, Close, LQuote, "\\"}
    BY <1>3, <2>0, <2>2, CharsAre
  <2>4. Solid(e) /\ 1 \in 1..Len(e)
    BY <1>3, <2>0, <2>2, KeptIsSolid
  <2> QED
    BY <2>1, <2>3, <2>4, PlainWord
<1> QED
  BY <1>1, <1>2, <1>3

-----------------------------------------------------------------------------
(* A row, from its elements *)

WordsOfRow(v, ws) ==
  /\ v \in Seq(Element) /\ ws \in Seq(Seq(Letters)) /\ Len(ws) = Len(v)
  /\ \A j \in 1..Len(v) : WordOf(v[j], ws[j])

AllKept(v) == \A j \in 1..Len(v) : KeepsItsText(v[j])

LEMMA WordsAreRead ==
  ASSUME NEW v, NEW ws, WordsOfRow(v, ws)
  PROVE  /\ Joined(ws) \in Seq(Letters) /\ TrimText(Joined(ws)) = Joined(ws)
         /\ Joined(ws) # <<>> => Joined(ws)[1] # Open
         /\ PgElements(Joined(ws)) = v <=> AllKept(v)
<1> DEFINE n  == Len(v)
           w  == Joined(ws)
           no == <<>>
           vs == [j \in 1..n |-> Plainly(v[j])]
<1>1. /\ v \in Seq(Element) /\ ws \in Seq(Seq(Letters)) /\ Len(ws) = n /\ n \in Nat
      /\ \A j \in 1..n : /\ v[j] \in Element /\ WordOf(v[j], ws[j]) /\ PgReads(ws[j], Plainly(v[j]))
                         /\ Solid(ws[j]) /\ ws[j][1] # Open
  BY DEF WordsOfRow, WordOf
<1>2. CASE n = 0
  <2>1. v = no /\ ws = no
    BY <1>1, <1>2
  <2>2. w = no /\ TrimText(no) = no /\ PgElements(no) = no /\ no \in Seq(Letters)
    BY <2>1, ReadsNothing
  <2>3. AllKept(v)
    BY <1>2 DEF AllKept
  <2> QED
    BY <2>1, <2>2, <2>3
<1>3. CASE n # 0
  <2>0. n > 0 /\ 1 \in 1..n
    BY <1>1, <1>3
  <2>1. w \in Seq(Letters) /\ Solid(w) /\ w[1] = ws[1][1]
    BY <1>1, <2>0, JoinedSolid DEF AllSolid
  <2>2. TrimText(w) = w /\ w[1] # Open
    <3>1. TrimText(w) = w
      BY <2>1, TrimIs
    <3> QED
      BY <1>1, <2>0, <2>1, <3>1
  <2>3. vs \in Seq(Seq(Letters)) /\ Len(vs) = n /\ \A j \in 1..n : vs[j] = Plainly(v[j])
    <3>1. \A j \in 1..n : Plainly(v[j]) \in Seq(Letters)
      BY <1>1, ElementIs
    <3> QED
      BY <1>1, <3>1
  <2> HIDE DEF vs, n, w, no
  <2>4. PgWords(ws, vs)
    BY <1>1, <2>3 DEF PgWords
  <2>5. /\ ElementsOf(vs) \in Seq(Element) /\ Len(ElementsOf(vs)) = n
        /\ PgElements(w) = IF n = 1 /\ TrimText(vs[1]) = no THEN no ELSE ElementsOf(vs)
    BY <2>0, <2>3, <2>4, PgRow DEF w, no
  <2>6. \A j \in 1..n : ElementsOf(vs)[j] = PgElement(Plainly(v[j]))
    BY <2>3 DEF ElementsOf
  <2>7. \A j \in 1..n : ElementsOf(vs)[j] = v[j] <=> KeepsItsText(v[j])
    BY <1>1, <2>6, ElementIs
  <2>8. ElementsOf(vs) = v <=> AllKept(v)
    <3>1. AllKept(v) <=> \A j \in 1..n : ElementsOf(vs)[j] = v[j]
      BY <2>7 DEF AllKept, n
    <3> DEFINE es == ElementsOf(vs)
    <3>2. es \in Seq(Element) /\ Len(es) = n /\ v \in Seq(Element) /\ Len(v) = n
      BY <1>1, <2>5 DEF n
    <3> HIDE DEF es
    <3>3. es = v <=> \A j \in 1..n : es[j] = v[j]
      BY <3>2
    <3> QED
      BY <3>1, <3>3 DEF es
  <2>9. CASE n = 1 /\ TrimText(vs[1]) = no
    <3>1. ~KeepsItsText(v[1])
      BY <1>1, <2>0, <2>3, <2>9, ElementIs DEF no
    <3>2. ~AllKept(v)
      BY <2>0, <3>1 DEF AllKept, n
    <3>3. v # no
      BY <1>1, <2>0, SomethingThere DEF n, no
    <3> QED
      BY <2>1, <2>2, <2>5, <2>9, <3>2, <3>3 DEF w
  <2>10. CASE ~(n = 1 /\ TrimText(vs[1]) = no)
    BY <2>1, <2>2, <2>5, <2>8, <2>10 DEF w
  <2> QED
    BY <2>9, <2>10
<1> QED
  BY <1>2, <1>3

-----------------------------------------------------------------------------
(* Reading the elements of ARRAY[...] in JSON *)

JsonState ==
  [out : Seq(Seq(Letters)), current : Seq(Letters), quoted : BOOLEAN, escape : BOOLEAN, depth : Int]

JsonAt(out, current, quoted, escape, depth) ==
  [out |-> out, current |-> current, quoted |-> quoted, escape |-> escape, depth |-> depth]

JsonReader == [p \in JsonState \X Letters |-> JsonStep(p[1], p[2])]

\* A turn of the loop, at each kind of character.
LEMMA JsonStepIs ==
  ASSUME NEW out \in Seq(Seq(Letters)), NEW u \in Seq(Letters), NEW q \in BOOLEAN, NEW d \in Int, NEW c \in Letters
  PROVE  /\ JsonStep(JsonAt(out, u, q, TRUE, d), c) = JsonAt(out, Append(u, c), q, FALSE, d)
         /\ c = "\\" /\ q => JsonStep(JsonAt(out, u, q, FALSE, d), c) = JsonAt(out, Append(u, c), q, TRUE, d)
         /\ c = LQuote => JsonStep(JsonAt(out, u, q, FALSE, d), c) = JsonAt(out, Append(u, c), ~q, FALSE, d)
         /\ c = Comma /\ ~q /\ d = 0 =>
              JsonStep(JsonAt(out, u, q, FALSE, d), c) = JsonAt(Append(out, TrimText(u)), <<>>, q, FALSE, d)
         /\ c \in {"[", Open} /\ ~q =>
              JsonStep(JsonAt(out, u, q, FALSE, d), c) = JsonAt(out, Append(u, c), q, FALSE, d + 1)
         /\ c \in {"]", Close} /\ ~q =>
              JsonStep(JsonAt(out, u, q, FALSE, d), c) = JsonAt(out, Append(u, c), q, FALSE, d - 1)
         /\ c # LQuote /\ (c = "\\" => ~q) /\ (c = Comma => q \/ d # 0) /\ (c \in {"[", "]", Open, Close} => q) =>
              JsonStep(JsonAt(out, u, q, FALSE, d), c) = JsonAt(out, Append(u, c), q, FALSE, d)
<1>1. /\ LQuote # "\\" /\ Comma # "\\" /\ Comma # LQuote
      /\ {"[", Open} \cap {"\\", LQuote, "]", Close, Comma} = {} /\ {"]", Close} \cap {"\\", LQuote, Comma} = {}
  BY MarksDiffer, "[" # "\\", "]" # "\\", "[" # "]"
<1> QED
  BY <1>1 DEF JsonStep, JsonAt

LEMMA JsonStates ==
  ASSUME NEW out \in Seq(Seq(Letters)), NEW u \in Seq(Letters), NEW q \in BOOLEAN, NEW e \in BOOLEAN, NEW d \in Int
  PROVE  JsonAt(out, u, q, e, d) \in JsonState
BY DEF JsonAt, JsonState

LEMMA JsonReaderSteps == JsonReader \in Steps(JsonState, Letters)
<1>1. ASSUME NEW s \in JsonState, NEW c \in Letters PROVE JsonStep(s, c) \in JsonState
  <2> DEFINE out == s.out
             u   == s.current
             q   == s.quoted
             e   == s.escape
             d   == s.depth
  <2>1. /\ s = JsonAt(out, u, q, e, d) /\ out \in Seq(Seq(Letters)) /\ u \in Seq(Letters)
        /\ q \in BOOLEAN /\ e \in BOOLEAN /\ d \in Int
    BY DEF JsonAt, JsonState
  <2> HIDE DEF out, u, q, e, d
  <2> DEFINE no == <<>>
             x  == TrimText(u)
             el == Append(out, x)
             T  == Seq(Letters)
             w  == Append(u, c)
  <2>2. no \in T /\ x \in T /\ w \in T /\ (~q) \in BOOLEAN /\ d + 1 \in Int /\ d - 1 \in Int
    <3>1. x \in T
      BY <2>1, TrimIs
    <3>2. no \in T /\ w \in T
      BY <2>1
    <3>3. (~q) \in BOOLEAN /\ d + 1 \in Int /\ d - 1 \in Int
      BY <2>1
    <3> QED
      BY <3>1, <3>2, <3>3
  <2>3. el \in Seq(T)
    <3> HIDE DEF x, T
    <3> QED
      BY <2>1, <2>2 DEF T
  <2>4. TRUE \in BOOLEAN /\ FALSE \in BOOLEAN
    OBVIOUS
  <2> HIDE DEF no, el, w
  <2>5. /\ JsonAt(out, w, q, FALSE, d) \in JsonState /\ JsonAt(out, w, q, TRUE, d) \in JsonState
        /\ JsonAt(out, w, ~q, FALSE, d) \in JsonState /\ JsonAt(el, no, q, FALSE, d) \in JsonState
        /\ JsonAt(out, w, q, FALSE, d + 1) \in JsonState /\ JsonAt(out, w, q, FALSE, d - 1) \in JsonState
    BY <2>1, <2>2, <2>3, <2>4, JsonStates
  <2>6. CASE e
    <3>1. JsonStep(JsonAt(out, u, q, TRUE, d), c) = JsonAt(out, w, q, FALSE, d)
      BY <2>1, JsonStepIs, ZenonT(60) DEF w
    <3> QED
      BY <2>1, <2>5, <2>6, <3>1
  <2>7. CASE ~e
    <3> DEFINE r == JsonStep(JsonAt(out, u, q, FALSE, d), c)
    <3>1. /\ c = "\\" /\ q => r = JsonAt(out, w, q, TRUE, d)
          /\ c = LQuote => r = JsonAt(out, w, ~q, FALSE, d)
          /\ c = Comma /\ ~q /\ d = 0 => r = JsonAt(el, no, q, FALSE, d)
          /\ c \in {"[", Open} /\ ~q => r = JsonAt(out, w, q, FALSE, d + 1)
          /\ c \in {"]", Close} /\ ~q => r = JsonAt(out, w, q, FALSE, d - 1)
          /\ c # LQuote /\ (c = "\\" => ~q) /\ (c = Comma => q \/ d # 0) /\ (c \in {"[", "]", Open, Close} => q) =>
               r = JsonAt(out, w, q, FALSE, d)
      BY <2>1, JsonStepIs, ZenonT(120) DEF el, no, w
    <3>2. s = JsonAt(out, u, q, FALSE, d)
      BY <2>1, <2>7
    <3> HIDE DEF r
    <3>3. r \in JsonState
      BY <2>5, <3>1, ZenonT(60)
    <3> QED
      BY <3>2, <3>3 DEF r
  <2> QED
    BY <2>1, <2>6, <2>7
<1> QED
  BY <1>1 DEF JsonReader, Steps

LEMMA JsonReaderIs ==
  ASSUME NEW out \in Seq(Seq(Letters)), NEW u \in Seq(Letters), NEW q \in BOOLEAN, NEW e \in BOOLEAN, NEW d \in Int,
         NEW c \in Letters
  PROVE  /\ JsonAt(out, u, q, e, d) \in JsonState
         /\ JsonReader[<<JsonAt(out, u, q, e, d), c>>] = JsonStep(JsonAt(out, u, q, e, d), c)
<1> DEFINE s == JsonAt(out, u, q, e, d)
<1>1. s \in JsonState
  BY JsonStates
<1> HIDE DEF s
<1> QED
  BY <1>1 DEF JsonReader, s

JsonBegin == JsonAt(<<>>, <<>>, FALSE, FALSE, 0)

JsonEnd(end) ==
  IF TrimText(end.current) = <<>> THEN end.out ELSE Append(end.out, TrimText(end.current))

LEMMA JsonElementsAre ==
  ASSUME NEW w \in Seq(Letters)
  PROVE  JsonElements(w) = JsonEnd(Scan(JsonReader, JsonBegin, w)) /\ JsonBegin \in JsonState
<1> DEFINE n    == Len(w)
           base == [out |-> <<>>, current |-> <<>>, quoted |-> FALSE, escape |-> FALSE, depth |-> 0]
           S    == JsonState
           step == JsonReader
           IsF(h) == h = [i \in 0..n |-> IF i = 0 THEN base ELSE JsonStep(h[i - 1], w[i])]
           after  == CHOOSE h : IsF(h)
<1>1. Scans(S, Letters, step, base, w) /\ n \in Nat /\ base \in S /\ base = JsonBegin
  <2>1. base \in S
    BY DEF JsonState
  <2>2. base = JsonBegin
    BY DEF JsonBegin, JsonAt
  <2> QED
    BY <2>1, <2>2, JsonReaderSteps DEF Scans
<1>2. JsonElements(w) = JsonEnd(after[n])
  BY Zenon DEF JsonElements, JsonEnd
<1> HIDE DEF base
<1>3. PICK f : IsScan(f, S, step, base, w)
  BY <1>1, ScanRun, Zenon
<1>4. f \in [0..n -> S] /\ f[0] = base /\ \A i \in 1..n : f[i] = JsonStep(f[i - 1], w[i])
  <2>1. f \in [0..n -> S] /\ f[0] = base /\ \A i \in 1..n : f[i] = step[<<f[i - 1], w[i]>>]
    BY <1>3 DEF IsScan, Follows
  <2>2. \A i \in 1..n : i - 1 \in 0..n
    OBVIOUS
  <2>3. \A i \in 1..n : f[i - 1] \in S /\ w[i] \in Letters
    BY <2>1, <2>2
  <2>4. \A i \in 1..n : step[<<f[i - 1], w[i]>>] = JsonStep(f[i - 1], w[i])
    BY <2>3 DEF JsonReader
  <2> QED
    BY <2>1, <2>4
<1>5. IsF(f)
  <2>1. f = [i \in 0..n |-> f[i]]
    BY <1>4
  <2>2. \A i \in 0..n : f[i] = IF i = 0 THEN base ELSE JsonStep(f[i - 1], w[i])
    <3>1. \A i \in 0..n : i = 0 \/ i \in 1..n
      BY <1>1
    <3> QED
      BY <1>1, <1>4, <3>1
  <2> QED
    BY <2>1, <2>2, Zenon
<1> HIDE DEF IsF
<1>6. IsF(after)
  BY <1>5, Zenon
<1> HIDE DEF after, n
<1>7. after[0] = f[0] /\ \A k \in 1..n : after[k] = JsonStep(after[k - 1], w[k])
  <2>1. \A i \in 0..n : after[i] = IF i = 0 THEN base ELSE JsonStep(after[i - 1], w[i])
    BY <1>6, Zenon DEF IsF
  <2>2. 0 \in 0..n /\ \A i \in 1..n : i \in 0..n /\ i # 0
    BY <1>1
  <2> QED
    BY <1>4, <2>1, <2>2, Zenon
<1>8. \A k \in 1..n : after[k - 1] = f[k - 1] => after[k] = f[k]
  BY <1>4, <1>7
<1>9. after[n] = f[n]
  BY <1>1, <1>7, <1>8, SameEnd
<1> QED
  BY <1>1, <1>2, <1>3, <1>9 DEF IsScan, n

\* A text that is collected as it is written.
JsonReads(w) ==
  /\ w \in Seq(Letters)
  /\ \A out \in Seq(Seq(Letters)) :
       Scan(JsonReader, JsonAt(out, <<>>, FALSE, FALSE, 0), w) = JsonAt(out, w, FALSE, FALSE, 0)

LEMMA JsonPlainReads ==
  ASSUME NEW w \in Seq(Letters), \A i \in 1..Len(w) : w[i] \notin {"\\", LQuote, Comma, "[", "]", Open, Close}
  PROVE  JsonReads(w)
<1> SUFFICES ASSUME NEW out \in Seq(Seq(Letters))
             PROVE  Scan(JsonReader, JsonAt(out, <<>>, FALSE, FALSE, 0), w) = JsonAt(out, w, FALSE, FALSE, 0)
  BY DEF JsonReads
<1> DEFINE q  == FALSE
           at == [u \in Seq(Letters) |-> JsonAt(out, u, q, FALSE, 0)]
           no == <<>>
<1>0. q \in BOOLEAN /\ FALSE \in BOOLEAN /\ 0 \in Int
  OBVIOUS
<1> HIDE DEF q
<1>1. at \in [Seq(Letters) -> JsonState]
  <2>1. \A u \in Seq(Letters) : JsonAt(out, u, q, FALSE, 0) \in JsonState
    BY <1>0, JsonStates
  <2> QED
    BY <2>1
<1>2. ASSUME NEW u \in Seq(Letters), NEW i \in 1..Len(w) PROVE JsonReader[<<at[u], w[i]>>] = at[Append(u, w[i])]
  <2> DEFINE c == w[i]
  <2>1. c \in Letters /\ c \notin {"\\", LQuote, Comma, "[", "]", Open, Close}
    OBVIOUS
  <2> HIDE DEF c
  <2>2. Append(u, c) \in Seq(Letters)
    BY <2>1
  <2>3. JsonStep(JsonAt(out, u, q, FALSE, 0), c) = JsonAt(out, Append(u, c), q, FALSE, 0)
    BY <1>0, <2>1, JsonStepIs, ZenonT(60)
  <2>4. JsonReader[<<JsonAt(out, u, q, FALSE, 0), c>>] = JsonStep(JsonAt(out, u, q, FALSE, 0), c)
    BY <1>0, <2>1, JsonReaderIs, ZenonT(60)
  <2> QED
    BY <2>2, <2>3, <2>4 DEF c
<1>3. at[w] = JsonAt(out, w, q, FALSE, 0) /\ at[no] = JsonAt(out, no, q, FALSE, 0) /\ no \in Seq(Letters) /\ no \o w = w
  BY NothingBefore
<1> HIDE DEF at, no
<1>4. ScansPlain(JsonState, Letters, JsonReader, at, w)
  BY <1>1, <1>2, JsonReaderSteps, Zenon DEF ScansPlain
<1>5. Scan(JsonReader, at[no], w) = at[no \o w]
  <2>1. no \in Seq(Letters)
    BY <1>3
  <2> QED
    BY ONLY <1>4, <2>1, PlainScan, SMTT(60)
<1> QED
  BY <1>3, <1>5 DEF no, q

LEMMA TwoMore ==
  ASSUME NEW X, NEW u \in Seq(X), NEW b \in X, NEW x \in X
  PROVE  Append(u, b) \in Seq(X) /\ Append(Append(u, b), x) = u \o <<b, x>> /\ Append(u, x) = u \o <<x>>
<1>1. Append(u, b) \in Seq(X)
  OBVIOUS
<1>2. Append(u, x) = u \o <<x>>
  OBVIOUS
<1>3. Append(Append(u, b), x) = u \o <<b, x>>
  OBVIOUS
<1> QED
  BY <1>1, <1>2, <1>3

LEMMA JsonLevels ==
  ASSUME NEW out \in Seq(Seq(Letters)), NEW u \in Seq(Letters)
  PROVE  JsonAt(out, u, TRUE, FALSE, 0) \in JsonState /\ JsonAt(out, u, FALSE, FALSE, 0) \in JsonState
BY DEF JsonAt, JsonState

\* A quote opens a quoted text, and closes it.
LEMMA JsonQuote ==
  ASSUME NEW out \in Seq(Seq(Letters)), NEW u \in Seq(Letters), NEW q \in BOOLEAN
  PROVE  JsonReader[<<JsonAt(out, u, q, FALSE, 0), LQuote>>] = JsonAt(out, Append(u, LQuote), ~q, FALSE, 0)
<1>1. LQuote \in Letters /\ FALSE \in BOOLEAN /\ 0 \in Int
  BY MarksDiffer
<1>2. JsonReader[<<JsonAt(out, u, q, FALSE, 0), LQuote>>] = JsonStep(JsonAt(out, u, q, FALSE, 0), LQuote)
  BY <1>1, JsonReaderIs, ZenonT(60)
<1>3. JsonStep(JsonAt(out, u, q, FALSE, 0), LQuote) = JsonAt(out, Append(u, LQuote), ~q, FALSE, 0)
  BY <1>1, JsonStepIs, ZenonT(60)
<1> QED
  BY <1>2, <1>3

\* A quoted text is collected with its quotes and backslashes.
LEMMA JsonQuotedPiece ==
  ASSUME NEW out \in Seq(Seq(Letters)), NEW u \in Seq(Letters), NEW x \in Letters
  PROVE  Scan(JsonReader, JsonAt(out, u, TRUE, FALSE, 0), Backslashed(x)) = JsonAt(out, u \o Backslashed(x), TRUE, FALSE, 0)
<1> DEFINE q == TRUE
           S == JsonState
           b == "\\"
           v == Append(u, b)
           s == JsonAt(out, u, q, FALSE, 0)
           t == JsonAt(out, v, q, TRUE, 0)
<1>0. q \in BOOLEAN /\ q /\ TRUE \in BOOLEAN /\ FALSE \in BOOLEAN /\ 0 \in Int
  OBVIOUS
<1> HIDE DEF q
<1>1. b \in Letters /\ b # LQuote
  BY MarksDiffer
<1>2. v \in Seq(Letters) /\ Append(v, x) = u \o <<b, x>> /\ Append(u, x) = u \o <<x>>
  <2> HIDE DEF b
  <2> QED
    BY <1>1, TwoMore
<1> HIDE DEF v
<1>3. s \in S /\ JsonReader[<<s, b>>] = JsonStep(s, b) /\ JsonReader[<<s, x>>] = JsonStep(s, x)
  BY <1>0, <1>1, JsonReaderIs, ZenonT(60)
<1>4. t \in S /\ JsonReader[<<t, x>>] = JsonStep(t, x)
  BY <1>0, <1>2, JsonReaderIs, ZenonT(60)
<1>5. JsonStep(s, b) = t
  BY <1>0, <1>1, JsonStepIs, ZenonT(60) DEF v
<1>6. JsonStep(t, x) = JsonAt(out, Append(v, x), q, FALSE, 0)
  BY <1>0, <1>2, JsonStepIs, ZenonT(60)
<1>7. x \notin {b, LQuote} => JsonStep(s, x) = JsonAt(out, Append(u, x), q, FALSE, 0)
  BY <1>0, JsonStepIs, ZenonT(60)
<1> HIDE DEF s, t, S, b
<1>8. CASE x \in {b, LQuote}
  <2>1. Backslashed(x) = <<b, x>>
    BY <1>8, BackslashedIs DEF b
  <2>2. Scan(JsonReader, s, <<b, x>>) = JsonReader[<<JsonReader[<<s, b>>], x>>]
    BY <1>1, <1>3, ScanTwo, JsonReaderSteps DEF S
  <2> QED
    BY <1>2, <1>3, <1>4, <1>5, <1>6, <2>1, <2>2 DEF s, q
<1>9. CASE x \notin {b, LQuote}
  <2>1. Backslashed(x) = <<x>>
    BY <1>9, BackslashedIs DEF b
  <2>2. Scan(JsonReader, s, <<x>>) = JsonReader[<<s, x>>]
    BY <1>3, ScanOne, JsonReaderSteps DEF S
  <2> QED
    BY <1>2, <1>3, <1>7, <1>9, <2>1, <2>2 DEF s, q
<1> QED
  BY <1>8, <1>9

LEMMA JsonQuotedReads ==
  ASSUME NEW v \in Seq(Letters)
  PROVE  JsonReads(InQuotes(v))
<1>0. /\ InQuotes(v) = (<<LQuote>> \o Each(Backslashing, v)) \o <<LQuote>>
      /\ Backslashing \in [Letters -> Seq(Letters)] /\ Each(Backslashing, v) \in Seq(Letters)
      /\ <<LQuote>> \in Seq(Letters) /\ LQuote \in Letters /\ InQuotes(v) \in Seq(Letters)
  BY InQuotesIs
<1> SUFFICES ASSUME NEW out \in Seq(Seq(Letters))
             PROVE  Scan(JsonReader, JsonAt(out, <<>>, FALSE, FALSE, 0), InQuotes(v))
                      = JsonAt(out, InQuotes(v), FALSE, FALSE, 0)
  BY <1>0 DEF JsonReads
<1> DEFINE T  == Seq(Letters)
           at == [u \in T |-> JsonAt(out, <<LQuote>> \o u, TRUE, FALSE, 0)]
           no == <<>>
           P  == Backslashing
           a  == <<LQuote>>
           b  == Each(P, v)
           s  == JsonAt(out, no, FALSE, FALSE, 0)
           t  == JsonAt(out, a \o b, TRUE, FALSE, 0)
           r  == JsonAt(out, (a \o b) \o a, FALSE, FALSE, 0)
<1>1. /\ no \in T /\ a \in T /\ b \in T /\ a \o no = a /\ no \o b = b /\ a \o b \in T
      /\ Append(no, LQuote) = a /\ Append(a \o b, LQuote) = (a \o b) \o a
  <2>1. no \in T /\ a \in T /\ b \in T /\ Append(no, LQuote) = a
    BY <1>0
  <2> HIDE DEF b
  <2>2. a \o b \in T
    BY <1>0, <2>1
  <2> DEFINE ab == a \o b
  <2> HIDE DEF ab
  <2>3. Append(ab, LQuote) = ab \o a
    BY <1>0, <2>2 DEF ab
  <2> HIDE DEF a, no
  <2>4. a \o no = a /\ no \o b = b
    BY <2>1, NothingBefore DEF no
  <2> QED
    BY <2>1, <2>2, <2>3, <2>4 DEF ab
<1>2. \A u \in T : a \o u \in T
  BY <1>0
<1>3. at \in [T -> JsonState]
  <2>1. \A u \in T : JsonAt(out, a \o u, TRUE, FALSE, 0) \in JsonState
    <3> TAKE u \in T
    <3> DEFINE w == a \o u
    <3>1. w \in Seq(Letters)
      BY <1>2
    <3> HIDE DEF w
    <3>2. JsonAt(out, w, TRUE, FALSE, 0) \in JsonState
      BY <3>1, JsonLevels
    <3> QED
      BY <3>2 DEF w
  <2> QED
    BY <2>1
<1>4. at[no] = JsonAt(out, a, TRUE, FALSE, 0) /\ at[b] = t
  BY <1>1
<1>5. ASSUME NEW u \in T, NEW i \in 1..Len(v) PROVE Scan(JsonReader, at[u], P[v[i]]) = at[u \o P[v[i]]]
  <2> DEFINE x == v[i]
             w == a \o u
             y == Backslashed(x)
  <2>1. x \in Letters
    OBVIOUS
  <2> HIDE DEF x
  <2>2. P[x] = y /\ y \in T
    BY <2>1, BackslashedIs
  <2>3. w \in T
    BY <1>2
  <2> HIDE DEF w, y
  <2>4. Scan(JsonReader, JsonAt(out, w, TRUE, FALSE, 0), y) = JsonAt(out, w \o y, TRUE, FALSE, 0)
    BY <2>1, <2>3, JsonQuotedPiece DEF y
  <2>5. u \o y \in T /\ a \o (u \o y) = (a \o u) \o y
    <3>1. a \in T /\ u \in T /\ y \in T
      BY <1>1, <2>2
    <3> HIDE DEF a
    <3>2. u \o y \in T
      BY <3>1
    <3> QED
      BY <3>1, <3>2, JoinedTwice, SMTT(60)
  <2>6. at[u] = JsonAt(out, w, TRUE, FALSE, 0) /\ at[u \o y] = JsonAt(out, w \o y, TRUE, FALSE, 0)
    BY <2>5 DEF w
  <2> HIDE DEF P, at
  <2> QED
    BY <2>2, <2>4, <2>6 DEF x
<1> HIDE DEF at, no
<1>6. ScansEach(JsonState, Letters, JsonReader, at, P, P, v)
  BY <1>0, <1>3, <1>5, JsonReaderSteps, Zenon DEF ScansEach
<1>7. Scan(JsonReader, at[no], Each(P, v)) = at[no \o Each(P, v)]
  <2>1. no \in Seq(Letters)
    BY <1>1
  <2> QED
    BY ONLY <1>6, <2>1, EachScan, SMTT(60)
<1>8. Scan(JsonReader, at[no], b) = t
  BY <1>1, <1>4, <1>7
<1>9. s \in JsonState /\ JsonReader[<<s, LQuote>>] = at[no] /\ t \in JsonState /\ JsonReader[<<t, LQuote>>] = r
  <2> DEFINE ab == a \o b
  <2>1. ab \in Seq(Letters) /\ Append(ab, LQuote) = ab \o a /\ no \in Seq(Letters) /\ Append(no, LQuote) = a
    BY <1>1
  <2> HIDE DEF ab, a
  <2>2. JsonAt(out, no, FALSE, FALSE, 0) \in JsonState /\ JsonAt(out, ab, TRUE, FALSE, 0) \in JsonState
    BY <2>1, JsonLevels
  <2>3. JsonReader[<<JsonAt(out, no, FALSE, FALSE, 0), LQuote>>] = JsonAt(out, Append(no, LQuote), ~FALSE, FALSE, 0)
    BY <2>1, JsonQuote, ZenonT(60)
  <2>4. JsonReader[<<JsonAt(out, ab, TRUE, FALSE, 0), LQuote>>] = JsonAt(out, Append(ab, LQuote), ~TRUE, FALSE, 0)
    BY <2>1, JsonQuote, ZenonT(60)
  <2>5. ~FALSE = TRUE /\ ~TRUE = FALSE
    OBVIOUS
  <2> QED
    BY <1>4, <2>1, <2>2, <2>3, <2>4, <2>5 DEF ab
<1> HIDE DEF s, t, r, b, P
<1>10. Scan(JsonReader, s, <<LQuote>>) = at[no] /\ Scan(JsonReader, t, <<LQuote>>) = r
  BY <1>0, <1>9, ScanOne, JsonReaderSteps
<1> HIDE DEF a
<1>11. ScansThree(JsonState, Letters, JsonReader, s, a, b, a)
  BY <1>1, <1>9, JsonReaderSteps DEF ScansThree
<1>12. Scan(JsonReader, s, (a \o b) \o a) = Scan(JsonReader, Scan(JsonReader, Scan(JsonReader, s, a), b), a)
  BY <1>11, ScanThree
<1>13. Scan(JsonReader, s, (a \o b) \o a) = r
  BY <1>8, <1>10, <1>12 DEF a
<1> QED
  BY <1>0, <1>13 DEF a, b, P, s, r, no

-----------------------------------------------------------------------------
(* The elements of ARRAY[...] *)

JsonWords(ws) == ws \in Seq(Seq(Letters)) /\ \A j \in 1..Len(ws) : JsonReads(ws[j]) /\ Solid(ws[j])

LEMMA JsonRow ==
  ASSUME NEW ws, JsonWords(ws), Len(ws) > 0
  PROVE  JsonElements(Joined(ws)) = ws
<1> DEFINE n  == Len(ws)
           no == <<>>
           T  == Seq(Letters)
           out(k) == SubSeq(ws, 1, k - 1)
           st == [k \in 0..n |-> IF k = 0 THEN JsonBegin ELSE JsonAt(out(k), ws[k], FALSE, FALSE, 0)]
<1>1. /\ n \in Nat /\ n > 0 /\ ws \in Seq(T)
      /\ \A j \in 1..n : ws[j] \in T /\ JsonReads(ws[j]) /\ Solid(ws[j]) /\ TrimText(ws[j]) = ws[j] /\ ws[j] # no
  <2>1. /\ n \in Nat /\ n > 0 /\ ws \in Seq(T)
        /\ \A j \in 1..n : ws[j] \in T /\ JsonReads(ws[j]) /\ Solid(ws[j])
    BY DEF JsonWords
  <2>2. \A j \in 1..n : TrimText(ws[j]) = ws[j]
    BY <2>1, TrimIs
  <2> QED
    BY <2>1, <2>2 DEF Solid
<1> HIDE DEF T
<1>3. \A k \in 1..n : /\ out(k) \in Seq(T) /\ Len(out(k)) = k - 1 /\ Append(out(k), ws[k]) = SubSeq(ws, 1, k)
                      /\ k = 1 => out(k) = <<>>
  BY <1>1, PrefixIs
<1> HIDE DEF out
<1>4. Comma \in Letters /\ no \in T /\ no \in Seq(T) /\ JsonBegin = JsonAt(no, no, FALSE, FALSE, 0)
  BY MarksDiffer DEF JsonBegin, T
<1>5. JsonBegin \in JsonState
  BY <1>4, JsonElementsAre DEF T
<1>6. \A k \in 1..n : JsonAt(out(k), ws[k], FALSE, FALSE, 0) \in JsonState
  <2> TAKE k \in 1..n
  <2> DEFINE o == out(k)
             x == ws[k]
  <2>1. o \in Seq(Seq(Letters)) /\ x \in Seq(Letters)
    BY <1>1, <1>3 DEF T
  <2> HIDE DEF o, x
  <2>2. JsonAt(o, x, FALSE, FALSE, 0) \in JsonState
    BY <2>1, JsonLevels
  <2> QED
    BY <2>2 DEF o, x
<1>7. st \in [0..n -> JsonState] /\ st[0] = JsonBegin /\ \A k \in 1..n : st[k] = JsonAt(out(k), ws[k], FALSE, FALSE, 0)
  <2>1. \A k \in 1..n : k \in 0..n /\ k # 0
    BY <1>1
  <2>2. \A k \in 0..n : k = 0 \/ k \in 1..n
    BY <1>1
  <2>3. 0 \in 0..n
    BY <1>1
  <2> QED
    BY <1>5, <1>6, <2>1, <2>2, <2>3, Zenon
<1> HIDE DEF no
<1>8. ASSUME NEW k \in 1..n
      PROVE  st[k] = Scan(JsonReader, IF k = 1 THEN st[0] ELSE JsonReader[<<st[k - 1], Comma>>], ws[k])
  <2>1. Scan(JsonReader, JsonAt(out(k), no, FALSE, FALSE, 0), ws[k]) = st[k]
    <3> DEFINE o == out(k)
               x == ws[k]
    <3>1. o \in Seq(Seq(Letters)) /\ JsonReads(x) /\ st[k] = JsonAt(o, x, FALSE, FALSE, 0)
      BY <1>1, <1>3, <1>7 DEF T
    <3> HIDE DEF o, x
    <3>2. Scan(JsonReader, JsonAt(o, no, FALSE, FALSE, 0), x) = JsonAt(o, x, FALSE, FALSE, 0)
      BY <3>1, ZenonT(60) DEF JsonReads, no
    <3> QED
      BY <3>1, <3>2 DEF o, x
  <2>2. CASE k = 1
    BY <1>3, <1>4, <1>7, <2>1, <2>2 DEF no
  <2>3. CASE k # 1
    <3> DEFINE i == k - 1
               x == ws[i]
               o == out(i)
               F == FALSE
    <3>0. F \in BOOLEAN /\ ~F /\ FALSE \in BOOLEAN /\ 0 \in Int
      OBVIOUS
    <3>1. i \in 1..n /\ i + 1 = k
      BY <1>1, <2>3
    <3>2. o \in Seq(Seq(Letters)) /\ x \in Seq(Letters) /\ st[i] = JsonAt(o, x, F, FALSE, 0) /\ TrimText(x) = x
      BY <1>1, <1>3, <1>7, <3>1 DEF T
    <3>3. Append(o, x) = out(k)
      <4>1. Append(out(i), ws[i]) = SubSeq(ws, 1, i)
        BY <1>3, <3>1
      <4> QED
        BY <4>1 DEF out
    <3> HIDE DEF o, x, F
    <3>4. JsonReader[<<JsonAt(o, x, F, FALSE, 0), Comma>>] = JsonStep(JsonAt(o, x, F, FALSE, 0), Comma)
      BY <1>4, <3>0, <3>2, JsonReaderIs, ZenonT(60)
    <3>5. JsonStep(JsonAt(o, x, F, FALSE, 0), Comma) = JsonAt(Append(o, TrimText(x)), <<>>, F, FALSE, 0)
      BY <1>4, <3>0, <3>2, JsonStepIs, ZenonT(60)
    <3> QED
      BY <2>1, <2>3, <3>2, <3>3, <3>4, <3>5 DEF no, F
  <2> QED
    BY <2>2, <2>3
<1> HIDE DEF st
<1>9. ScansJoined(JsonState, Letters, JsonReader, Comma, ws, st)
  BY <1>1, <1>4, <1>7, <1>8, JsonReaderSteps DEF ScansJoined, T
<1>10. Scan(JsonReader, st[0], JoinWith(ws, Comma)) = st[n] /\ JoinWith(ws, Comma) \in Seq(Letters)
  BY ONLY <1>1, <1>9, JoinedScan, SMTT(60)
<1>11. n \in 1..n
  BY <1>1
<1>12. JsonElements(Joined(ws)) = JsonEnd(JsonAt(out(n), ws[n], FALSE, FALSE, 0))
  BY <1>7, <1>10, <1>11, JoinedIs, JsonElementsAre
<1>13. JsonEnd(JsonAt(out(n), ws[n], FALSE, FALSE, 0)) = Append(out(n), ws[n])
  <2>1. TrimText(ws[n]) = ws[n] /\ ws[n] # no
    BY <1>1, <1>11
  <2> QED
    BY <2>1 DEF JsonEnd, JsonAt, no
<1>14. Append(out(n), ws[n]) = ws
  <2>1. SubSeq(ws, 1, n) = ws
    BY <1>1, WholePrefix
  <2> QED
    BY <1>3, <1>11, <2>1
<1> QED
  BY <1>12, <1>13, <1>14

-----------------------------------------------------------------------------
(* A quoted element of JSON, without its backslashes *)

UnescapedState == [out : Seq(Letters), escape : BOOLEAN]

UnescapedAt(out, escape) == [out |-> out, escape |-> escape]

JsonUnescaper == [p \in UnescapedState \X Letters |-> UnescapeJsonStep(p[1], p[2])]

LEMMA JsonUnescapeStepIs ==
  ASSUME NEW out \in Seq(Letters), NEW c \in Letters
  PROVE  /\ UnescapedAt(out, TRUE) \in UnescapedState /\ UnescapedAt(out, FALSE) \in UnescapedState
         /\ UnescapeJsonStep(UnescapedAt(out, TRUE), c) \in UnescapedState
         /\ UnescapeJsonStep(UnescapedAt(out, FALSE), c) \in UnescapedState
         /\ c \in {"\\", LQuote} => UnescapeJsonStep(UnescapedAt(out, TRUE), c) = UnescapedAt(out \o <<c>>, FALSE)
         /\ c = "\\" => UnescapeJsonStep(UnescapedAt(out, FALSE), c) = UnescapedAt(out, TRUE)
         /\ c # "\\" => UnescapeJsonStep(UnescapedAt(out, FALSE), c) = UnescapedAt(Append(out, c), FALSE)
<1> DEFINE x == CASE c = "n" -> <<"\n">>
                  [] c = "r" -> <<"\r">>
                  [] c = "t" -> <<"\t">>
                  [] c \in {"\\", LQuote} -> <<c>>
                  [] OTHER -> <<"\\", c>>
           more == out \o x
           T == Seq(Letters)
<1>1. {"n", "r", "t"} \cap {"\\", LQuote} = {} /\ {"\n", "\r", "\t", "\\"} \subseteq Letters
  <2>1. "n" # "\\" /\ "r" # "\\" /\ "t" # "\\"
    OBVIOUS
  <2> QED
    BY <2>1, MarksDiffer
<1>2. <<"\n">> \in T /\ <<"\r">> \in T /\ <<"\t">> \in T /\ <<c>> \in T /\ <<"\\", c>> \in T
  BY <1>1
<1>3. x \in T /\ (c \in {"\\", LQuote} => x = <<c>>)
  <2> HIDE DEF T
  <2> QED
    BY <1>1, <1>2
<1> HIDE DEF x
<1>4. more \in T /\ Append(out, c) \in T
  BY <1>3
<1>5. UnescapeJsonStep(UnescapedAt(out, TRUE), c) = UnescapedAt(more, FALSE)
  BY DEF UnescapeJsonStep, UnescapedAt, x
<1>6. c = "\\" => UnescapeJsonStep(UnescapedAt(out, FALSE), c) = UnescapedAt(out, TRUE)
  BY DEF UnescapeJsonStep, UnescapedAt
<1>7. c # "\\" => UnescapeJsonStep(UnescapedAt(out, FALSE), c) = UnescapedAt(Append(out, c), FALSE)
  BY DEF UnescapeJsonStep, UnescapedAt
<1>8. \A u \in T : UnescapedAt(u, TRUE) \in UnescapedState /\ UnescapedAt(u, FALSE) \in UnescapedState
  BY DEF UnescapedAt, UnescapedState
<1> HIDE DEF more
<1>9. UnescapedAt(more, FALSE) \in UnescapedState /\ UnescapedAt(Append(out, c), FALSE) \in UnescapedState
      /\ UnescapedAt(out, TRUE) \in UnescapedState /\ UnescapedAt(out, FALSE) \in UnescapedState
  BY <1>4, <1>8, Zenon
<1>10. c \in {"\\", LQuote} => more = out \o <<c>>
  BY <1>3 DEF more
<1> QED
  BY <1>5, <1>6, <1>7, <1>9, <1>10

LEMMA JsonUnescaperSteps == JsonUnescaper \in Steps(UnescapedState, Letters)
<1>1. ASSUME NEW s \in UnescapedState, NEW c \in Letters PROVE UnescapeJsonStep(s, c) \in UnescapedState
  <2>1. s.out \in Seq(Letters) /\ (s = UnescapedAt(s.out, TRUE) \/ s = UnescapedAt(s.out, FALSE))
    BY DEF UnescapedState, UnescapedAt
  <2> QED
    BY <2>1, JsonUnescapeStepIs
<1> QED
  BY <1>1 DEF JsonUnescaper, Steps

LEMMA UnescapeJsonIs ==
  ASSUME NEW w \in Seq(Letters)
  PROVE  /\ UnescapeJson(w) = Scan(JsonUnescaper, UnescapedAt(<<>>, FALSE), w).out
         /\ UnescapedAt(<<>>, FALSE) \in UnescapedState
<1> DEFINE n    == Len(w)
           base == [out |-> <<>>, escape |-> FALSE]
           S    == UnescapedState
           step == JsonUnescaper
           IsF(h) == h = [i \in 0..n |-> IF i = 0 THEN base ELSE UnescapeJsonStep(h[i - 1], w[i])]
           after  == CHOOSE h : IsF(h)
<1>1. Scans(S, Letters, step, base, w) /\ n \in Nat /\ base \in S /\ base = UnescapedAt(<<>>, FALSE)
  <2>1. base \in S
    BY DEF UnescapedState
  <2>2. base = UnescapedAt(<<>>, FALSE)
    BY DEF UnescapedAt
  <2> HIDE DEF base
  <2>3. Scans(S, Letters, step, base, w)
    BY <2>1, JsonUnescaperSteps, Zenon DEF Scans
  <2>4. n \in Nat
    OBVIOUS
  <2> QED
    BY <2>1, <2>2, <2>3, <2>4, Zenon
<1>2. UnescapeJson(w) = after[n].out
  BY Zenon DEF UnescapeJson
<1> HIDE DEF base
<1>3. PICK f : IsScan(f, S, step, base, w)
  BY <1>1, ScanRun, Zenon
<1>4. f \in [0..n -> S] /\ f[0] = base /\ \A i \in 1..n : f[i] = UnescapeJsonStep(f[i - 1], w[i])
  <2>1. f \in [0..n -> S] /\ f[0] = base /\ \A i \in 1..n : f[i] = step[<<f[i - 1], w[i]>>]
    BY <1>3 DEF IsScan, Follows
  <2>2. \A i \in 1..n : i - 1 \in 0..n
    OBVIOUS
  <2>3. \A i \in 1..n : f[i - 1] \in S /\ w[i] \in Letters
    BY <2>1, <2>2
  <2>4. \A i \in 1..n : step[<<f[i - 1], w[i]>>] = UnescapeJsonStep(f[i - 1], w[i])
    BY <2>3 DEF JsonUnescaper
  <2> QED
    BY <2>1, <2>4
<1>5. IsF(f)
  <2>1. f = [i \in 0..n |-> f[i]]
    BY <1>4
  <2>2. \A i \in 0..n : f[i] = IF i = 0 THEN base ELSE UnescapeJsonStep(f[i - 1], w[i])
    <3>1. \A i \in 0..n : i = 0 \/ i \in 1..n
      BY <1>1
    <3> QED
      BY <1>1, <1>4, <3>1
  <2> QED
    BY <2>1, <2>2, Zenon
<1> HIDE DEF IsF
<1>6. IsF(after)
  BY <1>5, Zenon
<1> HIDE DEF after, n
<1>7. after[0] = f[0] /\ \A k \in 1..n : after[k] = UnescapeJsonStep(after[k - 1], w[k])
  <2>1. \A i \in 0..n : after[i] = IF i = 0 THEN base ELSE UnescapeJsonStep(after[i - 1], w[i])
    BY <1>6, Zenon DEF IsF
  <2>2. 0 \in 0..n /\ \A i \in 1..n : i \in 0..n /\ i # 0
    BY <1>1
  <2> QED
    BY <1>4, <2>1, <2>2, Zenon
<1>8. \A k \in 1..n : after[k - 1] = f[k - 1] => after[k] = f[k]
  BY <1>4, <1>7
<1>9. after[n] = f[n]
  BY <1>1, <1>7, <1>8, SameEnd
<1> QED
  BY <1>1, <1>2, <1>3, <1>9 DEF IsScan, n

LEMMA UnescapedPiece ==
  ASSUME NEW u \in Seq(Letters), NEW x \in Letters
  PROVE  Scan(JsonUnescaper, UnescapedAt(u, FALSE), Backslashed(x)) = UnescapedAt(u \o <<x>>, FALSE)
<1> DEFINE S == UnescapedState
           b == "\\"
           s == UnescapedAt(u, FALSE)
           t == UnescapedAt(u, TRUE)
           r == UnescapedAt(u \o <<x>>, FALSE)
<1>1. b \in Letters /\ Append(u, x) = u \o <<x>>
  BY MarksDiffer
<1>2. s \in S /\ t \in S
  BY <1>1, JsonUnescapeStepIs
<1>3. UnescapeJsonStep(s, b) = t
  BY <1>1, JsonUnescapeStepIs, ZenonT(60)
<1>4. x \in {b, LQuote} => UnescapeJsonStep(t, x) = r
  BY JsonUnescapeStepIs, ZenonT(60)
<1>5. x # b => UnescapeJsonStep(s, x) = r
  <2>1. x # b => UnescapeJsonStep(s, x) = UnescapedAt(Append(u, x), FALSE)
    BY JsonUnescapeStepIs, ZenonT(60)
  <2> QED
    BY <1>1, <2>1
<1> HIDE DEF s, t, r, b, S
<1>6. JsonUnescaper[<<s, b>>] = UnescapeJsonStep(s, b) /\ JsonUnescaper[<<t, x>>] = UnescapeJsonStep(t, x)
      /\ JsonUnescaper[<<s, x>>] = UnescapeJsonStep(s, x)
  BY <1>1, <1>2 DEF JsonUnescaper, S
<1>7. CASE x \in {b, LQuote}
  <2>1. Backslashed(x) = <<b, x>>
    BY <1>7, BackslashedIs DEF b
  <2>2. Scan(JsonUnescaper, s, <<b, x>>) = JsonUnescaper[<<JsonUnescaper[<<s, b>>], x>>]
    BY <1>1, <1>2, ScanTwo, JsonUnescaperSteps DEF S
  <2> QED
    BY <1>3, <1>4, <1>6, <1>7, <2>1, <2>2 DEF s, r
<1>8. CASE x \notin {b, LQuote}
  <2>1. Backslashed(x) = <<x>>
    BY <1>8, BackslashedIs DEF b
  <2>2. Scan(JsonUnescaper, s, <<x>>) = JsonUnescaper[<<s, x>>]
    BY <1>2, ScanOne, JsonUnescaperSteps DEF S
  <2> QED
    BY <1>5, <1>6, <1>8, <2>1, <2>2 DEF s, r
<1> QED
  BY <1>7, <1>8

LEMMA UnescapesBack ==
  ASSUME NEW v \in Seq(Letters)
  PROVE  UnescapeJson(Each(Backslashing, v)) = v
<1> DEFINE T  == Seq(Letters)
           at == [u \in T |-> UnescapedAt(u, FALSE)]
           no == <<>>
           P  == Backslashing
           G  == Singles(Letters)
<1>1. P \in [Letters -> T] /\ Each(P, v) \in T
  BY InQuotesIs
<1>2. G \in [Letters -> T] /\ (\A x \in Letters : G[x] = <<x>>) /\ Each(G, v) = v
  BY SinglesAre, EachSingle
<1>3. no \in T /\ no \o v = v
  BY NothingBefore
<1>4. at \in [T -> UnescapedState]
  <2>1. \A u \in T : UnescapedAt(u, FALSE) \in UnescapedState
    BY DEF UnescapedAt, UnescapedState
  <2> QED
    BY <2>1
<1>5. at[no] = UnescapedAt(no, FALSE) /\ at[v] = UnescapedAt(v, FALSE)
  BY <1>3
<1>6. ASSUME NEW u \in T, NEW i \in 1..Len(v) PROVE Scan(JsonUnescaper, at[u], P[v[i]]) = at[u \o G[v[i]]]
  <2> DEFINE x == v[i]
  <2>1. x \in Letters
    OBVIOUS
  <2> HIDE DEF x
  <2>2. P[x] = Backslashed(x) /\ G[x] = <<x>>
    BY <1>2, <2>1, BackslashedIs
  <2>3. Scan(JsonUnescaper, UnescapedAt(u, FALSE), Backslashed(x)) = UnescapedAt(u \o <<x>>, FALSE)
    BY <2>1, UnescapedPiece
  <2>4. u \o <<x>> \in T
    BY <2>1
  <2> HIDE DEF P, G
  <2> QED
    BY <2>2, <2>3, <2>4 DEF x
<1> HIDE DEF at, no, G
<1>7. ScansEach(UnescapedState, Letters, JsonUnescaper, at, P, G, v)
  BY <1>1, <1>2, <1>4, <1>6, JsonUnescaperSteps, Zenon DEF ScansEach
<1>8. Scan(JsonUnescaper, at[no], Each(P, v)) = at[no \o Each(G, v)]
  <2>1. no \in Seq(Letters)
    BY <1>3
  <2> QED
    BY ONLY <1>7, <2>1, EachScan, SMTT(60)
<1>9. Scan(JsonUnescaper, UnescapedAt(no, FALSE), Each(P, v)) = UnescapedAt(v, FALSE)
  BY <1>2, <1>3, <1>5, <1>8
<1>10. UnescapeJson(Each(P, v)) = Scan(JsonUnescaper, UnescapedAt(no, FALSE), Each(P, v)).out
  BY <1>1, UnescapeJsonIs DEF no
<1>11. UnescapedAt(v, FALSE).out = v
  BY DEF UnescapedAt
<1> QED
  BY <1>9, <1>10, <1>11

-----------------------------------------------------------------------------
(* The words of ARRAY[...] *)

LEMMA WordLetters ==
  /\ {"n", "u", "l", "t", "r", "e", "f", "a", "s"} \cup Digits \subseteq Letters
  /\ ({"n", "u", "l", "t", "r", "e", "f", "a", "s"} \cup Digits)
       \cap {Space, Comma, Open, Close, LQuote, "\\", "[", "]"} = {}
<1>1. {"n", "u", "l", "t", "r", "e", "f", "a", "s"} \cup Digits \subseteq Letters
  BY MarksDiffer
<1>2. \A c \in {"n", "u", "l", "t", "r", "e", "f", "a", "s", "0", "1", "2", "3", "4", "5", "6", "7", "8", "9"} :
        c \notin {Space, Comma, Open, Close, LQuote, "\\", "[", "]"}
  BY ZenonT(60) DEF Space, Comma, Open, Close, LQuote
<1> QED
  BY <1>1, <1>2 DEF Digits

JsonPlain(w) ==
  /\ w \in Seq(Letters) /\ Len(w) > 0
  /\ \A i \in 1..Len(w) : w[i] \in {"n", "u", "l", "t", "r", "e", "f", "a", "s"} \cup Digits

LEMMA JsonPlainIs ==
  ASSUME NEW w, JsonPlain(w)
  PROVE  JsonReads(w) /\ Solid(w) /\ w # <<>> /\ Head(w) # LQuote
<1>1. /\ w \in Seq(Letters) /\ Len(w) \in Nat /\ Len(w) > 0 /\ w # <<>> /\ Head(w) = w[1]
      /\ \A i \in 1..Len(w) : w[i] \notin {Space, Comma, Open, Close, LQuote, "\\", "[", "]"}
  <2>1. w \in Seq(Letters) /\ Len(w) \in Nat /\ Len(w) > 0 /\ w # <<>> /\ Head(w) = w[1]
    BY DEF JsonPlain
  <2>2. \A i \in 1..Len(w) : w[i] \notin {Space, Comma, Open, Close, LQuote, "\\", "[", "]"}
    BY WordLetters DEF JsonPlain
  <2> QED
    BY <2>1, <2>2
<1>2. 1 \in 1..Len(w) /\ Len(w) \in 1..Len(w)
  BY <1>1
<1>3. Solid(w)
  BY <1>1, <1>2, SolidIs
<1>4. JsonReads(w)
  BY <1>1, JsonPlainReads
<1> QED
  BY <1>1, <1>2, <1>3, <1>4

JsonNull  == <<"n", "u", "l", "l">>
JsonTrue  == <<"t", "r", "u", "e">>
JsonFalse == <<"f", "a", "l", "s", "e">>

LEMMA JsonNames ==
  /\ JsonPlain(JsonNull) /\ JsonPlain(JsonTrue) /\ JsonPlain(JsonFalse)
  /\ JsonNull # <<>> /\ JsonTrue # <<>> /\ JsonFalse # <<>>
  /\ JsonTrue \notin {JsonNull, <<"1">>} /\ JsonFalse \notin {JsonNull, <<"0">>}
  /\ \A e : IsNumber(e) => e # JsonNull
<1> DEFINE A == {"n", "u", "l", "t", "r", "e", "f", "a", "s"}
<1>1. A \subseteq Letters /\ A \subseteq A \cup Digits
  BY WordLetters
<1>2. JsonNull \in Seq(A) /\ JsonTrue \in Seq(A) /\ JsonFalse \in Seq(A)
      /\ Len(JsonNull) = 4 /\ Len(JsonTrue) = 4 /\ Len(JsonFalse) = 5
  BY DEF JsonNull, JsonTrue, JsonFalse
<1>3. \A w \in Seq(A) : Len(w) > 0 => JsonPlain(w)
  <2> TAKE w \in Seq(A)
  <2>1. w \in Seq(Letters)
    BY <1>1, Widened
  <2>2. \A i \in 1..Len(w) : w[i] \in A
    OBVIOUS
  <2> QED
    BY <2>1, <2>2 DEF JsonPlain
<1>4. JsonPlain(JsonNull) /\ JsonPlain(JsonTrue) /\ JsonPlain(JsonFalse)
  <2> HIDE DEF A
  <2>1. Len(JsonNull) > 0 /\ Len(JsonTrue) > 0 /\ Len(JsonFalse) > 0
    BY <1>2
  <2> QED
    BY <1>2, <1>3, <2>1, Zenon
<1>5. JsonTrue[1] = "t" /\ JsonNull[1] = "n" /\ JsonFalse[1] = "f"
  BY DEF JsonNull, JsonTrue, JsonFalse
<1>6. Len(<<"0">>) = 1 /\ Len(<<"1">>) = 1 /\ Len(<<>>) = 0 /\ "t" # "n" /\ "f" # "n"
  OBVIOUS
<1>7. JsonTrue \notin {JsonNull, <<"1">>} /\ JsonFalse \notin {JsonNull, <<"0">>}
      /\ JsonNull # <<>> /\ JsonTrue # <<>> /\ JsonFalse # <<>>
  <2> DEFINE zero == <<"0">>
             one  == <<"1">>
             no   == <<>>
  <2>1. Len(zero) = 1 /\ Len(one) = 1 /\ Len(no) = 0
    BY <1>6
  <2> HIDE DEF zero, one, no
  <2> QED
    BY <1>2, <1>5, <1>6, <2>1 DEF zero, one, no
<1>9. ASSUME NEW e, IsNumber(e) PROVE e # JsonNull
  <2> SUFFICES ASSUME e = JsonNull PROVE FALSE
    OBVIOUS
  <2>1. "n" \in CharsOf(JsonNull)
    <3>1. 1 \in DOMAIN JsonNull
      BY DEF JsonNull
    <3> QED
      BY <1>5, <3>1 DEF CharsOf, ToSet
  <2>2. "n" \in Digits
    BY <1>9, <2>1 DEF IsNumber
  <2> QED
    BY <2>2 DEF Digits
<1> QED
  BY <1>4, <1>7, <1>9

LEMMA JsonElementIs ==
  /\ JsonElement(JsonNull) = None
  /\ \A w : w # <<>> /\ w # JsonNull /\ Head(w) # LQuote => JsonElement(w) = w
  /\ \A w : w # <<>> /\ w # JsonNull /\ Head(w) = LQuote /\ Last(w) = LQuote => JsonElement(w) = UnescapeJson(Inside(w))
<1> DEFINE no == <<>>
<1>1. \A w : JsonElement(w) = CASE w = no \/ w = JsonNull -> None
                                [] w # no /\ Head(w) = LQuote /\ Last(w) = LQuote -> UnescapeJson(Inside(w))
                                [] OTHER -> w
  BY Zenon DEF JsonElement, JsonNull
<1>2. Head(JsonNull) # LQuote
  BY JsonNames, JsonPlainIs
<1> HIDE DEF no
<1>3. JsonElement(JsonNull) = None
  BY <1>1, <1>2
<1>4. \A w : w # no /\ w # JsonNull /\ Head(w) # LQuote => JsonElement(w) = w
  BY <1>1
<1>5. \A w : w # no /\ w # JsonNull /\ Head(w) = LQuote /\ Last(w) = LQuote => JsonElement(w) = UnescapeJson(Inside(w))
  BY <1>1
<1> QED
  BY <1>3, <1>4, <1>5 DEF no

LEMMA JsonWordIs ==
  ASSUME NEW e \in Element
  PROVE  /\ JsonReads(JsonFromSql(e)) /\ Solid(JsonFromSql(e))
         /\ JsonElement(JsonFromSql(e)) = e <=> Survives(e, "array")
<1> DEFINE one  == <<"1">>
           zero == <<"0">>
<1>1. JsonFromSql(e) = IF e = None THEN JsonNull
                       ELSE CASE e = one -> JsonTrue
                              [] e = zero -> JsonFalse
                              [] IsNumber(e) /\ e # one -> e
                              [] OTHER -> InQuotes(e)
  BY Zenon DEF JsonFromSql, JsonNull, JsonTrue, JsonFalse
<1>2. Survives(e, "array") <=> (e # None => e # one /\ e # zero)
  BY SurvivesIs
<1>3. Len(one) = 1 /\ Head(zero) = "0" /\ one # zero
  <2>1. one[1] = "1" /\ zero[1] = "0" /\ "1" # "0"
    OBVIOUS
  <2> QED
    BY <2>1
<1>4. e # None => e \in Seq(Letters)
  BY ElementIs
<1> HIDE DEF one, zero
<1>5. CASE e = None
  <2>1. JsonFromSql(e) = JsonNull
    BY <1>1, <1>5
  <2>2. JsonReads(JsonNull) /\ Solid(JsonNull)
    BY JsonNames, JsonPlainIs
  <2> QED
    BY <1>2, <1>5, <2>1, <2>2, JsonElementIs
<1>6. CASE e # None /\ e = one
  <2>1. JsonFromSql(e) = JsonTrue
    <3>1. e # zero
      BY <1>3, <1>6
    <3> QED
      BY <1>1, <1>6, <3>1, Zenon
  <2>2. JsonReads(JsonTrue) /\ Solid(JsonTrue) /\ JsonTrue # <<>> /\ Head(JsonTrue) # LQuote
    BY JsonNames, JsonPlainIs
  <2>3. JsonTrue # JsonNull /\ JsonTrue # one
    BY JsonNames DEF one
  <2>4. JsonElement(JsonTrue) = JsonTrue
    BY <2>2, <2>3, JsonElementIs
  <2> QED
    BY <1>2, <1>6, <2>1, <2>2, <2>3, <2>4
<1>7. CASE e # None /\ e = zero
  <2>1. JsonFromSql(e) = JsonFalse
    <3>1. e # one
      BY <1>3, <1>7, Zenon
    <3>2. ~IsNumber(e)
      BY <1>3, <1>7 DEF IsNumber
    <3> QED
      BY <1>1, <1>7, <3>1, <3>2, Zenon
  <2>2. JsonReads(JsonFalse) /\ Solid(JsonFalse) /\ JsonFalse # <<>> /\ Head(JsonFalse) # LQuote
    BY JsonNames, JsonPlainIs
  <2>3. JsonFalse # JsonNull /\ JsonFalse # zero
    BY JsonNames DEF zero
  <2>4. JsonElement(JsonFalse) = JsonFalse
    BY <2>2, <2>3, JsonElementIs
  <2> QED
    BY <1>2, <1>7, <2>1, <2>2, <2>3, <2>4
<1>8. CASE e # None /\ e # one /\ e # zero /\ IsNumber(e)
  <2>1. JsonFromSql(e) = e
    <3>1. e # None /\ ~(e = one) /\ ~(e = zero) /\ IsNumber(e) /\ e # one
      BY <1>8
    <3> QED
      BY <1>1, <3>1, SMTT(60)
  <2>2. JsonPlain(e)
    <3>1. e \in Seq(Letters) /\ Len(e) > 0
      <4>1. e \in Seq(Letters) /\ e # <<>>
        BY <1>4, <1>8 DEF IsNumber
      <4> QED
        BY <4>1
    <3>2. \A i \in 1..Len(e) : e[i] \in Digits
      BY <1>8, <3>1, CharsAre DEF IsNumber
    <3> QED
      BY <3>1, <3>2 DEF JsonPlain
  <2>3. JsonReads(e) /\ Solid(e) /\ e # <<>> /\ Head(e) # LQuote
    BY <2>2, JsonPlainIs
  <2>4. e # JsonNull
    BY <1>8, JsonNames
  <2>5. JsonElement(e) = e
    BY <2>3, <2>4, JsonElementIs
  <2> QED
    BY <1>2, <1>8, <2>1, <2>3, <2>5
<1>9. CASE e # None /\ e # one /\ e # zero /\ ~IsNumber(e)
  <2> DEFINE w == InQuotes(e)
             b == Each(Backslashing, e)
  <2>1. JsonFromSql(e) = w
    BY <1>1, <1>9
  <2>2. e \in Seq(Letters)
    BY <1>4, <1>9
  <2>3. w = Framed(LQuote, b, LQuote) /\ b \in Seq(Letters) /\ LQuote \in Letters
    BY <2>2, InQuotesIs DEF Framed
  <2>4. LQuote # Space
    BY MarksDiffer
  <2> HIDE DEF w, b
  <2>5. Solid(w) /\ w # <<>> /\ Head(w) = LQuote /\ Last(w) = LQuote /\ Inside(w) = b
    BY <2>3, <2>4, FramedIs
  <2>6. JsonReads(w)
    BY <2>2, JsonQuotedReads DEF w
  <2>7. w # JsonNull
    BY <2>5, JsonNames, JsonPlainIs
  <2>8. UnescapeJson(b) = e
    BY <2>2, UnescapesBack DEF b
  <2>9. JsonElement(w) = e
    BY <2>5, <2>7, <2>8, JsonElementIs
  <2> QED
    BY <1>2, <1>9, <2>1, <2>5, <2>6, <2>9
<1> QED
  BY <1>5, <1>6, <1>7, <1>8, <1>9

AllSurvive(v, f) == \A j \in 1..Len(v) : Survives(v[j], f)

LEMMA ArrayExprReads ==
  ASSUME NEW v \in Seq(Element), NEW text, text = ArrayExpr(v)
  PROVE  /\ text \in Seq(Letters) /\ text # <<>> /\ Head(text) = "["
         /\ RowsOf(text) = <<v>> <=> AllSurvive(v, "array")
<1> DEFINE n  == Len(v)
           no == <<>>
           ws == [i \in DOMAIN v |-> JsonFromSql(v[i])]
           w  == Joined(ws)
           T  == Seq(Letters)
<1>1. n \in Nat /\ DOMAIN v = 1..n /\ \A j \in 1..n : v[j] \in Element
  OBVIOUS
<1>2. /\ ws \in Seq(T) /\ Len(ws) = n /\ JsonWords(ws) /\ AllSolid(ws)
      /\ \A j \in 1..n : ws[j] = JsonFromSql(v[j])
  <2>1. \A j \in 1..n : JsonFromSql(v[j]) \in T
    BY <1>1, JsonWordIs DEF JsonReads
  <2>2. ws \in Seq(T) /\ Len(ws) = n /\ \A j \in 1..n : ws[j] = JsonFromSql(v[j])
    BY <1>1, <2>1
  <2> HIDE DEF ws
  <2>3. \A j \in 1..Len(ws) : JsonReads(ws[j]) /\ Solid(ws[j])
    BY <1>1, <2>2, JsonWordIs
  <2> QED
    BY <2>2, <2>3 DEF JsonWords, AllSolid
<1>3. w \in T /\ TrimText(w) = w /\ (w = no <=> n = 0)
  <2>1. CASE n = 0
    <3>1. ws = no
      BY <1>2, <2>1
    <3>2. no \in T
      OBVIOUS
    <3> HIDE DEF ws, T
    <3> QED
      BY <2>1, <3>1, <3>2, ReadsNothing
  <2>2. CASE n # 0
    <3>0. Len(ws) > 0
      BY <1>1, <1>2, <2>2
    <3>1. w \in T /\ Solid(w)
      BY <1>2, <3>0, JoinedSolid
    <3> HIDE DEF w
    <3>2. TrimText(w) = w
      BY <3>1, TrimIs
    <3>3. w # no
      BY <3>1, Zenon DEF Solid
    <3> HIDE DEF n, no, T
    <3> QED
      BY <2>2, <3>1, <3>2, <3>3
  <2> QED
    BY <2>1, <2>2
<1>4. text = Framed("[", w, "]")
  BY Zenon DEF ArrayExpr, Framed
<1>5. "[" \in Letters /\ "]" \in Letters /\ "[" # Space /\ "]" # Space
  BY MarksDiffer
<1> HIDE DEF w, ws, no, T
<1>6. text \in T /\ text # <<>> /\ Head(text) = "[" /\ Inside(text) = w /\ TrimText(text) = text
  <2> DEFINE o == "["
             c == "]"
  <2>1. o \in Letters /\ c \in Letters /\ o # Space /\ c # Space /\ text = Framed(o, w, c)
    BY <1>4, <1>5
  <2> HIDE DEF o, c
  <2>2. w \in Seq(Letters)
    BY <1>3 DEF T
  <2>3. /\ Framed(o, w, c) \in Seq(Letters) /\ Framed(o, w, c) # <<>> /\ Head(Framed(o, w, c)) = o
        /\ Inside(Framed(o, w, c)) = w /\ TrimText(Framed(o, w, c)) = Framed(o, w, c)
    BY <2>1, <2>2, FramedIs, ZenonT(60)
  <2>4. /\ text \in T /\ text # <<>> /\ Head(text) = o
        /\ Inside(text) = w /\ TrimText(text) = text
    BY <2>1, <2>3, Zenon DEF T
  <2> QED
    BY <2>4 DEF o
<1>7. ParseArray(text) = ParseJsonArray(text)
  BY <1>6, Zenon DEF ParseArray
<1> DEFINE es == [i \in DOMAIN JsonElements(w) |-> JsonElement(JsonElements(w)[i])]
<1>8. ParseJsonArray(text) = IF w = no THEN EmptyArray ELSE OneD(es)
  BY <1>3, <1>6, Zenon DEF ParseJsonArray, no
<1>9. CASE n = 0
  <2>1. RowsOf(text) = <<no>> /\ v = no /\ AllSurvive(v, "array")
    BY <1>1, <1>3, <1>7, <1>8, <1>9 DEF RowsOf, EmptyArray, AllSurvive, no
  <2> QED
    BY <1>6, <2>1 DEF T
<1>10. CASE n # 0
  <2>1. RowsOf(text) = <<es>>
    BY <1>3, <1>7, <1>8, <1>10 DEF RowsOf, OneD
  <2>2. JsonElements(w) = ws
    BY <1>1, <1>2, <1>10, JsonRow DEF w
  <2>3. es = [i \in 1..n |-> JsonElement(JsonFromSql(v[i]))]
    <3>1. DOMAIN ws = 1..n
      BY <1>2 DEF T
    <3> QED
      BY <1>2, <2>2, <3>1
  <2> HIDE DEF es
  <2>4. \A i \in 1..n : es[i] = v[i] <=> Survives(v[i], "array")
    BY <1>1, <2>3, JsonWordIs
  <2>5. es = v <=> \A i \in 1..n : es[i] = v[i]
    <3>1. v = [i \in 1..n |-> v[i]]
      BY <1>1
    <3> QED
      BY <2>3, <3>1
  <2>6. es = v <=> AllSurvive(v, "array")
    BY <2>4, <2>5 DEF AllSurvive
  <2>7. <<es>> = <<v>> <=> es = v
    OBVIOUS
  <2> QED
    BY <1>6, <2>1, <2>6, <2>7 DEF T
<1> QED
  BY <1>9, <1>10

-----------------------------------------------------------------------------
(* Reading the rows of a nested array *)

RowsState == [rows : Seq(Seq(Letters)), current : Seq(Letters), quoted : BOOLEAN, depth : Int]

RowsAt(rs, current, quoted, depth) ==
  [rows |-> rs, current |-> current, quoted |-> quoted, depth |-> depth]

RowsReader == [p \in RowsState \X Letters |-> PgRowsStep(p[1], p[2])]

LEMMA RowsStepIs ==
  ASSUME NEW rs \in Seq(Seq(Letters)), NEW u \in Seq(Letters), NEW q \in BOOLEAN, NEW d \in Int, NEW c \in Letters
  PROVE  /\ c = LQuote /\ (~q \/ d = 0) => PgRowsStep(RowsAt(rs, u, q, d), c) = RowsAt(rs, Append(u, c), ~q, d)
         /\ c = Open /\ ~q => PgRowsStep(RowsAt(rs, u, q, d), c) = RowsAt(rs, Append(u, c), q, d + 1)
         /\ c = Close /\ ~q /\ d = 1 =>
              PgRowsStep(RowsAt(rs, u, q, d), c) = RowsAt(Append(rs, TrimText(Append(u, c))), <<>>, q, 0)
         /\ c = Close /\ ~q /\ d # 1 => PgRowsStep(RowsAt(rs, u, q, d), c) = RowsAt(rs, Append(u, c), q, d - 1)
         /\ c = Comma /\ ~q /\ d = 0 => PgRowsStep(RowsAt(rs, u, q, d), c) = RowsAt(rs, u, q, d)
         /\ (c = LQuote => q /\ d # 0) /\ (c \in {Open, Close} => q) /\ (c = Comma => q \/ d # 0) =>
              PgRowsStep(RowsAt(rs, u, q, d), c) = RowsAt(rs, Append(u, c), q, d)
<1>1. LQuote \notin {Open, Close, Comma} /\ Open \notin {Close, Comma} /\ Close # Comma
  BY MarksDiffer
<1> QED
  BY <1>1 DEF PgRowsStep, RowsAt

LEMMA RowsStates ==
  ASSUME NEW rs \in Seq(Seq(Letters)), NEW u \in Seq(Letters), NEW q \in BOOLEAN, NEW d \in Int
  PROVE  RowsAt(rs, u, q, d) \in RowsState
BY DEF RowsAt, RowsState

LEMMA RowsReaderSteps == RowsReader \in Steps(RowsState, Letters)
<1>1. ASSUME NEW s \in RowsState, NEW c \in Letters PROVE PgRowsStep(s, c) \in RowsState
  <2> DEFINE rs == s.rows
             u  == s.current
             q  == s.quoted
             d  == s.depth
  <2>1. s = RowsAt(rs, u, q, d) /\ rs \in Seq(Seq(Letters)) /\ u \in Seq(Letters) /\ q \in BOOLEAN /\ d \in Int
    BY DEF RowsAt, RowsState
  <2> HIDE DEF rs, u, q, d
  <2> DEFINE no == <<>>
             T  == Seq(Letters)
             w  == Append(u, c)
             x  == TrimText(w)
             el == Append(rs, x)
  <2>2. no \in T /\ x \in T /\ w \in T /\ (~q) \in BOOLEAN /\ d + 1 \in Int /\ d - 1 \in Int /\ 0 \in Int
    <3>1. no \in T /\ w \in T
      BY <2>1
    <3>2. (~q) \in BOOLEAN /\ d + 1 \in Int /\ d - 1 \in Int /\ 0 \in Int
      BY <2>1
    <3> HIDE DEF w
    <3>3. x \in T
      BY <3>1, TrimIs
    <3> QED
      BY <3>1, <3>2, <3>3
  <2>3. el \in Seq(T)
    <3> HIDE DEF x, T
    <3> QED
      BY <2>1, <2>2 DEF T
  <2> HIDE DEF no, el, w
  <2>5. /\ RowsAt(rs, w, q, d) \in RowsState /\ RowsAt(rs, w, ~q, d) \in RowsState
        /\ RowsAt(rs, w, q, d + 1) \in RowsState /\ RowsAt(rs, w, q, d - 1) \in RowsState
        /\ RowsAt(el, no, q, 0) \in RowsState /\ RowsAt(rs, u, q, d) \in RowsState
    BY <2>1, <2>2, <2>3, RowsStates
  <2> DEFINE r == PgRowsStep(RowsAt(rs, u, q, d), c)
  <2>6. /\ c = LQuote /\ (~q \/ d = 0) => r = RowsAt(rs, w, ~q, d)
        /\ c = Open /\ ~q => r = RowsAt(rs, w, q, d + 1)
        /\ c = Close /\ ~q /\ d = 1 => r = RowsAt(el, no, q, 0)
        /\ c = Close /\ ~q /\ d # 1 => r = RowsAt(rs, w, q, d - 1)
        /\ c = Comma /\ ~q /\ d = 0 => r = RowsAt(rs, u, q, d)
        /\ (c = LQuote => q /\ d # 0) /\ (c \in {Open, Close} => q) /\ (c = Comma => q \/ d # 0) => r = RowsAt(rs, w, q, d)
    BY <2>1, RowsStepIs, ZenonT(60) DEF el, no, w
  <2> HIDE DEF r
  <2>7. r \in RowsState
    BY <2>5, <2>6, ZenonT(60)
  <2> QED
    BY <2>1, <2>7 DEF r
<1> QED
  BY <1>1 DEF RowsReader, Steps

LEMMA RowsReaderIs ==
  ASSUME NEW rs \in Seq(Seq(Letters)), NEW u \in Seq(Letters), NEW q \in BOOLEAN, NEW d \in Int, NEW c \in Letters
  PROVE  /\ RowsAt(rs, u, q, d) \in RowsState
         /\ RowsReader[<<RowsAt(rs, u, q, d), c>>] = PgRowsStep(RowsAt(rs, u, q, d), c)
<1> DEFINE s == RowsAt(rs, u, q, d)
<1>1. s \in RowsState
  BY RowsStates
<1> HIDE DEF s
<1> QED
  BY <1>1 DEF RowsReader, s

LEMMA PgRowsAre ==
  ASSUME NEW w \in Seq(Letters)
  PROVE  PgRows(w) = Scan(RowsReader, RowsAt(<<>>, <<>>, FALSE, 0), w).rows /\ RowsAt(<<>>, <<>>, FALSE, 0) \in RowsState
<1> DEFINE n    == Len(w)
           base == [rows |-> <<>>, current |-> <<>>, quoted |-> FALSE, depth |-> 0]
           S    == RowsState
           step == RowsReader
           IsF(h) == h = [i \in 0..n |-> IF i = 0 THEN base ELSE PgRowsStep(h[i - 1], w[i])]
           after  == CHOOSE h : IsF(h)
<1>1. Scans(S, Letters, step, base, w) /\ n \in Nat /\ base \in S /\ base = RowsAt(<<>>, <<>>, FALSE, 0)
  <2>1. base \in S
    BY DEF RowsState
  <2>2. base = RowsAt(<<>>, <<>>, FALSE, 0)
    BY DEF RowsAt
  <2> HIDE DEF base
  <2>3. Scans(S, Letters, step, base, w)
    BY <2>1, RowsReaderSteps, Zenon DEF Scans
  <2>4. n \in Nat
    OBVIOUS
  <2> QED
    BY <2>1, <2>2, <2>3, <2>4, Zenon
<1>2. PgRows(w) = after[n].rows
  BY Zenon DEF PgRows
<1> HIDE DEF base
<1>3. PICK f : IsScan(f, S, step, base, w)
  BY <1>1, ScanRun, Zenon
<1>4. f \in [0..n -> S] /\ f[0] = base /\ \A i \in 1..n : f[i] = PgRowsStep(f[i - 1], w[i])
  <2>1. f \in [0..n -> S] /\ f[0] = base /\ \A i \in 1..n : f[i] = step[<<f[i - 1], w[i]>>]
    BY <1>3 DEF IsScan, Follows
  <2>2. \A i \in 1..n : i - 1 \in 0..n
    OBVIOUS
  <2>3. \A i \in 1..n : f[i - 1] \in S /\ w[i] \in Letters
    BY <2>1, <2>2
  <2>4. \A i \in 1..n : step[<<f[i - 1], w[i]>>] = PgRowsStep(f[i - 1], w[i])
    BY <2>3 DEF RowsReader
  <2> QED
    BY <2>1, <2>4
<1>5. IsF(f)
  <2>1. f = [i \in 0..n |-> f[i]]
    BY <1>4
  <2>2. \A i \in 0..n : f[i] = IF i = 0 THEN base ELSE PgRowsStep(f[i - 1], w[i])
    <3>1. \A i \in 0..n : i = 0 \/ i \in 1..n
      BY <1>1
    <3> QED
      BY <1>1, <1>4, <3>1
  <2> QED
    BY <2>1, <2>2, Zenon
<1> HIDE DEF IsF
<1>6. IsF(after)
  BY <1>5, Zenon
<1> HIDE DEF after, n
<1>7. after[0] = f[0] /\ \A k \in 1..n : after[k] = PgRowsStep(after[k - 1], w[k])
  <2>1. \A i \in 0..n : after[i] = IF i = 0 THEN base ELSE PgRowsStep(after[i - 1], w[i])
    BY <1>6, Zenon DEF IsF
  <2>2. 0 \in 0..n /\ \A i \in 1..n : i \in 0..n /\ i # 0
    BY <1>1
  <2> QED
    BY <1>4, <2>1, <2>2, Zenon
<1>8. \A k \in 1..n : after[k - 1] = f[k - 1] => after[k] = f[k]
  BY <1>4, <1>7
<1>9. after[n] = f[n]
  BY <1>1, <1>7, <1>8, SameEnd
<1> QED
  BY <1>1, <1>2, <1>3, <1>9 DEF IsScan, n

-----------------------------------------------------------------------------
(* The state between two rows, inside of one, and after a quote in one *)

BetweenRows(rs) == RowsAt(rs, <<>>, FALSE, 0)
Within(rs)  == {RowsAt(rs, u, FALSE, 1) : u \in Seq(Letters)}
Stuck(rs)   == {RowsAt(rs, u, TRUE, 1) : u \in Seq(Letters)}

LEMMA RowsReaderAt ==
  ASSUME NEW rs \in Seq(Seq(Letters)), NEW u \in Seq(Letters), NEW c \in Letters
  PROVE  /\ RowsReader[<<RowsAt(rs, u, TRUE, 1), c>>] = PgRowsStep(RowsAt(rs, u, TRUE, 1), c)
         /\ RowsReader[<<RowsAt(rs, u, FALSE, 1), c>>] = PgRowsStep(RowsAt(rs, u, FALSE, 1), c)
         /\ RowsReader[<<BetweenRows(rs), c>>] = PgRowsStep(BetweenRows(rs), c)
         /\ BetweenRows(rs) \in RowsState /\ RowsAt(rs, u, TRUE, 1) \in RowsState /\ RowsAt(rs, u, FALSE, 1) \in RowsState
<1> DEFINE a == RowsAt(rs, u, TRUE, 1)
           b == RowsAt(rs, u, FALSE, 1)
           e == BetweenRows(rs)
<1>1. a \in RowsState /\ b \in RowsState
  BY DEF RowsAt, RowsState
<1>2. e \in RowsState
  BY DEF RowsAt, RowsState, BetweenRows
<1> HIDE DEF a, b, e
<1>3. RowsReader[<<a, c>>] = PgRowsStep(a, c) /\ RowsReader[<<b, c>>] = PgRowsStep(b, c)
      /\ RowsReader[<<e, c>>] = PgRowsStep(e, c)
  BY <1>1, <1>2 DEF RowsReader
<1> QED
  BY <1>1, <1>2, <1>3 DEF a, b, e

LEMMA RowsTurns ==
  ASSUME NEW rs \in Seq(Seq(Letters)), NEW u \in Seq(Letters), NEW c \in Letters
  PROVE  /\ RowsReader[<<RowsAt(rs, u, TRUE, 1), c>>] = RowsAt(rs, Append(u, c), TRUE, 1)
         /\ RowsReader[<<RowsAt(rs, u, FALSE, 1), LQuote>>] = RowsAt(rs, Append(u, LQuote), TRUE, 1)
         /\ c \notin {LQuote, Open, Close} =>
              RowsReader[<<RowsAt(rs, u, FALSE, 1), c>>] = RowsAt(rs, Append(u, c), FALSE, 1)
         /\ RowsReader[<<RowsAt(rs, u, FALSE, 1), Close>>] = BetweenRows(Append(rs, TrimText(Append(u, Close))))
         /\ RowsReader[<<BetweenRows(rs), Open>>] = RowsAt(rs, <<Open>>, FALSE, 1)
         /\ RowsReader[<<BetweenRows(rs), Comma>>] = BetweenRows(rs)
<1>1. /\ LQuote \in Letters /\ Open \in Letters /\ Close \in Letters /\ Comma \in Letters
      /\ LQuote # Open /\ LQuote # Close /\ LQuote # Comma /\ Open # Close /\ Open # Comma /\ Close # Comma
  BY MarksDiffer
<1> DEFINE w == Append(u, c)
<1>2. PgRowsStep(RowsAt(rs, u, TRUE, 1), c) = RowsAt(rs, w, TRUE, 1)
  <2>1. PgRowsStep(RowsAt(rs, u, TRUE, 1), c) = [RowsAt(rs, u, TRUE, 1) EXCEPT !.current = Append(@, c)]
    <3>1. ~(~RowsAt(rs, u, TRUE, 1).quoted) /\ RowsAt(rs, u, TRUE, 1).depth # 0
      BY DEF RowsAt
    <3> QED
      BY <3>1, Zenon DEF PgRowsStep
  <2> QED
    BY <2>1 DEF RowsAt
<1>3. PgRowsStep(RowsAt(rs, u, FALSE, 1), LQuote) = RowsAt(rs, Append(u, LQuote), TRUE, 1)
  BY <1>1 DEF PgRowsStep, RowsAt
<1>4. c \notin {LQuote, Open, Close} => PgRowsStep(RowsAt(rs, u, FALSE, 1), c) = RowsAt(rs, w, FALSE, 1)
  <2> SUFFICES ASSUME c \notin {LQuote, Open, Close}
               PROVE  PgRowsStep(RowsAt(rs, u, FALSE, 1), c) = RowsAt(rs, w, FALSE, 1)
    OBVIOUS
  <2>1. PgRowsStep(RowsAt(rs, u, FALSE, 1), c) = [RowsAt(rs, u, FALSE, 1) EXCEPT !.current = Append(@, c)]
    <3>1. RowsAt(rs, u, FALSE, 1).depth # 0 /\ c # LQuote /\ c # Open /\ c # Close
      BY DEF RowsAt
    <3> QED
      BY <3>1, Zenon DEF PgRowsStep
  <2> QED
    BY <2>1 DEF RowsAt
<1>5. PgRowsStep(RowsAt(rs, u, FALSE, 1), Close) = BetweenRows(Append(rs, TrimText(Append(u, Close))))
  BY <1>1 DEF PgRowsStep, RowsAt, BetweenRows
<1>6. PgRowsStep(BetweenRows(rs), Open) = RowsAt(rs, <<Open>>, FALSE, 1)
  <2> DEFINE no == <<>>
             a  == <<Open>>
  <2>1. Append(no, Open) = a
    OBVIOUS
  <2> HIDE DEF no, a
  <2>2. PgRowsStep(RowsAt(rs, no, FALSE, 0), Open) = RowsAt(rs, a, FALSE, 1)
    <3> DEFINE s == RowsAt(rs, no, FALSE, 0)
    <3>1. s.quoted = FALSE /\ s.current = no /\ s.depth = 0 /\ s.rows = rs
      BY DEF RowsAt
    <3>2. PgRowsStep(s, Open) = [[s EXCEPT !.current = Append(@, Open)] EXCEPT !.depth = @ + 1]
      <4> HIDE DEF s
      <4> QED
        BY <1>1, <3>1, Zenon DEF PgRowsStep
    <3>3. 0 + 1 = 1
      OBVIOUS
    <3> QED
      BY <2>1, <3>2, <3>3 DEF RowsAt
  <2> QED
    BY <2>2 DEF BetweenRows, no, a
<1>7. PgRowsStep(BetweenRows(rs), Comma) = BetweenRows(rs)
  BY <1>1 DEF PgRowsStep, RowsAt, BetweenRows
<1>8. /\ RowsReader[<<RowsAt(rs, u, TRUE, 1), c>>] = PgRowsStep(RowsAt(rs, u, TRUE, 1), c)
      /\ RowsReader[<<RowsAt(rs, u, FALSE, 1), LQuote>>] = PgRowsStep(RowsAt(rs, u, FALSE, 1), LQuote)
      /\ RowsReader[<<RowsAt(rs, u, FALSE, 1), c>>] = PgRowsStep(RowsAt(rs, u, FALSE, 1), c)
      /\ RowsReader[<<RowsAt(rs, u, FALSE, 1), Close>>] = PgRowsStep(RowsAt(rs, u, FALSE, 1), Close)
      /\ RowsReader[<<BetweenRows(rs), Open>>] = PgRowsStep(BetweenRows(rs), Open)
      /\ RowsReader[<<BetweenRows(rs), Comma>>] = PgRowsStep(BetweenRows(rs), Comma)
  BY <1>1, RowsReaderAt, ZenonT(60)
<1> QED
  BY <1>2, <1>3, <1>4, <1>5, <1>6, <1>7, <1>8

LEMMA StatesAre ==
  ASSUME NEW rs \in Seq(Seq(Letters))
  PROVE  /\ BetweenRows(rs) \in RowsState
         /\ \A s \in Within(rs) : s \in RowsState /\ \E u \in Seq(Letters) : s = RowsAt(rs, u, FALSE, 1)
         /\ \A s \in Stuck(rs) : s \in RowsState /\ s.rows = rs /\ \E u \in Seq(Letters) : s = RowsAt(rs, u, TRUE, 1)
<1>1. \A u \in Seq(Letters) : RowsAt(rs, u, TRUE, 1) \in RowsState /\ RowsAt(rs, u, FALSE, 1) \in RowsState
  BY DEF RowsAt, RowsState
<1>2. BetweenRows(rs) \in RowsState
  BY DEF RowsAt, RowsState, BetweenRows
<1>3. \A u \in Seq(Letters) : RowsAt(rs, u, TRUE, 1).rows = rs
  BY DEF RowsAt
<1> QED
  BY <1>1, <1>2, <1>3, Zenon DEF Within, Stuck

\* After a quote nothing is read any more.
LEMMA StuckStays ==
  ASSUME NEW rs \in Seq(Seq(Letters)), NEW s \in Stuck(rs), NEW w \in Seq(Letters)
  PROVE  Scan(RowsReader, s, w) \in Stuck(rs)
<1>1. PICK u \in Seq(Letters) : s = RowsAt(rs, u, TRUE, 1)
  BY Zenon DEF Stuck
<1> DEFINE at == [y \in Seq(Letters) |-> RowsAt(rs, y, TRUE, 1)]
           uw == u \o w
<1>2. at \in [Seq(Letters) -> RowsState]
  <2>1. \A y \in Seq(Letters) : RowsAt(rs, y, TRUE, 1) \in RowsState
    BY DEF RowsAt, RowsState
  <2> QED
    BY <2>1
<1>3. ASSUME NEW y \in Seq(Letters), NEW i \in 1..Len(w) PROVE RowsReader[<<at[y], w[i]>>] = at[Append(y, w[i])]
  <2> DEFINE c == w[i]
  <2>1. c \in Letters
    OBVIOUS
  <2> HIDE DEF c
  <2>2. Append(y, c) \in Seq(Letters)
    BY <2>1
  <2>3. RowsReader[<<RowsAt(rs, y, TRUE, 1), c>>] = RowsAt(rs, Append(y, c), TRUE, 1)
    BY <2>1, RowsTurns, ZenonT(60)
  <2> QED
    BY <2>2, <2>3 DEF c
<1>4. uw \in Seq(Letters)
  OBVIOUS
<1>5. at[u] = s /\ at[uw] = RowsAt(rs, uw, TRUE, 1)
  BY <1>1, <1>4
<1> HIDE DEF at
<1>6. ScansPlain(RowsState, Letters, RowsReader, at, w)
  BY <1>2, <1>3, RowsReaderSteps, Zenon DEF ScansPlain
<1>7. Scan(RowsReader, at[u], w) = at[uw]
  BY ONLY <1>6, u \in Seq(Letters), PlainScan, SMTT(60) DEF uw
<1> HIDE DEF uw
<1> QED
  BY <1>4, <1>5, <1>7, Zenon DEF Stuck

LEMMA WithinPlain ==
  ASSUME NEW rs \in Seq(Seq(Letters)), NEW u \in Seq(Letters), NEW w \in Seq(Letters),
         \A i \in 1..Len(w) : w[i] \notin {LQuote, Open, Close}
  PROVE  Scan(RowsReader, RowsAt(rs, u, FALSE, 1), w) = RowsAt(rs, u \o w, FALSE, 1) /\ u \o w \in Seq(Letters)
<1> DEFINE at == [y \in Seq(Letters) |-> RowsAt(rs, y, FALSE, 1)]
           uw == u \o w
<1>2. at \in [Seq(Letters) -> RowsState]
  <2>1. \A y \in Seq(Letters) : RowsAt(rs, y, FALSE, 1) \in RowsState
    BY DEF RowsAt, RowsState
  <2> QED
    BY <2>1
<1>3. ASSUME NEW y \in Seq(Letters), NEW i \in 1..Len(w) PROVE RowsReader[<<at[y], w[i]>>] = at[Append(y, w[i])]
  <2> DEFINE c == w[i]
  <2>1. c \in Letters /\ c \notin {LQuote, Open, Close}
    OBVIOUS
  <2> HIDE DEF c
  <2>2. Append(y, c) \in Seq(Letters)
    BY <2>1
  <2>3. RowsReader[<<RowsAt(rs, y, FALSE, 1), c>>] = RowsAt(rs, Append(y, c), FALSE, 1)
    BY <2>1, RowsTurns, ZenonT(60)
  <2> QED
    BY <2>2, <2>3 DEF c
<1>4. uw \in Seq(Letters)
  OBVIOUS
<1>5. at[u] = RowsAt(rs, u, FALSE, 1) /\ at[uw] = RowsAt(rs, uw, FALSE, 1)
  BY <1>4
<1> HIDE DEF at
<1>6. ScansPlain(RowsState, Letters, RowsReader, at, w)
  BY <1>2, <1>3, RowsReaderSteps, Zenon DEF ScansPlain
<1>7. Scan(RowsReader, at[u], w) = at[uw]
  BY ONLY <1>6, u \in Seq(Letters), PlainScan, SMTT(60) DEF uw
<1> QED
  BY <1>4, <1>5, <1>7 DEF uw

LEMMA WithinQuoted ==
  ASSUME NEW rs \in Seq(Seq(Letters)), NEW u \in Seq(Letters), NEW v \in Seq(Letters)
  PROVE  Scan(RowsReader, RowsAt(rs, u, FALSE, 1), InQuotes(v)) \in Stuck(rs)
<1> DEFINE s == RowsAt(rs, u, FALSE, 1)
           t == RowsAt(rs, Append(u, LQuote), TRUE, 1)
           a == <<LQuote>>
           b == Each(Backslashing, v)
           R == RowsReader
<1>1. InQuotes(v) = (a \o b) \o a /\ a \in Seq(Letters) /\ b \in Seq(Letters) /\ LQuote \in Letters
  BY InQuotesIs
<1>2. s \in RowsState
  BY DEF RowsAt, RowsState
<1>3. t \in Stuck(rs)
  <2>1. Append(u, LQuote) \in Seq(Letters)
    BY <1>1
  <2> QED
    BY <2>1, Zenon DEF Stuck
<1>4. RowsReader[<<s, LQuote>>] = t
  BY <1>1, RowsTurns, ZenonT(60)
<1> HIDE DEF s, t, b
<1>5. Scan(R, s, a) = t
  BY <1>1, <1>2, <1>4, ScanOne, RowsReaderSteps
<1> HIDE DEF a
<1>6. Scan(R, t, b) \in Stuck(rs)
  BY <1>1, <1>3, StuckStays
<1>7. Scan(R, Scan(R, t, b), a) \in Stuck(rs)
  BY <1>1, <1>6, StuckStays
<1>8. ScansThree(RowsState, Letters, R, s, a, b, a)
  BY <1>1, <1>2, RowsReaderSteps DEF ScansThree
<1>9. Scan(R, s, (a \o b) \o a) = Scan(R, Scan(R, Scan(R, s, a), b), a)
  BY <1>8, ScanThree
<1> QED
  BY <1>1, <1>5, <1>7, <1>9 DEF s

\* A row without quotes is read as it is.
LEMMA RowRead ==
  ASSUME NEW rs \in Seq(Seq(Letters)), NEW w \in Seq(Letters),
         \A i \in 1..Len(w) : w[i] \notin {LQuote, Open, Close},
         NEW row, row = Framed(Open, w, Close)
  PROVE  row \in Seq(Letters) /\ Scan(RowsReader, BetweenRows(rs), row) = BetweenRows(Append(rs, row))
<1> DEFINE s  == BetweenRows(rs)
           o  == <<Open>>
           c  == <<Close>>
           ow == o \o w
           t  == RowsAt(rs, o, FALSE, 1)
           t2 == RowsAt(rs, ow, FALSE, 1)
           R  == RowsReader
<1>1. Open \in Letters /\ Close \in Letters /\ Open # Space /\ Close # Space
  BY MarksDiffer
<1>2. o \in Seq(Letters) /\ c \in Seq(Letters) /\ ow \in Seq(Letters) /\ Append(ow, Close) = row
  <2>1. o \in Seq(Letters) /\ c \in Seq(Letters)
    BY <1>1
  <2> HIDE DEF o
  <2>2. ow \in Seq(Letters)
    BY <2>1
  <2> HIDE DEF ow
  <2>3. Append(ow, Close) = ow \o c
    BY <1>1, <2>2
  <2> QED
    BY <2>1, <2>2, <2>3 DEF Framed, ow, o
<1>3. row \in Seq(Letters) /\ TrimText(row) = row
  BY <1>1, FramedIs
<1>4. s \in RowsState
  BY StatesAre
<1>5. t2 \in RowsState
  BY <1>2, StatesAre DEF RowsAt, RowsState
<1>6. RowsReader[<<s, Open>>] = t
  BY <1>1, <1>2, RowsTurns, ZenonT(60)
<1>7. RowsReader[<<t2, Close>>] = BetweenRows(Append(rs, row))
  <2>1. RowsReader[<<t2, Close>>] = BetweenRows(Append(rs, TrimText(Append(ow, Close))))
    BY <1>1, <1>2, RowsTurns, ZenonT(60)
  <2> QED
    BY <1>2, <1>3, <2>1
<1> HIDE DEF ow
<1>8. Scan(R, t, w) = t2
  <2> HIDE DEF o
  <2>1. Scan(RowsReader, RowsAt(rs, o, FALSE, 1), w) = RowsAt(rs, o \o w, FALSE, 1)
    BY <1>2, WithinPlain
  <2> QED
    BY <2>1 DEF ow
<1> HIDE DEF s, t, t2
<1>9. Scan(R, s, o) = t /\ Scan(R, t2, c) = BetweenRows(Append(rs, row))
  BY <1>1, <1>4, <1>5, <1>6, <1>7, ScanOne, RowsReaderSteps
<1> HIDE DEF o, c
<1>10. ScansThree(RowsState, Letters, R, s, o, w, c)
  BY <1>2, <1>4, RowsReaderSteps DEF ScansThree
<1>11. Scan(R, s, (o \o w) \o c) = Scan(R, Scan(R, Scan(R, s, o), w), c)
  BY <1>10, ScanThree
<1>12. row = (o \o w) \o c
  BY DEF Framed, o, c
<1> QED
  BY <1>3, <1>8, <1>9, <1>11, <1>12 DEF s

\* The states after each of the pieces that are joined, whatever they are.
LEMMA JoinedRun ==
  ASSUME NEW S, NEW X, NEW step \in Steps(S, X), NEW c \in X, NEW ws \in Seq(Seq(X)), NEW q \in S
  PROVE  \E st : ScansJoined(S, X, step, c, ws, st) /\ st[0] = q
<1> DEFINE n  == Len(ws)
           ss == Pieces(ws, c)
           T  == Seq(X)
           by == [p \in S \X T |-> Scan(step, p[1], p[2])]
<1>1. /\ ss \in Seq(T) /\ Len(ss) = n /\ n \in Nat
      /\ \A i \in 1..n : ws[i] \in T /\ ss[i] = IF i = 1 THEN ws[1] ELSE <<c>> \o ws[i]
  BY PiecesAre, SMTT(60)
<1>2. by \in Steps(S, T)
  <2>1. ASSUME NEW s \in S, NEW w \in T PROVE Scan(step, s, w) \in S
    <3>1. Scans(S, X, step, s, w)
      BY DEF Scans
    <3> QED
      BY <3>1, ScanStays
  <2> HIDE DEF T
  <2> QED
    BY <2>1 DEF Steps
<1>3. \A s \in S, w \in T : by[<<s, w>>] = Scan(step, s, w)
  OBVIOUS
<1> HIDE DEF by, ss
<1>4. Scans(S, T, by, q, ss)
  BY <1>1, <1>2 DEF Scans
<1>5. PICK st : IsScan(st, S, by, q, ss)
  BY <1>4, ScanRun, Zenon
<1>6. st \in [0..n -> S] /\ st[0] = q /\ \A k \in 1..n : st[k] = by[<<st[k - 1], ss[k]>>]
  BY <1>1, <1>5 DEF IsScan, Follows
<1>7. ASSUME NEW k \in 1..n PROVE st[k] = Scan(step, IF k = 1 THEN st[0] ELSE step[<<st[k - 1], c>>], ws[k])
  <2>0. k - 1 \in 0..n
    BY <1>1
  <2>1. st[k - 1] \in S /\ ws[k] \in T /\ (k # 1 => ss[k] = <<c>> \o ws[k]) /\ (k = 1 => ss[k] = ws[1])
    <3>1. st[k - 1] \in S
      BY <1>6, <2>0
    <3>2. ws[k] \in T /\ ss[k] = IF k = 1 THEN ws[1] ELSE <<c>> \o ws[k]
      BY <1>1
    <3> QED
      BY <3>1, <3>2, Zenon
  <2>2. ss[k] \in T
    BY <1>1
  <2>3. st[k] = Scan(step, st[k - 1], ss[k])
    BY <1>3, <1>6, <2>1, <2>2
  <2>4. CASE k = 1
    BY <2>1, <2>3, <2>4
  <2>5. CASE k # 1
    <3> DEFINE a == <<c>>
               s == st[k - 1]
               w == ws[k]
    <3>1. a \in T
      OBVIOUS
    <3>2. s \in S /\ w \in T /\ ss[k] = a \o w
      BY <2>1, <2>5
    <3>3. Scan(step, s, a) = step[<<s, c>>]
      <4> HIDE DEF s
      <4> QED
        BY <3>2, ScanOne
    <3> HIDE DEF a, s, w
    <3>4. Scans(S, X, step, s, a) /\ w \in Seq(X)
      BY <3>1, <3>2 DEF Scans, T
    <3>5. Scan(step, s, a \o w) = Scan(step, Scan(step, s, a), w)
      BY <3>4, ScanBoth
    <3>6. st[k] = Scan(step, step[<<s, c>>], w)
      BY <2>3, <3>2, <3>3, <3>5 DEF s
    <3> QED
      BY <2>5, <3>6 DEF s, w
  <2> QED
    BY <2>4, <2>5
<1>8. ScansJoined(S, X, step, c, ws, st)
  BY <1>6, <1>7 DEF ScansJoined
<1> QED
  BY <1>6, <1>8

-----------------------------------------------------------------------------
(* The rows of a nested array as a client writes them *)

Unquoted(e)  == e = None \/ Bare(e)
PlainRow(r)  == \A j \in 1..Len(r) : Unquoted(r[j])
PgTexts(r)   == [i \in DOMAIN r |-> PgText(r[i])]
PgRowText(r) == Framed(Open, Joined(PgTexts(r)), Close)

NoMark(w) == \A i \in 1..Len(w) : w[i] \notin {LQuote, Open, Close}

LEMMA PgTextsAre ==
  ASSUME NEW r \in Seq(Element)
  PROVE  /\ WordsOfRow(r, PgTexts(r)) /\ Joined(PgTexts(r)) \in Seq(Letters)
         /\ Len(PgTexts(r)) = Len(r) /\ Len(r) \in Nat /\ PgTexts(r) \in Seq(Seq(Letters))
         /\ \A j \in 1..Len(r) : r[j] \in Element /\ PgTexts(r)[j] = PgText(r[j]) /\ PgText(r[j]) \in Seq(Letters)
<1> DEFINE n == Len(r)
<1>1. n \in Nat /\ DOMAIN r = 1..n /\ \A j \in 1..n : r[j] \in Element
  OBVIOUS
<1>2. \A j \in 1..n : WordOf(r[j], PgText(r[j])) /\ PgText(r[j]) \in Seq(Letters)
  BY <1>1, PgTextIs DEF WordOf, PgReads
<1>3. PgTexts(r) = [j \in 1..n |-> PgText(r[j])]
  BY <1>1 DEF PgTexts
<1>4. PgTexts(r) \in Seq(Seq(Letters)) /\ Len(PgTexts(r)) = n /\ \A j \in 1..n : PgTexts(r)[j] = PgText(r[j])
  BY <1>1, <1>2, <1>3
<1>5. WordsOfRow(r, PgTexts(r))
  BY <1>2, <1>4 DEF WordsOfRow
<1> QED
  BY <1>1, <1>2, <1>4, <1>5, WordsAreRead

LEMMA UnquotedText ==
  ASSUME NEW e \in Element, Unquoted(e)
  PROVE  NoMark(PgText(e))
<1>1. CASE e = None
  <2>1. PgText(e) = NullText
    BY <1>1 DEF PgText
  <2> QED
    BY <2>1, NullTextIs DEF NoMark
<1>2. CASE e # None
  <2>1. Bare(e) /\ PgText(e) = e
    BY <1>2 DEF PgText, Unquoted
  <2>2. e \in Seq(Letters)
    BY <1>2, ElementIs
  <2>3. \A i \in 1..Len(e) : e[i] \notin {LQuote, Open, Close}
    BY <2>1, <2>2, CharsAre DEF Bare
  <2> QED
    BY <2>1, <2>3 DEF NoMark
<1> QED
  BY <1>1, <1>2

\* A plain row has none of the characters that end or nest it.
LEMMA PlainRowText ==
  ASSUME NEW r \in Seq(Element), PlainRow(r)
  PROVE  NoMark(Joined(PgTexts(r)))
<1> DEFINE X  == Letters \ {LQuote, Open, Close}
           ws == PgTexts(r)
           w  == Joined(ws)
           n  == Len(r)
<1>1. Comma \in X
  BY MarksDiffer
<1>2. /\ Len(ws) = n /\ n \in Nat /\ ws \in Seq(Seq(Letters))
      /\ \A j \in 1..n : ws[j] \in Seq(Letters) /\ NoMark(ws[j])
  <2>1. \A j \in 1..n : NoMark(PgText(r[j]))
    BY PgTextsAre, UnquotedText DEF PlainRow
  <2> QED
    BY <2>1, PgTextsAre
<1>3. \A j \in 1..n : ws[j] \in Seq(X)
  <2> TAKE j \in 1..n
  <2> DEFINE u == ws[j]
  <2>1. u \in Seq(Letters) /\ NoMark(u)
    BY <1>2
  <2> HIDE DEF u
  <2>2. u \in Seq(X)
    BY <2>1 DEF NoMark
  <2> QED
    BY <2>2 DEF u
<1>4. ws \in Seq(Seq(X))
  <2> DEFINE T == Seq(Letters)
             U == Seq(X)
  <2> HIDE DEF T, U, ws
  <2>1. ws \in Seq(T) /\ Len(ws) = n /\ \A j \in 1..n : ws[j] \in U
    BY <1>2, <1>3 DEF T, U
  <2>2. ws \in Seq(U)
    BY <2>1
  <2> QED
    BY <2>2 DEF U
<1> HIDE DEF ws, X
<1>5. w \in Seq(X)
  BY <1>1, <1>4, JoinedIs, PiecesAre
<1> HIDE DEF w
<1>6. \A i \in 1..Len(w) : w[i] \in X
  BY <1>5
<1> QED
  BY <1>6 DEF NoMark, X, w, ws

LEMMA TextWithin ==
  ASSUME NEW rs \in Seq(Seq(Letters)), NEW s \in Within(rs), NEW e \in Element
  PROVE  Scan(RowsReader, s, PgText(e)) \in IF Unquoted(e) THEN Within(rs) ELSE Stuck(rs)
<1>1. PICK u \in Seq(Letters) : s = RowsAt(rs, u, FALSE, 1)
  BY StatesAre
<1> DEFINE w == PgText(e)
<1>2. w \in Seq(Letters)
  BY PgTextIs DEF WordOf, PgReads
<1>3. CASE Unquoted(e)
  <2>1. NoMark(w)
    BY <1>3, UnquotedText
  <2> HIDE DEF w
  <2>2. Scan(RowsReader, RowsAt(rs, u, FALSE, 1), w) = RowsAt(rs, u \o w, FALSE, 1) /\ u \o w \in Seq(Letters)
    BY <1>2, <2>1, WithinPlain DEF NoMark
  <2>3. Scan(RowsReader, s, w) \in Within(rs)
    BY <1>1, <2>2, Zenon DEF Within
  <2> QED
    BY <1>3, <2>3 DEF w
<1>4. CASE ~Unquoted(e)
  <2>1. w = InQuotes(e) /\ e # None
    BY <1>4 DEF PgText, Unquoted
  <2>2. e \in Seq(Letters)
    BY <2>1, ElementIs
  <2>3. Scan(RowsReader, RowsAt(rs, u, FALSE, 1), InQuotes(e)) \in Stuck(rs)
    BY <2>2, WithinQuoted
  <2> QED
    BY <1>1, <1>4, <2>1, <2>3
<1> QED
  BY <1>3, <1>4

LEMMA CommaStays ==
  ASSUME NEW rs \in Seq(Seq(Letters))
  PROVE  /\ \A s \in Within(rs) : RowsReader[<<s, Comma>>] \in Within(rs)
         /\ \A s \in Stuck(rs) : RowsReader[<<s, Comma>>] \in Stuck(rs)
         /\ RowsReader[<<BetweenRows(rs), Comma>>] = BetweenRows(rs)
<1>1. Comma \in Letters /\ Comma \notin {LQuote, Open, Close}
  BY MarksDiffer
<1>2. ASSUME NEW u \in Seq(Letters)
      PROVE  /\ RowsReader[<<RowsAt(rs, u, TRUE, 1), Comma>>] = RowsAt(rs, Append(u, Comma), TRUE, 1)
             /\ RowsReader[<<RowsAt(rs, u, FALSE, 1), Comma>>] = RowsAt(rs, Append(u, Comma), FALSE, 1)
             /\ RowsReader[<<BetweenRows(rs), Comma>>] = BetweenRows(rs)
             /\ Append(u, Comma) \in Seq(Letters)
  <2>1. /\ RowsReader[<<RowsAt(rs, u, TRUE, 1), Comma>>] = RowsAt(rs, Append(u, Comma), TRUE, 1)
        /\ RowsReader[<<RowsAt(rs, u, FALSE, 1), Comma>>] = RowsAt(rs, Append(u, Comma), FALSE, 1)
        /\ RowsReader[<<BetweenRows(rs), Comma>>] = BetweenRows(rs)
    BY <1>1, RowsTurns, ZenonT(60)
  <2> QED
    BY <1>1, <2>1
<1>3. \E u : u \in Seq(Letters)
  <2>1. <<>> \in Seq(Letters)
    OBVIOUS
  <2> QED
    BY <2>1
<1> QED
  BY <1>2, <1>3, Zenon DEF Within, Stuck

\* With an element in quotes, reading gets stuck in the row.
LEMMA RowStuck ==
  ASSUME NEW rs \in Seq(Seq(Letters)), NEW r \in Seq(Element), ~PlainRow(r)
  PROVE  Scan(RowsReader, BetweenRows(rs), PgRowText(r)) \in Stuck(rs)
<1> DEFINE o  == <<Open>>
           z  == <<Close>>
           ws == PgTexts(r)
           w  == Joined(ws)
           q  == RowsAt(rs, o, FALSE, 1)
           n  == Len(r)
           R  == RowsReader
           I  == Within(rs)
           K  == Stuck(rs)
<1>1. Open \in Letters /\ Close \in Letters /\ Comma \in Letters
  BY MarksDiffer
<1>2. o \in Seq(Letters) /\ z \in Seq(Letters)
  BY <1>1
<1>3. q \in I /\ q \in RowsState
  <2>1. q \in I
    BY <1>2 DEF Within
  <2> QED
    BY <2>1, StatesAre
<1>4. /\ w \in Seq(Letters) /\ Len(ws) = n /\ n \in Nat /\ ws \in Seq(Seq(Letters))
      /\ \A j \in 1..n : r[j] \in Element /\ ws[j] = PgText(r[j]) /\ ws[j] \in Seq(Letters)
  BY PgTextsAre
<1>5. Scan(R, BetweenRows(rs), o) = q
  <2>1. RowsReader[<<BetweenRows(rs), Open>>] = RowsAt(rs, <<Open>>, FALSE, 1)
    BY <1>1, <1>2, RowsTurns, ZenonT(60)
  <2>2. BetweenRows(rs) \in RowsState
    BY StatesAre
  <2> HIDE DEF q
  <2>3. Scan(RowsReader, BetweenRows(rs), <<Open>>) = RowsReader[<<BetweenRows(rs), Open>>]
    BY <1>1, <2>2, ScanOne, RowsReaderSteps
  <2> QED
    BY <2>1, <2>3 DEF q
<1> HIDE DEF q, ws
<1>6. PICK st : ScansJoined(RowsState, Letters, R, Comma, ws, st) /\ st[0] = q
  BY <1>1, <1>3, <1>4, RowsReaderSteps, JoinedRun
<1>7. \A k \in 1..n : st[k] = Scan(R, IF k = 1 THEN st[0] ELSE R[<<st[k - 1], Comma>>], ws[k])
  BY <1>4, <1>6 DEF ScansJoined
<1> DEFINE Q == {k \in 0..n : st[k] \in K \/ (st[k] \in I /\ \A j \in 1..k : Unquoted(r[j]))}
<1>8. 0 \in Q
  BY <1>3, <1>4, <1>6
<1>9. ASSUME NEW k \in 0..(n - 1), k \in Q PROVE k + 1 \in Q
  <2> DEFINE i == k + 1
             s == IF i = 1 THEN st[0] ELSE R[<<st[i - 1], Comma>>]
  <2>1. i \in 1..n /\ i \in 0..n /\ i - 1 = k /\ (i = 1 <=> k = 0) /\ \A j \in 1..i : j = i \/ j \in 1..k
    BY <1>4
  <2>2. st[i] = Scan(R, s, ws[i]) /\ r[i] \in Element /\ ws[i] = PgText(r[i]) /\ ws[i] \in Seq(Letters)
    BY <1>4, <1>7, <2>1
  <2> HIDE DEF I, K
  <2>3. CASE st[k] \in K
    <3>1. s \in K
      BY <2>1, <2>3, CommaStays DEF I, K
    <3> HIDE DEF s
    <3>2. st[i] \in K
      BY <2>2, <3>1, StuckStays DEF K
    <3> QED
      BY <2>1, <3>2
  <2>4. CASE st[k] \in I /\ \A j \in 1..k : Unquoted(r[j])
    <3>1. s \in I
      BY <2>1, <2>4, CommaStays DEF I, K
    <3> HIDE DEF s
    <3>2. st[i] \in IF Unquoted(r[i]) THEN I ELSE K
      BY <2>2, <3>1, TextWithin DEF I, K
    <3>3. st[i] \in K \/ (st[i] \in I /\ \A j \in 1..i : Unquoted(r[j]))
      BY <2>1, <2>4, <3>2
    <3> QED
      BY <2>1, <3>3
  <2> QED
    BY <1>9, <2>3, <2>4
<1> HIDE DEF Q
<1>10. \A k \in 0..n : k \in Q
  BY <1>4, <1>8, <1>9, Ladder
<1>11. st[n] \in K
  <2>1. n \in Q
    BY <1>4, <1>10
  <2> QED
    BY <2>1 DEF Q, PlainRow
<1>12. Scan(R, q, w) \in K
  <2>1. Scan(R, st[0], JoinWith(ws, Comma)) = st[Len(ws)]
    BY ONLY <1>6, JoinedScan, SMTT(60)
  <2> QED
    BY <1>4, <1>6, <1>11, <2>1, JoinedIs
<1> HIDE DEF w
<1>13. Scan(R, Scan(R, q, w), z) \in K
  BY <1>2, <1>12, StuckStays
<1> HIDE DEF o, z
<1>14. ScansThree(RowsState, Letters, R, BetweenRows(rs), o, w, z)
  BY <1>2, <1>4, StatesAre, RowsReaderSteps DEF ScansThree
<1>15. Scan(R, BetweenRows(rs), (o \o w) \o z) = Scan(R, Scan(R, Scan(R, BetweenRows(rs), o), w), z)
  BY <1>14, ScanThree
<1>16. PgRowText(r) = (o \o w) \o z
  BY DEF PgRowText, Framed, o, z, w, ws
<1> QED
  BY <1>5, <1>13, <1>15, <1>16

LEMMA PlainRowRead ==
  ASSUME NEW rs \in Seq(Seq(Letters)), NEW r \in Seq(Element)
  PROVE  /\ PgRowText(r) \in Seq(Letters)
         /\ PlainRow(r) => Scan(RowsReader, BetweenRows(rs), PgRowText(r)) = BetweenRows(Append(rs, PgRowText(r)))
<1> DEFINE w == Joined(PgTexts(r))
<1>1. w \in Seq(Letters)
  BY PgTextsAre
<1>2. Open \in Letters /\ Close \in Letters /\ Open # Space /\ Close # Space
  BY MarksDiffer
<1>3. PlainRow(r) => NoMark(w)
  BY PlainRowText
<1>4. PgRowText(r) = Framed(Open, w, Close)
  BY DEF PgRowText
<1> HIDE DEF w
<1>5. PgRowText(r) \in Seq(Letters)
  BY <1>1, <1>2, <1>4, FramedIs
<1>6. ASSUME PlainRow(r) PROVE Scan(RowsReader, BetweenRows(rs), PgRowText(r)) = BetweenRows(Append(rs, PgRowText(r)))
  BY <1>1, <1>3, <1>4, <1>6, RowRead DEF NoMark
<1> QED
  BY <1>5, <1>6

-----------------------------------------------------------------------------
(* All the rows of a nested array *)

PgRowTexts(v) == [i \in DOMAIN v |-> PgRowText(v[i])]
PlainRows(v)  == \A i \in 1..Len(v) : PlainRow(v[i])

LEMMA RowTextsAre ==
  ASSUME NEW v \in Seq(Seq(Element))
  PROVE  /\ PgRowTexts(v) \in Seq(Seq(Letters)) /\ Len(PgRowTexts(v)) = Len(v) /\ Len(v) \in Nat
         /\ \A i \in 1..Len(v) : v[i] \in Seq(Element) /\ PgRowTexts(v)[i] = PgRowText(v[i])
<1> DEFINE T == Seq(Element)
           U == Seq(Letters)
           n == Len(v)
<1>1. v \in Seq(T)
  OBVIOUS
<1> HIDE DEF T, U
<1>2. n \in Nat /\ DOMAIN v = 1..n /\ \A i \in 1..n : v[i] \in T
  BY <1>1
<1>3. \A i \in 1..n : PgRowText(v[i]) \in U
  <2> TAKE i \in 1..n
  <2>1. v[i] \in Seq(Element)
    BY <1>2 DEF T
  <2>2. <<>> \in Seq(Seq(Letters))
    OBVIOUS
  <2> QED
    BY <2>1, <2>2, PlainRowRead DEF U
<1>4. PgRowTexts(v) = [i \in 1..n |-> PgRowText(v[i])]
  BY <1>2 DEF PgRowTexts
<1> HIDE DEF n
<1>5. PgRowTexts(v) \in Seq(U) /\ Len(PgRowTexts(v)) = n /\ \A i \in 1..n : PgRowTexts(v)[i] = PgRowText(v[i])
  BY <1>2, <1>3, <1>4
<1> QED
  BY <1>2, <1>5 DEF T, U, n

\* Plain rows are found as they were written, and of others not all are found.
LEMMA RowsFound ==
  ASSUME NEW v \in Seq(Seq(Element)), NEW w, w = Joined(PgRowTexts(v))
  PROVE  /\ w \in Seq(Letters)
         /\ PlainRows(v) => PgRows(w) = PgRowTexts(v)
         /\ ~PlainRows(v) => PgRows(w) \in Seq(Seq(Letters)) /\ Len(PgRows(w)) < Len(v)
<1> DEFINE ws == PgRowTexts(v)
           n  == Len(v)
           no == <<>>
           q  == BetweenRows(no)
           R  == RowsReader
           T  == Seq(Letters)
<1>1. /\ ws \in Seq(T) /\ Len(ws) = n /\ n \in Nat
      /\ \A i \in 1..n : v[i] \in Seq(Element) /\ ws[i] = PgRowText(v[i]) /\ ws[i] \in T
  <2>1. /\ ws \in Seq(T) /\ Len(ws) = n /\ n \in Nat
        /\ \A i \in 1..n : v[i] \in Seq(Element) /\ ws[i] = PgRowText(v[i])
    BY RowTextsAre
  <2> HIDE DEF T, ws, n
  <2>2. \A i \in 1..n : ws[i] \in T
    BY <2>1
  <2> QED
    BY <2>1, <2>2
<1>2. Comma \in Letters /\ no \in Seq(T)
  BY MarksDiffer
<1>3. q \in RowsState
  BY <1>2, StatesAre
<1> HIDE DEF ws, no, q
<1>4. PICK st : ScansJoined(RowsState, Letters, R, Comma, ws, st) /\ st[0] = q
  BY <1>1, <1>2, <1>3, RowsReaderSteps, JoinedRun
<1>5. \A k \in 1..n : st[k] = Scan(R, IF k = 1 THEN st[0] ELSE R[<<st[k - 1], Comma>>], ws[k])
  BY <1>1, <1>4 DEF ScansJoined
<1> DEFINE Found(k) == st[k] = BetweenRows(SubSeq(ws, 1, k)) /\ \A j \in 1..k : PlainRow(v[j])
           Lost(k)  == (\E rs \in Seq(T) : Len(rs) < k /\ st[k] \in Stuck(rs)) /\ \E j \in 1..k : ~PlainRow(v[j])
           Q == {k \in 0..n : Found(k) \/ Lost(k)}
<1>6. 0 \in Q
  <2>1. SubSeq(ws, 1, 0) = no
    BY <1>1, WholePrefix DEF no
  <2>2. Found(0)
    <3>1. st[0] = BetweenRows(SubSeq(ws, 1, 0))
      BY <1>4, <2>1 DEF q
    <3>2. \A j \in 1..0 : FALSE
      OBVIOUS
    <3> QED
      BY <3>1, <3>2, Zenon
  <2> HIDE DEF Found, Lost
  <2> QED
    BY <1>1, <2>2
<1>7. ASSUME NEW k \in 0..(n - 1), k \in Q PROVE k + 1 \in Q
  <2> DEFINE i == k + 1
             s == IF i = 1 THEN st[0] ELSE R[<<st[i - 1], Comma>>]
  <2>1. /\ i \in 1..n /\ i \in 0..n /\ i - 1 = k /\ (i = 1 <=> k = 0) /\ i \in 1..i
        /\ \A j \in 1..k : j \in 1..i
        /\ \A j \in 1..i : j = i \/ j \in 1..k
    BY <1>1
  <2>2. st[i] = Scan(R, s, ws[i]) /\ v[i] \in Seq(Element) /\ ws[i] = PgRowText(v[i]) /\ ws[i] \in T
    BY <1>1, <1>5, <2>1
  <2>3. CASE Found(k)
    <3> DEFINE rs == SubSeq(ws, 1, k)
    <3>1. rs \in Seq(T) /\ Len(rs) = k /\ SubSeq(ws, 1, i) = Append(rs, ws[i])
      BY <1>1, <2>1, PrefixIs
    <3>2. st[k] = BetweenRows(rs) /\ \A j \in 1..k : PlainRow(v[j])
      BY <2>3
    <3> HIDE DEF rs, Found, Lost
    <3>3. s = BetweenRows(rs)
      BY <2>1, <3>1, <3>2, CommaStays
    <3> HIDE DEF s
    <3>4. CASE PlainRow(v[i])
      <4>1. st[i] = BetweenRows(Append(rs, ws[i]))
        BY <2>2, <3>1, <3>3, <3>4, PlainRowRead
      <4>2. Found(i)
        BY <2>1, <3>1, <3>2, <3>4, <4>1 DEF Found
      <4> QED
        BY <2>1, <4>2
    <3>5. CASE ~PlainRow(v[i])
      <4>1. st[i] \in Stuck(rs)
        BY <2>2, <3>1, <3>3, <3>5, RowStuck
      <4>2. Len(rs) < i
        BY <3>1
      <4>3. Lost(i)
        BY <2>1, <3>1, <3>5, <4>1, <4>2, Zenon DEF Lost
      <4> QED
        BY <2>1, <4>3
    <3> QED
      BY <3>4, <3>5
  <2>4. CASE Lost(k)
    <3>1. PICK rs \in Seq(T) : Len(rs) < k /\ st[k] \in Stuck(rs)
      BY <2>4
    <3>2. PICK j \in 1..k : ~PlainRow(v[j])
      BY <2>4
    <3> HIDE DEF Found, Lost
    <3>3. k # 0
      BY <3>2
    <3>4. s \in Stuck(rs)
      BY <2>1, <3>1, <3>3, CommaStays
    <3> HIDE DEF s
    <3>5. st[i] \in Stuck(rs)
      BY <2>2, <3>1, <3>4, StuckStays
    <3>6. Len(rs) < i
      <4>1. Len(rs) \in Nat
        BY <3>1
      <4> QED
        BY <3>1, <4>1
    <3>7. Lost(i)
      BY <2>1, <3>1, <3>2, <3>5, <3>6, Zenon DEF Lost
    <3> QED
      BY <2>1, <3>7
  <2> HIDE DEF Found, Lost
  <2> QED
    BY <1>7, <2>3, <2>4
<1> HIDE DEF Q
<1>8. \A k \in 0..n : k \in Q
  BY <1>1, <1>6, <1>7, Ladder
<1>9. Found(n) \/ Lost(n)
  <2>1. n \in Q
    BY <1>1, <1>8
  <2> QED
    BY <2>1 DEF Q
<1>10. Scan(R, q, w) = st[n] /\ w \in Seq(Letters)
  <2>1. Scan(R, st[0], JoinWith(ws, Comma)) = st[Len(ws)] /\ JoinWith(ws, Comma) \in Seq(Letters)
    BY ONLY <1>4, JoinedScan, SMTT(60)
  <2> QED
    BY <1>1, <1>4, <2>1, JoinedIs DEF ws
<1>11. PgRows(w) = st[n].rows
  <2>1. PgRows(w) = Scan(RowsReader, RowsAt(<<>>, <<>>, FALSE, 0), w).rows
    BY <1>10, PgRowsAre
  <2> QED
    BY <1>10, <2>1 DEF q, no, BetweenRows
<1>12. CASE Found(n)
  <2>1. SubSeq(ws, 1, n) = ws
    BY <1>1, WholePrefix
  <2>2. BetweenRows(ws).rows = ws
    BY DEF BetweenRows, RowsAt
  <2>3. PlainRows(v)
    BY <1>12 DEF PlainRows
  <2> QED
    BY <1>10, <1>11, <1>12, <2>1, <2>2, <2>3 DEF ws
<1>13. CASE Lost(n)
  <2>1. PICK rs \in Seq(T) : Len(rs) < n /\ st[n] \in Stuck(rs)
    BY <1>13
  <2>2. st[n].rows = rs
    BY <2>1, StatesAre
  <2>3. ~PlainRows(v)
    BY <1>13 DEF PlainRows
  <2> QED
    BY <1>10, <1>11, <2>1, <2>2, <2>3
<1> QED
  BY <1>9, <1>12, <1>13

\* A nested array is read as it was written if all its rows are plain, and
\* otherwise as something else.
LEMMA NestedReads ==
  ASSUME NEW v \in Seq(Seq(Element)), Len(v) > 1, NEW text, text = PgLiteral(v)
  PROVE  /\ text \in Seq(Letters) /\ text # <<>> /\ Head(text) = Open
         /\ RowsOf(text) = v <=> PlainRows(v) /\ \A i \in 1..Len(v) : AllKept(v[i])
<1> DEFINE ws == PgRowTexts(v)
           w  == Joined(ws)
           n  == Len(v)
           no == <<>>
           T  == Seq(Letters)
           U  == Seq(Element)
           R  == PgRows(w)
           es == [i \in DOMAIN R |-> PgElements(TrimText(Inside(R[i])))]
<1>1. Open \in Letters /\ Close \in Letters /\ Open # Space /\ Close # Space /\ Open # "["
  BY MarksDiffer
<1>2. /\ ws \in Seq(T) /\ Len(ws) = n /\ n \in Nat /\ n > 1
      /\ \A i \in 1..n : v[i] \in U /\ ws[i] = PgRowText(v[i])
  BY RowTextsAre
<1>3. ASSUME NEW i \in 1..n
      PROVE  /\ Solid(ws[i]) /\ ws[i][1] = Open
             /\ PgElements(TrimText(Inside(ws[i]))) = v[i] <=> AllKept(v[i])
  <2> DEFINE r == v[i]
             x == Joined(PgTexts(r))
  <2>1. r \in Seq(Element) /\ ws[i] = Framed(Open, x, Close)
    BY <1>2 DEF PgRowText
  <2> HIDE DEF r
  <2>2. WordsOfRow(r, PgTexts(r)) /\ x \in Seq(Letters)
    BY <2>1, PgTextsAre
  <2>3. TrimText(x) = x /\ (PgElements(x) = r <=> AllKept(r))
    BY <2>2, WordsAreRead
  <2> HIDE DEF x
  <2>4. Solid(Framed(Open, x, Close)) /\ Framed(Open, x, Close)[1] = Open /\ Inside(Framed(Open, x, Close)) = x
    BY <1>1, <2>2, FramedIs
  <2> QED
    BY <2>1, <2>3, <2>4 DEF r
<1>4. w \in T /\ Solid(w) /\ w[1] = Open /\ TrimText(w) = w /\ w # no /\ Head(w) = Open
  <2>1. AllSolid(ws) /\ Len(ws) > 0
    BY <1>2, <1>3 DEF AllSolid
  <2>2. w \in T /\ Solid(w) /\ w[1] = ws[1][1]
    BY <2>1, JoinedSolid
  <2>3. 1 \in 1..n
    BY <1>2
  <2> HIDE DEF w, ws
  <2>4. TrimText(w) = w
    BY <2>2, TrimIs
  <2>5. w # no
    BY <2>2 DEF Solid
  <2>6. Head(w) = w[1]
    BY <2>2, <2>5
  <2> QED
    BY <1>3, <2>2, <2>3, <2>4, <2>5, <2>6
<1>5. text = Framed(Open, w, Close)
  <2>1. Len(v) # 1
    <3>1. n \in Nat /\ n > 1
      BY <1>2
    <3> HIDE DEF n
    <3>2. n # 1
      BY <3>1
    <3> QED
      BY <3>2 DEF n
  <2>2. text = <<Open>> \o Joined([i \in DOMAIN v |-> <<Open>> \o Joined([j \in DOMAIN v[i] |-> PgText(v[i][j])]) \o <<Close>>]) \o <<Close>>
    BY <2>1, Zenon DEF PgLiteral
  <2> QED
    BY <2>2, Zenon DEF Framed, PgRowTexts, PgRowText, PgTexts
<1> HIDE DEF w
<1>6. /\ text \in T /\ text # no /\ Head(text) = Open
      /\ Inside(text) = w /\ TrimText(text) = text
  <2>1. w \in Seq(Letters)
    BY <1>4
  <2>2. /\ Framed(Open, w, Close) \in Seq(Letters) /\ Framed(Open, w, Close) # <<>>
        /\ Head(Framed(Open, w, Close)) = Open
        /\ Inside(Framed(Open, w, Close)) = w /\ TrimText(Framed(Open, w, Close)) = Framed(Open, w, Close)
    BY <1>1, <2>1, FramedIs, ZenonT(60)
  <2> QED
    BY <1>5, <2>2, Zenon
<1>7. RowsOf(text) = es
  <2>1. ParseArray(text) = ParsePgArray(text)
    BY <1>1, <1>6, Zenon DEF ParseArray
  <2>2. ParsePgArray(text) = MultiD(es)
    BY <1>4, <1>6, Zenon DEF ParsePgArray
  <2> HIDE DEF es
  <2> QED
    BY <2>1, <2>2 DEF RowsOf, MultiD
<1>8. /\ PlainRows(v) => R = ws
      /\ ~PlainRows(v) => R \in Seq(T) /\ Len(R) < n
  BY RowsFound DEF w
<1> HIDE DEF R, ws
<1>9. CASE PlainRows(v)
  <2>1. R = ws
    BY <1>8, <1>9
  <2>2. es = [i \in 1..n |-> PgElements(TrimText(Inside(ws[i])))]
    <3>1. DOMAIN ws = 1..n
      BY <1>2
    <3> QED
      BY <2>1, <3>1
  <2>3. v = [i \in 1..n |-> v[i]]
    BY <1>2
  <2> HIDE DEF es, n
  <2>4. es = v <=> \A i \in 1..n : PgElements(TrimText(Inside(ws[i]))) = v[i]
    <3>1. ASSUME es = v, NEW i \in 1..n PROVE PgElements(TrimText(Inside(ws[i]))) = v[i]
      <4>1. es[i] = PgElements(TrimText(Inside(ws[i])))
        BY <2>2
      <4> QED
        BY <3>1, <4>1
    <3>2. ASSUME \A i \in 1..n : PgElements(TrimText(Inside(ws[i]))) = v[i] PROVE es = v
      BY <2>2, <2>3, <3>2
    <3> QED
      BY <3>1, <3>2
  <2>5. es = v <=> \A i \in 1..n : AllKept(v[i])
    BY <1>3, <2>4
  <2> QED
    BY <1>6, <1>7, <1>9, <2>5 DEF no, T, n
<1>10. CASE ~PlainRows(v)
  <2>1. R \in Seq(T) /\ Len(R) < n
    BY <1>8, <1>10
  <2>2. Len(R) \in Nat /\ DOMAIN R = 1..Len(R) /\ DOMAIN es = DOMAIN R
    BY <2>1
  <2>3. DOMAIN v = 1..n
    BY <1>2
  <2> HIDE DEF es
  <2>4. es # v
    <3> SUFFICES ASSUME es = v PROVE FALSE
      OBVIOUS
    <3>1. 1..Len(R) = 1..n
      BY <2>2, <2>3
    <3>2. n \in 1..n /\ n \notin 1..Len(R)
      BY <1>2, <2>1, <2>2
    <3> QED
      BY <3>1, <3>2
  <2> QED
    BY <1>6, <1>7, <1>10, <2>4 DEF no, T
<1> QED
  BY <1>9, <1>10

-----------------------------------------------------------------------------
(* What is read of a text that an array is written as *)

LEMMA SetsAre ==
  ASSUME NEW X, NEW s \in Seq(X), NEW S
  PROVE  (\A x \in ToSet(s) : x \in S) <=> \A i \in 1..Len(s) : s[i] \in S
<1>1. DOMAIN s = 1..Len(s)
  OBVIOUS
<1>2. ToSet(s) = {s[i] : i \in 1..Len(s)}
  BY <1>1 DEF ToSet
<1> QED
  BY <1>2

LEMMA RowsSurviveIs ==
  ASSUME NEW v \in Seq(Seq(Element)), NEW f
  PROVE  RowsSurvive(v, f) <=>
           /\ \A i \in 1..Len(v) : AllSurvive(v[i], f)
           /\ Len(v) > 1 => PlainRows(v)
<1> DEFINE T == Seq(Element)
           n == Len(v)
<1>1. n \in Nat /\ DOMAIN v = 1..n /\ \A i \in 1..n : v[i] \in Seq(Element) /\ DOMAIN v[i] = 1..Len(v[i])
  OBVIOUS
<1>2. ToSet(v) = {v[i] : i \in 1..n}
  BY <1>1 DEF ToSet
<1>3. \A i \in 1..n : ToSet(v[i]) = {v[i][j] : j \in 1..Len(v[i])}
  BY <1>1 DEF ToSet
<1> HIDE DEF n
<1>4. (\A r \in ToSet(v) : \A e \in ToSet(r) : Survives(e, f)) <=> \A i \in 1..n : AllSurvive(v[i], f)
  <2>1. (\A r \in ToSet(v) : \A e \in ToSet(r) : Survives(e, f)) <=> \A i \in 1..n : \A e \in ToSet(v[i]) : Survives(e, f)
    BY <1>2, Zenon
  <2>2. \A i \in 1..n : (\A e \in ToSet(v[i]) : Survives(e, f)) <=> AllSurvive(v[i], f)
    BY <1>3, ZenonT(60) DEF AllSurvive
  <2> QED
    BY <2>1, <2>2, Zenon
<1>5. (\A r \in ToSet(v) : \A e \in ToSet(r) : e = None \/ Bare(e)) <=> PlainRows(v)
  <2>1. (\A r \in ToSet(v) : \A e \in ToSet(r) : e = None \/ Bare(e)) <=> \A i \in 1..n : \A e \in ToSet(v[i]) : e = None \/ Bare(e)
    BY <1>2, Zenon
  <2>2. \A i \in 1..n : (\A e \in ToSet(v[i]) : e = None \/ Bare(e)) <=> PlainRow(v[i])
    BY <1>3, Zenon DEF PlainRow, Unquoted
  <2> QED
    BY <2>1, <2>2, Zenon DEF PlainRows, n
<1> QED
  BY <1>4, <1>5 DEF RowsSurvive, n

LEMMA KeptIs == ASSUME NEW r PROVE AllKept(r) <=> AllSurvive(r, "literal")
BY SurvivesIs, Zenon DEF AllKept, AllSurvive

\* An array of one dimension, in braces.
LEMMA WordsInBraces ==
  ASSUME NEW v, NEW ws, WordsOfRow(v, ws), NEW text, text = Framed(Open, Joined(ws), Close)
  PROVE  /\ text \in Seq(Letters) /\ text # <<>> /\ Head(text) = Open
         /\ RowsOf(text) = <<v>> <=> AllKept(v)
<1> DEFINE w == Joined(ws)
<1>1. w \in Seq(Letters) /\ TrimText(w) = w /\ (w # <<>> => w[1] # Open) /\ (PgElements(w) = v <=> AllKept(v))
  BY WordsAreRead
<1> HIDE DEF w
<1>2. text = Framed(Open, w, Close)
  BY DEF w
<1>3. /\ text \in Seq(Letters) /\ text # <<>> /\ Head(text) = Open
      /\ RowsOf(text) = <<PgElements(w)>>
  BY <1>1, <1>2, RowIsRead
<1>4. <<PgElements(w)>> = <<v>> <=> PgElements(w) = v
  OBVIOUS
<1> QED
  BY <1>1, <1>3, <1>4

LEMMA LiteralReads ==
  ASSUME NEW v \in Seq(Seq(Element)), v # <<>>, NEW text, text = PgLiteral(v)
  PROVE  /\ text \in Seq(Letters) /\ text # <<>> /\ Head(text) = Open
         /\ RowsOf(text) = v <=> RowsSurvive(v, "literal")
<1> DEFINE n == Len(v)
           T == Seq(Element)
<1>1. n \in Nat /\ n > 0 /\ \A i \in 1..n : v[i] \in T
  BY SomethingThere
<1>2. RowsSurvive(v, "literal") <=> (\A i \in 1..n : AllKept(v[i])) /\ (n > 1 => PlainRows(v))
  BY RowsSurviveIs, KeptIs
<1>3. CASE n > 1
  BY <1>2, <1>3, NestedReads
<1>4. CASE n = 1
  <2> DEFINE r == v[1]
  <2>1. r \in T /\ v = <<r>>
    BY <1>1, <1>4
  <2>2. text = Framed(Open, Joined(PgTexts(r)), Close)
    <3>1. text = <<Open>> \o Joined([j \in DOMAIN v[1] |-> PgText(v[1][j])]) \o <<Close>>
      BY <1>4, Zenon DEF PgLiteral
    <3> QED
      BY <3>1, Zenon DEF Framed, PgTexts
  <2> HIDE DEF r
  <2>3. WordsOfRow(r, PgTexts(r))
    BY <2>1, PgTextsAre
  <2>4. /\ text \in Seq(Letters) /\ text # <<>> /\ Head(text) = Open
        /\ RowsOf(text) = <<r>> <=> AllKept(r)
    BY <2>2, <2>3, WordsInBraces
  <2>5. RowsSurvive(v, "literal") <=> AllKept(r)
    <3>1. (\A i \in 1..n : AllKept(v[i])) <=> AllKept(v[1])
      BY <1>4
    <3>2. ~(n > 1)
      BY <1>4
    <3> QED
      BY <1>2, <3>1, <3>2 DEF r
  <2> QED
    BY <2>1, <2>4, <2>5
<1> HIDE DEF n
<1>5. n > 1 \/ n = 1
  BY <1>1
<1> QED
  BY <1>3, <1>4, <1>5

LEMMA FunctionReads ==
  ASSUME NEW v \in Seq(Element), AllSurvive(v, "function"), NEW text, text = ToPostgresString(v)
  PROVE  text \in Seq(Letters) /\ text # <<>> /\ Head(text) = Open /\ RowsOf(text) = <<v>>
<1> DEFINE n  == Len(v)
           ws == [i \in DOMAIN v |-> ElementText(v[i])]
<1>1. n \in Nat /\ DOMAIN v = 1..n /\ \A j \in 1..n : v[j] \in Element /\ Survives(v[j], "function")
  BY DEF AllSurvive
<1>2. \A j \in 1..n : WordOf(v[j], ElementText(v[j])) /\ ElementText(v[j]) \in Seq(Letters) /\ KeepsItsText(v[j])
  <2> TAKE j \in 1..n
  <2> DEFINE e == v[j]
  <2>1. e \in Element /\ Survives(e, "function")
    BY <1>1
  <2> HIDE DEF e
  <2>2. WordOf(e, ElementText(e)) /\ KeepsItsText(e)
    BY <2>1, ElementTextIs, SurvivesIs
  <2> QED
    BY <2>2 DEF WordOf, PgReads, e
<1>3. ws \in Seq(Seq(Letters)) /\ Len(ws) = n /\ \A j \in 1..n : ws[j] = ElementText(v[j])
  BY <1>1, <1>2
<1>4. text = Framed(Open, Joined(ws), Close)
  BY Zenon DEF ToPostgresString, Framed
<1> HIDE DEF ws
<1>5. WordsOfRow(v, ws) /\ AllKept(v)
  BY <1>2, <1>3 DEF WordsOfRow, AllKept
<1> QED
  BY <1>4, <1>5, WordsInBraces

LEMMA BracesRead ==
  ASSUME NEW text, text = <<Open, Close>>
  PROVE  text \in Seq(Letters) /\ text # <<>> /\ Head(text) = Open /\ RowsOf(text) = << <<>> >>
<1> DEFINE no == <<>>
           v  == <<>>
<1>1. no \in Seq(Element) /\ no \in Seq(Seq(Letters)) /\ Len(no) = 0
  OBVIOUS
<1>2. Joined(no) = no
  BY ReadsNothing
<1>3. Framed(Open, no, Close) = text
  <2> DEFINE a == <<Open>>
  <2>0. a \o <<Close>> = text
    <3> DEFINE z == <<Close>>
    <3>1. Open \in Letters /\ Close \in Letters
      BY MarksDiffer
    <3>2. /\ a \in Seq(Letters) /\ Len(a) = 1 /\ a[1] = Open
          /\ z \in Seq(Letters) /\ Len(z) = 1 /\ z[1] = Close
          /\ text \in Seq(Letters) /\ Len(text) = 2 /\ text[1] = Open /\ text[2] = Close
      BY <3>1
    <3> HIDE DEF a, z
    <3>3. \A i \in 1..2 : i = 1 \/ i = 2
      OBVIOUS
    <3>4. a \o z \in Seq(Letters) /\ Len(a \o z) = 2 /\ (a \o z)[1] = Open /\ (a \o z)[2] = Close
      <4>1. /\ a \o z \in Seq(Letters) /\ Len(a \o z) = Len(a) + Len(z)
            /\ \A i \in 1..Len(a) : (a \o z)[i] = a[i]
            /\ \A i \in 1..Len(z) : (a \o z)[Len(a) + i] = z[i]
        BY <3>2, TextsJoined
      <4> DEFINE az == a \o z
      <4> HIDE DEF az
      <4>2. az \in Seq(Letters) /\ Len(az) = 2 /\ az[1] = Open /\ az[2] = Close
        <5>1. 1 \in 1..1 /\ 1 + 1 = 2
          OBVIOUS
        <5> QED
          BY <3>2, <4>1, <5>1 DEF az
      <4> QED
        BY <4>2 DEF az
    <3> QED
      BY ONLY <3>2, <3>3, <3>4 DEF z
  <2>1. a \in Seq(Letters)
    <3>1. Open \in Letters
      BY MarksDiffer
    <3> QED
      BY <3>1
  <2> HIDE DEF a
  <2>2. a \o no = a
    BY <2>1, NothingBefore
  <2> QED
    BY <2>0, <2>2 DEF Framed, a
<1> HIDE DEF no
<1>4. WordsOfRow(no, no) /\ AllKept(no)
  BY <1>1 DEF WordsOfRow, AllKept
<1>5. RowsOf(text) = <<no>> /\ text \in Seq(Letters) /\ text # <<>> /\ Head(text) = Open
  BY <1>2, <1>3, <1>4, WordsInBraces
<1> QED
  BY <1>5 DEF no

\* The elements of an array are those of its rows.
LEMMA ElementsAre == ASSUME NEW text PROVE Elements(text) = FlattenSeq(RowsOf(text))
<1> DEFINE a  == ParseArray(text)
           no == <<>>
<1>1. a = EmptyArray \/ a.nd # 0
  <2>1. ASSUME NEW t PROVE ParseJsonArray(t) = EmptyArray \/ ParseJsonArray(t).nd # 0
    BY DEF ParseJsonArray, OneD
  <2>2. ASSUME NEW t PROVE ParsePgArray(t) = EmptyArray \/ ParsePgArray(t).nd # 0
    BY DEF ParsePgArray, OneD, MultiD
  <2> QED
    BY <2>1, <2>2, Zenon DEF ParseArray
<1>2. Elements(text) = FlattenSeq(a.rows) /\ RowsOf(text) = IF a.nd = 0 THEN <<no>> ELSE a.rows
  BY Zenon DEF Elements, Flat, RowsOf
<1> HIDE DEF a
<1>3. FlattenSeq(<<no>>) = no /\ FlattenSeq(no) = no
  <2> DEFINE T == Seq(Letters)
             nn == <<>>
  <2>1. no \in T /\ nn \in Seq(T) /\ Append(nn, no) = <<no>>
    OBVIOUS
  <2> HIDE DEF T, no
  <2>2. FlattenSeq(Append(nn, no)) = FlattenSeq(nn) \o no
    BY <2>1, FlatAppend DEF T
  <2>3. FlattenSeq(nn) = nn /\ nn = no
    BY FlatNone DEF no
  <2>4. no \o no = no
    BY DEF no
  <2> QED
    BY <2>1, <2>2, <2>3, <2>4
<1>4. CASE a = EmptyArray
  <2>1. a.nd = 0 /\ a.rows = no
    BY <1>4 DEF EmptyArray
  <2> QED
    BY <1>2, <1>3, <2>1
<1>5. CASE a.nd # 0
  BY <1>2, <1>5
<1> QED
  BY <1>1, <1>4, <1>5

-----------------------------------------------------------------------------
(* Arrays *)

\* The rows that a text holds, and how it begins.
Holds(text, v) == RowsOf(text) = v /\ text \in Seq(Letters) /\ text # <<>> /\ Head(text) \in {Open, "["}

RowsKept ==
  /\ rows \in Seq(Seq(Element))
  /\ intact => Holds(column, rows)

LEMMA TextsAreElements == Seq(Characters) \subseteq Seq(Letters) /\ Seq(Characters) \cup {None} \subseteq Element
<1>1. Characters \subseteq Letters
  BY MarksDiffer
<1> DEFINE A == Characters
           B == Letters
<1> HIDE DEF A, B
<1>2. A \subseteq B
  BY <1>1 DEF A, B
<1>3. \A s \in Seq(A) : s \in Seq(B)
  BY <1>2, Widened
<1>4. Seq(Characters) \subseteq Seq(Letters)
  BY <1>3 DEF A, B
<1> QED
  BY <1>4 DEF Element

LEMMA WrittenAreRows ==
  ASSUME NEW v \in WrittenArrays
  PROVE  v \in Seq(Seq(Element)) /\ v # <<>>
<1> DEFINE A == Seq(Characters) \cup {None}
           B == Element
           S == Seq(A)
           T == Seq(B)
<1>1. v \in Seq(S) /\ v # <<>>
  BY ArraysAssumption
<1>2. A \subseteq B
  BY TextsAreElements
<1> HIDE DEF A, B
<1>3. S \subseteq T
  BY <1>2, Widened
<1> HIDE DEF S, T
<1>4. v \in Seq(T)
  BY <1>1, <1>3, Widened
<1> QED
  BY <1>1, <1>4 DEF T, B

LEMMA OneRow ==
  ASSUME NEW r \in Seq(Element), NEW f
  PROVE  /\ <<r>> \in Seq(Seq(Element)) /\ <<r>> # <<>>
         /\ RowsSurvive(<<r>>, f) <=> AllSurvive(r, f)
<1> DEFINE v == <<r>>
           T == Seq(Element)
<1>1. r \in T
  OBVIOUS
<1> HIDE DEF T
<1>2. v \in Seq(T) /\ Len(v) = 1 /\ v[1] = r /\ v # <<>>
  BY <1>1
<1> HIDE DEF v
<1>3. RowsSurvive(v, f) <=> (\A i \in 1..Len(v) : AllSurvive(v[i], f)) /\ (Len(v) > 1 => PlainRows(v))
  BY <1>2, RowsSurviveIs DEF T
<1>4. (\A i \in 1..Len(v) : AllSurvive(v[i], f)) <=> AllSurvive(v[1], f)
  BY <1>2
<1>5. ~(Len(v) > 1)
  BY <1>2
<1> QED
  BY <1>2, <1>3, <1>4, <1>5 DEF v, T

LEMMA RowsKeptAtFirst == ArrayInit => RowsKept
<1> SUFFICES ASSUME ArrayInit PROVE RowsKept
  OBVIOUS
<1>1. rows \in Seq(Seq(Element)) /\ rows # <<>>
  BY WrittenAreRows DEF ArrayInit
<1>2. form \in {"literal", "array", "function"} /\ intact = RowsSurvive(rows, form)
  BY DEF ArrayInit
<1>3. ASSUME Len(rows) = 1 PROVE rows[1] \in Seq(Element) /\ rows = <<rows[1]>>
  <2> DEFINE T == Seq(Element)
  <2>1. rows \in Seq(T)
    BY <1>1
  <2> HIDE DEF T
  <2>2. rows[1] \in T /\ rows = <<rows[1]>>
    BY <1>3, <2>1
  <2> QED
    BY <2>2 DEF T
<1> DEFINE r == rows[1]
<1> HIDE DEF r
<1>4. CASE form = "literal"
  <2>1. column = PgLiteral(rows)
    BY <1>4 DEF ArrayInit
  <2>2. /\ column \in Seq(Letters) /\ column # <<>> /\ Head(column) = Open
        /\ RowsOf(column) = rows <=> RowsSurvive(rows, "literal")
    BY <1>1, <2>1, LiteralReads
  <2> QED
    BY <1>1, <1>2, <1>4, <2>2 DEF RowsKept, Holds
<1>5. CASE form = "array"
  <2>1. column = ArrayExpr(rows[1]) /\ Len(rows) = 1
    BY <1>5 DEF ArrayInit
  <2>2. r \in Seq(Element) /\ rows = <<r>> /\ column = ArrayExpr(r)
    BY <1>3, <2>1 DEF r
  <2>3. /\ column \in Seq(Letters) /\ column # <<>> /\ Head(column) = "["
        /\ RowsOf(column) = <<r>> <=> AllSurvive(r, "array")
    BY <2>2, ArrayExprReads
  <2>4. RowsSurvive(rows, "array") <=> AllSurvive(r, "array")
    BY <2>2, OneRow
  <2> QED
    BY <1>1, <1>2, <1>5, <2>2, <2>3, <2>4 DEF RowsKept, Holds
<1>6. CASE form = "function"
  <2>1. column = ToPostgresString(rows[1]) /\ Len(rows) = 1
    BY <1>6 DEF ArrayInit
  <2>2. r \in Seq(Element) /\ rows = <<r>> /\ column = ToPostgresString(r)
    BY <1>3, <2>1 DEF r
  <2>3. RowsSurvive(rows, "function") <=> AllSurvive(r, "function")
    BY <2>2, OneRow
  <2>4. AllSurvive(r, "function") =>
          column \in Seq(Letters) /\ column # <<>> /\ Head(column) = Open /\ RowsOf(column) = <<r>>
    BY <2>2, FunctionReads
  <2> QED
    BY <1>1, <1>2, <1>6, <2>2, <2>3, <2>4 DEF RowsKept, Holds
<1> QED
  BY <1>2, <1>4, <1>5, <1>6

\* What is known of an array before a function changes it.
LEMMA BeforeAChange ==
  ASSUME RowsKept, intact
  PROVE  /\ FlattenSeq(rows) \in Seq(Element) /\ Elements(column) = FlattenSeq(rows)
         /\ ~Blank(column)
<1>1. rows \in Seq(Seq(Element)) /\ Holds(column, rows)
  BY DEF RowsKept
<1>2. FlattenSeq(rows) \in Seq(Element)
  BY <1>1, FlatIsSeq
<1>3. Elements(column) = FlattenSeq(rows)
  BY <1>1, ElementsAre DEF Holds
<1>4. ASSUME column = NullText PROVE FALSE
  <2>1. NullText # <<>> /\ Head(NullText) = "N"
    BY DEF NullText
  <2>2. "N" \notin {Open, "["}
    BY DEF Open
  <2> QED
    BY <1>1, <1>4, <2>1, <2>2 DEF Holds
<1> QED
  BY <1>1, <1>2, <1>3, <1>4 DEF Blank, Holds

\* What a function writes is what it meant to write, unless an element is lost.
Means(text, elems) ==
  elems \in Seq(Element) /\ (AllSurvive(elems, "function") => Holds(text, <<elems>>))

LEMMA FunctionMeans ==
  ASSUME NEW v \in Seq(Element)
  PROVE  Means(ToPostgresString(v), v)
<1> DEFINE t == ToPostgresString(v)
<1>1. AllSurvive(v, "function") => RowsOf(t) = <<v>> /\ t \in Seq(Letters) /\ t # <<>> /\ Head(t) = Open
  BY FunctionReads
<1> HIDE DEF t
<1>2. Means(t, v)
  BY <1>1 DEF Means, Holds
<1> QED
  BY <1>2 DEF t

LEMMA BracesMean == Means(<<Open, Close>>, <<>>)
<1>1. <<>> \in Seq(Element)
  OBVIOUS
<1> QED
  BY <1>1, BracesRead DEF Means, Holds

LEMMA ChangeKeeps ==
  ASSUME NEW args, NEW text, NEW elems, elems \in Seq(Element), Change(args, text, elems),
         NullText \notin args => Means(text, elems)
  PROVE  RowsKept'
<1>1. NullText \notin args => (AllSurvive(elems, "function") => Holds(text, <<elems>>))
  BY DEF Means
<1>2. /\ column' = text /\ rows' = <<elems>>
      /\ intact' => NullText \notin args /\ RowsSurvive(<<elems>>, "function")
  BY DEF Change
<1>3. <<elems>> \in Seq(Seq(Element)) /\ (RowsSurvive(<<elems>>, "function") => AllSurvive(elems, "function"))
  BY OneRow
<1>4. intact' => Holds(text, <<elems>>)
  BY <1>1, <1>2, <1>3
<1> QED
  BY <1>2, <1>3, <1>4 DEF RowsKept, Holds

LEMMA ArgumentsAre ==
  ASSUME NEW e
  PROVE  AsElement(e) # e => e = NullText
BY DEF AsElement

LEMMA ArgsAreElements == Args \subseteq Element
BY TextsAreElements, ArraysAssumption

LEMMA RemovedIs ==
  ASSUME NEW v \in Seq(Element), NEW e
  PROVE  Removed(v, e) \in Seq(Element) /\ (v = <<>> => Removed(v, e) = <<>>)
<1> DEFINE n  == Len(v)
           T  == Seq(Element)
           ps == [i \in DOMAIN v |-> IF v[i] = e THEN <<>> ELSE <<v[i]>>]
<1>1. n \in Nat /\ DOMAIN v = 1..n /\ \A i \in 1..n : <<>> \in T /\ <<v[i]>> \in T
  OBVIOUS
<1>2. ps \in Seq(T)
  <2>1. \A i \in 1..n : (IF v[i] = e THEN <<>> ELSE <<v[i]>>) \in T
    BY <1>1
  <2>2. ps = [i \in 1..n |-> IF v[i] = e THEN <<>> ELSE <<v[i]>>]
    BY <1>1
  <2> HIDE DEF T
  <2> QED
    BY <1>1, <2>1, <2>2
<1>3. Removed(v, e) = FlattenSeq(ps)
  BY Zenon DEF Removed
<1>4. FlattenSeq(ps) \in T
  BY <1>2, FlatIsSeq
<1>5. v = <<>> => ps = <<>>
  BY DOMAIN v = 1..Len(v)
<1> QED
  BY <1>3, <1>4, <1>5, FlatNone

LEMMA ReplacedIs ==
  ASSUME NEW v \in Seq(Element), NEW e, NEW w \in Element
  PROVE  Replaced(v, e, w) \in Seq(Element) /\ (v = <<>> => Replaced(v, e, w) = <<>>)
<1>1. DOMAIN v = 1..Len(v) /\ Len(v) \in Nat
  OBVIOUS
<1>2. Replaced(v, e, w) = [i \in 1..Len(v) |-> IF v[i] = e THEN w ELSE v[i]]
  BY <1>1 DEF Replaced
<1>3. \A i \in 1..Len(v) : (IF v[i] = e THEN w ELSE v[i]) \in Element
  OBVIOUS
<1>4. v = <<>> => Len(v) = 0
  OBVIOUS
<1> QED
  BY <1>1, <1>2, <1>3, <1>4

LEMMA TrimmedIs ==
  ASSUME NEW v \in Seq(Element), NEW n \in 0..Len(v)
  PROVE  SubSeq(v, 1, Len(v) - n) \in Seq(Element) /\ (n >= Len(v) => SubSeq(v, 1, Len(v) - n) = <<>>)
OBVIOUS

LEMMA RowsKeptAtSteps == RowsKept /\ [ChangeArray]_arrayVars => RowsKept'
<1> SUFFICES ASSUME RowsKept, [ChangeArray]_arrayVars PROVE RowsKept'
  OBVIOUS
<1>1. CASE UNCHANGED arrayVars
  BY <1>1 DEF arrayVars, RowsKept
<1>2. CASE ChangeArray
  <2> DEFINE v  == FlattenSeq(rows)
             no == <<>>
  <2>0. intact
    BY <1>2 DEF ChangeArray
  <2>1. v \in Seq(Element) /\ Elements(column) = v /\ ~Blank(column)
    BY <2>0, BeforeAChange
  <2> HIDE DEF v
  <2>2. \A args, answer : UnlessNull(args, answer) # None => UnlessNull(args, answer) = answer
    BY DEF UnlessNull
  <2>3. \/ \E e \in Args :
             \/ Change({e}, ArrayAppend(column, e), Append(v, e))
             \/ Change({e}, ArrayPrepend(e, column), <<e>> \o v)
             \/ Change({e}, ArrayRemove(column, e), Removed(v, e))
             \/ \E new \in Args : Change({e, new}, ArrayReplace(column, e, new), Replaced(v, e, new))
        \/ \E n \in 0..Len(v) : Change({}, TrimArray(column, n), SubSeq(v, 1, Len(v) - n))
        \/ Change({}, ArrayCat(column, column), v \o v)
    BY <1>2, Zenon DEF ChangeArray, v
  <2>4. ASSUME NEW e \in Args, Change({e}, ArrayAppend(column, e), Append(v, e)) PROVE RowsKept'
    <3>1. e \in Element
      BY ArgsAreElements
    <3>2. Append(v, e) \in Seq(Element)
      BY <2>1, <3>1
    <3>3. e # NullText => ArrayAppend(column, e) = ToPostgresString(Append(v, e))
      BY <2>1, <2>2, <2>4, ArgumentsAre DEF ArrayAppend, Change
    <3> QED
      BY <2>4, <3>2, <3>3, FunctionMeans, ChangeKeeps
  <2>5. ASSUME NEW e \in Args, Change({e}, ArrayPrepend(e, column), <<e>> \o v) PROVE RowsKept'
    <3>1. e \in Element
      BY ArgsAreElements
    <3>2. <<e>> \o v \in Seq(Element)
      BY <2>1, <3>1
    <3>3. e # NullText => ArrayPrepend(e, column) = ToPostgresString(<<e>> \o v)
      BY <2>1, <2>2, <2>5, ArgumentsAre DEF ArrayPrepend, Change
    <3> QED
      BY <2>5, <3>2, <3>3, FunctionMeans, ChangeKeeps
  <2>6. ASSUME NEW e \in Args, Change({e}, ArrayRemove(column, e), Removed(v, e)) PROVE RowsKept'
    <3>1. Removed(v, e) \in Seq(Element)
      BY <2>1, RemovedIs
    <3>2. e # NullText => ArrayRemove(column, e) = ToPostgresString(Removed(v, e))
      BY <2>1, <2>2, <2>6, ArgumentsAre DEF ArrayRemove, Change
    <3> QED
      BY <2>6, <3>1, <3>2, FunctionMeans, ChangeKeeps
  <2>7. ASSUME NEW e \in Args, NEW new \in Args,
               Change({e, new}, ArrayReplace(column, e, new), Replaced(v, e, new))
        PROVE  RowsKept'
    <3>1. Replaced(v, e, new) \in Seq(Element)
      BY <2>1, ArgsAreElements, ReplacedIs
    <3>2. e # NullText /\ new # NullText => ArrayReplace(column, e, new) = ToPostgresString(Replaced(v, e, new))
      BY <2>1, <2>2, <2>7, ArgumentsAre DEF ArrayReplace, Change
    <3> QED
      BY <2>7, <3>1, <3>2, FunctionMeans, ChangeKeeps
  <2>8. ASSUME NEW n \in 0..Len(v), Change({}, TrimArray(column, n), SubSeq(v, 1, Len(v) - n)) PROVE RowsKept'
    <3>1. SubSeq(v, 1, Len(v) - n) \in Seq(Element) /\ (n >= Len(v) => SubSeq(v, 1, Len(v) - n) = no)
      BY <2>1, TrimmedIs
    <3>2. TrimArray(column, n) = IF n >= Len(v) THEN <<Open, Close>> ELSE ToPostgresString(SubSeq(v, 1, Len(v) - n))
      BY <2>1, <2>2, <2>8 DEF TrimArray, Change
    <3>3. CASE n >= Len(v)
      BY <2>8, <3>1, <3>2, <3>3, BracesMean, ChangeKeeps
    <3>4. CASE ~(n >= Len(v))
      BY <2>8, <3>1, <3>2, <3>4, FunctionMeans, ChangeKeeps
    <3> QED
      BY <3>3, <3>4
  <2>9. ASSUME Change({}, ArrayCat(column, column), v \o v) PROVE RowsKept'
    <3>1. v \o v \in Seq(Element)
      BY <2>1
    <3>2. ArrayCat(column, column) = ToPostgresString(v \o v)
      BY <2>1, <2>2, <2>9 DEF ArrayCat, Change
    <3> QED
      BY <2>9, <3>1, <3>2, FunctionMeans, ChangeKeeps
  <2> QED
    BY <2>3, <2>4, <2>5, <2>6, <2>7, <2>8, <2>9, Zenon
<1> QED
  BY <1>1, <1>2

LEMMA SetsAreCompared == RowsKept => OperatorsCompareSets
<1> SUFFICES ASSUME RowsKept, intact, NEW e1 \in Args, NEW e2 \in Args
             PROVE  LET other == <<e1, e2>>
                        text  == ToPostgresString(other)
                        L == ToSet(FlattenSeq(rows))
                        R == ToSet(other)
                    IN  /\ None \notin {column, text} \cup (L \cap R)
                        /\ \A e \in R : Survives(e, "function")
                        =>
                          /\ ArrayOverlap(column, text)  <=> (L \cap R) \ {None} # {}
                          /\ ArrayContains(column, text) <=> R \subseteq L \ {None}
                          /\ ArrayContains(text, column) <=> L \subseteq R \ {None}
  BY DEF OperatorsCompareSets
<1> DEFINE other == <<e1, e2>>
           text  == ToPostgresString(other)
           L == ToSet(FlattenSeq(rows))
           R == ToSet(other)
<1> SUFFICES ASSUME \A e \in R : Survives(e, "function"), None \notin {column, text} \cup (L \cap R)
             PROVE  /\ ArrayOverlap(column, text)  <=> (L \cap R) \ {None} # {}
                    /\ ArrayContains(column, text) <=> R \subseteq L \ {None}
                    /\ ArrayContains(text, column) <=> L \subseteq R \ {None}
  OBVIOUS
<1>1. ToSet(Elements(column)) = L
  BY BeforeAChange
<1>2. ToSet(Elements(text)) = R
  <2>1. other \in Seq(Element) /\ Len(other) = 2 /\ DOMAIN other = 1..2
    BY ArgsAreElements
  <2>2. \A j \in 1..2 : other[j] \in R
    BY <2>1 DEF ToSet
  <2> HIDE DEF other, R
  <2>3. AllSurvive(other, "function")
    BY <2>1, <2>2 DEF AllSurvive
  <2>4. RowsOf(text) = <<other>>
    BY <2>1, <2>3, FunctionReads
  <2>5. FlattenSeq(<<other>>) = other
    <3> DEFINE nn == <<>>
               T  == Seq(Element)
    <3>1. other \in T
      BY <2>1
    <3> HIDE DEF T
    <3>2. nn \in Seq(T) /\ Append(nn, other) = <<other>>
      OBVIOUS
    <3> HIDE DEF nn
    <3>3. FlattenSeq(Append(nn, other)) = FlattenSeq(nn) \o other
      BY <3>1, <3>2, FlatAppend DEF T
    <3>4. <<>> \o other = other
      BY <2>1, NothingBefore
    <3> QED
      BY <3>2, <3>3, <3>4, FlatNone DEF nn
  <2>6. Elements(text) = other
    BY <2>4, <2>5, ElementsAre
  <2> QED
    BY <2>6 DEF R
<1> HIDE DEF text, L, R
<1>3. /\ ArrayOverlap(column, text)  <=> L \cap R # {}
      /\ ArrayContains(column, text) <=> R \subseteq L
      /\ ArrayContains(text, column) <=> L \subseteq R
  BY <1>1, <1>2 DEF ArrayOverlap, ArrayContains, UnlessNull
<1> QED
  BY <1>3

\* An array comes back from its column as it was written, by a client or by any
\* number of functions (array/functions.rs, as handler/mod.rs registers them),
\* unless an element was one that its form loses, an argument was the text NULL or
\* the array was nested, and the operators compare its elements: for any arrays
\* and elements.  A function that is given NULL fails and changes nothing.
THEOREM ArraysComeBack == ArraySpec => []ArraysReadBack
<1>1. ArrayInit => RowsKept
  BY RowsKeptAtFirst
<1>2. RowsKept /\ [ChangeArray]_arrayVars => RowsKept'
  BY RowsKeptAtSteps
<1>3. RowsKept => ArraysReadBack
  BY SetsAreCompared DEF RowsKept, Holds, ArraysReadBack, KeepsItsElements
<1> QED
  BY <1>1, <1>2, <1>3, PTL DEF ArraySpec

-----------------------------------------------------------------------------
(* Queries *)

Tokens == Words \cup OperatorTokens
Rank   == [q \in Queries |-> Depth[q]]
Joins  == {"&", "|", "<->"}

LEMMA QueryIs ==
  /\ Rank \in [Queries -> Nat]
  /\ \A q \in Queries :
       /\ q.op \in {"word", "!"} \cup Joins
       /\ q.op = "word" => q.word \in Words
       /\ q.op = "!" => q.of \in Queries /\ Rank[q.of] < Rank[q]
       /\ q.op \in Joins => q.left \in Queries /\ q.right \in Queries /\ Rank[q.left] < Rank[q] /\ Rank[q.right] < Rank[q]
       /\ q.op = "<->" => q.left.op = "word" /\ q.right.op = "word"
<1>1. \A q \in Queries : Depth[q] \in Nat /\ IsQuery(q)
  BY TextSearchAssumption
<1>2. Rank \in [Queries -> Nat] /\ \A q \in Queries : Rank[q] = Depth[q]
  BY <1>1 DEF Rank
<1>3. \A q \in Queries :
       /\ q.op \in {"word", "!"} \cup Joins
       /\ q.op = "word" => q.word \in Words
       /\ q.op = "!" => q.of \in Queries /\ Depth[q.of] < Depth[q]
       /\ q.op \in Joins => q.left \in Queries /\ q.right \in Queries /\ Depth[q.left] < Depth[q] /\ Depth[q.right] < Depth[q]
       /\ q.op = "<->" => q.left.op = "word" /\ q.right.op = "word"
  BY <1>1, Zenon DEF IsQuery, Joins
<1> QED
  BY <1>2, <1>3

TypedStep(q, f) ==
  LET Operand(p) == IF p.op \in {"word", "!"} \/ (p.op = q.op /\ p = q.left) THEN f[p]
                    ELSE <<"(">> \o f[p] \o <<")">>
  IN  CASE q.op = "word" -> <<q.word>>
        [] q.op = "!"    -> <<"!">> \o Operand(q.of)
        [] q.op = "<->"  -> Operand(q.left) \o <<"<", ">">> \o Operand(q.right)
        [] OTHER         -> Operand(q.left) \o <<q.op>> \o Operand(q.right)

TypedBy == [p \in Queries \X [Queries -> Seq(Tokens)] |-> TypedStep(p[1], p[2])]

LEMMA TokensAre ==
  /\ \A t \in OperatorTokens : t \in Tokens /\ <<t>> \in Seq(Tokens)
  /\ \A w \in Words : w \in Tokens /\ <<w>> \in Seq(Tokens)
  /\ <<"<", ">">> \in Seq(Tokens)
  /\ \A a, b \in Seq(Tokens) : a \o b \in Seq(Tokens)
<1>1. \A t \in Tokens : <<t>> \in Seq(Tokens)
  OBVIOUS
<1>2. "<" \in Tokens /\ ">" \in Tokens
  BY DEF Tokens, OperatorTokens
<1>3. OperatorTokens \subseteq Tokens /\ Words \subseteq Tokens
  BY DEF Tokens
<1> HIDE DEF Tokens
<1>4. <<"<", ">">> \in Seq(Tokens)
  BY <1>2
<1>5. \A a, b \in Seq(Tokens) : a \o b \in Seq(Tokens)
  OBVIOUS
<1> QED
  BY <1>1, <1>3, <1>4, <1>5

LEMMA TypedStepIs ==
  ASSUME NEW q \in Queries, NEW f \in [Queries -> Seq(Tokens)]
  PROVE  TypedStep(q, f) \in Seq(Tokens)
<1> DEFINE Operand(p) == IF p.op \in {"word", "!"} \/ (p.op = q.op /\ p = q.left) THEN f[p]
                    ELSE <<"(">> \o f[p] \o <<")">>
           T == Seq(Tokens)
<1>1. <<"(">> \in T /\ <<")">> \in T /\ <<"!">> \in T /\ <<"&">> \in T /\ <<"|">> \in T /\ <<"<", ">">> \in T
  BY TokensAre DEF OperatorTokens
<1>2. \A a, b \in T : a \o b \in T
  BY TokensAre
<1>3. q.op = "word" => <<q.word>> \in T
  BY TokensAre, QueryIs
<1> HIDE DEF T
<1>4. \A p \in Queries : Operand(p) \in T
  BY <1>1, <1>2 DEF T
<1>5. TypedStep(q, f) =
        CASE q.op = "word" -> <<q.word>>
          [] q.op = "!"    -> <<"!">> \o Operand(q.of)
          [] q.op = "<->"  -> Operand(q.left) \o <<"<", ">">> \o Operand(q.right)
          [] OTHER         -> Operand(q.left) \o <<q.op>> \o Operand(q.right)
  BY DEF TypedStep
<1> HIDE DEF Operand
<1>6. CASE q.op = "word"
  BY <1>3, <1>5, <1>6 DEF T
<1>7. CASE q.op = "!"
  <2>1. TypedStep(q, f) = <<"!">> \o Operand(q.of) /\ q.of \in Queries
    BY <1>5, <1>7, QueryIs
  <2> QED
    BY <1>1, <1>2, <1>4, <2>1 DEF T
<1>8. CASE q.op \in Joins
  <2>1. q.left \in Queries /\ q.right \in Queries
    BY <1>8, QueryIs
  <2>2. \E m \in T : TypedStep(q, f) = Operand(q.left) \o m \o Operand(q.right)
    <3>1. CASE q.op = "<->"
      BY <1>1, <1>5, <3>1
    <3>2. CASE q.op = "&"
      BY <1>1, <1>5, <3>2
    <3>3. CASE q.op = "|"
      BY <1>1, <1>5, <3>3
    <3> QED
      BY <1>8, <3>1, <3>2, <3>3 DEF Joins
  <2> QED
    BY <1>2, <1>4, <2>1, <2>2 DEF T
<1> QED
  BY <1>6, <1>7, <1>8, QueryIs

LEMMA TypedAgree ==
  ASSUME NEW q \in Queries, NEW f, NEW g, \A p \in Queries : Rank[p] < Rank[q] => f[p] = g[p]
  PROVE  TypedStep(q, f) = TypedStep(q, g)
<1>1. q.op = "!" => f[q.of] = g[q.of]
  BY QueryIs
<1>2. q.op \in Joins => f[q.left] = g[q.left] /\ f[q.right] = g[q.right]
  BY QueryIs
<1>3. q.op \in {"word", "!"} \cup Joins
  BY QueryIs
<1>4. CASE q.op = "word"
  BY <1>4 DEF TypedStep
<1>5. CASE q.op = "!"
  BY <1>1, <1>5 DEF TypedStep
<1>6. CASE q.op \in Joins
  BY <1>2, <1>6 DEF TypedStep, Joins
<1> QED
  BY <1>3, <1>4, <1>5, <1>6

LEMMA TypedLowers == Lowers(Queries, Rank, Seq(Tokens), TypedBy)
<1> DEFINE F == [Queries -> Seq(Tokens)]
<1>1. Rank \in [Queries -> Nat]
  BY QueryIs
<1>2. Seq(Tokens) # {}
  <2>1. <<>> \in Seq(Tokens)
    OBVIOUS
  <2> QED
    BY <2>1
<1>3. TypedBy \in [Queries \X F -> Seq(Tokens)] /\ \A q \in Queries, f \in F : TypedBy[<<q, f>>] = TypedStep(q, f)
  BY TypedStepIs, Zenon DEF TypedBy
<1>4. \A q \in Queries : \A f, g \in F :
        (\A p \in Queries : Rank[p] < Rank[q] => f[p] = g[p]) => TypedBy[<<q, f>>] = TypedBy[<<q, g>>]
  <2> HIDE DEF F
  <2> TAKE q \in Queries
  <2> TAKE f, g \in F
  <2> HAVE \A p \in Queries : Rank[p] < Rank[q] => f[p] = g[p]
  <2>1. TypedStep(q, f) = TypedStep(q, g)
    BY TypedAgree
  <2> QED
    BY <1>3, <2>1
<1> QED
  BY <1>1, <1>2, <1>3, <1>4, Zenon DEF Lowers

LEMMA TypedIs ==
  /\ Typed \in [Queries -> Seq(Tokens)]
  /\ \A q \in Queries : Typed[q] = TypedStep(q, Typed)
<1>1. PICK f \in [Queries -> Seq(Tokens)] : f = [q \in Queries |-> TypedBy[<<q, f>>]]
  BY TypedLowers, TreeRecursion
<1>2. \A q \in Queries : TypedBy[<<q, f>>] = TypedStep(q, f)
  BY Zenon DEF TypedBy
<1>3. f = [q \in Queries |-> TypedStep(q, f)]
  BY <1>1, <1>2
<1>4. Typed = CHOOSE g : g = [q \in Queries |-> TypedStep(q, g)]
  BY Zenon DEF Typed, TypedStep
<1>5. Typed = [q \in Queries |-> TypedStep(q, Typed)]
  BY <1>3, <1>4, Zenon
<1> DEFINE T == {q \in Queries : Typed[q] = f[q]}
<1>6. \A q \in Queries : (\A p \in Queries : Rank[p] < Rank[q] => p \in T) => q \in T
  <2> TAKE q \in Queries
  <2> HAVE \A p \in Queries : Rank[p] < Rank[q] => p \in T
  <2>1. TypedStep(q, Typed) = TypedStep(q, f)
    BY TypedAgree
  <2>2. Typed[q] = TypedStep(q, Typed) /\ f[q] = TypedStep(q, f)
    BY <1>3, <1>5
  <2> QED
    BY <2>1, <2>2
<1> HIDE DEF T
<1>7. Queries \subseteq T
  BY <1>6, QueryIs, TreeInduction
<1>8. \A q \in Queries : Typed[q] \in Seq(Tokens)
  BY <1>1, <1>7 DEF T
<1> QED
  BY <1>5, <1>8

SubqueriesStep(q, f) ==
  {q} \cup CASE q.op = "word" -> {}
             [] q.op = "!"    -> f[q.of]
             [] OTHER         -> f[q.left] \cup f[q.right]

SubqueriesBy == [p \in Queries \X [Queries -> SUBSET Queries] |-> SubqueriesStep(p[1], p[2])]

LEMMA SubqueriesStepIs ==
  ASSUME NEW q \in Queries, NEW f \in [Queries -> SUBSET Queries]
  PROVE  SubqueriesStep(q, f) \in SUBSET Queries
<1>1. q.op = "!" => f[q.of] \subseteq Queries
  BY QueryIs
<1>2. q.op \in Joins => f[q.left] \subseteq Queries /\ f[q.right] \subseteq Queries
  BY QueryIs
<1>3. q.op \in {"word", "!"} \cup Joins
  BY QueryIs
<1> QED
  BY <1>1, <1>2, <1>3 DEF SubqueriesStep, Joins

LEMMA SubqueriesAgree ==
  ASSUME NEW q \in Queries, NEW f, NEW g, \A p \in Queries : Rank[p] < Rank[q] => f[p] = g[p]
  PROVE  SubqueriesStep(q, f) = SubqueriesStep(q, g)
<1>1. q.op = "!" => f[q.of] = g[q.of]
  BY QueryIs
<1>2. q.op \in Joins => f[q.left] = g[q.left] /\ f[q.right] = g[q.right]
  BY QueryIs
<1>3. q.op \in {"word", "!"} \cup Joins
  BY QueryIs
<1> QED
  BY <1>1, <1>2, <1>3 DEF SubqueriesStep, Joins

LEMMA SubqueriesLowers == Lowers(Queries, Rank, SUBSET Queries, SubqueriesBy)
<1> DEFINE F == [Queries -> SUBSET Queries]
<1>1. Rank \in [Queries -> Nat]
  BY QueryIs
<1>2. SUBSET Queries # {}
  OBVIOUS
<1>3. SubqueriesBy \in [Queries \X F -> SUBSET Queries] /\ \A q \in Queries, f \in F : SubqueriesBy[<<q, f>>] = SubqueriesStep(q, f)
  BY SubqueriesStepIs, Zenon DEF SubqueriesBy
<1>4. \A q \in Queries : \A f, g \in F :
        (\A p \in Queries : Rank[p] < Rank[q] => f[p] = g[p]) => SubqueriesBy[<<q, f>>] = SubqueriesBy[<<q, g>>]
  <2> HIDE DEF F
  <2> TAKE q \in Queries
  <2> TAKE f, g \in F
  <2> HAVE \A p \in Queries : Rank[p] < Rank[q] => f[p] = g[p]
  <2>1. SubqueriesStep(q, f) = SubqueriesStep(q, g)
    BY SubqueriesAgree
  <2> QED
    BY <1>3, <2>1
<1> QED
  BY <1>1, <1>2, <1>3, <1>4, Zenon DEF Lowers

LEMMA SubqueriesIs ==
  /\ Subqueries \in [Queries -> SUBSET Queries]
  /\ \A q \in Queries : Subqueries[q] = SubqueriesStep(q, Subqueries)
<1>1. PICK f \in [Queries -> SUBSET Queries] : f = [q \in Queries |-> SubqueriesBy[<<q, f>>]]
  BY SubqueriesLowers, TreeRecursion
<1>2. \A q \in Queries : SubqueriesBy[<<q, f>>] = SubqueriesStep(q, f)
  BY Zenon DEF SubqueriesBy
<1>3. f = [q \in Queries |-> SubqueriesStep(q, f)]
  BY <1>1, <1>2
<1>4. Subqueries = CHOOSE g : g = [q \in Queries |-> SubqueriesStep(q, g)]
  BY Zenon DEF Subqueries, SubqueriesStep
<1>5. Subqueries = [q \in Queries |-> SubqueriesStep(q, Subqueries)]
  BY <1>3, <1>4, Zenon
<1> DEFINE T == {q \in Queries : Subqueries[q] = f[q]}
<1>6. \A q \in Queries : (\A p \in Queries : Rank[p] < Rank[q] => p \in T) => q \in T
  <2> TAKE q \in Queries
  <2> HAVE \A p \in Queries : Rank[p] < Rank[q] => p \in T
  <2>1. SubqueriesStep(q, Subqueries) = SubqueriesStep(q, f)
    BY SubqueriesAgree
  <2>2. Subqueries[q] = SubqueriesStep(q, Subqueries) /\ f[q] = SubqueriesStep(q, f)
    BY <1>3, <1>5
  <2> QED
    BY <2>1, <2>2
<1> HIDE DEF T
<1>7. Queries \subseteq T
  BY <1>6, QueryIs, TreeInduction
<1>8. \A q \in Queries : Subqueries[q] \in SUBSET Queries
  BY <1>1, <1>7 DEF T
<1> QED
  BY <1>5, <1>8

Places(d, w) == {i \in DOMAIN Prose(d) : Kept(Prose(d)[i]) /\ Stem[Prose(d)[i]] = Stem[w]}

MatchingStep(q, f) ==
  CASE q.op = "word" -> {d \in Documents : Places(d, q.word) # {}}
    [] q.op = "!"    -> Documents \ f[q.of]
    [] OTHER ->
         IF Gone(q.left) THEN f[q.right]
         ELSE IF Gone(q.right) THEN f[q.left]
         ELSE CASE q.op = "&" -> f[q.left] \cap f[q.right]
                [] q.op = "|" -> f[q.left] \cup f[q.right]
                [] q.op = "<->" ->
                     {d \in Documents : \E i \in Places(d, q.left.word) : i + 1 \in Places(d, q.right.word)}

MatchingBy == [p \in Queries \X [Queries -> SUBSET Documents] |-> MatchingStep(p[1], p[2])]

LEMMA MatchingStepIs ==
  ASSUME NEW q \in Queries, NEW f \in [Queries -> SUBSET Documents]
  PROVE  MatchingStep(q, f) \in SUBSET Documents
<1>1. q.op = "!" => f[q.of] \subseteq Documents
  BY QueryIs
<1>2. q.op \in Joins => f[q.left] \subseteq Documents /\ f[q.right] \subseteq Documents
  BY QueryIs
<1>3. q.op \in {"word", "!"} \cup Joins
  BY QueryIs
<1> QED
  BY <1>1, <1>2, <1>3 DEF MatchingStep, Joins

LEMMA MatchingAgree ==
  ASSUME NEW q \in Queries, NEW f, NEW g, \A p \in Queries : Rank[p] < Rank[q] => f[p] = g[p]
  PROVE  MatchingStep(q, f) = MatchingStep(q, g)
<1>1. q.op = "!" => f[q.of] = g[q.of]
  BY QueryIs
<1>2. q.op \in Joins => f[q.left] = g[q.left] /\ f[q.right] = g[q.right]
  BY QueryIs
<1>3. q.op \in {"word", "!"} \cup Joins
  BY QueryIs
<1> QED
  BY <1>1, <1>2, <1>3 DEF MatchingStep, Joins

LEMMA MatchingLowers == Lowers(Queries, Rank, SUBSET Documents, MatchingBy)
<1> DEFINE F == [Queries -> SUBSET Documents]
<1>1. Rank \in [Queries -> Nat]
  BY QueryIs
<1>2. SUBSET Documents # {}
  OBVIOUS
<1>3. MatchingBy \in [Queries \X F -> SUBSET Documents] /\ \A q \in Queries, f \in F : MatchingBy[<<q, f>>] = MatchingStep(q, f)
  BY MatchingStepIs, Zenon DEF MatchingBy
<1>4. \A q \in Queries : \A f, g \in F :
        (\A p \in Queries : Rank[p] < Rank[q] => f[p] = g[p]) => MatchingBy[<<q, f>>] = MatchingBy[<<q, g>>]
  <2> HIDE DEF F
  <2> TAKE q \in Queries
  <2> TAKE f, g \in F
  <2> HAVE \A p \in Queries : Rank[p] < Rank[q] => f[p] = g[p]
  <2>1. MatchingStep(q, f) = MatchingStep(q, g)
    BY MatchingAgree
  <2> QED
    BY <1>3, <2>1
<1> QED
  BY <1>1, <1>2, <1>3, <1>4, Zenon DEF Lowers

LEMMA MatchingIs ==
  /\ Matching \in [Queries -> SUBSET Documents]
  /\ \A q \in Queries : Matching[q] = MatchingStep(q, Matching)
<1>1. PICK f \in [Queries -> SUBSET Documents] : f = [q \in Queries |-> MatchingBy[<<q, f>>]]
  BY MatchingLowers, TreeRecursion
<1>2. \A q \in Queries : MatchingBy[<<q, f>>] = MatchingStep(q, f)
  BY Zenon DEF MatchingBy
<1>3. f = [q \in Queries |-> MatchingStep(q, f)]
  BY <1>1, <1>2
<1>4. Matching = CHOOSE g : g = [q \in Queries |-> MatchingStep(q, g)]
  BY Zenon DEF Matching, MatchingStep, Places
<1>5. Matching = [q \in Queries |-> MatchingStep(q, Matching)]
  BY <1>3, <1>4, Zenon
<1> DEFINE T == {q \in Queries : Matching[q] = f[q]}
<1>6. \A q \in Queries : (\A p \in Queries : Rank[p] < Rank[q] => p \in T) => q \in T
  <2> TAKE q \in Queries
  <2> HAVE \A p \in Queries : Rank[p] < Rank[q] => p \in T
  <2>1. MatchingStep(q, Matching) = MatchingStep(q, f)
    BY MatchingAgree
  <2>2. Matching[q] = MatchingStep(q, Matching) /\ f[q] = MatchingStep(q, f)
    BY <1>3, <1>5
  <2> QED
    BY <2>1, <2>2
<1> HIDE DEF T
<1>7. Queries \subseteq T
  BY <1>6, QueryIs, TreeInduction
<1>8. \A q \in Queries : Matching[q] \in SUBSET Documents
  BY <1>1, <1>7 DEF T
<1> QED
  BY <1>5, <1>8

-----------------------------------------------------------------------------
(* Terms: what is found while a query is scanned *)

\* Pieces that each do what one member does.
InPieces(S, X, Y, step, one, ss, s) ==
  /\ step \in Steps(S, X) /\ one \in Steps(S, Y) /\ s \in Seq(Y) /\ ss \in Seq(Seq(X)) /\ Len(ss) = Len(s)
  /\ \A i \in 1..Len(s) : \A r \in S : Scan(step, r, ss[i]) = one[<<r, s[i]>>]

LEMMA ScanPieces ==
  ASSUME NEW S, NEW X, NEW Y, NEW step, NEW one, NEW ss, NEW s, NEW q \in S,
         InPieces(S, X, Y, step, one, ss, s)
  PROVE  Scan(step, q, FlattenSeq(ss)) = Scan(one, q, s)
<1>1. /\ step \in Steps(S, X) /\ one \in Steps(S, Y) /\ s \in Seq(Y) /\ ss \in Seq(Seq(X)) /\ Len(ss) = Len(s)
      /\ \A i \in 1..Len(s) : \A r \in S : Scan(step, r, ss[i]) = one[<<r, s[i]>>]
  BY DEF InPieces
<1>2. Scans(S, Y, one, q, s)
  BY <1>1 DEF Scans
<1>3. PICK f : IsScan(f, S, one, q, s)
  BY <1>2, ScanRun, Zenon
<1>4. f \in [0..Len(s) -> S] /\ f[0] = q /\ f[Len(s)] = Scan(one, q, s) /\ \A i \in 1..Len(s) : f[i] = one[<<f[i - 1], s[i]>>]
  BY <1>3 DEF IsScan, Follows
<1>5. \A i \in 1..Len(ss) : f[i] = Scan(step, f[i - 1], ss[i])
  <2> TAKE i \in 1..Len(ss)
  <2>1. i \in 1..Len(s) /\ i - 1 \in 0..Len(s)
    BY <1>1
  <2>2. f[i - 1] \in S
    BY <1>4, <2>1
  <2> QED
    BY <1>1, <1>4, <2>1, <2>2
<1>6. ScansAlong(S, X, step, ss, f)
  BY <1>1, <1>4, <1>5 DEF ScansAlong
<1>7. Scan(step, f[0], FlattenSeq(ss)) = f[Len(ss)]
  BY ONLY <1>6, ScanFlat
<1> QED
  BY <1>1, <1>4, <1>7

Lexemes == {Stem[w] : w \in Words}
Clear   == Lexemes \ {"and", "or", "not"}
Fts5Tokens == Lexemes \cup {"AND", "OR", "NOT", "(", ")", ">"}

TermState == [positive : SUBSET Lexemes, negative : SUBSET Lexemes, negated : BOOLEAN]

NoTerms == [positive |-> {}, negative |-> {}, negated |-> FALSE]

Terms == [p \in TermState \X Fts5Tokens |-> TermStep(p[1], p[2])]

Found(s, t) == IF s.negated THEN [s EXCEPT !.negative = @ \cup {t}, !.negated = FALSE]
               ELSE [s EXCEPT !.positive = @ \cup {t}]

LEMMA LexemesAre ==
  /\ \A w \in Words : Stem[w] \in Lexemes
  /\ Lexemes \cap (OperatorTokens \cup {"AND", "OR", "NOT"}) = {}
  /\ Words \cap OperatorTokens = {}
BY TextSearchAssumption, Zenon DEF Lexemes, Operators

LEMMA FoundIs == ASSUME NEW s \in TermState, NEW t \in Lexemes PROVE Found(s, t) \in TermState
BY DEF Found, TermState

LEMMA TurnIs == ASSUME NEW s \in TermState, NEW b \in BOOLEAN PROVE [s EXCEPT !.negated = b] \in TermState
BY DEF TermState

LEMMA TermStepIs ==
  ASSUME NEW s \in TermState
  PROVE  /\ TermStep(s, "NOT") = [s EXCEPT !.negated = TRUE]
         /\ \A t \in {"AND", "OR", "(", ")", ">"} : TermStep(s, t) = [s EXCEPT !.negated = FALSE]
         /\ \A t \in Clear : TermStep(s, t) = Found(s, t)
         /\ \A t \in Fts5Tokens : TermStep(s, t) \in TermState
<1>1. TermStep(s, "NOT") = [s EXCEPT !.negated = TRUE]
  BY DEF TermStep
<1>2. \A t \in {"AND", "OR", "(", ")", ">"} : TermStep(s, t) = [s EXCEPT !.negated = FALSE]
  BY DEF TermStep
<1>3. \A t \in Clear : TermStep(s, t) = Found(s, t)
  <2> TAKE t \in Clear
  <2>1. t \notin {"NOT", "not", "AND", "and", "OR", "or", "(", ")", ">"}
    BY LexemesAre DEF Clear, OperatorTokens
  <2> QED
    BY <2>1 DEF TermStep, Found
<1>4. \A t \in Fts5Tokens : TermStep(s, t) \in TermState
  <2> TAKE t \in Fts5Tokens
  <2>1. CASE t \in {"NOT", "not"}
    BY <2>1, TurnIs DEF TermStep
  <2>2. CASE t \in {"AND", "and", "OR", "or", "(", ")", ">"}
    BY <2>2, TurnIs DEF TermStep
  <2>3. CASE t \notin {"NOT", "not", "AND", "and", "OR", "or", "(", ")", ">"}
    <3>1. t \in Lexemes
      BY <2>3 DEF Fts5Tokens
    <3>2. TermStep(s, t) = Found(s, t)
      BY <2>3 DEF TermStep, Found
    <3> QED
      BY <3>1, <3>2, FoundIs
  <2> QED
    BY <2>1, <2>2, <2>3
<1> QED
  BY <1>1, <1>2, <1>3, <1>4

LEMMA TermsAre ==
  /\ Terms \in Steps(TermState, Fts5Tokens) /\ NoTerms \in TermState
  /\ \A s \in TermState, t \in Fts5Tokens : Terms[<<s, t>>] = TermStep(s, t)
<1>1. \A s \in TermState, t \in Fts5Tokens : TermStep(s, t) \in TermState
  BY TermStepIs
<1>2. NoTerms \in TermState
  BY DEF NoTerms, TermState
<1> QED
  BY <1>1, <1>2, Zenon DEF Terms, Steps

LEMMA ExtractIs ==
  ASSUME NEW s \in Seq(Fts5Tokens)
  PROVE  ExtractTerms(s) = Scan(Terms, NoTerms, s)
<1> DEFINE n == Len(s)
           IsAfter(f) == f = [i \in 0..n |-> IF i = 0 THEN NoTerms ELSE TermStep(f[i - 1], s[i])]
           after == CHOOSE f : IsAfter(f)
<1>1. Scans(TermState, Fts5Tokens, Terms, NoTerms, s)
  BY TermsAre DEF Scans
<1>2. PICK f : IsScan(f, TermState, Terms, NoTerms, s)
  BY <1>1, ScanRun, Zenon
<1>3. n \in Nat /\ \A i \in 1..n : s[i] \in Fts5Tokens
  OBVIOUS
<1>4. f \in [0..n -> TermState] /\ f[0] = NoTerms /\ \A i \in 1..n : f[i] = Terms[<<f[i - 1], s[i]>>]
  BY <1>2 DEF IsScan, Follows
<1> HIDE DEF n
<1>5. \A i \in 1..n : f[i - 1] \in TermState /\ f[i] = TermStep(f[i - 1], s[i])
  <2> TAKE i \in 1..n
  <2>1. i - 1 \in 0..n
    BY <1>3
  <2>2. f[i - 1] \in TermState
    BY <1>4, <2>1
  <2> QED
    BY <1>3, <1>4, <2>2, TermsAre
<1>6. \A i \in 0..n : f[i] = IF i = 0 THEN NoTerms ELSE TermStep(f[i - 1], s[i])
  <2> TAKE i \in 0..n
  <2>1. i = 0 \/ i \in 1..n
    BY <1>3
  <2> QED
    BY <1>4, <1>5, <2>1
<1>7. IsAfter(f)
  <2>1. f = [i \in 0..n |-> f[i]]
    BY <1>4
  <2> QED
    BY <1>6, <2>1
<1>8. IsAfter(after)
  <2> HIDE DEF IsAfter
  <2> QED
    BY <1>7
<1>9. ExtractTerms(s) = after[n]
  BY Zenon DEF ExtractTerms, NoTerms, n
<1> HIDE DEF after
<1>10. \A i \in 0..n : after[i] = IF i = 0 THEN NoTerms ELSE TermStep(after[i - 1], s[i])
  BY <1>8
<1> DEFINE T == {i \in 0..n : after[i] = f[i]}
<1>11. 0 \in T
  BY <1>3, <1>4, <1>10
<1>12. \A k \in 0..(n - 1) : k \in T => k + 1 \in T
  <2> TAKE k \in 0..(n - 1)
  <2> HAVE k \in T
  <2>1. k + 1 \in 0..n /\ k + 1 # 0 /\ (k + 1) - 1 = k
    BY <1>3
  <2>2. after[k + 1] = TermStep(after[k], s[k + 1]) /\ f[k + 1] = TermStep(f[k], s[k + 1])
    BY <1>6, <1>10, <2>1
  <2> QED
    BY <2>1, <2>2
<1> HIDE DEF T
<1>13. n \in T
  <2>1. \A k \in 0..n : k \in T
    BY ONLY <1>3, <1>11, <1>12, Ladder
  <2> QED
    BY <1>3, <2>1
<1> QED
  BY <1>2, <1>9, <1>13 DEF T, IsScan, n

Unclear == OperatorTokens \cup Clear

Turned(s, b) == [s EXCEPT !.negated = b]

\* What a token does once it is written for FTS5 and read again.
OnToken(s, t) ==
  CASE t = "!" -> Turned(s, TRUE)
    [] t = "<" -> s
    [] t \in {"&", "|", "(", ")", ">"} -> Turned(s, FALSE)
    [] OTHER   -> Found(s, t)

Tokened == [p \in TermState \X Unclear |-> OnToken(p[1], p[2])]

LEMMA OnTokenIs ==
  ASSUME NEW s \in TermState
  PROVE  /\ OnToken(s, "!") = Turned(s, TRUE)
         /\ OnToken(s, "<") = s
         /\ \A t \in {"&", "|", "(", ")", ">"} : OnToken(s, t) = Turned(s, FALSE)
         /\ \A t \in Clear : OnToken(s, t) = Found(s, t)
         /\ \A t \in Unclear : OnToken(s, t) \in TermState
         /\ \A b \in BOOLEAN : Turned(s, b) \in TermState
<1>1. OnToken(s, "!") = Turned(s, TRUE)
  BY DEF OnToken
<1>2. OnToken(s, "<") = s
  BY DEF OnToken
<1>3. \A t \in {"&", "|", "(", ")", ">"} : OnToken(s, t) = Turned(s, FALSE)
  BY DEF OnToken
<1>4. \A t \in Clear : OnToken(s, t) = Found(s, t)
  <2> TAKE t \in Clear
  <2>1. t \notin {"!", "<", "&", "|", "(", ")", ">"}
    BY LexemesAre DEF Clear, OperatorTokens
  <2> QED
    BY <2>1 DEF OnToken
<1>5. \A b \in BOOLEAN : Turned(s, b) \in TermState
  BY TurnIs DEF Turned
<1>6. \A t \in Unclear : OnToken(s, t) \in TermState
  <2> TAKE t \in Unclear
  <2>1. CASE t \in Clear
    BY <1>4, <2>1, FoundIs DEF Clear
  <2>2. CASE t \in OperatorTokens
    BY <1>1, <1>2, <1>3, <1>5, <2>2 DEF OperatorTokens
  <2> QED
    BY <2>1, <2>2 DEF Unclear
<1> QED
  BY <1>1, <1>2, <1>3, <1>4, <1>5, <1>6

LEMMA TokenedIs ==
  /\ Tokened \in Steps(TermState, Unclear)
  /\ \A s \in TermState, t \in Unclear : Tokened[<<s, t>>] = OnToken(s, t)
<1>1. \A s \in TermState, t \in Unclear : OnToken(s, t) \in TermState
  BY OnTokenIs
<1> QED
  BY <1>1, Zenon DEF Tokened, Steps

\* A negation that was not there, or has just been used, is not ended again.
LEMMA TurnedAgain ==
  ASSUME NEW s \in TermState
  PROVE  /\ \A t \in Lexemes : Turned(Found(s, t), FALSE) = Found(s, t)
         /\ Turned(Turned(s, FALSE), FALSE) = Turned(s, FALSE)
<1>1. \A t \in Lexemes : Turned(Found(s, t), FALSE) = Found(s, t)
  BY DEF Turned, Found, TermState
<1>2. Turned(Turned(s, FALSE), FALSE) = Turned(s, FALSE)
  BY DEF Turned, TermState
<1> QED
  BY <1>1, <1>2

LEMMA OneWritten ==
  ASSUME NEW s \in TermState, NEW t \in Fts5Tokens
  PROVE  Scan(Terms, s, <<t>>) = TermStep(s, t)
<1>1. Scan(Terms, s, <<t>>) = Terms[<<s, t>>]
  BY TermsAre, ScanOne
<1> QED
  BY <1>1, TermsAre

LEMMA TwoWritten ==
  ASSUME NEW s \in TermState, NEW t \in Fts5Tokens, NEW u \in Fts5Tokens
  PROVE  Scan(Terms, s, <<t, u>>) = TermStep(TermStep(s, t), u)
<1>1. TermStep(s, t) \in TermState
  BY TermStepIs
<1>2. Scan(Terms, s, <<t, u>>) = Terms[<<Terms[<<s, t>>], u>>]
  BY TermsAre, ScanTwo
<1> QED
  BY <1>1, <1>2, TermsAre

LEMMA MarkWritten ==
  /\ \A t \in {"AND", "OR", "NOT", "(", ")"} : <<t>> \in Seq(Fts5Tokens)
  /\ \A s \in TermState : Scan(Terms, s, <<"NOT">>) = Turned(s, TRUE)
  /\ \A s \in TermState : \A t \in {"AND", "OR", "(", ")"} : Scan(Terms, s, <<t>>) = Turned(s, FALSE)
<1>1. {"AND", "OR", "NOT", "(", ")"} \subseteq Fts5Tokens
  BY DEF Fts5Tokens
<1>2. \A t \in Fts5Tokens : <<t>> \in Seq(Fts5Tokens)
  OBVIOUS
<1>3. \A s \in TermState : Scan(Terms, s, <<"NOT">>) = Turned(s, TRUE)
  <2> TAKE s \in TermState
  <2>1. "NOT" \in Fts5Tokens
    BY <1>1
  <2>2. Scan(Terms, s, <<"NOT">>) = TermStep(s, "NOT")
    BY ONLY <2>1, OneWritten, s \in TermState
  <2> QED
    BY <2>2, TermStepIs DEF Turned
<1>4. \A s \in TermState : \A t \in {"AND", "OR", "(", ")"} : Scan(Terms, s, <<t>>) = Turned(s, FALSE)
  <2> TAKE s \in TermState
  <2> TAKE t \in {"AND", "OR", "(", ")"}
  <2>1. t \in Fts5Tokens
    BY <1>1
  <2>2. Scan(Terms, s, <<t>>) = TermStep(s, t)
    BY ONLY <2>1, OneWritten, s \in TermState
  <2>3. TermStep(s, t) = [s EXCEPT !.negated = FALSE]
    BY TermStepIs
  <2> QED
    BY <2>2, <2>3 DEF Turned
<1> QED
  BY <1>1, <1>2, <1>3, <1>4

LEMMA ConvertedScan ==
  ASSUME NEW u \in Seq(Unclear), NEW s \in TermState
  PROVE  ConvertToFts5(u) \in Seq(Fts5Tokens) /\ Scan(Terms, s, ConvertToFts5(u)) = Scan(Tokened, s, u)
<1> DEFINE More(i) == IF i < Len(u) THEN <<"AND">> ELSE <<>>
           Fts5(i) == CASE u[i] = "&" -> <<"AND">>
                        [] u[i] = "|" -> <<"OR">>
                        [] u[i] = "!" -> <<"NOT">>
                        [] u[i] = "<" -> <<>>
                        [] u[i] \in {"(", ")"} -> <<u[i]>>
                        [] OTHER -> <<u[i]>> \o More(i)
           ss == [i \in DOMAIN u |-> Fts5(i)]
           W == Seq(Fts5Tokens)
<1>1. ConvertToFts5(u) = FlattenSeq(ss)
  BY DEF ConvertToFts5
<1>2. Len(u) \in Nat /\ DOMAIN u = 1..Len(u) /\ \A i \in 1..Len(u) : u[i] \in Unclear
  OBVIOUS
<1>3. {"AND", "OR", "NOT", "(", ")", ">"} \subseteq Fts5Tokens /\ Clear \subseteq Lexemes /\ Lexemes \subseteq Fts5Tokens
  BY DEF Fts5Tokens, Clear
<1>w. W = Seq(Fts5Tokens)
  OBVIOUS
<1> HIDE DEF W
<1>4. <<>> \in W /\ \A t \in Fts5Tokens : <<t>> \in W
  BY <1>w
<1>5. ASSUME NEW i \in 1..Len(u)
      PROVE  Fts5(i) \in W /\ \A r \in TermState : Scan(Terms, r, Fts5(i)) = OnToken(r, u[i])
  <2>1. CASE u[i] = "&"
    <3>1. Fts5(i) = <<"AND">>
      BY <2>1
    <3> HIDE DEF Fts5
    <3>2. <<"AND">> \in W /\ \A r \in TermState : Scan(Terms, r, <<"AND">>) = Turned(r, FALSE)
      BY MarkWritten DEF W
    <3>3. \A r \in TermState : OnToken(r, u[i]) = Turned(r, FALSE)
      BY <2>1, OnTokenIs
    <3> QED
      BY <3>1, <3>2, <3>3
  <2>2. CASE u[i] = "|"
    <3>1. Fts5(i) = <<"OR">>
      BY <2>2
    <3> HIDE DEF Fts5
    <3>2. <<"OR">> \in W /\ \A r \in TermState : Scan(Terms, r, <<"OR">>) = Turned(r, FALSE)
      BY MarkWritten DEF W
    <3>3. \A r \in TermState : OnToken(r, u[i]) = Turned(r, FALSE)
      BY <2>2, OnTokenIs
    <3> QED
      BY <3>1, <3>2, <3>3
  <2>3. CASE u[i] = "!"
    <3>1. Fts5(i) = <<"NOT">>
      BY <2>3
    <3> HIDE DEF Fts5
    <3>2. <<"NOT">> \in W /\ \A r \in TermState : Scan(Terms, r, <<"NOT">>) = Turned(r, TRUE)
      BY MarkWritten DEF W
    <3>3. \A r \in TermState : OnToken(r, u[i]) = Turned(r, TRUE)
      BY <2>3, OnTokenIs
    <3> QED
      BY <3>1, <3>2, <3>3
  <2>4. CASE u[i] = "<"
    <3>1. Fts5(i) = <<>>
      BY <2>4
    <3> HIDE DEF Fts5
    <3>2. \A r \in TermState : Scan(Terms, r, <<>>) = r
      BY TermsAre, ScanNothing
    <3> QED
      BY <1>4, <2>4, <3>1, <3>2, OnTokenIs, ZenonT(60)
  <2>5. CASE u[i] \in {"(", ")"}
    <3>1. Fts5(i) = <<u[i]>>
      BY <2>5
    <3> HIDE DEF Fts5
    <3>2. <<u[i]>> \in W /\ \A r \in TermState : Scan(Terms, r, <<u[i]>>) = Turned(r, FALSE)
      BY <2>5, MarkWritten DEF W
    <3>3. \A r \in TermState : OnToken(r, u[i]) = Turned(r, FALSE)
      BY <2>5, OnTokenIs
    <3> QED
      BY <3>1, <3>2, <3>3
  <2>6. CASE u[i] = ">" \/ u[i] \in Clear
    <3>1. u[i] \notin {"&", "|", "!", "<", "(", ")"} /\ u[i] \in Fts5Tokens
      BY <1>3, <2>6, LexemesAre DEF Clear, OperatorTokens
    <3>2. Fts5(i) = <<u[i]>> \o More(i)
      BY <3>1
    <3>3. Fts5(i) = <<u[i]>> \/ Fts5(i) = <<u[i], "AND">>
      <4> HIDE DEF Fts5
      <4>1. CASE i < Len(u)
        <5>1. More(i) = <<"AND">>
          BY <4>1
        <5>2. Fts5(i) = <<u[i]>> \o <<"AND">>
          BY ONLY <3>2, <5>1
        <5> QED
          BY <1>3, <3>1, <5>2, TwoJoined
      <4>2. CASE ~(i < Len(u))
        <5> DEFINE one == <<u[i]>>
        <5>1. Fts5(i) = one \o <<>>
          BY <3>2, <4>2
        <5>2. one \in Seq(Fts5Tokens)
          BY <3>1
        <5> HIDE DEF one
        <5>3. Fts5(i) = one
          BY <5>1, <5>2, NothingBefore
        <5> QED
          BY <5>3 DEF one
      <4> QED
        BY <4>1, <4>2
    <3> HIDE DEF Fts5
    <3>4. \A r \in TermState : TermStep(r, u[i]) = OnToken(r, u[i]) /\ Turned(TermStep(r, u[i]), FALSE) = TermStep(r, u[i])
      <4> TAKE r \in TermState
      <4>1. CASE u[i] = ">"
        <5>1. TermStep(r, u[i]) = Turned(r, FALSE) /\ OnToken(r, u[i]) = Turned(r, FALSE)
          BY <4>1, TermStepIs, OnTokenIs DEF Turned
        <5> QED
          BY <5>1, TurnedAgain
      <4>2. CASE u[i] \in Clear
        <5>1. TermStep(r, u[i]) = Found(r, u[i]) /\ OnToken(r, u[i]) = Found(r, u[i])
          BY <4>2, TermStepIs, OnTokenIs
        <5> QED
          BY <1>3, <4>2, <5>1, TurnedAgain
      <4> QED
        BY <2>6, <4>1, <4>2
    <3>5. CASE Fts5(i) = <<u[i]>>
      BY <1>4, <3>1, <3>4, <3>5, OneWritten
    <3>6. CASE Fts5(i) = <<u[i], "AND">>
      <4>1. <<u[i], "AND">> \in W
        BY <1>3, <1>w, <3>1
      <4>2. \A r \in TermState : Scan(Terms, r, <<u[i], "AND">>) = OnToken(r, u[i])
        <5> TAKE r \in TermState
        <5>1. Scan(Terms, r, <<u[i], "AND">>) = TermStep(TermStep(r, u[i]), "AND")
          BY <1>3, <3>1, TwoWritten
        <5>2. TermStep(r, u[i]) \in TermState
          BY <3>1, TermStepIs
        <5>3. TermStep(TermStep(r, u[i]), "AND") = Turned(TermStep(r, u[i]), FALSE)
          BY <5>2, TermStepIs DEF Turned
        <5> QED
          BY <3>4, <5>1, <5>3
      <4> QED
        BY <3>6, <4>1, <4>2
    <3> QED
      BY <3>3, <3>5, <3>6
  <2>7. u[i] \in Unclear
    BY <1>2
  <2> HIDE DEF Fts5
  <2> QED
    BY <2>1, <2>2, <2>3, <2>4, <2>5, <2>6, <2>7 DEF Unclear, OperatorTokens
<1> HIDE DEF Fts5
<1>6. ss \in Seq(W) /\ Len(ss) = Len(u) /\ \A i \in 1..Len(u) : ss[i] = Fts5(i)
  BY <1>2, <1>5
<1> HIDE DEF ss
<1>7. \A i \in 1..Len(u) : \A r \in TermState : Scan(Terms, r, ss[i]) = Tokened[<<r, u[i]>>]
  BY <1>2, <1>5, <1>6, TokenedIs
<1>8. InPieces(TermState, Fts5Tokens, Unclear, Terms, Tokened, ss, u)
  BY <1>6, <1>7, TermsAre, TokenedIs DEF InPieces, W
<1>9. Scan(Terms, s, FlattenSeq(ss)) = Scan(Tokened, s, u)
  BY ONLY <1>8, ScanPieces, s \in TermState
<1>10. FlattenSeq(ss) \in Seq(Fts5Tokens)
  BY <1>6, FlatIsSeq DEF W
<1> QED
  BY <1>1, <1>9, <1>10

\* Words that are not taken for operators.
Readable == {w \in Words : Kept(w) => Stem[w] \in Clear}
Typing   == OperatorTokens \cup Readable

OnTyped(s, t) ==
  IF t \in OperatorTokens THEN OnToken(s, t) ELSE IF Kept(t) THEN Found(s, Stem[t]) ELSE s

Typeds == [p \in TermState \X Typing |-> OnTyped(p[1], p[2])]

LEMMA TypingIs ==
  /\ \A t \in OperatorTokens : t \in Typing /\ t \in Unclear /\ ~IsWord(t)
  /\ \A t \in Readable : t \in Words /\ t \notin OperatorTokens /\ IsWord(t) /\ (Kept(t) => Stem[t] \in Clear /\ Stem[t] \in Unclear)
  /\ \A t \in Typing : t \in OperatorTokens \/ t \in Readable
<1>1. \A t \in Readable : t \in Words /\ t \notin OperatorTokens
  BY LexemesAre DEF Readable
<1> QED
  BY <1>1 DEF Typing, Unclear, Readable, IsWord

LEMMA TypedsAre ==
  /\ Typeds \in Steps(TermState, Typing)
  /\ \A s \in TermState, t \in Typing : Typeds[<<s, t>>] = OnTyped(s, t)
<1>1. \A s \in TermState, t \in Typing : OnTyped(s, t) \in TermState
  <2> TAKE s \in TermState, t \in Typing
  <2>1. CASE t \in OperatorTokens
    BY <2>1, TypingIs, OnTokenIs DEF OnTyped
  <2>2. CASE t \in Readable
    <3>1. t \notin OperatorTokens /\ (Kept(t) => Stem[t] \in Clear)
      BY <2>2, TypingIs
    <3>2. Kept(t) => Found(s, Stem[t]) \in TermState
      BY <3>1, FoundIs DEF Clear
    <3> QED
      BY <3>1, <3>2 DEF OnTyped
  <2> QED
    BY <2>1, <2>2, TypingIs
<1> QED
  BY <1>1, Zenon DEF Typeds, Steps

LEMMA OneToken ==
  ASSUME NEW s \in TermState, NEW t \in Unclear
  PROVE  Scan(Tokened, s, <<t>>) = OnToken(s, t)
<1>1. Scan(Tokened, s, <<t>>) = Tokened[<<s, t>>]
  BY TokenedIs, ScanOne
<1> QED
  BY <1>1, TokenedIs

LEMMA TypedScan ==
  ASSUME NEW t \in Seq(Typing), NEW s \in TermState
  PROVE  TsqueryTokens(t) \in Seq(Unclear) /\ Scan(Tokened, s, TsqueryTokens(t)) = Scan(Typeds, s, t)
<1> DEFINE ss == [i \in DOMAIN t |-> Processed(t[i])]
           W  == Seq(Unclear)
           no == <<>>
<1>1. TsqueryTokens(t) = FlattenSeq(ss)
  BY DEF TsqueryTokens
<1>2. Len(t) \in Nat /\ DOMAIN t = 1..Len(t) /\ \A i \in 1..Len(t) : t[i] \in Typing
  OBVIOUS
<1>3. no \in W /\ \A u \in Unclear : <<u>> \in W
  OBVIOUS
<1>4. \A r \in TermState : Scan(Tokened, r, no) = r
  BY TokenedIs, ScanNothing
<1> HIDE DEF W
<1>5. ASSUME NEW i \in 1..Len(t)
      PROVE  Processed(t[i]) \in W /\ \A r \in TermState : Scan(Tokened, r, Processed(t[i])) = OnTyped(r, t[i])
  <2>1. CASE t[i] \in OperatorTokens
    <3>1. Processed(t[i]) = <<t[i]>> /\ t[i] \in Unclear
      BY <2>1, TypingIs DEF Processed
    <3>2. \A r \in TermState : OnTyped(r, t[i]) = OnToken(r, t[i])
      BY <2>1 DEF OnTyped
    <3> QED
      BY <1>3, <3>1, <3>2, OneToken
  <2>2. CASE t[i] \in Readable /\ Kept(t[i])
    <3>1. Processed(t[i]) = <<Stem[t[i]]>> /\ Stem[t[i]] \in Unclear /\ Stem[t[i]] \in Clear
      BY <2>2, TypingIs DEF Processed
    <3>2. \A r \in TermState : OnTyped(r, t[i]) = OnToken(r, Stem[t[i]])
      <4>1. \A r \in TermState : OnTyped(r, t[i]) = Found(r, Stem[t[i]])
        BY <2>2, TypingIs DEF OnTyped
      <4> QED
        BY <3>1, <4>1, OnTokenIs
    <3> QED
      BY <1>3, <3>1, <3>2, OneToken
  <2>3. CASE t[i] \in Readable /\ ~Kept(t[i])
    <3>1. Processed(t[i]) = no
      BY <2>3, TypingIs DEF Processed
    <3>2. \A r \in TermState : OnTyped(r, t[i]) = r
      BY <2>3, TypingIs DEF OnTyped
    <3> QED
      BY <1>3, <1>4, <3>1, <3>2
  <2> QED
    BY <1>2, <2>1, <2>2, <2>3, TypingIs
<1>6. ss \in Seq(W) /\ Len(ss) = Len(t) /\ \A i \in 1..Len(t) : ss[i] = Processed(t[i])
  BY <1>2, <1>5
<1> HIDE DEF ss
<1>7. \A i \in 1..Len(t) : \A r \in TermState : Scan(Tokened, r, ss[i]) = Typeds[<<r, t[i]>>]
  BY <1>2, <1>5, <1>6, TypedsAre
<1>8. InPieces(TermState, Unclear, Typing, Tokened, Typeds, ss, t)
  BY <1>6, <1>7, TypedsAre, TokenedIs DEF InPieces, W
<1>9. Scan(Tokened, s, FlattenSeq(ss)) = Scan(Typeds, s, t)
  BY ONLY <1>8, ScanPieces, s \in TermState
<1>10. FlattenSeq(ss) \in Seq(Unclear)
  BY <1>6, FlatIsSeq DEF W
<1> QED
  BY <1>1, <1>9, <1>10

LEMMA AskedTerms ==
  ASSUME NEW t \in Seq(Typing)
  PROVE  ExtractTerms(ToTsquery(t)) = Scan(Typeds, NoTerms, t)
<1>1. NoTerms \in TermState
  BY TermsAre
<1>2. TsqueryTokens(t) \in Seq(Unclear) /\ Scan(Tokened, NoTerms, TsqueryTokens(t)) = Scan(Typeds, NoTerms, t)
  BY <1>1, TypedScan
<1>3. ToTsquery(t) \in Seq(Fts5Tokens) /\ Scan(Terms, NoTerms, ToTsquery(t)) = Scan(Tokened, NoTerms, TsqueryTokens(t))
  BY <1>1, <1>2, ConvertedScan DEF ToTsquery
<1> QED
  BY <1>2, <1>3, ExtractIs

-----------------------------------------------------------------------------
(* What typed queries add to the terms *)

With(s, pos, neg, b) ==
  [positive |-> s.positive \cup pos, negative |-> s.negative \cup neg, negated |-> b]

\* From where nothing is to be negated.
Adds(t, pos, neg) ==
  /\ t \in Seq(Typing) /\ pos \in SUBSET Lexemes /\ neg \in SUBSET Lexemes
  /\ \A s \in TermState : ~s.negated =>
       \E b \in BOOLEAN : Scan(Typeds, s, t) = With(s, pos, neg, b)

Ends(t) == t \in Seq(Typing) /\ \A s \in TermState : Scan(Typeds, s, t) = Turned(s, FALSE)

LEMMA WithIs ==
  ASSUME NEW s \in TermState, NEW pos \in SUBSET Lexemes, NEW neg \in SUBSET Lexemes, NEW b \in BOOLEAN
  PROVE  With(s, pos, neg, b) \in TermState
BY DEF With, TermState

LEMMA WithTurned ==
  ASSUME NEW s, NEW pos, NEW neg, NEW b, With(s, pos, neg, b) \in TermState
  PROVE  Turned(With(s, pos, neg, b), FALSE) = With(s, pos, neg, FALSE)
<1> DEFINE r == With(s, pos, neg, b)
<1>1. /\ r.positive = With(s, pos, neg, FALSE).positive /\ r.negative = With(s, pos, neg, FALSE).negative
      /\ With(s, pos, neg, FALSE).negated = FALSE
  BY DEF With
<1>2. With(s, pos, neg, FALSE) \in TermState
  BY DEF With, TermState
<1> HIDE DEF r
<1>3. r \in TermState
  BY DEF r
<1>4. [r EXCEPT !.negated = FALSE] = With(s, pos, neg, FALSE)
  BY <1>1, <1>2, <1>3 DEF TermState
<1> QED
  BY <1>4 DEF Turned, r

LEMMA AddsThenEnds ==
  ASSUME NEW a, NEW m, NEW pos, NEW neg, Adds(a, pos, neg), Ends(m)
  PROVE  /\ a \o m \in Seq(Typing)
         /\ \A s \in TermState : ~s.negated => Scan(Typeds, s, a \o m) = With(s, pos, neg, FALSE)
<1>0. a \in Seq(Typing) /\ m \in Seq(Typing) /\ pos \in SUBSET Lexemes /\ neg \in SUBSET Lexemes
  BY DEF Adds, Ends
<1>1. a \o m \in Seq(Typing)
  BY <1>0
<1>2. ASSUME NEW s \in TermState, ~s.negated PROVE Scan(Typeds, s, a \o m) = With(s, pos, neg, FALSE)
  <2>1. PICK b \in BOOLEAN : Scan(Typeds, s, a) = With(s, pos, neg, b)
    BY <1>2 DEF Adds
  <2>2. Scans(TermState, Typing, Typeds, s, a)
    BY <1>0, TypedsAre DEF Scans
  <2>3. Scan(Typeds, s, a \o m) = Scan(Typeds, Scan(Typeds, s, a), m)
    BY ONLY <1>0, <2>2, ScanBoth
  <2>4. With(s, pos, neg, b) \in TermState
    BY <1>0, WithIs
  <2>5. Scan(Typeds, With(s, pos, neg, b), m) = Turned(With(s, pos, neg, b), FALSE)
    BY <2>4 DEF Ends
  <2>6. Turned(With(s, pos, neg, b), FALSE) = With(s, pos, neg, FALSE)
    BY <2>4, WithTurned
  <2> QED
    BY <2>1, <2>3, <2>5, <2>6
<1> QED
  BY <1>1, <1>2

LEMMA AddsBoth ==
  ASSUME NEW a, NEW m, NEW c, NEW p1, NEW n1, NEW p2, NEW n2, Adds(a, p1, n1), Ends(m), Adds(c, p2, n2)
  PROVE  Adds(a \o m \o c, p1 \cup p2, n1 \cup n2)
<1>0. c \in Seq(Typing) /\ p1 \in SUBSET Lexemes /\ n1 \in SUBSET Lexemes /\ p2 \in SUBSET Lexemes /\ n2 \in SUBSET Lexemes
  BY DEF Adds
<1> DEFINE am == a \o m
<1>1. am \in Seq(Typing) /\ \A s \in TermState : ~s.negated => Scan(Typeds, s, am) = With(s, p1, n1, FALSE)
  BY AddsThenEnds, ZenonT(60)
<1> HIDE DEF am
<1>2. am \o c \in Seq(Typing)
  BY <1>0, <1>1
<1>3. ASSUME NEW s \in TermState, ~s.negated
      PROVE  \E b \in BOOLEAN : Scan(Typeds, s, am \o c) = With(s, p1 \cup p2, n1 \cup n2, b)
  <2>1. Scans(TermState, Typing, Typeds, s, am)
    BY <1>1, TypedsAre DEF Scans
  <2>2. Scan(Typeds, s, am \o c) = Scan(Typeds, Scan(Typeds, s, am), c)
    BY ONLY <1>0, <2>1, ScanBoth
  <2>3. Scan(Typeds, s, am) = With(s, p1, n1, FALSE)
    BY <1>1, <1>3
  <2>4. With(s, p1, n1, FALSE) \in TermState /\ ~With(s, p1, n1, FALSE).negated
    BY <1>0, WithIs DEF With
  <2>5. PICK b \in BOOLEAN : Scan(Typeds, With(s, p1, n1, FALSE), c) = With(With(s, p1, n1, FALSE), p2, n2, b)
    BY <2>4 DEF Adds
  <2>6. With(With(s, p1, n1, FALSE), p2, n2, b) = With(s, p1 \cup p2, n1 \cup n2, b)
    BY DEF With
  <2> QED
    BY <2>2, <2>3, <2>5, <2>6
<1>4. p1 \cup p2 \in SUBSET Lexemes /\ n1 \cup n2 \in SUBSET Lexemes
  BY <1>0
<1>5. Adds(am \o c, p1 \cup p2, n1 \cup n2)
  BY <1>2, <1>3, <1>4 DEF Adds
<1> QED
  BY <1>5 DEF am

LEMMA OneTyped ==
  ASSUME NEW s \in TermState, NEW t \in Typing
  PROVE  Scan(Typeds, s, <<t>>) = OnTyped(s, t)
<1>1. Scan(Typeds, s, <<t>>) = Typeds[<<s, t>>]
  BY TypedsAre, ScanOne
<1> QED
  BY <1>1, TypedsAre

LEMMA TypingEnds ==
  /\ \A t \in {"&", "|", "(", ")"} : Ends(<<t>>)
  /\ Ends(<<"<", ">">>)
<1>1. {"&", "|", "(", ")", "<", ">"} \subseteq OperatorTokens
  BY DEF OperatorTokens
<1>2. {"&", "|", "(", ")", "<", ">"} \subseteq Typing
  BY <1>1, TypingIs
<1>3. \A s \in TermState : OnTyped(s, "<") = s /\ \A t \in {"&", "|", "(", ")", ">"} : OnTyped(s, t) = Turned(s, FALSE)
  BY <1>1, OnTokenIs DEF OnTyped
<1>4. ASSUME NEW t \in {"&", "|", "(", ")"} PROVE Ends(<<t>>)
  <2>1. t \in Typing /\ <<t>> \in Seq(Typing)
    BY <1>2
  <2>2. \A s \in TermState : Scan(Typeds, s, <<t>>) = Turned(s, FALSE)
    BY <1>3, <2>1, OneTyped, ZenonT(60)
  <2> QED
    BY <2>1, <2>2 DEF Ends
<1>5. Ends(<<"<", ">">>)
  <2>1. "<" \in Typing /\ ">" \in Typing /\ <<"<", ">">> \in Seq(Typing)
    BY <1>2
  <2>2. \A s \in TermState : Scan(Typeds, s, <<"<", ">">>) = Turned(s, FALSE)
    <3> TAKE s \in TermState
    <3>1. Scan(Typeds, s, <<"<", ">">>) = Typeds[<<Typeds[<<s, "<">>], ">">>]
      BY <2>1, TypedsAre, ScanTwo
    <3>2. Typeds[<<s, "<">>] = s /\ Typeds[<<s, ">">>] = Turned(s, FALSE)
      BY <1>3, <2>1, TypedsAre
    <3> QED
      BY <3>1, <3>2
  <2> QED
    BY <2>1, <2>2 DEF Ends
<1> QED
  BY <1>4, <1>5

LEMMA AddsBracketed ==
  ASSUME NEW a, NEW pos, NEW neg, Adds(a, pos, neg)
  PROVE  Adds(<<"(">> \o a \o <<")">>, pos, neg)
<1> DEFINE l == <<"(">>
           r == <<")">>
           la == l \o a
<1>1. Ends(l) /\ Ends(r)
  BY TypingEnds
<1> HIDE DEF l, r
<1>2. l \in Seq(Typing) /\ r \in Seq(Typing) /\ a \in Seq(Typing) /\ pos \in SUBSET Lexemes /\ neg \in SUBSET Lexemes
  BY <1>1 DEF Ends, Adds
<1>3. la \in Seq(Typing)
  BY <1>2
<1>4. ASSUME NEW s \in TermState, ~s.negated PROVE \E b \in BOOLEAN : Scan(Typeds, s, la) = With(s, pos, neg, b)
  <2>1. Scans(TermState, Typing, Typeds, s, l)
    BY <1>2, TypedsAre DEF Scans
  <2>2. Scan(Typeds, s, la) = Scan(Typeds, Scan(Typeds, s, l), a)
    BY ONLY <1>2, <2>1, ScanBoth
  <2>3. Turned(s, FALSE) = s
    BY <1>4 DEF Turned, TermState
  <2>4. Scan(Typeds, s, l) = s
    BY <1>1, <2>3 DEF Ends
  <2> QED
    BY <1>4, <2>2, <2>4 DEF Adds
<1>5. Adds(la, pos, neg)
  BY <1>2, <1>3, <1>4 DEF Adds
<1> HIDE DEF la
<1>6. la \o r \in Seq(Typing) /\ \A s \in TermState : ~s.negated => Scan(Typeds, s, la \o r) = With(s, pos, neg, FALSE)
  BY ONLY <1>1, <1>5, AddsThenEnds, ZenonT(60)
<1>7. Adds(la \o r, pos, neg)
  BY <1>2, <1>6 DEF Adds
<1> QED
  BY <1>7 DEF la, l, r

LEMMA AddsWord ==
  ASSUME NEW w \in Readable
  PROVE  /\ Adds(<<w>>, IF Kept(w) THEN {Stem[w]} ELSE {}, {})
         /\ Adds(<<"!">> \o <<w>>, {}, IF Kept(w) THEN {Stem[w]} ELSE {})
<1> DEFINE new == IF Kept(w) THEN {Stem[w]} ELSE {}
           one == <<w>>
           not == <<"!">>
<1>1. w \in Typing /\ w \notin OperatorTokens /\ "!" \in Typing /\ "!" \in OperatorTokens
  BY TypingIs DEF Typing, OperatorTokens
<1>2. one \in Seq(Typing) /\ not \in Seq(Typing) /\ new \in SUBSET Lexemes /\ {} \in SUBSET Lexemes
  BY <1>1, TypingIs, LexemesAre
<1>3. \A s \in TermState : Scan(Typeds, s, one) = (IF Kept(w) THEN Found(s, Stem[w]) ELSE s)
  BY <1>1, OneTyped DEF OnTyped
<1>4. \A s \in TermState : Scan(Typeds, s, not) = Turned(s, TRUE)
  BY <1>1, OneTyped, OnTokenIs DEF OnTyped
<1>5. \A s \in TermState : ~s.negated => (IF Kept(w) THEN Found(s, Stem[w]) ELSE s) = With(s, new, {}, FALSE)
  BY DEF Found, With, TermState
<1>6. \A s \in TermState : ~s.negated =>
        (IF Kept(w) THEN Found(Turned(s, TRUE), Stem[w]) ELSE Turned(s, TRUE)) = With(s, {}, new, ~Kept(w))
  BY DEF Found, With, TermState, Turned
<1>7. Kept(w) \in BOOLEAN
  BY DEF Kept
<1> HIDE DEF new, one, not
<1>8. Adds(one, new, {})
  BY <1>2, <1>3, <1>5 DEF Adds
<1>9. not \o one \in Seq(Typing)
  BY <1>2
<1>10. \A s \in TermState : ~s.negated => \E b \in BOOLEAN : Scan(Typeds, s, not \o one) = With(s, {}, new, b)
  <2> TAKE s \in TermState
  <2> HAVE ~s.negated
  <2>1. Scans(TermState, Typing, Typeds, s, not)
    BY <1>2, TypedsAre DEF Scans
  <2>2. Scan(Typeds, s, not \o one) = Scan(Typeds, Scan(Typeds, s, not), one)
    BY ONLY <1>2, <2>1, ScanBoth
  <2>3. Turned(s, TRUE) \in TermState
    BY OnTokenIs
  <2>4. Scan(Typeds, s, not \o one) = With(s, {}, new, ~Kept(w))
    BY <1>3, <1>4, <1>6, <2>2, <2>3
  <2> QED
    BY <1>7, <2>4
<1>11. Adds(not \o one, {}, new)
  BY <1>2, <1>9, <1>10 DEF Adds
<1> QED
  BY <1>8, <1>11 DEF new, one, not

-----------------------------------------------------------------------------
(* The words of a document *)

Occurs(x, s) == \E i \in 1..Len(s) : s[i] = x

LEMMA OccursJoined ==
  ASSUME NEW X, NEW s \in Seq(X), NEW t \in Seq(X), NEW x
  PROVE  Occurs(x, s \o t) <=> Occurs(x, s) \/ Occurs(x, t)
<1> DEFINE st == s \o t
<1>1. /\ Len(s) \in Nat /\ Len(t) \in Nat /\ Len(st) = Len(s) + Len(t)
      /\ \A i \in 1..Len(s) : st[i] = s[i]
      /\ \A i \in 1..Len(t) : st[Len(s) + i] = t[i]
  OBVIOUS
<1> HIDE DEF st
<1>2. Occurs(x, s) => Occurs(x, st)
  <2> SUFFICES ASSUME NEW i \in 1..Len(s), s[i] = x PROVE Occurs(x, st)
    BY DEF Occurs
  <2>1. i \in 1..Len(st) /\ st[i] = x
    BY <1>1
  <2> QED
    BY <2>1 DEF Occurs
<1>3. Occurs(x, t) => Occurs(x, st)
  <2> SUFFICES ASSUME NEW i \in 1..Len(t), t[i] = x PROVE Occurs(x, st)
    BY DEF Occurs
  <2>1. Len(s) + i \in 1..Len(st) /\ st[Len(s) + i] = x
    BY <1>1
  <2> QED
    BY <2>1 DEF Occurs
<1>4. Occurs(x, st) => Occurs(x, s) \/ Occurs(x, t)
  <2> SUFFICES ASSUME NEW i \in 1..Len(st), st[i] = x PROVE Occurs(x, s) \/ Occurs(x, t)
    BY DEF Occurs
  <2>1. CASE i <= Len(s)
    <3>1. i \in 1..Len(s) /\ s[i] = x
      BY <1>1, <2>1
    <3> QED
      BY <3>1 DEF Occurs
  <2>2. CASE ~(i <= Len(s))
    <3>1. i - Len(s) \in 1..Len(t) /\ Len(s) + (i - Len(s)) = i
      BY <1>1, <2>2
    <3>2. t[i - Len(s)] = x
      BY <1>1, <3>1
    <3> QED
      BY <3>1, <3>2 DEF Occurs
  <2> QED
    BY <2>1, <2>2
<1> QED
  BY <1>2, <1>3, <1>4 DEF st

LEMMA OccursFlat ==
  ASSUME NEW X, NEW ss \in Seq(Seq(X)), NEW x
  PROVE  Occurs(x, FlattenSeq(ss)) <=> \E k \in 1..Len(ss) : Occurs(x, ss[k])
<1> DEFINE n == Len(ss)
<1>1. PICK f : IsFlat(f, X, ss)
  BY FlatRun
<1>2. n \in Nat /\ \A i \in 1..n : ss[i] \in Seq(X)
  OBVIOUS
<1>3. f \in [0..n -> Seq(X)] /\ f[0] = <<>> /\ f[n] = FlattenSeq(ss) /\ \A k \in 1..n : f[k] = f[k - 1] \o ss[k]
  BY <1>1 DEF IsFlat
<1> HIDE DEF n
<1> DEFINE T == {k \in 0..n : Occurs(x, f[k]) <=> \E j \in 1..k : Occurs(x, ss[j])}
<1>4. 0 \in T
  <2>1. ~Occurs(x, <<>>)
    BY DEF Occurs
  <2> QED
    BY <1>2, <1>3, <2>1
<1>5. \A k \in 0..(n - 1) : k \in T => k + 1 \in T
  <2> TAKE k \in 0..(n - 1)
  <2> HAVE k \in T
  <2>1. k + 1 \in 1..n /\ (k + 1) - 1 = k /\ k \in 0..n /\ k + 1 \in 0..n /\ \A j \in 1..(k + 1) : j \in 1..k \/ j = k + 1
    BY <1>2
  <2>2. f[k + 1] = f[k] \o ss[k + 1] /\ f[k] \in Seq(X) /\ ss[k + 1] \in Seq(X)
    BY <1>2, <1>3, <2>1
  <2>3. Occurs(x, f[k + 1]) <=> Occurs(x, f[k]) \/ Occurs(x, ss[k + 1])
    BY <2>2, OccursJoined
  <2>4. \A j \in 1..k : j \in 1..(k + 1)
    BY <2>1
  <2> QED
    BY <2>1, <2>3, <2>4
<1> HIDE DEF T
<1>6. n \in T
  <2>1. \A k \in 0..n : k \in T
    BY ONLY <1>2, <1>4, <1>5, Ladder
  <2> QED
    BY <1>2, <2>1
<1> QED
  BY <1>3, <1>6 DEF T, n

LEMMA ProseIs ==
  ASSUME NEW d \in Documents
  PROVE  Prose(d) \in Seq(Words) /\ \A x : Occurs(x, Prose(d)) <=> IsWord(x) /\ Occurs(x, d)
<1> DEFINE ss == [i \in DOMAIN d |-> IF IsWord(d[i]) THEN <<d[i]>> ELSE <<>>]
           no == <<>>
           W  == Seq(Words)
<1>1. d \in Seq(Words \cup OperatorTokens)
  BY TextSearchAssumption
<1>2. Len(d) \in Nat /\ DOMAIN d = 1..Len(d) /\ \A i \in 1..Len(d) : IsWord(d[i]) => d[i] \in Words
  BY <1>1 DEF IsWord
<1>3. no \in W /\ \A w \in Words : <<w>> \in W
  OBVIOUS
<1>4. \A x : ~Occurs(x, no) /\ \A y : Occurs(x, <<y>>) <=> x = y
  BY DEF Occurs
<1> HIDE DEF no, W
<1>5. ss \in Seq(W) /\ Len(ss) = Len(d) /\ \A i \in 1..Len(d) : ss[i] = IF IsWord(d[i]) THEN <<d[i]>> ELSE no
  <2>1. \A i \in 1..Len(d) : (IF IsWord(d[i]) THEN <<d[i]>> ELSE no) \in W
    BY <1>2, <1>3
  <2> QED
    BY <1>2, <2>1 DEF no
<1>6. Prose(d) = FlattenSeq(ss)
  BY DEF Prose
<1> HIDE DEF ss
<1>7. Prose(d) \in Seq(Words)
  BY <1>5, <1>6, FlatIsSeq DEF W
<1>8. ASSUME NEW x PROVE Occurs(x, Prose(d)) <=> IsWord(x) /\ Occurs(x, d)
  <2>1. Occurs(x, Prose(d)) <=> \E k \in 1..Len(ss) : Occurs(x, ss[k])
    BY <1>5, <1>6, OccursFlat DEF W
  <2>2. \A k \in 1..Len(ss) : Occurs(x, ss[k]) <=> IsWord(d[k]) /\ d[k] = x
    BY <1>4, <1>5
  <2>3. Occurs(x, d) <=> \E k \in 1..Len(ss) : d[k] = x
    BY <1>5 DEF Occurs
  <2> QED
    BY <2>1, <2>2, <2>3
<1> QED
  BY <1>7, <1>8

InVector(d) == DOMAIN ToTsvector(d)

LEMMA PlacesIff ==
  ASSUME NEW d \in Documents, NEW w \in Words
  PROVE  Places(d, w) # {} <=> Stem[w] \in InVector(d)
<1> DEFINE s == Prose(d)
           x == Stem[w]
<1>1. s \in Seq(Words) /\ \A y : Occurs(y, s) <=> IsWord(y) /\ Occurs(y, d)
  BY ProseIs
<1>2. d \in Seq(Words \cup OperatorTokens)
  BY TextSearchAssumption
<1>3. x \in InVector(d) <=> \E j \in DOMAIN d : IsWord(d[j]) /\ Kept(d[j]) /\ Stem[d[j]] = x
  BY DEF InVector, ToTsvector
<1>4. Places(d, w) # {} <=> \E i \in DOMAIN s : Kept(s[i]) /\ Stem[s[i]] = x
  BY DEF Places
<1> HIDE DEF s, x
<1>5. (\E i \in DOMAIN s : Kept(s[i]) /\ Stem[s[i]] = x) <=> \E y : Occurs(y, s) /\ Kept(y) /\ Stem[y] = x
  BY <1>1 DEF Occurs
<1>6. (\E j \in DOMAIN d : IsWord(d[j]) /\ Kept(d[j]) /\ Stem[d[j]] = x)
        <=> \E y : IsWord(y) /\ Occurs(y, d) /\ Kept(y) /\ Stem[y] = x
  BY <1>2 DEF Occurs
<1> QED
  BY <1>1, <1>3, <1>4, <1>5, <1>6 DEF x

-----------------------------------------------------------------------------
(* What a query asks for *)

KeptStems(q) == {Stem[w] : w \in {v \in WordsOf(q) : Kept(v)}}
Simple(q)    == NegatesWords(q) /\ WordsOf(q) \subseteq Readable

LEMMA WordQuery ==
  ASSUME NEW q \in Queries, q.op = "word"
  PROVE  /\ Typed[q] = <<q.word>> /\ q.word \in Words /\ WordsOf(q) = {q.word}
         /\ \A op : Uses(q, op) <=> op = "word"
         /\ Matching[q] = {d \in Documents : Places(d, q.word) # {}}
<1>1. q.word \in Words
  BY QueryIs
<1>2. Typed[q] = <<q.word>>
  BY TypedIs DEF TypedStep
<1>3. Subqueries[q] = {q}
  BY SubqueriesIs DEF SubqueriesStep
<1>4. Matching[q] = {d \in Documents : Places(d, q.word) # {}}
  BY MatchingIs DEF MatchingStep
<1> QED
  BY <1>1, <1>2, <1>3, <1>4 DEF WordsOf, Uses

LEMMA NotQuery ==
  ASSUME NEW q \in Queries, q.op = "!"
  PROVE  /\ q.of \in Queries /\ WordsOf(q) = WordsOf(q.of)
         /\ NegatesWords(q) => q.of.op = "word" /\ Typed[q] = <<"!">> \o Typed[q.of]
         /\ \A op : Uses(q, op) <=> op = "!" \/ Uses(q.of, op)
         /\ Matching[q] = Documents \ Matching[q.of]
<1>1. q.of \in Queries
  BY QueryIs
<1>2. Subqueries[q] = {q} \cup Subqueries[q.of]
  BY SubqueriesIs DEF SubqueriesStep
<1>3. Matching[q] = Documents \ Matching[q.of]
  BY MatchingIs DEF MatchingStep
<1>4. NegatesWords(q) => q.of.op = "word"
  BY <1>2 DEF NegatesWords
<1>5. q.of.op = "word" => Typed[q] = <<"!">> \o Typed[q.of]
  BY TypedIs DEF TypedStep
<1>6. WordsOf(q) = WordsOf(q.of)
  BY <1>2 DEF WordsOf
<1>7. \A op : Uses(q, op) <=> op = "!" \/ Uses(q.of, op)
  BY <1>2 DEF Uses
<1> QED
  BY <1>1, <1>3, <1>4, <1>5, <1>6, <1>7

LEMMA JoinQuery ==
  ASSUME NEW q \in Queries, q.op \in Joins
  PROVE  /\ q.left \in Queries /\ q.right \in Queries
         /\ WordsOf(q) = WordsOf(q.left) \cup WordsOf(q.right)
         /\ NegatesWords(q) => NegatesWords(q.left) /\ NegatesWords(q.right)
         /\ \A op : Uses(q, op) <=> op = q.op \/ Uses(q.left, op) \/ Uses(q.right, op)
         /\ \E l, m, r : /\ Typed[q] = l \o m \o r /\ Ends(m)
                         /\ l = Typed[q.left] \/ l = <<"(">> \o Typed[q.left] \o <<")">>
                         /\ r = Typed[q.right] \/ r = <<"(">> \o Typed[q.right] \o <<")">>
         /\ Gone(q.left) => Matching[q] = Matching[q.right]
         /\ ~Gone(q.left) /\ Gone(q.right) => Matching[q] = Matching[q.left]
         /\ ~Gone(q.left) /\ ~Gone(q.right) =>
              /\ q.op = "&" => Matching[q] = Matching[q.left] \cap Matching[q.right]
              /\ q.op = "|" => Matching[q] = Matching[q.left] \cup Matching[q.right]
              /\ q.op = "<->" =>
                   /\ q.left.op = "word" /\ q.right.op = "word"
                   /\ \A d \in Matching[q] : Places(d, q.left.word) # {} /\ Places(d, q.right.word) # {}
<1>0. q.op \notin {"word", "!"} /\ q.op \in {"&", "|", "<->"}
  BY DEF Joins
<1>1. q.left \in Queries /\ q.right \in Queries /\ (q.op = "<->" => q.left.op = "word" /\ q.right.op = "word")
  BY QueryIs
<1>2. Subqueries[q] = {q} \cup Subqueries[q.left] \cup Subqueries[q.right]
  BY <1>0, SubqueriesIs DEF SubqueriesStep
<1>3. WordsOf(q) = WordsOf(q.left) \cup WordsOf(q.right)
  BY <1>0, <1>2 DEF WordsOf
<1>4. NegatesWords(q) => NegatesWords(q.left) /\ NegatesWords(q.right)
  BY <1>2 DEF NegatesWords
<1>5. \A op : Uses(q, op) <=> op = q.op \/ Uses(q.left, op) \/ Uses(q.right, op)
  BY <1>2 DEF Uses
<1>6. \E l, m, r : /\ Typed[q] = l \o m \o r /\ Ends(m)
                   /\ l = Typed[q.left] \/ l = <<"(">> \o Typed[q.left] \o <<")">>
                   /\ r = Typed[q.right] \/ r = <<"(">> \o Typed[q.right] \o <<")">>
  <2> DEFINE Operand(p) == IF p.op \in {"word", "!"} \/ (p.op = q.op /\ p = q.left) THEN Typed[p]
                           ELSE <<"(">> \o Typed[p] \o <<")">>
             m == IF q.op = "<->" THEN <<"<", ">">> ELSE <<q.op>>
  <2>1. Typed[q] = CASE q.op = "word" -> <<q.word>>
                     [] q.op = "!"    -> <<"!">> \o Operand(q.of)
                     [] q.op = "<->"  -> Operand(q.left) \o <<"<", ">">> \o Operand(q.right)
                     [] OTHER         -> Operand(q.left) \o <<q.op>> \o Operand(q.right)
    BY TypedIs DEF TypedStep
  <2>2. Operand(q.left) = Typed[q.left] \/ Operand(q.left) = <<"(">> \o Typed[q.left] \o <<")">>
    OBVIOUS
  <2>3. Operand(q.right) = Typed[q.right] \/ Operand(q.right) = <<"(">> \o Typed[q.right] \o <<")">>
    OBVIOUS
  <2>4. Ends(m)
    BY <1>0, TypingEnds
  <2> HIDE DEF Operand
  <2>5. Typed[q] = Operand(q.left) \o m \o Operand(q.right)
    BY <1>0, <2>1
  <2> HIDE DEF m
  <2> QED
    BY <2>2, <2>3, <2>4, <2>5
<1>7. Matching[q] = MatchingStep(q, Matching)
  BY MatchingIs
<1>8. Gone(q.left) => Matching[q] = Matching[q.right]
  BY <1>0, <1>7 DEF MatchingStep
<1>9. ~Gone(q.left) /\ Gone(q.right) => Matching[q] = Matching[q.left]
  BY <1>0, <1>7 DEF MatchingStep
<1>10. ~Gone(q.left) /\ ~Gone(q.right) /\ q.op = "&" => Matching[q] = Matching[q.left] \cap Matching[q.right]
  BY <1>0, <1>7 DEF MatchingStep
<1>11. ~Gone(q.left) /\ ~Gone(q.right) /\ q.op = "|" => Matching[q] = Matching[q.left] \cup Matching[q.right]
  BY <1>0, <1>7 DEF MatchingStep
<1>12. ~Gone(q.left) /\ ~Gone(q.right) /\ q.op = "<->" =>
         Matching[q] = {d \in Documents : \E i \in Places(d, q.left.word) : i + 1 \in Places(d, q.right.word)}
  BY <1>0, <1>7 DEF MatchingStep
<1>13. ~Gone(q.left) /\ ~Gone(q.right) /\ q.op = "<->" =>
         \A d \in Matching[q] : Places(d, q.left.word) # {} /\ Places(d, q.right.word) # {}
  BY <1>12
<1> QED
  BY <1>1, <1>3, <1>4, <1>5, <1>6, <1>8, <1>9, <1>10, <1>11, <1>13

-----------------------------------------------------------------------------
(* The terms that stand for a query *)

RankHolds(pos, neg, d) == pos \subseteq InVector(d) /\ neg \cap InVector(d) = {}

StandFor(q, pos, neg, d) ==
  /\ Adds(Typed[q], pos, neg) /\ IsFiniteSet(pos)
  /\ pos \cup neg = KeptStems(q)
  /\ ~Uses(q, "!") => neg = {}
  /\ ~Gone(q) /\ ~Uses(q, "<->") => (RankHolds(pos, neg, d) => d \in Matching[q])
  /\ ~Gone(q) /\ ~Uses(q, "|")   => (d \in Matching[q] => RankHolds(pos, neg, d))

LEMMA KeptStemsIs ==
  ASSUME NEW q
  PROVE  KeptStems(q) = {} <=> Gone(q)
BY DEF KeptStems, Gone

LEMMA WordStands ==
  ASSUME NEW d \in Documents, NEW q \in Queries, q.op = "word", WordsOf(q) \subseteq Readable
  PROVE  \E pos, neg : StandFor(q, pos, neg, d)
<1> DEFINE w   == q.word
           pos == IF Kept(w) THEN {Stem[w]} ELSE {}
           none == {}
<1>1. /\ Typed[q] = <<w>> /\ w \in Words /\ WordsOf(q) = {w}
      /\ \A op : Uses(q, op) <=> op = "word"
      /\ Matching[q] = {e \in Documents : Places(e, w) # {}}
  BY WordQuery
<1>2. Adds(Typed[q], pos, none)
  BY <1>1, AddsWord
<1>3. IsFiniteSet(pos)
  BY FS_EmptySet, FS_Singleton
<1>4. pos \cup none = KeptStems(q)
  BY <1>1 DEF KeptStems
<1>5. Gone(q) <=> ~Kept(w)
  BY <1>1 DEF Gone
<1>6. d \in Matching[q] <=> Stem[w] \in InVector(d)
  BY <1>1, PlacesIff
<1>7. Kept(w) => (d \in Matching[q] <=> RankHolds(pos, none, d))
  BY <1>6 DEF RankHolds
<1> HIDE DEF pos
<1>8. StandFor(q, pos, none, d)
  BY <1>2, <1>3, <1>4, <1>5, <1>7 DEF StandFor
<1> QED
  BY <1>8

LEMMA NotStands ==
  ASSUME NEW d \in Documents, NEW q \in Queries, q.op = "!", Simple(q)
  PROVE  \E pos, neg : StandFor(q, pos, neg, d)
<1> DEFINE p    == q.of
           w    == p.word
           neg  == IF Kept(w) THEN {Stem[w]} ELSE {}
           none == {}
<1>1. /\ p \in Queries /\ p.op = "word" /\ WordsOf(q) = WordsOf(p)
      /\ Typed[q] = <<"!">> \o Typed[p] /\ Uses(q, "!") /\ Matching[q] = Documents \ Matching[p]
  BY NotQuery DEF Simple
<1>2. /\ Typed[p] = <<w>> /\ w \in Words /\ WordsOf(p) = {w}
      /\ Matching[p] = {e \in Documents : Places(e, w) # {}}
  BY <1>1, WordQuery
<1>3. w \in Readable
  BY <1>1, <1>2 DEF Simple
<1> HIDE DEF p
<1>4. Adds(Typed[q], none, neg)
  BY <1>1, <1>2, <1>3, AddsWord
<1>5. IsFiniteSet(none)
  BY FS_EmptySet
<1>6. none \cup neg = KeptStems(q)
  BY <1>1, <1>2 DEF KeptStems
<1>7. Gone(q) <=> ~Kept(w)
  BY <1>1, <1>2 DEF Gone
<1>8. d \in Matching[q] <=> Stem[w] \notin InVector(d)
  BY <1>1, <1>2, PlacesIff
<1>9. Kept(w) => (d \in Matching[q] <=> RankHolds(none, neg, d))
  BY <1>8 DEF RankHolds
<1> HIDE DEF neg
<1>10. StandFor(q, none, neg, d)
  BY <1>1, <1>4, <1>5, <1>6, <1>7, <1>9 DEF StandFor
<1> QED
  BY <1>10

LEMMA JoinStands ==
  ASSUME NEW d \in Documents, NEW q \in Queries, q.op \in Joins,
         NEW p1, NEW n1, StandFor(q.left, p1, n1, d),
         NEW p2, NEW n2, StandFor(q.right, p2, n2, d)
  PROVE  \E pos, neg : StandFor(q, pos, neg, d)
<1> DEFINE l == q.left
           r == q.right
           pos == p1 \cup p2
           neg == n1 \cup n2
<1>1. /\ l \in Queries /\ r \in Queries
      /\ WordsOf(q) = WordsOf(l) \cup WordsOf(r)
      /\ \A op : Uses(q, op) <=> op = q.op \/ Uses(l, op) \/ Uses(r, op)
      /\ Gone(l) => Matching[q] = Matching[r]
      /\ ~Gone(l) /\ Gone(r) => Matching[q] = Matching[l]
  BY JoinQuery
<1>2. ~Gone(l) /\ ~Gone(r) =>
              /\ q.op = "&" => Matching[q] = Matching[l] \cap Matching[r]
              /\ q.op = "|" => Matching[q] = Matching[l] \cup Matching[r]
              /\ q.op = "<->" =>
                   /\ l.op = "word" /\ r.op = "word"
                   /\ \A e \in Matching[q] : Places(e, l.word) # {} /\ Places(e, r.word) # {}
  BY JoinQuery
<1>3. PICK a, m, c : /\ Typed[q] = a \o m \o c /\ Ends(m)
                     /\ a = Typed[l] \/ a = <<"(">> \o Typed[l] \o <<")">>
                     /\ c = Typed[r] \/ c = <<"(">> \o Typed[r] \o <<")">>
  BY JoinQuery
<1>4. /\ Adds(Typed[l], p1, n1) /\ IsFiniteSet(p1) /\ p1 \cup n1 = KeptStems(l) /\ (~Uses(l, "!") => n1 = {})
      /\ ~Gone(l) /\ ~Uses(l, "<->") => (RankHolds(p1, n1, d) => d \in Matching[l])
      /\ ~Gone(l) /\ ~Uses(l, "|")   => (d \in Matching[l] => RankHolds(p1, n1, d))
  BY DEF StandFor
<1>5. /\ Adds(Typed[r], p2, n2) /\ IsFiniteSet(p2) /\ p2 \cup n2 = KeptStems(r) /\ (~Uses(r, "!") => n2 = {})
      /\ ~Gone(r) /\ ~Uses(r, "<->") => (RankHolds(p2, n2, d) => d \in Matching[r])
      /\ ~Gone(r) /\ ~Uses(r, "|")   => (d \in Matching[r] => RankHolds(p2, n2, d))
  BY DEF StandFor
<1> HIDE DEF l, r
<1>6. Adds(a, p1, n1) /\ Adds(c, p2, n2)
  BY <1>3, <1>4, <1>5, AddsBracketed
<1>7. Adds(Typed[q], pos, neg)
  BY <1>3, <1>6, AddsBoth
<1>8. IsFiniteSet(pos)
  BY <1>4, <1>5, FS_Union
<1>9. KeptStems(q) = KeptStems(l) \cup KeptStems(r)
  BY <1>1 DEF KeptStems
<1>10. pos \cup neg = KeptStems(q)
  BY <1>4, <1>5, <1>9
<1>11. ~Uses(q, "!") => neg = {}
  BY <1>1, <1>4, <1>5
<1>12. (Gone(l) <=> KeptStems(l) = {}) /\ (Gone(r) <=> KeptStems(r) = {}) /\ (Gone(q) <=> KeptStems(q) = {})
  BY KeptStemsIs
<1>13. RankHolds(pos, neg, d) <=> RankHolds(p1, n1, d) /\ RankHolds(p2, n2, d)
  BY DEF RankHolds
<1>14. (Gone(l) => RankHolds(p1, n1, d)) /\ (Gone(r) => RankHolds(p2, n2, d)) /\ (Gone(q) <=> Gone(l) /\ Gone(r))
  BY <1>4, <1>5, <1>9, <1>12 DEF RankHolds
<1>15. q.op = "<->" /\ ~Gone(l) /\ ~Gone(r) =>
         \A e \in Matching[q] : e \in Documents => e \in Matching[l] /\ e \in Matching[r]
  <2> SUFFICES ASSUME q.op = "<->", ~Gone(l), ~Gone(r), NEW e \in Matching[q], e \in Documents
               PROVE  e \in Matching[l] /\ e \in Matching[r]
    OBVIOUS
  <2>1. l.op = "word" /\ r.op = "word" /\ Places(e, l.word) # {} /\ Places(e, r.word) # {}
    BY <1>2
  <2>2. Matching[l] = {f \in Documents : Places(f, l.word) # {}}
    BY <1>1, <2>1, WordQuery
  <2>3. Matching[r] = {f \in Documents : Places(f, r.word) # {}}
    BY <1>1, <2>1, WordQuery
  <2> QED
    BY <2>1, <2>2, <2>3
<1>16. ASSUME ~Gone(q), ~Uses(q, "<->"), RankHolds(pos, neg, d) PROVE d \in Matching[q]
  <2>1. ~Uses(l, "<->") /\ ~Uses(r, "<->") /\ q.op \in {"&", "|"}
    BY <1>1, <1>16 DEF Joins
  <2>2. (~Gone(l) => d \in Matching[l]) /\ (~Gone(r) => d \in Matching[r])
    BY <1>4, <1>5, <1>13, <1>16, <2>1
  <2> QED
    BY <1>1, <1>2, <1>14, <1>16, <2>1, <2>2
<1>17. ASSUME ~Gone(q), ~Uses(q, "|"), d \in Matching[q] PROVE RankHolds(pos, neg, d)
  <2>1. ~Uses(l, "|") /\ ~Uses(r, "|") /\ q.op \in {"&", "<->"}
    BY <1>1, <1>17 DEF Joins
  <2>2. (~Gone(l) => d \in Matching[l]) /\ (~Gone(r) => d \in Matching[r])
    BY <1>1, <1>2, <1>15, <1>17, <2>1
  <2> QED
    BY <1>4, <1>5, <1>13, <1>14, <2>1, <2>2
<1>18. StandFor(q, pos, neg, d)
  BY <1>7, <1>8, <1>10, <1>11, <1>16, <1>17 DEF StandFor
<1> QED
  BY <1>18

LEMMA TermsStand ==
  ASSUME NEW d \in Documents
  PROVE  \A q \in Queries : Simple(q) => \E pos, neg : StandFor(q, pos, neg, d)
<1> DEFINE T == {q \in Queries : Simple(q) => \E pos, neg : StandFor(q, pos, neg, d)}
<1>1. ASSUME NEW q \in Queries, \A p \in Queries : Rank[p] < Rank[q] => p \in T PROVE q \in T
  <2> SUFFICES ASSUME Simple(q) PROVE \E pos, neg : StandFor(q, pos, neg, d)
    OBVIOUS
  <2>1. CASE q.op = "word"
    BY <2>1, WordStands DEF Simple
  <2>2. CASE q.op = "!"
    BY <2>2, NotStands
  <2>3. CASE q.op \in Joins
    <3>1. q.left \in Queries /\ q.right \in Queries /\ Rank[q.left] < Rank[q] /\ Rank[q.right] < Rank[q]
      BY <2>3, QueryIs
    <3>2. Simple(q.left) /\ Simple(q.right)
      BY <2>3, JoinQuery DEF Simple
    <3>3. PICK p1, n1 : StandFor(q.left, p1, n1, d)
      BY <1>1, <3>1, <3>2
    <3>4. PICK p2, n2 : StandFor(q.right, p2, n2, d)
      BY <1>1, <3>1, <3>2
    <3> QED
      BY ONLY <2>3, <3>3, <3>4, JoinStands, q \in Queries, d \in Documents
  <2> QED
    BY <2>1, <2>2, <2>3, QueryIs
<1> HIDE DEF T
<1>2. Queries \subseteq T
  BY <1>1, QueryIs, TreeInduction
<1> QED
  BY <1>2 DEF T

LEMMA RankIs ==
  ASSUME NEW pos, IsFiniteSet(pos), NEW D
  PROVE  /\ Cardinality(pos \cap D) = Cardinality(pos) <=> pos \subseteq D
         /\ Cardinality(pos \cap D) = 0 <=> pos \cap D = {}
<1>1. IsFiniteSet(pos \cap D)
  BY FS_Subset
<1>2. Cardinality(pos \cap D) = 0 <=> pos \cap D = {}
  BY <1>1, FS_EmptySet
<1>3. Cardinality(pos) = Cardinality(pos \cap D) => pos = pos \cap D
  BY FS_Subset
<1>4. Cardinality(pos \cap D) \in Nat /\ Cardinality(pos) \in Nat
  BY <1>1, FS_CardinalityType
<1>5. pos \subseteq D <=> pos \cap D = pos
  OBVIOUS
<1> QED
  BY <1>2, <1>3, <1>4, <1>5

Sought(d, q) ==
  LET vector  == ToTsvector(d)
      asked   == ToTsquery(Typed[q])
      found   == Tsmatch(vector, asked)
      matches == d \in Matching[q]
      rank    == TsRank(vector, asked)
  IN  NegatesWords(q) /\ ~Gone(q) /\ ReadAsWords(q) =>
        /\ ~Uses(q, "<->") => (found => matches)
        /\ ~Uses(q, "|")   => (matches => found)
        /\ ~Uses(q, "!")   =>
             /\ rank.found = rank.of <=> found
             /\ rank.found = 0 <=>
                  \A p \in Subqueries[q] :
                    p.op = "word" /\ Kept(p.word) => d \notin Matching[p]

LEMMA SoughtHolds ==
  ASSUME NEW d \in Documents, NEW q \in Queries
  PROVE  Sought(d, q)
<1> DEFINE vector  == ToTsvector(d)
           asked   == ToTsquery(Typed[q])
           found   == Tsmatch(vector, asked)
           rank    == TsRank(vector, asked)
<1> SUFFICES ASSUME NegatesWords(q), ~Gone(q), ReadAsWords(q)
             PROVE  /\ ~Uses(q, "<->") => (found => d \in Matching[q])
                    /\ ~Uses(q, "|")   => (d \in Matching[q] => found)
                    /\ ~Uses(q, "!")   =>
                         /\ rank.found = rank.of <=> found
                         /\ rank.found = 0 <=>
                              \A p \in Subqueries[q] :
                                p.op = "word" /\ Kept(p.word) => d \notin Matching[p]
  BY Zenon DEF Sought
<1>1. Subqueries[q] \subseteq Queries
  BY SubqueriesIs
<1>2. WordsOf(q) \subseteq Words
  BY <1>1, QueryIs DEF WordsOf
<1>3. WordsOf(q) \subseteq Readable
  BY <1>2, LexemesAre DEF ReadAsWords, Readable, Clear
<1>4. PICK pos, neg : StandFor(q, pos, neg, d)
  BY <1>3, TermsStand DEF Simple
<1>5. /\ Adds(Typed[q], pos, neg) /\ IsFiniteSet(pos)
      /\ pos \cup neg = KeptStems(q) /\ (~Uses(q, "!") => neg = {})
      /\ ~Uses(q, "<->") => (RankHolds(pos, neg, d) => d \in Matching[q])
      /\ ~Uses(q, "|")   => (d \in Matching[q] => RankHolds(pos, neg, d))
  BY <1>4 DEF StandFor
<1>6. Typed[q] \in Seq(Typing)
  BY <1>5 DEF Adds
<1>7. ExtractTerms(asked).positive = pos /\ ExtractTerms(asked).negative = neg
  <2>1. NoTerms \in TermState /\ ~NoTerms.negated /\ NoTerms.positive = {} /\ NoTerms.negative = {}
    BY TermsAre DEF NoTerms
  <2>2. PICK b \in BOOLEAN : Scan(Typeds, NoTerms, Typed[q]) = With(NoTerms, pos, neg, b)
    BY <1>5, <2>1 DEF Adds
  <2>3. ExtractTerms(asked) = With(NoTerms, pos, neg, b)
    BY <1>6, <2>2, AskedTerms
  <2>4. With(NoTerms, pos, neg, b).positive = {} \cup pos /\ With(NoTerms, pos, neg, b).negative = {} \cup neg
    BY <2>1 DEF With
  <2> QED
    BY <2>3, <2>4
<1>8. found <=> RankHolds(pos, neg, d)
  BY <1>7 DEF Tsmatch, RankHolds, InVector
<1>9. rank.found = Cardinality(pos \cap InVector(d)) /\ rank.of = Cardinality(pos)
  BY <1>7 DEF TsRank, InVector
<1>10. ASSUME ~Uses(q, "!") PROVE rank.found = rank.of <=> found
  <2>1. RankHolds(pos, neg, d) <=> pos \subseteq InVector(d)
    BY <1>5, <1>10 DEF RankHolds
  <2> QED
    BY <1>5, <1>8, <1>9, <2>1, RankIs
<1>11. \A p \in Subqueries[q] : p.op = "word" => (d \in Matching[p] <=> Stem[p.word] \in InVector(d))
  <2> TAKE p \in Subqueries[q]
  <2> HAVE p.op = "word"
  <2>1. p.word \in Words /\ Matching[p] = {e \in Documents : Places(e, p.word) # {}}
    BY <1>1, WordQuery
  <2> QED
    BY <2>1, PlacesIff
<1>12. KeptStems(q) = {Stem[p.word] : p \in {r \in Subqueries[q] : r.op = "word" /\ Kept(r.word)}}
  BY DEF KeptStems, WordsOf
<1>13. ASSUME ~Uses(q, "!")
       PROVE  rank.found = 0 <=> \A p \in Subqueries[q] : p.op = "word" /\ Kept(p.word) => d \notin Matching[p]
  <2>1. pos = KeptStems(q)
    BY <1>5, <1>13
  <2>2. rank.found = 0 <=> pos \cap InVector(d) = {}
    BY <1>5, <1>9, RankIs
  <2>3. pos \cap InVector(d) = {} <=>
          \A p \in Subqueries[q] : p.op = "word" /\ Kept(p.word) => Stem[p.word] \notin InVector(d)
    BY <1>12, <2>1
  <2> QED
    BY <1>11, <2>2, <2>3
<1> HIDE DEF found, rank
<1> QED
  BY <1>5, <1>8, <1>10, <1>13

\* Whatever is sought in whatever document, by whatever words, stems and stop
\* words: what tsmatch finds is what PostgreSQL finds, as far as TextSearch says.
THEOREM TsmatchFinds == SearchSpec => []TsmatchFindsDocuments
<1> DEFINE Inv == document \in Documents /\ sought \in Queries
<1>1. SearchInit => Inv
  BY DEF SearchInit
<1>2. Inv /\ [UNCHANGED searchVars]_searchVars => Inv'
  BY DEF searchVars
<1>3. Inv => TsmatchFindsDocuments
  <2> SUFFICES ASSUME Inv PROVE TsmatchFindsDocuments
    OBVIOUS
  <2>1. Sought(document, sought)
    BY SoughtHolds
  <2> QED
    BY <2>1, Zenon DEF Sought, TsmatchFindsDocuments
<1> QED
  BY <1>1, <1>2, <1>3, PTL DEF SearchSpec
=============================================================================
