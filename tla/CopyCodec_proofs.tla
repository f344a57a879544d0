--------------------------- MODULE CopyCodec_proofs ---------------------------
(***************************************************************************)
(* What comes back of a table that is copied out and in again, in each of  *)
(* the formats, for any tables and any sensible options.                   *)
(*                                                                         *)
(* Reading is a scan: a state that takes one character after the other.    *)
(* What was joined from pieces is scanned piece by piece, so that it is    *)
(* enough to know the state after each piece: after each part of a line    *)
(* that is split, after each escape of a text, and after each field of a   *)
(* line of CSV.  A reader of CSV that looks ahead is one that looks back.  *)
(*                                                                         *)
(* That a table does not come back is seen from what is read: it never has *)
(* a line feed in it, or a delimiter, nor is it what stands for NULL.      *)
(***************************************************************************)
EXTENDS CopyCodec, WellFoundedInduction, TLAPS

-----------------------------------------------------------------------------
(* Induction and recursion over the places of a sequence *)

Below == {p \in Nat \X Nat : p[1] < p[2]}

\* Every set of natural numbers has a least one.
LEMMA LeastNat ==
  ASSUME NEW T, T \subseteq Nat, T # {}
  PROVE  \E m \in T : \A k \in T : m <= k
<1>1. OpToRel(<, Nat) = Below
  BY Zenon DEF OpToRel, Below
<1>2. IsWellFoundedOn(Below, Nat)
  BY NatLessThanWellFounded, <1>1, Zenon
<1>3. \E m \in T : \A k \in T : <<k, m>> \notin Below
  BY <1>2, WFMin, Zenon
<1>4. \A k, m \in Nat : <<k, m>> \in Below <=> k < m
  BY Zenon DEF Below
<1>5. PICK m \in T : \A k \in T : <<k, m>> \notin Below
  BY <1>3
<1>6. \A k \in T : ~(k < m)
  BY <1>4, <1>5, Zenon
<1> QED
  BY <1>6

\* What holds at the beginning and is handed on from place to place holds up to
\* the end.
LEMMA Ladder ==
  ASSUME NEW n \in Nat, NEW T, 0 \in T, \A k \in 0..(n - 1) : k \in T => k + 1 \in T
  PROVE  \A k \in 0..n : k \in T
<1> DEFINE bad == {k \in 0..n : k \notin T}
<1> SUFFICES ASSUME bad # {} PROVE FALSE
  OBVIOUS
<1>0. bad \subseteq Nat
  OBVIOUS
<1> HIDE DEF bad
<1>1. PICK m \in bad : \A k \in bad : m <= k
  BY <1>0, LeastNat
<1>2. m # 0 /\ m - 1 \in 0..(n - 1) /\ m - 1 \in T /\ (m - 1) + 1 = m
  BY <1>1 DEF bad
<1> QED
  BY <1>1, <1>2 DEF bad

-----------------------------------------------------------------------------
(* Induction and recursion over trees *)

\* What a tree gives depends on the trees of a lower rank only.
Lowers(S, h, V, G) ==
  /\ h \in [S -> Nat] /\ V # {} /\ G \in [S \X [S -> V] -> V]
  /\ \A x \in S : \A f, g \in [S -> V] :
       (\A y \in S : h[y] < h[x] => f[y] = g[y]) => G[<<x, f>>] = G[<<x, g>>]

UpTo(S, h, V, G, k) == {f \in [S -> V] : \A x \in S : h[x] < k => f[x] = G[<<x, f>>]}

LEMMA TreeInduction ==
  ASSUME NEW S, NEW h \in [S -> Nat], NEW T,
         \A x \in S : (\A y \in S : h[y] < h[x] => y \in T) => x \in T
  PROVE  S \subseteq T
<1> DEFINE bad == {x \in S : x \notin T}
           ranks == {h[x] : x \in bad}
<1> SUFFICES ASSUME bad # {} PROVE FALSE
  OBVIOUS
<1>1. ranks \subseteq Nat /\ ranks # {}
  OBVIOUS
<1>2. PICK m \in ranks : \A k \in ranks : m <= k
  <2> HIDE DEF ranks
  <2> QED
    BY <1>1, LeastNat
<1>3. PICK x \in bad : m = h[x]
  BY <1>2
<1>4. x \in S /\ x \notin T
  BY <1>3
<1>5. PICK y \in S : h[y] < h[x] /\ y \notin T
  BY <1>4
<1>6. h[y] \in ranks
  BY <1>5
<1>7. h[y] \in Nat /\ h[x] \in Nat /\ m <= h[y]
  BY <1>2, <1>4, <1>5, <1>6
<1> QED
  BY <1>3, <1>5, <1>7

LEMMA TreesAgree ==
  ASSUME NEW S, NEW h \in [S -> Nat], NEW f, NEW g,
         \A x \in S : (\A y \in S : h[y] < h[x] => f[y] = g[y]) => f[x] = g[x]
  PROVE  \A x \in S : f[x] = g[x]
<1> DEFINE T == {x \in S : f[x] = g[x]}
<1>1. \A x \in S : (\A y \in S : h[y] < h[x] => y \in T) => x \in T
  OBVIOUS
<1> HIDE DEF T
<1>2. S \subseteq T
  BY <1>1, TreeInduction
<1> QED
  BY <1>2 DEF T

LEMMA UpToAgree ==
  ASSUME NEW S, NEW h, NEW V, NEW G, Lowers(S, h, V, G), NEW k \in Nat, NEW l \in Nat, k <= l,
         NEW f \in UpTo(S, h, V, G, k), NEW g \in UpTo(S, h, V, G, l)
  PROVE  \A x \in S : h[x] < k => f[x] = g[x]
<1> DEFINE T == {x \in S : h[x] < k => f[x] = g[x]}
<1>0. h \in [S -> Nat] /\ f \in [S -> V] /\ g \in [S -> V]
  BY DEF Lowers, UpTo
<1>1. ASSUME NEW x \in S, \A y \in S : h[y] < h[x] => y \in T PROVE x \in T
  <2> SUFFICES ASSUME h[x] < k PROVE f[x] = g[x]
    OBVIOUS
  <2>0. h[x] \in Nat /\ h[x] < l
    BY <1>0
  <2>1. \A y \in S : h[y] < h[x] => f[y] = g[y]
    <3> TAKE y \in S
    <3> HAVE h[y] < h[x]
    <3>1. h[y] < k /\ y \in T
      BY <1>0, <1>1, <2>0
    <3> QED
      BY <3>1
  <2>2. G[<<x, f>>] = G[<<x, g>>]
    BY <1>0, <2>1 DEF Lowers
  <2>3. f[x] = G[<<x, f>>] /\ g[x] = G[<<x, g>>]
    BY <2>0 DEF UpTo
  <2> QED
    BY <2>2, <2>3
<1> HIDE DEF T
<1>2. S \subseteq T
  BY ONLY <1>0, <1>1, TreeInduction
<1> QED
  BY <1>2 DEF T

LEMMA UpToSome ==
  ASSUME NEW S, NEW h, NEW V, NEW G, Lowers(S, h, V, G), NEW n \in Nat
  PROVE  UpTo(S, h, V, G, n) # {}
<1> DEFINE T == {k \in 0..n : UpTo(S, h, V, G, k) # {}}
<1>0. h \in [S -> Nat] /\ V # {} /\ G \in [S \X [S -> V] -> V]
  BY DEF Lowers
<1>1. 0 \in T
  <2> PICK v \in V : TRUE
    BY <1>0
  <2> DEFINE f == [x \in S |-> v]
  <2>1. f \in [S -> V] /\ \A x \in S : ~(h[x] < 0)
    BY <1>0
  <2>2. f \in UpTo(S, h, V, G, 0)
    BY <2>1 DEF UpTo
  <2> QED
    BY <2>2
<1>2. \A k \in 0..(n - 1) : k \in T => k + 1 \in T
  <2> TAKE k \in 0..(n - 1)
  <2> HAVE k \in T
  <2>1. PICK f \in UpTo(S, h, V, G, k) : TRUE
    OBVIOUS
  <2>2. f \in [S -> V] /\ \A x \in S : h[x] < k => f[x] = G[<<x, f>>]
    BY <2>1 DEF UpTo
  <2> DEFINE g == [x \in S |-> G[<<x, f>>]]
  <2>3. g \in [S -> V]
    BY <1>0, <2>2
  <2>4. \A x \in S : h[x] < k + 1 => g[x] = G[<<x, g>>]
    <3> TAKE x \in S
    <3> HAVE h[x] < k + 1
    <3>1. \A y \in S : h[y] < h[x] => f[y] = g[y]
      <4> TAKE y \in S
      <4> HAVE h[y] < h[x]
      <4>0. h[y] \in Nat /\ h[x] \in Nat /\ k \in Nat
        BY <1>0
      <4>1. h[y] < k
        BY ONLY <4>0, h[y] < h[x], h[x] < k + 1
      <4> QED
        BY <2>2, <4>1
    <3> HIDE DEF g
    <3>2. G[<<x, f>>] = G[<<x, g>>]
      BY <2>2, <2>3, <3>1 DEF Lowers
    <3> QED
      BY <3>2 DEF g
  <2> HIDE DEF g
  <2>5. g \in UpTo(S, h, V, G, k + 1)
    BY <2>3, <2>4 DEF UpTo
  <2>6. k + 1 \in 0..n
    OBVIOUS
  <2> QED
    BY <2>5, <2>6
<1> HIDE DEF T
<1>3. \A k \in 0..n : k \in T
  BY ONLY <1>1, <1>2, Ladder, n \in Nat
<1> QED
  BY <1>3 DEF T

\* There is the function that such a recursion defines.
LEMMA TreeRecursion ==
  ASSUME NEW S, NEW h, NEW V, NEW G, Lowers(S, h, V, G)
  PROVE  \E f \in [S -> V] : f = [x \in S |-> G[<<x, f>>]]
<1> DEFINE A(k) == UpTo(S, h, V, G, k)
           g    == [x \in S |-> CHOOSE f \in A(h[x] + 1) : TRUE]
           f    == [x \in S |-> g[x][x]]
<1>0. h \in [S -> Nat] /\ G \in [S \X [S -> V] -> V]
  BY DEF Lowers
<1>1. \A x \in S : h[x] + 1 \in Nat /\ A(h[x] + 1) # {}
  BY <1>0, UpToSome
<1>2. \A x \in S : g[x] \in A(h[x] + 1)
  <2> HIDE DEF A
  <2> QED
    BY <1>1
<1> HIDE DEF g
<1>3. \A x \in S : g[x] \in [S -> V] /\ \A y \in S : h[y] < h[x] + 1 => g[x][y] = G[<<y, g[x]>>]
  BY <1>2 DEF UpTo
<1>4. f \in [S -> V]
  BY <1>3
<1>5. \A x \in S : f[x] = G[<<x, f>>]
  <2> TAKE x \in S
  <2>1. \A y \in S : h[y] < h[x] => f[y] = g[x][y]
    <3> TAKE y \in S
    <3> HAVE h[y] < h[x]
    <3>1. h[y] + 1 \in Nat /\ h[x] + 1 \in Nat /\ h[y] + 1 <= h[x] + 1 /\ h[y] < h[y] + 1
      BY <1>0
    <3>2. g[y][y] = g[x][y]
      BY <1>2, <3>1, UpToAgree
    <3> QED
      BY <3>2
  <2> HIDE DEF f
  <2>2. G[<<x, f>>] = G[<<x, g[x]>>]
    BY <1>3, <1>4, <2>1 DEF Lowers
  <2>3. g[x][x] = G[<<x, g[x]>>]
    <3>1. h[x] \in Nat /\ h[x] < h[x] + 1
      BY <1>0
    <3> QED
      BY <1>3, <3>1
  <2> QED
    BY <2>2, <2>3 DEF f
<1>6. f = [x \in S |-> f[x]]
  OBVIOUS
<1> HIDE DEF f
<1>7. f = [x \in S |-> G[<<x, f>>]]
  BY <1>5, <1>6
<1> QED
  BY <1>4, <1>7

-----------------------------------------------------------------------------
(* Scanning a sequence: the state after its last member *)

Scan(step, q, s) ==
  LET f[i \in 0..Len(s)] == IF i = 0 THEN q ELSE step[<<f[i - 1], s[i]>>] IN f[Len(s)]

Steps(S, X) == [S \X X -> S]

Scans(S, X, step, q, s) == step \in Steps(S, X) /\ q \in S /\ s \in Seq(X)

Follows(f, step, q, s) == f[0] = q /\ \A i \in 1..Len(s) : f[i] = step[<<f[i - 1], s[i]>>]

IsScan(f, S, step, q, s) ==
  f \in [0..Len(s) -> S] /\ Follows(f, step, q, s) /\ f[Len(s)] = Scan(step, q, s)

\* Whatever follows the steps ends with what Scan gives.
LEMMA ScanRun ==
  ASSUME NEW S, NEW X, NEW step, NEW q, NEW s, Scans(S, X, step, q, s)
  PROVE  \E f : IsScan(f, S, step, q, s)
<1> DEFINE n == Len(s)
           IsRun(f, m) == f \in [0..m -> S] /\ f = [i \in 0..m |-> IF i = 0 THEN q ELSE step[<<f[i - 1], s[i]>>]]
           T == {m \in 0..n : \E f : IsRun(f, m)}
<1>0. n \in Nat /\ (\A i \in 1..n : s[i] \in X) /\ step \in [S \X X -> S] /\ q \in S
  BY DEF Steps, Scans
<1>1. 0 \in T
  <2>1. IsRun([i \in 0..0 |-> q], 0)
    BY <1>0
  <2> HIDE DEF IsRun
  <2> QED
    BY <1>0, <2>1
<1>2. ASSUME NEW k \in 0..(n - 1), k \in T PROVE k + 1 \in T
  <2>1. PICK f : IsRun(f, k)
    BY <1>2
  <2> DEFINE more == step[<<f[k], s[k + 1]>>]
             g    == [i \in 0..(k + 1) |-> IF i = k + 1 THEN more ELSE f[i]]
  <2>2. more \in S
    BY <1>0, <2>1
  <2>3. g \in [0..(k + 1) -> S]
    BY <1>0, <2>1, <2>2
  <2>4. ASSUME NEW i \in 0..(k + 1) PROVE g[i] = IF i = 0 THEN q ELSE step[<<g[i - 1], s[i]>>]
    <3>1. CASE i = k + 1
      <4>1. i # 0 /\ g[i] = more /\ g[i - 1] = f[k]
        BY <1>0, <3>1
      <4> HIDE DEF g
      <4> QED
        BY <3>1, <4>1
    <3>2. CASE i \in 0..k
      <4>1. f[i] = IF i = 0 THEN q ELSE step[<<f[i - 1], s[i]>>]
        BY <2>1, <3>2
      <4>2. g[i] = f[i] /\ (i # 0 => g[i - 1] = f[i - 1])
        BY <1>0, <3>2
      <4> HIDE DEF g
      <4> QED
        BY <4>1, <4>2
    <3> QED
      BY <1>0, <3>1, <3>2
  <2>5. g = [i \in 0..(k + 1) |-> g[i]]
    OBVIOUS
  <2> HIDE DEF g
  <2>6. IsRun(g, k + 1)
    BY <2>3, <2>4, <2>5
  <2> HIDE DEF IsRun
  <2>7. k + 1 \in 0..n
    BY <1>0
  <2> QED
    BY <2>6, <2>7
<1>3. n \in T
  <2> HIDE DEF T, n
  <2>1. \A k \in 0..n : k \in T
    BY <1>0, <1>1, <1>2, Ladder
  <2> QED
    BY <1>0, <2>1
<1> DEFINE IsF(f)  == f = [i \in 0..n |-> IF i = 0 THEN q ELSE step[<<f[i - 1], s[i]>>]]
           scanned == CHOOSE f : IsF(f)
<1> HIDE DEF n
<1>4. \E f : IsF(f)
  BY <1>3
<1> HIDE DEF IsF, T
<1>6. IsF(scanned)
  BY <1>4, Zenon
<1> HIDE DEF scanned
<1>7. /\ scanned[0] = q /\ scanned = [i \in 0..n |-> scanned[i]]
      /\ \A i \in 1..n : scanned[i] = step[<<scanned[i - 1], s[i]>>]
  <2>1. scanned = [i \in 0..n |-> IF i = 0 THEN q ELSE step[<<scanned[i - 1], s[i]>>]]
    BY <1>6, Zenon DEF IsF
  <2>2. \A i \in 0..n : scanned[i] = IF i = 0 THEN q ELSE step[<<scanned[i - 1], s[i]>>]
    BY <2>1, Zenon
  <2>3. 0 \in 0..n /\ \A i \in 1..n : i \in 0..n /\ i # 0
    BY <1>0
  <2>4. scanned[0] = q /\ \A i \in 1..n : scanned[i] = step[<<scanned[i - 1], s[i]>>]
    BY <2>2, <2>3, Zenon
  <2>5. scanned = [i \in 0..n |-> scanned[i]]
    BY <2>1, <2>2
  <2> QED
    BY <2>4, <2>5
<1>8. \A k \in 0..n : scanned[k] \in S
  <2> DEFINE R == {k \in 0..n : scanned[k] \in S}
  <2>1. 0 \in R
    BY <1>0, <1>7
  <2>2. \A k \in 0..(n - 1) : k \in R => k + 1 \in R
    <3> TAKE k \in 0..(n - 1)
    <3> HAVE k \in R
    <3>1. k + 1 \in 1..n /\ k + 1 \in 0..n /\ (k + 1) - 1 = k /\ scanned[k] \in S
      BY <1>0
    <3>2. scanned[k + 1] = step[<<scanned[k], s[k + 1]>>] /\ s[k + 1] \in X
      BY <1>0, <1>7, <3>1
    <3>3. step[<<scanned[k], s[k + 1]>>] \in S
      BY ONLY <1>0, <3>1, <3>2
    <3> QED
      BY <3>1, <3>2, <3>3
  <2> HIDE DEF R
  <2>3. \A k \in 0..n : k \in R
    BY <1>0, <2>1, <2>2, Ladder
  <2> QED
    BY <2>3 DEF R
<1>9. scanned[n] = Scan(step, q, s)
  BY Zenon DEF Scan, scanned, IsF, n
<1>10. scanned \in [0..n -> S]
  BY <1>7, <1>8
<1> QED
  BY <1>7, <1>9, <1>10 DEF n, Follows, IsScan

LEMMA ScanIs ==
  ASSUME NEW S, NEW X, NEW step, NEW q, NEW s, Scans(S, X, step, q, s),
         NEW f, Follows(f, step, q, s)
  PROVE  f[Len(s)] = Scan(step, q, s)
<1>1. PICK g : IsScan(g, S, step, q, s)
  BY ScanRun, Zenon
<1> DEFINE n == Len(s)
           T == {k \in 0..n : f[k] = g[k]}
<1>2. n \in Nat /\ 0 \in T
  BY <1>1 DEF Follows, IsScan
<1>3. \A k \in 0..(n - 1) : k \in T => k + 1 \in T
  <2> TAKE k \in 0..(n - 1)
  <2> HAVE k \in T
  <2>1. k + 1 \in 1..n /\ k + 1 \in 0..n /\ (k + 1) - 1 = k /\ f[k] = g[k]
    BY <1>2
  <2>2. f[k + 1] = step[<<f[k], s[k + 1]>>] /\ g[k + 1] = step[<<g[k], s[k + 1]>>]
    BY <1>1, <2>1 DEF Follows, IsScan
  <2> QED
    BY <2>1, <2>2
<1> HIDE DEF T
<1>4. \A k \in 0..n : k \in T
  BY <1>2, <1>3, Ladder
<1> QED
  BY <1>1, <1>2, <1>4 DEF T, IsScan

LEMMA ScanNothing ==
  ASSUME NEW S, NEW X, NEW step \in Steps(S, X), NEW q \in S
  PROVE  Scan(step, q, <<>>) = q
<1> DEFINE f == [i \in 0..0 |-> q]
           s == <<>>
<1>1. Scans(S, X, step, q, s) /\ Len(s) = 0
  BY DEF Scans
<1>2. Follows(f, step, q, s) /\ f[Len(s)] = q
  BY DEF Follows, IsScan
<1> HIDE DEF f, s
<1>3. f[Len(s)] = Scan(step, q, s)
  BY <1>1, <1>2, ScanIs
<1> QED
  BY <1>1, <1>2, <1>3 DEF s

LEMMA ScanStays ==
  ASSUME NEW S, NEW X, NEW step, NEW q, NEW s, Scans(S, X, step, q, s)
  PROVE  Scan(step, q, s) \in S
<1>1. PICK f : IsScan(f, S, step, q, s)
  BY ScanRun, Zenon
<1>2. Len(s) \in 0..Len(s)
  BY DEF Scans
<1> QED
  BY <1>1, <1>2 DEF IsScan

LEMMA ScanOne ==
  ASSUME NEW S, NEW X, NEW step \in Steps(S, X), NEW q \in S, NEW x \in X
  PROVE  Scan(step, q, <<x>>) = step[<<q, x>>]
<1> DEFINE s == <<x>>
<1>1. Scans(S, X, step, q, s) /\ Len(s) = 1 /\ s[1] = x
  BY DEF Scans
<1> HIDE DEF s
<1>2. PICK f : IsScan(f, S, step, q, s)
  BY <1>1, ScanRun, Zenon
<1>3. f[1] = step[<<f[1 - 1], s[1]>>] /\ 1 - 1 = 0 /\ f[0] = q
  BY <1>1, <1>2 DEF Follows, IsScan
<1>4. Scan(step, q, s) = step[<<q, x>>]
  BY <1>1, <1>2, <1>3 DEF IsScan
<1> QED
  BY <1>4 DEF s

LEMMA Concat ==
  ASSUME NEW X, NEW s \in Seq(X), NEW t \in Seq(X)
  PROVE  /\ s \o t \in Seq(X) /\ Len(s \o t) = Len(s) + Len(t)
         /\ Len(s) \in Nat /\ Len(t) \in Nat
         /\ \A i \in 1..Len(s) : (s \o t)[i] = s[i]
         /\ \A i \in 1..Len(t) : (s \o t)[Len(s) + i] = t[i]
OBVIOUS

LEMMA ScanBoth ==
  ASSUME NEW S, NEW X, NEW step, NEW q, NEW s, NEW t \in Seq(X), Scans(S, X, step, q, s)
  PROVE  Scan(step, q, s \o t) = Scan(step, Scan(step, q, s), t)
<1> DEFINE n   == Len(s)
           m   == Len(t)
           mid == Scan(step, q, s)
           st  == s \o t
<1>0. s \in Seq(X)
  BY DEF Scans
<1>1. PICK f : IsScan(f, S, step, q, s)
  BY ScanRun, Zenon
<1>2. mid \in S
  BY ScanStays, Zenon
<1> HIDE DEF mid
<1>c. Scans(S, X, step, mid, t)
  BY <1>2 DEF Scans
<1>3. PICK g : IsScan(g, S, step, mid, t)
  BY <1>c, ScanRun, Zenon
<1>4. /\ st \in Seq(X) /\ Len(st) = n + m /\ n \in Nat /\ m \in Nat
      /\ \A i \in 1..n : st[i] = s[i]
      /\ \A i \in 1..m : st[n + i] = t[i]
  BY <1>0, Concat
<1>a. /\ f \in [0..n -> S] /\ g \in [0..m -> S] /\ f[n] = mid /\ g[m] = Scan(step, mid, t)
      /\ f[0] = q /\ \A i \in 1..n : f[i] = step[<<f[i - 1], s[i]>>]
      /\ g[0] = mid /\ \A i \in 1..m : g[i] = step[<<g[i - 1], t[i]>>]
  BY <1>1, <1>3 DEF Follows, IsScan, mid
<1> DEFINE h == [i \in 0..(n + m) |-> IF i <= n THEN f[i] ELSE g[i - n]]
<1> HIDE DEF st, n, m
<1>5. h[0] = q /\ h[n + m] = Scan(step, mid, t)
  BY <1>1, <1>3, <1>4, <1>a
<1>6. ASSUME NEW i \in 1..Len(st) PROVE h[i] = step[<<h[i - 1], st[i]>>]
  <2>1. CASE i <= n
    <3>1. i \in 1..n /\ h[i] = f[i] /\ h[i - 1] = f[i - 1]
      BY <1>4, <2>1
    <3> HIDE DEF h
    <3> QED
      BY <1>a, <1>4, <3>1
  <2>2. CASE i > n
    <3>1. i - n \in 1..m /\ n + (i - n) = i /\ h[i] = g[i - n]
      BY <1>4, <2>2
    <3>2. h[i - 1] = g[(i - n) - 1]
      <4>1. CASE i - 1 = n
        BY <1>1, <1>a, <1>4, <4>1
      <4>2. CASE i - 1 > n
        <5>1. (i - 1) - n = (i - n) - 1 /\ i - 1 \in 0..(n + m)
          BY <1>4, <4>2
        <5> QED
          BY <1>4, <4>2, <5>1
      <4> QED
        BY <1>4, <2>2, <4>1, <4>2
    <3> HIDE DEF h
    <3>3. g[i - n] = step[<<g[(i - n) - 1], t[i - n]>>] /\ st[n + (i - n)] = t[i - n]
      BY <1>a, <1>4, <3>1
    <3> QED
      BY <3>1, <3>2, <3>3
  <2> QED
    BY <1>4, <2>1, <2>2
<1>b. Follows(h, step, q, st) /\ Scans(S, X, step, q, st)
  BY <1>4, <1>5, <1>6 DEF Follows, Scans
<1> HIDE DEF h
<1>7. h[Len(st)] = Scan(step, q, st)
  BY <1>b, ScanIs
<1> QED
  BY <1>4, <1>5, <1>7 DEF st, mid

-----------------------------------------------------------------------------
(* Flattening *)

IsFlat(f, X, ss) ==
  /\ f \in [0..Len(ss) -> Seq(X)]
  /\ f[0] = <<>> /\ f[Len(ss)] = FlattenSeq(ss)
  /\ \A k \in 1..Len(ss) : f[k] = f[k - 1] \o ss[k]

Joining(X) == [p \in Seq(X) \X Seq(X) |-> p[1] \o p[2]]

LEMMA JoiningSteps == ASSUME NEW X PROVE Joining(X) \in Steps(Seq(X), Seq(X))
<1>1. \A a, b \in Seq(X) : a \o b \in Seq(X)
  OBVIOUS
<1> QED
  BY <1>1 DEF Joining, Steps

\* The pieces put together, one more at each place.
LEMMA FlatRun ==
  ASSUME NEW X, NEW ss \in Seq(Seq(X))
  PROVE  \E f : IsFlat(f, X, ss)
<1> DEFINE n == Len(ss)
<1>1. Scans(Seq(X), Seq(X), Joining(X), <<>>, ss)
  BY JoiningSteps DEF Scans
<1>2. PICK f : IsScan(f, Seq(X), Joining(X), <<>>, ss)
  BY <1>1, ScanRun, Zenon
<1>3. n \in Nat /\ \A i \in 1..n : ss[i] \in Seq(X)
  OBVIOUS
<1>4. /\ f \in [0..n -> Seq(X)] /\ f[0] = <<>>
      /\ \A k \in 1..n : f[k] = f[k - 1] \o ss[k]
  <2>1. f \in [0..n -> Seq(X)] /\ f[0] = <<>> /\ \A k \in 1..n : f[k] = Joining(X)[<<f[k - 1], ss[k]>>]
    BY <1>2 DEF IsScan, Follows
  <2>2. \A k \in 1..n : f[k - 1] \in Seq(X) /\ ss[k] \in Seq(X)
    <3>1. \A k \in 1..n : k - 1 \in 0..n
      BY <1>3
    <3> QED
      BY <1>3, <2>1, <3>1
  <2>3. \A k \in 1..n : Joining(X)[<<f[k - 1], ss[k]>>] = f[k - 1] \o ss[k]
    BY <2>2 DEF Joining
  <2> QED
    BY <2>1, <2>3
<1>a. n > 0 => 1 \in 1..n /\ 1 - 1 = 0 /\ Len(ss) # 0
  BY <1>3
<1>5. CASE n = 0
  <2>1. FlattenSeq(ss) = <<>>
    BY <1>5 DEF FlattenSeq
  <2> QED
    BY <1>4, <1>5, <2>1 DEF IsFlat
<1>6. CASE n > 0
  <2> DEFINE IsF(h) == h = [i \in 1..n |-> IF i = 1 THEN ss[i] ELSE h[i - 1] \o ss[i]]
             g      == [i \in 1..n |-> f[i]]
             flat   == CHOOSE h : IsF(h)
             T      == {k \in 0..n : k = 0 \/ flat[k] = f[k]}
  <2>1. \A i \in 1..n : g[i] = IF i = 1 THEN ss[i] ELSE g[i - 1] \o ss[i]
    <3> TAKE i \in 1..n
    <3>1. CASE i = 1
      <4>1. f[1] = <<>> \o ss[1] /\ ss[1] \in Seq(X) /\ g[1] = f[1]
        BY <1>3, <1>4, <1>6, <1>a
      <4>2. <<>> \o ss[1] = ss[1]
        BY <4>1
      <4> QED
        BY <3>1, <4>1, <4>2
    <3>2. CASE i # 1
      <4>1. i - 1 \in 1..n /\ g[i - 1] = f[i - 1] /\ g[i] = f[i]
        BY <1>3, <3>2
      <4> HIDE DEF g
      <4> QED
        BY <1>4, <3>2, <4>1
    <3> QED
      BY <3>1, <3>2
  <2>2. g = [i \in 1..n |-> g[i]]
    OBVIOUS
  <2> HIDE DEF g
  <2>3. IsF(g)
    BY <2>1, <2>2
  <2> HIDE DEF IsF
  <2>4. IsF(flat)
    BY <2>3, Zenon
  <2>5. flat[n] = FlattenSeq(ss)
    <3>1. FlattenSeq(ss) = (CHOOSE h : h = [i \in 1..Len(ss) |-> IF i = 1 THEN ss[i] ELSE h[i - 1] \o ss[i]])[Len(ss)]
      BY <1>6, <1>a DEF FlattenSeq
    <3> QED
      BY <3>1, Zenon DEF IsF
  <2> HIDE DEF flat
  <2>6. \A i \in 1..n : flat[i] = IF i = 1 THEN ss[i] ELSE flat[i - 1] \o ss[i]
    BY <2>4, Zenon DEF IsF
  <2>7. \A k \in 0..(n - 1) : k \in T => k + 1 \in T
    <3> TAKE k \in 0..(n - 1)
    <3> HAVE k \in T
    <3>1. k + 1 \in 1..n /\ (k + 1) - 1 = k /\ k + 1 \in 0..n
      BY <1>3
    <3>2. CASE k = 0
      <4>1. f[1] = <<>> \o ss[1] /\ ss[1] \in Seq(X) /\ flat[1] = ss[1]
        BY <1>3, <1>4, <1>6, <1>a, <2>6
      <4>2. <<>> \o ss[1] = ss[1]
        BY <4>1
      <4> QED
        BY <3>1, <3>2, <4>1, <4>2
    <3>3. CASE k # 0
      <4>1. flat[k] = f[k] /\ k + 1 # 1
        BY <3>3
      <4>2. flat[k + 1] = flat[k] \o ss[k + 1] /\ f[k + 1] = f[k] \o ss[k + 1]
        BY <1>4, <2>6, <3>1, <4>1
      <4> QED
        BY <3>1, <4>1, <4>2
    <3> QED
      BY <3>2, <3>3
  <2>8. 0 \in T
    BY <1>3
  <2> HIDE DEF T
  <2>9. \A k \in 0..n : k \in T
    BY <1>3, <2>7, <2>8, Ladder
  <2>10. flat[n] = f[n]
    BY <1>3, <1>6, <2>9 DEF T
  <2> QED
    BY <1>4, <2>5, <2>10 DEF IsFlat
<1> QED
  BY <1>3, <1>5, <1>6

LEMMA FlatIsSeq == ASSUME NEW X, NEW ss \in Seq(Seq(X)) PROVE FlattenSeq(ss) \in Seq(X)
<1>1. PICK f : IsFlat(f, X, ss)
  BY FlatRun
<1>2. Len(ss) \in 0..Len(ss)
  OBVIOUS
<1> QED
  BY <1>1, <1>2 DEF IsFlat

ScansAlong(S, X, step, ss, st) ==
  /\ step \in Steps(S, X) /\ ss \in Seq(Seq(X)) /\ st \in [0..Len(ss) -> S]
  /\ \A k \in 1..Len(ss) : st[k] = Scan(step, st[k - 1], ss[k])

\* To scan what is flattened is to scan one piece after the other.
LEMMA ScanFlat ==
  ASSUME NEW S, NEW X, NEW step, NEW ss, NEW st, ScansAlong(S, X, step, ss, st)
  PROVE  Scan(step, st[0], FlattenSeq(ss)) = st[Len(ss)]
<1> DEFINE n == Len(ss)
<1>0. /\ step \in Steps(S, X) /\ ss \in Seq(Seq(X)) /\ st \in [0..n -> S]
      /\ \A k \in 1..n : st[k] = Scan(step, st[k - 1], ss[k])
  BY DEF ScansAlong
<1>1. PICK f : IsFlat(f, X, ss)
  BY <1>0, FlatRun
<1> DEFINE T == {k \in 0..n : Scan(step, st[0], f[k]) = st[k]}
<1>2. n \in Nat /\ \A i \in 1..n : ss[i] \in Seq(X)
  BY <1>0
<1>3. st[0] \in S
  BY <1>0, <1>2
<1>4. 0 \in T
  <2>1. f[0] = <<>> /\ Scan(step, st[0], <<>>) = st[0]
    BY <1>0, <1>1, <1>3, ScanNothing DEF IsFlat
  <2> QED
    BY <1>2, <2>1
<1>5. \A k \in 0..(n - 1) : k \in T => k + 1 \in T
  <2> TAKE k \in 0..(n - 1)
  <2> HAVE k \in T
  <2>1. k + 1 \in 1..n /\ (k + 1) - 1 = k /\ k + 1 \in 0..n /\ k \in 0..n
    BY <1>2
  <2>2. f[k] \in Seq(X) /\ ss[k + 1] \in Seq(X) /\ f[k + 1] = f[k] \o ss[k + 1]
    BY <1>1, <1>2, <2>1 DEF IsFlat
  <2>3. Scans(S, X, step, st[0], f[k])
    BY <1>0, <1>3, <2>2 DEF Scans
  <2>4. Scan(step, st[0], f[k] \o ss[k + 1]) = Scan(step, Scan(step, st[0], f[k]), ss[k + 1])
    BY <2>2, <2>3, ScanBoth
  <2>5. st[k + 1] = Scan(step, st[k], ss[k + 1]) /\ Scan(step, st[0], f[k]) = st[k]
    BY <1>0, <2>1
  <2> QED
    BY <2>1, <2>2, <2>4, <2>5
<1> HIDE DEF T
<1>6. \A k \in 0..n : k \in T
  BY <1>2, <1>4, <1>5, Ladder
<1>7. Scan(step, st[0], f[n]) = st[n]
  BY <1>2, <1>6 DEF T
<1> QED
  BY <1>1, <1>7 DEF IsFlat

-----------------------------------------------------------------------------
(* Splitting *)

\* Two runs that start alike and go on alike end alike.
LEMMA SameEnd ==
  ASSUME NEW n \in Nat, NEW f, NEW h, h[0] = f[0],
         \A k \in 1..n : h[k - 1] = f[k - 1] => h[k] = f[k]
  PROVE  h[n] = f[n]
<1> DEFINE T == {k \in 0..n : h[k] = f[k]}
<1>1. 0 \in T
  OBVIOUS
<1>2. \A k \in 0..(n - 1) : k \in T => k + 1 \in T
  <2> TAKE k \in 0..(n - 1)
  <2> HAVE k \in T
  <2>1. k + 1 \in 1..n /\ (k + 1) - 1 = k /\ k + 1 \in 0..n
    OBVIOUS
  <2>2. h[k + 1] = f[k + 1]
    BY <2>1
  <2> QED
    BY <2>1, <2>2
<1> HIDE DEF T
<1>3. \A k \in 0..n : k \in T
  BY <1>1, <1>2, Ladder
<1> QED
  BY <1>3 DEF T

Parts(Y) == Seq(Seq(Y)) \ {<<>>}

LEMMA PartsAppend ==
  ASSUME NEW Y, NEW ps \in Seq(Seq(Y)), NEW cur \in Seq(Y)
  PROVE  /\ Append(ps, cur) \in Parts(Y)
         /\ Front(Append(ps, cur)) = ps /\ Last(Append(ps, cur)) = cur
<1> DEFINE all == Append(ps, cur)
<1>1. all \in Seq(Seq(Y)) /\ Len(all) = Len(ps) + 1 /\ Len(ps) \in Nat /\ all[Len(ps) + 1] = cur
  OBVIOUS
<1>2. \A i \in 1..Len(ps) : all[i] = ps[i]
  OBVIOUS
<1> HIDE DEF all
<1>3. Front(all) = ps
  <2>1. Front(all) = SubSeq(all, 1, Len(ps))
    BY <1>1 DEF Front
  <2>2. SubSeq(all, 1, Len(ps)) = ps
    BY <1>1, <1>2
  <2> QED
    BY <2>1, <2>2
<1>4. Last(all) = cur /\ all # <<>>
  BY <1>1 DEF Last
<1> QED
  BY <1>1, <1>3, <1>4 DEF all, Parts

LEMMA FrontAndLast ==
  ASSUME NEW T, NEW p \in Seq(T), p # <<>>
  PROVE  /\ Front(p) \in Seq(T) /\ Last(p) \in T /\ p = Append(Front(p), Last(p))
         /\ Len(p) \in Nat \ {0} /\ Len(Front(p)) = Len(p) - 1
<1>1. Len(p) \in Nat /\ Len(p) > 0
  OBVIOUS
<1>2. Front(p) \in Seq(T) /\ Len(Front(p)) = Len(p) - 1 /\ \A i \in 1..(Len(p) - 1) : Front(p)[i] = p[i]
  <2> DEFINE m == Len(p) - 1
  <2>1. m \in 0..Len(p) /\ m \in Nat
    BY <1>1
  <2> HIDE DEF m
  <2>2. SubSeq(p, 1, m) \in Seq(T) /\ Len(SubSeq(p, 1, m)) = m /\ \A i \in 1..m : SubSeq(p, 1, m)[i] = p[i]
    BY <2>1
  <2> QED
    BY <2>2 DEF Front, m
<1>3. Last(p) \in T /\ Last(p) = p[Len(p)]
  BY <1>1 DEF Last
<1> QED
  BY <1>1, <1>2, <1>3

LEMMA PartsSplit ==
  ASSUME NEW Y, NEW p \in Parts(Y)
  PROVE  /\ Front(p) \in Seq(Seq(Y)) /\ Last(p) \in Seq(Y) /\ p = Append(Front(p), Last(p))
BY FrontAndLast DEF Parts

SplitState(X, c, ps, cur) == ps \in Seq(Seq(X \ {c})) /\ cur \in Seq(X \ {c})

Splitting(X, c) == [p \in Parts(X \ {c}) \X X |-> SplitStep(p[1], p[2], c)]

SplitsTo(X, c, p, x, r) == Splitting(X, c)[<<p, x>>] = r /\ r \in Parts(X \ {c})

LEMMA SplitStepIs ==
  ASSUME NEW X, NEW c, NEW ps, NEW cur, SplitState(X, c, ps, cur), NEW x \in X
  PROVE  /\ x = c => SplitsTo(X, c, Append(ps, cur), x, Append(Append(ps, cur), <<>>))
         /\ x # c => SplitsTo(X, c, Append(ps, cur), x, Append(ps, Append(cur, x)))
<1> DEFINE Y   == X \ {c}
           all == Append(ps, cur)
<1>0. ps \in Seq(Seq(Y)) /\ cur \in Seq(Y)
  BY DEF SplitState
<1>1. all \in Parts(Y) /\ Front(all) = ps /\ Last(all) = cur
  BY <1>0, PartsAppend
<1>2. all \in Seq(Seq(Y)) /\ <<>> \in Seq(Y)
  BY <1>0
<1>3. Append(all, <<>>) \in Parts(Y)
  BY <1>2, PartsAppend
<1>4. x # c => Append(cur, x) \in Seq(Y)
  BY <1>0
<1>5. x # c => Append(ps, Append(cur, x)) \in Parts(Y)
  BY <1>0, <1>4, PartsAppend
<1> HIDE DEF all
<1>6. Splitting(X, c)[<<all, x>>] = SplitStep(all, x, c)
  BY <1>1 DEF Splitting
<1>7. /\ x = c => SplitsTo(X, c, all, x, Append(all, <<>>))
      /\ x # c => SplitsTo(X, c, all, x, Append(ps, Append(cur, x)))
  BY <1>1, <1>3, <1>5, <1>6 DEF SplitStep, SplitsTo
<1> QED
  BY <1>7 DEF all

LEMMA SplittingSteps == ASSUME NEW X, NEW c PROVE Splitting(X, c) \in Steps(Parts(X \ {c}), X)
<1> DEFINE Y == X \ {c}
<1>1. ASSUME NEW p \in Parts(Y), NEW x \in X PROVE SplitStep(p, x, c) \in Parts(Y)
  <2>1. Front(p) \in Seq(Seq(Y)) /\ Last(p) \in Seq(Y) /\ p = Append(Front(p), Last(p))
    BY PartsSplit
  <2> DEFINE ps  == Front(p)
             cur == Last(p)
  <2> HIDE DEF ps, cur
  <2>2. SplitState(X, c, ps, cur)
    BY <2>1 DEF ps, cur, SplitState
  <2>3. p = Append(ps, cur)
    BY <2>1 DEF ps, cur
  <2>4. \E r : SplitsTo(X, c, Append(ps, cur), x, r)
    BY <2>2, SplitStepIs, Zenon
  <2>5. \E r : SplitsTo(X, c, p, x, r)
    BY <2>3, <2>4, Zenon
  <2>6. Splitting(X, c)[<<p, x>>] \in Parts(Y)
    BY <2>5 DEF SplitsTo
  <2> QED
    BY <2>6 DEF Splitting
<1> QED
  BY <1>1 DEF Splitting, Steps

LEMMA Beginning == ASSUME NEW Y PROVE << <<>> >> \in Parts(Y) /\ << <<>> >> = Append(<<>>, <<>>)
<1>1. <<>> \in Seq(Y) /\ <<>> \in Seq(Seq(Y))
  OBVIOUS
<1>2. Append(<<>>, <<>>) = << <<>> >>
  OBVIOUS
<1> QED
  BY <1>1, <1>2, PartsAppend, ZenonT(60)

\* Split is a scan.
LEMMA SplitScan ==
  ASSUME NEW X, NEW c, NEW s \in Seq(X)
  PROVE  Split(s, c) = Scan(Splitting(X, c), << <<>> >>, s)
<1> DEFINE n    == Len(s)
           base == << <<>> >>
           S    == Parts(X \ {c})
           IsF(h) == h = [i \in 0..n |-> IF i = 0 THEN base ELSE SplitStep(h[i - 1], s[i], c)]
           after  == CHOOSE h : IsF(h)
<1>1. Scans(S, X, Splitting(X, c), base, s) /\ n \in Nat
  BY SplittingSteps, Beginning DEF Scans
<1> HIDE DEF base, S
<1>2. PICK f : IsScan(f, S, Splitting(X, c), base, s)
  BY <1>1, ScanRun, Zenon
<1>3. f \in [0..n -> S] /\ f[0] = base /\ \A i \in 1..n : f[i] = SplitStep(f[i - 1], s[i], c)
  <2>1. f \in [0..n -> S] /\ f[0] = base /\ \A i \in 1..n : f[i] = Splitting(X, c)[<<f[i - 1], s[i]>>]
    BY <1>2 DEF IsScan, Follows
  <2>2. \A i \in 1..n : i - 1 \in 0..n
    OBVIOUS
  <2>3. \A i \in 1..n : f[i - 1] \in S /\ s[i] \in X
    BY <2>1, <2>2
  <2>4. \A i \in 1..n : Splitting(X, c)[<<f[i - 1], s[i]>>] = SplitStep(f[i - 1], s[i], c)
    BY <2>3 DEF Splitting, S
  <2> QED
    BY <2>1, <2>4
<1>4. IsF(f)
  BY <1>1, <1>3
<1> HIDE DEF IsF
<1>5. IsF(after)
  BY <1>4, Zenon
<1>6. after[n] = Split(s, c)
  BY Zenon DEF Split, IsF, base
<1> HIDE DEF after, n
<1>7. after[0] = f[0] /\ \A k \in 1..n : after[k] = SplitStep(after[k - 1], s[k], c)
  <2>1. \A i \in 0..n : after[i] = IF i = 0 THEN base ELSE SplitStep(after[i - 1], s[i], c)
    BY <1>5, Zenon DEF IsF
  <2>2. 0 \in 0..n /\ \A i \in 1..n : i \in 0..n /\ i # 0
    BY <1>1
  <2> QED
    BY <1>3, <2>1, <2>2, Zenon
<1>8. \A k \in 1..n : after[k - 1] = f[k - 1] => after[k] = f[k]
  BY <1>3, <1>7
<1>9. after[n] = f[n]
  BY <1>1, <1>7, <1>8, SameEnd
<1> QED
  BY <1>2, <1>6, <1>9 DEF IsScan, n, base

\* No part has the character in it at which the sequence was split.
LEMMA SplitClean ==
  ASSUME NEW X, NEW c, NEW s \in Seq(X)
  PROVE  Split(s, c) \in Parts(X \ {c})
<1> DEFINE S == Parts(X \ {c})
           step == Splitting(X, c)
           base == << <<>> >>
<1>1. Scans(S, X, step, base, s)
  BY SplittingSteps, Beginning DEF Scans
<1>2. Split(s, c) = Scan(step, base, s)
  BY SplitScan
<1> HIDE DEF S, step, base
<1>3. Scan(step, base, s) \in S
  BY <1>1, ScanStays
<1> QED
  BY <1>2, <1>3 DEF S

BothIn(T, s, t) == s \in Seq(T) /\ t \in Seq(T)

LEMMA AppendJoined ==
  ASSUME NEW T, NEW s, NEW t, NEW x \in T, BothIn(T, s, t)
  PROVE  s \o Append(t, x) = Append(s \o t, x) /\ s \o t \in Seq(T) /\ Append(t, x) \in Seq(T)
<1> DEFINE u == Append(s \o t, x)
           v == s \o Append(t, x)
           n == Len(s) + Len(t) + 1
<1>1. Len(s) \in Nat /\ Len(t) \in Nat /\ s \in Seq(T) /\ t \in Seq(T)
  BY DEF BothIn
<1>2. s \o t \in Seq(T) /\ Append(t, x) \in Seq(T) /\ u \in Seq(T) /\ v \in Seq(T) /\ Len(u) = n /\ Len(v) = n
  BY <1>1
<1>3. ASSUME NEW i \in 1..n PROVE u[i] = v[i]
  <2>1. CASE i \in 1..Len(s)
    BY <1>1, <2>1
  <2>2. CASE i \in (Len(s) + 1)..(Len(s) + Len(t))
    BY <1>1, <2>2
  <2>3. CASE i = n
    BY <1>1, <2>3
  <2> QED
    BY <1>1, <2>1, <2>2, <2>3
<1> HIDE DEF u, v, n
<1>4. u = v
  BY <1>2, <1>3
<1> QED
  BY <1>2, <1>4 DEF u, v

SplitMore(X, c, ps, cur, w) == SplitState(X, c, ps, cur) /\ w \in Seq(X \ {c})

\* Other characters go to the last part.
LEMMA SplitPlain ==
  ASSUME NEW X, NEW c, NEW ps, NEW cur, NEW w, SplitMore(X, c, ps, cur, w)
  PROVE  Scan(Splitting(X, c), Append(ps, cur), w) = Append(ps, cur \o w)
<1> DEFINE n == Len(w)
           f == [i \in 0..n |-> Append(ps, cur \o SubSeq(w, 1, i))]
           step == Splitting(X, c)
<1>0. ps \in Seq(Seq(X \ {c})) /\ cur \in Seq(X \ {c}) /\ w \in Seq(X \ {c})
  BY DEF SplitState, SplitMore
<1>1. /\ n \in Nat /\ w \in Seq(X) /\ (\A i \in 1..n : w[i] \in X /\ w[i] # c)
      /\ \A i \in 0..n : SubSeq(w, 1, i) \in Seq(X \ {c})
      /\ SubSeq(w, 1, 0) = <<>> /\ SubSeq(w, 1, n) = w
  BY <1>0
<1>2. Scans(Parts(X \ {c}), X, step, Append(ps, cur), w)
  BY <1>0, <1>1, SplittingSteps, PartsAppend DEF Scans
<1>3. f[0] = Append(ps, cur) /\ f[n] = Append(ps, cur \o w)
  <2>1. cur \o <<>> = cur
    BY <1>0
  <2>2. f[0] = Append(ps, cur \o SubSeq(w, 1, 0)) /\ f[n] = Append(ps, cur \o SubSeq(w, 1, n))
    BY <1>1
  <2> HIDE DEF f
  <2> QED
    BY <1>1, <2>1, <2>2, Zenon
<1>4. ASSUME NEW i \in 1..n PROVE f[i] = step[<<f[i - 1], w[i]>>]
  <2> DEFINE got == cur \o SubSeq(w, 1, i - 1)
  <2>1. i - 1 \in 0..n /\ i \in 0..n
    BY <1>1
  <2>2. ps \in Seq(Seq(X \ {c})) /\ got \in Seq(X \ {c}) /\ Append(got, w[i]) = cur \o SubSeq(w, 1, i)
    <3>1. SubSeq(w, 1, i) = Append(SubSeq(w, 1, i - 1), w[i])
      BY <1>0, <1>1
    <3>2. SubSeq(w, 1, i - 1) \in Seq(X \ {c})
      BY <1>1, <2>1
    <3> DEFINE u == SubSeq(w, 1, i - 1)
    <3> HIDE DEF u
    <3>3. Append(cur \o u, w[i]) = cur \o Append(u, w[i]) /\ cur \o u \in Seq(X \ {c})
      <4>1. w[i] \in X \ {c} /\ u \in Seq(X \ {c})
        BY <1>1, <3>2 DEF u
      <4>2. cur \in Seq(X \ {c})
        BY <1>0
      <4> DEFINE Y == X \ {c}
      <4> HIDE DEF Y
      <4>3. w[i] \in Y /\ BothIn(Y, cur, u)
        BY <4>1, <4>2 DEF Y, BothIn
      <4>4. cur \o Append(u, w[i]) = Append(cur \o u, w[i]) /\ cur \o u \in Seq(Y) /\ Append(u, w[i]) \in Seq(Y)
        BY <4>3, AppendJoined, Zenon
      <4> QED
        BY <4>4 DEF Y
    <3> QED
      BY <1>0, <3>1, <3>3 DEF u
  <2>3. f[i - 1] = Append(ps, got) /\ f[i] = Append(ps, cur \o SubSeq(w, 1, i))
    BY <2>1
  <2> HIDE DEF got, f, step
  <2>a. SplitState(X, c, ps, got) /\ w[i] \in X /\ w[i] # c
    BY <1>1, <2>2 DEF SplitState
  <2>b. SplitsTo(X, c, Append(ps, got), w[i], Append(ps, Append(got, w[i])))
    BY <2>a, SplitStepIs, Zenon
  <2>4. Splitting(X, c)[<<Append(ps, got), w[i]>>] = Append(ps, Append(got, w[i]))
    BY <2>b DEF SplitsTo
  <2> QED
    BY <2>2, <2>3, <2>4 DEF step
<1>5. Follows(f, step, Append(ps, cur), w)
  BY <1>3, <1>4 DEF Follows
<1> HIDE DEF f
<1>6. f[Len(w)] = Scan(step, Append(ps, cur), w)
  BY <1>2, <1>5, ScanIs
<1> QED
  BY <1>3, <1>6

-----------------------------------------------------------------------------
(* Lines, and the fields of a line *)

LEMMA NothingBefore == ASSUME NEW T, NEW w \in Seq(T) PROVE <<>> \o w = w /\ w \o <<>> = w
OBVIOUS

\* The parts, and one more with a character at its front at which it is split.
LEMMA SplitAfter ==
  ASSUME NEW X, NEW c \in X, NEW p \in Parts(X \ {c}), NEW w \in Seq(X \ {c})
  PROVE  Scan(Splitting(X, c), p, <<c>> \o w) = Append(p, w)
<1> DEFINE Y    == X \ {c}
           step == Splitting(X, c)
<1>1. PICK ps, cur : ps \in Seq(Seq(Y)) /\ cur \in Seq(Y) /\ p = Append(ps, cur)
  BY PartsSplit
<1>2. p \in Seq(Seq(Y)) /\ <<>> \in Seq(Y) /\ <<c>> \in Seq(X) /\ w \in Seq(X)
  BY DEF Parts
<1>3. Scans(Parts(Y), X, step, p, <<c>>)
  BY <1>2, SplittingSteps DEF Scans
<1>4. Scan(step, p, <<c>> \o w) = Scan(step, Scan(step, p, <<c>>), w)
  <2> HIDE DEF Y, step
  <2> DEFINE one == <<c>>
  <2> HIDE DEF one
  <2>1. Scans(Parts(Y), X, step, p, one) /\ w \in Seq(X)
    BY <1>2, <1>3 DEF one
  <2>2. Scan(step, p, one \o w) = Scan(step, Scan(step, p, one), w)
    BY <2>1, ScanBoth
  <2> QED
    BY <2>2 DEF one
<1>5. Scan(step, p, <<c>>) = step[<<p, c>>]
  <2> DEFINE S == Parts(Y)
  <2>1. step \in Steps(S, X) /\ p \in S
    BY SplittingSteps
  <2> HIDE DEF S, Y, step
  <2> QED
    BY <2>1, ScanOne
<1>6. SplitState(X, c, ps, cur)
  BY <1>1 DEF SplitState
<1>7. SplitsTo(X, c, Append(ps, cur), c, Append(Append(ps, cur), <<>>))
  BY <1>6, SplitStepIs, Zenon
<1>8. step[<<p, c>>] = Append(p, <<>>)
  BY <1>1, <1>7 DEF SplitsTo
<1>a. SplitMore(X, c, p, <<>>, w)
  BY <1>2 DEF SplitState, SplitMore
<1>9. Scan(Splitting(X, c), Append(p, <<>>), w) = Append(p, <<>> \o w)
  <2> DEFINE none == <<>>
  <2>1. SplitMore(X, c, p, none, w)
    BY <1>a
  <2> HIDE DEF none
  <2>2. Scan(Splitting(X, c), Append(p, none), w) = Append(p, none \o w)
    BY ONLY <2>1, SplitPlain
  <2> QED
    BY <2>2 DEF none
<1>10. <<>> \o w = w
  OBVIOUS
<1> QED
  BY <1>4, <1>5, <1>8, <1>9, <1>10

\* A sequence of which every member is one of the pieces, and what is put between.
Pieces(parts, c) == [i \in DOMAIN parts |-> IF i = 1 THEN parts[1] ELSE <<c>> \o parts[i]]

LEMMA PiecesAre ==
  ASSUME NEW X, NEW c \in X, NEW parts \in Seq(Seq(X))
  PROVE  /\ Pieces(parts, c) \in Seq(Seq(X)) /\ Len(Pieces(parts, c)) = Len(parts) /\ Len(parts) \in Nat
         /\ JoinWith(parts, c) = FlattenSeq(Pieces(parts, c)) /\ JoinWith(parts, c) \in Seq(X)
         /\ \A i \in 1..Len(parts) :
              /\ parts[i] \in Seq(X)
              /\ Pieces(parts, c)[i] = IF i = 1 THEN parts[1] ELSE <<c>> \o parts[i]
<1>1. Len(parts) \in Nat /\ DOMAIN parts = 1..Len(parts) /\ \A i \in 1..Len(parts) : parts[i] \in Seq(X)
  OBVIOUS
<1>2. \A i \in 1..Len(parts) : <<c>> \o parts[i] \in Seq(X)
  BY <1>1
<1>3. /\ Pieces(parts, c) = [i \in 1..Len(parts) |-> IF i = 1 THEN parts[1] ELSE <<c>> \o parts[i]]
      /\ \A i \in 1..Len(parts) : (IF i = 1 THEN parts[1] ELSE <<c>> \o parts[i]) \in Seq(X)
  BY <1>1, <1>2 DEF Pieces
<1>4. Pieces(parts, c) \in Seq(Seq(X)) /\ Len(Pieces(parts, c)) = Len(parts)
  BY <1>1, <1>3
<1>5. JoinWith(parts, c) = FlattenSeq(Pieces(parts, c))
  BY DEF JoinWith, Pieces
<1>6. FlattenSeq(Pieces(parts, c)) \in Seq(X)
  BY <1>4, FlatIsSeq
<1> QED
  BY <1>1, <1>3, <1>4, <1>5, <1>6

LEMMA PrefixIs ==
  ASSUME NEW T, NEW s \in Seq(T), NEW k \in 1..Len(s)
  PROVE  /\ SubSeq(s, 1, k) = Append(SubSeq(s, 1, k - 1), s[k])
         /\ SubSeq(s, 1, k) \in Seq(T) /\ SubSeq(s, 1, k - 1) \in Seq(T)
         /\ Len(SubSeq(s, 1, k)) = k /\ Len(SubSeq(s, 1, k - 1)) = k - 1
         /\ k = 1 => SubSeq(s, 1, k - 1) = <<>>
OBVIOUS

LEMMA WholePrefix == ASSUME NEW T, NEW s \in Seq(T) PROVE SubSeq(s, 1, Len(s)) = s /\ SubSeq(s, 1, 0) = <<>>
OBVIOUS

\* What was joined with a character that is in none of the parts is split again.
LEMMA SplitJoined ==
  ASSUME NEW X, NEW c \in X, NEW parts \in Parts(X \ {c})
  PROVE  Split(JoinWith(parts, c), c) = parts
<1> DEFINE Y    == X \ {c}
           S    == Parts(Y)
           step == Splitting(X, c)
           ss   == Pieces(parts, c)
           n    == Len(parts)
           st   == [k \in 0..n |-> IF k = 0 THEN << <<>> >> ELSE SubSeq(parts, 1, k)]
<1>1. /\ parts \in Seq(Seq(Y)) /\ parts # <<>> /\ parts \in Seq(Seq(X)) /\ n \in Nat /\ n > 0
      /\ \A i \in 1..n : parts[i] \in Seq(Y)
  BY DEF Parts
<1>2. /\ ss \in Seq(Seq(X)) /\ Len(ss) = n
      /\ JoinWith(parts, c) = FlattenSeq(ss) /\ JoinWith(parts, c) \in Seq(X)
      /\ \A i \in 1..n : ss[i] = IF i = 1 THEN parts[1] ELSE <<c>> \o parts[i]
  BY <1>1, PiecesAre, SMTT(60)
<1>3. \A k \in 1..n : /\ SubSeq(parts, 1, k) = Append(SubSeq(parts, 1, k - 1), parts[k])
                      /\ SubSeq(parts, 1, k) \in S
                      /\ k # 1 => SubSeq(parts, 1, k - 1) \in S
                      /\ k = 1 => SubSeq(parts, 1, k - 1) = <<>>
  <2> TAKE k \in 1..n
  <2> DEFINE T == Seq(Y)
  <2>1. parts \in Seq(T)
    BY <1>1
  <2> HIDE DEF T
  <2>2. /\ SubSeq(parts, 1, k) = Append(SubSeq(parts, 1, k - 1), parts[k])
        /\ SubSeq(parts, 1, k) \in Seq(T) /\ SubSeq(parts, 1, k - 1) \in Seq(T)
        /\ Len(SubSeq(parts, 1, k)) = k /\ Len(SubSeq(parts, 1, k - 1)) = k - 1
        /\ k = 1 => SubSeq(parts, 1, k - 1) = <<>>
    BY <2>1, PrefixIs
  <2>3. SubSeq(parts, 1, k) # <<>> /\ (k # 1 => SubSeq(parts, 1, k - 1) # <<>>)
    <3>1. Len(<<>>) = 0
      OBVIOUS
    <3>2. k # 0 /\ (k # 1 => k - 1 # 0)
      BY <1>1
    <3> QED
      BY <2>2, <3>1, <3>2, Zenon
  <2> QED
    BY <2>2, <2>3 DEF Parts, T
<1>4. st \in [0..n -> S] /\ st[0] = << <<>> >> /\ st[n] = parts
  <2>1. \A k \in 0..n : (IF k = 0 THEN << <<>> >> ELSE SubSeq(parts, 1, k)) \in S
    <3> TAKE k \in 0..n
    <3>1. << <<>> >> \in S
      BY Beginning, Zenon
    <3>2. k # 0 => SubSeq(parts, 1, k) \in S
      <4>1. k # 0 => k \in 1..n
        BY <1>1
      <4> QED
        BY <1>3, <4>1, Zenon
    <3> HIDE DEF S
    <3> QED
      BY <3>1, <3>2, Zenon
  <2>2. SubSeq(parts, 1, n) = parts
    BY <1>1, WholePrefix
  <2> HIDE DEF S
  <2> QED
    BY <1>1, <2>1, <2>2
<1>5. ASSUME NEW k \in 1..n PROVE st[k] = Scan(step, st[k - 1], ss[k])
  <2>1. st[k] = SubSeq(parts, 1, k) /\ st[k - 1] = IF k = 1 THEN << <<>> >> ELSE SubSeq(parts, 1, k - 1)
    BY <1>1
  <2> HIDE DEF st, ss
  <2>2. CASE k = 1
    <3>1. Scan(Splitting(X, c), Append(<<>>, <<>>), parts[1]) = Append(<<>>, <<>> \o parts[1])
      <4>1. SplitMore(X, c, <<>>, <<>>, parts[1])
        BY <1>1 DEF SplitState, SplitMore
      <4> DEFINE none == <<>>
      <4>2. SplitMore(X, c, none, none, parts[1])
        BY <4>1
      <4> HIDE DEF none
      <4>3. Scan(Splitting(X, c), Append(none, none), parts[1]) = Append(none, none \o parts[1])
        BY ONLY <4>2, SplitPlain
      <4> QED
        BY <4>3 DEF none
    <3>2. <<>> \o parts[1] = parts[1] /\ << <<>> >> = Append(<<>>, <<>>)
      BY <1>1, Beginning
    <3>3. SubSeq(parts, 1, 1) = Append(<<>>, parts[1])
      BY <1>3, <2>2
    <3>4. st[1] = SubSeq(parts, 1, 1) /\ st[1 - 1] = << <<>> >> /\ ss[1] = parts[1]
      BY <1>1, <1>2, <2>1, <2>2
    <3>5. st[1] = Scan(step, st[1 - 1], ss[1])
      BY ONLY <3>1, <3>2, <3>3, <3>4, Zenon
    <3> QED
      BY <2>2, <3>5
  <2>3. CASE k # 1
    <3> DEFINE before == SubSeq(parts, 1, k - 1)
    <3>1. before \in S /\ parts[k] \in Seq(Y)
      BY <1>1, <1>3, <2>3
    <3>2. SubSeq(parts, 1, k) = Append(before, parts[k]) /\ ss[k] = <<c>> \o parts[k] /\ st[k - 1] = before
      BY <1>2, <1>3, <2>1, <2>3
    <3> HIDE DEF before
    <3>3. Scan(step, before, <<c>> \o parts[k]) = Append(before, parts[k])
      BY <3>1, SplitAfter
    <3> QED
      BY <2>1, <3>2, <3>3
  <2> QED
    BY <2>2, <2>3
<1>6. ScansAlong(S, X, step, ss, st)
  BY <1>2, <1>4, <1>5, SplittingSteps DEF ScansAlong
<1>7. Split(JoinWith(parts, c), c) = Scan(step, << <<>> >>, JoinWith(parts, c))
  BY <1>2, SplitScan
<1> HIDE DEF S, step, ss, st
<1>8. Scan(step, st[0], FlattenSeq(ss)) = st[Len(ss)]
  BY <1>6, ScanFlat
<1> QED
  BY <1>2, <1>4, <1>7, <1>8

\* Lines, each with its end.
Ended(ls, c) == [i \in DOMAIN ls |-> ls[i] \o <<c>>]

LEMMA EndedAre ==
  ASSUME NEW X, NEW c \in X, NEW ls \in Seq(Seq(X))
  PROVE  /\ Ended(ls, c) \in Seq(Seq(X)) /\ Len(Ended(ls, c)) = Len(ls) /\ Len(ls) \in Nat
         /\ \A i \in 1..Len(ls) : ls[i] \in Seq(X) /\ Ended(ls, c)[i] = ls[i] \o <<c>>
<1>1. Len(ls) \in Nat /\ DOMAIN ls = 1..Len(ls) /\ \A i \in 1..Len(ls) : ls[i] \in Seq(X)
  OBVIOUS
<1>2. \A i \in 1..Len(ls) : ls[i] \o <<c>> \in Seq(X)
  BY <1>1
<1>3. Ended(ls, c) = [i \in 1..Len(ls) |-> ls[i] \o <<c>>]
  BY <1>1 DEF Ended
<1> QED
  BY <1>1, <1>2, <1>3

\* A line and its end: the part that was begun is done, and the next begun.
LEMMA SplitLine ==
  ASSUME NEW X, NEW c \in X, NEW ps, NEW w, SplitMore(X, c, ps, <<>>, w)
  PROVE  Scan(Splitting(X, c), Append(ps, <<>>), w \o <<c>>) = Append(Append(ps, w), <<>>)
<1> DEFINE Y    == X \ {c}
           S    == Parts(Y)
           step == Splitting(X, c)
           none == <<>>
           one  == <<c>>
           from == Append(ps, none)
<1>1. ps \in Seq(Seq(Y)) /\ w \in Seq(Y) /\ w \in Seq(X) /\ one \in Seq(X)
  BY DEF SplitMore, SplitState
<1>2. step \in Steps(S, X) /\ from \in S /\ Append(ps, w) \in S
  <2>1. <<>> \in Seq(Y)
    OBVIOUS
  <2> QED
    BY <1>1, <2>1, SplittingSteps, PartsAppend
<1>3. SplitMore(X, c, ps, none, w) /\ SplitState(X, c, ps, w)
  BY <1>1 DEF SplitState
<1> HIDE DEF Y, S, none
<1>4. Scan(Splitting(X, c), Append(ps, none), w) = Append(ps, none \o w)
  BY ONLY <1>3, SplitPlain
<1>5. none \o w = w
  BY <1>1 DEF none
<1>6. Scan(step, from, w) = Append(ps, w)
  BY <1>4, <1>5, Zenon
<1>7. SplitsTo(X, c, Append(ps, w), c, Append(Append(ps, w), <<>>))
  BY <1>3, SplitStepIs, Zenon
<1>8. step[<<Append(ps, w), c>>] = Append(Append(ps, w), <<>>)
  BY <1>7 DEF SplitsTo
<1> HIDE DEF one, from
<1>9. Scans(S, X, step, from, w)
  BY <1>1, <1>2 DEF Scans
<1> HIDE DEF step
<1>10. Scan(step, from, w \o one) = Scan(step, Scan(step, from, w), one)
  BY ONLY <1>1, <1>9, ScanBoth
<1> DEFINE mid == Append(ps, w)
<1> HIDE DEF mid
<1>11. Scan(step, mid, <<c>>) = step[<<mid, c>>]
  <2>1. mid \in S
    BY <1>2 DEF mid
  <2> QED
    BY ONLY <1>2, <2>1, c \in X, ScanOne
<1> QED
  BY <1>6, <1>8, <1>10, <1>11, Zenon DEF mid, from, step, one, none

\* What lines add to the parts that were there before.
LEMMA SplitEnded ==
  ASSUME NEW X, NEW c \in X, NEW ps \in Seq(Seq(X \ {c})), NEW ls \in Seq(Seq(X \ {c}))
  PROVE  Scan(Splitting(X, c), Append(ps, <<>>), FlattenSeq(Ended(ls, c))) = Append(ps \o ls, <<>>)
<1> DEFINE Y    == X \ {c}
           T    == Seq(Y)
           S    == Parts(Y)
           step == Splitting(X, c)
           ss   == Ended(ls, c)
           n    == Len(ls)
           st   == [k \in 0..n |-> Append(ps \o SubSeq(ls, 1, k), <<>>)]
<1>1. ls \in Seq(T) /\ ps \in Seq(T) /\ ls \in Seq(Seq(X)) /\ n \in Nat /\ <<>> \in T
  OBVIOUS
<1>2. ss \in Seq(Seq(X)) /\ Len(ss) = n /\ \A i \in 1..n : ss[i] = ls[i] \o <<c>>
  BY <1>1, EndedAre
<1> HIDE DEF T
<1>3. \A k \in 0..n : ps \o SubSeq(ls, 1, k) \in Seq(T)
  BY <1>1
<1>4. st \in [0..n -> S]
  <2>1. \A k \in 0..n : Append(ps \o SubSeq(ls, 1, k), <<>>) \in S
    <3> TAKE k \in 0..n
    <3> DEFINE u == ps \o SubSeq(ls, 1, k)
    <3>1. u \in Seq(Seq(Y)) /\ <<>> \in Seq(Y)
      BY <1>1, <1>3 DEF T
    <3> HIDE DEF u
    <3>2. Append(u, <<>>) \in S
      BY <3>1, PartsAppend
    <3> QED
      BY <3>2 DEF u
  <2> HIDE DEF S
  <2> QED
    BY <2>1
<1>5. st[0] = Append(ps, <<>>) /\ st[n] = Append(ps \o ls, <<>>)
  <2>1. SubSeq(ls, 1, n) = ls /\ SubSeq(ls, 1, 0) = <<>>
    BY <1>1, WholePrefix
  <2>2. ps \o <<>> = ps
    BY <1>1
  <2>3. st[0] = Append(ps \o SubSeq(ls, 1, 0), <<>>) /\ st[n] = Append(ps \o SubSeq(ls, 1, n), <<>>)
    BY <1>1
  <2> HIDE DEF st
  <2> QED
    BY <2>1, <2>2, <2>3, Zenon
<1>6. ASSUME NEW k \in 1..n PROVE st[k] = Scan(step, st[k - 1], ss[k])
  <2> DEFINE u == ps \o SubSeq(ls, 1, k - 1)
  <2>1. u \in Seq(T) /\ ls[k] \in T /\ k - 1 \in 0..n /\ k \in 0..n
    BY <1>1, <1>3
  <2>2. st[k] = Append(ps \o SubSeq(ls, 1, k), <<>>) /\ st[k - 1] = Append(u, <<>>)
    BY <2>1
  <2>3. ps \o SubSeq(ls, 1, k) = Append(u, ls[k])
    <3> DEFINE v == SubSeq(ls, 1, k - 1)
    <3>1. SubSeq(ls, 1, k) = Append(v, ls[k]) /\ BothIn(T, ps, v)
      BY <1>1, PrefixIs DEF BothIn
    <3> HIDE DEF v
    <3>2. ps \o Append(v, ls[k]) = Append(ps \o v, ls[k]) /\ ps \o v \in Seq(T) /\ Append(v, ls[k]) \in Seq(T)
      BY ONLY <2>1, <3>1, AppendJoined, Zenon
    <3> QED
      BY <3>1, <3>2, Zenon DEF v
  <2>4. SplitMore(X, c, u, <<>>, ls[k])
    BY <1>1, <2>1 DEF SplitMore, SplitState, T
  <2> HIDE DEF u
  <2>5. Scan(Splitting(X, c), Append(u, <<>>), ls[k] \o <<c>>) = Append(Append(u, ls[k]), <<>>)
    BY ONLY <2>4, c \in X, SplitLine
  <2> HIDE DEF st, ss
  <2> QED
    BY <1>2, <2>2, <2>3, <2>5, Zenon
<1>7. ScansAlong(S, X, step, ss, st)
  BY <1>2, <1>4, <1>6, SplittingSteps DEF ScansAlong
<1> HIDE DEF S, step, ss, st
<1>8. Scan(step, st[0], FlattenSeq(ss)) = st[Len(ss)]
  BY <1>7, ScanFlat
<1> QED
  BY <1>2, <1>5, <1>8 DEF step, ss

LEMMA SplitLines ==
  ASSUME NEW X, NEW c \in X, NEW ls \in Seq(Seq(X \ {c}))
  PROVE  Split(FlattenSeq(Ended(ls, c)), c) = Append(ls, <<>>)
<1> DEFINE none == <<>>
           wr   == FlattenSeq(Ended(ls, c))
<1>1. none \in Seq(Seq(X \ {c})) /\ none \o ls = ls
  OBVIOUS
<1>2. ls \in Seq(Seq(X))
  OBVIOUS
<1>3. wr \in Seq(X)
  BY <1>2, EndedAre, FlatIsSeq
<1> HIDE DEF none
<1>4. Scan(Splitting(X, c), Append(none, <<>>), wr) = Append(none \o ls, <<>>)
  BY <1>1, SplitEnded
<1> HIDE DEF wr
<1>5. Split(wr, c) = Scan(Splitting(X, c), << <<>> >>, wr)
  BY <1>3, SplitScan
<1>6. Append(none, <<>>) = << <<>> >>
  BY DEF none
<1> QED
  BY <1>1, <1>4, <1>5, <1>6 DEF wr

\* The same after a line of its own.
LEMMA SplitHeaded ==
  ASSUME NEW X, NEW c \in X, NEW h \in Seq(X \ {c}), NEW ls \in Seq(Seq(X \ {c}))
  PROVE  Split((h \o <<c>>) \o FlattenSeq(Ended(ls, c)), c) = Append(<<h>> \o ls, <<>>)
<1> DEFINE Y    == X \ {c}
           none == <<>>
           base == << <<>> >>
           wr   == FlattenSeq(Ended(ls, c))
           head == h \o <<c>>
           step == Splitting(X, c)
<1>1. /\ none \in Seq(Seq(Y)) /\ <<>> \in Seq(Y) /\ h \in Seq(X) /\ head \in Seq(X) /\ ls \in Seq(Seq(X))
      /\ <<h>> \in Seq(Seq(Y))
  OBVIOUS
<1>2. wr \in Seq(X)
  BY <1>1, EndedAre, FlatIsSeq
<1>3. Append(none, <<>>) = base /\ Append(none, h) = <<h>>
  BY <1>1
<1>4. SplitMore(X, c, none, <<>>, h)
  BY <1>1 DEF SplitMore, SplitState
<1>5. head \o wr \in Seq(X)
  BY <1>1, <1>2
<1> HIDE DEF none
<1>6. Scan(Splitting(X, c), Append(none, <<>>), h \o <<c>>) = Append(Append(none, h), <<>>)
  BY ONLY <1>4, c \in X, SplitLine
<1>7. Scan(Splitting(X, c), Append(<<h>>, <<>>), wr) = Append(<<h>> \o ls, <<>>)
  <2> DEFINE ps == <<h>>
  <2>1. ps \in Seq(Seq(X \ {c}))
    BY <1>1
  <2> HIDE DEF ps
  <2>2. Scan(Splitting(X, c), Append(ps, <<>>), wr) = Append(ps \o ls, <<>>)
    BY <2>1, SplitEnded
  <2> QED
    BY <2>2 DEF ps
<1> HIDE DEF wr, head
<1>8. Scans(Parts(X \ {c}), X, step, base, head)
  BY <1>1, SplittingSteps, Beginning DEF Scans
<1> HIDE DEF base
<1>9. Split(head \o wr, c) = Scan(Splitting(X, c), << <<>> >>, head \o wr)
  BY <1>5, SplitScan
<1> HIDE DEF step
<1>10. Scan(step, base, head \o wr) = Scan(step, Scan(step, base, head), wr)
  BY ONLY <1>2, <1>8, ScanBoth
<1> QED
  BY <1>3, <1>6, <1>7, <1>9, <1>10, Zenon DEF base, head, step, wr

\* A line as str::lines gives it.
Chomped(l) == IF l # <<>> /\ Last(l) = "\r" THEN Front(l) ELSE l

LEMMA ChompedIs ==
  ASSUME NEW Y, NEW l \in Seq(Y)
  PROVE  Chomped(l) \in Seq(Y) /\ Len(Chomped(l)) <= Len(l)
<1>1. CASE l = <<>>
  BY <1>1 DEF Chomped
<1>2. CASE l # <<>>
  <2>1. Front(l) \in Seq(Y) /\ Len(l) \in Nat /\ Len(Front(l)) = Len(l) - 1
    BY <1>2, FrontAndLast
  <2> QED
    BY <2>1 DEF Chomped
<1> QED
  BY <1>1, <1>2

LEMMA LinesFrom ==
  ASSUME NEW Y, NEW w, NEW ls \in Seq(Seq(Y)), NEW rest \in Seq(Y), Split(w, "\n") = Append(ls, rest)
  PROVE  LinesOf(w) = [i \in 1..Len(ls) |-> Chomped(ls[i])] \o (IF rest = <<>> THEN <<>> ELSE <<rest>>)
<1> DEFINE T   == Seq(Y)
           all == Append(ls, rest)
<1>1. ls \in Seq(T) /\ rest \in T
  OBVIOUS
<1>2. all # <<>> /\ Last(all) = rest /\ Len(ls) \in Nat
  BY <1>1, PartsAppend DEF Parts
<1> HIDE DEF T
<1>3. Len(all) - 1 = Len(ls) /\ \A i \in 1..Len(ls) : all[i] = ls[i]
  BY <1>1
<1> HIDE DEF all
<1>4. LinesOf(w) = [i \in 1..(Len(all) - 1) |-> Chomped(all[i])]
                   \o (IF Last(all) = <<>> THEN <<>> ELSE <<Last(all)>>)
  BY Zenon DEF LinesOf, Chomped, all
<1>5. [i \in 1..(Len(all) - 1) |-> Chomped(all[i])] = [i \in 1..Len(ls) |-> Chomped(ls[i])]
  BY <1>3
<1> QED
  BY <1>2, <1>4, <1>5, Zenon

LEMMA LinesClean ==
  ASSUME NEW X, NEW w \in Seq(X)
  PROVE  LinesOf(w) \in Seq(Seq(X \ {"\n"}))
<1> DEFINE Y == X \ {"\n"}
           T == Seq(Y)
<1>1. Split(w, "\n") \in Parts(Y)
  BY SplitClean
<1>2. PICK ls, rest : ls \in Seq(T) /\ rest \in T /\ Split(w, "\n") = Append(ls, rest)
  BY <1>1, PartsSplit
<1> DEFINE chopped == [i \in 1..Len(ls) |-> Chomped(ls[i])]
           left    == IF rest = <<>> THEN <<>> ELSE <<rest>>
<1>3. LinesOf(w) = chopped \o left
  <2>1. ls \in Seq(Seq(Y)) /\ rest \in Seq(Y) /\ Split(w, "\n") = Append(ls, rest)
    BY <1>2
  <2> HIDE DEF Y
  <2> QED
    BY ONLY <2>1, LinesFrom, ZenonT(60)
<1>4. \A i \in 1..Len(ls) : Chomped(ls[i]) \in T
  <2> TAKE i \in 1..Len(ls)
  <2>1. ls[i] \in Seq(Y)
    BY <1>2
  <2> QED
    BY <2>1, ChompedIs
<1>5. Len(ls) \in Nat
  BY <1>2
<1> HIDE DEF T
<1>6. chopped \in Seq(T)
  BY <1>4, <1>5
<1>7. left \in Seq(T)
  BY <1>2
<1> HIDE DEF chopped, left
<1>8. chopped \o left \in Seq(T)
  BY <1>6, <1>7
<1> QED
  BY <1>3, <1>8 DEF T

-----------------------------------------------------------------------------
(* Leaving out what is empty *)

Present(ls) == FlattenSeq([i \in DOMAIN ls |-> IF ls[i] = <<>> THEN <<>> ELSE <<ls[i]>>])

\* Nothing is left out exactly if no line is empty.
LEMMA Presented ==
  ASSUME NEW T, NEW ls \in Seq(T)
  PROVE  /\ Present(ls) \in Seq(T) /\ Len(ls) \in Nat /\ Len(Present(ls)) <= Len(ls)
         /\ (\A i \in 1..Len(ls) : ls[i] # <<>>) => Present(ls) = ls
         /\ (\E i \in 1..Len(ls) : ls[i] = <<>>) => Len(Present(ls)) < Len(ls)
<1> DEFINE n  == Len(ls)
           ss == [i \in DOMAIN ls |-> IF ls[i] = <<>> THEN <<>> ELSE <<ls[i]>>]
<1>1. n \in Nat /\ DOMAIN ls = 1..n /\ \A i \in 1..n : ls[i] \in T
  OBVIOUS
<1>2. \A i \in 1..n : (IF ls[i] = <<>> THEN <<>> ELSE <<ls[i]>>) \in Seq(T)
  BY <1>1
<1>3. ss \in Seq(Seq(T)) /\ Len(ss) = n /\ \A i \in 1..n : ss[i] = IF ls[i] = <<>> THEN <<>> ELSE <<ls[i]>>
  <2>1. ss = [i \in 1..n |-> IF ls[i] = <<>> THEN <<>> ELSE <<ls[i]>>]
    BY <1>1
  <2> QED
    BY <1>1, <1>2, <2>1
<1>4. Present(ls) = FlattenSeq(ss)
  BY DEF Present
<1> HIDE DEF ss
<1>5. PICK f : IsFlat(f, T, ss)
  BY <1>3, FlatRun
<1>6. /\ f \in [0..n -> Seq(T)] /\ f[0] = <<>> /\ f[n] = Present(ls)
      /\ \A k \in 1..n : f[k] = f[k - 1] \o ss[k]
  BY <1>3, <1>4, <1>5 DEF IsFlat
<1> DEFINE Good(k) == /\ Len(f[k]) \in Nat /\ Len(f[k]) <= k
                      /\ (\A i \in 1..k : ls[i] # <<>>) => f[k] = SubSeq(ls, 1, k)
                      /\ (\E i \in 1..k : ls[i] = <<>>) => Len(f[k]) < k
           D == {k \in 0..n : Good(k)}
<1>7. 0 \in D
  <2>1. SubSeq(ls, 1, 0) = <<>> /\ Len(<<>>) = 0
    BY WholePrefix
  <2> QED
    BY <1>1, <1>6, <2>1
<1>8. \A k \in 0..(n - 1) : k \in D => k + 1 \in D
  <2> TAKE k \in 0..(n - 1)
  <2> HAVE k \in D
  <2>1. k + 1 \in 1..n /\ (k + 1) - 1 = k /\ k + 1 \in 0..n /\ k \in 0..n
    BY <1>1
  <2>2. f[k] \in Seq(T) /\ f[k + 1] = f[k] \o ss[k + 1]
    BY <1>6, <2>1
  <2>3. Good(k)
    OBVIOUS
  <2>4. CASE ls[k + 1] = <<>>
    <3>1. f[k + 1] = f[k]
      <4>1. ss[k + 1] = <<>>
        BY <1>3, <2>1, <2>4
      <4>2. f[k] \o <<>> = f[k]
        BY <2>2, NothingBefore
      <4> QED
        BY <2>2, <4>1, <4>2
    <3>2. k + 1 \in 1..(k + 1)
      OBVIOUS
    <3>3. Good(k + 1)
      BY <2>1, <2>3, <2>4, <3>1, <3>2
    <3> QED
      BY <2>1, <3>3
  <2>5. CASE ls[k + 1] # <<>>
    <3>1. f[k + 1] = f[k] \o <<ls[k + 1]>> /\ ls[k + 1] \in T
      BY <1>1, <1>3, <2>1, <2>2, <2>5
    <3>2. f[k] \o <<ls[k + 1]>> = Append(f[k], ls[k + 1]) /\ Len(f[k] \o <<ls[k + 1]>>) = Len(f[k]) + 1
      BY <2>2, <3>1
    <3>3. SubSeq(ls, 1, k + 1) = Append(SubSeq(ls, 1, k), ls[k + 1])
      BY <2>1, PrefixIs
    <3>4. \A i \in 1..(k + 1) : i \in 1..k \/ i = k + 1
      OBVIOUS
    <3>5. Len(f[k + 1]) \in Nat /\ Len(f[k + 1]) <= k + 1
      BY <2>3, <3>1, <3>2
    <3>6. (\A i \in 1..(k + 1) : ls[i] # <<>>) => f[k + 1] = SubSeq(ls, 1, k + 1)
      <4> HAVE \A i \in 1..(k + 1) : ls[i] # <<>>
      <4>1. \A i \in 1..k : ls[i] # <<>>
        OBVIOUS
      <4>2. f[k] = SubSeq(ls, 1, k)
        BY <2>3, <4>1
      <4> QED
        BY <3>1, <3>2, <3>3, <4>2
    <3>7. (\E i \in 1..(k + 1) : ls[i] = <<>>) => Len(f[k + 1]) < k + 1
      BY <2>3, <2>5, <3>1, <3>2, <3>4
    <3> QED
      BY <2>1, <3>5, <3>6, <3>7
  <2> QED
    BY <2>4, <2>5
<1> HIDE DEF D
<1>9. \A k \in 0..n : k \in D
  BY <1>1, <1>7, <1>8, Ladder
<1>10. Good(n)
  BY <1>1, <1>9 DEF D
<1>11. SubSeq(ls, 1, n) = ls /\ f[n] \in Seq(T)
  BY <1>1, <1>6, WholePrefix
<1> QED
  BY <1>1, <1>6, <1>10, <1>11

-----------------------------------------------------------------------------
(* What is joined, from its end *)

LEMMA FlatNone == FlattenSeq(<<>>) = <<>>
BY DEF FlattenSeq

LEMMA FlatAppend ==
  ASSUME NEW X, NEW ss \in Seq(Seq(X)), NEW w \in Seq(X)
  PROVE  FlattenSeq(Append(ss, w)) = FlattenSeq(ss) \o w
<1> DEFINE n   == Len(ss)
           all == Append(ss, w)
           T   == Seq(X)
<1>1. ss \in Seq(T) /\ w \in T
  OBVIOUS
<1> HIDE DEF T
<1>2. n \in Nat /\ all \in Seq(T) /\ Len(all) = n + 1 /\ all[n + 1] = w /\ \A i \in 1..n : all[i] = ss[i]
  BY <1>1
<1> HIDE DEF all
<1>3. PICK f : IsFlat(f, X, all)
  BY <1>2, FlatRun DEF T
<1>4. PICK g : IsFlat(g, X, ss)
  BY FlatRun
<1>5. f[0] = g[0] /\ f[n + 1] = FlattenSeq(all) /\ g[n] = FlattenSeq(ss)
  BY <1>2, <1>3, <1>4 DEF IsFlat
<1>6. (\A k \in 1..n : f[k] = f[k - 1] \o ss[k]) /\ (\A k \in 1..n : g[k] = g[k - 1] \o ss[k])
  <2>1. \A k \in 1..Len(all) : f[k] = f[k - 1] \o all[k]
    BY <1>3, Zenon DEF IsFlat
  <2>2. \A k \in 1..Len(ss) : g[k] = g[k - 1] \o ss[k]
    BY <1>4, Zenon DEF IsFlat
  <2>3. \A k \in 1..n : k \in 1..Len(all)
    BY <1>2
  <2> QED
    BY <1>2, <2>1, <2>2, <2>3, Zenon
<1>7. f[n] = g[n]
  <2>1. \A k \in 1..n : f[k - 1] = g[k - 1] => f[k] = g[k]
    BY <1>6
  <2> QED
    BY <1>2, <1>5, <2>1, SameEnd
<1>8. f[n + 1] = f[n] \o w
  <2>1. n + 1 \in 1..Len(all) /\ (n + 1) - 1 = n
    BY <1>2
  <2>2. f[n + 1] = f[(n + 1) - 1] \o all[n + 1]
    BY <1>3, <2>1 DEF IsFlat
  <2> QED
    BY <1>2, <2>1, <2>2
<1> QED
  BY <1>5, <1>7, <1>8 DEF all

\* What is before the last part.
Ahead(ps, c) == IF ps = <<>> THEN <<>> ELSE JoinWith(ps, c) \o <<c>>

LEMMA JoinEnd ==
  ASSUME NEW X, NEW c \in X, NEW ps \in Seq(Seq(X)), NEW cur \in Seq(X)
  PROVE  /\ JoinWith(Append(ps, cur), c) = Ahead(ps, c) \o cur
         /\ Ahead(ps, c) \in Seq(X)
         /\ ps # <<>> => Ahead(ps, c) # <<>> /\ Last(Ahead(ps, c)) = c
<1> DEFINE all == Append(ps, cur)
           n   == Len(ps)
           T   == Seq(X)
<1>1. ps \in Seq(T) /\ cur \in T /\ <<c>> \in T /\ <<c>> \o cur \in T
  OBVIOUS
<1>2. all \in Seq(Seq(X)) /\ n \in Nat /\ Len(all) = n + 1 /\ all[n + 1] = cur /\ \A i \in 1..n : all[i] = ps[i]
  OBVIOUS
<1> HIDE DEF all
<1>3. JoinWith(all, c) = FlattenSeq(Pieces(all, c)) /\ JoinWith(ps, c) = FlattenSeq(Pieces(ps, c))
      /\ JoinWith(ps, c) \in Seq(X)
  BY <1>2, PiecesAre
<1>4. /\ Pieces(ps, c) \in Seq(T) /\ Len(Pieces(ps, c)) = n
      /\ \A i \in 1..n : Pieces(ps, c)[i] = IF i = 1 THEN ps[1] ELSE <<c>> \o ps[i]
  BY PiecesAre, SMTT(60) DEF T
<1>a. /\ Pieces(all, c) \in Seq(T) /\ Len(Pieces(all, c)) = n + 1
      /\ \A i \in 1..(n + 1) : Pieces(all, c)[i] = IF i = 1 THEN all[1] ELSE <<c>> \o all[i]
  <2>1. /\ Pieces(all, c) \in Seq(Seq(X)) /\ Len(Pieces(all, c)) = Len(all)
        /\ \A i \in 1..Len(all) : Pieces(all, c)[i] = IF i = 1 THEN all[1] ELSE <<c>> \o all[i]
    <3>1. all \in Seq(Seq(X))
      BY <1>2
    <3>2. /\ Pieces(all, c) \in Seq(Seq(X)) /\ Len(Pieces(all, c)) = Len(all) /\ Len(all) \in Nat
          /\ JoinWith(all, c) = FlattenSeq(Pieces(all, c)) /\ JoinWith(all, c) \in Seq(X)
          /\ \A i \in 1..Len(all) :
               /\ all[i] \in Seq(X)
               /\ Pieces(all, c)[i] = IF i = 1 THEN all[1] ELSE <<c>> \o all[i]
      BY ONLY <3>1, c \in X, PiecesAre, SMTT(60)
    <3> QED
      BY <3>2, Zenon
  <2> QED
    BY <1>2, <2>1 DEF T
<1> DEFINE piece == IF n = 0 THEN cur ELSE <<c>> \o cur
           bits  == Pieces(ps, c)
<1>5. piece \in T
  BY <1>1
<1>6. Pieces(all, c) = Append(bits, piece)
  <2>1. Append(bits, piece) \in Seq(T) /\ Len(Append(bits, piece)) = n + 1
        /\ (\A i \in 1..n : Append(bits, piece)[i] = bits[i]) /\ Append(bits, piece)[n + 1] = piece
    <3> HIDE DEF piece, bits, T
    <3> QED
      BY <1>4, <1>5 DEF bits
  <2>2. ASSUME NEW i \in 1..n PROVE Pieces(all, c)[i] = bits[i]
    <3>1. i \in 1..(n + 1) /\ 1 \in 1..n /\ all[i] = ps[i] /\ all[1] = ps[1]
      BY <1>2
    <3>2. Pieces(all, c)[i] = (IF i = 1 THEN all[1] ELSE <<c>> \o all[i]) /\ bits[i] = IF i = 1 THEN ps[1] ELSE <<c>> \o ps[i]
      BY <1>4, <1>a, <3>1, Zenon
    <3> QED
      BY <3>1, <3>2, Zenon
  <2>3. Pieces(all, c)[n + 1] = piece
    <3>1. n + 1 \in 1..(n + 1) /\ (n + 1 = 1 <=> n = 0)
      BY <1>2
    <3>2. Pieces(all, c)[n + 1] = IF n + 1 = 1 THEN all[1] ELSE <<c>> \o all[n + 1]
      BY <1>a, <3>1, Zenon
    <3>3. CASE n = 0
      BY <1>2, <3>2, <3>3
    <3>4. CASE n # 0
      BY <1>2, <3>1, <3>2, <3>4, Zenon
    <3> QED
      BY <3>3, <3>4
  <2> HIDE DEF bits, piece, T
  <2>4. \A i \in 1..(n + 1) : Pieces(all, c)[i] = Append(bits, piece)[i]
    BY <1>2, <2>1, <2>2, <2>3
  <2> DEFINE a == Pieces(all, c)
             b == Append(bits, piece)
  <2>5. a \in Seq(T) /\ b \in Seq(T) /\ Len(a) = Len(b) /\ \A i \in 1..Len(a) : a[i] = b[i]
    BY <1>2, <1>4, <1>a, <2>1, <2>4
  <2> HIDE DEF a, b
  <2>6. a = b
    BY <2>5
  <2> QED
    BY <2>6 DEF a, b
<1> HIDE DEF bits, piece
<1>7. FlattenSeq(Append(bits, piece)) = FlattenSeq(bits) \o piece
  BY <1>4, <1>5, FlatAppend DEF bits
<1>8. JoinWith(all, c) = JoinWith(ps, c) \o piece
  BY <1>3, <1>6, <1>7 DEF bits
<1>9. CASE ps = <<>>
  <2>1. JoinWith(ps, c) = <<>>
    <3>1. Pieces(ps, c) = <<>>
      BY <1>4, <1>9
    <3> QED
      BY <1>3, <3>1, FlatNone
  <2>2. piece = cur /\ <<>> \o cur = cur
    BY <1>9 DEF piece
  <2> QED
    BY <1>8, <1>9, <2>1, <2>2 DEF Ahead, all
<1>10. CASE ps # <<>>
  <2> DEFINE j == JoinWith(ps, c)
  <2>0. Len(ps) # 0
    <3>1. ps \in Seq(Seq(X))
      BY <1>2
    <3> QED
      BY ONLY <3>1, <1>10
  <2>1. piece = <<c>> \o cur /\ j \in Seq(X)
    BY <1>3, <2>0, Zenon DEF piece
  <2> HIDE DEF j
  <2>2. j \o (<<c>> \o cur) = (j \o <<c>>) \o cur /\ j \o <<c>> \in Seq(X)
    BY ONLY <2>1, c \in X, cur \in Seq(X), SMTT(40)
  <2>3. j \o <<c>> # <<>> /\ Last(j \o <<c>>) = c
    BY <2>1 DEF Last
  <2> QED
    BY <1>8, <1>10, <2>1, <2>2, <2>3 DEF Ahead, all, j
<1> QED
  BY <1>9, <1>10

LEMMA LastJoined ==
  ASSUME NEW X, NEW s \in Seq(X), NEW t \in Seq(X)
  PROVE  /\ t # <<>> => /\ s \o t # <<>> /\ Last(s \o t) = Last(t)
                        /\ Front(s \o t) = s \o Front(t)
         /\ t = <<>> => s \o t = s
<1>1. CASE t = <<>>
  BY <1>1
<1>2. CASE t # <<>>
  <2>1. Front(t) \in Seq(X) /\ Last(t) \in X /\ t = Append(Front(t), Last(t))
    BY <1>2, FrontAndLast
  <2> DEFINE a == Front(t)
             x == Last(t)
  <2>2. BothIn(X, s, a) /\ x \in X
    BY <2>1 DEF BothIn
  <2> HIDE DEF a, x
  <2>3. s \o Append(a, x) = Append(s \o a, x) /\ s \o a \in Seq(X) /\ Append(a, x) \in Seq(X)
    BY ONLY <2>2, AppendJoined, Zenon
  <2> DEFINE b == s \o a
             r == Append(b, x)
  <2>4. b \in Seq(X) /\ x \in X
    BY <2>2, <2>3
  <2> HIDE DEF b
  <2>5. r \in Seq(X) /\ Len(r) = Len(b) + 1 /\ Len(b) \in Nat /\ r[Len(b) + 1] = x /\ \A i \in 1..Len(b) : r[i] = b[i]
    BY <2>4
  <2> HIDE DEF r
  <2>6. r # <<>>
    BY <2>5
  <2>7. Last(r) = x
    BY <2>5 DEF Last
  <2>8. Front(r) \in Seq(X) /\ Len(Front(r)) = Len(r) - 1 /\ \A i \in 1..(Len(r) - 1) : Front(r)[i] = r[i]
    <3>1. SubSeq(r, 1, Len(b)) \in Seq(X) /\ Len(SubSeq(r, 1, Len(b))) = Len(b) /\ \A i \in 1..Len(b) : SubSeq(r, 1, Len(b))[i] = r[i]
      BY <2>5
    <3>2. Len(r) - 1 = Len(b)
      BY <2>5
    <3> QED
      BY <3>1, <3>2 DEF Front
  <2>9. Front(r) = b
    BY <2>4, <2>5, <2>8
  <2>10. s \o t = r
    BY <2>1, <2>3 DEF a, x, b, r
  <2> QED
    BY <1>2, <2>6, <2>7, <2>9, <2>10 DEF a, x, b
<1> QED
  BY <1>1, <1>2

-----------------------------------------------------------------------------
(* Tables and their lines *)

Field == Seq(STRING) \cup {NULL}

IsCopyTable(t) == t.columns \in Nat \ {0} /\ t.rows \in Seq([1..t.columns -> Field])

LEMMA RowIs ==
  ASSUME NEW n \in Nat, NEW V, NEW r \in [1..n -> V]
  PROVE  r \in Seq(V) /\ Len(r) = n /\ DOMAIN r = 1..n
OBVIOUS

LEMMA RowsAre ==
  ASSUME NEW t, IsCopyTable(t)
  PROVE  /\ Len(t.rows) \in Nat /\ DOMAIN t.rows = 1..Len(t.rows)
         /\ \A i \in 1..Len(t.rows) : /\ t.rows[i] \in [1..t.columns -> Field] /\ t.rows[i] \in Seq(Field)
                                      /\ Len(t.rows[i]) = t.columns /\ DOMAIN t.rows[i] = 1..t.columns
<1> DEFINE R == [1..t.columns -> Field]
           q == t.rows
<1>1. q \in Seq(R) /\ t.columns \in Nat
  BY DEF IsCopyTable
<1> HIDE DEF R, q
<1>2. Len(q) \in Nat /\ DOMAIN q = 1..Len(q) /\ \A i \in 1..Len(q) : q[i] \in R
  BY <1>1
<1>3. \A i \in 1..Len(q) : q[i] \in Seq(Field) /\ Len(q[i]) = t.columns /\ DOMAIN q[i] = 1..t.columns
  <2> TAKE i \in 1..Len(q)
  <2> DEFINE r == q[i]
  <2>1. r \in [1..t.columns -> Field]
    BY <1>2 DEF R
  <2> HIDE DEF r
  <2>2. r \in Seq(Field) /\ Len(r) = t.columns /\ DOMAIN r = 1..t.columns
    BY <1>1, <2>1, RowIs
  <2> QED
    BY <2>2 DEF r
<1> QED
  BY <1>2, <1>3 DEF R, q

\* The rows are inserted if each has a value for each column, and else not all.
LEMMA InsertedIff ==
  ASSUME NEW t, IsCopyTable(t), NEW rs, DOMAIN rs = 1..Len(rs)
  PROVE  Inserted(t.columns, rs) = [rows |-> t.rows, ok |-> TRUE] <=> rs = t.rows
<1> DEFINE wrong == {i \in DOMAIN rs : Len(rs[i]) # t.columns}
<1>1. rs = t.rows => wrong = {}
  BY RowsAre
<1>2. Inserted(t.columns, rs) = IF wrong = {} THEN [rows |-> rs, ok |-> TRUE]
                                ELSE [rows |-> SubSeq(rs, 1, Min(wrong) - 1), ok |-> FALSE]
  BY DEF Inserted
<1> HIDE DEF wrong
<1>3. CASE wrong = {}
  <2> DEFINE a == [rows |-> rs, ok |-> TRUE]
             b == [rows |-> t.rows, ok |-> TRUE]
  <2>1. Inserted(t.columns, rs) = a
    BY <1>2, <1>3
  <2>2. a.rows = rs /\ b.rows = t.rows
    OBVIOUS
  <2>3. rs = t.rows => a = b
    OBVIOUS
  <2> HIDE DEF a, b
  <2>4. a = b <=> rs = t.rows
    BY <2>2, <2>3, Zenon
  <2> QED
    BY <2>1, <2>4, Zenon DEF b
<1>4. CASE wrong # {}
  <2>1. Inserted(t.columns, rs).ok = FALSE
    BY <1>2, <1>4
  <2> QED
    BY <1>1, <1>4, <2>1
<1> QED
  BY <1>3, <1>4

Formatted(v, o)  == IF o.format = "CSV" THEN FormatCsv(v, o) ELSE FormatText(v, o)
Fields(row, o)   == [i \in DOMAIN row |-> Formatted(row[i], o)]
RowText(row, o)  == JoinWith(Fields(row, o), o.delimiter)
HeaderText(n, o) == JoinWith([i \in 1..n |-> <<"c">>], o.delimiter)
ReadValues(l, o) == IF o.format = "CSV" THEN CsvValues(l, o) ELSE TextValues(l, o)

Back(t, o) == Read(Written(t, o), t.columns, o) = [rows |-> t.rows, ok |-> TRUE]

\* A table in lines comes back if its lines are read as its rows.
LEMMA BackIff ==
  ASSUME NEW t, IsCopyTable(t), NEW o, o.format # "BINARY",
         NEW lines, lines = DataLines(Written(t, o), o), DOMAIN lines = 1..Len(lines), Len(lines) \in Nat
  PROVE  Back(t, o) <=> [i \in DOMAIN lines |-> ReadValues(lines[i], o)] = t.rows
<1> DEFINE rs == [i \in DOMAIN lines |-> ReadValues(lines[i], o)]
<1>1. DOMAIN rs = 1..Len(rs)
  OBVIOUS
<1>2. Read(Written(t, o), t.columns, o) = Inserted(t.columns, rs)
  BY DEF Read, ReadValues
<1> HIDE DEF rs
<1>3. Inserted(t.columns, rs) = [rows |-> t.rows, ok |-> TRUE] <=> rs = t.rows
  BY <1>1, InsertedIff
<1> QED
  BY <1>2, <1>3 DEF Back, rs

\* The lines that are written, none of which has a line feed in it, are those that
\* are read, but for the empty ones.
Tidy(X, t, o) ==
  /\ "\n" \in X
  /\ HeaderText(t.columns, o) \in Seq(X \ {"\n"})
  /\ \A i \in 1..Len(t.rows) : RowText(t.rows[i], o) \in Seq(X \ {"\n"})

LEMMA DataLinesAre ==
  ASSUME NEW t, IsCopyTable(t), NEW o, o.format # "BINARY", o.header \in BOOLEAN, NEW X, Tidy(X, t, o)
  PROVE  DataLines(Written(t, o), o) = Present([i \in 1..Len(t.rows) |-> Chomped(RowText(t.rows[i], o))])
<1> DEFINE n  == Len(t.rows)
           Y  == X \ {"\n"}
           ls == [i \in 1..n |-> RowText(t.rows[i], o)]
           h  == HeaderText(t.columns, o)
           F  == FlattenSeq(Ended(ls, "\n"))
           headed == o.format = "CSV" /\ o.header
           chop == [i \in 1..n |-> Chomped(ls[i])]
<1>1. /\ n \in Nat /\ DOMAIN t.rows = 1..n /\ "\n" \in X /\ h \in Seq(Y)
      /\ ls \in Seq(Seq(Y)) /\ Len(ls) = n /\ DOMAIN ls = 1..n
  <2>1. n \in Nat /\ DOMAIN t.rows = 1..n
    BY RowsAre
  <2>2. "\n" \in X /\ h \in Seq(Y) /\ \A i \in 1..n : RowText(t.rows[i], o) \in Seq(Y)
    BY DEF Tidy
  <2> QED
    BY <2>1, <2>2
<1>2. Written(t, o) = (IF headed THEN h \o <<"\n">> ELSE <<>>) \o F
  <2>1. [i \in DOMAIN t.rows |-> Line(t.rows[i], o)] = Ended(ls, "\n")
    <3>1. \A i \in 1..n : Line(t.rows[i], o) = RowText(t.rows[i], o) \o <<"\n">>
      BY Zenon DEF Line, RowText, Fields, Formatted
    <3>2. \A i \in 1..n : ls[i] = RowText(t.rows[i], o)
      OBVIOUS
    <3> HIDE DEF ls
    <3>3. Ended(ls, "\n") = [i \in 1..n |-> ls[i] \o <<"\n">>]
      BY <1>1 DEF Ended
    <3> QED
      BY <1>1, <3>1, <3>2, <3>3
  <2>2. HeaderLine(t.columns, o) = h \o <<"\n">>
    BY Zenon DEF HeaderLine, HeaderText
  <2> QED
    BY <2>1, <2>2 DEF Written
<1> HIDE DEF h, ls, Y
<1>3. DataLines(Written(t, o), o) = Present(chop)
  <2> DEFINE w     == Written(t, o)
             lines == LinesOf(w)
             body  == IF o.format = "CSV" /\ o.header /\ lines # <<>> THEN Tail(lines) ELSE lines
  <2>1. DataLines(w, o) = Present(body)
    BY Zenon DEF DataLines, Present
  <2>2. body = chop
    <3>1. CASE headed
      <4> DEFINE all == <<h>> \o ls
      <4>1. w = (h \o <<"\n">>) \o F
        BY <1>2, <3>1
      <4>2. Split((h \o <<"\n">>) \o F, "\n") = Append(all, <<>>)
        BY <1>1, SplitHeaded DEF Y
      <4>3. /\ all \in Seq(Seq(Y)) /\ <<>> \in Seq(Y) /\ Len(all) = n + 1 /\ all[1] = h
            /\ \A i \in 1..n : all[i + 1] = ls[i]
        BY <1>1
      <4> HIDE DEF w, all
      <4>4. lines = [i \in 1..Len(all) |-> Chomped(all[i])] \o (IF <<>> = <<>> THEN <<>> ELSE << <<>> >>)
        BY <4>1, <4>2, <4>3, LinesFrom
      <4> DEFINE got == [i \in 1..(n + 1) |-> Chomped(all[i])]
      <4>5. \A i \in 1..(n + 1) : Chomped(all[i]) \in Seq(Y)
        <5> TAKE i \in 1..(n + 1)
        <5>1. all[i] \in Seq(Y)
          BY <4>3
        <5> QED
          BY <5>1, ChompedIs
      <4> DEFINE T == Seq(Y)
      <4> HIDE DEF T
      <4>6. got \in Seq(T) /\ Len(got) = n + 1
        BY <1>1, <4>5 DEF T
      <4>7. lines = got
        <5> HIDE DEF got
        <5>1. got \o <<>> = got
          BY <4>6
        <5> QED
          BY <4>3, <4>4, <5>1 DEF got
      <4>8. Tail(got) = [i \in 1..n |-> Chomped(all[i + 1])]
        BY <1>1
      <4>9. [i \in 1..n |-> Chomped(all[i + 1])] = chop
        BY <4>3
      <4>10. got # <<>>
        <5> HIDE DEF got
        <5> QED
          BY <1>1, <4>6
      <4> HIDE DEF got, lines, chop
      <4> QED
        BY <3>1, <4>7, <4>8, <4>9, <4>10
    <3>2. CASE ~headed
      <4>1. F \in Seq(X)
        <5>1. ls \in Seq(Seq(X))
          BY <1>1 DEF Y
        <5> QED
          BY <1>1, <5>1, EndedAre, FlatIsSeq
      <4>2. w = F
        <5> HIDE DEF F
        <5>1. <<>> \o F = F
          BY <4>1
        <5> QED
          BY <1>2, <3>2, <5>1
      <4>3. Split(F, "\n") = Append(ls, <<>>)
        BY <1>1, SplitLines DEF Y
      <4>4. <<>> \in Seq(Y)
        OBVIOUS
      <4> HIDE DEF w, F
      <4>5. lines = [i \in 1..Len(ls) |-> Chomped(ls[i])] \o (IF <<>> = <<>> THEN <<>> ELSE << <<>> >>)
        BY <1>1, <4>2, <4>3, <4>4, LinesFrom
      <4>6. \A i \in 1..n : Chomped(ls[i]) \in Seq(Y)
        <5> TAKE i \in 1..n
        <5>1. ls[i] \in Seq(Y)
          BY <1>1
        <5> QED
          BY <5>1, ChompedIs
      <4> DEFINE T == Seq(Y)
      <4> HIDE DEF T
      <4>7. chop \in Seq(T)
        BY <1>1, <4>6 DEF T
      <4>8. lines = chop
        <5> HIDE DEF chop
        <5>1. chop \o <<>> = chop
          BY <4>7
        <5> QED
          BY <1>1, <4>5, <5>1 DEF chop
      <4> HIDE DEF lines, chop
      <4> QED
        BY <3>2, <4>8
    <3> QED
      BY <3>1, <3>2
  <2> QED
    BY <2>1, <2>2
<1>4. chop = [i \in 1..n |-> Chomped(RowText(t.rows[i], o))]
  BY DEF ls
<1> QED
  BY <1>3, <1>4

\* When no line has a line feed in it, a table comes back if each of its rows is
\* read from its own line.
LEMMA TidyIff ==
  ASSUME NEW t, IsCopyTable(t), NEW o, o.format # "BINARY", o.header \in BOOLEAN, NEW X, Tidy(X, t, o)
  PROVE  Back(t, o) <=> \A i \in 1..Len(t.rows) :
                          /\ Chomped(RowText(t.rows[i], o)) # <<>>
                          /\ ReadValues(Chomped(RowText(t.rows[i], o)), o) = t.rows[i]
<1> DEFINE n     == Len(t.rows)
           Y     == X \ {"\n"}
           T     == Seq(Y)
           chop  == [i \in 1..n |-> Chomped(RowText(t.rows[i], o))]
           lines == Present(chop)
           q     == t.rows
<1>1. n \in Nat /\ DOMAIN q = 1..n /\ \A i \in 1..n : Chomped(RowText(t.rows[i], o)) \in T
  <2>1. n \in Nat /\ DOMAIN q = 1..n
    BY RowsAre
  <2>2. \A i \in 1..n : Chomped(RowText(t.rows[i], o)) \in T
    <3> TAKE i \in 1..n
    <3>1. RowText(t.rows[i], o) \in Seq(Y)
      BY DEF Tidy
    <3> QED
      BY <3>1, ChompedIs
  <2> QED
    BY <2>1, <2>2
<1> HIDE DEF T
<1>2. chop \in Seq(T) /\ Len(chop) = n /\ \A i \in 1..n : chop[i] = Chomped(RowText(t.rows[i], o))
  BY <1>1
<1>3. lines = DataLines(Written(t, o), o)
  BY DataLinesAre
<1> HIDE DEF chop, lines
<1>4. /\ lines \in Seq(T) /\ Len(lines) <= n
      /\ (\A i \in 1..n : chop[i] # <<>>) => lines = chop
      /\ (\E i \in 1..n : chop[i] = <<>>) => Len(lines) < n
  BY <1>2, Presented DEF lines
<1>5. DOMAIN lines = 1..Len(lines) /\ Len(lines) \in Nat
  BY <1>4
<1> DEFINE got == [i \in DOMAIN lines |-> ReadValues(lines[i], o)]
<1>6. Back(t, o) <=> got = t.rows
  BY <1>3, <1>5, BackIff
<1>7. CASE \A i \in 1..n : chop[i] # <<>>
  <2>1. got = [i \in 1..n |-> ReadValues(chop[i], o)]
    BY <1>2, <1>4, <1>5, <1>7
  <2>2. q = [i \in 1..n |-> q[i]]
    <3>1. q \in Seq([1..t.columns -> Field])
      BY DEF IsCopyTable
    <3> QED
      BY <1>1, <3>1
  <2> HIDE DEF got
  <2>3. got = q <=> \A i \in 1..n : ReadValues(chop[i], o) = q[i]
    BY <2>1, <2>2
  <2> QED
    BY <1>2, <1>6, <1>7, <2>3
<1>8. CASE \E i \in 1..n : chop[i] = <<>>
  <2>1. DOMAIN got = 1..Len(lines) /\ Len(lines) < n
    BY <1>4, <1>5, <1>8
  <2> HIDE DEF got
  <2>2. got # q
    BY <1>1, <1>5, <2>1
  <2> QED
    BY <1>2, <1>6, <1>8, <2>2
<1> QED
  BY <1>7, <1>8

\* Whatever comes back was read from a line, with no line feed in it.
LEMMA FromLines ==
  ASSUME NEW t, IsCopyTable(t), NEW o, o.format # "BINARY", NEW X, Written(t, o) \in Seq(X), Back(t, o)
  PROVE  \A i \in 1..Len(t.rows) : \E l \in Seq(X \ {"\n"}) : ReadValues(l, o) = t.rows[i]
<1> DEFINE w    == Written(t, o)
           T    == Seq(X \ {"\n"})
           cut  == LinesOf(w)
           body == IF o.format = "CSV" /\ o.header /\ cut # <<>> THEN Tail(cut) ELSE cut
           lines == DataLines(w, o)
<1>1. lines = Present(body)
  BY Zenon DEF DataLines, Present
<1>2. cut \in Seq(T)
  BY LinesClean
<1> HIDE DEF T, cut, w
<1>3. body \in Seq(T)
  BY <1>2
<1> HIDE DEF body, lines
<1>4. lines \in Seq(T)
  BY <1>1, <1>3, Presented
<1>5. DOMAIN lines = 1..Len(lines) /\ Len(lines) \in Nat /\ \A i \in 1..Len(lines) : lines[i] \in T
  BY <1>4
<1>6. [i \in DOMAIN lines |-> ReadValues(lines[i], o)] = t.rows
  BY <1>5, BackIff DEF lines, w
<1>7. DOMAIN t.rows = 1..Len(t.rows)
  BY RowsAre
<1>8. ASSUME NEW i \in 1..Len(t.rows) PROVE lines[i] \in T /\ ReadValues(lines[i], o) = t.rows[i]
  <2>1. i \in DOMAIN lines
    BY <1>6, <1>7
  <2>2. [k \in DOMAIN lines |-> ReadValues(lines[k], o)][i] = ReadValues(lines[i], o)
    BY <2>1
  <2> QED
    BY <1>5, <1>6, <2>1, <2>2
<1> QED
  BY <1>8 DEF T

-----------------------------------------------------------------------------
(* Characters *)

Chars == STRING \cup {"\n", "\r", Tab, Quote, ",", "\\", "n", "t", "r", "N", "c"}

LEMMA Widened == ASSUME NEW A, NEW B, A \subseteq B, NEW s \in Seq(A) PROVE s \in Seq(B)
OBVIOUS

\* A line with its characters from a set.
LEMMA RowTextIs ==
  ASSUME NEW t, IsCopyTable(t), NEW i \in 1..Len(t.rows), NEW o, NEW Y, o.delimiter \in Y,
         \A j \in 1..t.columns : Formatted(t.rows[i][j], o) \in Seq(Y)
  PROVE  /\ Fields(t.rows[i], o) \in Seq(Seq(Y)) /\ Len(Fields(t.rows[i], o)) = t.columns
         /\ \A j \in 1..t.columns : Fields(t.rows[i], o)[j] = Formatted(t.rows[i][j], o)
         /\ RowText(t.rows[i], o) \in Seq(Y)
<1> DEFINE row == t.rows[i]
           fs  == Fields(row, o)
           T   == Seq(Y)
<1>1. DOMAIN row = 1..t.columns /\ t.columns \in Nat
  BY RowsAre DEF IsCopyTable
<1>2. fs = [j \in 1..t.columns |-> Formatted(row[j], o)]
  BY <1>1 DEF Fields
<1>3. \A j \in 1..t.columns : Formatted(row[j], o) \in T
  OBVIOUS
<1> HIDE DEF T, fs, row
<1>4. fs \in Seq(T) /\ Len(fs) = t.columns /\ \A j \in 1..t.columns : fs[j] = Formatted(row[j], o)
  <2> DEFINE m == t.columns
             g == [j \in 1..m |-> Formatted(row[j], o)]
  <2>1. m \in Nat /\ \A j \in 1..m : Formatted(row[j], o) \in T
    BY <1>1, <1>3 DEF row
  <2> HIDE DEF m
  <2>2. g \in Seq(T) /\ Len(g) = m /\ \A j \in 1..m : g[j] = Formatted(row[j], o)
    BY <2>1
  <2> QED
    BY <1>2, <2>2 DEF m
<1>5. fs \in Seq(Seq(Y))
  BY <1>4 DEF T
<1>6. JoinWith(fs, o.delimiter) \in Seq(Y)
  BY <1>5, PiecesAre
<1> QED
  BY <1>4, <1>5, <1>6 DEF row, fs, RowText

LEMMA HeaderTextIs ==
  ASSUME NEW n \in Nat, NEW o, NEW Y, o.delimiter \in Y, "c" \in Y
  PROVE  HeaderText(n, o) \in Seq(Y)
<1> DEFINE hs == [i \in 1..n |-> <<"c">>]
<1>1. <<"c">> \in Seq(Y)
  OBVIOUS
<1>2. hs \in Seq(Seq(Y))
  BY <1>1
<1> HIDE DEF hs
<1>3. JoinWith(hs, o.delimiter) \in Seq(Y)
  BY <1>2, PiecesAre
<1> QED
  BY <1>3 DEF HeaderText, hs

LEMMA WrittenIs ==
  ASSUME NEW t, IsCopyTable(t), NEW o, o.format # "BINARY", NEW Y, o.delimiter \in Y, "\n" \in Y, "c" \in Y,
         \A i \in 1..Len(t.rows) : \A j \in 1..t.columns : Formatted(t.rows[i][j], o) \in Seq(Y)
  PROVE  Written(t, o) \in Seq(Y)
<1> DEFINE n    == Len(t.rows)
           ls   == [i \in DOMAIN t.rows |-> Line(t.rows[i], o)]
           head == IF o.format = "CSV" /\ o.header THEN HeaderLine(t.columns, o) ELSE <<>>
<1>1. n \in Nat /\ DOMAIN t.rows = 1..n /\ t.columns \in Nat
  BY RowsAre DEF IsCopyTable
<1>2. \A i \in 1..n : Line(t.rows[i], o) \in Seq(Y)
  <2> TAKE i \in 1..n
  <2>1. Line(t.rows[i], o) = RowText(t.rows[i], o) \o <<"\n">>
    BY Zenon DEF Line, RowText, Fields, Formatted
  <2>2. RowText(t.rows[i], o) \in Seq(Y)
    BY RowTextIs
  <2> QED
    BY <2>1, <2>2
<1>3. ls \in Seq(Seq(Y))
  BY <1>1, <1>2
<1>4. head \in Seq(Y)
  <2>1. HeaderLine(t.columns, o) = HeaderText(t.columns, o) \o <<"\n">>
    BY Zenon DEF HeaderLine, HeaderText
  <2>2. HeaderText(t.columns, o) \in Seq(Y)
    BY <1>1, HeaderTextIs
  <2>3. HeaderLine(t.columns, o) \in Seq(Y)
    BY <2>1, <2>2
  <2> QED
    BY <2>3
<1>5. Written(t, o) = head \o FlattenSeq(ls)
  BY DEF Written
<1> HIDE DEF ls, head
<1>6. FlattenSeq(ls) \in Seq(Y)
  BY <1>3, FlatIsSeq
<1> QED
  BY <1>4, <1>5, <1>6

-----------------------------------------------------------------------------
(* The text format *)

\* A field that is read from between delimiters as the value it was written for.
FieldComesBack(v, o) ==
  \/ v = NULL
  \/ /\ v \in Seq(STRING) /\ FormatText(v, o) \in Seq(Chars \ {o.delimiter})
     /\ FormatText(v, o) # o.null /\ UnescapeText(FormatText(v, o), o.escape) = v

TextOptions(o) == o.format = "TEXT" /\ Sensible(o)

LEMMA TextOptionsAre ==
  ASSUME NEW o, TextOptions(o)
  PROVE  /\ o.format = "TEXT" /\ o.format # "BINARY" /\ o.format # "CSV" /\ o.header \in BOOLEAN
         /\ o.delimiter \in Chars /\ o.delimiter \notin {"\n", "\r", "\\", "n", "t", "r"}
         /\ o.null \in Seq(STRING) /\ o.null # <<>> /\ o.null # NULL
         /\ o.null \in Seq(Chars \ {o.delimiter, "\n", "\r"})
         /\ o.escape = "\\" => o.null = <<"\\", "N">>
<1>1. /\ o.format = "TEXT" /\ o.header \in BOOLEAN /\ o.delimiter \in STRING /\ o.null \in Seq(STRING)
      /\ o.delimiter \notin {"\n", "\r", "\\", "n", "t", "r"}
      /\ o.null # <<>> /\ ToSet(o.null) \cap {o.delimiter, "\n", "\r"} = {}
      /\ o.escape = "\\" => o.null = Default.null
  BY DEF TextOptions, Sensible
<1>2. o.null \in Seq(Chars \ {o.delimiter, "\n", "\r"})
  <2> DEFINE s == o.null
  <2>0. s \in Seq(STRING) /\ ToSet(s) \cap {o.delimiter, "\n", "\r"} = {}
    BY <1>1
  <2> HIDE DEF s
  <2>1. s \in Seq(STRING) /\ \A i \in 1..Len(s) : s[i] \notin {o.delimiter, "\n", "\r"}
    <3>1. \A i \in 1..Len(s) : s[i] \in ToSet(s)
      BY <2>0 DEF ToSet
    <3> QED
      BY <2>0, <3>1
  <2>2. \A i \in 1..Len(s) : s[i] \in Chars \ {o.delimiter, "\n", "\r"}
    <3> DEFINE A == STRING
    <3> HIDE DEF A
    <3>1. \A i \in 1..Len(s) : s[i] \in A
      <4>1. s \in Seq(A)
        BY <2>1 DEF A
      <4> QED
        BY <4>1
    <3>2. A \subseteq Chars
      BY DEF Chars, A
    <3> QED
      BY <2>1, <3>1, <3>2
  <2>3. s = [i \in 1..Len(s) |-> s[i]] /\ Len(s) \in Nat
    BY <2>1
  <2>4. s \in Seq(Chars \ {o.delimiter, "\n", "\r"})
    BY <2>2, <2>3
  <2> QED
    BY <2>4 DEF s
<1>3. o.null # NULL
  BY <1>1, CopyCodecAssumption
<1> QED
  BY <1>1, <1>2, <1>3 DEF Default, Chars

\* Parts between delimiters are read as the values they stand for.
LEMMA TextReads ==
  ASSUME NEW o, TextOptions(o), NEW parts \in Parts(Chars \ {o.delimiter})
  PROVE  TextValues(JoinWith(parts, o.delimiter), o) =
           [j \in DOMAIN parts |-> IF parts[j] = o.null THEN NULL ELSE UnescapeText(parts[j], o.escape)]
<1>1. Split(JoinWith(parts, o.delimiter), o.delimiter) = parts
  BY TextOptionsAre, SplitJoined
<1> QED
  BY <1>1 DEF TextValues

LEMMA RowReadsBack ==
  ASSUME NEW o, TextOptions(o), NEW t, IsCopyTable(t), NEW i \in 1..Len(t.rows),
         \A j \in 1..t.columns : FieldComesBack(t.rows[i][j], o)
  PROVE  TextValues(RowText(t.rows[i], o), o) = t.rows[i]
<1> DEFINE row == t.rows[i]
           d   == o.delimiter
           Y   == Chars \ {d}
           n   == t.columns
           fs  == [j \in 1..n |-> FormatText(row[j], o)]
<1>1. /\ n \in Nat /\ n > 0 /\ DOMAIN row = 1..n /\ row \in [1..n -> Field]
  BY RowsAre DEF IsCopyTable
<1>2. ASSUME NEW j \in 1..n
      PROVE  /\ FormatText(row[j], o) \in Seq(Y)
             /\ (IF FormatText(row[j], o) = o.null THEN NULL ELSE UnescapeText(FormatText(row[j], o), o.escape)) = row[j]
  <2>1. CASE row[j] = NULL
    <3>1. FormatText(row[j], o) = o.null
      BY <2>1 DEF FormatText
    <3>2. o.null \in Seq(Y)
      <4>1. o.null \in Seq(Chars \ {d, "\n", "\r"})
        BY TextOptionsAre
      <4>2. Chars \ {d, "\n", "\r"} \subseteq Y
        OBVIOUS
      <4> HIDE DEF Y
      <4> QED
        BY <4>1, <4>2, Widened
    <3> QED
      BY <2>1, <3>1, <3>2
  <2>2. CASE row[j] # NULL
    BY <2>2 DEF FieldComesBack
  <2> QED
    BY <2>1, <2>2
<1>3. fs \in Parts(Y) /\ DOMAIN fs = 1..n /\ \A j \in 1..n : fs[j] = FormatText(row[j], o)
  <2> DEFINE T == Seq(Y)
  <2>1. \A j \in 1..n : FormatText(row[j], o) \in T
    BY <1>2
  <2> HIDE DEF T
  <2>2. fs \in Seq(T) /\ Len(fs) = n
    BY <1>1, <2>1
  <2>3. fs # <<>>
    BY <1>1, <2>2
  <2> QED
    BY <2>2, <2>3 DEF Parts, T
<1>4. RowText(row, o) = JoinWith(fs, d)
  BY <1>1, TextOptionsAre DEF RowText, Fields, Formatted
<1> HIDE DEF fs
<1>5. TextValues(JoinWith(fs, d), o) =
        [j \in DOMAIN fs |-> IF fs[j] = o.null THEN NULL ELSE UnescapeText(fs[j], o.escape)]
  BY <1>3, TextReads
<1>6. [j \in DOMAIN fs |-> IF fs[j] = o.null THEN NULL ELSE UnescapeText(fs[j], o.escape)] = [j \in 1..n |-> row[j]]
  BY <1>2, <1>3
<1>7. [j \in 1..n |-> row[j]] = row
  BY <1>1
<1> QED
  BY <1>4, <1>5, <1>6, <1>7

-----------------------------------------------------------------------------
(* Without escapes *)

\* The values of a table have not the character in them.
Without(t, c) ==
  \A i \in 1..Len(t.rows) : \A j \in 1..t.columns :
    t.rows[i][j] # NULL => t.rows[i][j] \in Seq(Chars \ {c})

RawValuesSafe(t, o) ==
  /\ Without(t, "\n") /\ Without(t, o.delimiter)
  /\ \A i \in 1..Len(t.rows) : \A j \in 1..t.columns : t.rows[i][j] # NULL => t.rows[i][j] # o.null

RawLinesSafe(t) ==
  \A i \in 1..Len(t.rows) :
    LET last == t.rows[i][t.columns]
    IN  /\ last # NULL /\ last # <<>> => Last(last) # "\r"
        /\ ~(t.columns = 1 /\ last = <<>>)

LEMMA ValueIs ==
  ASSUME NEW t, IsCopyTable(t), NEW i \in 1..Len(t.rows), NEW j \in 1..t.columns
  PROVE  t.rows[i][j] = NULL \/ (t.rows[i][j] \in Seq(STRING) /\ t.rows[i][j] \in Seq(Chars) /\ t.rows[i][j] # NULL)
<1>1. t.rows[i][j] \in Field
  BY RowsAre
<1>2. STRING \subseteq Chars
  BY DEF Chars
<1> QED
  BY <1>1, <1>2, Widened, CopyCodecAssumption DEF Field

LEMMA RawFields ==
  ASSUME NEW o, TextOptions(o), o.escape = Tab, NEW v
  PROVE  /\ v = NULL => FormatText(v, o) = o.null
         /\ v # NULL => FormatText(v, o) = v
         /\ UnescapeText(v, o.escape) = v
BY DEF FormatText, EscapeText, UnescapeText

\* What is read has no delimiter and no line feed in it, and is not like NULL.
LEMMA RawValuesMustBeSafe ==
  ASSUME NEW o, TextOptions(o), o.escape = Tab, NEW t, IsCopyTable(t), Back(t, o)
  PROVE  RawValuesSafe(t, o)
<1> DEFINE d == o.delimiter
           X == Chars \ {"\n"}
<1>1. Written(t, o) \in Seq(Chars)
  <2>1. ASSUME NEW i \in 1..Len(t.rows), NEW j \in 1..t.columns PROVE Formatted(t.rows[i][j], o) \in Seq(Chars)
    <3>1. FormatText(t.rows[i][j], o) \in Seq(Chars)
      <4>1. o.null \in Seq(STRING) /\ STRING \subseteq Chars
        BY TextOptionsAre DEF Chars
      <4>2. o.null \in Seq(Chars)
        BY <4>1, Widened
      <4> QED
        BY <4>2, ValueIs, RawFields
    <3> QED
      BY <3>1, TextOptionsAre DEF Formatted
  <2>2. d \in Chars /\ "\n" \in Chars /\ "c" \in Chars
    BY TextOptionsAre DEF Chars
  <2> QED
    BY <2>1, <2>2, TextOptionsAre, WrittenIs
<1>2. ASSUME NEW i \in 1..Len(t.rows), NEW j \in 1..t.columns, t.rows[i][j] # NULL
      PROVE  /\ t.rows[i][j] \in Seq(Chars \ {"\n"}) /\ t.rows[i][j] \in Seq(Chars \ {d})
             /\ t.rows[i][j] # o.null
  <2>1. PICK l \in Seq(X) : ReadValues(l, o) = t.rows[i]
    <3>1. o.format # "BINARY"
      BY TextOptionsAre
    <3>2. \A k \in 1..Len(t.rows) : \E l \in Seq(Chars \ {"\n"}) : ReadValues(l, o) = t.rows[k]
      BY <1>1, <3>1, FromLines
    <3> QED
      BY <3>2
  <2> DEFINE parts == Split(l, d)
  <2>2. parts \in Parts(X \ {d})
    BY SplitClean
  <2>3. t.rows[i] = [k \in DOMAIN parts |-> IF parts[k] = o.null THEN NULL ELSE UnescapeText(parts[k], o.escape)]
    BY <2>1, TextOptionsAre DEF ReadValues, TextValues
  <2>4. DOMAIN t.rows[i] = 1..t.columns
    BY RowsAre
  <2> HIDE DEF parts
  <2>5. j \in DOMAIN parts
    BY <2>3, <2>4
  <2>6. t.rows[i][j] = IF parts[j] = o.null THEN NULL ELSE UnescapeText(parts[j], o.escape)
    BY <2>3, <2>5
  <2>7. parts[j] # o.null /\ t.rows[i][j] = parts[j]
    BY <1>2, <2>6, RawFields
  <2> DEFINE T == Seq(X \ {d})
  <2>8. parts \in Seq(T)
    BY <2>2 DEF Parts
  <2> HIDE DEF T
  <2>9. parts[j] \in T
    BY <2>5, <2>8
  <2>10. X \ {d} \subseteq Chars \ {"\n"} /\ X \ {d} \subseteq Chars \ {d}
    OBVIOUS
  <2>11. parts[j] \in Seq(Chars \ {"\n"}) /\ parts[j] \in Seq(Chars \ {d})
    BY <2>9, <2>10, Widened DEF T
  <2> QED
    BY <2>7, <2>11
<1> QED
  BY <1>2 DEF RawValuesSafe, Without

\* The text of a row whose values are safe, up to its last value and with it.
LEMMA RawRowText ==
  ASSUME NEW o, TextOptions(o), o.escape = Tab, NEW t, IsCopyTable(t), RawValuesSafe(t, o), NEW i \in 1..Len(t.rows)
  PROVE  \E ps, cur :
           /\ ps \in Seq(Seq(Chars \ {o.delimiter})) /\ cur \in Seq(Chars \ {o.delimiter})
           /\ Len(ps) = t.columns - 1
           /\ cur = FormatText(t.rows[i][t.columns], o)
           /\ Fields(t.rows[i], o) = Append(ps, cur)
           /\ RowText(t.rows[i], o) = Ahead(ps, o.delimiter) \o cur
           /\ RowText(t.rows[i], o) \in Seq(Chars \ {"\n"})
           /\ TextValues(RowText(t.rows[i], o), o) = t.rows[i]
<1> DEFINE d   == o.delimiter
           Y   == Chars \ {d}
           n   == t.columns
           row == t.rows[i]
           fs  == Fields(row, o)
           T   == Seq(Y)
<1>1. n \in Nat /\ n > 0 /\ d \in Chars /\ d # "\n" /\ o.null \in Seq(Chars \ {d, "\n", "\r"}) /\ o.format # "CSV"
  <2>1. n \in Nat /\ n > 0
    BY DEF IsCopyTable
  <2> QED
    BY <2>1, TextOptionsAre
<1>2. ASSUME NEW j \in 1..n
      PROVE  /\ FormatText(row[j], o) \in Seq(Y) /\ FormatText(row[j], o) \in Seq(Chars \ {"\n"})
             /\ FieldComesBack(row[j], o)
  <2>1. CASE row[j] = NULL
    <3>1. Chars \ {d, "\n", "\r"} \subseteq Y /\ Chars \ {d, "\n", "\r"} \subseteq Chars \ {"\n"}
      OBVIOUS
    <3> HIDE DEF Y, d
    <3>2. o.null \in Seq(Y) /\ o.null \in Seq(Chars \ {"\n"})
      BY <1>1, <3>1, Widened
    <3> QED
      BY <2>1, <3>2, RawFields DEF FieldComesBack
  <2>2. CASE row[j] # NULL
    <3>1. row[j] \in Seq(STRING) /\ FormatText(row[j], o) = row[j]
      BY <2>2, ValueIs, RawFields
    <3>2. row[j] \in Seq(Chars \ {"\n"}) /\ row[j] \in Seq(Y) /\ row[j] # o.null
      BY <2>2 DEF RawValuesSafe, Without
    <3>3. UnescapeText(row[j], o.escape) = row[j]
      BY RawFields
    <3> QED
      BY <3>1, <3>2, <3>3 DEF FieldComesBack
  <2> QED
    BY <2>1, <2>2
<1>3. \A j \in 1..n : Formatted(row[j], o) = FormatText(row[j], o)
  BY <1>1 DEF Formatted
<1>4. TextValues(RowText(row, o), o) = row
  BY <1>2, RowReadsBack
<1>5. RowText(row, o) \in Seq(Chars \ {"\n"})
  <2>1. \A j \in 1..n : Formatted(row[j], o) \in Seq(Chars \ {"\n"})
    BY <1>2, <1>3
  <2>2. o.delimiter \in Chars \ {"\n"}
    BY <1>1
  <2> QED
    BY <2>1, <2>2, RowTextIs
<1>6. fs \in Seq(T) /\ Len(fs) = n /\ fs[n] = FormatText(row[n], o)
  <2>1. DOMAIN row = 1..n
    BY RowsAre
  <2>2. fs = [j \in 1..n |-> FormatText(row[j], o)]
    BY <1>3, <2>1 DEF Fields
  <2>3. \A j \in 1..n : FormatText(row[j], o) \in T
    BY <1>2
  <2> HIDE DEF T, fs, row
  <2> DEFINE m == t.columns
             g == [j \in 1..m |-> FormatText(row[j], o)]
  <2>4. m \in Nat /\ m > 0 /\ \A j \in 1..m : FormatText(row[j], o) \in T
    BY <1>1, <2>3 DEF row
  <2> HIDE DEF m
  <2>5. g \in Seq(T) /\ Len(g) = m /\ g[m] = FormatText(row[m], o)
    BY <2>4
  <2> QED
    BY <2>2, <2>5 DEF m
<1> DEFINE ps  == Front(fs)
           cur == Last(fs)
<1>7. ps \in Seq(T) /\ cur \in T /\ Len(ps) = n - 1 /\ fs = Append(ps, cur) /\ cur = FormatText(row[n], o)
  <2> HIDE DEF T, fs
  <2>1. fs # <<>>
    BY <1>1, <1>6
  <2>2. Last(fs) = fs[n]
    BY <1>6 DEF Last
  <2> QED
    BY <1>6, <2>1, <2>2, FrontAndLast
<1> HIDE DEF ps, cur
<1>8. RowText(row, o) = Ahead(ps, d) \o cur
  <2>1. ps \in Seq(Seq(Chars)) /\ cur \in Seq(Chars)
    <3>1. ps \in Seq(Seq(Y)) /\ cur \in Seq(Y)
      BY <1>7
    <3> QED
      BY <3>1
  <2>2. JoinWith(Append(ps, cur), d) = Ahead(ps, d) \o cur
    BY <1>1, <2>1, JoinEnd
  <2> QED
    BY <1>7, <2>2 DEF RowText
<1> QED
  BY <1>4, <1>5, <1>7, <1>8

LEMMA RawRowIff ==
  ASSUME NEW o, TextOptions(o), o.escape = Tab, NEW t, IsCopyTable(t), RawValuesSafe(t, o), NEW i \in 1..Len(t.rows),
         NEW last, last = t.rows[i][t.columns], NEW l, l = RowText(t.rows[i], o)
  PROVE  (Chomped(l) # <<>> /\ TextValues(Chomped(l), o) = t.rows[i])
         <=> /\ last # NULL /\ last # <<>> => Last(last) # "\r"
             /\ ~(t.columns = 1 /\ last = <<>>)
<1> DEFINE d == o.delimiter
           Y == Chars \ {d}
           n == t.columns
<1>1. PICK ps, cur :
        /\ ps \in Seq(Seq(Y)) /\ cur \in Seq(Y) /\ Len(ps) = n - 1
        /\ cur = FormatText(last, o)
        /\ l = Ahead(ps, d) \o cur
        /\ l \in Seq(Chars \ {"\n"})
        /\ TextValues(l, o) = t.rows[i]
  <2>1. \E ps, cur :
           /\ ps \in Seq(Seq(Chars \ {o.delimiter})) /\ cur \in Seq(Chars \ {o.delimiter})
           /\ Len(ps) = t.columns - 1
           /\ cur = FormatText(t.rows[i][t.columns], o)
           /\ Fields(t.rows[i], o) = Append(ps, cur)
           /\ RowText(t.rows[i], o) = Ahead(ps, o.delimiter) \o cur
           /\ RowText(t.rows[i], o) \in Seq(Chars \ {"\n"})
           /\ TextValues(RowText(t.rows[i], o), o) = t.rows[i]
    BY RawRowText
  <2> QED
    BY <2>1, Zenon
<1>2. /\ n \in Nat /\ n > 0 /\ d \in Chars /\ d # "\r" /\ o.null # <<>>
      /\ o.null \in Seq(Chars \ {d, "\n", "\r"})
  <2>1. n \in Nat /\ n > 0
    BY DEF IsCopyTable
  <2> QED
    BY <2>1, TextOptionsAre
<1>3. (last = NULL => cur = o.null) /\ (last # NULL => cur = last)
  BY <1>1, RawFields
<1>4. /\ cur \in Seq(Chars) /\ ps \in Seq(Seq(Chars)) /\ (ps = <<>> <=> n = 1)
      /\ Ahead(ps, d) \in Seq(Chars)
      /\ ps # <<>> => Ahead(ps, d) # <<>> /\ Last(Ahead(ps, d)) = d
      /\ ps = <<>> => Ahead(ps, d) = <<>>
  <2>a. /\ cur \in Seq(Chars \ {d}) /\ ps \in Seq(Seq(Chars \ {d}))
        /\ Len(ps) = n - 1
    BY <1>1, Zenon
  <2>b. n \in Nat
    BY <1>2, Zenon
  <2> HIDE DEF d, n
  <2>1. cur \in Seq(Chars)
    BY ONLY <2>a
  <2>2. ps \in Seq(Seq(Chars))
    BY ONLY <2>a
  <2>3. ps = <<>> <=> n = 1
    BY ONLY <2>2, <2>a, <2>b
  <2> QED
    BY <1>2, <2>1, <2>2, <2>3, JoinEnd DEF Ahead
<1> DEFINE pre == Ahead(ps, d)
<1>5. /\ cur # <<>> => l # <<>> /\ Last(l) = Last(cur) /\ Front(l) = pre \o Front(cur)
      /\ cur = <<>> => l = pre
  <2>1. pre \in Seq(Chars) /\ cur \in Seq(Chars) /\ l = pre \o cur
    BY <1>1, <1>4
  <2> HIDE DEF pre
  <2>2. /\ cur # <<>> => /\ pre \o cur # <<>> /\ Last(pre \o cur) = Last(cur)
                          /\ Front(pre \o cur) = pre \o Front(cur)
        /\ cur = <<>> => pre \o cur = pre
    BY ONLY <2>1, LastJoined
  <2> QED
    BY <2>1, <2>2
<1> HIDE DEF pre, Y, d
<1>6. last = NULL => cur # <<>> /\ Last(cur) # "\r"
  <2>1. \A s \in Seq(Chars \ {d, "\n", "\r"}) : s # <<>> => Last(s) # "\r"
    <3> TAKE s \in Seq(Chars \ {d, "\n", "\r"})
    <3> HAVE s # <<>>
    <3>1. Last(s) \in Chars \ {d, "\n", "\r"}
      BY FrontAndLast
    <3> QED
      BY <3>1
  <2> QED
    BY <1>2, <1>3, <2>1
<1>7. CASE l # <<>> /\ Last(l) = "\r"
  <2>1. cur # <<>> /\ Last(cur) = "\r"
    BY <1>2, <1>4, <1>5, <1>7 DEF pre
  <2>2. last # NULL /\ cur = last
    BY <1>3, <1>6, <2>1
  <2>3. Front(cur) \in Seq(Y) /\ cur = Append(Front(cur), Last(cur)) /\ Len(Front(cur)) # Len(cur)
    <3>1. cur \in Seq(Y) /\ cur # <<>>
      BY <1>1, <2>1
    <3>2. Front(cur) \in Seq(Y) /\ cur = Append(Front(cur), Last(cur)) /\ Len(cur) \in Nat /\ Len(Front(cur)) = Len(cur) - 1
      BY <3>1, FrontAndLast
    <3> QED
      BY <3>2
  <2>4. Chomped(l) = pre \o Front(cur)
    BY <1>5, <1>7, <2>1 DEF Chomped
  <2> DEFINE short == Front(cur)
             parts == Append(ps, short)
  <2>5. parts \in Parts(Y) /\ Len(parts) = n /\ parts[n] = short
    <3> HIDE DEF short
    <3>1. ps \in Seq(Seq(Y)) /\ short \in Seq(Y)
      BY <1>1, <2>3, ZenonT(60) DEF short
    <3>2. parts \in Parts(Y)
      BY <3>1, PartsAppend
    <3> DEFINE T == Seq(Y)
    <3>3. ps \in Seq(T) /\ short \in T
      BY <3>1
    <3> HIDE DEF T
    <3>4. Len(parts) = Len(ps) + 1 /\ parts[Len(ps) + 1] = short
      BY <3>3
    <3>5. Len(ps) = n - 1 /\ n \in Nat
      BY <1>1, <1>2, Zenon
    <3> HIDE DEF n, parts
    <3> QED
      BY ONLY <3>2, <3>4, <3>5
  <2>6. JoinWith(parts, d) = pre \o short
    <3> HIDE DEF short
    <3>1. short \in Seq(Chars)
      BY <2>3 DEF short, Y
    <3> QED
      BY <1>2, <1>4, <3>1, JoinEnd DEF pre
  <2> HIDE DEF parts
  <2>7. TextValues(JoinWith(parts, d), o) =
          [j \in DOMAIN parts |-> IF parts[j] = o.null THEN NULL ELSE UnescapeText(parts[j], o.escape)]
    BY <2>5, TextReads DEF Y, d
  <2>8. TextValues(Chomped(l), o) # t.rows[i]
    <3>1. n \in DOMAIN parts
      <4>1. parts \in Seq(Seq(Y))
        BY <2>5 DEF Parts
      <4> QED
        BY <1>2, <2>5, <4>1
    <3>2. TextValues(Chomped(l), o)[n] = IF short = o.null THEN NULL ELSE UnescapeText(short, o.escape)
      <4> HIDE DEF short
      <4> QED
        BY <2>4, <2>5, <2>6, <2>7, <3>1 DEF short
    <3>3. UnescapeText(short, o.escape) = short
      BY RawFields
    <3>4. short # last
      BY <2>2, <2>3
    <3> HIDE DEF short
    <3> QED
      BY <2>2, <3>2, <3>3, <3>4
  <2>9. last # <<>> /\ Last(last) = "\r"
    BY <2>1, <2>2
  <2> QED
    BY <2>2, <2>8, <2>9
<1>8. CASE ~(l # <<>> /\ Last(l) = "\r")
  <2>1. Chomped(l) = l
    BY <1>8 DEF Chomped
  <2>2. l = <<>> <=> (n = 1 /\ last = <<>>)
    <3>1. l = <<>> <=> cur = <<>> /\ ps = <<>>
      BY <1>4, <1>5 DEF pre
    <3>2. cur = <<>> <=> last = <<>>
      <4>1. last = <<>> => last # NULL
        <5>1. <<>> \in Seq(STRING)
          OBVIOUS
        <5> QED
          BY <5>1, CopyCodecAssumption
      <4> QED
        BY <1>3, <1>6, <4>1
    <3> QED
      BY <1>4, <3>1, <3>2
  <2>3. last # NULL /\ last # <<>> => Last(last) # "\r"
    BY <1>3, <1>5, <1>8
  <2> QED
    BY <1>1, <2>1, <2>2, <2>3
<1> QED
  BY <1>7, <1>8

\* A table in text without escapes comes back exactly if its values are safe, and
\* the ends of its lines.
LEMMA RawTextIff ==
  ASSUME NEW o, TextOptions(o), o.escape = Tab, NEW t, IsCopyTable(t)
  PROVE  Back(t, o) <=> RawValuesSafe(t, o) /\ RawLinesSafe(t)
<1>1. Back(t, o) => RawValuesSafe(t, o)
  BY RawValuesMustBeSafe
<1>2. ASSUME RawValuesSafe(t, o) PROVE Back(t, o) <=> RawLinesSafe(t)
  <2>1. Tidy(Chars, t, o)
    <3>1. \A i \in 1..Len(t.rows) : RowText(t.rows[i], o) \in Seq(Chars \ {"\n"})
      <4> TAKE i \in 1..Len(t.rows)
      <4> QED
        BY <1>2, RawRowText
    <3>2. t.columns \in Nat /\ o.delimiter \in Chars \ {"\n"} /\ "c" \in Chars \ {"\n"} /\ "\n" \in Chars
      BY TextOptionsAre DEF IsCopyTable, Chars
    <3>3. HeaderText(t.columns, o) \in Seq(Chars \ {"\n"})
      BY <3>2, HeaderTextIs
    <3> QED
      BY <3>1, <3>2, <3>3 DEF Tidy
  <2>2. Back(t, o) <=> \A i \in 1..Len(t.rows) :
                         /\ Chomped(RowText(t.rows[i], o)) # <<>>
                         /\ ReadValues(Chomped(RowText(t.rows[i], o)), o) = t.rows[i]
    BY <2>1, TextOptionsAre, TidyIff
  <2>3. ASSUME NEW i \in 1..Len(t.rows)
        PROVE  (/\ Chomped(RowText(t.rows[i], o)) # <<>>
                /\ ReadValues(Chomped(RowText(t.rows[i], o)), o) = t.rows[i])
               <=> LET last == t.rows[i][t.columns]
                   IN  /\ last # NULL /\ last # <<>> => Last(last) # "\r"
                       /\ ~(t.columns = 1 /\ last = <<>>)
    <3>1. ReadValues(Chomped(RowText(t.rows[i], o)), o) = TextValues(Chomped(RowText(t.rows[i], o)), o)
      BY TextOptionsAre DEF ReadValues
    <3> DEFINE last == t.rows[i][t.columns]
               l    == RowText(t.rows[i], o)
    <3>2. (Chomped(l) # <<>> /\ TextValues(Chomped(l), o) = t.rows[i])
          <=> /\ last # NULL /\ last # <<>> => Last(last) # "\r"
              /\ ~(t.columns = 1 /\ last = <<>>)
      BY <1>2, RawRowIff
    <3> QED
      BY <3>1, <3>2, Zenon
  <2> QED
    BY <2>2, <2>3, Zenon DEF RawLinesSafe
<1> QED
  BY <1>1, <1>2

-----------------------------------------------------------------------------
(* Escapes *)

Escapes == {"\n", Tab, "\r", "\\"}

UnescapeState(Y) == [out : Seq(Y), pending : BOOLEAN]

Reading(out) == [out |-> out, pending |-> FALSE]

Unescaping(Y) == [p \in UnescapeState(Y) \X Y |-> UnescapeStep(p[1], p[2])]

LEMMA UnescapeSteps ==
  ASSUME NEW Y, Escapes \subseteq Y
  PROVE  Unescaping(Y) \in Steps(UnescapeState(Y), Y)
<1>1. ASSUME NEW s \in UnescapeState(Y), NEW x \in Y PROVE UnescapeStep(s, x) \in UnescapeState(Y)
  <2>1. Unescaped(x) \in Seq(Y)
    <3>1. {"\n", Tab, "\r", "\\"} \subseteq Y
      BY DEF Escapes
    <3>2. <<"\n">> \in Seq(Y) /\ <<Tab>> \in Seq(Y) /\ <<"\r">> \in Seq(Y) /\ <<"\\">> \in Seq(Y) /\ <<"\\", x>> \in Seq(Y)
      BY <3>1
    <3> QED
      BY <3>2 DEF Unescaped
  <2>2. s.out \in Seq(Y)
    BY DEF UnescapeState
  <2>3. s.out \o Unescaped(x) \in Seq(Y) /\ Append(s.out, x) \in Seq(Y)
    BY <2>1, <2>2
  <2> QED
    BY <2>2, <2>3 DEF UnescapeStep, UnescapeState
<1> QED
  BY <1>1 DEF Unescaping, Steps

LEMMA UnescapeStepIs ==
  ASSUME NEW Y, Escapes \subseteq Y, NEW u \in Seq(Y), NEW x \in Y
  PROVE  /\ Reading(u) \in UnescapeState(Y) /\ [out |-> u, pending |-> TRUE] \in UnescapeState(Y)
         /\ x # "\\" => Unescaping(Y)[<<Reading(u), x>>] = Reading(Append(u, x))
         /\ x = "\\" => Unescaping(Y)[<<Reading(u), x>>] = [out |-> u, pending |-> TRUE]
         /\ Unescaping(Y)[<<[out |-> u, pending |-> TRUE], x>>] = Reading(u \o Unescaped(x))
BY DEF Reading, UnescapeState, Unescaping, UnescapeStep

LEMMA TwoJoined ==
  ASSUME NEW X, NEW a \in X, NEW b \in X
  PROVE  <<a>> \o <<b>> = <<a, b>>
<1> DEFINE r == <<a>> \o <<b>>
           t == <<a, b>>
<1>1. <<a>> \in Seq(X) /\ <<b>> \in Seq(X) /\ t \in Seq(X)
  OBVIOUS
<1>2. r \in Seq(X) /\ Len(r) = 2 /\ r[1] = a /\ r[2] = b
  BY <1>1
<1>3. Len(t) = 2 /\ t[1] = a /\ t[2] = b
  OBVIOUS
<1> HIDE DEF r, t
<1>4. r = t
  BY <1>1, <1>2, <1>3
<1> QED
  BY <1>4 DEF r, t

LEMMA ScanTwo ==
  ASSUME NEW S, NEW X, NEW step \in Steps(S, X), NEW q \in S, NEW a \in X, NEW b \in X
  PROVE  Scan(step, q, <<a, b>>) = step[<<step[<<q, a>>], b>>]
<1> DEFINE s == <<a>>
           u == <<b>>
<1>1. Scans(S, X, step, q, s) /\ u \in Seq(X)
  BY DEF Scans
<1>0. s \o u = <<a, b>>
  BY TwoJoined
<1> HIDE DEF s, u
<1>2. Scan(step, q, s \o u) = Scan(step, Scan(step, q, s), u)
  BY ONLY <1>1, ScanBoth
<1>3. Scan(step, q, s) \in S
  BY <1>1, ScanStays
<1>4. Scan(step, q, <<a>>) = step[<<q, a>>]
  BY ScanOne
<1> DEFINE r == Scan(step, q, s)
<1> HIDE DEF r
<1>5. Scan(step, r, <<b>>) = step[<<r, b>>]
  BY <1>3, ScanOne DEF r
<1> QED
  BY <1>0, <1>2, <1>4, <1>5, Zenon DEF r, s, u

\* Other characters are read as they are.
LEMMA UnescapePlain ==
  ASSUME NEW Y, Escapes \subseteq Y, NEW w \in Seq(Y), \A i \in 1..Len(w) : w[i] # "\\"
  PROVE  Scan(Unescaping(Y), Reading(<<>>), w) = Reading(w)
<1> DEFINE n    == Len(w)
           f    == [i \in 0..n |-> Reading(SubSeq(w, 1, i))]
           step == Unescaping(Y)
<1>1. n \in Nat /\ SubSeq(w, 1, n) = w /\ SubSeq(w, 1, 0) = <<>>
  BY WholePrefix
<1>2. ASSUME NEW i \in 1..n PROVE f[i] = step[<<f[i - 1], w[i]>>]
  <2> DEFINE u == SubSeq(w, 1, i - 1)
  <2>1. SubSeq(w, 1, i) = Append(u, w[i]) /\ u \in Seq(Y) /\ w[i] \in Y /\ w[i] # "\\"
    BY PrefixIs
  <2>2. f[i] = Reading(SubSeq(w, 1, i)) /\ f[i - 1] = Reading(u)
    BY <1>1
  <2> HIDE DEF u, f
  <2>3. Unescaping(Y)[<<Reading(u), w[i]>>] = Reading(Append(u, w[i]))
    BY <2>1, UnescapeStepIs
  <2> QED
    BY <2>1, <2>2, <2>3
<1>3. f[0] = Reading(<<>>) /\ f[n] = Reading(w)
  <2>1. f[0] = Reading(SubSeq(w, 1, 0)) /\ f[n] = Reading(SubSeq(w, 1, n))
    BY <1>1
  <2> HIDE DEF f
  <2> QED
    BY <1>1, <2>1, Zenon
<1>4. Reading(<<>>) \in UnescapeState(Y)
  <2>1. <<>> \in Seq(Y)
    OBVIOUS
  <2> QED
    BY <2>1 DEF Reading, UnescapeState
<1> HIDE DEF f
<1>5. Follows(f, step, Reading(<<>>), w)
  BY <1>2, <1>3 DEF Follows
<1>6. Scans(UnescapeState(Y), Y, step, Reading(<<>>), w)
  BY <1>4, UnescapeSteps DEF Scans
<1>7. f[Len(w)] = Scan(step, Reading(<<>>), w)
  BY <1>5, <1>6, ScanIs
<1> QED
  BY <1>3, <1>7

\* What is read when all characters were.
Unpended(s) == IF s.pending THEN Append(s.out, "\\") ELSE s.out

LEMMA UnescapeIs ==
  ASSUME NEW Y, Escapes \subseteq Y, NEW w \in Seq(Y)
  PROVE  UnescapeText(w, "\\") = Unpended(Scan(Unescaping(Y), Reading(<<>>), w))
<1>1. CASE ~Contains(w, "\\")
  <2>1. UnescapeText(w, "\\") = w
    BY <1>1 DEF UnescapeText
  <2>2. \A i \in 1..Len(w) : w[i] # "\\"
    BY <1>1 DEF Contains
  <2>3. Scan(Unescaping(Y), Reading(<<>>), w) = Reading(w)
    BY <2>2, UnescapePlain
  <2>4. Unpended(Reading(w)) = w
    BY DEF Unpended, Reading
  <2> QED
    BY <2>1, <2>3, <2>4
<1>2. CASE Contains(w, "\\")
  <2> DEFINE n    == Len(w)
             base == [out |-> <<>>, pending |-> FALSE]
             step == Unescaping(Y)
             S    == UnescapeState(Y)
             IsF(h) == h = [i \in 0..n |-> IF i = 0 THEN base ELSE UnescapeStep(h[i - 1], w[i])]
             after  == CHOOSE h : IsF(h)
  <2>1. Scans(S, Y, step, base, w) /\ n \in Nat
    <3>1. base \in S
      BY DEF UnescapeState
    <3> QED
      BY <3>1, UnescapeSteps DEF Scans
  <2>2. "\\" # Tab
    BY DEF Tab
  <2>3. UnescapeText(w, "\\") = Unpended(after[n])
    BY <1>2, <2>2, Zenon DEF UnescapeText, Unpended
  <2> HIDE DEF base, S
  <2>4. PICK f : IsScan(f, S, step, base, w)
    BY <2>1, ScanRun, Zenon
  <2>5. f \in [0..n -> S] /\ f[0] = base /\ \A i \in 1..n : f[i] = UnescapeStep(f[i - 1], w[i])
    <3>1. f \in [0..n -> S] /\ f[0] = base /\ \A i \in 1..n : f[i] = step[<<f[i - 1], w[i]>>]
      BY <2>4 DEF IsScan, Follows
    <3>2. \A i \in 1..n : i - 1 \in 0..n
      OBVIOUS
    <3>3. \A i \in 1..n : f[i - 1] \in S /\ w[i] \in Y
      BY <3>1, <3>2
    <3>4. \A i \in 1..n : step[<<f[i - 1], w[i]>>] = UnescapeStep(f[i - 1], w[i])
      BY <3>3 DEF Unescaping, S
    <3> QED
      BY <3>1, <3>4
  <2>6. IsF(f)
    BY <2>1, <2>5
  <2> HIDE DEF IsF
  <2>7. IsF(after)
    BY <2>6, Zenon
  <2> HIDE DEF after, n
  <2>8. after[0] = f[0] /\ \A k \in 1..n : after[k] = UnescapeStep(after[k - 1], w[k])
    <3>1. \A i \in 0..n : after[i] = IF i = 0 THEN base ELSE UnescapeStep(after[i - 1], w[i])
      BY <2>7, Zenon DEF IsF
    <3>2. 0 \in 0..n /\ \A i \in 1..n : i \in 0..n /\ i # 0
      BY <2>1
    <3> QED
      BY <2>5, <3>1, <3>2, Zenon
  <2>9. \A k \in 1..n : after[k - 1] = f[k - 1] => after[k] = f[k]
    BY <2>5, <2>8
  <2>10. after[n] = f[n]
    BY <2>1, <2>8, <2>9, SameEnd
  <2> QED
    BY <2>3, <2>4, <2>10 DEF IsScan, n, base, Reading
<1> QED
  BY <1>1, <1>2

LEMMA UnescapedIs ==
  ASSUME NEW Y, Escapes \subseteq Y, NEW w \in Seq(Y)
  PROVE  UnescapeText(w, "\\") \in Seq(Y)
<1> DEFINE end == Scan(Unescaping(Y), Reading(<<>>), w)
<1>1. Reading(<<>>) \in UnescapeState(Y)
  <2>1. <<>> \in Seq(Y)
    OBVIOUS
  <2> QED
    BY <2>1 DEF Reading, UnescapeState
<1>2. Scans(UnescapeState(Y), Y, Unescaping(Y), Reading(<<>>), w)
  BY <1>1, UnescapeSteps DEF Scans
<1>3. end \in UnescapeState(Y)
  BY <1>2, ScanStays
<1>4. UnescapeText(w, "\\") = Unpended(end)
  BY UnescapeIs
<1> HIDE DEF end
<1>5. end.out \in Seq(Y) /\ "\\" \in Y
  BY <1>3 DEF UnescapeState, Escapes
<1>6. Append(end.out, "\\") \in Seq(Y)
  BY <1>5
<1> QED
  BY <1>4, <1>5, <1>6 DEF Unpended

LEMMA EscapeIs ==
  ASSUME NEW Z, NEW v \in Seq(Z)
  PROVE  /\ EscapeText(v, "\\") = FlattenSeq([i \in 1..Len(v) |-> Escaped(v[i], "\\")])
         /\ Len(v) \in Nat
<1>1. "\\" # Tab
  BY DEF Tab
<1>2. DOMAIN v = 1..Len(v) /\ Len(v) \in Nat
  OBVIOUS
<1> QED
  BY <1>1, <1>2 DEF EscapeText

\* The characters of escaped text.
LEMMA EscapedIs ==
  ASSUME NEW Y, {"\\", "n", "t", "r"} \subseteq Y, NEW v \in Seq(Y \cup {"\n", Tab, "\r"})
  PROVE  EscapeText(v, "\\") \in Seq(Y)
<1> DEFINE n  == Len(v)
           ss == [i \in 1..n |-> Escaped(v[i], "\\")]
           T  == Seq(Y)
<1>1. n \in Nat /\ EscapeText(v, "\\") = FlattenSeq(ss)
  BY EscapeIs
<1>2. ASSUME NEW x \in Y \cup {"\n", Tab, "\r"} PROVE Escaped(x, "\\") \in T
  <2>1. <<"\\", "n">> \in T /\ <<"\\", "t">> \in T /\ <<"\\", "r">> \in T /\ <<"\\", "\\">> \in T
    OBVIOUS
  <2>2. x \notin {"\n", Tab, "\r"} => <<x>> \in T
    OBVIOUS
  <2> HIDE DEF T
  <2> QED
    BY <2>1, <2>2 DEF Escaped
<1>3. \A i \in 1..n : v[i] \in Y \cup {"\n", Tab, "\r"}
  OBVIOUS
<1> HIDE DEF T
<1>4. ss \in Seq(T)
  BY <1>1, <1>2, <1>3
<1> HIDE DEF ss
<1>5. FlattenSeq(ss) \in Seq(Y)
  BY <1>4, FlatIsSeq DEF T
<1> QED
  BY <1>1, <1>5

LEMMA EscapesAreChars == Escapes \subseteq Chars
BY DEF Escapes, Chars

\* The escape of a character is read as the character.
LEMMA EscapedPiece ==
  ASSUME NEW u \in Seq(Chars), NEW x \in Chars
  PROVE  /\ Scan(Unescaping(Chars), Reading(u), Escaped(x, "\\")) = Reading(Append(u, x))
         /\ Escaped(x, "\\") \in Seq(Chars)
<1> DEFINE step == Unescaping(Chars)
           S    == UnescapeState(Chars)
           q    == Reading(u)
           mid  == [out |-> u, pending |-> TRUE]
<1>1. /\ step \in Steps(S, Chars) /\ q \in S /\ mid \in S
      /\ step[<<q, "\\">>] = mid
      /\ x # "\\" => step[<<q, x>>] = Reading(Append(u, x))
      /\ \A y \in Chars : step[<<mid, y>>] = Reading(u \o Unescaped(y))
  <2>1. "\\" \in Chars
    BY DEF Chars
  <2> QED
    BY <2>1, EscapesAreChars, UnescapeSteps, UnescapeStepIs
<1>2. {"\\", "n", "t", "r"} \subseteq Chars
  BY DEF Chars
<1>3. ASSUME NEW y \in Chars, Unescaped(y) = <<x>>, Escaped(x, "\\") = <<"\\", y>>
      PROVE  /\ Scan(step, q, Escaped(x, "\\")) = Reading(Append(u, x))
             /\ Escaped(x, "\\") \in Seq(Chars)
  <2> DEFINE e == "\\"
  <2>1. e \in Chars
    BY <1>2
  <2> HIDE DEF step, S, q, mid, e
  <2>2. Scan(step, q, <<e, y>>) = step[<<step[<<q, e>>], y>>]
    BY ONLY <1>1, <2>1, y \in Chars, ScanTwo
  <2>3. step[<<step[<<q, e>>], y>>] = Reading(u \o <<x>>)
    BY <1>1, <1>3 DEF e
  <2>4. u \o <<x>> = Append(u, x) /\ <<e, y>> \in Seq(Chars)
    BY <2>1
  <2> QED
    BY <1>3, <2>2, <2>3, <2>4, Zenon DEF e
<1>4. CASE x = "\n"
  <2>1. Unescaped("n") = <<x>> /\ Escaped(x, "\\") = <<"\\", "n">>
    BY <1>4 DEF Unescaped, Escaped, Tab
  <2> QED
    BY <1>2, <1>3, <2>1
<1>5. CASE x = Tab
  <2>1. Unescaped("t") = <<x>> /\ Escaped(x, "\\") = <<"\\", "t">>
    BY <1>5 DEF Unescaped, Escaped, Tab
  <2> QED
    BY <1>2, <1>3, <2>1
<1>6. CASE x = "\r"
  <2>1. Unescaped("r") = <<x>> /\ Escaped(x, "\\") = <<"\\", "r">>
    BY <1>6 DEF Unescaped, Escaped, Tab
  <2> QED
    BY <1>2, <1>3, <2>1
<1>7. CASE x = "\\"
  <2>1. Unescaped("\\") = <<x>> /\ Escaped(x, "\\") = <<"\\", "\\">>
    BY <1>7 DEF Unescaped, Escaped, Tab
  <2> QED
    BY <1>2, <1>3, <2>1
<1>8. CASE x \notin Escapes
  <2>1. Escaped(x, "\\") = <<x>> /\ x # "\\"
    BY <1>8 DEF Escapes, Escaped
  <2>2. Scan(step, q, <<x>>) = step[<<q, x>>]
    <3> HIDE DEF step, S, q
    <3> QED
      BY ONLY <1>1, x \in Chars, ScanOne
  <2>3. <<x>> \in Seq(Chars)
    OBVIOUS
  <2> QED
    BY <1>1, <2>1, <2>2, <2>3
<1> QED
  BY <1>4, <1>5, <1>6, <1>7, <1>8 DEF Escapes

\* What is escaped is read as it was.
LEMMA EscapedComesBack ==
  ASSUME NEW v \in Seq(Chars)
  PROVE  UnescapeText(EscapeText(v, "\\"), "\\") = v /\ EscapeText(v, "\\") \in Seq(Chars)
<1> DEFINE n    == Len(v)
           ss   == [i \in 1..n |-> Escaped(v[i], "\\")]
           st   == [k \in 0..n |-> Reading(SubSeq(v, 1, k))]
           step == Unescaping(Chars)
           S    == UnescapeState(Chars)
<1>1. /\ n \in Nat /\ EscapeText(v, "\\") = FlattenSeq(ss)
      /\ SubSeq(v, 1, n) = v /\ SubSeq(v, 1, 0) = <<>> /\ \A i \in 1..n : v[i] \in Chars
  BY EscapeIs, WholePrefix
<1>2. ss \in Seq(Seq(Chars)) /\ Len(ss) = n /\ \A i \in 1..n : ss[i] = Escaped(v[i], "\\")
  <2> DEFINE T == Seq(Chars)
  <2>1. \A i \in 1..n : Escaped(v[i], "\\") \in T
    <3> TAKE i \in 1..n
    <3>1. <<>> \in Seq(Chars) /\ v[i] \in Chars
      BY <1>1
    <3> QED
      BY <3>1, EscapedPiece
  <2> HIDE DEF T
  <2>2. ss \in Seq(T) /\ Len(ss) = n /\ \A i \in 1..n : ss[i] = Escaped(v[i], "\\")
    BY <1>1, <2>1
  <2> QED
    BY <2>2 DEF T
<1>3. st \in [0..n -> S]
  <2>1. \A k \in 0..n : Reading(SubSeq(v, 1, k)) \in S
    <3> TAKE k \in 0..n
    <3>1. SubSeq(v, 1, k) \in Seq(Chars)
      BY <1>1
    <3> QED
      BY <3>1 DEF Reading, UnescapeState
  <2> HIDE DEF S
  <2> QED
    BY <2>1
<1>4. st[0] = Reading(<<>>) /\ st[n] = Reading(v)
  <2>1. st[0] = Reading(SubSeq(v, 1, 0)) /\ st[n] = Reading(SubSeq(v, 1, n))
    BY <1>1
  <2> HIDE DEF st
  <2> QED
    BY <1>1, <2>1, Zenon
<1>5. ASSUME NEW k \in 1..n PROVE st[k] = Scan(step, st[k - 1], ss[k])
  <2> DEFINE u == SubSeq(v, 1, k - 1)
  <2>1. SubSeq(v, 1, k) = Append(u, v[k]) /\ u \in Seq(Chars) /\ v[k] \in Chars
    BY <1>1, PrefixIs
  <2>2. st[k] = Reading(SubSeq(v, 1, k)) /\ st[k - 1] = Reading(u)
    BY <1>1
  <2> HIDE DEF u, st, ss
  <2>3. Scan(Unescaping(Chars), Reading(u), Escaped(v[k], "\\")) = Reading(Append(u, v[k]))
    BY <2>1, EscapedPiece
  <2> QED
    BY <1>2, <2>1, <2>2, <2>3, Zenon
<1>6. ScansAlong(S, Chars, step, ss, st)
  BY <1>2, <1>3, <1>5, EscapesAreChars, UnescapeSteps DEF ScansAlong
<1> HIDE DEF S, ss, st
<1>7. Scan(step, st[0], FlattenSeq(ss)) = st[Len(ss)]
  BY <1>6, ScanFlat
<1>8. EscapeText(v, "\\") \in Seq(Chars)
  BY <1>1, <1>2, FlatIsSeq
<1>9. UnescapeText(EscapeText(v, "\\"), "\\") = Unpended(Scan(step, Reading(<<>>), EscapeText(v, "\\")))
  BY <1>8, EscapesAreChars, UnescapeIs
<1>10. Unpended(Reading(v)) = v
  BY DEF Unpended, Reading
<1> QED
  BY <1>1, <1>2, <1>4, <1>7, <1>8, <1>9, <1>10

LEMMA AppendedIs ==
  ASSUME NEW X, NEW a \in X, NEW b \in X
  PROVE  Append(<<>>, a) = <<a>> /\ Append(<<a>>, b) = <<a, b>> /\ <<a>> \in Seq(X)
<1>1. <<a>> \in Seq(X) /\ <<>> \in Seq(X)
  OBVIOUS
<1>2. Append(<<>>, a) = <<a>>
  OBVIOUS
<1>3. Append(<<a>>, b) = <<a>> \o <<b>>
  BY <1>1
<1> QED
  BY <1>1, <1>2, <1>3, TwoJoined

LEMMA EscapeMore ==
  ASSUME NEW v \in Seq(Chars), NEW x \in Chars
  PROVE  EscapeText(Append(v, x), "\\") = EscapeText(v, "\\") \o Escaped(x, "\\")
<1> DEFINE n   == Len(v)
           all == Append(v, x)
           ss  == [i \in 1..n |-> Escaped(v[i], "\\")]
           w   == Escaped(x, "\\")
           T   == Seq(Chars)
<1>1. all \in Seq(Chars) /\ n \in Nat /\ Len(all) = n + 1 /\ all[n + 1] = x /\ \A i \in 1..n : all[i] = v[i] /\ v[i] \in Chars
  OBVIOUS
<1>2. EscapeText(v, "\\") = FlattenSeq(ss) /\ EscapeText(all, "\\") = FlattenSeq([i \in 1..(n + 1) |-> Escaped(all[i], "\\")])
  <2> HIDE DEF all
  <2> QED
    BY <1>1, EscapeIs
<1>3. w \in T /\ \A i \in 1..n : Escaped(v[i], "\\") \in T
  <2>1. <<>> \in Seq(Chars)
    OBVIOUS
  <2> QED
    BY <1>1, <2>1, EscapedPiece
<1> HIDE DEF T, w, all
<1>4. ss \in Seq(T) /\ Len(ss) = n /\ \A i \in 1..n : ss[i] = Escaped(v[i], "\\")
  BY <1>1, <1>3
<1> DEFINE more == [i \in 1..(n + 1) |-> Escaped(all[i], "\\")]
<1>5. more \in Seq(T) /\ Len(more) = n + 1 /\ more[n + 1] = w /\ \A i \in 1..n : more[i] = Escaped(v[i], "\\")
  <2>1. \A i \in 1..(n + 1) : Escaped(all[i], "\\") \in T
    BY <1>1, <1>3 DEF w
  <2> QED
    BY <1>1, <2>1 DEF w
<1> HIDE DEF ss, more
<1> DEFINE longer == Append(ss, w)
<1>6. longer \in Seq(T) /\ Len(longer) = n + 1 /\ longer[n + 1] = w /\ \A i \in 1..n : longer[i] = ss[i]
  BY <1>1, <1>3, <1>4
<1> HIDE DEF longer
<1>7. more = longer
  BY <1>1, <1>4, <1>5, <1>6
<1>8. FlattenSeq(Append(ss, w)) = FlattenSeq(ss) \o w
  BY <1>3, <1>4, FlatAppend DEF T
<1> QED
  BY <1>2, <1>7, <1>8 DEF longer, more, w, all

\* No value is escaped to what stands for NULL, and only nothing to nothing.
LEMMA EscapedIsNotNull ==
  ASSUME NEW v \in Seq(Chars)
  PROVE  EscapeText(v, "\\") # <<"\\", "N">> /\ (EscapeText(v, "\\") = <<>> <=> v = <<>>)
<1> DEFINE e == EscapeText(v, "\\")
<1>1. UnescapeText(e, "\\") = v
  BY EscapedComesBack
<1>2. "\\" \in Chars /\ "N" \in Chars /\ <<>> \in Seq(Chars)
  <2>1. "\\" \in Chars /\ "N" \in Chars
    BY DEF Chars
  <2>2. <<>> \in Seq(Chars)
    OBVIOUS
  <2> QED
    BY <2>1, <2>2
<1>3. EscapeText(<<>>, "\\") = <<>>
  <2> DEFINE nothing == <<>>
             ss == [i \in 1..Len(nothing) |-> Escaped(nothing[i], "\\")]
  <2>1. nothing \in Seq(Chars) /\ Len(nothing) = 0
    OBVIOUS
  <2>2. ss = <<>>
    BY <2>1
  <2> HIDE DEF nothing
  <2>3. EscapeText(nothing, "\\") = FlattenSeq(ss)
    BY <2>1, EscapeIs
  <2> HIDE DEF ss
  <2> QED
    BY <2>2, <2>3, FlatNone DEF nothing
<1>4. UnescapeText(<<>>, "\\") = <<>>
  BY <1>2, <1>3, EscapedComesBack
<1>5. ASSUME e = <<"\\", "N">> PROVE FALSE
  <2> DEFINE X  == Chars
             st == Unescaping(X)
             q  == Reading(<<>>)
             S  == UnescapeState(X)
             a  == "\\"
             b  == "N"
             mid == [out |-> <<>>, pending |-> TRUE]
  <2>1. st \in Steps(S, X) /\ q \in S /\ a \in X /\ b \in X /\ st[<<q, a>>] = mid /\ st[<<mid, b>>] = Reading(<<>> \o Unescaped("N"))
    BY <1>2, EscapesAreChars, UnescapeSteps, UnescapeStepIs
  <2>2. Unpended(Reading(<<>> \o Unescaped("N"))) = <<>> \o <<"\\", "N">>
    BY DEF Unpended, Reading, Unescaped, Tab
  <2>a. <<>> \o <<"\\", "N">> = <<"\\", "N">>
    <3>1. <<"\\", "N">> \in Seq(Chars)
      BY <1>2
    <3> QED
      BY <3>1
  <2> HIDE DEF st, q, S, X, a, b, mid
  <2>3. Scan(st, q, <<a, b>>) = st[<<st[<<q, a>>], b>>]
    BY ONLY <2>1, ScanTwo
  <2>4. UnescapeText(<<a, b>>, "\\") = Unpended(Scan(st, q, <<a, b>>))
    <3>1. <<a, b>> \in Seq(Chars)
      BY <2>1 DEF X
    <3> QED
      BY <3>1, EscapesAreChars, UnescapeIs DEF st, q, X
  <2>5. v = <<"\\", "N">>
    BY <1>1, <1>5, <2>1, <2>2, <2>a, <2>3, <2>4, Zenon DEF a, b
  <2>6. EscapeText(<<"\\", "N">>, "\\") # <<"\\", "N">>
    <3>1. Append(<<>>, "\\") = <<"\\">> /\ Append(<<"\\">>, "N") = <<"\\", "N">> /\ <<"\\">> \in Seq(Chars)
      BY <1>2, AppendedIs
    <3>2. Escaped("\\", "\\") = <<"\\", "\\">> /\ Escaped("N", "\\") = <<"N">>
      BY DEF Escaped, Tab
    <3>3. EscapeText(<<"\\">>, "\\") = <<>> \o <<"\\", "\\">>
      BY <1>2, <1>3, <3>1, <3>2, EscapeMore
    <3>4. EscapeText(<<"\\", "N">>, "\\") = EscapeText(<<"\\">>, "\\") \o <<"N">>
      BY <1>2, <3>1, <3>2, EscapeMore
    <3>5. <<"\\", "\\">> \in Seq(Chars) /\ <<"N">> \in Seq(Chars) /\ <<"\\", "N">> \in Seq(Chars)
      BY <1>2
    <3>6. Len((<<>> \o <<"\\", "\\">>) \o <<"N">>) = 3
      BY <3>5
    <3> QED
      BY <3>3, <3>4, <3>6
  <2> QED
    BY <1>5, <2>5, <2>6
<1> QED
  BY <1>1, <1>3, <1>4, <1>5, Zenon

\* A row is an empty line if it is a single value of no text.
LEMMA EmptyRowText ==
  ASSUME NEW t, IsCopyTable(t), NEW i \in 1..Len(t.rows), NEW o, NEW Y, o.delimiter \in Y,
         \A j \in 1..t.columns : Formatted(t.rows[i][j], o) \in Seq(Y)
  PROVE  RowText(t.rows[i], o) = <<>> <=> t.columns = 1 /\ Formatted(t.rows[i][1], o) = <<>>
<1> DEFINE n   == t.columns
           row == t.rows[i]
           fs  == Fields(row, o)
           T   == Seq(Y)
           d   == o.delimiter
<1>1. fs \in Seq(T) /\ Len(fs) = n /\ n \in Nat /\ n > 0 /\ fs[n] = Formatted(row[n], o)
  <2>1. n \in Nat /\ n > 0
    BY DEF IsCopyTable
  <2>2. fs \in Seq(T) /\ Len(fs) = n /\ \A j \in 1..n : fs[j] = Formatted(row[j], o)
    BY RowTextIs
  <2> QED
    BY <2>1, <2>2
<1> DEFINE ps  == Front(fs)
           cur == Last(fs)
<1>2. ps \in Seq(T) /\ cur \in T /\ Len(ps) = n - 1 /\ fs = Append(ps, cur) /\ cur = Formatted(row[n], o)
  <2> HIDE DEF T, fs
  <2>1. fs # <<>>
    BY <1>1
  <2>2. Last(fs) = fs[n]
    BY <1>1 DEF Last
  <2> QED
    BY <1>1, <2>1, <2>2, FrontAndLast
<1> HIDE DEF ps, cur
<1>3. /\ JoinWith(Append(ps, cur), d) = Ahead(ps, d) \o cur
      /\ Ahead(ps, d) \in Seq(Y)
      /\ ps # <<>> => Ahead(ps, d) # <<>>
      /\ ps = <<>> => Ahead(ps, d) = <<>>
  <2>1. d \in Y /\ ps \in Seq(Seq(Y)) /\ cur \in Seq(Y)
    BY <1>2
  <2> HIDE DEF d
  <2>2. /\ JoinWith(Append(ps, cur), d) = Ahead(ps, d) \o cur
        /\ Ahead(ps, d) \in Seq(Y)
        /\ ps # <<>> => Ahead(ps, d) # <<>> /\ Last(Ahead(ps, d)) = d
    BY ONLY <2>1, JoinEnd
  <2> QED
    BY <2>2 DEF Ahead
<1>4. ps = <<>> <=> n = 1
  <2> HIDE DEF T
  <2> QED
    BY <1>1, <1>2
<1> DEFINE pre == Ahead(ps, d)
<1>5. pre \in Seq(Y) /\ cur \in Seq(Y)
  BY <1>2, <1>3
<1> HIDE DEF pre
<1>6. pre \o cur = <<>> <=> pre = <<>> /\ cur = <<>>
  BY <1>5
<1>7. RowText(row, o) = pre \o cur
  BY <1>2, <1>3 DEF RowText, pre
<1> QED
  BY <1>2, <1>3, <1>4, <1>6, <1>7 DEF pre

-----------------------------------------------------------------------------
(* With escapes *)

NoLoneEmpty(t) == \A i \in 1..Len(t.rows) : ~(t.columns = 1 /\ t.rows[i][1] = <<>>)

LEMMA EscapedFields ==
  ASSUME NEW o, TextOptions(o), o.escape = "\\", NEW v
  PROVE  /\ v = NULL => Formatted(v, o) = <<"\\", "N">>
         /\ v # NULL => Formatted(v, o) = EscapeText(v, "\\")
         /\ FormatText(v, o) = Formatted(v, o)
BY TextOptionsAre DEF Formatted, FormatText

\* No line of escaped text has the end of a line in it.
LEMMA EscapedAreClean ==
  ASSUME NEW o, TextOptions(o), o.escape = "\\", NEW t, IsCopyTable(t), NEW i \in 1..Len(t.rows), NEW j \in 1..t.columns
  PROVE  Formatted(t.rows[i][j], o) \in Seq(Chars \ {"\n", "\r"})
<1> DEFINE Y == Chars \ {"\n", "\r"}
           v == t.rows[i][j]
<1>1. {"\\", "n", "t", "r"} \subseteq Y /\ "N" \in Y /\ Chars \subseteq Y \cup {"\n", Tab, "\r"}
  BY DEF Chars, Tab
<1>2. v = NULL \/ (v # NULL /\ v \in Seq(Chars))
  BY ValueIs
<1> HIDE DEF Y, v
<1>3. <<"\\", "N">> \in Seq(Y)
  BY <1>1
<1>4. v \in Seq(Chars) => EscapeText(v, "\\") \in Seq(Y)
  <2> SUFFICES ASSUME v \in Seq(Chars) PROVE EscapeText(v, "\\") \in Seq(Y)
    OBVIOUS
  <2>1. v \in Seq(Y \cup {"\n", Tab, "\r"})
    BY <1>1, Widened
  <2> QED
    BY <1>1, <2>1, EscapedIs
<1> QED
  BY <1>2, <1>3, <1>4, EscapedFields DEF Y, v

\* Up to the delimiter, escaped values are read as they were.
LEMMA EscapedFieldComesBack ==
  ASSUME NEW o, TextOptions(o), o.escape = "\\", NEW v \in Seq(STRING), v # NULL,
         o.delimiter # Tab => v \in Seq(Chars \ {o.delimiter})
  PROVE  FieldComesBack(v, o)
<1> DEFINE Y == Chars \ {o.delimiter}
<1>1. /\ o.delimiter \notin {"\n", "\r", "\\", "n", "t", "r"} /\ o.null = <<"\\", "N">>
      /\ {"\\", "n", "t", "r"} \subseteq Y
      /\ o.delimiter = Tab => Chars \subseteq Y \cup {"\n", Tab, "\r"}
      /\ Y \subseteq Y \cup {"\n", Tab, "\r"}
  BY TextOptionsAre DEF Chars
<1>2. v \in Seq(Chars)
  <2>1. STRING \subseteq Chars
    BY DEF Chars
  <2> QED
    BY <2>1, Widened
<1>3. v \in Seq(Y \cup {"\n", Tab, "\r"})
  <2>1. CASE o.delimiter = Tab
    <3> HIDE DEF Y
    <3> QED
      BY <1>1, <1>2, <2>1, Widened
  <2>2. CASE o.delimiter # Tab
    <3>1. v \in Seq(Y)
      BY <2>2
    <3> HIDE DEF Y
    <3> QED
      BY <1>1, <3>1, Widened
  <2> QED
    BY <2>1, <2>2
<1>4. EscapeText(v, "\\") \in Seq(Y)
  <2> HIDE DEF Y
  <2> QED
    BY <1>1, <1>3, EscapedIs
<1>5. FormatText(v, o) = EscapeText(v, "\\")
  BY EscapedFields
<1>6. EscapeText(v, "\\") # o.null
  BY <1>1, <1>2, EscapedIsNotNull
<1>7. UnescapeText(EscapeText(v, "\\"), "\\") = v
  BY <1>2, EscapedComesBack
<1> QED
  BY <1>4, <1>5, <1>6, <1>7 DEF FieldComesBack

\* What is read from between delimiters has none in it.
LEMMA EscapedValuesMustBeSafe ==
  ASSUME NEW o, TextOptions(o), o.escape = "\\", o.delimiter # Tab, NEW l \in Seq(Chars),
         NEW row, row = TextValues(l, o), NEW j \in DOMAIN row, row[j] # NULL
  PROVE  row[j] \in Seq(Chars \ {o.delimiter})
<1> DEFINE Y     == Chars \ {o.delimiter}
           parts == Split(l, o.delimiter)
           T     == Seq(Y)
<1>1. parts \in Seq(T)
  <2>1. parts \in Parts(Chars \ {o.delimiter})
    BY SplitClean
  <2> QED
    BY <2>1 DEF Parts
<1>2. row = [k \in DOMAIN parts |-> IF parts[k] = o.null THEN NULL ELSE UnescapeText(parts[k], o.escape)]
  BY DEF TextValues
<1>3. Escapes \subseteq Y
  BY TextOptionsAre DEF Escapes, Chars
<1> HIDE DEF parts, T
<1>4. j \in DOMAIN parts /\ row[j] = IF parts[j] = o.null THEN NULL ELSE UnescapeText(parts[j], o.escape)
  BY <1>2
<1>5. parts[j] \in T /\ row[j] = UnescapeText(parts[j], "\\")
  BY <1>1, <1>4
<1> HIDE DEF Y
<1>6. UnescapeText(parts[j], "\\") \in Seq(Y)
  <2>1. parts[j] \in Seq(Y)
    BY <1>5 DEF T
  <2> DEFINE w == parts[j]
  <2> HIDE DEF w
  <2>2. w \in Seq(Y)
    BY <2>1 DEF w
  <2>3. UnescapeText(w, "\\") \in Seq(Y)
    BY <1>3, <2>2, UnescapedIs
  <2> QED
    BY <2>3 DEF w
<1> QED
  BY <1>5, <1>6 DEF Y

\* A table in text with escapes comes back exactly if no value has a delimiter in
\* it that is not escaped, and no row is a single empty value.
LEMMA EscapedTextIff ==
  ASSUME NEW o, TextOptions(o), o.escape = "\\", NEW t, IsCopyTable(t)
  PROVE  Back(t, o) <=> (o.delimiter # Tab => Without(t, o.delimiter)) /\ NoLoneEmpty(t)
<1> DEFINE Y    == Chars \ {"\n", "\r"}
           L(i) == RowText(t.rows[i], o)
<1>1. t.columns \in Nat /\ t.columns > 0 /\ o.delimiter \in Y /\ "c" \in Chars \ {"\n"} /\ "\n" \in Chars
  <2>1. t.columns \in Nat /\ t.columns > 0
    BY DEF IsCopyTable
  <2>2. o.delimiter \in Y
    BY TextOptionsAre
  <2>3. "c" \in Chars \ {"\n"} /\ "\n" \in Chars
    BY DEF Chars
  <2> QED
    BY <2>1, <2>2, <2>3
<1>2. ASSUME NEW i \in 1..Len(t.rows)
      PROVE  /\ L(i) \in Seq(Chars) /\ L(i) \in Seq(Chars \ {"\n"}) /\ Chomped(L(i)) = L(i)
             /\ L(i) = <<>> <=> t.columns = 1 /\ t.rows[i][1] = <<>>
  <2>1. \A j \in 1..t.columns : Formatted(t.rows[i][j], o) \in Seq(Y)
    BY EscapedAreClean
  <2>2. Y \subseteq Chars /\ Y \subseteq Chars \ {"\n"} /\ "\r" \notin Y
    OBVIOUS
  <2> HIDE DEF Y
  <2>3. L(i) \in Seq(Y)
    BY <1>1, <2>1, RowTextIs
  <2>4. L(i) = <<>> <=> t.columns = 1 /\ Formatted(t.rows[i][1], o) = <<>>
    BY <1>1, <2>1, EmptyRowText
  <2> HIDE DEF L
  <2>5. L(i) # <<>> => Last(L(i)) \in Y
    BY <2>3, FrontAndLast
  <2>6. Chomped(L(i)) = L(i)
    BY <2>2, <2>5 DEF Chomped
  <2>7. t.columns = 1 => (Formatted(t.rows[i][1], o) = <<>> <=> t.rows[i][1] = <<>>)
    <3> SUFFICES ASSUME t.columns = 1 PROVE Formatted(t.rows[i][1], o) = <<>> <=> t.rows[i][1] = <<>>
      OBVIOUS
    <3>1. 1 \in 1..t.columns
      BY <1>1
    <3> DEFINE v == t.rows[i][1]
    <3>2. v = NULL \/ (v # NULL /\ v \in Seq(Chars))
      BY <3>1, ValueIs
    <3> HIDE DEF v
    <3>3. <<>> # NULL /\ <<"\\", "N">> # <<>>
      <4>1. <<>> \in Seq(STRING)
        OBVIOUS
      <4> QED
        BY <4>1, CopyCodecAssumption
    <3>4. CASE v = NULL
      BY <3>3, <3>4, EscapedFields DEF v
    <3>5. CASE v # NULL
      BY <3>2, <3>5, EscapedFields, EscapedIsNotNull DEF v
    <3> QED
      BY <3>4, <3>5
  <2>8. L(i) \in Seq(Chars) /\ L(i) \in Seq(Chars \ {"\n"})
    BY <2>2, <2>3, Widened
  <2> QED
    BY <2>4, <2>6, <2>7, <2>8
<1>3. Back(t, o) <=> \A i \in 1..Len(t.rows) : L(i) # <<>> /\ TextValues(L(i), o) = t.rows[i]
  <2>1. HeaderText(t.columns, o) \in Seq(Chars \ {"\n"})
    BY <1>1, HeaderTextIs
  <2>2. Tidy(Chars, t, o)
    BY <1>1, <1>2, <2>1 DEF Tidy
  <2>3. Back(t, o) <=> \A i \in 1..Len(t.rows) :
                         Chomped(L(i)) # <<>> /\ ReadValues(Chomped(L(i)), o) = t.rows[i]
    BY <2>2, TextOptionsAre, TidyIff
  <2>4. \A l : ReadValues(l, o) = TextValues(l, o)
    BY TextOptionsAre DEF ReadValues
  <2> HIDE DEF L
  <2> QED
    BY <1>2, <2>3, <2>4
<1>4. NoLoneEmpty(t) <=> \A i \in 1..Len(t.rows) : L(i) # <<>>
  BY <1>2 DEF NoLoneEmpty
<1>5. ASSUME o.delimiter # Tab, \A i \in 1..Len(t.rows) : TextValues(L(i), o) = t.rows[i]
      PROVE  Without(t, o.delimiter)
  <2>1. ASSUME NEW i \in 1..Len(t.rows), NEW j \in 1..t.columns, t.rows[i][j] # NULL
        PROVE  t.rows[i][j] \in Seq(Chars \ {o.delimiter})
    <3>1. L(i) \in Seq(Chars) /\ t.rows[i] = TextValues(L(i), o) /\ j \in DOMAIN t.rows[i]
      BY <1>2, <1>5, RowsAre
    <3> QED
      BY <1>5, <2>1, <3>1, EscapedValuesMustBeSafe
  <2> QED
    BY <2>1 DEF Without
<1>6. ASSUME o.delimiter # Tab => Without(t, o.delimiter)
      PROVE  \A i \in 1..Len(t.rows) : TextValues(L(i), o) = t.rows[i]
  <2> TAKE i \in 1..Len(t.rows)
  <2>1. ASSUME NEW j \in 1..t.columns PROVE FieldComesBack(t.rows[i][j], o)
    <3> DEFINE v == t.rows[i][j]
    <3>1. CASE v = NULL
      BY <3>1 DEF FieldComesBack
    <3>2. CASE v # NULL
      <4>1. v \in Seq(STRING)
        BY <3>2, ValueIs
      <4>2. o.delimiter # Tab => v \in Seq(Chars \ {o.delimiter})
        BY <1>6, <3>2 DEF Without
      <4> HIDE DEF v
      <4>3. FieldComesBack(v, o)
        BY <3>2, <4>1, <4>2, EscapedFieldComesBack
      <4> QED
        BY <4>3 DEF v
    <3> QED
      BY <3>1, <3>2
  <2> QED
    BY <2>1, RowReadsBack
<1> HIDE DEF L
<1> QED
  BY <1>3, <1>4, <1>5, <1>6

-----------------------------------------------------------------------------
(* A line of CSV *)

\* The reader that looks back: a quote inside a quoted field may be its end, and
\* the next character tells.
Modes == {"outside", "inside", "closing"}

At(fields, current, mode) == [fields |-> fields, current |-> current, mode |-> mode]

CsvState(X) == [fields : Seq(Seq(X)), current : Seq(X), mode : Modes]

CsvNext(s, x, o) ==
  IF x = o.quote THEN
    IF s.mode = "outside" THEN At(s.fields, s.current, "inside")
    ELSE IF s.mode = "inside" THEN At(s.fields, s.current, "closing")
    ELSE At(s.fields, Append(s.current, o.quote), "inside")
  ELSE IF x = o.delimiter /\ s.mode # "inside" THEN At(Append(s.fields, s.current), <<>>, "outside")
  ELSE At(s.fields, Append(s.current, x), IF s.mode = "inside" THEN "inside" ELSE "outside")

Reader(X, o) == [p \in CsvState(X) \X X |-> CsvNext(p[1], p[2], o)]

\* What the reader that looks ahead holds at the same place.
Held(fields, current, quoted, skip) ==
  [fields |-> fields, current |-> current, quoted |-> quoted, skip |-> skip]

Seen(s, doubled, o) ==
  IF s.mode = "closing" /\ doubled THEN Held(s.fields, Append(s.current, o.quote), TRUE, TRUE)
  ELSE Held(s.fields, s.current, s.mode = "inside", FALSE)

LEMMA ReaderSteps ==
  ASSUME NEW X, NEW o
  PROVE  Reader(X, o) \in Steps(CsvState(X), X)
<1>1. ASSUME NEW s \in CsvState(X), NEW x \in X PROVE CsvNext(s, x, o) \in CsvState(X)
  <2> DEFINE T == Seq(X)
  <2>1. s.fields \in Seq(T) /\ s.current \in T /\ s.mode \in Modes /\ x \in X
    BY <1>1 DEF CsvState
  <2>2. Append(s.current, x) \in T /\ <<>> \in T
    BY <2>1
  <2> HIDE DEF T
  <2>3. Append(s.fields, s.current) \in Seq(T)
    BY <2>1
  <2> QED
    BY <2>1, <2>2, <2>3 DEF CsvNext, At, CsvState, Modes, T
<1> QED
  BY <1>1 DEF Reader, Steps

LEMMA ReaderIs ==
  ASSUME NEW X, NEW o, NEW fs \in Seq(Seq(X)), NEW c \in Seq(X), NEW m \in Modes, NEW x \in X
  PROVE  At(fs, c, m) \in CsvState(X) /\ Reader(X, o)[<<At(fs, c, m), x>>] = CsvNext(At(fs, c, m), x, o)
BY DEF At, CsvState, Reader

LEMMA CsvSkips ==
  ASSUME NEW f, NEW c, NEW q, NEW line, NEW i, NEW o
  PROVE  CsvStep(Held(f, c, q, TRUE), line, i, o) = Held(f, c, q, FALSE)
BY DEF CsvStep, Held

LEMMA CsvDoubled ==
  ASSUME NEW f, NEW c, NEW line, NEW i, NEW o, line[i] = o.quote, i < Len(line) /\ line[i + 1] = o.quote
  PROVE  CsvStep(Held(f, c, TRUE, FALSE), line, i, o) = Held(f, Append(c, o.quote), TRUE, TRUE)
BY DEF CsvStep, Held

LEMMA CsvTurns ==
  ASSUME NEW f, NEW c, NEW q \in BOOLEAN, NEW line, NEW i, NEW o, line[i] = o.quote,
         ~(q /\ i < Len(line) /\ line[i + 1] = o.quote)
  PROVE  CsvStep(Held(f, c, q, FALSE), line, i, o) = Held(f, c, ~q, FALSE)
BY DEF CsvStep, Held

LEMMA CsvNextField ==
  ASSUME NEW f, NEW c, NEW line, NEW i, NEW o, line[i] # o.quote, line[i] = o.delimiter
  PROVE  CsvStep(Held(f, c, FALSE, FALSE), line, i, o) = Held(Append(f, c), <<>>, FALSE, FALSE)
BY DEF CsvStep, Held

\* Both read alike.
LEMMA SeenStep ==
  ASSUME NEW o, o.delimiter # o.quote, NEW line, NEW k, NEW f, NEW c, NEW m \in Modes
  PROVE  CsvStep(Seen(At(f, c, m), line[k] = o.quote, o), line, k, o)
           = Seen(CsvNext(At(f, c, m), line[k], o), k < Len(line) /\ line[k + 1] = o.quote, o)
<1> DEFINE s == At(f, c, m)
           x == line[k]
           q == o.quote
           more == k < Len(line) /\ line[k + 1] = q
<1>1. s.fields = f /\ s.current = c /\ s.mode = m /\ more \in BOOLEAN
  BY DEF At
<1>2. ASSUME NEW g, NEW d, NEW t
      PROVE  /\ Seen(At(g, d, "outside"), t, o) = Held(g, d, FALSE, FALSE)
             /\ Seen(At(g, d, "inside"), t, o) = Held(g, d, TRUE, FALSE)
             /\ t => Seen(At(g, d, "closing"), t, o) = Held(g, Append(d, q), TRUE, TRUE)
             /\ ~t => Seen(At(g, d, "closing"), t, o) = Held(g, d, FALSE, FALSE)
  BY DEF At, Seen
<1> HIDE DEF s
<1>3. CASE x = q /\ m = "closing"
  <2>1. CsvNext(s, x, o) = At(f, Append(c, q), "inside")
    BY <1>1, <1>3 DEF CsvNext
  <2>2. Seen(s, x = q, o) = Held(f, Append(c, q), TRUE, TRUE)
    BY <1>2, <1>3 DEF s
  <2> HIDE DEF more
  <2>3. Seen(CsvNext(s, x, o), more, o) = Held(f, Append(c, q), TRUE, FALSE)
    BY <1>2, <2>1
  <2> DEFINE d == Append(c, q)
  <2> HIDE DEF d
  <2>4. CsvStep(Held(f, d, TRUE, TRUE), line, k, o) = Held(f, d, TRUE, FALSE)
    BY CsvSkips
  <2> QED
    BY <2>2, <2>3, <2>4 DEF s, more, d
<1>4. CASE x = q /\ m = "outside"
  <2>1. CsvNext(s, x, o) = At(f, c, "inside")
    BY <1>1, <1>4 DEF CsvNext
  <2>2. Seen(s, x = q, o) = Held(f, c, FALSE, FALSE)
    BY <1>2, <1>4 DEF s
  <2> HIDE DEF more
  <2>3. Seen(CsvNext(s, x, o), more, o) = Held(f, c, TRUE, FALSE)
    BY <1>2, <2>1
  <2>4. CsvStep(Held(f, c, FALSE, FALSE), line, k, o) = Held(f, c, ~FALSE, FALSE)
    BY <1>4, CsvTurns
  <2> QED
    BY <2>2, <2>3, <2>4 DEF s, more
<1>5. CASE x = q /\ m = "inside"
  <2>1. CsvNext(s, x, o) = At(f, c, "closing")
    BY <1>1, <1>5 DEF CsvNext
  <2>2. Seen(s, x = q, o) = Held(f, c, TRUE, FALSE)
    BY <1>2, <1>5 DEF s
  <2>3. CASE more
    <3>1. CsvStep(Held(f, c, TRUE, FALSE), line, k, o) = Held(f, Append(c, q), TRUE, TRUE)
      BY <1>5, <2>3, CsvDoubled
    <3> HIDE DEF more
    <3>2. Seen(CsvNext(s, x, o), more, o) = Held(f, Append(c, q), TRUE, TRUE)
      BY <1>2, <2>1, <2>3
    <3> QED
      BY <2>2, <3>1, <3>2 DEF s, more
  <2>4. CASE ~more
    <3>1. CsvStep(Held(f, c, TRUE, FALSE), line, k, o) = Held(f, c, ~TRUE, FALSE)
      BY <1>5, <2>4, CsvTurns
    <3> HIDE DEF more
    <3>2. Seen(CsvNext(s, x, o), more, o) = Held(f, c, FALSE, FALSE)
      BY <1>2, <2>1, <2>4
    <3> QED
      BY <2>2, <3>1, <3>2 DEF s, more
  <2> QED
    BY <2>3, <2>4
<1>6. CASE x # q /\ x = o.delimiter /\ m # "inside"
  <2>1. CsvNext(s, x, o) = At(Append(f, c), <<>>, "outside")
    BY <1>1, <1>6 DEF CsvNext
  <2>2. Seen(s, x = q, o) = Held(f, c, FALSE, FALSE)
    BY <1>2, <1>6 DEF s, Modes
  <2> HIDE DEF more
  <2>3. Seen(CsvNext(s, x, o), more, o) = Held(Append(f, c), <<>>, FALSE, FALSE)
    BY <1>2, <2>1
  <2>4. CsvStep(Held(f, c, FALSE, FALSE), line, k, o) = Held(Append(f, c), <<>>, FALSE, FALSE)
    BY <1>6, CsvNextField
  <2> QED
    BY <2>2, <2>3, <2>4 DEF s, more
<1>7. CASE x # q /\ m = "inside"
  <2>1. CsvNext(s, x, o) = At(f, Append(c, x), "inside")
    BY <1>1, <1>7 DEF CsvNext
  <2>2. Seen(s, x = q, o) = Held(f, c, TRUE, FALSE)
    BY <1>2, <1>7 DEF s
  <2> HIDE DEF more
  <2>3. Seen(CsvNext(s, x, o), more, o) = Held(f, Append(c, x), TRUE, FALSE)
    BY <1>2, <2>1
  <2>4. CsvStep(Held(f, c, TRUE, FALSE), line, k, o) = Held(f, Append(c, x), TRUE, FALSE)
    <3>1. line[k] # o.quote
      BY <1>7
    <3> QED
      BY ONLY <3>1 DEF CsvStep, Held
  <2> QED
    BY <2>2, <2>3, <2>4 DEF s, more
<1>8. CASE x # q /\ x # o.delimiter /\ m # "inside"
  <2>1. CsvNext(s, x, o) = At(f, Append(c, x), "outside")
    BY <1>1, <1>8 DEF CsvNext
  <2>2. Seen(s, x = q, o) = Held(f, c, FALSE, FALSE)
    BY <1>2, <1>8 DEF s, Modes
  <2> HIDE DEF more
  <2>3. Seen(CsvNext(s, x, o), more, o) = Held(f, Append(c, x), FALSE, FALSE)
    BY <1>2, <2>1
  <2>4. CsvStep(Held(f, c, FALSE, FALSE), line, k, o) = Held(f, Append(c, x), FALSE, FALSE)
    <3>1. line[k] # o.quote /\ line[k] # o.delimiter
      BY <1>8
    <3> QED
      BY ONLY <3>1 DEF CsvStep, Held
  <2> QED
    BY <2>2, <2>3, <2>4 DEF s, more
<1> QED
  BY <1>3, <1>4, <1>5, <1>6, <1>7, <1>8 DEF Modes

Start == At(<<>>, <<>>, "outside")

LEMMA AnyState ==
  ASSUME NEW X, NEW s \in CsvState(X)
  PROVE  /\ s = At(s.fields, s.current, s.mode) /\ s.mode \in Modes
         /\ s.fields \in Seq(Seq(X)) /\ s.current \in Seq(X)
BY DEF CsvState, At

\* The fields of a line are those the reader has at its end.
LEMMA CsvFieldsAre ==
  ASSUME NEW X, NEW o, o.delimiter # o.quote, NEW line \in Seq(X),
         NEW end, end = Scan(Reader(X, o), Start, line)
  PROVE  end \in CsvState(X) /\ CsvFields(line, o) = Append(end.fields, end.current)
<1> DEFINE n    == Len(line)
           base == [fields |-> <<>>, current |-> <<>>, quoted |-> FALSE, skip |-> FALSE]
           step == Reader(X, o)
           S    == CsvState(X)
           IsF(h) == h = [i \in 0..n |-> IF i = 0 THEN base ELSE CsvStep(h[i - 1], line, i, o)]
           after  == CHOOSE h : IsF(h)
           more(k) == k < n /\ line[k + 1] = o.quote
<1>1. Scans(S, X, step, Start, line) /\ n \in Nat
  <2>1. Start \in S
    <3>1. <<>> \in Seq(X) /\ <<>> \in Seq(Seq(X))
      OBVIOUS
    <3> QED
      BY <3>1 DEF Start, At, CsvState, Modes
  <2> QED
    BY <2>1, ReaderSteps DEF Scans
<1>2. CsvFields(line, o) = Append(after[n].fields, after[n].current)
  BY Zenon DEF CsvFields
<1> HIDE DEF base, S
<1>3. PICK f : IsScan(f, S, step, Start, line)
  BY <1>1, ScanRun, Zenon
<1>4. f \in [0..n -> S] /\ f[0] = Start /\ \A i \in 1..n : f[i] = CsvNext(f[i - 1], line[i], o)
  <2>1. f \in [0..n -> S] /\ f[0] = Start /\ \A i \in 1..n : f[i] = step[<<f[i - 1], line[i]>>]
    BY <1>3 DEF IsScan, Follows
  <2>2. \A i \in 1..n : i - 1 \in 0..n
    OBVIOUS
  <2>3. \A i \in 1..n : f[i - 1] \in S /\ line[i] \in X
    BY <2>1, <2>2
  <2>4. \A i \in 1..n : step[<<f[i - 1], line[i]>>] = CsvNext(f[i - 1], line[i], o)
    BY <2>3 DEF Reader, S
  <2> QED
    BY <2>1, <2>4
<1>5. end = f[n] /\ f[n] \in S
  BY <1>1, <1>3, <1>4 DEF IsScan
<1> DEFINE g == [k \in 0..n |-> Seen(f[k], more(k), o)]
<1>6. g[0] = base
  <2>1. g[0] = Seen(f[0], more(0), o)
    BY <1>1
  <2> DEFINE t == more(0)
  <2> HIDE DEF t
  <2>2. Seen(Start, t, o) = base
    BY DEF Seen, Start, At, Held, base
  <2> HIDE DEF g
  <2> QED
    BY <1>4, <2>1, <2>2 DEF t
<1>7. ASSUME NEW k \in 1..n PROVE g[k] = CsvStep(g[k - 1], line, k, o)
  <2>1. k - 1 \in 0..n /\ k \in 0..n /\ (k - 1) + 1 = k /\ k - 1 < n
    OBVIOUS
  <2>2. g[k] = Seen(f[k], more(k), o) /\ g[k - 1] = Seen(f[k - 1], more(k - 1), o)
    BY <2>1
  <2>3. more(k - 1) = (line[k] = o.quote)
    BY <2>1
  <2> DEFINE s == f[k - 1]
  <2>4. s \in CsvState(X)
    BY <1>4, <2>1 DEF S
  <2>5. f[k] = CsvNext(s, line[k], o)
    BY <1>4
  <2> HIDE DEF g, s
  <2>6. s = At(s.fields, s.current, s.mode) /\ s.mode \in Modes
    BY <2>4, AnyState
  <2> DEFINE a == s.fields
             c == s.current
             m == s.mode
  <2> HIDE DEF a, c, m
  <2>7. CsvStep(Seen(At(a, c, m), line[k] = o.quote, o), line, k, o)
          = Seen(CsvNext(At(a, c, m), line[k], o), k < Len(line) /\ line[k + 1] = o.quote, o)
    <3>1. m \in Modes /\ o.delimiter # o.quote
      BY <2>6 DEF m
    <3> QED
      BY ONLY <3>1, SeenStep
  <2>8. s = At(a, c, m)
    BY <2>6 DEF a, c, m
  <2> QED
    BY <2>2, <2>3, <2>5, <2>7, <2>8, Zenon DEF s
<1> HIDE DEF g
<1>8. IsF([k \in 0..n |-> g[k]])
  <2> DEFINE h == [k \in 0..n |-> g[k]]
  <2>1. \A k \in 0..n : h[k] = IF k = 0 THEN base ELSE CsvStep(h[k - 1], line, k, o)
    <3> TAKE k \in 0..n
    <3>1. CASE k = 0
      BY <1>6, <3>1
    <3>2. CASE k # 0
      <4>1. k \in 1..n /\ k - 1 \in 0..n
        BY <1>1, <3>2
      <4>2. h[k] = g[k] /\ h[k - 1] = g[k - 1]
        BY <4>1
      <4> HIDE DEF h
      <4> QED
        BY <1>7, <3>2, <4>1, <4>2
    <3> QED
      BY <3>1, <3>2
  <2>2. h = [k \in 0..n |-> h[k]]
    OBVIOUS
  <2> HIDE DEF h
  <2>3. h = [k \in 0..n |-> IF k = 0 THEN base ELSE CsvStep(h[k - 1], line, k, o)]
    BY <2>1, <2>2
  <2> QED
    BY <2>3 DEF h
<1> HIDE DEF IsF
<1>9. IsF(after)
  BY <1>8, Zenon
<1> HIDE DEF after
<1>10. after[0] = g[0] /\ \A k \in 1..n : after[k] = CsvStep(after[k - 1], line, k, o)
  <2>1. \A i \in 0..n : after[i] = IF i = 0 THEN base ELSE CsvStep(after[i - 1], line, i, o)
    BY <1>9, Zenon DEF IsF
  <2>2. 0 \in 0..n /\ \A i \in 1..n : i \in 0..n /\ i # 0
    BY <1>1
  <2> QED
    BY <1>6, <2>1, <2>2, Zenon
<1>11. \A k \in 1..n : after[k - 1] = g[k - 1] => after[k] = g[k]
  BY <1>7, <1>10, Zenon
<1>12. after[n] = g[n]
  BY <1>1, <1>10, <1>11, SameEnd
<1>13. g[n].fields = f[n].fields /\ g[n].current = f[n].current
  <2>1. g[n] = Seen(f[n], more(n), o) /\ ~more(n)
    BY <1>1 DEF g
  <2> DEFINE t == more(n)
  <2> HIDE DEF t
  <2>2. ~t /\ g[n] = Seen(f[n], t, o)
    BY <2>1 DEF t
  <2> QED
    BY <2>2 DEF Seen, Held
<1> QED
  BY <1>2, <1>5, <1>12, <1>13 DEF S

\* A value without quotes or delimiters is read as it is.
LEMMA CsvPlainScan ==
  ASSUME NEW X, NEW o, NEW fs \in Seq(Seq(X)), NEW v \in Seq(X),
         \A i \in 1..Len(v) : v[i] # o.quote /\ v[i] # o.delimiter
  PROVE  Scan(Reader(X, o), At(fs, <<>>, "outside"), v) = At(fs, v, "outside")
<1> DEFINE n    == Len(v)
           f    == [i \in 0..n |-> At(fs, SubSeq(v, 1, i), "outside")]
           step == Reader(X, o)
           base == At(fs, <<>>, "outside")
<1>1. n \in Nat /\ SubSeq(v, 1, n) = v /\ SubSeq(v, 1, 0) = <<>>
  BY WholePrefix
<1>2. ASSUME NEW i \in 1..n PROVE f[i] = step[<<f[i - 1], v[i]>>]
  <2> DEFINE u == SubSeq(v, 1, i - 1)
             m == "outside"
  <2>1. SubSeq(v, 1, i) = Append(u, v[i]) /\ u \in Seq(X) /\ v[i] \in X /\ v[i] # o.quote /\ v[i] # o.delimiter
    BY PrefixIs
  <2>2. f[i] = At(fs, SubSeq(v, 1, i), m) /\ f[i - 1] = At(fs, u, m) /\ m \in Modes
    BY <1>1 DEF Modes
  <2>3. CsvNext(At(fs, u, m), v[i], o) = At(fs, Append(u, v[i]), m)
    BY <2>1 DEF CsvNext, At
  <2> HIDE DEF u, f, m
  <2>4. Reader(X, o)[<<At(fs, u, m), v[i]>>] = CsvNext(At(fs, u, m), v[i], o)
    BY <2>1, <2>2, ReaderIs
  <2> QED
    BY <2>1, <2>2, <2>3, <2>4, Zenon
<1>3. f[0] = base /\ f[n] = At(fs, v, "outside")
  <2>1. f[0] = At(fs, SubSeq(v, 1, 0), "outside") /\ f[n] = At(fs, SubSeq(v, 1, n), "outside")
    BY <1>1
  <2> HIDE DEF f
  <2> QED
    BY <1>1, <2>1, Zenon
<1>4. base \in CsvState(X)
  <2>1. <<>> \in Seq(X)
    OBVIOUS
  <2> QED
    BY <2>1 DEF At, CsvState, Modes
<1> HIDE DEF f, base
<1>5. Follows(f, step, base, v)
  BY <1>2, <1>3 DEF Follows
<1>6. Scans(CsvState(X), X, step, base, v)
  BY <1>4, ReaderSteps DEF Scans
<1>7. f[Len(v)] = Scan(step, base, v)
  BY <1>5, <1>6, ScanIs
<1> QED
  BY <1>3, <1>7 DEF base

Doubled(v, o) == [i \in DOMAIN v |-> IF v[i] = o.quote THEN <<o.quote, o.quote>> ELSE <<v[i]>>]

\* Between quotes, a quote is written twice.
LEMMA CsvInsidePiece ==
  ASSUME NEW X, NEW o, o.quote \in X, NEW fs \in Seq(Seq(X)), NEW u \in Seq(X), NEW x \in X,
         NEW p, p = IF x = o.quote THEN <<o.quote, o.quote>> ELSE <<x>>
  PROVE  p \in Seq(X) /\ Scan(Reader(X, o), At(fs, u, "inside"), p) = At(fs, Append(u, x), "inside")
<1> DEFINE S    == CsvState(X)
           step == Reader(X, o)
           q    == o.quote
           s    == At(fs, u, "inside")
           t    == At(fs, u, "closing")
           m    == "inside"
           c    == "closing"
<1>1. step \in Steps(S, X) /\ m \in Modes /\ c \in Modes /\ q \in X /\ p \in Seq(X)
  <2>1. <<q, q>> \in Seq(X) /\ <<x>> \in Seq(X)
    OBVIOUS
  <2> QED
    BY <2>1, ReaderSteps DEF Modes
<1>2. /\ step[<<At(fs, u, m), x>>] = CsvNext(At(fs, u, m), x, o)
      /\ step[<<At(fs, u, c), q>>] = CsvNext(At(fs, u, c), q, o)
      /\ At(fs, u, m) \in S /\ At(fs, u, c) \in S
  <2> HIDE DEF m, c, q
  <2> QED
    BY <1>1, ReaderIs
<1>3. CASE x = q
  <2>1. CsvNext(s, x, o) = t /\ CsvNext(t, q, o) = At(fs, Append(u, q), "inside")
    BY <1>3 DEF CsvNext, At
  <2> HIDE DEF S, step, s, t, q
  <2>2. Scan(step, s, <<q, q>>) = step[<<step[<<s, q>>], q>>]
    BY <1>1, <1>2, ScanTwo DEF s
  <2>3. step[<<step[<<s, q>>], q>>] = At(fs, Append(u, q), "inside")
    BY <1>2, <1>3, <2>1 DEF s, t
  <2> QED
    BY <1>1, <1>3, <2>2, <2>3 DEF step, s, q
<1>4. CASE x # q
  <2>1. CsvNext(s, x, o) = At(fs, Append(u, x), "inside")
    BY <1>4 DEF CsvNext, At
  <2> HIDE DEF S, step, s, t
  <2>2. Scan(step, s, <<x>>) = step[<<s, x>>]
    BY <1>1, <1>2, ScanOne DEF s
  <2> QED
    BY <1>1, <1>2, <1>4, <2>1, <2>2 DEF step, s
<1> QED
  BY <1>3, <1>4

LEMMA CsvInsideScan ==
  ASSUME NEW X, NEW o, o.quote \in X, NEW fs \in Seq(Seq(X)), NEW v \in Seq(X)
  PROVE  /\ FlattenSeq(Doubled(v, o)) \in Seq(X)
         /\ Scan(Reader(X, o), At(fs, <<>>, "inside"), FlattenSeq(Doubled(v, o))) = At(fs, v, "inside")
<1> DEFINE n    == Len(v)
           ss   == Doubled(v, o)
           st   == [k \in 0..n |-> At(fs, SubSeq(v, 1, k), "inside")]
           step == Reader(X, o)
           S    == CsvState(X)
           P(x) == IF x = o.quote THEN <<o.quote, o.quote>> ELSE <<x>>
<1>1. /\ n \in Nat /\ ss = [i \in 1..n |-> P(v[i])]
      /\ SubSeq(v, 1, n) = v /\ SubSeq(v, 1, 0) = <<>> /\ \A i \in 1..n : v[i] \in X
  BY WholePrefix DEF Doubled
<1>2. ss \in Seq(Seq(X)) /\ Len(ss) = n /\ \A i \in 1..n : ss[i] = P(v[i])
  <2> DEFINE T == Seq(X)
  <2>1. \A i \in 1..n : P(v[i]) \in T
    <3> TAKE i \in 1..n
    <3>1. v[i] \in X /\ o.quote \in X
      BY <1>1
    <3> QED
      BY <3>1
  <2> HIDE DEF T, P
  <2>2. ss \in Seq(T) /\ Len(ss) = n /\ \A i \in 1..n : ss[i] = P(v[i])
    BY <1>1, <2>1
  <2> QED
    BY <2>2 DEF T
<1>3. st \in [0..n -> S]
  <2>1. \A k \in 0..n : At(fs, SubSeq(v, 1, k), "inside") \in S
    <3> TAKE k \in 0..n
    <3>1. SubSeq(v, 1, k) \in Seq(X)
      BY <1>1
    <3> QED
      BY <3>1 DEF At, CsvState, Modes
  <2> HIDE DEF S
  <2> QED
    BY <2>1
<1>4. st[0] = At(fs, <<>>, "inside") /\ st[n] = At(fs, v, "inside")
  <2>1. st[0] = At(fs, SubSeq(v, 1, 0), "inside") /\ st[n] = At(fs, SubSeq(v, 1, n), "inside")
    BY <1>1
  <2> HIDE DEF st
  <2> QED
    BY <1>1, <2>1, Zenon
<1>5. ASSUME NEW k \in 1..n PROVE st[k] = Scan(step, st[k - 1], ss[k])
  <2> DEFINE u == SubSeq(v, 1, k - 1)
             p == ss[k]
             x == v[k]
  <2>1. SubSeq(v, 1, k) = Append(u, x) /\ u \in Seq(X) /\ x \in X
    BY <1>1, PrefixIs
  <2>2. st[k] = At(fs, SubSeq(v, 1, k), "inside") /\ st[k - 1] = At(fs, u, "inside")
    BY <1>1
  <2>3. p = IF x = o.quote THEN <<o.quote, o.quote>> ELSE <<x>>
    BY <1>2
  <2> HIDE DEF u, st, p, x, ss
  <2>4. Scan(Reader(X, o), At(fs, u, "inside"), p) = At(fs, Append(u, x), "inside")
    BY <2>1, <2>3, CsvInsidePiece
  <2> QED
    BY <2>1, <2>2, <2>4, Zenon DEF p
<1>6. ScansAlong(S, X, step, ss, st)
  BY <1>2, <1>3, <1>5, ReaderSteps DEF ScansAlong
<1> HIDE DEF S, ss, st
<1>7. Scan(step, st[0], FlattenSeq(ss)) = st[Len(ss)]
  BY <1>6, ScanFlat
<1>8. FlattenSeq(ss) \in Seq(X)
  BY <1>2, FlatIsSeq
<1> QED
  BY <1>2, <1>4, <1>7, <1>8, Zenon DEF ss

Plain(v) == IF v = NULL THEN <<>> ELSE v

ModeOf(v, o) ==
  IF v # NULL /\ ToSet(v) \cap {o.delimiter, o.quote, "\n", "\r"} # {} THEN "closing" ELSE "outside"

CsvOptions(o) == o.format = "CSV" /\ Sensible(o)

LEMMA CsvOptionsAre ==
  ASSUME NEW o, CsvOptions(o)
  PROVE  /\ o.format = "CSV" /\ o.format # "BINARY" /\ o.header \in BOOLEAN
         /\ o.delimiter \in Chars /\ o.quote \in Chars /\ o.delimiter # o.quote
         /\ o.delimiter \notin {"\n", "\r"} /\ o.quote \notin {"\n", "\r"}
         /\ o.null = <<>> /\ <<>> # NULL
<1>1. <<>> # NULL
  <2>1. <<>> \in Seq(STRING)
    OBVIOUS
  <2> QED
    BY <2>1, CopyCodecAssumption
<1> QED
  BY <1>1 DEF CsvOptions, Sensible, Chars

\* A field is read as its value; after a quoted one, its second quote may be its
\* end.
LEMMA CsvFieldScan ==
  ASSUME NEW X, NEW o, o.quote \in X, o.delimiter # o.quote, NEW fs \in Seq(Seq(X)), NEW v, v = NULL \/ v \in Seq(X)
  PROVE  /\ FormatCsv(v, o) \in Seq(X) /\ Plain(v) \in Seq(X) /\ ModeOf(v, o) \in {"outside", "closing"}
         /\ Scan(Reader(X, o), At(fs, <<>>, "outside"), FormatCsv(v, o)) = At(fs, Plain(v), ModeOf(v, o))
<1> DEFINE S     == CsvState(X)
           step  == Reader(X, o)
           base  == At(fs, <<>>, "outside")
           marks == {o.delimiter, o.quote, "\n", "\r"}
<1>1. <<>> \in Seq(X) /\ step \in Steps(S, X) /\ base \in S
  <2>1. <<>> \in Seq(X)
    OBVIOUS
  <2> QED
    BY <2>1, ReaderSteps DEF At, CsvState, Modes
<1>2. Plain(v) \in Seq(X) /\ ModeOf(v, o) \in {"outside", "closing"}
  BY <1>1 DEF Plain, ModeOf
<1>3. CASE v = NULL
  <2>1. FormatCsv(v, o) = <<>> /\ Plain(v) = <<>> /\ ModeOf(v, o) = "outside"
    BY <1>3 DEF FormatCsv, Plain, ModeOf
  <2> HIDE DEF S, step, base
  <2>2. Scan(step, base, <<>>) = base
    BY <1>1, ScanNothing
  <2> QED
    BY <1>1, <1>2, <2>1, <2>2 DEF base, step
<1>4. CASE v # NULL /\ ToSet(v) \cap marks = {}
  <2>1. FormatCsv(v, o) = v /\ Plain(v) = v /\ ModeOf(v, o) = "outside" /\ v \in Seq(X)
    BY <1>4 DEF FormatCsv, Plain, ModeOf
  <2>2. \A i \in 1..Len(v) : v[i] # o.quote /\ v[i] # o.delimiter
    <3>1. \A i \in 1..Len(v) : v[i] \in ToSet(v)
      BY <2>1 DEF ToSet
    <3> QED
      BY <1>4, <3>1
  <2>3. Scan(Reader(X, o), At(fs, <<>>, "outside"), v) = At(fs, v, "outside")
    BY <2>1, <2>2, CsvPlainScan
  <2> QED
    BY <1>2, <2>1, <2>3
<1>5. CASE v # NULL /\ ToSet(v) \cap marks # {}
  <2> DEFINE a == <<o.quote>>
             b == FlattenSeq(Doubled(v, o))
             q == o.quote
  <2>1. FormatCsv(v, o) = (a \o b) \o a /\ Plain(v) = v /\ ModeOf(v, o) = "closing" /\ v \in Seq(X)
    BY <1>5 DEF FormatCsv, Plain, ModeOf, Doubled
  <2>2. a \in Seq(X) /\ q \in X
    OBVIOUS
  <2>3. b \in Seq(X) /\ Scan(step, At(fs, <<>>, "inside"), b) = At(fs, v, "inside")
    BY <2>1, CsvInsideScan
  <2>4. step[<<base, q>>] = At(fs, <<>>, "inside") /\ step[<<At(fs, v, "inside"), q>>] = At(fs, v, "closing")
    <3> DEFINE out == "outside"
               in  == "inside"
    <3>1. out \in Modes /\ in \in Modes
      BY DEF Modes
    <3>2. CsvNext(At(fs, <<>>, out), q, o) = At(fs, <<>>, in) /\ CsvNext(At(fs, v, in), q, o) = At(fs, v, "closing")
      BY DEF CsvNext, At
    <3> HIDE DEF out, in, q
    <3> DEFINE e == <<>>
    <3>3. e \in Seq(X)
      BY <1>1
    <3> HIDE DEF e
    <3>4. /\ Reader(X, o)[<<At(fs, e, out), q>>] = CsvNext(At(fs, e, out), q, o)
          /\ Reader(X, o)[<<At(fs, v, in), q>>] = CsvNext(At(fs, v, in), q, o)
      BY <2>1, <2>2, <3>1, <3>3, ReaderIs
    <3> QED
      BY <3>2, <3>4 DEF e, out, in
  <2>5. At(fs, <<>>, "inside") \in S /\ At(fs, v, "inside") \in S
    BY <1>1, <2>1 DEF At, CsvState, Modes
  <2> DEFINE s1 == At(fs, <<>>, "inside")
             s2 == At(fs, v, "inside")
  <2> HIDE DEF S, step, base, b, s1, s2
  <2>6. Scan(step, base, a) = s1 /\ Scan(step, s2, a) = At(fs, v, "closing")
    <3> HIDE DEF q
    <3>1. Scan(step, base, <<q>>) = step[<<base, q>>] /\ Scan(step, s2, <<q>>) = step[<<s2, q>>]
      BY <1>1, <2>2, <2>5, ScanOne DEF s2
    <3> QED
      BY <2>4, <3>1 DEF s1, s2, q
  <2> HIDE DEF a
  <2>7. a \o b \in Seq(X) /\ (a \o b) \o a \in Seq(X)
    BY <2>2, <2>3
  <2>8. Scan(step, base, a \o b) = s2
    <3>1. Scans(S, X, step, base, a)
      BY <1>1, <2>2 DEF Scans
    <3>2. Scan(step, base, a \o b) = Scan(step, Scan(step, base, a), b)
      BY <2>3, <3>1, ScanBoth
    <3> QED
      BY <2>3, <2>6, <3>2 DEF s1, s2
  <2> DEFINE ab == a \o b
  <2> HIDE DEF ab
  <2>9. Scan(step, base, ab \o a) = Scan(step, Scan(step, base, ab), a)
    <3>1. Scans(S, X, step, base, ab)
      BY <1>1, <2>7 DEF Scans, ab
    <3> QED
      BY <2>2, <3>1, ScanBoth
  <2>10. Scan(step, base, FormatCsv(v, o)) = At(fs, v, "closing")
    BY <2>1, <2>6, <2>8, <2>9 DEF ab
  <2> QED
    BY <1>2, <2>1, <2>7, <2>10 DEF step, base
<1> QED
  BY <1>3, <1>4, <1>5

\* The delimiter after a field ends it.
LEMMA CsvPieceScan ==
  ASSUME NEW X, NEW o, o.quote \in X, o.delimiter \in X, o.delimiter # o.quote,
         NEW fs \in Seq(Seq(X)), NEW c \in Seq(X), NEW m \in {"outside", "closing"},
         NEW v, v = NULL \/ v \in Seq(X)
  PROVE  /\ Scan(Reader(X, o), At(fs, c, m), <<o.delimiter>> \o FormatCsv(v, o))
              = At(Append(fs, c), Plain(v), ModeOf(v, o))
         /\ <<o.delimiter>> \o FormatCsv(v, o) \in Seq(X)
<1> DEFINE S    == CsvState(X)
           step == Reader(X, o)
           s    == At(fs, c, m)
           gs   == Append(fs, c)
           mid  == At(gs, <<>>, "outside")
           d    == o.delimiter
           w    == FormatCsv(v, o)
<1>1. m \in Modes /\ d \in X /\ <<d>> \in Seq(X) /\ gs \in Seq(Seq(X)) /\ step \in Steps(S, X)
  <2>1. gs \in Seq(Seq(X))
    <3> DEFINE T == Seq(X)
    <3>1. fs \in Seq(T) /\ c \in T
      OBVIOUS
    <3> HIDE DEF T
    <3>2. gs \in Seq(T)
      BY <3>1
    <3> QED
      BY <3>2 DEF T
  <2> QED
    BY <2>1, ReaderSteps DEF Modes
<1>2. CsvNext(s, d, o) = mid
  BY DEF CsvNext, At
<1> HIDE DEF d
<1>3. Reader(X, o)[<<At(fs, c, m), d>>] = CsvNext(At(fs, c, m), d, o) /\ At(fs, c, m) \in S
  BY <1>1, ReaderIs
<1> HIDE DEF gs
<1>4. w \in Seq(X) /\ Scan(Reader(X, o), At(gs, <<>>, "outside"), w) = At(gs, Plain(v), ModeOf(v, o))
  BY <1>1, CsvFieldScan
<1> HIDE DEF S, step, s, mid, w
<1>5. Scan(step, s, <<d>>) = step[<<s, d>>]
  BY <1>1, <1>3, ScanOne DEF s
<1>6. Scan(step, s, <<d>>) = mid
  BY <1>2, <1>3, <1>5 DEF s, step
<1> DEFINE a == <<d>>
<1>7. a \in Seq(X) /\ Scans(S, X, step, s, a)
  BY <1>1, <1>3 DEF Scans, s
<1> HIDE DEF a
<1>8. Scan(step, s, a \o w) = Scan(step, Scan(step, s, a), w) /\ a \o w \in Seq(X)
  BY <1>4, <1>7, ScanBoth
<1> QED
  BY <1>4, <1>6, <1>8 DEF a, d, s, w, mid, step, gs

\* Values between delimiters are read as they were, NULL as the empty one.
LEMMA CsvLineReads ==
  ASSUME NEW o, CsvOptions(o), NEW n \in Nat \ {0}, NEW vs, \A j \in 1..n : vs[j] = NULL \/ vs[j] \in Seq(Chars),
         NEW fs, fs = [j \in 1..n |-> FormatCsv(vs[j], o)]
  PROVE  CsvFields(JoinWith(fs, o.delimiter), o) = [j \in 1..n |-> Plain(vs[j])]
<1> DEFINE X     == Chars
           T     == Seq(Chars)
           d     == o.delimiter
           ps    == [j \in 1..n |-> Plain(vs[j])]
           ss    == Pieces(fs, d)
           S     == CsvState(X)
           step  == Reader(X, o)
           st    == [k \in 0..n |-> IF k = 0 THEN Start ELSE At(SubSeq(ps, 1, k - 1), ps[k], ModeOf(vs[k], o))]
<1>1. /\ d \in X /\ o.quote \in X /\ d # o.quote /\ n \in Nat /\ n > 0
      /\ \A j \in 1..n : /\ FormatCsv(vs[j], o) \in T /\ Plain(vs[j]) \in T
                         /\ ModeOf(vs[j], o) \in {"outside", "closing"}
  <2>1. d \in X /\ o.quote \in X /\ d # o.quote
    BY CsvOptionsAre
  <2>2. ASSUME NEW j \in 1..n
        PROVE  /\ FormatCsv(vs[j], o) \in Seq(X) /\ Plain(vs[j]) \in Seq(X)
               /\ ModeOf(vs[j], o) \in {"outside", "closing"}
    <3> DEFINE v == vs[j]
    <3>1. (v = NULL \/ v \in Seq(X)) /\ <<>> \in Seq(Seq(X))
      OBVIOUS
    <3> HIDE DEF v, X, d
    <3>2. /\ FormatCsv(v, o) \in Seq(X) /\ Plain(v) \in Seq(X) /\ ModeOf(v, o) \in {"outside", "closing"}
      BY <2>1, <3>1, CsvFieldScan DEF d
    <3> QED
      BY <3>2 DEF v
  <2> QED
    BY <2>1, <2>2
<1> HIDE DEF T
<1>2. fs \in Seq(T) /\ Len(fs) = n /\ \A j \in 1..n : fs[j] = FormatCsv(vs[j], o)
  BY <1>1
<1>3. ps \in Seq(T) /\ Len(ps) = n /\ \A j \in 1..n : ps[j] = Plain(vs[j])
  BY <1>1
<1> HIDE DEF ps
<1>4. /\ ss \in Seq(Seq(X)) /\ Len(ss) = n /\ JoinWith(fs, d) = FlattenSeq(ss) /\ JoinWith(fs, d) \in Seq(X)
      /\ \A j \in 1..n : ss[j] = IF j = 1 THEN fs[1] ELSE <<d>> \o fs[j]
  <2>1. d \in X /\ fs \in Seq(Seq(X))
    BY <1>1, <1>2 DEF T
  <2> HIDE DEF d, X
  <2>2. /\ Pieces(fs, d) \in Seq(Seq(X)) /\ Len(Pieces(fs, d)) = Len(fs) /\ Len(fs) \in Nat
        /\ JoinWith(fs, d) = FlattenSeq(Pieces(fs, d)) /\ JoinWith(fs, d) \in Seq(X)
        /\ \A i \in 1..Len(fs) :
             /\ fs[i] \in Seq(X)
             /\ Pieces(fs, d)[i] = IF i = 1 THEN fs[1] ELSE <<d>> \o fs[i]
    BY ONLY <2>1, PiecesAre, SMTT(60)
  <2> QED
    BY <1>2, <2>2
<1>5. ASSUME NEW k \in 0..n PROVE st[k] \in S
  <2>1. CASE k = 0
    <3>1. <<>> \in Seq(X) /\ <<>> \in Seq(Seq(X))
      OBVIOUS
    <3> QED
      BY <2>1, <3>1 DEF Start, At, CsvState, Modes
  <2>2. CASE k # 0
    <3>1. SubSeq(ps, 1, k - 1) \in Seq(T) /\ ps[k] \in T /\ ModeOf(vs[k], o) \in Modes
      BY <1>1, <1>3, <2>2 DEF Modes
    <3>2. st[k] = At(SubSeq(ps, 1, k - 1), ps[k], ModeOf(vs[k], o))
      BY <2>2
    <3> QED
      BY <3>1, <3>2 DEF At, CsvState, T
  <2> QED
    BY <2>1, <2>2
<1>6. st \in [0..n -> S] /\ st[0] = Start
  <2> HIDE DEF S
  <2> QED
    BY <1>1, <1>5
<1>7. ASSUME NEW k \in 1..n PROVE st[k] = Scan(step, st[k - 1], ss[k])
  <2> DEFINE v == vs[k]
  <2>1. st[k] = At(SubSeq(ps, 1, k - 1), ps[k], ModeOf(v, o)) /\ ps[k] = Plain(v)
    BY <1>3
  <2>2. v = NULL \/ v \in Seq(X)
    OBVIOUS
  <2>3. CASE k = 1
    <3>1. st[k - 1] = Start /\ ss[k] = FormatCsv(v, o)
      <4>1. st[0] = Start /\ k - 1 = 0
        BY <1>6, <2>3
      <4>2. ss[1] = fs[1] /\ fs[1] = FormatCsv(vs[1], o)
        <5>1. 1 \in 1..n
          BY <1>1
        <5>2. ss[1] = IF 1 = 1 THEN fs[1] ELSE <<d>> \o fs[1]
          BY <1>4, <5>1, Zenon
        <5> QED
          BY <1>2, <5>1, <5>2
      <4> HIDE DEF st, ss
      <4> QED
        BY <2>3, <4>1, <4>2
    <3>2. SubSeq(ps, 1, k - 1) = <<>>
      BY <1>3, <2>3
    <3> DEFINE gs == <<>>
    <3>3. gs \in Seq(Seq(X))
      OBVIOUS
    <3> HIDE DEF gs, v, X, st, d
    <3>4. Scan(Reader(X, o), At(gs, <<>>, "outside"), FormatCsv(v, o)) = At(gs, Plain(v), ModeOf(v, o))
      BY <1>1, <2>2, <3>3, CsvFieldScan DEF d
    <3>5. Start = At(gs, <<>>, "outside")
      BY DEF Start, gs
    <3> QED
      BY <2>1, <3>1, <3>2, <3>4, <3>5, Zenon DEF gs
  <2>4. CASE k # 1
    <3> DEFINE gs == SubSeq(ps, 1, k - 2)
               c  == ps[k - 1]
               m  == ModeOf(vs[k - 1], o)
    <3>1. k - 1 \in 1..n /\ (k - 1) - 1 = k - 2 /\ k - 1 \in 0..n /\ k - 1 # 0
      BY <1>1, <2>4
    <3>2. SubSeq(ps, 1, k - 1) = Append(gs, c) /\ gs \in Seq(T) /\ c \in T
      <4>1. k - 1 \in 1..Len(ps)
        BY <1>3, <3>1
      <4> DEFINE i == k - 1
      <4> HIDE DEF i
      <4>2. i \in 1..Len(ps)
        BY <4>1 DEF i
      <4>3. SubSeq(ps, 1, i) = Append(SubSeq(ps, 1, i - 1), ps[i]) /\ SubSeq(ps, 1, i - 1) \in Seq(T) /\ ps[i] \in T
        BY <1>3, <4>2, PrefixIs
      <4> QED
        BY <3>1, <4>3 DEF i
    <3>3. st[k - 1] = At(gs, c, m) /\ m \in {"outside", "closing"}
      BY <1>1, <3>1
    <3>4. ss[k] = <<d>> \o FormatCsv(v, o)
      BY <1>2, <1>4, <2>4
    <3>5. gs \in Seq(Seq(X)) /\ c \in Seq(X)
      BY <3>2 DEF T
    <3> HIDE DEF gs, c, m, v, X, st, d
    <3>6. Scan(Reader(X, o), At(gs, c, m), <<o.delimiter>> \o FormatCsv(v, o)) = At(Append(gs, c), Plain(v), ModeOf(v, o))
      BY <1>1, <2>2, <3>3, <3>5, CsvPieceScan DEF d
    <3> QED
      BY <2>1, <3>2, <3>3, <3>4, <3>6, Zenon DEF d
  <2> QED
    BY <2>3, <2>4
<1>8. ScansAlong(S, X, step, ss, st)
  BY <1>4, <1>6, <1>7, ReaderSteps DEF ScansAlong
<1> DEFINE end == st[n]
<1>9. end = At(SubSeq(ps, 1, n - 1), ps[n], ModeOf(vs[n], o))
  BY <1>1
<1> HIDE DEF S, ss, st, end
<1>10. Scan(step, st[0], FlattenSeq(ss)) = st[Len(ss)]
  BY <1>8, ScanFlat
<1>11. end = Scan(Reader(X, o), Start, JoinWith(fs, d))
  BY <1>4, <1>6, <1>10 DEF end
<1>12. CsvFields(JoinWith(fs, d), o) = Append(end.fields, end.current)
  <2> DEFINE line == JoinWith(fs, d)
  <2>1. line \in Seq(X) /\ end = Scan(Reader(X, o), Start, line) /\ o.delimiter # o.quote
    BY <1>1, <1>4, <1>11
  <2> HIDE DEF line, X
  <2>2. CsvFields(line, o) = Append(end.fields, end.current)
    BY <2>1, CsvFieldsAre
  <2> QED
    BY <2>2 DEF line
<1>13. Append(SubSeq(ps, 1, n - 1), ps[n]) = ps
  <2>1. n \in 1..Len(ps)
    BY <1>1, <1>3
  <2>2. SubSeq(ps, 1, n) = Append(SubSeq(ps, 1, n - 1), ps[n])
    BY <1>3, <2>1, PrefixIs
  <2>3. SubSeq(ps, 1, n) = ps
    BY <1>3, WholePrefix
  <2> QED
    BY <2>2, <2>3
<1>14. end.fields = SubSeq(ps, 1, n - 1) /\ end.current = ps[n]
  BY <1>9 DEF At
<1> QED
  BY <1>12, <1>13, <1>14 DEF ps

-----------------------------------------------------------------------------
(* The CSV format *)

NoEmptyValue(t) == \A i \in 1..Len(t.rows) : \A j \in 1..t.columns : t.rows[i][j] # <<>>

NoLoneNull(t) == \A i \in 1..Len(t.rows) : ~(t.columns = 1 /\ t.rows[i][1] = NULL)

\* A line keeps its end if its last value has none.
LEMMA KeptLine ==
  ASSUME NEW t, IsCopyTable(t), NEW i \in 1..Len(t.rows), NEW o, NEW Y, o.delimiter \in Y, o.delimiter # "\r",
         \A j \in 1..t.columns : Formatted(t.rows[i][j], o) \in Seq(Y),
         NEW end, end = Formatted(t.rows[i][t.columns], o), end # <<>> => Last(end) # "\r"
  PROVE  Chomped(RowText(t.rows[i], o)) = RowText(t.rows[i], o)
<1> DEFINE n   == t.columns
           row == t.rows[i]
           fs  == Fields(row, o)
           T   == Seq(Y)
           d   == o.delimiter
<1>1. fs \in Seq(T) /\ Len(fs) = n /\ n \in Nat /\ n > 0 /\ fs[n] = end
  <2>1. n \in Nat /\ n > 0
    BY DEF IsCopyTable
  <2>2. fs \in Seq(T) /\ Len(fs) = n /\ \A j \in 1..n : fs[j] = Formatted(row[j], o)
    BY RowTextIs
  <2>3. n \in 1..n
    BY <2>1
  <2> HIDE DEF fs, T
  <2>4. fs[n] = Formatted(row[n], o)
    BY <2>2, <2>3
  <2> QED
    BY <2>1, <2>2, <2>4
<1> DEFINE ps  == Front(fs)
           cur == Last(fs)
<1>2. ps \in Seq(T) /\ cur \in T /\ fs = Append(ps, cur) /\ cur = end
  <2> HIDE DEF T, fs
  <2>1. fs # <<>>
    BY <1>1
  <2>2. Last(fs) = fs[n]
    BY <1>1 DEF Last
  <2> QED
    BY <1>1, <2>1, <2>2, FrontAndLast
<1> HIDE DEF ps, cur
<1> DEFINE pre == Ahead(ps, d)
           l   == pre \o cur
<1>3. /\ JoinWith(Append(ps, cur), d) = l
      /\ pre \in Seq(Y) /\ cur \in Seq(Y)
      /\ pre # <<>> => Last(pre) = d
  <2>1. d \in Y /\ ps \in Seq(Seq(Y)) /\ cur \in Seq(Y)
    BY <1>2
  <2> HIDE DEF d
  <2>2. /\ JoinWith(Append(ps, cur), d) = Ahead(ps, d) \o cur
        /\ Ahead(ps, d) \in Seq(Y)
        /\ ps # <<>> => Ahead(ps, d) # <<>> /\ Last(Ahead(ps, d)) = d
    BY ONLY <2>1, JoinEnd
  <2>3. ps = <<>> => Ahead(ps, d) = <<>>
    BY DEF Ahead
  <2> QED
    BY <2>1, <2>2, <2>3
<1>4. RowText(row, o) = l
  BY <1>2, <1>3 DEF RowText
<1> HIDE DEF pre
<1>5. /\ cur # <<>> => Last(l) = Last(cur)
      /\ cur = <<>> => l = pre
  BY <1>3, LastJoined
<1> HIDE DEF l, d, row
<1>6. l # <<>> => Last(l) # "\r"
  BY <1>2, <1>3, <1>5 DEF d
<1>7. Chomped(l) = l
  BY <1>6 DEF Chomped
<1> QED
  BY <1>4, <1>7 DEF row

\* What is read has no line feed in it and is not empty.
LEMMA CsvValuesMustBeSafe ==
  ASSUME NEW o, CsvOptions(o), NEW t, IsCopyTable(t), Back(t, o)
  PROVE  NoEmptyValue(t) /\ Without(t, "\n")
<1> DEFINE Y == Chars \ {"\n"}
<1>1. Written(t, o) \in Seq(Chars)
  <2>1. ASSUME NEW i \in 1..Len(t.rows), NEW j \in 1..t.columns PROVE Formatted(t.rows[i][j], o) \in Seq(Chars)
    <3> DEFINE v  == t.rows[i][j]
               gs == <<>>
    <3>1. v = NULL \/ v \in Seq(Chars)
      BY ValueIs
    <3>2. gs \in Seq(Seq(Chars))
      OBVIOUS
    <3> HIDE DEF v, gs
    <3>3. FormatCsv(v, o) \in Seq(Chars)
      BY <3>1, <3>2, CsvOptionsAre, CsvFieldScan
    <3> QED
      BY <3>3, CsvOptionsAre DEF Formatted, v
  <2>2. "\n" \in Chars /\ "c" \in Chars
    BY DEF Chars
  <2> QED
    BY <2>1, <2>2, CsvOptionsAre, WrittenIs
<1>2. ASSUME NEW i \in 1..Len(t.rows), NEW j \in 1..t.columns
      PROVE  t.rows[i][j] = NULL \/ (t.rows[i][j] # <<>> /\ t.rows[i][j] \in Seq(Y))
  <2>1. PICK l \in Seq(Y) : ReadValues(l, o) = t.rows[i]
    <3>1. o.format # "BINARY"
      BY CsvOptionsAre
    <3>2. \A k \in 1..Len(t.rows) : \E l \in Seq(Chars \ {"\n"}) : ReadValues(l, o) = t.rows[k]
      BY <1>1, <3>1, FromLines
    <3> QED
      BY <3>2
  <2> DEFINE fs  == CsvFields(l, o)
             T   == Seq(Y)
             end == Scan(Reader(Y, o), Start, l)
  <2>2. fs \in Seq(T)
    <3>1. o.delimiter # o.quote
      BY CsvOptionsAre
    <3> HIDE DEF Y
    <3>2. end \in CsvState(Y) /\ CsvFields(l, o) = Append(end.fields, end.current)
      BY <3>1, CsvFieldsAre
    <3> HIDE DEF end, T
    <3>3. end.fields \in Seq(T) /\ end.current \in T
      BY <3>2 DEF CsvState, T
    <3> QED
      BY <3>2, <3>3
  <2>3. t.rows[i] = [k \in DOMAIN fs |-> IF fs[k] = o.null THEN NULL ELSE fs[k]]
    BY <2>1, CsvOptionsAre DEF ReadValues, CsvValues
  <2>4. DOMAIN t.rows[i] = 1..t.columns
    BY RowsAre
  <2> HIDE DEF fs, T
  <2>5. j \in DOMAIN fs
    BY <2>3, <2>4
  <2>6. t.rows[i][j] = (IF fs[j] = o.null THEN NULL ELSE fs[j]) /\ fs[j] \in T
    BY <2>2, <2>3, <2>5
  <2> QED
    BY <2>6, CsvOptionsAre DEF T
<1>3. <<>> # NULL
  BY CsvOptionsAre
<1> QED
  BY <1>2, <1>3 DEF NoEmptyValue, Without

\* The text of a row whose values are safe.
LEMMA CsvRowText ==
  ASSUME NEW o, CsvOptions(o), NEW t, IsCopyTable(t), NoEmptyValue(t), Without(t, "\n"), NEW i \in 1..Len(t.rows),
         NEW l, l = RowText(t.rows[i], o)
  PROVE  /\ l \in Seq(Chars \ {"\n"}) /\ Chomped(l) = l /\ CsvValues(l, o) = t.rows[i]
         /\ l = <<>> <=> t.columns = 1 /\ t.rows[i][1] = NULL
<1> DEFINE Y   == Chars \ {"\n"}
           row == t.rows[i]
           n   == t.columns
<1>1. /\ n \in Nat \ {0} /\ DOMAIN row = 1..n /\ row \in [1..n -> Field]
      /\ o.delimiter \in Y /\ o.quote \in Y /\ o.quote \in Chars /\ o.quote # "\r" /\ o.delimiter # "\r"
      /\ o.delimiter # o.quote
  <2>1. n \in Nat \ {0} /\ DOMAIN row = 1..n /\ row \in [1..n -> Field]
    BY RowsAre DEF IsCopyTable
  <2> QED
    BY <2>1, CsvOptionsAre
<1>2. ASSUME NEW j \in 1..n
      PROVE  /\ row[j] = NULL \/ row[j] \in Seq(Y)
             /\ row[j] = NULL \/ row[j] \in Seq(Chars)
             /\ row[j] # <<>>
  BY ValueIs DEF NoEmptyValue, Without
<1>3. ASSUME NEW j \in 1..n PROVE Formatted(row[j], o) = FormatCsv(row[j], o) /\ Formatted(row[j], o) \in Seq(Y)
  <2> DEFINE v  == row[j]
             gs == <<>>
  <2>1. v = NULL \/ v \in Seq(Y)
    BY <1>2
  <2>2. gs \in Seq(Seq(Y))
    OBVIOUS
  <2> HIDE DEF v, gs, Y
  <2>3. FormatCsv(v, o) \in Seq(Y)
    BY <1>1, <2>1, <2>2, CsvFieldScan
  <2> QED
    BY <2>3, CsvOptionsAre DEF Formatted, v
<1>4. ASSUME NEW j \in 1..n
      PROVE  /\ FormatCsv(row[j], o) = <<>> <=> row[j] = NULL
             /\ FormatCsv(row[j], o) # <<>> => Last(FormatCsv(row[j], o)) # "\r"
  <2> DEFINE v     == row[j]
             marks == {o.delimiter, o.quote, "\n", "\r"}
  <2>1. (v = NULL \/ v \in Seq(Y)) /\ v # <<>>
    BY <1>2
  <2> HIDE DEF v
  <2>2. CASE v = NULL
    BY <2>2 DEF FormatCsv, v
  <2>3. CASE v # NULL /\ ToSet(v) \cap marks = {}
    <3>1. FormatCsv(v, o) = v /\ v \in Seq(Y)
      BY <2>1, <2>3 DEF FormatCsv
    <3>2. Len(v) \in 1..Len(v)
      BY <2>1, <3>1
    <3>3. v[Len(v)] \in ToSet(v)
      BY <3>1, <3>2 DEF ToSet
    <3>4. Last(v) # "\r"
      BY <2>3, <3>3 DEF Last
    <3> QED
      BY <2>1, <2>3, <3>1, <3>4 DEF v
  <2>4. CASE v # NULL /\ ToSet(v) \cap marks # {}
    <3> DEFINE a == <<o.quote>>
               b == FlattenSeq(Doubled(v, o))
    <3>1. FormatCsv(v, o) = (a \o b) \o a /\ v \in Seq(Y)
      BY <2>1, <2>4 DEF FormatCsv, Doubled
    <3>2. a \in Seq(Y) /\ a # <<>> /\ Last(a) = o.quote
      BY <1>1 DEF Last
    <3>3. b \in Seq(Y)
      <4> DEFINE gs == <<>>
      <4>1. gs \in Seq(Seq(Y))
        OBVIOUS
      <4> HIDE DEF gs, Y, b
      <4>2. FlattenSeq(Doubled(v, o)) \in Seq(Y)
        BY <1>1, <3>1, <4>1, CsvInsideScan
      <4> QED
        BY <4>2 DEF b
    <3> HIDE DEF a, b
    <3> DEFINE ab == a \o b
    <3>4. ab \in Seq(Y)
      BY <3>2, <3>3
    <3> HIDE DEF ab
    <3>5. ab \o a # <<>> /\ Last(ab \o a) = Last(a)
      BY <3>2, <3>4, LastJoined
    <3> QED
      BY <1>1, <2>4, <3>1, <3>2, <3>5 DEF ab, v
  <2> QED
    BY <2>2, <2>3, <2>4
<1>5. l \in Seq(Y) /\ (l = <<>> <=> n = 1 /\ row[1] = NULL)
  <2>1. \A j \in 1..t.columns : Formatted(t.rows[i][j], o) \in Seq(Y)
    BY <1>3
  <2> HIDE DEF Y
  <2>2. l \in Seq(Y)
    BY <1>1, <2>1, RowTextIs
  <2>3. l = <<>> <=> n = 1 /\ Formatted(row[1], o) = <<>>
    BY <1>1, <2>1, EmptyRowText
  <2>4. n = 1 => (Formatted(row[1], o) = <<>> <=> row[1] = NULL)
    <3>1. n = 1 => 1 \in 1..n
      OBVIOUS
    <3> QED
      BY <1>3, <1>4, <3>1
  <2> QED
    BY <2>2, <2>3, <2>4
<1>6. Chomped(l) = l
  <2>1. \A j \in 1..t.columns : Formatted(t.rows[i][j], o) \in Seq(Y)
    BY <1>3
  <2> DEFINE end == Formatted(t.rows[i][t.columns], o)
  <2>2. n \in 1..n
    BY <1>1
  <2>3. end = FormatCsv(row[n], o) /\ (end # <<>> => Last(end) # "\r")
    BY <1>3, <1>4, <2>2
  <2> HIDE DEF end, Y
  <2>4. Chomped(RowText(t.rows[i], o)) = RowText(t.rows[i], o)
    BY <1>1, <2>1, <2>3, KeptLine DEF end
  <2> QED
    BY <2>4
<1>7. CsvValues(l, o) = row
  <2> DEFINE fs == [j \in 1..n |-> FormatCsv(row[j], o)]
             ps == [j \in 1..n |-> Plain(row[j])]
  <2>1. l = JoinWith(fs, o.delimiter)
    <3>1. Fields(row, o) = fs
      BY <1>1, <1>3 DEF Fields
    <3> HIDE DEF fs
    <3> QED
      BY <3>1 DEF RowText
  <2>2. CsvFields(JoinWith(fs, o.delimiter), o) = ps
    <3>1. \A j \in 1..n : row[j] = NULL \/ row[j] \in Seq(Chars)
      BY <1>2
    <3>2. fs = [j \in 1..n |-> FormatCsv(row[j], o)] /\ n \in Nat \ {0}
      BY <1>1
    <3> HIDE DEF row, fs, n
    <3>3. CsvFields(JoinWith(fs, o.delimiter), o) = [j \in 1..n |-> Plain(row[j])]
      BY ONLY <3>1, <3>2, CsvOptions(o), CsvLineReads, SMTT(60)
    <3> QED
      BY <3>3
  <2> HIDE DEF fs
  <2>3. CsvFields(l, o) = ps
    BY <2>1, <2>2
  <2>4. CsvValues(l, o) = [j \in 1..n |-> IF ps[j] = o.null THEN NULL ELSE ps[j]]
    BY <2>3 DEF CsvValues
  <2>5. \A j \in 1..n : (IF ps[j] = o.null THEN NULL ELSE ps[j]) = row[j]
    <3> TAKE j \in 1..n
    <3>1. ps[j] = Plain(row[j]) /\ o.null = <<>>
      BY CsvOptionsAre
    <3> HIDE DEF row, ps
    <3> QED
      BY <1>2, <3>1 DEF Plain
  <2>6. row = [j \in 1..n |-> row[j]]
    BY <1>1
  <2> HIDE DEF ps, row
  <2> QED
    BY <2>4, <2>5, <2>6
<1> QED
  BY <1>5, <1>6, <1>7

\* A table in CSV comes back exactly if no value is empty or has a line feed in it,
\* and no row is a single NULL.
LEMMA CsvIff ==
  ASSUME NEW o, CsvOptions(o), NEW t, IsCopyTable(t)
  PROVE  Back(t, o) <=> NoEmptyValue(t) /\ Without(t, "\n") /\ NoLoneNull(t)
<1>1. Back(t, o) => NoEmptyValue(t) /\ Without(t, "\n")
  BY CsvValuesMustBeSafe
<1>2. ASSUME NoEmptyValue(t), Without(t, "\n") PROVE Back(t, o) <=> NoLoneNull(t)
  <2> DEFINE L(i) == RowText(t.rows[i], o)
  <2>1. ASSUME NEW i \in 1..Len(t.rows)
        PROVE  /\ L(i) \in Seq(Chars \ {"\n"}) /\ Chomped(L(i)) = L(i) /\ ReadValues(Chomped(L(i)), o) = t.rows[i]
               /\ L(i) = <<>> <=> t.columns = 1 /\ t.rows[i][1] = NULL
    <3> DEFINE l == L(i)
    <3> HIDE DEF l
    <3>0. l = RowText(t.rows[i], o)
      BY DEF l
    <3>1. /\ l \in Seq(Chars \ {"\n"}) /\ Chomped(l) = l /\ CsvValues(l, o) = t.rows[i]
          /\ l = <<>> <=> t.columns = 1 /\ t.rows[i][1] = NULL
      BY <1>2, <3>0, CsvRowText
    <3>2. ReadValues(l, o) = CsvValues(l, o)
      BY CsvOptionsAre DEF ReadValues
    <3> QED
      BY <3>1, <3>2 DEF l
  <2>2. Tidy(Chars, t, o)
    <3>1. "c" \in Chars \ {"\n"} /\ "\n" \in Chars
      BY DEF Chars
    <3>2. t.columns \in Nat /\ o.delimiter \in Chars \ {"\n"}
      BY CsvOptionsAre DEF IsCopyTable
    <3>3. HeaderText(t.columns, o) \in Seq(Chars \ {"\n"})
      BY <3>1, <3>2, HeaderTextIs
    <3> QED
      BY <2>1, <3>1, <3>3 DEF Tidy
  <2>3. Back(t, o) <=> \A i \in 1..Len(t.rows) :
                         Chomped(L(i)) # <<>> /\ ReadValues(Chomped(L(i)), o) = t.rows[i]
    BY <2>2, CsvOptionsAre, TidyIff
  <2> HIDE DEF L
  <2> QED
    BY <2>1, <2>3 DEF NoLoneNull
<1> QED
  BY <1>1, <1>2

-----------------------------------------------------------------------------
(* The binary format *)

LEMMA BinaryIff ==
  ASSUME NEW o, o.format = "BINARY", NEW t, IsCopyTable(t)
  PROVE  Back(t, o) <=> t.rows # <<>>
<1> DEFINE q  == t.rows
           n  == Len(q)
           R  == [1..t.columns -> Field]
           A  == Mark("header")
           Z  == Mark("trailer")
           U  == {A, Z} \cup {Tuple(r) : r \in R}
           b  == [i \in 1..n |-> Tuple(q[i])]
           w  == Written(t, o)
<1>1. n \in Nat /\ DOMAIN q = 1..n /\ q \in Seq(R) /\ \A i \in 1..n : q[i] \in R
  <2>1. q \in Seq(R)
    BY DEF IsCopyTable
  <2> HIDE DEF R, q
  <2> QED
    BY <2>1
<1>2. w = (IF q = <<>> THEN <<>> ELSE <<A>>) \o b \o <<Z>>
  BY <1>1 DEF Written, Binary
<1>3. A.tag = "header" /\ Z.tag = "trailer" /\ \A r : Tuple(r).tag = "tuple" /\ Tuple(r).fields = r
  BY DEF Mark, Tuple
<1>4. <<A>> \in Seq(U) /\ <<Z>> \in Seq(U) /\ A \in U /\ Z \in U /\ \A i \in 1..n : Tuple(q[i]) \in U
  BY <1>1
<1> HIDE DEF U
<1>5. b \in Seq(U) /\ Len(b) = n /\ \A i \in 1..n : b[i] = Tuple(q[i])
  BY <1>1, <1>4
<1> HIDE DEF A, Z, w, b
<1>6. CASE q = <<>>
  <2>1. w = <<Z>>
    <3>1. b = <<>>
      BY <1>5, <1>6
    <3>2. <<>> \o <<>> = <<>> /\ <<>> \o <<Z>> = <<Z>>
      BY <1>4
    <3> QED
      BY <1>2, <1>6, <3>1, <3>2
  <2>2. Head(w).tag # "header"
    <3>1. Head(w) = Z
      BY <2>1
    <3> QED
      BY <1>3, <3>1
  <2>3. Read(w, t.columns, o) = [rows |-> <<>>, ok |-> FALSE]
    BY <2>2 DEF Read
  <2>4. Read(w, t.columns, o).ok = FALSE
    BY <2>3
  <2> QED
    BY <1>6, <2>4 DEF Back, w
<1>7. CASE q # <<>>
  <2> DEFINE ab == <<A>> \o b
  <2>1. n > 0
    BY <1>1, <1>7
  <2>2. ab \in Seq(U) /\ Len(ab) = n + 1 /\ ab[1] = A /\ \A i \in 1..n : ab[i + 1] = b[i]
    BY <1>4, <1>5
  <2> HIDE DEF ab
  <2>3. w = ab \o <<Z>>
    BY <1>2, <1>7 DEF ab
  <2>4. /\ w \in Seq(U) /\ Len(w) = n + 2 /\ w[1] = A /\ w[n + 2] = Z
        /\ \A i \in 1..n : w[i + 1] = Tuple(q[i])
    <3>1. w \in Seq(U) /\ Len(w) = n + 2 /\ w[n + 2] = Z /\ \A i \in 1..(n + 1) : w[i] = ab[i]
      <4> DEFINE z == <<Z>>
      <4>1. z \in Seq(U) /\ Len(z) = 1 /\ z[1] = Z
        BY <1>4
      <4> HIDE DEF z
      <4>2. ab \in Seq(U) /\ z \in Seq(U)
        BY <2>2, <4>1
      <4>3. /\ ab \o z \in Seq(U) /\ Len(ab \o z) = Len(ab) + Len(z)
            /\ \A i \in 1..Len(ab) : (ab \o z)[i] = ab[i]
            /\ \A i \in 1..Len(z) : (ab \o z)[Len(ab) + i] = z[i]
        BY ONLY <4>2, Concat
      <4>4. 1 \in 1..Len(z)
        BY <4>1
      <4>5. (ab \o z)[Len(ab) + 1] = z[1]
        BY <4>3, <4>4
      <4>6. Len(ab) + 1 = n + 2 /\ Len(ab) = n + 1
        BY <1>1, <2>2
      <4> QED
        BY <2>3, <4>1, <4>3, <4>5, <4>6 DEF z
    <3>2. 1 \in 1..(n + 1) /\ \A i \in 1..n : i + 1 \in 1..(n + 1)
      BY <1>1
    <3> QED
      BY <1>5, <2>2, <3>1, <3>2
  <2> DEFINE trailers == {i \in DOMAIN w : w[i].tag = "trailer"}
             body     == SubSeq(w, 2, n + 1)
             rs       == [i \in DOMAIN body |-> body[i].fields]
  <2>5. trailers = {n + 2}
    <3>1. DOMAIN w = 1..(n + 2)
      BY <1>1, <2>4
    <3>2. ASSUME NEW i \in 1..(n + 2) PROVE w[i].tag = "trailer" <=> i = n + 2
      <4>1. CASE i = 1
        BY <1>1, <1>3, <2>4, <4>1
      <4>2. CASE i = n + 2
        BY <1>1, <1>3, <2>4, <4>2
      <4>3. CASE i # 1 /\ i # n + 2
        <5>1. i - 1 \in 1..n /\ (i - 1) + 1 = i
          BY <1>1, <4>3
        <5>2. w[i] = Tuple(q[i - 1])
          BY <2>4, <5>1
        <5> QED
          BY <1>3, <4>3, <5>2
      <4> QED
        BY <4>1, <4>2, <4>3
    <3>3. n + 2 \in 1..(n + 2)
      BY <1>1
    <3> QED
      BY <3>1, <3>2, <3>3
  <2>6. Min(trailers) = n + 2
    BY <1>1, <2>5 DEF Min
  <2>7. Min(trailers) - 1 = n + 1
    BY <1>1, <2>6
  <2>8. BinaryRows(w) = rs
    BY <2>7 DEF BinaryRows
  <2>9. Len(body) = n /\ DOMAIN body = 1..n /\ \A i \in 1..n : body[i] = w[i + 1]
    BY <1>1, <2>4
  <2> HIDE DEF body, trailers
  <2>10. rs = [i \in 1..n |-> q[i]]
    <3>1. \A i \in 1..n : body[i].fields = q[i]
      BY <1>3, <2>4, <2>9
    <3> QED
      BY <2>9, <3>1
  <2>11. q = [i \in 1..n |-> q[i]]
    <3> HIDE DEF q, R
    <3> QED
      BY <1>1
  <2>12. rs = q
    BY <2>10, <2>11
  <2> HIDE DEF rs
  <2>13. Head(w).tag = "header"
    <3>1. Head(w) = w[1]
      BY <2>4
    <3> QED
      BY <1>3, <2>4, <3>1
  <2>14. Read(w, t.columns, o) = Inserted(t.columns, rs)
    BY <2>8, <2>13 DEF Read
  <2>15. Inserted(t.columns, rs) = [rows |-> t.rows, ok |-> TRUE]
    <3>1. DOMAIN rs = 1..Len(rs)
      BY <1>1, <2>12
    <3> QED
      BY <2>12, <3>1, InsertedIff
  <2> QED
    BY <1>7, <2>14, <2>15 DEF Back, w
<1> QED
  BY <1>6, <1>7

-----------------------------------------------------------------------------
(* What the properties say of the values *)

\* A table of texts is written as it is.
LEMMA SourceIs ==
  ASSUME source \in Sources, OnlyTexts
  PROVE  IsCopyTable(source) /\ AsTexts(source) = source
<1> DEFINE n == source.columns
           q == source.rows
           F == Field \cup DOMAIN Shown
<1>1. /\ source = [columns |-> n, rows |-> q] /\ n \in Nat \ {0} /\ q \in Seq([1..n -> F])
  BY CopyCodecAssumption DEF Field
<1>2. AsTexts(source) =
        [columns |-> n, rows |-> [i \in DOMAIN q |-> [j \in DOMAIN q[i] |-> AsText(q[i][j])]]]
  BY DEF AsTexts
<1>3. \A row \in ToSet(q) : ToSet(row) \cap DOMAIN Shown = {}
  BY DEF OnlyTexts
<1> HIDE DEF n, q, F
<1>4. /\ Len(q) \in Nat /\ DOMAIN q = 1..Len(q) /\ q = [i \in 1..Len(q) |-> q[i]]
      /\ \A i \in 1..Len(q) : q[i] \in [1..n -> F]
  <2> DEFINE R == [1..n -> F]
  <2>1. q \in Seq(R)
    BY <1>1
  <2> HIDE DEF R
  <2>2. /\ Len(q) \in Nat /\ DOMAIN q = 1..Len(q) /\ q = [i \in 1..Len(q) |-> q[i]]
        /\ \A i \in 1..Len(q) : q[i] \in R
    BY <2>1
  <2> QED
    BY <2>2 DEF R
<1>5. \A i \in 1..Len(q) : \A j \in 1..n : q[i][j] \in F /\ q[i][j] \notin DOMAIN Shown
  <2> TAKE i \in 1..Len(q)
  <2> TAKE j \in 1..n
  <2>1. q[i] \in ToSet(q) /\ q[i] \in [1..n -> F]
    BY <1>4 DEF ToSet
  <2>2. q[i][j] \in ToSet(q[i]) /\ q[i][j] \in F
    BY <2>1 DEF ToSet
  <2>3. ToSet(q[i]) \cap DOMAIN Shown = {}
    BY <1>3, <2>1, Zenon
  <2> QED
    BY <2>2, <2>3
<1>6. \A i \in 1..Len(q) : q[i] \in [1..n -> Field]
  BY <1>4, <1>5 DEF F
<1>7. IsCopyTable(source)
  <2> DEFINE R == [1..n -> Field]
  <2>1. \A i \in 1..Len(q) : q[i] \in R
    BY <1>6
  <2> HIDE DEF R
  <2>2. q \in Seq(R)
    BY <1>4, <2>1
  <2> QED
    BY <1>1, <2>2 DEF IsCopyTable, R, n, q
<1>8. \A i \in 1..Len(q) : [j \in DOMAIN q[i] |-> AsText(q[i][j])] = q[i]
  <2> TAKE i \in 1..Len(q)
  <2> DEFINE r == q[i]
  <2>1. r \in [1..n -> F] /\ \A j \in 1..n : AsText(r[j]) = r[j]
    BY <1>4, <1>5 DEF AsText
  <2> HIDE DEF r
  <2>2. [j \in DOMAIN r |-> AsText(r[j])] = r
    BY <2>1
  <2> QED
    BY <2>2 DEF r
<1>9. [i \in DOMAIN q |-> [j \in DOMAIN q[i] |-> AsText(q[i][j])]] = q
  BY <1>4, <1>8
<1> QED
  BY <1>1, <1>2, <1>7, <1>9

LEMMA TextsAre ==
  ASSUME IsCopyTable(source)
  PROVE  /\ \A v : v \in Texts <=> /\ v # NULL
                                   /\ \E i \in 1..Len(source.rows) : \E j \in 1..source.columns : v = source.rows[i][j]
         /\ \A row : row \in ToSet(source.rows) <=> \E i \in 1..Len(source.rows) : row = source.rows[i]
<1>1. /\ DOMAIN source.rows = 1..Len(source.rows)
      /\ \A i \in 1..Len(source.rows) : DOMAIN source.rows[i] = 1..source.columns
  BY RowsAre
<1>2. ToSet(source.rows) = {source.rows[i] : i \in 1..Len(source.rows)}
  BY <1>1 DEF ToSet
<1>3. \A i \in 1..Len(source.rows) : ToSet(source.rows[i]) = {source.rows[i][j] : j \in 1..source.columns}
  BY <1>1 DEF ToSet
<1>4. \A row : row \in ToSet(source.rows) <=> \E i \in 1..Len(source.rows) : row = source.rows[i]
  BY <1>2
<1>5. \A v : v \in Values <=> \E i \in 1..Len(source.rows) : v \in ToSet(source.rows[i])
  <2>1. \A v : v \in Values <=> \E row \in ToSet(source.rows) : v \in ToSet(row)
    BY DEF Values
  <2> QED
    BY <1>4, <2>1, Zenon
<1>6. \A v : v \in Values <=> \E i \in 1..Len(source.rows) : \E j \in 1..source.columns : v = source.rows[i][j]
  <2>1. \A i \in 1..Len(source.rows) : \A v : v \in ToSet(source.rows[i]) <=> \E j \in 1..source.columns : v = source.rows[i][j]
    BY <1>3
  <2>2. ASSUME NEW v, v \in Values
        PROVE  \E i \in 1..Len(source.rows) : \E j \in 1..source.columns : v = source.rows[i][j]
    <3>1. PICK i \in 1..Len(source.rows) : v \in ToSet(source.rows[i])
      BY <1>5, <2>2
    <3>2. \E j \in 1..source.columns : v = source.rows[i][j]
      BY <2>1, <3>1, Zenon
    <3> QED
      BY <3>2
  <2>3. ASSUME NEW v, NEW i \in 1..Len(source.rows), NEW j \in 1..source.columns, v = source.rows[i][j]
        PROVE  v \in Values
    <3>1. v \in ToSet(source.rows[i])
      BY <2>1, <2>3, Zenon
    <3> QED
      BY <1>5, <3>1, Zenon
  <2> QED
    BY <2>2, <2>3, Zenon
<1> QED
  BY <1>4, <1>6 DEF Texts

LEMMA HasIff ==
  ASSUME IsCopyTable(source), NEW c
  PROVE  ~Has(c) <=> Without(source, c)
<1>1. ASSUME NEW v \in Seq(Chars) PROVE ~Contains(v, c) <=> v \in Seq(Chars \ {c})
  <2>1. \A i \in 1..Len(v) : v[i] \in Chars
    OBVIOUS
  <2>2. Len(v) \in Nat /\ DOMAIN v = 1..Len(v) /\ v = [i \in 1..Len(v) |-> v[i]]
    OBVIOUS
  <2>3. v \in Seq(Chars \ {c}) <=> \A i \in 1..Len(v) : v[i] # c
    BY <2>1, <2>2
  <2> QED
    BY <2>3 DEF Contains
<1>2. ASSUME NEW i \in 1..Len(source.rows), NEW j \in 1..source.columns, source.rows[i][j] # NULL
      PROVE  ~Contains(source.rows[i][j], c) <=> source.rows[i][j] \in Seq(Chars \ {c})
  <2>1. source.rows[i][j] \in Seq(Chars)
    BY <1>2, ValueIs
  <2> QED
    BY <1>1, <2>1
<1>3. ~Has(c) <=> \A i \in 1..Len(source.rows) : \A j \in 1..source.columns :
                    source.rows[i][j] # NULL => ~Contains(source.rows[i][j], c)
  <2>1. ASSUME Has(c) PROVE \E i \in 1..Len(source.rows) : \E j \in 1..source.columns :
                              source.rows[i][j] # NULL /\ Contains(source.rows[i][j], c)
    <3>1. PICK v \in Texts : Contains(v, c)
      BY <2>1 DEF Has
    <3>2. v # NULL /\ \E i \in 1..Len(source.rows) : \E j \in 1..source.columns : v = source.rows[i][j]
      BY TextsAre
    <3> QED
      BY <3>1, <3>2
  <2>2. ASSUME NEW i \in 1..Len(source.rows), NEW j \in 1..source.columns,
               source.rows[i][j] # NULL, Contains(source.rows[i][j], c)
        PROVE  Has(c)
    <3> DEFINE v == source.rows[i][j]
    <3>1. v \in Texts /\ Contains(v, c)
      BY <2>2, TextsAre
    <3> HIDE DEF v
    <3> QED
      BY <3>1 DEF Has
  <2> QED
    BY <2>1, <2>2
<1> QED
  BY <1>2, <1>3 DEF Without

LEMMA EmptyLineIff ==
  ASSUME IsCopyTable(source), NEW v
  PROVE  ~EmptyLine(v) <=> \A i \in 1..Len(source.rows) : ~(source.columns = 1 /\ source.rows[i][1] = v)
BY TextsAre DEF EmptyLine

LEMMA CsvSafeIff ==
  ASSUME IsCopyTable(source)
  PROVE  (<<>> \notin Texts /\ ~Has("\n") /\ ~EmptyLine(NULL))
         <=> NoEmptyValue(source) /\ Without(source, "\n") /\ NoLoneNull(source)
<1>1. <<>> # NULL
  <2>1. <<>> \in Seq(STRING)
    OBVIOUS
  <2> QED
    BY <2>1, CopyCodecAssumption
<1>2. <<>> \notin Texts <=> NoEmptyValue(source)
  BY <1>1, TextsAre DEF NoEmptyValue
<1> QED
  BY <1>2, HasIff, EmptyLineIff DEF NoLoneNull

LEMMA EscapedSafeIff ==
  ASSUME IsCopyTable(source)
  PROVE  EscapedTextIsSafe <=> /\ options.delimiter # Tab => Without(source, options.delimiter)
                               /\ NoLoneEmpty(source)
BY HasIff, EmptyLineIff DEF EscapedTextIsSafe, NoLoneEmpty

LEMMA RawSafeIff ==
  ASSUME IsCopyTable(source)
  PROVE  RawTextIsSafe <=> RawValuesSafe(source, options) /\ RawLinesSafe(source)
<1>1. options.null \notin Texts <=>
        \A i \in 1..Len(source.rows) : \A j \in 1..source.columns :
          source.rows[i][j] # NULL => source.rows[i][j] # options.null
  BY TextsAre, Zenon
<1>2. \A i \in 1..Len(source.rows) : Last(source.rows[i]) = source.rows[i][source.columns]
  BY RowsAre DEF Last
<1>3. (\A row \in ToSet(source.rows) : Last(row) # NULL /\ Last(row) # <<>> => Last(Last(row)) # "\r")
      <=> \A i \in 1..Len(source.rows) :
            LET last == source.rows[i][source.columns] IN last # NULL /\ last # <<>> => Last(last) # "\r"
  <2>1. (\A row \in ToSet(source.rows) : Last(row) # NULL /\ Last(row) # <<>> => Last(Last(row)) # "\r")
        <=> \A i \in 1..Len(source.rows) :
              Last(source.rows[i]) # NULL /\ Last(source.rows[i]) # <<>> => Last(Last(source.rows[i])) # "\r"
    BY TextsAre, Zenon
  <2> QED
    BY <1>2, <2>1
<1>4. ~EmptyLine(<<>>) <=> \A i \in 1..Len(source.rows) : ~(source.columns = 1 /\ source.rows[i][source.columns] = <<>>)
  BY EmptyLineIff
<1>5. RawLinesSafe(source) <=>
        /\ \A i \in 1..Len(source.rows) :
             LET last == source.rows[i][source.columns] IN last # NULL /\ last # <<>> => Last(last) # "\r"
        /\ \A i \in 1..Len(source.rows) : ~(source.columns = 1 /\ source.rows[i][source.columns] = <<>>)
  BY Zenon DEF RawLinesSafe
<1>6. /\ ~Has("\n") <=> Without(source, "\n")
      /\ ~Has(options.delimiter) <=> Without(source, options.delimiter)
  BY HasIff
<1> QED
  BY <1>1, <1>3, <1>4, <1>5, <1>6 DEF RawTextIsSafe, RawValuesSafe

-----------------------------------------------------------------------------
(* The two statements *)

\* What the second statement reads is what the first one wrote.
CopyInv ==
  /\ clauses \in Statements /\ source \in Sources
  /\ next = "COPY FROM" => wire = Written(AsTexts(source), options)
  /\ next = "none" => target = Read(Written(AsTexts(source), options), source.columns, options)

LEMMA CopyInvHolds == Spec => []CopyInv
<1>1. Init => CopyInv
  BY DEF Init, CopyInv
<1>2. CopyInv /\ [Next]_vars => CopyInv'
  <2> SUFFICES ASSUME CopyInv, [Next]_vars PROVE CopyInv'
    OBVIOUS
  <2>1. CASE CopyTo
    BY <2>1 DEF CopyTo, CopyInv, options
  <2>2. CASE CopyFrom
    BY <2>2 DEF CopyFrom, CopyInv, options
  <2>3. CASE UNCHANGED vars
    BY <2>3 DEF vars, CopyInv, options
  <2> QED
    BY <2>1, <2>2, <2>3 DEF Next
<1> QED
  BY <1>1, <1>2, PTL DEF Spec

LEMMA RestoredIsBack ==
  ASSUME CopyInv, next = "none", OnlyTexts
  PROVE  IsCopyTable(source) /\ (Restored <=> Back(source, options))
<1>1. IsCopyTable(source) /\ AsTexts(source) = source
  BY SourceIs DEF CopyInv
<1>2. target = Read(Written(source, options), source.columns, options)
  BY <1>1 DEF CopyInv
<1> QED
  BY <1>1, <1>2 DEF Restored, Back

\* A table of texts copied out in CSV comes back as it was if no value is empty or
\* has a line feed in it, and no row is a single NULL; whatever the delimiter, the
\* quote and the number of rows, and with or without a header.
THEOREM CsvCopiesComeBack == Spec => []CsvComesBack
<1>1. CopyInv => CsvComesBack
  <2> SUFFICES ASSUME CopyInv, next = "none", options.format = "CSV", Sensible(options), OnlyTexts,
                      <<>> \notin Texts, ~Has("\n"), ~EmptyLine(NULL)
               PROVE  Restored
    BY DEF CsvComesBack
  <2>1. IsCopyTable(source) /\ CsvOptions(options) /\ (Restored <=> Back(source, options))
    BY RestoredIsBack DEF CsvOptions
  <2> QED
    BY <2>1, CsvIff, CsvSafeIff
<1> QED
  BY <1>1, CopyInvHolds, PTL

\* A table of texts copied out in text comes back as it was if they are safe:
\* without an escape character those without line feeds and delimiters that are not
\* like NULL, at the ends of lines that no carriage return ends; with one, all but
\* those with another delimiter than the tab; and no row is a single empty value.
THEOREM TextCopiesComeBack == Spec => []TextComesBack
<1>1. CopyInv => TextComesBack
  <2> SUFFICES ASSUME CopyInv, next = "none", options.format = "TEXT", Sensible(options), OnlyTexts,
                      \/ options.escape = Tab /\ RawTextIsSafe
                      \/ options.escape = "\\" /\ EscapedTextIsSafe
               PROVE  Restored
    BY DEF TextComesBack
  <2>1. IsCopyTable(source) /\ TextOptions(options) /\ (Restored <=> Back(source, options))
    BY RestoredIsBack DEF TextOptions
  <2>2. options.escape = Tab => (Restored <=> RawTextIsSafe)
    BY <2>1, RawTextIff, RawSafeIff
  <2>3. options.escape = "\\" => (Restored <=> EscapedTextIsSafe)
    BY <2>1, EscapedTextIff, EscapedSafeIff
  <2> QED
    BY <2>2, <2>3
<1> QED
  BY <1>1, CopyInvHolds, PTL

\* A table of texts copied out in binary comes back as it was if it has rows.
THEOREM BinaryCopiesComeBack == Spec => []BinaryComesBack
<1>1. CopyInv => BinaryComesBack
  <2> SUFFICES ASSUME CopyInv, next = "none", options.format = "BINARY", OnlyTexts, source.rows # <<>>
               PROVE  Restored
    BY DEF BinaryComesBack
  <2>1. IsCopyTable(source) /\ (Restored <=> Back(source, options))
    BY RestoredIsBack
  <2> QED
    BY <2>1, BinaryIff
<1> QED
  BY <1>1, CopyInvHolds, PTL
==============================================================================
