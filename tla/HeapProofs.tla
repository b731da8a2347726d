----------------------------- MODULE HeapProofs -----------------------------
(***************************************************************************)
(* Theorems about the heap: whatever is allocated and freed, its blocks    *)
(* fill it, each is in one place, and no two free blocks touch, and what   *)
(* it hands out and refuses is what an Allocator does, for any size of the *)
(* heap and any requests.                                                  *)
(***************************************************************************)
EXTENDS Heap, SequenceTheorems, FiniteSetTheorems, WellFoundedInduction, TLAPS

(***************************************************************************)
(* Least and greatest elements                                             *)
(***************************************************************************)
\* A non-empty set of naturals has a least element.
LEMMA LeastNatural ==
  ASSUME NEW S \in SUBSET Nat, S # {}
  PROVE  \E x \in S : \A y \in S : x <= y
<1> DEFINE R == OpToRel(<, Nat)
<1>1. \E x \in S : \A y \in S : ~ (<<y, x>> \in R)
  <2>1. IsWellFoundedOn(R, Nat)  BY NatLessThanWellFounded
  <2> HIDE DEF R
  <2> QED  BY <2>1, WFMin
<1>2. \A x, y \in Nat : y < x => <<y, x>> \in R
  BY DEF OpToRel
<1>3. PICK x \in S : \A y \in S : ~ (<<y, x>> \in R)  BY <1>1
<1>4. \A y \in S : ~ (y < x)  BY <1>2, <1>3
<1> QED  BY <1>4

\* A non-empty bounded set of naturals has a greatest element.
LEMMA GreatestNatural ==
  ASSUME NEW n \in Nat, NEW S \in SUBSET (0 .. n), S # {}
  PROVE  \E x \in S : \A y \in S : y <= x
<1> DEFINE T == {n - x : x \in S}
<1>1. T \in SUBSET Nat /\ T # {}
  <2>1. \A x \in S : n - x \in Nat  OBVIOUS
  <2> QED  BY <2>1
<1>2. PICK t \in T : \A u \in T : t <= u
  <2> HIDE DEF T
  <2> QED  BY <1>1, LeastNatural
<1>3. PICK x \in S : t = n - x  BY <1>2
<1>4. \A y \in S : y <= x
  <2> TAKE y \in S
  <2>1. n - y \in T  OBVIOUS
  <2>2. n - x <= n - y  BY <1>2, <1>3, <2>1
  <2> QED  BY <2>2, SMT
<1> QED  BY <1>4

(***************************************************************************)
(* The shape of the heap, as a property of a list f, headers s and a set B *)
(* of blocks that are in use.                                              *)
(***************************************************************************)
In(f) == {f[i] : i \in 1 .. Len(f)}

Headers(s) == /\ DOMAIN s \subseteq Addr
              /\ \A b \in DOMAIN s : s[b] \in 1 .. Units

Fills(s) == /\ 0 \in DOMAIN s
            /\ \A b \in DOMAIN s : b + s[b] \in DOMAIN s \cup {Units}
            /\ \A a, b \in DOMAIN s : a < b => a + s[a] <= b

Rising(f) == \A i, j \in 1 .. Len(f) : i < j => f[i] < f[j]

Apart(f, s) == \A b \in In(f) : b + s[b] \notin In(f)

Shape(f, s, B) == /\ Headers(s) /\ Fills(s)
                  /\ f \in Seq(DOMAIN s)
                  /\ Rising(f)
                  /\ Apart(f, s)
                  /\ DOMAIN s = In(f) \cup B
                  /\ In(f) \cap B = {}

(***************************************************************************)
(* Lists.                                                                  *)
(***************************************************************************)
\* Everything in a sequence is what its elements are.
LEMMA SeqOfIn ==
  ASSUME NEW S, NEW T, NEW f \in Seq(S), In(f) \subseteq T
  PROVE  f \in Seq(T)
<1>1. f \in [1 .. Len(f) -> S] /\ Len(f) \in Nat  BY LenProperties
<1>2. \A i \in 1 .. Len(f) : f[i] \in T  BY DEF In
<1>3. f \in [1 .. Len(f) -> T]  BY <1>1, <1>2
<1> QED  BY <1>1, <1>3, SeqDef

\* The list f when the elements from m + 1 to l are replaced by x: so
\* prvInsertBlockIntoFreeList relinks it.
Spliced(f, m, x, l) == SubSeq(f, 1, m) \o <<x>> \o SubSeq(f, l + 1, Len(f))

\* The length and the elements of such a list.
LEMMA Splice ==
  ASSUME NEW S, NEW f \in Seq(S), NEW x \in S,
         NEW m \in Nat, NEW l \in Nat, m <= l, l <= Len(f)
  PROVE  LET g == Spliced(f, m, x, l)
         IN  /\ g \in Seq(S)
             /\ Len(g) = m + 1 + (Len(f) - l)
             /\ \A j \in 1 .. Len(g) : g[j] = IF j <= m THEN f[j]
                                              ELSE IF j = m + 1 THEN x
                                              ELSE f[j - m - 1 + l]
<1> DEFINE n == Len(f)
           g == Spliced(f, m, x, l)
           p == SubSeq(f, 1, m)
           q == SubSeq(f, l + 1, n)
           h == p \o <<x>>
<1>1. n \in Nat /\ l <= n /\ \A j \in 1 .. n : f[j] \in S  BY LenProperties, ElementOfSeq
<1>2. /\ p \in Seq(S) /\ Len(p) = m
      /\ \A j \in 1 .. m : p[j] = f[j]
  <2>1. \A j \in 1 .. m : f[j] \in S  BY <1>1
  <2>2. /\ p \in Seq(S)
        /\ Len(p) = IF 1 <= m THEN m - 1 + 1 ELSE 0
        /\ \A j \in 1 .. m - 1 + 1 : p[j] = f[1 + j - 1]
    BY <2>1, SubSeqProperties
  <2> HIDE DEF p
  <2> QED  BY <2>2
<1>3. /\ q \in Seq(S) /\ Len(q) = n - l
      /\ \A j \in 1 .. n - l : q[j] = f[l + j]
  <2>1. \A j \in l + 1 .. n : f[j] \in S  BY <1>1
  <2>2. /\ q \in Seq(S)
        /\ Len(q) = IF l + 1 <= n THEN n - (l + 1) + 1 ELSE 0
        /\ \A j \in 1 .. n - (l + 1) + 1 : q[j] = f[l + 1 + j - 1]
    BY <1>1, <2>1, SubSeqProperties
  <2> HIDE DEF q, n
  <2> QED  BY <1>1, <2>2
<1>4. <<x>> \in Seq(S) /\ Len(<<x>>) = 1 /\ <<x>>[1] = x  OBVIOUS
<1>0. g = h \o q  BY DEF Spliced
<1> HIDE DEF p, q, n, g
<1>5. /\ h \in Seq(S) /\ Len(h) = m + 1
      /\ \A j \in 1 .. m + 1 : h[j] = IF j <= m THEN f[j] ELSE x
  <2>1. /\ h \in Seq(S) /\ Len(h) = Len(p) + Len(<<x>>)
        /\ \A j \in 1 .. Len(p) + Len(<<x>>) : h[j] = IF j <= Len(p) THEN p[j]
                                                       ELSE <<x>>[j - Len(p)]
    BY <1>2, <1>4, ConcatProperties
  <2> HIDE DEF h
  <2>2. \A j \in 1 .. m + 1 : j <= m \/ j - m = 1  OBVIOUS
  <2> QED  BY <1>2, <1>4, <2>1, <2>2
<1> HIDE DEF h
<1>6. /\ g \in Seq(S) /\ Len(g) = Len(h) + Len(q)
      /\ \A j \in 1 .. Len(h) + Len(q) : g[j] = IF j <= Len(h) THEN h[j] ELSE q[j - Len(h)]
  <2>1. /\ h \o q \in Seq(S) /\ Len(h \o q) = Len(h) + Len(q)
        /\ \A j \in 1 .. Len(h) + Len(q) : (h \o q)[j] = IF j <= Len(h) THEN h[j]
                                                        ELSE q[j - Len(h)]
    BY <1>3, <1>5, ConcatProperties
  <2> QED  BY <1>0, <2>1
<1>7. Len(g) = m + 1 + (n - l)  BY <1>3, <1>5, <1>6
<1>8. \A j \in 1 .. Len(g) : g[j] = IF j <= m THEN f[j]
                                    ELSE IF j = m + 1 THEN x
                                    ELSE f[j - m - 1 + l]
  <2> TAKE j \in 1 .. Len(g)
  <2>1. CASE j <= m + 1  BY <1>1, <1>3, <1>5, <1>6, <1>7, <2>1
  <2>2. CASE j > m + 1
    <3>1. j - (m + 1) \in 1 .. n - l  BY <1>1, <1>7, <2>2
    <3>2. g[j] = q[j - (m + 1)]  BY <1>1, <1>3, <1>5, <1>6, <1>7, <2>2
    <3>3. q[j - (m + 1)] = f[l + (j - (m + 1))]  BY <1>3, <3>1
    <3>4. j \in Int /\ l + (j - (m + 1)) = j - m - 1 + l  BY <1>1, <1>7
    <3> QED  BY <2>2, <3>2, <3>3, <3>4
  <2> QED  BY <1>1, <2>1, <2>2
<1> QED  BY <1>6, <1>7, <1>8 DEF n, g

\* Everything up to m is less than x and everything beyond l is greater.
Place(f, m, x, l) == /\ m \in Nat /\ l \in Nat /\ m <= l /\ l <= Len(f)
                     /\ \A j \in 1 .. m : f[j] < x
                     /\ \A j \in l + 1 .. Len(f) : x < f[j]

\* g holds x and what f holds up to m and beyond l.
Replaced(f, m, x, l, g) ==
  /\ x \in In(g)
  /\ \A j \in (1 .. m) \cup (l + 1 .. Len(f)) : f[j] \in In(g)
  /\ \A y \in In(g) : y = x \/ \E j \in (1 .. m) \cup (l + 1 .. Len(f)) : y = f[j]

\* Replaced in the right place, the list still rises, and holds what it should.
LEMMA SpliceRises ==
  ASSUME NEW S, S \subseteq Int, NEW f \in Seq(S), NEW x \in S, Rising(f),
         NEW m, NEW l, Place(f, m, x, l)
  PROVE  LET g == Spliced(f, m, x, l)
         IN  g \in Seq(S) /\ Rising(g) /\ Replaced(f, m, x, l, g)
<1> DEFINE n == Len(f)
           g == Spliced(f, m, x, l)
<1>0. /\ m \in Nat /\ l \in Nat /\ m <= l /\ l <= Len(f)
      /\ \A j \in 1 .. m : f[j] < x
      /\ \A j \in l + 1 .. n : x < f[j]
  BY DEF Place
<1>1. /\ g \in Seq(S)
      /\ Len(g) = m + 1 + (n - l)
      /\ \A j \in 1 .. Len(g) : g[j] = IF j <= m THEN f[j]
                                       ELSE IF j = m + 1 THEN x
                                       ELSE f[j - m - 1 + l]
  BY <1>0, Splice
<1>2. n \in Nat /\ l <= n /\ \A j \in 1 .. n : f[j] \in Int  BY <1>0, LenProperties, ElementOfSeq
<1> HIDE DEF n, g
<1>3. Rising(g)
  <2> SUFFICES ASSUME NEW i \in 1 .. Len(g), NEW j \in 1 .. Len(g), i < j
               PROVE  g[i] < g[j]
    BY DEF Rising
  <2>1. CASE j <= m  BY <1>0, <1>1, <1>2, <2>1 DEF Rising, n
  <2>2. CASE j = m + 1  BY <1>0, <1>1, <1>2, <2>2 DEF n
  <2>3. CASE j > m + 1
    <3>1. g[j] = f[j - m - 1 + l] /\ j - m - 1 + l \in l + 1 .. n  BY <1>0, <1>1, <1>2, <2>3
    <3>2. CASE i <= m  BY <1>0, <1>1, <1>2, <3>1, <3>2 DEF Rising, n
    <3>3. CASE i = m + 1  BY <1>0, <1>1, <1>2, <3>1, <3>3 DEF n
    <3>4. CASE i > m + 1
      <4> DEFINE a == i - m - 1 + l
                 b == j - m - 1 + l
      <4>1. g[i] = f[a] /\ a \in 1 .. n  BY <1>0, <1>1, <1>2, <3>4
      <4>2. g[j] = f[b] /\ b \in 1 .. n  BY <1>0, <1>2, <3>1
      <4>3. a < b  BY <1>0, <1>1, <1>2
      <4> HIDE DEF a, b
      <4> QED  BY <4>1, <4>2, <4>3 DEF Rising, n
    <3> QED  BY <1>0, <1>1, <3>2, <3>3, <3>4
  <2> QED  BY <1>0, <1>1, <1>2, <2>1, <2>2, <2>3
<1>4. ASSUME NEW y \in In(g)
      PROVE  y = x \/ \E j \in (1 .. m) \cup (l + 1 .. n) : y = f[j]
  <2>1. PICK j \in 1 .. Len(g) : y = g[j]  BY <1>4 DEF In
  <2>2. CASE j > m + 1
    <3>1. y = f[j - m - 1 + l] /\ j - m - 1 + l \in l + 1 .. n  BY <1>0, <1>1, <1>2, <2>1, <2>2
    <3> QED  BY <3>1
  <2>3. CASE j <= m + 1  BY <1>0, <1>1, <1>2, <2>1, <2>3
  <2> QED  BY <1>0, <1>1, <1>2, <2>2, <2>3
<1>5. ASSUME NEW j \in (1 .. m) \cup (l + 1 .. n) PROVE f[j] \in In(g)
  <2>1. CASE j \in 1 .. m
    <3>1. j \in 1 .. Len(g) /\ g[j] = f[j]  BY <1>0, <1>1, <1>2, <2>1 DEF n
    <3> QED  BY <3>1 DEF In
  <2>2. CASE j \in l + 1 .. n
    <3> DEFINE k == j - l + m + 1
    <3>1. k \in 1 .. Len(g) /\ k > m + 1 /\ k - m - 1 + l = j
      BY <1>0, <1>1, <1>2, <2>2
    <3>2. g[k] = f[j]  BY <1>0, <1>1, <3>1
    <3> HIDE DEF k
    <3> QED  BY <3>1, <3>2 DEF In
  <2> QED  BY <1>5, <2>1, <2>2
<1>6. x \in In(g)
  <2>1. m + 1 \in 1 .. Len(g) /\ g[m + 1] = x  BY <1>0, <1>1, <1>2 DEF n
  <2> QED  BY <2>1 DEF In
<1> QED  BY <1>1, <1>3, <1>4, <1>5, <1>6 DEF n, g, Replaced

\* The list without its element i.
LEMMA WithoutIs ==
  ASSUME NEW S, S \subseteq Int, NEW f \in Seq(S), Rising(f), NEW i \in 1 .. Len(f)
  PROVE  /\ Without(f, i) \in Seq(S)
         /\ Rising(Without(f, i))
         /\ In(Without(f, i)) = In(f) \ {f[i]}
<1> DEFINE n == Len(f)
           p == SubSeq(f, 1, i - 1)
           q == SubSeq(f, i + 1, n)
           g == Without(f, i)
<1>1. n \in Nat /\ i \in Nat /\ i <= n /\ 1 <= i /\ \A j \in 1 .. n : f[j] \in S /\ f[j] \in Int
  <2>1. n \in Nat  BY LenProperties
  <2>2. \A j \in 1 .. n : f[j] \in S  BY ElementOfSeq
  <2> HIDE DEF n
  <2>3. i \in 1 .. n  BY DEF n
  <2>4. i \in Nat /\ i <= n /\ 1 <= i  BY <2>1, <2>3
  <2>5. \A j \in 1 .. n : f[j] \in Int  BY <2>2
  <2> QED  BY <2>1, <2>2, <2>4, <2>5
<1>2. /\ p \in Seq(S) /\ Len(p) = i - 1
      /\ \A j \in 1 .. i - 1 : p[j] = f[j]
  <2>1. \A j \in 1 .. i - 1 : f[j] \in S  BY <1>1
  <2>2. /\ p \in Seq(S)
        /\ Len(p) = IF 1 <= i - 1 THEN i - 1 - 1 + 1 ELSE 0
        /\ \A j \in 1 .. i - 1 - 1 + 1 : p[j] = f[1 + j - 1]
    BY <1>1, <2>1, SubSeqProperties
  <2> HIDE DEF p, n
  <2> QED  BY <1>1, <2>2
<1>3. /\ q \in Seq(S) /\ Len(q) = n - i
      /\ \A j \in 1 .. n - i : q[j] = f[i + j]
  <2>1. \A j \in i + 1 .. n : f[j] \in S  BY <1>1
  <2>2. /\ q \in Seq(S)
        /\ Len(q) = IF i + 1 <= n THEN n - (i + 1) + 1 ELSE 0
        /\ \A j \in 1 .. n - (i + 1) + 1 : q[j] = f[i + 1 + j - 1]
    BY <1>1, <2>1, SubSeqProperties
  <2> HIDE DEF q, n
  <2> QED  BY <1>1, <2>2
<1>4. g = p \o q  BY DEF Without
<1> HIDE DEF p, q, n, g
<1>5. /\ g \in Seq(S) /\ Len(g) = n - 1
      /\ \A j \in 1 .. n - 1 : g[j] = IF j < i THEN f[j] ELSE f[j + 1]
  <2>1. /\ p \o q \in Seq(S) /\ Len(p \o q) = Len(p) + Len(q)
        /\ \A j \in 1 .. Len(p) + Len(q) : (p \o q)[j] = IF j <= Len(p) THEN p[j]
                                                        ELSE q[j - Len(p)]
    BY <1>2, <1>3, ConcatProperties
  <2>2. Len(g) = n - 1  BY <1>1, <1>2, <1>3, <1>4, <2>1
  <2>3. ASSUME NEW j \in 1 .. n - 1 PROVE g[j] = IF j < i THEN f[j] ELSE f[j + 1]
    <3>1. g[j] = IF j <= i - 1 THEN p[j] ELSE q[j - (i - 1)]
      BY <1>1, <1>2, <1>3, <1>4, <2>1
    <3>2. CASE j < i  BY <1>1, <1>2, <3>1, <3>2
    <3>3. CASE j >= i
      <4>1. j - (i - 1) \in 1 .. n - i /\ i + (j - (i - 1)) = j + 1  BY <1>1, <3>3
      <4>2. q[j - (i - 1)] = f[i + (j - (i - 1))]  BY <1>3, <4>1
      <4> QED  BY <1>1, <3>1, <3>3, <4>1, <4>2
    <3> QED  BY <1>1, <3>2, <3>3
  <2> QED  BY <1>4, <2>1, <2>2, <2>3
<1>6. Rising(g)
  <2> SUFFICES ASSUME NEW j \in 1 .. n - 1, NEW k \in 1 .. n - 1, j < k
               PROVE  g[j] < g[k]
    BY <1>5 DEF Rising
  <2> DEFINE a == IF j < i THEN j ELSE j + 1
             b == IF k < i THEN k ELSE k + 1
  <2>1. g[j] = f[a] /\ g[k] = f[b]  BY <1>5
  <2>2. a \in 1 .. n /\ b \in 1 .. n /\ a < b  BY <1>1
  <2> HIDE DEF a, b
  <2> QED  BY <2>1, <2>2 DEF Rising, n
<1>7. ASSUME NEW y \in In(g) PROVE y \in In(f) \ {f[i]}
  <2>1. PICK j \in 1 .. n - 1 : y = g[j]  BY <1>5 DEF In
  <2> DEFINE k == IF j < i THEN j ELSE j + 1
  <2>2. y = f[k] /\ k \in 1 .. n /\ k # i  BY <1>1, <1>5, <2>1
  <2> HIDE DEF k
  <2>3. f[k] # f[i]  BY <1>1, <2>2 DEF Rising, n
  <2> QED  BY <2>2, <2>3 DEF In, n
<1>8. ASSUME NEW y \in In(f) \ {f[i]} PROVE y \in In(g)
  <2>1. PICK k \in 1 .. n : y = f[k] /\ k # i  BY <1>8 DEF In, n
  <2>2. CASE k < i
    <3>1. k \in 1 .. n - 1 /\ g[k] = y  BY <1>1, <1>5, <2>1, <2>2
    <3> QED  BY <1>5, <3>1 DEF In
  <2>3. CASE k > i
    <3>1. k - 1 \in 1 .. n - 1 /\ ~ (k - 1 < i) /\ k - 1 + 1 = k  BY <1>1, <2>1, <2>3
    <3>2. g[k - 1] = y  BY <1>5, <2>1, <3>1
    <3> QED  BY <1>5, <3>1, <3>2 DEF In
  <2> QED  BY <1>1, <2>1, <2>2, <2>3
<1> QED  BY <1>5, <1>6, <1>7, <1>8 DEF g, n

(***************************************************************************)
(* Headers.                                                                *)
(***************************************************************************)
Ok(s) == Headers(s) /\ Fills(s)

\* Block a has grown by the block c that follows it: the blocks still fill the heap.
LEMMA GrownIs ==
  ASSUME NEW s, Ok(s), NEW a \in DOMAIN s, NEW c \in DOMAIN s, a + s[a] = c
  PROVE  /\ Ok(Grown(s, a, c))
         /\ DOMAIN Grown(s, a, c) = DOMAIN s \ {c}
         /\ Grown(s, a, c)[a] = s[a] + s[c]
         /\ \A x \in DOMAIN s \ {a, c} : Grown(s, a, c)[x] = s[x]
<1> DEFINE t == Grown(s, a, c)
<1>0. Units \in Nat \ {0}  BY HeapAssumption
<1>1. \A x \in DOMAIN s : x \in 0 .. Units - 1 /\ s[x] \in 1 .. Units
  BY DEF Ok, Headers, Addr
<1>2. a < c /\ a # c  BY <1>0, <1>1
<1>3. /\ DOMAIN t = DOMAIN s \ {c}
      /\ t[a] = s[a] + s[c]
      /\ \A x \in DOMAIN s \ {a, c} : t[x] = s[x]
  BY <1>2 DEF Grown
<1>4. /\ 0 \in DOMAIN s
      /\ \A b \in DOMAIN s : b + s[b] \in DOMAIN s \cup {Units}
      /\ \A x, y \in DOMAIN s : x < y => x + s[x] <= y
  BY DEF Ok, Fills
<1> HIDE DEF t
<1>5. a + t[a] = c + s[c]  BY <1>0, <1>1, <1>3
<1>6. c + s[c] \in DOMAIN t \cup {Units} /\ c + s[c] <= Units
  <2>1. c + s[c] # c  BY <1>0, <1>1
  <2> QED  BY <1>0, <1>1, <1>3, <1>4, <2>1
<1>7. Headers(t)
  <2>1. t[a] \in 1 .. Units  BY <1>0, <1>1, <1>3, <1>5, <1>6
  <2>2. DOMAIN t \subseteq Addr  BY <1>1, <1>3 DEF Addr
  <2> QED  BY <1>1, <1>3, <2>1, <2>2 DEF Headers
<1>8. 0 \in DOMAIN t  BY <1>0, <1>1, <1>2, <1>3, <1>4
<1>9. ASSUME NEW b \in DOMAIN t PROVE b + t[b] \in DOMAIN t \cup {Units}
  <2>1. CASE b = a  BY <1>5, <1>6, <2>1
  <2>2. CASE b # a
    <3>1. b \in DOMAIN s /\ b # c /\ t[b] = s[b]  BY <1>3, <2>2
    <3>2. b + s[b] # c  BY <1>0, <1>1, <1>4, <2>2, <3>1
    <3> QED  BY <1>3, <1>4, <3>1, <3>2
  <2> QED  BY <2>1, <2>2
<1>10. ASSUME NEW x \in DOMAIN t, NEW y \in DOMAIN t, x < y PROVE x + t[x] <= y
  <2>1. x \in DOMAIN s /\ y \in DOMAIN s /\ x # c /\ y # c  BY <1>3
  <2>2. CASE x = a
    <3>1. c < y  BY <1>0, <1>1, <1>4, <1>10, <2>1, <2>2
    <3> QED  BY <1>4, <1>5, <2>1, <2>2, <3>1
  <2>3. CASE x # a  BY <1>3, <1>4, <1>10, <2>1, <2>3
  <2> QED  BY <2>2, <2>3
<1> QED  BY <1>3, <1>7, <1>8, <1>9, <1>10 DEF Ok, Fills, t

\* Block b is cut after w units: the blocks still fill the heap.
LEMMA CutIs ==
  ASSUME Ok(size), NEW b \in DOMAIN size, NEW w \in Nat, 0 < w, w < size[b]
  PROVE  /\ Ok(Cut(b, w))
         /\ DOMAIN Cut(b, w) = DOMAIN size \cup {b + w}
         /\ b + w \notin DOMAIN size
         /\ Cut(b, w)[b] = w
         /\ \A x \in DOMAIN size \ {b} : Cut(b, w)[x] = size[x]
<1> DEFINE t == Cut(b, w)
           c == b + w
<1>0. Units \in Nat \ {0}  BY HeapAssumption
<1>1. \A x \in DOMAIN size : x \in 0 .. Units - 1 /\ size[x] \in 1 .. Units
  BY DEF Ok, Headers, Addr
<1>2. /\ 0 \in DOMAIN size
      /\ \A x \in DOMAIN size : x + size[x] \in DOMAIN size \cup {Units}
      /\ \A x, y \in DOMAIN size : x < y => x + size[x] <= y
  BY DEF Ok, Fills
<1>3. b < c /\ c < b + size[b] /\ c \in Nat  BY <1>0, <1>1
<1>4. c \notin DOMAIN size  BY <1>0, <1>1, <1>2, <1>3
<1>5. /\ DOMAIN t = DOMAIN size \cup {c}
      /\ t[b] = w
      /\ t[c] = size[b] - w
      /\ \A x \in DOMAIN size \ {b} : t[x] = size[x]
  BY <1>3, <1>4 DEF Cut
<1>6. b + size[b] \in DOMAIN size \cup {Units} /\ b + size[b] <= Units  BY <1>0, <1>1, <1>2
<1>7. b + t[b] = c /\ c + t[c] = b + size[b]  BY <1>0, <1>1, <1>5
<1> HIDE DEF t, c
<1>8. Headers(t)
  <2>1. c \in 0 .. Units - 1  BY <1>0, <1>1, <1>3, <1>6
  <2>2. t[b] \in 1 .. Units /\ t[c] \in 1 .. Units  BY <1>0, <1>1, <1>5
  <2>3. ASSUME NEW x \in DOMAIN t PROVE x \in 0 .. Units - 1 /\ t[x] \in 1 .. Units
    BY <1>1, <1>5, <2>1, <2>2
  <2> QED  BY <2>3 DEF Headers, Addr
<1>9. ASSUME NEW x \in DOMAIN t PROVE x + t[x] \in DOMAIN t \cup {Units}
  <2>1. CASE x = b  BY <1>5, <1>7, <2>1
  <2>2. CASE x = c  BY <1>5, <1>6, <1>7, <2>2
  <2>3. CASE x # b /\ x # c  BY <1>2, <1>5, <2>3
  <2> QED  BY <2>1, <2>2, <2>3
<1>10. ASSUME NEW x \in DOMAIN t, NEW y \in DOMAIN t, x < y PROVE x + t[x] <= y
  <2>1. CASE x = b /\ y = c  BY <1>3, <1>7, <2>1
  <2>2. CASE x = b /\ y # c
    <3>1. b + size[b] <= y  BY <1>2, <1>5, <1>10, <2>2
    <3>2. y \in Nat  BY <1>1, <1>5, <2>2
    <3> QED  BY <1>0, <1>1, <1>3, <1>7, <2>2, <3>1, <3>2
  <2>3. CASE x = c
    <3>1. y \in DOMAIN size /\ b < y  BY <1>0, <1>1, <1>3, <1>5, <1>10, <2>3
    <3> QED  BY <1>2, <1>7, <2>3, <3>1
  <2>4. CASE x # b /\ x # c
    <3>1. x \in DOMAIN size /\ t[x] = size[x]  BY <1>5, <2>4
    <3>2. CASE y # c  BY <1>2, <1>5, <1>10, <3>1, <3>2
    <3>3. CASE y = c
      <4>1. x < b  BY <1>0, <1>1, <1>2, <1>3, <1>10, <2>4, <3>1, <3>3
      <4>2. x + size[x] <= b  BY <1>2, <3>1, <4>1
      <4> QED  BY <1>0, <1>1, <1>3, <3>1, <3>3, <4>2
    <3> QED  BY <3>2, <3>3
  <2> QED  BY <2>1, <2>2, <2>3, <2>4
<1>11. 0 \in DOMAIN t  BY <1>2, <1>5
<1> QED  BY <1>4, <1>5, <1>8, <1>9, <1>10, <1>11 DEF Ok, Fills, t, c

(***************************************************************************)
(* The list is kept in order and its blocks apart.                         *)
(***************************************************************************)
\* The place that prvInsertBlockIntoFreeList looks for exists.
LEMMA PassedIs ==
  ASSUME NEW S, S \subseteq Int, NEW f \in Seq(S), Rising(f), NEW b \in S, b \notin In(f)
  PROVE  /\ Passed(f, b) \in 0 .. Len(f)
         /\ \A j \in 1 .. Passed(f, b) : f[j] < b
         /\ \A j \in Passed(f, b) + 1 .. Len(f) : b < f[j]
<1> DEFINE n == Len(f)
           P(i) == /\ \A j \in 1 .. i : f[j] < b
                   /\ i < Len(f) => f[i + 1] >= b
           T == {i \in 0 .. n : i < n => f[i + 1] >= b}
<1>1. n \in Nat  BY LenProperties
<1>2. \A j \in 1 .. n : f[j] \in Int /\ f[j] # b /\ b \in Int  BY ElementOfSeq DEF In
<1>3. n \in T /\ T \in SUBSET Nat  BY <1>1
<1>4. PICK i \in T : \A j \in T : i <= j
  <2> HIDE DEF T
  <2> QED  BY <1>3, LeastNatural
<1>5. ASSUME NEW j \in 1 .. i PROVE f[j] < b
  <2>1. j - 1 \in 0 .. n /\ j \in 1 .. n /\ j - 1 < n /\ j - 1 + 1 = j /\ ~ (i <= j - 1)
    BY <1>1
  <2>2. j - 1 \notin T  BY <1>4, <2>1
  <2>3. ~ (f[j] >= b)  BY <2>1, <2>2
  <2> QED  BY <1>2, <2>1, <2>3
<1>6. P(i) /\ i \in 0 .. Len(f)  BY <1>5
<1>7. Passed(f, b) \in 0 .. Len(f) /\ P(Passed(f, b))
  <2>1. Passed(f, b) = CHOOSE k \in 0 .. Len(f) : P(k)  BY DEF Passed
  <2> HIDE DEF P
  <2> QED  BY <1>6, <2>1
<1> DEFINE k == Passed(f, b)
<1> HIDE DEF k
<1>8. k \in 0 .. n /\ (\A j \in 1 .. k : f[j] < b) /\ (k < n => f[k + 1] >= b)
  BY <1>7 DEF k
<1>9. ASSUME NEW j \in k + 1 .. n PROVE b < f[j]
  <2>1. k < n /\ k + 1 \in 1 .. n /\ j \in 1 .. n  BY <1>1, <1>8
  <2>2. b < f[k + 1]  BY <1>2, <1>8, <2>1
  <2>3. CASE j = k + 1  BY <2>2, <2>3
  <2>4. CASE j # k + 1
    <3>1. k + 1 < j  BY <1>1, <1>8, <2>4
    <3>2. f[k + 1] < f[j]  BY <2>1, <3>1 DEF Rising
    <3> QED  BY <1>2, <2>1, <2>2, <3>2
  <2> QED  BY <2>3, <2>4
<1> QED  BY <1>8, <1>9 DEF k

\* prvInsertBlockIntoFreeList: a block that was in use is in the list, alone or as a part
\* of its neighbours, and nothing else has changed.
LEMMA InsertIs ==
  ASSUME NEW f, NEW s, NEW B, NEW b, b \notin B, Shape(f, s, B \cup {b})
  PROVE  /\ Shape(Insert(f, s, b).free, Insert(f, s, b).size, B)
         /\ \A x \in B : Insert(f, s, b).size[x] = s[x]
<1> DEFINE D == DOMAIN s
           n == Len(f)
           i == Passed(f, b)
           before == Touches(f, s, i, b)
           b1 == IF before THEN f[i] ELSE b
           s1 == IF before THEN Grown(s, f[i], b) ELSE s
           after == i < Len(f) /\ b1 + s1[b1] = f[i + 1]
           s2 == IF after THEN Grown(s1, b1, f[i + 1]) ELSE s1
           m == IF before THEN i - 1 ELSE i
           l == IF after THEN i + 1 ELSE i
           g == Spliced(f, m, b1, l)
<1>0. Units \in Nat \ {0}  BY HeapAssumption
<1>1. /\ Ok(s) /\ D \subseteq Int
      /\ f \in Seq(D) /\ Rising(f) /\ Apart(f, s)
      /\ D = In(f) \cup B \cup {b}
      /\ In(f) \cap B = {} /\ b \notin In(f) /\ b \in D
  BY <1>0 DEF Shape, Ok, Headers, Addr
<1>2. n \in Nat /\ \A j \in 1 .. n : f[j] \in In(f) /\ f[j] \in D
  BY <1>1, LenProperties, ElementOfSeq DEF In
<1>3. /\ i \in 0 .. n
      /\ \A j \in 1 .. i : f[j] < b
      /\ \A j \in i + 1 .. n : b < f[j]
  BY <1>1, PassedIs
<1>4. Insert(f, s, b).size = s2 /\ Insert(f, s, b).free = g
  <2> DEFINE r == IF after THEN i + 2 ELSE i + 1
  <2> DEFINE list == SubSeq(f, 1, m) \o <<b1>> \o SubSeq(f, r, Len(f))
  <2>1. Insert(f, s, b) = [free |-> list, size |-> s2]
    BY DEF Insert
  <2> HIDE DEF i, before, b1, after, s2, m
  <2>2. r = l + 1  BY <1>3
  <2> HIDE DEF r, l
  <2>3. list = g  BY <2>2 DEF Spliced
  <2> HIDE DEF list, g
  <2> QED  BY <2>1, <2>3
<1>5. before <=> i > 0 /\ f[i] + s[f[i]] = b  BY DEF Touches
<1> HIDE DEF D, n, i, before
<1>6. \A x \in D : x \in 0 .. Units - 1 /\ s[x] \in 1 .. Units
  BY <1>1 DEF Ok, Headers, Addr, D
<1>7. \A x, y \in D : x < y => x + s[x] <= y
  BY <1>1 DEF Ok, Fills, D
\* After the first join
<1>8. /\ Ok(s1) /\ b1 \in DOMAIN s1 /\ b1 \in D
      /\ DOMAIN s1 = IF before THEN D \ {b} ELSE D
      /\ b1 + s1[b1] = b + s[b]
      /\ \A x \in DOMAIN s1 \ {b1} : s1[x] = s[x]
  <2>1. CASE before
    <3>1. i \in 1 .. n /\ f[i] \in D /\ f[i] # b  BY <1>1, <1>2, <1>3, <1>5, <2>1
    <3> DEFINE a == f[i]
               t == Grown(s, a, b)
    <3>2. a + s[a] = b  BY <1>5, <2>1
    <3> HIDE DEF a
    <3>3. a \in D /\ a # b  BY <3>1 DEF a
    <3>4. /\ Ok(t) /\ DOMAIN t = D \ {b} /\ t[a] = s[a] + s[b]
          /\ \A x \in D \ {a, b} : t[x] = s[x]
      <4>1. a \in DOMAIN s /\ b \in DOMAIN s /\ Ok(s)  BY <1>1, <3>3 DEF D
      <4>2. /\ Ok(Grown(s, a, b)) /\ DOMAIN Grown(s, a, b) = DOMAIN s \ {b}
            /\ Grown(s, a, b)[a] = s[a] + s[b]
            /\ \A x \in DOMAIN s \ {a, b} : Grown(s, a, b)[x] = s[x]
        BY <3>2, <4>1, GrownIs
      <4> QED  BY <4>2 DEF D
    <3> HIDE DEF t
    <3>5. a + t[a] = b + s[b]  BY <1>1, <1>6, <3>2, <3>3, <3>4
    <3>6. b1 = a /\ s1 = t  BY <2>1 DEF a, t
    <3> HIDE DEF b1, s1
    <3> QED  BY <2>1, <3>3, <3>4, <3>5, <3>6
  <2>2. CASE ~before
    <3>1. b1 = b /\ s1 = s  BY <2>2
    <3> HIDE DEF b1, s1
    <3> QED  BY <1>1, <2>2, <3>1 DEF D
  <2> QED  BY <2>1, <2>2
<1>9. before => i \in 1 .. n /\ b1 = f[i] /\ f[i] < b  BY <1>2, <1>3, <1>5
<1>10. ~before => b1 = b  OBVIOUS
<1> HIDE DEF b1, s1
\* After the second
<1>11. /\ Ok(s2) /\ b1 \in DOMAIN s2
       /\ DOMAIN s2 = IF after THEN DOMAIN s1 \ {f[i + 1]} ELSE DOMAIN s1
       /\ \A x \in DOMAIN s2 \ {b1} : s2[x] = s[x]
       /\ b1 + s2[b1] = IF after THEN f[i + 1] + s[f[i + 1]] ELSE b + s[b]
  <2>1. CASE after
    <3> DEFINE c == f[i + 1]
               t == Grown(s1, b1, c)
    <3>1. i + 1 \in i + 1 .. n /\ i + 1 \in 1 .. n  BY <1>2, <1>3, <2>1 DEF n
    <3>2. c \in D /\ b < c /\ b1 + s1[b1] = c  BY <1>2, <1>3, <2>1, <3>1
    <3> HIDE DEF c
    <3>3. c \in DOMAIN s1 /\ c # b1
      BY <1>1, <1>2, <1>6, <1>8, <1>9, <1>10, <3>2
    <3>4. /\ Ok(t) /\ DOMAIN t = DOMAIN s1 \ {c} /\ t[b1] = s1[b1] + s1[c]
          /\ \A x \in DOMAIN s1 \ {b1, c} : t[x] = s1[x]
      BY <1>8, <3>2, <3>3, GrownIs
    <3> HIDE DEF t
    <3>5. s1[c] = s[c]  BY <1>8, <3>3
    <3>6. s1[b1] \in Int /\ s[c] \in Int /\ b1 \in Int
      BY <1>0, <1>6, <1>8, <3>2 DEF Ok, Headers
    <3>7. b1 + t[b1] = c + s[c]  BY <3>2, <3>4, <3>5, <3>6
    <3>8. s2 = t  BY <2>1 DEF c, t
    <3> HIDE DEF s2
    <3>9. f[i + 1] = c  BY DEF c
    <3>10. \A x \in DOMAIN s2 \ {b1} : s2[x] = s[x]  BY <1>8, <3>4, <3>8
    <3>11. b1 \in DOMAIN s2  BY <1>8, <3>3, <3>4, <3>8
    <3> QED  BY <2>1, <3>4, <3>7, <3>8, <3>9, <3>10, <3>11
  <2>2. CASE ~after
    <3>1. s2 = s1  BY <2>2
    <3> HIDE DEF s2
    <3> QED  BY <1>8, <2>2, <3>1
  <2> QED  BY <2>1, <2>2
<1>12. after => i + 1 \in 1 .. n  BY <1>2, <1>3 DEF n
<1>13. after <=> (i < n /\ b + s[b] = f[i + 1])  BY <1>8 DEF n
<1> HIDE DEF s2, after
\* The list
<1>14. Place(f, m, b1, l)
  <2>1. CASE before
    <3>1. /\ i \in 1 .. n /\ b1 = f[i] /\ m = i - 1 /\ f[i] < b /\ b \in Int
          /\ \A j \in 1 .. n : f[j] \in Int
      BY <1>1, <1>2, <1>9, <2>1
    <3>2. \A j \in 1 .. i - 1 : f[j] < f[i]  BY <1>1, <1>2, <3>1 DEF Rising, n
    <3>3. \A j \in i + 1 .. n : f[i] < f[j]  BY <1>1, <1>2, <3>1 DEF Rising, n
    <3> QED  BY <1>2, <1>12, <3>1, <3>2, <3>3 DEF n, Place
  <2>2. CASE ~before  BY <1>2, <1>3, <1>10, <1>12, <2>2 DEF n, Place
  <2> QED  BY <2>1, <2>2
<1>15. g \in Seq(D) /\ Rising(g) /\ Replaced(f, m, b1, l, g)
  <2> HIDE DEF m, l
  <2>1. b1 \in D /\ D \subseteq Int /\ f \in Seq(D) /\ Rising(f)  BY <1>1, <1>8
  <2> QED  BY <1>14, <2>1, SpliceRises
<1> HIDE DEF g
<1>16. \A j, k \in 1 .. n : j < k => f[j] < f[k]  BY <1>1 DEF Rising, n
<1>17. /\ \A x \in In(f) : \E k \in 1 .. n : x = f[k]
       /\ b \in Int /\ \A k \in 1 .. n : f[k] \in Int
       /\ DOMAIN s2 \subseteq DOMAIN s1
  BY <1>1, <1>2, <1>11 DEF In, n
<1>18. In(g) = (In(f) \cup {b}) \cap DOMAIN s2
  <2>1. ASSUME NEW y \in In(g) PROVE y \in (In(f) \cup {b}) \cap DOMAIN s2
    <3>1. CASE y = b1  BY <1>2, <1>9, <1>10, <1>11, <3>1
    <3>2. CASE y # b1
      <4>1. PICK j \in (1 .. m) \cup (l + 1 .. n) : y = f[j]
        BY <1>15, <2>1, <3>2 DEF Replaced, n
      <4>2. j \in 1 .. n /\ (after => j # i + 1)
        BY <1>2, <1>3, <1>9, <1>12, <4>1
      <4>3. y \in In(f) /\ y \in D /\ y # b  BY <1>1, <1>2, <4>1, <4>2
      <4>4. after => y # f[i + 1]  BY <1>12, <1>16, <1>17, <4>1, <4>2
      <4> QED  BY <1>8, <1>11, <4>3, <4>4
    <3> QED  BY <3>1, <3>2
  <2>2. ASSUME NEW y \in (In(f) \cup {b}) \cap DOMAIN s2 PROVE y \in In(g)
    <3>1. b1 \in In(g)  BY <1>15 DEF Replaced
    <3>2. CASE y = b  BY <1>8, <1>10, <1>17, <2>2, <3>1, <3>2
    <3>3. CASE y # b
      <4>1. PICK k \in 1 .. n : y = f[k]  BY <1>17, <2>2, <3>3
      <4>2. CASE k \in (1 .. m) \cup (l + 1 .. n)  BY <1>15, <4>1, <4>2 DEF Replaced, n
      <4>3. CASE before /\ k = i  BY <1>9, <3>1, <4>1, <4>3
      <4>4. CASE after /\ k = i + 1  BY <1>11, <2>2, <4>1, <4>4
      <4> QED  BY <1>2, <1>3, <4>2, <4>3, <4>4
    <3> QED  BY <3>2, <3>3
  <2> QED  BY <2>1, <2>2
<1> HIDE DEF m, l
<1>19. ASSUME NEW y \in In(g), y + s2[y] \in In(g) PROVE FALSE
  <2> DEFINE z == y + s2[y]
  <2>1. z \in In(f) \cup {b}  BY <1>18, <1>19
  <2>2. CASE y = b1 /\ after
    <3> DEFINE c == f[i + 1]
    <3>1. z = c + s[c]  BY <1>11, <2>2
    <3>2. c \in In(f) /\ c \in D /\ b < c  BY <1>2, <1>3, <1>12, <2>2
    <3>3. z \notin In(f)  BY <1>1, <3>1, <3>2 DEF Apart
    <3>4. b < c + s[c]
      <4> HIDE DEF c
      <4> QED  BY <1>0, <1>6, <1>17, <3>2
    <3> QED  BY <1>17, <2>1, <3>1, <3>3, <3>4
  <2>3. CASE y = b1 /\ ~after
    <3>1. z = b + s[b]  BY <1>11, <2>3
    <3>2. z # b /\ b < z  BY <1>0, <1>1, <1>6, <3>1
    <3>3. PICK k \in 1 .. n : z = f[k]  BY <1>17, <2>1, <3>2
    <3>4. i < n /\ i + 1 \in 1 .. n /\ i + 1 < k
      <4>1. ~ (k <= i)  BY <1>2, <1>3, <1>17, <3>2, <3>3
      <4>2. k # i + 1  BY <1>2, <1>3, <1>13, <2>3, <3>1, <3>3, <4>1
      <4> QED  BY <1>2, <1>3, <4>1, <4>2
    <3>5. b < f[i + 1] /\ f[i + 1] < f[k] /\ f[i + 1] \in D
      BY <1>2, <1>3, <1>16, <3>4
    <3>6. b + s[b] <= f[i + 1]  BY <1>1, <1>7, <3>5
    <3> QED  BY <1>17, <3>1, <3>3, <3>4, <3>5, <3>6
  <2>4. CASE y # b1
    <3>1. y \in In(f) /\ y \in D /\ y # b /\ s2[y] = s[y] /\ y \in DOMAIN s2
      BY <1>1, <1>8, <1>10, <1>11, <1>17, <1>18, <2>4
    <3>2. z = b  BY <1>1, <2>1, <3>1 DEF Apart
    <3>3. ~before  BY <1>8, <1>17, <1>18, <1>19, <3>2
    <3>4. PICK k \in 1 .. n : y = f[k]  BY <1>17, <3>1
    <3>5. y < b  BY <1>0, <1>6, <1>17, <3>1, <3>2
    <3>6. k <= i /\ i \in 1 .. n
      <4>1. ~ (k >= i + 1)  BY <1>2, <1>3, <1>17, <3>4, <3>5
      <4> QED  BY <1>2, <1>3, <4>1
    <3>7. k # i  BY <1>2, <1>5, <3>1, <3>2, <3>3, <3>4, <3>6
    <3>8. f[k] < f[i] /\ f[i] \in D /\ f[i] < b  BY <1>2, <1>3, <1>16, <3>6, <3>7
    <3>9. y + s[y] <= f[i]  BY <1>7, <3>1, <3>4, <3>8
    <3> QED  BY <1>17, <3>1, <3>2, <3>6, <3>8, <3>9
  <2> QED  BY <2>2, <2>3, <2>4
<1>20. B \subseteq DOMAIN s2
  BY <1>1, <1>2, <1>8, <1>11, <1>12
<1>21. g \in Seq(DOMAIN s2)  BY <1>15, <1>18, SeqOfIn
<1>22. DOMAIN s2 = In(g) \cup B /\ In(g) \cap B = {}
  BY <1>1, <1>8, <1>17, <1>18, <1>20
<1>23. Shape(g, s2, B)
  BY <1>11, <1>15, <1>19, <1>21, <1>22 DEF Shape, Ok, Apart
<1>24. \A x \in B : s2[x] = s[x]
  <2>1. b1 \notin B  BY <1>1, <1>2, <1>9, <1>10
  <2> QED  BY <1>11, <1>20, <2>1
<1> QED  BY <1>4, <1>23, <1>24

(***************************************************************************)
(* The invariant.                                                          *)
(***************************************************************************)
Answers == [asked : Requests \cup {0}, got : Addr \cup {None}]

Distinct(f) == \A i, j \in 1 .. Len(f) : i # j => f[i] # f[j]

\* What is to be shown of a state: its shape, and that the calls of vPortFree under way
\* are about different blocks that are no longer allocated.
LEMMA WholeIs ==
  HeapWhole <=> /\ Shape(free, size, marked \cup Going)
                /\ marked \cap Going = {}
                /\ going \in Seq(DOMAIN size) /\ Distinct(going)
                /\ remain \in Int
                /\ answer \in Answers
<1>1. FreeBlocks = In(free) /\ Going = In(going)  BY DEF FreeBlocks, In, Going
<1> QED
  BY <1>1 DEF HeapWhole, TypeOK, Tiled, Listed, Joined, Shape, Headers, Fills, Rising,
              Apart, Distinct, Answers

\* pvPortMalloc: the block that is taken is in use, what it leaves is in the list.
LEMMA CarveIs ==
  ASSUME HeapWhole, NEW n \in Requests, Served(n), NEW i \in Fitting(Wanted(n)), Carve(n, i)
  PROVE  /\ Shape(free', size', (marked \cup Going) \cup {free[i]})
         /\ free[i] \notin marked \cup Going
         /\ free[i] \in DOMAIN size'
         /\ \A x \in marked \cup Going : size'[x] = size[x]
         /\ size'[free[i]] >= Wanted(n)
         /\ remain' = remain - size'[free[i]] /\ remain' \in Int
         /\ answer' = [asked |-> n, got |-> free[i] + Header] /\ answer' \in Answers
<1> DEFINE w == Wanted(n)
           b == free[i]
           B == marked \cup Going
           rest == Without(free, i)
           list == IF Splits(b, w) THEN Insert(rest, Cut(b, w), b + w)
                                   ELSE [free |-> rest, size |-> size]
<1>0. Units \in Nat \ {0} /\ Requests \subseteq Nat  BY HeapAssumption
<1>1. Shape(free, size, B) /\ remain \in Int  BY WholeIs
<1>2. w \in Nat /\ w >= 2
  BY <1>0 DEF Served, Wanted, Header, UnitSize
<1>3. i \in 1 .. Len(free) /\ size[b] >= w  BY DEF Fitting
<1>4. /\ free' = list.free /\ size' = list.size
      /\ remain' = remain - list.size[b]
      /\ answer' = [asked |-> n, got |-> b + Header]
  BY DEF Carve
<1>5. /\ DOMAIN size \subseteq Int /\ free \in Seq(DOMAIN size) /\ Rising(free)
      /\ Apart(free, size) /\ Ok(size)
      /\ DOMAIN size = In(free) \cup B /\ In(free) \cap B = {}
  BY <1>0, <1>1 DEF Shape, Ok, Headers, Addr
<1>6. b \in In(free) /\ b \in DOMAIN size /\ b \notin B  BY <1>3, <1>5 DEF In
<1>7. /\ rest \in Seq(DOMAIN size) /\ Rising(rest) /\ In(rest) = In(free) \ {b}
  BY <1>3, <1>5, WithoutIs
<1> HIDE DEF w, b, B, rest
<1>8. /\ Shape(list.free, list.size, B \cup {b})
      /\ \A x \in B : list.size[x] = size[x]
      /\ list.size[b] >= w
  <2>1. CASE ~Splits(b, w)
    <3>1. list.free = rest /\ list.size = size  BY <2>1
    <3>2. Shape(rest, size, B \cup {b})
      <4>1. DOMAIN size = In(rest) \cup (B \cup {b}) /\ In(rest) \cap (B \cup {b}) = {}
        BY <1>5, <1>6, <1>7
      <4>2. Apart(rest, size)  BY <1>5, <1>7 DEF Apart
      <4> QED  BY <1>1, <1>7, <4>1, <4>2 DEF Shape
    <3> HIDE DEF list
    <3> QED  BY <1>3, <3>1, <3>2 DEF b, w
  <2>2. CASE Splits(b, w)
    <3> DEFINE c == b + w
               t == Cut(b, w)
    <3>1. list = Insert(rest, t, c)  BY <2>2
    <3> HIDE DEF list
    <3>2. size[b] \in Nat  BY <1>0, <1>5, <1>6 DEF Ok, Headers
    <3>3. 0 < w /\ w < size[b]  BY <1>2, <2>2, <3>2 DEF Splits, MinBlock
    <3>4. /\ Ok(t) /\ DOMAIN t = DOMAIN size \cup {c} /\ c \notin DOMAIN size
          /\ t[b] = w
          /\ \A x \in DOMAIN size \ {b} : t[x] = size[x]
      <4> HIDE DEF c, t
      <4>1. Ok(size) /\ b \in DOMAIN size /\ w \in Nat /\ 0 < w /\ w < size[b]
        BY <1>2, <1>5, <1>6, <3>3
      <4>2. /\ Ok(Cut(b, w)) /\ DOMAIN Cut(b, w) = DOMAIN size \cup {b + w}
            /\ b + w \notin DOMAIN size
            /\ Cut(b, w)[b] = w
            /\ \A x \in DOMAIN size \ {b} : Cut(b, w)[x] = size[x]
        BY <4>1, CutIs
      <4> QED  BY <4>2 DEF c, t
    <3> HIDE DEF c, t
    <3>5. Apart(rest, t)  BY <1>5, <1>7, <3>4 DEF Apart
    <3>6. rest \in Seq(DOMAIN t)  BY <1>7, <3>4, SeqMonotonic
    <3>7. /\ DOMAIN t = In(rest) \cup ((B \cup {b}) \cup {c})
          /\ In(rest) \cap ((B \cup {b}) \cup {c}) = {}
          /\ c \notin B \cup {b}
      BY <1>5, <1>6, <1>7, <3>4
    <3>8. Shape(rest, t, (B \cup {b}) \cup {c})
      BY <1>7, <3>4, <3>5, <3>6, <3>7 DEF Shape, Ok
    <3>9. /\ Shape(list.free, list.size, B \cup {b})
          /\ \A x \in B \cup {b} : list.size[x] = t[x]
      BY <3>1, <3>7, <3>8, InsertIs
    <3>10. \A x \in B : x \in DOMAIN size \ {b}  BY <1>5, <1>6
    <3> QED  BY <1>2, <3>4, <3>9, <3>10
  <2> QED  BY <2>1, <2>2
<1> HIDE DEF list
<1>9. Shape(free', size', B \cup {b})  BY <1>4, <1>8
<1>10. b \in DOMAIN size' /\ B \subseteq DOMAIN size' /\ size'[b] \in 1 .. Units
  BY <1>9 DEF Shape, Headers
<1>11. remain' \in Int  BY <1>0, <1>1, <1>4, <1>10
<1>12. answer' \in Answers
  <2>1. b \in 0 .. Units - 1 /\ size[b] \in 1 .. Units /\ size[b] >= 2
    BY <1>0, <1>2, <1>3, <1>5, <1>6 DEF Ok, Headers, Addr, b, w
  <2>2. b + size[b] <= Units
    BY <1>0, <1>5, <1>6, <2>1 DEF Ok, Fills, Headers, Addr
  <2>3. b + Header \in Addr  BY <1>0, <2>1, <2>2 DEF Header, Addr
  <2> QED  BY <1>4, <2>3 DEF Answers
<1> QED
  BY <1>4, <1>6, <1>8, <1>9, <1>10, <1>11, <1>12 DEF b, w, B

\* The list of calls under way, when a call has begun
LEMMA GoingLonger ==
  ASSUME HeapWhole, NEW a \in marked, going' = Append(going, a)
  PROVE  /\ Going' = Going \cup {a}
         /\ Distinct(going')
         /\ going' \in Seq(DOMAIN size)
<1> DEFINE n == Len(going)
<1>1. /\ going \in Seq(DOMAIN size) /\ a \in DOMAIN size
      /\ marked \cap In(going) = {} /\ Distinct(going)
  BY WholeIs DEF HeapWhole, TypeOK, Going, In
<1>2. n \in Nat  BY <1>1, LenProperties
<1>3. /\ going' \in Seq(DOMAIN size) /\ Len(going') = n + 1
      /\ \A j \in 1 .. n + 1 : going'[j] = IF j = n + 1 THEN a ELSE going[j]
  BY <1>1, <1>2
<1>4. \A j \in 1 .. n : going[j] # a  BY <1>1 DEF In
<1> HIDE DEF n
<1>5. Distinct(going')
  BY <1>1, <1>2, <1>3, <1>4 DEF Distinct, n
<1>6. Going' = Going \cup {a}
  <2>1. \A x \in Going' : x \in Going \cup {a}  BY <1>2, <1>3 DEF Going, n
  <2>2. a \in Going'
    <3>1. n + 1 \in 1 .. n + 1 /\ going'[n + 1] = a  BY <1>2, <1>3
    <3> QED  BY <1>3, <3>1 DEF Going
  <2>3. \A x \in Going : x \in Going'
    <3> TAKE x \in Going
    <3>1. PICK j \in 1 .. n : x = going[j]  BY DEF Going, n
    <3>2. j \in 1 .. n + 1 /\ going'[j] = x  BY <1>2, <1>3, <3>1
    <3> QED  BY <1>3, <3>2 DEF Going
  <2> QED  BY <2>1, <2>2, <2>3
<1> QED  BY <1>3, <1>5, <1>6

\* and when the last call has finished
LEMMA GoingShorter ==
  ASSUME HeapWhole, going # <<>>, going' = SubSeq(going, 1, Len(going) - 1)
  PROVE  /\ going[Len(going)] \in Going
         /\ Going' = Going \ {going[Len(going)]}
         /\ Distinct(going')
         /\ going' \in Seq(DOMAIN size)
<1> DEFINE n == Len(going)
           a == going[n]
<1>1. going \in Seq(DOMAIN size) /\ Distinct(going)  BY WholeIs
<1>2. n \in Nat /\ n > 0 /\ \A j \in 1 .. n : going[j] \in DOMAIN size
  BY <1>1, LenProperties, EmptySeq, ElementOfSeq
<1>3. /\ going' \in Seq(DOMAIN size) /\ Len(going') = n - 1
      /\ \A j \in 1 .. n - 1 : going'[j] = going[j]
  <2>1. \A j \in 1 .. n - 1 : going[j] \in DOMAIN size  BY <1>2
  <2>2. /\ going' \in Seq(DOMAIN size)
        /\ Len(going') = IF 1 <= n - 1 THEN n - 1 - 1 + 1 ELSE 0
        /\ \A j \in 1 .. n - 1 - 1 + 1 : going'[j] = going[1 + j - 1]
    BY <1>2, <2>1, SubSeqProperties
  <2> HIDE DEF n
  <2> QED  BY <1>2, <2>2
<1> HIDE DEF n
<1>4. Distinct(going')  BY <1>1, <1>2, <1>3 DEF Distinct, n
<1>5. a \in Going  BY <1>2 DEF Going, n
<1>6. Going' = Going \ {a}
  <2>1. ASSUME NEW x \in Going' PROVE x \in Going \ {a}
    <3>1. PICK j \in 1 .. n - 1 : x = going'[j]  BY <1>3, <2>1 DEF Going
    <3>2. j \in 1 .. n /\ n \in 1 .. n /\ j # n /\ x = going[j]  BY <1>2, <1>3, <3>1
    <3>3. x # a  BY <1>1, <3>2 DEF Distinct, n
    <3> QED  BY <3>2, <3>3 DEF Going, n
  <2>2. ASSUME NEW x \in Going \ {a} PROVE x \in Going'
    <3>1. PICK j \in 1 .. n : x = going[j]  BY <2>2 DEF Going, n
    <3>2. j \in 1 .. n - 1  BY <1>2, <2>2, <3>1
    <3>3. going'[j] = x  BY <1>3, <3>1, <3>2
    <3> QED  BY <1>3, <3>2, <3>3 DEF Going
  <2> QED  BY <2>1, <2>2
<1> QED  BY <1>3, <1>4, <1>5, <1>6 DEF a, n

\* What a state must be for the invariant to hold in it, said of the next state.
LEMMA WholeNext ==
  ASSUME Shape(free', size', marked' \cup Going'), marked' \cap Going' = {},
         going' \in Seq(DOMAIN size'), Distinct(going'),
         remain' \in Int, answer' \in Answers
  PROVE  HeapWhole'
<1>1. FreeBlocks' = In(free') /\ Going' = In(going')  BY DEF FreeBlocks, In, Going
<1> QED
  BY <1>1 DEF HeapWhole, TypeOK, Tiled, Listed, Joined, Shape, Headers, Fills, Rising,
              Apart, Distinct, Answers

\* prvHeapInit leaves one free block, the whole heap.
LEMMA InitWhole == Init => HeapWhole
<1> SUFFICES ASSUME Init PROVE HeapWhole  OBVIOUS
<1>0. Units \in Nat \ {0}  BY HeapAssumption
<1>1. /\ free = <<0>> /\ size = [a \in {0} |-> Units] /\ marked = {} /\ going = <<>>
      /\ remain = Units /\ answer = [asked |-> 0, got |-> None]
  BY DEF Init
<1>2. DOMAIN size = {0} /\ size[0] = Units  BY <1>1
<1>3. Going = {} /\ going \in Seq(DOMAIN size) /\ Distinct(going)
  BY <1>1 DEF Going, Distinct
<1>4. free \in Seq(DOMAIN size) /\ Len(free) = 1 /\ free[1] = 0  BY <1>1, <1>2
<1>5. In(free) = {0}  BY <1>4 DEF In
<1>6. Headers(size) /\ Fills(size)  BY <1>0, <1>2 DEF Headers, Fills, Addr
<1>7. Rising(free) /\ Apart(free, size)
  BY <1>0, <1>2, <1>4, <1>5 DEF Rising, Apart
<1>8. Shape(free, size, marked \cup Going)
  BY <1>1, <1>2, <1>3, <1>4, <1>5, <1>6, <1>7 DEF Shape
<1>9. answer \in Answers  BY <1>1 DEF Answers
<1> QED  BY <1>0, <1>1, <1>3, <1>8, <1>9, WholeIs

\* A request that is refused changes only the answer.
LEMMA RefusedWhole ==
  ASSUME HeapWhole, NEW n \in Requests, Refused(n)
  PROVE  HeapWhole'
<1>1. answer' \in Answers  BY DEF Refused, Answers
<1> QED
  BY <1>1, WholeIs, WholeNext DEF Refused, Going

\* The place that pvPortMalloc takes is one that is large enough.
LEMMA FirstFit ==
  ASSUME HeapWhole, NEW n \in Requests, Served(n)
  PROVE  Min(Fitting(Wanted(n))) \in Fitting(Wanted(n))
<1> DEFINE F == Fitting(Wanted(n))
<1>1. F # {} /\ F \in SUBSET Nat
  <2>1. F \subseteq 1 .. Len(free)  BY DEF Fitting
  <2>2. F # {}  BY DEF Served
  <2> QED  BY <2>1, <2>2
<1> HIDE DEF F
<1>2. \E x \in F : \A y \in F : x <= y  BY <1>1, LeastNatural
<1>3. Min(F) \in F  BY <1>2 DEF Min
<1> QED  BY <1>3 DEF F

\* pvPortMalloc keeps the heap whole, whether the block is split or not.
LEMMA MallocWhole ==
  ASSUME HeapWhole, NEW n \in Requests, Malloc(n)
  PROVE  HeapWhole'
<1>1. CASE ~Served(n)  BY <1>1, RefusedWhole DEF Malloc
<1>2. CASE Served(n)
  <2> DEFINE i == Min(Fitting(Wanted(n)))
  <2>1. i \in Fitting(Wanted(n))  BY <1>2, FirstFit
  <2>2. CASE Refused(n)  BY <2>2, RefusedWhole
  <2>3. CASE Carve(n, i) /\ marked' = marked \cup {free[i]} /\ going' = going
    <3> HIDE DEF i
    <3>1. /\ Shape(free', size', (marked \cup Going) \cup {free[i]})
          /\ free[i] \notin marked \cup Going
          /\ remain' \in Int /\ answer' \in Answers
      BY <1>2, <2>1, <2>3, CarveIs
    <3>2. Going' = Going  BY <2>3 DEF Going
    <3>3. /\ marked \cap Going = {} /\ Distinct(going) /\ going \in Seq(DOMAIN size)
      BY WholeIs
    <3>4. marked' \cup Going' = (marked \cup Going) \cup {free[i]} /\ marked' \cap Going' = {}
      BY <2>3, <3>1, <3>2, <3>3
    <3>5. In(going) \subseteq DOMAIN size'  BY <3>1 DEF Shape, Going, In
    <3>6. going' \in Seq(DOMAIN size')  BY <2>3, <3>3, <3>5, SeqOfIn
    <3> QED  BY <2>3, <3>1, <3>3, <3>4, <3>6, WholeNext
  <2> QED  BY <1>2, <2>2, <2>3 DEF Malloc
<1> QED  BY <1>1, <1>2

\* So does the first half of vPortFree: the block is in use until the second.
LEMMA UnmarkWhole ==
  ASSUME HeapWhole, NEW a \in marked, Unmark(a)
  PROVE  HeapWhole'
<1>1. /\ Shape(free, size, marked \cup Going) /\ marked \cap Going = {}
      /\ remain \in Int /\ answer \in Answers
  BY WholeIs
<1>2. /\ marked' = marked \ {a} /\ going' = Append(going, a)
      /\ free' = free /\ size' = size /\ remain' = remain /\ answer' = answer
  BY DEF Unmark
<1>3. Going' = Going \cup {a} /\ Distinct(going') /\ going' \in Seq(DOMAIN size)
  BY <1>2, GoingLonger
<1>4. marked' \cup Going' = marked \cup Going /\ marked' \cap Going' = {}
  BY <1>1, <1>2, <1>3
<1> QED  BY <1>1, <1>2, <1>3, <1>4, WholeNext

\* The second half puts the block of the last call back, whatever came in between.
LEMMA ReleaseWhole ==
  ASSUME HeapWhole, Release
  PROVE  HeapWhole'
<1> DEFINE a == going[Len(going)]
           list == Insert(free, size, a)
           B == marked \cup (Going \ {a})
<1>0. Units \in Nat \ {0}  BY HeapAssumption
<1>1. /\ Shape(free, size, marked \cup Going) /\ marked \cap Going = {}
      /\ remain \in Int /\ answer \in Answers
  BY WholeIs
<1>2. /\ going # <<>> /\ going' = SubSeq(going, 1, Len(going) - 1)
      /\ remain' = remain + size[a] /\ free' = list.free /\ size' = list.size
      /\ marked' = marked /\ answer' = answer
  BY DEF Release
<1>3. /\ a \in Going /\ Going' = Going \ {a}
      /\ Distinct(going') /\ going' \in Seq(DOMAIN size)
  BY <1>2, GoingShorter
<1> HIDE DEF a
<1>4. a \notin B /\ B \cup {a} = marked \cup Going  BY <1>1, <1>3
<1>5. Shape(free', size', B)
  <2> HIDE DEF B
  <2>1. Shape(free, size, B \cup {a})  BY <1>1, <1>4
  <2> QED  BY <1>2, <1>4, <2>1, InsertIs
<1>6. remain' \in Int
  <2>1. size[a] \in Int  BY <1>0, <1>1, <1>3 DEF Shape, Headers
  <2> QED  BY <1>1, <1>2, <2>1
<1>7. going' \in Seq(DOMAIN size')
  <2>1. In(going') = Going'  BY DEF Going, In
  <2>2. In(going') \subseteq DOMAIN size'  BY <1>3, <1>5, <2>1 DEF Shape
  <2> QED  BY <1>3, <2>2, SeqOfIn
<1>8. marked' \cup Going' = B /\ marked' \cap Going' = {}  BY <1>1, <1>2, <1>3
<1> HIDE DEF B
<1> QED  BY <1>1, <1>2, <1>3, <1>5, <1>6, <1>7, <1>8, WholeNext

\* pvPortRealloc is an allocation and the first half of freeing the old block.
LEMMA ReallocWhole ==
  ASSUME HeapWhole, NEW a \in marked, NEW n \in Requests, Realloc(a, n)
  PROVE  HeapWhole'
<1>1. CASE Refused(n)  BY <1>1, RefusedWhole
<1>2. CASE Served(n) /\ ~Refused(n)
  <2> DEFINE i == Min(Fitting(Wanted(n)))
  <2>1. i \in Fitting(Wanted(n))  BY <1>2, FirstFit
  <2>2. /\ Carve(n, i) /\ marked' = (marked \ {a}) \cup {free[i]}
        /\ going' = Append(going, a)
    BY <1>2 DEF Realloc
  <2> HIDE DEF i
  <2>3. /\ Shape(free', size', (marked \cup Going) \cup {free[i]})
        /\ free[i] \notin marked \cup Going
        /\ remain' \in Int /\ answer' \in Answers
    BY <1>2, <2>1, <2>2, CarveIs
  <2>4. Going' = Going \cup {a} /\ Distinct(going') /\ going' \in Seq(DOMAIN size)
    BY <2>2, GoingLonger
  <2>5. marked \cap Going = {}  BY WholeIs
  <2>6. marked' \cup Going' = (marked \cup Going) \cup {free[i]} /\ marked' \cap Going' = {}
    BY <2>2, <2>3, <2>4, <2>5
  <2>7. In(going') = Going'  BY DEF Going, In
  <2>8. In(going') \subseteq DOMAIN size'  BY <2>3, <2>6, <2>7 DEF Shape
  <2>9. going' \in Seq(DOMAIN size')  BY <2>4, <2>8, SeqOfIn
  <2> QED  BY <2>3, <2>4, <2>6, <2>9, WholeNext
<1> QED  BY <1>1, <1>2 DEF Realloc

\* The heap stays in one piece: its blocks fill it without gap or overlap, the list of
\* free blocks is in order, every block is in one place, and no two free blocks touch,
\* for any size of the heap, any requests and any nesting of vPortFree.
THEOREM HeapStaysWhole == Spec => []HeapWhole
<1>1. Init => HeapWhole  BY InitWhole
<1>2. HeapWhole /\ [Next]_vars => HeapWhole'
  <2> SUFFICES ASSUME HeapWhole, [Next]_vars PROVE HeapWhole'  OBVIOUS
  <2>1. ASSUME NEW n \in Requests, Malloc(n) PROVE HeapWhole'  BY <2>1, MallocWhole
  <2>2. ASSUME NEW a \in marked, Unmark(a) PROVE HeapWhole'  BY <2>2, UnmarkWhole
  <2>3. CASE Release  BY <2>3, ReleaseWhole
  <2>4. ASSUME NEW a \in marked, NEW n \in Requests, Realloc(a, n) PROVE HeapWhole'
    BY <2>4, ReallocWhole
  <2>5. CASE UNCHANGED vars
    BY <2>5, WholeIs, WholeNext DEF vars, Going
  <2> QED  BY <2>1, <2>2, <2>3, <2>4, <2>5 DEF Next
<1> QED  BY <1>1, <1>2, PTL DEF Spec

(***************************************************************************)
(* What the heap promises.                                                 *)
(***************************************************************************)
\* The blocks that are handed out, as ImplementsAllocator has them
Held == [a \in marked \cup Going |-> size[a]]

\* A step of the allocator, or one that refuses what cannot be served
SafeStep == \/ \E n \in Requests : Alloc!Alloc(n) \/ (~Served(n) /\ Refused(n))
            \/ \E a \in DOMAIN Held : Alloc!Release(a)

\* What pvPortMalloc takes is an allocation, whatever else is done to the marks.
LEMMA CarveAllocates ==
  ASSUME HeapWhole, NEW n \in Requests, Served(n), NEW i \in Fitting(Wanted(n)), Carve(n, i),
         marked' \cup Going' = (marked \cup Going) \cup {free[i]}
  PROVE  Alloc!Alloc(n)
<1> DEFINE B == marked \cup Going
           a == free[i]
           s == size'[a]
<1>0. Units \in Nat \ {0}  BY HeapAssumption
<1>1. /\ Shape(free', size', B \cup {a}) /\ a \notin B /\ a \in DOMAIN size'
      /\ \A x \in B : size'[x] = size[x]
      /\ s >= Wanted(n) /\ remain' = remain - s
      /\ answer' = [asked |-> n, got |-> a + Header]
  BY CarveIs
<1>2. marked' \cup Going' = B \cup {a}  OBVIOUS
<1> HIDE DEF B, a
<1>3. /\ \A x \in DOMAIN size' : x \in 0 .. Units - 1 /\ size'[x] \in 1 .. Units
      /\ \A x \in DOMAIN size' : x + size'[x] \in DOMAIN size' \cup {Units}
      /\ \A x, y \in DOMAIN size' : x < y => x + size'[x] <= y
      /\ B \subseteq DOMAIN size'
  BY <1>1 DEF Shape, Headers, Fills, Addr
<1>4. a \in 0 .. Units - 1 /\ s \in 1 .. Units /\ a + s <= Units
  BY <1>0, <1>1, <1>3
<1>5. DOMAIN Held = B /\ \A x \in B : Held[x] = size'[x]  BY <1>1 DEF Held, B
<1>6. Held' = [b \in DOMAIN Held \cup {a} |-> IF b = a THEN s ELSE Held[b]]
  <2>1. Held' = [b \in B \cup {a} |-> size'[b]]  BY <1>2 DEF Held
  <2> QED  BY <1>5, <2>1
<1>7. \A b \in DOMAIN Held : a + s <= b \/ b + Held[b] <= a
  <2> TAKE b \in DOMAIN Held
  <2>1. b \in DOMAIN size' /\ b # a /\ Held[b] = size'[b]  BY <1>1, <1>3, <1>5
  <2>2. a < b \/ b < a  BY <1>0, <1>3, <1>4, <2>1
  <2> QED  BY <1>1, <1>3, <2>1, <2>2
<1>8. n > 0 /\ s >= Alloc!Need(n)
  BY <1>1 DEF Served, Wanted, Alloc!Need
<1>9. Alloc!Room(a, s)  BY <1>4, <1>7 DEF Alloc!Room, Held
<1> HIDE DEF s
<1> QED  BY <1>1, <1>4, <1>6, <1>8, <1>9 DEF Alloc!Alloc, Held

\* pvPortMalloc allocates, or refuses and changes nothing that is handed out.
LEMMA MallocSafe ==
  ASSUME HeapWhole, NEW n \in Requests, Malloc(n)
  PROVE  SafeStep
<1>1. CASE ~Served(n) /\ Refused(n)  BY <1>1 DEF SafeStep
<1>2. CASE Served(n)
  <2> DEFINE i == Min(Fitting(Wanted(n)))
  <2>1. i \in Fitting(Wanted(n))  BY <1>2, FirstFit
  <2>2. Carve(n, i) /\ marked' = marked \cup {free[i]} /\ going' = going
    BY <1>2 DEF Malloc
  <2> HIDE DEF i
  <2>3. marked' \cup Going' = (marked \cup Going) \cup {free[i]}  BY <2>2 DEF Going
  <2>4. Alloc!Alloc(n)  BY <1>2, <2>1, <2>2, <2>3, CarveAllocates
  <2> QED  BY <2>4 DEF SafeStep
<1> QED  BY <1>1, <1>2 DEF Malloc

\* So does pvPortRealloc: the old block stays handed out until it is back in the list.
LEMMA ReallocSafe ==
  ASSUME HeapWhole, NEW a \in marked, NEW n \in Requests, Realloc(a, n)
  PROVE  SafeStep
<1>1. CASE ~Served(n) /\ Refused(n)  BY <1>1 DEF SafeStep
<1>2. CASE Served(n)
  <2> DEFINE i == Min(Fitting(Wanted(n)))
  <2>1. i \in Fitting(Wanted(n))  BY <1>2, FirstFit
  <2>2. /\ Carve(n, i) /\ marked' = (marked \ {a}) \cup {free[i]}
        /\ going' = Append(going, a)
    BY <1>2 DEF Realloc
  <2> HIDE DEF i
  <2>3. Going' = Going \cup {a}  BY <2>2, GoingLonger
  <2>4. marked' \cup Going' = (marked \cup Going) \cup {free[i]}  BY <2>2, <2>3
  <2>5. Alloc!Alloc(n)  BY <1>2, <2>1, <2>2, <2>4, CarveAllocates
  <2> QED  BY <2>5 DEF SafeStep
<1> QED  BY <1>1, <1>2 DEF Realloc

\* The first half of vPortFree changes nothing that is handed out.
LEMMA UnmarkSafe ==
  ASSUME HeapWhole, NEW a \in marked, Unmark(a)
  PROVE  UNCHANGED <<Held, remain, answer>>
<1>1. /\ marked' = marked \ {a} /\ going' = Append(going, a)
      /\ size' = size /\ remain' = remain /\ answer' = answer
  BY DEF Unmark
<1>2. Going' = Going \cup {a}  BY <1>1, GoingLonger
<1>3. marked' \cup Going' = marked \cup Going  BY <1>1, <1>2
<1> QED  BY <1>1, <1>3 DEF Held

\* The second half takes one block back and leaves the others as they are.
LEMMA ReleaseSafe ==
  ASSUME HeapWhole, Release
  PROVE  SafeStep
<1> DEFINE a == going[Len(going)]
           list == Insert(free, size, a)
           B == marked \cup (Going \ {a})
<1>1. Shape(free, size, marked \cup Going) /\ marked \cap Going = {}  BY WholeIs
<1>2. /\ going # <<>> /\ going' = SubSeq(going, 1, Len(going) - 1)
      /\ remain' = remain + size[a] /\ size' = list.size
      /\ marked' = marked /\ answer' = answer
  BY DEF Release
<1>3. a \in Going /\ Going' = Going \ {a}  BY <1>2, GoingShorter
<1> HIDE DEF a
<1>4. a \notin B /\ B \cup {a} = marked \cup Going /\ marked' \cup Going' = B
  BY <1>1, <1>2, <1>3
<1> HIDE DEF B
<1>5. \A x \in B : size'[x] = size[x]
  <2>1. Shape(free, size, B \cup {a})  BY <1>1, <1>4
  <2> QED  BY <1>2, <1>4, <2>1, InsertIs
<1>6. DOMAIN Held = B \cup {a} /\ \A x \in B \cup {a} : Held[x] = size[x]  BY <1>4 DEF Held
<1>7. Held' = [b \in DOMAIN Held \ {a} |-> Held[b]]
  <2>1. Held' = [b \in B |-> size'[b]]  BY <1>4 DEF Held
  <2>2. DOMAIN Held \ {a} = B  BY <1>4, <1>6
  <2> QED  BY <1>5, <1>6, <2>1, <2>2
<1>8. a \in DOMAIN Held /\ remain' = remain + Held[a]  BY <1>2, <1>6
<1>9. PICK x \in DOMAIN Held : x = a  BY <1>8
<1>10. Alloc!Release(x)  BY <1>2, <1>7, <1>8, <1>9 DEF Alloc!Release, Held
<1> QED  BY <1>10 DEF SafeStep

\* Every step of the heap is such a step, or none.
LEMMA StepSafe ==
  ASSUME HeapWhole, [Next]_vars
  PROVE  [SafeStep]_<<Held, remain, answer>>
<1>1. ASSUME NEW n \in Requests, Malloc(n) PROVE SafeStep  BY <1>1, MallocSafe
<1>2. ASSUME NEW a \in marked, Unmark(a) PROVE UNCHANGED <<Held, remain, answer>>
  BY <1>2, UnmarkSafe
<1>3. CASE Release  BY <1>3, ReleaseSafe
<1>4. ASSUME NEW a \in marked, NEW n \in Requests, Realloc(a, n) PROVE SafeStep
  BY <1>4, ReallocSafe
<1>5. CASE UNCHANGED vars  BY <1>5 DEF vars, Held, Going
<1> QED  BY <1>1, <1>2, <1>3, <1>4, <1>5 DEF Next

(***************************************************************************)
(* What is free.                                                           *)
(***************************************************************************)
\* The units that are in no block of h
Spare(h) == {u \in Addr : \A b \in DOMAIN h : u < b \/ b + h[b] <= u}

\* xFreeBytesRemaining is as much as is not handed out.
Balance == remain = Cardinality(Spare(Held))

\* Blocks with the headers h lie in the heap.
Inside(h) == DOMAIN h \subseteq Addr /\ \A b \in DOMAIN h : h[b] \in 1 .. Units

\* Block a of s units more, beside the others: s units less are spare.
LEMMA OneBlockMore ==
  ASSUME NEW h, Inside(h), NEW a \in Addr, NEW s \in 1 .. Units, a + s <= Units,
         \A b \in DOMAIN h : a + s <= b \/ b + h[b] <= a
  PROVE  Cardinality(Spare(h)) =
           Cardinality(Spare([b \in DOMAIN h \cup {a} |-> IF b = a THEN s ELSE h[b]])) + s
<1> DEFINE g == [b \in DOMAIN h \cup {a} |-> IF b = a THEN s ELSE h[b]]
           I == a .. a + s - 1
           G == Spare(g)
<1>0. Units \in Nat \ {0}  BY HeapAssumption
<1>1. /\ a \in 0 .. Units - 1
      /\ \A b \in DOMAIN h : b \in 0 .. Units - 1 /\ h[b] \in 1 .. Units
  BY DEF Inside, Addr
<1>2. a \notin DOMAIN h  BY <1>0, <1>1
<1>3. /\ DOMAIN g = DOMAIN h \cup {a} /\ g[a] = s
      /\ \A b \in DOMAIN h : g[b] = h[b]
  BY <1>2
<1> HIDE DEF g
<1>4. \A u \in Addr : u \in G <=> u \in Spare(h) /\ (u < a \/ a + s <= u)
  BY <1>3 DEF Spare
<1>5. \A u \in I : u \in Spare(h)
  <2> SUFFICES ASSUME NEW u \in I PROVE u \in Spare(h)  OBVIOUS
  <2>1. u \in Int /\ a <= u /\ u < a + s /\ u \in Addr  BY <1>0, <1>1 DEF Addr
  <2>2. \A b \in DOMAIN h : u < b \/ b + h[b] <= u  BY <1>1, <2>1
  <2> QED  BY <2>1, <2>2 DEF Spare
<1>6. \A u \in Addr : u \in I <=> ~(u < a \/ a + s <= u)  BY <1>0, <1>1 DEF Addr
<1>7. Spare(h) \subseteq Addr /\ G \subseteq Addr  BY DEF Spare
<1> HIDE DEF I, G
<1>8. Spare(h) = G \cup I /\ G \cap I = {}  BY <1>4, <1>5, <1>6, <1>7
<1>9. IsFiniteSet(I) /\ Cardinality(I) = s
  <2>1. a \in Int /\ a + s - 1 \in Int /\ ~(a > a + s - 1) /\ a + s - 1 - a + 1 = s
    BY <1>0, <1>1
  <2> QED  BY <2>1, FS_Interval DEF I
<1>10. IsFiniteSet(G) /\ Cardinality(G) \in Nat
  <2>1. IsFiniteSet(Addr)  BY <1>0, FS_Interval DEF Addr
  <2> QED  BY <1>7, <2>1, FS_Subset, FS_CardinalityType
<1>11. Cardinality(G \cup I) = Cardinality(G) + Cardinality(I) - 0
  BY <1>8, <1>9, <1>10, FS_Union, FS_EmptySet
<1> QED  BY <1>8, <1>9, <1>10, <1>11 DEF G, g

\* The blocks that are handed out lie in the heap, one beside the other.
LEMMA HeldIs ==
  ASSUME HeapWhole
  PROVE  /\ Inside(Held) /\ DOMAIN Held = marked \cup Going
         /\ \A a \in DOMAIN Held : Held[a] = size[a] /\ a + Held[a] <= Units
         /\ \A a, b \in DOMAIN Held : a # b => a + Held[a] <= b \/ b + Held[b] <= a
<1>0. Units \in Nat \ {0}  BY HeapAssumption
<1>1. Shape(free, size, marked \cup Going)  BY WholeIs
<1>2. /\ \A x \in DOMAIN size : x \in 0 .. Units - 1 /\ size[x] \in 1 .. Units
      /\ \A x \in DOMAIN size : x + size[x] \in DOMAIN size \cup {Units}
      /\ \A x, y \in DOMAIN size : x < y => x + size[x] <= y
      /\ marked \cup Going \subseteq DOMAIN size
  BY <1>1 DEF Shape, Headers, Fills, Addr
<1>3. DOMAIN Held = marked \cup Going /\ \A a \in DOMAIN Held : Held[a] = size[a]
  BY DEF Held
<1>4. Inside(Held)  BY <1>2, <1>3 DEF Inside, Addr
<1>5. \A a \in DOMAIN Held : a + Held[a] <= Units  BY <1>0, <1>2, <1>3
<1>6. \A a, b \in DOMAIN Held : a # b => a + Held[a] <= b \/ b + Held[b] <= a
  <2> TAKE a, b \in DOMAIN Held
  <2>1. a # b => a < b \/ b < a  BY <1>0, <1>2, <1>3
  <2> QED  BY <1>2, <1>3, <2>1
<1> QED  BY <1>3, <1>4, <1>5, <1>6

\* At first everything is spare.
LEMMA InitBalance == Init => Balance
<1> SUFFICES ASSUME Init PROVE Balance  OBVIOUS
<1>0. Units \in Nat \ {0}  BY HeapAssumption
<1>1. remain = Units /\ marked = {} /\ Going = {}  BY DEF Init, Going
<1>2. DOMAIN Held = {}  BY <1>1 DEF Held
<1>3. Spare(Held) = Addr  BY <1>2 DEF Spare
<1>4. Cardinality(Addr) = Units
  <2>1. 0 \in Int /\ Units - 1 \in Int /\ ~(0 > Units - 1) /\ Units - 1 - 0 + 1 = Units
    BY <1>0
  <2> QED  BY <2>1, FS_Interval DEF Addr
<1> QED  BY <1>1, <1>3, <1>4 DEF Balance

\* What is handed out or taken back is counted.
LEMMA StepBalance ==
  ASSUME HeapWhole, Balance, [Next]_vars
  PROVE  Balance'
<1>0. Units \in Nat \ {0}  BY HeapAssumption
<1>1. [SafeStep]_<<Held, remain, answer>>  BY StepSafe
<1>2. /\ Inside(Held)
      /\ \A a \in DOMAIN Held : a + Held[a] <= Units
      /\ \A a, b \in DOMAIN Held : a # b => a + Held[a] <= b \/ b + Held[b] <= a
  BY HeldIs
<1>3. ASSUME Held' = Held, remain' = remain PROVE Balance'
  BY <1>3 DEF Balance
<1>4. \A h : Cardinality(Spare(h)) \in Nat
  <2>1. IsFiniteSet(Addr)  BY <1>0, FS_Interval DEF Addr
  <2> QED  BY <2>1, FS_Subset, FS_CardinalityType DEF Spare
<1>5. ASSUME NEW n \in Requests, Alloc!Alloc(n) PROVE Balance'
  <2>1. PICK a \in 0 .. Units - 1, s \in 1 .. Units :
          /\ a + s <= Units
          /\ \A b \in DOMAIN Held : a + s <= b \/ b + Held[b] <= a
          /\ Held' = [b \in DOMAIN Held \cup {a} |-> IF b = a THEN s ELSE Held[b]]
          /\ remain' = remain - s
    BY <1>5 DEF Alloc!Alloc, Alloc!Room, Held
  <2>2. Cardinality(Spare(Held)) = Cardinality(Spare(Held')) + s
    BY <1>2, <2>1, OneBlockMore DEF Addr
  <2>3. Cardinality(Spare(Held)) \in Nat /\ Cardinality(Spare(Held')) \in Nat  BY <1>4
  <2>4. remain' = Cardinality(Spare(Held'))  BY <2>1, <2>2, <2>3 DEF Balance
  <2> QED  BY <2>4 DEF Balance, Spare
<1>6. ASSUME NEW a \in DOMAIN Held, Alloc!Release(a) PROVE Balance'
  <2> DEFINE h == Held'
             s == Held[a]
  <2>1. h = [b \in DOMAIN Held \ {a} |-> Held[b]] /\ remain' = remain + s
    BY <1>6 DEF Alloc!Release, Held
  <2> HIDE DEF h, s
  <2>2. DOMAIN h = DOMAIN Held \ {a} /\ \A b \in DOMAIN h : h[b] = Held[b]  BY <2>1
  <2>3. Inside(h) /\ a \in Addr /\ s \in 1 .. Units /\ a + s <= Units
    BY <1>2, <2>2 DEF Inside, s
  <2>4. \A b \in DOMAIN h : a + s <= b \/ b + h[b] <= a  BY <1>2, <2>2 DEF s
  <2>5. Held = [b \in DOMAIN h \cup {a} |-> IF b = a THEN s ELSE h[b]]
    <3>1. Held = [b \in DOMAIN Held |-> Held[b]]  BY DEF Held
    <3>2. DOMAIN h \cup {a} = DOMAIN Held  BY <2>2
    <3> QED  BY <2>2, <3>1, <3>2 DEF s
  <2>6. Cardinality(Spare(h)) = Cardinality(Spare(Held)) + s
    BY <2>3, <2>4, <2>5, OneBlockMore
  <2> QED  BY <2>1, <2>6 DEF Balance, h, Spare
<1>7. ASSUME NEW n \in Requests, Refused(n) PROVE Balance'
  BY <1>3, <1>7 DEF Refused, Held, Going
<1> QED  BY <1>1, <1>3, <1>5, <1>6, <1>7 DEF SafeStep

(***************************************************************************)
(* What is refused.                                                        *)
(***************************************************************************)
\* Every unit is in a block.
LEMMA BlockOf ==
  ASSUME NEW s, Ok(s), NEW u \in Addr
  PROVE  \E x \in DOMAIN s : x <= u /\ u < x + s[x]
<1> DEFINE T == {x \in DOMAIN s : x <= u}
<1>0. Units \in Nat \ {0}  BY HeapAssumption
<1>1. /\ \A x \in DOMAIN s : x \in 0 .. Units - 1 /\ s[x] \in 1 .. Units
      /\ \A x \in DOMAIN s : x + s[x] \in DOMAIN s \cup {Units}
      /\ 0 \in DOMAIN s /\ u \in 0 .. Units - 1
  BY DEF Ok, Headers, Fills, Addr
<1>2. PICK x \in T : \A y \in T : y <= x
  <2>1. T # {} /\ T \subseteq 0 .. Units  BY <1>0, <1>1
  <2> HIDE DEF T
  <2> QED  BY <1>0, <2>1, GreatestNatural
<1>3. ASSUME x + s[x] <= u PROVE FALSE
  <2>1. x + s[x] \in T /\ x < x + s[x]  BY <1>0, <1>1, <1>2, <1>3
  <2> QED  BY <1>0, <1>1, <1>2, <2>1
<1>4. x \in DOMAIN s /\ x <= u /\ u < x + s[x]  BY <1>0, <1>1, <1>2, <1>3
<1> QED  BY <1>4

\* Where there is room for a request, it can be served: the room is part of one free
\* block, since free blocks do not touch, and counted in xFreeBytesRemaining.
LEMMA RoomIsServed ==
  ASSUME HeapWhole, Balance, NEW n \in Requests, n > 0, NEW a \in 0 .. Units - 1,
         Alloc!Room(a, Alloc!Need(n))
  PROVE  Served(n)
<1> DEFINE w == Wanted(n)
<1>0. /\ Units \in Nat \ {0} /\ n \in Nat /\ TopBit \in Nat /\ UnitSize * Units < TopBit
  BY HeapAssumption
<1>1. w = Alloc!Need(n) /\ w = 1 + (n + 7) \div 8
  BY <1>0 DEF Wanted, Alloc!Need, Header, UnitSize
<1>2. w \in Nat /\ w > 1 /\ n <= 8 * w - 8  BY <1>0, <1>1
<1>3. a + w <= Units /\ \A b \in DOMAIN Held : a + w <= b \/ b + Held[b] <= a
  BY <1>1 DEF Alloc!Room, Held
<1>4. n < TopBit  BY <1>0, <1>2, <1>3 DEF UnitSize
<1> HIDE DEF w
<1>5. /\ Inside(Held) /\ DOMAIN Held = marked \cup Going
      /\ \A b \in DOMAIN Held : Held[b] = size[b]
  BY HeldIs
<1>6. \A u \in a .. a + w - 1 : u \in Addr /\ u \notin DOMAIN Held /\ u \in Spare(Held)
  <2> SUFFICES ASSUME NEW u \in a .. a + w - 1
               PROVE  u \in Addr /\ u \notin DOMAIN Held /\ u \in Spare(Held)
    OBVIOUS
  <2>1. u \in Addr /\ u \in Int /\ a <= u /\ u < a + w  BY <1>0, <1>2, <1>3 DEF Addr
  <2>2. \A b \in DOMAIN Held : b \in Int /\ Held[b] \in 1 .. Units
    BY <1>0, <1>5 DEF Inside, Addr
  <2>3. \A b \in DOMAIN Held : u < b \/ b + Held[b] <= u  BY <1>0, <1>2, <1>3, <2>1, <2>2
  <2>4. u \notin DOMAIN Held  BY <1>0, <2>1, <2>2, <2>3
  <2> QED  BY <2>1, <2>3, <2>4 DEF Spare
<1>7. w <= remain
  <2>1. IsFiniteSet(Addr)  BY <1>0, FS_Interval DEF Addr
  <2>2. IsFiniteSet(Spare(Held))  BY <2>1, FS_Subset DEF Spare
  <2>3. a .. a + w - 1 \in SUBSET Spare(Held)  BY <1>6
  <2>4. Cardinality(a .. a + w - 1) <= Cardinality(Spare(Held))  BY <2>2, <2>3, FS_Subset
  <2>5. Cardinality(a .. a + w - 1) = w
    <3> DEFINE e == a + w - 1
    <3>1. a \in Int /\ e \in Int /\ ~(a > e) /\ e - a + 1 = w  BY <1>0, <1>2
    <3> HIDE DEF e
    <3>2. Cardinality(a .. e) = w  BY <3>1, FS_Interval
    <3> QED  BY <3>2 DEF e
  <2> QED  BY <2>4, <2>5 DEF Balance
<1>8. Shape(free, size, marked \cup Going)  BY WholeIs
<1>9. /\ \A x \in DOMAIN size : x \in 0 .. Units - 1 /\ size[x] \in 1 .. Units
      /\ \A x \in DOMAIN size : x + size[x] \in DOMAIN size \cup {Units}
      /\ DOMAIN size = In(free) \cup (marked \cup Going)
      /\ Ok(size) /\ Apart(free, size)
  BY <1>8 DEF Shape, Headers, Fills, Addr, Ok
<1>10. PICK x \in DOMAIN size : x <= a /\ a < x + size[x]
  BY <1>9, BlockOf DEF Addr
<1>11. x \in In(free)
  <2>1. x \notin DOMAIN Held  BY <1>0, <1>2, <1>3, <1>5, <1>9, <1>10
  <2> QED  BY <1>5, <1>9, <2>1
<1>12. size[x] >= w
  <2>1. SUFFICES ASSUME ~(size[x] >= w) PROVE FALSE  OBVIOUS
  <2>2. ASSUME a + w <= x + size[x] PROVE FALSE  BY <1>0, <1>2, <1>9, <1>10, <2>1, <2>2
  <2>3. x + size[x] \in a .. a + w - 1 /\ x + size[x] # Units
    BY <1>0, <1>2, <1>3, <1>9, <1>10, <2>2
  <2>4. x + size[x] \in In(free)  BY <1>5, <1>6, <1>9, <2>3
  <2> QED  BY <1>9, <1>11, <2>4 DEF Apart
<1>13. Fitting(w) # {}
  <2>1. PICK i \in 1 .. Len(free) : x = free[i]  BY <1>11 DEF In
  <2> QED  BY <1>12, <2>1 DEF Fitting
<1> QED  BY <1>4, <1>7, <1>13 DEF Served, w

\* A refusal is one of Allocator.
LEMMA RefusedIs ==
  ASSUME HeapWhole, Balance, NEW n \in Requests, ~Served(n), Refused(n)
  PROVE  Alloc!Refuse(n)
<1>1. n \in Nat  BY HeapAssumption
<1>2. n = 0 \/ \A a \in 0 .. Units - 1 : ~Alloc!Room(a, Alloc!Need(n))
  BY <1>1, RoomIsServed
<1>3. answer' = [asked |-> n, got |-> None] /\ UNCHANGED <<Held, remain>>
  BY DEF Refused, Held, Going
<1> QED  BY <1>2, <1>3 DEF Alloc!Refuse, Held

\* Whatever the heap does is what an allocator may do: what is handed out lies in the
\* heap, overlaps nothing that is handed out, is as large as the request needs and stays
\* as it is until it is freed; xFreeBytesRemaining is what is left; and nothing is refused
\* for which there is room in one piece.
THEOREM HeapImplements == Spec => ImplementsAllocator
<1>1. Init => Alloc!Init
  <2> SUFFICES ASSUME Init PROVE Alloc!Init  OBVIOUS
  <2>1. marked = {} /\ Going = {}  BY DEF Init, Going
  <2>2. [a \in marked \cup Going |-> size[a]] = [a \in {} |-> 0]  BY <2>1
  <2> QED  BY <2>2 DEF Init, Alloc!Init
<1>2. Init => Balance  BY InitBalance
<1>3. HeapWhole /\ Balance /\ [Next]_vars => Balance'  BY StepBalance
<1>4. HeapWhole /\ Balance /\ [Next]_vars => [Alloc!Next]_<<Held, remain, answer>>
  <2> SUFFICES ASSUME HeapWhole, Balance, [Next]_vars
               PROVE  Alloc!Next \/ UNCHANGED <<Held, remain, answer>>
    OBVIOUS
  <2>1. SafeStep \/ UNCHANGED <<Held, remain, answer>>  BY StepSafe
  <2>2. ASSUME NEW n \in Requests, ~Served(n), Refused(n) PROVE Alloc!Next
    BY <2>2, RefusedIs DEF Alloc!Next
  <2> QED  BY <2>1, <2>2 DEF SafeStep, Alloc!Next, Held
<1>5. HeapWhole /\ Balance /\ [Next]_vars => [Alloc!Next]_(Alloc!vars)
  BY <1>4 DEF Alloc!vars, Held
<1> QED  BY <1>1, <1>2, <1>3, <1>5, HeapStaysWhole, PTL
     DEF Spec, ImplementsAllocator, Alloc!Spec
=============================================================================
