--------------------------- MODULE Tcp2UartProofs ---------------------------
(***************************************************************************)
(* Theorems about the bridge between TCP and the UART: nothing is lost,    *)
(* doubled or disordered in either direction, and the counters of the      *)
(* driver agree with what is under way; for any sizes of the buffers and   *)
(* any streams.                                                            *)
(***************************************************************************)
EXTENDS Tcp2Uart, WellFoundedInduction, SequenceTheorems, TLAPS

(***************************************************************************)
(* Least elements                                                          *)
(***************************************************************************)
\* A non-empty set of naturals has a least element.
LEMMA LeastNatural ==
  ASSUME NEW S \in SUBSET Nat, S # {}
  PROVE  \E x \in S : \A y \in S : x <= y
<1> DEFINE R == OpToRel(<, Nat)
<1>1. \E x \in S : \A y \in S : ~ (<<y, x>> \in R)
  <2>1. IsWellFoundedOn(R, Nat)  BY NatLessThanWellFounded
  <2> HIDE DEF R
  <2> QED  BY <2>1, WFMin
<1>2. \A x, y \in Nat : y < x => <<y, x>> \in R
  BY DEF OpToRel
<1>3. PICK x \in S : \A y \in S : ~ (<<y, x>> \in R)  BY <1>1
<1>4. \A y \in S : ~ (y < x)  BY <1>2, <1>3
<1> QED  BY <1>4

(***************************************************************************)
(* Sequences                                                               *)
(***************************************************************************)
\* The lesser of two numbers
LEMMA MinIs ==
  ASSUME NEW a \in Int, NEW b \in Int
  PROVE  /\ Min({a, b}) \in {a, b}
         /\ Min({a, b}) <= a /\ Min({a, b}) <= b
<1> DEFINE m == IF a <= b THEN a ELSE b
<1>1. m \in {a, b} /\ \A y \in {a, b} : m <= y  OBVIOUS
<1>2. \E x \in {a, b} : \A y \in {a, b} : x <= y  BY <1>1
<1>3. Min({a, b}) \in {a, b} /\ \A y \in {a, b} : Min({a, b}) <= y
  BY <1>2 DEF Min
<1> QED  BY <1>3

\* Three sequences
LEMMA Associated ==
  ASSUME NEW q \in Seq(Nat), NEW r \in Seq(Nat), NEW u \in Seq(Nat)
  PROVE  (q \o r) \o u = q \o (r \o u)
  BY ONLY ConcatAssociative, SMTT(30)

\* What is taken from the front of r and put at the end of q leaves their order.
LEMMA Moved ==
  ASSUME NEW q \in Seq(Nat), NEW r \in Seq(Nat), NEW n \in 0 .. Len(r)
  PROVE  LET a == q \o SubSeq(r, 1, n)
             b == SubSeq(r, n + 1, Len(r))
         IN  /\ a \in Seq(Nat) /\ Len(a) = Len(q) + n
             /\ b \in Seq(Nat) /\ Len(b) = Len(r) - n
             /\ a \o b = q \o r
<1> DEFINE f == SubSeq(r, 1, n)
           b == SubSeq(r, n + 1, Len(r))
<1>1. Len(r) \in Nat /\ \A i \in 1 .. Len(r) : r[i] \in Nat  BY LenProperties, ElementOfSeq
<1>2. f \in Seq(Nat) /\ Len(f) = n
  <2>1. \A i \in 1 .. n : r[i] \in Nat  BY <1>1
  <2>2. f \in Seq(Nat) /\ Len(f) = IF 1 <= n THEN n - 1 + 1 ELSE 0
    BY <1>1, <2>1, SubSeqProperties
  <2> QED  BY <1>1, <2>2
<1>3. b \in Seq(Nat) /\ Len(b) = Len(r) - n
  <2>1. \A i \in n + 1 .. Len(r) : r[i] \in Nat  BY <1>1
  <2>2. /\ b \in Seq(Nat)
        /\ Len(b) = IF n + 1 <= Len(r) THEN Len(r) - (n + 1) + 1 ELSE 0
    BY <1>1, <2>1, SubSeqProperties
  <2> QED  BY <1>1, <2>2
<1>4. f \o b = r
  <2>1. SubSeq(r, 1, n) \o SubSeq(r, n + 1, Len(r)) = SubSeq(r, 1, Len(r))
    <3>1. 1 \in 1 .. Len(r) + 1 /\ n \in 1 - 1 .. Len(r) /\ Len(r) \in n .. Len(r)
      BY <1>1
    <3> QED  BY <3>1, ConcatAdjacentSubSeq
  <2> QED  BY <2>1, SubSeqFull
<1> HIDE DEF f, b
<1>5. (q \o f) \o b = q \o (f \o b)  BY <1>2, <1>3, Associated
<1>6. q \o f \in Seq(Nat) /\ Len(q \o f) = Len(q) + n  BY <1>2, ConcatProperties
<1> QED  BY <1>3, <1>4, <1>5, <1>6 DEF f, b

\* What is taken from the front of q is taken from the front of both.
LEMMA TakenOff ==
  ASSUME NEW q \in Seq(Nat), NEW r \in Seq(Nat), NEW n \in 0 .. Len(q)
  PROVE  LET b == SubSeq(q, n + 1, Len(q))
         IN  /\ b \in Seq(Nat) /\ Len(b) = Len(q) - n
             /\ b \o r = SubSeq(q \o r, n + 1, Len(q \o r))
<1> DEFINE b == SubSeq(q, n + 1, Len(q))
           w == q \o r
           d == SubSeq(w, n + 1, Len(w))
<1>1. /\ Len(q) \in Nat /\ \A i \in 1 .. Len(q) : q[i] \in Nat
      /\ Len(r) \in Nat
  BY LenProperties, ElementOfSeq
<1>2. /\ b \in Seq(Nat) /\ Len(b) = Len(q) - n
      /\ \A i \in 1 .. Len(q) - n : b[i] = q[n + i]
  <2>1. \A i \in n + 1 .. Len(q) : q[i] \in Nat  BY <1>1
  <2>2. /\ b \in Seq(Nat)
        /\ Len(b) = IF n + 1 <= Len(q) THEN Len(q) - (n + 1) + 1 ELSE 0
        /\ \A i \in 1 .. Len(q) - (n + 1) + 1 : b[i] = q[n + 1 + i - 1]
    BY <1>1, <2>1, SubSeqProperties
  <2>3. \A i \in 1 .. Len(q) - n : n + 1 + i - 1 = n + i /\ i \in 1 .. Len(q) - (n + 1) + 1
    BY <1>1
  <2> QED  BY <1>1, <2>2, <2>3
<1>3. /\ w \in Seq(Nat) /\ Len(w) = Len(q) + Len(r)
      /\ \A i \in 1 .. Len(q) + Len(r) : w[i] = IF i <= Len(q) THEN q[i] ELSE r[i - Len(q)]
  BY ConcatProperties
<1>4. \A i \in 1 .. Len(w) : w[i] \in Nat  BY <1>3, ElementOfSeq
<1> HIDE DEF w, b
<1>5. /\ d \in Seq(Nat) /\ Len(d) = Len(q) + Len(r) - n
      /\ \A i \in 1 .. Len(q) + Len(r) - n : d[i] = w[n + i]
  <2>1. \A i \in n + 1 .. Len(w) : w[i] \in Nat  BY <1>1, <1>3, <1>4
  <2>2. /\ d \in Seq(Nat)
        /\ Len(d) = IF n + 1 <= Len(w) THEN Len(w) - (n + 1) + 1 ELSE 0
        /\ \A i \in 1 .. Len(w) - (n + 1) + 1 : d[i] = w[n + 1 + i - 1]
    BY <1>1, <1>3, <2>1, SubSeqProperties
  <2>3. \A i \in 1 .. Len(w) - n : n + 1 + i - 1 = n + i /\ i \in 1 .. Len(w) - (n + 1) + 1
    BY <1>1, <1>3
  <2> QED  BY <1>1, <1>3, <2>2, <2>3
<1> HIDE DEF d
<1>6. /\ b \o r \in Seq(Nat) /\ Len(b \o r) = Len(q) - n + Len(r)
      /\ \A i \in 1 .. Len(b) + Len(r) : (b \o r)[i] = IF i <= Len(b) THEN b[i] ELSE r[i - Len(b)]
  BY <1>2, ConcatProperties
<1>7. \A i \in 1 .. Len(b \o r) : (b \o r)[i] = d[i]
  <2> TAKE i \in 1 .. Len(b \o r)
  <2>1. i \in Nat /\ i >= 1 /\ i <= Len(q) - n + Len(r)  BY <1>1, <1>6
  <2>2. d[i] = w[n + i]  BY <1>1, <1>5, <2>1
  <2>3. CASE i <= Len(q) - n
    <3>1. (b \o r)[i] = q[n + i]  BY <1>1, <1>2, <1>6, <2>1, <2>3
    <3>2. w[n + i] = q[n + i]  BY <1>1, <1>3, <2>1, <2>3
    <3> QED  BY <2>2, <3>1, <3>2
  <2>4. CASE ~(i <= Len(q) - n)
    <3>1. (b \o r)[i] = r[i - Len(b)]  BY <1>1, <1>2, <1>6, <2>1, <2>4
    <3>2. w[n + i] = r[(n + i) - Len(q)]  BY <1>1, <1>3, <2>1, <2>4
    <3>3. i - Len(b) = (n + i) - Len(q)  BY <1>1, <1>2, <2>1
    <3> QED  BY <2>2, <3>1, <3>2, <3>3
  <2> QED  BY <2>3, <2>4
<1>8. b \o r = d
  <2>1. Len(b \o r) = Len(d)  BY <1>1, <1>5, <1>6
  <2> QED  BY <1>5, <1>6, <1>7, <2>1, SeqEqual, Zenon
<1> QED  BY <1>2, <1>8 DEF b, d, w

\* A run counts up.
LEMMA RunIs ==
  ASSUME NEW a \in Nat, NEW b \in Nat, a <= b
  PROVE  /\ Run(a, b) \in Seq(Nat) /\ Len(Run(a, b)) = b - a
         /\ \A i \in 1 .. b - a : Run(a, b)[i] = a + i
<1>1. Run(a, b) \in [1 .. b - a -> Nat] /\ b - a \in Nat  BY DEF Run
<1>2. Run(a, b) \in Seq(Nat)  BY <1>1
<1>3. Len(Run(a, b)) = b - a  BY <1>1, <1>2, LenProperties
<1> QED  BY <1>2, <1>3 DEF Run

\* A run that goes on where another ends
LEMMA RunOn ==
  ASSUME NEW a \in Nat, NEW b \in Nat, NEW c \in Nat, a <= b, b <= c
  PROVE  Run(a, b) \o Run(b, c) = Run(a, c)
<1> DEFINE q == Run(a, b)
           r == Run(b, c)
           s == Run(a, c)
<1>a. q \in Seq(Nat) /\ Len(q) = b - a /\ \A i \in 1 .. b - a : q[i] = a + i
  BY RunIs
<1>b. r \in Seq(Nat) /\ Len(r) = c - b /\ \A i \in 1 .. c - b : r[i] = b + i
  BY RunIs
<1>c. s \in Seq(Nat) /\ Len(s) = c - a /\ \A i \in 1 .. c - a : s[i] = a + i
  <2>1. a <= c  OBVIOUS
  <2> QED  BY <2>1, RunIs
<1> HIDE DEF q, r, s
<1>1. /\ q \in Seq(Nat) /\ Len(q) = b - a /\ \A i \in 1 .. b - a : q[i] = a + i
      /\ r \in Seq(Nat) /\ Len(r) = c - b /\ \A i \in 1 .. c - b : r[i] = b + i
      /\ s \in Seq(Nat) /\ Len(s) = c - a /\ \A i \in 1 .. c - a : s[i] = a + i
  BY <1>a, <1>b, <1>c
<1>d. /\ q \o r \in Seq(Nat) /\ Len(q \o r) = Len(q) + Len(r)
      /\ \A i \in 1 .. Len(q) + Len(r) : (q \o r)[i] = IF i <= Len(q) THEN q[i] ELSE r[i - Len(q)]
  BY <1>1, ConcatProperties
<1>2. /\ q \o r \in Seq(Nat) /\ Len(q \o r) = c - a
      /\ \A i \in 1 .. Len(q) + Len(r) : (q \o r)[i] = IF i <= Len(q) THEN q[i] ELSE r[i - Len(q)]
  <2>1. Len(q) + Len(r) = c - a  BY <1>1
  <2> QED  BY <1>d, <2>1
<1>3. \A i \in 1 .. Len(q \o r) : (q \o r)[i] = s[i]
  <2> TAKE i \in 1 .. Len(q \o r)
  <2>1. i \in Nat /\ i >= 1 /\ i <= c - a  BY <1>2
  <2>2. s[i] = a + i  BY <1>1, <2>1
  <2>3. CASE i <= b - a  BY <1>1, <1>2, <2>1, <2>2, <2>3
  <2>4. CASE ~(i <= b - a)
    <3>1. i - (b - a) \in 1 .. c - b  BY <2>1, <2>4
    <3>2. (q \o r)[i] = r[i - (b - a)]  BY <1>1, <1>2, <2>1, <2>4
    <3>3. r[i - (b - a)] = b + (i - (b - a))  BY <1>1, <3>1
    <3> QED  BY <2>1, <2>2, <3>2, <3>3
  <2> QED  BY <2>3, <2>4
<1>4. q \o r = s  BY <1>1, <1>2, <1>3, SeqEqual
<1> QED  BY <1>4 DEF q, r, s

\* A run without its first n
LEMMA RunLess ==
  ASSUME NEW a \in Nat, NEW b \in Nat, NEW n \in Nat, a + n <= b
  PROVE  SubSeq(Run(a, b), n + 1, Len(Run(a, b))) = Run(a + n, b)
<1> DEFINE q == Run(a, b)
           r == Run(a + n, b)
           s == SubSeq(q, n + 1, Len(q))
<1>a. q \in Seq(Nat) /\ Len(q) = b - a /\ \A i \in 1 .. b - a : q[i] = a + i
  <2>1. a <= b  OBVIOUS
  <2> QED  BY <2>1, RunIs
<1>b. /\ r \in Seq(Nat) /\ Len(r) = b - (a + n)
      /\ \A i \in 1 .. b - (a + n) : r[i] = a + n + i
  <2>1. a + n \in Nat  OBVIOUS
  <2> QED  BY <2>1, RunIs
<1> HIDE DEF q, r
<1>1. /\ q \in Seq(Nat) /\ Len(q) = b - a /\ \A i \in 1 .. b - a : q[i] = a + i
      /\ r \in Seq(Nat) /\ Len(r) = b - (a + n)
      /\ \A i \in 1 .. b - (a + n) : r[i] = a + n + i
  BY <1>a, <1>b
<1>2. /\ s \in Seq(Nat) /\ Len(s) = IF n + 1 <= Len(q) THEN Len(q) - (n + 1) + 1 ELSE 0
      /\ \A i \in 1 .. Len(q) - (n + 1) + 1 : s[i] = q[n + 1 + i - 1]
  <2>1. \A i \in n + 1 .. Len(q) : q[i] \in Nat  BY <1>1
  <2> QED  BY <1>1, <2>1, SubSeqProperties
<1> HIDE DEF s
<1>3. Len(s) = Len(r)  BY <1>1, <1>2
<1>4. \A i \in 1 .. Len(s) : s[i] = r[i]
  <2> TAKE i \in 1 .. Len(s)
  <2>1. i \in Nat /\ i >= 1 /\ i <= b - (a + n)  BY <1>1, <1>3
  <2>2. s[i] = q[n + 1 + i - 1] /\ n + 1 + i - 1 = n + i  BY <1>1, <1>2, <2>1
  <2>3. q[n + i] = a + (n + i)  BY <1>1, <2>1
  <2> QED  BY <1>1, <2>1, <2>2, <2>3
<1>5. s = r  BY <1>1, <1>2, <1>3, <1>4, SeqEqual
<1> QED  BY <1>5 DEF q, r, s

\* q and what follows it in r hold what is numbered from a + 1 to b.
Holds(q, r, a, b) == a <= b /\ q \o r = Run(a, b)

\* q without its first n
From(q, n) == SubSeq(q, n + 1, Len(q))

\* What is taken from the front of a run that is held in two parts
LEMMA TakenFromRun ==
  ASSUME NEW q \in Seq(Nat), NEW r \in Seq(Nat), NEW n \in 0 .. Len(q),
         NEW a \in Nat, NEW b \in Nat, Holds(q, r, a, b)
  PROVE  /\ From(q, n) \in Seq(Nat) /\ Len(From(q, n)) = Len(q) - n
         /\ Holds(From(q, n), r, a + n, b)
<1>0. a <= b /\ q \o r = Run(a, b)  BY DEF Holds
<1> DEFINE x == Len(q)
           y == Len(r)
<1>1. x \in Nat /\ y \in Nat /\ n \in Nat /\ n <= x  BY LenProperties
<1>2. Len(q \o r) = x + y  BY ConcatProperties
<1>3. Len(Run(a, b)) = b - a  BY <1>0, RunIs
<1>4. x + y = b - a  BY <1>0, <1>2, <1>3
<1> HIDE DEF x, y
<1>5. a + n <= b  BY <1>1, <1>4
<1>6. SubSeq(Run(a, b), n + 1, Len(Run(a, b))) = Run(a + n, b)
  BY <1>1, <1>5, RunLess
<1>7. /\ SubSeq(q, n + 1, Len(q)) \in Seq(Nat) /\ Len(SubSeq(q, n + 1, Len(q))) = Len(q) - n
      /\ SubSeq(q, n + 1, Len(q)) \o r = SubSeq(q \o r, n + 1, Len(q \o r))
  BY TakenOff
<1> QED  BY <1>0, <1>5, <1>6, <1>7 DEF Holds, From

(***************************************************************************)
(* What a sequence of events announces is a sum, which is defined by       *)
(* recursion.                                                              *)
(***************************************************************************)
\* An event that says the transmit FIFO is empty announces nothing.
Events == {e \in [sig : {"RX", "TX"}, par : Nat] : e.sig = "TX" => e.par = 0}

\* f holds the sums of the first events of q up to n.
Sums(q, n, f) == f = [i \in 0 .. n |-> IF i = 0 THEN 0 ELSE f[i - 1] + q[i].par]

\* There always are such sums.
LEMMA SumsExist ==
  ASSUME NEW q \in Seq(Events), NEW n \in 0 .. Len(q)
  PROVE  \E f \in [0 .. n -> Nat] : Sums(q, n, f)
<1> DEFINE Good(k) == \E f \in [0 .. k -> Nat] : Sums(q, k, f)
           Bad == {k \in 0 .. Len(q) : ~Good(k)}
<1>0. Len(q) \in Nat /\ \A i \in 1 .. Len(q) : q[i].par \in Nat
  <2>1. Len(q) \in Nat /\ \A i \in 1 .. Len(q) : q[i] \in Events
    BY LenProperties, ElementOfSeq
  <2> QED  BY <2>1 DEF Events
<1>1. Good(0)
  <2> DEFINE f == [i \in 0 .. 0 |-> 0]
  <2>1. f \in [0 .. 0 -> Nat]  OBVIOUS
  <2>2. f = [i \in 0 .. 0 |-> IF i = 0 THEN 0 ELSE f[i - 1] + q[i].par]  OBVIOUS
  <2> HIDE DEF f
  <2> QED  BY <2>1, <2>2 DEF Sums
<1>2. ASSUME NEW k \in 1 .. Len(q), Good(k - 1)
      PROVE  Good(k)
  <2>1. PICK f \in [0 .. k - 1 -> Nat] : Sums(q, k - 1, f)  BY <1>2
  <2> DEFINE g == [i \in 0 .. k |-> IF i = k THEN f[k - 1] + q[k].par ELSE f[i]]
  <2>2. k \in Nat /\ k - 1 \in Nat /\ q[k].par \in Nat  BY <1>0
  <2>3. g \in [0 .. k -> Nat]
    <3>1. f[k - 1] \in Nat  BY <2>2
    <3>2. \A i \in 0 .. k : i # k => i \in 0 .. k - 1  BY <2>2
    <3> QED  BY <2>2, <3>1, <3>2
  <2>4. \A i \in 0 .. k : g[i] = IF i = 0 THEN 0 ELSE g[i - 1] + q[i].par
    <3> TAKE i \in 0 .. k
    <3>1. \A j \in 0 .. k - 1 : j \in 0 .. k /\ j # k /\ g[j] = f[j]  BY <2>2
    <3>2. CASE i = k
      <4>1. k - 1 \in 0 .. k - 1 /\ k \in 0 .. k  BY <2>2
      <4>2. g[k] = f[k - 1] + q[k].par  BY <4>1
      <4>3. g[k - 1] = f[k - 1]  BY <3>1, <4>1
      <4> HIDE DEF g
      <4> QED  BY <2>2, <3>2, <4>2, <4>3
    <3>3. CASE i # k
      <4>1. i \in 0 .. k - 1  BY <2>2, <3>3
      <4>2. f[i] = IF i = 0 THEN 0 ELSE f[i - 1] + q[i].par  BY <2>1, <4>1 DEF Sums
      <4>3. i # 0 => i - 1 \in 0 .. k - 1  BY <2>2, <4>1
      <4> HIDE DEF g
      <4> QED  BY <3>1, <4>1, <4>2, <4>3
    <3> QED  BY <3>2, <3>3
  <2> HIDE DEF g
  <2>5. g = [i \in 0 .. k |-> IF i = 0 THEN 0 ELSE g[i - 1] + q[i].par]  BY <2>3, <2>4
  <2> QED  BY <2>3, <2>5 DEF Sums
<1>3. SUFFICES ASSUME Bad # {}  PROVE FALSE  OBVIOUS
<1>4. PICK k \in Bad : \A j \in Bad : k <= j
  <2>1. Bad \in SUBSET Nat  OBVIOUS
  <2> HIDE DEF Bad
  <2> QED  BY <1>3, <2>1, LeastNatural
<1>5. k \in 0 .. Len(q) /\ ~Good(k)  OBVIOUS
<1>6. k # 0  BY <1>1, <1>5
<1>7. k \in 1 .. Len(q) /\ k - 1 \in 0 .. Len(q) /\ ~(k <= k - 1)  BY <1>0, <1>5, <1>6
<1>8. Good(k - 1)
  <2>1. k - 1 \notin Bad  BY <1>4, <1>7
  <2> QED  BY <1>7, <2>1
<1> QED  BY <1>2, <1>5, <1>7, <1>8

\* There is a function of the sums, and what is announced is its last value.
LEMMA AnnouncingIs ==
  ASSUME NEW q \in Seq(Events)
  PROVE  \E f \in [0 .. Len(q) -> Nat] :
           /\ f[0] = 0 /\ \A i \in 1 .. Len(q) : f[i] = f[i - 1] + q[i].par
           /\ Announcing(q) = f[Len(q)]
<1> DEFINE f == CHOOSE g : g = [i \in 0 .. Len(q) |-> IF i = 0 THEN 0
                                                      ELSE g[i - 1] + q[i].par]
<1>1. Announcing(q) = f[Len(q)]  BY DEF Announcing
<1>2. Len(q) \in Nat /\ Len(q) \in 0 .. Len(q)  BY LenProperties
<1>3. PICK h \in [0 .. Len(q) -> Nat] : Sums(q, Len(q), h)  BY <1>2, SumsExist
<1>4. f = [i \in 0 .. Len(q) |-> IF i = 0 THEN 0 ELSE f[i - 1] + q[i].par]
  BY <1>3 DEF Sums
<1> HIDE DEF f
<1> DEFINE Bad == {k \in 0 .. Len(q) : f[k] # h[k]}
<1>5. \A i \in 0 .. Len(q) : h[i] = IF i = 0 THEN 0 ELSE h[i - 1] + q[i].par
  BY <1>3 DEF Sums
<1>6. \A i \in 0 .. Len(q) : f[i] = IF i = 0 THEN 0 ELSE f[i - 1] + q[i].par
  BY <1>4
<1>7. Bad = {}
  <2> SUFFICES ASSUME Bad # {}  PROVE FALSE  OBVIOUS
  <2>1. PICK k \in Bad : \A j \in Bad : k <= j
    <3>1. Bad \in SUBSET Nat  BY <1>2
    <3> HIDE DEF Bad
    <3> QED  BY <3>1, LeastNatural
  <2>2. k \in 0 .. Len(q) /\ f[k] # h[k]  OBVIOUS
  <2>3. k # 0  BY <1>5, <1>6, <2>2
  <2>4. k - 1 \in 0 .. Len(q) /\ ~(k <= k - 1)  BY <1>2, <2>2, <2>3
  <2>5. f[k - 1] = h[k - 1]  BY <2>1, <2>4
  <2> QED  BY <1>5, <1>6, <2>2, <2>3, <2>5
<1>8. \A k \in 0 .. Len(q) : f[k] = h[k]  BY <1>7
<1>9. h[0] = 0 /\ \A i \in 1 .. Len(q) : h[i] = h[i - 1] + q[i].par
  BY <1>2, <1>5
<1> QED  BY <1>1, <1>2, <1>8, <1>9

\* Two functions that rise by the same steps differ by the same everywhere.
SameSteps(n, f, g) == /\ \A i \in 0 .. n : f[i] \in Nat /\ g[i] \in Nat
                      /\ \A i \in 1 .. n : f[i] - f[i - 1] = g[i] - g[i - 1]

\* What they differ by at first they differ by at last.
LEMMA SameSums ==
  ASSUME NEW n \in Nat, NEW f, NEW g, NEW d \in Int,
         SameSteps(n, f, g), f[0] = g[0] + d
  PROVE  f[n] = g[n] + d
<1> DEFINE Bad == {i \in 0 .. n : f[i] # g[i] + d}
<1> SUFFICES ASSUME Bad # {}  PROVE FALSE  OBVIOUS
<1>1. PICK i \in Bad : \A j \in Bad : i <= j
  <2>1. Bad \in SUBSET Nat  OBVIOUS
  <2> HIDE DEF Bad
  <2> QED  BY <2>1, LeastNatural
<1>2. i \in 0 .. n /\ f[i] # g[i] + d  OBVIOUS
<1>3. i # 0  BY <1>2
<1>4. i - 1 \in 0 .. n /\ i \in 1 .. n /\ ~(i <= i - 1)  BY <1>2, <1>3
<1>5. f[i - 1] = g[i - 1] + d  BY <1>1, <1>4
<1>6. f[i] - f[i - 1] = g[i] - g[i - 1]  BY <1>4 DEF SameSteps
<1>7. f[i] \in Nat /\ f[i - 1] \in Nat /\ g[i] \in Nat /\ g[i - 1] \in Nat
  BY <1>2, <1>4 DEF SameSteps
<1> DEFINE a == f[i]
           b == f[i - 1]
           x == g[i]
           y == g[i - 1]
<1>8. a # x + d /\ b = y + d /\ a - b = x - y /\ {a, b, x, y} \subseteq Nat
  BY <1>2, <1>5, <1>6, <1>7
<1> HIDE DEF a, b, x, y, Bad
<1> QED  BY ONLY <1>8, d \in Int

\* No events announce nothing.
LEMMA AnnouncingNone == Announcing(<<>>) = 0
<1>1. <<>> \in Seq(Events) /\ Len(<<>>) = 0  OBVIOUS
<1> QED  BY <1>1, AnnouncingIs

\* One more event
LEMMA AnnouncingMore ==
  ASSUME NEW q \in Seq(Events), NEW e \in Events
  PROVE  /\ Announcing(q) \in Nat
         /\ Announcing(Append(q, e)) = Announcing(q) + e.par
<1> DEFINE r == Append(q, e)
           n == Len(q)
<1>1. PICK g \in [0 .. n -> Nat] :
        /\ g[0] = 0 /\ \A i \in 1 .. n : g[i] = g[i - 1] + q[i].par
        /\ Announcing(q) = g[n]
  BY AnnouncingIs
<1>2. /\ r \in Seq(Events) /\ Len(r) = n + 1
      /\ \A i \in 1 .. n : r[i] = q[i] /\ r[n + 1] = e
  BY AppendProperties
<1>3. r[n + 1] = e /\ n \in Nat  BY AppendProperties, LenProperties
<1> HIDE DEF r
<1>4. PICK f \in [0 .. Len(r) -> Nat] :
        /\ f[0] = 0 /\ \A i \in 1 .. Len(r) : f[i] = f[i - 1] + r[i].par
        /\ Announcing(r) = f[Len(r)]
  BY <1>2, AnnouncingIs
<1> HIDE DEF n
<1>5. \A i \in 0 .. n : f[i] \in Nat /\ g[i] \in Nat  BY <1>1, <1>2, <1>3, <1>4
<1>6. e.par \in Nat /\ \A i \in 1 .. n : q[i].par \in Nat
  <2>1. e \in Events /\ \A i \in 1 .. n : q[i] \in Events  BY ElementOfSeq DEF n
  <2> QED  BY <2>1 DEF Events
<1>7. \A i \in 1 .. n : f[i] - f[i - 1] = g[i] - g[i - 1]
  <2> TAKE i \in 1 .. n
  <2>0. i \in 1 .. Len(r) /\ r[i] = q[i]  BY <1>2, <1>3
  <2>1. f[i] = f[i - 1] + q[i].par  BY <1>4, <2>0
  <2>2. g[i] = g[i - 1] + q[i].par  BY <1>1
  <2>3. f[i - 1] \in Nat /\ g[i - 1] \in Nat
    <3>1. i - 1 \in 0 .. n  BY <1>3
    <3> QED  BY <1>5, <3>1
  <2> QED  BY <1>6, <2>1, <2>2, <2>3
<1>8. f[n] = g[n] + 0
  <2>1. f[0] = g[0] + 0 /\ n \in Nat  BY <1>1, <1>3, <1>4
  <2>2. SameSteps(n, f, g)  BY <1>5, <1>7 DEF SameSteps
  <2> QED  BY <2>1, <2>2, SameSums
<1>9. f[n + 1] = f[n] + e.par  BY <1>2, <1>3, <1>4
<1>10. g[n] \in Nat  BY <1>1, <1>3
<1> QED  BY <1>1, <1>2, <1>3, <1>4, <1>6, <1>8, <1>9, <1>10 DEF r

\* The first event is taken out.
LEMMA AnnouncingLess ==
  ASSUME NEW q \in Seq(Events), q # <<>>
  PROVE  Announcing(q) = Head(q).par + Announcing(Tail(q))
<1> DEFINE r == Tail(q)
           n == Len(r)
<1>1. r \in Seq(Events) /\ Len(q) = n + 1 /\ n \in Nat /\ \A i \in 1 .. n : r[i] = q[i + 1]
  <2>1. /\ r \in Seq(Events) /\ Len(r) = Len(q) - 1
        /\ \A i \in 1 .. Len(r) : r[i] = q[i + 1]
    BY HeadTailProperties
  <2>2. Len(q) \in Nat /\ Len(r) \in Nat  BY <2>1, LenProperties
  <2> QED  BY <2>1, <2>2
<1>2. Head(q) = q[1]  OBVIOUS
<1> HIDE DEF r
<1>3. PICK f \in [0 .. Len(q) -> Nat] :
        /\ f[0] = 0 /\ \A i \in 1 .. Len(q) : f[i] = f[i - 1] + q[i].par
        /\ Announcing(q) = f[Len(q)]
  BY AnnouncingIs
<1>4. PICK g \in [0 .. n -> Nat] :
        /\ g[0] = 0 /\ \A i \in 1 .. n : g[i] = g[i - 1] + r[i].par
        /\ Announcing(r) = g[n]
  BY <1>1, AnnouncingIs
<1>5. \A i \in 1 .. Len(q) : q[i].par \in Nat
  <2>1. \A i \in 1 .. Len(q) : q[i] \in Events  BY ElementOfSeq
  <2> QED  BY <2>1 DEF Events
<1> DEFINE d == q[1].par
<1> HIDE DEF n
<1>6. 1 \in 1 .. Len(q) /\ d \in Int  BY <1>1, <1>5
<1> DEFINE h == [i \in 0 .. n |-> f[i + 1]]
<1>7. \A i \in 0 .. n : h[i] = f[i + 1] /\ h[i] \in Nat /\ g[i] \in Nat
  BY <1>1, <1>3, <1>4
<1> HIDE DEF h
<1>8. h[0] = g[0] + d
  <2>1. f[1] = f[0] + q[1].par /\ h[0] = f[1]  BY <1>1, <1>3, <1>6, <1>7
  <2> QED  BY <1>3, <1>4, <1>6, <2>1
<1>9. \A i \in 1 .. n : h[i] - h[i - 1] = g[i] - g[i - 1]
  <2> TAKE i \in 1 .. n
  <2>1. i + 1 \in 1 .. Len(q) /\ i + 1 - 1 = i /\ i \in 0 .. Len(q) /\ i - 1 \in 0 .. n
    BY <1>1
  <2>2. f[i + 1] = f[i] + q[i + 1].par  BY <1>3, <2>1
  <2>3. g[i] = g[i - 1] + q[i + 1].par  BY <1>1, <1>4
  <2>4. f[i] \in Nat /\ g[i - 1] \in Nat /\ q[i + 1].par \in Nat  BY <1>3, <1>4, <1>5, <2>1
  <2>5. h[i] = f[i + 1] /\ h[i - 1] = f[i]
    <3>1. i \in 0 .. n /\ i - 1 + 1 = i  BY <2>1, <1>1
    <3> QED  BY <1>7, <2>1, <3>1
  <2> QED  BY <2>1, <2>2, <2>3, <2>4, <2>5
<1> HIDE DEF d
<1>10. f[n + 1] = g[n] + d
  <2>1. n \in Nat /\ d \in Int  BY <1>1, <1>6
  <2>2. SameSteps(n, h, g)  BY <1>7, <1>9 DEF SameSteps
  <2>3. h[n] = g[n] + d  BY <1>8, <2>1, <2>2, SameSums
  <2> QED  BY <1>1, <1>7, <2>3
<1>11. g[n] \in Nat  BY <1>1, <1>7
<1> QED  BY <1>1, <1>2, <1>3, <1>4, <1>6, <1>10, <1>11 DEF d, r

(***************************************************************************)
(* The invariant, a property of the states s between the functions         *)
(***************************************************************************)
States == [drv : Driver, uart : Uart, tasks : Seq(Events), conn : [Conns -> Conn],
           cur : Conns \cup {None}, net : Net]

\* What TypeOK says of a state, and that no counter has led beyond the buffer
Sized(s) ==
  /\ s \in States
  /\ s.drv.alive
  /\ Len(s.drv.buf) <= BufMax /\ Len(s.uart.rx) <= RxFifo /\ Len(s.uart.tx) <= TxFifo
  /\ Len(s.tasks) <= TaskLen /\ s.net.flight <= SndBuf

\* What events announce, and what was announced by those that were lost
Owed(s) == s.net.lost + Announcing(s.tasks)

\* From the device to the peer
Inward(s) == Holds(s.drv.buf, s.uart.rx, s.net.given, s.uart.sent)

\* From the peer to the device
Outward(s, c) ==
  /\ Holds(s.uart.tx, s.conn[c].pend, s.uart.printed, s.conn[c].got)
  /\ s.conn[c].win + Len(s.conn[c].pend) = Wnd

\* The driver works for the connection tcp2uart_conn, and what is to be sent is in the
\* buffer, also when the connection is being closed.  k: what the event announced that is
\* being handled
DriverOk(s, k) ==
  s.drv.on => /\ s.cur \in Conns /\ s.conn[s.cur].st # "free"
              /\ s.drv.nsnd = s.drv.out /\ s.drv.out <= Len(s.drv.buf)
              /\ Owed(s) + k <= s.drv.nsnd

\* There is one connection, and without the driver it has nothing to do with UART.
ConnOk(s, c, k) ==
  /\ s.conn[c].st = "free" => s.conn[c] = FreeConn
  /\ s.conn[c].st # "free" => c = s.cur
  /\ s.conn[c].st = "open" =>
       /\ Outward(s, c)
       /\ s.drv.on => Inward(s) /\ s.drv.nsnd = s.conn[c].cntro + Owed(s) + k
       /\ ~s.drv.on => s.conn[c].cntro = 0 /\ s.tasks = <<>>

Good(s, k) == Sized(s) /\ DriverOk(s, k) /\ \A c \in Conns : ConnOk(s, c, k)

IInv == cfg \in Cfgs /\ Good(Now, 0)

(***************************************************************************)
(* The functions                                                           *)
(***************************************************************************)
\* The constants
LEMMA Constants ==
  /\ BufMax \in Nat /\ Blk \in Nat /\ Word \in Nat /\ SndBuf \in Nat /\ Wnd \in Nat
  /\ RxFifo \in Nat /\ TxFifo \in Nat /\ TaskLen \in Nat
  /\ 0 < Blk /\ Blk < BufMax /\ BufMax < Word
<1>1. /\ BufMax \in Nat /\ Blk \in Nat /\ Word \in Nat /\ SndBuf \in Nat /\ Wnd \in Nat
      /\ RxFifo \in Nat /\ TxFifo \in Nat /\ TaskLen \in Nat
      /\ 0 < Blk /\ Blk < BufMax /\ 2 * BufMax < Word
  BY BridgeAssumption
<1> QED  BY <1>1

\* The parts of a state
LEMMA PartsAre ==
  ASSUME NEW s \in States
  PROVE  /\ s.drv \in Driver /\ s.uart \in Uart /\ s.tasks \in Seq(Events)
         /\ s.conn \in [Conns -> Conn] /\ s.cur \in Conns \cup {None} /\ s.net \in Net
  BY DEF States

\* The parts of the parts
LEMMA FieldsAre ==
  ASSUME NEW s \in States
  PROVE  /\ s.drv.on \in BOOLEAN /\ s.drv.buf \in Seq(Nat) /\ Len(s.drv.buf) \in Nat
         /\ s.drv.out \in 0 .. Word - 1 /\ s.drv.nsnd \in 0 .. Word - 1
         /\ s.drv.out \in Nat /\ s.drv.nsnd \in Nat
         /\ s.drv.rxen \in BOOLEAN /\ s.drv.txen \in BOOLEAN /\ s.drv.alive \in BOOLEAN
         /\ s.uart.rx \in Seq(Nat) /\ s.uart.tx \in Seq(Nat) /\ s.uart.sent \in Nat
         /\ Len(s.uart.rx) \in Nat /\ Len(s.uart.tx) \in Nat
         /\ s.uart.printed \in Nat /\ s.uart.pause \in {"no", "due", "raised"}
         /\ s.net.given \in Nat /\ s.net.flight \in Nat /\ s.net.lost \in Nat
         /\ s.net.missed \in BOOLEAN /\ s.net.serving \in BOOLEAN
         /\ Len(s.tasks) \in Nat
<1>1. s.drv \in Driver /\ s.uart \in Uart /\ s.net \in Net /\ s.tasks \in Seq(Events)
  BY DEF States
<1>2. /\ s.drv.on \in BOOLEAN /\ s.drv.buf \in Seq(Nat)
      /\ s.drv.out \in 0 .. Word - 1 /\ s.drv.nsnd \in 0 .. Word - 1
      /\ s.drv.rxen \in BOOLEAN /\ s.drv.txen \in BOOLEAN /\ s.drv.alive \in BOOLEAN
  BY <1>1 DEF Driver
<1>3. /\ s.uart.rx \in Seq(Nat) /\ s.uart.tx \in Seq(Nat) /\ s.uart.sent \in Nat
      /\ s.uart.printed \in Nat /\ s.uart.pause \in {"no", "due", "raised"}
  BY <1>1 DEF Uart
<1>4. /\ s.net.given \in Nat /\ s.net.flight \in Nat /\ s.net.lost \in Nat
      /\ s.net.missed \in BOOLEAN /\ s.net.serving \in BOOLEAN
  BY <1>1 DEF Net
<1>5. /\ Len(s.drv.buf) \in Nat /\ Len(s.uart.rx) \in Nat /\ Len(s.uart.tx) \in Nat
      /\ Len(s.tasks) \in Nat
  BY <1>1, <1>2, <1>3, LenProperties
<1>6. s.drv.out \in Nat /\ s.drv.nsnd \in Nat  BY <1>2, Constants
<1> QED  BY <1>2, <1>3, <1>4, <1>5, <1>6

\* The parts of a connection
LEMMA ConnIs ==
  ASSUME NEW s \in States, NEW c \in Conns
  PROVE  /\ s.conn[c] \in Conn
         /\ s.conn[c].st \in {"free", "open", "closing"} /\ s.conn[c].cntro \in Nat
         /\ s.conn[c].wait \in BOOLEAN /\ s.conn[c].pend \in Seq(Nat)
         /\ Len(s.conn[c].pend) \in Nat
         /\ s.conn[c].cntri \in Nat
         /\ s.conn[c].got \in Nat /\ s.conn[c].win \in Int
<1>1. s.conn[c] \in Conn  BY DEF States
<1>2. s.conn[c].pend \in Seq(Nat)  BY <1>1 DEF Conn
<1> QED  BY <1>1, <1>2, LenProperties DEF Conn

\* What is owed is a number.
LEMMA OwedIs ==
  ASSUME NEW s \in States
  PROVE  Owed(s) \in Nat
<1>1. s.tasks \in Seq(Events) /\ s.net.lost \in Nat  BY FieldsAre DEF States
<1>2. [sig |-> "TX", par |-> 0] \in Events  BY DEF Events
<1>3. Announcing(s.tasks) \in Nat  BY <1>1, <1>2, AnnouncingMore
<1> QED  BY <1>1, <1>3 DEF Owed

\* A difference that does not go below zero is one of numbers.
LEMMA LessIs ==
  ASSUME NEW a \in 0 .. Word - 1, NEW b \in Nat, b <= a
  PROVE  Less(a, b) = a - b /\ a - b \in 0 .. Word - 1 /\ a - b \in Nat
<1>1. a - b \in 0 .. Word - 1 /\ a - b \in Nat /\ Word \in Nat /\ Word > 0
  BY Constants
<1>2. (a - b) % Word = a - b  BY <1>1
<1> QED  BY <1>1, <1>2 DEF Less

\* A sum that stays below is one of numbers.
LEMMA SumIs ==
  ASSUME NEW a \in Nat, NEW b \in Nat, a + b < Word
  PROVE  (a + b) % Word = a + b
<1>1. a + b \in 0 .. Word - 1 /\ Word \in Nat /\ Word > 0  BY Constants
<1> QED  BY <1>1

\* A free connection
LEMMA FreeConnIs == /\ FreeConn \in Conn /\ FreeConn.st = "free" /\ FreeConn.cntro = 0
                    /\ FreeConn.pend = <<>> /\ FreeConn.got = 0 /\ FreeConn.win = Wnd
<1>1. Wnd \in Int /\ <<>> \in Seq(Nat)  BY Constants, EmptySeq
<1> QED  BY <1>1 DEF FreeConn, Conn

\* Nothing but the driver is another.
OnlyDriver(s, u) == /\ u.uart = s.uart /\ u.tasks = s.tasks /\ u.conn = s.conn
                    /\ u.cur = s.cur /\ u.net = s.net

\* uart_del_rx_chars, when there are so many characters: both counters are lowered
LEMMA DelRxCharsIs ==
  ASSUME NEW s \in States, NEW n \in 0 .. Len(s.drv.buf), s.drv.on,
         s.drv.nsnd = s.drv.out, n <= s.drv.nsnd
  PROVE  LET u == DelRxChars(s, n)
         IN  /\ u \in States /\ OnlyDriver(s, u)
             /\ u.drv.on /\ u.drv.alive = s.drv.alive
             /\ u.drv.buf = SubSeq(s.drv.buf, n + 1, Len(s.drv.buf))
             /\ u.drv.nsnd = s.drv.nsnd - n /\ u.drv.out = s.drv.out - n
<1> DEFINE u == DelRxChars(s, n)
           b == SubSeq(s.drv.buf, n + 1, Len(s.drv.buf))
           x == Less(s.drv.nsnd, n)
           y == Less(s.drv.out, n)
           r == s.drv.rxen \/ x < BufMax - Blk
           d == [s.drv EXCEPT !.buf = b, !.nsnd = x, !.out = y, !.rxen = r]
<1>1. /\ s.drv \in Driver /\ s.drv.buf \in Seq(Nat) /\ Len(s.drv.buf) \in Nat
      /\ s.drv.nsnd \in 0 .. Word - 1 /\ s.drv.out \in 0 .. Word - 1
      /\ s.drv.rxen \in BOOLEAN /\ n \in Nat
  BY PartsAre, FieldsAre
<1>2. b \in Seq(Nat)
  <2>1. <<>> \in Seq(Nat)  BY EmptySeq
  <2> QED  BY <1>1, <2>1, TakenOff
<1>3. x = s.drv.nsnd - n /\ y = s.drv.out - n /\ x \in 0 .. Word - 1 /\ y \in 0 .. Word - 1
  BY <1>1, LessIs
<1>4. r \in BOOLEAN
  <2>1. (x < BufMax - Blk) \in BOOLEAN  BY <1>3, Constants
  <2> QED  BY <1>1, <2>1
<1>5. ~(n > Len(s.drv.buf) \/ (~s.drv.on /\ n < Len(s.drv.buf)))  BY <1>1
<1>6. u = [s EXCEPT !.drv.buf = b, !.drv.nsnd = x, !.drv.out = y, !.drv.rxen = r]
  BY <1>5 DEF DelRxChars
<1> HIDE DEF b, x, y, r, u
<1>7. u = [s EXCEPT !.drv = d]  BY <1>1, <1>6 DEF States
<1>8. /\ d \in Driver /\ d.on = s.drv.on /\ d.alive = s.drv.alive /\ d.buf = b
      /\ d.nsnd = x /\ d.out = y
  BY <1>1, <1>2, <1>3, <1>4 DEF Driver
<1> HIDE DEF d
<1>9. u \in States /\ OnlyDriver(s, u) /\ u.drv = d
  BY <1>7, <1>8 DEF States, OnlyDriver
<1> QED  BY <1>3, <1>8, <1>9 DEF b, u

\* uart_drv_close: the FIFOs are empty and the interrupts off.
LEMMA DrvCloseIs ==
  ASSUME NEW s \in States
  PROVE  LET u == DrvClose(s)
         IN  /\ u \in States /\ u.tasks = s.tasks /\ u.conn = s.conn /\ u.cur = s.cur
             /\ u.net = s.net
             /\ ~u.drv.on /\ u.drv.alive = s.drv.alive /\ u.drv.buf = s.drv.buf
             /\ u.uart.rx = <<>> /\ u.uart.tx = <<>>
             /\ u.uart.sent = s.uart.sent /\ u.uart.printed = s.uart.printed
<1> DEFINE u == DrvClose(s)
           d == [s.drv EXCEPT !.on = FALSE, !.rxen = FALSE, !.txen = FALSE]
           w == [s.uart EXCEPT !.rx = <<>>, !.tx = <<>>, !.pause = "no"]
<1>1. s.drv \in Driver /\ s.uart \in Uart /\ <<>> \in Seq(Nat)
  BY PartsAre, EmptySeq
<1>2. u = [s EXCEPT !.drv = d, !.uart = w]  BY <1>1 DEF DrvClose, States
<1>3. d \in Driver /\ ~d.on /\ d.alive = s.drv.alive /\ d.buf = s.drv.buf
  BY <1>1 DEF Driver
<1>4. /\ w \in Uart /\ w.rx = <<>> /\ w.tx = <<>> /\ w.sent = s.uart.sent
      /\ w.printed = s.uart.printed
  BY <1>1 DEF Uart
<1> HIDE DEF u, d, w
<1>5. /\ u \in States /\ u.drv = d /\ u.uart = w /\ u.tasks = s.tasks /\ u.conn = s.conn
      /\ u.cur = s.cur /\ u.net = s.net
  BY <1>2, <1>3, <1>4 DEF States
<1> QED  BY <1>3, <1>4, <1>5 DEF u

\* uart_drv_start: the buffer is empty.
LEMMA DrvStartIs ==
  ASSUME NEW s \in States
  PROVE  LET u == DrvStart(s)
         IN  /\ u \in States /\ u.tasks = s.tasks /\ u.conn = s.conn /\ u.cur = s.cur
             /\ u.net = s.net
             /\ u.drv.on /\ u.drv.alive = s.drv.alive /\ u.drv.buf = <<>>
             /\ u.drv.nsnd = 0 /\ u.drv.out = 0
             /\ u.uart.rx = <<>> /\ u.uart.tx = <<>>
             /\ u.uart.sent = s.uart.sent /\ u.uart.printed = s.uart.printed
<1> DEFINE v == DrvClose(s)
           u == DrvStart(s)
           d == [v.drv EXCEPT !.on = TRUE, !.rxen = TRUE, !.buf = <<>>, !.out = 0, !.nsnd = 0]
<1>1. /\ v \in States /\ v.tasks = s.tasks /\ v.conn = s.conn /\ v.cur = s.cur
      /\ v.net = s.net /\ v.drv.alive = s.drv.alive
      /\ v.uart.rx = <<>> /\ v.uart.tx = <<>>
      /\ v.uart.sent = s.uart.sent /\ v.uart.printed = s.uart.printed
  BY DrvCloseIs
<1>2. u = [v EXCEPT !.drv.on = TRUE, !.drv.rxen = TRUE, !.drv.buf = <<>>, !.drv.out = 0,
                    !.drv.nsnd = 0]
  BY DEF DrvStart
<1> HIDE DEF u, v
<1>3. v.drv \in Driver  BY <1>1 DEF States
<1>4. u = [v EXCEPT !.drv = d]  BY <1>1, <1>2, <1>3 DEF States
<1>5. <<>> \in Seq(Nat) /\ 0 \in 0 .. Word - 1  BY Constants, EmptySeq
<1>6. d \in Driver /\ d.on /\ d.alive = v.drv.alive /\ d.buf = <<>> /\ d.nsnd = 0 /\ d.out = 0
  BY <1>3, <1>5 DEF Driver
<1> HIDE DEF d
<1>7. /\ u \in States /\ u.drv = d /\ u.uart = v.uart /\ u.tasks = v.tasks
      /\ u.conn = v.conn /\ u.cur = v.cur /\ u.net = v.net
  BY <1>1, <1>4, <1>6 DEF States
<1> QED  BY <1>1, <1>6, <1>7 DEF u

\* The connection c is the current one and, with net, another.
With(s, c, k, m) == [s EXCEPT !.cur = c, !.conn[c] = k, !.net = m]

\* That is a state, and the rest of it as before.
LEMMA WithIs ==
  ASSUME NEW s \in States, NEW c \in Conns, NEW k \in Conn, NEW m \in Net
  PROVE  LET u == With(s, c, k, m)
         IN  /\ u \in States /\ u.drv = s.drv /\ u.uart = s.uart /\ u.tasks = s.tasks
             /\ u.cur = c /\ u.net = m /\ u.conn[c] = k
             /\ \A d \in Conns : d # c => u.conn[d] = s.conn[d]
<1> DEFINE n == [s.conn EXCEPT ![c] = k]
           u == With(s, c, k, m)
<1>1. s.conn \in [Conns -> Conn]  BY DEF States
<1>2. u = [s EXCEPT !.cur = c, !.conn = n, !.net = m]  BY DEF With
<1>3. n \in [Conns -> Conn] /\ n[c] = k /\ \A d \in Conns : d # c => n[d] = s.conn[d]
  BY <1>1
<1> HIDE DEF n, u
<1>4. /\ u \in States /\ u.drv = s.drv /\ u.uart = s.uart /\ u.tasks = s.tasks
      /\ u.cur = c /\ u.net = m /\ u.conn = n
  BY <1>2, <1>3 DEF States
<1> QED  BY <1>3, <1>4 DEF u

\* len characters of the buffer have been given to TCP, and x more of it are to be.
Handed(s, u, c, len, x) ==
  /\ u \in States /\ u.drv.on /\ u.drv.alive = s.drv.alive
  /\ u.drv.buf = From(s.drv.buf, len)
  /\ u.drv.nsnd = s.drv.nsnd - len /\ u.drv.out = s.drv.out - len
  /\ u.uart = s.uart /\ u.tasks = s.tasks /\ u.cur = s.cur
  /\ u.net.given = s.net.given + len /\ u.net.flight = s.net.flight + len
  /\ u.net.lost = s.net.lost
  /\ u.conn[c].cntro = x /\ u.conn[c].st = "open" /\ u.conn[c].pend = s.conn[c].pend
  /\ u.conn[c].got = s.conn[c].got /\ u.conn[c].win = s.conn[c].win
  /\ \A d \in Conns : d # c => u.conn[d] = s.conn[d]

\* The stream goes on with what follows in the buffer, and the counters with what is left.
LEMMA HandedGood ==
  ASSUME NEW s, NEW k \in Nat, Good(s, k), NEW c \in Conns, s.conn[c].st = "open", s.drv.on,
         NEW x \in Nat, NEW len \in Nat, x + len = s.conn[c].cntro + k, len <= Room(s),
         NEW u, Handed(s, u, c, len, x)
  PROVE  Good(u, 0)
<1>1. Sized(s) /\ s \in States /\ DriverOk(s, k) /\ ConnOk(s, c, k)
  BY DEF Good, Sized
<1>2. /\ s.cur = c /\ s.drv.nsnd = s.drv.out /\ s.drv.out <= Len(s.drv.buf)
      /\ Outward(s, c) /\ Inward(s)
      /\ s.drv.nsnd = s.conn[c].cntro + Owed(s) + k
  BY <1>1 DEF DriverOk, ConnOk
<1>3. /\ s.drv.nsnd \in Nat /\ s.conn[c].cntro \in Nat /\ Owed(s) \in Nat
      /\ s.drv.buf \in Seq(Nat) /\ Len(s.drv.buf) \in Nat
      /\ s.uart.rx \in Seq(Nat) /\ Len(s.uart.rx) \in Nat
      /\ s.net.given \in Nat /\ s.uart.sent \in Nat /\ s.net.flight \in Nat
  BY <1>1, FieldsAre, ConnIs, OwedIs
<1> DEFINE n == s.drv.nsnd
           b == Len(s.drv.buf)
           w == Owed(s)
           o == s.conn[c].cntro
<1>a. /\ n \in Nat /\ b \in Nat /\ w \in Nat /\ o \in Nat /\ n <= b
      /\ n = o + w + k /\ x + len = o + k
  BY <1>2, <1>3
<1>b. u.drv.nsnd = n - len /\ u.drv.out = n - len  BY <1>2 DEF Handed
<1> HIDE DEF n, b, w, o
<1>4. len \in 0 .. b /\ n - len = x + w + 0 /\ n - len <= b - len /\ w + 0 <= n - len
  BY <1>a
<1>6. len \in 0 .. Len(s.drv.buf)  BY <1>4 DEF b
<1>c. /\ From(s.drv.buf, len) \in Seq(Nat) /\ Len(From(s.drv.buf, len)) = Len(s.drv.buf) - len
      /\ Holds(From(s.drv.buf, len), s.uart.rx, s.net.given + len, s.uart.sent)
  BY <1>2, <1>3, <1>6, TakenFromRun DEF Inward
<1>d. Owed(u) = w  BY DEF Handed, Owed, w
<1>e. Len(u.drv.buf) = b - len  BY <1>c DEF Handed, b
<1>7. Inward(u)  BY <1>c DEF Handed, Inward
<1>8. Outward(u, c)  BY <1>2 DEF Handed, Outward
<1>9. /\ u.drv.nsnd = x + Owed(u) + 0 /\ u.drv.nsnd = u.drv.out
      /\ u.drv.out <= Len(u.drv.buf) /\ Owed(u) + 0 <= u.drv.nsnd
  BY <1>4, <1>b, <1>d, <1>e
<1>10. DriverOk(u, 0)  BY <1>2, <1>9 DEF Handed, DriverOk
<1>11. ConnOk(u, c, 0)  BY <1>2, <1>7, <1>8, <1>9 DEF Handed, ConnOk
<1>12. ASSUME NEW d \in Conns, d # c  PROVE ConnOk(u, d, 0)
  <2>1. ConnOk(s, d, k)  BY DEF Good
  <2>2. s.conn[d].st = "free" /\ s.conn[d] = FreeConn
    <3>1. s.conn[d].st = "free"  BY <1>2, <1>12, <2>1 DEF ConnOk
    <3> QED  BY <2>1, <3>1 DEF ConnOk
  <2>3. u.conn[d] = s.conn[d]  BY <1>12 DEF Handed
  <2> QED  BY <2>2, <2>3 DEF ConnOk
<1>13. Sized(u)
  <2>1. u.net.flight <= SndBuf  BY <1>3, Constants DEF Handed, Room
  <2>2. Len(u.drv.buf) <= BufMax
    <3>1. b <= BufMax /\ BufMax \in Nat  BY <1>1, Constants DEF Sized, b
    <3> QED  BY <1>a, <1>e, <3>1
  <2> QED  BY <1>1, <2>1, <2>2 DEF Handed, Sized
<1> QED  BY <1>10, <1>11, <1>12, <1>13 DEF Good
\* A free connection has nothing to be kept in order.
LEMMA FreeOk ==
  ASSUME NEW s, NEW c, NEW k, s.conn[c] = FreeConn
  PROVE  ConnOk(s, c, k)
<1>1. s.conn[c].st = "free"  BY FreeConnIs
<1> QED  BY <1>1 DEF ConnOk

\* There is no other connection.
LEMMA OthersFree ==
  ASSUME NEW s, NEW k, Good(s, k), NEW c \in Conns, s.conn[c].st # "free"
  PROVE  c = s.cur /\ \A d \in Conns : d # c => s.conn[d] = FreeConn
<1>1. \A d \in Conns : ConnOk(s, d, k)  BY DEF Good
<1>2. c = s.cur  BY <1>1 DEF ConnOk
<1>3. ASSUME NEW d \in Conns, d # c  PROVE s.conn[d] = FreeConn
  <2>1. s.conn[d].st = "free"  BY <1>1, <1>2, <1>3 DEF ConnOk
  <2> QED  BY <1>1, <2>1 DEF ConnOk
<1> QED  BY <1>2, <1>3

\* The connection ends, and there is none.
LEMMA EndedGood ==
  ASSUME NEW s, Sized(s), NEW c \in Conns, s.cur = c,
         \A d \in Conns : d # c => s.conn[d] = FreeConn
  PROVE  Good(Ended(s, c), 0)
<1> DEFINE m == [s.net EXCEPT !.flight = 0]
           v == With(s, c, FreeConn, m)
           u == DrvClose(v)
<1>1. s \in States /\ s.net \in Net /\ FreeConn \in Conn  BY PartsAre, FreeConnIs DEF Sized
<1>2. m \in Net /\ m.flight = 0  BY <1>1 DEF Net
<1>3. Ended(s, c) = u
  <2>1. [s EXCEPT !.conn[c] = FreeConn, !.net.flight = 0] = v  BY <1>1 DEF With, States
  <2> QED  BY <2>1 DEF Ended
<1> HIDE DEF m, v
<1>4. /\ v \in States /\ v.drv = s.drv /\ v.uart = s.uart /\ v.tasks = s.tasks
      /\ v.net = m /\ v.conn[c] = FreeConn
      /\ \A d \in Conns : d # c => v.conn[d] = s.conn[d]
  BY <1>1, <1>2, WithIs DEF v
<1>5. /\ u \in States /\ u.tasks = v.tasks /\ u.conn = v.conn /\ u.net = v.net
      /\ ~u.drv.on /\ u.drv.alive = v.drv.alive /\ u.drv.buf = v.drv.buf
      /\ u.uart.rx = <<>> /\ u.uart.tx = <<>>
  BY <1>4, DrvCloseIs
<1> HIDE DEF u
<1>6. Sized(u)
  <2>1. Len(u.uart.rx) <= RxFifo /\ Len(u.uart.tx) <= TxFifo /\ 0 <= SndBuf
    BY <1>5, Constants
  <2> QED  BY <1>2, <1>4, <1>5, <2>1 DEF Sized
<1>7. ASSUME NEW d \in Conns  PROVE ConnOk(u, d, 0)
  <2>1. u.conn[d] = FreeConn  BY <1>4, <1>5
  <2> QED  BY <2>1, FreeOk
<1>8. DriverOk(u, 0)  BY <1>5 DEF DriverOk
<1> QED  BY <1>3, <1>6, <1>7, <1>8 DEF Good

\* It ends, or waits for memory with the driver as it was.
LEMMA ServerCloseGood ==
  ASSUME NEW s, Good(s, 0), NEW c \in Conns, s.conn[c].st = "open",
         NEW u \in ServerClose(s, c)
  PROVE  Good(u, 0)
<1>1. c = s.cur /\ \A d \in Conns : d # c => s.conn[d] = FreeConn
  BY OthersFree
<1>2. Sized(s) /\ s \in States /\ DriverOk(s, 0)  BY DEF Good, Sized
<1>3. CASE u = Ended(s, c)  BY <1>1, <1>2, <1>3, EndedGood
<1>4. CASE u = [s EXCEPT !.conn[c] = [FreeConn EXCEPT !.st = "closing"]]
  <2> DEFINE k == [FreeConn EXCEPT !.st = "closing"]
             v == With(s, c, k, s.net)
  <2>1. k \in Conn /\ k.st = "closing"  BY FreeConnIs DEF Conn
  <2>2. u = v  BY <1>1, <1>2, <1>4 DEF With, States
  <2>3. s.net \in Net  BY <1>2, PartsAre
  <2> HIDE DEF k, v
  <2>4. /\ v \in States /\ v.drv = s.drv /\ v.uart = s.uart /\ v.tasks = s.tasks
        /\ v.cur = c /\ v.net = s.net /\ v.conn[c] = k
        /\ \A d \in Conns : d # c => v.conn[d] = s.conn[d]
    BY <1>2, <2>1, <2>3, WithIs DEF v
  <2>5. Sized(v)  BY <1>2, <2>4 DEF Sized
  <2>6. DriverOk(v, 0)  BY <1>1, <1>2, <2>1, <2>4 DEF DriverOk, Owed
  <2>7. ConnOk(v, c, 0)  BY <2>1, <2>4 DEF ConnOk
  <2>8. ASSUME NEW d \in Conns  PROVE ConnOk(v, d, 0)
    <3>1. d # c => v.conn[d] = FreeConn  BY <1>1, <2>4
    <3> QED  BY <2>7, <3>1, FreeOk
  <2> QED  BY <2>2, <2>5, <2>6, <2>8 DEF Good
<1> QED  BY <1>3, <1>4 DEF ServerClose

\* What an event announced is counted among what is to be sent.
LEMMA CountedGood ==
  ASSUME NEW s, NEW k \in Nat, Good(s, k), NEW c \in Conns, s.conn[c].st # "free", s.drv.on
  PROVE  LET u == [s EXCEPT !.conn[c].cntro = s.conn[c].cntro + k]
         IN  /\ Good(u, 0) /\ u.drv = s.drv /\ u.uart = s.uart /\ u.tasks = s.tasks
             /\ u.cur = c /\ u.net = s.net
             /\ u.conn[c] = [s.conn[c] EXCEPT !.cntro = s.conn[c].cntro + k]
             /\ \A d \in Conns : d # c => u.conn[d] = FreeConn
<1> DEFINE x == s.conn[c].cntro + k
           e == [s.conn[c] EXCEPT !.cntro = x]
           u == [s EXCEPT !.conn[c].cntro = x]
           v == With(s, c, e, s.net)
<1>1. c = s.cur /\ \A d \in Conns : d # c => s.conn[d] = FreeConn
  BY OthersFree
<1>2. Sized(s) /\ s \in States /\ DriverOk(s, k) /\ ConnOk(s, c, k)  BY DEF Good, Sized
<1>3. /\ s.conn[c] \in Conn /\ s.conn[c].cntro \in Nat
      /\ s.conn[c].st \in {"free", "open", "closing"}
      /\ s.conn[c].pend \in Seq(Nat) /\ s.net \in Net /\ Owed(s) \in Nat /\ s.drv.nsnd \in Nat
  BY <1>2, ConnIs, PartsAre, OwedIs, FieldsAre
<1>4. x \in Nat  BY <1>3
<1>5. u = v  BY <1>1, <1>2 DEF With, States
<1>6. x + Owed(s) + 0 = s.conn[c].cntro + Owed(s) + k
  <2> DEFINE a == s.conn[c].cntro
             w == Owed(s)
  <2>1. a \in Nat /\ w \in Nat  BY <1>3
  <2> HIDE DEF a, w
  <2>2. a + k + w + 0 = a + w + k  BY <2>1
  <2> QED  BY <2>2 DEF a, w
<1> HIDE DEF x
<1>7. /\ e \in Conn /\ e.cntro = x /\ e.st = s.conn[c].st /\ e.pend = s.conn[c].pend
      /\ e.got = s.conn[c].got /\ e.win = s.conn[c].win
  BY <1>3, <1>4 DEF Conn
<1> HIDE DEF e, v, u
<1>8. /\ v \in States /\ v.drv = s.drv /\ v.uart = s.uart /\ v.tasks = s.tasks
      /\ v.cur = c /\ v.net = s.net /\ v.conn[c] = e
      /\ \A d \in Conns : d # c => v.conn[d] = s.conn[d]
  BY <1>2, <1>3, <1>7, WithIs DEF v
<1>9. Sized(v)  BY <1>2, <1>8 DEF Sized
<1>10. Owed(v) = Owed(s)  BY <1>8 DEF Owed
<1>11. DriverOk(v, 0)
  <2>1. /\ s.drv.nsnd = s.drv.out /\ s.drv.out <= Len(s.drv.buf) /\ Owed(s) + k <= s.drv.nsnd
    BY <1>2 DEF DriverOk
  <2>2. Owed(s) + 0 <= s.drv.nsnd
    <3> DEFINE a == s.drv.nsnd
               w == Owed(s)
    <3>1. a \in Nat /\ w \in Nat /\ w + k <= a  BY <1>3, <2>1
    <3> HIDE DEF a, w
    <3>2. w + 0 <= a  BY <3>1
    <3> QED  BY <3>2 DEF a, w
  <2> QED  BY <1>7, <1>8, <1>10, <2>1, <2>2 DEF DriverOk
<1>12. ConnOk(v, c, 0)
  <2>1. ASSUME s.conn[c].st = "open"
        PROVE  Outward(v, c) /\ Inward(v) /\ v.drv.nsnd = v.conn[c].cntro + Owed(v) + 0
    <3>1. Outward(s, c) /\ Inward(s) /\ s.drv.nsnd = s.conn[c].cntro + Owed(s) + k
      BY <1>2, <2>1 DEF ConnOk
    <3> QED  BY <1>6, <1>7, <1>8, <1>10, <3>1 DEF Outward, Inward
  <2> QED  BY <1>7, <1>8, <2>1 DEF ConnOk
<1>13. ASSUME NEW d \in Conns  PROVE ConnOk(v, d, 0)
  <2>1. d # c => v.conn[d] = FreeConn  BY <1>1, <1>8
  <2> QED  BY <1>12, <2>1, FreeOk
<1>14. Good(v, 0)  BY <1>9, <1>11, <1>13 DEF Good
<1> QED  BY <1>1, <1>5, <1>8, <1>14 DEF u, e, x
\* What of the buffer is given to TCP for an open connection is taken out of it.
LEMMA GivenGood ==
  ASSUME NEW s, NEW k \in Nat, Good(s, k), NEW c \in Conns, s.conn[c].st = "open", s.drv.on,
         NEW x \in Nat, NEW len \in Nat, x + len = s.conn[c].cntro + k, len <= Room(s),
         NEW e \in Conn, e.cntro = x, e.st = "open", e.pend = s.conn[c].pend,
         e.got = s.conn[c].got, e.win = s.conn[c].win,
         NEW m \in Net, m = [s.net EXCEPT !.given = s.net.given + len,
                                          !.flight = s.net.flight + len]
  PROVE  Good(DelRxChars(With(s, c, e, m), len), 0)
<1> DEFINE v == With(s, c, e, m)
           u == DelRxChars(v, len)
<1>1. c = s.cur  BY OthersFree
<1>2. Sized(s) /\ s \in States /\ DriverOk(s, k) /\ ConnOk(s, c, k)  BY DEF Good, Sized
<1>3. /\ v \in States /\ v.drv = s.drv /\ v.uart = s.uart /\ v.tasks = s.tasks
      /\ v.cur = c /\ v.net = m /\ v.conn[c] = e
      /\ \A d \in Conns : d # c => v.conn[d] = s.conn[d]
  BY <1>2, WithIs
<1>4. /\ m.given = s.net.given + len /\ m.flight = s.net.flight + len
      /\ m.lost = s.net.lost
  <2>1. s.net \in Net  BY <1>2, PartsAre
  <2> QED  BY <2>1 DEF Net
<1> HIDE DEF v
<1>5. /\ v.drv.nsnd = v.drv.out /\ len \in 0 .. Len(v.drv.buf) /\ len <= v.drv.nsnd
  <2> DEFINE n == s.drv.nsnd
             b == Len(s.drv.buf)
             w == Owed(s)
             o == s.conn[c].cntro
  <2>1. n = s.drv.out /\ n <= b /\ n = o + w + k
    BY <1>2 DEF DriverOk, ConnOk
  <2>2. n \in Nat /\ b \in Nat /\ w \in Nat /\ o \in Nat /\ x + len = o + k
    BY <1>2, FieldsAre, ConnIs, OwedIs
  <2> HIDE DEF n, b, w, o
  <2>3. len <= n /\ len \in 0 .. b  BY <2>1, <2>2
  <2> QED  BY <1>3, <2>1, <2>3 DEF n, b
<1>6. /\ u \in States /\ OnlyDriver(v, u) /\ u.drv.on /\ u.drv.alive = v.drv.alive
      /\ u.drv.buf = SubSeq(v.drv.buf, len + 1, Len(v.drv.buf))
      /\ u.drv.nsnd = v.drv.nsnd - len /\ u.drv.out = v.drv.out - len
  BY <1>3, <1>5, DelRxCharsIs
<1> HIDE DEF u
<1>7. Handed(s, u, c, len, x)
  <2>1. /\ u.drv.buf = From(s.drv.buf, len) /\ u.drv.nsnd = s.drv.nsnd - len
        /\ u.drv.out = s.drv.out - len
    BY <1>3, <1>6 DEF From
  <2>2. /\ u.uart = s.uart /\ u.tasks = s.tasks /\ u.cur = s.cur /\ u.net = m
        /\ u.conn[c] = e /\ \A d \in Conns : d # c => u.conn[d] = s.conn[d]
    BY <1>1, <1>3, <1>6 DEF OnlyDriver
  <2> QED  BY <1>3, <1>4, <1>6, <2>1, <2>2 DEF Handed
<1> QED  BY <1>7, HandedGood DEF u, v

\* When the connection is being closed, what it would have been given is taken out all
\* the same.
LEMMA DropGood ==
  ASSUME NEW s, Good(s, 0), NEW c \in Conns, s.conn[c].st = "closing", s.drv.on,
         NEW n \in Nat, DriverOk(s, n)
  PROVE  Good(DelRxChars(s, n), 0)
<1> DEFINE u == DelRxChars(s, n)
           x == s.drv.nsnd
           b == Len(s.drv.buf)
           w == Owed(s)
<1>1. Sized(s) /\ s \in States  BY DEF Good, Sized
<1>2. x = s.drv.out /\ x <= b /\ w + n <= x /\ s.cur \in Conns /\ s.conn[s.cur].st # "free"
  BY DEF DriverOk
<1>3. x \in Nat /\ b \in Nat /\ w \in Nat /\ s.drv.buf \in Seq(Nat)
  BY <1>1, FieldsAre, OwedIs
<1> HIDE DEF x, b, w
<1>4. n \in 0 .. b /\ n <= x /\ x - n <= b - n /\ w + 0 <= x - n /\ b - n <= b
  BY <1>2, <1>3
<1>5. n \in 0 .. Len(s.drv.buf) /\ s.drv.nsnd = s.drv.out /\ n <= s.drv.nsnd
  BY <1>2, <1>4 DEF b, x
<1>6. /\ u \in States /\ OnlyDriver(s, u) /\ u.drv.on /\ u.drv.alive = s.drv.alive
      /\ u.drv.buf = SubSeq(s.drv.buf, n + 1, Len(s.drv.buf))
      /\ u.drv.nsnd = s.drv.nsnd - n /\ u.drv.out = s.drv.out - n
  BY <1>1, <1>5, DelRxCharsIs
<1> HIDE DEF u
<1>7. Len(u.drv.buf) = b - n
  <2>1. <<>> \in Seq(Nat)  BY EmptySeq
  <2> QED  BY <1>3, <1>5, <1>6, <2>1, TakenOff DEF b
<1>8. Sized(u)
  <2>1. b <= BufMax /\ BufMax \in Nat  BY <1>1, Constants DEF Sized, b
  <2>2. b - n <= BufMax  BY <1>3, <1>4, <2>1
  <2> QED  BY <1>1, <1>6, <1>7, <2>2 DEF Sized, OnlyDriver
<1>9. Owed(u) = w  BY <1>6 DEF OnlyDriver, Owed, w
<1>10. DriverOk(u, 0)
  <2>1. u.drv.nsnd = x - n /\ u.drv.out = x - n  BY <1>2, <1>6 DEF x
  <2> QED  BY <1>2, <1>4, <1>6, <1>7, <1>9, <2>1 DEF DriverOk, OnlyDriver
<1>11. ASSUME NEW d \in Conns  PROVE ConnOk(u, d, 0)
  <2>1. d # c => s.conn[d] = FreeConn  BY OthersFree
  <2>2. u.conn = s.conn /\ u.cur = s.cur  BY <1>6 DEF OnlyDriver
  <2>3. c = s.cur  BY OthersFree
  <2>4. ConnOk(u, c, 0)  BY <2>2, <2>3 DEF ConnOk
  <2> QED  BY <2>1, <2>2, <2>4, FreeOk
<1> QED  BY <1>8, <1>10, <1>11 DEF Good, u

\* What there is room for is given to TCP, and the rest waits.
LEMMA SendRxBufGood ==
  ASSUME NEW s, NEW k \in Nat, Good(s, k), s.drv.on, "write" \notin cfg.faults,
         NEW u \in SendRxBuf(s, k)
  PROVE  Good(u, 0)
<1> DEFINE c == s.cur
           x == s.conn[c].cntro + k
           r == Room(s)
           len == Min({r, k})
           v == [s EXCEPT !.conn[c].cntro = x]
<1>1. c \in Conns /\ s.conn[c].st # "free" /\ Sized(s) /\ s \in States
  BY DEF Good, DriverOk, Sized
<1>2. c # None  BY <1>1, BridgeAssumption
<1>3. s.conn[c].cntro \in Nat /\ s.net.flight \in Nat /\ s.conn[c] \in Conn /\ s.net \in Net
      /\ s.net.given \in Nat
  BY <1>1, ConnIs, FieldsAre, PartsAre
<1>4. /\ Good(v, 0) /\ v.drv = s.drv /\ v.uart = s.uart /\ v.tasks = s.tasks
      /\ v.cur = c /\ v.net = s.net
      /\ v.conn[c] = [s.conn[c] EXCEPT !.cntro = x]
      /\ \A d \in Conns : d # c => v.conn[d] = FreeConn
  BY <1>1, CountedGood
<1>5. r \in Nat
  <2>1. s.net.flight <= SndBuf  BY <1>1 DEF Sized
  <2> QED  BY <1>3, <2>1, Constants DEF Room
<1> HIDE DEF v, r
<1>6. len \in Nat /\ len <= r /\ len <= k
  <2>1. r \in Int /\ k \in Int  BY <1>5
  <2>2. len \in {r, k} /\ len <= r /\ len <= k  BY <2>1, MinIs
  <2> QED  BY <1>5, <2>2
<1> HIDE DEF len
<1>7. CASE s.conn[c].cntro > 0 \/ s.conn[c].wait
  <2>1. u = [s EXCEPT !.conn[c].cntro = @ + k]  BY <1>1, <1>2, <1>7 DEF SendRxBuf
  <2>2. u = v  BY <1>1, <2>1 DEF States, v
  <2> QED  BY <1>4, <2>2
<1>8. CASE ~(s.conn[c].cntro > 0 \/ s.conn[c].wait)
  <2> DEFINE w == [s EXCEPT !.conn[c].cntro = k]
  <2>1. PICK y \in IntSentData(w, c, len) : u = IF len > 0 THEN DelRxChars(y, len) ELSE y
    BY <1>1, <1>2, <1>8 DEF SendRxBuf, len, r
  <2>2. s.conn[c].cntro = 0  BY <1>3, <1>8
  <2>3. x = k  BY <2>2
  <2>4. w = v  BY <1>1, <2>3 DEF States, v
  <2> HIDE DEF w
  <2>5. CASE len = 0
    <3>1. y = v  BY <2>1, <2>4, <2>5 DEF IntSentData
    <3> QED  BY <1>4, <2>1, <2>5, <3>1
  <2>6. CASE len # 0 /\ s.conn[c].st = "closing"
    <3>1. v.conn[c].st = "closing"  BY <1>3, <1>4, <2>6 DEF Conn
    <3>2. y = v  BY <2>1, <2>4, <3>1 DEF IntSentData
    <3>3. u = DelRxChars(v, len)  BY <1>6, <2>1, <2>6, <3>2
    <3>4. DriverOk(v, len)
      <4>1. DriverOk(s, k) /\ DriverOk(v, 0)  BY <1>4 DEF Good
      <4>2. Owed(v) = Owed(s) /\ v.drv.nsnd = s.drv.nsnd  BY <1>4 DEF Owed
      <4>3. Owed(s) + k <= s.drv.nsnd /\ s.drv.nsnd \in Nat /\ Owed(s) \in Nat
        BY <1>1, <4>1, FieldsAre, OwedIs DEF DriverOk
      <4>4. Owed(s) + len <= s.drv.nsnd
        <5> DEFINE a == s.drv.nsnd
                   b == Owed(s)
        <5>1. a \in Nat /\ b \in Nat /\ b + k <= a  BY <4>3
        <5> HIDE DEF a, b
        <5>2. b + len <= a  BY <1>6, <5>1
        <5> QED  BY <5>2 DEF a, b
      <4> QED  BY <1>4, <4>1, <4>2, <4>4 DEF DriverOk
    <3>5. v.drv.on  BY <1>4
    <3> QED  BY <1>1, <1>4, <1>6, <3>1, <3>3, <3>4, <3>5, DropGood
  <2>7. CASE len # 0 /\ s.conn[c].st = "open"
    <3> DEFINE z == k - len
               e == [s.conn[c] EXCEPT !.cntro = z, !.wait = TRUE]
               m == [s.net EXCEPT !.given = s.net.given + len, !.flight = s.net.flight + len]
    <3>1. z \in Nat /\ z + len = s.conn[c].cntro + k /\ len <= Room(s)
      BY <1>6, <2>2 DEF r
    <3>2. v.conn[c].st = "open" /\ v.conn[c].cntro = k  BY <1>3, <1>4, <2>3, <2>7 DEF Conn
    <3>3. y = [Given(v, len) EXCEPT !.conn[c].cntro = @ - len, !.conn[c].wait = TRUE]
      BY <2>1, <2>4, <2>7, <3>2 DEF IntSentData
    <3>4. y = With(s, c, e, m)
      <4>1. s.conn \in [Conns -> Conn]  BY <1>1, PartsAre
      <4>2. v \in States /\ v.conn[c] \in Conn  BY <1>1, <1>4, ConnIs DEF Good, Sized
      <4>3. Given(v, len) = [v EXCEPT !.net = m]
        BY <1>3, <1>4, <4>2 DEF Given, States, Net
      <4> DEFINE f == [v.conn[c] EXCEPT !.cntro = v.conn[c].cntro - len, !.wait = TRUE]
      <4>4. y = [v EXCEPT !.net = m, !.conn[c] = f]
        <5> HIDE DEF m, v
        <5>1. y = [[v EXCEPT !.net = m] EXCEPT !.conn[c].cntro = @ - len, !.conn[c].wait = TRUE]
          BY <3>3, <4>3
        <5>2. v.conn \in [Conns -> Conn] /\ v \in States /\ c \in Conns  BY <1>1, <4>2, PartsAre
        <5> QED  BY <5>1, <5>2 DEF States, Conn
      <4>5. f = e  BY <1>3, <1>4, <2>3, <4>2 DEF Conn
      <4> HIDE DEF f, e, m
      <4>6. v = [s EXCEPT !.conn[c].cntro = x]  BY DEF v
      <4> HIDE DEF x
      <4>7. [v EXCEPT !.net = m, !.conn[c] = e] = [s EXCEPT !.cur = c, !.conn[c] = e, !.net = m]
        BY <1>1, <4>1, <4>6 DEF States
      <4> QED  BY <4>4, <4>5, <4>7 DEF With
    <3> HIDE DEF z
    <3>5. /\ e \in Conn /\ e.cntro = z /\ e.st = "open" /\ e.pend = s.conn[c].pend
          /\ e.got = s.conn[c].got /\ e.win = s.conn[c].win
      BY <1>3, <2>7, <3>1 DEF Conn
    <3>6. m \in Net
      <4>1. s.net.given + len \in Nat /\ s.net.flight + len \in Nat  BY <1>3, <1>6
      <4> QED  BY <1>3, <4>1 DEF Net
    <3>7. m = [s.net EXCEPT !.given = s.net.given + len, !.flight = s.net.flight + len]
      OBVIOUS
    <3> HIDE DEF e, m
    <3>8. Good(DelRxChars(With(s, c, e, m), len), 0)
      BY <1>1, <1>6, <2>7, <3>1, <3>5, <3>6, <3>7, GivenGood
    <3> QED  BY <1>6, <2>1, <2>7, <3>4, <3>8
  <2>8. s.conn[c].st = "open" \/ s.conn[c].st = "closing"  BY <1>1, ConnIs
  <2> QED  BY <2>5, <2>6, <2>7, <2>8
<1> QED  BY <1>7, <1>8
\* As much of what waits as there is room for is given to TCP.
LEMMA SentCbGood ==
  ASSUME NEW s, Good(s, 0), NEW c \in Conns, s.conn[c].st = "open", "write" \notin cfg.faults,
         NEW u \in SentCb(s, c)
  PROVE  Good(u, 0)
<1> DEFINE o == s.conn[c].cntro
           r == Room(s)
           len == Min({r, o})
           x == o - len
           t == [s EXCEPT !.cur = c, !.conn[c].cntro = x]
<1>1. c = s.cur /\ Sized(s) /\ s \in States /\ ConnOk(s, c, 0)
  BY OthersFree DEF Good, Sized
<1>2. /\ o \in Nat /\ s.net.flight \in Nat /\ s.conn[c] \in Conn /\ s.net \in Net
      /\ s.net.given \in Nat /\ s.conn \in [Conns -> Conn]
  BY <1>1, ConnIs, FieldsAre, PartsAre
<1>3. r \in Nat
  <2>1. s.net.flight <= SndBuf  BY <1>1 DEF Sized
  <2> QED  BY <1>2, <2>1, Constants DEF Room
<1>4. u = IF len = 0 THEN t ELSE DelRxChars(Given(t, len), len)  BY DEF SentCb
<1> HIDE DEF r
<1>5. len \in Nat /\ len <= r /\ len <= o
  <2>1. r \in Int /\ o \in Int  BY <1>2, <1>3
  <2> HIDE DEF o
  <2>2. len \in {r, o} /\ len <= r /\ len <= o  BY <2>1, MinIs
  <2> QED  BY <1>2, <1>3, <2>2 DEF o
<1> HIDE DEF len
<1>6. x \in Nat /\ x + len = o + 0  BY <1>2, <1>5
<1>7. CASE len = 0
  <2>1. x = o  BY <1>2, <1>7
  <2> DEFINE g == [s.conn[c] EXCEPT !.cntro = x]
             h == [s.conn EXCEPT ![c] = g]
  <2>2. t = [s EXCEPT !.cur = c, !.conn = h]  BY <1>1, <1>2 DEF States
  <2>3. g = s.conn[c]  BY <1>2, <2>1 DEF Conn
  <2> HIDE DEF g
  <2>4. h = s.conn  BY <1>2, <2>3
  <2> HIDE DEF h, t
  <2>5. t = s  BY <1>1, <2>2, <2>4 DEF States
  <2> QED  BY <1>4, <1>7, <2>5
<1>8. CASE len # 0
  <2> DEFINE e == [s.conn[c] EXCEPT !.cntro = x]
             m == [s.net EXCEPT !.given = s.net.given + len, !.flight = s.net.flight + len]
  <2>1. s.drv.on
    <3>1. o # 0  BY <1>2, <1>5, <1>8
    <3> QED  BY <1>1, <3>1 DEF ConnOk
  <2>2. x \in Nat /\ x + len = s.conn[c].cntro + 0 /\ len <= Room(s)
    BY <1>5, <1>6 DEF r
  <2> HIDE DEF x
  <2>3. /\ e \in Conn /\ e.cntro = x /\ e.st = "open" /\ e.pend = s.conn[c].pend
        /\ e.got = s.conn[c].got /\ e.win = s.conn[c].win
    BY <1>2, <2>2 DEF Conn
  <2>4. m \in Net
    <3>1. s.net.given + len \in Nat /\ s.net.flight + len \in Nat  BY <1>2, <1>5
    <3> QED  BY <1>2, <3>1 DEF Net
  <2>5. m = [s.net EXCEPT !.given = s.net.given + len, !.flight = s.net.flight + len]
    OBVIOUS
  <2>6. Given(t, len) = With(s, c, e, m)
    <3>1. Given(t, len) = [t EXCEPT !.net = m]  BY <1>1, <1>2 DEF Given, States, Net
    <3> HIDE DEF m
    <3>2. [t EXCEPT !.net = m] = [s EXCEPT !.cur = c, !.conn[c] = e, !.net = m]
      BY <1>1, <1>2 DEF States
    <3> QED  BY <3>1, <3>2 DEF With
  <2> HIDE DEF e, m
  <2>7. Good(DelRxChars(With(s, c, e, m), len), 0)
    BY <1>5, <2>1, <2>2, <2>3, <2>4, <2>5, GivenGood
  <2> QED  BY <1>4, <1>8, <2>6, <2>7
<1> QED  BY <1>7, <1>8

\* What fits goes from pbufi to the transmit FIFO, and the window is opened by as much.
LEMMA SendTxBufGood ==
  ASSUME NEW s, NEW k \in Nat, Good(s, k)
  PROVE  Good(SendTxBuf(s), k)
<1> DEFINE c == s.cur
           q == s.uart.tx
           p == s.conn[c].pend
           n == Min({TxFifo - Len(q), Len(p)})
           on == s.drv.txen \/ n < Len(p)
           qq == q \o SubSeq(p, 1, n)
           pp == SubSeq(p, n + 1, Len(p))
           i == s.conn[c].cntri + n
           x == s.conn[c].win + n
           d == [s.drv EXCEPT !.txen = on]
           w == [s.uart EXCEPT !.tx = qq]
           e == [s.conn[c] EXCEPT !.pend = pp, !.cntri = i, !.win = x]
           f == [s.conn EXCEPT ![c] = e]
           u == [s EXCEPT !.drv = d, !.uart = w, !.conn = f]
<1>1. Sized(s) /\ s \in States  BY DEF Good, Sized
<1>2. CASE c = None \/ p = <<>>  BY <1>2 DEF SendTxBuf
<1>3. CASE c # None /\ p # <<>>
  <2>1. c \in Conns  BY <1>1, <1>3, PartsAre
  <2>2. /\ s.conn[c] \in Conn /\ p \in Seq(Nat) /\ Len(p) \in Nat /\ s.conn[c].win \in Int
        /\ s.conn[c].got \in Nat /\ s.conn[c].cntri \in Nat
    BY <1>1, <2>1, ConnIs
  <2>3. /\ q \in Seq(Nat) /\ Len(q) \in Nat /\ s.drv \in Driver /\ s.uart \in Uart
        /\ s.conn \in [Conns -> Conn] /\ s.drv.txen \in BOOLEAN /\ Len(q) <= TxFifo
    BY <1>1, FieldsAre, PartsAre DEF Sized
  <2>4. s.conn[c].st # "free"
    <3>1. s.conn[c].st = "free" => s.conn[c] = FreeConn  BY <2>1 DEF Good, ConnOk
    <3> QED  BY <1>3, <3>1, FreeConnIs
  <2>5. SendTxBuf(s) = u
    <3>1. SendTxBuf(s) = [s EXCEPT !.uart.tx = qq, !.drv.txen = on, !.conn[c].pend = pp,
                                   !.conn[c].cntri = i, !.conn[c].win = x]
      BY <1>3 DEF SendTxBuf
    <3> HIDE DEF qq, pp, i, x, on, p, q
    <3> DEFINE g == [s.conn EXCEPT ![c].pend = pp, ![c].cntri = i, ![c].win = x]
    <3>2. SendTxBuf(s) = [s EXCEPT !.drv = d, !.uart = w, !.conn = g]
      BY <1>1, <2>1, <3>1 DEF States
    <3>3. g = f  BY <2>1, <2>2, <2>3 DEF Conn
    <3> HIDE DEF g, f
    <3> QED  BY <3>2, <3>3
  <2>6. n \in 0 .. Len(p) /\ Len(q) + n <= TxFifo /\ n \in Nat
    <3> DEFINE a == TxFifo - Len(q)
               b == Len(p)
               l == Len(q)
    <3>1. /\ a \in Int /\ b \in Int /\ a >= 0 /\ b >= 0 /\ l \in Nat
          /\ a = TxFifo - l /\ TxFifo \in Nat
      BY <2>2, <2>3, Constants
    <3> HIDE DEF a, b, l
    <3>2. Min({a, b}) \in {a, b} /\ Min({a, b}) <= a /\ Min({a, b}) <= b  BY <3>1, MinIs
    <3> DEFINE z == Min({a, b})
    <3> HIDE DEF z
    <3>3. z \in {a, b} /\ z <= a /\ z <= b  BY <3>2 DEF z
    <3>4. z \in 0 .. b /\ l + z <= TxFifo /\ z \in Nat  BY <3>1, <3>3
    <3> QED  BY <3>4 DEF a, b, l, z
  <2>7. on \in BOOLEAN  BY <2>2, <2>3, <2>6
  <2> HIDE DEF n, on
  <2>8. /\ q \o SubSeq(p, 1, n) \in Seq(Nat) /\ Len(q \o SubSeq(p, 1, n)) = Len(q) + n
        /\ SubSeq(p, n + 1, Len(p)) \in Seq(Nat)
        /\ Len(SubSeq(p, n + 1, Len(p))) = Len(p) - n
        /\ (q \o SubSeq(p, 1, n)) \o SubSeq(p, n + 1, Len(p)) = q \o p
    BY <2>2, <2>3, <2>6, Moved
  <2>9. x \in Int /\ x + (Len(p) - n) = s.conn[c].win + Len(p)
    <3> DEFINE a == s.conn[c].win
               b == Len(p)
    <3>1. a \in Int /\ b \in Nat  BY <2>2
    <3> HIDE DEF a, b
    <3>2. a + n \in Int /\ a + n + (b - n) = a + b  BY <2>6, <3>1
    <3> QED  BY <3>2 DEF a, b
  <2>10. /\ d \in Driver /\ d.on = s.drv.on /\ d.alive = s.drv.alive /\ d.buf = s.drv.buf
         /\ d.nsnd = s.drv.nsnd /\ d.out = s.drv.out
    BY <2>3, <2>7 DEF Driver
  <2>20. i \in Nat  BY <2>2, <2>6
  <2> HIDE DEF qq, pp, i, x
  <2>11. /\ w \in Uart /\ w.tx = qq /\ w.rx = s.uart.rx /\ w.sent = s.uart.sent
         /\ w.printed = s.uart.printed
    BY <2>3, <2>8 DEF Uart, qq
  <2>12. /\ e \in Conn /\ e.st = s.conn[c].st /\ e.pend = pp /\ e.win = x
         /\ e.got = s.conn[c].got /\ e.cntro = s.conn[c].cntro
    BY <2>2, <2>8, <2>9, <2>20 DEF Conn, pp, x
  <2> HIDE DEF d, w, e
  <2>13. /\ f \in [Conns -> Conn] /\ f[c] = e /\ \A b \in Conns : b # c => f[b] = s.conn[b]
    BY <2>1, <2>3, <2>12
  <2> HIDE DEF f
  <2>14. /\ u \in States /\ u.drv = d /\ u.uart = w /\ u.conn = f /\ u.tasks = s.tasks
         /\ u.cur = s.cur /\ u.net = s.net
    BY <1>1, <2>10, <2>11, <2>13 DEF States
  <2> HIDE DEF u
  <2>15. Sized(u)
    <3>1. Len(w.tx) <= TxFifo  BY <2>6, <2>8, <2>11 DEF qq
    <3> QED  BY <1>1, <2>10, <2>11, <2>14, <3>1 DEF Sized
  <2>16. Owed(u) = Owed(s)  BY <2>14 DEF Owed
  <2>17. DriverOk(u, k)
    <3>1. DriverOk(s, k)  BY DEF Good
    <3> QED  BY <2>1, <2>4, <2>10, <2>12, <2>13, <2>14, <2>16, <3>1 DEF DriverOk
  <2>18. ConnOk(u, c, k)
    <3>1. ConnOk(s, c, k)  BY <2>1 DEF Good
    <3>2. ASSUME s.conn[c].st = "open"
          PROVE  Outward(u, c)
      <4>1. Outward(s, c)  BY <3>1, <3>2 DEF ConnOk
      <4>2. Holds(qq, pp, s.uart.printed, s.conn[c].got)
        BY <2>8, <4>1 DEF Outward, Holds, qq, pp
      <4>3. x + Len(pp) = Wnd  BY <2>8, <2>9, <4>1 DEF Outward, pp
      <4> QED  BY <2>11, <2>12, <2>13, <2>14, <4>2, <4>3 DEF Outward
    <3>3. ASSUME s.conn[c].st = "open"
          PROVE  /\ u.drv.on => Inward(u) /\ u.drv.nsnd = u.conn[c].cntro + Owed(u) + k
                 /\ ~u.drv.on => u.conn[c].cntro = 0 /\ u.tasks = <<>>
      <4>1. /\ s.drv.on => Inward(s) /\ s.drv.nsnd = s.conn[c].cntro + Owed(s) + k
            /\ ~s.drv.on => s.conn[c].cntro = 0 /\ s.tasks = <<>>
        BY <3>1, <3>3 DEF ConnOk
      <4> QED  BY <2>10, <2>11, <2>12, <2>13, <2>14, <2>16, <4>1 DEF Inward
    <3> QED  BY <2>4, <2>12, <2>13, <2>14, <3>2, <3>3 DEF ConnOk
  <2>19. ASSUME NEW b \in Conns  PROVE ConnOk(u, b, k)
    <3>1. b # c => s.conn[b] = FreeConn  BY <2>1, <2>4, OthersFree
    <3>2. b # c => u.conn[b] = FreeConn  BY <2>13, <2>14, <3>1
    <3> QED  BY <2>18, <3>2, FreeOk
  <2> QED  BY <2>5, <2>15, <2>17, <2>19 DEF Good
<1> QED  BY <1>2, <1>3
\* An event is posted, or lost and known to be.
LEMMA PostIs ==
  ASSUME NEW s \in States, Len(s.tasks) <= TaskLen, NEW sig \in {"RX", "TX"}, NEW n \in Nat,
         sig = "TX" => n = 0
  PROVE  LET u == Post(s, sig, n)
         IN  /\ u \in States /\ u.drv = s.drv /\ u.uart = s.uart /\ u.conn = s.conn
             /\ u.cur = s.cur /\ u.net.given = s.net.given /\ u.net.flight = s.net.flight
             /\ Len(u.tasks) <= TaskLen /\ Owed(u) = Owed(s) + n
<1> DEFINE u == Post(s, sig, n)
           e == [sig |-> sig, par |-> n]
           a == s.net.lost
           b == Announcing(s.tasks)
<1>1. s.tasks \in Seq(Events) /\ s.net \in Net /\ a \in Nat /\ Len(s.tasks) \in Nat
  BY PartsAre, FieldsAre
<1>2. e \in Events /\ e.par = n  BY DEF Events
<1> HIDE DEF e
<1>3. b \in Nat /\ Announcing(Append(s.tasks, e)) = b + n
  BY <1>1, <1>2, AnnouncingMore
<1> HIDE DEF a, b
<1>4. a + (b + n) = (a + b) + n /\ (a + n) + b = (a + b) + n  BY <1>1, <1>3
<1>5. CASE Len(s.tasks) < TaskLen
  <2> DEFINE q == Append(s.tasks, e)
  <2>1. u = [s EXCEPT !.tasks = q]  BY <1>5 DEF Post, States, e
  <2>2. q \in Seq(Events) /\ Len(q) = Len(s.tasks) + 1
    BY <1>1, <1>2, AppendProperties
  <2>3. Len(q) <= TaskLen  BY <1>1, <1>5, <2>2, Constants
  <2>4. Announcing(q) = b + n  BY <1>3
  <2> HIDE DEF q, u
  <2>5. /\ u \in States /\ u.tasks = q /\ u.drv = s.drv /\ u.uart = s.uart
        /\ u.conn = s.conn /\ u.cur = s.cur /\ u.net = s.net
    BY <2>1, <2>2 DEF States
  <2>6. Owed(u) = Owed(s) + n  BY <1>4, <2>4, <2>5 DEF Owed, a, b
  <2> QED  BY <2>3, <2>5, <2>6 DEF u
<1>6. CASE ~(Len(s.tasks) < TaskLen)
  <2> DEFINE m == [s.net EXCEPT !.lost = a + n, !.missed = TRUE]
  <2>1. u = [s EXCEPT !.net = m]  BY <1>1, <1>6 DEF Post, States, Net, a
  <2>2. a + n \in Nat  BY <1>1
  <2>3. m \in Net /\ m.lost = a + n /\ m.given = s.net.given /\ m.flight = s.net.flight
    BY <1>1, <2>2 DEF Net
  <2> HIDE DEF m, u
  <2>4. /\ u \in States /\ u.net = m /\ u.drv = s.drv /\ u.uart = s.uart
        /\ u.conn = s.conn /\ u.cur = s.cur /\ u.tasks = s.tasks
    BY <2>1, <2>3 DEF States
  <2>5. Owed(u) = Owed(s) + n  BY <1>4, <2>3, <2>4 DEF Owed, a, b
  <2> QED  BY <2>3, <2>4, <2>5 DEF u
<1> QED  BY <1>5, <1>6

\* n more characters of the buffer have been announced, and nothing else has changed that
\* the invariant speaks of.
Raised(s, u, n) ==
  /\ u \in States /\ u.drv.on = s.drv.on /\ u.drv.alive = s.drv.alive
  /\ u.drv.buf = s.drv.buf /\ u.drv.nsnd = s.drv.nsnd + n /\ u.drv.out = s.drv.out + n
  /\ u.uart.rx = s.uart.rx /\ u.uart.tx = s.uart.tx
  /\ u.uart.sent = s.uart.sent /\ u.uart.printed = s.uart.printed
  /\ u.conn = s.conn /\ u.cur = s.cur
  /\ u.net.given = s.net.given /\ u.net.flight = s.net.flight
  /\ Len(u.tasks) <= TaskLen /\ Owed(u) = Owed(s) + n
  /\ ~s.drv.on => u.tasks = s.tasks

\* The counters rise together, so that they still agree.
LEMMA RaisedGood ==
  ASSUME NEW s, Good(s, 0), NEW n \in Nat, s.drv.on => s.drv.out + n <= Len(s.drv.buf),
         NEW u, Raised(s, u, n)
  PROVE  Good(u, 0)
<1> DEFINE x == s.drv.nsnd
           w == Owed(s)
<1>1. Sized(s) /\ s \in States /\ DriverOk(s, 0)  BY DEF Good, Sized
<1>2. x \in Nat /\ w \in Nat  BY <1>1, FieldsAre, OwedIs
<1>3. u.drv.nsnd = x + n /\ Owed(u) = w + n /\ u.drv.out = s.drv.out + n  BY DEF Raised
<1>4. Sized(u)  BY <1>1 DEF Sized, Raised
<1>5. DriverOk(u, 0)
  <2> SUFFICES ASSUME u.drv.on  PROVE DriverOk(u, 0)  BY DEF DriverOk
  <2>1. s.drv.on  BY DEF Raised
  <2>2. x = s.drv.out /\ w + 0 <= x  BY <1>1, <2>1 DEF DriverOk
  <2> HIDE DEF x, w
  <2>3. w + n + 0 <= x + n  BY <1>2, <2>2
  <2>4. Owed(u) + 0 <= u.drv.nsnd /\ u.drv.nsnd = u.drv.out  BY <1>3, <2>2, <2>3
  <2>5. u.drv.out <= Len(u.drv.buf)  BY <2>1 DEF Raised
  <2> QED  BY <1>1, <2>1, <2>4, <2>5 DEF DriverOk, Raised
<1>6. ASSUME NEW c \in Conns  PROVE ConnOk(u, c, 0)
  <2> DEFINE o == s.conn[c].cntro
  <2>1. ConnOk(s, c, 0) /\ o \in Nat  BY <1>1, ConnIs DEF Good
  <2>2. u.conn[c] = s.conn[c] /\ u.cur = s.cur /\ u.drv.on = s.drv.on  BY DEF Raised
  <2>3. ASSUME s.conn[c].st = "open", s.drv.on
        PROVE  Inward(u) /\ u.drv.nsnd = u.conn[c].cntro + Owed(u) + 0
    <3>1. Inward(s) /\ x = o + w + 0  BY <2>1, <2>3 DEF ConnOk
    <3>2. Inward(u)  BY <3>1 DEF Inward, Raised
    <3> HIDE DEF x, w, o
    <3>3. x + n = o + (w + n) + 0  BY <1>2, <2>1, <3>1
    <3> QED  BY <1>3, <2>2, <3>2, <3>3 DEF o
  <2>4. ASSUME s.conn[c].st = "open", ~s.drv.on
        PROVE  u.conn[c].cntro = 0 /\ u.tasks = <<>>
    <3>1. u.tasks = s.tasks  BY <2>4 DEF Raised
    <3> QED  BY <2>1, <2>2, <2>4, <3>1 DEF ConnOk
  <2>5. s.conn[c].st = "open" => Outward(u, c)
    <3>1. s.conn[c].st = "open" => Outward(s, c)  BY <2>1 DEF ConnOk
    <3> QED  BY <2>2, <3>1 DEF Outward, Raised
  <2>6. /\ s.conn[c].st = "free" => s.conn[c] = FreeConn
        /\ s.conn[c].st # "free" => c = s.cur
    BY <2>1 DEF ConnOk
  <2> QED  BY <2>2, <2>3, <2>4, <2>5, <2>6 DEF ConnOk
<1> QED  BY <1>4, <1>5, <1>6 DEF Good

\* What fits is copied from the receive FIFO to the end of the buffer.
LEMMA CopiedGood ==
  ASSUME NEW s, Good(s, 0), s.drv.on
  PROVE  Good(Copied(s), 0) /\ Copied(s).drv.on
<1> DEFINE q == s.drv.buf
           r == s.uart.rx
           n == Min({Len(r), BufMax - Len(q)})
           a == q \o SubSeq(r, 1, n)
           b == SubSeq(r, n + 1, Len(r))
           f == n = Len(r)
           d == [s.drv EXCEPT !.buf = a, !.rxen = f]
           w == [s.uart EXCEPT !.rx = b]
           u == [s EXCEPT !.drv = d, !.uart = w]
<1>1. Sized(s) /\ s \in States /\ DriverOk(s, 0)  BY DEF Good, Sized
<1>2. /\ q \in Seq(Nat) /\ r \in Seq(Nat) /\ Len(q) \in Nat /\ Len(r) \in Nat
      /\ s.drv \in Driver /\ s.uart \in Uart /\ Len(q) <= BufMax /\ Len(r) <= RxFifo
      /\ s.drv.out \in Nat
  BY <1>1, FieldsAre, PartsAre DEF Sized
<1>3. Copied(s) = [s EXCEPT !.drv.buf = a, !.uart.rx = b, !.drv.rxen = f]
  BY DEF Copied
<1>4. f \in BOOLEAN  OBVIOUS
<1>5. n \in 0 .. Len(r) /\ Len(q) + n <= BufMax /\ n \in Nat /\ Len(r) - n <= RxFifo
  <2> DEFINE x == BufMax - Len(q)
             y == Len(r)
             l == Len(q)
  <2>1. /\ x \in Int /\ y \in Nat /\ x >= 0 /\ l \in Nat /\ x = BufMax - l /\ BufMax \in Nat
        /\ RxFifo \in Nat /\ y <= RxFifo
    BY <1>2, Constants
  <2> HIDE DEF x, y, l
  <2>a. Min({y, x}) \in {y, x} /\ Min({y, x}) <= y /\ Min({y, x}) <= x
    <3>1. x \in Int /\ y \in Int  BY <2>1
    <3> QED  BY <3>1, MinIs
  <2> DEFINE z == Min({y, x})
  <2> HIDE DEF z
  <2>2. z \in {y, x} /\ z <= y /\ z <= x  BY <2>a DEF z
  <2>3. z \in 0 .. y /\ l + z <= BufMax /\ z \in Nat /\ y - z <= RxFifo  BY <2>1, <2>2
  <2> QED  BY <2>3 DEF x, y, l, z
<1> HIDE DEF n, f
<1>6. /\ a \in Seq(Nat) /\ Len(a) = Len(q) + n /\ b \in Seq(Nat) /\ Len(b) = Len(r) - n
      /\ a \o b = q \o r
  BY <1>2, <1>5, Moved
<1> HIDE DEF a, b
<1>7. /\ d \in Driver /\ d.on = s.drv.on /\ d.alive = s.drv.alive /\ d.buf = a
      /\ d.nsnd = s.drv.nsnd /\ d.out = s.drv.out
  BY <1>2, <1>4, <1>6 DEF Driver
<1>8. /\ w \in Uart /\ w.rx = b /\ w.tx = s.uart.tx /\ w.sent = s.uart.sent
      /\ w.printed = s.uart.printed
  BY <1>2, <1>6 DEF Uart
<1>9. Copied(s) = u  BY <1>1, <1>2, <1>3 DEF States
<1> HIDE DEF d, w
<1>10. /\ u \in States /\ u.drv = d /\ u.uart = w /\ u.tasks = s.tasks /\ u.conn = s.conn
       /\ u.cur = s.cur /\ u.net = s.net
  BY <1>1, <1>7, <1>8 DEF States
<1> HIDE DEF u
<1>11. Len(q) <= Len(a)  BY <1>2, <1>5, <1>6
<1>12. Sized(u)
  <2>1. Len(a) <= BufMax /\ Len(b) <= RxFifo  BY <1>5, <1>6
  <2> QED  BY <1>1, <1>7, <1>8, <1>10, <2>1 DEF Sized
<1>13. Owed(u) = Owed(s)  BY <1>10 DEF Owed
<1>14. DriverOk(u, 0)
  <2>1. s.drv.out <= Len(q)  BY <1>1 DEF DriverOk
  <2>2. s.drv.out <= Len(a)
    <3> DEFINE x == Len(q)
               y == Len(a)
               z == s.drv.out
    <3>1. x \in Nat /\ y \in Int /\ z \in Nat /\ z <= x /\ x <= y
      BY <1>2, <1>5, <1>6, <1>11, <2>1
    <3> HIDE DEF x, y, z
    <3>2. z <= y  BY <3>1
    <3> QED  BY <3>2 DEF y, z
  <2> QED  BY <1>1, <1>7, <1>10, <1>13, <2>2 DEF DriverOk
<1>15. ASSUME NEW c \in Conns  PROVE ConnOk(u, c, 0)
  <2>1. ConnOk(s, c, 0)  BY DEF Good
  <2>2. s.conn[c].st = "open" => Inward(u)
    <3> HAVE s.conn[c].st = "open"
    <3>1. Holds(q, r, s.net.given, s.uart.sent)  BY <2>1 DEF ConnOk, Inward
    <3>2. Holds(a, b, s.net.given, s.uart.sent)  BY <1>6, <3>1 DEF Holds
    <3> QED  BY <1>7, <1>8, <1>10, <3>2 DEF Inward
  <2>3. s.conn[c].st = "open" => Outward(u, c)
    BY <1>8, <1>10, <2>1 DEF ConnOk, Outward
  <2> QED  BY <1>7, <1>10, <1>13, <2>1, <2>2, <2>3 DEF ConnOk
<1> QED  BY <1>7, <1>9, <1>10, <1>12, <1>14, <1>15 DEF Good
\* n characters are announced and counted.
LEMMA PostedGood ==
  ASSUME NEW s, Good(s, 0), s.drv.on, NEW n \in Nat, s.drv.out + n <= Len(s.drv.buf),
         NEW y, NEW z, y = s.drv.nsnd + n, z = s.drv.out + n
  PROVE  LET u == [Post(s, "RX", n) EXCEPT !.drv.nsnd = y, !.drv.out = z]
         IN  Good(u, 0) /\ u.drv.on
<1> DEFINE v == Post(s, "RX", n)
           d == [v.drv EXCEPT !.nsnd = y, !.out = z]
           u == [v EXCEPT !.drv.nsnd = y, !.drv.out = z]
<1>1. Sized(s) /\ s \in States /\ DriverOk(s, 0)  BY DEF Good, Sized
<1>2. /\ v \in States /\ v.drv = s.drv /\ v.uart = s.uart /\ v.conn = s.conn
      /\ v.cur = s.cur /\ v.net.given = s.net.given /\ v.net.flight = s.net.flight
      /\ Len(v.tasks) <= TaskLen /\ Owed(v) = Owed(s) + n
  <2>1. Len(s.tasks) <= TaskLen  BY <1>1 DEF Sized
  <2> QED  BY <1>1, <2>1, PostIs
<1> HIDE DEF v
<1>3. s.drv \in Driver /\ s.drv.nsnd = s.drv.out /\ s.drv.nsnd \in Nat /\ Len(s.drv.buf) \in Nat
      /\ Len(s.drv.buf) <= BufMax
  BY <1>1, PartsAre, FieldsAre DEF DriverOk, Sized
<1>4. y \in 0 .. Word - 1 /\ z \in 0 .. Word - 1
  <2> DEFINE x == s.drv.out
             b == Len(s.drv.buf)
  <2>1. x \in Nat /\ b \in Nat /\ x + n <= b /\ b <= BufMax /\ y = x + n /\ z = x + n
    BY <1>3
  <2> HIDE DEF x, b
  <2> QED  BY <2>1, Constants
<1>5. u = [v EXCEPT !.drv = d]  BY <1>2 DEF States
<1>6. /\ d \in Driver /\ d.on = s.drv.on /\ d.alive = s.drv.alive /\ d.buf = s.drv.buf
      /\ d.nsnd = y /\ d.out = z
  BY <1>2, <1>3, <1>4 DEF Driver
<1> HIDE DEF d, u
<1>7. /\ u \in States /\ u.drv = d /\ u.uart = v.uart /\ u.tasks = v.tasks /\ u.conn = v.conn
      /\ u.cur = v.cur /\ u.net = v.net
  BY <1>2, <1>5, <1>6 DEF States
<1>8. Owed(u) = Owed(v)  BY <1>7 DEF Owed
<1>9. Raised(s, u, n)  BY <1>2, <1>6, <1>7, <1>8 DEF Raised
<1>10. Good(u, 0)
  <2>1. s.drv.on => s.drv.out + n <= Len(s.drv.buf)  OBVIOUS
  <2> QED  BY <1>9, <2>1, RaisedGood
<1> QED  BY <1>6, <1>7, <1>10 DEF u, v

\* What is in the buffer and not announced is, all of it or what fills the send buffer.
LEMMA AnnouncedGood ==
  ASSUME NEW s, Good(s, 0), s.drv.on, NEW tout \in BOOLEAN
  PROVE  Good(Announced(s, tout), 0) /\ Announced(s, tout).drv.on
<1> DEFINE x == s.drv.nsnd
           b == Len(s.drv.buf)
           new == Less(b, s.drv.out)
           more == Less(Blk, x)
<1>1. Sized(s) /\ s \in States /\ DriverOk(s, 0)  BY DEF Good, Sized
<1>2. /\ x \in Nat /\ b \in Nat /\ x = s.drv.out /\ x <= b /\ b <= BufMax
  BY <1>1, FieldsAre DEF DriverOk, Sized
<1> HIDE DEF b, x
<1>3. b \in 0 .. Word - 1 /\ Blk \in 0 .. Word - 1 /\ Blk \in Nat
  BY <1>2, Constants
<1>4. new = b - x /\ new \in Nat  BY <1>2, <1>3, LessIs
<1>5. (x + new) % Word = x + new /\ (new + x) % Word = b /\ x + new = b
  <2>1. x + new = b /\ new + x = b /\ b + 0 < Word  BY <1>2, <1>3, <1>4, Constants
  <2>2. (b + 0) % Word = b + 0  BY <1>2, <2>1, SumIs
  <2> QED  BY <1>2, <2>1, <2>2
<1> HIDE DEF new
<1>6. CASE new = 0  BY <1>6 DEF Announced, new, b, x
<1>7. CASE new # 0 /\ tout
  <2>1. Announced(s, tout) =
          [Post(s, "RX", new) EXCEPT !.drv.nsnd = (@ + new) % Word, !.drv.out = b]
    BY <1>7 DEF Announced, new, b, x
  <2>2. Post(s, "RX", new).drv.nsnd = x
    <3>1. Len(s.tasks) <= TaskLen  BY <1>1 DEF Sized
    <3>2. Post(s, "RX", new).drv = s.drv  BY <1>1, <1>4, <3>1, PostIs
    <3> QED  BY <3>2 DEF x
  <2> DEFINE y == (x + new) % Word
  <2>3. Announced(s, tout) = [Post(s, "RX", new) EXCEPT !.drv.nsnd = y, !.drv.out = b]
    <3>1. Post(s, "RX", new).drv.nsnd + new = x + new  BY <2>2
    <3>2. (Post(s, "RX", new).drv.nsnd + new) % Word = y  BY <3>1
    <3> HIDE DEF y
    <3> QED  BY <2>1, <3>2
  <2>4. y = s.drv.nsnd + new /\ b = s.drv.out + new /\ s.drv.out + new <= Len(s.drv.buf)
    BY <1>2, <1>5 DEF b, x
  <2> HIDE DEF y
  <2>5. LET u == [Post(s, "RX", new) EXCEPT !.drv.nsnd = y, !.drv.out = b]
        IN  Good(u, 0) /\ u.drv.on
    BY <1>4, <2>4, PostedGood
  <2> QED  BY <2>3, <2>5
<1>8. CASE new # 0 /\ ~tout /\ x < Blk /\ b >= Blk
  <2>1. more = Blk - x /\ more \in Nat
    <3>1. x \in Nat /\ x <= Blk  BY <1>2, <1>3, <1>8
    <3>2. Less(Blk, x) = Blk - x /\ Blk - x \in Nat  BY <1>3, <3>1, LessIs
    <3> QED  BY <3>2
  <2>2. (x + more) % Word = x + more /\ x + more = Blk
    <3>1. x + more = Blk /\ Blk + 0 < Word  BY <1>2, <1>3, <2>1, Constants
    <3>2. (Blk + 0) % Word = Blk + 0  BY <1>3, <3>1, SumIs
    <3> QED  BY <1>3, <3>1, <3>2
  <2> HIDE DEF more
  <2>3. (new + x) % Word >= Blk  BY <1>5, <1>8
  <2>4. Announced(s, tout) =
          [Post(s, "RX", more) EXCEPT !.drv.nsnd = Blk, !.drv.out = (@ + more) % Word]
    BY <1>8, <2>3 DEF Announced, new, b, x, more
  <2>5. Post(s, "RX", more).drv.out = x
    <3>1. Len(s.tasks) <= TaskLen  BY <1>1 DEF Sized
    <3>2. Post(s, "RX", more).drv = s.drv  BY <1>1, <2>1, <3>1, PostIs
    <3> QED  BY <1>2, <3>2 DEF x
  <2> DEFINE z == (x + more) % Word
  <2>6. Announced(s, tout) = [Post(s, "RX", more) EXCEPT !.drv.nsnd = Blk, !.drv.out = z]
    <3>1. Post(s, "RX", more).drv.out + more = x + more  BY <2>5
    <3>2. (Post(s, "RX", more).drv.out + more) % Word = z  BY <3>1
    <3> HIDE DEF z
    <3> QED  BY <2>4, <3>2
  <2>7. z = s.drv.out + more /\ Blk = s.drv.nsnd + more /\ s.drv.out + more <= Len(s.drv.buf)
    BY <1>2, <1>8, <2>2 DEF b, x
  <2> HIDE DEF z
  <2>8. LET u == [Post(s, "RX", more) EXCEPT !.drv.nsnd = Blk, !.drv.out = z]
        IN  Good(u, 0) /\ u.drv.on
    BY <2>1, <2>7, PostedGood
  <2> QED  BY <2>6, <2>8
<1>9. CASE new # 0 /\ ~tout /\ ~(x < Blk /\ b >= Blk)
  <2>1. ~(x < Blk /\ (new + x) % Word >= Blk)  BY <1>5, <1>9
  <2> QED  BY <1>9, <2>1 DEF Announced, new, b, x
<1> QED  BY <1>6, <1>7, <1>8, <1>9

\* The interrupts and the pause on the line are not what the invariant is about.
Switched(s, d, w) ==
  /\ d.on = s.drv.on /\ d.alive = s.drv.alive /\ d.buf = s.drv.buf
  /\ d.nsnd = s.drv.nsnd /\ d.out = s.drv.out
  /\ w.rx = s.uart.rx /\ w.tx = s.uart.tx /\ w.sent = s.uart.sent
  /\ w.printed = s.uart.printed

\* They may be switched at any time.
LEMMA SwitchedGood ==
  ASSUME NEW s, Good(s, 0), NEW d \in Driver, NEW w \in Uart, Switched(s, d, w)
  PROVE  LET u == [s EXCEPT !.drv = d, !.uart = w]
         IN  Good(u, 0) /\ u.drv = d
<1> DEFINE u == [s EXCEPT !.drv = d, !.uart = w]
<1>1. Sized(s) /\ s \in States /\ DriverOk(s, 0)  BY DEF Good, Sized
<1>2. s.drv.nsnd \in Nat /\ s.drv.out \in Nat /\ Owed(s) \in Nat /\ Len(s.drv.buf) \in Nat
  BY <1>1, FieldsAre, OwedIs
<1>3. /\ u \in States /\ u.drv = d /\ u.uart = w /\ u.tasks = s.tasks /\ u.conn = s.conn
      /\ u.cur = s.cur /\ u.net = s.net
  BY <1>1 DEF States
<1> HIDE DEF u
<1>4. Owed(u) = Owed(s)  BY <1>3 DEF Owed
<1>5. s.drv.nsnd = s.drv.nsnd + 0 /\ s.drv.out = s.drv.out + 0 /\ Owed(s) = Owed(s) + 0
  BY <1>2
<1>6. Raised(s, u, 0)  BY <1>1, <1>3, <1>4, <1>5 DEF Raised, Sized, Switched
<1>7. s.drv.on => s.drv.out + 0 <= Len(s.drv.buf)  BY <1>1, <1>5 DEF DriverOk
<1> QED  BY <1>3, <1>6, <1>7, RaisedGood DEF u
\* uart_intr_handler, its part that receives
LEMMA ReceivedGood ==
  ASSUME NEW s, Good(s, 0), s.drv.on, NEW tout \in BOOLEAN
  PROVE  Good(Received(s, tout), 0) /\ Received(s, tout).drv.on
<1> DEFINE p == IF tout THEN "no" ELSE s.uart.pause
           w == [s.uart EXCEPT !.pause = p]
           d == [s.drv EXCEPT !.rxen = FALSE]
           t == [s EXCEPT !.uart.pause = IF tout THEN "no" ELSE @]
<1>1. s \in States /\ s.drv \in Driver /\ s.uart \in Uart /\ p \in {"no", "due", "raised"}
  <2>1. s \in States  BY DEF Good, Sized
  <2> QED  BY <2>1, PartsAre, FieldsAre
<1>2. t = [s EXCEPT !.uart.pause = p]  OBVIOUS
<1> HIDE DEF p, t
<1> DEFINE e == s.drv
<1>3. t = [s EXCEPT !.drv = e, !.uart = w]  BY <1>1, <1>2 DEF States
<1>4. [t EXCEPT !.drv.rxen = FALSE] = [s EXCEPT !.drv = d, !.uart = w]
  BY <1>1, <1>2 DEF States
<1>5. /\ w \in Uart /\ w.rx = s.uart.rx /\ w.tx = s.uart.tx /\ w.sent = s.uart.sent
      /\ w.printed = s.uart.printed
  BY <1>1 DEF Uart
<1>6. /\ d \in Driver /\ d.on = s.drv.on /\ d.alive = s.drv.alive /\ d.buf = s.drv.buf
      /\ d.nsnd = s.drv.nsnd /\ d.out = s.drv.out
  BY <1>1 DEF Driver
<1> HIDE DEF d, w
<1>7. Good(t, 0) /\ t.drv = s.drv
  <2>1. Switched(s, e, w) /\ e \in Driver  BY <1>1, <1>5 DEF Switched
  <2> HIDE DEF e
  <2>2. LET u == [s EXCEPT !.drv = e, !.uart = w]
        IN  Good(u, 0) /\ u.drv = e
    BY <1>5, <2>1, SwitchedGood
  <2> QED  BY <1>3, <2>2 DEF e
<1>8. CASE s.drv.nsnd >= BufMax \/ Len(s.drv.buf) >= BufMax
  <2>1. LET u == [s EXCEPT !.drv = d, !.uart = w]
        IN  Good(u, 0) /\ u.drv = d
    <3>1. Switched(s, d, w)  BY <1>5, <1>6 DEF Switched
    <3> QED  BY <1>5, <1>6, <3>1, SwitchedGood
  <2>2. Received(s, tout) = [t EXCEPT !.drv.rxen = FALSE]  BY <1>8 DEF Received, t
  <2> QED  BY <1>4, <1>6, <2>1, <2>2
<1>9. CASE ~(s.drv.nsnd >= BufMax \/ Len(s.drv.buf) >= BufMax)
  <2>1. Received(s, tout) = Announced(Copied(t), tout)  BY <1>9 DEF Received, t
  <2>2. Good(Copied(t), 0) /\ Copied(t).drv.on  BY <1>7, CopiedGood
  <2> QED  BY <2>1, <2>2, AnnouncedGood
<1> QED  BY <1>8, <1>9

\* uart_intr_handler, its part that sends
LEMMA EmptiedGood ==
  ASSUME NEW s, Good(s, 0), s.drv.on
  PROVE  Good(Emptied(s), 0)
<1> DEFINE v == Post(s, "TX", 0)
           d == [v.drv EXCEPT !.txen = FALSE]
<1>1. Sized(s) /\ s \in States /\ DriverOk(s, 0)  BY DEF Good, Sized
<1>2. /\ v \in States /\ v.drv = s.drv /\ v.uart = s.uart /\ v.conn = s.conn
      /\ v.cur = s.cur /\ v.net.given = s.net.given /\ v.net.flight = s.net.flight
      /\ Len(v.tasks) <= TaskLen /\ Owed(v) = Owed(s) + 0
  <2>1. Len(s.tasks) <= TaskLen  BY <1>1 DEF Sized
  <2> QED  BY <1>1, <2>1, PostIs
<1>3. Emptied(s) = [v EXCEPT !.drv.txen = FALSE]  BY DEF Emptied
<1> HIDE DEF v
<1>4. Good(v, 0)
  <2>1. s.drv.nsnd \in Nat /\ s.drv.out \in Nat  BY <1>1, FieldsAre
  <2>2. s.drv.nsnd = s.drv.nsnd + 0 /\ s.drv.out = s.drv.out + 0  BY <2>1
  <2>3. Raised(s, v, 0)  BY <1>2, <2>2 DEF Raised
  <2>4. s.drv.on => s.drv.out + 0 <= Len(s.drv.buf)  BY <1>1, <2>2 DEF DriverOk
  <2> QED  BY <2>3, <2>4, RaisedGood
<1>5. v.drv \in Driver /\ v.uart \in Uart  BY <1>2, PartsAre
<1>6. /\ d \in Driver /\ d.on = v.drv.on /\ d.alive = v.drv.alive /\ d.buf = v.drv.buf
      /\ d.nsnd = v.drv.nsnd /\ d.out = v.drv.out
  BY <1>5 DEF Driver
<1> DEFINE w == v.uart
<1>7. Emptied(s) = [v EXCEPT !.drv = d, !.uart = w]  BY <1>2, <1>3, <1>5 DEF States
<1> HIDE DEF d
<1>9. Switched(v, d, w) /\ w \in Uart  BY <1>5, <1>6 DEF Switched
<1> HIDE DEF w
<1>8. LET u == [v EXCEPT !.drv = d, !.uart = w]
      IN  Good(u, 0) /\ u.drv = d
  BY <1>4, <1>6, <1>9, SwitchedGood
<1> QED  BY <1>7, <1>8

\* Only the FIFOs and the characters counted on the line have changed.
LEMMA LineGood ==
  ASSUME NEW s, Good(s, 0), NEW w \in Uart, Len(w.rx) <= RxFifo, Len(w.tx) <= TxFifo,
         s.drv.on /\ Inward(s) => Holds(s.drv.buf, w.rx, s.net.given, w.sent),
         \A c \in Conns : Holds(s.uart.tx, s.conn[c].pend, s.uart.printed, s.conn[c].got) =>
                            Holds(w.tx, s.conn[c].pend, w.printed, s.conn[c].got)
  PROVE  Good([s EXCEPT !.uart = w], 0)
<1> DEFINE u == [s EXCEPT !.uart = w]
<1>1. Sized(s) /\ s \in States /\ DriverOk(s, 0)  BY DEF Good, Sized
<1>2. /\ u \in States /\ u.uart = w /\ u.drv = s.drv /\ u.tasks = s.tasks /\ u.conn = s.conn
      /\ u.cur = s.cur /\ u.net = s.net
  BY <1>1 DEF States
<1> HIDE DEF u
<1>3. Sized(u)  BY <1>1, <1>2 DEF Sized
<1>4. Owed(u) = Owed(s)  BY <1>2 DEF Owed
<1>5. DriverOk(u, 0)  BY <1>1, <1>2, <1>4 DEF DriverOk
<1>6. ASSUME NEW c \in Conns  PROVE ConnOk(u, c, 0)
  <2>1. ConnOk(s, c, 0)  BY DEF Good
  <2>2. s.conn[c].st = "open" => Outward(u, c)
    <3> HAVE s.conn[c].st = "open"
    <3>1. Outward(s, c)  BY <2>1 DEF ConnOk
    <3>2. Holds(w.tx, s.conn[c].pend, w.printed, s.conn[c].got)
      BY <3>1 DEF Outward
    <3> QED  BY <1>2, <3>1, <3>2 DEF Outward
  <2>3. s.conn[c].st = "open" /\ s.drv.on => Inward(u)
    BY <1>2, <2>1 DEF ConnOk, Inward
  <2> QED  BY <1>2, <1>4, <2>1, <2>2, <2>3 DEF ConnOk
<1> QED  BY <1>3, <1>5, <1>6 DEF Good, u

\* More follows.
LEMMA HoldsMore ==
  ASSUME NEW q \in Seq(Nat), NEW r \in Seq(Nat), NEW a \in Nat, NEW b \in Nat, NEW c \in Nat,
         b <= c, Holds(q, r, a, b)
  PROVE  Holds(q, r \o Run(b, c), a, c)
<1>1. a <= b /\ q \o r = Run(a, b)  BY DEF Holds
<1>2. Run(b, c) \in Seq(Nat)  BY RunIs
<1>3. (q \o r) \o Run(b, c) = q \o (r \o Run(b, c))  BY <1>2, Associated
<1>4. Run(a, b) \o Run(b, c) = Run(a, c)  BY <1>1, RunOn
<1>5. a <= c  BY <1>1
<1> QED  BY <1>1, <1>3, <1>4, <1>5 DEF Holds

\* One more follows.
LEMMA HoldsNext ==
  ASSUME NEW q \in Seq(Nat), NEW r \in Seq(Nat), NEW a \in Nat, NEW b \in Nat,
         Holds(q, r, a, b)
  PROVE  Holds(q, Append(r, b + 1), a, b + 1)
<1> DEFINE e == Run(b, b + 1)
           x == Append(r, b + 1)
           y == r \o e
<1>0. b + 1 \in Nat /\ b <= b + 1 /\ b + 1 - b = 1 /\ Len(r) \in Nat
  BY LenProperties
<1>1. e \in Seq(Nat) /\ Len(e) = 1 /\ e[1] = b + 1
  <2> DEFINE n == b + 1
  <2>1. n \in Nat /\ b <= n /\ n - b = 1  BY <1>0
  <2>2. e = Run(b, n)  OBVIOUS
  <2> HIDE DEF n, e
  <2>3. /\ Run(b, n) \in Seq(Nat) /\ Len(Run(b, n)) = n - b
        /\ \A i \in 1 .. n - b : Run(b, n)[i] = b + i
    BY <2>1, RunIs
  <2> QED  BY <2>1, <2>2, <2>3
<1>2. Holds(q, y, a, b + 1)  BY <1>0, HoldsMore
<1> HIDE DEF e
<1>3. x = y
  <2>1. /\ x \in Seq(Nat) /\ Len(x) = Len(r) + 1 /\ x[Len(r) + 1] = b + 1
        /\ \A i \in 1 .. Len(r) : x[i] = r[i]
    BY <1>0, AppendProperties
  <2>2. /\ y \in Seq(Nat) /\ Len(y) = Len(r) + Len(e)
        /\ \A i \in 1 .. Len(r) + Len(e) : y[i] = IF i <= Len(r) THEN r[i] ELSE e[i - Len(r)]
    BY <1>1, ConcatProperties
  <2> HIDE DEF x, y
  <2>3. \A i \in 1 .. Len(x) : x[i] = y[i]
    <3> TAKE i \in 1 .. Len(x)
    <3>1. CASE i <= Len(r)
      <4>1. i \in 1 .. Len(r) /\ i \in 1 .. Len(r) + Len(e)  BY <1>0, <1>1, <2>1, <3>1
      <4>2. x[i] = r[i]  BY <2>1, <4>1
      <4>3. y[i] = r[i]  BY <2>2, <3>1, <4>1
      <4> QED  BY <4>2, <4>3
    <3>2. CASE ~(i <= Len(r))
      <4>1. i = Len(r) + 1 /\ i - Len(r) = 1  BY <1>0, <2>1, <3>2
      <4> QED  BY <1>0, <1>1, <2>1, <2>2, <4>1
    <3> QED  BY <3>1, <3>2
  <2>4. Len(x) = Len(y)  BY <1>1, <2>1, <2>2
  <2> QED  BY <2>1, <2>2, <2>3, <2>4, SeqEqual
<1> QED  BY <1>2, <1>3 DEF x

\* The first is taken.
LEMMA HoldsTail ==
  ASSUME NEW q \in Seq(Nat), q # <<>>, NEW r \in Seq(Nat), NEW a \in Nat, NEW b \in Nat
  PROVE  /\ Tail(q) \in Seq(Nat) /\ Len(Tail(q)) = Len(q) - 1
         /\ Holds(q, r, a, b) => Holds(Tail(q), r, a + 1, b)
<1> DEFINE x == Tail(q)
           y == From(q, 1)
<1>1. /\ x \in Seq(Nat) /\ Len(x) = Len(q) - 1 /\ \A i \in 1 .. Len(x) : x[i] = q[i + 1]
  BY HeadTailProperties
<1>2. Len(q) \in Nat /\ Len(q) >= 1
  <2>1. Len(q) \in Nat /\ Len(x) \in Nat  BY <1>1, LenProperties
  <2> QED  BY <1>1, <2>1
<1>3. /\ y \in Seq(Nat) /\ Len(y) = Len(q) - 1
      /\ \A i \in 1 .. Len(q) - 1 : y[i] = q[i + 1]
  <2>1. \A i \in 1 .. Len(q) : q[i] \in Nat  BY ElementOfSeq
  <2>2. \A i \in 1 + 1 .. Len(q) : q[i] \in Nat  BY <1>2, <2>1
  <2>3. /\ SubSeq(q, 1 + 1, Len(q)) \in Seq(Nat)
        /\ Len(SubSeq(q, 1 + 1, Len(q))) = IF 1 + 1 <= Len(q) THEN Len(q) - (1 + 1) + 1 ELSE 0
        /\ \A i \in 1 .. Len(q) - (1 + 1) + 1 : SubSeq(q, 1 + 1, Len(q))[i] = q[1 + 1 + i - 1]
    BY <1>2, <2>2, SubSeqProperties
  <2> DEFINE z == SubSeq(q, 1 + 1, Len(q))
  <2>4. y = z  BY DEF From
  <2> HIDE DEF y, z
  <2>5. /\ z \in Seq(Nat) /\ Len(z) = IF 1 + 1 <= Len(q) THEN Len(q) - (1 + 1) + 1 ELSE 0
        /\ \A i \in 1 .. Len(q) - (1 + 1) + 1 : z[i] = q[1 + 1 + i - 1]
    BY <2>3 DEF z
  <2>6. \A i \in 1 .. Len(q) - 1 : 1 + 1 + i - 1 = i + 1 /\ i \in 1 .. Len(q) - (1 + 1) + 1
    BY <1>2
  <2>7. Len(z) = Len(q) - 1
    <3> DEFINE n == Len(q)
    <3>1. n \in Nat /\ n >= 1 /\ Len(z) = IF 1 + 1 <= n THEN n - (1 + 1) + 1 ELSE 0
      BY <1>2, <2>5
    <3> HIDE DEF n
    <3>2. Len(z) = n - 1  BY <3>1
    <3> QED  BY <3>2 DEF n
  <2>8. \A i \in 1 .. Len(q) - 1 : z[i] = q[i + 1]
    <3> TAKE i \in 1 .. Len(q) - 1
    <3>1. z[i] = q[1 + 1 + i - 1]  BY <2>5, <2>6
    <3> QED  BY <2>6, <3>1
  <2> QED  BY <2>4, <2>5, <2>7, <2>8
<1>4. x = y
  <2> HIDE DEF x, y
  <2>1. Len(x) = Len(y) /\ \A i \in 1 .. Len(x) : x[i] = y[i]  BY <1>1, <1>3
  <2> QED  BY <1>1, <1>3, <2>1, SeqEqual
<1>5. Holds(q, r, a, b) => Holds(y, r, a + 1, b)
  <2>1. 1 \in 0 .. Len(q)  BY <1>2
  <2> QED  BY <2>1, TakenFromRun
<1> QED  BY <1>1, <1>4, <1>5
\* The first event is taken from the queue, to be handled.
LEMMA TailGood ==
  ASSUME NEW s, Good(s, 0), s.tasks # <<>>
  PROVE  LET e == Head(s.tasks)
             u == [s EXCEPT !.tasks = Tail(@)]
         IN  /\ e \in Events /\ Good(u, e.par) /\ u.drv = s.drv /\ u.conn = s.conn
             /\ u.cur = s.cur
<1> DEFINE q == s.tasks
           r == Tail(q)
           e == Head(q)
           k == e.par
           u == [s EXCEPT !.tasks = r]
<1>1. Sized(s) /\ s \in States /\ DriverOk(s, 0)  BY DEF Good, Sized
<1>2. q \in Seq(Events) /\ q # <<>>  BY <1>1, PartsAre
<1>3. e \in Events /\ r \in Seq(Events) /\ Len(r) = Len(q) - 1
  BY <1>2, HeadTailProperties
<1>4. k \in Nat  BY <1>3 DEF Events
<1>5. Len(q) \in Nat /\ Len(r) \in Nat  BY <1>2, <1>3, LenProperties
<1>6. Announcing(q) = k + Announcing(r)  BY <1>2, AnnouncingLess
<1>7. Announcing(r) \in Nat /\ s.net.lost \in Nat
  <2>1. Announcing(r) \in Nat  BY <1>3, AnnouncingMore
  <2> QED  BY <1>1, <2>1, FieldsAre
<1> HIDE DEF r, e, k
<1>8. /\ u \in States /\ u.tasks = r /\ u.drv = s.drv /\ u.uart = s.uart /\ u.conn = s.conn
      /\ u.cur = s.cur /\ u.net = s.net
  BY <1>1, <1>3 DEF States
<1> HIDE DEF u
<1>9. Owed(s) = Owed(u) + k /\ Owed(u) \in Nat
  <2> DEFINE a == s.net.lost
             b == Announcing(r)
  <2>1. a \in Nat /\ b \in Nat  BY <1>7
  <2>2. Owed(s) = a + (k + b)  BY <1>6 DEF Owed
  <2>3. Owed(u) = a + b  BY <1>8 DEF Owed
  <2> HIDE DEF a, b
  <2> QED  BY <1>4, <2>1, <2>2, <2>3
<1>10. Sized(u)
  <2>1. Len(q) <= TaskLen  BY <1>1 DEF Sized
  <2>2. Len(r) <= TaskLen  BY <1>3, <1>5, <2>1, Constants
  <2> QED  BY <1>1, <1>8, <2>2 DEF Sized
<1>11. DriverOk(u, k)
  <2>1. Owed(s) + 0 = Owed(u) + k  BY <1>4, <1>9
  <2> QED  BY <1>1, <1>8, <2>1 DEF DriverOk
<1>12. ASSUME NEW c \in Conns  PROVE ConnOk(u, c, k)
  <2>1. ConnOk(s, c, 0) /\ s.conn[c].cntro \in Nat  BY <1>1, ConnIs DEF Good
  <2>2. s.conn[c].cntro + Owed(s) + 0 = s.conn[c].cntro + Owed(u) + k
    <3> DEFINE o == s.conn[c].cntro
               w == Owed(u)
    <3>1. o \in Nat /\ w \in Nat /\ Owed(s) = w + k  BY <1>9, <2>1
    <3> HIDE DEF o, w
    <3>2. o + Owed(s) + 0 = o + w + k  BY <1>4, <3>1
    <3> QED  BY <3>2 DEF o, w
  <2>3. s.conn[c].st = "open" => s.drv.on  BY <1>2, <2>1 DEF ConnOk
  <2> QED  BY <1>8, <2>1, <2>2, <2>3 DEF ConnOk, Inward, Outward
<1>13. Good(u, k)  BY <1>10, <1>11, <1>12 DEF Good
<1> QED  BY <1>3, <1>8, <1>13 DEF u, r, e, k

\* The driver is closed when no connection is open.
LEMMA ClosedGood ==
  ASSUME NEW s, NEW k \in Nat, Good(s, k), \A c \in Conns : s.conn[c].st # "open"
  PROVE  Good(DrvClose(s), 0)
<1> DEFINE u == DrvClose(s)
<1>1. Sized(s) /\ s \in States  BY DEF Good, Sized
<1>2. /\ u \in States /\ u.tasks = s.tasks /\ u.conn = s.conn /\ u.cur = s.cur
      /\ u.net = s.net
      /\ ~u.drv.on /\ u.drv.alive = s.drv.alive /\ u.drv.buf = s.drv.buf
      /\ u.uart.rx = <<>> /\ u.uart.tx = <<>>
  BY <1>1, DrvCloseIs
<1> HIDE DEF u
<1>3. Sized(u)
  <2>1. Len(u.uart.rx) <= RxFifo /\ Len(u.uart.tx) <= TxFifo  BY <1>2, Constants
  <2> QED  BY <1>1, <1>2, <2>1 DEF Sized
<1>4. DriverOk(u, 0)  BY <1>2 DEF DriverOk
<1>5. ASSUME NEW c \in Conns  PROVE ConnOk(u, c, 0)
  <2>1. ConnOk(s, c, k)  BY DEF Good
  <2> QED  BY <1>2, <2>1 DEF ConnOk
<1> QED  BY <1>3, <1>4, <1>5 DEF Good, u

\* It is of no matter whether there is a service.
LEMMA ServingGood ==
  ASSUME NEW s, Good(s, 0), NEW b \in BOOLEAN
  PROVE  LET u == [s EXCEPT !.net.serving = b]
         IN  Good(u, 0) /\ u.conn = s.conn /\ u.cur = s.cur
<1> DEFINE m == [s.net EXCEPT !.serving = b]
           u == [s EXCEPT !.net = m]
<1>1. Sized(s) /\ s \in States /\ DriverOk(s, 0)  BY DEF Good, Sized
<1>2. s.net \in Net  BY <1>1, PartsAre
<1>3. [s EXCEPT !.net.serving = b] = u  BY <1>1, <1>2 DEF States
<1>4. /\ m \in Net /\ m.given = s.net.given /\ m.flight = s.net.flight
      /\ m.lost = s.net.lost
  BY <1>2 DEF Net
<1> HIDE DEF m
<1>5. /\ u \in States /\ u.net = m /\ u.drv = s.drv /\ u.uart = s.uart /\ u.conn = s.conn
      /\ u.cur = s.cur /\ u.tasks = s.tasks
  BY <1>1, <1>4 DEF States
<1> HIDE DEF u
<1>6. Owed(u) = Owed(s)  BY <1>4, <1>5 DEF Owed
<1>7. Sized(u) /\ DriverOk(u, 0)  BY <1>1, <1>4, <1>5, <1>6 DEF Sized, DriverOk
<1>8. ASSUME NEW c \in Conns  PROVE ConnOk(u, c, 0)
  <2>1. ConnOk(s, c, 0)  BY DEF Good
  <2> QED  BY <1>4, <1>5, <1>6, <2>1 DEF ConnOk, Inward, Outward
<1>9. Good(u, 0)  BY <1>7, <1>8 DEF Good
<1> QED  BY <1>3, <1>5, <1>9

\* Nothing is held of a stream that has not begun.
LEMMA HoldsNone == Holds(<<>>, <<>>, 0, 0)
<1>1. Run(0, 0) \in Seq(Nat) /\ Len(Run(0, 0)) = 0 - 0
  <2>1. 0 \in Nat /\ 0 <= 0  OBVIOUS
  <2> QED  BY <2>1, RunIs
<1>2. Run(0, 0) = <<>>  BY <1>1, EmptySeq
<1>3. <<>> \o <<>> = <<>>
  <2>1. <<>> \in Seq(Nat)  BY EmptySeq
  <2> QED  BY <2>1, ConcatEmptySeq
<1> QED  BY <1>2, <1>3 DEF Holds
\* A session that begins
NewConn == [FreeConn EXCEPT !.st = "open"]
NewNet == [given |-> 0, flight |-> 0, lost |-> 0, missed |-> FALSE, serving |-> TRUE]

Begun(s, c) ==
  /\ s \in States /\ s.drv.alive /\ Len(s.drv.buf) <= BufMax
  /\ s.tasks = <<>> /\ s.cur = c /\ s.net = NewNet
  /\ s.conn[c] = NewConn /\ \A d \in Conns : d # c => s.conn[d] = FreeConn
  /\ s.uart.sent = 0 /\ s.uart.printed = 0

\* A session that begins has no streams, counters or events yet.
LEMMA BegunGood ==
  ASSUME NEW c \in Conns, NEW u, Begun(u, c), u.uart.rx = <<>>, u.uart.tx = <<>>,
         u.drv.on => u.drv.buf = <<>> /\ u.drv.nsnd = 0 /\ u.drv.out = 0
  PROVE  Good(u, 0)
<1>1. /\ NewConn.st = "open" /\ NewConn.cntro = 0 /\ NewConn.pend = <<>>
      /\ NewConn.got = 0 /\ NewConn.win = Wnd
  BY FreeConnIs DEF NewConn, Conn
<1>2. NewNet.given = 0 /\ NewNet.flight = 0 /\ NewNet.lost = 0  BY DEF NewNet
<1>3. Owed(u) = 0
  <2>1. u.net.lost = 0 /\ u.tasks = <<>>  BY <1>2 DEF Begun
  <2> QED  BY <2>1, AnnouncingNone DEF Owed
<1>4. Sized(u)
  <2>1. Len(u.uart.rx) = 0 /\ Len(u.uart.tx) = 0 /\ Len(u.tasks) = 0  BY DEF Begun
  <2> QED  BY <1>2, <2>1, Constants DEF Sized, Begun
<1>5. DriverOk(u, 0)  BY <1>1, <1>3 DEF DriverOk, Begun
<1>6. ConnOk(u, c, 0)
  <2>1. Outward(u, c)
    <3>1. Wnd + Len(<<>>) = Wnd  BY Constants
    <3> QED  BY <1>1, <3>1, HoldsNone DEF Outward, Begun
  <2>2. u.drv.on => Inward(u)  BY <1>2, HoldsNone DEF Inward, Begun
  <2> QED  BY <1>1, <1>3, <2>1, <2>2 DEF ConnOk, Begun
<1>7. ASSUME NEW d \in Conns  PROVE ConnOk(u, d, 0)
  <2>1. d # c => u.conn[d] = FreeConn  BY DEF Begun
  <2> QED  BY <1>6, <2>1, FreeOk
<1> QED  BY <1>4, <1>5, <1>7 DEF Good

\* tcp2uart_listen, with the driver started, or not for want of memory
LEMMA ListenGood ==
  ASSUME NEW s, Good(s, 0), s.tasks = <<>>, \A d \in Conns : s.conn[d].st = "free",
         NEW c \in Conns
  PROVE  LET v == [s EXCEPT !.cur = c, !.conn[c].st = "open", !.uart.sent = 0,
                            !.uart.printed = 0, !.net = NewNet]
         IN  Good(DrvStart(v), 0) /\ Good(DrvClose(v), 0) /\ Good(Ended(v, c), 0)
<1> DEFINE v == [s EXCEPT !.cur = c, !.conn[c].st = "open", !.uart.sent = 0,
                          !.uart.printed = 0, !.net = NewNet]
           w == [s.uart EXCEPT !.sent = 0, !.printed = 0]
           e == NewConn
           f == [s.conn EXCEPT ![c] = e]
           x == DrvStart(v)
           y == DrvClose(v)
<1>1. Sized(s) /\ s \in States  BY DEF Good, Sized
<1>2. s.uart \in Uart /\ s.conn \in [Conns -> Conn]  BY <1>1, PartsAre
<1>3. \A d \in Conns : s.conn[d] = FreeConn  BY DEF Good, ConnOk
<1>4. e \in Conn /\ NewNet \in Net /\ e.st = "open"
  <2>1. NewNet \in Net  BY DEF NewNet, Net
  <2> QED  BY <2>1, FreeConnIs DEF NewConn, Conn
<1>5. v = [s EXCEPT !.cur = c, !.conn = f, !.uart = w, !.net = NewNet]
  BY <1>1, <1>2, <1>3 DEF States, NewConn
<1>6. /\ w \in Uart /\ w.sent = 0 /\ w.printed = 0 /\ w.rx = s.uart.rx /\ w.tx = s.uart.tx
  BY <1>2 DEF Uart
<1>7. /\ f \in [Conns -> Conn] /\ f[c] = e /\ \A d \in Conns : d # c => f[d] = FreeConn
  BY <1>2, <1>3, <1>4
<1> HIDE DEF v, w, e, f
<1>8. /\ v \in States /\ v.drv = s.drv /\ v.uart = w /\ v.conn = f /\ v.cur = c
      /\ v.net = NewNet /\ v.tasks = s.tasks
  BY <1>1, <1>4, <1>5, <1>6, <1>7 DEF States
<1>9. Begun(v, c)  BY <1>1, <1>6, <1>7, <1>8 DEF Begun, Sized, e
<1>10. Good(x, 0)
  <2>1. /\ x \in States /\ x.tasks = v.tasks /\ x.conn = v.conn /\ x.cur = v.cur
        /\ x.net = v.net
        /\ x.drv.on /\ x.drv.alive = v.drv.alive /\ x.drv.buf = <<>>
        /\ x.drv.nsnd = 0 /\ x.drv.out = 0
        /\ x.uart.rx = <<>> /\ x.uart.tx = <<>>
        /\ x.uart.sent = v.uart.sent /\ x.uart.printed = v.uart.printed
    BY <1>8, DrvStartIs
  <2> HIDE DEF x
  <2>2. Len(x.drv.buf) <= BufMax  BY <2>1, Constants
  <2>3. Begun(x, c)  BY <1>9, <2>1, <2>2 DEF Begun
  <2> QED  BY <2>1, <2>3, BegunGood
<1>11. Good(y, 0)
  <2>1. /\ y \in States /\ y.tasks = v.tasks /\ y.conn = v.conn /\ y.cur = v.cur
        /\ y.net = v.net
        /\ ~y.drv.on /\ y.drv.alive = v.drv.alive /\ y.drv.buf = v.drv.buf
        /\ y.uart.rx = <<>> /\ y.uart.tx = <<>>
        /\ y.uart.sent = v.uart.sent /\ y.uart.printed = v.uart.printed
    BY <1>8, DrvCloseIs
  <2> HIDE DEF y
  <2>2. Begun(y, c)  BY <1>9, <2>1 DEF Begun
  <2> QED  BY <2>1, <2>2, BegunGood
<1>12. Good(Ended(v, c), 0)
  <2>1. NewNet.flight = 0 /\ 0 <= SndBuf  BY Constants DEF NewNet
  <2>2. Sized(v)  BY <1>1, <1>6, <1>8, <2>1 DEF Sized
  <2> QED  BY <1>7, <1>8, <2>2, EndedGood
<1> QED  BY <1>10, <1>11, <1>12 DEF v

\* tcp2uart_recv: what has come is put at the end of pbufi.
LEMMA ArrivedGood ==
  ASSUME NEW s, Good(s, 0), NEW c \in Conns, s.conn[c].st = "open", NEW n \in Nat
  PROVE  Good([s EXCEPT !.cur = c,
                        !.conn[c].pend = @ \o Run(s.conn[c].got, s.conn[c].got + n),
                        !.conn[c].cntri = 0,
                        !.conn[c].got = @ + n,
                        !.conn[c].win = @ - n], 0)
<1> DEFINE g == s.conn[c].got
           h == g + n
           p == s.conn[c].pend
           r == Run(g, h)
           q == p \o r
           x == s.conn[c].win - n
           e == [s.conn[c] EXCEPT !.pend = q, !.cntri = 0, !.got = h, !.win = x]
           m == s.net
           u == With(s, c, e, m)
<1>1. Sized(s) /\ s \in States /\ DriverOk(s, 0) /\ ConnOk(s, c, 0) /\ c = s.cur
  BY OthersFree DEF Good, Sized
<1>2. /\ s.conn[c] \in Conn /\ p \in Seq(Nat) /\ Len(p) \in Nat /\ g \in Nat
      /\ s.conn[c].win \in Int /\ m \in Net /\ s.conn \in [Conns -> Conn]
      /\ s.uart.tx \in Seq(Nat) /\ s.uart.printed \in Nat
  BY <1>1, ConnIs, PartsAre, FieldsAre
<1>3. [s EXCEPT !.cur = c,
                !.conn[c].pend = @ \o Run(s.conn[c].got, s.conn[c].got + n),
                !.conn[c].cntri = 0,
                !.conn[c].got = @ + n,
                !.conn[c].win = @ - n]
        = [s EXCEPT !.cur = c, !.conn[c].pend = q, !.conn[c].cntri = 0, !.conn[c].got = h,
                    !.conn[c].win = x]
  BY <1>1, <1>2 DEF States, Conn
<1>4. h \in Nat /\ g <= h /\ h - g = n  BY <1>2
<1> HIDE DEF h
<1>5. r \in Seq(Nat) /\ Len(r) = n
  <2>1. Run(g, h) \in Seq(Nat) /\ Len(Run(g, h)) = h - g  BY <1>2, <1>4, RunIs
  <2> QED  BY <1>4, <2>1
<1>6. q \in Seq(Nat) /\ Len(q) = Len(p) + n  BY <1>2, <1>5, ConcatProperties
<1>7. Holds(s.uart.tx, p, s.uart.printed, g) /\ s.conn[c].win + Len(p) = Wnd
  BY <1>1 DEF ConnOk, Outward
<1>8. Holds(s.uart.tx, q, s.uart.printed, h)  BY <1>2, <1>4, <1>7, HoldsMore
<1>9. x \in Int /\ x + Len(q) = Wnd
  <2> DEFINE a == s.conn[c].win
             b == Len(p)
  <2>1. a \in Int /\ b \in Nat /\ a + b = Wnd /\ Len(q) = b + n  BY <1>2, <1>6, <1>7
  <2> HIDE DEF a, b, q
  <2>2. a - n \in Int /\ (a - n) + (b + n) = Wnd  BY <2>1, Constants
  <2> QED  BY <2>1, <2>2 DEF a
<1> HIDE DEF q, x
<1>10. /\ e \in Conn /\ e.st = "open" /\ e.pend = q /\ e.got = h /\ e.win = x
       /\ e.cntro = s.conn[c].cntro
  BY <1>2, <1>4, <1>6, <1>9 DEF Conn
<1>11. [s EXCEPT !.cur = c, !.conn[c].pend = q, !.conn[c].cntri = 0, !.conn[c].got = h,
                 !.conn[c].win = x] = u
  <2> DEFINE v == [s EXCEPT !.cur = c, !.conn[c].pend = q, !.conn[c].cntri = 0,
                            !.conn[c].got = h, !.conn[c].win = x]
             y == [s.conn EXCEPT ![c].pend = q, ![c].cntri = 0, ![c].got = h, ![c].win = x]
             z == [s.conn EXCEPT ![c] = e]
  <2>1. v = [s EXCEPT !.cur = c, !.conn = y]  BY <1>1 DEF States
  <2>2. y = z  BY <1>2 DEF Conn
  <2>3. u = [s EXCEPT !.cur = c, !.conn = z]  BY <1>1 DEF With, States
  <2> HIDE DEF y, z
  <2> QED  BY <2>1, <2>2, <2>3
<1> HIDE DEF e, u
<1>12. /\ u \in States /\ u.drv = s.drv /\ u.uart = s.uart /\ u.tasks = s.tasks
       /\ u.cur = c /\ u.net = m /\ u.conn[c] = e
       /\ \A d \in Conns : d # c => u.conn[d] = s.conn[d]
  BY <1>1, <1>2, <1>10, WithIs DEF u
<1>13. Sized(u)  BY <1>1, <1>12 DEF Sized
<1>14. Owed(u) = Owed(s)  BY <1>12 DEF Owed
<1>15. DriverOk(u, 0)  BY <1>1, <1>10, <1>12, <1>14 DEF DriverOk
<1>16. ConnOk(u, c, 0)
  <2>1. Outward(u, c)  BY <1>8, <1>9, <1>10, <1>12 DEF Outward
  <2> QED  BY <1>1, <1>10, <1>12, <1>14, <2>1 DEF ConnOk, Inward
<1>17. ASSUME NEW d \in Conns  PROVE ConnOk(u, d, 0)
  <2>1. d # c => s.conn[d] = FreeConn  BY OthersFree
  <2>2. d # c => u.conn[d] = FreeConn  BY <1>12, <2>1
  <2> QED  BY <1>16, <2>2, FreeOk
<1> QED  BY <1>3, <1>11, <1>13, <1>15, <1>17 DEF Good

\* recv_trim_bufi leaves what waits in pbufi.
LEMMA TrimmedGood ==
  ASSUME NEW s, Good(s, 0), NEW c \in Conns, s.cur = c
  PROVE  Good(Trimmed(s, c), 0)
<1> DEFINE e == [s.conn[c] EXCEPT !.cntri = 0]
           m == s.net
           u == With(s, c, e, m)
<1>1. Sized(s) /\ s \in States /\ DriverOk(s, 0) /\ ConnOk(s, c, 0)
  BY DEF Good, Sized
<1>2. s.conn[c] \in Conn /\ m \in Net /\ s.conn \in [Conns -> Conn]
  BY <1>1, ConnIs, PartsAre
<1>3. Trimmed(s, c) = u  BY <1>1, <1>2 DEF Trimmed, With, States
<1>4. /\ e \in Conn /\ e.st = s.conn[c].st /\ e.pend = s.conn[c].pend
      /\ e.got = s.conn[c].got /\ e.win = s.conn[c].win /\ e.cntro = s.conn[c].cntro
      /\ s.conn[c] = FreeConn => e = FreeConn
  <2>1. s.conn[c] = FreeConn => e = FreeConn
    <3>1. FreeConn \in Conn /\ FreeConn.cntri = 0  BY FreeConnIs DEF FreeConn
    <3>2. [FreeConn EXCEPT !.cntri = 0] = FreeConn  BY <3>1 DEF Conn
    <3> QED  BY <3>2
  <2> QED  BY <1>2, <2>1 DEF Conn
<1> HIDE DEF e, u
<1>5. /\ u \in States /\ u.drv = s.drv /\ u.uart = s.uart /\ u.tasks = s.tasks
      /\ u.cur = c /\ u.net = m /\ u.conn[c] = e
      /\ \A d \in Conns : d # c => u.conn[d] = s.conn[d]
  BY <1>1, <1>2, <1>4, WithIs DEF u
<1>6. Sized(u)  BY <1>1, <1>5 DEF Sized
<1>7. Owed(u) = Owed(s)  BY <1>5 DEF Owed
<1>8. DriverOk(u, 0)  BY <1>1, <1>4, <1>5, <1>7 DEF DriverOk
<1>9. ConnOk(u, c, 0)
  <2>1. s.conn[c].st = "open" => Outward(u, c)
    BY <1>1, <1>4, <1>5 DEF ConnOk, Outward
  <2> QED  BY <1>1, <1>4, <1>5, <1>7, <2>1 DEF ConnOk, Inward
<1>10. ASSUME NEW d \in Conns, d # c  PROVE ConnOk(u, d, 0)
  <2>1. ConnOk(s, d, 0) /\ u.conn[d] = s.conn[d]  BY <1>5, <1>10 DEF Good
  <2>2. s.conn[d].st = "free"  BY <1>10, <2>1 DEF ConnOk
  <2>3. u.conn[d] = FreeConn  BY <2>1, <2>2 DEF ConnOk
  <2> QED  BY <2>3, FreeOk
<1> QED  BY <1>3, <1>6, <1>8, <1>9, <1>10 DEF Good

\* The peer has acknowledged n characters.
LEMMA AckedGood ==
  ASSUME NEW s, Good(s, 0), NEW c \in Conns, s.conn[c].st # "free",
         NEW n \in Nat, n <= s.net.flight
  PROVE  LET u == [s EXCEPT !.net.flight = @ - n, !.conn[c].wait = FALSE]
         IN  Good(u, 0) /\ u.conn[c].st = s.conn[c].st
<1> DEFINE x == s.net.flight - n
           e == [s.conn[c] EXCEPT !.wait = FALSE]
           m == [s.net EXCEPT !.flight = x]
           u == With(s, c, e, m)
<1>1. Sized(s) /\ s \in States /\ DriverOk(s, 0) /\ ConnOk(s, c, 0) /\ c = s.cur
  BY OthersFree DEF Good, Sized
<1>2. /\ s.conn[c] \in Conn /\ s.net \in Net /\ s.conn \in [Conns -> Conn]
      /\ s.net.flight \in Nat /\ s.net.flight <= SndBuf
  BY <1>1, ConnIs, PartsAre, FieldsAre DEF Sized
<1>3. x \in Nat /\ x <= SndBuf
  <2> DEFINE a == s.net.flight
  <2>1. a \in Nat /\ a <= SndBuf /\ n <= a  BY <1>2
  <2> HIDE DEF a
  <2>2. a - n \in Nat /\ a - n <= SndBuf  BY <2>1, Constants
  <2> QED  BY <2>2 DEF a
<1>4. [s EXCEPT !.net.flight = @ - n, !.conn[c].wait = FALSE] = u
  BY <1>1, <1>2 DEF With, States
<1> HIDE DEF x
<1>5. /\ m \in Net /\ m.flight = x /\ m.given = s.net.given /\ m.lost = s.net.lost
  BY <1>2, <1>3 DEF Net
<1>6. /\ e \in Conn /\ e.st = s.conn[c].st /\ e.pend = s.conn[c].pend
      /\ e.got = s.conn[c].got /\ e.win = s.conn[c].win /\ e.cntro = s.conn[c].cntro
  BY <1>2 DEF Conn
<1> HIDE DEF e, m, u
<1>7. /\ u \in States /\ u.drv = s.drv /\ u.uart = s.uart /\ u.tasks = s.tasks
      /\ u.cur = c /\ u.net = m /\ u.conn[c] = e
      /\ \A d \in Conns : d # c => u.conn[d] = s.conn[d]
  BY <1>1, <1>5, <1>6, WithIs DEF u
<1>8. Sized(u)  BY <1>1, <1>3, <1>5, <1>7 DEF Sized
<1>9. Owed(u) = Owed(s)  BY <1>5, <1>7 DEF Owed
<1>10. DriverOk(u, 0)  BY <1>1, <1>6, <1>7, <1>9 DEF DriverOk
<1>11. ConnOk(u, c, 0)
  <2>1. s.conn[c].st = "open" => Outward(u, c)
    BY <1>1, <1>6, <1>7 DEF ConnOk, Outward
  <2>2. s.conn[c].st = "open" /\ s.drv.on => Inward(u)
    BY <1>1, <1>5, <1>7 DEF ConnOk, Inward
  <2> QED  BY <1>1, <1>6, <1>7, <1>9, <2>1, <2>2 DEF ConnOk
<1>12. ASSUME NEW d \in Conns  PROVE ConnOk(u, d, 0)
  <2>1. d # c => s.conn[d] = FreeConn  BY OthersFree
  <2>2. d # c => u.conn[d] = FreeConn  BY <1>7, <2>1
  <2> QED  BY <1>11, <2>2, FreeOk
<1>13. Good(u, 0)  BY <1>8, <1>10, <1>12 DEF Good
<1> QED  BY <1>4, <1>6, <1>7, <1>13
(***************************************************************************)
(* The steps                                                               *)
(***************************************************************************)
\* The parts of the present state
LEMMA NowIs ==
  /\ Now.drv = drv /\ Now.uart = uart /\ Now.tasks = tasks /\ Now.conn = conn
  /\ Now.cur = cur /\ Now.net = net
  BY DEF Now

\* A step to a good state
LEMMA BecomeGood ==
  ASSUME NEW t, Good(t, 0), Become(t), cfg \in Cfgs, cfg' = cfg
  PROVE  IInv'
<1>1. t \in States  BY DEF Good, Sized
<1>2. /\ drv' = t.drv /\ uart' = t.uart /\ tasks' = t.tasks /\ conn' = t.conn
      /\ cur' = t.cur /\ net' = t.net
  BY DEF Become
<1>3. t = [drv |-> t.drv, uart |-> t.uart, tasks |-> t.tasks, conn |-> t.conn,
           cur |-> t.cur, net |-> t.net]
  BY <1>1 DEF States
<1>4. Now' = t  BY <1>2, <1>3 DEF Now
<1>5. Good(Now', 0)  BY <1>4
<1> QED  BY <1>5 DEF IInv

\* A step on the line
LEMMA LineStep ==
  ASSUME IInv, uart' \in Uart, Len(uart'.rx) <= RxFifo, Len(uart'.tx) <= TxFifo,
         drv.on /\ Inward(Now) => Holds(drv.buf, uart'.rx, net.given, uart'.sent),
         \A c \in Conns : Holds(uart.tx, conn[c].pend, uart.printed, conn[c].got) =>
                            Holds(uart'.tx, conn[c].pend, uart'.printed, conn[c].got),
         UNCHANGED <<cfg, drv, tasks, conn, cur, net>>
  PROVE  IInv'
<1> DEFINE w == uart'
<1>1. Good(Now, 0) /\ cfg \in Cfgs  BY DEF IInv
<1>2. Now' = [Now EXCEPT !.uart = w]  BY DEF Now
<1>3. /\ w \in Uart /\ Len(w.rx) <= RxFifo /\ Len(w.tx) <= TxFifo
      /\ Now.drv.on /\ Inward(Now) => Holds(Now.drv.buf, w.rx, Now.net.given, w.sent)
      /\ \A c \in Conns :
           Holds(Now.uart.tx, Now.conn[c].pend, Now.uart.printed, Now.conn[c].got) =>
             Holds(w.tx, Now.conn[c].pend, w.printed, Now.conn[c].got)
  BY NowIs
<1> HIDE DEF w
<1>4. Good([Now EXCEPT !.uart = w], 0)  BY <1>1, <1>3, LineGood
<1>5. Good(Now', 0)  BY <1>2, <1>4
<1> QED  BY <1>1, <1>5 DEF IInv

\* A character comes from the device.
LEMMA CharacterStep == IInv /\ Character => IInv'
<1> SUFFICES ASSUME IInv, Character  PROVE IInv'  OBVIOUS
<1> DEFINE b == uart.sent
           r == Append(uart.rx, b + 1)
           p == IF uart.pause = "no" THEN "due" ELSE uart.pause
           w == [uart EXCEPT !.sent = b + 1, !.rx = r, !.pause = p]
<1>1. Now \in States  BY DEF IInv, Good, Sized
<1>2. /\ uart \in Uart /\ uart.rx \in Seq(Nat) /\ Len(uart.rx) \in Nat /\ b \in Nat
      /\ drv.buf \in Seq(Nat) /\ net.given \in Nat /\ Len(uart.tx) <= TxFifo
      /\ uart.pause \in {"no", "due", "raised"}
  BY <1>1, PartsAre, FieldsAre, NowIs DEF IInv, Good, Sized
<1>3. /\ uart' = w /\ Len(uart.rx) < RxFifo
      /\ UNCHANGED <<cfg, drv, tasks, conn, cur, net>>
  BY DEF Character
<1>4. r \in Seq(Nat) /\ Len(r) = Len(uart.rx) + 1
  <2>1. b + 1 \in Nat  BY <1>2
  <2> QED  BY <1>2, <2>1, AppendProperties
<1>5. p \in {"no", "due", "raised"} /\ b + 1 \in Nat  BY <1>2
<1>6. Inward(Now) => Holds(drv.buf, r, net.given, b + 1)
  BY <1>2, HoldsNext, NowIs DEF Inward
<1> HIDE DEF r, p
<1>7. /\ w \in Uart /\ w.rx = r /\ w.tx = uart.tx /\ w.sent = b + 1
      /\ w.printed = uart.printed
  BY <1>2, <1>4, <1>5 DEF Uart
<1> HIDE DEF w
<1>8. Len(w.rx) <= RxFifo  BY <1>2, <1>3, <1>4, <1>7, Constants
<1> QED  BY <1>2, <1>3, <1>6, <1>7, <1>8, LineStep

\* The line is silent.
LEMMA PauseStep == IInv /\ Pause => IInv'
<1> SUFFICES ASSUME IInv, Pause  PROVE IInv'  OBVIOUS
<1> DEFINE w == [uart EXCEPT !.pause = "raised"]
<1>1. Now \in States  BY DEF IInv, Good, Sized
<1>2. uart \in Uart /\ Len(uart.rx) <= RxFifo /\ Len(uart.tx) <= TxFifo
  BY <1>1, PartsAre, NowIs DEF IInv, Good, Sized
<1>3. uart' = w /\ UNCHANGED <<cfg, drv, tasks, conn, cur, net>>  BY DEF Pause
<1>4. /\ w \in Uart /\ w.rx = uart.rx /\ w.tx = uart.tx /\ w.sent = uart.sent
      /\ w.printed = uart.printed
  BY <1>2 DEF Uart
<1> HIDE DEF w
<1>5. Inward(Now) => Holds(drv.buf, w.rx, net.given, w.sent)  BY <1>4, NowIs DEF Inward
<1> QED  BY <1>2, <1>3, <1>4, <1>5, LineStep

\* The device is given a character.
LEMMA OutputStep == IInv /\ Output => IInv'
<1> SUFFICES ASSUME IInv, Output  PROVE IInv'  OBVIOUS
<1> DEFINE a == uart.printed
           q == Tail(uart.tx)
           w == [uart EXCEPT !.tx = q, !.printed = a + 1]
<1>1. Now \in States  BY DEF IInv, Good, Sized
<1>2. /\ uart \in Uart /\ uart.tx \in Seq(Nat) /\ Len(uart.tx) \in Nat /\ a \in Nat
      /\ Len(uart.rx) <= RxFifo /\ Len(uart.tx) <= TxFifo
  BY <1>1, PartsAre, FieldsAre, NowIs DEF IInv, Good, Sized
<1>3. /\ uart' = w /\ uart.tx # <<>>
      /\ UNCHANGED <<cfg, drv, tasks, conn, cur, net>>
  BY DEF Output
<1>4. q \in Seq(Nat) /\ Len(q) = Len(uart.tx) - 1
  <2>1. 0 \in Nat /\ <<>> \in Seq(Nat)  BY EmptySeq
  <2> QED  BY <1>2, <1>3, <2>1, HoldsTail
<1>5. ASSUME NEW c \in Conns, Holds(uart.tx, conn[c].pend, a, conn[c].got)
      PROVE  Holds(q, conn[c].pend, a + 1, conn[c].got)
  <2>1. conn[c].pend \in Seq(Nat) /\ conn[c].got \in Nat  BY <1>1, ConnIs, NowIs
  <2> QED  BY <1>2, <1>3, <1>5, <2>1, HoldsTail
<1> HIDE DEF q
<1>6. /\ w \in Uart /\ w.rx = uart.rx /\ w.tx = q /\ w.sent = uart.sent
      /\ w.printed = a + 1
  <2>1. a + 1 \in Nat  BY <1>2
  <2> QED  BY <1>2, <1>4, <2>1 DEF Uart
<1> HIDE DEF w
<1>7. Inward(Now) => Holds(drv.buf, w.rx, net.given, w.sent)  BY <1>6, NowIs DEF Inward
<1>8. Len(w.tx) <= TxFifo  BY <1>2, <1>4, <1>6, Constants
<1> QED  BY <1>2, <1>3, <1>5, <1>6, <1>7, <1>8, LineStep

\* uart_intr_handler
LEMMA InterruptStep == IInv /\ Interrupt => IInv'
<1> SUFFICES ASSUME IInv, Interrupt  PROVE IInv'  OBVIOUS
<1> DEFINE tout == uart.pause = "raised"
           s == IF RxInts THEN Received(Now, tout) ELSE Now
           d == [drv EXCEPT !.rxen = FALSE, !.txen = FALSE]
           u == [Now EXCEPT !.drv.rxen = FALSE, !.drv.txen = FALSE]
<1>1. Good(Now, 0) /\ cfg \in Cfgs /\ Now \in States  BY DEF IInv, Good, Sized
<1>2. /\ Become(IF ~drv.on THEN u ELSE IF TxInts THEN Emptied(s) ELSE s)
      /\ cfg' = cfg
  BY DEF Interrupt
<1>3. CASE ~drv.on
  <2>1. drv \in Driver /\ uart \in Uart  BY <1>1, PartsAre, NowIs
  <2>2. d \in Driver  BY <2>1 DEF Driver
  <2>3. Switched(Now, d, uart)  BY <2>1, NowIs DEF Switched, Driver
  <2>4. u = [Now EXCEPT !.drv = d, !.uart = uart]  BY <1>1, <2>1, NowIs DEF States
  <2> HIDE DEF d, u
  <2> DEFINE w == uart
  <2>5. w \in Uart /\ Switched(Now, d, w) /\ u = [Now EXCEPT !.drv = d, !.uart = w]
    BY <2>1, <2>3, <2>4
  <2> HIDE DEF w
  <2>6. LET v == [Now EXCEPT !.drv = d, !.uart = w]
        IN  Good(v, 0) /\ v.drv = d
    BY <1>1, <2>2, <2>5, SwitchedGood
  <2>7. Good(u, 0)  BY <2>5, <2>6
  <2> QED  BY <1>1, <1>2, <1>3, <2>7, BecomeGood
<1>4. CASE drv.on
  <2>1. Now.drv.on  BY <1>4, NowIs
  <2>2. tout \in BOOLEAN  OBVIOUS
  <2> HIDE DEF tout
  <2>3. Good(s, 0) /\ s.drv.on
    <3>1. Good(Received(Now, tout), 0) /\ Received(Now, tout).drv.on
      BY <1>1, <2>1, <2>2, ReceivedGood
    <3> QED  BY <1>1, <2>1, <3>1
  <2> HIDE DEF s
  <2>4. Good(Emptied(s), 0)  BY <2>3, EmptiedGood
  <2>5. CASE TxInts  BY <1>1, <1>2, <1>4, <2>4, <2>5, BecomeGood
  <2>6. CASE ~TxInts  BY <1>1, <1>2, <1>4, <2>3, <2>6, BecomeGood
  <2> QED  BY <2>5, <2>6
<1> QED  BY <1>3, <1>4

\* uart_task
LEMMA TaskStep == Benign(Cfgs) /\ IInv /\ Task => IInv'
<1> SUFFICES ASSUME Benign(Cfgs), IInv, Task  PROVE IInv'  OBVIOUS
<1> DEFINE e == Head(tasks)
           s == [Now EXCEPT !.tasks = Tail(@)]
<1>1. Good(Now, 0) /\ cfg \in Cfgs /\ Now \in States  BY DEF IInv, Good, Sized
<1>2. /\ tasks # <<>> /\ cfg' = cfg
      /\ IF ~drv.on THEN Become(DrvClose(s))
         ELSE IF e.sig = "TX" THEN Become(SendTxBuf(s))
         ELSE \E t \in SendRxBuf(s, e.par) : Become(t)
  BY DEF Task
<1>3. e \in Events /\ Good(s, e.par) /\ s.drv = drv /\ s.conn = conn
  <2>1. Now.tasks = tasks /\ Now.drv = drv /\ Now.conn = conn  BY NowIs
  <2>2. LET f == Head(Now.tasks)
            u == [Now EXCEPT !.tasks = Tail(@)]
        IN  /\ f \in Events /\ Good(u, f.par) /\ u.drv = Now.drv /\ u.conn = Now.conn
            /\ u.cur = Now.cur
    BY <1>1, <1>2, <2>1, TailGood
  <2> QED  BY <2>1, <2>2
<1>4. e.par \in Nat /\ (e.sig = "TX" => e.par = 0)  BY <1>3 DEF Events
<1> HIDE DEF e, s
<1>5. CASE ~drv.on
  <2>1. \A c \in Conns : s.conn[c].st # "open"
    <3>1. \A c \in Conns : ConnOk(Now, c, 0)  BY <1>1 DEF Good
    <3> QED  BY <1>2, <1>3, <1>5, <3>1, NowIs DEF ConnOk
  <2>2. Good(DrvClose(s), 0)  BY <1>3, <1>4, <2>1, ClosedGood
  <2> QED  BY <1>1, <1>2, <1>5, <2>2, BecomeGood
<1>6. CASE drv.on /\ e.sig = "TX"
  <2>1. Good(SendTxBuf(s), 0)
    <3>1. Good(s, 0)  BY <1>3, <1>4, <1>6
    <3> QED  BY <3>1, SendTxBufGood
  <2> QED  BY <1>1, <1>2, <1>6, <2>1, BecomeGood
<1>7. CASE drv.on /\ e.sig # "TX"
  <2>1. PICK t \in SendRxBuf(s, e.par) : Become(t)  BY <1>2, <1>7
  <2>2. "write" \notin cfg.faults  BY <1>1 DEF Benign
  <2>3. s.drv.on  BY <1>3, <1>7
  <2>4. Good(t, 0)  BY <1>3, <1>4, <2>1, <2>2, <2>3, SendRxBufGood
  <2> QED  BY <1>1, <1>2, <2>1, <2>4, BecomeGood
<1> QED  BY <1>5, <1>6, <1>7
\* tcp2uart_start
LEMMA StartStep == IInv /\ Start => IInv'
<1> SUFFICES ASSUME IInv, Start  PROVE IInv'  OBVIOUS
<1>1. Good(Now, 0) /\ cfg \in Cfgs  BY DEF IInv
<1>2. LET u == [Now EXCEPT !.net.serving = TRUE]
      IN  Good(u, 0) /\ u.conn = Now.conn /\ u.cur = Now.cur
  BY <1>1, ServingGood
<1> DEFINE u == [Now EXCEPT !.net.serving = TRUE]
<1>3. Good(u, 0) /\ Become(u) /\ cfg' = cfg  BY <1>2 DEF Start
<1> HIDE DEF u
<1> QED  BY <1>1, <1>3, BecomeGood

\* tcp2uart_close
LEMMA StopStep == IInv /\ Stop => IInv'
<1> SUFFICES ASSUME IInv, Stop  PROVE IInv'  OBVIOUS
<1> DEFINE open == {c \in Conns : conn[c].st # "free"}
           u == [Now EXCEPT !.net.serving = FALSE]
           s == DrvClose(u)
           c == CHOOSE d \in open : TRUE
<1>1. Good(Now, 0) /\ cfg \in Cfgs  BY DEF IInv
<1>2. Good(u, 0) /\ u.conn = conn /\ u.cur = cur
  <2>1. LET v == [Now EXCEPT !.net.serving = FALSE]
        IN  Good(v, 0) /\ v.conn = Now.conn /\ v.cur = Now.cur
    BY <1>1, ServingGood
  <2> QED  BY <2>1, NowIs
<1>3. Become(IF open = {} THEN s ELSE Ended(s, c)) /\ cfg' = cfg  BY DEF Stop
<1> HIDE DEF u
<1>4. CASE open = {}
  <2>1. \A d \in Conns : u.conn[d].st # "open"  BY <1>2, <1>4
  <2>2. 0 \in Nat  OBVIOUS
  <2>3. Good(s, 0)  BY <1>2, <2>1, <2>2, ClosedGood
  <2> QED  BY <1>1, <1>3, <1>4, <2>3, BecomeGood
<1>5. CASE open # {}
  <2>1. c \in Conns /\ conn[c].st # "free"  BY <1>5
  <2> HIDE DEF c
  <2>2. c = u.cur /\ \A d \in Conns : d # c => u.conn[d] = FreeConn
    BY <1>2, <2>1, OthersFree
  <2>3. Sized(u) /\ u \in States  BY <1>2 DEF Good, Sized
  <2>4. /\ s \in States /\ s.tasks = u.tasks /\ s.conn = u.conn /\ s.cur = u.cur
        /\ s.net = u.net
        /\ s.drv.alive = u.drv.alive /\ s.drv.buf = u.drv.buf
        /\ s.uart.rx = <<>> /\ s.uart.tx = <<>>
    BY <2>3, DrvCloseIs
  <2> HIDE DEF s
  <2>5. Sized(s)
    <3>1. Len(s.uart.rx) <= RxFifo /\ Len(s.uart.tx) <= TxFifo  BY <2>4, Constants
    <3> QED  BY <2>3, <2>4, <3>1 DEF Sized
  <2>6. Good(Ended(s, c), 0)  BY <2>1, <2>2, <2>4, <2>5, EndedGood
  <2> QED  BY <1>1, <1>3, <1>5, <2>6, BecomeGood
<1> QED  BY <1>4, <1>5

\* tcp2uart_listen
LEMMA ListenStep ==
  ASSUME Benign(Cfgs), IInv, NEW c \in Conns, Listen(c)
  PROVE  IInv'
<1> DEFINE s == [Now EXCEPT !.cur = c, !.conn[c].st = "open", !.uart.sent = 0,
                            !.uart.printed = 0, !.net = NewNet]
<1>1. Good(Now, 0) /\ cfg \in Cfgs  BY DEF IInv
<1>2. tasks = <<>> /\ \A d \in Conns : conn[d].st = "free"
  <2>1. "stale" \notin cfg.faults  BY <1>1 DEF Benign
  <2> QED  BY <2>1 DEF Listen
<1>3. cfg' = cfg /\ (Become(DrvStart(s)) \/ Become(DrvClose(s)) \/ Become(Ended(s, c)))
  BY DEF Listen, NewNet
<1>4. Good(DrvStart(s), 0) /\ Good(DrvClose(s), 0) /\ Good(Ended(s, c), 0)
  <2>1. Now.tasks = <<>> /\ \A d \in Conns : Now.conn[d].st = "free"  BY <1>2, NowIs
  <2>2. LET v == [Now EXCEPT !.cur = c, !.conn[c].st = "open", !.uart.sent = 0,
                             !.uart.printed = 0, !.net = NewNet]
        IN  Good(DrvStart(v), 0) /\ Good(DrvClose(v), 0) /\ Good(Ended(v, c), 0)
    BY <1>1, <2>1, ListenGood
  <2> QED  BY <2>2
<1> HIDE DEF s
<1>5. CASE Become(DrvStart(s))  BY <1>1, <1>3, <1>4, <1>5, BecomeGood
<1>6. CASE Become(DrvClose(s))  BY <1>1, <1>3, <1>4, <1>6, BecomeGood
<1>7. CASE Become(Ended(s, c))  BY <1>1, <1>3, <1>4, <1>7, BecomeGood
<1> QED  BY <1>3, <1>5, <1>6, <1>7

\* tcp2uart_recv, when there is memory for what is left in pbufi
LEMMA RecvStep ==
  ASSUME Benign(Cfgs), IInv, NEW c \in Conns, NEW n \in 1 .. Wnd, Recv(c, n)
  PROVE  IInv'
<1> DEFINE s == [Now EXCEPT !.cur = c,
                            !.conn[c].pend = @ \o Run(Now.conn[c].got, Now.conn[c].got + n),
                            !.conn[c].cntri = 0,
                            !.conn[c].got = @ + n,
                            !.conn[c].win = @ - n]
           t == Arrived(Now, c, n)
<1>1. Good(Now, 0) /\ cfg \in Cfgs  BY DEF IInv
<1>2. "trim" \notin cfg.faults  BY <1>1 DEF Benign
<1>3. conn[c].st = "open" /\ Become(Trimmed(t, c)) /\ cfg' = cfg  BY <1>2 DEF Recv
<1>4. Good(s, 0) /\ s.cur = c
  <2>1. Now.conn = conn /\ n \in Nat  BY NowIs
  <2>2. Now \in States  BY <1>1 DEF Good, Sized
  <2>3. s.cur = c  BY <2>2 DEF States
  <2> QED  BY <1>1, <1>3, <2>1, <2>3, ArrivedGood
<1>5. t = SendTxBuf(s)  BY DEF Arrived
<1> HIDE DEF s, t
<1>6. Good(t, 0) /\ t.cur = c
  <2>1. 0 \in Nat /\ s \in States  BY <1>4 DEF Good, Sized
  <2>2. SendTxBuf(s).cur = s.cur  BY <2>1 DEF SendTxBuf, States
  <2> QED  BY <1>4, <1>5, <2>1, <2>2, SendTxBufGood
<1>7. Good(Trimmed(t, c), 0)  BY <1>6, TrimmedGood
<1> QED  BY <1>1, <1>3, <1>7, BecomeGood

\* An acknowledgement
LEMMA SentStep ==
  ASSUME Benign(Cfgs), IInv, NEW c \in Conns, NEW n \in 1 .. SndBuf, Sent(c, n)
  PROVE  IInv'
<1> DEFINE s == [Now EXCEPT !.net.flight = @ - n, !.conn[c].wait = FALSE]
<1>1. Good(Now, 0) /\ cfg \in Cfgs  BY DEF IInv
<1>2. /\ conn[c].st # "free" /\ n <= net.flight /\ n \in Nat /\ cfg' = cfg
      /\ IF conn[c].st = "open" THEN \E t \in SentCb(s, c) : Become(t) ELSE Become(s)
  BY DEF Sent
<1>3. Good(s, 0) /\ s.conn[c].st = conn[c].st
  <2>1. Now.conn = conn /\ Now.net = net  BY NowIs
  <2>2. LET u == [Now EXCEPT !.net.flight = @ - n, !.conn[c].wait = FALSE]
        IN  Good(u, 0) /\ u.conn[c].st = Now.conn[c].st
    BY <1>1, <1>2, <2>1, AckedGood
  <2> QED  BY <2>1, <2>2
<1> HIDE DEF s
<1>4. CASE conn[c].st = "open"
  <2>1. PICK t \in SentCb(s, c) : Become(t)  BY <1>2, <1>4
  <2>2. "write" \notin cfg.faults  BY <1>1 DEF Benign
  <2>3. Good(t, 0)  BY <1>3, <1>4, <2>1, <2>2, SentCbGood
  <2> QED  BY <1>1, <1>2, <2>1, <2>3, BecomeGood
<1>5. CASE conn[c].st # "open"  BY <1>1, <1>2, <1>3, <1>5, BecomeGood
<1> QED  BY <1>4, <1>5

\* The end of a connection
LEMMA CloseStep ==
  ASSUME IInv, NEW c \in Conns, Close(c)
  PROVE  IInv'
<1>1. Good(Now, 0) /\ cfg \in Cfgs /\ cfg' = cfg /\ Now.conn = conn
  BY NowIs DEF IInv, Close
<1>2. CASE conn[c].st = "open" /\ \E t \in ServerClose(Now, c) : Become(t)
  <2>1. PICK t \in ServerClose(Now, c) : Become(t)  BY <1>2
  <2>2. Good(t, 0)  BY <1>1, <1>2, <2>1, ServerCloseGood
  <2> QED  BY <1>1, <2>1, <2>2, BecomeGood
<1>3. CASE conn[c].st = "closing" /\ Become(Ended(Now, c))
  <2>1. c = Now.cur /\ \A d \in Conns : d # c => Now.conn[d] = FreeConn
    BY <1>1, <1>3, OthersFree
  <2>2. Sized(Now)  BY <1>1 DEF Good
  <2>3. Good(Ended(Now, c), 0)  BY <2>1, <2>2, EndedGood
  <2> QED  BY <1>1, <1>3, <2>3, BecomeGood
<1> QED  BY <1>2, <1>3 DEF Close

\* The first state
LEMMA Initially == Init => IInv
<1> SUFFICES ASSUME Init  PROVE IInv  OBVIOUS
<1>1. /\ cfg \in Cfgs
      /\ drv = [on |-> FALSE, buf |-> <<>>, out |-> 0, nsnd |-> 0,
                rxen |-> FALSE, txen |-> FALSE, alive |-> TRUE]
      /\ uart = [rx |-> <<>>, tx |-> <<>>, sent |-> 0, printed |-> 0, pause |-> "no"]
      /\ tasks = <<>>
      /\ conn = [c \in Conns |-> FreeConn]
      /\ cur = None
      /\ net = [given |-> 0, flight |-> 0, lost |-> 0, missed |-> FALSE, serving |-> FALSE]
  BY DEF Init
<1>2. <<>> \in Seq(Nat) /\ <<>> \in Seq(Events) /\ Len(<<>>) = 0 /\ 0 \in 0 .. Word - 1
  BY EmptySeq, Constants
<1>3. drv \in Driver  BY <1>1, <1>2 DEF Driver
<1>4. uart \in Uart  BY <1>1, <1>2 DEF Uart
<1>5. net \in Net  BY <1>1 DEF Net
<1>6. conn \in [Conns -> Conn]  BY <1>1, FreeConnIs
<1>7. Now \in States  BY <1>1, <1>2, <1>3, <1>4, <1>5, <1>6 DEF Now, States
<1>8. Sized(Now)
  <2>1. Len(drv.buf) = 0 /\ Len(uart.rx) = 0 /\ Len(uart.tx) = 0 /\ Len(tasks) = 0
    BY <1>1, <1>2
  <2>2. net.flight = 0 /\ drv.alive  BY <1>1
  <2> QED  BY <1>7, <2>1, <2>2, Constants, NowIs DEF Sized
<1>9. DriverOk(Now, 0)
  <2>1. ~Now.drv.on  BY <1>1, NowIs
  <2> QED  BY <2>1 DEF DriverOk
<1>10. ASSUME NEW c \in Conns  PROVE ConnOk(Now, c, 0)
  <2>1. Now.conn[c] = FreeConn  BY <1>1, NowIs
  <2> QED  BY <2>1, FreeOk
<1> QED  BY <1>1, <1>8, <1>9, <1>10 DEF IInv, Good

\* Every step keeps the invariant.
LEMMA Inductive == Benign(Cfgs) /\ IInv /\ [Next]_vars => IInv'
<1> SUFFICES ASSUME Benign(Cfgs), IInv, [Next]_vars  PROVE IInv'  OBVIOUS
<1>1. CASE UNCHANGED vars
  <2>1. Now' = Now /\ cfg' = cfg  BY <1>1 DEF Now, vars
  <2>2. Good(Now', 0)  BY <2>1 DEF IInv
  <2> QED  BY <2>1, <2>2 DEF IInv
<1>2. CASE Character  BY <1>2, CharacterStep
<1>3. CASE Pause  BY <1>3, PauseStep
<1>4. CASE Output  BY <1>4, OutputStep
<1>5. CASE Interrupt  BY <1>5, InterruptStep
<1>6. CASE Task  BY <1>6, TaskStep
<1>7. CASE Start  BY <1>7, StartStep
<1>8. CASE Stop  BY <1>8, StopStep
<1>9. ASSUME NEW c \in Conns, Listen(c)  PROVE IInv'  BY <1>9, ListenStep
<1>10. ASSUME NEW c \in Conns, NEW n \in 1 .. Wnd, Recv(c, n)  PROVE IInv'
  BY <1>10, RecvStep
<1>11. ASSUME NEW c \in Conns, NEW n \in 1 .. SndBuf, Sent(c, n)  PROVE IInv'
  BY <1>11, SentStep
<1>12. ASSUME NEW c \in Conns, Close(c)  PROVE IInv'  BY <1>12, CloseStep
<1> QED
  BY <1>1, <1>2, <1>3, <1>4, <1>5, <1>6, <1>7, <1>8, <1>9, <1>10, <1>11, <1>12 DEF Next

(***************************************************************************)
(* Theorems                                                                *)
(***************************************************************************)
\* The invariant.  tcp_write and mem_realloc must find memory, and a session begin when
\* the events of the last one have been handled: without it the code loses the agreement.
THEOREM Invariance ==
  ASSUME Benign(Cfgs)
  PROVE  Spec => []IInv
<1>1. Init => IInv  BY Initially
<1>2. IInv /\ [Next]_vars => IInv'  BY Inductive
<1> QED  BY <1>1, <1>2, PTL DEF Spec
\* What the invariant says of the variables
LEMMA Parts == IInv => /\ Now \in States /\ Sized(Now) /\ DriverOk(Now, 0)
                       /\ \A c \in Conns : ConnOk(Now, c, 0)
  BY DEF IInv, Good, Sized

\* Every part of the state has its type, and the buffer and the FIFOs hold no more than
\* they can.
THEOREM TypeCorrect ==
  ASSUME Benign(Cfgs)
  PROVE  Spec => []TypeOK
<1>1. IInv => TypeOK
  <2> SUFFICES ASSUME IInv  PROVE TypeOK  OBVIOUS
  <2>1. Now \in States /\ Sized(Now) /\ cfg \in Cfgs  BY Parts DEF IInv
  <2>2. /\ drv \in Driver /\ uart \in Uart /\ tasks \in Seq(Events)
        /\ conn \in [Conns -> Conn] /\ cur \in Conns \cup {None} /\ net \in Net
    BY <2>1, PartsAre, NowIs
  <2>3. tasks \in Seq([sig : {"RX", "TX"}, par : Nat])
    <3>1. Events \subseteq [sig : {"RX", "TX"}, par : Nat]  BY DEF Events
    <3> QED  BY <2>2, <3>1, SeqMonotonic
  <2> QED  BY <2>1, <2>2, <2>3, NowIs DEF TypeOK, Sized
<1> QED  BY <1>1, Invariance, PTL

\* Nothing is lost, doubled or disordered in either direction, and the window is what
\* there is room for, as long as tcp_write and the shortening of pbufi (recv_trim_bufi)
\* find memory and no event of the last session is left: the code loses characters when
\* either does not.
THEOREM StreamsInOrder ==
  ASSUME Benign(Cfgs)
  PROVE  Spec => []InOrder
<1>1. IInv => InOrder
  <2> SUFFICES ASSUME IInv, NEW c \in Conns, Open(c)
               PROVE  /\ drv.on => drv.buf \o uart.rx = Run(net.given, uart.sent)
                      /\ uart.tx \o conn[c].pend = Run(uart.printed, conn[c].got)
                      /\ conn[c].win + Len(conn[c].pend) = Wnd
    BY DEF InOrder
  <2>1. ConnOk(Now, c, 0)  BY Parts
  <2>2. Outward(Now, c) /\ (drv.on => Inward(Now))  BY <2>1, NowIs DEF ConnOk, Open
  <2> QED  BY <2>2, NowIs DEF Outward, Inward, Holds
<1> QED  BY <1>1, Invariance, PTL

\* uart_nsnd_buf_count is what the connection has still to send and what was announced,
\* and tcp2uart_conn is the right connection when there is something to send.
THEOREM CountersAgree ==
  ASSUME Benign(Cfgs)
  PROVE  Spec => []Accounted
<1>1. IInv => Accounted
  <2> SUFFICES ASSUME IInv  PROVE Accounted  OBVIOUS
  <2>1. Now \in States /\ Sized(Now) /\ DriverOk(Now, 0)  BY Parts
  <2>2. drv.alive  BY <2>1, NowIs DEF Sized
  <2>3. drv.on => cur # None /\ conn[cur].st # "free"
    BY <2>1, BridgeAssumption, NowIs DEF DriverOk
  <2>4. Owed(Now) = NotSent  BY NowIs DEF Owed, NotSent
  <2>5. ASSUME NEW c \in Conns, Open(c), drv.on
        PROVE  drv.nsnd = conn[c].cntro + NotSent /\ drv.nsnd = drv.out /\ drv.out <= Len(drv.buf)
    <3>1. drv.nsnd = drv.out /\ drv.out <= Len(drv.buf)  BY <2>1, <2>5, NowIs DEF DriverOk
    <3>2. ConnOk(Now, c, 0)  BY Parts
    <3>3. drv.nsnd = conn[c].cntro + Owed(Now) + 0
      BY <2>5, <3>2, NowIs DEF ConnOk, Open
    <3>4. Owed(Now) \in Nat /\ conn[c].cntro \in Nat  BY <2>1, OwedIs, ConnIs, NowIs
    <3>5. conn[c].cntro + Owed(Now) + 0 = conn[c].cntro + Owed(Now)  BY <3>4
    <3> QED  BY <2>4, <3>1, <3>3, <3>5
  <2> QED  BY <2>2, <2>3, <2>5 DEF Accounted
<1> QED  BY <1>1, Invariance, PTL

\* What is said to be in the buffer and not sent is in the buffer.  A run shows that it is
\* not so when a session begins before the events of the last one have been handled, and
\* this that it is so otherwise.
THEOREM NotSentIsInBuffer ==
  ASSUME Benign(Cfgs)
  PROVE  Spec => []NotSentInBuffer
<1>1. IInv => NotSentInBuffer
  <2> SUFFICES ASSUME IInv, drv.on  PROVE drv.nsnd <= Len(drv.buf)
    BY DEF NotSentInBuffer
  <2>1. DriverOk(Now, 0)  BY Parts
  <2> QED  BY <2>1, NowIs DEF DriverOk
<1> QED  BY <1>1, Invariance, PTL

=============================================================================
