---------------------------- MODULE WebSrvFraming ----------------------------
(***************************************************************************)
(* A body is as long as its header said, or over when its chunks are: the  *)
(* theorem about Framed, for any pages that DiskOk and Decent allow, any   *)
(* number of connections and handles, and any sizes of the buffers.        *)
(*                                                                         *)
(* What is left of a page is told by the files that are open: the first of *)
(* them is the page or a file it includes, and the last read of each says  *)
(* that it is the last.  The invariant is added to the one of WebSrvProofs *)
(* and kept by the same functions in the same order.                       *)
(***************************************************************************)
EXTENDS WebSrvProofs

(***************************************************************************)
(* Where a page is                                                         *)
(***************************************************************************)
\* A rank of the files: each is above those it includes.
Rank == CHOOSE rank \in [DOMAIN Pages -> 0 .. Depth - 1] : Ranks(rank)

\* The first file of k, at the place pos of p, is not over but with a read that says so: if it
\* ends with a callback, the reads before that are of the file itself.  F are the flags, at is
\* the place of the callback to repeat.
Going(p, pos, k, F, at) ==
  LET n == Size(p)
  IN  /\ Pages[p].parsed
      /\ \/ ShortEnd(p) /\ pos <= n
         \/ CallEnd(p) /\ pos <= n - 2
         \/ /\ CallEnd(p) /\ k = 1
            /\ \/ pos = n - 1 /\ "FINDCB" \notin F
               \/ pos = n /\ "FINDCB" \in F
               \/ pos = n + 1 /\ "RETRYCB" \in F /\ at = <<p, n>>

\* The files q, the last of which was opened first, leave room for what they include.
Stacked(q, table) ==
  \A i \in 1 .. Len(q) :
    q[i] # Builtin /\ Rank[table[q[i]].page] + (Len(q) - i) < Depth

\* A parsed page is being read.
Reading(s, c) ==
  LET w == s.web[c]
      q == w.files
      e == s.fs.table[q[Len(q)]]
  IN  /\ q # <<>> /\ {"FOPEN", "FCALBACK"} \subseteq w.flags
      /\ Stacked(q, s.fs.table)
      /\ "RETRYCB" \in w.flags => w.cb.done < Lines(w.cb.at)
      /\ Going(e.page, e.pos, Len(q), w.flags, w.cb.at)

\* The rank is one.
LEMMA RankIs ==
  ASSUME DiskOk
  PROVE  /\ \A p \in DOMAIN Pages : Rank[p] \in 0 .. Depth - 1
         /\ \A p, f \in DOMAIN Pages : Includes(p, f) => Rank[f] < Rank[p]
<1>1. Rank \in [DOMAIN Pages -> 0 .. Depth - 1] /\ Ranks(Rank)  BY DEF DiskOk, Rank
<1> QED  BY <1>1 DEF Ranks

\* A file at its first place has not ended.
LEMMA GoingFirst ==
  ASSUME NEW p \in DOMAIN Pages, Pages[p].parsed, Ends(p), NEW F, NEW at, "FINDCB" \notin F
  PROVE  Going(p, 1, 1, F, at)
<1>1. Size(p) \in Nat  BY PageIs
<1>2. CASE ShortEnd(p)  BY <1>1, <1>2 DEF Going, ShortEnd
<1>3. CASE CallEnd(p)  BY <1>1, <1>3 DEF Going, CallEnd
<1> QED  BY <1>2, <1>3 DEF Ends

\* The read at a place of p, and the place after it: a marker is the last but one of a page
\* that ends with a callback, or is before it; anything else leaves the marker alone.
LEMMA GoingOn ==
  ASSUME NEW p \in DOMAIN Pages, NEW pos \in 1 .. Size(p), NEW F, NEW at, NEW G, NEW b,
         "RETRYCB" \notin F, Going(p, pos, 1, F, at)
  PROVE  LET k == Pages[p].items[pos].k
             found == "FINDCB" \in F
         IN  /\ k = "mark" /\ ~found /\ "FINDCB" \in G => Going(p, pos + 1, 1, G, b)
             /\ k = "mark" /\ found => Going(p, pos + 1, 1, G, b)
             /\ k = "data" /\ "FINDCB" \notin G => Going(p, pos + 1, 1, G, b)
             /\ k \in {"call", "inc"} /\ ~found => Going(p, pos + 1, 1, G, b)
             /\ k = "inc" => \A m : Going(p, pos + 1, m, G, b)
             /\ k = "call" /\ (~Pages[p].items[pos].last \/ ("RETRYCB" \in G /\ b = <<p, pos>>)) =>
                  Going(p, pos + 1, 1, G, b)
<1> DEFINE n == Size(p)
           it(i) == Pages[p].items[i]
<1>1. n \in Nat /\ pos \in Nat /\ pos <= n /\ pos >= 1  BY PageIs
<1>2. Pages[p].parsed  BY DEF Going
<1>3. CASE ShortEnd(p)
  <2>1. it(n).k = "short"  BY <1>3 DEF ShortEnd
  <2>2. it(pos).k # "short" => pos + 1 <= n  BY <1>1, <2>1
  <2>3. pos + 1 <= n => \A m : Going(p, pos + 1, m, G, b)  BY <1>2, <1>3 DEF Going
  <2> HIDE DEF it
  <2>4. it(pos).k # "short" => \A m : Going(p, pos + 1, m, G, b)  BY <2>2, <2>3
  <2> QED  BY <2>4 DEF it
<1>4. CASE CallEnd(p) /\ ~ShortEnd(p)
  <2>1. /\ n > 1 /\ it(n).k = "call" /\ it(n).last /\ it(n - 1).k = "mark"
        /\ n = 2 \/ it(n - 2).k = "data"
    BY <1>4 DEF CallEnd
  <2>2. \/ pos <= n - 2
        \/ pos = n - 1 /\ "FINDCB" \notin F
        \/ pos = n /\ "FINDCB" \in F
    BY <1>1, <1>4 DEF Going
  <2>3. /\ pos + 1 <= n - 2 => \A m : Going(p, pos + 1, m, G, b)
        /\ pos + 1 = n - 1 /\ "FINDCB" \notin G => Going(p, pos + 1, 1, G, b)
        /\ pos + 1 = n /\ "FINDCB" \in G => Going(p, pos + 1, 1, G, b)
        /\ pos + 1 = n + 1 /\ "RETRYCB" \in G /\ b = <<p, n>> => Going(p, pos + 1, 1, G, b)
    BY <1>1, <1>2, <1>4 DEF Going
  <2>4. CASE pos + 1 <= n - 2  BY <2>3, <2>4
  <2>5. CASE pos = n - 2  BY <1>1, <2>1, <2>3, <2>5
  <2>6. CASE pos = n - 1 /\ "FINDCB" \notin F  BY <1>1, <2>1, <2>3, <2>6
  <2>7. CASE pos = n /\ "FINDCB" \in F  BY <1>1, <2>1, <2>3, <2>7
  <2> QED  BY <1>1, <2>2, <2>4, <2>5, <2>6, <2>7
<1>5. ShortEnd(p) \/ CallEnd(p)  BY DEF Going
<1> QED  BY <1>3, <1>4, <1>5

\* With more than one file, or a place that a page has, the first file goes on as it did.
LEMMA GoingStays ==
  ASSUME NEW p \in DOMAIN Pages, NEW pos \in Nat, NEW k, k # 1, NEW F, NEW at,
         Going(p, pos, k, F, at)
  PROVE  /\ \A m, G, b : Going(p, pos, m, G, b)
         /\ pos <= Size(p)
<1>1. Size(p) \in Nat  BY PageIs
<1> QED  BY <1>1 DEF Going

(***************************************************************************)
(* Connections do not meet                                                 *)
(***************************************************************************)
\* From s to t, the other connections stay what they are, and their files where they are.
Apart(s, t, c) ==
  \A d \in Conns : d # c =>
    /\ t.web[d] = s.web[d]
    /\ \A h \in 1 .. MaxOpen : Holding(s.web[d].files, h) => t.fs.table[h] = s.fs.table[h]

\* One after the other
LEMMA ApartOn ==
  ASSUME NEW s, NEW t, NEW u, NEW c, Apart(s, t, c), Apart(t, u, c)
  PROVE  Apart(s, u, c)
  BY DEF Apart

\* In s and t, only files of c and places that are shut differ.
Touches(s, t, c) ==
  \A h \in 1 .. MaxOpen :
    t.fs.table[h] = s.fs.table[h] \/ Holding(s.web[c].files, h) \/ s.fs.table[h] = Shut

\* Then the others do not notice.
LEMMA ApartTouch ==
  ASSUME NEW s, Good(s), NEW c \in Conns, NEW t, Touches(s, t, c),
         \A d \in Conns : d # c => t.web[d] = s.web[d]
  PROVE  Apart(s, t, c)
<1> SUFFICES ASSUME NEW d \in Conns, d # c, NEW h \in 1 .. MaxOpen, Holding(s.web[d].files, h)
             PROVE  t.fs.table[h] = s.fs.table[h]
  BY DEF Apart
<1>1. s.fs.table[h] # Shut /\ ~Holding(s.web[c].files, h)  BY DEF Good, Owning
<1> QED  BY <1>1 DEF Touches

\* Nor do they if the table stays as it is.
LEMMA ApartSame ==
  ASSUME NEW s, NEW c, NEW t, t.fs.table = s.fs.table, \A d \in Conns : d # c => t.web[d] = s.web[d]
  PROVE  Apart(s, t, c)
  BY DEF Apart

\* The file that is read first, of a connection that reads
LEMMA HeadIs ==
  ASSUME NEW s, Good(s), NEW c \in Conns, NEW i \in 1 .. Len(s.web[c].files),
         s.web[c].files[i] # Builtin
  PROVE  LET h == s.web[c].files[i]
             e == s.fs.table[h]
         IN  /\ h \in 1 .. MaxOpen /\ e # Shut /\ Entry(s, h) = e
             /\ e.page \in DOMAIN Pages /\ e.pos \in Nat /\ e.pos > 0
             /\ Holding(s.web[c].files, h)
<1> DEFINE q == s.web[c].files
           h == q[i]
           e == s.fs.table[h]
<1>1. s \in States /\ s.web[c] \in Web  BY PutIs
<1>2. q \in Seq(Handles)  BY <1>1, WebIs
<1>3. h \in Handles /\ h # Builtin  BY <1>2
<1>4. h \in 1 .. MaxOpen  BY <1>3, Constants DEF Handles
<1>5. Holding(q, h)  BY DEF Holding
<1> HIDE DEF h
<1>6. e # Shut  BY <1>4, <1>5 DEF Good, Owning
<1>7. EntryOk(e) /\ e \in [page : Names, pos : Nat]  BY <1>1, <1>4, PartsAre DEF Good
<1> QED  BY <1>4, <1>5, <1>6, <1>7, Zenon DEF EntryOk, Entry, h

\* The handles of a connection
LEMMA FilesAre ==
  ASSUME NEW s, Good(s), NEW c \in Conns
  PROVE  LET q == s.web[c].files
         IN  /\ q \in Seq(Handles) /\ Len(q) \in Nat /\ Len(q) <= Depth /\ Distinct(q)
             /\ q # <<>> => Len(q) > 0 /\ Head(q) = q[1]
             /\ s.web[c].cb \in Cb
<1>1. s.web[c] \in Web /\ Fit(s.web[c]) /\ Distinct(s.web[c].files)  BY PutIs DEF Good, Owning
<1>2. s.web[c].files \in Seq(Handles) /\ s.web[c].cb \in Cb  BY <1>1, WebIs
<1> QED  BY <1>1, <1>2, EmptySeq, LenProperties DEF Fit

(***************************************************************************)
(* One turn of the loop                                                    *)
(***************************************************************************)
\* The first file of the connection c
Bottom(s, c) == s.fs.table[s.web[c].files[Len(s.web[c].files)]]

\* There is room for the file f in front of the files q.
Fits(f, q) == Len(q) # Depth /\ Rank[f] + Len(q) < Depth /\ Rank[f] \in Nat

\* There is, for a file that is included.
LEMMA StackRoom ==
  ASSUME DiskOk, NEW q \in Seq(Handles), q # <<>>, NEW T,
         Stacked(q, T), T[q[1]].page \in DOMAIN Pages,
         NEW f \in DOMAIN Pages, Includes(T[q[1]].page, f)
  PROVE  Fits(f, q)
<1> DEFINE n == Len(q)
           p == T[q[1]].page
<1>1. n \in Nat /\ n > 0  BY LenProperties, EmptySeq
<1>2. q[1] # Builtin /\ Rank[p] + (n - 1) < Depth  BY <1>1 DEF Stacked
<1>3. Rank[f] \in Nat /\ Rank[p] \in Nat /\ Rank[f] < Rank[p]
  BY RankIs DEF Depth
<1> HIDE DEF n, p
<1>4. \A i, j \in Nat : i < j /\ j + (n - 1) < Depth => n # Depth /\ i + n < Depth
  BY <1>1 DEF Depth
<1>5. n # Depth /\ Rank[f] + n < Depth
  <2>1. Rank[p] \in Nat /\ Rank[f] \in Nat /\ Rank[f] < Rank[p]  BY <1>3
  <2>2. Rank[p] + (n - 1) < Depth  BY <1>2
  <2> QED  BY ONLY <1>4, <2>1, <2>2
<1> QED  BY <1>3, <1>5 DEF Fits, n

\* It goes in front.
LEMMA StackPush ==
  ASSUME NEW q \in Seq(Handles), NEW T, NEW U, Stacked(q, T),
         NEW h \in Handles, h # Builtin,
         Rank[U[h].page] + Len(q) < Depth, Rank[U[h].page] \in Nat,
         \A i \in 1 .. Len(q) : U[q[i]].page = T[q[i]].page
  PROVE  Stacked(<<h>> \o q, U)
<1> DEFINE n == Len(q)
           r == <<h>> \o q
<1>1. n \in Nat  BY LenProperties
<1>5. Len(r) = n + 1 /\ r[1] = h /\ \A i \in 1 .. n : r[i + 1] = q[i]
  BY <1>1
<1> HIDE DEF r
<1>6. ASSUME NEW i \in 1 .. Len(r)
      PROVE  r[i] # Builtin /\ Rank[U[r[i]].page] + (Len(r) - i) < Depth
  <2>1. CASE i = 1  BY <1>1, <1>5, <2>1
  <2>2. CASE i # 1
    <3>1. i - 1 \in 1 .. n  BY <1>1, <1>5, <2>2
    <3>2. r[i] = q[i - 1]
      <4>1. r[(i - 1) + 1] = q[i - 1]  BY <1>5, <3>1
      <4>2. (i - 1) + 1 = i  BY <1>1, <1>5
      <4> QED  BY <4>1, <4>2
    <3>3. q[i - 1] # Builtin /\ Rank[T[q[i - 1]].page] + (n - (i - 1)) < Depth
      BY <3>1 DEF Stacked
    <3>4. Len(r) - i = n - (i - 1)  BY <1>1, <1>5
    <3>5. U[r[i]].page = T[q[i - 1]].page  BY <3>1, <3>2
    <3> QED  BY <3>2, <3>3, <3>4, <3>5
  <2> QED  BY <2>1, <2>2
<1> QED  BY <1>6 DEF Stacked, r

\* The file that is read has ended, and there is another.
LEMMA StackPop ==
  ASSUME NEW q \in Seq(Handles), q # <<>>, NEW T, NEW U, Stacked(q, T),
         \A i \in 1 .. Len(Tail(q)) : U[Tail(q)[i]] = T[Tail(q)[i]]
  PROVE  Stacked(Tail(q), U)
<1> DEFINE n == Len(q)
           r == Tail(q)
<1>1. n \in Nat /\ n > 0 /\ Len(r) = n - 1 /\ \A i \in 1 .. Len(r) : r[i] = q[i + 1]
  BY EmptySeq
<1> HIDE DEF r
<1>2. ASSUME NEW i \in 1 .. Len(r)
      PROVE  r[i] # Builtin /\ Rank[U[r[i]].page] + (Len(r) - i) < Depth
  <2>1. i + 1 \in 1 .. n /\ n - (i + 1) = Len(r) - i  BY <1>1
  <2>2. q[i + 1] # Builtin /\ Rank[T[q[i + 1]].page] + (n - (i + 1)) < Depth
    BY <2>1 DEF Stacked
  <2>3. r[i] = q[i + 1] /\ U[r[i]] = T[r[i]]  BY <1>1, Zenon DEF r
  <2> QED  BY <2>1, <2>2, <2>3
<1> QED  BY <1>2 DEF Stacked, r

\* A connection goes on with its page, or has ended it with something to send.
Runs(s, c) == Reading(s, c) /\ {"FCLOSE", "DISCONNECT"} \cap s.web[c].flags = {}
Stops(s, out, c) == {"FCLOSE", "DISCONNECT"} \subseteq s.web[c].flags /\ out # <<>>
Steps(s, x, c) == Apart(s, x.s, c) /\ (Runs(x.s, c) \/ Stops(x.s, x.out, c))

\* What a connection that reads keeps while no callback is to be repeated
Base(s, c) ==
  LET w == s.web[c]
  IN  /\ w.files # <<>> /\ {"FOPEN", "FCALBACK"} \subseteq w.flags
      /\ {"FCLOSE", "DISCONNECT"} \cap w.flags = {}
      /\ Stacked(w.files, s.fs.table)

\* With that, a page goes on.
LEMMA BaseRuns ==
  ASSUME NEW s, NEW c, Base(s, c),
         "RETRYCB" \in s.web[c].flags => s.web[c].cb.done < Lines(s.web[c].cb.at),
         Going(Bottom(s, c).page, Bottom(s, c).pos, Len(s.web[c].files), s.web[c].flags,
               s.web[c].cb.at)
  PROVE  Runs(s, c)
  BY Zenon DEF Runs, Base, Reading, Bottom

\* It is among the rest that a callback leaves.
LEMMA BaseSame ==
  ASSUME NEW s, NEW t, NEW c, Base(s, c), t.fs = s.fs, t.web[c].files = s.web[c].files,
         {"FOPEN", "FCALBACK"} \subseteq t.web[c].flags,
         {"FCLOSE", "DISCONNECT"} \cap t.web[c].flags = {}
  PROVE  Base(t, c) /\ Bottom(t, c) = Bottom(s, c)
  BY DEF Base, Bottom

\* The first file goes on if a callback at such a place has to be repeated, and if none has.
Waits(s, c, at) ==
  Going(Bottom(s, c).page, Bottom(s, c).pos, Len(s.web[c].files),
        s.web[c].flags \cup {"RETRYCB"}, at)
GoesOn(s, c) ==
  \A b : Going(Bottom(s, c).page, Bottom(s, c).pos, Len(s.web[c].files),
               s.web[c].flags \ {"RETRYCB"}, b)

\* A callback ends the page with something sent, or the page goes on.
LEMMA CallbackSteps ==
  ASSUME NEW s, Good(s), NEW c \in Conns, NEW at \in Names \X Nat, CallAt(at), NEW room \in Nat,
         Writes, Base(s, c),
         "RETRYCB" \in s.web[c].flags =>
           at = s.web[c].cb.at /\ s.web[c].cb.done < Lines(s.web[c].cb.at),
         Waits(s, c, at), ~Pages[at[1]].items[at[2]].last => GoesOn(s, c)
  PROVE  Steps(s, Callback(s, c, at, room), c)
<1> DEFINE x == Callback(s, c, at, room)
           t == x.s
           w == s.web[c]
           v == t.web[c]
           item == Pages[at[1]].items[at[2]]
<1>1. /\ Good(t) /\ Reads(s, t, c) /\ v.files = w.files /\ t.fs = s.fs
      /\ Calls(w, v, at, Before(w), x.out)
  BY CallbackIs DEF Fills
<1> HIDE DEF x
<1>2. Apart(s, t, c)  BY <1>1, ApartSame DEF Reads
<1>3. {"FOPEN", "FCALBACK"} \subseteq w.flags /\ {"FCLOSE", "DISCONNECT"} \cap w.flags = {}
  BY DEF Base
<1>4. CASE v.flags = w.flags \cup {"RETRYCB"} /\ v.cb.at = at /\ v.cb.done < Lines(at)
  <2>0. /\ {"FOPEN", "FCALBACK"} \subseteq v.flags /\ {"FCLOSE", "DISCONNECT"} \cap v.flags = {}
    BY <1>3, <1>4
  <2>1. Base(t, c) /\ Bottom(t, c) = Bottom(s, c)  BY <1>1, <2>0, BaseSame
  <2>2. Going(Bottom(s, c).page, Bottom(s, c).pos, Len(w.files), v.flags, v.cb.at)
    BY <1>4 DEF Waits
  <2>3. Runs(t, c)  BY <1>1, <1>4, <2>1, <2>2, BaseRuns
  <2> QED  BY <1>2, <2>3 DEF Steps, x
<1>5. CASE v.flags = w.flags \ {"RETRYCB"} /\ ~item.last
  <2>0. /\ {"FOPEN", "FCALBACK"} \subseteq v.flags /\ {"FCLOSE", "DISCONNECT"} \cap v.flags = {}
    BY <1>3, <1>5
  <2>1. Base(t, c) /\ Bottom(t, c) = Bottom(s, c)  BY <1>1, <2>0, BaseSame
  <2>2. Going(Bottom(s, c).page, Bottom(s, c).pos, Len(w.files), v.flags, v.cb.at)
    BY <1>5 DEF GoesOn
  <2>3. "RETRYCB" \notin v.flags  BY <1>5
  <2>4. Runs(t, c)  BY <1>1, <2>1, <2>2, <2>3, BaseRuns
  <2> QED  BY <1>2, <2>4 DEF Steps, x
<1>6. CASE /\ v.flags = (w.flags \ {"RETRYCB"}) \cup {"FCLOSE", "DISCONNECT"} /\ item.last
           /\ Before(w) < Lines(at) => x.out # <<>>
  <2>1. Before(w) < Lines(at)
    <3>1. CASE "RETRYCB" \in w.flags  BY <3>1 DEF Before
    <3>2. CASE "RETRYCB" \notin w.flags
      <4>1. Before(w) = 0  BY <3>2 DEF Before
      <4>2. item.n \in Nat /\ item.size \in Nat \ {0} /\ item.n > 0
        BY <1>6, PageIs DEF CallAt, Writes
      <4>3. Lines(at) = item.n * item.size  BY Zenon DEF Lines
      <4> HIDE DEF item
      <4>4. item.n * item.size > 0  BY <4>2
      <4> QED  BY <4>1, <4>3, <4>4
    <3> QED  BY <3>1, <3>2
  <2>2. Stops(t, x.out, c)  BY <1>6, <2>1 DEF Stops
  <2> QED  BY <1>2, <2>2 DEF Steps, x
<1>7. \/ v.flags = w.flags \cup {"RETRYCB"} /\ v.cb.at = at /\ v.cb.done < Lines(at)
      \/ v.flags = w.flags \ {"RETRYCB"} /\ ~item.last
      \/ /\ v.flags = (w.flags \ {"RETRYCB"}) \cup {"FCLOSE", "DISCONNECT"} /\ item.last
         /\ Before(w) < Lines(at) => x.out # <<>>
  BY <1>1 DEF Calls
<1> QED  BY <1>4, <1>5, <1>6, <1>7

\* A connection that reads, with the file it reads
LEMMA ReadingIs ==
  ASSUME NEW s, Good(s), NEW c \in Conns, Reading(s, c)
  PROVE  LET q == s.web[c].files
             h == Head(q)
             f == s.fs.table[h]
         IN  /\ q \in Seq(Handles) /\ Len(q) \in Nat /\ Len(q) > 0 /\ Len(q) <= Depth /\ h = q[1]
             /\ h \in 1 .. MaxOpen /\ Entry(s, h) = f /\ f # Shut
             /\ f.page \in DOMAIN Pages /\ f.pos \in Nat /\ f.pos > 0
             /\ ~AtEnd(f) => f.pos \in 1 .. Size(f.page)
             /\ Bottom(s, c).page \in DOMAIN Pages /\ Bottom(s, c).pos \in Nat
<1> DEFINE q == s.web[c].files
           h == Head(q)
           f == s.fs.table[h]
<1>1. q # <<>> /\ Stacked(q, s.fs.table)  BY Zenon DEF Reading
<1>2. q \in Seq(Handles) /\ Len(q) \in Nat /\ Len(q) > 0 /\ Len(q) <= Depth /\ h = q[1]
  BY <1>1, FilesAre
<1>3. \A i \in 1 .. Len(q) : q[i] # Builtin  BY <1>1 DEF Stacked
<1>4. 1 \in 1 .. Len(q) /\ Len(q) \in 1 .. Len(q)  BY <1>2
<1>5. /\ h \in 1 .. MaxOpen /\ f # Shut /\ Entry(s, h) = f
      /\ f.page \in DOMAIN Pages /\ f.pos \in Nat /\ f.pos > 0
  <2> DEFINE i == 1
  <2>1. i \in 1 .. Len(q) /\ q[i] # Builtin /\ h = q[i]  BY <1>2, <1>3, <1>4
  <2> HIDE DEF i, h
  <2> QED  BY <2>1, HeadIs, Zenon
<1>6. Bottom(s, c).page \in DOMAIN Pages /\ Bottom(s, c).pos \in Nat
  <2> DEFINE i == Len(q)
  <2>1. i \in 1 .. Len(q) /\ q[i] # Builtin /\ Bottom(s, c) = s.fs.table[q[i]]
    BY <1>3, <1>4 DEF Bottom
  <2> HIDE DEF i
  <2> QED  BY <2>1, HeadIs, Zenon
<1>7. ~AtEnd(f) => f.pos \in 1 .. Size(f.page)
  <2> DEFINE p == f.page
             k == f.pos
  <2>1. p \in DOMAIN Pages /\ k \in Nat /\ k > 0  BY <1>5, Zenon
  <2>2. ~AtEnd(f) => ~(k > Size(p))  BY DEF AtEnd
  <2> HIDE DEF p, k, f
  <2>3. Size(p) \in Nat  BY <2>1, PageIs
  <2>4. ~(k > Size(p)) => k \in 1 .. Size(p)  BY <2>1, <2>3
  <2> QED  BY <2>2, <2>4 DEF p, k
<1> QED  BY <1>2, <1>5, <1>6, <1>7, Zenon

\* t is what s becomes when c reads an item; its flags may differ in FINDCB.
Takes(s, t, c) ==
  /\ t.fs = Read(s, Head(s.web[c].files)).fs /\ t.web[c].files = s.web[c].files
  /\ \A f : f # "FINDCB" => (f \in t.web[c].flags <=> f \in s.web[c].flags)

\* The first file goes on, whatever is opened, closed, or called.
GoesAny(s, c) == \A m, G, b : Going(Bottom(s, c).page, Bottom(s, c).pos, m, G, b)

\* After that the page goes on, with the flag that the code leaves.
LEMMA ReadOn ==
  ASSUME NEW s, Good(s), NEW c \in Conns, Runs(s, c), "RETRYCB" \notin s.web[c].flags,
         ~AtEnd(s.fs.table[Head(s.web[c].files)]), NEW t, Takes(s, t, c)
  PROVE  LET f == s.fs.table[Head(s.web[c].files)]
             it == Pages[f.page].items[f.pos]
             found == "FINDCB" \in s.web[c].flags
         IN  /\ Base(t, c) /\ "RETRYCB" \notin t.web[c].flags
             /\ it.k = "mark" /\ ~found /\ "FINDCB" \in t.web[c].flags => Runs(t, c)
             /\ it.k = "mark" /\ found => Runs(t, c)
             /\ it.k = "data" /\ "FINDCB" \notin t.web[c].flags => Runs(t, c)
             /\ it.k \in {"call", "inc"} /\ ~found => Runs(t, c)
             /\ it.k = "inc" \/ Len(s.web[c].files) # 1 => GoesAny(t, c)
             /\ it.k = "call" => /\ Waits(t, c, <<f.page, f.pos>>)
                                 /\ ~it.last => GoesOn(t, c)
<1> DEFINE q == s.web[c].files
           n == Len(q)
           h == Head(q)
           f == s.fs.table[h]
           e == Bottom(s, c)
           F == s.web[c].flags
           G == t.web[c].flags
           at == s.web[c].cb.at
           b == t.web[c].cb.at
           k == Pages[f.page].items[f.pos].k
           found == "FINDCB" \in F
           z == Bottom(t, c)
<1>1. Reading(s, c) /\ {"FCLOSE", "DISCONNECT"} \cap F = {}  BY DEF Runs
<1>2. /\ q \in Seq(Handles) /\ n \in Nat /\ n > 0 /\ h = q[1]
      /\ h \in 1 .. MaxOpen /\ f # Shut
      /\ f.page \in DOMAIN Pages /\ f.pos \in Nat /\ f.pos \in 1 .. Size(f.page)
      /\ e.page \in DOMAIN Pages /\ e.pos \in Nat
  BY <1>1, ReadingIs, Zenon
<1>3. /\ Stacked(q, s.fs.table) /\ {"FOPEN", "FCALBACK"} \subseteq F
      /\ Going(e.page, e.pos, n, F, at)
  BY <1>1, Zenon DEF Reading, Bottom
<1>4. /\ t.fs.table[h].page = f.page /\ t.fs.table[h].pos = f.pos + 1
      /\ \A g \in 1 .. MaxOpen : g # h => t.fs.table[g] = s.fs.table[g]
  <2>1. Moves(s, Read(s, h), h, f.pos + 1)  BY <1>2, ReadGood, Zenon
  <2>2. t.fs = Read(s, h).fs  BY DEF Takes
  <2> HIDE DEF h
  <2>3. \A g \in 1 .. MaxOpen :
          t.fs.table[g] = IF g = h THEN [page |-> f.page, pos |-> f.pos + 1] ELSE s.fs.table[g]
    BY <2>1, <2>2 DEF Moves
  <2>4. h \in 1 .. MaxOpen  BY <1>2
  <2>5. t.fs.table[h] = [page |-> f.page, pos |-> f.pos + 1]  BY <2>3, <2>4
  <2> HIDE DEF f
  <2> QED  BY <2>3, <2>5
<1>5. t.web[c].files = q /\ (\A g : g # "FINDCB" => (g \in G <=> g \in F))  BY DEF Takes
<1>6. \A i \in 1 .. n : q[i] \in 1 .. MaxOpen
  <2> TAKE i \in 1 .. n
  <2>1. q[i] # Builtin  BY <1>3, Zenon DEF Stacked
  <2> QED  BY <2>1, HeadIs, Zenon
<1>7. \A i \in 1 .. n : t.fs.table[q[i]].page = s.fs.table[q[i]].page
  <2> TAKE i \in 1 .. n
  <2> DEFINE g == q[i]
  <2>1. g \in 1 .. MaxOpen  BY <1>6
  <2> HIDE DEF g, h
  <2>2. t.fs.table[g].page = s.fs.table[g].page  BY <1>4, <2>1
  <2> QED  BY <2>2 DEF g
<1>8. Stacked(q, t.fs.table)  BY <1>3, <1>7, Zenon DEF Stacked
<1>9. Base(t, c) /\ "RETRYCB" \notin G
  <2>1. {"FOPEN", "FCALBACK"} \subseteq G /\ {"FCLOSE", "DISCONNECT"} \cap G = {}
        /\ "RETRYCB" \notin G
    BY <1>1, <1>3, <1>5
  <2>2. q # <<>>  BY <1>1, Zenon DEF Reading
  <2> QED  BY <1>5, <1>8, <2>1, <2>2 DEF Base
<1>10. z = t.fs.table[q[n]] /\ e = s.fs.table[q[n]]  BY <1>5 DEF Bottom
<1>11. ASSUME Going(z.page, z.pos, n, G, b)  PROVE Runs(t, c)
  BY <1>5, <1>9, <1>11, BaseRuns
<1>12. CASE n = 1
  <2>1. e = f /\ z.page = f.page /\ z.pos = f.pos + 1
    <3>1. q[n] = h  BY <1>2, <1>12, Zenon
    <3> HIDE DEF q, n, h, e, z
    <3> QED  BY <1>4, <1>10, <3>1
  <2> DEFINE p == f.page
             i == f.pos
             on(H, a) == Going(p, i + 1, 1, H, a)
  <2>2. p \in DOMAIN Pages /\ i \in 1 .. Size(p) /\ Going(p, i, 1, F, at)
    BY <1>2, <1>3, <1>12, <2>1, Zenon
  <2>3. k = Pages[p].items[i].k  OBVIOUS
  <2> HIDE DEF p, i, F, G, at, b
  <2>4. "RETRYCB" \notin F  BY DEF F
  <2>5. \A H, a : /\ k = "mark" /\ ~found /\ "FINDCB" \in H => on(H, a)
                  /\ k = "mark" /\ found => on(H, a)
                  /\ k = "data" /\ "FINDCB" \notin H => on(H, a)
                  /\ k \in {"call", "inc"} /\ ~found => on(H, a)
                  /\ k = "inc" => \A m : Going(p, i + 1, m, H, a)
                  /\ k = "call" /\ (~Pages[p].items[i].last \/ ("RETRYCB" \in H /\ a = <<p, i>>)) =>
                       on(H, a)
    BY <2>2, <2>3, <2>4, GoingOn, Zenon
  <2> HIDE DEF k, found
  <2>6. /\ k = "mark" /\ ~found /\ "FINDCB" \in G => on(G, b)
        /\ k = "mark" /\ found => on(G, b)
        /\ k = "data" /\ "FINDCB" \notin G => on(G, b)
        /\ k \in {"call", "inc"} /\ ~found => on(G, b)
    BY <2>5
  <2>7. on(G, b) => Runs(t, c)  BY <1>11, <1>12, <2>1, Zenon DEF p, i
  <2>8. k = "inc" => GoesAny(t, c)  BY <2>1, <2>5, Zenon DEF p, i, GoesAny
  <2>9. k = "call" => Waits(t, c, <<p, i>>)
    <3>1. k = "call" => on(G \cup {"RETRYCB"}, <<p, i>>)  BY <2>5
    <3> QED  BY <1>5, <1>12, <2>1, <3>1, Zenon DEF Waits, p, i, G
  <2>10. k = "call" /\ ~Pages[p].items[i].last => GoesOn(t, c)
    <3>1. k = "call" /\ ~Pages[p].items[i].last => \A a : on(G \ {"RETRYCB"}, a)  BY <2>5
    <3> QED  BY <1>5, <1>12, <2>1, <3>1, Zenon DEF GoesOn, p, i, G
  <2> HIDE DEF on
  <2> QED  BY <1>9, <1>12, <2>6, <2>7, <2>8, <2>9, <2>10, Zenon DEF p, i, k, found, F, G
<1>13. CASE n # 1
  <2>1. z = e
    <3>0. Distinct(q)  BY FilesAre
    <3> HIDE DEF q, h, e, z
    <3>1. n \in 1 .. n /\ 1 \in 1 .. n  BY <1>2
    <3>2. q[n] \in 1 .. MaxOpen  BY <1>6, <3>1
    <3>3. q[n] # Builtin  BY <3>2, Constants DEF Builtin
    <3>4. q[n] # h  BY <1>2, <1>13, <3>0, <3>1, <3>3 DEF Distinct
    <3> QED  BY <1>4, <1>10, <3>2, <3>4
  <2>2. \A m, H, a : Going(e.page, e.pos, m, H, a)
    <3> DEFINE p == e.page
               i == e.pos
    <3>1. p \in DOMAIN Pages /\ i \in Nat /\ Going(p, i, n, F, at)  BY <1>2, <1>3, Zenon
    <3> HIDE DEF p, i, n, F, at
    <3>2. \A m, H, a : Going(p, i, m, H, a)  BY <1>13, <3>1, GoingStays
    <3> QED  BY <3>2 DEF p, i
  <2>3. \A m, H, a : Going(z.page, z.pos, m, H, a)  BY <2>1, <2>2
  <2>4. Runs(t, c)  BY <1>11, <2>3
  <2>5. Waits(t, c, <<f.page, f.pos>>) /\ GoesOn(t, c)  BY <2>3 DEF Waits, GoesOn
  <2>6. GoesAny(t, c)  BY <2>3 DEF GoesAny
  <2> QED  BY <1>9, <2>4, <2>5, <2>6, Zenon
<1> QED  BY <1>12, <1>13, Zenon

\* A sequence without its first element
LEMMA TailAt ==
  ASSUME NEW q \in Seq(Handles), q # <<>>
  PROVE  LET r == Tail(q)
         IN  r \in Seq(Handles) /\ Len(r) = Len(q) - 1 /\ \A i \in 1 .. Len(r) : r[i] = q[i + 1]
  OBVIOUS

\* A sequence with one element more
LEMMA PushAt ==
  ASSUME NEW q \in Seq(Handles), NEW h \in Handles
  PROVE  LET r == <<h>> \o q
         IN  /\ r \in Seq(Handles) /\ Len(r) = Len(q) + 1 /\ r # <<>>
             /\ \A i \in 1 .. Len(q) : r[i + 1] = q[i]
  OBVIOUS

\* A file ends: the page does too, or the one that included it goes on.
LEMMA FileEndsSteps ==
  ASSUME NEW s, Good(s), NEW c \in Conns, Base(s, c), "RETRYCB" \notin s.web[c].flags,
         Len(s.web[c].files) # 1 => GoesAny(s, c)
  PROVE  LET t == FileEnds(s, c)
         IN  /\ Apart(s, t, c)
             /\ IF Len(s.web[c].files) = 1 THEN {"FCLOSE", "DISCONNECT"} \subseteq t.web[c].flags
                ELSE Runs(t, c)
<1> DEFINE q == s.web[c].files
           x == IncFclose(s, c)
           t == FileEnds(s, c)
           r == Tail(q)
<1>1. q # <<>> /\ Stacked(q, s.fs.table) /\ {"FOPEN", "FCALBACK"} \subseteq s.web[c].flags
      /\ {"FCLOSE", "DISCONNECT"} \cap s.web[c].flags = {}
  BY DEF Base
<1>2. q \in Seq(Handles) /\ Len(q) \in Nat /\ Len(q) > 0 /\ Distinct(q)  BY <1>1, FilesAre
<1>3. /\ Good(x) /\ Reads(s, x, c)
      /\ x.web[c].files = r
      /\ x.web[c].flags = IF r = <<>> THEN s.web[c].flags \ {"FOPEN", "FCALBACK"}
                          ELSE s.web[c].flags
      /\ Shuts(s, x, c, q)
      /\ \A g \in 1 .. MaxOpen : Holding(r, g) => x.fs.table[g] = s.fs.table[g]
  <2>1. q # <<>>  BY <1>1
  <2>2. /\ Good(x) /\ Reads(s, x, c)
        /\ x.web[c].files = IF q = <<>> THEN <<>> ELSE r
        /\ x.web[c].flags = IF x.web[c].files = <<>> THEN s.web[c].flags \ {"FOPEN", "FCALBACK"}
                            ELSE s.web[c].flags
        /\ Shuts(s, x, c, q)
        /\ \A g \in 1 .. MaxOpen : Holding(x.web[c].files, g) => x.fs.table[g] = s.fs.table[g]
    BY IncFcloseGood
  <2> HIDE DEF x, q, r
  <2> QED  BY <2>1, <2>2
<1>4. t = IF Has(x, c, "FOPEN") THEN x ELSE Quit(x, c)  BY DEF FileEnds
<1>5. Apart(s, x, c)  BY <1>3, ApartTouch DEF Shuts, Touches, Reads
<1> HIDE DEF x, t
<1>6. r \in Seq(Handles) /\ Len(r) = Len(q) - 1 /\ \A i \in 1 .. Len(r) : r[i] = q[i + 1]
  BY <1>1, <1>2, TailAt
<1> HIDE DEF r, q
<1>7. CASE Len(q) = 1
  <2>1. r = <<>>  BY <1>6, <1>7, EmptySeq
  <2>2. t = Quit(x, c)  BY <1>3, <1>4, <2>1 DEF Has
  <2>3. /\ Reads(x, t, c) /\ t.fs = x.fs
        /\ t.web[c].flags = x.web[c].flags \cup {"FCLOSE", "DISCONNECT"}
    BY <1>3, <2>2, QuitReads
  <2>4. Apart(x, t, c)  BY <2>3, ApartSame DEF Reads
  <2>5. Apart(s, t, c)  BY <1>5, <2>4, ApartOn
  <2> QED  BY <1>7, <2>3, <2>5 DEF t, q
<1>8. CASE Len(q) # 1
  <2>0. Len(r) \in Nat /\ Len(r) = Len(q) - 1  BY <1>6, LenProperties
  <2>1. Len(r) \in Nat /\ Len(r) > 0 /\ r # <<>>  BY <1>2, <1>8, <2>0, EmptySeq
  <2>2. x.web[c].flags = s.web[c].flags /\ t = x  BY <1>1, <1>3, <1>4, <2>1 DEF Has
  <2>3. \A i \in 1 .. Len(r) : r[i] \in 1 .. MaxOpen /\ x.fs.table[r[i]] = s.fs.table[r[i]]
    <3> TAKE i \in 1 .. Len(r)
    <3> DEFINE j == i + 1
               g == q[j]
    <3>1. j \in 1 .. Len(q) /\ r[i] = g  BY <1>2, <1>6
    <3>2. g # Builtin  BY <1>1, <3>1 DEF Stacked
    <3> HIDE DEF j
    <3>3. g \in 1 .. MaxOpen  BY <3>1, <3>2, HeadIs, Zenon DEF q
    <3>4. Holding(r, g)  BY <3>1 DEF Holding
    <3> HIDE DEF g
    <3> QED  BY <1>3, <3>1, <3>3, <3>4
  <2>4. Stacked(r, x.fs.table)
    <3> DEFINE T == s.fs.table
               U == x.fs.table
    <3>1. Stacked(q, T) /\ \A i \in 1 .. Len(Tail(q)) : U[Tail(q)[i]] = T[Tail(q)[i]]
      BY <1>1, <2>3 DEF r
    <3> HIDE DEF T, U
    <3>2. Stacked(Tail(q), U)  BY <1>1, <1>2, <3>1, StackPop
    <3> QED  BY <3>2 DEF U, r
  <2>5. Bottom(x, c) = Bottom(s, c)
    <3> DEFINE n == Len(r)
    <3>1. n \in 1 .. n /\ n + 1 = Len(q)  BY <1>2, <1>6, <2>1
    <3>2. r[n] = q[n + 1] /\ x.fs.table[r[n]] = s.fs.table[r[n]]  BY <1>6, <2>3, <3>1
    <3> HIDE DEF n
    <3>3. r[n] = q[Len(q)] /\ x.fs.table[r[n]] = s.fs.table[q[Len(q)]]  BY <3>1, <3>2
    <3>4. Bottom(x, c) = x.fs.table[r[n]] /\ Bottom(s, c) = s.fs.table[q[Len(q)]]
      BY <1>3 DEF Bottom, n, q
    <3> QED  BY <3>3, <3>4
  <2>6. Base(x, c)  BY <1>1, <1>3, <2>1, <2>2, <2>4 DEF Base
  <2>7. Going(Bottom(x, c).page, Bottom(x, c).pos, Len(x.web[c].files), x.web[c].flags,
              x.web[c].cb.at)
    BY <1>8, <2>5 DEF GoesAny, q
  <2>8. Runs(x, c)  BY <2>2, <2>6, <2>7, BaseRuns
  <2>9. Apart(s, t, c) /\ Runs(t, c)  BY <1>5, <2>2, <2>8
  <2> QED  BY <1>8, <2>9 DEF t, q
<1> QED  BY <1>7, <1>8

\* A file is opened, and none is pushed out.
Pushes(s, t, c, f, h) ==
  /\ h \in 1 .. MaxOpen /\ h # Builtin /\ h \in Handles /\ s.fs.table[h] = Shut
  /\ t.web[c].files = <<h>> \o s.web[c].files /\ t.web[c].cb = s.web[c].cb
  /\ t.web[c].len = s.web[c].len + Size(f)
  /\ t.fs.table[h] = [page |-> f, pos |-> 1]
  /\ \A g \in 1 .. MaxOpen : g # h => t.fs.table[g] = s.fs.table[g]

\* That is so if there are not four.
LEMMA OpensPush ==
  ASSUME NEW s, NEW t, NEW c, NEW f, NEW h, OpensAt(s, t, c, f, h),
         Len(s.web[c].files) # Depth
  PROVE  Pushes(s, t, c, f, h)
<1>1. h \in 1 .. MaxOpen - 1 /\ s.fs.table[h] = Shut  BY DEF OpensAt
<1>2. h \in 1 .. MaxOpen /\ h # Builtin /\ h \in Handles
  BY <1>1, Constants DEF Builtin, Handles
<1>3. t.web[c].files = Pushed(s.web[c].files, h) /\ t.web[c].cb = s.web[c].cb
      /\ t.web[c].len = s.web[c].len + Size(f)
  BY DEF OpensAt
<1>4. \A g \in 1 .. MaxOpen :
        t.fs.table[g] = IF g = h THEN [page |-> f, pos |-> 1] ELSE s.fs.table[g]
  BY DEF OpensAt
<1>5. t.fs.table[h] = [page |-> f, pos |-> 1]  BY <1>2, <1>4
<1>6. \A g \in 1 .. MaxOpen : g # h => t.fs.table[g] = s.fs.table[g]  BY <1>4
<1> QED  BY <1>1, <1>2, <1>3, <1>5, <1>6 DEF Pushed, Pushes

\* The files and the table, with one file more
LEMMA PushTable ==
  ASSUME NEW q \in Seq(Handles), q # <<>>, NEW T, NEW U, Stacked(q, T),
         NEW h \in Handles, h # Builtin, NEW f, U[h] = [page |-> f, pos |-> 1],
         Fits(f, q), \A i \in 1 .. Len(q) : U[q[i]] = T[q[i]]
  PROVE  LET r == <<h>> \o q
         IN  Stacked(r, U) /\ r # <<>> /\ U[r[Len(r)]] = T[q[Len(q)]]
<1> DEFINE r == <<h>> \o q
<1>1. U[h].page = f  OBVIOUS
<1>2. \A i \in 1 .. Len(q) : U[q[i]].page = T[q[i]].page  OBVIOUS
<1>3. Rank[U[h].page] + Len(q) < Depth /\ Rank[U[h].page] \in Nat  BY <1>1 DEF Fits
<1>4. Stacked(r, U)  BY <1>2, <1>3, StackPush
<1>5. Len(r) = Len(q) + 1 /\ r # <<>> /\ \A i \in 1 .. Len(q) : r[i + 1] = q[i]  BY PushAt
<1> HIDE DEF r
<1>6. Len(q) \in Nat /\ Len(q) > 0  BY EmptySeq, LenProperties
<1>7. Len(q) \in 1 .. Len(q)  BY <1>6
<1>8. r[Len(r)] = q[Len(q)]  BY <1>5, <1>7
<1> QED  BY <1>4, <1>5, <1>7, <1>8 DEF r

\* Another place than one that is shut
LEMMA PlaceApart ==
  ASSUME NEW s, Good(s), NEW c \in Conns, NEW T, T = s.fs.table, NEW q, q = s.web[c].files,
         Stacked(q, T), NEW h, T[h] = Shut
  PROVE  \A i \in 1 .. Len(q) : q[i] \in 1 .. MaxOpen /\ q[i] # h
<1> TAKE i \in 1 .. Len(q)
<1>1. q[i] # Builtin  BY DEF Stacked
<1>2. i \in 1 .. Len(s.web[c].files) /\ s.web[c].files[i] = q[i]  OBVIOUS
<1>3. q[i] \in 1 .. MaxOpen /\ T[q[i]] # Shut  BY <1>1, <1>2, HeadIs, Zenon
<1> QED  BY <1>3

\* A file is included.
LEMMA IncFopenSteps ==
  ASSUME DiskOk, NEW s, Good(s), NEW c \in Conns, Base(s, c), "RETRYCB" \notin s.web[c].flags,
         GoesAny(s, c), NEW f, MayInclude(s, c, f), NEW e, e = s.fs.table[Head(s.web[c].files)],
         e.page \in DOMAIN Pages, Includes(e.page, f)
  PROVE  Apart(s, IncFopen(s, c, f), c) /\ Runs(IncFopen(s, c, f), c)
<1> DEFINE q == s.web[c].files
           t == IncFopen(s, c, f)
           h == FirstFree(s)
           F == s.web[c].flags
           T == s.fs.table
           U == t.fs.table
           r == <<h>> \o q
<1>1. q # <<>> /\ Stacked(q, T) /\ {"FOPEN", "FCALBACK"} \subseteq F
      /\ {"FCLOSE", "DISCONNECT"} \cap F = {}
  BY Zenon DEF Base
<1>2. q \in Seq(Handles) /\ Len(q) \in Nat /\ Len(q) > 0 /\ e = T[q[1]]
  BY <1>1, FilesAre, Zenon
<1>3. /\ Good(t) /\ Reads(s, t, c)
      /\ t.web[c].flags = F \cup {"FOPEN"} \cup (IF Pages[f].parsed THEN {"FCALBACK"} ELSE {})
      /\ OpensAt(s, t, c, f, h)
  BY IncFopenIs, Zenon
<1>4. t.web[c].flags = F  BY <1>1, <1>3, Zenon
<1>5. f \in DOMAIN Pages  BY Zenon DEF MayInclude, CanOpen
<1> HIDE DEF t, h, F, q, r, T, U
<1>6. Fits(f, q)
  <2>1. T[q[1]].page \in DOMAIN Pages /\ Includes(T[q[1]].page, f)  BY <1>2
  <2> QED  BY <1>1, <1>2, <1>5, <2>1, StackRoom
<1>7. Len(q) # Depth  BY <1>6, Zenon DEF Fits
<1>8. OpensAt(s, t, c, f, h) /\ Len(s.web[c].files) # Depth  BY <1>3, <1>7, Zenon DEF q
<1>9. /\ h \in 1 .. MaxOpen /\ h # Builtin /\ h \in Handles /\ T[h] = Shut
      /\ t.web[c].files = r /\ t.web[c].cb = s.web[c].cb
      /\ U[h] = [page |-> f, pos |-> 1]
      /\ \A g \in 1 .. MaxOpen : g # h => U[g] = T[g]
  <2>1. Pushes(s, t, c, f, h)  BY <1>8, OpensPush, Zenon
  <2> QED  BY <2>1, Zenon DEF Pushes, q, r, T, U
<1>10. \A i \in 1 .. Len(q) : q[i] \in 1 .. MaxOpen /\ q[i] # h
  <2>1. T = s.fs.table /\ q = s.web[c].files  BY Zenon DEF T, q
  <2>2. Stacked(q, T) /\ T[h] = Shut  BY <1>1, <1>9, Zenon
  <2> QED  BY <2>1, <2>2, PlaceApart, Zenon
<1>11. \A i \in 1 .. Len(q) : U[q[i]] = T[q[i]]  BY <1>9, <1>10, Zenon
<1>12. Stacked(r, U) /\ r # <<>> /\ U[r[Len(r)]] = T[q[Len(q)]]
  <2>1. U[h] = [page |-> f, pos |-> 1] /\ h \in Handles /\ h # Builtin  BY <1>9, Zenon
  <2>2. q \in Seq(Handles) /\ q # <<>> /\ Stacked(q, T)  BY <1>1, <1>2
  <2> QED  BY <1>6, <1>11, <2>1, <2>2, PushTable, Zenon DEF r
<1>13. Bottom(t, c) = Bottom(s, c)
  <2>1. Bottom(t, c) = U[r[Len(r)]]  BY <1>9, Zenon DEF Bottom, U
  <2>2. Bottom(s, c) = T[q[Len(q)]]  BY Zenon DEF Bottom, T, q
  <2> QED  BY <1>12, <2>1, <2>2, Zenon
<1>14. Base(t, c)
  <2>1. t.web[c].files # <<>> /\ Stacked(t.web[c].files, t.fs.table)  BY <1>9, <1>12, Zenon DEF U
  <2>2. {"FOPEN", "FCALBACK"} \subseteq t.web[c].flags
        /\ {"FCLOSE", "DISCONNECT"} \cap t.web[c].flags = {}
    BY <1>1, <1>4, Zenon
  <2> QED  BY <2>1, <2>2, Zenon DEF Base
<1>15. Going(Bottom(t, c).page, Bottom(t, c).pos, Len(t.web[c].files), t.web[c].flags,
             t.web[c].cb.at)
  BY <1>13, Zenon DEF GoesAny
<1>16. "RETRYCB" \notin t.web[c].flags  BY <1>4, Zenon DEF F
<1>17. Runs(t, c)  BY <1>14, <1>15, <1>16, BaseRuns, Zenon
<1>18. Apart(s, t, c)
  <2>1. Touches(s, t, c)  BY <1>9, Zenon DEF Touches, T, U
  <2>2. \A d \in Conns : d # c => t.web[d] = s.web[d]  BY <1>3, Zenon DEF Reads
  <2> QED  BY <2>1, <2>2, ApartTouch, Zenon
<1> QED  BY <1>17, <1>18, Zenon DEF t


\* A callback that does not end the page is not the last of it.
LEMMA GoingAgain ==
  ASSUME NEW p \in DOMAIN Pages, NEW pos \in Nat, NEW k, NEW F, NEW at, Going(p, pos, k, F, at)
  PROVE  /\ ~Pages[at[1]].items[at[2]].last => \A b : Going(p, pos, k, F \ {"RETRYCB"}, b)
         /\ "RETRYCB" \notin F => pos <= Size(p)
<1> DEFINE n == Size(p)
<1>1. n \in Nat  BY PageIs
<1>2. CASE /\ CallEnd(p) /\ pos = n + 1 /\ "RETRYCB" \in F /\ at = <<p, n>>
  <2>1. at[1] = p /\ at[2] = n  BY <1>2
  <2>2. Pages[p].items[n].last  BY <1>2 DEF CallEnd
  <2> QED  BY <1>2, <2>1, <2>2
<1>3. CASE ShortEnd(p) /\ pos <= n  BY <1>1, <1>3 DEF Going
<1>4. CASE CallEnd(p) /\ pos <= n - 2  BY <1>1, <1>4 DEF Going
<1>5. CASE /\ CallEnd(p) /\ k = 1
           /\ \/ pos = n - 1 /\ "FINDCB" \notin F
              \/ pos = n /\ "FINDCB" \in F
  BY <1>1, <1>5 DEF Going
<1>6. \/ CallEnd(p) /\ pos = n + 1 /\ "RETRYCB" \in F /\ at = <<p, n>>
      \/ ShortEnd(p) /\ pos <= n
      \/ CallEnd(p) /\ pos <= n - 2
      \/ /\ CallEnd(p) /\ k = 1
         /\ \/ pos = n - 1 /\ "FINDCB" \notin F
            \/ pos = n /\ "FINDCB" \in F
  BY DEF Going
<1> QED  BY <1>2, <1>3, <1>4, <1>5, <1>6

\* A connection that goes on with its page: what a turn of the loop needs.
LEMMA RunsBase ==
  ASSUME NEW s, Good(s), NEW c \in Conns, Runs(s, c)
  PROVE  LET w == s.web[c]
             e == Bottom(s, c)
         IN  /\ Reading(s, c) /\ Base(s, c)
             /\ Going(e.page, e.pos, Len(w.files), w.flags, w.cb.at)
             /\ "RETRYCB" \in w.flags => w.cb.done < Lines(w.cb.at)
             /\ e.page \in DOMAIN Pages /\ e.pos \in Nat
<1>1. Reading(s, c)  BY DEF Runs
<1>2. Bottom(s, c).page \in DOMAIN Pages /\ Bottom(s, c).pos \in Nat  BY <1>1, ReadingIs, Zenon
<1> QED  BY <1>1, <1>2, Zenon DEF Runs, Reading, Base, Bottom

\* A callback is called again.
LEMMA RetrySteps ==
  ASSUME Writes, NEW s, Good(s), NEW c \in Conns, Runs(s, c), "RETRYCB" \in s.web[c].flags,
         NEW room \in Nat
  PROVE  Steps(s, Callback(s, c, s.web[c].cb.at, room), c)
<1> DEFINE w == s.web[c]
           at == w.cb.at
           e == Bottom(s, c)
           F == w.flags
           k == Len(w.files)
<1>1. Base(s, c) /\ w.cb.done < Lines(at) /\ Going(e.page, e.pos, k, F, at)
      /\ e.page \in DOMAIN Pages /\ e.pos \in Nat
  BY RunsBase
<1>2. CallAt(at) /\ at \in Names \X Nat
  <2>1. w \in Web /\ CbOk(w.cb)  BY DEF Good, Fit
  <2> QED  BY <2>1, WebIs DEF CbOk, Cb
<1>3. Waits(s, c, at)
  <2>1. F \cup {"RETRYCB"} = F  OBVIOUS
  <2> QED  BY <1>1, <2>1 DEF Waits
<1>4. ~Pages[at[1]].items[at[2]].last => GoesOn(s, c)
  <2> DEFINE p == e.page
             i == e.pos
  <2>1. p \in DOMAIN Pages /\ i \in Nat /\ Going(p, i, k, F, at)  BY <1>1
  <2>2. F = s.web[c].flags /\ k = Len(s.web[c].files)  OBVIOUS
  <2> HIDE DEF p, i, k, F, at
  <2>3. ~Pages[at[1]].items[at[2]].last => \A b : Going(p, i, k, F \ {"RETRYCB"}, b)
    BY <2>1, GoingAgain
  <2> QED  BY <2>2, <2>3 DEF GoesOn, p, i
<1>5. at = s.web[c].cb.at  OBVIOUS
<1> HIDE DEF at
<1> QED  BY <1>1, <1>2, <1>3, <1>4, <1>5, CallbackSteps, Zenon


\* What is said of a state and what is sent
LEMMA SaysSteps ==
  ASSUME NEW s, NEW c, NEW t, NEW out, Apart(s, t, c), Runs(t, c) \/ Stops(t, out, c)
  PROVE  Steps(s, Says(t, out), c)
<1> DEFINE x == Says(t, out)
<1>1. x.s = t /\ x.out = out  BY DEF Says
<1> HIDE DEF x
<1>2. Steps(s, x, c)  BY <1>1 DEF Steps
<1> QED  BY <1>2 DEF x

\* A file is at its end.
LEMMA AtEndSteps ==
  ASSUME NEW s, Good(s), NEW c \in Conns, Runs(s, c), "RETRYCB" \notin s.web[c].flags,
         AtEnd(s.fs.table[Head(s.web[c].files)])
  PROVE  Steps(s, Says(FileEnds(s, c), <<>>), c)
<1> DEFINE q == s.web[c].files
           e == Bottom(s, c)
           F == s.web[c].flags
           at == s.web[c].cb.at
           p == e.page
           i == e.pos
           f == s.fs.table[Head(q)]
           k == Len(q)
           t == FileEnds(s, c)
<1>1. Reading(s, c) /\ Base(s, c) /\ Going(p, i, k, F, at) /\ p \in DOMAIN Pages /\ i \in Nat
  BY RunsBase
<1>2. k \in Nat /\ k > 0 /\ Head(q) = q[1] /\ f # Shut  BY <1>1, ReadingIs, Zenon
<1>3. ~(i > Size(p))
  <2>1. "RETRYCB" \notin F  OBVIOUS
  <2> HIDE DEF F, at, k, p, i
  <2>2. i <= Size(p)  BY <1>1, <2>1, GoingAgain
  <2>3. Size(p) \in Nat  BY <1>1, PageIs
  <2> QED  BY <1>1, <2>2, <2>3
<1>4. k # 1
  <2> SUFFICES ASSUME k = 1  PROVE FALSE
    OBVIOUS
  <2>1. f = e  BY <1>2 DEF Bottom
  <2>2. f.pos > Size(f.page)  BY <1>2 DEF AtEnd
  <2> QED  BY <1>3, <2>1, <2>2
<1>5. GoesAny(s, c)
  <2>1. k # 1 /\ Going(p, i, k, F, at) /\ p \in DOMAIN Pages /\ i \in Nat  BY <1>1, <1>4
  <2> HIDE DEF F, at, k, p, i
  <2>2. \A m, G, b : Going(p, i, m, G, b)  BY <2>1, GoingStays
  <2> QED  BY <2>2 DEF GoesAny, p, i
<1>6. Apart(s, t, c) /\ Runs(t, c)  BY <1>1, <1>4, <1>5, FileEndsSteps
<1> HIDE DEF t
<1>7. Steps(s, Says(t, <<>>), c)  BY <1>6, SaysSteps
<1> QED  BY <1>7 DEF t

\* The page p is read at the place i.
Finds(s, c, p, i) ==
  LET f == s.fs.table[Head(s.web[c].files)] IN f.page = p /\ f.pos = i /\ ~AtEnd(f)

\* It is there.
LEMMA FindsIs ==
  ASSUME NEW s, Good(s), NEW c \in Conns, Runs(s, c), NEW p, NEW i, Finds(s, c, p, i)
  PROVE  /\ p \in DOMAIN Pages /\ p \in Names /\ i \in 1 .. Size(p) /\ i \in Nat
         /\ <<p, i>> \in Names \X Nat
<1> DEFINE f == s.fs.table[Head(s.web[c].files)]
<1>1. f.page = p /\ f.pos = i /\ ~AtEnd(f)  BY DEF Finds
<1>2. f.page \in DOMAIN Pages /\ f.pos \in Nat /\ f.pos \in 1 .. Size(f.page)
  BY <1>1, ReadingIs, Zenon DEF Runs
<1> HIDE DEF f
<1> QED  BY <1>1, <1>2 DEF Names

\* What a read leaves
Found(s, t, c, p, i) ==
  LET it == Pages[p].items[i]
      found == "FINDCB" \in s.web[c].flags
  IN  /\ Base(t, c) /\ "RETRYCB" \notin t.web[c].flags
      /\ it.k = "mark" /\ ~found /\ "FINDCB" \in t.web[c].flags => Runs(t, c)
      /\ it.k = "mark" /\ found => Runs(t, c)
      /\ it.k = "data" /\ "FINDCB" \notin t.web[c].flags => Runs(t, c)
      /\ it.k \in {"call", "inc"} /\ ~found => Runs(t, c)
      /\ it.k = "inc" \/ Len(s.web[c].files) # 1 => GoesAny(t, c)
      /\ it.k = "call" => /\ Waits(t, c, <<p, i>>)
                          /\ ~it.last => GoesOn(t, c)
      /\ t.fs.table[Head(t.web[c].files)].page = p

\* It leaves that.
LEMMA FoundIs ==
  ASSUME NEW s, Good(s), NEW c \in Conns, Runs(s, c), "RETRYCB" \notin s.web[c].flags,
         NEW p, NEW i, Finds(s, c, p, i), NEW t, Takes(s, t, c)
  PROVE  Found(s, t, c, p, i)
<1> DEFINE h == Head(s.web[c].files)
           f == s.fs.table[h]
<1>1. f.page = p /\ f.pos = i /\ ~AtEnd(f)  BY DEF Finds
<1>2. LET it == Pages[f.page].items[f.pos]
          found == "FINDCB" \in s.web[c].flags
      IN  /\ Base(t, c) /\ "RETRYCB" \notin t.web[c].flags
          /\ it.k = "mark" /\ ~found /\ "FINDCB" \in t.web[c].flags => Runs(t, c)
          /\ it.k = "mark" /\ found => Runs(t, c)
          /\ it.k = "data" /\ "FINDCB" \notin t.web[c].flags => Runs(t, c)
          /\ it.k \in {"call", "inc"} /\ ~found => Runs(t, c)
          /\ it.k = "inc" \/ Len(s.web[c].files) # 1 => GoesAny(t, c)
          /\ it.k = "call" => /\ Waits(t, c, <<f.page, f.pos>>)
                              /\ ~it.last => GoesOn(t, c)
  BY <1>1, ReadOn, Zenon
<1>3. t.fs.table[Head(t.web[c].files)].page = p
  <2>1. h \in 1 .. MaxOpen /\ f # Shut  BY ReadingIs, Zenon DEF Runs
  <2>2. Moves(s, Read(s, h), h, f.pos + 1)  BY <2>1, ReadGood
  <2>3. t.fs = Read(s, h).fs /\ Head(t.web[c].files) = h  BY DEF Takes
  <2> HIDE DEF h
  <2>4. \A g \in 1 .. MaxOpen :
          t.fs.table[g] = IF g = h THEN [page |-> s.fs.table[h].page, pos |-> f.pos + 1]
                          ELSE s.fs.table[g]
    BY <2>2, <2>3 DEF Moves
  <2>5. t.fs.table[h] = [page |-> s.fs.table[h].page, pos |-> f.pos + 1]  BY <2>1, <2>4
  <2>6. t.fs.table[h].page = s.fs.table[h].page  BY <2>5
  <2> QED  BY <1>1, <2>3, <2>6
<1> HIDE DEF f
<1> QED  BY <1>1, <1>2, <1>3 DEF Found

\* The text of a call has been read: a callback ends the page or goes on.
LEMMA FoundCall ==
  ASSUME Writes, NEW s, Good(s), NEW c \in Conns, NEW t, Good(t), NEW room \in Nat, NEW p, NEW i,
         Found(s, t, c, p, i), p \in DOMAIN Pages, i \in 1 .. Size(p), <<p, i>> \in Names \X Nat,
         Pages[p].items[i].k = "call"
  PROVE  Steps(t, Callback(t, c, <<p, i>>, room), c)
<1> DEFINE at == <<p, i>>
<1>1. at[1] = p /\ at[2] = i /\ at \in Names \X Nat  OBVIOUS
<1>2. CallAt(at)  BY <1>1 DEF CallAt
<1>3. Base(t, c) /\ "RETRYCB" \notin t.web[c].flags
      /\ Waits(t, c, at) /\ (~Pages[p].items[i].last => GoesOn(t, c))
  BY DEF Found
<1>4. ~Pages[at[1]].items[at[2]].last => GoesOn(t, c)  BY <1>1, <1>3
<1> HIDE DEF at
<1>5. Steps(t, Callback(t, c, at, room), c)  BY <1>1, <1>2, <1>3, <1>4, CallbackSteps
<1> QED  BY <1>5 DEF at

\* A file is included and read, or is not.
LEMMA FoundInc ==
  ASSUME DiskOk, NEW s, Good(s), NEW c \in Conns, NEW t, Good(t), NEW p, NEW i,
         Found(s, t, c, p, i), p \in DOMAIN Pages, i \in 1 .. Size(p),
         Pages[p].items[i].k = "inc", NEW f, f = Pages[p].items[i].f
  PROVE  /\ MayInclude(t, c, f) => Apart(t, IncFopen(t, c, f), c) /\ Runs(IncFopen(t, c, f), c)
         /\ Runs(t, c)
<1>1. Base(t, c) /\ "RETRYCB" \notin t.web[c].flags /\ GoesAny(t, c)  BY DEF Found
<1>2. Runs(t, c)
  <2>1. Going(Bottom(t, c).page, Bottom(t, c).pos, Len(t.web[c].files), t.web[c].flags,
              t.web[c].cb.at)
    BY <1>1 DEF GoesAny
  <2> QED  BY <1>1, <2>1, BaseRuns
<1> DEFINE e == t.fs.table[Head(t.web[c].files)]
<1>3. e.page = p  BY DEF Found
<1>4. Includes(p, f)  BY DEF Includes
<1>5. e = t.fs.table[Head(t.web[c].files)] /\ e.page \in DOMAIN Pages /\ Includes(e.page, f)
  BY <1>3, <1>4
<1> HIDE DEF e
<1>6. ASSUME MayInclude(t, c, f)
      PROVE  Apart(t, IncFopen(t, c, f), c) /\ Runs(IncFopen(t, c, f), c)
  BY <1>1, <1>5, <1>6, IncFopenSteps, Zenon
<1> QED  BY <1>2, <1>6

\* What is called goes on, or ends the page.
LEMMA CalledSteps ==
  ASSUME DiskOk, NEW s, Good(s), NEW c \in Conns, NEW t, Good(t), NEW room \in Nat, NEW p, NEW i,
         Found(s, t, c, p, i), p \in DOMAIN Pages, i \in 1 .. Size(p), <<p, i>> \in Names \X Nat,
         Pages[p].items[i].k \in {"call", "inc"}
  PROVE  Steps(t, Called(t, c, <<p, i>>, room), c)
<1> DEFINE at == <<p, i>>
           it == Pages[p].items[i]
           f == it.f
           x == Called(t, c, at, room)
           y == Callback(t, c, at, room)
           u == IncFopen(t, c, f)
<1>1. at[1] = p /\ at[2] = i  OBVIOUS
<1>2. Writes  BY DEF DiskOk
<1>3. it.k \in {"call", "inc"}  OBVIOUS
<1> HIDE DEF at
<1>4. x = CASE it.k = "call"                            -> y
            [] it.k = "inc" /\ MayInclude(t, c, f)   -> Says(u, <<>>)
            [] it.k = "inc" /\ ~MayInclude(t, c, f)  -> Says(t, <<NotFound>>)
  BY <1>1 DEF Called
<1>5. it.k = "call" => Steps(t, y, c)  BY <1>2, FoundCall DEF at
<1>6. it.k = "inc" => /\ MayInclude(t, c, f) => Apart(t, u, c) /\ Runs(u, c)
                      /\ Runs(t, c)
  BY FoundInc
<1>7. Apart(t, t, c)  BY DEF Apart
<1> HIDE DEF it, f, x, y, u
<1>8. CASE it.k = "call"  BY <1>4, <1>5, <1>8 DEF x, at
<1>9. CASE it.k = "inc" /\ MayInclude(t, c, f)
  <2>1. x = Says(u, <<>>)  BY <1>4, <1>9
  <2>2. Steps(t, Says(u, <<>>), c)  BY <1>6, <1>9, SaysSteps
  <2> QED  BY <2>1, <2>2 DEF x, at
<1>10. CASE it.k = "inc" /\ ~MayInclude(t, c, f)
  <2>1. x = Says(t, <<NotFound>>)  BY <1>4, <1>10
  <2>2. Steps(t, Says(t, <<NotFound>>), c)  BY <1>6, <1>7, <1>10, SaysSteps
  <2> QED  BY <2>1, <2>2 DEF x, at
<1> QED  BY <1>3, <1>8, <1>9, <1>10


\* r is s with an item read, y and z are r with the flag of a marker cleared, and set.
Flagging(s, r, y, z, c) ==
  /\ \A t \in {y, z} : /\ Good(t) /\ Apart(s, t, c) /\ t.fs = r.fs
                       /\ t.web[c].files = s.web[c].files
  /\ y.web[c].flags = s.web[c].flags \ {"FINDCB"}
  /\ z.web[c].flags = s.web[c].flags \cup {"FINDCB"}

\* An item of the file h is read.
LEMMA ReadFlags ==
  ASSUME NEW s, Good(s), NEW c \in Conns, NEW h \in 1 .. MaxOpen, s.fs.table[h] # Shut,
         Holding(s.web[c].files, h), NEW r, r = Read(s, h), NEW G, G = {"FINDCB"},
         NEW y, y = Clr(r, c, G), NEW z, z = Set(r, c, G)
  PROVE  Flagging(s, r, y, z, c)
<1>1. /\ Good(r) /\ r.web = s.web /\ Reads(s, r, c) /\ Moves(s, r, h, s.fs.table[h].pos + 1)
  BY ReadGood
<1>2. \A g \in 1 .. MaxOpen : g # h => r.fs.table[g] = s.fs.table[g]
  BY <1>1 DEF Moves
<1>3. /\ Good(z) /\ Reads(r, z, c) /\ z.web[c].files = r.web[c].files /\ z.fs = r.fs
      /\ z.web[c].flags = r.web[c].flags \cup G
  <2>1. "FINDCB" \in Moving /\ "FINDCB" # "RETRYCB"  BY DEF Moving
  <2> QED  BY <1>1, <2>1, SetReads
<1>4. /\ Good(y) /\ Reads(r, y, c) /\ y.web[c].files = r.web[c].files /\ y.fs = r.fs
      /\ y.web[c].flags = r.web[c].flags \ G
  <2>1. G \in SUBSET Moving  BY DEF Moving
  <2> QED  BY <1>1, <2>1, ClrReads
<1>5. Reads(s, y, c) /\ Reads(s, z, c)  BY <1>1, <1>3, <1>4, ReadsOn
<1>6. Touches(s, y, c) /\ Touches(s, z, c)  BY <1>2, <1>3, <1>4 DEF Touches
<1>7. Apart(s, y, c)  BY <1>5, <1>6, ApartTouch DEF Reads
<1>8. Apart(s, z, c)  BY <1>5, <1>6, ApartTouch DEF Reads
<1> QED  BY <1>1, <1>3, <1>4, <1>7, <1>8 DEF Flagging

\* The first file's is what a connection takes.
LEMMA TakesIs ==
  ASSUME NEW s, Good(s), NEW c \in Conns, Runs(s, c), NEW r,
         r = Read(s, Head(s.web[c].files)), NEW y, y = Clr(r, c, {"FINDCB"}),
         NEW z, z = Set(r, c, {"FINDCB"})
  PROVE  /\ Good(y) /\ Takes(s, y, c) /\ Apart(s, y, c) /\ "FINDCB" \notin y.web[c].flags
         /\ Good(z) /\ Takes(s, z, c) /\ Apart(s, z, c) /\ "FINDCB" \in z.web[c].flags
<1> DEFINE h == Head(s.web[c].files)
           G == {"FINDCB"}
<1>0. Reading(s, c)  BY DEF Runs
<1>1. h \in 1 .. MaxOpen /\ s.fs.table[h] # Shut /\ h = s.web[c].files[1]
      /\ Len(s.web[c].files) \in Nat /\ Len(s.web[c].files) > 0
  BY ONLY c \in Conns, Good(s), <1>0, ReadingIs, Zenon
<1>2. Holding(s.web[c].files, h)
  <2>1. 1 \in 1 .. Len(s.web[c].files)  BY ONLY <1>1
  <2> QED  BY <1>1, <2>1 DEF Holding
<1>3. r = Read(s, h) /\ h = Head(s.web[c].files)  OBVIOUS
<1>4. G = {"FINDCB"} /\ y = Clr(r, c, G) /\ z = Set(r, c, G)  OBVIOUS
<1> HIDE DEF h, G
<1>5. Flagging(s, r, y, z, c)
  BY ONLY c \in Conns, Good(s), <1>1, <1>2, <1>3, <1>4, ReadFlags
<1>6. Takes(s, y, c) /\ Takes(s, z, c)  BY <1>3, <1>5, Zenon DEF Takes, Flagging
<1> QED  BY <1>5, <1>6, Zenon DEF Flagging

\* One turn of the loop: the page goes on, or has ended with something to send.
LEMMA TurnSteps ==
  ASSUME DiskOk, NEW s, Good(s), NEW c \in Conns, Runs(s, c), NEW room \in Nat \ {0}
  PROVE  Steps(s, Turn(s, c, room), c)
<1> DEFINE h  == Head(s.web[c].files)
           f  == Entry(s, h)
           p  == f.page
           i  == f.pos
           at == <<p, i>>
           it == Pages[p].items[i]
           r  == Read(s, h)
           found == Has(s, c, "FINDCB")
           x  == Turn(s, c, room)
           y  == Clr(r, c, {"FINDCB"})
           z  == Set(r, c, {"FINDCB"})
<1>1. f = s.fs.table[h]  BY ReadingIs, Zenon DEF Runs
<1>2. CASE Has(s, c, "RETRYCB")
  <2>1. x = Callback(s, c, s.web[c].cb.at, room)  BY <1>2, Zenon DEF Turn
  <2>2. Writes /\ "RETRYCB" \in s.web[c].flags /\ room \in Nat  BY <1>2 DEF DiskOk, Has
  <2> HIDE DEF x
  <2>3. Steps(s, x, c)  BY <2>1, <2>2, RetrySteps
  <2> QED  BY <2>3 DEF x
<1>3. CASE ~Has(s, c, "RETRYCB") /\ AtEnd(f)
  <2>1. x = Says(FileEnds(s, c), <<>>)  BY <1>3, Zenon DEF Turn
  <2>2. "RETRYCB" \notin s.web[c].flags /\ AtEnd(s.fs.table[Head(s.web[c].files)])
    BY <1>1, <1>3 DEF Has
  <2> HIDE DEF x
  <2>3. Steps(s, x, c)  BY <2>1, <2>2, AtEndSteps
  <2> QED  BY <2>3 DEF x
<1>4. CASE ~Has(s, c, "RETRYCB") /\ ~AtEnd(f)
  <2>1. Finds(s, c, p, i) /\ "RETRYCB" \notin s.web[c].flags  BY <1>1, <1>4 DEF Finds, Has
  <2>2. x = CASE it.k = "mark" /\ ~found -> Says(z, <<>>)
              [] it.k = "mark" /\ found  -> Says(y, <<Tilde>>)
              [] it.k = "data"           -> Says(y, <<at>>)
              [] it.k = "short"          -> Says(FileEnds(y, c), <<at>>)
              [] it.k \in {"call", "inc"} /\ found  -> Called(y, c, at, room)
              [] it.k \in {"call", "inc"} /\ ~found -> Says(z, <<at>>)
    BY <1>4, Zenon DEF Turn
  <2>3. r = Read(s, Head(s.web[c].files)) /\ (found <=> "FINDCB" \in s.web[c].flags)
    BY DEF Has
  <2> HIDE DEF p, i, r, f, h, found
  <2>4. /\ p \in DOMAIN Pages /\ p \in Names /\ i \in 1 .. Size(p) /\ i \in Nat
        /\ at \in Names \X Nat
    BY <2>1, FindsIs
  <2> HIDE DEF y, z, at
  <2>5. /\ Good(y) /\ Takes(s, y, c) /\ Apart(s, y, c) /\ "FINDCB" \notin y.web[c].flags
        /\ Good(z) /\ Takes(s, z, c) /\ Apart(s, z, c) /\ "FINDCB" \in z.web[c].flags
    BY <2>3, TakesIs DEF y, z
  <2>6. Found(s, y, c, p, i) /\ Found(s, z, c, p, i)  BY <2>1, <2>5, FoundIs
  <2>7. it.k \in Items  BY <2>4, PageIs
  <2> HIDE DEF it, x
  <2>8. CASE x = Says(z, <<>>) /\ it.k = "mark" /\ ~found
    <3>1. Runs(z, c)  BY <2>3, <2>5, <2>6, <2>8 DEF Found, it
    <3>2. Steps(s, Says(z, <<>>), c)  BY <2>5, <3>1, SaysSteps
    <3> QED  BY <2>8, <3>2 DEF x
  <2>9. CASE x = Says(y, <<Tilde>>) /\ it.k = "mark" /\ found
    <3>1. Runs(y, c)  BY <2>3, <2>6, <2>9 DEF Found, it
    <3>2. Steps(s, Says(y, <<Tilde>>), c)  BY <2>5, <3>1, SaysSteps
    <3> QED  BY <2>9, <3>2 DEF x
  <2>10. CASE x = Says(y, <<at>>) /\ it.k = "data"
    <3>1. Runs(y, c)  BY <2>3, <2>5, <2>6, <2>10 DEF Found, it
    <3>2. Steps(s, Says(y, <<at>>), c)  BY <2>5, <3>1, SaysSteps
    <3> QED  BY <2>10, <3>2 DEF x
  <2>11. CASE x = Says(z, <<at>>) /\ it.k \in {"call", "inc"} /\ ~found
    <3>1. Runs(z, c)  BY <2>3, <2>6, <2>11 DEF Found, it
    <3>2. Steps(s, Says(z, <<at>>), c)  BY <2>5, <3>1, SaysSteps
    <3> QED  BY <2>11, <3>2 DEF x
  <2>12. CASE x = Called(y, c, at, room) /\ it.k \in {"call", "inc"}
    <3>1. Pages[p].items[i].k \in {"call", "inc"}  BY <2>12 DEF it
    <3>2. room \in Nat  OBVIOUS
    <3>3. <<p, i>> \in Names \X Nat  BY <2>4 DEF at
    <3>4. Steps(y, Called(y, c, at, room), c)
      BY <2>4, <2>5, <2>6, <3>1, <3>2, <3>3, CalledSteps DEF at
    <3>5. Steps(y, x, c)  BY <2>12, <3>4
    <3>6. Steps(s, x, c)  BY <2>5, <3>5, ApartOn DEF Steps
    <3> QED  BY <3>6 DEF x
  <2>13. CASE x = Says(FileEnds(y, c), <<at>>) /\ it.k = "short"
    <3> DEFINE t == FileEnds(y, c)
    <3>1. Base(y, c) /\ "RETRYCB" \notin y.web[c].flags  BY <2>6 DEF Found
    <3>2. Len(y.web[c].files) # 1 => GoesAny(y, c)  BY <2>5, <2>6 DEF Found, Takes
    <3>3. /\ Apart(y, t, c)
          /\ IF Len(y.web[c].files) = 1 THEN {"FCLOSE", "DISCONNECT"} \subseteq t.web[c].flags
             ELSE Runs(t, c)
      BY <2>5, <3>1, <3>2, FileEndsSteps
    <3> HIDE DEF t
    <3>4. Runs(t, c) \/ Stops(t, <<at>>, c)
      <4>1. <<at>> # <<>>  OBVIOUS
      <4> QED  BY <3>3, <4>1 DEF Stops
    <3>5. Apart(s, t, c)  BY <2>5, <3>3, ApartOn
    <3>6. Steps(s, Says(t, <<at>>), c)  BY <3>4, <3>5, SaysSteps
    <3> QED  BY <2>13, <3>6 DEF x, t
  <2>14. it.k \in {"data", "short", "mark", "call", "inc"}  BY <2>7 DEF Items
  <2> QED  BY <2>2, <2>8, <2>9, <2>10, <2>11, <2>12, <2>13, <2>14
<1> QED  BY <1>2, <1>3, <1>4


\* What has been filled, by a connection that goes on or has ended its page
FillsOn(s, x, c, room) == Filling(s, x, c, room) /\ Steps(s, x, c)

\* A turn more
LEMMA TurnedSteps ==
  ASSUME DiskOk, NEW s, NEW c \in Conns, NEW room \in Nat, NEW x, Fills(s, x, c, room),
         Apart(s, x.s, c), Runs(x.s, c), room - Len(x.out) >= 1
  PROVE  FillsOn(s, Turned(x, c, room), c, room)
<1> DEFINE a == x.s
           o == x.out
           n == room - Len(o)
           t == Turn(a, c, n)
           y == Turned(x, c, room)
<1>1. Good(a) /\ o \in Seq(Outs) /\ Runs(a, c) /\ Apart(s, a, c)  BY DEF Fills
<1>2. a.web[c].files # <<>>  BY <1>1, Zenon DEF Runs, Reading
<1>3. Filling(s, y, c, room)  BY <1>2, TurnedFilling
<1>4. n \in Nat \ {0}
  <2>1. Len(o) \in Nat  BY <1>1, LenProperties
  <2> QED  BY <2>1
<1>5. y = Says(t.s, o \o t.out)  BY DEF Turned
<1> HIDE DEF a, o, n, y
<1>6. Steps(a, t, c) /\ Fills(a, t, c, n)  BY <1>1, <1>2, <1>4, TurnSteps, TurnGood
<1> HIDE DEF t
<1>7. Apart(s, t.s, c)  BY <1>1, <1>6, ApartOn DEF Steps
<1>8. Runs(t.s, c) \/ Stops(t.s, o \o t.out, c)
  <2>1. t.out # <<>> => o \o t.out # <<>>
    <3>1. t.out \in Seq(Outs)  BY <1>6 DEF Fills
    <3> DEFINE u == t.out
    <3> HIDE DEF u
    <3>2. \A v \in Seq(Outs) : v # <<>> => o \o v # <<>>  BY <1>1, EmptySeq
    <3> QED  BY <3>1, <3>2
  <2> QED  BY <1>6, <2>1 DEF Steps, Stops
<1>9. Steps(s, y, c)  BY <1>5, <1>7, <1>8, SaysSteps
<1> QED  BY <1>3, <1>9 DEF FillsOn, y

\* A parsed page is read into a buffer: it goes on, or has ended with something to send.
LEMMA FilledSteps ==
  ASSUME DiskOk, NEW s, Good(s), NEW c \in Conns, NEW room \in Nat \ {0}, Runs(s, c)
  PROVE  FillsOn(s, Filled(s, c, room), c, room)
<1>1. PICK f : /\ f[0] = Turned(Says(s, <<>>), c, room)
               /\ \A i \in 1 .. MaxTurns : f[i] = TurnedOn(f[i - 1], c, room)
               /\ Filled(s, c, room) = f[MaxTurns]
  BY FilledIs
<1>2. FillsOn(s, f[0], c, room)
  <2> DEFINE x == Says(s, <<>>)
  <2>1. Reads(s, s, c) /\ Apart(s, s, c)  BY DEF Reads, Kept, Apart
  <2>2. x.s = s /\ x.out = <<>>  BY DEF Says
  <2> HIDE DEF x
  <2>3. Fills(s, x, c, room) /\ room - Len(x.out) >= 1  BY <2>1, <2>2, OneOut DEF Fills
  <2>4. Runs(x.s, c) /\ Apart(s, x.s, c) /\ room \in Nat  BY <2>1, <2>2
  <2>5. FillsOn(s, Turned(x, c, room), c, room)  BY <2>3, <2>4, TurnedSteps
  <2> QED  BY <1>1, <2>5 DEF x
<1>3. ASSUME NEW i \in 1 .. MaxTurns, FillsOn(s, f[i - 1], c, room)
      PROVE  FillsOn(s, f[i], c, room)
  <2> DEFINE x == f[i - 1]
  <2>1. f[i] = TurnedOn(x, c, room)  BY <1>1
  <2>2. FillsOn(s, x, c, room)  BY <1>3
  <2> HIDE DEF x
  <2>3. CASE ~Goes(x, c, room)  BY <2>1, <2>2, <2>3 DEF TurnedOn
  <2>4. CASE Goes(x, c, room)
    <3>1. f[i] = Turned(x, c, room)  BY <2>1, <2>4 DEF TurnedOn
    <3>2. room - Len(x.out) >= 1 /\ "FCLOSE" \notin x.s.web[c].flags
      BY <2>4 DEF Goes, HasAny
    <3>3. Fills(s, x, c, room) /\ Steps(s, x, c) /\ room \in Nat  BY <2>2 DEF FillsOn, Filling
    <3>4. Apart(s, x.s, c) /\ Runs(x.s, c)  BY <3>2, <3>3 DEF Steps, Stops
    <3>5. FillsOn(s, Turned(x, c, room), c, room)  BY <3>2, <3>3, <3>4, TurnedSteps
    <3> QED  BY <3>1, <3>5
  <2> QED  BY <2>3, <2>4

<1> DEFINE Bad == {i \in 0 .. MaxTurns : ~FillsOn(s, f[i], c, room)}
<1>4. Bad = {}
  <2> SUFFICES ASSUME Bad # {}  PROVE FALSE  OBVIOUS
  <2>1. PICK k \in Bad : \A j \in Bad : k <= j
    <3>1. Bad \in SUBSET Nat  BY Constants
    <3> HIDE DEF Bad
    <3> QED  BY <3>1, LeastNatural
  <2>2. k \in 0 .. MaxTurns /\ ~FillsOn(s, f[k], c, room)  OBVIOUS
  <2>3. k # 0  BY <1>2, <2>2
  <2>4. k \in 1 .. MaxTurns /\ k - 1 \in 0 .. MaxTurns /\ ~(k <= k - 1)  BY <2>2, <2>3, Constants
  <2>5. FillsOn(s, f[k - 1], c, room)
    <3>1. k - 1 \notin Bad  BY <2>1, <2>4
    <3> QED  BY <2>4, <3>1
  <2> QED  BY <1>3, <2>2, <2>4, <2>5
<1>5. FillsOn(s, f[MaxTurns], c, room)
  <2>1. MaxTurns \in 0 .. MaxTurns  BY Constants
  <2> QED  BY <1>4, <2>1
<1> QED  BY <1>1, <1>5

(***************************************************************************)
(* What sending does to a connection                                       *)
(***************************************************************************)
\* t is s with the connection v in place of c's.
Becomes(s, t, c, v) ==
  t.web[c] = v /\ t.fs = s.fs /\ \A d \in Conns : d # c => t.web[d] = s.web[d]

\* So it is if v is put there.
LEMMA PutsBecomes ==
  ASSUME NEW s, Good(s), NEW c \in Conns, NEW v, NEW t, Puts(s, t, c, v)
  PROVE  Becomes(s, t, c, v)
<1>1. s \in States  BY DEF Good
<1> QED  BY <1>1 DEF States, Puts, Becomes

\* Other connections do not notice.
LEMMA BecomesApart ==
  ASSUME NEW s, NEW c, NEW v, NEW t, Becomes(s, t, c, v)
  PROVE  Apart(s, t, c)
  BY DEF Becomes, Apart

\* v is like w in what is said of the body.
SameBody(w, v) ==
  /\ v.mode = w.mode /\ v.length = w.length /\ v.body = w.body /\ v.ended = w.ended
  /\ v.cut = w.cut

\* And in what is read
SameFiles(w, v) ==
  /\ v.files = w.files /\ v.cb = w.cb /\ v.len = w.len /\ v.req = w.req
  /\ v.rxnull = w.rxnull

\* Other flags
LEMMA FlaggedIs ==
  ASSUME NEW s, Good(s), NEW c \in Conns, NEW t, NEW F, Flagged(s, t, c, F)
  PROVE  /\ Apart(s, t, c) /\ t.fs = s.fs
         /\ SameBody(s.web[c], t.web[c]) /\ SameFiles(s.web[c], t.web[c]) /\ t.web[c].flags = F
<1> DEFINE w == s.web[c]
           v == t.web[c]
<1>1. w \in Web  BY PutIs
<1>2. v = [w EXCEPT !.flags = F] /\ t.fs = s.fs /\ \A d \in Conns : d # c => t.web[d] = s.web[d]
  BY DEF Flagged
<1>3. Apart(s, t, c)  BY <1>2 DEF Apart
<1> HIDE DEF w, v
<1>4. SameBody(w, v) /\ SameFiles(w, v) /\ v.flags = F  BY <1>1, <1>2 DEF Web, SameBody, SameFiles
<1> QED  BY <1>2, <1>3, <1>4 DEF w, v

\* t is s with out sent.
Sent(s, t, c, out) ==
  LET w == s.web[c]
      v == t.web[c]
  IN  /\ Apart(s, t, c) /\ t.fs = s.fs /\ v.flags = w.flags /\ SameFiles(w, v)
      /\ v.mode = w.mode /\ v.length = w.length /\ v.cut = w.cut
      /\ Len(v.body) = Len(w.body) + Len(out) /\ v.body \in Seq(Outs)

\* tcpsrv_int_sent_data
LEMMA SendSent ==
  ASSUME NEW s, Good(s), NEW c \in Conns, NEW out \in Seq(Outs)
  PROVE  LET t == Send(s, c, out) IN Sent(s, t, c, out) /\ t.web[c].ended = s.web[c].ended
<1> DEFINE w == s.web[c]
           n == w.flight + Len(out)
           b == w.body \o out
           v == [w EXCEPT !.body = b, !.flight = n]
           t == Send(s, c, out)
<1>1. s \in States /\ w \in Web /\ w.body \in Seq(Outs)  BY PutIs, WebIs
<1>2. b \in Seq(Outs) /\ Len(b) = Len(w.body) + Len(out)  BY <1>1, ConcatProperties
<1>3. Puts(s, t, c, v)  BY <1>1 DEF Send, States, Web, Puts
<1> HIDE DEF n, b, t
<1>4. v.body = b /\ v.flags = w.flags /\ SameFiles(w, v)
      /\ v.mode = w.mode /\ v.length = w.length /\ v.cut = w.cut /\ v.ended = w.ended
  BY <1>1 DEF Web, SameFiles
<1> HIDE DEF v
<1>5. Becomes(s, t, c, v)  BY <1>3, PutsBecomes
<1>6. Apart(s, t, c) /\ t.fs = s.fs /\ t.web[c] = v  BY <1>5, BecomesApart DEF Becomes
<1> QED  BY <1>2, <1>4, <1>6 DEF Sent, t

\* webserver_send_fdata, the end
LEMMA SendBodySent ==
  ASSUME NEW s, Good(s), NEW c \in Conns, NEW out \in Seq(Outs), NEW room,
         s.web[c].flight + Len(out) <= SndBuf
  PROVE  LET t == SendBody(s, c, out, room)
             F == s.web[c].flags
         IN  /\ Sent(s, t, c, out)
             /\ t.web[c].ended =
                  (s.web[c].ended \/ ({"CHUNKED", "FCLOSE"} \subseteq F /\ out # <<>>))
<1> DEFINE x == IF out = <<>> THEN s ELSE Send(s, c, out)
           F == s.web[c].flags
           e == {"CHUNKED", "FCLOSE"} \subseteq F /\ out # <<>>
           t == SendBody(s, c, out, room)
           y == [x EXCEPT !.web[c].ended = TRUE]
<1>1. Good(x) /\ Sent(s, x, c, out) /\ x.web[c].ended = s.web[c].ended /\ x.web[c].flags = F
  <2>1. CASE out = <<>>
    <3>1. s.web[c] \in Web  BY PutIs
    <3>2. s.web[c].body \in Seq(Outs) /\ Len(out) = 0  BY <2>1, <3>1, WebIs, OneOut
    <3>3. Len(s.web[c].body) = Len(s.web[c].body) + Len(out)  BY <3>2, LenProperties
    <3> QED  BY <2>1, <3>2, <3>3 DEF Sent, Apart, SameFiles
  <2>2. CASE out # <<>>
    <3> DEFINE u == Send(s, c, out)
    <3>1. Sent(s, u, c, out) /\ u.web[c].ended = s.web[c].ended  BY SendSent
    <3>2. Good(u)  BY SendGood
    <3>3. x = u  BY <2>2
    <3> HIDE DEF x, u
    <3> QED  BY <3>1, <3>2, <3>3 DEF Sent
  <2> QED  BY <2>1, <2>2
<1>2. t = IF e THEN y ELSE x
  <2>1. t = IF Has(s, c, "CHUNKED") /\ Has(s, c, "FCLOSE") /\ out # <<>> THEN y ELSE x
    BY DEF SendBody
  <2> HIDE DEF x, y, t
  <2> QED  BY <1>1, <2>1 DEF Has
<1> HIDE DEF x, t, e
<1>3. CASE e
  <2> DEFINE w == x.web[c]
             v == [w EXCEPT !.ended = TRUE]
  <2>1. x \in States /\ w \in Web  BY <1>1, PutIs
  <2>2. Puts(x, y, c, v)  BY <2>1 DEF States, Puts
  <2>3. v.body = w.body /\ v.flags = w.flags /\ SameFiles(w, v)
        /\ v.mode = w.mode /\ v.length = w.length /\ v.cut = w.cut /\ v.ended
    BY <2>1 DEF Web, SameFiles
  <2> HIDE DEF y, v
  <2>4. Becomes(x, y, c, v)  BY <1>1, <2>2, PutsBecomes
  <2>5. Apart(x, y, c) /\ y.fs = x.fs /\ y.web[c] = v  BY <2>4, BecomesApart DEF Becomes
  <2>6. Apart(s, y, c)  BY <1>1, <2>5, ApartOn DEF Sent
  <2>7. Sent(s, y, c, out) /\ y.web[c].ended = TRUE  BY <1>1, <2>3, <2>5, <2>6 DEF Sent, SameFiles
  <2>8. s.web[c].ended \in BOOLEAN  BY PutIs, WebIs
  <2>9. t = y /\ (s.web[c].ended \/ e)  BY <1>2, <1>3
  <2>10. t.web[c].ended = (s.web[c].ended \/ e)  BY <2>7, <2>8, <2>9
  <2> QED  BY <2>7, <2>9, <2>10 DEF t, e
<1>4. CASE ~e
  <2>1. t = x  BY <1>2, <1>4
  <2>2. s.web[c].ended \in BOOLEAN  BY PutIs, WebIs
  <2> QED  BY <1>1, <1>4, <2>1, <2>2 DEF t, e
<1> QED  BY <1>3, <1>4

\* Memory has failed.
LEMMA GivenUpIs ==
  ASSUME NEW s, Good(s), NEW c \in Conns
  PROVE  LET t == GivenUp(s, c)
             w == s.web[c]
             v == t.web[c]
         IN  /\ Apart(s, t, c) /\ t.fs = s.fs /\ SameFiles(w, v) /\ v.cut
             /\ v.flags = w.flags \cup {"FCLOSE", "DISCONNECT"}
             /\ v.mode = w.mode /\ v.length = w.length /\ v.body = w.body /\ v.ended = w.ended
<1> DEFINE q == Quit(s, c)
           w == q.web[c]
           v == [w EXCEPT !.cut = TRUE]
           t == GivenUp(s, c)
           F == s.web[c].flags \cup {"FCLOSE", "DISCONNECT"}
<1>1. Flagged(s, q, c, F)  BY QuitGood
<1>0. t = [q EXCEPT !.web[c].cut = TRUE]  BY DEF GivenUp
<1> HIDE DEF q, t, F
<1>2. Good(q) /\ Apart(s, q, c) /\ q.fs = s.fs /\ SameBody(s.web[c], w) /\ SameFiles(s.web[c], w)
      /\ w.flags = F
  BY <1>1, FlaggedIs DEF Flagged
<1>3. q \in States /\ w \in Web  BY <1>2, PutIs
<1>4. Puts(q, t, c, v)  BY <1>0, <1>3 DEF States, Puts
<1>5. /\ SameFiles(w, v) /\ v.cut /\ v.flags = w.flags
      /\ v.mode = w.mode /\ v.length = w.length /\ v.body = w.body /\ v.ended = w.ended
  BY <1>3 DEF Web, SameFiles
<1> HIDE DEF v
<1>6. Becomes(q, t, c, v)  BY <1>2, <1>4, PutsBecomes
<1>7. Apart(q, t, c) /\ t.fs = q.fs /\ t.web[c] = v  BY <1>6, BecomesApart DEF Becomes
<1>8. Apart(s, t, c)  BY <1>2, <1>7, ApartOn
<1> QED  BY <1>2, <1>5, <1>7, <1>8 DEF SameFiles, SameBody, t, F

(***************************************************************************)
(* A connection that sends                                                 *)
(***************************************************************************)
\* A file that is not parsed, or a page that is no file, is being read.
Copying(s, c) ==
  LET w == s.web[c]
      q == w.files
      e == s.fs.table[q[1]]
  IN  /\ Len(q) = 1 /\ {"FCALBACK", "RETRYCB"} \cap w.flags = {} /\ w.mode = "length"
      /\ q[1] = Builtin => w.body = <<>> /\ w.length = 1
      /\ q[1] # Builtin => /\ ~Pages[e.page].parsed /\ w.length = Size(e.page)
                           /\ Len(w.body) = e.pos - 1 /\ e.pos <= w.length + 1

\* The page goes on.
Sending(s, c) ==
  LET w == s.web[c]
  IN  /\ {"CLOSED", "DISCONNECT", "FCLOSE"} \cap w.flags = {} /\ "FOPEN" \in w.flags
      /\ ~w.ended
      /\ \/ Copying(s, c)
         \/ Reading(s, c) /\ (\/ w.mode = "chunked" /\ "CHUNKED" \in w.flags
                              \/ w.mode = "close" /\ "CHUNKED" \notin w.flags)

\* The body is what the header said, if it is over.
Framing(w) ==
  /\ w.mode = "length" => Len(w.body) <= w.length
  /\ ~w.cut => (w.mode = "length" => Len(w.body) = w.length) /\ (w.mode = "chunked" => w.ended)
  /\ w.ended => {"FCLOSE", "CHUNKED"} \subseteq w.flags
Over(w) == "DISCONNECT" \in w.flags /\ Framing(w)

\* Other connections go on, and this one does or is over.
Pends(s, t, c) == Apart(s, t, c) /\ (Sending(t, c) \/ Over(t.web[c]))

\* What of a file of size n is read at the place pos into a buffer, and is left
LEMMA ReadFits ==
  ASSUME NEW n \in Nat, NEW pos \in Nat, pos > 0, pos <= n + 1, NEW room \in Nat \ {0},
         NEW left, left = IF pos > n THEN 0 ELSE n - pos + 1,
         NEW m, m = IF left < room THEN left ELSE room
  PROVE  /\ m \in Nat /\ pos - 1 + m <= n /\ (m < room => pos - 1 + m = n)
         /\ m > 0 => pos + m - 1 \in 1 .. n
  OBVIOUS

\* One file is the first.
LEMMA OneFile ==
  ASSUME NEW q \in Seq(Handles), Len(q) = 1
  PROVE  q # <<>> /\ Head(q) = q[1]
<1>1. Len(<<>>) = 0  BY EmptySeq
<1>2. ASSUME q = <<>>  PROVE FALSE
  <2>1. Len(q) = 0  BY Zenon, <1>1, <1>2
  <2> QED  BY <2>1
<1> QED  BY <1>2

\* The file of a connection that copies
LEMMA CopyingIs ==
  ASSUME NEW s, Good(s), NEW c \in Conns, Copying(s, c), s.web[c].files[1] # Builtin
  PROVE  LET q == s.web[c].files
             h == q[1]
             e == s.fs.table[h]
         IN  /\ q # <<>> /\ Head(q) = h /\ h \in 1 .. MaxOpen /\ Entry(s, h) = e /\ e # Shut
             /\ Holding(q, h)
             /\ e.page \in DOMAIN Pages /\ e.pos \in Nat /\ e.pos > 0 /\ Size(e.page) \in Nat
             /\ e.pos <= Size(e.page) + 1
<1> DEFINE q == s.web[c].files
           e == s.fs.table[q[1]]
           i == 1
<1>1. Len(q) = 1 /\ e.pos <= Size(e.page) + 1  BY Zenon DEF Copying
<1>2. q # <<>> /\ Head(q) = q[1]
  <2>1. q \in Seq(Handles)  BY FilesAre
  <2> HIDE DEF q
  <2> QED  BY <1>1, <2>1, OneFile
<1>3. i \in 1 .. Len(q) /\ q[i] # Builtin  BY <1>1
<1>4. LET h == q[i]
          f == s.fs.table[h]
      IN  /\ h \in 1 .. MaxOpen /\ f # Shut /\ Entry(s, h) = f
          /\ f.page \in DOMAIN Pages /\ f.pos \in Nat /\ f.pos > 0 /\ Holding(q, h)
  <2> HIDE DEF i
  <2> QED  BY <1>3, HeadIs, Zenon
<1>5. e.page \in DOMAIN Pages  BY <1>4
<1> HIDE DEF e
<1>6. Size(e.page) \in Nat  BY <1>5, PageIs
<1> QED  BY <1>1, <1>2, <1>4, <1>6, Zenon DEF e

\* It is at its end, or has moved.
Copied(s, x, c) ==
  LET h == s.web[c].files[1]
      e == s.fs.table[h]
      n == Len(x.out)
  IN  /\ Apart(s, x.s, c) /\ n \in Nat /\ e.pos - 1 + n <= Size(e.page)
      /\ \/ {"FCLOSE", "DISCONNECT"} \subseteq x.s.web[c].flags /\ e.pos - 1 + n = Size(e.page)
         \/ x.s.web = s.web /\ x.s.fs.table[h] = [page |-> e.page, pos |-> e.pos + n]

\* From s to t, n items of the file h are read, if any.
Skips(s, t, h, n) == t = IF n = 0 THEN s ELSE [s EXCEPT !.fs.table[h].pos = @ + n]

\* That moves the file.
LEMMA SkipOn ==
  ASSUME NEW s, Good(s), NEW c \in Conns, NEW h \in 1 .. MaxOpen, s.fs.table[h] # Shut,
         NEW n \in Nat, NEW t, Skips(s, t, h, n)
  PROVE  Good(t) /\ t.web = s.web /\ Moves(s, t, h, s.fs.table[h].pos + n)
<1> DEFINE e == s.fs.table[h]
<1>0. e \in [page : Names, pos : Nat]
  <2>1. s \in States  BY DEF Good
  <2> QED  BY <2>1, PartsAre
<1>1. CASE n = 0
  <2>1. t = s /\ e.pos + n = e.pos  BY <1>0, <1>1 DEF Skips
  <2>2. e = [page |-> e.page, pos |-> e.pos]  BY <1>0
  <2> QED  BY <2>1, <2>2 DEF Moves
<1>2. CASE n # 0
  <2>1. t = [s EXCEPT !.fs.table[h].pos = @ + n]  BY <1>2 DEF Skips
  <2>2. LET u == [s EXCEPT !.fs.table[h].pos = @ + n]
        IN  Good(u) /\ u.web = s.web /\ Moves(s, u, h, s.fs.table[h].pos + n)
    BY SkipGood
  <2> QED  BY <2>1, <2>2
<1> QED  BY <1>1, <1>2

\* A file that is not parsed is read into a buffer.
LEMMA PlainCopies ==
  ASSUME NEW s, Good(s), NEW c \in Conns, Copying(s, c), s.web[c].files[1] # Builtin,
         NEW room \in Nat \ {0}
  PROVE  Copied(s, Plain(s, c, room), c)
<1> DEFINE h == s.web[c].files[1]
           f == Entry(s, h)
           e == s.fs.table[h]
           p == e.page
           k == e.pos
           left == IF AtEnd(f) THEN 0 ELSE Size(f.page) - f.pos + 1
           n == IF left < room THEN left ELSE room
           short == n > 0 /\ Pages[f.page].items[f.pos + n - 1].k = "short"
           t == IF n = 0 THEN s ELSE [s EXCEPT !.fs.table[h].pos = @ + n]
           out == [i \in 1 .. n |-> <<f.page, f.pos + i - 1>>]
           x == Plain(s, c, room)
<1>1. /\ Head(s.web[c].files) = h /\ h \in 1 .. MaxOpen /\ f = e /\ e # Shut
      /\ Holding(s.web[c].files, h)
      /\ p \in DOMAIN Pages /\ k \in Nat /\ k > 0 /\ Size(p) \in Nat /\ k <= Size(p) + 1
  BY CopyingIs, Zenon
<1>2. x = Says(IF n < room \/ short THEN Quit(t, c) ELSE t, out)  BY <1>1, Zenon DEF Plain
<1>3. left = IF k > Size(p) THEN 0 ELSE Size(p) - k + 1  BY <1>1, Zenon DEF AtEnd
<1>4. short => n > 0 /\ Pages[p].items[k + n - 1].k = "short"  BY <1>1, Zenon
<1>5. \A i \in 1 .. Size(p) : Pages[p].items[i].k = "short" => i = Size(p)  BY <1>1, PageIs, Zenon
<1> DEFINE m == Size(p)
<1>6. /\ n \in Nat /\ k - 1 + n <= m /\ (n < room => k - 1 + n = m)
      /\ n > 0 => k + n - 1 \in 1 .. m
  <2>1. m \in Nat /\ k \in Nat /\ k > 0 /\ k <= m + 1  BY <1>1, Zenon
  <2>2. left = IF k > m THEN 0 ELSE m - k + 1  BY <1>3
  <2>3. n = IF left < room THEN left ELSE room  OBVIOUS
  <2> HIDE DEF m, k, left, n
  <2> QED  BY <2>1, <2>2, <2>3, ReadFits
<1>7. Len(out) = n
  <2> HIDE DEF n
  <2>1. n \in Nat /\ out = [i \in 1 .. n |-> <<f.page, f.pos + i - 1>>]  BY <1>6
  <2> HIDE DEF out
  <2> QED  BY ONLY <2>1
<1> HIDE DEF left, n, out, f, x
<1>8. short => k - 1 + n = m
  <2>1. \A i \in 1 .. m : Pages[p].items[i].k = "short" => i = m  BY <1>5, Zenon
  <2>2. m \in Nat /\ k \in Nat  BY <1>1, Zenon
  <2> HIDE DEF m, k, p, short
  <2>3. ASSUME short  PROVE k - 1 + n = m
    <3>1. k + n - 1 \in 1 .. m /\ Pages[p].items[k + n - 1].k = "short"  BY <1>4, <1>6, <2>3
    <3>2. k + n - 1 = m  BY <2>1, <3>1
    <3> QED  BY <1>6, <2>2, <3>2
  <2> QED  BY <2>3
<1> HIDE DEF short
<1>9. /\ Good(t) /\ t.web = s.web
      /\ \A g \in 1 .. MaxOpen :
           t.fs.table[g] = IF g = h THEN [page |-> p, pos |-> k + n] ELSE s.fs.table[g]
  <2>1. Skips(s, t, h, n)  BY DEF Skips
  <2> HIDE DEF t, e
  <2>2. e = s.fs.table[h]  BY DEF e
  <2> HIDE DEF h
  <2>3. h \in 1 .. MaxOpen /\ e # Shut /\ n \in Nat  BY <1>1, <1>6
  <2>4. Good(t) /\ t.web = s.web /\ Moves(s, t, h, s.fs.table[h].pos + n)
    BY <2>1, <2>2, <2>3, SkipOn
  <2> QED  BY <2>2, <2>4 DEF Moves
<1> HIDE DEF t, m
<1>10. t.fs.table[h] = [page |-> p, pos |-> k + n] /\ Touches(s, t, c)
  <2> HIDE DEF h, p, k
  <2> QED  BY <1>1, <1>9 DEF Touches
<1>11. Apart(s, t, c)  BY <1>9, <1>10, ApartTouch, Zenon
<1>12. x.out = out  BY <1>2 DEF Says
<1>13. CASE n < room \/ short
  <2>1. x.s = Quit(t, c)  BY <1>2, <1>13 DEF Says
  <2>2. Flagged(t, Quit(t, c), c, t.web[c].flags \cup {"FCLOSE", "DISCONNECT"})  BY <1>9, QuitGood
  <2>3. Apart(t, x.s, c) /\ {"FCLOSE", "DISCONNECT"} \subseteq x.s.web[c].flags
    <3> DEFINE F == t.web[c].flags \cup {"FCLOSE", "DISCONNECT"}
    <3>1. {"FCLOSE", "DISCONNECT"} \subseteq F  OBVIOUS
    <3>2. Flagged(t, x.s, c, F)  BY <2>1, <2>2
    <3> HIDE DEF F
    <3>3. Apart(t, x.s, c) /\ x.s.web[c].flags = F  BY <1>9, <3>2, FlaggedIs
    <3> QED  BY <3>1, <3>3
  <2>4. Apart(s, x.s, c)  BY <1>11, <2>3, ApartOn
  <2>5. k - 1 + n = m  BY <1>6, <1>8, <1>13
  <2> QED  BY <1>6, <1>7, <1>12, <2>3, <2>4, <2>5, Zenon DEF Copied, x, m
<1>14. CASE ~(n < room \/ short)
  <2>1. x.s = t  BY <1>2, <1>14 DEF Says
  <2> QED  BY <1>6, <1>7, <1>9, <1>10, <1>11, <1>12, <2>1, Zenon DEF Copied, x, m
<1> QED  BY <1>13, <1>14

\* What is read depends on the files, the flags and the callback only.
LEMMA ReadingSame ==
  ASSUME NEW s, NEW t, NEW c, Reading(s, c), t.fs = s.fs, t.web[c].flags = s.web[c].flags,
         SameFiles(s.web[c], t.web[c])
  PROVE  Reading(t, c)
  BY Zenon DEF Reading, SameFiles

\* What was read of a parsed page is sent.
LEMMA SentReads ==
  ASSUME NEW s, Good(s), NEW c \in Conns, Sending(s, c), ~Copying(s, c), NEW room,
         NEW x, FillsOn(s, x, c, room), x.s.web[c].flight + Len(x.out) <= SndBuf,
         NEW t, t = SendBody(x.s, c, x.out, room)
  PROVE  Pends(s, t, c)
<1> DEFINE a == x.s
           o == x.out
           w == s.web[c]
           v == a.web[c]
           z == t.web[c]
<1>1. /\ Good(a) /\ Reads(s, a, c) /\ o \in Seq(Outs) /\ Apart(s, a, c)
      /\ Runs(a, c) \/ Stops(a, o, c)
  BY DEF FillsOn, Filling, Fills, Steps
<1>2. /\ v.mode = w.mode /\ v.length = w.length /\ v.body = w.body /\ v.ended = w.ended
      /\ "CHUNKED" \in v.flags <=> "CHUNKED" \in w.flags
      /\ "CLOSED" \in v.flags <=> "CLOSED" \in w.flags
  <2>1. {"CHUNKED", "CLOSED"} \subseteq Flags \ Moving  BY DEF Flags, Moving
  <2> QED  BY <1>1, <2>1 DEF Reads, Kept
<1>3. /\ "CLOSED" \notin w.flags /\ ~w.ended
      /\ \/ w.mode = "chunked" /\ "CHUNKED" \in w.flags
         \/ w.mode = "close" /\ "CHUNKED" \notin w.flags
  BY DEF Sending
<1> HIDE DEF a, o
<1>4. /\ Sent(a, t, c, o)
      /\ z.ended = (v.ended \/ ({"CHUNKED", "FCLOSE"} \subseteq v.flags /\ o # <<>>))
  BY <1>1, SendBodySent DEF a, o
<1>5. Apart(s, t, c)  BY <1>1, <1>4, ApartOn DEF Sent
<1>6. /\ z.flags = v.flags /\ z.mode = w.mode  BY <1>2, <1>4 DEF Sent
<1>7. CASE Runs(a, c)
  <2>1. Reading(a, c) /\ "FCLOSE" \notin v.flags /\ "DISCONNECT" \notin v.flags  BY <1>7 DEF Runs
  <2>2. Reading(t, c)  BY <1>4, <2>1, ReadingSame DEF Sent
  <2>3. "FOPEN" \in v.flags  BY <2>1, Zenon DEF Reading
  <2>4. ~z.ended  BY <1>2, <1>3, <1>4, <2>1
  <2> HIDE DEF v, z, w
  <2>5. Sending(t, c)  BY <1>2, <1>3, <1>6, <2>1, <2>2, <2>3, <2>4 DEF Sending, z
  <2> QED  BY <1>5, <2>5 DEF Pends
<1>8. CASE Stops(a, o, c)
  <2>1. {"FCLOSE", "DISCONNECT"} \subseteq v.flags /\ o # <<>>  BY <1>8 DEF Stops
  <2>2. z.ended <=> "CHUNKED" \in w.flags
    BY <1>2, <1>3, <1>4, <2>1
  <2> HIDE DEF v, z, w
  <2>3. Over(z)  BY <1>2, <1>3, <1>6, <2>1, <2>2 DEF Over, Framing
  <2> QED  BY <1>5, <2>3 DEF Pends, z
<1> QED  BY <1>1, <1>7, <1>8

\* What was read of a file that is not parsed is sent.
LEMMA SentCopies ==
  ASSUME NEW s, Good(s), NEW c \in Conns, Sending(s, c), Copying(s, c),
         s.web[c].files[1] # Builtin, NEW room,
         NEW x, Fills(s, x, c, room), Copied(s, x, c), x.s.web[c].flight + Len(x.out) <= SndBuf,
         NEW t, t = SendBody(x.s, c, x.out, room)
  PROVE  Pends(s, t, c)
<1> DEFINE a == x.s
           o == x.out
           w == s.web[c]
           v == a.web[c]
           z == t.web[c]
           h == w.files[1]
           e == s.fs.table[h]
           n == Len(o)
           m == Size(e.page)
<1>1. Good(a) /\ Reads(s, a, c) /\ o \in Seq(Outs)  BY DEF Fills
<1>2. v.mode = w.mode /\ v.length = w.length /\ v.body = w.body /\ v.ended = w.ended
  BY <1>1 DEF Reads, Kept
<1>3. /\ Apart(s, a, c) /\ n \in Nat /\ e.pos - 1 + n <= m
      /\ \/ {"FCLOSE", "DISCONNECT"} \subseteq v.flags /\ e.pos - 1 + n = m
         \/ a.web = s.web /\ a.fs.table[h] = [page |-> e.page, pos |-> e.pos + n]
  BY Zenon DEF Copied
<1>4. /\ Len(w.files) = 1 /\ {"FCALBACK", "RETRYCB"} \cap w.flags = {} /\ w.mode = "length"
      /\ ~Pages[e.page].parsed /\ w.length = m /\ Len(w.body) = e.pos - 1
  BY Zenon DEF Copying
<1>5. e.pos \in Nat /\ m \in Nat  BY CopyingIs, Zenon
<1>6. {"CLOSED", "DISCONNECT", "FCLOSE"} \cap w.flags = {} /\ "FOPEN" \in w.flags /\ ~w.ended
  BY DEF Sending
<1> HIDE DEF a, o, n, m
<1>7. /\ Sent(a, t, c, o)
      /\ z.ended = (v.ended \/ ({"CHUNKED", "FCLOSE"} \subseteq v.flags /\ o # <<>>))
  BY <1>1, SendBodySent DEF a, o
<1>8. Apart(s, t, c) /\ t.fs = a.fs /\ z.flags = v.flags /\ z.files = v.files
  BY <1>3, <1>7, ApartOn, Zenon DEF Sent, SameFiles
<1>9. z.mode = "length" /\ z.length = m /\ Len(z.body) = e.pos - 1 + n
  BY <1>2, <1>4, <1>7, Zenon DEF Sent, n
<1>10. CASE {"FCLOSE", "DISCONNECT"} \subseteq v.flags /\ e.pos - 1 + n = m
  <2>1. z.ended => "CHUNKED" \in v.flags  BY <1>2, <1>6, <1>7
  <2>2. Len(z.body) = z.length  BY <1>9, <1>10
  <2>3. z.length \in Nat  BY <1>5, <1>9
  <2> HIDE DEF z, v
  <2>4. Over(z)  BY <1>8, <1>9, <1>10, <2>1, <2>2, <2>3 DEF Over, Framing
  <2> QED  BY <1>8, <2>4 DEF Pends, z
<1>11. CASE a.web = s.web /\ a.fs.table[h] = [page |-> e.page, pos |-> e.pos + n]
  <2>1. v = w  BY <1>11
  <2>2. z.flags = w.flags /\ z.files = w.files /\ ~z.ended  BY <1>6, <1>7, <1>8, <2>1
  <2>3. t.fs.table[h].page = e.page /\ t.fs.table[h].pos = e.pos + n  BY <1>8, <1>11
  <2>4. Len(z.body) = (e.pos + n) - 1 /\ e.pos + n <= m + 1
    <3> DEFINE b == Len(z.body)
               k == e.pos
    <3>1. k \in Nat /\ m \in Nat /\ n \in Nat /\ k - 1 + n <= m /\ b = k - 1 + n
      BY <1>3, <1>5, <1>9, Zenon
    <3> HIDE DEF b, k
    <3>2. b = (k + n) - 1 /\ k + n <= m + 1  BY <3>1
    <3> QED  BY <3>2 DEF b, k
  <2> HIDE DEF z
  <2>5. Copying(t, c)
    <3> DEFINE q == z.files
               f == t.fs.table[q[1]]
    <3>1. q[1] = h /\ h # Builtin /\ Len(q) = 1 /\ f.page = e.page /\ f.pos = e.pos + n
      BY <1>4, <2>2, <2>3, Zenon
    <3> HIDE DEF h, q, f
    <3> DEFINE k == e.pos
    <3> HIDE DEF e, k
    <3>2. q[1] # Builtin /\ {"FCALBACK", "RETRYCB"} \cap z.flags = {} /\ z.mode = "length"
          /\ ~Pages[f.page].parsed /\ z.length = Size(f.page) /\ Len(z.body) = f.pos - 1
          /\ f.pos <= z.length + 1
      BY <1>4, <1>9, <2>2, <2>4, <3>1 DEF m, k
    <3> QED  BY <3>1, <3>2, Zenon DEF Copying, z, q, f
  <2>6. Sending(t, c)  BY <1>6, <2>2, <2>5 DEF Sending, z
  <2> QED  BY <1>8, <2>6 DEF Pends
<1> QED  BY <1>3, <1>10, <1>11, Zenon

\* A connection that sends: it copies what is not parsed, and reads what is.
LEMMA SendingIs ==
  ASSUME NEW s, Good(s), NEW c \in Conns, Sending(s, c)
  PROVE  LET w == s.web[c]
         IN  /\ w.files # <<>> /\ Head(w.files) = w.files[1] /\ ~w.ended
             /\ w.mode = "length" => Len(w.body) <= w.length
             /\ IF "FCALBACK" \in w.flags THEN Runs(s, c) /\ ~Copying(s, c) /\ w.files[1] # Builtin
                ELSE Copying(s, c)
<1> DEFINE w == s.web[c]
           q == w.files
<1>1. q \in Seq(Handles) /\ Len(q) \in Nat /\ (q # <<>> => Len(q) > 0 /\ Head(q) = q[1])
  BY FilesAre
<1>2. w \in Web  BY PutIs
<1>3. ~w.ended /\ {"DISCONNECT", "FCLOSE"} \cap w.flags = {}  BY DEF Sending
<1>4. CASE Copying(s, c)
  <2>1. Len(q) = 1 /\ "FCALBACK" \notin w.flags  BY <1>4, Zenon DEF Copying
  <2>2. q # <<>>
    <3> HIDE DEF q
    <3> QED  BY <1>1, <2>1, OneFile
  <2>3. Len(w.body) <= w.length
    <3>1. CASE q[1] = Builtin
      <4>1. w.body = <<>> /\ w.length = 1  BY <1>4, <3>1 DEF Copying
      <4>2. Len(w.body) = 0  BY <4>1, OneOut
      <4> QED  BY <4>1, <4>2
    <3>2. CASE q[1] # Builtin
      <4> DEFINE e == s.fs.table[q[1]]
                 k == e.pos
                 b == Len(w.body)
                 l == w.length
      <4>1. b = k - 1 /\ k <= l + 1  BY <1>4, <3>2, Zenon DEF Copying
      <4>2. k \in Nat  BY <1>4, <3>2, CopyingIs, Zenon
      <4>3. l \in Nat  BY <1>2, WebIs
      <4> HIDE DEF k, b, l
      <4>4. b <= l  BY <4>1, <4>2, <4>3
      <4> QED  BY <4>4 DEF b, l
    <3> QED  BY <3>1, <3>2
  <2> QED  BY <1>1, <1>3, <1>4, <2>1, <2>2, <2>3
<1>5. CASE ~Copying(s, c)
  <2>1. Reading(s, c) /\ w.mode # "length"  BY <1>5 DEF Sending
  <2>2. q # <<>> /\ "FCALBACK" \in w.flags /\ Stacked(q, s.fs.table)  BY <2>1, Zenon DEF Reading
  <2>3. 1 \in 1 .. Len(q)  BY <1>1, <2>2
  <2>4. q[1] # Builtin  BY <2>2, <2>3 DEF Stacked
  <2> QED  BY <1>1, <1>3, <1>5, <2>1, <2>2, <2>4 DEF Runs
<1> QED  BY <1>4, <1>5

\* The one read of a page that is no file
LEMMA FixedPends ==
  ASSUME NEW s, Good(s), NEW c \in Conns, Sending(s, c), Copying(s, c),
         s.web[c].files[1] = Builtin, NEW t, t = Quit(Send(s, c, <<Fixed>>), c),
         s.web[c].flight + 1 <= SndBuf
  PROVE  Pends(s, t, c)
<1> DEFINE o == <<Fixed>>
           y == Send(s, c, o)
           w == s.web[c]
           v == y.web[c]
           z == t.web[c]
<1>1. o \in Seq(Outs) /\ Len(o) = 1  BY OneOut
<1>2. w.body = <<>> /\ w.length = 1 /\ w.mode = "length"  BY DEF Copying
<1>3. Len(w.body) = 0  BY <1>2, OneOut
<1>4. ~w.ended  BY DEF Sending
<1> HIDE DEF o
<1>5. Sent(s, y, c, o) /\ v.ended = w.ended  BY <1>1, SendSent
<1>6. Good(y)  BY <1>1, SendGood
<1>7. t = Quit(y, c)  BY DEF o
<1> HIDE DEF y
<1>8. Flagged(y, t, c, v.flags \cup {"FCLOSE", "DISCONNECT"})  BY <1>6, <1>7, QuitGood
<1> DEFINE F == v.flags \cup {"FCLOSE", "DISCONNECT"}
<1>9. "DISCONNECT" \in F  OBVIOUS
<1> HIDE DEF F
<1>10. Apart(y, t, c) /\ SameBody(v, z) /\ z.flags = F  BY <1>6, <1>8, FlaggedIs DEF F
<1>11. Apart(s, t, c)  BY <1>5, <1>10, ApartOn DEF Sent
<1>12. z.mode = "length" /\ z.length = 1 /\ ~z.ended /\ Len(z.body) = 1
  BY <1>1, <1>2, <1>3, <1>4, <1>5, <1>10 DEF SameBody, Sent
<1> HIDE DEF z
<1>13. Over(z)  BY <1>9, <1>10, <1>12 DEF Over, Framing
<1> QED  BY <1>11, <1>13 DEF Pends, z

\* A page that was given up
LEMMA GivenUpPends ==
  ASSUME NEW s, Good(s), NEW c \in Conns,
         s.web[c].mode = "length" => Len(s.web[c].body) <= s.web[c].length, ~s.web[c].ended,
         NEW t, t = GivenUp(s, c)
  PROVE  Pends(s, t, c)
<1> DEFINE z == t.web[c]
<1>1. /\ Apart(s, t, c) /\ z.cut
      /\ z.flags = s.web[c].flags \cup {"FCLOSE", "DISCONNECT"}
      /\ z.mode = s.web[c].mode /\ z.length = s.web[c].length /\ z.body = s.web[c].body
      /\ z.ended = s.web[c].ended
  BY GivenUpIs
<1> HIDE DEF z
<1>2. Over(z)  BY <1>1 DEF Over, Framing
<1> QED  BY <1>1, <1>2 DEF Pends, z

\* webserver_send_fdata: the page goes on, or is over with what the header said.
LEMMA SendFdataPends ==
  ASSUME DiskOk, NEW s, Good(s), NEW c \in Conns, Sending(s, c), NEW t \in SendFdata(s, c)
  PROVE  Pends(s, t, c)
<1> DEFINE w == s.web[c]
           room == Room(s, c)
           x == IF Has(s, c, "FCALBACK") THEN Filled(s, c, room) ELSE Plain(s, c, room)
           b == SendBody(x.s, c, x.out, room)
<1>0. /\ w.files # <<>> /\ Head(w.files) = w.files[1] /\ ~w.ended
      /\ w.mode = "length" => Len(w.body) <= w.length
      /\ IF "FCALBACK" \in w.flags THEN Runs(s, c) /\ ~Copying(s, c) /\ w.files[1] # Builtin
         ELSE Copying(s, c)
  BY SendingIs
<1>1. \/ t = s
      \/ /\ ~(SndBuf - w.flight < MinSend)
         /\ \/ w.files[1] = Builtin /\ t = Quit(Send(s, c, <<Fixed>>), c)
            \/ ~(w.files[1] = Builtin /\ "RETRYCB" \notin w.flags) /\ (t = GivenUp(s, c) \/ t = b)
  BY <1>0 DEF SendFdata, GivenUp, Has
<1> HIDE DEF x, b, room
<1>2. w.flight \in Nat /\ w.flight <= SndBuf  BY PutIs, WebIs DEF Fit
<1>3. CASE t = s  BY <1>3 DEF Pends, Apart
<1>4. CASE t = GivenUp(s, c)  BY <1>0, <1>4, GivenUpPends
<1>5. CASE ~(SndBuf - w.flight < MinSend) /\ w.files[1] = Builtin
           /\ t = Quit(Send(s, c, <<Fixed>>), c)
  <2>1. w.flight + 1 <= SndBuf  BY <1>2, <1>5, Constants
  <2>2. Copying(s, c)  BY <1>0, <1>5
  <2> QED  BY <1>5, <2>1, <2>2, FixedPends
<1>6. CASE /\ ~(SndBuf - w.flight < MinSend) /\ t = b
           /\ ~(w.files[1] = Builtin /\ "RETRYCB" \notin w.flags)
  <2>1. room \in Nat \ {0} /\ w.flight + room <= SndBuf
    <3>1. room = IF SndBuf - w.flight < MaxSend THEN SndBuf - w.flight ELSE MaxSend
      BY DEF room, Room
    <3> DEFINE f == w.flight
    <3>2. f \in Nat /\ f <= SndBuf /\ ~(SndBuf - f < MinSend)
          /\ room = IF SndBuf - f < MaxSend THEN SndBuf - f ELSE MaxSend
      BY <1>2, <1>6, <3>1
    <3> HIDE DEF f
    <3>3. room \in Nat \ {0} /\ f + room <= SndBuf  BY <3>2, Constants
    <3> QED  BY <3>3 DEF f
  <2>2. w.files[1] # Builtin
    <3>1. Copying(s, c) => "RETRYCB" \notin w.flags  BY Zenon DEF Copying
    <3> QED  BY <1>0, <1>6, <3>1
  <2>3. /\ Fills(s, x, c, room)
        /\ "FCALBACK" \in w.flags => FillsOn(s, x, c, room)
        /\ "FCALBACK" \notin w.flags => Copied(s, x, c)
    <3>1. CASE "FCALBACK" \in w.flags
      <4>1. x = Filled(s, c, room)  BY <3>1 DEF x, Has
      <4>2. FillsOn(s, x, c, room)  BY <1>0, <2>1, <3>1, <4>1, FilledSteps
      <4> QED  BY <3>1, <4>2 DEF FillsOn, Filling
    <3>2. CASE "FCALBACK" \notin w.flags
      <4>1. x = Plain(s, c, room)  BY <3>2 DEF x, Has
      <4>2. Fills(s, x, c, room)  BY <2>1, <4>1, PlainGood
      <4>3. Copied(s, x, c)  BY <1>0, <2>1, <2>2, <3>2, <4>1, PlainCopies
      <4> QED  BY <3>2, <4>2, <4>3
    <3> QED  BY <3>1, <3>2
  <2>4. x.s.web[c].flight + Len(x.out) <= SndBuf
    <3>1. Reads(s, x.s, c) /\ x.out \in Seq(Outs) /\ Len(x.out) <= room  BY <2>3 DEF Fills
    <3>2. x.s.web[c].flight = w.flight  BY <3>1 DEF Reads, Kept
    <3>3. Len(x.out) \in Nat  BY <3>1, LenProperties
    <3> QED  BY <1>2, <2>1, <3>1, <3>2, <3>3, Constants
  <2>5. t = SendBody(x.s, c, x.out, room)  BY <1>6 DEF b
  <2> QED  BY <1>0, <2>2, <2>3, <2>4, <2>5, SentReads, SentCopies
<1> QED  BY <1>1, <1>3, <1>4, <1>5, <1>6

(***************************************************************************)
(* The end of a connection                                                 *)
(***************************************************************************)
\* A connection that is closed, and what the end of a callback leaves
Done(w) == "CLOSED" \in w.flags /\ Framing(w)
Result(s, u, c) ==
  LET v == u.web[c]
  IN Apart(s, u, c) /\ (v = NewWeb \/ (v.rxnull /\ (Sending(u, c) \/ Done(v))))

\* What is said of the body depends on little.
LEMMA FramingSame ==
  ASSUME NEW w, Framing(w), NEW v, SameBody(w, v),
         {"FCLOSE", "CHUNKED"} \subseteq w.flags => {"FCLOSE", "CHUNKED"} \subseteq v.flags
  PROVE  Framing(v)
  BY DEF Framing, SameBody

\* Close_web_conn
LEMMA CloseFilesApart ==
  ASSUME NEW s, Good(s), NEW c \in Conns
  PROVE  LET t == CloseFiles(s, c)
         IN  /\ Good(t) /\ Apart(s, t, c) /\ SameBody(s.web[c], t.web[c])
             /\ t.web[c].flags = s.web[c].flags \ {"FOPEN", "FCALBACK"}
<1> DEFINE t == CloseFiles(s, c)
<1>1. /\ Good(t) /\ Reads(s, t, c) /\ t.web[c].flags = s.web[c].flags \ {"FOPEN", "FCALBACK"}
      /\ \A g \in 1 .. MaxOpen :
           t.fs.table[g] = s.fs.table[g] \/ Holding(s.web[c].files, g)
  BY CloseFilesGood
<1> HIDE DEF t
<1>2. Touches(s, t, c)  BY <1>1 DEF Touches
<1>3. \A d \in Conns : d # c => t.web[d] = s.web[d]  BY <1>1 DEF Reads
<1>4. Apart(s, t, c)  BY <1>2, <1>3, ApartTouch
<1>5. SameBody(s.web[c], t.web[c])  BY <1>1 DEF Reads, Kept, SameBody
<1> QED  BY <1>1, <1>4, <1>5 DEF t

\* webserver_disconnect
LEMMA GoneApart ==
  ASSUME NEW s, Good(s), NEW c \in Conns
  PROVE  Apart(s, Gone(s, c), c) /\ Gone(s, c).web[c] = NewWeb
<1> DEFINE y == CloseFiles(s, c)
           t == Gone(s, c)
<1>1. Good(y) /\ Apart(s, y, c)  BY CloseFilesApart
<1>2. t = [y EXCEPT !.web[c] = NewWeb]  BY DEF Gone
<1> HIDE DEF y, t
<1>3. Puts(y, t, c, NewWeb)  BY <1>2 DEF Puts
<1>4. Becomes(y, t, c, NewWeb)  BY <1>1, <1>3, PutsBecomes
<1>5. Apart(y, t, c)  BY <1>4, BecomesApart
<1> QED  BY <1>1, <1>4, <1>5, ApartOn DEF Becomes, t

\* A connection without callbacks
LEMMA MutedIs ==
  ASSUME NEW s, Good(s), NEW c \in Conns
  PROVE  LET t == Muted(s, c)
         IN  /\ Good(t) /\ Apart(s, t, c) /\ SameBody(s.web[c], t.web[c])
             /\ t.web[c].flags = s.web[c].flags /\ t.web[c].rxnull
<1> DEFINE w == s.web[c]
           v == [w EXCEPT !.txnull = TRUE, !.rxnull = TRUE]
           t == Muted(s, c)
<1>1. s \in States /\ w \in Web  BY PutIs
<1>2. Puts(s, t, c, v)  BY <1>1 DEF Muted, States, Puts
<1>3. Good(t)  BY MutedGood
<1>4. SameBody(w, v) /\ v.flags = w.flags /\ v.rxnull  BY <1>1 DEF Web, SameBody
<1> HIDE DEF t, v
<1>5. Becomes(s, t, c, v)  BY <1>2, PutsBecomes
<1>6. Apart(s, t, c) /\ t.web[c] = v  BY <1>5, BecomesApart DEF Becomes
<1> QED  BY <1>3, <1>4, <1>6 DEF t

\* web_int_disconnect
LEMMA IntDisconnectDone ==
  ASSUME NEW s, Good(s), NEW c \in Conns, Framing(s.web[c]), NEW u \in IntDisconnect(s, c)
  PROVE  Result(s, u, c)
<1> DEFINE m == Muted(s, c)
           t == Set(m, c, {"CLOSED"})
           F == m.web[c].flags \cup {"CLOSED"}
           v == t.web[c]
<1>1. u = t \/ u = Gone(t, c)  BY DEF IntDisconnect, Muted
<1>2. /\ Good(m) /\ Apart(s, m, c) /\ SameBody(s.web[c], m.web[c])
      /\ m.web[c].flags = s.web[c].flags /\ m.web[c].rxnull
  BY MutedIs
<1> HIDE DEF m
<1>3. Flagged(m, t, c, F)
  <2>1. {"CLOSED"} \in SUBSET Flags /\ "RETRYCB" \notin {"CLOSED"}  BY DEF Flags
  <2> QED  BY <1>2, <2>1, SetGood
<1> HIDE DEF t
<1>4. "CLOSED" \in F /\ s.web[c].flags \subseteq F  BY <1>2
<1> HIDE DEF F
<1>5. Good(t) /\ Apart(m, t, c) /\ SameBody(m.web[c], v) /\ v.flags = F /\ v.rxnull
  BY <1>2, <1>3, FlaggedIs DEF Flagged, SameFiles
<1>6. Apart(s, t, c)  BY <1>2, <1>5, ApartOn
<1>7. SameBody(s.web[c], v)  BY <1>2, <1>5 DEF SameBody
<1> HIDE DEF v
<1>8. Done(v)  BY <1>4, <1>5, <1>7, FramingSame DEF Done
<1>9. CASE u = t  BY <1>5, <1>6, <1>8, <1>9 DEF Result, v
<1>10. CASE u = Gone(t, c)
  <2>1. Apart(t, u, c) /\ u.web[c] = NewWeb  BY <1>5, <1>10, GoneApart
  <2> QED  BY <1>6, <2>1, ApartOn DEF Result
<1> QED  BY <1>1, <1>9, <1>10

\* webserver_received_data and webserver_sent_callback, the end
LEMMA AfterSendResult ==
  ASSUME NEW s, Good(s), NEW c \in Conns, s.web[c].rxnull,
         Sending(s, c) \/ Over(s.web[c]), NEW u \in AfterSend(s, c)
  PROVE  Result(s, u, c)
<1>1. CASE "FCLOSE" \in s.web[c].flags
  <2> DEFINE y == CloseFiles(s, c)
             t == Set(y, c, {"DISCONNECT"})
             F == y.web[c].flags \cup {"DISCONNECT"}
             v == t.web[c]
  <2>1. /\ Good(y) /\ Apart(s, y, c) /\ SameBody(s.web[c], y.web[c])
        /\ y.web[c].flags = s.web[c].flags \ {"FOPEN", "FCALBACK"}
    BY CloseFilesApart
  <2>2. t.web[c].flags = F /\ Flagged(y, t, c, F)
    <3>1. {"DISCONNECT"} \in SUBSET Flags /\ "RETRYCB" \notin {"DISCONNECT"}  BY DEF Flags
    <3> HIDE DEF y
    <3>2. Flagged(y, t, c, F)  BY <2>1, <3>1, SetGood
    <3> HIDE DEF t, F
    <3> QED  BY <2>1, <3>2, FlaggedIs
  <2>3. u \in IntDisconnect(t, c)
    <3>1. "DISCONNECT" \in F  OBVIOUS
    <3>2. Has(t, c, "DISCONNECT")  BY <2>2, <3>1 DEF Has
    <3> HIDE DEF F
    <3> QED  BY <1>1, <3>2 DEF AfterSend, Has
  <2>4. {"FCLOSE", "CHUNKED"} \cap s.web[c].flags \subseteq F  BY <2>1
  <2> HIDE DEF y, t, F
  <2>5. Good(t) /\ Apart(y, t, c) /\ SameBody(y.web[c], v)  BY <2>1, <2>2, FlaggedIs DEF Flagged
  <2>6. Apart(s, t, c) /\ SameBody(s.web[c], v)  BY <2>1, <2>5, ApartOn DEF SameBody
  <2>7. Framing(s.web[c])
    <3>1. ~Sending(s, c)  BY <1>1 DEF Sending
    <3> QED  BY <3>1 DEF Over
  <2>8. Framing(v)  BY <2>2, <2>4, <2>6, <2>7, FramingSame
  <2>9. Result(t, u, c)  BY <2>3, <2>5, <2>8, IntDisconnectDone
  <2> QED  BY <2>6, <2>9, ApartOn DEF Result
<1>2. CASE "FCLOSE" \notin s.web[c].flags
  <2>1. CASE "DISCONNECT" \in s.web[c].flags
    <3>1. u \in IntDisconnect(s, c)  BY <1>2, <2>1 DEF AfterSend, Has
    <3>2. ~Sending(s, c)  BY <2>1 DEF Sending
    <3> QED  BY <3>1, <3>2, IntDisconnectDone DEF Over
  <2>2. CASE "DISCONNECT" \notin s.web[c].flags
    <3>1. u = s  BY <1>2, <2>2 DEF AfterSend, Has
    <3>2. Sending(s, c)  BY <2>2 DEF Over
    <3> QED  BY <3>1, <3>2 DEF Result, Apart
  <2> QED  BY <2>1, <2>2
<1> QED  BY <1>1, <1>2

\* webserver_sent_callback
LEMMA SentCallbackResult ==
  ASSUME DiskOk, NEW s, Good(s), NEW c \in Conns, s.web[c].rxnull,
         Sending(s, c) \/ Done(s.web[c]), NEW u \in SentCallback(s, c)
  PROVE  Result(s, u, c)
<1>1. CASE "CLOSED" \in s.web[c].flags
  <2>1. u = Muted(s, c)  BY <1>1 DEF SentCallback, Muted, Has
  <2>2. Done(s.web[c])  BY <1>1 DEF Sending
  <2>3. /\ Apart(s, u, c) /\ SameBody(s.web[c], u.web[c])
        /\ u.web[c].flags = s.web[c].flags /\ u.web[c].rxnull
    BY <2>1, MutedIs
  <2>4. Done(u.web[c])  BY <2>2, <2>3, FramingSame DEF Done
  <2> QED  BY <2>3, <2>4 DEF Result
<1>2. CASE "CLOSED" \notin s.web[c].flags
  <2>1. Sending(s, c)  BY <1>2 DEF Done
  <2>2. {"DISCONNECT", "FCLOSE"} \cap s.web[c].flags = {} /\ "FOPEN" \in s.web[c].flags
    BY <2>1 DEF Sending
  <2>3. PICK t \in SendFdata(s, c) : u \in AfterSend(t, c)
    BY <1>2, <2>2 DEF SentCallback, Has, HasAny
  <2>4. Good(t) /\ t.web[c].rxnull  BY SendFdataGood DEF Talks
  <2>5. Pends(s, t, c)  BY <2>1, SendFdataPends
  <2>6. Result(t, u, c)  BY <2>3, <2>4, <2>5, AfterSendResult DEF Pends
  <2> QED  BY <2>5, <2>6, ApartOn DEF Pends, Result
<1> QED  BY <1>1, <1>2

(***************************************************************************)
(* The header of the answer                                                *)
(***************************************************************************)
\* The connection v is like w in all that the length of a body depends on, and t like s.
SameWeb(w, v) ==
  /\ v.flags = w.flags /\ v.files = w.files /\ v.cb = w.cb /\ v.len = w.len /\ v.req = w.req
  /\ SameBody(w, v)
Same(s, t, c) == Apart(s, t, c) /\ t.fs = s.fs /\ SameWeb(s.web[c], t.web[c])

\* So it is when such a connection is put in place of another.
LEMMA PutsSame ==
  ASSUME NEW s, Good(s), NEW c \in Conns, NEW v, SameWeb(s.web[c], v), NEW t, Puts(s, t, c, v)
  PROVE  Same(s, t, c) /\ t.web[c] = v
<1>1. Becomes(s, t, c, v)  BY PutsBecomes
<1>2. Apart(s, t, c)  BY <1>1, BecomesApart
<1> QED  BY <1>1, <1>2 DEF Becomes, Same

\* Then a connection goes on sending, or is over.
LEMMA SameSending ==
  ASSUME NEW s, NEW t, NEW c, Same(s, t, c)
  PROVE  /\ Sending(s, c) => Sending(t, c)
         /\ Over(s.web[c]) => Over(t.web[c])
<1>1. Reading(s, c) => Reading(t, c)  BY Zenon DEF Same, SameWeb, Reading
<1>2. Copying(s, c) => Copying(t, c)  BY Zenon DEF Same, SameWeb, SameBody, Copying
<1>3. Sending(s, c) => Sending(t, c)  BY <1>1, <1>2 DEF Same, SameWeb, SameBody, Sending
<1>4. Over(s.web[c]) => Over(t.web[c])  BY DEF Same, SameWeb, SameBody, Over, Framing
<1> QED  BY <1>3, <1>4

\* What a piece of the send buffer, a page or a callback says nothing of
LEMMA FlightSame ==
  ASSUME NEW s, Good(s), NEW c \in Conns
  PROVE  /\ \A n : Same(s, [s EXCEPT !.web[c].flight = n], c)
         /\ \A p : Same(s, [s EXCEPT !.web[c].page = p], c)
         /\ Same(s, Bye(s, c), c) /\ Same(s, Unheard(s, c), c)
<1> DEFINE w == s.web[c]
<1>1. s \in States /\ w \in Web  BY PutIs
<1>2. ASSUME NEW n  PROVE Same(s, [s EXCEPT !.web[c].flight = n], c)
  <2> DEFINE v == [w EXCEPT !.flight = n]
             t == [s EXCEPT !.web[c].flight = n]
  <2>1. Puts(s, t, c, v)  BY <1>1 DEF States, Puts
  <2>2. SameWeb(w, v)  BY <1>1 DEF Web, SameWeb, SameBody
  <2> HIDE DEF t, v
  <2>3. Same(s, t, c)  BY <2>1, <2>2, PutsSame
  <2> QED  BY <2>3 DEF t
<1>3. ASSUME NEW p  PROVE Same(s, [s EXCEPT !.web[c].page = p], c)
  <2> DEFINE v == [w EXCEPT !.page = p]
             t == [s EXCEPT !.web[c].page = p]
  <2>1. Puts(s, t, c, v)  BY <1>1 DEF States, Puts
  <2>2. SameWeb(w, v)  BY <1>1 DEF Web, SameWeb, SameBody
  <2> HIDE DEF t, v
  <2>3. Same(s, t, c)  BY <2>1, <2>2, PutsSame
  <2> QED  BY <2>3 DEF t
<1>4. Same(s, Bye(s, c), c)
  <2> DEFINE v == [w EXCEPT !.bye = TRUE, !.page = NoPage]
             t == Bye(s, c)
  <2>1. Puts(s, t, c, v)  BY <1>1 DEF Bye, States, Puts
  <2>2. SameWeb(w, v)  BY <1>1 DEF Web, SameWeb, SameBody
  <2> HIDE DEF t, v
  <2>3. Same(s, t, c)  BY <2>1, <2>2, PutsSame
  <2> QED  BY <2>3 DEF t
<1>5. Same(s, Unheard(s, c), c)
  <2> DEFINE v == [w EXCEPT !.rxnull = TRUE]
             t == Unheard(s, c)
  <2>1. Puts(s, t, c, v)  BY <1>1 DEF Unheard, States, Puts
  <2>2. SameWeb(w, v)  BY <1>1 DEF Web, SameWeb, SameBody
  <2> HIDE DEF t, v
  <2>3. Same(s, t, c)  BY <2>1, <2>2, PutsSame
  <2> QED  BY <2>3 DEF t
<1> QED  BY <1>2, <1>3, <1>4, <1>5

\* t is s with the header that says this of the body.
Answered(s, t, c, mode, length) ==
  LET w == s.web[c]
      v == t.web[c]
  IN  /\ Apart(s, t, c) /\ t.fs = s.fs /\ SameFiles(w, v) /\ v.flags = w.flags
      /\ v.mode = mode /\ v.length = length
      /\ v.body = w.body /\ v.ended = w.ended /\ v.cut = w.cut

\* It is.
LEMMA AnswersIs ==
  ASSUME NEW s, Good(s), NEW c \in Conns, NEW mode, NEW length
  PROVE  Answered(s, Answers(s, c, mode, length), c, mode, length)
<1> DEFINE w == s.web[c]
           v == [w EXCEPT !.mode = mode, !.length = length]
           t == Answers(s, c, mode, length)
<1>1. s \in States /\ w \in Web  BY PutIs
<1>2. Puts(s, t, c, v)  BY <1>1 DEF Answers, States, Puts
<1>3. /\ SameFiles(w, v) /\ v.flags = w.flags /\ v.mode = mode /\ v.length = length
      /\ v.body = w.body /\ v.ended = w.ended /\ v.cut = w.cut
  BY <1>1 DEF Web, SameFiles
<1> HIDE DEF t, v
<1>4. Becomes(s, t, c, v)  BY <1>2, PutsBecomes
<1>5. Apart(s, t, c) /\ t.fs = s.fs /\ t.web[c] = v  BY <1>4, BecomesApart DEF Becomes
<1> QED  BY <1>3, <1>5 DEF Answered, t

\* With other flags after that, the answer is over.
LEMMA AnsweredOver ==
  ASSUME NEW s, NEW y, Good(y), NEW c \in Conns, NEW mode, NEW length,
         Answered(s, y, c, mode, length), ~s.web[c].ended,
         \/ mode \in {"none", "cut"}
         \/ mode = "length" /\ Len(s.web[c].body) = length /\ length \in Nat,
         NEW t, NEW F, Flagged(y, t, c, F), "DISCONNECT" \in F
  PROVE  Pends(s, t, c)
<1> DEFINE z == t.web[c]
<1>1. Apart(y, t, c) /\ SameBody(y.web[c], z) /\ z.flags = F  BY FlaggedIs
<1>2. Apart(s, t, c)  BY <1>1, ApartOn DEF Answered
<1>3. z.mode = mode /\ z.length = length /\ z.body = s.web[c].body /\ ~z.ended
  BY <1>1 DEF Answered, SameBody
<1> HIDE DEF z
<1>4. Over(z)  BY <1>1, <1>3 DEF Over, Framing
<1> QED  BY <1>2, <1>4 DEF Pends, z

\* A connection whose answer has not been announced, and one whose page is open and has not
\* been read
Blank(w) ==
  /\ w.mode = "none" /\ ~w.ended /\ w.body = <<>>
  /\ {"CLOSED", "FCLOSE", "CHUNKED", "RETRYCB", "FINDCB"} \cap w.flags = {}
Ready(s, c) ==
  LET w == s.web[c]
      q == w.files
      e == s.fs.table[q[1]]
  IN  /\ "DISCONNECT" \notin w.flags /\ Len(q) = 1
      /\ q[1] = Builtin => "FCALBACK" \notin w.flags /\ w.len = 1
      /\ q[1] # Builtin => /\ e.pos = 1 /\ Ends(e.page)
                           /\ Pages[e.page].parsed <=> "FCALBACK" \in w.flags
                           /\ ~Pages[e.page].parsed => w.len = Size(e.page)

\* What that depends on
LEMMA ReadySame ==
  ASSUME NEW s, NEW t, NEW c, Ready(s, c), t.fs = s.fs, t.web[c].files = s.web[c].files,
         t.web[c].len = s.web[c].len, "DISCONNECT" \notin t.web[c].flags,
         "FCALBACK" \in t.web[c].flags <=> "FCALBACK" \in s.web[c].flags
  PROVE  Ready(t, c)
  BY Zenon DEF Ready

\* The file of a page that is open and has not been read
LEMMA ReadyIs ==
  ASSUME NEW s, Good(s), NEW c \in Conns, Ready(s, c)
  PROVE  LET q == s.web[c].files
         IN  /\ q # <<>> /\ Len(q) = 1
             /\ q[1] # Builtin => s.fs.table[q[1]].page \in DOMAIN Pages
<1> DEFINE q == s.web[c].files
           i == 1
<1>1. Len(q) = 1  BY Zenon DEF Ready
<1>2. q # <<>>
  <2> HIDE DEF q
  <2> QED  BY <1>1, OneOut
<1>3. i \in 1 .. Len(q)  BY <1>1
<1>4. q[i] # Builtin => s.fs.table[q[i]].page \in DOMAIN Pages
  <2> HIDE DEF i
  <2> QED  BY <1>3, HeadIs
<1> QED  BY <1>1, <1>2, <1>4

\* A parsed page that is open starts to be read.
LEMMA ReadyReads ==
  ASSUME DiskOk, NEW s, Good(s), NEW c \in Conns, Ready(s, c),
         {"FOPEN", "FCALBACK"} \subseteq s.web[c].flags,
         {"RETRYCB", "FINDCB"} \cap s.web[c].flags = {}
  PROVE  Reading(s, c)
<1> DEFINE w == s.web[c]
           q == w.files
           e == s.fs.table[q[1]]
           p == e.page
<1>1. q # <<>> /\ Len(q) = 1 /\ (q[1] # Builtin => p \in DOMAIN Pages)  BY ReadyIs
<1>2. q[1] # Builtin /\ e.pos = 1 /\ Ends(p) /\ Pages[p].parsed  BY Zenon DEF Ready
<1> HIDE DEF p
<1>3. Rank[p] \in 0 .. Depth - 1  BY <1>1, <1>2, RankIs
<1>4. Going(p, 1, 1, w.flags, w.cb.at)  BY <1>1, <1>2, GoingFirst
<1>5. Stacked(q, s.fs.table)
  <2> SUFFICES ASSUME NEW i \in 1 .. Len(q)
               PROVE  q[i] # Builtin /\ Rank[s.fs.table[q[i]].page] + (Len(q) - i) < Depth
    BY DEF Stacked
  <2>1. i = 1  BY <1>1
  <2>2. Rank[p] + (1 - 1) < Depth  BY <1>3 DEF Depth
  <2> HIDE DEF q
  <2>3. s.fs.table[q[i]].page = p  BY <2>1 DEF p
  <2> QED  BY <1>1, <1>2, <2>1, <2>2, <2>3
<1>6. s.fs.table[q[Len(q)]] = e  BY <1>1
<1>7. "RETRYCB" \notin w.flags /\ {"FOPEN", "FCALBACK"} \subseteq w.flags  OBVIOUS
<1> HIDE DEF e, w
<1>8. e.page = p /\ e.pos = 1  BY <1>2 DEF p
<1> QED  BY <1>1, <1>4, <1>5, <1>6, <1>7, <1>8 DEF Reading, w

\* A file that is not parsed starts to be copied, when its length has been announced.
LEMMA ReadyCopies ==
  ASSUME NEW s, Good(s), NEW c \in Conns, Ready(s, c),
         {"FCALBACK", "RETRYCB"} \cap s.web[c].flags = {}, s.web[c].body = <<>>,
         s.web[c].mode = "length", s.web[c].length = s.web[c].len
  PROVE  Copying(s, c)
<1> DEFINE w == s.web[c]
           q == w.files
           e == s.fs.table[q[1]]
           k == e.pos
           n == Size(e.page)
           b == Len(w.body)
<1>1. Len(q) = 1 /\ (q[1] # Builtin => e.page \in DOMAIN Pages)  BY ReadyIs
<1>2. b = 0  BY OneOut
<1>3. q[1] = Builtin => w.length = 1  BY DEF Ready
<1>4. ASSUME q[1] # Builtin
      PROVE  ~Pages[e.page].parsed /\ w.length = n /\ b = k - 1 /\ k <= w.length + 1
  <2>1. k = 1 /\ ~Pages[e.page].parsed /\ w.length = n  BY <1>4, Zenon DEF Ready
  <2>2. n \in Nat
    <3> DEFINE p == e.page
    <3>1. p \in DOMAIN Pages  BY <1>1, <1>4, Zenon
    <3> HIDE DEF p
    <3>2. Size(p) \in Nat  BY <3>1, PageIs
    <3> QED  BY <3>2 DEF p
  <2> HIDE DEF k, n, b
  <2>3. b = k - 1 /\ k <= n + 1  BY <1>2, <2>1, <2>2
  <2> QED  BY <2>1, <2>3, Zenon
<1>5. q[1] # Builtin => /\ ~Pages[e.page].parsed /\ w.length = Size(e.page)
                         /\ Len(w.body) = e.pos - 1 /\ e.pos <= w.length + 1
  BY <1>4, Zenon
<1>6. Len(q) = 1 /\ {"FCALBACK", "RETRYCB"} \cap w.flags = {} /\ w.mode = "length"
      /\ (q[1] = Builtin => w.body = <<>> /\ w.length = 1)
  BY <1>1, <1>3
<1> HIDE DEF w, q, e
<1> QED  BY <1>5, <1>6, Zenon DEF Copying, w, q, e

\* web_print_headers: what the header says of the body is what is sent, or nothing is.
LEMMA AnnouncePends ==
  ASSUME DiskOk, NEW s, Good(s), NEW c \in Conns, Blank(s.web[c]), s.web[c].flight + 1 <= SndBuf,
         "FOPEN" \notin s.web[c].flags \/ s.web[c].len = 0 \/ Ready(s, c), NEW status
  PROVE  Pends(s, Announce(s, c, status), c)
<1> DEFINE w == s.web[c]
           t == Announce(s, c, status)
           x == Send(s, c, <<Fixed>>)
           D == {"DISCONNECT"}
           f == Answers(x, c, "length", 1)
           k == Answers(s, c, "cut", 0)
           z == Answers(s, c, "length", 0)
           h == Answers(s, c, "chunked", 0)
           a == Answers(s, c, "close", 0)
           l == Answers(s, c, "length", w.len)
<1>1. \/ t = Set(f, c, D) \/ t = Set(k, c, D)
      \/ t = Quit(z, c)
      \/ /\ "FOPEN" \in w.flags /\ w.len # 0
         /\ \/ "FCALBACK" \in w.flags /\ (t = Set(h, c, {"CHUNKED"}) \/ t = a)
            \/ "FCALBACK" \notin w.flags /\ t = l
  BY DEF Announce, Has
<1>2. /\ w.mode = "none" /\ ~w.ended /\ w.body = <<>>
      /\ {"CLOSED", "FCLOSE", "CHUNKED", "RETRYCB", "FINDCB"} \cap w.flags = {}
  BY DEF Blank
<1>3. Len(w.body) = 0  BY <1>2, OneOut
<1>4. w.len \in Nat  BY PutIs, WebIs
<1>5. D \in SUBSET Flags /\ "RETRYCB" \notin D /\ {"CHUNKED"} \in SUBSET Flags
      /\ "RETRYCB" \notin {"CHUNKED"}
  BY DEF Flags
<1>6. \A n \in Nat : /\ Good(Answers(s, c, "length", n)) /\ Good(Answers(s, c, "cut", n))
                     /\ Good(Answers(s, c, "chunked", n)) /\ Good(Answers(s, c, "close", n))
  BY AnswersGood
<1> HIDE DEF t, x
<1>7. CASE t = Set(f, c, D)
  <2> DEFINE o == <<Fixed>>
  <2>1. o \in Seq(Outs) /\ Len(o) = 1  BY OneOut
  <2>2. x = Send(s, c, o)  BY DEF x
  <2> HIDE DEF o
  <2>3. Good(x)  BY <2>1, <2>2, SendGood
  <2>4. Sent(s, x, c, o) /\ x.web[c].ended = w.ended  BY <2>1, <2>2, SendSent
  <2>5. Good(f)  BY <2>3, AnswersGood
  <2>6. Answered(x, f, c, "length", 1)  BY <2>3, AnswersIs
  <2>7. Len(x.web[c].body) = 1 /\ ~x.web[c].ended  BY <1>2, <1>3, <2>1, <2>4 DEF Sent
  <2> HIDE DEF f
  <2> DEFINE F == f.web[c].flags \cup D
  <2>8. Flagged(f, t, c, F)  BY <1>5, <1>7, <2>5, SetGood
  <2>9. "DISCONNECT" \in F  OBVIOUS
  <2> HIDE DEF F
  <2>10. Pends(x, t, c)  BY <2>5, <2>6, <2>7, <2>8, <2>9, AnsweredOver
  <2> QED  BY <2>4, <2>10, ApartOn DEF Sent, Pends, t
<1>8. CASE t = Set(k, c, D)
  <2>1. Good(k) /\ Answered(s, k, c, "cut", 0)  BY <1>6, AnswersIs
  <2> HIDE DEF k
  <2> DEFINE F == k.web[c].flags \cup D
  <2>2. Flagged(k, t, c, F)  BY <1>5, <1>8, <2>1, SetGood
  <2>3. "DISCONNECT" \in F  OBVIOUS
  <2> HIDE DEF F
  <2>4. Pends(s, t, c)  BY <1>2, <2>1, <2>2, <2>3, AnsweredOver
  <2> QED  BY <2>4 DEF t
<1>9. CASE t = Quit(z, c)
  <2>1. Good(z) /\ Answered(s, z, c, "length", 0)  BY <1>6, AnswersIs
  <2> HIDE DEF z
  <2> DEFINE F == z.web[c].flags \cup {"FCLOSE", "DISCONNECT"}
  <2>2. Flagged(z, t, c, F)  BY <1>9, <2>1, QuitGood
  <2>3. "DISCONNECT" \in F  OBVIOUS
  <2> HIDE DEF F
  <2>4. Pends(s, t, c)  BY <1>2, <1>3, <2>1, <2>2, <2>3, AnsweredOver
  <2> QED  BY <2>4 DEF t
<1>10. CASE /\ "FOPEN" \in w.flags /\ w.len # 0
            /\ \/ "FCALBACK" \in w.flags /\ (t = Set(h, c, {"CHUNKED"}) \/ t = a)
               \/ "FCALBACK" \notin w.flags /\ t = l
  <2>1. Ready(s, c) /\ "DISCONNECT" \notin w.flags  BY <1>10, Zenon DEF Ready
  <2>2. CASE "FCALBACK" \in w.flags /\ t = Set(h, c, {"CHUNKED"})
    <3>1. Good(h) /\ Answered(s, h, c, "chunked", 0)  BY <1>6, AnswersIs
    <3> HIDE DEF h
    <3>2. Flagged(h, t, c, h.web[c].flags \cup {"CHUNKED"})  BY <1>5, <2>2, <3>1, SetGood
    <3> DEFINE F == w.flags \cup {"CHUNKED"}
               v == t.web[c]
    <3>3. h.web[c].flags \cup {"CHUNKED"} = F  BY <3>1 DEF Answered
    <3>4. /\ {"CLOSED", "DISCONNECT", "FCLOSE", "RETRYCB", "FINDCB"} \cap F = {}
          /\ {"FOPEN", "FCALBACK", "CHUNKED"} \subseteq F
      BY <1>2, <1>10, <2>1, <2>2
    <3> HIDE DEF F
    <3>5. /\ Good(t) /\ Apart(h, t, c) /\ t.fs = h.fs /\ SameBody(h.web[c], v)
          /\ SameFiles(h.web[c], v) /\ v.flags = F
      BY <3>1, <3>2, <3>3, FlaggedIs DEF Flagged
    <3>6. Apart(s, t, c) /\ t.fs = s.fs /\ v.files = w.files /\ v.len = w.len
          /\ v.mode = "chunked" /\ ~v.ended
      BY <1>2, <3>1, <3>5, ApartOn DEF Answered, SameFiles, SameBody
    <3>7. Ready(t, c)  BY <2>1, <2>2, <3>4, <3>5, <3>6, ReadySame
    <3>8. Reading(t, c)  BY <3>4, <3>5, <3>7, ReadyReads
    <3> HIDE DEF v
    <3>9. Sending(t, c)  BY <3>4, <3>5, <3>6, <3>8 DEF Sending, v
    <3> QED  BY <3>6, <3>9 DEF Pends, t
  <2>3. CASE "FCALBACK" \in w.flags /\ t = a
    <3>1. Good(t) /\ Answered(s, t, c, "close", 0)  BY <1>6, <2>3, AnswersIs
    <3>2. Ready(t, c)  BY <2>1, <3>1, ReadySame DEF Answered, SameFiles
    <3>3. Reading(t, c)
      <4>1. /\ {"FOPEN", "FCALBACK"} \subseteq t.web[c].flags
            /\ {"RETRYCB", "FINDCB"} \cap t.web[c].flags = {}
        BY <1>2, <1>10, <2>3, <3>1 DEF Answered
      <4> QED  BY <3>1, <3>2, <4>1, ReadyReads
    <3>4. Sending(t, c)  BY <1>2, <1>10, <2>1, <3>1, <3>3 DEF Sending, Answered
    <3> QED  BY <3>1, <3>4 DEF Pends, Answered, t
  <2>4. CASE "FCALBACK" \notin w.flags /\ t = l
    <3>1. Good(t) /\ Answered(s, t, c, "length", w.len)  BY <1>4, <1>6, <2>4, AnswersIs
    <3>2. Ready(t, c)  BY <2>1, <3>1, ReadySame DEF Answered, SameFiles
    <3>3. Copying(t, c)
      <4>1. /\ {"FCALBACK", "RETRYCB"} \cap t.web[c].flags = {} /\ t.web[c].body = <<>>
            /\ t.web[c].mode = "length" /\ t.web[c].length = t.web[c].len
        BY <1>2, <2>4, <3>1, Zenon DEF Answered, SameFiles
      <4> QED  BY <3>1, <3>2, <4>1, ReadyCopies
    <3>4. Sending(t, c)  BY <1>2, <1>10, <2>1, <3>1, <3>3 DEF Sending, Answered
    <3> QED  BY <3>1, <3>4 DEF Pends, Answered, t
  <2> QED  BY <1>10, <2>2, <2>3, <2>4
<1> QED  BY <1>1, <1>7, <1>8, <1>9, <1>10

\* The file p is the only one that is open, and has not been read.
First(s, c, p) ==
  LET q == s.web[c].files
  IN  /\ Len(q) = 1 /\ q[1] # Builtin /\ s.fs.table[q[1]] = [page |-> p, pos |-> 1]
      /\ p \in DOMAIN Pages

\* web_inc_fopen opens the first file of a connection.
LEMMA OpensFirst ==
  ASSUME NEW s, Good(s), NEW c \in Conns, s.web[c].files = <<>>, NEW p, MayInclude(s, c, p)
  PROVE  LET t == IncFopen(s, c, p)
             w == s.web[c]
             v == t.web[c]
         IN  /\ Good(t) /\ Apart(s, t, c) /\ SameBody(w, v) /\ v.req = w.req /\ First(t, c, p)
             /\ v.len = w.len + Size(p)
             /\ v.flags = w.flags \cup {"FOPEN"} \cup (IF Pages[p].parsed THEN {"FCALBACK"} ELSE {})
<1> DEFINE t == IncFopen(s, c, p)
           h == FirstFree(s)
           q == s.web[c].files
           r == t.web[c].files
           F == s.web[c].flags \cup {"FOPEN"} \cup (IF Pages[p].parsed THEN {"FCALBACK"} ELSE {})
<1>1. /\ Good(t) /\ Reads(s, t, c) /\ t.web[c].flags = F /\ OpensAt(s, t, c, p, h)
  BY IncFopenIs
<1>2. p \in DOMAIN Pages  BY DEF MayInclude, CanOpen
<1> HIDE DEF t, h, F
<1>3. Len(q) # Depth  BY OneOut DEF Depth
<1>4. Pushes(s, t, c, p, h)  BY <1>1, <1>3, OpensPush
<1>5. /\ h \in 1 .. MaxOpen /\ h # Builtin /\ h \in Handles /\ s.fs.table[h] = Shut
      /\ r = <<h>> \o q /\ t.web[c].len = s.web[c].len + Size(p)
      /\ t.fs.table[h] = [page |-> p, pos |-> 1]
      /\ \A g \in 1 .. MaxOpen : g # h => t.fs.table[g] = s.fs.table[g]
  BY <1>4 DEF Pushes
<1>6. r = <<h>>  BY <1>5
<1> HIDE DEF r
<1>7. Len(r) = 1 /\ r[1] = h  BY <1>6
<1>8. First(t, c, p)  BY <1>2, <1>5, <1>7 DEF First, r
<1>9. Touches(s, t, c)  BY <1>5 DEF Touches
<1>10. Apart(s, t, c)
  <2>1. \A d \in Conns : d # c => t.web[d] = s.web[d]  BY <1>1 DEF Reads
  <2> QED  BY <1>9, <2>1, ApartTouch
<1>11. SameBody(s.web[c], t.web[c]) /\ t.web[c].req = s.web[c].req
  BY <1>1 DEF Reads, Kept, SameBody
<1> QED  BY <1>1, <1>5, <1>8, <1>10, <1>11 DEF t, F

\* A file that has been opened first is ready.
LEMMA FirstReady ==
  ASSUME NEW s, NEW c, NEW p, First(s, c, p), Ends(p), "DISCONNECT" \notin s.web[c].flags,
         Pages[p].parsed <=> "FCALBACK" \in s.web[c].flags,
         ~Pages[p].parsed => s.web[c].len = Size(p)
  PROVE  Ready(s, c)
<1> DEFINE e == s.fs.table[s.web[c].files[1]]
<1>1. e.page = p /\ e.pos = 1  BY DEF First
<1>2. s.web[c].files[1] # Builtin /\ Len(s.web[c].files) = 1  BY DEF First
<1> HIDE DEF e
<1> QED  BY <1>1, <1>2 DEF Ready, e

\* The only element of a sequence is taken away.
LEMMA TailNone ==
  ASSUME NEW q \in Seq(Handles), q # <<>>, Len(q) <= 1
  PROVE  Tail(q) = <<>>
<1> DEFINE r == Tail(q)
           n == Len(q)
<1>1. n \in Nat /\ n # 0  BY EmptySeq, LenProperties
<1>2. r \in Seq(Handles) /\ Len(r) = n - 1  BY TailAt
<1> HIDE DEF r, n
<1>3. n <= 1  BY DEF n
<1>4. Len(r) = 0  BY <1>1, <1>2, <1>3
<1>5. r = <<>>  BY <1>2, <1>4, EmptySeq
<1> QED  BY <1>5 DEF r

\* web_inc_fclose closes the only file of a connection.
LEMMA ClosesLast ==
  ASSUME NEW s, Good(s), NEW c \in Conns, Len(s.web[c].files) <= 1
  PROVE  LET t == IncFclose(s, c)
             w == s.web[c]
             v == t.web[c]
         IN  /\ Good(t) /\ Apart(s, t, c) /\ SameBody(w, v) /\ v.files = <<>> /\ v.len = w.len
             /\ v.flags = w.flags \ {"FOPEN", "FCALBACK"}
<1> DEFINE t == IncFclose(s, c)
           q == s.web[c].files
<1>1. /\ Good(t) /\ Reads(s, t, c)
      /\ t.web[c].files = IF q = <<>> THEN <<>> ELSE Tail(q)
      /\ t.web[c].flags = IF t.web[c].files = <<>> THEN s.web[c].flags \ {"FOPEN", "FCALBACK"}
                          ELSE s.web[c].flags
      /\ Shuts(s, t, c, q)
  BY IncFcloseGood
<1>2. q \in Seq(Handles) /\ Len(q) \in Nat  BY FilesAre
<1> HIDE DEF t
<1>3. t.web[c].files = <<>>
  <2>1. CASE q = <<>>  BY <1>1, <2>1
  <2>2. CASE q # <<>>
    <3>0. Len(q) <= 1  OBVIOUS
    <3> HIDE DEF q
    <3>1. Tail(q) = <<>>  BY <1>2, <3>0, <2>2, TailNone
    <3> QED  BY <1>1, <2>2, <3>1
  <2> QED  BY <2>1, <2>2
<1>4. t.web[c].len = s.web[c].len /\ Touches(s, t, c)  BY <1>1 DEF Shuts, Touches
<1>5. Apart(s, t, c)
  <2>1. \A d \in Conns : d # c => t.web[d] = s.web[d]  BY <1>1 DEF Reads
  <2> QED  BY <1>4, <2>1, ApartTouch
<1>6. SameBody(s.web[c], t.web[c])  BY <1>1 DEF Reads, Kept, SameBody
<1> QED  BY <1>1, <1>3, <1>4, <1>5, <1>6 DEF t

\* web_print_headers: the page for an error is ready, if there is one.
LEMMA ErrorPageReady ==
  ASSUME DiskOk, NEW s, Good(s), NEW c \in Conns, Blank(s.web[c]), Len(s.web[c].files) <= 1,
         NEW n \in Errors, n = 404 => s.web[c].len = 0 /\ "DISCONNECT" \notin s.web[c].flags
  PROVE  LET t == ErrorPage(s, c, n)
             v == t.web[c]
         IN  Apart(s, t, c) /\ Blank(v) /\ ("FOPEN" \notin v.flags \/ Ready(t, c))
<1> DEFINE F == {"FCALBACK", "CHUNKED", "RXDATA", "FCLOSE"}
           x == IncFclose(s, c)
           y == Clr(x, c, F)
           p == ErrorName(n)
           z == IncFopen(y, c, p)
           t == ErrorPage(s, c, n)
           w == s.web[c]
           G == (w.flags \ {"FOPEN", "FCALBACK"}) \ F
<1>1. /\ Good(x) /\ Apart(s, x, c) /\ SameBody(w, x.web[c]) /\ x.web[c].files = <<>>
      /\ x.web[c].len = w.len /\ x.web[c].flags = w.flags \ {"FOPEN", "FCALBACK"}
  BY ClosesLast
<1>2. t = (IF MayInclude(y, c, p) THEN [z EXCEPT !.web[c].page = p]
           ELSE [y EXCEPT !.web[c].page = NoPage])
  BY DEF ErrorPage
<1> HIDE DEF x, t, F
<1>3. Flagged(x, y, c, G)
  <2>1. Flagged(x, y, c, x.web[c].flags \ F)  BY <1>1, ClrGood
  <2> QED  BY <1>1, <2>1
<1> HIDE DEF y
<1>4. /\ Good(y) /\ Apart(x, y, c) /\ SameBody(x.web[c], y.web[c]) /\ SameFiles(x.web[c], y.web[c])
      /\ y.web[c].flags = G
  BY <1>1, <1>3, FlaggedIs DEF Flagged
<1>5. Apart(s, y, c) /\ SameBody(w, y.web[c]) /\ y.web[c].files = <<>> /\ y.web[c].len = w.len
  BY <1>1, <1>4, ApartOn DEF SameBody, SameFiles
<1>6. /\ w.mode = "none" /\ ~w.ended /\ w.body = <<>>
      /\ {"CLOSED", "FCLOSE", "CHUNKED", "RETRYCB", "FINDCB"} \cap w.flags = {}
  BY DEF Blank
<1>7. /\ {"CLOSED", "FCLOSE", "CHUNKED", "RETRYCB", "FINDCB"} \cap G = {} /\ G \subseteq w.flags
      /\ "FOPEN" \notin G /\ "FCALBACK" \notin G
  BY <1>6 DEF F
<1> HIDE DEF G, w
<1>8. Blank(y.web[c])  BY <1>4, <1>5, <1>6, <1>7 DEF Blank, SameBody
<1>9. CASE MayInclude(y, c, p)
  <2>1. p \in DOMAIN Pages  BY <1>9 DEF MayInclude, CanOpen
  <2>2. n = 404 /\ Ends(p)  BY <2>1 DEF DiskOk
  <2>3. Size(p) \in Nat
    <3> HIDE DEF p
    <3> QED  BY <2>1, PageIs
  <2> DEFINE v == z.web[c]
             E == IF Pages[p].parsed THEN {"FCALBACK"} ELSE {}
  <2>4. /\ Good(z) /\ Apart(y, z, c) /\ SameBody(y.web[c], v) /\ First(z, c, p)
        /\ v.len = y.web[c].len + Size(p)
        /\ v.flags = y.web[c].flags \cup {"FOPEN"} \cup E
    BY <1>4, <1>5, <1>9, OpensFirst
  <2>5. w.len = 0 /\ "DISCONNECT" \notin w.flags  BY <2>2 DEF w
  <2> HIDE DEF p, z
  <2>6. v.len = Size(p)  BY <1>5, <2>3, <2>4, <2>5
  <2>7. /\ {"CLOSED", "FCLOSE", "CHUNKED", "RETRYCB", "FINDCB", "DISCONNECT"} \cap v.flags = {}
        /\ Pages[p].parsed <=> "FCALBACK" \in v.flags
    BY <1>4, <1>7, <2>4, <2>5
  <2> HIDE DEF v, E
  <2>8. Blank(v)  BY <1>8, <2>4, <2>7 DEF Blank, SameBody
  <2>9. Ready(z, c)  BY <2>2, <2>4, <2>6, <2>7, FirstReady DEF v
  <2>10. Same(z, t, c)  BY <1>2, <1>9, <2>4, FlightSame
  <2>11. Ready(t, c)  BY <2>7, <2>9, <2>10, ReadySame DEF Same, SameWeb, v
  <2>12. Blank(t.web[c])  BY <2>8, <2>10 DEF Same, SameWeb, SameBody, Blank, v
  <2>13. Apart(s, t, c)  BY <1>5, <2>4, <2>10, ApartOn DEF Same
  <2> QED  BY <2>11, <2>12, <2>13 DEF t
<1>10. CASE ~MayInclude(y, c, p)
  <2>1. Same(y, t, c)  BY <1>2, <1>4, <1>10, FlightSame
  <2>2. Blank(t.web[c])  BY <1>8, <2>1 DEF Same, SameWeb, SameBody, Blank
  <2>3. "FOPEN" \notin t.web[c].flags  BY <1>4, <1>7, <2>1 DEF Same, SameWeb
  <2>4. Apart(s, t, c)  BY <1>5, <2>1, ApartOn DEF Same
  <2> QED  BY <2>2, <2>3, <2>4 DEF t
<1> QED  BY <1>9, <1>10

\* A connection that can be answered with a status
Ripe(s, c, status) ==
  LET w == s.web[c]
  IN  /\ Blank(w) /\ Len(w.files) <= 1
      /\ \/ "REDIR" \in w.flags
         \/ status = 200 /\ ("FOPEN" \notin w.flags \/ w.len = 0 \/ Ready(s, c))
         \/ status = 404 /\ w.len = 0 /\ "DISCONNECT" \notin w.flags
         \/ status \in Errors \ {404}

\* A connection that goes on or is over stays so when a piece of the buffer is taken and, if
\* it is over, no more is sent.
LEMMA SentPends ==
  ASSUME NEW s, NEW h, Good(h), NEW c \in Conns, Pends(s, h, c), NEW y, Good(y),
         Same(h, y, c), NEW t, t = IF Has(y, c, "DISCONNECT") THEN Set(y, c, {"CLOSED"}) ELSE y
  PROVE  Pends(s, t, c)
<1>2. Apart(s, y, c) /\ (Sending(y, c) \/ Over(y.web[c]))
  BY SameSending, ApartOn DEF Pends, Same
<1>3. CASE ~Has(y, c, "DISCONNECT")  BY <1>2, <1>3 DEF Pends
<1>4. CASE Has(y, c, "DISCONNECT")
  <2> DEFINE F == y.web[c].flags \cup {"CLOSED"}
             v == t.web[c]
  <2>1. {"CLOSED"} \in SUBSET Flags /\ "RETRYCB" \notin {"CLOSED"}  BY DEF Flags
  <2>2. t = Set(y, c, {"CLOSED"})  BY <1>4, Zenon
  <2> DEFINE u == Set(y, c, {"CLOSED"})
  <2>9. Flagged(y, u, c, F)  BY <2>1, SetGood
  <2> HIDE DEF u
  <2>3. Flagged(y, t, c, F)  BY <2>2, <2>9, Zenon DEF u
  <2>4. "DISCONNECT" \in F /\ y.web[c].flags \subseteq F  BY <1>4 DEF Has
  <2> HIDE DEF F
  <2>5. Apart(y, t, c) /\ SameBody(y.web[c], v) /\ v.flags = F  BY <2>3, FlaggedIs
  <2>6. Over(y.web[c])
    <3>1. ~Sending(y, c)  BY <1>4 DEF Sending, Has
    <3> QED  BY <1>2, <3>1
  <2> HIDE DEF v
  <2>7. Framing(v)  BY <2>4, <2>5, <2>6, FramingSame DEF Over
  <2>8. Over(v)  BY <2>4, <2>5, <2>7 DEF Over
  <2> QED  BY <1>2, <2>5, <2>8, ApartOn DEF Pends, v
<1> QED  BY <1>3, <1>4

\* web_print_headers
LEMMA PrintHeadersPends ==
  ASSUME DiskOk, NEW s, Good(s), NEW c \in Conns, s.web[c].flight = 0,
         NEW status \in Errors \cup {200}, Ripe(s, c, status),
         NEW t \in PrintHeaders(s, c, status)
  PROVE  Pends(s, t, c)
<1> DEFINE w == s.web[c]
           D == {"DISCONNECT"}
           b == Bye(s, c)
           a == Answers(b, c, "none", 0)
           redir == Set(a, c, D)
           plain == Announce(s, c, 200)
           e == ErrorPage(s, c, status)
           other == Announce(e, c, status)
           h == CASE Has(s, c, "REDIR") -> redir
                  [] ~Has(s, c, "REDIR") /\ status = 200 -> plain
                  [] ~Has(s, c, "REDIR") /\ status # 200 -> other
           sent == [h EXCEPT !.web[c].flight = @ + 1]
           last == IF Has(sent, c, "DISCONNECT") THEN Set(sent, c, {"CLOSED"}) ELSE sent
<1>1. t = GivenUp(s, c) \/ t = last  BY Zenon DEF PrintHeaders, GivenUp, Bye
<1>2. 2 <= SndBuf /\ SndBuf \in Nat  BY Constants
<1>3. Blank(w) /\ w.mode = "none" /\ ~w.ended /\ Len(w.files) <= 1  BY DEF Ripe, Blank
<1>4. D \in SUBSET Flags /\ "RETRYCB" \notin D  BY DEF Flags
<1> DEFINE Fine(x) == Good(x) /\ Pends(s, x, c) /\ x.web[c].flight <= 1
<1>5. Fine(redir)
  <2>1. Good(redir) /\ Silent(s, redir, c)  BY <1>4, RedirGood
  <2>2. Good(b) /\ Same(s, b, c)
    <3>1. Good(b)  BY Zenon, ByeGood
    <3>2. Same(s, b, c)  BY Zenon, FlightSame
    <3> QED  BY <3>1, <3>2
  <2> HIDE DEF b
  <2>3. Good(a) /\ Answered(b, a, c, "none", 0)  BY <2>2, AnswersGood, AnswersIs
  <2> HIDE DEF a
  <2>4. Flagged(a, redir, c, a.web[c].flags \cup D)  BY <1>4, <2>3, SetGood
  <2>5. "DISCONNECT" \in a.web[c].flags \cup D  OBVIOUS
  <2> HIDE DEF D, redir
  <2>6. ~b.web[c].ended  BY <1>3, <2>2 DEF Same, SameWeb, SameBody
  <2>7. Pends(b, redir, c)
    <3> DEFINE F == a.web[c].flags \cup D
    <3>1. Flagged(a, redir, c, F) /\ "DISCONNECT" \in F  BY <2>4, <2>5
    <3> HIDE DEF F
    <3> QED  BY <2>2, <2>3, <2>6, <3>1, AnsweredOver
  <2>8. Pends(s, redir, c)  BY <2>2, <2>7, ApartOn DEF Pends, Same
  <2>9. redir.web[c].flight <= 1  BY <2>1 DEF Silent
  <2> QED  BY <2>1, <2>8, <2>9
<1>6. ~Has(s, c, "REDIR") /\ status = 200 => Fine(h)
  <2> SUFFICES ASSUME ~Has(s, c, "REDIR"), status = 200  PROVE Fine(h)  OBVIOUS
  <2>1. Announced(s, plain, c)  BY <1>2, AnnounceGood
  <2>2. "FOPEN" \notin w.flags \/ w.len = 0 \/ Ready(s, c)  BY DEF Ripe, Errors, Has
  <2>3. Pends(s, plain, c)  BY <1>2, <1>3, <2>2, AnnouncePends
  <2> HIDE DEF plain
  <2>4. Fine(plain)  BY <2>1, <2>3 DEF Announced
  <2>5. h = plain  OBVIOUS
  <2> HIDE DEF h
  <2> QED  BY <2>4, <2>5
<1>7. ~Has(s, c, "REDIR") /\ status # 200 => Fine(h)
  <2> SUFFICES ASSUME ~Has(s, c, "REDIR"), status # 200  PROVE Fine(h)  OBVIOUS
  <2>1. status \in Errors  OBVIOUS
  <2>2. Good(e) /\ Silent(s, e, c)  BY <2>1, ErrorPageGood
  <2>3. status = 404 => w.len = 0 /\ "DISCONNECT" \notin w.flags  BY DEF Ripe, Has
  <2>4. Apart(s, e, c) /\ Blank(e.web[c]) /\ ("FOPEN" \notin e.web[c].flags \/ Ready(e, c))
    BY <1>3, <2>1, <2>3, ErrorPageReady
  <2> HIDE DEF e
  <2>5. e.web[c].flight + 1 <= SndBuf /\ e.web[c].flight = 0  BY <1>2, <2>2 DEF Silent
  <2>6. Announced(e, other, c)  BY <2>2, <2>5, AnnounceGood
  <2>7. Pends(e, other, c)  BY <2>2, <2>4, <2>5, AnnouncePends
  <2> HIDE DEF other
  <2>8. Pends(s, other, c)  BY <2>4, <2>7, ApartOn DEF Pends
  <2>9. Fine(other)  BY <2>5, <2>6, <2>8 DEF Announced
  <2>10. h = other  OBVIOUS
  <2> HIDE DEF h
  <2> QED  BY <2>9, <2>10
<1> HIDE DEF redir, plain, other, e
<1>8. Fine(h)
  <2>1. h = redir \/ (h = plain /\ ~Has(s, c, "REDIR") /\ status = 200)
        \/ (h = other /\ ~Has(s, c, "REDIR") /\ status # 200)
    OBVIOUS
  <2> HIDE DEF Fine, h
  <2>4. ~Has(s, c, "REDIR") /\ status = 200 => Fine(h)  BY <1>6
  <2>5. ~Has(s, c, "REDIR") /\ status # 200 => Fine(h)  BY <1>7
  <2> QED  BY <1>5, <2>1, <2>4, <2>5
<1> HIDE DEF h
<1>9. CASE t = GivenUp(s, c)  BY <1>3, <1>9, GivenUpPends
<1>10. CASE t = last
  <2>1. h.web[c].flight + 1 <= SndBuf
    <3>1. Good(h) /\ h.web[c].flight <= 1  BY <1>8
    <3>2. h.web[c].flight \in Nat  BY <3>1, PutIs, WebIs
    <3> QED  BY <1>2, <3>1, <3>2
  <2>2. Good(sent)  BY <1>8, <2>1, FlightGood
  <2> DEFINE n == h.web[c].flight + 1
  <2>3. sent = [h EXCEPT !.web[c].flight = n]
    <3>1. h \in States /\ h.web[c] \in Web  BY <1>8, PutIs
    <3> QED  BY <3>1 DEF States, Web
  <2> HIDE DEF sent, n
  <2>4. Good(h) /\ Pends(s, h, c)  BY <1>8
  <2>5. Same(h, sent, c)  BY <2>3, <2>4, FlightSame
  <2> QED  BY <1>10, <2>2, <2>4, <2>5, SentPends
<1> QED  BY <1>1, <1>9, <1>10

\* webserver_received_data, when the request is answered
LEMMA AnswerResult ==
  ASSUME DiskOk, NEW s, Good(s), NEW c \in Conns, s.web[c].flight = 0, s.web[c].body = <<>>,
         NEW status \in Errors \cup {200}, Ripe(s, c, status),
         "REDIR" \notin s.web[c].flags /\ status = 200 => Open(s.web[c]),
         NEW u \in Answer(s, c, status)
  PROVE  Result(s, u, c)
<1> DEFINE w == s.web[c]
           q == Unheard(s, c)
<1>1. /\ Good(q) /\ q.web[c].flight = 0 /\ q.web[c].body = <<>> /\ q.web[c].rxnull
      /\ q.web[c].req = w.req /\ q.web[c].flags = w.flags /\ q.web[c].page = w.page
  BY UnheardGood
<1>2. PICK t \in PrintHeaders(q, c, status) : After(t, c, u)  BY AnswerIs
<1>3. Same(s, q, c)  BY FlightSame
<1> HIDE DEF q
<1>4. "REDIR" \notin q.web[c].flags /\ status = 200 => Open(q.web[c])  BY <1>1 DEF Open
<1>5. Good(t) /\ Talks(q, t, c)  BY <1>1, <1>4, PrintHeadersGood
<1>6. Ripe(q, c, status)
  <2>1. Blank(q.web[c]) <=> Blank(w)  BY <1>3 DEF Same, SameWeb, SameBody, Blank
  <2>2. Ready(s, c) => Ready(q, c)
    <3>1. Ready(s, c) => "DISCONNECT" \notin w.flags  BY Zenon DEF Ready
    <3> QED  BY <1>3, <3>1, ReadySame DEF Same, SameWeb
  <2> QED  BY <1>3, <2>1, <2>2 DEF Same, SameWeb, Ripe
<1>7. Pends(q, t, c)  BY <1>1, <1>6, PrintHeadersPends
<1> DEFINE goes == ~HasAny(t, c, {"CLOSED", "DISCONNECT", "FCLOSE"}) /\ Has(t, c, "FOPEN")
<1>8. PICK z \in (IF goes THEN SendFdata(t, c) ELSE {t}) : u \in AfterSend(z, c)  BY <1>2 DEF After
<1>9. Good(z) /\ Talks(t, z, c) /\ Pends(t, z, c)
  <2>1. CASE goes
    <3>1. z \in SendFdata(t, c)  BY <1>8, <2>1
    <3>2. Good(z) /\ Talks(t, z, c)  BY <1>5, <3>1, SendFdataGood
    <3>3. Sending(t, c)  BY <1>7, <2>1 DEF Pends, Over, HasAny
    <3>4. Pends(t, z, c)  BY <1>5, <3>1, <3>3, SendFdataPends
    <3> QED  BY <3>2, <3>4
  <2>2. CASE ~goes
    <3>1. z = t  BY <1>8, <2>2
    <3>2. Over(t.web[c])  BY <1>7, <2>2 DEF Pends, Sending, HasAny, Has
    <3> QED  BY <1>5, <3>1, <3>2 DEF Talks, Pends, Apart
  <2> QED  BY <2>1, <2>2
<1>10. z.web[c].rxnull  BY <1>1, <1>5, <1>9 DEF Talks
<1>11. Result(z, u, c)  BY <1>8, <1>9, <1>10, AfterSendResult DEF Pends
<1>12. Apart(s, z, c)
  <2>1. Apart(s, q, c) /\ Apart(q, t, c) /\ Apart(t, z, c)  BY <1>3, <1>7, <1>9 DEF Same, Pends
  <2>2. Apart(s, t, c)  BY <2>1, ApartOn
  <2> QED  BY <2>1, <2>2, ApartOn
<1> QED  BY <1>11, <1>12, ApartOn DEF Result

(***************************************************************************)
(* The request                                                             *)
(***************************************************************************)
\* Nothing has been said or sent.
Unsaid(w) ==
  /\ w.mode = "none" /\ ~w.ended /\ w.body = <<>>
  /\ w.flags \subseteq {"FOPEN", "FCALBACK", "AUTH", "RXDATA", "HEAD_OK"}

\* A connection that is not answered: no file is open, or a page that is no file, or the file
\* that is asked for, which has not been read; and content_len is the length of the file, if
\* that will be announced.
Fresh(s, c) ==
  LET w == s.web[c]
      p == w.req.page
  IN  /\ Unsaid(w)
      /\ \/ w.files = <<>> /\ {"FOPEN", "FCALBACK"} \cap w.flags = {} /\ w.len = 0
         \/ /\ w.files = <<Builtin>> /\ "FOPEN" \in w.flags /\ "FCALBACK" \notin w.flags
            /\ w.req.kind # "upload" => w.len = 1 /\ p \in {Upload, Root}
         \/ /\ First(s, c, p) /\ "FOPEN" \in w.flags /\ w.req.kind # "upload"
            /\ Pages[p].parsed <=> "FCALBACK" \in w.flags
            /\ ~Pages[p].parsed => w.len = Size(p)

\* What that depends on
LEMMA FreshSame ==
  ASSUME NEW s, NEW t, NEW c, Fresh(s, c), t.fs = s.fs, NEW w, w = s.web[c], NEW v, v = t.web[c],
         v.files = w.files, v.req = w.req, v.len = w.len, SameBody(w, v),
         v.flags \subseteq w.flags \cup {"AUTH", "RXDATA", "HEAD_OK"},
         "FOPEN" \in v.flags <=> "FOPEN" \in w.flags,
         "FCALBACK" \in v.flags <=> "FCALBACK" \in w.flags
  PROVE  Fresh(t, c)
<1>1. Unsaid(w)  BY DEF Fresh
<1>2. Unsaid(v)  BY <1>1 DEF Unsaid, SameBody
<1>3. First(s, c, w.req.page) => First(t, c, w.req.page)  BY DEF First
<1> QED  BY <1>2, <1>3 DEF Fresh

\* F and G differ in the flags of a request at most.
Agree(F, G) == \A f : f \notin {"AUTH", "RXDATA", "HEAD_OK"} => (f \in F <=> f \in G)

\* t is s with another request for a password, or another state of the upload.
LEMMA FreshFlagged ==
  ASSUME NEW s, Good(s), NEW c \in Conns, Fresh(s, c), NEW t, NEW F, Flagged(s, t, c, F),
         Agree(F, s.web[c].flags)
  PROVE  /\ Apart(s, t, c) /\ Fresh(t, c) /\ t.web[c].req = s.web[c].req
         /\ t.web[c].flags = F /\ t.web[c].files = s.web[c].files /\ t.web[c].len = s.web[c].len
<1> DEFINE w == s.web[c]
           v == t.web[c]
<1>1. /\ Apart(s, t, c) /\ t.fs = s.fs /\ SameBody(w, v) /\ SameFiles(w, v) /\ v.flags = F
  BY FlaggedIs
<1>2. /\ F \subseteq w.flags \cup {"AUTH", "RXDATA", "HEAD_OK"}
      /\ "FOPEN" \in F <=> "FOPEN" \in w.flags
      /\ "FCALBACK" \in F <=> "FCALBACK" \in w.flags
  BY DEF Agree
<1>3. v.files = w.files /\ v.req = w.req /\ v.len = w.len  BY <1>1 DEF SameFiles
<1>4. Fresh(t, c)
  <2>1. w = s.web[c] /\ v = t.web[c]  OBVIOUS
  <2> HIDE DEF w, v
  <2> QED  BY <1>1, <1>2, <1>3, <2>1, FreshSame
<1> QED  BY <1>1, <1>3, <1>4

\* The file of a request can be answered, or an error can.
LEMMA FreshRipe ==
  ASSUME NEW s, Good(s), NEW c \in Conns, Fresh(s, c), Proper(s.web[c].req), NEW n,
         \/ n \in Errors \ {404}
         \/ n = 404 /\ "FOPEN" \notin s.web[c].flags
         \/ n = 200 /\ "FOPEN" \in s.web[c].flags /\ s.web[c].req.kind # "upload"
  PROVE  Ripe(s, c, n)
<1> DEFINE w == s.web[c]
           p == w.req.page
           q == w.files
<1>1. Unsaid(w)  BY DEF Fresh
<1>2. Blank(w) /\ "DISCONNECT" \notin w.flags  BY <1>1 DEF Unsaid, Blank
<1>3. Len(q) <= 1
  <2>1. CASE q = <<>>  BY <2>1, OneOut
  <2>2. CASE q = <<Builtin>>
    <3> DEFINE h == Builtin
    <3> HIDE DEF q, h
    <3>1. q = <<h>>  BY <2>2 DEF h
    <3>2. Len(q) = 1  BY <3>1
    <3> QED  BY <3>2
  <2>3. CASE First(s, c, p)
    <3>1. Len(q) = 1  BY <2>3 DEF First
    <3> HIDE DEF q
    <3> QED  BY <3>1
  <2> QED  BY <2>1, <2>2, <2>3 DEF Fresh
<1>4. CASE n \in Errors \ {404}  BY <1>2, <1>3, <1>4 DEF Ripe
<1>5. CASE n = 404 /\ "FOPEN" \notin w.flags
  <2>1. w.len = 0  BY <1>5 DEF Fresh
  <2> QED  BY <1>2, <1>3, <1>5, <2>1 DEF Ripe
<1>6. CASE n = 200 /\ "FOPEN" \in w.flags /\ w.req.kind # "upload"
  <2>1. CASE q = <<Builtin>> /\ "FCALBACK" \notin w.flags /\ w.len = 1
    <3> DEFINE h == Builtin
    <3>1. q = <<h>>  BY <2>1
    <3>0. q = w.files  OBVIOUS
    <3> HIDE DEF h, q
    <3>2. Len(q) = 1 /\ q[1] = h  BY <3>1
    <3>3. Ready(s, c)  BY <1>2, <2>1, <3>0, <3>2 DEF Ready, h
    <3> QED  BY <1>2, <1>3, <1>6, <3>0, <3>3 DEF Ripe
  <2>2. CASE /\ First(s, c, p)
             /\ Pages[p].parsed <=> "FCALBACK" \in w.flags
             /\ ~Pages[p].parsed => w.len = Size(p)
    <3>1. Ends(p)  BY <2>2 DEF Proper, First
    <3>2. Ready(s, c)  BY <1>2, <2>2, <3>1, FirstReady
    <3> QED  BY <1>2, <1>3, <1>6, <3>2 DEF Ripe
  <2> QED  BY <1>6, <2>1, <2>2 DEF Fresh
<1> QED  BY <1>4, <1>5, <1>6

\* content_len, and nothing else
LEMMA MeasuredIs ==
  ASSUME NEW s, Good(s), NEW c \in Conns, NEW n
  PROVE  LET t == Measured(s, c, n)
             w == s.web[c]
             v == t.web[c]
         IN  /\ Apart(s, t, c) /\ t.fs = s.fs /\ SameBody(w, v) /\ v.len = n
             /\ v.files = w.files /\ v.req = w.req /\ v.flags = w.flags
<1> DEFINE w == s.web[c]
           v == [w EXCEPT !.len = n]
           t == Measured(s, c, n)
<1>1. s \in States /\ w \in Web  BY PutIs
<1>2. Puts(s, t, c, v)  BY <1>1 DEF Measured, States, Puts
<1>3. SameBody(w, v) /\ v.len = n /\ v.files = w.files /\ v.req = w.req /\ v.flags = w.flags
  BY <1>1 DEF Web, SameBody
<1> HIDE DEF t, v
<1>4. Becomes(s, t, c, v)  BY <1>2, PutsBecomes
<1>5. Apart(s, t, c) /\ t.fs = s.fs /\ t.web[c] = v  BY <1>4, BecomesApart DEF Becomes
<1> QED  BY <1>3, <1>5 DEF t

\* A page that is no file is put in an empty place.
LEMMA BuiltinIs ==
  ASSUME NEW s, Good(s), NEW c \in Conns, s.web[c].files = <<>>
  PROVE  LET t == IncFp(s, c, Builtin)
             w == s.web[c]
             v == t.web[c]
         IN  Apart(s, t, c) /\ SameBody(w, v) /\ v.req = w.req
<1> DEFINE w == s.web[c]
           h == Builtin
           q == w.files
           p == Pushed(q, h)
           G == w.flags \cup {"FOPEN"}
           t == IncFp(s, c, h)
           v == t.web[c]
<1>1. s \in States /\ w \in Web  BY PutIs
<1>2. q \in Seq(Handles) /\ Len(q) = 0 /\ h \in Handles
  BY <1>1, WebIs, OneOut DEF Handles
<1>3. p = <<h>>
  <2>1. Len(q) # Depth  BY <1>2 DEF Depth
  <2>2. p = <<h>> \o q  BY <2>1 DEF Pushed
  <2> HIDE DEF h, p
  <2>3. <<h>> \o <<>> = <<h>>  OBVIOUS
  <2> QED  BY <2>2, <2>3
<1>4. p \in Seq(Handles)
  <2> HIDE DEF h, p
  <2> QED  BY <1>2, <1>3
<1>5. Grown(s, t, c, h)  BY <1>1, <1>2, <1>4, IncFpIs
<1> HIDE DEF h, t
<1>6. /\ \A d \in Conns : d # c => t.web[d] = s.web[d]
      /\ v = [w EXCEPT !.files = p, !.flags = G]
      /\ \A g \in 1 .. MaxOpen : t.fs.table[g] = s.fs.table[g]
  <2>1. Len(q) # Depth  BY <1>2 DEF Depth
  <2> HIDE DEF p
  <2> QED  BY <1>1, <1>5, <2>1 DEF Grown, Web, p
<1>7. Apart(s, t, c)
  <2>1. Touches(s, t, c)  BY <1>6 DEF Touches
  <2> QED  BY <1>6, <2>1, ApartTouch
<1> HIDE DEF p, G, w, v
<1>8. SameBody(w, v) /\ v.req = w.req  BY <1>1, <1>6 DEF Web, SameBody
<1> QED  BY <1>7, <1>8 DEF w, v, t, h

\* From s to t, a connection that is not answered stays so, and the others do not notice.
StaysFresh(s, t, c) == Apart(s, t, c) /\ Fresh(t, c) /\ t.web[c].req = s.web[c].req

\* One after the other
LEMMA StaysFreshOn ==
  ASSUME NEW s, NEW t, NEW u, NEW c, StaysFresh(s, t, c), StaysFresh(t, u, c)
  PROVE  StaysFresh(s, u, c)
<1>1. Apart(s, u, c)  BY ApartOn DEF StaysFresh
<1> QED  BY <1>1 DEF StaysFresh

\* Nothing happens.
LEMMA FreshStays ==
  ASSUME NEW s, NEW c, Fresh(s, c)
  PROVE  StaysFresh(s, s, c)
  BY DEF StaysFresh, Apart

\* A flag of the request
LEMMA SetFresh ==
  ASSUME NEW s, Good(s), NEW c \in Conns, Fresh(s, c),
         NEW G \in SUBSET {"AUTH", "RXDATA", "HEAD_OK"}
  PROVE  LET t == Set(s, c, G)
             w == s.web[c]
             v == t.web[c]
         IN  /\ Good(t) /\ StaysFresh(s, t, c)
             /\ v.flags = w.flags \cup G /\ v.files = w.files /\ v.len = w.len
<1> DEFINE t == Set(s, c, G)
           F == s.web[c].flags \cup G
<1>1. G \in SUBSET Flags /\ "RETRYCB" \notin G  BY DEF Flags
<1>2. Flagged(s, t, c, F)  BY <1>1, SetGood
<1>3. Agree(F, s.web[c].flags) /\ F = s.web[c].flags \cup G  BY DEF Agree
<1> HIDE DEF t, F
<1>4. /\ Apart(s, t, c) /\ Fresh(t, c) /\ t.web[c].req = s.web[c].req
      /\ t.web[c].flags = F /\ t.web[c].files = s.web[c].files /\ t.web[c].len = s.web[c].len
  BY <1>2, <1>3, FreshFlagged
<1>5. Good(t)  BY <1>2 DEF Flagged
<1> QED  BY <1>3, <1>4, <1>5 DEF StaysFresh, t

\* web_parse_fname
LEMMA ParseFnameFresh ==
  ASSUME NEW s, Good(s), NEW c \in Conns, Fresh(s, c)
  PROVE  LET t == ParseFname(s, c)
             w == s.web[c]
             v == t.web[c]
         IN  /\ Good(t) /\ StaysFresh(s, t, c)
             /\ v.flags \subseteq w.flags \cup {"AUTH"} /\ v.files = w.files /\ v.len = w.len
<1> DEFINE A == {"AUTH"}
           x == Set(s, c, A)
           t == ParseFname(s, c)
<1>1. t = x \/ t = s  BY DEF ParseFname
<1>2. A \in SUBSET {"AUTH", "RXDATA", "HEAD_OK"} /\ A = {"AUTH"}  OBVIOUS
<1> HIDE DEF A, t
<1>3. /\ Good(x) /\ StaysFresh(s, x, c) /\ x.web[c].flags = s.web[c].flags \cup A
      /\ x.web[c].files = s.web[c].files /\ x.web[c].len = s.web[c].len
  BY <1>2, SetFresh
<1> HIDE DEF x
<1>4. CASE t = x  BY <1>2, <1>3, <1>4 DEF t
<1>5. CASE t = s  BY <1>5, FreshStays DEF t
<1> QED  BY <1>1, <1>4, <1>5

\* webserver_open_file: the pages that are no files
LEMMA OpenSpecialFresh ==
  ASSUME NEW s, Good(s), NEW c \in Conns, Fresh(s, c), s.web[c].files = <<>>,
         NEW p \in {Upload, Root}, p = s.web[c].req.page
  PROVE  StaysFresh(s, OpenSpecial(s, c, p), c)
<1> DEFINE A == {"AUTH"}
           b == IncFp(s, c, Builtin)
           n == 1
           x == Measured(b, c, n)
           y == Set(x, c, A)
           t == OpenSpecial(s, c, p)
           w == s.web[c]
           v == x.web[c]
<1>1. t = y \/ t = x  BY DEF OpenSpecial, Measured
<1>2. A \in SUBSET {"AUTH", "RXDATA", "HEAD_OK"}  OBVIOUS
<1> HIDE DEF A, t
<1>3. Good(b) /\ b.web[c].files = <<Builtin>> /\ b.web[c].flags = w.flags \cup {"FOPEN"}
  BY BuiltinGood
<1>4. Apart(s, b, c) /\ SameBody(w, b.web[c]) /\ b.web[c].req = w.req  BY BuiltinIs
<1>5. n \in Nat /\ n = 1  OBVIOUS
<1> HIDE DEF b, n
<1>6. Good(x)  BY <1>3, <1>5, MeasuredGood
<1>7. /\ Apart(b, x, c) /\ SameBody(b.web[c], v) /\ v.len = n
      /\ v.files = b.web[c].files /\ v.req = b.web[c].req /\ v.flags = b.web[c].flags
  BY <1>3, MeasuredIs
<1> HIDE DEF x
<1>8. Apart(s, x, c)  BY <1>4, <1>7, ApartOn
<1>9. Unsaid(w) /\ "FCALBACK" \notin w.flags
  <2>1. Unsaid(w)  BY DEF Fresh
  <2>2. "FCALBACK" \notin w.flags
    <3>1. w.files # <<Builtin>>  OBVIOUS
    <3>2. ~First(s, c, w.req.page)  BY OneOut DEF First
    <3> QED  BY <3>1, <3>2 DEF Fresh
  <2> QED  BY <2>1, <2>2
<1>10. /\ v.files = <<Builtin>> /\ v.flags = w.flags \cup {"FOPEN"} /\ v.len = 1 /\ v.req = w.req
  BY <1>3, <1>4, <1>5, <1>7
<1>11. SameBody(w, v)  BY <1>4, <1>7 DEF SameBody
<1> HIDE DEF w, v
<1>12. Unsaid(v)  BY <1>9, <1>10, <1>11 DEF Unsaid, SameBody
<1>13. "FOPEN" \in v.flags /\ "FCALBACK" \notin v.flags  BY <1>9, <1>10
<1>14. v.req.page \in {Upload, Root}  BY <1>10 DEF w
<1>15. Fresh(x, c)  BY <1>10, <1>12, <1>13, <1>14 DEF Fresh, v
<1>16. StaysFresh(s, x, c)  BY <1>8, <1>10, <1>15 DEF StaysFresh, v, w
<1>17. StaysFresh(x, y, c)  BY <1>2, <1>6, <1>15, SetFresh
<1> HIDE DEF y
<1>18. StaysFresh(s, y, c)  BY <1>16, <1>17, StaysFreshOn
<1> QED  BY <1>1, <1>16, <1>18 DEF t

\* webserver_open_file: the file that is asked for
LEMMA OpenPageFresh ==
  ASSUME NEW s, Good(s), NEW c \in Conns, Fresh(s, c), s.web[c].files = <<>>, s.web[c].len = 0,
         "FCALBACK" \notin s.web[c].flags, s.web[c].req.kind # "upload",
         NEW p, p = s.web[c].req.page, MayInclude(s, c, p),
         NEW y, y = [IncFopen(s, c, p) EXCEPT !.web[c].page = p]
  PROVE  StaysFresh(s, y, c)
<1> DEFINE g == IncFopen(s, c, p)
           w == s.web[c]
           u == g.web[c]
           v == y.web[c]
           C == IF Pages[p].parsed THEN {"FCALBACK"} ELSE {}
<1>1. /\ Good(g) /\ Apart(s, g, c) /\ SameBody(w, u) /\ u.req = w.req /\ First(g, c, p)
      /\ u.len = w.len + Size(p)
      /\ u.flags = w.flags \cup {"FOPEN"} \cup (IF Pages[p].parsed THEN {"FCALBACK"} ELSE {})
  BY OpensFirst
<1>2. y = [g EXCEPT !.web[c].page = p]  OBVIOUS
<1> HIDE DEF g
<1>3. Same(g, y, c)
  <2>1. \A q : Same(g, [g EXCEPT !.web[c].page = q], c)  BY <1>1, FlightSame
  <2>2. Same(g, [g EXCEPT !.web[c].page = p], c)  BY <2>1, Zenon
  <2> QED  BY <1>2, <2>2, Zenon
<1>4. Apart(g, y, c) /\ y.fs = g.fs /\ SameWeb(u, v)  BY <1>3, Zenon DEF Same
<1>5. First(y, c, p)  BY <1>1, <1>4, Zenon DEF First, SameWeb
<1>6. Size(p) \in Nat /\ p \in DOMAIN Pages
  <2>1. p \in DOMAIN Pages  BY <1>1, Zenon DEF First
  <2> QED  BY <2>1, PageIs
<1> DEFINE m == Size(p)
<1>7. v.len = m
  <2>1. v.len = u.len /\ u.len = w.len + m /\ w.len = 0  BY <1>1, <1>4, Zenon DEF SameWeb
  <2> HIDE DEF m, w, u, v
  <2> QED  BY <1>6, <2>1 DEF m
<1>8. Unsaid(w)  BY Zenon DEF Fresh
<1>9. /\ SameBody(u, v) /\ v.req = w.req /\ v.flags = w.flags \cup {"FOPEN"} \cup C
  <2> HIDE DEF w, u, v
  <2> QED  BY <1>1, <1>4, Zenon DEF SameWeb
<1>10. "FCALBACK" \in v.flags <=> Pages[p].parsed  BY <1>9, Zenon
<1>11. Unsaid(v)
  <2>1. C \subseteq {"FCALBACK"}  OBVIOUS
  <2> HIDE DEF w, u, v, C
  <2> QED  BY <1>1, <1>8, <1>9, <2>1 DEF Unsaid, SameBody
<1>12. v.req.page = p /\ v.req.kind # "upload" /\ "FOPEN" \in v.flags  BY <1>9, Zenon
<1>13. Fresh(y, c)
  <2> HIDE DEF w, u, C
  <2> QED  BY <1>5, <1>7, <1>10, <1>11, <1>12, Zenon DEF Fresh
<1>14. Apart(s, y, c)  BY <1>1, <1>4, ApartOn, Zenon
<1> QED  BY <1>9, <1>13, <1>14, Zenon DEF StaysFresh

\* parse_header: the file is opened.
LEMMA OpenedFresh ==
  ASSUME NEW s, Good(s), NEW c \in Conns, Fresh(s, c), Early(s.web[c])
  PROVE  StaysFresh(s, Opened(s, c), c)
<1> DEFINE w == s.web[c]
           t == Opened(s, c)
           f == ParseFname(s, c)
           p == w.req.page
           x == OpenSpecial(f, c, p)
           y == [IncFopen(f, c, p) EXCEPT !.web[c].page = p]
<1>1. \/ t = s
      \/ ~Has(s, c, "FOPEN") /\ t = OpenFile(f, c, p)
  BY DEF Opened
<1> HIDE DEF t
<1>2. CASE t = s  BY <1>2, FreshStays DEF t
<1>3. CASE ~Has(s, c, "FOPEN") /\ t = OpenFile(f, c, p)
  <2>1. \/ Special(f, p) /\ t = x
        \/ ~Special(f, p) /\ MayInclude(f, c, p) /\ t = y
        \/ t = f
    BY <1>3, Zenon DEF OpenFile
  <2>2. /\ Good(f) /\ StaysFresh(s, f, c)
        /\ f.web[c].flags \subseteq w.flags \cup {"AUTH"} /\ f.web[c].files = w.files
        /\ f.web[c].len = w.len
    BY ParseFnameFresh
  <2> HIDE DEF f
  <2>3. w.files = <<>> /\ w.len = 0 /\ "FCALBACK" \notin w.flags  BY <1>3 DEF Fresh, Has
  <2>4. /\ Fresh(f, c) /\ f.web[c].req = w.req /\ f.web[c].files = <<>> /\ f.web[c].len = 0
        /\ "FCALBACK" \notin f.web[c].flags
    BY <2>2, <2>3 DEF StaysFresh
  <2>5. p = f.web[c].req.page  BY <2>4
  <2>6. CASE Special(f, p) /\ t = x
    <3>1. p \in {Upload, Root}  BY <2>6 DEF Special
    <3> HIDE DEF p
    <3>2. StaysFresh(f, x, c)  BY <2>2, <2>4, <2>5, <3>1, OpenSpecialFresh
    <3> HIDE DEF x
    <3> QED  BY <2>2, <2>6, <3>2, StaysFreshOn DEF t
  <2>7. CASE ~Special(f, p) /\ MayInclude(f, c, p) /\ t = y
    <3>1. p # Upload  BY <2>7 DEF Special
    <3>2. w.req.kind # "upload"  BY <3>1 DEF Early
    <3>3. f.web[c].req.kind # "upload"  BY <2>4, <3>2
    <3> HIDE DEF p, w
    <3>4. StaysFresh(f, y, c)  BY <2>2, <2>4, <2>5, <2>7, <3>3, OpenPageFresh
    <3> HIDE DEF y
    <3> QED  BY <2>2, <2>7, <3>4, StaysFreshOn DEF t
  <2>8. CASE t = f  BY <2>2, <2>8 DEF t
  <2> QED  BY <2>1, <2>6, <2>7, <2>8, Zenon
<1> QED  BY <1>1, <1>2, <1>3

\* parse_header: the length of a content, which is not announced
LEMMA ContentFresh ==
  ASSUME NEW s, Good(s), NEW c \in Conns, Fresh(s, c), "FOPEN" \in s.web[c].flags,
         Proper(s.web[c].req)
  PROVE  LET t == Content(s, c)
         IN  /\ Good(t) /\ StaysFresh(s, t, c) /\ "FOPEN" \in t.web[c].flags
             /\ t.web[c].req.kind = "upload" => "RXDATA" \in t.web[c].flags
<1> DEFINE w == s.web[c]
           n == w.req.more
           R == {"RXDATA"}
           x == Measured(s, c, n)
           y == Set(x, c, R)
           t == Content(s, c)
           v == x.web[c]
           p == w.req.page
<1>1. \/ t = s /\ w.req.kind # "upload"
      \/ t = x /\ w.req.kind = "post" /\ n # 0
      \/ t = y /\ w.req.kind = "upload"
  <2>1. w.req.kind \in {"get", "post", "upload"}
    <3>1. w.req \in Request \cup {NewWeb.req}  BY PutIs, WebIs
    <3>2. CASE w.req \in Request  BY <3>2 DEF Request
    <3>3. CASE w.req = NewWeb.req  BY <3>3, NewIs
    <3> QED  BY <3>1, <3>2, <3>3
  <2> QED  BY <2>1 DEF Content, Measured
<1>2. n \in Nat  BY RequestIs
<1>3. R \in SUBSET {"AUTH", "RXDATA", "HEAD_OK"} /\ R = {"RXDATA"}  OBVIOUS
<1>4. n # 0 => n > 0
  <2> HIDE DEF n
  <2> QED  BY <1>2
<1>5. w.req.kind = "post" /\ n > 0 =>
        p \notin {Upload, Root} /\ (p \in DOMAIN Pages => Pages[p].parsed)
  BY DEF Proper
<1> HIDE DEF t, n, R
<1>6. Good(x)  BY <1>2, MeasuredGood
<1>7. /\ Apart(s, x, c) /\ x.fs = s.fs /\ SameBody(w, v)
      /\ v.files = w.files /\ v.req = w.req /\ v.flags = w.flags
  BY MeasuredIs
<1> HIDE DEF x
<1>8. Unsaid(w) /\ "FOPEN" \in w.flags  BY DEF Fresh
<1>9. Unsaid(v)
  <2> HIDE DEF w, v
  <2> QED  BY <1>7, <1>8 DEF Unsaid, SameBody
<1>10. First(s, c, p) => First(x, c, p) /\ p \in DOMAIN Pages  BY <1>7 DEF First
<1>11. \/ w.req.kind = "upload"
       \/ w.req.kind = "post" /\ p \notin {Upload, Root} /\ (p \in DOMAIN Pages => Pages[p].parsed)
       => Fresh(x, c)
  <2> SUFFICES ASSUME \/ w.req.kind = "upload"
                      \/ /\ w.req.kind = "post" /\ p \notin {Upload, Root}
                         /\ p \in DOMAIN Pages => Pages[p].parsed
               PROVE  Fresh(x, c)
    OBVIOUS
  <2>1. \/ /\ w.files = <<Builtin>> /\ "FCALBACK" \notin w.flags
           /\ w.req.kind # "upload" => p \in {Upload, Root}
        \/ /\ First(s, c, p) /\ w.req.kind # "upload"
           /\ Pages[p].parsed <=> "FCALBACK" \in w.flags
    BY <1>8 DEF Fresh
  <2>2. CASE /\ w.files = <<Builtin>> /\ "FCALBACK" \notin w.flags
             /\ w.req.kind # "upload" => p \in {Upload, Root}
    <3>1. w.req.kind = "upload"  BY <2>2
    <3> HIDE DEF p
    <3> QED  BY <1>7, <1>8, <1>9, <2>2, <3>1 DEF Fresh
  <2>3. CASE /\ First(s, c, p) /\ w.req.kind # "upload"
             /\ Pages[p].parsed <=> "FCALBACK" \in w.flags
    <3>1. Pages[p].parsed /\ First(x, c, p)  BY <1>10, <2>3
    <3>2. v.req.page = p  BY <1>7
    <3> HIDE DEF p
    <3> QED  BY <1>7, <1>8, <1>9, <2>3, <3>1, <3>2 DEF Fresh
  <2> QED  BY <2>1, <2>2, <2>3
<1>12. CASE t = s /\ w.req.kind # "upload"  BY <1>12, FreshStays DEF t
<1>13. CASE t = x /\ w.req.kind = "post" /\ n # 0
  <2>1. Fresh(x, c)  BY <1>4, <1>5, <1>11, <1>13
  <2> QED  BY <1>6, <1>7, <1>8, <1>13, <2>1 DEF StaysFresh, t
<1>14. CASE t = y /\ w.req.kind = "upload"
  <2>1. Fresh(x, c)  BY <1>11, <1>14
  <2>2. StaysFresh(s, x, c)  BY <1>7, <2>1 DEF StaysFresh
  <2>3. Good(y) /\ StaysFresh(x, y, c) /\ y.web[c].flags = v.flags \cup R
    BY <1>3, <1>6, <2>1, SetFresh
  <2> HIDE DEF y
  <2>4. StaysFresh(s, y, c)  BY <2>2, <2>3, StaysFreshOn
  <2> QED  BY <1>3, <1>7, <1>8, <1>14, <2>3, <2>4 DEF t
<1> QED  BY <1>1, <1>12, <1>13, <1>14

\* The result p of parsing: who does not wait has a page to be answered with, or an error.
ParsesFresh(s, p, c) ==
  LET v == p.s.web[c]
  IN  /\ StaysFresh(s, p.s, c)
      /\ p.status = 404 => "FOPEN" \notin v.flags
      /\ p.status = 200 =>
           "FOPEN" \in v.flags /\ (v.req.kind = "upload" => "RXDATA" \in v.flags)

\* One after the other
LEMMA ParsesFreshOn ==
  ASSUME NEW s, NEW t, NEW p, NEW c, StaysFresh(s, t, c), ParsesFresh(t, p, c)
  PROVE  ParsesFresh(s, p, c)
<1>1. StaysFresh(s, p.s, c)  BY StaysFreshOn DEF ParsesFresh
<1> QED  BY <1>1 DEF ParsesFresh

\* A request that waits, or an error
LEMMA StaysParsedFresh ==
  ASSUME NEW s, NEW c, Fresh(s, c), NEW n, n # 200, n = 404 => "FOPEN" \notin s.web[c].flags
  PROVE  ParsesFresh(s, [s |-> s, status |-> n], c)
<1>1. StaysFresh(s, s, c)  BY FreshStays
<1> QED  BY <1>1 DEF ParsesFresh

\* parse_header: a request that is not complete
LEMMA MoreToComeFresh ==
  ASSUME NEW s, NEW c, Fresh(s, c)
  PROVE  ParsesFresh(s, MoreToCome(s, c), c)
<1>1. \/ MoreToCome(s, c) = [s |-> s, status |-> 0]
      \/ MoreToCome(s, c) = [s |-> s, status |-> 413]
  BY DEF MoreToCome, Wait, Status
<1> QED  BY <1>1, StaysParsedFresh

\* parse_header, once the header is complete and the file open
LEMMA HeadParsedFresh ==
  ASSUME NEW s, Good(s), NEW c \in Conns, Fresh(s, c), "FOPEN" \in s.web[c].flags,
         s.web[c].req.kind = "upload" => "RXDATA" \in s.web[c].flags
  PROVE  ParsesFresh(s, HeadParsed(s, c), c)
<1> DEFINE w == s.web[c]
           A == {"AUTH"}
           x == Clr(s, c, A)
           F == w.flags \ A
           p == HeadParsed(s, c)
<1>1. \/ p = MoreToCome(s, c)
      \/ p = [s |-> s, status |-> 401]
      \/ p = [s |-> x, status |-> 200]
  BY HeadParsedIs
<1>2. A = {"AUTH"} /\ A \subseteq {"AUTH", "RXDATA", "HEAD_OK"}  OBVIOUS
<1> HIDE DEF A, p
<1>3. Flagged(s, x, c, F)  BY ClrGood
<1> HIDE DEF x
<1>4. StaysFresh(s, x, c) /\ x.web[c].flags = F /\ x.web[c].req = w.req
  <2>1. Agree(F, s.web[c].flags)  BY <1>2 DEF Agree
  <2> HIDE DEF F
  <2>2. /\ Apart(s, x, c) /\ Fresh(x, c) /\ x.web[c].req = s.web[c].req
        /\ x.web[c].flags = F
    BY <1>3, <2>1, FreshFlagged
  <2> QED  BY <2>2 DEF StaysFresh
<1>5. CASE p = MoreToCome(s, c)  BY <1>5, MoreToComeFresh DEF p
<1>6. CASE p = [s |-> s, status |-> 401]
  <2> DEFINE n == 401
  <2>1. n # 200 /\ n # 404 /\ p = [s |-> s, status |-> n]  BY <1>6
  <2> HIDE DEF n
  <2>2. ParsesFresh(s, p, c)  BY <2>1, StaysParsedFresh
  <2> QED  BY <2>2 DEF p
<1>7. CASE p = [s |-> x, status |-> 200]
  <2>1. p.s = x /\ p.status = 200  BY <1>7
  <2>2. "FOPEN" \in F /\ (w.req.kind = "upload" => "RXDATA" \in F)  BY <1>2
  <2> HIDE DEF w, F
  <2> QED  BY <1>4, <2>1, <2>2 DEF ParsesFresh, p
<1> QED  BY <1>1, <1>5, <1>6, <1>7

\* parse_header
LEMMA ParsedFresh ==
  ASSUME NEW s, Good(s), NEW c \in Conns, Fresh(s, c), Early(s.web[c]),
         Proper(s.web[c].req), NEW p \in Parsed(s, c)
  PROVE  ParsesFresh(s, p, c)
<1> DEFINE t == Opened(s, c)
           x == Content(t, c)
<1>1. \/ p = MoreToCome(s, c)
      \/ p = HeadParsed(x, c) /\ "FOPEN" \in t.web[c].flags
      \/ p = [s |-> t, status |-> 404] /\ "FOPEN" \notin t.web[c].flags
      \/ \E n \in {400, 501} : p = [s |-> s, status |-> n]
  <2>1. s.web[c].got \in Nat /\ s.web[c].req.head \in Nat  BY RequestIs
  <2>2. s.web[c].got < s.web[c].req.head \/ s.web[c].got >= s.web[c].req.head  BY <2>1
  <2>3. CASE ~s.web[c].req.line  BY <2>3 DEF Parsed, Status
  <2>4. CASE s.web[c].req.line /\ s.web[c].got < s.web[c].req.head
    <3>1. ~(s.web[c].got >= s.web[c].req.head)  BY <2>1, <2>4
    <3> QED  BY <2>4, <3>1 DEF Parsed
  <2>5. CASE s.web[c].req.line /\ s.web[c].got >= s.web[c].req.head
    <3>1. ~(s.web[c].got < s.web[c].req.head)  BY <2>1, <2>5
    <3> QED  BY <2>5, <3>1 DEF Parsed, Status, Has
  <2> QED  BY <2>2, <2>3, <2>4, <2>5
<1>2. Good(t) /\ StaysFresh(s, t, c)  BY OpenedGood, OpenedFresh
<1> HIDE DEF t
<1>3. Fresh(t, c) /\ t.web[c].req = s.web[c].req  BY <1>2 DEF StaysFresh
<1>4. CASE p = MoreToCome(s, c)  BY <1>4, MoreToComeFresh
<1>5. CASE p = HeadParsed(x, c) /\ "FOPEN" \in t.web[c].flags
  <2>1. /\ Good(x) /\ StaysFresh(t, x, c) /\ "FOPEN" \in x.web[c].flags
        /\ x.web[c].req.kind = "upload" => "RXDATA" \in x.web[c].flags
    BY <1>2, <1>3, <1>5, ContentFresh
  <2> HIDE DEF x
  <2>2. Fresh(x, c)  BY <2>1 DEF StaysFresh
  <2>3. ParsesFresh(x, p, c)  BY <1>5, <2>1, <2>2, HeadParsedFresh
  <2>4. StaysFresh(s, x, c)  BY <1>2, <2>1, StaysFreshOn
  <2> QED  BY <2>3, <2>4, ParsesFreshOn
<1>6. CASE p = [s |-> t, status |-> 404] /\ "FOPEN" \notin t.web[c].flags
  <2>1. ParsesFresh(t, p, c)  BY <1>3, <1>6, StaysParsedFresh
  <2> QED  BY <1>2, <2>1, ParsesFreshOn
<1>7. ASSUME NEW n \in {400, 501}, p = [s |-> s, status |-> n]
      PROVE  ParsesFresh(s, p, c)
  <2>1. n # 200 /\ n # 404  BY <1>7
  <2> QED  BY <1>7, <2>1, StaysParsedFresh
<1> QED  BY <1>1, <1>4, <1>5, <1>6, <1>7

\* The result p of receiving a segment: who waits is not answered yet, and who does not can
\* be answered.
HeardFresh(s, p, c) ==
  LET w == s.web[c]
      v == p.s.web[c]
  IN  /\ Apart(s, p.s, c) /\ v.req = w.req
      /\ IF p.status = 0 THEN Fresh(p.s, c) ELSE Ripe(p.s, c, p.status)

\* parse_header and what webserver_received_data does with its result
LEMMA HeadReceivedFresh ==
  ASSUME NEW s, Good(s), NEW c \in Conns, Fresh(s, c), Early(s.web[c]),
         Proper(s.web[c].req), NEW q \in HeadReceived(s, c)
  PROVE  HeardFresh(s, q, c)
<1> DEFINE H == {"HEAD_OK"}
           x(p) == Set(p.s, c, H)
<1>1. PICK p \in Parsed(s, c) :
        \/ q = p /\ p.status = 0
        \/ q = [s |-> x(p), status |-> 0]
        \/ /\ q = [s |-> x(p), status |-> p.status] /\ p.status # 0
           /\ p.status = 200 => "RXDATA" \notin p.s.web[c].flags
  BY DEF HeadReceived, Wait, Status, Has
<1> DEFINE y == p.s
           t == Set(y, c, H)
           w == y.web[c]
           v == t.web[c]
           n == p.status
<1>2. Good(y) /\ n \in {0, 200} \cup Errors  BY ParsedGood DEF Parses
<1>3. /\ StaysFresh(s, y, c) /\ (n = 404 => "FOPEN" \notin w.flags)
      /\ n = 200 => "FOPEN" \in w.flags /\ (w.req.kind = "upload" => "RXDATA" \in w.flags)
  BY ParsedFresh DEF ParsesFresh
<1>4. H \in SUBSET {"AUTH", "RXDATA", "HEAD_OK"} /\ H = {"HEAD_OK"}  OBVIOUS
<1>5. \/ q = p /\ n = 0
      \/ q = [s |-> t, status |-> 0]
      \/ /\ q = [s |-> t, status |-> n] /\ n # 0
         /\ n = 200 => "RXDATA" \notin w.flags
  BY <1>1
<1> HIDE DEF H, x, y
<1>6. Fresh(y, c) /\ w.req = s.web[c].req  BY <1>3 DEF StaysFresh
<1>7. Good(t) /\ StaysFresh(y, t, c) /\ v.flags = w.flags \cup H  BY <1>2, <1>4, <1>6, SetFresh
<1> HIDE DEF t
<1>8. StaysFresh(s, t, c)  BY <1>3, <1>7, StaysFreshOn
<1>9. Apart(s, t, c) /\ Fresh(t, c) /\ v.req = w.req /\ v.req = s.web[c].req
  BY <1>6, <1>7, <1>8 DEF StaysFresh
<1>10. CASE q = p /\ n = 0
  <2>1. q.s = y /\ q.status = 0  BY <1>10 DEF y
  <2> QED  BY <1>3, <2>1 DEF HeardFresh, StaysFresh
<1>11. CASE q = [s |-> t, status |-> 0]
  <2>1. q.s = t /\ q.status = 0  BY <1>11
  <2> QED  BY <1>9, <2>1 DEF HeardFresh
<1>12. CASE /\ q = [s |-> t, status |-> n] /\ n # 0
            /\ n = 200 => "RXDATA" \notin w.flags
  <2>1. q.s = t /\ q.status = n  BY <1>12
  <2>2. \/ n \in Errors \ {404}
        \/ n = 404 /\ "FOPEN" \notin v.flags
        \/ n = 200 /\ "FOPEN" \in v.flags /\ v.req.kind # "upload"
    <3> HIDE DEF n, v, w
    <3>1. n \in Errors \/ n = 200  BY <1>2, <1>12
    <3> QED  BY <1>3, <1>4, <1>7, <1>9, <1>12, <3>1
  <2>3. Proper(v.req)  BY <1>9
  <2> HIDE DEF n
  <2>4. Ripe(t, c, n)  BY <1>7, <1>9, <2>2, <2>3, FreshRipe
  <2> QED  BY <1>9, <1>12, <2>1, <2>4 DEF HeardFresh
<1> QED  BY <1>5, <1>10, <1>11, <1>12

(***************************************************************************)
(* The upload of a disk                                                    *)
(***************************************************************************)
\* While nobody reads, the file system may change.
LEMMA CleanApart ==
  ASSUME NEW s, Clean(s), NEW t, t.web = s.web, NEW c
  PROVE  Apart(s, t, c)
  BY DEF Apart, Clean

\* The result p of a piece of a disk, before what is common to all that end it
TellsFresh(s, p, c) ==
  LET w == s.web[c]
      v == p.s.web[c]
  IN  /\ Apart(s, p.s, c) /\ SameBody(w, v) /\ v.files = w.files /\ v.req = w.req
      /\ v.flags \subseteq w.flags \cup {"REDIR"} /\ p.status \in {200, 400}

\* upload_boundary: the peer is told.
LEMMA ToldFresh ==
  ASSUME NEW s, Clean(s), NEW t, Good(t), t.web = s.web, NEW c \in Conns, NEW n \in {200, 400}
  PROVE  TellsFresh(s, Told(t, c, n), c)
<1> DEFINE R == {"REDIR"}
           x == Set(t, c, R)
           F == t.web[c].flags \cup R
           p == Told(t, c, n)
<1>1. \/ p = [s |-> t, status |-> n]
      \/ p = [s |-> x, status |-> 200]
  BY DEF Told, Status
<1>2. R \in SUBSET Flags /\ "RETRYCB" \notin R /\ R = {"REDIR"}  BY DEF Flags
<1> HIDE DEF R, p
<1>3. Flagged(t, x, c, F)  BY <1>2, SetGood
<1> HIDE DEF x
<1>4. /\ Apart(t, x, c) /\ SameBody(t.web[c], x.web[c]) /\ SameFiles(t.web[c], x.web[c])
      /\ x.web[c].flags = F
  <2> HIDE DEF F
  <2> QED  BY <1>3, FlaggedIs
<1>5. Apart(s, t, c)  BY CleanApart
<1>6. Apart(s, x, c)  BY <1>4, <1>5, ApartOn
<1>7. CASE p = [s |-> t, status |-> n]
  <2>1. p.s = t /\ p.status = n  BY <1>7
  <2> QED  BY <1>5, <2>1 DEF TellsFresh, SameBody, p
<1>8. CASE p = [s |-> x, status |-> 200]
  <2>1. p.s = x /\ p.status = 200  BY <1>8
  <2> QED  BY <1>2, <1>4, <1>6, <2>1 DEF TellsFresh, SameFiles, p
<1> QED  BY <1>1, <1>7, <1>8

\* upload_boundary: the head of a disk
LEMMA DiskHeadFresh ==
  ASSUME NEW s, Good(s), Clean(s), NEW c \in Conns, NEW p \in DiskHead(s, c) \cup {Wait(s)}
  PROVE  \/ p.status # 0 /\ TellsFresh(s, p, c)
         \/ p.status = 0 /\ p.s.web = s.web
<1>1. \/ p = [s |-> Locked(s), status |-> 0]
      \/ p = [s |-> s, status |-> 0]
      \/ p = Told(s, c, 400)
  BY DEF DiskHead, Wait, Locked
<1>2. CASE p = [s |-> Locked(s), status |-> 0]
  <2>1. p.s = Locked(s) /\ p.status = 0  BY <1>2
  <2> QED  BY <2>1, LockedGood
<1>3. CASE p = [s |-> s, status |-> 0]
  <2>1. p.s = s /\ p.status = 0  BY <1>3
  <2> QED  BY <2>1
<1>4. CASE p = Told(s, c, 400)
  <2> DEFINE n == 400
  <2>1. n \in {200, 400} /\ p = Told(s, c, n)  BY <1>4
  <2> HIDE DEF n
  <2>2. TellsFresh(s, p, c)  BY <2>1, ToldFresh
  <2>3. p.status # 0  BY <2>2 DEF TellsFresh
  <2> QED  BY <2>2, <2>3
<1> QED  BY <1>1, <1>2, <1>3, <1>4

\* upload_boundary: the end of a disk
LEMMA DiskEndFresh ==
  ASSUME NEW s, NEW t, Good(t), t.web = s.web, Clean(s), NEW c \in Conns, NEW p \in DiskEnd(t, c)
  PROVE  TellsFresh(s, p, c)
<1>1. PICK good \in BOOLEAN, n \in {200, 400} : p = Told(FsInit(t, good), c, n)
  BY DEF DiskEnd
<1>2. Clean(t)  BY DEF Clean
<1> DEFINE u == FsInit(t, good)
<1>3. Good(u) /\ u.web = t.web  BY <1>2, FsInitGood
<1> HIDE DEF u
<1>4. p = Told(u, c, n) /\ u.web = s.web  BY <1>1, <1>3 DEF u
<1> QED  BY <1>3, <1>4, ToldFresh

\* What ends a disk can be answered: nothing is announced, or 400.
LEMMA ClosingRipe ==
  ASSUME NEW s, Good(s), NEW c \in Conns, Unsaid(s.web[c]), Len(s.web[c].files) <= 1,
         NEW t, Good(t), NEW n, n # 0, TellsFresh(s, [s |-> t, status |-> n], c)
  PROVE  HeardFresh(s, Closing([s |-> t, status |-> n], c), c)
<1> DEFINE D == {"DISCONNECT"}
           k == 0
           x == Measured(t, c, k)
           y == Set(x, c, D)
           q == Closing([s |-> t, status |-> n], c)
           w == s.web[c]
           v == y.web[c]
           F == x.web[c].flags \cup D
<1>1. q = [s |-> y, status |-> n]  BY DEF Closing, Measured
<1>2. /\ Apart(s, t, c) /\ SameBody(w, t.web[c]) /\ t.web[c].files = w.files
      /\ t.web[c].req = w.req /\ t.web[c].flags \subseteq w.flags \cup {"REDIR"}
      /\ n \in {200, 400}
  BY DEF TellsFresh
<1>3. /\ D \in SUBSET Flags /\ "RETRYCB" \notin D /\ D = {"DISCONNECT"} /\ k \in Nat /\ k = 0
  BY DEF Flags
<1> HIDE DEF D, k, q
<1>4. Good(x)  BY <1>3, MeasuredGood
<1>5. /\ Apart(t, x, c) /\ SameBody(t.web[c], x.web[c]) /\ x.web[c].len = k
      /\ x.web[c].files = t.web[c].files /\ x.web[c].req = t.web[c].req
      /\ x.web[c].flags = t.web[c].flags
  BY MeasuredIs
<1> HIDE DEF x
<1>6. Flagged(x, y, c, F)  BY <1>3, <1>4, SetGood
<1> HIDE DEF y
<1>7. Apart(x, y, c) /\ SameBody(x.web[c], v) /\ SameFiles(x.web[c], v) /\ v.flags = F
  <2> HIDE DEF F
  <2> QED  BY <1>4, <1>6, FlaggedIs
<1>8. Apart(s, y, c)
  <2>1. Apart(s, x, c)  BY <1>2, <1>5, ApartOn
  <2> QED  BY <1>7, <2>1, ApartOn
<1>9. v.files = w.files /\ v.req = w.req /\ v.len = 0  BY <1>2, <1>3, <1>5, <1>7 DEF SameFiles
<1>10. SameBody(w, v)  BY <1>2, <1>5, <1>7 DEF SameBody
<1>11. v.flags \subseteq w.flags \cup {"REDIR", "DISCONNECT"}  BY <1>2, <1>3, <1>5, <1>7
<1>12. Blank(v)
  <2> HIDE DEF w, v
  <2>1. Unsaid(w)  BY DEF w
  <2> QED  BY <1>10, <1>11, <2>1 DEF Unsaid, Blank, SameBody
<1>13. Len(v.files) <= 1  BY <1>9
<1>14. Ripe(y, c, n)
  <2>1. CASE n = 200  BY <1>9, <1>12, <1>13, <2>1 DEF Ripe
  <2>2. CASE n = 400
    <3>1. n \in Errors \ {404}  BY <2>2 DEF Errors
    <3> QED  BY <1>12, <1>13, <3>1 DEF Ripe
  <2> QED  BY <1>2, <2>1, <2>2
<1>15. q.s = y /\ q.status = n  BY <1>1
<1> QED  BY <1>8, <1>9, <1>14, <1>15 DEF HeardFresh, q

\* A connection that sends a disk waits, whatever becomes of the file system.
LEMMA UploadFresh ==
  ASSUME NEW s, NEW c, Fresh(s, c), s.web[c].req.kind = "upload", NEW t, t.web = s.web
  PROVE  Fresh(t, c)
  BY DEF Fresh

\* A sequence of one element or none
LEMMA AtMostOne ==
  ASSUME NEW h, NEW q, q = <<>> \/ q = <<h>>
  PROVE  Len(q) <= 1
<1>1. CASE q = <<>>
  <2>1. Len(q) = 0  BY <1>1, OneOut
  <2> QED  BY <2>1
<1>2. CASE q = <<h>>  BY <1>2
<1> QED  BY <1>1, <1>2

\* web_rx_buf
LEMMA DiskReceivedFresh ==
  ASSUME NEW s, Good(s), Clean(s), NEW c \in Conns, Fresh(s, c), s.web[c].req.kind = "upload",
         NEW q \in DiskReceived(s, c)
  PROVE  HeardFresh(s, q, c)
<1> DEFINE w == s.web[c]
           whole == w.got = Whole(w.req)
<1>1. PICK h \in DiskHead(s, c) \cup {Wait(s)} :
        \E p \in (IF h.status = 0 /\ whole THEN DiskEnd(h.s, c) ELSE {h}) :
          q = IF p.status = 0 THEN p ELSE Closing(p, c)
  BY DiskReceivedIs
<1>2. PICK p \in (IF h.status = 0 /\ whole THEN DiskEnd(h.s, c) ELSE {h}) :
        q = IF p.status = 0 THEN p ELSE Closing(p, c)
  BY <1>1
<1>3. \/ h.status # 0 /\ TellsFresh(s, h, c)
      \/ h.status = 0 /\ h.s.web = s.web
  BY DiskHeadFresh
<1>4. Good(h.s)  BY DiskHeadGood DEF Tells
<1> HIDE DEF whole
<1>5. \/ /\ p.status # 0 /\ TellsFresh(s, p, c) /\ p = [s |-> p.s, status |-> p.status]
         /\ Good(p.s)
      \/ p.status = 0 /\ p.s.web = s.web
  <2>1. CASE h.status = 0 /\ whole
    <3> DEFINE t == h.s
    <3>1. p \in DiskEnd(t, c) /\ Good(t) /\ t.web = s.web  BY <1>2, <1>3, <1>4, <2>1
    <3> HIDE DEF t
    <3>2. TellsFresh(s, p, c) /\ p.status # 0 /\ Good(p.s)
      BY <3>1, DiskEndFresh, DiskEndGood DEF Tells
    <3> QED  BY <3>1, <3>2, ResultIs
  <2>2. CASE ~(h.status = 0 /\ whole)
    <3>1. p = h  BY <1>2, <2>2
    <3> QED  BY <1>3, <1>4, <3>1, ResultIs
  <2> QED  BY <2>1, <2>2
<1>6. Unsaid(w) /\ Len(w.files) <= 1
  <2>1. Unsaid(w) /\ (w.files = <<>> \/ w.files = <<Builtin>>)  BY DEF Fresh
  <2> DEFINE b == Builtin
             k == w.files
  <2>2. k = <<>> \/ k = <<b>>  BY <2>1
  <2> HIDE DEF b, k
  <2>3. Len(k) <= 1  BY <2>2, AtMostOne
  <2> QED  BY <2>1, <2>3 DEF k
<1>7. CASE /\ p.status # 0 /\ TellsFresh(s, p, c) /\ p = [s |-> p.s, status |-> p.status]
           /\ Good(p.s)
  <2> DEFINE t == p.s
             n == p.status
  <2>1. /\ q = Closing([s |-> t, status |-> n], c) /\ n # 0 /\ Good(t)
        /\ TellsFresh(s, [s |-> t, status |-> n], c)
    BY <1>2, <1>7
  <2> HIDE DEF t, n
  <2> QED  BY <1>6, <2>1, ClosingRipe
<1>8. CASE p.status = 0 /\ p.s.web = s.web
  <2>1. q = p  BY <1>2, <1>8
  <2>2. Fresh(p.s, c)  BY <1>8, UploadFresh
  <2>3. Apart(s, p.s, c)  BY <1>8, CleanApart
  <2> QED  BY <1>8, <2>1, <2>2, <2>3 DEF HeardFresh
<1> QED  BY <1>5, <1>7, <1>8

(***************************************************************************)
(* The callbacks                                                           *)
(***************************************************************************)
\* What a callback leaves of a connection that is listened to: it goes on to receive, or
\* sends, or is over.
Receives(s, u, c) ==
  \/ Apart(s, u, c) /\ u.web[c].req = s.web[c].req /\ ~u.web[c].rxnull /\ Fresh(u, c)
  \/ Result(s, u, c)

\* webserver_received_data
LEMMA ReceivedResult ==
  ASSUME DiskOk, NEW s, Good(s), NEW c \in Conns, ~s.web[c].rxnull, Early(s.web[c]),
         "HEAD_OK" \in s.web[c].flags => Clean(s), NoPage \notin Protected,
         Fresh(s, c), Proper(s.web[c].req), NEW u \in Received(s, c)
  PROVE  Receives(s, u, c)
<1>1. \/ u = s
      \/ \E p \in (IF Has(s, c, "HEAD_OK") THEN DiskReceived(s, c) ELSE HeadReceived(s, c)) :
           u \in (IF p.status = 0 THEN {p.s} ELSE Answer(p.s, c, p.status))
  BY DEF Received
<1>2. CASE u = s  BY <1>2 DEF Receives, Apart
<1>3. ASSUME NEW p \in (IF Has(s, c, "HEAD_OK") THEN DiskReceived(s, c) ELSE HeadReceived(s, c)),
             u \in (IF p.status = 0 THEN {p.s} ELSE Answer(p.s, c, p.status))
      PROVE  Receives(s, u, c)
  <2>1. Heard(s, p, c) /\ HeardFresh(s, p, c)
    <3>1. CASE Has(s, c, "HEAD_OK")
      <4>1. Clean(s) /\ s.web[c].page = NoPage /\ s.web[c].req.kind = "upload"
        BY <3>1 DEF Has, Early
      <4> QED  BY <1>3, <3>1, <4>1, DiskReceivedGood, DiskReceivedFresh
    <3>2. CASE ~Has(s, c, "HEAD_OK")  BY <1>3, <3>2, HeadReceivedGood, HeadReceivedFresh
    <3> QED  BY <3>1, <3>2
  <2> DEFINE t == p.s
             n == p.status
  <2>2. /\ Good(t) /\ Silent(s, t, c) /\ Apart(s, t, c) /\ t.web[c].req = s.web[c].req
        /\ n = 0 => Fresh(t, c)
        /\ n # 0 => /\ t.web[c].flight = 0 /\ t.web[c].body = <<>> /\ n \in Errors \cup {200}
                    /\ "REDIR" \notin t.web[c].flags /\ n = 200 => Open(t.web[c])
                    /\ Ripe(t, c, n)
    BY <2>1 DEF Heard, HeardFresh
  <2>3. u \in (IF n = 0 THEN {t} ELSE Answer(t, c, n))  BY <1>3
  <2> HIDE DEF t, n
  <2>4. CASE n = 0
    <3>1. u = t /\ ~t.web[c].rxnull  BY <2>2, <2>3, <2>4 DEF Silent, Talks
    <3> QED  BY <2>2, <2>4, <3>1 DEF Receives
  <2>5. CASE n # 0
    <3>1. u \in Answer(t, c, n)  BY <2>3, <2>5
    <3>2. n \in Errors \cup {200} /\ t.web[c].flight = 0 /\ t.web[c].body = <<>>
          /\ ("REDIR" \notin t.web[c].flags /\ n = 200 => Open(t.web[c])) /\ Ripe(t, c, n)
      BY <2>2, <2>5
    <3>3. Result(t, u, c)  BY <2>2, <3>1, <3>2, AnswerResult
    <3>4. Apart(s, u, c)  BY <2>2, <3>3, ApartOn DEF Result
    <3> QED  BY <3>3, <3>4 DEF Result, Receives
  <2> QED  BY <2>4, <2>5
<1> QED  BY <1>1, <1>2, <1>3

(***************************************************************************)
(* The invariant                                                           *)
(***************************************************************************)
\* Who is answered sends, or is over; who is not has sent nothing.
FrameOk(s, d) ==
  LET w == s.web[d]
  IN  /\ w.st # "free" => Proper(w.req)
      /\ IF w.rxnull THEN Done(w) \/ Sending(s, d) ELSE Fresh(s, d)
FrameInv == \A d \in Conns : FrameOk(Now, d)

\* The files of a connection are where they were.
LEMMA ApartFiles ==
  ASSUME NEW s, Good(s), NEW c, NEW t, Apart(s, t, c), NEW d \in Conns, d # c
  PROVE  LET q == s.web[d].files
         IN  /\ t.web[d] = s.web[d]
             /\ \A i \in 1 .. Len(q) : q[i] # Builtin => t.fs.table[q[i]] = s.fs.table[q[i]]
<1> DEFINE q == s.web[d].files
<1>1. q \in Seq(Handles)  BY PutIs, WebIs
<1>2. t.web[d] = s.web[d] /\ \A h \in 1 .. MaxOpen : Holding(q, h) => t.fs.table[h] = s.fs.table[h]
  BY DEF Apart
<1> HIDE DEF q
<1>3. ASSUME NEW i \in 1 .. Len(q), q[i] # Builtin
      PROVE  t.fs.table[q[i]] = s.fs.table[q[i]]
  <2> DEFINE h == q[i]
  <2>1. h \in Handles  BY <1>1
  <2>2. Holding(q, h)  BY DEF Holding
  <2> HIDE DEF h
  <2>3. h \in 1 .. MaxOpen  BY <1>3, <2>1, Constants DEF Handles, h
  <2>4. t.fs.table[h] = s.fs.table[h]  BY <1>2, <2>2, <2>3
  <2> QED  BY <2>4 DEF h
<1> QED  BY <1>2, <1>3 DEF q

\* What is said of one connection says nothing of the others.
LEMMA ApartSays ==
  ASSUME NEW s, Good(s), NEW c, NEW t, Apart(s, t, c), NEW d \in Conns, d # c, FrameOk(s, d)
  PROVE  FrameOk(t, d)
<1> DEFINE w == s.web[d]
           q == w.files
<1>1. /\ t.web[d] = w
      /\ \A i \in 1 .. Len(q) : q[i] # Builtin => t.fs.table[q[i]] = s.fs.table[q[i]]
  BY ApartFiles
<1>2. Len(q) = 1 /\ q[1] # Builtin => t.fs.table[q[1]] = s.fs.table[q[1]]
  <2> HIDE DEF q
  <2> QED  BY <1>1
<1>3. First(s, d, w.req.page) => First(t, d, w.req.page)  BY <1>1, <1>2 DEF First
<1>4. Fresh(s, d) => Fresh(t, d)
  <2> HIDE DEF w
  <2>1. t.web[d] = w /\ s.web[d] = w  BY <1>1 DEF w
  <2> QED  BY <1>3, <2>1 DEF Fresh
<1>5. Copying(s, d) => Copying(t, d)
  <2>1. t.web[d] = w /\ s.web[d] = w  BY <1>1 DEF w
  <2> HIDE DEF w
  <2> QED  BY <1>2, <2>1 DEF Copying
<1>6. Reading(s, d) => Reading(t, d)
  <2> SUFFICES ASSUME Reading(s, d)  PROVE Reading(t, d)  OBVIOUS
  <2> DEFINE n == Len(q)
             e == s.fs.table[q[n]]
  <2>1. /\ q # <<>> /\ {"FOPEN", "FCALBACK"} \subseteq w.flags /\ Stacked(q, s.fs.table)
        /\ "RETRYCB" \in w.flags => w.cb.done < Lines(w.cb.at)
        /\ Going(e.page, e.pos, n, w.flags, w.cb.at)
    BY Zenon DEF Reading
  <2>2. q \in Seq(Handles)  BY PutIs, WebIs
  <2>3. \A i \in 1 .. n : q[i] # Builtin  BY <2>1, Zenon DEF Stacked
  <2>4. n \in 1 .. n
    <3> HIDE DEF q
    <3> QED  BY <2>1, <2>2
  <2>5. \A i \in 1 .. n : t.fs.table[q[i]] = s.fs.table[q[i]]  BY <1>1, <2>3
  <2>6. t.fs.table[q[n]] = e  BY <2>4, <2>5, Zenon
  <2>7. Stacked(q, t.fs.table)  BY <2>1, <2>5, Zenon DEF Stacked
  <2>8. t.web[d] = w  BY <1>1
  <2> HIDE DEF w, e
  <2> QED  BY <2>1, <2>6, <2>7, <2>8, Zenon DEF Reading
<1>7. Sending(s, d) => Sending(t, d)  BY <1>1, <1>5, <1>6 DEF Sending
<1> QED  BY <1>1, <1>4, <1>7 DEF FrameOk

\* The step of a connection
LEMMA SaysKeeps ==
  ASSUME IInv, FrameInv, NEW c \in Conns, NEW u, Good(u), Become(u), Apart(Now, u, c), FrameOk(u, c)
  PROVE  FrameInv'
<1> DEFINE s == Now
<1>1. Good(s) /\ \A d \in Conns : FrameOk(s, d)  BY DEF IInv, FrameInv
<1>2. Now' = u  BY NowIs
<1> HIDE DEF s
<1>3. Apart(s, u, c)  BY DEF s
<1>4. \A d \in Conns : FrameOk(u, d)
  <2> TAKE d \in Conns
  <2>1. CASE d = c  BY <2>1
  <2>2. CASE d # c  BY <1>1, <1>3, <2>2, ApartSays
  <2> QED  BY <2>1, <2>2
<1> QED  BY <1>2, <1>4 DEF FrameInv

\* A connection that is not used has sent nothing.
LEMMA NewSays ==
  ASSUME NEW s, NEW c, s.web[c] = NewWeb
  PROVE  FrameOk(s, c)
<1>1. /\ NewWeb.mode = "none" /\ ~NewWeb.ended /\ NewWeb.body = <<>> /\ NewWeb.flags = {}
      /\ NewWeb.files = <<>> /\ NewWeb.len = 0 /\ ~NewWeb.rxnull /\ NewWeb.st = "free"
  BY Zenon DEF NewWeb
<1>2. Unsaid(NewWeb)  BY <1>1 DEF Unsaid
<1>3. Fresh(s, c)  BY <1>1, <1>2 DEF Fresh
<1> QED  BY <1>1, <1>3 DEF FrameOk

\* What a callback leaves
LEMMA ResultSays ==
  ASSUME NEW s, NEW c \in Conns, Proper(s.web[c].req), NEW u, Serves(s, u, c),
         Result(s, u, c) \/ (~u.web[c].rxnull /\ Fresh(u, c))
  PROVE  FrameOk(u, c)
<1> DEFINE v == u.web[c]
<1>1. CASE v = NewWeb  BY <1>1, NewSays
<1>2. CASE v # NewWeb
  <2>1. Proper(v.req)  BY <1>2 DEF Serves
  <2>2. \/ v.rxnull /\ (Sending(u, c) \/ Done(v))
        \/ ~v.rxnull /\ Fresh(u, c)
    BY <1>2 DEF Result
  <2> QED  BY <2>1, <2>2 DEF FrameOk
<1> QED  BY <1>1, <1>2

\* At first
LEMMA InitSays == Init => FrameInv
<1> SUFFICES ASSUME Init, NEW c \in Conns  PROVE FrameOk(Now, c)  BY DEF FrameInv
<1>1. Now.web = web /\ web = [d \in Conns |-> NewWeb]  BY DEF Init, Now
<1>2. Now.web[c] = NewWeb  BY <1>1
<1> HIDE DEF Now
<1> QED  BY <1>2, NewSays

\* The connection c of the state is changed to v.
LEMMA PutsNow ==
  ASSUME IInv, NEW c \in Conns, NEW v, NEW s, Puts(Now, s, c, v)
  PROVE  Apart(Now, s, c) /\ s.fs = Now.fs /\ s.web[c] = v
<1>1. Good(Now)  BY DEF IInv
<1>2. Becomes(Now, s, c, v)  BY <1>1, PutsBecomes
<1> QED  BY <1>2, BecomesApart DEF Becomes

\* A peer connects.
LEMMA AcceptSays ==
  ASSUME \A k \in Cfgs : Orderly(k) /\ Decent(k), IInv, FrameInv, NEW c \in Conns, Accept(c)
  PROVE  FrameInv'
<1>1. PICK r \in cfg.reqs : web' = [web EXCEPT ![c].st = "idle", ![c].req = r]  BY DEF Accept
<1> DEFINE w == web[c]
           v == [w EXCEPT !.st = "idle", !.req = r]
           s == [Now EXCEPT !.web[c] = v]
<1>2. fs' = fs /\ w = NewWeb /\ w \in Web /\ web \in [Conns -> Web] /\ Now.web = web /\ Now.fs = fs
  BY ConnIs DEF Accept, WebOk
<1>3. Proper(r)  BY DEF IInv, Decent
<1>4. web' = [web EXCEPT ![c] = v]  BY <1>1, <1>2
<1>5. /\ v.st = "idle" /\ v.req = r /\ v.files = w.files /\ v.flags = w.flags /\ v.len = w.len
      /\ SameBody(w, v) /\ v.rxnull = w.rxnull
  BY <1>2 DEF Web, SameBody
<1>6. Puts(Now, s, c, v)  BY DEF Puts
<1>7. s.fs = fs /\ s.web = web'  BY <1>2, <1>4 DEF Now
<1>8. Become(s)  BY <1>2, <1>7 DEF Become
<1> HIDE DEF v, s
<1>9. Apart(Now, s, c) /\ s.web[c] = v  BY <1>6, PutsNow
<1>10. IInv'  BY AcceptKeeps
<1>11. Good(s)
  <2>1. s = [fs |-> fs', web |-> web']  BY <1>2, <1>7, <1>6 DEF Puts, Now
  <2>2. Good(Now')  BY <1>10 DEF IInv
  <2> QED  BY <2>1, <2>2 DEF Now
<1>12. Fresh(s, c) /\ ~v.rxnull
  <2>1. /\ NewWeb.mode = "none" /\ ~NewWeb.ended /\ NewWeb.body = <<>> /\ NewWeb.flags = {}
        /\ NewWeb.files = <<>> /\ NewWeb.len = 0 /\ ~NewWeb.rxnull
    BY DEF NewWeb
  <2> HIDE DEF w
  <2>2. Unsaid(v)  BY <1>2, <1>5, <2>1 DEF Unsaid, SameBody
  <2> QED  BY <1>2, <1>5, <1>9, <2>1, <2>2 DEF Fresh
<1>13. FrameOk(s, c)  BY <1>3, <1>5, <1>9, <1>12 DEF FrameOk
<1> QED  BY <1>8, <1>9, <1>11, <1>13, SaysKeeps

\* A segment comes.
LEMMA SegmentSays ==
  ASSUME DiskOk, \A k \in Cfgs : Orderly(k), IInv, FrameInv, NEW c \in Conns, Segment(c)
  PROVE  FrameInv'
<1>1. PICK s, u : Segmented(c, s, u) /\ Become(u)  BY SegmentIs
<1> DEFINE w == web[c]
           v == s.web[c]
<1>2. PICK n : Puts(Now, s, c, [w EXCEPT !.got = n, !.st = "open"])  BY <1>1, Zenon DEF Segmented
<1>3. /\ Good(s) /\ w.st # "free" /\ ~w.rxnull /\ ~v.rxnull /\ Early(v) /\ v.req = w.req
      /\ "HEAD_OK" \in v.flags => Clean(s)
      /\ u \in Received(s, c) /\ Serves(s, u, c)
  BY <1>1 DEF Segmented
<1>4. w \in Web /\ Now.web = web  BY ConnIs
<1> DEFINE x == [w EXCEPT !.got = n, !.st = "open"]
<1>5. x.files = w.files /\ x.req = w.req /\ x.len = w.len /\ SameBody(w, x) /\ x.flags = w.flags
  BY <1>4 DEF Web, SameBody
<1> HIDE DEF x
<1>6. Apart(Now, s, c) /\ s.fs = Now.fs /\ v = x
  <2>1. Puts(Now, s, c, x)  BY <1>2 DEF x
  <2> QED  BY <2>1, PutsNow
<1>7. Fresh(Now, c) /\ Proper(v.req)
  <2>1. FrameOk(Now, c) /\ Now.web[c] = w  BY <1>4 DEF FrameInv
  <2> HIDE DEF w
  <2> QED  BY <1>3, <2>1 DEF FrameOk
<1> DEFINE t == Now
<1>8. w = t.web[c]  BY <1>4
<1> HIDE DEF t, w, v
<1>9. Fresh(s, c)
  <2>1. Fresh(t, c) /\ s.fs = t.fs /\ v = s.web[c]  BY <1>6, <1>7 DEF t, v
  <2>2. v.files = w.files /\ v.req = w.req /\ v.len = w.len /\ SameBody(w, v) /\ v.flags = w.flags
    BY <1>5, <1>6
  <2> QED  BY <1>8, <2>1, <2>2, FreshSame
<1>10. Receives(s, u, c)
  <2>1. NoPage \notin Protected  BY WebAssumption
  <2> QED  BY <1>3, <1>7, <1>9, <2>1, ReceivedResult DEF v
<1>11. FrameOk(u, c)
  <2>1. Result(s, u, c) \/ (~u.web[c].rxnull /\ Fresh(u, c))  BY <1>10 DEF Receives
  <2> QED  BY <1>3, <1>7, <2>1, ResultSays DEF v
<1>12. Apart(Now, u, c)
  <2>1. Apart(s, u, c)  BY <1>10 DEF Receives, Result
  <2> QED  BY <1>6, <2>1, ApartOn
<1>13. Good(u)  BY <1>3 DEF Serves
<1> QED  BY <1>1, <1>11, <1>12, <1>13, SaysKeeps

\* The peer acknowledges.
LEMMA AckSays ==
  ASSUME DiskOk, IInv, FrameInv, NEW c \in Conns, Ack(c)
  PROVE  FrameInv'
<1>1. PICK s, u : Acked(c, s, u) /\ Become(u)  BY AckIs
<1> DEFINE w == web[c]
           v == s.web[c]
<1>2. PICK n : Puts(Now, s, c, [w EXCEPT !.flight = n])  BY <1>1 DEF Acked
<1>3. /\ Good(s) /\ v.st # "free" /\ v.st = w.st /\ v.req = w.req /\ w.rxnull /\ v.rxnull
      /\ u = s \/ u \in SentCallback(s, c)
      /\ Serves(s, u, c)
  BY <1>1 DEF Acked
<1>4. w \in Web /\ Now.web = web /\ Good(Now)  BY ConnIs DEF IInv
<1> DEFINE x == [w EXCEPT !.flight = n]
<1>5. SameWeb(w, x)  BY <1>4 DEF Web, SameWeb, SameBody
<1> DEFINE t == Now
<1>6. Puts(t, s, c, x) /\ Good(t) /\ t.web[c] = w  BY <1>2, <1>4
<1>7. (Done(w) \/ Sending(t, c)) /\ Proper(v.req)
  <2>1. FrameOk(t, c)  BY DEF FrameInv
  <2> HIDE DEF t, w
  <2> QED  BY <1>3, <1>6, <2>1 DEF FrameOk
<1> HIDE DEF x, t, w
<1>8. Same(t, s, c)  BY <1>5, <1>6, PutsSame
<1>9. Sending(s, c) \/ Done(v)
  <2>1. CASE Sending(t, c)  BY <1>8, <2>1, SameSending
  <2>2. CASE Done(w)
    <3>1. SameWeb(w, v)  BY <1>6, <1>8 DEF Same
    <3> HIDE DEF v
    <3>2. Framing(v)  BY <2>2, <3>1, FramingSame DEF Done, SameWeb
    <3> QED  BY <2>2, <3>1, <3>2 DEF Done, SameWeb
  <2> QED  BY <1>7, <2>1, <2>2
<1>10. Result(s, u, c)
  <2>1. CASE u = s  BY <1>3, <1>9, <2>1 DEF Result, Apart
  <2>2. CASE u \in SentCallback(s, c)  BY <1>3, <1>9, <2>2, SentCallbackResult
  <2> QED  BY <1>3, <2>1, <2>2
<1>11. FrameOk(u, c)  BY <1>3, <1>7, <1>10, ResultSays
<1>12. Apart(Now, u, c)
  <2>1. Apart(t, s, c) /\ Apart(s, u, c)  BY <1>8, <1>10 DEF Same, Result
  <2>2. Apart(t, u, c)  BY <2>1, ApartOn
  <2> QED  BY <2>2 DEF t
<1>13. Good(u)  BY <1>3 DEF Serves
<1> QED  BY <1>1, <1>11, <1>12, <1>13, SaysKeeps

\* The connection ends.
LEMMA LoseSays ==
  ASSUME IInv, FrameInv, NEW c \in Conns, Lose(c)
  PROVE  FrameInv'
<1> DEFINE s == Now
           u == Gone(s, c)
<1>1. Become(u)  BY DEF Lose
<1>2. Good(s)  BY DEF IInv
<1> HIDE DEF s
<1>3. Good(u) /\ Apart(s, u, c) /\ u.web[c] = NewWeb  BY <1>2, GoneGood, GoneApart
<1> HIDE DEF u
<1>4. FrameOk(u, c)  BY <1>3, NewSays
<1> QED  BY <1>1, <1>3, <1>4, SaysKeeps DEF s

\* The body of every answer is as long as its header said, or is ended by the last chunk, when
\* it is over: wherever the buffer is full, whatever was included, and if memory fails it is
\* not said to be whole.
THEOREM BodiesFramed ==
  ASSUME DiskOk, \A k \in Cfgs : Orderly(k) /\ Decent(k)
  PROVE  Spec => []Framed
<1>1. Init => FrameInv  BY InitSays
<1>2. IInv /\ FrameInv /\ [Next]_vars => FrameInv'
  <2> SUFFICES ASSUME IInv, FrameInv, [Next]_vars  PROVE FrameInv'  OBVIOUS
  <2>1. CASE Next
    <3>1. PICK c \in Conns : Accept(c) \/ Segment(c) \/ Ack(c) \/ Lose(c)  BY <2>1 DEF Next
    <3>2. CASE Accept(c)  BY <3>2, AcceptSays
    <3>3. CASE Segment(c)  BY <3>3, SegmentSays
    <3>4. CASE Ack(c)  BY <3>4, AckSays
    <3>5. CASE Lose(c)  BY <3>5, LoseSays
    <3> QED  BY <3>1, <3>2, <3>3, <3>4, <3>5
  <2>2. CASE UNCHANGED vars
    <3>1. Now' = Now  BY <2>2 DEF vars, Now
    <3> QED  BY <3>1 DEF FrameInv
  <2> QED  BY <2>1, <2>2
<1>3. IInv /\ FrameInv => Framed
  <2> SUFFICES ASSUME IInv, FrameInv, NEW c \in Conns
               PROVE  LET w == web[c]
                      IN  /\ w.mode = "length" => Len(w.body) <= w.length
                          /\ w.mode = "length" /\ Finished(w) => Len(w.body) = w.length
                          /\ w.mode = "chunked" /\ Finished(w) => w.ended
                          /\ w.ended => {"FCLOSE", "CHUNKED"} \subseteq w.flags
    BY DEF Framed
  <2> DEFINE s == Now
             w == web[c]
  <2>1. Good(s) /\ FrameOk(s, c) /\ s.web[c] = w  BY ConnIs DEF IInv, FrameInv
  <2> HIDE DEF s, w
  <2>2. CASE Sending(s, c)
    <3>1. ~w.ended /\ (w.mode = "length" => Len(w.body) <= w.length)  BY <2>1, <2>2, SendingIs
    <3>2. "CLOSED" \notin w.flags  BY <2>1, <2>2 DEF Sending
    <3> QED  BY <3>1, <3>2 DEF Finished, w
  <2>3. CASE Done(w)  BY <2>3 DEF Done, Framing, Finished, w
  <2>4. CASE Fresh(s, c)
    <3>1. w.mode = "none" /\ ~w.ended  BY <2>1, <2>4 DEF Fresh, Unsaid
    <3> QED  BY <3>1 DEF w
  <2> QED  BY <2>1, <2>2, <2>3, <2>4 DEF FrameOk
<1>4. Spec => []IInv
  <2>1. \A k \in Cfgs : Orderly(k)  OBVIOUS
  <2> QED  BY <2>1, Invariance
<1> QED  BY <1>1, <1>2, <1>3, <1>4, PTL DEF Spec
=============================================================================
