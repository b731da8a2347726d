---------------------------- MODULE WebSrvProofs ----------------------------
(***************************************************************************)
(* Theorems about the web server: every open handle of the file system has *)
(* one owner, a protected page is sent to nobody without the password, and *)
(* the send buffer is never overrun; for any pages, any number of          *)
(* connections and handles, and any sizes of the buffers.                  *)
(***************************************************************************)
EXTENDS WebSrv, WellFoundedInduction, SequenceTheorems, FiniteSetTheorems, TLAPS

(***************************************************************************)
(* Least elements                                                          *)
(***************************************************************************)
\* A non-empty set of naturals has a least element.
LEMMA LeastNatural ==
  ASSUME NEW S \in SUBSET Nat, S # {}
  PROVE  \E x \in S : \A y \in S : x <= y
<1> DEFINE R == OpToRel(<, Nat)
<1>1. \E x \in S : \A y \in S : ~ (<<y, x>> \in R)
  <2>1. IsWellFoundedOn(R, Nat)  BY NatLessThanWellFounded
  <2> HIDE DEF R
  <2> QED  BY <2>1, WFMin
<1>2. \A x, y \in Nat : y < x => <<y, x>> \in R
  BY DEF OpToRel
<1>3. PICK x \in S : \A y \in S : ~ (<<y, x>> \in R)  BY <1>1
<1>4. \A y \in S : ~ (y < x)  BY <1>2, <1>3
<1> QED  BY <1>4

(***************************************************************************)
(* States                                                                  *)
(***************************************************************************)
Handles == (1 .. MaxOpen - 1) \cup {Builtin}
Names == DOMAIN Pages \cup {NoPage}
Outs == Seq(Names \cup Int) \cup {Tilde, NotFound, Fixed}  \* what one read sends
Cb == [at : Names \X Nat, done : Nat]

Web == [st : {"free", "idle", "open"}, req : Request \cup {NewWeb.req}, flags : SUBSET Flags,
        files : Seq(Handles), got : Nat, cb : Cb,
        len : Nat, rxnull : BOOLEAN, txnull : BOOLEAN, bye : BOOLEAN, flight : Nat,
        page : Names, mode : {"none", "length", "chunked", "close", "cut"}, length : Nat,
        body : Seq(Outs), ended : BOOLEAN, cut : BOOLEAN]

States == [fs : FileSystem, web : [Conns -> Web]]

\* at is the place of a call, and cb is one that has lines left.
CallAt(at) ==
  at[1] \in DOMAIN Pages /\ at[2] \in 1 .. Size(at[1]) /\ Pages[at[1]].items[at[2]].k = "call"
Lines(at) == Pages[at[1]].items[at[2]].n * Pages[at[1]].items[at[2]].size
CbOk(cb) == CallAt(cb.at) /\ cb.done <= Lines(cb.at)

\* A connection: no more than four files, no more in flight than the send buffer takes, and
\* a callback to repeat, if one has to be.
Fit(w) ==
  /\ w \in Web /\ Len(w.files) <= Depth /\ w.flight <= SndBuf
  /\ "RETRYCB" \in w.flags => CbOk(w.cb)

\* A place in the table of open files
EntryOk(e) == e = Shut \/ (e.page \in DOMAIN Pages /\ e.pos > 0)

\* A handle is among the files q.
Holding(q, h) == \E i \in 1 .. Len(q) : q[i] = h

\* A file is at one place of a connection, and with one connection, just when it is open.
Distinct(q) == \A i, j \in 1 .. Len(q) : q[i] = q[j] /\ q[i] # Builtin => i = j
Owning(s) ==
  /\ \A d \in Conns : Distinct(s.web[d].files)
  /\ \A d, e \in Conns, h \in 1 .. MaxOpen :
       Holding(s.web[d].files, h) /\ Holding(s.web[e].files, h) => d = e
  /\ \A h \in 1 .. MaxOpen :
       s.fs.table[h] # Shut <=> \E d \in Conns : Holding(s.web[d].files, h)

Good(s) ==
  /\ s \in States
  /\ \A d \in Conns : Fit(s.web[d])
  /\ \A h \in 1 .. MaxOpen : EntryOk(s.fs.table[h])
  /\ Owning(s)

(***************************************************************************)
(* Parts of a state                                                        *)
(***************************************************************************)
\* The constants
LEMMA Constants ==
  /\ MaxOpen \in Nat /\ MaxOpen > 0 /\ MaxHead \in Nat /\ MaxTurns \in Nat
  /\ SndBuf \in Nat /\ MinSend \in Nat /\ MaxSend \in Nat
  /\ 0 < MinSend /\ MinSend < SndBuf /\ MinSend <= MaxSend
  /\ NoPage \notin DOMAIN Pages
  BY WebAssumption

\* A page has so many items, and a call writes so many lines of such a size.
LEMMA PageIs ==
  ASSUME NEW p \in DOMAIN Pages
  PROVE  /\ Size(p) \in Nat /\ Pages[p].parsed \in BOOLEAN
         /\ \A i \in 1 .. Size(p) :
              LET it == Pages[p].items[i]
              IN  /\ it.k \in Items
                  /\ ~Pages[p].parsed => it.k \in {"data", "short"}
                  /\ it.k = "short" => i = Size(p)
                  /\ it.k = "call" => it.n \in Nat /\ it.size \in Nat \ {0} /\ it.last \in BOOLEAN
<1>1. IsPage(Pages[p])  BY WebAssumption
<1> QED  BY <1>1 DEF IsPage, Size, Items

\* The parts of a state
LEMMA PartsAre ==
  ASSUME NEW s \in States, NEW c \in Conns
  PROVE  /\ s.fs.table \in [1 .. MaxOpen -> [page : Names, pos : Nat]]
         /\ s.fs.locked \in BOOLEAN
         /\ s.web[c] \in Web /\ s.web \in [Conns -> Web] /\ s.fs \in FileSystem
  BY DEF States, FileSystem, Names

\* The fields of a connection
LEMMA WebIs ==
  ASSUME NEW w \in Web
  PROVE  /\ w.st \in {"free", "idle", "open"} /\ w.req \in Request \cup {NewWeb.req}
         /\ w.flags \subseteq Flags
         /\ w.files \in Seq(Handles) /\ w.got \in Nat
         /\ w.cb \in Cb /\ w.cb.done \in Nat
         /\ w.len \in Nat /\ w.rxnull \in BOOLEAN /\ w.txnull \in BOOLEAN /\ w.bye \in BOOLEAN
         /\ w.flight \in Nat /\ w.page \in Names
         /\ w.mode \in {"none", "length", "chunked", "close", "cut"} /\ w.length \in Nat
         /\ w.body \in Seq(Outs) /\ w.ended \in BOOLEAN /\ w.cut \in BOOLEAN
  BY DEF Web, Cb

\* One connection is put in place of another: the files are as they were.
LEMMA PutGood ==
  ASSUME NEW s, Good(s), NEW c \in Conns, NEW w, Fit(w), w.files = s.web[c].files
  PROVE  LET t == [s EXCEPT !.web[c] = w]
         IN  /\ Good(t) /\ t.fs = s.fs /\ t.web[c] = w
             /\ \A d \in Conns : d # c => t.web[d] = s.web[d]
<1> DEFINE t == [s EXCEPT !.web[c] = w]
<1>1. s \in States /\ w \in Web  BY DEF Good, Fit
<1>2. t \in States /\ t.fs = s.fs /\ t.web[c] = w /\ \A d \in Conns : d # c => t.web[d] = s.web[d]
  BY <1>1 DEF States
<1> HIDE DEF t
<1>3. \A d \in Conns : t.web[d].files = s.web[d].files  BY <1>2
<1>4. \A d \in Conns : Fit(t.web[d])  BY <1>2 DEF Good
<1>5. Owning(t)
  <2> QED  BY <1>2, <1>3 DEF Good, Owning
<1> QED  BY <1>2, <1>4, <1>5 DEF Good, t

(***************************************************************************)
(* Functions that change flags only                                        *)
(***************************************************************************)
\* t is s with another connection c, that differs from the old one in its flags.
Flagged(s, t, c, F) ==
  /\ Good(t) /\ t.fs = s.fs /\ t.web[c] = [s.web[c] EXCEPT !.flags = F]
  /\ \A d \in Conns : d # c => t.web[d] = s.web[d]

\* That is so of any state for Clr.
Reflagged(s, t, c, F) ==
  /\ t \in States /\ t.fs = s.fs /\ t.web[c] = [s.web[c] EXCEPT !.flags = F]
  /\ \A d \in Conns : d # c => t.web[d] = s.web[d]

\* Clr
LEMMA ClrIs ==
  ASSUME NEW s \in States, NEW c \in Conns, NEW F
  PROVE  Reflagged(s, Clr(s, c, F), c, s.web[c].flags \ F)
<1> DEFINE G == s.web[c].flags \ F
           w == [s.web[c] EXCEPT !.flags = G]
           t == Clr(s, c, F)
<1>1. s.web[c] \in Web  BY PartsAre
<1>2. t = [s EXCEPT !.web[c] = w]  BY DEF Clr, States
<1>3. G \in SUBSET Flags  BY <1>1, WebIs
<1> HIDE DEF G
<1>4. w \in Web  BY <1>1, <1>3 DEF Web
<1> HIDE DEF w, t
<1>5. t \in States /\ t.fs = s.fs /\ t.web[c] = w /\ \A d \in Conns : d # c => t.web[d] = s.web[d]
  BY <1>2, <1>4 DEF States
<1> QED  BY <1>5 DEF Reflagged, G, w, t

\* Other flags
LEMMA FlagsFit ==
  ASSUME NEW w, Fit(w), NEW F \in SUBSET Flags, "RETRYCB" \in F => CbOk(w.cb)
  PROVE  LET v == [w EXCEPT !.flags = F] IN Fit(v) /\ v.flags = F /\ v.files = w.files
  BY DEF Fit, Web

\* Set
LEMMA SetGood ==
  ASSUME NEW s, Good(s), NEW c \in Conns, NEW F \in SUBSET Flags,
         "RETRYCB" \in F => CbOk(s.web[c].cb)
  PROVE  Flagged(s, Set(s, c, F), c, s.web[c].flags \cup F)
<1> DEFINE G == s.web[c].flags \cup F
           w == [s.web[c] EXCEPT !.flags = G]
<1>1. Fit(s.web[c]) /\ s \in States  BY DEF Good
<1>2. Set(s, c, F) = [s EXCEPT !.web[c] = w]  BY <1>1 DEF Set, States
<1>3. G \in SUBSET Flags /\ ("RETRYCB" \in G => CbOk(s.web[c].cb))  BY <1>1, WebIs DEF Fit
<1> HIDE DEF G
<1>4. Fit(w) /\ w.files = s.web[c].files  BY <1>1, <1>3, FlagsFit
<1> HIDE DEF w
<1>5. LET t == [s EXCEPT !.web[c] = w]
      IN  /\ Good(t) /\ t.fs = s.fs /\ t.web[c] = w
          /\ \A d \in Conns : d # c => t.web[d] = s.web[d]
  BY <1>4, PutGood
<1> QED  BY <1>2, <1>5 DEF Flagged, G, w

\* Clr
LEMMA ClrGood ==
  ASSUME NEW s, Good(s), NEW c \in Conns, NEW F
  PROVE  Flagged(s, Clr(s, c, F), c, s.web[c].flags \ F)
<1> DEFINE G == s.web[c].flags \ F
           w == [s.web[c] EXCEPT !.flags = G]
<1>1. Fit(s.web[c]) /\ s \in States  BY DEF Good
<1>2. Clr(s, c, F) = [s EXCEPT !.web[c] = w]  BY <1>1 DEF Clr, States
<1>3. G \in SUBSET Flags /\ ("RETRYCB" \in G => CbOk(s.web[c].cb))  BY <1>1, WebIs DEF Fit
<1> HIDE DEF G
<1>4. Fit(w) /\ w.files = s.web[c].files  BY <1>1, <1>3, FlagsFit
<1> HIDE DEF w
<1>5. LET t == [s EXCEPT !.web[c] = w]
      IN  /\ Good(t) /\ t.fs = s.fs /\ t.web[c] = w
          /\ \A d \in Conns : d # c => t.web[d] = s.web[d]
  BY <1>4, PutGood
<1> QED  BY <1>2, <1>5 DEF Flagged, G, w

\* Quit
LEMMA QuitGood ==
  ASSUME NEW s, Good(s), NEW c \in Conns
  PROVE  Flagged(s, Quit(s, c), c, s.web[c].flags \cup {"FCLOSE", "DISCONNECT"})
<1>1. {"FCLOSE", "DISCONNECT"} \in SUBSET Flags  BY DEF Flags
<1> QED  BY <1>1, SetGood DEF Quit

(***************************************************************************)
(* Reading a page                                                          *)
(***************************************************************************)
\* What reading a page leaves as it is
Moving == {"FCLOSE", "DISCONNECT", "FOPEN", "FCALBACK", "RETRYCB", "FINDCB"}
Kept(w, v) ==
  /\ v.st = w.st /\ v.req = w.req /\ v.got = w.got
  /\ v.rxnull = w.rxnull /\ v.txnull = w.txnull /\ v.bye = w.bye /\ v.flight = w.flight
  /\ v.page = w.page /\ v.mode = w.mode /\ v.length = w.length /\ v.body = w.body
  /\ v.ended = w.ended /\ v.cut = w.cut
  /\ \A f \in Flags : f \notin Moving => (f \in v.flags <=> f \in w.flags)
Reads(s, t, c) ==
  /\ t.fs.locked = s.fs.locked
  /\ Kept(s.web[c], t.web[c])
  /\ \A d \in Conns : d # c => t.web[d] = s.web[d]

\* One after the other
LEMMA ReadsOn ==
  ASSUME NEW s, NEW t, NEW u, NEW c, Reads(s, t, c), Reads(t, u, c)
  PROVE  Reads(s, u, c)
  BY DEF Reads, Kept

\* Flags that reading changes
LEMMA FlaggedReads ==
  ASSUME NEW s, NEW t, NEW c \in Conns, NEW F, Flagged(s, t, c, F), Good(s),
         \A f \in Flags : f \notin Moving => (f \in F <=> f \in s.web[c].flags)
  PROVE  Reads(s, t, c) /\ t.web[c].flags = F /\ t.web[c].files = s.web[c].files
<1> DEFINE w == s.web[c]
<1>1. w \in Web  BY DEF Good, Fit
<1>2. t.web[c] = [w EXCEPT !.flags = F]  BY DEF Flagged
<1> HIDE DEF w
<1>3. t.web[c].flags = F /\ t.web[c].files = w.files  BY <1>1, <1>2 DEF Web
<1>4. /\ t.web[c].st = w.st /\ t.web[c].req = w.req /\ t.web[c].got = w.got
      /\ t.web[c].rxnull = w.rxnull /\ t.web[c].txnull = w.txnull /\ t.web[c].bye = w.bye
      /\ t.web[c].flight = w.flight /\ t.web[c].page = w.page /\ t.web[c].mode = w.mode
      /\ t.web[c].length = w.length /\ t.web[c].body = w.body
      /\ t.web[c].ended = w.ended /\ t.web[c].cut = w.cut
  BY <1>1, <1>2 DEF Web
<1> QED  BY <1>3, <1>4 DEF Flagged, Reads, Kept, w

\* Quit
LEMMA QuitReads ==
  ASSUME NEW s, Good(s), NEW c \in Conns
  PROVE  LET t == Quit(s, c)
         IN  /\ Good(t) /\ Reads(s, t, c) /\ t.web[c].files = s.web[c].files /\ t.fs = s.fs
             /\ t.web[c].flags = s.web[c].flags \cup {"FCLOSE", "DISCONNECT"}
<1> DEFINE F == s.web[c].flags \cup {"FCLOSE", "DISCONNECT"}
<1>1. Flagged(s, Quit(s, c), c, F)  BY QuitGood
<1>2. \A f \in Flags : f \notin Moving => (f \in F <=> f \in s.web[c].flags)  BY DEF Moving
<1> HIDE DEF F
<1>3. LET t == Quit(s, c) IN Reads(s, t, c) /\ t.web[c].flags = F /\ t.web[c].files = s.web[c].files
  BY <1>1, <1>2, FlaggedReads
<1> QED  BY <1>1, <1>3 DEF Flagged, F

\* Set of what reading changes
LEMMA SetReads ==
  ASSUME NEW s, Good(s), NEW c \in Conns, NEW f \in Moving, f # "RETRYCB"
  PROVE  LET t == Set(s, c, {f})
         IN  /\ Good(t) /\ Reads(s, t, c) /\ t.web[c].files = s.web[c].files /\ t.fs = s.fs
             /\ t.web[c].flags = s.web[c].flags \cup {f}
<1> DEFINE F == s.web[c].flags \cup {f}
<1>1. {f} \in SUBSET Flags  BY DEF Flags, Moving
<1>2. Fit(s.web[c])  BY DEF Good
<1>3. "RETRYCB" \in {f} => CbOk(s.web[c].cb)  OBVIOUS
<1>4. Flagged(s, Set(s, c, {f}), c, F)  BY <1>1, <1>3, SetGood
<1>5. \A g \in Flags : g \notin Moving => (g \in F <=> g \in s.web[c].flags)  OBVIOUS
<1> HIDE DEF F
<1>6. LET t == Set(s, c, {f}) IN Reads(s, t, c) /\ t.web[c].flags = F
                                        /\ t.web[c].files = s.web[c].files
  BY <1>4, <1>5, FlaggedReads
<1> QED  BY <1>4, <1>6 DEF Flagged, F

\* Clr of what reading changes
LEMMA ClrReads ==
  ASSUME NEW s, Good(s), NEW c \in Conns, NEW G \in SUBSET Moving
  PROVE  LET t == Clr(s, c, G)
         IN  /\ Good(t) /\ Reads(s, t, c) /\ t.web[c].files = s.web[c].files /\ t.fs = s.fs
             /\ t.web[c].flags = s.web[c].flags \ G
<1> DEFINE F == s.web[c].flags \ G
<1>1. Flagged(s, Clr(s, c, G), c, F)  BY ClrGood
<1>2. \A f \in Flags : f \notin Moving => (f \in F <=> f \in s.web[c].flags)  OBVIOUS
<1> HIDE DEF F
<1>3. LET t == Clr(s, c, G) IN Reads(s, t, c) /\ t.web[c].flags = F
                                        /\ t.web[c].files = s.web[c].files
  BY <1>1, <1>2, FlaggedReads
<1> QED  BY <1>1, <1>3 DEF Flagged, F

\* What of a buffer is filled with lines
LEMMA LinesFit ==
  ASSUME NEW room \in Nat, NEW size \in Nat \ {0}
  PROVE  (room \div size) * size \in Nat /\ (room \div size) * size <= room
  OBVIOUS

\* So many lines of such a size
LEMMA Product ==
  ASSUME NEW n \in Nat, NEW size \in Nat
  PROVE  n * size \in Nat
  OBVIOUS

\* t is s with other flags and another callback to repeat.
Recalls(s, t, c, F, k) == t = [s EXCEPT !.web[c] = [s.web[c] EXCEPT !.flags = F, !.cb = k]]

\* It is one of the functions that read.
LEMMA CbGood ==
  ASSUME NEW s, Good(s), NEW c \in Conns, NEW F \in SUBSET Flags,
         NEW k \in Cb, "RETRYCB" \in F => CbOk(k),
         \A f \in Flags : f \notin Moving => (f \in F <=> f \in s.web[c].flags),
         NEW t, Recalls(s, t, c, F, k)
  PROVE  Good(t) /\ Reads(s, t, c) /\ t.web[c].flags = F /\ t.web[c].files = s.web[c].files
<1> DEFINE w == s.web[c]
           v == [w EXCEPT !.flags = F, !.cb = k]
<1>0. t = [s EXCEPT !.web[c] = v]  BY DEF Recalls
<1>1. w \in Web /\ Fit(w)  BY DEF Good, Fit
<1> HIDE DEF w
<1>2. v \in Web /\ v.flags = F /\ v.files = w.files /\ v.cb = k /\ v.flight = w.flight
  BY <1>1 DEF Web
<1>3. Fit(v)  BY <1>1, <1>2 DEF Fit
<1>4. /\ v.st = w.st /\ v.req = w.req /\ v.got = w.got
      /\ v.rxnull = w.rxnull /\ v.txnull = w.txnull /\ v.bye = w.bye /\ v.flight = w.flight
      /\ v.page = w.page /\ v.mode = w.mode /\ v.length = w.length /\ v.body = w.body
      /\ v.ended = w.ended /\ v.cut = w.cut
  BY <1>1 DEF Web
<1> HIDE DEF v
<1>5. /\ Good(t) /\ t.fs = s.fs /\ t.web[c] = v
      /\ \A d \in Conns : d # c => t.web[d] = s.web[d]
  BY <1>0, <1>2, <1>3, PutGood DEF w
<1>6. Reads(s, t, c)  BY <1>2, <1>4, <1>5 DEF Reads, Kept, w
<1> QED  BY <1>2, <1>5, <1>6 DEF w

\* The result of a function that reads s into a buffer
Fills(s, x, c, room) ==
  /\ Good(x.s) /\ Reads(s, x.s, c)
  /\ x.out \in Seq(Outs) /\ Len(x.out) <= room

\* What a callback at such a place makes of the connection w, when done lines are written
\* and it sends out: it has to be repeated, or is over, and may have ended the page, and
\* then it has sent something if it had anything left.
Calls(w, v, at, done, out) ==
  LET item == Pages[at[1]].items[at[2]]
      F == w.flags \ {"RETRYCB"}
  IN  \/ /\ v.flags = w.flags \cup {"RETRYCB"}
         /\ v.cb.at = at /\ v.cb.done < Lines(at)
      \/ v.flags = F /\ ~item.last
      \/ /\ v.flags = F \cup {"FCLOSE", "DISCONNECT"} /\ item.last
         /\ done < Lines(at) => out # <<>>

\* What is written before a callback is called
Before(w) == IF "RETRYCB" \in w.flags THEN w.cb.done ELSE 0

\* A callback
LEMMA CallbackIs ==
  ASSUME NEW s, Good(s), NEW c \in Conns, NEW at \in Names \X Nat, CallAt(at),
         NEW room \in Nat, "RETRYCB" \in s.web[c].flags => at = s.web[c].cb.at
  PROVE  LET x == Callback(s, c, at, room)
         IN  /\ Fills(s, x, c, room) /\ x.s.web[c].files = s.web[c].files /\ x.s.fs = s.fs
             /\ Calls(s.web[c], x.s.web[c], at, Before(s.web[c]), x.out)
<1> DEFINE item == Pages[at[1]].items[at[2]]
           done == IF Has(s, c, "RETRYCB") THEN s.web[c].cb.done ELSE 0
           fit  == (room \div item.size) * item.size
           tot  == item.n * item.size
           all  == tot - done
           n    == IF fit < all THEN fit ELSE all
           out  == [j \in 1 .. n |-> <<at[1], at[2], done + j>>]
           x    == Callback(s, c, at, room)
<1>1. item.n \in Nat /\ item.size \in Nat \ {0} /\ item.last \in BOOLEAN
  BY PageIs DEF CallAt
<1>2. fit \in Nat /\ fit <= room /\ tot \in Nat
  <2>1. fit \in Nat /\ fit <= room  BY <1>1, LinesFit
  <2>2. item.n \in Nat /\ item.size \in Nat  BY <1>1
  <2>3. tot \in Nat  BY <2>2, Product
  <2> QED  BY <2>1, <2>3
<1>3. s.web[c] \in Web /\ ("RETRYCB" \in s.web[c].flags => CbOk(s.web[c].cb))  BY DEF Good, Fit
<1>4. done \in Nat /\ done <= tot
  <2>1. CASE Has(s, c, "RETRYCB")
    <3>1. s.web[c].cb.done \in Nat  BY <1>3, WebIs
    <3>2. CbOk(s.web[c].cb) /\ at = s.web[c].cb.at  BY <1>3, <2>1 DEF Has
    <3> QED  BY <2>1, <3>1, <3>2, Zenon DEF CbOk, Lines
  <2>2. CASE ~Has(s, c, "RETRYCB")  BY <1>2, <2>2
  <2> QED  BY <2>1, <2>2
<1>5. x = [out |-> out,
           s |-> IF n < all
                 THEN [Set(s, c, {"RETRYCB"}) EXCEPT !.web[c].cb = [at |-> at, done |-> done + n]]
                 ELSE LET over == [Clr(s, c, {"RETRYCB"}) EXCEPT !.web[c].cb = NewWeb.cb]
                      IN  IF item.last THEN Quit(over, c) ELSE over]
  BY DEF Callback
<1> HIDE DEF x, fit, tot, done
<1>6. n \in Nat /\ n <= room /\ done + n <= tot /\ all \in Nat  BY <1>2, <1>4
<1>7. out \in Seq(Outs) /\ Len(out) <= room
  <2>1. \A j \in 1 .. n : <<at[1], at[2], done + j>> \in Outs  BY <1>4, <1>6 DEF Outs
  <2> HIDE DEF n
  <2>2. out \in Seq(Outs) /\ Len(out) = n  BY <1>6, <2>1
  <2> QED  BY <1>6, <2>2
<1>8. s \in States /\ s.web[c].flags \subseteq Flags  BY <1>3, WebIs DEF Good
<1>9. x.out = out  BY <1>5
<1>12. done = Before(s.web[c]) /\ tot = Lines(at)  BY DEF Before, Has, done, tot, Lines
<1>13. s.web[c] \in Web  BY <1>3
<1>10. CASE n < all
  <2> DEFINE k == [at |-> at, done |-> done + n]
             F == s.web[c].flags \cup {"RETRYCB"}
  <2>1. x.s = [Set(s, c, {"RETRYCB"}) EXCEPT !.web[c].cb = k]  BY <1>5, <1>10
  <2>2. k \in Cb /\ CbOk(k)
    BY <1>4, <1>6 DEF CbOk, Lines, tot, Cb
  <2>3. F \in SUBSET Flags /\ \A f \in Flags : f \notin Moving => (f \in F <=> f \in s.web[c].flags)
    BY <1>8 DEF Flags, Moving
  <2> HIDE DEF k
  <2>4. Recalls(s, x.s, c, F, k)  BY <1>3, <1>8, <2>1 DEF Set, States, Web, Recalls
  <2> HIDE DEF F
  <2>5. "RETRYCB" \in F => CbOk(k)  BY <2>2
  <2>6. Good(x.s) /\ Reads(s, x.s, c) /\ x.s.web[c].files = s.web[c].files
    BY <2>2, <2>3, <2>4, <2>5, CbGood
  <2>7. x.s.fs = s.fs  BY <1>8, <2>4 DEF Recalls, States
  <2>8. x.s.web[c].flags = F /\ x.s.web[c].cb = k
    BY <1>8, <1>13, <2>4 DEF Recalls, States, Web
  <2>9. k.at = at /\ k.done < Lines(at)
    <3>1. k.at = at /\ k.done = done + n  BY DEF k
    <3>2. n < tot - done  BY <1>10
    <3> HIDE DEF n, k
    <3> QED  BY <1>2, <1>4, <1>6, <1>12, <3>1, <3>2
  <2>10. Calls(s.web[c], x.s.web[c], at, Before(s.web[c]), x.out)  BY <2>8, <2>9 DEF Calls, F
  <2> QED  BY <1>7, <1>9, <2>6, <2>7, <2>10 DEF Fills, x
<1>11. CASE ~(n < all)
  <2> DEFINE over == [Clr(s, c, {"RETRYCB"}) EXCEPT !.web[c].cb = NewWeb.cb]
             k == NewWeb.cb
             F == s.web[c].flags \ {"RETRYCB"}
  <2>1. x.s = IF item.last THEN Quit(over, c) ELSE over  BY <1>5, <1>11
  <2>2. k \in Cb  BY DEF NewWeb, Names, Cb
  <2>3. F \in SUBSET Flags /\ \A f \in Flags : f \notin Moving => (f \in F <=> f \in s.web[c].flags)
    BY <1>8 DEF Flags, Moving
  <2> HIDE DEF k
  <2>4. Recalls(s, over, c, F, k)  BY <1>3, <1>8 DEF Clr, States, Web, Recalls, k
  <2>5. "RETRYCB" \in F => CbOk(k)  OBVIOUS
  <2> HIDE DEF F, over
  <2>6. Good(over) /\ Reads(s, over, c) /\ over.web[c].files = s.web[c].files
    BY <2>2, <2>3, <2>4, <2>5, CbGood
  <2>7. Good(Quit(over, c)) /\ Reads(over, Quit(over, c), c)
        /\ Quit(over, c).web[c].files = over.web[c].files
    BY <2>6, QuitReads
  <2>8. Good(x.s) /\ Reads(s, x.s, c) /\ x.s.web[c].files = s.web[c].files
    BY <2>1, <2>6, <2>7, ReadsOn
  <2>9. over.fs = s.fs /\ over.web[c].flags = F
    BY <1>8, <1>13, <2>4 DEF Recalls, States, Web
  <2>10. Quit(over, c).fs = over.fs /\ Quit(over, c).web[c].flags = F \cup {"FCLOSE", "DISCONNECT"}
    BY <2>6, <2>9, QuitReads
  <2>11. done < tot => out # <<>>
    <3> SUFFICES ASSUME done < tot  PROVE out # <<>>
      OBVIOUS
    <3>1. n > 0  BY <1>4, <1>6, <1>11, <1>2 DEF all
    <3> HIDE DEF n
    <3>2. 1 \in DOMAIN out  BY <1>6, <3>1
    <3> HIDE DEF out
    <3> QED  BY <3>2
  <2>12. Calls(s.web[c], x.s.web[c], at, Before(s.web[c]), x.out)
    BY <1>1, <1>9, <1>12, <2>1, <2>9, <2>10, <2>11 DEF Calls, F
  <2>13. x.s.fs = s.fs  BY <2>1, <2>9, <2>10
  <2> QED  BY <1>7, <1>9, <2>8, <2>12, <2>13 DEF Fills, x
<1> QED  BY <1>10, <1>11

\* A callback, in short
LEMMA CallbackGood ==
  ASSUME NEW s, Good(s), NEW c \in Conns, NEW at \in Names \X Nat, CallAt(at),
         NEW room \in Nat, "RETRYCB" \in s.web[c].flags => at = s.web[c].cb.at
  PROVE  LET x == Callback(s, c, at, room)
         IN  Fills(s, x, c, room) /\ x.s.web[c].files = s.web[c].files
  BY CallbackIs

(***************************************************************************)
(* Open files                                                              *)
(***************************************************************************)
\* A handle is put in front.
LEMMA PushIs ==
  ASSUME NEW q \in Seq(Handles), NEW h \in Handles, Distinct(q),
         h = Builtin \/ ~Holding(q, h)
  PROVE  LET p == <<h>> \o q
         IN  /\ p \in Seq(Handles) /\ Len(p) = Len(q) + 1 /\ Distinct(p)
             /\ \A x : Holding(p, x) <=> x = h \/ Holding(q, x)
<1> DEFINE p == <<h>> \o q
<1>1. p \in Seq(Handles) /\ Len(q) \in Nat /\ Len(p) = Len(q) + 1
      /\ p[1] = h /\ \A i \in 1 .. Len(q) : p[i + 1] = q[i]
  OBVIOUS
<1> HIDE DEF p
<1>2. \A i \in 1 .. Len(p) : i = 1 \/ (i - 1 \in 1 .. Len(q) /\ p[i] = q[i - 1])
  <2> TAKE i \in 1 .. Len(p)
  <2>1. i = 1 \/ i - 1 \in 1 .. Len(q)  BY <1>1
  <2>2. i - 1 \in 1 .. Len(q) => p[(i - 1) + 1] = q[i - 1]  BY <1>1
  <2> QED  BY <1>1, <2>1, <2>2
<1>3. \A x : Holding(p, x) <=> x = h \/ Holding(q, x)
  <2> SUFFICES ASSUME NEW x  PROVE Holding(p, x) <=> x = h \/ Holding(q, x)
    OBVIOUS
  <2>1. Holding(p, x) => x = h \/ Holding(q, x)  BY <1>1, <1>2 DEF Holding
  <2>2. x = h => Holding(p, x)  BY <1>1 DEF Holding
  <2>3. Holding(q, x) => Holding(p, x)
    <3> SUFFICES ASSUME NEW i \in 1 .. Len(q), q[i] = x  PROVE Holding(p, x)
      BY DEF Holding
    <3>1. i + 1 \in 1 .. Len(p) /\ p[i + 1] = x  BY <1>1
    <3> QED  BY <3>1 DEF Holding
  <2> QED  BY <2>1, <2>2, <2>3
<1>4. Distinct(p)
  <2> SUFFICES ASSUME NEW i \in 1 .. Len(p), NEW j \in 1 .. Len(p), p[i] = p[j], p[i] # Builtin
      PROVE i = j
    BY DEF Distinct
  <2>1. CASE i = 1 /\ j # 1
    <3>1. j - 1 \in 1 .. Len(q) /\ q[j - 1] = h  BY <1>1, <1>2, <2>1
    <3> QED  BY <1>1, <2>1, <3>1 DEF Holding
  <2>2. CASE i # 1 /\ j = 1
    <3>1. i - 1 \in 1 .. Len(q) /\ q[i - 1] = h  BY <1>1, <1>2, <2>2
    <3> QED  BY <1>1, <2>2, <3>1 DEF Holding
  <2>3. CASE i # 1 /\ j # 1
    <3>1. i - 1 \in 1 .. Len(q) /\ j - 1 \in 1 .. Len(q) /\ q[i - 1] = p[i] /\ q[j - 1] = p[j]
      BY <1>2, <2>3
    <3>2. i - 1 = j - 1  BY <3>1 DEF Distinct
    <3> QED  BY <3>2
  <2> QED  BY <2>1, <2>2, <2>3
<1> QED  BY <1>1, <1>3, <1>4 DEF p

\* The first handle is taken away.
LEMMA TailIs ==
  ASSUME NEW q \in Seq(Handles), q # <<>>, Distinct(q)
  PROVE  LET p == Tail(q)
         IN  /\ p \in Seq(Handles) /\ Len(p) = Len(q) - 1 /\ Distinct(p) /\ Head(q) \in Handles
             /\ \A x \in 1 .. MaxOpen : Holding(p, x) <=> Holding(q, x) /\ x # Head(q)
<1> DEFINE p == Tail(q)
<1>1. p \in Seq(Handles) /\ Len(q) \in Nat /\ Len(q) > 0 /\ Len(p) = Len(q) - 1
      /\ Head(q) = q[1] /\ Head(q) \in Handles /\ \A i \in 1 .. Len(p) : p[i] = q[i + 1]
  OBVIOUS
<1> HIDE DEF p
<1>2. \A x \in 1 .. MaxOpen : x # Builtin  BY Constants DEF Builtin
<1>3. \A x \in 1 .. MaxOpen : Holding(p, x) <=> Holding(q, x) /\ x # Head(q)
  <2> TAKE x \in 1 .. MaxOpen
  <2>1. Holding(p, x) => Holding(q, x) /\ x # Head(q)
    <3> SUFFICES ASSUME NEW i \in 1 .. Len(p), p[i] = x  PROVE Holding(q, x) /\ x # Head(q)
      BY DEF Holding
    <3>1. i + 1 \in 1 .. Len(q) /\ q[i + 1] = x /\ i + 1 # 1 /\ 1 \in 1 .. Len(q)  BY <1>1
    <3> QED  BY <1>1, <1>2, <3>1 DEF Holding, Distinct
  <2>2. Holding(q, x) /\ x # Head(q) => Holding(p, x)
    <3> SUFFICES ASSUME NEW i \in 1 .. Len(q), q[i] = x, x # Head(q)  PROVE Holding(p, x)
      BY DEF Holding
    <3>1. i # 1  BY <1>1
    <3>2. i - 1 \in 1 .. Len(p) /\ (i - 1) + 1 = i  BY <1>1, <3>1
    <3>3. p[i - 1] = x  BY <1>1, <3>2
    <3> QED  BY <3>2, <3>3 DEF Holding
  <2> QED  BY <2>1, <2>2
<1>4. Distinct(p)
  <2> SUFFICES ASSUME NEW i \in 1 .. Len(p), NEW j \in 1 .. Len(p), p[i] = p[j], p[i] # Builtin
      PROVE i = j
    BY DEF Distinct
  <2>1. i + 1 \in 1 .. Len(q) /\ j + 1 \in 1 .. Len(q) /\ q[i + 1] = p[i] /\ q[j + 1] = p[j]
    BY <1>1
  <2>2. i + 1 = j + 1  BY <2>1 DEF Distinct
  <2> QED  BY <2>2
<1> QED  BY <1>1, <1>3, <1>4 DEF p

\* The last handle is taken away.
LEMMA FrontIs ==
  ASSUME NEW q \in Seq(Handles), q # <<>>, Distinct(q)
  PROVE  LET p == Front(q)
             l == q[Len(q)]
         IN  /\ p \in Seq(Handles) /\ Len(p) = Len(q) - 1 /\ Distinct(p) /\ l \in Handles
             /\ Holding(q, l)
             /\ \A x : Holding(p, x) => Holding(q, x)
             /\ \A x \in 1 .. MaxOpen : Holding(p, x) <=> Holding(q, x) /\ x # l
<1> DEFINE p == Front(q)
           l == q[Len(q)]
<1>1. p \in Seq(Handles) /\ Len(q) \in Nat /\ Len(q) > 0 /\ Len(p) = Len(q) - 1
      /\ l \in Handles /\ \A i \in 1 .. Len(p) : p[i] = q[i]
  <2>1. Len(q) \in Nat /\ Len(q) > 0 /\ \A i \in 1 .. Len(q) : q[i] \in Handles  OBVIOUS
  <2> DEFINE n == Len(q) - 1
  <2>2. n \in Nat /\ n <= Len(q) /\ p = SubSeq(q, 1, n)  BY <2>1 DEF Front
  <2> HIDE DEF n
  <2>3. \A i \in 1 .. n : q[i] \in Handles  BY <2>1, <2>2
  <2>4. /\ p \in Seq(Handles) /\ Len(p) = IF 1 <= n THEN n - 1 + 1 ELSE 0
        /\ \A i \in 1 .. n - 1 + 1 : p[i] = q[1 + i - 1]
    BY <2>1, <2>2, <2>3, SubSeqProperties
  <2>5. Len(p) = n /\ \A i \in 1 .. n : p[i] = q[i]  BY <2>2, <2>4
  <2> QED  BY <2>1, <2>4, <2>5 DEF n
<1>0. l = q[Len(q)]  OBVIOUS
<1> HIDE DEF p, l
<1>2. \A x \in 1 .. MaxOpen : x # Builtin  BY Constants DEF Builtin
<1>3. \A x : Holding(p, x) => Holding(q, x)  BY <1>1 DEF Holding
<1>4. \A x \in 1 .. MaxOpen : Holding(p, x) <=> Holding(q, x) /\ x # l
  <2> TAKE x \in 1 .. MaxOpen
  <2>1. Holding(p, x) => x # l
    <3> SUFFICES ASSUME NEW i \in 1 .. Len(p), p[i] = x, x = l  PROVE FALSE
      BY DEF Holding
    <3>1. i \in 1 .. Len(q) /\ q[i] = x /\ i # Len(q) /\ Len(q) \in 1 .. Len(q)  BY <1>1
    <3> QED  BY <1>0, <1>2, <3>1 DEF Distinct
  <2>2. Holding(q, x) /\ x # l => Holding(p, x)
    <3> SUFFICES ASSUME NEW i \in 1 .. Len(q), q[i] = x, x # l  PROVE Holding(p, x)
      BY DEF Holding
    <3>1. i # Len(q)  BY <1>0
    <3>2. i \in 1 .. Len(p)  BY <1>1, <3>1
    <3> QED  BY <1>1, <3>2 DEF Holding
  <2> QED  BY <1>3, <2>1, <2>2
<1>5. Distinct(p)
  <2> SUFFICES ASSUME NEW i \in 1 .. Len(p), NEW j \in 1 .. Len(p), p[i] = p[j], p[i] # Builtin
      PROVE i = j
    BY DEF Distinct
  <2>1. i \in 1 .. Len(q) /\ j \in 1 .. Len(q) /\ q[i] = p[i] /\ q[j] = p[j]  BY <1>1
  <2> QED  BY <2>1 DEF Distinct
<1>6. Holding(q, l)  BY <1>0, <1>1 DEF Holding
<1> QED  BY <1>1, <1>3, <1>4, <1>5, <1>6 DEF p, l

\* From s to t, the files of c change, and the table with them.
Changes(s, t, c) ==
  /\ t \in States /\ Fit(t.web[c]) /\ Distinct(t.web[c].files)
  /\ \A d \in Conns : d # c => t.web[d] = s.web[d]
  /\ \A h \in 1 .. MaxOpen : EntryOk(t.fs.table[h])
  /\ \A h \in 1 .. MaxOpen :
       Holding(t.web[c].files, h) => Holding(s.web[c].files, h) \/ s.fs.table[h] = Shut
  /\ \A h \in 1 .. MaxOpen :
       t.fs.table[h] # Shut <=>
       Holding(t.web[c].files, h) \/ (s.fs.table[h] # Shut /\ ~Holding(s.web[c].files, h))

\* The files of one connection change: what it has new was shut, and what is open is what
\* it has now and what others have.
LEMMA ChangesHands ==
  ASSUME NEW s, Good(s), NEW c \in Conns, NEW t, Changes(s, t, c)
  PROVE  Good(t)
<1>1. t \in States /\ \A d \in Conns : Fit(t.web[d])  BY DEF Good, Changes
<1>2. \A d \in Conns : Distinct(t.web[d].files)  BY DEF Good, Owning, Changes
<1>3. \A d, e \in Conns, h \in 1 .. MaxOpen :
        Holding(t.web[d].files, h) /\ Holding(t.web[e].files, h) => d = e
  <2> SUFFICES ASSUME NEW d \in Conns, NEW h \in 1 .. MaxOpen, d # c,
                      Holding(t.web[d].files, h), Holding(t.web[c].files, h)
      PROVE FALSE
    BY DEF Good, Owning, Changes
  <2>1. Holding(s.web[d].files, h)  BY DEF Changes
  <2>2. s.fs.table[h] # Shut /\ ~Holding(s.web[c].files, h)  BY <2>1 DEF Good, Owning
  <2> QED  BY <2>2 DEF Changes
<1>4. \A h \in 1 .. MaxOpen :
        t.fs.table[h] # Shut <=> \E d \in Conns : Holding(t.web[d].files, h)
  <2> TAKE h \in 1 .. MaxOpen
  <2>1. s.fs.table[h] # Shut <=> \E d \in Conns : Holding(s.web[d].files, h)  BY DEF Good, Owning
  <2>2. \A d, e \in Conns : Holding(s.web[d].files, h) /\ Holding(s.web[e].files, h) => d = e
    BY DEF Good, Owning
  <2> QED  BY <2>1, <2>2 DEF Changes
<1> QED  BY <1>1, <1>2, <1>3, <1>4 DEF Good, Owning, Changes

\* WEBFSOpen finds a free place, not the last one.
LEMMA FirstFreeIs ==
  ASSUME NEW s, Good(s), FirstFree(s) # MaxOpen
  PROVE  FirstFree(s) \in 1 .. MaxOpen - 1 /\ s.fs.table[FirstFree(s)] = Shut
<1> DEFINE S == {h \in 1 .. MaxOpen : s.fs.table[h] = Shut}
<1>1. MaxOpen \in S
  <2>1. \A d \in Conns : ~Holding(s.web[d].files, MaxOpen)
    <3> SUFFICES ASSUME NEW d \in Conns, NEW i \in 1 .. Len(s.web[d].files),
                        s.web[d].files[i] = MaxOpen
        PROVE FALSE
      BY DEF Holding
    <3>1. s.web[d].files \in Seq(Handles)  BY WebIs DEF Good, Fit
    <3>2. MaxOpen \in Handles  BY <3>1
    <3> QED  BY <3>2, Constants DEF Handles, Builtin
  <2> QED  BY <2>1, Constants DEF Good, Owning
<1>2. PICK h \in S : \A g \in S : h <= g
  <2>1. S \in SUBSET Nat /\ S # {}  BY <1>1
  <2> QED  BY <2>1, LeastNatural
<1>3. \A g \in 1 .. h - 1 : s.fs.table[g] # Shut
  <2> SUFFICES ASSUME NEW g \in 1 .. h - 1, s.fs.table[g] = Shut  PROVE FALSE
    OBVIOUS
  <2>1. g \in S /\ ~(h <= g)  BY <1>1, <1>2, Constants
  <2> QED  BY <1>2, <2>1
<1>4. \E k \in 1 .. MaxOpen + 1 : /\ k <= MaxOpen => s.fs.table[k] = Shut
                                 /\ \A g \in 1 .. k - 1 : s.fs.table[g] # Shut
  BY <1>2, <1>3, Constants
<1> DEFINE f == FirstFree(s)
<1>5. /\ f \in 1 .. MaxOpen + 1 /\ (f <= MaxOpen => s.fs.table[f] = Shut)
      /\ \A g \in 1 .. f - 1 : s.fs.table[g] # Shut
  BY <1>4 DEF FirstFree
<1> HIDE DEF f
<1>6. f # MaxOpen + 1  BY <1>1, <1>5, Constants
<1> QED  BY <1>5, <1>6, Constants DEF f

\* WEBFSClose
LEMMA FsCloseIs ==
  ASSUME NEW s \in States, NEW h
  PROVE  LET t == FsClose(s, h)
         IN  /\ t \in States /\ t.web = s.web /\ t.fs.locked = s.fs.locked
             /\ \A g \in 1 .. MaxOpen : t.fs.table[g] = IF g = h THEN Shut ELSE s.fs.table[g]
<1>1. Shut \in [page : Names, pos : Nat]  BY DEF Shut, Names
<1>2. CASE h \in 1 .. MaxOpen
  BY <1>1, <1>2 DEF FsClose, States, FileSystem, Names
<1>3. CASE h \notin 1 .. MaxOpen  BY <1>3 DEF FsClose
<1> QED  BY <1>2, <1>3

\* What web_inc_fp makes of the files q
Pushed(q, h) == <<h>> \o (IF Len(q) = Depth THEN Front(q) ELSE q)

\* t is s with the handle h put in front of c's.
Grown(s, t, c, h) ==
  LET q == s.web[c].files
  IN  /\ t \in States /\ t.fs.locked = s.fs.locked
      /\ \A d \in Conns : d # c => t.web[d] = s.web[d]
      /\ t.web[c] = [s.web[c] EXCEPT !.files = Pushed(q, h), !.flags = @ \cup {"FOPEN"}]
      /\ \A g \in 1 .. MaxOpen :
           t.fs.table[g] = IF Len(q) = Depth /\ g = q[Depth] THEN Shut ELSE s.fs.table[g]

\* web_inc_fp
LEMMA IncFpIs ==
  ASSUME NEW s \in States, NEW c \in Conns, NEW h \in Handles,
         Pushed(s.web[c].files, h) \in Seq(Handles)
  PROVE  Grown(s, IncFp(s, c, h), c, h)
<1> DEFINE q == s.web[c].files
           x == IF Len(q) = Depth THEN FsClose(s, q[Depth]) ELSE s
           y == [x EXCEPT !.web[c].files = Pushed(q, h)]
           t == IncFp(s, c, h)
<1>1. t = Set(y, c, {"FOPEN"})  BY DEF IncFp, Pushed
<1>2. /\ x \in States /\ x.web = s.web /\ x.fs.locked = s.fs.locked
      /\ \A g \in 1 .. MaxOpen :
           x.fs.table[g] = IF Len(q) = Depth /\ g = q[Depth] THEN Shut ELSE s.fs.table[g]
  BY FsCloseIs
<1> HIDE DEF x
<1>3. s.web[c] \in Web  BY PartsAre
<1>4. Pushed(q, h) \in Seq(Handles)  OBVIOUS
<1> DEFINE p == Pushed(q, h)
<1>5. p \in Seq(Handles)  BY <1>4
<1> HIDE DEF p
<1>6. y = [x EXCEPT !.web[c].files = p]  BY DEF p
<1>7. /\ y \in States /\ y.fs = x.fs /\ y.web[c] = [s.web[c] EXCEPT !.files = p]
      /\ \A d \in Conns : d # c => y.web[d] = s.web[d]
  <2> DEFINE v == [s.web[c] EXCEPT !.files = p]
  <2>1. v \in Web  BY <1>3, <1>5 DEF Web
  <2>2. y = [x EXCEPT !.web[c] = v]  BY <1>2, <1>6 DEF States
  <2> HIDE DEF v, y
  <2>3. y \in States /\ y.fs = x.fs /\ y.web[c] = v /\ \A d \in Conns : d # c => y.web[d] = x.web[d]
    BY <1>2, <2>1, <2>2 DEF States
  <2> QED  BY <1>2, <2>3 DEF v
<1> HIDE DEF y
<1>8. t = [y EXCEPT !.web[c].flags = @ \cup {"FOPEN"}]  BY <1>1 DEF Set
<1> HIDE DEF t
<1>9. /\ t \in States /\ t.fs = y.fs
      /\ t.web[c] = [y.web[c] EXCEPT !.flags = @ \cup {"FOPEN"}]
      /\ \A d \in Conns : d # c => t.web[d] = y.web[d]
  <2>1. y.web[c] \in Web  BY <1>7, PartsAre
  <2>2. y.web[c].flags \cup {"FOPEN"} \in SUBSET Flags  BY <2>1, WebIs DEF Flags
  <2> QED  BY <1>7, <1>8, <2>1, <2>2 DEF States, Web
<1>10. t.web[c] = [s.web[c] EXCEPT !.files = p, !.flags = s.web[c].flags \cup {"FOPEN"}]
  BY <1>3, <1>5, <1>7, <1>9 DEF Web
<1> QED  BY <1>2, <1>7, <1>9, <1>10 DEF p, t, q, Grown

\* A handle comes, and a fifth one pushes the first one out.
LEMMA PushedIs ==
  ASSUME NEW q \in Seq(Handles), Len(q) <= Depth, Distinct(q), NEW h \in Handles,
         h = Builtin \/ ~Holding(q, h)
  PROVE  LET p == Pushed(q, h)
         IN  /\ p \in Seq(Handles) /\ Len(p) <= Depth /\ p # <<>> /\ Distinct(p)
             /\ \A x \in 1 .. MaxOpen :
                  Holding(p, x) <=> x = h \/ (Holding(q, x) /\ ~(Len(q) = Depth /\ x = q[Depth]))
<1>1. CASE Len(q) = Depth
  <2> DEFINE f == Front(q)
             p == <<h>> \o f
  <2>1. q # <<>>
    <3>1. Len(q) # 0  BY <1>1 DEF Depth
    <3> QED  BY <3>1, EmptySeq
  <2>2. /\ f \in Seq(Handles) /\ Len(f) = Depth - 1 /\ Distinct(f)
        /\ \A x : Holding(f, x) => Holding(q, x)
        /\ \A x \in 1 .. MaxOpen : Holding(f, x) <=> Holding(q, x) /\ x # q[Depth]
    BY <1>1, <2>1, FrontIs
  <2> HIDE DEF f
  <2>3. h = Builtin \/ ~Holding(f, h)  BY <2>2
  <2>4. /\ p \in Seq(Handles) /\ Len(p) = Len(f) + 1 /\ Distinct(p)
        /\ \A x : Holding(p, x) <=> x = h \/ Holding(f, x)
    BY <2>2, <2>3, PushIs
  <2>5. Pushed(q, h) = p  BY <1>1 DEF Pushed, f
  <2> HIDE DEF p
  <2>6. Len(p) = Depth /\ p # <<>>  BY <2>2, <2>4 DEF Depth
  <2> QED  BY <1>1, <2>2, <2>4, <2>5, <2>6 DEF Depth
<1>2. CASE Len(q) # Depth
  <2> DEFINE p == <<h>> \o q
  <2>1. /\ p \in Seq(Handles) /\ Len(p) = Len(q) + 1 /\ Distinct(p)
        /\ \A x : Holding(p, x) <=> x = h \/ Holding(q, x)
    BY PushIs
  <2>2. Pushed(q, h) = p  BY <1>2 DEF Pushed
  <2> HIDE DEF p
  <2>3. Len(p) <= Depth /\ p # <<>>
    <3>1. Len(q) \in Nat  BY LenProperties
    <3> DEFINE a == Len(q)
    <3>2. a \in Nat /\ a <= 4 /\ a # 4 /\ Len(p) = a + 1  BY <1>2, <2>1, <3>1 DEF Depth
    <3> HIDE DEF a
    <3>3. Len(p) <= 4 /\ Len(p) # 0  BY <3>2
    <3> QED  BY <2>1, <3>3, EmptySeq DEF Depth
  <2> QED  BY <1>2, <2>1, <2>2, <2>3
<1> QED  BY <1>1, <1>2

\* t is s with the file p open under the handle h, in front of c's.
OpensAt(s, t, c, p, h) ==
  LET w == s.web[c]
      v == t.web[c]
  IN  /\ h \in 1 .. MaxOpen - 1 /\ s.fs.table[h] = Shut
      /\ v.files = Pushed(w.files, h) /\ v.cb = w.cb /\ v.len = w.len + Size(p)
      /\ \A g \in 1 .. MaxOpen :
           t.fs.table[g] = IF Len(w.files) = Depth /\ g = w.files[Depth] THEN Shut
                           ELSE IF g = h THEN [page |-> p, pos |-> 1] ELSE s.fs.table[g]

\* web_inc_fopen
LEMMA IncFopenIs ==
  ASSUME NEW s, Good(s), NEW c \in Conns, NEW p, MayInclude(s, c, p)
  PROVE  LET t == IncFopen(s, c, p)
         IN  /\ Good(t) /\ Reads(s, t, c) /\ t.web[c].files # <<>>
             /\ t.web[c].flags = s.web[c].flags \cup {"FOPEN"}
                                   \cup (IF Pages[p].parsed THEN {"FCALBACK"} ELSE {})
             /\ OpensAt(s, t, c, p, FirstFree(s))
<1> DEFINE h == FirstFree(s)
           w == s.web[c]
           q == w.files
           e == [page |-> p, pos |-> 1]
           n == w.len + Size(p)
           o == [s EXCEPT !.fs.table[h] = e, !.web[c].len = @ + Size(p)]
           y == IF Pages[p].parsed THEN Set(o, c, {"FCALBACK"}) ELSE o
           G == w.flags \cup (IF Pages[p].parsed THEN {"FCALBACK"} ELSE {})
           F == G \cup {"FOPEN"}
           t == IncFopen(s, c, p)
           r == Pushed(q, h)
           v == [w EXCEPT !.len = n, !.flags = F, !.files = r]
<1>1. p \in DOMAIN Pages /\ h # MaxOpen /\ t = IncFp(y, c, h)
  BY DEF MayInclude, CanOpen, IncFopen
<1>2. h \in 1 .. MaxOpen - 1 /\ s.fs.table[h] = Shut  BY <1>1, FirstFreeIs
<1> HIDE DEF h
<1>3. h \in 1 .. MaxOpen /\ h \in Handles  BY <1>2, Constants DEF Handles
<1>4. s \in States /\ w \in Web /\ Fit(w)  BY DEF Good, Fit
<1>5. q \in Seq(Handles) /\ Len(q) <= Depth /\ Distinct(q) /\ w.flags \in SUBSET Flags
  BY <1>4, WebIs DEF Good, Owning, Fit
<1>6. n \in Nat /\ e \in [page : Names, pos : Nat] /\ EntryOk(e) /\ e # Shut
  <2>1. Size(p) \in Nat /\ w.len \in Nat /\ p # NoPage  BY <1>1, <1>4, PageIs, WebIs, Constants
  <2> QED  BY <1>1, <2>1 DEF EntryOk, Shut, Names
<1>7. ~Holding(q, h)  BY <1>2, <1>3 DEF Good, Owning
<1>8. /\ r \in Seq(Handles) /\ Len(r) <= Depth /\ r # <<>> /\ Distinct(r)
      /\ \A x \in 1 .. MaxOpen :
           Holding(r, x) <=> x = h \/ (Holding(q, x) /\ ~(Len(q) = Depth /\ x = q[Depth]))
  BY <1>3, <1>5, <1>7, PushedIs
<1>9. G \in SUBSET Flags /\ F \in SUBSET Flags  BY <1>5 DEF Flags
<1> HIDE DEF n, e, r, G
<1>10. /\ y \in States /\ y.fs.locked = s.fs.locked
       /\ y.web[c] = [w EXCEPT !.len = n, !.flags = G]
       /\ \A d \in Conns : d # c => y.web[d] = s.web[d]
       /\ \A g \in 1 .. MaxOpen : y.fs.table[g] = IF g = h THEN e ELSE s.fs.table[g]
  <2> DEFINE w1 == [w EXCEPT !.len = n]
             T == [s.fs.table EXCEPT ![h] = e]
             f1 == [s.fs EXCEPT !.table = T]
  <2>1. w1 \in Web /\ T \in [1 .. MaxOpen -> [page : Names, pos : Nat]]
    BY <1>3, <1>4, <1>6, PartsAre DEF Web
  <2>2. f1 \in FileSystem /\ f1.locked = s.fs.locked /\ f1.table = T
    BY <1>4, <2>1 DEF States, FileSystem, Names
  <2>3. \A g \in 1 .. MaxOpen : T[g] = IF g = h THEN e ELSE s.fs.table[g]
    BY <1>4, PartsAre
  <2>4. o = [fs |-> f1, web |-> [s.web EXCEPT ![c] = w1]]
    <3>1. w1 = [s.web[c] EXCEPT !.len = s.web[c].len + Size(p)]  BY DEF n
    <3> HIDE DEF w1, w
    <3>2. o = [[s EXCEPT !.fs = f1] EXCEPT !.web = [s.web EXCEPT ![c] = w1]]  BY <3>1
    <3> HIDE DEF f1, o
    <3> QED  BY <1>4, <3>2 DEF States
  <2> HIDE DEF w1, T, f1, o
  <2>5. /\ o \in States /\ o.fs = f1 /\ o.web[c] = w1
        /\ \A d \in Conns : d # c => o.web[d] = s.web[d]
    BY <1>4, <2>1, <2>2, <2>4 DEF States
  <2>6. /\ y \in States /\ y.fs = o.fs /\ y.web[c] = [w1 EXCEPT !.flags = G]
        /\ \A d \in Conns : d # c => y.web[d] = o.web[d]
    <3>1. w1.flags = w.flags  BY <1>4 DEF Web, w1
    <3>2. CASE Pages[p].parsed
      <4>1. y = [o EXCEPT !.web[c] = [w1 EXCEPT !.flags = G]]
        BY <1>4, <2>5, <3>1, <3>2 DEF Set, States, G
      <4>2. [w1 EXCEPT !.flags = G] \in Web  BY <1>9, <2>1 DEF Web
      <4> HIDE DEF G
      <4> QED  BY <2>5, <4>1, <4>2 DEF States
    <3>3. CASE ~Pages[p].parsed
      <4>1. y = o /\ G = w.flags  BY <3>3 DEF G
      <4> QED  BY <2>1, <2>5, <3>1, <4>1 DEF Web
    <3> QED  BY <3>2, <3>3
  <2>7. [w1 EXCEPT !.flags = G] = [w EXCEPT !.len = n, !.flags = G]  BY DEF w1
  <2> QED  BY <2>2, <2>3, <2>5, <2>6, <2>7
<1> HIDE DEF y
<1>11. y.web[c].files = q  BY <1>4, <1>10 DEF Web
<1>12. /\ t \in States /\ t.fs.locked = y.fs.locked
       /\ \A d \in Conns : d # c => t.web[d] = y.web[d]
       /\ t.web[c] = [y.web[c] EXCEPT !.files = r, !.flags = @ \cup {"FOPEN"}]
       /\ \A g \in 1 .. MaxOpen :
            t.fs.table[g] = IF Len(q) = Depth /\ g = q[Depth] THEN Shut ELSE y.fs.table[g]
  <2>1. Pushed(y.web[c].files, h) = r  BY <1>11 DEF r
  <2>3. y \in States /\ Pushed(y.web[c].files, h) \in Seq(Handles)  BY <1>8, <1>10, <2>1
  <2>4. Grown(y, IncFp(y, c, h), c, h)  BY <1>3, <2>3, IncFpIs
  <2>2. Grown(y, t, c, h)  BY <1>1, <2>4
  <2> QED  BY <1>11, <2>1, <2>2 DEF Grown
<1> HIDE DEF t
<1>13. t.web[c] = v  BY <1>4, <1>9, <1>10, <1>12 DEF Web
<1>14. /\ v \in Web /\ v.flags = F /\ v.files = r /\ v.cb = w.cb /\ v.flight = w.flight
       /\ v.len = n /\ ("RETRYCB" \in F => "RETRYCB" \in w.flags)
  BY <1>4, <1>6, <1>8, <1>9 DEF Web, G
<1>15. Fit(v)  BY <1>4, <1>8, <1>14 DEF Fit
<1>16. Kept(w, v)
  <2>1. /\ v.st = w.st /\ v.req = w.req /\ v.got = w.got
        /\ v.rxnull = w.rxnull /\ v.txnull = w.txnull /\ v.bye = w.bye /\ v.flight = w.flight
        /\ v.page = w.page /\ v.mode = w.mode /\ v.length = w.length /\ v.body = w.body
        /\ v.ended = w.ended /\ v.cut = w.cut
    BY <1>4 DEF Web
  <2>2. \A f \in Flags : f \notin Moving => (f \in F <=> f \in w.flags)  BY DEF Moving, G
  <2> QED  BY <1>14, <2>1, <2>2 DEF Kept
<1> HIDE DEF v
<1>17. Reads(s, t, c)  BY <1>10, <1>12, <1>13, <1>16 DEF Reads
<1>18. \A g \in 1 .. MaxOpen :
         t.fs.table[g] = IF Len(q) = Depth /\ g = q[Depth] THEN Shut
                         ELSE IF g = h THEN e ELSE s.fs.table[g]
  BY <1>10, <1>12
<1>19. Good(t)
  <2>1. \A g \in 1 .. MaxOpen : EntryOk(t.fs.table[g])  BY <1>6, <1>18 DEF Good, EntryOk
  <2>2. \A g \in 1 .. MaxOpen :
          Holding(t.web[c].files, g) => Holding(s.web[c].files, g) \/ s.fs.table[g] = Shut
    BY <1>2, <1>8, <1>13, <1>14
  <2>3. \A g \in 1 .. MaxOpen : t.fs.table[g] # Shut <=>
          Holding(t.web[c].files, g) \/ (s.fs.table[g] # Shut /\ ~Holding(s.web[c].files, g))
    <3> TAKE g \in 1 .. MaxOpen
    <3>1. Holding(t.web[c].files, g) <=> g = h
                                        \/ (Holding(q, g) /\ ~(Len(q) = Depth /\ g = q[Depth]))
      BY <1>8, <1>13, <1>14
    <3>2. Holding(q, g) => s.fs.table[g] # Shut  BY DEF Good, Owning
    <3>3. Len(q) = Depth => Holding(q, q[Depth])  BY <1>5 DEF Holding, Depth
    <3> QED  BY <1>2, <1>6, <1>7, <1>18, <3>1, <3>2, <3>3
  <2>4. Distinct(t.web[c].files) /\ Fit(t.web[c])  BY <1>8, <1>13, <1>14, <1>15
  <2>5. \A d \in Conns : d # c => t.web[d] = s.web[d]  BY <1>17 DEF Reads
  <2>6. Changes(s, t, c)  BY <1>12, <2>1, <2>2, <2>3, <2>4, <2>5 DEF Changes
  <2> QED  BY <2>6, ChangesHands
<1>20. OpensAt(s, t, c, p, h)  BY <1>2, <1>13, <1>14, <1>18 DEF OpensAt, n, e, r
<1>21. t.web[c].files # <<>> /\ t.web[c].flags = F  BY <1>8, <1>13, <1>14
<1> QED  BY <1>17, <1>19, <1>20, <1>21 DEF t, h, G

\* web_inc_fopen, in short
LEMMA IncFopenGood ==
  ASSUME NEW s, Good(s), NEW c \in Conns, NEW p, MayInclude(s, c, p)
  PROVE  LET t == IncFopen(s, c, p)
         IN  /\ Good(t) /\ Reads(s, t, c) /\ t.web[c].files # <<>>
             /\ t.web[c].flags = s.web[c].flags \cup {"FOPEN"}
                                   \cup (IF Pages[p].parsed THEN {"FCALBACK"} ELSE {})
  BY IncFopenIs

\* Of the flags F and G, only those that reading changes may differ, and no callback has to
\* be repeated that had not to be.
Alike(F, G) ==
  /\ \A f \in Flags : f \notin Moving => (f \in G <=> f \in F)
  /\ "RETRYCB" \in G => "RETRYCB" \in F

\* t is s with some of c's files closed, and other flags.
Closes(s, t, c, p, G) ==
  LET q == s.web[c].files
  IN  /\ t \in States /\ t.fs.locked = s.fs.locked
      /\ \A d \in Conns : d # c => t.web[d] = s.web[d]
      /\ t.web[c] = [s.web[c] EXCEPT !.files = p, !.flags = G]
      /\ \A h \in 1 .. MaxOpen : Holding(p, h) => Holding(q, h)
      /\ \A h \in 1 .. MaxOpen :
           t.fs.table[h] = IF Holding(q, h) /\ ~Holding(p, h) THEN Shut ELSE s.fs.table[h]

\* That is one of the functions that read.
LEMMA ClosesGood ==
  ASSUME NEW s, Good(s), NEW c \in Conns, NEW t, NEW p \in Seq(Handles), NEW G \in SUBSET Flags,
         Closes(s, t, c, p, G), Len(p) <= Depth, Distinct(p), Alike(s.web[c].flags, G)
  PROVE  Good(t) /\ Reads(s, t, c) /\ t.web[c].files = p /\ t.web[c].flags = G
<1> DEFINE w == s.web[c]
           v == [w EXCEPT !.files = p, !.flags = G]
<1>1. w \in Web /\ Fit(w)  BY DEF Good, Fit
<1>2. t.web[c] = v  BY DEF Closes
<1>3. /\ v \in Web /\ v.flags = G /\ v.files = p /\ v.cb = w.cb /\ v.flight = w.flight
  BY <1>1 DEF Web
<1>4. Fit(v)  BY <1>1, <1>3 DEF Fit, Alike
<1>5. Kept(w, v)
  <2>1. /\ v.st = w.st /\ v.req = w.req /\ v.got = w.got
        /\ v.rxnull = w.rxnull /\ v.txnull = w.txnull /\ v.bye = w.bye /\ v.flight = w.flight
        /\ v.page = w.page /\ v.mode = w.mode /\ v.length = w.length /\ v.body = w.body
        /\ v.ended = w.ended /\ v.cut = w.cut
    BY <1>1 DEF Web
  <2> QED  BY <1>3, <2>1 DEF Kept, Alike
<1> HIDE DEF v
<1>6. Reads(s, t, c)  BY <1>2, <1>5 DEF Reads, Closes
<1>7. Changes(s, t, c)
  <2>1. \A h \in 1 .. MaxOpen : EntryOk(t.fs.table[h])  BY DEF Closes, Good, EntryOk
  <2>2. \A h \in 1 .. MaxOpen : Holding(w.files, h) => s.fs.table[h] # Shut
    BY DEF Good, Owning
  <2>3. \A h \in 1 .. MaxOpen : t.fs.table[h] # Shut <=>
          Holding(p, h) \/ (s.fs.table[h] # Shut /\ ~Holding(w.files, h))
    BY <2>2 DEF Closes
  <2> QED  BY <1>2, <1>3, <1>4, <2>1, <2>3 DEF Changes, Closes
<1>8. Good(t)  BY <1>7, ChangesHands
<1> QED  BY <1>2, <1>3, <1>6, <1>8

\* From s to t, only what is among the handles q may have been shut, and the callback to
\* repeat and the length are as they were.
Shuts(s, t, c, q) ==
  /\ t.web[c].cb = s.web[c].cb /\ t.web[c].len = s.web[c].len
  /\ \A g \in 1 .. MaxOpen : t.fs.table[g] = s.fs.table[g] \/ Holding(q, g)

\* web_inc_fclose
LEMMA IncFcloseGood ==
  ASSUME NEW s, Good(s), NEW c \in Conns
  PROVE  LET t == IncFclose(s, c)
         IN  /\ Good(t) /\ Reads(s, t, c)
             /\ t.web[c].files = IF s.web[c].files = <<>> THEN <<>> ELSE Tail(s.web[c].files)
             /\ t.web[c].flags = IF t.web[c].files = <<>>
                                 THEN s.web[c].flags \ {"FOPEN", "FCALBACK"}
                                 ELSE s.web[c].flags
             /\ Shuts(s, t, c, s.web[c].files)
             /\ \A g \in 1 .. MaxOpen : Holding(t.web[c].files, g) => t.fs.table[g] = s.fs.table[g]
<1> DEFINE w == s.web[c]
           q == w.files
           x == FsClose(s, Head(q))
           left == IF q = <<>> THEN s ELSE [x EXCEPT !.web[c].files = Tail(@)]
           p == IF q = <<>> THEN <<>> ELSE Tail(q)
           t == IncFclose(s, c)
<1>1. t = IF left.web[c].files = <<>> THEN Clr(left, c, {"FOPEN", "FCALBACK"}) ELSE left
  BY DEF IncFclose
<1>2. s \in States /\ w \in Web /\ Fit(w)  BY DEF Good, Fit
<1>3. q \in Seq(Handles) /\ Len(q) <= Depth /\ Distinct(q) /\ w.flags \in SUBSET Flags
  BY <1>2, WebIs DEF Good, Owning, Fit
<1>4. /\ Good(left) /\ Reads(s, left, c) /\ left.web[c].files = p /\ left.web[c].flags = w.flags
      /\ Shuts(s, left, c, q)
      /\ \A g \in 1 .. MaxOpen : Holding(p, g) => left.fs.table[g] = s.fs.table[g]
  <2>1. CASE q = <<>>  BY <1>2, <2>1 DEF Reads, Kept, Shuts
  <2>2. CASE q # <<>>
    <3>1. /\ p \in Seq(Handles) /\ Len(p) = Len(q) - 1 /\ Distinct(p)
          /\ \A h \in 1 .. MaxOpen : Holding(p, h) <=> Holding(q, h) /\ h # Head(q)
      BY <1>3, <2>2, TailIs
    <3>2. Len(p) <= Depth  BY <1>3, <3>1, LenProperties DEF Depth
    <3> DEFINE v == [w EXCEPT !.files = p, !.flags = w.flags]
    <3>3. /\ x \in States /\ x.web = s.web /\ x.fs.locked = s.fs.locked
          /\ \A h \in 1 .. MaxOpen : x.fs.table[h] = IF h = Head(q) THEN Shut ELSE s.fs.table[h]
      BY <1>2, FsCloseIs
    <3> HIDE DEF x
    <3>4. left = [x EXCEPT !.web[c].files = p]  BY <2>2, <3>3
    <3> HIDE DEF p, left
    <3>5. v = [w EXCEPT !.files = p] /\ v \in Web  BY <1>2, <3>1 DEF Web
    <3>6. left = [x EXCEPT !.web[c] = v]  BY <1>2, <3>3, <3>4, <3>5 DEF States
    <3>8. Holding(q, Head(q))
      <4>1. Len(q) # 0 /\ Head(q) = q[1]  BY <1>3, <2>2, EmptySeq
      <4> QED  BY <1>3, <4>1, LenProperties DEF Holding
    <3>7. Closes(s, left, c, p, w.flags)
      <4> HIDE DEF v
      <4>1. left \in States /\ left.fs = x.fs /\ left.web[c] = v
            /\ \A d \in Conns : d # c => left.web[d] = s.web[d]
        BY <3>3, <3>5, <3>6 DEF States
      <4> QED  BY <3>1, <3>3, <3>8, <4>1 DEF Closes, v
    <3> DEFINE G == w.flags
    <3>9. G \in SUBSET Flags /\ Alike(s.web[c].flags, G) /\ Closes(s, left, c, p, G)
      BY <1>3, <3>7 DEF Alike
    <3> HIDE DEF v, G
    <3>10. Good(left) /\ Reads(s, left, c) /\ left.web[c].files = p /\ left.web[c].flags = G
      BY <3>1, <3>2, <3>9, ClosesGood
    <3>11. v.cb = w.cb /\ v.len = w.len  BY <1>2 DEF Web, v
    <3>12. Shuts(s, left, c, q)  BY <3>7, <3>11 DEF Closes, Shuts, v
    <3>13. \A g \in 1 .. MaxOpen : Holding(p, g) => left.fs.table[g] = s.fs.table[g]
      BY <3>7 DEF Closes
    <3> QED  BY <3>10, <3>12, <3>13 DEF G
  <2> QED  BY <2>1, <2>2, Zenon
<1> HIDE DEF left, p
<1>5. CASE p = <<>>
  <2> DEFINE G == {"FOPEN", "FCALBACK"}
  <2>1. G \in SUBSET Moving  BY DEF Moving
  <2>2. t = Clr(left, c, G)  BY <1>1, <1>4, <1>5
  <2> HIDE DEF G, t
  <2>3. /\ Good(t) /\ Reads(left, t, c) /\ t.web[c].files = left.web[c].files
        /\ t.web[c].flags = left.web[c].flags \ G
    BY <1>4, <2>1, <2>2, ClrReads
  <2>4. Reads(s, t, c)  BY <1>4, <2>3, ReadsOn
  <2>5. Flagged(left, t, c, left.web[c].flags \ G)  BY <1>4, <2>2, ClrGood
  <2>6. left.web[c] \in Web  BY <1>4 DEF Good, Fit
  <2>7. t.web[c].cb = left.web[c].cb /\ t.web[c].len = left.web[c].len /\ t.fs = left.fs
    BY <2>5, <2>6 DEF Flagged, Web
  <2>8. /\ Shuts(s, t, c, q)
        /\ \A g \in 1 .. MaxOpen : Holding(p, g) => t.fs.table[g] = s.fs.table[g]
    BY <1>4, <2>7 DEF Shuts
  <2>9. t.web[c].files = p /\ t.web[c].flags = w.flags \ {"FOPEN", "FCALBACK"}
    BY <1>4, <2>3 DEF G
  <2> QED  BY <1>5, <2>3, <2>4, <2>8, <2>9 DEF p, t
<1>6. CASE p # <<>>
  <2>1. t = left  BY <1>1, <1>4, <1>6
  <2> QED  BY <1>4, <1>6, <2>1 DEF p
<1> QED  BY <1>5, <1>6

\* Close_web_conn
LEMMA CloseFilesGood ==
  ASSUME NEW s, Good(s), NEW c \in Conns
  PROVE  LET t == CloseFiles(s, c)
         IN  /\ Good(t) /\ Reads(s, t, c) /\ t.web[c].files = <<>>
             /\ t.web[c].flags = s.web[c].flags \ {"FOPEN", "FCALBACK"}
             /\ \A g \in 1 .. MaxOpen :
                  t.fs.table[g] = s.fs.table[g] \/ Holding(s.web[c].files, g)
<1> DEFINE w == s.web[c]
           q == w.files
           T == [h \in 1 .. MaxOpen |-> IF h \in ToSet(q) THEN Shut ELSE s.fs.table[h]]
           f == [s.fs EXCEPT !.table = T]
           G == w.flags \ {"FOPEN", "FCALBACK"}
           v == [w EXCEPT !.files = <<>>, !.flags = G]
           t == CloseFiles(s, c)
<1>1. s \in States /\ w \in Web  BY DEF Good, Fit
<1>2. q \in Seq(Handles) /\ w.flags \in SUBSET Flags  BY <1>1, WebIs
<1>3. \A h : h \in ToSet(q) <=> Holding(q, h)
  <2>1. DOMAIN q = 1 .. Len(q)  BY <1>2, LenProperties
  <2> QED  BY <2>1 DEF ToSet, Holding
<1>4. Shut \in [page : Names, pos : Nat]  BY DEF Shut, Names
<1>5. T \in [1 .. MaxOpen -> [page : Names, pos : Nat]]
  BY <1>1, <1>4, PartsAre
<1>6. f \in FileSystem /\ f.locked = s.fs.locked /\ f.table = T
  BY <1>1, <1>5 DEF States, FileSystem, Names
<1>7. <<>> \in Seq(Handles) /\ Len(<<>>) = 0 /\ G \in SUBSET Flags
  BY <1>2, EmptySeq
<1>8. v \in Web  BY <1>1, <1>7 DEF Web
<1>10. t \in States /\ t.fs = f /\ t.web[c] = v /\ \A d \in Conns : d # c => t.web[d] = s.web[d]
  <2> DEFINE x == [s EXCEPT !.fs.table = T, !.web[c].files = <<>>]
             w1 == [w EXCEPT !.files = <<>>]
             K == {"FOPEN", "FCALBACK"}
  <2>1. t = Clr(x, c, K)  BY DEF CloseFiles
  <2>2. x = [[s EXCEPT !.fs = f] EXCEPT !.web = [s.web EXCEPT ![c] = w1]]  OBVIOUS
  <2>3. w1 \in Web /\ w1.flags = w.flags /\ v = [w1 EXCEPT !.flags = G]
    BY <1>1, <1>7 DEF Web
  <2> HIDE DEF x, w1, f, t, G, v
  <2>4. x \in States /\ x.fs = f /\ x.web[c] = w1 /\ \A d \in Conns : d # c => x.web[d] = s.web[d]
    BY <1>1, <1>6, <2>2, <2>3 DEF States
  <2> HIDE DEF K
  <2>5. Reflagged(x, t, c, x.web[c].flags \ K)  BY <2>1, <2>4, ClrIs
  <2>6. x.web[c].flags \ K = G  BY <2>3, <2>4 DEF G, K
  <2> QED  BY <2>3, <2>4, <2>5, <2>6 DEF Reflagged
<1> HIDE DEF t, f, v, G
<1>11. \A h : ~Holding(<<>>, h)  BY <1>7 DEF Holding
<1>12. Closes(s, t, c, <<>>, G)
  <2>1. \A h \in 1 .. MaxOpen : t.fs.table[h] = IF Holding(q, h) THEN Shut ELSE s.fs.table[h]
    BY <1>3, <1>6, <1>10
  <2> QED  BY <1>6, <1>10, <1>11, <2>1 DEF Closes, v
<1>13. Distinct(<<>>) /\ Len(<<>>) <= Depth  BY <1>7 DEF Distinct, Depth
<1>14. Alike(w.flags, G)  BY DEF Moving, G, Alike
<1>15. Good(t) /\ Reads(s, t, c) /\ t.web[c].files = <<>> /\ t.web[c].flags = G
  BY <1>7, <1>12, <1>13, <1>14, ClosesGood
<1>16. \A g \in 1 .. MaxOpen : t.fs.table[g] = s.fs.table[g] \/ Holding(q, g)
  BY <1>12 DEF Closes
<1> QED  BY <1>15, <1>16 DEF t, G

\* From s to t, the file h is read on to pos.
Moves(s, t, h, pos) ==
  \A g \in 1 .. MaxOpen :
    t.fs.table[g] = IF g = h THEN [page |-> s.fs.table[h].page, pos |-> pos] ELSE s.fs.table[g]

\* WEBFSGetArray of n items
LEMMA SkipGood ==
  ASSUME NEW s, Good(s), NEW h \in 1 .. MaxOpen, s.fs.table[h] # Shut, NEW c, NEW n \in Nat
  PROVE  LET t == [s EXCEPT !.fs.table[h].pos = @ + n]
         IN  /\ Good(t) /\ t.web = s.web /\ Reads(s, t, c)
             /\ Moves(s, t, h, s.fs.table[h].pos + n)
<1> DEFINE e == [s.fs.table[h] EXCEPT !.pos = @ + n]
           T == [s.fs.table EXCEPT ![h] = e]
           f == [s.fs EXCEPT !.table = T]
           t == [s EXCEPT !.fs.table[h].pos = @ + n]
<1>1. s \in States /\ s.fs.table[h] \in [page : Names, pos : Nat] /\ EntryOk(s.fs.table[h])
  BY DEF Good, States, FileSystem, Names
<1>2. /\ e \in [page : Names, pos : Nat] /\ EntryOk(e) /\ e # Shut
      /\ e = [page |-> s.fs.table[h].page, pos |-> s.fs.table[h].pos + n]
  BY <1>1 DEF EntryOk, Shut
<1>3. t = [s EXCEPT !.fs = f]  BY <1>1 DEF States, FileSystem
<1> HIDE DEF e
<1>4. T \in [1 .. MaxOpen -> [page : Names, pos : Nat]]
      /\ \A g \in 1 .. MaxOpen : T[g] = IF g = h THEN e ELSE s.fs.table[g]
  BY <1>1, <1>2 DEF States, FileSystem, Names
<1> HIDE DEF T
<1>5. f \in FileSystem /\ f.locked = s.fs.locked /\ f.table = T
  BY <1>1, <1>4 DEF States, FileSystem, Names
<1> HIDE DEF f
<1>6. t \in States /\ t.web = s.web /\ t.fs = f  BY <1>1, <1>3, <1>5 DEF States
<1> HIDE DEF t
<1>7. \A g \in 1 .. MaxOpen : t.fs.table[g] # Shut <=> s.fs.table[g] # Shut
  BY <1>2, <1>4, <1>5, <1>6
<1>8. \A g \in 1 .. MaxOpen : EntryOk(t.fs.table[g])
  BY <1>2, <1>4, <1>5, <1>6 DEF Good
<1>9. Good(t)  BY <1>6, <1>7, <1>8 DEF Good, Owning
<1>10. Reads(s, t, c)  BY <1>5, <1>6 DEF Reads, Kept
<1>11. Moves(s, t, h, s.fs.table[h].pos + n)  BY <1>2, <1>4, <1>5, <1>6 DEF Moves
<1> QED  BY <1>6, <1>9, <1>10, <1>11 DEF t

\* WEBFSGetArray of one item
LEMMA ReadGood ==
  ASSUME NEW s, Good(s), NEW h \in 1 .. MaxOpen, s.fs.table[h] # Shut, NEW c
  PROVE  LET t == Read(s, h)
         IN  /\ Good(t) /\ t.web = s.web /\ Reads(s, t, c)
             /\ Moves(s, t, h, s.fs.table[h].pos + 1)
<1>1. LET t == [s EXCEPT !.fs.table[h].pos = @ + 1]
      IN  /\ Good(t) /\ t.web = s.web /\ Reads(s, t, c)
          /\ Moves(s, t, h, s.fs.table[h].pos + 1)
  BY SkipGood
<1> QED  BY <1>1 DEF Read

\* A file ends.
LEMMA FileEndsGood ==
  ASSUME NEW s, Good(s), NEW c \in Conns
  PROVE  LET t == FileEnds(s, c)
         IN  /\ Good(t) /\ Reads(s, t, c)
             /\ t.web[c].files # <<>> \/ "FCLOSE" \in t.web[c].flags
<1> DEFINE x == IncFclose(s, c)
           t == FileEnds(s, c)
<1>1. /\ Good(x) /\ Reads(s, x, c)
      /\ x.web[c].flags = IF x.web[c].files = <<>> THEN s.web[c].flags \ {"FOPEN", "FCALBACK"}
                          ELSE s.web[c].flags
  BY IncFcloseGood
<1>2. t = IF Has(x, c, "FOPEN") THEN x ELSE Quit(x, c)  BY DEF FileEnds
<1> HIDE DEF x, t
<1>3. CASE Has(x, c, "FOPEN")  BY <1>1, <1>2, <1>3 DEF Has, t
<1>4. CASE ~Has(x, c, "FOPEN")
  <2>1. /\ Good(Quit(x, c)) /\ Reads(x, Quit(x, c), c)
        /\ Quit(x, c).web[c].flags = x.web[c].flags \cup {"FCLOSE", "DISCONNECT"}
    BY <1>1, QuitReads
  <2>2. Reads(s, t, c)  BY <1>1, <1>2, <1>4, <2>1, ReadsOn
  <2> QED  BY <1>2, <1>4, <2>1, <2>2 DEF t
<1> QED  BY <1>3, <1>4

\* Nothing, or one read, goes into a buffer with room.
LEMMA OneOut ==
  /\ <<>> \in Seq(Outs) /\ Len(<<>>) = 0
  /\ Tilde \in Outs /\ NotFound \in Outs /\ Fixed \in Outs
  /\ \A x \in Outs : <<x>> \in Seq(Outs) /\ Len(<<x>>) = 1
  /\ \A p \in Names, i \in Nat : <<p, i>> \in Outs
<1>1. <<>> \in Seq(Outs) /\ Len(<<>>) = 0  BY EmptySeq
<1>2. Tilde \in Outs /\ NotFound \in Outs /\ Fixed \in Outs  BY DEF Outs
<1>3. \A p \in Names, i \in Nat : <<p, i>> \in Outs  BY DEF Outs
<1>4. \A x \in Outs : <<x>> \in Seq(Outs) /\ Len(<<x>>) = 1  OBVIOUS
<1> QED  BY <1>1, <1>2, <1>3, <1>4

\* The text of a call has been read.
LEMMA CalledGood ==
  ASSUME NEW s, Good(s), NEW c \in Conns, NEW at \in Names \X Nat, NEW room \in Nat \ {0},
         at[1] \in DOMAIN Pages, at[2] \in 1 .. Size(at[1]),
         Pages[at[1]].items[at[2]].k \in {"call", "inc"},
         "RETRYCB" \notin s.web[c].flags, s.web[c].files # <<>>
  PROVE  LET x == Called(s, c, at, room)
         IN  Fills(s, x, c, room) /\ x.s.web[c].files # <<>>
<1> DEFINE item == Pages[at[1]].items[at[2]]
           x == Called(s, c, at, room)
<1>1. CASE item.k = "call"
  <2>1. x = Callback(s, c, at, room)  BY <1>1 DEF Called
  <2>2. CallAt(at)  BY <1>1 DEF CallAt
  <2> HIDE DEF x
  <2>3. Fills(s, x, c, room) /\ x.s.web[c].files = s.web[c].files  BY <2>1, <2>2, CallbackGood
  <2> QED  BY <2>3 DEF x
<1>2. CASE item.k = "inc" /\ MayInclude(s, c, item.f)
  <2> DEFINE f == item.f
             t == IncFopen(s, c, f)
  <2>1. x = Says(t, <<>>)  BY <1>2 DEF Called
  <2>2. MayInclude(s, c, f)  BY <1>2
  <2> HIDE DEF f
  <2>3. Good(t) /\ Reads(s, t, c) /\ t.web[c].files # <<>>  BY <2>2, IncFopenGood
  <2> HIDE DEF t, x
  <2> QED  BY <2>1, <2>3, OneOut DEF Says, Fills, x
<1>3. CASE item.k = "inc" /\ ~MayInclude(s, c, item.f)
  <2>1. x = Says(s, <<NotFound>>)  BY <1>3 DEF Called
  <2>2. Reads(s, s, c)  BY DEF Reads, Kept
  <2> HIDE DEF x
  <2> QED  BY <2>1, <2>2, OneOut DEF Says, Fills, x
<1> QED  BY <1>1, <1>2, <1>3

\* One turn of the loop
LEMMA TurnGood ==
  ASSUME NEW s, Good(s), NEW c \in Conns, NEW room \in Nat \ {0}, s.web[c].files # <<>>
  PROVE  LET x == Turn(s, c, room)
         IN  /\ Fills(s, x, c, room)
             /\ x.s.web[c].files # <<>> \/ "FCLOSE" \in x.s.web[c].flags
<1> DEFINE h  == Head(s.web[c].files)
           f  == Entry(s, h)
           at == <<f.page, f.pos>>
           it == Pages[f.page].items[f.pos]
           r  == Read(s, h)
           found == Has(s, c, "FINDCB")
           x  == Turn(s, c, room)
           G  == {"FINDCB"}
           y  == Clr(r, c, G)
           z  == Set(r, c, G)
<1>0. s \in States /\ s.web[c] \in Web /\ ("RETRYCB" \in s.web[c].flags => CbOk(s.web[c].cb))
  BY DEF Good, Fit
<1>1. CASE Has(s, c, "RETRYCB")
  <2> DEFINE b == s.web[c].cb.at
  <2>1. x = Callback(s, c, b, room)  BY <1>1, Zenon DEF Turn
  <2>2. CallAt(b) /\ b \in Names \X Nat  BY <1>0, <1>1, WebIs DEF Has, CbOk, Cb
  <2>3. b = s.web[c].cb.at /\ room \in Nat  OBVIOUS
  <2> HIDE DEF b, x
  <2>4. Fills(s, x, c, room) /\ x.s.web[c].files = s.web[c].files
    BY <2>1, <2>2, <2>3, CallbackGood
  <2> QED  BY <2>4 DEF x
<1>2. CASE ~Has(s, c, "RETRYCB") /\ AtEnd(f)
  <2> DEFINE t == FileEnds(s, c)
  <2>1. x = Says(t, <<>>)  BY <1>2, Zenon DEF Turn
  <2> HIDE DEF x, t
  <2>2. /\ Good(t) /\ Reads(s, t, c)
        /\ t.web[c].files # <<>> \/ "FCLOSE" \in t.web[c].flags
    BY FileEndsGood DEF t
  <2> QED  BY <2>1, <2>2, OneOut DEF Says, Fills, x
<1>3. CASE ~Has(s, c, "RETRYCB") /\ ~AtEnd(f)
  <2>1. f # Shut /\ ~(f.pos > Size(f.page))  BY <1>3 DEF AtEnd
  <2>2. h \in 1 .. MaxOpen /\ f = s.fs.table[h]  BY <2>1 DEF Entry
  <2>3. f.page \in DOMAIN Pages /\ f.pos \in 1 .. Size(f.page) /\ f.pos \in Nat /\ f.page \in Names
    <3>1. f \in [page : Names, pos : Nat] /\ EntryOk(f)  BY <1>0, <2>2, PartsAre DEF Good
    <3>2. f.page \in DOMAIN Pages /\ f.pos > 0  BY <2>1, <3>1 DEF EntryOk
    <3>3. Size(f.page) \in Nat  BY <3>2, PageIs
    <3> QED  BY <2>1, <3>1, <3>2, <3>3 DEF Names
  <2>4. it.k \in Items /\ (it.k = "short" => f.pos = Size(f.page))
    <3> DEFINE p == f.page
               i == f.pos
    <3>1. p \in DOMAIN Pages /\ i \in 1 .. Size(p)  BY <2>3
    <3> HIDE DEF p, i
    <3>2. Pages[p].items[i].k \in Items /\ (Pages[p].items[i].k = "short" => i = Size(p))
      BY <3>1, PageIs
    <3> QED  BY <3>2, Zenon DEF p, i
  <2>5. Good(r) /\ r.web = s.web /\ Reads(s, r, c)  BY <2>1, <2>2, ReadGood
  <2>6. x = CASE it.k = "mark" /\ ~found -> Says(z, <<>>)
              [] it.k = "mark" /\ found  -> Says(y, <<Tilde>>)
              [] it.k = "data"           -> Says(y, <<at>>)
              [] it.k = "short"          -> Says(FileEnds(y, c), <<at>>)
              [] it.k \in {"call", "inc"} /\ found  -> Called(y, c, at, room)
              [] it.k \in {"call", "inc"} /\ ~found -> Says(z, <<at>>)
    BY <1>3, Zenon DEF Turn
  <2>7. at \in Names \X Nat /\ at[1] = f.page /\ at[2] = f.pos /\ at \in Outs  BY <2>3, OneOut
  <2>8. it = Pages[at[1]].items[at[2]]  OBVIOUS
  <2>9. "RETRYCB" \notin r.web[c].flags /\ r.web[c].files # <<>>  BY <1>3, <2>5 DEF Has
  <2> HIDE DEF r, at, x, it, found
  <2>10. /\ Good(z) /\ Reads(r, z, c) /\ z.web[c].files = r.web[c].files
    <3>1. "FINDCB" \in Moving /\ "FINDCB" # "RETRYCB"  BY DEF Moving
    <3> QED  BY <2>5, <3>1, SetReads
  <2>11. /\ Good(y) /\ Reads(r, y, c) /\ y.web[c].files = r.web[c].files
         /\ y.web[c].flags = r.web[c].flags \ G
    <3>1. G \in SUBSET Moving  BY DEF Moving
    <3> HIDE DEF G
    <3> QED  BY <2>5, <3>1, ClrReads
  <2>12. Reads(s, z, c) /\ Reads(s, y, c)  BY <2>5, <2>10, <2>11, ReadsOn
  <2> HIDE DEF y, z
  <2>13. CASE x = Says(z, <<>>) \/ x = Says(z, <<at>>)
    <3>1. x.s = z /\ (x.out = <<>> \/ x.out = <<at>>)  BY <2>13 DEF Says
    <3>4. <<at>> \in Seq(Outs) /\ Len(<<at>>) = 1  BY <2>7, OneOut
    <3>5. \A o : o = <<at>> => o \in Seq(Outs) /\ Len(o) <= 1  BY <3>4
    <3>6. \A o : o = <<>> => o \in Seq(Outs) /\ Len(o) <= 1  BY OneOut
    <3>2. x.out \in Seq(Outs) /\ Len(x.out) <= 1  BY <3>1, <3>5, <3>6
    <3>3. Fills(s, x, c, room)  BY <2>10, <2>12, <3>1, <3>2 DEF Fills
    <3> QED  BY <2>9, <2>10, <3>1, <3>3 DEF x
  <2>14. CASE x = Says(y, <<Tilde>>) \/ x = Says(y, <<at>>)
    <3>1. x.s = y /\ (x.out = <<Tilde>> \/ x.out = <<at>>)  BY <2>14 DEF Says
    <3>4. <<at>> \in Seq(Outs) /\ Len(<<at>>) = 1  BY <2>7, OneOut
    <3>5. \A o : o = <<at>> => o \in Seq(Outs) /\ Len(o) <= 1  BY <3>4
    <3>7. <<Tilde>> \in Seq(Outs) /\ Len(<<Tilde>>) = 1  BY OneOut
    <3>6. \A o : o = <<Tilde>> => o \in Seq(Outs) /\ Len(o) <= 1  BY <3>7
    <3>2. x.out \in Seq(Outs) /\ Len(x.out) <= 1  BY <3>1, <3>5, <3>6
    <3>3. Fills(s, x, c, room)  BY <2>11, <2>12, <3>1, <3>2 DEF Fills
    <3> QED  BY <2>9, <2>11, <3>1, <3>3 DEF x
  <2>15. CASE x = Says(FileEnds(y, c), <<at>>)
    <3> DEFINE t == FileEnds(y, c)
    <3>1. /\ Good(t) /\ Reads(y, t, c)
          /\ t.web[c].files # <<>> \/ "FCLOSE" \in t.web[c].flags
      BY <2>11, FileEndsGood
    <3>2. Reads(s, t, c)  BY <2>12, <3>1, ReadsOn
    <3> HIDE DEF t
    <3>3. x.s = t /\ x.out = <<at>>  BY <2>15 DEF Says, t
    <3> QED  BY <2>7, <3>1, <3>2, <3>3, OneOut DEF Fills, x
  <2>16. CASE x = Called(y, c, at, room) /\ it.k \in {"call", "inc"}
    <3>1. at[1] \in DOMAIN Pages /\ at[2] \in 1 .. Size(at[1])  BY <2>3, <2>7
    <3>2. Pages[at[1]].items[at[2]].k \in {"call", "inc"}  BY <2>8, <2>16
    <3>3. "RETRYCB" \notin y.web[c].flags /\ y.web[c].files # <<>>  BY <2>9, <2>11
    <3>7. Good(y) /\ at \in Names \X Nat /\ room \in Nat \ {0}  BY <2>7, <2>11
    <3>6. LET v == Called(y, c, at, room)
          IN  Fills(y, v, c, room) /\ v.s.web[c].files # <<>>
      BY ONLY <3>1, <3>2, <3>3, <3>7, c \in Conns, CalledGood
    <3>4. Fills(y, x, c, room) /\ x.s.web[c].files # <<>>  BY <2>16, <3>6
    <3>5. Reads(s, x.s, c)  BY <2>12, <3>4, ReadsOn DEF Fills
    <3> QED  BY <3>4, <3>5 DEF Fills, x
  <2>17. it.k \in {"data", "short", "mark", "call", "inc"}  BY <2>4 DEF Items
  <2>18. \/ x = Says(z, <<>>) \/ x = Says(z, <<at>>) \/ x = Says(y, <<Tilde>>)
        \/ x = Says(y, <<at>>)
         \/ x = Says(FileEnds(y, c), <<at>>)
         \/ (x = Called(y, c, at, room) /\ it.k \in {"call", "inc"})
    BY <2>6, <2>17
  <2> QED  BY <2>13, <2>14, <2>15, <2>16, <2>18
<1> QED  BY <1>1, <1>2, <1>3

(***************************************************************************)
(* The loop that fills a buffer                                            *)
(***************************************************************************)
\* f gives the state and the buffer after each of k turns.
Turns(s, c, room, k, f) ==
  f = [n \in 0 .. k |-> IF n = 0 THEN Turned(Says(s, <<>>), c, room)
                        ELSE TurnedOn(f[n - 1], c, room)]

\* There is such a function.
LEMMA TurnsExist ==
  ASSUME NEW s, NEW c, NEW room, NEW n \in Nat
  PROVE  \E f : Turns(s, c, room, n, f)
<1> DEFINE Has0(k) == \E f : Turns(s, c, room, k, f)
           Bad == {k \in 0 .. n : ~Has0(k)}
           x0 == Turned(Says(s, <<>>), c, room)
           On(x) == TurnedOn(x, c, room)
<1>1. Has0(0)
  <2> DEFINE f == [i \in 0 .. 0 |-> x0]
  <2>1. f = [i \in 0 .. 0 |-> IF i = 0 THEN x0 ELSE On(f[i - 1])]  OBVIOUS
  <2> HIDE DEF f
  <2> QED  BY <2>1 DEF Turns
<1>2. ASSUME NEW k \in 1 .. n, Has0(k - 1)
      PROVE  Has0(k)
  <2>1. PICK f : Turns(s, c, room, k - 1, f)  BY <1>2
  <2> HIDE DEF x0, On
  <2>2. \A i \in 0 .. k - 1 : f[i] = IF i = 0 THEN x0 ELSE On(f[i - 1])
    BY <2>1 DEF Turns, x0, On
  <2> DEFINE g == [i \in 0 .. k |-> IF i = k THEN On(f[k - 1]) ELSE f[i]]
  <2>3. k \in Nat /\ k - 1 \in Nat /\ k # 0  OBVIOUS
  <2>4. \A i \in 0 .. k : g[i] = IF i = 0 THEN x0 ELSE On(g[i - 1])
    <3> TAKE i \in 0 .. k
    <3>1. \A j \in 0 .. k - 1 : j \in 0 .. k /\ j # k /\ g[j] = f[j]  BY <2>3
    <3>2. CASE i = k
      <4>1. k - 1 \in 0 .. k - 1 /\ k \in 0 .. k  BY <2>3
      <4>2. g[k] = On(f[k - 1])  BY <4>1
      <4>3. g[k - 1] = f[k - 1]  BY <3>1, <4>1
      <4> HIDE DEF g
      <4> QED  BY <2>3, <3>2, <4>2, <4>3
    <3>3. CASE i # k
      <4>1. i \in 0 .. k - 1  BY <2>3, <3>3
      <4>2. f[i] = IF i = 0 THEN x0 ELSE On(f[i - 1])  BY <2>2, <4>1
      <4>3. i # 0 => i - 1 \in 0 .. k - 1  BY <2>3, <4>1
      <4> HIDE DEF g
      <4> QED  BY <3>1, <4>1, <4>2, <4>3
    <3> QED  BY <3>2, <3>3
  <2>5. g = [i \in 0 .. k |-> g[i]]  OBVIOUS
  <2> HIDE DEF g
  <2>6. g = [i \in 0 .. k |-> IF i = 0 THEN x0 ELSE On(g[i - 1])]  BY <2>4, <2>5
  <2> QED  BY <2>6 DEF Turns, x0, On
<1>3. SUFFICES ASSUME Bad # {}  PROVE FALSE
  BY DEF Bad
<1>4. PICK k \in Bad : \A j \in Bad : k <= j
  <2>1. Bad \in SUBSET Nat  OBVIOUS
  <2> HIDE DEF Bad
  <2> QED  BY <1>3, <2>1, LeastNatural
<1>5. k \in 0 .. n /\ ~Has0(k)  OBVIOUS
<1>6. k # 0  BY <1>1, <1>5
<1>7. k \in 1 .. n /\ k - 1 \in 0 .. n /\ ~(k <= k - 1)  BY <1>5, <1>6
<1>8. Has0(k - 1)
  <2>1. k - 1 \notin Bad  BY <1>4, <1>7
  <2> QED  BY <1>7, <2>1
<1> QED  BY <1>2, <1>5, <1>7, <1>8

\* Filled is the last value of such a function.
LEMMA FilledIs ==
  ASSUME NEW s, NEW c, NEW room
  PROVE  \E f : /\ f[0] = Turned(Says(s, <<>>), c, room)
                /\ \A i \in 1 .. MaxTurns : f[i] = TurnedOn(f[i - 1], c, room)
                /\ Filled(s, c, room) = f[MaxTurns]
<1> DEFINE f == CHOOSE g : g = [n \in 0 .. MaxTurns |->
                                  IF n = 0 THEN Turned(Says(s, <<>>), c, room)
                                  ELSE TurnedOn(g[n - 1], c, room)]
<1>1. Filled(s, c, room) = f[MaxTurns]  BY DEF Filled
<1>2. \E g : Turns(s, c, room, MaxTurns, g)  BY TurnsExist, Constants
<1>3. f = [n \in 0 .. MaxTurns |-> IF n = 0 THEN Turned(Says(s, <<>>), c, room)
                                   ELSE TurnedOn(f[n - 1], c, room)]
  BY <1>2 DEF Turns
<1> HIDE DEF f
<1>4. f[0] = Turned(Says(s, <<>>), c, room)  BY <1>3, Constants
<1>5. \A i \in 1 .. MaxTurns : f[i] = TurnedOn(f[i - 1], c, room)  BY <1>3, Constants
<1> QED  BY <1>1, <1>4, <1>5

\* What is put together fits.
LEMMA JoinFits ==
  ASSUME NEW o \in Seq(Outs), NEW q \in Seq(Outs), NEW room \in Nat,
         Len(q) <= room - Len(o)
  PROVE  o \o q \in Seq(Outs) /\ Len(o \o q) <= room
<1>1. o \o q \in Seq(Outs) /\ Len(o \o q) = Len(o) + Len(q)  BY ConcatProperties
<1>2. Len(o) \in Nat /\ Len(q) \in Nat  BY LenProperties
<1> QED  BY <1>1, <1>2

\* What has been filled, and can go on
Filling(s, x, c, room) ==
  Fills(s, x, c, room) /\ (x.s.web[c].files # <<>> \/ "FCLOSE" \in x.s.web[c].flags)

\* A turn more
LEMMA TurnedFilling ==
  ASSUME NEW s, NEW c \in Conns, NEW room \in Nat, NEW x, Fills(s, x, c, room),
         x.s.web[c].files # <<>>, room - Len(x.out) >= 1
  PROVE  Filling(s, Turned(x, c, room), c, room)
<1> DEFINE a == x.s
           o == x.out
           n == room - Len(o)
           t == Turn(a, c, n)
           y == Turned(x, c, room)
<1>1. Good(a) /\ Reads(s, a, c) /\ o \in Seq(Outs) /\ a.web[c].files # <<>>  BY DEF Fills
<1>2. n \in Nat \ {0}
  <2>1. Len(o) \in Nat  BY <1>1, LenProperties
  <2> QED  BY <2>1
<1>3. y = Says(t.s, o \o t.out)  BY DEF Turned
<1>0. n = room - Len(o)  OBVIOUS
<1> HIDE DEF a, o, n, y
<1>4. /\ Fills(a, t, c, n)
      /\ t.s.web[c].files # <<>> \/ "FCLOSE" \in t.s.web[c].flags
  BY <1>1, <1>2, TurnGood
<1> HIDE DEF t
<1>5. t.out \in Seq(Outs) /\ Len(t.out) <= room - Len(o)  BY <1>0, <1>4 DEF Fills
<1>6. o \o t.out \in Seq(Outs) /\ Len(o \o t.out) <= room  BY <1>1, <1>5, JoinFits
<1>7. Reads(s, t.s, c)  BY <1>1, <1>4, ReadsOn DEF Fills
<1>8. y.s = t.s /\ y.out = o \o t.out  BY <1>3 DEF Says
<1> QED  BY <1>4, <1>6, <1>7, <1>8 DEF Filling, Fills, y

\* A page is read into a buffer.
LEMMA FilledGood ==
  ASSUME NEW s, Good(s), NEW c \in Conns, NEW room \in Nat \ {0}, s.web[c].files # <<>>
  PROVE  Fills(s, Filled(s, c, room), c, room)
<1>1. PICK f : /\ f[0] = Turned(Says(s, <<>>), c, room)
               /\ \A i \in 1 .. MaxTurns : f[i] = TurnedOn(f[i - 1], c, room)
               /\ Filled(s, c, room) = f[MaxTurns]
  BY FilledIs
<1>2. Filling(s, f[0], c, room)
  <2> DEFINE x == Says(s, <<>>)
  <2>1. Reads(s, s, c)  BY DEF Reads, Kept
  <2>2. x.s = s /\ x.out = <<>>  BY DEF Says
  <2> HIDE DEF x
  <2>3. Fills(s, x, c, room) /\ room - Len(x.out) >= 1  BY <2>1, <2>2, OneOut DEF Fills
  <2>4. x.s.web[c].files # <<>>  BY <2>2
  <2>5. Filling(s, Turned(x, c, room), c, room)  BY <2>3, <2>4, TurnedFilling
  <2> QED  BY <1>1, <2>5 DEF x
<1>3. ASSUME NEW i \in 1 .. MaxTurns, Filling(s, f[i - 1], c, room)
      PROVE  Filling(s, f[i], c, room)
  <2> DEFINE x == f[i - 1]
  <2>1. Filling(s, x, c, room) /\ f[i] = TurnedOn(x, c, room)  BY <1>1, <1>3
  <2> HIDE DEF x
  <2>2. CASE Goes(x, c, room)
    <3>1. room - Len(x.out) >= 1 /\ "FCLOSE" \notin x.s.web[c].flags  BY <2>2 DEF Goes, HasAny
    <3>2. Fills(s, x, c, room) /\ x.s.web[c].files # <<>>  BY <2>1, <3>1 DEF Filling
    <3>3. Filling(s, Turned(x, c, room), c, room)  BY <3>1, <3>2, TurnedFilling
    <3> QED  BY <2>1, <2>2, <3>3 DEF TurnedOn
  <2>3. CASE ~Goes(x, c, room)  BY <2>1, <2>3 DEF TurnedOn
  <2> QED  BY <2>2, <2>3
<1> DEFINE Bad == {i \in 0 .. MaxTurns : ~Filling(s, f[i], c, room)}
<1>4. Bad = {}
  <2> SUFFICES ASSUME Bad # {}  PROVE FALSE  OBVIOUS
  <2>1. PICK k \in Bad : \A j \in Bad : k <= j
    <3>1. Bad \in SUBSET Nat  BY Constants
    <3> HIDE DEF Bad
    <3> QED  BY <3>1, LeastNatural
  <2>2. k \in 0 .. MaxTurns /\ ~Filling(s, f[k], c, room)  OBVIOUS
  <2>3. k # 0  BY <1>2, <2>2
  <2>4. k \in 1 .. MaxTurns /\ k - 1 \in 0 .. MaxTurns /\ ~(k <= k - 1)  BY <2>2, <2>3, Constants
  <2>5. Filling(s, f[k - 1], c, room)
    <3>1. k - 1 \notin Bad  BY <2>1, <2>4
    <3> QED  BY <2>4, <3>1
  <2> QED  BY <1>3, <2>2, <2>4, <2>5
<1>5. Filling(s, f[MaxTurns], c, room)
  <2>1. MaxTurns \in 0 .. MaxTurns  BY Constants
  <2> QED  BY <1>4, <2>1
<1> QED  BY <1>1, <1>5 DEF Filling

\* A file that is not parsed is read into a buffer.
LEMMA PlainGood ==
  ASSUME NEW s, Good(s), NEW c \in Conns, NEW room \in Nat
  PROVE  Fills(s, Plain(s, c, room), c, room)
<1> DEFINE h == Head(s.web[c].files)
           f == Entry(s, h)
           left == IF AtEnd(f) THEN 0 ELSE Size(f.page) - f.pos + 1
           n == IF left < room THEN left ELSE room
           short == n > 0 /\ Pages[f.page].items[f.pos + n - 1].k = "short"
           t == IF n = 0 THEN s ELSE [s EXCEPT !.fs.table[h].pos = @ + n]
           out == [i \in 1 .. n |-> <<f.page, f.pos + i - 1>>]
           x == Plain(s, c, room)
<1>1. x = Says(IF n < room \/ short THEN Quit(t, c) ELSE t, out)  BY DEF Plain
<1>2. s \in States  BY DEF Good
<1>3. CASE AtEnd(f)
  <2>1. n = 0  BY <1>3
  <2>2. t = s /\ out = <<>>  BY <2>1
  <2>3. x = Says(IF n < room \/ short THEN Quit(s, c) ELSE s, <<>>)  BY <1>1, <2>2, Zenon
  <2> HIDE DEF n, short, x
  <2>4. Reads(s, s, c)  BY DEF Reads, Kept
  <2>5. Good(Quit(s, c)) /\ Reads(s, Quit(s, c), c)  BY QuitReads
  <2>6. x.out = <<>> /\ (x.s = s \/ x.s = Quit(s, c))  BY <2>3 DEF Says
  <2>7. Good(x.s) /\ Reads(s, x.s, c)  BY <2>4, <2>5, <2>6
  <2> QED  BY <2>6, <2>7, OneOut DEF Fills, x
<1>4. CASE ~AtEnd(f)
  <2>1. f # Shut /\ ~(f.pos > Size(f.page))  BY <1>4 DEF AtEnd
  <2>2. h \in 1 .. MaxOpen /\ f = s.fs.table[h]  BY <2>1 DEF Entry
  <2>3. f.page \in DOMAIN Pages /\ f.pos \in Nat /\ f.pos > 0 /\ Size(f.page) \in Nat
           /\ f.page \in Names
    <3>1. f \in [page : Names, pos : Nat] /\ EntryOk(f)  BY <1>2, <2>2, PartsAre DEF Good
    <3>2. f.page \in DOMAIN Pages /\ f.pos > 0  BY <2>1, <3>1 DEF EntryOk
    <3> QED  BY <3>1, <3>2, PageIs
  <2>4. n \in Nat /\ n <= room  BY <1>4, <2>1, <2>3
  <2> HIDE DEF n
  <2>5. out \in Seq(Outs) /\ Len(out) <= room
    <3> DEFINE p == f.page
               k == f.pos
    <3>1. p \in Names /\ k \in Nat /\ k > 0  BY <2>3
    <3>2. out = [i \in 1 .. n |-> <<p, k + i - 1>>]  OBVIOUS
    <3> HIDE DEF p, k, out, f
    <3>3. \A i \in 1 .. n : <<p, k + i - 1>> \in Outs
      <4> TAKE i \in 1 .. n
      <4>1. k + i - 1 \in Nat  BY <2>4, <3>1
      <4> QED  BY <3>1, <4>1, OneOut
    <3>4. out \in Seq(Outs) /\ Len(out) = n  BY <2>4, <3>2, <3>3
    <3> QED  BY <2>4, <3>4
  <2>6. Good(t) /\ Reads(s, t, c)
    <3>1. CASE n = 0  BY <3>1 DEF Reads, Kept
    <3>2. CASE n # 0  BY <2>1, <2>2, <2>4, <3>2, SkipGood, Zenon
    <3> QED  BY <3>1, <3>2, Zenon
  <2> HIDE DEF t, out, short, x
  <2>7. Good(Quit(t, c)) /\ Reads(t, Quit(t, c), c)  BY <2>6, QuitReads
  <2>8. x.out = out /\ (x.s = t \/ x.s = Quit(t, c))  BY <1>1 DEF Says
  <2>9. Reads(s, Quit(t, c), c)  BY <2>6, <2>7, ReadsOn
  <2> QED  BY <2>5, <2>6, <2>7, <2>8, <2>9 DEF Fills, x
<1> QED  BY <1>3, <1>4

(***************************************************************************)
(* Sending                                                                 *)
(***************************************************************************)
\* What answering a request leaves as it is
Talks(s, t, c) ==
  LET w == s.web[c]
      v == t.web[c]
  IN  /\ v.st = w.st /\ v.req = w.req /\ v.got = w.got /\ v.rxnull = w.rxnull
      /\ \A d \in Conns : d # c => t.web[d] = s.web[d]

\* One after the other, and reading
LEMMA TalksOn ==
  ASSUME NEW s, NEW t, NEW u, NEW c, Talks(s, t, c), Talks(t, u, c)
  PROVE  Talks(s, u, c)
  BY DEF Talks

\* Reading is answering.
LEMMA ReadsTalks ==
  ASSUME NEW s, NEW t, NEW c, Reads(s, t, c)
  PROVE  /\ Talks(s, t, c) /\ t.fs.locked = s.fs.locked
         /\ t.web[c].page = s.web[c].page /\ t.web[c].body = s.web[c].body
         /\ t.web[c].flight = s.web[c].flight
  BY DEF Reads, Kept, Talks

\* The connection w in s is changed to v, in fields that say nothing of files or callbacks.
Speaks(w, v) ==
  /\ v \in Web /\ v.files = w.files /\ v.cb = w.cb
  /\ v.st = w.st /\ v.req = w.req /\ v.got = w.got /\ v.rxnull = w.rxnull
  /\ "RETRYCB" \in v.flags => "RETRYCB" \in w.flags

\* t is s with the connection v in place of c's.
Puts(s, t, c, v) == t = [s EXCEPT !.web[c] = v]

\* That keeps the state good.
LEMMA SpeaksGood ==
  ASSUME NEW s, Good(s), NEW c \in Conns, NEW w, w = s.web[c], NEW v, Speaks(w, v),
         v.flight <= SndBuf, NEW t, Puts(s, t, c, v)
  PROVE  Good(t) /\ Talks(s, t, c) /\ t.web[c] = v /\ t.fs = s.fs
<1>0. t = [s EXCEPT !.web[c] = v]  BY DEF Puts
<1>1. Fit(s.web[c])  BY DEF Good
<1>2. Fit(v) /\ v.files = s.web[c].files  BY <1>1 DEF Fit, Speaks
<1>3. Good(t) /\ t.fs = s.fs /\ t.web[c] = v /\ \A d \in Conns : d # c => t.web[d] = s.web[d]
  BY <1>0, <1>2, PutGood
<1> QED  BY <1>3 DEF Talks, Speaks

\* The new value of a connection is put in its place.
LEMMA PutIs ==
  ASSUME NEW s, Good(s), NEW c \in Conns
  PROVE  s \in States /\ s.web[c] \in Web /\ Fit(s.web[c]) /\ s.web[c].flags \in SUBSET Flags
  BY WebIs DEF Good, Fit

\* tcpsrv_int_sent_data
LEMMA SendGood ==
  ASSUME NEW s, Good(s), NEW c \in Conns, NEW out \in Seq(Outs),
         s.web[c].flight + Len(out) <= SndBuf
  PROVE  LET t == Send(s, c, out)
         IN  /\ Good(t) /\ Talks(s, t, c) /\ t.fs = s.fs
             /\ t.web[c].page = s.web[c].page /\ t.web[c].flags = s.web[c].flags
             /\ t.web[c].flight = s.web[c].flight + Len(out)
             /\ t.web[c].files = s.web[c].files
<1> DEFINE w == s.web[c]
           n == w.flight + Len(out)
           b == w.body \o out
           v == [w EXCEPT !.body = b, !.flight = n]
           t == Send(s, c, out)
<1>1. s \in States /\ w \in Web  BY PutIs
<1>2. n \in Nat /\ b \in Seq(Outs) /\ n <= SndBuf
  <2>1. w.flight \in Nat /\ Len(out) \in Nat /\ w.body \in Seq(Outs)  BY <1>1, WebIs, LenProperties
  <2>2. b \in Seq(Outs)  BY <2>1, ConcatProperties
  <2> QED  BY <2>1, <2>2
<1>3. Puts(s, t, c, v)  BY <1>1 DEF Send, States, Web, Puts
<1> HIDE DEF n, b, t
<1>4. /\ v \in Web /\ v.files = w.files /\ v.cb = w.cb
      /\ v.st = w.st /\ v.req = w.req /\ v.got = w.got /\ v.rxnull = w.rxnull
      /\ v.flags = w.flags /\ v.flight = n /\ v.page = w.page
  BY <1>1, <1>2 DEF Web
<1> HIDE DEF v
<1>5. Speaks(w, v) /\ v.flight <= SndBuf  BY <1>2, <1>4 DEF Speaks
<1>6. Good(t) /\ Talks(s, t, c) /\ t.web[c] = v /\ t.fs = s.fs  BY <1>3, <1>5, SpeaksGood
<1> QED  BY <1>4, <1>6 DEF t, n

\* The last chunk has been sent.
LEMMA EndedGood ==
  ASSUME NEW s, Good(s), NEW c \in Conns
  PROVE  LET t == [s EXCEPT !.web[c].ended = TRUE]
         IN  Good(t) /\ Talks(s, t, c) /\ t.fs = s.fs /\ t.web[c].page = s.web[c].page
<1> DEFINE w == s.web[c]
           v == [w EXCEPT !.ended = TRUE]
           t == [s EXCEPT !.web[c].ended = TRUE]
<1>1. s \in States /\ w \in Web /\ Fit(w)  BY PutIs
<1>2. Puts(s, t, c, v)  BY <1>1 DEF States, Puts
<1> HIDE DEF t
<1>3. /\ v \in Web /\ v.files = w.files /\ v.cb = w.cb
      /\ v.st = w.st /\ v.req = w.req /\ v.got = w.got /\ v.rxnull = w.rxnull
      /\ v.flags = w.flags /\ v.flight = w.flight /\ v.page = w.page
  BY <1>1 DEF Web
<1> HIDE DEF v
<1>4. Speaks(w, v) /\ v.flight <= SndBuf  BY <1>1, <1>3 DEF Speaks, Fit
<1>5. Good(t) /\ Talks(s, t, c) /\ t.web[c] = v /\ t.fs = s.fs  BY <1>2, <1>4, SpeaksGood
<1> QED  BY <1>3, <1>5 DEF t

\* There was no memory: the page is given up.
GivenUp(s, c) == [Quit(s, c) EXCEPT !.web[c].cut = TRUE]

\* The state stays good, and the page is quit.
LEMMA GivenUpGood ==
  ASSUME NEW s, Good(s), NEW c \in Conns
  PROVE  LET t == GivenUp(s, c)
         IN  /\ Good(t) /\ Talks(s, t, c) /\ t.fs = s.fs
             /\ t.web[c].page = s.web[c].page /\ t.web[c].body = s.web[c].body
             /\ {"FCLOSE", "DISCONNECT"} \subseteq t.web[c].flags
<1> DEFINE q == Quit(s, c)
           w == q.web[c]
           v == [w EXCEPT !.cut = TRUE]
           t == GivenUp(s, c)
<1>1. /\ Good(q) /\ Reads(s, q, c) /\ q.fs = s.fs
      /\ w.flags = s.web[c].flags \cup {"FCLOSE", "DISCONNECT"}
  BY QuitReads
<1>0. t = [q EXCEPT !.web[c].cut = TRUE]  BY DEF GivenUp
<1> HIDE DEF q, t
<1>2. q \in States /\ w \in Web /\ Fit(w)  BY <1>1, PutIs
<1>3. Puts(q, t, c, v)  BY <1>0, <1>2 DEF States, Puts
<1>4. /\ v \in Web /\ v.files = w.files /\ v.cb = w.cb
      /\ v.st = w.st /\ v.req = w.req /\ v.got = w.got /\ v.rxnull = w.rxnull
      /\ v.flags = w.flags /\ v.flight = w.flight /\ v.page = w.page /\ v.body = w.body
  BY <1>2 DEF Web
<1> HIDE DEF v
<1>5. Speaks(w, v) /\ v.flight <= SndBuf  BY <1>2, <1>4 DEF Speaks, Fit
<1>6. Good(t) /\ Talks(q, t, c) /\ t.web[c] = v /\ t.fs = q.fs  BY <1>1, <1>3, <1>5, SpeaksGood
<1>7. Talks(s, q, c) /\ q.web[c].page = s.web[c].page /\ q.web[c].body = s.web[c].body
  BY <1>1, ReadsTalks
<1>8. Talks(s, t, c)  BY <1>6, <1>7, TalksOn
<1> QED  BY <1>1, <1>4, <1>6, <1>7, <1>8 DEF t

\* webserver_send_fdata, the end
LEMMA SendBodyGood ==
  ASSUME NEW s, Good(s), NEW c \in Conns, NEW out \in Seq(Outs), NEW room,
         s.web[c].flight + Len(out) <= SndBuf
  PROVE  LET t == SendBody(s, c, out, room)
         IN  Good(t) /\ Talks(s, t, c) /\ t.fs = s.fs /\ t.web[c].page = s.web[c].page
<1> DEFINE x == IF out = <<>> THEN s ELSE Send(s, c, out)
           t == SendBody(s, c, out, room)
           y == [x EXCEPT !.web[c].ended = TRUE]
<1>1. Good(x) /\ Talks(s, x, c) /\ x.fs = s.fs /\ x.web[c].page = s.web[c].page
  <2>1. Talks(s, s, c)  BY DEF Talks
  <2>2. LET u == Send(s, c, out)
        IN  Good(u) /\ Talks(s, u, c) /\ u.fs = s.fs /\ u.web[c].page = s.web[c].page
    BY SendGood
  <2> QED  BY <2>1, <2>2
<1>2. t = x \/ t = y  BY DEF SendBody
<1> HIDE DEF x, t
<1>3. Good(y) /\ Talks(x, y, c) /\ y.fs = x.fs /\ y.web[c].page = x.web[c].page
  BY <1>1, EndedGood
<1>4. Talks(s, y, c)  BY <1>1, <1>3, TalksOn
<1> HIDE DEF y
<1> QED  BY <1>1, <1>2, <1>3, <1>4 DEF t

\* webserver_send_fdata
LEMMA SendFdataGood ==
  ASSUME NEW s, Good(s), NEW c \in Conns, NEW t \in SendFdata(s, c)
  PROVE  Good(t) /\ Talks(s, t, c) /\ t.fs.locked = s.fs.locked /\ t.web[c].page = s.web[c].page
<1> DEFINE w == s.web[c]
           room == Room(s, c)
           x == IF Has(s, c, "FCALBACK") THEN Filled(s, c, room) ELSE Plain(s, c, room)
           b == SendBody(x.s, c, x.out, room)
<1>1. \/ t = Quit(s, c) \/ t = s
      \/ /\ w.files # <<>> /\ ~(SndBuf - w.flight < MinSend)
         /\ t = Quit(Send(s, c, <<Fixed>>), c) \/ t = GivenUp(s, c) \/ t = b
  BY DEF SendFdata, GivenUp
<1> HIDE DEF x, b, room
<1>2. w.flight \in Nat /\ w.flight <= SndBuf  BY PutIs, WebIs DEF Fit
<1>3. CASE t = Quit(s, c)  BY <1>3, QuitReads, ReadsTalks
<1>4. CASE t = s  BY <1>4 DEF Talks
<1>5. CASE t = GivenUp(s, c)  BY <1>5, GivenUpGood
<1>6. CASE ~(SndBuf - w.flight < MinSend) /\ t = Quit(Send(s, c, <<Fixed>>), c)
  <2> DEFINE o == <<Fixed>>
             y == Send(s, c, o)
  <2>1. o \in Seq(Outs) /\ Len(o) = 1  BY OneOut
  <2> HIDE DEF o
  <2>2. w.flight + Len(o) <= SndBuf  BY <1>2, <1>6, <2>1, Constants
  <2>3. Good(y) /\ Talks(s, y, c) /\ y.fs = s.fs /\ y.web[c].page = w.page
    BY <2>1, <2>2, SendGood
  <2>4. t = Quit(y, c)  BY <1>6 DEF o
  <2> HIDE DEF y
  <2>5. Good(t) /\ Reads(y, t, c)  BY <2>3, <2>4, QuitReads
  <2>6. Talks(y, t, c) /\ t.web[c].page = y.web[c].page /\ t.fs.locked = y.fs.locked
    BY <2>5, ReadsTalks
  <2> QED  BY <2>3, <2>5, <2>6, TalksOn
<1>7. CASE w.files # <<>> /\ ~(SndBuf - w.flight < MinSend) /\ t = b
  <2>1. room \in Nat \ {0} /\ w.flight + room <= SndBuf
    <3>1. room = IF SndBuf - w.flight < MaxSend THEN SndBuf - w.flight ELSE MaxSend
      BY DEF room, Room
    <3> DEFINE f == w.flight
    <3>2. f \in Nat /\ f <= SndBuf /\ ~(SndBuf - f < MinSend)
          /\ room = IF SndBuf - f < MaxSend THEN SndBuf - f ELSE MaxSend
      BY <1>2, <1>7, <3>1
    <3> HIDE DEF f
    <3>3. room \in Nat \ {0} /\ f + room <= SndBuf  BY <3>2, Constants
    <3> QED  BY <3>3 DEF f
  <2>2. Fills(s, x, c, room)
    <3>1. Fills(s, Filled(s, c, room), c, room)  BY <1>7, <2>1, FilledGood
    <3>2. Fills(s, Plain(s, c, room), c, room)  BY <2>1, PlainGood
    <3> QED  BY <3>1, <3>2 DEF x
  <2> DEFINE a == x.s
             o == x.out
  <2>3. Good(a) /\ Reads(s, a, c) /\ o \in Seq(Outs) /\ Len(o) <= room  BY <2>2 DEF Fills
  <2>4. t = SendBody(a, c, o, room)  BY <1>7 DEF b
  <2> HIDE DEF a, o
  <2>5. Talks(s, a, c) /\ a.web[c].page = w.page /\ a.web[c].flight = w.flight
        /\ a.fs.locked = s.fs.locked
    BY <2>3, ReadsTalks
  <2>6. a.web[c].flight + Len(o) <= SndBuf
    <3>1. Len(o) \in Nat  BY <2>3, LenProperties
    <3> QED  BY <1>2, <2>1, <2>3, <2>5, <3>1, Constants
  <2>7. Good(t) /\ Talks(a, t, c) /\ t.fs = a.fs /\ t.web[c].page = a.web[c].page
    BY <2>3, <2>4, <2>6, SendBodyGood
  <2> QED  BY <2>5, <2>7, TalksOn
<1> QED  BY <1>1, <1>3, <1>4, <1>5, <1>6, <1>7
(***************************************************************************)
(* The end of a connection                                                 *)
(***************************************************************************)
\* A connection that is not used
LEMMA NewFit == Fit(NewWeb) /\ NewWeb.files = <<>>
<1> DEFINE q == NewWeb.req
           k == NewWeb.cb
<1>1. k \in Cb  BY DEF NewWeb, Cb, Names
<1>2. <<>> \in Seq(Handles) /\ <<>> \in Seq(Outs) /\ Len(<<>>) = 0  BY OneOut
<1>3. NewWeb.flags \in SUBSET Flags /\ NewWeb.flags = {}  BY DEF NewWeb
<1>4. /\ NewWeb.st = "free" /\ NewWeb.files = <<>> /\ NewWeb.got = 0 /\ NewWeb.len = 0
      /\ ~NewWeb.rxnull /\ ~NewWeb.txnull /\ ~NewWeb.bye /\ NewWeb.flight = 0
      /\ NewWeb.page = NoPage /\ NewWeb.mode = "none" /\ NewWeb.length = 0
      /\ NewWeb.body = <<>> /\ ~NewWeb.ended /\ ~NewWeb.cut
  BY DEF NewWeb
<1>5. NewWeb \in Web
  <2> DEFINE F == {}
             b == <<>>
  <2>1. NewWeb = [st |-> "free", req |-> q, flags |-> F, files |-> b, got |-> 0, cb |-> k,
                  len |-> 0, rxnull |-> FALSE, txnull |-> FALSE, bye |-> FALSE, flight |-> 0,
                  page |-> NoPage, mode |-> "none", length |-> 0, body |-> b,
                  ended |-> FALSE, cut |-> FALSE]
    BY DEF NewWeb
  <2>2. q \in Request \cup {NewWeb.req} /\ F \in SUBSET Flags /\ NoPage \in Names  BY DEF Names
  <2>3. b \in Seq(Handles) /\ b \in Seq(Outs)  BY <1>2
  <2> HIDE DEF q, k, F, b
  <2> QED  BY <1>1, <2>1, <2>2, <2>3 DEF Web
<1>6. Len(NewWeb.files) = 0  BY <1>2, <1>4
<1> QED  BY <1>3, <1>4, <1>5, <1>6, Constants DEF Fit, Depth

\* webserver_disconnect
LEMMA GoneGood ==
  ASSUME NEW s, Good(s), NEW c \in Conns
  PROVE  LET t == Gone(s, c)
         IN  /\ Good(t) /\ t.web[c] = NewWeb
             /\ \A d \in Conns : d # c => t.web[d] = s.web[d]
<1> DEFINE q == CloseFiles(s, c)
           v == NewWeb
           t == [q EXCEPT !.web[c] = v]
<1>1. Good(q) /\ Reads(s, q, c) /\ q.web[c].files = <<>>  BY CloseFilesGood
<1> HIDE DEF q
<1>2. Fit(v) /\ v.files = q.web[c].files  BY <1>1, NewFit
<1> HIDE DEF v
<1>3. Good(t) /\ t.web[c] = v /\ \A d \in Conns : d # c => t.web[d] = q.web[d]
  BY <1>1, <1>2, PutGood
<1>4. Gone(s, c) = t  BY DEF Gone, q, v
<1> HIDE DEF t
<1>5. \A d \in Conns : d # c => q.web[d] = s.web[d]  BY <1>1 DEF Reads
<1> QED  BY <1>3, <1>4, <1>5 DEF v

\* What ending the connection c leaves of it
Ended(s, u, c) ==
  LET w == s.web[c]
      v == u.web[c]
  IN  /\ \A d \in Conns : d # c => u.web[d] = s.web[d]
      /\ \/ v = NewWeb
         \/ /\ v.st = w.st /\ v.req = w.req /\ v.got = w.got /\ v.page = w.page /\ v.body = w.body
            /\ v.rxnull /\ "CLOSED" \in v.flags

\* s without its callbacks
Muted(s, c) == [s EXCEPT !.web[c].txnull = TRUE, !.web[c].rxnull = TRUE]

\* That keeps the state good.
LEMMA MutedGood ==
  ASSUME NEW s, Good(s), NEW c \in Conns
  PROVE  LET t == Muted(s, c)
             w == s.web[c]
             v == t.web[c]
         IN  /\ Good(t) /\ t.fs = s.fs
             /\ \A d \in Conns : d # c => t.web[d] = s.web[d]
             /\ v.st = w.st /\ v.req = w.req /\ v.got = w.got /\ v.page = w.page
             /\ v.body = w.body /\ v.flags = w.flags /\ v.rxnull
<1> DEFINE w == s.web[c]
           v == [w EXCEPT !.txnull = TRUE, !.rxnull = TRUE]
           t == [s EXCEPT !.web[c] = v]
<1>1. s \in States /\ w \in Web /\ Fit(w)  BY PutIs
<1>2. Muted(s, c) = t  BY <1>1 DEF States, Muted
<1>3. /\ v \in Web /\ v.files = w.files /\ v.cb = w.cb /\ v.flight = w.flight
      /\ v.st = w.st /\ v.req = w.req /\ v.got = w.got /\ v.page = w.page
      /\ v.body = w.body /\ v.flags = w.flags /\ v.rxnull
  BY <1>1 DEF Web
<1> HIDE DEF v
<1>4. Fit(v)  BY <1>1, <1>3 DEF Fit
<1>5. Good(t) /\ t.fs = s.fs /\ t.web[c] = v /\ \A d \in Conns : d # c => t.web[d] = s.web[d]
  BY <1>3, <1>4, PutGood
<1> HIDE DEF t
<1> QED  BY <1>2, <1>3, <1>5

\* web_int_disconnect
LEMMA IntDisconnectGood ==
  ASSUME NEW s, Good(s), NEW c \in Conns, NEW u \in IntDisconnect(s, c)
  PROVE  Good(u) /\ Ended(s, u, c)
<1> DEFINE m == Muted(s, c)
           F == {"CLOSED"}
           t == Set(m, c, F)
<1>1. /\ Good(m) /\ m.fs = s.fs
      /\ \A d \in Conns : d # c => m.web[d] = s.web[d]
      /\ m.web[c].st = s.web[c].st /\ m.web[c].req = s.web[c].req /\ m.web[c].got = s.web[c].got
      /\ m.web[c].page = s.web[c].page /\ m.web[c].body = s.web[c].body /\ m.web[c].rxnull
  BY MutedGood
<1>2. u = t \/ u = Gone(t, c)  BY DEF IntDisconnect, Muted
<1> HIDE DEF m
<1>3. F \in SUBSET Flags /\ ("RETRYCB" \in F => CbOk(m.web[c].cb))  BY DEF Flags
<1> HIDE DEF F
<1>4. Flagged(m, t, c, m.web[c].flags \cup F)  BY <1>1, <1>3, SetGood
<1> HIDE DEF t
<1>5. Good(t) /\ Ended(s, t, c)
  <2> DEFINE w == m.web[c]
             G == w.flags \cup F
             v == t.web[c]
  <2>1. w \in Web  BY <1>1, PutIs
  <2>2. v = [w EXCEPT !.flags = G] /\ Good(t) /\ \A d \in Conns : d # c => t.web[d] = m.web[d]
    BY <1>4 DEF Flagged
  <2>3. "CLOSED" \in G  BY DEF F
  <2> HIDE DEF w, G, v
  <2>4. /\ v.st = w.st /\ v.req = w.req /\ v.got = w.got /\ v.page = w.page /\ v.body = w.body
        /\ v.rxnull = w.rxnull /\ v.flags = G
    BY <2>1, <2>2 DEF Web
  <2> QED  BY <1>1, <2>2, <2>3, <2>4 DEF Ended, w, v
<1>6. LET g == Gone(t, c)
      IN  Good(g) /\ g.web[c] = NewWeb /\ \A d \in Conns : d # c => g.web[d] = t.web[d]
  BY <1>5, GoneGood
<1>7. Ended(s, Gone(t, c), c)  BY <1>5, <1>6 DEF Ended
<1> QED  BY <1>2, <1>5, <1>6, <1>7

\* A protected page is answered to whose credentials agree with the password, unless nothing has been
\* sent and the answer is over.
Sure(w) ==
  w.page \in Protected =>
    Agrees(w.req) \/ (w.body = <<>> /\ ("FCLOSE" \in w.flags \/ "CLOSED" \in w.flags))
Late(w) == w.page \in Protected => Agrees(w.req) \/ (w.body = <<>> /\ "CLOSED" \in w.flags)

\* What the end of a callback leaves of the connection c
Left(s, u, c) ==
  LET w == s.web[c]
      v == u.web[c]
  IN  /\ \A d \in Conns : d # c => u.web[d] = s.web[d]
      /\ \/ v = NewWeb
         \/ v.st = w.st /\ v.req = w.req /\ v.got = w.got /\ v.rxnull /\ Late(v)

\* What webserver_received_data and webserver_sent_callback do in the end
LEMMA AfterSendGood ==
  ASSUME NEW s, Good(s), NEW c \in Conns, s.web[c].rxnull, Sure(s.web[c]),
         NEW u \in AfterSend(s, c)
  PROVE  Good(u) /\ Left(s, u, c)
<1> DEFINE q == CloseFiles(s, c)
           F == {"DISCONNECT"}
           x == Set(q, c, F)
           t == IF Has(s, c, "FCLOSE") THEN x ELSE s
<1>2. Good(q) /\ Reads(s, q, c)  BY CloseFilesGood
<1>3. u \in (IF Has(t, c, "DISCONNECT") THEN IntDisconnect(t, c) ELSE {t})  BY DEF AfterSend
<1> HIDE DEF q
<1>4. Good(x) /\ Reads(q, x, c) /\ "DISCONNECT" \in x.web[c].flags
  <2>1. "DISCONNECT" \in Moving  BY DEF Moving
  <2>2. LET y == Set(q, c, {"DISCONNECT"})
        IN  Good(y) /\ Reads(q, y, c) /\ y.web[c].flags = q.web[c].flags \cup {"DISCONNECT"}
    BY <1>2, <2>1, SetReads
  <2> QED  BY <2>2
<1> HIDE DEF x
<1>5. Reads(s, x, c)  BY <1>2, <1>4, ReadsOn
<1>6. Reads(s, s, c)  BY DEF Reads, Kept
<1>7. Good(t) /\ Reads(s, t, c)  BY <1>4, <1>5, <1>6
<1>8. CASE Has(t, c, "DISCONNECT")
  <2>1. u \in IntDisconnect(t, c)  BY <1>3, <1>8
  <2> HIDE DEF t
  <2>2. Good(u) /\ Ended(t, u, c)  BY <1>7, <2>1, IntDisconnectGood
  <2>3. /\ t.web[c].st = s.web[c].st /\ t.web[c].req = s.web[c].req
        /\ t.web[c].got = s.web[c].got /\ t.web[c].page = s.web[c].page
        /\ t.web[c].body = s.web[c].body
        /\ \A d \in Conns : d # c => t.web[d] = s.web[d]
    BY <1>7 DEF Reads, Kept
  <2> QED  BY <2>2, <2>3 DEF Ended, Left, Late, Sure
<1>9. CASE ~Has(t, c, "DISCONNECT")
  <2>1. u = t  BY <1>3, <1>9
  <2>2. t = s /\ "FCLOSE" \notin s.web[c].flags  BY <1>4, <1>9 DEF Has
  <2> HIDE DEF t
  <2> QED  BY <2>1, <2>2 DEF Left, Late, Sure
<1> QED  BY <1>8, <1>9

(***************************************************************************)
(* The header of the answer                                                *)
(***************************************************************************)
\* What is done without sending anything
Silent(s, t, c) ==
  /\ Talks(s, t, c)
  /\ t.web[c].flight = s.web[c].flight /\ t.web[c].body = s.web[c].body

\* One after the other
LEMMA SilentOn ==
  ASSUME NEW s, NEW t, NEW u, NEW c, Silent(s, t, c), Silent(t, u, c)
  PROVE  Silent(s, u, c)
  BY DEF Silent, Talks

\* Reading sends nothing.
LEMMA ReadsSilent ==
  ASSUME NEW s, NEW t, NEW c, Reads(s, t, c)
  PROVE  Silent(s, t, c) /\ t.web[c].page = s.web[c].page
<1>1. /\ Talks(s, t, c) /\ t.fs.locked = s.fs.locked
      /\ t.web[c].page = s.web[c].page /\ t.web[c].body = s.web[c].body
      /\ t.web[c].flight = s.web[c].flight
  BY ReadsTalks
<1> QED  BY <1>1 DEF Silent

\* Other flags send nothing.
LEMMA FlaggedSilent ==
  ASSUME NEW s, Good(s), NEW c \in Conns, NEW t, NEW F, Flagged(s, t, c, F)
  PROVE  /\ Good(t) /\ Silent(s, t, c) /\ t.web[c].page = s.web[c].page /\ t.fs = s.fs
         /\ t.web[c].flags = F /\ t.web[c].files = s.web[c].files /\ t.web[c].len = s.web[c].len
<1> DEFINE w == s.web[c]
           v == t.web[c]
<1>1. w \in Web  BY PutIs
<1>2. Good(t) /\ t.fs = s.fs /\ v = [w EXCEPT !.flags = F]
           /\ \A d \in Conns : d # c => t.web[d] = s.web[d]
  BY DEF Flagged
<1> HIDE DEF w, v
<1>3. /\ v.st = w.st /\ v.req = w.req /\ v.got = w.got /\ v.rxnull = w.rxnull
      /\ v.flight = w.flight /\ v.body = w.body /\ v.page = w.page /\ v.flags = F
      /\ v.files = w.files /\ v.len = w.len
  BY <1>1, <1>2 DEF Web
<1> QED  BY <1>2, <1>3 DEF Silent, Talks, w, v

\* Set
LEMMA SetSilent ==
  ASSUME NEW s, Good(s), NEW c \in Conns, NEW F \in SUBSET Flags, "RETRYCB" \notin F
  PROVE  LET t == Set(s, c, F)
         IN  /\ Good(t) /\ Silent(s, t, c) /\ t.web[c].page = s.web[c].page /\ t.fs = s.fs
             /\ t.web[c].flags = s.web[c].flags \cup F /\ t.web[c].files = s.web[c].files
             /\ t.web[c].len = s.web[c].len
<1> DEFINE t == Set(s, c, F)
           G == s.web[c].flags \cup F
<1>1. Flagged(s, t, c, G)  BY SetGood
<1> HIDE DEF t, G
<1>2. /\ Good(t) /\ Silent(s, t, c) /\ t.web[c].page = s.web[c].page /\ t.fs = s.fs
      /\ t.web[c].flags = G /\ t.web[c].files = s.web[c].files /\ t.web[c].len = s.web[c].len
  BY <1>1, FlaggedSilent
<1> QED  BY <1>2 DEF t, G

\* Clr
LEMMA ClrSilent ==
  ASSUME NEW s, Good(s), NEW c \in Conns, NEW F
  PROVE  LET t == Clr(s, c, F)
         IN  /\ Good(t) /\ Silent(s, t, c) /\ t.web[c].page = s.web[c].page /\ t.fs = s.fs
             /\ t.web[c].flags = s.web[c].flags \ F /\ t.web[c].files = s.web[c].files
             /\ t.web[c].len = s.web[c].len
<1> DEFINE t == Clr(s, c, F)
           G == s.web[c].flags \ F
<1>1. Flagged(s, t, c, G)  BY ClrGood
<1> HIDE DEF t, G
<1>2. /\ Good(t) /\ Silent(s, t, c) /\ t.web[c].page = s.web[c].page /\ t.fs = s.fs
      /\ t.web[c].flags = G /\ t.web[c].files = s.web[c].files /\ t.web[c].len = s.web[c].len
  BY <1>1, FlaggedSilent
<1> QED  BY <1>2 DEF t, G

\* What the header says of the body
LEMMA AnswersGood ==
  ASSUME NEW s, Good(s), NEW c \in Conns,
         NEW mode \in {"none", "length", "chunked", "close", "cut"}, NEW length \in Nat
  PROVE  LET t == Answers(s, c, mode, length)
         IN  /\ Good(t) /\ Silent(s, t, c) /\ t.web[c].page = s.web[c].page /\ t.fs = s.fs
             /\ t.web[c].flags = s.web[c].flags
<1> DEFINE w == s.web[c]
           v == [w EXCEPT !.mode = mode, !.length = length]
           t == Answers(s, c, mode, length)
<1>1. s \in States /\ w \in Web /\ Fit(w)  BY PutIs
<1>2. Puts(s, t, c, v)  BY <1>1 DEF States, Puts, Answers
<1> HIDE DEF t
<1>3. /\ v \in Web /\ v.files = w.files /\ v.cb = w.cb
      /\ v.st = w.st /\ v.req = w.req /\ v.got = w.got /\ v.rxnull = w.rxnull
      /\ v.flags = w.flags /\ v.flight = w.flight /\ v.page = w.page /\ v.body = w.body
  BY <1>1 DEF Web
<1> HIDE DEF v
<1>4. Speaks(w, v) /\ v.flight <= SndBuf  BY <1>1, <1>3 DEF Speaks, Fit
<1>5. Good(t) /\ Talks(s, t, c) /\ t.web[c] = v /\ t.fs = s.fs  BY <1>2, <1>4, SpeaksGood
<1> QED  BY <1>3, <1>5 DEF t, Silent

\* A file is answered with.
LEMMA PageGood ==
  ASSUME NEW s, Good(s), NEW c \in Conns, NEW p \in Names
  PROVE  LET t == [s EXCEPT !.web[c].page = p]
         IN  /\ Good(t) /\ Silent(s, t, c) /\ t.web[c].page = p /\ t.fs = s.fs
             /\ t.web[c].flags = s.web[c].flags /\ t.web[c].files = s.web[c].files
<1> DEFINE w == s.web[c]
           v == [w EXCEPT !.page = p]
           t == [s EXCEPT !.web[c].page = p]
<1>1. s \in States /\ w \in Web /\ Fit(w)  BY PutIs
<1>2. Puts(s, t, c, v)  BY <1>1 DEF States, Puts
<1> HIDE DEF t
<1>3. /\ v \in Web /\ v.files = w.files /\ v.cb = w.cb
      /\ v.st = w.st /\ v.req = w.req /\ v.got = w.got /\ v.rxnull = w.rxnull
      /\ v.flags = w.flags /\ v.flight = w.flight /\ v.page = p /\ v.body = w.body
  BY <1>1 DEF Web
<1> HIDE DEF v
<1>4. Speaks(w, v) /\ v.flight <= SndBuf  BY <1>1, <1>3 DEF Speaks, Fit
<1>5. Good(t) /\ Talks(s, t, c) /\ t.web[c] = v /\ t.fs = s.fs  BY <1>2, <1>4, SpeaksGood
<1> QED  BY <1>3, <1>5 DEF t, Silent

\* The page for an error
LEMMA ErrorPageGood ==
  ASSUME NEW s, Good(s), NEW c \in Conns, NEW n \in Errors
  PROVE  LET t == ErrorPage(s, c, n)
         IN  Good(t) /\ Silent(s, t, c) /\ t.web[c].page \notin Protected
<1> DEFINE F == {"FCALBACK", "CHUNKED", "RXDATA", "FCLOSE"}
           x == IncFclose(s, c)
           y == Clr(x, c, F)
           p == ErrorName(n)
           z == IncFopen(y, c, p)
           t == ErrorPage(s, c, n)
<1>1. Good(x) /\ Reads(s, x, c)  BY IncFcloseGood
<1>2. t = (IF MayInclude(y, c, p) THEN [z EXCEPT !.web[c].page = p]
           ELSE [y EXCEPT !.web[c].page = NoPage])
  BY DEF ErrorPage
<1> HIDE DEF x, t
<1>3. Good(y) /\ Silent(x, y, c)  BY <1>1, ClrSilent
<1> HIDE DEF y
<1>4. Silent(s, x, c)  BY <1>1, ReadsSilent
<1>5. Silent(s, y, c)  BY <1>3, <1>4, SilentOn
<1>6. p \notin Protected /\ NoPage \notin Protected  BY WebAssumption
<1> HIDE DEF p
<1>7. CASE MayInclude(y, c, p)
  <2>1. Good(z) /\ Reads(y, z, c)  BY <1>3, <1>7, IncFopenGood
  <2>2. t = [z EXCEPT !.web[c].page = p]  BY <1>2, <1>7
  <2>3. p \in Names  BY <1>7 DEF MayInclude, CanOpen, Names
  <2> HIDE DEF z
  <2>4. Silent(y, z, c)  BY <2>1, ReadsSilent
  <2>5. LET u == [z EXCEPT !.web[c].page = p]
        IN  Good(u) /\ Silent(z, u, c) /\ u.web[c].page = p
    BY <2>1, <2>3, PageGood
  <2>6. Good(t) /\ Silent(z, t, c) /\ t.web[c].page = p  BY <2>2, <2>5
  <2>7. Silent(y, t, c)  BY <2>4, <2>6, SilentOn
  <2> QED  BY <1>5, <1>6, <2>6, <2>7, SilentOn DEF t
<1>8. CASE ~MayInclude(y, c, p)
  <2> DEFINE o == NoPage
  <2>1. t = [y EXCEPT !.web[c].page = o]  BY <1>2, <1>8
  <2>2. o \in Names /\ o \notin Protected  BY <1>6 DEF Names
  <2> HIDE DEF o
  <2>3. LET u == [y EXCEPT !.web[c].page = o]
        IN  Good(u) /\ Silent(y, u, c) /\ u.web[c].page = o
    BY <1>3, <2>2, PageGood
  <2>4. Good(t) /\ Silent(y, t, c) /\ t.web[c].page = o  BY <2>1, <2>3
  <2> QED  BY <1>5, <2>2, <2>4, SilentOn DEF t
<1> QED  BY <1>7, <1>8

\* t comes of s with one read sent, at most.
Announced(s, t, c) ==
  /\ Good(t) /\ Talks(s, t, c) /\ t.web[c].page = s.web[c].page
  /\ t.web[c].flight <= s.web[c].flight + 1

\* Nothing sent is no more than one read.
LEMMA SilentAnnounced ==
  ASSUME NEW s, Good(s), NEW t, Good(t), NEW c \in Conns, Silent(s, t, c),
         t.web[c].page = s.web[c].page
  PROVE  Announced(s, t, c)
<1>1. s.web[c].flight \in Nat  BY PutIs, WebIs
<1> QED  BY <1>1 DEF Announced, Silent

\* What the header says of the body
LEMMA AnnounceGood ==
  ASSUME NEW s, Good(s), NEW c \in Conns, NEW status, s.web[c].flight + 1 <= SndBuf
  PROVE  Announced(s, Announce(s, c, status), c)
<1> DEFINE w == s.web[c]
           t == Announce(s, c, status)
           D == {"DISCONNECT"}
           o == <<Fixed>>
           y == Send(s, c, o)
           l == w.len
           a == Answers(y, c, "length", 1)
           cut == Answers(s, c, "cut", 0)
           none == Answers(s, c, "length", 0)
           chunks == Answers(s, c, "chunked", 0)
           close == Answers(s, c, "close", 0)
           len == Answers(s, c, "length", l)
           C == {"CHUNKED"}
           sentOwn == Set(a, c, D)
           sentCut == Set(cut, c, D)
           sentNone == Quit(none, c)
           sentChunks == Set(chunks, c, C)
<1>1. \/ t = sentOwn \/ t = sentCut \/ t = sentNone \/ t = sentChunks \/ t = close \/ t = len
  BY DEF Announce
<1>2. w.len \in Nat /\ w.flight \in Nat  BY PutIs, WebIs
<1>3. D \in SUBSET Flags /\ C \in SUBSET Flags /\ "RETRYCB" \notin D /\ "RETRYCB" \notin C
  BY DEF Flags
<1> HIDE DEF t, D, C
<1>4. Announced(s, sentOwn, c)
  <2>1. o \in Seq(Outs) /\ Len(o) = 1  BY OneOut
  <2> HIDE DEF o
  <2>2. w.flight + Len(o) <= SndBuf  BY <2>1
  <2>3. Good(y) /\ Talks(s, y, c) /\ y.web[c].page = w.page /\ y.web[c].flight = w.flight + Len(o)
    BY <2>1, <2>2, SendGood
  <2> HIDE DEF y
  <2>4. Good(a) /\ Silent(y, a, c) /\ a.web[c].page = y.web[c].page  BY <2>3, AnswersGood
  <2> HIDE DEF a
  <2>5. Good(sentOwn) /\ Silent(a, sentOwn, c) /\ sentOwn.web[c].page = a.web[c].page
    BY <1>3, <2>4, SetSilent
  <2> HIDE DEF sentOwn
  <2>6. Silent(y, sentOwn, c)  BY <2>4, <2>5, SilentOn
  <2>7. Talks(y, sentOwn, c) /\ sentOwn.web[c].flight = y.web[c].flight  BY <2>6 DEF Silent
  <2>8. Talks(s, sentOwn, c)  BY <2>3, <2>7, TalksOn
  <2> QED  BY <1>2, <2>1, <2>3, <2>4, <2>5, <2>7, <2>8 DEF Announced
<1>5. Announced(s, sentCut, c)
  <2>1. Good(cut) /\ Silent(s, cut, c) /\ cut.web[c].page = w.page  BY AnswersGood
  <2> HIDE DEF cut
  <2>2. Good(sentCut) /\ Silent(cut, sentCut, c) /\ sentCut.web[c].page = cut.web[c].page
    BY <1>3, <2>1, SetSilent
  <2> HIDE DEF sentCut
  <2>3. Silent(s, sentCut, c)  BY <2>1, <2>2, SilentOn
  <2> QED  BY <2>1, <2>2, <2>3, SilentAnnounced
<1>6. Announced(s, sentNone, c)
  <2>1. Good(none) /\ Silent(s, none, c) /\ none.web[c].page = w.page  BY AnswersGood
  <2> HIDE DEF none
  <2>2. Good(sentNone) /\ Reads(none, sentNone, c)  BY <2>1, QuitReads
  <2> HIDE DEF sentNone
  <2>3. Silent(none, sentNone, c) /\ sentNone.web[c].page = none.web[c].page  BY <2>2, ReadsSilent
  <2>4. Silent(s, sentNone, c)  BY <2>1, <2>3, SilentOn
  <2> QED  BY <2>1, <2>2, <2>3, <2>4, SilentAnnounced
<1>7. Announced(s, sentChunks, c)
  <2>1. Good(chunks) /\ Silent(s, chunks, c) /\ chunks.web[c].page = w.page  BY AnswersGood
  <2> HIDE DEF chunks
  <2>2. Good(sentChunks) /\ Silent(chunks, sentChunks, c)
           /\ sentChunks.web[c].page = chunks.web[c].page
    BY <1>3, <2>1, SetSilent
  <2> HIDE DEF sentChunks
  <2>3. Silent(s, sentChunks, c)  BY <2>1, <2>2, SilentOn
  <2> QED  BY <2>1, <2>2, <2>3, SilentAnnounced
<1>8. Announced(s, close, c)
  <2>1. Good(close) /\ Silent(s, close, c) /\ close.web[c].page = w.page  BY AnswersGood
  <2> HIDE DEF close
  <2> QED  BY <2>1, SilentAnnounced
<1>9. Announced(s, len, c)
  <2>1. l \in Nat  BY <1>2
  <2> HIDE DEF l
  <2>2. Good(len) /\ Silent(s, len, c) /\ len.web[c].page = w.page  BY <2>1, AnswersGood
  <2> HIDE DEF len
  <2> QED  BY <2>2, SilentAnnounced
<1> QED  BY <1>1, <1>4, <1>5, <1>6, <1>7, <1>8, <1>9 DEF t

\* tcp_close waits for the peer from now on, and nothing was opened.
Bye(s, c) == [s EXCEPT !.web[c].bye = TRUE, !.web[c].page = NoPage]

\* That keeps the state good.
LEMMA ByeGood ==
  ASSUME NEW s, Good(s), NEW c \in Conns
  PROVE  LET t == Bye(s, c)
         IN  Good(t) /\ Silent(s, t, c) /\ t.web[c].page = NoPage
<1> DEFINE w == s.web[c]
           v == [w EXCEPT !.bye = TRUE, !.page = NoPage]
           t == Bye(s, c)
<1>1. s \in States /\ w \in Web /\ Fit(w)  BY PutIs
<1>2. Puts(s, t, c, v)  BY <1>1 DEF States, Puts, Bye
<1> HIDE DEF t
<1>3. /\ v \in Web /\ v.files = w.files /\ v.cb = w.cb
      /\ v.st = w.st /\ v.req = w.req /\ v.got = w.got /\ v.rxnull = w.rxnull
      /\ v.flags = w.flags /\ v.flight = w.flight /\ v.page = NoPage /\ v.body = w.body
  BY <1>1 DEF Web, Names
<1> HIDE DEF v
<1>4. Speaks(w, v) /\ v.flight <= SndBuf  BY <1>1, <1>3 DEF Speaks, Fit
<1>5. Good(t) /\ Talks(s, t, c) /\ t.web[c] = v /\ t.fs = s.fs  BY <1>2, <1>4, SpeaksGood
<1> QED  BY <1>3, <1>5 DEF t, Silent

\* A piece of the send buffer is taken.
LEMMA FlightGood ==
  ASSUME NEW s, Good(s), NEW c \in Conns, s.web[c].flight + 1 <= SndBuf
  PROVE  LET t == [s EXCEPT !.web[c].flight = @ + 1]
         IN  Good(t) /\ Talks(s, t, c) /\ t.web[c].page = s.web[c].page
<1> DEFINE w == s.web[c]
           n == w.flight + 1
           v == [w EXCEPT !.flight = n]
           t == [s EXCEPT !.web[c].flight = @ + 1]
<1>1. s \in States /\ w \in Web /\ Fit(w)  BY PutIs
<1>2. n \in Nat /\ n <= SndBuf  BY <1>1, WebIs
<1>3. Puts(s, t, c, v)  BY <1>1 DEF States, Web, Puts
<1> HIDE DEF t, n
<1>4. /\ v \in Web /\ v.files = w.files /\ v.cb = w.cb
      /\ v.st = w.st /\ v.req = w.req /\ v.got = w.got /\ v.rxnull = w.rxnull
      /\ v.flags = w.flags /\ v.flight = n /\ v.page = w.page
  BY <1>1, <1>2 DEF Web
<1> HIDE DEF v
<1>5. Speaks(w, v) /\ v.flight <= SndBuf  BY <1>2, <1>4 DEF Speaks
<1>6. Good(t) /\ Talks(s, t, c) /\ t.web[c] = v /\ t.fs = s.fs  BY <1>3, <1>5, SpeaksGood
<1> QED  BY <1>4, <1>6 DEF t

\* A redirection
LEMMA RedirGood ==
  ASSUME NEW s, Good(s), NEW c \in Conns, NEW D \in SUBSET Flags, "RETRYCB" \notin D
  PROVE  LET t == Set(Answers(Bye(s, c), c, "none", 0), c, D)
         IN  Good(t) /\ Silent(s, t, c) /\ t.web[c].page = NoPage
<1> DEFINE b == Bye(s, c)
           a == Answers(b, c, "none", 0)
           t == Set(a, c, D)
<1>1. Good(b) /\ Silent(s, b, c) /\ b.web[c].page = NoPage  BY ByeGood
<1> HIDE DEF b
<1>2. Good(a) /\ Silent(b, a, c) /\ a.web[c].page = b.web[c].page
  <2>1. \A m \in {"none", "length", "chunked", "close", "cut"}, n \in Nat :
          LET u == Answers(b, c, m, n)
          IN  Good(u) /\ Silent(b, u, c) /\ u.web[c].page = b.web[c].page
    BY <1>1, AnswersGood
  <2>2. "none" \in {"none", "length", "chunked", "close", "cut"} /\ 0 \in Nat  OBVIOUS
  <2> QED  BY <2>1, <2>2
<1> HIDE DEF a
<1>3. Good(t) /\ Silent(a, t, c) /\ t.web[c].page = a.web[c].page  BY <1>2, SetSilent
<1> HIDE DEF t
<1>4. Silent(s, t, c)  BY <1>1, <1>2, <1>3, SilentOn
<1> QED  BY <1>1, <1>2, <1>3, <1>4 DEF t, a, b

\* A protected page is answered to whose credentials agree with the password.
Open(w) == w.page \in Protected => Agrees(w.req)

\* web_print_headers
LEMMA PrintHeadersGood ==
  ASSUME NEW s, Good(s), NEW c \in Conns, s.web[c].flight = 0, s.web[c].body = <<>>,
         NEW status \in Errors \cup {200},
         "REDIR" \notin s.web[c].flags /\ status = 200 => Open(s.web[c]),
         NEW t \in PrintHeaders(s, c, status)
  PROVE  Good(t) /\ Talks(s, t, c) /\ Sure(t.web[c])
<1> DEFINE w == s.web[c]
           D == {"DISCONNECT"}
           C == {"CLOSED"}
           b == Bye(s, c)
           a == Answers(b, c, "none", 0)
           redir == Set(a, c, D)
           plain == Announce(s, c, 200)
           e == ErrorPage(s, c, status)
           other == Announce(e, c, status)
           h == CASE Has(s, c, "REDIR") -> redir
                  [] ~Has(s, c, "REDIR") /\ status = 200 -> plain
                  [] ~Has(s, c, "REDIR") /\ status # 200 -> other
           sent == [h EXCEPT !.web[c].flight = @ + 1]
           shut == Set(sent, c, C)
<1>1. t = GivenUp(s, c) \/ t = sent \/ t = shut  BY Zenon DEF PrintHeaders, GivenUp, Bye
<1>2. D \in SUBSET Flags /\ C \in SUBSET Flags /\ "RETRYCB" \notin D /\ "RETRYCB" \notin C
  BY DEF Flags
<1> HIDE DEF D, C
<1>3. 2 <= SndBuf /\ SndBuf \in Nat /\ NoPage \notin Protected  BY Constants, WebAssumption
<1> DEFINE Fine(x) == Good(x) /\ Talks(s, x, c) /\ x.web[c].flight <= 1 /\ Open(x.web[c])
<1>4. Fine(redir)
  <2>1. Good(redir) /\ Silent(s, redir, c) /\ redir.web[c].page = NoPage  BY <1>2, RedirGood
  <2> HIDE DEF redir
  <2> QED  BY <1>3, <2>1 DEF Silent, Open
<1>5. ~Has(s, c, "REDIR") /\ status = 200 => Fine(h)
  <2> SUFFICES ASSUME ~Has(s, c, "REDIR"), status = 200  PROVE Fine(h)  OBVIOUS
  <2>1. Announced(s, plain, c)  BY <1>3, AnnounceGood
  <2> HIDE DEF plain
  <2>2. Open(w)  BY DEF Has
  <2>3. Fine(plain)  BY <2>1, <2>2 DEF Announced, Talks, Open
  <2>4. h = plain  OBVIOUS
  <2> HIDE DEF h
  <2> QED  BY <2>3, <2>4
<1>6. ~Has(s, c, "REDIR") /\ status # 200 => Fine(h)
  <2> SUFFICES ASSUME ~Has(s, c, "REDIR"), status # 200  PROVE Fine(h)  OBVIOUS
  <2>1. status \in Errors  OBVIOUS
  <2>2. Good(e) /\ Silent(s, e, c) /\ e.web[c].page \notin Protected  BY <2>1, ErrorPageGood
  <2> HIDE DEF e
  <2>3. e.web[c].flight + 1 <= SndBuf /\ e.web[c].flight = 0  BY <1>3, <2>2 DEF Silent
  <2>4. Announced(e, other, c)  BY <2>2, <2>3, AnnounceGood
  <2> HIDE DEF other
  <2>5. Talks(s, other, c)  BY <2>2, <2>4, TalksOn DEF Silent, Announced
  <2>6. Fine(other)  BY <2>2, <2>3, <2>4, <2>5 DEF Announced, Open
  <2>7. h = other  OBVIOUS
  <2> HIDE DEF h
  <2> QED  BY <2>6, <2>7
<1> HIDE DEF redir, plain, other, e
<1>7. Fine(h)
  <2>1. h = redir \/ (h = plain /\ ~Has(s, c, "REDIR") /\ status = 200)
        \/ (h = other /\ ~Has(s, c, "REDIR") /\ status # 200)
    OBVIOUS
  <2> HIDE DEF Fine, h
  <2>4. ~Has(s, c, "REDIR") /\ status = 200 => Fine(h)  BY <1>5
  <2>5. ~Has(s, c, "REDIR") /\ status # 200 => Fine(h)  BY <1>6
  <2> QED  BY <1>4, <2>1, <2>4, <2>5
<1> HIDE DEF h
<1>8. h.web[c].flight + 1 <= SndBuf
  <2>1. Good(h) /\ h.web[c].flight <= 1  BY <1>7
  <2>2. h.web[c].flight \in Nat  BY <2>1, PutIs, WebIs
  <2> QED  BY <1>3, <2>1, <2>2
<1>9. Good(sent) /\ Talks(s, sent, c) /\ Open(sent.web[c])
  <2>1. Good(sent) /\ Talks(h, sent, c) /\ sent.web[c].page = h.web[c].page
         BY <1>7, <1>8, FlightGood
  <2> HIDE DEF sent
  <2>2. Talks(s, sent, c)  BY <1>7, <2>1, TalksOn
  <2>3. Open(sent.web[c])  BY <1>7, <2>1 DEF Talks, Open
  <2> QED  BY <2>1, <2>2, <2>3
<1> HIDE DEF sent
<1>10. Good(shut) /\ Talks(s, shut, c) /\ Open(shut.web[c])
  <2>1. Good(shut) /\ Silent(sent, shut, c) /\ shut.web[c].page = sent.web[c].page
    BY <1>2, <1>9, SetSilent
  <2> HIDE DEF shut
  <2>2. Talks(s, shut, c)  BY <1>9, <2>1, TalksOn DEF Silent
  <2>3. Open(shut.web[c])  BY <1>9, <2>1 DEF Silent, Talks, Open
  <2> QED  BY <2>1, <2>2, <2>3
<1> HIDE DEF shut
<1>11. CASE t = GivenUp(s, c)
  <2>1. /\ Good(t) /\ Talks(s, t, c) /\ t.web[c].page = w.page /\ t.web[c].body = w.body
        /\ {"FCLOSE", "DISCONNECT"} \subseteq t.web[c].flags
    BY <1>11, GivenUpGood
  <2> QED  BY <2>1 DEF Sure
<1> QED  BY <1>1, <1>9, <1>10, <1>11 DEF Open, Sure

\* s when the request is not listened to any more
Unheard(s, c) == [s EXCEPT !.web[c].rxnull = TRUE]

\* What Answer does after the header: the page that may be sent, or nothing
After(t, c, u) ==
  LET goes == ~HasAny(t, c, {"CLOSED", "DISCONNECT", "FCLOSE"}) /\ Has(t, c, "FOPEN")
  IN  \E z \in (IF goes THEN SendFdata(t, c) ELSE {t}) : u \in AfterSend(z, c)

\* Answer, in these terms
LEMMA AnswerIs ==
  ASSUME NEW s, NEW c, NEW status, NEW u \in Answer(s, c, status)
  PROVE  \E t \in PrintHeaders(Unheard(s, c), c, status) : After(t, c, u)
<1> DEFINE P == PrintHeaders(Unheard(s, c), c, status)
           Z(t) == IF ~HasAny(t, c, {"CLOSED", "DISCONNECT", "FCLOSE"}) /\ Has(t, c, "FOPEN")
                   THEN SendFdata(t, c) ELSE {t}
           A(t) == UNION {AfterSend(z, c) : z \in Z(t)}
<1>1. Answer(s, c, status) = UNION {A(t) : t \in P}  BY DEF Answer, Unheard
<1>2. \A t : u \in A(t) => After(t, c, u)
  <2> TAKE t
  <2>1. After(t, c, u) <=> \E z \in Z(t) : u \in AfterSend(z, c)  BY DEF After
  <2> HIDE DEF Z
  <2> QED  BY <2>1
<1> HIDE DEF A, P
<1> QED  BY <1>1, <1>2 DEF P

\* Unheard keeps the state good.
LEMMA UnheardGood ==
  ASSUME NEW s, Good(s), NEW c \in Conns
  PROVE  LET q == Unheard(s, c)
             w == s.web[c]
             v == q.web[c]
         IN  /\ Good(q) /\ v.flight = w.flight /\ v.body = w.body /\ v.rxnull
             /\ v.st = w.st /\ v.req = w.req /\ v.got = w.got
             /\ v.flags = w.flags /\ v.page = w.page
             /\ \A d \in Conns : d # c => q.web[d] = s.web[d]
<1> DEFINE w == s.web[c]
           v == [w EXCEPT !.rxnull = TRUE]
           t == [s EXCEPT !.web[c] = v]
<1>1. s \in States /\ w \in Web /\ Fit(w)  BY PutIs
<1>2. Unheard(s, c) = t  BY <1>1 DEF States, Unheard
<1>3. /\ v \in Web /\ v.files = w.files /\ v.cb = w.cb /\ v.flight = w.flight
      /\ v.st = w.st /\ v.req = w.req /\ v.got = w.got /\ v.page = w.page
      /\ v.body = w.body /\ v.flags = w.flags /\ v.rxnull
  BY <1>1 DEF Web
<1> HIDE DEF v
<1>4. Fit(v)  BY <1>1, <1>3 DEF Fit
<1>5. Good(t) /\ t.fs = s.fs /\ t.web[c] = v /\ \A d \in Conns : d # c => t.web[d] = s.web[d]
  BY <1>3, <1>4, PutGood
<1> HIDE DEF t
<1> QED  BY <1>2, <1>3, <1>5

\* webserver_received_data, when the request is answered
LEMMA AnswerGood ==
  ASSUME NEW s, Good(s), NEW c \in Conns, s.web[c].flight = 0, s.web[c].body = <<>>,
         NEW status \in Errors \cup {200},
         "REDIR" \notin s.web[c].flags /\ status = 200 => Open(s.web[c]),
         NEW u \in Answer(s, c, status)
  PROVE  Good(u) /\ Left(s, u, c)
<1> DEFINE w == s.web[c]
           q == Unheard(s, c)
<1>1. /\ Good(q) /\ q.web[c].flight = 0 /\ q.web[c].body = <<>> /\ q.web[c].rxnull
      /\ q.web[c].st = w.st /\ q.web[c].req = w.req /\ q.web[c].got = w.got
      /\ q.web[c].flags = w.flags /\ q.web[c].page = w.page
      /\ \A d \in Conns : d # c => q.web[d] = s.web[d]  BY UnheardGood
<1>2. PICK t \in PrintHeaders(q, c, status) : After(t, c, u)  BY AnswerIs
<1> HIDE DEF q
<1>3. "REDIR" \notin q.web[c].flags /\ status = 200 => Open(q.web[c])  BY <1>1 DEF Open
<1>4. Good(t) /\ Talks(q, t, c) /\ Sure(t.web[c])  BY <1>1, <1>3, PrintHeadersGood
<1> DEFINE goes == ~HasAny(t, c, {"CLOSED", "DISCONNECT", "FCLOSE"}) /\ Has(t, c, "FOPEN")
<1>5. PICK z \in (IF goes THEN SendFdata(t, c) ELSE {t}) : u \in AfterSend(z, c)  BY <1>2 DEF After
<1>6. Good(z) /\ Talks(t, z, c) /\ Sure(z.web[c])
  <2>1. CASE goes
    <3>1. z \in SendFdata(t, c)  BY <1>5, <2>1
    <3>2. Good(z) /\ Talks(t, z, c) /\ z.web[c].page = t.web[c].page  BY <1>4, <3>1, SendFdataGood
    <3>3. Open(t.web[c])  BY <1>4, <2>1 DEF Sure, Open, HasAny
    <3>4. Sure(z.web[c])  BY <3>2, <3>3 DEF Talks, Open, Sure
    <3> QED  BY <3>2, <3>4
  <2>2. CASE ~goes  BY <1>4, <1>5, <2>2 DEF Talks
  <2> QED  BY <2>1, <2>2
<1>7. Talks(q, z, c)  BY <1>4, <1>6, TalksOn
<1>8. z.web[c].rxnull  BY <1>1, <1>7 DEF Talks
<1>9. Good(u) /\ Left(z, u, c)  BY <1>5, <1>6, <1>8, AfterSendGood
<1> QED  BY <1>1, <1>7, <1>9 DEF Left, Talks

(***************************************************************************)
(* The request                                                             *)
(***************************************************************************)
\* A connection whose request is not complete: nothing has been sent, an upload has no file
\* of the file system open, only an upload is waited for after its header, and who asks for
\* a protected page has sent credentials that agree with the password or will be asked for
\* them.
Early(w) ==
  /\ w.flight = 0 /\ w.body = <<>>
  /\ "FOPEN" \notin w.flags => w.files = <<>>
  /\ w.req.kind = "upload" =>
       w.req.page = Upload /\ w.page = NoPage /\ (w.files = <<>> \/ w.files = <<Builtin>>)
  /\ "HEAD_OK" \in w.flags \/ "RXDATA" \in w.flags => w.req.kind = "upload"
  /\ w.page \in Protected => "AUTH" \in w.flags \/ Agrees(w.req)

\* content_len
Measured(s, c, n) == [s EXCEPT !.web[c].len = n]

\* It says nothing of files.
LEMMA MeasuredGood ==
  ASSUME NEW s, Good(s), NEW c \in Conns, NEW n \in Nat
  PROVE  LET t == Measured(s, c, n)
         IN  /\ Good(t) /\ Silent(s, t, c) /\ t.web[c].page = s.web[c].page /\ t.fs = s.fs
             /\ t.web[c].flags = s.web[c].flags /\ t.web[c].files = s.web[c].files
<1> DEFINE w == s.web[c]
           v == [w EXCEPT !.len = n]
           t == Measured(s, c, n)
<1>1. s \in States /\ w \in Web /\ Fit(w)  BY PutIs
<1>2. Puts(s, t, c, v)  BY <1>1 DEF States, Puts, Measured
<1> HIDE DEF t
<1>3. /\ v \in Web /\ v.files = w.files /\ v.cb = w.cb
      /\ v.st = w.st /\ v.req = w.req /\ v.got = w.got /\ v.rxnull = w.rxnull
      /\ v.flags = w.flags /\ v.flight = w.flight /\ v.page = w.page /\ v.body = w.body
  BY <1>1 DEF Web
<1> HIDE DEF v
<1>4. Speaks(w, v) /\ v.flight <= SndBuf  BY <1>1, <1>3 DEF Speaks, Fit
<1>5. Good(t) /\ Talks(s, t, c) /\ t.web[c] = v /\ t.fs = s.fs  BY <1>2, <1>4, SpeaksGood
<1> QED  BY <1>3, <1>5 DEF t, Silent

\* A page that is no file is put in an empty place.
LEMMA BuiltinGood ==
  ASSUME NEW s, Good(s), NEW c \in Conns, s.web[c].files = <<>>
  PROVE  LET t == IncFp(s, c, Builtin)
         IN  /\ Good(t) /\ Silent(s, t, c) /\ t.web[c].page = s.web[c].page
             /\ t.web[c].files = <<Builtin>> /\ t.web[c].flags = s.web[c].flags \cup {"FOPEN"}
<1> DEFINE w == s.web[c]
           h == Builtin
           q == w.files
           p == Pushed(q, h)
           G == w.flags \cup {"FOPEN"}
           t == IncFp(s, c, h)
           v == t.web[c]
<1>1. s \in States /\ w \in Web /\ Fit(w)  BY PutIs
<1>2. q \in Seq(Handles) /\ Len(q) = 0 /\ h \in Handles
  BY <1>1, WebIs, OneOut DEF Handles
<1>3. p = <<h>>
  <2>1. Len(q) # Depth  BY <1>2 DEF Depth
  <2>2. p = <<h>> \o q  BY <2>1 DEF Pushed
  <2> HIDE DEF h, p
  <2>3. <<h>> \o <<>> = <<h>>  OBVIOUS
  <2> QED  BY <2>2, <2>3
<1>4. p \in Seq(Handles) /\ Len(p) = 1 /\ (\A i \in 1 .. Len(p) : p[i] = h)
  <2> HIDE DEF h, p
  <2> QED  BY <1>2, <1>3
<1>5. Grown(s, t, c, h)  BY <1>1, <1>2, <1>4, IncFpIs
<1>6. \A x \in 1 .. MaxOpen : ~Holding(p, x) /\ ~Holding(q, x)
  BY <1>2, <1>4, Constants DEF Holding, Builtin
<1>7. Distinct(p)  BY <1>4 DEF Distinct
<1>8. G \in SUBSET Flags  BY <1>1, WebIs DEF Flags
<1> HIDE DEF h, t
<1>9. /\ t \in States /\ (\A d \in Conns : d # c => t.web[d] = s.web[d])
      /\ v = [w EXCEPT !.files = p, !.flags = G]
      /\ \A g \in 1 .. MaxOpen : t.fs.table[g] = s.fs.table[g]
  <2>1. Len(q) # Depth  BY <1>2 DEF Depth
  <2> HIDE DEF p
  <2> QED  BY <1>1, <1>5, <2>1 DEF Grown, Web, p
<1> HIDE DEF p, G, w, v
<1>10. /\ v.files = p /\ v.flags = G /\ v.cb = w.cb /\ v.flight = w.flight /\ v \in Web
       /\ v.st = w.st /\ v.req = w.req /\ v.got = w.got /\ v.rxnull = w.rxnull
       /\ v.body = w.body /\ v.page = w.page
  BY <1>1, <1>4, <1>8, <1>9 DEF Web
<1>11. Fit(v)
  <2>1. "RETRYCB" \in G => "RETRYCB" \in w.flags  BY DEF G
  <2>2. w.flight <= SndBuf /\ ("RETRYCB" \in w.flags => CbOk(w.cb))  BY <1>1 DEF Fit
  <2>3. Len(v.files) <= Depth
    <3>1. Len(p) = 1 /\ v.files = p  BY <1>4, <1>10
    <3>2. Len(v.files) = 1  BY <3>1
    <3> QED  BY <3>2 DEF Depth
  <2>4. "RETRYCB" \in v.flags => CbOk(v.cb)  BY <1>10, <2>1, <2>2
  <2> QED  BY <1>10, <2>2, <2>3, <2>4 DEF Fit
<1>12. Changes(s, t, c)
  <2>1. \A x \in 1 .. MaxOpen : EntryOk(t.fs.table[x])  BY <1>9 DEF Good
  <2>2. Distinct(v.files) /\ \A x \in 1 .. MaxOpen : ~Holding(v.files, x)  BY <1>6, <1>7, <1>10
  <2> QED  BY <1>6, <1>9, <1>11, <2>1, <2>2 DEF Changes, v, w
<1>13. Good(t)  BY <1>12, ChangesHands
<1> QED  BY <1>3, <1>9, <1>10, <1>13 DEF Silent, Talks, v, w, G, t, h

\* parse_header: does the file ask for the password?
LEMMA ParseFnameGood ==
  ASSUME NEW s, Good(s), NEW c \in Conns
  PROVE  LET t == ParseFname(s, c)
             F == t.web[c].flags
             G == s.web[c].flags
         IN  /\ Good(t) /\ Silent(s, t, c) /\ t.web[c].page = s.web[c].page
             /\ t.web[c].files = s.web[c].files
             /\ G \subseteq F /\ F \subseteq G \cup {"AUTH"}
             /\ s.web[c].req.page \in Protected => "AUTH" \in F
<1> DEFINE A == {"AUTH"}
           x == Set(s, c, A)
           t == ParseFname(s, c)
<1>1. t = IF s.web[c].req.page \in Protected THEN x ELSE s  BY DEF ParseFname
<1>2. A \in SUBSET Flags /\ "RETRYCB" \notin A  BY DEF Flags
<1> HIDE DEF A, t
<1>3. /\ Good(x) /\ Silent(s, x, c) /\ x.web[c].page = s.web[c].page
      /\ x.web[c].flags = s.web[c].flags \cup A /\ x.web[c].files = s.web[c].files
  BY <1>2, SetSilent
<1>4. Silent(s, s, c)  BY DEF Silent, Talks
<1>5. A = {"AUTH"}  BY DEF A
<1> HIDE DEF x
<1>6. CASE t = x /\ s.web[c].req.page \in Protected  BY <1>3, <1>5, <1>6 DEF t
<1>7. CASE t = s /\ s.web[c].req.page \notin Protected  BY <1>4, <1>7 DEF t
<1> QED  BY <1>1, <1>6, <1>7

\* webserver_open_file: the pages that are no files
LEMMA OpenSpecialGood ==
  ASSUME NEW s, Good(s), NEW c \in Conns, s.web[c].files = <<>>, NEW p
  PROVE  LET t == OpenSpecial(s, c, p)
             F == t.web[c].flags
             G == s.web[c].flags
         IN  /\ Good(t) /\ Silent(s, t, c) /\ t.web[c].page = s.web[c].page
             /\ t.web[c].files = <<Builtin>>
             /\ G \cup {"FOPEN"} \subseteq F /\ F \subseteq G \cup {"FOPEN", "AUTH"}
<1> DEFINE A == {"AUTH"}
           b == IncFp(s, c, Builtin)
           n == 1
           x == Measured(b, c, n)
           y == Set(x, c, A)
           t == OpenSpecial(s, c, p)
<1>1. t = y \/ t = x  BY DEF OpenSpecial, Measured
<1>2. A \in SUBSET Flags /\ "RETRYCB" \notin A /\ A = {"AUTH"}  BY DEF Flags
<1> HIDE DEF A, t
<1>3. /\ Good(b) /\ Silent(s, b, c) /\ b.web[c].page = s.web[c].page
      /\ b.web[c].files = <<Builtin>> /\ b.web[c].flags = s.web[c].flags \cup {"FOPEN"}
  BY BuiltinGood
<1>4. n \in Nat  OBVIOUS
<1> HIDE DEF b, n
<1>5. /\ Good(x) /\ Silent(b, x, c) /\ x.web[c].page = b.web[c].page
      /\ x.web[c].flags = b.web[c].flags /\ x.web[c].files = b.web[c].files
  BY <1>3, <1>4, MeasuredGood
<1> HIDE DEF x
<1>6. /\ Good(y) /\ Silent(x, y, c) /\ y.web[c].page = x.web[c].page
      /\ y.web[c].flags = x.web[c].flags \cup A /\ y.web[c].files = x.web[c].files
  BY <1>2, <1>5, SetSilent
<1> HIDE DEF y
<1>7. Silent(s, x, c)  BY <1>3, <1>5, SilentOn
<1>8. Silent(s, y, c)  BY <1>6, <1>7, SilentOn
<1>9. CASE t = x  BY <1>3, <1>5, <1>7, <1>9 DEF t
<1>10. CASE t = y  BY <1>2, <1>3, <1>5, <1>6, <1>8, <1>10 DEF t
<1> QED  BY <1>1, <1>9, <1>10

\* parse_header: the file is opened, and the connection stays what it has to be.
LEMMA OpenedGood ==
  ASSUME NEW s, Good(s), NEW c \in Conns, Early(s.web[c])
  PROVE  LET t == Opened(s, c)
         IN  Good(t) /\ Silent(s, t, c) /\ Early(t.web[c])
<1> DEFINE w == s.web[c]
           t == Opened(s, c)
           f == ParseFname(s, c)
           p == w.req.page
           x == OpenSpecial(f, c, p)
           g == IncFopen(f, c, p)
           y == [g EXCEPT !.web[c].page = p]
<1>1. \/ t = s
      \/ ~Has(s, c, "FOPEN") /\ t = OpenFile(f, c, p)
  BY DEF Opened
<1> HIDE DEF t
<1>2. CASE t = s  BY <1>2 DEF Silent, Talks, t
<1>3. CASE ~Has(s, c, "FOPEN") /\ t = OpenFile(f, c, p)
  <2>1. \/ t = x
        \/ ~Special(f, p) /\ MayInclude(f, c, p) /\ t = y
        \/ t = f
    BY <1>3 DEF OpenFile
  <2>2. /\ Good(f) /\ Silent(s, f, c) /\ f.web[c].page = w.page /\ f.web[c].files = w.files
        /\ w.flags \subseteq f.web[c].flags /\ f.web[c].flags \subseteq w.flags \cup {"AUTH"}
        /\ p \in Protected => "AUTH" \in f.web[c].flags
    BY ParseFnameGood
  <2> HIDE DEF f
  <2>3. w.files = <<>>  BY <1>3 DEF Early, Has
  <2>4. f.web[c].req = w.req /\ f.web[c].flight = 0 /\ f.web[c].body = <<>>
    BY <2>2 DEF Silent, Talks, Early
  <2> DEFINE F == f.web[c].flags
             G == w.flags
             r == w.req
  <2>5. /\ "HEAD_OK" \in G \/ "RXDATA" \in G => r.kind = "upload"
        /\ r.kind = "upload" => p = Upload /\ w.page = NoPage
        /\ w.page \in Protected => "AUTH" \in G \/ Agrees(r)
    BY DEF Early
  <2>6. CASE t = x
    <3>1. LET H == x.web[c].flags
          IN  /\ Good(x) /\ Silent(f, x, c) /\ x.web[c].page = f.web[c].page
              /\ x.web[c].files = <<Builtin>>
              /\ F \cup {"FOPEN"} \subseteq H /\ H \subseteq F \cup {"FOPEN", "AUTH"}
      BY <2>2, <2>3, OpenSpecialGood
    <3> HIDE DEF x
    <3> DEFINE v == x.web[c]
    <3>2. v.req = r /\ v.flight = 0 /\ v.body = <<>>  BY <2>4, <3>1 DEF Silent, Talks
    <3>3. /\ G \cup {"FOPEN"} \subseteq v.flags /\ v.flags \subseteq G \cup {"FOPEN", "AUTH"}
          /\ v.page = w.page /\ v.files = <<Builtin>>
      BY <2>2, <3>1
    <3> HIDE DEF v, G, F, r
    <3>4. Early(v)  BY <2>5, <3>2, <3>3 DEF Early, r
    <3>5. Silent(s, x, c)  BY <2>2, <3>1, SilentOn
    <3> QED  BY <2>6, <3>1, <3>4, <3>5 DEF t, v
  <2>7. CASE ~Special(f, p) /\ MayInclude(f, c, p) /\ t = y
    <3>1. /\ Good(g) /\ Reads(f, g, c) /\ g.web[c].files # <<>>
          /\ g.web[c].flags = F \cup {"FOPEN"} \cup (IF Pages[p].parsed THEN {"FCALBACK"} ELSE {})
      BY <2>2, <2>7, IncFopenGood
    <3>2. p \in Names /\ p # Upload  BY <2>7 DEF Special, MayInclude, CanOpen, Names
    <3> HIDE DEF g
    <3>3. Silent(f, g, c)  BY <3>1, ReadsSilent
    <3>4. /\ Good(y) /\ Silent(g, y, c) /\ y.web[c].page = p
          /\ y.web[c].flags = g.web[c].flags /\ y.web[c].files = g.web[c].files
      <4> HIDE DEF p, F
      <4>1. LET u == [g EXCEPT !.web[c].page = p]
            IN  /\ Good(u) /\ Silent(g, u, c) /\ u.web[c].page = p /\ u.fs = g.fs
                /\ u.web[c].flags = g.web[c].flags /\ u.web[c].files = g.web[c].files
        BY <3>1, <3>2, PageGood
      <4> QED  BY <4>1
    <3> HIDE DEF y
    <3> DEFINE v == y.web[c]
    <3>5. v.req = r /\ v.flight = 0 /\ v.body = <<>>  BY <2>4, <3>3, <3>4 DEF Silent, Talks
    <3>6. /\ F \cup {"FOPEN"} \subseteq v.flags
          /\ v.flags \subseteq G \cup {"FOPEN", "AUTH", "FCALBACK"} /\ v.page = p
      BY <2>2, <3>1, <3>4
    <3> HIDE DEF v, G, F, r
    <3>7. Early(v)
      <4>1. p \in Protected => "AUTH" \in v.flags  BY <2>2, <3>6 DEF F
      <4>2. r.kind # "upload"  BY <2>5, <3>2
      <4> HIDE DEF p
      <4> QED  BY <2>5, <3>5, <3>6, <4>1, <4>2 DEF Early
    <3>8. Silent(s, g, c)  BY <2>2, <3>3, SilentOn
    <3>9. Silent(s, y, c)  BY <3>4, <3>8, SilentOn
    <3> QED  BY <2>7, <3>4, <3>7, <3>9 DEF t, v
  <2>8. CASE t = f
    <3>1. Early(f.web[c])
      <4> DEFINE v == f.web[c]
      <4>1. v.req = r /\ v.flight = 0 /\ v.body = <<>> /\ v.page = w.page /\ v.files = <<>>
            /\ G \subseteq v.flags /\ v.flags \subseteq G \cup {"AUTH"}
        BY <2>2, <2>3, <2>4
      <4> HIDE DEF v, G, r, F
      <4>2. Early(v)  BY <2>5, <4>1 DEF Early, r
      <4> QED  BY <4>2 DEF v
    <3> QED  BY <2>2, <2>8, <3>1 DEF t
  <2> QED  BY <2>1, <2>6, <2>7, <2>8, Zenon
<1> QED  BY <1>1, <1>2, <1>3

\* The request of a connection that is not used
LEMMA NewIs ==
  NewWeb.req.kind = "get" /\ NewWeb.req.head = 1 /\ NewWeb.req.more = 0
<1>1. NewWeb.req.kind = "get"  BY Zenon DEF NewWeb
<1>2. NewWeb.req.head = 1  BY Zenon DEF NewWeb
<1>3. NewWeb.req.more = 0  BY Zenon DEF NewWeb
<1> QED  BY <1>1, <1>2, <1>3

\* The numbers of a request
LEMMA RequestIs ==
  ASSUME NEW s, Good(s), NEW c \in Conns
  PROVE  LET r == s.web[c].req
         IN  r.head \in Nat /\ r.more \in Nat /\ Whole(r) \in Nat /\ s.web[c].got \in Nat
<1> DEFINE r == s.web[c].req
<1>1. r \in Request \cup {NewWeb.req} /\ s.web[c].got \in Nat  BY PutIs, WebIs
<1> HIDE DEF r
<1>2. r.head \in Nat /\ r.more \in Nat
  <2>1. CASE r \in Request  BY <2>1 DEF Request
  <2>2. CASE r = NewWeb.req  BY <2>2, NewIs
  <2> QED  BY <1>1, <2>1, <2>2
<1> QED  BY <1>1, <1>2 DEF Whole, r

\* parse_header: the length of a content
LEMMA ContentGood ==
  ASSUME NEW s, Good(s), NEW c \in Conns, Early(s.web[c])
  PROVE  LET t == Content(s, c)
         IN  Good(t) /\ Silent(s, t, c) /\ Early(t.web[c]) /\ t.web[c].page = s.web[c].page
<1> DEFINE w == s.web[c]
           n == w.req.more
           R == {"RXDATA"}
           x == Measured(s, c, n)
           y == Set(x, c, R)
           t == Content(s, c)
<1>1. \/ t = s \/ t = x
      \/ t = y /\ w.req.kind = "upload"
  <2>1. w.req.kind \in {"get", "post", "upload"}
    <3>1. w.req \in Request \cup {NewWeb.req}  BY PutIs, WebIs
    <3>2. CASE w.req \in Request  BY <3>2 DEF Request
    <3>3. CASE w.req = NewWeb.req  BY <3>3, NewIs
    <3> QED  BY <3>1, <3>2, <3>3
  <2> QED  BY <2>1 DEF Content, Measured
<1>2. n \in Nat  BY RequestIs
<1>3. R \in SUBSET Flags /\ "RETRYCB" \notin R /\ R = {"RXDATA"}  BY DEF Flags
<1> HIDE DEF t, n, R
<1>4. /\ Good(x) /\ Silent(s, x, c) /\ x.web[c].page = w.page
      /\ x.web[c].flags = w.flags /\ x.web[c].files = w.files
  BY <1>2, MeasuredGood
<1> HIDE DEF x
<1>5. /\ Good(y) /\ Silent(x, y, c) /\ y.web[c].page = x.web[c].page
      /\ y.web[c].flags = x.web[c].flags \cup R /\ y.web[c].files = x.web[c].files
  BY <1>3, <1>4, SetSilent
<1> HIDE DEF y
<1>6. CASE t = s  BY <1>6 DEF Silent, Talks, t
<1>7. CASE t = x
  <2>1. Early(x.web[c])  BY <1>4 DEF Silent, Talks, Early
  <2> QED  BY <1>4, <1>7, <2>1 DEF t
<1>8. CASE t = y /\ w.req.kind = "upload"
  <2>1. Silent(s, y, c)  BY <1>4, <1>5, SilentOn
  <2>2. Early(y.web[c])
    <3> DEFINE v == y.web[c]
    <3>1. /\ v.req = w.req /\ v.flight = 0 /\ v.body = <<>> /\ v.page = w.page
          /\ v.files = w.files /\ v.flags = w.flags \cup {"RXDATA"}
      BY <1>3, <1>4, <1>5, <2>1 DEF Silent, Talks, Early
    <3> HIDE DEF v
    <3>2. Early(v)  BY <1>8, <3>1 DEF Early
    <3> QED  BY <3>2 DEF v
  <2> QED  BY <1>4, <1>5, <1>8, <2>1, <2>2 DEF t
<1> QED  BY <1>1, <1>6, <1>7, <1>8

\* The result p of parsing: who does not wait is answered, and with 200 only who may read
\* the page.
Parses(s, p, c) ==
  /\ Good(p.s) /\ Silent(s, p.s, c) /\ Early(p.s.web[c])
  /\ p.status \in {0, 200} \cup Errors
  /\ p.status = 200 => Open(p.s.web[c])

\* One after the other
LEMMA ParsesOn ==
  ASSUME NEW s, NEW t, NEW p, NEW c, Silent(s, t, c), Parses(t, p, c)
  PROVE  Parses(s, p, c)
<1>1. Silent(s, p.s, c)  BY SilentOn DEF Parses
<1> QED  BY <1>1 DEF Parses

\* parse_header: a request waits, or is an error.
LEMMA StaysParsed ==
  ASSUME NEW s, Good(s), NEW c, Early(s.web[c]), NEW n \in {0} \cup Errors
  PROVE  Parses(s, [s |-> s, status |-> n], c)
<1>1. Silent(s, s, c)  BY DEF Silent, Talks
<1>2. n # 200  BY DEF Errors
<1> QED  BY <1>1, <1>2 DEF Parses

\* parse_header: a request that is not complete
LEMMA MoreToComeGood ==
  ASSUME NEW s, Good(s), NEW c, Early(s.web[c])
  PROVE  Parses(s, MoreToCome(s, c), c)
<1>1. 0 \in {0} \cup Errors /\ 413 \in {0} \cup Errors  BY DEF Errors
<1>2. \/ MoreToCome(s, c) = [s |-> s, status |-> 0]
      \/ MoreToCome(s, c) = [s |-> s, status |-> 413]
  BY DEF MoreToCome, Wait, Status
<1> QED  BY <1>1, <1>2, StaysParsed

\* parse_header, once the header is complete and the file open: its results
LEMMA HeadParsedIs ==
  ASSUME NEW s, Good(s), NEW c \in Conns
  PROVE  LET p == HeadParsed(s, c)
         IN  \/ p = MoreToCome(s, c)
             \/ p = [s |-> s, status |-> 401]
             \/ p = [s |-> Clr(s, c, {"AUTH"}), status |-> 200] /\ Allowed(s, c)
<1> DEFINE w == s.web[c]
           x == Clr(s, c, {"AUTH"})
           p == HeadParsed(s, c)
<1>1. \/ p = MoreToCome(s, c)
      \/ p = [s |-> s, status |-> 401]
      \/ p = [s |-> x, status |-> 200] /\ Allowed(s, c)
  <2>1. w.got \in Nat /\ w.req.head + w.req.more \in Nat  BY RequestIs
  <2> DEFINE g == w.got
             m == w.req.head + w.req.more
             post == w.req.kind = "post"
  <2>2. g < m \/ g >= m  BY <2>1
  <2>3. p = CASE post /\ g < m -> MoreToCome(s, c)
              [] (post => g >= m) /\ ~Allowed(s, c) -> [s |-> s, status |-> 401]
              [] OTHER -> [s |-> x, status |-> 200]
    BY DEF HeadParsed, Status
  <2>4. ~(g < m /\ g >= m)  BY <2>1
  <2> HIDE DEF p, g, m, x
  <2>5. CASE post /\ g < m  BY <2>3, <2>4, <2>5
  <2>6. CASE (post => g >= m) /\ ~Allowed(s, c)
    <3>1. ~(post /\ g < m)  BY <2>4, <2>6
    <3> QED  BY <2>3, <2>6, <3>1
  <2>7. CASE ~(post /\ g < m) /\ ~((post => g >= m) /\ ~Allowed(s, c))
    <3>1. Allowed(s, c)  BY <2>2, <2>7
    <3> QED  BY <2>3, <2>7, <3>1
  <2> QED  BY <2>5, <2>6, <2>7
<1> QED  BY <1>1

\* parse_header, once the header is complete and the file open
LEMMA HeadParsedGood ==
  ASSUME NEW s, Good(s), NEW c \in Conns, Early(s.web[c])
  PROVE  Parses(s, HeadParsed(s, c), c)
<1> DEFINE w == s.web[c]
           A == {"AUTH"}
           x == Clr(s, c, A)
           p == HeadParsed(s, c)
<1>1. \/ p = MoreToCome(s, c)
      \/ p = [s |-> s, status |-> 401]
      \/ p = [s |-> x, status |-> 200] /\ Allowed(s, c)
  BY HeadParsedIs
<1>2. A = {"AUTH"}  OBVIOUS
<1> HIDE DEF A, p
<1>3. /\ Good(x) /\ Silent(s, x, c) /\ x.web[c].page = w.page
      /\ x.web[c].flags = w.flags \ A /\ x.web[c].files = w.files
  BY ClrSilent
<1> HIDE DEF x
<1>4. CASE p = MoreToCome(s, c)  BY <1>4, MoreToComeGood DEF p
<1>5. CASE p = [s |-> s, status |-> 401]
  <2>1. 401 \in {0} \cup Errors  BY DEF Errors
  <2> QED  BY <1>5, <2>1, StaysParsed DEF p
<1>6. CASE p = [s |-> x, status |-> 200] /\ Allowed(s, c)
  <2> DEFINE v == x.web[c]
  <2>1. /\ v.req = w.req /\ v.flight = 0 /\ v.body = <<>> /\ v.page = w.page
        /\ v.files = w.files /\ v.flags = w.flags \ {"AUTH"}
    BY <1>2, <1>3 DEF Silent, Talks, Early
  <2>2. w.page \in Protected => Agrees(w.req)  BY <1>6 DEF Allowed, Has, Early
  <2> HIDE DEF v, w
  <2>3. Early(v) /\ Open(v)  BY <2>1, <2>2 DEF Early, Open, w
  <2>4. p.s = x /\ p.status = 200  BY <1>6
  <2> QED  BY <1>3, <2>3, <2>4 DEF Parses, v, p
<1> QED  BY <1>1, <1>4, <1>5, <1>6

\* parse_header
LEMMA ParsedGood ==
  ASSUME NEW s, Good(s), NEW c \in Conns, Early(s.web[c]), NEW p \in Parsed(s, c)
  PROVE  Parses(s, p, c)
<1> DEFINE t == Opened(s, c)
           x == Content(t, c)
<1>1. \/ p = MoreToCome(s, c)
      \/ p = HeadParsed(x, c)
      \/ p = [s |-> t, status |-> 404]
      \/ \E n \in {400, 501} : p = [s |-> s, status |-> n]
  <2>1. s.web[c].got \in Nat /\ s.web[c].req.head \in Nat  BY RequestIs
  <2>2. s.web[c].got < s.web[c].req.head \/ s.web[c].got >= s.web[c].req.head  BY <2>1
  <2>3. CASE ~s.web[c].req.line  BY <2>3 DEF Parsed, Status
  <2>4. CASE s.web[c].req.line /\ s.web[c].got < s.web[c].req.head
    <3>1. ~(s.web[c].got >= s.web[c].req.head)  BY <2>1, <2>4
    <3> QED  BY <2>4, <3>1 DEF Parsed
  <2>5. CASE s.web[c].req.line /\ s.web[c].got >= s.web[c].req.head
    <3>1. ~(s.web[c].got < s.web[c].req.head)  BY <2>1, <2>5
    <3> QED  BY <2>5, <3>1 DEF Parsed, Status
  <2> QED  BY <2>2, <2>3, <2>4, <2>5
<1>2. Good(t) /\ Silent(s, t, c) /\ Early(t.web[c])  BY OpenedGood
<1> HIDE DEF t
<1>3. Good(x) /\ Silent(t, x, c) /\ Early(x.web[c])  BY <1>2, ContentGood
<1> HIDE DEF x
<1>4. CASE p = MoreToCome(s, c)  BY <1>4, MoreToComeGood
<1>5. CASE p = HeadParsed(x, c)
  <2>1. Parses(x, p, c)  BY <1>3, <1>5, HeadParsedGood
  <2>2. Silent(s, x, c)  BY <1>2, <1>3, SilentOn
  <2> QED  BY <2>1, <2>2, ParsesOn
<1>6. CASE p = [s |-> t, status |-> 404]
  <2>1. 404 \in {0} \cup Errors  BY DEF Errors
  <2>2. Parses(t, p, c)  BY <1>2, <1>6, <2>1, StaysParsed
  <2> QED  BY <1>2, <2>2, ParsesOn
<1>7. ASSUME NEW n \in {400, 501}, p = [s |-> s, status |-> n]
      PROVE  Parses(s, p, c)
  <2>1. n \in {0} \cup Errors  BY DEF Errors
  <2> QED  BY <1>7, <2>1, StaysParsed
<1> QED  BY <1>1, <1>4, <1>5, <1>6, <1>7

\* The result p of receiving a segment: who waits goes on to receive, and who does not is
\* answered.
Heard(s, p, c) ==
  LET v == p.s.web[c]
  IN  /\ Good(p.s) /\ Silent(s, p.s, c)
      /\ p.status = 0 => Early(v)
      /\ p.status # 0 => /\ v.flight = 0 /\ v.body = <<>> /\ p.status \in Errors \cup {200}
                         /\ "REDIR" \notin v.flags /\ p.status = 200 => Open(v)

\* parse_header and what webserver_received_data does with its result
LEMMA HeadReceivedGood ==
  ASSUME NEW s, Good(s), NEW c \in Conns, Early(s.web[c]), NEW q \in HeadReceived(s, c)
  PROVE  Heard(s, q, c)
<1> DEFINE H == {"HEAD_OK"}
           x(p) == Set(p.s, c, H)
<1>1. PICK p \in Parsed(s, c) :
        \/ q = p /\ p.status = 0
        \/ q = [s |-> x(p), status |-> 0] /\ Has(p.s, c, "RXDATA")
        \/ q = [s |-> x(p), status |-> p.status] /\ p.status # 0
  BY DEF HeadReceived, Wait, Status
<1> DEFINE t == x(p)
           w == p.s.web[c]
           v == t.web[c]
           n == p.status
<1>2. /\ Good(p.s) /\ Silent(s, p.s, c) /\ Early(w) /\ n \in {0, 200} \cup Errors
      /\ n = 200 => Open(w)
  BY ParsedGood DEF Parses
<1>3. H \in SUBSET Flags /\ "RETRYCB" \notin H /\ H = {"HEAD_OK"}  BY DEF Flags
<1>4. \/ q = p /\ n = 0
      \/ q = [s |-> t, status |-> 0] /\ "RXDATA" \in w.flags
      \/ q = [s |-> t, status |-> n] /\ n # 0
  BY <1>1 DEF Has
<1> HIDE DEF H
<1>5. /\ Good(t) /\ Silent(p.s, t, c) /\ v.page = w.page
      /\ v.flags = w.flags \cup H /\ v.files = w.files
  BY <1>2, <1>3, SetSilent
<1>6. Silent(s, t, c)
  <2> DEFINE y == p.s
  <2>1. Silent(s, y, c) /\ Silent(y, t, c)  BY <1>2, <1>5
  <2> HIDE DEF y, t
  <2> QED  BY <2>1, SilentOn
<1>7. v.req = w.req /\ v.flight = 0 /\ v.body = <<>>  BY <1>2, <1>5 DEF Silent, Talks, Early
<1> HIDE DEF x, n
<1>8. CASE q = p /\ n = 0
  BY <1>2, <1>8 DEF Heard, n
<1>9. CASE q = [s |-> t, status |-> 0] /\ "RXDATA" \in w.flags
  <2>1. q.s = t /\ q.status = 0  BY <1>9
  <2>2. Early(v)  BY <1>2, <1>3, <1>5, <1>7, <1>9 DEF Early
  <2> HIDE DEF v
  <2> QED  BY <1>5, <1>6, <2>1, <2>2 DEF Heard, v
<1>10. CASE q = [s |-> t, status |-> n] /\ n # 0
  <2>1. q.s = t /\ q.status = n  BY <1>10
  <2>2. n \in Errors \cup {200}  BY <1>2, <1>10
  <2>3. n = 200 => Open(v)  BY <1>2, <1>5, <1>7 DEF Open
  <2> HIDE DEF v
  <2> QED  BY <1>5, <1>6, <1>7, <1>10, <2>1, <2>2, <2>3 DEF Heard, v
<1> QED  BY <1>4, <1>8, <1>9, <1>10

(***************************************************************************)
(* The upload of a disk                                                    *)
(***************************************************************************)
\* Nobody has a file of the file system open.
Clean(s) == \A d \in Conns, h \in 1 .. MaxOpen : ~Holding(s.web[d].files, h)

\* The file system is locked.
Locked(s) == [s EXCEPT !.fs.locked = TRUE]

\* That says nothing of files.
LEMMA LockedGood ==
  ASSUME NEW s, Good(s)
  PROVE  Good(Locked(s)) /\ Locked(s).web = s.web
<1> DEFINE t == Locked(s)
<1>1. s \in States  BY DEF Good
<1>2. t \in States /\ t.web = s.web /\ t.fs.table = s.fs.table
  BY <1>1 DEF States, FileSystem, Locked
<1> HIDE DEF t
<1>3. Owning(t)  BY <1>2 DEF Good, Owning
<1> QED  BY <1>2, <1>3 DEF Good, t

\* WEBFSInit, when nobody reads
LEMMA FsInitGood ==
  ASSUME NEW s, Good(s), Clean(s), NEW good \in BOOLEAN
  PROVE  LET t == FsInit(s, good) IN Good(t) /\ t.web = s.web
<1> DEFINE t == FsInit(s, good)
           empty == [h \in 1 .. MaxOpen |-> Shut]
           no == ~good
<1>1. s \in States  BY DEF Good
<1>2. empty \in [1 .. MaxOpen -> [page : DOMAIN Pages \cup {NoPage}, pos : Nat]]
  BY DEF Shut
<1>3. t = [s EXCEPT !.fs.table = empty, !.fs.locked = no] /\ no \in BOOLEAN  BY DEF FsInit
<1>4. \A h \in 1 .. MaxOpen : empty[h] = Shut  OBVIOUS
<1> HIDE DEF t, empty, no
<1>5. t \in States /\ t.web = s.web /\ t.fs.table = empty
  BY <1>1, <1>2, <1>3 DEF States, FileSystem
<1>6. Owning(t)  BY <1>4, <1>5 DEF Good, Owning, Clean
<1>7. \A h \in 1 .. MaxOpen : EntryOk(t.fs.table[h])  BY <1>4, <1>5 DEF EntryOk
<1> QED  BY <1>5, <1>6, <1>7 DEF Good, t

\* The result p of a piece of a disk, before what is common to all that end it
Tells(s, p, c) ==
  /\ Good(p.s) /\ Silent(s, p.s, c) /\ p.s.web[c].page = s.web[c].page
  /\ p.status \in Errors \cup {200}

\* upload_boundary: the peer is told.
LEMMA ToldGood ==
  ASSUME NEW s, NEW t, Good(t), t.web = s.web, NEW c \in Conns, NEW n \in {200, 400}
  PROVE  Tells(s, Told(t, c, n), c) /\ Told(t, c, n).status # 0
<1> DEFINE R == {"REDIR"}
           x == Set(t, c, R)
           p == Told(t, c, n)
<1>1. \/ p = [s |-> t, status |-> n]
      \/ p = [s |-> x, status |-> 200]
  BY DEF Told, Status
<1>2. R \in SUBSET Flags /\ "RETRYCB" \notin R  BY DEF Flags
<1> HIDE DEF R, p
<1>3. Good(x) /\ Silent(t, x, c) /\ x.web[c].page = t.web[c].page  BY <1>2, SetSilent
<1> HIDE DEF x
<1>4. Silent(s, t, c) /\ t.web[c].page = s.web[c].page  BY DEF Silent, Talks
<1>5. Silent(s, x, c)  BY <1>3, <1>4, SilentOn
<1>6. n \in Errors \cup {200} /\ n # 0  BY DEF Errors
<1>7. CASE p = [s |-> t, status |-> n]
  <2>1. p.s = t /\ p.status = n  BY <1>7
  <2> QED  BY <1>4, <1>6, <2>1 DEF Tells, p
<1>8. CASE p = [s |-> x, status |-> 200]
  <2>1. p.s = x /\ p.status = 200  BY <1>8
  <2> QED  BY <1>3, <1>4, <1>5, <2>1 DEF Tells, p
<1> QED  BY <1>1, <1>7, <1>8

\* upload_boundary: the head of a disk
LEMMA DiskHeadGood ==
  ASSUME NEW s, Good(s), NEW c \in Conns, NEW p \in DiskHead(s, c) \cup {Wait(s)}
  PROVE  \/ p.status # 0 /\ Tells(s, p, c)
         \/ p.status = 0 /\ Good(p.s) /\ p.s.web = s.web
<1>1. \/ p = [s |-> Locked(s), status |-> 0]
      \/ p = [s |-> s, status |-> 0]
      \/ p = Told(s, c, 400)
  BY DEF DiskHead, Wait, Locked
<1>2. CASE p = [s |-> Locked(s), status |-> 0]
  <2>1. p.s = Locked(s) /\ p.status = 0  BY <1>2
  <2> QED  BY <2>1, LockedGood
<1>3. CASE p = [s |-> s, status |-> 0]
  <2>1. p.s = s /\ p.status = 0  BY <1>3
  <2> QED  BY <2>1
<1>4. CASE p = Told(s, c, 400)
  <2> DEFINE n == 400
  <2>1. n \in {200, 400} /\ p = Told(s, c, n)  BY <1>4
  <2> HIDE DEF n
  <2> QED  BY <2>1, ToldGood
<1> QED  BY <1>1, <1>2, <1>3, <1>4

\* upload_boundary: the end of a disk
LEMMA DiskEndGood ==
  ASSUME NEW s, NEW t, Good(t), t.web = s.web, Clean(s), NEW c \in Conns, NEW p \in DiskEnd(t, c)
  PROVE  p.status # 0 /\ Tells(s, p, c)
<1>1. PICK good \in BOOLEAN, n \in {200, 400} : p = Told(FsInit(t, good), c, n)
  BY DEF DiskEnd
<1>2. Clean(t)  BY DEF Clean
<1> DEFINE u == FsInit(t, good)
<1>3. Good(u) /\ u.web = t.web  BY <1>2, FsInitGood
<1> HIDE DEF u
<1>4. p = Told(u, c, n) /\ u.web = s.web  BY <1>1, <1>3 DEF u
<1> QED  BY <1>3, <1>4, ToldGood

\* What ends a disk: the connection will be closed.
Closing(p, c) ==
  [p EXCEPT !.s = Set([@ EXCEPT !.web[c].len = 0], c, {"DISCONNECT"})]

\* It is answered.
LEMMA ClosingGood ==
  ASSUME NEW s, Good(s), NEW c \in Conns, Early(s.web[c]), s.web[c].page \notin Protected,
         NEW t, NEW n, n # 0, Tells(s, [s |-> t, status |-> n], c)
  PROVE  Heard(s, Closing([s |-> t, status |-> n], c), c)
<1> DEFINE D == {"DISCONNECT"}
           k == 0
           x == Measured(t, c, k)
           y == Set(x, c, D)
           q == Closing([s |-> t, status |-> n], c)
<1>1. q = [s |-> y, status |-> n]  BY DEF Closing, Measured
<1>2. /\ Good(t) /\ Silent(s, t, c) /\ t.web[c].page = s.web[c].page /\ n \in Errors \cup {200}
  BY DEF Tells
<1>3. D \in SUBSET Flags /\ "RETRYCB" \notin D /\ k \in Nat  BY DEF Flags
<1> HIDE DEF D, k, q
<1>4. Good(x) /\ Silent(t, x, c) /\ x.web[c].page = t.web[c].page  BY <1>2, <1>3, MeasuredGood
<1> HIDE DEF x
<1>5. Good(y) /\ Silent(x, y, c) /\ y.web[c].page = x.web[c].page  BY <1>3, <1>4, SetSilent
<1> HIDE DEF y
<1>6. Silent(s, x, c)  BY <1>2, <1>4, SilentOn
<1>7. Silent(s, y, c)  BY <1>5, <1>6, SilentOn
<1>8. y.web[c].flight = 0 /\ y.web[c].body = <<>> /\ Open(y.web[c])
  BY <1>2, <1>4, <1>5, <1>7 DEF Silent, Early, Open
<1>9. q.s = y /\ q.status = n  BY <1>1
<1> QED  BY <1>2, <1>5, <1>7, <1>8, <1>9 DEF Heard, q

\* A result is a state and a status.
LEMMA ResultIs ==
  ASSUME NEW s, NEW c, NEW p,
         p \in DiskHead(s, c) \cup {Wait(s)} \/ p \in DiskEnd(s, c)
  PROVE  p = [s |-> p.s, status |-> p.status]
<1> DEFINE Pair(q) == \E t, n : q = [s |-> t, status |-> n]
<1>1. \A t, n : Pair(Told(t, c, n))  BY DEF Told, Status
<1>2. \A t : Pair(Wait(t))  BY DEF Wait
<1> HIDE DEF Pair
<1>3. Pair(p)
  <2>1. p \in DiskHead(s, c) => Pair(p)  BY <1>1, <1>2 DEF DiskHead
  <2>2. p \in DiskEnd(s, c) => Pair(p)  BY <1>1 DEF DiskEnd
  <2> QED  BY <1>2, <2>1, <2>2
<1>4. PICK t, n : p = [s |-> t, status |-> n]  BY <1>3 DEF Pair
<1> QED  BY <1>4

\* web_rx_buf: its results
LEMMA DiskReceivedIs ==
  ASSUME NEW s, NEW c, NEW q \in DiskReceived(s, c)
  PROVE  LET w == s.web[c]
             whole == w.got = Whole(w.req)
         IN  \E h \in DiskHead(s, c) \cup {Wait(s)} :
               \E p \in (IF h.status = 0 /\ whole THEN DiskEnd(h.s, c) ELSE {h}) :
                 q = IF p.status = 0 THEN p ELSE Closing(p, c)
<1> DEFINE w == s.web[c]
           whole == w.got = Whole(w.req)
           E(h) == IF h.status = 0 /\ whole THEN DiskEnd(h.s, c) ELSE {h}
           F(p) == IF p.status = 0 THEN p ELSE Closing(p, c)
           B == DiskHead(s, c) \cup {Wait(s)}
<1>1. \E A : A \subseteq B /\ q \in {F(p) : p \in UNION {E(h) : h \in A}}
  <2> DEFINE A == IF w.got = w.req.head + 1 THEN DiskHead(s, c) ELSE {Wait(s)}
  <2>1. A \subseteq B  OBVIOUS
  <2>2. q \in {F(p) : p \in UNION {E(h) : h \in A}}  BY DEF DiskReceived, Closing
  <2> QED  BY <2>1, <2>2
<1> HIDE DEF E, F, B
<1>2. \E h \in B : \E p \in E(h) : q = F(p)  BY <1>1
<1> QED  BY <1>2 DEF E, F, B

\* web_rx_buf
LEMMA DiskReceivedGood ==
  ASSUME NEW s, Good(s), Clean(s), NEW c \in Conns, Early(s.web[c]),
         s.web[c].page \notin Protected, NEW q \in DiskReceived(s, c)
  PROVE  Heard(s, q, c)
<1> DEFINE w == s.web[c]
           whole == w.got = Whole(w.req)
<1>1. PICK h \in DiskHead(s, c) \cup {Wait(s)} :
        \E p \in (IF h.status = 0 /\ whole THEN DiskEnd(h.s, c) ELSE {h}) :
          q = IF p.status = 0 THEN p ELSE Closing(p, c)
  BY DiskReceivedIs
<1>2. PICK p \in (IF h.status = 0 /\ whole THEN DiskEnd(h.s, c) ELSE {h}) :
        q = IF p.status = 0 THEN p ELSE Closing(p, c)
  BY <1>1
<1>3. \/ h.status # 0 /\ Tells(s, h, c)
      \/ h.status = 0 /\ Good(h.s) /\ h.s.web = s.web
  BY DiskHeadGood
<1> HIDE DEF whole
<1>4. \/ p.status # 0 /\ Tells(s, p, c) /\ p = [s |-> p.s, status |-> p.status]
      \/ p.status = 0 /\ Good(p.s) /\ p.s.web = s.web
  <2>1. CASE h.status = 0 /\ whole
    <3> DEFINE t == h.s
    <3>1. p \in DiskEnd(t, c) /\ Good(t) /\ t.web = s.web  BY <1>2, <1>3, <2>1
    <3> HIDE DEF t
    <3>2. p.status # 0 /\ Tells(s, p, c)  BY <3>1, DiskEndGood
    <3> QED  BY <3>1, <3>2, ResultIs
  <2>2. CASE ~(h.status = 0 /\ whole)
    <3>1. p = h  BY <1>2, <2>2
    <3> QED  BY <1>3, <3>1, ResultIs
  <2> QED  BY <2>1, <2>2
<1>5. CASE p.status # 0 /\ Tells(s, p, c) /\ p = [s |-> p.s, status |-> p.status]
  <2> DEFINE t == p.s
             n == p.status
  <2>1. q = Closing([s |-> t, status |-> n], c) /\ n # 0 /\ Tells(s, [s |-> t, status |-> n], c)
    BY <1>2, <1>5
  <2> HIDE DEF t, n
  <2> QED  BY <2>1, ClosingGood
<1>6. CASE p.status = 0 /\ Good(p.s) /\ p.s.web = s.web
  <2>1. q = p  BY <1>2, <1>6
  <2> QED  BY <1>6, <2>1 DEF Heard, Silent, Talks
<1> QED  BY <1>4, <1>5, <1>6

(***************************************************************************)
(* The callbacks                                                           *)
(***************************************************************************)
\* A connection that is listened to, and one that is answered
Phase(w) == IF w.rxnull THEN Late(w) ELSE Early(w)

\* What a callback leaves of the connection c
Serves(s, u, c) ==
  LET w == s.web[c]
      v == u.web[c]
  IN  /\ Good(u)
      /\ \A d \in Conns : d # c => u.web[d] = s.web[d]
      /\ v = NewWeb \/ (v.st = w.st /\ v.req = w.req /\ v.got = w.got /\ Phase(v))

\* webserver_received_data
LEMMA ReceivedGood ==
  ASSUME NEW s, Good(s), NEW c \in Conns, ~s.web[c].rxnull, Early(s.web[c]),
         "HEAD_OK" \in s.web[c].flags => Clean(s), NoPage \notin Protected,
         NEW u \in Received(s, c)
  PROVE  Serves(s, u, c)
<1>1. \/ u = s
      \/ \E p \in (IF Has(s, c, "HEAD_OK") THEN DiskReceived(s, c) ELSE HeadReceived(s, c)) :
           u \in (IF p.status = 0 THEN {p.s} ELSE Answer(p.s, c, p.status))
  BY DEF Received
<1>2. CASE u = s  BY <1>2 DEF Serves, Phase
<1>3. ASSUME NEW p \in (IF Has(s, c, "HEAD_OK") THEN DiskReceived(s, c) ELSE HeadReceived(s, c)),
             u \in (IF p.status = 0 THEN {p.s} ELSE Answer(p.s, c, p.status))
      PROVE  Serves(s, u, c)
  <2>1. Heard(s, p, c)
    <3>1. CASE Has(s, c, "HEAD_OK")
      <4>1. Clean(s) /\ s.web[c].page = NoPage  BY <3>1 DEF Has, Early
      <4> QED  BY <1>3, <3>1, <4>1, DiskReceivedGood
    <3>2. CASE ~Has(s, c, "HEAD_OK")  BY <1>3, <3>2, HeadReceivedGood
    <3> QED  BY <3>1, <3>2
  <2> DEFINE t == p.s
             n == p.status
  <2>2. /\ Good(t) /\ Silent(s, t, c)
        /\ n = 0 => Early(t.web[c])
        /\ n # 0 => /\ t.web[c].flight = 0 /\ t.web[c].body = <<>> /\ n \in Errors \cup {200}
                    /\ "REDIR" \notin t.web[c].flags /\ n = 200 => Open(t.web[c])
    BY <2>1 DEF Heard
  <2>3. u \in (IF n = 0 THEN {t} ELSE Answer(t, c, n))  BY <1>3
  <2> HIDE DEF t, n
  <2>4. CASE n = 0
    <3>1. u = t  BY <2>3, <2>4
    <3> QED  BY <2>2, <2>4, <3>1 DEF Serves, Phase, Silent, Talks
  <2>5. CASE n # 0
    <3>1. u \in Answer(t, c, n)  BY <2>3, <2>5
    <3>2. n \in Errors \cup {200} /\ t.web[c].flight = 0 /\ t.web[c].body = <<>>
          /\ ("REDIR" \notin t.web[c].flags /\ n = 200 => Open(t.web[c]))
      BY <2>2, <2>5
    <3>3. Good(u) /\ Left(t, u, c)  BY <2>2, <3>1, <3>2, AnswerGood
    <3> QED  BY <2>2, <3>3 DEF Serves, Phase, Left, Silent, Talks
  <2> QED  BY <2>4, <2>5
<1> QED  BY <1>1, <1>2, <1>3

\* webserver_sent_callback
LEMMA SentCallbackGood ==
  ASSUME NEW s, Good(s), NEW c \in Conns, s.web[c].rxnull, Late(s.web[c]),
         NEW u \in SentCallback(s, c)
  PROVE  Serves(s, u, c)
<1> DEFINE w == s.web[c]
<1>1. CASE Has(s, c, "CLOSED")
  <2> DEFINE m == Muted(s, c)
             v == m.web[c]
  <2>1. u = m  BY <1>1 DEF SentCallback, Muted
  <2>2. /\ Good(m) /\ m.fs = s.fs
        /\ \A d \in Conns : d # c => m.web[d] = s.web[d]
        /\ v.st = w.st /\ v.req = w.req /\ v.got = w.got /\ v.page = w.page
        /\ v.body = w.body /\ v.flags = w.flags /\ v.rxnull
    BY MutedGood
  <2> HIDE DEF m
  <2>3. Late(v)  BY <2>2 DEF Late
  <2> QED  BY <2>1, <2>2, <2>3 DEF Serves, Phase
<1>2. CASE ~Has(s, c, "CLOSED")
  <2> DEFINE goes == ~HasAny(s, c, {"DISCONNECT", "FCLOSE"}) /\ Has(s, c, "FOPEN")
  <2>1. PICK t \in (IF goes THEN SendFdata(s, c) ELSE {s}) : u \in AfterSend(t, c)
    BY <1>2 DEF SentCallback
  <2> HIDE DEF goes
  <2>2. Open(w)  BY <1>2 DEF Late, Open, Has
  <2>3. Good(t) /\ Talks(s, t, c) /\ Sure(t.web[c]) /\ t.web[c].rxnull
    <3>1. CASE goes
      <4>1. t \in SendFdata(s, c)  BY <2>1, <3>1
      <4>2. Good(t) /\ Talks(s, t, c) /\ t.web[c].page = s.web[c].page  BY <4>1, SendFdataGood
      <4> QED  BY <2>2, <4>2 DEF Talks, Open, Sure
    <3>2. CASE ~goes  BY <2>1, <2>2, <3>2 DEF Talks, Open, Sure
    <3> QED  BY <3>1, <3>2
  <2>4. Good(u) /\ Left(t, u, c)  BY <2>1, <2>3, AfterSendGood
  <2> QED  BY <2>3, <2>4 DEF Serves, Phase, Left, Talks
<1> QED  BY <1>1, <1>2

(***************************************************************************)
(* The invariant                                                           *)
(***************************************************************************)
WebOk(w) ==
  /\ w.st = "free" => w = NewWeb
  /\ w.req \in cfg.reqs \cup {NewWeb.req} /\ w.got <= Whole(w.req)
  /\ Phase(w)

IInv ==
  /\ cfg \in Cfgs
  /\ Good(Now)
  /\ \A c \in Conns : WebOk(web[c])

\* A connection that is not used is as it has to be.
LEMMA NewOk == WebOk(NewWeb)
<1>1. /\ ~NewWeb.rxnull /\ NewWeb.flight = 0 /\ NewWeb.body = <<>> /\ NewWeb.files = <<>>
      /\ NewWeb.flags = {} /\ NewWeb.page = NoPage /\ NewWeb.got = 0
  BY DEF NewWeb
<1>2. NewWeb.req.kind = "get" /\ NewWeb.req.head = 1 /\ NewWeb.req.more = 0  BY NewIs
<1>3. Early(NewWeb)  BY <1>1, <1>2, WebAssumption DEF Early
<1>4. NewWeb.got <= Whole(NewWeb.req)  BY <1>1, <1>2 DEF Whole
<1> QED  BY <1>1, <1>3, <1>4 DEF WebOk, Phase

\* The state is made of the file system and the connections.
LEMMA NowIs ==
  ASSUME NEW s, Good(s), Become(s)
  PROVE  Now' = s /\ Good(Now')
<1>1. s \in States /\ fs' = s.fs /\ web' = s.web  BY DEF Good, Become
<1>2. s = [fs |-> s.fs, web |-> s.web]  BY <1>1 DEF States
<1>3. Now' = s  BY <1>1, <1>2 DEF Now
<1> QED  BY <1>3

\* The step of a callback of the connection c
LEMMA ServesKeeps ==
  ASSUME IInv, NEW c \in Conns, NEW s, NEW u, Serves(s, u, c), Become(u), cfg' = cfg,
         \A d \in Conns : d # c => s.web[d] = web[d],
         s.web[c].st # "free", s.web[c].req \in cfg.reqs \cup {NewWeb.req},
         s.web[c].got <= Whole(s.web[c].req)
  PROVE  IInv'
<1>1. Good(u) /\ web' = u.web  BY DEF Serves, Become
<1>2. Good(Now')  BY <1>1, NowIs
<1>3. ASSUME NEW d \in Conns  PROVE WebOk(web[d])'
  <2> DEFINE v == u.web[d]
  <2>1. (WebOk(web[d]))' <=> WebOk(v)  BY <1>1 DEF WebOk, Phase, Late, Early, Whole
  <2>2. CASE d # c
    <3>1. v = web[d]  BY <2>2 DEF Serves
    <3>2. WebOk(web[d])  BY DEF IInv
    <3> QED  BY <2>1, <3>1, <3>2
  <2>3. CASE d = c /\ v = NewWeb
    <3>1. WebOk(v)  BY <2>3, NewOk
    <3> QED  BY <2>1, <3>1
  <2>4. CASE d = c /\ v # NewWeb
    <3>1. v.st = s.web[c].st /\ v.req = s.web[c].req /\ v.got = s.web[c].got /\ Phase(v)
      BY <2>4 DEF Serves
    <3> HIDE DEF v
    <3>2. WebOk(v)  BY <3>1 DEF WebOk
    <3> QED  BY <2>1, <3>2
  <2> QED  BY <2>2, <2>3, <2>4
<1> QED  BY <1>2, <1>3 DEF IInv

\* One connection of a good state is changed to v, which has the same files.
LEMMA ChangedGood ==
  ASSUME IInv, NEW c \in Conns, NEW v, NEW w, w = web[c],
         v \in Web, v.files = w.files, v.cb = w.cb, v.flags = w.flags, v.flight <= SndBuf,
         NEW s, Puts(Now, s, c, v)
  PROVE  Good(s) /\ s.web[c] = v /\ \A d \in Conns : d # c => s.web[d] = web[d]
<1>0. s = [Now EXCEPT !.web[c] = v]  BY DEF Puts
<1>1. Good(Now) /\ Now.web = web  BY DEF IInv, Now
<1>2. Fit(w)  BY <1>1 DEF Good
<1>3. Fit(v) /\ v.files = Now.web[c].files  BY <1>1, <1>2 DEF Fit
<1> HIDE DEF Now
<1>4. LET t == [Now EXCEPT !.web[c] = v]
      IN  Good(t) /\ t.web[c] = v /\ \A d \in Conns : d # c => t.web[d] = Now.web[d]
  BY <1>1, <1>3, PutGood
<1> QED  BY <1>0, <1>1, <1>4

\* A connection of the state
LEMMA ConnIs ==
  ASSUME IInv, NEW c \in Conns
  PROVE  /\ web[c] \in Web /\ Fit(web[c]) /\ WebOk(web[c]) /\ web \in [Conns -> Web]
         /\ fs \in FileSystem /\ Now.web = web /\ Now.fs = fs
<1>1. Good(Now) /\ Now.web = web /\ Now.fs = fs  BY DEF IInv, Now
<1>2. Now \in States /\ Fit(Now.web[c])  BY <1>1 DEF Good
<1> QED  BY <1>1, <1>2 DEF States, IInv, Fit

\* At first
LEMMA InitKeeps == Init => IInv
<1> SUFFICES ASSUME Init  PROVE IInv  OBVIOUS
<1> DEFINE s == Now
           empty == [h \in 1 .. MaxOpen |-> Shut]
<1>1. /\ cfg \in Cfgs /\ web = [c \in Conns |-> NewWeb]
      /\ fs = [table |-> empty, locked |-> FALSE]
  BY DEF Init, FsInit
<1>2. s.fs = fs /\ s.web = web /\ s = [fs |-> fs, web |-> web]  BY DEF Now
<1>3. empty \in [1 .. MaxOpen -> [page : DOMAIN Pages \cup {NoPage}, pos : Nat]]
      /\ \A h \in 1 .. MaxOpen : empty[h] = Shut
  BY DEF Shut
<1> HIDE DEF s, empty
<1>4. fs \in FileSystem /\ fs.table = empty  BY <1>1, <1>3 DEF FileSystem
<1>5. \A c \in Conns : web[c] = NewWeb  BY <1>1
<1>6. Fit(NewWeb) /\ NewWeb.files = <<>> /\ NewWeb \in Web  BY NewFit DEF Fit
<1>7. s \in States  BY <1>1, <1>2, <1>4, <1>6 DEF States
<1>8. \A c \in Conns : Distinct(web[c].files) /\ \A h : ~Holding(web[c].files, h)
  <2>1. Distinct(<<>>) /\ \A h : ~Holding(<<>>, h)  BY DEF Distinct, Holding
  <2> QED  BY <1>5, <1>6, <2>1
<1>9. Owning(s)  BY <1>2, <1>3, <1>4, <1>8 DEF Owning
<1>10. \A h \in 1 .. MaxOpen : EntryOk(s.fs.table[h])  BY <1>2, <1>3, <1>4 DEF EntryOk
<1>11. Good(s)  BY <1>2, <1>5, <1>6, <1>7, <1>9, <1>10 DEF Good
<1>12. \A c \in Conns : WebOk(web[c])  BY <1>5, NewOk
<1> QED  BY <1>1, <1>11, <1>12 DEF IInv, s

\* A peer connects.
LEMMA AcceptKeeps ==
  ASSUME \A k \in Cfgs : Orderly(k), IInv, NEW c \in Conns, Accept(c)
  PROVE  IInv'
<1>1. PICK r \in cfg.reqs : web' = [web EXCEPT ![c].st = "idle", ![c].req = r]  BY DEF Accept
<1>2. cfg' = cfg /\ fs' = fs /\ web[c] = NewWeb  BY ConnIs DEF Accept, WebOk
<1>3. /\ ~NewWeb.rxnull /\ NewWeb.flight = 0 /\ NewWeb.body = <<>> /\ NewWeb.files = <<>>
      /\ NewWeb.flags = {} /\ NewWeb.page = NoPage /\ NewWeb.got = 0
  BY DEF NewWeb
<1> DEFINE w == web[c]
           v == [w EXCEPT !.st = "idle", !.req = r]
           s == [Now EXCEPT !.web[c] = v]
<1>4. cfg \in Cfgs /\ r \in Request /\ r.head \in Nat /\ r.more \in Nat
      /\ (r.kind = "upload" => r.page = Upload)
  <2>1. cfg \in Cfgs /\ Orderly(cfg)  BY DEF IInv
  <2>2. r \in Request  BY <2>1, WebAssumption DEF Config
  <2> QED  BY <2>1, <2>2 DEF Orderly, Request
<1>5. w \in Web /\ web \in [Conns -> Web] /\ Now.web = web /\ Now.fs = fs /\ Good(Now)
  BY ConnIs DEF IInv
<1>6. web' = [web EXCEPT ![c] = v]  BY <1>1, <1>5
<1>7. /\ v \in Web /\ v.files = w.files /\ v.cb = w.cb /\ v.flags = w.flags
      /\ v.flight = w.flight /\ v.st = "idle" /\ v.req = r /\ v.got = w.got
      /\ v.rxnull = w.rxnull /\ v.body = w.body /\ v.page = w.page
  BY <1>4, <1>5 DEF Web
<1> HIDE DEF v
<1>8. v.flight <= SndBuf  BY <1>2, <1>3, <1>7, Constants
<1> HIDE DEF w
<1>9. Good(s) /\ s.web[c] = v /\ \A d \in Conns : d # c => s.web[d] = web[d]
  <2>1. Puts(Now, s, c, v)  BY DEF Puts
  <2>2. w = web[c]  BY DEF w
  <2> HIDE DEF s
  <2> QED  BY <1>7, <1>8, <2>1, <2>2, ChangedGood
<1>10. s.fs = fs /\ s.web = web'  BY <1>5, <1>6 DEF Now
<1>11. Become(s)  BY <1>2, <1>10 DEF Become
<1> HIDE DEF s
<1>12. Early(v)
  <2>1. /\ v.flight = 0 /\ v.body = <<>> /\ v.files = <<>> /\ v.flags = {} /\ v.page = NoPage
        /\ v.req = r
    BY <1>2, <1>3, <1>7 DEF w
  <2> QED  BY <1>4, <2>1, WebAssumption DEF Early
<1>13. Serves(s, s, c)
  <2>1. ~v.rxnull  BY <1>2, <1>3, <1>7 DEF w
  <2> QED  BY <1>9, <1>12, <2>1 DEF Serves, Phase
<1>14. v.got <= Whole(v.req)  BY <1>2, <1>3, <1>4, <1>7 DEF w, Whole
<1> QED  BY <1>2, <1>7, <1>9, <1>11, <1>13, <1>14, ServesKeeps

\* No handle of the file system among the files of an upload
LEMMA BuiltinClean ==
  ASSUME NEW q, q = <<>> \/ q = <<Builtin>>, NEW h \in 1 .. MaxOpen
  PROVE  ~Holding(q, h)
  BY Constants DEF Holding, Builtin

\* A segment has come, in the state s, and is received, in the state u.
Segmented(c, s, u) ==
  LET w == web[c]
      v == s.web[c]
  IN  /\ \E n : Puts(Now, s, c, [w EXCEPT !.got = n, !.st = "open"])
      /\ Good(s) /\ v.st # "free" /\ v.req = w.req /\ v.got <= Whole(v.req)
      /\ w.st # "free" /\ ~w.rxnull /\ ~v.rxnull /\ Early(v) /\ ("HEAD_OK" \in v.flags => Clean(s))
      /\ \A d \in Conns : d # c => s.web[d] = web[d]
      /\ u \in Received(s, c) /\ Serves(s, u, c)

\* A segment comes.
LEMMA SegmentIs ==
  ASSUME \A k \in Cfgs : Orderly(k), IInv, NEW c \in Conns, Segment(c)
  PROVE  cfg' = cfg /\ \E s, u : Segmented(c, s, u) /\ Become(u)
<1> DEFINE w == web[c]
           n == w.got + 1
           v == [w EXCEPT !.got = n, !.st = "open"]
           s == [Now EXCEPT !.web[c] = v]
           z == [Now EXCEPT !.web[c].got = @ + 1, !.web[c].st = "open"]
<1>1. PICK u \in Received(z, c) : Become(u)  BY DEF Segment
<1>2. w.st # "free" /\ ~w.rxnull /\ MayCome(c) /\ cfg' = cfg  BY DEF Segment
<1>3. /\ w \in Web /\ web \in [Conns -> Web] /\ Now.web = web /\ Fit(w) /\ WebOk(w)
      /\ Now.fs = fs /\ Good(Now)
  BY ConnIs DEF IInv
<1>4. z = s  BY <1>3 DEF Now
<1>5. u \in Received(s, c)  BY <1>1, <1>4
<1>6. n \in Nat /\ n <= Whole(w.req)
  <2>1. w.got \in Nat /\ w.got < Whole(w.req)  BY <1>2, <1>3, WebIs DEF MayCome
  <2>2. Whole(Now.web[c].req) \in Nat  BY <1>3, RequestIs
  <2> DEFINE g == w.got
             m == Whole(w.req)
  <2>3. g \in Nat /\ m \in Nat /\ g < m  BY <1>3, <2>1, <2>2
  <2> HIDE DEF g, m
  <2>4. g + 1 \in Nat /\ g + 1 <= m  BY <2>3
  <2> QED  BY <2>4 DEF g, m
<1> HIDE DEF n, z
<1>7. /\ v \in Web /\ v.files = w.files /\ v.cb = w.cb /\ v.flags = w.flags
      /\ v.flight = w.flight /\ v.st = "open" /\ v.req = w.req /\ v.got = n
      /\ v.rxnull = w.rxnull /\ v.body = w.body /\ v.page = w.page
  BY <1>3, <1>6 DEF Web
<1> HIDE DEF v, w
<1>8. v.flight <= SndBuf  BY <1>3, <1>7 DEF Fit
<1>9. Good(s) /\ s.web[c] = v /\ \A d \in Conns : d # c => s.web[d] = web[d]
  <2>1. Puts(Now, s, c, v)  BY DEF Puts
  <2>2. w = web[c]  BY DEF w
  <2> HIDE DEF s
  <2> QED  BY <1>7, <1>8, <2>1, <2>2, ChangedGood
<1> HIDE DEF s
<1>10. Early(w)  BY <1>2, <1>3 DEF WebOk, Phase
<1>11. Early(v)  BY <1>7, <1>10 DEF Early
<1>12. "HEAD_OK" \in v.flags => Clean(s)
  <2> SUFFICES ASSUME "HEAD_OK" \in v.flags, NEW d \in Conns, NEW h \in 1 .. MaxOpen
               PROVE  ~Holding(s.web[d].files, h)
    BY DEF Clean
  <2>1. CASE d = c
    <3>1. v.files = <<>> \/ v.files = <<Builtin>>  BY <1>11 DEF Early
    <3> QED  BY <1>9, <2>1, <3>1, BuiltinClean
  <2>2. CASE d # c
    <3>1. StartsDisk(c)  BY <1>7, <1>10 DEF StartsDisk, Early, w
    <3>2. "busy" \notin cfg.faults  BY DEF IInv, Orderly
    <3>3. Held(d) = {}  BY <1>2, <2>2, <3>1, <3>2 DEF MayCome
    <3> DEFINE q == web[d].files
    <3>4. q \in Seq(Handles)  BY ConnIs, WebIs
    <3>5. \A i \in DOMAIN q : q[i] = Builtin  BY <3>3 DEF Held
    <3>6. s.web[d].files = q  BY <1>9, <2>2
    <3> HIDE DEF q
    <3>7. ~Holding(q, h)  BY <3>4, <3>5, Constants DEF Holding, Builtin
    <3> QED  BY <3>6, <3>7
  <2> QED  BY <2>1, <2>2
<1>13. ~v.rxnull  BY <1>2, <1>7 DEF w
<1>14. Serves(s, u, c)
  <2>1. "HEAD_OK" \in s.web[c].flags => Clean(s)  BY <1>9, <1>12
  <2>2. ~s.web[c].rxnull /\ Early(s.web[c])  BY <1>9, <1>11, <1>13
  <2>3. NoPage \notin Protected  BY WebAssumption
  <2> QED  BY <1>5, <1>9, <2>1, <2>2, <2>3, ReceivedGood
<1>15. v.got <= Whole(v.req)  BY <1>6, <1>7
<1>16. Puts(Now, s, c, [w EXCEPT !.got = n, !.st = "open"])  BY DEF Puts, s, v
<1>17. Segmented(c, s, u)
  <2>1. /\ w.st # "free" /\ ~w.rxnull /\ v.req = w.req /\ v.st # "free"  BY <1>2, <1>7
  <2> QED  BY <1>5, <1>9, <1>11, <1>12, <1>13, <1>14, <1>15, <1>16, <2>1, Zenon DEF Segmented, w
<1> QED  BY <1>1, <1>2, <1>17

\* It leaves the connection as it has to be.
LEMMA SegmentKeeps ==
  ASSUME \A k \in Cfgs : Orderly(k), IInv, NEW c \in Conns, Segment(c)
  PROVE  IInv'
<1>1. PICK s, u : Segmented(c, s, u) /\ Become(u) /\ cfg' = cfg  BY SegmentIs
<1> DEFINE v == s.web[c]
<1>2. /\ Serves(s, u, c) /\ v.st # "free" /\ v.req = web[c].req /\ v.got <= Whole(v.req)
      /\ \A d \in Conns : d # c => s.web[d] = web[d]
  BY <1>1 DEF Segmented
<1>3. v.req \in cfg.reqs \cup {NewWeb.req}  BY <1>2, ConnIs DEF WebOk
<1> QED  BY <1>1, <1>2, <1>3, ServesKeeps

\* Something has been acknowledged, in the state s, and is answered, in the state u.
Acked(c, s, u) ==
  LET w == web[c]
      v == s.web[c]
  IN  /\ \E n : Puts(Now, s, c, [w EXCEPT !.flight = n])
      /\ Good(s) /\ v.st # "free" /\ v.st = w.st /\ v.req = w.req /\ v.got = w.got
      /\ w.rxnull /\ v.rxnull
      /\ \A d \in Conns : d # c => s.web[d] = web[d]
      /\ u = s \/ u \in SentCallback(s, c)
      /\ Serves(s, u, c)

\* The peer acknowledges.
LEMMA AckIs ==
  ASSUME IInv, NEW c \in Conns, Ack(c)
  PROVE  cfg' = cfg /\ \E s, u : Acked(c, s, u) /\ Become(u)
<1> DEFINE w == web[c]
<1>1. PICK n \in 1 .. w.flight :
        \E t \in (IF w.txnull THEN {[Now EXCEPT !.web[c].flight = @ - n]}
                  ELSE SentCallback([Now EXCEPT !.web[c].flight = @ - n], c)) : Become(t)
  BY DEF Ack
<1> DEFINE k == w.flight - n
           v == [w EXCEPT !.flight = k]
           s == [Now EXCEPT !.web[c] = v]
           z == [Now EXCEPT !.web[c].flight = @ - n]
<1>2. PICK u \in (IF w.txnull THEN {z} ELSE SentCallback(z, c)) : Become(u)  BY <1>1
<1>3. cfg' = cfg  BY DEF Ack
<1>4. /\ w \in Web /\ web \in [Conns -> Web] /\ Now.web = web /\ Fit(w) /\ WebOk(w)
      /\ Now.fs = fs /\ Good(Now)
  BY ConnIs DEF IInv
<1>5. z = s  BY <1>4 DEF Now
<1>6. k \in Nat /\ k <= SndBuf /\ w.flight # 0
  <2> DEFINE f == w.flight
  <2>1. f \in Nat /\ f <= SndBuf /\ n \in 1 .. f  BY <1>1, <1>4, WebIs DEF Fit
  <2> HIDE DEF f
  <2>2. f - n \in Nat /\ f - n <= SndBuf /\ f # 0  BY <2>1, Constants
  <2> QED  BY <2>2 DEF f
<1>7. u \in (IF w.txnull THEN {s} ELSE SentCallback(s, c))  BY <1>2, <1>5
<1> HIDE DEF k, z
<1>8. /\ v \in Web /\ v.files = w.files /\ v.cb = w.cb /\ v.flags = w.flags
      /\ v.flight = k /\ v.st = w.st /\ v.req = w.req /\ v.got = w.got
      /\ v.rxnull = w.rxnull /\ v.body = w.body /\ v.page = w.page
  BY <1>4, <1>6 DEF Web
<1>9. w.rxnull /\ Late(w)  BY <1>4, <1>6 DEF WebOk, Phase, Early
<1>10. w.st # "free"
  <2>1. NewWeb.flight = 0  BY DEF NewWeb
  <2> QED  BY <1>4, <1>6, <2>1 DEF WebOk
<1> HIDE DEF v, w
<1>11. v.flight <= SndBuf  BY <1>6, <1>8
<1>12. Good(s) /\ s.web[c] = v /\ \A d \in Conns : d # c => s.web[d] = web[d]
  <2>1. Puts(Now, s, c, v)  BY DEF Puts
  <2>2. w = web[c]  BY DEF w
  <2> HIDE DEF s
  <2> QED  BY <1>8, <1>11, <2>1, <2>2, ChangedGood
<1> HIDE DEF s
<1>13. v.rxnull /\ Late(v)  BY <1>8, <1>9 DEF Late
<1>14. Serves(s, u, c)
  <2>1. CASE u = s  BY <1>12, <1>13, <2>1 DEF Serves, Phase
  <2>2. CASE u \in SentCallback(s, c)
    <3>1. s.web[c].rxnull /\ Late(s.web[c])  BY <1>12, <1>13
    <3> QED  BY <1>12, <2>2, <3>1, SentCallbackGood
  <2> QED  BY <1>7, <2>1, <2>2
<1>15. Puts(Now, s, c, [w EXCEPT !.flight = k])  BY DEF Puts, s, v
<1>16. Acked(c, s, u)
  <2>1. /\ v.st # "free" /\ v.st = w.st /\ v.req = w.req /\ v.got = w.got /\ w.rxnull
    BY <1>8, <1>9, <1>10
  <2> QED  BY <1>7, <1>12, <1>13, <1>14, <1>15, <2>1 DEF Acked, w
<1> QED  BY <1>2, <1>3, <1>16

\* It leaves the connection as it has to be.
LEMMA AckKeeps ==
  ASSUME IInv, NEW c \in Conns, Ack(c)
  PROVE  IInv'
<1>1. PICK s, u : Acked(c, s, u) /\ Become(u) /\ cfg' = cfg  BY AckIs
<1> DEFINE v == s.web[c]
<1>2. /\ Serves(s, u, c) /\ v.st # "free" /\ v.req = web[c].req /\ v.got = web[c].got
      /\ \A d \in Conns : d # c => s.web[d] = web[d]
  BY <1>1 DEF Acked
<1>3. v.req \in cfg.reqs \cup {NewWeb.req} /\ v.got <= Whole(v.req)  BY <1>2, ConnIs DEF WebOk
<1> QED  BY <1>1, <1>2, <1>3, ServesKeeps

\* The connection ends.
LEMMA LoseKeeps ==
  ASSUME IInv, NEW c \in Conns, Lose(c)
  PROVE  IInv'
<1> DEFINE s == Now
           u == Gone(s, c)
<1>1. Become(u) /\ cfg' = cfg /\ web[c].st # "free"  BY DEF Lose
<1>2. Good(s) /\ s.web = web /\ WebOk(web[c])  BY ConnIs DEF IInv
<1> HIDE DEF s
<1>3. Good(u) /\ u.web[c] = NewWeb /\ \A d \in Conns : d # c => u.web[d] = s.web[d]
  BY <1>2, GoneGood
<1> HIDE DEF u
<1>4. Serves(s, u, c)  BY <1>3 DEF Serves
<1>5. /\ s.web[c].st # "free" /\ s.web[c].req \in cfg.reqs \cup {NewWeb.req}
      /\ s.web[c].got <= Whole(s.web[c].req)
  BY <1>1, <1>2 DEF WebOk
<1> QED  BY <1>1, <1>2, <1>4, <1>5, ServesKeeps

(***************************************************************************)
(* The theorems                                                            *)
(***************************************************************************)
\* The invariant is inductive: a callback leaves every connection as it has to be, whatever
\* pages there are and wherever they stop.
THEOREM Invariance ==
  ASSUME \A k \in Cfgs : Orderly(k)
  PROVE  Spec => []IInv
<1>1. Init => IInv  BY InitKeeps
<1>2. IInv /\ [Next]_vars => IInv'
  <2> SUFFICES ASSUME IInv, [Next]_vars  PROVE IInv'  OBVIOUS
  <2>1. CASE Next
    <3>1. PICK c \in Conns : Accept(c) \/ Segment(c) \/ Ack(c) \/ Lose(c)  BY <2>1 DEF Next
    <3>2. CASE Accept(c)  BY <3>2, AcceptKeeps
    <3>3. CASE Segment(c)  BY <3>3, SegmentKeeps
    <3>4. CASE Ack(c)  BY <3>4, AckKeeps
    <3>5. CASE Lose(c)  BY <3>5, LoseKeeps
    <3> QED  BY <3>1, <3>2, <3>3, <3>4, <3>5
  <2>2. CASE UNCHANGED vars
    <3>1. cfg' = cfg /\ fs' = fs /\ web' = web  BY <2>2 DEF vars
    <3>2. Now' = Now  BY <3>1 DEF Now
    <3>3. \A c \in Conns : (WebOk(web[c]))' <=> WebOk(web[c])
      BY <3>1 DEF WebOk, Phase, Late, Early, Whole
    <3> QED  BY <3>1, <3>2, <3>3 DEF IInv
  <2> QED  BY <2>1, <2>2
<1> QED  BY <1>1, <1>2, PTL DEF Spec

\* The state has its type: a connection has four files at most, and never more in flight
\* than the send buffer takes, whatever is sent while the rest is acknowledged.
THEOREM TypeCorrect ==
  ASSUME \A k \in Cfgs : Orderly(k)
  PROVE  Spec => []TypeOK
<1>1. IInv => TypeOK
  <2> SUFFICES ASSUME IInv  PROVE TypeOK  OBVIOUS
  <2>1. cfg \in Cfgs /\ fs \in FileSystem
    <3>1. Good(Now) /\ Now.fs = fs  BY DEF IInv, Now
    <3>2. Now \in States  BY <3>1 DEF Good
    <3> QED  BY <3>1, <3>2 DEF IInv, States
  <2>2. ASSUME NEW c \in Conns
        PROVE  LET w == web[c]
               IN  /\ w.st \in {"free", "idle", "open"}
                   /\ w.req \in cfg.reqs \cup {NewWeb.req}
                   /\ w.flags \subseteq Flags
                   /\ w.files \in Seq((1 .. MaxOpen - 1) \cup {Builtin}) /\ Len(w.files) <= Depth
                   /\ w.flight \in 0 .. SndBuf
                   /\ w.got \in 0 .. Whole(w.req)
                   /\ w.len \in Nat /\ w.length \in Nat
                   /\ {w.rxnull, w.txnull, w.bye, w.ended, w.cut} \subseteq BOOLEAN
                   /\ w.mode \in {"none", "length", "chunked", "close", "cut"}
                   /\ w.page \in DOMAIN Pages \cup {NoPage}
    <3> DEFINE w == web[c]
    <3>1. w \in Web /\ Fit(w) /\ WebOk(w)  BY ConnIs
    <3>2. Whole(w.req) \in Nat
      <4>1. Good(Now) /\ Now.web = web  BY DEF IInv, Now
      <4>2. Whole(Now.web[c].req) \in Nat  BY <4>1, RequestIs
      <4> QED  BY <4>1, <4>2
    <3> HIDE DEF w
    <3>3. /\ w.st \in {"free", "idle", "open"} /\ w.flags \subseteq Flags
          /\ w.files \in Seq(Handles) /\ w.got \in Nat /\ w.len \in Nat /\ w.flight \in Nat
          /\ w.rxnull \in BOOLEAN /\ w.txnull \in BOOLEAN /\ w.bye \in BOOLEAN
          /\ w.page \in Names /\ w.mode \in {"none", "length", "chunked", "close", "cut"}
          /\ w.length \in Nat /\ w.ended \in BOOLEAN /\ w.cut \in BOOLEAN
      BY <3>1, WebIs
    <3>4. Len(w.files) <= Depth /\ w.flight \in 0 .. SndBuf  BY <3>1, <3>3, Constants DEF Fit
    <3>5. w.req \in cfg.reqs \cup {NewWeb.req} /\ w.got \in 0 .. Whole(w.req)
      BY <3>1, <3>2, <3>3 DEF WebOk
    <3> QED  BY <3>3, <3>4, <3>5 DEF Handles, Names, w
  <2> QED  BY <2>1, <2>2 DEF TypeOK
<1> QED  BY <1>1, Invariance, PTL

\* Every open handle has exactly one owner, whatever is included, refused, pushed out, ended
\* early or lost.
THEOREM HandlesOwned ==
  ASSUME \A k \in Cfgs : Orderly(k)
  PROVE  Spec => []Owned
<1>1. IInv => Owned
  <2> SUFFICES ASSUME IInv, NEW h \in 1 .. MaxOpen
               PROVE  LET X == {x \in Conns \X (1 .. Depth) :
                                  x[2] \in Held(x[1]) /\ web[x[1]].files[x[2]] = h}
                      IN  Cardinality(X) = (IF fs.table[h] = Shut THEN 0 ELSE 1)
    BY DEF Owned
  <2> DEFINE X == {x \in Conns \X (1 .. Depth) :
                     x[2] \in Held(x[1]) /\ web[x[1]].files[x[2]] = h}
  <2>1. Owning(Now) /\ Now.web = web /\ Now.fs = fs  BY ConnIs DEF IInv, Good, Now
  <2>2. h # Builtin  BY Constants DEF Builtin
  <2>3. \A d \in Conns : web[d].files \in Seq(Handles) /\ Len(web[d].files) <= Depth
                         /\ Len(web[d].files) \in Nat
    <3> TAKE d \in Conns
    <3>1. web[d] \in Web /\ Fit(web[d])  BY ConnIs
    <3>2. web[d].files \in Seq(Handles)  BY <3>1, WebIs
    <3> QED  BY <3>1, <3>2, LenProperties DEF Fit
  <2>4. \A d \in Conns : \A i : i \in Held(d) /\ web[d].files[i] = h
                            <=> i \in 1 .. Len(web[d].files) /\ web[d].files[i] = h
    <3> TAKE d \in Conns
    <3> TAKE i
    <3>1. DOMAIN web[d].files = 1 .. Len(web[d].files)  BY <2>3, LenProperties
    <3> QED  BY <2>2, <3>1 DEF Held
  <2>5. \A x : x \in X <=> /\ x \in Conns \X (1 .. Depth)
                           /\ x[2] \in 1 .. Len(web[x[1]].files) /\ web[x[1]].files[x[2]] = h
    BY <2>4
  <2>6. CASE fs.table[h] = Shut
    <3>1. \A d \in Conns : ~Holding(web[d].files, h)  BY <2>1, <2>6 DEF Owning
    <3>2. X = {}  BY <2>5, <3>1 DEF Holding
    <3> HIDE DEF X
    <3>3. Cardinality(X) = 0  BY <3>2, FS_EmptySet
    <3> QED  BY <2>6, <3>3 DEF X
  <2>7. CASE fs.table[h] # Shut
    <3>1. PICK d \in Conns : Holding(web[d].files, h)  BY <2>1, <2>7 DEF Owning
    <3>2. PICK i \in 1 .. Len(web[d].files) : web[d].files[i] = h  BY <3>1 DEF Holding
    <3>3. <<d, i>> \in X
      <4>1. i \in 1 .. Depth  BY <2>3, <3>2 DEF Depth
      <4> QED  BY <2>5, <3>2, <4>1
    <3>4. \A x \in X : x = <<d, i>>
      <4> TAKE x \in X
      <4> HIDE DEF X
      <4>1. /\ x \in Conns \X (1 .. Depth) /\ x[1] \in Conns
            /\ x[2] \in 1 .. Len(web[x[1]].files) /\ web[x[1]].files[x[2]] = h
        BY <2>5
      <4>2. Holding(web[x[1]].files, h)  BY <4>1 DEF Holding
      <4>3. x[1] = d  BY <2>1, <3>1, <4>1, <4>2 DEF Owning
      <4>4. Distinct(web[d].files)  BY <2>1 DEF Owning
      <4>5. x[2] = i  BY <2>2, <3>2, <4>1, <4>3, <4>4 DEF Distinct
      <4> QED  BY <4>1, <4>3, <4>5
    <3> HIDE DEF X
    <3>5. X = {<<d, i>>}  BY <3>3, <3>4
    <3>6. Cardinality(X) = 1  BY <3>5, FS_Singleton
    <3> QED  BY <2>7, <3>6 DEF X
  <2> QED  BY <2>6, <2>7
<1> QED  BY <1>1, Invariance, PTL

\* A protected page is sent to nobody whose credentials differ from the password as far as
\* they go, in whatever pieces the request came.  CheckAuthorization compares no further.
THEOREM PagesGuarded ==
  ASSUME \A k \in Cfgs : Orderly(k)
  PROVE  Spec => []Guarded
<1>1. IInv => Guarded
  <2> SUFFICES ASSUME IInv, NEW c \in Conns, web[c].page \in Protected, web[c].body # <<>>
               PROVE  Agrees(web[c].req)
    BY DEF Guarded
  <2>1. WebOk(web[c])  BY ConnIs
  <2> QED  BY <2>1 DEF WebOk, Phase, Late, Early
<1> QED  BY <1>1, Invariance, PTL
=============================================================================
