-------------------------- MODULE TcpSrvConnProofs --------------------------
(***************************************************************************)
(* Theorems about the TCP connection manager: its list and its count agree *)
(* with its connections, callbacks get the connection they belong to, the  *)
(* application hears of each begin and each end, no connection is dead and *)
(* clients go on trying; for any number of connections and pcbs.           *)
(*                                                                         *)
(* A callback goes through several functions, each of which takes a state  *)
(* to a state.  The invariant is a property Good(s) of such a state; while *)
(* a connection loses its pcb the state is Loose(s, c), good but for c.    *)
(***************************************************************************)
EXTENDS TcpSrvConn, SequenceTheorems, TLAPS

(***************************************************************************)
(* The inductive invariant, as a property of a state s of the functions.   *)
(***************************************************************************)
\* An eternal client for which there is always a pcb
Eternal == cfg.client /\ cfg.reconnect /\ "tcp_new" \notin cfg.faults

State == [conn : [Conns -> ConnRec], pcb : [Pcbs -> PcbRec],
          links : Seq(Conns), count : Int, up : [Conns -> Int]]

Open == {"LISTEN", "CONNECT"}

In(q, d) == \E i \in 1 .. Len(q) : q[i] = d

Once(q) == \A i, j \in 1 .. Len(q) : q[i] = q[j] => i = j

\* conn_links has each allocated connection once, conn_count counts them.
Lists(s) == /\ \A c \in Conns : In(s.links, c) <=> s.conn[c].st # "free"
            /\ Once(s.links)
            /\ s.count = Len(s.links)
            /\ ~cfg.client => s.count <= cfg.max

\* A connection and its pcb: the pcb is as the state of the connection says and will
\* poll it; it reports errors unless the connection is being closed.
ConnOk(s, c) ==
  LET k == s.conn[c]
      r == s.pcb[k.pcb]
  IN  /\ k.st \in Open \cup {"CLOSEWAIT"} => k.pcb # None
      /\ k.st = "free" => k.pcb = None
      /\ k.timer => k.st = "CLIENT" /\ k.pcb = None
      /\ k.st = "CLOSEWAIT" => "close" \in cfg.faults
      /\ k.st = "CLIENT" => cfg.client
      /\ k.st = "CLIENT" /\ Eternal => k.timer \/ k.pcb # None
      /\ k.pcb # None =>
           /\ r.arg = c /\ r.poll
           /\ r.st \in (IF k.st = "CLIENT" THEN {"syn"} ELSE Unclosed)
           /\ r.err <=> k.st # "CLOSEWAIT"
           /\ r.data <=> k.st \in Open

\* A pcb with callbacks and its connection
PcbOk(s, p) ==
  LET r == s.pcb[p]
  IN  /\ r.poll => r.arg # None
      /\ (r.data \/ r.err \/ r.st = "syn") => r.arg # None /\ s.conn[r.arg].pcb = p

\* By how much the calls of func_listen outnumber those of func_discon_cb for a
\* connection in state st
Calls(st) == IF st \in Open \cup {"CLOSEWAIT"}
             THEN {1}
             ELSE IF st = "free" /\ cfg.client THEN {-1, 0} ELSE {0}

Rung(s) == \A c \in Conns : s.up[c] \in Calls(s.conn[c].st)

Good(s) == /\ s \in State /\ Lists(s) /\ Rung(s)
           /\ \A c \in Conns : ConnOk(s, c)
           /\ \A p \in Pcbs : PcbOk(s, p)

IInv == cfg \in Cfgs /\ running \in BOOLEAN /\ Good(Now)
(***************************************************************************)
(* The list of connections.                                                *)
(***************************************************************************)
\* A connection is taken off the list (tcpsrv_list_delete).
LEMMA UnlinkIs ==
  ASSUME NEW q \in Seq(Conns), Once(q), NEW i \in 1 .. Len(q)
  PROVE  /\ Unlink(q, i) \in Seq(Conns) /\ Len(Unlink(q, i)) = Len(q) - 1
         /\ Once(Unlink(q, i))
         /\ \A d \in Conns : In(Unlink(q, i), d) <=> In(q, d) /\ d # q[i]
<1> DEFINE n == Len(q) - 1
           r == Unlink(q, i)
<1>1. Len(q) \in Nat /\ n \in Nat /\ \A j \in 1 .. Len(q) : q[j] \in Conns
  BY LenProperties, ElementOfSeq
<1>2. r = [j \in 1 .. n |-> IF j < i THEN q[j] ELSE q[j + 1]]  BY DEF Unlink
<1>3. \A j \in 1 .. n : j \in 1 .. Len(q) /\ j + 1 \in 1 .. Len(q)  BY <1>1
<1> HIDE DEF r
<1>4. r \in [1 .. n -> Conns]  BY <1>1, <1>2, <1>3
<1>5. r \in Seq(Conns)
  <2> HIDE DEF n
  <2> QED  BY <1>1, <1>4, SeqDef
<1>6. Len(r) = n
  <2>1. Len(r) \in Nat /\ DOMAIN r = 1 .. Len(r)  BY <1>5, LenProperties
  <2>2. DOMAIN r = 1 .. n  BY <1>4
  <2> QED  BY <1>1, <2>1, <2>2
<1>7. \A j \in 1 .. n : r[j] = q[IF j < i THEN j ELSE j + 1]  BY <1>2
<1>8. Once(r)
  <2> SUFFICES ASSUME NEW j \in 1 .. n, NEW k \in 1 .. n, r[j] = r[k]  PROVE j = k
    BY <1>6 DEF Once
  <2> DEFINE a == IF j < i THEN j ELSE j + 1
             b == IF k < i THEN k ELSE k + 1
  <2>1. a \in 1 .. Len(q) /\ b \in 1 .. Len(q)  BY <1>3
  <2>2. q[a] = q[b]  BY <1>7
  <2>3. a = b  BY <2>1, <2>2 DEF Once
  <2> QED  BY <1>1, <2>3
<1>9. ASSUME NEW d \in Conns  PROVE In(r, d) <=> In(q, d) /\ d # q[i]
  <2>1. ASSUME In(r, d)  PROVE In(q, d) /\ d # q[i]
    <3>1. PICK j \in 1 .. n : r[j] = d  BY <1>6, <2>1 DEF In
    <3> DEFINE a == IF j < i THEN j ELSE j + 1
    <3>2. a \in 1 .. Len(q) /\ a # i  BY <1>1, <1>3
    <3>3. q[a] = d  BY <1>7, <3>1
    <3> QED  BY <3>2, <3>3 DEF In, Once
  <2>2. ASSUME In(q, d), d # q[i]  PROVE In(r, d)
    <3>1. PICK a \in 1 .. Len(q) : q[a] = d  BY <2>2 DEF In
    <3> DEFINE j == IF a < i THEN a ELSE a - 1
    <3>2. a # i  BY <2>2, <3>1
    <3>3. j \in 1 .. n /\ (IF j < i THEN j ELSE j + 1) = a  BY <1>1, <3>2
    <3>4. r[j] = d  BY <1>7, <3>1, <3>3
    <3> QED  BY <1>6, <3>3, <3>4 DEF In
  <2> QED  BY <2>1, <2>2
<1> QED  BY <1>5, <1>6, <1>8, <1>9 DEF r

\* A connection is put at the head of the list.
LEMMA PushIs ==
  ASSUME NEW q \in Seq(Conns), Once(q), NEW c \in Conns, ~In(q, c)
  PROVE  /\ <<c>> \o q \in Seq(Conns) /\ Len(<<c>> \o q) = Len(q) + 1
         /\ Once(<<c>> \o q)
         /\ \A d \in Conns : In(<<c>> \o q, d) <=> In(q, d) \/ d = c
<1> DEFINE r == <<c>> \o q
<1>1. r \in Seq(Conns) /\ Len(r) = Len(q) + 1 /\ Len(q) \in Nat
  BY ConcatProperties, LenProperties
<1>2. \A i \in 1 .. Len(r) : r[i] = IF i = 1 THEN c ELSE q[i - 1]
  BY <1>1, ConcatProperties
<1> HIDE DEF r
<1>3. \A i \in 1 .. Len(r) : i # 1 => i - 1 \in 1 .. Len(q)  BY <1>1
<1>4. \A i \in 1 .. Len(q) : q[i] # c  BY DEF In
<1>5. Once(r)
  <2> SUFFICES ASSUME NEW i \in 1 .. Len(r), NEW j \in 1 .. Len(r), r[i] = r[j]  PROVE i = j
    BY DEF Once
  <2>1. (i = 1) <=> (j = 1)  BY <1>2, <1>3, <1>4
  <2>2. CASE i # 1
    <3>1. i - 1 \in 1 .. Len(q) /\ j - 1 \in 1 .. Len(q) /\ q[i - 1] = q[j - 1]
      BY <1>2, <1>3, <2>1, <2>2
    <3>2. i - 1 = j - 1  BY <3>1 DEF Once
    <3> QED  BY <3>2
  <2> QED  BY <2>1, <2>2
<1>6. ASSUME NEW d \in Conns  PROVE In(r, d) <=> In(q, d) \/ d = c
  <2>1. In(r, d) => In(q, d) \/ d = c  BY <1>2, <1>3 DEF In
  <2>2. 1 \in 1 .. Len(r) /\ r[1] = c  BY <1>1, <1>2
  <2>3. \A i \in 1 .. Len(q) : i + 1 \in 1 .. Len(r) /\ r[i + 1] = q[i]  BY <1>1, <1>2
  <2> QED  BY <2>1, <2>2, <2>3 DEF In
<1> QED  BY <1>1, <1>5, <1>6 DEF r

\* Listed looks at the list only.
LEMMA ListedIs ==
  ASSUME NEW s \in State, NEW c  PROVE Listed(s, c) <=> In(s.links, c)
<1>1. DOMAIN s.links = 1 .. Len(s.links)  BY LenProperties DEF State
<1> QED  BY <1>1 DEF Listed, In

(***************************************************************************)
(* What the functions do to a state.                                       *)
(***************************************************************************)
\* The settings are those of Config.
LEMMA CfgIs ==
  ASSUME cfg \in Cfgs
  PROVE  /\ cfg \in Config /\ cfg.max \in Nat
         /\ ~cfg.client => cfg.max > 0
  BY ConnAssumption DEF Config

\* A state with another record for connection c
LEMMA PutConn ==
  ASSUME NEW s \in State, NEW c \in Conns, NEW k \in ConnRec
  PROVE  LET t == [s EXCEPT !.conn[c] = k]
         IN  /\ t \in State
             /\ t.conn[c] = k /\ \A d \in Conns \ {c} : t.conn[d] = s.conn[d]
             /\ t.pcb = s.pcb /\ t.links = s.links /\ t.count = s.count /\ t.up = s.up
  BY DEF State

\* A state with another record for pcb p
LEMMA PutPcb ==
  ASSUME NEW s \in State, NEW p \in Pcbs, NEW r \in PcbRec
  PROVE  LET t == [s EXCEPT !.pcb[p] = r]
         IN  /\ t \in State
             /\ t.pcb[p] = r /\ \A q \in Pcbs \ {p} : t.pcb[q] = s.pcb[q]
             /\ t.conn = s.conn /\ t.links = s.links /\ t.count = s.count /\ t.up = s.up
  BY DEF State

\* The members of a state
LEMMA StateIs ==
  ASSUME NEW s \in State
  PROVE  /\ s.links \in Seq(Conns) /\ s.count \in Int /\ s.up \in [Conns -> Int]
         /\ s.conn \in [Conns -> ConnRec] /\ s.pcb \in [Pcbs -> PcbRec]
         /\ \A c \in Conns : s.conn[c] \in ConnRec
         /\ \A p \in Pcbs : s.pcb[p] \in PcbRec
  BY DEF State

\* Two states with the same members are the same.
LEMMA StateEqual ==
  ASSUME NEW s \in State, NEW t \in State,
         \A c \in Conns : t.conn[c] = s.conn[c], \A p \in Pcbs : t.pcb[p] = s.pcb[p],
         t.links = s.links, t.count = s.count, t.up = s.up
  PROVE  t = s
<1>1. s.conn = t.conn /\ s.pcb = t.pcb  BY StateIs
<1>2. /\ s = [conn |-> s.conn, pcb |-> s.pcb, links |-> s.links, count |-> s.count,
              up |-> s.up]
      /\ t = [conn |-> t.conn, pcb |-> t.pcb, links |-> t.links, count |-> t.count,
              up |-> t.up]
  BY DEF State
<1> QED  BY <1>1, <1>2

\* No more than connection c and pcb p have changed.
OnlyAt(s, t, c, p) == /\ \A d \in Conns \ {c} : t.conn[d] = s.conn[d]
                      /\ \A q \in Pcbs \ {p} : t.pcb[q] = s.pcb[q]

SameList(s, t) == t.links = s.links /\ t.count = s.count

\* find_tcp_pcb finds the pcb of a connection that is as it should be.
LEMMA FindPcbIs ==
  ASSUME NEW s \in State, NEW c \in Conns, ConnOk(s, c)
  PROVE  FindPcb(s, c) = s.conn[c].pcb
  BY DEF FindPcb, ConnOk, Unclosed

\* A pcb has one connection.
LEMMA OneOwner ==
  ASSUME NEW s, NEW c \in Conns, NEW d \in Conns, ConnOk(s, c), ConnOk(s, d),
         s.conn[c].pcb = s.conn[d].pcb, s.conn[c].pcb # None
  PROVE  c = d
  BY DEF ConnOk

\* When a connection and its pcb change, or a connection gets a free pcb, the others stay
\* as they should be.
LEMMA OthersOk ==
  ASSUME NEW s, Good(s), NEW t \in State, NEW c \in Conns, NEW p \in Pcbs \cup {None},
         OnlyAt(s, t, c, p), s.conn[c].pcb \in {p, None},
         s.conn[c].pcb = None /\ p # None => s.pcb[p].st = "free"
  PROVE  /\ \A d \in Conns \ {c} : ConnOk(t, d)
         /\ \A q \in Pcbs \ {p} : PcbOk(t, q)
         /\ \A q \in Pcbs \ {p} : (t.pcb[q].data \/ t.pcb[q].err \/ t.pcb[q].st = "syn") =>
                                     t.pcb[q].arg # c
<1>0. s \in State /\ (\A d \in Conns : ConnOk(s, d)) /\ (\A q \in Pcbs : PcbOk(s, q))
  BY DEF Good
<1>1. ASSUME NEW d \in Conns \ {c}  PROVE ConnOk(t, d)
  <2>1. t.conn[d] = s.conn[d] /\ ConnOk(s, d) /\ s.conn[d] \in ConnRec
    BY <1>0, StateIs DEF OnlyAt
  <2>2. CASE s.conn[d].pcb = None  BY <2>1, <2>2 DEF ConnOk
  <2>3. CASE s.conn[d].pcb # None
    <3>1. s.conn[d].pcb # p
      <4>1. CASE s.conn[c].pcb = p  BY <1>0, <2>3, <4>1, OneOwner
      <4>2. CASE s.conn[c].pcb = None /\ p # None
        <5>1. s.pcb[p].st = "free"  BY <4>2
        <5> QED  BY <2>1, <2>3, <5>1 DEF ConnOk, Unclosed
      <4> QED  BY <2>3, <4>1, <4>2
    <3>2. s.conn[d].pcb \in Pcbs  BY <2>1, <2>3 DEF ConnRec
    <3>3. t.pcb[s.conn[d].pcb] = s.pcb[s.conn[d].pcb]  BY <3>1, <3>2 DEF OnlyAt
    <3> QED  BY <2>1, <3>3 DEF ConnOk
  <2> QED  BY <2>2, <2>3
<1>2. ASSUME NEW q \in Pcbs \ {p}, s.pcb[q].data \/ s.pcb[q].err \/ s.pcb[q].st = "syn"
      PROVE  s.pcb[q].arg \in Conns \ {c} /\ s.conn[s.pcb[q].arg].pcb = q
  <2>1. PcbOk(s, q) /\ s.pcb[q] \in PcbRec  BY <1>0, StateIs
  <2>2. s.pcb[q].arg \in Conns /\ s.conn[s.pcb[q].arg].pcb = q  BY <1>2, <2>1 DEF PcbOk, PcbRec
  <2>3. q # None  BY ConnAssumption
  <2> QED  BY <2>2, <2>3
<1>3. ASSUME NEW q \in Pcbs \ {p}
      PROVE  /\ PcbOk(t, q)
             /\ (t.pcb[q].data \/ t.pcb[q].err \/ t.pcb[q].st = "syn") => t.pcb[q].arg # c
  <2>1. t.pcb[q] = s.pcb[q] /\ PcbOk(s, q)  BY <1>0 DEF OnlyAt
  <2>2. \A d \in Conns \ {c} : t.conn[d] = s.conn[d]  BY DEF OnlyAt
  <2> QED  BY <1>2, <2>1, <2>2 DEF PcbOk
<1> QED  BY <1>1, <1>3

(***************************************************************************)
(* A connection that loses its pcb.                                        *)
(***************************************************************************)
\* Good but for connection c, to which no callback leads
Loose(s, c) ==
  /\ s \in State /\ Lists(s)
  /\ s.conn[c].st # "free" /\ (s.conn[c].st = "CLIENT" => cfg.client)
  /\ \A d \in Conns \ {c} : ConnOk(s, d)
  /\ \A q \in Pcbs : PcbOk(s, q)
  /\ \A q \in Pcbs : (s.pcb[q].data \/ s.pcb[q].err \/ s.pcb[q].st = "syn") => s.pcb[q].arg # c
  /\ Rung(s)

\* Its pcb is quiet.
LEMMA LooseIf ==
  ASSUME NEW s, Good(s), NEW c \in Conns, NEW p \in Pcbs, s.conn[c].pcb = p,
         NEW t \in State, OnlyAt(s, t, c, p), SameList(s, t), t.up = s.up,
         t.conn[c].st # "free", t.conn[c].st = "CLIENT" <=> s.conn[c].st = "CLIENT",
         ~t.pcb[p].data, ~t.pcb[p].err, t.pcb[p].st # "syn",
         t.pcb[p].poll => t.pcb[p].arg # None
  PROVE  Loose(t, c)
<1>1. s.conn[c].st # "free"
  <2>1. p # None  BY ConnAssumption
  <2> QED  BY <2>1 DEF Good, ConnOk
<1>2. Lists(t)
  <2>1. \A d \in Conns : t.conn[d].st # "free" <=> s.conn[d].st # "free"
    BY <1>1 DEF OnlyAt
  <2> QED  BY <2>1 DEF Good, Lists, SameList
<1>3. p # None  BY ConnAssumption
<1>4. /\ \A d \in Conns \ {c} : ConnOk(t, d)
      /\ \A q \in Pcbs \ {p} : PcbOk(t, q)
      /\ \A q \in Pcbs \ {p} : (t.pcb[q].data \/ t.pcb[q].err \/ t.pcb[q].st = "syn") =>
                                  t.pcb[q].arg # c
  BY <1>3, OthersOk
<1>5. PcbOk(t, p)  BY DEF PcbOk
<1>6. t.conn[c].st = "CLIENT" => cfg.client  BY DEF Good, ConnOk
<1>7. Rung(t)
  <2>1. s.conn[c] \in ConnRec /\ t.conn[c] \in ConnRec  BY StateIs DEF Good
  <2>2. Calls(t.conn[c].st) = Calls(s.conn[c].st)
    BY <1>1, <2>1 DEF Calls, ConnRec, ConnStates, Open
  <2>3. \A d \in Conns \ {c} : t.conn[d] = s.conn[d]  BY DEF OnlyAt
  <2>4. \A d \in Conns : t.up[d] \in Calls(s.conn[d].st)  BY DEF Good, Rung
  <2> QED  BY <2>2, <2>3, <2>4 DEF Rung
<1> QED  BY <1>1, <1>2, <1>4, <1>5, <1>6, <1>7 DEF Loose

\* The connection is deleted (tcpsrv_list_delete).
LEMMA LooseDelete ==
  ASSUME cfg \in Cfgs, NEW c \in Conns, NEW s, Loose(s, c)
  PROVE  LET t == ListDelete(s, c)
         IN  /\ Good(t) /\ t.pcb = s.pcb /\ t.count = s.count - 1
             /\ t.conn[c].pcb = None /\ \A d \in Conns \ {c} : t.conn[d] = s.conn[d]
<1> DEFINE t == ListDelete(s, c)
           i == CHOOSE k \in DOMAIN s.links : s.links[k] = c
           l == Unlink(s.links, i)
<1>1. s \in State /\ Lists(s) /\ s.links \in Seq(Conns) /\ s.count \in Int
  BY StateIs DEF Loose
<1>2. Listed(s, c) /\ In(s.links, c)  BY <1>1, ListedIs DEF Loose, Lists
<1>3. i \in 1 .. Len(s.links) /\ s.links[i] = c
  <2>1. DOMAIN s.links = 1 .. Len(s.links)  BY <1>1, LenProperties
  <2>2. \E k \in DOMAIN s.links : s.links[k] = c  BY <1>2 DEF Listed
  <2> QED  BY <2>1, <2>2
<1> HIDE DEF i
<1>4. /\ l \in Seq(Conns) /\ Len(l) = Len(s.links) - 1 /\ Once(l)
      /\ \A d \in Conns : In(l, d) <=> In(s.links, d) /\ d # c
  BY <1>1, <1>3, UnlinkIs DEF Lists
<1>5. FreeConn \in ConnRec
  BY ConnAssumption DEF FreeConn, ConnRec, ConnStates
<1>6. t = [[s EXCEPT !.conn[c] = FreeConn] EXCEPT !.up = [s.up EXCEPT ![c] = @ - 1],
                                                  !.count = s.count - 1, !.links = l]
  BY <1>2 DEF ListDelete, i
<1>7. /\ t \in State
      /\ t.conn[c] = FreeConn /\ \A d \in Conns \ {c} : t.conn[d] = s.conn[d]
      /\ t.pcb = s.pcb /\ t.links = l /\ t.count = s.count - 1
      /\ t.up = [s.up EXCEPT ![c] = @ - 1]
  <2> DEFINE u == [s EXCEPT !.conn[c] = FreeConn]
  <2>1. /\ u \in State
        /\ u.conn[c] = FreeConn /\ \A d \in Conns \ {c} : u.conn[d] = s.conn[d]
        /\ u.pcb = s.pcb
    BY <1>1, <1>5, PutConn
  <2> DEFINE n == [s.up EXCEPT ![c] = @ - 1]
  <2>2. t = [u EXCEPT !.up = n, !.count = s.count - 1, !.links = l]  BY <1>6
  <2>3. n \in [Conns -> Int]  BY <1>1 DEF State
  <2>4. s.count - 1 \in Int  BY <1>1
  <2> HIDE DEF u, l, t, n
  <2> QED  BY <1>4, <2>1, <2>2, <2>3, <2>4 DEF State, n
<1> HIDE DEF t, l
<1>8. Lists(t)
  <2>1. \A d \in Conns : In(l, d) <=> t.conn[d].st # "free"
    BY <1>1, <1>4, <1>7 DEF Lists, FreeConn
  <2>2. t.count = Len(l)  BY <1>1, <1>4, <1>7 DEF Lists
  <2>3. ~cfg.client => t.count <= cfg.max  BY <1>1, <1>7, CfgIs DEF Lists
  <2> QED  BY <1>4, <1>7, <2>1, <2>2, <2>3 DEF Lists
<1>9. Rung(t)
  <2>1. s.up \in [Conns -> Int] /\ s.conn[c] \in ConnRec  BY <1>1, StateIs
  <2>2. t.up[c] = s.up[c] - 1 /\ \A d \in Conns \ {c} : t.up[d] = s.up[d]
    BY <1>7, <2>1
  <2>3. /\ s.up[c] \in Calls(s.conn[c].st) /\ s.conn[c].st # "free"
        /\ s.conn[c].st = "CLIENT" => cfg.client
        /\ \A d \in Conns : s.up[d] \in Calls(s.conn[d].st)
    BY DEF Loose, Rung
  <2>4. t.up[c] \in Calls("free")
    BY <2>1, <2>2, <2>3 DEF Calls, ConnRec, ConnStates, Open
  <2>5. t.conn[c].st = "free"  BY <1>7 DEF FreeConn
  <2> QED  BY <1>7, <2>2, <2>3, <2>4, <2>5 DEF Rung
<1>10. \A d \in Conns : ConnOk(t, d)
  BY <1>7 DEF Loose, ConnOk, FreeConn, Open
<1>11. \A q \in Pcbs : PcbOk(t, q)
  <2> TAKE q \in Pcbs
  <2>1. s.pcb[q] \in PcbRec /\ PcbOk(s, q)  BY <1>1, StateIs DEF Loose
  <2>2. (s.pcb[q].data \/ s.pcb[q].err \/ s.pcb[q].st = "syn") => s.pcb[q].arg \in Conns \ {c}
    BY <2>1 DEF Loose, PcbOk, PcbRec
  <2> QED  BY <1>7, <2>1, <2>2 DEF PcbOk
<1> QED  BY <1>7, <1>8, <1>9, <1>10, <1>11 DEF Good, FreeConn, t

\* The same of an allocated connection
Due(s, c) == IF s.conn[c].st = "CLIENT" THEN 0 ELSE 1

\* The application was told what is due.
LEMMA CallsOf ==
  ASSUME NEW s \in State, Rung(s), NEW c \in Conns, s.conn[c].st # "free"
  PROVE  s.up[c] = Due(s, c)
<1>1. s.conn[c] \in ConnRec /\ s.up[c] \in Calls(s.conn[c].st)  BY StateIs DEF Rung
<1> QED  BY <1>1 DEF Calls, Due, ConnRec, ConnStates, Open

\* A connection that is closed, or gives up, waits for its timer.
LEMMA Waits ==
  ASSUME NEW c \in Conns, NEW s, Loose(s, c), NEW t \in State, SameList(s, t), cfg.client,
         \A q \in Pcbs : t.pcb[q] = s.pcb[q],
         \A d \in Conns \ {c} : t.conn[d] = s.conn[d], t.up = [s.up EXCEPT ![c] = 0],
         t.conn[c].st = "CLIENT", t.conn[c].pcb = None, t.conn[c].timer
  PROVE  Good(t)
<1>1. Lists(t)  BY DEF Loose, Lists, SameList
<1>2. Rung(t)
  <2>1. s.up \in [Conns -> Int]  BY StateIs DEF Loose
  <2>2. t.up[c] = 0 /\ \A d \in Conns \ {c} : t.up[d] = s.up[d]  BY <2>1
  <2>3. t.up[c] \in Calls("CLIENT")  BY <2>2 DEF Calls, Open
  <2> QED  BY <2>2, <2>3 DEF Loose, Rung
<1>3. \A d \in Conns : ConnOk(t, d)
  <2>1. ConnOk(t, c)  BY DEF ConnOk, Open
  <2>2. ASSUME NEW d \in Conns \ {c}  PROVE ConnOk(t, d)
    <3>1. s.conn[d] \in ConnRec /\ ConnOk(s, d) /\ t.conn[d] = s.conn[d]
      BY StateIs DEF Loose
    <3>2. s.conn[d].pcb # None => t.pcb[s.conn[d].pcb] = s.pcb[s.conn[d].pcb]
      BY <3>1 DEF ConnRec
    <3> QED  BY <3>1, <3>2 DEF ConnOk
  <2> QED  BY <2>1, <2>2
<1>4. \A q \in Pcbs : PcbOk(t, q)
  <2> TAKE q \in Pcbs
  <2>1. s.pcb[q] \in PcbRec /\ PcbOk(s, q)  BY StateIs DEF Loose
  <2>2. (s.pcb[q].data \/ s.pcb[q].err \/ s.pcb[q].st = "syn") => s.pcb[q].arg \in Conns \ {c}
    BY <2>1 DEF Loose, PcbOk, PcbRec
  <2> QED  BY <2>1, <2>2 DEF PcbOk
<1> QED  BY <1>1, <1>2, <1>3, <1>4 DEF Good

\* tcpsrv_client_reconnect: the connection waits for its timer; its pcb is dropped unless
\* the disconnect callback has cleared the way to it.
LEMMA ReconnectIs ==
  ASSUME NEW s \in State, NEW c \in Conns,
         s.up[c] = Due(s, c)
  PROVE  LET t == Reconnect(s, c)
             p == s.conn[c].pcb
         IN  /\ t \in State /\ SameList(s, t) /\ t.up = [s.up EXCEPT ![c] = 0]
             /\ \A d \in Conns \ {c} : t.conn[d] = s.conn[d]
             /\ t.conn[c].st = "CLIENT" /\ t.conn[c].pcb = None /\ t.conn[c].timer
             /\ \A q \in Pcbs \ {p} : t.pcb[q] = s.pcb[q]
             /\ p # None => \/ t.pcb[p] = FreePcb
                            \/ /\ t.pcb[p] = s.pcb[p]
                               /\ \/ s.conn[c].st # "CLIENT" /\ cfg.clears
                                  \/ FindPcb(s, c) = None
<1> DEFINE t == Reconnect(s, c)
           p == s.conn[c].pcb
           k == [s.conn[c] EXCEPT !.st = "CLIENT",
                                  !.pcb = IF cfg.clears THEN None ELSE p]
           told == IF s.conn[c].st = "CLIENT"
                   THEN s
                   ELSE [s EXCEPT !.up[c] = @ - 1,
                                  !.conn[c].st = "CLIENT",
                                  !.conn[c].pcb = IF cfg.clears THEN None ELSE @]
           f == FindPcb(told, c)
           left == IF f = None THEN told ELSE Abandon(told, f)
           a == [left.conn[c] EXCEPT !.pcb = None, !.timer = TRUE]
<1>1. s.conn[c] \in ConnRec /\ p \in Pcbs \cup {None}  BY StateIs DEF ConnRec
<1>2. /\ told \in State /\ told.pcb = s.pcb /\ SameList(s, told)
      /\ told.up = [s.up EXCEPT ![c] = 0]
      /\ \A d \in Conns \ {c} : told.conn[d] = s.conn[d]
      /\ told.conn[c].st = "CLIENT"
      /\ told.conn[c].pcb = IF s.conn[c].st # "CLIENT" /\ cfg.clears THEN None ELSE p
  <2>1. CASE s.conn[c].st = "CLIENT"
    <3>1. s.up = [s.up EXCEPT ![c] = 0]  BY <2>1, StateIs DEF Due
    <3> QED  BY <1>1, <2>1, <3>1 DEF SameList
  <2>2. CASE s.conn[c].st # "CLIENT"
    <3> DEFINE u == [s EXCEPT !.conn[c] = k]
    <3>1. k \in ConnRec /\ k.st = "CLIENT" /\ k.pcb = IF cfg.clears THEN None ELSE p
      BY <1>1 DEF ConnRec, ConnStates
    <3>2. told = [u EXCEPT !.up = [s.up EXCEPT ![c] = 0]]
      <4>1. told = [u EXCEPT !.up = [s.up EXCEPT ![c] = s.up[c] - 1]]
        BY <1>1, <2>2 DEF State, ConnRec
      <4>2. s.up[c] - 1 = 0  BY <2>2 DEF Due
      <4> QED  BY <4>1, <4>2
    <3> HIDE DEF k, told
    <3>3. /\ u \in State
          /\ u.conn[c] = k /\ \A d \in Conns \ {c} : u.conn[d] = s.conn[d]
          /\ u.pcb = s.pcb /\ SameList(s, u)
      BY <1>1, <3>1, PutConn DEF SameList
    <3>4. [s.up EXCEPT ![c] = 0] \in [Conns -> Int]  BY <1>1 DEF State
    <3> HIDE DEF u
    <3> QED  BY <2>2, <3>1, <3>2, <3>3, <3>4 DEF State, SameList
  <2> QED  BY <2>1, <2>2
<1>3. t = [left EXCEPT !.conn[c].pcb = None, !.conn[c].timer = TRUE]
  BY DEF Reconnect
<1> HIDE DEF told
<1>4. f = IF s.conn[c].st # "CLIENT" /\ cfg.clears THEN None ELSE FindPcb(s, c)
  BY <1>2 DEF FindPcb
<1>5. f \in {None, p}  BY <1>2, <1>4 DEF FindPcb
<1> HIDE DEF f
<1>6. /\ left \in State /\ left.conn = told.conn /\ SameList(told, left) /\ left.up = told.up
      /\ \A q \in Pcbs \ {p} : left.pcb[q] = told.pcb[q]
      /\ p # None => \/ left.pcb[p] = FreePcb
                     \/ left.pcb[p] = s.pcb[p] /\ f = None
  <2>1. CASE f = None  BY <1>2, <2>1 DEF SameList
  <2>2. CASE f # None
    <3>1. f = p /\ p \in Pcbs  BY <1>1, <1>5, <2>2
    <3>2. FreePcb \in PcbRec  BY DEF FreePcb, PcbRec, PcbStates
    <3>3. left = [told EXCEPT !.pcb[p] = FreePcb]  BY <2>2, <3>1 DEF Abandon
    <3> HIDE DEF left, p
    <3> QED  BY <1>2, <3>1, <3>2, <3>3, PutPcb DEF SameList
  <2> QED  BY <2>1, <2>2
<1> HIDE DEF left
<1>7. left.conn[c] \in ConnRec  BY <1>6, StateIs
<1>8. a \in ConnRec /\ a.st = "CLIENT" /\ a.pcb = None /\ a.timer
  BY <1>2, <1>6, <1>7 DEF ConnRec, ConnStates
<1>9. t = [left EXCEPT !.conn[c] = a]
  <2>1. [left EXCEPT !.conn[c].pcb = None, !.conn[c].timer = TRUE] = [left EXCEPT !.conn[c] = a]
    BY <1>6, <1>7 DEF State, ConnRec
  <2> QED  BY <1>3, <2>1
<1> HIDE DEF t, a
<1>10. /\ t \in State /\ t.conn[c] = a /\ \A d \in Conns \ {c} : t.conn[d] = left.conn[d]
       /\ t.pcb = left.pcb /\ SameList(left, t) /\ t.up = left.up
  BY <1>6, <1>8, <1>9, PutConn DEF SameList
<1> HIDE DEF p
<1>11. /\ t \in State /\ SameList(s, t) /\ t.up = [s.up EXCEPT ![c] = 0]
       /\ \A d \in Conns \ {c} : t.conn[d] = s.conn[d]
       /\ t.conn[c].st = "CLIENT" /\ t.conn[c].pcb = None /\ t.conn[c].timer
  BY <1>2, <1>6, <1>8, <1>10 DEF SameList
<1>12. \A q \in Pcbs \ {p} : t.pcb[q] = s.pcb[q]  BY <1>2, <1>6, <1>10
<1>13. p # None => \/ t.pcb[p] = FreePcb
                   \/ /\ t.pcb[p] = s.pcb[p]
                      /\ \/ s.conn[c].st # "CLIENT" /\ cfg.clears
                         \/ FindPcb(s, c) = None
  BY <1>4, <1>6, <1>10
<1> QED  BY <1>11, <1>12, <1>13 DEF t, p

\* tcpsrv_client_reconnect of a connection whose pcb is gone
LEMMA LooseReconnect ==
  ASSUME NEW c \in Conns, NEW s, Loose(s, c), s.conn[c].pcb = None, cfg.client
  PROVE  Good(Reconnect(s, c))
<1> DEFINE t == Reconnect(s, c)
<1>1. s \in State /\ s.up[c] = Due(s, c)
  BY CallsOf DEF Loose
<1>2. \A q \in Pcbs : q # None  BY ConnAssumption
<1>3. /\ t \in State /\ SameList(s, t) /\ t.up = [s.up EXCEPT ![c] = 0]
      /\ \A d \in Conns \ {c} : t.conn[d] = s.conn[d]
      /\ t.conn[c].st = "CLIENT" /\ t.conn[c].pcb = None /\ t.conn[c].timer
      /\ \A q \in Pcbs : t.pcb[q] = s.pcb[q]
  BY <1>1, <1>2, ReconnectIs
<1> HIDE DEF t
<1>4. Good(t)  BY <1>3, Waits
<1> QED  BY <1>4 DEF t

(***************************************************************************)
(* The functions that close a connection.                                  *)
(***************************************************************************)
\* A pcb without callbacks, and closed
LEMMA PcbIs ==
  ASSUME NEW r \in PcbRec, NEW o \in {"closing", "tw", "fails"}
  PROVE  /\ FreePcb \in PcbRec
         /\ Quiet(r) \in PcbRec /\ Quiet(r).st = r.st /\ Quiet(r).arg = r.arg
         /\ ~Quiet(r).data /\ ~Quiet(r).err /\ ~Quiet(r).poll
         /\ Closed(r, o) \in PcbRec /\ Closed(r, o).st # "syn"
         /\ \/ Closed(r, o) = FreePcb
            \/ /\ Closed(r, o).data = r.data /\ Closed(r, o).err = r.err
               /\ Closed(r, o).poll = r.poll /\ Closed(r, o).arg = r.arg
<1>1. FreePcb \in PcbRec  BY DEF FreePcb, PcbRec, PcbStates
<1>2. /\ Quiet(r) \in PcbRec /\ Quiet(r).st = r.st /\ Quiet(r).arg = r.arg
      /\ ~Quiet(r).data /\ ~Quiet(r).err /\ ~Quiet(r).poll
  BY DEF Quiet, PcbRec
<1>3. /\ Closed(r, o) \in PcbRec /\ Closed(r, o).st # "syn"
      /\ \/ Closed(r, o) = FreePcb
         \/ /\ Closed(r, o).data = r.data /\ Closed(r, o).err = r.err
            /\ Closed(r, o).poll = r.poll /\ Closed(r, o).arg = r.arg
  <2>1. CASE r.st = "syn"
    <3>1. Closed(r, o) = FreePcb  BY <2>1 DEF Closed, Unclosed
    <3> QED  BY <1>1, <3>1 DEF FreePcb
  <2>2. CASE r.st \in Unclosed /\ o # "fails"
    <3>1. Closed(r, o) = [r EXCEPT !.st = o]  BY <2>2 DEF Closed, Unclosed
    <3>2. o \in {"closing", "tw"}  BY <2>2
    <3> QED  BY <3>1, <3>2 DEF PcbRec, PcbStates
  <2>3. CASE r.st = "open" /\ o = "fails"
    <3>1. Closed(r, o) = [r EXCEPT !.st = "shut"]  BY <2>3 DEF Closed, Unclosed
    <3> QED  BY <3>1 DEF PcbRec, PcbStates
  <2>4. CASE /\ r.st # "syn" /\ ~(r.st \in Unclosed /\ o # "fails")
             /\ ~(r.st = "open" /\ o = "fails")
    <3>1. Closed(r, o) = r  BY <2>4 DEF Closed, Unclosed
    <3> QED  BY <2>4, <3>1
  <2> QED  BY <2>1, <2>2, <2>3, <2>4
<1> QED  BY <1>1, <1>2, <1>3

\* tcp_close finds no memory only if that may happen.
LEMMA OutcomesAre ==
  ASSUME NEW o \in Outcomes
  PROVE  o \in {"closing", "tw", "fails"} /\ (o = "fails" => "close" \in cfg.faults)
  BY DEF Outcomes

\* A connection without a pcb has no callbacks.
LEMMA LooseWithout ==
  ASSUME NEW s, Good(s), NEW c \in Conns, s.conn[c].st # "free", s.conn[c].pcb = None
  PROVE  Loose(s, c)
<1>1. \A q \in Pcbs : q # None  BY ConnAssumption
<1>2. \A q \in Pcbs : (s.pcb[q].data \/ s.pcb[q].err \/ s.pcb[q].st = "syn") => s.pcb[q].arg # c
  BY <1>1 DEF Good, PcbOk
<1> QED  BY <1>2 DEF Good, Loose, ConnOk

\* tcpsrv_disconnect_successful
LEMMA DisconnectedGood ==
  ASSUME cfg \in Cfgs, NEW c \in Conns, NEW s, Loose(s, c)
  PROVE  Good(Disconnected(s, c))
<1> DEFINE k == [s.conn[c] EXCEPT !.pcb = None]
           u == [s EXCEPT !.conn[c].pcb = None]
<1>1. s \in State /\ s.conn[c] \in ConnRec  BY StateIs DEF Loose
<1>2. k \in ConnRec /\ k.pcb = None /\ k.st = s.conn[c].st  BY <1>1 DEF ConnRec
<1>3. u = [s EXCEPT !.conn[c] = k]  OBVIOUS
<1>4. Disconnected(s, c) = IF cfg.client /\ cfg.reconnect THEN Reconnect(u, c) ELSE ListDelete(u, c)
  BY DEF Disconnected
<1> HIDE DEF k, u
<1>5. /\ u \in State /\ u.conn[c] = k /\ \A d \in Conns \ {c} : u.conn[d] = s.conn[d]
      /\ u.pcb = s.pcb /\ SameList(s, u) /\ u.up = s.up
  BY <1>1, <1>2, <1>3, PutConn DEF SameList
<1>6. Loose(u, c)
  <2>1. Lists(u)  BY <1>2, <1>5 DEF Loose, Lists, SameList
  <2>2. \A d \in Conns \ {c} : ConnOk(u, d)  BY <1>5 DEF Loose, ConnOk
  <2>3. \A q \in Pcbs : PcbOk(u, q)
    <3> TAKE q \in Pcbs
    <3>1. s.pcb[q] \in PcbRec /\ PcbOk(s, q)  BY <1>1, StateIs DEF Loose
    <3>2. (s.pcb[q].data \/ s.pcb[q].err \/ s.pcb[q].st = "syn") => s.pcb[q].arg \in Conns \ {c}
      BY <3>1 DEF Loose, PcbOk, PcbRec
    <3> QED  BY <1>5, <3>1, <3>2 DEF PcbOk
  <2>4. Rung(u)  BY <1>2, <1>5 DEF Loose, Rung
  <2> QED  BY <1>2, <1>5, <2>1, <2>2, <2>3, <2>4 DEF Loose
<1>7. u.conn[c].pcb = None  BY <1>2, <1>5
<1> QED  BY <1>4, <1>6, <1>7, LooseReconnect, LooseDelete

\* tcpsrv_server_close, its first part
LEMMA StartCloseIs ==
  ASSUME NEW s, Good(s), NEW c \in Conns, NEW p \in Pcbs, s.conn[c].pcb = p
  PROVE  LET t == StartClose(s, c)
         IN  /\ t \in State /\ OnlyAt(s, t, c, p) /\ SameList(s, t) /\ t.up = s.up
             /\ t.conn[c].st = "CLOSEWAIT" /\ t.conn[c].pcb = p /\ ~t.conn[c].timer
             /\ ~t.pcb[p].data /\ ~t.pcb[p].err /\ t.pcb[p].arg = c
             /\ t.pcb[p].st = s.pcb[p].st /\ t.pcb[p].st \in Unclosed \cup {"syn"}
<1> DEFINE t == StartClose(s, c)
           k == [s.conn[c] EXCEPT !.st = "CLOSEWAIT", !.check = 0]
           r == Quiet(s.pcb[p])
           u == [s EXCEPT !.conn[c] = k]
<1>1. /\ s \in State /\ s.conn[c] \in ConnRec /\ s.pcb[p] \in PcbRec /\ p # None
      /\ ConnOk(s, c)
  BY StateIs, ConnAssumption DEF Good
<1>2. /\ ~s.conn[c].timer /\ s.pcb[p].arg = c /\ s.pcb[p].st \in Unclosed \cup {"syn"}
      /\ s.conn[c].st = "CLOSEWAIT" => ~s.pcb[p].data /\ ~s.pcb[p].err
  BY <1>1 DEF ConnOk, Open, Unclosed
<1>3. CASE s.conn[c].st = "CLOSEWAIT"
  BY <1>1, <1>2, <1>3 DEF StartClose, OnlyAt, SameList
<1>4. CASE s.conn[c].st # "CLOSEWAIT"
  <2>1. 0 \in 0 .. MaxCheck  BY ConnAssumption
  <2>2. k \in ConnRec /\ k.st = "CLOSEWAIT" /\ k.pcb = p /\ ~k.timer
    BY <1>1, <1>2, <2>1 DEF ConnRec, ConnStates
  <2>3. r \in PcbRec /\ ~r.data /\ ~r.err /\ r.arg = c /\ r.st = s.pcb[p].st
    BY <1>1, <1>2, PcbIs
  <2>4. t = [s EXCEPT !.conn[c].st = "CLOSEWAIT", !.conn[c].check = 0,
                      !.pcb[p] = Quiet(@)]
    BY <1>4 DEF StartClose
  <2>5. t = [u EXCEPT !.pcb[p] = r]
    BY <1>1, <2>4 DEF State, ConnRec
  <2> HIDE DEF k, r, t
  <2>6. /\ u \in State /\ u.conn[c] = k /\ \A d \in Conns \ {c} : u.conn[d] = s.conn[d]
        /\ u.pcb = s.pcb /\ SameList(s, u) /\ u.up = s.up
    BY <1>1, <2>2, PutConn DEF SameList
  <2> HIDE DEF u
  <2>7. /\ t \in State /\ t.pcb[p] = r /\ \A q \in Pcbs \ {p} : t.pcb[q] = u.pcb[q]
        /\ t.conn = u.conn /\ SameList(u, t) /\ t.up = u.up
    BY <2>3, <2>5, <2>6, PutPcb DEF SameList
  <2> QED  BY <1>2, <2>2, <2>3, <2>6, <2>7 DEF OnlyAt, SameList, t
<1> QED  BY <1>3, <1>4

\* A connection that cannot be closed yet will be polled.
LEMMA StaysClosing ==
  ASSUME NEW s, Good(s), NEW c \in Conns, NEW p \in Pcbs, s.conn[c].pcb = p,
         s.pcb[p].st \in Unclosed, "close" \in cfg.faults
  PROVE  LET t == StartClose(s, c)
         IN  Good([t EXCEPT !.pcb[p] = [Closed(t.pcb[p], "fails") EXCEPT !.poll = TRUE]])
<1> DEFINE t == StartClose(s, c)
           x == Closed(t.pcb[p], "fails")
           r == [x EXCEPT !.poll = TRUE]
           u == [t EXCEPT !.pcb[p] = r]
<1>1. /\ t \in State /\ OnlyAt(s, t, c, p) /\ SameList(s, t) /\ t.up = s.up
      /\ t.conn[c].st = "CLOSEWAIT" /\ t.conn[c].pcb = p /\ ~t.conn[c].timer
      /\ ~t.pcb[p].data /\ ~t.pcb[p].err /\ t.pcb[p].arg = c
      /\ t.pcb[p].st = s.pcb[p].st /\ t.pcb[p].st \in Unclosed \cup {"syn"}
  BY StartCloseIs
<1> HIDE DEF t
<1>2. t.pcb[p] \in PcbRec  BY <1>1, StateIs
<1>3. /\ x \in PcbRec /\ ~x.data /\ ~x.err /\ x.arg = c /\ x.st \in Unclosed
  <2>1. CASE t.pcb[p].st = "open"
    <3>1. x = [t.pcb[p] EXCEPT !.st = "shut"]  BY <2>1 DEF Closed, Unclosed
    <3> QED  BY <1>1, <1>2, <3>1 DEF PcbRec, PcbStates, Unclosed
  <2>2. CASE t.pcb[p].st # "open"
    <3>1. x = t.pcb[p]  BY <1>1, <2>2 DEF Closed, Unclosed
    <3> QED  BY <1>1, <1>2, <3>1
  <2> QED  BY <2>1, <2>2
<1> HIDE DEF x
<1>4. r \in PcbRec /\ ~r.data /\ ~r.err /\ r.arg = c /\ r.poll /\ r.st \in Unclosed
  BY <1>3 DEF PcbRec
<1> HIDE DEF r, u
<1>5. /\ u \in State /\ u.pcb[p] = r /\ \A q \in Pcbs \ {p} : u.pcb[q] = t.pcb[q]
      /\ u.conn = t.conn /\ SameList(t, u) /\ u.up = t.up
  BY <1>1, <1>4, PutPcb DEF SameList, u
<1>6. p # None /\ c # None  BY ConnAssumption
<1>7. OnlyAt(s, u, c, p) /\ SameList(s, u) /\ u.up = s.up
  BY <1>1, <1>5 DEF OnlyAt, SameList
<1>8. s.conn[c].st \in Open \cup {"CLOSEWAIT"}
  <2>1. ConnOk(s, c) /\ s.conn[c] \in ConnRec  BY StateIs DEF Good
  <2> QED  BY <1>1, <1>6, <2>1 DEF ConnOk, ConnRec, ConnStates, Open, Unclosed
<1>9. Lists(u)  BY <1>1, <1>5, <1>7, <1>8 DEF Good, Lists, OnlyAt, SameList, Open
<1>10. Rung(u)
  <2>1. Calls(s.conn[c].st) = {1} /\ Calls(u.conn[c].st) = {1}
    BY <1>1, <1>5, <1>8 DEF Calls
  <2>2. \A d \in Conns \ {c} : u.conn[d] = s.conn[d]  BY <1>7 DEF OnlyAt
  <2>3. \A d \in Conns : u.up[d] \in Calls(s.conn[d].st)  BY <1>7 DEF Good, Rung
  <2> QED  BY <2>1, <2>2, <2>3 DEF Rung
<1>11. ConnOk(u, c) /\ PcbOk(u, p)
  BY <1>1, <1>4, <1>5, <1>6 DEF ConnOk, PcbOk, Open, Unclosed
<1>12. /\ \A d \in Conns \ {c} : ConnOk(u, d)
       /\ \A q \in Pcbs \ {p} : PcbOk(u, q)
  BY <1>5, <1>6, <1>7, OthersOk
<1> QED  BY <1>5, <1>9, <1>10, <1>11, <1>12 DEF Good, u, r, x, t

\* tcpsrv_server_close
LEMMA ServerCloseGood ==
  ASSUME cfg \in Cfgs, NEW s, Good(s), NEW c \in Conns, NEW o \in Outcomes,
         s.conn[c].st # "CLIENT" \/ s.conn[c].pcb = None
  PROVE  Good(ServerClose(s, c, o))
<1> DEFINE p == s.conn[c].pcb
           t == StartClose(s, c)
           r == t.pcb[p]
<1>1. CASE p = None  BY <1>1 DEF ServerClose
<1>2. CASE p # None
  <2>1. p \in Pcbs  BY <1>2, StateIs DEF Good, ConnRec
  <2>2. /\ t \in State /\ OnlyAt(s, t, c, p) /\ SameList(s, t) /\ t.up = s.up
        /\ t.conn[c].st = "CLOSEWAIT"
        /\ ~r.data /\ ~r.err /\ r.arg = c
        /\ r.st = s.pcb[p].st /\ r.st \in Unclosed \cup {"syn"}
    BY <2>1, StartCloseIs
  <2>0. s.conn[c].st # "CLIENT"  BY <1>2
  <2> HIDE DEF t, p
  <2>3. r \in PcbRec /\ c # None  BY <2>1, <2>2, StateIs, ConnAssumption
  <2>4. ServerClose(s, c, o) = IF t.conn[c].check > MaxTries
                               THEN Disconnected(Abandon(t, p), c)
                               ELSE IF Fails(r, o)
                               THEN [t EXCEPT !.pcb[p] = [Closed(r, o) EXCEPT !.poll = TRUE]]
                               ELSE Disconnected([t EXCEPT !.pcb[p] = Closed(r, o)], c)
    <3>1. r.st \notin {"free", "tw"}  BY <2>2 DEF Unclosed
    <3> QED  BY <1>2, <3>1 DEF ServerClose, t, p
  <2> HIDE DEF r
  <2>5. ASSUME NEW x \in PcbRec, ~x.data, ~x.err, x.st # "syn", x.poll => x.arg # None
        PROVE  Good(Disconnected([t EXCEPT !.pcb[p] = x], c))
    <3> DEFINE u == [t EXCEPT !.pcb[p] = x]
    <3>1. /\ u \in State /\ u.pcb[p] = x /\ \A q \in Pcbs \ {p} : u.pcb[q] = t.pcb[q]
          /\ u.conn = t.conn /\ SameList(t, u) /\ u.up = t.up
      BY <2>1, <2>2, PutPcb DEF SameList
    <3> HIDE DEF u
    <3>2. OnlyAt(s, u, c, p) /\ SameList(s, u) /\ u.up = s.up
      BY <2>2, <3>1 DEF OnlyAt, SameList
    <3>3. Loose(u, c)  BY <2>0, <2>1, <2>2, <2>5, <3>1, <3>2, LooseIf DEF p
    <3> QED  BY <3>3, DisconnectedGood DEF u
  <2>6. CASE t.conn[c].check > MaxTries
    <3>1. FreePcb \in PcbRec /\ ~FreePcb.data /\ ~FreePcb.err /\ FreePcb.st # "syn" /\ ~FreePcb.poll
      BY DEF FreePcb, PcbRec, PcbStates
    <3>2. Good(Disconnected(Abandon(t, p), c))  BY <2>5, <3>1 DEF Abandon
    <3> QED  BY <2>4, <2>6, <3>2
  <2>7. CASE ~(t.conn[c].check > MaxTries) /\ Fails(r, o)
    <3>1. o = "fails" /\ r.st \in Unclosed /\ "close" \in cfg.faults
      BY <2>7, OutcomesAre DEF Fails
    <3>2. Good([t EXCEPT !.pcb[p] = [Closed(t.pcb[p], "fails") EXCEPT !.poll = TRUE]])
      BY <2>1, <2>2, <3>1, StaysClosing DEF t, p
    <3> QED  BY <2>4, <2>7, <3>1, <3>2 DEF r
  <2>8. CASE ~(t.conn[c].check > MaxTries) /\ ~Fails(r, o)
    <3> DEFINE x == Closed(r, o)
    <3>1. x \in PcbRec /\ ~x.data /\ ~x.err /\ x.st # "syn" /\ (x.poll => x.arg # None)
      BY <2>2, <2>3, PcbIs, OutcomesAre DEF FreePcb
    <3> HIDE DEF x
    <3>2. Good(Disconnected([t EXCEPT !.pcb[p] = x], c))  BY <2>5, <3>1
    <3> QED  BY <2>4, <2>8, <3>2 DEF x
  <2> QED  BY <2>6, <2>7, <2>8
<1> QED  BY <1>1, <1>2

\* tcpsrv_disconnect
LEMMA DisconnectGood ==
  ASSUME cfg \in Cfgs, NEW s, Good(s), NEW c \in Conns, NEW o \in Outcomes,
         s.conn[c].st \in Open
  PROVE  Good(Disconnect(s, c, o))
<1>1. CASE s.conn[c].st = "CLOSEWAIT"  BY <1>1 DEF Disconnect
<1>2. CASE s.conn[c].st # "CLOSEWAIT"
  <2>1. s \in State /\ s.conn[c] \in ConnRec /\ FindPcb(s, c) = s.conn[c].pcb
    BY StateIs, FindPcbIs DEF Good
  <2>2. [s EXCEPT !.conn[c].pcb = s.conn[c].pcb] = s
    <3> DEFINE u == [s EXCEPT !.conn[c] = s.conn[c]]
    <3>1. [s EXCEPT !.conn[c].pcb = s.conn[c].pcb] = u
      BY <2>1 DEF ConnRec
    <3>2. /\ u \in State /\ u.conn[c] = s.conn[c]
          /\ \A d \in Conns \ {c} : u.conn[d] = s.conn[d]
          /\ u.pcb = s.pcb /\ u.links = s.links /\ u.count = s.count /\ u.up = s.up
      BY <2>1, PutConn
    <3> HIDE DEF u
    <3>3. u = s  BY <2>1, <3>2, StateEqual
    <3> QED  BY <3>1, <3>3
  <2>3. Disconnect(s, c, o) = ServerClose(s, c, o)
    BY <1>2, <2>1, <2>2 DEF Disconnect
  <2> QED  BY <2>3, ServerCloseGood DEF Open
<1> QED  BY <1>1, <1>2

\* tspsrv_delete_pcb: the pcb loses its callbacks and is closed, the connection deleted.
LEMMA DeletePcbGood ==
  ASSUME cfg \in Cfgs, NEW s, Good(s), NEW c \in Conns, s.conn[c].st # "free",
         NEW o \in Outcomes
  PROVE  Good(DeletePcb(s, c, o)) /\ DeletePcb(s, c, o).count = s.count - 1
<1> DEFINE p == s.conn[c].pcb
           q == [Quiet(s.pcb[p]) EXCEPT !.arg = None]
           x == Closed(q, o)
           u == [s EXCEPT !.pcb[p] = x]
<1>1. s \in State /\ s.conn[c] \in ConnRec /\ FindPcb(s, c) = p
  BY StateIs, FindPcbIs DEF Good
<1>2. DeletePcb(s, c, o) = ListDelete(IF p = None THEN s ELSE u, c)
  BY <1>1 DEF DeletePcb
<1>3. CASE p = None  BY <1>2, <1>3, LooseWithout, LooseDelete
<1>4. CASE p # None
  <2>1. p \in Pcbs /\ s.pcb[p] \in PcbRec  BY <1>1, <1>4, StateIs DEF ConnRec
  <2>2. q \in PcbRec /\ ~q.data /\ ~q.err /\ ~q.poll
    <3>1. Quiet(s.pcb[p]) \in PcbRec /\ ~Quiet(s.pcb[p]).data /\ ~Quiet(s.pcb[p]).err
          /\ ~Quiet(s.pcb[p]).poll
      BY <2>1, PcbIs, OutcomesAre
    <3> QED  BY <3>1 DEF PcbRec
  <2> HIDE DEF q
  <2>3. x \in PcbRec /\ ~x.data /\ ~x.err /\ x.st # "syn" /\ ~x.poll
    BY <2>2, PcbIs, OutcomesAre DEF FreePcb
  <2> HIDE DEF x, p
  <2>4. /\ u \in State /\ u.pcb[p] = x /\ \A a \in Pcbs \ {p} : u.pcb[a] = s.pcb[a]
        /\ u.conn = s.conn /\ SameList(s, u) /\ u.up = s.up
    BY <1>1, <2>1, <2>3, PutPcb DEF SameList
  <2> HIDE DEF u
  <2>5. OnlyAt(s, u, c, p)  BY <2>4 DEF OnlyAt
  <2>6. Loose(u, c)  BY <2>1, <2>3, <2>4, <2>5, LooseIf DEF p
  <2> QED  BY <1>2, <1>4, <2>4, <2>6, LooseDelete DEF SameList
<1> QED  BY <1>3, <1>4

(***************************************************************************)
(* The functions that lwIP and the timers call.                            *)
(***************************************************************************)
\* A connection hears something, or counts.
LEMMA SameKind ==
  ASSUME NEW s, Good(s), NEW c \in Conns, NEW k \in ConnRec,
         k.st = s.conn[c].st \/ (k.st \in Open /\ s.conn[c].st \in Open),
         k.pcb = s.conn[c].pcb, k.timer = s.conn[c].timer
  PROVE  LET t == [s EXCEPT !.conn[c] = k]
         IN  /\ Good(t) /\ t.conn[c] = k /\ t.pcb = s.pcb /\ t.links = s.links
             /\ t.count = s.count /\ t.up = s.up
             /\ \A d \in Conns \ {c} : t.conn[d] = s.conn[d]
<1> DEFINE t == [s EXCEPT !.conn[c] = k]
<1>1. /\ t \in State /\ t.conn[c] = k /\ \A d \in Conns \ {c} : t.conn[d] = s.conn[d]
      /\ t.pcb = s.pcb /\ t.links = s.links /\ t.count = s.count /\ t.up = s.up
  BY PutConn DEF Good
<1> HIDE DEF t
<1>2. Lists(t)
  <2>1. \A d \in Conns : t.conn[d].st # "free" <=> s.conn[d].st # "free"
    BY <1>1 DEF Open
  <2> QED  BY <1>1, <2>1 DEF Good, Lists
<1>3. Rung(t)
  <2>1. Calls(k.st) = Calls(s.conn[c].st)  BY DEF Calls
  <2> QED  BY <1>1, <2>1 DEF Good, Rung
<1>4. \A d \in Conns : ConnOk(t, d)
  <2>1. ConnOk(t, c)  BY <1>1 DEF Good, ConnOk, Open
  <2>2. \A d \in Conns \ {c} : ConnOk(t, d)  BY <1>1 DEF Good, ConnOk
  <2> QED  BY <2>1, <2>2
<1>5. \A q \in Pcbs : PcbOk(t, q)
  <2> TAKE q \in Pcbs
  <2>1. s.pcb[q] \in PcbRec /\ PcbOk(s, q)  BY StateIs DEF Good
  <2>2. \A d \in Conns : t.conn[d].pcb = s.conn[d].pcb  BY <1>1
  <2> QED  BY <1>1, <2>1, <2>2 DEF PcbOk, PcbRec
<1> QED  BY <1>1, <1>2, <1>3, <1>4, <1>5 DEF Good, t

\* recv_check stays within its bound.
LEMMA CountIs == ASSUME NEW n \in 0 .. MaxCheck  PROVE Count(n) \in 0 .. MaxCheck
  BY ConnAssumption DEF Count

\* recv_check is counted up.
LEMMA CountGood ==
  ASSUME NEW s, Good(s), NEW c \in Conns
  PROVE  LET t == [s EXCEPT !.conn[c].check = Count(@)]
         IN  /\ Good(t) /\ t.pcb = s.pcb /\ t.links = s.links /\ t.count = s.count
             /\ t.up = s.up /\ \A d \in Conns \ {c} : t.conn[d] = s.conn[d]
             /\ t.conn[c].st = s.conn[c].st /\ t.conn[c].pcb = s.conn[c].pcb
<1> DEFINE k == [s.conn[c] EXCEPT !.check = Count(s.conn[c].check)]
<1>1. s.conn[c] \in ConnRec  BY StateIs DEF Good
<1>2. Count(s.conn[c].check) \in 0 .. MaxCheck  BY <1>1, CountIs DEF ConnRec
<1>3. k \in ConnRec /\ k.st = s.conn[c].st /\ k.pcb = s.conn[c].pcb /\ k.timer = s.conn[c].timer
  BY <1>1, <1>2 DEF ConnRec
<1>4. [s EXCEPT !.conn[c].check = Count(@)] = [s EXCEPT !.conn[c] = k]  OBVIOUS
<1> HIDE DEF k
<1> QED  BY <1>3, <1>4, SameKind

\* tcp_abandon of the pcb of a connection
LEMMA AbandonLoose ==
  ASSUME NEW s, Good(s), NEW c \in Conns, NEW p \in Pcbs, s.conn[c].pcb = p
  PROVE  LET t == Abandon(s, p)
         IN  /\ Loose(t, c) /\ t.pcb[p] = FreePcb
             /\ \A q \in Pcbs \ {p} : t.pcb[q] = s.pcb[q]
             /\ t.conn = s.conn /\ t.links = s.links /\ t.count = s.count /\ t.up = s.up
<1> DEFINE t == Abandon(s, p)
<1>1. FreePcb \in PcbRec /\ ~FreePcb.data /\ ~FreePcb.err /\ FreePcb.st # "syn" /\ ~FreePcb.poll
  BY DEF FreePcb, PcbRec, PcbStates
<1>2. /\ t \in State /\ t.pcb[p] = FreePcb /\ \A q \in Pcbs \ {p} : t.pcb[q] = s.pcb[q]
      /\ t.conn = s.conn /\ t.links = s.links /\ t.count = s.count /\ t.up = s.up
  BY <1>1, PutPcb DEF Good, Abandon
<1>3. s.conn[c].st # "free"
  <2>1. p # None  BY ConnAssumption
  <2> QED  BY <2>1 DEF Good, ConnOk
<1> HIDE DEF t
<1>4. OnlyAt(s, t, c, p) /\ SameList(s, t)  BY <1>2 DEF OnlyAt, SameList
<1>5. Loose(t, c)  BY <1>1, <1>2, <1>3, <1>4, LooseIf
<1> QED  BY <1>2, <1>5 DEF t

\* A connection that waits for its timer, its pcb dropped
LEMMA GivesUp ==
  ASSUME NEW s, Good(s), NEW c \in Conns, NEW p \in Pcbs, s.conn[c].pcb = p,
         NEW t \in State, SameList(s, t), t.up = [s.up EXCEPT ![c] = 0],
         OnlyAt(s, t, c, p), cfg.client,
         t.conn[c].st = "CLIENT", t.conn[c].pcb = None, t.conn[c].timer, t.pcb[p] = FreePcb
  PROVE  Good(t)
<1> DEFINE u == Abandon(s, p)
<1>1. /\ Loose(u, c) /\ u.pcb[p] = FreePcb
      /\ \A q \in Pcbs \ {p} : u.pcb[q] = s.pcb[q]
      /\ u.conn = s.conn /\ u.links = s.links /\ u.count = s.count /\ u.up = s.up
  BY AbandonLoose
<1> HIDE DEF u
<1>2. \A q \in Pcbs : t.pcb[q] = u.pcb[q]  BY <1>1 DEF OnlyAt
<1>3. SameList(u, t) /\ t.up = [u.up EXCEPT ![c] = 0] /\ \A d \in Conns \ {c} : t.conn[d] = u.conn[d]
  BY <1>1 DEF OnlyAt, SameList
<1> HIDE DEF u
<1> QED  BY <1>1, <1>2, <1>3, Waits

\* tcpsrv_client_reconnect, called by tcpsrv_poll
LEMMA ReconnectGood ==
  ASSUME NEW s, Good(s), NEW c \in Conns, NEW p \in Pcbs, s.conn[c].pcb = p,
         s.conn[c].st = "CLIENT" \/ ~cfg.clears, cfg.client
  PROVE  Good(Reconnect(s, c))
<1>0. p # None /\ s.conn[c].st # "free"  BY ConnAssumption DEF Good, ConnOk
<1>1. /\ s \in State /\ p # None /\ FindPcb(s, c) = p
      /\ s.up[c] = Due(s, c)
  BY <1>0, FindPcbIs, CallsOf DEF Good
<1> DEFINE t == Reconnect(s, c)
<1>2. /\ t \in State /\ SameList(s, t) /\ t.up = [s.up EXCEPT ![c] = 0]
      /\ \A d \in Conns \ {c} : t.conn[d] = s.conn[d]
      /\ t.conn[c].st = "CLIENT" /\ t.conn[c].pcb = None /\ t.conn[c].timer
      /\ \A q \in Pcbs \ {p} : t.pcb[q] = s.pcb[q]
      /\ t.pcb[p] = FreePcb
  BY <1>1, ReconnectIs
<1> HIDE DEF t
<1>3. OnlyAt(s, t, c, p)  BY <1>2 DEF OnlyAt
<1>4. Good(t)  BY <1>2, <1>3, GivesUp
<1> QED  BY <1>4 DEF t

\* lwIP gives up a pcb, through tcpsrv_error if that is set.
LEMMA LosePcbGood ==
  ASSUME cfg \in Cfgs, NEW s, Good(s), NEW p \in Pcbs,
         s.pcb[p].err \/ \A c \in Conns : s.conn[c].pcb # p
  PROVE  LET t == LosePcb(s, p)
         IN  /\ Good(t)
             /\ s.pcb[p].err => t.conn[s.pcb[p].arg].pcb = None
<1> DEFINE c == s.pcb[p].arg
           t == LosePcb(s, p)
<1>1. s \in State /\ s.pcb[p] \in PcbRec /\ PcbOk(s, p) /\ FreePcb \in PcbRec /\ p # None
  BY StateIs, ConnAssumption DEF Good, FreePcb, PcbRec, PcbStates
<1>2. CASE ~s.pcb[p].err
  <2>1. t = [s EXCEPT !.pcb[p] = FreePcb]  BY <1>2 DEF LosePcb, Abandon
  <2>2. /\ t \in State /\ t.pcb[p] = FreePcb /\ \A q \in Pcbs \ {p} : t.pcb[q] = s.pcb[q]
        /\ t.conn = s.conn /\ t.links = s.links /\ t.count = s.count /\ t.up = s.up
    BY <1>1, <2>1, PutPcb
  <2> HIDE DEF t
  <2>3. \A d \in Conns : ConnOk(t, d)
    <3> TAKE d \in Conns
    <3>1. ConnOk(s, d) /\ s.conn[d] \in ConnRec /\ s.conn[d].pcb # p
      BY <1>1, <1>2, StateIs DEF Good
    <3>2. s.conn[d].pcb # None => t.pcb[s.conn[d].pcb] = s.pcb[s.conn[d].pcb]
      BY <2>2, <3>1 DEF ConnRec
    <3> QED  BY <2>2, <3>1, <3>2 DEF ConnOk
  <2>4. \A q \in Pcbs : PcbOk(t, q)  BY <2>2 DEF Good, PcbOk, FreePcb
  <2> QED  BY <1>2, <2>2, <2>3, <2>4 DEF Good, Lists, Rung, t
<1>3. CASE s.pcb[p].err
  <2>1. c \in Conns /\ s.conn[c].pcb = p  BY <1>1, <1>3 DEF PcbOk, PcbRec
  <2> DEFINE e == ErrorCallback(s, c)
             s1 == [s EXCEPT !.conn[c].check = Count(@)]
             u == Abandon(s, p)
  <2>2. t = Abandon(e, p)  BY <1>3 DEF LosePcb
  <2> HIDE DEF c, t
  <2>3. ConnOk(s, c)  BY <2>1 DEF Good
  <2>4. s.conn[c].st # "CLOSEWAIT"  BY <1>1, <1>3, <2>1, <2>3 DEF ConnOk
  <2>5. (e = Reconnect(s1, c) /\ cfg.client) \/ e = ListDelete(s, c)
    BY <1>1, <2>1, <2>4 DEF ErrorCallback
  <2>6. CASE e = Reconnect(s1, c) /\ cfg.client
    <3>1. /\ Good(s1) /\ s1.conn[c].pcb = p /\ s1.pcb = s.pcb
      BY <2>1, CountGood
    <3> HIDE DEF s1
    <3>2. s1 \in State /\ s1.up[c] = Due(s1, c)
      <4>1. s1.conn[c].st # "free"  BY <1>1, <2>1, <3>1 DEF Good, ConnOk
      <4> QED  BY <2>1, <3>1, <4>1, CallsOf DEF Good
    <3>3. /\ e \in State /\ SameList(s1, e) /\ e.up = [s1.up EXCEPT ![c] = 0]
          /\ \A d \in Conns \ {c} : e.conn[d] = s1.conn[d]
          /\ e.conn[c].st = "CLIENT" /\ e.conn[c].pcb = None /\ e.conn[c].timer
          /\ \A q \in Pcbs \ {p} : e.pcb[q] = s1.pcb[q]
      BY <2>1, <2>6, <3>1, <3>2, ReconnectIs
    <3> HIDE DEF e
    <3>4. /\ t \in State /\ t.pcb[p] = FreePcb /\ \A q \in Pcbs \ {p} : t.pcb[q] = e.pcb[q]
          /\ t.conn = e.conn /\ t.links = e.links /\ t.count = e.count /\ t.up = e.up
      BY <1>1, <2>2, <3>3, PutPcb DEF Abandon
    <3>5. OnlyAt(s1, t, c, p) /\ SameList(s1, t)  BY <3>3, <3>4 DEF OnlyAt, SameList
    <3>6. Good(t)  BY <2>1, <2>6, <3>1, <3>3, <3>4, <3>5, GivesUp
    <3> QED  BY <3>3, <3>4, <3>6 DEF c, t
  <2>7. CASE e = ListDelete(s, c)
    <3>1. /\ Loose(u, c) /\ u.pcb[p] = FreePcb
          /\ \A q \in Pcbs \ {p} : u.pcb[q] = s.pcb[q]
          /\ u.conn = s.conn /\ u.links = s.links /\ u.count = s.count /\ u.up = s.up
      BY <2>1, AbandonLoose
    <3>2. t = ListDelete(u, c)
      <4> DEFINE U == [s.up EXCEPT ![c] = s.up[c] - 1]
                 n == s.count - 1
                 l == Unlink(s.links, CHOOSE i \in DOMAIN s.links : s.links[i] = c)
      <4>1. u \in State /\ Listed(u, c)
        BY <2>1, <3>1, ListedIs DEF Loose, Lists
      <4>2. Listed(s, c)  BY <3>1, <4>1 DEF Listed
      <4>3. e = [s EXCEPT !.up = U, !.conn[c] = FreeConn, !.count = n, !.links = l]
        BY <2>7, <4>2 DEF ListDelete
      <4>4. ListDelete(u, c) = [u EXCEPT !.up = U, !.conn[c] = FreeConn, !.count = n, !.links = l]
        BY <3>1, <4>1 DEF ListDelete
      <4>5. u = [s EXCEPT !.pcb[p] = FreePcb]  BY DEF Abandon
      <4>6. t = [e EXCEPT !.pcb[p] = FreePcb]  BY <2>2 DEF Abandon
      <4> HIDE DEF u, e, U, n, l
      <4> QED  BY <1>1, <4>3, <4>4, <4>5, <4>6 DEF State
    <3> HIDE DEF u
    <3>3. Good(t) /\ t.conn[c].pcb = None  BY <2>1, <3>1, <3>2, LooseDelete
    <3> QED  BY <3>3 DEF c, t
  <2> QED  BY <2>5, <2>6, <2>7
<1> QED  BY <1>2, <1>3

\* tcpsrv_poll
LEMMA PollGood ==
  ASSUME cfg \in Cfgs, Benign, NEW s, Good(s), NEW p \in Pcbs, NEW c \in Conns,
         NEW o \in Outcomes
  PROVE  Good(PollCallback(s, p, c, o))
<1> DEFINE q == s.conn[c].pcb
           t == [s EXCEPT !.conn[c].check = Count(@)]
           u == PollCallback(s, p, c, o)
<1>1. CASE q = None \/ s.conn[c].st = "CLOSEWAIT"
  <2>1. s.conn[c].st # "CLIENT" \/ s.conn[c].pcb = None  BY <1>1
  <2> QED  BY <1>1, <2>1, ServerCloseGood DEF PollCallback
<1>2. CASE q # None /\ s.conn[c].st # "CLOSEWAIT"
  <2>1. q \in Pcbs /\ s.conn[c] \in ConnRec
    BY <1>2, StateIs DEF Good, ConnRec
  <2>2. Good(t) /\ t.conn[c].st = s.conn[c].st /\ t.conn[c].pcb = q  BY CountGood
  <2>3. \/ u = t
        \/ u = Reconnect(t, c) /\ (s.conn[c].st = "CLIENT" \/ (cfg.client /\ Expired(t, c)))
        \/ u = ServerClose(t, c, o) /\ s.conn[c].st # "CLIENT"
    <3>1. Expired(t, c) => s.conn[c].st # "CLIENT"  BY <2>2 DEF Expired
    <3> HIDE DEF t
    <3> QED  BY <1>2, <3>1 DEF PollCallback, t
  <2>0. s.conn[c].st = "CLIENT" => cfg.client  BY DEF Good, ConnOk
  <2> HIDE DEF t, u
  <2>4. ASSUME u = Reconnect(t, c), s.conn[c].st = "CLIENT" \/ (cfg.client /\ Expired(t, c))
        PROVE  Good(u)
    <3>1. cfg.client /\ Expired(t, c) => ~cfg.clears
      <4>1. cfg.client /\ cfg.clears => cfg.rec = 0 /\ cfg.cls = 0  BY DEF Benign
      <4>2. Expired(t, c) => cfg.rec > 0 \/ cfg.cls > 0  BY DEF Expired
      <4> QED  BY <4>1, <4>2
    <3>2. t.conn[c].st = "CLIENT" \/ ~cfg.clears  BY <2>2, <2>4, <3>1
    <3> HIDE DEF q
    <3> QED  BY <2>0, <2>1, <2>2, <2>4, <3>2, ReconnectGood
  <2>5. ASSUME u = ServerClose(t, c, o), s.conn[c].st # "CLIENT"  PROVE Good(u)
    BY <2>2, <2>5, ServerCloseGood
  <2> QED  BY <2>2, <2>3, <2>4, <2>5 DEF u
<1> QED  BY <1>1, <1>2

\* What tcpsrv_client_connect comes to for a connection that has no pcb
LEMMA AttemptsAre ==
  ASSUME NEW s \in State, NEW c \in Conns, s.conn[c].pcb = None, NEW fault,
         NEW a \in Attempts(s, c, fault)
  PROVE  \/ "tcp_new" \in cfg.faults /\ a = [s EXCEPT !.conn[c].pcb = None]
         \/ \E p \in Pcbs : /\ s.pcb[p].st = "free"
                            /\ \/ a = Connect(s, c, p)
                               \/ /\ fault \in cfg.faults
                                  /\ a = [LosePcb(Connect(s, c, p), p) EXCEPT
                                            !.conn[c].pcb = None]
<1>1. FindPcb(s, c) = None  BY DEF FindPcb
<1> DEFINE free == {p \in Pcbs : s.pcb[p].st = "free"}
<1>2. a \in {Connect(s, c, p) : p \in free}
            \cup {[u EXCEPT !.conn[c].pcb = None] :
                    u \in (IF "tcp_new" \in cfg.faults THEN {s} ELSE {})
                          \cup (IF fault \in cfg.faults
                                THEN {LosePcb(Connect(s, c, p), p) : p \in free}
                                ELSE {})}
  BY <1>1 DEF Attempts
<1>3. CASE a \in {Connect(s, c, p) : p \in free}  BY <1>3
<1>4. CASE a \in {[u EXCEPT !.conn[c].pcb = None] :
                    u \in (IF "tcp_new" \in cfg.faults THEN {s} ELSE {})
                          \cup (IF fault \in cfg.faults
                                THEN {LosePcb(Connect(s, c, p), p) : p \in free}
                                ELSE {})}
  <2>1. PICK u \in (IF "tcp_new" \in cfg.faults THEN {s} ELSE {})
                   \cup (IF fault \in cfg.faults
                         THEN {LosePcb(Connect(s, c, p), p) : p \in free}
                         ELSE {}) : a = [u EXCEPT !.conn[c].pcb = None]
    BY <1>4
  <2>2. CASE "tcp_new" \in cfg.faults /\ u = s  BY <2>1, <2>2
  <2>3. CASE fault \in cfg.faults /\ u \in {LosePcb(Connect(s, c, p), p) : p \in free}
    <3>1. PICK p \in free : u = LosePcb(Connect(s, c, p), p)  BY <2>3
    <3> QED  BY <2>1, <2>3, <3>1
  <2> QED  BY <2>1, <2>2, <2>3
<1> QED  BY <1>2, <1>3, <1>4

\* A pcb that is being connected
SynPcb(c) == [st |-> "syn", arg |-> c, data |-> FALSE, err |-> TRUE, poll |-> TRUE]

\* tcpsrv_client_connect with a new pcb: no more than the connection and the pcb change.
LEMMA ConnectIs ==
  ASSUME NEW s \in State, NEW c \in Conns, NEW p \in Pcbs
  PROVE  LET t == Connect(s, c, p)
         IN  /\ t \in State /\ OnlyAt(s, t, c, p) /\ SameList(s, t) /\ t.up = s.up
             /\ t.conn[c].st = "CLIENT" /\ t.conn[c].pcb = p
             /\ t.conn[c].timer = s.conn[c].timer
             /\ t.pcb[p] = SynPcb(c)
<1> DEFINE t == Connect(s, c, p)
           k == [s.conn[c] EXCEPT !.st = "CLIENT", !.pcb = p]
           r == SynPcb(c)
           u == [s EXCEPT !.conn[c] = k]
<1>1. s.conn[c] \in ConnRec  BY StateIs
<1>2. k \in ConnRec /\ k.st = "CLIENT" /\ k.pcb = p /\ k.timer = s.conn[c].timer
  BY <1>1 DEF ConnRec, ConnStates
<1>3. r \in PcbRec  BY DEF SynPcb, PcbRec, PcbStates
<1>4. t = [u EXCEPT !.pcb[p] = r]
  BY <1>1 DEF Connect, SynPcb, State, ConnRec
<1> HIDE DEF k, r, t
<1>5. /\ u \in State /\ u.conn[c] = k /\ \A d \in Conns \ {c} : u.conn[d] = s.conn[d]
      /\ u.pcb = s.pcb /\ SameList(s, u) /\ u.up = s.up
  BY <1>1, <1>2, PutConn DEF SameList
<1> HIDE DEF u
<1>6. /\ t \in State /\ t.pcb[p] = r /\ \A q \in Pcbs \ {p} : t.pcb[q] = u.pcb[q]
      /\ t.conn = u.conn /\ SameList(u, t) /\ t.up = u.up
  BY <1>3, <1>4, <1>5, PutPcb DEF SameList
<1> QED  BY <1>2, <1>5, <1>6 DEF OnlyAt, SameList, r, t

\* The application has been told of a client as often as not.
LEMMA ToldOfClient ==
  ASSUME NEW s, Good(s), NEW c \in Conns, NEW t, t.up = [s.up EXCEPT ![c] = 0],
         \A d \in Conns \ {c} : t.conn[d] = s.conn[d], cfg.client,
         t.conn[c].st \in {"free", "CLIENT"}
  PROVE  Rung(t)
<1>1. s.up \in [Conns -> Int] /\ Rung(s)  BY StateIs DEF Good
<1>2. t.up[c] = 0 /\ \A d \in Conns \ {c} : t.up[d] = s.up[d]  BY <1>1
<1>3. 0 \in Calls("free") /\ 0 \in Calls("CLIENT")  BY DEF Calls, Open
<1> QED  BY <1>1, <1>2, <1>3 DEF Rung

\* A client is connecting.
LEMMA ConnectGood ==
  ASSUME NEW s, Good(s), NEW c \in Conns, s.conn[c].pcb = None,
         s.conn[c].st \in {"free", "CLIENT"}, NEW p \in Pcbs, s.pcb[p].st = "free",
         NEW t \in State, OnlyAt(s, t, c, p), Lists(t), t.up = [s.up EXCEPT ![c] = 0],
         t.conn[c].st = "CLIENT", t.conn[c].pcb = p, ~t.conn[c].timer, t.pcb[p] = SynPcb(c),
         cfg.client
  PROVE  Good(t)
<1>1. p # None /\ c # None  BY ConnAssumption
<1>2. Rung(t)  BY ToldOfClient DEF OnlyAt
<1>3. ConnOk(t, c) /\ PcbOk(t, p)  BY <1>1 DEF ConnOk, PcbOk, SynPcb, Open
<1>4. /\ \A d \in Conns \ {c} : ConnOk(t, d)
      /\ \A q \in Pcbs \ {p} : PcbOk(t, q)
  BY <1>1, OthersOk
<1> QED  BY <1>2, <1>3, <1>4 DEF Good

\* The application has been told of a connection that was set up.
LEMMA ToldOfOpen ==
  ASSUME NEW s, Rung(s), s.up \in [Conns -> Int], NEW c \in Conns, NEW t,
         t.up = [s.up EXCEPT ![c] = 1],
         \A d \in Conns \ {c} : t.conn[d] = s.conn[d], t.conn[c].st \in Open
  PROVE  Rung(t)
<1>1. t.up[c] = 1 /\ \A d \in Conns \ {c} : t.up[d] = s.up[d]  OBVIOUS
<1>2. 1 \in Calls(t.conn[c].st)  BY DEF Calls
<1> QED  BY <1>1, <1>2 DEF Rung

\* tcpsrv_server_accept adds a connection.
LEMMA AddGood ==
  ASSUME cfg \in Cfgs, NEW s, Good(s), NEW c \in Conns, s.conn[c].st = "free",
         NEW p \in Pcbs, s.pcb[p].st = "free", s.count < cfg.max
  PROVE  LET t == Add(s, c, p)
         IN  Good(t) /\ t.pcb[p].st = "open" /\ t.pcb[p].err
<1> DEFINE t == Add(s, c, p)
           k == [st |-> "LISTEN", pcb |-> p, check |-> 0, timer |-> FALSE]
           r == [st |-> "open", arg |-> c, data |-> TRUE, err |-> TRUE, poll |-> TRUE]
           l == <<c>> \o s.links
           u == [s EXCEPT !.conn[c] = k]
           v == [u EXCEPT !.pcb[p] = r]
<1>1. /\ s \in State /\ s.links \in Seq(Conns) /\ s.count \in Int /\ s.up \in [Conns -> Int]
      /\ p # None /\ c # None /\ 0 \in 0 .. MaxCheck
  BY StateIs, ConnAssumption DEF Good
<1>2. k \in ConnRec /\ r \in PcbRec  BY <1>1 DEF ConnRec, ConnStates, PcbRec, PcbStates
<1>3. s.conn[c].pcb = None  BY DEF Good, ConnOk
<1>4. /\ l \in Seq(Conns) /\ Len(l) = Len(s.links) + 1 /\ Once(l)
      /\ \A d \in Conns : In(l, d) <=> In(s.links, d) \/ d = c
  <2>1. Once(s.links) /\ ~In(s.links, c)  BY DEF Good, Lists
  <2> QED  BY <1>1, <2>1, PushIs
<1>5. t = [v EXCEPT !.links = l, !.count = s.count + 1, !.up = [s.up EXCEPT ![c] = 1]]
  BY <1>1 DEF Add, State
<1>6. k.st = "LISTEN" /\ k.pcb = p /\ ~k.timer /\ r.arg = c /\ r.st = "open"
      /\ r.data /\ r.err /\ r.poll
  OBVIOUS
<1> HIDE DEF k, r, l, t
<1>7. /\ u \in State /\ u.conn[c] = k /\ \A d \in Conns \ {c} : u.conn[d] = s.conn[d]
      /\ u.pcb = s.pcb
  BY <1>1, <1>2, PutConn
<1> HIDE DEF u
<1>8. /\ v \in State /\ v.pcb[p] = r /\ \A q \in Pcbs \ {p} : v.pcb[q] = u.pcb[q]
      /\ v.conn = u.conn
  BY <1>2, <1>7, PutPcb
<1> HIDE DEF v
<1>9. /\ t \in State /\ t.conn = v.conn /\ t.pcb = v.pcb /\ t.links = l
      /\ t.count = s.count + 1 /\ t.up = [s.up EXCEPT ![c] = 1]
  <2>1. s.count + 1 \in Int /\ [s.up EXCEPT ![c] = 1] \in [Conns -> Int]  BY <1>1
  <2> QED  BY <1>4, <1>5, <1>8, <2>1 DEF State
<1>10. OnlyAt(s, t, c, p)  BY <1>7, <1>8, <1>9 DEF OnlyAt
<1>11. t.conn[c] = k /\ t.pcb[p] = r  BY <1>7, <1>8, <1>9
<1>12. Lists(t)
  <2>1. \A d \in Conns : In(l, d) <=> t.conn[d].st # "free"
    BY <1>4, <1>6, <1>10, <1>11 DEF Good, Lists, OnlyAt
  <2>2. t.count = Len(l)  BY <1>1, <1>4, <1>9 DEF Good, Lists
  <2>3. t.count <= cfg.max  BY <1>1, <1>9, CfgIs
  <2> QED  BY <1>4, <1>9, <2>1, <2>2, <2>3 DEF Lists
<1>13. Rung(t)
  <2>1. t.conn[c].st \in Open  BY <1>6, <1>11 DEF Open
  <2> QED  BY <1>1, <1>9, <1>10, <2>1, ToldOfOpen DEF Good, OnlyAt
<1>14. ConnOk(t, c) /\ PcbOk(t, p)
  BY <1>1, <1>6, <1>11 DEF ConnOk, PcbOk, Open, Unclosed
<1>15. /\ \A d \in Conns \ {c} : ConnOk(t, d)
       /\ \A q \in Pcbs \ {p} : PcbOk(t, q)
  BY <1>1, <1>3, <1>9, <1>10, OthersOk
<1> QED  BY <1>6, <1>9, <1>11, <1>12, <1>13, <1>14, <1>15 DEF Good, t

\* Pcbs in TIME_WAIT are nobody's: some are freed.
LEMMA TrimGood ==
  ASSUME NEW s, Good(s), NEW kill \in SUBSET Pcbs, \A p \in kill : s.pcb[p].st = "tw"
  PROVE  LET t == Trim(s, kill)
         IN  Good(t) /\ \A p \in Pcbs : s.pcb[p].st # "tw" => t.pcb[p] = s.pcb[p]
<1> DEFINE t == Trim(s, kill)
           f == [p \in Pcbs |-> IF p \in kill THEN FreePcb ELSE s.pcb[p]]
<1>1. s \in State /\ FreePcb \in PcbRec /\ \A p \in Pcbs : s.pcb[p] \in PcbRec
  BY StateIs DEF Good, FreePcb, PcbRec, PcbStates
<1>2. f \in [Pcbs -> PcbRec]  BY <1>1
<1>3. \A p \in Pcbs : f[p] = IF p \in kill THEN FreePcb ELSE s.pcb[p]  OBVIOUS
<1>4. t = [s EXCEPT !.pcb = f]  BY DEF Trim
<1> HIDE DEF f, t
<1>5. /\ t \in State /\ t.pcb = f /\ t.conn = s.conn /\ t.links = s.links
      /\ t.count = s.count /\ t.up = s.up
  BY <1>1, <1>2, <1>4 DEF State
<1>6. \A d \in Conns : ConnOk(t, d)
  <2> TAKE d \in Conns
  <2>1. ConnOk(s, d) /\ s.conn[d] \in ConnRec  BY <1>1, StateIs DEF Good
  <2>2. s.conn[d].pcb # None => s.conn[d].pcb \in Pcbs \ kill
    BY <2>1 DEF ConnOk, ConnRec, Unclosed
  <2>3. s.conn[d].pcb # None => t.pcb[s.conn[d].pcb] = s.pcb[s.conn[d].pcb]
    BY <1>3, <1>5, <2>2
  <2> QED  BY <1>5, <2>1, <2>3 DEF ConnOk
<1>7. \A q \in Pcbs : PcbOk(t, q)  BY <1>3, <1>5 DEF Good, PcbOk, FreePcb
<1>8. \A p \in Pcbs : s.pcb[p].st # "tw" => t.pcb[p] = s.pcb[p]  BY <1>3, <1>5
<1> QED  BY <1>5, <1>6, <1>7, <1>8 DEF Good, Lists, Rung, t

(***************************************************************************)
(* The steps.                                                              *)
(***************************************************************************)
\* The invariant of the next state
LEMMA NextIs ==
  ASSUME cfg \in Cfgs, UNCHANGED cfg, running' \in BOOLEAN, NEW t, Good(t),
         conn' = t.conn, pcb' = t.pcb, links' = t.links, count' = t.count, up' = t.up
  PROVE  IInv'
<1> DEFINE n == [conn |-> conn', pcb |-> pcb', links |-> links', count |-> count', up |-> up']
<1>1. t \in State  BY DEF Good
<1>2. n = t  BY <1>1 DEF State
<1>3. Now' = n  BY DEF Now
<1>4. Good(n)  BY <1>2
<1> HIDE DEF n
<1>5. Eternal' <=> Eternal  BY DEF Eternal
<1>6. Lists(Now)' /\ Rung(Now)'
  <2>1. \A st : Calls(st)' = Calls(st)  BY DEF Calls
  <2>2. Lists(Now)'  BY <1>3, <1>4 DEF Good, Lists
  <2>3. Rung(Now)'  BY <1>3, <1>4, <2>1 DEF Good, Rung
  <2> QED  BY <2>2, <2>3
<1>7. (\A c \in Conns : ConnOk(Now, c))'  BY <1>3, <1>4, <1>5 DEF Good, ConnOk
<1>8. (\A p \in Pcbs : PcbOk(Now, p))'  BY <1>3, <1>4 DEF Good, PcbOk
<1>9. (Now \in State)'  BY <1>3, <1>4 DEF Good
<1> QED  BY <1>6, <1>7, <1>8, <1>9 DEF IInv, Good

\* A step to a good state keeps the invariant.
LEMMA BecomeGood ==
  ASSUME cfg \in Cfgs, UNCHANGED cfg, running' \in BOOLEAN, NEW t, Good(t), Become(t)
  PROVE  IInv'
<1>1. conn' = t.conn /\ pcb' = t.pcb /\ links' = t.links /\ count' = t.count /\ up' = t.up
  BY DEF Become
<1> QED  BY <1>1, NextIs

\* Nothing is running.
LEMMA InitGood == Init => IInv
<1> SUFFICES ASSUME Init  PROVE IInv  OBVIOUS
<1>1. 0 \in 0 .. MaxCheck /\ \A p \in Pcbs : p # None  BY ConnAssumption
<1>2. FreeConn \in ConnRec /\ FreePcb \in PcbRec
  BY <1>1 DEF FreeConn, ConnRec, ConnStates, FreePcb, PcbRec, PcbStates
<1>3. links \in Seq(Conns) /\ Len(links) = 0  BY EmptySeq DEF Init
<1>4. /\ Now.conn = [c \in Conns |-> FreeConn] /\ Now.pcb = [p \in Pcbs |-> FreePcb]
      /\ Now.links = links /\ Now.count = 0 /\ Now.up = [c \in Conns |-> 0]
  BY DEF Now, Init
<1>5. Now \in State  BY <1>2, <1>3, <1>4 DEF State, Now
<1>6. Lists(Now)
  <2>1. \A c \in Conns : ~In(links, c)  BY <1>3 DEF In
  <2>2. Once(links)  BY <1>3 DEF Once
  <2>3. ~cfg.client => 0 <= cfg.max
    <3>1. cfg \in Cfgs  BY DEF Init
    <3> QED  BY <3>1, CfgIs
  <2> QED  BY <1>3, <1>4, <2>1, <2>2, <2>3 DEF Lists, FreeConn
<1>7. Rung(Now)
  <2>1. 0 \in Calls("free")  BY DEF Calls, Open
  <2> QED  BY <1>4, <2>1 DEF Rung, FreeConn
<1>8. \A c \in Conns : ConnOk(Now, c)  BY <1>4 DEF ConnOk, FreeConn, Open
<1>9. \A p \in Pcbs : PcbOk(Now, p)  BY <1>4 DEF PcbOk, FreePcb
<1> QED  BY <1>5, <1>6, <1>7, <1>8, <1>9 DEF IInv, Good, Init

\* tcpsrv_client_start
LEMMA ClientStartGood == Benign /\ IInv /\ ClientStart => IInv'
<1> SUFFICES ASSUME Benign, IInv, ClientStart  PROVE IInv'  OBVIOUS
<1> DEFINE s == Now
<1>1. PICK c \in Conns :
        /\ conn[c].st = "free"
        /\ LET new == [Now EXCEPT !.conn[c] = [FreeConn EXCEPT !.st = "CLIENT"], !.up[c] = 0]
           IN  \E a \in Attempts(new, c, "start") : Become(Admitted(a, c))
  BY DEF ClientStart
<1> DEFINE k == [FreeConn EXCEPT !.st = "CLIENT"]
           z == [s.up EXCEPT ![c] = 0]
           w == [s EXCEPT !.conn[c] = k]
           new == [s EXCEPT !.conn[c] = k, !.up[c] = 0]
<1>2. PICK a \in Attempts(new, c, "start") : Become(Admitted(a, c))  BY <1>1
<1>3. /\ Good(s) /\ s \in State /\ cfg \in Cfgs /\ cfg' = cfg /\ running' \in BOOLEAN
      /\ s.conn[c].st = "free" /\ cfg.client
  BY <1>1 DEF IInv, Good, ClientStart, Now
<1>4. s.conn[c].pcb = None /\ ~s.conn[c].timer  BY <1>3 DEF Good, ConnOk
<1>0. /\ FreeConn \in ConnRec /\ FreeConn.pcb = None /\ FreeConn.st = "free"
      /\ ~FreeConn.timer
  <2>1. 0 \in 0 .. MaxCheck  BY ConnAssumption
  <2> QED  BY <2>1 DEF FreeConn, ConnRec, ConnStates
<1>5. k \in ConnRec /\ k.pcb = None /\ k.st = "CLIENT" /\ ~k.timer
  BY <1>0 DEF ConnRec, ConnStates
<1> HIDE DEF k, s
<1>6. /\ new \in State /\ new.conn[c] = k /\ \A d \in Conns \ {c} : new.conn[d] = s.conn[d]
      /\ new.pcb = s.pcb /\ SameList(s, new) /\ new.up = z
  <2>1. /\ w \in State /\ w.conn[c] = k /\ \A d \in Conns \ {c} : w.conn[d] = s.conn[d]
        /\ w.pcb = s.pcb /\ w.links = s.links /\ w.count = s.count /\ w.up = s.up
    BY <1>3, <1>5, PutConn
  <2>2. new = [w EXCEPT !.up = z]  OBVIOUS
  <2>3. z \in [Conns -> Int]  BY <1>3, StateIs
  <2> HIDE DEF w, new, z
  <2> QED  BY <2>1, <2>2, <2>3 DEF State, SameList
<1> HIDE DEF new
<1>7. "start" \notin cfg.faults  BY <1>3 DEF Benign
<1>8. CASE a = [new EXCEPT !.conn[c].pcb = None]
  <2> DEFINE b == [k EXCEPT !.pcb = None]
             f == [FreeConn EXCEPT !.timer = FALSE]
             t == Admitted(a, c)
  <2>1. b \in ConnRec /\ b.pcb = None /\ ~b.timer  BY <1>5 DEF ConnRec
  <2>2. a = [new EXCEPT !.conn[c] = b]  BY <1>6, <1>8
  <2> HIDE DEF b
  <2>3. /\ a \in State /\ a.conn[c] = b /\ \A d \in Conns \ {c} : a.conn[d] = new.conn[d]
        /\ a.pcb = new.pcb /\ SameList(new, a) /\ a.up = new.up
    BY <1>6, <2>1, <2>2, PutConn DEF SameList
  <2>4. f \in ConnRec /\ f.st = "free" /\ f.pcb = None /\ ~f.timer
    BY <1>0 DEF ConnRec
  <2>5. t = [a EXCEPT !.conn[c] = f]
    <3>1. a.conn[c].timer = FALSE  BY <2>1, <2>3 DEF ConnRec
    <3> QED  BY <2>1, <2>3, <3>1 DEF Admitted
  <2> HIDE DEF f, t
  <2>6. /\ t \in State /\ t.conn[c] = f /\ \A d \in Conns \ {c} : t.conn[d] = s.conn[d]
        /\ t.pcb = s.pcb /\ SameList(s, t) /\ t.up = z
    BY <1>6, <2>3, <2>4, <2>5, PutConn DEF SameList
  <2>7. Lists(t) /\ Rung(t)
    <3>1. Lists(t)  BY <1>3, <2>4, <2>6 DEF Good, Lists, SameList
    <3>2. Rung(t)  BY <1>3, <2>4, <2>6, ToldOfClient
    <3> QED  BY <3>1, <3>2
  <2>8. \A d \in Conns : ConnOk(t, d)  BY <1>3, <2>4, <2>6 DEF Good, ConnOk, Open
  <2>9. \A q \in Pcbs : PcbOk(t, q)
    <3> TAKE q \in Pcbs
    <3>1. s.pcb[q] \in PcbRec /\ PcbOk(s, q)  BY <1>3, StateIs DEF Good
    <3>2. \A d \in Conns : t.conn[d].pcb = s.conn[d].pcb  BY <1>4, <2>4, <2>6
    <3> QED  BY <2>6, <3>1, <3>2 DEF PcbOk, PcbRec
  <2>10. Good(t)  BY <2>6, <2>7, <2>8, <2>9 DEF Good
  <2> QED  BY <1>2, <1>3, <2>10, BecomeGood DEF t
<1>9. ASSUME NEW p \in Pcbs, new.pcb[p].st = "free", a = Connect(new, c, p)  PROVE IInv'
  <2> DEFINE l == <<c>> \o a.links
             t == Admitted(a, c)
  <2>1. /\ a \in State /\ OnlyAt(new, a, c, p) /\ SameList(new, a) /\ a.up = new.up
        /\ a.conn[c].st = "CLIENT" /\ a.conn[c].pcb = p /\ ~a.conn[c].timer
        /\ a.pcb[p] = SynPcb(c)
    BY <1>5, <1>6, <1>9, ConnectIs
  <2>2. p # None  BY ConnAssumption
  <2>3. t = [a EXCEPT !.links = l, !.count = a.count + 1]
    BY <2>1, <2>2 DEF Admitted
  <2>4. /\ a.links = s.links /\ a.count = s.count /\ a.up = z
        /\ s.links \in Seq(Conns) /\ s.count \in Int
    BY <1>3, <1>6, <2>1, StateIs DEF SameList
  <2>5. /\ l \in Seq(Conns) /\ Len(l) = Len(s.links) + 1 /\ Once(l)
        /\ \A d \in Conns : In(l, d) <=> In(s.links, d) \/ d = c
    <3>1. Once(s.links) /\ ~In(s.links, c)  BY <1>3 DEF Good, Lists
    <3> QED  BY <2>4, <3>1, PushIs
  <2> HIDE DEF l, t
  <2>6. /\ t \in State /\ t.conn = a.conn /\ t.pcb = a.pcb /\ t.links = l
        /\ t.count = s.count + 1 /\ t.up = z
    <3>1. a.count + 1 \in Int  BY <2>4
    <3> QED  BY <2>1, <2>3, <2>4, <2>5, <3>1 DEF State
  <2>7. OnlyAt(s, t, c, p)  BY <1>6, <2>1, <2>6 DEF OnlyAt
  <2>8. Lists(t)
    <3>1. \A d \in Conns : In(l, d) <=> t.conn[d].st # "free"
      BY <1>3, <2>1, <2>5, <2>6, <2>7 DEF Good, Lists, OnlyAt
    <3>2. t.count = Len(l)  BY <1>3, <2>4, <2>5, <2>6 DEF Good, Lists
    <3> QED  BY <1>3, <2>5, <2>6, <3>1, <3>2 DEF Lists
  <2>9. Good(t)
    BY <1>3, <1>4, <1>6, <1>9, <2>1, <2>6, <2>7, <2>8, ConnectGood
  <2> QED  BY <1>2, <1>3, <2>9, BecomeGood DEF t
<1> QED  BY <1>2, <1>5, <1>6, <1>7, <1>8, <1>9, AttemptsAre

\* tcpsrv_client_connect, called by the timer
LEMMA ClientConnectGood == \A c \in Conns : IInv /\ ClientConnect(c) => IInv'
<1> SUFFICES ASSUME NEW c \in Conns, IInv, ClientConnect(c)  PROVE IInv'  OBVIOUS
<1> DEFINE s == Now
           k == [s.conn[c] EXCEPT !.timer = FALSE]
           new == [s EXCEPT !.conn[c] = k]
<1>1. /\ Good(s) /\ s \in State /\ cfg \in Cfgs /\ cfg' = cfg /\ running' \in BOOLEAN
      /\ s.conn[c].timer
  BY DEF IInv, Good, ClientConnect, Now
<1>2. s.conn[c].st = "CLIENT" /\ s.conn[c].pcb = None /\ s.conn[c] \in ConnRec
  BY <1>1, StateIs DEF Good, ConnOk
<1>3. PICK a \in Attempts(new, c, "connect") : Become(a)  BY DEF ClientConnect
<1>4. k \in ConnRec /\ k.pcb = None /\ k.st = "CLIENT" /\ ~k.timer
  BY <1>2 DEF ConnRec
<1>0. cfg.client /\ s.up = [s.up EXCEPT ![c] = 0]
  <2>1. cfg.client  BY <1>1, <1>2 DEF Good, ConnOk
  <2>2. s.up[c] = 0 /\ s.up \in [Conns -> Int]
    BY <1>1, <1>2, CallsOf, StateIs DEF Good, Due
  <2> HIDE DEF s
  <2> QED  BY <2>1, <2>2
<1> HIDE DEF k, s
<1>5. /\ new \in State /\ new.conn[c] = k /\ \A d \in Conns \ {c} : new.conn[d] = s.conn[d]
      /\ new.pcb = s.pcb /\ SameList(s, new) /\ new.up = s.up
  BY <1>1, <1>4, PutConn DEF SameList
<1> HIDE DEF new
<1>6. CASE "tcp_new" \in cfg.faults /\ a = [new EXCEPT !.conn[c].pcb = None]
  <2> DEFINE b == [k EXCEPT !.pcb = None]
  <2>1. b \in ConnRec /\ b.pcb = None /\ b.st = "CLIENT" /\ ~b.timer  BY <1>4 DEF ConnRec
  <2>2. a = [new EXCEPT !.conn[c] = b]  BY <1>5, <1>6
  <2> HIDE DEF b
  <2>3. /\ a \in State /\ a.conn[c] = b /\ \A d \in Conns \ {c} : a.conn[d] = s.conn[d]
        /\ a.pcb = s.pcb /\ SameList(s, a) /\ a.up = s.up
    BY <1>5, <2>1, <2>2, PutConn DEF SameList
  <2>4. ~Eternal  BY <1>6 DEF Eternal
  <2>5. Lists(a) /\ Rung(a)
    BY <1>1, <1>2, <2>1, <2>3 DEF Good, Lists, Rung, SameList
  <2>6. \A d \in Conns : ConnOk(a, d)  BY <1>1, <2>1, <2>3, <2>4 DEF Good, ConnOk, Open
  <2>7. \A q \in Pcbs : PcbOk(a, q)
    <3> TAKE q \in Pcbs
    <3>1. s.pcb[q] \in PcbRec /\ PcbOk(s, q)  BY <1>1, StateIs DEF Good
    <3>2. \A d \in Conns : a.conn[d].pcb = s.conn[d].pcb  BY <1>2, <2>1, <2>3
    <3> QED  BY <2>3, <3>1, <3>2 DEF PcbOk, PcbRec
  <2>8. Good(a)  BY <2>3, <2>5, <2>6, <2>7 DEF Good
  <2> QED  BY <1>1, <1>3, <2>8, BecomeGood
<1>7. ASSUME NEW p \in Pcbs, new.pcb[p].st = "free"
      PROVE  Good(Connect(new, c, p)) /\ Connect(new, c, p).pcb[p] = SynPcb(c)
  <2> DEFINE t == Connect(new, c, p)
  <2>1. /\ t \in State /\ OnlyAt(new, t, c, p) /\ SameList(new, t) /\ t.up = new.up
        /\ t.conn[c].st = "CLIENT" /\ t.conn[c].pcb = p /\ ~t.conn[c].timer
        /\ t.pcb[p] = SynPcb(c)
    BY <1>4, <1>5, ConnectIs
  <2> HIDE DEF t
  <2>2. OnlyAt(s, t, c, p)  BY <1>5, <2>1 DEF OnlyAt
  <2>3. Lists(t)  BY <1>1, <1>2, <1>5, <2>1, <2>2 DEF Good, Lists, OnlyAt, SameList
  <2>4. Good(t)
    <3>1. t.up = [s.up EXCEPT ![c] = 0]  BY <1>0, <1>5, <2>1
    <3> QED  BY <1>0, <1>1, <1>2, <1>5, <1>7, <2>1, <2>2, <2>3, <3>1, ConnectGood
  <2> QED  BY <2>1, <2>4 DEF t
<1>8. ASSUME NEW p \in Pcbs, new.pcb[p].st = "free", a = Connect(new, c, p)  PROVE IInv'
  BY <1>1, <1>3, <1>7, <1>8, BecomeGood
<1>9. ASSUME NEW p \in Pcbs, new.pcb[p].st = "free",
             a = [LosePcb(Connect(new, c, p), p) EXCEPT !.conn[c].pcb = None]
      PROVE  IInv'
  <2> DEFINE t == Connect(new, c, p)
             u == LosePcb(t, p)
  <2>1. Good(t) /\ t.pcb[p] = SynPcb(c)  BY <1>7, <1>9
  <2> HIDE DEF t
  <2>2. t.pcb[p].err /\ t.pcb[p].arg = c  BY <2>1 DEF SynPcb
  <2>3. Good(u) /\ u.conn[c].pcb = None  BY <1>1, <2>1, <2>2, LosePcbGood
  <2> HIDE DEF u
  <2>4. a = u
    <3> DEFINE v == [u EXCEPT !.conn[c] = u.conn[c]]
    <3>1. u \in State /\ u.conn[c] \in ConnRec  BY <2>3, StateIs DEF Good
    <3>2. a = v
      <4>1. a = [u EXCEPT !.conn[c].pcb = u.conn[c].pcb]  BY <1>9, <2>3 DEF u, t
      <4> QED  BY <3>1, <4>1 DEF ConnRec
    <3>3. /\ v \in State /\ v.conn[c] = u.conn[c]
          /\ \A d \in Conns \ {c} : v.conn[d] = u.conn[d]
          /\ v.pcb = u.pcb /\ v.links = u.links /\ v.count = u.count /\ v.up = u.up
      BY <3>1, PutConn
    <3> HIDE DEF v
    <3> QED  BY <3>1, <3>2, <3>3, StateEqual
  <2> QED  BY <1>1, <1>3, <2>3, <2>4, BecomeGood
<1>10. new.conn[c].pcb = None  BY <1>4, <1>5
<1> QED  BY <1>3, <1>5, <1>6, <1>8, <1>9, <1>10, AttemptsAre

\* tcpsrv_connected: the pcb's connection is one that waits for it.
LEMMA ConnectedGood == \A p \in Pcbs : IInv /\ Connected(p) => IInv'
<1> SUFFICES ASSUME NEW p \in Pcbs, IInv, Connected(p)  PROVE IInv'  OBVIOUS
<1> DEFINE s == Now
           c == pcb[p].arg
           k == [s.conn[c] EXCEPT !.st = "LISTEN", !.check = 0, !.timer = FALSE]
           r == [s.pcb[p] EXCEPT !.st = "open", !.data = TRUE, !.err = TRUE, !.poll = TRUE]
           u == [s EXCEPT !.conn[c] = k]
           v == [u EXCEPT !.pcb[p] = r]
           t == [v EXCEPT !.up = [s.up EXCEPT ![c] = s.up[c] + 1]]
<1>1. /\ Good(s) /\ s \in State /\ cfg \in Cfgs /\ cfg' = cfg /\ running' \in BOOLEAN
      /\ s.pcb[p].st = "syn" /\ s.pcb[p] \in PcbRec
  BY StateIs DEF IInv, Good, Connected, Now
<1>2. c # None /\ s.conn[c].pcb = p  BY <1>1 DEF Good, PcbOk, Now
<1>3. c \in Conns /\ p # None /\ c = s.pcb[p].arg
  BY <1>1, <1>2, ConnAssumption DEF PcbRec, Now
<1>4. s.conn[c].st = "CLIENT" /\ s.conn[c] \in ConnRec
  BY <1>1, <1>2, <1>3, StateIs DEF Good, ConnOk, Unclosed
<1>5. /\ k \in ConnRec /\ k.pcb = p /\ k.st = "LISTEN" /\ ~k.timer
      /\ r \in PcbRec /\ r.st = "open" /\ r.data /\ r.err /\ r.poll /\ r.arg = c
  <2>1. 0 \in 0 .. MaxCheck  BY ConnAssumption
  <2>2. k \in ConnRec /\ k.pcb = p /\ k.st = "LISTEN" /\ ~k.timer
    BY <1>2, <1>4, <2>1 DEF ConnRec, ConnStates
  <2>3. r \in PcbRec /\ r.st = "open" /\ r.data /\ r.err /\ r.poll /\ r.arg = c
    BY <1>1, <1>3 DEF PcbRec, PcbStates
  <2> QED  BY <2>2, <2>3
<1>6. conn' = t.conn /\ pcb' = t.pcb /\ links' = t.links /\ count' = t.count /\ up' = t.up
  <2>1. t.conn = [s.conn EXCEPT ![c] = k] /\ t.pcb = [s.pcb EXCEPT ![p] = r]
    OBVIOUS
  <2>2. t.links = s.links /\ t.count = s.count /\ t.up = [s.up EXCEPT ![c] = s.up[c] + 1]
    OBVIOUS
  <2>3. /\ conn' = [conn EXCEPT ![c].st = "LISTEN", ![c].check = 0, ![c].timer = FALSE]
        /\ pcb' = [pcb EXCEPT ![p] = [@ EXCEPT !.st = "open", !.data = TRUE,
                                               !.err = TRUE, !.poll = TRUE]]
        /\ up' = [up EXCEPT ![c] = @ + 1] /\ links' = links /\ count' = count
    BY DEF Connected
  <2>4. s.conn = conn /\ s.pcb = pcb /\ s.links = links /\ s.count = count /\ s.up = up
    BY DEF Now
  <2>5. conn' = t.conn
    <3>1. s.conn \in [Conns -> ConnRec]  BY <1>1, StateIs
    <3> DEFINE j == s.conn
    <3>2. conn' = [j EXCEPT ![c].st = "LISTEN", ![c].check = 0, ![c].timer = FALSE]
      BY <2>3, <2>4
    <3>3. t.conn = [j EXCEPT ![c] = [j[c] EXCEPT !.st = "LISTEN", !.check = 0, !.timer = FALSE]]
      BY <2>1
    <3>4. j \in [Conns -> ConnRec]  BY <3>1
    <3> HIDE DEF t, s, c, j
    <3> QED  BY <1>3, <3>2, <3>3, <3>4
  <2>6. pcb' = t.pcb  BY <2>1, <2>3, <2>4
  <2> QED  BY <2>2, <2>3, <2>4, <2>5, <2>6
<1> HIDE DEF k, r, c, s
<1>7. /\ u \in State /\ u.conn[c] = k /\ \A d \in Conns \ {c} : u.conn[d] = s.conn[d]
      /\ u.pcb = s.pcb /\ u.links = s.links /\ u.count = s.count /\ u.up = s.up
  BY <1>1, <1>3, <1>5, PutConn
<1> HIDE DEF u
<1>8. /\ v \in State /\ v.pcb[p] = r /\ \A q \in Pcbs \ {p} : v.pcb[q] = u.pcb[q]
      /\ v.conn = u.conn /\ v.links = u.links /\ v.count = u.count /\ v.up = u.up
  <2>1. u \in State /\ r \in PcbRec  BY <1>5, <1>7
  <2> QED  BY <2>1, PutPcb
<1> HIDE DEF v
<1>9. /\ t \in State /\ t.conn = v.conn /\ t.pcb = v.pcb /\ t.links = v.links
      /\ t.count = v.count /\ t.up = [s.up EXCEPT ![c] = 1]
  <2>1. s.up[c] = 0 /\ s.up \in [Conns -> Int]
    BY <1>1, <1>3, <1>4, CallsOf, StateIs DEF Good, Due
  <2>2. [s.up EXCEPT ![c] = s.up[c] + 1] = [s.up EXCEPT ![c] = 1]  BY <2>1
  <2> DEFINE n == [s.up EXCEPT ![c] = 1]
  <2>3. n \in [Conns -> Int]
    <3>1. \A f \in [Conns -> Int], d \in Conns : [f EXCEPT ![d] = 1] \in [Conns -> Int]  OBVIOUS
    <3> QED  BY <1>3, <2>1, <3>1
  <2>4. t = [v EXCEPT !.up = n]  BY <2>2
  <2> HIDE DEF n, t
  <2> QED  BY <1>8, <2>3, <2>4 DEF State, n
<1> HIDE DEF t
<1>10. OnlyAt(s, t, c, p) /\ SameList(s, t)  BY <1>7, <1>8, <1>9 DEF OnlyAt, SameList
<1>11. t.conn[c] = k /\ t.pcb[p] = r  BY <1>7, <1>8, <1>9
<1>12. Lists(t)
  BY <1>1, <1>4, <1>5, <1>10, <1>11 DEF Good, Lists, OnlyAt, SameList
<1>13. Rung(t)
  <2>1. t.conn[c].st \in Open  BY <1>5, <1>11 DEF Open
  <2>2. s.up \in [Conns -> Int] /\ Rung(s)  BY <1>1, StateIs DEF Good
  <2> QED  BY <1>3, <1>9, <1>10, <2>1, <2>2, ToldOfOpen DEF OnlyAt
<1>14. ConnOk(t, c)  BY <1>3, <1>5, <1>11 DEF ConnOk, Open, Unclosed
<1>15. PcbOk(t, p)  BY <1>2, <1>5, <1>11 DEF PcbOk
<1>16. /\ \A d \in Conns \ {c} : ConnOk(t, d)
       /\ \A q \in Pcbs \ {p} : PcbOk(t, q)
  BY <1>1, <1>2, <1>3, <1>9, <1>10, OthersOk
<1>17. Good(t)  BY <1>9, <1>12, <1>13, <1>14, <1>15, <1>16 DEF Good
<1> QED  BY <1>1, <1>6, <1>17, NextIs

\* tcpsrv_server_accept: if there is no room, the newest connection makes way.
LEMMA ServerAcceptGood == IInv /\ ServerAccept => IInv'
<1> SUFFICES ASSUME IInv, ServerAccept  PROVE IInv'  OBVIOUS
<1>1. /\ Good(Now) /\ Now \in State /\ cfg \in Cfgs /\ cfg' = cfg /\ running' \in BOOLEAN
      /\ ~cfg.client /\ cfg.max > 0 /\ cfg.max \in Nat
  BY CfgIs DEF IInv, Good, ServerAccept
<1>2. PICK o \in Outcomes :
        LET s == IF count >= cfg.max THEN DeletePcb(Now, links[1], o) ELSE Now
        IN  \/ Become(s)
            \/ \E c \in Conns, p \in Pcbs :
                 /\ s.conn[c].st = "free" /\ s.pcb[p].st = "free"
                 /\ LET t == Add(s, c, p)
                    IN  \E k \in Surplus(t) :
                          Become(Trim(t, k)) \/ Become(LosePcb(Trim(t, k), p))
  BY DEF ServerAccept
<1> DEFINE s == IF count >= cfg.max THEN DeletePcb(Now, links[1], o) ELSE Now
<1>3. Now.links = links /\ Now.count = count /\ Now.conn = conn /\ count \in Int
  <2>1. Now.links = links /\ Now.count = count /\ Now.conn = conn  BY DEF Now
  <2> QED  BY <1>1, <2>1, StateIs
<1>4. Good(s) /\ s.count < cfg.max
  <2>1. CASE count >= cfg.max
    <3>1. links \in Seq(Conns) /\ Len(links) = count /\ count <= cfg.max
      BY <1>1, <1>3, StateIs DEF Good, Lists
    <3>2. 1 \in 1 .. Len(links) /\ links[1] \in Conns
      BY <1>1, <2>1, <3>1, ElementOfSeq
    <3>3. In(links, links[1])  BY <3>2 DEF In
    <3>4. Now.conn[links[1]].st # "free"  BY <1>1, <1>3, <3>2, <3>3 DEF Good, Lists
    <3>5. Good(s) /\ s.count = count - 1
      BY <1>1, <1>3, <2>1, <3>2, <3>4, DeletePcbGood
    <3> QED  BY <1>1, <1>3, <3>1, <3>5
  <2>2. CASE ~(count >= cfg.max)  BY <1>1, <1>3, <2>2
  <2> QED  BY <2>1, <2>2
<1> HIDE DEF s
<1>5. CASE Become(s)  BY <1>1, <1>4, <1>5, BecomeGood
<1>6. ASSUME NEW c \in Conns, NEW p \in Pcbs, s.conn[c].st = "free", s.pcb[p].st = "free",
             NEW k \in Surplus(Add(s, c, p)),
             \/ Become(Trim(Add(s, c, p), k))
             \/ Become(LosePcb(Trim(Add(s, c, p), k), p))
      PROVE  IInv'
  <2> DEFINE t == Add(s, c, p)
             u == Trim(t, k)
  <2>1. Good(t) /\ t.pcb[p].st = "open" /\ t.pcb[p].err  BY <1>1, <1>4, <1>6, AddGood
  <2>2. k \in SUBSET Pcbs /\ \A q \in k : t.pcb[q].st = "tw"  BY DEF Surplus
  <2> HIDE DEF t
  <2>3. Good(u) /\ u.pcb[p] = t.pcb[p]  BY <2>1, <2>2, TrimGood
  <2> HIDE DEF u
  <2>4. Good(LosePcb(u, p))  BY <1>1, <2>1, <2>3, LosePcbGood
  <2>5. Become(u) \/ Become(LosePcb(u, p))  BY <1>6 DEF t, u
  <2> QED  BY <1>1, <2>3, <2>4, <2>5, BecomeGood
<1> QED  BY <1>2, <1>5, <1>6 DEF s

\* The application hears of its connection, and may close it.
LEMMA HeardGood == \A p \in Pcbs : IInv /\ Heard(p) => IInv'
<1> SUFFICES ASSUME NEW p \in Pcbs, IInv, Heard(p)  PROVE IInv'  OBVIOUS
<1> DEFINE c == pcb[p].arg
           k == [Now.conn[c] EXCEPT !.st = "CONNECT", !.check = 0]
           u == [Now EXCEPT !.conn[c] = k]
           s == [Now EXCEPT !.conn[c].st = "CONNECT", !.conn[c].check = 0]
<1>1. /\ Good(Now) /\ Now \in State /\ cfg \in Cfgs /\ cfg' = cfg /\ running' \in BOOLEAN
      /\ Now.pcb[p].data /\ Now.pcb[p] \in PcbRec /\ c = Now.pcb[p].arg
  BY StateIs DEF IInv, Good, Heard, Now
<1>2. c # None /\ Now.conn[c].pcb = p  BY <1>1 DEF Good, PcbOk
<1>3. c \in Conns /\ p # None  BY <1>1, <1>2, ConnAssumption DEF PcbRec
<1>4. Now.conn[c].st \in Open /\ Now.conn[c] \in ConnRec
  BY <1>1, <1>2, <1>3, StateIs DEF Good, ConnOk
<1>5. /\ k \in ConnRec /\ k.st = "CONNECT" /\ k.pcb = Now.conn[c].pcb
      /\ k.timer = Now.conn[c].timer
  <2>1. 0 \in 0 .. MaxCheck  BY ConnAssumption
  <2> QED  BY <1>4, <2>1 DEF ConnRec, ConnStates
<1>6. s = u
  <2> DEFINE n == Now
  <2>1. n \in State  BY <1>1
  <2> HIDE DEF n, c
  <2> QED  BY <1>3, <2>1 DEF State
<1>7. PICK o \in Outcomes : Become(s) \/ Become(Disconnect(s, c, o))
  <2>1. "tw" \in Outcomes  BY DEF Outcomes
  <2>2. Become(s) \/ \E o \in Outcomes : Become(Disconnect(s, c, o))  BY DEF Heard
  <2> QED  BY <2>1, <2>2
<1> HIDE DEF k, s, c
<1>8. Good(s) /\ s.conn[c].st \in Open
  <2>1. k.st \in Open  BY <1>5 DEF Open
  <2>2. Good(u) /\ u.conn[c] = k  BY <1>1, <1>3, <1>4, <1>5, <2>1, SameKind
  <2> QED  BY <1>6, <2>1, <2>2
<1>9. Good(Disconnect(s, c, o))  BY <1>1, <1>3, <1>8, DisconnectGood
<1> QED  BY <1>1, <1>7, <1>8, <1>9, BecomeGood

\* The peer closes its side: a connection that is open is closed.
LEMMA RemoteCloseGood == \A p \in Pcbs : IInv /\ RemoteClose(p) => IInv'
<1> SUFFICES ASSUME NEW p \in Pcbs, IInv, RemoteClose(p)  PROVE IInv'  OBVIOUS
<1> DEFINE n == Now
           r == [n.pcb[p] EXCEPT !.st = "fin"]
           u == [n EXCEPT !.pcb[p] = r]
           s == [n EXCEPT !.pcb[p].st = "fin"]
           c == n.pcb[p].arg
<1>1. /\ Good(n) /\ n \in State /\ cfg \in Cfgs /\ cfg' = cfg /\ running' \in BOOLEAN
      /\ n.pcb[p].st \in {"open", "shut"} /\ n.pcb[p] \in PcbRec
  BY StateIs DEF IInv, Good, RemoteClose, Now
<1>2. \/ Become(s)
      \/ n.pcb[p].data /\ \E o \in Outcomes : Become(ServerClose(s, c, o))
  BY DEF RemoteClose, Now
<1>3. s = u  OBVIOUS
<1>4. /\ r \in PcbRec /\ r.st = "fin" /\ r.arg = c /\ r.data = n.pcb[p].data
      /\ r.err = n.pcb[p].err /\ r.poll = n.pcb[p].poll
  BY <1>1 DEF PcbRec, PcbStates
<1> HIDE DEF n, r, s
<1>5. /\ u \in State /\ u.pcb[p] = r /\ \A q \in Pcbs \ {p} : u.pcb[q] = n.pcb[q]
      /\ u.conn = n.conn /\ u.links = n.links /\ u.count = n.count /\ u.up = n.up
  BY <1>1, <1>4, PutPcb
<1> HIDE DEF u
<1>6. Good(u)
  <2>1. Lists(u) /\ Rung(u)  BY <1>1, <1>5 DEF Good, Lists, Rung
  <2>2. ASSUME NEW d \in Conns  PROVE ConnOk(u, d)
    <3>1. n.conn[d] \in ConnRec /\ ConnOk(n, d)  BY <1>1, StateIs DEF Good
    <3>2. CASE n.conn[d].pcb = p
      <4>1. p # None  BY ConnAssumption
      <4>2. n.conn[d].st # "CLIENT"  BY <1>1, <3>1, <3>2, <4>1 DEF ConnOk
      <4> QED  BY <1>4, <1>5, <3>1, <3>2, <4>1, <4>2 DEF ConnOk, Unclosed
    <3>3. CASE n.conn[d].pcb # p
      <4>1. n.conn[d].pcb = None \/ u.pcb[n.conn[d].pcb] = n.pcb[n.conn[d].pcb]
        BY <1>5, <3>1, <3>3 DEF ConnRec
      <4> QED  BY <1>5, <3>1, <4>1 DEF ConnOk
    <3> QED  BY <3>2, <3>3
  <2>3. \A q \in Pcbs : PcbOk(u, q)
    <3> TAKE q \in Pcbs
    <3>1. PcbOk(n, q)  BY <1>1 DEF Good
    <3>2. CASE q = p  BY <1>4, <1>5, <3>1, <3>2 DEF PcbOk
    <3>3. CASE q # p  BY <1>5, <3>1, <3>3 DEF PcbOk
    <3> QED  BY <3>2, <3>3
  <2> QED  BY <1>5, <2>1, <2>2, <2>3 DEF Good
<1>7. Good(s)  BY <1>3, <1>6
<1>8. ASSUME n.pcb[p].data, NEW o \in Outcomes  PROVE Good(ServerClose(s, c, o))
  <2>1. c # None  BY <1>1, <1>8 DEF Good, PcbOk
  <2>2. c \in Conns  BY <1>1, <2>1 DEF PcbRec
  <2>3. s.conn[c].st # "CLIENT"
    <3>1. n.conn[c].pcb = p /\ p # None  BY <1>1, <1>8, <2>1, ConnAssumption DEF Good, PcbOk
    <3>2. ConnOk(n, c)  BY <1>1, <2>2 DEF Good
    <3>3. n.conn[c].st # "CLIENT"  BY <1>8, <3>1, <3>2 DEF ConnOk, Open
    <3> QED  BY <1>3, <1>5, <3>3
  <2> QED  BY <1>1, <1>7, <2>2, <2>3, ServerCloseGood
<1> QED  BY <1>1, <1>2, <1>7, <1>8, BecomeGood

\* tcpsrv_poll, of the connection's own pcb or of one it had
LEMMA PollStepGood == ASSUME Benign  PROVE \A p \in Pcbs : IInv /\ Poll(p) => IInv'
<1> SUFFICES ASSUME NEW p \in Pcbs, IInv, Poll(p)  PROVE IInv'  OBVIOUS
<1>1. /\ Good(Now) /\ cfg \in Cfgs /\ cfg' = cfg /\ running' \in BOOLEAN
      /\ Now.pcb[p].poll /\ Now.pcb[p] \in PcbRec
  BY StateIs DEF IInv, Good, Poll, PollWith, Now
<1>2. PICK o \in Outcomes : Become(PollCallback(Now, p, pcb[p].arg, o))
  BY DEF Poll, PollWith
<1>3. pcb[p].arg = Now.pcb[p].arg  BY DEF Now
<1>4. Now.pcb[p].arg # None  BY <1>1 DEF Good, PcbOk
<1>5. pcb[p].arg \in Conns  BY <1>1, <1>3, <1>4 DEF PcbRec
<1> QED  BY <1>1, <1>2, <1>5, PollGood, BecomeGood

\* A reset finds no connection that is being closed.
LEMMA ResetGood == ASSUME Benign  PROVE \A p \in Pcbs : IInv /\ Reset(p) => IInv'
<1> SUFFICES ASSUME NEW p \in Pcbs, IInv, Reset(p)  PROVE IInv'  OBVIOUS
<1>1. /\ Good(Now) /\ cfg \in Cfgs /\ cfg' = cfg /\ running' \in BOOLEAN
      /\ Become(LosePcb(Now, p)) /\ "rst" \in cfg.faults
  BY DEF IInv, Reset
<1>2. "close" \notin cfg.faults  BY <1>1 DEF Benign
<1>3. p # None  BY ConnAssumption
<1>4. Now.pcb[p].err \/ \A c \in Conns : Now.conn[c].pcb # p
  BY <1>1, <1>2, <1>3 DEF Good, ConnOk
<1> QED  BY <1>1, <1>4, LosePcbGood, BecomeGood

\* Late data finds no connection that is being closed.
LEMMA LateDataGood == ASSUME Benign  PROVE \A p \in Pcbs : IInv /\ LateData(p) => IInv'
<1> SUFFICES ASSUME NEW p \in Pcbs, IInv, LateData(p)  PROVE IInv'  OBVIOUS
<1>1. /\ Good(Now) /\ cfg \in Cfgs /\ cfg' = cfg /\ running' \in BOOLEAN
      /\ Become(LosePcb(Now, p)) /\ Now.pcb[p].st \in {"shut", "closing"}
      /\ Now.pcb[p].st = "shut" /\ Now.pcb[p].arg # None => "late" \in cfg.faults
  BY DEF IInv, LateData, Now
<1>2. "late" \notin cfg.faults  BY <1>1 DEF Benign
<1>3. ASSUME NEW c \in Conns, Now.conn[c].pcb = p  PROVE FALSE
  <2>1. ConnOk(Now, c) /\ p # None /\ c # None  BY <1>1, ConnAssumption DEF Good
  <2>2. Now.pcb[p].arg = c /\ Now.pcb[p].st \in Unclosed \cup {"syn"}
    BY <1>3, <2>1 DEF ConnOk
  <2> QED  BY <1>1, <1>2, <2>1, <2>2 DEF Unclosed
<1> QED  BY <1>1, <1>3, LosePcbGood, BecomeGood

\* A pcb that lwIP closes by itself has no connection.
LEMMA PcbDoneGood == \A p \in Pcbs : IInv /\ PcbDone(p) => IInv'
<1> SUFFICES ASSUME NEW p \in Pcbs, IInv, PcbDone(p)  PROVE IInv'  OBVIOUS
<1> DEFINE s == Now
           w == [s.pcb[p] EXCEPT !.st = "tw"]
<1>1. /\ Good(s) /\ s \in State /\ cfg \in Cfgs /\ cfg' = cfg /\ running' \in BOOLEAN
      /\ s.pcb[p].st \in {"closing", "tw"} /\ s.pcb[p] \in PcbRec
      /\ conn' = s.conn /\ links' = s.links /\ count' = s.count /\ up' = s.up
  BY StateIs DEF IInv, Good, PcbDone, Now
<1>2. pcb' \in {[s.pcb EXCEPT ![p] = FreePcb], [s.pcb EXCEPT ![p] = w]}
  BY DEF PcbDone, Now
<1>3. w \in PcbRec /\ FreePcb \in PcbRec
  BY <1>1 DEF PcbRec, PcbStates, FreePcb
<1>4. /\ w.st # "syn" /\ w.data = s.pcb[p].data /\ w.err = s.pcb[p].err
      /\ w.poll = s.pcb[p].poll /\ w.arg = s.pcb[p].arg
  BY <1>1 DEF PcbRec
<1>5. FreePcb.st # "syn" /\ ~FreePcb.data /\ ~FreePcb.err /\ ~FreePcb.poll
  BY DEF FreePcb
<1> HIDE DEF s, w
<1>6. ASSUME NEW r \in {w, FreePcb}  PROVE Good([s EXCEPT !.pcb[p] = r])
  <2> DEFINE t == [s EXCEPT !.pcb[p] = r]
  <2>1. r \in PcbRec  BY <1>3
  <2>2. /\ t \in State /\ t.pcb[p] = r /\ \A q \in Pcbs \ {p} : t.pcb[q] = s.pcb[q]
        /\ t.conn = s.conn /\ t.links = s.links /\ t.count = s.count /\ t.up = s.up
    BY <1>1, <2>1, PutPcb
  <2> HIDE DEF t
  <2>3. Lists(t) /\ Rung(t)  BY <1>1, <2>2 DEF Good, Lists, Rung
  <2>4. ASSUME NEW d \in Conns  PROVE ConnOk(t, d)
    <3>1. s.conn[d] \in ConnRec /\ ConnOk(s, d)  BY <1>1, StateIs DEF Good
    <3>2. p # None  BY ConnAssumption
    <3>3. s.conn[d].pcb # p  BY <1>1, <3>1, <3>2 DEF ConnOk, Unclosed
    <3>4. s.conn[d].pcb = None \/ t.pcb[s.conn[d].pcb] = s.pcb[s.conn[d].pcb]
      BY <2>2, <3>1, <3>3 DEF ConnRec
    <3> QED  BY <2>2, <3>1, <3>4 DEF ConnOk
  <2>5. ASSUME NEW q \in Pcbs  PROVE PcbOk(t, q)
    <3>1. PcbOk(s, q)  BY <1>1 DEF Good
    <3>2. CASE q = p /\ r = w  BY <1>4, <2>2, <3>1, <3>2 DEF PcbOk
    <3>3. CASE q = p /\ r = FreePcb  BY <1>5, <2>2, <3>3 DEF PcbOk
    <3>4. CASE q # p  BY <2>2, <3>1, <3>4 DEF PcbOk
    <3> QED  BY <1>6, <3>2, <3>3, <3>4
  <2>6. Good(t)  BY <2>2, <2>3, <2>4, <2>5 DEF Good
  <2> QED  BY <2>6 DEF t
<1>7. PICK r \in {w, FreePcb} : pcb' = [s.pcb EXCEPT ![p] = r]  BY <1>2
<1> DEFINE t == [s EXCEPT !.pcb[p] = r]
<1>8. Good(t)  BY <1>6
<1>9. /\ t.pcb = pcb' /\ t.conn = conn' /\ t.links = links' /\ t.count = count'
      /\ t.up = up'
  BY <1>1, <1>7 DEF State
<1> HIDE DEF t
<1> QED  BY <1>1, <1>8, <1>9, NextIs

\* tspsrv_delete_pcb for every connection: none is left, and no pcb calls back.
LEMMA AllDeletedGood ==
  ASSUME IInv, NEW o \in [Mine -> Outcomes]
  PROVE  LET t == AllDeleted(o)
         IN  Good(t) /\ \A c \in Conns : t.conn[c].pcb = None
<1> DEFINE s == Now
           t == AllDeleted(o)
           q(p) == [Quiet(s.pcb[p]) EXCEPT !.arg = None]
           f == [c \in Conns |-> IF Listed(s, c) THEN FreeConn ELSE s.conn[c]]
           g == [p \in Pcbs |-> IF p \in Mine THEN Closed(q(p), o[p]) ELSE s.pcb[p]]
<1>1. Good(s) /\ s \in State /\ cfg \in Cfgs  BY DEF IInv, Good
<1>2. /\ t.conn = f /\ t.pcb = g /\ t.links = <<>> /\ t.count = s.count - Len(s.links)
      /\ t.up = [c \in Conns |-> IF Listed(s, c) THEN s.up[c] - 1 ELSE s.up[c]]
      /\ t = [conn |-> t.conn, pcb |-> t.pcb, links |-> t.links, count |-> t.count,
              up |-> t.up]
  BY DEF AllDeleted, Now
<1>3. /\ FreeConn \in ConnRec /\ FreeConn.pcb = None /\ FreeConn.st = "free"
      /\ ~FreeConn.timer
  <2>1. 0 \in 0 .. MaxCheck  BY ConnAssumption
  <2> QED  BY <2>1 DEF FreeConn, ConnRec, ConnStates
<1>4. \A c \in Conns : Listed(s, c) <=> s.conn[c].st # "free"
  <2> TAKE c \in Conns
  <2>1. In(s.links, c) <=> s.conn[c].st # "free"  BY <1>1 DEF Good, Lists
  <2> QED  BY <1>1, <2>1, ListedIs
<1>5. \A p \in Mine : p \in Pcbs
  BY DEF Mine
<1>6. \A p \in Pcbs : p \in Mine <=> \E c \in Conns : Listed(s, c) /\ FindPcb(s, c) = p
  BY DEF Mine
<1> HIDE DEF t, s
<1>7. ASSUME NEW c \in Conns
      PROVE  /\ t.conn[c] \in ConnRec /\ t.conn[c].st = "free" /\ t.conn[c].pcb = None
             /\ ~t.conn[c].timer
  <2>1. CASE Listed(s, c)  BY <1>2, <1>3, <2>1
  <2>2. CASE ~Listed(s, c)
    <3>1. t.conn[c] = s.conn[c]  BY <1>2, <2>2
    <3>2. s.conn[c].st = "free" /\ s.conn[c] \in ConnRec /\ ConnOk(s, c)
      BY <1>1, <1>4, <2>2, StateIs DEF Good
    <3> QED  BY <3>1, <3>2 DEF ConnOk
  <2> QED  BY <2>1, <2>2
<1>8. ASSUME NEW p \in Pcbs
      PROVE  /\ t.pcb[p] \in PcbRec /\ ~t.pcb[p].data /\ ~t.pcb[p].err
             /\ t.pcb[p].st # "syn" /\ (t.pcb[p].poll => t.pcb[p].arg # None)
  <2>1. s.pcb[p] \in PcbRec /\ PcbOk(s, p)  BY <1>1, StateIs DEF Good
  <2>2. CASE p \in Mine
    <3>1. t.pcb[p] = Closed(q(p), o[p])  BY <1>2, <2>2
    <3>2. o[p] \in {"closing", "tw", "fails"}
      <4>1. o[p] \in Outcomes  BY <2>2
      <4> QED  BY <4>1, OutcomesAre
    <3>3. q(p) \in PcbRec /\ ~q(p).data /\ ~q(p).err /\ ~q(p).poll
      <4>1. /\ Quiet(s.pcb[p]) \in PcbRec /\ ~Quiet(s.pcb[p]).data
            /\ ~Quiet(s.pcb[p]).err /\ ~Quiet(s.pcb[p]).poll
        BY <2>1, PcbIs DEF Outcomes
      <4> QED  BY <4>1 DEF PcbRec
    <3> HIDE DEF q
    <3>4. /\ Closed(q(p), o[p]) \in PcbRec /\ Closed(q(p), o[p]).st # "syn"
          /\ \/ Closed(q(p), o[p]) = FreePcb
             \/ /\ Closed(q(p), o[p]).data = q(p).data
                /\ Closed(q(p), o[p]).err = q(p).err
                /\ Closed(q(p), o[p]).poll = q(p).poll
      BY <3>2, <3>3, PcbIs
    <3> QED  BY <3>1, <3>3, <3>4 DEF FreePcb
  <2>3. CASE p \notin Mine
    <3>1. t.pcb[p] = s.pcb[p]  BY <1>2, <2>3
    <3>2. SUFFICES ASSUME s.pcb[p].data \/ s.pcb[p].err \/ s.pcb[p].st = "syn"
                   PROVE  FALSE
      BY <2>1, <3>1 DEF PcbOk
    <3> DEFINE c == s.pcb[p].arg
    <3>3. c # None /\ s.conn[c].pcb = p /\ p # None  BY <2>1, <3>2, ConnAssumption DEF PcbOk
    <3>4. c \in Conns  BY <2>1, <3>3 DEF PcbRec
    <3>5. ConnOk(s, c) /\ s.conn[c].st # "free"  BY <1>1, <3>3, <3>4 DEF Good, ConnOk
    <3>6. FindPcb(s, c) = p  BY <1>1, <3>3, <3>4, <3>5, FindPcbIs
    <3>7. Listed(s, c)  BY <1>4, <3>4, <3>5
    <3> QED  BY <1>6, <2>3, <3>4, <3>6, <3>7
  <2> QED  BY <2>2, <2>3
<1>9. t.links \in Seq(Conns) /\ Len(t.links) = 0
  BY <1>2, EmptySeq
<1>10. t.count = 0
  <2>1. s.count = Len(s.links) /\ s.count \in Int  BY <1>1, StateIs DEF Good, Lists
  <2> QED  BY <1>2, <2>1
<1>11. t.up \in [Conns -> Int] /\ \A c \in Conns : t.up[c] \in Calls("free")
  <2>1. s.up \in [Conns -> Int]  BY <1>1, StateIs
  <2>2. t.up \in [Conns -> Int]  BY <1>2, <2>1
  <2>3. ASSUME NEW c \in Conns  PROVE t.up[c] \in Calls("free")
    <3>1. s.up[c] \in Calls(s.conn[c].st) /\ s.conn[c] \in ConnRec /\ ConnOk(s, c)
      BY <1>1, StateIs DEF Good, Rung
    <3>2. CASE s.conn[c].st = "free"  BY <1>2, <1>4, <3>1, <3>2
    <3>3. CASE s.conn[c].st # "free"
      <4>1. s.up[c] = Due(s, c)
        BY <1>1, <3>3, CallsOf DEF Good
      <4>2. t.up[c] = s.up[c] - 1  BY <1>2, <1>4, <3>3
      <4>3. s.conn[c].st = "CLIENT" => cfg.client  BY <3>1 DEF ConnOk
      <4> QED  BY <4>1, <4>2, <4>3 DEF Calls, Due, Open
    <3> QED  BY <3>2, <3>3
  <2> QED  BY <2>2, <2>3
<1>12. t \in State
  <2>1. t.conn \in [Conns -> ConnRec]
    <3>1. t.conn = [c \in Conns |-> t.conn[c]]  BY <1>2
    <3> QED  BY <1>7, <3>1
  <2>2. t.pcb \in [Pcbs -> PcbRec]
    <3>1. t.pcb = [p \in Pcbs |-> t.pcb[p]]  BY <1>2
    <3> QED  BY <1>8, <3>1
  <2>3. t.links \in Seq(Conns) /\ t.count \in Int /\ t.up \in [Conns -> Int]
    BY <1>9, <1>10, <1>11
  <2>4. t = [conn |-> t.conn, pcb |-> t.pcb, links |-> t.links, count |-> t.count,
             up |-> t.up]
    BY <1>2
  <2> QED  BY <2>1, <2>2, <2>3, <2>4 DEF State
<1>13. Lists(t)
  <2>1. \A c \in Conns : ~In(t.links, c)  BY <1>9 DEF In
  <2>2. Once(t.links)  BY <1>9 DEF Once
  <2>3. ~cfg.client => 0 <= cfg.max  BY <1>1, CfgIs
  <2> QED  BY <1>7, <1>9, <1>10, <2>1, <2>2, <2>3 DEF Lists
<1>14. Rung(t)  BY <1>7, <1>11 DEF Rung
<1>15. \A c \in Conns : ConnOk(t, c)  BY <1>7 DEF ConnOk, Open
<1>16. \A p \in Pcbs : PcbOk(t, p)  BY <1>8 DEF PcbOk
<1>17. Good(t)  BY <1>12, <1>13, <1>14, <1>15, <1>16 DEF Good
<1> QED  BY <1>7, <1>17 DEF t

\* tcpsrv_close
LEMMA CloseGood == IInv /\ Close => IInv'
<1> SUFFICES ASSUME IInv, Close  PROVE IInv'  OBVIOUS
<1>1. cfg \in Cfgs /\ cfg' = cfg /\ running' \in BOOLEAN  BY DEF IInv, Close
<1>2. PICK o \in [Mine -> Outcomes] : Become(AllDeleted(o))  BY DEF Close
<1> QED  BY <1>1, <1>2, AllDeletedGood, BecomeGood

\* tcpsrv_close_all: the pcbs it deletes have no connections any more.
LEMMA CloseAllGood == IInv /\ CloseAll => IInv'
<1> SUFFICES ASSUME IInv, CloseAll  PROVE IInv'  OBVIOUS
<1>1. cfg \in Cfgs /\ cfg' = cfg /\ running' \in BOOLEAN  BY DEF IInv, CloseAll
<1>2. PICK o \in [Mine -> Outcomes] :
        \E s \in FirstActiveLost(AllDeleted(o)) : \E k \in FirstTimeWait(s) : Become(Trim(s, k))
  BY DEF CloseAll
<1> DEFINE t == AllDeleted(o)
<1>3. Good(t) /\ \A c \in Conns : t.conn[c].pcb = None  BY AllDeletedGood
<1>4. PICK s \in FirstActiveLost(t) : \E k \in FirstTimeWait(s) : Become(Trim(s, k))
  BY <1>2
<1> HIDE DEF t
<1>5. Good(s)
  <2>1. s = t \/ \E p \in Pcbs : s = LosePcb(t, p)  BY DEF FirstActiveLost
  <2>2. \A p \in Pcbs : p # None  BY ConnAssumption
  <2>3. ASSUME NEW p \in Pcbs  PROVE Good(LosePcb(t, p))
    <3>1. \A c \in Conns : t.conn[c].pcb # p  BY <1>3, <2>2
    <3> QED  BY <1>1, <1>3, <3>1, LosePcbGood
  <2> QED  BY <1>3, <2>1, <2>3
<1>6. PICK k \in FirstTimeWait(s) : Become(Trim(s, k))  BY <1>4
<1>7. k \in SUBSET Pcbs /\ \A p \in k : s.pcb[p].st = "tw"  BY DEF FirstTimeWait
<1>8. Good(Trim(s, k))  BY <1>5, <1>7, TrimGood
<1> QED  BY <1>1, <1>6, <1>8, BecomeGood

\* Every step keeps the invariant.
LEMMA NextGood == ASSUME Benign  PROVE IInv /\ [Next]_vars => IInv'
<1> SUFFICES ASSUME IInv, [Next]_vars  PROVE IInv'  OBVIOUS
<1>1. CASE Start \/ UNCHANGED vars
  <2>1. /\ cfg \in Cfgs /\ cfg' = cfg /\ running' \in BOOLEAN /\ Good(Now)
        /\ Now.conn = conn' /\ Now.pcb = pcb' /\ Now.links = links' /\ Now.count = count'
        /\ Now.up = up'
    BY <1>1 DEF IInv, Start, vars, Now
  <2> QED  BY <2>1, NextIs
<1>2. CASE ClientStart  BY <1>2, ClientStartGood
<1>3. CASE ServerAccept  BY <1>3, ServerAcceptGood
<1>4. CASE Close  BY <1>4, CloseGood
<1>5. CASE CloseAll  BY <1>5, CloseAllGood
<1>6. CASE \E c \in Conns : ClientConnect(c)  BY <1>6, ClientConnectGood
<1>7. ASSUME NEW p \in Pcbs,
             \/ Connected(p) \/ ServerRecv(p) \/ ServerSent(p) \/ RemoteClose(p)
             \/ Poll(p) \/ Reset(p) \/ LateData(p) \/ PcbDone(p)
      PROVE  IInv'
  <2>1. CASE Connected(p)  BY <2>1, ConnectedGood
  <2>2. CASE ServerRecv(p) \/ ServerSent(p)
    BY <2>2, HeardGood DEF ServerRecv, ServerSent
  <2>3. CASE RemoteClose(p)  BY <2>3, RemoteCloseGood
  <2>4. CASE Poll(p)  BY <2>4, PollStepGood
  <2>5. CASE Reset(p)  BY <2>5, ResetGood
  <2>6. CASE LateData(p)  BY <2>6, LateDataGood
  <2>7. CASE PcbDone(p)  BY <2>7, PcbDoneGood
  <2> QED  BY <1>7, <2>1, <2>2, <2>3, <2>4, <2>5, <2>6, <2>7
<1> QED  BY <1>1, <1>2, <1>3, <1>4, <1>5, <1>6, <1>7 DEF Next

(***************************************************************************)
(* The theorems.                                                           *)
(***************************************************************************)
\* The invariant holds of every state that is reached.
THEOREM Invariance == ASSUME Benign  PROVE Spec => []IInv
<1>1. Init => IInv  BY InitGood
<1>2. IInv /\ [Next]_vars => IInv'  BY NextGood
<1> QED  BY <1>1, <1>2, PTL DEF Spec

\* The settings, the connections, the pcbs and the list keep their types: conn_count,
\* which is counted down with each tcpsrv_list_delete, is never below zero.
THEOREM TypeCorrect == ASSUME Benign  PROVE Spec => []TypeOK
<1>1. IInv => TypeOK
  <2> SUFFICES ASSUME IInv  PROVE TypeOK  OBVIOUS
  <2>1. Now \in State /\ Lists(Now)  BY DEF IInv, Good
  <2>2. /\ Now.conn = conn /\ Now.pcb = pcb /\ Now.links = links /\ Now.count = count
        /\ Now.up = up
    BY DEF Now
  <2>3. links \in Seq(Conns) /\ count = Len(links)  BY <2>1, <2>2, StateIs DEF Lists
  <2>4. count \in Nat  BY <2>3, LenProperties
  <2>5. /\ conn \in [Conns -> ConnRec] /\ pcb \in [Pcbs -> PcbRec]
        /\ up \in [Conns -> Int]
    BY <2>1, <2>2, StateIs
  <2>6. up \in [Conns -> -1 .. 1]
    <3>1. \A c \in Conns : up[c] \in Calls(conn[c].st)  BY <2>2 DEF IInv, Good, Rung
    <3>2. \A st : Calls(st) \subseteq -1 .. 1  BY DEF Calls
    <3> QED  BY <2>5, <3>1, <3>2
  <2> QED  BY <2>3, <2>4, <2>5, <2>6 DEF IInv, TypeOK
<1> QED  BY <1>1, Invariance, PTL

\* Each connection that is allocated is in conn_links, once; conn_count is their number,
\* and a server never has more than max_conn.
THEOREM AccountsRight == ASSUME Benign  PROVE Spec => []Accounted
<1>1. IInv => Accounted
  <2> SUFFICES ASSUME IInv  PROVE Accounted  OBVIOUS
  <2>1. Now \in State /\ Lists(Now)  BY DEF IInv, Good
  <2>2. Now.conn = conn /\ Now.links = links /\ Now.count = count  BY DEF Now
  <2>3. links \in Seq(Conns)  BY <2>1, <2>2, StateIs
  <2>4. DOMAIN links = 1 .. Len(links)  BY <2>3, LenProperties
  <2>5. \A c \in Conns : Listed(Now, c) <=> conn[c].st # "free"
    <3> TAKE c \in Conns
    <3>1. In(Now.links, c) <=> Now.conn[c].st # "free"  BY <2>1 DEF Lists
    <3> QED  BY <2>1, <2>2, <3>1, ListedIs
  <2>6. \A i, j \in DOMAIN links : links[i] = links[j] => i = j
    BY <2>1, <2>2, <2>4 DEF Lists, Once
  <2>7. count = Len(links) /\ (~cfg.client => count <= cfg.max)
    BY <2>1, <2>2 DEF Lists
  <2> QED  BY <2>5, <2>6, <2>7 DEF Accounted
<1> QED  BY <1>1, Invariance, PTL

\* A pcb passes its data and its errors to the connection that uses it, never to one
\* that was freed or that has another pcb by now.
THEOREM CallbacksOwn == ASSUME Benign  PROVE Spec => []OwnCallbacks
<1>1. IInv => OwnCallbacks
  <2> SUFFICES ASSUME IInv, NEW p \in Pcbs, pcb[p].data \/ pcb[p].err
               PROVE  \E c \in Conns : pcb[p].arg = c /\ conn[c].st # "free" /\ conn[c].pcb = p
    BY DEF OwnCallbacks
  <2>1. Good(Now) /\ Now \in State /\ Now.conn = conn /\ Now.pcb = pcb
    BY DEF IInv, Good, Now
  <2>2. pcb[p] \in PcbRec /\ PcbOk(Now, p)  BY <2>1, StateIs DEF Good
  <2>3. pcb[p].arg # None /\ conn[pcb[p].arg].pcb = p  BY <2>1, <2>2 DEF PcbOk
  <2>4. pcb[p].arg \in Conns /\ p # None  BY <2>2, <2>3, ConnAssumption DEF PcbRec
  <2>5. conn[pcb[p].arg].st # "free"  BY <2>1, <2>3, <2>4 DEF Good, ConnOk
  <2> QED  BY <2>3, <2>4, <2>5
<1> QED  BY <1>1, Invariance, PTL

\* The calls of func_listen and func_discon_cb are paired: one func_listen more for a
\* connection that is open or being closed, as many for one that waits, connects or is
\* gone; but one func_discon_cb more for a client deleted while it waited or connected.
THEOREM ApplicationTold == ASSUME Benign  PROVE Spec => []Told
<1>1. IInv => Told
  <2> SUFFICES ASSUME IInv, NEW c \in Conns
               PROVE  up[c] \in CASE conn[c].st \in {"LISTEN", "CONNECT", "CLOSEWAIT"} -> {1}
                                   [] conn[c].st = "free" /\ cfg.client -> {-1, 0}
                                   [] OTHER -> {0}
    BY DEF Told
  <2>1. up[c] \in Calls(conn[c].st)  BY DEF IInv, Good, Rung, Now
  <2> QED  BY <2>1 DEF Calls, Open
<1> QED  BY <1>1, Invariance, PTL

\* As long as lwIP drops no pcb between a tcp_close that failed and the next try: a
\* connection that is open has a pcb in lwIP that will report its errors, and one that is
\* being closed has one that is polled, and so closed again.
THEOREM NoneDead == ASSUME Benign  PROVE Spec => []NoDeadConnections
<1>1. IInv => NoDeadConnections
  <2>1. ASSUME IInv, NEW c \in Conns, conn[c].st \in {"LISTEN", "CONNECT", "CLOSEWAIT"}
        PROVE  /\ Alive(c)
               /\ IF conn[c].st = "CLOSEWAIT"
                  THEN pcb[conn[c].pcb].poll
                  ELSE pcb[conn[c].pcb].err
    <3>1. Good(Now) /\ Now \in State /\ Now.conn = conn /\ Now.pcb = pcb
      BY <2>1 DEF IInv, Good, Now
    <3>2. conn[c] \in ConnRec /\ ConnOk(Now, c)  BY <3>1, StateIs DEF Good
    <3>3. conn[c].pcb # None  BY <2>1, <3>1, <3>2 DEF ConnOk, Open
    <3>4. conn[c].pcb \in Pcbs  BY <3>2, <3>3 DEF ConnRec
    <3> DEFINE p == conn[c].pcb
    <3>5. pcb[p].arg = c /\ pcb[p].st \in Unclosed
      BY <2>1, <3>1, <3>2, <3>3 DEF ConnOk
    <3>6. IF conn[c].st = "CLOSEWAIT" THEN pcb[p].poll ELSE pcb[p].err
      BY <2>1, <3>1, <3>2, <3>3 DEF ConnOk
    <3> QED  BY <3>4, <3>5, <3>6 DEF Alive, ActivePcb, Unclosed
  <2> QED  BY <2>1 DEF NoDeadConnections, TriesAgain
<1> QED  BY <1>1, Invariance, PTL

\* A client that is to reconnect for ever has its timer running or a pcb that calls back,
\* if there always is memory for a new pcb.
THEOREM ClientsTry ==
  ASSUME Benign, \A g \in Cfgs : g.client /\ g.reconnect => "tcp_new" \notin g.faults
  PROVE  Spec => []StillTrying
<1>1. IInv => StillTrying
  <2> SUFFICES ASSUME IInv, NEW c \in Conns, cfg.client, cfg.reconnect,
                      conn[c].st = "CLIENT", ~conn[c].timer
               PROVE  \E p \in Pcbs : conn[c].pcb = p /\ pcb[p].arg = c /\ pcb[p].err
                                        /\ pcb[p].poll
    BY DEF StillTrying
  <2>1. Good(Now) /\ Now \in State /\ Now.conn = conn /\ Now.pcb = pcb /\ cfg \in Cfgs
    BY DEF IInv, Good, Now
  <2>2. conn[c] \in ConnRec /\ ConnOk(Now, c)  BY <2>1, StateIs DEF Good
  <2>3. Eternal  BY <2>1 DEF Eternal
  <2>4. conn[c].pcb # None  BY <2>1, <2>2, <2>3 DEF ConnOk
  <2>5. conn[c].pcb \in Pcbs  BY <2>2, <2>4 DEF ConnRec
  <2>6. /\ pcb[conn[c].pcb].arg = c /\ pcb[conn[c].pcb].poll
        /\ pcb[conn[c].pcb].err
    BY <2>1, <2>2, <2>4 DEF ConnOk
  <2> QED  BY <2>5, <2>6
<1> QED  BY <1>1, Invariance, PTL
=============================================================================
