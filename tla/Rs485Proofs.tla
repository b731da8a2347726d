---------------------------- MODULE Rs485Proofs ----------------------------
(***************************************************************************)
(* Theorems about the RS-485 driver: no message is lost or freed while it  *)
(* is sent, the bus does not fall silent, nobody sends too early, and the  *)
(* counters of the transactors are right, for any number of messages and   *)
(* transactors and any setting.                                            *)
(*                                                                         *)
(* A step of Rs485 goes through several functions, each of which takes a   *)
(* state to a state, or to a set of them.  The invariant is therefore a    *)
(* property Good(s) of such a state; there is one lemma for each function, *)
(* in the order in which they call each other, and then one for each step. *)
(* The counters come after that, on top of Good, in the same order.        *)
(***************************************************************************)
EXTENDS Rs485, SequenceTheorems, FiniteSetTheorems, WellFoundedInduction, TLAPS

(***************************************************************************)
(* Least elements                                                          *)
(***************************************************************************)
\* A non-empty set of naturals has a least element.
LEMMA LeastNatural ==
  ASSUME NEW S \in SUBSET Nat, S # {}
  PROVE  \E x \in S : \A y \in S : x <= y
<1> DEFINE R == OpToRel(<, Nat)
<1>1. \E x \in S : \A y \in S : ~ (<<y, x>> \in R)
  <2>1. IsWellFoundedOn(R, Nat)  BY NatLessThanWellFounded
  <2> HIDE DEF R
  <2> QED  BY <2>1, WFMin
<1>2. \A x, y \in Nat : y < x => <<y, x>> \in R
  BY DEF OpToRel
<1>3. PICK x \in S : \A y \in S : ~ (<<y, x>> \in R)  BY <1>1
<1>4. \A y \in S : ~ (y < x)  BY <1>2, <1>3
<1> QED  BY <1>4

(***************************************************************************)
(* The inductive invariant, as a property of a state s of the functions.   *)
(***************************************************************************)
State == [drv : Driver, msg : [Blocks -> Msg], txmsgs : Seq(Blocks),
          tasks : Seq({"RX_OK", "TX_OK"}), trn : [Trns -> [fifo : Nat, start : BOOLEAN]],
          bus : [left : Nat, asked : BOOLEAN], quiet : SUBSET (Timers \cup {"over"})]

Typed(s) == s \in State /\ Len(s.tasks) <= TaskLen

Members(q) == {q[i] : i \in 1 .. Len(q)}

InUse(m) == {b \in Blocks : m[b].used}

\* The messages in use are those of the queue q, once each, and the current one c; after
\* a stop there may be others.
Owns(q, c, U) == /\ \A i, j \in 1 .. Len(q) : q[i] = q[j] => i = j
                 /\ c \notin Members(q)
                 /\ Members(q) \cup ({c} \ {None}) \subseteq U
                 /\ "stop" \notin cfg.faults => U \subseteq Members(q) \cup {c}

Owned(s) == Owns(s.txmsgs, s.drv.cur, InUse(s.msg))

\* What is sent is the current message, and the task has no event then, nor when the
\* driver may send.
Line(s) ==
  Punctual =>
    /\ s.drv.status = "tx" => /\ s.drv.pbufo # None /\ s.drv.cur = s.drv.pbufo
                              /\ s.tasks = <<>> /\ "over" \in s.quiet
    /\ s.drv.flg.ready => s.tasks = <<>>

\* Who may send, or will be told by a timer that he may, has waited for the pause.
Paused(s) ==
  Punctual =>
    /\ s.drv.status = "rx" /\ s.drv.flg.ready /\ LineFree(s) => "over" \in s.quiet
    /\ s.drv.timerp /\ LineFree(s) /\ s.tasks = <<>> => "timerp" \in s.quiet \/ "over" \in s.quiet

Off(s) == s.drv.status = "off" => ~s.drv.timerp /\ ~s.drv.timerw

Runs(s) == \/ s.drv.timerp \/ s.drv.timerw
           \/ s.tasks # <<>>
           \/ s.drv.fifo \/ s.drv.flg.chars

\* A driver that waits for nothing may send, and has nothing to send.
Awake(s) == s.drv.status = "rx" =>
              Runs(s) \/ (s.drv.flg.ready /\ s.drv.cur = None /\ s.txmsgs = <<>>)

Sound(s) == Typed(s) /\ Owned(s) /\ Line(s) /\ Paused(s) /\ Off(s)

Good(s) == Sound(s) /\ Awake(s)

IInv == cfg \in Cfgs /\ Good(Now)

(***************************************************************************)
(* The queue and the messages in use.                                      *)
(***************************************************************************)
\* The next message is taken from the queue (get_next_tx_msg).
LEMMA TakeOwns ==
  ASSUME NEW q \in Seq(Blocks), q # <<>>, NEW U \in SUBSET Blocks, Owns(q, None, U)
  PROVE  /\ Tail(q) \in Seq(Blocks) /\ Head(q) \in Blocks
         /\ Owns(Tail(q), Head(q), U)
         /\ Members(q) = Members(Tail(q)) \cup {Head(q)} /\ Head(q) \notin Members(Tail(q))
<1> DEFINE r == Tail(q)
<1>1. Len(q) \in Nat \ {0} /\ Len(r) = Len(q) - 1 /\ r \in Seq(Blocks) /\ Head(q) = q[1]
  BY EmptySeq, HeadTailProperties, LenProperties
<1>2. \A i \in 1 .. Len(r) : i + 1 \in 1 .. Len(q) /\ r[i] = q[i + 1]
  BY <1>1, HeadTailProperties
<1>3. \A i \in 1 .. Len(q) : q[i] \in Blocks  BY ElementOfSeq
<1>4. 1 \in 1 .. Len(q)  BY <1>1
<1> HIDE DEF r
<1>5. \A i, j \in 1 .. Len(r) : r[i] = r[j] => i = j
  <2> TAKE i, j \in 1 .. Len(r)
  <2> HAVE r[i] = r[j]
  <2>1. q[i + 1] = q[j + 1]  BY <1>2
  <2>2. i + 1 = j + 1  BY <1>2, <2>1 DEF Owns
  <2> QED  BY <1>1, <2>2
<1>6. \A i \in 1 .. Len(r) : r[i] # Head(q)
  <2> TAKE i \in 1 .. Len(r)
  <2>1. ASSUME r[i] = Head(q)  PROVE FALSE
    <3>1. q[i + 1] = q[1]  BY <1>1, <1>2, <2>1
    <3>2. i + 1 = 1  BY <1>2, <1>4, <3>1 DEF Owns
    <3> QED  BY <1>1, <3>2
  <2> QED  BY <2>1
<1>7. Members(q) = Members(r) \cup {Head(q)}
  <2>1. \A x \in Members(q) : x = Head(q) \/ x \in Members(r)
    <3> SUFFICES ASSUME NEW i \in 1 .. Len(q)  PROVE q[i] = Head(q) \/ q[i] \in Members(r)
      BY DEF Members
    <3>1. CASE i = 1  BY <1>1, <3>1
    <3>2. CASE i # 1
      <4>1. i - 1 \in 1 .. Len(r) /\ (i - 1) + 1 = i  BY <1>1, <3>2
      <4>2. q[i] = r[i - 1]  BY <1>2, <4>1
      <4> QED  BY <4>1, <4>2 DEF Members
    <3> QED  BY <3>1, <3>2
  <2>2. Members(r) \subseteq Members(q)  BY <1>2 DEF Members
  <2>3. Head(q) \in Members(q)  BY <1>1, <1>4 DEF Members
  <2> QED  BY <2>1, <2>2, <2>3
<1>8. Head(q) \in Blocks /\ Head(q) # None  BY <1>1, <1>3, <1>4, BusAssumption
<1>9. Head(q) \notin Members(r)  BY <1>6 DEF Members
<1>10. /\ Members(q) \subseteq U
       /\ "stop" \notin cfg.faults => U \subseteq Members(q)
  BY BusAssumption DEF Owns
<1>11. Owns(r, Head(q), U)
  <2>1. Members(r) \cup ({Head(q)} \ {None}) \subseteq U  BY <1>7, <1>10
  <2>2. "stop" \notin cfg.faults => U \subseteq Members(r) \cup {Head(q)}  BY <1>7, <1>10
  <2> QED  BY <1>5, <1>9, <2>1, <2>2 DEF Owns
<1> QED  BY <1>1, <1>7, <1>8, <1>9, <1>11 DEF r

\* A message put at the head of the queue (mdb_start_trn)
LEMMA FirstOwns ==
  ASSUME NEW q \in Seq(Blocks), NEW U \in SUBSET Blocks, NEW c, Owns(q, c, U),
         NEW b \in Blocks \ U
  PROVE  /\ <<b>> \o q \in Seq(Blocks) /\ <<b>> \o q # <<>>
         /\ Owns(<<b>> \o q, c, U \cup {b})
         /\ Members(<<b>> \o q) = Members(q) \cup {b}
<1> DEFINE r == <<b>> \o q
<1>1. r \in Seq(Blocks) /\ Len(r) = Len(q) + 1 /\ Len(q) \in Nat /\ r # <<>>
  BY ConcatProperties, LenProperties, EmptySeq
<1>2. \A i \in 1 .. Len(r) : r[i] = IF i = 1 THEN b ELSE q[i - 1]
  BY <1>1, ConcatProperties
<1> HIDE DEF r
<1>3. \A i \in 1 .. Len(q) : q[i] \in Members(q)  BY DEF Members
<1>4. b \notin Members(q) /\ b # c  BY BusAssumption DEF Owns
<1>5. \A i, j \in 1 .. Len(r) : r[i] = r[j] => i = j
  <2> TAKE i, j \in 1 .. Len(r)
  <2> HAVE r[i] = r[j]
  <2>1. CASE i = 1
    <3>1. j # 1 => j - 1 \in 1 .. Len(q) /\ r[j] = q[j - 1]  BY <1>1, <1>2
    <3> QED  BY <1>2, <1>3, <1>4, <2>1, <3>1
  <2>2. CASE j = 1
    <3>1. i # 1 => i - 1 \in 1 .. Len(q) /\ r[i] = q[i - 1]  BY <1>1, <1>2
    <3> QED  BY <1>2, <1>3, <1>4, <2>2, <3>1
  <2>3. CASE i # 1 /\ j # 1
    <3>1. i - 1 \in 1 .. Len(q) /\ r[i] = q[i - 1]  BY <1>1, <1>2, <2>3
    <3>2. j - 1 \in 1 .. Len(q) /\ r[j] = q[j - 1]  BY <1>1, <1>2, <2>3
    <3>3. i - 1 = j - 1  BY <3>1, <3>2 DEF Owns
    <3> QED  BY <3>3
  <2> QED  BY <2>1, <2>2, <2>3
<1>6. Members(r) = {b} \cup Members(q)
  <2>1. \A i \in 1 .. Len(r) : i # 1 => i - 1 \in 1 .. Len(q) /\ r[i] = q[i - 1]
    BY <1>1, <1>2
  <2>2. Members(r) \subseteq {b} \cup Members(q)  BY <1>2, <2>1 DEF Members
  <2>3. \A i \in 1 .. Len(q) : q[i] \in Members(r)
    <3> TAKE i \in 1 .. Len(q)
    <3>1. i + 1 \in 1 .. Len(r) /\ r[i + 1] = q[i]  BY <1>1, <1>2
    <3> QED  BY <3>1 DEF Members
  <2>4. 1 \in 1 .. Len(r) /\ r[1] = b  BY <1>1, <1>2
  <2> QED  BY <2>2, <2>3, <2>4 DEF Members
<1>7. Owns(r, c, U \cup {b})
  <2>1. Members(r) \cup ({c} \ {None}) \subseteq U \cup {b}  BY <1>6 DEF Owns
  <2>2. "stop" \notin cfg.faults => U \cup {b} \subseteq Members(r) \cup {c}  BY <1>6 DEF Owns
  <2>3. c \notin Members(r)  BY <1>4, <1>6 DEF Owns
  <2> QED  BY <1>5, <2>1, <2>2, <2>3 DEF Owns
<1> QED  BY <1>1, <1>6, <1>7 DEF r

\* A message put at the end of the queue (rs485_add_tx_msg for TCP)
LEMMA LastOwns ==
  ASSUME NEW q \in Seq(Blocks), NEW U \in SUBSET Blocks, NEW c, Owns(q, c, U),
         NEW b \in Blocks \ U
  PROVE  /\ Append(q, b) \in Seq(Blocks) /\ Append(q, b) # <<>>
         /\ Owns(Append(q, b), c, U \cup {b})
         /\ Members(Append(q, b)) = Members(q) \cup {b}
<1> DEFINE r == Append(q, b)
           n == Len(q)
<1>1. r \in Seq(Blocks) /\ Len(r) = n + 1 /\ n \in Nat /\ r # <<>>
  BY AppendProperties, LenProperties, EmptySeq
<1>2. r[n + 1] = b /\ \A i \in 1 .. n : r[i] = q[i]
  BY AppendProperties
<1> HIDE DEF r, n
<1>3. \A i \in 1 .. n : q[i] \in Members(q)  BY DEF Members, n
<1>4. b \notin Members(q) /\ b # c  BY BusAssumption DEF Owns
<1>5. \A i \in 1 .. Len(r) : i = n + 1 \/ i \in 1 .. n  BY <1>1
<1>6. \A i, j \in 1 .. n : q[i] = q[j] => i = j  BY DEF Owns, n
<1>7. \A i, j \in 1 .. Len(r) : r[i] = r[j] => i = j
  BY <1>2, <1>3, <1>4, <1>5, <1>6
<1>8. Members(r) = {b} \cup Members(q)
  <2>1. Members(r) \subseteq {b} \cup Members(q)  BY <1>2, <1>3, <1>5 DEF Members
  <2>2. n + 1 \in 1 .. Len(r) /\ \A i \in 1 .. n : i \in 1 .. Len(r)  BY <1>1
  <2> QED  BY <1>2, <2>1, <2>2 DEF Members, n
<1>9. Owns(r, c, U \cup {b})
  <2>1. Members(r) \cup ({c} \ {None}) \subseteq U \cup {b}  BY <1>8 DEF Owns
  <2>2. "stop" \notin cfg.faults => U \cup {b} \subseteq Members(r) \cup {c}  BY <1>8 DEF Owns
  <2>3. c \notin Members(r)  BY <1>4, <1>8 DEF Owns
  <2> QED  BY <1>7, <2>1, <2>2, <2>3 DEF Owns
<1> QED  BY <1>1, <1>8, <1>9 DEF r

\* The current message is freed (rs485_free_tx_msg).
LEMMA DropOwns ==
  ASSUME NEW q \in Seq(Blocks), NEW U \in SUBSET Blocks, NEW c \in Blocks, Owns(q, c, U)
  PROVE  Owns(q, None, U \ {c})
<1>1. Members(q) \subseteq Blocks  BY ElementOfSeq DEF Members
<1>2. None \notin Members(q)  BY <1>1, BusAssumption
<1> QED  BY <1>2 DEF Owns

(***************************************************************************)
(* What the functions do to a state.                                       *)
(***************************************************************************)
\* The message queue, the messages and the current one
SameMsgs(s, t) == t.msg = s.msg /\ t.txmsgs = s.txmsgs /\ t.drv.cur = s.drv.cur

SameTimers(s, t) == t.drv.timerp = s.drv.timerp /\ t.drv.timerw = s.drv.timerw

\* The event e waits for the task.
HasEvent(s, e) == \E j \in 1 .. Len(s.tasks) : s.tasks[j] = e

\* What the flags say of the message and of its transactor
SameNote(f, g) == g.int = f.int /\ g.reset = f.reset /\ g.only = f.only /\ g.num = f.num

\* An event is in the task's queue afterwards, this one or those that fill it.
LEMMA PostIs ==
  ASSUME NEW s, Typed(s), NEW sig \in {"RX_OK", "TX_OK"}
  PROVE  LET t == Post(s, sig)
         IN  /\ Typed(t) /\ t.tasks # <<>>
             /\ t.drv = s.drv /\ t.msg = s.msg /\ t.txmsgs = s.txmsgs /\ t.trn = s.trn
             /\ t.bus = s.bus /\ t.quiet = s.quiet
             /\ \A e : HasEvent(t, e) => HasEvent(s, e) \/ e = sig
<1> DEFINE q == Append(s.tasks, sig)
<1>1. s \in State /\ s.tasks \in Seq({"RX_OK", "TX_OK"}) /\ Len(s.tasks) \in Nat /\ Len(<<>>) = 0
  BY LenProperties DEF Typed, State
<1>2. q \in Seq({"RX_OK", "TX_OK"}) /\ Len(q) = Len(s.tasks) + 1
  BY <1>1, AppendProperties
<1>3. TaskLen \in Nat \ {0}  BY BusAssumption
<1> HIDE DEF q
<1>4. CASE Len(s.tasks) < TaskLen
  <2>1. Post(s, sig) = [s EXCEPT !.tasks = q]  BY <1>4 DEF Post, q
  <2>2. [s EXCEPT !.tasks = q] \in State  BY <1>1, <1>2 DEF State
  <2>3. Len(q) <= TaskLen /\ q # <<>>  BY <1>1, <1>2, <1>3, <1>4
  <2>4. \A j \in 1 .. Len(q) : (j \in 1 .. Len(s.tasks) /\ q[j] = s.tasks[j]) \/ q[j] = sig
    BY <1>1, AppendProperties DEF q
  <2> QED  BY <1>1, <2>1, <2>2, <2>3, <2>4 DEF Typed, State, HasEvent
<1>5. CASE ~ (Len(s.tasks) < TaskLen)
  <2>1. Post(s, sig) = s  BY <1>5 DEF Post
  <2>2. s.tasks # <<>>  BY <1>1, <1>3, <1>5
  <2> QED  BY <2>1, <2>2 DEF Typed
<1> QED  BY <1>4, <1>5

\* The interrupt (rs485_uart_isr): the driver receives afterwards, and it has more
\* characters, or the task has an event and nobody may send.
LEMMA IsrIs ==
  ASSUME NEW s, Typed(s), NEW t \in Isr(s)
  PROVE  /\ Typed(t) /\ SameMsgs(s, t) /\ SameTimers(s, t) /\ t.trn = s.trn
         /\ s.drv.status \in {"rx", "tx"} /\ t.drv.status = "rx"
         /\ \/ /\ t.drv.flg.chars
               /\ t.tasks = s.tasks /\ t.quiet = s.quiet /\ t.drv.flg.ready = s.drv.flg.ready
            \/ t.tasks # <<>> /\ ~t.drv.flg.ready /\ LineFree(t)
         /\ SameNote(s.drv.flg, t.drv.flg)
         /\ \/ /\ s.drv.status = "tx" /\ t.drv.flg.txend /\ ~t.drv.flg.ready /\ LineFree(t)
               /\ t.bus.left = s.bus.left /\ t.bus.asked = ~s.drv.flg.only
               /\ \A e : HasEvent(t, e) => HasEvent(s, e) \/ e = "TX_OK"
            \/ /\ s.drv.status = "rx" /\ t.drv.flg.txend = s.drv.flg.txend /\ t.bus = s.bus
               /\ ~LineFree(s)
               /\ \A e : HasEvent(t, e) => HasEvent(s, e) \/ e = "RX_OK"
<1>1. s \in State /\ s.drv \in Driver /\ s.drv.flg \in Flags  BY DEF Typed, State, Driver
<1>2. CASE t = TxTout(s) /\ s.drv.status = "tx"
  <2> DEFINE d == [s.drv EXCEPT !.status = "rx", !.fifo = FALSE, !.pbufo = None,
                                !.flg.chars = FALSE, !.flg.ready = FALSE, !.flg.txend = TRUE]
             a == [s.bus EXCEPT !.asked = ~s.drv.flg.only]
             u == [s EXCEPT !.drv = d, !.bus = a, !.quiet = {}]
  <2>1. d \in Driver  BY <1>1 DEF Driver, Flags
  <2>2. a \in [left : Nat, asked : BOOLEAN]  BY <1>1 DEF State, Flags
  <2>3. /\ d.status = "rx" /\ ~d.flg.ready /\ d.cur = s.drv.cur
        /\ d.timerp = s.drv.timerp /\ d.timerw = s.drv.timerw
        /\ ~d.fifo /\ ~d.flg.chars /\ d.flg.txend /\ SameNote(s.drv.flg, d.flg)
    BY <1>1 DEF Driver, Flags, SameNote
  <2>6. a.left = s.bus.left /\ a.asked = ~s.drv.flg.only  BY <1>1 DEF State
  <2>4. t = Post(u, "TX_OK")  BY <1>2 DEF TxTout
  <2> HIDE DEF d, a
  <2>5. /\ Typed(u) /\ u.drv = d /\ u.msg = s.msg /\ u.txmsgs = s.txmsgs /\ u.trn = s.trn
        /\ u.bus = a /\ u.tasks = s.tasks
    BY <1>1, <2>1, <2>2 DEF Typed, State
  <2> HIDE DEF u
  <2>7. /\ Typed(t) /\ t.drv = d /\ t.msg = s.msg /\ t.txmsgs = s.txmsgs /\ t.trn = s.trn
        /\ t.bus = a /\ t.tasks # <<>>
        /\ \A e : HasEvent(t, e) => HasEvent(u, e) \/ e = "TX_OK"
    BY <2>4, <2>5, PostIs
  <2>8. \A e : HasEvent(u, e) => HasEvent(s, e)  BY <2>5 DEF HasEvent
  <2> QED  BY <1>2, <2>3, <2>6, <2>7, <2>8 DEF SameMsgs, SameTimers, LineFree
<1>3. CASE t = RxFull(s) /\ s.drv.status = "rx" /\ ~LineFree(s)
  <2> DEFINE d == [s.drv EXCEPT !.fifo = FALSE, !.flg.chars = TRUE]
  <2>1. d \in Driver  BY <1>1 DEF Driver, Flags
  <2>2. /\ d.status = s.drv.status /\ d.flg.chars /\ d.flg.ready = s.drv.flg.ready
        /\ d.cur = s.drv.cur /\ d.timerp = s.drv.timerp /\ d.timerw = s.drv.timerw
        /\ d.flg.txend = s.drv.flg.txend /\ SameNote(s.drv.flg, d.flg)
    BY <1>1 DEF Driver, Flags, SameNote
  <2>3. t = [s EXCEPT !.drv = d]  BY <1>3 DEF RxFull
  <2> HIDE DEF d
  <2>4. /\ Typed(t) /\ t.drv = d /\ t.msg = s.msg /\ t.txmsgs = s.txmsgs /\ t.trn = s.trn
        /\ t.tasks = s.tasks /\ t.quiet = s.quiet /\ t.bus = s.bus
    BY <1>1, <2>1, <2>3 DEF Typed, State
  <2> QED  BY <1>3, <2>2, <2>4 DEF SameMsgs, SameTimers, HasEvent
<1>4. CASE t = RxTout(s) /\ s.drv.status = "rx" /\ ~LineFree(s)
  <2> DEFINE d == [s.drv EXCEPT !.fifo = FALSE, !.flg.chars = FALSE,
                                !.flg.ready = FALSE, !.flg.rxend = TRUE]
             u == [s EXCEPT !.drv = d, !.quiet = {}]
  <2>1. d \in Driver  BY <1>1 DEF Driver, Flags
  <2>2. /\ d.status = s.drv.status /\ ~d.flg.ready
        /\ d.cur = s.drv.cur /\ d.timerp = s.drv.timerp /\ d.timerw = s.drv.timerw
        /\ ~d.fifo /\ ~d.flg.chars
        /\ d.flg.txend = s.drv.flg.txend /\ SameNote(s.drv.flg, d.flg)
    BY <1>1 DEF Driver, Flags, SameNote
  <2>3. t = Post(u, "RX_OK")  BY <1>4 DEF RxTout
  <2> HIDE DEF d
  <2>4. /\ Typed(u) /\ u.drv = d /\ u.msg = s.msg /\ u.txmsgs = s.txmsgs /\ u.trn = s.trn
        /\ u.bus = s.bus /\ u.tasks = s.tasks
    BY <1>1, <2>1 DEF Typed, State
  <2> HIDE DEF u
  <2>5. /\ Typed(t) /\ t.drv = d /\ t.msg = s.msg /\ t.txmsgs = s.txmsgs /\ t.trn = s.trn
        /\ t.bus = s.bus /\ t.tasks # <<>>
        /\ \A e : HasEvent(t, e) => HasEvent(u, e) \/ e = "RX_OK"
    BY <2>3, <2>4, PostIs
  <2>6. \A e : HasEvent(u, e) => HasEvent(s, e)  BY <2>4 DEF HasEvent
  <2> QED  BY <1>4, <2>2, <2>5, <2>6 DEF SameMsgs, SameTimers, LineFree
<1>5. s.drv.status \in {"off", "rx", "tx"}  BY <1>1 DEF Driver
<1> QED  BY <1>2, <1>3, <1>4, <1>5 DEF Isr, LineFree

\* What an interrupt leaves intact.
LEMMA IsrGood ==
  ASSUME NEW s, Sound(s), NEW t \in Isr(s)
  PROVE  Good(t)
<1> USE DEF Sound
<1>1. Typed(t) /\ SameMsgs(s, t)  BY IsrIs
<1>2. Owned(t)  BY <1>1 DEF Owned, SameMsgs
<1>3. Line(t)  BY IsrIs DEF Line
<1>4. Paused(t)  BY IsrIs DEF Paused, LineFree
<1>5. Off(t) /\ Awake(t)  BY IsrIs DEF Off, Awake, Runs
<1> QED  BY <1>1, <1>2, <1>3, <1>4, <1>5 DEF Good

\* An interrupt may come or not, and comes only if interrupts do.
LEMMA PreemptIs ==
  ASSUME NEW s, Sound(s), NEW t \in Preempt(s)
  PROVE  /\ Sound(t) /\ SameMsgs(s, t) /\ SameTimers(s, t) /\ t.trn = s.trn
         /\ Punctual => t = s
         /\ s.drv.status \in {"rx", "off"} => t.drv.status = s.drv.status
         /\ Awake(s) => Awake(t)
<1>1. CASE t = s  BY <1>1 DEF SameMsgs, SameTimers
<1>2. CASE t \in Isr(s) /\ "preempt" \in cfg.faults
  <2>1. Good(t)  BY <1>2, IsrGood
  <2>2. ~Punctual  BY <1>2 DEF Punctual
  <2> QED  BY <1>2, <2>1, <2>2, IsrIs DEF Good, Sound
<1> QED  BY <1>1, <1>2 DEF Preempt

\* A timer is armed: the pause is counted from here.
LEMMA ArmIs ==
  ASSUME NEW s, Typed(s), NEW x \in Timers
  PROVE  LET t == Arm(s, x)
         IN  /\ Typed(t) /\ SameMsgs(s, t) /\ t.trn = s.trn /\ t.bus = s.bus
             /\ t.tasks = s.tasks /\ t.quiet = s.quiet \cup {x}
             /\ t.drv.status = s.drv.status /\ t.drv.flg = s.drv.flg
             /\ t.drv.pbufo = s.drv.pbufo /\ t.drv.fifo = s.drv.fifo
             /\ IF x = "timerp" THEN t.drv.timerp /\ t.drv.timerw = s.drv.timerw
                                ELSE t.drv.timerw /\ t.drv.timerp = s.drv.timerp
<1> DEFINE d == [s.drv EXCEPT ![x] = TRUE]
           z == s.quiet \cup {x}
           t == Arm(s, x)
<1>1. s \in State /\ s.drv \in Driver  BY DEF Typed, State
<1>2. /\ d \in Driver /\ d.status = s.drv.status /\ d.flg = s.drv.flg /\ d.cur = s.drv.cur
      /\ d.pbufo = s.drv.pbufo /\ d.fifo = s.drv.fifo
      /\ IF x = "timerp" THEN d.timerp /\ d.timerw = s.drv.timerw
                         ELSE d.timerw /\ d.timerp = s.drv.timerp
  <2>1. CASE x = "timerp"  BY <1>1, <2>1 DEF Driver
  <2>2. CASE x = "timerw"  BY <1>1, <2>2 DEF Driver
  <2> QED  BY <2>1, <2>2 DEF Timers
<1>3. z \in SUBSET (Timers \cup {"over"})  BY <1>1 DEF State
<1>4. t = [s EXCEPT !.drv = d, !.quiet = z]  BY DEF Arm
<1> HIDE DEF d, z, t
<1>5. /\ Typed(t) /\ t.drv = d /\ t.quiet = z /\ t.msg = s.msg /\ t.txmsgs = s.txmsgs
      /\ t.trn = s.trn /\ t.tasks = s.tasks /\ t.bus = s.bus
  BY <1>1, <1>2, <1>3, <1>4 DEF Typed, State
<1>6. SameMsgs(s, t)  BY <1>2, <1>5 DEF SameMsgs
<1> QED  BY <1>2, <1>5, <1>6 DEF t, z

\* The state s without the timer x
Without(s, x, z) == [s EXCEPT !.drv = [@ EXCEPT ![x] = FALSE], !.quiet = z]

\* A timer is disarmed or over.
LEMMA OffIs ==
  ASSUME NEW s, Typed(s), NEW x \in Timers, NEW z \in SUBSET (Timers \cup {"over"}),
         NEW t, t = Without(s, x, z)
  PROVE  /\ Typed(t) /\ SameMsgs(s, t) /\ t.trn = s.trn /\ t.bus = s.bus
         /\ t.tasks = s.tasks /\ t.quiet = z
         /\ t.drv.status = s.drv.status /\ t.drv.flg = s.drv.flg
         /\ t.drv.pbufo = s.drv.pbufo /\ t.drv.fifo = s.drv.fifo
         /\ IF x = "timerp" THEN ~t.drv.timerp /\ t.drv.timerw = s.drv.timerw
                            ELSE ~t.drv.timerw /\ t.drv.timerp = s.drv.timerp
<1> DEFINE d == [s.drv EXCEPT ![x] = FALSE]
<1>1. s \in State /\ s.drv \in Driver  BY DEF Typed, State
<1>2. /\ d \in Driver /\ d.status = s.drv.status /\ d.flg = s.drv.flg /\ d.cur = s.drv.cur
      /\ d.pbufo = s.drv.pbufo /\ d.fifo = s.drv.fifo
      /\ IF x = "timerp" THEN ~d.timerp /\ d.timerw = s.drv.timerw
                         ELSE ~d.timerw /\ d.timerp = s.drv.timerp
  <2>1. CASE x = "timerp"  BY <1>1, <2>1 DEF Driver
  <2>2. CASE x = "timerw"  BY <1>1, <2>2 DEF Driver
  <2> QED  BY <2>1, <2>2 DEF Timers
<1>3. t = [s EXCEPT !.drv = d, !.quiet = z]  BY DEF Without
<1> HIDE DEF d
<1>4. /\ Typed(t) /\ t.drv = d /\ t.quiet = z /\ t.msg = s.msg /\ t.txmsgs = s.txmsgs
      /\ t.trn = s.trn /\ t.tasks = s.tasks /\ t.bus = s.bus
  BY <1>1, <1>2, <1>3 DEF Typed, State
<1>5. SameMsgs(s, t)  BY <1>2, <1>4 DEF SameMsgs
<1> QED  BY <1>2, <1>4, <1>5

\* Arming a timer is sound, and somebody will come.
LEMMA ArmSound ==
  ASSUME NEW s, Sound(s), s.drv.status # "off", NEW x \in Timers
  PROVE  Good(Arm(s, x))
<1> DEFINE t == Arm(s, x)
<1>1. Typed(s)  BY DEF Sound
<1> HIDE DEF t
<1>2. Typed(t) /\ Owned(t)  BY <1>1, ArmIs DEF t, Owned, SameMsgs, Sound
<1>3. Line(t)  BY <1>1, ArmIs DEF t, Line, SameMsgs, Sound
<1>4. Paused(t)  BY <1>1, ArmIs DEF t, Paused, LineFree, Sound
<1>5. Off(t) /\ Awake(t)  BY <1>1, ArmIs DEF t, Off, Awake, Runs
<1> QED  BY <1>2, <1>3, <1>4, <1>5 DEF Good, Sound, t

\* The flags
LEMMA FlagsTyped ==
  /\ \A f \in Flags : Cleared(f) \in Flags
  /\ \A m \in Msg : MsgFlags(m) \in Flags /\ ~MsgFlags(m).ready /\ ~MsgFlags(m).chars
  /\ \A f, g \in Flags : Merged(f, g) \in Flags
<1>1. NoFlags \in Flags  BY DEF NoFlags, Flags
<1>2. ASSUME NEW f \in Flags  PROVE Cleared(f) \in Flags
  BY <1>1 DEF Cleared, Flags
<1>3. ASSUME NEW m \in Msg
      PROVE  MsgFlags(m) \in Flags /\ ~MsgFlags(m).ready /\ ~MsgFlags(m).chars
  <2> DEFINE n == IF m.trn = None THEN {} ELSE m.trn
             b == m.trn # None
  <2>1. n \in SUBSET Bits  BY DEF Msg, Bits
  <2>2. MsgFlags(m) = [NoFlags EXCEPT !.only = m.only, !.int = b, !.num = n]
    BY DEF MsgFlags
  <2>3. b \in BOOLEAN /\ m.only \in BOOLEAN  BY DEF Msg
  <2> HIDE DEF n, b
  <2> QED  BY <2>1, <2>2, <2>3 DEF NoFlags, Flags
<1>4. ASSUME NEW f \in Flags, NEW g \in Flags  PROVE Merged(f, g) \in Flags
  <2> DEFINE o == f.only \/ g.only
             i == f.int \/ g.int
             n == f.num \cup g.num
  <2>1. o \in BOOLEAN /\ i \in BOOLEAN /\ n \in SUBSET Bits  BY DEF Flags
  <2>2. Merged(f, g) = [f EXCEPT !.rxend = FALSE, !.txend = FALSE, !.only = o, !.int = i, !.num = n]
    BY DEF Merged
  <2> HIDE DEF o, i, n
  <2> QED  BY <2>1, <2>2 DEF Flags
<1> QED  BY <1>2, <1>3, <1>4

\* Clearing and merging flags keep what the line says.
LEMMA FlagsKept ==
  /\ \A f \in Flags : Cleared(f).ready = f.ready /\ Cleared(f).chars = f.chars
  /\ \A f, g \in Flags : Merged(f, g).ready = f.ready /\ Merged(f, g).chars = f.chars
<1>1. ASSUME NEW f \in Flags  PROVE Cleared(f).ready = f.ready /\ Cleared(f).chars = f.chars
  BY DEF Cleared, Flags, NoFlags
<1>2. ASSUME NEW f \in Flags, NEW g \in Flags
      PROVE Merged(f, g).ready = f.ready /\ Merged(f, g).chars = f.chars
  BY DEF Merged, Flags
<1> QED  BY <1>1, <1>2

\* The current message is freed, if there is one.
LEMMA FreeTxMsgIs ==
  ASSUME NEW s, Typed(s), Owned(s)
  PROVE  LET t == FreeTxMsg(s)
         IN  /\ Typed(t) /\ Owned(t) /\ SameTimers(s, t) /\ t.trn = s.trn /\ t.bus = s.bus
             /\ t.drv.cur = None /\ t.txmsgs = s.txmsgs
             /\ \A b \in Blocks : t.msg[b] = IF b = s.drv.cur THEN FreeMsg ELSE s.msg[b]
             /\ t.drv.status = s.drv.status /\ t.drv.flg = s.drv.flg
             /\ t.drv.pbufo = s.drv.pbufo /\ t.drv.fifo = s.drv.fifo
             /\ t.tasks = s.tasks /\ t.quiet = s.quiet
<1>1. CASE s.drv.cur = None  BY <1>1, BusAssumption DEF FreeTxMsg, SameTimers
<1>2. CASE s.drv.cur # None
  <2> DEFINE c == s.drv.cur
             m == [s.msg EXCEPT ![s.drv.cur] = FreeMsg]
             d == [s.drv EXCEPT !.cur = None]
             t == FreeTxMsg(s)
  <2>1. s \in State /\ s.drv \in Driver /\ s.msg \in [Blocks -> Msg] /\ c \in Blocks
        /\ s.txmsgs \in Seq(Blocks)
    BY <1>2 DEF Typed, State, Driver
  <2>2. m \in [Blocks -> Msg] /\ InUse(m) = InUse(s.msg) \ {c}
    BY <2>1 DEF FreeMsg, Msg, InUse
  <2>3. /\ d \in Driver /\ d.cur = None
        /\ d.timerp = s.drv.timerp /\ d.timerw = s.drv.timerw
        /\ d.status = s.drv.status /\ d.flg = s.drv.flg
        /\ d.pbufo = s.drv.pbufo /\ d.fifo = s.drv.fifo
    BY <2>1 DEF Driver
  <2>4. t = [s EXCEPT !.msg = m, !.drv = d]  BY <1>2 DEF FreeTxMsg
  <2> HIDE DEF m, d, t
  <2>5. /\ Typed(t) /\ t.drv = d /\ t.msg = m /\ t.txmsgs = s.txmsgs /\ t.trn = s.trn
        /\ t.tasks = s.tasks /\ t.quiet = s.quiet /\ t.bus = s.bus
    BY <2>1, <2>2, <2>3, <2>4 DEF Typed, State
  <2>8. \A b \in Blocks : m[b] = IF b = c THEN FreeMsg ELSE s.msg[b]  BY <2>1 DEF m
  <2>6. InUse(s.msg) \in SUBSET Blocks  BY DEF InUse
  <2>7. Owned(t)  BY <2>1, <2>2, <2>3, <2>5, <2>6, DropOwns DEF Owned
  <2> QED  BY <2>3, <2>5, <2>7, <2>8 DEF SameTimers, t
<1> QED  BY <1>1, <1>2

\* The flags name a transactor that is to be told.
Tells(s) == s.drv.flg.int /\ ~s.drv.flg.reset /\ s.drv.flg.num \in Trns

\* One message less
Minus(n) == IF n = 0 THEN 0 ELSE n - 1

\* The transactor is told: only the account of transactors changes, and what an interrupt
\* in the middle does.
LEMMA ResetTrnIs ==
  ASSUME NEW s, Sound(s), s.drv.status \in {"rx", "off"}, NEW u \in ResetTrn(s)
  PROVE  /\ Sound(u) /\ SameMsgs(s, u) /\ SameTimers(s, u)
         /\ u.drv.status = s.drv.status
         /\ u.drv.flg.ready = s.drv.flg.ready /\ u.drv.flg.chars = s.drv.flg.chars
         /\ Punctual => /\ u.tasks = s.tasks /\ u.quiet = s.quiet /\ u.drv.fifo = s.drv.fifo
                        /\ u.bus = s.bus
         /\ ~Tells(s) => u = s
         /\ Tells(s) => /\ u.drv.flg = [s.drv.flg EXCEPT !.reset = TRUE]
                        /\ \A j \in Trns :
                             u.trn[j].fifo = IF j = s.drv.flg.num THEN Minus(s.trn[j].fifo)
                                                                  ELSE s.trn[j].fifo
<1> DEFINE i == s.drv.flg.num
           n == IF s.trn[i].fifo = 0 THEN 0 ELSE s.trn[i].fifo - 1
           r == [s.trn EXCEPT ![i].fifo = n, ![i].start = n # 0 /\ s.trn[i].start]
           d == [s.drv EXCEPT !.flg.reset = TRUE]
           t == [s EXCEPT !.trn = r, !.drv = d]
<1>1. s \in State /\ s.drv \in Driver /\ s.drv.flg \in Flags /\ Typed(s)
  BY DEF Sound, Typed, State, Driver
<1>2. CASE ~Tells(s) /\ u = s  BY <1>2 DEF SameMsgs, SameTimers
<1>3. CASE /\ Tells(s)
           /\ i \in Trns
           /\ u \in {[v EXCEPT !.drv = [@ EXCEPT !.flg = t.drv.flg]] : v \in Preempt(t)}
  <2> PICK v \in Preempt(t) : u = [v EXCEPT !.drv = [@ EXCEPT !.flg = t.drv.flg]]
    BY <1>3
  <2>1. r \in [Trns -> [fifo : Nat, start : BOOLEAN]]
    <3>1. s.trn \in [Trns -> [fifo : Nat, start : BOOLEAN]]  BY <1>1 DEF State
    <3> DEFINE f == s.trn[i].fifo
    <3>2. f \in Nat /\ s.trn[i].start \in BOOLEAN /\ i \in Trns  BY <1>3, <3>1
    <3> HIDE DEF f
    <3>3. (IF f = 0 THEN 0 ELSE f - 1) \in Nat  BY <3>2
    <3>4. n \in Nat  BY <3>3 DEF f
    <3> DEFINE g == n # 0 /\ s.trn[i].start
    <3>5. g \in BOOLEAN  BY <3>2
    <3> HIDE DEF n, g
    <3>6. [s.trn EXCEPT ![i].fifo = n, ![i].start = g] \in [Trns -> [fifo : Nat, start : BOOLEAN]]
      <4> HIDE DEF i
      <4> QED  BY <3>1, <3>2, <3>4, <3>5
    <3> QED  BY <3>6 DEF g
  <2>2. /\ d \in Driver /\ d.cur = s.drv.cur /\ d.status = s.drv.status
        /\ d.timerp = s.drv.timerp /\ d.timerw = s.drv.timerw
        /\ d.fifo = s.drv.fifo /\ d.pbufo = s.drv.pbufo
        /\ d.flg.ready = s.drv.flg.ready /\ d.flg.chars = s.drv.flg.chars
        /\ d.flg \in Flags
    BY <1>1 DEF Driver, Flags
  <2>15. d.flg = [s.drv.flg EXCEPT !.reset = TRUE]  BY <1>1 DEF Driver
  <2>16. \A j \in Trns : r[j].fifo = IF j = i THEN Minus(s.trn[j].fifo) ELSE s.trn[j].fifo
    BY <1>1 DEF State, Minus
  <2> HIDE DEF r, d, i
  <2>3. /\ Typed(t) /\ t.drv = d /\ t.msg = s.msg /\ t.txmsgs = s.txmsgs
        /\ t.tasks = s.tasks /\ t.quiet = s.quiet /\ t.trn = r /\ t.bus = s.bus
    BY <1>1, <2>1, <2>2 DEF Typed, State
  <2> HIDE DEF t
  <2>4. Sound(t)
    <3>1. Owned(t)  BY <2>2, <2>3 DEF Sound, Owned
    <3>2. Line(t)  BY <2>2, <2>3 DEF Sound, Line
    <3>3. Paused(t)  BY <2>2, <2>3 DEF Sound, Paused, LineFree
    <3>4. Off(t)  BY <2>2, <2>3 DEF Sound, Off
    <3> QED  BY <2>3, <3>1, <3>2, <3>3, <3>4 DEF Sound
  <2>5. /\ Sound(v) /\ SameMsgs(t, v) /\ SameTimers(t, v) /\ v.trn = t.trn
        /\ Punctual => v = t
        /\ v.drv.status = s.drv.status
    BY <2>2, <2>3, <2>4, PreemptIs
  <2> DEFINE e == [v.drv EXCEPT !.flg = d.flg]
  <2>6. v \in State /\ v.drv \in Driver /\ Typed(v)  BY <2>5 DEF Sound, Typed, State
  <2>7. /\ e \in Driver /\ e.flg = d.flg /\ e.cur = v.drv.cur /\ e.status = v.drv.status
        /\ e.timerp = v.drv.timerp /\ e.timerw = v.drv.timerw
        /\ e.fifo = v.drv.fifo /\ e.pbufo = v.drv.pbufo
    BY <2>2, <2>6 DEF Driver
  <2>8. u = [v EXCEPT !.drv = e]  BY <2>3
  <2> HIDE DEF e
  <2>9. /\ Typed(u) /\ u.drv = e /\ u.msg = v.msg /\ u.txmsgs = v.txmsgs
        /\ u.tasks = v.tasks /\ u.quiet = v.quiet /\ u.trn = v.trn /\ u.bus = v.bus
    BY <2>6, <2>7, <2>8 DEF Typed, State
  <2>10. SameMsgs(s, u) /\ SameTimers(s, u)
    BY <2>2, <2>3, <2>5, <2>7, <2>9 DEF SameMsgs, SameTimers
  <2>11. u.drv.status = s.drv.status
    BY <2>5, <2>7, <2>9
  <2>12. u.drv.flg.ready = s.drv.flg.ready /\ u.drv.flg.chars = s.drv.flg.chars
    BY <2>2, <2>7, <2>9
  <2>13. Punctual => /\ u.tasks = s.tasks /\ u.quiet = s.quiet /\ u.drv.fifo = s.drv.fifo
                     /\ u.bus = s.bus
    BY <2>2, <2>3, <2>5, <2>7, <2>9
  <2>17. /\ u.drv.flg = [s.drv.flg EXCEPT !.reset = TRUE]
         /\ \A j \in Trns : u.trn[j].fifo = IF j = i THEN Minus(s.trn[j].fifo) ELSE s.trn[j].fifo
    <3>1. u.trn = r  BY <2>3, <2>5, <2>9
    <3>2. u.drv.flg = d.flg  BY <2>7, <2>9
    <3>3. u.drv.flg = [s.drv.flg EXCEPT !.reset = TRUE]  BY <2>15, <3>2
    <3> HIDE DEF t
    <3> QED  BY <2>16, <3>1, <3>3
  <2>14. Sound(u)
    <3>1. Owned(u)  BY <2>10 DEF Sound, Owned, SameMsgs
    <3>2. Line(u)  BY <2>11, <2>12, <2>13 DEF Sound, Line
    <3>3. Paused(u)  BY <2>10, <2>11, <2>12, <2>13 DEF Sound, Paused, LineFree, SameTimers
    <3>4. Off(u)  BY <2>10, <2>11 DEF Sound, Off, SameTimers
    <3> QED  BY <2>9, <3>1, <3>2, <3>3, <3>4 DEF Sound
  <2> QED  BY <1>3, <2>10, <2>11, <2>12, <2>13, <2>14, <2>17 DEF i
<1> QED  BY <1>2, <1>3 DEF ResetTrn, Tells

\* The next message becomes the current one, with a time-out.
LEMMA TakeNextIs ==
  ASSUME NEW s, Sound(s), s.drv.status = "rx", s.drv.cur = None
  PROVE  LET t == TakeNext(s)
         IN  /\ Sound(t) /\ t.drv.status = "rx"
             /\ t.drv.flg.ready = s.drv.flg.ready /\ t.drv.flg.chars = s.drv.flg.chars
             /\ t.drv.fifo = s.drv.fifo /\ t.tasks = s.tasks /\ s.quiet \subseteq t.quiet
             /\ \/ t.drv.cur = None /\ t.txmsgs = <<>> /\ SameTimers(s, t)
                \/ t.drv.cur # None /\ t.drv.timerw
             /\ t.msg = s.msg /\ t.trn = s.trn /\ t.bus = s.bus
             /\ \/ /\ t.drv.cur = None /\ t.txmsgs = s.txmsgs
                   /\ t.drv.flg = Cleared(s.drv.flg)
                \/ /\ t.drv.cur \in Blocks
                   /\ Members(s.txmsgs) = Members(t.txmsgs) \cup {t.drv.cur}
                   /\ t.drv.cur \notin Members(t.txmsgs)
                   /\ t.drv.flg = Merged(s.drv.flg, MsgFlags(s.msg[t.drv.cur]))
<1>1. s \in State /\ s.drv \in Driver /\ s.drv.flg \in Flags /\ Typed(s) /\ s.txmsgs \in Seq(Blocks)
  BY DEF Sound, Typed, State, Driver
<1>2. CASE s.txmsgs = <<>>
  <2> DEFINE g == Cleared(s.drv.flg)
             d == [s.drv EXCEPT !.flg = g]
             t == TakeNext(s)
  <2>1. g \in Flags /\ g.ready = s.drv.flg.ready /\ g.chars = s.drv.flg.chars
    BY <1>1, FlagsTyped, FlagsKept
  <2>2. t = [s EXCEPT !.drv = d]  BY <1>2 DEF TakeNext
  <2> HIDE DEF g, t
  <2>3. /\ d \in Driver /\ d.cur = s.drv.cur /\ d.status = s.drv.status /\ d.flg = g
        /\ d.timerp = s.drv.timerp /\ d.timerw = s.drv.timerw
        /\ d.fifo = s.drv.fifo
    BY <1>1, <2>1 DEF Driver
  <2> HIDE DEF d
  <2>4. /\ Typed(t) /\ t.drv = d /\ t.msg = s.msg /\ t.txmsgs = s.txmsgs
        /\ t.tasks = s.tasks /\ t.quiet = s.quiet /\ t.trn = s.trn /\ t.bus = s.bus
    BY <1>1, <2>2, <2>3 DEF Typed, State
  <2>5. Owned(t)  BY <2>3, <2>4 DEF Sound, Owned
  <2>6. Line(t)  BY <2>1, <2>3, <2>4 DEF Sound, Line
  <2>7. Paused(t)  BY <2>1, <2>3, <2>4 DEF Sound, Paused, LineFree
  <2>8. Off(t)  BY <2>3, <2>4 DEF Sound, Off
  <2>9. Sound(t)  BY <2>4, <2>5, <2>6, <2>7, <2>8 DEF Sound
  <2> QED  BY <1>2, <2>1, <2>3, <2>4, <2>9 DEF SameTimers, t, g
<1>3. CASE s.txmsgs # <<>>
  <2> DEFINE b == Head(s.txmsgs)
             q == Tail(s.txmsgs)
             g == Merged(s.drv.flg, MsgFlags(s.msg[b]))
             d == [s.drv EXCEPT !.cur = b, !.flg = g]
             t == [s EXCEPT !.drv = d, !.txmsgs = q]
  <2>1. InUse(s.msg) \in SUBSET Blocks /\ Owns(s.txmsgs, None, InUse(s.msg))
    BY DEF Sound, Owned, InUse
  <2>2. /\ b \in Blocks /\ q \in Seq(Blocks) /\ Owns(q, b, InUse(s.msg))
        /\ Members(s.txmsgs) = Members(q) \cup {b} /\ b \notin Members(q)
    BY <1>1, <1>3, <2>1, TakeOwns
  <2>3. s.msg[b] \in Msg  BY <1>1, <2>2 DEF State
  <2> HIDE DEF b, q
  <2>4. g \in Flags /\ g.ready = s.drv.flg.ready /\ g.chars = s.drv.flg.chars
    BY <1>1, <2>3, FlagsTyped, FlagsKept
  <2> HIDE DEF g
  <2>5. /\ d \in Driver /\ d.cur = b /\ d.status = s.drv.status /\ d.flg = g
        /\ d.timerp = s.drv.timerp /\ d.timerw = s.drv.timerw
        /\ d.fifo = s.drv.fifo
    BY <1>1, <2>2, <2>4 DEF Driver
  <2> HIDE DEF d
  <2>6. /\ Typed(t) /\ t.drv = d /\ t.msg = s.msg /\ t.txmsgs = q
        /\ t.tasks = s.tasks /\ t.quiet = s.quiet /\ t.trn = s.trn /\ t.bus = s.bus
    BY <1>1, <2>2, <2>5 DEF Typed, State
  <2>7. TakeNext(s) = Arm(t, "timerw")  BY <1>3 DEF TakeNext, b, q, d, g
  <2> HIDE DEF t
  <2>8. Sound(t)
    <3>1. Owned(t)  BY <2>2, <2>5, <2>6 DEF Owned
    <3>2. Line(t)  BY <2>4, <2>5, <2>6 DEF Sound, Line
    <3>3. Paused(t)  BY <2>4, <2>5, <2>6 DEF Sound, Paused, LineFree
    <3>4. Off(t)  BY <2>5, <2>6 DEF Sound, Off
    <3> QED  BY <2>6, <3>1, <3>2, <3>3, <3>4 DEF Sound
  <2>9. "timerw" \in Timers /\ b # None  BY <2>2, BusAssumption DEF Timers
  <2>10. Good(Arm(t, "timerw"))  BY <2>5, <2>6, <2>8, <2>9, ArmSound
  <2>11. /\ Arm(t, "timerw").drv.timerw /\ Arm(t, "timerw").drv.cur = b
         /\ Arm(t, "timerw").drv.status = d.status /\ Arm(t, "timerw").drv.flg = g
         /\ Arm(t, "timerw").drv.fifo = d.fifo
         /\ Arm(t, "timerw").tasks = t.tasks /\ t.quiet \subseteq Arm(t, "timerw").quiet
         /\ Arm(t, "timerw").msg = s.msg /\ Arm(t, "timerw").txmsgs = q
         /\ Arm(t, "timerw").trn = s.trn /\ Arm(t, "timerw").bus = s.bus
    BY <2>5, <2>6, <2>9, ArmIs DEF SameMsgs
  <2>12. g = Merged(s.drv.flg, MsgFlags(s.msg[b]))  BY DEF g
  <2> QED  BY <2>2, <2>4, <2>5, <2>6, <2>7, <2>9, <2>10, <2>11, <2>12 DEF Good
<1> QED  BY <1>2, <1>3

\* Nobody is waiting for a turn that the driver has forgotten.
LEMMA GetNextIs ==
  ASSUME NEW s, Sound(s), s.drv.status = "rx", NEW t \in GetNext(s)
  PROVE  /\ Sound(t) /\ t.drv.status = "rx"
         /\ t.drv.flg.ready = s.drv.flg.ready /\ t.drv.flg.chars = s.drv.flg.chars
         /\ Punctual => t.tasks = s.tasks /\ s.quiet \subseteq t.quiet /\ t.drv.fifo = s.drv.fifo
         /\ \/ s.drv.cur # None /\ t = s
            \/ t.drv.cur = None /\ t.txmsgs = <<>>
            \/ t.drv.cur # None /\ t.drv.timerw
<1>1. CASE s.drv.cur # None  BY <1>1 DEF GetNext
<1>2. CASE s.drv.cur = None
  <2>1. PICK u \in ResetTrn(s) : t = TakeNext(u)  BY <1>2 DEF GetNext
  <2>2. /\ Sound(u) /\ u.drv.status = "rx" /\ u.drv.cur = None
        /\ u.drv.flg.ready = s.drv.flg.ready /\ u.drv.flg.chars = s.drv.flg.chars
        /\ Punctual => u.tasks = s.tasks /\ u.quiet = s.quiet /\ u.drv.fifo = s.drv.fifo
    BY <1>2, ResetTrnIs DEF SameMsgs
  <2> QED  BY <2>1, <2>2, TakeNextIs
<1> QED  BY <1>1, <1>2

\* The message goes out.
LEMMA StartTxSound ==
  ASSUME NEW s, Sound(s), s.drv.status = "rx", s.drv.cur # None, LineFree(s),
         Punctual => s.tasks = <<>> /\ "over" \in s.quiet
  PROVE  LET t == StartTx(s)
         IN  /\ Good(t) /\ SameMsgs(s, t) /\ t.trn = s.trn /\ t.bus = s.bus
             /\ t.drv.status = "tx" /\ t.drv.flg = MsgFlags(s.msg[s.drv.cur])
<1> DEFINE c == s.drv.cur
           g == MsgFlags(s.msg[c])
           d == [s.drv EXCEPT !.flg = g, !.pbufo = c, !.status = "tx", !.fifo = FALSE]
           t == StartTx(s)
<1>1. s \in State /\ s.drv \in Driver /\ Typed(s) /\ c \in Blocks /\ s.msg[c] \in Msg
  BY DEF Sound, Typed, State, Driver
<1>2. g \in Flags /\ ~g.ready /\ ~g.chars  BY <1>1, FlagsTyped
<1>3. t = [s EXCEPT !.drv = d]  BY DEF StartTx
<1> HIDE DEF g
<1>4. /\ d \in Driver /\ d.cur = c /\ d.pbufo = c /\ d.status = "tx" /\ d.flg = g
      /\ d.timerp = s.drv.timerp
  BY <1>1, <1>2 DEF Driver
<1> HIDE DEF d, t
<1>5. /\ Typed(t) /\ t.drv = d /\ t.msg = s.msg /\ t.txmsgs = s.txmsgs
      /\ t.tasks = s.tasks /\ t.quiet = s.quiet /\ t.trn = s.trn /\ t.bus = s.bus
  BY <1>1, <1>3, <1>4 DEF Typed, State
<1>6. Owned(t)  BY <1>4, <1>5 DEF Sound, Owned
<1>7. Line(t)  BY <1>2, <1>4, <1>5 DEF Line
<1>8. Paused(t)  BY <1>4, <1>5 DEF Paused
<1>9. Off(t) /\ Awake(t)  BY <1>4, <1>5 DEF Off, Awake
<1> QED  BY <1>4, <1>5, <1>6, <1>7, <1>8, <1>9 DEF Good, Sound, SameMsgs, t, g

(***************************************************************************)
(* The functions that may send.                                            *)
(***************************************************************************)
\* Somebody will come, or the driver may send what is in the queue.
Rouse(s) == s.drv.status = "rx" => Runs(s) \/ (s.drv.flg.ready /\ s.drv.cur = None)

\* rs485_next_txmsg: a message was queued; it goes out, or somebody will come for it.
LEMMA NextTxMsgGood ==
  ASSUME NEW s, Sound(s), Rouse(s), NEW u \in NextTxMsg(s)
  PROVE  Good(u)
<1>1. CASE ~(s.drv.status = "rx" /\ s.drv.flg.ready)
  <2>1. u = s  BY <1>1 DEF NextTxMsg
  <2> QED  BY <1>1, <2>1 DEF Good, Awake, Rouse
<1>2. CASE s.drv.status = "rx" /\ s.drv.flg.ready
  <2>1. PICK v \in UNION {Preempt(t) : t \in GetNext(s)} :
           u = IF v.drv.cur # None /\ v.drv.flg.ready /\ LineFree(v) THEN StartTx(v) ELSE v
    BY <1>2 DEF NextTxMsg
  <2>2. PICK t \in GetNext(s) : v \in Preempt(t)  OBVIOUS
  <2>3. /\ Sound(t) /\ t.drv.status = "rx" /\ t.drv.flg.ready
        /\ \/ s.drv.cur # None /\ t = s
           \/ t.drv.cur = None /\ t.txmsgs = <<>>
           \/ t.drv.cur # None /\ t.drv.timerw
    BY <1>2, GetNextIs
  <2>4. Awake(t)  BY <1>2, <2>3 DEF Rouse, Awake, Runs
  <2>5. Sound(v) /\ v.drv.status = "rx" /\ Awake(v)  BY <2>2, <2>3, <2>4, PreemptIs
  <2>6. CASE v.drv.cur # None /\ v.drv.flg.ready /\ LineFree(v)
    <3>1. Punctual => v.tasks = <<>> /\ "over" \in v.quiet
      BY <2>5, <2>6 DEF Sound, Line, Paused
    <3> QED  BY <2>1, <2>5, <2>6, <3>1, StartTxSound
  <2>7. CASE ~(v.drv.cur # None /\ v.drv.flg.ready /\ LineFree(v))
    BY <2>1, <2>5, <2>7 DEF Good
  <2> QED  BY <2>6, <2>7
<1> QED  BY <1>1, <1>2

\* rs485_timerp_isr: after the pause the next message goes out, or the driver may send.
LEMMA PauseOverGood ==
  ASSUME NEW s, Sound(s), Punctual => s.tasks = <<>> /\ (LineFree(s) => "over" \in s.quiet),
         NEW u \in PauseOver(s)
  PROVE  Good(u)
<1>1. CASE s.drv.status # "rx"  BY <1>1 DEF PauseOver, Good, Awake
<1>2. CASE s.drv.status = "rx"
  <2>1. PICK v \in UNION {Preempt(t) : t \in GetNext(s)} :
           u = IF v.drv.status # "rx" \/ ~LineFree(v) THEN v
               ELSE IF v.drv.cur # None THEN StartTx(v)
               ELSE [v EXCEPT !.drv = [@ EXCEPT !.flg.ready = TRUE]]
    BY <1>2 DEF PauseOver
  <2>2. PICK t \in GetNext(s) : v \in Preempt(t)  OBVIOUS
  <2>3. /\ Sound(t) /\ t.drv.status = "rx" /\ t.drv.flg.chars = s.drv.flg.chars
        /\ Punctual => t.tasks = s.tasks /\ s.quiet \subseteq t.quiet /\ t.drv.fifo = s.drv.fifo
        /\ t.drv.cur = None => t.txmsgs = <<>>
    BY <1>2, GetNextIs
  <2>4. /\ Sound(v) /\ v.drv.status = "rx" /\ SameMsgs(t, v)
        /\ Punctual => v = t
    BY <2>2, <2>3, PreemptIs
  <2>5. CASE ~LineFree(v)
    BY <2>1, <2>4, <2>5 DEF Good, Awake, Runs, LineFree
  <2>6. ASSUME LineFree(v)  PROVE Punctual => v.tasks = <<>> /\ "over" \in v.quiet
    BY <2>3, <2>4, <2>6 DEF LineFree
  <2>7. CASE LineFree(v) /\ v.drv.cur # None
    BY <2>1, <2>4, <2>6, <2>7, StartTxSound
  <2>8. CASE LineFree(v) /\ v.drv.cur = None
    <3> DEFINE d == [v.drv EXCEPT !.flg.ready = TRUE]
    <3>1. v \in State /\ v.drv \in Driver /\ v.drv.flg \in Flags /\ Typed(v)
      BY <2>4 DEF Sound, Typed, State, Driver
    <3>2. u = [v EXCEPT !.drv = d]  BY <2>1, <2>4, <2>8
    <3>3. /\ d \in Driver /\ d.cur = v.drv.cur /\ d.status = v.drv.status /\ d.flg.ready
          /\ d.timerp = v.drv.timerp /\ d.timerw = v.drv.timerw
      BY <3>1 DEF Driver, Flags
    <3> HIDE DEF d
    <3>4. /\ Typed(u) /\ u.drv = d /\ u.msg = v.msg /\ u.txmsgs = v.txmsgs
          /\ u.tasks = v.tasks /\ u.quiet = v.quiet
      BY <3>1, <3>2, <3>3 DEF Typed, State
    <3>5. Owned(u)  BY <2>4, <3>3, <3>4 DEF Sound, Owned
    <3>6. Line(u) /\ Paused(u)  BY <2>4, <2>6, <2>8, <3>3, <3>4 DEF Line, Paused
    <3>7. Off(u)  BY <2>4, <3>3, <3>4 DEF Off
    <3>8. Awake(u)  BY <2>3, <2>4, <2>8, <3>3, <3>4 DEF Awake, SameMsgs
    <3> QED  BY <3>4, <3>5, <3>6, <3>7, <3>8 DEF Good, Sound
  <2> QED  BY <2>5, <2>7, <2>8
<1> QED  BY <1>1, <1>2

\* rs485_timerw_isr, after the message was given up
LEMMA NoAnswerGood ==
  ASSUME NEW s, Sound(s), s.drv.status = "rx", Punctual => s.tasks = <<>> /\ "over" \in s.quiet,
         NEW u \in NoAnswer(s)
  PROVE  Good(u)
<1>1. CASE s.drv.fifo /\ u = s  BY <1>1 DEF Good, Awake, Runs
<1>2. CASE u \in PauseOver(s)  BY <1>2, PauseOverGood
<1>3. CASE s.drv.timerp /\ u = s  BY <1>3 DEF Good, Awake, Runs
<1>4. CASE u = Arm(s, "timerp")
  <2>1. "timerp" \in Timers  BY DEF Timers
  <2> QED  BY <1>4, <2>1, ArmSound
<1> QED  BY <1>1, <1>2, <1>3, <1>4 DEF NoAnswer

\* rs485_timerw_isr, its first half: the transactor is told and the message is freed.
LEMMA GivenUp ==
  ASSUME NEW s, Sound(s), s.drv.status = "rx", NEW t \in ResetTrn(s)
  PROVE  LET w == [FreeTxMsg(t) EXCEPT !.drv = [@ EXCEPT !.flg = Cleared(t.drv.flg)]]
         IN  /\ Sound(w) /\ w.drv.status = "rx" /\ w.drv.cur = None
             /\ Punctual => w.tasks = s.tasks /\ w.quiet = s.quiet /\ w.bus = s.bus
             /\ w.drv.flg = Cleared(t.drv.flg)
             /\ w.txmsgs = t.txmsgs /\ w.trn = t.trn
             /\ \A b \in Blocks : w.msg[b] = IF b = t.drv.cur THEN FreeMsg ELSE t.msg[b]
<1> DEFINE v == FreeTxMsg(t)
           g == Cleared(t.drv.flg)
           d == [v.drv EXCEPT !.flg = g]
           w == [v EXCEPT !.drv = d]
<1>1. /\ Sound(t) /\ t.drv.status = "rx"
      /\ Punctual => t.tasks = s.tasks /\ t.quiet = s.quiet /\ t.bus = s.bus
  BY ResetTrnIs
<1>2. /\ Typed(v) /\ Owned(v) /\ v.drv.status = "rx" /\ v.drv.flg = t.drv.flg
      /\ SameTimers(t, v) /\ v.drv.fifo = t.drv.fifo /\ v.drv.cur = None
      /\ v.tasks = t.tasks /\ v.quiet = t.quiet /\ v.trn = t.trn /\ v.bus = t.bus
      /\ v.txmsgs = t.txmsgs
      /\ \A b \in Blocks : v.msg[b] = IF b = t.drv.cur THEN FreeMsg ELSE t.msg[b]
  BY <1>1, FreeTxMsgIs DEF Sound
<1> HIDE DEF v
<1>3. v \in State /\ v.drv \in Driver /\ v.drv.flg \in Flags  BY <1>2 DEF Typed, State, Driver
<1>4. g \in Flags /\ g.ready = v.drv.flg.ready /\ g.chars = v.drv.flg.chars
  BY <1>2, <1>3, FlagsTyped, FlagsKept
<1> HIDE DEF g
<1>5. /\ d \in Driver /\ d.cur = v.drv.cur /\ d.status = v.drv.status /\ d.flg = g
      /\ d.timerp = v.drv.timerp /\ d.timerw = v.drv.timerw /\ d.fifo = v.drv.fifo
  BY <1>3, <1>4 DEF Driver
<1> HIDE DEF d
<1>6. /\ Typed(w) /\ w.drv = d /\ w.msg = v.msg /\ w.txmsgs = v.txmsgs
      /\ w.tasks = v.tasks /\ w.quiet = v.quiet /\ w.trn = v.trn /\ w.bus = v.bus
  BY <1>2, <1>3, <1>5 DEF Typed, State
<1>7. w = [FreeTxMsg(t) EXCEPT !.drv = [@ EXCEPT !.flg = Cleared(t.drv.flg)]]
  BY DEF v, d, g
<1> HIDE DEF w
<1>8. Owned(w)  BY <1>2, <1>5, <1>6 DEF Owned
<1>9. Line(w)  BY <1>1, <1>2, <1>4, <1>5, <1>6 DEF Sound, Line
<1>10. Paused(w)  BY <1>1, <1>2, <1>4, <1>5, <1>6 DEF Sound, Paused, LineFree, SameTimers
<1>11. Off(w)  BY <1>2, <1>5, <1>6 DEF Off
<1>12. Sound(w)  BY <1>6, <1>8, <1>9, <1>10, <1>11 DEF Sound
<1>13. g = Cleared(t.drv.flg)  BY DEF g
<1> QED  BY <1>1, <1>2, <1>5, <1>6, <1>7, <1>12, <1>13

\* rs485_timerw_isr
LEMMA WaitOverGood ==
  ASSUME NEW s, Sound(s), Punctual => s.tasks = <<>> /\ "over" \in s.quiet,
         NEW u \in WaitOver(s)
  PROVE  Good(u)
<1>0. s.drv.status \in {"off", "rx", "tx"}  BY DEF Sound, Typed, State, Driver
<1>1. CASE s.drv.status = "rx"
  <2>1. PICK t \in ResetTrn(s) :
           u \in NoAnswer([FreeTxMsg(t) EXCEPT !.drv = [@ EXCEPT !.flg = Cleared(t.drv.flg)]])
    BY <1>1 DEF WaitOver
  <2> DEFINE w == [FreeTxMsg(t) EXCEPT !.drv = [@ EXCEPT !.flg = Cleared(t.drv.flg)]]
  <2>2. /\ Sound(w) /\ w.drv.status = "rx"
        /\ Punctual => w.tasks = <<>> /\ "over" \in w.quiet
    BY <1>1, GivenUp
  <2>3. u \in NoAnswer(w)  BY <2>1
  <2> HIDE DEF w
  <2> QED  BY <2>2, <2>3, NoAnswerGood
<1>2. CASE s.drv.status = "tx"
  <2>1. u = Arm(s, "timerw") /\ "timerw" \in Timers  BY <1>2 DEF WaitOver, Timers
  <2> QED  BY <1>2, <2>1, ArmSound
<1>3. CASE s.drv.status = "off"
  <2>1. u = s  BY <1>3 DEF WaitOver
  <2> QED  BY <1>3, <2>1 DEF Good, Awake
<1> QED  BY <1>0, <1>1, <1>2, <1>3

(***************************************************************************)
(* New messages.                                                           *)
(***************************************************************************)
\* A block for a new message, x
LEMMA MallocIs ==
  ASSUME cfg \in Cfgs, NEW s, Typed(s), Unused(s) # {}, NEW x \in Msg, x.used
  PROVE  LET b == Malloc(s)
             m == [s.msg EXCEPT ![b] = x]
         IN  /\ b \in Blocks \ InUse(s.msg)
             /\ m \in [Blocks -> Msg] /\ InUse(m) = InUse(s.msg) \cup {b}
<1> DEFINE b == Malloc(s)
           m == [s.msg EXCEPT ![b] = x]
<1>1. s.msg \in [Blocks -> Msg]  BY DEF Typed, State
<1>2. cfg.mem \subseteq Blocks  BY BusAssumption DEF Config
<1>3. b \in Unused(s)  BY DEF Malloc
<1>4. b \in Blocks \ InUse(s.msg)  BY <1>2, <1>3 DEF Unused, InUse
<1> HIDE DEF b
<1>5. m \in [Blocks -> Msg]  BY <1>1
<1>6. InUse(m) = InUse(s.msg) \cup {b}  BY <1>1, <1>4 DEF InUse
<1> HIDE DEF m
<1> QED  BY <1>4, <1>5, <1>6 DEF b, m

\* A state in which a message was queued
LEMMA QueuedSound ==
  ASSUME NEW s, Sound(s), NEW t, Typed(t), Owned(t), t.drv = s.drv,
         t.tasks = s.tasks, t.quiet = s.quiet
  PROVE  Sound(t) /\ (Awake(s) => Rouse(t))
<1>1. Line(t)  BY DEF Sound, Line
<1>2. Paused(t)  BY DEF Sound, Paused, LineFree
<1>3. Off(t)  BY DEF Sound, Off
<1>4. Awake(s) => Rouse(t)  BY DEF Awake, Rouse, Runs
<1> QED  BY <1>1, <1>2, <1>3, <1>4 DEF Sound

\* The message x is put in the queue, at its head or at its end; r: the transactors then
Put(s, x, first, r) ==
  LET b == Malloc(s)
  IN  [s EXCEPT !.msg = [@ EXCEPT ![b] = x],
                !.trn = r,
                !.txmsgs = IF first THEN <<b>> \o @ ELSE Append(@, b)]

\* The queue r is q and the message b, whose record may be new: w; the others have theirs.
OneMore(q, m, r, w, b) == /\ b \notin Members(q) /\ Members(r) = Members(q) \cup {b}
                          /\ \A x \in Members(q) : w[x] = m[x]

\* A new message is in the queue, and nothing else is touched.
LEMMA PutSound ==
  ASSUME cfg \in Cfgs, NEW s, Sound(s), Unused(s) # {}, NEW x \in Msg, x.used,
         NEW first \in BOOLEAN, NEW r \in [Trns -> [fifo : Nat, start : BOOLEAN]]
  PROVE  LET t == Put(s, x, first, r)
             b == Malloc(s)
         IN  /\ Sound(t) /\ (Awake(s) => Rouse(t))
             /\ t.drv = s.drv /\ t.tasks = s.tasks /\ t.trn = r /\ t.bus = s.bus
             /\ b \in Blocks /\ b \notin Members(s.txmsgs) /\ b # s.drv.cur
             /\ OneMore(s.txmsgs, s.msg, t.txmsgs, t.msg, b)
             /\ \A a \in Blocks : t.msg[a] = IF a = b THEN x ELSE s.msg[a]
<1> DEFINE b == Malloc(s)
           m == [s.msg EXCEPT ![b] = x]
           q == IF first THEN <<b>> \o s.txmsgs ELSE Append(s.txmsgs, b)
           t == Put(s, x, first, r)
<1>1. s \in State /\ s.txmsgs \in Seq(Blocks) /\ Typed(s)  BY DEF Sound, Typed, State
<1>2. b \in Blocks \ InUse(s.msg) /\ m \in [Blocks -> Msg] /\ InUse(m) = InUse(s.msg) \cup {b}
  BY <1>1, MallocIs
<1>3. \A a \in Blocks : m[a] = IF a = b THEN x ELSE s.msg[a]  BY <1>1 DEF State
<1>4. t = [s EXCEPT !.msg = m, !.trn = r, !.txmsgs = q]  BY DEF Put
<1> HIDE DEF b, m, t
<1>5. InUse(s.msg) \in SUBSET Blocks /\ Owns(s.txmsgs, s.drv.cur, InUse(s.msg))
  BY DEF Sound, Owned, InUse
<1>6. /\ q \in Seq(Blocks) /\ Owns(q, s.drv.cur, InUse(m))
      /\ Members(q) = Members(s.txmsgs) \cup {b}
  <2>1. /\ Append(s.txmsgs, b) \in Seq(Blocks)
        /\ Owns(Append(s.txmsgs, b), s.drv.cur, InUse(s.msg) \cup {b})
        /\ Members(Append(s.txmsgs, b)) = Members(s.txmsgs) \cup {b}
    BY <1>1, <1>2, <1>5, LastOwns
  <2>2. /\ <<b>> \o s.txmsgs \in Seq(Blocks)
        /\ Owns(<<b>> \o s.txmsgs, s.drv.cur, InUse(s.msg) \cup {b})
        /\ Members(<<b>> \o s.txmsgs) = Members(s.txmsgs) \cup {b}
    BY <1>1, <1>2, <1>5, FirstOwns
  <2> QED  BY <1>2, <2>1, <2>2
<1>7. b \notin Members(s.txmsgs) /\ b # s.drv.cur  BY <1>2, <1>5, BusAssumption DEF Owns
<1> HIDE DEF q
<1>8. /\ Typed(t) /\ t.drv = s.drv /\ t.msg = m /\ t.txmsgs = q
      /\ t.tasks = s.tasks /\ t.quiet = s.quiet /\ t.trn = r /\ t.bus = s.bus
  BY <1>1, <1>2, <1>4, <1>6 DEF Typed, State
<1>9. Sound(t) /\ (Awake(s) => Rouse(t))  BY <1>6, <1>8, QueuedSound DEF Owned
<1>10. \A a \in Members(s.txmsgs) : t.msg[a] = s.msg[a]
  <2>1. Members(s.txmsgs) \subseteq Blocks  BY <1>1, ElementOfSeq DEF Members
  <2> QED  BY <1>3, <1>7, <1>8, <2>1
<1>11. OneMore(s.txmsgs, s.msg, t.txmsgs, t.msg, b)  BY <1>6, <1>7, <1>8, <1>10 DEF OneMore
<1> QED  BY <1>2, <1>3, <1>7, <1>8, <1>9, <1>11 DEF b, t

\* The message of rs485_new_tx_msg
TcpMsg(own, only) == [used |-> TRUE, trn |-> None, only |-> only \/ own]

\* rs485_new_tx_msg puts its message in the queue.
LEMMA NewTxMsgPuts ==
  ASSUME NEW s, s \in State, NEW own \in BOOLEAN, NEW only \in BOOLEAN
  PROVE  LET x == TcpMsg(own, only)
             t == Put(s, x, own, s.trn)
         IN  /\ x \in Msg /\ x.used /\ x.trn = None
             /\ s.trn \in [Trns -> [fifo : Nat, start : BOOLEAN]]
             /\ NewTxMsg(s, own, only) = IF own THEN {t} ELSE NextTxMsg(t)
<1> DEFINE x == TcpMsg(own, only)
           o == only \/ own
<1>1. o \in BOOLEAN  OBVIOUS
<1>2. x = [used |-> TRUE, trn |-> None, only |-> o]  BY DEF TcpMsg
<1> HIDE DEF o
<1>3. x \in Msg /\ x.used /\ x.trn = None  BY <1>1, <1>2 DEF Msg
<1>4. s.trn \in [Trns -> [fifo : Nat, start : BOOLEAN]]  BY DEF State
<1> DEFINE u == [s EXCEPT !.msg = [@ EXCEPT ![Malloc(s)] = x],
                          !.txmsgs = IF own THEN <<Malloc(s)>> \o @ ELSE Append(@, Malloc(s))]
<1>5. Put(s, x, own, s.trn) = u
  <2> HIDE DEF x
  <2> QED  BY DEF Put, State
<1>6. NewTxMsg(s, own, only) = IF own THEN {u} ELSE NextTxMsg(u)  BY DEF NewTxMsg, TcpMsg
<1> HIDE DEF u, x
<1> QED  BY <1>3, <1>4, <1>5, <1>6 DEF x

\* rs485_new_tx_msg: a request goes out or waits, an answer of our own is only queued.
LEMMA NewTxMsgSound ==
  ASSUME cfg \in Cfgs, NEW s, Sound(s), Unused(s) # {}, NEW own \in BOOLEAN,
         NEW only \in BOOLEAN, NEW u \in NewTxMsg(s, own, only)
  PROVE  /\ Awake(s) /\ ~own => Good(u)
         /\ own => Sound(u) /\ u.drv = s.drv /\ u.tasks = s.tasks
<1> DEFINE x == TcpMsg(own, only)
           t == Put(s, x, own, s.trn)
<1>1. s \in State  BY DEF Sound, Typed
<1>2. /\ x \in Msg /\ x.used /\ s.trn \in [Trns -> [fifo : Nat, start : BOOLEAN]]
      /\ u \in IF own THEN {t} ELSE NextTxMsg(t)
  BY <1>1, NewTxMsgPuts
<1> HIDE DEF x
<1>3. Sound(t) /\ (Awake(s) => Rouse(t)) /\ t.drv = s.drv /\ t.tasks = s.tasks
  BY <1>2, PutSound
<1> HIDE DEF t
<1> QED  BY <1>2, <1>3, NextTxMsgGood

\* The message of mdb_start_trn, and the transactors when it is queued
TrnMsg(i) == [used |-> TRUE, trn |-> i, only |-> i \in cfg.broadcast]

TrnStarted(r, i) ==
  [r EXCEPT ![i].fifo = r[i].fifo + (IF i \in cfg.broadcast THEN 0 ELSE 1)]

\* mdb_start_trn puts its message at the head of the queue.
LEMMA StartTrnPuts ==
  ASSUME NEW s, s \in State, NEW i \in Trns
  PROVE  LET x == TrnMsg(i)
             r == TrnStarted(s.trn, i)
             t == Put(s, x, TRUE, r)
         IN  /\ x \in Msg /\ x.used /\ x.trn = i
             /\ r \in [Trns -> [fifo : Nat, start : BOOLEAN]]
             /\ \A j \in Trns : r[j].fifo = IF j = i /\ i \notin cfg.broadcast
                                            THEN s.trn[j].fifo + 1 ELSE s.trn[j].fifo
             /\ StartTrn(s, i) = NextTxMsg(t)
<1> DEFINE all == i \in cfg.broadcast
           x == TrnMsg(i)
           r == TrnStarted(s.trn, i)
           f == s.trn[i].fifo + (IF all THEN 0 ELSE 1)
<1>1. x \in Msg /\ x.used /\ x.trn = i
  <2>1. all \in BOOLEAN  OBVIOUS
  <2>2. x = [used |-> TRUE, trn |-> i, only |-> all]  BY DEF TrnMsg
  <2> HIDE DEF all, x
  <2> QED  BY <2>1, <2>2 DEF Msg
<1>2. s.trn \in [Trns -> [fifo : Nat, start : BOOLEAN]]  BY DEF State
<1>3. f \in Nat /\ f = IF all THEN s.trn[i].fifo ELSE s.trn[i].fifo + 1
  <2>1. s.trn[i].fifo \in Nat  BY <1>2
  <2> QED  BY <2>1
<1>4. r = [s.trn EXCEPT ![i].fifo = f]  BY DEF TrnStarted
<1> HIDE DEF f, r
<1>5. r \in [Trns -> [fifo : Nat, start : BOOLEAN]]  BY <1>2, <1>3, <1>4
<1>6. \A j \in Trns : r[j].fifo = IF j = i /\ ~all THEN s.trn[j].fifo + 1 ELSE s.trn[j].fifo
  <2>1. \A j \in Trns : r[j].fifo = IF j = i THEN f ELSE s.trn[j].fifo  BY <1>2, <1>4
  <2> HIDE DEF all
  <2> QED  BY <1>3, <2>1
<1> DEFINE u == [s EXCEPT !.msg = [@ EXCEPT ![Malloc(s)] = x], !.trn = r,
                          !.txmsgs = <<Malloc(s)>> \o @]
<1>7. Put(s, x, TRUE, r) = u
  <2> HIDE DEF x
  <2> QED  BY DEF Put, State
<1>8. StartTrn(s, i) = NextTxMsg(u)
  BY <1>4 DEF StartTrn, TrnMsg, f
<1> HIDE DEF u, x
<1> QED  BY <1>1, <1>5, <1>6, <1>7, <1>8 DEF x, r

\* mdb_start_trn
LEMMA StartTrnGood ==
  ASSUME cfg \in Cfgs, NEW s, Good(s), Unused(s) # {}, NEW i \in Trns, NEW u \in StartTrn(s, i)
  PROVE  Good(u)
<1> DEFINE x == TrnMsg(i)
           r == TrnStarted(s.trn, i)
           t == Put(s, x, TRUE, r)
<1>1. s \in State /\ Sound(s) /\ Awake(s)  BY DEF Good, Sound, Typed
<1>2. /\ x \in Msg /\ x.used /\ r \in [Trns -> [fifo : Nat, start : BOOLEAN]]
      /\ u \in NextTxMsg(t)
  BY <1>1, StartTrnPuts
<1> HIDE DEF x, r
<1>3. Sound(t) /\ Rouse(t)  BY <1>1, <1>2, PutSound
<1> HIDE DEF t
<1> QED  BY <1>2, <1>3, NextTxMsgGood

\* One turn of the loop of mdb_timertrn_isr
LEMMA TrnTurnGood ==
  ASSUME cfg \in Cfgs, NEW s, Good(s), NEW i \in Trns, NEW due, NEW u \in TrnTurn(s, i, due)
  PROVE  Good(u)
<1>1. CASE u = s  BY <1>1
<1>2. CASE u \in StartTrn(s, i) /\ Unused(s) # {}  BY <1>2, StartTrnGood
<1>3. CASE /\ Unused(s) # {}
          /\ u \in {[t EXCEPT !.trn = [@ EXCEPT ![i].start = FALSE]] : t \in StartTrn(s, i)}
  <2> PICK t \in StartTrn(s, i) : u = [t EXCEPT !.trn = [@ EXCEPT ![i].start = FALSE]]
    BY <1>3
  <2>1. Good(t)  BY <1>3, StartTrnGood
  <2> DEFINE r == [t.trn EXCEPT ![i].start = FALSE]
  <2>2. t \in State /\ t.trn \in [Trns -> [fifo : Nat, start : BOOLEAN]]
    BY <2>1 DEF Good, Sound, Typed, State
  <2>3. r \in [Trns -> [fifo : Nat, start : BOOLEAN]]  BY <2>2
  <2>4. u = [t EXCEPT !.trn = r]  OBVIOUS
  <2> HIDE DEF r
  <2>5. /\ Typed(u) /\ u.drv = t.drv /\ u.msg = t.msg /\ u.txmsgs = t.txmsgs
        /\ u.tasks = t.tasks /\ u.quiet = t.quiet
    BY <2>1, <2>2, <2>3, <2>4 DEF Good, Sound, Typed, State
  <2>6. Owned(u)  BY <2>1, <2>5 DEF Good, Sound, Owned
  <2>7. Sound(u)  BY <2>1, <2>5, <2>6, QueuedSound DEF Good
  <2>8. Awake(u)  BY <2>1, <2>5 DEF Good, Awake, Runs
  <2> QED  BY <2>7, <2>8 DEF Good
<1> QED  BY <1>1, <1>2, <1>3 DEF TrnTurn

\* The function that TrnTurns defines by recursion
After(due, n, f) == f = [k \in 0 .. n |->
                           IF k = 0 THEN {Now}
                           ELSE UNION {TrnTurn(s, TrnOrder[k], due) : s \in f[k - 1]}]

\* It exists, however many transactors there are: there is no least number of turns
\* for which it does not.
LEMMA AfterExists ==
  ASSUME NEW due, NEW n \in Nat
  PROVE  \E f : After(due, n, f)
<1> DEFINE Bad == {k \in Nat : \A f : ~After(due, k, f)}
<1>1. SUFFICES ASSUME Bad # {}  PROVE FALSE  OBVIOUS
<1>2. PICK k \in Bad : \A j \in Bad : k <= j
  <2>1. Bad \in SUBSET Nat  OBVIOUS
  <2> HIDE DEF Bad
  <2> QED  BY <1>1, <2>1, LeastNatural
<1>3. After(due, 0, [j \in 0 .. 0 |-> {Now}])
  BY DEF After
<1>4. k # 0  BY <1>2, <1>3
<1>5. k - 1 \in Nat /\ k - 1 \notin Bad  BY <1>2, <1>4
<1>6. PICK f : After(due, k - 1, f)  BY <1>5
<1> DEFINE last == UNION {TrnTurn(s, TrnOrder[k], due) : s \in f[k - 1]}
           g == [j \in 0 .. k |-> IF j = k THEN last ELSE f[j]]
<1>7. \A j \in 0 .. k - 1 : f[j] = IF j = 0 THEN {Now}
                                 ELSE UNION {TrnTurn(s, TrnOrder[j], due) : s \in f[j - 1]}
  BY <1>6 DEF After
<1>8. \A j \in 0 .. k : g[j] = IF j = 0 THEN {Now}
                               ELSE UNION {TrnTurn(s, TrnOrder[j], due) : s \in g[j - 1]}
  <2> TAKE j \in 0 .. k
  <2> HIDE DEF last
  <2>1. CASE j = k
    <3>1. g[k] = last /\ g[k - 1] = f[k - 1]  BY <1>2, <1>4
    <3> QED  BY <1>4, <2>1, <3>1 DEF last
  <2>2. CASE j # k /\ j # 0
    <3>1. j \in 0 .. k - 1 /\ g[j] = f[j] /\ g[j - 1] = f[j - 1]  BY <1>2, <2>2
    <3> QED  BY <1>7, <2>2, <3>1
  <2>3. CASE j # k /\ j = 0
    <3>1. 0 \in 0 .. k - 1 /\ g[0] = f[0]  BY <1>4, <1>5, <2>3
    <3> QED  BY <1>7, <2>3, <3>1
  <2> QED  BY <2>1, <2>2, <2>3
<1>9. After(due, k, g)
  <2> HIDE DEF last
  <2>1. g = [j \in 0 .. k |-> g[j]]  OBVIOUS
  <2> HIDE DEF g
  <2> QED  BY <1>8, <2>1 DEF After
<1> QED  BY <1>2, <1>9

\* mdb_timertrn_isr: what every turn keeps, they all keep.
LEMMA TrnTurnsKeep ==
  ASSUME NEW due, NEW G, Now \in G,
         \A s \in G : \A i \in Trns : TrnTurn(s, i, due) \subseteq G
  PROVE  TrnTurns(due) \subseteq G
<1> SUFFICES ASSUME NEW u \in TrnTurns(due)  PROVE u \in G  OBVIOUS
<1> DEFINE n == Len(TrnOrder)
           f == CHOOSE f : After(due, n, f)
<1>1. n \in Nat  BY BusAssumption, LenProperties
<1>2. After(due, n, f)  BY <1>1, AfterExists
<1>3. u \in f[n]  BY DEF TrnTurns, After
<1> HIDE DEF f, n
<1>4. \A k \in 0 .. n : f[k] = IF k = 0 THEN {Now}
                               ELSE UNION {TrnTurn(s, TrnOrder[k], due) : s \in f[k - 1]}
  BY <1>2 DEF After
<1> DEFINE Bad == {k \in 0 .. n : ~(f[k] \subseteq G)}
<1>5. SUFFICES ASSUME Bad # {}  PROVE FALSE  BY <1>1, <1>3
<1>6. PICK k \in Bad : \A j \in Bad : k <= j
  <2>1. Bad \in SUBSET Nat  OBVIOUS
  <2> HIDE DEF Bad
  <2> QED  BY <1>5, <2>1, LeastNatural
<1>7. PICK u1 \in f[k] : u1 \notin G  BY <1>6
<1>8. k # 0  BY <1>4, <1>6, <1>7
<1>9. k - 1 \in 0 .. n /\ k - 1 \notin Bad  BY <1>1, <1>6, <1>8
<1>10. PICK s \in f[k - 1] : u1 \in TrnTurn(s, TrnOrder[k], due)
  <2>1. k \in 0 .. n  BY <1>6
  <2>2. f[k] = UNION {TrnTurn(s, TrnOrder[k], due) : s \in f[k - 1]}  BY <1>4, <1>8, <2>1
  <2> HIDE DEF Bad
  <2> QED  BY <1>7, <2>2
<1>11. s \in G  BY <1>9, <1>10
<1>12. TrnOrder[k] \in Trns  BY <1>6, <1>8, BusAssumption DEF n
<1> QED  BY <1>7, <1>10, <1>11, <1>12

\* mdb_timertrn_isr
LEMMA TrnTurnsGood ==
  ASSUME cfg \in Cfgs, Good(Now), NEW due, NEW u \in TrnTurns(due)
  PROVE  Good(u)
<1> DEFINE G == {s \in State : Good(s)}
<1>1. \A s : Good(s) => s \in G  BY DEF Good, Sound, Typed
<1>2. \A s \in G : \A i \in Trns : TrnTurn(s, i, due) \subseteq G
  <2> SUFFICES ASSUME NEW s \in G, NEW i \in Trns, NEW t \in TrnTurn(s, i, due)
               PROVE  t \in G
    OBVIOUS
  <2>1. Good(t)  BY TrnTurnGood
  <2> QED  BY <1>1, <2>1
<1>3. Now \in G  BY <1>1
<1>4. u \in G
  <2> HIDE DEF G
  <2> QED  BY <1>2, <1>3, TrnTurnsKeep
<1> QED  BY <1>4

(***************************************************************************)
(* The task and the timers.                                                *)
(***************************************************************************)
\* A timer is disarmed.
LEMMA DisarmIs ==
  ASSUME NEW s, Typed(s), NEW x \in Timers
  PROVE  LET t == Disarm(s, x)
         IN  /\ Typed(t) /\ SameMsgs(s, t) /\ t.trn = s.trn /\ t.bus = s.bus
             /\ t.tasks = s.tasks /\ t.quiet = s.quiet \ {x}
             /\ t.drv.status = s.drv.status /\ t.drv.flg = s.drv.flg
             /\ t.drv.pbufo = s.drv.pbufo /\ t.drv.fifo = s.drv.fifo
             /\ IF x = "timerp" THEN ~t.drv.timerp /\ t.drv.timerw = s.drv.timerw
                                ELSE ~t.drv.timerw /\ t.drv.timerp = s.drv.timerp
<1> DEFINE z == s.quiet \ {x}
           t == Disarm(s, x)
<1>1. z \in SUBSET (Timers \cup {"over"})  BY DEF Typed, State
<1>2. t = Without(s, x, z)  BY DEF Disarm, Without
<1> HIDE DEF z, t
<1> QED  BY <1>1, <1>2, OffIs DEF z, t

\* Without its time-out the state is as sound as before.
LEMMA DisarmSound ==
  ASSUME NEW s, Sound(s)
  PROVE  Sound(Disarm(s, "timerw"))
<1> DEFINE t == Disarm(s, "timerw")
<1>1. Typed(s) /\ "timerw" \in Timers  BY DEF Sound, Timers
<1> HIDE DEF t
<1>2. /\ Typed(t) /\ SameMsgs(s, t)
      /\ t.tasks = s.tasks /\ t.quiet = s.quiet \ {"timerw"}
      /\ t.drv.status = s.drv.status /\ t.drv.flg = s.drv.flg
      /\ t.drv.pbufo = s.drv.pbufo /\ t.drv.fifo = s.drv.fifo
      /\ ~t.drv.timerw /\ t.drv.timerp = s.drv.timerp
  BY <1>1, DisarmIs DEF t
<1>3. Owned(t)  BY <1>2 DEF Sound, Owned, SameMsgs
<1>4. Line(t)  BY <1>2 DEF Sound, Line, SameMsgs
<1>5. Paused(t)  BY <1>2 DEF Sound, Paused, LineFree
<1>6. Off(t)  BY <1>2 DEF Sound, Off
<1> QED  BY <1>2, <1>3, <1>4, <1>5, <1>6 DEF Sound, t

\* The message can be freed unless it is on the line.
LEMMA FreeTxMsgSound ==
  ASSUME NEW s, Sound(s), Punctual => s.drv.status # "tx"
  PROVE  Sound(FreeTxMsg(s)) /\ FreeTxMsg(s).drv.status = s.drv.status
<1> DEFINE t == FreeTxMsg(s)
<1> HIDE DEF t
<1>1. /\ Typed(t) /\ Owned(t) /\ SameTimers(s, t)
      /\ t.drv.status = s.drv.status /\ t.drv.flg = s.drv.flg
      /\ t.drv.fifo = s.drv.fifo
      /\ t.tasks = s.tasks /\ t.quiet = s.quiet
  BY FreeTxMsgIs DEF Sound, t
<1>2. Line(t)  BY <1>1 DEF Sound, Line
<1>3. Paused(t)  BY <1>1 DEF Sound, Paused, LineFree, SameTimers
<1>4. Off(t)  BY <1>1 DEF Sound, Off, SameTimers
<1> QED  BY <1>1, <1>2, <1>3, <1>4 DEF Sound, t

\* The state when the task has taken its event from the queue
Popped == [Now EXCEPT !.tasks = Tail(@)]

\* Nobody may send, nothing is being sent; only what a timer says is open.
LEMMA PoppedIs ==
  ASSUME Good(Now), tasks # <<>>
  PROVE  /\ Typed(Popped) /\ Owned(Popped) /\ Line(Popped) /\ Off(Popped)
         /\ Popped.drv = drv
         /\ Punctual => drv.status # "tx" /\ ~drv.flg.ready
<1>1. Now \in State /\ tasks \in Seq({"RX_OK", "TX_OK"}) /\ Len(tasks) <= TaskLen
  BY DEF Good, Sound, Typed, State, Now
<1>2. Tail(tasks) \in Seq({"RX_OK", "TX_OK"}) /\ Len(Tail(tasks)) <= TaskLen
  <2>1. Len(tasks) \in Nat \ {0} /\ Len(Tail(tasks)) = Len(tasks) - 1
        /\ Tail(tasks) \in Seq({"RX_OK", "TX_OK"})
    BY <1>1, EmptySeq, HeadTailProperties, LenProperties
  <2>2. TaskLen \in Nat  BY BusAssumption
  <2> QED  BY <1>1, <2>1, <2>2
<1> DEFINE r == Tail(tasks)
<1>3. Popped = [Now EXCEPT !.tasks = r]  BY DEF Popped, Now
<1> HIDE DEF r
<1>4. /\ Typed(Popped) /\ Popped.drv = Now.drv /\ Popped.msg = Now.msg
      /\ Popped.txmsgs = Now.txmsgs
  BY <1>1, <1>2, <1>3 DEF Typed, State, r
<1>5. Now.drv = drv /\ Now.tasks = tasks  BY DEF Now
<1>6. Punctual => drv.status # "tx" /\ ~drv.flg.ready  BY <1>5 DEF Good, Sound, Line
<1>7. Owned(Popped)  BY <1>4 DEF Good, Sound, Owned
<1>8. Line(Popped)  BY <1>4, <1>5, <1>6 DEF Line
<1>9. Off(Popped)  BY <1>4 DEF Good, Sound, Off
<1> QED  BY <1>4, <1>5, <1>6, <1>7, <1>8, <1>9

\* The task disarms the pause first, which makes it sound again.
LEMMA TaskBegins ==
  ASSUME Good(Now), tasks # <<>>
  PROVE  LET t == Disarm(Popped, "timerp")
         IN  /\ Sound(t) /\ t.drv.status = drv.status
             /\ Punctual => drv.status # "tx"
<1> DEFINE p == Popped
           t == Disarm(p, "timerp")
<1> HIDE DEF p
<1>1. /\ Typed(p) /\ Owned(p) /\ Line(p) /\ Off(p) /\ p.drv = drv
      /\ Punctual => drv.status # "tx" /\ ~drv.flg.ready
  BY PoppedIs DEF p
<1>2. "timerp" \in Timers  BY DEF Timers
<1> HIDE DEF t
<1>3. /\ Typed(t) /\ SameMsgs(p, t)
      /\ t.tasks = p.tasks
      /\ t.drv.status = p.drv.status /\ t.drv.flg = p.drv.flg
      /\ ~t.drv.timerp /\ t.drv.timerw = p.drv.timerw
  BY <1>1, <1>2, DisarmIs DEF t
<1>4. Owned(t)  BY <1>1, <1>3 DEF Owned, SameMsgs
<1>5. Line(t)  BY <1>1, <1>3 DEF Line
<1>6. Paused(t)  BY <1>1, <1>3 DEF Paused
<1>7. Off(t)  BY <1>1, <1>3 DEF Off
<1> QED  BY <1>1, <1>3, <1>4, <1>5, <1>6, <1>7 DEF Sound, t, p

\* rs485_task, after a frame that is of no use: somebody comes, the pause or the time-out.
LEMMA UselessGood ==
  ASSUME NEW s, Sound(s), s.drv.status # "off"
  PROVE  Good(Useless(s))
<1>1. "timerp" \in Timers  BY DEF Timers
<1>2. Good(Arm(s, "timerp"))  BY <1>1, ArmSound
<1>3. s.drv.timerw => Good(s)  BY DEF Good, Awake, Runs
<1> QED  BY <1>2, <1>3 DEF Useless

\* rs485_task, RS485_SIG_RX_OK
LEMMA RxOkGood ==
  ASSUME cfg \in Cfgs, Good(Now), tasks # <<>>, drv.status # "off", NEW u \in RxOk(Popped)
  PROVE  Good(u)
<1> DEFINE t == Disarm(Popped, "timerp")
<1>1. Sound(t) /\ t.drv.status = drv.status /\ (Punctual => drv.status # "tx")
  BY TaskBegins
<1>2. PICK f \in Frames :
         u \in IF f = "short" THEN {Useless(t)}
               ELSE {Arm(Disarm(v, "timerw"), "timerp") : v \in Answered(t, f)}
                    \cup {Useless(v) : v \in Unanswered(t, f)}
  BY DEF RxOk
<1> HIDE DEF t
<1>3. "timerp" \in Timers /\ "timerw" \in Timers  BY DEF Timers
<1>4. CASE u = Useless(t)  BY <1>1, <1>4, UselessGood
<1>5. ASSUME NEW v \in Answered(t, f), u = Arm(Disarm(v, "timerw"), "timerp")
      PROVE  Good(u)
  <2>1. Sound(v) /\ v.drv.status = drv.status
    <3>1. CASE v = t  BY <1>1, <3>1
    <3>2. CASE v = FreeTxMsg(t)  BY <1>1, <3>2, FreeTxMsgSound
    <3>3. CASE Unused(t) # {} /\ v \in NewTxMsg(t, TRUE, TRUE)
      BY <1>1, <3>3, NewTxMsgSound
    <3> QED  BY <1>5, <3>1, <3>2, <3>3 DEF Answered
  <2> DEFINE w == Disarm(v, "timerw")
  <2>2. Sound(w)  BY <2>1, DisarmSound
  <2>3. w.drv.status = v.drv.status  BY <1>3, <2>1, DisarmIs DEF Sound
  <2> HIDE DEF w
  <2>4. Good(Arm(w, "timerp"))  BY <1>3, <2>1, <2>2, <2>3, ArmSound
  <2> QED  BY <1>5, <2>4 DEF w
<1>6. ASSUME NEW v \in Unanswered(t, f), u = Useless(v)  PROVE Good(u)
  <2>1. v = t  BY <1>6 DEF Unanswered
  <2> QED  BY <1>4, <1>6, <2>1
<1> QED  BY <1>2, <1>4, <1>5, <1>6

\* rs485_task, RS485_SIG_TX_OK
LEMMA TxOkGood ==
  ASSUME Good(Now), tasks # <<>>, drv.status # "off", NEW u \in TxOk(Popped)
  PROVE  Good(u)
<1> DEFINE t == Disarm(Popped, "timerp")
           v == Disarm(t, "timerw")
           w == FreeTxMsg(v)
<1>1. Sound(t) /\ t.drv.status = drv.status /\ (Punctual => drv.status # "tx")
  BY TaskBegins
<1>2. u = Arm(w, IF w.drv.flg.only THEN "timerp" ELSE "timerw")  BY DEF TxOk
<1> HIDE DEF t
<1>3. "timerp" \in Timers /\ "timerw" \in Timers  BY DEF Timers
<1>4. Sound(v) /\ v.drv.status = drv.status
  BY <1>1, <1>3, DisarmSound, DisarmIs DEF Sound
<1> HIDE DEF v
<1>5. Sound(w) /\ w.drv.status = drv.status  BY <1>1, <1>4, FreeTxMsgSound
<1> HIDE DEF w
<1> QED  BY <1>2, <1>3, <1>5, ArmSound

\* A timer ends.
LEMMA FiredIs ==
  ASSUME Good(Now), InTime, NEW x \in Timers, Now.drv[x]
  PROVE  LET t == Fired(Now, x)
         IN  /\ Sound(t) /\ t.drv.status # "off"
             /\ SameMsgs(Now, t) /\ t.trn = trn /\ t.bus = bus /\ t.tasks = tasks
             /\ t.drv.status = drv.status /\ t.drv.flg = drv.flg /\ t.drv.fifo = drv.fifo
             /\ IF x = "timerp" THEN ~t.drv.timerp ELSE t.drv.timerp = drv.timerp
             /\ Punctual => /\ t.tasks = <<>>
                            /\ LineFree(t) \/ x = "timerw" => "over" \in t.quiet
<1> DEFINE s == Now
           z == IF x \in s.quiet \/ x = "timerw" THEN (s.quiet \ {x}) \cup {"over"} ELSE s.quiet
           t == Fired(s, x)
<1>1. s \in State /\ Typed(s) /\ s.drv \in Driver  BY DEF Good, Sound, Typed, State
<1>2. Punctual => s.tasks = <<>>
  <2>1. tasks = s.tasks  BY DEF Now
  <2>2. tasks \in Seq({"RX_OK", "TX_OK"})  BY <1>1, <2>1 DEF State
  <2>3. Punctual => Len(tasks) <= 0  BY DEF InTime, Punctual
  <2>4. Len(tasks) \in Nat  BY <2>2, LenProperties
  <2>5. Punctual => Len(tasks) = 0  BY <2>3, <2>4
  <2> QED  BY <2>1, <2>2, <2>5, EmptySeq
<1>3. s.drv.status # "off"
  <2>1. s.drv.timerp \/ s.drv.timerw  BY DEF Timers
  <2> QED  BY <2>1 DEF Good, Sound, Off
<1>4. z \in SUBSET (Timers \cup {"over"})  BY <1>1 DEF State
<1>5. x = "timerw" \/ x \in s.quiet => "over" \in z  OBVIOUS
<1>6. "over" \in s.quiet => "over" \in z  BY DEF Timers
<1>7. t = Without(s, x, z)  BY DEF Fired, Without
<1>8. s.drv.timerp \/ x = "timerw"  BY DEF Timers
<1>12. "timerp" \in s.quiet /\ x = "timerw" => "timerp" \in z  OBVIOUS
<1>14. s.trn = trn /\ s.bus = bus /\ s.tasks = tasks /\ s.drv = drv  BY DEF Now
<1> HIDE DEF z, s
<1>9. /\ Typed(t) /\ SameMsgs(s, t) /\ t.trn = s.trn /\ t.bus = s.bus
      /\ t.tasks = s.tasks /\ t.quiet = z
      /\ t.drv.status = s.drv.status /\ t.drv.flg = s.drv.flg
      /\ t.drv.pbufo = s.drv.pbufo /\ t.drv.fifo = s.drv.fifo
      /\ x = "timerp" => ~t.drv.timerp
      /\ x = "timerw" => t.drv.timerp = s.drv.timerp
  BY <1>1, <1>4, <1>7, OffIs
<1> HIDE DEF t
<1>10. x = "timerp" \/ x = "timerw"  BY DEF Timers
<1>11. Sound(t)
  <2>0. Sound(s)  BY DEF Good, s
  <2>1. Owned(t)  BY <1>9, <2>0 DEF Sound, Owned, SameMsgs
  <2>2. Line(t)  BY <1>6, <1>9, <2>0 DEF Sound, Line, SameMsgs
  <2>3. Paused(t)  BY <1>5, <1>6, <1>9, <1>10, <1>12, <2>0 DEF Sound, Paused, LineFree
  <2>4. Off(t)  BY <1>3, <1>9 DEF Off
  <2> QED  BY <1>9, <2>1, <2>2, <2>3, <2>4 DEF Sound
<1>13. Punctual /\ LineFree(t) => "over" \in t.quiet
  <2>1. Paused(s)  BY DEF Good, Sound, s
  <2>2. CASE x = "timerw"  BY <1>5, <1>9, <2>2
  <2>3. CASE x = "timerp"
    <3>1. s.drv.timerp  BY <1>8, <2>3
    <3>2. Punctual /\ LineFree(s) => "timerp" \in s.quiet \/ "over" \in s.quiet
      BY <1>2, <2>1, <3>1 DEF Paused
    <3> QED  BY <1>5, <1>6, <1>9, <2>3, <3>2 DEF LineFree
  <2> QED  BY <1>10, <2>2, <2>3
<1> QED  BY <1>2, <1>3, <1>5, <1>9, <1>10, <1>11, <1>13, <1>14 DEF s, t

(***************************************************************************)
(* The steps.                                                              *)
(***************************************************************************)
\* A step that leads to a good state
LEMMA BecomeGood ==
  ASSUME cfg \in Cfgs, NEW t, Good(t), Become(t), UNCHANGED cfg
  PROVE  IInv'
<1>1. /\ drv' = t.drv /\ msg' = t.msg /\ txmsgs' = t.txmsgs /\ tasks' = t.tasks
      /\ trn' = t.trn /\ bus' = t.bus /\ quiet' = t.quiet /\ cfg' = cfg
  BY DEF Become
<1> DEFINE n == [drv |-> drv', msg |-> msg', txmsgs |-> txmsgs', tasks |-> tasks', trn |-> trn',
                 bus |-> bus', quiet |-> quiet']
<1>2. t \in State  BY DEF Good, Sound, Typed
<1>3. n = t  BY <1>1, <1>2 DEF State
<1>4. Now' = n  BY DEF Now
<1>5. Good(n)  BY <1>3
<1>6. Typed(n) /\ Owned(n) /\ Line(n) /\ Paused(n) /\ Off(n) /\ Awake(n)
  BY <1>5 DEF Good, Sound
<1> HIDE DEF n
<1>7. Typed(Now)'  BY <1>4, <1>6 DEF Typed
<1>8. Owned(Now)'  BY <1>1, <1>4, <1>6 DEF Owned, Owns
<1>9. Line(Now)'  BY <1>1, <1>4, <1>6 DEF Line, Punctual
<1>10. Paused(Now)'  BY <1>1, <1>4, <1>6 DEF Paused, Punctual, LineFree
<1>11. Off(Now)' /\ Awake(Now)'  BY <1>4, <1>6 DEF Off, Awake, Runs
<1> QED  BY <1>1, <1>7, <1>8, <1>9, <1>10, <1>11 DEF IInv, Good, Sound

\* rs485_drv_init leaves a good state.
LEMMA InitGood == Init => IInv
<1> SUFFICES ASSUME Init  PROVE IInv  OBVIOUS
<1>1. cfg \in Config  BY BusAssumption DEF Init
<1>2. TaskLen \in Nat  BY BusAssumption
<1>3. NoFlags \in Flags  BY DEF NoFlags, Flags
<1>4. drv \in Driver  BY <1>3 DEF Init, Driver
<1>5. msg \in [Blocks -> Msg]  BY DEF Init, FreeMsg, Msg
<1>6. bus \in [left : Nat, asked : BOOLEAN]  BY <1>1 DEF Init, Config
<1>7. /\ txmsgs \in Seq(Blocks) /\ Len(txmsgs) = 0
      /\ tasks \in Seq({"RX_OK", "TX_OK"}) /\ Len(tasks) = 0
  BY EmptySeq DEF Init
<1>8. trn \in [Trns -> [fifo : Nat, start : BOOLEAN]]  BY DEF Init
<1>9. quiet \in SUBSET (Timers \cup {"over"})  BY DEF Init
<1>10. Typed(Now)  BY <1>2, <1>4, <1>5, <1>6, <1>7, <1>8, <1>9 DEF Typed, State, Now
<1>11. Owned(Now)
  <2>1. Members(txmsgs) = {}  BY <1>7 DEF Members
  <2>2. InUse(msg) = {}  BY DEF Init, InUse, FreeMsg
  <2>3. drv.cur = None  BY DEF Init
  <2> QED  BY <1>7, <2>1, <2>2, <2>3 DEF Owned, Owns, Now
<1>12. drv.status = "off" /\ ~drv.timerp /\ ~drv.timerw /\ ~drv.flg.ready
  BY DEF Init, NoFlags
<1>13. Line(Now) /\ Paused(Now) /\ Off(Now) /\ Awake(Now)
  BY <1>12 DEF Line, Paused, Off, Awake, Now
<1> QED  BY <1>10, <1>11, <1>13 DEF IInv, Good, Sound, Init

\* rs485_drv_start: the flags are cleared and the pause begins.
LEMMA DrvStartIs ==
  ASSUME IInv, DrvStart
  PROVE  \E t : /\ Become(Arm(t, "timerp")) /\ UNCHANGED cfg
               /\ Sound(t) /\ SameMsgs(Now, t) /\ t.trn = Now.trn /\ t.bus = Now.bus
               /\ Now.drv.status = "off" /\ t.drv.status = "rx" /\ t.drv.flg = NoFlags
<1> DEFINE s == Now
           d == [s.drv EXCEPT !.status = "rx", !.flg = NoFlags, !.fifo = FALSE]
           t == [s EXCEPT !.drv = d]
<1>1. Good(s)  BY DEF IInv
<1>2. Become(Arm(t, "timerp")) /\ UNCHANGED cfg /\ s.drv.status = "off"  BY DEF DrvStart, Now
<1> HIDE DEF s
<1>3. s \in State /\ s.drv \in Driver /\ Typed(s) /\ Owned(s) /\ Off(s)
  BY <1>1 DEF Good, Sound, Typed, State
<1>4. NoFlags \in Flags /\ ~NoFlags.ready  BY DEF NoFlags, Flags
<1>5. /\ d \in Driver /\ d.status = "rx" /\ d.flg = NoFlags /\ d.cur = s.drv.cur
      /\ d.timerp = s.drv.timerp
  BY <1>3, <1>4 DEF Driver
<1> HIDE DEF d
<1>6. /\ Typed(t) /\ t.drv = d /\ t.msg = s.msg /\ t.txmsgs = s.txmsgs
      /\ t.trn = s.trn /\ t.bus = s.bus
  BY <1>3, <1>5 DEF Typed, State
<1> HIDE DEF t
<1>7. Owned(t)  BY <1>3, <1>5, <1>6 DEF Owned
<1>8. Line(t) /\ Off(t)  BY <1>4, <1>5, <1>6 DEF Line, Off
<1>9. Paused(t)  BY <1>2, <1>3, <1>4, <1>5, <1>6 DEF Paused, Off
<1>10. SameMsgs(s, t)  BY <1>5, <1>6 DEF SameMsgs
<1> QED  BY <1>2, <1>5, <1>6, <1>7, <1>8, <1>9, <1>10 DEF Sound, s

\* rs485_drv_start leaves a good state.
LEMMA DrvStartGood == IInv /\ DrvStart => IInv'
<1> SUFFICES ASSUME IInv, DrvStart  PROVE IInv'  OBVIOUS
<1>1. PICK t : /\ Become(Arm(t, "timerp")) /\ UNCHANGED cfg
               /\ Sound(t) /\ t.drv.status = "rx"
  BY DrvStartIs
<1>2. "timerp" \in Timers  BY DEF Timers
<1>3. Good(Arm(t, "timerp"))  BY <1>1, <1>2, ArmSound
<1> QED  BY <1>1, <1>3, BecomeGood DEF IInv

\* After a stop nothing is in the queue or current, and no transactor counts anything; the
\* flags stay, but nobody is to be told any more.
Stopped(s, t) == /\ t.drv.status = "off" /\ t.drv.cur = None /\ t.txmsgs = <<>>
                 /\ \A i \in Trns : t.trn[i].fifo = 0
                 /\ \A b \in Blocks : t.msg[b] = FreeMsg \/ t.msg[b] = s.msg[b]
                 /\ Punctual => t.bus = s.bus
                 /\ \/ ~Tells(s) /\ t.drv.flg = s.drv.flg
                    \/ Tells(s) /\ t.drv.flg = [s.drv.flg EXCEPT !.reset = TRUE]

\* rs485_drv_stop
LEMMA DrvStopIs ==
  ASSUME IInv, DrvStop
  PROVE  \E t : Become(t) /\ UNCHANGED cfg /\ Good(t) /\ Stopped(Now, t)
<1> DEFINE r == Disarm(Now, "timerp")
           s == Disarm(r, "timerw")
           d == [s.drv EXCEPT !.status = "off", !.fifo = FALSE, !.pbufo = None, !.cur = None]
           m == [b \in Blocks |-> IF b \in {txmsgs[i] : i \in DOMAIN txmsgs}
                                  THEN FreeMsg ELSE msg[b]]
           t == [s EXCEPT !.drv = d, !.msg = m, !.txmsgs = <<>>, !.quiet = {}]
<1>1. PICK u \in ResetTrn(t) :
         Become([u EXCEPT !.trn = [i \in Trns |-> [fifo |-> 0, start |-> u.trn[i].start]]])
  BY DEF DrvStop
<1>2. "stop" \in cfg.faults /\ UNCHANGED cfg /\ cfg \in Cfgs  BY DEF DrvStop, IInv
<1>3. Sound(Now) /\ Typed(Now)  BY DEF IInv, Good, Sound
<1>4. "timerp" \in Timers /\ "timerw" \in Timers  BY DEF Timers
<1>5. /\ Typed(r) /\ r.drv.flg = Now.drv.flg /\ r.tasks = Now.tasks /\ ~r.drv.timerp
      /\ r.bus = Now.bus
  BY <1>3, <1>4, DisarmIs
<1> HIDE DEF r
<1>6. /\ Typed(s) /\ s.drv.flg = Now.drv.flg /\ s.tasks = Now.tasks /\ s.bus = Now.bus
      /\ ~s.drv.timerp /\ ~s.drv.timerw
  BY <1>4, <1>5, DisarmIs
<1> HIDE DEF s
<1>7. s \in State /\ s.drv \in Driver /\ msg \in [Blocks -> Msg]
  BY <1>3, <1>6 DEF Typed, State, Now
<1>8. m \in [Blocks -> Msg]
  <2>1. FreeMsg \in Msg  BY DEF FreeMsg, Msg
  <2> QED  BY <1>7, <2>1
<1>9. /\ d \in Driver /\ d.status = "off" /\ d.flg = s.drv.flg /\ d.cur = None
      /\ d.timerp = s.drv.timerp /\ d.timerw = s.drv.timerw
  BY <1>7 DEF Driver
<1>10. \A b \in Blocks : m[b] = FreeMsg \/ m[b] = Now.msg[b]  BY DEF Now
<1> HIDE DEF d, m
<1>11. <<>> \in Seq(Blocks) /\ Len(<<>>) = 0  BY EmptySeq
<1>12. /\ Typed(t) /\ t.drv = d /\ t.msg = m /\ t.txmsgs = <<>> /\ t.tasks = s.tasks
       /\ t.bus = s.bus
  BY <1>6, <1>7, <1>8, <1>9, <1>11 DEF Typed, State
<1> HIDE DEF t
<1>13. Owned(t)
  <2>1. Members(<<>>) = {}  BY <1>11 DEF Members
  <2> QED  BY <1>2, <1>9, <1>11, <1>12, <2>1 DEF Owned, Owns
<1>14. Line(t)  BY <1>3, <1>6, <1>9, <1>12 DEF Sound, Line
<1>15. Paused(t) /\ Off(t)  BY <1>6, <1>9, <1>12 DEF Paused, Off
<1>16. Sound(t) /\ t.drv.status = "off"  BY <1>9, <1>12, <1>13, <1>14, <1>15 DEF Sound
<1>17. /\ Sound(u) /\ u.drv.status = "off" /\ SameMsgs(t, u)
       /\ Punctual => u.bus = t.bus
       /\ ~Tells(t) => u = t
       /\ Tells(t) => u.drv.flg = [t.drv.flg EXCEPT !.reset = TRUE]
  BY <1>1, <1>16, ResetTrnIs
<1> DEFINE q == [i \in Trns |-> [fifo |-> 0, start |-> u.trn[i].start]]
           v == [u EXCEPT !.trn = q]
<1>18. u \in State /\ Typed(u)  BY <1>17 DEF Sound, Typed
<1>19. q \in [Trns -> [fifo : Nat, start : BOOLEAN]]
  <2>1. \A i \in Trns : u.trn[i].start \in BOOLEAN  BY <1>18 DEF State
  <2> QED  BY <2>1
<1>20. \A i \in Trns : q[i].fifo = 0  OBVIOUS
<1> HIDE DEF q
<1>21. /\ Typed(v) /\ v.drv = u.drv /\ v.msg = u.msg /\ v.txmsgs = u.txmsgs
       /\ v.tasks = u.tasks /\ v.quiet = u.quiet /\ v.trn = q /\ v.bus = u.bus
  BY <1>18, <1>19 DEF Typed, State
<1>22. Become(v)  BY <1>1 DEF q
<1> HIDE DEF v
<1>23. Owned(v)  BY <1>17, <1>21 DEF Sound, Owned
<1>24. Good(v)  BY <1>17, <1>21, <1>23, QueuedSound DEF Good, Awake
<1>25. v.drv.status = "off" /\ v.drv.cur = None /\ v.txmsgs = <<>>
  BY <1>9, <1>12, <1>17, <1>21 DEF SameMsgs
<1>26. v.msg = m /\ (Punctual => v.bus = Now.bus)  BY <1>6, <1>12, <1>17, <1>21 DEF SameMsgs
<1>27. \/ ~Tells(Now) /\ v.drv.flg = Now.drv.flg
       \/ Tells(Now) /\ v.drv.flg = [Now.drv.flg EXCEPT !.reset = TRUE]
  <2>1. t.drv.flg = Now.drv.flg  BY <1>6, <1>9, <1>12
  <2>2. Tells(t) <=> Tells(Now)  BY <2>1 DEF Tells
  <2> QED  BY <1>17, <1>21, <2>1, <2>2
<1>28. Stopped(Now, v)  BY <1>21, <1>10, <1>20, <1>25, <1>26, <1>27 DEF Stopped
<1> QED  BY <1>2, <1>22, <1>24, <1>28

\* rs485_drv_stop leaves a good state.
LEMMA DrvStopGood == IInv /\ DrvStop => IInv'
BY DrvStopIs, BecomeGood DEF IInv

\* A register write or a web page sets start_flg, and touches nothing else.
LEMMA SetStartIs ==
  ASSUME IInv, NEW i \in Trns, SetStart(i)
  PROVE  \E t : /\ Become(t) /\ UNCHANGED cfg /\ Good(t) /\ t.drv = Now.drv
               /\ SameMsgs(Now, t) /\ t.tasks = Now.tasks /\ t.bus = Now.bus
               /\ \A j \in Trns : t.trn[j].fifo = Now.trn[j].fifo
<1> DEFINE r == [trn EXCEPT ![i].start = TRUE]
           t == [Now EXCEPT !.trn = r]
<1>1. Now \in State /\ Typed(Now) /\ trn \in [Trns -> [fifo : Nat, start : BOOLEAN]]
  BY DEF IInv, Good, Sound, Typed, State, Now
<1>2. r \in [Trns -> [fifo : Nat, start : BOOLEAN]]  BY <1>1
<1>9. \A j \in Trns : r[j].fifo = Now.trn[j].fifo  BY <1>1 DEF Now
<1>3. trn' = r /\ UNCHANGED <<cfg, drv, msg, txmsgs, tasks, bus, quiet>>  BY DEF SetStart
<1> HIDE DEF r
<1>4. /\ Typed(t) /\ t.drv = Now.drv /\ t.msg = Now.msg /\ t.txmsgs = Now.txmsgs
      /\ t.tasks = Now.tasks /\ t.quiet = Now.quiet /\ t.bus = Now.bus /\ t.trn = r
  BY <1>1, <1>2 DEF Typed, State
<1>5. Become(t)  BY <1>3 DEF Become, Now
<1> HIDE DEF t
<1>6. Owned(t)  BY <1>4 DEF IInv, Good, Sound, Owned
<1>7. Sound(t)  BY <1>4, <1>6, QueuedSound DEF IInv, Good
<1>8. Awake(t)  BY <1>4 DEF IInv, Good, Awake, Runs
<1> QED  BY <1>3, <1>4, <1>5, <1>7, <1>8, <1>9 DEF Good, SameMsgs

\* Somebody sends on the bus: who was asked, or another.
LEMMA HearIs ==
  ASSUME IInv, Hear
  PROVE  \E t : /\ Become(t) /\ UNCHANGED cfg /\ Good(t)
               /\ SameMsgs(Now, t) /\ t.trn = Now.trn /\ t.tasks = Now.tasks
               /\ t.drv.status = Now.drv.status /\ t.drv.flg = Now.drv.flg
               /\ SameTimers(Now, t) /\ Now.drv.status = "rx"
               /\ \/ Now.bus.asked /\ ~t.bus.asked /\ t.bus.left = Now.bus.left
                  \/ Now.bus.left > 0
<1> DEFINE d == [drv EXCEPT !.fifo = TRUE]
<1>1. Now \in State /\ Typed(Now) /\ drv \in Driver /\ bus \in [left : Nat, asked : BOOLEAN]
  BY DEF IInv, Good, Sound, Typed, State, Now
<1>2. /\ d \in Driver /\ d.status = drv.status /\ d.cur = drv.cur /\ d.flg = drv.flg /\ d.fifo
      /\ d.timerp = drv.timerp /\ d.timerw = drv.timerw
  BY <1>1 DEF Driver
<1>3. PICK a \in [left : Nat, asked : BOOLEAN] :
         /\ bus' = a
         /\ (bus.asked /\ ~a.asked /\ a.left = bus.left) \/ bus.left > 0
  <2>1. CASE bus.asked /\ bus' = [bus EXCEPT !.asked = FALSE]
    <3> DEFINE a == [bus EXCEPT !.asked = FALSE]
    <3>1. a \in [left : Nat, asked : BOOLEAN] /\ ~a.asked /\ a.left = bus.left  BY <1>1
    <3>2. bus' = a /\ bus.asked  BY <2>1
    <3> HIDE DEF a
    <3> QED  BY <3>1, <3>2
  <2>2. CASE bus.left > 0 /\ bus' = [bus EXCEPT !.left = @ - 1]  BY <1>1, <2>2
  <2> QED  BY <2>1, <2>2 DEF Hear
<1> DEFINE t == [Now EXCEPT !.drv = d, !.bus = a, !.quiet = {}]
<1>4. drv' = d /\ drv.status = "rx" /\ quiet' = {} /\ UNCHANGED <<cfg, msg, txmsgs, tasks, trn>>
  BY DEF Hear
<1> HIDE DEF d
<1>5. /\ Typed(t) /\ t.drv = d /\ t.msg = Now.msg /\ t.txmsgs = Now.txmsgs
      /\ t.tasks = Now.tasks /\ t.trn = Now.trn /\ t.bus = a
  BY <1>1, <1>2, <1>3 DEF Typed, State
<1>6. Become(t)  BY <1>3, <1>4 DEF Become, Now
<1>7. Now.drv = drv /\ Now.bus = bus  BY DEF Now
<1> HIDE DEF t
<1>8. Owned(t)  BY <1>2, <1>5, <1>7 DEF IInv, Good, Sound, Owned
<1>9. Line(t)  BY <1>2, <1>4, <1>5, <1>7 DEF IInv, Good, Sound, Line
<1>10. Paused(t) /\ Off(t) /\ Awake(t)  BY <1>2, <1>4, <1>5 DEF Paused, LineFree, Off, Awake, Runs
<1>11. Good(t)  BY <1>5, <1>8, <1>9, <1>10 DEF Good, Sound
<1>12. SameMsgs(Now, t) /\ SameTimers(Now, t)  BY <1>2, <1>5, <1>7 DEF SameMsgs, SameTimers
<1> QED  BY <1>2, <1>3, <1>4, <1>5, <1>6, <1>7, <1>11, <1>12

\* rs485_task
LEMMA TaskGood == IInv /\ Task => IInv'
<1> SUFFICES ASSUME IInv, Task  PROVE IInv'  OBVIOUS
<1>1. cfg \in Cfgs /\ Good(Now) /\ tasks # <<>> /\ UNCHANGED cfg  BY DEF IInv, Task
<1>2. \E t \in IF drv.status = "off" THEN {Popped}
              ELSE IF Head(tasks) = "RX_OK" THEN RxOk(Popped)
              ELSE TxOk(Popped) : Become(t)
  BY DEF Task, Popped
<1>3. CASE drv.status = "off"
  <2>1. Become(Popped)  BY <1>2, <1>3
  <2>2. /\ Typed(Popped) /\ Owned(Popped) /\ Line(Popped) /\ Off(Popped)
        /\ Popped.drv = drv
    BY <1>1, PoppedIs
  <2>3. Paused(Popped) /\ Awake(Popped)  BY <1>3, <2>2 DEF Paused, Off, Awake
  <2> QED  BY <1>1, <2>1, <2>2, <2>3, BecomeGood DEF Good, Sound
<1>4. CASE drv.status # "off"
  <2>1. PICK t \in RxOk(Popped) \cup TxOk(Popped) : Become(t)  BY <1>2, <1>4
  <2>2. Good(t)  BY <1>1, <1>4, RxOkGood, TxOkGood
  <2> QED  BY <1>1, <2>1, <2>2, BecomeGood
<1> QED  BY <1>3, <1>4

\* The timers
LEMMA TimersGood == IInv /\ (TimerP \/ TimerW) => IInv'
<1> SUFFICES ASSUME IInv, TimerP \/ TimerW  PROVE IInv'  OBVIOUS
<1>1. cfg \in Cfgs /\ Good(Now) /\ InTime /\ UNCHANGED cfg  BY DEF IInv, TimerP, TimerW
<1>2. "timerp" \in Timers /\ "timerw" \in Timers  BY DEF Timers
<1>3. CASE TimerP
  <2> DEFINE s == Fired(Now, "timerp")
  <2>1. Now.drv["timerp"]  BY <1>3 DEF TimerP, Now
  <2>2. Sound(s) /\ (Punctual => s.tasks = <<>> /\ (LineFree(s) => "over" \in s.quiet))
    BY <1>1, <1>2, <2>1, FiredIs
  <2>3. PICK t \in PauseOver(s) : Become(t)  BY <1>3 DEF TimerP
  <2> HIDE DEF s
  <2>4. Good(t)  BY <2>2, PauseOverGood
  <2> QED  BY <1>1, <2>3, <2>4, BecomeGood
<1>4. CASE TimerW
  <2> DEFINE s == Fired(Now, "timerw")
  <2>1. Now.drv["timerw"]  BY <1>4 DEF TimerW, Now
  <2>2. Sound(s) /\ (Punctual => s.tasks = <<>> /\ "over" \in s.quiet)
    BY <1>1, <1>2, <2>1, FiredIs
  <2>3. PICK t \in WaitOver(s) : Become(t)  BY <1>4 DEF TimerW
  <2> HIDE DEF s
  <2>4. Good(t)  BY <2>2, WaitOverGood
  <2> QED  BY <1>1, <2>3, <2>4, BecomeGood
<1> QED  BY <1>3, <1>4

\* Every step leaves a good state.
LEMMA NextGood == IInv /\ [Next]_vars => IInv'
<1> SUFFICES ASSUME IInv, [Next]_vars  PROVE IInv'  OBVIOUS
<1>1. cfg \in Cfgs /\ Good(Now)  BY DEF IInv
<1>2. CASE DrvStart  BY <1>2, DrvStartGood
<1>3. CASE DrvStop  BY <1>3, DrvStopGood
<1>4. ASSUME NEW only \in BOOLEAN, TcpRequest(only)  PROVE IInv'
  <2>1. Unused(Now) # {} /\ UNCHANGED cfg  BY <1>4 DEF TcpRequest
  <2>2. PICK t \in NewTxMsg(Now, FALSE, only) : Become(t)  BY <1>4 DEF TcpRequest
  <2>3. Good(t)  BY <1>1, <2>1, NewTxMsgSound DEF Good
  <2> QED  BY <1>1, <2>1, <2>2, <2>3, BecomeGood
<1>5. ASSUME NEW i \in Trns, SetStart(i)  PROVE IInv'
  BY <1>1, <1>5, SetStartIs, BecomeGood
<1>6. ASSUME NEW i \in Trns, WebStart(i)  PROVE IInv'
  <2>1. Unused(Now) # {} /\ UNCHANGED cfg  BY <1>6 DEF WebStart
  <2>2. PICK t \in StartTrn(Now, i) : Become(t)  BY <1>6 DEF WebStart
  <2>3. Good(t)  BY <1>1, <2>1, StartTrnGood
  <2> QED  BY <1>1, <2>1, <2>2, <2>3, BecomeGood
<1>7. CASE TrnTimer
  <2>1. PICK due \in SUBSET cfg.periodic : \E t \in TrnTurns(due) : Become(t)  BY <1>7 DEF TrnTimer
  <2>2. PICK t \in TrnTurns(due) : Become(t)  BY <2>1
  <2>3. Good(t)  BY <1>1, TrnTurnsGood
  <2>4. UNCHANGED cfg  BY <1>7 DEF TrnTimer
  <2> QED  BY <1>1, <2>2, <2>3, <2>4, BecomeGood
<1>8. CASE Hear  BY <1>1, <1>8, HearIs, BecomeGood
<1>9. CASE Interrupt
  <2>1. PICK t \in Isr(Now) : Become(t)  BY <1>9 DEF Interrupt
  <2>2. Good(t)  BY <1>1, IsrGood DEF Good
  <2>3. UNCHANGED cfg  BY <1>9 DEF Interrupt
  <2> QED  BY <1>1, <2>1, <2>2, <2>3, BecomeGood
<1>10. CASE Task  BY <1>10, TaskGood
<1>11. CASE TimerP \/ TimerW  BY <1>11, TimersGood
<1>12. CASE UNCHANGED vars
  <2>1. Become(Now) /\ UNCHANGED cfg  BY <1>12 DEF vars, Become, Now
  <2> QED  BY <1>1, <2>1, BecomeGood
<1> QED
  BY <1>2, <1>3, <1>4, <1>5, <1>6, <1>7, <1>8, <1>9, <1>10, <1>11, <1>12 DEF Next

(***************************************************************************)
(* The counters fifo_cnt.                                                  *)
(*                                                                         *)
(* A transactor owes as many ends of messages as it has in the queue, and  *)
(* one more for the message that is current, or was: while that waits for  *)
(* the bus it is known by drv.cur, afterwards by the flags alone.          *)
(***************************************************************************)
\* Nothing is heard that nobody has asked for, and nobody is late.
Exact == cfg.foreign = 0 /\ Punctual

\* The messages of transactor i in the queue q
Mine(q, m, i) == {b \in Members(q) : m[b].trn = i}

\* The current message waits for the bus.
Waits(s) == s.drv.cur # None /\ s.drv.status # "tx" /\ ~s.drv.flg.txend

\* The flags say that transactor i is to be told of the end of its message.
Due(s, i) == s.drv.flg.int /\ ~s.drv.flg.reset /\ s.drv.flg.num = i

\* Is the message that was taken from the queue one of transactor i?
Taken(s, i) == IF Waits(s) THEN s.msg[s.drv.cur].trn = i ELSE Due(s, i)

Owes(s, i) == Cardinality(Mine(s.txmsgs, s.msg, i)) + (IF Taken(s, i) THEN 1 ELSE 0)

\* Who sends to all slaves is not answered, and is not counted.
Marked(m) == \A b \in Blocks :
               m[b].trn # None => (m[b].only <=> m[b].trn \in cfg.broadcast)

Uncounted(s) == \A i \in Trns \cap cfg.broadcast : s.trn[i].fifo = 0

Tally(s) == \A i \in Trns \ cfg.broadcast :
              /\ s.trn[i].fifo >= Owes(s, i)
              /\ Exact => s.trn[i].fifo = Owes(s, i)

\* Flags without a transactor name none; flags with one name one that is there.
Noted(s) ==
  LET f == s.drv.flg
  IN  /\ ~f.int => f.num = {} /\ ~f.reset
      /\ f.int /\ ~f.reset => f.num \in Trns /\ (f.num \in cfg.broadcast => f.only)
      /\ f.ready => ~f.txend

\* The flags fit the current message: while it waits they may have been merged with
\* those of the last one.
Fits(s) ==
  LET f == s.drv.flg
      i == s.msg[s.drv.cur].trn
  IN  s.drv.cur # None =>
        IF Waits(s)
        THEN (f.int /\ ~f.reset => f.num = i) /\ (i # None => f.int)
        ELSE (f.int <=> i # None) /\ (f.int => ~f.reset /\ f.num = i)

\* A driver that is off has nothing to tell.
Quits(s) == s.drv.status = "off" => s.drv.cur = None /\ (s.drv.flg.int => s.drv.flg.reset)

Account(s) == Marked(s.msg) /\ Uncounted(s) /\ Tally(s) /\ Noted(s) /\ Fits(s) /\ Quits(s)

\* The answer has been heard, and the line is free again.
Heard(s) == LineFree(s) /\ ~s.bus.asked

\* After a message was sent the pause begins only when nobody is to answer any more.
Answers(s) ==
  s.drv.status = "rx" /\ s.drv.flg.txend =>
    /\ s.bus.asked => LineFree(s)
    /\ s.drv.flg.only \/ HasEvent(s, "RX_OK") \/ (s.drv.timerp /\ s.tasks = <<>>) => Heard(s)

Order(s) ==
  Exact =>
    /\ s.drv.flg.int /\ ~s.drv.flg.reset /\ ~Waits(s) /\ s.drv.flg.only =>
         s.drv.flg.num \in cfg.broadcast
    /\ Waits(s) => ~HasEvent(s, "TX_OK")
    /\ s.drv.status = "rx" /\ s.drv.flg.int => Waits(s) \/ s.drv.flg.txend
    /\ s.bus.left = 0
    /\ Answers(s)

\* The flags of the last message do not keep the one that waits from being told of.
Firm(s) == Exact /\ Waits(s) => ~s.drv.flg.reset

Ledger(s) == Account(s) /\ Order(s) /\ Firm(s)

CountInv == IInv /\ Ledger(Now)

\* The queue is finite, so that the messages of a transactor in it can be counted.
LEMMA MineFinite ==
  ASSUME NEW q \in Seq(Blocks), NEW m, NEW i
  PROVE  IsFiniteSet(Mine(q, m, i)) /\ Cardinality(Mine(q, m, i)) \in Nat
<1> DEFINE n == Len(q)
           I == 1 .. n
           M == Members(q)
<1>1. n \in Nat /\ q \in [I -> Blocks]  BY LenProperties
<1>2. IsFiniteSet(I)  BY <1>1, FS_Interval
<1>3. q \in Surjection(I, M)  BY <1>1 DEF Surjection, Members
<1> HIDE DEF I, M
<1>4. IsFiniteSet(M)  BY <1>2, <1>3, FS_Surjection
<1>5. Mine(q, m, i) \in SUBSET M  BY DEF Mine, M
<1> QED  BY <1>4, <1>5, FS_Subset, FS_CardinalityType

\* One message more in the queue
LEMMA MineMore ==
  ASSUME NEW q \in Seq(Blocks), NEW m, NEW r, NEW w, NEW b, OneMore(q, m, r, w, b), NEW i
  PROVE  Cardinality(Mine(r, w, i)) =
           Cardinality(Mine(q, m, i)) + (IF w[b].trn = i THEN 1 ELSE 0)
<1> USE DEF OneMore
<1>1. IsFiniteSet(Mine(q, m, i)) /\ Cardinality(Mine(q, m, i)) \in Nat  BY MineFinite
<1>2. b \notin Mine(q, m, i)  BY DEF Mine
<1>3. CASE w[b].trn = i
  <2>1. Mine(r, w, i) = Mine(q, m, i) \cup {b}  BY <1>3 DEF Mine
  <2> QED  BY <1>1, <1>2, <1>3, <2>1, FS_AddElement
<1>4. CASE w[b].trn # i
  <2>1. Mine(r, w, i) = Mine(q, m, i)  BY <1>4 DEF Mine
  <2> QED  BY <1>1, <1>4, <2>1
<1> QED  BY <1>3, <1>4

\* The same messages in the queue
LEMMA MineSame ==
  ASSUME NEW q, NEW m, NEW w, \A x \in Members(q) : w[x].trn = m[x].trn, NEW i
  PROVE  Mine(q, w, i) = Mine(q, m, i)
BY DEF Mine

\* What leaves the messages, their transactors and the flags about them alone
LEMMA SameAccount ==
  ASSUME NEW s, Account(s), NEW t,
         t.msg = s.msg, t.txmsgs = s.txmsgs, t.drv.cur = s.drv.cur,
         \A i \in Trns : t.trn[i].fifo = s.trn[i].fifo,
         Waits(t) <=> Waits(s), SameNote(s.drv.flg, t.drv.flg),
         t.drv.flg.ready => ~t.drv.flg.txend,
         t.drv.status = "off" => s.drv.status = "off"
  PROVE  Account(t) /\ (Firm(s) => Firm(t))
<1>1. \A i : Taken(t, i) <=> Taken(s, i)  BY DEF Taken, Due, SameNote
<1>2. \A i : Owes(t, i) = Owes(s, i)  BY <1>1 DEF Owes
<1>3. Tally(t)  BY <1>2 DEF Account, Tally
<1>4. Marked(t.msg) /\ Uncounted(t)  BY DEF Account, Uncounted
<1>5. Noted(t)  BY DEF Account, Noted, SameNote
<1>6. Fits(t)  BY DEF Account, Fits, SameNote
<1>7. Quits(t)  BY DEF Account, Quits, SameNote
<1>8. Firm(s) => Firm(t)  BY DEF Firm, SameNote
<1> QED  BY <1>3, <1>4, <1>5, <1>6, <1>7, <1>8 DEF Account

\* The interrupt: a message that was sent is known by the flags, which it leaves alone.
LEMMA IsrAccount ==
  ASSUME NEW s, Typed(s), Account(s), NEW t \in Isr(s)
  PROVE  Account(t) /\ (Firm(s) => Firm(t))
<1>1. /\ SameMsgs(s, t) /\ t.trn = s.trn /\ t.drv.status = "rx"
      /\ SameNote(s.drv.flg, t.drv.flg)
  BY IsrIs
<1>2. Waits(t) <=> Waits(s)  BY IsrIs DEF Waits, SameMsgs
<1>3. t.drv.flg.ready => ~t.drv.flg.txend  BY IsrIs DEF Account, Noted
<1> QED  BY <1>1, <1>2, <1>3, SameAccount DEF SameMsgs

\* The same in the middle of a callback
LEMMA PreemptAccount ==
  ASSUME NEW s, Typed(s), Account(s), NEW t \in Preempt(s)
  PROVE  Account(t) /\ (Firm(s) => Firm(t)) /\ (Exact => t = s)
<1>1. CASE t = s  BY <1>1
<1>2. CASE t \in Isr(s) /\ "preempt" \in cfg.faults
  BY <1>2, IsrAccount DEF Exact, Punctual
<1> QED  BY <1>1, <1>2 DEF Preempt

\* After the interrupt a message that was sent is waited for, and what was heard is
\* handed to the task.
LEMMA IsrLedger ==
  ASSUME NEW s, Sound(s), Ledger(s), NEW t \in Isr(s)
  PROVE  Ledger(t)
<1>0. Typed(s)  BY DEF Sound
<1>1. Account(t) /\ Firm(t)  BY <1>0, IsrAccount DEF Ledger
<1>2. /\ SameMsgs(s, t) /\ SameTimers(s, t) /\ t.drv.status = "rx"
      /\ SameNote(s.drv.flg, t.drv.flg)
  BY <1>0, IsrIs
<1>3. Waits(t) <=> Waits(s)  BY <1>0, IsrIs DEF Waits, SameMsgs
<1>4. (t.drv.flg.chars /\ t.tasks = s.tasks) \/ (t.tasks # <<>> /\ LineFree(t))
  BY <1>0, IsrIs
<1>5. ASSUME Exact  PROVE Order(t)
  <2>1. /\ s.drv.flg.int /\ ~s.drv.flg.reset /\ ~Waits(s) /\ s.drv.flg.only =>
             s.drv.flg.num \in cfg.broadcast
        /\ Waits(s) => ~HasEvent(s, "TX_OK")
        /\ s.drv.status = "rx" /\ s.drv.flg.int => Waits(s) \/ s.drv.flg.txend
        /\ s.bus.left = 0
        /\ Answers(s)
    BY <1>5 DEF Ledger, Order
  <2>2. CASE /\ s.drv.status = "tx" /\ t.drv.flg.txend /\ LineFree(t)
             /\ t.bus.left = s.bus.left /\ t.bus.asked = ~s.drv.flg.only
             /\ \A e : HasEvent(t, e) => HasEvent(s, e) \/ e = "TX_OK"
    <3>1. s.tasks = <<>>  BY <1>5, <2>2 DEF Exact, Sound, Line
    <3>2. ~HasEvent(s, "RX_OK")  BY <3>1, EmptySeq DEF HasEvent
    <3>3. ~Waits(s) /\ t.tasks # <<>>  BY <1>4, <2>2 DEF Waits, LineFree
    <3>4. Answers(t)  BY <1>2, <2>2, <3>2, <3>3 DEF Answers, Heard, SameNote
    <3> QED  BY <1>2, <1>3, <2>1, <2>2, <3>3, <3>4 DEF Order, SameNote
  <2>3. CASE /\ s.drv.status = "rx" /\ t.drv.flg.txend = s.drv.flg.txend /\ t.bus = s.bus
             /\ ~LineFree(s)
             /\ \A e : HasEvent(t, e) => HasEvent(s, e) \/ e = "RX_OK"
    <3>1. Answers(t)
      <4> SUFFICES ASSUME t.drv.flg.txend  PROVE Answers(t)  BY DEF Answers
      <4>1. ~t.bus.asked  BY <2>1, <2>3 DEF Answers
      <4>2. CASE LineFree(t)  BY <4>1, <4>2 DEF Answers, Heard
      <4>3. CASE ~LineFree(t)
        <5>1. t.tasks = s.tasks  BY <1>4, <4>3
        <5>2. HasEvent(t, "RX_OK") => HasEvent(s, "RX_OK")  BY <5>1 DEF HasEvent
        <5> QED
          BY <1>2, <2>1, <2>3, <4>1, <5>1, <5>2 DEF Answers, Heard, SameNote, SameTimers
      <4> QED  BY <4>2, <4>3
    <3>2. Waits(t) => ~HasEvent(t, "TX_OK")  BY <1>3, <2>1, <2>3
    <3> QED  BY <1>2, <1>3, <2>1, <2>3, <3>1, <3>2 DEF Order, SameNote
  <2> QED  BY <1>0, <2>2, <2>3, IsrIs
<1> QED  BY <1>1, <1>5 DEF Ledger, Order


\* What is left when the transactor has been told
Settled(s) ==
  /\ Marked(s.msg) /\ Uncounted(s) /\ Noted(s)
  /\ s.drv.flg.int => s.drv.flg.reset
  /\ \A i \in Trns \ cfg.broadcast :
       LET n == Cardinality(Mine(s.txmsgs, s.msg, i))
       IN  s.trn[i].fifo >= n /\ (Exact => s.trn[i].fifo = n)

\* The transactor is told (reset_flg_trn): it owes what it has in the queue.
LEMMA ResetTrnSettles ==
  ASSUME NEW s, Sound(s), s.drv.status \in {"rx", "off"}, Account(s), Firm(s),
         NEW u \in ResetTrn(s)
  PROVE  Settled(u)
<1>1. SameMsgs(s, u) /\ s.drv.flg \in Flags /\ s.trn \in [Trns -> [fifo : Nat, start : BOOLEAN]]
      /\ s.txmsgs \in Seq(Blocks)
  BY ResetTrnIs DEF Sound, Typed, State, Driver
<1>2. \A i : Cardinality(Mine(s.txmsgs, s.msg, i)) \in Nat  BY <1>1, MineFinite
<1>3. \A i \in Trns : s.trn[i].fifo \in Nat  BY <1>1
<1>4. CASE ~Tells(s)
  <2>1. u = s  BY <1>4, ResetTrnIs
  <2>2. s.drv.flg.int => s.drv.flg.reset  BY <1>4 DEF Tells, Account, Noted
  <2>3. ASSUME NEW i \in Trns \ cfg.broadcast, Exact, Taken(s, i)  PROVE FALSE
    <3>1. ~s.drv.flg.int \/ s.drv.flg.reset  BY <2>2
    <3>2. CASE Waits(s)
      <4>1. s.drv.cur # None /\ s.msg[s.drv.cur].trn = i /\ i # None
        BY <2>3, <3>2, BusAssumption DEF Taken, Waits
      <4> QED  BY <2>3, <3>1, <3>2, <4>1 DEF Account, Fits, Firm
    <3>3. CASE ~Waits(s)  BY <2>3, <3>1, <3>3 DEF Taken, Due
    <3> QED  BY <3>2, <3>3
  <2>4. ASSUME NEW i \in Trns \ cfg.broadcast
        PROVE  LET n == Cardinality(Mine(s.txmsgs, s.msg, i))
               IN  s.trn[i].fifo >= n /\ (Exact => s.trn[i].fifo = n)
    <3>1. s.trn[i].fifo >= Owes(s, i) /\ (Exact => s.trn[i].fifo = Owes(s, i))
      BY DEF Account, Tally
    <3> QED  BY <1>2, <1>3, <2>3, <3>1 DEF Owes
  <2> QED  BY <2>1, <2>2, <2>4 DEF Settled, Account
<1>5. CASE Tells(s)
  <2>1. /\ u.drv.flg = [s.drv.flg EXCEPT !.reset = TRUE]
        /\ \A j \in Trns : u.trn[j].fifo = IF j = s.drv.flg.num THEN Minus(s.trn[j].fifo)
                                                              ELSE s.trn[j].fifo
    BY <1>5, ResetTrnIs
  <2>2. /\ u.drv.flg.int /\ u.drv.flg.reset
        /\ u.drv.flg.ready = s.drv.flg.ready /\ u.drv.flg.txend = s.drv.flg.txend
    BY <1>1, <1>5, <2>1 DEF Flags, Tells
  <2>3. Noted(u)  BY <2>2 DEF Account, Noted
  <2>4. Uncounted(u)  BY <2>1 DEF Account, Uncounted, Minus
  <2>5. \A i \in Trns : Taken(s, i) <=> i = s.drv.flg.num
    <3>1. CASE Waits(s)
      <4>1. s.msg[s.drv.cur].trn = s.drv.flg.num
        BY <1>5, <3>1 DEF Account, Fits, Tells, Waits
      <4> QED  BY <3>1, <4>1 DEF Taken
    <3>2. CASE ~Waits(s)  BY <1>5, <3>2 DEF Taken, Due, Tells
    <3> QED  BY <3>1, <3>2
  <2>6. ASSUME NEW i \in Trns \ cfg.broadcast
        PROVE  LET n == Cardinality(Mine(u.txmsgs, u.msg, i))
               IN  u.trn[i].fifo >= n /\ (Exact => u.trn[i].fifo = n)
    <3> DEFINE n == Cardinality(Mine(s.txmsgs, s.msg, i))
               f == s.trn[i].fifo
    <3>1. /\ f >= n + (IF i = s.drv.flg.num THEN 1 ELSE 0)
          /\ Exact => f = n + (IF i = s.drv.flg.num THEN 1 ELSE 0)
      BY <2>5 DEF Account, Tally, Owes
    <3>2. n \in Nat /\ f \in Nat  BY <1>2, <1>3
    <3>3. u.trn[i].fifo = IF i = s.drv.flg.num THEN Minus(f) ELSE f  BY <2>1
    <3>4. Cardinality(Mine(u.txmsgs, u.msg, i)) = n  BY <1>1 DEF SameMsgs
    <3> HIDE DEF n, f
    <3> QED  BY <3>1, <3>2, <3>3, <3>4 DEF Minus
  <2>7. Marked(u.msg)  BY <1>1 DEF Account, SameMsgs
  <2> QED  BY <2>2, <2>3, <2>4, <2>6, <2>7 DEF Settled
<1> QED  BY <1>4, <1>5

\* What is merged of the flags (get_next_tx_msg)
LEMMA MergedIs ==
  ASSUME NEW f \in Flags, NEW m \in Msg
  PROVE  LET g == Merged(f, MsgFlags(m))
         IN  /\ ~g.txend
             /\ g.int = (f.int \/ m.trn # None) /\ g.reset = f.reset
             /\ g.only = (f.only \/ m.only)
             /\ g.num = f.num \cup (IF m.trn = None THEN {} ELSE m.trn)
<1> DEFINE h == MsgFlags(m)
           n == IF m.trn = None THEN {} ELSE m.trn
           b == m.trn # None
<1>1. h = [NoFlags EXCEPT !.only = m.only, !.int = b, !.num = n]  BY DEF MsgFlags
<1>2. h.int = b /\ h.only = m.only /\ h.num = n
  <2> HIDE DEF n, b
  <2> QED  BY <1>1 DEF NoFlags
<1> HIDE DEF h, n, b
<1>3. LET g == Merged(f, h)
      IN  /\ ~g.txend /\ g.int = (f.int \/ h.int) /\ g.reset = f.reset
          /\ g.only = (f.only \/ h.only) /\ g.num = f.num \cup h.num
  BY DEF Merged, Flags
<1> QED  BY <1>2, <1>3 DEF h, n, b

\* The flags of the message that is sent, and cleared flags
LEMMA MsgFlagsIs ==
  ASSUME NEW m \in Msg
  PROVE  LET g == MsgFlags(m)
         IN  /\ ~g.txend /\ ~g.ready /\ ~g.reset
             /\ g.int = (m.trn # None) /\ g.only = m.only
             /\ g.num = IF m.trn = None THEN {} ELSE m.trn
<1> DEFINE h == MsgFlags(m)
           n == IF m.trn = None THEN {} ELSE m.trn
           b == m.trn # None
<1>1. h = [NoFlags EXCEPT !.only = m.only, !.int = b, !.num = n]  BY DEF MsgFlags
<1> HIDE DEF h, n, b
<1>2. ~h.txend /\ ~h.ready /\ ~h.reset /\ h.int = b /\ h.only = m.only /\ h.num = n
  BY <1>1 DEF NoFlags
<1> QED  BY <1>2 DEF h, n, b

\* Cleared flags name nobody.
LEMMA ClearedIs ==
  ASSUME NEW f \in Flags
  PROVE  LET g == Cleared(f)
         IN  /\ ~g.int /\ ~g.reset /\ ~g.txend /\ ~g.only /\ g.num = {}
             /\ g.ready = f.ready /\ g.chars = f.chars
BY DEF Cleared, Flags, NoFlags

\* The next message is taken from the queue (get_next_tx_msg): the transactor owes it
\* all the same.  Its flags are new unless another transactor was told just now.
LEMMA TakeNextAccount ==
  ASSUME NEW s, Sound(s), s.drv.status = "rx", s.drv.cur = None, Settled(s)
  PROVE  LET t == TakeNext(s)
         IN  /\ Account(t) /\ ~t.drv.flg.txend
             /\ t.drv.cur = None => ~t.drv.flg.int
             /\ ~s.drv.flg.int => ~t.drv.flg.reset
<1> DEFINE t == TakeNext(s)
<1>1. s \in State /\ s.drv.flg \in Flags /\ s.txmsgs \in Seq(Blocks)
      /\ s.trn \in [Trns -> [fifo : Nat, start : BOOLEAN]]
  BY DEF Sound, Typed, State, Driver
<1>2. t.drv.status = "rx" /\ t.msg = s.msg /\ t.trn = s.trn /\ Typed(t)
  BY TakeNextIs DEF Sound
<1>3. Marked(t.msg) /\ Uncounted(t) /\ Quits(t)  BY <1>2 DEF Settled, Uncounted, Quits
<1> HIDE DEF t
<1>4. CASE t.drv.cur = None /\ t.txmsgs = s.txmsgs /\ t.drv.flg = Cleared(s.drv.flg)
  <2>1. /\ ~t.drv.flg.int /\ ~t.drv.flg.reset /\ ~t.drv.flg.txend /\ t.drv.flg.num = {}
    BY <1>1, <1>4, ClearedIs
  <2>2. \A i : ~Taken(t, i)  BY <1>4, <2>1 DEF Taken, Waits, Due
  <2>3. Tally(t)
    <3> SUFFICES ASSUME NEW i \in Trns \ cfg.broadcast
                 PROVE  t.trn[i].fifo >= Owes(t, i) /\ (Exact => t.trn[i].fifo = Owes(t, i))
      BY DEF Tally
    <3>1. Cardinality(Mine(s.txmsgs, s.msg, i)) \in Nat  BY <1>1, MineFinite
    <3>2. Owes(t, i) = Cardinality(Mine(s.txmsgs, s.msg, i))  BY <1>2, <1>4, <2>2, <3>1 DEF Owes
    <3> QED  BY <1>2, <3>2 DEF Settled
  <2>4. Noted(t) /\ Fits(t)  BY <1>4, <2>1 DEF Noted, Fits
  <2> QED  BY <1>3, <1>4, <2>1, <2>3, <2>4 DEF Account, t
<1>5. CASE /\ t.drv.cur \in Blocks
           /\ Members(s.txmsgs) = Members(t.txmsgs) \cup {t.drv.cur}
           /\ t.drv.cur \notin Members(t.txmsgs)
           /\ t.drv.flg = Merged(s.drv.flg, MsgFlags(s.msg[t.drv.cur]))
  <2> DEFINE b == t.drv.cur
             m == s.msg[b]
             f == s.drv.flg
             g == t.drv.flg
  <2>1. m \in Msg /\ b # None  BY <1>1, <1>5, BusAssumption DEF State
  <2>2. /\ ~g.txend
        /\ g.int = (f.int \/ m.trn # None) /\ g.reset = f.reset
        /\ g.only = (f.only \/ m.only)
        /\ g.num = f.num \cup (IF m.trn = None THEN {} ELSE m.trn)
    BY <1>1, <1>5, <2>1, MergedIs
  <2>3. Waits(t)  BY <1>2, <2>1, <2>2 DEF Waits
  <2>4. f.int => f.reset  BY DEF Settled
  <2>5. ~f.int => f.num = {} /\ ~f.reset  BY DEF Settled, Noted
  <2>6. m.trn # None => m.trn \in Trns /\ (m.only <=> m.trn \in cfg.broadcast)
    BY <1>5, <2>1 DEF Settled, Marked, Msg
  <2>7. g.int /\ ~g.reset => ~f.int /\ m.trn # None /\ g.num = m.trn  BY <2>2, <2>4, <2>5
  <2>8. Noted(t)
    <3>1. ~g.int => g.num = {} /\ ~g.reset  BY <2>2, <2>5
    <3>2. g.int /\ ~g.reset => g.num \in Trns /\ (g.num \in cfg.broadcast => g.only)
      BY <2>2, <2>6, <2>7
    <3> QED  BY <2>2, <3>1, <3>2 DEF Noted
  <2>9. Fits(t)  BY <1>2, <2>2, <2>3, <2>7 DEF Fits
  <2>10. Tally(t)
    <3> SUFFICES ASSUME NEW i \in Trns \ cfg.broadcast
                 PROVE  t.trn[i].fifo >= Owes(t, i) /\ (Exact => t.trn[i].fifo = Owes(t, i))
      BY DEF Tally
    <3>1. t.txmsgs \in Seq(Blocks)  BY <1>2 DEF Typed, State
    <3>2. Cardinality(Mine(s.txmsgs, s.msg, i)) =
            Cardinality(Mine(t.txmsgs, s.msg, i)) + (IF m.trn = i THEN 1 ELSE 0)
      <4>1. OneMore(t.txmsgs, s.msg, s.txmsgs, s.msg, b)  BY <1>5 DEF OneMore
      <4> QED  BY <3>1, <4>1, MineMore
    <3>3. Owes(t, i) = Cardinality(Mine(s.txmsgs, s.msg, i))
      BY <1>2, <2>3, <3>2 DEF Owes, Taken
    <3> QED  BY <1>2, <3>3 DEF Settled
  <2>11. ~f.int => ~g.reset  BY <2>2, <2>5
  <2> QED  BY <1>3, <2>1, <2>2, <2>8, <2>9, <2>10, <2>11 DEF Account, t
<1>6. QED  BY <1>4, <1>5, TakeNextIs DEF t

\* get_next_tx_msg
LEMMA GetNextAccount ==
  ASSUME NEW s, Sound(s), s.drv.status = "rx", Account(s), Firm(s), NEW t \in GetNext(s)
  PROVE  /\ Account(t)
         /\ \/ t = s /\ s.drv.cur # None
            \/ /\ s.drv.cur = None /\ ~t.drv.flg.txend
               /\ t.drv.cur = None => ~t.drv.flg.int
               /\ ~s.drv.flg.int => ~t.drv.flg.reset
               /\ Exact => t.bus = s.bus
<1>1. CASE s.drv.cur # None  BY <1>1 DEF GetNext
<1>2. CASE s.drv.cur = None
  <2>1. PICK u \in ResetTrn(s) : t = TakeNext(u)  BY <1>2 DEF GetNext
  <2>2. /\ Sound(u) /\ u.drv.status = "rx" /\ u.drv.cur = None
        /\ Exact => u.bus = s.bus
    BY <1>2, ResetTrnIs DEF SameMsgs, Exact
  <2>3. Settled(u)  BY ResetTrnSettles
  <2>4. ~s.drv.flg.int => ~u.drv.flg.int  BY ResetTrnIs DEF Tells
  <2>5. t.bus = u.bus  BY <2>1, <2>2, TakeNextIs
  <2> QED  BY <1>2, <2>1, <2>2, <2>3, <2>4, <2>5, TakeNextAccount
<1> QED  BY <1>1, <1>2


\* The message goes out: the flags are its own now.
LEMMA StartTxLedger ==
  ASSUME NEW s, Sound(s), s.drv.status = "rx", s.drv.cur # None, LineFree(s),
         Punctual => s.tasks = <<>> /\ "over" \in s.quiet,
         Account(s), Exact => s.bus.left = 0
  PROVE  Ledger(StartTx(s))
<1> DEFINE t == StartTx(s)
           m == s.msg[s.drv.cur]
           g == t.drv.flg
<1>1. SameMsgs(s, t) /\ t.trn = s.trn /\ t.bus = s.bus /\ t.drv.status = "tx" /\ g = MsgFlags(m)
  BY StartTxSound
<1>2. s.drv.cur \in Blocks /\ m \in Msg  BY DEF Sound, Typed, State, Driver
<1> HIDE DEF t
<1>3. /\ ~g.txend /\ ~g.ready /\ ~g.reset
      /\ g.int = (m.trn # None) /\ g.only = m.only
      /\ g.num = IF m.trn = None THEN {} ELSE m.trn
  BY <1>1, <1>2, MsgFlagsIs
<1>4. m.trn # None => m.trn \in Trns /\ (m.only <=> m.trn \in cfg.broadcast)
  BY <1>2 DEF Account, Marked, Msg
<1>5. ~Waits(t)  BY <1>1 DEF Waits
<1>6. \A i \in Trns : Taken(t, i) <=> Taken(s, i)
  <2> TAKE i \in Trns
  <2>1. Taken(t, i) <=> m.trn = i  BY <1>3, <1>5, BusAssumption DEF Taken, Due
  <2>2. CASE Waits(s)  BY <2>1, <2>2 DEF Taken
  <2>3. CASE ~Waits(s)
    <3>1. /\ s.drv.flg.int <=> m.trn # None
          /\ s.drv.flg.int => ~s.drv.flg.reset /\ s.drv.flg.num = m.trn
      BY <2>3 DEF Account, Fits
    <3>2. Due(s, i) <=> m.trn = i  BY <3>1, BusAssumption DEF Due
    <3> QED  BY <2>1, <2>3, <3>2 DEF Taken
  <2> QED  BY <2>2, <2>3
<1>7. Tally(t)
  <2>1. \A i \in Trns : Owes(t, i) = Owes(s, i)  BY <1>1, <1>6 DEF Owes, SameMsgs
  <2> QED  BY <1>1, <2>1 DEF Account, Tally
<1>8. Noted(t)  BY <1>3, <1>4 DEF Noted
<1>9. Fits(t)  BY <1>1, <1>3, <1>5 DEF Fits, SameMsgs
<1>10. Marked(t.msg) /\ Uncounted(t) /\ Quits(t)
  BY <1>1 DEF Account, Uncounted, Quits, SameMsgs
<1>11. Order(t)  BY <1>1, <1>3, <1>4, <1>5 DEF Order, Answers
<1>12. Firm(t)  BY <1>5 DEF Firm
<1> QED  BY <1>7, <1>8, <1>9, <1>10, <1>11, <1>12 DEF Ledger, Account, t

\* Flags that were just cleared or merged
LEMMA FreshOrder ==
  ASSUME NEW t, t.drv.status = "rx", ~t.drv.flg.txend, Exact => t.bus.left = 0,
         t.drv.cur = None => ~t.drv.flg.int,
         Exact /\ t.drv.cur # None => ~HasEvent(t, "TX_OK")
  PROVE  Order(t)
<1>1. Waits(t) <=> t.drv.cur # None  BY DEF Waits
<1>2. Answers(t)  BY DEF Answers
<1> QED  BY <1>1, <1>2 DEF Order

\* The next message, and an interrupt perhaps; no other transactor was told just now, or the
\* line is free, so that the message goes out.
LEMMA NextIsFresh ==
  ASSUME NEW s, Sound(s), Ledger(s), s.drv.status = "rx", Exact => s.tasks = <<>>,
         NEW t \in GetNext(s), NEW v \in Preempt(t)
  PROVE  /\ Account(v) /\ v.drv.status = "rx"
         /\ Exact => v = t /\ v.bus.left = 0
         /\ v.drv.cur = None => ~v.drv.flg.txend
         /\ Order(v)
         /\ s.drv.cur # None \/ ~s.drv.flg.int => Firm(v)
<1>1. Account(s) /\ Firm(s) /\ Order(s)  BY DEF Ledger
<1>2. /\ Sound(t) /\ Typed(t) /\ t.drv.status = "rx"
      /\ Punctual => t.tasks = s.tasks
  BY GetNextIs DEF Sound
<1>3. /\ Account(t)
      /\ \/ t = s /\ s.drv.cur # None
         \/ /\ s.drv.cur = None /\ ~t.drv.flg.txend
            /\ t.drv.cur = None => ~t.drv.flg.int
            /\ ~s.drv.flg.int => ~t.drv.flg.reset
            /\ Exact => t.bus = s.bus
  BY <1>1, GetNextAccount
<1>4. Account(v) /\ (Firm(t) => Firm(v)) /\ (Exact => v = t)
  BY <1>2, <1>3, PreemptAccount
<1>5. SameMsgs(t, v) /\ v.drv.status = "rx"  BY <1>2, PreemptIs
<1>6. Exact => t.bus.left = 0  BY <1>1, <1>3 DEF Order
<1>7. t.drv.cur = None => ~t.drv.flg.txend  BY <1>3
<1>8. v.drv.flg.txend = t.drv.flg.txend
  <2>1. CASE v = t  BY <2>1
  <2>2. CASE v \in Isr(t)  BY <1>2, <2>2, IsrIs
  <2> QED  BY <2>1, <2>2 DEF Preempt
<1>9. v.drv.cur = None => ~v.drv.flg.txend  BY <1>5, <1>7, <1>8 DEF SameMsgs
<1>10. Order(v)
  <2> SUFFICES ASSUME Exact  PROVE Order(v)  BY DEF Order
  <2>1. v = t  BY <1>4
  <2>2. CASE t = s  BY <1>1, <2>1, <2>2
  <2>3. CASE ~t.drv.flg.txend /\ (t.drv.cur = None => ~t.drv.flg.int)
    <3>1. t.tasks = <<>>  BY <1>2 DEF Exact
    <3>2. ~HasEvent(t, "TX_OK")  BY <3>1, EmptySeq DEF HasEvent
    <3> QED  BY <1>2, <1>6, <2>1, <2>3, <3>2, FreshOrder
  <2> QED  BY <1>3, <2>2, <2>3
<1>11. s.drv.cur # None \/ ~s.drv.flg.int => Firm(v)
  <2>1. CASE t = s  BY <1>1, <1>4, <2>1
  <2>2. CASE ~t.drv.flg.reset  BY <1>4, <2>2 DEF Firm
  <2> QED  BY <1>3, <2>1, <2>2
<1> QED  BY <1>4, <1>5, <1>6, <1>9, <1>10, <1>11

\* rs485_next_txmsg
LEMMA NextTxMsgLedger ==
  ASSUME NEW s, Sound(s), Ledger(s), NEW u \in NextTxMsg(s)
  PROVE  Ledger(u)
<1>1. CASE ~(s.drv.status = "rx" /\ s.drv.flg.ready)
  BY <1>1 DEF NextTxMsg
<1>2. CASE s.drv.status = "rx" /\ s.drv.flg.ready
  <2>1. PICK v \in UNION {Preempt(t) : t \in GetNext(s)} :
           u = IF v.drv.cur # None /\ v.drv.flg.ready /\ LineFree(v) THEN StartTx(v) ELSE v
    BY <1>2 DEF NextTxMsg
  <2>2. PICK t \in GetNext(s) : v \in Preempt(t)  OBVIOUS
  <2>3. Exact => s.tasks = <<>>  BY <1>2 DEF Sound, Line, Exact
  <2>4. /\ Account(v) /\ v.drv.status = "rx" /\ Order(v)
        /\ Exact => v.bus.left = 0
        /\ s.drv.cur # None \/ ~s.drv.flg.int => Firm(v)
    BY <1>2, <2>2, <2>3, NextIsFresh
  <2>5. Firm(v)
    <3>1. CASE Exact /\ s.drv.cur = None
      <4>1. ~s.drv.flg.txend  BY <1>2 DEF Ledger, Account, Noted
      <4>2. ~s.drv.flg.int  BY <1>2, <3>1, <4>1 DEF Ledger, Order, Waits
      <4> QED  BY <2>4, <4>2
    <3>2. CASE ~Exact  BY <3>2 DEF Firm
    <3> QED  BY <2>4, <3>1, <3>2
  <2>6. Sound(t) /\ t.drv.status = "rx"  BY <1>2, <2>2, GetNextIs
  <2>7. Sound(v)  BY <2>2, <2>6, PreemptIs
  <2>8. CASE v.drv.cur # None /\ v.drv.flg.ready /\ LineFree(v)
    <3>1. Punctual => v.tasks = <<>> /\ "over" \in v.quiet
      BY <2>4, <2>7, <2>8 DEF Sound, Line, Paused
    <3> QED  BY <2>1, <2>4, <2>7, <2>8, <3>1, StartTxLedger
  <2>9. CASE ~(v.drv.cur # None /\ v.drv.flg.ready /\ LineFree(v))
    BY <2>1, <2>4, <2>5, <2>9 DEF Ledger
  <2> QED  BY <2>8, <2>9
<1> QED  BY <1>1, <1>2

\* rs485_timerp_isr: whoever was told just now, the line is free and the next message goes
\* out at once.
LEMMA PauseOverLedger ==
  ASSUME NEW s, Sound(s), Ledger(s),
         Punctual => s.tasks = <<>> /\ (LineFree(s) => "over" \in s.quiet),
         Exact /\ s.drv.status = "rx" /\ s.drv.cur = None /\ s.drv.flg.int => LineFree(s),
         NEW u \in PauseOver(s)
  PROVE  Ledger(u)
<1>1. CASE s.drv.status # "rx"  BY <1>1 DEF PauseOver
<1>2. CASE s.drv.status = "rx"
  <2>1. PICK v \in UNION {Preempt(t) : t \in GetNext(s)} :
           u = IF v.drv.status # "rx" \/ ~LineFree(v) THEN v
               ELSE IF v.drv.cur # None THEN StartTx(v)
               ELSE [v EXCEPT !.drv = [@ EXCEPT !.flg.ready = TRUE]]
    BY <1>2 DEF PauseOver
  <2>2. PICK t \in GetNext(s) : v \in Preempt(t)  OBVIOUS
  <2>3. /\ Account(v) /\ v.drv.status = "rx" /\ Order(v)
        /\ Exact => v = t /\ v.bus.left = 0
        /\ v.drv.cur = None => ~v.drv.flg.txend
        /\ s.drv.cur # None \/ ~s.drv.flg.int => Firm(v)
    BY <1>2, <2>2, NextIsFresh DEF Exact
  <2>4. /\ Sound(t) /\ t.drv.status = "rx" /\ t.drv.flg.chars = s.drv.flg.chars
        /\ Punctual => t.tasks = s.tasks /\ s.quiet \subseteq t.quiet /\ t.drv.fifo = s.drv.fifo
    BY <1>2, GetNextIs
  <2>5. Sound(v) /\ (Punctual => v = t)  BY <2>2, <2>4, PreemptIs
  <2>6. CASE ~LineFree(v)
    <3>1. Firm(v)
      <4>1. CASE Exact
        <5>1. ~LineFree(s)  BY <2>3, <2>4, <2>6, <4>1 DEF LineFree, Exact
        <5> QED  BY <1>2, <2>3, <4>1, <5>1
      <4>2. CASE ~Exact  BY <4>2 DEF Firm
      <4> QED  BY <4>1, <4>2
    <3> QED  BY <2>1, <2>3, <2>6, <3>1 DEF Ledger
  <2>7. CASE LineFree(v) /\ v.drv.cur # None
    <3>1. Punctual => v.tasks = <<>> /\ "over" \in v.quiet
      BY <2>4, <2>5, <2>7 DEF LineFree
    <3> QED  BY <2>1, <2>3, <2>5, <2>7, <3>1, StartTxLedger
  <2>8. CASE LineFree(v) /\ v.drv.cur = None
    <3> DEFINE d == [v.drv EXCEPT !.flg.ready = TRUE]
    <3>1. v \in State /\ v.drv \in Driver /\ v.drv.flg \in Flags
      BY <2>5 DEF Sound, Typed, State, Driver
    <3>2. u = [v EXCEPT !.drv = d]  BY <2>1, <2>3, <2>8
    <3>3. /\ d.cur = v.drv.cur /\ d.status = v.drv.status
          /\ d.flg.txend = v.drv.flg.txend /\ SameNote(v.drv.flg, d.flg)
      BY <3>1 DEF Driver, Flags, SameNote
    <3> HIDE DEF d
    <3>4. /\ u.drv = d /\ u.msg = v.msg /\ u.txmsgs = v.txmsgs /\ u.trn = v.trn
          /\ u.bus = v.bus /\ u.tasks = v.tasks
      BY <3>1, <3>2 DEF State
    <3>5. ~Waits(v) /\ ~Waits(u) /\ ~u.drv.flg.txend
      BY <2>3, <2>8, <3>3, <3>4 DEF Waits
    <3>6. Account(u)  BY <2>3, <3>3, <3>4, <3>5, SameAccount
    <3>7. Exact => ~u.drv.flg.int
      <4> SUFFICES ASSUME Exact  PROVE ~u.drv.flg.int  OBVIOUS
      <4>1. ~v.drv.flg.int  BY <2>3, <2>8, <3>5 DEF Order
      <4> QED  BY <3>3, <3>4, <4>1 DEF SameNote
    <3>8. Order(u)  BY <2>3, <3>3, <3>4, <3>5, <3>7 DEF Order, Answers
    <3>9. Firm(u)  BY <3>5 DEF Firm
    <3> QED  BY <3>6, <3>8, <3>9 DEF Ledger
  <2> QED  BY <2>6, <2>7, <2>8
<1> QED  BY <1>1, <1>2


\* What changes only timers and start flags, and takes events from the task's queue
LEMMA SameLedger ==
  ASSUME NEW s, Ledger(s), NEW t, SameMsgs(s, t),
         \A i \in Trns : t.trn[i].fifo = s.trn[i].fifo,
         t.bus = s.bus, t.drv.status = s.drv.status, t.drv.flg = s.drv.flg,
         t.drv.fifo = s.drv.fifo, \A e : HasEvent(t, e) => HasEvent(s, e),
         (Exact /\ s.drv.status = "rx" /\ s.drv.flg.txend /\ t.drv.timerp /\ t.tasks = <<>>)
           => Heard(s)
  PROVE  Ledger(t)
<1>1. Waits(t) <=> Waits(s)  BY DEF Waits, SameMsgs
<1>2. SameNote(s.drv.flg, t.drv.flg) /\ (t.drv.flg.ready => ~t.drv.flg.txend)
  BY DEF SameNote, Ledger, Account, Noted
<1>3. Account(t) /\ Firm(t)  BY <1>1, <1>2, SameAccount DEF Ledger, SameMsgs
<1>4. Exact => Answers(t)  BY DEF Ledger, Order, Answers, Heard, LineFree
<1>5. Order(t)  BY <1>1, <1>4 DEF Ledger, Order
<1> QED  BY <1>3, <1>5 DEF Ledger

\* A timer is armed: the pause only when nobody is to answer any more.
LEMMA ArmLedger ==
  ASSUME NEW s, Typed(s), Ledger(s), NEW x \in Timers,
         Exact /\ s.drv.status = "rx" /\ s.drv.flg.txend /\ x = "timerp" => Heard(s)
  PROVE  Ledger(Arm(s, x))
<1> DEFINE t == Arm(s, x)
<1> HIDE DEF t
<1>1. /\ SameMsgs(s, t) /\ t.trn = s.trn /\ t.bus = s.bus /\ t.tasks = s.tasks
      /\ t.drv.status = s.drv.status /\ t.drv.flg = s.drv.flg /\ t.drv.fifo = s.drv.fifo
      /\ x # "timerp" => t.drv.timerp = s.drv.timerp
  BY ArmIs DEF t
<1>2. \A e : HasEvent(t, e) => HasEvent(s, e)  BY <1>1 DEF HasEvent
<1>3. (Exact /\ s.drv.status = "rx" /\ s.drv.flg.txend /\ t.drv.timerp /\ t.tasks = <<>>)
        => Heard(s)
  BY <1>1 DEF Ledger, Order, Answers
<1> QED  BY <1>1, <1>2, <1>3, SameLedger DEF t

\* A timer is disarmed.
LEMMA DisarmLedger ==
  ASSUME NEW s, Typed(s), Ledger(s), NEW x \in Timers
  PROVE  Ledger(Disarm(s, x))
<1> DEFINE t == Disarm(s, x)
<1> HIDE DEF t
<1>1. /\ SameMsgs(s, t) /\ t.trn = s.trn /\ t.bus = s.bus /\ t.tasks = s.tasks
      /\ t.drv.status = s.drv.status /\ t.drv.flg = s.drv.flg /\ t.drv.fifo = s.drv.fifo
      /\ t.drv.timerp => s.drv.timerp
  BY DisarmIs DEF t
<1>2. \A e : HasEvent(t, e) => HasEvent(s, e)  BY <1>1 DEF HasEvent
<1>3. (Exact /\ s.drv.status = "rx" /\ s.drv.flg.txend /\ t.drv.timerp /\ t.tasks = <<>>)
        => Heard(s)
  BY <1>1 DEF Ledger, Order, Answers
<1> QED  BY <1>1, <1>2, <1>3, SameLedger DEF t

\* The current message is freed: what the flags say of it stays (rs485_free_tx_msg).
LEMMA FreeTxMsgLedger ==
  ASSUME NEW s, Typed(s), Owned(s), Ledger(s), Exact => ~Waits(s) \/ ~s.drv.flg.int
  PROVE  Ledger(FreeTxMsg(s))
<1> DEFINE t == FreeTxMsg(s)
<1> HIDE DEF t
<1>1. /\ SameTimers(s, t) /\ t.trn = s.trn /\ t.bus = s.bus
      /\ t.drv.cur = None /\ t.txmsgs = s.txmsgs
      /\ \A b \in Blocks : t.msg[b] = IF b = s.drv.cur THEN FreeMsg ELSE s.msg[b]
      /\ t.drv.status = s.drv.status /\ t.drv.flg = s.drv.flg /\ t.drv.fifo = s.drv.fifo
      /\ t.tasks = s.tasks
  BY FreeTxMsgIs DEF t
<1>2. /\ Marked(s.msg) /\ Uncounted(s) /\ Tally(s) /\ Noted(s) /\ Fits(s) /\ Quits(s)
      /\ Order(s)
  BY DEF Ledger, Account
<1>3. s.txmsgs \in Seq(Blocks) /\ s.drv.cur \in Blocks \cup {None}
      /\ s.trn \in [Trns -> [fifo : Nat, start : BOOLEAN]]
  BY DEF Typed, State, Driver
<1>4. \A i : Mine(t.txmsgs, t.msg, i) = Mine(s.txmsgs, s.msg, i)
  <2>1. \A x \in Members(s.txmsgs) : x \in Blocks /\ x # s.drv.cur
    BY <1>3, ElementOfSeq DEF Owned, Owns, Members
  <2>2. \A x \in Members(s.txmsgs) : t.msg[x].trn = s.msg[x].trn  BY <1>1, <2>1
  <2> TAKE i
  <2>3. Mine(s.txmsgs, t.msg, i) = Mine(s.txmsgs, s.msg, i)  BY <2>2, MineSame
  <2> QED  BY <1>1, <2>3
<1>5. ~Waits(t)  BY <1>1 DEF Waits
<1>6. \A i \in Trns : Taken(t, i) <=> Due(s, i)  BY <1>1, <1>5 DEF Taken, Due
<1>7. \A i \in Trns : Due(s, i) => Taken(s, i)  BY <1>2 DEF Taken, Due, Fits, Waits
<1>8. ASSUME NEW i \in Trns, Exact, Taken(s, i)  PROVE Due(s, i)
  <2>1. CASE Waits(s)
    <3>1. s.msg[s.drv.cur].trn = i /\ i # None  BY <1>8, <2>1, BusAssumption DEF Taken
    <3>2. ~s.drv.flg.int  BY <1>8, <2>1
    <3> QED  BY <1>2, <2>1, <3>1, <3>2 DEF Fits, Waits
  <2>2. CASE ~Waits(s)  BY <1>8, <2>2 DEF Taken
  <2> QED  BY <2>1, <2>2
<1>9. Tally(t)
  <2> SUFFICES ASSUME NEW i \in Trns \ cfg.broadcast
               PROVE  t.trn[i].fifo >= Owes(t, i) /\ (Exact => t.trn[i].fifo = Owes(t, i))
    BY DEF Tally
  <2>1. Cardinality(Mine(s.txmsgs, s.msg, i)) \in Nat /\ s.trn[i].fifo \in Nat
    BY <1>3, MineFinite
  <2>2. s.trn[i].fifo >= Owes(s, i) /\ (Exact => s.trn[i].fifo = Owes(s, i))
    BY <1>2 DEF Tally
  <2>3. Taken(t, i) => Taken(s, i)  BY <1>6, <1>7
  <2>4. Exact => (Taken(t, i) <=> Taken(s, i))  BY <1>6, <1>7, <1>8
  <2>5. Mine(t.txmsgs, t.msg, i) = Mine(s.txmsgs, s.msg, i)  BY <1>4
  <2> QED  BY <1>1, <2>1, <2>2, <2>3, <2>4, <2>5 DEF Owes
<1>10. Marked(t.msg)
  <2> SUFFICES ASSUME NEW b \in Blocks, t.msg[b].trn # None
               PROVE  t.msg[b].only <=> t.msg[b].trn \in cfg.broadcast
    BY DEF Marked
  <2>1. t.msg[b] = s.msg[b]  BY <1>1 DEF FreeMsg
  <2> QED  BY <1>2, <2>1 DEF Marked
<1>11. Uncounted(t) /\ Noted(t) /\ Fits(t) /\ Quits(t)
  BY <1>1, <1>2 DEF Uncounted, Noted, Fits, Quits
<1>12. Order(t)
  <2> SUFFICES ASSUME Exact  PROVE Order(t)  BY DEF Order
  <2>1. Answers(t)
    <3>1. HasEvent(t, "RX_OK") => HasEvent(s, "RX_OK")  BY <1>1 DEF HasEvent
    <3> QED  BY <1>1, <1>2, <3>1 DEF Order, Answers, Heard, LineFree, SameTimers
  <2>2. s.drv.flg.int => ~Waits(s)  OBVIOUS
  <2> QED  BY <1>1, <1>2, <1>5, <2>1, <2>2 DEF Order
<1>13. Firm(t)  BY <1>5 DEF Firm
<1> QED  BY <1>9, <1>10, <1>11, <1>12, <1>13 DEF Ledger, Account, t

\* A new message is in the queue, and its transactor counts it unless nobody answers.
LEMMA PutLedger ==
  ASSUME cfg \in Cfgs, NEW s, Sound(s), Ledger(s), Unused(s) # {}, NEW x \in Msg, x.used,
         x.trn # None => (x.only <=> x.trn \in cfg.broadcast),
         NEW first \in BOOLEAN, NEW r \in [Trns -> [fifo : Nat, start : BOOLEAN]],
         \A i \in Trns : r[i].fifo = IF x.trn = i /\ i \notin cfg.broadcast
                                     THEN s.trn[i].fifo + 1 ELSE s.trn[i].fifo
  PROVE  Ledger(Put(s, x, first, r))
<1> DEFINE t == Put(s, x, first, r)
           b == Malloc(s)
<1>1. /\ t.drv = s.drv /\ t.tasks = s.tasks /\ t.trn = r /\ t.bus = s.bus
      /\ b \in Blocks /\ b \notin Members(s.txmsgs) /\ b # s.drv.cur
      /\ OneMore(s.txmsgs, s.msg, t.txmsgs, t.msg, b)
      /\ \A a \in Blocks : t.msg[a] = IF a = b THEN x ELSE s.msg[a]
  <2>1. t.drv = s.drv /\ t.tasks = s.tasks /\ t.trn = r /\ t.bus = s.bus  BY PutSound
  <2>2. b \in Blocks /\ b \notin Members(s.txmsgs) /\ b # s.drv.cur  BY PutSound
  <2>3. OneMore(s.txmsgs, s.msg, t.txmsgs, t.msg, b)  BY PutSound
  <2>4. \A a \in Blocks : t.msg[a] = IF a = b THEN x ELSE s.msg[a]  BY PutSound
  <2> QED  BY <2>1, <2>2, <2>3, <2>4
<1> HIDE DEF t, b
<1>2. /\ Marked(s.msg) /\ Uncounted(s) /\ Tally(s) /\ Noted(s) /\ Fits(s) /\ Quits(s)
      /\ Order(s) /\ Firm(s)
  BY DEF Ledger, Account
<1>3. s.txmsgs \in Seq(Blocks) /\ s.drv.cur \in Blocks \cup {None}
      /\ s.trn \in [Trns -> [fifo : Nat, start : BOOLEAN]]
  BY DEF Sound, Typed, State, Driver
<1>4. Waits(t) <=> Waits(s)  BY <1>1 DEF Waits
<1>5. s.drv.cur # None => t.msg[s.drv.cur] = s.msg[s.drv.cur]  BY <1>1, <1>3
<1>6. \A i : Taken(t, i) <=> Taken(s, i)  BY <1>1, <1>4, <1>5 DEF Taken, Due, Waits
<1>7. Tally(t)
  <2> SUFFICES ASSUME NEW i \in Trns \ cfg.broadcast
               PROVE  t.trn[i].fifo >= Owes(t, i) /\ (Exact => t.trn[i].fifo = Owes(t, i))
    BY DEF Tally
  <2> DEFINE n == Cardinality(Mine(s.txmsgs, s.msg, i))
             k == Cardinality(Mine(t.txmsgs, t.msg, i))
             f == s.trn[i].fifo
  <2>1. n \in Nat /\ f \in Nat  BY <1>3, MineFinite
  <2>3. k = n + (IF x.trn = i THEN 1 ELSE 0)
    <3>1. t.msg[b] = x  BY <1>1
    <3>2. k = n + (IF t.msg[b].trn = i THEN 1 ELSE 0)  BY <1>1, <1>3, MineMore
    <3> QED  BY <3>1, <3>2
  <2>4. t.trn[i].fifo = IF x.trn = i THEN f + 1 ELSE f  BY <1>1
  <2>5. f >= Owes(s, i) /\ (Exact => f = Owes(s, i))  BY <1>2 DEF Tally
  <2>6. Owes(s, i) = n + (IF Taken(s, i) THEN 1 ELSE 0)  BY DEF Owes
  <2>7. Owes(t, i) = k + (IF Taken(s, i) THEN 1 ELSE 0)  BY <1>6 DEF Owes
  <2> HIDE DEF n, k, f
  <2> QED  BY <2>1, <2>3, <2>4, <2>5, <2>6, <2>7
<1>8. Marked(t.msg)  BY <1>1, <1>2 DEF Marked
<1>9. Uncounted(t)  BY <1>1, <1>2 DEF Uncounted
<1>10. Noted(t) /\ Quits(t)  BY <1>1, <1>2 DEF Noted, Quits
<1>11. Fits(t)  BY <1>1, <1>2, <1>4, <1>5 DEF Fits
<1>12. Order(t)
  <2>1. \A e : HasEvent(t, e) <=> HasEvent(s, e)  BY <1>1 DEF HasEvent
  <2>2. Answers(t) <=> Answers(s)  BY <1>1, <2>1 DEF Answers, Heard, LineFree
  <2> QED  BY <1>1, <1>2, <1>4, <2>1, <2>2 DEF Order
<1>13. Firm(t)  BY <1>1, <1>2, <1>4 DEF Firm
<1> QED  BY <1>7, <1>8, <1>9, <1>10, <1>11, <1>12, <1>13 DEF Ledger, Account, t


\* rs485_timerw_isr, after the message was given up
LEMMA NoAnswerLedger ==
  ASSUME NEW s, Sound(s), Ledger(s), s.drv.status = "rx", s.drv.cur = None,
         Punctual => s.tasks = <<>> /\ "over" \in s.quiet,
         ~s.drv.flg.int, ~s.drv.flg.txend, NEW u \in NoAnswer(s)
  PROVE  Ledger(u)
<1>1. CASE u = s  BY <1>1
<1>2. CASE u \in PauseOver(s)  BY <1>2, PauseOverLedger
<1>3. CASE u = Arm(s, "timerp")
  <2>1. "timerp" \in Timers /\ Typed(s)  BY DEF Timers, Sound
  <2> QED  BY <1>3, <2>1, ArmLedger
<1> QED  BY <1>1, <1>2, <1>3 DEF NoAnswer

\* rs485_timerw_isr: the transactor is told, and the message is given up.
LEMMA WaitOverLedger ==
  ASSUME NEW s, Sound(s), Ledger(s), Punctual => s.tasks = <<>> /\ "over" \in s.quiet,
         NEW u \in WaitOver(s)
  PROVE  Ledger(u)
<1>0. s.drv.status \in {"off", "rx", "tx"}  BY DEF Sound, Typed, State, Driver
<1>1. CASE s.drv.status = "rx"
  <2>1. PICK t \in ResetTrn(s) :
           u \in NoAnswer([FreeTxMsg(t) EXCEPT !.drv = [@ EXCEPT !.flg = Cleared(t.drv.flg)]])
    BY <1>1 DEF WaitOver
  <2> DEFINE w == [FreeTxMsg(t) EXCEPT !.drv = [@ EXCEPT !.flg = Cleared(t.drv.flg)]]
  <2>2. /\ Sound(w) /\ w.drv.status = "rx" /\ w.drv.cur = None
        /\ Punctual => w.tasks = s.tasks /\ w.quiet = s.quiet /\ w.bus = s.bus
        /\ w.drv.flg = Cleared(t.drv.flg) /\ w.txmsgs = t.txmsgs /\ w.trn = t.trn
        /\ \A b \in Blocks : w.msg[b] = IF b = t.drv.cur THEN FreeMsg ELSE t.msg[b]
    BY <1>1, GivenUp
  <2>3. u \in NoAnswer(w)  BY <2>1
  <2> HIDE DEF w
  <2>4. Settled(t)  BY <1>1, ResetTrnSettles DEF Ledger
  <2>5. Sound(t)  BY <1>1, ResetTrnIs
  <2>6. t.drv.flg \in Flags /\ t.txmsgs \in Seq(Blocks)  BY <2>5 DEF Sound, Typed, State, Driver
  <2>7. /\ ~w.drv.flg.int /\ ~w.drv.flg.reset /\ ~w.drv.flg.txend /\ w.drv.flg.num = {}
    BY <2>2, <2>6, ClearedIs
  <2>8. \A i : ~Taken(w, i)  BY <2>2, <2>7 DEF Taken, Waits, Due
  <2>9. Tally(w)
    <3> SUFFICES ASSUME NEW i \in Trns \ cfg.broadcast
                 PROVE  w.trn[i].fifo >= Owes(w, i) /\ (Exact => w.trn[i].fifo = Owes(w, i))
      BY DEF Tally
    <3>1. Cardinality(Mine(t.txmsgs, t.msg, i)) \in Nat  BY <2>6, MineFinite
    <3>2. \A x \in Members(t.txmsgs) : x \in Blocks /\ x # t.drv.cur
      BY <2>5, <2>6, ElementOfSeq DEF Sound, Owned, Owns, Members
    <3>3. \A x \in Members(t.txmsgs) : w.msg[x].trn = t.msg[x].trn  BY <2>2, <3>2
    <3>4. Mine(t.txmsgs, w.msg, i) = Mine(t.txmsgs, t.msg, i)  BY <3>3, MineSame
    <3>5. Owes(w, i) = Cardinality(Mine(t.txmsgs, t.msg, i))
      BY <2>2, <2>8, <3>1, <3>4 DEF Owes
    <3> QED  BY <2>2, <2>4, <3>5 DEF Settled
  <2>10. Marked(w.msg)
    <3> SUFFICES ASSUME NEW b \in Blocks, w.msg[b].trn # None
                 PROVE  w.msg[b].only <=> w.msg[b].trn \in cfg.broadcast
      BY DEF Marked
    <3>1. w.msg[b] = t.msg[b]  BY <2>2 DEF FreeMsg
    <3> QED  BY <2>4, <3>1 DEF Settled, Marked
  <2>11. Uncounted(w) /\ Noted(w) /\ Fits(w) /\ Quits(w)
    BY <2>2, <2>4, <2>7 DEF Settled, Uncounted, Noted, Fits, Quits
  <2>12. Exact => w.bus.left = 0  BY <2>2 DEF Ledger, Order, Exact
  <2>13. Order(w)  BY <2>2, <2>7, <2>12, FreshOrder
  <2>14. Firm(w)  BY <2>7 DEF Firm
  <2>15. Ledger(w)  BY <2>9, <2>10, <2>11, <2>13, <2>14 DEF Ledger, Account
  <2> QED  BY <2>2, <2>3, <2>7, <2>15, NoAnswerLedger
<1>2. CASE s.drv.status = "tx"
  <2>1. u = Arm(s, "timerw") /\ "timerw" \in Timers /\ Typed(s)
    BY <1>2 DEF WaitOver, Timers, Sound
  <2> QED  BY <1>2, <2>1, ArmLedger
<1>3. CASE s.drv.status = "off"  BY <1>3 DEF WaitOver
<1> QED  BY <1>0, <1>1, <1>2, <1>3

\* rs485_new_tx_msg
LEMMA NewTxMsgLedger ==
  ASSUME cfg \in Cfgs, NEW s, Sound(s), Ledger(s), Unused(s) # {}, NEW own \in BOOLEAN,
         NEW only \in BOOLEAN, NEW u \in NewTxMsg(s, own, only)
  PROVE  Ledger(u)
<1> DEFINE x == TcpMsg(own, only)
           t == Put(s, x, own, s.trn)
<1>1. s \in State  BY DEF Sound, Typed
<1>2. /\ x \in Msg /\ x.used /\ x.trn = None
      /\ s.trn \in [Trns -> [fifo : Nat, start : BOOLEAN]]
      /\ u \in IF own THEN {t} ELSE NextTxMsg(t)
  BY <1>1, NewTxMsgPuts
<1> HIDE DEF x
<1>3. Sound(t)  BY <1>2, PutSound
<1>4. Ledger(t)
  <2>1. \A i \in Trns : s.trn[i].fifo = IF x.trn = i /\ i \notin cfg.broadcast
                                       THEN s.trn[i].fifo + 1 ELSE s.trn[i].fifo
    BY <1>2, BusAssumption
  <2> QED  BY <1>2, <2>1, PutLedger
<1> HIDE DEF t
<1> QED  BY <1>2, <1>3, <1>4, NextTxMsgLedger

\* mdb_start_trn
LEMMA StartTrnLedger ==
  ASSUME cfg \in Cfgs, NEW s, Sound(s), Ledger(s), Unused(s) # {}, NEW i \in Trns,
         NEW u \in StartTrn(s, i)
  PROVE  Ledger(u)
<1> DEFINE x == TrnMsg(i)
           r == TrnStarted(s.trn, i)
           t == Put(s, x, TRUE, r)
<1>1. s \in State  BY DEF Sound, Typed
<1>2. /\ x \in Msg /\ x.used /\ x.trn = i
      /\ r \in [Trns -> [fifo : Nat, start : BOOLEAN]]
      /\ \A j \in Trns : r[j].fifo = IF j = i /\ i \notin cfg.broadcast
                                     THEN s.trn[j].fifo + 1 ELSE s.trn[j].fifo
      /\ u \in NextTxMsg(t)
  BY <1>1, StartTrnPuts
<1>3. x.only <=> x.trn \in cfg.broadcast  BY DEF TrnMsg
<1> HIDE DEF x, r
<1>4. Sound(t)  BY <1>2, PutSound
<1>5. Ledger(t)
  <2>1. \A j \in Trns : r[j].fifo = IF x.trn = j /\ j \notin cfg.broadcast
                                   THEN s.trn[j].fifo + 1 ELSE s.trn[j].fifo
    BY <1>2
  <2> QED  BY <1>2, <1>3, <2>1, PutLedger
<1> HIDE DEF t
<1> QED  BY <1>2, <1>4, <1>5, NextTxMsgLedger

\* One turn of the loop of mdb_timertrn_isr
LEMMA TrnTurnLedger ==
  ASSUME cfg \in Cfgs, NEW s, Good(s), Ledger(s), NEW i \in Trns, NEW due,
         NEW u \in TrnTurn(s, i, due)
  PROVE  Ledger(u)
<1>0. Sound(s)  BY DEF Good
<1>1. CASE u = s  BY <1>1
<1>2. CASE u \in StartTrn(s, i) /\ Unused(s) # {}  BY <1>0, <1>2, StartTrnLedger
<1>3. CASE /\ Unused(s) # {}
          /\ u \in {[t EXCEPT !.trn = [@ EXCEPT ![i].start = FALSE]] : t \in StartTrn(s, i)}
  <2> PICK t \in StartTrn(s, i) : u = [t EXCEPT !.trn = [@ EXCEPT ![i].start = FALSE]]
    BY <1>3
  <2>1. Ledger(t)  BY <1>0, <1>3, StartTrnLedger
  <2> DEFINE r == [t.trn EXCEPT ![i].start = FALSE]
  <2>2. t \in State  BY <1>3, StartTrnGood DEF Good, Sound, Typed
  <2>3. u = [t EXCEPT !.trn = r]  OBVIOUS
  <2>4. \A j \in Trns : r[j].fifo = t.trn[j].fifo  BY <2>2 DEF State
  <2> HIDE DEF r
  <2>5. /\ u.trn = r /\ u.bus = t.bus /\ u.drv = t.drv /\ u.tasks = t.tasks /\ SameMsgs(t, u)
    BY <2>2, <2>3 DEF State, SameMsgs
  <2>6. \A e : HasEvent(u, e) => HasEvent(t, e)  BY <2>5 DEF HasEvent
  <2>7. (Exact /\ t.drv.status = "rx" /\ t.drv.flg.txend /\ u.drv.timerp /\ u.tasks = <<>>)
          => Heard(t)
    BY <2>1, <2>5 DEF Ledger, Order, Answers
  <2>8. \A j \in Trns : u.trn[j].fifo = t.trn[j].fifo  BY <2>4, <2>5
  <2> QED  BY <2>1, <2>5, <2>6, <2>7, <2>8, SameLedger
<1> QED  BY <1>1, <1>2, <1>3 DEF TrnTurn

\* mdb_timertrn_isr
LEMMA TrnTurnsLedger ==
  ASSUME cfg \in Cfgs, Good(Now), Ledger(Now), NEW due, NEW u \in TrnTurns(due)
  PROVE  Ledger(u)
<1> DEFINE G == {s \in State : Good(s) /\ Ledger(s)}
<1>1. \A s : Good(s) /\ Ledger(s) => s \in G  BY DEF Good, Sound, Typed
<1>2. \A s \in G : \A i \in Trns : TrnTurn(s, i, due) \subseteq G
  <2> SUFFICES ASSUME NEW s \in G, NEW i \in Trns, NEW t \in TrnTurn(s, i, due)
               PROVE  t \in G
    OBVIOUS
  <2>1. Good(t) /\ Ledger(t)  BY TrnTurnGood, TrnTurnLedger
  <2> QED  BY <1>1, <2>1
<1>3. Now \in G  BY <1>1
<1>4. u \in G
  <2> HIDE DEF G
  <2> QED  BY <1>2, <1>3, TrnTurnsKeep
<1> QED  BY <1>4

\* The task has taken its event and disarmed the pause.
LEMMA TaskBeginsLedger ==
  ASSUME Good(Now), Ledger(Now), tasks # <<>>
  PROVE  LET t == Disarm(Popped, "timerp")
         IN  /\ Ledger(t) /\ (Waits(t) <=> Waits(Now))
             /\ t.drv.flg = drv.flg /\ t.drv.fifo = drv.fifo /\ t.bus = bus
             /\ t.tasks = Tail(tasks)
<1> DEFINE p == Popped
           t == Disarm(p, "timerp")
<1>1. "timerp" \in Timers /\ Typed(p) /\ p.drv = drv  BY PoppedIs DEF Timers
<1>2. /\ p.msg = Now.msg /\ p.txmsgs = Now.txmsgs /\ p.trn = Now.trn /\ p.bus = Now.bus
      /\ p.tasks = Tail(tasks)
  BY DEF Popped, Now
<1>3. Now.drv = drv /\ Now.tasks = tasks /\ Now.bus = bus  BY DEF Now
<1> HIDE DEF p
<1>4. /\ SameMsgs(p, t) /\ t.trn = p.trn /\ t.bus = p.bus /\ t.tasks = p.tasks
      /\ t.drv.status = p.drv.status /\ t.drv.flg = p.drv.flg /\ t.drv.fifo = p.drv.fifo
      /\ ~t.drv.timerp
  BY <1>1, DisarmIs
<1> HIDE DEF t
<1>5. \A e : HasEvent(t, e) => HasEvent(Now, e)
  <2>1. tasks \in Seq({"RX_OK", "TX_OK"})  BY <1>3 DEF Good, Sound, Typed, State
  <2>2. \A j \in 1 .. Len(Tail(tasks)) : j + 1 \in 1 .. Len(tasks) /\ Tail(tasks)[j] = tasks[j + 1]
    BY <2>1, EmptySeq, HeadTailProperties, LenProperties
  <2> QED  BY <1>2, <1>3, <1>4, <2>2 DEF HasEvent
<1>6. SameMsgs(Now, t) /\ t.trn = Now.trn /\ t.bus = Now.bus
      /\ t.drv.status = Now.drv.status /\ t.drv.flg = Now.drv.flg /\ t.drv.fifo = Now.drv.fifo
  BY <1>1, <1>2, <1>3, <1>4 DEF SameMsgs
<1>7. Ledger(t)  BY <1>4, <1>5, <1>6, SameLedger
<1>8. Waits(t) <=> Waits(Now)  BY <1>6 DEF Waits, SameMsgs
<1> QED  BY <1>2, <1>3, <1>4, <1>6, <1>7, <1>8 DEF t, p

\* rs485_task, RS485_SIG_RX_OK: what was heard was the answer, so that the pause may begin.
LEMMA RxOkLedger ==
  ASSUME cfg \in Cfgs, Good(Now), Ledger(Now), tasks # <<>>, Head(tasks) = "RX_OK",
         drv.status # "off", NEW u \in RxOk(Popped)
  PROVE  Ledger(u)
<1> DEFINE t == Disarm(Popped, "timerp")
<1>1. /\ Sound(t) /\ t.drv.status = drv.status
      /\ Ledger(t) /\ (Waits(t) <=> Waits(Now))
      /\ t.drv.flg = drv.flg /\ t.drv.fifo = drv.fifo /\ t.bus = bus
  BY TaskBegins, TaskBeginsLedger
<1>2. PICK f \in Frames :
         u \in IF f = "short" THEN {Useless(t)}
               ELSE {Arm(Disarm(v, "timerw"), "timerp") : v \in Answered(t, f)}
                    \cup {Useless(v) : v \in Unanswered(t, f)}
  BY DEF RxOk
<1> HIDE DEF t
<1>3. "timerp" \in Timers /\ "timerw" \in Timers  BY DEF Timers
<1>4. HasEvent(Now, "RX_OK")
  <2>1. tasks \in Seq({"RX_OK", "TX_OK"})  BY DEF Good, Sound, Typed, State, Now
  <2>2. 1 \in 1 .. Len(tasks) /\ tasks[1] = "RX_OK"
    BY <2>1, EmptySeq, HeadTailProperties, LenProperties
  <2>3. Now.tasks = tasks  BY DEF Now
  <2> QED  BY <2>2, <2>3 DEF HasEvent
<1>5. Exact /\ t.drv.status = "rx" /\ t.drv.flg.txend => Heard(t)
  <2>1. Now.drv = drv /\ Now.bus = bus  BY DEF Now
  <2>2. Exact /\ drv.status = "rx" /\ drv.flg.txend => Heard(Now)
    BY <1>4, <2>1 DEF Ledger, Order, Answers
  <2> QED  BY <1>1, <2>1, <2>2 DEF Heard, LineFree
<1>6. Ledger(Useless(t))
  <2>1. Typed(t)  BY <1>1 DEF Sound
  <2> QED  BY <1>1, <1>3, <1>5, <2>1, ArmLedger DEF Useless
<1>7. ASSUME NEW v \in Answered(t, f), u = Arm(Disarm(v, "timerw"), "timerp")
      PROVE  Ledger(u)
  <2>1. /\ Typed(v) /\ Ledger(v) /\ v.drv.status = t.drv.status /\ v.drv.flg = t.drv.flg
        /\ v.drv.fifo = t.drv.fifo /\ v.bus = t.bus
    <3>1. CASE v = t  BY <1>1, <3>1 DEF Sound
    <3>2. CASE v = FreeTxMsg(t) /\ ~t.drv.flg.int
      <4>1. Typed(t) /\ Owned(t)  BY <1>1 DEF Sound
      <4>2. Ledger(v)  BY <1>1, <3>2, <4>1, FreeTxMsgLedger
      <4> QED  BY <3>2, <4>1, <4>2, FreeTxMsgIs
    <3>3. CASE Unused(t) # {} /\ v \in NewTxMsg(t, TRUE, TRUE)
      <4> DEFINE x == TcpMsg(TRUE, TRUE)
                 w == Put(t, x, TRUE, t.trn)
      <4>1. Ledger(v)  BY <1>1, <3>3, NewTxMsgLedger
      <4>2. t \in State  BY <1>1 DEF Sound, Typed
      <4>3. /\ x \in Msg /\ x.used /\ t.trn \in [Trns -> [fifo : Nat, start : BOOLEAN]]
            /\ v = w
        BY <3>3, <4>2, NewTxMsgPuts
      <4> HIDE DEF x
      <4>4. Sound(w)  BY <1>1, <3>3, <4>3, PutSound
      <4>5. w.drv = t.drv /\ w.bus = t.bus  BY <4>2 DEF Put, State
      <4> HIDE DEF w
      <4> QED  BY <4>1, <4>3, <4>4, <4>5 DEF Sound
    <3> QED  BY <1>7, <3>1, <3>2, <3>3 DEF Answered
  <2> DEFINE w == Disarm(v, "timerw")
  <2>2. /\ Typed(w) /\ w.drv.status = v.drv.status /\ w.drv.flg = v.drv.flg
        /\ w.drv.fifo = v.drv.fifo /\ w.bus = v.bus
    BY <1>3, <2>1, DisarmIs
  <2>3. Ledger(w)  BY <1>3, <2>1, DisarmLedger
  <2> HIDE DEF w
  <2>4. Exact /\ w.drv.status = "rx" /\ w.drv.flg.txend => Heard(w)
    BY <1>5, <2>1, <2>2 DEF Heard, LineFree
  <2>5. Ledger(Arm(w, "timerp"))  BY <1>3, <2>2, <2>3, <2>4, ArmLedger
  <2> QED  BY <1>7, <2>5 DEF w
<1>8. ASSUME NEW v \in Unanswered(t, f), u = Useless(v)  PROVE Ledger(u)
  <2>1. v = t  BY <1>8 DEF Unanswered
  <2> QED  BY <1>6, <1>8, <2>1
<1> QED  BY <1>2, <1>6, <1>7, <1>8

\* rs485_task, RS485_SIG_TX_OK: the message was sent.  Who is not to be answered begins
\* the pause, the others wait.
LEMMA TxOkLedger ==
  ASSUME Good(Now), Ledger(Now), tasks # <<>>, Head(tasks) # "RX_OK", drv.status # "off",
         NEW u \in TxOk(Popped)
  PROVE  Ledger(u)
<1> DEFINE t == Disarm(Popped, "timerp")
           v == Disarm(t, "timerw")
           w == FreeTxMsg(v)
<1>1. Sound(t) /\ Ledger(t) /\ (Waits(t) <=> Waits(Now))  BY TaskBegins, TaskBeginsLedger
<1>2. u = Arm(w, IF w.drv.flg.only THEN "timerp" ELSE "timerw")  BY DEF TxOk
<1> HIDE DEF t
<1>3. "timerp" \in Timers /\ "timerw" \in Timers  BY DEF Timers
<1>4. Sound(v) /\ Ledger(v) /\ (Waits(v) <=> Waits(t))
  <2>1. Typed(t)  BY <1>1 DEF Sound
  <2>2. SameMsgs(t, v) /\ v.drv.status = t.drv.status /\ v.drv.flg = t.drv.flg
    BY <1>3, <2>1, DisarmIs
  <2>3. Sound(v) /\ Ledger(v)  BY <1>1, <1>3, <2>1, DisarmSound, DisarmLedger
  <2> HIDE DEF v
  <2> QED  BY <2>2, <2>3 DEF Waits, SameMsgs
<1> HIDE DEF v
<1>5. HasEvent(Now, "TX_OK")
  <2>1. tasks \in Seq({"RX_OK", "TX_OK"})  BY DEF Good, Sound, Typed, State, Now
  <2>2. 1 \in 1 .. Len(tasks) /\ tasks[1] = Head(tasks) /\ tasks[1] \in {"RX_OK", "TX_OK"}
    BY <2>1, EmptySeq, HeadTailProperties, LenProperties, ElementOfSeq
  <2>3. Now.tasks = tasks  BY DEF Now
  <2> QED  BY <2>2, <2>3 DEF HasEvent
<1>6. Exact => ~Waits(v)  BY <1>1, <1>4, <1>5 DEF Ledger, Order
<1>7. Typed(v) /\ Owned(v)  BY <1>4 DEF Sound
<1>8. Ledger(w)  BY <1>4, <1>6, <1>7, FreeTxMsgLedger
<1>9. Typed(w)  BY <1>7, FreeTxMsgIs
<1> HIDE DEF w
<1>10. w.drv.flg.only => (Exact /\ w.drv.status = "rx" /\ w.drv.flg.txend => Heard(w))
  BY <1>8 DEF Ledger, Order, Answers
<1> QED  BY <1>2, <1>3, <1>8, <1>9, <1>10, ArmLedger


\* A step to a state with this account
LEMMA BecomeLedger ==
  ASSUME NEW t, t \in State, Ledger(t), Become(t), UNCHANGED cfg
  PROVE  Ledger(Now)'
<1>1. /\ drv' = t.drv /\ msg' = t.msg /\ txmsgs' = t.txmsgs /\ tasks' = t.tasks
      /\ trn' = t.trn /\ bus' = t.bus /\ quiet' = t.quiet /\ cfg' = cfg
  BY DEF Become
<1> DEFINE n == [drv |-> drv', msg |-> msg', txmsgs |-> txmsgs', tasks |-> tasks', trn |-> trn',
                 bus |-> bus', quiet |-> quiet']
<1>2. n = t  BY <1>1 DEF State
<1>3. Now' = n  BY DEF Now
<1>4. Now' = t  BY <1>2, <1>3
<1> HIDE DEF n
<1>5. Exact' <=> Exact  BY <1>1 DEF Exact, Punctual
<1>6. (Trns \cap cfg.broadcast)' = Trns \cap cfg.broadcast
      /\ (Trns \ cfg.broadcast)' = Trns \ cfg.broadcast
  BY <1>1
<1>7. Waits(Now)' <=> Waits(t)  BY <1>4 DEF Waits
<1>8. \A i : Owes(Now, i)' = Owes(t, i)
  BY <1>4, <1>7 DEF Owes, Taken, Due, Mine, Members
<1>9. Tally(Now)'  BY <1>4, <1>5, <1>6, <1>8 DEF Ledger, Account, Tally
<1>10. Marked(Now.msg)' /\ Uncounted(Now)'
  BY <1>1, <1>4, <1>6 DEF Ledger, Account, Marked, Uncounted
<1>11. Noted(Now)'  BY <1>1, <1>4 DEF Ledger, Account, Noted
<1>12. Fits(Now)' /\ Quits(Now)'  BY <1>4, <1>7 DEF Ledger, Account, Fits, Quits
<1>13. Answers(Now)' <=> Answers(t)
  BY <1>4 DEF Answers, Heard, LineFree, HasEvent
<1>14. HasEvent(Now, "TX_OK")' <=> HasEvent(t, "TX_OK")  BY <1>4 DEF HasEvent
<1>15. Order(Now)'
  BY <1>1, <1>4, <1>5, <1>7, <1>13, <1>14 DEF Ledger, Order
<1>16. Firm(Now)'  BY <1>4, <1>5, <1>7 DEF Ledger, Firm
<1> QED  BY <1>9, <1>10, <1>11, <1>12, <1>15, <1>16 DEF Ledger, Account

\* A state in which nothing is in the queue or current, and nobody is counted or to be told
LEMMA EmptyAccount ==
  ASSUME NEW t, t.drv.cur = None, t.txmsgs = <<>>, \A i \in Trns : t.trn[i].fifo = 0,
         Marked(t.msg), Noted(t), t.drv.flg.int => t.drv.flg.reset
  PROVE  Account(t)
<1>1. ~Waits(t)  BY DEF Waits
<1>2. Members(t.txmsgs) = {}  BY EmptySeq DEF Members
<1>3. \A i : Owes(t, i) = 0
  <2> TAKE i
  <2>1. Mine(t.txmsgs, t.msg, i) = {}  BY <1>2 DEF Mine
  <2>2. Cardinality({}) = 0  BY FS_EmptySet
  <2>3. ~Taken(t, i)  BY <1>1 DEF Taken, Due
  <2>4. Cardinality(Mine(t.txmsgs, t.msg, i)) = 0  BY <2>1, <2>2
  <2> QED  BY <2>3, <2>4 DEF Owes
<1>4. Tally(t)  BY <1>3 DEF Tally
<1>5. Uncounted(t) /\ Fits(t) /\ Quits(t)  BY DEF Uncounted, Fits, Quits
<1> QED  BY <1>4, <1>5 DEF Account

\* At the start nobody has anything to count (rs485_drv_init).
LEMMA InitLedger == Init => Ledger(Now)
<1> SUFFICES ASSUME Init  PROVE Ledger(Now)  OBVIOUS
<1> DEFINE s == Now
<1>1. /\ s.drv.cur = None /\ s.txmsgs = <<>> /\ s.drv.status = "off" /\ s.drv.flg = NoFlags
      /\ s.bus.left = cfg.foreign
  BY DEF Init, Now
<1>2. \A i \in Trns : s.trn[i].fifo = 0  BY DEF Init, Now
<1>3. Marked(s.msg)  BY DEF Init, Now, Marked, FreeMsg
<1> HIDE DEF s
<1>4. Noted(s) /\ ~s.drv.flg.int  BY <1>1 DEF Noted, NoFlags
<1>5. Account(s)  BY <1>1, <1>2, <1>3, <1>4, EmptyAccount
<1>6. Order(s) /\ Firm(s)  BY <1>1, <1>4 DEF Order, Answers, Firm, Waits, Exact
<1> QED  BY <1>5, <1>6 DEF Ledger, s

\* rs485_drv_start: nobody was to be told, so that nothing is forgotten with the flags.
LEMMA DrvStartLedger ==
  ASSUME IInv, Ledger(Now), DrvStart
  PROVE  Ledger(Now)'
<1> DEFINE s == Now
<1>1. PICK t : /\ Become(Arm(t, "timerp")) /\ UNCHANGED cfg
               /\ Sound(t) /\ SameMsgs(s, t) /\ t.trn = s.trn /\ t.bus = s.bus
               /\ s.drv.status = "off" /\ t.drv.status = "rx" /\ t.drv.flg = NoFlags
  BY DrvStartIs
<1>2. Ledger(s)  OBVIOUS
<1> HIDE DEF s
<1>3. t.drv.cur = None /\ s.drv.cur = None /\ (s.drv.flg.int => s.drv.flg.reset)
  BY <1>1, <1>2 DEF Ledger, Account, Quits, SameMsgs
<1>4. /\ ~t.drv.flg.int /\ ~t.drv.flg.reset /\ ~t.drv.flg.txend /\ ~t.drv.flg.ready
      /\ t.drv.flg.num = {}
  BY <1>1 DEF NoFlags
<1>5. ~Waits(s) /\ ~Waits(t)  BY <1>3 DEF Waits
<1>6. \A i : Owes(t, i) = Owes(s, i)
  BY <1>1, <1>3, <1>4, <1>5 DEF Owes, Taken, Due, SameMsgs
<1>7. Tally(t)  BY <1>1, <1>2, <1>6 DEF Ledger, Account, Tally
<1>8. Marked(t.msg) /\ Uncounted(t)  BY <1>1, <1>2 DEF Ledger, Account, Uncounted, SameMsgs
<1>9. Noted(t) /\ Fits(t) /\ Quits(t)  BY <1>1, <1>3, <1>4 DEF Noted, Fits, Quits
<1>10. Exact => t.bus.left = 0  BY <1>1, <1>2 DEF Ledger, Order
<1>11. Order(t)  BY <1>1, <1>3, <1>4, <1>10, FreshOrder
<1>12. Ledger(t)  BY <1>5, <1>7, <1>8, <1>9, <1>11 DEF Ledger, Account, Firm
<1>13. "timerp" \in Timers /\ Typed(t)  BY <1>1 DEF Timers, Sound
<1>14. Ledger(Arm(t, "timerp"))  BY <1>4, <1>12, <1>13, ArmLedger
<1>15. Arm(t, "timerp") \in State  BY <1>13, ArmIs DEF Typed
<1> QED  BY <1>1, <1>14, <1>15, BecomeLedger

\* rs485_drv_stop: all that was counted is given up.
LEMMA DrvStopLedger ==
  ASSUME IInv, Ledger(Now), DrvStop
  PROVE  Ledger(Now)'
<1> DEFINE s == Now
<1>1. PICK t : Become(t) /\ UNCHANGED cfg /\ Good(t) /\ Stopped(s, t)
  BY DrvStopIs
<1>2. Ledger(s) /\ s.drv.flg \in Flags  BY DEF IInv, Good, Sound, Typed, State, Driver
<1> HIDE DEF s
<1>3. /\ t.drv.status = "off" /\ t.drv.cur = None /\ t.txmsgs = <<>>
       /\ \/ ~Tells(s) /\ t.drv.flg = s.drv.flg
          \/ Tells(s) /\ t.drv.flg = [s.drv.flg EXCEPT !.reset = TRUE]
  BY <1>1 DEF Stopped
<1>4. Marked(s.msg) /\ Noted(s)  BY <1>2 DEF Ledger, Account
<1>5. Noted(t) /\ (t.drv.flg.int => t.drv.flg.reset)
  <2>1. CASE ~Tells(s) /\ t.drv.flg = s.drv.flg  BY <1>4, <2>1 DEF Noted, Tells
  <2>2. CASE Tells(s) /\ t.drv.flg = [s.drv.flg EXCEPT !.reset = TRUE]
    <3>1. /\ t.drv.flg.reset /\ t.drv.flg.int = s.drv.flg.int /\ t.drv.flg.num = s.drv.flg.num
          /\ t.drv.flg.ready = s.drv.flg.ready /\ t.drv.flg.txend = s.drv.flg.txend
      BY <1>2, <2>2 DEF Flags
    <3> QED  BY <1>4, <2>2, <3>1 DEF Noted, Tells
  <2> QED  BY <1>3, <2>1, <2>2
<1>6. Marked(t.msg)  BY <1>1, <1>4 DEF Stopped, Marked, FreeMsg
<1>7. Account(t)  BY <1>1, <1>3, <1>5, <1>6, EmptyAccount DEF Stopped
<1>8. Exact => t.bus.left = 0  BY <1>1, <1>2 DEF Stopped, Ledger, Order, Exact
<1>9. Order(t) /\ Firm(t)  BY <1>3, <1>5, <1>8 DEF Order, Answers, Firm, Waits
<1>10. t \in State  BY <1>1 DEF Good, Sound, Typed
<1> QED  BY <1>1, <1>7, <1>9, <1>10, BecomeLedger DEF Ledger

\* A start flag is set.
LEMMA SetStartLedger ==
  ASSUME IInv, Ledger(Now), NEW i \in Trns, SetStart(i)
  PROVE  Ledger(Now)'
<1> DEFINE s == Now
<1>1. PICK t : /\ Become(t) /\ UNCHANGED cfg /\ Good(t) /\ t.drv = s.drv
               /\ SameMsgs(s, t) /\ t.tasks = s.tasks /\ t.bus = s.bus
               /\ \A j \in Trns : t.trn[j].fifo = s.trn[j].fifo
  BY SetStartIs
<1>2. Ledger(s)  OBVIOUS
<1> HIDE DEF s
<1>3. \A e : HasEvent(t, e) => HasEvent(s, e)  BY <1>1 DEF HasEvent
<1>4. (Exact /\ s.drv.status = "rx" /\ s.drv.flg.txend /\ t.drv.timerp /\ t.tasks = <<>>)
        => Heard(s)
  BY <1>1, <1>2 DEF Ledger, Order, Answers
<1>5. Ledger(t)  BY <1>1, <1>2, <1>3, <1>4, SameLedger
<1>6. t \in State  BY <1>1 DEF Good, Sound, Typed
<1> QED  BY <1>1, <1>5, <1>6, BecomeLedger

\* Somebody sends: nobody but who was asked, and his answer is heard once.
LEMMA HearLedger ==
  ASSUME IInv, Ledger(Now), Hear
  PROVE  Ledger(Now)'
<1> DEFINE s == Now
<1>1. PICK t : /\ Become(t) /\ UNCHANGED cfg /\ Good(t)
               /\ SameMsgs(s, t) /\ t.trn = s.trn /\ t.tasks = s.tasks
               /\ t.drv.status = s.drv.status /\ t.drv.flg = s.drv.flg
               /\ SameTimers(s, t) /\ s.drv.status = "rx"
               /\ \/ s.bus.asked /\ ~t.bus.asked /\ t.bus.left = s.bus.left
                  \/ s.bus.left > 0
  BY HearIs
<1>2. Ledger(s)  OBVIOUS
<1> HIDE DEF s
<1>3. Waits(t) <=> Waits(s)  BY <1>1 DEF Waits, SameMsgs
<1>4. SameNote(s.drv.flg, t.drv.flg) /\ (t.drv.flg.ready => ~t.drv.flg.txend)
  BY <1>1, <1>2 DEF SameNote, Ledger, Account, Noted
<1>5. Account(t) /\ Firm(t)  BY <1>1, <1>2, <1>3, <1>4, SameAccount DEF Ledger, SameMsgs
<1>6. ASSUME Exact  PROVE Order(t)
  <2>1. Order(s) /\ s.bus.left = 0  BY <1>2, <1>6 DEF Ledger, Order
  <2>2. s.bus.asked /\ ~t.bus.asked /\ t.bus.left = 0  BY <1>1, <2>1
  <2>3. \A e : HasEvent(t, e) <=> HasEvent(s, e)  BY <1>1 DEF HasEvent
  <2>4. Answers(t)
    <3> SUFFICES ASSUME t.drv.flg.txend  PROVE Answers(t)  BY DEF Answers
    <3>1. ~(s.drv.flg.only \/ HasEvent(s, "RX_OK") \/ (s.drv.timerp /\ s.tasks = <<>>))
      BY <1>1, <1>6, <2>1, <2>2 DEF Order, Answers, Heard
    <3> QED  BY <1>1, <2>2, <2>3, <3>1 DEF Answers, SameTimers
  <2> QED  BY <1>1, <1>3, <2>1, <2>2, <2>3, <2>4 DEF Order
<1>7. Order(t)  BY <1>6 DEF Order
<1>8. t \in State  BY <1>1 DEF Good, Sound, Typed
<1> QED  BY <1>1, <1>5, <1>7, <1>8, BecomeLedger DEF Ledger

\* rs485_task
LEMMA TaskLedger ==
  ASSUME IInv, Ledger(Now), Task
  PROVE  Ledger(Now)'
<1>1. cfg \in Cfgs /\ Good(Now) /\ tasks # <<>> /\ UNCHANGED cfg  BY DEF IInv, Task
<1>2. \E t \in IF drv.status = "off" THEN {Popped}
              ELSE IF Head(tasks) = "RX_OK" THEN RxOk(Popped)
              ELSE TxOk(Popped) : Become(t)
  BY DEF Task, Popped
<1>3. CASE drv.status = "off"
  <2> DEFINE t == Popped
             s == Now
  <2>1. Become(t)  BY <1>2, <1>3
  <2>2. Typed(t) /\ t.drv = s.drv /\ s.drv.status = "off"  BY <1>1, <1>3, PoppedIs DEF Now
  <2>3. /\ t.msg = s.msg /\ t.txmsgs = s.txmsgs /\ t.trn = s.trn /\ t.bus = s.bus
    BY DEF Popped, Now
  <2>4. Ledger(s)  OBVIOUS
  <2> HIDE DEF t, s
  <2>5. /\ Waits(t) <=> Waits(s)
        /\ SameNote(s.drv.flg, t.drv.flg) /\ (t.drv.flg.ready => ~t.drv.flg.txend)
    BY <2>2, <2>3, <2>4 DEF Waits, SameNote, Ledger, Account, Noted
  <2>6. Account(t) /\ Firm(t)  BY <2>2, <2>3, <2>4, <2>5, SameAccount DEF Ledger
  <2>7. ~Waits(t)  BY <2>2, <2>4, <2>5 DEF Ledger, Account, Quits, Waits
  <2>8. Order(t)  BY <2>2, <2>3, <2>4, <2>5, <2>7 DEF Ledger, Order, Answers
  <2> QED  BY <1>1, <2>1, <2>2, <2>6, <2>8, BecomeLedger DEF Ledger, Typed
<1>4. CASE drv.status # "off" /\ Head(tasks) = "RX_OK"
  <2>1. PICK t \in RxOk(Popped) : Become(t)  BY <1>2, <1>4
  <2>2. Good(t) /\ Ledger(t)  BY <1>1, <1>4, RxOkGood, RxOkLedger
  <2> QED  BY <1>1, <2>1, <2>2, BecomeLedger DEF Good, Sound, Typed
<1>5. CASE drv.status # "off" /\ Head(tasks) # "RX_OK"
  <2>1. PICK t \in TxOk(Popped) : Become(t)  BY <1>2, <1>5
  <2>2. Good(t) /\ Ledger(t)  BY <1>1, <1>5, TxOkGood, TxOkLedger
  <2> QED  BY <1>1, <2>1, <2>2, BecomeLedger DEF Good, Sound, Typed
<1> QED  BY <1>3, <1>4, <1>5

\* A timer ends: the pause only when the answer was heard, or nobody is to be told.
LEMMA FiredLedger ==
  ASSUME Good(Now), Ledger(Now), InTime, NEW x \in Timers, Now.drv[x]
  PROVE  LET t == Fired(Now, x)
         IN  /\ Ledger(t)
             /\ (Exact /\ x = "timerp" /\ t.drv.status = "rx" /\ t.drv.cur = None /\ t.drv.flg.int)
                  => LineFree(t)
<1> DEFINE t == Fired(Now, x)
           s == Now
<1>1. /\ SameMsgs(s, t) /\ t.trn = trn /\ t.bus = bus /\ t.tasks = tasks
      /\ t.drv.status = drv.status /\ t.drv.flg = drv.flg /\ t.drv.fifo = drv.fifo
      /\ IF x = "timerp" THEN ~t.drv.timerp ELSE t.drv.timerp = drv.timerp
      /\ Punctual => t.tasks = <<>>
  BY FiredIs
<1>2. /\ s.trn = trn /\ s.bus = bus /\ s.tasks = tasks /\ s.drv = drv /\ Ledger(s)
      /\ x = "timerp" => s.drv.timerp
  BY DEF Now
<1> HIDE DEF t, s
<1>3. \A e : HasEvent(t, e) => HasEvent(s, e)  BY <1>1, <1>2 DEF HasEvent
<1>4. (Exact /\ s.drv.status = "rx" /\ s.drv.flg.txend /\ t.drv.timerp /\ t.tasks = <<>>)
        => Heard(s)
  BY <1>1, <1>2 DEF Ledger, Order, Answers
<1>5. Ledger(t)  BY <1>1, <1>2, <1>3, <1>4, SameLedger
<1>6. ASSUME Exact, x = "timerp", t.drv.status = "rx", t.drv.cur = None, t.drv.flg.int
      PROVE  LineFree(t)
  <2>1. s.drv.flg.txend  BY <1>1, <1>2, <1>6 DEF Ledger, Order, Waits, SameMsgs
  <2>2. s.tasks = <<>>  BY <1>1, <1>2, <1>6 DEF Exact
  <2>3. Heard(s)  BY <1>1, <1>2, <1>6, <2>1, <2>2 DEF Ledger, Order, Answers
  <2> QED  BY <1>1, <1>2, <2>3 DEF Heard, LineFree
<1> QED  BY <1>5, <1>6 DEF t, s

\* The timers
LEMMA TimersLedger ==
  ASSUME IInv, Ledger(Now), TimerP \/ TimerW
  PROVE  Ledger(Now)'
<1>1. cfg \in Cfgs /\ Good(Now) /\ InTime /\ UNCHANGED cfg  BY DEF IInv, TimerP, TimerW
<1>2. "timerp" \in Timers /\ "timerw" \in Timers  BY DEF Timers
<1>3. CASE TimerP
  <2> DEFINE s == Fired(Now, "timerp")
  <2>1. Now.drv["timerp"]  BY <1>3 DEF TimerP, Now
  <2>2. Sound(s) /\ (Punctual => s.tasks = <<>> /\ (LineFree(s) => "over" \in s.quiet))
    BY <1>1, <1>2, <2>1, FiredIs
  <2>3. /\ Ledger(s)
        /\ (Exact /\ s.drv.status = "rx" /\ s.drv.cur = None /\ s.drv.flg.int) => LineFree(s)
    BY <1>1, <1>2, <2>1, FiredLedger
  <2>4. PICK t \in PauseOver(s) : Become(t)  BY <1>3 DEF TimerP
  <2> HIDE DEF s
  <2>5. Good(t) /\ Ledger(t)  BY <2>2, <2>3, PauseOverGood, PauseOverLedger
  <2> QED  BY <1>1, <2>4, <2>5, BecomeLedger DEF Good, Sound, Typed
<1>4. CASE TimerW
  <2> DEFINE s == Fired(Now, "timerw")
  <2>1. Now.drv["timerw"]  BY <1>4 DEF TimerW, Now
  <2>2. Sound(s) /\ (Punctual => s.tasks = <<>> /\ "over" \in s.quiet)
    BY <1>1, <1>2, <2>1, FiredIs
  <2>3. Ledger(s)  BY <1>1, <1>2, <2>1, FiredLedger
  <2>4. PICK t \in WaitOver(s) : Become(t)  BY <1>4 DEF TimerW
  <2> HIDE DEF s
  <2>5. Good(t) /\ Ledger(t)  BY <2>2, <2>3, WaitOverGood, WaitOverLedger
  <2> QED  BY <1>1, <2>4, <2>5, BecomeLedger DEF Good, Sound, Typed
<1> QED  BY <1>3, <1>4

\* Every step leaves the accounts in order.
LEMMA NextLedger ==
  ASSUME IInv, Ledger(Now), [Next]_vars
  PROVE  Ledger(Now)'
<1>1. cfg \in Cfgs /\ Good(Now) /\ Sound(Now)  BY DEF IInv, Good
<1>2. \A t : Good(t) => t \in State  BY DEF Good, Sound, Typed
<1>3. CASE DrvStart  BY <1>3, DrvStartLedger
<1>4. CASE DrvStop  BY <1>4, DrvStopLedger
<1>5. ASSUME NEW only \in BOOLEAN, TcpRequest(only)  PROVE Ledger(Now)'
  <2>1. Unused(Now) # {} /\ UNCHANGED cfg  BY <1>5 DEF TcpRequest
  <2>2. PICK t \in NewTxMsg(Now, FALSE, only) : Become(t)  BY <1>5 DEF TcpRequest
  <2>3. Good(t)  BY <1>1, <2>1, NewTxMsgSound DEF Good
  <2>4. Ledger(t)  BY <1>1, <2>1, NewTxMsgLedger
  <2> QED  BY <1>2, <2>1, <2>2, <2>3, <2>4, BecomeLedger
<1>6. ASSUME NEW i \in Trns, SetStart(i)  PROVE Ledger(Now)'  BY <1>6, SetStartLedger
<1>7. ASSUME NEW i \in Trns, WebStart(i)  PROVE Ledger(Now)'
  <2>1. Unused(Now) # {} /\ UNCHANGED cfg  BY <1>7 DEF WebStart
  <2>2. PICK t \in StartTrn(Now, i) : Become(t)  BY <1>7 DEF WebStart
  <2>3. Good(t) /\ Ledger(t)  BY <1>1, <2>1, StartTrnGood, StartTrnLedger
  <2> QED  BY <1>2, <2>1, <2>2, <2>3, BecomeLedger
<1>8. CASE TrnTimer
  <2>1. PICK due \in SUBSET cfg.periodic : \E t \in TrnTurns(due) : Become(t)  BY <1>8 DEF TrnTimer
  <2>2. PICK t \in TrnTurns(due) : Become(t)  BY <2>1
  <2>3. Good(t) /\ Ledger(t)  BY <1>1, TrnTurnsGood, TrnTurnsLedger
  <2>4. UNCHANGED cfg  BY <1>8 DEF TrnTimer
  <2> QED  BY <1>2, <2>2, <2>3, <2>4, BecomeLedger
<1>9. CASE Hear  BY <1>9, HearLedger
<1>10. CASE Interrupt
  <2>1. PICK t \in Isr(Now) : Become(t)  BY <1>10 DEF Interrupt
  <2>2. Good(t) /\ Ledger(t)  BY <1>1, IsrGood, IsrLedger
  <2>3. UNCHANGED cfg  BY <1>10 DEF Interrupt
  <2> QED  BY <1>2, <2>1, <2>2, <2>3, BecomeLedger
<1>11. CASE Task  BY <1>11, TaskLedger
<1>12. CASE TimerP \/ TimerW  BY <1>12, TimersLedger
<1>13. CASE UNCHANGED vars
  <2>1. Become(Now) /\ UNCHANGED cfg  BY <1>13 DEF vars, Become, Now
  <2> QED  BY <1>1, <1>2, <2>1, BecomeLedger
<1> QED
  BY <1>3, <1>4, <1>5, <1>6, <1>7, <1>8, <1>9, <1>10, <1>11, <1>12, <1>13 DEF Next

\* What the accounts say of the counters
LEMMA LedgerCounts == CountInv => Counted
<1> SUFFICES ASSUME CountInv  PROVE Counted  OBVIOUS
<1>1. /\ Marked(msg) /\ Uncounted(Now) /\ Tally(Now) /\ Noted(Now) /\ Fits(Now) /\ Quits(Now)
      /\ Order(Now)
  BY DEF CountInv, Ledger, Account, Now
<1>2. /\ drv \in Driver /\ msg \in [Blocks -> Msg] /\ txmsgs \in Seq(Blocks)
      /\ trn \in [Trns -> [fifo : Nat, start : BOOLEAN]]
  BY DEF CountInv, IInv, Good, Sound, Typed, State, Now
<1>3. DOMAIN txmsgs = 1 .. Len(txmsgs)  BY <1>2, LenProperties
<1>4. Queued = Members(txmsgs) /\ Members(txmsgs) \subseteq Blocks
  BY <1>2, <1>3, ElementOfSeq DEF Queued, Members
<1>5. Waiting <=> Waits(Now)  BY DEF Waiting, Waits, Now
<1> DEFINE Owed(i) == IF Waiting THEN Counts(drv.cur, i)
                      ELSE drv.flg.int /\ ~drv.flg.reset /\ ~drv.flg.only /\ drv.flg.num = i
<1>6. \A i : Outstanding(i) =
                Cardinality({b \in Queued : Counts(b, i)}) + (IF Owed(i) THEN 1 ELSE 0)
  BY DEF Outstanding
<1>7. ASSUME NEW i \in Trns \cap cfg.broadcast
      PROVE  trn[i].fifo = 0 /\ Outstanding(i) = 0
  <2>1. trn[i].fifo = 0  BY <1>1 DEF Uncounted, Now
  <2>2. \A b \in Blocks : ~Counts(b, i)  BY <1>1, BusAssumption DEF Marked, Counts
  <2>3. {b \in Queued : Counts(b, i)} = {}  BY <1>4, <2>2
  <2>4. Cardinality({}) = 0  BY FS_EmptySet
  <2>5. ~Owed(i)
    <3>1. CASE Waiting
      <4>1. drv.cur \in Blocks  BY <1>2, <3>1 DEF Waiting, Driver
      <4> QED  BY <2>2, <3>1, <4>1
    <3>2. CASE ~Waiting  BY <1>1, <3>2 DEF Noted, Now
    <3> QED  BY <3>1, <3>2
  <2> HIDE DEF Owed
  <2> QED  BY <1>6, <2>1, <2>3, <2>4, <2>5
<1>8. ASSUME NEW i \in Trns \ cfg.broadcast
      PROVE  trn[i].fifo >= Outstanding(i) /\ (Exact => trn[i].fifo = Outstanding(i))
  <2> DEFINE n == Cardinality(Mine(txmsgs, msg, i))
             f == trn[i].fifo
  <2>1. n \in Nat /\ f \in Nat  BY <1>2, MineFinite
  <2>2. \A b \in Blocks : Counts(b, i) <=> msg[b].trn = i
    BY <1>1, BusAssumption DEF Marked, Counts
  <2>3. {b \in Queued : Counts(b, i)} = Mine(txmsgs, msg, i)  BY <1>4, <2>2 DEF Mine
  <2>4. f >= Owes(Now, i) /\ (Exact => f = Owes(Now, i))  BY <1>1 DEF Tally, Now
  <2>5. Owes(Now, i) = n + (IF Taken(Now, i) THEN 1 ELSE 0)  BY DEF Owes, Now
  <2>6. (Owed(i) => Taken(Now, i)) /\ (Exact => (Owed(i) <=> Taken(Now, i)))
    <3>1. CASE Waiting
      <4>1. drv.cur \in Blocks  BY <1>2, <3>1 DEF Waiting, Driver
      <4> QED  BY <1>5, <2>2, <3>1, <4>1 DEF Taken, Now
    <3>2. CASE ~Waiting
      <4>1. Taken(Now, i) <=> drv.flg.int /\ ~drv.flg.reset /\ drv.flg.num = i
        BY <1>5, <3>2 DEF Taken, Due, Now
      <4>2. Exact /\ drv.flg.int /\ ~drv.flg.reset /\ drv.flg.only => drv.flg.num \in cfg.broadcast
        BY <1>1, <1>5, <3>2 DEF Order, Now
      <4> QED  BY <3>2, <4>1, <4>2
    <3> QED  BY <3>1, <3>2
  <2>7. Outstanding(i) = n + (IF Owed(i) THEN 1 ELSE 0)  BY <1>6, <2>3
  <2> HIDE DEF n, f, Owed
  <2>8. f >= Outstanding(i) /\ (Exact => f = Outstanding(i))
    BY <2>1, <2>4, <2>5, <2>6, <2>7
  <2> QED  BY <2>8 DEF f
<1> HIDE DEF Owed
<1>9. \A i \in Trns : trn[i].fifo >= Outstanding(i) /\ (Exact => trn[i].fifo = Outstanding(i))
  <2> TAKE i \in Trns
  <2>1. CASE i \in cfg.broadcast  BY <1>7, <2>1
  <2>2. CASE i \notin cfg.broadcast  BY <1>8, <2>2
  <2> QED  BY <2>1, <2>2
<1> QED  BY <1>9 DEF Counted, Exact

(***************************************************************************)
(* The theorems.                                                           *)
(***************************************************************************)
\* Whatever the timers, the interrupts and the bus do, the state is a good one.
THEOREM Invariance == Spec => []IInv
BY InitGood, NextGood, PTL DEF Spec

\* The driver, the queues, the transactors and the messages have their types.
THEOREM TypeCorrect == Spec => []TypeOK
<1>1. IInv => TypeOK
  <2> SUFFICES ASSUME IInv  PROVE TypeOK  OBVIOUS
  <2>1. cfg \in Cfgs /\ Now \in State /\ Len(Now.tasks) <= TaskLen
    BY DEF IInv, Good, Sound, Typed
  <2> QED  BY <2>1 DEF Now, State, TypeOK
<1> QED  BY <1>1, Invariance, PTL

\* No message is lost, queued twice or freed while it is being sent, for any number of
\* messages and transactors, any length of the task's queue, and interrupts and timers
\* at any time (rs485_free_tx_msg, rs485_add_tx_msg, get_next_tx_msg).
THEOREM MessagesOwned == Spec => []NothingLost
<1>1. IInv => NothingLost
  <2> SUFFICES ASSUME IInv  PROVE NothingLost  OBVIOUS
  <2>1. Owns(txmsgs, drv.cur, InUse(msg)) /\ Line(Now)
    BY DEF IInv, Good, Sound, Owned, Now
  <2>2. txmsgs \in Seq(Blocks)  BY DEF IInv, Good, Sound, Typed, State, Now
  <2>3. DOMAIN txmsgs = 1 .. Len(txmsgs)  BY <2>2, LenProperties
  <2>4. Queued = Members(txmsgs)  BY <2>3 DEF Queued, Members
  <2>5. drv.status = "tx" /\ Punctual => drv.pbufo # None /\ drv.cur = drv.pbufo
    BY <2>1 DEF Line, Now
  <2> QED  BY <2>1, <2>3, <2>4, <2>5 DEF NothingLost, Owns, InUse
<1> QED  BY <1>1, Invariance, PTL

\* As long as there is something to send, a timer, an event, a frame or the message on
\* the line brings the driver back to it, though events are lost to a full queue and flags
\* to an interrupt.
THEOREM NeverStuck == Spec => []NoSilentBus
<1>1. IInv => NoSilentBus
  <2> SUFFICES ASSUME IInv  PROVE NoSilentBus  OBVIOUS
  <2>1. Awake(Now) /\ drv \in Driver  BY DEF IInv, Good, Sound, Typed, State, Now
  <2>2. drv.status \in {"off", "rx", "tx"}  BY <2>1 DEF Driver
  <2> QED  BY <2>1, <2>2 DEF NoSilentBus, Awake, Runs, Now
<1> QED  BY <1>1, Invariance, PTL

\* Nobody sends before a pause or a time-out is over, when the task is in time and no
\* interrupt comes in the middle of a callback (rs485_timerp_isr, rs485_next_txmsg).
THEOREM WaitsForPause == Spec => PauseKept
<1>1. IInv /\ IInv' /\ [Next]_vars =>
        [(Punctual /\ drv.status # "tx" /\ drv'.status = "tx") => "over" \in quiet']_vars
  <2> SUFFICES ASSUME IInv, IInv', Next \/ UNCHANGED vars, Punctual,
                      drv.status # "tx", drv'.status = "tx"
               PROVE  "over" \in quiet'
    OBVIOUS
  <2>1. cfg' = cfg  BY DEF Next, DrvStart, DrvStop, TcpRequest, SetStart, WebStart, TrnTimer,
                           Hear, Interrupt, Task, TimerP, TimerW, vars
  <2>2. Punctual'  BY <2>1 DEF Punctual
  <2>3. Line(Now)'  BY DEF IInv, Good, Sound
  <2> QED  BY <2>2, <2>3 DEF Line, Now
<1> QED  BY <1>1, Invariance, PTL DEF Spec, PauseKept

\* A transactor counts what it has under way, for any number of transactors and messages:
\* never less, whatever is heard and however late timers and the task are, and exactly that
\* when nothing strange is heard and all are in time (reset_flg_trn, mdb_start_trn,
\* get_next_tx_msg).
THEOREM CountersRight == Spec => []Counted
<1>1. Init => CountInv  BY InitGood, InitLedger DEF CountInv
<1>2. CountInv /\ [Next]_vars => CountInv'  BY NextGood, NextLedger DEF CountInv
<1>3. CountInv => Counted  BY LedgerCounts
<1> QED  BY <1>1, <1>2, <1>3, PTL DEF Spec
=============================================================================
