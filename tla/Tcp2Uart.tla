------------------------------ MODULE Tcp2Uart ------------------------------
(***************************************************************************)
(* The bridge between a TCP connection and UART0: the driver of            *)
(* app/web/uart_tcp.c (interrupt, task and receive buffer), the callbacks  *)
(* of app/web/tcp2uart.c, and the part of the connection manager they call *)
(* (app/web/tcp_srv_conn.c; TcpSrvConn models it whole).                   *)
(*                                                                         *)
(* The callbacks of lwIP, the task and the web server do not interrupt     *)
(* each other: each is one step.  The UART interrupt comes between them;   *)
(* where it shares a counter with them, interrupts are locked.  What the   *)
(* device on the UART and the TCP peer send is numbered from 1 in each     *)
(* session, so that a stream is in order when it counts up.                *)
(***************************************************************************)
EXTENDS Integers, Sequences, FiniteSets, FiniteSetsExt

CONSTANTS Conns,    \* addresses of TCP_SERV_CONN structures
          None,     \* NULL
          BufMax,   \* UART_RX_BUF_MAX
          Blk,      \* 2 * TCP_MSS
          SndBuf,   \* TCP_SND_BUF
          Wnd,      \* TCP_WND
          RxFifo,   \* characters that make the receive FIFO full
          TxFifo,   \* characters the transmit FIFO takes
          TaskLen,  \* UART_TASK_QUEUE_LEN
          Word,     \* a counter counts modulo this
          Cfgs      \* settings to choose from, see Config

\* full: the task may be so late that its queue is full; stale: a new session may begin
\* before the task has handled the events of the last one; write: tcp_write finds no
\* memory; close: tcp_close finds none; memory: there is none for the buffer; trim: there
\* is none for what is left in pbufi; drop: the connection may end at any time.
Faults == {"full", "stale", "write", "close", "memory", "trim", "drop"}

Config == [client : BOOLEAN,  \* do we connect, or listen?
           rx : Nat,          \* how many characters the device sends in a session
           tx : Nat,          \* how many the peer sends
           faults : SUBSET Faults]

ASSUME BridgeAssumption ==
  /\ None \notin Conns
  /\ Cfgs \subseteq Config
  /\ BufMax \in Nat /\ Blk \in Nat /\ Word \in Nat /\ SndBuf \in Nat /\ Wnd \in Nat
  /\ RxFifo \in Nat /\ TxFifo \in Nat /\ TaskLen \in Nat
  /\ 0 < Blk /\ Blk < BufMax /\ 2 * BufMax < Word

VARIABLES cfg,    \* the settings: chosen once
          drv,    \* uart_drv and the interrupts it has enabled
          uart,   \* the two FIFOs and the lines
          tasks,  \* taskQueue: events for uart_task
          conn,   \* the connection structures
          cur,    \* tcp2uart_conn
          net     \* what TCP has taken and not yet delivered

vars == <<cfg, drv, uart, tasks, conn, cur, net>>

\* on: is uart_rx_buf allocated?  buf: what it holds, uart_rx_buf_count its length;
\* out: uart_out_buf_count; nsnd: uart_nsnd_buf_count; rxen, txen: the interrupts
\* enabled; alive: has no counter led beyond the buffer, no NULL been used, and nothing
\* been left to use that is freed?
Driver == [on : BOOLEAN, buf : Seq(Nat), out : 0 .. Word - 1, nsnd : 0 .. Word - 1,
           rxen : BOOLEAN, txen : BOOLEAN, alive : BOOLEAN]

\* rx, tx: the FIFOs; sent: how many characters the device has sent; printed: how many
\* it has been given; pause: the end of a block on the line, "due" or already "raised"
Uart == [rx : Seq(Nat), tx : Seq(Nat), sent : Nat, printed : Nat,
         pause : {"no", "due", "raised"}]

\* pend: pbufi from cntri to sizei; got: how many characters of the peer have been taken
\* from lwIP; win: how many more it may send
Conn == [st : {"free", "open", "closing"}, cntro : Nat, wait : BOOLEAN,
         pend : Seq(Nat), cntri : Nat, got : Nat, win : Int]

FreeConn == [st |-> "free", cntro |-> 0, wait |-> FALSE, pend |-> <<>>, cntri |-> 0,
             got |-> 0, win |-> Wnd]

\* given: the last character given to TCP; flight: how many wait for an acknowledgement;
\* missed: has an event found the queue full?  lost: how many characters it announced;
\* serving: tcp2uart_servcfg
Net == [given : Nat, flight : Nat, lost : Nat,
        missed : BOOLEAN, serving : BOOLEAN]

(***************************************************************************)
(* The functions.  Each takes the state s to the state, or the set of      *)
(* states, it leaves.                                                      *)
(***************************************************************************)
Now == [drv |-> drv, uart |-> uart, tasks |-> tasks, conn |-> conn, cur |-> cur, net |-> net]

Become(s) == \E t \in {s} : /\ drv' = t.drv
                           /\ uart' = t.uart
                           /\ tasks' = t.tasks
                           /\ conn' = t.conn
                           /\ cur' = t.cur
                           /\ net' = t.net

Less(a, b) == (a - b) % Word
Run(from, to) == [i \in 1 .. to - from |-> from + i]   \* characters from + 1 to to
Crash(s) == [s EXCEPT !.drv.alive = FALSE]

\* uart_drv_close.  The counters keep their values.
DrvClose(s) == [s EXCEPT !.drv.on = FALSE, !.drv.rxen = FALSE, !.drv.txen = FALSE,
                         !.uart.rx = <<>>, !.uart.tx = <<>>, !.uart.pause = "no"]

\* uart_drv_start, when there is memory
DrvStart(s) ==
  [DrvClose(s) EXCEPT !.drv.on = TRUE, !.drv.rxen = TRUE,
                      !.drv.buf = <<>>, !.drv.out = 0, !.drv.nsnd = 0]

\* uart_del_rx_chars when there is less in the buffer than n, or no buffer: the counters
\* are lowered all the same, and the loop that moves the rest runs beyond the memory.
Overrun(s, n) == [Crash(s) EXCEPT !.drv.nsnd = Less(@, n), !.drv.out = Less(@, n)]

\* Mutant: the interrupts stay disabled once the buffer was full.
DelRxCharsStayOff(s, n) ==
  IF n > Len(s.drv.buf) \/ (~s.drv.on /\ n < Len(s.drv.buf))
  THEN Overrun(s, n)
  ELSE [s EXCEPT !.drv.buf = SubSeq(@, n + 1, Len(@)),
                 !.drv.nsnd = Less(@, n),
                 !.drv.out = Less(@, n)]

\* uart_del_rx_chars: the rest of the buffer is moved to its start, if there is one
DelRxChars(s, n) ==
  LET left == Less(s.drv.nsnd, n)
  IN  IF n > Len(s.drv.buf) \/ (~s.drv.on /\ n < Len(s.drv.buf))
      THEN Overrun(s, n)
      ELSE [s EXCEPT !.drv.buf = SubSeq(@, n + 1, Len(@)),
                     !.drv.nsnd = left,
                     !.drv.out = Less(@, n),
                     !.drv.rxen = @ \/ left < BufMax - Blk]

\* The end of a connection: its memory is freed, or kept by a client that reconnects,
\* and tcp2uart_disconnect is called, which does not clear tcp2uart_conn.
Ended(s, c) == DrvClose([s EXCEPT !.conn[c] = FreeConn, !.net.flight = 0])

\* tcpsrv_server_close: a connection that tcp_close finds no memory for waits for more
ServerClose(s, c) ==
  {Ended(s, c)} \cup
  (IF "close" \in cfg.faults
   THEN {[s EXCEPT !.conn[c] = [FreeConn EXCEPT !.st = "closing"]]}
   ELSE {})

Room(s) == SndBuf - s.net.flight

\* tcp_write of the first n characters of the buffer
Given(s, n) == [s EXCEPT !.net.given = @ + n, !.net.flight = @ + n]

\* tcpsrv_int_sent_data of the first n characters
IntSentData(s, c, n) ==
  IF s.conn[c].st = "closing" \/ n = 0
  THEN {s}
  ELSE {[Given(s, n) EXCEPT !.conn[c].cntro = @ - n, !.conn[c].wait = TRUE]}
       \cup (IF "write" \in cfg.faults THEN ServerClose(s, c) ELSE {})

\* Mutant: what waits for sent_cb is not counted.
SendRxBufForgets(s, n) ==
  LET c   == s.cur
      len == Min({Room(s), n})
  IN  IF c = None
      THEN {s}
      ELSE IF s.conn[c].st = "free"
      THEN {Crash(s)}
      ELSE IF s.conn[c].cntro > 0 \/ s.conn[c].wait
      THEN {s}
      ELSE {DelRxChars(t, len) : t \in IntSentData([s EXCEPT !.conn[c].cntro = n], c, len)}

\* tcp2uart_send_rxbuf: n more characters of the buffer are to be sent
SendRxBuf(s, n) ==
  LET c   == s.cur
      len == Min({Room(s), n})
  IN  IF c = None
      THEN {s}
      ELSE IF s.conn[c].st = "free"   \* its pcb is NULL
      THEN {Crash(s)}
      ELSE IF s.conn[c].cntro > 0 \/ s.conn[c].wait
      THEN {[s EXCEPT !.conn[c].cntro = @ + n]}
      ELSE {IF len > 0 THEN DelRxChars(t, len) ELSE t :
              t \in IntSentData([s EXCEPT !.conn[c].cntro = n], c, len)}

\* Mutant: the characters are taken out of the buffer before they are written.
SentCbTooSoon(s, c) ==
  LET len == Min({Room(s), s.conn[c].cntro})
      t   == [s EXCEPT !.cur = c, !.conn[c].cntro = @ - len]
  IN  IF len = 0 THEN {t} ELSE {Given(DelRxChars(t, len), Min({len, Room(s) - len}))}

\* tcp2uart_sent_cb: more of what waits is given to TCP.  It is taken out of the buffer
\* whether tcp_write has taken it or not.
SentCb(s, c) ==
  LET len == Min({Room(s), s.conn[c].cntro})
      t   == [s EXCEPT !.cur = c, !.conn[c].cntro = @ - len]
  IN  IF len = 0
      THEN {t}
      ELSE {DelRxChars(Given(t, len), len)}
           \cup (IF "write" \in cfg.faults THEN {DelRxChars(t, len)} ELSE {})

\* tcp2uart_send_tx_buf and uart_tx_buf: what fits goes into the transmit FIFO
SendTxBuf(s) ==
  LET c == s.cur
      n == Min({TxFifo - Len(s.uart.tx), Len(s.conn[c].pend)})
  IN  IF c = None \/ s.conn[c].pend = <<>>
      THEN s
      ELSE [s EXCEPT !.uart.tx = @ \o SubSeq(s.conn[c].pend, 1, n),
                     !.drv.txen = @ \/ n < Len(s.conn[c].pend),
                     !.conn[c].pend = SubSeq(@, n + 1, Len(@)),
                     !.conn[c].cntri = @ + n,
                     !.conn[c].win = @ + n]

\* The end of recv_trim_bufi: pbufi begins with what is left in it.
Trimmed(s, c) == [s EXCEPT !.conn[c].cntri = 0]

\* recv_trim_bufi finds no memory for what is left in pbufi (mem_realloc always takes a
\* new block): pbufi is NULL, and what was in it is lost.
Torn(s, c) == [s EXCEPT !.conn[c].pend = <<>>]

\* tcpsrv_server_recv and tcp2uart_recv, when there is memory: n more characters are put
\* at the end of pbufi, and what fits goes into the transmit FIFO.
Arrived(s, c, n) ==
  SendTxBuf([s EXCEPT !.cur = c,
                      !.conn[c].pend = @ \o Run(s.conn[c].got, s.conn[c].got + n),
                      !.conn[c].cntri = 0,
                      !.conn[c].got = @ + n,
                      !.conn[c].win = @ - n])

\* tcpsrv_server_recv, when pbufi is lost.  Before the n characters are taken: lwIP keeps
\* them and offers them again.  After it: lwIP is told to keep a pbuf that is freed.
Lost(s, c, n) ==
  LET t == Arrived(s, c, n)
  IN  (IF s.conn[c].pend # <<>> /\ s.conn[c].cntri > n THEN {Torn(s, c)} ELSE {})
      \cup (IF t.conn[c].pend # <<>> /\ t.conn[c].cntri > 0 THEN {Crash(Torn(t, c))} ELSE {})
\* ets_post, whose result nobody looks at
Post(s, sig, n) ==
  IF Len(s.tasks) < TaskLen
  THEN [s EXCEPT !.tasks = Append(@, [sig |-> sig, par |-> n])]
  ELSE [s EXCEPT !.net.lost = @ + n, !.net.missed = TRUE]

\* Mutant: the end of the buffer is not looked at while copying.
CopiedWhole(s) ==
  [s EXCEPT !.drv.buf = @ \o s.uart.rx, !.uart.rx = <<>>, !.drv.rxen = TRUE]

\* uart_intr_handler: the receive FIFO is copied to the buffer as far as it fits
Copied(s) ==
  LET n == Min({Len(s.uart.rx), BufMax - Len(s.drv.buf)})
  IN  [s EXCEPT !.drv.buf = @ \o SubSeq(s.uart.rx, 1, n),
                !.uart.rx = SubSeq(@, n + 1, Len(@)),
                !.drv.rxen = n = Len(s.uart.rx)]

\* uart_intr_handler: what is new is announced, all of it at the end of a block, else
\* when there is enough to fill the send buffer of TCP
Announced(s, tout) ==
  LET new  == Less(Len(s.drv.buf), s.drv.out)
      more == Less(Blk, s.drv.nsnd)
  IN  IF new = 0
      THEN s
      ELSE IF tout
      THEN [Post(s, "RX", new) EXCEPT !.drv.nsnd = (@ + new) % Word,
                                      !.drv.out = Len(s.drv.buf)]
      ELSE IF s.drv.nsnd < Blk /\ (new + s.drv.nsnd) % Word >= Blk
      THEN [Post(s, "RX", more) EXCEPT !.drv.nsnd = Blk, !.drv.out = (@ + more) % Word]
      ELSE s

\* uart_intr_handler, its part that receives
Received(s, tout) ==
  LET t == [s EXCEPT !.uart.pause = IF tout THEN "no" ELSE @]
  IN  IF s.drv.nsnd >= BufMax \/ Len(s.drv.buf) >= BufMax
      THEN [t EXCEPT !.drv.rxen = FALSE]
      ELSE Announced(Copied(t), tout)

\* uart_intr_handler, its part that sends
Emptied(s) == [Post(s, "TX", 0) EXCEPT !.drv.txen = FALSE]

(***************************************************************************)
(* The steps.                                                              *)
(***************************************************************************)
Init == /\ cfg \in Cfgs
        /\ drv = [on |-> FALSE, buf |-> <<>>, out |-> 0, nsnd |-> 0,
                  rxen |-> FALSE, txen |-> FALSE, alive |-> TRUE]
        /\ uart = [rx |-> <<>>, tx |-> <<>>, sent |-> 0, printed |-> 0, pause |-> "no"]
        /\ tasks = <<>>
        /\ conn = [c \in Conns |-> FreeConn]
        /\ cur = None
        /\ net = [given |-> 0, flight |-> 0, lost |-> 0, missed |-> FALSE, serving |-> FALSE]

\* Characters come from the device as long as the FIFO has room: flow control, or the
\* hardware loses them.
Character == /\ drv.on /\ uart.sent < cfg.rx /\ Len(uart.rx) < RxFifo
             /\ uart' = [uart EXCEPT !.sent = @ + 1,
                                     !.rx = Append(@, uart.sent + 1),
                                     !.pause = IF @ = "no" THEN "due" ELSE @]
             /\ UNCHANGED <<cfg, drv, tasks, conn, cur, net>>

Pause == /\ uart.pause = "due"
         /\ uart' = [uart EXCEPT !.pause = "raised"]
         /\ UNCHANGED <<cfg, drv, tasks, conn, cur, net>>

\* The device is given a character.
Output == /\ uart.tx # <<>>
         /\ uart' = [uart EXCEPT !.tx = Tail(@), !.printed = @ + 1]
         /\ UNCHANGED <<cfg, drv, tasks, conn, cur, net>>

RxInts == drv.rxen /\ (Len(uart.rx) = RxFifo \/ uart.pause = "raised")
TxInts == drv.txen /\ uart.tx = <<>>

\* How many events one interrupt may post
Timely == "full" \in cfg.faults \/ Len(tasks) + 2 <= TaskLen

\* uart_intr_handler
Interrupt ==
  /\ drv.alive /\ Timely
  /\ RxInts \/ TxInts
  /\ LET s == IF RxInts THEN Received(Now, uart.pause = "raised") ELSE Now
     IN  Become(IF ~drv.on THEN [Now EXCEPT !.drv.rxen = FALSE, !.drv.txen = FALSE]
                ELSE IF TxInts THEN Emptied(s) ELSE s)
  /\ UNCHANGED cfg

\* uart_task
Task == /\ drv.alive /\ tasks # <<>>
        /\ LET e == Head(tasks)
               s == [Now EXCEPT !.tasks = Tail(@)]
           IN  IF ~drv.on THEN Become(DrvClose(s))
               ELSE IF e.sig = "TX" THEN Become(SendTxBuf(s))
               ELSE \E t \in SendRxBuf(s, e.par) : Become(t)
        /\ UNCHANGED cfg

\* tcp2uart_start.  A port that cannot be bound, or a connection that cannot be begun,
\* leaves no service.
Start == /\ drv.alive /\ ~net.serving
         /\ Become([Now EXCEPT !.net.serving = TRUE])
         /\ UNCHANGED cfg

\* tcp2uart_close, also the first thing tcp2uart_start does when its settings differ:
\* tcpsrv_close ends every connection
Stop == /\ drv.alive /\ net.serving
        /\ LET open == {c \in Conns : conn[c].st # "free"}
               s    == DrvClose([Now EXCEPT !.net.serving = FALSE])
           IN  Become(IF open = {} THEN s ELSE Ended(s, CHOOSE c \in open : TRUE))
        /\ UNCHANGED cfg

\* tcp2uart_listen: there is a connection, the only one (max_conn, or the client's).
\* Without memory for the buffer it returns an error: a server's connection is reset,
\* a client's lives on without the driver.  The events of the last session are handled
\* first, except when this connection has pushed the last one out (srv_reopen).
Listen(c) ==
  /\ drv.alive /\ net.serving
  /\ \A d \in Conns : conn[d].st = "free"
  /\ "stale" \in cfg.faults \/ tasks = <<>>
  /\ LET s == [Now EXCEPT !.cur = c,
                          !.conn[c].st = "open",
                          !.uart.sent = 0, !.uart.printed = 0,
                          !.net = [given |-> 0, flight |-> 0, lost |-> 0, missed |-> FALSE,
                                   serving |-> TRUE]]
     IN  \/ Become(DrvStart(s))
         \/ /\ "memory" \in cfg.faults
            /\ Become(IF cfg.client THEN DrvClose(s) ELSE Ended(s, c))
  /\ UNCHANGED cfg

\* tcpsrv_server_recv and tcp2uart_recv: n more characters from the peer.  When there is
\* no memory for a new pbufi nothing happens, and lwIP offers them again.
Recv(c, n) ==
  /\ drv.alive /\ conn[c].st = "open"
  /\ n <= conn[c].win /\ conn[c].got + n <= cfg.tx
  /\ \E t \in {Trimmed(Arrived(Now, c, n), c)}
               \cup (IF "trim" \in cfg.faults THEN Lost(Now, c, n) ELSE {}) : Become(t)
  /\ UNCHANGED cfg

\* The peer acknowledges n characters: tcpsrv_server_sent calls tcp2uart_sent_cb, or
\* nothing when the connection is being closed.
Sent(c, n) ==
  /\ drv.alive /\ conn[c].st # "free"
  /\ n <= net.flight
  /\ LET s == [Now EXCEPT !.net.flight = @ - n, !.conn[c].wait = FALSE]
     IN  IF conn[c].st = "open" THEN \E t \in SentCb(s, c) : Become(t) ELSE Become(s)
  /\ UNCHANGED cfg

\* The peer closes the connection or it has been silent for too long: it is closed,
\* at the first try or a later one.  Or it is reset.
Close(c) == /\ drv.alive /\ "drop" \in cfg.faults
            /\ \/ conn[c].st = "open" /\ \E t \in ServerClose(Now, c) : Become(t)
               \/ conn[c].st = "closing" /\ Become(Ended(Now, c))
            /\ UNCHANGED cfg

Next == \/ Character \/ Pause \/ Output
        \/ Interrupt \/ Task
        \/ Start \/ Stop
        \/ \E c \in Conns : \/ Listen(c)
                            \/ \E n \in 1 .. Wnd : Recv(c, n)
                            \/ \E n \in 1 .. SndBuf : Sent(c, n)
                            \/ Close(c)

Spec == Init /\ [][Next]_vars

\* The device takes what it is given and pauses some time, interrupts and events are
\* handled, and the peer acknowledges what it gets.
FairSpec == /\ Spec
            /\ WF_vars(Pause) /\ WF_vars(Output) /\ WF_vars(Interrupt) /\ WF_vars(Task)
            /\ \A c \in Conns : WF_vars(\E n \in 1 .. SndBuf : Sent(c, n))

(***************************************************************************)
(* Properties.                                                             *)
(***************************************************************************)
\* What the properties need: tcp_write finds memory for what there is room for, which
\* nobody checks, a session begins when the events of the last one have been handled, and
\* mem_realloc finds memory to shorten pbufi, or what is in it is lost.
Benign(settings) ==
  \A k \in settings : "write" \notin k.faults /\ "stale" \notin k.faults /\ "trim" \notin k.faults

Open(c) == conn[c].st = "open"

\* Every part of the state has its type, and the buffer and the FIFOs hold no more than
\* they can.
TypeOK == /\ cfg \in Cfgs
          /\ drv \in Driver /\ Len(drv.buf) <= BufMax
          /\ uart \in Uart /\ Len(uart.rx) <= RxFifo /\ Len(uart.tx) <= TxFifo
          /\ tasks \in Seq([sig : {"RX", "TX"}, par : Nat]) /\ Len(tasks) <= TaskLen
          /\ conn \in [Conns -> Conn]
          /\ cur \in Conns \cup {None}
          /\ net \in Net /\ net.flight <= SndBuf

\* As long as the memory of Benign is found, nothing is lost, doubled or disordered in
\* either direction: after what TCP has taken comes what is in the buffer and then what
\* is in the receive FIFO, after what the device was given comes what is in the transmit
\* FIFO and then what waits in pbufi.  The peer may send what there is room for.
InOrder ==
  \A c \in Conns : Open(c) =>
    /\ drv.on => drv.buf \o uart.rx = Run(net.given, uart.sent)
    /\ uart.tx \o conn[c].pend = Run(uart.printed, conn[c].got)
    /\ conn[c].win + Len(conn[c].pend) = Wnd

\* How many characters the events q announce
Announcing(q) ==
  LET sum[i \in 0 .. Len(q)] == IF i = 0 THEN 0 ELSE sum[i - 1] + q[i].par
  IN  sum[Len(q)]

\* How many have been announced, also by events that were lost, and not been counted yet
NotSent == net.lost + Announcing(tasks)

\* uart_nsnd_buf_count, "the number of bytes of the buffer not sent yet", is what the
\* connection has still to send and what is in events, with those that were lost.  The
\* driver's counters agree with it, and tcp2uart_conn, which is not cleared when its
\* connection ends, is again the right one when there is something to send.
Accounted ==
  /\ drv.alive
  /\ drv.on => cur # None /\ conn[cur].st # "free"
  /\ \A c \in Conns : (Open(c) /\ drv.on) =>
       drv.nsnd = conn[c].cntro + NotSent /\ drv.nsnd = drv.out /\ drv.out <= Len(drv.buf)

Session == drv.on /\ \E c \in Conns : Open(c)

\* "The number of bytes of the buffer not sent yet" are bytes of the buffer.
NotSentInBuffer == drv.on => drv.nsnd <= Len(drv.buf)

\* Unless the session ends or an event is lost: what the device sends arrives, when it is
\* less than fills the buffer, what the peer sends is printed, and a full buffer does not
\* keep the receive interrupts off.
Flows ==
  /\ (Session /\ uart.sent = cfg.rx /\ cfg.rx < BufMax) ~>
        (net.given = cfg.rx \/ ~Session \/ net.missed)
  /\ \A c \in Conns : (Open(c) /\ drv.on /\ conn[c].got = cfg.tx) ~>
        (uart.printed = cfg.tx \/ ~Session \/ net.missed)
  /\ (Session /\ ~drv.rxen) ~> (drv.rxen \/ ~Session \/ net.missed)
=============================================================================
