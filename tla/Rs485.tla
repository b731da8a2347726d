------------------------------- MODULE Rs485 -------------------------------
(***************************************************************************)
(* The half-duplex RS-485 driver of app/driver/rs485drv.c with the queue   *)
(* of messages it sends (app/mdbtcp/mdbrs485.c) and the periodic           *)
(* transactors that fill it (app/mdbtcp/mdbtab.c).                         *)
(*                                                                         *)
(* Timers, the driver's task and the callbacks of TCP and the web server   *)
(* do not interrupt each other: each is one step.  The UART interrupt is a *)
(* step of its own and can also come in the middle of a callback, where    *)
(* interrupts are not locked.  A message that is freed may be allocated    *)
(* again while a pointer to it is still in use.                            *)
(***************************************************************************)
EXTENDS Integers, Sequences, SequencesExt

CONSTANTS Blocks,    \* addresses of srs485msg structures
          None,      \* NULL
          TrnOrder,  \* the transactors in the order of mdb_buf.trn.  A number is the
                     \* set of its bits, so that an OR of numbers is a union.
          TaskLen,   \* RS485_TASK_QUEUE_LEN
          MaxFifo,   \* bound: nobody starts a transactor whose fifo_cnt is this high
          Cfgs       \* settings to choose from, see Config

Trns == {TrnOrder[i] : i \in DOMAIN TrnOrder}
Bits == UNION Trns

\* late: a timer may come before the driver's task has handled an event;
\* preempt: an interrupt comes in the middle of a callback; low: memory is low;
\* stop: somebody stops the driver and starts it again.
Faults == {"late", "preempt", "low", "stop"}

Config == [mem : SUBSET Blocks,      \* the memory there is
           master : BOOLEAN,         \* rs485cfg.flg.b.master
           client : SUBSET BOOLEAN,  \* may a TCP client be connected?
           periodic : SUBSET Trns,   \* transactors with a timer_set
           broadcast : SUBSET Trns,  \* transactors with id 0: nobody answers
           foreign : Nat,            \* how many frames come that nobody has asked for
           faults : SUBSET Faults]

ASSUME BusAssumption == /\ None \notin Blocks /\ None \notin Trns
                        /\ TrnOrder \in Seq(Trns)
                        /\ TaskLen \in Nat \ {0} /\ MaxFifo \in Nat
                        /\ Cfgs \subseteq Config

VARIABLES cfg,    \* the settings: chosen once
          drv,    \* rs485vars and the UART
          msg,    \* the messages in memory
          txmsgs, \* the queue of messages, head first
          tasks,  \* taskQueue: events for rs485_task
          trn,    \* the transactors
          bus,    \* what the others on the bus may still send
          quiet   \* the timers armed since anybody last sent, "over" when a pause or a
                  \* time-out has ended since

vars == <<cfg, drv, msg, txmsgs, tasks, trn, bus, quiet>>

\* The flags of a message and of the driver.  wait only counts errors and is left out.
Flags == [only : BOOLEAN,   \* tx_only
          chars : BOOLEAN,  \* rx_chars
          int : BOOLEAN,    \* int_msg
          rxend : BOOLEAN,  \* rx_end
          ready : BOOLEAN,  \* tx_ready
          txend : BOOLEAN,  \* tx_end
          reset : BOOLEAN,  \* trn_reset
          num : SUBSET Bits]   \* trn_num

NoFlags == [only |-> FALSE, chars |-> FALSE, int |-> FALSE, rxend |-> FALSE,
            ready |-> FALSE, txend |-> FALSE, reset |-> FALSE, num |-> {}]

\* fifo: are there characters in the receive FIFO?  pbufo: the message being output
Driver == [status : {"off", "rx", "tx"}, flg : Flags,
           cur : Blocks \cup {None}, pbufo : Blocks \cup {None},
           timerp : BOOLEAN, timerw : BOOLEAN, fifo : BOOLEAN]

\* used: is it allocated?  trn: who sends it, None for TCP and for answers of our own
Msg == [used : BOOLEAN, trn : Trns \cup {None}, only : BOOLEAN]

FreeMsg == [used |-> FALSE, trn |-> None, only |-> FALSE]

Timers == {"timerp", "timerw"}

(***************************************************************************)
(* The functions.  Each takes the state s to the state, or the set of      *)
(* states, it leaves.                                                      *)
(***************************************************************************)
Now == [drv |-> drv, msg |-> msg, txmsgs |-> txmsgs, tasks |-> tasks, trn |-> trn,
        bus |-> bus, quiet |-> quiet]

Become(s) == \E t \in {s} : /\ drv' = t.drv
                           /\ msg' = t.msg
                           /\ txmsgs' = t.txmsgs
                           /\ tasks' = t.tasks
                           /\ trn' = t.trn
                           /\ bus' = t.bus
                           /\ quiet' = t.quiet

Arm(s, t)    == [s EXCEPT !.drv = [@ EXCEPT ![t] = TRUE], !.quiet = @ \cup {t}]
Disarm(s, t) == [s EXCEPT !.drv = [@ EXCEPT ![t] = FALSE], !.quiet = @ \ {t}]

\* The timer t has ended.
Fired(s, t) == [s EXCEPT !.drv = [@ EXCEPT ![t] = FALSE],
                         !.quiet = IF t \in @ \/ t = "timerw"
                                   THEN (@ \ {t}) \cup {"over"} ELSE @]

\* ets_post, whose result nobody looks at
Post(s, sig) == IF Len(s.tasks) < TaskLen THEN [s EXCEPT !.tasks = Append(@, sig)] ELSE s

\* rs485_uart_isr while receiving: characters are moved to the buffer
RxFull(s) == [s EXCEPT !.drv = [@ EXCEPT !.fifo = FALSE, !.flg.chars = TRUE]]

\* Mutant: what is received does not take back the leave to send.
RxToutStaysReady(s) ==
  Post([s EXCEPT !.drv = [@ EXCEPT !.fifo = FALSE, !.flg.chars = FALSE, !.flg.rxend = TRUE],
                 !.quiet = {}], "RX_OK")

\* rs485_uart_isr while receiving: a pause on the line ends the frame
RxTout(s) ==
  Post([s EXCEPT !.drv = [@ EXCEPT !.fifo = FALSE, !.flg.chars = FALSE,
                                   !.flg.ready = FALSE, !.flg.rxend = TRUE],
                 !.quiet = {}], "RX_OK")

\* rs485_uart_isr while sending: the message is out, the driver receives again
TxTout(s) ==
  Post([s EXCEPT !.drv = [@ EXCEPT !.status = "rx", !.fifo = FALSE, !.pbufo = None,
                                   !.flg.chars = FALSE, !.flg.ready = FALSE,
                                   !.flg.txend = TRUE],
                 !.bus = [@ EXCEPT !.asked = ~s.drv.flg.only],
                 !.quiet = {}], "TX_OK")

\* rs485_uart_isr
Isr(s) == CASE s.drv.status = "tx" -> {TxTout(s)}
            [] s.drv.status = "rx" -> (IF s.drv.fifo THEN {RxFull(s)} ELSE {})
                                      \cup (IF s.drv.fifo \/ s.drv.flg.chars
                                            THEN {RxTout(s)} ELSE {})
            [] OTHER -> {}

\* An interrupt may come here.
Preempt(s) == {s} \cup (IF "preempt" \in cfg.faults THEN Isr(s) ELSE {})

\* Mutant: a counter that is zero is counted down as well.
ResetTrnBelowZero(s) ==
  LET i == s.drv.flg.num
      n == s.trn[i].fifo - 1
  IN  IF s.drv.flg.int /\ ~s.drv.flg.reset /\ i \in Trns
      THEN {[s EXCEPT !.trn[i].fifo = n,
                      !.trn[i].start = IF n = 0 THEN FALSE ELSE @,
                      !.drv.flg.reset = TRUE]}
      ELSE {s}

\* reset_flg_trn.  The flag trn_reset is set without locking interrupts: what an
\* interrupt does to the flags in between is lost.
ResetTrn(s) ==
  LET i == s.drv.flg.num
      n == IF s.trn[i].fifo = 0 THEN 0 ELSE s.trn[i].fifo - 1
      t == [s EXCEPT !.trn = [@ EXCEPT ![i].fifo = n,
                                       ![i].start = n # 0 /\ s.trn[i].start],
                     !.drv = [@ EXCEPT !.flg.reset = TRUE]]
  IN  IF s.drv.flg.int /\ ~s.drv.flg.reset /\ i \in Trns
      THEN {[u EXCEPT !.drv = [@ EXCEPT !.flg = t.drv.flg]] : u \in Preempt(t)}
      ELSE {s}

\* Mutant: the message is forgotten and not freed.
FreeTxMsgForgets(s) == [s EXCEPT !.drv = [@ EXCEPT !.cur = None]]

\* Mutant: the message is sent and stays the current one.
FreeTxMsgKeeps(s) == s

\* rs485_free_tx_msg
FreeTxMsg(s) == IF s.drv.cur = None
                THEN s
                ELSE [s EXCEPT !.msg = [@ EXCEPT ![s.drv.cur] = FreeMsg],
                               !.drv = [@ EXCEPT !.cur = None]]

\* The flags are cleared, all but rx_chars and tx_ready.
Cleared(flg) == [NoFlags EXCEPT !.chars = flg.chars, !.ready = flg.ready]

\* The flags of the message m
MsgFlags(m) == [NoFlags EXCEPT !.only = m.only,
                               !.int = m.trn # None,
                               !.num = IF m.trn = None THEN {} ELSE m.trn]

\* get_next_tx_msg: the flags of the new message come on top of the old ones
Merged(flg, new) == [flg EXCEPT !.rxend = FALSE, !.txend = FALSE,
                                !.only = @ \/ new.only,
                                !.int = @ \/ new.int,
                                !.num = @ \cup new.num]

TakeNext(s) ==
  IF s.txmsgs = <<>>
  THEN [s EXCEPT !.drv = [@ EXCEPT !.flg = Cleared(s.drv.flg)]]
  ELSE LET b == Head(s.txmsgs)
           g == Merged(s.drv.flg, MsgFlags(s.msg[b]))
       IN  Arm([s EXCEPT !.drv = [@ EXCEPT !.cur = b, !.flg = g],
                         !.txmsgs = Tail(@)], "timerw")

\* get_next_tx_msg
GetNext(s) == IF s.drv.cur # None THEN {s} ELSE {TakeNext(t) : t \in ResetTrn(s)}

\* No character has come since the last pause.
LineFree(s) == ~s.drv.fifo /\ ~s.drv.flg.chars

\* The transmitter's interrupt comes at once and takes the bus.
StartTx(s) == [s EXCEPT !.drv = [@ EXCEPT !.flg = MsgFlags(s.msg[s.drv.cur]),
                                          !.pbufo = s.drv.cur,
                                          !.status = "tx",
                                          !.fifo = FALSE]]

\* rs485_next_txmsg
NextTxMsg(s) ==
  IF s.drv.status = "rx" /\ s.drv.flg.ready
  THEN {IF u.drv.cur # None /\ u.drv.flg.ready /\ LineFree(u) THEN StartTx(u) ELSE u :
          u \in UNION {Preempt(t) : t \in GetNext(s)}}
  ELSE {s}

\* rs485_timerp_isr
PauseOver(s) ==
  IF s.drv.status = "rx"
  THEN {IF u.drv.status # "rx" \/ ~LineFree(u) THEN u
        ELSE IF u.drv.cur # None THEN StartTx(u)
        ELSE [u EXCEPT !.drv = [@ EXCEPT !.flg.ready = TRUE]] :
          u \in UNION {Preempt(t) : t \in GetNext(s)}}
  ELSE {s}

\* rs485_timerw_isr: the message is given up, is the bus free for the next?
NoAnswer(s) ==
  IF s.drv.fifo THEN {s}
  ELSE IF s.drv.flg.ready \/ (~s.drv.flg.rxend /\ ~s.drv.flg.chars)
  THEN PauseOver(s)
  ELSE {IF s.drv.timerp THEN s ELSE Arm(s, "timerp")}

\* Mutant: the transactor is not told of the time-out.
WaitOverSilent(s) ==
  CASE s.drv.status = "rx" ->
         NoAnswer([FreeTxMsg(s) EXCEPT !.drv = [@ EXCEPT !.flg = Cleared(s.drv.flg)]])
    [] s.drv.status = "tx" -> {Arm(s, "timerw")}
    [] OTHER -> {s}

\* rs485_timerw_isr
WaitOver(s) ==
  CASE s.drv.status = "rx" ->
         UNION {NoAnswer([FreeTxMsg(t) EXCEPT !.drv = [@ EXCEPT !.flg = Cleared(t.drv.flg)]]) :
                t \in ResetTrn(s)}
    [] s.drv.status = "tx" -> {Arm(s, "timerw")}
    [] OTHER -> {s}

Unused(s) == {b \in cfg.mem : ~s.msg[b].used}

\* os_malloc: which of the free blocks does not matter
Malloc(s) == CHOOSE b \in Unused(s) : TRUE

\* rs485_new_tx_msg, when there is memory: a message of TCP goes to the end of the queue,
\* an answer of our own, to which nobody answers, to its head.
NewTxMsg(s, own, only) ==
  LET b == Malloc(s)
      t == [s EXCEPT !.msg = [@ EXCEPT ![b] = [used |-> TRUE, trn |-> None,
                                               only |-> only \/ own]],
                     !.txmsgs = IF own THEN <<b>> \o @ ELSE Append(@, b)]
  IN  IF own THEN {t} ELSE NextTxMsg(t)

\* mdb_start_trn, when there is memory and the transactor is set up as it should
StartTrn(s, i) ==
  LET b   == Malloc(s)
      all == i \in cfg.broadcast
  IN  NextTxMsg([s EXCEPT !.msg = [@ EXCEPT ![b] = [used |-> TRUE, trn |-> i, only |-> all]],
                          !.trn = [@ EXCEPT ![i].fifo = s.trn[i].fifo + (IF all THEN 0 ELSE 1)],
                          !.txmsgs = <<b>> \o @])

\* mdb_timertrn_isr, one turn of its loop; due: the transactors whose timer_cnt is 0
TrnTurn(s, i, due) ==
  IF Unused(s) = {}
  THEN {s}
  ELSE IF s.trn[i].start
  THEN {[t EXCEPT !.trn = [@ EXCEPT ![i].start = FALSE]] : t \in StartTrn(s, i)}
  ELSE IF i \in due /\ s.trn[i].fifo = 0
  THEN StartTrn(s, i)
  ELSE {s}

\* What may have been received: a frame too short to be one, one with an error, a
\* request to us, the answer to what was sent, anything else.
Frames == {"answer", "other"} \cup (IF cfg.foreign = 0 THEN {} ELSE {"short", "bad", "mine"})

\* rs485_test_msg with a frame that is long enough: the states in which it returns 1,
\* and the one in which it returns 0
ForUs(f) == f = "mine" /\ ~cfg.master

Answered(s, f) ==
  IF \/ f = "bad"
     \/ s.drv.flg.int /\ f # "answer"
     \/ ~s.drv.flg.int /\ ~ForUs(f) /\ TRUE \notin cfg.client
  THEN {}
  ELSE IF s.drv.flg.int THEN {s}
  ELSE {s} \cup (IF "low" \in cfg.faults THEN {FreeTxMsg(s)} ELSE {})
           \cup (IF ForUs(f) /\ Unused(s) # {} THEN NewTxMsg(s, TRUE, TRUE) ELSE {})

Unanswered(s, f) ==
  IF \/ f = "bad"
     \/ s.drv.flg.int /\ f # "answer"
     \/ ~s.drv.flg.int /\ ~ForUs(f) /\ FALSE \in cfg.client
  THEN {s} ELSE {}

\* Mutant: that nobody may be waiting is forgotten.
UselessWaits(s) == IF s.drv.flg.only /\ s.drv.flg.txend THEN Arm(s, "timerp") ELSE s

\* rs485_task: after a frame that is of no use
Useless(s) == IF (s.drv.flg.only /\ s.drv.flg.txend) \/ ~s.drv.timerw
              THEN Arm(s, "timerp") ELSE s

\* rs485_task, RS485_SIG_RX_OK
RxOk(s) ==
  LET t == Disarm(s, "timerp")
  IN  UNION {IF f = "short" THEN {Useless(t)}
             ELSE {Arm(Disarm(u, "timerw"), "timerp") : u \in Answered(t, f)}
                  \cup {Useless(u) : u \in Unanswered(t, f)} : f \in Frames}

\* rs485_task, RS485_SIG_TX_OK
TxOk(s) == LET t == FreeTxMsg(Disarm(Disarm(s, "timerp"), "timerw"))
           IN  {Arm(t, IF t.drv.flg.only THEN "timerp" ELSE "timerw")}

(***************************************************************************)
(* The steps.                                                              *)
(***************************************************************************)
\* rs485_drv_init
Init == /\ cfg \in Cfgs
        /\ drv = [status |-> "off", flg |-> NoFlags, cur |-> None, pbufo |-> None,
                  timerp |-> FALSE, timerw |-> FALSE, fifo |-> FALSE]
        /\ msg = [b \in Blocks |-> FreeMsg]
        /\ txmsgs = <<>>
        /\ tasks = <<>>
        /\ trn = [i \in Trns |-> [fifo |-> 0, start |-> FALSE]]
        /\ bus = [left |-> cfg.foreign, asked |-> FALSE]
        /\ quiet = {}

\* rs485_drv_start
DrvStart == /\ drv.status = "off"
            /\ Become(Arm([Now EXCEPT !.drv = [@ EXCEPT !.status = "rx", !.flg = NoFlags,
                                                        !.fifo = FALSE]], "timerp"))
            /\ UNCHANGED cfg

\* rs485_drv_stop and rs485_drv_clr_bufs: the queue is freed, the current message is
\* only forgotten.
DrvStop ==
  /\ "stop" \in cfg.faults
  /\ \E t \in ResetTrn([Disarm(Disarm(Now, "timerp"), "timerw") EXCEPT
                          !.drv = [@ EXCEPT !.status = "off", !.fifo = FALSE,
                                            !.pbufo = None, !.cur = None],
                          !.msg = [b \in Blocks |-> IF b \in {txmsgs[i] : i \in DOMAIN txmsgs}
                                                    THEN FreeMsg ELSE msg[b]],
                          !.txmsgs = <<>>,
                          !.quiet = {}]) :
       Become([t EXCEPT !.trn = [i \in Trns |-> [fifo |-> 0, start |-> t.trn[i].start]]])
  /\ UNCHANGED cfg

\* mdb_tcp_recv: a request of the TCP client for the bus
TcpRequest(only) == /\ drv.status # "off" /\ TRUE \in cfg.client
                    /\ Unused(Now) # {}
                    /\ \E t \in NewTxMsg(Now, FALSE, only) : Become(t)
                    /\ UNCHANGED cfg

\* A register write or a web page sets start_flg.
SetStart(i) == /\ ~trn[i].start /\ trn[i].fifo < MaxFifo
               /\ trn' = [trn EXCEPT ![i].start = TRUE]
               /\ UNCHANGED <<cfg, drv, msg, txmsgs, tasks, bus, quiet>>

\* web_int_vars: a transactor is started at once.
WebStart(i) == /\ trn[i].fifo < MaxFifo
               /\ Unused(Now) # {}
               /\ \E t \in StartTrn(Now, i) : Become(t)
               /\ UNCHANGED cfg

\* mdb_timertrn_isr, its loop: the states after the turns of all transactors
TrnTurns(due) ==
  LET after[k \in 0 .. Len(TrnOrder)] ==
        IF k = 0 THEN {Now}
        ELSE UNION {TrnTurn(s, TrnOrder[k], due) : s \in after[k - 1]}
  IN  after[Len(TrnOrder)]

\* mdb_timertrn_isr
TrnTimer == /\ drv.status # "off"
            /\ \E due \in SUBSET cfg.periodic : \E t \in TrnTurns(due) : Become(t)
            /\ UNCHANGED cfg

\* Somebody sends on the bus.
Hear == /\ drv.status = "rx" /\ ~drv.fifo
        /\ \/ bus.asked /\ bus' = [bus EXCEPT !.asked = FALSE]
           \/ bus.left > 0 /\ bus' = [bus EXCEPT !.left = @ - 1]
        /\ drv' = [drv EXCEPT !.fifo = TRUE]
        /\ quiet' = {}
        /\ UNCHANGED <<cfg, msg, txmsgs, tasks, trn>>

\* rs485_uart_isr
Interrupt == /\ \E t \in Isr(Now) : Become(t)
             /\ UNCHANGED cfg

\* rs485_task.  Once the driver is off, what is left in the queue does nothing.
Task == /\ tasks # <<>>
        /\ LET s == [Now EXCEPT !.tasks = Tail(@)]
           IN  \E t \in IF drv.status = "off" THEN {s}
                       ELSE IF Head(tasks) = "RX_OK" THEN RxOk(s)
                       ELSE TxOk(s) : Become(t)
        /\ UNCHANGED cfg

InTime == Len(tasks) <= IF "late" \in cfg.faults THEN 1 ELSE 0

TimerP == /\ drv.timerp /\ InTime
          /\ \E t \in PauseOver(Fired(Now, "timerp")) : Become(t)
          /\ UNCHANGED cfg

TimerW == /\ drv.timerw /\ InTime
          /\ \E t \in WaitOver(Fired(Now, "timerw")) : Become(t)
          /\ UNCHANGED cfg

Next == \/ DrvStart
        \/ DrvStop
        \/ \E only \in BOOLEAN : TcpRequest(only)
        \/ \E i \in Trns : SetStart(i) \/ WebStart(i)
        \/ TrnTimer
        \/ Hear
        \/ Interrupt
        \/ Task
        \/ TimerP
        \/ TimerW

Spec == Init /\ [][Next]_vars

\* A frame on the bus ends, the task and the timers run.
FairSpec == /\ Spec
            /\ WF_vars(Interrupt /\ drv'.flg.chars = FALSE)
            /\ WF_vars(Task) /\ WF_vars(TimerP) /\ WF_vars(TimerW)

(***************************************************************************)
(* Properties.                                                             *)
(***************************************************************************)
\* The driver, the queues, the transactors and the messages have their types.
TypeOK == /\ cfg \in Cfgs /\ drv \in Driver
          /\ msg \in [Blocks -> Msg]
          /\ txmsgs \in Seq(Blocks)
          /\ tasks \in Seq({"RX_OK", "TX_OK"}) /\ Len(tasks) <= TaskLen
          /\ trn \in [Trns -> [fifo : Nat, start : BOOLEAN]]
          /\ bus \in [left : Nat, asked : BOOLEAN]
          /\ quiet \subseteq Timers \cup {"over"}

Queued == {txmsgs[i] : i \in DOMAIN txmsgs}

\* No timer comes before the task, and no interrupt in the middle of a callback.
Punctual == {"late", "preempt"} \cap cfg.faults = {}

\* Every message in memory is in the queue, once, or is the current one, and nothing
\* else is: none is lost or sent twice, whatever the timers and the bus do.  (Stopping
\* the driver forgets the current one.)  curtxmsg is "the current block of transmission
\* (if not NULL, waiting or already under way)": a message is not freed while it is being
\* output.
NothingLost ==
  /\ \A i, j \in DOMAIN txmsgs : txmsgs[i] = txmsgs[j] => i = j
  /\ drv.cur \notin Queued
  /\ Queued \cup ({drv.cur} \ {None}) \subseteq {b \in Blocks : msg[b].used}
  /\ "stop" \notin cfg.faults =>
       {b \in Blocks : msg[b].used} \subseteq Queued \cup {drv.cur}
  /\ drv.status = "tx" /\ Punctual => drv.pbufo # None /\ drv.cur = drv.pbufo

\* The bus does not fall silent with something to send: a timer runs, the task has an
\* event, or the driver sends or receives, so that the interrupt will come.
NoSilentBus ==
  (drv.status # "off" /\ (txmsgs # <<>> \/ drv.cur # None)) =>
    \/ drv.timerp \/ drv.timerw
    \/ tasks # <<>>
    \/ drv.status = "tx"
    \/ drv.fifo \/ drv.flg.chars

\* Nobody sends before the bus was quiet for a pause since the last frame, or a time-out
\* is over: that one may come right after a frame, as rx_end is cleared before it is read.
PauseKept ==
  [][(Punctual /\ drv.status # "tx" /\ drv'.status = "tx") => "over" \in quiet']_vars

\* The current message waits for the bus.
Waiting == drv.cur # None /\ drv.status # "tx" /\ ~drv.flg.txend

Counts(b, i) == msg[b].trn = i /\ ~msg[b].only

\* What transactor i has under way: queued, waiting, or sent and not yet answered
Outstanding(i) ==
  Cardinality({b \in Queued : Counts(b, i)})
  + (IF IF Waiting THEN Counts(drv.cur, i)
        ELSE drv.flg.int /\ ~drv.flg.reset /\ ~drv.flg.only /\ drv.flg.num = i
     THEN 1 ELSE 0)

\* fifo_cnt is "the counter of messages in the queue that are not dealt with": it never
\* says a transactor is free that has something under way, so that its timer does not
\* start it twice.  Without strange frames it does not count more either, so that its timer
\* starts it again.
Counted ==
  /\ \A i \in Trns : trn[i].fifo >= Outstanding(i)
  /\ cfg.foreign = 0 /\ Punctual => \A i \in Trns : trn[i].fifo = Outstanding(i)

\* A message that was taken from the queue is sent or given up, and as long as the driver
\* runs a message in the queue gets its turn.
KeepsSending ==
  /\ \A b \in Blocks : (drv.cur = b) ~> (drv.cur # b)
  /\ (txmsgs # <<>> /\ drv.status # "off") ~> (drv.cur # None \/ txmsgs = <<>>)
=============================================================================
