----------------------------- MODULE TcpSrvConn -----------------------------
(***************************************************************************)
(* The TCP connection manager of app/web/tcp_srv_conn.c: one TCP_SERV_CFG  *)
(* (a listening server, or a client that connects to a remote host), the   *)
(* list of its connections, and the lwIP control blocks (pcbs) they use.   *)
(*                                                                         *)
(* lwIP, the timers and the program run in one task: each callback is one  *)
(* step, with every function it calls.  What the network and lwIP do       *)
(* between the callbacks is free.  A pcb or a connection that is freed     *)
(* goes back to a pool and may be handed out again, so a pointer to it     *)
(* that was kept points to whatever is there next.                         *)
(***************************************************************************)
EXTENDS Integers, Sequences, FiniteSets

CONSTANTS Conns,     \* addresses of TCP_SERV_CONN structures
          Pcbs,      \* addresses of lwIP pcbs
          None,      \* NULL
          Cfgs,      \* TCP_SERV_CFG settings to choose from, see Config
          MaxRetry,  \* TCP_CLIENT_MAX_CONNECT_RETRY
          MaxTries,  \* after how many tries to close a pcb is abandoned: 3
          MaxCheck,  \* bound: recv_check counts no further
          MaxTW      \* MAX_TIME_WAIT_PCB

\* What may go wrong: tcp_close finds no memory for a FIN, the peer resets the
\* connection or it times out, there is no memory or no port for a new pcb, tcp_connect
\* fails (it finds no route, say) when the client is started or when it tries again, the
\* peer sends data while a connection waits for the memory it takes to close it.
Faults == {"close", "rst", "tcp_new", "start", "connect", "late"}

\* The settings of a TCP_SERV_CFG.  clears: the disconnect callback calls the default
\* one, which clears the connection's pcb (all of them do when DEBUGSOO > 1).
Config == [client : BOOLEAN,     \* flag.client
           reconnect : BOOLEAN,  \* flag.client_reconnect
           reopen : BOOLEAN,     \* flag.srv_reopen
           twfree : BOOLEAN,     \* flag.pcb_time_wait_free
           clears : BOOLEAN,
           max : Nat,            \* max_conn
           rec : Nat,            \* time_wait_rec
           cls : Nat,            \* time_wait_cls
           faults : SUBSET Faults]

ASSUME ConnAssumption ==
  /\ None \notin Conns \cup Pcbs
  /\ Cfgs \subseteq Config
  /\ \A g \in Cfgs : ~g.client => g.max > 0
  /\ MaxRetry \in Nat /\ MaxTries \in Nat /\ MaxCheck \in Nat /\ MaxTW \in Nat

VARIABLES cfg,      \* the settings: chosen once
          running,  \* is the TCP_SERV_CFG in the phcfg list?
          conn,     \* the connection structures
          pcb,      \* the pcbs of lwIP
          links,    \* conn_links, head first
          count,    \* conn_count
          up        \* what the application has been told of each connection since its
                    \* structure was allocated: the calls of func_listen less the
                    \* calls of func_discon_cb

vars == <<cfg, running, conn, pcb, links, count, up>>

ConnStates == {"free", "CLIENT", "LISTEN", "CONNECT", "CLOSEWAIT"}
PcbStates  == {"free", "syn", "open", "shut", "fin", "closing", "tw"}
ActivePcb  == {"syn", "open", "shut", "fin", "closing"}

\* st: enum srvconn_state, or "free"; check: recv_check; timer: is ptimer armed?
ConnRec == [st : ConnStates, pcb : Pcbs \cup {None}, check : 0 .. MaxCheck, timer : BOOLEAN]

\* st: "syn" SYN_SENT, "open" ESTABLISHED, "shut" ESTABLISHED with TF_RXCLOSED set by a
\* tcp_close that failed, "fin" CLOSE_WAIT, "closing" FIN_WAIT_1 to LAST_ACK, "tw"
\* TIME_WAIT; arg: callback_arg; data: the recv and sent callbacks are set; err, poll: so
\* are these.
PcbRec == [st : PcbStates, arg : Conns \cup {None},
           data : BOOLEAN, err : BOOLEAN, poll : BOOLEAN]

FreeConn == [st |-> "free", pcb |-> None, check |-> 0, timer |-> FALSE]
FreePcb  == [st |-> "free", arg |-> None, data |-> FALSE, err |-> FALSE, poll |-> FALSE]

(***************************************************************************)
(* The functions.  Each takes the state s of the manager to the state, or  *)
(* the set of states, it leaves.                                           *)
(***************************************************************************)
Now == [conn |-> conn, pcb |-> pcb, links |-> links, count |-> count, up |-> up]

Become(s) == \E t \in {s} : /\ conn' = t.conn
                           /\ pcb' = t.pcb
                           /\ links' = t.links
                           /\ count' = t.count
                           /\ up' = t.up

Listed(s, c) == \E i \in DOMAIN s.links : s.links[i] = c

\* Mutant: the head goes, whichever element was meant.
UnlinkHead(l, i) == Tail(l)

\* The list without its element i.
Unlink(l, i) == [j \in 1 .. Len(l) - 1 |-> IF j < i THEN l[j] ELSE l[j + 1]]

Count(n) == IF n < MaxCheck THEN n + 1 ELSE n

\* find_tcp_pcb: the pcb of the connection, if it is still alive.  The ports and the
\* address it compares are those of the connection the pcb was made for.
FindPcb(s, c) ==
  LET p == s.conn[c].pcb
  IN  IF p = None
      THEN None
      ELSE IF s.pcb[p].st # "free" /\ s.pcb[p].arg = c THEN p ELSE None

\* How a call of tcp_close ends: it sends a FIN, or it resets a connection on which
\* data was not taken by the program, or it finds no memory for the FIN.
Outcomes == {"closing", "tw"} \cup (IF "close" \in cfg.faults THEN {"fails"} ELSE {})

\* The states in which tcp_close sends a FIN
Unclosed == {"open", "shut", "fin"}

\* Mutant: the result of tcp_close is read the wrong way round.
FailsInverted(r, o) == o # "fails" /\ r.st \in Unclosed

Fails(r, o) == o = "fails" /\ r.st \in Unclosed

\* tcp_close of the pcb r.  It sets TF_RXCLOSED before it looks for memory for the FIN.
Closed(r, o) == CASE r.st = "syn" -> FreePcb
                  [] r.st \in Unclosed /\ o # "fails" -> [r EXCEPT !.st = o]
                  [] r.st = "open" /\ o = "fails" -> [r EXCEPT !.st = "shut"]
                  [] OTHER -> r

\* Mutant: tcp_err(pcb, NULL) is forgotten.
QuietButErrors(r) == [r EXCEPT !.data = FALSE, !.poll = FALSE]

Quiet(r) == [r EXCEPT !.data = FALSE, !.err = FALSE, !.poll = FALSE]

\* Mutants: func_discon_cb is not called; the connection is counted down twice.
ListDeleteSilent(s, c) ==
  [s EXCEPT !.conn[c] = IF Listed(s, c) THEN FreeConn ELSE @,
            !.count = IF Listed(s, c) THEN @ - 1 ELSE @,
            !.links = SelectSeq(@, LAMBDA d : d # c)]

ListDeleteTwice(s, c) == [ListDeleteSilent(s, c) EXCEPT !.up[c] = @ - 1, !.count = @ - 1]

\* tcpsrv_list_delete.  The state is never SRVCONN_CLOSED here, so func_discon_cb is
\* called, for a client that waits or connects too.
ListDelete(s, c) ==
  [s EXCEPT !.up[c] = @ - 1,
            !.conn[c] = IF Listed(s, c) THEN FreeConn ELSE @,
            !.count = IF Listed(s, c) THEN @ - 1 ELSE @,
            !.links = IF Listed(s, c)
                      THEN Unlink(@, CHOOSE i \in DOMAIN @ : @[i] = c)
                      ELSE @]

\* tcp_abandon of a pcb whose error callback has been taken off
Abandon(s, p) == [s EXCEPT !.pcb[p] = FreePcb]

\* tcpsrv_client_reconnect: tell the application, drop the pcb, start the timer
Reconnect(s, c) ==
  LET was  == s.conn[c]
      told == IF was.st = "CLIENT"
              THEN s
              ELSE [s EXCEPT !.up[c] = @ - 1,
                             !.conn[c].st = "CLIENT",
                             !.conn[c].pcb = IF cfg.clears THEN None ELSE @]
      p    == FindPcb(told, c)
      left == IF p = None THEN told ELSE Abandon(told, p)
  IN  [left EXCEPT !.conn[c].pcb = None, !.conn[c].timer = TRUE]

\* Mutant: a client that is closed is left without a timer.
DisconnectedForGood(s, c) ==
  IF cfg.client /\ cfg.reconnect
  THEN [s EXCEPT !.conn[c].st = "CLIENT", !.conn[c].pcb = None, !.up[c] = 0]
  ELSE ListDelete(s, c)

\* tcpsrv_disconnect_successful
Disconnected(s, c) ==
  LET s1 == [s EXCEPT !.conn[c].pcb = None]
  IN  IF cfg.client /\ cfg.reconnect THEN Reconnect(s1, c) ELSE ListDelete(s1, c)

\* tcpsrv_server_close, its first part: no more callbacks
StartClose(s, c) ==
  IF s.conn[c].st = "CLOSEWAIT"
  THEN s
  ELSE [s EXCEPT !.conn[c].st = "CLOSEWAIT",
                 !.conn[c].check = 0,
                 !.pcb[s.conn[c].pcb] = Quiet(@)]

\* tcpsrv_server_close: close the pcb, or try again later
ServerClose(s, c, o) ==
  LET p == s.conn[c].pcb
      t == StartClose(s, c)
      r == t.pcb[p]
  IN  IF p = None
      THEN s
      ELSE IF r.st \in {"free", "tw"}
      THEN Disconnected(t, c)
      ELSE IF t.conn[c].check > MaxTries
      THEN Disconnected(Abandon(t, p), c)
      ELSE IF Fails(r, o)
      THEN [t EXCEPT !.pcb[p] = [Closed(r, o) EXCEPT !.poll = TRUE]]
      ELSE Disconnected([t EXCEPT !.pcb[p] = Closed(r, o)], c)

\* tcpsrv_disconnect, called from a callback of the connection
Disconnect(s, c, o) ==
  IF s.conn[c].st = "CLOSEWAIT"
  THEN s
  ELSE ServerClose([s EXCEPT !.conn[c].pcb = FindPcb(s, c)], c, o)

\* tspsrv_delete_pcb, which does not look at what tcp_close returns
DeletePcb(s, c, o) ==
  LET p == FindPcb(s, c)
      q == [Quiet(s.pcb[p]) EXCEPT !.arg = None]
  IN  ListDelete(IF p = None THEN s ELSE [s EXCEPT !.pcb[p] = Closed(q, o)], c)

\* Mutant: an error of a connection that has heard nothing yet is taken for one of the
\* connection phase.
ErrorCallbackLate(s, c) ==
  IF s.conn[c].st = "CONNECT" /\ ~cfg.client THEN ListDelete(s, c) ELSE s

\* tcpsrv_error
ErrorCallback(s, c) ==
  IF s.conn[c].st = "CLOSEWAIT"
  THEN s
  ELSE IF /\ cfg.client
          /\ \/ cfg.reconnect
             \/ /\ s.conn[c].st = "CLIENT"
                /\ cfg.max = 0 \/ s.conn[c].check < cfg.max
  THEN Reconnect([s EXCEPT !.conn[c].check = Count(@)], c)
  ELSE IF s.conn[c].pcb # None THEN ListDelete(s, c) ELSE s

\* lwIP gives a pcb up: the error callback, then the pcb is freed
LosePcb(s, p) ==
  Abandon(IF s.pcb[p].err THEN ErrorCallback(s, s.pcb[p].arg) ELSE s, p)

\* tcpsrv_client_connect with a pcb p to use
Connect(s, c, p) ==
  [s EXCEPT !.conn[c].st = "CLIENT",
            !.conn[c].pcb = p,
            !.pcb[p] = [st |-> "syn", arg |-> c, data |-> FALSE, err |-> TRUE, poll |-> TRUE]]

\* tcpsrv_client_connect: the old pcb is dropped, a new one is made and connected; fault
\* is the one that tcp_connect may meet.  A pcb that cannot be connected is abandoned
\* with its error callback set.
Attempts(s, c, fault) ==
  LET old  == FindPcb(s, c)
      t    == IF old = None THEN s ELSE Abandon(s, old)
      free == {p \in Pcbs : t.pcb[p].st = "free"}
  IN  {Connect(t, c, p) : p \in free}
      \cup {[u EXCEPT !.conn[c].pcb = None] :
              u \in (IF "tcp_new" \in cfg.faults THEN {t} ELSE {})
                    \cup (IF fault \in cfg.faults
                          THEN {LosePcb(Connect(t, c, p), p) : p \in free}
                          ELSE {})}

\* tcpsrv_client_start, after the attempt that left s: a connection that has a pcb
\* joins the list, one that has none is freed, its timer armed or not.
Admitted(s, c) ==
  IF s.conn[c].pcb # None
  THEN [s EXCEPT !.links = <<c>> \o @, !.count = @ + 1]
  ELSE [s EXCEPT !.conn[c] = [FreeConn EXCEPT !.timer = s.conn[c].timer]]

\* Some pcbs are taken off lwIP's lists and freed.
Trim(s, kill) == [s EXCEPT !.pcb = [p \in Pcbs |-> IF p \in kill THEN FreePcb ELSE @[p]]]

\* tcpsrv_check_max_tm_tcp_pcb: which TIME_WAIT pcbs are freed, those beyond MaxTW
Surplus(s) == LET tw == {p \in Pcbs : s.pcb[p].st = "tw"}
                  n  == Cardinality(tw)
              IN  {k \in SUBSET tw :
                     Cardinality(k) = IF cfg.twfree /\ n > MaxTW THEN n - MaxTW ELSE 0}

\* tcpsrv_server_accept, once there is room for the connection
Add(s, c, p) ==
  [s EXCEPT !.conn[c] = [st |-> "LISTEN", pcb |-> p, check |-> 0, timer |-> FALSE],
            !.pcb[p] = [st |-> "open", arg |-> c, data |-> TRUE, err |-> TRUE, poll |-> TRUE],
            !.links = <<c>> \o @,
            !.count = @ + 1,
            !.up[c] = 1]

\* tcpsrv_poll, for a connection that is not being closed
Expired(s, c) ==
  \/ s.conn[c].st = "LISTEN" /\ cfg.rec > 0 /\ s.conn[c].check > cfg.rec
  \/ s.conn[c].st = "CONNECT" /\ cfg.cls > 0 /\ s.conn[c].check > cfg.cls

PollCallback(s, p, c, o) ==
  LET t == [s EXCEPT !.conn[c].check = Count(@)]
      GiveUp == t.conn[c].check > (IF cfg.rec = 0 THEN MaxRetry ELSE cfg.rec)
  IN  IF s.conn[c].pcb = None \/ s.conn[c].st = "CLOSEWAIT"
      THEN ServerClose(s, c, o)
      ELSE IF s.pcb[p].st \in {"open", "shut"}
      THEN IF ~Expired(t, c) THEN t
           ELSE IF cfg.client THEN Reconnect(t, c) ELSE ServerClose(t, c, o)
      ELSE IF s.conn[c].st = "CLIENT"
      THEN IF GiveUp THEN Reconnect(t, c) ELSE t
      ELSE ServerClose(t, c, o)

(***************************************************************************)
(* The steps.                                                              *)
(***************************************************************************)
Init == /\ cfg \in Cfgs
        /\ running = FALSE
        /\ conn = [c \in Conns |-> FreeConn]
        /\ pcb = [p \in Pcbs |-> FreePcb]
        /\ links = <<>>
        /\ count = 0
        /\ up = [c \in Conns |-> 0]

\* tcpsrv_init and tcpsrv_start.  lwIP does not bind a port that a pcb still uses.
Start == /\ ~cfg.client
         /\ ~running
         /\ \A p \in Pcbs : pcb[p].st = "free"
         /\ running' = TRUE
         /\ UNCHANGED <<cfg, conn, pcb, links, count, up>>

\* tcpsrv_init and tcpsrv_client_start.  Without a connection it returns ERR_OK all the
\* same.
ClientStart ==
  /\ cfg.client
  /\ ~running
  /\ running' = TRUE
  /\ \E c \in Conns :
       /\ conn[c].st = "free"
       /\ LET new == [Now EXCEPT !.conn[c] = [FreeConn EXCEPT !.st = "CLIENT"], !.up[c] = 0]
          IN  \E s \in Attempts(new, c, "start") : Become(Admitted(s, c))
  /\ UNCHANGED cfg

\* tcpsrv_client_connect, called by the timer
ClientConnect(c) ==
  /\ conn[c].timer
  /\ \E s \in Attempts([Now EXCEPT !.conn[c].timer = FALSE], c, "connect") : Become(s)
  /\ UNCHANGED <<cfg, running>>

\* tcpsrv_connected
Connected(p) ==
  /\ pcb[p].st = "syn"
  /\ LET c == pcb[p].arg
     IN  /\ conn' = [conn EXCEPT ![c].st = "LISTEN", ![c].check = 0, ![c].timer = FALSE]
         /\ pcb' = [pcb EXCEPT ![p] = [@ EXCEPT !.st = "open", !.data = TRUE,
                                                !.err = TRUE, !.poll = TRUE]]
         /\ up' = [up EXCEPT ![c] = @ + 1]
  /\ UNCHANGED <<cfg, running, links, count>>

\* tcpsrv_server_accept.  A connection in the way is deleted before there is memory
\* for the new one.  When func_listen fails, lwIP aborts the new pcb.
ServerAccept ==
  /\ running /\ ~cfg.client
  /\ count >= cfg.max => cfg.reopen
  /\ \E o \in Outcomes :
       LET s == IF count >= cfg.max THEN DeletePcb(Now, links[1], o) ELSE Now
       IN  \/ Become(s)
           \/ \E c \in Conns, p \in Pcbs :
                /\ s.conn[c].st = "free" /\ s.pcb[p].st = "free"
                /\ LET t == Add(s, c, p)
                   IN  \E k \in Surplus(t) :
                         Become(Trim(t, k)) \/ Become(LosePcb(Trim(t, k), p))
  /\ UNCHANGED <<cfg, running>>

\* tcpsrv_server_recv and tcpsrv_server_sent: the application handles what came or
\* what was sent; the web server may close the connection (web_int_disconnect).
Heard(p) == LET c == pcb[p].arg
                s == [Now EXCEPT !.conn[c].st = "CONNECT", !.conn[c].check = 0]
            IN  /\ pcb[p].data
                /\ \/ Become(s)
                   \/ ~cfg.client /\ \E o \in Outcomes : Become(Disconnect(s, c, o))
                /\ UNCHANGED <<cfg, running>>

ServerRecv(p) == pcb[p].st = "open" /\ Heard(p)
ServerSent(p) == pcb[p].st \in {"open", "fin"} /\ Heard(p)

\* tcpsrv_server_recv with p == NULL: the peer has closed its side
RemoteClose(p) ==
  /\ pcb[p].st \in {"open", "shut"}
  /\ LET s == [Now EXCEPT !.pcb[p].st = "fin"]
     IN  IF pcb[p].data
         THEN \E o \in Outcomes : Become(ServerClose(s, pcb[p].arg, o))
         ELSE Become(s)
  /\ UNCHANGED <<cfg, running>>

\* tcpsrv_poll, from lwIP's slow timer.  It returns ERR_OK whatever it has done.
PollWith(p, o) == /\ pcb[p].st \in ActivePcb /\ pcb[p].poll
                  /\ Become(PollCallback(Now, p, pcb[p].arg, o))
                  /\ UNCHANGED <<cfg, running>>

Poll(p) == \E o \in Outcomes : PollWith(p, o)

\* The peer resets the connection, or lwIP gives up waiting for it: tcpsrv_error.
Reset(p) == /\ "rst" \in cfg.faults
            /\ pcb[p].st \in ActivePcb
            /\ Become(LosePcb(Now, p))
            /\ UNCHANGED <<cfg, running>>

\* Data comes for a connection that was closed on this side: lwIP frees the pcb.
LateData(p) == /\ pcb[p].st \in {"shut", "closing"}
               /\ (pcb[p].st = "shut" /\ pcb[p].arg # None) => "late" \in cfg.faults
               /\ Become(LosePcb(Now, p))
               /\ UNCHANGED <<cfg, running>>

\* lwIP has closed the connection in both directions, or TIME_WAIT is over.
PcbDone(p) == /\ \/ pcb[p].st = "closing" /\ pcb' \in {[pcb EXCEPT ![p] = FreePcb],
                                                       [pcb EXCEPT ![p].st = "tw"]}
                 \/ pcb[p].st = "tw" /\ pcb' = [pcb EXCEPT ![p] = FreePcb]
              /\ UNCHANGED <<cfg, running, conn, links, count, up>>

\* tcpsrv_close: tspsrv_delete_pcb for every connection of the list, tcp_close ending
\* for each as o says
Mine == {p \in Pcbs : \E c \in Conns : Listed(Now, c) /\ FindPcb(Now, c) = p}

AllDeleted(o) ==
  [conn  |-> [c \in Conns |-> IF Listed(Now, c) THEN FreeConn ELSE conn[c]],
   pcb   |-> [p \in Pcbs |-> IF p \in Mine
                             THEN Closed([Quiet(pcb[p]) EXCEPT !.arg = None], o[p])
                             ELSE pcb[p]],
   links |-> <<>>,
   count |-> count - Len(links),
   up    |-> [c \in Conns |-> IF Listed(Now, c) THEN up[c] - 1 ELSE up[c]]]

Close == /\ running
         /\ running' = FALSE
         /\ \E o \in [Mine -> Outcomes] : Become(AllDeleted(o))
         /\ UNCHANGED cfg

\* tcpsrv_close_all: then tcpsrv_delete_all_act_tcp_pcb and tcpsrv_delete_all_tm_tcp_pcb.
\* Their loops go on from a pcb that was taken off its list, whose next is NULL: each
\* deletes the first pcb of its list.
FirstActiveLost(s) == LET S == {p \in Pcbs : s.pcb[p].st \in ActivePcb}
                      IN  IF S = {} THEN {s} ELSE {LosePcb(s, p) : p \in S}

FirstTimeWait(s) == LET S == {p \in Pcbs : s.pcb[p].st = "tw"}
                    IN  IF S = {} THEN {{}} ELSE {{p} : p \in S}

CloseAll == /\ running' = FALSE
            /\ \E o \in [Mine -> Outcomes] :
                 \E s \in FirstActiveLost(AllDeleted(o)) :
                   \E k \in FirstTimeWait(s) : Become(Trim(s, k))
            /\ UNCHANGED cfg

Next == \/ Start
        \/ ClientStart
        \/ ServerAccept
        \/ Close
        \/ CloseAll
        \/ \E c \in Conns : ClientConnect(c)
        \/ \E p \in Pcbs : \/ Connected(p) \/ ServerRecv(p) \/ ServerSent(p)
                           \/ RemoteClose(p) \/ Poll(p) \/ Reset(p) \/ LateData(p)
                           \/ PcbDone(p)

Spec == Init /\ [][Next]_vars

\* lwIP's slow timer polls every pcb, and a try to close one finds memory some day.
FairSpec == /\ Spec
            /\ \A p \in Pcbs : WF_vars(PollWith(p, "closing"))

(***************************************************************************)
(* Properties.                                                             *)
(***************************************************************************)
\* What the code copes with, and the properties below need: no client that cannot even
\* start, no pcb that lwIP drops, because of a reset or of data from the peer, while its
\* connection waits for the memory to close it (that connection then waits for ever:
\* TriesAgain), and no client that forgets its pcb when it is silent for too long.
Benign == \A g \in Cfgs : /\ {"start", "late"} \cap g.faults = {}
                          /\ ~ {"close", "rst"} \subseteq g.faults
                          /\ g.client /\ g.clears => g.rec = 0 /\ g.cls = 0

\* The settings, the connections, the pcbs and the list have their types.
TypeOK == /\ cfg \in Cfgs /\ running \in BOOLEAN
          /\ conn \in [Conns -> ConnRec]
          /\ pcb \in [Pcbs -> PcbRec]
          /\ links \in Seq(Conns)
          /\ count \in Nat
          /\ up \in [Conns -> -1 .. 1]

\* conn_links holds every connection that is allocated and nothing that is freed, each
\* once, conn_count is their number, and a server never has more than max_conn
\* (tcpsrv_server_accept closes one before it opens one too many).
Accounted ==
  /\ \A c \in Conns : Listed(Now, c) <=> conn[c].st # "free"
  /\ \A i, j \in DOMAIN links : links[i] = links[j] => i = j
  /\ count = Len(links)
  /\ ~cfg.client => count <= cfg.max

\* A pcb whose data or error callbacks are set passes them the connection that uses
\* it: never one that was freed, never one that has another pcb by now.
OwnCallbacks ==
  \A p \in Pcbs : (pcb[p].data \/ pcb[p].err) =>
    \E c \in Conns : pcb[p].arg = c /\ conn[c].st # "free" /\ conn[c].pcb = p

\* The application is told of each connection that is set up and of the end of each,
\* once: func_listen was called once more than func_discon_cb for the connections that are
\* open or being closed, and as often for all others.  Only of the end of a client that is
\* deleted while it waits or connects it is told although nothing was set up: once more
\* than func_listen was called.
Told ==
  \A c \in Conns :
    up[c] \in CASE conn[c].st \in {"LISTEN", "CONNECT", "CLOSEWAIT"} -> {1}
                [] conn[c].st = "free" /\ cfg.client -> {-1, 0}
                [] OTHER -> {0}

\* The connection has a pcb in lwIP that is its own.
Alive(c) == \E p \in Pcbs : conn[c].pcb = p /\ pcb[p].arg = c /\ pcb[p].st \in ActivePcb

\* "closing failed, try again later": a connection that could not be closed has a pcb that
\* is polled, and the poll tries again.
TriesAgain ==
  \A c \in Conns : conn[c].st = "CLOSEWAIT" => Alive(c) /\ pcb[conn[c].pcb].poll

\* conn_count is "the number of current connections": one that is open has a pcb in lwIP
\* that will report what becomes of it, and one that is being closed has one that will be
\* closed again.
NoDeadConnections ==
  /\ \A c \in Conns : conn[c].st \in {"LISTEN", "CONNECT"} => Alive(c) /\ pcb[conn[c].pcb].err
  /\ TriesAgain

\* "Eternal reconnect": a client that is to reconnect for ever always has a timer
\* running or a pcb that will call back.
StillTrying ==
  \A c \in Conns : (cfg.client /\ cfg.reconnect /\ conn[c].st = "CLIENT") =>
    \/ conn[c].timer
    \/ \E p \in Pcbs : conn[c].pcb = p /\ pcb[p].arg = c /\ pcb[p].err /\ pcb[p].poll

\* Connections end: one that is being closed is closed (with the settings of Benign, where
\* lwIP does not drop its pcb first), and a peer that connects and never sends anything does
\* not keep its connection (time_wait_rec; with srv_reopen another peer may have been given
\* the structure).
CloseEnds ==
  \A c \in Conns :
    /\ conn[c].st = "CLOSEWAIT" ~> conn[c].st # "CLOSEWAIT"
    /\ (conn[c].st = "LISTEN" /\ cfg.rec > 0 /\ ~cfg.reopen) ~> conn[c].st # "LISTEN"
=============================================================================
