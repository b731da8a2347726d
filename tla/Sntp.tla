-------------------------------- MODULE Sntp --------------------------------
(***************************************************************************)
(* The time client, app/web/sntp.c, on top of lwIP's timeouts and lookups: *)
(* ask for the address, ask for the time, ask again when nothing comes.    *)
(*                                                                         *)
(* Nothing says in which state of this the client is but what is pending:  *)
(* timeouts that will call sntp_request or sntp_retry                      *)
(* (sntp_try_next_server, with one server) and lookups that will call      *)
(* sntp_dns_found.  They belong to lwIP, have no argument and know nothing *)
(* of the client's structure.  How long a timeout runs is left out: those  *)
(* pending come in any order.                                              *)
(***************************************************************************)
EXTENDS Naturals

CONSTANTS DnsTable,   \* DNS_TABLE_SIZE: lookups that can be pending
          MaxTimeout  \* SNTP_RETRY_TIMEOUT_MAX / SNTP_RETRY_TIMEOUT

ASSUME SntpAssumption == DnsTable \in Nat /\ MaxTimeout \in Nat \ {0}

VARIABLES sntp,  \* struct ssntp, if it is allocated
          lwip   \* what lwIP will call, and the network behind it

sntpVars == <<sntp, lwip>>

\* retry: sntp_retry_timeout in multiples of SNTP_RETRY_TIMEOUT; time: is the time known?
Client == [on : BOOLEAN, retry : 0 .. MaxTimeout, time : BOOLEAN]

Handlers == {"sntp_request", "sntp_retry"}

\* due: how many timeouts will call each handler; lookups: how many will call
\* sntp_dns_found; bound: does the pcb have a port?  asked: is a request on its way that
\* may be answered?
Lwip == [due : [Handlers -> Nat], lookups : 0 .. DnsTable, bound : BOOLEAN, asked : BOOLEAN]

NoClient == [on |-> FALSE, retry |-> 0, time |-> FALSE]
NoLwip == [due |-> [h \in Handlers |-> 0], lookups |-> 0, bound |-> FALSE, asked |-> FALSE]

\* The operators below take a state to the state, or the set of states, they leave.
SntpNow == [sntp |-> sntp, lwip |-> lwip]
SntpBecomes(t) == sntp' = t.sntp /\ lwip' = t.lwip

(******************************** lwIP *************************************)
SysTimeout(t, h) == [t EXCEPT !.lwip.due[h] = @ + 1]

\* The first one in the list, if there is one
SysUntimeout(t, h) == [t EXCEPT !.lwip.due[h] = IF @ = 0 THEN 0 ELSE @ - 1]

(***************************** the functions *******************************)
\* Mutant: no limit.
DoubledAlways(n) == 2 * n

Doubled(n) == IF 2 * n <= MaxTimeout THEN 2 * n ELSE n

SntpRetry(t) == [SysTimeout(t, "sntp_request") EXCEPT !.sntp.retry = Doubled(@)]

\* Out of memory for the request: ask again later.
SntpSendRequest(t, memory) ==
  IF memory THEN [SysTimeout(t, "sntp_retry") EXCEPT !.lwip.bound = TRUE, !.lwip.asked = TRUE]
  ELSE SysTimeout(t, "sntp_request")

\* Mutant: gives up when the name is not found.
SntpDnsFoundGivesUp(t, found, memory) == IF found THEN SntpSendRequest(t, memory) ELSE t

SntpDnsFound(t, found, memory) ==
  IF found THEN SntpSendRequest(t, memory) ELSE SntpRetry(t)

\* known: has DHCP told the server's address?  free: is there room for a lookup?
SntpRequest(t, known, free, memory) ==
  CASE known -> SntpSendRequest(t, memory)
    [] ~known /\ free -> [t EXCEPT !.lwip.lookups = @ + 1]
    [] OTHER -> SysTimeout(t, "sntp_retry")

\* "packet received: stop retry timeout"
Stopped(t) == SysUntimeout(SysUntimeout(t, "sntp_retry"), "sntp_request")

\* Mutant: does not reckon with an answer that comes too late.
SntpRecvOnce(t, ok) ==
  LET u == SysUntimeout(t, "sntp_retry")
  IN IF ok THEN [SysTimeout(u, "sntp_request") EXCEPT !.sntp.retry = 1, !.sntp.time = TRUE]
     ELSE SntpRetry(u)

\* Mutant: what is not an answer ends it.
SntpRecvDeaf(t, ok) ==
  IF ok THEN [SysTimeout(Stopped(t), "sntp_request") EXCEPT !.sntp.retry = 1, !.sntp.time = TRUE]
  ELSE Stopped(t)

\* Whatever comes is taken for the answer (SNTP_CHECK_RESPONSE = 0); one that is none, or
\* a kiss of death, is answered by asking again.
SntpRecv(t, ok) ==
  IF ok THEN [SysTimeout(Stopped(t), "sntp_request") EXCEPT !.sntp.retry = 1, !.sntp.time = TRUE]
  ELSE SntpRetry(Stopped(t))

\* Returns TRUE at once when the client is there.
SntpInits(t, memory) ==
  IF t.sntp.on \/ ~memory THEN t
  ELSE [SysTimeout(t, "sntp_request") EXCEPT !.sntp = [on |-> TRUE, retry |-> 1, time |-> FALSE]]

\* Only sntp_request is taken back: sntp_retry and sntp_dns_found stay pending.
SntpClose(t) ==
  IF ~t.sntp.on THEN t
  ELSE [SysUntimeout(t, "sntp_request") EXCEPT !.sntp = NoClient, !.lwip.bound = FALSE,
                                               !.lwip.asked = FALSE]

(******************************* the steps *********************************)
SntpInit == sntp = NoClient /\ lwip = NoLwip

\* A timeout has run out.  known, free and memory as in SntpRequest.
Timeout(h, known, free, memory) ==
  /\ lwip.due[h] > 0 /\ sntp.on
  /\ free => lwip.lookups < DnsTable
  /\ LET t == [SntpNow EXCEPT !.lwip.due[h] = @ - 1]
     IN SntpBecomes(IF h = "sntp_retry" THEN SntpRetry(t)
                    ELSE SntpRequest(t, known, free, memory))

\* The resolver is done with a lookup.
Found(found, memory) ==
  /\ lwip.lookups > 0 /\ sntp.on
  /\ SntpBecomes(SntpDnsFound([SntpNow EXCEPT !.lwip.lookups = @ - 1], found, memory))

\* The server answers a request.
Answer ==
  /\ lwip.asked
  /\ SntpBecomes(SntpRecv([SntpNow EXCEPT !.lwip.asked = FALSE], TRUE))

\* Anything else that comes to the port: an answer given twice, a broadcast, a kiss of
\* death.
Stray(ok) == lwip.bound /\ SntpBecomes(SntpRecv(SntpNow, ok))

\* The request or its answer is lost.
Lose == lwip.asked /\ lwip' = [lwip EXCEPT !.asked = FALSE] /\ UNCHANGED sntp

\* A timeout or a lookup ends and the structure is not there: the handler reads through
\* the pointer NULL, which is a fatal exception and restarts the chip.
Orphaned == ~sntp.on /\ (lwip.lookups > 0 \/ \E h \in Handlers : lwip.due[h] > 0)
Fatal == Orphaned /\ sntp' = NoClient /\ lwip' = NoLwip

(****************************** properties *********************************)
Pending == lwip.due["sntp_request"] + lwip.due["sntp_retry"] + lwip.lookups

SntpTypeOK == sntp \in Client /\ lwip \in Lwip

\* The client never falls asleep: as long as it is started, a timeout or a lookup is
\* pending that leads to the next request, whatever came, was lost or could not be sent.
\* Nothing else would start it again, as sntp_inits does nothing when sntp_pcb is there.
StillAsking == sntp.on => Pending > 0

\* When the client is stopped nothing of it is left behind that will be called.
ClosedIsQuiet == ~Orphaned
=============================================================================
