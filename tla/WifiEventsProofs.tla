-------------------------- MODULE WifiEventsProofs --------------------------
(***************************************************************************)
(* Theorems about the Wi-Fi events and the time client: services are open  *)
(* to whoever can reach the module and to nobody else, the station is not  *)
(* forgotten, the time client always has something pending, and never too  *)
(* much; for any settings, tables and numbers of tries and clients.        *)
(***************************************************************************)
EXTENDS WifiEvents, TLAPS

(***************************************************************************)
(* The time client.  The invariant is a property of a state t of the       *)
(* functions; calm says that the client has never been switched off.       *)
(***************************************************************************)
States == [sntp : Client, lwip : Lwip]

Count(t) == t.lwip.due["sntp_request"] + t.lwip.due["sntp_retry"] + t.lwip.lookups

\* Requests are under way only with a port, and a port is there only with the client; a
\* client that was never started has nothing pending.
ClientOk(t, calm) ==
  /\ t \in States
  /\ t.lwip.asked => t.lwip.bound
  /\ t.lwip.bound => t.sntp.on
  /\ t.sntp.on => Count(t) > 0
  /\ calm => Count(t) <= DnsTable + 1 /\ (~t.sntp.on => Count(t) = 0)

\* What is pending is a number.
LEMMA CountIs ==
  ASSUME NEW t \in States
  PROVE  /\ t.lwip.due["sntp_request"] \in Nat /\ t.lwip.due["sntp_retry"] \in Nat
         /\ t.lwip.lookups \in Nat /\ t.lwip.lookups <= DnsTable /\ Count(t) \in Nat
<1>1. t.lwip.due \in [Handlers -> Nat] /\ t.lwip.lookups \in 0 .. DnsTable
  BY DEF States, Lwip
<1>2. t.lwip.lookups \in Nat /\ t.lwip.lookups <= DnsTable  BY <1>1, SntpAssumption
<1>3. t.lwip.due["sntp_request"] \in Nat /\ t.lwip.due["sntp_retry"] \in Nat
  BY <1>1 DEF Handlers
<1> QED  BY <1>2, <1>3 DEF Count

\* No more than the timeouts are different.
SameBut(t, u) == /\ u.sntp = t.sntp /\ u.lwip.lookups = t.lwip.lookups
                 /\ u.lwip.bound = t.lwip.bound /\ u.lwip.asked = t.lwip.asked

\* A number of timeouts for a handler is changed to n.
Put(t, h, n) == [t EXCEPT !.lwip.due[h] = n]

\* That number and nothing else changes.
LEMMA PutIs ==
  ASSUME NEW t \in States, NEW h \in Handlers, NEW n \in Nat
  PROVE  /\ Put(t, h, n) \in States /\ SameBut(t, Put(t, h, n))
         /\ Put(t, h, n).lwip.due = [t.lwip.due EXCEPT ![h] = n]
         /\ Count(Put(t, h, n)) = Count(t) - t.lwip.due[h] + n
<1> DEFINE d == [t.lwip.due EXCEPT ![h] = n]
           l == [t.lwip EXCEPT !.due = d]
<1>1. t.sntp \in Client /\ t.lwip \in Lwip /\ t.lwip.due \in [Handlers -> Nat]
  BY DEF States, Lwip
<1>2. d \in [Handlers -> Nat] /\ \A k \in Handlers : d[k] = IF k = h THEN n ELSE t.lwip.due[k]
  BY <1>1
<1>3. Put(t, h, n) = [t EXCEPT !.lwip = l]  BY DEF Put
<1> HIDE DEF d
<1>4. /\ l \in Lwip /\ l.due = d /\ l.lookups = t.lwip.lookups /\ l.bound = t.lwip.bound
      /\ l.asked = t.lwip.asked
  BY <1>1, <1>2 DEF Lwip
<1> HIDE DEF l
<1>5. Put(t, h, n) \in States /\ Put(t, h, n).sntp = t.sntp /\ Put(t, h, n).lwip = l
  BY <1>1, <1>3, <1>4 DEF States
<1>6. Count(Put(t, h, n)) = Count(t) - t.lwip.due[h] + n
  <2>1. /\ t.lwip.due["sntp_request"] \in Nat /\ t.lwip.due["sntp_retry"] \in Nat
        /\ t.lwip.lookups \in Nat
    BY CountIs
  <2>2. /\ Count(Put(t, h, n)) = d["sntp_request"] + d["sntp_retry"] + t.lwip.lookups
        /\ Count(t) = t.lwip.due["sntp_request"] + t.lwip.due["sntp_retry"] + t.lwip.lookups
    BY <1>4, <1>5 DEF Count
  <2>3. h = "sntp_request" \/ h = "sntp_retry"  BY DEF Handlers
  <2>4. CASE h = "sntp_request"
    <3>1. d["sntp_request"] = n /\ d["sntp_retry"] = t.lwip.due["sntp_retry"]
      BY <1>2, <2>4 DEF Handlers
    <3> QED  BY <2>1, <2>2, <2>4, <3>1
  <2>5. CASE h = "sntp_retry"
    <3>1. d["sntp_retry"] = n /\ d["sntp_request"] = t.lwip.due["sntp_request"]
      BY <1>2, <2>5 DEF Handlers
    <3> QED  BY <2>1, <2>2, <2>5, <3>1
  <2> QED  BY <2>3, <2>4, <2>5
<1> QED  BY <1>4, <1>5, <1>6 DEF SameBut, d

\* sys_timeout
LEMMA SysTimeoutIs ==
  ASSUME NEW t \in States, NEW h \in Handlers
  PROVE  LET u == SysTimeout(t, h)
         IN  u \in States /\ SameBut(t, u) /\ Count(u) = Count(t) + 1
<1> DEFINE n == t.lwip.due[h] + 1
<1>1. t.lwip.due[h] \in Nat  BY DEF States, Lwip
<1>2. SysTimeout(t, h) = Put(t, h, n)  BY DEF SysTimeout, Put
<1>3. Count(t) \in Nat  BY CountIs
<1>4. n \in Nat /\ n = t.lwip.due[h] + 1  BY <1>1
<1> HIDE DEF n
<1>5. /\ Put(t, h, n) \in States /\ SameBut(t, Put(t, h, n))
      /\ Put(t, h, n).lwip.due = [t.lwip.due EXCEPT ![h] = n]
      /\ Count(Put(t, h, n)) = Count(t) - t.lwip.due[h] + n
  BY <1>4, PutIs
<1>6. Count(Put(t, h, n)) = Count(t) + 1  BY <1>1, <1>3, <1>4, <1>5
<1> QED  BY <1>2, <1>5, <1>6

\* sys_untimeout: one timeout less, if there was one
LEMMA SysUntimeoutIs ==
  ASSUME NEW t \in States, NEW h \in Handlers
  PROVE  LET u == SysUntimeout(t, h)
         IN  /\ u \in States /\ SameBut(t, u) /\ Count(u) \in Nat
             /\ Count(u) = Count(t) - (IF t.lwip.due[h] = 0 THEN 0 ELSE 1)
             /\ \A k \in Handlers \ {h} : u.lwip.due[k] = t.lwip.due[k]
<1> DEFINE n == IF t.lwip.due[h] = 0 THEN 0 ELSE t.lwip.due[h] - 1
<1>1. t.lwip.due[h] \in Nat /\ t.lwip.due \in [Handlers -> Nat]  BY DEF States, Lwip
<1>2. SysUntimeout(t, h) = Put(t, h, n)  BY DEF SysUntimeout, Put
<1>3. Count(t) \in Nat  BY CountIs
<1>4. n \in Nat  BY <1>1
<1>5. /\ Put(t, h, n) \in States /\ SameBut(t, Put(t, h, n))
      /\ Put(t, h, n).lwip.due = [t.lwip.due EXCEPT ![h] = n]
      /\ Count(Put(t, h, n)) = Count(t) - t.lwip.due[h] + n
  BY <1>4, PutIs
<1>6. Count(Put(t, h, n)) \in Nat  BY <1>5, CountIs
<1>7. Count(Put(t, h, n)) = Count(t) - (IF t.lwip.due[h] = 0 THEN 0 ELSE 1)
  BY <1>1, <1>3, <1>5
<1> HIDE DEF n
<1> QED  BY <1>1, <1>2, <1>5, <1>6, <1>7

\* The client's own fields and the pcb's are others.
Change(t, k, bound, asked) ==
  [t EXCEPT !.sntp = k, !.lwip.bound = bound, !.lwip.asked = asked]

\* Those fields and nothing else change.
LEMMA ChangeIs ==
  ASSUME NEW t \in States, NEW k \in Client, NEW bound \in BOOLEAN, NEW asked \in BOOLEAN
  PROVE  LET u == Change(t, k, bound, asked)
         IN  /\ u \in States /\ u.sntp = k /\ u.lwip.bound = bound /\ u.lwip.asked = asked
             /\ u.lwip.due = t.lwip.due /\ u.lwip.lookups = t.lwip.lookups
             /\ Count(u) = Count(t)
  BY DEF Change, States, Lwip, Count

\* Pending of the variables is Count of them.
LEMMA PendingIs == Pending = Count(SntpNow)
  BY DEF Pending, Count, SntpNow

\* A bigger timeout is still one.
LEMMA DoubledIs ==
  ASSUME NEW n \in 0 .. MaxTimeout
  PROVE  Doubled(n) \in 0 .. MaxTimeout
<1>1. n \in Nat /\ n <= MaxTimeout /\ MaxTimeout \in Nat  BY SntpAssumption
<1>2. CASE 2 * n <= MaxTimeout  BY <1>1, <1>2 DEF Doubled
<1>3. CASE ~(2 * n <= MaxTimeout)  BY <1>3 DEF Doubled
<1> QED  BY <1>2, <1>3

\* sntp_retry: one timeout more
LEMMA SntpRetryIs ==
  ASSUME NEW t \in States
  PROVE  LET u == SntpRetry(t)
         IN  /\ u \in States /\ u.sntp.on = t.sntp.on
             /\ u.lwip.bound = t.lwip.bound /\ u.lwip.asked = t.lwip.asked
             /\ Count(u) = Count(t) + 1
<1> DEFINE m == SysTimeout(t, "sntp_request")
           k == [m.sntp EXCEPT !.retry = Doubled(m.sntp.retry)]
<1>1. m \in States /\ SameBut(t, m) /\ Count(m) = Count(t) + 1
  BY SysTimeoutIs DEF Handlers
<1>2. SntpRetry(t) = [m EXCEPT !.sntp = k]  BY <1>1 DEF SntpRetry, States, Lwip, Client
<1> HIDE DEF m
<1>3. m.sntp \in Client /\ m.lwip \in Lwip /\ m.sntp.retry \in 0 .. MaxTimeout
  BY <1>1 DEF States, Client
<1>4. Doubled(m.sntp.retry) \in 0 .. MaxTimeout  BY <1>3, DoubledIs
<1>5. k \in Client /\ k.on = m.sntp.on  BY <1>3, <1>4 DEF Client
<1> HIDE DEF k
<1>6. /\ SntpRetry(t) \in States /\ SntpRetry(t).sntp = k /\ SntpRetry(t).lwip = m.lwip
  BY <1>1, <1>2, <1>5 DEF States
<1>7. Count(SntpRetry(t)) = Count(m)  BY <1>6 DEF Count
<1> QED  BY <1>1, <1>5, <1>6, <1>7 DEF SameBut

\* sntp_send_request: one timeout more, and perhaps a request on its way
LEMMA SntpSendRequestIs ==
  ASSUME NEW t \in States, NEW memory \in BOOLEAN, t.lwip.asked => t.lwip.bound
  PROVE  LET u == SntpSendRequest(t, memory)
         IN  /\ u \in States /\ u.sntp.on = t.sntp.on
             /\ u.lwip.asked => u.lwip.bound
             /\ u.lwip.bound => memory \/ t.lwip.bound
             /\ Count(u) = Count(t) + 1
<1>1. CASE memory
  <2> DEFINE m == SysTimeout(t, "sntp_retry")
  <2>1. m \in States /\ SameBut(t, m) /\ Count(m) = Count(t) + 1
    BY SysTimeoutIs DEF Handlers
  <2>2. m.sntp \in Client  BY <2>1 DEF States
  <2>3. SntpSendRequest(t, memory) = Change(m, m.sntp, TRUE, TRUE)
    BY <1>1, <2>1 DEF SntpSendRequest, Change, States, Lwip, Client
  <2> HIDE DEF m
  <2> DEFINE u == Change(m, m.sntp, TRUE, TRUE)
  <2>4. /\ u \in States /\ u.sntp = m.sntp /\ u.lwip.bound = TRUE /\ u.lwip.asked = TRUE
        /\ u.lwip.due = m.lwip.due /\ u.lwip.lookups = m.lwip.lookups
        /\ Count(u) = Count(m)
    BY <2>1, <2>2, ChangeIs
  <2> HIDE DEF u
  <2>5. SntpSendRequest(t, memory) = u  BY <2>3 DEF u
  <2> QED  BY <1>1, <2>1, <2>4, <2>5 DEF SameBut
<1>2. CASE ~memory
  <2> DEFINE u == SysTimeout(t, "sntp_request")
  <2>1. SntpSendRequest(t, memory) = u  BY <1>2 DEF SntpSendRequest
  <2>2. u \in States /\ SameBut(t, u) /\ Count(u) = Count(t) + 1
    BY SysTimeoutIs DEF Handlers
  <2> HIDE DEF u
  <2> QED  BY <2>1, <2>2 DEF SameBut
<1> QED  BY <1>1, <1>2

\* Without a client, a lookup or timeout can only be left over; with one, what a handler
\* leaves has one thing more pending than what it was called with.
Asks(t, u) ==
  /\ u \in States /\ u.sntp.on = t.sntp.on
  /\ u.lwip.asked => u.lwip.bound
  /\ Count(u) = Count(t) + 1

\* sntp_dns_found
LEMMA SntpDnsFoundIs ==
  ASSUME NEW t \in States, NEW found \in BOOLEAN, NEW memory \in BOOLEAN,
         t.lwip.asked => t.lwip.bound
  PROVE  Asks(t, SntpDnsFound(t, found, memory))
<1>1. CASE found  BY <1>1, SntpSendRequestIs DEF SntpDnsFound, Asks
<1>2. CASE ~found  BY <1>2, SntpRetryIs DEF SntpDnsFound, Asks
<1> QED  BY <1>1, <1>2

\* sntp_request: a request is sent, a lookup or a timeout started
LEMMA SntpRequestIs ==
  ASSUME NEW t \in States, NEW known \in BOOLEAN, NEW free \in BOOLEAN,
         NEW memory \in BOOLEAN, t.lwip.asked => t.lwip.bound,
         free => t.lwip.lookups < DnsTable
  PROVE  Asks(t, SntpRequest(t, known, free, memory))
<1>1. CASE known  BY <1>1, SntpSendRequestIs DEF SntpRequest, Asks
<1>2. CASE ~known /\ free
  <2> DEFINE l == [t.lwip EXCEPT !.lookups = t.lwip.lookups + 1]
             u == SntpRequest(t, known, free, memory)
  <2>1. u = [t EXCEPT !.lwip = l]  BY <1>2 DEF SntpRequest
  <2>2. t.sntp \in Client /\ t.lwip \in Lwip  BY DEF States
  <2>3. t.lwip.lookups + 1 \in 0 .. DnsTable  BY <1>2, CountIs, SntpAssumption
  <2>4. /\ l \in Lwip /\ l.lookups = t.lwip.lookups + 1 /\ l.due = t.lwip.due
        /\ l.asked = t.lwip.asked /\ l.bound = t.lwip.bound
    BY <2>2, <2>3 DEF Lwip
  <2> HIDE DEF l
  <2>5. u \in States /\ u.sntp = t.sntp /\ u.lwip = l  BY <2>1, <2>2, <2>4 DEF States
  <2> HIDE DEF u
  <2>6. Count(u) = Count(t) + 1  BY <2>4, <2>5, CountIs DEF Count
  <2> QED  BY <2>4, <2>5, <2>6 DEF Asks, u
<1>3. CASE ~known /\ ~free
  <2> DEFINE u == SysTimeout(t, "sntp_retry")
  <2>1. SntpRequest(t, known, free, memory) = u  BY <1>3 DEF SntpRequest
  <2>2. u \in States /\ SameBut(t, u) /\ Count(u) = Count(t) + 1
    BY SysTimeoutIs DEF Handlers
  <2> HIDE DEF u
  <2> QED  BY <2>1, <2>2 DEF SameBut, Asks
<1> QED  BY <1>1, <1>2, <1>3

\* Taking back the timeouts takes one of each back, no more: what is left is what it was,
\* less one, or the lookups alone.
LEMMA StoppedIs ==
  ASSUME NEW t \in States
  PROVE  LET u == Stopped(t)
         IN  /\ u \in States /\ SameBut(t, u)
             /\ Count(u) < Count(t) \/ Count(u) = t.lwip.lookups
<1> DEFINE m == SysUntimeout(t, "sntp_retry")
           u == SysUntimeout(m, "sntp_request")
<1>1. /\ m \in States /\ SameBut(t, m) /\ Count(m) \in Nat
      /\ Count(m) = Count(t) - (IF t.lwip.due["sntp_retry"] = 0 THEN 0 ELSE 1)
      /\ m.lwip.due["sntp_request"] = t.lwip.due["sntp_request"]
  BY SysUntimeoutIs DEF Handlers
<1> HIDE DEF m
<1>2. /\ u \in States /\ SameBut(m, u) /\ Count(u) \in Nat
      /\ Count(u) = Count(m) - (IF m.lwip.due["sntp_request"] = 0 THEN 0 ELSE 1)
  BY <1>1, SysUntimeoutIs DEF Handlers
<1> HIDE DEF u
<1>3. Stopped(t) = u  BY DEF Stopped, u, m
<1>4. Count(u) < Count(t) \/ Count(u) = t.lwip.lookups
  <2>1. Count(t) \in Nat  BY CountIs
  <2>2. CASE t.lwip.due["sntp_retry"] = 0 /\ t.lwip.due["sntp_request"] = 0
    <3>1. Count(t) = t.lwip.lookups  BY <2>2, CountIs DEF Count
    <3> QED  BY <1>1, <1>2, <2>1, <2>2, <3>1
  <2>3. CASE ~(t.lwip.due["sntp_retry"] = 0 /\ t.lwip.due["sntp_request"] = 0)
    BY <1>1, <1>2, <2>1, <2>3
  <2> QED  BY <2>2, <2>3
<1> QED  BY <1>1, <1>2, <1>3, <1>4 DEF SameBut

\* sntp_recv: there is always something pending after it, and no more than there was, or
\* than the lookups and one
LEMMA SntpRecvIs ==
  ASSUME NEW t \in States, NEW ok \in BOOLEAN
  PROVE  LET u == SntpRecv(t, ok)
         IN  /\ u \in States /\ u.sntp.on = t.sntp.on
             /\ u.lwip.bound = t.lwip.bound /\ u.lwip.asked = t.lwip.asked
             /\ Count(u) > 0
             /\ Count(u) <= Count(t) \/ Count(u) <= DnsTable + 1
<1> DEFINE m == Stopped(t)
           u == SntpRecv(t, ok)
<1>1. m \in States /\ SameBut(t, m) /\ (Count(m) < Count(t) \/ Count(m) = t.lwip.lookups)
  BY StoppedIs
<1> HIDE DEF m
<1>2. /\ u \in States /\ u.sntp.on = m.sntp.on /\ Count(u) = Count(m) + 1
      /\ u.lwip.bound = m.lwip.bound /\ u.lwip.asked = m.lwip.asked
  <2>1. CASE ok
    <3> DEFINE n == SysTimeout(m, "sntp_request")
               k == [n.sntp EXCEPT !.retry = 1, !.time = TRUE]
    <3>1. n \in States /\ SameBut(m, n) /\ Count(n) = Count(m) + 1
      BY <1>1, SysTimeoutIs DEF Handlers
    <3>2. u = [n EXCEPT !.sntp = k]  BY <2>1, <3>1 DEF SntpRecv, m, States, Client
    <3> HIDE DEF n
    <3>3. n.sntp \in Client /\ n.lwip \in Lwip  BY <3>1 DEF States
    <3>4. 1 \in 0 .. MaxTimeout  BY SntpAssumption
    <3>5. k \in Client /\ k.on = n.sntp.on  BY <3>3, <3>4 DEF Client
    <3> HIDE DEF k, u
    <3>6. u \in States /\ u.sntp = k /\ u.lwip = n.lwip  BY <3>1, <3>2, <3>5 DEF States
    <3>7. Count(u) = Count(n)  BY <3>6 DEF Count
    <3> QED  BY <3>1, <3>5, <3>6, <3>7 DEF SameBut
  <2>2. CASE ~ok
    <3>1. u = SntpRetry(m)  BY <2>2 DEF SntpRecv, m
    <3> HIDE DEF u
    <3> QED  BY <1>1, <3>1, SntpRetryIs
  <2> QED  BY <2>1, <2>2
<1>3. Count(t) \in Nat /\ Count(m) \in Nat /\ t.lwip.lookups \in Nat
  /\ t.lwip.lookups <= DnsTable
  BY <1>1, CountIs
<1> HIDE DEF u
<1>4. Count(u) > 0 /\ (Count(u) <= Count(t) \/ Count(u) <= DnsTable + 1)
  BY <1>1, <1>2, <1>3, SntpAssumption
<1> QED  BY <1>1, <1>2, <1>4 DEF SameBut, u

\* sntp_inits
LEMMA SntpInitsIs ==
  ASSUME NEW t \in States, NEW memory \in BOOLEAN, NEW calm \in BOOLEAN, ClientOk(t, calm)
  PROVE  ClientOk(SntpInits(t, memory), calm)
<1>1. CASE t.sntp.on \/ ~memory  BY <1>1 DEF SntpInits
<1>2. CASE ~t.sntp.on /\ memory
  <2> DEFINE n == SysTimeout(t, "sntp_request")
             k == [on |-> TRUE, retry |-> 1, time |-> FALSE]
             u == SntpInits(t, memory)
  <2>1. n \in States /\ SameBut(t, n) /\ Count(n) = Count(t) + 1
    BY SysTimeoutIs DEF Handlers
  <2>2. u = [n EXCEPT !.sntp = k]  BY <1>2 DEF SntpInits
  <2> HIDE DEF n
  <2>3. 1 \in 0 .. MaxTimeout  BY SntpAssumption
  <2>4. k \in Client /\ k.on  BY <2>3 DEF Client
  <2> HIDE DEF k, u
  <2>5. u \in States /\ u.sntp = k /\ u.lwip = n.lwip  BY <2>1, <2>2, <2>4 DEF States
  <2>6. Count(u) = Count(t) + 1  BY <2>1, <2>5 DEF Count
  <2>7. Count(t) \in Nat /\ (calm => Count(t) = 0)  BY <1>2, CountIs DEF ClientOk
  <2>8. ~t.lwip.bound /\ ~t.lwip.asked  BY <1>2 DEF ClientOk
  <2>9. ~u.lwip.bound /\ ~u.lwip.asked  BY <2>1, <2>5, <2>8 DEF SameBut
  <2>10. Count(u) > 0 /\ (calm => Count(u) <= DnsTable + 1)
    BY <2>6, <2>7, SntpAssumption
  <2> QED  BY <2>4, <2>5, <2>9, <2>10 DEF ClientOk, u
<1> QED  BY <1>1, <1>2

\* sntp_close, which ends the calm
LEMMA SntpCloseIs ==
  ASSUME NEW t \in States, NEW calm \in BOOLEAN, ClientOk(t, calm)
  PROVE  ClientOk(SntpClose(t), FALSE)
<1>1. CASE ~t.sntp.on  BY <1>1 DEF SntpClose, ClientOk
<1>2. CASE t.sntp.on
  <2> DEFINE n == SysUntimeout(t, "sntp_request")
             u == Change(n, NoClient, FALSE, FALSE)
  <2>1. n \in States  BY SysUntimeoutIs DEF Handlers
  <2>2. SntpClose(t) = u  BY <1>2 DEF SntpClose, Change
  <2> HIDE DEF n
  <2>3. NoClient \in Client /\ ~NoClient.on  BY SntpAssumption DEF NoClient, Client
  <2>4. u \in States /\ u.sntp = NoClient /\ ~u.lwip.bound /\ ~u.lwip.asked
    BY <2>1, <2>3, ChangeIs
  <2> HIDE DEF u
  <2> QED  BY <2>2, <2>3, <2>4 DEF ClientOk
<1> QED  BY <1>1, <1>2

(***************************************************************************)
(* The steps of the time client.  What lwIP calls was pending, so that a   *)
(* handler starts with one thing less and leaves as many as there were.    *)
(***************************************************************************)
Calm == ena.closed = 0

\* One thing less is pending when a handler is called.
Taken(u) == /\ ClientOk(SntpNow, Calm) /\ sntp.on
            /\ u \in States /\ u.sntp = sntp /\ u.lwip.bound = lwip.bound
            /\ u.lwip.asked = lwip.asked /\ Count(u) = Count(SntpNow) - 1

\* The handler asks again: what it took is pending again in another way.
LEMMA AsksKeeps ==
  ASSUME NEW u, NEW v, Taken(u), Asks(u, v), ena' = ena, SntpBecomes(v)
  PROVE  ClientOk(SntpNow', Calm')
<1>1. SntpNow' = v
  <2>1. v \in States  BY DEF Asks
  <2> QED  BY <2>1 DEF SntpNow, SntpBecomes, States
<1>2. SntpNow.sntp = sntp /\ SntpNow.lwip = lwip  BY DEF SntpNow
<1>3. v \in States /\ v.sntp.on /\ (v.lwip.asked => v.lwip.bound)
  BY DEF Asks, Taken
<1>4. Count(SntpNow) \in Nat  BY CountIs DEF Taken, ClientOk
<1>5. Count(v) = Count(SntpNow) /\ Count(SntpNow) > 0
  BY <1>2, <1>4 DEF Asks, Taken, ClientOk
<1>6. Calm' = Calm  BY DEF Calm
<1>7. Calm => Count(SntpNow) <= DnsTable + 1  BY DEF Taken, ClientOk
<1> QED  BY ONLY <1>1, <1>3, <1>5, <1>6, <1>7 DEF ClientOk

\* A timeout has run out.
LEMMA TimeoutKeeps ==
  ASSUME ClientOk(SntpNow, Calm), ena' = ena, NEW h \in Handlers, NEW known \in BOOLEAN,
         NEW free \in BOOLEAN, NEW memory \in BOOLEAN, Timeout(h, known, free, memory)
  PROVE  ClientOk(SntpNow', Calm')
<1> DEFINE n == lwip.due[h] - 1
           u == Put(SntpNow, h, n)
<1>1. SntpNow \in States /\ SntpNow.sntp = sntp /\ SntpNow.lwip = lwip
  BY DEF SntpNow, ClientOk
<1>2. lwip.due[h] \in Nat /\ lwip.due[h] > 0 /\ sntp.on
  BY <1>1 DEF Timeout, States, Lwip
<1>3. n \in Nat /\ n = lwip.due[h] - 1  BY <1>2
<1>4. [SntpNow EXCEPT !.lwip.due[h] = @ - 1] = u  BY <1>1 DEF Put
<1> HIDE DEF n
<1>5. /\ u \in States /\ SameBut(SntpNow, u)
      /\ u.lwip.due = [SntpNow.lwip.due EXCEPT ![h] = n]
      /\ Count(u) = Count(SntpNow) - SntpNow.lwip.due[h] + n
  BY <1>1, <1>3, PutIs
<1> HIDE DEF u
<1>6. Count(u) = Count(SntpNow) - 1
  <2>1. Count(SntpNow) \in Nat  BY <1>1, CountIs
  <2> QED  BY <1>1, <1>2, <1>3, <1>5, <2>1
<1>7. Taken(u)  BY <1>1, <1>2, <1>5, <1>6 DEF Taken, SameBut
<1>8. u.lwip.asked => u.lwip.bound  BY <1>1, <1>7 DEF Taken, ClientOk
<1>9. free => u.lwip.lookups < DnsTable  BY <1>1, <1>5 DEF Timeout, SameBut
<1>10. CASE h = "sntp_retry"
  <2>1. Asks(u, SntpRetry(u))  BY <1>5, <1>8, SntpRetryIs DEF Asks
  <2>2. SntpBecomes(SntpRetry(u))  BY <1>4, <1>10 DEF Timeout
  <2> QED  BY <1>7, <2>1, <2>2, AsksKeeps
<1>11. CASE h # "sntp_retry"
  <2>1. Asks(u, SntpRequest(u, known, free, memory))  BY <1>5, <1>8, <1>9, SntpRequestIs
  <2>2. SntpBecomes(SntpRequest(u, known, free, memory))  BY <1>4, <1>11 DEF Timeout
  <2> QED  BY <1>7, <2>1, <2>2, AsksKeeps
<1> QED  BY <1>10, <1>11

\* The resolver is done.
LEMMA FoundKeeps ==
  ASSUME ClientOk(SntpNow, Calm), ena' = ena, NEW found \in BOOLEAN, NEW memory \in BOOLEAN,
         Found(found, memory)
  PROVE  ClientOk(SntpNow', Calm')
<1> DEFINE n == lwip.lookups - 1
           l == [lwip EXCEPT !.lookups = n]
           u == [SntpNow EXCEPT !.lwip.lookups = @ - 1]
<1>1. SntpNow \in States /\ SntpNow.sntp = sntp /\ SntpNow.lwip = lwip
  BY DEF SntpNow, ClientOk
<1>2. lwip.lookups \in Nat /\ lwip.lookups > 0 /\ lwip.lookups <= DnsTable /\ sntp.on
  BY <1>1, CountIs DEF Found
<1>3. n \in 0 .. DnsTable /\ n = lwip.lookups - 1  BY <1>2, SntpAssumption
<1>4. u = [SntpNow EXCEPT !.lwip = l]  BY <1>1
<1> HIDE DEF n
<1>5. /\ l \in Lwip /\ l.lookups = n /\ l.due = lwip.due /\ l.bound = lwip.bound
      /\ l.asked = lwip.asked
  BY <1>1, <1>3 DEF States, Lwip
<1> HIDE DEF l, u
<1>6. u \in States /\ u.sntp = sntp /\ u.lwip = l  BY <1>1, <1>4, <1>5 DEF States
<1>7. Count(u) = Count(SntpNow) - 1
  BY <1>1, <1>2, <1>3, <1>5, <1>6, CountIs DEF Count
<1>8. Taken(u)  BY <1>1, <1>2, <1>5, <1>6, <1>7 DEF Taken
<1>9. u.lwip.asked => u.lwip.bound  BY <1>1, <1>8 DEF Taken, ClientOk
<1>10. Asks(u, SntpDnsFound(u, found, memory))  BY <1>6, <1>9, SntpDnsFoundIs
<1>11. SntpBecomes(SntpDnsFound(u, found, memory))  BY DEF Found, u
<1> QED  BY <1>8, <1>10, <1>11, AsksKeeps

\* Something comes to the port while it is bound.
LEMMA ReceivedKeeps ==
  ASSUME ClientOk(SntpNow, Calm), ena' = ena, lwip.bound, NEW ok \in BOOLEAN,
         NEW asked \in BOOLEAN, SntpBecomes(SntpRecv([SntpNow EXCEPT !.lwip.asked = asked], ok))
  PROVE  ClientOk(SntpNow', Calm')
<1> DEFINE l == [lwip EXCEPT !.asked = asked]
           u == [SntpNow EXCEPT !.lwip.asked = asked]
           v == SntpRecv(u, ok)
<1>1. /\ SntpNow \in States /\ SntpNow.sntp = sntp /\ SntpNow.lwip = lwip
      /\ lwip \in Lwip
  BY DEF SntpNow, ClientOk, States
<1>2. l \in Lwip /\ l.due = lwip.due /\ l.lookups = lwip.lookups /\ l.bound = lwip.bound
  BY <1>1 DEF Lwip
<1>3. u = [SntpNow EXCEPT !.lwip = l]  BY <1>1
<1> HIDE DEF l, u
<1>4. u \in States /\ u.sntp = sntp /\ u.lwip = l  BY <1>1, <1>2, <1>3 DEF States
<1>5. Count(u) = Count(SntpNow)  BY <1>1, <1>2, <1>4 DEF Count
<1>6. /\ v \in States /\ v.sntp.on = u.sntp.on
      /\ v.lwip.bound = u.lwip.bound /\ v.lwip.asked = u.lwip.asked
      /\ Count(v) > 0
      /\ Count(v) <= Count(u) \/ Count(v) <= DnsTable + 1
  BY <1>4, SntpRecvIs
<1>7. SntpBecomes(v)  BY DEF u
<1> HIDE DEF v
<1>8. SntpNow' = v  BY <1>6, <1>7 DEF SntpNow, SntpBecomes, States
<1>9. v.sntp.on /\ v.lwip.bound = TRUE  BY <1>1, <1>2, <1>4, <1>6 DEF ClientOk, Lwip
<1>10. Calm' = Calm /\ (Calm => Count(SntpNow) <= DnsTable + 1)  BY DEF Calm, ClientOk
<1>11. Calm => Count(v) <= DnsTable + 1
  BY <1>1, <1>4, <1>5, <1>6, <1>10, CountIs, SntpAssumption
<1> QED  BY ONLY <1>6, <1>8, <1>9, <1>10, <1>11 DEF ClientOk

\* Whatever the time client does by itself
LEMMA SntpKeeps ==
  ASSUME ClientOk(SntpNow, Calm), ena' = ena, SntpSteps, cfg \in Config
  PROVE  ClientOk(SntpNow', Calm')
<1>1. SntpNow \in States /\ SntpNow.sntp = sntp /\ SntpNow.lwip = lwip /\ lwip \in Lwip
  BY DEF SntpNow, ClientOk, States
<1>2. Starts \subseteq BOOLEAN  BY DEF Starts
<1>3. CASE SntpTimeout
  <2>1. cfg.ntp \in BOOLEAN  BY DEF Config
  <2>2. PICK h \in Handlers, m \in Starts, free \in BOOLEAN : Timeout(h, cfg.ntp, free, m)
    <3> DEFINE frees == IF "dns" \in cfg.faults THEN BOOLEAN ELSE {lwip.lookups < DnsTable}
    <3>1. frees \subseteq BOOLEAN
      <4>1. (lwip.lookups < DnsTable) \in BOOLEAN  OBVIOUS
      <4> QED  BY <4>1
    <3>2. \E h \in Handlers, m \in Starts : \E free \in frees : Timeout(h, cfg.ntp, free, m)
      BY <1>3, Zenon DEF SntpTimeout
    <3> HIDE DEF frees
    <3> QED  BY <3>1, <3>2
  <2> QED  BY <1>2, <2>1, <2>2, TimeoutKeeps
<1>4. CASE SntpFound
  <2>1. PICK f \in BOOLEAN, m \in Starts : Found(f, m)  BY <1>4 DEF SntpFound
  <2> QED  BY <1>2, <2>1, FoundKeeps
<1>5. CASE Answer
  <2>1. lwip.bound  BY <1>1, <1>5 DEF Answer, ClientOk
  <2> QED  BY <1>5, <2>1, ReceivedKeeps DEF Answer
<1>6. CASE \E ok \in BOOLEAN : Stray(ok)
  <2>1. PICK ok \in BOOLEAN : Stray(ok)  BY <1>6
  <2>2. [SntpNow EXCEPT !.lwip.asked = lwip.asked] = SntpNow  BY <1>1 DEF States, Lwip
  <2>3. lwip.asked \in BOOLEAN /\ lwip.bound  BY <1>1, <2>1 DEF Stray, Lwip
  <2>4. SntpBecomes(SntpRecv([SntpNow EXCEPT !.lwip.asked = lwip.asked], ok))
    BY <2>1, <2>2 DEF Stray
  <2> QED  BY <2>3, <2>4, ReceivedKeeps
<1>7. CASE Lose
  <2> DEFINE v == SntpNow'
  <2>1. v = [sntp |-> sntp, lwip |-> [lwip EXCEPT !.asked = FALSE]]  BY <1>7 DEF Lose, SntpNow
  <2>2. /\ v \in States /\ v.sntp = sntp /\ v.lwip.due = lwip.due /\ ~v.lwip.asked
        /\ v.lwip.lookups = lwip.lookups /\ v.lwip.bound = lwip.bound
    BY <1>1, <2>1 DEF States, Lwip
  <2> HIDE DEF v
  <2>3. Count(v) = Count(SntpNow)  BY <1>1, <2>2 DEF Count
  <2>4. Calm' = Calm  BY DEF Calm
  <2>5. ClientOk(v, Calm)  BY <1>1, <2>2, <2>3 DEF ClientOk
  <2> QED  BY <2>4, <2>5 DEF v
<1> QED  BY <1>3, <1>4, <1>5, <1>6, <1>7 DEF SntpSteps, SntpOther

(***************************************************************************)
(* The station, the soft-AP and the services                               *)
(***************************************************************************)
\* Where there is enough memory, whoever has opened the services has opened all of them;
\* a station alone has no clients, and only it sleeps; the timer of the station runs only
\* after a failure, so that it does not find that there is nothing to do.
WifiOk ==
  /\ cfg \in Cfgs /\ wifi \in Wifi /\ services \in Services
  /\ ServicesOpen
  /\ StillTrying
  /\ ("memory" \notin cfg.faults /\ services.flag) => (services.web /\ services.ports)
  /\ cfg.mode = "STATION" => wifi.num = 0
  /\ wifi.asleep => cfg.mode = "STATION"
  /\ wifi.timer => wifi.count # 0

EnaOk == ena \in [on : BOOLEAN, closed : 0 .. MaxClose]

Invariant == WifiOk /\ EnaOk /\ ClientOk(SntpNow, Calm)

\* The fields of the settings
LEMMA CfgIs ==
  ASSUME cfg \in Cfgs
  PROVE  /\ cfg \in Config /\ cfg.mode \in {"STATION", "SOFTAP", "STATIONAP"}
         /\ cfg.wait \in 0 .. 2 /\ cfg.sntp \in BOOLEAN /\ cfg.cdns \in BOOLEAN
         /\ cfg.ntp \in BOOLEAN /\ cfg.toggles \in BOOLEAN
  BY WifiAssumption DEF Config

\* The numbers that the states count with
LEMMA NumbersAre ==
  /\ MaxClients \in Nat /\ Tries \in Nat /\ Tries >= 1
  /\ 0 \in 0 .. MaxClients /\ 0 \in 0 .. Tries
  BY WifiAssumption

\* wifi_station_reconnect_off: what is not counted anew stays.
LEMMA StationReconnectOffIs ==
  ASSUME NEW w \in Wifi
  PROVE  LET u == StationReconnectOff(w)
         IN  /\ u \in Wifi /\ u.cs = w.cs /\ u.num = w.num /\ u.auto = w.auto
             /\ u.count = 0 /\ ~u.flg /\ ~u.timer /\ u.asleep = w.asleep
  BY NumbersAre DEF StationReconnectOff, Wifi

\* wifi_station_connect and wifi_station_disconnect
LEMMA StationConnectIs ==
  ASSUME NEW w \in Wifi
  PROVE  LET u == WifiStationConnect(w)
         IN  /\ u \in Wifi /\ u.cs = "CONNECTING" /\ u.num = w.num /\ u.auto = w.auto
             /\ u.count = w.count /\ u.flg = w.flg /\ u.timer = w.timer
             /\ u.asleep = w.asleep
  BY DEF WifiStationConnect, Wifi

\* wifi_station_disconnect: the station is idle.
LEMMA StationDisconnectIs ==
  ASSUME NEW w \in Wifi
  PROVE  LET u == WifiStationDisconnect(w)
         IN  /\ u \in Wifi /\ u.cs = "IDLE" /\ u.num = w.num /\ u.auto = w.auto
             /\ u.count = w.count /\ u.flg = w.flg /\ u.timer = w.timer
             /\ u.asleep = w.asleep
  BY DEF WifiStationDisconnect, Wifi

\* station_disconnected: the station goes on or is given up, and then the timer runs if it
\* is to be tried again.
LEMMA StationDisconnectedIs ==
  ASSUME cfg \in Cfgs, NEW w \in Wifi
  PROVE  LET u == StationDisconnected(w)
         IN  /\ u \in Wifi /\ u.num = w.num /\ u.auto = w.auto /\ u.flg = w.flg
             /\ u.count # 0
             /\ u.cs = w.cs \/ (u.cs = "IDLE" /\ (cfg.wait = 2 => u.timer) /\ cfg.wait # 1)
             /\ u.asleep => w.asleep \/ cfg.mode = "STATION"
<1> DEFINE c == IF w.count < Tries THEN w.count + 1 ELSE w.count
           v == [w EXCEPT !.count = c]
<1>1. w.count \in 0 .. Tries /\ w.count \in Nat  BY NumbersAre DEF Wifi
<1>2. c \in 0 .. Tries /\ c # 0  BY <1>1, NumbersAre
<1> HIDE DEF c
<1>3. /\ v \in Wifi /\ v.cs = w.cs /\ v.num = w.num /\ v.auto = w.auto /\ v.count = c
      /\ v.flg = w.flg /\ v.timer = w.timer /\ v.asleep = w.asleep
  BY <1>2 DEF Wifi
<1>4. StationDisconnected(w)
        = IF cfg.wait # 1 /\ v.count >= Tries /\ v.auto THEN GivenUp(v) ELSE v
  BY DEF StationDisconnected, c
<1> HIDE DEF v
<1>5. CASE ~(cfg.wait # 1 /\ v.count >= Tries /\ v.auto)  BY <1>2, <1>3, <1>4, <1>5
<1>6. CASE cfg.wait # 1 /\ v.count >= Tries /\ v.auto
  <2> DEFINE d == WifiStationDisconnect(v)
             timer == d.timer \/ cfg.wait > 1
             asleep == cfg.mode = "STATION"
             u == [d EXCEPT !.timer = timer, !.asleep = asleep]
  <2>1. /\ d \in Wifi /\ d.cs = "IDLE" /\ d.num = v.num /\ d.auto = v.auto
        /\ d.count = v.count /\ d.flg = v.flg /\ d.timer = v.timer
    BY <1>3, StationDisconnectIs
  <2>2. StationDisconnected(w) = u  BY <1>4, <1>6 DEF GivenUp
  <2> HIDE DEF d
  <2>3. timer \in BOOLEAN /\ asleep \in BOOLEAN /\ (cfg.wait = 2 => timer)
    BY <2>1, CfgIs DEF Wifi
  <2>4. asleep => cfg.mode = "STATION"  OBVIOUS
  <2> HIDE DEF timer, asleep
  <2>5. /\ u \in Wifi /\ u.cs = d.cs /\ u.num = d.num /\ u.auto = d.auto
        /\ u.count = d.count /\ u.flg = d.flg /\ u.timer = timer /\ u.asleep = asleep
    BY <2>1, <2>3 DEF Wifi
  <2> HIDE DEF u
  <2>6. cfg.wait \in 0 .. 2 BY CfgIs
  <2> QED  BY <1>2, <1>3, <1>6, <2>1, <2>2, <2>3, <2>4, <2>5, <2>6
<1> QED  BY <1>5, <1>6

\* close_all_service: no server is left.
LEMMA CloseAllServiceIs ==
  ASSUME NEW v \in Services, (v.web \/ v.ports) => v.flag
  PROVE  LET u == CloseAllService(v)
         IN  /\ u \in Services /\ ~u.flag /\ ~u.web /\ ~u.ports /\ u.cdns = v.cdns
  BY DEF CloseAllService, Services

\* open_all_service: where there is memory no server is missing.
LEMMA OpenAllServiceIs ==
  ASSUME NEW v \in Services, NEW flg \in {0, 1}, NEW u,
         u \in OpenAllService(v, flg)
  PROVE  /\ u \in Services /\ u.flag = TRUE /\ u.cdns = v.cdns
         /\ ("memory" \notin cfg.faults /\ (v.flag => v.web /\ v.ports)) => u.web /\ u.ports
<1>1. PICK p \in Starts, w \in Starts : u = Opened(v, flg, p, w)
  BY DEF OpenAllService
<1>2. p \in BOOLEAN /\ w \in BOOLEAN /\ ("memory" \notin cfg.faults => p /\ w)
  BY DEF Starts
<1> DEFINE ports == v.ports \/ p
           web == v.web \/ (w /\ (flg = 0 \/ ~v.flag))
<1>3. /\ ports \in BOOLEAN /\ web \in BOOLEAN
      /\ ("memory" \notin cfg.faults /\ (v.flag => v.web /\ v.ports)) => web /\ ports
  BY <1>2
<1>4. u = [v EXCEPT !.flag = TRUE, !.ports = ports, !.web = web]  BY <1>1 DEF Opened
<1> HIDE DEF ports, web
<1>5. u \in Services /\ u.flag = TRUE /\ u.cdns = v.cdns /\ u.web = web /\ u.ports = ports
  BY <1>3, <1>4 DEF Services
<1> QED  BY <1>3, <1>5

\* What concerns the stations, for the step that follows
WifiStep == WifiOk /\ cfg' = cfg

\* At the disconnection of the station the services are closed unless the soft-AP has
\* clients.
LEMMA UnservedKeeps ==
  ASSUME WifiStep, NEW w \in Wifi, wifi' = w, services' = Unserved(w, services),
         w.num = wifi.num, w.cs # "GOT_IP",
         w.asleep => cfg.mode = "STATION", w.timer => w.count # 0,
         (cfg.mode # "SOFTAP" /\ w.auto /\ cfg.wait # 0) =>
           (w.cs # "IDLE" \/ w.timer \/ (w.flg /\ w.num > 0))
  PROVE  WifiOk'
<1>1. services \in Services /\ ((services.web \/ services.ports) => services.flag)
  BY DEF WifiStep, WifiOk, ServicesOpen
<1>2. w.num \in Nat /\ w.num = wifi.num  BY NumbersAre DEF Wifi
<1>3. CASE w.num = 0
  <2> DEFINE u == CloseAllService(services)
  <2>1. u \in Services /\ ~u.flag /\ ~u.web /\ ~u.ports /\ u.cdns = services.cdns
    BY <1>1, CloseAllServiceIs
  <2>2. services' = u  BY <1>3 DEF Unserved
  <2> HIDE DEF u
  <2> QED  BY <1>2, <1>3, <2>1, <2>2 DEF WifiStep, WifiOk, ServicesOpen, StillTrying, Reached
<1>4. CASE w.num # 0
  <2>1. services' = services  BY <1>4 DEF Unserved
  <2> QED  BY <1>2, <1>4, <2>1 DEF WifiStep, WifiOk, ServicesOpen, StillTrying, Reached
<1> QED  BY <1>3, <1>4

\* EVENT_STAMODE_DISCONNECTED
LEMMA StaDisconnectedKeeps ==
  ASSUME WifiOk, StaDisconnected
  PROVE  WifiOk'
<1>1. PICK cs \in {"CONNECTING", "FAILED"} :
        /\ wifi' = StationDisconnected([wifi EXCEPT !.cs = cs])
        /\ services' = Unserved(StationDisconnected([wifi EXCEPT !.cs = cs]), services)
  BY DEF StaDisconnected
<1> DEFINE v == [wifi EXCEPT !.cs = cs]
           w == StationDisconnected(v)
<1>2. v \in Wifi /\ v.cs = cs /\ v.num = wifi.num /\ v.asleep = wifi.asleep
  BY DEF WifiOk, Wifi
<1> HIDE DEF v
<1>3. /\ w \in Wifi /\ w.num = v.num /\ w.count # 0
      /\ w.cs = v.cs \/ (w.cs = "IDLE" /\ (cfg.wait = 2 => w.timer) /\ cfg.wait # 1)
      /\ w.asleep => v.asleep \/ cfg.mode = "STATION"
  BY <1>2, StationDisconnectedIs DEF WifiOk
<1>4. wifi' = w /\ services' = Unserved(w, services)  BY <1>1 DEF v
<1> HIDE DEF w
<1>5. WifiStep /\ cfg.wait \in 0 .. 2  BY CfgIs DEF WifiStep, WifiOk, StaDisconnected
<1>6. w.asleep => cfg.mode = "STATION"  BY <1>2, <1>3 DEF WifiOk
<1>7. (cfg.wait # 0) => (w.cs # "IDLE" \/ w.timer)  BY <1>2, <1>3, <1>5
<1>8. w.cs # "GOT_IP" /\ w.num = wifi.num  BY <1>2, <1>3
<1> QED  BY <1>3, <1>4, <1>5, <1>6, <1>7, <1>8, UnservedKeeps

\* The SDK tries again.
LEMMA RetryKeeps ==
  ASSUME WifiOk, Retry
  PROVE  WifiOk'
<1> DEFINE w == WifiStationConnect(wifi)
<1>1. /\ w \in Wifi /\ w.cs = "CONNECTING" /\ w.num = wifi.num /\ w.auto = wifi.auto
      /\ w.count = wifi.count /\ w.flg = wifi.flg /\ w.timer = wifi.timer
      /\ w.asleep = wifi.asleep
  BY StationConnectIs DEF WifiOk
<1>2. wifi' = w /\ services' = services /\ cfg' = cfg /\ wifi.cs = "FAILED"  BY DEF Retry
<1> HIDE DEF w
<1> QED  BY <1>1, <1>2 DEF WifiOk, ServicesOpen, StillTrying, Reached

\* EVENT_STAMODE_CONNECTED
LEMMA StaConnectedKeeps ==
  ASSUME WifiOk, StaConnected
  PROVE  WifiOk'
<1> DEFINE w == StationReconnectOff(wifi)
<1>1. /\ w \in Wifi /\ w.cs = wifi.cs /\ w.num = wifi.num /\ w.auto = wifi.auto
      /\ w.count = 0 /\ ~w.flg /\ ~w.timer /\ w.asleep = wifi.asleep
  BY StationReconnectOffIs DEF WifiOk
<1>2. /\ wifi' = w /\ services' = services /\ cfg' = cfg
      /\ wifi.cs \in {"CONNECTING", "GOT_IP"}
  BY DEF StaConnected
<1> HIDE DEF w
<1> QED  BY <1>1, <1>2 DEF WifiOk, ServicesOpen, StillTrying, Reached

\* EVENT_STAMODE_GOT_IP
LEMMA StaGotIpKeeps ==
  ASSUME WifiOk, StaGotIp
  PROVE  WifiOk'
<1> DEFINE v == StationReconnectOff(wifi)
           w == [v EXCEPT !.cs = "GOT_IP"]
<1>1. /\ v \in Wifi /\ v.num = wifi.num /\ v.auto = wifi.auto
      /\ v.count = 0 /\ ~v.flg /\ ~v.timer /\ v.asleep = wifi.asleep
  BY StationReconnectOffIs DEF WifiOk
<1>2. wifi' = w /\ cfg' = cfg  BY DEF StaGotIp
<1> HIDE DEF v
<1>3. /\ w \in Wifi /\ w.cs = "GOT_IP" /\ w.num = wifi.num /\ ~w.timer
      /\ w.asleep = wifi.asleep
  BY <1>1 DEF Wifi
<1> HIDE DEF w
<1>4. services' \in OpenAllService(services, IF wifi.num = 0 THEN 0 ELSE 1)
  BY DEF StaGotIp
<1>5. (IF wifi.num = 0 THEN 0 ELSE 1) \in {0, 1}  OBVIOUS
<1>6. /\ services' \in Services /\ services'.flag = TRUE /\ services'.cdns = services.cdns
      /\ ("memory" \notin cfg.faults /\ (services.flag => services.web /\ services.ports))
           => services'.web /\ services'.ports
  BY <1>4, <1>5, OpenAllServiceIs DEF WifiOk
<1> QED  BY <1>2, <1>3, <1>6 DEF WifiOk, ServicesOpen, StillTrying, Reached

\* EVENT_SOFTAPMODE_STACONNECTED
LEMMA ApStaConnectedKeeps ==
  ASSUME WifiOk, ApStaConnected
  PROVE  WifiOk'
<1> DEFINE first == wifi'.num = 1 /\ wifi.cs \notin {"GOT_IP", "CONNECTING"}
           flg == IF first THEN 0 ELSE 1
<1>1. PICK v \in OpenAllService(services, flg), d \in Starts :
        services' = [v EXCEPT !.cdns = @ \/ (cfg.cdns /\ d)]
  BY DEF ApStaConnected
<1>2. flg \in {0, 1}  OBVIOUS
<1> HIDE DEF flg
<1>3. /\ v \in Services /\ v.flag = TRUE /\ v.cdns = services.cdns
      /\ ("memory" \notin cfg.faults /\ (services.flag => services.web /\ services.ports))
           => v.web /\ v.ports
  BY <1>1, <1>2, OpenAllServiceIs DEF WifiOk
<1> DEFINE cdns == v.cdns \/ (cfg.cdns /\ d)
<1>4. cdns \in BOOLEAN  BY <1>1, <1>3 DEF Services, Starts
<1>5. services' = [v EXCEPT !.cdns = cdns]  BY <1>1
<1> HIDE DEF cdns
<1>6. /\ services' \in Services /\ services'.flag = TRUE
      /\ services'.web = v.web /\ services'.ports = v.ports
  BY <1>3, <1>4, <1>5 DEF Services
<1>7. wifi' = [wifi EXCEPT !.num = wifi.num + 1] /\ wifi.num < MaxClients
  /\ cfg.mode # "STATION" /\ cfg' = cfg
  BY DEF ApStaConnected
<1>8. wifi.num \in Nat /\ wifi.num + 1 \in 0 .. MaxClients
  BY <1>7, NumbersAre DEF WifiOk, Wifi
<1>9. /\ wifi' \in Wifi /\ wifi'.num = wifi.num + 1 /\ wifi'.cs = wifi.cs
      /\ wifi'.auto = wifi.auto /\ wifi'.flg = wifi.flg /\ wifi'.timer = wifi.timer
      /\ wifi'.count = wifi.count /\ wifi'.asleep = wifi.asleep
  BY <1>7, <1>8 DEF WifiOk, Wifi
<1>10. wifi'.num > 0  BY <1>8, <1>9
<1>11. ServicesOpen'
  BY <1>3, <1>6, <1>7, <1>10 DEF WifiOk, ServicesOpen, Reached
<1> QED  BY <1>3, <1>6, <1>7, <1>8, <1>9, <1>10, <1>11 DEF WifiOk, StillTrying

\* EVENT_SOFTAPMODE_STADISCONNECTED
LEMMA ApStaDisconnectedKeeps ==
  ASSUME WifiOk, ApStaDisconnected
  PROVE  WifiOk'
<1> DEFINE n == wifi.num - 1
           w == [wifi EXCEPT !.num = n]
           v == IF n = 0 THEN [services EXCEPT !.cdns = FALSE] ELSE services
           alone == n = 0 /\ wifi.cs \notin {"CONNECTING", "GOT_IP"}
           x == WifiStationConnect(StationReconnectOff(w))
           u == CloseAllService(v)
<1>1. wifi.num \in Nat /\ wifi.num > 0 /\ n \in 0 .. MaxClients /\ n = wifi.num - 1
  BY NumbersAre DEF WifiOk, Wifi, ApStaDisconnected
<1>2. cfg' = cfg /\ cfg.mode # "STATION" /\ ~wifi.asleep
  BY <1>1 DEF ApStaDisconnected, WifiOk
<1> HIDE DEF n
<1>3. /\ w \in Wifi /\ w.num = n /\ w.cs = wifi.cs /\ w.auto = wifi.auto
      /\ w.count = wifi.count /\ w.flg = wifi.flg /\ w.timer = wifi.timer
      /\ w.asleep = wifi.asleep
  BY <1>1 DEF WifiOk, Wifi
<1>4. /\ v \in Services /\ v.flag = services.flag /\ v.web = services.web
      /\ v.ports = services.ports /\ (v.cdns => services.cdns /\ n # 0)
  BY DEF WifiOk, Services
<1>5. /\ services' = IF alone THEN u ELSE v
      /\ wifi' = IF alone /\ w.flg /\ HasStation /\ w.auto THEN x ELSE w
  BY <1>3 DEF ApStaDisconnected, n
<1>6. HasStation <=> cfg.mode # "SOFTAP"  BY <1>2 DEF HasStation
<1> HIDE DEF w, v
<1>7. /\ x \in Wifi /\ x.cs = "CONNECTING" /\ x.num = n /\ x.auto = wifi.auto
      /\ ~x.timer /\ ~x.asleep
  BY <1>2, <1>3, StationReconnectOffIs, StationConnectIs
<1>8. u \in Services /\ ~u.flag /\ ~u.web /\ ~u.ports /\ u.cdns = v.cdns
  BY <1>4, CloseAllServiceIs DEF WifiOk, ServicesOpen
<1> HIDE DEF x, u
<1>9. CASE ~alone
  <2>1. services' = v /\ wifi' = w  BY <1>5, <1>9
  <2>2. ServicesOpen'
    BY <1>1, <1>2, <1>3, <1>4, <1>9, <2>1 DEF WifiOk, ServicesOpen, Reached
  <2> QED  BY <1>1, <1>2, <1>3, <1>4, <1>9, <2>1, <2>2 DEF WifiOk, StillTrying
<1>10. CASE alone
  <2>1. services' = u /\ wifi' \in {x, w}  BY <1>5, <1>10
  <2>2. wifi'.num = 0 /\ wifi'.cs # "GOT_IP" /\ wifi' \in Wifi /\ ~wifi'.asleep
    BY <1>2, <1>3, <1>7, <1>10, <2>1
  <2>3. ServicesOpen'  BY <1>4, <1>8, <1>10, <2>1, <2>2 DEF ServicesOpen, Reached
  <2>4. StillTrying'
    <3>1. CASE w.flg /\ cfg.mode # "SOFTAP" /\ w.auto
      BY <1>5, <1>6, <1>7, <1>10, <3>1 DEF StillTrying
    <3>2. CASE ~(w.flg /\ cfg.mode # "SOFTAP" /\ w.auto)
      <4>1. wifi' = w  BY <1>5, <1>6, <3>2
      <4> QED  BY <1>2, <1>3, <3>2, <4>1 DEF WifiOk, StillTrying
    <3> QED  BY <3>1, <3>2
  <2>5. wifi'.timer => wifi'.count # 0  BY <1>3, <1>7, <2>1 DEF WifiOk
  <2> QED  BY <1>2, <1>8, <2>1, <2>2, <2>3, <2>4, <2>5 DEF WifiOk
<1> QED  BY <1>9, <1>10

\* st_disconn_timer
LEMMA StTimerKeeps ==
  ASSUME WifiOk, StTimer
  PROVE  WifiOk'
<1> DEFINE v == [wifi EXCEPT !.timer = FALSE, !.asleep = FALSE]
           z == [v EXCEPT !.count = 0]
           x == WifiStationConnect(z)
           y == [v EXCEPT !.flg = TRUE]
<1>1. /\ v \in Wifi /\ v.cs = wifi.cs /\ v.num = wifi.num /\ v.auto = wifi.auto
      /\ v.count = wifi.count /\ v.flg = wifi.flg /\ ~v.timer /\ ~v.asleep
  BY DEF WifiOk, Wifi
<1>2. wifi' = StationConnectTimer(v) /\ services' = services /\ cfg' = cfg /\ wifi.timer
  BY DEF StTimer
<1>3. wifi.count # 0 /\ wifi.num \in Nat  BY <1>2, NumbersAre DEF WifiOk, Wifi
<1> HIDE DEF v
<1>4. z \in Wifi /\ z.num = v.num /\ z.auto = v.auto /\ ~z.timer /\ ~z.asleep
  BY <1>1, NumbersAre DEF Wifi
<1>5. /\ y \in Wifi /\ y.cs = v.cs /\ y.num = v.num /\ y.auto = v.auto
      /\ y.flg = TRUE /\ ~y.timer /\ ~y.asleep
  BY <1>1 DEF Wifi
<1> HIDE DEF y, z
<1>6. x \in Wifi /\ x.cs = "CONNECTING" /\ x.num = v.num /\ ~x.timer /\ ~x.asleep
  BY <1>4, StationConnectIs
<1> HIDE DEF x
<1>7. CASE ~v.auto
  <2>1. wifi' = v  BY <1>2, <1>7 DEF StationConnectTimer
  <2> QED  BY <1>1, <1>2, <1>7, <2>1 DEF WifiOk, ServicesOpen, StillTrying, Reached
<1>8. CASE v.auto /\ v.num = 0
  <2>1. wifi' = x  BY <1>1, <1>2, <1>3, <1>8 DEF StationConnectTimer, x, z
  <2> QED
    BY <1>1, <1>2, <1>6, <1>8, <2>1 DEF WifiOk, ServicesOpen, StillTrying, Reached
<1>9. CASE v.auto /\ v.num # 0
  <2>1. wifi' = y  BY <1>1, <1>2, <1>3, <1>9 DEF StationConnectTimer, y
  <2>2. wifi'.num > 0  BY <1>1, <1>3, <1>5, <1>9, <2>1
  <2> QED
    BY <1>1, <1>2, <1>5, <1>9, <2>1, <2>2 DEF WifiOk, ServicesOpen, StillTrying, Reached
<1> QED  BY <1>7, <1>8, <1>9

\* wifi_st_aucn
LEMMA SetAutoConnectKeeps ==
  ASSUME WifiOk, SetAutoConnect
  PROVE  WifiOk'
<1> DEFINE w == StationReconnectOff(wifi)
           u == WifiStationDisconnect(w)
           z == WifiStationConnect(w)
           x == [z EXCEPT !.auto = TRUE]
           s == StationDisconnected(u)
           y == [s EXCEPT !.auto = FALSE]
           o == [u EXCEPT !.auto = FALSE]
<1>1. /\ w \in Wifi /\ w.num = wifi.num /\ w.auto = wifi.auto
      /\ w.count = 0 /\ ~w.flg /\ ~w.timer /\ w.asleep = wifi.asleep
  BY StationReconnectOffIs DEF WifiOk
<1>2. Reached /\ ~wifi.asleep /\ cfg.mode # "SOFTAP" /\ cfg' = cfg
  BY DEF SetAutoConnect, HasStation
<1>3. IF ~wifi.auto
      THEN wifi' = x /\ services' = services
      ELSE IF wifi.cs = "GOT_IP"
      THEN wifi' = y /\ services' = Unserved(u, services)
      ELSE wifi' = o /\ services' = services
  BY DEF SetAutoConnect
<1> HIDE DEF w
<1>4. /\ u \in Wifi /\ u.cs = "IDLE" /\ u.num = wifi.num /\ ~u.timer /\ ~u.asleep
  BY <1>1, <1>2, StationDisconnectIs
<1>5. /\ z \in Wifi /\ z.cs = "CONNECTING" /\ z.num = wifi.num /\ ~z.timer /\ ~z.asleep
  BY <1>1, <1>2, StationConnectIs
<1> HIDE DEF u, z
<1>6. /\ x \in Wifi /\ x.cs = "CONNECTING" /\ x.num = wifi.num /\ ~x.timer /\ ~x.asleep
  BY <1>5 DEF Wifi
<1>7. /\ o \in Wifi /\ o.cs = "IDLE" /\ o.num = wifi.num /\ ~o.timer /\ ~o.asleep
      /\ ~o.auto
  BY <1>4 DEF Wifi
<1>8. /\ s \in Wifi /\ s.cs = "IDLE" /\ s.num = wifi.num /\ s.count # 0
      /\ (s.asleep => cfg.mode = "STATION")
  BY <1>4, StationDisconnectedIs DEF WifiOk
<1> HIDE DEF s
<1>9. /\ y \in Wifi /\ y.cs = "IDLE" /\ y.num = wifi.num /\ y.count # 0 /\ ~y.auto
      /\ (y.asleep => cfg.mode = "STATION")
  BY <1>8 DEF Wifi
<1> HIDE DEF x, y, o
<1>10. CASE ~wifi.auto
  <2>1. wifi' = x /\ services' = services  BY <1>3, <1>10
  <2> QED  BY <1>2, <1>6, <2>1 DEF WifiOk, ServicesOpen, StillTrying, Reached
<1>11. CASE wifi.auto /\ wifi.cs = "GOT_IP"
  <2>1. wifi' = y /\ services' = Unserved(u, services)  BY <1>3, <1>11
  <2>2. services' = Unserved(y, services)  BY <1>4, <1>9, <2>1 DEF Unserved
  <2>3. WifiStep  BY <1>2 DEF WifiStep
  <2> QED  BY <1>9, <2>1, <2>2, <2>3, UnservedKeeps
<1>12. CASE wifi.auto /\ wifi.cs # "GOT_IP"
  <2>1. wifi' = o /\ services' = services  BY <1>3, <1>12
  <2>2. wifi.num > 0  BY <1>2, <1>12 DEF Reached
  <2> QED  BY <1>2, <1>7, <1>12, <2>1, <2>2 DEF WifiOk, ServicesOpen, StillTrying, Reached
<1>13. wifi.auto \in BOOLEAN  BY DEF WifiOk, Wifi
<1> QED  BY <1>10, <1>11, <1>12, <1>13

\* The client is started with the services, or is there, or is not wanted.
LEMMA StartClientKeeps ==
  ASSUME ClientOk(SntpNow, Calm), ena' = ena, StartClient
  PROVE  ClientOk(SntpNow', Calm')
<1>1. Calm \in BOOLEAN /\ Calm' = Calm  BY DEF Calm
<1>2. CASE ena.on /\ ~sntp.time
  <2>1. PICK m \in Starts : SntpBecomes(SntpInits(SntpNow, m))  BY <1>2 DEF StartClient
  <2>2. m \in BOOLEAN  BY DEF Starts
  <2> DEFINE v == SntpInits(SntpNow, m)
  <2>3. SntpNow \in States  BY DEF ClientOk
  <2>4. ClientOk(v, Calm)  BY <1>1, <2>2, <2>3, SntpInitsIs
  <2>5. v \in States /\ SntpBecomes(v)  BY <2>1, <2>4 DEF ClientOk
  <2> HIDE DEF v
  <2>6. SntpNow' = v  BY <2>5 DEF SntpNow, SntpBecomes, States
  <2> QED  BY <1>1, <2>4, <2>6
<1>3. CASE ~(ena.on /\ ~sntp.time)
  <2>1. SntpNow' = SntpNow  BY <1>3 DEF StartClient, sntpVars, SntpNow
  <2> QED  BY <1>1, <2>1
<1> QED  BY <1>2, <1>3

\* sys_sntp
LEMMA SetSntpKeeps ==
  ASSUME Invariant, SetSntp
  PROVE  EnaOk' /\ ClientOk(SntpNow', Calm')
<1>1. /\ SntpNow \in States /\ ClientOk(SntpNow, Calm) /\ Calm \in BOOLEAN
      /\ ena \in [on : BOOLEAN, closed : 0 .. MaxClose]
  BY DEF Invariant, ClientOk, EnaOk, Calm
<1>2. CASE ena.on
  <2> DEFINE n == ena.closed + 1
             v == SntpClose(SntpNow)
  <2>1. /\ ena.closed < MaxClose /\ ena' = [on |-> FALSE, closed |-> n]
        /\ SntpBecomes(v)
    BY <1>2 DEF SetSntp
  <2>2. ena.closed \in Nat /\ n \in 0 .. MaxClose /\ n # 0
    BY <1>1, <2>1, WifiAssumption
  <2> HIDE DEF n
  <2>3. EnaOk' /\ ~Calm'  BY <2>1, <2>2 DEF EnaOk, Calm
  <2>4. ClientOk(v, FALSE)  BY <1>1, SntpCloseIs
  <2>5. v \in States  BY <2>4 DEF ClientOk
  <2> HIDE DEF v
  <2>6. SntpNow' = v  BY <2>1, <2>5 DEF SntpNow, SntpBecomes, States
  <2> QED  BY <2>3, <2>4, <2>6 DEF ClientOk
<1>3. CASE ~ena.on
  <2>1. PICK m \in Starts : SntpBecomes(SntpInits(SntpNow, m))  BY <1>3 DEF SetSntp
  <2>2. m \in BOOLEAN  BY DEF Starts
  <2> DEFINE v == SntpInits(SntpNow, m)
  <2>3. ena' = [ena EXCEPT !.on = TRUE]  BY <1>3 DEF SetSntp
  <2>4. EnaOk' /\ Calm' = Calm  BY <1>1, <2>3 DEF EnaOk, Calm
  <2>5. ClientOk(v, Calm)  BY <1>1, <2>2, SntpInitsIs
  <2>6. v \in States /\ SntpBecomes(v)  BY <2>1, <2>5 DEF ClientOk
  <2> HIDE DEF v
  <2>7. SntpNow' = v  BY <2>6 DEF SntpNow, SntpBecomes, States
  <2> QED  BY <2>4, <2>5, <2>7
<1> QED  BY <1>2, <1>3

\* A client that is not there, with nothing pending
LEMMA NothingPending ==
  ASSUME NEW v, v = [sntp |-> NoClient, lwip |-> NoLwip], NEW calm \in BOOLEAN
  PROVE  ClientOk(v, calm)
<1>1. NoClient \in Client /\ ~NoClient.on  BY SntpAssumption DEF NoClient, Client
<1>2. NoLwip \in Lwip /\ ~NoLwip.asked /\ ~NoLwip.bound /\ NoLwip.lookups = 0
  BY SntpAssumption DEF NoLwip, Lwip
<1>3. NoLwip.due["sntp_request"] = 0 /\ NoLwip.due["sntp_retry"] = 0
  BY DEF NoLwip, Handlers
<1>4. v \in States /\ v.sntp = NoClient /\ v.lwip = NoLwip  BY <1>1, <1>2 DEF States
<1> HIDE DEF NoClient
<1>5. Count(v) = 0
  <2> DEFINE l == v.lwip
  <2>1. /\ l.due["sntp_request"] = 0 /\ l.due["sntp_retry"] = 0 /\ l.lookups = 0
    BY <1>2, <1>3, <1>4
  <2> QED  BY <2>1 DEF Count
<1>6. ~v.sntp.on /\ ~v.lwip.asked /\ ~v.lwip.bound  BY <1>1, <1>2, <1>4
<1>7. 0 <= DnsTable + 1  BY SntpAssumption
<1> QED  BY ONLY <1>4, <1>5, <1>6, <1>7 DEF ClientOk

\* What the chip starts with
LEMMA FreshIs ==
  ASSUME cfg \in Cfgs,
         wifi = [cs |-> IF cfg.mode = "SOFTAP" THEN "IDLE" ELSE "CONNECTING", num |-> 0,
                 auto |-> TRUE, count |-> 0, flg |-> FALSE, timer |-> FALSE,
                 asleep |-> FALSE],
         services = NoServices
  PROVE  WifiOk
<1>1. wifi \in Wifi  BY NumbersAre DEF Wifi
<1>2. wifi.num = 0 /\ wifi.cs # "GOT_IP" /\ ~wifi.asleep /\ ~wifi.timer
  OBVIOUS
<1>3. cfg.mode # "SOFTAP" => wifi.cs = "CONNECTING"  OBVIOUS
<1>4. /\ services \in Services /\ ~services.flag /\ ~services.web /\ ~services.ports
      /\ ~services.cdns
  BY DEF NoServices, Services
<1> QED  BY ONLY <1>1, <1>2, <1>3, <1>4, cfg \in Cfgs DEF WifiOk, ServicesOpen, StillTrying, Reached

\* The initial states
LEMMA Initially ==
  ASSUME Init
  PROVE  Invariant
<1>1. WifiOk  BY FreshIs DEF Init
<1>2. cfg.sntp \in BOOLEAN /\ ena = [on |-> cfg.sntp, closed |-> 0]  BY CfgIs DEF Init
<1>3. EnaOk  BY <1>2, WifiAssumption DEF EnaOk
<1>4. SntpNow = [sntp |-> NoClient, lwip |-> NoLwip]  BY DEF Init, SntpInit, SntpNow
<1>5. Calm \in BOOLEAN  BY DEF Calm
<1>6. ClientOk(SntpNow, Calm)  BY <1>4, <1>5, NothingPending
<1> QED  BY <1>1, <1>3, <1>6 DEF Invariant

\* The chip restarts.
LEMMA RestartKeeps ==
  ASSUME Invariant, Restart
  PROVE  Invariant'
<1>1. cfg' = cfg /\ cfg \in Cfgs  BY DEF Restart, Invariant, WifiOk
<1>2. WifiOk'
  <2>1. /\ wifi' = [cs |-> IF cfg'.mode = "SOFTAP" THEN "IDLE" ELSE "CONNECTING",
                    num |-> 0, auto |-> TRUE, count |-> 0, flg |-> FALSE,
                    timer |-> FALSE, asleep |-> FALSE]
        /\ services' = NoServices
    BY <1>1 DEF Restart
  <2>2. wifi' \in Wifi  BY <2>1, NumbersAre DEF Wifi
  <2>3. wifi'.num = 0 /\ wifi'.cs # "GOT_IP" /\ ~wifi'.asleep /\ ~wifi'.timer
    BY <2>1
  <2>4. cfg'.mode # "SOFTAP" => wifi'.cs = "CONNECTING"  BY <2>1
  <2>5. /\ services' \in Services /\ ~services'.flag /\ ~services'.web /\ ~services'.ports
        /\ ~services'.cdns
    BY <2>1 DEF NoServices, Services
  <2> QED  BY ONLY <1>1, <2>2, <2>3, <2>4, <2>5 DEF WifiOk, ServicesOpen, StillTrying, Reached
<1>3. ena' = [ena EXCEPT !.on = cfg.sntp] /\ cfg.sntp \in BOOLEAN
  BY <1>1, CfgIs DEF Restart
<1>4. EnaOk'  BY <1>3 DEF Invariant, EnaOk
<1>5. SntpNow' = [sntp |-> NoClient, lwip |-> NoLwip]  BY DEF Restart, Fatal, SntpNow
<1>6. Calm' \in BOOLEAN  BY DEF Calm
<1>7. ClientOk(SntpNow', Calm')  BY <1>5, <1>6, NothingPending
<1> QED  BY <1>2, <1>4, <1>7 DEF Invariant

\* A step that leaves the time client and its switch alone
LEMMA ClientAlone ==
  ASSUME Invariant, ena' = ena, sntp' = sntp, lwip' = lwip
  PROVE  EnaOk' /\ ClientOk(SntpNow', Calm')
<1>1. SntpNow' = SntpNow /\ Calm' = Calm  BY DEF SntpNow, Calm
<1> QED  BY <1>1 DEF Invariant, EnaOk

\* A step that leaves the stations and the services alone
LEMMA WifiAlone ==
  ASSUME WifiOk, cfg' = cfg, wifi' = wifi, services' = services
  PROVE  WifiOk'
  BY DEF WifiOk, ServicesOpen, StillTrying, Reached

\* Every step keeps the invariant.
LEMMA Stepwise ==
  ASSUME Invariant, [Next]_vars
  PROVE  Invariant'
<1>1. CASE StaDisconnected
  <2>1. ena' = ena /\ sntp' = sntp /\ lwip' = lwip  BY <1>1 DEF StaDisconnected
  <2> QED  BY <1>1, <2>1, StaDisconnectedKeeps, ClientAlone DEF Invariant
<1>2. CASE Retry
  <2>1. ena' = ena /\ sntp' = sntp /\ lwip' = lwip  BY <1>2 DEF Retry
  <2> QED  BY <1>2, <2>1, RetryKeeps, ClientAlone DEF Invariant
<1>3. CASE StaConnected
  <2>1. ena' = ena /\ sntp' = sntp /\ lwip' = lwip  BY <1>3 DEF StaConnected
  <2> QED  BY <1>3, <2>1, StaConnectedKeeps, ClientAlone DEF Invariant
<1>4. CASE StaGotIp
  <2>1. ena' = ena /\ StartClient  BY <1>4 DEF StaGotIp
  <2>2. EnaOk'  BY <2>1 DEF Invariant, EnaOk
  <2> QED  BY <1>4, <2>1, <2>2, StaGotIpKeeps, StartClientKeeps DEF Invariant
<1>5. CASE ApStaConnected
  <2>1. ena' = ena /\ StartClient  BY <1>5 DEF ApStaConnected
  <2>2. EnaOk'  BY <2>1 DEF Invariant, EnaOk
  <2> QED  BY <1>5, <2>1, <2>2, ApStaConnectedKeeps, StartClientKeeps DEF Invariant
<1>6. CASE ApStaDisconnected
  <2>1. ena' = ena /\ sntp' = sntp /\ lwip' = lwip  BY <1>6 DEF ApStaDisconnected
  <2> QED  BY <1>6, <2>1, ApStaDisconnectedKeeps, ClientAlone DEF Invariant
<1>7. CASE StTimer
  <2>1. ena' = ena /\ sntp' = sntp /\ lwip' = lwip  BY <1>7 DEF StTimer
  <2> QED  BY <1>7, <2>1, StTimerKeeps, ClientAlone DEF Invariant
<1>8. CASE SetAutoConnect
  <2>1. ena' = ena /\ sntp' = sntp /\ lwip' = lwip  BY <1>8 DEF SetAutoConnect
  <2> QED  BY <1>8, <2>1, SetAutoConnectKeeps, ClientAlone DEF Invariant
<1>9. CASE SetSntp
  <2>1. cfg' = cfg /\ wifi' = wifi /\ services' = services  BY <1>9 DEF SetSntp
  <2> QED  BY <1>9, <2>1, SetSntpKeeps, WifiAlone DEF Invariant
<1>10. CASE Restart  BY <1>10, RestartKeeps
<1>11. CASE SntpSteps /\ UNCHANGED <<cfg, wifi, services, ena>>
  <2>1. /\ cfg' = cfg /\ wifi' = wifi /\ services' = services /\ ena' = ena
        /\ cfg \in Config
    BY <1>11, CfgIs DEF Invariant, WifiOk
  <2>2. EnaOk'  BY <2>1 DEF Invariant, EnaOk
  <2> QED  BY <1>11, <2>1, <2>2, SntpKeeps, WifiAlone DEF Invariant
<1>12. CASE UNCHANGED vars
  <2>1. /\ cfg' = cfg /\ wifi' = wifi /\ services' = services /\ ena' = ena
        /\ sntp' = sntp /\ lwip' = lwip
    BY <1>12 DEF vars
  <2> QED  BY <2>1, WifiAlone, ClientAlone DEF Invariant
<1> QED
  BY <1>1, <1>2, <1>3, <1>4, <1>5, <1>6, <1>7, <1>8, <1>9, <1>10, <1>11, <1>12 DEF Next

(***************************************************************************)
(* The theorems                                                            *)
(***************************************************************************)
\* The invariant holds always.
THEOREM Invariance == Spec => []Invariant
<1>1. Init => Invariant  BY Initially
<1>2. Invariant /\ [Next]_vars => Invariant'  BY Stepwise
<1> QED  BY <1>1, <1>2, PTL DEF Spec

\* What the invariant says of the client, for the variables
LEMMA ClientIs ==
  ASSUME Invariant
  PROVE  SntpTypeOK /\ StillAsking /\ Bounded
<1>1. SntpNow \in States /\ SntpNow.sntp = sntp /\ SntpNow.lwip = lwip
  BY DEF Invariant, ClientOk, SntpNow
<1>2. SntpTypeOK  BY <1>1 DEF SntpTypeOK, States
<1>3. StillAsking  BY <1>1, PendingIs DEF Invariant, ClientOk, StillAsking
<1>4. Bounded  BY <1>1, PendingIs DEF Invariant, ClientOk, Bounded, Calm
<1> QED  BY <1>2, <1>3, <1>4

\* The states are states of the program: connection, counters, timers, services and what
\* lwIP will call stay in their ranges.
THEOREM TypeCorrect == Spec => []TypeOK
<1>1. Invariant => TypeOK  BY ClientIs DEF Invariant, WifiOk, EnaOk, TypeOK
<1> QED  BY <1>1, Invariance, PTL

\* Whoever can reach the module finds the services open, and when nobody can, none is left
\* running: through every order of events of the station and of the soft-AP's clients.
THEOREM ServicesFollow == Spec => []ServicesOpen
<1>1. Invariant => ServicesOpen  BY DEF Invariant, WifiOk
<1> QED  BY <1>1, Invariance, PTL

\* A station that is to connect by itself is never forgotten, however the retries, the
\* timer and the clients of the soft-AP that hold it off follow each other.
THEOREM StationTries == Spec => []StillTrying
<1>1. Invariant => StillTrying  BY DEF Invariant, WifiOk
<1> QED  BY <1>1, Invariance, PTL

\* The time client never falls asleep: something is always pending that asks again.
THEOREM ClientAsks == Spec => []StillAsking
<1>1. Invariant => StillAsking  BY ClientIs
<1> QED  BY <1>1, Invariance, PTL

\* As long as the client has not been stopped, timeouts and lookups do not pile up,
\* whatever packets come in between, for a resolver's table of any size.
THEOREM FewPending == Spec => []Bounded
<1>1. Invariant => Bounded  BY ClientIs
<1> QED  BY <1>1, Invariance, PTL
=============================================================================
