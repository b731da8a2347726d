# A TLA+ model of esp8266web

Specifications of the firmware in `src/` (pvvx/esp8266web: a web server, a TCP-UART
bridge and a Modbus gateway for the ESP8266), model-checked with TLC and partly proved
with TLAPS.  Paths below are relative to `src/`.

- [The system](#the-system): the inventory
- [Modules](#modules): what models what
- [Runs](#runs): what TLC checks, the bounds, the fairness
- [Proofs](#proofs)
- [Where the code and its documentation disagree](#where-the-code-and-its-documentation-disagree)
- [Not modelled](#not-modelled)
- [Plan](#plan)

## The system

The firmware is one image with no operating system.  Code runs in *tasks* of the ROM
scheduler (`app/sdklib/system/ets_run_new.c`): a task runs a callback to its end before a
task of the same or a lower priority runs again, so the callbacks of lwIP, of the timers
and of the program are atomic with respect to each other.  Only interrupt handlers (UART,
RS-485, timers of the hardware) run between two instructions of a callback.  Power may
fail at any instruction; the settings in flash are all that survives.

| component | source | state it keeps | operations | talks to |
|---|---|---|---|---|
| settings store | `app/web/flash_eep.c` | flash sectors of records, a sequence word each | `flash_save_cfg`, `flash_read_cfg`, packing | everybody who keeps settings calls it; it calls the SPI driver |
| SPI flash driver | `app/sdklib/system/spi_flash.c` | flash | erase, write, read | ROM |
| TCP connection manager | `app/web/tcp_srv_conn.c` | a list of `TCP_SERV_CFG`, each with a list of connections, their states, counters and timers | start, accept, connect, receive, send, poll, close, reconnect | lwIP calls it back; it calls the callbacks of the web server, the UART bridge, Modbus |
| lwIP | `app/sdklib/lwip` (vendored) | pcbs | TCP | the Wi-Fi library |
| RS-485 driver | `app/driver/rs485drv.c` | flags, two timers, a queue of messages, the UART's FIFO | receive and transmit a frame, pause between frames, time-out of an answer | UART interrupt, its own task, Modbus |
| Modbus | `app/mdbtcp/*.c` | transactors with counters, pending messages, the gateway's connection | requests, answers, periodic transactions, registers | the RS-485 driver, the TCP manager |
| TCP-UART bridge | `app/web/tcp2uart.c`, `app/web/uart_tcp.c` | a ring of characters, hardware flow control, one connection | receive and send on both sides | UART interrupt, the TCP manager |
| Wi-Fi and services | `app/web/wifi.c`, `app/web/wifi_events.c` | mode, reconnect timer, "services are open" flag | events of station and soft-AP | the SDK; opens and closes all servers |
| web server | `app/web/web_srv.c`, `web_int_callbacks.c`, `web_int_vars.c`, `web_utils.c` | per connection: a parser and a resumable page generator | receive, send, poll of a connection | the TCP manager, the file system, the settings store |
| WebSocket | `app/web/websock.c`, `web_websocket.c` | framing state of a connection | frames, ping, close | the web server |
| file system | `app/web/webfs.c`, `web_fs_init.c` | a read-only image, a table of open files, a cache of one entry | open, read, seek, close | the web server |
| time client | `app/web/sntp.c` | server, retry time-out, time | request, answer, retry | lwIP |
| name services | `app/web/captdns.c`, `netbios.c` | none between datagrams | answer a query | lwIP |
| heap | `app/sdklib/system/mem_manager.c` | list of free blocks (FreeRTOS heap_4) | malloc, free, realloc | everybody |
| start-up, peripherals, debugger stub | `app/sdklib/system`, `app/driver`, `app/gdbstub` | registers | | hardware |

What is hard, and what makes each component correct:

- *settings store*: power may fail at every flash operation; several sectors may be half
  written; three loops walk the same records with three different bounds.  A read finds
  the object last saved; a failed save harms no other object; one sector rules at a time;
  packing neither loses nor revives an object, never runs out of room and ends.
- *TCP manager*: connections and pcbs point to each other and each is freed by either
  side, in callbacks; closing can fail and is tried again; a client reconnects for ever.
  The list, its count and the structures agree; a callback never gets a freed
  structure; every `func_listen` has its `func_discon_cb`; closing ends; silent peers are
  dropped; a client never stops trying.
- *RS-485 and Modbus*: an interrupt, two timers and a task share one word of flags.  The
  line is silent for 3.5 characters before a frame; no message is freed while it is
  transmitted; with messages queued something will happen; an answer goes to the one who
  asked.
- *TCP-UART bridge*: a buffer shared with an interrupt; flow control on both sides.  No
  character is lost or repeated; events of an old session do not disturb a new one.
- *Wi-Fi and services*: events in an order the SDK decides.  Services are open exactly
  when somebody can reach them; the station tries again when it should.
- *time client*: its state is what timers and lookups are pending.  A client that was
  started always has one, however answers get lost or doubled; it learns the time; when
  stopped it leaves nothing behind.
- *web server and file system*: a parser and a page generator that stop at any place and
  go on at the next acknowledgement, with a small table of open files that connections
  share.  A page is sent in whole, once, and as its header announced; protected pages
  want the password; handles have one owner; every answer ends.
- *heap*: a list of free blocks that are split and joined, with interrupts in between.
  Nothing is handed out twice, nothing is lost, blocks are as large as they can be.
- *WebSocket*: a parser of frames that resumes in the middle of one.

The hazards, each at its line, with the properties aimed at it, are in `PROJECT.json`.

## Modules

| module | models | |
|---|---|---|
| `ConfigStore` | what callers are promised of the settings store | a map, one save at a time, a save that takes effect or is abandoned |
| `FlashEep` | `app/web/flash_eep.c` and the flash as it sees it | refines `ConfigStore` |
| `FlashEepProofs` | theorems about `FlashEep` | |
| `MCFlashEep` | values of the constants for TLC | |
| `TcpSrvConn` | `app/web/tcp_srv_conn.c` and lwIP's pcbs as it sees them | |
| `TcpSrvConnProofs` | theorems about `TcpSrvConn` | |
| `MCTcpSrvConn` | settings of servers and clients for TLC | |
| `Rs485` | `app/driver/rs485drv.c`, with the queue and the transactors of `app/mdbtcp/mdbrs485.c` and `mdbtab.c` | |
| `Rs485Proofs` | theorems about `Rs485` | |
| `MCRs485` | settings of the bus for TLC | |
| `Tcp2Uart` | `app/web/uart_tcp.c`, `tcp2uart.c`, and what they use of the TCP manager | |
| `MCTcp2Uart` | settings of the bridge for TLC | |
| `WebSrv` | `app/web/web_srv.c`, the callbacks of `web_int_callbacks.c`, the table of `webfs.c` | |
| `WebSrvProofs` | theorems about `WebSrv`: handles, passwords, buffers | |
| `WebSrvFraming` | the theorem about what `WebSrv` says of a body | extends `WebSrvProofs` |
| `MCWebSrv` | a disk and requests for TLC | |
| `Sntp` | `app/web/sntp.c` on lwIP's timeouts and lookups | |
| `WifiEvents` | `app/web/wifi_events.c` and who starts the station and the time client | extends `Sntp` |
| `MCWifiEvents` | settings of the module for TLC | |
| `WifiEventsProofs` | theorems about `WifiEvents` and `Sntp` | |
| `Tcp2UartProofs` | theorems about `Tcp2Uart` | |
| `Allocator` | what a heap promises to those who allocate from it | |
| `Heap` | `app/sdklib/system/mem_manager.c` | refines `Allocator` |
| `HeapProofs` | theorems about `Heap` | |
| `MCHeap` | the requests for TLC | |

### FlashEep

`flash[b]` is a sector: its sequence word `hdr` and the records after it, each with its
word address, id, value and whether its body is whole or was cut short.  The sequence
word counts *down* from 0xFFFFFFFF (erased); the least rules (`CurBank`,
`get_addr_bscfg(false)`), and a pack goes to an erased or the greatest (`PackBank`,
`get_addr_bscfg(true)`).  `flash_save_cfg` is the state machine `pc`: "append" (write the
object), or "erase", "copy" (one turn of the pack loop per step), and the sequence word
with the return from `pack_cfg_fmem`.  `op` holds its local variables and is lost when
power fails.  The three bounds of the three loops over the records (`Fits`, `Matches`,
`PackVisits`) are those of lines 116, 139 and 192 of the code in words.

Assumptions on the hardware: a 32-bit word is programmed or not; an erase that is cut
short has only set bits, so the sequence word can only have grown (`CutErases`); reads do
not fail.  The order of the write of a record is the code's: header and body together in
one SPI write, cut between header and end (`CutWrites`).

Not modelled of it: the branch for records longer than `MAX_FOBJ_SIZE`, unreachable as
`flash_save_cfg` refuses them; the alignment in bytes (addresses are words).

### TcpSrvConn

One `TCP_SERV_CFG`.  `conn[c]` is a `TCP_SERV_CONN` by address: state, pcb pointer,
`recv_check` and whether its timer is armed; `pcb[p]` an lwIP pcb by address: state, the
callback argument and which callbacks are set; `links` and `count` are `conn_links` and
`conn_count`; `up` is a ghost: for each connection the calls of `func_listen` less those of
`func_discon_cb` since it was allocated.  The operators up to "The steps" are the functions of the code, each taking the whole state to
the one it leaves, because the code's functions nest (poll calls close calls disconnect
calls reconnect calls abandon calls error).  Each action of `Next` is one callback, whole.

Freed memory goes back to the pool and may be handed out again, so a pointer kept too
long points to whatever is there next: that is how use after free shows.  A freed
structure is cleared, which stands for the outcome of reading it before it is reused.
`find_tcp_pcb` compares ports and addresses; here that is "the pcb was made for this
connection" (`FindPcb`).

Of `tcp_close` what follows a failure is modelled too: it sets `TF_RXCLOSED` before it
looks for memory for the FIN (the state "shut" of an established pcb), and lwIP then drops
the pcb at the first data that come (`LateData`).  An error callback would tell, but
`tcpsrv_server_close` has taken it off.

What the network does (segments, resets, time-outs) and whether there is memory is free,
within the faults of the setting (`Faults`).  A setting is a `TCP_SERV_CFG`: server or
client, `max_conn`, the time-outs, the flags.

Not modelled of it: the receive and transmit buffers, the TCP window, `recv_trim_bufi`,
`tcpsrv_int_sent_data`, the low-heap limit in accept, several `TCP_SERV_CFG` at a time.

### Rs485

`drv` is `rs485vars` and what matters of the UART: status, the shared flags, the current
message, the timers that are armed, and whether the receive FIFO has characters.  `msg`
is the heap of `srs485msg`, `txmsgs` the queue, `tasks` the queue of events of
`rs485_task`, `trn` the counters and start flags of the transactors; `bus` says what the
others may still send.  `quiet` is a ghost: which timers were armed since anybody last
sent, and whether a pause or a time-out has ended since.

The operators are the functions of the code and each takes a state to the state, or the
set of states, it leaves; a callback is one action.  The UART interrupt is an action of
its own, and where a callback works on the flags with interrupts enabled it may also come
there (`Preempt`, in the settings that have "preempt").  The number of a transactor is
the set of its bits, because `get_next_tx_msg` puts the flags of a new message on top of
the old ones with an OR (`Merged`).  What a received frame is, is chosen when it is
handled (`Frames`); `rs485_test_msg` comes down to whether it returns 1 (`Answered`) or 0
(`Unanswered`) and what it leaves.

Simplified: the interrupt of an empty transmitter comes as soon as it is enabled and
refills until the message is out, so that `StartTx` takes the bus and one interrupt ends
the transmission; the receiver's time-out may come after any characters; the flag `wait`
and `rx_err`, which only count, are left out; `timer_cnt` is a choice of the transactors
that are due; transactors are set up as they should be.  When a stop frees the queue, that
`SLIST_FOREACH` reads `next` of a freed message has no outcome here but the next one.
Registers let anybody write `fifo_cnt` as well; here only the code does.

### Tcp2Uart

`drv` is `uart_drv` with the two interrupts it enables, `uart` the FIFOs and the lines,
`tasks` the queue of `uart_task`, `conn` what the bridge uses of its connections (the
unsent rest `cntro`, what waits in `pbufi`, the window), `cur` `tcp2uart_conn`, `net` what
TCP has taken.  Each callback, event and interrupt is one action; the interrupt shares
counters with the others only where they lock it, so it needs no action inside theirs.
What each side sends is numbered from 1 in each session, and `sent`, `printed`, `given`,
`got`, `flight`, `lost`, `missed` and `alive` are ghosts for the properties: a stream is
in order when its numbers count up.  The counters of the driver wrap (`Word`).

`Recv` is `tcpsrv_server_recv` with its two calls of `recv_trim_bufi`.  When there is no
memory for a longer `pbufi` nothing has changed and lwIP offers the segment again, which is
no step.  When `pbufi` cannot be shortened (`mem_realloc` always takes a new block, so that
this may fail too) it is lost (`Torn`), before the segment is taken or after it, when the
pbuf that lwIP is told to keep is already freed (`Lost`, fault "trim").

Assumption on the hardware: the receiver's time-out interrupt comes once after each pause
on the line, whatever is in the FIFO.

### WebSrv

`web[c]` is a connection with its `WEB_SRV_CONN`: the flags `SCB_...`, the open files
`bffiles`, the callback to repeat, what was received and what is in flight; `fs` the table
`WEBFSStubs` and the lock.  A *page* (`Pages`) is the sequence of what the reads of its
file find: data, a short end, a marker `~`, a call of a callback or an include.  Sizes are
counted in reads of `SCB_SEND_SIZE` bytes, and what chunks add is not counted.  The
actions are what the connection manager calls: a segment (`Segment`), an acknowledgement of any
part of what is in flight (`Ack`), the end (`Lose`); `SendFdata` is
`webserver_send_fdata` with its loop over reads until the buffer is full, a callback has
to be repeated or the file ends.  `page`, `mode`, `length`, `body`, `ended` and `cut` are
ghosts: what was promised and what was sent.

A request is a record: which page, what kind, whether the first segment has a whole line
with a known method (if not it is answered 400 or 501 at once), how many segments header and
content are, and its credentials: "ssid:password", a beginning of it, or something else.
`CheckAuthorization` compares no more characters than were sent, so that a beginning agrees
(`Agrees`).  Not modelled of it: what the variables of
a request set (`web_int_vars`), form fields and overlays of an upload, the redirects of
the captive portal, the change to a WebSocket, error answers other than 400, 401, 404, 413
and 501, and a failing `tcp_write` (with `tcp_sndbuf` asked before, only memory makes it fail; the
setting has `os_malloc` fail instead).

### Sntp and WifiEvents

The time client has no state variable to speak of: what it will do next is what is
pending in lwIP.  `lwip.due` counts the timeouts for each handler, `lwip.lookups` the
lookups; they have no argument and outlive the client's structure `sntp`.  How long a
timeout runs is left out: pending ones end in any order.  `WifiEvents` adds the state that
the SDK keeps of station and soft-AP, the counters of `wifi_events.c`, the services that
are open, and who connects.  The SDK changes its state before it calls
`wifi_handle_event_cb`, so an event with its handler is one action.  An orphaned timeout
reads through a pointer that is NULL, which restarts the chip (`Restart`).

Assumptions: `EVENT_STAMODE_GOT_IP` comes each time the station has its address (the
library, which has no source, seems to leave it out when the address has not changed);
`sys_timeout` finds memory (if not, the chain of the time client ends and `sntp_inits`
does not start it again); only somebody who is connected changes settings.  The resolver
of this lwIP keeps no answers, so every request by name is a lookup.

### Heap and Allocator

`size` holds the headers of all blocks by address, `free` the list from `xStart` to
`pxEnd`, `marked` the blocks with the allocated bit, `remain` `xFreeBytesRemaining`.
Addresses and sizes are in units of 8 bytes.  `vPortFree` clears the mark before it locks
the interrupts, so it is two actions (`Unmark`, `Release`) and `going` the stack of calls
in between.  `Allocator` knows nothing of lists: a block may be handed out anywhere it
overlaps no other, a request may be refused only if it fits nowhere, and `left` counts
what is not handed out.  The refinement mapping takes the blocks marked or on their way
back as those handed out, and `remain` as `left`.

## Runs

| run | what it asks | result |
|---|---|---|
| `flash_eep` | three sectors of six words, two ids, power cuts and SPI errors anywhere: types, sequence words, who rules during a pack, records in bounds, room for a pack, progress of the pack loop, refinement of `ConfigStore`, a save returns, no other object changes | holds |
| `flash_forget` | "a read returns the object last saved" | violated, see findings |
| `tcp_srv_conn` | servers and clients in six settings: types, accounts, callbacks, notifications, no dead connection, the client keeps trying, closing ends, silent peers are dropped | holds |
| `conn_wedged` | "closing failed, try again later" | violated, see findings |
| `rs485` | a bus in five settings: a master; one whose callbacks are interrupted; one with noise, clients that come and go and broadcasts; one whose task is late and that is stopped and started; a slave short of memory: types, no message lost or sent twice or freed while it is sent, the counters of the transactors, the pause before a frame, no silent bus, messages get their turn | holds |
| `bridge` | a bridge in five settings: a steady stream; more than the buffer holds; connections that come and go with little memory, as server and as client; a late task: types, both streams in order, the counters, everything arrives | holds |
| `bridge_stale` | "the number of bytes of the buffer not sent yet" | violated, see findings |
| `web` | two connections in four settings: readers of pages with includes, more files than handles; callbacks that are repeated when memory is short; requests in pieces, with the password, a beginning of it and another, and one whose line is in pieces; the upload of a disk: types, owners of handles, pages in whole, as announced, the password, answers end | holds |
| `web_chunk` | the last chunk | violated, see findings |
| `wifi` | a station with and without a soft-AP that tries again after a time, at once or not at all; time clients by name and by address; settings changed meanwhile: types, services open to who is connected, the station is not forgotten, the time client always has something pending, not too much, and learns the time | holds |
| `wifi_close` | "Stop this module." | violated, see findings |
| `heap` | eleven units, blocks freed in any order, two interrupted frees: the list, and refinement of `Allocator` | holds |

*Bounds, store.*  Six words per sector and bodies of one or two words make a sector fill
up after two or three records, so packs happen all the time, and with three sectors and
`Erased = 4` there are three packs in a row before the sequence word is used up (the
bound `f[cur].hdr > 0` of `SaveBegin`), enough for every sector to be erased and reused.  In
the code the sequence word lasts 2^32 - 2 packs, more than flash survives.  Nothing else
depends on the size of a sector; the proofs hold for every size.

*Bounds, TCP.*  Two connections and three pcbs: a pcb of a former connection can linger
while both structures are in use by others, the least that stale pointers need.  With no
pcb or connection left, connecting and accepting wait: lwIP is out of memory, which the
fault "tcp_new" covers where it matters.  `MaxTries = 1`, `MaxRetry = 1` and `MaxTW = 1`
stand for 3, 7 and 10, time-outs are one tick; `recv_check` is counted up to
`MaxCheck = 2`, one more than any limit it is compared with, so that every comparison
comes out both ways.  The run gives each setting one kind of network trouble: servers
that are reset or servers whose `tcp_close` fails.

*Conditions, TCP.*  `Benign`, which the settings of the run meet (`MCBenign`) and the
theorems assume: a client's first `tcp_connect` does not fail; lwIP does not drop the pcb of
a connection whose `tcp_close` found no memory before the next try, neither for a reset
(faults "close" and "rst") nor for data of the peer (fault "late"); and a client whose
disconnect callback clears the pointer to its pcb has no time-outs.  Without each of the
three some property fails, as told below.  The second is a real condition: the run
`conn_wedged` is without it.  It does not keep memory from being short: a `tcp_close` may fail
any number of times, of connections that are silent, that wait for an acknowledgement or
that the peer closes meanwhile.  `Told` has one exception: `tcpsrv_list_delete` calls
`func_discon_cb` of a client in any state, so that the application hears of the end of one
that waits or connects although it was told of none that was set up.

*Bounds, RS-485.*  Three messages for the master, one current and two queued; two for the
others, enough for a message to be queued behind the one that is sent.  Two transactors,
one with a timer.  `TaskLen = 2` stands for 7: with noise the queue of events does fill
and events are dropped.  `MaxFifo = 1` bounds only who starts a transactor by hand; with
the timer that makes two of its messages under way.  One frame nobody asked for
(`foreign`) at any time, on top of answers that may come too late for what is then
waited for.  "late" lets timers run while one event waits for the task; were there no
limit, a message could be sent again and again before the task learns it was sent.

*Conditions, RS-485.*  `PauseKept`, and of `NothingLost` that the message on the line is
the current one, are claimed when no timer comes before the task and no interrupt in the
middle of a callback; that `fifo_cnt` is exact (the second part of `Counted`) when there
is no foreign frame either: without them they fail, see below.  The rest needs no
condition.

*Bounds, bridge.*  A buffer of five characters, blocks of two, a send buffer and a window
of two: the buffer fills in the middle of a block, is moved when part of it is sent, and
the interrupts are disabled and enabled again.  The task's queue has three places and does
fill with a late task.  A session sends up to seven characters; sessions follow each other
without end.  Counters count modulo 16, more than twice the buffer, so that one that goes
below zero is seen.

*Conditions, bridge.*  `tcp_write` does not fail: if it does, what was in the buffer is
taken out all the same and callbacks use freed buffers (fault "write"; `InOrder` and
`Accounted` fail).  `pbufi` can be shortened: if not, what waits in it is lost (fault "trim";
`InOrder` fails).  A session begins when the events of the last one are handled: the
finding `bridge_stale` is without that.  `Flows` has two exceptions that are the code's:
an event lost to a full queue leaves its characters until more come, and when exactly
`BufMax` characters fill the buffer the time-out comes while the driver looks only at the
full buffer, and the last of them wait for the next character.

*Bounds, web.*  Two connections and three handles that can be used (`MaxOpen = 4`, the last
is never handed out) for pages that include two levels deep, so that handles run out; a
send buffer of six reads, of which at most five are filled at a time, so that every page is
longer than the buffer in the middle of a marker, a callback or an included file; headers
of up to three segments.  `MaxTurns = 12` bounds the turns of the loop that fills a buffer,
which in the code end with the files; no fill of the run takes as many.

*Conditions, web.*  Pages of the run end with a short read or a callback (the finding
`web_chunk` is without that); a POST goes to parsed pages only, and the page for 401 is
not on the disk (both make `web_print_headers` announce a length that is not the body's);
includes nest no deeper than `bffiles`; a disk is uploaded while nobody reads (fault
"busy": at its end `WEBFSInit` closes the readers' handles under them, and `Owned` and
`InWhole` fail), and to `/fsupload` only (`parse_header` takes a disk for any page: at
its end the handle of a page that is a file is closed under the upload itself, and `Owned`
fails).

*Bounds, Wi-Fi.*  Two clients of the soft-AP, so that one is not the last; three failures
(`COUNT_RESCONN_ST`) as in the code; the resolver's table has its four places and the
retry time doubles up to its ten-fold as in the code; the time client is switched off once.
The waiting time 2 stands for every one above 1.  `Bounded` is claimed until the time
client is first switched off, since what that leaves behind piles up, and needs all four
lookups pending at once to come to its bound.

*Bounds, heap.*  Eleven units of 8 bytes and requests of 0, some small and one too large:
up to three blocks, enough for a block with free or used neighbours on either side.  The
allocator is the same at any address.

*Deadlock* is not checked but for `rs485`, `bridge`, `web` and `heap`: a store whose
sequence word is at its bound, a manager that is stopped and a station that was told not
to connect have nothing to do, and in `bridge_stale` the chip stops when a counter has led
beyond the buffer.

*Fairness, store.*  `WF(Step)`: `flash_save_cfg` is a function call; once called it runs
on unless power fails.

*Fairness, RS-485.*  Weak fairness of the task and of each timer, which the scheduler
runs, and of the interrupt that ends a frame: others on the bus do not send for ever
without a pause.  Nothing is assumed of those who make requests.

*Fairness, TCP.*  `WF(PollWith(p, "closing"))`: lwIP's slow timer (500 ms) walks all
active pcbs and calls the poll callback of each, and memory for a FIN is found some day.
Nothing is assumed of peers, of the application or of the Wi-Fi.

*Fairness, bridge.*  The device pauses now and then and takes what it is given, interrupts
and events are handled, and the peer acknowledges what it gets: TCP sees to it that it does
or the connection ends.

*Fairness, web.*  While something is in flight its acknowledgement comes or the connection
ends, and the rest of a request comes or the connection manager ends the silent connection
(`CloseEnds` of `TcpSrvConn`).  The conditions are spelled out instead of `WF`, since
TLC would build every page to evaluate `ENABLED`.

*Fairness, Wi-Fi.*  Strong fairness of a timeout with memory and room for a lookup, of a
lookup that finds the name, and of an answer: a network that loses much but not
everything.  Nothing is assumed of access points, clients and who changes settings.

## Proofs

`FlashEepProofs` proves about `FlashEep`, for every number and size of sectors, every set
of ids and values and both kinds of faults:

- `Invariance`: an inductive invariant `IInv`.  The properties one wants (`TypeOK`,
  `HeadersDistinct`, `OldBankRules`, `WithinBank`, `PackProgress`) are not inductive by
  themselves: that the old sector rules depends on the new one being erased while it is
  copied to; that the sequence words stay distinct depends on the current one being the
  least, and on a pack taking that minus one; that the loop has copied what it passed, on a
  copied record being the last one of its object in the old sector.
  These are the conjuncts `IInv` adds.  One lemma per action shows it preserved.
- `TypeCorrect`, `SequenceWords`, `OldSectorRules`, `RecordsStayWithin`, `PackLoop`:
  the invariants of the runs, from `IInv`.
- `PackHasRoom`: `PackFits`, a pack never runs out of room in the middle of its loop.  It
  needs more than `IInv`, which `RowInv` adds: the records of every sector lie in a row, at
  the addresses their lengths give (`InRow`), whatever was cut short; and what is in the
  new sector takes as many words as the last records of the objects copied (`Copied`).
  Those are some of the old sector's records and the next one is another of them, so all
  of them together end no later than the old sector does (`RoomForNext`).  A sum is a
  function that exists (`Weighs`), so nothing here is recursive.
- `OthersSurvive`: no step changes an object but the one being saved, whatever fails.
- `StoreIsAMap`: the store implements `ConfigStore`, step by step: `SaveBegin` is
  `CBegin`, `SaveSame` is `CSame`, `SaveAppend` is `CFinish`, a crash is `CAbandon`, the
  turns of a pack stutter.

The last two assume `HaveBodies`, that no object has length zero: without it they fail,
see below.  `ConfigStore` is told whether the flash may report errors (`Errors`): only then
may a save that was abandoned return true, which the code does when it takes an error code
for an address.  Constants are as in `StoreAssumption`.

`HeapProofs` proves about `Heap`, for every size of the heap, every set of requests and
every nesting of `vPortFree`:

- `HeapStaysWhole`: `HeapWhole`, which is inductive.  Its heart is `InsertIs`: whatever the
  place of a block that is freed, `prvInsertBlockIntoFreeList` leaves a list in order in
  which no two blocks touch, over headers that fill the heap.  The four cases (joined with
  the one before, the one after, both, none) are one splice of the list (`SpliceRises`) and
  at most two steps of `GrownIs`.  That no two free blocks touch is needed by itself:
  joined with its neighbours, a block must not touch what they did not touch.
- `HeapImplements`: `Heap` implements `Allocator` (`ImplementsAllocator`): `StepSafe` maps
  every step to an allocation, a release, a refusal or none.  That a refusal is one of
  `Allocator`'s rests on two more facts.  `Balance` says that `xFreeBytesRemaining` is the
  number of units that no block handed out has; it speaks of `Allocator`'s state alone and
  is inductive for its steps (`OneBlockMore`), so neither the list nor a sum over it is
  needed.  And a room for the request lies in one free block, since every unit is in a
  block (`BlockOf`) and free blocks do not touch: `RoomIsServed`.

`Rs485Proofs` proves about `Rs485`, for every number of messages and transactors, every
length of the queue of events and every setting (`BusAssumption`):

- `TypeCorrect`, `MessagesOwned`, `NeverStuck`, `WaitsForPause`, `CountersRight`:
  `TypeOK`, `NothingLost`, `NoSilentBus`, `PauseKept` and `Counted`, under the same
  conditions as in the run, which are in the properties.

A callback goes through several functions of the code, so the invariant `IInv` is a
property `Good(s)` of the states between them: one lemma per function, in the order in
which they call each other, says what it asks of the state it gets and what it makes sure
of; then comes one lemma per action.  The properties are not inductive by themselves.  That
the message on the line is the current one rests on the task having no event while the
driver sends, or may send (`Line`); that the pause was kept, on the pause timer being armed
no earlier than the last sender (`Paused`); that something goes on, on a driver that waits
for nothing having `tx_ready` and an empty queue (`Awake`), and on a driver that is off
having no timers (`Off`).  `mdb_timertrn_isr` is a loop over the transactors: `AfterExists`
shows its recursive function exists and `TrnTurnsGood` takes the least turn that would
break the invariant.

`CountersRight` has an invariant of its own, `Ledger`, on top of `Good` and with lemmas in
the same order; TLC checked its parts before the proof, on the settings of the run and
three harder ones.  What a transactor owes (`Owes`) is the number of its messages in the
queue, a cardinality that `get_next_tx_msg` and `rs485_add_tx_msg` change by one element,
and one for the message taken from the queue.  That message is known by `drv.cur` while it
waits for the bus and by the flags alone afterwards (`Taken`), since it may be freed long
before it is counted down; in between the flags of two messages are merged.  So the
invariant says when the flags name the current message (`Fits`), that the flags of the last
one do not hide it (`Firm`: without foreign frames and late timers `trn_reset` is clear
while a message waits), and what has
happened when the pause begins (`Answers`): nobody is to answer any more, so that what was
counted down is not counted down again.  `Tally` is an inequality for every setting, an
equation where nothing foreign is heard and all are in time.

`TcpSrvConnProofs` proves about `TcpSrvConn`, for every number of connections and pcbs and
every setting that is `Benign`:

- `TypeCorrect`, `AccountsRight`, `CallbacksOwn`, `ApplicationTold`, `NoneDead`: `TypeOK`,
  `Accounted`, `OwnCallbacks`, `Told` and `NoDeadConnections`.  What `NoneDead` says of a
  connection that is being closed is `TriesAgain`, which `conn_wedged` shows violated when
  the second condition of `Benign` is not met.
- `ClientsTry`: `StillTrying`, if a client that is to reconnect for ever always gets a pcb.

Again the invariant is a property `Good(s)` of the states between the functions.  None of
the properties is inductive by itself, since each function trusts the pointers it follows.
What `Good` adds is that both ends of them agree: the pcb of a connection has that
connection as its argument, is in the state of lwIP that the state of the connection says
and has just the callbacks set that go with it (`ConnOk`), and a pcb with callbacks for data
or errors, or one that is connecting, is the pcb of its argument (`PcbOk`).  While a
connection is closed its pcb is already without callbacks or freed and the connection not
yet off the list: `Loose(s, c)` is `Good` but for `c`, and `tcpsrv_list_delete` or the timer
of `tcpsrv_client_reconnect` lead back.  `PcbOk` claims nothing of the connection to which a
poll callback that was left set leads, and `PollGood` shows that it does no harm there,
whatever that structure is by then.  `UnlinkIs` and `PushIs` are about the list.

`WifiEventsProofs` proves about `WifiEvents` and the time client in it, for every setting,
number of tries and of clients, and size of the resolver's table:

- `TypeCorrect`, `ServicesFollow`, `StationTries`, `ClientAsks`, `FewPending`: all five
  invariants of the run.

The invariant has three parts.  `WifiOk` adds to the properties what they rest on: where
there is memory, open services are complete, so that opening them again need not start
the web server; a station without soft-AP has no clients, and nothing else sleeps, so that
the last client to leave finds a station it can start; the timer runs only after a failure,
so that the handler of the timer, which does nothing when `st_reconn_count` is 0, does start
the station.  `ClientOk` is a property of the states between the functions of the
time client: a request is under way only with a port, a port is there only with a client,
and a client that was never stopped and is off has nothing pending.  `FewPending` is not
inductive because `SntpRecv` adds a timeout; it holds because it takes two back before
(`StoppedIs`), and if it finds none to take back, all that is pending are lookups.

`Tcp2UartProofs` proves about `Tcp2Uart`, for any sizes of the buffers, FIFOs and of the
queue of events, any number of connections and any streams:

- `TypeCorrect`, `StreamsInOrder`, `CountersAgree`: `TypeOK`, `InOrder` and `Accounted`.
- `NotSentIsInBuffer`: `NotSentInBuffer`, which `bridge_stale` shows violated.

They are for settings that are `Benign`: `tcp_write` finds memory for what there is room
for, `pbufi` can be shortened, and a session begins when the events of the last one have been
handled.  The code relies on all three; without the first `InOrder` fails, since
`tcp2uart_sent_cb` takes out of the buffer what was not written, without the second too, since
what waits in `pbufi` is lost, and without the third so does `Accounted`, as `bridge_stale`
shows.  What remains of the faults: the queue of events may be full, the buffer of the driver
or `tcp_close` find no memory, the connection end at any time.

The invariant is a property `Good(s, k)` of the states between the functions, `k` being what
was announced by the event that is being handled, which is no longer in the queue and not
yet counted in `cntro`.  The properties are not inductive by themselves because each
function uses `tcp2uart_conn` and the counters without asking whether they are those of
this session.  `Good` adds that every connection but the one in `tcp2uart_conn` is free
(`ConnOk`); that what is owed to the connection, by events and lost ones, is in the buffer
also while it is being closed, when nothing is sent and all is taken out of the buffer
(`DriverOk`); and that an open connection without the driver, which a client has for want of
memory, has nothing to send and no event in the queue.  `TakenFromRun`, `HoldsMore` and
`Moved` are the arithmetic of the streams.  What the queue announces is a sum, a recursive
function: `SumsExist` and `SameSums` take the least place at which it would go wrong, and
`AnnouncingMore` and `AnnouncingLess` say what posting and taking an event do to it.

`WebSrvProofs` proves about `WebSrv`, for any files on the disk, any names that are
protected, any number of connections and handles, any sizes of the buffers and any
`MaxTurns`:

- `TypeCorrect`, `HandlesOwned`, `PagesGuarded`: `TypeOK`, with no more in flight than the
  send buffer takes, `Owned` and `Guarded` (credentials that agree, see below).

They are for settings that are `Orderly`: a disk is uploaded while nobody reads, and to
`/fsupload`.  Without either `Owned` fails, as told above: `WEBFSInit` asks nobody whether
a file is open.  Memory may fail, the disk be bad and the peer go at any time; files may
include each other without end, and nest deeper than `bffiles`, when `web_inc_fp` pushes the
outermost out.

The invariant is a property `Good(s)` of the states between the functions, and one lemma per
function says what it does to it.  `Owned` counts; what is kept is `Owning`: the handles of
a connection are distinct, no two connections have one in common, and a place of the table
is taken just when somebody holds it.  `Changes` says what opening and closing files may do
to the table, `Reads` what reading may.  That a callback can be repeated at all rests on
`web_conn` still having the place of its call (`CbOk`).  The loop that fills a buffer is a
recursive function: `TurnsExist` shows it exists and `FilledIs` takes the least turn that would
break the invariant.  For the password the answer has two phases (`Phase`): until the
request is complete nothing was sent, and who asks for a protected page has credentials that
agree or has `SCB_AUTH` set, which only `parse_header` clears (`Early`); afterwards he has
such, or nothing has been sent and the connection is closed for good (`Late`).  Between
the header and the end of the callback neither is so and `Sure` holds, where the answer may
have ended without being closed.

`WebSrvFraming` proves of the same system:

- `BodiesFramed`: `Framed`, a body is as long as its header said, or ends with its last
  chunk.

Not every disk is answered so, and the theorem says which is (the end of `WebSrv`; TLC
evaluates all of it for the disk and the settings of the run, `WithinTheorems`):

- A parsed page that is asked for ends with a short read, or with a callback that ends it,
  writes something, and has its marker right after data (`Ends`, `Writes`).  A page whose
  last read fills the buffer is the one of the run `web_chunk`, below.
- No file includes itself, and includes nest no deeper than `bffiles`: there is a rank of
  the files below `Depth` (`Ranks`).  A fifth file pushes out the first, and with it the
  read that would have ended the page.
- A request brings content to parsed pages only (`Proper`), since the size of what comes
  takes the place of the file's in `content_len`, and is announced in its stead.
- Of the pages for errors the disk has 404 only (`DiskOk`).  The others are opened after the
  page that was asked for, whose length is still in `content_len` when `web_inc_fopen` adds
  theirs: a page for 401 would be announced longer than it is.

The last two are what the proof asked for when it failed without them; of the pages for
errors, `src/WEBFiles` has 404 only.  The invariant `FrameInv` is one for each connection.  Until it is answered it is
`Fresh`: nothing has been said or sent, and `content_len` is the length of the file that is
open, if that will be announced.  From then on it is `Sending` or `Done`.  Who sends either
copies a file (`Copying`: what was sent is what was read, and the length is the file's) or
reads a parsed page (`Reading`): the outermost file is still open, the read that will end it
is still to come (`Going`), and the rank of each file leaves room for what it may include
(`Stacked`), so that it is never pushed out.  That the other connections are not disturbed
(`Apart`) rests on `Owning`.  Each function of `WebSrvProofs` has a second lemma here, in the
same order.

What gives a `CHOOSE` its element, the least of a set of numbers, is proved where it is
needed (`LeastNatural`, `GreatestNatural`).

Only model-checked: the liveness properties (`SaveReturns`, `CloseEnds`, `KeepsSending`,
`Flows`, `AnswerEnds`, `TimeComes`), since fairness and ENABLED are out of the prover's
reach; and of `WebSrv` one invariant, `InWhole`: what a page may contain (`Texts`) is
recursive in the files of the disk, and folds over the items of each.  This one has no
proof yet, which is not to say that it cannot have one: it needs `Texts` as a function of
the files' ranks, a relation between what was sent and the places the suspended files have
reached, and that every call and include of a page follows its marker, and no page ends
with one.

## Where the code and its documentation disagree

Each is a run that TLC finds violated; `PROJECT.json` quotes the line.

- `flash_forget`: a pack makes the new sector current before the object being saved is
  written to it; a power cut between the two leaves the object not found, though an older
  value had been saved.
- `conn_wedged`: a close that found no memory is not tried again if the peer sends data
  first.  `tcp_close` has set `TF_RXCLOSED` (`sdklib/lwip/core/tcp.c:283`), lwIP aborts the pcb
  (`tcp_in.c:377`), the error callback is off, and the connection stays in
  `SRVCONN_CLOSEWAIT` with a freed pcb: it is counted for ever, and `tcpsrv_close` alone frees
  it.
- `bridge_stale`: events posted in one session are handled in the next, whose counters
  start at zero: `uart_del_rx_chars` takes them below.
- `web_chunk`: the last chunk is added only if the read that ends the file also has
  something to send; a page whose last read fills the buffer ends without it.
- `wifi_close`: `sntp_close` takes back one of the three handlers that may be pending; the
  others read through the structure it has freed.

Seen on the way, each by a change of a setting of one of the runs:

- With an object of length zero (`v0`) the pack loop, which ends one header too early,
  forgets it when it is in the last word of a sector.
- `pack_cfg_fmem` reports an SPI error as 1, which `flash_save_cfg` takes for the address
  to write to.
- In a server with the faults "rst" and "close" the same as in `conn_wedged` comes of a reset
  before the next try (`NoDeadConnections`).
- A bridge with the fault "trim", a window of four characters and five from the peer: what
  waits in `pbufi` is lost when it cannot be shortened (`InOrder`).
- A close that is tried again and succeeds leaves the poll callback of the pcb set with a
  freed connection as its argument; `OwnCallbacks` is about the other callbacks.
- The disconnect callback of the web server clears the pointer by which the pcb would be
  found and abandoned (`clears`); an old pcb may live on.
- The poll callback abandons its pcb and does not return `ERR_ABRT`: lwIP calls
  `tcp_output` for it.
- A client whose first `tcp_connect` fails is freed with its timer armed; an "eternal"
  client without a pcb or a port arms none and stops for good (fault "tcp_new", with
  `reconnect`).

In `tcp_srv_conn.c` besides: the forced close "after three tries"
(`tcp_srv_conn.c:475`) is never reached, since `tcpsrv_poll` does not count while a
connection is being closed; `recv_check` of a client is not reset between attempts;
`srv_reopen` closes the connection at the head of the list, which is the newest, while
`tcp_srv_conn.h:86` says the oldest; `tspsrv_delete_pcb` does not look at what
`tcp_close` returns; the loops of `tcpsrv_close_all` over the pcbs delete only the first.

In `rs485drv.c`, each found by dropping the condition of a property of the run `rs485`:

- `rs485_timerw_isr` clears `rx_end` (328, 331) before it asks "was there no movement on
  RX at all?" (336), so the branch that would start a full pause is taken only while
  characters are coming: after a time-out the bus is taken to be quiet, and a message may
  be sent right after a frame.  `PauseKept` therefore counts a time-out as a pause.
- `get_next_tx_msg` does not clear `trn_reset` when it adds the flags of the new message
  (127).  If the bus is then busy until the time-out, `reset_flg_trn` thinks the message
  has been counted down: `fifo_cnt` stays above zero and the timer never starts that
  transactor again.  `Counted` excludes foreign frames for this reason.
- When `rs485_timerw_isr` comes between the end of a transmission and the task's
  `RS485_SIG_TX_OK`, it frees the message and starts the next, and the task then frees
  the one that is being sent.  `NothingLost` excludes a late task for this reason.

In the web server, without a run: `CheckAuthorization` (334) compares the decoded credentials
with the password over their own length only, so that any beginning of it is accepted, even
an empty one; `Guarded` therefore says that they agree, not that
they are the password.  After a 401 with a page of its own on the disk, and after
a POST to a plain file, the length announced is not the body's; a status without a page on
the disk sends a header that has no end; a connection lost in the middle of an upload leaves
the file system locked until the next one; `web_int_disconnect` writes to `web_conn` after
`tcpsrv_disconnect` may have freed it; `web_get_flash` and `web_get_ram` write at the start
of the buffer, not after what is in it.

## Not modelled

- The functions of `flash_eep.c` that fill `syscfg` and the client URL from what they
  read: they change the store only through `flash_save_cfg`.
- Of the TCP manager the buffers, as an application sees them: `Tcp2Uart` and `WebSrv`
  model the part that they use.
- Of Modbus the contents of frames, the registers (`mdbfunc.c`) and the answers to TCP
  (`modbustcp.c`); of the RS-485 driver the set-up and the buffers of characters.
- Of the bridge the set-up of pins and speed, and the AJAX pages that use the driver.
- Of the web server what is named under `WebSrv`; of the file system the search by hash,
  which finds a file or does not, and `WEBFSSeek`, which nobody calls.
- Of Wi-Fi the rest of `wifi.c`: comparing and setting a configuration is a sequence of
  calls of the SDK; scans, deep sleep and the buffer of probe requests.
- The clock of the time client and the fields of its packets.
- WebSocket: see the plan.
- lwIP, the SPI driver and the scheduler are modelled only as their users see them.
- Name services keep no state; peripherals and start-up are register access; the
  debugger stub is third-party code.

## Plan

1. `ConfigStore`, `FlashEep`, `TcpSrvConn`, `Rs485`, `Tcp2Uart`, `WebSrv`, `Sntp`,
   `WifiEvents`, `Heap`: done.
2. Theorems: `FlashEepProofs`, `HeapProofs`, `Rs485Proofs`, `TcpSrvConnProofs`,
   `WifiEventsProofs`, `Tcp2UartProofs`, `WebSrvProofs`, `WebSrvFraming`: done.  Open: `InWhole`,
   for the disks whose markers and callbacks are where they should be.
3. WebSocket: frames that come in pieces over a connection of `WebSrv`.
4. Compositions: the Modbus gateway over `Rs485` and an abstract connection, so that an
   answer goes to the one who asked.
