------------------------------- MODULE WebSrv -------------------------------
(***************************************************************************)
(* The web server of app/web/web_srv.c and the table of open files of      *)
(* app/web/webfs.c it works with: a request that comes in pieces, the      *)
(* header of the answer, and the page that is sent piece by piece, each    *)
(* time the peer acknowledges, with its ~callbacks~ and ~inc:files~; and   *)
(* the upload of a new disk, which locks and resets the file system.       *)
(*                                                                         *)
(* The callbacks of the connection manager do not interrupt each other:    *)
(* each is one step.  Sizes are counted in reads of SCB_SEND_SIZE bytes.   *)
(***************************************************************************)
EXTENDS Integers, Sequences, FiniteSets, SequencesExt, FiniteSetsExt

CONSTANTS Conns,      \* connections
          MaxOpen,    \* MAX_WEBFS_OPENFILES
          SndBuf,     \* TCP_SND_BUF
          MinSend,    \* MIN_SEND_SIZE
          MaxSend,    \* MAX_SEND_SIZE
          MaxHead,    \* segments that make MAX_HTTP_HEAD_BUF
          MaxTurns,   \* turns of the loop that fills a buffer, at most
          Pages,      \* the files of the disk, by name, see Page
          Protected,  \* the names that contain ProtectedFilesName
          NoPage,     \* no file
          Cfgs        \* settings to choose from, see Config

Depth == 4            \* bffiles
Upload == "fsupload"  \* fsupload_fname
Root == "index"       \* http_default_file
Builtin == MaxOpen + 2 \* the handles above WEBFS_MAX_HANDLE

\* What a read of a parsed file finds: plain data, the short end of a file, a marker, or
\* the text of a call with its closing marker.  A callback writes n lines of size reads
\* each, and may be the end of the page (last); inc names a file to include.
Data == [k |-> "data"]
Short == [k |-> "short"]
Mark == [k |-> "mark"]
Call(n, size, last) == [k |-> "call", n |-> n, size |-> size, last |-> last]
Include(p) == [k |-> "inc", f |-> p]
Items == {"data", "short", "mark", "call", "inc"}

\* parsed: WEBFS_FLAG_HASINDEX; zip: WEBFS_FLAG_ISZIPPED
IsPage(p) == /\ p.parsed \in BOOLEAN /\ p.zip \in BOOLEAN /\ Len(p.items) \in Nat
             /\ \A i \in 1 .. Len(p.items) :
                  LET it == p.items[i]
                  IN  /\ it.k \in (IF p.parsed THEN Items ELSE {"data", "short"})
                      /\ it.k = "short" => i = Len(p.items)
                      /\ it.k = "call" =>
                           it.n \in Nat /\ it.size \in Nat \ {0} /\ it.last \in BOOLEAN

\* line: is there a request line the server knows in the first segment?  head: segments
\* until the header is complete; more: segments of the content after it; pass: the
\* credentials are "ssid:password" (right), a beginning of it, maybe empty (part), or
\* others or none (wrong).
Request == [page : STRING, kind : {"get", "post", "upload"}, http11 : BOOLEAN,
            pass : {"wrong", "part", "right"}, line : BOOLEAN, head : Nat, more : Nat]

\* memory: os_malloc may fail; image: the uploaded disk may be bad; drop: the connection
\* may end at any time; busy: a disk may be uploaded while others read files.
Faults == {"memory", "image", "drop", "busy"}
Config == [reqs : SUBSET Request, faults : SUBSET Faults]

Errors == {400, 401, 404, 413, 501}  \* the answers that are not 200
ErrorName(n) == ToString(n)

ASSUME WebAssumption ==
  /\ MaxOpen \in Nat \ {0} /\ MaxHead \in Nat /\ MaxTurns \in Nat
  /\ SndBuf \in Nat /\ MinSend \in Nat /\ MaxSend \in Nat
  /\ 0 < MinSend /\ MinSend < SndBuf /\ MinSend <= MaxSend
  /\ NoPage \notin DOMAIN Pages
  /\ \A p \in DOMAIN Pages : IsPage(Pages[p])
  \* The pages for errors are named by a number.
  /\ NoPage \notin Protected /\ \A n \in Errors : ErrorName(n) \notin Protected
  /\ Cfgs \subseteq Config /\ \A k \in Cfgs : \A r \in k.reqs : r.head > 0

VARIABLES cfg,  \* the settings: chosen once
          fs,   \* the file system
          web   \* the connections

vars == <<cfg, fs, web>>

\* table: WEBFSStubs, an open handle with its file and the next item; locked: isWEBFSLocked
Shut == [page |-> NoPage, pos |-> 0]
FileSystem == [table : [1 .. MaxOpen -> [page : DOMAIN Pages \cup {NoPage}, pos : Nat]],
               locked : BOOLEAN]

Flags == {"CLOSED", "DISCONNECT", "FCLOSE", "FOPEN", "FCALBACK", "CHUNKED", "RETRYCB",
          "AUTH", "FINDCB", "RXDATA", "HEAD_OK", "REDIR"}

\* files: bffiles up to the first invalid one; got: segments received; cb: the callback
\* to repeat, what it belongs to and what it has written; len: content_len; rxnull and
\* txnull: rx_null and tx_null; bye: pcb_time_wait_free; flight: sent, not acknowledged.
\* For the properties: page, the file that answers; mode, how the header says the body
\* will end, and length, how long; body, what was sent; ended, the last chunk was sent;
\* cut: memory failed.
NewWeb == [st |-> "free", req |-> [page |-> "", kind |-> "get", http11 |-> FALSE,
                                   pass |-> "wrong", line |-> TRUE, head |-> 1, more |-> 0],
           flags |-> {}, files |-> <<>>, got |-> 0, cb |-> [at |-> <<NoPage, 0>>, done |-> 0],
           len |-> 0, rxnull |-> FALSE, txnull |-> FALSE, bye |-> FALSE, flight |-> 0,
           page |-> NoPage, mode |-> "none", length |-> 0, body |-> <<>>, ended |-> FALSE,
           cut |-> FALSE]

Whole(r) == r.head + r.more   \* how many segments a request has

(***************************************************************************)
(* The functions.  Each takes the state s to the state, or the set of      *)
(* states, it leaves; c is the connection.                                 *)
(***************************************************************************)
Now == [fs |-> fs, web |-> web]
Become(s) == \E t \in {s} : fs' = t.fs /\ web' = t.web

Has(s, c, f) == f \in s.web[c].flags
HasAny(s, c, F) == s.web[c].flags \cap F # {}
Set(s, c, F) == [s EXCEPT !.web[c].flags = @ \cup F]
Clr(s, c, F) == [s EXCEPT !.web[c].flags = @ \ F]
Quit(s, c) == Set(s, c, {"FCLOSE", "DISCONNECT"})

\* WEBFSOpen looks for a free place in the table, and does not use the last one.
FirstFree(s) ==
  CHOOSE h \in 1 .. MaxOpen + 1 : /\ h <= MaxOpen => s.fs.table[h] = Shut
                                  /\ \A g \in 1 .. h - 1 : s.fs.table[g] # Shut
CanOpen(s, p) == p \in DOMAIN Pages /\ ~s.fs.locked /\ FirstFree(s) # MaxOpen

\* WEBFSClose
FsClose(s, h) == IF h \in 1 .. MaxOpen THEN [s EXCEPT !.fs.table[h] = Shut] ELSE s

\* WEBFSInit, for an image that is good or not
FsInit(s, good) == [s EXCEPT !.fs.table = [h \in 1 .. MaxOpen |-> Shut], !.fs.locked = ~good]

\* web_inc_fp: a fifth file pushes the first one out.
IncFp(s, c, h) ==
  LET files == s.web[c].files
  IN  Set([(IF Len(files) = Depth THEN FsClose(s, files[Depth]) ELSE s)
             EXCEPT !.web[c].files = <<h>> \o (IF Len(files) = Depth THEN Front(files) ELSE files)],
          c, {"FOPEN"})

Size(p) == Len(Pages[p].items)

\* Can web_inc_fopen open the file?  A file that is not parsed includes none, and a zipped
\* one cannot be included: it is closed again.
MayInclude(s, c, p) ==
  /\ CanOpen(s, p)
  /\ Has(s, c, "FOPEN") => Has(s, c, "FCALBACK") /\ ~Pages[p].zip

\* web_inc_fopen, when it opens the file
IncFopen(s, c, p) ==
  LET h == FirstFree(s)
      opened == [s EXCEPT !.fs.table[h] = [page |-> p, pos |-> 1], !.web[c].len = @ + Size(p)]
  IN  IncFp(IF Pages[p].parsed THEN Set(opened, c, {"FCALBACK"}) ELSE opened, c, h)

\* web_inc_fclose: are all closed then?
IncFclose(s, c) ==
  LET files == s.web[c].files
      left  == IF files = <<>> THEN s ELSE [FsClose(s, Head(files)) EXCEPT !.web[c].files = Tail(@)]
  IN  IF left.web[c].files = <<>> THEN Clr(left, c, {"FOPEN", "FCALBACK"}) ELSE left

\* Mutant: only the file that is being read is closed.
CloseFilesFirst(s, c) ==
  LET t == IF s.web[c].files = <<>> THEN s ELSE FsClose(s, Head(s.web[c].files))
  IN  Clr([t EXCEPT !.web[c].files = <<>>], c, {"FOPEN", "FCALBACK"})

\* Close_web_conn
CloseFiles(s, c) ==
  LET table == [h \in 1 .. MaxOpen |-> IF h \in ToSet(s.web[c].files) THEN Shut ELSE s.fs.table[h]]
  IN  Clr([s EXCEPT !.fs.table = table, !.web[c].files = <<>>], c, {"FOPEN", "FCALBACK"})

\* Mutant: a callback that has filled the buffer is not called again.
CallbackOnce(s, c, at, room) ==
  LET item == Pages[at[1]].items[at[2]]
      fit  == (room \div item.size) * item.size
      n    == IF fit < item.n * item.size THEN fit ELSE item.n * item.size
  IN  [out |-> [j \in 1 .. n |-> <<at[1], at[2], j>>], s |-> IF item.last THEN Quit(s, c) ELSE s]

\* A callback writes the lines that fit, and asks to be called again if some are left
\* (web_wscan_xml, web_hexdump, web_ProbeRequest_xml, ...).
Callback(s, c, at, room) ==
  LET item == Pages[at[1]].items[at[2]]
      done == IF Has(s, c, "RETRYCB") THEN s.web[c].cb.done ELSE 0
      fit  == (room \div item.size) * item.size
      all  == item.n * item.size - done
      n    == IF fit < all THEN fit ELSE all
      out  == [j \in 1 .. n |-> <<at[1], at[2], done + j>>]
  IN  [out |-> out,
       s |-> IF n < all
             THEN [Set(s, c, {"RETRYCB"}) EXCEPT !.web[c].cb = [at |-> at, done |-> done + n]]
             ELSE LET over == [Clr(s, c, {"RETRYCB"}) EXCEPT !.web[c].cb = NewWeb.cb]
                  IN  IF item.last THEN Quit(over, c) ELSE over]

\* What is sent that is not in a file: a doubled marker, the text for a file that cannot be
\* included, an answer of the program's own
Tilde == <<"~">>
NotFound == <<"file not found!">>
Fixed == <<"builtin">>

Says(s, out) == [s |-> s, out |-> out]

\* The text of a call has been read: a file is included, or a callback is called.
Called(s, c, at, room) ==
  LET item == Pages[at[1]].items[at[2]]
  IN  CASE item.k = "call"                              -> Callback(s, c, at, room)
        [] item.k = "inc" /\ MayInclude(s, c, item.f)   -> Says(IncFopen(s, c, item.f), <<>>)
        [] item.k = "inc" /\ ~MayInclude(s, c, item.f)  -> Says(s, <<NotFound>>)

\* A file has ended: the page has too, if no file is left.
FileEnds(s, c) == LET t == IncFclose(s, c) IN IF Has(t, c, "FOPEN") THEN t ELSE Quit(t, c)

Entry(s, h) == IF h \in 1 .. MaxOpen THEN s.fs.table[h] ELSE Shut
AtEnd(f) == f = Shut \/ f.pos > Size(f.page)
Read(s, h) == [s EXCEPT !.fs.table[h].pos = @ + 1]

\* webserver_send_fdata, one turn of the loop that fills the buffer
Turn(s, c, room) ==
  LET h  == Head(s.web[c].files)
      f  == Entry(s, h)
      at == <<f.page, f.pos>>
      it == Pages[f.page].items[f.pos]
      r  == Read(s, h)
      found == Has(s, c, "FINDCB")
  IN  CASE Has(s, c, "RETRYCB")               -> Callback(s, c, s.web[c].cb.at, room)
        [] ~Has(s, c, "RETRYCB") /\ AtEnd(f)  -> Says(FileEnds(s, c), <<>>)
        [] OTHER ->
           CASE it.k = "mark" /\ ~found -> Says(Set(r, c, {"FINDCB"}), <<>>)
             [] it.k = "mark" /\ found  -> Says(Clr(r, c, {"FINDCB"}), <<Tilde>>)
             [] it.k = "data"           -> Says(Clr(r, c, {"FINDCB"}), <<at>>)
             [] it.k = "short"          -> Says(FileEnds(Clr(r, c, {"FINDCB"}), c), <<at>>)
             [] it.k \in {"call", "inc"} /\ found  -> Called(Clr(r, c, {"FINDCB"}), c, at, room)
             [] it.k \in {"call", "inc"} /\ ~found -> Says(Set(r, c, {"FINDCB"}), <<at>>)

Turned(x, c, room) ==
  LET t == Turn(x.s, c, room - Len(x.out)) IN Says(t.s, x.out \o t.out)
Goes(x, c, room) ==
  room - Len(x.out) >= 1 /\ ~HasAny(x.s, c, {"FCLOSE", "RETRYCB", "DISCONNECT"})
TurnedOn(x, c, room) == IF Goes(x, c, room) THEN Turned(x, c, room) ELSE x

\* webserver_send_fdata: the buffer of a parsed page is filled while there is room for a
\* read, unless the page has ended or a callback waits.
Filled(s, c, room) ==
  LET after[n \in 0 .. MaxTurns] ==
        IF n = 0 THEN Turned(Says(s, <<>>), c, room) ELSE TurnedOn(after[n - 1], c, room)
  IN  after[MaxTurns]

\* webserver_send_fdata: a file that is not parsed is read at once.
Plain(s, c, room) ==
  LET h == Head(s.web[c].files)
      f == Entry(s, h)
      left == IF AtEnd(f) THEN 0 ELSE Size(f.page) - f.pos + 1
      n == IF left < room THEN left ELSE room
      short == n > 0 /\ Pages[f.page].items[f.pos + n - 1].k = "short"
      t == IF n = 0 THEN s ELSE [s EXCEPT !.fs.table[h].pos = @ + n]
  IN  Says(IF n < room \/ short THEN Quit(t, c) ELSE t,
           [i \in 1 .. n |-> <<f.page, f.pos + i - 1>>])

\* tcpsrv_int_sent_data
Send(s, c, out) == [s EXCEPT !.web[c].body = @ \o out, !.web[c].flight = @ + Len(out)]

\* Mutant: the last chunk is left out when the buffer is full.
SendBodyFull(s, c, out, room) ==
  LET t == IF out = <<>> THEN s ELSE Send(s, c, out)
  IN  IF Has(s, c, "CHUNKED") /\ Has(s, c, "FCLOSE") /\ out # <<>> /\ Len(out) < room
      THEN [t EXCEPT !.web[c].ended = TRUE] ELSE t

\* webserver_send_fdata: the last chunk goes with the data that end the page.
SendBody(s, c, out, room) ==
  LET t == IF out = <<>> THEN s ELSE Send(s, c, out)
  IN  IF Has(s, c, "CHUNKED") /\ Has(s, c, "FCLOSE") /\ out # <<>>
      THEN [t EXCEPT !.web[c].ended = TRUE] ELSE t

\* Mutant: the buffer is of the size that is usual.
RoomUsual(s, c) == MaxSend

\* webserver_send_fdata: the size of the buffer
Room(s, c) == IF SndBuf - s.web[c].flight < MaxSend THEN SndBuf - s.web[c].flight ELSE MaxSend

MayFail == IF "memory" \in cfg.faults THEN BOOLEAN ELSE {FALSE}

\* webserver_send_fdata, and web_send_fnohanle for the pages that are no files
SendFdata(s, c) ==
  LET w    == s.web[c]
      room == Room(s, c)
      t    == IF Has(s, c, "FCALBACK") THEN Filled(s, c, room) ELSE Plain(s, c, room)
  IN  CASE w.files = <<>>             -> {Quit(s, c)}
        [] w.files # <<>> /\ SndBuf - w.flight < MinSend -> {s}
        [] OTHER ->
           IF Head(w.files) = Builtin /\ ~Has(s, c, "RETRYCB")
           THEN {Quit(Send(s, c, <<Fixed>>), c)}
           ELSE {IF fails THEN [Quit(s, c) EXCEPT !.web[c].cut = TRUE]
                 ELSE SendBody(t.s, c, t.out, room) : fails \in MayFail}

\* The connection has ended: webserver_disconnect, and the connection manager frees it.
Gone(s, c) == [CloseFiles(s, c) EXCEPT !.web[c] = NewWeb]

\* web_int_disconnect.  tcp_close may fail; the connection manager then tries again later.
IntDisconnect(s, c) ==
  LET t == Set([s EXCEPT !.web[c].txnull = TRUE, !.web[c].rxnull = TRUE], c, {"CLOSED"})
  IN  IF s.web[c].bye THEN {t, Gone(t, c)} ELSE {t}

\* What webserver_received_data and webserver_sent_callback do in the end
AfterSend(s, c) ==
  LET t == IF Has(s, c, "FCLOSE") THEN Set(CloseFiles(s, c), c, {"DISCONNECT"}) ELSE s
  IN  IF Has(t, c, "DISCONNECT") THEN IntDisconnect(t, c) ELSE {t}

\* web_print_headers: the page for an error, in place of the one asked for
ErrorPage(s, c, status) ==
  LET t == Clr(IncFclose(s, c), c, {"FCALBACK", "CHUNKED", "RXDATA", "FCLOSE"})
      p == ErrorName(status)
  IN  IF MayInclude(t, c, p)
      THEN [IncFopen(t, c, p) EXCEPT !.web[c].page = p]
      ELSE [t EXCEPT !.web[c].page = NoPage]

Answers(s, c, mode, length) == [s EXCEPT !.web[c].mode = mode, !.web[c].length = length]

\* web_print_headers: what the header says of the body.  400 has no text of its own.
Announce(s, c, status) ==
  LET w == s.web[c]
  IN  CASE ~Has(s, c, "FOPEN") /\ status \notin {200, 400} ->
             Set(Answers(Send(s, c, <<Fixed>>), c, "length", 1), c, {"DISCONNECT"})
        [] ~Has(s, c, "FOPEN") /\ status \in {200, 400} ->
             Set(Answers(s, c, "cut", 0), c, {"DISCONNECT"})
        [] Has(s, c, "FOPEN") /\ w.len = 0 -> Quit(Answers(s, c, "length", 0), c)
        [] Has(s, c, "FOPEN") /\ w.len # 0 ->
             IF Has(s, c, "FCALBACK")
             THEN IF w.req.http11 THEN Set(Answers(s, c, "chunked", 0), c, {"CHUNKED"})
                  ELSE Answers(s, c, "close", 0)
             ELSE Answers(s, c, "length", w.len)

\* web_print_headers, which takes one piece of the send buffer
PrintHeaders(s, c, status) ==
  LET redir == Set(Answers([s EXCEPT !.web[c].bye = TRUE, !.web[c].page = NoPage], c, "none", 0),
                   c, {"DISCONNECT"})
      t == CASE Has(s, c, "REDIR")                    -> redir
             [] ~Has(s, c, "REDIR") /\ status = 200  -> Announce(s, c, 200)
             [] ~Has(s, c, "REDIR") /\ status # 200  -> Announce(ErrorPage(s, c, status), c, status)
      sent == [t EXCEPT !.web[c].flight = @ + 1]
  IN  {IF fails THEN [Quit(s, c) EXCEPT !.web[c].cut = TRUE]
       ELSE IF Has(sent, c, "DISCONNECT") THEN Set(sent, c, {"CLOSED"}) ELSE sent :
       fails \in MayFail}

\* webserver_received_data, when the request is complete or will not be: what comes now
\* is not listened to any more.
Answer(s, c, status) ==
  UNION {LET goes == ~HasAny(t, c, {"CLOSED", "DISCONNECT", "FCLOSE"}) /\ Has(t, c, "FOPEN")
         IN  UNION {AfterSend(u, c) : u \in (IF goes THEN SendFdata(t, c) ELSE {t})} :
         t \in PrintHeaders([s EXCEPT !.web[c].rxnull = TRUE], c, status)}

\* webserver_open_file: the pages that are no files
Special(s, p) == p = Upload \/ (p = Root /\ s.fs.locked)
OpenSpecial(s, c, p) ==
  LET t == [IncFp(s, c, Builtin) EXCEPT !.web[c].len = 1]
  IN  IF p = Upload THEN Set(t, c, {"AUTH"}) ELSE t

\* web_parse_fname: does the file ask for the password?
ParseFname(s, c) == IF s.web[c].req.page \in Protected THEN Set(s, c, {"AUTH"}) ELSE s

\* webserver_open_file
OpenFile(s, c, p) ==
  IF Special(s, p) THEN OpenSpecial(s, c, p)
  ELSE IF MayInclude(s, c, p) THEN [IncFopen(s, c, p) EXCEPT !.web[c].page = p]
  ELSE s

\* parse_header: the file is opened when the header is complete for the first time.
Opened(s, c) ==
  IF Has(s, c, "FOPEN") THEN s ELSE OpenFile(ParseFname(s, c), c, s.web[c].req.page)

\* parse_header: the length of a content takes the place of the length of the file.
Content(s, c) ==
  LET r == s.web[c].req
  IN  CASE r.kind = "get"    -> s
        [] r.kind = "post"   -> IF r.more = 0 THEN s ELSE [s EXCEPT !.web[c].len = r.more]
        [] r.kind = "upload" -> Set([s EXCEPT !.web[c].len = r.more], c, {"RXDATA"})

\* CheckAuthorization compares as many characters as were sent, so that a beginning of the
\* password agrees with it, even the empty one.
Agrees(r) == r.pass \in {"part", "right"}

\* Mutant: who has not sent the password is refused on the first segment only.
AllowedLater(s, c) == Has(s, c, "AUTH") => Agrees(s.web[c].req) \/ s.web[c].got > s.web[c].req.head

\* parse_header: do the credentials agree with the password, where it is asked for?
Allowed(s, c) == Has(s, c, "AUTH") => Agrees(s.web[c].req)

Wait(s) == [s |-> s, status |-> 0]
Status(s, n) == [s |-> s, status |-> n]

\* parse_header: a request that is not complete waits (0), if it is not too long.
MoreToCome(s, c) == IF s.web[c].got < MaxHead THEN Wait(s) ELSE Status(s, 413)

\* parse_header, once the header is complete and the file open
HeadParsed(s, c) ==
  LET r == s.web[c].req
  IN  CASE r.kind = "post" /\ s.web[c].got < r.head + r.more -> MoreToCome(s, c)
        [] (r.kind = "post" => s.web[c].got >= r.head + r.more) /\ ~Allowed(s, c) -> Status(s, 401)
        [] OTHER -> Status(Clr(s, c, {"AUTH"}), 200)

\* parse_header: a request line that is not all there is an error at once (400), as is one
\* that is too short or of another method (501).  Only then is the header waited for.
Parsed(s, c) ==
  LET r == s.web[c].req
  IN  CASE ~r.line -> {Status(s, n) : n \in {400, 501}}
        [] r.line /\ s.web[c].got < r.head -> {MoreToCome(s, c)}
        [] r.line /\ s.web[c].got >= r.head ->
             {IF Has(t, c, "FOPEN") THEN HeadParsed(Content(t, c), c) ELSE Status(t, 404) :
              t \in {Opened(s, c)}}

\* parse_header and what webserver_received_data does with its result: a disk is waited for.
HeadReceived(s, c) ==
  {CASE p.status = 0 -> p
     [] p.status = 200 /\ Has(p.s, c, "RXDATA") -> Wait(Set(p.s, c, {"HEAD_OK"}))
     [] OTHER -> Status(Set(p.s, c, {"HEAD_OK"}), p.status) : p \in Parsed(s, c)}

\* upload_boundary: the peer is told with another page, if there are pages.
Told(s, c, status) == IF s.fs.locked THEN Status(s, status) ELSE Status(Set(s, c, {"REDIR"}), 200)

BadImage == "image" \in cfg.faults

\* upload_boundary: a disk locks the file system, if it has the right head and fits.
DiskHead(s, c) == {Wait([s EXCEPT !.fs.locked = TRUE])} \cup
                  (IF BadImage THEN {Told(s, c, 400)} ELSE {})

\* upload_boundary: with its end the file system is open again, if the disk has files;
\* 400 when some of it is missing.
DiskEnd(s, c) == {Told(FsInit(s, TRUE), c, 200)} \cup
                 (IF BadImage THEN {Told(FsInit(s, FALSE), c, n) : n \in {200, 400}} ELSE {})

\* web_rx_buf
DiskReceived(s, c) ==
  LET w == s.web[c]
      head == IF w.got = w.req.head + 1 THEN DiskHead(s, c) ELSE {Wait(s)}
  IN  {IF p.status = 0 THEN p
       ELSE [p EXCEPT !.s = Set([@ EXCEPT !.web[c].len = 0], c, {"DISCONNECT"})] :
       p \in UNION {IF p.status = 0 /\ w.got = Whole(w.req) THEN DiskEnd(p.s, c) ELSE {p} :
                    p \in head}}

\* webserver_received_data
Received(s, c) ==
  IF HasAny(s, c, {"CLOSED", "DISCONNECT", "FCLOSE"}) THEN {s}
  ELSE UNION {IF p.status = 0 THEN {p.s} ELSE Answer(p.s, c, p.status) :
              p \in (IF Has(s, c, "HEAD_OK") THEN DiskReceived(s, c) ELSE HeadReceived(s, c))}

\* Mutant: a callback that waits to be called again is not.
SentCallbackNoRetry(s, c) ==
  IF Has(s, c, "CLOSED") THEN {[s EXCEPT !.web[c].txnull = TRUE, !.web[c].rxnull = TRUE]}
  ELSE UNION {AfterSend(t, c) : t \in
              IF ~HasAny(s, c, {"DISCONNECT", "FCLOSE", "RETRYCB"}) /\ Has(s, c, "FOPEN")
              THEN SendFdata(s, c) ELSE {s}}

\* webserver_sent_callback
SentCallback(s, c) ==
  IF Has(s, c, "CLOSED") THEN {[s EXCEPT !.web[c].txnull = TRUE, !.web[c].rxnull = TRUE]}
  ELSE UNION {AfterSend(t, c) : t \in
              IF ~HasAny(s, c, {"DISCONNECT", "FCLOSE"}) /\ Has(s, c, "FOPEN")
              THEN SendFdata(s, c) ELSE {s}}

(***************************************************************************)
(* The steps.                                                              *)
(***************************************************************************)
Init == /\ cfg \in Cfgs
        /\ fs = FsInit([fs |-> [table |-> <<>>, locked |-> FALSE]], TRUE).fs
        /\ web = [c \in Conns |-> NewWeb]

\* A peer connects, to send one request.
Accept(c) ==
  /\ web[c].st = "free"
  /\ \E r \in cfg.reqs : web' = [web EXCEPT ![c].st = "idle", ![c].req = r]
  /\ UNCHANGED <<cfg, fs>>

Held(c) == {i \in DOMAIN web[c].files : web[c].files[i] # Builtin}  \* of the file system
StartsDisk(c) == web[c].req.kind = "upload" /\ "HEAD_OK" \in web[c].flags

\* Is there more of the request, and may it come now?
MayCome(c) ==
  /\ web[c].got < Whole(web[c].req)
  /\ StartsDisk(c) /\ "busy" \notin cfg.faults => \A d \in Conns \ {c} : Held(d) = {}

\* tcpsrv_server_recv: a segment comes, and is thrown away if rx_null is set.
Segment(c) ==
  /\ web[c].st # "free" /\ ~web[c].rxnull
  /\ MayCome(c)
  /\ LET s == [Now EXCEPT !.web[c].got = @ + 1, !.web[c].st = "open"]
     IN  \E t \in Received(s, c) : Become(t)
  /\ UNCHANGED cfg

\* tcpsrv_server_sent: the peer acknowledges some of what was sent.
Ack(c) ==
  /\ \E n \in 1 .. web[c].flight :
       LET s == [Now EXCEPT !.web[c].flight = @ - n]
       IN  \E t \in (IF web[c].txnull THEN {s} ELSE SentCallback(s, c)) : Become(t)
  /\ UNCHANGED cfg

\* webserver_disconnect: the peer has closed, or the connection manager gave it up.
Lose(c) ==
  /\ web[c].st # "free"
  /\ "drop" \in cfg.faults \/ "CLOSED" \in web[c].flags
  /\ Become(Gone(Now, c))
  /\ UNCHANGED cfg

Next == \E c \in Conns : Accept(c) \/ Segment(c) \/ Ack(c) \/ Lose(c)

\* Weak fairness of what changes a connection, with its guard spelled out in place of ENABLED,
\* which would have TLC build the pages: while an acknowledgement is due it comes, since
\* nothing else changes the connection for ever; while a request is incomplete its rest
\* comes, or the connection manager ends the silent connection (TcpSrvConn, CloseEnds), as it
\* ends one that web_int_disconnect left to it.
RestDue(c) == web[c].st # "free" /\ ~web[c].rxnull /\ web[c].got < Whole(web[c].req)
Fairness ==
  \A c \in Conns : /\ []<>(web[c].flight = 0) \/ []<><<web'[c] # web[c]>>_web
                   /\ []<>~RestDue(c) \/ []<><<web'[c] # web[c]>>_web
                   /\ []<>("CLOSED" \notin web[c].flags) \/ []<><<web'[c] # web[c]>>_web

Spec == Init /\ [][Next]_vars /\ Fairness

(***************************************************************************)
(* The properties.                                                         *)
(***************************************************************************)

\* The state has its type, and no connection has more in flight than the send buffer
\* takes: what webserver_send_fdata fills is never larger than tcp_sndbuf said.
TypeOK ==
  /\ cfg \in Cfgs
  /\ fs \in FileSystem
  /\ \A c \in Conns :
       LET w == web[c]
       IN  /\ w.st \in {"free", "idle", "open"}
           /\ w.req \in cfg.reqs \cup {NewWeb.req}
           /\ w.flags \subseteq Flags
           /\ w.files \in Seq((1 .. MaxOpen - 1) \cup {Builtin}) /\ Len(w.files) <= Depth
           /\ w.flight \in 0 .. SndBuf
           /\ w.got \in 0 .. Whole(w.req)
           /\ w.len \in Nat /\ w.length \in Nat
           /\ {w.rxnull, w.txnull, w.bye, w.ended, w.cut} \subseteq BOOLEAN
           /\ w.mode \in {"none", "length", "chunked", "close", "cut"}
           /\ w.page \in DOMAIN Pages \cup {NoPage}

\* An open handle of the file system belongs to exactly one place of one connection, and
\* every connection's handles are open: none is lost when an include is refused, a page
\* ends early or a peer goes away, and none is used by two (web_inc_fopen, web_inc_fclose,
\* Close_web_conn, WEBFSInit).
Owned ==
  LET holds(h) == {x \in Conns \X (1 .. Depth) : x[2] \in Held(x[1]) /\ web[x[1]].files[x[2]] = h}
  IN  \A h \in 1 .. MaxOpen : Cardinality(holds(h)) = (IF fs.table[h] = Shut THEN 0 ELSE 1)

\* The bodies that page p may have: what it contains, with each included file, or the text
\* that it was not found, in its place.
Texts[p \in DOMAIN Pages] ==
  LET parts(i) ==
        LET it == Pages[p].items[i]
        IN  CASE it.k \in {"data", "short"} -> {<<<<p, i>>>>}
              [] it.k = "mark" ->
                   {IF i > 1 /\ Pages[p].items[i - 1].k = "mark" THEN <<Tilde>> ELSE <<>>}
              [] it.k = "call" -> {[j \in 1 .. it.n * it.size |-> <<p, i, j>>]}
              [] it.k = "inc"  -> {<<NotFound>>} \cup
                                  (IF it.f \in DOMAIN Pages THEN Texts[it.f] ELSE {})
  IN  FoldLeft(LAMBDA texts, i : {a \o b : a \in texts, b \in parts(i)},
               {<<>>}, [i \in 1 .. Size(p) |-> i])
AllTexts == [p \in DOMAIN Pages |-> Texts[p]]

Finished(w) == "CLOSED" \in w.flags /\ ~w.cut

\* A page is sent in order and in whole: whatever the acknowledgements are, however often
\* the buffer is full in the middle of a file, a marker or a callback, and whatever the
\* other connections read, no read is lost, doubled or taken from another file
\* (webserver_send_fdata, its callbacks, and the handles they use).
InWhole ==
  \A c \in Conns :
    LET w == web[c]
    IN  w.page # NoPage /\ w.body # <<>> =>
          \E text \in AllTexts[w.page] :
            IF Finished(w) THEN w.body = text ELSE IsPrefix(w.body, text)

\* The body is what the header said: as long as the length announced, or closed by the
\* last chunk and nothing after it (web_print_headers, webserver_send_fdata: "close file?
\* -> add 'end chunked'").
Framed ==
  \A c \in Conns :
    LET w == web[c]
    IN  /\ w.mode = "length" => Len(w.body) <= w.length
        /\ w.mode = "length" /\ Finished(w) => Len(w.body) = w.length
        /\ w.mode = "chunked" /\ Finished(w) => w.ended
        /\ w.ended => {"FCLOSE", "CHUNKED"} \subseteq w.flags

\* A page whose name is protected is sent to nobody whose credentials differ from the
\* password as far as they go, in whatever pieces the request came (parse_header, SCB_AUTH).
\* That they go all the way is not asked for: CheckAuthorization accepts a beginning.
Guarded ==
  \A c \in Conns : web[c].page \in Protected /\ web[c].body # <<>> => Agrees(web[c].req)

\* The answer to every request ends, and its files are closed, if the peer acknowledges:
\* no callback, no full buffer and no acknowledgement of a part leaves it waiting for an
\* event that does not come (webserver_sent_callback).
AnswerEnds == \A c \in Conns : web[c].files # <<>> ~> web[c].files = <<>>

(***************************************************************************)
(* What the theorems assume of the settings and of the disk.               *)
(***************************************************************************)
\* Settings in which a disk is uploaded while nobody reads, and to one page only.
Orderly(k) == "busy" \notin k.faults /\ \A r \in k.reqs : r.kind = "upload" => r.page = Upload

\* A parsed page ends with a short read, or with a callback that ends it and that comes
\* right after data, so that its marker is not the second of two.
ShortEnd(p) == Size(p) > 0 /\ Pages[p].items[Size(p)].k = "short"
CallEnd(p) ==
  /\ Size(p) > 1 /\ Pages[p].items[Size(p)].k = "call" /\ Pages[p].items[Size(p)].last
  /\ Pages[p].items[Size(p) - 1].k = "mark"
  /\ Size(p) = 2 \/ Pages[p].items[Size(p) - 2].k = "data"
Ends(p) == Pages[p].parsed => ShortEnd(p) \/ CallEnd(p)

\* No file includes itself, over whatever others, and none would push the first one out.
Includes(p, f) == \E i \in 1 .. Size(p) : Pages[p].items[i].k = "inc" /\ Pages[p].items[i].f = f
Ranks(rank) == \A p, f \in DOMAIN Pages : Includes(p, f) => rank[f] < rank[p]

\* A callback that ends a page writes something.
Writes ==
  \A p \in DOMAIN Pages : \A i \in 1 .. Size(p) :
    LET it == Pages[p].items[i] IN it.k = "call" /\ it.last => it.n > 0

\* A disk whose files are answered to the end: of the pages for errors, it has 404 only.
DiskOk ==
  /\ \E rank \in [DOMAIN Pages -> 0 .. Depth - 1] : Ranks(rank)
  /\ Writes
  /\ \A n \in Errors : ErrorName(n) \in DOMAIN Pages => n = 404 /\ Ends(ErrorName(n))

\* Settings that ask for such pages, and send a content to none that is not parsed: the
\* length of the content would be announced as that of the page.
Proper(r) ==
  /\ r.page \in DOMAIN Pages => Ends(r.page)
  /\ r.kind = "post" /\ r.more > 0 =>
       r.page \notin {Upload, Root} /\ (r.page \in DOMAIN Pages => Pages[r.page].parsed)
Decent(k) == \A r \in k.reqs : Proper(r)
=============================================================================
