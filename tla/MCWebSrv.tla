------------------------------ MODULE MCWebSrv ------------------------------
EXTENDS WebSrv

\* The disk: a plain file, a page with an included file and a callback, a page that is one
\* long callback, the one for an error, a zipped file and a protected page; and a page whose
\* last read fills the buffer.
MCPages ==
  [x \in {"index", "plain", "part", "zip", "scan", "404", "protect", "nest",
         "exact"} |->
     CASE x = "plain"   -> [parsed |-> FALSE, zip |-> FALSE,
                            items |-> <<Data, Data, Data, Data, Data>>]
       [] x = "part"    -> [parsed |-> TRUE, zip |-> FALSE, items |-> <<Mark, Mark, Data>>]
       [] x = "zip"     -> [parsed |-> FALSE, zip |-> TRUE, items |-> <<Data, Short>>]
       [] x = "index"   -> [parsed |-> TRUE, zip |-> FALSE,
                            items |-> <<Data, Mark, Include("part"), Mark, Include("zip"), Short>>]
       [] x = "scan"    -> [parsed |-> TRUE, zip |-> FALSE,
                            items |-> <<Mark, Call(2, 3, FALSE), Mark, Call(1, 1, FALSE), Short>>]
       [] x = "nest"    -> [parsed |-> TRUE, zip |-> FALSE,
                            items |-> <<Data, Mark, Include("index"), Data, Mark, Include("nofile"),
                                        Short>>]
       [] x = "exact"   -> [parsed |-> TRUE, zip |-> FALSE,
                            items |-> <<Mark, Mark, Data, Data, Data, Data>>]
       [] x = "404"     -> [parsed |-> FALSE, zip |-> FALSE, items |-> <<Short>>]
       [] x = "protect" -> [parsed |-> TRUE, zip |-> FALSE, items |-> <<Mark, Call(2, 2, TRUE)>>]]

Req(p, kind, head, more) ==
  [page |-> p, kind |-> kind, http11 |-> TRUE, pass |-> "wrong", line |-> TRUE, head |-> head,
   more |-> more]
Signed(r) == [r EXCEPT !.pass = "right"]
Begun(r) == [r EXCEPT !.pass = "part"]
Broken(r) == [r EXCEPT !.line = FALSE]
Old(r) == [r EXCEPT !.http11 = FALSE]

\* Many readers: pages that include, plain ones, one that is not there, a peer that goes.
Readers == [reqs |-> {Req("index", "get", 1, 0), Req("nest", "get", 1, 0),
                      Req("plain", "get", 1, 0),
                      Req("none", "get", 1, 0)},
            faults |-> {"drop"}]
\* Callbacks that are repeated, for old and new clients, when memory is short
Callbacks == [reqs |-> {Req("scan", "get", 2, 0), Old(Req("index", "get", 3, 0)),
                        Req("zip", "get", 1, 0),
                        Signed(Req("protect", "get", 1, 0))},
              faults |-> {"memory", "drop"}]
\* Requests in pieces, with the password, its beginning or another, and one whose line is
\* in pieces too
Guards == [reqs |-> {Req("protect", "post", 1, 1), Signed(Req("protect", "post", 1, 1)),
                     Req("protect", "get", 2, 0), Begun(Req("protect", "get", 2, 0)),
                     Req("scan", "post", 2, 2), Broken(Req("scan", "get", 2, 0))},
           faults |-> {"drop"}]
\* A new disk
Disk == [reqs |-> {Signed(Req(Upload, "upload", 1, 2)), Req(Upload, "upload", 1, 2),
                   Req("index", "get", 1, 0), Req("plain", "get", 1, 0)},
         faults |-> {"drop", "image"}]
MCCfgs == {Readers, Callbacks, Guards, Disk}
MCProtected == {"protect"}

\* The theorems about WebSrv are about this disk and these settings too.
ASSUME WithinTheorems == DiskOk /\ \A k \in MCCfgs : Orderly(k) /\ Decent(k)

\* A page whose last read fills the buffer
Exact == [reqs |-> {Req("exact", "get", 1, 0), Req("protect", "get", 1, 0),
                    Req("plain", "get", 1, 0)},
          faults |-> {"drop"}]
ExactCfgs == {Exact}
=============================================================================
