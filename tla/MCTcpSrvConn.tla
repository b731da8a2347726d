---------------------------- MODULE MCTcpSrvConn ----------------------------
(* Settings of TcpSrvConn for TLC. *)
EXTENDS TcpSrvConn

Server(max, reopen, wait, faults) ==
  [client |-> FALSE, reconnect |-> FALSE, reopen |-> reopen, twfree |-> reopen,
   clears |-> TRUE, max |-> max, rec |-> wait, cls |-> wait, faults |-> faults]

Client(reconnect, clears, max, wait, faults) ==
  [client |-> TRUE, reconnect |-> reconnect, reopen |-> FALSE, twfree |-> FALSE,
   clears |-> clears, max |-> max, rec |-> wait, cls |-> wait, faults |-> faults]

\* Servers that lose connections, servers that fail to close them, clients of both
\* kinds.
MCCfgs == {Server(2, TRUE, 1, {"rst"}), Server(1, FALSE, 1, {"rst"}),
           Server(1, TRUE, 1, {"close"}),
           Client(TRUE, TRUE, 0, 0, {"rst"}), Client(TRUE, FALSE, 0, 1, {"rst", "connect"}),
           Client(FALSE, FALSE, 2, 1, {"rst", "tcp_new", "connect"})}

\* A server that fails to close a connection whose peer goes on sending
MCLateCfgs == {Server(1, FALSE, 1, {"close", "late"})}

\* But for such a peer the runs keep to the settings the theorems are about.
ASSUME MCBenign == (\A g \in Cfgs : "late" \notin g.faults) => Benign

=============================================================================
