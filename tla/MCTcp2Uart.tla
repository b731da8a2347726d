----------------------------- MODULE MCTcp2Uart -----------------------------
(* Settings of Tcp2Uart for TLC. *)
EXTENDS Tcp2Uart

CONSTANTS c1, c2

Bridge(client, rx, tx, faults) == [client |-> client, rx |-> rx, tx |-> tx, faults |-> faults]

\* The device sends blocks that almost fill the buffer, the peer fills its window
Steady == Bridge(FALSE, 4, 3, {})
\* Connections come and go and there may be no memory
Dropped == Bridge(FALSE, 3, 1, {"drop", "close", "memory"})
\* The same for a client
Client == Bridge(TRUE, 2, 2, {"drop", "close", "memory"})
\* The task is late
Late == Bridge(FALSE, 6, 1, {"full"})

\* More comes than the buffer holds
Full == Bridge(FALSE, 7, 1, {})

MCCfgs == {Steady, Full, Dropped, Client, Late}

\* The run keeps to the settings the theorems are about.
ASSUME MCBenign == Benign(MCCfgs)

\* An event is handled in a session that it does not come from
Stale == Bridge(FALSE, 3, 1, {"drop", "stale"})
StaleCfgs == {Stale}
=============================================================================
