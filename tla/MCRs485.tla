------------------------------ MODULE MCRs485 ------------------------------
(* Settings of Rs485 for TLC. *)
EXTENDS Rs485

CONSTANTS b1, b2, b3

\* Transactors 0 and 1
MCTrns == <<{}, {0}>>

Bus(mem, master, client, periodic, broadcast, foreign, faults) ==
  [mem |-> mem, master |-> master, client |-> client, periodic |-> periodic,
   broadcast |-> broadcast, foreign |-> foreign, faults |-> faults]

\* A master whose slaves answer, too late perhaps, or not at all
Master == Bus({b1, b2, b3}, TRUE, {TRUE}, {{}}, {}, 0, {})
\* The same, and the UART interrupts its callbacks
Interrupted == Bus({b1, b2}, TRUE, {TRUE}, {{}}, {}, 0, {"preempt"})
\* Clients come and go, there is noise, and transactor 1 sends to all slaves
Noisy == Bus({b1, b2}, TRUE, BOOLEAN, {{}}, {{0}}, 1, {})
\* The task is late, and the driver is stopped and started
Stopped == Bus({b1, b2}, TRUE, {FALSE}, {{}}, {{0}}, 0, {"late", "stop"})
\* A slave that is short of memory
Slave == Bus({b1, b2}, FALSE, {TRUE}, {}, {}, 1, {"low"})

MCCfgs == {Master, Interrupted, Noisy, Stopped, Slave}
=============================================================================
