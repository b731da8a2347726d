SPECIFICATION Spec
CONSTANTS
  DnsTable = 2
  MaxTimeout = 10
  MaxClients = 2
  MaxClose = 1
  Tries = 3
  Cfgs <- Toggled
INVARIANT ClosedIsQuiet
CHECK_DEADLOCK FALSE
