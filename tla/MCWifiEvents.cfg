SPECIFICATION FairSpec
CONSTANTS
  DnsTable = 4
  MaxTimeout = 10
  MaxClients = 2
  MaxClose = 1
  Tries = 3
  Cfgs <- MCCfgs
INVARIANTS TypeOK ServicesOpen StillTrying StillAsking Bounded
PROPERTIES TimeComes
CHECK_DEADLOCK FALSE
