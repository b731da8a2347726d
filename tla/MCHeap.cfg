SPECIFICATION Spec
CONSTANTS
  Units = 11
  TopBit = 128
  Requests <- MCRequests
  MaxNest = 2
  None = None
INVARIANT HeapWhole
PROPERTY ImplementsAllocator
