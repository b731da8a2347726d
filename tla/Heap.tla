-------------------------------- MODULE Heap --------------------------------
(***************************************************************************)
(* The heap of app/sdklib/system/mem_manager.c: a list of free blocks in   *)
(* the order of their addresses, first fit, and free blocks that touch are *)
(* joined.  Addresses and sizes are counted in units of the alignment, 8   *)
(* bytes, from the first block.                                            *)
(*                                                                         *)
(* pvPortMalloc holds the interrupts off and is one step.  vPortFree       *)
(* clears the mark of the block before it does so: an interrupt that       *)
(* allocates or frees may come between its two halves.                     *)
(***************************************************************************)
EXTENDS Integers, Sequences, FiniteSetsExt

CONSTANTS Units,    \* the heap, without pxEnd
          TopBit,   \* xBlockAllocatedBit, as a number of bytes
          Requests, \* how many bytes are asked for
          MaxNest,  \* bound: how many calls of vPortFree interrupt each other
          None      \* NULL

UnitSize == 8  \* portBYTE_ALIGNMENT
Header   == 1  \* heapSTRUCT_SIZE
MinBlock == 2  \* heapMINIMUM_BLOCK_SIZE

ASSUME HeapAssumption == /\ Units \in Nat \ {0}
                         /\ TopBit \in Nat /\ UnitSize * Units < TopBit
                         /\ Requests \subseteq Nat
                         /\ MaxNest \in Nat \ {0}
                         /\ None \notin Int

VARIABLES free,   \* the list of free blocks, from xStart to pxEnd
          size,   \* the headers: xBlockSize of every block, by its address
          marked, \* the blocks with xBlockAllocatedBit
          remain, \* xFreeBytesRemaining
          going,  \* the calls of vPortFree that have cleared the mark, the last one last
          answer  \* the last request and what it got

vars == <<free, size, marked, remain, going, answer>>

Addr == 0 .. Units - 1

\* prvHeapInit: one free block
Init == /\ free = <<0>>
        /\ size = [a \in {0} |-> Units]
        /\ marked = {}
        /\ remain = Units
        /\ going = <<>>
        /\ answer = [asked |-> 0, got |-> None]

-----------------------------------------------------------------------------
\* Mutant: the rounding of the size is forgotten.
WantedRoundedDown(n) == IF n = 0 THEN 0 ELSE Header + n \div UnitSize

\* The wanted size with the header, rounded up to the alignment
Wanted(n) == IF n = 0 THEN 0 ELSE Header + (n + UnitSize - 1) \div UnitSize

\* Block a has grown by block b, whose header is gone.
Grown(s, a, b) == [x \in DOMAIN s \ {b} |-> IF x = a THEN s[a] + s[b] ELSE s[x]]

\* How many blocks of the list f are passed to find the place of block b
Passed(f, b) == CHOOSE i \in 0 .. Len(f) : /\ \A j \in 1 .. i : f[j] < b
                                           /\ i < Len(f) => f[i + 1] >= b

\* Mutant: a block is not joined with the one before it.
TouchesNothing(f, s, i, b) == FALSE

\* Does block b begin where block i of the list f ends?  (xStart, before the list, has
\* size 0 and touches nothing.)
Touches(f, s, i, b) == i > 0 /\ f[i] + s[f[i]] = b

\* prvInsertBlockIntoFreeList: block b is put into the list f in the order of the
\* addresses and joined with its neighbours, never with pxEnd.
Insert(f, s, b) ==
  LET i      == Passed(f, b)
      before == Touches(f, s, i, b)
      b1     == IF before THEN f[i] ELSE b
      s1     == IF before THEN Grown(s, f[i], b) ELSE s
      after  == i < Len(f) /\ b1 + s1[b1] = f[i + 1]
  IN  [free |-> SubSeq(f, 1, IF before THEN i - 1 ELSE i) \o <<b1>>
                  \o SubSeq(f, IF after THEN i + 2 ELSE i + 1, Len(f)),
       size |-> IF after THEN Grown(s1, b1, f[i + 1]) ELSE s1]

\* The blocks of the list that are large enough for w units
Fitting(w) == {i \in 1 .. Len(free) : size[free[i]] >= w}

Without(f, i) == SubSeq(f, 1, i - 1) \o SubSeq(f, i + 1, Len(f))

\* Is n bytes a request that pvPortMalloc can serve?
Served(n) == /\ n > 0 /\ n < TopBit
             /\ Wanted(n) <= remain
             /\ Fitting(Wanted(n)) # {}

\* Is so much left of block b that it is split?
Splits(b, w) == size[b] - w > MinBlock

\* The headers when block b has been cut after w units
Cut(b, w) == [x \in DOMAIN size \cup {b + w} |-> IF x = b THEN w
                                          ELSE IF x = b + w THEN size[b] - w ELSE size[x]]

\* Block i of the list is taken for n bytes.
Carve(n, i) ==
  LET w    == Wanted(n)
      b    == free[i]
      list == IF Splits(b, w) THEN Insert(Without(free, i), Cut(b, w), b + w)
                              ELSE [free |-> Without(free, i), size |-> size]
  IN  /\ free' = list.free
      /\ size' = list.size
      /\ remain' = remain - list.size[b]
      /\ answer' = [asked |-> n, got |-> b + Header]

Refused(n) == /\ answer' = [asked |-> n, got |-> None]
              /\ UNCHANGED <<free, size, marked, remain, going>>

\* pvPortMalloc, and pvPortZalloc, which clears the memory as well: first fit
Malloc(n) == \/ /\ Served(n)
                /\ LET i == Min(Fitting(Wanted(n)))
                   IN  /\ Carve(n, i)
                       /\ marked' = marked \cup {free[i]}
                /\ UNCHANGED going
             \/ ~Served(n) /\ Refused(n)

\* The first half of vPortFree: block a is no longer allocated.
Unmark(a) == /\ a \in marked
             /\ Len(going) < MaxNest
             /\ marked' = marked \ {a}
             /\ going' = Append(going, a)
             /\ UNCHANGED <<free, size, remain, answer>>

\* The second half of vPortFree, with the interrupts off
Release == /\ going # <<>>
           /\ LET a    == going[Len(going)]
                  list == Insert(free, size, a)
              IN  /\ remain' = remain + size[a]
                  /\ free' = list.free
                  /\ size' = list.size
           /\ going' = SubSeq(going, 1, Len(going) - 1)
           /\ UNCHANGED <<marked, answer>>

\* pvPortRealloc: a new block, then the first half of freeing the old one.  Nothing is
\* freed when there is no new block.
Realloc(a, n) == /\ a \in marked
                 /\ Len(going) < MaxNest
                 /\ \/ /\ Served(n)
                       /\ LET i == Min(Fitting(Wanted(n)))
                          IN  /\ Carve(n, i)
                              /\ marked' = (marked \ {a}) \cup {free[i]}
                       /\ going' = Append(going, a)
                    \/ ~Served(n) /\ Refused(n)

Next == \/ \E n \in Requests : Malloc(n)
        \/ \E a \in marked : Unmark(a)
        \/ Release
        \/ \E a \in marked, n \in Requests : Realloc(a, n)

Spec == Init /\ [][Next]_vars
-----------------------------------------------------------------------------
Going == {going[i] : i \in 1 .. Len(going)}
FreeBlocks == {free[i] : i \in 1 .. Len(free)}

\* The variables have their types: every list and every set holds addresses of blocks.
TypeOK == /\ DOMAIN size \subseteq Addr
          /\ \A b \in DOMAIN size : size[b] \in 1 .. Units
          /\ free \in Seq(DOMAIN size)
          /\ marked \subseteq DOMAIN size
          /\ going \in Seq(DOMAIN size)
          /\ remain \in Int
          /\ answer \in [asked : Requests \cup {0}, got : Addr \cup {None}]

\* The blocks fill the heap without gap or overlap.
Tiled == /\ 0 \in DOMAIN size
         /\ \A b \in DOMAIN size : b + size[b] \in DOMAIN size \cup {Units}
         /\ \A a, b \in DOMAIN size : a < b => a + size[a] <= b

\* The list is in the order of the addresses, and each block is in one place: in the
\* list, allocated, or on its way back.
Listed == /\ \A i, j \in 1 .. Len(free) : i < j => free[i] < free[j]
          /\ \A i, j \in 1 .. Len(going) : i # j => going[i] # going[j]
          /\ DOMAIN size = FreeBlocks \cup marked \cup Going
          /\ FreeBlocks \cap marked = {} /\ FreeBlocks \cap Going = {}
          /\ marked \cap Going = {}

\* No two free blocks touch.
Joined == \A b \in FreeBlocks : b + size[b] \notin FreeBlocks

\* prvInsertBlockIntoFreeList and the splitting of pvPortMalloc keep the heap in one piece:
\* what is freed by anybody, in any order, and with an interrupt in the middle, becomes
\* free memory once and in blocks as large as they can be.
HeapWhole == TypeOK /\ Tiled /\ Listed /\ Joined

\* The heap is an allocator: blocks that are handed out never overlap, hold what was
\* asked for, are handed out until they are freed, nothing is refused while there is room
\* for it in one piece, and xFreeBytesRemaining is what is not handed out.  A block is
\* handed out until it is back in the list.
Alloc == INSTANCE Allocator WITH held <- [a \in marked \cup Going |-> size[a]],
                                 left <- remain

ImplementsAllocator == Alloc!Spec
=============================================================================
