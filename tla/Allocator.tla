----------------------------- MODULE Allocator -----------------------------
(***************************************************************************)
(* What a heap promises to those who allocate from it.  Memory is counted  *)
(* in units of the alignment; a block holds what was asked for and a       *)
(* header, and may be larger than needed.                                  *)
(***************************************************************************)
EXTENDS Integers

CONSTANTS Units,    \* the memory: units 0 .. Units - 1
          UnitSize, \* bytes in a unit
          Header,   \* units in the header of a block
          Requests, \* how many bytes may be asked for
          None      \* NULL

VARIABLES held,  \* the blocks that are handed out: their sizes, by address
          left,  \* how many units are said to be free
          answer \* the last request and the pointer it got

vars == <<held, left, answer>>

\* The units that a request for n bytes needs.
Need(n) == Header + (n + UnitSize - 1) \div UnitSize

\* May s units at a be handed out?
Room(a, s) == /\ a + s <= Units
              /\ \A b \in DOMAIN held : a + s <= b \/ b + held[b] <= a

Init == /\ held = [a \in {} |-> 0]
        /\ left = Units
        /\ answer = [asked |-> 0, got |-> None]

Alloc(n) == \E a \in 0 .. Units - 1, s \in 1 .. Units :
              /\ n > 0
              /\ s >= Need(n)
              /\ Room(a, s)
              /\ held' = [b \in DOMAIN held \cup {a} |-> IF b = a THEN s ELSE held[b]]
              /\ left' = left - s
              /\ answer' = [asked |-> n, got |-> a + Header]

\* Nothing is refused while there is room for it in one piece.
Refuse(n) == /\ n = 0 \/ \A a \in 0 .. Units - 1 : ~Room(a, Need(n))
             /\ answer' = [asked |-> n, got |-> None]
             /\ UNCHANGED <<held, left>>

Release(a) == /\ a \in DOMAIN held
              /\ held' = [b \in DOMAIN held \ {a} |-> held[b]]
              /\ left' = left + held[a]
              /\ UNCHANGED answer

Next == \/ \E n \in Requests : Alloc(n) \/ Refuse(n)
        \/ \E a \in DOMAIN held : Release(a)

Spec == Init /\ [][Next]_vars
=============================================================================
