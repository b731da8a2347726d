------------------------------ MODULE FlashEep ------------------------------
(***************************************************************************)
(* The settings store of app/web/flash_eep.c.  Objects (WiFi, UART and     *)
(* system settings, the client URL, user constants) are appended as        *)
(* records to one of NBanks flash sectors; the first word of a sector is a *)
(* sequence word that counts down, and the sector with the least one is    *)
(* the current one.  When a record does not fit, the sector is packed: the *)
(* last record of every other object is copied to the sector with the      *)
(* greatest (or an erased) sequence word.                                  *)
(*                                                                         *)
(* Every erase and every write of flash is a step of its own, so power may *)
(* be cut between any two of them, and in the middle of one: the word is   *)
(* the unit that is programmed or not.  Addresses are word offsets in the  *)
(* sector.                                                                 *)
(***************************************************************************)
EXTENDS Integers, Sequences

CONSTANTS NBanks,     \* FMEMORY_SCFG_BANKS
          BankWords,  \* FMEMORY_SCFG_BANK_SIZE in words
          MaxWords,   \* MAX_FOBJ_SIZE in words
          Erased,     \* the sequence word of an erased sector, 0xFFFFFFFF
          Ids,        \* object ids
          Vals,       \* object values
          Words,      \* Words[v]: words of the body of an object with value v
          None,       \* not found
          Faults      \* what may go wrong: "crash" (power), "error" (SPI flash)

\* A body is as it was written, or its writing was cut short.
Body == {"whole", "torn"}

ASSUME StoreAssumption ==
  /\ NBanks \in Nat /\ NBanks >= 2
  /\ BankWords \in Nat /\ MaxWords \in Nat /\ MaxWords + 3 <= BankWords
  /\ Erased \in Nat /\ Erased > 1
  /\ Words \in [Vals -> Nat]
  /\ None \notin [val : Vals, body : Body]

VARIABLES flash,  \* bank -> [hdr, recs]: what is in flash
          pc,     \* where flash_save_cfg is
          op,     \* its local variables
          ret     \* what the last flash_save_cfg returned

vars == <<flash, pc, op, ret>>

Bank == 0 .. NBanks - 1
Rec  == [addr : Nat, id : Ids, val : Vals, body : Body]

(***************************************************************************)
(* Reading the sectors.                                                    *)
(***************************************************************************)
RecWords(v) == 1 + Words[v]

LastIndex(S) == CHOOSE i \in S : \A j \in S : j <= i

\* get_addr_fobj_save: where the next record would go, and whether it fits
End(bk) == IF bk.recs = <<>>
           THEN 1
           ELSE LET r == bk.recs[Len(bk.recs)] IN r.addr + RecWords(r.val)

\* Mutant: a record may fill the sector to its last word.
FitsToTheEnd(bk, v) == End(bk) <= BankWords - RecWords(v)

Fits(bk, v) == End(bk) < BankWords - RecWords(v)

\* get_addr_fobj: the records of id that its do-while loop reaches
Matches(bk, id) ==
  {i \in DOMAIN bk.recs : /\ bk.recs[i].id = id
                          /\ i = 1 \/ bk.recs[i].addr < BankWords - 1}

Object(r) == [val |-> r.val, body |-> r.body]
Intact(v) == [val |-> v, body |-> "whole"]

Lookup(bk, id) == LET S == Matches(bk, id)
                  IN  IF S = {} THEN None ELSE Object(bk.recs[LastIndex(S)])

\* get_addr_bscfg(false): the least sequence word, the first such sector
CurBank(f) == CHOOSE b \in Bank :
                \A c \in Bank : \/ f[b].hdr < f[c].hdr
                                \/ f[b].hdr = f[c].hdr /\ b <= c

\* Mutant: the sector to pack into is looked for like the current one.
PackBankSame(f) == CurBank(f)

\* get_addr_bscfg(true): the last erased sector, else the greatest sequence word
PackBank(f) == CHOOSE b \in Bank :
                 \A c \in Bank : \/ f[b].hdr > f[c].hdr
                                 \/ f[b].hdr = f[c].hdr /\ f[b].hdr = Erased /\ b >= c
                                 \/ f[b].hdr = f[c].hdr /\ f[b].hdr < Erased /\ b <= c

\* Mutant: every sector gets the first sequence word.
FormattedAll(f) == IF \A b \in Bank : f[b].hdr = Erased
                   THEN [b \in Bank |-> [f[b] EXCEPT !.hdr = Erased - 1]]
                   ELSE f

\* get_addr_bscfg(false) gives a store that is all erased its first sequence word
Formatted(f) == IF \A b \in Bank : f[b].hdr = Erased
                THEN [f EXCEPT ![0].hdr = Erased - 1]
                ELSE f

\* Mutant: the loop stops one record early.
PackVisitsFewer(bk, i) == i < Len(bk.recs)

\* pack_cfg_fmem: does its loop look at record i of the old sector?
PackVisits(bk, i) == /\ i <= Len(bk.recs)
                     /\ i = 1 \/ bk.recs[i].addr < BankWords - 2

(***************************************************************************)
(* Changing the sectors.                                                   *)
(***************************************************************************)
EmptyBank == [hdr |-> Erased, recs |-> <<>>]

\* Mutant: the address is counted from before the sequence word.
RecordTooLow(bk, id, v, body) ==
  [addr |-> End(bk) - 2, id |-> id, val |-> v, body |-> body]

Record(bk, id, v, body) == [addr |-> End(bk), id |-> id, val |-> v, body |-> body]

WithRecord(bk, id, v, body) ==
  [bk EXCEPT !.recs = Append(bk.recs, Record(bk, id, v, body))]

\* What a write of a record leaves when it is cut short: nothing, the header and
\* part of the body, or all of it.
CutWrites(bk, id, v, body) ==
  {bk, WithRecord(bk, id, v, "torn"), WithRecord(bk, id, v, body)}

\* What an erase leaves when it is cut short: erasing only sets bits, so the
\* sequence word can only grow.
CutErases(bk) == {[hdr |-> h, recs |-> bk.recs] : h \in bk.hdr .. Erased}

(***************************************************************************)
(* The program.                                                            *)
(***************************************************************************)
NoOp == <<>>

Init == /\ flash = [b \in Bank |-> EmptyBank]
        /\ pc = "idle"
        /\ op = NoOp
        /\ ret = "none"

Return(r) == /\ pc' = "idle"
             /\ op' = NoOp
             /\ ret' = r

\* flash_read_cfg: what it returns is Lookup; all it may change is the first
\* sequence word.
ReadCfg == /\ pc = "idle"
           /\ flash' = Formatted(flash)
           /\ UNCHANGED <<pc, op, ret>>

\* flash_save_cfg up to its first write.  Bound: the sequence word is not used up
\* (in the code it takes 2^32 - 2 packs, more erases than the sectors survive).
SaveBegin(id, v) ==
  LET f   == Formatted(flash)
      cur == CurBank(f)
      was == Lookup(f[cur], id)
  IN  /\ pc = "idle"
      /\ Words[v] <= MaxWords
      /\ was # Intact(v)
      /\ Fits(f[cur], v) \/ f[cur].hdr > 0
      /\ flash' = f
      /\ pc' = IF Fits(f[cur], v) THEN "append" ELSE "erase"
      /\ op' = [id |-> id, val |-> v, cur |-> cur, was |-> was,
                new |-> IF Fits(f[cur], v) THEN cur ELSE PackBank(f), scan |-> 1]
      /\ ret' = "none"

\* The same object is there already.
SaveSame(id, v) ==
  LET f == Formatted(flash)
  IN  /\ pc = "idle"
      /\ Words[v] <= MaxWords
      /\ Lookup(f[CurBank(f)], id) = Intact(v)
      /\ flash' = f
      /\ ret' = "true"
      /\ UNCHANGED <<pc, op>>

SaveTooBig(v) == /\ pc = "idle"
                 /\ Words[v] > MaxWords
                 /\ ret' = "false"
                 /\ UNCHANGED <<flash, pc, op>>

\* Mutant: the new sector keeps its records.
PackEraseHeader == /\ pc = "erase"
                   /\ flash' = [flash EXCEPT ![op.new].hdr = Erased]
                   /\ pc' = "copy"
                   /\ UNCHANGED <<op, ret>>

\* pack_cfg_fmem: erase the new sector
PackErase == /\ pc = "erase"
             /\ flash' = [flash EXCEPT ![op.new] = EmptyBank]
             /\ pc' = "copy"
             /\ UNCHANGED <<op, ret>>

\* Mutant: what is there already is looked up in the old sector.
ToCopyFromOld(id) == /\ id # op.id
                     /\ Lookup(flash[op.cur], id) = None

\* The record the loop has come to is of another object that is not copied yet.
ToCopy(id) == /\ id # op.id
              /\ Lookup(flash[op.new], id) = None

\* pack_cfg_fmem: one turn of the loop that copies a record
PackCopy ==
  LET r == flash[op.cur].recs[op.scan]
      o == Lookup(flash[op.cur], r.id)
  IN  /\ pc = "copy"
      /\ PackVisits(flash[op.cur], op.scan)
      /\ ToCopy(r.id)
      /\ Fits(flash[op.new], o.val)   \* always so: PackFits
      /\ flash' = [flash EXCEPT ![op.new] = WithRecord(@, r.id, o.val, o.body)]
      /\ op' = [op EXCEPT !.scan = @ + 1]
      /\ UNCHANGED <<pc, ret>>

\* Mutant: the loop does not step over a record it need not copy.
PackSkipStays == /\ pc = "copy"
                 /\ PackVisits(flash[op.cur], op.scan)
                 /\ ~ToCopy(flash[op.cur].recs[op.scan].id)
                 /\ UNCHANGED vars

\* pack_cfg_fmem: one turn of the loop that copies nothing
PackSkip == /\ pc = "copy"
            /\ PackVisits(flash[op.cur], op.scan)
            /\ ~ToCopy(flash[op.cur].recs[op.scan].id)
            /\ op' = [op EXCEPT !.scan = @ + 1]
            /\ UNCHANGED <<flash, pc, ret>>

\* pack_cfg_fmem: the loop has ended; the new sector becomes the current one
PackHeader ==
  /\ pc = "copy"
  /\ ~PackVisits(flash[op.cur], op.scan)
  /\ flash' = [flash EXCEPT ![op.new].hdr = flash[op.cur].hdr - 1]
  /\ IF Fits(flash[op.new], op.val)
     THEN pc' = "append" /\ UNCHANGED <<op, ret>>
     ELSE Return("false")

\* flash_save_cfg: write the object
SaveAppend ==
  /\ pc = "append"
  /\ flash' = [flash EXCEPT ![op.new] = WithRecord(@, op.id, op.val, "whole")]
  /\ Return("true")

(***************************************************************************)
(* Faults.                                                                 *)
(***************************************************************************)
\* The flash operation under way, cut short or finished.
CutShort ==
  \/ /\ pc = "erase"
     /\ \E bk \in CutErases(flash[op.new]) : flash' = [flash EXCEPT ![op.new] = bk]
  \/ /\ pc = "copy" /\ PackVisits(flash[op.cur], op.scan)
     /\ LET r == flash[op.cur].recs[op.scan]
            o == Lookup(flash[op.cur], r.id)
        IN  /\ ToCopy(r.id)
            /\ Fits(flash[op.new], o.val)
            /\ \E bk \in CutWrites(flash[op.new], r.id, o.val, o.body) :
                 flash' = [flash EXCEPT ![op.new] = bk]
  \/ /\ pc = "append"
     /\ \E bk \in CutWrites(flash[op.new], op.id, op.val, "whole") :
          flash' = [flash EXCEPT ![op.new] = bk]

\* Power fails: what is in RAM is gone.
Crash == /\ "crash" \in Faults
         /\ pc # "idle"
         /\ CutShort \/ UNCHANGED flash
         /\ Return("none")

\* The SPI driver reports an error.  flash_save_cfg tests the result of
\* pack_cfg_fmem for 0 only: the code 1 that stands for an error is then used as
\* the address the object is written to: outside the store, which is all of the
\* flash that is modelled, and the save returns true.
FlashError ==
  /\ "error" \in Faults
  /\ pc # "idle"
  /\ \/ CutShort
     \/ UNCHANGED flash /\ pc = "copy" /\ ~PackVisits(flash[op.cur], op.scan)
  /\ \/ Return("false")
     \/ pc \in {"erase", "copy"} /\ Return("true")

Step == PackErase \/ PackCopy \/ PackSkip \/ PackHeader \/ SaveAppend

Next == \/ ReadCfg
        \/ \E id \in Ids, v \in Vals : SaveBegin(id, v) \/ SaveSame(id, v)
        \/ \E v \in Vals : SaveTooBig(v)
        \/ Step
        \/ Crash
        \/ FlashError

Spec     == Init /\ [][Next]_vars
FairSpec == Spec /\ WF_vars(Step)

(***************************************************************************)
(* Properties.                                                             *)
(***************************************************************************)
BankState == [hdr : 0 .. Erased, recs : Seq(Rec)]
OpState   == [id : Ids, val : Vals, cur : Bank, new : Bank, scan : Nat \ {0},
              was : [val : Vals, body : Body] \cup {None}]

\* The state of the store and of the save in progress has its type.
TypeOK == /\ flash \in [Bank -> BankState]
          /\ pc \in {"idle", "erase", "copy", "append"}
          /\ IF pc = "idle" THEN op = NoOp ELSE op \in OpState
          /\ ret \in {"none", "true", "false"}

\* No two sectors of a formatted store claim the same place in the sequence, so the
\* current sector is never a matter of which address comes first
\* (get_addr_bscfg picks the first of equals).
HeadersDistinct ==
  \A b, c \in Bank : (b # c /\ flash[b].hdr = flash[c].hdr) => flash[b].hdr = Erased

\* Until the new sector has its sequence word, the sector being packed stays the
\* current one: a power cut anywhere before that finds the old settings
\* (pack_cfg_fmem writes the sequence word last).
OldBankRules == pc \in {"erase", "copy"} => /\ CurBank(flash) = op.cur
                                            /\ op.new # op.cur

\* Every record of a sector lies within the sector, so a write never runs into the
\* next one (get_addr_fobj_save: faddr < fend).
WithinBank == \A b \in Bank : End(flash[b]) < BankWords

\* Packing never runs out of room half-way: what is copied fits the new sector, so
\* pack_cfg_fmem's exit in the middle of its loop (xaddr < 4) is never taken.
PackFits == (pc = "copy" /\ PackVisits(flash[op.cur], op.scan)) =>
              LET id == flash[op.cur].recs[op.scan].id
              IN  ToCopy(id) => Fits(flash[op.new], Lookup(flash[op.cur], id).val)

\* What the pack loop has done at any turn: of the objects whose records it has
\* passed, the new sector holds what the old one says, it never holds the object being
\* saved, and nothing that the old sector does not say.
PackProgress ==
  pc = "copy" =>
    LET old == flash[op.cur]
        new == flash[op.new]
    IN  /\ new.hdr = Erased
        /\ op.scan <= Len(old.recs) + 1
        /\ \A i \in Ids : Lookup(new, i) # None => i # op.id /\ Lookup(new, i) = Lookup(old, i)
        /\ \A k \in 1 .. op.scan - 1 :
             old.recs[k].id # op.id => Lookup(new, old.recs[k].id) # None

\* What callers see of the store: during the write that follows a pack the object
\* being saved is accounted for by the save.
View == [i \in Ids |-> IF pc = "append" /\ i = op.id
                       THEN op.was
                       ELSE Lookup(flash[CurBank(flash)], i)]

Store == INSTANCE ConfigStore WITH
           store   <- View,
           pending <- IF pc = "idle" THEN {} ELSE {[id |-> op.id, val |-> op.val]},
           ret     <- ret,
           Errors  <- "error" \in Faults

\* The store of records in sectors behaves like the plain map of ConfigStore: a
\* save that returns true has stored the object, unless the flash reported an error,
\* reads find the object last saved through any number of packs, and a power cut or an
\* error at any step of a save can damage no object but the one being saved.
ImplementsStore == Store!CSpec

\* Whatever fails, and whenever, no object changes but the one being saved.
OthersUntouched ==
  [][\A i \in Ids : (pc = "idle" \/ i # op.id) => View'[i] = View[i]]_vars

\* A save that was started returns (or the power fails): the pack loop ends.
SaveReturns == (pc # "idle") ~> (pc = "idle")

\* "returns: the size of the object of the last save, -1 - not found": an object that
\* was saved once is never reported as not found later.
NeverForgotten ==
  [][\A i \in Ids : View[i] \in [val : Vals, body : {"whole"}] => View'[i] # None]_vars

=============================================================================
