--------------------------- MODULE FlashEepProofs ---------------------------
(***************************************************************************)
(* Theorems about the settings store: its layout and sequence words, and   *)
(* that it implements the map of ConfigStore, for any number of sectors,   *)
(* any sector size, any ids and any values.                                *)
(***************************************************************************)
EXTENDS FlashEep, WellFoundedInduction, TLAPS

(***************************************************************************)
(* Least and greatest elements                                             *)
(***************************************************************************)
\* A non-empty set of naturals has a least element.
LEMMA LeastNatural ==
  ASSUME NEW S \in SUBSET Nat, S # {}
  PROVE  \E x \in S : \A y \in S : x <= y
<1> DEFINE R == OpToRel(<, Nat)
<1>1. \E x \in S : \A y \in S : ~ (<<y, x>> \in R)
  <2>1. IsWellFoundedOn(R, Nat)  BY NatLessThanWellFounded
  <2> HIDE DEF R
  <2> QED  BY <2>1, WFMin
<1>2. \A x, y \in Nat : y < x => <<y, x>> \in R
  BY DEF OpToRel
<1>3. PICK x \in S : \A y \in S : ~ (<<y, x>> \in R)  BY <1>1
<1>4. \A y \in S : ~ (y < x)  BY <1>2, <1>3
<1> QED  BY <1>4

\* A non-empty bounded set of naturals has a greatest element.
LEMMA GreatestNatural ==
  ASSUME NEW n \in Nat, NEW S \in SUBSET (0 .. n), S # {}
  PROVE  \E x \in S : \A y \in S : y <= x
<1> DEFINE T == {n - x : x \in S}
<1>1. T \in SUBSET Nat /\ T # {}
  <2>1. \A x \in S : n - x \in Nat  OBVIOUS
  <2> QED  BY <2>1
<1>2. PICK t \in T : \A u \in T : t <= u
  <2> HIDE DEF T
  <2> QED  BY <1>1, LeastNatural
<1>3. PICK x \in S : t = n - x  BY <1>2
<1>4. \A y \in S : y <= x
  <2> TAKE y \in S
  <2>1. n - y \in T  OBVIOUS
  <2>2. n - x <= n - y  BY <1>2, <1>3, <2>1
  <2> QED  BY <2>2, SMT
<1> QED  BY <1>4

(***************************************************************************)
(* Sectors: the one that is current and the one to pack into.              *)
(***************************************************************************)
Headers(f) == f \in [Bank -> BankState]

\* Among the first NBanks naturals there is a first place of the least value, and a
\* first and a last place of the greatest one.
LEMMA Extremes ==
  ASSUME NEW h \in [Bank -> 0 .. Erased]
  PROVE  /\ \E m \in Bank : \A c \in Bank : h[m] < h[c] \/ (h[m] = h[c] /\ m <= c)
         /\ \E m \in Bank : \A c \in Bank : h[m] > h[c] \/ (h[m] = h[c] /\ m <= c)
         /\ \E m \in Bank : \A c \in Bank : h[m] > h[c] \/ (h[m] = h[c] /\ m >= c)
<1> DEFINE H == {h[b] : b \in Bank}
<1>1. H \in SUBSET (0 .. Erased) /\ H # {} /\ Erased \in Nat
  <2>1. 0 \in Bank  BY StoreAssumption DEF Bank
  <2>2. h[0] \in H  BY <2>1
  <2> QED  BY <2>2, StoreAssumption
<1>2. \A x \in H : \E b \in Bank : h[b] = x  OBVIOUS
<1>3. \A b \in Bank : h[b] \in H  OBVIOUS
<1>4. PICK lo \in H : \A x \in H : lo <= x
  <2>1. H \in SUBSET Nat  BY <1>1
  <2> HIDE DEF H
  <2> QED  BY <1>1, <2>1, LeastNatural
<1>5. PICK hi \in H : \A x \in H : x <= hi
  <2> HIDE DEF H
  <2> QED  BY <1>1, GreatestNatural
<1> HIDE DEF H
<1> DEFINE M(x) == {b \in Bank : h[b] = x}
<1>6. \A x \in H : M(x) \in SUBSET Nat /\ M(x) \in SUBSET (0 .. NBanks) /\ M(x) # {}
  <2>1. Bank \subseteq Nat /\ Bank \subseteq 0 .. NBanks  BY StoreAssumption DEF Bank
  <2> QED  BY <1>2, <2>1
<1>7. \A x \in H : \E m \in M(x) : \A b \in M(x) : m <= b
  <2> HIDE DEF M
  <2> QED  BY <1>6, LeastNatural
<1>8. \A x \in H : \E m \in M(x) : \A b \in M(x) : b <= m
  <2> HIDE DEF M
  <2>1. NBanks \in Nat  BY StoreAssumption
  <2> QED  BY <1>6, <2>1, GreatestNatural
<1>9. \E m \in Bank : \A c \in Bank : h[m] < h[c] \/ (h[m] = h[c] /\ m <= c)
  <2>1. PICK m \in M(lo) : \A b \in M(lo) : m <= b  BY <1>7
  <2> WITNESS m \in Bank
  <2> QED  BY <2>1, <1>3, <1>4, <1>1
<1>10. \E m \in Bank : \A c \in Bank : h[m] > h[c] \/ (h[m] = h[c] /\ m <= c)
  <2>1. PICK m \in M(hi) : \A b \in M(hi) : m <= b  BY <1>7
  <2> WITNESS m \in Bank
  <2> QED  BY <2>1, <1>3, <1>5, <1>1
<1>11. \E m \in Bank : \A c \in Bank : h[m] > h[c] \/ (h[m] = h[c] /\ m >= c)
  <2>1. PICK m \in M(hi) : \A b \in M(hi) : b <= m  BY <1>8
  <2> WITNESS m \in Bank
  <2> QED  BY <2>1, <1>3, <1>5, <1>1
<1> QED  BY <1>9, <1>10, <1>11

\* get_addr_bscfg(false) finds a sector, and no sector has a smaller sequence word.
LEMMA CurBankIsLeast ==
  ASSUME NEW f, Headers(f)
  PROVE  /\ CurBank(f) \in Bank
         /\ \A c \in Bank : \/ f[CurBank(f)].hdr < f[c].hdr
                            \/ f[CurBank(f)].hdr = f[c].hdr /\ CurBank(f) <= c
<1> DEFINE h == [b \in Bank |-> f[b].hdr]
<1>1. h \in [Bank -> 0 .. Erased]  BY DEF Headers, BankState
<1>2. \E m \in Bank : \A c \in Bank : h[m] < h[c] \/ (h[m] = h[c] /\ m <= c)
  BY <1>1, Extremes
<1>3. \E m \in Bank : \A c \in Bank : \/ f[m].hdr < f[c].hdr
                                      \/ f[m].hdr = f[c].hdr /\ m <= c
  BY <1>2
<1> QED  BY <1>3 DEF CurBank

\* A sector whose sequence word is less than every other is the current one.
LEMMA CurBankUnique ==
  ASSUME NEW f, Headers(f), NEW b \in Bank,
         \A c \in Bank \ {b} : f[b].hdr < f[c].hdr
  PROVE  CurBank(f) = b
<1>1. \A c \in Bank : f[c].hdr \in Nat  BY StoreAssumption DEF Headers, BankState
<1>2. SUFFICES ASSUME CurBank(f) # b PROVE FALSE  OBVIOUS
<1>3. CurBank(f) \in Bank /\ f[b].hdr < f[CurBank(f)].hdr  BY <1>2, CurBankIsLeast
<1>4. \/ f[CurBank(f)].hdr < f[b].hdr
      \/ f[CurBank(f)].hdr = f[b].hdr
  BY CurBankIsLeast
<1> QED  BY <1>1, <1>3, <1>4

\* get_addr_bscfg(true) finds a sector, and no sector has a greater sequence word.
LEMMA PackBankIsGreatest ==
  ASSUME NEW f, Headers(f)
  PROVE  /\ PackBank(f) \in Bank
         /\ \A c \in Bank : f[c].hdr <= f[PackBank(f)].hdr
<1> DEFINE h == [b \in Bank |-> f[b].hdr]
<1>1. h \in [Bank -> 0 .. Erased]  BY DEF Headers, BankState
<1>2. /\ \E m \in Bank : \A c \in Bank : h[m] > h[c] \/ (h[m] = h[c] /\ m <= c)
      /\ \E m \in Bank : \A c \in Bank : h[m] > h[c] \/ (h[m] = h[c] /\ m >= c)
  BY <1>1, Extremes
<1>3. \E b \in Bank : \A c \in Bank :
         \/ f[b].hdr > f[c].hdr
         \/ f[b].hdr = f[c].hdr /\ f[b].hdr = Erased /\ b >= c
         \/ f[b].hdr = f[c].hdr /\ f[b].hdr < Erased /\ b <= c
  <2>1. PICK m \in Bank : \A c \in Bank : h[m] > h[c] \/ (h[m] = h[c] /\ m <= c)  BY <1>2
  <2>2. PICK n \in Bank : \A c \in Bank : h[n] > h[c] \/ (h[n] = h[c] /\ n >= c)  BY <1>2
  <2>3. \A c \in Bank : h[c] = f[c].hdr /\ h[c] \in 0 .. Erased  BY <1>1
  <2>4. CASE h[m] = Erased
    <3>1. h[n] = Erased  BY <2>2, <2>3, <2>4, StoreAssumption
    <3> QED  BY <2>2, <2>3, <3>1
  <2>5. CASE h[m] < Erased  BY <2>1, <2>3, <2>5
  <2> QED  BY <2>3, <2>4, <2>5, StoreAssumption
<1> HIDE DEF h
<1>4. \A c \in Bank : \/ f[PackBank(f)].hdr > f[c].hdr
                     \/ f[PackBank(f)].hdr = f[c].hdr
  BY <1>3 DEF PackBank
<1>5. PackBank(f) \in Bank  BY <1>3 DEF PackBank
<1>6. \A c \in Bank : f[c].hdr \in Nat  BY StoreAssumption DEF Headers, BankState
<1> QED  BY <1>4, <1>5, <1>6

(***************************************************************************)
(* Records: where they go and which one a read finds.                      *)
(***************************************************************************)
Objs == [val : Vals, body : Body]

\* The place of the next record is a word offset.
LEMMA EndType ==
  ASSUME NEW bk \in BankState
  PROVE  End(bk) \in Nat
<1>1. CASE bk.recs = <<>>  BY <1>1 DEF End
<1>2. CASE bk.recs # <<>>
  <2> DEFINE r == bk.recs[Len(bk.recs)]
  <2>1. r \in Rec  BY <1>2 DEF BankState
  <2>2. r.addr \in Nat /\ RecWords(r.val) \in Nat
    BY <2>1, StoreAssumption DEF Rec, RecWords
  <2> QED  BY <1>2, <2>2 DEF End
<1> QED  BY <1>1, <1>2

\* The last of a non-empty set of places in a sector exists.
LEMMA LastIndexOf ==
  ASSUME NEW bk \in BankState, NEW S \in SUBSET DOMAIN bk.recs, S # {}
  PROVE  LastIndex(S) \in S /\ \A i \in S : i <= LastIndex(S)
<1>1. Len(bk.recs) \in Nat /\ S \in SUBSET (0 .. Len(bk.recs))
  BY DEF BankState
<1>2. \E x \in S : \A y \in S : y <= x
  BY <1>1, GreatestNatural
<1> QED  BY <1>2 DEF LastIndex

\* get_addr_fobj finds an object exactly when the sector has a record of it.
LEMMA LookupFinds ==
  ASSUME NEW bk \in BankState, NEW j \in Ids
  PROVE  /\ Lookup(bk, j) \in Objs \cup {None}
         /\ Lookup(bk, j) = None <=> Matches(bk, j) = {}
<1>1. CASE Matches(bk, j) = {}
  BY <1>1 DEF Lookup
<1>2. CASE Matches(bk, j) # {}
  <2>1. Matches(bk, j) \in SUBSET DOMAIN bk.recs  BY DEF Matches
  <2>2. LastIndex(Matches(bk, j)) \in DOMAIN bk.recs
    BY <1>2, <2>1, LastIndexOf
  <2>3. bk.recs[LastIndex(Matches(bk, j))] \in Rec
    BY <2>2 DEF BankState
  <2>4. Lookup(bk, j) \in Objs
    BY <1>2, <2>3 DEF Lookup, Object, Rec, Objs
  <2> QED  BY <1>2, <2>4, StoreAssumption DEF Objs
<1> QED  BY <1>1, <1>2

\* A new record is the one that reads of its object find, and changes no other read.
LEMMA LookupAppend ==
  ASSUME NEW bk \in BankState, NEW id \in Ids, NEW v \in Vals, NEW t \in Body,
         NEW j \in Ids, End(bk) < BankWords - 1
  PROVE  /\ WithRecord(bk, id, v, t) \in BankState
         /\ Lookup(WithRecord(bk, id, v, t), j) =
               IF j = id THEN [val |-> v, body |-> t] ELSE Lookup(bk, j)
<1> DEFINE r  == Record(bk, id, v, t)
           nb == WithRecord(bk, id, v, t)
           n  == Len(bk.recs)
<1>1. r \in Rec /\ r.id = id /\ r.addr = End(bk) /\ r.val = v /\ r.body = t
  BY EndType DEF Record, Rec
<1>2. bk.recs \in Seq(Rec) /\ n \in Nat /\ DOMAIN bk.recs = 1 .. n
  BY DEF BankState
<1>3. nb.recs = Append(bk.recs, r) /\ nb.hdr = bk.hdr /\ nb \in BankState
  BY <1>1, <1>2 DEF WithRecord, BankState
<1>4. /\ DOMAIN nb.recs = 1 .. n + 1
      /\ nb.recs[n + 1] = r
      /\ \A i \in 1 .. n : nb.recs[i] = bk.recs[i]
  BY <1>1, <1>2, <1>3
<1> HIDE DEF r, nb, n
<1>5. CASE j = id
  <2>1. n + 1 \in Matches(nb, j)  BY <1>1, <1>2, <1>4, <1>5 DEF Matches
  <2>2. Matches(nb, j) \in SUBSET (1 .. n + 1)  BY <1>4 DEF Matches
  <2>3. /\ LastIndex(Matches(nb, j)) \in 1 .. n + 1
        /\ n + 1 <= LastIndex(Matches(nb, j))
    BY <1>3, <1>4, <2>1, <2>2, LastIndexOf
  <2>4. LastIndex(Matches(nb, j)) = n + 1  BY <1>2, <2>3
  <2> QED  BY <1>1, <1>3, <1>4, <1>5, <2>1, <2>4 DEF Lookup, Object, nb
<1>6. CASE j # id
  <2>1. Matches(nb, j) = Matches(bk, j)
    <3>1. \A i \in 1 .. n + 1 : i \in Matches(nb, j) <=> i \in Matches(bk, j)
      BY <1>1, <1>2, <1>4, <1>6 DEF Matches
    <3>2. Matches(nb, j) \subseteq 1 .. n + 1 /\ Matches(bk, j) \subseteq 1 .. n + 1
      BY <1>2, <1>4 DEF Matches
    <3> QED  BY <3>1, <3>2
  <2>2. CASE Matches(bk, j) = {}
    BY <1>3, <1>6, <2>1, <2>2 DEF Lookup, nb
  <2>3. CASE Matches(bk, j) # {}
    <3>1. LastIndex(Matches(bk, j)) \in 1 .. n
      <4>1. Matches(bk, j) \in SUBSET DOMAIN bk.recs  BY DEF Matches
      <4> QED  BY <1>2, <2>3, <4>1, LastIndexOf
    <3> QED  BY <1>3, <1>4, <1>6, <2>1, <2>3, <3>1 DEF Lookup, nb
  <2> QED  BY <2>2, <2>3
<1> QED  BY <1>3, <1>5, <1>6 DEF nb

(***************************************************************************)
(* The inductive invariant.                                                *)
(***************************************************************************)
Leads(f, b) == \A c \in Bank \ {b} : f[b].hdr < f[c].hdr

Distinct(f) == \A b, c \in Bank : (b # c /\ f[b].hdr = f[c].hdr) => f[b].hdr = Erased

RecordsFit(bk) == \A i \in DOMAIN bk.recs :
                    bk.recs[i].addr + RecWords(bk.recs[i].val) < BankWords

Packing == pc \in {"erase", "copy"} =>
             /\ Leads(flash, op.cur)
             /\ op.new # op.cur
             /\ \A c \in Bank : flash[c].hdr <= flash[op.new].hdr
             /\ flash[op.cur].hdr > 0
             /\ op.was = Lookup(flash[op.cur], op.id)
             /\ pc = "erase" => op.scan = 1

Appending == pc = "append" => /\ Leads(flash, op.new)
                              /\ Fits(flash[op.new], op.val)
                              /\ Lookup(flash[op.new], op.id) \in {op.was, None}

IInv == /\ TypeOK
        /\ Distinct(flash)
        /\ \A b \in Bank : RecordsFit(flash[b])
        /\ Packing
        /\ Appending
        /\ PackProgress

\* A record that fits leaves every record of its sector within the sector.
LEMMA AppendFits ==
  ASSUME NEW bk \in BankState, NEW id \in Ids, NEW v \in Vals, NEW t \in Body,
         RecordsFit(bk), Fits(bk, v)
  PROVE  /\ End(bk) < BankWords - 1
         /\ RecordsFit(WithRecord(bk, id, v, t))
         /\ WithRecord(bk, id, v, t) \in BankState
         /\ WithRecord(bk, id, v, t).hdr = bk.hdr
<1> DEFINE r  == Record(bk, id, v, t)
           nb == WithRecord(bk, id, v, t)
           n  == Len(bk.recs)
<1>1. RecWords(v) \in Nat /\ RecWords(v) >= 1 /\ End(bk) \in Nat
  BY EndType, StoreAssumption DEF RecWords
<1>2. End(bk) + RecWords(v) < BankWords /\ End(bk) < BankWords - 1
  BY <1>1, StoreAssumption DEF Fits
<1>3. nb \in BankState
  BY <1>2, LookupAppend
<1>4. bk.recs \in Seq(Rec) /\ n \in Nat /\ nb.recs = Append(bk.recs, r) /\ nb.hdr = bk.hdr
  BY DEF BankState, WithRecord
<1>5. r.addr = End(bk) /\ r.val = v
  BY DEF Record
<1>6. \A i \in DOMAIN nb.recs : \/ i = n + 1 /\ nb.recs[i] = r
                                \/ i \in DOMAIN bk.recs /\ nb.recs[i] = bk.recs[i]
  <2>1. r \in Rec  BY <1>1 DEF Record, Rec
  <2> HIDE DEF r, nb
  <2> QED  BY <1>4, <2>1
<1> HIDE DEF r, nb, n
<1>7. RecordsFit(nb)
  BY <1>2, <1>5, <1>6 DEF RecordsFit
<1> QED  BY <1>2, <1>3, <1>4, <1>7 DEF nb

\* get_addr_bscfg(false) on a store with distinct sequence words: after it one sector
\* leads, and it is the one that reads used before.
LEMMA FormattedLeads ==
  ASSUME NEW f \in [Bank -> BankState], Distinct(f)
  PROVE  /\ Formatted(f) \in [Bank -> BankState]
         /\ Distinct(Formatted(f))
         /\ CurBank(Formatted(f)) \in Bank
         /\ Leads(Formatted(f), CurBank(Formatted(f)))
         /\ CurBank(Formatted(f)) = CurBank(f)
         /\ \A b \in Bank : Formatted(f)[b].recs = f[b].recs
<1> USE StoreAssumption
<1> DEFINE g == Formatted(f)
<1>1. CASE \A b \in Bank : f[b].hdr = Erased
  <2>1. g = [f EXCEPT ![0].hdr = Erased - 1]  BY <1>1 DEF Formatted
  <2>2. 0 \in Bank /\ Bank \subseteq Nat  BY DEF Bank
  <2>3. /\ g \in [Bank -> BankState]
        /\ g[0].hdr = Erased - 1
        /\ \A b \in Bank \ {0} : g[b].hdr = Erased
        /\ \A b \in Bank : g[b].recs = f[b].recs
    <3>1. Erased - 1 \in 0 .. Erased  OBVIOUS
    <3> HIDE DEF g
    <3> QED  BY <1>1, <2>1, <2>2, <3>1 DEF BankState
  <2> HIDE DEF g
  <2>4. Leads(g, 0) /\ Distinct(g)  BY <2>2, <2>3 DEF Leads, Distinct
  <2>5. CurBank(g) = 0  BY <2>2, <2>3, <2>4, CurBankUnique DEF Headers, Leads
  <2>6. CurBank(f) = 0
    <3>1. CurBank(f) \in Bank  BY CurBankIsLeast DEF Headers
    <3>2. \/ f[CurBank(f)].hdr < f[0].hdr
          \/ f[CurBank(f)].hdr = f[0].hdr /\ CurBank(f) <= 0
      BY <2>2, CurBankIsLeast DEF Headers
    <3>3. f[CurBank(f)].hdr = Erased /\ f[0].hdr = Erased  BY <1>1, <2>2, <3>1
    <3>4. CurBank(f) \in Nat  BY <3>1, <2>2
    <3> QED  BY <3>2, <3>3, <3>4
  <2> QED  BY <2>2, <2>3, <2>4, <2>5, <2>6 DEF g
<1>2. CASE ~ \A b \in Bank : f[b].hdr = Erased
  <2>1. g = f  BY <1>2 DEF Formatted
  <2>2. \A b \in Bank : f[b].hdr \in 0 .. Erased  BY DEF BankState
  <2>3. CurBank(f) \in Bank  BY CurBankIsLeast DEF Headers
  <2>4. PICK b \in Bank : f[b].hdr < Erased  BY <1>2, <2>2
  <2>5. f[CurBank(f)].hdr < Erased
    BY <2>2, <2>3, <2>4, CurBankIsLeast DEF Headers
  <2>6. Leads(f, CurBank(f))
    <3> SUFFICES ASSUME NEW c \in Bank \ {CurBank(f)} PROVE f[CurBank(f)].hdr < f[c].hdr
      BY DEF Leads
    <3>1. f[CurBank(f)].hdr # f[c].hdr  BY <2>3, <2>5, <2>2 DEF Distinct
    <3> QED  BY <3>1, CurBankIsLeast DEF Headers
  <2> QED  BY <2>1, <2>3, <2>6 DEF g
<1> QED  BY <1>1, <1>2

\* The sector to pack into is not the current one.
LEMMA PackElsewhere ==
  ASSUME NEW f \in [Bank -> BankState], NEW b \in Bank, Leads(f, b)
  PROVE  /\ PackBank(f) \in Bank \ {b}
         /\ \A c \in Bank : f[c].hdr <= f[PackBank(f)].hdr
<1>1. PackBank(f) \in Bank /\ \A c \in Bank : f[c].hdr <= f[PackBank(f)].hdr
  BY PackBankIsGreatest DEF Headers
<1>2. PICK c \in Bank : c # b  BY StoreAssumption DEF Bank
<1>3. f[b].hdr < f[c].hdr /\ f[c].hdr <= f[PackBank(f)].hdr  BY <1>1, <1>2 DEF Leads
<1>4. f[b].hdr \in Nat /\ f[c].hdr \in Nat  BY StoreAssumption DEF BankState
<1> QED  BY <1>1, <1>3, <1>4

(***************************************************************************)
(* Every step preserves the invariant: the steps of a save.                *)
(***************************************************************************)
\* flash_read_cfg keeps the invariant, with the sequence word it may write.
LEMMA ReadCfgInv == IInv /\ ReadCfg => IInv'
<1> SUFFICES ASSUME IInv, ReadCfg PROVE IInv'  OBVIOUS
<1>1. /\ flash' \in [Bank -> BankState] /\ Distinct(flash')
      /\ \A b \in Bank : flash'[b].recs = flash[b].recs
  BY FormattedLeads DEF IInv, TypeOK, ReadCfg
<1>2. pc' = "idle" /\ UNCHANGED <<op, ret>> /\ pc = "idle"  BY DEF ReadCfg
<1>3. TypeOK'  BY <1>1, <1>2 DEF IInv, TypeOK
<1>4. \A b \in Bank : RecordsFit(flash'[b])  BY <1>1 DEF IInv, RecordsFit
<1> QED  BY <1>1, <1>2, <1>3, <1>4 DEF IInv, Packing, Appending, PackProgress

\* A save of what is there already keeps the invariant.
LEMMA SaveSameInv ==
  ASSUME NEW id \in Ids, NEW v \in Vals
  PROVE  IInv /\ SaveSame(id, v) => IInv'
<1> SUFFICES ASSUME IInv, SaveSame(id, v) PROVE IInv'  OBVIOUS
<1>1. /\ flash' \in [Bank -> BankState] /\ Distinct(flash')
      /\ \A b \in Bank : flash'[b].recs = flash[b].recs
  BY FormattedLeads DEF IInv, TypeOK, SaveSame
<1>2. pc' = "idle" /\ UNCHANGED op /\ ret' = "true" /\ pc = "idle"  BY DEF SaveSame
<1>3. TypeOK'  BY <1>1, <1>2 DEF IInv, TypeOK
<1>4. \A b \in Bank : RecordsFit(flash'[b])  BY <1>1 DEF IInv, RecordsFit
<1> QED  BY <1>1, <1>2, <1>3, <1>4 DEF IInv, Packing, Appending, PackProgress

\* The start of a save sets up its local variables as the invariant wants them: the
\* sector to pack into is not the current one and its sequence word is no rival.
LEMMA SaveBeginInv ==
  ASSUME NEW id \in Ids, NEW v \in Vals
  PROVE  IInv /\ SaveBegin(id, v) => IInv'
<1> SUFFICES ASSUME IInv, SaveBegin(id, v) PROVE IInv'  OBVIOUS
<1> DEFINE f   == Formatted(flash)
           cur == CurBank(f)
           was == Lookup(f[cur], id)
<1>1. /\ f \in [Bank -> BankState] /\ Distinct(f) /\ cur \in Bank /\ Leads(f, cur)
      /\ \A b \in Bank : f[b].recs = flash[b].recs
  BY FormattedLeads DEF IInv, TypeOK
<1>2. /\ flash' = f /\ ret' = "none"
      /\ Fits(f[cur], v) \/ f[cur].hdr > 0
      /\ pc' = IF Fits(f[cur], v) THEN "append" ELSE "erase"
      /\ op' = [id |-> id, val |-> v, cur |-> cur, was |-> was,
                new |-> IF Fits(f[cur], v) THEN cur ELSE PackBank(f), scan |-> 1]
  BY DEF SaveBegin
<1>3. /\ PackBank(f) \in Bank \ {cur}
      /\ \A c \in Bank : f[c].hdr <= f[PackBank(f)].hdr
  <2> HIDE DEF f, cur
  <2> QED  BY <1>1, PackElsewhere
<1>4. was \in Objs \cup {None}
  <2>1. f[cur] \in BankState  BY <1>1
  <2> QED  BY <2>1, LookupFinds
<1>5. \A b \in Bank : RecordsFit(f[b])  BY <1>1 DEF IInv, RecordsFit
<1> HIDE DEF f, cur, was
<1>6. op' \in OpState  BY <1>1, <1>2, <1>3, <1>4 DEF OpState, Objs
<1>7. TypeOK'
  BY <1>1, <1>2, <1>6 DEF IInv, TypeOK
<1>8. CASE Fits(f[cur], v)
  <2>1. pc' = "append" /\ op'.new = cur /\ op'.val = v /\ op'.id = id /\ op'.was = was
    BY <1>2, <1>8
  <2>2. Lookup(flash'[op'.new], op'.id) = op'.was  BY <2>1, <1>2 DEF was
  <2> QED  BY <2>1, <2>2, <1>1, <1>2, <1>5, <1>7, <1>8 DEF IInv, Packing, Appending, PackProgress
<1>9. CASE ~ Fits(f[cur], v)
  <2>1. /\ pc' = "erase" /\ op'.cur = cur /\ op'.new = PackBank(f) /\ op'.id = id
        /\ op'.was = Lookup(f[cur], id) /\ op'.scan = 1
    BY <1>2, <1>9 DEF was
  <2>2. Packing'  BY <2>1, <1>1, <1>2, <1>3, <1>9 DEF Packing
  <2> QED  BY <2>1, <2>2, <1>1, <1>2, <1>5, <1>7 DEF IInv, Appending, PackProgress
<1> QED  BY <1>8, <1>9

\* Writing a sector that no other shares its sequence word with.
LEMMA BankWrite ==
  ASSUME NEW f \in [Bank -> BankState], NEW b \in Bank, NEW bk \in BankState
  PROVE  LET g == [f EXCEPT ![b] = bk]
         IN  /\ g \in [Bank -> BankState]
             /\ g[b] = bk
             /\ \A c \in Bank \ {b} : g[c] = f[c]
             /\ Distinct(f) /\ (bk.hdr = Erased \/ bk.hdr = f[b].hdr) => Distinct(g)
<1> DEFINE g == [f EXCEPT ![b] = bk]
<1>1. g \in [Bank -> BankState] /\ g[b] = bk /\ \A c \in Bank \ {b} : g[c] = f[c]
  OBVIOUS
<1> HIDE DEF g
<1>2. ASSUME Distinct(f), bk.hdr = Erased \/ bk.hdr = f[b].hdr
      PROVE  Distinct(g)
  BY <1>1, <1>2 DEF Distinct
<1> QED  BY <1>1, <1>2 DEF g

\* Erasing the sector to pack into keeps the invariant: the pack loop starts on an
\* empty sector.
LEMMA PackEraseInv == IInv /\ PackErase => IInv'
<1> SUFFICES ASSUME IInv, PackErase PROVE IInv'  OBVIOUS
<1>1. /\ pc = "erase" /\ pc' = "copy" /\ UNCHANGED <<op, ret>>
      /\ flash' = [flash EXCEPT ![op.new] = EmptyBank]
  BY DEF PackErase
<1>2. op \in OpState /\ op.new \in Bank /\ op.cur \in Bank /\ op.scan = op'.scan /\ op.id \in Ids
  BY <1>1 DEF IInv, TypeOK, OpState
<1>3. flash \in [Bank -> BankState]  BY DEF IInv, TypeOK
<1>4. /\ EmptyBank \in BankState /\ RecordsFit(EmptyBank) /\ EmptyBank.hdr = Erased
      /\ \A i \in Ids : Matches(EmptyBank, i) = {}
  BY StoreAssumption DEF EmptyBank, BankState, RecordsFit, Matches
<1>5. /\ flash' \in [Bank -> BankState] /\ flash'[op.new] = EmptyBank
      /\ \A c \in Bank \ {op.new} : flash'[c] = flash[c]
      /\ Distinct(flash')
  BY <1>1, <1>2, <1>3, <1>4, BankWrite DEF IInv
<1>6. TypeOK'  BY <1>1, <1>2, <1>5 DEF IInv, TypeOK
<1>7. \A b \in Bank : RecordsFit(flash'[b])  BY <1>4, <1>5 DEF IInv
<1>8. Packing'
  <2>1. op.cur # op.new /\ flash'[op.cur] = flash[op.cur]
    BY <1>1, <1>2, <1>5 DEF IInv, Packing
  <2>2. flash[op.cur].hdr < flash[op.new].hdr
    BY <1>1, <1>2, <2>1 DEF IInv, Packing, Leads
  <2>3. \A c \in Bank : flash[c].hdr \in 0 .. Erased /\ flash'[c].hdr \in 0 .. Erased
    BY <1>3, <1>5 DEF BankState
  <2>4. Leads(flash', op.cur)
    BY <1>1, <1>2, <1>4, <1>5, <2>1, <2>2, <2>3, StoreAssumption DEF IInv, Packing, Leads
  <2>5. \A c \in Bank : flash'[c].hdr <= flash'[op.new].hdr
    BY <1>4, <1>5, <2>3, StoreAssumption
  <2> QED  BY <1>1, <2>1, <2>4, <2>5 DEF IInv, Packing
<1>9. PackProgress'
  <2>1. \A i \in Ids : Lookup(EmptyBank, i) = None  BY <1>4 DEF Lookup
  <2>2. op.scan = 1  BY <1>1 DEF IInv, Packing
  <2>3. flash'[op.cur].recs \in Seq(Rec)  BY <1>2, <1>5 DEF BankState
  <2>4. op.scan <= Len(flash'[op.cur].recs) + 1 /\ 1 .. op.scan - 1 = {}
    BY <2>2, <2>3
  <2> QED  BY <1>1, <1>4, <1>5, <2>1, <2>4 DEF PackProgress
<1> QED  BY <1>1, <1>5, <1>6, <1>7, <1>8, <1>9 DEF IInv, Appending

\* The record that the pack loop looks at is one that reads of its object reach.
LEMMA VisitedIsFound ==
  ASSUME NEW bk \in BankState, NEW k \in Nat \ {0}, PackVisits(bk, k)
  PROVE  /\ k \in DOMAIN bk.recs
         /\ bk.recs[k].id \in Ids
         /\ Lookup(bk, bk.recs[k].id) \in Objs
<1>1. k \in DOMAIN bk.recs  BY DEF PackVisits, BankState
<1>2. bk.recs[k] \in Rec  BY <1>1 DEF BankState
<1>3. bk.recs[k].id \in Ids /\ bk.recs[k].addr \in Nat  BY <1>2 DEF Rec
<1>4. k \in Matches(bk, bk.recs[k].id)
  BY <1>1, <1>3, StoreAssumption DEF Matches, PackVisits
<1>5. Lookup(bk, bk.recs[k].id) # None /\ Lookup(bk, bk.recs[k].id) \in Objs \cup {None}
  BY <1>3, <1>4, LookupFinds
<1> QED  BY <1>1, <1>3, <1>5

\* A turn of the pack loop that copies a record keeps the invariant: what the loop has
\* passed is in the new sector, and nothing else is.
LEMMA PackCopyInv == IInv /\ PackCopy => IInv'
<1> SUFFICES ASSUME IInv, PackCopy PROVE IInv'  OBVIOUS
<1> DEFINE old == flash[op.cur]
           new == flash[op.new]
           id  == old.recs[op.scan].id
           o   == Lookup(old, id)
           nb  == WithRecord(new, id, o.val, o.body)
<1>1. /\ pc = "copy" /\ PackVisits(old, op.scan) /\ ToCopy(id) /\ Fits(new, o.val)
      /\ flash' = [flash EXCEPT ![op.new] = nb]
      /\ op' = [op EXCEPT !.scan = @ + 1]
      /\ UNCHANGED <<pc, ret>>
  BY DEF PackCopy
<1>2. op \in OpState /\ op.new \in Bank /\ op.cur \in Bank /\ op.scan \in Nat \ {0}
  BY <1>1 DEF IInv, TypeOK, OpState
<1>3. flash \in [Bank -> BankState] /\ old \in BankState /\ new \in BankState
  BY <1>2 DEF IInv, TypeOK
<1>4. op.scan \in DOMAIN old.recs /\ id \in Ids /\ o \in Objs
  BY <1>1, <1>2, <1>3, VisitedIsFound
<1>5. o.val \in Vals /\ o.body \in Body /\ o = [val |-> o.val, body |-> o.body]
  BY <1>4 DEF Objs
<1>6. id # op.id /\ Lookup(new, id) = None  BY <1>1 DEF ToCopy
<1>7. RecordsFit(new)  BY <1>2 DEF IInv
<1>8. End(new) < BankWords - 1 /\ nb \in BankState /\ nb.hdr = new.hdr /\ RecordsFit(nb)
  BY <1>1, <1>3, <1>4, <1>5, <1>7, AppendFits
<1>9. \A i \in Ids : Lookup(nb, i) = IF i = id THEN o ELSE Lookup(new, i)
  <2> TAKE i \in Ids
  <2> HIDE DEF new, id, o
  <2>1. Lookup(nb, i) = IF i = id THEN [val |-> o.val, body |-> o.body] ELSE Lookup(new, i)
    BY <1>3, <1>4, <1>5, <1>8, LookupAppend
  <2> QED  BY <2>1, <1>5
<1>10. op.cur # op.new /\ new.hdr = Erased  BY <1>1 DEF IInv, Packing, PackProgress
<1> HIDE DEF nb, o
<1>11. /\ flash' \in [Bank -> BankState] /\ flash'[op.new] = nb
       /\ \A c \in Bank \ {op.new} : flash'[c] = flash[c]
       /\ Distinct(flash')
  BY <1>1, <1>2, <1>3, <1>8, BankWrite DEF IInv
<1>12. \A c \in Bank : flash'[c].hdr = flash[c].hdr  BY <1>8, <1>11
<1>13. flash'[op.cur] = old  BY <1>2, <1>10, <1>11
<1>14. /\ op' \in OpState /\ op'.scan = op.scan + 1
       /\ op'.cur = op.cur /\ op'.new = op.new /\ op'.id = op.id /\ op'.was = op.was
  BY <1>1, <1>2 DEF OpState
<1>15. TypeOK'  BY <1>1, <1>11, <1>14 DEF IInv, TypeOK
<1>16. \A b \in Bank : RecordsFit(flash'[b])  BY <1>8, <1>11 DEF IInv
<1>17. Packing'
  BY <1>1, <1>2, <1>12, <1>13, <1>14 DEF IInv, Packing, Leads
<1>18. PackProgress'
  <2>1. op.scan + 1 <= Len(old.recs) + 1  BY <1>3, <1>4 DEF BankState
  <2>2. \A i \in Ids : Lookup(nb, i) # None => i # op.id /\ Lookup(nb, i) = Lookup(old, i)
    BY <1>1, <1>6, <1>9 DEF IInv, PackProgress, o
  <2>3. ASSUME NEW k \in 1 .. op.scan, old.recs[k].id # op.id
        PROVE  Lookup(nb, old.recs[k].id) # None
    <3>1. k \in DOMAIN old.recs  BY <1>2, <1>3, <1>4 DEF BankState
    <3>2. old.recs[k].id \in Ids
      <4>1. old.recs \in Seq(Rec)  BY <1>3 DEF BankState
      <4> HIDE DEF old
      <4>2. old.recs[k] \in Rec  BY <3>1, <4>1
      <4> QED  BY <4>2 DEF Rec
    <3>3. o # None  BY <1>4, StoreAssumption DEF Objs
    <3>4. CASE k = op.scan  BY <3>3, <3>4, <1>9, <1>4
    <3>5. CASE k # op.scan
      <4>1. k \in 1 .. op.scan - 1  BY <1>2, <3>5
      <4>2. Lookup(new, old.recs[k].id) # None
        BY <1>1, <2>3, <4>1 DEF IInv, PackProgress
      <4> QED  BY <1>9, <3>2, <3>3, <4>2
    <3> QED  BY <3>4, <3>5
  <2> HIDE DEF old, id
  <2>4. op'.scan - 1 = op.scan  BY <1>2, <1>14
  <2> QED  BY <1>8, <1>10, <1>11, <1>13, <1>14, <2>1, <2>2, <2>3, <2>4 DEF PackProgress
<1> QED  BY <1>1, <1>11, <1>15, <1>16, <1>17, <1>18 DEF IInv, Appending

\* So does a turn that copies nothing.
LEMMA PackSkipInv == IInv /\ PackSkip => IInv'
<1> SUFFICES ASSUME IInv, PackSkip PROVE IInv'  OBVIOUS
<1> DEFINE old == flash[op.cur]
           new == flash[op.new]
           id  == old.recs[op.scan].id
<1>1. /\ pc = "copy" /\ PackVisits(old, op.scan) /\ ~ToCopy(id)
      /\ op' = [op EXCEPT !.scan = @ + 1]
      /\ UNCHANGED <<flash, pc, ret>>
  BY DEF PackSkip
<1>2. op \in OpState /\ op.new \in Bank /\ op.cur \in Bank /\ op.scan \in Nat \ {0}
  BY <1>1 DEF IInv, TypeOK, OpState
<1>3. old \in BankState /\ op.scan \in DOMAIN old.recs
  BY <1>1, <1>2, VisitedIsFound DEF IInv, TypeOK
<1>4. /\ op' \in OpState /\ op'.scan = op.scan + 1
      /\ op'.cur = op.cur /\ op'.new = op.new /\ op'.id = op.id /\ op'.was = op.was
  BY <1>1, <1>2 DEF OpState
<1>5. TypeOK'  BY <1>1, <1>4 DEF IInv, TypeOK
<1>6. Packing'  BY <1>1, <1>4 DEF IInv, Packing, Leads
<1>7. PackProgress'
  <2>1. op.scan + 1 <= Len(old.recs) + 1  BY <1>2, <1>3 DEF BankState
  <2>2. \A k \in 1 .. op.scan : old.recs[k].id # op.id => Lookup(new, old.recs[k].id) # None
    <3> TAKE k \in 1 .. op.scan
    <3>1. CASE k = op.scan  BY <1>1, <3>1 DEF ToCopy
    <3>2. CASE k # op.scan
      <4>1. k \in 1 .. op.scan - 1  BY <1>2, <3>2
      <4> QED  BY <1>1, <4>1 DEF IInv, PackProgress
    <3> QED  BY <3>1, <3>2
  <2>3. op'.scan - 1 = op.scan  BY <1>2, <1>4
  <2> QED  BY <1>1, <1>4, <2>1, <2>2, <2>3 DEF IInv, PackProgress
<1> QED  BY <1>1, <1>5, <1>6, <1>7 DEF IInv, Appending, Distinct, RecordsFit

\* A save that is over leaves only the sectors to worry about.
LEMMA IdleInv ==
  ASSUME IInv, flash' \in [Bank -> BankState], Distinct(flash'),
         \A b \in Bank : RecordsFit(flash'[b]),
         pc' = "idle", op' = NoOp, ret' \in {"none", "true", "false"}
  PROVE  IInv'
BY DEF IInv, TypeOK, Packing, Appending, PackProgress

\* The sequence word that ends a pack makes the new sector the current one, and the
\* only one with that word.
LEMMA PackHeaderInv == IInv /\ PackHeader => IInv'
<1> SUFFICES ASSUME IInv, PackHeader PROVE IInv'  OBVIOUS
<1> DEFINE new == flash[op.new]
           nb  == [new EXCEPT !.hdr = flash[op.cur].hdr - 1]
<1>1. /\ pc = "copy"
      /\ flash' = [flash EXCEPT ![op.new] = nb]
      /\ IF Fits(new, op.val) THEN pc' = "append" /\ UNCHANGED <<op, ret>>
                              ELSE Return("false")
  BY DEF PackHeader
<1>2. op \in OpState /\ op.new \in Bank /\ op.cur \in Bank /\ op.val \in Vals
  BY <1>1 DEF IInv, TypeOK, OpState
<1>3. flash \in [Bank -> BankState]  BY DEF IInv, TypeOK
<1>4. \A c \in Bank : flash[c].hdr \in 0 .. Erased  BY <1>3 DEF BankState
<1>5. /\ op.cur # op.new /\ Leads(flash, op.cur) /\ flash[op.cur].hdr > 0
  BY <1>1 DEF IInv, Packing
<1>6. /\ nb \in BankState /\ nb.hdr = flash[op.cur].hdr - 1 /\ nb.recs = new.recs
  <2>1. flash[op.cur].hdr - 1 \in 0 .. Erased  BY <1>2, <1>4, <1>5, StoreAssumption
  <2>2. new \in BankState  BY <1>2, <1>3
  <2> HIDE DEF new
  <2> QED  BY <2>1, <2>2 DEF BankState
<1> HIDE DEF nb
<1>7. /\ flash' \in [Bank -> BankState] /\ flash'[op.new] = nb
      /\ \A c \in Bank \ {op.new} : flash'[c] = flash[c]
  BY <1>1, <1>2, <1>3, <1>6, BankWrite
<1>8. Leads(flash', op.new)
  <2> SUFFICES ASSUME NEW c \in Bank \ {op.new} PROVE nb.hdr < flash[c].hdr
    BY <1>7 DEF Leads
  <2>1. c = op.cur \/ flash[op.cur].hdr < flash[c].hdr  BY <1>5 DEF Leads
  <2> QED  BY <2>1, <1>2, <1>4, <1>6, StoreAssumption
<1>9. Distinct(flash')
  <2> SUFFICES ASSUME NEW b \in Bank, NEW c \in Bank, b # c, flash'[b].hdr = flash'[c].hdr
               PROVE  flash'[b].hdr = Erased
    BY DEF Distinct
  <2>1. b # op.new /\ c # op.new
    <3>1. \A d \in Bank : flash'[d].hdr \in Nat  BY <1>7, StoreAssumption DEF BankState
    <3> QED  BY <3>1, <1>2, <1>8 DEF Leads
  <2> QED  BY <2>1, <1>7 DEF IInv, Distinct
<1>10. \A b \in Bank : RecordsFit(flash'[b])
  BY <1>2, <1>6, <1>7 DEF IInv, RecordsFit
<1>11. CASE Fits(new, op.val)
  <2>1. pc' = "append" /\ UNCHANGED <<op, ret>>  BY <1>1, <1>11
  <2>2. TypeOK'  BY <1>1, <1>2, <1>7, <2>1 DEF IInv, TypeOK
  <2>3. Fits(flash'[op.new], op.val)  BY <1>6, <1>7, <1>11 DEF Fits, End
  <2>4. Lookup(flash'[op.new], op.id) = None
    <3>1. Lookup(new, op.id) = None  BY <1>1, <1>2 DEF IInv, PackProgress, TypeOK, OpState
    <3> QED  BY <3>1, <1>6, <1>7 DEF Lookup, Matches
  <2> QED
    BY <2>1, <2>2, <2>3, <2>4, <1>7, <1>8, <1>9, <1>10
    DEF IInv, Packing, Appending, PackProgress
<1>12. CASE ~Fits(new, op.val)
  <2>1. pc' = "idle" /\ op' = NoOp /\ ret' = "false"  BY <1>1, <1>12 DEF Return
  <2> QED  BY <2>1, <1>7, <1>9, <1>10, IdleInv
<1> QED  BY <1>11, <1>12

\* What a write that is cut short can leave in a sector, it being one the write fits.
LEMMA CutWriteOK ==
  ASSUME NEW bk \in BankState, NEW id \in Ids, NEW v \in Vals, NEW t \in Body,
         RecordsFit(bk), Fits(bk, v), NEW nb \in CutWrites(bk, id, v, t)
  PROVE  nb \in BankState /\ RecordsFit(nb) /\ nb.hdr = bk.hdr
<1>1. nb = bk \/ nb = WithRecord(bk, id, v, "torn") \/ nb = WithRecord(bk, id, v, t)
  BY DEF CutWrites
<1>2. ASSUME NEW u \in Body
      PROVE  LET n == WithRecord(bk, id, v, u)
             IN  n \in BankState /\ RecordsFit(n) /\ n.hdr = bk.hdr
  BY AppendFits
<1>3. "torn" \in Body  BY DEF Body
<1> QED  BY <1>1, <1>2, <1>3

\* Writing a record, cut short or not, keeps the sectors in order.
LEMMA CutShortOK ==
  ASSUME IInv, CutShort
  PROVE  /\ flash' \in [Bank -> BankState] /\ Distinct(flash')
         /\ \A b \in Bank : RecordsFit(flash'[b])
         /\ pc # "idle"
<1>1. flash \in [Bank -> BankState] /\ \A b \in Bank : RecordsFit(flash[b])
  BY DEF IInv, TypeOK
<1>2. pc # "idle"  BY DEF CutShort
<1>3. op \in OpState /\ op.new \in Bank /\ op.cur \in Bank /\ op.val \in Vals
      /\ op.id \in Ids /\ op.scan \in Nat \ {0}
  BY <1>2 DEF IInv, TypeOK, OpState
<1>4. ASSUME NEW nb \in BankState, RecordsFit(nb), nb.hdr = flash[op.new].hdr \/ nb.hdr = Erased,
             flash' = [flash EXCEPT ![op.new] = nb]
      PROVE  /\ flash' \in [Bank -> BankState] /\ Distinct(flash')
             /\ \A b \in Bank : RecordsFit(flash'[b])
  BY <1>1, <1>3, <1>4, BankWrite DEF IInv
<1>5. ASSUME NEW id \in Ids, NEW v \in Vals, NEW t \in Body, Fits(flash[op.new], v),
             \E bk \in CutWrites(flash[op.new], id, v, t) :
               flash' = [flash EXCEPT ![op.new] = bk]
      PROVE  /\ flash' \in [Bank -> BankState] /\ Distinct(flash')
             /\ \A b \in Bank : RecordsFit(flash'[b])
  <2>1. PICK bk \in CutWrites(flash[op.new], id, v, t) :
               flash' = [flash EXCEPT ![op.new] = bk]
    BY <1>5
  <2>2. bk \in BankState /\ RecordsFit(bk) /\ bk.hdr = flash[op.new].hdr
    BY <1>1, <1>3, <1>5, CutWriteOK
  <2> QED  BY <2>1, <2>2, <1>4
<1>6. CASE pc = "append"
  <2>1. \E bk \in CutWrites(flash[op.new], op.id, op.val, "whole") :
          flash' = [flash EXCEPT ![op.new] = bk]
    BY <1>6 DEF CutShort
  <2>2. Fits(flash[op.new], op.val) /\ "whole" \in Body
    BY <1>6 DEF IInv, Appending, Body
  <2> QED  BY <1>2, <1>3, <1>5, <2>1, <2>2
<1>7. CASE pc = "copy"
  <2> DEFINE id == flash[op.cur].recs[op.scan].id
             o  == Lookup(flash[op.cur], id)
  <2>1. /\ PackVisits(flash[op.cur], op.scan)
        /\ Fits(flash[op.new], o.val)
        /\ \E bk \in CutWrites(flash[op.new], id, o.val, o.body) :
             flash' = [flash EXCEPT ![op.new] = bk]
    BY <1>7 DEF CutShort
  <2>2. flash[op.cur] \in BankState  BY <1>1, <1>3
  <2>3. id \in Ids /\ o \in Objs  BY <2>1, <2>2, <1>3, VisitedIsFound
  <2>4. o.val \in Vals /\ o.body \in Body  BY <2>3 DEF Objs
  <2> HIDE DEF id, o
  <2> QED  BY <1>2, <1>5, <2>1, <2>3, <2>4
<1>8. CASE pc = "erase"
  <2>1. PICK h \in flash[op.new].hdr .. Erased :
          flash' = [flash EXCEPT ![op.new] = [hdr |-> h, recs |-> flash[op.new].recs]]
    BY <1>8 DEF CutShort, CutErases
  <2> DEFINE nb == [hdr |-> h, recs |-> flash[op.new].recs]
  <2>2. flash[op.new] \in BankState /\ \A c \in Bank : flash[c].hdr \in 0 .. Erased
    BY <1>1, <1>3 DEF BankState
  <2>3. h \in 0 .. Erased /\ flash[op.new].hdr <= h  BY <2>2, <1>3, StoreAssumption
  <2>4. /\ nb \in BankState /\ nb.hdr = h /\ RecordsFit(nb)
    BY <1>1, <1>3, <2>2, <2>3 DEF BankState, RecordsFit
  <2> HIDE DEF nb
  <2>5. /\ flash' \in [Bank -> BankState] /\ flash'[op.new] = nb
        /\ \A c \in Bank \ {op.new} : flash'[c] = flash[c]
    BY <1>1, <1>3, <2>1, <2>4, BankWrite DEF nb
  <2>6. ASSUME NEW c \in Bank \ {op.new}, flash[c].hdr = h PROVE h = Erased
    <3>1. flash[c].hdr <= flash[op.new].hdr  BY <1>8 DEF IInv, Packing
    <3>2. flash[c].hdr = flash[op.new].hdr  BY <3>1, <2>2, <2>3, <2>6, <1>3, StoreAssumption
    <3> QED  BY <3>2, <2>6, <1>3 DEF IInv, Distinct
  <2>7. Distinct(flash')
    <3> SUFFICES ASSUME NEW b \in Bank, NEW c \in Bank, b # c, flash'[b].hdr = flash'[c].hdr
                 PROVE  flash'[b].hdr = Erased
      BY DEF Distinct
    <3>1. CASE b = op.new  BY <3>1, <2>4, <2>5, <2>6
    <3>2. CASE c = op.new  BY <3>2, <2>4, <2>5, <2>6
    <3>3. CASE b # op.new /\ c # op.new  BY <3>3, <2>5 DEF IInv, Distinct
    <3> QED  BY <3>1, <3>2, <3>3
  <2> QED  BY <1>1, <1>2, <2>4, <2>5, <2>7
<1> QED  BY <1>2, <1>6, <1>7, <1>8 DEF CutShort

\* Writing the object keeps the invariant.
LEMMA SaveAppendInv == IInv /\ SaveAppend => IInv'
<1> SUFFICES ASSUME IInv, SaveAppend PROVE IInv'  OBVIOUS
<1> DEFINE nb == WithRecord(flash[op.new], op.id, op.val, "whole")
<1>1. /\ pc = "append" /\ flash' = [flash EXCEPT ![op.new] = nb]
      /\ pc' = "idle" /\ op' = NoOp /\ ret' = "true"
  BY DEF SaveAppend, Return
<1>2. op.new \in Bank /\ op.val \in Vals /\ op.id \in Ids
  BY <1>1 DEF IInv, TypeOK, OpState
<1>3. /\ flash \in [Bank -> BankState]
      /\ flash[op.new] \in BankState /\ RecordsFit(flash[op.new])
  BY <1>2 DEF IInv, TypeOK
<1>4. nb \in BankState /\ RecordsFit(nb) /\ nb.hdr = flash[op.new].hdr
  <2>1. "whole" \in Body  BY DEF Body
  <2>2. Fits(flash[op.new], op.val)  BY <1>1 DEF IInv, Appending
  <2> QED  BY <1>2, <1>3, <2>1, <2>2, AppendFits
<1> HIDE DEF nb
<1>5. /\ flash' \in [Bank -> BankState] /\ Distinct(flash')
      /\ \A b \in Bank : RecordsFit(flash'[b])
  BY <1>1, <1>2, <1>3, <1>4, BankWrite DEF IInv
<1> QED  BY <1>1, <1>3, <1>5, IdleInv

\* A power cut keeps the invariant, wherever in a write or an erase it comes.
LEMMA CrashInv == IInv /\ Crash => IInv'
<1> SUFFICES ASSUME IInv, Crash PROVE IInv'  OBVIOUS
<1>1. /\ flash' \in [Bank -> BankState] /\ Distinct(flash')
      /\ \A b \in Bank : RecordsFit(flash'[b])
  <2>1. CASE CutShort  BY <2>1, CutShortOK
  <2>2. CASE UNCHANGED flash  BY <2>2 DEF IInv, TypeOK, Distinct
  <2> QED  BY <2>1, <2>2 DEF Crash
<1>2. pc' = "idle" /\ op' = NoOp /\ ret' = "none"  BY DEF Crash, Return
<1> QED  BY <1>1, <1>2, IdleInv DEF IInv, TypeOK

\* So does an error of the SPI driver.
LEMMA FlashErrorInv == IInv /\ FlashError => IInv'
<1> SUFFICES ASSUME IInv, FlashError PROVE IInv'  OBVIOUS
<1>1. /\ flash' \in [Bank -> BankState] /\ Distinct(flash')
      /\ \A b \in Bank : RecordsFit(flash'[b])
  <2>1. CASE CutShort  BY <2>1, CutShortOK
  <2>2. CASE UNCHANGED flash  BY <2>2 DEF IInv, TypeOK, Distinct
  <2> QED  BY <2>1, <2>2 DEF FlashError
<1>2. pc' = "idle" /\ op' = NoOp /\ ret' \in {"true", "false"}
  BY DEF FlashError, Return
<1> QED  BY <1>1, <1>2, IdleInv

\* An erased store satisfies the invariant.
LEMMA InitInv == Init => IInv
<1> SUFFICES ASSUME Init PROVE IInv  OBVIOUS
<1>1. EmptyBank \in BankState /\ RecordsFit(EmptyBank)
  BY StoreAssumption DEF EmptyBank, BankState, RecordsFit
<1>2. flash \in [Bank -> BankState] /\ \A b \in Bank : flash[b] = EmptyBank
  BY <1>1 DEF Init
<1> QED  BY <1>1, <1>2 DEF Init, IInv, TypeOK, Distinct, Packing, Appending, PackProgress, EmptyBank

\* Every step keeps the invariant.
LEMMA NextInv == IInv /\ [Next]_vars => IInv'
<1> SUFFICES ASSUME IInv, [Next]_vars PROVE IInv'  OBVIOUS
<1>1. CASE ReadCfg  BY <1>1, ReadCfgInv
<1>2. ASSUME NEW id \in Ids, NEW v \in Vals, SaveBegin(id, v) \/ SaveSame(id, v)
      PROVE  IInv'
  BY <1>2, SaveBeginInv, SaveSameInv
<1>3. ASSUME NEW v \in Vals, SaveTooBig(v) PROVE IInv'
  BY <1>3 DEF SaveTooBig, IInv, TypeOK, Distinct, Packing, Appending, PackProgress
<1>4. CASE Step
  BY <1>4, PackEraseInv, PackCopyInv, PackSkipInv, PackHeaderInv, SaveAppendInv DEF Step
<1>5. CASE Crash  BY <1>5, CrashInv
<1>6. CASE FlashError  BY <1>6, FlashErrorInv
<1>7. CASE UNCHANGED vars
  BY <1>7 DEF vars, IInv, TypeOK, Distinct, Packing, Leads, Appending, PackProgress
<1> QED  BY <1>1, <1>2, <1>3, <1>4, <1>5, <1>6, <1>7 DEF Next

\* The strengthened invariant holds in every reachable state of the store.
THEOREM Invariance == Spec => []IInv
BY InitInv, NextInv, PTL DEF Spec

(***************************************************************************)
(* Room for a pack.  The records of a sector lie in a row.  What has been  *)
(* copied takes as many words as the records that were copied, the last of *)
(* their objects each; those are some of the old sector's records, and the *)
(* next one is another of them.                                            *)
(***************************************************************************)
InRow(bk) ==
  \A i \in DOMAIN bk.recs :
    bk.recs[i].addr = IF i = 1 THEN 1 ELSE bk.recs[i - 1].addr + RecWords(bk.recs[i - 1].val)

\* g[i] is how many words those of the first i records take whose places are in S.
Weighs(bk, S, g) ==
  LET n == Len(bk.recs)
  IN  /\ g \in [0 .. n -> Nat]
      /\ g[0] = 0
      /\ \A i \in 1 .. n :
           g[i] = g[i - 1] + (IF i \in S THEN RecWords(bk.recs[i].val) ELSE 0)

\* The places of the last records of the objects in J
Lasts(bk, J) == {LastIndex(Matches(bk, j)) : j \in J}

Found(bk) == {j \in Ids : Lookup(bk, j) # None}

\* The new sector is as full as the records copied to it make it.
Copied(old, new) ==
  \E g : Weighs(old, Lasts(old, Found(new)), g) /\ End(new) = 1 + g[Len(old.recs)]

RowInv ==
  /\ IInv
  /\ \A b \in Bank : InRow(flash[b])
  /\ pc = "copy" => Copied(flash[op.cur], flash[op.new])

\* A record takes one word or more.
LEMMA RecIs ==
  ASSUME NEW bk \in BankState, NEW i \in 1 .. Len(bk.recs)
  PROVE  /\ bk.recs[i] \in Rec /\ bk.recs[i].addr \in Nat /\ bk.recs[i].id \in Ids
         /\ bk.recs[i].val \in Vals
         /\ RecWords(bk.recs[i].val) \in Nat /\ RecWords(bk.recs[i].val) >= 1
<1>1. bk.recs \in Seq(Rec)  BY DEF BankState
<1>2. bk.recs[i] \in Rec  BY <1>1
<1> HIDE DEF BankState
<1>3. bk.recs[i].addr \in Nat /\ bk.recs[i].val \in Vals /\ bk.recs[i].id \in Ids  BY <1>2 DEF Rec
<1>4. Words[bk.recs[i].val] \in Nat  BY <1>3, StoreAssumption
<1>5. \A w \in Nat : 1 + w \in Nat /\ 1 + w >= 1  OBVIOUS
<1>6. RecWords(bk.recs[i].val) \in Nat /\ RecWords(bk.recs[i].val) >= 1  BY <1>4, <1>5 DEF RecWords
<1> QED  BY <1>2, <1>3, <1>6

\* A record is added at the end of the row.
LEMMA RowGrows ==
  ASSUME NEW bk \in BankState, InRow(bk), NEW id \in Ids, NEW v \in Vals, NEW t \in Body
  PROVE  /\ InRow(WithRecord(bk, id, v, t))
         /\ End(WithRecord(bk, id, v, t)) = End(bk) + RecWords(v)
<1> DEFINE r  == Record(bk, id, v, t)
           nb == WithRecord(bk, id, v, t)
           n  == Len(bk.recs)
<1>1. r.addr = End(bk) /\ r.val = v /\ r \in Rec  BY EndType DEF Record, Rec
<1>2. bk.recs \in Seq(Rec) /\ n \in Nat /\ DOMAIN bk.recs = 1 .. n  BY DEF BankState
<1>3. nb.recs = Append(bk.recs, r)  BY DEF WithRecord, BankState
<1> HIDE DEF r, nb
<1>4. /\ DOMAIN nb.recs = 1 .. n + 1 /\ Len(nb.recs) = n + 1 /\ nb.recs # <<>>
      /\ nb.recs[n + 1] = r
      /\ \A i \in 1 .. n : nb.recs[i] = bk.recs[i]
  BY <1>1, <1>2, <1>3
<1>5. n = 0 => End(bk) = 1  BY <1>2 DEF End
<1>6. n # 0 => End(bk) = bk.recs[n].addr + RecWords(bk.recs[n].val)  BY <1>2 DEF End
<1>7. InRow(nb)
  <2> SUFFICES ASSUME NEW i \in 1 .. n + 1
               PROVE  nb.recs[i].addr = IF i = 1 THEN 1
                                        ELSE nb.recs[i - 1].addr + RecWords(nb.recs[i - 1].val)
    BY <1>4 DEF InRow
  <2>1. CASE i = n + 1  BY <1>1, <1>2, <1>4, <1>5, <1>6, <2>1
  <2>2. CASE i # n + 1
    <3>1. i \in 1 .. n /\ (i # 1 => i - 1 \in 1 .. n)  BY <1>2, <2>2
    <3> QED  BY <1>2, <1>4, <3>1 DEF InRow
  <2> QED  BY <2>1, <2>2
<1>8. End(nb) = End(bk) + RecWords(v)  BY <1>1, <1>4 DEF End
<1> QED  BY <1>7, <1>8 DEF nb

\* Nothing weighs nothing.
LEMMA WeighsNothing ==
  ASSUME NEW bk \in BankState
  PROVE  \E g : Weighs(bk, {}, g) /\ g[Len(bk.recs)] = 0
<1>1. Len(bk.recs) \in Nat  BY DEF BankState
<1>2. Weighs(bk, {}, [i \in 0 .. Len(bk.recs) |-> 0])  BY <1>1 DEF Weighs
<1> QED  BY <1>1, <1>2

\* One more record weighs that much more.
LEMMA WeighsMore ==
  ASSUME NEW bk \in BankState, NEW S, NEW g, Weighs(bk, S, g),
         NEW l \in 1 .. Len(bk.recs), l \notin S
  PROVE  \E h : /\ Weighs(bk, S \cup {l}, h)
                /\ h[Len(bk.recs)] = g[Len(bk.recs)] + RecWords(bk.recs[l].val)
<1> DEFINE n == Len(bk.recs)
           w == RecWords(bk.recs[l].val)
           h == [i \in 0 .. n |-> g[i] + (IF i >= l THEN w ELSE 0)]
<1>1. n \in Nat /\ w \in Nat  BY RecIs DEF BankState
<1>2. g \in [0 .. n -> Nat] /\ g[0] = 0  BY DEF Weighs
<1>3. \A i \in 1 .. n : g[i] = g[i - 1] + (IF i \in S THEN RecWords(bk.recs[i].val) ELSE 0)
  BY DEF Weighs
<1> HIDE DEF n, w
<1>4. h \in [0 .. n -> Nat] /\ h[0] = 0  BY <1>1, <1>2 DEF n
<1>8. \A k \in 0 .. n : h[k] = g[k] + (IF k >= l THEN w ELSE 0)  BY <1>4
<1>9. l \in Nat /\ l >= 1 /\ l <= n  BY <1>1 DEF n
<1>6. h[n] = g[n] + w  BY <1>1, <1>8, <1>9
<1> HIDE DEF h
<1>5. ASSUME NEW i \in 1 .. n
      PROVE  h[i] = h[i - 1] + (IF i \in S \cup {l} THEN RecWords(bk.recs[i].val) ELSE 0)
  <2>1. /\ h[i] = g[i] + (IF i >= l THEN w ELSE 0)
        /\ h[i - 1] = g[i - 1] + (IF i - 1 >= l THEN w ELSE 0)
        /\ g[i] \in Nat /\ g[i - 1] \in Nat
    <3>1. i \in 0 .. n /\ i - 1 \in 0 .. n  BY <1>1
    <3> QED  BY <1>2, <1>8, <3>1
  <2>2. CASE i = l
    <3>1. g[i] = g[i - 1]  BY <1>3, <2>1, <2>2
    <3> QED  BY <1>1, <2>1, <2>2, <3>1 DEF w
  <2>3. CASE i # l
    <3>1. (i >= l <=> i - 1 >= l) /\ (i \in S \cup {l} <=> i \in S)  BY <1>1, <2>3 DEF n
    <3>2. CASE i \in S
      <4>1. RecWords(bk.recs[i].val) \in Nat  BY RecIs DEF n
      <4> QED  BY <1>1, <1>3, <2>1, <3>1, <3>2, <4>1
    <3>3. CASE i \notin S  BY <1>1, <1>3, <2>1, <3>1, <3>3
    <3> QED  BY <3>2, <3>3
  <2> QED  BY <2>2, <2>3
<1>7. Weighs(bk, S \cup {l}, h)  BY <1>4, <1>5 DEF Weighs, n
<1> QED  BY <1>6, <1>7 DEF n, w

\* Some of the records take no more words than all of them.
LEMMA WeighsLess ==
  ASSUME NEW bk \in BankState, InRow(bk), NEW S, NEW g, Weighs(bk, S, g)
  PROVE  1 + g[Len(bk.recs)] <= End(bk)
<1> DEFINE n == Len(bk.recs)
           past(i) == bk.recs[i].addr + RecWords(bk.recs[i].val)
           B == {i \in 1 .. n : 1 + g[i] > past(i)}
<1>1. n \in Nat /\ g \in [0 .. n -> Nat] /\ g[0] = 0  BY DEF Weighs, BankState
<1>2. CASE n = 0
  <2>1. bk.recs = <<>>  BY <1>2 DEF BankState
  <2> QED  BY <1>1, <1>2, <2>1 DEF End
<1>3. B = {}
  <2> SUFFICES ASSUME B # {} PROVE FALSE  OBVIOUS
  <2>1. B \in SUBSET Nat  BY <1>1
  <2>2. PICK i \in B : \A j \in B : i <= j
    <3> HIDE DEF B
    <3> QED  BY <2>1, LeastNatural
  <2>3. i \in 1 .. n /\ 1 + g[i] > past(i)  OBVIOUS
  <2>4. /\ g[i] \in Nat /\ g[i - 1] \in Nat
        /\ g[i] = g[i - 1] + (IF i \in S THEN RecWords(bk.recs[i].val) ELSE 0)
    <3>1. i \in 0 .. n /\ i - 1 \in 0 .. n  BY <1>1, <2>3
    <3>2. g[i] = g[i - 1] + (IF i \in S THEN RecWords(bk.recs[i].val) ELSE 0)
      BY <2>3 DEF Weighs
    <3> HIDE DEF n
    <3> QED  BY <1>1, <3>1, <3>2
  <2>5. bk.recs[i].addr \in Nat /\ RecWords(bk.recs[i].val) \in Nat  BY <2>3, RecIs
  <2>6. bk.recs[i].addr = IF i = 1 THEN 1 ELSE past(i - 1)
    <3>1. i \in DOMAIN bk.recs  BY <2>3 DEF BankState
    <3> QED  BY <3>1 DEF InRow
  <2>7. 1 + g[i - 1] <= bk.recs[i].addr
    <3>1. CASE i = 1  BY <1>1, <2>6, <3>1
    <3>2. CASE i # 1
      <4>1. i - 1 \in 1 .. n /\ ~(i <= i - 1)  BY <1>1, <2>3, <3>2
      <4>2. i - 1 \notin B  BY <2>2, <4>1
      <4>3. past(i - 1) \in Nat
        <5> DEFINE k == i - 1
        <5>1. k \in 1 .. Len(bk.recs)  BY <4>1
        <5> HIDE DEF k
        <5>2. bk.recs[k].addr \in Nat /\ RecWords(bk.recs[k].val) \in Nat  BY <5>1, RecIs
        <5>3. past(k) \in Nat  BY <5>2
        <5> QED  BY <5>3 DEF k
      <4>4. ~(1 + g[i - 1] > past(i - 1))  BY <4>1, <4>2
      <4> HIDE DEF past, B
      <4> QED  BY <2>4, <2>6, <3>2, <4>3, <4>4
    <3> QED  BY <3>1, <3>2
  <2> QED  BY <2>3, <2>4, <2>5, <2>7
<1>4. CASE n # 0
  <2>1. n \in 1 .. n /\ bk.recs # <<>>  BY <1>1, <1>4
  <2>2. ~(1 + g[n] > past(n)) /\ past(n) \in Nat /\ g[n] \in Nat  BY <1>1, <1>3, <2>1, RecIs
  <2> QED  BY <2>1, <2>2 DEF End
<1> QED  BY <1>2, <1>4

\* Different objects have different last records.
LEMMA LastsDiffer ==
  ASSUME NEW bk \in BankState, NEW i \in Ids, NEW j \in Ids, i # j,
         Lookup(bk, i) # None, Lookup(bk, j) # None
  PROVE  LastIndex(Matches(bk, i)) # LastIndex(Matches(bk, j))
<1>1. Matches(bk, i) # {} /\ Matches(bk, j) # {}  BY LookupFinds
<1>2. Matches(bk, i) \in SUBSET DOMAIN bk.recs /\ Matches(bk, j) \in SUBSET DOMAIN bk.recs
  BY DEF Matches
<1>3. /\ LastIndex(Matches(bk, i)) \in Matches(bk, i)
      /\ LastIndex(Matches(bk, j)) \in Matches(bk, j)
  BY <1>1, <1>2, LastIndexOf
<1> QED  BY <1>3 DEF Matches

\* The last record of another object fits the new sector, and then it is as full as the
\* records copied make it.
LEMMA RoomForNext ==
  ASSUME NEW old \in BankState, NEW new \in BankState, RecordsFit(old), InRow(old),
         Copied(old, new), NEW id \in Ids, Lookup(old, id) # None, Lookup(new, id) = None,
         \A j \in Ids : Lookup(new, j) # None => Lookup(new, j) = Lookup(old, j)
  PROVE  LET o == Lookup(old, id)
             nb == WithRecord(new, id, o.val, o.body)
         IN  /\ o.val \in Vals /\ o.body \in Body
             /\ Fits(new, o.val)
             /\ End(nb) = End(new) + RecWords(o.val) =>
                  (Found(nb) = Found(new) \cup {id} => Copied(old, nb))
<1> DEFINE o == Lookup(old, id)
           l == LastIndex(Matches(old, id))
           n == Len(old.recs)
           S == Lasts(old, Found(new))
<1>1. n \in Nat  BY DEF BankState
<1>2. l \in 1 .. n /\ o = Object(old.recs[l])
  <2>1. Matches(old, id) # {} /\ Matches(old, id) \in SUBSET DOMAIN old.recs
    BY LookupFinds DEF Matches
  <2>2. l \in DOMAIN old.recs  BY <2>1, LastIndexOf
  <2> QED  BY <2>1, <2>2 DEF Lookup, BankState
<1>3. old.recs[l] \in Rec /\ RecWords(old.recs[l].val) \in Nat  BY <1>2, RecIs
<1>4. o.val = old.recs[l].val /\ o.val \in Vals /\ o.body \in Body
  BY <1>2, <1>3 DEF Object, Rec
<1> HIDE DEF o
<1>5. l \notin S
  <2> SUFFICES ASSUME NEW j \in Found(new), l = LastIndex(Matches(old, j)) PROVE FALSE
    BY DEF Lasts
  <2>1. j \in Ids /\ Lookup(new, j) # None /\ j # id  BY DEF Found
  <2>2. Lookup(old, j) # None  BY <2>1
  <2> QED  BY <2>1, <2>2, LastsDiffer
<1>6. PICK g : Weighs(old, S, g) /\ End(new) = 1 + g[n]  BY DEF Copied
<1> HIDE DEF l, S
<1>7. PICK h : Weighs(old, S \cup {l}, h) /\ h[n] = g[n] + RecWords(old.recs[l].val)
  BY <1>2, <1>5, <1>6, WeighsMore
<1>8. 1 + h[n] <= End(old)  BY <1>7, WeighsLess
<1>9. End(old) < BankWords
  <2>1. old.recs # <<>> /\ n \in DOMAIN old.recs  BY <1>1, <1>2 DEF BankState
  <2> QED  BY <2>1 DEF End, RecordsFit
<1>10. g[n] \in Nat /\ h[n] \in Nat /\ End(old) \in Nat
  BY <1>1, <1>6, <1>7, EndType DEF Weighs
<1>11. Fits(new, o.val)
  BY <1>3, <1>4, <1>6, <1>7, <1>8, <1>9, <1>10, StoreAssumption DEF Fits
<1>12. ASSUME NEW nb, End(nb) = End(new) + RecWords(o.val), Found(nb) = Found(new) \cup {id}
       PROVE  Copied(old, nb)
  <2>1. Lasts(old, Found(nb)) = S \cup {l}  BY <1>12 DEF Lasts, S, l
  <2>2. End(nb) = 1 + h[n]  BY <1>3, <1>4, <1>6, <1>7, <1>10, <1>12
  <2> QED  BY <1>7, <2>1, <2>2 DEF Copied
<1> QED  BY <1>4, <1>11, <1>12 DEF o

\* The records of a sector are in a row or not whatever its sequence word is.
LEMMA RowStays ==
  ASSUME NEW bk, NEW nb, InRow(bk), nb.recs = bk.recs
  PROVE  InRow(nb)
BY DEF InRow

\* One sector is written: the others are as they were.
LEMMA RowsStay ==
  ASSUME RowInv, NEW b \in Bank, NEW nb, InRow(nb), flash' = [flash EXCEPT ![b] = nb]
  PROVE  \A c \in Bank : InRow(flash'[c])
BY DEF RowInv, IInv, TypeOK

\* The first sequence word is written, or nothing.
LEMMA FormatKeepsRows ==
  ASSUME RowInv, flash' = Formatted(flash)
  PROVE  \A b \in Bank : InRow(flash'[b])
<1>1. \A b \in Bank : flash'[b].recs = flash[b].recs  BY FormattedLeads DEF RowInv, IInv, TypeOK
<1> QED  BY <1>1, RowStays DEF RowInv

\* A write that is cut short leaves the records in a row.
LEMMA CutWriteRow ==
  ASSUME NEW bk \in BankState, InRow(bk), NEW id \in Ids, NEW v \in Vals, NEW t \in Body,
         NEW nb \in CutWrites(bk, id, v, t)
  PROVE  InRow(nb)
<1>1. nb = bk \/ nb = WithRecord(bk, id, v, "torn") \/ nb = WithRecord(bk, id, v, t)
  BY DEF CutWrites
<1>2. "torn" \in Body  BY DEF Body
<1> QED  BY <1>1, <1>2, RowGrows

\* The pack loop begins with an empty sector.
LEMMA PackEraseRow == RowInv /\ PackErase => RowInv'
<1> SUFFICES ASSUME RowInv, PackErase PROVE RowInv'  OBVIOUS
<1>1. IInv /\ IInv'  BY PackEraseInv DEF RowInv
<1>2. /\ pc = "erase" /\ pc' = "copy" /\ op' = op
      /\ flash' = [flash EXCEPT ![op.new] = EmptyBank]
  BY DEF PackErase
<1>3. op.new \in Bank /\ op.cur \in Bank  BY <1>1, <1>2 DEF IInv, TypeOK, OpState
<1>4. InRow(EmptyBank) /\ End(EmptyBank) = 1  BY DEF InRow, EmptyBank, End
<1>5. \A b \in Bank : InRow(flash'[b])  BY <1>2, <1>3, <1>4, RowsStay
<1>6. flash'[op.new] = EmptyBank /\ flash'[op.cur] \in BankState
  BY <1>1, <1>2, <1>3 DEF IInv, TypeOK
<1>7. Found(EmptyBank) = {}  BY DEF Found, Lookup, Matches, EmptyBank
<1>8. Copied(flash'[op.cur], EmptyBank)
  <2> DEFINE old == flash'[op.cur]
  <2>1. Lasts(old, Found(EmptyBank)) = {}  BY <1>7 DEF Lasts
  <2>2. PICK g : Weighs(old, {}, g) /\ g[Len(old.recs)] = 0  BY <1>6, WeighsNothing
  <2> HIDE DEF old
  <2>3. End(EmptyBank) = 1 + g[Len(old.recs)]  BY <1>4, <2>2
  <2> QED  BY <2>1, <2>2, <2>3 DEF Copied, old
<1> QED  BY <1>1, <1>2, <1>5, <1>6, <1>8 DEF RowInv

\* A record that is to be copied fits, and is then counted.
LEMMA NextFits ==
  ASSUME RowInv, pc = "copy", PackVisits(flash[op.cur], op.scan),
         ToCopy(flash[op.cur].recs[op.scan].id)
  PROVE  LET id == flash[op.cur].recs[op.scan].id
             o  == Lookup(flash[op.cur], id)
             nb == WithRecord(flash[op.new], id, o.val, o.body)
         IN  /\ id \in Ids /\ o.val \in Vals /\ o.body \in Body
             /\ Fits(flash[op.new], o.val)
             /\ InRow(nb) /\ Copied(flash[op.cur], nb)
<1> DEFINE old == flash[op.cur]
           new == flash[op.new]
           id  == old.recs[op.scan].id
           o   == Lookup(old, id)
           nb  == WithRecord(new, id, o.val, o.body)
<1>1. op.new \in Bank /\ op.cur \in Bank /\ op.scan \in Nat \ {0}
  BY DEF RowInv, IInv, TypeOK, OpState
<1>2. /\ old \in BankState /\ new \in BankState /\ RecordsFit(old) /\ RecordsFit(new)
      /\ InRow(old) /\ InRow(new) /\ Copied(old, new)
  BY <1>1 DEF RowInv, IInv, TypeOK
<1>3. id \in Ids /\ o \in Objs  BY <1>1, <1>2, VisitedIsFound
<1>4. o # None  BY <1>3, StoreAssumption DEF Objs
<1>5. Lookup(new, id) = None  BY DEF ToCopy
<1>6. \A j \in Ids : Lookup(new, j) # None => Lookup(new, j) = Lookup(old, j)
  BY DEF RowInv, IInv, PackProgress
<1> HIDE DEF old, new, id
<1>7. /\ o.val \in Vals /\ o.body \in Body
      /\ Fits(new, o.val)
      /\ End(nb) = End(new) + RecWords(o.val) =>
           (Found(nb) = Found(new) \cup {id} => Copied(old, nb))
  BY <1>2, <1>3, <1>4, <1>5, <1>6, RoomForNext
<1> HIDE DEF o
<1>8. InRow(nb) /\ End(nb) = End(new) + RecWords(o.val)  BY <1>2, <1>3, <1>7, RowGrows
<1>9. End(new) < BankWords - 1  BY <1>2, <1>3, <1>7, AppendFits
<1>10. \A j \in Ids :
         Lookup(nb, j) = IF j = id THEN [val |-> o.val, body |-> o.body] ELSE Lookup(new, j)
  BY <1>2, <1>3, <1>7, <1>9, LookupAppend
<1>11. [val |-> o.val, body |-> o.body] # None  BY <1>7, StoreAssumption
<1> HIDE DEF nb
<1>12. Found(nb) = Found(new) \cup {id}  BY <1>3, <1>5, <1>10, <1>11 DEF Found
<1> QED  BY <1>3, <1>7, <1>8, <1>12 DEF old, new, id, o, nb

\* A turn that copies a record
LEMMA PackCopyRow == RowInv /\ PackCopy => RowInv'
<1> SUFFICES ASSUME RowInv, PackCopy PROVE RowInv'  OBVIOUS
<1>1. IInv /\ IInv'  BY PackCopyInv DEF RowInv
<1> DEFINE old == flash[op.cur]
           id  == old.recs[op.scan].id
           o   == Lookup(old, id)
           nb  == WithRecord(flash[op.new], id, o.val, o.body)
<1>2. /\ pc = "copy" /\ pc' = "copy" /\ PackVisits(old, op.scan) /\ ToCopy(id)
      /\ flash' = [flash EXCEPT ![op.new] = nb]
      /\ op' = [op EXCEPT !.scan = @ + 1]
  BY DEF PackCopy
<1>3. InRow(nb) /\ Copied(old, nb)  BY <1>2, NextFits
<1>4. op \in OpState /\ op.new \in Bank /\ op.cur \in Bank /\ op.new # op.cur
  BY <1>1, <1>2 DEF IInv, TypeOK, OpState, Packing
<1> HIDE DEF nb
<1>5. \A b \in Bank : InRow(flash'[b])  BY <1>2, <1>3, <1>4, RowsStay
<1>6. flash'[op.new] = nb /\ flash'[op.cur] = old
  BY <1>1, <1>2, <1>4 DEF IInv, TypeOK
<1>7. op'.cur = op.cur /\ op'.new = op.new  BY <1>2, <1>4 DEF OpState
<1> QED  BY <1>1, <1>3, <1>5, <1>6, <1>7 DEF RowInv

\* What a fault leaves
LEMMA CutShortRow ==
  ASSUME RowInv, CutShort
  PROVE  \A b \in Bank : InRow(flash'[b])
<1>1. /\ op.new \in Bank /\ op.id \in Ids /\ op.val \in Vals
      /\ flash[op.new] \in BankState /\ InRow(flash[op.new])
  BY DEF CutShort, RowInv, IInv, TypeOK, OpState
<1>2. CASE pc = "erase"
  <2>1. PICK bk \in CutErases(flash[op.new]) : flash' = [flash EXCEPT ![op.new] = bk]
    BY <1>2 DEF CutShort
  <2>2. bk.recs = flash[op.new].recs  BY <2>1 DEF CutErases
  <2>3. InRow(bk)  BY <1>1, <2>2, RowStays
  <2> QED  BY <1>1, <2>1, <2>3, RowsStay
<1>3. CASE pc = "copy"
  <2> DEFINE id == flash[op.cur].recs[op.scan].id
             o  == Lookup(flash[op.cur], id)
  <2>1. PackVisits(flash[op.cur], op.scan) /\ ToCopy(id)  BY <1>3 DEF CutShort
  <2>2. PICK bk \in CutWrites(flash[op.new], id, o.val, o.body) :
               flash' = [flash EXCEPT ![op.new] = bk]
    BY <1>3 DEF CutShort
  <2>3. id \in Ids /\ o.val \in Vals /\ o.body \in Body  BY <1>3, <2>1, NextFits
  <2> HIDE DEF id, o
  <2>4. InRow(bk)  BY <1>1, <2>3, CutWriteRow
  <2> QED  BY <1>1, <2>2, <2>4, RowsStay
<1>4. CASE pc = "append"
  <2>1. PICK bk \in CutWrites(flash[op.new], op.id, op.val, "whole") :
               flash' = [flash EXCEPT ![op.new] = bk]
    BY <1>4 DEF CutShort
  <2>2. "whole" \in Body  BY DEF Body
  <2>3. InRow(bk)  BY <1>1, <2>2, CutWriteRow
  <2> QED  BY <1>1, <2>1, <2>3, RowsStay
<1> QED  BY <1>2, <1>3, <1>4 DEF CutShort

\* Every step keeps the records in a row and the new sector as full as it is to be.
LEMMA NextRow == RowInv /\ [Next]_vars => RowInv'
<1> SUFFICES ASSUME RowInv, [Next]_vars PROVE RowInv'  OBVIOUS
<1>1. IInv /\ IInv'  BY NextInv DEF RowInv
<1>2. ASSUME pc' # "copy", \A b \in Bank : InRow(flash'[b]) PROVE RowInv'
  BY <1>1, <1>2 DEF RowInv
<1>3. ASSUME UNCHANGED flash PROVE \A b \in Bank : InRow(flash'[b])
  BY <1>3 DEF RowInv
<1>4. CASE ReadCfg  BY <1>2, <1>4, FormatKeepsRows DEF ReadCfg
<1>5. ASSUME NEW id \in Ids, NEW v \in Vals, SaveBegin(id, v) \/ SaveSame(id, v)
      PROVE  RowInv'
  <2>1. flash' = Formatted(flash) /\ pc' # "copy"  BY <1>5 DEF SaveBegin, SaveSame
  <2> QED  BY <1>2, <2>1, FormatKeepsRows
<1>6. ASSUME NEW v \in Vals, SaveTooBig(v) PROVE RowInv'
  BY <1>2, <1>3, <1>6 DEF SaveTooBig
<1>7. CASE PackErase  BY <1>7, PackEraseRow
<1>8. CASE PackCopy  BY <1>8, PackCopyRow
<1>9. CASE PackSkip
  <2>1. pc = "copy" /\ op' = [op EXCEPT !.scan = @ + 1] /\ UNCHANGED <<flash, pc>>
    BY <1>9 DEF PackSkip
  <2>2. op'.cur = op.cur /\ op'.new = op.new  BY <1>1, <2>1 DEF IInv, TypeOK, OpState
  <2> QED  BY <1>1, <2>1, <2>2 DEF RowInv
<1>10. CASE PackHeader
  <2> DEFINE nb == [flash[op.new] EXCEPT !.hdr = flash[op.cur].hdr - 1]
  <2>1. pc = "copy" /\ pc' # "copy" /\ flash' = [flash EXCEPT ![op.new] = nb]
    BY <1>10 DEF PackHeader, Return
  <2>2. op.new \in Bank /\ flash[op.new] \in BankState /\ InRow(flash[op.new])
    BY <1>1, <2>1 DEF RowInv, IInv, TypeOK, OpState
  <2>3. nb.recs = flash[op.new].recs  BY <2>2 DEF BankState
  <2> HIDE DEF nb
  <2>4. InRow(nb)  BY <2>2, <2>3, RowStays
  <2> QED  BY <1>2, <2>1, <2>2, <2>4, RowsStay
<1>11. CASE SaveAppend
  <2> DEFINE nb == WithRecord(flash[op.new], op.id, op.val, "whole")
  <2>1. pc = "append" /\ pc' # "copy" /\ flash' = [flash EXCEPT ![op.new] = nb]
    BY <1>11 DEF SaveAppend, Return
  <2>2. /\ op.new \in Bank /\ op.id \in Ids /\ op.val \in Vals
        /\ flash[op.new] \in BankState /\ InRow(flash[op.new])
    BY <1>1, <2>1 DEF RowInv, IInv, TypeOK, OpState
  <2>3. InRow(nb)  BY <2>2, RowGrows DEF Body
  <2> HIDE DEF nb
  <2> QED  BY <1>2, <2>1, <2>2, <2>3, RowsStay
<1>12. CASE Crash \/ FlashError
  <2>1. pc' # "copy" /\ (CutShort \/ UNCHANGED flash)  BY <1>12 DEF Crash, FlashError, Return
  <2> QED  BY <1>2, <1>3, <2>1, CutShortRow
<1>13. CASE UNCHANGED vars  BY <1>1, <1>13 DEF vars, RowInv
<1> QED  BY <1>4, <1>5, <1>6, <1>7, <1>8, <1>9, <1>10, <1>11, <1>12, <1>13 DEF Next, Step

(***************************************************************************)
(* The safety properties.                                                  *)
(***************************************************************************)
\* The state of the store has its type.
THEOREM TypeCorrect == Spec => []TypeOK
<1>1. IInv => TypeOK  BY DEF IInv
<1> QED  BY <1>1, Invariance, PTL

\* No two programmed sectors have the same sequence word, whatever fails and whenever.
THEOREM SequenceWords == Spec => []HeadersDistinct
<1>1. IInv => HeadersDistinct  BY DEF IInv, Distinct, HeadersDistinct
<1> QED  BY <1>1, Invariance, PTL

\* Until the pack is complete the old sector is the one that is read.
THEOREM OldSectorRules == Spec => []OldBankRules
<1>1. IInv => OldBankRules
  <2> SUFFICES ASSUME IInv, pc \in {"erase", "copy"}
               PROVE  CurBank(flash) = op.cur /\ op.new # op.cur
    BY DEF OldBankRules
  <2>1. flash \in [Bank -> BankState] /\ op.cur \in Bank  BY DEF IInv, TypeOK, OpState
  <2> QED  BY <2>1, CurBankUnique DEF IInv, Packing, Leads, Headers
<1> QED  BY <1>1, Invariance, PTL

\* No write of a record leaves its sector.
THEOREM RecordsStayWithin == Spec => []WithinBank
<1>1. IInv => WithinBank
  <2> SUFFICES ASSUME IInv, NEW b \in Bank PROVE End(flash[b]) < BankWords
    BY DEF WithinBank
  <2> DEFINE bk == flash[b]
  <2>1. bk \in BankState /\ RecordsFit(bk)  BY DEF IInv, TypeOK
  <2> HIDE DEF bk
  <2>2. CASE bk.recs = <<>>  BY <2>2, StoreAssumption DEF End, bk
  <2>3. CASE bk.recs # <<>>
    <3>1. Len(bk.recs) \in DOMAIN bk.recs  BY <2>1, <2>3 DEF BankState
    <3> QED  BY <2>1, <2>3, <3>1 DEF End, RecordsFit, bk
  <2> QED  BY <2>2, <2>3 DEF bk
<1> QED  BY <1>1, Invariance, PTL

\* The pack loop copies what it has passed, and only that.
THEOREM PackLoop == Spec => []PackProgress
<1>1. IInv => PackProgress  BY DEF IInv
<1> QED  BY <1>1, Invariance, PTL

\* Packing never runs out of room: the exit of pack_cfg_fmem in the middle of its loop is
\* never taken, whatever was saved, however often power failed and whatever it left.
THEOREM PackHasRoom == Spec => []PackFits
<1>1. Init => RowInv
  <2> SUFFICES ASSUME Init PROVE RowInv  OBVIOUS
  <2>1. InRow(EmptyBank)  BY DEF InRow, EmptyBank
  <2>2. pc # "copy" /\ \A b \in Bank : flash[b] = EmptyBank  BY DEF Init
  <2> QED  BY <2>1, <2>2, InitInv DEF RowInv
<1>2. RowInv => PackFits  BY NextFits DEF PackFits
<1> QED  BY <1>1, <1>2, NextRow, PTL DEF Spec

(***************************************************************************)
(* What callers see.  The pack loop stops two words before the end of the  *)
(* sector, so it misses an object of length zero that lies in the last     *)
(* place of a sector: the theorems below are about objects that have a     *)
(* body.                                                                   *)
(***************************************************************************)
HaveBodies == \A v \in Vals : Words[v] >= 1

\* A read looks in the leading sector.
LEMMA ViewOfLeader ==
  ASSUME flash \in [Bank -> BankState], NEW b \in Bank, Leads(flash, b), NEW i \in Ids
  PROVE  View[i] = IF pc = "append" /\ i = op.id THEN op.was ELSE Lookup(flash[b], i)
<1>1. CurBank(flash) = b  BY CurBankUnique DEF Leads, Headers
<1> QED  BY <1>1 DEF View

\* The same after a step: the primed sectors are read through the primed leader.
LEMMA NextViewOfLeader ==
  ASSUME flash' \in [Bank -> BankState], NEW b \in Bank, Leads(flash', b), NEW i \in Ids
  PROVE  View'[i] = IF pc' = "append" /\ i = op'.id THEN op'.was ELSE Lookup(flash'[b], i)
<1>1. CurBank(flash') = b  BY CurBankUnique DEF Leads, Headers
<1> QED  BY <1>1 DEF View

\* Reads depend on the records of a sector only.
LEMMA SameRecords ==
  ASSUME NEW bk, NEW nb, nb.recs = bk.recs, NEW i
  PROVE  Lookup(nb, i) = Lookup(bk, i)
BY DEF Lookup, Matches

\* What a read finds when no save is in progress, before and after a step.
LEMMA FormatKeepsView ==
  ASSUME IInv, pc = "idle", pc' = "idle", flash' = Formatted(flash)
  PROVE  View' = View
<1>1. /\ CurBank(flash') = CurBank(flash) /\ CurBank(flash') \in Bank
      /\ \A b \in Bank : flash'[b].recs = flash[b].recs
  BY FormattedLeads DEF IInv, TypeOK
<1>2. \A i \in Ids : Lookup(flash'[CurBank(flash')], i) = Lookup(flash[CurBank(flash)], i)
  BY <1>1, SameRecords
<1> QED  BY <1>2 DEF View

\* The start of a save changes no read.
LEMMA SaveBeginKeepsView ==
  ASSUME IInv, NEW id \in Ids, NEW v \in Vals, SaveBegin(id, v)
  PROVE  View' = View
<1> DEFINE f == Formatted(flash)
           b == CurBank(f)
<1>1. /\ f \in [Bank -> BankState] /\ b \in Bank /\ b = CurBank(flash)
      /\ \A c \in Bank : f[c].recs = flash[c].recs
  BY FormattedLeads DEF IInv, TypeOK
<1>2. pc = "idle" /\ flash' = f /\ op'.id = id /\ op'.was = Lookup(f[b], id)
  BY DEF SaveBegin
<1> HIDE DEF f
<1>3. \A i \in Ids : Lookup(f[b], i) = Lookup(flash[b], i)  BY <1>1, SameRecords
<1> QED  BY <1>1, <1>2, <1>3 DEF View

\* Nor does any step of a pack before its sequence word.
LEMMA PackKeepsView ==
  ASSUME IInv, PackErase \/ PackCopy \/ PackSkip
  PROVE  View' = View
<1>1. /\ pc \in {"erase", "copy"} /\ pc' = "copy" /\ op'.cur = op.cur /\ op'.new = op.new
      /\ op.cur \in Bank /\ op.new \in Bank /\ op.cur # op.new
  BY DEF PackErase, PackCopy, PackSkip, IInv, TypeOK, OpState, Packing
<1>2. IInv'  BY PackEraseInv, PackCopyInv, PackSkipInv
<1>3. flash'[op.cur] = flash[op.cur]
  BY <1>1 DEF PackErase, PackCopy, PackSkip, IInv, TypeOK
<1>4. /\ flash \in [Bank -> BankState] /\ Leads(flash, op.cur)
      /\ flash' \in [Bank -> BankState] /\ Leads(flash', op.cur)
  BY <1>1, <1>2 DEF IInv, TypeOK, Packing
<1>5. \A i \in Ids : View'[i] = View[i]
  BY <1>1, <1>3, <1>4, ViewOfLeader, NextViewOfLeader
<1> QED  BY <1>5 DEF View

\* When the loop is over, the new sector says what the old one says of every object
\* but the one being saved.
LEMMA PackComplete ==
  ASSUME HaveBodies, IInv, pc = "copy", ~PackVisits(flash[op.cur], op.scan), NEW i \in Ids
  PROVE  Lookup(flash[op.new], i) = IF i = op.id THEN None ELSE Lookup(flash[op.cur], i)
<1> DEFINE old == flash[op.cur]
           new == flash[op.new]
<1>1. /\ old \in BankState /\ new \in BankState /\ op.scan \in Nat \ {0} /\ RecordsFit(old)
      /\ ~PackVisits(old, op.scan)
  BY DEF IInv, TypeOK, OpState
<1>2. /\ \A j \in Ids : Lookup(new, j) # None => j # op.id /\ Lookup(new, j) = Lookup(old, j)
      /\ \A k \in 1 .. op.scan - 1 :
           old.recs[k].id # op.id => Lookup(new, old.recs[k].id) # None
  BY DEF IInv, PackProgress
<1> HIDE DEF old, new
<1>3. ASSUME NEW k \in DOMAIN old.recs PROVE k \in 1 .. op.scan - 1
  <2>1. old.recs[k] \in Rec /\ old.recs \in Seq(Rec)  BY <1>1 DEF BankState
  <2>2. op.scan \notin DOMAIN old.recs
    <3> SUFFICES ASSUME op.scan \in DOMAIN old.recs PROVE FALSE  OBVIOUS
    <3>1. old.recs[op.scan] \in Rec /\ op.scan <= Len(old.recs)  BY <2>1
    <3>2. old.recs[op.scan].val \in Vals /\ old.recs[op.scan].addr \in Nat  BY <3>1 DEF Rec
    <3>3. Words[old.recs[op.scan].val] \in Nat /\ Words[old.recs[op.scan].val] >= 1
      BY <3>2, StoreAssumption DEF HaveBodies
    <3>4. old.recs[op.scan].addr + (1 + Words[old.recs[op.scan].val]) < BankWords
      BY <1>1 DEF RecordsFit, RecWords
    <3>5. old.recs[op.scan].addr < BankWords - 2
      BY <3>2, <3>3, <3>4, StoreAssumption
    <3> QED  BY <1>1, <3>1, <3>5 DEF PackVisits
  <2> QED  BY <1>1, <2>1, <2>2
<1>4. CASE i = op.id  BY <1>2, <1>4 DEF new
<1>5. CASE i # op.id
  <2>1. CASE Lookup(new, i) # None  BY <1>2, <1>5, <2>1 DEF new, old
  <2>2. CASE Lookup(new, i) = None
    <3>1. Matches(old, i) = {}
      <4> SUFFICES ASSUME NEW k \in Matches(old, i) PROVE FALSE  OBVIOUS
      <4>1. k \in DOMAIN old.recs /\ old.recs[k].id = i  BY DEF Matches
      <4> QED  BY <1>2, <1>3, <1>5, <2>2, <4>1
    <3> QED  BY <1>1, <1>5, <2>2, <3>1, LookupFinds DEF new, old
  <2> QED  BY <2>1, <2>2
<1> QED  BY <1>4, <1>5

\* The sequence word of the new sector changes no read but, when the object does not
\* fit after all, that of the object being saved.
LEMMA PackHeaderView ==
  ASSUME HaveBodies, IInv, PackHeader, NEW i \in Ids
  PROVE  IF pc' = "idle" /\ i = op.id THEN View'[i] = None ELSE View'[i] = View[i]
<1>1. /\ pc = "copy" /\ ~PackVisits(flash[op.cur], op.scan)
      /\ op.new \in Bank /\ op.cur \in Bank /\ op.cur # op.new
      /\ \/ pc' = "append" /\ op' = op
         \/ pc' = "idle"
  BY DEF PackHeader, Return, IInv, TypeOK, OpState, Packing
<1>2. /\ flash \in [Bank -> BankState] /\ Leads(flash, op.cur)
      /\ op.was = Lookup(flash[op.cur], op.id)
  BY <1>1 DEF IInv, TypeOK, Packing
<1>3. /\ flash' \in [Bank -> BankState] /\ flash'[op.new].recs = flash[op.new].recs
      /\ flash'[op.new].hdr = flash[op.cur].hdr - 1
      /\ \A c \in Bank \ {op.new} : flash'[c] = flash[c]
  <2>1. flash' = [flash EXCEPT ![op.new].hdr = flash[op.cur].hdr - 1]  BY DEF PackHeader
  <2>2. flash' \in [Bank -> BankState]  BY PackHeaderInv DEF IInv, TypeOK
  <2>3. flash[op.new] \in BankState  BY <1>1, <1>2
  <2> QED  BY <1>1, <1>2, <2>1, <2>2, <2>3 DEF BankState
<1>4. Leads(flash', op.new)
  <2> SUFFICES ASSUME NEW c \in Bank \ {op.new} PROVE flash'[op.new].hdr < flash'[c].hdr
    BY DEF Leads
  <2>1. c = op.cur \/ flash[op.cur].hdr < flash[c].hdr  BY <1>2 DEF Leads
  <2>2. flash[c].hdr \in Nat /\ flash[op.cur].hdr \in Nat
    BY <1>1, <1>2, StoreAssumption DEF BankState
  <2> QED  BY <1>3, <2>1, <2>2
<1>5. Lookup(flash'[op.new], i) = Lookup(flash[op.new], i)  BY <1>3, SameRecords
<1>6. Lookup(flash[op.new], i) = IF i = op.id THEN None ELSE Lookup(flash[op.cur], i)
  BY <1>1, PackComplete
<1>7. View[i] = Lookup(flash[op.cur], i)  BY <1>1, <1>2, ViewOfLeader
<1>8. View'[i] = IF pc' = "append" /\ i = op'.id THEN op'.was ELSE Lookup(flash'[op.new], i)
  BY <1>1, <1>3, <1>4, NextViewOfLeader
<1> QED  BY <1>1, <1>2, <1>5, <1>6, <1>7, <1>8

\* The write of the object: other reads stay as they were, and reads of the object find
\* it when it is written whole, the torn object when it is not.
LEMMA WriteView ==
  ASSUME IInv, pc = "append", pc' = "idle", NEW t \in Body,
         flash' = [flash EXCEPT ![op.new] = WithRecord(flash[op.new], op.id, op.val, t)]
  PROVE  \A i \in Ids : View'[i] = IF i = op.id THEN [val |-> op.val, body |-> t] ELSE View[i]
<1> DEFINE bk == WithRecord(flash[op.new], op.id, op.val, t)
<1>1. /\ op.new \in Bank /\ op.id \in Ids /\ op.val \in Vals
      /\ flash \in [Bank -> BankState] /\ flash[op.new] \in BankState
  BY DEF IInv, TypeOK, OpState
<1>2. Leads(flash, op.new) /\ Fits(flash[op.new], op.val) /\ RecordsFit(flash[op.new])
  BY <1>1 DEF IInv, Appending
<1>3. bk \in BankState /\ bk.hdr = flash[op.new].hdr /\ End(flash[op.new]) < BankWords - 1
  BY <1>1, <1>2, AppendFits
<1>4. \A j \in Ids : Lookup(bk, j) = IF j = op.id THEN [val |-> op.val, body |-> t]
                                                ELSE Lookup(flash[op.new], j)
  BY <1>1, <1>3, LookupAppend
<1> HIDE DEF bk
<1>5. /\ flash' \in [Bank -> BankState] /\ flash'[op.new] = bk
      /\ \A c \in Bank \ {op.new} : flash'[c] = flash[c]
  BY <1>1, <1>3, BankWrite DEF bk
<1>6. Leads(flash', op.new)  BY <1>1, <1>2, <1>3, <1>5 DEF Leads
<1>7. \A j \in Ids : View'[j] = Lookup(bk, j)  BY <1>1, <1>5, <1>6, NextViewOfLeader
<1>8. \A j \in Ids : View[j] = IF j = op.id THEN op.was ELSE Lookup(flash[op.new], j)
  BY <1>1, <1>2, ViewOfLeader
<1> QED  BY <1>4, <1>7, <1>8

\* Stopping before the write of the object changes no other read, and leaves of the
\* object what there was or, after a pack, nothing.
LEMMA NoWriteView ==
  ASSUME IInv, pc = "append", pc' = "idle", UNCHANGED flash
  PROVE  /\ \A i \in Ids \ {op.id} : View'[i] = View[i]
         /\ View'[op.id] \in {View[op.id], None}
<1>1. /\ op.new \in Bank /\ op.id \in Ids /\ flash \in [Bank -> BankState]
      /\ Leads(flash, op.new) /\ Lookup(flash[op.new], op.id) \in {op.was, None}
  BY DEF IInv, TypeOK, OpState, Appending
<1>2. \A j \in Ids : View[j] = IF j = op.id THEN op.was ELSE Lookup(flash[op.new], j)
  BY <1>1, ViewOfLeader
<1>3. \A j \in Ids : View'[j] = Lookup(flash[op.new], j)
  BY <1>1, NextViewOfLeader
<1> QED  BY <1>1, <1>2, <1>3

\* A write of the object that is cut short.
LEMMA CutWriteView ==
  ASSUME IInv, pc = "append", pc' = "idle", CutShort \/ UNCHANGED flash
  PROVE  /\ \A i \in Ids \ {op.id} : View'[i] = View[i]
         /\ \E o \in {View[op.id], Store!Good(op.val), Store!Torn(op.val), None} :
              View'[op.id] = o
<1>1. op.new \in Bank /\ flash \in [Bank -> BankState] /\ op.id \in Ids
  BY DEF IInv, TypeOK, OpState
<1>2. CASE UNCHANGED flash  BY <1>2, NoWriteView
<1>3. CASE CutShort
  <2>1. PICK bk \in CutWrites(flash[op.new], op.id, op.val, "whole") :
               flash' = [flash EXCEPT ![op.new] = bk]
    BY <1>3 DEF CutShort
  <2>2. CASE bk = flash[op.new]
    <3>1. UNCHANGED flash  BY <1>1, <2>1, <2>2
    <3> QED  BY <3>1, NoWriteView
  <2>3. ASSUME NEW t \in Body, bk = WithRecord(flash[op.new], op.id, op.val, t)
        PROVE  /\ \A i \in Ids \ {op.id} : View'[i] = View[i]
               /\ View'[op.id] = [val |-> op.val, body |-> t]
    BY <1>1, <2>1, <2>3, WriteView
  <2>4. "torn" \in Body /\ "whole" \in Body  BY DEF Body
  <2> QED  BY <2>1, <2>2, <2>3, <2>4 DEF CutWrites, Store!Good, Store!Torn
<1> QED  BY <1>2, <1>3

\* Whatever stops a pack before its sequence word, reads find what they found.
LEMMA StoppedPackView ==
  ASSUME IInv, pc \in {"erase", "copy"}, pc' = "idle", CutShort \/ UNCHANGED flash, NEW i \in Ids
  PROVE  View'[i] = View[i]
<1>1. /\ op.new \in Bank /\ op.cur \in Bank /\ op.cur # op.new /\ Leads(flash, op.cur)
      /\ flash \in [Bank -> BankState] /\ op.scan \in Nat \ {0} /\ RecordsFit(flash[op.new])
  BY DEF IInv, TypeOK, OpState, Packing
<1>2. \A c \in Bank : flash[c].hdr \in 0 .. Erased  BY <1>1 DEF BankState
<1>3. flash' \in [Bank -> BankState]  BY <1>1, CutShortOK
<1>4. ASSUME NEW bk, bk.hdr >= flash[op.new].hdr, bk.hdr \in Nat,
             flash' = [flash EXCEPT ![op.new] = bk]
      PROVE  Leads(flash', op.cur) /\ flash'[op.cur] = flash[op.cur]
  <2>1. flash'[op.new] = bk /\ \A c \in Bank \ {op.new} : flash'[c] = flash[c]
    BY <1>1, <1>4
  <2>2. flash[op.cur].hdr < flash[op.new].hdr  BY <1>1 DEF Leads
  <2>3. flash[op.cur].hdr < bk.hdr  BY <1>1, <1>2, <1>4, <2>2, StoreAssumption
  <2> QED  BY <1>1, <2>1, <2>3 DEF Leads
<1>5. Leads(flash', op.cur) /\ flash'[op.cur] = flash[op.cur]
  <2>1. CASE UNCHANGED flash  BY <1>1, <2>1
  <2>2. CASE CutShort /\ pc = "erase"
    <3>1. PICK h \in flash[op.new].hdr .. Erased :
            flash' = [flash EXCEPT ![op.new] = [hdr |-> h, recs |-> flash[op.new].recs]]
      BY <2>2 DEF CutShort, CutErases
    <3>2. h \in Nat /\ h >= flash[op.new].hdr  BY <1>1, <1>2, StoreAssumption
    <3> DEFINE bk == [hdr |-> h, recs |-> flash[op.new].recs]
    <3>3. bk.hdr = h  OBVIOUS
    <3> HIDE DEF bk
    <3> QED  BY <1>4, <3>1, <3>2, <3>3 DEF bk
  <2>3. CASE CutShort /\ pc = "copy"
    <3> DEFINE id == flash[op.cur].recs[op.scan].id
               o  == Lookup(flash[op.cur], id)
    <3>1. /\ PackVisits(flash[op.cur], op.scan)
          /\ Fits(flash[op.new], o.val)
          /\ \E bk \in CutWrites(flash[op.new], id, o.val, o.body) :
               flash' = [flash EXCEPT ![op.new] = bk]
      BY <2>3 DEF CutShort
    <3>2. flash[op.cur] \in BankState /\ flash[op.new] \in BankState  BY <1>1
    <3>3. id \in Ids /\ o \in Objs  BY <3>1, <3>2, <1>1, VisitedIsFound
    <3>4. o.val \in Vals /\ o.body \in Body  BY <3>3 DEF Objs
    <3> HIDE DEF id, o
    <3>5. PICK bk \in CutWrites(flash[op.new], id, o.val, o.body) :
               flash' = [flash EXCEPT ![op.new] = bk]
      BY <3>1
    <3>6. bk.hdr = flash[op.new].hdr  BY <1>1, <3>1, <3>2, <3>3, <3>4, CutWriteOK
    <3>7. bk.hdr >= flash[op.new].hdr /\ bk.hdr \in Nat  BY <1>1, <1>2, <3>6
    <3> QED  BY <1>4, <3>5, <3>7
  <2> QED  BY <2>1, <2>2, <2>3
<1> QED  BY <1>1, <1>3, <1>5, ViewOfLeader, NextViewOfLeader

\* One step changes no read of an object that is not being saved.
LEMMA OthersStep ==
  ASSUME HaveBodies, IInv, [Next]_vars, NEW i \in Ids, pc = "idle" \/ i # op.id
  PROVE  View'[i] = View[i]
<1>1. CASE ReadCfg  BY <1>1, FormatKeepsView DEF ReadCfg
<1>2. ASSUME NEW id \in Ids, NEW v \in Vals, SaveBegin(id, v) PROVE View'[i] = View[i]
  BY <1>2, SaveBeginKeepsView
<1>3. ASSUME NEW id \in Ids, NEW v \in Vals, SaveSame(id, v) PROVE View'[i] = View[i]
  BY <1>3, FormatKeepsView DEF SaveSame
<1>4. ASSUME NEW v \in Vals, SaveTooBig(v) PROVE View'[i] = View[i]
  BY <1>4 DEF SaveTooBig, View
<1>5. CASE PackErase \/ PackCopy \/ PackSkip  BY <1>5, PackKeepsView
<1>6. CASE PackHeader
  <2>1. i # op.id  BY <1>6 DEF PackHeader
  <2> QED  BY <1>6, <2>1, PackHeaderView
<1>7. CASE SaveAppend
  <2>1. /\ pc = "append" /\ pc' = "idle"
        /\ flash' = [flash EXCEPT ![op.new] = WithRecord(flash[op.new], op.id, op.val, "whole")]
    BY <1>7 DEF SaveAppend, Return
  <2>2. "whole" \in Body /\ i # op.id  BY <2>1 DEF Body
  <2> QED  BY <2>1, <2>2, WriteView
<1>8. CASE Crash \/ FlashError
  <2>1. /\ pc # "idle" /\ pc' = "idle" /\ i # op.id
        /\ CutShort \/ UNCHANGED flash
    BY <1>8 DEF Crash, FlashError, Return
  <2>2. CASE pc = "append"  BY <2>1, <2>2, CutWriteView
  <2>3. CASE pc \in {"erase", "copy"}  BY <2>1, <2>3, StoppedPackView
  <2> QED  BY <2>1, <2>2, <2>3 DEF IInv, TypeOK
<1>9. CASE UNCHANGED vars  BY <1>9 DEF vars, View
<1> QED  BY <1>1, <1>2, <1>3, <1>4, <1>5, <1>6, <1>7, <1>8, <1>9 DEF Next, Step

\* Whatever fails, and whenever, saving one object leaves every other object as it was.
THEOREM OthersSurvive ==
  ASSUME HaveBodies
  PROVE  Spec => OthersUntouched
<1>1. IInv /\ [Next]_vars =>
        [\A i \in Ids : (pc = "idle" \/ i # op.id) => View'[i] = View[i]]_vars
  BY OthersStep
<1> QED  BY <1>1, Invariance, PTL DEF Spec, OthersUntouched

(***************************************************************************)
(* The store implements the map of ConfigStore.                            *)
(***************************************************************************)
Pending == IF pc = "idle" THEN {} ELSE {[id |-> op.id, val |-> op.val]}

\* An erased store is the empty map.
LEMMA StoreInit == Init => Store!CInit
<1> SUFFICES ASSUME Init PROVE Store!CInit  OBVIOUS
<1>1. EmptyBank \in BankState  BY StoreAssumption DEF EmptyBank, BankState
<1>2. flash \in [Bank -> BankState] /\ \A b \in Bank : flash[b] = EmptyBank
  BY <1>1 DEF Init
<1>3. CurBank(flash) \in Bank  BY <1>2, CurBankIsLeast DEF Headers
<1>4. \A i \in Ids : Lookup(flash[CurBank(flash)], i) = None
  BY <1>2, <1>3 DEF Lookup, Matches, EmptyBank
<1>5. View = [i \in Ids |-> None]  BY <1>4 DEF View, Init
<1> QED  BY <1>5 DEF Init, Store!CInit

\* A step that leaves what callers see as it was.
LEMMA Stutter ==
  ASSUME View' = View, pc # "idle", pc' # "idle", op'.id = op.id, op'.val = op.val, ret' = ret
  PROVE  UNCHANGED Store!cvars
BY DEF Store!cvars

\* What a save that was stopped may return.
Stopped == {"none", "false"} \cup (IF "error" \in Faults THEN {"true"} ELSE {})

\* A save that was stopped.
LEMMA Abandoned ==
  ASSUME pc # "idle", pc' = "idle", ret' \in Stopped, op.id \in Ids,
         \A i \in Ids \ {op.id} : View'[i] = View[i],
         \E o \in {View[op.id], Store!Good(op.val), Store!Torn(op.val), None} : View'[op.id] = o
  PROVE  Store!CAbandon
<1> DEFINE p == [id |-> op.id, val |-> op.val]
<1>1. Pending = {p} /\ Pending' = {} /\ p.id = op.id /\ p.val = op.val  BY DEF Pending
<1>2. PICK o \in {View[op.id], Store!Good(op.val), Store!Torn(op.val), None} : View'[op.id] = o
  OBVIOUS
<1>3. View' = [View EXCEPT ![op.id] = o]
  <2>1. View \in [Ids -> {View[i] : i \in Ids}] /\ View' = [i \in Ids |-> View'[i]]
    BY DEF View
  <2> QED  BY <1>2, <2>1
<1> QED  BY <1>1, <1>2, <1>3 DEF Store!CAbandon, Pending, Stopped

\* Every step of the store is a step of the map or leaves what callers see alone.
LEMMA StoreStep ==
  ASSUME HaveBodies, IInv, [Next]_vars
  PROVE  [Store!CNext]_(Store!cvars)
<1>1. CASE ReadCfg
  <2>1. View' = View  BY <1>1, FormatKeepsView DEF ReadCfg
  <2> QED  BY <1>1, <2>1 DEF ReadCfg, Store!cvars
<1>2. ASSUME NEW id \in Ids, NEW v \in Vals, SaveBegin(id, v) PROVE Store!CBegin(id, v)
  <2>1. View' = View  BY <1>2, SaveBeginKeepsView
  <2>2. pc = "idle" /\ pc' # "idle" /\ ret' = "none" /\ op'.id = id /\ op'.val = v
    BY <1>2 DEF SaveBegin
  <2> QED  BY <2>1, <2>2 DEF Store!CBegin
<1>3. ASSUME NEW id \in Ids, NEW v \in Vals, SaveSame(id, v) PROVE Store!CSame(id, v)
  <2>1. /\ pc = "idle" /\ pc' = "idle" /\ flash' = Formatted(flash) /\ ret' = "true"
        /\ Lookup(flash'[CurBank(flash')], id) = Intact(v)
    BY <1>3 DEF SaveSame
  <2>2. View' = View  BY <2>1, FormatKeepsView
  <2>3. View'[id] = Intact(v)  BY <2>1 DEF View
  <2> QED  BY <2>1, <2>2, <2>3 DEF Store!CSame, Store!Good, Intact
<1>4. ASSUME NEW v \in Vals, SaveTooBig(v) PROVE Store!CRefuse
  BY <1>4 DEF SaveTooBig, Store!CRefuse, View
<1>5. CASE PackErase \/ PackCopy \/ PackSkip
  <2>1. View' = View  BY <1>5, PackKeepsView
  <2>2. /\ pc # "idle" /\ pc' # "idle" /\ ret' = ret /\ op \in OpState
        /\ op'.id = op.id /\ op'.val = op.val
    BY <1>5 DEF PackErase, PackCopy, PackSkip, IInv, TypeOK, OpState
  <2> QED  BY <2>1, <2>2, Stutter
<1>6. CASE PackHeader
  <2>1. pc = "copy" /\ op.id \in Ids
    BY <1>6 DEF PackHeader, IInv, TypeOK, OpState
  <2>2. \A i \in Ids : IF pc' = "idle" /\ i = op.id THEN View'[i] = None ELSE View'[i] = View[i]
    BY <1>6, PackHeaderView
  <2>3. CASE pc' = "append"
    <3>1. op' = op /\ ret' = ret  BY <1>6, <2>3 DEF PackHeader, Return
    <3>2. View' = View
      <4>1. View = [i \in Ids |-> View[i]] /\ View' = [i \in Ids |-> View'[i]]  BY DEF View
      <4> QED  BY <4>1, <2>2, <2>3
    <3> QED  BY <2>1, <2>3, <3>1, <3>2, Stutter
  <2>4. CASE pc' = "idle"
    <3>1. ret' = "false"  BY <1>6, <2>4 DEF PackHeader, Return
    <3> QED  BY <2>1, <2>2, <2>4, <3>1, Abandoned DEF Store!CNext, Stopped
  <2> QED  BY <1>6, <2>3, <2>4 DEF PackHeader, Return
<1>7. CASE SaveAppend
  <2>1. /\ pc = "append" /\ pc' = "idle" /\ ret' = "true" /\ op.id \in Ids
        /\ flash' = [flash EXCEPT ![op.new] = WithRecord(flash[op.new], op.id, op.val, "whole")]
    BY <1>7 DEF SaveAppend, Return, IInv, TypeOK, OpState
  <2>2. "whole" \in Body  BY DEF Body
  <2>3. \A i \in Ids : View'[i] = IF i = op.id THEN Store!Good(op.val) ELSE View[i]
    BY <2>1, <2>2, WriteView DEF Store!Good
  <2> DEFINE p == [id |-> op.id, val |-> op.val]
  <2>4. Pending = {p} /\ Pending' = {} /\ p.id = op.id /\ p.val = op.val  BY <2>1 DEF Pending
  <2>5. View' = [View EXCEPT ![op.id] = Store!Good(op.val)]
    <3>1. View = [i \in Ids |-> View[i]] /\ View' = [i \in Ids |-> View'[i]]  BY DEF View
    <3> QED  BY <2>3, <3>1
  <2>6. Store!CFinish  BY <2>1, <2>4, <2>5 DEF Store!CFinish, Pending
  <2> QED  BY <2>6 DEF Store!CNext
<1>8. CASE Crash \/ FlashError
  <2>1. /\ pc # "idle" /\ pc' = "idle" /\ ret' \in Stopped
        /\ CutShort \/ UNCHANGED flash
        /\ op.id \in Ids
    BY <1>8 DEF Crash, FlashError, Return, IInv, TypeOK, OpState, Stopped
  <2>2. CASE pc = "append"
    BY <2>1, <2>2, CutWriteView, Abandoned DEF Store!CNext
  <2>3. CASE pc \in {"erase", "copy"}
    <3>1. \A i \in Ids : View'[i] = View[i]  BY <2>1, <2>3, StoppedPackView
    <3> QED  BY <2>1, <3>1, Abandoned DEF Store!CNext
  <2> QED  BY <2>1, <2>2, <2>3 DEF IInv, TypeOK
<1>9. CASE UNCHANGED vars  BY <1>9 DEF vars, View, Store!cvars
<1> QED
  BY <1>1, <1>2, <1>3, <1>4, <1>5, <1>6, <1>7, <1>8, <1>9 DEF Next, Step, Store!CNext

\* Records, sectors, packing, power cuts and errors of the flash are invisible to callers:
\* the store is a map from ids to the object last saved, and a save that is stopped damages
\* nothing but the object it was saving.  What it returns can be relied on as long as the
\* flash reports no error.
THEOREM StoreIsAMap ==
  ASSUME HaveBodies
  PROVE  Spec => ImplementsStore
<1>1. Init => Store!CInit  BY StoreInit
<1>2. IInv /\ [Next]_vars => [Store!CNext]_(Store!cvars)  BY StoreStep
<1> QED  BY <1>1, <1>2, Invariance, PTL DEF Spec, ImplementsStore, Store!CSpec
=============================================================================
