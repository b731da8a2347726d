---------------------------- MODULE ConfigStore ----------------------------
(***************************************************************************)
(* What the settings store promises its callers (flash_save_cfg and        *)
(* flash_read_cfg of app/web/flash_eep.c), without banks, records, packing *)
(* or power cuts in the middle of a write: a map from object ids to the    *)
(* object last saved under the id, at most one save in progress, and a     *)
(* save that either takes effect or is abandoned.  An abandoned save may   *)
(* damage the object being saved and no other.  Module FlashEep implements *)
(* this specification.                                                     *)
(***************************************************************************)
EXTENDS Naturals

CONSTANTS Ids,      \* object ids (ID_CFG_WIFI, ID_CFG_SYS, ...)
          Vals,     \* object values
          None,     \* what a read reports for an object that was never saved
          Errors    \* may the medium report errors?

\* An object is as it was saved, or its writing was cut short.
Body == {"whole", "torn"}

VARIABLES store,    \* id -> what a read of the id finds
          pending,  \* the saves in progress: a set with at most one element
          ret       \* what the last save returned

cvars == <<store, pending, ret>>

Good(v) == [val |-> v, body |-> "whole"]
Torn(v) == [val |-> v, body |-> "torn"]
Objects == [val : Vals, body : Body] \cup {None}

CInit == /\ store = [i \in Ids |-> None]
         /\ pending = {}
         /\ ret = "none"

\* A save starts.
CBegin(i, v) == /\ pending = {}
                /\ pending' = {[id |-> i, val |-> v]}
                /\ ret' = "none"
                /\ UNCHANGED store

\* The object already has that value: nothing is written.
CSame(i, v) == /\ pending = {}
               /\ store[i] = Good(v)
               /\ ret' = "true"
               /\ UNCHANGED <<store, pending>>

\* A save is refused before anything is written.
CRefuse == /\ pending = {}
           /\ ret' = "false"
           /\ UNCHANGED <<store, pending>>

\* A save takes effect, and says so.
CFinish == \E p \in pending :
             /\ store' = [store EXCEPT ![p.id] = Good(p.val)]
             /\ pending' = {}
             /\ ret' = "true"

\* A save is cut short: only the object being saved can suffer.  When it was an error of
\* the medium that ended it, the save may say that it has taken effect.
CAbandon == \E p \in pending :
              /\ \E o \in {store[p.id], Good(p.val), Torn(p.val), None} :
                   store' = [store EXCEPT ![p.id] = o]
              /\ pending' = {}
              /\ ret' \in {"none", "false"} \cup (IF Errors THEN {"true"} ELSE {})

CNext == \/ \E i \in Ids, v \in Vals : CBegin(i, v) \/ CSame(i, v)
         \/ CRefuse
         \/ CFinish
         \/ CAbandon

CSpec == CInit /\ [][CNext]_cvars
=============================================================================
