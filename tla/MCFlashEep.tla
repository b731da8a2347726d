----------------------------- MODULE MCFlashEep -----------------------------
(* Constants of FlashEep for TLC. *)
EXTENDS FlashEep

CONSTANTS v0, v1, w1, v2, v3

\* v0 is the object of length zero (web_iohw.c clears settings with it), v3 is
\* longer than MAX_FOBJ_SIZE.
MCWords == [v \in Vals |-> CASE v = v0 -> 0 [] v \in {v1, w1} -> 1 [] v = v2 -> 2 [] OTHER -> 4]
=============================================================================
