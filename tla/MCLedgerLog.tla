----------------------------- MODULE MCLedgerLog -----------------------------
(***************************************************************************)
(* Instances of LedgerLog for TLC: two or three requests, one content hash *)
(* besides the one attested before.                                        *)
(***************************************************************************)
EXTENDS LedgerLog, TLC

CONSTANTS r1, r2, r3

Symmetry == Permutations(Requests)
==============================================================================
