---------------------------- MODULE MCTxPipeline ----------------------------
(***************************************************************************)
(* Instances of TxPipeline for TLC: two requests, two delivery attempts.   *)
(***************************************************************************)
EXTENDS TxPipeline, TLC

CONSTANTS t1, t2

Symmetry == Permutations(Txs)
=============================================================================
