---------------------------- MODULE AppendOnlyLog ----------------------------
(***************************************************************************)
(* What a transparency log promises (README of services/registry-ledger:   *)
(* append-only, tree heads committed on-chain): leaves are only ever added *)
(* at the end, and a published tree head is a head of the log.             *)
(***************************************************************************)
EXTENDS Sequences, Naturals

CONSTANT Leaf
VARIABLES log, heads

HeadsOf(s) == {SubSeq(s, 1, n) : n \in 0 .. Len(s)}

Init == log \in Seq(Leaf) /\ heads \subseteq HeadsOf(log)

Grow == \E l \in Leaf : log' = Append(log, l) /\ UNCHANGED heads

Publish == \E h \in HeadsOf(log) : heads' = heads \cup {h} /\ UNCHANGED log

Spec == Init /\ [][Grow \/ Publish]_<<log, heads>>
==============================================================================
