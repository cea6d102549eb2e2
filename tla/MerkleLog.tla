----------------------------- MODULE MerkleLog -----------------------------
(***************************************************************************)
(* The Merkle tree algorithms: RFC 6962 hashes and proofs of the           *)
(* transparency log (registry-ledger), its verifiers, the verifiers of the *)
(* SDK, and the tree of the anchor worker.  Hashes are symbolic: <<d>> is  *)
(* the hash of leaf d, <<l, r>> of a node, <<>> of the empty tree.         *)
(*                                                                         *)
(* The state is a log and a rewritten copy of it that differs at any       *)
(* leaves; the properties quantify over everything both logs can serve.    *)
(***************************************************************************)
EXTENDS Integers, Sequences, SequencesExt

CONSTANT MaxSize   \* bound: leaves

VARIABLES leaves, rewritten
merkleVars == <<leaves, rewritten>>

HashLeaf(d) == <<d>>
HashChildren(l, r) == <<l, r>>

\* (mutant) a split in the middle
SplitHalf(n) == n \div 2

\* largestPowerOfTwoSmallerThan: the loop, from k on
Doublings == [n : Nat, k : Nat \ {0}]
PowerBelow[p \in Doublings] ==
  IF 2 * p.k < p.n THEN PowerBelow[[p EXCEPT !.k = 2 * @]] ELSE p.k

Split(n) == PowerBelow[[n |-> n, k |-> 1]]

\* A half-open range [start, end) of a log's leaves, and its two parts
Span(log, start, end) == [log |-> log, start |-> start, end |-> end]
Spans == {r \in [log : Seq(Int), start : Nat, end : Nat] :
            r.start <= r.end /\ r.end <= Len(r.log)}
Width(r) == r.end - r.start
Cut(r) == r.start + Split(Width(r))
LeftPart(r) == Span(r.log, r.start, Cut(r))
RightPart(r) == Span(r.log, Cut(r), r.end)

\* mth
Mth[r \in Spans] ==
  IF Width(r) = 0 THEN <<>>
  ELSE IF Width(r) = 1 THEN HashLeaf(r.log[r.start + 1])
  ELSE HashChildren(Mth[LeftPart(r)], Mth[RightPart(r)])

RootAt(log, size) == Mth[Span(log, 0, size)]

\* path, inclusionProof: the audit path of leaf m, an index into the log
Spots == {p \in [m : Nat, r : Spans] : p.r.start <= p.m /\ p.m < p.r.end}
Path[p \in Spots] ==
  IF Width(p.r) = 1 THEN <<>>
  ELSE IF p.m < Cut(p.r)
       THEN Append(Path[[p EXCEPT !.r = LeftPart(@)]], Mth[RightPart(p.r)])
       ELSE Append(Path[[p EXCEPT !.r = RightPart(@)]], Mth[LeftPart(p.r)])

InclusionProof(log, m, size) == Path[[m |-> m, r |-> Span(log, 0, size)]]

\* subproof, consistencyProof: the first tree ends m leaves into the range
FirstTrees == {p \in [m : Nat, r : Spans, b : BOOLEAN] : 0 < p.m /\ p.m <= Width(p.r)}
Subproof[p \in FirstTrees] ==
  LET k == Split(Width(p.r))
  IN IF p.m = Width(p.r) THEN IF p.b THEN <<>> ELSE <<Mth[p.r]>>
     ELSE IF p.m <= k
          THEN Append(Subproof[[p EXCEPT !.r = LeftPart(@)]], Mth[RightPart(p.r)])
          ELSE Append(Subproof[[m |-> p.m - k, r |-> RightPart(p.r), b |-> FALSE]],
                      Mth[LeftPart(p.r)])

ConsistencyProof(log, first, second) ==
  IF first \in {0, second} THEN <<>>
  ELSE Subproof[[m |-> first, r |-> Span(log, 0, second), b |-> TRUE]]

-----------------------------------------------------------------------------
(* The verifiers: fn climbs from a leaf, or from the last leaf of the first  *)
(* tree, and sn from the last leaf of the tree.                              *)

Places == [fn : Nat, sn : Nat]

Odd(n) == n % 2 = 1

Shifted(at) == [fn |-> at.fn \div 2, sn |-> at.sn \div 2]

\* Shifts both until fn is odd or zero
ShiftWhileEven[at \in Places] ==
  IF at.fn = 0 \/ Odd(at.fn) THEN at ELSE ShiftWhileEven[Shifted(at)]

\* Shifts both until fn is even
ShiftWhileOdd[at \in Places] ==
  IF Odd(at.fn) THEN ShiftWhileOdd[Shifted(at)] ELSE at

\* The current node is a right child, or the last of its level
FromLeft(at) == Odd(at.fn) \/ at.fn = at.sn

\* One level up: both loops end with a shift of their own
Up(at) == Shifted(IF FromLeft(at) THEN ShiftWhileEven[at] ELSE at)

\* One element p of an audit path; a path longer than the tree allows fails.
ClimbLeaf(s, p) ==
  IF ~s.ok \/ s.at.sn = 0 THEN [s EXCEPT !.ok = FALSE]
  ELSE [ok |-> TRUE, at |-> Up(s.at),
        r |-> IF FromLeft(s.at) THEN HashChildren(p, s.r) ELSE HashChildren(s.r, p)]

\* Where the climb from a leaf ends
LeafClimb(hash, m, size, path) ==
  LET climb[i \in 0 .. Len(path)] ==
        IF i = 0 THEN [ok |-> TRUE, at |-> [fn |-> m, sn |-> size - 1], r |-> hash]
        ELSE ClimbLeaf(climb[i - 1], path[i])
  IN climb[Len(path)]

\* (mutant) the index is not compared with the size
VerifyInclusionAnywhere(hash, m, size, path, root) ==
  LET last == LeafClimb(hash, m, size, path)
  IN last.ok /\ last.at.sn = 0 /\ last.r = root

VerifyInclusion(hash, m, size, path, root) ==
  /\ m < size
  /\ LET last == LeafClimb(hash, m, size, path)
     IN last.ok /\ last.at.sn = 0 /\ last.r = root

ClimbTrees(s, c) ==
  IF ~s.ok \/ s.at.sn = 0 THEN [s EXCEPT !.ok = FALSE]
  ELSE [ok |-> TRUE, at |-> Up(s.at),
        fr |-> IF FromLeft(s.at) THEN HashChildren(c, s.fr) ELSE s.fr,
        sr |-> IF FromLeft(s.at) THEN HashChildren(c, s.sr) ELSE HashChildren(s.sr, c)]

\* Where the climb through both trees ends: it starts at the first node
TreesClimb(first, second, nodes) ==
  LET climb[i \in 1 .. Len(nodes)] ==
        IF i = 1 THEN [ok |-> TRUE, at |-> ShiftWhileOdd[[fn |-> first - 1, sn |-> second - 1]],
                       fr |-> nodes[1], sr |-> nodes[1]]
        ELSE ClimbTrees(climb[i - 1], nodes[i])
  IN climb[Len(nodes)]

\* A power of two is twice the largest one below it.
IsPowerOfTwo(n) == n = 1 \/ n = 2 * Split(n)

\* For 0 < first < second; no node at all is refused.
BothTrees(first, firstRoot, second, path) ==
  LET nodes == IF IsPowerOfTwo(first) THEN <<firstRoot>> \o path ELSE path
  IN IF nodes = <<>> THEN [ok |-> FALSE] ELSE TreesClimb(first, second, nodes)

\* verifyConsistency of the Ledger: looks at fn in the end
VerifyConsistency(first, firstRoot, second, secondRoot, path) ==
  \/ first = 0
  \/ first = second /\ path = <<>> /\ firstRoot = secondRoot
  \/ /\ 0 < first /\ first < second
     /\ LET end == BothTrees(first, firstRoot, second, path)
        IN end.ok /\ end.at.fn = 0 /\ end.fr = firstRoot /\ end.sr = secondRoot

\* verifyConsistency of the SDK: looks at sn in the end, and refuses the empty
\* tree
SdkVerifyConsistency(first, firstRoot, second, secondRoot, path) ==
  \/ first = second /\ path = <<>> /\ firstRoot = secondRoot
  \/ /\ 0 < first /\ first < second
     /\ LET end == BothTrees(first, firstRoot, second, path)
        IN end.ok /\ end.at.sn = 0 /\ end.fr = firstRoot /\ end.sr = secondRoot

-----------------------------------------------------------------------------
(* The tree of the anchor worker.                                            *)

Pairs(level) == [i \in 1 .. Len(level) \div 2 |-> HashChildren(level[2 * i - 1], level[2 * i])]

\* An odd level gets its last element twice
Evened(level) == IF Odd(Len(level)) THEN Append(level, Last(level)) ELSE level

\* The level after h rounds of the loop, which runs while there are two nodes
Levels == [log : Seq(Int), h : Nat]
AnchorLevel[p \in Levels] ==
  IF p.h = 0 THEN [i \in DOMAIN p.log |-> HashLeaf(p.log[i])]
  ELSE LET level == AnchorLevel[[p EXCEPT !.h = @ - 1]]
       IN IF Len(level) > 1 THEN Pairs(Evened(level)) ELSE level

AnchorRoot(log) == AnchorLevel[[log |-> log, h |-> Len(log)]][1]

-----------------------------------------------------------------------------
(* Growth: leaf number i is i; the rewritten copy may have -i in its place.  *)

MerkleInit == leaves = <<>> /\ rewritten = <<>>

Grow ==
  /\ Len(leaves) < MaxSize
  /\ LET n == Len(leaves) + 1
     IN /\ leaves' = Append(leaves, n)
        /\ \E d \in {n, -n} : rewritten' = Append(rewritten, d)

MerkleNext == Grow

MerkleSpec == MerkleInit /\ [][MerkleNext]_merkleVars

-----------------------------------------------------------------------------
(* Properties.                                                               *)

Size == Len(leaves)
Logs == {leaves, rewritten}
SamePrefix(n) == SubSeq(leaves, 1, n) = SubSeq(rewritten, 1, n)

\* Reference definition of the root: pair the nodes of a level, an odd last
\* node goes up as it is.
PairedUp(level) == Pairs(level) \o (IF Odd(Len(level)) THEN <<Last(level)>> ELSE <<>>)

NodeLevel[p \in Levels] ==
  IF p.h = 0 THEN [i \in DOMAIN p.log |-> HashLeaf(p.log[i])]
  ELSE LET level == NodeLevel[[p EXCEPT !.h = @ - 1]]
       IN IF Len(level) > 1 THEN PairedUp(level) ELSE level

RootByLevels(log) ==
  IF log = <<>> THEN <<>> ELSE NodeLevel[[log |-> log, h |-> Len(log)]][1]

\* RootsAreRFC6962: the recursive root is the root a level-by-level hash of the
\* leaves gives, at every size.
RootsAreRFC6962 ==
  \A n \in 0 .. Size :
    RootAt(rewritten, n) = RootByLevels(SubSeq(rewritten, 1, n))

CutShort(path) == IF path = <<>> THEN path ELSE Front(path)
AuditPaths ==
  LET served == UNION {{InclusionProof(log, m, n) : m \in 0 .. n - 1} :
                         log \in Logs, n \in 1 .. Size}
  IN served \cup {CutShort(path) : path \in served}

\* InclusionVerifies: every audit path the log serves, for any leaf and any
\* size it ever had, is accepted.
InclusionVerifies ==
  \A n \in 1 .. Size : \A m \in 0 .. n - 1 :
    VerifyInclusion(HashLeaf(rewritten[m + 1]), m, n, InclusionProof(rewritten, m, n),
                    RootAt(rewritten, n))

\* InclusionBinds: whatever audit path of either log is used, also one of
\* another leaf or size or one cut short, a leaf is accepted only at its own
\* index in the tree of the claimed size.
InclusionBinds ==
  \A n \in 1 .. Size, m \in 0 .. Size : \A d \in ToSet(leaves) \cup ToSet(rewritten) :
    \A path \in AuditPaths :
      VerifyInclusion(HashLeaf(d), m, n, path, RootAt(leaves, n)) => m < n /\ leaves[m + 1] = d

\* ConsistencyVerifies: the proof between any two sizes is accepted by the
\* Ledger's verifier and, the first not being empty, by the SDK's.
ConsistencyVerifies ==
  \A second \in 1 .. Size : \A first \in 0 .. second :
    LET old == RootAt(rewritten, first)
        new == RootAt(rewritten, second)
        path == ConsistencyProof(rewritten, first, second)
    IN /\ VerifyConsistency(first, old, second, new, path)
       /\ first > 0 => SdkVerifyConsistency(first, old, second, new, path)

ConsistencyPaths ==
  LET served == UNION {{ConsistencyProof(log, first, second) : first \in 1 .. second} :
                         log \in Logs, second \in 1 .. Size}
  IN served \cup {CutShort(path) : path \in served}

\* ConsistencyBinds: no proof of either log, whole or cut short, makes a
\* verifier accept a rewritten log as an extension ("A rewritten chain fails
\* this check").
ConsistencyBinds ==
  \A first \in 1 .. Size, second \in 1 .. Size : \A path \in ConsistencyPaths :
    LET old == RootAt(leaves, first)
        new == RootAt(rewritten, second)
    IN \/ VerifyConsistency(first, old, second, new, path)
       \/ SdkVerifyConsistency(first, old, second, new, path)
       => first <= second /\ SamePrefix(first)

\* AnchorRootBinds: the anchor worker's root, with the number of leaves, says
\* which events are anchored, in spite of the duplicated last leaf.
AnchorRootBinds == Size > 0 /\ AnchorRoot(leaves) = AnchorRoot(rewritten) => SamePrefix(Size)

\* ServedProofsVerify: what the log serves is right and accepted, roots, audit
\* paths and consistency proofs alike.
ServedProofsVerify == RootsAreRFC6962 /\ InclusionVerifies /\ ConsistencyVerifies

\* ProofsBind: nothing else is accepted, by either package or by the chain's
\* anchors: a root determines the leaves, their places and the earlier log.
ProofsBind == InclusionBinds /\ ConsistencyBinds /\ AnchorRootBinds
=============================================================================
