---------------------------- MODULE MerkleProofs ----------------------------
(***************************************************************************)
(* What the verifiers of MerkleLog accept, for logs and paths of any       *)
(* length.                                                                 *)
(*                                                                         *)
(* Completeness (AuditPathVerifies, ConsistencyProofVerifies): a climb     *)
(* through a subtree of height c at place q ends at the node q of level c, *)
(* with the hash of the subtree; by the least width for which it would not *)
(* (AllClimb, AllBothClimb).                                               *)
(*                                                                         *)
(* Soundness (AcceptedLeafIsInTree, AcceptedLogIsExtension): the places of *)
(* a climb depend on the sizes only, so an accepted path and the one the   *)
(* log would serve pass the same places; their hashes agree at the root    *)
(* and from there back to the start.                                       *)
(*                                                                         *)
(* Each recursive function of the model is an instance of                  *)
(* RecursiveFunctions, which gives its equation.  Hashes are symbolic: two *)
(* are equal only if they were made alike (no collision is ever met).      *)
(***************************************************************************)
EXTENDS MerkleLog, SequenceTheorems, TLAPS

-----------------------------------------------------------------------------
(* Powers of two and the split.                                              *)

Power[i \in Nat] == IF i = 0 THEN 1 ELSE 2 * Power[i - 1]

PowerDef(f, i) == IF i = 0 THEN 1 ELSE 2 * f[i - 1]
PowerMeasure(i) == i
Powers == INSTANCE RecursiveFunctions
            WITH Dom <- Nat, Measure <- PowerMeasure, Def <- PowerDef

\* The powers of two satisfy the equation that defines them.
LEMMA PowerEquation == Power = [i \in Nat |-> PowerDef(Power, i)]
<1>1. Powers!WellDefined
  BY DEF Powers!WellDefined, PowerMeasure, PowerDef
<1>2. Power = CHOOSE g : g = [i \in Nat |-> PowerDef(g, i)]
  BY DEF Power, PowerDef
<1> QED BY <1>1, <1>2, Powers!Recursion

\* The powers of two, one by one.
LEMMA PowerFacts ==
  /\ Power[0] = 1
  /\ \A i \in Nat : Power[i] \in Nat /\ Power[i] > 0 /\ Power[i + 1] = 2 * Power[i]
<1>1. Power[0] = 1
  BY PowerEquation DEF PowerDef
<1>2. \A i \in Nat : Power[i + 1] = 2 * Power[i]
  <2>1. ASSUME NEW i \in Nat PROVE Power[i + 1] = PowerDef(Power, i + 1)
    BY PowerEquation, i + 1 \in Nat
  <2> QED BY <2>1 DEF PowerDef
<1>3. \A i \in Nat : Power[i] \in Nat /\ Power[i] > 0
  <2> DEFINE Bad == {i \in Nat : ~(Power[i] \in Nat /\ Power[i] > 0)}
  <2>1. SUFFICES ASSUME Bad # {} PROVE FALSE
    OBVIOUS
  <2>2. PICK i \in Bad : \A j \in Bad : i <= j
    BY <2>1, Powers!LeastNumber
  <2>3. i # 0
    BY <1>1, <2>2
  <2>4. i - 1 \in Nat /\ i - 1 \notin Bad
    BY <2>2, <2>3
  <2>5. Power[i] = 2 * Power[i - 1]
    BY <2>4, <1>2
  <2> QED BY <2>2, <2>4, <2>5
<1> QED BY <1>1, <1>2, <1>3

\* A greater exponent gives at least twice the power.
LEMMA PowerGrows ==
  ASSUME NEW i \in Nat, NEW j \in Nat, i < j
  PROVE  2 * Power[i] <= Power[j]
<1> DEFINE Bad == {d \in Nat : ~(2 * Power[i] <= Power[i + 1 + d])}
<1>1. SUFFICES ASSUME Bad # {} PROVE FALSE
  <2>1. j - i - 1 \in Nat /\ i + 1 + (j - i - 1) = j
    OBVIOUS
  <2>2. j - i - 1 \notin Bad
    BY <1>1, <2>1
  <2> QED BY <2>1, <2>2
<1>2. PICK d \in Bad : \A e \in Bad : d <= e
  BY <1>1, Powers!LeastNumber
<1>3. d # 0
  BY <1>2, PowerFacts
<1>4. d - 1 \in Nat /\ d - 1 \notin Bad
  BY <1>2, <1>3
<1>5. Power[i + 1 + d] = 2 * Power[i + 1 + (d - 1)] /\ Power[i + 1 + (d - 1)] \in Nat
  <2>1. i + 1 + (d - 1) \in Nat /\ i + 1 + (d - 1) + 1 = i + 1 + d
    BY <1>4
  <2> QED BY <2>1, PowerFacts
<1> QED BY <1>2, <1>4, <1>5, PowerFacts

PowerBelowDef(f, p) == IF 2 * p.k < p.n THEN f[[p EXCEPT !.k = 2 * @]] ELSE p.k
PowerBelowMeasure(p) == IF p.k < p.n THEN p.n - p.k ELSE 0
PowersBelow == INSTANCE RecursiveFunctions
                 WITH Dom <- [n : Nat, k : Nat \ {0}], Measure <- PowerBelowMeasure,
                      Def <- PowerBelowDef

\* largestPowerOfTwoSmallerThan: the loop ends, since k grows, and so
\* satisfies the equation that defines it.
LEMMA PowerBelowEquation ==
  PowerBelow = [p \in [n : Nat, k : Nat \ {0}] |-> PowerBelowDef(PowerBelow, p)]
<1> DEFINE Dom == [n : Nat, k : Nat \ {0}]
<1>1. ASSUME NEW p \in Dom, 2 * p.k < p.n
      PROVE  [p EXCEPT !.k = 2 * @] \in Dom
             /\ PowerBelowMeasure([p EXCEPT !.k = 2 * @]) < PowerBelowMeasure(p)
  BY <1>1 DEF PowerBelowMeasure
<1>2. \A p \in Dom : PowerBelowMeasure(p) \in Nat
  BY DEF PowerBelowMeasure
<1>3. ASSUME NEW g, NEW h, NEW p \in Dom,
             \A q \in Dom : PowerBelowMeasure(q) < PowerBelowMeasure(p) => g[q] = h[q]
      PROVE  PowerBelowDef(g, p) = PowerBelowDef(h, p)
  BY <1>1, <1>3 DEF PowerBelowDef
<1>4. PowersBelow!WellDefined
  BY <1>2, <1>3 DEF PowersBelow!WellDefined
<1>5. PowerBelow = CHOOSE g : g = [p \in Dom |-> PowerBelowDef(g, p)]
  BY DEF PowerBelow, PowerBelowDef, Doublings
<1> QED BY <1>4, <1>5, PowersBelow!Recursion

\* The loop ends at a power of two below n, the largest one.
LEMMA SplitIsPower ==
  ASSUME NEW n \in Nat, n > 1
  PROVE  \E h \in Nat : Split(n) = Power[h] /\ Power[h] < n /\ n <= Power[h + 1]
<1> DEFINE At(i) == PowerBelow[[n |-> n, k |-> Power[i]]]
           Right(x) == \E h \in Nat : x = Power[h] /\ Power[h] < n /\ n <= Power[h + 1]
           Bad == {i \in Nat : Power[i] < n /\ ~ Right(At(i))}
           Left == [i \in Bad |-> n - Power[i]]
<1>1. SUFFICES ASSUME 0 \in Bad PROVE FALSE
  BY PowerFacts DEF Split
<1> HIDE DEF At, Right
<1>2. Left \in [Bad -> Nat]
  <2>1. \A i \in Bad : n - Power[i] \in Nat
    BY PowerFacts
  <2> QED BY <2>1
<1>4. PICK i \in Bad : \A j \in Bad : Left[i] <= Left[j]
  BY <1>1, <1>2, Powers!Least
<1>5. At(i) = IF 2 * Power[i] < n THEN At(i + 1) ELSE Power[i]
  <2> DEFINE p == [n |-> n, k |-> Power[i]]
  <2>1. p \in [n : Nat, k : Nat \ {0}]
    BY PowerFacts
  <2>2. PowerBelow[p] = PowerBelowDef(PowerBelow, p)
    BY <2>1, PowerBelowEquation
  <2>3. [p EXCEPT !.k = 2 * @] = [n |-> n, k |-> Power[i + 1]]
    BY PowerFacts
  <2> QED BY <2>2, <2>3 DEF PowerBelowDef, At
<1>6. CASE 2 * Power[i] < n
  <2>1. Power[i + 1] < n /\ ~ Right(At(i + 1))
    BY <1>4, <1>5, <1>6, PowerFacts
  <2>2. i + 1 \in Bad
    BY <2>1
  <2>3. n - Power[i] <= n - Power[i + 1]
    BY <2>2, <1>4
  <2> QED BY <2>3, <1>6, PowerFacts
<1>7. CASE ~ (2 * Power[i] < n)
  <2>1. Right(Power[i])
    BY <1>4, <1>7, PowerFacts DEF Right
  <2> QED BY <1>4, <1>5, <1>7, <2>1
<1> QED BY <1>6, <1>7

\* A power of two is a positive number.
LEMMA PowerType ==
  ASSUME NEW i \in Nat
  PROVE  Power[i] \in Nat /\ Power[i] > 0
BY PowerFacts

\* Powers are ordered as their exponents.
LEMMA PowerOrder ==
  ASSUME NEW i \in Nat, NEW j \in Nat
  PROVE  /\ Power[i] < Power[j] => i < j
         /\ i <= j => Power[i] <= Power[j]
<1>1. CASE i < j
  BY <1>1, PowerGrows, PowerType
<1>2. CASE i = j
  BY <1>2, PowerType
<1>3. CASE j < i
  BY <1>3, PowerGrows, PowerType
<1> QED BY <1>1, <1>2, <1>3

\* The split of a range leaves both parts with a leaf, and the left one with
\* half of them or more.
LEMMA SplitType ==
  ASSUME NEW n \in Nat, n > 1
  PROVE  /\ Split(n) \in Nat /\ 0 < Split(n) /\ Split(n) < n /\ n <= 2 * Split(n)
<1>1. PICK h \in Nat : Split(n) = Power[h] /\ Power[h] < n /\ n <= Power[h + 1]
  BY SplitIsPower
<1> QED BY <1>1, PowerFacts

\* The split is the only power of two between half of n and n.
LEMMA SplitAt ==
  ASSUME NEW n \in Nat, NEW h \in Nat, Power[h] < n, n <= Power[h + 1]
  PROVE  Split(n) = Power[h]
<1>1. n > 1
  BY PowerType
<1>2. PICK g \in Nat : Split(n) = Power[g] /\ Power[g] < n /\ n <= Power[g + 1]
  BY <1>1, SplitIsPower
<1>3. Power[h] < Power[g + 1] /\ Power[g] < Power[h + 1]
  BY <1>2, PowerType
<1>4. h < g + 1 /\ g < h + 1
  BY <1>3, PowerOrder
<1> QED BY <1>2, <1>4

\* All sizes up to twice the split are split at the same place.
LEMMA SplitSame ==
  ASSUME NEW n \in Nat, n > 1, NEW m \in Nat, Split(n) < m, m <= 2 * Split(n)
  PROVE  Split(m) = Split(n)
<1>1. PICK h \in Nat : Split(n) = Power[h] /\ Power[h] < n /\ n <= Power[h + 1]
  BY SplitIsPower
<1> QED BY <1>1, SplitAt, PowerFacts

\* A longer range is not split earlier.
LEMMA SplitMonotone ==
  ASSUME NEW a \in Nat, NEW b \in Nat, 1 < b, b <= a
  PROVE  Split(b) <= Split(a)
<1>1. PICK h \in Nat : Split(a) = Power[h] /\ Power[h] < a /\ a <= Power[h + 1]
  BY SplitIsPower
<1>2. PICK g \in Nat : Split(b) = Power[g] /\ Power[g] < b /\ b <= Power[g + 1]
  BY SplitIsPower
<1>3. Power[g] < Power[h + 1]
  BY <1>1, <1>2, PowerType
<1>4. g <= h
  BY <1>3, PowerOrder
<1> QED BY <1>1, <1>2, <1>4, PowerOrder

\* The verifier's test of a power of two accepts every power of two.
LEMMA TwicePower ==
  ASSUME NEW h \in Nat
  PROVE  IsPowerOfTwo(Power[h])
<1>1. CASE h = 0
  BY <1>1, PowerFacts DEF IsPowerOfTwo
<1>2. CASE h # 0
  <2>1. h - 1 \in Nat /\ h = (h - 1) + 1
    BY <1>2
  <2>2. Power[h] = 2 * Power[h - 1]
    BY <2>1, PowerFacts
  <2>3. Split(Power[h]) = Power[h - 1]
    BY <2>1, <2>2, SplitAt, PowerType
  <2> QED BY <2>2, <2>3 DEF IsPowerOfTwo
<1> QED BY <1>1, <1>2

\* Exponents add up.
LEMMA PowerSum ==
  ASSUME NEW a \in Nat, NEW b \in Nat
  PROVE  Power[a + b] = Power[a] * Power[b]
<1> DEFINE Bad == {d \in Nat : Power[a + d] # Power[a] * Power[d]}
<1>1. SUFFICES ASSUME Bad # {} PROVE FALSE
  OBVIOUS
<1>2. PICK d \in Bad : \A e \in Bad : d <= e
  BY <1>1, Powers!LeastNumber
<1>3. d # 0
  <2>1. Power[a + 0] = Power[a] * Power[0]
    BY PowerFacts
  <2> QED BY <2>1, <1>2
<1>4. d - 1 \in Nat /\ d - 1 \notin Bad
  BY <1>2, <1>3
<1>5. Power[a + (d - 1)] = Power[a] * Power[d - 1]
  BY <1>4
<1>6. Power[d] = 2 * Power[d - 1] /\ Power[a + d] = 2 * Power[a + (d - 1)]
  <2>1. (d - 1) + 1 = d /\ a + (d - 1) \in Nat /\ (a + (d - 1)) + 1 = a + d
    BY <1>4
  <2> QED BY <2>1, <1>4, PowerFacts
<1>7. Power[a + d] = Power[a] * Power[d]
  <2>1. \A x, y \in Nat : 2 * (x * y) = x * (2 * y)
    OBVIOUS
  <2> QED BY <1>4, <1>5, <1>6, <2>1, PowerType
<1> QED BY <1>2, <1>7

-----------------------------------------------------------------------------
(* t is what is left of x when it is shifted c times.                        *)

IsShift(t, x, c) == t \in Nat /\ t * Power[c] <= x /\ x < (t + 1) * Power[c]

\* The arithmetic of multiples the places of nodes are made of.
LEMMA Multiples ==
  ASSUME NEW a \in Nat, NEW b \in Nat, NEW p \in Nat, p > 0
  PROVE  /\ a <= b => a * p <= b * p
         /\ a < b => (a + 1) * p <= b * p
         /\ (a + 1) * p = a * p + p
         /\ a * p \in Nat
         /\ a * (2 * p) = (2 * a) * p
<1>1. \A x, y \in Nat : x * y \in Nat
  OBVIOUS
<1>2. \A x, y, z \in Nat : (x + y) * z = x * z + y * z
  OBVIOUS
<1>3. a <= b => a * p <= b * p
  <2>1. ASSUME a <= b PROVE a * p <= b * p
    <3>1. b - a \in Nat /\ b = a + (b - a)
      BY <2>1
    <3>2. b * p = a * p + (b - a) * p
      BY <3>1, <1>2
    <3> QED BY <3>1, <3>2, <1>1
  <2> QED BY <2>1
<1>4. a < b => (a + 1) * p <= b * p
  <2>1. ASSUME a < b PROVE (a + 1) * p <= b * p
    <3>1. b - (a + 1) \in Nat /\ b = (a + 1) + (b - (a + 1))
      BY <2>1
    <3>2. b * p = (a + 1) * p + (b - (a + 1)) * p
      BY <3>1, <1>2
    <3> QED BY <3>1, <3>2, <1>1
  <2> QED BY <2>1
<1>5. (a + 1) * p = a * p + p
  BY <1>2
<1>6. a * (2 * p) = (2 * a) * p
  OBVIOUS
<1> QED BY <1>1, <1>3, <1>4, <1>5, <1>6

\* What is left of x after c shifts is the number of times 2^c goes into x.
LEMMA ShiftUnique ==
  ASSUME NEW c \in Nat, NEW x \in Nat, NEW t, NEW q \in Nat, IsShift(t, x, c),
         q * Power[c] <= x
  PROVE  q <= t /\ (x < (q + 1) * Power[c] => t = q)
<1>1. q <= t
  <2>1. ASSUME t < q PROVE FALSE
    <3>1. (t + 1) * Power[c] <= q * Power[c]
      BY <2>1, Multiples, PowerType DEF IsShift
    <3>2. q * Power[c] \in Nat /\ (t + 1) * Power[c] \in Nat
      BY Multiples, PowerType DEF IsShift
    <3> QED BY <3>1, <3>2 DEF IsShift
  <2> QED BY <2>1 DEF IsShift
<1>2. ASSUME x < (q + 1) * Power[c], q < t PROVE FALSE
  <2>1. (q + 1) * Power[c] <= t * Power[c]
    BY <1>2, Multiples, PowerType DEF IsShift
  <2>2. t * Power[c] \in Nat /\ (q + 1) * Power[c] \in Nat
    BY Multiples, PowerType DEF IsShift
  <2> QED BY <1>2, <2>1, <2>2 DEF IsShift
<1> QED BY <1>1, <1>2 DEF IsShift

\* One more shift halves what is left.
LEMMA ShiftOnce ==
  ASSUME NEW c \in Nat, NEW x \in Nat, NEW t, IsShift(t, x, c)
  PROVE  IsShift(t \div 2, x, c + 1)
<1> DEFINE u == t \div 2
<1>1. u \in Nat /\ (t = 2 * u \/ t = 2 * u + 1)
  BY DEF IsShift
<1> HIDE DEF u
<1>2. Power[c + 1] = 2 * Power[c]
  BY PowerFacts
<1>3. u * Power[c + 1] = (2 * u) * Power[c] /\ (u + 1) * Power[c + 1] = (2 * (u + 1)) * Power[c]
  BY <1>1, <1>2, Multiples, PowerType
<1>4. (2 * u) * Power[c] <= t * Power[c] /\ (t + 1) * Power[c] <= (2 * (u + 1)) * Power[c]
  BY <1>1, Multiples, PowerType DEF IsShift
<1>5. /\ t * Power[c] \in Nat /\ (t + 1) * Power[c] \in Nat
      /\ (2 * u) * Power[c] \in Nat /\ (2 * (u + 1)) * Power[c] \in Nat
  BY <1>1, Multiples, PowerType DEF IsShift
<1>6. IsShift(u, x, c + 1)
  BY <1>1, <1>3, <1>4, <1>5 DEF IsShift
<1> QED BY <1>6 DEF u

-----------------------------------------------------------------------------
(* The tree hash and the paths, by the place and the width of a range.       *)

IsLog(log) == log \in Seq(Int)
In(log, s, n) == IsLog(log) /\ s \in Nat /\ n \in Nat /\ s + n <= Len(log)

Tree(log, s, n) == Mth[Span(log, s, s + n)]

\* The parts of a range of n leaves from s on, by their places and widths.
LEMMA SpanParts ==
  ASSUME NEW log, NEW s, NEW n, In(log, s, n)
  PROVE  LET r == Span(log, s, s + n) IN
         /\ r \in Spans /\ Width(r) = n
         /\ r.log = log /\ r.start = s /\ r.end = s + n
         /\ n > 1 => /\ LeftPart(r) = Span(log, s, s + Split(n))
                     /\ RightPart(r) = Span(log, s + Split(n), s + Split(n) + (n - Split(n)))
                     /\ LeftPart(r) \in Spans /\ Width(LeftPart(r)) = Split(n)
                     /\ RightPart(r) \in Spans /\ Width(RightPart(r)) = n - Split(n)
                     /\ Cut(r) = s + Split(n)
<1> DEFINE r == Span(log, s, s + n)
<1>1. Len(log) \in Nat
  BY DEF In, IsLog
<1>2. r \in Spans /\ Width(r) = n
  BY <1>1 DEF Span, Spans, Width, In, IsLog
<1>3. r.log = log /\ r.start = s /\ r.end = s + n
  BY DEF Span
<1>4. ASSUME n > 1
      PROVE  /\ LeftPart(r) = Span(log, s, s + Split(n))
             /\ RightPart(r) = Span(log, s + Split(n), s + Split(n) + (n - Split(n)))
             /\ LeftPart(r) \in Spans /\ Width(LeftPart(r)) = Split(n)
             /\ RightPart(r) \in Spans /\ Width(RightPart(r)) = n - Split(n)
             /\ Cut(r) = s + Split(n)
  <2>1. Split(n) \in Nat /\ Split(n) < n /\ n \in Nat /\ s \in Nat
    BY <1>4, SplitType DEF In
  <2>2. Cut(r) = s + Split(n)
    BY <1>2, <1>3 DEF Cut
  <2>3. LeftPart(r) = Span(log, s, s + Split(n))
    BY <1>3, <2>2 DEF LeftPart
  <2>4. s + n = s + Split(n) + (n - Split(n))
    BY <2>1
  <2>5. RightPart(r) = Span(log, s + Split(n), s + Split(n) + (n - Split(n)))
    BY <1>3, <2>2, <2>4 DEF RightPart
  <2>6. /\ Span(log, s, s + Split(n)) \in Spans
        /\ Width(Span(log, s, s + Split(n))) = Split(n)
    BY <1>1, <2>1 DEF Span, Spans, Width, In, IsLog
  <2>7. /\ Span(log, s + Split(n), s + n) \in Spans
        /\ Width(Span(log, s + Split(n), s + n)) = n - Split(n)
    BY <1>1, <2>1 DEF Span, Spans, Width, In, IsLog
  <2> QED BY <2>2, <2>3, <2>4, <2>5, <2>6, <2>7
<1> QED BY <1>2, <1>3, <1>4

MthDef(f, r) ==
  IF Width(r) = 0 THEN <<>>
  ELSE IF Width(r) = 1 THEN HashLeaf(r.log[r.start + 1])
  ELSE HashChildren(f[LeftPart(r)], f[RightPart(r)])
Trees == INSTANCE RecursiveFunctions WITH Dom <- Spans, Measure <- Width, Def <- MthDef

\* Both parts of a range of two leaves or more are shorter ranges.
LEMMA PartsAreSpans ==
  ASSUME NEW r \in Spans
  PROVE  /\ Width(r) \in Nat
         /\ Width(r) > 1 =>
              /\ LeftPart(r) \in Spans /\ RightPart(r) \in Spans
              /\ 0 < Width(LeftPart(r)) /\ Width(LeftPart(r)) < Width(r)
              /\ 0 < Width(RightPart(r)) /\ Width(RightPart(r)) < Width(r)
<1> DEFINE n == Width(r)
<1>1. n \in Nat /\ In(r.log, r.start, n) /\ r = Span(r.log, r.start, r.start + n)
  BY DEF Spans, Width, In, IsLog, Span
<1> HIDE DEF n
<1>2. CASE n > 1
  <2>1. /\ LeftPart(r) \in Spans /\ Width(LeftPart(r)) = Split(n)
        /\ RightPart(r) \in Spans /\ Width(RightPart(r)) = n - Split(n)
    BY <1>1, <1>2, SpanParts
  <2> QED BY <1>1, <1>2, <2>1, SplitType DEF n
<1> QED BY <1>1, <1>2 DEF n

\* mth: the recursion on ever shorter ranges satisfies the equation that
\* defines it.
LEMMA MthEquation == Mth = [r \in Spans |-> MthDef(Mth, r)]
<1>1. ASSUME NEW g, NEW h, NEW r \in Spans,
             \A q \in Spans : Width(q) < Width(r) => g[q] = h[q]
      PROVE  MthDef(g, r) = MthDef(h, r)
  BY <1>1, PartsAreSpans DEF MthDef
<1>2. Trees!WellDefined
  BY <1>1, PartsAreSpans DEF Trees!WellDefined
<1>3. Mth = CHOOSE g : g = [r \in Spans |-> MthDef(g, r)]
  BY DEF Mth, MthDef
<1> QED BY <1>2, <1>3, Trees!Recursion

\* The tree of one leaf is its hash; a larger one is the node over its parts.
LEMMA TreeFacts ==
  ASSUME NEW log, NEW s, NEW n, In(log, s, n)
  PROVE  /\ n = 0 => Tree(log, s, n) = <<>>
         /\ n = 1 => Tree(log, s, n) = HashLeaf(log[s + 1])
         /\ n > 1 => Tree(log, s, n) =
                       HashChildren(Tree(log, s, Split(n)),
                                    Tree(log, s + Split(n), n - Split(n)))
<1> DEFINE r == Span(log, s, s + n)
<1>1. r \in Spans /\ Width(r) = n /\ r.log = log /\ r.start = s
  BY SpanParts
<1>2. n > 1 => /\ LeftPart(r) = Span(log, s, s + Split(n))
               /\ RightPart(r) = Span(log, s + Split(n), s + Split(n) + (n - Split(n)))
  BY SpanParts
<1> HIDE DEF r
<1>3. Mth[r] = MthDef(Mth, r)
  BY <1>1, MthEquation
<1>4. n \in Nat
  BY DEF In
<1> QED BY <1>1, <1>2, <1>3, <1>4 DEF Tree, r, MthDef

AuditPath(log, s, n, m) == Path[[m |-> m, r |-> Span(log, s, s + n)]]

PathDef(f, p) ==
  IF Width(p.r) = 1 THEN <<>>
  ELSE IF p.m < Cut(p.r)
       THEN Append(f[[p EXCEPT !.r = LeftPart(@)]], Mth[RightPart(p.r)])
       ELSE Append(f[[p EXCEPT !.r = RightPart(@)]], Mth[LeftPart(p.r)])
SpotMeasure(p) == Width(p.r)
Paths == INSTANCE RecursiveFunctions WITH Dom <- Spots, Measure <- SpotMeasure, Def <- PathDef

\* path: so does the audit path.
LEMMA PathEquation == Path = [p \in Spots |-> PathDef(Path, p)]
<1>1. ASSUME NEW p \in Spots, Width(p.r) # 1
      PROVE  /\ p.r \in Spans /\ Width(p.r) > 1
             /\ p.m < Cut(p.r) => [p EXCEPT !.r = LeftPart(@)] \in Spots
             /\ ~(p.m < Cut(p.r)) => [p EXCEPT !.r = RightPart(@)] \in Spots
  <2>1. /\ p.r \in Spans /\ p.m \in Nat /\ p = [m |-> p.m, r |-> p.r]
        /\ p.r.start <= p.m /\ p.m < p.r.end /\ p.r.start \in Nat /\ p.r.end \in Nat
    BY DEF Spots, Spans
  <2>2. Width(p.r) > 1
    BY <1>1, <2>1 DEF Width
  <2>3. LeftPart(p.r) \in Spans /\ RightPart(p.r) \in Spans /\ Cut(p.r) \in Nat
    BY <2>1, <2>2, PartsAreSpans, SplitType DEF Cut, Width
  <2>4. /\ LeftPart(p.r).start = p.r.start /\ LeftPart(p.r).end = Cut(p.r)
        /\ RightPart(p.r).start = Cut(p.r) /\ RightPart(p.r).end = p.r.end
    BY DEF LeftPart, RightPart, Span
  <2>5. /\ p.m < Cut(p.r) => [m |-> p.m, r |-> LeftPart(p.r)] \in Spots
        /\ ~(p.m < Cut(p.r)) => [m |-> p.m, r |-> RightPart(p.r)] \in Spots
    BY <2>1, <2>3, <2>4 DEF Spots
  <2>6. /\ [p EXCEPT !.r = LeftPart(@)] = [m |-> p.m, r |-> LeftPart(p.r)]
        /\ [p EXCEPT !.r = RightPart(@)] = [m |-> p.m, r |-> RightPart(p.r)]
    BY <2>1
  <2> QED BY <2>1, <2>2, <2>5, <2>6
<1>2. ASSUME NEW g, NEW h, NEW p \in Spots,
             \A q \in Spots : SpotMeasure(q) < SpotMeasure(p) => g[q] = h[q]
      PROVE  PathDef(g, p) = PathDef(h, p)
  <2>1. CASE Width(p.r) = 1
    BY <2>1 DEF PathDef
  <2>2. CASE Width(p.r) # 1
    <3>1. /\ Width(LeftPart(p.r)) < Width(p.r) /\ Width(RightPart(p.r)) < Width(p.r)
      BY <1>1, <2>2, PartsAreSpans
    <3>2. p = [m |-> p.m, r |-> p.r]
      BY DEF Spots
    <3>3. /\ [p EXCEPT !.r = LeftPart(@)].r = LeftPart(p.r)
          /\ [p EXCEPT !.r = RightPart(@)].r = RightPart(p.r)
      BY <3>2
    <3> QED BY <1>1, <1>2, <2>2, <3>1, <3>3 DEF PathDef, SpotMeasure
  <2> QED BY <2>1, <2>2
<1>3. \A p \in Spots : SpotMeasure(p) \in Nat
  BY PartsAreSpans DEF SpotMeasure, Spots
<1>4. Paths!WellDefined
  BY <1>2, <1>3 DEF Paths!WellDefined
<1>5. Path = CHOOSE g : g = [p \in Spots |-> PathDef(g, p)]
  BY DEF Path, PathDef
<1> QED BY <1>4, <1>5, Paths!Recursion

\* path, by places and widths: the path of a leaf in a range is its path in
\* the part it is in, followed by the hash of the other part.
LEMMA AuditPathFacts ==
  ASSUME NEW log, NEW s, NEW n, In(log, s, n), NEW m \in s .. s + n - 1
  PROVE  /\ n = 1 => AuditPath(log, s, n, m) = <<>>
         /\ n > 1 /\ m < s + Split(n) =>
              AuditPath(log, s, n, m) = Append(AuditPath(log, s, Split(n), m),
                                               Tree(log, s + Split(n), n - Split(n)))
         /\ n > 1 /\ m >= s + Split(n) =>
              AuditPath(log, s, n, m) =
                Append(AuditPath(log, s + Split(n), n - Split(n), m), Tree(log, s, Split(n)))
<1> DEFINE r == Span(log, s, s + n)
           p == [m |-> m, r |-> r]
<1>1. r \in Spans /\ Width(r) = n /\ r.start = s /\ r.end = s + n
  BY SpanParts
<1>2. n > 1 => /\ LeftPart(r) = Span(log, s, s + Split(n))
               /\ RightPart(r) = Span(log, s + Split(n), s + Split(n) + (n - Split(n)))
               /\ Cut(r) = s + Split(n)
  BY SpanParts
<1> HIDE DEF r
<1>3. s \in Nat /\ n \in Nat
  BY DEF In
<1>4. p \in Spots
  BY <1>1, <1>3 DEF Spots
<1>5. Path[p] = PathDef(Path, p)
  BY <1>4, PathEquation
<1>6. /\ [p EXCEPT !.r = LeftPart(@)] = [m |-> m, r |-> LeftPart(r)]
      /\ [p EXCEPT !.r = RightPart(@)] = [m |-> m, r |-> RightPart(r)]
  OBVIOUS
<1>7. n > 1 => Split(n) \in Nat
  BY <1>3, SplitType
<1>8. Path[p] = IF n = 1 THEN <<>>
                ELSE IF m < Cut(r)
                     THEN Append(Path[[m |-> m, r |-> LeftPart(r)]], Mth[RightPart(r)])
                     ELSE Append(Path[[m |-> m, r |-> RightPart(r)]], Mth[LeftPart(r)])
  BY <1>1, <1>5, <1>6 DEF PathDef
<1>9. AuditPath(log, s, n, m) = Path[p]
  BY DEF AuditPath, r
<1> HIDE DEF p
<1>10. CASE n > 1
  BY <1>2, <1>3, <1>7, <1>8, <1>9, <1>10 DEF AuditPath, Tree
<1> QED BY <1>3, <1>8, <1>9, <1>10

-----------------------------------------------------------------------------
(* The climb from a leaf: the states it passes.                              *)

IsSequence(p) == \E S : p \in Seq(S)

\* A sequence, whatever it holds, and what Append makes of it.
LEMMA SequenceFacts ==
  ASSUME NEW p, IsSequence(p)
  PROVE  /\ Len(p) \in Nat /\ DOMAIN p = 1 .. Len(p)
         /\ \A x : /\ IsSequence(Append(p, x)) /\ Len(Append(p, x)) = Len(p) + 1
                   /\ Append(p, x)[Len(p) + 1] = x
                   /\ \A i \in 1 .. Len(p) : Append(p, x)[i] = p[i]
<1>1. PICK S : p \in Seq(S)
  BY DEF IsSequence
<1>2. Len(p) \in Nat /\ DOMAIN p = 1 .. Len(p)
  BY <1>1
<1>3. ASSUME NEW x
      PROVE  /\ IsSequence(Append(p, x)) /\ Len(Append(p, x)) = Len(p) + 1
             /\ Append(p, x)[Len(p) + 1] = x
             /\ \A i \in 1 .. Len(p) : Append(p, x)[i] = p[i]
  <2> DEFINE T == S \cup {x}
  <2>1. p \in Seq(T)
    <3>1. \A i \in 1 .. Len(p) : p[i] \in T
      BY <1>1, <1>2
    <3>2. p \in [1 .. Len(p) -> T]
      <4>1. p = [i \in 1 .. Len(p) |-> p[i]]
        BY <1>1
      <4> QED BY <3>1, <4>1
    <3> QED BY <1>2, <3>2, SeqDef
  <2>2. x \in T
    OBVIOUS
  <2> HIDE DEF T
  <2>3. Append(p, x) \in Seq(T)
    BY <2>1, <2>2
  <2>4. IsSequence(Append(p, x))
    BY <2>3 DEF IsSequence
  <2> QED BY <2>1, <2>2, <2>4
<1> QED BY <1>2, <1>3

\* The empty path is a sequence.
LEMMA EmptySequence == IsSequence(<<>>) /\ Len(<<>>) = 0
<1>1. <<>> \in Seq({})
  OBVIOUS
<1> QED BY <1>1 DEF IsSequence

IsLeafTrace(c, s0, p) ==
  c = [i \in 0 .. Len(p) |-> IF i = 0 THEN s0 ELSE ClimbLeaf(c[i - 1], p[i])]
LeafTrace(s0, p) == CHOOSE c : IsLeafTrace(c, s0, p)

\* The states a climb from a leaf passes exist, for a path of any length.
LEMMA LeafTraceExists ==
  ASSUME NEW s0, NEW p, Len(p) \in Nat
  PROVE  IsLeafTrace(LeafTrace(s0, p), s0, p)
<1> DEFINE To(c, n) == c = [i \in 0 .. n |-> IF i = 0 THEN s0 ELSE ClimbLeaf(c[i - 1], p[i])]
           Bad == {n \in Nat : ~ \E c : To(c, n)}
<1>1. ASSUME Bad # {} PROVE FALSE
  <2>1. PICK n \in Bad : \A m \in Bad : n <= m
    BY <1>1, Powers!LeastNumber
  <2>2. To([i \in 0 .. 0 |-> s0], 0)
    OBVIOUS
  <2>3. n # 0
    BY <2>1, <2>2
  <2>4. n \in Nat /\ n - 1 \in Nat /\ n - 1 \notin Bad
    <3> HIDE DEF To
    <3> QED BY <2>1, <2>3
  <2>5. PICK c : To(c, n - 1)
    BY <2>4
  <2> DEFINE d == [i \in 0 .. n |-> IF i = n THEN ClimbLeaf(c[n - 1], p[n]) ELSE c[i]]
  <2>6. ASSUME NEW i \in 0 .. n
        PROVE  d[i] = IF i = 0 THEN s0 ELSE ClimbLeaf(d[i - 1], p[i])
    <3>1. CASE i = n
      <4>1. d[i - 1] = c[n - 1] /\ i # 0
        BY <3>1, <2>3, <2>4
      <4> QED BY <3>1, <4>1
    <3>2. CASE i # n
      <4>1. i \in 0 .. n - 1 /\ (i # 0 => i - 1 \in 0 .. n - 1)
        BY <3>2, <2>4
      <4>2. c[i] = IF i = 0 THEN s0 ELSE ClimbLeaf(c[i - 1], p[i])
        BY <4>1, <2>5
      <4>3. d[i] = c[i] /\ (i # 0 => d[i - 1] = c[i - 1])
        BY <4>1, <3>2
      <4> HIDE DEF d
      <4> QED BY <4>2, <4>3
    <3> QED BY <3>1, <3>2
  <2>7. To(d, n)
    BY <2>6
  <2> QED BY <2>1, <2>7
<1>2. \E c : IsLeafTrace(c, s0, p)
  BY <1>1 DEF IsLeafTrace
<1> QED BY <1>2 DEF LeafTrace

LeafState(s0, p) == LeafTrace(s0, p)[Len(p)]

\* The loop of verifyInclusion ends in the last of those states.
LEMMA LeafStateIsClimb ==
  ASSUME NEW hash, NEW m, NEW size, NEW p
  PROVE  LeafClimb(hash, m, size, p)
           = LeafState([ok |-> TRUE, at |-> [fn |-> m, sn |-> size - 1], r |-> hash], p)
BY DEF LeafClimb, LeafState, LeafTrace, IsLeafTrace

\* Each state follows from the one before it by one turn of the loop.
LEMMA LeafTraceSteps ==
  ASSUME NEW s0, NEW p, Len(p) \in Nat
  PROVE  /\ LeafTrace(s0, p)[0] = s0
         /\ \A i \in 1 .. Len(p) :
              LeafTrace(s0, p)[i] = ClimbLeaf(LeafTrace(s0, p)[i - 1], p[i])
<1> DEFINE c == LeafTrace(s0, p)
<1>1. IsLeafTrace(c, s0, p)
  BY LeafTraceExists
<1> HIDE DEF c
<1>2. c[0] = s0
  BY <1>1 DEF IsLeafTrace
<1>3. ASSUME NEW i \in 1 .. Len(p) PROVE c[i] = ClimbLeaf(c[i - 1], p[i])
  <2>1. i \in 0 .. Len(p) /\ i # 0
    OBVIOUS
  <2> QED BY <1>1, <2>1 DEF IsLeafTrace
<1> QED BY <1>2, <1>3 DEF c

\* A climb along a longer path is the climb along the shorter one and one more
\* turn.
LEMMA LeafStateFacts ==
  ASSUME NEW s0, NEW p, IsSequence(p), NEW x
  PROVE  /\ LeafState(s0, <<>>) = s0
         /\ LeafState(s0, Append(p, x)) = ClimbLeaf(LeafState(s0, p), x)
<1>1. LeafState(s0, <<>>) = s0
  BY EmptySequence, LeafTraceSteps DEF LeafState
<1> DEFINE q == Append(p, x)
           n == Len(p)
           c == LeafTrace(s0, p)
           d == LeafTrace(s0, q)
           Bad == {i \in Nat : i <= n /\ c[i] # d[i]}
<1>2. /\ n \in Nat /\ Len(q) = n + 1 /\ q[n + 1] = x
      /\ \A i \in 1 .. n : q[i] = p[i]
  BY SequenceFacts
<1> HIDE DEF q, n
<1>3. /\ c[0] = s0 /\ d[0] = s0
      /\ \A i \in 1 .. n : c[i] = ClimbLeaf(c[i - 1], p[i])
      /\ \A i \in 1 .. n + 1 : d[i] = ClimbLeaf(d[i - 1], q[i])
  BY <1>2, LeafTraceSteps DEF n
<1> HIDE DEF c, d
<1>4. ASSUME Bad # {} PROVE FALSE
  <2>1. PICK i \in Bad : \A j \in Bad : i <= j
    BY <1>4, Powers!LeastNumber
  <2>2. i # 0
    BY <1>3, <2>1
  <2>3. i - 1 \in Nat /\ i - 1 \notin Bad /\ i \in 1 .. n /\ i \in 1 .. n + 1
    BY <1>2, <2>1, <2>2
  <2>4. c[i - 1] = d[i - 1]
    BY <1>2, <2>3
  <2> QED BY <1>2, <1>3, <2>1, <2>3, <2>4
<1>5. c[n] = d[n]
  BY <1>2, <1>4
<1>6. d[n + 1] = ClimbLeaf(c[n], x)
  <2>1. n + 1 \in 1 .. n + 1 /\ (n + 1) - 1 = n
    BY <1>2
  <2> QED BY <1>2, <1>3, <1>5, <2>1
<1> QED BY <1>1, <1>2, <1>6 DEF LeafState, c, d, n, q

-----------------------------------------------------------------------------
(* Where the climb is: shifts, and the places of a range in the tree.        *)

EvenDef(f, at) == IF at.fn = 0 \/ Odd(at.fn) THEN at ELSE f[Shifted(at)]
PlaceMeasure(at) == at.fn
EvenShifts == INSTANCE RecursiveFunctions
                WITH Dom <- Places, Measure <- PlaceMeasure, Def <- EvenDef

OddDef(f, at) == IF Odd(at.fn) THEN f[Shifted(at)] ELSE at
OddShifts == INSTANCE RecursiveFunctions
               WITH Dom <- Places, Measure <- PlaceMeasure, Def <- OddDef

\* A shift keeps a place a place and makes a first index that is not zero
\* smaller.
LEMMA ShiftedPlace ==
  ASSUME NEW at \in Places
  PROVE  /\ Shifted(at) \in Places
         /\ at.fn # 0 => Shifted(at).fn < at.fn
BY DEF Places, Shifted

\* Both shifting loops end, since the first index gets smaller, and so satisfy
\* the equations that define them.
LEMMA ShiftEquations ==
  /\ ShiftWhileEven = [at \in Places |-> EvenDef(ShiftWhileEven, at)]
  /\ ShiftWhileOdd = [at \in Places |-> OddDef(ShiftWhileOdd, at)]
<1>1. \A at \in Places : PlaceMeasure(at) \in Nat
  BY DEF PlaceMeasure, Places
<1>2. ASSUME NEW at \in Places, Odd(at.fn) PROVE at.fn # 0
  BY <1>2 DEF Odd
<1>3. EvenShifts!WellDefined
  <2>1. ASSUME NEW g, NEW h, NEW at \in Places,
               \A q \in Places : PlaceMeasure(q) < PlaceMeasure(at) => g[q] = h[q]
        PROVE  EvenDef(g, at) = EvenDef(h, at)
    BY <2>1, ShiftedPlace DEF EvenDef, PlaceMeasure
  <2> QED BY <1>1, <2>1 DEF EvenShifts!WellDefined
<1>4. OddShifts!WellDefined
  <2>1. ASSUME NEW g, NEW h, NEW at \in Places,
               \A q \in Places : PlaceMeasure(q) < PlaceMeasure(at) => g[q] = h[q]
        PROVE  OddDef(g, at) = OddDef(h, at)
    BY <2>1, <1>2, ShiftedPlace DEF OddDef, PlaceMeasure
  <2> QED BY <1>1, <2>1 DEF OddShifts!WellDefined
<1>5. ShiftWhileEven = CHOOSE g : g = [at \in Places |-> EvenDef(g, at)]
  BY DEF ShiftWhileEven, EvenDef
<1>6. ShiftWhileOdd = CHOOSE g : g = [at \in Places |-> OddDef(g, at)]
  BY DEF ShiftWhileOdd, OddDef
<1> QED BY <1>3, <1>4, <1>5, <1>6, EvenShifts!Recursion, OddShifts!Recursion

\* The loop that shifts an even index, one turn at a time.
LEMMA EvenStep ==
  ASSUME NEW at \in Places
  PROVE  ShiftWhileEven[at] = IF at.fn = 0 \/ Odd(at.fn) THEN at ELSE ShiftWhileEven[Shifted(at)]
BY ShiftEquations DEF EvenDef

\* The loop that shifts an odd index, one turn at a time.
LEMMA OddStep ==
  ASSUME NEW at \in Places
  PROVE  ShiftWhileOdd[at] = IF Odd(at.fn) THEN ShiftWhileOdd[Shifted(at)] ELSE at
BY ShiftEquations DEF OddDef

Both(x) == [fn |-> x, sn |-> x]

\* From the last node of a level, the shifts end at the odd part.
LEMMA EvenRun ==
  ASSUME NEW a \in Nat, Odd(a), NEW d \in Nat
  PROVE  ShiftWhileEven[Both(a * Power[d])] = Both(a)
<1> DEFINE Bad == {e \in Nat : ShiftWhileEven[Both(a * Power[e])] # Both(a)}
<1>1. SUFFICES ASSUME Bad # {} PROVE FALSE
  OBVIOUS
<1>2. PICK e \in Bad : \A f \in Bad : e <= f
  BY <1>1, Powers!LeastNumber
<1>3. a # 0
  BY DEF Odd
<1>4. e # 0
  <2>1. a * Power[0] = a
    BY PowerFacts
  <2>2. ShiftWhileEven[Both(a)] = Both(a)
    <3>1. Both(a) \in Places /\ Both(a).fn = a
      BY DEF Both, Places
    <3> QED BY <3>1, EvenStep
  <2> QED BY <2>1, <2>2, <1>2
<1>5. e - 1 \in Nat /\ e - 1 \notin Bad /\ e = (e - 1) + 1
  BY <1>2, <1>4
<1> DEFINE x == a * Power[e - 1]
<1>6. x \in Nat /\ x > 0
  <2>1. \A u, v \in Nat : u > 0 /\ v > 0 => u * v \in Nat /\ u * v > 0
    OBVIOUS
  <2> QED BY <2>1, <1>3, <1>5, PowerType
<1>7. a * Power[e] = 2 * x
  <2>1. Power[e] = 2 * Power[e - 1]
    BY <1>5, PowerFacts
  <2>2. \A u, v \in Nat : u * (2 * v) = 2 * (u * v)
    OBVIOUS
  <2> QED BY <2>1, <2>2, <1>5, PowerType
<1>8. ShiftWhileEven[Both(x)] = Both(a)
  BY <1>5
<1> HIDE DEF x
<1>9. ShiftWhileEven[Both(2 * x)] = ShiftWhileEven[Both(x)]
  <2>1. Both(2 * x) \in Places /\ Both(2 * x).fn = 2 * x
    BY <1>6 DEF Both, Places
  <2>2. ~ Odd(2 * x) /\ 2 * x # 0
    BY <1>6 DEF Odd
  <2>3. Shifted(Both(2 * x)) = Both(x)
    BY <1>6 DEF Both, Shifted
  <2> QED BY <2>1, <2>2, <2>3, EvenStep
<1> QED BY <1>2, <1>7, <1>8, <1>9

\* 2^c is the smallest power of two that n fits in.
Fits(n, c) == n \in Nat /\ c \in Nat /\ 0 < n /\ n <= Power[c] /\ (c > 0 => Power[c - 1] < n)

\* A range of n leaves at the multiple q of 2^c: either the tree ends with it,
\* sn being the place of the last leaf, or it is complete and the tree goes on.
Under(n, c, q, sn) ==
  \/ sn = q * Power[c] + (n - 1)
  \/ n = Power[c] /\ sn >= (q + 1) * Power[c]

\* Every range of leaves has a height.
LEMMA FitsExists ==
  ASSUME NEW n \in Nat, n > 0
  PROVE  \E c \in Nat : Fits(n, c)
<1>1. CASE n = 1
  <2>1. Fits(1, 0)
    BY PowerFacts DEF Fits
  <2> QED BY <1>1, <2>1
<1>2. CASE n # 1
  <2>1. PICK h \in Nat : Power[h] < n /\ n <= Power[h + 1]
    BY <1>2, SplitIsPower
  <2>2. Fits(n, h + 1)
    BY <2>1 DEF Fits
  <2> QED BY <2>2
<1> QED BY <1>1, <1>2

\* A range of at most 2^h leaves is at most h high.
LEMMA FitsWithin ==
  ASSUME NEW n, NEW c, Fits(n, c), NEW h \in Nat
  PROVE  /\ n <= Power[h] => c <= h
         /\ n = Power[h] => c = h
<1>1. ASSUME n <= Power[h], h < c PROVE FALSE
  <2>1. c - 1 \in Nat /\ h <= c - 1 /\ Power[c - 1] < n
    BY <1>1 DEF Fits
  <2>2. Power[h] <= Power[c - 1]
    BY <2>1, PowerOrder
  <2> QED BY <1>1, <2>1, <2>2, PowerType DEF Fits
<1>2. ASSUME n = Power[h], c < h PROVE FALSE
  <2>1. 2 * Power[c] <= Power[h]
    BY <1>2, PowerGrows DEF Fits
  <2> QED BY <1>2, <2>1, PowerType DEF Fits
<1>3. c \in Nat /\ (n = Power[h] => n <= Power[h])
  BY PowerType DEF Fits
<1> QED BY <1>1, <1>2, <1>3

\* Where the two parts of a range are.
LEMMA PartsUnder ==
  ASSUME NEW n, NEW c, Fits(n, c), n > 1, NEW q \in Nat, NEW sn \in Nat, Under(n, c, q, sn)
  PROVE  \E h, d, b \in Nat :
           /\ c = h + 1 /\ Split(n) = Power[h] /\ Fits(Split(n), h) /\ Fits(n - Split(n), b)
           /\ h = b + d
           /\ q * Power[c] = (2 * q) * Power[h]
           /\ q * Power[c] + Split(n) = (2 * q + 1) * Power[h]
           /\ (2 * q + 1) * Power[h] = ((2 * q + 1) * Power[d]) * Power[b]
           /\ Under(Split(n), h, 2 * q, sn)
           /\ Under(n - Split(n), b, (2 * q + 1) * Power[d], sn)
           /\ (2 * q + 1) * Power[h] <= sn
           /\ n = Power[c] => d = 0 /\ b = h
           /\ n # Power[c] => sn = q * Power[c] + (n - 1)
<1>1. n \in Nat /\ c \in Nat /\ c > 0
  <2>1. c # 0
    BY PowerFacts DEF Fits
  <2> QED BY <2>1 DEF Fits
<1> DEFINE h == c - 1
           k == Split(n)
<1>2. h \in Nat /\ c = h + 1 /\ Power[c] = 2 * Power[h] /\ Power[h] < n /\ n <= Power[h + 1]
  BY <1>1, PowerFacts DEF Fits
<1>3. k = Power[h]
  BY <1>1, <1>2, SplitAt
<1> HIDE DEF h, k
<1>4. k \in Nat /\ 0 < k /\ k < n /\ n <= 2 * k
  BY <1>2, <1>3, PowerFacts
<1>5. PICK b \in Nat : Fits(n - k, b)
  BY <1>1, <1>4, FitsExists
<1>6. b <= h
  BY <1>1, <1>2, <1>3, <1>4, <1>5, FitsWithin
<1> DEFINE d == h - b
<1>7. d \in Nat /\ h = b + d
  BY <1>2, <1>6
<1> HIDE DEF d
<1>8. Fits(k, h)
  <2>1. h > 0 => Power[h - 1] < Power[h]
    <3>1. ASSUME h > 0 PROVE Power[h - 1] < Power[h]
      <4>1. h - 1 \in Nat /\ (h - 1) + 1 = h
        BY <3>1, <1>2
      <4> QED BY <4>1, PowerFacts
    <3> QED BY <3>1
  <2> QED BY <1>2, <1>3, <1>4, <2>1 DEF Fits
<1> DEFINE o == q * Power[c]
           P == Power[h]
<1>9. P \in Nat /\ P > 0
  BY <1>2, PowerType
<1>10. /\ o = (2 * q) * P /\ o \in Nat
       /\ (2 * q + 1) * P = o + P
       /\ (2 * q + 2) * P = o + 2 * P
       /\ (q + 1) * Power[c] = o + 2 * P
  <2>1. 2 * q \in Nat /\ 2 * q + 1 \in Nat /\ (2 * q + 1) + 1 = 2 * q + 2
    OBVIOUS
  <2>2. o = (2 * q) * P /\ o \in Nat
    BY <1>2, <1>9, Multiples
  <2>3. (2 * q + 1) * P = o + P
    BY <1>9, <2>1, <2>2, Multiples
  <2>4. (2 * q + 2) * P = o + 2 * P
    BY <1>9, <2>1, <2>2, <2>3, Multiples
  <2>5. (q + 1) * Power[c] = o + Power[c]
    BY <1>1, Multiples, PowerType
  <2> QED BY <1>2, <2>2, <2>3, <2>4, <2>5
<1>11. (2 * q + 1) * P = ((2 * q + 1) * Power[d]) * Power[b]
  <2>1. P = Power[d] * Power[b]
    <3>1. b + d = d + b
      BY <1>7
    <3> QED BY <1>7, <3>1, PowerSum
  <2>2. \A x, y, z \in Nat : x * (y * z) = (x * y) * z
    OBVIOUS
  <2>3. 2 * q + 1 \in Nat
    OBVIOUS
  <2> QED BY <1>5, <1>7, <2>1, <2>2, <2>3, PowerType
<1>12. n = Power[c] => d = 0 /\ b = h /\ n - k = P
  <2>1. ASSUME n = Power[c] PROVE n - k = P /\ b = h
    <3>1. n - k = P
      BY <1>2, <1>3, <1>9, <2>1
    <3> QED BY <1>2, <1>5, <3>1, FitsWithin
  <2> QED BY <1>7, <2>1
<1> HIDE DEF o, P
<1>13. Under(k, h, 2 * q, sn) /\ o + P <= sn
  <2>1. CASE sn = o + (n - 1)
    <3>1. sn >= (2 * q + 1) * P
      BY <1>1, <1>3, <1>4, <1>9, <1>10, <2>1 DEF P
    <3> QED BY <1>3, <1>10, <3>1 DEF Under, P
  <2>2. CASE sn >= (q + 1) * Power[c]
    <3>1. sn >= (2 * q + 1) * P
      BY <1>9, <1>10, <2>2
    <3> QED BY <1>3, <1>10, <3>1 DEF Under, P
  <2> QED BY <2>1, <2>2 DEF Under, o
<1>14. Under(n - k, b, (2 * q + 1) * Power[d], sn)
  <2>1. CASE sn = o + (n - 1)
    <3>1. o + (n - 1) = ((2 * q + 1) * Power[d]) * Power[b] + ((n - k) - 1)
      BY <1>1, <1>3, <1>9, <1>10, <1>11 DEF P
    <3> QED BY <2>1, <3>1 DEF Under
  <2>2. CASE n = Power[c] /\ sn >= (q + 1) * Power[c]
    <3>1. d = 0 /\ b = h /\ n - k = P
      BY <1>12, <2>2
    <3>2. (2 * q + 1) * Power[d] = 2 * q + 1
      BY <3>1, PowerFacts
    <3>3. sn >= (2 * q + 2) * P
      BY <1>10, <2>2
    <3>4. (2 * q + 1) + 1 = 2 * q + 2
      OBVIOUS
    <3> QED BY <3>1, <3>2, <3>3, <3>4 DEF Under, P
  <2> QED BY <2>1, <2>2 DEF Under, o
<1>15. n # Power[c] => sn = o + (n - 1)
  BY DEF Under, o
<1>16. o = (2 * q) * Power[h] /\ o + k = (2 * q + 1) * Power[h] /\ o = q * Power[c]
  BY <1>3, <1>10 DEF P, o
<1>17. /\ c = h + 1 /\ Split(n) = Power[h] /\ Fits(Split(n), h) /\ Fits(n - Split(n), b)
       /\ h = b + d
  BY <1>2, <1>3, <1>5, <1>7, <1>8 DEF k
<1>18. /\ q * Power[c] = (2 * q) * Power[h]
       /\ q * Power[c] + Split(n) = (2 * q + 1) * Power[h]
       /\ (2 * q + 1) * Power[h] = ((2 * q + 1) * Power[d]) * Power[b]
  BY <1>11, <1>16 DEF k, P
<1>19. /\ Under(Split(n), h, 2 * q, sn)
       /\ Under(n - Split(n), b, (2 * q + 1) * Power[d], sn)
  BY <1>13, <1>14 DEF k
<1>20. /\ (2 * q + 1) * Power[h] <= sn
       /\ n = Power[c] => d = 0 /\ b = h
       /\ n # Power[c] => sn = q * Power[c] + (n - 1)
  BY <1>10, <1>12, <1>13, <1>15 DEF P, o
<1>21. h \in Nat /\ d \in Nat /\ b \in Nat
  BY <1>2, <1>5, <1>7
<1> HIDE DEF h, d
<1> QED BY <1>17, <1>18, <1>19, <1>20, <1>21

\* A left child whose sibling exists goes up from the right.
LEMMA UpFromRight ==
  ASSUME NEW q \in Nat, NEW t \in Nat, t > 2 * q
  PROVE  LET at == [fn |-> 2 * q, sn |-> t]
         IN  ~ FromLeft(at) /\ Up(at) = [fn |-> q, sn |-> t \div 2]
<1>1. ~ Odd(2 * q) /\ 2 * q # t /\ (2 * q) \div 2 = q
  BY DEF Odd
<1> QED BY <1>1 DEF FromLeft, Up, Shifted

\* A right child, or the last node of its level, goes up from the left.
LEMMA UpFromLeft ==
  ASSUME NEW q \in Nat, NEW d \in Nat, NEW t \in Nat,
         d = 0 \/ t = (2 * q + 1) * Power[d]
  PROVE  LET at == [fn |-> (2 * q + 1) * Power[d], sn |-> t]
         IN  FromLeft(at) /\ Up(at) = [fn |-> q, sn |-> IF d = 0 THEN t \div 2 ELSE q]
<1> DEFINE a == 2 * q + 1
           at == [fn |-> a * Power[d], sn |-> t]
<1>1. a \in Nat /\ Odd(a) /\ a \div 2 = q
  BY DEF Odd
<1> HIDE DEF a
<1>2. CASE d = 0
  <2>1. at = [fn |-> a, sn |-> t]
    BY <1>1, <1>2, PowerFacts
  <2>2. ShiftWhileEven[at] = at
    BY <1>1, <2>1, EvenStep DEF Places
  <2> QED BY <1>1, <1>2, <2>1, <2>2 DEF FromLeft, Up, Shifted, a
<1>3. CASE d # 0
  <2>1. at = Both(a * Power[d])
    BY <1>3 DEF Both, a
  <2>2. FromLeft(at)
    BY <1>3 DEF FromLeft, a
  <2>3. ShiftWhileEven[at] = Both(a)
    BY <1>1, <2>1, EvenRun
  <2>4. Up(at) = [fn |-> q, sn |-> q]
    BY <1>1, <2>2, <2>3 DEF Up, Shifted, Both
  <2> QED BY <1>3, <2>2, <2>4 DEF a
<1> QED BY <1>2, <1>3

\* Where the climb is when it has passed the left or the right part of a range.
LEMMA AfterLeft ==
  ASSUME NEW h \in Nat, NEW q \in Nat, NEW sn \in Nat, (2 * q + 1) * Power[h] <= sn,
         NEW t, IsShift(t, sn, h)
  PROVE  t \in Nat /\ t > 2 * q /\ IsShift(t \div 2, sn, h + 1)
<1>1. 2 * q + 1 \in Nat /\ t \in Nat
  BY DEF IsShift
<1>2. 2 * q + 1 <= t
  BY <1>1, ShiftUnique
<1> QED BY <1>1, <1>2, ShiftOnce

\* Where the climb is after the right part of a range.
LEMMA AfterRight ==
  ASSUME NEW n, NEW c, Fits(n, c), n > 1, NEW q \in Nat, NEW sn \in Nat,
         NEW h \in Nat, NEW d \in Nat, NEW b \in Nat, c = h + 1, h = b + d,
         Split(n) = Power[h], Fits(n - Split(n), b),
         q * Power[c] + Split(n) = (2 * q + 1) * Power[h],
         (2 * q + 1) * Power[h] = ((2 * q + 1) * Power[d]) * Power[b],
         (2 * q + 1) * Power[h] <= sn, n = Power[c] => d = 0 /\ b = h,
         n # Power[c] => sn = q * Power[c] + (n - 1),
         NEW t, IsShift(t, sn, b)
  PROVE  /\ t \in Nat /\ t # 0 /\ (d = 0 \/ t = (2 * q + 1) * Power[d])
         /\ IsShift(IF d = 0 THEN t \div 2 ELSE q, sn, c)
<1> DEFINE p == (2 * q + 1) * Power[d]
<1>1. t \in Nat /\ p \in Nat /\ p > 0 /\ n \in Nat
  <2>1. \A u, v \in Nat : u > 0 /\ v > 0 => u * v \in Nat /\ u * v > 0
    OBVIOUS
  <2>2. 2 * q + 1 \in Nat /\ 2 * q + 1 > 0
    OBVIOUS
  <2> QED BY <2>1, <2>2, PowerType DEF IsShift, Fits
<1>2. p * Power[b] <= sn
  OBVIOUS
<1> HIDE DEF p
<1>3. p <= t
  BY <1>1, <1>2, ShiftUnique
<1>4. CASE d = 0
  <2>1. c = b + 1
    BY <1>4
  <2> QED BY <1>1, <1>3, <1>4, <2>1, ShiftOnce
<1>5. CASE d # 0
  <2>1. sn = q * Power[c] + (n - 1)
    BY <1>5
  <2>2. n - Split(n) <= Power[b] /\ n <= Power[c] /\ Split(n) \in Nat
    BY <1>1, SplitType DEF Fits
  <2>3. /\ p * Power[b] \in Nat /\ (p + 1) * Power[b] = p * Power[b] + Power[b]
        /\ q * Power[c] \in Nat /\ (q + 1) * Power[c] = q * Power[c] + Power[c]
    BY <1>1, Multiples, PowerType
  <2>4. q * Power[c] + Split(n) = p * Power[b]
    BY DEF p
  <2>5. Power[b] \in Nat /\ Power[c] \in Nat
    BY PowerType
  <2>6. sn < (p + 1) * Power[b] /\ q * Power[c] <= sn /\ sn < (q + 1) * Power[c]
    BY <1>1, <2>1, <2>2, <2>3, <2>4, <2>5
  <2>7. t = p
    BY <1>1, <1>2, <2>6, ShiftUnique
  <2>8. IsShift(q, sn, c)
    BY <2>6 DEF IsShift
  <2> QED BY <1>1, <1>5, <2>7, <2>8 DEF p
<1> QED BY <1>4, <1>5

LeafAt(hash, fn, sn) == [ok |-> TRUE, at |-> [fn |-> fn, sn |-> sn], r |-> hash]

\* The climb of a leaf's audit path in a range of n leaves ends at the range's
\* node, with the hash of the range.
Climbs(n) ==
  \A log, s, c, q, sn, m :
    /\ In(log, s, n) /\ Fits(n, c) /\ q \in Nat /\ sn \in Nat /\ Under(n, c, q, sn)
    /\ m \in s .. s + n - 1
    => /\ IsSequence(AuditPath(log, s, n, m))
       /\ \E t : /\ IsShift(t, sn, c)
                 /\ LeafState(LeafAt(HashLeaf(log[m + 1]), q * Power[c] + (m - s), sn),
                              AuditPath(log, s, n, m))
                    = LeafAt(Tree(log, s, n), q, t)

\* Every audit path climbs to the node of its range: by the least width for
\* which it would not.
LEMMA AllClimb == \A n \in Nat : Climbs(n)
<1> DEFINE Bad == {n \in Nat : ~ Climbs(n)}
<1>1. SUFFICES ASSUME Bad # {} PROVE FALSE
  OBVIOUS
<1>2. PICK n \in Bad : \A l \in Bad : n <= l
  BY <1>1, Powers!LeastNumber
<1>3. n \in Nat /\ ~ Climbs(n) /\ \A l \in Nat : l < n => Climbs(l)
  BY <1>2
<1> HIDE DEF Bad
<1>4. SUFFICES ASSUME NEW log, NEW s, NEW c, NEW q, NEW sn, NEW m,
                      In(log, s, n), Fits(n, c), q \in Nat, sn \in Nat, Under(n, c, q, sn),
                      m \in s .. s + n - 1
               PROVE  /\ IsSequence(AuditPath(log, s, n, m))
                      /\ \E t : /\ IsShift(t, sn, c)
                                /\ LeafState(LeafAt(HashLeaf(log[m + 1]),
                                                    q * Power[c] + (m - s), sn),
                                             AuditPath(log, s, n, m))
                                   = LeafAt(Tree(log, s, n), q, t)
  BY <1>3 DEF Climbs
<1> DEFINE start == LeafAt(HashLeaf(log[m + 1]), q * Power[c] + (m - s), sn)
<1>5. s \in Nat /\ m \in Nat /\ n >= 1
  BY <1>3, <1>4 DEF In, Fits
<1>6. CASE n = 1
  <2>1. m = s /\ c = 0
    BY <1>4, <1>5, <1>6, FitsWithin, PowerFacts DEF Fits
  <2>2. AuditPath(log, s, n, m) = <<>> /\ Tree(log, s, n) = HashLeaf(log[m + 1])
    BY <1>4, <1>6, <2>1, AuditPathFacts, TreeFacts
  <2>3. q * Power[c] + (m - s) = q
    BY <1>4, <1>5, <2>1, PowerFacts
  <2>4. IsShift(sn, sn, 0)
    BY <1>4, PowerFacts DEF IsShift
  <2>5. LeafState(start, <<>>) = LeafAt(Tree(log, s, n), q, sn)
    BY <2>2, <2>3, LeafStateFacts, EmptySequence
  <2> QED BY <2>1, <2>2, <2>4, <2>5, EmptySequence
<1>7. CASE n > 1
  <2> DEFINE k == Split(n)
  <2>1. PICK h, d, b \in Nat :
           /\ c = h + 1 /\ k = Power[h] /\ Fits(k, h) /\ Fits(n - k, b)
           /\ h = b + d
           /\ q * Power[c] = (2 * q) * Power[h]
           /\ q * Power[c] + k = (2 * q + 1) * Power[h]
           /\ (2 * q + 1) * Power[h] = ((2 * q + 1) * Power[d]) * Power[b]
           /\ Under(k, h, 2 * q, sn)
           /\ Under(n - k, b, (2 * q + 1) * Power[d], sn)
           /\ (2 * q + 1) * Power[h] <= sn
           /\ n = Power[c] => d = 0 /\ b = h
           /\ n # Power[c] => sn = q * Power[c] + (n - 1)
    BY <1>4, <1>7, PartsUnder
  <2>2. k \in Nat /\ 0 < k /\ k < n
    BY <1>3, <1>7, SplitType
  <2>3. In(log, s, k) /\ In(log, s + k, n - k)
    BY <1>3, <1>4, <1>5, <2>2 DEF In, IsLog
  <2>4. Tree(log, s, n) = HashChildren(Tree(log, s, k), Tree(log, s + k, n - k))
    BY <1>4, <1>7, TreeFacts
  <2> HIDE DEF k, start
  <2>5. CASE m < s + k
    <3> DEFINE path == AuditPath(log, s, k, m)
               x == Tree(log, s + k, n - k)
    <3>1. AuditPath(log, s, n, m) = Append(path, x)
      BY <1>4, <1>7, <2>5, AuditPathFacts DEF k
    <3>2. Climbs(k) /\ m \in s .. s + k - 1 /\ 2 * q \in Nat
      BY <1>3, <1>4, <1>5, <2>2, <2>5
    <3>3. /\ IsSequence(path)
          /\ \E t : /\ IsShift(t, sn, h)
                    /\ LeafState(LeafAt(HashLeaf(log[m + 1]),
                                        (2 * q) * Power[h] + (m - s), sn), path)
                       = LeafAt(Tree(log, s, k), 2 * q, t)
      BY <1>4, <2>1, <2>3, <3>2 DEF Climbs
    <3>4. PICK t : /\ IsShift(t, sn, h)
                   /\ LeafState(start, path) = LeafAt(Tree(log, s, k), 2 * q, t)
      BY <2>1, <3>3 DEF start
    <3>5. t \in Nat /\ t > 2 * q /\ IsShift(t \div 2, sn, c)
      BY <1>4, <2>1, <3>4, AfterLeft
    <3>6. ClimbLeaf(LeafAt(Tree(log, s, k), 2 * q, t), x)
            = LeafAt(HashChildren(Tree(log, s, k), x), q, t \div 2)
      <4>1. /\ ~ FromLeft([fn |-> 2 * q, sn |-> t])
            /\ Up([fn |-> 2 * q, sn |-> t]) = [fn |-> q, sn |-> t \div 2]
        BY <1>4, <3>5, UpFromRight
      <4>2. t # 0
        BY <1>4, <3>5
      <4> QED BY <4>1, <4>2 DEF ClimbLeaf, LeafAt
    <3>7. LeafState(start, Append(path, x)) = LeafAt(Tree(log, s, n), q, t \div 2)
      BY <2>4, <3>3, <3>4, <3>6, LeafStateFacts
    <3>8. IsSequence(Append(path, x))
      BY <3>3, SequenceFacts
    <3> QED BY <3>1, <3>5, <3>7, <3>8 DEF start
  <2>6. CASE m >= s + k
    <3> DEFINE path == AuditPath(log, s + k, n - k, m)
               x == Tree(log, s, k)
               p == (2 * q + 1) * Power[d]
    <3>1. AuditPath(log, s, n, m) = Append(path, x)
      BY <1>4, <1>7, <2>6, AuditPathFacts DEF k
    <3>2. /\ Climbs(n - k) /\ m \in (s + k) .. (s + k) + (n - k) - 1
          /\ p \in Nat
      <4>1. n - k \in Nat /\ n - k < n
        BY <1>3, <2>2
      <4>2. Climbs(n - k)
        BY <1>3, <4>1
      <4>3. m \in (s + k) .. (s + k) + (n - k) - 1
        BY <1>3, <1>4, <1>5, <2>2, <2>6
      <4>4. p \in Nat
        <5>1. \A u, v \in Nat : u * v \in Nat
          OBVIOUS
        <5>2. 2 * q + 1 \in Nat
          BY <1>4
        <5> QED BY <5>1, <5>2, PowerType
      <4> QED BY <4>2, <4>3, <4>4
    <3>3. q * Power[c] + (m - s) = p * Power[b] + (m - (s + k))
      <4>1. q * Power[c] + k = p * Power[b]
        BY <2>1
      <4>2. q * Power[c] \in Nat
        BY <1>4, <2>1, Multiples, PowerType
      <4> HIDE DEF p
      <4> QED BY <1>5, <2>2, <4>1, <4>2
    <3>4. /\ IsSequence(path)
          /\ \E t : /\ IsShift(t, sn, b)
                    /\ LeafState(LeafAt(HashLeaf(log[m + 1]),
                                        p * Power[b] + (m - (s + k)), sn), path)
                       = LeafAt(Tree(log, s + k, n - k), p, t)
      <4>1. Under(n - k, b, p, sn) /\ Fits(n - k, b)
        BY <2>1
      <4> HIDE DEF p
      <4> QED BY <1>4, <2>3, <3>2, <4>1 DEF Climbs
    <3>5. PICK t : /\ IsShift(t, sn, b)
                   /\ LeafState(start, path) = LeafAt(Tree(log, s + k, n - k), p, t)
      <4> HIDE DEF p
      <4> QED BY <3>3, <3>4 DEF start
    <3> DEFINE u == IF d = 0 THEN t \div 2 ELSE q
    <3>6. t \in Nat /\ t # 0 /\ (d = 0 \/ t = p) /\ IsShift(u, sn, c)
      BY <1>4, <1>7, <2>1, <3>5, AfterRight DEF k
    <3>7. ClimbLeaf(LeafAt(Tree(log, s + k, n - k), p, t), x)
            = LeafAt(HashChildren(x, Tree(log, s + k, n - k)), q, u)
      <4>1. /\ FromLeft([fn |-> p, sn |-> t])
            /\ Up([fn |-> p, sn |-> t]) = [fn |-> q, sn |-> u]
        BY <1>4, <3>6, UpFromLeft
      <4> HIDE DEF p, u
      <4> QED BY <3>6, <4>1 DEF ClimbLeaf, LeafAt
    <3> HIDE DEF p, u
    <3>8. LeafState(start, Append(path, x)) = LeafAt(Tree(log, s, n), q, u)
      BY <2>4, <3>4, <3>5, <3>7, LeafStateFacts
    <3>9. IsSequence(Append(path, x))
      BY <3>4, SequenceFacts
    <3> QED BY <3>1, <3>6, <3>8, <3>9 DEF start
  <2> QED BY <1>5, <2>2, <2>5, <2>6
<1> QED BY <1>3, <1>5, <1>6, <1>7

\* InclusionVerifies: the audit path of any leaf, in any tree, is accepted.
THEOREM AuditPathVerifies ==
  ASSUME NEW log \in Seq(Int), NEW n \in 1 .. Len(log), NEW m \in 0 .. n - 1
  PROVE  /\ IsSequence(InclusionProof(log, m, n))
         /\ VerifyInclusion(HashLeaf(log[m + 1]), m, n, InclusionProof(log, m, n), RootAt(log, n))
         /\ LET end == LeafState(LeafAt(HashLeaf(log[m + 1]), m, n - 1), InclusionProof(log, m, n))
            IN  end.ok /\ end.at.sn = 0 /\ end.r = RootAt(log, n)
<1>1. Len(log) \in Nat /\ n \in Nat /\ n > 0 /\ n - 1 \in Nat
  OBVIOUS
<1>2. PICK c \in Nat : Fits(n, c)
  BY <1>1, FitsExists
<1>3. In(log, 0, n) /\ m \in 0 .. 0 + n - 1
  BY <1>1 DEF In, IsLog
<1>4. 0 * Power[c] = 0 /\ (0 + 1) * Power[c] = Power[c] /\ Power[c] \in Nat
  BY PowerType
<1>5. Under(n, c, 0, n - 1)
  BY <1>1, <1>4 DEF Under
<1> DEFINE path == InclusionProof(log, m, n)
           start == LeafAt(HashLeaf(log[m + 1]), m, n - 1)
<1>6. path = AuditPath(log, 0, n, m) /\ RootAt(log, n) = Tree(log, 0, n)
  <2>1. 0 + n = n
    BY <1>1
  <2> QED BY <2>1 DEF InclusionProof, AuditPath, RootAt, Tree
<1>7. 0 * Power[c] + (m - 0) = m
  BY <1>4
<1>8. /\ IsSequence(path)
      /\ \E t : IsShift(t, n - 1, c) /\ LeafState(start, path) = LeafAt(RootAt(log, n), 0, t)
  BY <1>1, <1>2, <1>3, <1>5, <1>6, <1>7, AllClimb DEF Climbs
<1>9. PICK t : IsShift(t, n - 1, c) /\ LeafState(start, path) = LeafAt(RootAt(log, n), 0, t)
  BY <1>8
<1>10. t = 0
  <2>1. n - 1 < (0 + 1) * Power[c] /\ 0 * Power[c] <= n - 1
    BY <1>1, <1>2, <1>4 DEF Fits
  <2> QED BY <1>1, <1>9, <2>1, ShiftUnique
<1>11. LeafClimb(HashLeaf(log[m + 1]), m, n, path) = LeafState(start, path)
  BY LeafStateIsClimb DEF LeafAt
<1>12. LeafState(start, path).ok /\ LeafState(start, path).at.sn = 0
       /\ LeafState(start, path).r = RootAt(log, n)
  BY <1>9, <1>10 DEF LeafAt
<1> HIDE DEF path, start
<1>13. VerifyInclusion(HashLeaf(log[m + 1]), m, n, path, RootAt(log, n))
  BY <1>1, <1>11, <1>12 DEF VerifyInclusion
<1> QED BY <1>8, <1>12, <1>13 DEF path, start

-----------------------------------------------------------------------------
(* A climb's places depend on where it starts and not on the path, so two    *)
(* climbs that end in the same root started from the same leaf.              *)

IsLeafState(s) == s = [ok |-> s.ok, at |-> s.at, r |-> s.r] /\ s.ok \in BOOLEAN

\* A turn of the loop that does not fail started below the root from a state
\* that had not failed.
LEMMA ClimbLeafFacts ==
  ASSUME NEW s, IsLeafState(s), NEW x
  PROVE  /\ IsLeafState(ClimbLeaf(s, x))
         /\ ClimbLeaf(s, x).ok =>
              /\ s.ok /\ s.at.sn # 0
              /\ ClimbLeaf(s, x) =
                   [ok |-> TRUE, at |-> Up(s.at),
                    r |-> IF FromLeft(s.at) THEN HashChildren(x, s.r) ELSE HashChildren(s.r, x)]
<1>1. CASE ~s.ok \/ s.at.sn = 0
  <2>1. ClimbLeaf(s, x) = [ok |-> FALSE, at |-> s.at, r |-> s.r]
    BY <1>1 DEF ClimbLeaf, IsLeafState
  <2> QED BY <2>1 DEF IsLeafState
<1>2. CASE ~(~s.ok \/ s.at.sn = 0)
  <2>1. ClimbLeaf(s, x) =
          [ok |-> TRUE, at |-> Up(s.at),
           r |-> IF FromLeft(s.at) THEN HashChildren(x, s.r) ELSE HashChildren(s.r, x)]
    BY <1>2 DEF ClimbLeaf
  <2> QED BY <1>2, <2>1 DEF IsLeafState
<1> QED BY <1>1, <1>2

\* What an accepted element of an audit path does.
RightStep(s, x, t) ==
  /\ s.at.sn # 0
  /\ t.at = Up(s.at)
  /\ FromLeft(s.at) => t.r = HashChildren(x, s.r)
  /\ ~ FromLeft(s.at) => t.r = HashChildren(s.r, x)

\* A climb that is still right at its end was right, and below the root, before.
LEMMA LeafTraceOk ==
  ASSUME NEW s0, IsLeafState(s0), NEW p, Len(p) \in Nat, LeafState(s0, p).ok
  PROVE  /\ \A i \in 0 .. Len(p) : LeafTrace(s0, p)[i].ok
         /\ \A i \in 1 .. Len(p) :
              RightStep(LeafTrace(s0, p)[i - 1], p[i], LeafTrace(s0, p)[i])
<1> DEFINE n == Len(p)
           c == LeafTrace(s0, p)
           Bad == {i \in Nat : i <= n /\ ~ IsLeafState(c[i])}
           Worse == {i \in Nat : i <= n /\ ~ c[n - i].ok}
<1>1. n \in Nat /\ c[0] = s0 /\ \A i \in 1 .. n : c[i] = ClimbLeaf(c[i - 1], p[i])
  BY LeafTraceSteps
<1>2. c[n].ok
  BY DEF LeafState
<1> HIDE DEF n, c
<1>3. \A i \in 0 .. n : IsLeafState(c[i])
  <2>1. SUFFICES ASSUME Bad # {} PROVE FALSE
    BY <1>1
  <2>2. PICK i \in Bad : \A j \in Bad : i <= j
    BY <2>1, Powers!LeastNumber
  <2>3. i # 0
    BY <1>1, <2>2
  <2>4. i - 1 \in Nat /\ i - 1 \notin Bad /\ i \in 1 .. n
    BY <1>1, <2>2, <2>3
  <2>5. IsLeafState(c[i - 1])
    BY <1>1, <2>4
  <2> QED BY <1>1, <2>2, <2>4, <2>5, ClimbLeafFacts
<1>4. \A i \in 0 .. n : c[i].ok
  <2>1. SUFFICES ASSUME Worse # {} PROVE FALSE
    <3>1. ASSUME Worse = {}, NEW i \in 0 .. n PROVE c[i].ok
      <4>1. n - i \in Nat /\ n - i <= n /\ n - (n - i) = i
        BY <1>1
      <4>2. n - i \notin Worse
        BY <3>1
      <4> QED BY <4>1, <4>2
    <3> QED BY <3>1
  <2>2. PICK i \in Worse : \A j \in Worse : i <= j
    BY <2>1, Powers!LeastNumber
  <2>3. i # 0
    BY <1>1, <1>2, <2>2
  <2>4. i - 1 \in Nat /\ i - 1 \notin Worse
    BY <2>2, <2>3
  <2>5. c[n - (i - 1)].ok
    BY <1>1, <2>2, <2>4
  <2>6. n - (i - 1) \in 1 .. n /\ (n - (i - 1)) - 1 = n - i /\ n - i \in 0 .. n
    BY <1>1, <2>2, <2>3
  <2> QED BY <1>1, <1>3, <2>2, <2>5, <2>6, ClimbLeafFacts
<1>5. ASSUME NEW i \in 1 .. n
      PROVE  RightStep(c[i - 1], p[i], c[i])
  <2>1. i \in 0 .. n /\ i - 1 \in 0 .. n
    BY <1>1
  <2>2. IsLeafState(c[i - 1]) /\ ClimbLeaf(c[i - 1], p[i]).ok
    BY <1>1, <1>3, <1>4, <2>1
  <2> QED BY <1>1, <2>2, ClimbLeafFacts DEF RightStep
<1> QED BY <1>4, <1>5 DEF n, c

\* A node determines its two children (no hash is met twice).
LEMMA PairsAgree ==
  ASSUME NEW a, NEW b, NEW c, NEW d, HashChildren(a, b) = HashChildren(c, d)
  PROVE  a = c /\ b = d
BY DEF HashChildren

\* Two accepted climbs from the same place to the same root started from the
\* same hash: they take the same turns, so the last nodes agree, and then the
\* ones before them.
LEMMA SameLeaf ==
  ASSUME NEW fn, NEW sn, NEW a, NEW b, NEW p, NEW q, Len(p) \in Nat, Len(q) \in Nat,
         LeafState(LeafAt(a, fn, sn), p).ok, LeafState(LeafAt(a, fn, sn), p).at.sn = 0,
         LeafState(LeafAt(b, fn, sn), q).ok, LeafState(LeafAt(b, fn, sn), q).at.sn = 0,
         LeafState(LeafAt(a, fn, sn), p).r = LeafState(LeafAt(b, fn, sn), q).r
  PROVE  a = b
<1> DEFINE c == LeafTrace(LeafAt(a, fn, sn), p)
           e == LeafTrace(LeafAt(b, fn, sn), q)
           n == Len(p)
           k == Len(q)
           Apart == {i \in Nat : i <= n /\ i <= k /\ c[i].at # e[i].at}
           Unlike == {i \in Nat : i <= n /\ c[n - i].r # e[n - i].r}
<1>1. IsLeafState(LeafAt(a, fn, sn)) /\ IsLeafState(LeafAt(b, fn, sn))
  BY DEF IsLeafState, LeafAt
<1>2. n \in Nat /\ k \in Nat /\ c[0].at = e[0].at /\ c[0].r = a /\ e[0].r = b
  BY LeafTraceSteps DEF LeafAt
<1>3. c[n].at.sn = 0 /\ e[k].at.sn = 0 /\ c[n].r = e[k].r
  BY DEF LeafState
<1>4. \A i \in 1 .. n : RightStep(c[i - 1], p[i], c[i])
  BY <1>1, LeafTraceOk
<1>5. \A i \in 1 .. k : RightStep(e[i - 1], q[i], e[i])
  BY <1>1, LeafTraceOk
<1> HIDE DEF c, e, n, k
<1>6. \A i \in 0 .. n : i <= k => c[i].at = e[i].at
  <2>1. SUFFICES ASSUME Apart # {} PROVE FALSE
    BY <1>2
  <2>2. PICK i \in Apart : \A j \in Apart : i <= j
    BY <2>1, Powers!LeastNumber
  <2>3. i # 0
    BY <1>2, <2>2
  <2>4. i - 1 \in Nat /\ i - 1 \notin Apart /\ i \in 1 .. n /\ i \in 1 .. k
    BY <1>2, <2>2, <2>3
  <2>5. c[i - 1].at = e[i - 1].at
    BY <1>2, <2>4
  <2>6. c[i].at = Up(c[i - 1].at) /\ e[i].at = Up(e[i - 1].at)
    BY <1>4, <1>5, <2>4 DEF RightStep
  <2> QED BY <2>2, <2>5, <2>6
<1>7. n = k
  <2>1. ASSUME n < k PROVE FALSE
    <3>1. n + 1 \in 1 .. k /\ (n + 1) - 1 = n /\ n \in 0 .. n /\ n <= k
      BY <1>2, <2>1
    <3>2. e[n].at.sn # 0 /\ c[n].at = e[n].at
      BY <1>5, <1>6, <3>1 DEF RightStep
    <3> QED BY <1>3, <3>2
  <2>2. ASSUME k < n PROVE FALSE
    <3>1. k + 1 \in 1 .. n /\ (k + 1) - 1 = k /\ k \in 0 .. n /\ k <= k
      BY <1>2, <2>2
    <3>2. c[k].at.sn # 0 /\ c[k].at = e[k].at
      BY <1>4, <1>6, <3>1 DEF RightStep
    <3> QED BY <1>3, <3>2
  <2> QED BY <1>2, <2>1, <2>2
<1>8. ASSUME NEW i \in 1 .. n, c[i].r = e[i].r PROVE c[i - 1].r = e[i - 1].r
  <2>1. i - 1 \in 0 .. n /\ i - 1 <= k /\ i \in 1 .. k
    BY <1>2, <1>7
  <2>2. c[i - 1].at = e[i - 1].at
    BY <1>6, <2>1
  <2>3. RightStep(c[i - 1], p[i], c[i]) /\ RightStep(e[i - 1], q[i], e[i])
    BY <1>4, <1>5, <2>1
  <2>4. CASE FromLeft(c[i - 1].at)
    <3>1. HashChildren(p[i], c[i - 1].r) = HashChildren(q[i], e[i - 1].r)
      BY <1>8, <2>2, <2>3, <2>4 DEF RightStep
    <3> QED BY <3>1, PairsAgree
  <2>5. CASE ~ FromLeft(c[i - 1].at)
    <3>1. HashChildren(c[i - 1].r, p[i]) = HashChildren(e[i - 1].r, q[i])
      BY <1>8, <2>2, <2>3, <2>5 DEF RightStep
    <3> QED BY <3>1, PairsAgree
  <2> QED BY <2>4, <2>5
<1>9. Unlike = {}
  <2>1. SUFFICES ASSUME Unlike # {} PROVE FALSE
    OBVIOUS
  <2>2. PICK i \in Unlike : \A j \in Unlike : i <= j
    BY <2>1, Powers!LeastNumber
  <2>3. i # 0
    BY <1>2, <1>3, <1>7, <2>2
  <2>4. i - 1 \in Nat /\ i - 1 \notin Unlike
    BY <2>2, <2>3
  <2>5. n - (i - 1) \in 1 .. n /\ (n - (i - 1)) - 1 = n - i
    BY <1>2, <2>2, <2>3
  <2>6. c[n - (i - 1)].r = e[n - (i - 1)].r
    BY <1>2, <2>2, <2>4
  <2>7. c[n - i].r = e[n - i].r
    BY <1>8, <2>5, <2>6
  <2> QED BY <2>2, <2>7
<1>10. c[0].r = e[0].r
  <2>1. n - n = 0 /\ n <= n
    BY <1>2
  <2>2. ~ (c[n - n].r # e[n - n].r)
    BY <1>2, <1>9, <2>1
  <2> QED BY <2>1, <2>2
<1> QED BY <1>2, <1>10

\* InclusionBinds, for any path at all: a leaf is accepted only at its index.
THEOREM AcceptedLeafIsInTree ==
  ASSUME NEW log \in Seq(Int), NEW n \in 1 .. Len(log), NEW m \in Nat, NEW d,
         NEW path, IsSequence(path),
         VerifyInclusion(HashLeaf(d), m, n, path, RootAt(log, n))
  PROVE  m < n /\ log[m + 1] = d
<1>1. m < n /\ m \in 0 .. n - 1 /\ n - 1 \in Nat
  BY DEF VerifyInclusion
<1> DEFINE served == InclusionProof(log, m, n)
<1>2. LET end == LeafState(LeafAt(HashLeaf(log[m + 1]), m, n - 1), served)
      IN  end.ok /\ end.at.sn = 0 /\ end.r = RootAt(log, n)
  BY <1>1, AuditPathVerifies
<1>3. Len(served) \in Nat /\ Len(path) \in Nat
  BY <1>1, AuditPathVerifies, SequenceFacts
<1>4. LET end == LeafState(LeafAt(HashLeaf(d), m, n - 1), path)
      IN  end.ok /\ end.at.sn = 0 /\ end.r = RootAt(log, n)
  <2>1. LET end == LeafClimb(HashLeaf(d), m, n, path)
        IN  end.ok /\ end.at.sn = 0 /\ end.r = RootAt(log, n)
    BY DEF VerifyInclusion
  <2>2. LeafClimb(HashLeaf(d), m, n, path) = LeafState(LeafAt(HashLeaf(d), m, n - 1), path)
    BY LeafStateIsClimb DEF LeafAt
  <2> QED BY <2>1, <2>2
<1> HIDE DEF served
<1>5. HashLeaf(log[m + 1]) = HashLeaf(d)
  BY <1>2, <1>3, <1>4, SameLeaf
<1> QED BY <1>1, <1>5 DEF HashLeaf

-----------------------------------------------------------------------------
(* The consistency proof, by the place and the width of a range.             *)

FirstPath(log, s, n, m, b) == Subproof[[m |-> m, r |-> Span(log, s, s + n), b |-> b]]

SubproofDef(f, p) ==
  LET k == Split(Width(p.r))
  IN IF p.m = Width(p.r) THEN IF p.b THEN <<>> ELSE <<Mth[p.r]>>
     ELSE IF p.m <= k
          THEN Append(f[[p EXCEPT !.r = LeftPart(@)]], Mth[RightPart(p.r)])
          ELSE Append(f[[m |-> p.m - k, r |-> RightPart(p.r), b |-> FALSE]],
                      Mth[LeftPart(p.r)])
Subproofs == INSTANCE RecursiveFunctions
               WITH Dom <- FirstTrees, Measure <- SpotMeasure, Def <- SubproofDef

\* subproof: the recursion on ever shorter ranges satisfies the equation that
\* defines it.
LEMMA SubproofEquation == Subproof = [p \in FirstTrees |-> SubproofDef(Subproof, p)]
<1>1. ASSUME NEW p \in FirstTrees, p.m # Width(p.r)
      PROVE  LET k == Split(Width(p.r))
                 left == [p EXCEPT !.r = LeftPart(@)]
                 right == [m |-> p.m - k, r |-> RightPart(p.r), b |-> FALSE]
             IN  /\ p.m <= k => left \in FirstTrees /\ SpotMeasure(left) < SpotMeasure(p)
                 /\ ~(p.m <= k) => right \in FirstTrees /\ SpotMeasure(right) < SpotMeasure(p)
  <2> DEFINE k == Split(Width(p.r))
             left == [p EXCEPT !.r = LeftPart(@)]
             right == [m |-> p.m - k, r |-> RightPart(p.r), b |-> FALSE]
  <2>1. p.r \in Spans /\ p.m \in Nat /\ 0 < p.m /\ p.m <= Width(p.r) /\ p.b \in BOOLEAN
        /\ p = [m |-> p.m, r |-> p.r, b |-> p.b]
    BY DEF FirstTrees
  <2>2. Width(p.r) \in Nat /\ Width(p.r) > 1
    BY <1>1, <2>1, PartsAreSpans
  <2>3. /\ LeftPart(p.r) \in Spans /\ RightPart(p.r) \in Spans
        /\ Width(LeftPart(p.r)) < Width(p.r) /\ Width(RightPart(p.r)) < Width(p.r)
    BY <2>1, <2>2, PartsAreSpans
  <2>4. k \in Nat /\ k < Width(p.r)
    BY <2>2, SplitType
  <2>5. Width(LeftPart(p.r)) = k /\ Width(RightPart(p.r)) = Width(p.r) - k
    <3>1. /\ LeftPart(p.r).start = p.r.start /\ LeftPart(p.r).end = p.r.start + k
          /\ RightPart(p.r).start = p.r.start + k /\ RightPart(p.r).end = p.r.end
      BY DEF LeftPart, RightPart, Span, Cut
    <3>2. p.r.start \in Nat /\ p.r.end \in Nat
      BY <2>1 DEF Spans
    <3> HIDE DEF k
    <3> QED BY <2>4, <3>1, <3>2 DEF Width
  <2>6. left = [m |-> p.m, r |-> LeftPart(p.r), b |-> p.b]
    BY <2>1
  <2>7. left.r = LeftPart(p.r) /\ right.r = RightPart(p.r)
    BY <2>6
  <2>8. p.m <= k => left \in FirstTrees
    BY <2>1, <2>3, <2>5, <2>6 DEF FirstTrees
  <2>9. ~(p.m <= k) => right \in FirstTrees
    BY <2>1, <2>2, <2>3, <2>4, <2>5 DEF FirstTrees
  <2> QED BY <2>3, <2>7, <2>8, <2>9 DEF SpotMeasure
<1>2. ASSUME NEW g, NEW h, NEW p \in FirstTrees,
             \A q \in FirstTrees : SpotMeasure(q) < SpotMeasure(p) => g[q] = h[q]
      PROVE  SubproofDef(g, p) = SubproofDef(h, p)
  <2>1. CASE p.m = Width(p.r)
    BY <2>1 DEF SubproofDef
  <2>2. CASE p.m # Width(p.r)
    BY <1>1, <1>2, <2>2 DEF SubproofDef
  <2> QED BY <2>1, <2>2
<1>3. \A p \in FirstTrees : SpotMeasure(p) \in Nat
  BY PartsAreSpans DEF SpotMeasure, FirstTrees
<1>4. Subproofs!WellDefined
  BY <1>2, <1>3 DEF Subproofs!WellDefined
<1>5. Subproof = CHOOSE g : g = [p \in FirstTrees |-> SubproofDef(g, p)]
  BY DEF Subproof, SubproofDef
<1> QED BY <1>4, <1>5, Subproofs!Recursion

\* The three cases of subproof.
PathFacts(log, s, n, m, b) ==
  /\ m = n => FirstPath(log, s, n, m, b) = IF b THEN <<>> ELSE <<Tree(log, s, n)>>
  /\ m < n /\ m <= Split(n) =>
       FirstPath(log, s, n, m, b)
         = Append(FirstPath(log, s, Split(n), m, b), Tree(log, s + Split(n), n - Split(n)))
  /\ m < n /\ m > Split(n) =>
       FirstPath(log, s, n, m, b)
         = Append(FirstPath(log, s + Split(n), n - Split(n), m - Split(n), FALSE),
                  Tree(log, s, Split(n)))

\* subproof by places and widths, with the root of the first tree or without
\* it.
LEMMA FirstPathEither ==
  ASSUME NEW log, NEW s, NEW n, In(log, s, n), NEW m \in 1 .. n, NEW b \in BOOLEAN
  PROVE  PathFacts(log, s, n, m, b)
<1> DEFINE r == Span(log, s, s + n)
           p == [m |-> m, r |-> r, b |-> b]
<1>1. r \in Spans /\ Width(r) = n
  BY SpanParts
<1>2. n > 1 => /\ LeftPart(r) = Span(log, s, s + Split(n))
               /\ RightPart(r) = Span(log, s + Split(n), s + Split(n) + (n - Split(n)))
  BY SpanParts
<1>3. s \in Nat /\ n \in Nat /\ m \in Nat /\ (m < n => n > 1)
  BY DEF In
<1>4. FirstPath(log, s, n, m, b) = Subproof[p] /\ Tree(log, s, n) = Mth[r]
  BY DEF FirstPath, Tree
<1> HIDE DEF r
<1>5. p \in FirstTrees
  BY <1>1, <1>3 DEF FirstTrees
<1>6. Subproof[p] = SubproofDef(Subproof, p)
  BY <1>5, SubproofEquation
<1>7. [p EXCEPT !.r = LeftPart(@)] = [m |-> m, r |-> LeftPart(r), b |-> b]
  OBVIOUS
<1>8. Subproof[p] =
        IF m = n THEN IF b THEN <<>> ELSE <<Mth[r]>>
        ELSE IF m <= Split(n)
             THEN Append(Subproof[[m |-> m, r |-> LeftPart(r), b |-> b]], Mth[RightPart(r)])
             ELSE Append(Subproof[[m |-> m - Split(n), r |-> RightPart(r), b |-> FALSE]],
                         Mth[LeftPart(r)])
  BY <1>1, <1>6, <1>7 DEF SubproofDef
<1>9. n > 1 => Split(n) \in Nat
  BY <1>3, SplitType
<1> HIDE DEF p
<1>10. CASE m = n
  <2>1. ~(m < n)
    BY <1>3, <1>10
  <2>2. FirstPath(log, s, n, m, b) = IF b THEN <<>> ELSE <<Tree(log, s, n)>>
    BY <1>4, <1>8, <1>10, Zenon
  <2> QED BY <1>10, <2>1, <2>2, Zenon DEF PathFacts
<1>11. CASE m < n
  BY <1>2, <1>3, <1>4, <1>8, <1>9, <1>11 DEF FirstPath, Tree, PathFacts
<1> QED BY <1>3, <1>10, <1>11

\* The proof with and without the first tree's own root.
WholePath(log, s, n, m) == FirstPath(log, s, n, m, FALSE)
ShortPath(log, s, n, m) == FirstPath(log, s, n, m, TRUE)

\* subproof without the shortcut: the first node is the first tree's last
\* complete subtree.
LEMMA WholePathFacts ==
  ASSUME NEW log, NEW s, NEW n, In(log, s, n), NEW m \in 1 .. n
  PROVE  /\ m = n => WholePath(log, s, n, m) = <<Tree(log, s, n)>>
         /\ m < n /\ m <= Split(n) =>
              WholePath(log, s, n, m)
                = Append(WholePath(log, s, Split(n), m), Tree(log, s + Split(n), n - Split(n)))
         /\ m < n /\ m > Split(n) =>
              WholePath(log, s, n, m)
                = Append(WholePath(log, s + Split(n), n - Split(n), m - Split(n)),
                         Tree(log, s, Split(n)))
<1>1. FALSE \in BOOLEAN
  OBVIOUS
<1>2. PathFacts(log, s, n, m, FALSE)
  BY <1>1, FirstPathEither, Zenon
<1> QED BY <1>2 DEF PathFacts, WholePath, ShortPath

\* subproof as consistencyProof starts it: the root of the first tree is left
\* out where the verifier knows it.
LEMMA ShortPathFacts ==
  ASSUME NEW log, NEW s, NEW n, In(log, s, n), NEW m \in 1 .. n
  PROVE  /\ m = n => ShortPath(log, s, n, m) = <<>>
         /\ m < n /\ m <= Split(n) =>
              ShortPath(log, s, n, m)
                = Append(ShortPath(log, s, Split(n), m), Tree(log, s + Split(n), n - Split(n)))
         /\ m < n /\ m > Split(n) =>
              ShortPath(log, s, n, m)
                = Append(WholePath(log, s + Split(n), n - Split(n), m - Split(n)),
                         Tree(log, s, Split(n)))
<1>1. TRUE \in BOOLEAN
  OBVIOUS
<1>2. PathFacts(log, s, n, m, TRUE)
  BY <1>1, FirstPathEither, Zenon
<1> QED BY <1>2 DEF PathFacts, WholePath, ShortPath

\* Both parts of a range lie in the log.
LEMMA PartsIn ==
  ASSUME NEW log, NEW s, NEW n, In(log, s, n), n > 1
  PROVE  /\ In(log, s, Split(n)) /\ In(log, s + Split(n), n - Split(n))
         /\ n \in Nat /\ s \in Nat
         /\ Split(n) \in Nat /\ 0 < Split(n) /\ Split(n) < n /\ n <= 2 * Split(n)
<1>1. n \in Nat /\ s \in Nat /\ s + n <= Len(log) /\ IsLog(log)
  BY DEF In
<1>2. Split(n) \in Nat /\ 0 < Split(n) /\ Split(n) < n /\ n <= 2 * Split(n)
  BY <1>1, SplitType
<1>3. Len(log) \in Nat
  BY <1>1 DEF IsLog
<1>4. /\ s + Split(n) \in Nat /\ n - Split(n) \in Nat
      /\ s + Split(n) <= Len(log) /\ (s + Split(n)) + (n - Split(n)) <= Len(log)
  BY <1>1, <1>2, <1>3
<1> QED BY <1>1, <1>2, <1>4 DEF In

\* A path of one node is a sequence.
LEMMA OneNode ==
  ASSUME NEW x
  PROVE  IsSequence(<<x>>) /\ Len(<<x>>) = 1
<1>1. <<x>> \in Seq({x})
  OBVIOUS
<1> QED BY <1>1 DEF IsSequence

-----------------------------------------------------------------------------
(* The climb through both trees.                                             *)

TreesAt(fr, sr, fn, sn) == [ok |-> TRUE, at |-> [fn |-> fn, sn |-> sn], fr |-> fr, sr |-> sr]
Seed(at, x) == [ok |-> TRUE, at |-> at, fr |-> x, sr |-> x]

IsTreesTrace(c, at, p) ==
  c = [i \in 1 .. Len(p) |-> IF i = 1 THEN Seed(at, p[1]) ELSE ClimbTrees(c[i - 1], p[i])]
TreesTrace(at, p) == CHOOSE c : IsTreesTrace(c, at, p)
TreesState(at, p) == TreesTrace(at, p)[Len(p)]

\* The states a climb through both trees passes exist, for a path of any
\* length.
LEMMA TreesTraceExists ==
  ASSUME NEW at, NEW p, Len(p) \in Nat
  PROVE  IsTreesTrace(TreesTrace(at, p), at, p)
<1> DEFINE To(c, n) ==
             c = [i \in 1 .. n |-> IF i = 1 THEN Seed(at, p[1]) ELSE ClimbTrees(c[i - 1], p[i])]
           Bad == {n \in Nat : ~ \E c : To(c, n)}
<1>1. ASSUME Bad # {} PROVE FALSE
  <2>1. PICK n \in Bad : \A m \in Bad : n <= m
    BY <1>1, Powers!LeastNumber
  <2>2. To([i \in 1 .. 0 |-> 0], 0)
    OBVIOUS
  <2>3. n # 0
    BY <2>1, <2>2
  <2>4. n \in Nat /\ n - 1 \in Nat /\ n - 1 \notin Bad
    <3> HIDE DEF To
    <3> QED BY <2>1, <2>3
  <2>5. PICK c : To(c, n - 1)
    BY <2>4
  <2> DEFINE d == [i \in 1 .. n |-> IF i = n
                                    THEN IF n = 1 THEN Seed(at, p[1]) ELSE ClimbTrees(c[n - 1], p[n])
                                    ELSE c[i]]
  <2>6. ASSUME NEW i \in 1 .. n
        PROVE  d[i] = IF i = 1 THEN Seed(at, p[1]) ELSE ClimbTrees(d[i - 1], p[i])
    <3>1. CASE i = n
      <4>1. n # 1 => d[i - 1] = c[n - 1]
        BY <3>1, <2>3, <2>4
      <4>2. d[i] = IF n = 1 THEN Seed(at, p[1]) ELSE ClimbTrees(c[n - 1], p[n])
        BY <3>1
      <4> HIDE DEF d
      <4> QED BY <3>1, <4>1, <4>2
    <3>2. CASE i # n
      <4>1. i \in 1 .. n - 1 /\ (i # 1 => i - 1 \in 1 .. n - 1)
        BY <3>2, <2>4
      <4>2. c[i] = IF i = 1 THEN Seed(at, p[1]) ELSE ClimbTrees(c[i - 1], p[i])
        BY <4>1, <2>5
      <4>3. d[i] = c[i] /\ (i # 1 => d[i - 1] = c[i - 1])
        BY <4>1, <3>2, <2>4
      <4> HIDE DEF d
      <4> QED BY <4>2, <4>3
    <3> QED BY <3>1, <3>2
  <2>7. To(d, n)
    BY <2>6
  <2> QED BY <2>1, <2>7
<1>2. \E c : IsTreesTrace(c, at, p)
  BY <1>1 DEF IsTreesTrace
<1> QED BY <1>2 DEF TreesTrace

\* The loop of verifyConsistency ends in the last of those states.
LEMMA TreesStateIsClimb ==
  ASSUME NEW first, NEW second, NEW p
  PROVE  TreesClimb(first, second, p)
           = TreesState(ShiftWhileOdd[[fn |-> first - 1, sn |-> second - 1]], p)
BY DEF TreesClimb, TreesState, TreesTrace, IsTreesTrace, Seed

\* Each state follows from the one before it by one turn of the loop.
LEMMA TreesTraceSteps ==
  ASSUME NEW at, NEW p, Len(p) \in Nat
  PROVE  \A i \in 1 .. Len(p) :
           TreesTrace(at, p)[i] =
             IF i = 1 THEN Seed(at, p[1]) ELSE ClimbTrees(TreesTrace(at, p)[i - 1], p[i])
<1> DEFINE c == TreesTrace(at, p)
<1>1. IsTreesTrace(c, at, p)
  BY TreesTraceExists
<1> HIDE DEF c
<1>2. ASSUME NEW i \in 1 .. Len(p)
      PROVE  c[i] = IF i = 1 THEN Seed(at, p[1]) ELSE ClimbTrees(c[i - 1], p[i])
  BY <1>1 DEF IsTreesTrace
<1> QED BY <1>2 DEF c

\* The climb starts with both hashes at the first node.
LEMMA TreesSeed ==
  ASSUME NEW at, NEW x
  PROVE  TreesState(at, <<x>>) = Seed(at, x)
<1>1. Len(<<x>>) = 1 /\ 1 \in 1 .. 1 /\ <<x>>[1] = x
  OBVIOUS
<1>2. TreesTrace(at, <<x>>)[1] = Seed(at, <<x>>[1])
  BY <1>1, TreesTraceSteps
<1> QED BY <1>1, <1>2 DEF TreesState

\* A climb along a longer path is the climb along the shorter one and one more
\* turn.
LEMMA TreesNext ==
  ASSUME NEW at, NEW p, IsSequence(p), Len(p) > 0, NEW x
  PROVE  TreesState(at, Append(p, x)) = ClimbTrees(TreesState(at, p), x)
<1> DEFINE q == Append(p, x)
           n == Len(p)
           c == TreesTrace(at, p)
           d == TreesTrace(at, q)
           Bad == {i \in Nat : 0 < i /\ i <= n /\ c[i] # d[i]}
<1>2. /\ n \in Nat /\ Len(q) = n + 1 /\ q[n + 1] = x
      /\ \A i \in 1 .. n : q[i] = p[i]
  BY SequenceFacts
<1>6. n > 0
  OBVIOUS
<1> HIDE DEF q, n
<1>3. /\ \A i \in 1 .. n : c[i] = IF i = 1 THEN Seed(at, p[1]) ELSE ClimbTrees(c[i - 1], p[i])
      /\ \A i \in 1 .. n + 1 : d[i] = IF i = 1 THEN Seed(at, q[1]) ELSE ClimbTrees(d[i - 1], q[i])
  BY <1>2, TreesTraceSteps DEF n
<1> HIDE DEF c, d
<1>4. ASSUME Bad # {} PROVE FALSE
  <2>1. PICK i \in Bad : \A j \in Bad : i <= j
    BY <1>4, Powers!LeastNumber
  <2>2. i \in 1 .. n /\ i \in 1 .. n + 1 /\ 1 \in 1 .. n
    BY <1>2, <2>1
  <2>3. CASE i = 1
    BY <1>2, <1>3, <2>1, <2>2, <2>3
  <2>4. CASE i # 1
    <3>1. i - 1 \in Nat /\ i - 1 \notin Bad /\ 0 < i - 1 /\ i - 1 <= n
      BY <1>2, <2>1, <2>2, <2>4
    <3>2. c[i - 1] = d[i - 1]
      BY <3>1
    <3> QED BY <1>2, <1>3, <2>1, <2>2, <2>4, <3>2
  <2> QED BY <2>3, <2>4
<1>5. d[n + 1] = ClimbTrees(c[n], x)
  <2>1. n + 1 \in 1 .. n + 1 /\ (n + 1) - 1 = n /\ n + 1 # 1
    BY <1>2, <1>6
  <2>2. c[n] = d[n]
    BY <1>2, <1>4, <1>6
  <2> QED BY <1>2, <1>3, <2>1, <2>2
<1> QED BY <1>2, <1>5 DEF TreesState, c, d, n, q

\* From the last leaf of a complete range at an even place, the shifts end at
\* the range's node.
LEMMA OddRun ==
  ASSUME NEW q \in Nat, ~ Odd(q), NEW c \in Nat, NEW sn \in Nat
  PROVE  \E t : /\ IsShift(t, sn, c)
                /\ ShiftWhileOdd[[fn |-> q * Power[c] + (Power[c] - 1), sn |-> sn]]
                     = [fn |-> q, sn |-> t]
<1> DEFINE Run(e) == \A y \in Nat : \E t :
                       /\ IsShift(t, y, e)
                       /\ ShiftWhileOdd[[fn |-> q * Power[e] + (Power[e] - 1), sn |-> y]]
                            = [fn |-> q, sn |-> t]
           Bad == {e \in Nat : ~ Run(e)}
<1>1. SUFFICES ASSUME Bad # {} PROVE FALSE
  OBVIOUS
<1>2. PICK e \in Bad : \A f \in Bad : e <= f
  BY <1>1, Powers!LeastNumber
<1>3. Run(0)
  <2>1. SUFFICES ASSUME NEW y \in Nat
                 PROVE  /\ IsShift(y, y, 0)
                        /\ ShiftWhileOdd[[fn |-> q * Power[0] + (Power[0] - 1), sn |-> y]]
                             = [fn |-> q, sn |-> y]
    OBVIOUS
  <2>2. q * Power[0] + (Power[0] - 1) = q /\ IsShift(y, y, 0)
    BY PowerFacts DEF IsShift
  <2>3. [fn |-> q, sn |-> y] \in Places
    BY DEF Places
  <2> QED BY <2>2, <2>3, OddStep
<1>4. e # 0
  BY <1>2, <1>3
<1> DEFINE f == e - 1
<1>5. f \in Nat /\ f \notin Bad /\ e = f + 1
  <2> HIDE DEF Run
  <2> QED BY <1>2, <1>4
<1> HIDE DEF f
<1>6. Run(f)
  BY <1>5
<1> DEFINE x == q * Power[f] + (Power[f] - 1)
<1>7. x \in Nat /\ q * Power[e] + (Power[e] - 1) = 2 * x + 1
  <2>1. Power[e] = 2 * Power[f] /\ Power[f] \in Nat /\ Power[f] > 0
    BY <1>5, PowerFacts
  <2>2. q * Power[f] \in Nat /\ q * (2 * Power[f]) = 2 * (q * Power[f])
    <3>1. \A u, v \in Nat : u * v \in Nat /\ u * (2 * v) = 2 * (u * v)
      OBVIOUS
    <3> QED BY <2>1, <3>1
  <2> QED BY <2>1, <2>2
<1>8. ASSUME NEW y \in Nat
      PROVE  \E t : /\ IsShift(t, y, e)
                    /\ ShiftWhileOdd[[fn |-> 2 * x + 1, sn |-> y]] = [fn |-> q, sn |-> t]
  <2> DEFINE z == y \div 2
  <2>1. z \in Nat /\ (y = 2 * z \/ y = 2 * z + 1)
    OBVIOUS
  <2>2. PICK t : /\ IsShift(t, z, f)
                 /\ ShiftWhileOdd[[fn |-> x, sn |-> z]] = [fn |-> q, sn |-> t]
    BY <1>6, <2>1
  <2> HIDE DEF x
  <2>3. ShiftWhileOdd[[fn |-> 2 * x + 1, sn |-> y]] = ShiftWhileOdd[[fn |-> x, sn |-> z]]
    <3>1. [fn |-> 2 * x + 1, sn |-> y] \in Places
      BY <1>7 DEF Places
    <3>2. Odd(2 * x + 1) /\ Shifted([fn |-> 2 * x + 1, sn |-> y]) = [fn |-> x, sn |-> z]
      BY <1>7 DEF Odd, Shifted
    <3> QED BY <3>1, <3>2, OddStep
  <2> HIDE DEF z
  <2>4. IsShift(t, y, e)
    <3>1. Power[e] = 2 * Power[f] /\ Power[f] \in Nat /\ Power[f] > 0
      BY <1>5, PowerFacts
    <3>2. t \in Nat /\ t * Power[f] <= z /\ z < (t + 1) * Power[f]
      BY <2>2 DEF IsShift
    <3>3. /\ t * Power[f] \in Nat /\ (t + 1) * Power[f] = t * Power[f] + Power[f]
          /\ t * Power[e] = 2 * (t * Power[f])
          /\ (t + 1) * Power[e] = 2 * (t * Power[f]) + 2 * Power[f]
      <4>1. \A u, v \in Nat : /\ u * v \in Nat /\ u * (2 * v) = 2 * (u * v)
                              /\ (u + 1) * v = u * v + v
                              /\ (u + 1) * (2 * v) = 2 * (u * v) + 2 * v
        OBVIOUS
      <4> QED BY <3>1, <3>2, <4>1
    <3> DEFINE w == t * Power[f]
    <3> HIDE DEF w
    <3>4. w \in Nat /\ w <= z /\ z < w + Power[f]
      BY <3>2, <3>3 DEF w
    <3>5. 2 * w <= y /\ y < 2 * w + 2 * Power[f]
      BY <2>1, <3>1, <3>4
    <3> QED BY <3>2, <3>3, <3>5 DEF IsShift, w
  <2> QED BY <2>2, <2>3, <2>4
<1>9. Run(e)
  <2> HIDE DEF x
  <2> QED BY <1>7, <1>8
<1> QED BY <1>2, <1>9

\* The climb of the nodes of a consistency proof in a range of n leaves ends at
\* the range's node, with the hashes of its first m leaves and of all of them.
BothEnd(log, s, n, c, q, sn, m) ==
  LET path == WholePath(log, s, n, m)
      start == ShiftWhileOdd[[fn |-> q * Power[c] + (m - 1), sn |-> sn]]
  IN /\ IsSequence(path) /\ Len(path) > 0
     /\ \E t : /\ IsShift(t, sn, c)
               /\ TreesState(start, path) = TreesAt(Tree(log, s, m), Tree(log, s, n), q, t)

BothClimb(n) ==
  \A log, s, c, q, sn, m :
    /\ In(log, s, n) /\ Fits(n, c) /\ q \in Nat /\ sn \in Nat /\ Under(n, c, q, sn)
    /\ m \in 1 .. n /\ (m < n \/ (n = Power[c] /\ ~ Odd(q)))
    => BothEnd(log, s, n, c, q, sn, m)

\* Every consistency proof climbs to the nodes of both trees: by the least
\* width for which it would not.
LEMMA AllBothClimb == \A n \in Nat : BothClimb(n)
<1> DEFINE Bad == {n \in Nat : ~ BothClimb(n)}
<1>1. SUFFICES ASSUME Bad # {} PROVE FALSE
  OBVIOUS
<1>2. PICK n \in Bad : \A l \in Bad : n <= l
  BY <1>1, Powers!LeastNumber
<1>3. n \in Nat /\ ~ BothClimb(n) /\ \A l \in Nat : l < n => BothClimb(l)
  BY <1>2
<1> HIDE DEF Bad
<1>4. SUFFICES ASSUME NEW log, NEW s, NEW c, NEW q, NEW sn, NEW m,
                      In(log, s, n), Fits(n, c), q \in Nat, sn \in Nat, Under(n, c, q, sn),
                      m \in 1 .. n, m < n \/ (n = Power[c] /\ ~ Odd(q))
               PROVE  BothEnd(log, s, n, c, q, sn, m)
  BY <1>3 DEF BothClimb
<1> DEFINE whole == WholePath(log, s, n, m)
           start == ShiftWhileOdd[[fn |-> q * Power[c] + (m - 1), sn |-> sn]]
<1>5. s \in Nat /\ m \in Nat /\ m >= 1 /\ c \in Nat
  BY <1>3, <1>4 DEF In, Fits
<1>6. CASE m = n
  <2>1. n = Power[c] /\ ~ Odd(q)
    BY <1>3, <1>4, <1>6
  <2>2. PICK t : IsShift(t, sn, c) /\ start = [fn |-> q, sn |-> t]
    <3>1. q * Power[c] + (m - 1) = q * Power[c] + (Power[c] - 1)
      BY <1>6, <2>1
    <3>2. start = ShiftWhileOdd[[fn |-> q * Power[c] + (Power[c] - 1), sn |-> sn]]
      BY <3>1
    <3> HIDE DEF start
    <3> QED BY <1>4, <1>5, <2>1, <3>2, OddRun
  <2>3. whole = <<Tree(log, s, n)>>
    BY <1>4, <1>6, WholePathFacts
  <2> HIDE DEF whole, start
  <2>4. TreesState(start, whole) = TreesAt(Tree(log, s, m), Tree(log, s, n), q, t)
    <3>1. TreesState(start, <<Tree(log, s, n)>>) = Seed(start, Tree(log, s, n))
      BY TreesSeed
    <3> QED BY <1>6, <2>2, <2>3, <3>1 DEF TreesAt, Seed
  <2>5. IsSequence(whole) /\ Len(whole) > 0
    BY <2>3, OneNode
  <2> QED BY <2>2, <2>4, <2>5 DEF BothEnd, whole, start
<1>7. CASE m < n
  <2> DEFINE k == Split(n)
  <2>0. n > 1
    BY <1>3, <1>5, <1>7
  <2>1. PICK h, d, b \in Nat :
           /\ c = h + 1 /\ k = Power[h] /\ Fits(k, h) /\ Fits(n - k, b)
           /\ h = b + d
           /\ q * Power[c] = (2 * q) * Power[h]
           /\ q * Power[c] + k = (2 * q + 1) * Power[h]
           /\ (2 * q + 1) * Power[h] = ((2 * q + 1) * Power[d]) * Power[b]
           /\ Under(k, h, 2 * q, sn)
           /\ Under(n - k, b, (2 * q + 1) * Power[d], sn)
           /\ (2 * q + 1) * Power[h] <= sn
           /\ n = Power[c] => d = 0 /\ b = h
           /\ n # Power[c] => sn = q * Power[c] + (n - 1)
    BY <1>4, <2>0, PartsUnder
  <2>2. k \in Nat /\ 0 < k /\ k < n /\ n <= 2 * k
    BY <1>4, <2>0, PartsIn
  <2>3. In(log, s, k) /\ In(log, s + k, n - k)
    BY <1>4, <2>0, PartsIn
  <2>4. Tree(log, s, n) = HashChildren(Tree(log, s, k), Tree(log, s + k, n - k))
    BY <1>4, <2>0, TreeFacts
  <2> HIDE DEF start
  <2>5. CASE m <= k
    <3> DEFINE path == WholePath(log, s, k, m)
               x == Tree(log, s + k, n - k)
    <3>1. whole = Append(path, x)
      BY <1>4, <1>7, <2>5, WholePathFacts
    <3> HIDE DEF k
    <3>2. BothClimb(k) /\ m \in 1 .. k /\ 2 * q \in Nat /\ ~ Odd(2 * q) /\ (m < k \/ k = Power[h])
      BY <1>3, <1>4, <1>5, <2>1, <2>2, <2>5 DEF Odd
    <3>3. /\ IsSequence(path) /\ Len(path) > 0
          /\ \E t : /\ IsShift(t, sn, h)
                    /\ TreesState(ShiftWhileOdd[[fn |-> (2 * q) * Power[h] + (m - 1), sn |-> sn]],
                                  path)
                         = TreesAt(Tree(log, s, m), Tree(log, s, k), 2 * q, t)
      <4>1. BothEnd(log, s, k, h, 2 * q, sn, m)
        BY <1>4, <2>1, <2>3, <3>2 DEF BothClimb
      <4> QED BY <4>1 DEF BothEnd
    <3>4. PICK t : /\ IsShift(t, sn, h)
                   /\ TreesState(start, path) = TreesAt(Tree(log, s, m), Tree(log, s, k), 2 * q, t)
      BY <2>1, <3>3 DEF start
    <3>5. t \in Nat /\ t > 2 * q /\ IsShift(t \div 2, sn, c)
      BY <1>4, <2>1, <3>4, AfterLeft
    <3>6. ClimbTrees(TreesAt(Tree(log, s, m), Tree(log, s, k), 2 * q, t), x)
            = TreesAt(Tree(log, s, m), HashChildren(Tree(log, s, k), x), q, t \div 2)
      <4>1. /\ ~ FromLeft([fn |-> 2 * q, sn |-> t])
            /\ Up([fn |-> 2 * q, sn |-> t]) = [fn |-> q, sn |-> t \div 2]
        BY <1>4, <3>5, UpFromRight
      <4>2. t # 0
        BY <1>4, <3>5
      <4> QED BY <4>1, <4>2 DEF ClimbTrees, TreesAt
    <3>7. TreesState(start, Append(path, x))
            = TreesAt(Tree(log, s, m), Tree(log, s, n), q, t \div 2)
      <4> HIDE DEF path, x
      <4>1. IsSequence(path) /\ Len(path) > 0
        BY <3>3
      <4>2. TreesState(start, Append(path, x)) = ClimbTrees(TreesState(start, path), x)
        BY <4>1, TreesNext
      <4> QED BY <2>4, <3>4, <3>6, <4>2 DEF x
    <3>8. IsSequence(Append(path, x)) /\ Len(Append(path, x)) > 0
      <4> HIDE DEF path, x
      <4> QED BY <3>3, SequenceFacts
    <3> HIDE DEF whole, path, x
    <3> QED BY <3>1, <3>5, <3>7, <3>8 DEF BothEnd, start, whole
  <2>6. CASE m > k
    <3> DEFINE path == WholePath(log, s + k, n - k, m - k)
               x == Tree(log, s, k)
               p == (2 * q + 1) * Power[d]
    <3>1. whole = Append(path, x)
      BY <1>4, <1>7, <2>6, WholePathFacts
    <3>2. Tree(log, s, m) = HashChildren(x, Tree(log, s + k, m - k))
      <4>1. Split(m) = k
        BY <1>3, <1>5, <1>7, <2>0, <2>2, <2>6, SplitSame
      <4>2. In(log, s, m) /\ m > 1
        BY <1>3, <1>4, <1>5, <1>7, <2>2, <2>6 DEF In
      <4> QED BY <4>1, <4>2, TreeFacts
    <3> HIDE DEF k
    <3>3. BothClimb(n - k) /\ m - k \in 1 .. n - k /\ m - k < n - k
      <4>1. n - k \in Nat /\ n - k < n
        BY <1>3, <2>2
      <4> QED BY <1>3, <1>5, <1>7, <2>2, <2>6, <4>1
    <3>4. p \in Nat
      <4>1. \A u, v \in Nat : u * v \in Nat
        OBVIOUS
      <4>2. 2 * q + 1 \in Nat
        BY <1>4
      <4> QED BY <4>1, <4>2, PowerType
    <3>5. q * Power[c] + (m - 1) = p * Power[b] + ((m - k) - 1)
      <4>1. q * Power[c] + k = p * Power[b]
        BY <2>1
      <4>2. q * Power[c] \in Nat
        BY <1>4, <2>1, Multiples, PowerType
      <4> HIDE DEF p
      <4> QED BY <1>5, <2>2, <4>1, <4>2
    <3>6. /\ IsSequence(path) /\ Len(path) > 0
          /\ \E t : /\ IsShift(t, sn, b)
                    /\ TreesState(ShiftWhileOdd[[fn |-> p * Power[b] + ((m - k) - 1), sn |-> sn]],
                                  path)
                         = TreesAt(Tree(log, s + k, m - k), Tree(log, s + k, n - k), p, t)
      <4>1. Under(n - k, b, p, sn) /\ Fits(n - k, b)
        BY <2>1
      <4> HIDE DEF p
      <4>2. BothEnd(log, s + k, n - k, b, p, sn, m - k)
        BY <1>4, <2>3, <3>3, <3>4, <4>1 DEF BothClimb
      <4> QED BY <4>2 DEF BothEnd
    <3>7. PICK t : /\ IsShift(t, sn, b)
                   /\ TreesState(start, path)
                        = TreesAt(Tree(log, s + k, m - k), Tree(log, s + k, n - k), p, t)
      <4> HIDE DEF p
      <4> QED BY <3>5, <3>6 DEF start
    <3> DEFINE u == IF d = 0 THEN t \div 2 ELSE q
    <3>8. t \in Nat /\ t # 0 /\ (d = 0 \/ t = p) /\ IsShift(u, sn, c)
      BY <1>4, <2>0, <2>1, <3>7, AfterRight DEF k
    <3>9. ClimbTrees(TreesAt(Tree(log, s + k, m - k), Tree(log, s + k, n - k), p, t), x)
            = TreesAt(HashChildren(x, Tree(log, s + k, m - k)),
                      HashChildren(x, Tree(log, s + k, n - k)), q, u)
      <4>1. /\ FromLeft([fn |-> p, sn |-> t])
            /\ Up([fn |-> p, sn |-> t]) = [fn |-> q, sn |-> u]
        BY <1>4, <3>8, UpFromLeft
      <4> HIDE DEF p, u
      <4> QED BY <3>8, <4>1 DEF ClimbTrees, TreesAt
    <3> HIDE DEF p, u
    <3>10. TreesState(start, Append(path, x)) = TreesAt(Tree(log, s, m), Tree(log, s, n), q, u)
      <4> HIDE DEF path, x
      <4>1. IsSequence(path) /\ Len(path) > 0
        BY <3>6
      <4>2. TreesState(start, Append(path, x)) = ClimbTrees(TreesState(start, path), x)
        BY <4>1, TreesNext
      <4> QED BY <2>4, <3>2, <3>7, <3>9, <4>2 DEF x
    <3>11. IsSequence(Append(path, x)) /\ Len(Append(path, x)) > 0
      <4> HIDE DEF path, x
      <4> QED BY <3>6, SequenceFacts
    <3> HIDE DEF whole, path, x
    <3> QED BY <3>1, <3>8, <3>10, <3>11 DEF BothEnd, start, whole
  <2> QED BY <1>5, <2>2, <2>5, <2>6
<1> QED BY <1>3, <1>4, <1>5, <1>6, <1>7

\* A proof for a first tree that is a power of two leaves out that tree's root.
LeavesOutRoot(n) ==
  \A log, s, m :
    /\ In(log, s, n) /\ m \in 1 .. n
    => WholePath(log, s, n, m) =
         IF m = n \/ IsPowerOfTwo(m)
         THEN <<Tree(log, s, m)>> \o ShortPath(log, s, n, m)
         ELSE ShortPath(log, s, n, m)

\* A node before a path stays before it when the path grows at its end.
LEMMA PrefixAppend ==
  ASSUME NEW x, NEW p, IsSequence(p), NEW y
  PROVE  /\ <<x>> \o Append(p, y) = Append(<<x>> \o p, y)
         /\ <<x>> \o <<>> = <<x>>
<1>1. PICK S : p \in Seq(S)
  BY DEF IsSequence
<1> DEFINE T == S \cup {x, y}
<1>2. p \in Seq(T) /\ x \in T /\ y \in T
  <2>1. DOMAIN p = 1 .. Len(p) /\ Len(p) \in Nat
    BY <1>1
  <2>2. \A i \in 1 .. Len(p) : p[i] \in T
    BY <1>1, <2>1
  <2>3. p = [i \in 1 .. Len(p) |-> p[i]]
    BY <1>1
  <2>4. p \in [1 .. Len(p) -> T]
    <3> HIDE DEF T
    <3> QED BY <2>2, <2>3
  <2> QED BY <2>1, <2>4, SeqDef
<1> HIDE DEF T
<1>3. <<x>> \in Seq(T)
  BY <1>2
<1>4. <<x>> \o Append(p, y) = Append(<<x>> \o p, y)
  BY <1>2, <1>3
<1>5. <<x>> \o <<>> = <<x>>
  BY <1>3
<1> QED BY <1>4, <1>5

\* What subproof returns is a sequence.
LEMMA PathsAreSequences ==
  \A n \in Nat : \A log, s, m :
    In(log, s, n) /\ m \in 1 .. n =>
      IsSequence(WholePath(log, s, n, m)) /\ IsSequence(ShortPath(log, s, n, m))
<1> DEFINE Good(n) == \A log, s, m :
                        In(log, s, n) /\ m \in 1 .. n =>
                          IsSequence(WholePath(log, s, n, m)) /\ IsSequence(ShortPath(log, s, n, m))
           Bad == {n \in Nat : ~ Good(n)}
<1>1. SUFFICES ASSUME Bad # {} PROVE FALSE
  OBVIOUS
<1>2. PICK n \in Bad : \A l \in Bad : n <= l
  BY <1>1, Powers!LeastNumber
<1>3. n \in Nat /\ ~ Good(n) /\ \A l \in Nat : l < n => Good(l)
  <2> HIDE DEF Good
  <2> QED BY <1>2
<1> HIDE DEF Bad
<1>4. SUFFICES ASSUME NEW log, NEW s, NEW m, In(log, s, n), m \in 1 .. n
               PROVE  IsSequence(WholePath(log, s, n, m)) /\ IsSequence(ShortPath(log, s, n, m))
  BY <1>3
<1> HIDE DEF Good
<1>5. CASE m = n
  BY <1>4, <1>5, WholePathFacts, ShortPathFacts, OneNode, EmptySequence
<1>6. CASE m # n
  <2> DEFINE k == Split(n)
  <2>1. n > 1 /\ m < n
    BY <1>3, <1>4, <1>6
  <2>2. /\ In(log, s, k) /\ In(log, s + k, n - k)
        /\ k \in Nat /\ 0 < k /\ k < n
    BY <1>4, <2>1, PartsIn
  <2>3. CASE m <= k
    <3> DEFINE x == Tree(log, s + k, n - k)
    <3>1. /\ WholePath(log, s, n, m) = Append(WholePath(log, s, k, m), x)
          /\ ShortPath(log, s, n, m) = Append(ShortPath(log, s, k, m), x)
      BY <1>4, <2>1, <2>3, WholePathFacts, ShortPathFacts
    <3> HIDE DEF k, x
    <3>2. Good(k) /\ m \in 1 .. k
      BY <1>3, <1>4, <2>2, <2>3
    <3>3. IsSequence(WholePath(log, s, k, m)) /\ IsSequence(ShortPath(log, s, k, m))
      BY <2>2, <3>2 DEF Good
    <3> QED BY <3>1, <3>3, SequenceFacts
  <2>4. CASE m > k
    <3> DEFINE path == WholePath(log, s + k, n - k, m - k)
    <3>1. /\ WholePath(log, s, n, m) = Append(path, Tree(log, s, k))
          /\ ShortPath(log, s, n, m) = Append(path, Tree(log, s, k))
      BY <1>4, <2>1, <2>4, WholePathFacts, ShortPathFacts
    <3> HIDE DEF k
    <3>2. Good(n - k) /\ m - k \in 1 .. n - k
      <4>1. n - k \in Nat /\ n - k < n
        BY <1>3, <2>2
      <4> QED BY <1>3, <1>4, <2>1, <2>2, <2>4, <4>1
    <3>3. IsSequence(path)
      BY <2>2, <3>2 DEF Good
    <3> HIDE DEF path
    <3> QED BY <3>1, <3>3, SequenceFacts
  <2> QED BY <1>3, <1>4, <2>2, <2>3, <2>4
<1> QED BY <1>5, <1>6

\* subproof leaves out its first node exactly where the size of the first tree
\* is a power of two: there verifyConsistency puts the first root in front.
LEMMA RootLeftOut == \A n \in Nat : LeavesOutRoot(n)
<1> DEFINE Bad == {n \in Nat : ~ LeavesOutRoot(n)}
<1>1. SUFFICES ASSUME Bad # {} PROVE FALSE
  OBVIOUS
<1>2. PICK n \in Bad : \A l \in Bad : n <= l
  BY <1>1, Powers!LeastNumber
<1>3. n \in Nat /\ ~ LeavesOutRoot(n) /\ \A l \in Nat : l < n => LeavesOutRoot(l)
  BY <1>2
<1> HIDE DEF Bad
<1>4. SUFFICES ASSUME NEW log, NEW s, NEW m, In(log, s, n), m \in 1 .. n
               PROVE  WholePath(log, s, n, m) =
                        IF m = n \/ IsPowerOfTwo(m)
                        THEN <<Tree(log, s, m)>> \o ShortPath(log, s, n, m)
                        ELSE ShortPath(log, s, n, m)
  BY <1>3 DEF LeavesOutRoot
<1>5. CASE m = n
  <2>1. WholePath(log, s, n, m) = <<Tree(log, s, m)>> /\ ShortPath(log, s, n, m) = <<>>
    BY <1>4, <1>5, WholePathFacts, ShortPathFacts
  <2>2. <<Tree(log, s, m)>> \o <<>> = <<Tree(log, s, m)>>
    BY PrefixAppend, EmptySequence
  <2> QED BY <1>5, <2>1, <2>2
<1>6. CASE m # n
  <2> DEFINE k == Split(n)
  <2>1. n > 1 /\ m < n /\ m \in Nat /\ m > 0
    BY <1>3, <1>4, <1>6
  <2>2. k \in Nat /\ 0 < k /\ k < n /\ n <= 2 * k
    BY <1>4, <2>1, PartsIn
  <2>3. In(log, s, k)
    BY <1>4, <2>1, PartsIn
  <2>4. CASE m <= k
    <3> DEFINE x == Tree(log, s + k, n - k)
    <3>1. /\ WholePath(log, s, n, m) = Append(WholePath(log, s, k, m), x)
          /\ ShortPath(log, s, n, m) = Append(ShortPath(log, s, k, m), x)
      BY <1>4, <2>1, <2>4, WholePathFacts, ShortPathFacts
    <3>2. m = k => IsPowerOfTwo(m)
      <4>1. PICK h \in Nat : k = Power[h]
        BY <1>3, <2>1, SplitIsPower
      <4> QED BY <4>1, TwicePower
    <3> HIDE DEF k
    <3>3. LeavesOutRoot(k) /\ m \in 1 .. k
      BY <1>3, <1>4, <2>2, <2>4
    <3>4. WholePath(log, s, k, m) =
            IF IsPowerOfTwo(m)
            THEN <<Tree(log, s, m)>> \o ShortPath(log, s, k, m)
            ELSE ShortPath(log, s, k, m)
      BY <2>3, <3>2, <3>3 DEF LeavesOutRoot
    <3>5. IsSequence(ShortPath(log, s, k, m))
      BY <2>2, <2>3, <3>3, PathsAreSequences
    <3> HIDE DEF x
    <3>6. CASE IsPowerOfTwo(m)
      <4>1. <<Tree(log, s, m)>> \o ShortPath(log, s, n, m)
              = Append(<<Tree(log, s, m)>> \o ShortPath(log, s, k, m), x)
        BY <3>1, <3>5, PrefixAppend
      <4> QED BY <3>1, <3>4, <3>6, <4>1
    <3>7. CASE ~ IsPowerOfTwo(m)
      BY <1>6, <3>1, <3>4, <3>7
    <3> QED BY <3>6, <3>7
  <2>5. CASE m > k
    <3>1. WholePath(log, s, n, m) = ShortPath(log, s, n, m)
      BY <1>4, <2>1, <2>5, WholePathFacts, ShortPathFacts
    <3>2. Split(m) = k
      BY <1>3, <2>1, <2>2, <2>5, SplitSame
    <3>3. ~ IsPowerOfTwo(m)
      <4> HIDE DEF k
      <4> QED BY <1>3, <2>1, <2>2, <2>5, <3>2 DEF IsPowerOfTwo
    <3> QED BY <1>6, <3>1, <3>3
  <2> QED BY <1>3, <2>1, <2>2, <2>4, <2>5
<1> QED BY <1>5, <1>6

\* Where a verifier starts, and the nodes it climbs with.
Start(first, second) == ShiftWhileOdd[[fn |-> first - 1, sn |-> second - 1]]
Nodes(first, root, path) == IF IsPowerOfTwo(first) THEN <<root>> \o path ELSE path

\* verifyConsistency climbs the nodes of the proof, after the first root where
\* that is left out.
LEMMA BothTreesIsState ==
  ASSUME NEW first, NEW root, NEW second, NEW path
  PROVE  BothTrees(first, root, second, path) =
           IF Nodes(first, root, path) = <<>> THEN [ok |-> FALSE]
           ELSE TreesState(Start(first, second), Nodes(first, root, path))
<1>1. \A p : TreesClimb(first, second, p) = TreesState(Start(first, second), p)
  BY TreesStateIsClimb DEF Start
<1> QED BY <1>1 DEF BothTrees, Nodes

\* Those nodes are a sequence.
LEMMA NodesAreSequence ==
  ASSUME NEW first, NEW root, NEW path, IsSequence(path)
  PROVE  /\ IsSequence(Nodes(first, root, path))
         /\ Nodes(first, root, path) # <<>> => Len(Nodes(first, root, path)) > 0
<1>1. IsSequence(<<root>> \o path)
  <2>1. PICK S : path \in Seq(S)
    BY DEF IsSequence
  <2> DEFINE T == S \cup {root}
  <2>2. path \in Seq(T) /\ root \in T
    <3>1. DOMAIN path = 1 .. Len(path) /\ Len(path) \in Nat
      BY <2>1
    <3>2. \A i \in 1 .. Len(path) : path[i] \in T
      BY <2>1, <3>1
    <3>3. path = [i \in 1 .. Len(path) |-> path[i]]
      BY <2>1
    <3>4. path \in [1 .. Len(path) -> T]
      <4> HIDE DEF T
      <4> QED BY <3>2, <3>3
    <3> QED BY <3>1, <3>4, SeqDef
  <2> HIDE DEF T
  <2>3. <<root>> \o path \in Seq(T)
    BY <2>2
  <2> QED BY <2>3 DEF IsSequence
<1>2. IsSequence(Nodes(first, root, path))
  BY <1>1 DEF Nodes
<1>3. \A q : IsSequence(q) /\ q # <<>> => Len(q) > 0
  BY DEF IsSequence
<1> QED BY <1>2, <1>3

\* The served proof: the climb ends at the root, with both roots.
LEMMA ServedConsistency ==
  ASSUME NEW log \in Seq(Int), NEW second \in 1 .. Len(log), NEW first \in 1 .. second - 1
  PROVE  LET path == ConsistencyProof(log, first, second)
             nodes == Nodes(first, RootAt(log, first), path)
         IN /\ IsSequence(path) /\ IsSequence(nodes) /\ Len(nodes) > 0 /\ nodes # <<>>
            /\ TreesState(Start(first, second), nodes)
                 = TreesAt(RootAt(log, first), RootAt(log, second), 0, 0)
<1>1. /\ Len(log) \in Nat /\ second \in Nat /\ first \in Nat /\ second > 0 /\ second - 1 \in Nat
      /\ first \in 1 .. second /\ first < second /\ first # 0 /\ first # second
  OBVIOUS
<1>2. PICK c \in Nat : Fits(second, c)
  BY <1>1, FitsExists
<1>3. In(log, 0, second)
  BY <1>1 DEF In, IsLog
<1>4. 0 * Power[c] = 0 /\ (0 + 1) * Power[c] = Power[c] /\ Power[c] \in Nat
  BY PowerType
<1>5. Under(second, c, 0, second - 1)
  BY <1>1, <1>4 DEF Under
<1> DEFINE path == ConsistencyProof(log, first, second)
           nodes == Nodes(first, RootAt(log, first), path)
<1>6. RootAt(log, first) = Tree(log, 0, first) /\ RootAt(log, second) = Tree(log, 0, second)
  <2>1. 0 + first = first /\ 0 + second = second
    BY <1>1
  <2> QED BY <2>1 DEF RootAt, Tree
<1>7. path = ShortPath(log, 0, second, first)
  <2>1. 0 + second = second
    BY <1>1
  <2> QED BY <1>1, <2>1 DEF ConsistencyProof, ShortPath, FirstPath
<1> HIDE DEF path
<1>8. nodes = WholePath(log, 0, second, first)
  <2>1. LeavesOutRoot(second)
    BY <1>1, RootLeftOut
  <2> QED BY <1>1, <1>3, <1>6, <1>7, <2>1 DEF LeavesOutRoot, Nodes
<1> HIDE DEF nodes
<1>9. IsSequence(path)
  BY <1>1, <1>3, <1>7, PathsAreSequences
<1>10. BothEnd(log, 0, second, c, 0, second - 1, first)
  BY <1>1, <1>2, <1>3, <1>5, AllBothClimb DEF BothClimb
<1>11. PICK t : /\ IsShift(t, second - 1, c)
                /\ TreesState(ShiftWhileOdd[[fn |-> 0 * Power[c] + (first - 1), sn |-> second - 1]],
                              nodes)
                     = TreesAt(Tree(log, 0, first), Tree(log, 0, second), 0, t)
  BY <1>8, <1>10 DEF BothEnd
<1>12. t = 0
  <2>1. second - 1 < (0 + 1) * Power[c] /\ 0 * Power[c] <= second - 1
    BY <1>1, <1>2, <1>4 DEF Fits
  <2> QED BY <1>1, <1>11, <2>1, ShiftUnique
<1>13. 0 * Power[c] + (first - 1) = first - 1
  BY <1>1, <1>4
<1>14. TreesState(Start(first, second), nodes)
         = TreesAt(RootAt(log, first), RootAt(log, second), 0, 0)
  BY <1>6, <1>11, <1>12, <1>13 DEF Start
<1>15. IsSequence(nodes) /\ Len(nodes) > 0
  BY <1>8, <1>10 DEF BothEnd
<1>16. nodes # <<>>
  BY <1>15, EmptySequence
<1> QED BY <1>9, <1>14, <1>15, <1>16 DEF path, nodes

\* ConsistencyVerifies: the proof between any two sizes is accepted.
THEOREM ConsistencyProofVerifies ==
  ASSUME NEW log \in Seq(Int), NEW second \in 1 .. Len(log), NEW first \in 0 .. second
  PROVE  LET old == RootAt(log, first)
             new == RootAt(log, second)
             path == ConsistencyProof(log, first, second)
         IN /\ IsSequence(path)
            /\ VerifyConsistency(first, old, second, new, path)
            /\ first > 0 => SdkVerifyConsistency(first, old, second, new, path)
<1> DEFINE old == RootAt(log, first)
           new == RootAt(log, second)
           path == ConsistencyProof(log, first, second)
<1>1. first \in Nat /\ second \in Nat /\ (first = 0 \/ first = second \/ first \in 1 .. second - 1)
  OBVIOUS
<1>2. CASE first = 0
  <2>1. path = <<>>
    BY <1>2 DEF ConsistencyProof
  <2> QED BY <1>2, <2>1, EmptySequence DEF VerifyConsistency
<1>3. CASE first = second
  <2>1. path = <<>> /\ old = new
    BY <1>3 DEF ConsistencyProof
  <2> QED BY <1>3, <2>1, EmptySequence DEF VerifyConsistency, SdkVerifyConsistency
<1>4. CASE first \in 1 .. second - 1
  <2>1. 0 < first /\ first < second
    BY <1>1, <1>4
  <2> DEFINE end == BothTrees(first, old, second, path)
  <2>2. IsSequence(path) /\ end = TreesAt(old, new, 0, 0)
    BY <1>4, ServedConsistency, BothTreesIsState
  <2> HIDE DEF end, path, old, new
  <2>3. end.ok /\ end.at.fn = 0 /\ end.at.sn = 0 /\ end.fr = old /\ end.sr = new
    BY <2>2 DEF TreesAt
  <2>4. VerifyConsistency(first, old, second, new, path)
    BY <2>1, <2>3 DEF VerifyConsistency, end
  <2>5. SdkVerifyConsistency(first, old, second, new, path)
    BY <2>1, <2>3 DEF SdkVerifyConsistency, end
  <2> QED BY <2>2, <2>4, <2>5 DEF old, new, path
<1> QED BY <1>1, <1>2, <1>3, <1>4

-----------------------------------------------------------------------------
(* A tree determines its leaves: two trees with the same hash are equal.     *)

\* The hash of a leaf is no hash of a node: the two have different prefixes
\* (0x00 and 0x01).
LEMMA LeafIsNoNode ==
  ASSUME NEW a, NEW b, NEW c
  PROVE  HashLeaf(a) # HashChildren(b, c)
<1>1. Len(HashLeaf(a)) = 1 /\ Len(HashChildren(b, c)) = 2
  BY DEF HashLeaf, HashChildren
<1> QED BY <1>1

\* The hash of a leaf determines the leaf.
LEMMA LeavesAgree ==
  ASSUME NEW a, NEW b, HashLeaf(a) = HashLeaf(b)
  PROVE  a = b
BY DEF HashLeaf

OnlyTree(n) ==
  \A A, s, B, t, m :
    /\ In(A, s, n) /\ In(B, t, m) /\ n > 0 /\ m > 0 /\ Tree(A, s, n) = Tree(B, t, m)
    => n = m /\ \A i \in 1 .. n : A[s + i] = B[t + i]

\* A root determines the number of leaves and every leaf: by the least width
\* for which it would not.
LEMMA AllOnlyTree == \A n \in Nat : OnlyTree(n)
<1> DEFINE Bad == {n \in Nat : ~ OnlyTree(n)}
<1>1. SUFFICES ASSUME Bad # {} PROVE FALSE
  OBVIOUS
<1>2. PICK n \in Bad : \A l \in Bad : n <= l
  BY <1>1, Powers!LeastNumber
<1>3. n \in Nat /\ ~ OnlyTree(n) /\ \A l \in Nat : l < n => OnlyTree(l)
  BY <1>2
<1> HIDE DEF Bad
<1>4. SUFFICES ASSUME NEW A, NEW s, NEW B, NEW t, NEW m,
                      In(A, s, n), In(B, t, m), n > 0, m > 0, Tree(A, s, n) = Tree(B, t, m)
               PROVE  n = m /\ \A i \in 1 .. n : A[s + i] = B[t + i]
  BY <1>3 DEF OnlyTree
<1>5. n \in Nat /\ m \in Nat /\ s \in Nat /\ t \in Nat
  BY <1>4 DEF In
<1> DEFINE k == Split(n)
           h == Split(m)
<1>6. CASE n = 1 /\ m = 1
  <2>1. HashLeaf(A[s + 1]) = HashLeaf(B[t + 1])
    BY <1>4, <1>6, TreeFacts
  <2>2. A[s + 1] = B[t + 1]
    BY <2>1, LeavesAgree
  <2>3. \A i \in 1 .. 1 : i = 1
    OBVIOUS
  <2> QED BY <1>6, <2>2, <2>3
<1>7. CASE n = 1 /\ m > 1
  <2>1. HashLeaf(A[s + 1]) = HashChildren(Tree(B, t, h), Tree(B, t + h, m - h))
    BY <1>4, <1>7, TreeFacts
  <2> QED BY <2>1, LeafIsNoNode
<1>8. CASE n > 1 /\ m = 1
  <2>1. HashLeaf(B[t + 1]) = HashChildren(Tree(A, s, k), Tree(A, s + k, n - k))
    BY <1>4, <1>8, TreeFacts
  <2> QED BY <2>1, LeafIsNoNode
<1>9. CASE n > 1 /\ m > 1
  <2>1. HashChildren(Tree(A, s, k), Tree(A, s + k, n - k))
          = HashChildren(Tree(B, t, h), Tree(B, t + h, m - h))
    BY <1>4, <1>9, TreeFacts
  <2>2. Tree(A, s, k) = Tree(B, t, h) /\ Tree(A, s + k, n - k) = Tree(B, t + h, m - h)
    BY <2>1, PairsAgree
  <2>3. /\ In(A, s, k) /\ In(A, s + k, n - k) /\ k \in Nat /\ 0 < k /\ k < n
        /\ In(B, t, h) /\ In(B, t + h, m - h) /\ h \in Nat /\ 0 < h /\ h < m
    BY <1>4, <1>9, PartsIn
  <2> HIDE DEF k, h
  <2>4. OnlyTree(k) /\ OnlyTree(n - k) /\ n - k > 0 /\ m - h > 0
    BY <1>3, <1>5, <2>3
  <2>5. k = h /\ \A i \in 1 .. k : A[s + i] = B[t + i]
    BY <2>2, <2>3, <2>4 DEF OnlyTree
  <2>6. n - k = m - h /\ \A i \in 1 .. n - k : A[(s + k) + i] = B[(t + h) + i]
    BY <2>2, <2>3, <2>4 DEF OnlyTree
  <2>7. n = m
    BY <1>5, <2>3, <2>5, <2>6
  <2>8. ASSUME NEW i \in 1 .. n PROVE A[s + i] = B[t + i]
    <3>1. CASE i <= k
      BY <2>3, <2>5, <3>1
    <3>2. CASE ~(i <= k)
      <4>1. i - k \in 1 .. n - k /\ (s + k) + (i - k) = s + i /\ (t + h) + (i - k) = t + i
        BY <1>5, <2>3, <2>5, <3>2
      <4>2. A[(s + k) + (i - k)] = B[(t + h) + (i - k)]
        BY <2>6, <4>1
      <4> QED BY <4>1, <4>2
    <3> QED BY <3>1, <3>2
  <2> QED BY <2>7, <2>8
<1> QED BY <1>4, <1>5, <1>6, <1>7, <1>8, <1>9

\* Two logs with the same root of a size share that prefix.
LEMMA RootBindsPrefix ==
  ASSUME NEW A \in Seq(Int), NEW B \in Seq(Int), NEW n \in 1 .. Len(A), n <= Len(B),
         RootAt(A, n) = RootAt(B, n)
  PROVE  SubSeq(A, 1, n) = SubSeq(B, 1, n)
<1>1. n \in Nat /\ 0 + n = n /\ Len(A) \in Nat /\ Len(B) \in Nat /\ n > 0 /\ n <= Len(A)
  OBVIOUS
<1>2. In(A, 0, n) /\ In(B, 0, n) /\ Tree(A, 0, n) = Tree(B, 0, n)
  BY <1>1 DEF In, IsLog, Tree, RootAt
<1>3. OnlyTree(n)
  BY <1>1, AllOnlyTree
<1>4. \A i \in 1 .. n : A[0 + i] = B[0 + i]
  BY <1>1, <1>2, <1>3 DEF OnlyTree
<1>5. \A i \in 1 .. n : A[i] = B[i]
  <2>1. \A i \in 1 .. n : 0 + i = i
    BY <1>1
  <2> QED BY <1>4, <2>1
<1> QED BY <1>1, <1>5

-----------------------------------------------------------------------------
(* The climb through both trees of any proof, against the served one.        *)

IsTreesState(s) == s = [ok |-> s.ok, at |-> s.at, fr |-> s.fr, sr |-> s.sr] /\ s.ok \in BOOLEAN

\* What an accepted node of a consistency proof does.
BothStep(s, x, t) ==
  /\ s.at.sn # 0
  /\ t.at = Up(s.at)
  /\ FromLeft(s.at) => t.fr = HashChildren(x, s.fr) /\ t.sr = HashChildren(x, s.sr)
  /\ ~ FromLeft(s.at) => t.fr = s.fr /\ t.sr = HashChildren(s.sr, x)

\* A turn of the loop that does not fail started below the root from a state
\* that had not failed.
LEMMA ClimbTreesFacts ==
  ASSUME NEW s, IsTreesState(s), NEW x
  PROVE  /\ IsTreesState(ClimbTrees(s, x))
         /\ ClimbTrees(s, x).ok => s.ok /\ BothStep(s, x, ClimbTrees(s, x))
<1>1. CASE ~s.ok \/ s.at.sn = 0
  <2>1. ClimbTrees(s, x) = [ok |-> FALSE, at |-> s.at, fr |-> s.fr, sr |-> s.sr]
    BY <1>1 DEF ClimbTrees, IsTreesState
  <2> QED BY <2>1 DEF IsTreesState
<1>2. CASE ~(~s.ok \/ s.at.sn = 0)
  <2>1. ClimbTrees(s, x) =
          [ok |-> TRUE, at |-> Up(s.at),
           fr |-> IF FromLeft(s.at) THEN HashChildren(x, s.fr) ELSE s.fr,
           sr |-> IF FromLeft(s.at) THEN HashChildren(x, s.sr) ELSE HashChildren(s.sr, x)]
    BY <1>2 DEF ClimbTrees
  <2> QED BY <1>2, <2>1 DEF IsTreesState, BothStep
<1> QED BY <1>1, <1>2

\* A climb that is still right at its end was right at every turn.
LEMMA TreesTraceOk ==
  ASSUME NEW at, NEW p, Len(p) \in Nat, Len(p) > 0, TreesState(at, p).ok
  PROVE  /\ TreesTrace(at, p)[1] = Seed(at, p[1])
         /\ \A i \in 2 .. Len(p) :
              BothStep(TreesTrace(at, p)[i - 1], p[i], TreesTrace(at, p)[i])
<1> DEFINE n == Len(p)
           c == TreesTrace(at, p)
           Bad == {i \in Nat : 0 < i /\ i <= n /\ ~ IsTreesState(c[i])}
           Worse == {i \in Nat : i < n /\ ~ c[n - i].ok}
<1>1. /\ n \in Nat /\ n > 0 /\ c[1] = Seed(at, p[1])
      /\ \A i \in 2 .. n : c[i] = ClimbTrees(c[i - 1], p[i])
  BY TreesTraceSteps
<1>2. c[n].ok
  BY DEF TreesState
<1> HIDE DEF n, c
<1>3. \A i \in 1 .. n : IsTreesState(c[i])
  <2>1. SUFFICES ASSUME Bad # {} PROVE FALSE
    BY <1>1
  <2>2. PICK i \in Bad : \A j \in Bad : i <= j
    BY <2>1, Powers!LeastNumber
  <2>3. i # 1
    <3>1. IsTreesState(c[1])
      BY <1>1 DEF Seed, IsTreesState
    <3> QED BY <2>2, <3>1
  <2>4. i - 1 \in Nat /\ i - 1 \notin Bad /\ 0 < i - 1 /\ i - 1 <= n /\ i \in 2 .. n
    BY <1>1, <2>2, <2>3
  <2>5. IsTreesState(c[i - 1])
    BY <2>4
  <2>6. IsTreesState(c[i])
    BY <1>1, <2>4, <2>5, ClimbTreesFacts
  <2> QED BY <2>2, <2>6
<1>4. \A i \in 1 .. n : c[i].ok
  <2>1. SUFFICES ASSUME Worse # {} PROVE FALSE
    <3>1. \A i \in 1 .. n : n - i \in Nat /\ n - i < n /\ n - (n - i) = i
      BY <1>1
    <3>2. \A i \in 1 .. n : n - i \notin Worse => c[n - (n - i)].ok
      BY <3>1
    <3> QED BY <3>1, <3>2
  <2>2. PICK i \in Worse : \A j \in Worse : i <= j
    BY <2>1, Powers!LeastNumber
  <2>3. i # 0
    BY <1>1, <1>2, <2>2
  <2>4. i - 1 \in Nat /\ i - 1 \notin Worse
    BY <2>2, <2>3
  <2>5. c[n - (i - 1)].ok
    BY <1>1, <2>2, <2>4
  <2>6. n - (i - 1) \in 2 .. n /\ (n - (i - 1)) - 1 = n - i /\ n - i \in 1 .. n
    BY <1>1, <2>2, <2>3
  <2> QED BY <1>1, <1>3, <2>2, <2>5, <2>6, ClimbTreesFacts
<1>5. ASSUME NEW i \in 2 .. n
      PROVE  BothStep(c[i - 1], p[i], c[i])
  <2>1. i \in 1 .. n /\ i - 1 \in 1 .. n
    BY <1>1
  <2>2. IsTreesState(c[i - 1]) /\ ClimbTrees(c[i - 1], p[i]).ok
    BY <1>1, <1>3, <1>4, <2>1
  <2> QED BY <1>1, <2>2, ClimbTreesFacts
<1> QED BY <1>1, <1>5 DEF n, c

\* Once fn is zero, every other level is climbed from the right, and it stays.
LEMMA LeftSpine ==
  ASSUME NEW at, at.fn = 0, at.sn # 0
  PROVE  ~ FromLeft(at) /\ Up(at).fn = 0
<1>1. ~ Odd(at.fn) /\ at.fn # at.sn
  BY DEF Odd
<1>2. Up(at) = [fn |-> 0 \div 2, sn |-> at.sn \div 2]
  BY <1>1 DEF FromLeft, Up, Shifted
<1> QED BY <1>1, <1>2 DEF FromLeft

\* The climbs of p and of c from the same place, both accepted.
TwoClimbs(at, p, c) ==
  /\ IsSequence(p) /\ Len(p) > 0 /\ TreesState(at, p).ok
  /\ IsSequence(c) /\ Len(c) > 0 /\ TreesState(at, c).ok

\* What two accepted climbs have in common: the places.
LEMMA SamePlaces ==
  ASSUME NEW at, NEW p, NEW c, TwoClimbs(at, p, c)
  PROVE  LET P == TreesTrace(at, p)
             C == TreesTrace(at, c)
         IN /\ Len(p) \in Nat /\ Len(p) > 0 /\ Len(c) \in Nat /\ Len(c) > 0
            /\ P[1] = Seed(at, p[1]) /\ C[1] = Seed(at, c[1])
            /\ \A i \in 2 .. Len(p) : BothStep(P[i - 1], p[i], P[i])
            /\ \A i \in 2 .. Len(c) : BothStep(C[i - 1], c[i], C[i])
            /\ \A i \in 1 .. Len(p) : i <= Len(c) => P[i].at = C[i].at
            /\ P[Len(p)] = TreesState(at, p) /\ C[Len(c)] = TreesState(at, c)
<1> DEFINE P == TreesTrace(at, p)
           C == TreesTrace(at, c)
           n == Len(p)
           k == Len(c)
           Apart == {i \in Nat : 0 < i /\ i <= n /\ i <= k /\ P[i].at # C[i].at}
<1>1. n \in Nat /\ n > 0 /\ k \in Nat /\ k > 0
  BY SequenceFacts DEF TwoClimbs
<1>2. /\ P[1] = Seed(at, p[1]) /\ C[1] = Seed(at, c[1])
      /\ \A i \in 2 .. n : BothStep(P[i - 1], p[i], P[i])
      /\ \A i \in 2 .. k : BothStep(C[i - 1], c[i], C[i])
  BY <1>1, TreesTraceOk DEF TwoClimbs
<1>3. P[n] = TreesState(at, p) /\ C[k] = TreesState(at, c)
  BY DEF TreesState
<1> HIDE DEF P, C, n, k
<1>4. \A i \in 1 .. n : i <= k => P[i].at = C[i].at
  <2>1. SUFFICES ASSUME Apart # {} PROVE FALSE
    BY <1>1
  <2>2. PICK i \in Apart : \A j \in Apart : i <= j
    BY <2>1, Powers!LeastNumber
  <2>3. i # 1
    <3>1. P[1].at = C[1].at
      BY <1>2 DEF Seed
    <3> QED BY <2>2, <3>1
  <2>4. /\ i - 1 \in Nat /\ i - 1 \notin Apart /\ 0 < i - 1 /\ i - 1 <= n /\ i - 1 <= k
        /\ i \in 2 .. n /\ i \in 2 .. k
    BY <1>1, <2>2, <2>3
  <2>5. P[i - 1].at = C[i - 1].at
    BY <2>4
  <2>6. P[i].at = Up(P[i - 1].at) /\ C[i].at = Up(C[i - 1].at)
    BY <1>2, <2>4 DEF BothStep
  <2> QED BY <2>2, <2>5, <2>6
<1> QED BY <1>1, <1>2, <1>3, <1>4 DEF P, C, n, k

\* As long as the other, and to the same root of the larger tree: the same
\* nodes, and so the same root of the smaller one.
LEMMA SameNodes ==
  ASSUME NEW at, NEW p, NEW c, TwoClimbs(at, p, c), Len(p) = Len(c),
         TreesState(at, p).sr = TreesState(at, c).sr
  PROVE  TreesState(at, p).fr = TreesState(at, c).fr
<1> DEFINE P == TreesTrace(at, p)
           C == TreesTrace(at, c)
           n == Len(p)
           Unlike == {i \in Nat : i < n /\ P[n - i].sr # C[n - i].sr}
<1>1. /\ n \in Nat /\ n > 0 /\ n = Len(c)
      /\ P[1] = Seed(at, p[1]) /\ C[1] = Seed(at, c[1])
      /\ \A i \in 2 .. n : BothStep(P[i - 1], p[i], P[i])
      /\ \A i \in 2 .. n : BothStep(C[i - 1], c[i], C[i])
      /\ \A i \in 1 .. n : P[i].at = C[i].at
      /\ P[n] = TreesState(at, p) /\ C[n] = TreesState(at, c)
  BY SamePlaces
<1> HIDE DEF P, C, n
<1>2. ASSUME NEW i \in 2 .. n, P[i].sr = C[i].sr
      PROVE  P[i - 1].sr = C[i - 1].sr /\ p[i] = c[i]
  <2>1. BothStep(P[i - 1], p[i], P[i]) /\ BothStep(C[i - 1], c[i], C[i])
    BY <1>1
  <2>2. P[i - 1].at = C[i - 1].at
    <3>1. i - 1 \in 1 .. n
      BY <1>1
    <3> QED BY <1>1, <3>1
  <2>3. CASE FromLeft(P[i - 1].at)
    <3>1. HashChildren(p[i], P[i - 1].sr) = HashChildren(c[i], C[i - 1].sr)
      BY <1>2, <2>1, <2>2, <2>3 DEF BothStep
    <3> QED BY <3>1, PairsAgree
  <2>4. CASE ~ FromLeft(P[i - 1].at)
    <3>1. HashChildren(P[i - 1].sr, p[i]) = HashChildren(C[i - 1].sr, c[i])
      BY <1>2, <2>1, <2>2, <2>4 DEF BothStep
    <3> QED BY <3>1, PairsAgree
  <2> QED BY <2>3, <2>4
<1>3. \A i \in 1 .. n : P[i].sr = C[i].sr
  <2>1. SUFFICES ASSUME Unlike # {} PROVE FALSE
    <3>1. \A i \in 1 .. n : n - i \in Nat /\ n - i < n /\ n - (n - i) = i
      BY <1>1
    <3>2. \A i \in 1 .. n : n - i \notin Unlike => P[n - (n - i)].sr = C[n - (n - i)].sr
      BY <3>1
    <3> QED BY <3>1, <3>2
  <2>2. PICK i \in Unlike : \A j \in Unlike : i <= j
    BY <2>1, Powers!LeastNumber
  <2>3. i # 0
    <3>1. P[n].sr = C[n].sr /\ n - 0 = n
      BY <1>1
    <3> QED BY <2>2, <3>1
  <2>4. i - 1 \in Nat /\ i - 1 \notin Unlike /\ i - 1 < n
    BY <1>1, <2>2, <2>3
  <2>5. P[n - (i - 1)].sr = C[n - (i - 1)].sr
    BY <2>4
  <2>6. n - (i - 1) \in 2 .. n /\ (n - (i - 1)) - 1 = n - i
    BY <1>1, <2>2, <2>3
  <2> QED BY <1>2, <2>2, <2>5, <2>6
<1>4. ASSUME NEW i \in 1 .. n PROVE p[i] = c[i]
  <2>1. CASE i = 1
    <3>1. P[1].sr = p[1] /\ C[1].sr = c[1]
      BY <1>1 DEF Seed
    <3> QED BY <1>3, <2>1, <3>1
  <2>2. CASE i # 1
    <3>1. i \in 2 .. n /\ P[i].sr = C[i].sr
      BY <1>1, <1>3, <2>2
    <3> QED BY <1>2, <3>1
  <2> QED BY <2>1, <2>2
<1>5. p = c
  <2>1. \A q : IsSequence(q) => q = [i \in 1 .. Len(q) |-> q[i]]
    BY DEF IsSequence
  <2>2. p = [i \in 1 .. n |-> p[i]] /\ c = [i \in 1 .. n |-> c[i]]
    BY <1>1, <2>1 DEF TwoClimbs, n
  <2>3. [i \in 1 .. n |-> p[i]] = [i \in 1 .. n |-> c[i]]
    BY <1>4
  <2> QED BY <2>2, <2>3
<1> QED BY <1>5

\* Both verifiers have sn at zero in the end for proofs of the same length.
LEMMA EndsTogether ==
  ASSUME NEW at, NEW p, NEW c, TwoClimbs(at, p, c), TreesState(at, c).at.sn = 0
  PROVE  /\ Len(p) <= Len(c)
         /\ TreesState(at, p).at.sn = 0 => Len(p) = Len(c)
<1> DEFINE P == TreesTrace(at, p)
           C == TreesTrace(at, c)
           n == Len(p)
           k == Len(c)
<1>1. /\ n \in Nat /\ n > 0 /\ k \in Nat /\ k > 0
      /\ \A i \in 2 .. n : BothStep(P[i - 1], p[i], P[i])
      /\ \A i \in 2 .. k : BothStep(C[i - 1], c[i], C[i])
      /\ \A i \in 1 .. n : i <= k => P[i].at = C[i].at
      /\ P[n] = TreesState(at, p) /\ C[k] = TreesState(at, c)
  BY SamePlaces
<1> HIDE DEF P, C, n, k
<1>2. ASSUME k < n PROVE FALSE
  <2>1. k + 1 \in 2 .. n /\ (k + 1) - 1 = k /\ k \in 1 .. n /\ k <= k
    BY <1>1, <1>2
  <2>2. P[k].at.sn # 0 /\ P[k].at = C[k].at
    BY <1>1, <2>1 DEF BothStep
  <2> QED BY <1>1, <2>2
<1>3. ASSUME n < k, TreesState(at, p).at.sn = 0 PROVE FALSE
  <2>1. n + 1 \in 2 .. k /\ (n + 1) - 1 = n /\ n \in 1 .. n /\ n <= k
    BY <1>1, <1>3
  <2>2. C[n].at.sn # 0 /\ P[n].at = C[n].at
    BY <1>1, <2>1 DEF BothStep
  <2> QED BY <1>1, <1>3, <2>2
<1> QED BY <1>1, <1>2, <1>3 DEF n, k

\* A root that is a node has the tree of its left part as its left child.
LEMMA RootNode ==
  ASSUME NEW log, NEW n, In(log, 0, n), n > 0, NEW x, NEW y, Tree(log, 0, n) = HashChildren(x, y)
  PROVE  /\ n > 1 /\ x = Tree(log, 0, Split(n)) /\ In(log, 0, Split(n))
         /\ Split(n) \in Nat /\ 0 < Split(n) /\ Split(n) < n
<1>1. n \in Nat
  BY DEF In
<1>2. n # 1
  BY TreeFacts, LeafIsNoNode
<1>3. n > 1
  BY <1>1, <1>2
<1>4. HashChildren(Tree(log, 0, Split(n)), Tree(log, 0 + Split(n), n - Split(n)))
        = HashChildren(x, y)
  BY <1>3, TreeFacts
<1>5. x = Tree(log, 0, Split(n))
  BY <1>4, PairsAgree
<1> QED BY <1>3, <1>5, PartsIn

\* The Ledger's verifier asks for fn at zero only.  A proof shorter than the
\* served one would have to reach the root early: then the served climb has, at
\* every earlier level, a smaller tree where this one has a larger, and both end
\* with the same left part or the same first node.
LEMMA NotShorter ==
  ASSUME NEW at, NEW p, NEW c, TwoClimbs(at, p, c), Len(p) < Len(c),
         NEW A, NEW B, NEW first, NEW second,
         In(A, 0, first), In(B, 0, first), In(B, 0, second), 0 < first, 1 < second,
         TreesState(at, p).at.fn = 0,
         TreesState(at, p).fr = Tree(A, 0, first), TreesState(at, p).sr = Tree(B, 0, second),
         TreesState(at, c).fr = Tree(B, 0, first), TreesState(at, c).sr = Tree(B, 0, second)
  PROVE  FALSE
<1> DEFINE P == TreesTrace(at, p)
           C == TreesTrace(at, c)
           n == Len(p)
           k == Len(c)
<1>1. /\ n \in Nat /\ n > 0 /\ k \in Nat /\ k > 0 /\ n < k
      /\ P[1] = Seed(at, p[1]) /\ C[1] = Seed(at, c[1])
      /\ \A i \in 2 .. n : BothStep(P[i - 1], p[i], P[i])
      /\ \A i \in 2 .. k : BothStep(C[i - 1], c[i], C[i])
      /\ \A i \in 1 .. n : i <= k => P[i].at = C[i].at
      /\ P[n] = TreesState(at, p) /\ C[k] = TreesState(at, c)
  BY SamePlaces
<1>2. first \in Nat /\ second \in Nat /\ second <= Len(B) /\ IsLog(B) /\ Len(B) \in Nat
  BY DEF In, IsLog
<1>3. \A b \in 1 .. second : In(B, 0, b)
  BY <1>2 DEF In
<1> HIDE DEF P, C, n, k
<1>4. \A j \in 1 .. k : n <= j => C[j].at.fn = 0
  <2> DEFINE Bad == {j \in Nat : n <= j /\ j <= k /\ C[j].at.fn # 0}
  <2>1. SUFFICES ASSUME Bad # {} PROVE FALSE
    OBVIOUS
  <2>2. PICK j \in Bad : \A i \in Bad : j <= i
    BY <2>1, Powers!LeastNumber
  <2>3. j # n
    <3>1. n \in 1 .. n /\ n <= k
      BY <1>1
    <3>2. C[n].at.fn = 0
      BY <1>1, <3>1
    <3> QED BY <2>2, <3>2
  <2>4. j - 1 \in Nat /\ n <= j - 1 /\ j - 1 <= k /\ j - 1 \notin Bad /\ j \in 2 .. k
    BY <1>1, <2>2, <2>3
  <2>5. C[j - 1].at.fn = 0
    BY <2>4
  <2>6. C[j - 1].at.sn # 0 /\ C[j].at = Up(C[j - 1].at)
    BY <1>1, <2>4 DEF BothStep
  <2> QED BY <2>2, <2>5, <2>6, LeftSpine
<1> DEFINE Shallow(j) == /\ C[j].fr = Tree(B, 0, first)
                         /\ \E b \in 1 .. second : /\ C[j].sr = Tree(B, 0, b)
                                                   /\ j < k => b <= Split(second)
<1>5. Shallow(n)
  <2> DEFINE Bad == {d \in Nat : d <= k - n /\ ~ Shallow(k - d)}
  <2>1. SUFFICES ASSUME Bad # {} PROVE FALSE
    <3>1. k - n \in Nat /\ k - n <= k - n /\ k - (k - n) = n
      BY <1>1
    <3>2. Shallow(k - (k - n))
      <4>1. k - n \notin Bad
        <5> HIDE DEF Bad
        <5> QED BY <2>1
      <4> HIDE DEF Shallow
      <4> QED BY <3>1, <4>1
    <3> HIDE DEF Shallow
    <3> QED BY <3>1, <3>2
  <2>2. PICK d \in Bad : \A i \in Bad : d <= i
    BY <2>1, Powers!LeastNumber
  <2>3. d # 0
    <3>1. k - 0 = k /\ ~(k < k) /\ second \in 1 .. second
      BY <1>1, <1>2
    <3>2. Shallow(k)
      BY <1>1, <3>1
    <3> HIDE DEF Shallow
    <3> QED BY <2>2, <3>1, <3>2
  <2> DEFINE j == k - (d - 1)
  <2>4. d - 1 \in Nat /\ d - 1 \notin Bad /\ d - 1 <= k - n
    <3> HIDE DEF Shallow
    <3> QED BY <1>1, <2>2, <2>3
  <2>5. Shallow(j)
    <3> HIDE DEF Shallow
    <3> QED BY <2>4
  <2>6. j \in 2 .. k /\ j - 1 = k - d /\ n <= j - 1 /\ j - 1 \in 1 .. k /\ j - 1 < k
    BY <1>1, <2>2, <2>3
  <2> HIDE DEF j
  <2>7. BothStep(C[j - 1], c[j], C[j]) /\ C[j - 1].at.fn = 0
    BY <1>1, <1>4, <2>6
  <2>8. ~ FromLeft(C[j - 1].at)
    BY <2>7, LeftSpine DEF BothStep
  <2>9. C[j].fr = C[j - 1].fr /\ C[j].sr = HashChildren(C[j - 1].sr, c[j])
    BY <2>7, <2>8 DEF BothStep
  <2>10. PICK b \in 1 .. second : C[j].sr = Tree(B, 0, b)
    BY <2>5
  <2>11. /\ b > 1 /\ C[j - 1].sr = Tree(B, 0, Split(b))
         /\ Split(b) \in Nat /\ 0 < Split(b) /\ Split(b) < b
    <3>1. In(B, 0, b) /\ b > 0
      BY <1>2, <1>3
    <3>2. Tree(B, 0, b) = HashChildren(C[j - 1].sr, c[j])
      BY <2>9, <2>10
    <3> QED BY <3>1, <3>2, RootNode
  <2>12. Split(b) <= Split(second)
    BY <1>2, <2>10, <2>11, SplitMonotone
  <2>13. Split(b) \in 1 .. second
    BY <1>2, <2>10, <2>11
  <2>14. Shallow(j - 1)
    BY <2>5, <2>9, <2>11, <2>12, <2>13
  <2>15. Shallow(k - d)
    <3> HIDE DEF Shallow
    <3> QED BY <2>6, <2>14
  <2> HIDE DEF Shallow
  <2> QED BY <2>2, <2>15
<1> DEFINE Deep(j) == /\ P[j].fr = Tree(A, 0, first) /\ C[j].fr = Tree(B, 0, first)
                      /\ \E a, b \in 1 .. second :
                           /\ a > 1 /\ b <= Split(a)
                           /\ P[j].sr = Tree(B, 0, a) /\ C[j].sr = Tree(B, 0, b)
<1>6. Deep(n)
  <2>1. PICK b \in 1 .. second : C[n].sr = Tree(B, 0, b) /\ b <= Split(second)
    BY <1>1, <1>5
  <2>2. second \in 1 .. second /\ second > 1
    BY <1>2
  <2> QED BY <1>1, <1>5, <2>1, <2>2
<1>7. ASSUME NEW j \in 2 .. n, Deep(j) PROVE Deep(j - 1)
  <2>1. PICK a \in 1 .. second, b \in 1 .. second :
          a > 1 /\ b <= Split(a) /\ P[j].sr = Tree(B, 0, a) /\ C[j].sr = Tree(B, 0, b)
    BY <1>7
  <2>2. P[j].fr = Tree(A, 0, first) /\ C[j].fr = Tree(B, 0, first)
    BY <1>7
  <2>3. /\ BothStep(P[j - 1], p[j], P[j]) /\ BothStep(C[j - 1], c[j], C[j])
        /\ P[j - 1].at = C[j - 1].at
    <3>1. j \in 2 .. k /\ j - 1 \in 1 .. n /\ j - 1 <= k
      BY <1>1
    <3> QED BY <1>1, <3>1
  <2> HIDE DEF Deep
  <2>4. a \in Nat /\ b \in Nat /\ a > 0 /\ b > 0 /\ In(B, 0, a) /\ In(B, 0, b)
    BY <1>2, <1>3, <2>1
  <2>5. CASE FromLeft(P[j - 1].at)
    <3>1. /\ P[j].fr = HashChildren(p[j], P[j - 1].fr) /\ P[j].sr = HashChildren(p[j], P[j - 1].sr)
          /\ C[j].fr = HashChildren(c[j], C[j - 1].fr) /\ C[j].sr = HashChildren(c[j], C[j - 1].sr)
      BY <2>3, <2>5 DEF BothStep
    <3>2. /\ p[j] = Tree(A, 0, Split(first)) /\ In(A, 0, Split(first))
          /\ Split(first) \in Nat /\ 0 < Split(first)
      <4>1. Tree(A, 0, first) = HashChildren(p[j], P[j - 1].fr)
        BY <2>2, <3>1
      <4> QED BY <4>1, RootNode
    <3>3. p[j] = Tree(B, 0, Split(a)) /\ In(B, 0, Split(a)) /\ Split(a) \in Nat /\ 0 < Split(a)
      BY <2>1, <2>4, <3>1, RootNode
    <3>4. c[j] = Tree(B, 0, Split(first)) /\ In(B, 0, Split(first))
      <4>1. Tree(B, 0, first) = HashChildren(c[j], C[j - 1].fr)
        BY <2>2, <3>1
      <4> QED BY <4>1, RootNode
    <3>5. c[j] = Tree(B, 0, Split(b)) /\ In(B, 0, Split(b)) /\ Split(b) \in Nat /\ 0 < Split(b)
          /\ Split(b) < b
      BY <2>1, <2>4, <3>1, RootNode
    <3>6. Split(first) = Split(a)
      <4>1. OnlyTree(Split(first))
        BY <3>2, AllOnlyTree
      <4> QED BY <3>2, <3>3, <4>1 DEF OnlyTree
    <3>7. Split(first) = Split(b)
      <4>1. OnlyTree(Split(first))
        BY <3>2, AllOnlyTree
      <4> QED BY <3>2, <3>4, <3>5, <4>1 DEF OnlyTree
    <3> QED BY <2>1, <2>4, <3>3, <3>5, <3>6, <3>7
  <2>6. CASE ~ FromLeft(P[j - 1].at)
    <3>1. /\ P[j].fr = P[j - 1].fr /\ P[j].sr = HashChildren(P[j - 1].sr, p[j])
          /\ C[j].fr = C[j - 1].fr /\ C[j].sr = HashChildren(C[j - 1].sr, c[j])
      BY <2>3, <2>6 DEF BothStep
    <3>2. P[j - 1].sr = Tree(B, 0, Split(a)) /\ Split(a) \in Nat /\ Split(a) < a
      BY <2>1, <2>4, <3>1, RootNode
    <3>3. /\ b > 1 /\ C[j - 1].sr = Tree(B, 0, Split(b))
          /\ Split(b) \in Nat /\ 0 < Split(b) /\ Split(b) < b
      BY <2>1, <2>4, <3>1, RootNode
    <3>4. Split(b) <= Split(Split(a))
      BY <2>1, <2>4, <3>2, <3>3, SplitMonotone
    <3>5. Split(a) > 1 /\ Split(a) \in 1 .. second /\ Split(b) \in 1 .. second
      BY <1>2, <2>1, <2>4, <3>2, <3>3
    <3> QED BY <2>2, <3>1, <3>2, <3>3, <3>4, <3>5 DEF Deep
  <2> QED BY <2>5, <2>6
<1>8. ~ Deep(1)
  <2>1. SUFFICES ASSUME Deep(1) PROVE FALSE
    OBVIOUS
  <2>2. PICK a \in 1 .. second, b \in 1 .. second :
          a > 1 /\ b <= Split(a) /\ P[1].sr = Tree(B, 0, a) /\ C[1].sr = Tree(B, 0, b)
    BY <2>1
  <2>3. P[1].fr = P[1].sr /\ C[1].fr = C[1].sr
    BY <1>1 DEF Seed
  <2>4. Tree(A, 0, first) = Tree(B, 0, a) /\ Tree(B, 0, first) = Tree(B, 0, b)
    BY <2>1, <2>2, <2>3
  <2>5. a \in Nat /\ b \in Nat /\ a > 0 /\ b > 0 /\ In(B, 0, a) /\ In(B, 0, b)
    BY <1>2, <1>3, <2>2
  <2>6. OnlyTree(first)
    BY <1>2, AllOnlyTree
  <2>7. first = a /\ first = b
    BY <2>4, <2>5, <2>6 DEF OnlyTree
  <2>8. Split(a) < a
    BY <2>2, <2>5, SplitType
  <2>9. Split(a) \in Nat
    BY <2>2, <2>5, SplitType
  <2> QED BY <2>2, <2>5, <2>7, <2>8, <2>9
<1> HIDE DEF Deep
<1> DEFINE Deeps == {j \in Nat : 0 < j /\ j <= n /\ Deep(j)}
<1>9. Deeps # {}
  BY <1>1, <1>6
<1>10. PICK j \in Deeps : \A i \in Deeps : j <= i
  BY <1>9, Powers!LeastNumber
<1>11. j # 1
  BY <1>8, <1>10
<1>12. j \in 2 .. n /\ j - 1 \in Nat /\ 0 < j - 1 /\ j - 1 <= n /\ Deep(j)
  BY <1>1, <1>10, <1>11
<1>13. j - 1 \in Deeps
  BY <1>7, <1>12
<1> QED BY <1>10, <1>12, <1>13

\* ConsistencyBinds, for any path at all: neither verifier accepts a log that
\* does not begin with the first tree's leaves.
THEOREM AcceptedLogIsExtension ==
  ASSUME NEW A \in Seq(Int), NEW B \in Seq(Int), NEW first \in 1 .. Len(A),
         NEW second \in 1 .. Len(B), NEW path, IsSequence(path),
         \/ VerifyConsistency(first, RootAt(A, first), second, RootAt(B, second), path)
         \/ SdkVerifyConsistency(first, RootAt(A, first), second, RootAt(B, second), path)
  PROVE  first <= second /\ SubSeq(A, 1, first) = SubSeq(B, 1, first)
<1> DEFINE old == RootAt(A, first)
           new == RootAt(B, second)
           end == BothTrees(first, old, second, path)
<1>1. first \in Nat /\ second \in Nat /\ first > 0 /\ Len(A) \in Nat /\ Len(B) \in Nat
  OBVIOUS
<1>2. \/ first = second /\ old = new
      \/ /\ first < second /\ end.ok /\ (end.at.fn = 0 \/ end.at.sn = 0)
         /\ end.fr = old /\ end.sr = new
  BY <1>1 DEF VerifyConsistency, SdkVerifyConsistency
<1>3. CASE first = second /\ old = new
  BY <1>1, <1>3, RootBindsPrefix
<1>4. CASE /\ first < second /\ end.ok /\ (end.at.fn = 0 \/ end.at.sn = 0)
           /\ end.fr = old /\ end.sr = new
  <2> DEFINE served == ConsistencyProof(B, first, second)
             p == Nodes(first, old, path)
             c == Nodes(first, RootAt(B, first), served)
             at == Start(first, second)
  <2>1. /\ IsSequence(c) /\ Len(c) > 0
        /\ TreesState(at, c) = TreesAt(RootAt(B, first), new, 0, 0)
    <3>1. first \in 1 .. second - 1
      BY <1>1, <1>4
    <3> QED BY <3>1, ServedConsistency
  <2>2. end = IF p = <<>> THEN [ok |-> FALSE] ELSE TreesState(at, p)
    BY BothTreesIsState
  <2>3. IsSequence(p) /\ (p # <<>> => Len(p) > 0)
    BY NodesAreSequence
  <2> HIDE DEF p, c, at, served, end
  <2>4. p # <<>>
    <3>1. ~ [ok |-> FALSE].ok
      OBVIOUS
    <3> QED BY <1>4, <2>2, <3>1
  <2>5. end = TreesState(at, p)
    BY <2>2, <2>4
  <2> HIDE DEF old, new
  <2>6. /\ TreesState(at, c).ok /\ TreesState(at, c).at.sn = 0
        /\ TreesState(at, c).fr = RootAt(B, first) /\ TreesState(at, c).sr = new
    BY <2>1 DEF TreesAt
  <2>7. TwoClimbs(at, p, c)
    BY <1>4, <2>1, <2>3, <2>4, <2>5, <2>6 DEF TwoClimbs
  <2>8. Len(p) = Len(c)
    <3>1. Len(p) <= Len(c) /\ (TreesState(at, p).at.sn = 0 => Len(p) = Len(c))
      BY <2>6, <2>7, EndsTogether
    <3>2. ASSUME Len(p) # Len(c) PROVE FALSE
      <4>1. Len(p) \in Nat /\ Len(c) \in Nat
        BY <2>1, <2>3, SequenceFacts
      <4>2. Len(p) < Len(c) /\ TreesState(at, p).at.fn = 0
        BY <1>4, <2>5, <3>1, <3>2, <4>1
      <4>3. In(A, 0, first) /\ In(B, 0, first) /\ In(B, 0, second) /\ 0 < first /\ 1 < second
        BY <1>1, <1>4 DEF In, IsLog
      <4>4. /\ RootAt(A, first) = Tree(A, 0, first) /\ RootAt(B, first) = Tree(B, 0, first)
            /\ RootAt(B, second) = Tree(B, 0, second)
        <5>1. 0 + first = first /\ 0 + second = second
          BY <1>1
        <5> QED BY <5>1 DEF RootAt, Tree
      <4>5. /\ TreesState(at, p).fr = Tree(A, 0, first) /\ TreesState(at, p).sr = Tree(B, 0, second)
            /\ TreesState(at, c).fr = Tree(B, 0, first) /\ TreesState(at, c).sr = Tree(B, 0, second)
        BY <1>4, <2>5, <2>6, <4>4 DEF old, new
      <4> QED BY <2>7, <4>2, <4>3, <4>5, NotShorter
    <3> QED BY <3>2
  <2>9. TreesState(at, p).fr = TreesState(at, c).fr
    BY <1>4, <2>5, <2>6, <2>7, <2>8, SameNodes
  <2>10. RootAt(A, first) = RootAt(B, first)
    BY <1>4, <2>5, <2>6, <2>9 DEF old
  <2>11. first <= Len(B) /\ first <= second
    BY <1>1, <1>4
  <2> QED BY <1>1, <2>10, <2>11, RootBindsPrefix
<1> QED BY <1>2, <1>3, <1>4

-----------------------------------------------------------------------------
(* The level-by-level root.                                                  *)

\* A sequence over a set is one over every larger set.
LEMMA Widen ==
  ASSUME NEW S, NEW T, S \subseteq T, NEW p \in Seq(S)
  PROVE  p \in Seq(T)
<1>1. Len(p) \in Nat /\ p = [i \in 1 .. Len(p) |-> p[i]] /\ \A i \in 1 .. Len(p) : p[i] \in S
  OBVIOUS
<1>2. p \in [1 .. Len(p) -> T]
  BY <1>1
<1> QED BY <1>1, <1>2, SeqDef

\* A function on 1 .. k is a sequence of length k.
LEMMA FunctionIsSequence ==
  ASSUME NEW f, NEW k \in Nat, f = [i \in 1 .. k |-> f[i]]
  PROVE  IsSequence(f) /\ Len(f) = k
<1> DEFINE S == {f[i] : i \in 1 .. k}
<1>1. f \in [1 .. k -> S]
  OBVIOUS
<1> HIDE DEF S
<1>2. f \in Seq(S)
  BY <1>1, SeqDef
<1>3. Len(f) = k
  BY <1>1, <1>2
<1> QED BY <1>2, <1>3 DEF IsSequence

\* Concatenation, element by element.
LEMMA ConcatFacts ==
  ASSUME NEW p, NEW q, IsSequence(p), IsSequence(q)
  PROVE  /\ IsSequence(p \o q) /\ Len(p \o q) = Len(p) + Len(q)
         /\ \A i \in 1 .. Len(p) + Len(q) :
              (p \o q)[i] = IF i <= Len(p) THEN p[i] ELSE q[i - Len(p)]
<1>1. PICK S : p \in Seq(S)
  BY DEF IsSequence
<1>2. PICK T : q \in Seq(T)
  BY DEF IsSequence
<1> DEFINE U == S \cup T
<1>3. p \in Seq(U) /\ q \in Seq(U)
  <2>1. S \subseteq U /\ T \subseteq U
    OBVIOUS
  <2> HIDE DEF U
  <2> QED BY <1>1, <1>2, <2>1, Widen
<1> HIDE DEF U
<1>4. p \o q \in Seq(U)
  BY <1>3
<1> QED BY <1>3, <1>4 DEF IsSequence

\* Pairing the nodes of a level, element by element.
LEMMA PairsFacts ==
  ASSUME NEW level, Len(level) \in Nat
  PROVE  /\ IsSequence(Pairs(level)) /\ Len(Pairs(level)) = Len(level) \div 2
         /\ \A i \in 1 .. Len(level) \div 2 :
              Pairs(level)[i] = HashChildren(level[2 * i - 1], level[2 * i])
<1> DEFINE k == Len(level) \div 2
<1>1. k \in Nat
  OBVIOUS
<1>2. Pairs(level) = [i \in 1 .. k |-> HashChildren(level[2 * i - 1], level[2 * i])]
  BY DEF Pairs
<1> HIDE DEF k
<1>3. \A i \in 1 .. k : Pairs(level)[i] = HashChildren(level[2 * i - 1], level[2 * i])
  BY <1>2
<1>4. Pairs(level) = [i \in 1 .. k |-> Pairs(level)[i]]
  BY <1>2
<1> QED BY <1>1, <1>3, <1>4, FunctionIsSequence DEF k

\* A level of the reference definition: an odd last node goes up as it is.
LEMMA PairedUpFacts ==
  ASSUME NEW level, IsSequence(level), Len(level) > 1
  PROVE  /\ IsSequence(PairedUp(level)) /\ Len(PairedUp(level)) = (Len(level) + 1) \div 2
         /\ \A i \in 1 .. (Len(level) + 1) \div 2 :
              PairedUp(level)[i] =
                IF 2 * i <= Len(level) THEN HashChildren(level[2 * i - 1], level[2 * i])
                ELSE level[Len(level)]
<1> DEFINE L == Len(level)
           tail == IF Odd(L) THEN <<Last(level)>> ELSE <<>>
           k == L \div 2
           half == Pairs(level)
<1>1. L \in Nat /\ k \in Nat /\ (L = 2 * k \/ L = 2 * k + 1) /\ (Odd(L) <=> L = 2 * k + 1)
  BY SequenceFacts DEF Odd
<1>2. /\ IsSequence(half) /\ Len(half) = k
      /\ \A i \in 1 .. k : half[i] = HashChildren(level[2 * i - 1], level[2 * i])
  BY <1>1, PairsFacts
<1>3. PairedUp(level) = half \o tail
  BY DEF PairedUp
<1>4. Last(level) = level[L]
  BY DEF Last
<1> HIDE DEF half, k, L
<1>5. CASE Odd(L)
  <2>1. tail = <<level[L]>>
    BY <1>4, <1>5
  <2>2. IsSequence(tail) /\ Len(tail) = 1 /\ tail[1] = level[L]
    BY <2>1, OneNode
  <2> HIDE DEF tail
  <2>3. L = 2 * k + 1 /\ (L + 1) \div 2 = k + 1
    BY <1>1, <1>5
  <2>4. /\ IsSequence(half \o tail) /\ Len(half \o tail) = k + 1
        /\ \A i \in 1 .. k + 1 : (half \o tail)[i] = IF i <= k THEN half[i] ELSE tail[i - k]
    <3>1. /\ IsSequence(half \o tail) /\ Len(half \o tail) = Len(half) + Len(tail)
          /\ \A i \in 1 .. Len(half) + Len(tail) :
               (half \o tail)[i] = IF i <= Len(half) THEN half[i] ELSE tail[i - Len(half)]
      BY <1>2, <2>2, ConcatFacts
    <3> QED BY <1>2, <2>2, <3>1
  <2>5. ASSUME NEW i \in 1 .. k + 1
        PROVE  (half \o tail)[i] =
                 IF 2 * i <= L THEN HashChildren(level[2 * i - 1], level[2 * i]) ELSE level[L]
    <3>1. CASE i <= k
      <4>1. i \in 1 .. k /\ 2 * i <= L
        BY <1>1, <2>3, <3>1
      <4> QED BY <1>2, <2>4, <3>1, <4>1
    <3>2. CASE i = k + 1
      <4>1. ~(i <= k) /\ i - k = 1 /\ ~(2 * i <= L)
        BY <1>1, <2>3, <3>2
      <4> QED BY <2>2, <2>4, <4>1
    <3>3. i <= k \/ i = k + 1
      BY <1>1
    <3> QED BY <3>1, <3>2, <3>3
  <2> QED BY <1>3, <2>3, <2>4, <2>5 DEF L
<1>6. CASE ~ Odd(L)
  <2>1. tail = <<>>
    BY <1>6
  <2>2. IsSequence(tail) /\ Len(tail) = 0
    BY <2>1, EmptySequence
  <2> HIDE DEF tail
  <2>3. L = 2 * k /\ (L + 1) \div 2 = k
    BY <1>1, <1>6
  <2>4. /\ IsSequence(half \o tail) /\ Len(half \o tail) = k
        /\ \A i \in 1 .. k : (half \o tail)[i] = IF i <= k THEN half[i] ELSE tail[i - k]
    BY <1>1, <1>2, <2>2, ConcatFacts
  <2>5. ASSUME NEW i \in 1 .. k
        PROVE  (half \o tail)[i] = HashChildren(level[2 * i - 1], level[2 * i]) /\ 2 * i <= L
    BY <1>1, <1>2, <2>3, <2>4
  <2> QED BY <1>3, <2>3, <2>4, <2>5 DEF L
<1> QED BY <1>5, <1>6

LevelMeasure(p) == p.h

NodeLevelDef(f, p) ==
  IF p.h = 0 THEN [i \in DOMAIN p.log |-> HashLeaf(p.log[i])]
  ELSE LET level == f[[p EXCEPT !.h = @ - 1]]
       IN IF Len(level) > 1 THEN PairedUp(level) ELSE level
NodeLevels == INSTANCE RecursiveFunctions
                WITH Dom <- Levels, Measure <- LevelMeasure, Def <- NodeLevelDef

AnchorLevelDef(f, p) ==
  IF p.h = 0 THEN [i \in DOMAIN p.log |-> HashLeaf(p.log[i])]
  ELSE LET level == f[[p EXCEPT !.h = @ - 1]]
       IN IF Len(level) > 1 THEN Pairs(Evened(level)) ELSE level
AnchorLevels == INSTANCE RecursiveFunctions
                  WITH Dom <- Levels, Measure <- LevelMeasure, Def <- AnchorLevelDef

\* Both level-by-level definitions satisfy their equations.
LEMMA LevelEquations ==
  /\ NodeLevel = [p \in Levels |-> NodeLevelDef(NodeLevel, p)]
  /\ AnchorLevel = [p \in Levels |-> AnchorLevelDef(AnchorLevel, p)]
<1>1. \A p \in Levels : LevelMeasure(p) \in Nat
  BY DEF LevelMeasure, Levels
<1>2. ASSUME NEW p \in Levels, p.h # 0
      PROVE  [p EXCEPT !.h = @ - 1] \in Levels
             /\ LevelMeasure([p EXCEPT !.h = @ - 1]) < LevelMeasure(p)
  BY <1>2 DEF Levels, LevelMeasure
<1>3. NodeLevels!WellDefined
  <2>1. ASSUME NEW g, NEW h, NEW p \in Levels,
               \A q \in Levels : LevelMeasure(q) < LevelMeasure(p) => g[q] = h[q]
        PROVE  NodeLevelDef(g, p) = NodeLevelDef(h, p)
    BY <1>2, <2>1 DEF NodeLevelDef
  <2> QED BY <1>1, <2>1 DEF NodeLevels!WellDefined
<1>4. AnchorLevels!WellDefined
  <2>1. ASSUME NEW g, NEW h, NEW p \in Levels,
               \A q \in Levels : LevelMeasure(q) < LevelMeasure(p) => g[q] = h[q]
        PROVE  AnchorLevelDef(g, p) = AnchorLevelDef(h, p)
    BY <1>2, <2>1 DEF AnchorLevelDef
  <2> QED BY <1>1, <2>1 DEF AnchorLevels!WellDefined
<1>5. NodeLevel = CHOOSE g : g = [p \in Levels |-> NodeLevelDef(g, p)]
  BY DEF NodeLevel, NodeLevelDef, Levels
<1>6. AnchorLevel = CHOOSE g : g = [p \in Levels |-> AnchorLevelDef(g, p)]
  BY DEF AnchorLevel, AnchorLevelDef, Levels
<1> QED BY <1>3, <1>4, <1>5, <1>6, NodeLevels!Recursion, AnchorLevels!Recursion

LevelOf(log, h) == NodeLevel[[log |-> log, h |-> h]]
AnchoredLevel(log, h) == AnchorLevel[[log |-> log, h |-> h]]

\* Both, by the log and the height: the leaves' hashes, and one round more.
LEMMA LevelFacts ==
  ASSUME NEW log \in Seq(Int), NEW h \in Nat
  PROVE  /\ LevelOf(log, 0) = [i \in 1 .. Len(log) |-> HashLeaf(log[i])]
         /\ AnchoredLevel(log, 0) = [i \in 1 .. Len(log) |-> HashLeaf(log[i])]
         /\ LevelOf(log, h + 1) = IF Len(LevelOf(log, h)) > 1 THEN PairedUp(LevelOf(log, h))
                                  ELSE LevelOf(log, h)
         /\ AnchoredLevel(log, h + 1) =
              IF Len(AnchoredLevel(log, h)) > 1 THEN Pairs(Evened(AnchoredLevel(log, h)))
              ELSE AnchoredLevel(log, h)
<1> DEFINE p == [log |-> log, h |-> 0]
           q == [log |-> log, h |-> h + 1]
<1>1. p \in Levels /\ q \in Levels /\ DOMAIN log = 1 .. Len(log)
  BY DEF Levels
<1>2. q.h # 0 /\ [q EXCEPT !.h = @ - 1] = [log |-> log, h |-> h]
  OBVIOUS
<1>3. p.h = 0 /\ p.log = log
  OBVIOUS
<1> HIDE DEF p, q
<1>4. /\ NodeLevel[p] = NodeLevelDef(NodeLevel, p) /\ NodeLevel[q] = NodeLevelDef(NodeLevel, q)
      /\ AnchorLevel[p] = AnchorLevelDef(AnchorLevel, p)
      /\ AnchorLevel[q] = AnchorLevelDef(AnchorLevel, q)
  BY <1>1, LevelEquations
<1>5. /\ NodeLevel[p] = [i \in 1 .. Len(log) |-> HashLeaf(log[i])]
      /\ AnchorLevel[p] = [i \in 1 .. Len(log) |-> HashLeaf(log[i])]
  BY <1>1, <1>3, <1>4 DEF NodeLevelDef, AnchorLevelDef
<1>6. /\ NodeLevel[q] = IF Len(LevelOf(log, h)) > 1 THEN PairedUp(LevelOf(log, h))
                        ELSE LevelOf(log, h)
      /\ AnchorLevel[q] =
              IF Len(AnchoredLevel(log, h)) > 1 THEN Pairs(Evened(AnchoredLevel(log, h)))
              ELSE AnchoredLevel(log, h)
  BY <1>2, <1>4 DEF NodeLevelDef, AnchorLevelDef, LevelOf, AnchoredLevel
<1> QED BY <1>5, <1>6 DEF LevelOf, AnchoredLevel, p, q

\* The level h of a log: node i is the tree of the leaves under it.
Block(log, h, i) ==
  LET n == Len(log)
  IN Tree(log, (i - 1) * Power[h],
          IF i * Power[h] <= n THEN Power[h] ELSE n - (i - 1) * Power[h])

Blocks(log, h, level) ==
  /\ IsSequence(level) /\ Len(level) > 0
  /\ (Len(level) - 1) * Power[h] < Len(log) /\ Len(log) <= Len(level) * Power[h]
  /\ \A i \in 1 .. Len(level) : level[i] = Block(log, h, i)

\* Level 0 is the hashes of the leaves.
LEMMA LeavesAreBlocks ==
  ASSUME NEW log \in Seq(Int), Len(log) > 0
  PROVE  Blocks(log, 0, LevelOf(log, 0))
<1> DEFINE n == Len(log)
           level == LevelOf(log, 0)
<1>1. n \in Nat /\ n > 0
  OBVIOUS
<1>2. level = [i \in 1 .. n |-> HashLeaf(log[i])]
  BY LevelFacts
<1> HIDE DEF level
<1>3. \A i \in 1 .. n : level[i] = HashLeaf(log[i])
  BY <1>2
<1>4. IsSequence(level) /\ Len(level) = n
  <2>1. level = [i \in 1 .. n |-> level[i]]
    BY <1>2
  <2> QED BY <1>1, <2>1, FunctionIsSequence
<1>5. ASSUME NEW i \in 1 .. n PROVE level[i] = Block(log, 0, i)
  <2>1. (i - 1) * Power[0] = i - 1 /\ i * Power[0] = i /\ i <= n /\ Power[0] = 1
    BY <1>1, PowerFacts
  <2>2. Block(log, 0, i) = Tree(log, i - 1, 1)
    BY <2>1 DEF Block
  <2>3. In(log, i - 1, 1) /\ (i - 1) + 1 = i
    BY <1>1 DEF In, IsLog
  <2>4. Tree(log, i - 1, 1) = HashLeaf(log[i])
    BY <2>3, TreeFacts
  <2> QED BY <1>3, <2>2, <2>4
<1>6. (n - 1) * Power[0] < n /\ n <= n * Power[0]
  <2>1. (n - 1) * Power[0] = n - 1 /\ n * Power[0] = n
    BY <1>1, PowerFacts
  <2> QED BY <1>1, <2>1
<1> QED BY <1>1, <1>4, <1>5, <1>6 DEF Blocks, level

\* The places of the two children of a node.
LEMMA Doubles ==
  ASSUME NEW i \in Nat, i > 0, NEW P \in Nat
  PROVE  /\ (i - 1) * (2 * P) = (2 * i - 2) * P /\ i * (2 * P) = (2 * i - 2) * P + 2 * P
         /\ ((2 * i - 1) - 1) * P = (2 * i - 2) * P
         /\ (2 * i - 1) * P = (2 * i - 2) * P + P
         /\ (2 * i) * P = (2 * i - 2) * P + 2 * P
         /\ (2 * i - 2) * P \in Nat
<1> DEFINE j == i - 1
<1>1. j \in Nat /\ i = j + 1
  OBVIOUS
<1> HIDE DEF j
<1>2. 2 * i - 2 = 2 * j /\ 2 * i - 1 = 2 * j + 1 /\ 2 * i = 2 * j + 2 /\ (2 * i - 1) - 1 = 2 * j
      /\ i - 1 = j
  BY <1>1
<1>3. \A u, v \in Nat : /\ u * (2 * v) = (2 * u) * v /\ (2 * u) * v \in Nat
                        /\ (u + 1) * (2 * v) = (2 * u) * v + 2 * v
                        /\ (2 * u + 1) * v = (2 * u) * v + v
                        /\ (2 * u + 2) * v = (2 * u) * v + 2 * v
  OBVIOUS
<1> QED BY <1>1, <1>2, <1>3

\* Pairing a level up gives the next one: two neighbours are split where the
\* recursive hash splits them, and a last one without a neighbour is a tree of
\* its own.
LEMMA BlocksPairUp ==
  ASSUME NEW log \in Seq(Int), NEW h \in Nat, NEW level, Blocks(log, h, level), Len(level) > 1
  PROVE  Blocks(log, h + 1, PairedUp(level))
<1> DEFINE n == Len(log)
           L == Len(level)
           P == Power[h]
           M == (L + 1) \div 2
           up == PairedUp(level)
<1>1. n \in Nat /\ L \in Nat /\ L > 1 /\ P \in Nat /\ P > 0 /\ Power[h + 1] = 2 * P
  BY SequenceFacts, PowerFacts DEF Blocks
<1>2. /\ IsSequence(up) /\ Len(up) = M
      /\ \A i \in 1 .. M : up[i] = IF 2 * i <= L THEN HashChildren(level[2 * i - 1], level[2 * i])
                                   ELSE level[L]
  BY PairedUpFacts DEF Blocks
<1>3. M \in Nat /\ M > 0 /\ 2 * M <= L + 1 /\ L <= 2 * M
  BY <1>1
<1>4. (L - 1) * P < n /\ n <= L * P /\ \A i \in 1 .. L : level[i] = Block(log, h, i)
  BY DEF Blocks
<1> HIDE DEF n, L, P, M, up
<1>5. \A u, v \in Nat : u <= v => u * P <= v * P /\ u * P \in Nat /\ v * P \in Nat
  BY <1>1, Multiples
<1>6. (M - 1) * (2 * P) < n /\ n <= M * (2 * P)
  <2>1. (M - 1) * (2 * P) = (2 * M - 2) * P /\ M * (2 * P) = (2 * M) * P
    BY <1>1, <1>3, Doubles
  <2>2. 2 * M - 2 \in Nat /\ 2 * M \in Nat /\ 2 * M - 2 <= L - 1 /\ L - 1 \in Nat
    BY <1>1, <1>3
  <2>3. (2 * M - 2) * P <= (L - 1) * P /\ L * P <= (2 * M) * P
    BY <1>1, <1>3, <1>5, <2>2
  <2>4. /\ (2 * M - 2) * P \in Nat /\ (L - 1) * P \in Nat /\ L * P \in Nat /\ (2 * M) * P \in Nat
    BY <1>1, <1>5, <2>2
  <2> QED BY <1>1, <1>4, <2>1, <2>3, <2>4
<1>7. ASSUME NEW i \in 1 .. M PROVE up[i] = Block(log, h + 1, i)
  <2> DEFINE o == (2 * i - 2) * P
  <2>1. i \in Nat /\ i > 0
    BY <1>3
  <2>2. /\ (i - 1) * (2 * P) = o /\ i * (2 * P) = o + 2 * P
        /\ ((2 * i - 1) - 1) * P = o /\ (2 * i - 1) * P = o + P /\ (2 * i) * P = o + 2 * P
        /\ o \in Nat
    BY <1>1, <2>1, Doubles
  <2> HIDE DEF o
  <2>3. Block(log, h + 1, i) = Tree(log, o, IF o + 2 * P <= n THEN 2 * P ELSE n - o)
    BY <1>1, <2>2 DEF Block, n
  <2>4. CASE 2 * i <= L
    <3> DEFINE w == IF o + 2 * P <= n THEN P ELSE n - (o + P)
    <3>1. 2 * i - 1 \in 1 .. L /\ 2 * i \in 1 .. L /\ 2 * i - 1 \in Nat /\ 2 * i - 1 <= L - 1
          /\ L - 1 \in Nat
      BY <1>1, <2>1, <2>4
    <3>2. o + P < n
      <4> DEFINE x == (L - 1) * P
      <4>1. o + P <= x /\ x \in Nat
        BY <1>5, <2>2, <3>1
      <4>2. x < n
        BY <1>4
      <4> HIDE DEF x
      <4> QED BY <1>1, <2>2, <4>1, <4>2
    <3>3. level[2 * i - 1] = Tree(log, o, P)
      <4>1. level[2 * i - 1] = Block(log, h, 2 * i - 1)
        BY <1>4, <3>1
      <4>2. o + P <= n
        BY <1>1, <2>2, <3>2
      <4> QED BY <2>2, <4>1, <4>2 DEF Block, P, n
    <3>4. level[2 * i] = Tree(log, o + P, w)
      <4>1. level[2 * i] = Block(log, h, 2 * i)
        BY <1>4, <3>1
      <4>2. Block(log, h, 2 * i) = Tree(log, (2 * i - 1) * P,
                                        IF (2 * i) * P <= n THEN P ELSE n - (2 * i - 1) * P)
        BY DEF Block, P, n
      <4> QED BY <2>2, <4>1, <4>2
    <3>5. w \in Nat /\ w > 0 /\ w <= P /\ o + (P + w) <= n
      BY <1>1, <2>2, <3>2
    <3>6. Block(log, h + 1, i) = Tree(log, o, P + w)
      <4>1. (IF o + 2 * P <= n THEN 2 * P ELSE n - o) = P + w
        BY <1>1, <2>2
      <4> QED BY <2>3, <4>1
    <3> HIDE DEF w
    <3>7. Split(P + w) = P
      <4>1. P + w \in Nat /\ Power[h] < P + w /\ P + w <= Power[h + 1]
        BY <1>1, <3>5 DEF P
      <4> QED BY <4>1, SplitAt DEF P
    <3>8. In(log, o, P + w) /\ P + w > 1
      BY <1>1, <2>2, <3>5 DEF In, IsLog, n
    <3>9. Tree(log, o, P + w) = HashChildren(Tree(log, o, P), Tree(log, o + P, (P + w) - P))
      BY <3>7, <3>8, TreeFacts
    <3>10. (P + w) - P = w
      BY <1>1, <3>5
    <3> QED BY <1>2, <2>4, <3>3, <3>4, <3>6, <3>9, <3>10
  <2>5. CASE ~(2 * i <= L)
    <3>1. L = 2 * i - 1 /\ L \in 1 .. L
      BY <1>1, <1>3, <2>1, <2>5
    <3>2. level[L] = Block(log, h, 2 * i - 1)
      BY <1>4, <3>1
    <3>3. Block(log, h, 2 * i - 1) = Tree(log, o, IF o + P <= n THEN P ELSE n - o)
      BY <2>2 DEF Block, P, n
    <3>4. n <= o + P
      BY <1>4, <2>2, <3>1
    <3>5. (IF o + P <= n THEN P ELSE n - o) = n - o /\ ~(o + 2 * P <= n)
      BY <1>1, <2>2, <3>4
    <3>6. Block(log, h + 1, i) = Tree(log, o, n - o)
      BY <2>3, <3>5
    <3> QED BY <1>2, <2>5, <3>2, <3>3, <3>5, <3>6
  <2> QED BY <2>4, <2>5
<1>8. (Len(up) - 1) * Power[h + 1] < Len(log) /\ Len(log) <= Len(up) * Power[h + 1]
  BY <1>1, <1>2, <1>6 DEF n
<1> QED BY <1>2, <1>3, <1>7, <1>8 DEF Blocks, up

\* So every level holds the trees of its blocks of leaves.
LEMMA AllBlocks ==
  ASSUME NEW log \in Seq(Int), Len(log) > 0
  PROVE  \A h \in Nat : Blocks(log, h, LevelOf(log, h))
<1> DEFINE Bad == {h \in Nat : ~ Blocks(log, h, LevelOf(log, h))}
<1>1. SUFFICES ASSUME Bad # {} PROVE FALSE
  OBVIOUS
<1>2. PICK g \in Bad : \A f \in Bad : g <= f
  BY <1>1, Powers!LeastNumber
<1>3. g # 0
  BY <1>2, LeavesAreBlocks
<1> DEFINE h == g - 1
<1>4. h \in Nat /\ h \notin Bad /\ g = h + 1
  BY <1>2, <1>3
<1> HIDE DEF h
<1> DEFINE level == LevelOf(log, h)
<1>5. Blocks(log, h, level)
  BY <1>4
<1>6. LevelOf(log, h + 1) = IF Len(level) > 1 THEN PairedUp(level) ELSE level
  BY <1>4, LevelFacts
<1> HIDE DEF level
<1>7. CASE Len(level) > 1
  BY <1>2, <1>4, <1>5, <1>6, <1>7, BlocksPairUp
<1>8. CASE ~(Len(level) > 1)
  <2>1. Len(level) = 1 /\ Len(log) \in Nat /\ Power[h] \in Nat /\ Power[h] > 0
        /\ Power[h + 1] = 2 * Power[h]
    <3>1. IsSequence(level) /\ Len(level) > 0
      BY <1>5 DEF Blocks
    <3>2. Len(level) \in Nat
      BY <3>1, SequenceFacts
    <3>3. Power[h] \in Nat /\ Power[h] > 0 /\ Power[h + 1] = 2 * Power[h]
      BY <1>4, PowerFacts
    <3>4. Len(log) \in Nat
      OBVIOUS
    <3>5. \A x \in Nat : x > 0 /\ ~(x > 1) => x = 1
      OBVIOUS
    <3>6. Len(level) = 1
      BY <1>8, <3>1, <3>2, <3>5, Zenon
    <3> QED BY <3>3, <3>4, <3>6
  <2>2. /\ (1 - 1) * Power[h] = 0 /\ 1 * Power[h] = Power[h]
        /\ (1 - 1) * Power[h + 1] = 0 /\ 1 * Power[h + 1] = 2 * Power[h]
    BY <2>1
  <2>3. Len(log) <= Power[h]
    BY <1>5, <2>1, <2>2 DEF Blocks
  <2>4. Block(log, h, 1) = Tree(log, 0, Len(log)) /\ Block(log, h + 1, 1) = Tree(log, 0, Len(log))
    <3>1. (IF Power[h] <= Len(log) THEN Power[h] ELSE Len(log) - 0) = Len(log)
      BY <2>1, <2>3
    <3>2. (IF 2 * Power[h] <= Len(log) THEN 2 * Power[h] ELSE Len(log) - 0) = Len(log)
      BY <2>1, <2>3
    <3>3. Block(log, h, 1) =
            Tree(log, 0, IF Power[h] <= Len(log) THEN Power[h] ELSE Len(log) - 0)
      BY <2>2 DEF Block
    <3>4. Block(log, h + 1, 1) =
            Tree(log, 0, IF 2 * Power[h] <= Len(log) THEN 2 * Power[h] ELSE Len(log) - 0)
      BY <2>1, <2>2 DEF Block
    <3> QED BY <3>1, <3>2, <3>3, <3>4
  <2>5. level[1] = Block(log, h + 1, 1)
    BY <1>5, <2>1, <2>4 DEF Blocks
  <2>6. \A i \in 1 .. Len(level) : level[i] = Block(log, h + 1, i)
    BY <2>1, <2>5
  <2>7. Blocks(log, h + 1, level)
    BY <1>5, <2>1, <2>2, <2>3, <2>6 DEF Blocks
  <2> QED BY <1>2, <1>4, <1>6, <1>8, <2>7
<1> QED BY <1>7, <1>8

\* A number is smaller than the power of two it is the exponent of.
LEMMA PowerExceeds == \A i \in Nat : i < Power[i]
<1> DEFINE Bad == {i \in Nat : ~(i < Power[i])}
<1>1. SUFFICES ASSUME Bad # {} PROVE FALSE
  OBVIOUS
<1>2. PICK i \in Bad : \A j \in Bad : i <= j
  BY <1>1, Powers!LeastNumber
<1>3. i # 0
  BY <1>2, PowerFacts
<1>4. i - 1 \in Nat /\ i - 1 \notin Bad /\ i = (i - 1) + 1
  BY <1>2, <1>3
<1>5. i - 1 < Power[i - 1] /\ Power[i] = 2 * Power[i - 1] /\ Power[i - 1] \in Nat
  BY <1>4, PowerFacts
<1> QED BY <1>2, <1>4, <1>5

\* The recursive root of a whole log is the level-by-level one: after as many
\* rounds as there are leaves one block is left.
LEMMA RootIsByLevels ==
  ASSUME NEW log \in Seq(Int)
  PROVE  RootByLevels(log) = RootAt(log, Len(log))
<1> DEFINE n == Len(log)
<1>1. n \in Nat /\ 0 + n = n
  OBVIOUS
<1>2. RootAt(log, n) = Tree(log, 0, n)
  BY <1>1 DEF RootAt, Tree
<1>3. CASE log = <<>>
  <2>1. n = 0 /\ In(log, 0, 0)
    BY <1>3 DEF In, IsLog
  <2>2. Tree(log, 0, n) = <<>>
    BY <2>1, TreeFacts
  <2> QED BY <1>2, <1>3, <2>2 DEF RootByLevels
<1>4. CASE log # <<>>
  <2>1. n > 0
    BY <1>4
  <2> DEFINE level == LevelOf(log, n)
             L == Len(level)
             P == Power[n]
  <2>2. Blocks(log, n, level)
    BY <1>1, <2>1, AllBlocks
  <2>3. n < P /\ P \in Nat
    BY <1>1, PowerExceeds, PowerType
  <2>4. L \in Nat /\ L > 0 /\ (L - 1) * P < n
    BY <2>2, SequenceFacts DEF Blocks
  <2> HIDE DEF level
  <2>5. L = 1
    <3>1. ASSUME L > 1 PROVE FALSE
      <4>1. 1 \in Nat /\ L - 1 \in Nat /\ 1 <= L - 1
        BY <2>4, <3>1
      <4>2. P > 0
        BY <1>1, <2>3
      <4>3. 1 * P <= (L - 1) * P
        BY <2>3, <4>1, <4>2, Multiples
      <4>4. (L - 1) * P \in Nat /\ 1 * P = P
        BY <2>3, <4>1, <4>2, Multiples
      <4> QED BY <1>1, <2>3, <2>4, <4>3, <4>4
    <3>2. L \in Nat /\ L > 0
      BY <2>4
    <3> HIDE DEF L
    <3> QED BY <3>1, <3>2
  <2>6. level[1] = Block(log, n, 1)
    BY <2>2, <2>5 DEF Blocks
  <2>7. Block(log, n, 1) = Tree(log, 0, n)
    <3>1. (1 - 1) * P = 0 /\ 1 * P = P
      BY <2>3
    <3>2. (IF P <= n THEN P ELSE n - 0) = n
      BY <1>1, <2>3
    <3>3. Block(log, n, 1) = Tree(log, 0, IF P <= n THEN P ELSE n - 0)
      BY <3>1 DEF Block
    <3> QED BY <3>2, <3>3
  <2> QED BY <1>2, <1>4, <2>6, <2>7 DEF RootByLevels, LevelOf, level
<1> QED BY <1>3, <1>4

\* A tree is that of its leaves, in whatever log.
SameTree(n) ==
  \A A, s, B, t :
    /\ In(A, s, n) /\ In(B, t, n) /\ \A i \in 1 .. n : A[s + i] = B[t + i]
    => Tree(A, s, n) = Tree(B, t, n)

\* A tree depends on the leaves under it only.
LEMMA AllSameTree == \A n \in Nat : SameTree(n)
<1> DEFINE Bad == {n \in Nat : ~ SameTree(n)}
<1>1. SUFFICES ASSUME Bad # {} PROVE FALSE
  OBVIOUS
<1>2. PICK n \in Bad : \A l \in Bad : n <= l
  BY <1>1, Powers!LeastNumber
<1>3. n \in Nat /\ ~ SameTree(n) /\ \A l \in Nat : l < n => SameTree(l)
  BY <1>2
<1> HIDE DEF Bad
<1>4. SUFFICES ASSUME NEW A, NEW s, NEW B, NEW t, In(A, s, n), In(B, t, n),
                      \A i \in 1 .. n : A[s + i] = B[t + i]
               PROVE  Tree(A, s, n) = Tree(B, t, n)
  BY <1>3 DEF SameTree
<1>5. CASE n = 0
  BY <1>4, <1>5, TreeFacts
<1>6. CASE n = 1
  <2>1. A[s + 1] = B[t + 1]
    BY <1>4, <1>6
  <2> QED BY <1>4, <1>6, <2>1, TreeFacts
<1>7. CASE n > 1
  <2> DEFINE k == Split(n)
  <2>1. /\ In(A, s, k) /\ In(A, s + k, n - k) /\ In(B, t, k) /\ In(B, t + k, n - k)
        /\ k \in Nat /\ 0 < k /\ k < n /\ s \in Nat /\ t \in Nat
    BY <1>4, <1>7, PartsIn
  <2>2. /\ Tree(A, s, n) = HashChildren(Tree(A, s, k), Tree(A, s + k, n - k))
        /\ Tree(B, t, n) = HashChildren(Tree(B, t, k), Tree(B, t + k, n - k))
    BY <1>4, <1>7, TreeFacts
  <2> HIDE DEF k
  <2>3. SameTree(k) /\ SameTree(n - k)
    BY <1>3, <2>1
  <2>4. Tree(A, s, k) = Tree(B, t, k)
    <3>1. \A i \in 1 .. k : A[s + i] = B[t + i]
      BY <1>3, <1>4, <2>1
    <3> QED BY <2>1, <2>3, <3>1 DEF SameTree
  <2>5. Tree(A, s + k, n - k) = Tree(B, t + k, n - k)
    <3>1. ASSUME NEW i \in 1 .. n - k PROVE A[(s + k) + i] = B[(t + k) + i]
      <4>1. k + i \in 1 .. n /\ (s + k) + i = s + (k + i) /\ (t + k) + i = t + (k + i)
        BY <1>3, <2>1
      <4> QED BY <1>4, <4>1
    <3> QED BY <2>1, <2>3, <3>1 DEF SameTree
  <2> QED BY <2>2, <2>4, <2>5
<1> QED BY <1>3, <1>5, <1>6, <1>7

\* RootsAreRFC6962: the recursive root of any size is the level-by-level one.
THEOREM RootIsRFC6962 ==
  ASSUME NEW log \in Seq(Int), NEW n \in 0 .. Len(log)
  PROVE  RootAt(log, n) = RootByLevels(SubSeq(log, 1, n))
<1> DEFINE sub == SubSeq(log, 1, n)
<1>1. sub \in Seq(Int) /\ Len(sub) = n /\ \A i \in 1 .. n : sub[i] = log[i]
  OBVIOUS
<1>2. n \in Nat /\ 0 + n = n /\ Len(log) \in Nat /\ n <= Len(log)
  OBVIOUS
<1> HIDE DEF sub
<1>3. In(log, 0, n) /\ In(sub, 0, n)
  BY <1>1, <1>2 DEF In, IsLog
<1>4. \A i \in 1 .. n : log[0 + i] = sub[0 + i]
  <2>1. \A i \in 1 .. n : 0 + i = i
    BY <1>2
  <2> QED BY <1>1, <2>1
<1>5. SameTree(n)
  BY <1>2, AllSameTree
<1>6. Tree(log, 0, n) = Tree(sub, 0, n)
  BY <1>3, <1>4, <1>5 DEF SameTree
<1>7. RootAt(log, n) = RootAt(sub, n)
  BY <1>2, <1>6 DEF RootAt, Tree
<1> QED BY <1>1, <1>7, RootIsByLevels DEF sub

-----------------------------------------------------------------------------
(* The anchor worker's root.                                                 *)

\* A round of the anchor worker: pairs of an evened level, whose elements are
\* the level's own up to its length.
LEMMA EvenedFacts ==
  ASSUME NEW level, IsSequence(level), Len(level) > 0
  PROVE  LET L == Len(level)
             up == Pairs(Evened(level))
         IN /\ IsSequence(up) /\ Len(up) = (L + 1) \div 2
            /\ \A i \in 1 .. (L + 1) \div 2 :
                 up[i] = HashChildren(level[2 * i - 1], Evened(level)[2 * i])
            /\ \A j \in 1 .. L : Evened(level)[j] = level[j]
<1> DEFINE L == Len(level)
           even == Evened(level)
<1>1. L \in Nat /\ L > 0
  BY SequenceFacts
<1>2. /\ Len(even) \in Nat /\ Len(even) \div 2 = (L + 1) \div 2
      /\ \A j \in 1 .. L : even[j] = level[j]
  <2>1. CASE Odd(L)
    <3>1. even = Append(level, Last(level))
      BY <2>1 DEF Evened
    <3>2. Len(even) = L + 1 /\ \A j \in 1 .. L : even[j] = level[j]
      BY <3>1, SequenceFacts
    <3> HIDE DEF even, L
    <3> QED BY <1>1, <3>2
  <2>2. CASE ~ Odd(L)
    <3>1. even = level
      BY <2>2 DEF Evened
    <3>2. Len(even) = L /\ \A j \in 1 .. L : even[j] = level[j]
      BY <3>1
    <3>3. (L + 1) \div 2 = L \div 2
      BY <1>1, <2>2 DEF Odd
    <3> HIDE DEF even, L
    <3> QED BY <1>1, <3>2, <3>3
  <2> QED BY <2>1, <2>2
<1>3. /\ IsSequence(Pairs(even)) /\ Len(Pairs(even)) = (L + 1) \div 2
      /\ \A i \in 1 .. (L + 1) \div 2 : Pairs(even)[i] = HashChildren(even[2 * i - 1], even[2 * i])
  <2> HIDE DEF even, L
  <2> QED BY <1>2, PairsFacts
<1>4. \A i \in 1 .. (L + 1) \div 2 : 2 * i - 1 \in 1 .. L
  <2> HIDE DEF L
  <2> QED BY <1>1
<1> QED BY <1>2, <1>3, <1>4

\* The shape of the level h of a log of n leaves: a sequence that is one node
\* long once h has reached n.
Shaped(level, n, h) ==
  /\ IsSequence(level) /\ Len(level) > 0
  /\ Len(level) = 1 \/ Len(level) + h <= n

\* The levels of two logs of one length have the same length, and after as
\* many rounds as there are leaves one node is left.
LEMMA AllShaped ==
  ASSUME NEW A \in Seq(Int), NEW B \in Seq(Int), Len(A) > 0, Len(B) = Len(A)
  PROVE  \A h \in Nat : /\ Shaped(AnchoredLevel(A, h), Len(A), h)
                        /\ Shaped(AnchoredLevel(B, h), Len(A), h)
                        /\ Len(AnchoredLevel(A, h)) = Len(AnchoredLevel(B, h))
<1> DEFINE n == Len(A)
           Good(h) == /\ Shaped(AnchoredLevel(A, h), n, h)
                      /\ Shaped(AnchoredLevel(B, h), n, h)
                      /\ Len(AnchoredLevel(A, h)) = Len(AnchoredLevel(B, h))
           Bad == {h \in Nat : ~ Good(h)}
<1>1. n \in Nat /\ n > 0
  OBVIOUS
<1>2. Good(0)
  <2>1. /\ AnchoredLevel(A, 0) = [i \in 1 .. n |-> HashLeaf(A[i])]
        /\ AnchoredLevel(B, 0) = [i \in 1 .. n |-> HashLeaf(B[i])]
    BY LevelFacts
  <2>2. IsSequence(AnchoredLevel(A, 0)) /\ Len(AnchoredLevel(A, 0)) = n
    <3>1. AnchoredLevel(A, 0) = [i \in 1 .. n |-> AnchoredLevel(A, 0)[i]]
      BY <2>1
    <3> QED BY <1>1, <3>1, FunctionIsSequence
  <2>3. IsSequence(AnchoredLevel(B, 0)) /\ Len(AnchoredLevel(B, 0)) = n
    <3>1. AnchoredLevel(B, 0) = [i \in 1 .. n |-> AnchoredLevel(B, 0)[i]]
      BY <2>1
    <3> QED BY <1>1, <3>1, FunctionIsSequence
  <2> QED BY <1>1, <2>2, <2>3 DEF Shaped
<1>3. ASSUME NEW h \in Nat, Good(h) PROVE Good(h + 1)
  <2> DEFINE a == AnchoredLevel(A, h)
             b == AnchoredLevel(B, h)
             L == Len(a)
  <2>1. L \in Nat /\ L > 0 /\ Len(b) = L /\ IsSequence(a) /\ IsSequence(b) /\ (L = 1 \/ L + h <= n)
    BY <1>3, SequenceFacts DEF Shaped
  <2>2. /\ AnchoredLevel(A, h + 1) = IF L > 1 THEN Pairs(Evened(a)) ELSE a
        /\ AnchoredLevel(B, h + 1) = IF L > 1 THEN Pairs(Evened(b)) ELSE b
    BY <2>1, LevelFacts
  <2> HIDE DEF a, b
  <2>3. CASE L > 1
    <3>1. /\ IsSequence(Pairs(Evened(a))) /\ Len(Pairs(Evened(a))) = (L + 1) \div 2
          /\ IsSequence(Pairs(Evened(b))) /\ Len(Pairs(Evened(b))) = (L + 1) \div 2
      BY <2>1, EvenedFacts
    <3> HIDE DEF L, n
    <3>2. L + h <= n
      BY <2>1, <2>3
    <3>3. (L + 1) \div 2 > 0 /\ (L + 1) \div 2 + (h + 1) <= n
      BY <1>1, <2>1, <2>3, <3>2
    <3> QED BY <2>2, <2>3, <3>1, <3>3 DEF Shaped, n
  <2>4. CASE ~(L > 1)
    <3>1. L = 1
      BY <2>1, <2>4
    <3> QED BY <2>1, <2>2, <2>4, <3>1 DEF Shaped
  <2> QED BY <2>3, <2>4
<1> HIDE DEF Good
<1>4. SUFFICES ASSUME Bad # {} PROVE FALSE
  BY DEF Good
<1>5. PICK g \in Bad : \A f \in Bad : g <= f
  BY <1>4, Powers!LeastNumber
<1>6. g # 0
  BY <1>2, <1>5
<1>7. g - 1 \in Nat /\ g - 1 \notin Bad /\ g = (g - 1) + 1
  BY <1>5, <1>6
<1> QED BY <1>3, <1>5, <1>7

\* AnchoredRootBinds: two logs of one length with the same anchor worker's
\* root are the same log: a level's pairs determine the level, in spite of the
\* duplicated last element.
THEOREM AnchoredRootBinds ==
  ASSUME NEW A \in Seq(Int), NEW B \in Seq(Int), Len(A) > 0, Len(B) = Len(A),
         AnchorRoot(A) = AnchorRoot(B)
  PROVE  A = B
<1> DEFINE n == Len(A)
           Same(h) == \A i \in 1 .. Len(AnchoredLevel(A, h)) :
                        AnchoredLevel(A, h)[i] = AnchoredLevel(B, h)[i]
           Unlike == {h \in Nat : h <= n /\ ~ Same(n - h)}
<1>1. n \in Nat /\ n > 0 /\ n - n = 0
  OBVIOUS
<1>2. \A h \in Nat : /\ Shaped(AnchoredLevel(A, h), n, h) /\ Shaped(AnchoredLevel(B, h), n, h)
                     /\ Len(AnchoredLevel(A, h)) = Len(AnchoredLevel(B, h))
                     /\ Len(AnchoredLevel(A, h)) \in Nat /\ Len(AnchoredLevel(A, h)) > 0
  BY AllShaped, SequenceFacts DEF Shaped
<1>3. Same(n)
  <2>1. Len(AnchoredLevel(A, n)) = 1
    <3> DEFINE L == Len(AnchoredLevel(A, n))
    <3>1. L \in Nat /\ L > 0 /\ (L = 1 \/ L + n <= n)
      BY <1>1, <1>2 DEF Shaped
    <3> HIDE DEF L
    <3>2. L = 1
      BY <1>1, <3>1
    <3> QED BY <3>2 DEF L
  <2>2. AnchoredLevel(A, n)[1] = AnchoredLevel(B, n)[1]
    BY DEF AnchorRoot, AnchoredLevel
  <2>3. \A i \in 1 .. 1 : i = 1
    OBVIOUS
  <2> HIDE DEF n
  <2> QED BY <2>1, <2>2, <2>3
<1>4. ASSUME NEW h \in Nat, Same(h + 1) PROVE Same(h)
  <2> DEFINE a == AnchoredLevel(A, h)
             b == AnchoredLevel(B, h)
             L == Len(a)
  <2>1. L \in Nat /\ L > 0 /\ Len(b) = L /\ IsSequence(a) /\ IsSequence(b)
    BY <1>2 DEF Shaped
  <2>2. /\ AnchoredLevel(A, h + 1) = IF L > 1 THEN Pairs(Evened(a)) ELSE a
        /\ AnchoredLevel(B, h + 1) = IF L > 1 THEN Pairs(Evened(b)) ELSE b
    BY <2>1, LevelFacts
  <2>3. \A i \in 1 .. Len(AnchoredLevel(A, h + 1)) :
           AnchoredLevel(A, h + 1)[i] = AnchoredLevel(B, h + 1)[i]
    BY <1>4
  <2>4. CASE L > 1
    <3> HIDE DEF a, b
    <3>1. /\ Len(Pairs(Evened(a))) = (L + 1) \div 2
          /\ \A i \in 1 .. (L + 1) \div 2 :
               Pairs(Evened(a))[i] = HashChildren(a[2 * i - 1], Evened(a)[2 * i])
          /\ \A j \in 1 .. L : Evened(a)[j] = a[j]
      BY <2>1, EvenedFacts
    <3>2. /\ \A i \in 1 .. (L + 1) \div 2 :
               Pairs(Evened(b))[i] = HashChildren(b[2 * i - 1], Evened(b)[2 * i])
          /\ \A j \in 1 .. L : Evened(b)[j] = b[j]
      BY <2>1, EvenedFacts
    <3> DEFINE k == (L + 1) \div 2
               p == Pairs(Evened(a))
               q == Pairs(Evened(b))
               ea == Evened(a)
               eb == Evened(b)
    <3>3. \A i \in 1 .. k : p[i] = q[i]
      BY <2>2, <2>3, <2>4, <3>1
    <3>4. \A i \in 1 .. k : /\ p[i] = HashChildren(a[2 * i - 1], ea[2 * i])
                            /\ q[i] = HashChildren(b[2 * i - 1], eb[2 * i])
      BY <3>1, <3>2
    <3>5. \A j \in 1 .. L : ea[j] = a[j] /\ eb[j] = b[j]
      BY <3>1, <3>2
    <3> HIDE DEF p, q, ea, eb
    <3>6. \A i \in 1 .. k : a[2 * i - 1] = b[2 * i - 1] /\ ea[2 * i] = eb[2 * i]
      <4>1. ASSUME NEW i \in 1 .. k PROVE a[2 * i - 1] = b[2 * i - 1] /\ ea[2 * i] = eb[2 * i]
        <5>1. HashChildren(a[2 * i - 1], ea[2 * i]) = HashChildren(b[2 * i - 1], eb[2 * i])
          BY <3>3, <3>4
        <5> QED BY <5>1, PairsAgree
      <4> QED BY <4>1
    <3>7. ASSUME NEW j \in 1 .. L PROVE a[j] = b[j]
      <4> DEFINE i == (j + 1) \div 2
      <4>1. i \in 1 .. k /\ (j = 2 * i - 1 \/ j = 2 * i)
        <5> HIDE DEF L
        <5> QED BY <2>1
      <4> HIDE DEF i, k
      <4>2. CASE j = 2 * i - 1
        BY <3>6, <4>1, <4>2
      <4>3. CASE j = 2 * i
        BY <3>5, <3>6, <4>1, <4>3
      <4> QED BY <4>1, <4>2, <4>3
    <3> QED BY <3>7 DEF a, b
  <2>5. CASE ~(L > 1)
    BY <2>2, <2>3, <2>5
  <2> QED BY <2>4, <2>5
<1>5. Same(0)
  <2> HIDE DEF Same
  <2>1. SUFFICES ASSUME ~ Same(0) PROVE FALSE
    OBVIOUS
  <2>2. n \in Unlike
    BY <1>1, <2>1
  <2>3. PICK h \in Unlike : \A f \in Unlike : h <= f
    BY <2>2, Powers!LeastNumber
  <2>4. h \in Nat /\ h <= n /\ ~ Same(n - h)
    BY <2>3
  <2>5. h # 0
    BY <1>1, <1>3, <2>4
  <2>6. h - 1 \in Nat /\ h - 1 <= n /\ ~(h <= h - 1)
    BY <2>4, <2>5
  <2>7. Same(n - (h - 1))
    BY <2>3, <2>6
  <2>8. n - h \in Nat /\ n - (h - 1) = (n - h) + 1
    BY <1>1, <2>4
  <2> QED BY <1>4, <2>4, <2>7, <2>8
<1>6. /\ AnchoredLevel(A, 0) = [i \in 1 .. n |-> HashLeaf(A[i])]
      /\ AnchoredLevel(B, 0) = [i \in 1 .. n |-> HashLeaf(B[i])]
  BY LevelFacts
<1>7. Len(AnchoredLevel(A, 0)) = n
  BY <1>1, <1>6
<1>8. \A i \in 1 .. n : HashLeaf(A[i]) = HashLeaf(B[i])
  BY <1>5, <1>6, <1>7
<1>9. \A i \in 1 .. n : A[i] = B[i]
  BY <1>8, LeavesAgree
<1> QED BY <1>9

-----------------------------------------------------------------------------
(* The log and its rewritten copy.                                           *)

\* The inductive invariant: two logs of the same length.
LogsInv ==
  /\ leaves \in Seq(Int) /\ rewritten \in Seq(Int)
  /\ Len(leaves) = Len(rewritten)

\* LogsStay: appending a leaf to both logs keeps them logs of the same length.
THEOREM LogsStay == MerkleSpec => []LogsInv
<1>1. MerkleInit => LogsInv
  BY DEF MerkleInit, LogsInv
<1>2. LogsInv /\ [MerkleNext]_merkleVars => LogsInv'
  <2> SUFFICES ASSUME LogsInv, [MerkleNext]_merkleVars PROVE LogsInv'
    OBVIOUS
  <2>1. CASE Grow
    <3> DEFINE n == Len(leaves) + 1
    <3>1. PICK d \in {n, -n} : leaves' = Append(leaves, n) /\ rewritten' = Append(rewritten, d)
      BY <2>1 DEF Grow
    <3>2. n \in Int /\ d \in Int
      BY DEF LogsInv
    <3> QED BY <3>1, <3>2 DEF LogsInv
  <2>2. CASE UNCHANGED merkleVars
    BY <2>2 DEF merkleVars, LogsInv
  <2> QED BY <2>1, <2>2 DEF MerkleNext
<1> QED BY <1>1, <1>2, PTL DEF MerkleSpec

\* ServedProofsVerify holds of any log.
LEMMA ServedRight == LogsInv => ServedProofsVerify
<1> SUFFICES ASSUME LogsInv PROVE ServedProofsVerify
  OBVIOUS
<1>1. /\ leaves \in Seq(Int) /\ rewritten \in Seq(Int) /\ Len(rewritten) = Size /\ Size \in Nat
  BY DEF LogsInv, Size
<1>2. RootsAreRFC6962
  BY <1>1, RootIsRFC6962 DEF RootsAreRFC6962
<1>3. InclusionVerifies
  <2>1. ASSUME NEW n \in 1 .. Size, NEW m \in 0 .. n - 1
        PROVE  VerifyInclusion(HashLeaf(rewritten[m + 1]), m, n, InclusionProof(rewritten, m, n),
                               RootAt(rewritten, n))
    BY <1>1, AuditPathVerifies
  <2> QED BY <2>1 DEF InclusionVerifies
<1>4. ConsistencyVerifies
  <2>1. ASSUME NEW second \in 1 .. Size, NEW first \in 0 .. second
        PROVE  LET old == RootAt(rewritten, first)
                   new == RootAt(rewritten, second)
                   path == ConsistencyProof(rewritten, first, second)
               IN /\ VerifyConsistency(first, old, second, new, path)
                  /\ first > 0 => SdkVerifyConsistency(first, old, second, new, path)
    BY <1>1, ConsistencyProofVerifies
  <2> QED BY <2>1 DEF ConsistencyVerifies
<1> QED BY <1>2, <1>3, <1>4 DEF ServedProofsVerify

\* A proof cut short is still a list of nodes.
LEMMA CutShortIsSequence ==
  ASSUME NEW path, IsSequence(path)
  PROVE  IsSequence(CutShort(path))
<1>1. PICK S : path \in Seq(S)
  BY DEF IsSequence
<1>2. CASE path = <<>>
  BY <1>2 DEF CutShort
<1>3. CASE path # <<>>
  <2>1. SubSeq(path, 1, Len(path) - 1) \in Seq(S)
    BY <1>1, <1>3
  <2> QED BY <1>3, <2>1 DEF CutShort, Front, IsSequence
<1> QED BY <1>2, <1>3

\* Whatever the two logs offer as a proof is a list of nodes.
LEMMA OffersAreSequences ==
  ASSUME LogsInv
  PROVE  /\ \A path \in AuditPaths : IsSequence(path)
         /\ \A path \in ConsistencyPaths : IsSequence(path)
<1>1. /\ \A log \in Logs : log \in Seq(Int) /\ Len(log) = Size
      /\ Size \in Nat
  BY DEF LogsInv, Size, Logs
<1>2. ASSUME NEW path \in AuditPaths PROVE IsSequence(path)
  <2> DEFINE served == UNION {{InclusionProof(log, m, n) : m \in 0 .. n - 1} :
                                log \in Logs, n \in 1 .. Size}
  <2>1. ASSUME NEW p \in served PROVE IsSequence(p)
    <3>1. PICK log \in Logs, n \in 1 .. Size : \E m \in 0 .. n - 1 : p = InclusionProof(log, m, n)
      BY <2>1
    <3>2. PICK m \in 0 .. n - 1 : p = InclusionProof(log, m, n)
      BY <3>1
    <3> QED BY <1>1, <3>2, AuditPathVerifies
  <2>2. path \in served \/ \E p \in served : path = CutShort(p)
    BY DEF AuditPaths
  <2> HIDE DEF served
  <2> QED BY <2>1, <2>2, CutShortIsSequence
<1>3. ASSUME NEW log \in Logs, NEW second \in 1 .. Size, NEW first \in 1 .. second
      PROVE  IsSequence(ConsistencyProof(log, first, second))
  BY <1>1, ConsistencyProofVerifies
<1>4. ASSUME NEW path \in ConsistencyPaths PROVE IsSequence(path)
  <2> DEFINE served == UNION {{ConsistencyProof(log, first, second) : first \in 1 .. second} :
                                log \in Logs, second \in 1 .. Size}
  <2>1. ASSUME NEW p \in served PROVE IsSequence(p)
    <3>1. PICK log \in Logs, second \in 1 .. Size :
            \E first \in 1 .. second : p = ConsistencyProof(log, first, second)
      BY <2>1
    <3> QED BY <1>3, <3>1
  <2>2. path \in served \/ \E p \in served : path = CutShort(p)
    BY DEF ConsistencyPaths
  <2> HIDE DEF served
  <2> QED BY <2>1, <2>2, CutShortIsSequence
<1> QED BY <1>2, <1>4

\* ProofsBind holds of any two logs of one length.
LEMMA NothingElseAccepted == LogsInv => ProofsBind
<1> SUFFICES ASSUME LogsInv PROVE ProofsBind
  OBVIOUS
<1>1. /\ leaves \in Seq(Int) /\ rewritten \in Seq(Int) /\ Len(rewritten) = Size /\ Size \in Nat
      /\ Len(leaves) = Size
  BY DEF LogsInv, Size
<1>2. InclusionBinds
  <2>1. ASSUME NEW n \in 1 .. Size, NEW m \in 0 .. Size,
               NEW d \in ToSet(leaves) \cup ToSet(rewritten), NEW path \in AuditPaths,
               VerifyInclusion(HashLeaf(d), m, n, path, RootAt(leaves, n))
        PROVE  m < n /\ leaves[m + 1] = d
    <3>1. IsSequence(path) /\ n \in 1 .. Len(leaves) /\ m \in Nat
      BY <1>1, OffersAreSequences
    <3> QED BY <1>1, <2>1, <3>1, AcceptedLeafIsInTree
  <2> QED BY <2>1 DEF InclusionBinds
<1>3. ConsistencyBinds
  <2>1. ASSUME NEW first \in 1 .. Size, NEW second \in 1 .. Size, NEW path \in ConsistencyPaths,
               \/ VerifyConsistency(first, RootAt(leaves, first), second,
                                    RootAt(rewritten, second), path)
               \/ SdkVerifyConsistency(first, RootAt(leaves, first), second,
                                       RootAt(rewritten, second), path)
        PROVE  first <= second /\ SubSeq(leaves, 1, first) = SubSeq(rewritten, 1, first)
    <3>1. IsSequence(path) /\ first \in 1 .. Len(leaves) /\ second \in 1 .. Len(rewritten)
      BY <1>1, OffersAreSequences
    <3> QED BY <1>1, <2>1, <3>1, AcceptedLogIsExtension
  <2> QED BY <2>1 DEF ConsistencyBinds, SamePrefix
<1>4. AnchorRootBinds
  <2>1. ASSUME Size > 0, AnchorRoot(leaves) = AnchorRoot(rewritten) PROVE SamePrefix(Size)
    <3>1. leaves = rewritten
      BY <1>1, <2>1, AnchoredRootBinds DEF Size
    <3> QED BY <3>1 DEF SamePrefix
  <2> QED BY <2>1 DEF AnchorRootBinds
<1> QED BY <1>2, <1>3, <1>4 DEF ProofsBind

\* ServedProofsAlwaysVerify (ServedProofsVerify): for a log of any length, the
\* root is the level-by-level root of RFC 6962 and every proof the log serves
\* is accepted.
THEOREM ServedProofsAlwaysVerify == MerkleSpec => []ServedProofsVerify
BY LogsStay, ServedRight, PTL

\* ProofsAlwaysBind (ProofsBind): for logs of any length, no audit path makes a
\* leaf pass for another, no consistency proof a rewritten log for an
\* extension, and no two logs of one length share the anchor worker's root.
THEOREM ProofsAlwaysBind == MerkleSpec => []ProofsBind
BY LogsStay, NothingElseAccepted, PTL
=============================================================================
