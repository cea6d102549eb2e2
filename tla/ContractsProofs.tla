--------------------------- MODULE ContractsProofs ---------------------------
(***************************************************************************)
(* Proofs about the contract registry and the custody of a palm-oil batch. *)
(*                                                                         *)
(* ContractRegistry: what a name resolves to moves only with its active    *)
(* version, for any names, versions, addresses and calls.                  *)
(*                                                                         *)
(* CustodyFlow: the token's balances and the custody graph of its events   *)
(* agree, and a program that reports success has delivered, for every      *)
(* scenario whatever its holders, hops and volumes.  The sums over a graph *)
(* are recursive functions of sequences: Totals gives Total its defining   *)
(* equation, and a sum of any length is reasoned about by its shortest     *)
(* counterexample.                                                         *)
(***************************************************************************)
EXTENDS ContractRegistry, CustodyFlow, SequenceTheorems, TLAPS

(***************************************************************************)
(* ContractRegistry.  An entry is written once, so what a name resolves to *)
(* moves only with the active version.                                     *)
(***************************************************************************)

RegistryTyped ==
  /\ entries \in [Names \X Versions -> Addrs \cup {ZeroAddress}]
  /\ activeVersion \in [Names -> Versions]
  /\ submitted \subseteq Calls

\* Mining a call is one of the contract's three functions.
LEMMA Mining ==
  ASSUME NEW call \in Calls, MineCall(call)
  PROVE  /\ submitted' = submitted \ {call}
         /\ \/ \E n \in Names, v \in Versions, a \in Addrs : Register(n, v, a)
            \/ \E n \in Names, v \in Versions :
                 /\ call = [op |-> "setActiveVersion", name |-> n, version |-> v]
                 /\ SetActiveVersion(n, v)
            \/ UNCHANGED <<entries, activeVersion>>
<1>1. CASE call.op = "register"
  <2>1. Register(call.name, call.version, call.addr) BY <1>1, Zenon DEF MineCall
  <2>2. call.name \in Names /\ call.version \in Versions /\ call.addr \in Addrs
    BY <1>1 DEF Calls
  <2>. QED BY <2>1, <2>2 DEF MineCall
<1>2. CASE call.op = "setActiveVersion"
  <2>1. SetActiveVersion(call.name, call.version) BY <1>2, Zenon DEF MineCall
  <2>2. call.name \in Names /\ call.version \in Versions
        /\ call = [op |-> "setActiveVersion", name |-> call.name, version |-> call.version]
    BY <1>2 DEF Calls
  <2>. QED BY <2>1, <2>2 DEF MineCall
<1>3. CASE call.op = "deactivate"
  <2>1. Deactivate(call.name, call.version) BY <1>3, Zenon DEF MineCall
  <2>. QED BY <2>1 DEF Deactivate, MineCall
<1>. QED BY <1>1, <1>2, <1>3 DEF Calls

\* A registration of a free version: nothing that resolved stops resolving, and only
\* version 0, which also means none, gives way to it.
LEMMA Registering ==
  ASSUME RegistryTyped, NEW m \in Names, NEW v \in Versions, NEW a \in Addrs, Register(m, v, a)
  PROVE  /\ entries' \in [Names \X Versions -> Addrs \cup {ZeroAddress}]
         /\ activeVersion' \in [Names -> Versions]
         /\ \A n \in Names : GetActive(n) # ZeroAddress /\ GetActive(n)' # GetActive(n) =>
              /\ GetActive(n)' # ZeroAddress
              /\ activeVersion[n] = 0 /\ activeVersion'[n] # 0
<1>. USE RegistryAssumption DEF RegistryTyped
<1>1. CASE ~IsFree(m, v) BY <1>1 DEF Register, GetActive, Entry
<1>2. CASE IsFree(m, v)
  <2>1. entries' = [entries EXCEPT ![<<m, v>>] = a]
        /\ activeVersion' = [activeVersion EXCEPT ![m] = Activated(m, v)]
    BY <1>2 DEF Register
  <2>2. Activated(m, v) \in Versions BY DEF Activated
  <2>3. entries[<<m, v>>] = ZeroAddress BY <1>2 DEF IsFree, IsRegistered, Entry
  <2>4. ASSUME NEW n \in Names, GetActive(n) # ZeroAddress, GetActive(n)' # GetActive(n)
        PROVE  /\ GetActive(n)' # ZeroAddress
               /\ activeVersion[n] = 0 /\ activeVersion'[n] # 0
    <3>1. CASE n # m \/ activeVersion[n] # 0
      <4>1. activeVersion'[n] = activeVersion[n] BY <2>1, <3>1 DEF Activated
      <4>2. <<n, activeVersion[n]>> # <<m, v>> BY <2>3, <2>4 DEF GetActive, Entry
      <4>3. entries'[<<n, activeVersion[n]>>] = entries[<<n, activeVersion[n]>>] BY <2>1, <4>2
      <4>. QED BY <2>4, <4>1, <4>3 DEF GetActive, Entry
    <3>2. CASE n = m /\ activeVersion[n] = 0
      <4>1. v # 0 BY <2>3, <2>4, <3>2 DEF GetActive, Entry
      <4>2. activeVersion'[n] = v BY <2>1, <3>2 DEF Activated
      <4>3. entries'[<<n, v>>] = a BY <2>1, <3>2
      <4>. QED BY <3>2, <4>1, <4>2, <4>3 DEF GetActive, Entry
    <3>. QED BY <3>1, <3>2
  <2>. QED BY <2>1, <2>2, <2>4
<1>. QED BY <1>1, <1>2

LEMMA Switching ==
  ASSUME RegistryTyped, NEW m \in Names, NEW v \in Versions, SetActiveVersion(m, v)
  PROVE  /\ entries' = entries /\ activeVersion' \in [Names -> Versions]
         /\ \A n \in Names : GetActive(n) # ZeroAddress /\ GetActive(n)' # GetActive(n) =>
              GetActive(n)' # ZeroAddress /\ n = m
BY DEF RegistryTyped, SetActiveVersion, IsRegistered, GetActive, Entry

\* What a name resolves to: for every number of names, versions, registrars and calls
\* in the pool, mined in whatever order, only a switch moves it, or a registration
\* while version 0 is active (ContractRegistry.sol register, setActiveVersion).
THEOREM ResolutionMoves == RegistrySpec => ResolutionMovesBySwitch
<1>1. RegistryInit => RegistryTyped
  BY RegistryAssumption DEF RegistryInit, RegistryTyped, Versions
<1>. DEFINE Moves ==
       \A n \in Names :
          GetActive(n) # ZeroAddress /\ GetActive(n)' # GetActive(n) =>
              /\ GetActive(n)' # ZeroAddress
              /\ \/ \E v \in Versions :
                       [op |-> "setActiveVersion", name |-> n, version |-> v]
                           \in submitted \ submitted'
                 \/ activeVersion[n] = 0 /\ activeVersion'[n] # 0
<1>2. RegistryTyped /\ [RegistryNext]_registryVars => RegistryTyped' /\ [Moves]_registryVars
  <2>. SUFFICES ASSUME RegistryTyped, [RegistryNext]_registryVars
                PROVE  RegistryTyped' /\ [Moves]_registryVars
    OBVIOUS
  <2>1. CASE UNCHANGED registryVars BY <2>1 DEF registryVars, RegistryTyped
  <2>2. ASSUME NEW call \in Calls, SubmitCall(call) PROVE RegistryTyped' /\ Moves
    BY <2>2 DEF SubmitCall, RegistryTyped, GetActive, Entry
  <2>3. ASSUME NEW call \in submitted, MineCall(call) PROVE RegistryTyped' /\ Moves
    <3>1. call \in Calls BY DEF RegistryTyped
    <3>2. submitted' = submitted \ {call} BY <2>3, <3>1, Mining
    <3>3. CASE \E m \in Names, v \in Versions, a \in Addrs : Register(m, v, a)
      BY <3>2, <3>3, Registering DEF RegistryTyped
    <3>4. CASE \E m \in Names, v \in Versions :
                 /\ call = [op |-> "setActiveVersion", name |-> m, version |-> v]
                 /\ SetActiveVersion(m, v)
      <4>1. PICK m \in Names, v \in Versions :
              /\ call = [op |-> "setActiveVersion", name |-> m, version |-> v]
              /\ SetActiveVersion(m, v)
        BY <3>4
      <4>2. call \in submitted \ submitted' BY <3>2
      <4>. QED BY <3>2, <4>1, <4>2, Switching DEF RegistryTyped
    <3>5. CASE UNCHANGED <<entries, activeVersion>>
      BY <3>2, <3>5 DEF RegistryTyped, GetActive, Entry
    <3>. QED BY <2>3, <3>1, <3>3, <3>4, <3>5, Mining
  <2>. QED BY <2>1, <2>2, <2>3 DEF RegistryNext
<1>. QED BY <1>1, <1>2, PTL DEF RegistrySpec, ResolutionMovesBySwitch

(***************************************************************************)
(* CustodyFlow.                                                            *)
(***************************************************************************)

-----------------------------------------------------------------------------
(* Sums                                                                      *)

TotalDef(f, w) == IF w = <<>> THEN 0 ELSE f[Front(w)] + Last(w)
TotalMeasure(w) == Len(w)
Totals == INSTANCE RecursiveFunctions
            WITH Dom <- Seq(Int), Measure <- TotalMeasure, Def <- TotalDef

\* All but the last of a sequence that is not empty, and its last.
LEMMA FrontFacts ==
  ASSUME NEW S, NEW w \in Seq(S), w # <<>>
  PROVE  /\ Front(w) \in Seq(S) /\ Len(Front(w)) = Len(w) - 1 /\ Len(w) \in Nat \ {0}
         /\ \A i \in 1 .. Len(w) - 1 : Front(w)[i] = w[i]
         /\ Last(w) = w[Len(w)] /\ Last(w) \in S
         /\ w = Append(Front(w), Last(w))
<1>1. Len(w) \in Nat \ {0}
  BY EmptySeq
<1>2. \A i \in 1 .. Len(w) - 1 : w[i] \in S
  BY <1>1, ElementOfSeq
<1>3. Front(w) \in Seq(S) /\ Len(Front(w)) = Len(w) - 1
  <2> DEFINE n == Len(w) - 1
  <2>0. n \in Nat
    BY <1>1
  <2> HIDE DEF n
  <2>1. n \in Int /\ (IF 1 <= n THEN n - 1 + 1 ELSE 0) = n
    BY <2>0
  <2>2. SubSeq(w, 1, n) \in Seq(S)
        /\ Len(SubSeq(w, 1, n)) = IF 1 <= n THEN n - 1 + 1 ELSE 0
    BY <2>1, <1>2, SubSeqProperties DEF n
  <2>3. Front(w) = SubSeq(w, 1, n)
    BY DEF Front, n
  <2>4. Len(w) - 1 = n
    BY DEF n
  <2> QED BY <2>1, <2>2, <2>3, <2>4
<1>4. ASSUME NEW i \in 1 .. Len(w) - 1 PROVE Front(w)[i] = w[i]
  <2> DEFINE n == Len(w) - 1
  <2>1. n \in Int /\ n >= 1
    BY <1>1
  <2> HIDE DEF n
  <2>2. \A j \in 1 .. n - 1 + 1 : SubSeq(w, 1, n)[j] = w[1 + j - 1]
    BY <2>1, <1>2, SubSeqProperties DEF n
  <2>3. SubSeq(w, 1, n)[i] = w[1 + i - 1] /\ 1 + i - 1 = i
    BY <2>1, <2>2 DEF n
  <2> QED BY <2>3 DEF Front, n
<1>5. Last(w) = w[Len(w)] /\ Last(w) \in S
  BY <1>1, ElementOfSeq DEF Last
<1>6. w = Append(Front(w), Last(w))
  <2>1. Append(Front(w), Last(w)) \in Seq(S)
        /\ Len(Append(Front(w), Last(w))) = Len(w)
    BY <1>1, <1>3, <1>5, AppendProperties
  <2>2. \A i \in 1 .. Len(w) : Append(Front(w), Last(w))[i] = w[i]
    BY <1>1, <1>3, <1>4, <1>5, AppendProperties
  <2> QED BY <2>1, <2>2, SeqEqual
<1> QED BY <1>1, <1>3, <1>4, <1>5, <1>6

\* A sequence with one element more.
LEMMA AppendFacts ==
  ASSUME NEW S, NEW w \in Seq(S), NEW x \in S
  PROVE  /\ Append(w, x) \in Seq(S) /\ Append(w, x) # <<>>
         /\ Len(w) \in Nat /\ Len(Append(w, x)) = Len(w) + 1
         /\ \A i \in 1 .. Len(w) : Append(w, x)[i] = w[i]
         /\ Append(w, x)[Len(w) + 1] = x
         /\ Front(Append(w, x)) = w /\ Last(Append(w, x)) = x
<1> DEFINE v == Append(w, x)
<1>1. /\ v \in Seq(S) /\ v # <<>> /\ Len(w) \in Nat /\ Len(v) = Len(w) + 1
      /\ \A i \in 1 .. Len(w) : v[i] = w[i]
      /\ v[Len(w) + 1] = x
  BY AppendProperties
<1> HIDE DEF v
<1>2. Last(v) = x
  BY <1>1 DEF Last
<1>3. /\ Front(v) \in Seq(S) /\ Len(Front(v)) = Len(w)
      /\ \A i \in 1 .. Len(w) : Front(v)[i] = w[i]
  BY <1>1, FrontFacts
<1>4. Front(v) = w
  BY <1>3, SeqEqual
<1> QED BY <1>1, <1>2, <1>4 DEF v

\* The sum satisfies the equation that defines it.
LEMMA TotalEquation == Total = [w \in Seq(Int) |-> TotalDef(Total, w)]
<1>1. ASSUME NEW g, NEW h, NEW w \in Seq(Int),
             \A v \in Seq(Int) : TotalMeasure(v) < TotalMeasure(w) => g[v] = h[v]
      PROVE  TotalDef(g, w) = TotalDef(h, w)
  BY <1>1, FrontFacts DEF TotalDef, TotalMeasure
<1>2. \A w \in Seq(Int) : TotalMeasure(w) \in Nat
  BY LenProperties DEF TotalMeasure
<1>3. Totals!WellDefined
  BY <1>1, <1>2 DEF Totals!WellDefined
<1>4. Total = CHOOSE g : g = [w \in Seq(Int) |-> TotalDef(g, w)]
  BY DEF Total, TotalDef
<1> QED BY <1>3, <1>4, Totals!Recursion

\* The sum of nothing is 0, and one number more adds it.
LEMMA TotalFacts ==
  /\ Total[<<>>] = 0
  /\ \A w \in Seq(Int), x \in Int : Total[Append(w, x)] = Total[w] + x
  /\ \A w \in Seq(Int) : Total[w] \in Int
<1>1. Total[<<>>] = 0
  <2>1. <<>> \in Seq(Int)
    BY EmptySeq
  <2> QED BY <2>1, TotalEquation DEF TotalDef
<1>2. ASSUME NEW w \in Seq(Int), NEW x \in Int PROVE Total[Append(w, x)] = Total[w] + x
  <2>1. Total[Append(w, x)] = TotalDef(Total, Append(w, x))
    BY AppendFacts, TotalEquation
  <2> QED BY <2>1, AppendFacts DEF TotalDef
<1>3. ASSUME NEW w \in Seq(Int), Total[w] \notin Int PROVE FALSE
  <2> DEFINE Bad == {v \in Seq(Int) : Total[v] \notin Int}
             Size == [v \in Bad |-> Len(v)]
  <2>1. Bad # {} /\ Size \in [Bad -> Nat]
    BY <1>3, LenProperties
  <2>2. PICK v \in Bad : \A u \in Bad : Size[v] <= Size[u]
    BY <2>1, Totals!Least
  <2>3. v \in Seq(Int) /\ v # <<>>
    BY <2>2, <1>1
  <2>4. Front(v) \notin Bad
    <3>1. Front(v) \in Seq(Int) /\ Len(Front(v)) < Len(v)
      BY <2>3, FrontFacts
    <3>2. Front(v) \in Bad => Len(v) <= Len(Front(v))
      BY <2>2
    <3>3. Len(Front(v)) \in Nat /\ Len(v) \in Nat
      BY <2>3, <3>1, LenProperties
    <3> QED BY <3>1, <3>2, <3>3
  <2>5. Total[v] = Total[Front(v)] + Last(v) /\ Last(v) \in Int /\ Front(v) \in Seq(Int)
    <3>1. Total[v] = TotalDef(Total, v)
      BY <2>3, TotalEquation
    <3> QED BY <2>3, <3>1, FrontFacts DEF TotalDef
  <2> QED BY <2>2, <2>4, <2>5
<1> QED BY <1>1, <1>2, <1>3

\* The sum of the first numbers of a sequence, one by one.
LEMMA PrefixSum ==
  ASSUME NEW w \in Seq(Int), NEW k \in 1 .. Len(w)
  PROVE  /\ Total[SubSeq(w, 1, k - 1)] \in Int /\ w[k] \in Int
         /\ Total[SubSeq(w, 1, k)] = Total[SubSeq(w, 1, k - 1)] + w[k]
<1>1. Len(w) \in Nat /\ k \in 1 .. Len(w) /\ 1 \in 1 .. Len(w) /\ k \in 1 .. k
      /\ \A j \in 1 .. k - 1 : j \in 1 .. Len(w)
  BY LenProperties
<1>2. \A j \in 1 .. Len(w) : w[j] \in Int
  BY ElementOfSeq
<1> DEFINE u == SubSeq(w, 1, k - 1)
<1>3. u \in Seq(Int)
  <2>1. (\A j \in 1 .. k - 1 : w[j] \in Int) /\ k - 1 \in Int
    BY <1>1, <1>2
  <2> QED BY <2>1, SubSeqProperties
<1>4. SubSeq(w, 1, k) = u \o <<w[k]>>
  BY <1>1, SubSeqRecursiveSecond
<1>5. SubSeq(w, 1, k) = Append(u, w[k])
  BY <1>1, <1>2, <1>3, <1>4, AppendIsConcat
<1> HIDE DEF u
<1>6. Total[Append(u, w[k])] = Total[u] + w[k] /\ Total[u] \in Int
  BY <1>1, <1>2, <1>3, TotalFacts
<1>7. Total[SubSeq(w, 1, k)] = Total[u] + w[k]
  BY <1>5, <1>6, Zenon
<1> QED BY <1>1, <1>2, <1>6, <1>7 DEF u

\* Changing one number of a sequence changes its sum by as much.
LEMMA TotalChange ==
  ASSUME NEW w \in Seq(Int), NEW v \in Seq(Int), Len(v) = Len(w), NEW i \in 1 .. Len(w),
         \A j \in 1 .. Len(w) : j # i => v[j] = w[j]
  PROVE  Total[v] = Total[w] + v[i] - w[i]
<1> DEFINE n == Len(w)
           d == v[i] - w[i]
           A(k) == Total[SubSeq(v, 1, k)]
           B(k) == Total[SubSeq(w, 1, k)]
           Grown(k) == A(k) = B(k) + (IF i <= k THEN d ELSE 0)
           Bad == {k \in 0 .. n : ~Grown(k)}
<1>1. n \in Nat /\ i \in 1 .. n /\ v[i] \in Int /\ w[i] \in Int
  BY LenProperties
<1>2. A(n) = Total[v] /\ B(n) = Total[w]
  BY SubSeqFull
<1>3. A(0) = 0 /\ B(0) = 0
  <2>1. SubSeq(v, 1, 0) = <<>> /\ SubSeq(w, 1, 0) = <<>>
    BY SubSeqEmpty
  <2> QED BY <2>1, TotalFacts, Zenon
<1>4. ASSUME NEW k \in 1 .. n
      PROVE  /\ A(k - 1) \in Int /\ B(k - 1) \in Int /\ v[k] \in Int /\ w[k] \in Int
             /\ A(k) = A(k - 1) + v[k] /\ B(k) = B(k - 1) + w[k]
  BY PrefixSum
<1>5. \A j \in 1 .. n : j # i => v[j] = w[j]
  OBVIOUS
<1>6. d = v[i] - w[i] /\ d \in Int
  BY <1>1
<1> HIDE DEF n, A, B, d
<1>7. ASSUME Bad # {} PROVE FALSE
  <2>1. Bad \in SUBSET Nat
    BY <1>1
  <2>2. PICK k \in Bad : \A m \in Bad : k <= m
    <3> HIDE DEF Bad
    <3> QED BY <1>7, <2>1, Totals!LeastNumber
  <2>3. k # 0
    BY <1>1, <1>3, <2>2
  <2>4. k \in 1 .. n /\ k - 1 \in 0 .. n /\ k - 1 \notin Bad
    BY <1>1, <2>1, <2>2, <2>3
  <2>5. Grown(k - 1)
    BY <2>4
  <2>6. Grown(k)
    <3> DEFINE a == A(k - 1)
               b == B(k - 1)
    <3>1. /\ a \in Int /\ b \in Int /\ v[k] \in Int /\ w[k] \in Int
          /\ A(k) = a + v[k] /\ B(k) = b + w[k]
      BY <1>4, <2>4
    <3>2. a = b + (IF i <= k - 1 THEN d ELSE 0)
      BY <2>5
    <3> HIDE DEF a, b
    <3>3. CASE i = k
      BY <1>1, <1>6, <2>4, <3>1, <3>2, <3>3
    <3>4. CASE i # k
      <4>1. v[k] = w[k] /\ (i <= k <=> i <= k - 1)
        BY <1>1, <1>5, <2>4, <3>4
      <4> QED BY <1>6, <3>1, <3>2, <4>1
    <3> QED BY <3>3, <3>4
  <2> QED BY <2>2, <2>6
<1>8. Grown(n)
  <2>1. n \in 0 .. n /\ n \notin Bad
    BY <1>1, <1>7
  <2> QED BY <2>1
<1>9. Total[v] \in Int /\ Total[w] \in Int
  BY TotalFacts
<1>10. Total[v] = Total[w] + d
  BY <1>1, <1>2, <1>8
<1> HIDE DEF Grown, Bad
<1> QED BY <1>1, <1>6, <1>9, <1>10

\* The sum of zeros.
LEMMA TotalZero ==
  ASSUME NEW w \in Seq(Int), \A i \in 1 .. Len(w) : w[i] = 0
  PROVE  Total[w] = 0
<1> DEFINE Bad == {v \in Seq(Int) : (\A i \in 1 .. Len(v) : v[i] = 0) /\ Total[v] # 0}
           Size == [v \in Bad |-> Len(v)]
<1>1. SUFFICES ASSUME Bad # {} PROVE FALSE
  OBVIOUS
<1>2. Size \in [Bad -> Nat]
  BY LenProperties
<1>3. PICK v \in Bad : \A u \in Bad : Size[v] <= Size[u]
  BY <1>1, <1>2, Totals!Least
<1>4. v # <<>>
  BY <1>3, TotalFacts
<1>5. /\ Front(v) \in Seq(Int) /\ Len(Front(v)) = Len(v) - 1 /\ Len(v) \in Nat \ {0}
      /\ \A i \in 1 .. Len(v) - 1 : Front(v)[i] = v[i]
      /\ Last(v) = v[Len(v)] /\ v = Append(Front(v), Last(v)) /\ Last(v) \in Int
  BY <1>3, <1>4, FrontFacts
<1>6. Last(v) = 0 /\ \A i \in 1 .. Len(v) - 1 : v[i] = 0
  BY <1>3, <1>5
<1>7. Front(v) \notin Bad
  <2>1. Front(v) \in Bad => Len(v) <= Len(Front(v))
    BY <1>3
  <2> QED BY <1>5, <2>1
<1>8. Total[Front(v)] = 0
  BY <1>5, <1>6, <1>7
<1>9. Total[v] = Total[Front(v)] + Last(v)
  BY <1>5, TotalFacts
<1> QED BY <1>3, <1>6, <1>8, <1>9

-----------------------------------------------------------------------------
(* Hops and what they add up to                                              *)

HopsAmong(H) == [from : H, to : H, liters : Nat]
SumOver(hs, q) == Total[[i \in DOMAIN hs |-> q[hs[i]]]]

\* One more hop adds its amount to a sum over hops.
LEMMA SumAppend ==
  ASSUME NEW S, NEW q \in [S -> Int], NEW hs \in Seq(S), NEW x \in S
  PROVE  /\ SumOver(hs, q) \in Int /\ SumOver(<<>>, q) = 0
         /\ SumOver(Append(hs, x), q) = SumOver(hs, q) + q[x]
<1> DEFINE w == [i \in DOMAIN hs |-> q[hs[i]]]
           v == [i \in DOMAIN Append(hs, x) |-> q[Append(hs, x)[i]]]
<1>1. /\ Len(hs) \in Nat /\ DOMAIN hs = 1 .. Len(hs)
      /\ \A i \in 1 .. Len(hs) : hs[i] \in S
  BY LenProperties, ElementOfSeq
<1>2. /\ Append(hs, x) \in Seq(S) /\ Len(Append(hs, x)) = Len(hs) + 1
      /\ \A i \in 1 .. Len(hs) : Append(hs, x)[i] = hs[i]
      /\ Append(hs, x)[Len(hs) + 1] = x
  BY AppendFacts
<1>3. DOMAIN Append(hs, x) = 1 .. Len(hs) + 1
  BY <1>2, LenProperties
<1>4. w \in Seq(Int) /\ Len(w) = Len(hs)
  <2> DEFINE n == Len(hs)
  <2>1. w = [i \in 1 .. n |-> q[hs[i]]] /\ n \in Nat
    BY <1>1
  <2>2. \A i \in 1 .. n : q[hs[i]] \in Int
    BY <1>1
  <2>3. w \in [1 .. n -> Int]
    BY <2>1, <2>2
  <2>4. n = Len(hs)
    OBVIOUS
  <2> HIDE DEF n, w
  <2> QED BY <2>1, <2>3, <2>4
<1>5. v = Append(w, q[x])
  <2> DEFINE n == Len(hs)
  <2>1. n \in Nat /\ Len(w) = n /\ q[x] \in Int
    BY <1>1, <1>4
  <2>2. /\ Append(w, q[x]) \in Seq(Int) /\ Len(Append(w, q[x])) = n + 1
        /\ \A i \in 1 .. n : Append(w, q[x])[i] = w[i]
        /\ Append(w, q[x])[n + 1] = q[x]
    BY <1>4, <2>1, AppendFacts
  <2>3. DOMAIN Append(w, q[x]) = 1 .. n + 1
    BY <2>2, LenProperties
  <2>4. v = [i \in 1 .. n + 1 |-> q[Append(hs, x)[i]]]
    BY <1>3
  <2>5. ASSUME NEW i \in 1 .. n + 1 PROVE q[Append(hs, x)[i]] = Append(w, q[x])[i]
    <3>1. CASE i = n + 1
      BY <1>2, <2>2, <3>1
    <3>2. CASE i # n + 1
      <4>1. i \in 1 .. n
        BY <2>1, <3>2
      <4>2. Append(hs, x)[i] = hs[i] /\ w[i] = q[hs[i]]
        BY <1>1, <1>2, <4>1
      <4> QED BY <2>2, <4>1, <4>2
    <3> QED BY <3>1, <3>2
  <2>6. Append(w, q[x]) = [i \in 1 .. n + 1 |-> Append(w, q[x])[i]]
    <3>1. Append(w, q[x]) \in [1 .. n + 1 -> Int]
      BY <2>2, LenProperties
    <3> HIDE DEF w
    <3> QED BY <3>1
  <2>7. v = [i \in 1 .. n + 1 |-> Append(w, q[x])[i]]
    <3> HIDE DEF w, n, v
    <3> QED BY <2>4, <2>5
  <2> QED BY <2>6, <2>7, Zenon
<1>6. q[x] \in Int
  OBVIOUS
<1>7. Total[v] = Total[w] + q[x] /\ Total[w] \in Int
  <2> HIDE DEF v, w
  <2> QED BY <1>4, <1>5, <1>6, TotalFacts
<1>8. SumOver(<<>>, q) = 0
  <2>1. [i \in DOMAIN <<>> |-> q[<<>>[i]]] = <<>>
    OBVIOUS
  <2> QED BY <2>1, TotalFacts DEF SumOver
<1> QED BY <1>7, <1>8 DEF SumOver

InAmounts(H, a) == [x \in HopsAmong(H) |-> IF x.to = a THEN x.liters ELSE 0]
OutAmounts(H, a) == [x \in HopsAmong(H) |-> IF x.from = a THEN x.liters ELSE 0]
EdgeAmounts(H, a, b) ==
  [x \in HopsAmong(H) |-> IF x.from = a /\ x.to = b THEN x.liters ELSE 0]

\* What a node of the graph received and sent, and an edge, as sums over hops.
LEMMA SumsOverHops ==
  ASSUME NEW H, NEW hs \in Seq(HopsAmong(H)), NEW a, NEW b
  PROVE  /\ ReceivedL(hs, a) = SumOver(hs, InAmounts(H, a))
         /\ SentL(hs, a) = SumOver(hs, OutAmounts(H, a))
         /\ EdgeLiters(hs, a, b) = SumOver(hs, EdgeAmounts(H, a, b))
         /\ InAmounts(H, a) \in [HopsAmong(H) -> Int]
         /\ OutAmounts(H, a) \in [HopsAmong(H) -> Int]
         /\ EdgeAmounts(H, a, b) \in [HopsAmong(H) -> Int]
<1>1. \A i \in DOMAIN hs : hs[i] \in HopsAmong(H)
  BY LenProperties, ElementOfSeq
<1>2. [i \in DOMAIN hs |-> IF hs[i].to = a THEN hs[i].liters ELSE 0]
        = [i \in DOMAIN hs |-> InAmounts(H, a)[hs[i]]]
  BY <1>1 DEF InAmounts
<1>3. [i \in DOMAIN hs |-> IF hs[i].from = a THEN hs[i].liters ELSE 0]
        = [i \in DOMAIN hs |-> OutAmounts(H, a)[hs[i]]]
  BY <1>1 DEF OutAmounts
<1>4. [i \in DOMAIN hs |-> IF hs[i].from = a /\ hs[i].to = b THEN hs[i].liters ELSE 0]
        = [i \in DOMAIN hs |-> EdgeAmounts(H, a, b)[hs[i]]]
  BY <1>1 DEF EdgeAmounts
<1>5. /\ InAmounts(H, a) \in [HopsAmong(H) -> Int]
      /\ OutAmounts(H, a) \in [HopsAmong(H) -> Int]
      /\ EdgeAmounts(H, a, b) \in [HopsAmong(H) -> Int]
  BY DEF HopsAmong, InAmounts, OutAmounts, EdgeAmounts
<1>6. ReceivedL(hs, a) = SumOver(hs, InAmounts(H, a))
  BY <1>2 DEF ReceivedL, SumOver
<1>7. SentL(hs, a) = SumOver(hs, OutAmounts(H, a))
  BY <1>3 DEF SentL, SumOver
<1>8. EdgeLiters(hs, a, b) = SumOver(hs, EdgeAmounts(H, a, b))
  BY <1>4 DEF EdgeLiters, SumOver
<1> QED BY <1>5, <1>6, <1>7, <1>8

\* One more hop adds its liters to what its ends sent and received, and to its
\* edge.
LEMMA HopEffects ==
  ASSUME NEW H, NEW hs \in Seq(HopsAmong(H)), NEW x \in HopsAmong(H), NEW a, NEW b
  PROVE  /\ ReceivedL(<<>>, a) = 0 /\ SentL(<<>>, a) = 0 /\ EdgeLiters(<<>>, a, b) = 0
         /\ ReceivedL(hs, a) \in Int /\ SentL(hs, a) \in Int /\ EdgeLiters(hs, a, b) \in Int
         /\ ReceivedL(Append(hs, x), a)
              = ReceivedL(hs, a) + (IF x.to = a THEN x.liters ELSE 0)
         /\ SentL(Append(hs, x), a)
              = SentL(hs, a) + (IF x.from = a THEN x.liters ELSE 0)
         /\ EdgeLiters(Append(hs, x), a, b)
              = EdgeLiters(hs, a, b) + (IF x.from = a /\ x.to = b THEN x.liters ELSE 0)
<1> DEFINE Hs == HopsAmong(H)
           hx == Append(hs, x)
<1>1. hx \in Seq(Hs) /\ <<>> \in Seq(Hs) /\ hs \in Seq(Hs)
  BY AppendFacts, EmptySeq
<1>2. /\ InAmounts(H, a)[x] = IF x.to = a THEN x.liters ELSE 0
      /\ OutAmounts(H, a)[x] = IF x.from = a THEN x.liters ELSE 0
      /\ EdgeAmounts(H, a, b)[x] = IF x.from = a /\ x.to = b THEN x.liters ELSE 0
  BY DEF InAmounts, OutAmounts, EdgeAmounts
<1>3. /\ ReceivedL(<<>>, a) = SumOver(<<>>, InAmounts(H, a))
      /\ ReceivedL(hs, a) = SumOver(hs, InAmounts(H, a))
      /\ ReceivedL(hx, a) = SumOver(hx, InAmounts(H, a))
      /\ InAmounts(H, a) \in [Hs -> Int]
  BY <1>1, SumsOverHops
<1>4. /\ SentL(<<>>, a) = SumOver(<<>>, OutAmounts(H, a))
      /\ SentL(hs, a) = SumOver(hs, OutAmounts(H, a))
      /\ SentL(hx, a) = SumOver(hx, OutAmounts(H, a))
      /\ OutAmounts(H, a) \in [Hs -> Int]
  BY <1>1, SumsOverHops
<1>5. /\ EdgeLiters(<<>>, a, b) = SumOver(<<>>, EdgeAmounts(H, a, b))
      /\ EdgeLiters(hs, a, b) = SumOver(hs, EdgeAmounts(H, a, b))
      /\ EdgeLiters(hx, a, b) = SumOver(hx, EdgeAmounts(H, a, b))
      /\ EdgeAmounts(H, a, b) \in [Hs -> Int]
  <2>1. \A u \in Seq(Hs) : EdgeLiters(u, a, b) = SumOver(u, EdgeAmounts(H, a, b))
    BY SumsOverHops
  <2>2. EdgeAmounts(H, a, b) \in [Hs -> Int]
    BY DEF EdgeAmounts, HopsAmong
  <2> HIDE DEF Hs, hx
  <2> QED BY <1>1, <2>1, <2>2, Zenon
<1> HIDE DEF Hs
<1>6. \A q \in [Hs -> Int] :
        /\ SumOver(hs, q) \in Int /\ SumOver(<<>>, q) = 0
        /\ SumOver(hx, q) = SumOver(hs, q) + q[x]
  BY SumAppend DEF Hs
<1> HIDE DEF hx
<1>7. /\ ReceivedL(<<>>, a) = 0 /\ ReceivedL(hs, a) \in Int
      /\ ReceivedL(hx, a) = ReceivedL(hs, a) + InAmounts(H, a)[x]
  BY <1>3, <1>6, Zenon
<1>8. /\ SentL(<<>>, a) = 0 /\ SentL(hs, a) \in Int
      /\ SentL(hx, a) = SentL(hs, a) + OutAmounts(H, a)[x]
  BY <1>4, <1>6, Zenon
<1>9. /\ EdgeLiters(<<>>, a, b) = 0 /\ EdgeLiters(hs, a, b) \in Int
      /\ EdgeLiters(hx, a, b) = EdgeLiters(hs, a, b) + EdgeAmounts(H, a, b)[x]
  BY <1>5, <1>6, Zenon
<1> QED BY <1>2, <1>7, <1>8, <1>9, Zenon DEF hx

-----------------------------------------------------------------------------
(* The token's balances and the hops                                         *)

\* The balances are the ones at the start, and what the hops add and take.
Agrees(bal, s, hs) == \A h \in DOMAIN s : bal[h] = s[h] + CurrentLiters(hs, h)

\* A hop the sender can afford keeps the balances and the hops in agreement.
LEMMA HopKeeps ==
  ASSUME NEW H, NEW s \in [H -> Int], NEW bal \in [H -> Nat], NEW hs \in Seq(HopsAmong(H)),
         NEW x \in HopsAmong(H), CanMove(bal, x), Agrees(bal, s, hs)
  PROVE  Moved(bal, x) \in [H -> Nat] /\ Agrees(Moved(bal, x), s, Append(hs, x))
<1>1. x.from \in H /\ x.to \in H /\ x.liters \in Nat
      /\ bal[x.from] \in Nat /\ bal[x.to] \in Nat /\ bal[x.from] >= x.liters
  BY DEF HopsAmong, CanMove
<1> DEFINE less == [bal EXCEPT ![x.from] = @ - x.liters]
<1>2. less \in [H -> Nat]
  BY <1>1
<1>3. Moved(bal, x) \in [H -> Nat]
  <2>1. Moved(bal, x) = [less EXCEPT ![x.to] = @ + x.liters]
    BY DEF Moved
  <2>2. less[x.to] \in Nat
    BY <1>1, <1>2
  <2> HIDE DEF less
  <2> QED BY <1>1, <1>2, <2>1, <2>2
<1>4. ASSUME NEW h \in H
      PROVE  Moved(bal, x)[h] = bal[h] - (IF h = x.from THEN x.liters ELSE 0)
                                       + (IF h = x.to THEN x.liters ELSE 0)
  <2>1. bal[h] \in Nat
    OBVIOUS
  <2> QED BY <1>1, <2>1 DEF Moved
<1>5. ASSUME NEW h \in H
      PROVE  Moved(bal, x)[h] = s[h] + CurrentLiters(Append(hs, x), h)
  <2> DEFINE r == ReceivedL(hs, h)
             t == SentL(hs, h)
             i == IF x.to = h THEN x.liters ELSE 0
             o == IF x.from = h THEN x.liters ELSE 0
  <2>1. /\ ReceivedL(Append(hs, x), h) = r + i /\ SentL(Append(hs, x), h) = t + o
        /\ r \in Int /\ t \in Int /\ EdgeLiters(hs, h, h) \in Int
    BY HopEffects
  <2>2. bal[h] = s[h] + (r - t) /\ bal[h] \in Nat /\ s[h] \in Int
    BY DEF Agrees, CurrentLiters
  <2>3. i \in Int /\ o \in Int
    BY <1>1
  <2>4. Moved(bal, x)[h] = bal[h] - o + i
    BY <1>4
  <2>5. CurrentLiters(Append(hs, x), h) = (r + i) - (t + o)
    BY <2>1 DEF CurrentLiters
  <2> HIDE DEF r, t, i, o
  <2> QED BY <2>1, <2>2, <2>3, <2>4, <2>5
<1> QED BY <1>3, <1>5 DEF Agrees

IsHopTrace(c, bal, hops) ==
  c = [n \in 0..Len(hops) |->
         IF n = 0 THEN [ok |-> TRUE, bal |-> bal] ELSE Hopped(c[n - 1], hops[n])]
HopTrace(bal, hops) == CHOOSE c : IsHopTrace(c, bal, hops)

\* The balances after each of the hops exist, for hops of any number.
LEMMA HopTraceExists ==
  ASSUME NEW bal, NEW hops, Len(hops) \in Nat
  PROVE  IsHopTrace(HopTrace(bal, hops), bal, hops)
<1> DEFINE s0 == [ok |-> TRUE, bal |-> bal]
           To(c, n) == c = [i \in 0 .. n |-> IF i = 0 THEN s0 ELSE Hopped(c[i - 1], hops[i])]
           Bad == {n \in Nat : ~ \E c : To(c, n)}
<1> HIDE DEF s0
<1>1. ASSUME Bad # {} PROVE FALSE
  <2>1. PICK n \in Bad : \A m \in Bad : n <= m
    BY <1>1, Totals!LeastNumber
  <2>2. To([i \in 0 .. 0 |-> s0], 0)
    OBVIOUS
  <2>3. n # 0
    BY <2>1, <2>2
  <2>4. n \in Nat /\ n - 1 \in Nat /\ n - 1 \notin Bad
    <3> HIDE DEF To
    <3> QED BY <2>1, <2>3
  <2>5. PICK c : To(c, n - 1)
    BY <2>4
  <2> DEFINE d == [i \in 0 .. n |-> IF i = n THEN Hopped(c[n - 1], hops[n]) ELSE c[i]]
  <2>6. ASSUME NEW i \in 0 .. n
        PROVE  d[i] = IF i = 0 THEN s0 ELSE Hopped(d[i - 1], hops[i])
    <3>1. CASE i = n
      <4>1. d[i - 1] = c[n - 1] /\ i # 0
        BY <3>1, <2>3, <2>4
      <4> QED BY <3>1, <4>1
    <3>2. CASE i # n
      <4>1. i \in 0 .. n - 1 /\ (i # 0 => i - 1 \in 0 .. n - 1)
        BY <3>2, <2>4
      <4>2. c[i] = IF i = 0 THEN s0 ELSE Hopped(c[i - 1], hops[i])
        BY <4>1, <2>5
      <4>3. d[i] = c[i] /\ (i # 0 => d[i - 1] = c[i - 1])
        BY <4>1, <3>2
      <4> HIDE DEF d
      <4> QED BY <4>2, <4>3
    <3> QED BY <3>1, <3>2
  <2>7. To(d, n)
    BY <2>6
  <2> QED BY <2>1, <2>7
<1>2. \E c : IsHopTrace(c, bal, hops)
  BY <1>1 DEF IsHopTrace, s0
<1> QED BY <1>2 DEF HopTrace

\* executeHops goes from one of those balances to the next, and ends with the
\* last.
LEMMA HopTraceSteps ==
  ASSUME NEW bal, NEW hops, Len(hops) \in Nat
  PROVE  /\ HopTrace(bal, hops)[0] = [ok |-> TRUE, bal |-> bal]
         /\ \A n \in 1 .. Len(hops) :
              HopTrace(bal, hops)[n] = Hopped(HopTrace(bal, hops)[n - 1], hops[n])
         /\ AfterHops(bal, hops) = HopTrace(bal, hops)[Len(hops)]
<1> DEFINE c == HopTrace(bal, hops)
<1>1. IsHopTrace(c, bal, hops)
  BY HopTraceExists
<1>2. AfterHops(bal, hops) = c[Len(hops)]
  BY DEF AfterHops, HopTrace, IsHopTrace
<1> HIDE DEF c
<1>3. c[0] = [ok |-> TRUE, bal |-> bal]
  BY <1>1 DEF IsHopTrace
<1>4. ASSUME NEW n \in 1 .. Len(hops) PROVE c[n] = Hopped(c[n - 1], hops[n])
  <2>1. n \in 0 .. Len(hops) /\ n # 0
    OBVIOUS
  <2> QED BY <1>1, <2>1 DEF IsHopTrace
<1> QED BY <1>2, <1>3, <1>4 DEF c

\* The hops done so far, one more each time.
LEMMA HopPrefix ==
  ASSUME NEW S, NEW hops \in Seq(S), NEW n \in 1 .. Len(hops)
  PROVE  /\ SubSeq(hops, 1, n - 1) \in Seq(S) /\ hops[n] \in S
         /\ SubSeq(hops, 1, n) = Append(SubSeq(hops, 1, n - 1), hops[n])
<1>1. Len(hops) \in Nat /\ n \in 1 .. Len(hops) /\ 1 \in 1 .. Len(hops) /\ n \in 1 .. n
      /\ \A j \in 1 .. n - 1 : j \in 1 .. Len(hops)
  BY LenProperties
<1>2. \A j \in 1 .. Len(hops) : hops[j] \in S
  BY ElementOfSeq
<1> DEFINE u == SubSeq(hops, 1, n - 1)
<1>3. u \in Seq(S)
  <2>1. (\A j \in 1 .. n - 1 : hops[j] \in S) /\ n - 1 \in Int
    BY <1>1, <1>2
  <2> QED BY <2>1, SubSeqProperties
<1>4. SubSeq(hops, 1, n) = u \o <<hops[n]>>
  BY <1>1, SubSeqRecursiveSecond
<1> QED BY <1>1, <1>2, <1>3, <1>4, AppendIsConcat

\* Adding hops one by one adds them all.
LEMMA ConcatPrefix ==
  ASSUME NEW S, NEW hs \in Seq(S), NEW hops \in Seq(S), NEW n \in 1 .. Len(hops)
  PROVE  /\ hs \o SubSeq(hops, 1, n - 1) \in Seq(S)
         /\ hs \o SubSeq(hops, 1, n) = Append(hs \o SubSeq(hops, 1, n - 1), hops[n])
<1> DEFINE u == SubSeq(hops, 1, n - 1)
           x == hops[n]
<1>1. u \in Seq(S) /\ x \in S /\ SubSeq(hops, 1, n) = Append(u, x)
  BY HopPrefix
<1> HIDE DEF u, x
<1>2. Append(u, x) = u \o <<x>> /\ <<x>> \in Seq(S) /\ hs \o u \in Seq(S)
  BY <1>1, AppendIsConcat, ConcatProperties
<1>3. hs \o (u \o <<x>>) = (hs \o u) \o <<x>>
  BY <1>1, <1>2, ConcatAssociative
<1>4. Append(hs \o u, x) = (hs \o u) \o <<x>>
  BY <1>1, <1>2, AppendIsConcat
<1> QED BY <1>1, <1>2, <1>3, <1>4 DEF u, x

\* executeHops: if every hop succeeds, the balances and the hops, all of them,
\* stay in agreement.
LEMMA ChainKeeps ==
  ASSUME NEW H, NEW s \in [H -> Int], NEW bal \in [H -> Nat], NEW hs \in Seq(HopsAmong(H)),
         NEW hops \in Seq(HopsAmong(H)), Agrees(bal, s, hs), AfterHops(bal, hops).ok
  PROVE  /\ AfterHops(bal, hops).bal \in [H -> Nat]
         /\ Agrees(AfterHops(bal, hops).bal, s, hs \o hops)
<1> DEFINE n == Len(hops)
           c == HopTrace(bal, hops)
           So(i) == hs \o SubSeq(hops, 1, i)
           Right(i) == c[i].bal \in [H -> Nat] /\ Agrees(c[i].bal, s, So(i))
           Bad == {i \in Nat : i <= n /\ c[i].ok /\ ~Right(i)}
<1>1. /\ n \in Nat /\ AfterHops(bal, hops) = c[n] /\ c[0] = [ok |-> TRUE, bal |-> bal]
      /\ \A i \in 1 .. n : c[i] = Hopped(c[i - 1], hops[i])
  <2>1. Len(hops) \in Nat
    BY LenProperties
  <2> QED BY <2>1, HopTraceSteps
<1>2. So(0) = hs /\ So(n) = hs \o hops
  <2>1. SubSeq(hops, 1, 0) = <<>> /\ SubSeq(hops, 1, n) = hops
    BY SubSeqEmpty, SubSeqFull
  <2>2. hs \o <<>> = hs
    BY ConcatEmptySeq
  <2> QED BY <2>1, <2>2, Zenon
<1>3. ASSUME NEW i \in 1 .. n
      PROVE  /\ So(i - 1) \in Seq(HopsAmong(H)) /\ hops[i] \in HopsAmong(H)
             /\ So(i) = Append(So(i - 1), hops[i])
  <2>1. hops[i] \in HopsAmong(H)
    BY ElementOfSeq
  <2>2. /\ hs \o SubSeq(hops, 1, i - 1) \in Seq(HopsAmong(H))
        /\ hs \o SubSeq(hops, 1, i) = Append(hs \o SubSeq(hops, 1, i - 1), hops[i])
    BY ConcatPrefix
  <2> QED BY <2>1, <2>2
<1> HIDE DEF n, c, So
<1>4. Right(0)
  BY <1>1, <1>2
<1>5. ASSUME NEW i \in 1 .. n, c[i].ok, c[i - 1].ok => Right(i - 1)
      PROVE  Right(i)
  <2> DEFINE p == c[i - 1]
             x == hops[i]
  <2>1. c[i] = Hopped(p, x)
    BY <1>1
  <2> HIDE DEF p
  <2>2. p.ok /\ CanMove(p.bal, x) /\ c[i].bal = Moved(p.bal, x)
    BY <1>5, <2>1 DEF Hopped
  <2>3. p.bal \in [H -> Nat] /\ Agrees(p.bal, s, So(i - 1))
    BY <1>5, <2>2 DEF p
  <2>4. So(i - 1) \in Seq(HopsAmong(H)) /\ x \in HopsAmong(H) /\ So(i) = Append(So(i - 1), x)
    BY <1>3
  <2> DEFINE u == So(i - 1)
             b == p.bal
  <2> HIDE DEF u, b, x
  <2>5. b \in [H -> Nat] /\ Agrees(b, s, u) /\ u \in Seq(HopsAmong(H)) /\ x \in HopsAmong(H)
        /\ CanMove(b, x)
    BY <2>2, <2>3, <2>4 DEF u, b
  <2>6. Moved(b, x) \in [H -> Nat] /\ Agrees(Moved(b, x), s, Append(u, x))
    BY <2>5, HopKeeps
  <2> QED BY <2>2, <2>4, <2>6, Zenon DEF u, b
<1> HIDE DEF Right
<1>6. ASSUME Bad # {} PROVE FALSE
  <2>1. PICK i \in Bad : \A j \in Bad : i <= j
    BY <1>6, Totals!LeastNumber
  <2>2. i # 0
    BY <1>4, <2>1
  <2>3. i \in 1 .. n /\ i - 1 \in Nat /\ i - 1 <= n /\ i - 1 \notin Bad
    BY <1>1, <2>1, <2>2
  <2>4. c[i].ok /\ (c[i - 1].ok => Right(i - 1))
    BY <2>1, <2>3
  <2> QED BY <1>5, <2>1, <2>3, <2>4
<1>7. c[n].ok
  BY <1>1
<1>8. Right(n)
  <2>1. n \notin Bad
    <3> HIDE DEF Bad
    <3> QED BY <1>6, Zenon
  <2>2. n \in Nat /\ n <= n
    BY <1>1
  <2> QED BY <1>7, <2>1, <2>2
<1> QED BY <1>1, <1>2, <1>8 DEF Right

\* The edges into a node less the ones out of it, over the other holders, add up
\* to what it received less what it sent, if every hop is between holders: there
\* is no shortest custody graph for which they do not.
LEMMA EdgesAddUp ==
  ASSUME NEW H, NEW hds \in Seq(H), IsInjective(hds), H = ToSet(hds),
         NEW hs \in Seq(HopsAmong(H)), NEW h \in H
  PROVE  Total[[i \in DOMAIN hds |-> EdgeLiters(hs, hds[i], h) - EdgeLiters(hs, h, hds[i])]]
           = CurrentLiters(hs, h)
<1> DEFINE Net(u) == [i \in DOMAIN hds |-> EdgeLiters(u, hds[i], h) - EdgeLiters(u, h, hds[i])]
           Bad == {u \in Seq(HopsAmong(H)) : Total[Net(u)] # CurrentLiters(u, h)}
           Size == [u \in Bad |-> Len(u)]
<1>1. SUFFICES ASSUME Bad # {} PROVE FALSE
  OBVIOUS
<1>2. Size \in [Bad -> Nat]
  BY LenProperties
<1>3. PICK u \in Bad : \A v \in Bad : Size[u] <= Size[v]
  <2> HIDE DEF Bad, Size
  <2> QED BY <1>1, <1>2, Totals!Least
<1>4. /\ Len(hds) \in Nat /\ DOMAIN hds = 1 .. Len(hds)
      /\ \A i \in 1 .. Len(hds) : hds[i] \in H
      /\ \A x \in H : \E i \in 1 .. Len(hds) : hds[i] = x
      /\ \A i, j \in 1 .. Len(hds) : hds[i] = hds[j] => i = j
  <2>1. Len(hds) \in Nat /\ DOMAIN hds = 1 .. Len(hds)
    BY LenProperties
  <2> QED BY <2>1, ElementOfSeq DEF IsInjective, ToSet
<1>5. ASSUME NEW v \in Seq(HopsAmong(H)) PROVE Net(v) \in Seq(Int) /\ Len(Net(v)) = Len(hds)
  <2> DEFINE n == Len(hds)
             w == Net(v)
  <2>1. \A a, b : EdgeLiters(v, a, b) \in Int
    <3>1. ASSUME NEW a, NEW b PROVE EdgeLiters(v, a, b) \in Int
      <4>1. EdgeLiters(v, a, b) = SumOver(v, EdgeAmounts(H, a, b))
            /\ EdgeAmounts(H, a, b) \in [HopsAmong(H) -> Int]
        BY SumsOverHops
      <4>2. [i \in DOMAIN v |-> EdgeAmounts(H, a, b)[v[i]]] \in Seq(Int)
        <5> DEFINE q == EdgeAmounts(H, a, b)
                   z == [i \in DOMAIN v |-> q[v[i]]]
        <5>1. q \in [HopsAmong(H) -> Int]
          BY <4>1
        <5>2. PICK k \in Nat : DOMAIN v = 1 .. k /\ \A i \in 1 .. k : v[i] \in HopsAmong(H)
          BY LenProperties, ElementOfSeq
        <5> HIDE DEF q
        <5>3. z \in [1 .. k -> Int]
          BY <5>1, <5>2
        <5> HIDE DEF z
        <5>4. z \in Seq(Int)
          BY <5>3
        <5> QED BY <5>4 DEF z, q
      <4> QED BY <4>1, <4>2, TotalFacts DEF SumOver
    <3> QED BY <3>1
  <2>2. w \in [1 .. n -> Int] /\ n \in Nat
    BY <1>4, <2>1
  <2>3. n = Len(hds)
    OBVIOUS
  <2> HIDE DEF w, n
  <2>4. w \in Seq(Int) /\ Len(w) = n
    BY <2>2
  <2> QED BY <2>3, <2>4 DEF w
<1>6. CASE u = <<>>
  <2>1. ASSUME NEW i \in 1 .. Len(hds) PROVE Net(u)[i] = 0
    <3>1. EdgeLiters(<<>>, hds[i], h) = 0 /\ EdgeLiters(<<>>, h, hds[i]) = 0
      <4>1. [j \in DOMAIN <<>> |-> IF <<>>[j].from = hds[i] /\ <<>>[j].to = h
                                    THEN <<>>[j].liters ELSE 0] = <<>>
        OBVIOUS
      <4>2. [j \in DOMAIN <<>> |-> IF <<>>[j].from = h /\ <<>>[j].to = hds[i]
                                    THEN <<>>[j].liters ELSE 0] = <<>>
        OBVIOUS
      <4> QED BY <4>1, <4>2, TotalFacts DEF EdgeLiters
    <3> QED BY <1>4, <1>6, <3>1
  <2>2. Total[Net(u)] = 0
    <3>1. Net(u) \in Seq(Int) /\ Len(Net(u)) = Len(hds)
      BY <1>3, <1>5
    <3> HIDE DEF Net
    <3> QED BY <2>1, <3>1, TotalZero
  <2>3. CurrentLiters(u, h) = 0
    <3>1. [j \in DOMAIN <<>> |-> IF <<>>[j].to = h THEN <<>>[j].liters ELSE 0] = <<>>
      OBVIOUS
    <3>2. [j \in DOMAIN <<>> |-> IF <<>>[j].from = h THEN <<>>[j].liters ELSE 0] = <<>>
      OBVIOUS
    <3>3. ReceivedL(<<>>, h) = 0 /\ SentL(<<>>, h) = 0
      BY <3>1, <3>2, TotalFacts DEF ReceivedL, SentL
    <3> QED BY <1>6, <3>3 DEF CurrentLiters
  <2> QED BY <1>3, <2>2, <2>3
<1>7. CASE u # <<>>
  <2> DEFINE v == Front(u)
             x == Last(u)
  <2>1. /\ v \in Seq(HopsAmong(H)) /\ Len(v) = Len(u) - 1 /\ Len(u) \in Nat \ {0}
        /\ u = Append(v, x) /\ x \in HopsAmong(H)
    BY <1>3, <1>7, FrontFacts
  <2> HIDE DEF v, x
  <2>2. Total[Net(v)] = CurrentLiters(v, h)
    <3>1. v \in Bad => Len(u) <= Len(v)
      BY <1>3
    <3> QED BY <2>1, <3>1
  <2>3. x.from \in H /\ x.to \in H /\ x.liters \in Nat
    BY <2>1 DEF HopsAmong
  <2>4. PICK f \in 1 .. Len(hds), t \in 1 .. Len(hds) : hds[f] = x.from /\ hds[t] = x.to
    BY <1>4, <2>3
  <2> DEFINE plus == IF x.to = h THEN x.liters ELSE 0
             minus == IF x.from = h THEN x.liters ELSE 0
             w0 == Net(v)
             w1 == [w0 EXCEPT ![f] = @ + plus]
             w2 == [w1 EXCEPT ![t] = @ - minus]
  <2>5. plus \in Int /\ minus \in Int
    BY <2>3
  <2>6. /\ CurrentLiters(u, h) = CurrentLiters(v, h) + plus - minus
        /\ CurrentLiters(v, h) \in Int
        /\ \A a, b : /\ EdgeLiters(u, a, b)
                          = EdgeLiters(v, a, b)
                              + (IF x.from = a /\ x.to = b THEN x.liters ELSE 0)
                     /\ EdgeLiters(v, a, b) \in Int
    <3>1. ASSUME NEW a, NEW b
          PROVE  /\ ReceivedL(u, a) = ReceivedL(v, a) + (IF x.to = a THEN x.liters ELSE 0)
                 /\ SentL(u, a) = SentL(v, a) + (IF x.from = a THEN x.liters ELSE 0)
                 /\ EdgeLiters(u, a, b) = EdgeLiters(v, a, b)
                              + (IF x.from = a /\ x.to = b THEN x.liters ELSE 0)
                 /\ ReceivedL(v, a) \in Int /\ SentL(v, a) \in Int
                 /\ EdgeLiters(v, a, b) \in Int
      BY <2>1, HopEffects
    <3>2. /\ ReceivedL(u, h) = ReceivedL(v, h) + plus /\ SentL(u, h) = SentL(v, h) + minus
          /\ ReceivedL(v, h) \in Int /\ SentL(v, h) \in Int
      BY <3>1
    <3> HIDE DEF plus, minus
    <3>3. CurrentLiters(u, h) = CurrentLiters(v, h) + plus - minus
          /\ CurrentLiters(v, h) \in Int
      BY <2>5, <3>2 DEF CurrentLiters
    <3> QED BY <3>1, <3>3, Zenon
  <2>7. w0 \in Seq(Int) /\ Len(w0) = Len(hds)
    BY <2>1, <1>5
  <2>8. ASSUME NEW i \in 1 .. Len(hds)
        PROVE  Net(u)[i] = w0[i] + (IF i = f THEN plus ELSE 0) - (IF i = t THEN minus ELSE 0)
    <3> DEFINE a == EdgeLiters(v, hds[i], h)
               b == EdgeLiters(v, h, hds[i])
    <3>1. EdgeLiters(u, hds[i], h)
            = a + (IF x.from = hds[i] /\ x.to = h THEN x.liters ELSE 0) /\ a \in Int
      BY <2>6
    <3>2. EdgeLiters(u, h, hds[i])
            = b + (IF x.from = h /\ x.to = hds[i] THEN x.liters ELSE 0) /\ b \in Int
      BY <2>6
    <3>3. (x.from = hds[i] <=> i = f) /\ (x.to = hds[i] <=> i = t)
      BY <1>4, <2>4
    <3>4. Net(u)[i] = EdgeLiters(u, hds[i], h) - EdgeLiters(u, h, hds[i]) /\ w0[i] = a - b
      BY <1>4
    <3> HIDE DEF a, b, w0, Net
    <3> QED BY <2>3, <3>1, <3>2, <3>3, <3>4
  <2> HIDE DEF w0, plus, minus
  <2>9. /\ w1 \in Seq(Int) /\ Len(w1) = Len(hds)
        /\ \A i \in 1 .. Len(hds) : w1[i] = IF i = f THEN w0[i] + plus ELSE w0[i]
    <3>1. f \in 1 .. Len(w0) /\ w0[f] + plus \in Int
      <4>1. f \in 1 .. Len(w0)
        BY <2>4, <2>7
      <4>2. w0[f] \in Int
        BY <4>1, <2>7, ElementOfSeq
      <4> QED BY <2>5, <4>1, <4>2
    <3>2. /\ w1 \in Seq(Int) /\ Len(w1) = Len(w0)
          /\ \A j \in 1 .. Len(w0) : w1[j] = IF j = f THEN w0[f] + plus ELSE w0[j]
      BY <2>7, <3>1, ExceptSeq
    <3> HIDE DEF w1
    <3> QED BY <2>7, <3>2
  <2> HIDE DEF w1
  <2>10. /\ w2 \in Seq(Int) /\ Len(w2) = Len(hds)
         /\ \A i \in 1 .. Len(hds) : w2[i] = IF i = t THEN w1[i] - minus ELSE w1[i]
    <3>1. t \in 1 .. Len(w1) /\ w1[t] - minus \in Int
      <4>1. t \in 1 .. Len(w1)
        BY <2>4, <2>9
      <4>2. w1[t] \in Int
        BY <4>1, <2>9, ElementOfSeq
      <4> QED BY <2>5, <4>1, <4>2
    <3>2. /\ w2 \in Seq(Int) /\ Len(w2) = Len(w1)
          /\ \A j \in 1 .. Len(w1) : w2[j] = IF j = t THEN w1[t] - minus ELSE w1[j]
      BY <2>9, <3>1, ExceptSeq
    <3> HIDE DEF w2
    <3> QED BY <2>9, <3>2
  <2> HIDE DEF w2
  <2>11. \A i \in 1 .. Len(hds) : w0[i] \in Int /\ w1[i] \in Int
    BY <2>7, <2>9, ElementOfSeq
  <2>12. Total[w1] = Total[w0] + plus /\ Total[w0] \in Int
    <3>1. Total[w1] = Total[w0] + w1[f] - w0[f]
      BY <2>4, <2>7, <2>9, TotalChange
    <3>2. w1[f] = w0[f] + plus /\ w0[f] \in Int /\ Total[w0] \in Int
      BY <2>4, <2>7, <2>9, <2>11, TotalFacts
    <3> QED BY <2>5, <3>1, <3>2
  <2>13. Total[w2] = Total[w1] - minus /\ Total[w1] \in Int
    <3>1. Total[w2] = Total[w1] + w2[t] - w1[t]
      BY <2>4, <2>9, <2>10, TotalChange
    <3>2. w2[t] = w1[t] - minus /\ w1[t] \in Int /\ Total[w1] \in Int
      BY <2>4, <2>9, <2>10, <2>11, TotalFacts
    <3> QED BY <2>5, <3>1, <3>2
  <2>14. Net(u) = w2
    <3>1. Net(u) \in Seq(Int) /\ Len(Net(u)) = Len(hds)
      BY <1>3, <1>5
    <3>2. ASSUME NEW i \in 1 .. Len(hds) PROVE Net(u)[i] = w2[i]
      <4> HIDE DEF Net, Bad, Size
      <4> DEFINE p == IF i = f THEN plus ELSE 0
                 m == IF i = t THEN minus ELSE 0
      <4>1. Net(u)[i] = w0[i] + p - m
        BY <2>8
      <4>2. w1[i] = w0[i] + p /\ w0[i] \in Int /\ w1[i] \in Int
        BY <2>9, <2>11
      <4>3. w2[i] = w1[i] - m
        BY <2>10, <2>11
      <4>4. p \in Int /\ m \in Int
        BY <2>5
      <4> HIDE DEF p, m
      <4>5. w2[i] = w0[i] + p - m
        BY <4>2, <4>3, <4>4
      <4> QED BY <4>1, <4>5
    <3> HIDE DEF Net
    <3> QED BY <2>10, <3>1, <3>2, SeqEqual
  <2>15. Total[Net(u)] = CurrentLiters(u, h)
    <3>1. Total[w0] = CurrentLiters(v, h)
      BY <2>2 DEF w0
    <3> HIDE DEF Net
    <3> QED BY <2>5, <2>6, <2>12, <2>13, <2>14, <3>1
  <2> QED BY <1>3, <2>15
<1> QED BY <1>6, <1>7

-----------------------------------------------------------------------------
(* The scenarios, and what the programs submit                               *)

\* A scenario's holders and hops.
LEMMA FlowFacts ==
  ASSUME NEW f \in Flows
  PROVE  /\ f.style \in Styles
         /\ f.holders \in Seq(HoldersOf(f)) /\ IsInjective(f.holders)
         /\ HoldersOf(f) = ToSet(f.holders)
         /\ Len(f.holders) \in Nat /\ Len(f.holders) > 1
         /\ DOMAIN f.holders = 1 .. Len(f.holders)
         /\ \A i \in 1 .. Len(f.holders) : f.holders[i] \in HoldersOf(f)
         /\ f.hops \in Seq(HopsAmong(HoldersOf(f)))
         /\ Len(f.hops) \in Nat /\ Len(f.hops) > 0
         /\ \A i \in 1 .. Len(f.hops) : f.hops[i] \in HopsAmong(HoldersOf(f))
         /\ SendersOf(f) \subseteq HoldersOf(f)
         /\ f.outputs \subseteq HoldersOf(f) /\ f.preapproved \subseteq HoldersOf(f)
         /\ f.liters \in Nat /\ f.expected \in Nat
<1> DEFINE H == HoldersOf(f)
<1>1. IsFlow(f) /\ H = ToSet(f.holders)
  BY CustodyAssumption DEF HoldersOf
<1>2. /\ f.style \in Styles /\ f.holders \in Seq(H) /\ Len(f.holders) > 1
      /\ IsInjective(f.holders) /\ f.outputs \subseteq H /\ f.preapproved \subseteq H
      /\ f.liters \in Nat /\ f.expected \in Nat
      /\ f.hops \in Seq(HopsAmong(H)) /\ f.hops # <<>>
  BY <1>1 DEF IsFlow, HopsAmong
<1>3. /\ Len(f.holders) \in Nat /\ DOMAIN f.holders = 1 .. Len(f.holders)
      /\ \A i \in 1 .. Len(f.holders) : f.holders[i] \in H
  <2> HIDE DEF H
  <2>1. Len(f.holders) \in Nat /\ DOMAIN f.holders = 1 .. Len(f.holders)
    BY <1>2, LenProperties
  <2>2. \A i \in 1 .. Len(f.holders) : f.holders[i] \in H
    BY <1>2, ElementOfSeq
  <2> QED BY <2>1, <2>2
<1>4. /\ Len(f.hops) \in Nat /\ Len(f.hops) > 0
      /\ \A i \in 1 .. Len(f.hops) : f.hops[i] \in HopsAmong(H)
  <2> HIDE DEF H
  <2>1. Len(f.hops) \in Nat \ {0}
    BY <1>2, EmptySeq
  <2>2. \A i \in 1 .. Len(f.hops) : f.hops[i] \in HopsAmong(H)
    BY <1>2, ElementOfSeq
  <2> QED BY <2>1, <2>2
<1>5. SendersOf(f) \subseteq H
  <2> HIDE DEF H
  <2> QED BY <1>4 DEF SendersOf, HopsAmong
<1> QED BY <1>1, <1>2, <1>3, <1>4, <1>5

Kept(S, x, u) == IF x \in S THEN Append(u, x) ELSE u
IsKeptTrace(c, S) ==
  c = [n \in 0..Len(flow.holders) |->
         IF n = 0 THEN <<>>
         ELSE IF flow.holders[n] \in S THEN Append(c[n - 1], flow.holders[n]) ELSE c[n - 1]]

\* The holders chosen of the first ones, up to any of them, exist.
LEMMA KeptTraceExists ==
  ASSUME NEW S, Len(flow.holders) \in Nat
  PROVE  \E c : IsKeptTrace(c, S)
<1> DEFINE hs == flow.holders
           To(c, n) == c = [i \in 0 .. n |-> IF i = 0 THEN <<>> ELSE Kept(S, hs[i], c[i - 1])]
           Bad == {n \in Nat : ~ \E c : To(c, n)}
<1> HIDE DEF hs
<1>1. ASSUME Bad # {} PROVE FALSE
  <2>1. PICK n \in Bad : \A m \in Bad : n <= m
    BY <1>1, Totals!LeastNumber
  <2>2. To([i \in 0 .. 0 |-> <<>>], 0)
    OBVIOUS
  <2>3. n # 0
    BY <2>1, <2>2
  <2>4. n \in Nat /\ n - 1 \in Nat /\ n - 1 \notin Bad
    <3> HIDE DEF To
    <3> QED BY <2>1, <2>3
  <2>5. PICK c : To(c, n - 1)
    BY <2>4
  <2> DEFINE d == [i \in 0 .. n |-> IF i = n THEN Kept(S, hs[n], c[n - 1]) ELSE c[i]]
  <2>6. ASSUME NEW i \in 0 .. n
        PROVE  d[i] = IF i = 0 THEN <<>> ELSE Kept(S, hs[i], d[i - 1])
    <3>1. CASE i = n
      <4>1. d[i - 1] = c[n - 1] /\ i # 0
        BY <3>1, <2>3, <2>4
      <4> QED BY <3>1, <4>1
    <3>2. CASE i # n
      <4>1. i \in 0 .. n - 1 /\ (i # 0 => i - 1 \in 0 .. n - 1)
        BY <3>2, <2>4
      <4>2. c[i] = IF i = 0 THEN <<>> ELSE Kept(S, hs[i], c[i - 1])
        BY <4>1, <2>5
      <4>3. d[i] = c[i] /\ (i # 0 => d[i - 1] = c[i - 1])
        BY <4>1, <3>2
      <4> HIDE DEF d
      <4> QED BY <4>2, <4>3
    <3> QED BY <3>1, <3>2
  <2>7. To(d, n)
    BY <2>6
  <2> QED BY <2>1, <2>7
<1>2. PICK c : To(c, Len(hs))
  <2>1. Len(hs) \in Nat
    BY DEF hs
  <2> QED BY <1>1, <2>1
<1>3. IsKeptTrace(c, S)
  BY <1>2 DEF IsKeptTrace, Kept, hs
<1> QED BY <1>3

\* The holders asked to approve are holders.
LEMMA HoldersInFacts ==
  ASSUME NEW S, flow \in Flows
  PROVE  HoldersIn(S) \in Seq(HoldersOf(flow))
<1> DEFINE hs == flow.holders
           H == HoldersOf(flow)
           n == Len(hs)
           c == CHOOSE k : IsKeptTrace(k, S)
           Bad == {i \in Nat : i <= n /\ c[i] \notin Seq(H)}
<1>1. n \in Nat /\ \A i \in 1 .. n : hs[i] \in H
  BY FlowFacts
<1>2. IsKeptTrace(c, S)
  BY <1>1, KeptTraceExists
<1>3. HoldersIn(S) = c[n]
  BY DEF HoldersIn, IsKeptTrace
<1> HIDE DEF c, H
<1>4. /\ c[0] = <<>>
      /\ \A i \in 1 .. n : c[i] = Kept(S, hs[i], c[i - 1])
  <2>1. c[0] = <<>>
    BY <1>1, <1>2 DEF IsKeptTrace
  <2>2. ASSUME NEW i \in 1 .. n PROVE c[i] = Kept(S, hs[i], c[i - 1])
    <3>1. i \in 0 .. n /\ i # 0
      BY <1>1
    <3> QED BY <1>2, <3>1 DEF IsKeptTrace, Kept
  <2> QED BY <2>1, <2>2
<1> HIDE DEF n, hs
<1>5. ASSUME Bad # {} PROVE FALSE
  <2>1. PICK i \in Bad : \A j \in Bad : i <= j
    BY <1>5, Totals!LeastNumber
  <2>2. i # 0
    BY <1>4, <2>1, EmptySeq
  <2>3. i \in 1 .. n /\ i - 1 \in Nat /\ i - 1 <= n /\ i - 1 \notin Bad
    BY <1>1, <2>1, <2>2
  <2>4. c[i - 1] \in Seq(H) /\ hs[i] \in H
    BY <1>1, <2>3
  <2>5. Append(c[i - 1], hs[i]) \in Seq(H)
    BY <2>4, AppendProperties
  <2>6. c[i] \in Seq(H)
    BY <1>4, <2>3, <2>4, <2>5 DEF Kept
  <2> QED BY <2>1, <2>6
<1>6. c[n] \in Seq(H)
  <2>1. n \notin Bad
    <3> HIDE DEF Bad
    <3> QED BY <1>5, Zenon
  <2>2. n \in Nat /\ n <= n
    BY <1>1
  <2> QED BY <2>1, <2>2
<1> QED BY <1>3, <1>6 DEF H

\* What a program does to the chain until its transactions are mined: nothing.
ChainStays == UNCHANGED <<flow, nextNonce, balanceVars, shown>>

\* A send of some transactions: the pool takes some of them, and the program waits
\* for one of them or is over.
Sends(txs, then) ==
  /\ ChainStays
  /\ \A t \in txPool : t \in txPool'
  /\ \A t \in txPool' : t \in txPool \/ t \in ToSet(txs)
  /\ \/ phase' = then /\ awaited' \in ToSet(txs) /\ verdict' \in {"running", "incomplete"}
     \/ phase' = "done" /\ awaited' = NoTx /\ verdict' = "aborted"

\* What was accepted and pooled is some of what was sent; if nothing was refused, the
\* program waits for the last.
LEMMA SentSends ==
  ASSUME NEW S, NEW txs \in Seq(S), NEW A \in SUBSET DOMAIN txs, NEW P \in SUBSET DOMAIN txs,
         NEW throws, NEW then, Sent(txs, A, P, throws, then)
  PROVE  /\ Sends(txs, then)
         /\ \/ phase' = "done"
            \/ ~throws /\ A # DOMAIN txs /\ verdict' = "incomplete"
            \/ ~throws /\ A = DOMAIN txs /\ verdict' = "running" /\ awaited' = Last(txs)
<1>1. Len(txs) \in Nat /\ DOMAIN txs = 1 .. Len(txs)
  BY LenProperties
<1>2. /\ ChainStays /\ txPool' = txPool \cup {txs[i] : i \in P}
      /\ \/ phase' = "done" /\ verdict' = "aborted" /\ awaited' = NoTx
         \/ \E last \in A :
              /\ ~throws /\ \A i \in A : i <= last
              /\ phase' = then /\ awaited' = txs[last]
              /\ verdict' = IF A = DOMAIN txs THEN "running" ELSE "incomplete"
  <2> DEFINE faults == IF A = DOMAIN txs THEN 0 ELSE 1
  <2>1. /\ ChainStays /\ txPool' = txPool \cup {txs[i] : i \in P}
        /\ \/ phase' = "done" /\ verdict' = "aborted" /\ awaited' = NoTx
           \/ \E last \in A :
                /\ ~throws /\ \A i \in A : i <= last
                /\ phase' = then /\ awaited' = txs[last]
                /\ verdict' = IF faults = 0 THEN "running" ELSE "incomplete"
    BY Zenon DEF Sent, ChainStays
  <2>2. faults = 0 <=> A = DOMAIN txs
    OBVIOUS
  <2> QED BY <2>1, <2>2, Zenon
<1>3. \A i \in DOMAIN txs : txs[i] \in ToSet(txs)
  BY DEF ToSet
<1>4. /\ \A t \in txPool : t \in txPool'
      /\ \A t \in txPool' : t \in txPool \/ t \in ToSet(txs)
  BY <1>2, <1>3
<1>5. CASE phase' = "done" /\ verdict' = "aborted" /\ awaited' = NoTx
  BY <1>2, <1>4, <1>5 DEF Sends
<1>6. ASSUME NEW last \in A,
             ~throws, \A i \in A : i <= last, phase' = then, awaited' = txs[last],
             verdict' = IF A = DOMAIN txs THEN "running" ELSE "incomplete"
      PROVE  /\ Sends(txs, then)
             /\ \/ ~throws /\ A # DOMAIN txs /\ verdict' = "incomplete"
                \/ ~throws /\ A = DOMAIN txs /\ verdict' = "running" /\ awaited' = Last(txs)
  <2>1. Sends(txs, then)
    BY <1>2, <1>3, <1>4, <1>6 DEF Sends
  <2>2. ASSUME A = DOMAIN txs PROVE last = Len(txs)
    <3>1. last \in 1 .. Len(txs) /\ \A i \in 1 .. Len(txs) : i <= last
      BY <1>1, <1>6, <2>2
    <3>2. Len(txs) \in 1 .. Len(txs)
      BY <1>1, <3>1
    <3> QED BY <3>1, <3>2
  <2> QED BY <1>6, <2>1, <2>2 DEF Last
<1> QED BY <1>2, <1>5, <1>6, Zenon

\* Awaited calls one by one: a refusal ends the program.
LEMMA OneByOneSends ==
  ASSUME NEW S, NEW txs \in Seq(S), NEW then, SendOneByOne(txs, then)
  PROVE  Sends(txs, then) /\ (phase' # "done" => verdict' = "running")
<1>1. Len(txs) \in Nat /\ DOMAIN txs = 1 .. Len(txs)
  BY LenProperties
<1>2. PICK n \in 0 .. Len(txs) : Sent(txs, 1 .. n, 1 .. n, n < Len(txs), then)
  BY Zenon DEF SendOneByOne
<1>3. 1 .. n \in SUBSET DOMAIN txs
  BY <1>1
<1>4. ASSUME ~(n < Len(txs)) PROVE 1 .. n = DOMAIN txs
  <2>1. ASSUME NEW len \in Nat, NEW k \in 0 .. len, ~(k < len) PROVE k = len
    BY <2>1
  <2>2. n = Len(txs)
    BY <1>1, <1>4, <2>1, Zenon
  <2> QED BY <1>1, <2>2
<1>5. /\ Sends(txs, then)
      /\ \/ phase' = "done"
         \/ ~(n < Len(txs)) /\ 1 .. n # DOMAIN txs
         \/ verdict' = "running"
  <2> DEFINE A == 1 .. n
             throws == n < Len(txs)
  <2>1. Sent(txs, A, A, throws, then) /\ A \in SUBSET DOMAIN txs
    BY <1>2, <1>3
  <2> HIDE DEF A, throws
  <2>2. /\ Sends(txs, then)
        /\ \/ phase' = "done"
           \/ ~throws /\ A # DOMAIN txs
           \/ verdict' = "running"
    BY <2>1, SentSends, Zenon
  <2> QED BY <2>2 DEF A, throws
<1> QED BY <1>4, <1>5

\* A batch: with a refusal the program goes on without what was refused.
LEMMA TogetherSends ==
  ASSUME NEW S, NEW txs \in Seq(S), NEW then, SendTogether(txs, then)
  PROVE  /\ Sends(txs, then)
         /\ phase' # "done" /\ verdict' = "running" => awaited' = Last(txs)
<1>1. PICK A \in SUBSET DOMAIN txs, P \in SUBSET DOMAIN txs, throws \in BOOLEAN :
        Sent(txs, A, P, throws, then)
  <2>1. PICK P \in SUBSET DOMAIN txs :
          \/ Sent(txs, {}, P, TRUE, then)
          \/ \E A \in SUBSET P : Sent(txs, A, P, FALSE, then)
    BY Zenon DEF SendTogether
  <2>2. CASE Sent(txs, {}, P, TRUE, then)
    <3>1. {} \in SUBSET DOMAIN txs /\ TRUE \in BOOLEAN
      OBVIOUS
    <3> QED BY <2>2, <3>1, Zenon
  <2>3. CASE \E A \in SUBSET P : Sent(txs, A, P, FALSE, then)
    <3>1. PICK A \in SUBSET P : Sent(txs, A, P, FALSE, then)
      BY <2>3
    <3>2. A \in SUBSET DOMAIN txs /\ FALSE \in BOOLEAN
      BY <3>1
    <3> QED BY <3>1, <3>2, Zenon
  <2> QED BY <2>1, <2>2, <2>3
<1>2. /\ Sends(txs, then)
      /\ \/ phase' = "done"
         \/ verdict' = "incomplete"
         \/ awaited' = Last(txs)
  BY <1>1, SentSends, Zenon
<1> QED BY <1>2

TxKinds == {"prime", "mint", "approve", "execute", "transfer"}
Accounts == {Deployer} \cup HoldersOf(flow)

\* A transaction of the scenario.
IsTx(t) ==
  /\ t.kind \in TxKinds /\ t.by \in Accounts /\ t.nonce \in Nat
  /\ t.kind = "transfer" => t.hop \in 1 .. Len(flow.hops)

CustodyTyped ==
  /\ flow \in Flows /\ minted \in BOOLEAN
  /\ balance \in [HoldersOf(flow) -> Nat]
  /\ transfers \in Seq(HopsAmong(HoldersOf(flow)))
  /\ shown \in 0 .. Len(transfers)
  /\ nextNonce \in [Accounts -> Nat]
  /\ hopNo \in Nat \ {0}
  /\ \A t \in txPool : IsTx(t)
  /\ awaited = NoTx \/ IsTx(awaited)

\* A sequence of one element.
LEMMA OneElement ==
  ASSUME NEW x
  PROVE  <<x>> \in Seq({x}) /\ ToSet(<<x>>) = {x}
<1>1. <<x>> \in Seq({x}) /\ DOMAIN <<x>> = {1} /\ <<x>>[1] = x
  OBVIOUS
<1> QED BY <1>1 DEF ToSet

\* Two elements.
LEMMA TwoElements ==
  ASSUME NEW x, NEW y
  PROVE  <<x, y>> \in Seq({x, y}) /\ ToSet(<<x, y>>) = {x, y} /\ Last(<<x, y>>) = y
<1>1. <<x, y>> \in Seq({x, y}) /\ DOMAIN <<x, y>> = {1, 2} /\ Len(<<x, y>>) = 2
      /\ <<x, y>>[1] = x /\ <<x, y>>[2] = y
  OBVIOUS
<1> QED BY <1>1 DEF ToSet, Last

\* The programs' transactions are the scenario's.
LEMMA ProgramTxs ==
  ASSUME CustodyTyped
  PROVE  /\ Primes \in Seq(ToSet(Primes))
         /\ \A t \in ToSet(Primes) :
              \E i \in 1 .. Len(flow.holders) : t = Prime(flow.holders[i], i - 1)
         /\ Approvals \in Seq(ToSet(Approvals))
         /\ \A t \in ToSet(Approvals) : \E h \in HoldersOf(flow) : t = Approve(h)
         /\ Nonces \in Nat
         /\ \A t \in ToSet(Primes) \cup ToSet(Approvals) : IsTx(t)
         /\ IsTx(Mint(Nonces)) /\ IsTx(Execute(Nonces + 1))
         /\ \A i \in 1 .. Len(flow.hops) : IsTx(Transfer(i, flow.hops[i].from))
<1>1. /\ Len(flow.holders) \in Nat
      /\ \A i \in 1 .. Len(flow.holders) : flow.holders[i] \in HoldersOf(flow)
      /\ \A i \in 1 .. Len(flow.hops) : flow.hops[i].from \in HoldersOf(flow)
  BY FlowFacts DEF CustodyTyped, HopsAmong
<1>2. ASSUME NEW n \in Nat, NEW F
      PROVE  [i \in 1 .. n |-> F[i]] \in Seq(ToSet([i \in 1 .. n |-> F[i]]))
             /\ \A t \in ToSet([i \in 1 .. n |-> F[i]]) : \E i \in 1 .. n : t = F[i]
  BY DEF ToSet
<1>3. /\ Primes \in Seq(ToSet(Primes))
      /\ \A t \in ToSet(Primes) :
           \E i \in 1 .. Len(flow.holders) : t = Prime(flow.holders[i], i - 1)
  <2> DEFINE n == Len(flow.holders)
  <2>1. Primes = [i \in 1 .. n |-> Primes[i]]
    BY DEF Primes
  <2>2. \A i \in 1 .. n : Primes[i] = Prime(flow.holders[i], i - 1)
    BY DEF Primes
  <2>3. n \in Nat
    BY <1>1
  <2>4. Primes \in Seq(ToSet(Primes)) /\ \A t \in ToSet(Primes) : \E i \in 1 .. n : t = Primes[i]
    <3> HIDE DEF n
    <3> QED BY <1>2, <2>1, <2>3
  <2> QED BY <2>2, <2>4
<1>4. /\ Approvals \in Seq(ToSet(Approvals))
      /\ \A t \in ToSet(Approvals) : \E h \in HoldersOf(flow) : t = Approve(h)
  <2> DEFINE hs == HoldersIn(Approvers)
             n == Len(hs)
  <2>1. hs \in Seq(HoldersOf(flow))
    BY HoldersInFacts DEF CustodyTyped
  <2>2. n \in Nat /\ \A i \in 1 .. n : hs[i] \in HoldersOf(flow)
    <3> HIDE DEF hs
    <3> QED BY <2>1, LenProperties, ElementOfSeq
  <2>3. Approvals = [i \in 1 .. n |-> Approve(hs[i])]
    BY DEF Approvals
  <2> HIDE DEF hs, n
  <2>4. Approvals = [i \in 1 .. n |-> Approvals[i]]
        /\ \A i \in 1 .. n : Approvals[i] = Approve(hs[i])
    BY <2>3
  <2>5. Approvals \in Seq(ToSet(Approvals))
        /\ \A t \in ToSet(Approvals) : \E i \in 1 .. n : t = Approvals[i]
    BY <1>2, <2>2, <2>4
  <2> QED BY <2>2, <2>4, <2>5
<1>5. Nonces \in Nat
  BY <1>1 DEF Nonces
<1>6. \A t \in ToSet(Primes) \cup ToSet(Approvals) : IsTx(t)
  <2>1. ASSUME NEW t \in ToSet(Primes) PROVE IsTx(t)
    <3>1. PICK i \in 1 .. Len(flow.holders) : t = Prime(flow.holders[i], i - 1)
      BY <1>3
    <3> QED BY <1>1, <3>1 DEF IsTx, Prime, TxKinds, Accounts
  <2>2. ASSUME NEW t \in ToSet(Approvals) PROVE IsTx(t)
    BY <1>4 DEF IsTx, Approve, TxKinds, Accounts
  <2> QED BY <2>1, <2>2
<1>7. IsTx(Mint(Nonces)) /\ IsTx(Execute(Nonces + 1))
  BY <1>5 DEF IsTx, Mint, Execute, TxKinds, Accounts
<1>8. \A i \in 1 .. Len(flow.hops) : IsTx(Transfer(i, flow.hops[i].from))
  BY <1>1 DEF IsTx, Transfer, TxKinds, Accounts
<1> QED BY <1>3, <1>4, <1>5, <1>6, <1>7, <1>8

\* What each of the load programs' steps sends.
LEMMA SendShapes ==
  ASSUME CustodyTyped
  PROVE  /\ SendPrimes => Sends(Primes, "prime") /\ hopNo' = hopNo
         /\ SendMint => Sends(<<Mint(Nonces)>>, "mint") /\ hopNo' = hopNo
                          /\ (phase' # "done" => verdict' = "running")
         /\ SendApprovals => Sends(Approvals, "approve") /\ hopNo' = hopNo
         /\ SendExecute => Sends(<<Execute(Nonces + 1)>>, "execute") /\ hopNo' = hopNo
                          /\ (phase' # "done" => verdict' = "running")
         /\ \A i \in 1 .. Len(flow.hops) :
              SendHop(i) => Sends(<<Transfer(i, flow.hops[i].from)>>, "hop") /\ hopNo' = i
                              /\ (phase' # "done" => verdict' = "running")
         /\ SendTogether(<<Mint(Nonces), Execute(Nonces + 1)>>, "execute") =>
              /\ Sends(<<Mint(Nonces), Execute(Nonces + 1)>>, "execute")
              /\ phase' # "done" /\ verdict' = "running" => awaited' = Execute(Nonces + 1)
<1>1. SendPrimes => Sends(Primes, "prime") /\ hopNo' = hopNo
  BY ProgramTxs, OneByOneSends, TogetherSends DEF SendPrimes
<1>2. ASSUME NEW x, NEW then, SendOneByOne(<<x>>, then)
      PROVE  Sends(<<x>>, then) /\ (phase' # "done" => verdict' = "running")
  <2>1. <<x>> \in Seq({x})
    BY OneElement
  <2> QED BY <1>2, <2>1, OneByOneSends
<1>3. SendApprovals => Sends(Approvals, "approve") /\ hopNo' = hopNo
  BY ProgramTxs, TogetherSends DEF SendApprovals
<1>4. SendTogether(<<Mint(Nonces), Execute(Nonces + 1)>>, "execute") =>
        /\ Sends(<<Mint(Nonces), Execute(Nonces + 1)>>, "execute")
        /\ phase' # "done" /\ verdict' = "running" => awaited' = Execute(Nonces + 1)
  <2> DEFINE x == Mint(Nonces)
             y == Execute(Nonces + 1)
  <2> HIDE DEF x, y
  <2>1. <<x, y>> \in Seq({x, y}) /\ Last(<<x, y>>) = y
    BY TwoElements
  <2>2. SendTogether(<<x, y>>, "execute") =>
          /\ Sends(<<x, y>>, "execute")
          /\ phase' # "done" /\ verdict' = "running" => awaited' = y
    BY <2>1, TogetherSends
  <2> QED BY <2>2 DEF x, y
<1>5. SendMint => Sends(<<Mint(Nonces)>>, "mint") /\ hopNo' = hopNo
                    /\ (phase' # "done" => verdict' = "running")
  BY <1>2, Zenon DEF SendMint
<1>6. SendExecute => Sends(<<Execute(Nonces + 1)>>, "execute") /\ hopNo' = hopNo
                       /\ (phase' # "done" => verdict' = "running")
  BY <1>2, Zenon DEF SendExecute
<1>7. ASSUME NEW i \in 1 .. Len(flow.hops), SendHop(i)
      PROVE  Sends(<<Transfer(i, flow.hops[i].from)>>, "hop") /\ hopNo' = i
               /\ (phase' # "done" => verdict' = "running")
  BY <1>2, <1>7, Zenon DEF SendHop
<1> QED BY <1>1, <1>3, <1>4, <1>5, <1>6, <1>7

\* The end of a program changes nothing but its verdict.
Ends(v) ==
  /\ ChainStays /\ txPool' = txPool /\ hopNo' = hopNo
  /\ phase' = "done" /\ awaited' = NoTx /\ verdict' = v

\* What a step of an SDK program does: it sends its next call, or ends.
LEMMA SdkStepFacts ==
  ASSUME CustodyTyped, SdkStep
  PROVE  /\ flow.style \in SdkStyles
         /\ phase = "start" \/ (phase = "sdk" /\ IsMined(awaited))
         /\ \/ Ends("aborted")
            \/ Ends("delivered") /\ awaited # NoTx /\ transfers # <<>>
            \/ /\ ChainStays /\ (awaited # NoTx => awaited.kind # "execute")
               /\ phase' = "sdk" /\ verdict' = verdict /\ hopNo' \in Nat \ {0}
               /\ txPool' = txPool \cup {awaited'} /\ IsTx(awaited')
               /\ awaited'.nonce = nextNonce[awaited'.by]
               /\ IF phase = "start" THEN awaited'.kind = "mint"
                  ELSE awaited'.kind \in {"approve", "execute"}
<1>1. flow.style \in SdkStyles /\ (phase = "start" \/ (phase = "sdk" /\ IsMined(awaited)))
  BY DEF SdkStep, Received
<1>2. CASE awaited # NoTx /\ ~CallSucceeded
  <2>1. Abort
    BY <1>2 DEF SdkStep
  <2>2. Ends("aborted")
    BY <2>1 DEF Abort, Ends, ChainStays
  <2> QED BY <1>1, <2>2
<1>3. CASE awaited # NoTx /\ CallSucceeded /\ awaited.kind = "execute"
  <2>1. Ends("delivered")
    BY <1>3 DEF SdkStep, Ends, ChainStays
  <2> QED BY <1>1, <1>3, <2>1 DEF CallSucceeded
<1>4. CASE awaited # NoTx => awaited.kind # "execute"
  <2>1. CASE awaited # NoTx /\ ~CallSucceeded
    BY <1>2, <2>1
  <2>2. CASE ~(awaited # NoTx /\ ~CallSucceeded)
    <3>1. SdkSend(NextCall)
      BY <1>4, <2>2 DEF SdkStep
    <3> DEFINE t == NextCall
    <3>2. /\ IsTx(t) /\ t.nonce = nextNonce[t.by]
          /\ IF phase = "start" THEN t.kind = "mint" ELSE t.kind \in {"approve", "execute"}
      <4>1. ASSUME NEW kind \in {"mint", "approve", "execute"}, NEW h \in Accounts
            PROVE  /\ IsTx(SdkCall(kind, h)) /\ SdkCall(kind, h).kind = kind
                   /\ SdkCall(kind, h).nonce = nextNonce[SdkCall(kind, h).by]
        BY DEF IsTx, SdkCall, TxKinds, CustodyTyped
      <4>2. flow.holders[1] \in HoldersOf(flow)
        BY FlowFacts DEF CustodyTyped
      <4>3. Program.caller \in Accounts /\ Program.asks \in Seq(HoldersOf(flow))
        <5>1. HoldersIn(SendersOf(flow)) \in Seq(HoldersOf(flow))
          BY HoldersInFacts DEF CustodyTyped
        <5>2. FirstOwnerAsked \in Seq(HoldersOf(flow))
          BY <4>2 DEF FirstOwnerAsked, FirstHolder
        <5>3. /\ TsProgram.caller \in Accounts /\ TsProgram.asks \in Seq(HoldersOf(flow))
              /\ PyProgram.caller \in Accounts /\ PyProgram.asks \in Seq(HoldersOf(flow))
              /\ GoProgram.caller \in Accounts /\ GoProgram.asks \in Seq(HoldersOf(flow))
          BY <4>2, <5>1, <5>2 DEF TsProgram, PyProgram, GoProgram, Accounts, FirstHolder
        <5>4. Program \in {TsProgram, PyProgram, GoProgram}
          BY <1>1 DEF Program, SdkStyles
        <5> QED BY <5>3, <5>4
      <4>4. ASSUME hopNo <= Len(Program.asks)
            PROVE  Program.asks[hopNo] \in Accounts
        <5> DEFINE u == Program.asks
        <5>1. u \in Seq(HoldersOf(flow))
          BY <4>3
        <5> HIDE DEF u
        <5>2. Len(u) \in Nat /\ hopNo <= Len(u)
          BY <4>4, <5>1, LenProperties DEF u
        <5>3. hopNo \in 1 .. Len(u)
          BY <5>2 DEF CustodyTyped
        <5>4. u[hopNo] \in HoldersOf(flow)
          BY <5>1, <5>3, ElementOfSeq
        <5> QED BY <5>4 DEF u, Accounts
      <4>5. Deployer \in Accounts
        BY DEF Accounts
      <4>6. CASE phase = "start"
        BY <4>1, <4>5, <4>6 DEF NextCall
      <4>7. CASE phase # "start" /\ hopNo <= Len(Program.asks)
        BY <4>1, <4>4, <4>7 DEF NextCall
      <4>8. CASE phase # "start" /\ ~(hopNo <= Len(Program.asks))
        BY <4>1, <4>3, <4>8 DEF NextCall
      <4> QED BY <4>6, <4>7, <4>8
    <3> HIDE DEF t
    <3>3. SdkSend(t)
      BY <3>1 DEF t
    <3>4. CASE ~WouldSucceed(t)
      <4>1. Ends("aborted")
        BY <3>3, <3>4 DEF SdkSend, Abort, Ends, ChainStays
      <4> QED BY <1>1, <4>1
    <3>5. CASE WouldSucceed(t)
      <4>1. /\ ChainStays /\ phase' = "sdk" /\ verdict' = verdict
            /\ txPool' = txPool \cup {t} /\ awaited' = t
            /\ hopNo' = IF t.kind = "approve" THEN hopNo + 1 ELSE hopNo
        BY <3>3, <3>5 DEF SdkSend, ChainStays
      <4>2. hopNo' \in Nat \ {0}
        BY <4>1 DEF CustodyTyped
      <4> QED BY <1>1, <1>4, <3>2, <4>1, <4>2
    <3> QED BY <3>4, <3>5
  <2> QED BY <2>1, <2>2
<1> QED BY <1>2, <1>3, <1>4

ProgramNext ==
  \/ SendPrimes \/ AfterPrimes \/ AfterMint \/ AfterApprovals \/ AfterExecute
  \/ AfterHop \/ SdkStep \/ AwaitTimeout

\* What a step of a load program does: it sends what its phase is for, or ends.
LEMMA LoadSteps ==
  ASSUME CustodyTyped, ProgramNext, ~SdkStep
  PROVE  \/ phase = "start" /\ flow.style \notin SdkStyles
             /\ Sends(Primes, "prime") /\ hopNo' = hopNo
         \/ /\ phase = "prime" /\ IsMined(awaited) /\ flow.style # "verify" /\ hopNo' = hopNo
            /\ Sends(<<Mint(Nonces)>>, "mint") /\ (phase' # "done" => verdict' = "running")
         \/ /\ phase \in {"prime", "mint"} /\ IsMined(awaited)
            /\ (phase = "prime" => flow.style = "verify") /\ hopNo' = hopNo
            /\ (phase = "mint" => flow.style # "sequential")
            /\ Sends(Approvals, "approve")
         \/ /\ phase = "approve" /\ IsMined(awaited) /\ flow.style # "verify" /\ hopNo' = hopNo
            /\ Sends(<<Execute(Nonces + 1)>>, "execute")
            /\ (phase' # "done" => verdict' = "running")
         \/ /\ phase = "approve" /\ IsMined(awaited) /\ flow.style = "verify" /\ hopNo' = hopNo
            /\ HoldersOf(flow) \subseteq approved
            /\ Sends(<<Mint(Nonces), Execute(Nonces + 1)>>, "execute")
            /\ phase' # "done" /\ verdict' = "running" => awaited' = Execute(Nonces + 1)
         \/ /\ phase \in {"mint", "hop"} /\ IsMined(awaited)
            /\ (phase = "mint" => flow.style = "sequential")
            /\ hopNo' \in 1 .. Len(flow.hops)
            /\ Sends(<<Transfer(hopNo', flow.hops[hopNo'].from)>>, "hop")
            /\ (phase' # "done" => verdict' = "running")
         \/ /\ phase \in {"execute", "hop"} /\ IsMined(awaited)
            /\ flow.style = "verify" /\ phase = "execute" => verdict # "incomplete"
            /\ Ends(IF ReportsSuccess THEN "delivered" ELSE "failed")
         \/ Ends("aborted")
<1> DEFINE Goal ==
         \/ phase = "start" /\ flow.style \notin SdkStyles
             /\ Sends(Primes, "prime") /\ hopNo' = hopNo
         \/ /\ phase = "prime" /\ IsMined(awaited) /\ flow.style # "verify" /\ hopNo' = hopNo
            /\ Sends(<<Mint(Nonces)>>, "mint") /\ (phase' # "done" => verdict' = "running")
         \/ /\ phase \in {"prime", "mint"} /\ IsMined(awaited)
            /\ (phase = "prime" => flow.style = "verify") /\ hopNo' = hopNo
            /\ (phase = "mint" => flow.style # "sequential")
            /\ Sends(Approvals, "approve")
         \/ /\ phase = "approve" /\ IsMined(awaited) /\ flow.style # "verify" /\ hopNo' = hopNo
            /\ Sends(<<Execute(Nonces + 1)>>, "execute")
            /\ (phase' # "done" => verdict' = "running")
         \/ /\ phase = "approve" /\ IsMined(awaited) /\ flow.style = "verify" /\ hopNo' = hopNo
            /\ HoldersOf(flow) \subseteq approved
            /\ Sends(<<Mint(Nonces), Execute(Nonces + 1)>>, "execute")
            /\ phase' # "done" /\ verdict' = "running" => awaited' = Execute(Nonces + 1)
         \/ /\ phase \in {"mint", "hop"} /\ IsMined(awaited)
            /\ (phase = "mint" => flow.style = "sequential")
            /\ hopNo' \in 1 .. Len(flow.hops)
            /\ Sends(<<Transfer(hopNo', flow.hops[hopNo'].from)>>, "hop")
            /\ (phase' # "done" => verdict' = "running")
         \/ /\ phase \in {"execute", "hop"} /\ IsMined(awaited)
            /\ flow.style = "verify" /\ phase = "execute" => verdict # "incomplete"
            /\ Ends(IF ReportsSuccess THEN "delivered" ELSE "failed")
         \/ Ends("aborted")
<1>1. Abort => Ends("aborted")
  BY DEF Abort, Ends, ChainStays
<1>2. Report => Ends(IF ReportsSuccess THEN "delivered" ELSE "failed")
  BY DEF Report, Ends, ChainStays
<1>3. CASE SendPrimes
  BY <1>3, SendShapes DEF SendPrimes
<1>4. CASE AfterPrimes
  BY <1>1, <1>4, SendShapes DEF AfterPrimes, Received
<1>5. CASE AfterMint
  <2>1. phase = "mint" /\ IsMined(awaited)
    BY <1>5 DEF AfterMint, Received
  <2>2. CASE flow.style = "sequential"
    <3>1. SendHop(1) /\ 1 \in 1 .. Len(flow.hops)
      BY <1>5, <2>2, FlowFacts DEF AfterMint, CustodyTyped
    <3>2. Sends(<<Transfer(1, flow.hops[1].from)>>, "hop") /\ hopNo' = 1
          /\ (phase' # "done" => verdict' = "running")
      BY <3>1, SendShapes
    <3> QED BY <2>1, <2>2, <3>1, <3>2
  <2>3. CASE flow.style # "sequential"
    <3>1. Sends(Approvals, "approve") /\ hopNo' = hopNo
      BY <1>5, <2>3, SendShapes DEF AfterMint
    <3> QED BY <2>1, <2>3, <3>1
  <2> QED BY <2>2, <2>3
<1>6. CASE AfterApprovals
  <2>1. phase = "approve" /\ IsMined(awaited)
    BY <1>6 DEF AfterApprovals, Received
  <2>2. CASE ~ApprovalsVerified
    BY <1>1, <1>6, <2>2 DEF AfterApprovals
  <2>3. CASE ApprovalsVerified /\ flow.style # "verify"
    BY <1>6, <2>1, <2>3, SendShapes DEF AfterApprovals
  <2>4. CASE ApprovalsVerified /\ flow.style = "verify"
    <3>1. SendTogether(<<Mint(Nonces), Execute(Nonces + 1)>>, "execute") /\ hopNo' = hopNo
      BY <1>6, <2>4 DEF AfterApprovals
    <3>2. HoldersOf(flow) \subseteq approved
      BY <2>4 DEF ApprovalsVerified, Approvers
    <3> QED BY <2>1, <2>4, <3>1, <3>2, SendShapes
  <2> QED BY <2>2, <2>3, <2>4
<1>7. CASE AfterExecute
  BY <1>1, <1>2, <1>7 DEF AfterExecute, Received, AllAccepted
<1>8. CASE AfterHop
  <2>1. phase = "hop" /\ IsMined(awaited)
    BY <1>8 DEF AfterHop, Received
  <2>2. CASE HopSucceeded /\ hopNo < Len(flow.hops)
    <3>1. SendHop(hopNo + 1)
      BY <1>8, <2>2 DEF AfterHop
    <3>2. hopNo + 1 \in 1 .. Len(flow.hops)
      BY <2>2, FlowFacts DEF CustodyTyped
    <3>3. Sends(<<Transfer(hopNo + 1, flow.hops[hopNo + 1].from)>>, "hop")
          /\ hopNo' = hopNo + 1 /\ (phase' # "done" => verdict' = "running")
      BY <3>1, <3>2, SendShapes
    <3> QED BY <2>1, <3>2, <3>3
  <2>3. CASE ~(HopSucceeded /\ hopNo < Len(flow.hops))
    <3>1. Report
      BY <1>8, <2>3 DEF AfterHop
    <3>2. Ends(IF ReportsSuccess THEN "delivered" ELSE "failed")
      BY <1>2, <3>1
    <3>3. phase \in {"execute", "hop"} /\ phase # "execute"
      BY <2>1
    <3> QED BY <2>1, <3>2, <3>3, Zenon
  <2> QED BY <2>2, <2>3
<1>9. CASE AwaitTimeout
  BY <1>1, <1>9 DEF AwaitTimeout
<1> HIDE DEF Goal
<1>10. Goal
  BY <1>3, <1>4, <1>5, <1>6, <1>7, <1>8, <1>9 DEF ProgramNext, Goal
<1> QED BY <1>10 DEF Goal

\* What a node of the graph holds is a whole number, and nothing without hops.
LEMMA NodeAmounts ==
  ASSUME NEW H, NEW hs \in Seq(HopsAmong(H)), NEW a
  PROVE  CurrentLiters(hs, a) \in Int /\ CurrentLiters(<<>>, a) = 0
<1> DEFINE Hs == HopsAmong(H)
<1>1. <<>> \in Seq(Hs) /\ hs \in Seq(Hs)
  BY EmptySeq
<1>2. ASSUME NEW q \in [Hs -> Int] PROVE SumOver(hs, q) \in Int /\ SumOver(<<>>, q) = 0
  <2>1. /\ Len(hs) \in Nat /\ DOMAIN hs = 1 .. Len(hs)
        /\ \A i \in 1 .. Len(hs) : hs[i] \in Hs
    BY <1>1, LenProperties, ElementOfSeq
  <2> DEFINE n == Len(hs)
             w == [i \in DOMAIN hs |-> q[hs[i]]]
  <2> HIDE DEF Hs
  <2>2. w = [i \in 1 .. n |-> q[hs[i]]] /\ n \in Nat
    BY <2>1
  <2>3. \A i \in 1 .. n : q[hs[i]] \in Int
    BY <2>1
  <2>4. w \in [1 .. n -> Int]
    BY <2>2, <2>3
  <2>5. w \in Seq(Int)
    <3> HIDE DEF n, w
    <3> QED BY <2>2, <2>4
  <2>6. Total[w] \in Int /\ Total[<<>>] = 0
    <3> HIDE DEF n, w
    <3> QED BY <2>5, TotalFacts
  <2>7. [i \in DOMAIN <<>> |-> q[<<>>[i]]] = <<>>
    OBVIOUS
  <2> QED BY <2>6, <2>7, Zenon DEF SumOver
<1>3. /\ ReceivedL(hs, a) = SumOver(hs, InAmounts(H, a))
      /\ ReceivedL(<<>>, a) = SumOver(<<>>, InAmounts(H, a))
      /\ InAmounts(H, a) \in [Hs -> Int]
  BY <1>1, SumsOverHops
<1>4. /\ SentL(hs, a) = SumOver(hs, OutAmounts(H, a))
      /\ SentL(<<>>, a) = SumOver(<<>>, OutAmounts(H, a))
      /\ OutAmounts(H, a) \in [Hs -> Int]
  BY <1>1, SumsOverHops
<1> HIDE DEF Hs
<1>5. ReceivedL(hs, a) \in Int /\ ReceivedL(<<>>, a) = 0
  BY <1>2, <1>3, Zenon
<1>6. SentL(hs, a) \in Int /\ SentL(<<>>, a) = 0
  BY <1>2, <1>4, Zenon
<1> QED BY <1>5, <1>6 DEF CurrentLiters

\* A mined transaction is one of the five.
LEMMA MineCases ==
  ASSUME CustodyTyped, NEW t \in txPool, MineCustody(t)
  PROVE  /\ Mineable(t) /\ IsTx(t) /\ txPool' = txPool \ {t}
         /\ nextNonce' = [nextNonce EXCEPT ![t.by] = @ + 1]
         /\ flow' = flow /\ shown' = shown
         /\ phase' = phase /\ awaited' = awaited /\ verdict' = verdict /\ hopNo' = hopNo
         /\ \/ /\ t.kind = "prime" /\ minted' = minted /\ balance' = balance
               /\ transfers' = transfers /\ approved' = approved
            \/ t.kind = "mint" /\ MintBatch
            \/ /\ t.kind = "approve" /\ minted' = minted /\ balance' = balance
               /\ transfers' = transfers /\ approved' = approved \cup {t.by}
            \/ t.kind = "execute" /\ ExecuteHops
            \/ t.kind = "transfer" /\ SafeTransferFrom(flow.hops[t.hop])
<1>1. IsTx(t)
  BY DEF CustodyTyped
<1>2. /\ Mineable(t) /\ txPool' = txPool \ {t}
      /\ nextNonce' = [nextNonce EXCEPT ![t.by] = @ + 1]
      /\ flow' = flow /\ shown' = shown
      /\ phase' = phase /\ awaited' = awaited /\ verdict' = verdict /\ hopNo' = hopNo
  BY DEF MineCustody, scriptVars
<1>3. CASE t.kind = "prime"
  <2>1. minted' = minted /\ balance' = balance /\ transfers' = transfers /\ approved' = approved
    BY <1>3 DEF MineCustody
  <2> QED BY <1>1, <1>2, <1>3, <2>1
<1>4. CASE t.kind = "mint"
  <2>1. MintBatch
    BY <1>4, Zenon DEF MineCustody
  <2> QED BY <1>1, <1>2, <1>4, <2>1
<1>5. CASE t.kind = "approve"
  <2>1. /\ minted' = minted /\ balance' = balance /\ transfers' = transfers
        /\ approved' = approved \cup {t.by}
    BY <1>5 DEF MineCustody
  <2> QED BY <1>1, <1>2, <1>5, <2>1
<1>6. CASE t.kind = "execute"
  <2>1. ExecuteHops
    BY <1>6, Zenon DEF MineCustody
  <2> QED BY <1>1, <1>2, <1>6, <2>1
<1>7. CASE t.kind = "transfer"
  <2>1. SafeTransferFrom(flow.hops[t.hop])
    BY <1>7, Zenon DEF MineCustody
  <2> QED BY <1>1, <1>2, <1>7, <2>1
<1> QED BY <1>1, <1>3, <1>4, <1>5, <1>6, <1>7 DEF IsTx, TxKinds

\* The liters the batch was minted with, by holder, once it is.
MintedTo == [h \in HoldersOf(flow) |-> IF h = flow.holders[1] /\ minted THEN flow.liters ELSE 0]

\* The token and the custody graph agree.
CustodyLedger == Agrees(balance, MintedTo, transfers)

\* What mining does to the token, with or without success: balances stay
\* natural numbers, transfers are appended, and both stay in agreement.
LEMMA MiningKeepsLedger ==
  ASSUME CustodyTyped, CustodyLedger, NEW t \in txPool, MineCustody(t)
  PROVE  /\ minted' \in BOOLEAN /\ balance' \in [HoldersOf(flow) -> Nat]
         /\ transfers' \in Seq(HopsAmong(HoldersOf(flow)))
         /\ Len(transfers) \in Nat /\ Len(transfers') \in Nat /\ Len(transfers) <= Len(transfers')
         /\ CustodyLedger'
<1> DEFINE H == HoldersOf(flow)
<1>1. flow' = flow /\ flow \in Flows
  BY MineCases DEF CustodyTyped
<1>2. /\ minted \in BOOLEAN /\ balance \in [H -> Nat] /\ transfers \in Seq(HopsAmong(H))
      /\ flow.liters \in Nat /\ flow.holders[1] \in H
      /\ flow.hops \in Seq(HopsAmong(H))
      /\ \A i \in 1 .. Len(flow.hops) : flow.hops[i] \in HopsAmong(H)
  BY <1>1, FlowFacts DEF CustodyTyped
<1>3. MintedTo \in [H -> Int] /\ DOMAIN MintedTo = H
  BY <1>2 DEF MintedTo
<1>4. ASSUME minted' = minted PROVE MintedTo' = MintedTo
  BY <1>1, <1>4 DEF MintedTo
<1>5. Len(transfers) \in Nat
  BY <1>2, LenProperties
<1>6. CASE minted' = minted /\ balance' = balance /\ transfers' = transfers
  <2>1. CustodyLedger'
    BY <1>4, <1>6, Zenon DEF CustodyLedger
  <2> QED BY <1>2, <1>5, <1>6, <2>1
<1>7. CASE MintBatch
  <2>1. CASE minted
    BY <1>2, <1>6, <1>7, <2>1 DEF MintBatch
  <2>2. CASE ~minted
    <3>1. /\ minted' = TRUE /\ transfers' = transfers
          /\ balance' = [balance EXCEPT ![flow.holders[1]] = @ + flow.liters]
      BY <1>7, <2>2 DEF MintBatch
    <3>2. balance' \in [H -> Nat]
      BY <1>2, <3>1
    <3>3. ASSUME NEW h \in H
          PROVE  balance'[h] = MintedTo'[h] + CurrentLiters(transfers, h)
      <4>1. balance[h] = MintedTo[h] + CurrentLiters(transfers, h)
        BY <1>3 DEF CustodyLedger, Agrees
      <4>2. MintedTo[h] = 0 /\ MintedTo'[h] = IF h = flow.holders[1] THEN flow.liters ELSE 0
        BY <1>1, <2>2, <3>1 DEF MintedTo
      <4>3. balance'[h] = balance[h] + (IF h = flow.holders[1] THEN flow.liters ELSE 0)
        BY <1>2, <3>1
      <4>4. CurrentLiters(transfers, h) \in Int
        BY <1>2, NodeAmounts
      <4> QED BY <1>2, <4>1, <4>2, <4>3, <4>4
    <3>4. DOMAIN MintedTo' = H
      BY <1>1 DEF MintedTo
    <3>5. CustodyLedger'
      <4>1. CustodyLedger' = \A h \in DOMAIN MintedTo' :
              balance'[h] = MintedTo'[h] + CurrentLiters(transfers', h)
        BY DEF CustodyLedger, Agrees
      <4> QED BY <3>1, <3>3, <3>4, <4>1
    <3> QED BY <1>2, <1>5, <3>1, <3>2, <3>5
  <2> QED BY <1>2, <2>1, <2>2
<1>8. CASE ExecuteHops
  <2>1. CASE AfterHops(balance, flow.hops).ok /\ SendersOf(flow) \subseteq approved
    <3>1. /\ balance' = AfterHops(balance, flow.hops).bal
          /\ transfers' = transfers \o flow.hops /\ minted' = minted
      BY <1>8, <2>1 DEF ExecuteHops
    <3>2. /\ AfterHops(balance, flow.hops).bal \in [H -> Nat]
          /\ Agrees(AfterHops(balance, flow.hops).bal, MintedTo, transfers \o flow.hops)
      <4> HIDE DEF H
      <4> QED BY <1>2, <1>3, <2>1, ChainKeeps DEF CustodyLedger
    <3>3. CustodyLedger'
      BY <1>4, <3>1, <3>2, Zenon DEF CustodyLedger
    <3>4. transfers' \in Seq(HopsAmong(H)) /\ Len(transfers') = Len(transfers) + Len(flow.hops)
          /\ Len(flow.hops) \in Nat
      BY <1>1, <1>2, <3>1, ConcatProperties, FlowFacts
    <3> QED BY <1>2, <1>5, <3>1, <3>2, <3>3, <3>4
  <2>2. CASE ~(AfterHops(balance, flow.hops).ok /\ SendersOf(flow) \subseteq approved)
    BY <1>6, <1>8, <2>2 DEF ExecuteHops
  <2> QED BY <2>1, <2>2
<1>9. CASE t.kind = "transfer" /\ SafeTransferFrom(flow.hops[t.hop])
  <2> DEFINE x == flow.hops[t.hop]
  <2>1. x \in HopsAmong(H)
    BY <1>2, <1>9, MineCases DEF IsTx
  <2> HIDE DEF x
  <2>2. CASE CanMove(balance, x)
    <3>1. balance' = Moved(balance, x) /\ transfers' = Append(transfers, x) /\ minted' = minted
      BY <1>9, <2>2 DEF SafeTransferFrom, x
    <3>2. Moved(balance, x) \in [H -> Nat] /\ Agrees(Moved(balance, x), MintedTo, Append(transfers, x))
      <4> HIDE DEF H
      <4> QED BY <1>2, <1>3, <2>1, <2>2, HopKeeps DEF CustodyLedger
    <3>3. CustodyLedger'
      BY <1>4, <3>1, <3>2, Zenon DEF CustodyLedger
    <3>4. transfers' \in Seq(HopsAmong(H)) /\ Len(transfers') = Len(transfers) + 1
      BY <1>2, <2>1, <3>1, AppendProperties
    <3> QED BY <1>2, <1>5, <3>1, <3>2, <3>3, <3>4
  <2>3. CASE ~CanMove(balance, x)
    BY <1>6, <1>9, <2>3 DEF SafeTransferFrom, x
  <2> QED BY <2>2, <2>3
<1> QED BY <1>6, <1>7, <1>8, <1>9, MineCases

\* What a program's step leaves as it is, and what it adds to the pool.
LEMMA ProgramSteps ==
  ASSUME CustodyTyped, ProgramNext
  PROVE  /\ ChainStays /\ hopNo' \in Nat \ {0}
         /\ \A t \in txPool' : t \in txPool \/ IsTx(t)
         /\ awaited' = NoTx \/ IsTx(awaited')
<1>1. CASE SdkStep
  BY <1>1, SdkStepFacts DEF Ends, CustodyTyped
<1>2. CASE ~SdkStep
  <2>1. ASSUME NEW txs, NEW then, Sends(txs, then), \A t \in ToSet(txs) : IsTx(t),
               hopNo' \in Nat \ {0}
        PROVE  /\ ChainStays /\ hopNo' \in Nat \ {0}
               /\ \A t \in txPool' : t \in txPool \/ IsTx(t)
               /\ awaited' = NoTx \/ IsTx(awaited')
    BY <2>1 DEF Sends
  <2>2. hopNo \in Nat \ {0} /\ Len(flow.hops) \in Nat
    BY FlowFacts DEF CustodyTyped
  <2>3. ASSUME NEW v, Ends(v)
        PROVE  /\ ChainStays /\ hopNo' \in Nat \ {0}
               /\ \A t \in txPool' : t \in txPool \/ IsTx(t)
               /\ awaited' = NoTx \/ IsTx(awaited')
    BY <2>2, <2>3 DEF Ends
  <2>4. /\ \A t \in ToSet(Primes) : IsTx(t)
        /\ \A t \in ToSet(Approvals) : IsTx(t)
        /\ \A t \in ToSet(<<Mint(Nonces)>>) : IsTx(t)
        /\ \A t \in ToSet(<<Execute(Nonces + 1)>>) : IsTx(t)
        /\ \A t \in ToSet(<<Mint(Nonces), Execute(Nonces + 1)>>) : IsTx(t)
        /\ \A i \in 1 .. Len(flow.hops) : \A t \in ToSet(<<Transfer(i, flow.hops[i].from)>>) : IsTx(t)
    <3>1. /\ ToSet(<<Mint(Nonces)>>) = {Mint(Nonces)}
          /\ ToSet(<<Execute(Nonces + 1)>>) = {Execute(Nonces + 1)}
          /\ ToSet(<<Mint(Nonces), Execute(Nonces + 1)>>) = {Mint(Nonces), Execute(Nonces + 1)}
          /\ \A i \in 1 .. Len(flow.hops) :
               ToSet(<<Transfer(i, flow.hops[i].from)>>) = {Transfer(i, flow.hops[i].from)}
      BY OneElement, TwoElements, Zenon
    <3>2. \A t \in ToSet(Primes) \cup ToSet(Approvals) : IsTx(t)
      BY ProgramTxs
    <3>3. IsTx(Mint(Nonces)) /\ IsTx(Execute(Nonces + 1))
          /\ \A i \in 1 .. Len(flow.hops) : IsTx(Transfer(i, flow.hops[i].from))
      BY ProgramTxs
    <3>4. \A x, y : {x, y} = {x} \cup {y}
      OBVIOUS
    <3> QED BY <3>1, <3>2, <3>3, Zenon
  <2>5. \/ Sends(Primes, "prime") /\ hopNo' = hopNo
        \/ Sends(<<Mint(Nonces)>>, "mint") /\ hopNo' = hopNo
        \/ Sends(Approvals, "approve") /\ hopNo' = hopNo
        \/ Sends(<<Execute(Nonces + 1)>>, "execute") /\ hopNo' = hopNo
        \/ Sends(<<Mint(Nonces), Execute(Nonces + 1)>>, "execute") /\ hopNo' = hopNo
        \/ hopNo' \in 1 .. Len(flow.hops)
             /\ Sends(<<Transfer(hopNo', flow.hops[hopNo'].from)>>, "hop")
        \/ Ends(IF ReportsSuccess THEN "delivered" ELSE "failed")
        \/ Ends("aborted")
    BY <1>2, LoadSteps, Zenon
  <2>6. \A i \in 1 .. Len(flow.hops) : i \in Nat \ {0}
    BY <2>2
  <2> HIDE DEF ChainStays
  <2> QED BY <2>1, <2>2, <2>3, <2>4, <2>5, <2>6, Zenon
<1> QED BY <1>1, <1>2

\* In every reachable state the scenario's data have their types, and the token
\* and the graph agree.
LEMMA CustodyStates == CustodySpec => [](CustodyTyped /\ CustodyLedger)
<1>1. CustodyInit => CustodyTyped /\ CustodyLedger
  <2> SUFFICES ASSUME CustodyInit PROVE CustodyTyped /\ CustodyLedger
    OBVIOUS
  <2> DEFINE H == HoldersOf(flow)
  <2>1. /\ flow \in Flows /\ minted = FALSE /\ balance = [h \in H |-> 0] /\ transfers = <<>>
        /\ shown = 0 /\ nextNonce = [a \in Accounts |-> 0] /\ hopNo = 1 /\ txPool = {}
        /\ awaited = NoTx
    BY DEF CustodyInit, Accounts
  <2>2. CustodyTyped
    <3>1. transfers \in Seq(HopsAmong(H)) /\ Len(transfers) = 0
      BY <2>1, EmptySeq
    <3>2. balance \in [H -> Nat] /\ nextNonce \in [Accounts -> Nat]
      BY <2>1
    <3>3. shown \in 0 .. Len(transfers)
      BY <2>1, <3>1
    <3>4. minted \in BOOLEAN /\ flow \in Flows
      BY <2>1
    <3>5. hopNo \in Nat \ {0}
      BY <2>1
    <3>6. (\A t \in txPool : IsTx(t)) /\ (awaited = NoTx \/ IsTx(awaited))
      BY <2>1
    <3> QED BY <3>1, <3>2, <3>3, <3>4, <3>5, <3>6, Zenon DEF CustodyTyped
  <2>3. ASSUME NEW h \in H PROVE balance[h] = MintedTo[h] + CurrentLiters(transfers, h)
    <3>4. CurrentLiters(transfers, h) = 0
      <4>1. <<>> \in Seq(HopsAmong(H))
        BY EmptySeq
      <4>2. CurrentLiters(<<>>, h) = 0
        <5> HIDE DEF H
        <5> QED BY <4>1, NodeAmounts
      <4> QED BY <2>1, <4>2
    <3>5. MintedTo[h] = 0 /\ balance[h] = 0
      BY <2>1 DEF MintedTo
    <3> QED BY <3>4, <3>5
  <2>4. CustodyLedger
    BY <2>3 DEF CustodyLedger, Agrees, MintedTo
  <2> QED BY <2>2, <2>4
<1>2. CustodyTyped /\ CustodyLedger /\ [CustodyNext]_custodyVars => (CustodyTyped /\ CustodyLedger)'
  <2> SUFFICES ASSUME CustodyTyped, CustodyLedger, [CustodyNext]_custodyVars
               PROVE  CustodyTyped' /\ CustodyLedger'
    OBVIOUS
  <2>1. CASE UNCHANGED custodyVars
    BY <2>1 DEF custodyVars, scriptVars, balanceVars, CustodyTyped, CustodyLedger, MintedTo,
                Accounts, IsTx, Agrees
  <2>2. CASE ProgramNext
    <3>1. /\ ChainStays /\ hopNo' \in Nat \ {0}
          /\ \A t \in txPool' : t \in txPool \/ IsTx(t)
          /\ awaited' = NoTx \/ IsTx(awaited')
      BY <2>2, ProgramSteps
    <3>2. /\ flow' = flow /\ nextNonce' = nextNonce /\ minted' = minted /\ balance' = balance
          /\ transfers' = transfers /\ shown' = shown
      BY <3>1 DEF ChainStays, balanceVars
    <3>3. CustodyTyped'
      BY <3>1, <3>2 DEF CustodyTyped, Accounts, IsTx
    <3>4. CustodyLedger'
      BY <3>2 DEF CustodyLedger, MintedTo, Agrees
    <3> QED BY <3>3, <3>4
  <2>3. CASE WithdrawApproval
    BY <2>3 DEF WithdrawApproval, scriptVars, CustodyTyped, CustodyLedger, MintedTo,
                Accounts, IsTx, Agrees
  <2>4. CASE IndexTransfers
    <3>1. Len(transfers) \in Nat
      BY LenProperties DEF CustodyTyped
    <3>2. /\ flow' = flow /\ nextNonce' = nextNonce /\ minted' = minted /\ balance' = balance
          /\ transfers' = transfers /\ shown' \in 0 .. Len(transfers)
          /\ txPool' = txPool /\ awaited' = awaited /\ hopNo' = hopNo
      BY <2>4, <3>1 DEF IndexTransfers, balanceVars, scriptVars, CustodyTyped
    <3> QED BY <3>2 DEF CustodyTyped, CustodyLedger, MintedTo, Accounts, IsTx, Agrees
  <2>5. ASSUME NEW t \in txPool, MineCustody(t) PROVE CustodyTyped' /\ CustodyLedger'
    <3>1. /\ minted' \in BOOLEAN /\ balance' \in [HoldersOf(flow) -> Nat]
          /\ transfers' \in Seq(HopsAmong(HoldersOf(flow)))
          /\ Len(transfers) \in Nat /\ Len(transfers') \in Nat /\ Len(transfers) <= Len(transfers')
          /\ CustodyLedger'
      BY <2>5, MiningKeepsLedger
    <3>2. /\ IsTx(t) /\ txPool' = txPool \ {t}
          /\ nextNonce' = [nextNonce EXCEPT ![t.by] = @ + 1]
          /\ flow' = flow /\ shown' = shown /\ awaited' = awaited /\ hopNo' = hopNo
      BY <2>5, MineCases
    <3>3. nextNonce' \in [Accounts -> Nat]
      BY <3>2 DEF IsTx, CustodyTyped
    <3>4. shown' \in 0 .. Len(transfers')
      BY <3>1, <3>2 DEF CustodyTyped
    <3>5. CustodyTyped'
      BY <3>1, <3>2, <3>3, <3>4 DEF CustodyTyped, Accounts, IsTx
    <3> QED BY <3>1, <3>5
  <2> QED BY <2>1, <2>2, <2>3, <2>4, <2>5 DEF CustodyNext, ProgramNext
<1> QED BY <1>1, <1>2, PTL DEF CustodySpec

\* Liters are neither made nor lost, for every scenario whose hops are between its
\* holders, in whatever order its transactions are mined, refused or reverted: once
\* the indexer has caught up, the custody graph's nodes and edges are the token's
\* balances (HaraPalmOil, TraceabilityBatchRelay, trace-api graph).
THEOREM GraphAgrees == CustodySpec => []GraphIsTheLedger
<1>1. CustodyTyped /\ CustodyLedger => GraphIsTheLedger
  <2> SUFFICES ASSUME CustodyTyped, CustodyLedger, shown = Len(transfers),
                      NEW h \in HoldersOf(flow)
               PROVE  /\ balance[h] = (IF h = flow.holders[1] /\ minted THEN flow.liters ELSE 0)
                                        + CurrentLiters(CustodyHops, h)
                      /\ OfHolders([o \in HoldersOf(flow) |->
                            EdgeLiters(CustodyHops, o, h) - EdgeLiters(CustodyHops, h, o)])
                           = CurrentLiters(CustodyHops, h)
    BY DEF GraphIsTheLedger
  <2> DEFINE H == HoldersOf(flow)
  <2>1. CustodyHops = transfers
    BY SubSeqFull DEF CustodyHops, CustodyTyped
  <2>2. balance[h] = MintedTo[h] + CurrentLiters(transfers, h)
    BY DEF CustodyLedger, Agrees, MintedTo
  <2>3. MintedTo[h] = IF h = flow.holders[1] /\ minted THEN flow.liters ELSE 0
    BY DEF MintedTo
  <2>4. /\ flow.holders \in Seq(H) /\ IsInjective(flow.holders) /\ H = ToSet(flow.holders)
        /\ DOMAIN flow.holders = 1 .. Len(flow.holders)
        /\ \A i \in 1 .. Len(flow.holders) : flow.holders[i] \in H
    BY FlowFacts DEF CustodyTyped
  <2>5. OfHolders([o \in H |-> EdgeLiters(transfers, o, h) - EdgeLiters(transfers, h, o)])
          = Total[[i \in DOMAIN flow.holders |->
                     EdgeLiters(transfers, flow.holders[i], h)
                       - EdgeLiters(transfers, h, flow.holders[i])]]
    <3> DEFINE net == [o \in H |-> EdgeLiters(transfers, o, h) - EdgeLiters(transfers, h, o)]
    <3>1. [i \in DOMAIN flow.holders |-> net[flow.holders[i]]]
            = [i \in DOMAIN flow.holders |->
                 EdgeLiters(transfers, flow.holders[i], h)
                   - EdgeLiters(transfers, h, flow.holders[i])]
      BY <2>4
    <3>2. OfHolders(net) = Total[[i \in DOMAIN flow.holders |-> net[flow.holders[i]]]]
      BY DEF OfHolders
    <3> HIDE DEF net
    <3> QED BY <3>1, <3>2, Zenon DEF net
  <2>6. Total[[i \in DOMAIN flow.holders |->
                 EdgeLiters(transfers, flow.holders[i], h)
                   - EdgeLiters(transfers, h, flow.holders[i])]]
          = CurrentLiters(transfers, h)
    <3>1. transfers \in Seq(HopsAmong(H)) /\ h \in H
      BY DEF CustodyTyped
    <3> DEFINE hds == flow.holders
    <3>2. /\ hds \in Seq(H) /\ IsInjective(hds) /\ H = ToSet(hds)
      BY <2>4
    <3> HIDE DEF hds, H
    <3>3. Total[[i \in DOMAIN hds |->
                   EdgeLiters(transfers, hds[i], h) - EdgeLiters(transfers, h, hds[i])]]
            = CurrentLiters(transfers, h)
      BY <3>1, <3>2, EdgesAddUp
    <3> QED BY <3>3 DEF hds
  <2> QED BY <2>1, <2>2, <2>3, <2>5, <2>6, Zenon
<1> QED BY <1>1, CustodyStates, PTL

-----------------------------------------------------------------------------
(* What a chain of hops delivers                                             *)

\* The batch with one holder: the first owner after the mint, the last in the end.
BatchAt(x) == [h \in HoldersOf(flow) |-> IF h = x THEN flow.liters ELSE 0]
NotMinted == [h \in HoldersOf(flow) |-> 0]
AtFirst == BatchAt(flow.holders[1])
AtLast == BatchAt(Last(flow.holders))

\* A hop of the whole batch moves it to another holder.
LEMMA HopMovesBatch ==
  ASSUME flow.liters \in Nat, NEW x \in HoldersOf(flow), NEW y \in HoldersOf(flow), x # y
  PROVE  Hopped([ok |-> TRUE, bal |-> BatchAt(x)], Hop(x, y, flow.liters))
           = [ok |-> TRUE, bal |-> BatchAt(y)]
<1> DEFINE H == HoldersOf(flow)
           l == flow.liters
           b == BatchAt(x)
           less == [b EXCEPT ![x] = @ - l]
           moved == [less EXCEPT ![y] = @ + l]
           p == [ok |-> TRUE, bal |-> b]
           d == Hop(x, y, l)
<1>1. b \in [H -> Nat] /\ b[x] = l /\ \A h \in H : h # x => b[h] = 0
  BY DEF BatchAt
<1>2. d.from = x /\ d.to = y /\ d.liters = l
  BY DEF Hop
<1> HIDE DEF b, H, l, d
<1>3. l \in Nat /\ x \in H /\ y \in H
  BY DEF l, H
<1>4. less \in [H -> Int] /\ less[x] = 0 /\ \A h \in H : less[h] = 0
  BY <1>1, <1>3
<1>5. moved \in [H -> Int] /\ \A h \in H : moved[h] = IF h = y THEN l ELSE 0
  <2> HIDE DEF less
  <2> QED BY <1>3, <1>4
<1>6. moved = BatchAt(y)
  <2> HIDE DEF moved
  <2>1. moved = [h \in H |-> IF h = y THEN l ELSE 0]
    BY <1>5
  <2> QED BY <2>1 DEF BatchAt, H, l
<1>7. Moved(b, d) = moved
  BY <1>2 DEF Moved
<1>8. CanMove(b, d)
  BY <1>1, <1>2, <1>3 DEF CanMove
<1>9. Hopped(p, d) = [p EXCEPT !.bal = Moved(b, d)]
  BY <1>8 DEF Hopped
<1>10. [p EXCEPT !.bal = Moved(b, d)] = [ok |-> TRUE, bal |-> Moved(b, d)]
  <2> DEFINE m == Moved(b, d)
             t == TRUE
  <2> HIDE DEF m, t
  <2>1. p = [ok |-> t, bal |-> b]
    BY DEF t
  <2>2. [p EXCEPT !.bal = m] = [f \in {"ok", "bal"} |-> IF f = "bal" THEN m ELSE p[f]]
    BY <2>1
  <2>3. [ok |-> t, bal |-> m] = [f \in {"ok", "bal"} |-> IF f = "bal" THEN m ELSE p[f]]
    BY <2>1
  <2> QED BY <2>2, <2>3 DEF m, t
<1>11. Hopped(p, d) = [ok |-> TRUE, bal |-> BatchAt(y)]
  <2> HIDE DEF p, moved
  <2> QED BY <1>6, <1>7, <1>9, <1>10, Zenon
<1> QED BY <1>11 DEF b, d, l

\* executeChain of the minted volume along the holders succeeds, and takes all of it
\* from the first owner to the last holder.
LEMMA ChainDelivers ==
  ASSUME flow \in Flows, flow.hops = ChainHops(flow.holders, flow.liters)
  PROVE  AfterHops(AtFirst, flow.hops).ok /\ AfterHops(AtFirst, flow.hops).bal = AtLast
<1> DEFINE hs == flow.holders
           k == Len(hs)
           hops == flow.hops
           c == HopTrace(AtFirst, hops)
           At(i) == [ok |-> TRUE, bal |-> BatchAt(hs[i])]
           Bad == {i \in Nat : i <= k - 1 /\ c[i] # At(i + 1)}
<1>1. /\ k \in Nat /\ k > 1 /\ flow.liters \in Nat /\ IsInjective(hs) /\ DOMAIN hs = 1 .. k
      /\ \A i \in 1 .. k : hs[i] \in HoldersOf(flow)
  BY FlowFacts
<1>2. Len(hops) = k - 1 /\ \A i \in 1 .. k - 1 : hops[i] = Hop(hs[i], hs[i + 1], flow.liters)
  <2>1. hops = [i \in 1 .. k - 1 |-> Hop(hs[i], hs[i + 1], flow.liters)]
    BY DEF ChainHops
  <2>2. k - 1 \in Nat
    BY <1>1
  <2> HIDE DEF k, hops
  <2> QED BY <2>1, <2>2
<1>3. /\ AfterHops(AtFirst, hops) = c[k - 1] /\ c[0] = [ok |-> TRUE, bal |-> AtFirst]
      /\ \A i \in 1 .. k - 1 : c[i] = Hopped(c[i - 1], hops[i])
  <2>1. Len(hops) \in Nat /\ Len(hops) = k - 1
    BY <1>1, <1>2
  <2> HIDE DEF k, hops
  <2> QED BY <2>1, HopTraceSteps
<1> HIDE DEF c, hops, k
<1>4. c[0] = At(1)
  BY <1>3 DEF AtFirst
<1>5. ASSUME NEW i \in 1 .. k - 1, c[i - 1] = At(i) PROVE c[i] = At(i + 1)
  <2>1. hs[i] \in HoldersOf(flow) /\ hs[i + 1] \in HoldersOf(flow) /\ hs[i] # hs[i + 1]
    <3>1. i \in 1 .. k /\ i + 1 \in 1 .. k /\ i # i + 1
      BY <1>1
    <3> QED BY <1>1, <3>1 DEF IsInjective
  <2>2. Hopped(At(i), Hop(hs[i], hs[i + 1], flow.liters)) = At(i + 1)
    BY <1>1, <2>1, HopMovesBatch
  <2>3. c[i] = Hopped(At(i), Hop(hs[i], hs[i + 1], flow.liters))
    BY <1>2, <1>3, <1>5, Zenon
  <2> QED BY <2>2, <2>3
<1> HIDE DEF At
<1>6. ASSUME Bad # {} PROVE FALSE
  <2>1. PICK i \in Bad : \A j \in Bad : i <= j
    BY <1>6, Totals!LeastNumber
  <2>2. i # 0
    BY <1>4, <2>1
  <2>3. i \in 1 .. k - 1 /\ i - 1 \in Nat /\ i - 1 <= k - 1 /\ i - 1 \notin Bad /\ i - 1 + 1 = i
    BY <1>1, <2>1, <2>2
  <2>4. c[i - 1] = At(i)
    BY <2>3
  <2> QED BY <1>5, <2>1, <2>3, <2>4
<1>7. c[k - 1] = At(k)
  <2>1. k - 1 \notin Bad
    <3> HIDE DEF Bad
    <3> QED BY <1>6, Zenon
  <2>2. k - 1 \in Nat /\ k - 1 <= k - 1 /\ k - 1 + 1 = k
    BY <1>1
  <2> QED BY <2>1, <2>2
<1>8. At(k) = [ok |-> TRUE, bal |-> AtLast]
  BY DEF At, AtLast, Last, k
<1>9. AfterHops(AtFirst, hops) = [ok |-> TRUE, bal |-> AtLast]
  BY <1>3, <1>7, <1>8, Zenon
<1> QED BY <1>9 DEF hops

\* A delivery with one output, the last holder: what it holds is what was expected.
LEMMA OneOutput ==
  ASSUME flow \in Flows, balance \in [HoldersOf(flow) -> Nat],
         flow.outputs = {Last(flow.holders)}
  PROVE  Delivered <=> balance[Last(flow.holders)] = flow.expected
<1> DEFINE hs == flow.holders
           n == Len(hs)
           z == [i \in 1 .. n |-> 0]
           f == [h \in HoldersOf(flow) |-> IF h \in flow.outputs THEN balance[h] ELSE 0]
           v == [i \in DOMAIN hs |-> f[hs[i]]]
<1>1. /\ n \in Nat /\ n > 1 /\ IsInjective(hs) /\ DOMAIN hs = 1 .. n
      /\ \A i \in 1 .. n : hs[i] \in HoldersOf(flow)
  BY FlowFacts
<1>2. Last(hs) = hs[n] /\ n \in 1 .. n
  BY <1>1 DEF Last
<1>3. f[hs[n]] = balance[hs[n]] /\ balance[hs[n]] \in Nat
  BY <1>1, <1>2
<1>4. ASSUME NEW i \in 1 .. n, i # n PROVE f[hs[i]] = 0
  <2>1. hs[i] # hs[n]
    BY <1>1, <1>2, <1>4 DEF IsInjective
  <2> QED BY <1>1, <1>2, <2>1
<1>5. \A i \in 1 .. n : f[hs[i]] \in Int
  BY <1>3, <1>4
<1>6. v = [i \in 1 .. n |-> f[hs[i]]]
  BY <1>1
<1> HIDE DEF f
<1>7. v \in Seq(Int) /\ Len(v) = n /\ v[n] = balance[hs[n]]
      /\ \A i \in 1 .. n : i # n => v[i] = 0
  <2> HIDE DEF n, v
  <2>1. v \in [1 .. n -> Int]
    BY <1>5, <1>6
  <2>2. v \in Seq(Int) /\ Len(v) = n
    BY <1>1, <1>6, <2>1
  <2>3. v[n] = balance[hs[n]]
    BY <1>2, <1>3, <1>6
  <2>4. \A i \in 1 .. n : i # n => v[i] = 0
    BY <1>4, <1>6
  <2> QED BY <2>2, <2>3, <2>4
<1>8. z \in Seq(Int) /\ Len(z) = n /\ \A i \in 1 .. n : z[i] = 0
  <2> HIDE DEF n
  <2> QED BY <1>1
<1> HIDE DEF v, z, n
<1>9. Total[z] = 0
  BY <1>8, TotalZero
<1>10. Total[v] = Total[z] + v[n] - z[n]
  BY <1>2, <1>7, <1>8, TotalChange
<1>11. Total[v] = balance[Last(hs)]
  BY <1>2, <1>3, <1>7, <1>8, <1>9, <1>10
<1>12. OfHolders(f) = Total[v]
  BY DEF OfHolders, v
<1>13. Delivered <=> OfHolders(f) = flow.expected
  BY DEF Delivered, f
<1> QED BY <1>11, <1>12, <1>13

\* The whole batch at the last holder is the delivery.
LEMMA LastIsDelivery ==
  ASSUME flow \in Flows, flow.style \in {"verify"} \cup SdkStyles, balance = AtLast
  PROVE  Delivered
<1>1. /\ flow.outputs = {Last(flow.holders)} /\ flow.expected = flow.liters
  BY CustodyPlans DEF SdkStyles
<1>2. Last(flow.holders) \in HoldersOf(flow) /\ flow.liters \in Nat
  BY FlowFacts DEF Last
<1>3. balance \in [HoldersOf(flow) -> Nat] /\ balance[Last(flow.holders)] = flow.liters
  BY <1>2 DEF AtLast, BatchAt
<1> QED BY <1>1, <1>3, OneOutput

-----------------------------------------------------------------------------
(* What a program has under way                                              *)

IsSdk == flow.style \in SdkStyles

\* The transactions of a load program: each in its place among the deployer's, or
\* a holder's.
TopNonce == IF flow.style = "sequential" THEN Nonces + 1 ELSE Nonces + 2
IsLoadTx(t) ==
  \/ t.by = Deployer /\ t.kind = "prime" /\ t.nonce < Nonces
  \/ t.by = Deployer /\ t.kind = "mint" /\ t.nonce = Nonces
  \/ t.by = Deployer /\ t.kind = "execute" /\ t.nonce = Nonces + 1 /\ flow.style # "sequential"
  \/ t.by \in HoldersOf(flow) /\ t.kind = "approve"
  \/ t.by \in HoldersOf(flow) /\ t.kind = "transfer" /\ flow.style = "sequential"

\* A load program: what it waits for in its phases, that only the transfer it waits
\* for is still to come, and that a report comes after the last of the deployer's.
LoadRuns ==
  /\ \A t \in txPool : IsLoadTx(t)
  /\ phase # "done" => verdict \in {"running", "incomplete"}
  /\ phase = "mint" => awaited = Mint(Nonces)
  /\ phase = "approve" => flow.style # "sequential"
  /\ phase = "hop" => flow.style = "sequential" /\ nextNonce[Deployer] > Nonces
  /\ phase = "execute" =>
       /\ flow.style # "sequential"
       /\ flow.style # "verify" \/ verdict = "running" => awaited = Execute(Nonces + 1)
  /\ \A t \in txPool : t.kind = "transfer" /\ ~IsMined(t) =>
       verdict = "aborted" \/ (phase = "hop" /\ t = awaited)
  /\ verdict = "delivered" => nextNonce[Deployer] >= TopNonce

\* The stress program reads no balance: they follow from the deployer's nonce, if
\* every holder had approved before an execution was sent.
StressRuns ==
  /\ phase = "execute" \/ (\E t \in txPool : t.kind = "execute") => HoldersOf(flow) \subseteq approved
  /\ nextNonce[Deployer] <= Nonces => ~minted /\ balance = NotMinted
  /\ nextNonce[Deployer] = Nonces + 1 => balance = AtFirst
  /\ nextNonce[Deployer] > Nonces + 1 => balance = AtLast

\* An SDK's example: unless it has given up, only the call it waits for is to come,
\* and the batch is where that call leaves it.
SdkRuns ==
  /\ phase \in {"start", "sdk", "done"}
  /\ phase = "start" => /\ txPool = {} /\ awaited = NoTx /\ verdict = "running"
                        /\ ~minted /\ balance = NotMinted /\ transfers = <<>>
  /\ phase = "sdk" =>
       /\ verdict = "running" /\ awaited # NoTx
       /\ \A t \in txPool : t = awaited /\ t.nonce = nextNonce[t.by]
       /\ \/ /\ awaited.kind = "mint" /\ transfers = <<>>
             /\ IF awaited \in txPool THEN ~minted /\ balance = NotMinted ELSE balance = AtFirst
          \/ awaited.kind = "approve" /\ transfers = <<>> /\ balance = AtFirst
          \/ /\ awaited.kind = "execute"
             /\ awaited \in txPool => transfers = <<>>
             /\ transfers = <<>> => balance = AtFirst
             /\ transfers # <<>> => balance = AtLast
  /\ verdict = "delivered" => phase = "done" /\ txPool = {}

\* What makes a reported success last.
CustodyRuns ==
  /\ ~IsSdk => LoadRuns
  /\ flow.style = "verify" => StressRuns
  /\ IsSdk => SdkRuns
  /\ verdict = "delivered" => Delivered

\* The transactions a load program submits have their place.
LEMMA LoadTxs ==
  ASSUME CustodyTyped
  PROVE  /\ \A t \in ToSet(Primes) : IsLoadTx(t) /\ t.kind = "prime"
         /\ \A t \in ToSet(Approvals) : IsLoadTx(t) /\ t.kind = "approve"
         /\ IsLoadTx(Mint(Nonces)) /\ Mint(Nonces).kind = "mint"
         /\ flow.style # "sequential" => IsLoadTx(Execute(Nonces + 1))
         /\ Execute(Nonces + 1).kind = "execute"
         /\ \A i \in 1 .. Len(flow.hops) : flow.style = "sequential" =>
              IsLoadTx(Transfer(i, flow.hops[i].from))
<1>1. \A t \in ToSet(Primes) : IsLoadTx(t) /\ t.kind = "prime"
  <2> TAKE t \in ToSet(Primes)
  <2>1. PICK i \in 1 .. Len(flow.holders) : t = Prime(flow.holders[i], i - 1)
    BY ProgramTxs
  <2>2. Len(flow.holders) \in Nat
    BY FlowFacts DEF CustodyTyped
  <2> QED BY <2>1, <2>2 DEF IsLoadTx, Prime, Nonces
<1>2. \A t \in ToSet(Approvals) : IsLoadTx(t) /\ t.kind = "approve"
  BY ProgramTxs DEF IsLoadTx, Approve
<1>3. IsLoadTx(Mint(Nonces)) /\ Mint(Nonces).kind = "mint"
  BY DEF IsLoadTx, Mint
<1>4. /\ flow.style # "sequential" => IsLoadTx(Execute(Nonces + 1))
      /\ Execute(Nonces + 1).kind = "execute"
  BY DEF IsLoadTx, Execute
<1>5. \A i \in 1 .. Len(flow.hops) : flow.style = "sequential" =>
        IsLoadTx(Transfer(i, flow.hops[i].from))
  BY FlowFacts DEF CustodyTyped, IsLoadTx, Transfer, HopsAmong
<1> QED BY <1>1, <1>2, <1>3, <1>4, <1>5

\* A load program that sends when no transfer is to come keeps its order.
LEMMA SendsKeepRuns ==
  ASSUME CustodyTyped, LoadRuns, NEW txs, NEW then, Sends(txs, then),
         then \in {"prime", "mint", "approve", "hop", "execute"},
         \A t \in txPool : t.kind = "transfer" => IsMined(t),
         \A t \in ToSet(txs) : IsLoadTx(t),
         \A t \in ToSet(txs) : t.kind = "transfer" => then = "hop" /\ ToSet(txs) = {t},
         then = "mint" => ToSet(txs) = {Mint(Nonces)},
         then = "approve" => flow.style # "sequential",
         then = "hop" => flow.style = "sequential" /\ nextNonce[Deployer] > Nonces,
         then = "execute" =>
           /\ flow.style # "sequential"
           /\ flow.style # "verify" => ToSet(txs) = {Execute(Nonces + 1)}
           /\ phase' # "done" /\ verdict' = "running" => awaited' = Execute(Nonces + 1)
  PROVE  LoadRuns'
<1>1. flow' = flow /\ nextNonce' = nextNonce
  BY DEF Sends, ChainStays
<1>2. /\ \A t : IsLoadTx(t)' <=> IsLoadTx(t)
      /\ \A t : IsMined(t)' <=> IsMined(t)
      /\ Nonces' = Nonces /\ Mint(Nonces)' = Mint(Nonces)
      /\ Execute(Nonces + 1)' = Execute(Nonces + 1)
  BY <1>1 DEF IsLoadTx, IsMined, Nonces, Mint, Execute
<1>3. \A t \in txPool' : t \in txPool \/ t \in ToSet(txs)
  BY DEF Sends
<1>4. \A t \in txPool' : IsLoadTx(t)'
  BY <1>2, <1>3 DEF LoadRuns
<1>5. \/ phase' = then /\ awaited' \in ToSet(txs) /\ verdict' \in {"running", "incomplete"}
      \/ phase' = "done" /\ awaited' = NoTx /\ verdict' = "aborted"
  BY DEF Sends
<1>6. CASE phase' = "done" /\ verdict' = "aborted"
  BY <1>4, <1>6 DEF LoadRuns
<1>7. CASE phase' = then /\ awaited' \in ToSet(txs) /\ verdict' \in {"running", "incomplete"}
  <2>1. ASSUME NEW t \in txPool', t.kind = "transfer", ~IsMined(t)'
        PROVE  phase' = "hop" /\ t = awaited'
    BY <1>2, <1>3, <1>7, <2>1
  <2>2. phase' = "mint" => awaited' = Mint(Nonces)'
    BY <1>2, <1>7
  <2>3. phase' = "execute" =>
          /\ flow'.style # "sequential"
          /\ flow'.style # "verify" \/ verdict' = "running" => awaited' = Execute(Nonces + 1)'
    BY <1>1, <1>2, <1>7
  <2>4. phase' = "hop" => flow'.style = "sequential" /\ nextNonce'[Deployer] > Nonces'
    BY <1>1, <1>2, <1>7
  <2>5. phase' = "approve" => flow'.style # "sequential"
    BY <1>1, <1>7
  <2> QED BY <1>4, <1>7, <2>1, <2>2, <2>3, <2>4, <2>5 DEF LoadRuns
<1> QED BY <1>5, <1>6, <1>7

\* A load program that ends keeps its order, if its report comes last.
LEMMA EndsKeepRuns ==
  ASSUME CustodyTyped, LoadRuns, NEW v, Ends(v),
         v # "aborted" => \A t \in txPool : t.kind = "transfer" => IsMined(t),
         v = "delivered" => nextNonce[Deployer] >= TopNonce
  PROVE  LoadRuns'
<1>1. /\ flow' = flow /\ nextNonce' = nextNonce /\ txPool' = txPool
      /\ phase' = "done" /\ verdict' = v
  BY DEF Ends, ChainStays
<1>2. /\ \A t : IsLoadTx(t)' <=> IsLoadTx(t)
      /\ \A t : IsMined(t)' <=> IsMined(t)
      /\ TopNonce' = TopNonce
  BY <1>1 DEF IsLoadTx, IsMined, Nonces, TopNonce
<1> QED BY <1>1, <1>2 DEF LoadRuns

\* A load program's steps keep its order.
LEMMA LoadProgramRuns ==
  ASSUME CustodyTyped, LoadRuns, ~IsSdk, ProgramNext
  PROVE  LoadRuns'
<1>1. ~SdkStep
  BY DEF SdkStep, IsSdk
<1>2. ASSUME phase # "done", phase # "hop" \/ IsMined(awaited)
      PROVE  \A t \in txPool : t.kind = "transfer" => IsMined(t)
  <2>1. verdict # "aborted"
    BY <1>2 DEF LoadRuns
  <2> QED BY <1>2, <2>1 DEF LoadRuns
<1>3. Deployer \in Accounts /\ nextNonce[Deployer] \in Nat /\ Nonces \in Nat
  BY ProgramTxs DEF Accounts, CustodyTyped
<1>4. \A x : ToSet(<<x>>) = {x}
  BY OneElement
<1>5. CASE phase = "start" /\ Sends(Primes, "prime")
  <2>1. /\ \A t \in txPool : t.kind = "transfer" => IsMined(t)
        /\ \A t \in ToSet(Primes) : IsLoadTx(t) /\ t.kind = "prime"
    BY <1>2, <1>5, LoadTxs
  <2> DEFINE txs == Primes
  <2> HIDE DEF txs
  <2>2. \A t \in ToSet(txs) : IsLoadTx(t) /\ t.kind = "prime"
    BY <2>1 DEF txs
  <2>3. Sends(txs, "prime")
    BY <1>5 DEF txs
  <2> QED BY <2>1, <2>2, <2>3, SendsKeepRuns
<1>6. CASE phase = "prime" /\ Sends(<<Mint(Nonces)>>, "mint")
  <2> DEFINE x == Mint(Nonces)
             txs == <<x>>
  <2>1. /\ \A t \in txPool : t.kind = "transfer" => IsMined(t)
        /\ ToSet(txs) = {x} /\ IsLoadTx(x) /\ x.kind = "mint"
    BY <1>2, <1>4, <1>6, LoadTxs
  <2>2. Sends(txs, "mint") /\ x = Mint(Nonces)
    BY <1>6
  <2> HIDE DEF txs, x
  <2> QED BY <2>1, <2>2, SendsKeepRuns
<1>7. CASE /\ phase \in {"prime", "mint"} /\ (phase = "prime" => flow.style = "verify")
           /\ (phase = "mint" => flow.style # "sequential") /\ Sends(Approvals, "approve")
  <2> DEFINE txs == Approvals
  <2>1. /\ \A t \in txPool : t.kind = "transfer" => IsMined(t)
        /\ \A t \in ToSet(txs) : IsLoadTx(t) /\ t.kind = "approve"
        /\ flow.style # "sequential"
    BY <1>2, <1>7, LoadTxs
  <2>2. Sends(txs, "approve")
    BY <1>7
  <2> HIDE DEF txs
  <2> QED BY <2>1, <2>2, SendsKeepRuns
<1>8. CASE /\ phase = "approve" /\ flow.style # "verify"
           /\ Sends(<<Execute(Nonces + 1)>>, "execute")
  <2> DEFINE x == Execute(Nonces + 1)
             txs == <<x>>
  <2>1. /\ \A t \in txPool : t.kind = "transfer" => IsMined(t)
        /\ ToSet(txs) = {x} /\ flow.style # "sequential" /\ IsLoadTx(x) /\ x.kind = "execute"
    BY <1>2, <1>4, <1>8, LoadTxs DEF LoadRuns
  <2>2. Sends(txs, "execute") /\ x = Execute(Nonces + 1)
    BY <1>8
  <2>3. phase' # "done" => awaited' = x
    BY <2>1, <2>2 DEF Sends
  <2> HIDE DEF txs, x
  <2> QED BY <2>1, <2>2, <2>3, SendsKeepRuns
<1>9. CASE /\ phase = "approve" /\ flow.style = "verify"
           /\ Sends(<<Mint(Nonces), Execute(Nonces + 1)>>, "execute")
           /\ phase' # "done" /\ verdict' = "running" => awaited' = Execute(Nonces + 1)
  <2> DEFINE x == Execute(Nonces + 1)
             y == Mint(Nonces)
             txs == <<y, x>>
  <2>1. /\ \A t \in txPool : t.kind = "transfer" => IsMined(t)
        /\ flow.style # "sequential" /\ IsLoadTx(x) /\ x.kind = "execute"
        /\ IsLoadTx(y) /\ y.kind = "mint"
    BY <1>2, <1>9, LoadTxs
  <2>2. /\ Sends(txs, "execute") /\ x = Execute(Nonces + 1)
        /\ phase' # "done" /\ verdict' = "running" => awaited' = x
    BY <1>9
  <2>3. ToSet(txs) = {y, x}
    <3> HIDE DEF x, y
    <3> QED BY TwoElements
  <2> HIDE DEF txs, x, y
  <2> QED BY <1>9, <2>1, <2>2, <2>3, SendsKeepRuns
<1>10. CASE /\ phase \in {"mint", "hop"} /\ IsMined(awaited)
            /\ (phase = "mint" => flow.style = "sequential")
            /\ hopNo' \in 1 .. Len(flow.hops)
            /\ Sends(<<Transfer(hopNo', flow.hops[hopNo'].from)>>, "hop")
  <2> DEFINE x == Transfer(hopNo', flow.hops[hopNo'].from)
             txs == <<x>>
  <2>1. /\ \A t \in txPool : t.kind = "transfer" => IsMined(t)
        /\ ToSet(txs) = {x}
    BY <1>2, <1>4, <1>10
  <2>2. flow.style = "sequential" /\ nextNonce[Deployer] > Nonces
    <3>1. CASE phase = "mint"
      <4>1. awaited = Mint(Nonces)
        BY <3>1 DEF LoadRuns
      <4>2. awaited.nonce = Nonces /\ awaited.by = Deployer
        BY <4>1 DEF Mint
      <4> QED BY <1>3, <1>10, <3>1, <4>2 DEF IsMined
    <3>2. CASE phase = "hop"
      BY <3>2 DEF LoadRuns
    <3> QED BY <1>10, <3>1, <3>2
  <2>3. IsLoadTx(x)
    BY <1>10, <2>2, LoadTxs
  <2>4. Sends(txs, "hop")
    BY <1>10
  <2> HIDE DEF txs, x
  <2> QED BY <2>1, <2>2, <2>3, <2>4, SendsKeepRuns
<1>11. CASE /\ phase \in {"execute", "hop"} /\ IsMined(awaited)
            /\ flow.style = "verify" /\ phase = "execute" => verdict # "incomplete"
            /\ Ends(IF ReportsSuccess THEN "delivered" ELSE "failed")
  <2> DEFINE v == IF ReportsSuccess THEN "delivered" ELSE "failed"
  <2>1. \A t \in txPool : t.kind = "transfer" => IsMined(t)
    BY <1>2, <1>11
  <2>2. nextNonce[Deployer] >= TopNonce
    <3>1. CASE phase = "execute"
      <4>1. awaited = Execute(Nonces + 1) /\ flow.style # "sequential"
        BY <1>11, <3>1 DEF LoadRuns
      <4>2. awaited.nonce = Nonces + 1 /\ awaited.by = Deployer
        BY <4>1 DEF Execute
      <4> QED BY <1>3, <1>11, <4>1, <4>2 DEF IsMined, TopNonce
    <3>2. CASE phase = "hop"
      BY <1>3, <3>2 DEF LoadRuns, TopNonce
    <3> QED BY <1>11, <3>1, <3>2
  <2>3. Ends(v)
    BY <1>11
  <2> HIDE DEF v
  <2> QED BY <2>1, <2>2, <2>3, EndsKeepRuns
<1>12. CASE Ends("aborted")
  BY <1>12, EndsKeepRuns
<1> QED BY <1>1, <1>5, <1>6, <1>7, <1>8, <1>9, <1>10, <1>11, <1>12, LoadSteps, Zenon

\* Mining keeps what is under way in order.
LEMMA LoadMiningRuns ==
  ASSUME CustodyTyped, LoadRuns, NEW t \in txPool, MineCustody(t)
  PROVE  LoadRuns'
<1>1. /\ flow' = flow /\ phase' = phase /\ awaited' = awaited /\ verdict' = verdict
      /\ txPool' = txPool \ {t} /\ IsTx(t)
      /\ nextNonce' = [nextNonce EXCEPT ![t.by] = @ + 1]
  BY MineCases
<1>2. Deployer \in Accounts /\ Nonces \in Nat /\ TopNonce \in Nat
  BY ProgramTxs DEF Accounts, TopNonce
<1>3. \A a \in Accounts : nextNonce'[a] >= nextNonce[a] /\ nextNonce[a] \in Nat /\ nextNonce'[a] \in Nat
  BY <1>1 DEF CustodyTyped, IsTx
<1>4. /\ \A u : IsLoadTx(u)' <=> IsLoadTx(u)
      /\ Nonces' = Nonces /\ Mint(Nonces)' = Mint(Nonces)
      /\ Execute(Nonces + 1)' = Execute(Nonces + 1) /\ TopNonce' = TopNonce
  BY <1>1 DEF IsLoadTx, Nonces, Mint, Execute, TopNonce
<1>5. ASSUME NEW u \in txPool', IsMined(u) PROVE IsMined(u)'
  <2>1. u.by \in Accounts /\ u.nonce \in Nat
    BY <1>1 DEF CustodyTyped, IsTx
  <2> QED BY <1>3, <1>5, <2>1 DEF IsMined
<1>6. nextNonce[Deployer] > Nonces => nextNonce'[Deployer] > Nonces
  BY <1>2, <1>3
<1>7. nextNonce[Deployer] >= TopNonce => nextNonce'[Deployer] >= TopNonce
  BY <1>2, <1>3
<1> QED BY <1>1, <1>4, <1>5, <1>6, <1>7 DEF LoadRuns

\* The mint takes the batch to the first owner.
LEMMA MintsAtFirst ==
  ASSUME CustodyTyped, MintBatch, ~minted, balance = NotMinted
  PROVE  balance' = AtFirst /\ transfers' = transfers
<1>1. flow.holders[1] \in HoldersOf(flow) /\ flow.liters \in Nat
  BY FlowFacts DEF CustodyTyped
<1>2. balance' = [NotMinted EXCEPT ![flow.holders[1]] = @ + flow.liters]
  BY DEF MintBatch
<1> QED BY <1>1, <1>2 DEF MintBatch, NotMinted, AtFirst, BatchAt

\* An execution of a chain that holds its batch at the first owner takes it to the
\* last holder, or leaves everything.
LEMMA ExecutesToLast ==
  ASSUME CustodyTyped, ExecuteHops, balance = AtFirst, flow.style \in {"verify"} \cup SdkStyles
  PROVE  /\ \/ balance' = AtLast /\ transfers' = transfers \o flow.hops
            \/ balance' = balance /\ transfers' = transfers /\ ~(SendersOf(flow) \subseteq approved)
<1>1. flow.hops = ChainHops(flow.holders, flow.liters) /\ flow \in Flows
  BY CustodyPlans DEF CustodyTyped
<1>2. AfterHops(balance, flow.hops).ok /\ AfterHops(balance, flow.hops).bal = AtLast
  BY <1>1, ChainDelivers
<1> QED BY <1>2 DEF ExecuteHops

\* The stress program's steps change no balance, and it executes when all have
\* approved.
LEMMA StressProgramRuns ==
  ASSUME CustodyTyped, StressRuns, flow.style = "verify", ProgramNext
  PROVE  StressRuns'
<1>1. ~SdkStep
  BY DEF SdkStep, SdkStyles
<1>2. /\ flow' = flow /\ nextNonce' = nextNonce /\ minted' = minted /\ balance' = balance
      /\ approved' = approved
  BY ProgramSteps DEF ChainStays, balanceVars
<1>3. Nonces' = Nonces /\ NotMinted' = NotMinted /\ AtFirst' = AtFirst /\ AtLast' = AtLast
  BY <1>2 DEF Nonces, NotMinted, AtFirst, AtLast, BatchAt
<1>4. SUFFICES ASSUME phase' = "execute" \/ \E t \in txPool' : t.kind = "execute"
               PROVE  HoldersOf(flow) \subseteq approved
  BY <1>2, <1>3 DEF StressRuns
<1>5. CASE \E t \in txPool : t.kind = "execute"
  BY <1>5 DEF StressRuns
<1>6. CASE ~ \E t \in txPool : t.kind = "execute"
  <2>1. ASSUME NEW txs, NEW then, Sends(txs, then), then # "execute",
               \A t \in ToSet(txs) : t.kind # "execute"
        PROVE  FALSE
    <3>1. ~ \E t \in txPool' : t.kind = "execute"
      BY <1>6, <2>1 DEF Sends
    <3>2. phase' # "execute"
      BY <2>1 DEF Sends
    <3> QED BY <1>4, <3>1, <3>2
  <2>2. ASSUME NEW v, Ends(v) PROVE FALSE
    BY <1>4, <1>6, <2>2 DEF Ends
  <2>3. /\ \A t \in ToSet(Primes) : t.kind # "execute"
        /\ \A t \in ToSet(Approvals) : t.kind # "execute"
    BY LoadTxs
  <2>4. \A t \in ToSet(<<Mint(Nonces)>>) : t.kind # "execute"
    BY OneElement DEF Mint
  <2>5. \A i : \A t \in ToSet(<<Transfer(i, flow.hops[i].from)>>) : t.kind # "execute"
    <3> TAKE i
    <3> DEFINE x == Transfer(i, flow.hops[i].from)
    <3>1. x.kind # "execute"
      BY DEF Transfer
    <3> HIDE DEF x
    <3>2. ToSet(<<x>>) = {x}
      BY OneElement
    <3>3. \A t \in ToSet(<<x>>) : t.kind # "execute"
      BY <3>1, <3>2
    <3> QED BY <3>3 DEF x
  <2>6. ~Sends(Primes, "prime") /\ ~Sends(Approvals, "approve")
        /\ ~Sends(<<Mint(Nonces)>>, "mint")
        /\ \A i : ~Sends(<<Transfer(i, flow.hops[i].from)>>, "hop")
    <3>1. ~Sends(Primes, "prime")
      BY <2>1, <2>3
    <3>2. ~Sends(Approvals, "approve")
      BY <2>1, <2>3
    <3>3. ~Sends(<<Mint(Nonces)>>, "mint")
      BY <2>1, <2>4
    <3>4. \A i : ~Sends(<<Transfer(i, flow.hops[i].from)>>, "hop")
      BY <2>1, <2>5
    <3> QED BY <3>1, <3>2, <3>3, <3>4
  <2> QED BY <1>1, <2>2, <2>6, LoadSteps, Zenon
<1> QED BY <1>5, <1>6

\* Mining takes the stress program's batch from nowhere to the first owner to the
\* last holder, as the deployer's nonces go.
LEMMA StressMiningRuns ==
  ASSUME CustodyTyped, LoadRuns, StressRuns, flow.style = "verify",
         NEW t \in txPool, MineCustody(t)
  PROVE  StressRuns'
<1>1. /\ flow' = flow /\ phase' = phase /\ txPool' = txPool \ {t} /\ IsTx(t) /\ Mineable(t)
      /\ nextNonce' = [nextNonce EXCEPT ![t.by] = @ + 1]
  BY MineCases
<1>2. Nonces' = Nonces /\ NotMinted' = NotMinted /\ AtFirst' = AtFirst /\ AtLast' = AtLast
  BY <1>1 DEF Nonces, NotMinted, AtFirst, AtLast, BatchAt
<1>3. Nonces \in Nat /\ Deployer \in Accounts /\ nextNonce[Deployer] \in Nat
      /\ t.by \in Accounts /\ Deployer \notin HoldersOf(flow)
  BY <1>1, ProgramTxs, CustodyPlans DEF Accounts, CustodyTyped, IsTx, SdkStyles
<1>4. IsLoadTx(t) /\ t.nonce = nextNonce[t.by] /\ t.nonce \in Nat
  BY <1>1 DEF LoadRuns, Mineable, IsTx
<1>5. nextNonce'[Deployer] = IF t.by = Deployer THEN nextNonce[Deployer] + 1 ELSE nextNonce[Deployer]
  BY <1>1, <1>3 DEF CustodyTyped
<1>6. approved \subseteq approved'
  BY MineCases DEF MintBatch, ExecuteHops, SafeTransferFrom
<1>7. phase' = "execute" \/ (\E u \in txPool' : u.kind = "execute") => HoldersOf(flow') \subseteq approved'
  BY <1>1, <1>6 DEF StressRuns
<1>8. CASE t.kind = "prime"
  <2>1. minted' = minted /\ balance' = balance
    BY <1>8, MineCases
  <2>2. t.by = Deployer /\ nextNonce[Deployer] < Nonces
    BY <1>4, <1>8 DEF IsLoadTx
  <2>3. nextNonce'[Deployer] <= Nonces
    BY <1>3, <1>5, <2>2
  <2>4. ~minted /\ balance = NotMinted
    BY <1>3, <2>2 DEF StressRuns
  <2>5. ~(nextNonce'[Deployer] = Nonces + 1) /\ ~(nextNonce'[Deployer] > Nonces + 1)
    <3>1. nextNonce'[Deployer] \in Nat
      BY <1>3, <1>5
    <3> QED BY <1>3, <2>3, <3>1
  <2>6. ~minted' /\ balance' = NotMinted
    BY <2>1, <2>4
  <2> QED BY <1>2, <1>7, <2>5, <2>6, Zenon DEF StressRuns
<1>9. CASE t.kind = "mint"
  <2>1. t.by = Deployer /\ nextNonce[Deployer] = Nonces
    BY <1>4, <1>9 DEF IsLoadTx
  <2>2. nextNonce'[Deployer] = Nonces + 1
    BY <1>5, <2>1
  <2>3. ~minted /\ balance = NotMinted
    BY <1>3, <2>1 DEF StressRuns
  <2>4. balance' = AtFirst
    BY <1>9, <2>3, MineCases, MintsAtFirst
  <2> QED BY <1>2, <1>3, <1>7, <2>2, <2>4 DEF StressRuns
<1>10. CASE t.kind = "execute"
  <2>1. t.by = Deployer /\ nextNonce[Deployer] = Nonces + 1
    BY <1>4, <1>10 DEF IsLoadTx
  <2>2. nextNonce'[Deployer] = Nonces + 2
    BY <1>3, <1>5, <2>1
  <2>3. balance = AtFirst /\ HoldersOf(flow) \subseteq approved
    BY <1>10, <2>1 DEF StressRuns
  <2>4. SendersOf(flow) \subseteq approved
    BY <2>3, FlowFacts DEF CustodyTyped
  <2>5. ExecuteHops
    BY <1>10, MineCases
  <2>6. balance' = AtLast
    BY <2>3, <2>4, <2>5, ExecutesToLast
  <2> QED BY <1>2, <1>3, <1>7, <2>2, <2>6 DEF StressRuns
<1>11. CASE t.kind = "approve"
  <2>1. minted' = minted /\ balance' = balance
    BY <1>11, MineCases
  <2>2. t.by # Deployer
    BY <1>3, <1>4, <1>11 DEF IsLoadTx
  <2>3. nextNonce'[Deployer] = nextNonce[Deployer]
    BY <1>5, <2>2
  <2> QED BY <1>2, <1>3, <1>7, <2>1, <2>3 DEF StressRuns
<1> QED BY <1>4, <1>8, <1>9, <1>10, <1>11 DEF IsLoadTx

\* A step of an SDK's example: with the receipt of the last call nothing is to come.
LEMMA SdkProgramRuns ==
  ASSUME CustodyTyped, SdkRuns, IsSdk, ProgramNext
  PROVE  SdkRuns'
<1>1. /\ flow' = flow /\ nextNonce' = nextNonce /\ minted' = minted /\ balance' = balance
      /\ transfers' = transfers
  BY ProgramSteps DEF ChainStays, balanceVars
<1>2. NotMinted' = NotMinted /\ AtFirst' = AtFirst /\ AtLast' = AtLast
  BY <1>1 DEF NotMinted, AtFirst, AtLast, BatchAt
<1>3. ASSUME Ends("aborted") PROVE SdkRuns'
  BY <1>3 DEF Ends, SdkRuns
<1>4. CASE SdkStep
  <2>1. ASSUME phase = "sdk", IsMined(awaited) PROVE txPool = {}
    <3>1. ASSUME NEW t \in txPool PROVE FALSE
      <4>1. t = awaited /\ t.nonce = nextNonce[t.by]
        BY <2>1 DEF SdkRuns
      <4>2. t.nonce \in Nat
        BY DEF CustodyTyped, IsTx
      <4> QED BY <2>1, <4>1, <4>2 DEF IsMined
    <3> QED BY <3>1
  <2>2. txPool = {}
    BY <1>4, <2>1, SdkStepFacts DEF SdkRuns
  <2>3. CASE Ends("delivered")
    BY <2>2, <2>3 DEF Ends, SdkRuns
  <2>4. CASE /\ awaited # NoTx => awaited.kind # "execute"
             /\ phase' = "sdk" /\ verdict' = verdict
             /\ txPool' = txPool \cup {awaited'} /\ IsTx(awaited')
             /\ awaited'.nonce = nextNonce[awaited'.by]
             /\ IF phase = "start" THEN awaited'.kind = "mint"
                ELSE awaited'.kind \in {"approve", "execute"}
    <3>1. /\ txPool' = {awaited'} /\ awaited'.nonce = nextNonce'[awaited'.by]
          /\ phase \in {"start", "sdk"} /\ verdict' = "running"
      BY <1>1, <1>4, <2>2, <2>4, SdkStepFacts DEF SdkRuns
    <3>2. awaited' # NoTx
      BY <2>4 DEF IsTx, TxKinds, NoTx
    <3>3. \/ /\ awaited'.kind = "mint" /\ transfers' = <<>>
             /\ ~minted' /\ balance' = NotMinted'
          \/ awaited'.kind \in {"approve", "execute"} /\ transfers' = <<>> /\ balance' = AtFirst'
      <4>1. CASE phase = "start"
        BY <1>1, <1>2, <2>4, <4>1 DEF SdkRuns
      <4>2. CASE phase = "sdk"
        <5>1. awaited # NoTx /\ awaited \notin txPool /\ awaited.kind # "execute"
          BY <2>2, <2>4, <4>2 DEF SdkRuns
        <5>2. transfers = <<>> /\ balance = AtFirst
          BY <4>2, <5>1 DEF SdkRuns
        <5> QED BY <1>1, <1>2, <2>4, <4>2, <5>2
      <4> QED BY <3>1, <4>1, <4>2
    <3> QED BY <2>4, <3>1, <3>2, <3>3 DEF SdkRuns
  <2> QED BY <1>3, <1>4, <2>3, <2>4, SdkStepFacts
<1>5. CASE ~SdkStep
  <2>1. phase \in {"start", "sdk", "done"} /\ flow.style \in SdkStyles
    BY DEF SdkRuns, IsSdk
  <2>2. Ends("aborted")
    BY <1>5, <2>1, LoadSteps
  <2> QED BY <1>3, <2>2
<1> QED BY <1>4, <1>5

\* Mining for an SDK's example: it is the call it waits for.
LEMMA SdkMiningRuns ==
  ASSUME CustodyTyped, SdkRuns, IsSdk, NEW t \in txPool, MineCustody(t)
  PROVE  SdkRuns'
<1>1. /\ flow' = flow /\ phase' = phase /\ awaited' = awaited /\ verdict' = verdict
      /\ txPool' = txPool \ {t}
  BY MineCases
<1>2. NotMinted' = NotMinted /\ AtFirst' = AtFirst /\ AtLast' = AtLast
  BY <1>1 DEF NotMinted, AtFirst, AtLast, BatchAt
<1>3. CASE phase = "done"
  BY <1>1, <1>3 DEF SdkRuns
<1>4. CASE phase = "sdk"
  <2>1. t = awaited /\ verdict = "running" /\ awaited # NoTx /\ txPool' = {}
        /\ awaited \in txPool /\ awaited \notin txPool'
    BY <1>1, <1>4 DEF SdkRuns
  <2>2. CASE awaited.kind = "mint"
    <3>1. transfers = <<>> /\ ~minted /\ balance = NotMinted
      BY <1>4, <2>1, <2>2 DEF SdkRuns
    <3>2. balance' = AtFirst /\ transfers' = transfers
      BY <2>1, <2>2, <3>1, MineCases, MintsAtFirst
    <3> QED BY <1>1, <1>2, <1>4, <2>1, <2>2, <3>1, <3>2 DEF SdkRuns
  <2>3. CASE awaited.kind = "approve"
    <3>1. transfers = <<>> /\ balance = AtFirst
      BY <1>4, <2>3 DEF SdkRuns
    <3>2. balance' = balance /\ transfers' = transfers
      BY <2>1, <2>3, MineCases
    <3> QED BY <1>1, <1>2, <1>4, <2>1, <2>3, <3>1, <3>2 DEF SdkRuns
  <2>4. CASE awaited.kind = "execute"
    <3>1. transfers = <<>> /\ balance = AtFirst
      BY <1>4, <2>1, <2>4 DEF SdkRuns
    <3>2. ExecuteHops
      BY <2>1, <2>4, MineCases
    <3>3. \/ balance' = AtLast /\ transfers' = <<>> \o flow.hops
          \/ balance' = AtFirst /\ transfers' = <<>>
      BY <3>1, <3>2, ExecutesToLast DEF IsSdk
    <3>4. <<>> \o flow.hops # <<>>
      <4>1. flow.hops \in Seq(HopsAmong(HoldersOf(flow))) /\ Len(flow.hops) > 0
        BY FlowFacts DEF CustodyTyped
      <4>2. <<>> \o flow.hops = flow.hops
        BY <4>1, ConcatEmptySeq
      <4>3. flow.hops # <<>>
        BY <4>1, EmptySeq
      <4> QED BY <4>2, <4>3, Zenon
    <3> QED BY <1>1, <1>2, <1>4, <2>1, <2>4, <3>3, <3>4 DEF SdkRuns
  <2> QED BY <1>4, <2>2, <2>3, <2>4 DEF SdkRuns
<1>5. phase # "start"
  BY DEF SdkRuns
<1> QED BY <1>3, <1>4, <1>5 DEF SdkRuns

\* After a reported success no transaction moves the batch.
LEMMA DeliveredStays ==
  ASSUME CustodyTyped, CustodyRuns, verdict = "delivered", NEW t \in txPool, MineCustody(t)
  PROVE  flow' = flow /\ balance' = balance
<1>1. ~IsSdk
  BY DEF CustodyRuns, SdkRuns
<1>2. LoadRuns /\ IsLoadTx(t)
  BY <1>1 DEF CustodyRuns, LoadRuns
<1>3. t.nonce = nextNonce[t.by] /\ t.nonce \in Nat
  BY MineCases DEF Mineable, IsTx
<1>4. Nonces \in Nat
  BY ProgramTxs
<1>5. phase = "done"
  BY <1>2 DEF LoadRuns
<1>6. t.by = Deployer => ~(t.nonce < TopNonce)
  <2>1. nextNonce[Deployer] >= TopNonce
    BY <1>2 DEF LoadRuns
  <2> QED BY <1>3, <1>4, <2>1 DEF TopNonce
<1>7. t.kind # "transfer"
  <2>1. ~IsMined(t)
    BY <1>3 DEF IsMined
  <2> QED BY <1>2, <1>5, <2>1 DEF LoadRuns
<1>8. t.kind = "approve"
  BY <1>2, <1>3, <1>4, <1>6, <1>7 DEF IsLoadTx, TopNonce
<1> QED BY <1>8, MineCases

\* What a program reports as a success is delivered when it reports it.
LEMMA ReportsDelivery ==
  ASSUME CustodyTyped, CustodyRuns, ProgramNext, verdict' = "delivered"
  PROVE  Delivered /\ flow' = flow /\ balance' = balance
<1>1. flow' = flow /\ balance' = balance /\ flow \in Flows
  BY ProgramSteps DEF ChainStays, balanceVars, CustodyTyped
<1>2. CASE SdkStep
  <2>1. /\ phase \in {"start", "sdk"} /\ IsSdk
        /\ \/ Ends("aborted")
           \/ Ends("delivered") /\ awaited # NoTx /\ transfers # <<>>
           \/ verdict' = verdict
    BY <1>2, SdkStepFacts DEF IsSdk
  <2>2. SdkRuns /\ verdict = "running"
    BY <2>1 DEF CustodyRuns, SdkRuns
  <2>3. Ends("delivered") /\ awaited # NoTx /\ transfers # <<>>
    BY <2>1, <2>2 DEF Ends
  <2>4. balance = AtLast
    BY <2>1, <2>2, <2>3 DEF SdkRuns
  <2> QED BY <1>1, <2>1, <2>4, LastIsDelivery DEF IsSdk
<1>3. CASE ~SdkStep
  <2>1. ASSUME NEW txs, NEW then, Sends(txs, then) PROVE FALSE
    BY <2>1 DEF Sends
  <2>2. ~Ends("aborted")
    BY DEF Ends
  <2>3. /\ phase \in {"execute", "hop"} /\ IsMined(awaited)
        /\ flow.style = "verify" /\ phase = "execute" => verdict # "incomplete"
        /\ Ends(IF ReportsSuccess THEN "delivered" ELSE "failed")
    BY <1>3, <2>1, <2>2, LoadSteps, Zenon
  <2>4. ReportsSuccess
    BY <2>3 DEF Ends
  <2>5. ~IsSdk
    BY <2>3 DEF CustodyRuns, SdkRuns
  <2>6. LoadRuns /\ flow.style \in {"relay", "sequential", "await_last", "verify"}
    BY <1>1, <2>5, FlowFacts DEF CustodyRuns, IsSdk, Styles
  <2>7. CASE flow.style \in {"relay", "sequential"}
    <3>1. flow.outputs = {Last(flow.holders)}
      BY <1>1, <2>7, CustodyPlans
    <3>2. balance[Last(flow.holders)] = flow.expected
      BY <2>4, <2>7 DEF ReportsSuccess, FinalHolds
    <3> QED BY <1>1, <3>1, <3>2, OneOutput DEF CustodyTyped
  <2>8. CASE flow.style = "await_last"
    BY <1>1, <2>4, <2>8 DEF ReportsSuccess
  <2>9. CASE flow.style = "verify"
    <3>1. StressRuns /\ phase = "execute"
      BY <2>3, <2>6, <2>9 DEF CustodyRuns, LoadRuns
    <3>2. awaited = Execute(Nonces + 1)
      BY <2>3, <2>6, <2>9, <3>1 DEF LoadRuns
    <3>3. nextNonce[Deployer] > Nonces + 1
      BY <2>3, <3>2 DEF IsMined, Execute
    <3>4. balance = AtLast
      BY <3>1, <3>3 DEF StressRuns
    <3> QED BY <1>1, <2>9, <3>4, LastIsDelivery
  <2> QED BY <2>6, <2>7, <2>8, <2>9
<1> QED BY <1>2, <1>3

\* What is under way stays in order in every reachable state.
LEMMA CustodyOrder == CustodySpec => []CustodyRuns
<1>1. CustodyInit => CustodyRuns
  <2> SUFFICES ASSUME CustodyInit PROVE CustodyRuns
    OBVIOUS
  <2>1. /\ flow \in Flows /\ phase = "start" /\ awaited = NoTx /\ verdict = "running"
        /\ txPool = {} /\ ~minted /\ transfers = <<>> /\ balance = NotMinted
        /\ nextNonce[Deployer] = 0
    BY DEF CustodyInit, NotMinted
  <2>2. Nonces \in Nat
    BY <2>1, FlowFacts DEF Nonces
  <2>3. LoadRuns /\ SdkRuns
    BY <2>1 DEF LoadRuns, SdkRuns
  <2>4. StressRuns
    BY <2>1, <2>2 DEF StressRuns
  <2> QED BY <2>1, <2>3, <2>4 DEF CustodyRuns
<1>2. CustodyTyped /\ CustodyRuns /\ [CustodyNext]_custodyVars => CustodyRuns'
  <2> SUFFICES ASSUME CustodyTyped, CustodyRuns, [CustodyNext]_custodyVars
               PROVE  CustodyRuns'
    OBVIOUS
  <2>0. ASSUME flow' = flow, balance' = balance
        PROVE  Delivered' <=> Delivered
    BY <2>0 DEF Delivered, OfHolders
  <2>1. CASE \/ UNCHANGED custodyVars \/ WithdrawApproval \/ IndexTransfers
    <3>1. /\ flow' = flow /\ phase' = phase /\ awaited' = awaited /\ verdict' = verdict
          /\ txPool' = txPool /\ nextNonce' = nextNonce /\ minted' = minted
          /\ balance' = balance /\ transfers' = transfers
      BY <2>1 DEF custodyVars, scriptVars, balanceVars, WithdrawApproval, IndexTransfers
    <3>2. flow.style = "verify" => approved' = approved
      BY <2>1 DEF custodyVars, balanceVars, WithdrawApproval, IndexTransfers, SdkStyles
    <3>3. /\ Nonces' = Nonces /\ NotMinted' = NotMinted /\ AtFirst' = AtFirst
          /\ AtLast' = AtLast /\ (IsSdk' <=> IsSdk)
      BY <3>1 DEF Nonces, NotMinted, AtFirst, AtLast, BatchAt, IsSdk
    <3>4. (LoadRuns => LoadRuns') /\ (SdkRuns => SdkRuns')
      <4>1. LoadRuns => LoadRuns'
        BY <3>1, <3>3 DEF LoadRuns, IsLoadTx, IsMined, Mint, Execute, TopNonce
      <4>2. SdkRuns => SdkRuns'
        BY <3>1, <3>3 DEF SdkRuns
      <4> QED BY <4>1, <4>2
    <3>5. flow.style = "verify" /\ StressRuns => StressRuns'
      BY <3>1, <3>2, <3>3 DEF StressRuns
    <3>6. Delivered' <=> Delivered
      BY <2>0, <3>1
    <3>7. /\ ~IsSdk' => LoadRuns'
          /\ IsSdk' => SdkRuns'
      BY <3>3, <3>4 DEF CustodyRuns
    <3>8. flow'.style = "verify" => StressRuns'
      BY <3>1, <3>5 DEF CustodyRuns
    <3>9. verdict' = "delivered" => Delivered'
      BY <3>1, <3>6 DEF CustodyRuns
    <3> QED BY <3>7, <3>8, <3>9, Zenon DEF CustodyRuns
  <2>2. CASE ProgramNext
    <3>1. flow' = flow /\ balance' = balance
      BY <2>2, ProgramSteps DEF ChainStays, balanceVars
    <3>2. IsSdk' <=> IsSdk
      BY <3>1 DEF IsSdk
    <3>3. ~IsSdk => LoadRuns'
      BY <2>2, LoadProgramRuns DEF CustodyRuns
    <3>4. flow.style = "verify" => StressRuns'
      BY <2>2, StressProgramRuns DEF CustodyRuns
    <3>5. IsSdk => SdkRuns'
      BY <2>2, SdkProgramRuns DEF CustodyRuns
    <3>6. verdict' = "delivered" => Delivered'
      BY <2>0, <2>2, <3>1, ReportsDelivery
    <3> QED BY <3>1, <3>2, <3>3, <3>4, <3>5, <3>6 DEF CustodyRuns
  <2>3. ASSUME NEW t \in txPool, MineCustody(t) PROVE CustodyRuns'
    <3>1. flow' = flow /\ verdict' = verdict
      BY <2>3, MineCases
    <3>2. IsSdk' <=> IsSdk
      BY <3>1 DEF IsSdk
    <3>3. ~IsSdk => LoadRuns'
      BY <2>3, LoadMiningRuns DEF CustodyRuns
    <3>4. flow.style = "verify" => StressRuns'
      <4>1. flow.style = "verify" => ~IsSdk
        BY DEF IsSdk, SdkStyles
      <4> QED BY <2>3, <4>1, StressMiningRuns DEF CustodyRuns
    <3>5. IsSdk => SdkRuns'
      BY <2>3, SdkMiningRuns DEF CustodyRuns
    <3>6. verdict' = "delivered" => Delivered'
      BY <2>0, <2>3, <3>1, DeliveredStays DEF CustodyRuns
    <3> QED BY <3>1, <3>2, <3>3, <3>4, <3>5, <3>6 DEF CustodyRuns
  <2> QED BY <2>1, <2>2, <2>3 DEF CustodyNext, ProgramNext
<1> QED BY <1>1, <1>2, CustodyStates, PTL DEF CustodySpec

\* A program that reports success has delivered, and no transaction still to come
\* undoes it, for every scenario, whatever is refused or times out and in whatever
\* order its transactions are mined, although the stress program never reads a
\* balance and only the last receipt is waited for (scenario-stress-200x500.ts,
\* scenario-refinery-dag.ts main).
THEOREM SuccessDelivers == CustodySpec => []SuccessIsDelivery
<1>1. CustodyRuns => SuccessIsDelivery
  BY DEF CustodyRuns, SuccessIsDelivery
<1> QED BY <1>1, CustodyOrder, PTL

=============================================================================
