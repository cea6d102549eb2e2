------------------------- MODULE RecursiveFunctions -------------------------
(***************************************************************************)
(* A function defined by recursion satisfies the equation that defines it, *)
(* if its arguments get smaller from call to call.  TLA+ says it only if a *)
(* function of that equation exists; Recursion proves that one does.       *)
(*                                                                         *)
(* The modules with proofs about recursive code instantiate this one with  *)
(* the domain, the measure and the body of each of its functions, and use  *)
(* LeastNumber where others would use induction: a claim that fails for    *)
(* some number fails for a least one.                                      *)
(***************************************************************************)
EXTENDS Naturals, WellFoundedInduction, TLAPS

CONSTANTS
    Dom,         \* where the function is defined
    Measure(_),  \* what gets smaller from call to call
    Def(_, _)    \* its body, for the function and an argument

\* A set of numbers that is not empty has a least one.
LEMMA LeastNumber ==
  ASSUME NEW S \in SUBSET Nat, S # {}
  PROVE  \E n \in S : \A m \in S : n <= m
<1>1. PICK n \in S : \A m \in S : <<m, n>> \notin OpToRel(<, Nat)
  BY NatLessThanWellFounded, WFMin
<1>2. ASSUME NEW m \in S PROVE n <= m
  <2>1. m \in Nat /\ n \in Nat /\ <<m, n>> \notin OpToRel(<, Nat)
    BY <1>1
  <2> QED BY <2>1, SMT DEF OpToRel
<1> QED BY <1>2

\* A set that is not empty has an element where f is least.
LEMMA Least ==
  ASSUME NEW S, S # {}, NEW f \in [S -> Nat]
  PROVE  \E x \in S : \A y \in S : f[x] <= f[y]
<1> DEFINE T == {f[x] : x \in S}
<1>1. T \in SUBSET Nat /\ T # {}
  OBVIOUS
<1>2. PICK t \in T : \A u \in T : t <= u
  BY <1>1, LeastNumber
<1> QED BY <1>2

\* The body looks at smaller arguments only.
WellDefined ==
  /\ \A x \in Dom : Measure(x) \in Nat
  /\ \A g, h : \A x \in Dom :
       (\A y \in Dom : Measure(y) < Measure(x) => g[y] = h[y]) => Def(g, x) = Def(h, x)

\* The arguments smaller than n, and a function that satisfies the equation on
\* them
Below(n) == {x \in Dom : Measure(x) < n}

DefinedBelow(g, n) == g = [x \in Below(n) |-> Def(g, x)]

\* Two functions that satisfy the equation up to some measure agree where both
\* do: there is no least argument where they differ.
LEMMA Agree ==
  ASSUME WellDefined, NEW g, NEW h, NEW n \in Nat, NEW k \in Nat,
         DefinedBelow(g, n), DefinedBelow(h, k), NEW x \in Below(n) \cap Below(k)
  PROVE  g[x] = h[x]
<1> DEFINE Apart == {y \in Below(n) \cap Below(k) : g[y] # h[y]}
           S == {Measure(y) : y \in Apart}
<1>1. SUFFICES ASSUME x \in Apart PROVE FALSE
  OBVIOUS
<1>2. S \in SUBSET Nat /\ S # {}
  BY <1>1 DEF WellDefined, Below
<1>3. PICK y \in Apart : \A z \in Apart : Measure(y) <= Measure(z)
  <2>1. PICK s \in S : \A t \in S : s <= t
    BY <1>2, LeastNumber
  <2> QED BY <2>1
<1>4. ASSUME NEW z \in Dom, Measure(z) < Measure(y)
      PROVE  g[z] = h[z]
  <2>1. z \in Below(n) \cap Below(k)
    BY <1>4 DEF Below, WellDefined
  <2>2. z \notin Apart
    BY <1>3, <1>4 DEF Below, WellDefined
  <2> QED BY <2>1, <2>2
<1>5. Def(g, y) = Def(h, y)
  BY <1>3, <1>4 DEF WellDefined, Below
<1>6. g[y] = Def(g, y) /\ h[y] = Def(h, y)
  BY <1>3 DEF DefinedBelow
<1> QED BY <1>3, <1>5, <1>6

\* Up to every measure there is a function that satisfies the equation: there is
\* no least measure without one.
LEMMA Approximations ==
  ASSUME WellDefined, NEW n \in Nat
  PROVE  \E g : DefinedBelow(g, n)
<1> DEFINE S == {k \in Nat : ~ \E g : DefinedBelow(g, k)}
<1>1. SUFFICES ASSUME S # {} PROVE FALSE
  OBVIOUS
<1>2. PICK k \in S : \A m \in S : k <= m
  BY <1>1, LeastNumber
<1>3. CASE k = 0
  <2> DEFINE g == [x \in Below(0) |-> x]
  <2>1. Below(0) = {}
    BY DEF Below, WellDefined
  <2>2. DefinedBelow(g, 0)
    BY <2>1 DEF DefinedBelow
  <2> QED BY <2>2, <1>2, <1>3
<1>4. CASE k # 0
  <2>1. PICK h : DefinedBelow(h, k - 1)
    <3>1. k - 1 \in Nat /\ k - 1 \notin S
      BY <1>2, <1>4
    <3> QED BY <3>1
  <2> DEFINE g == [x \in Below(k) |-> Def(h, x)]
  <2>2. ASSUME NEW x \in Below(k) PROVE Def(h, x) = Def(g, x)
    <3>1. ASSUME NEW y \in Dom, Measure(y) < Measure(x) PROVE h[y] = g[y]
      <4>1. y \in Below(k - 1) /\ y \in Below(k)
        BY <3>1, <1>2 DEF Below, WellDefined
      <4>2. h[y] = Def(h, y)
        BY <4>1, <2>1 DEF DefinedBelow
      <4> QED BY <4>1, <4>2
    <3> QED BY <3>1 DEF WellDefined, Below
  <2>3. DefinedBelow(g, k)
    BY <2>2 DEF DefinedBelow
  <2> QED BY <2>3, <1>2
<1> QED BY <1>3, <1>4

\* Recursion: a recursive function of the code, one whose calls get smaller,
\* returns for every argument what its body says.
THEOREM Recursion ==
  ASSUME WellDefined, NEW f, f = CHOOSE g : g = [x \in Dom |-> Def(g, x)]
  PROVE  f = [x \in Dom |-> Def(f, x)]
<1> DEFINE Upto(x) == CHOOSE g : DefinedBelow(g, Measure(x) + 1)
           F == [x \in Dom |-> Upto(x)[x]]
<1>1. ASSUME NEW x \in Dom PROVE DefinedBelow(Upto(x), Measure(x) + 1)
  <2>1. Measure(x) + 1 \in Nat
    BY DEF WellDefined
  <2> QED BY <2>1, Approximations
<1>2. ASSUME NEW x \in Dom PROVE F[x] = Def(F, x)
  <2>1. x \in Below(Measure(x) + 1)
    BY DEF Below, WellDefined
  <2>2. F[x] = Def(Upto(x), x)
    BY <1>1, <2>1 DEF DefinedBelow
  <2>3. ASSUME NEW y \in Dom, Measure(y) < Measure(x) PROVE F[y] = Upto(x)[y]
    <3>1. y \in Below(Measure(y) + 1) \cap Below(Measure(x) + 1)
      BY <2>3 DEF Below, WellDefined
    <3>2. Measure(x) + 1 \in Nat /\ Measure(y) + 1 \in Nat
      BY DEF WellDefined
    <3>3. Upto(y)[y] = Upto(x)[y]
      <4> HIDE DEF Upto
      <4> QED BY <1>1, <3>1, <3>2, Agree
    <3> QED BY <3>3
  <2>4. Def(F, x) = Def(Upto(x), x)
    <3> HIDE DEF Upto, F
    <3> QED BY <2>3 DEF WellDefined
  <2> QED BY <2>2, <2>4
<1>3. F = [x \in Dom |-> Def(F, x)]
  BY <1>2
<1> HIDE DEF F
<1> QED BY <1>3
=============================================================================
