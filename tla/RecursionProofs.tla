-------------------------- MODULE RecursionProofs --------------------------
(***************************************************************************)
(* A recursive function, f[x \in S] == Def(f, x), is what its definition   *)
(* says if Def looks at f only where Depth is smaller.  The conversions of *)
(* values are such functions: a value is nested only so deep.              *)
(***************************************************************************)
EXTENDS Integers, WellFoundedInduction, TLAPS

CONSTANTS S, Depth(_), Def(_, _)

(* The least number, without an operator for the induction.                *)
LessThan == OpToRel(<, Nat)

LEMMA LeastNumber ==
  ASSUME NEW T, T \subseteq Nat, T # {}
  PROVE  \E x \in T : \A y \in T : x <= y
<1>1. LessThan = {ss \in Nat \X Nat : ss[1] < ss[2]}
  BY DEF LessThan, OpToRel
<1>2. IsWellFoundedOn(LessThan, Nat)
  BY NatLessThanWellFounded DEF LessThan
<1>3. PICK x \in T : \A y \in T : ~ (<<y, x>> \in LessThan)
  <2> HIDE DEF LessThan
  <2> QED
    BY <1>2, WFMin, Zenon
<1>4. ASSUME NEW y \in T
      PROVE  x <= y
  <2>1. x \in Nat /\ y \in Nat /\ <<y, x>> \notin LessThan
    BY <1>3
  <2>2. ~ (y < x)
    BY <1>1, <2>1
  <2> QED
    BY <2>1, <2>2
<1> QED
  BY <1>4

DepthIsNat == \A x \in S : Depth(x) \in Nat

(* Def looks only at what is less deep.                                    *)
LooksDeeper ==
  \A x \in S : \A g, h :
    (\A y \in S : Depth(y) < Depth(x) => g[y] = h[y]) => Def(g, x) = Def(h, x)

LEMMA LeastDepth ==
  ASSUME DepthIsNat, NEW T, T \subseteq S, T # {}
  PROVE  \E x \in T : \A y \in T : Depth(x) <= Depth(y)
<1> DEFINE D == {Depth(x) : x \in T}
<1>1. D \subseteq Nat /\ D # {}
  BY DEF DepthIsNat
<1>2. PICK n \in D : \A m \in D : n <= m
  <2> HIDE DEF D
  <2> QED
    BY <1>1, LeastNumber
<1>3. PICK x \in T : n = Depth(x)
  OBVIOUS
<1> QED
  BY <1>2, <1>3

(* The function as far as it is defined below a depth.                     *)
Below(n) == {x \in S : Depth(x) < n}
Solves(n, g) == g = [x \in Below(n) |-> Def(g, x)]

LEMMA SolutionsAgree ==
  ASSUME DepthIsNat, LooksDeeper, NEW n \in Nat, NEW m \in Nat, NEW g, NEW h,
         Solves(n, g), Solves(m, h), NEW x \in Below(n), x \in Below(m)
  PROVE  g[x] = h[x]
<1> DEFINE T == {y \in Below(n) \cap Below(m) : g[y] # h[y]}
<1> SUFFICES ASSUME T # {} PROVE FALSE
  OBVIOUS
<1>1. PICK y \in T : \A z \in T : Depth(y) <= Depth(z)
  <2>1. T \subseteq S
    BY DEF Below
  <2> HIDE DEF T
  <2> QED
    BY <2>1, LeastDepth
<1>2. y \in S /\ Depth(y) \in Nat /\ Depth(y) < n /\ Depth(y) < m /\ g[y] # h[y]
  BY DEF Below, DepthIsNat
<1>3. ASSUME NEW z \in S, Depth(z) < Depth(y)
      PROVE  g[z] = h[z]
  <2>1. Depth(z) \in Nat
    BY DEF DepthIsNat
  <2>2. z \in Below(n) /\ z \in Below(m)
    BY <1>2, <1>3, <2>1 DEF Below
  <2>3. ~ (Depth(y) <= Depth(z))
    BY <1>2, <1>3, <2>1
  <2>4. z \notin T
    BY <1>1, <2>3
  <2> QED
    BY <2>2, <2>4
<1>4. Def(g, y) = Def(h, y)
  BY <1>2, <1>3 DEF LooksDeeper
<1>5. g[y] = Def(g, y) /\ h[y] = Def(h, y)
  BY DEF Solves
<1> QED
  BY <1>2, <1>4, <1>5

LEMMA SolutionExists ==
  ASSUME DepthIsNat, LooksDeeper
  PROVE  \A n \in Nat : \E g : Solves(n, g)
<1> DEFINE T == {n \in Nat : ~ \E g : Solves(n, g)}
<1> SUFFICES ASSUME T # {} PROVE FALSE
  OBVIOUS
<1>1. PICK n \in T : \A m \in T : n <= m
  <2>1. T \subseteq Nat
    OBVIOUS
  <2> HIDE DEF T
  <2> QED
    BY <2>1, LeastNumber
<1>2. n # 0
  <2>1. SUFFICES ASSUME n = 0 PROVE FALSE
    OBVIOUS
  <2>2. Below(n) = {}
    BY <2>1 DEF Below, DepthIsNat
  <2>3. \A g : [x \in {} |-> Def(g, x)] = [x \in {} |-> x]
    OBVIOUS
  <2>4. Solves(n, [x \in {} |-> x])
    BY <2>2, <2>3 DEF Solves
  <2> QED
    BY <2>4
<1>3. n \in Nat /\ n - 1 \in Nat /\ n - 1 \notin T
  BY <1>1, <1>2
<1>4. PICK g : Solves(n - 1, g)
  BY <1>3
<1> DEFINE h == [x \in Below(n) |-> Def(g, x)]
<1>5. ASSUME NEW x \in Below(n)
      PROVE  Def(h, x) = Def(g, x)
  <2>1. x \in S /\ Depth(x) \in Nat /\ Depth(x) < n
    BY DEF Below, DepthIsNat
  <2>2. ASSUME NEW y \in S, Depth(y) < Depth(x)
        PROVE  h[y] = g[y]
    <3>1. Depth(y) \in Nat
      BY DEF DepthIsNat
    <3>2. y \in Below(n) /\ y \in Below(n - 1)
      BY <1>3, <2>1, <2>2, <3>1 DEF Below
    <3> QED
      BY <1>4, <3>2 DEF Solves
  <2> HIDE DEF h
  <2> QED
    BY <2>1, <2>2 DEF LooksDeeper
<1>6. h = [x \in Below(n) |-> Def(h, x)]
  <2> DEFINE e == [x \in Below(n) |-> Def(h, x)]
  <2>1. \A x \in Below(n) : e[x] = h[x]
    BY <1>5
  <2> QED
    BY <1>5
<1>7. Solves(n, h)
  BY <1>6 DEF Solves
<1> QED
  BY <1>7

(* The function is what its definition says.                               *)
LEMMA RecursiveFunction ==
  ASSUME DepthIsNat, LooksDeeper,
         NEW f, f = CHOOSE g : g = [x \in S |-> Def(g, x)]
  PROVE  f = [x \in S |-> Def(f, x)]
<1> DEFINE G(n) == CHOOSE g : Solves(n, g)
           F == [x \in S |-> G(Depth(x) + 1)[x]]
<1>1. ASSUME NEW n \in Nat
      PROVE  Solves(n, G(n))
  BY SolutionExists
<1>2. ASSUME NEW x \in S
      PROVE  F[x] = Def(F, x)
  <2> DEFINE n == Depth(x) + 1
  <2>1. Depth(x) \in Nat /\ n \in Nat /\ x \in Below(n)
    BY DEF DepthIsNat, Below
  <2>2. F[x] = Def(G(n), x)
    <3>1. F[x] = G(n)[x]
      OBVIOUS
    <3>2. Solves(n, G(n))
      BY <1>1, <2>1
    <3> HIDE DEF G, F, n
    <3> QED
      BY <2>1, <3>1, <3>2 DEF Solves
  <2>3. ASSUME NEW y \in S, Depth(y) < Depth(x)
        PROVE  G(n)[y] = F[y]
    <3> DEFINE m == Depth(y) + 1
    <3>1. Depth(y) \in Nat /\ m \in Nat /\ y \in Below(m) /\ y \in Below(n)
      BY <2>1, <2>3 DEF DepthIsNat, Below
    <3>2. F[y] = G(m)[y]
      OBVIOUS
    <3>3. Solves(n, G(n)) /\ Solves(m, G(m))
      BY <1>1, <2>1, <3>1
    <3> HIDE DEF G, F, n, m
    <3> QED
      BY <2>1, <3>1, <3>2, <3>3, SolutionsAgree
  <2> HIDE DEF F, G, n
  <2>4. Def(G(n), x) = Def(F, x)
    BY <2>3 DEF LooksDeeper
  <2> QED
    BY <2>2, <2>4
<1>3. F = [x \in S |-> Def(F, x)]
  BY <1>2
<1>4. \E g : g = [x \in S |-> Def(g, x)]
  BY <1>3
<1> QED
  BY <1>4

=============================================================================
