----------------------------- MODULE ProofLemmas -----------------------------
(***************************************************************************)
(* What the proofs about several modules need of natural numbers: least    *)
(* elements, induction over a set, recursion, and sums over finite sets.   *)
(***************************************************************************)
EXTENDS Integers, FiniteSetsExt, FiniteSetTheorems, WellFoundedInduction, TLAPS

\* The well-ordering of the natural numbers.
LEMMA LeastNumber ==
  ASSUME NEW T, T \subseteq Nat, T # {}
  PROVE  \E x \in T : \A y \in T : x <= y
<1> DEFINE R == {ss \in Nat \X Nat : ss[1] < ss[2]}
<1>1. OpToRel(<, Nat) = R
  BY DEF OpToRel
<1>2. IsWellFoundedOn(R, Nat)
  BY <1>1, NatLessThanWellFounded
<1> HIDE DEF R
<1>3. PICK x \in T : \A y \in T : ~ (<<y, x>> \in R)
  BY <1>2, WFMin
<1>4. \A y \in T : ~ (y < x)
  BY <1>3 DEF R
<1> QED BY <1>4

\* Induction, the property being membership of a set.
LEMMA Inductive ==
  ASSUME NEW T, 0 \in T, \A k \in Nat : k \in T => k + 1 \in T
  PROVE  Nat \subseteq T
<1> DEFINE R == {ss \in Nat \X Nat : ss[1] < ss[2]}
<1>1. OpToRel(<, Nat) = R
  BY DEF OpToRel
<1>2. IsWellFoundedOn(R, Nat)
  BY <1>1, NatLessThanWellFounded
<1> SUFFICES ASSUME Nat \ T # {} PROVE FALSE
  OBVIOUS
<1>3. PICK x \in Nat \ T : \A y \in Nat \ T : ~ (<<y, x>> \in R)
  <2> HIDE DEF R
  <2> QED BY <1>2, WFMin
<1>4. x # 0 /\ x - 1 \in Nat /\ (x - 1) + 1 = x
  BY <1>3
<1>5. x - 1 \in T
  <2>1. <<x - 1, x>> \in R
    BY <1>3, <1>4 DEF R
  <2> HIDE DEF R
  <2> QED BY <1>3, <1>4, <2>1
<1> QED BY <1>3, <1>4, <1>5

\* f starts with b and follows the steps of St up to n.
Follows(f, b, St, n) ==
  f[0] = b /\ \A k \in 1 .. n : f[k] = St[k][f[k - 1]]

LEMMA Recursion ==
  ASSUME NEW V, NEW b \in V, NEW n \in Nat, NEW St \in [1 .. n -> [V -> V]]
  PROVE  \E f \in [0 .. n -> V] : Follows(f, b, St, n)
<1> DEFINE T == {m \in Nat : m <= n => \E f \in [0 .. m -> V] : Follows(f, b, St, m)}
<1>1. 0 \in T
  <2> DEFINE f == [k \in 0 .. 0 |-> b]
  <2>1. f \in [0 .. 0 -> V] /\ Follows(f, b, St, 0)
    BY DEF Follows
  <2> QED BY <2>1
<1>2. ASSUME NEW m \in Nat, m \in T PROVE m + 1 \in T
  <2> SUFFICES ASSUME m + 1 <= n
               PROVE  \E g \in [0 .. m + 1 -> V] : Follows(g, b, St, m + 1)
    OBVIOUS
  <2>1. PICK f \in [0 .. m -> V] : Follows(f, b, St, m)
    BY <1>2
  <2> DEFINE g == [k \in 0 .. m + 1 |-> IF k = m + 1 THEN St[m + 1][f[m]] ELSE f[k]]
  <2>2. /\ m + 1 \in 1 .. n /\ m \in 0 .. m /\ m + 1 \in 0 .. m + 1 /\ (m + 1) - 1 = m
        /\ m \in 0 .. m + 1 /\ m # m + 1 /\ 0 \in 0 .. m + 1 /\ 0 # m + 1
    OBVIOUS
  <2>3. \A k \in 0 .. m + 1 : k = m + 1 \/ k \in 0 .. m
    OBVIOUS
  <2>4. g \in [0 .. m + 1 -> V]
    BY <2>2, <2>3
  <2>5. g[0] = b
    BY <2>1, <2>2 DEF Follows
  <2>6. ASSUME NEW k \in 1 .. m + 1 PROVE g[k] = St[k][g[k - 1]]
    <3>1. CASE k = m + 1
      <4>1. g[m + 1] = St[m + 1][f[m]] /\ g[m] = f[m]
        BY <2>2
      <4> HIDE DEF g
      <4> QED BY <2>2, <3>1, <4>1
    <3>2. CASE k # m + 1
      <4>1. k \in 1 .. m /\ k \in 0 .. m + 1 /\ k - 1 \in 0 .. m + 1 /\ k - 1 # m + 1
        BY <3>2
      <4>2. g[k] = f[k] /\ g[k - 1] = f[k - 1]
        BY <3>2, <4>1
      <4>3. f[k] = St[k][f[k - 1]]
        BY <2>1, <4>1 DEF Follows
      <4> HIDE DEF g
      <4> QED BY <4>2, <4>3
    <3> QED BY <3>1, <3>2
  <2> HIDE DEF g
  <2> QED BY <2>4, <2>5, <2>6 DEF Follows
<1> HIDE DEF T
<1>3. n \in T
  BY <1>1, <1>2, Inductive
<1> QED BY <1>3 DEF T

-----------------------------------------------------------------------------
(* Sums over finite sets. *)

OneOf(s) == CHOOSE x \in s : TRUE

\* h gives the sum of g over the subsets of S of at most n elements, by the rule
\* of the library's folds.
AddsTo(h, g, S, n) ==
  /\ h \in [{s \in SUBSET S : Cardinality(s) <= n} -> Nat]
  /\ \A s \in SUBSET S : Cardinality(s) <= n =>
       h[s] = IF s = {} THEN 0 ELSE g[OneOf(s)] + h[s \ {OneOf(s)}]
Adds(h, g, S) ==
  /\ h \in [SUBSET S -> Nat]
  /\ \A s \in SUBSET S : h[s] = IF s = {} THEN 0 ELSE g[OneOf(s)] + h[s \ {OneOf(s)}]

\* A subset less one of its elements.
LEMMA LessOne ==
  ASSUME NEW S, IsFiniteSet(S), NEW s \in SUBSET S, NEW x \in s
  PROVE  /\ IsFiniteSet(s) /\ s \ {x} \in SUBSET S
         /\ Cardinality(s) \in Nat /\ Cardinality(s \ {x}) \in Nat
         /\ Cardinality(s \ {x}) = Cardinality(s) - 1
<1>1. IsFiniteSet(s)
  BY FS_Subset
<1>2. IsFiniteSet(s \ {x}) /\ Cardinality(s \ {x}) = Cardinality(s) - 1
  BY <1>1, FS_RemoveElement
<1> QED BY <1>1, <1>2, FS_CardinalityType

\* The rule has a solution.
LEMMA AddsExists ==
  ASSUME NEW S, IsFiniteSet(S), NEW g \in [S -> Nat]
  PROVE  \E h : Adds(h, g, S)
<1> DEFINE T == {n \in Nat : \E h : AddsTo(h, g, S, n)}
<1>1. 0 \in T
  <2> DEFINE h == [s \in {u \in SUBSET S : Cardinality(u) <= 0} |-> 0]
  <2>1. \A s \in SUBSET S : Cardinality(s) <= 0 => s = {}
    BY FS_Subset, FS_EmptySet, FS_CardinalityType
  <2>2. AddsTo(h, g, S, 0)
    BY <2>1 DEF AddsTo
  <2> QED BY <2>2
<1>2. ASSUME NEW n \in Nat, n \in T PROVE n + 1 \in T
  <2>1. PICK f : AddsTo(f, g, S, n)
    BY <1>2
  <2> DEFINE Upto(m) == {s \in SUBSET S : Cardinality(s) <= m}
             h == [s \in Upto(n + 1) |->
                    IF s = {} THEN 0 ELSE g[OneOf(s)] + f[s \ {OneOf(s)}]]
  <2>2. ASSUME NEW s \in Upto(n + 1), s # {}
        PROVE  /\ OneOf(s) \in s /\ OneOf(s) \in S
               /\ s \ {OneOf(s)} \in Upto(n) /\ s \ {OneOf(s)} \in Upto(n + 1)
    <3>1. OneOf(s) \in s /\ s \in SUBSET S
      BY <2>2 DEF OneOf
    <3>2. /\ s \ {OneOf(s)} \in SUBSET S
          /\ Cardinality(s) \in Nat /\ Cardinality(s \ {OneOf(s)}) \in Nat
          /\ Cardinality(s \ {OneOf(s)}) = Cardinality(s) - 1
      BY <3>1, LessOne
    <3>3. Cardinality(s) <= n + 1
      OBVIOUS
    <3> QED BY <3>1, <3>2, <3>3
  <2>3. h \in [Upto(n + 1) -> Nat]
    <3>1. f \in [Upto(n) -> Nat]
      BY <2>1 DEF AddsTo
    <3> QED BY <2>2, <3>1
  <2>4. ASSUME NEW s \in Upto(n) PROVE s \in Upto(n + 1) /\ h[s] = f[s]
    <3>1. Cardinality(s) <= n /\ s \in SUBSET S /\ Cardinality(s) \in Nat
      BY FS_Subset, FS_CardinalityType
    <3>2. s \in Upto(n + 1)
      BY <3>1
    <3>3. f[s] = IF s = {} THEN 0 ELSE g[OneOf(s)] + f[s \ {OneOf(s)}]
      BY <2>1, <3>1 DEF AddsTo
    <3> QED BY <3>2, <3>3
  <2>5. ASSUME NEW s \in Upto(n + 1)
        PROVE  h[s] = IF s = {} THEN 0 ELSE g[OneOf(s)] + h[s \ {OneOf(s)}]
    <3>1. CASE s = {}
      BY <3>1
    <3>2. CASE s # {}
      <4>1. h[s \ {OneOf(s)}] = f[s \ {OneOf(s)}]
        BY <2>2, <2>4, <3>2
      <4> QED BY <3>2, <4>1
    <3> QED BY <3>1, <3>2
  <2>6. AddsTo(h, g, S, n + 1)
    <3> HIDE DEF h
    <3> QED BY <2>3, <2>5 DEF AddsTo
  <2> QED BY <2>6
<1>3. Nat \subseteq T
  <2> HIDE DEF T
  <2> QED BY <1>1, <1>2, Inductive
<1>4. Cardinality(S) \in Nat
  BY FS_CardinalityType
<1>5. PICK h : AddsTo(h, g, S, Cardinality(S))
  BY <1>3, <1>4
<1>6. \A s \in SUBSET S : Cardinality(s) <= Cardinality(S)
  BY FS_Subset
<1>7. {s \in SUBSET S : Cardinality(s) <= Cardinality(S)} = SUBSET S
  BY <1>6
<1> QED BY <1>5, <1>6, <1>7 DEF AddsTo, Adds

\* Any element may be taken out first.
LEMMA AddsRemove ==
  ASSUME NEW S, IsFiniteSet(S), NEW g \in [S -> Nat], NEW h, Adds(h, g, S),
         NEW s \in SUBSET S, NEW y \in s
  PROVE  h[s] = g[y] + h[s \ {y}]
<1> DEFINE T == {n \in Nat : \A u \in SUBSET S : Cardinality(u) = n =>
                                \A z \in u : h[u] = g[z] + h[u \ {z}]}
<1>1. 0 \in T
  <2>1. \A u \in SUBSET S : Cardinality(u) = 0 => u = {}
    BY FS_Subset, FS_EmptySet
  <2> QED BY <2>1
<1>2. ASSUME NEW n \in Nat, n \in T PROVE n + 1 \in T
  <2> SUFFICES ASSUME NEW u \in SUBSET S, Cardinality(u) = n + 1, NEW z \in u
               PROVE  h[u] = g[z] + h[u \ {z}]
    OBVIOUS
  <2>1. PICK x \in u : h[u] = g[x] + h[u \ {x}]
    <3>1. OneOf(u) \in u
      BY DEF OneOf
    <3> QED BY <3>1 DEF Adds
  <2>2. CASE x = z
    BY <2>1, <2>2
  <2>3. CASE x # z
    <3>a. u \ {x} \in SUBSET S /\ Cardinality(u \ {x}) = n
      BY LessOne
    <3>b. u \ {z} \in SUBSET S /\ Cardinality(u \ {z}) = n
      BY LessOne
    <3>1. /\ u \ {x} \in SUBSET S /\ Cardinality(u \ {x}) = n /\ z \in u \ {x}
          /\ u \ {z} \in SUBSET S /\ Cardinality(u \ {z}) = n /\ x \in u \ {z}
      BY <2>3, <3>a, <3>b
    <3>2. /\ h[u \ {x}] = g[z] + h[(u \ {x}) \ {z}]
          /\ h[u \ {z}] = g[x] + h[(u \ {z}) \ {x}]
      BY <1>2, <3>1
    <3>3. (u \ {x}) \ {z} = (u \ {z}) \ {x} /\ (u \ {x}) \ {z} \in SUBSET S
      OBVIOUS
    <3>4. PICK a \in Nat, b \in Nat, r \in Nat :
            a = g[x] /\ b = g[z] /\ r = h[(u \ {x}) \ {z}]
      <4>1. x \in S /\ z \in S
        OBVIOUS
      <4>2. g[x] \in Nat /\ g[z] \in Nat /\ h[(u \ {x}) \ {z}] \in Nat
        BY <3>3, <4>1 DEF Adds
      <4> QED BY <4>2
    <3>5. h[u] = a + (b + r) /\ h[u \ {z}] = a + r
      BY <2>1, <3>2, <3>3, <3>4
    <3> QED BY <3>4, <3>5
  <2> QED BY <2>2, <2>3
<1>3. Cardinality(s) \in T
  <2>1. Nat \subseteq T
    <3> HIDE DEF T
    <3> QED BY <1>1, <1>2, Inductive
  <2>2. Cardinality(s) \in Nat
    BY FS_Subset, FS_CardinalityType
  <2> QED BY <2>1, <2>2
<1> QED BY <1>3

\* Of less, and of smaller ones, the sum is no greater.
LEMMA AddsLess ==
  ASSUME NEW S, NEW T, IsFiniteSet(T), S \subseteq T,
         NEW g \in [S -> Nat], NEW f \in [T -> Nat], \A x \in S : g[x] <= f[x],
         NEW h, Adds(h, g, S), NEW k, Adds(k, f, T)
  PROVE  h[S] <= k[T]
<1> DEFINE B == {n \in Nat : \A u \in SUBSET T : Cardinality(u) = n => h[u \cap S] <= k[u]}
<1>0. IsFiniteSet(S)
  BY FS_Subset
<1>1. 0 \in B
  <2>1. \A u \in SUBSET T : Cardinality(u) = 0 => u = {}
    BY FS_Subset, FS_EmptySet
  <2>2. h[{}] = 0 /\ k[{}] = 0
    BY DEF Adds
  <2>3. {} \cap S = {}
    OBVIOUS
  <2> QED BY <2>1, <2>2, <2>3
<1>2. ASSUME NEW n \in Nat, n \in B PROVE n + 1 \in B
  <2> SUFFICES ASSUME NEW u \in SUBSET T, Cardinality(u) = n + 1
               PROVE  h[u \cap S] <= k[u]
    OBVIOUS
  <2>1. PICK x \in u : TRUE
    BY FS_EmptySet
  <2>2. /\ u \ {x} \in SUBSET T /\ Cardinality(u \ {x}) = n
    BY LessOne
  <2>3. h[(u \ {x}) \cap S] <= k[u \ {x}]
    BY <1>2, <2>2
  <2>4. k[u] = f[x] + k[u \ {x}]
    BY AddsRemove
  <2>5. PICK a \in Nat, b \in Nat, c \in Nat :
          a = f[x] /\ b = k[u \ {x}] /\ c = h[(u \ {x}) \cap S]
    <3>1. (u \ {x}) \cap S \in SUBSET S /\ x \in T
      OBVIOUS
    <3>2. f[x] \in Nat /\ k[u \ {x}] \in Nat /\ h[(u \ {x}) \cap S] \in Nat
      BY <2>2, <3>1 DEF Adds
    <3> QED BY <3>2
  <2>6. CASE x \in S
    <3>1. u \cap S \in SUBSET S /\ x \in u \cap S /\ (u \cap S) \ {x} = (u \ {x}) \cap S
      BY <2>6
    <3>2. h[u \cap S] = g[x] + h[(u \ {x}) \cap S]
      BY <1>0, <3>1, AddsRemove
    <3>3. g[x] \in Nat /\ g[x] <= f[x]
      BY <2>6
    <3> QED BY <2>3, <2>4, <2>5, <3>2, <3>3
  <2>7. CASE x \notin S
    <3>1. u \cap S = (u \ {x}) \cap S
      BY <2>7
    <3> QED BY <2>3, <2>4, <2>5, <3>1
  <2> QED BY <2>6, <2>7
<1>3. Cardinality(T) \in B
  <2>1. Nat \subseteq B
    <3> HIDE DEF B
    <3> QED BY <1>1, <1>2, Inductive
  <2>2. Cardinality(T) \in Nat
    BY FS_CardinalityType
  <2> QED BY <2>1, <2>2
<1>4. T \cap S = S
  OBVIOUS
<1> QED BY <1>3, <1>4

\* The rule alone makes h a sum.
FollowsRule(h, g, S) ==
  h = [s \in SUBSET S |-> IF s = {} THEN 0 ELSE g[OneOf(s)] + h[s \ {OneOf(s)}]]
LEMMA RuleAdds ==
  ASSUME NEW S, IsFiniteSet(S), NEW g \in [S -> Nat], NEW h, FollowsRule(h, g, S)
  PROVE  Adds(h, g, S)
<1>1. PICK f : Adds(f, g, S)
  BY AddsExists
<1>2. \A s \in SUBSET S : h[s] = IF s = {} THEN 0 ELSE g[OneOf(s)] + h[s \ {OneOf(s)}]
  BY ZenonT(20) DEF FollowsRule
<1> DEFINE T == {n \in Nat : \A s \in SUBSET S : Cardinality(s) = n => h[s] = f[s]}
<1>3. 0 \in T
  <2>1. \A s \in SUBSET S : Cardinality(s) = 0 => s = {}
    BY FS_Subset, FS_EmptySet
  <2>2. {} \in SUBSET S
    OBVIOUS
  <2>3. h[{}] = 0 /\ f[{}] = 0
    BY <1>1, <1>2, <2>2 DEF Adds
  <2> QED BY <2>1, <2>3
<1>4. ASSUME NEW n \in Nat, n \in T PROVE n + 1 \in T
  <2> SUFFICES ASSUME NEW s \in SUBSET S, Cardinality(s) = n + 1 PROVE h[s] = f[s]
    OBVIOUS
  <2>1. s # {}
    BY FS_EmptySet
  <2>2. OneOf(s) \in s
    BY <2>1 DEF OneOf
  <2>3. s \ {OneOf(s)} \in SUBSET S /\ Cardinality(s \ {OneOf(s)}) = n
    BY <2>2, LessOne
  <2>4. h[s \ {OneOf(s)}] = f[s \ {OneOf(s)}]
    BY <1>4, <2>3
  <2>5. h[s] = g[OneOf(s)] + h[s \ {OneOf(s)}] /\ f[s] = g[OneOf(s)] + f[s \ {OneOf(s)}]
    BY <1>1, <1>2, <2>1 DEF Adds
  <2> QED BY <2>4, <2>5
<1>5. \A s \in SUBSET S : h[s] = f[s]
  <2>1. Nat \subseteq T
    <3> HIDE DEF T
    <3> QED BY <1>3, <1>4, Inductive
  <2>2. \A s \in SUBSET S : Cardinality(s) \in Nat
    BY FS_Subset, FS_CardinalityType
  <2> QED BY <2>1, <2>2
<1>6. h \in [SUBSET S -> Nat]
  <2>1. \A s \in SUBSET S : f[s] \in Nat
    BY <1>1 DEF Adds
  <2>2. h = [s \in SUBSET S |-> h[s]]
    BY DEF FollowsRule
  <2> QED BY <1>5, <2>1, <2>2
<1> QED BY <1>2, <1>6 DEF Adds

\* The sum of the values of a function on a finite part of its domain.
SumOver(g, S) == MapThenSumSet(LAMBDA x : g[x], S)

LEMMA SumAdds ==
  ASSUME NEW D, NEW g \in [D -> Nat], NEW S \in SUBSET D, IsFiniteSet(S)
  PROVE  \E h : Adds(h, [x \in S |-> g[x]], S) /\ SumOver(g, S) = h[S]
<1> DEFINE gS == [x \in S |-> g[x]]
           Rule(f) == [s \in SUBSET S |->
             IF s = {} THEN 0
             ELSE g[CHOOSE x \in s : TRUE] + f[s \ {CHOOSE x \in s : TRUE}]]
           h == CHOOSE f : f = Rule(f)
<1>1. SumOver(g, S) = h[S]
  BY DEF SumOver, MapThenSumSet, MapThenFoldSet
<1>2. gS \in [S -> Nat]
  OBVIOUS
<1>3. PICK f : Adds(f, gS, S)
  <2> HIDE DEF gS
  <2> QED BY <1>2, AddsExists
<1>4. f = Rule(f)
  <2>1. \A s \in SUBSET S : s # {} => gS[OneOf(s)] = g[OneOf(s)]
    BY DEF OneOf
  <2>2. f = [s \in SUBSET S |-> f[s]]
    BY <1>3 DEF Adds
  <2>3. \A s \in SUBSET S : f[s] = IF s = {} THEN 0 ELSE g[OneOf(s)] + f[s \ {OneOf(s)}]
    <3> HIDE DEF gS
    <3> QED BY <1>3, <2>1 DEF Adds
  <2>4. \A s \in SUBSET S : f[s] = Rule(f)[s]
    BY <2>3 DEF OneOf
  <2> QED BY <2>2, <2>4
<1>5. h = Rule(h)
  <2> HIDE DEF Rule
  <2> QED BY <1>4
<1>6. FollowsRule(h, gS, S)
  <2>1. \A s \in SUBSET S : s # {} => gS[OneOf(s)] = g[OneOf(s)]
    BY DEF OneOf
  <2> HIDE DEF h, gS
  <2> QED BY <1>5, <2>1 DEF FollowsRule, OneOf
<1>7. Adds(h, gS, S)
  <2> HIDE DEF h, gS
  <2> QED BY <1>2, <1>6, RuleAdds
<1> QED BY <1>1, <1>7

LEMMA SumOfNone ==
  ASSUME NEW D, NEW g \in [D -> Nat]
  PROVE  SumOver(g, {}) = 0
<1>1. IsFiniteSet({}) /\ {} \in SUBSET D
  BY FS_EmptySet
<1>2. PICK h : Adds(h, [x \in {} |-> g[x]], {}) /\ SumOver(g, {}) = h[{}]
  BY <1>1, SumAdds
<1> QED BY <1>2 DEF Adds

LEMMA SumType ==
  ASSUME NEW D, NEW g \in [D -> Nat], NEW S \in SUBSET D, IsFiniteSet(S)
  PROVE  SumOver(g, S) \in Nat
<1>1. PICK h : Adds(h, [x \in S |-> g[x]], S) /\ SumOver(g, S) = h[S]
  BY SumAdds
<1> QED BY <1>1 DEF Adds

\* The sum over part of a set, of smaller values, is no greater.
LEMMA SumOfLess ==
  ASSUME NEW D, NEW g \in [D -> Nat], NEW S \in SUBSET D,
         NEW E, NEW f \in [E -> Nat], NEW T \in SUBSET E, IsFiniteSet(T),
         S \subseteq T, \A x \in S : g[x] <= f[x]
  PROVE  SumOver(g, S) <= SumOver(f, T)
<1> DEFINE gS == [x \in S |-> g[x]]
           fT == [x \in T |-> f[x]]
<1>1. IsFiniteSet(S)
  BY FS_Subset
<1>2. PICK h : Adds(h, gS, S) /\ SumOver(g, S) = h[S]
  BY <1>1, SumAdds
<1>3. PICK k : Adds(k, fT, T) /\ SumOver(f, T) = k[T]
  BY SumAdds
<1>4. gS \in [S -> Nat] /\ fT \in [T -> Nat] /\ \A x \in S : gS[x] <= fT[x]
  OBVIOUS
<1> HIDE DEF gS, fT
<1>5. h[S] <= k[T]
  BY <1>2, <1>3, <1>4, AddsLess
<1> QED BY <1>2, <1>3, <1>5

LEMMA SumOfSame ==
  ASSUME NEW D, NEW g \in [D -> Nat], NEW S \in SUBSET D, IsFiniteSet(S),
         NEW E, NEW f \in [E -> Nat], S \subseteq E, \A x \in S : g[x] = f[x]
  PROVE  SumOver(g, S) = SumOver(f, S)
<1>1. \A x \in S : g[x] <= f[x] /\ f[x] <= g[x]
  OBVIOUS
<1>2. SumOver(g, S) <= SumOver(f, S)
  BY <1>1, SumOfLess
<1>3. SumOver(f, S) <= SumOver(g, S)
  BY <1>1, SumOfLess
<1>4. SumOver(g, S) \in Nat /\ SumOver(f, S) \in Nat
  BY SumType
<1> QED BY <1>2, <1>3, <1>4

LEMMA SumWithOneMore ==
  ASSUME NEW D, NEW g \in [D -> Nat], NEW S \in SUBSET D, IsFiniteSet(S),
         NEW y \in D \ S
  PROVE  SumOver(g, S \cup {y}) = SumOver(g, S) + g[y]
<1> DEFINE U == S \cup {y}
           gU == [x \in U |-> g[x]]
           gS == [x \in S |-> g[x]]
<1>1. IsFiniteSet(U) /\ U \in SUBSET D
  BY FS_AddElement
<1>2. PICK h : Adds(h, gU, U) /\ SumOver(g, U) = h[U]
  <2> HIDE DEF U
  <2> QED BY <1>1, SumAdds
<1>3. gU \in [U -> Nat] /\ gU[y] = g[y] /\ y \in U /\ U \in SUBSET U /\ U \ {y} = S
  OBVIOUS
<1>4. h[U] = g[y] + h[S]
  <2> HIDE DEF U, gU
  <2>1. h[U] = gU[y] + h[U \ {y}]
    BY <1>1, <1>2, <1>3, AddsRemove
  <2> QED BY <1>3, <2>1
<1>5. PICK k : Adds(k, gS, S) /\ SumOver(g, S) = k[S]
  BY SumAdds
<1> DEFINE hS == [s \in SUBSET S |-> h[s]]
<1>6. Adds(hS, gS, S)
  <2>1. hS \in [SUBSET S -> Nat]
    BY <1>2 DEF Adds
  <2>2. ASSUME NEW s \in SUBSET S
        PROVE  hS[s] = IF s = {} THEN 0 ELSE gS[OneOf(s)] + hS[s \ {OneOf(s)}]
    <3>1. h[s] = IF s = {} THEN 0 ELSE gU[OneOf(s)] + h[s \ {OneOf(s)}]
      <4>1. s \in SUBSET U
        OBVIOUS
      <4> HIDE DEF U, gU
      <4> QED BY <1>2, <4>1 DEF Adds
    <3>2. s # {} => gU[OneOf(s)] = g[OneOf(s)] /\ gS[OneOf(s)] = g[OneOf(s)]
      BY DEF OneOf
    <3>3. hS[s] = h[s] /\ hS[s \ {OneOf(s)}] = h[s \ {OneOf(s)}]
      OBVIOUS
    <3> HIDE DEF hS, gS, gU
    <3> QED BY <3>1, <3>2, <3>3
  <2> HIDE DEF hS, gS
  <2> QED BY <2>1, <2>2 DEF Adds
<1>7. hS[S] <= k[S] /\ k[S] <= hS[S]
  <2>1. gS \in [S -> Nat] /\ \A x \in S : gS[x] <= gS[x]
    OBVIOUS
  <2> HIDE DEF hS, gS
  <2> QED BY <1>5, <1>6, <2>1, AddsLess
<1>8. hS[S] = h[S] /\ hS[S] \in Nat /\ k[S] \in Nat
  BY <1>2, <1>5 DEF Adds
<1>9. g[y] \in Nat
  OBVIOUS
<1> QED
  <2> HIDE DEF hS, gS, gU
  <2> QED BY <1>2, <1>4, <1>5, <1>7, <1>8, <1>9

-----------------------------------------------------------------------------
(* Division. *)

\* A number is a multiple of its divisor and a remainder.
LEMMA Division ==
  ASSUME NEW a \in Nat, NEW d \in Nat \ {0}
  PROVE  \E q \in Nat : a = d * q + (a % d) /\ a % d \in 0 .. d - 1
<1>1. a = d * (a \div d) + (a % d) /\ a % d \in 0 .. d - 1 /\ a \div d \in Int
  OBVIOUS
<1>2. a \div d \in Nat
  <2>1. PICK q \in Int : q = a \div d
    BY <1>1
  <2>2. PICK r \in 0 .. d - 1 : r = a % d
    BY <1>1
  <2>3. a = d * q + r
    BY <1>1, <2>1, <2>2
  <2>4. q < 0 => d * q <= -d
    <3>1. ASSUME q < 0 PROVE d * q <= -d
      <4>1. PICK p \in Nat : p = -q - 1
        BY <3>1
      <4>2. d * p >= 0
        OBVIOUS
      <4>3. d * q = -(d * p) - d
        BY <4>1
      <4> QED BY <4>2, <4>3
    <3> QED BY <3>1
  <2> QED BY <2>1, <2>2, <2>3, <2>4
<1> QED BY <1>1, <1>2

\* There is but one such remainder.
LEMMA Remainder ==
  ASSUME NEW d \in Nat \ {0}, NEW q \in Nat, NEW r \in 0 .. d - 1
  PROVE  (d * q + r) % d = r
<1>1. PICK a \in Nat : a = d * q + r
  <2>1. d * q \in Nat
    OBVIOUS
  <2> QED BY <2>1
<1>2. PICK p \in Nat : a = d * p + (a % d) /\ a % d \in 0 .. d - 1
  BY Division
<1>3. PICK s \in 0 .. d - 1 : s = a % d
  BY <1>2
<1>4. d * q + r = d * p + s
  BY <1>1, <1>2, <1>3
<1>5. CASE p = q
  <2>1. PICK x \in Int : x = d * q /\ x = d * p
    BY <1>5
  <2> QED BY <1>1, <1>3, <1>4, <2>1
<1>6. CASE p < q
  <2>1. PICK e \in Nat : q = p + 1 + e
    <3>1. q - p - 1 \in Nat /\ q = p + 1 + (q - p - 1)
      BY <1>6
    <3> QED BY <3>1
  <2>2. d * q = d * p + d + d * e /\ d * e \in Nat
    BY <2>1
  <2>3. PICK x \in Nat, y \in Nat, z \in Nat : x = d * q /\ y = d * p /\ z = d * e
    <3>1. d * q \in Nat /\ d * p \in Nat /\ d * e \in Nat
      OBVIOUS
    <3> QED BY <3>1
  <2> QED BY <1>4, <2>2, <2>3
<1>7. CASE q < p
  <2>1. PICK e \in Nat : p = q + 1 + e
    <3>1. p - q - 1 \in Nat /\ p = q + 1 + (p - q - 1)
      BY <1>7
    <3> QED BY <3>1
  <2>2. d * p = d * q + d + d * e /\ d * e \in Nat
    BY <2>1
  <2>3. PICK x \in Nat, y \in Nat, z \in Nat : x = d * p /\ y = d * q /\ z = d * e
    <3>1. d * q \in Nat /\ d * p \in Nat /\ d * e \in Nat
      OBVIOUS
    <3> QED BY <3>1
  <2> QED BY <1>4, <2>2, <2>3
<1> QED BY <1>5, <1>6, <1>7

-----------------------------------------------------------------------------
(* Sums and folds over finite sets. *)

\* Induction over the parts of a finite set: P is a set of sets.
LEMMA FiniteInduction ==
  ASSUME NEW U, IsFiniteSet(U), NEW P, {} \in P,
         \A s \in SUBSET U : s \in P => \A x \in U \ s : s \cup {x} \in P
  PROVE  SUBSET U \subseteq P
<1> DEFINE T == {n \in Nat : \A s \in SUBSET U : Cardinality(s) = n => s \in P}
<1>1. 0 \in T
  <2>1. \A s \in SUBSET U : Cardinality(s) = 0 => s = {}
    BY FS_Subset, FS_EmptySet
  <2> QED BY <2>1
<1>2. ASSUME NEW n \in Nat, n \in T PROVE n + 1 \in T
  <2> SUFFICES ASSUME NEW s \in SUBSET U, Cardinality(s) = n + 1 PROVE s \in P
    OBVIOUS
  <2>1. s # {}
    BY FS_EmptySet
  <2>2. PICK x \in s : TRUE
    BY <2>1
  <2>3. Cardinality(s \ {x}) = n
    <3>1. Cardinality(s \ {x}) = Cardinality(s) - 1
      BY <2>2, LessOne
    <3> QED BY <3>1
  <2>4. s \ {x} \in P
    BY <1>2, <2>3
  <2>5. (s \ {x}) \cup {x} = s /\ x \in U \ (s \ {x}) /\ s \ {x} \in SUBSET U
    BY <2>2
  <2>6. (s \ {x}) \cup {x} \in P
    BY <2>4, <2>5
  <2> QED BY <2>5, <2>6
<1>3. Nat \subseteq T
  <2> HIDE DEF T
  <2> QED BY <1>1, <1>2, Inductive
<1>4. \A s \in SUBSET U : Cardinality(s) \in Nat
  BY FS_Subset, FS_CardinalityType
<1> QED BY <1>3, <1>4

\* The sum over two sets that have nothing in common.
LEMMA SumOfUnion ==
  ASSUME NEW D, NEW g \in [D -> Nat], NEW S \in SUBSET D, IsFiniteSet(S),
         NEW T \in SUBSET D, IsFiniteSet(T), S \cap T = {}
  PROVE  SumOver(g, S \cup T) = SumOver(g, S) + SumOver(g, T)
<1> DEFINE P == {t \in SUBSET T : SumOver(g, S \cup t) = SumOver(g, S) + SumOver(g, t)}
<1>1. {} \in P
  <2>1. S \cup {} = S /\ SumOver(g, {}) = 0
    BY SumOfNone
  <2>2. SumOver(g, S) \in Nat
    BY SumType
  <2> QED BY <2>1, <2>2
<1>2. ASSUME NEW t \in SUBSET T, t \in P, NEW x \in T \ t PROVE t \cup {x} \in P
  <2>1. IsFiniteSet(t) /\ t \in SUBSET D /\ x \in D \ t
    BY FS_Subset
  <2>2. IsFiniteSet(S \cup t) /\ S \cup t \in SUBSET D /\ x \in D \ (S \cup t)
    BY <2>1, FS_Union
  <2>3. SumOver(g, t \cup {x}) = SumOver(g, t) + g[x]
    BY <2>1, SumWithOneMore
  <2>4. SumOver(g, (S \cup t) \cup {x}) = SumOver(g, S \cup t) + g[x]
    BY <2>2, SumWithOneMore
  <2>5. (S \cup t) \cup {x} = S \cup (t \cup {x})
    OBVIOUS
  <2>6. SumOver(g, S) \in Nat /\ SumOver(g, t) \in Nat /\ g[x] \in Nat
    BY <2>1, SumType
  <2>7. SumOver(g, S \cup t) = SumOver(g, S) + SumOver(g, t)
    BY <1>2
  <2>8. SumOver(g, S \cup (t \cup {x})) = SumOver(g, S) + SumOver(g, t \cup {x})
    <3>1. PICK a \in Nat, b \in Nat, c \in Nat :
            a = SumOver(g, S) /\ b = SumOver(g, t) /\ c = g[x]
      BY <2>6
    <3>2. (a + b) + c = a + (b + c)
      OBVIOUS
    <3> QED BY <2>3, <2>4, <2>5, <2>7, <3>1, <3>2
  <2> QED BY <2>8
<1>3. SUBSET T \subseteq P
  <2> HIDE DEF P
  <2> QED BY <1>1, <1>2, FiniteInduction
<1>4. T \in P
  <2> HIDE DEF P
  <2> QED BY <1>3
<1> QED BY <1>4

\* What b names the elements of S.
Names(b, S) == {b[x] : x \in S}

\* b gives each element of S another name in E, of the same value.
Renames(b, S, g, E, h) ==
  /\ IsFiniteSet(S) /\ g \in [S -> Nat] /\ h \in [E -> Nat] /\ b \in [S -> E]
  /\ \A x, y \in S : b[x] = b[y] => x = y
  /\ \A x \in S : g[x] = h[b[x]]

\* The sum does not change when its terms are told apart by other names.
LEMMA SumRenamed ==
  ASSUME NEW S, NEW g, NEW E, NEW h, NEW b, Renames(b, S, g, E, h)
  PROVE  SumOver(g, S) = SumOver(h, Names(b, S))
<1> USE DEF Renames, Names
<1> DEFINE Im(s) == {b[x] : x \in s}
           P == {s \in SUBSET S : SumOver(g, s) = SumOver(h, Im(s))}
<1>1. {} \in P
  <2>1. Im({}) = {}
    OBVIOUS
  <2>2. SumOver(g, {}) = 0 /\ SumOver(h, {}) = 0
    BY SumOfNone
  <2> HIDE DEF Im
  <2> QED BY <2>1, <2>2
<1>2. ASSUME NEW s \in SUBSET S, s \in P, NEW x \in S \ s PROVE s \cup {x} \in P
  <2>1. IsFiniteSet(s) /\ s \in SUBSET S /\ x \in S \ s
    BY FS_Subset
  <2>2. IsFiniteSet(Im(s)) /\ Im(s) \in SUBSET E
    <3>1. IsFiniteSet({b[y] : y \in s})
      <4>1. [y \in s |-> b[y]] \in Surjection(s, {b[y] : y \in s})
        BY DEF Surjection
      <4> QED BY <2>1, <4>1, FS_Surjection
    <3> QED BY <3>1
  <2>3. b[x] \in E \ Im(s)
    OBVIOUS
  <2>4. Im(s \cup {x}) = Im(s) \cup {b[x]}
    OBVIOUS
  <2> HIDE DEF Im
  <2>5. SumOver(g, s \cup {x}) = SumOver(g, s) + g[x]
    BY <2>1, SumWithOneMore
  <2>6. SumOver(h, Im(s) \cup {b[x]}) = SumOver(h, Im(s)) + h[b[x]]
    BY <2>2, <2>3, SumWithOneMore
  <2>7. g[x] = h[b[x]] /\ SumOver(g, s) = SumOver(h, Im(s))
    BY <1>2
  <2>8. s \cup {x} \in SUBSET S
    OBVIOUS
  <2> QED BY <2>4, <2>5, <2>6, <2>7, <2>8
<1>3. SUBSET S \subseteq P
  <2> HIDE DEF P
  <2> QED BY <1>1, <1>2, FiniteInduction
<1>4. S \in P
  <2> HIDE DEF P
  <2> QED BY <1>3
<1> QED BY <1>4

\* h gives every part of S its value by steps that take out one element each, the
\* one that pick names.
FoldsBy(h, b, St, pick, S) ==
  \A s \in SUBSET S : h[s] = IF s = {} THEN b ELSE St[pick[s]][h[s \ {pick[s]}]]

\* The values are in V, and each step takes one to another.
Foldable(S, V, b, St, pick) ==
  /\ IsFiniteSet(S) /\ b \in V /\ St \in [S -> [V -> V]]
  /\ pick \in [SUBSET S -> S \cup {S}]
  /\ \A s \in SUBSET S : s # {} => pick[s] \in s

\* Then there is such a function.
LEMMA SetRecursion ==
  ASSUME NEW S, NEW V, NEW b, NEW St, NEW pick, Foldable(S, V, b, St, pick)
  PROVE  \E h \in [SUBSET S -> V] : FoldsBy(h, b, St, pick, S)
<1> USE DEF Foldable
<1> DEFINE Upto(m) == {s \in SUBSET S : Cardinality(s) <= m}
           Good(h, m) ==
             /\ h \in [Upto(m) -> V]
             /\ \A s \in Upto(m) : h[s] = IF s = {} THEN b ELSE St[pick[s]][h[s \ {pick[s]}]]
           T == {m \in Nat : \E h : Good(h, m)}
<1>1. 0 \in T
  <2> DEFINE h == [s \in Upto(0) |-> b]
  <2>1. \A s \in Upto(0) : s = {}
    BY FS_Subset, FS_EmptySet, FS_CardinalityType
  <2>2. Good(h, 0)
    BY <2>1
  <2> QED BY <2>2
<1>2. ASSUME NEW n \in Nat, n \in T PROVE n + 1 \in T
  <2>1. PICK f : Good(f, n)
    BY <1>2
  <2> DEFINE h == [s \in Upto(n + 1) |-> IF s = {} THEN b ELSE St[pick[s]][f[s \ {pick[s]}]]]
  <2>2. ASSUME NEW s \in Upto(n + 1), s # {}
        PROVE  /\ pick[s] \in S /\ s \ {pick[s]} \in Upto(n) /\ s \ {pick[s]} \in Upto(n + 1)
    <3>1. pick[s] \in s /\ s \in SUBSET S
      BY <2>2
    <3>2. /\ s \ {pick[s]} \in SUBSET S
          /\ Cardinality(s) \in Nat /\ Cardinality(s \ {pick[s]}) \in Nat
          /\ Cardinality(s \ {pick[s]}) = Cardinality(s) - 1
      BY <3>1, LessOne
    <3>3. Cardinality(s) <= n + 1
      OBVIOUS
    <3> QED BY <3>1, <3>2, <3>3
  <2>3. h \in [Upto(n + 1) -> V]
    <3>1. \A s \in Upto(n + 1) : s # {} => f[s \ {pick[s]}] \in V
      BY <2>1, <2>2
    <3> HIDE DEF Upto, h
    <3>2. \A s \in Upto(n + 1) : s # {} => St[pick[s]][f[s \ {pick[s]}]] \in V
      <4> SUFFICES ASSUME NEW s \in Upto(n + 1), s # {}
                   PROVE  St[pick[s]][f[s \ {pick[s]}]] \in V
        OBVIOUS
      <4>1. PICK v \in V : v = f[s \ {pick[s]}]
        BY <3>1
      <4>2. PICK p \in S : p = pick[s]
        BY <2>2
      <4>3. St[p][v] \in V
        OBVIOUS
      <4> QED BY <4>1, <4>2, <4>3
    <3> USE DEF h
    <3> QED BY <3>2
  <2>4. ASSUME NEW s \in Upto(n) PROVE s \in Upto(n + 1) /\ h[s] = f[s]
    <3>1. Cardinality(s) <= n /\ s \in SUBSET S /\ Cardinality(s) \in Nat
      BY FS_Subset, FS_CardinalityType
    <3>2. s \in Upto(n + 1)
      BY <3>1
    <3>3. f[s] = IF s = {} THEN b ELSE St[pick[s]][f[s \ {pick[s]}]]
      BY <2>1
    <3> HIDE DEF Upto
    <3> QED BY <3>2, <3>3
  <2>5. ASSUME NEW s \in Upto(n + 1)
        PROVE  h[s] = IF s = {} THEN b ELSE St[pick[s]][h[s \ {pick[s]}]]
    <3>1. CASE s = {}
      BY <3>1
    <3>2. CASE s # {}
      <4>1. h[s \ {pick[s]}] = f[s \ {pick[s]}]
        BY <2>2, <2>4, <3>2
      <4> QED BY <3>2, <4>1
    <3> QED BY <3>1, <3>2
  <2>6. Good(h, n + 1)
    <3> HIDE DEF h, Upto
    <3> QED BY <2>3, <2>5
  <2>7. \E k : Good(k, n + 1)
    <3> HIDE DEF h, Good
    <3> QED BY <2>6
  <2> HIDE DEF Good
  <2> QED BY <2>7
<1>3. Nat \subseteq T
  <2> HIDE DEF T
  <2> QED BY <1>1, <1>2, Inductive
<1>4. Cardinality(S) \in Nat
  BY FS_CardinalityType
<1>5. PICK h : Good(h, Cardinality(S))
  BY <1>3, <1>4
<1>6. Upto(Cardinality(S)) = SUBSET S
  BY FS_Subset
<1> QED BY <1>5, <1>6 DEF FoldsBy

\* A function that follows the rule ends in the sum, and one does.
LEMMA RuleSum ==
  ASSUME NEW S, IsFiniteSet(S), NEW g \in [S -> Nat]
  PROVE  /\ \E h : FollowsRule(h, g, S)
         /\ \A h : FollowsRule(h, g, S) => h[S] = SumOver(g, S)
<1>1. S \in SUBSET S /\ [x \in S |-> g[x]] = g
  OBVIOUS
<1>2. PICK a : Adds(a, g, S) /\ SumOver(g, S) = a[S]
  <2>1. PICK a : Adds(a, [x \in S |-> g[x]], S) /\ SumOver(g, S) = a[S]
    BY <1>1, SumAdds
  <2> QED BY <1>1, <2>1
<1>3. FollowsRule(a, g, S)
  <2>1. a = [s \in SUBSET S |-> a[s]]
    BY <1>2 DEF Adds
  <2> QED BY <1>2, <2>1 DEF Adds, FollowsRule
<1>4. ASSUME NEW h, FollowsRule(h, g, S) PROVE h[S] = SumOver(g, S)
  <2>1. Adds(h, g, S)
    BY <1>4, RuleAdds
  <2>2. \A x \in S : g[x] <= g[x]
    OBVIOUS
  <2>3. h[S] <= a[S] /\ a[S] <= h[S]
    BY <1>1, <1>2, <2>1, <2>2, AddsLess
  <2>4. h[S] \in Nat /\ a[S] \in Nat
    BY <1>1, <1>2, <2>1 DEF Adds
  <2> QED BY <1>2, <2>3, <2>4
<1> QED BY <1>3, <1>4

\* Another name for each element changes no count.
LEMMA ImageCount ==
  ASSUME NEW S, IsFiniteSet(S), NEW b, \A x, y \in S : b[x] = b[y] => x = y
  PROVE  /\ IsFiniteSet({b[x] : x \in S})
         /\ Cardinality({b[x] : x \in S}) = Cardinality(S)
<1> DEFINE c == [x \in S |-> b[x]]
           T == {b[x] : x \in S}
<1>1. c \in Bijection(S, T)
  BY DEF Bijection, Injection, Surjection, IsInjective
<1>2. ExistsBijection(S, T)
  BY <1>1 DEF ExistsBijection
<1> HIDE DEF c, T
<1>3. IsFiniteSet(T) /\ Cardinality(T) = Cardinality(S)
  BY <1>2, FS_Bijection
<1> QED BY <1>3 DEF T

\* How many two sets have that have nothing in common.
LEMMA TogetherCount ==
  ASSUME NEW S, IsFiniteSet(S), NEW T, IsFiniteSet(T), S \cap T = {}
  PROVE  /\ Cardinality(S) \in Nat /\ Cardinality(T) \in Nat
         /\ Cardinality(S \cup T) = Cardinality(S) + Cardinality(T)
<1>1. Cardinality(S) \in Nat /\ Cardinality(T) \in Nat
  BY FS_CardinalityType
<1>2. Cardinality(S \cup T) = Cardinality(S) + Cardinality(T) - Cardinality(S \cap T)
  BY FS_Union
<1>3. Cardinality(S \cap T) = 0
  BY FS_EmptySet
<1> QED BY <1>1, <1>2, <1>3

\* A set with one more counts one more.
LEMMA CountWithOneMore ==
  ASSUME NEW S, IsFiniteSet(S), NEW x, x \notin S
  PROVE  Cardinality(S \cup {x}) = Cardinality(S) + 1 /\ Cardinality(S) \in Nat
BY FS_AddElement, FS_CardinalityType

\* The least of numbers is the one that none is below.
LEMMA LeastIs ==
  ASSUME NEW S \in SUBSET Int, NEW x \in S, \A y \in S : x <= y
  PROVE  Min(S) = x
<1>1. \A z \in S : (\A y \in S : z <= y) => z = x
  OBVIOUS
<1> QED BY <1>1 DEF Min

\* The greatest is the one that none is above.
LEMMA GreatestIs ==
  ASSUME NEW S \in SUBSET Int, NEW x \in S, \A y \in S : y <= x
  PROVE  Max(S) = x
<1>1. \A z \in S : (\A y \in S : z >= y) => z = x
  OBVIOUS
<1>2. \A y \in S : x >= y
  OBVIOUS
<1> QED BY <1>1, <1>2 DEF Max

\* The greatest of the first numbers.
LEMMA LastOf ==
  ASSUME NEW m \in Nat
  PROVE  Max(1 .. m + 1) = m + 1 /\ (1 .. m + 1) \ {m + 1} = 1 .. m /\ 1 .. m + 1 # {}
<1>1. m + 1 \in 1 .. m + 1 /\ \A x \in 1 .. m + 1 : m + 1 >= x
  OBVIOUS
<1>2. \A x \in 1 .. m + 1 : (\A y \in 1 .. m + 1 : x >= y) => x = m + 1
  OBVIOUS
<1>3. Max(1 .. m + 1) = m + 1
  BY <1>1, <1>2 DEF Max
<1>4. (1 .. m + 1) \ {m + 1} = 1 .. m
  OBVIOUS
<1> QED BY <1>1, <1>3, <1>4

\* A set of numbers that is not empty has a greatest.
LEMMA GreatestOf ==
  ASSUME NEW m \in Nat, NEW S \in SUBSET (1 .. m), S # {}
  PROVE  Max(S) \in S
<1> DEFINE T == {k \in 0 .. m : m - k \in S}
<1>1. T # {}
  <2>1. PICK x \in S : TRUE
    OBVIOUS
  <2>2. m - x \in 0 .. m /\ m - (m - x) = x
    OBVIOUS
  <2> QED BY <2>2
<1>2. PICK k \in T : \A l \in T : k <= l
  <2>1. T \subseteq Nat
    OBVIOUS
  <2> HIDE DEF T
  <2> QED BY <1>1, <2>1, LeastNumber
<1>3. \A y \in S : m - k >= y
  <2> TAKE y \in S
  <2>1. m - y \in T
    <3>1. m - y \in 0 .. m /\ m - (m - y) = y
      OBVIOUS
    <3> QED BY <3>1
  <2>2. k <= m - y
    BY <1>2, <2>1
  <2> QED BY <2>2
<1>4. m - k \in S
  OBVIOUS
<1> QED BY <1>3, <1>4 DEF Max
=============================================================================
