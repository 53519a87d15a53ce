-------------------------------- MODULE Sums --------------------------------
(***************************************************************************)
(* Sums over finite sets: the facts about SumFunctionOnSet that proofs     *)
(* about balances need.  The induction theorems of the library take a      *)
(* predicate, which no prover here can instantiate; with a set in place of *)
(* the predicate, and the minimal elements that WFMin gives, induction is  *)
(* a first-order fact.                                                     *)
(***************************************************************************)
EXTENDS FiniteSetTheorems, Functions, TLAPS

\* A set of natural numbers that contains 0 and every successor has them all.
LEMMA NatInductionSet ==
    ASSUME NEW P, 0 \in P, \A n \in Nat : n \in P => n + 1 \in P
    PROVE  Nat \subseteq P
<1> SUFFICES ASSUME Nat \ P # {} PROVE FALSE
  OBVIOUS
<1> DEFINE Less == OpToRel(<, Nat)
<1>1. PICK n \in Nat \ P : \A m \in Nat \ P : ~(<<m, n>> \in Less)
  <2>1. IsWellFoundedOn(Less, Nat)
    BY NatLessThanWellFounded
  <2> HIDE DEF Less
  <2> QED BY <2>1, WFMin
<1>2. \A m \in Nat : m < n => <<m, n>> \in Less
  BY DEF OpToRel
<1> HIDE DEF Less
<1>3. n # 0 /\ n - 1 \in Nat /\ n - 1 < n /\ (n - 1) + 1 = n
  OBVIOUS
<1>4. n - 1 \in P
  BY <1>1, <1>2, <1>3
<1> QED BY <1>3, <1>4

\* A set that contains a subset of S whenever it contains that subset without any
\* one of its elements, and so contains the empty set, contains S.
LEMMA SetInductionSet ==
    ASSUME NEW S, IsFiniteSet(S), NEW P,
           \A T \in SUBSET S : (\A x \in T : T \ {x} \in P) => T \in P
    PROVE  S \in P
<1> SUFFICES ASSUME S \notin P PROVE FALSE
  OBVIOUS
<1> DEFINE Smaller == StrictSubsetOrdering(S)
           Bad == (SUBSET S) \ P
<1>1. PICK T \in Bad : \A U \in Bad : ~(<<U, T>> \in Smaller)
  <2>1. IsWellFoundedOn(Smaller, SUBSET S)
    <3>1. IsWellFoundedOn(Smaller, FiniteSubsetsOf(S))
      BY FS_StrictSubsetOrderingWellFounded
    <3>2. FiniteSubsetsOf(S) = SUBSET S
      BY FS_FiniteSubsetsOfFinite
    <3> HIDE DEF Smaller
    <3> QED BY <3>1, <3>2
  <2>2. Bad \subseteq SUBSET S /\ Bad # {}
    OBVIOUS
  <2> HIDE DEF Smaller, Bad
  <2> QED BY <2>1, <2>2, WFMin
<1>2. PICK x \in T : T \ {x} \notin P
  OBVIOUS
<1>3. <<T \ {x}, T>> \in Smaller /\ T \ {x} \in Bad
  BY <1>2 DEF StrictSubsetOrdering
<1> HIDE DEF Smaller, Bad
<1> QED BY <1>1, <1>3

\* The function that SumFunctionOnSet chooses
Adds(f, S, g) ==
    g = [s \in SUBSET S |->
           IF s = {} THEN 0
           ELSE f[CHOOSE x \in s : TRUE] + g[s \ {CHOOSE x \in s : TRUE}]]

\* What a sum is by definition.
LEMMA SumUnfolded ==
    ASSUME NEW f, NEW S PROVE SumFunctionOnSet(f, S) = (CHOOSE g : Adds(f, S, g))[S]
BY Zenon DEF SumFunctionOnSet, FoldFunctionOnSet, MapThenFoldSet, Adds

\* There is such a function.
LEMMA SumDefined ==
    ASSUME NEW f, NEW S, IsFiniteSet(S)
    PROVE  Adds(f, S, CHOOSE g : Adds(f, S, g))
<1> DEFINE First(s) == CHOOSE x \in s : TRUE
           Next(g, s) == IF s = {} THEN 0 ELSE f[First(s)] + g[s \ {First(s)}]
           UpTo(n, g) == \A s \in SUBSET S : Cardinality(s) <= n => g[s] = Next(g, s)
           P == {n \in Nat : \E g : g = [s \in SUBSET S |-> g[s]] /\ UpTo(n, g)}
<1>1. \A s \in SUBSET S : s # {} =>
         First(s) \in s /\ Cardinality(s \ {First(s)}) = Cardinality(s) - 1
  <2> SUFFICES ASSUME NEW s \in SUBSET S, s # {}
               PROVE  First(s) \in s /\ Cardinality(s \ {First(s)}) = Cardinality(s) - 1
    OBVIOUS
  <2>1. IsFiniteSet(s) /\ First(s) \in s
    BY FS_Subset
  <2> HIDE DEF First
  <2> QED BY <2>1, FS_RemoveElement
<1>2. \A s \in SUBSET S : Cardinality(s) \in Nat /\ (Cardinality(s) = 0 <=> s = {})
  BY FS_Subset, FS_CardinalityType, FS_EmptySet
<1> HIDE DEF First
<1>3. 0 \in P
  <2> DEFINE g == [s \in SUBSET S |-> 0]
  <2>1. UpTo(0, g)
    BY <1>2
  <2> QED BY <2>1
<1>4. ASSUME NEW n \in Nat, n \in P PROVE n + 1 \in P
  <2>1. PICK g : g = [s \in SUBSET S |-> g[s]] /\ UpTo(n, g)
    BY <1>4
  <2> DEFINE h == [s \in SUBSET S |-> Next(g, s)]
  <2>2. ASSUME NEW s \in SUBSET S, Cardinality(s) <= n + 1 PROVE h[s] = Next(h, s)
    <3>1. CASE s = {}
      BY <3>1
    <3>2. CASE s # {}
      <4> DEFINE t == s \ {First(s)}
      <4>1. t \in SUBSET S /\ Cardinality(t) <= n
        BY <1>1, <1>2, <2>2, <3>2
      <4>2. h[t] = g[t]
        BY <2>1, <4>1
      <4>3. h[s] = f[First(s)] + g[t] /\ Next(h, s) = f[First(s)] + h[t]
        BY <3>2
      <4> HIDE DEF Next, h, t
      <4> QED BY <4>2, <4>3
    <3> QED BY <3>1, <3>2
  <2>3. h = [s \in SUBSET S |-> h[s]]
    OBVIOUS
  <2> HIDE DEF h, Next
  <2>4. \E k : k = [s \in SUBSET S |-> k[s]] /\ UpTo(n + 1, k)
    BY <2>2, <2>3
  <2> HIDE DEF UpTo
  <2> QED BY <2>4
<1>5. Cardinality(S) \in P
  <2>1. Nat \subseteq P
    <3> HIDE DEF P
    <3> QED BY <1>3, <1>4, NatInductionSet
  <2> QED BY <1>2, <2>1
<1>6. PICK g : g = [s \in SUBSET S |-> g[s]] /\ UpTo(Cardinality(S), g)
  BY <1>5
<1>7. \A s \in SUBSET S : g[s] = Next(g, s)
  BY <1>6, FS_Subset
<1>8. g = [s \in SUBSET S |-> Next(g, s)]
  BY <1>6, <1>7
<1>9. Adds(f, S, g)
  BY <1>8 DEF Adds, First
<1> QED BY <1>9

\* Functions that add the same values have the same sums.
LEMMA SumUnique ==
    ASSUME NEW f, NEW S, NEW g, Adds(f, S, g), NEW h, NEW U, NEW k, Adds(h, U, k),
           NEW T \in SUBSET S, T \in SUBSET U, IsFiniteSet(T), \A x \in T : f[x] = h[x]
    PROVE  g[T] = k[T]
<1> DEFINE P == {V \in SUBSET T : g[V] = k[V]}
<1>1. ASSUME NEW V \in SUBSET T, \A x \in V : V \ {x} \in P PROVE V \in P
  <2> DEFINE c == CHOOSE x \in V : TRUE
  <2>1. CASE V # {}
    <3>1. c \in V
      BY <2>1
    <3>2. V \in SUBSET S /\ V \in SUBSET U
      OBVIOUS
    <3>3. g[V] = f[c] + g[V \ {c}] /\ k[V] = h[c] + k[V \ {c}]
      BY <2>1, <3>2 DEF Adds
    <3> HIDE DEF c
    <3>4. g[V \ {c}] = k[V \ {c}] /\ f[c] = h[c]
      BY <1>1, <3>1
    <3> QED BY <3>3, <3>4
  <2>2. CASE V = {}
    BY <2>2 DEF Adds
  <2> QED BY <2>1, <2>2
<1> HIDE DEF P
<1>2. T \in P
  BY <1>1, SetInductionSet
<1> QED BY <1>2 DEF P

\* The sum over no element.
LEMMA SumEmpty ==
    ASSUME NEW f PROVE SumFunctionOnSet(f, {}) = 0
<1>1. Adds(f, {}, CHOOSE g : Adds(f, {}, g))
  BY SumDefined, FS_EmptySet
<1> QED BY <1>1, SumUnfolded DEF Adds

\* The sum over one element, the one that the definition takes, and the others.
LEMMA SumChosen ==
    ASSUME NEW f, NEW S, IsFiniteSet(S), S # {}
    PROVE  \E c \in S : SumFunctionOnSet(f, S) = f[c] + SumFunctionOnSet(f, S \ {c})
<1>0. PICK c : c = CHOOSE x \in S : TRUE
  OBVIOUS
<1> DEFINE G(T) == CHOOSE g : Adds(f, T, g)
           T == S \ {c}
<1>1. Adds(f, S, G(S)) /\ SumFunctionOnSet(f, S) = G(S)[S]
  BY SumDefined, SumUnfolded
<1>2. IsFiniteSet(T) /\ T \in SUBSET S
  BY FS_RemoveElement
<1>3. Adds(f, T, G(T)) /\ SumFunctionOnSet(f, T) = G(T)[T]
  <2> HIDE DEF T
  <2> QED BY <1>2, SumDefined, SumUnfolded
<1>4. G(S)[S] = f[c] + G(S)[T]
  BY <1>0, <1>1 DEF Adds
<1>5. G(S)[T] = G(T)[T]
  <2> HIDE DEF T, G
  <2> QED BY <1>1, <1>2, <1>3, SumUnique
<1>6. SumFunctionOnSet(f, S) = f[c] + SumFunctionOnSet(f, T)
  <2> HIDE DEF T, G
  <2> QED BY <1>1, <1>3, <1>4, <1>5
<1>7. c \in S
  BY <1>0
<1> QED BY <1>6, <1>7

\* A sum of integers is one.
LEMMA SumInt ==
    ASSUME NEW f, NEW S, IsFiniteSet(S), \A x \in S : f[x] \in Int
    PROVE  SumFunctionOnSet(f, S) \in Int
<1> DEFINE Sum(T) == SumFunctionOnSet(f, T)
           P == {T \in SUBSET S : Sum(T) \in Int}
<1>1. ASSUME NEW T \in SUBSET S, \A x \in T : T \ {x} \in P PROVE T \in P
  <2>1. CASE T = {}
    BY <2>1, SumEmpty
  <2>2. CASE T # {}
    <3>1. IsFiniteSet(T)
      BY FS_Subset
    <3>2. PICK c \in T : Sum(T) = f[c] + Sum(T \ {c})
      BY <2>2, <3>1, SumChosen
    <3>3. f[c] \in Int /\ Sum(T \ {c}) \in Int
      BY <1>1
    <3> HIDE DEF Sum
    <3> QED BY <3>2, <3>3
  <2> QED BY <2>1, <2>2
<1> HIDE DEF P
<1>2. S \in P
  BY <1>1, SetInductionSet
<1> QED BY <1>2 DEF P

\* One of no negative number is not negative.
LEMMA SumNat ==
    ASSUME NEW f, NEW S, IsFiniteSet(S), \A x \in S : f[x] \in Nat
    PROVE  SumFunctionOnSet(f, S) \in Nat
<1> DEFINE Sum(T) == SumFunctionOnSet(f, T)
           P == {T \in SUBSET S : Sum(T) \in Nat}
<1>1. ASSUME NEW T \in SUBSET S, \A x \in T : T \ {x} \in P PROVE T \in P
  <2>1. CASE T = {}
    BY <2>1, SumEmpty
  <2>2. CASE T # {}
    <3>1. IsFiniteSet(T)
      BY FS_Subset
    <3>2. PICK c \in T : Sum(T) = f[c] + Sum(T \ {c})
      BY <2>2, <3>1, SumChosen
    <3>3. f[c] \in Nat /\ Sum(T \ {c}) \in Nat
      BY <1>1
    <3> HIDE DEF Sum
    <3> QED BY <3>2, <3>3
  <2> QED BY <2>1, <2>2
<1> HIDE DEF P
<1>2. S \in P
  BY <1>1, SetInductionSet
<1> QED BY <1>2 DEF P

\* Whichever element is taken first, the sum is its value and the sum of the others.
LEMMA SumRemove ==
    ASSUME NEW f, NEW S, IsFiniteSet(S), \A y \in S : f[y] \in Int, NEW x \in S
    PROVE  SumFunctionOnSet(f, S) = f[x] + SumFunctionOnSet(f, S \ {x})
<1> DEFINE Sum(T) == SumFunctionOnSet(f, T)
           P == {T \in SUBSET S : \A y \in T : Sum(T) = f[y] + Sum(T \ {y})}
<1>1. ASSUME NEW T \in SUBSET S, \A y \in T : T \ {y} \in P PROVE T \in P
  <2> SUFFICES ASSUME NEW y \in T PROVE Sum(T) = f[y] + Sum(T \ {y})
    OBVIOUS
  <2>1. IsFiniteSet(T)
    BY FS_Subset
  <2>2. PICK c \in T : Sum(T) = f[c] + Sum(T \ {c})
    BY <2>1, SumChosen
  <2>3. CASE y = c
    BY <2>2, <2>3
  <2>4. CASE y # c
    <3> DEFINE rest == T \ {c, y}
    <3>1. T \ {c} \in P /\ T \ {y} \in P
      BY <1>1, <2>2
    <3>2. (T \ {c}) \ {y} = rest /\ (T \ {y}) \ {c} = rest
      OBVIOUS
    <3>3. Sum(T \ {c}) = f[y] + Sum(rest)
      BY <2>4, <3>1, <3>2
    <3>4. Sum(T \ {y}) = f[c] + Sum(rest)
      BY <2>2, <2>4, <3>1, <3>2
    <3>5. Sum(rest) \in Int
      <4>1. IsFiniteSet(rest) /\ \A z \in rest : f[z] \in Int
        BY FS_Subset
      <4> HIDE DEF rest
      <4> QED BY <4>1, SumInt
    <3>6. f[c] \in Int /\ f[y] \in Int
      BY <2>2
    <3> HIDE DEF Sum, rest
    <3> QED BY <2>2, <3>3, <3>4, <3>5, <3>6
  <2> QED BY <2>3, <2>4
<1> HIDE DEF P
<1>2. S \in P
  BY <1>1, SetInductionSet
<1> QED BY <1>2 DEF P

\* Functions that agree on the elements have the same sum over them.
LEMMA SumAgree ==
    ASSUME NEW f, NEW h, NEW S, IsFiniteSet(S), \A x \in S : f[x] = h[x]
    PROVE  SumFunctionOnSet(f, S) = SumFunctionOnSet(h, S)
<1> DEFINE G(e) == CHOOSE g : Adds(e, S, g)
<1>1. Adds(f, S, G(f)) /\ SumFunctionOnSet(f, S) = G(f)[S]
  BY SumDefined, SumUnfolded
<1>2. Adds(h, S, G(h)) /\ SumFunctionOnSet(h, S) = G(h)[S]
  BY SumDefined, SumUnfolded
<1> HIDE DEF G
<1>3. G(f)[S] = G(h)[S]
  BY <1>1, <1>2, SumUnique
<1> QED BY <1>1, <1>2, <1>3

\* The sum over two sets that share no element.
LEMMA SumUnion ==
    ASSUME NEW f, NEW S, IsFiniteSet(S), NEW U, IsFiniteSet(U), S \cap U = {},
           \A x \in S \cup U : f[x] \in Int
    PROVE  SumFunctionOnSet(f, S \cup U) = SumFunctionOnSet(f, S) + SumFunctionOnSet(f, U)
<1> DEFINE Sum(T) == SumFunctionOnSet(f, T)
           P == {T \in SUBSET U : Sum(S \cup T) = Sum(S) + Sum(T)}
<1>1. ASSUME NEW T \in SUBSET U, \A y \in T : T \ {y} \in P PROVE T \in P
  <2>1. IsFiniteSet(T) /\ IsFiniteSet(S \cup T)
    BY FS_Subset, FS_Union
  <2>2. Sum(S) \in Int
    BY SumInt
  <2>3. CASE T = {}
    <3>1. Sum(T) = 0 /\ S \cup T = S
      BY <2>3, SumEmpty
    <3> HIDE DEF Sum
    <3> QED BY <2>2, <3>1
  <2>4. CASE T # {}
    <3>1. PICK c : c \in T
      BY <2>4
    <3>2. Sum(T) = f[c] + Sum(T \ {c})
      BY <2>1, <3>1, SumRemove
    <3>3. Sum(S \cup T) = f[c] + Sum(S \cup (T \ {c}))
      <4> DEFINE V == S \cup T
      <4>1. c \in V /\ V \ {c} = S \cup (T \ {c}) /\ \A y \in V : f[y] \in Int
        BY <3>1
      <4>2. Sum(V) = f[c] + Sum(V \ {c})
        <5> HIDE DEF V
        <5> QED BY <2>1, <4>1, SumRemove DEF V
      <4> QED BY <4>1, <4>2
    <3>4. Sum(S \cup (T \ {c})) = Sum(S) + Sum(T \ {c})
      BY <1>1, <3>1
    <3>5. f[c] \in Int
      BY <3>1
    <3>6. Sum(T \ {c}) \in Int
      <4> DEFINE V == T \ {c}
      <4>1. IsFiniteSet(V) /\ \A y \in V : f[y] \in Int
        BY <2>1, FS_RemoveElement
      <4> HIDE DEF V
      <4> QED BY <4>1, SumInt DEF V
    <3> HIDE DEF Sum
    <3> QED BY <2>2, <3>2, <3>3, <3>4, <3>5, <3>6
  <2> QED BY <2>3, <2>4
<1> HIDE DEF P
<1>2. U \in P
  BY <1>1, SetInductionSet
<1> QED BY <1>2 DEF P

\* The images of the elements of a finite set are finite.
LEMMA ImageFinite ==
    ASSUME NEW S, IsFiniteSet(S), NEW g
    PROVE  IsFiniteSet({g[x] : x \in S})
<1> DEFINE T == {g[x] : x \in S}
           f == [x \in S |-> g[x]]
<1>1. f \in Surjection(S, T)
  BY DEF Surjection
<1> HIDE DEF T, f
<1>2. IsFiniteSet(T)
  BY <1>1, FS_Surjection
<1> QED BY <1>2 DEF T

\* Values that are carried over one to one to other elements have the same sum there.
LEMMA SumImage ==
    ASSUME NEW f, NEW h, NEW g, NEW S, IsFiniteSet(S),
           \A x, y \in S : g[x] = g[y] => x = y,
           \A x \in S : h[x] \in Int /\ f[g[x]] = h[x]
    PROVE  SumFunctionOnSet(f, {g[x] : x \in S}) = SumFunctionOnSet(h, S)
<1> DEFINE Sum(e, T) == SumFunctionOnSet(e, T)
           Image(T) == {g[x] : x \in T}
           P == {T \in SUBSET S : Sum(f, Image(T)) = Sum(h, T)}
<1>1. ASSUME NEW T \in SUBSET S
      PROVE  IsFiniteSet(T) /\ IsFiniteSet(Image(T)) /\ \A y \in Image(T) : f[y] \in Int
  <2>1. IsFiniteSet(T)
    BY FS_Subset
  <2>2. IsFiniteSet(Image(T))
    BY <2>1, ImageFinite
  <2>3. \A x \in T : f[g[x]] \in Int
    OBVIOUS
  <2> QED BY <2>1, <2>2, <2>3
<1>2. ASSUME NEW T \in SUBSET S, \A y \in T : T \ {y} \in P PROVE T \in P
  <2>1. CASE T = {}
    <3>1. Sum(f, Image(T)) = 0 /\ Sum(h, T) = 0
      BY <2>1, SumEmpty
    <3> HIDE DEF Sum
    <3> QED BY <3>1
  <2>2. CASE T # {}
    <3>1. PICK c : c \in T
      BY <2>2
    <3>2. Sum(h, T) = h[c] + Sum(h, T \ {c})
      <4>1. IsFiniteSet(T) /\ \A y \in T : h[y] \in Int
        BY <1>1
      <4> QED BY <3>1, <4>1, SumRemove
    <3>3. Image(T \ {c}) = Image(T) \ {g[c]} /\ g[c] \in Image(T)
      <4>1. \A x \in T : g[x] = g[c] <=> x = c
        BY <3>1
      <4> QED BY ONLY <3>1, <4>1
    <3>4. Sum(f, Image(T)) = f[g[c]] + Sum(f, Image(T) \ {g[c]})
      <4>1. IsFiniteSet(Image(T)) /\ \A y \in Image(T) : f[y] \in Int
        BY <1>1
      <4> HIDE DEF Image
      <4> QED BY <3>3, <4>1, SumRemove
    <3>5. Sum(f, Image(T \ {c})) = Sum(h, T \ {c})
      BY <1>2, <3>1
    <3>6. f[g[c]] = h[c]
      BY <3>1
    <3> HIDE DEF Sum, Image
    <3>7. Sum(f, Image(T)) = Sum(h, T)
      BY <3>2, <3>3, <3>4, <3>5, <3>6
    <3> QED BY <3>7
  <2> QED BY <2>1, <2>2
<1> HIDE DEF P
<1>3. S \in P
  BY <1>2, SetInductionSet
<1>4. Sum(f, Image(S)) = Sum(h, S)
  <2> HIDE DEF Sum, Image
  <2> QED BY <1>3 DEF P
<1> QED BY ONLY <1>4

\* The sum of the negative values is the negative of the sum.
LEMMA SumNegative ==
    ASSUME NEW f, NEW h, NEW S, IsFiniteSet(S),
           \A x \in S : h[x] \in Int /\ f[x] = 0 - h[x]
    PROVE  SumFunctionOnSet(f, S) = 0 - SumFunctionOnSet(h, S)
<1> DEFINE Sum(e, T) == SumFunctionOnSet(e, T)
           P == {T \in SUBSET S : Sum(f, T) = 0 - Sum(h, T)}
<1>1. ASSUME NEW T \in SUBSET S, \A y \in T : T \ {y} \in P PROVE T \in P
  <2>1. CASE T = {}
    <3>1. Sum(f, T) = 0 /\ Sum(h, T) = 0
      BY <2>1, SumEmpty
    <3>2. Sum(f, T) = 0 - Sum(h, T)
      <4> HIDE DEF Sum
      <4> QED BY <3>1
    <3> QED BY <3>2
  <2>2. CASE T # {}
    <3>1. PICK c : c \in T
      BY <2>2
    <3>2. IsFiniteSet(T)
      BY FS_Subset
    <3>3. Sum(h, T) = h[c] + Sum(h, T \ {c}) /\ Sum(f, T) = f[c] + Sum(f, T \ {c})
      <4>1. \A x \in T : f[x] \in Int /\ h[x] \in Int
        OBVIOUS
      <4> QED BY <3>1, <3>2, <4>1, SumRemove
    <3>4. Sum(f, T \ {c}) = 0 - Sum(h, T \ {c})
      BY <1>1, <3>1
    <3>5. f[c] = 0 - h[c] /\ h[c] \in Int
      BY <3>1
    <3>6. Sum(h, T \ {c}) \in Int
      <4> DEFINE V == T \ {c}
      <4>1. IsFiniteSet(V) /\ \A y \in V : h[y] \in Int
        BY <3>2, FS_RemoveElement
      <4> HIDE DEF V
      <4> QED BY <4>1, SumInt DEF V
    <3>7. Sum(f, T) = 0 - Sum(h, T)
      <4> HIDE DEF Sum
      <4> QED BY <3>3, <3>4, <3>5, <3>6
    <3> QED BY <3>7
  <2> QED BY <2>1, <2>2
<1> HIDE DEF P
<1>2. S \in P
  BY <1>1, SetInductionSet
<1> QED BY <1>2 DEF P
=============================================================================
