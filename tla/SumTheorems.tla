----------------------------- MODULE SumTheorems -----------------------------
(***************************************************************************)
(* What the sums of the community modules, which are defined by recursion  *)
(* on a set that an element is chosen from, add up to.  Nothing here is    *)
(* about the server; the proofs about its books rest on it.                *)
(*                                                                         *)
(* The library states induction for an operator, which the provers cannot  *)
(* instantiate.  Here it is the fact that a nonempty set of numbers has a  *)
(* least one: the smallest set that a lemma fails for is looked at.        *)
(***************************************************************************)
EXTENDS Integers, Functions, FiniteSetTheorems, WellFoundedInduction, TLAPS

LEMMA LessThan ==
  ASSUME NEW m \in Nat, NEW n \in Nat, m < n
  PROVE  <<m, n>> \in OpToRel(<, Nat)
  BY DEF OpToRel

LEMMA LeastNatural ==
  ASSUME NEW S \in SUBSET Nat, S # {}
  PROVE  \E m \in S : \A n \in S : m <= n
<1>1. PICK m \in S : \A n \in S : ~ (<<n, m>> \in OpToRel(<, Nat))
  BY WFMin, NatLessThanWellFounded
<1>2. \A n \in S : ~ (n < m)
  BY <1>1, LessThan
<1> QED BY <1>2

\* Of a collection of finite sets, one of the smallest.
LEMMA LeastSet ==
  ASSUME NEW C, C # {}, \A s \in C : IsFiniteSet(s)
  PROVE  \E t \in C : \A s \in C : Cardinality(t) <= Cardinality(s)
<1> DEFINE N == {Cardinality(s) : s \in C}
<1>1. N \in SUBSET Nat /\ N # {}
  BY FS_CardinalityType
<1>2. PICK m \in N : \A n \in N : m <= n
  <2> HIDE DEF N
  <2> QED BY <1>1, LeastNatural
<1> QED BY <1>2

\* A smaller set is not in a collection whose smallest is t.
LEMMA Smaller ==
  ASSUME NEW t, IsFiniteSet(t), NEW x \in t
  PROVE  /\ IsFiniteSet(t \ {x})
         /\ Cardinality(t \ {x}) \in Nat /\ Cardinality(t) \in Nat
         /\ Cardinality(t \ {x}) < Cardinality(t)
<1>1. IsFiniteSet(t \ {x}) /\ Cardinality(t \ {x}) = Cardinality(t) - 1
  BY FS_RemoveElement
<1> QED BY <1>1, FS_CardinalityType

-----------------------------------------------------------------------------
(***************************************************************************)
(* The recursion: there is one function that satisfies it.                 *)
(***************************************************************************)
AnyOf(s) == CHOOSE x \in s : TRUE

Sums(f, C, g) ==
  g = [s \in C |-> IF s = {} THEN 0 ELSE f[AnyOf(s)] + g[s \ {AnyOf(s)}]]

SumIter(f, S) == CHOOSE g : Sums(f, SUBSET S, g)

Closed(C) ==
  \A s \in C : IsFiniteSet(s) /\ (s # {} => s \ {AnyOf(s)} \in C)

LEMMA AnyOfIn ==
  ASSUME NEW s, s # {}
  PROVE  AnyOf(s) \in s
  BY Zenon DEF AnyOf

LEMMA SumUnfold ==
  ASSUME NEW f, NEW S
  PROVE  SumFunctionOnSet(f, S) = SumIter(f, S)[S]
  BY DEF SumFunctionOnSet, FoldFunctionOnSet, MapThenFoldSet, AnyOf, SumIter, Sums

LEMMA SubsetsClosed ==
  ASSUME NEW S, IsFiniteSet(S)
  PROVE  Closed(SUBSET S)
<1>1. \A s \in SUBSET S : IsFiniteSet(s)
  BY FS_Subset
<1> QED BY <1>1, AnyOfIn DEF Closed

LEMMA SumsApply ==
  ASSUME NEW f, NEW C, NEW g, Sums(f, C, g), NEW s \in C
  PROVE  g[s] = IF s = {} THEN 0 ELSE f[AnyOf(s)] + g[s \ {AnyOf(s)}]
  BY DEF Sums

LEMMA SumsUnique ==
  ASSUME NEW f, NEW C, NEW D, Closed(C), Closed(D),
         NEW g, Sums(f, C, g), NEW h, Sums(f, D, h),
         NEW s \in C \cap D
  PROVE  g[s] = h[s]
<1> DEFINE Bad == {t \in C \cap D : g[t] # h[t]}
<1> SUFFICES ASSUME Bad # {} PROVE FALSE
  OBVIOUS
<1>1. \A t \in C \cap D : IsFiniteSet(t)
  BY DEF Closed
<1>2. PICK t \in Bad : \A u \in Bad : Cardinality(t) <= Cardinality(u)
  <2>1. \A u \in Bad : IsFiniteSet(u)
    BY <1>1
  <2> HIDE DEF Bad
  <2> QED BY <2>1, LeastSet
<1> DEFINE r == t \ {AnyOf(t)}
<1>3. t # {}
  <2>1. t = {} => g[t] = 0 /\ h[t] = 0
    <3>1. t \in C /\ t \in D
      BY <1>2
    <3> HIDE DEF Bad
    <3> QED BY <3>1, SumsApply
  <2> QED BY <1>2, <2>1
<1>4. r \in C \cap D
  BY <1>2, <1>3 DEF Closed
<1>5. r \notin Bad
  <2>1. Cardinality(r) \in Nat /\ Cardinality(t) \in Nat /\ Cardinality(r) < Cardinality(t)
    BY <1>1, <1>2, <1>3, AnyOfIn, Smaller
  <2> HIDE DEF Bad, r
  <2> QED BY <1>2, <2>1
<1>6. g[t] = f[AnyOf(t)] + g[r] /\ h[t] = f[AnyOf(t)] + h[r]
  BY <1>2, <1>3, SumsApply
<1> QED BY <1>2, <1>4, <1>5, <1>6

LEMMA SumsExist ==
  ASSUME NEW f, NEW S, IsFiniteSet(S)
  PROVE  Sums(f, SUBSET S, SumIter(f, S))
<1> DEFINE Level(n) == {s \in SUBSET S : Cardinality(s) <= n}
           Bad == {n \in Nat : ~ \E g : Sums(f, Level(n), g)}
<1>1. \A s \in SUBSET S : IsFiniteSet(s) /\ Cardinality(s) \in Nat
  BY FS_Subset, FS_CardinalityType
<1>2. Bad = {}
  <2> SUFFICES ASSUME Bad # {} PROVE FALSE
    OBVIOUS
  <2>1. PICK m \in Bad : \A n \in Bad : m <= n
    <3>1. Bad \in SUBSET Nat
      OBVIOUS
    <3> HIDE DEF Bad
    <3> QED BY <3>1, LeastNatural
  <2>2. CASE m = 0
    <3> DEFINE g == [s \in Level(0) |-> 0]
    <3>1. \A s \in Level(0) : s = {}
      BY <1>1, FS_EmptySet
    <3>2. Sums(f, Level(0), g)
      <4>1. g = [s \in Level(0) |-> IF s = {} THEN 0 ELSE f[AnyOf(s)] + g[s \ {AnyOf(s)}]]
        <5> HIDE DEF Level
        <5> QED BY <3>1
      <4> HIDE DEF g, Level
      <4> QED BY <4>1 DEF Sums
    <3> QED BY <2>1, <2>2, <3>2
  <2>3. CASE m # 0
    <3>1. m - 1 \in Nat /\ m - 1 \notin Bad
      <4>1. m \in Nat
        BY <2>1
      <4> HIDE DEF Bad
      <4> QED BY <2>1, <2>3, <4>1
    <3>2. PICK g : Sums(f, Level(m - 1), g)
      BY <3>1
    <3> DEFINE h == [s \in Level(m) |-> IF s = {} THEN 0 ELSE f[AnyOf(s)] + g[s \ {AnyOf(s)}]]
    <3>3. ASSUME NEW s \in Level(m), s # {}
          PROVE  h[s \ {AnyOf(s)}] = g[s \ {AnyOf(s)}]
      <4> DEFINE r == s \ {AnyOf(s)}
      <4>1. r \in SUBSET S
        OBVIOUS
      <4>2. Cardinality(r) < Cardinality(s) /\ Cardinality(r) \in Nat
        BY <1>1, <3>3, AnyOfIn, Smaller
      <4>3. r \in Level(m - 1) /\ r \in Level(m)
        BY <1>1, <2>1, <4>1, <4>2
      <4>4. g[r] = IF r = {} THEN 0 ELSE f[AnyOf(r)] + g[r \ {AnyOf(r)}]
        <5> DEFINE L == Level(m - 1)
        <5>1. Sums(f, L, g) /\ r \in L
          BY <3>2, <4>3
        <5> HIDE DEF r, L
        <5> QED BY <5>1, SumsApply
      <4>5. h[r] = IF r = {} THEN 0 ELSE f[AnyOf(r)] + g[r \ {AnyOf(r)}]
        <5> HIDE DEF r, Level
        <5> QED BY <4>3
      <4> HIDE DEF r, h, Level
      <4> QED BY <4>4, <4>5 DEF r
    <3>4. Sums(f, Level(m), h)
      <4>1. h = [s \in Level(m) |-> IF s = {} THEN 0 ELSE f[AnyOf(s)] + h[s \ {AnyOf(s)}]]
        <5> HIDE DEF Level
        <5> QED BY <3>3
      <4> HIDE DEF h, Level
      <4> QED BY <4>1 DEF Sums
    <3> HIDE DEF h, Level
    <3> QED BY <2>1, <3>4
  <2> QED BY <2>2, <2>3
<1>3. SUBSET S = Level(Cardinality(S))
  <2>1. \A s \in SUBSET S : Cardinality(s) <= Cardinality(S)
    BY FS_Subset
  <2> QED BY <2>1
<1>4. \E g : Sums(f, SUBSET S, g)
  <2>1. Cardinality(S) \in Nat
    BY FS_CardinalityType
  <2>2. \E g : Sums(f, Level(Cardinality(S)), g)
    BY <1>2, <2>1
  <2> HIDE DEF Level
  <2> QED BY <1>3, <2>2
<1> QED BY <1>4 DEF SumIter

-----------------------------------------------------------------------------
(***************************************************************************)
(* What a sum adds up to.                                                  *)
(***************************************************************************)
LEMMA SumOfNone ==
  ASSUME NEW f
  PROVE  SumFunctionOnSet(f, {}) = 0
<1>1. Sums(f, SUBSET {}, SumIter(f, {}))
  BY FS_EmptySet, SumsExist
<1>2. SumIter(f, {})[{}] = 0
  BY <1>1, SumsApply
<1> QED BY <1>2, SumUnfold

LEMMA SumStep ==
  ASSUME NEW f, NEW S, IsFiniteSet(S), S # {}
  PROVE  SumFunctionOnSet(f, S) = f[AnyOf(S)] + SumFunctionOnSet(f, S \ {AnyOf(S)})
<1> DEFINE R == S \ {AnyOf(S)}
           g == SumIter(f, S)
           h == SumIter(f, R)
<1>1. IsFiniteSet(R)
  BY FS_Subset
<1>2. Sums(f, SUBSET S, g) /\ Sums(f, SUBSET R, h)
  BY <1>1, SumsExist
<1>3. Closed(SUBSET S) /\ Closed(SUBSET R)
  BY <1>1, SubsetsClosed
<1>4. S \in SUBSET S /\ R \in (SUBSET S) \cap SUBSET R
  OBVIOUS
<1>5. g[S] = f[AnyOf(S)] + g[R]
  <2> HIDE DEF g
  <2> QED BY <1>2, <1>4, SumsApply
<1>6. g[R] = h[R]
  <2> HIDE DEF g, h, R
  <2> QED BY <1>2, <1>3, <1>4, SumsUnique
<1>7. SumFunctionOnSet(f, S) = g[S] /\ SumFunctionOnSet(f, R) = h[R]
  BY SumUnfold
<1> HIDE DEF g, h, R
<1> QED BY <1>5, <1>6, <1>7 DEF R

\* A sum of numbers is a number.
LEMMA SumType ==
  ASSUME NEW f, NEW S, IsFiniteSet(S), \A x \in S : f[x] \in Nat
  PROVE  SumFunctionOnSet(f, S) \in Nat
<1> DEFINE Bad == {s \in SUBSET S : SumFunctionOnSet(f, s) \notin Nat}
<1> SUFFICES ASSUME Bad # {} PROVE FALSE
  OBVIOUS
<1>1. \A s \in SUBSET S : IsFiniteSet(s)
  BY FS_Subset
<1>2. PICK t \in Bad : \A u \in Bad : Cardinality(t) <= Cardinality(u)
  <2>1. \A u \in Bad : IsFiniteSet(u)
    BY <1>1
  <2> HIDE DEF Bad
  <2> QED BY <2>1, LeastSet
<1>3. t # {}
  BY <1>2, SumOfNone
<1> DEFINE x == AnyOf(t)
           r == t \ {x}
<1>4. x \in t
  BY <1>3, AnyOfIn
<1>5. Cardinality(r) < Cardinality(t) /\ Cardinality(r) \in Nat /\ Cardinality(t) \in Nat
  BY <1>1, <1>2, <1>4, Smaller
<1>6. r \in SUBSET S /\ r \notin Bad
  <2>1. r \in SUBSET S
    BY <1>2
  <2> HIDE DEF Bad, r
  <2> QED BY <1>2, <1>5, <2>1
<1>7. SumFunctionOnSet(f, t) = f[x] + SumFunctionOnSet(f, r)
  BY <1>1, <1>2, <1>3, SumStep
<1>8. SumFunctionOnSet(f, r) \in Nat /\ f[x] \in Nat
  BY <1>2, <1>4, <1>6
<1> HIDE DEF x, r
<1> QED BY <1>2, <1>7, <1>8

\* Whichever element is taken out first.
LEMMA SumWithout ==
  ASSUME NEW f, NEW S, IsFiniteSet(S), \A x \in S : f[x] \in Nat, NEW x \in S
  PROVE  SumFunctionOnSet(f, S) = f[x] + SumFunctionOnSet(f, S \ {x})
<1> DEFINE Splits(s) ==
             \A y \in s : SumFunctionOnSet(f, s) = f[y] + SumFunctionOnSet(f, s \ {y})
           Bad == {s \in SUBSET S : ~ Splits(s)}
<1> SUFFICES ASSUME Bad # {} PROVE FALSE
  OBVIOUS
<1>1. \A s \in SUBSET S : IsFiniteSet(s) /\ SumFunctionOnSet(f, s) \in Nat
  BY FS_Subset, SumType
<1>2. PICK t \in Bad : \A u \in Bad : Cardinality(t) <= Cardinality(u)
  <2>1. \A u \in Bad : IsFiniteSet(u)
    BY <1>1
  <2> HIDE DEF Bad
  <2> QED BY <2>1, LeastSet
<1>3. PICK y \in t : SumFunctionOnSet(f, t) # f[y] + SumFunctionOnSet(f, t \ {y})
  BY <1>2
<1>4. t \in SUBSET S /\ IsFiniteSet(t)
  BY <1>1, <1>2
<1> DEFINE a == AnyOf(t)
<1>5. a \in t
  BY <1>3, AnyOfIn
<1>6. SumFunctionOnSet(f, t) = f[a] + SumFunctionOnSet(f, t \ {a})
  BY <1>3, <1>4, SumStep
<1>7. ASSUME NEW z \in t PROVE Splits(t \ {z})
  <2> DEFINE r == t \ {z}
  <2>1. Cardinality(r) < Cardinality(t) /\ Cardinality(r) \in Nat /\ Cardinality(t) \in Nat
    BY <1>4, Smaller
  <2>2. r \in SUBSET S
    BY <1>4
  <2>3. r \notin Bad
    <3> HIDE DEF Bad, r
    <3> QED BY <1>2, <2>1, <2>2
  <2> HIDE DEF Splits
  <2> QED BY <2>2, <2>3
<1> DEFINE both == (t \ {a}) \ {y}
<1>8. a # y
  BY <1>3, <1>6
<1>9. SumFunctionOnSet(f, t \ {a}) = f[y] + SumFunctionOnSet(f, both)
  <2>1. y \in t \ {a}
    BY <1>8
  <2> HIDE DEF a
  <2> QED BY <1>5, <1>7, <2>1
<1>10. SumFunctionOnSet(f, t \ {y}) = f[a] + SumFunctionOnSet(f, both)
  <2>1. a \in t \ {y} /\ (t \ {y}) \ {a} = both
    BY <1>5, <1>8
  <2> HIDE DEF a, both
  <2> QED BY <1>7, <2>1
<1>11. f[a] \in Nat /\ f[y] \in Nat /\ SumFunctionOnSet(f, both) \in Nat
  BY <1>1, <1>4, <1>5
<1> HIDE DEF a, both
<1> QED BY <1>3, <1>6, <1>9, <1>10, <1>11

LEMMA SumWith ==
  ASSUME NEW f, NEW S, IsFiniteSet(S), NEW x, x \notin S, \A y \in S \cup {x} : f[y] \in Nat
  PROVE  SumFunctionOnSet(f, S \cup {x}) = f[x] + SumFunctionOnSet(f, S)
<1>1. IsFiniteSet(S \cup {x}) /\ x \in S \cup {x} /\ (S \cup {x}) \ {x} = S
  BY FS_AddElement
<1> QED BY <1>1, SumWithout

\* Only the values on the set matter.
LEMMA SumAgrees ==
  ASSUME NEW f, NEW g, NEW S, IsFiniteSet(S), \A x \in S : f[x] = g[x]
  PROVE  SumFunctionOnSet(f, S) = SumFunctionOnSet(g, S)
<1> DEFINE Bad == {s \in SUBSET S : SumFunctionOnSet(f, s) # SumFunctionOnSet(g, s)}
<1> SUFFICES ASSUME Bad # {} PROVE FALSE
  OBVIOUS
<1>1. \A s \in SUBSET S : IsFiniteSet(s)
  BY FS_Subset
<1>2. PICK t \in Bad : \A u \in Bad : Cardinality(t) <= Cardinality(u)
  <2>1. \A u \in Bad : IsFiniteSet(u)
    BY <1>1
  <2> HIDE DEF Bad
  <2> QED BY <2>1, LeastSet
<1>3. t # {}
  BY <1>2, SumOfNone
<1> DEFINE x == AnyOf(t)
           r == t \ {x}
<1>4. x \in t
  BY <1>3, AnyOfIn
<1>5. Cardinality(r) < Cardinality(t) /\ Cardinality(r) \in Nat /\ Cardinality(t) \in Nat
  BY <1>1, <1>2, <1>4, Smaller
<1>6. r \in SUBSET S /\ r \notin Bad
  <2>1. r \in SUBSET S
    BY <1>2
  <2> HIDE DEF Bad, r
  <2> QED BY <1>2, <1>5, <2>1
<1>7. /\ SumFunctionOnSet(f, t) = f[x] + SumFunctionOnSet(f, r)
      /\ SumFunctionOnSet(g, t) = g[x] + SumFunctionOnSet(g, r)
  BY <1>1, <1>2, <1>3, SumStep
<1>8. SumFunctionOnSet(f, r) = SumFunctionOnSet(g, r) /\ f[x] = g[x]
  BY <1>2, <1>4, <1>6
<1> HIDE DEF x, r
<1> QED BY <1>2, <1>7, <1>8

\* The sum over two sets that share nothing.
LEMMA SumOfBoth ==
  ASSUME NEW f, NEW S, NEW T, IsFiniteSet(S), IsFiniteSet(T), S \cap T = {},
         \A x \in S \cup T : f[x] \in Nat
  PROVE  SumFunctionOnSet(f, S \cup T) = SumFunctionOnSet(f, S) + SumFunctionOnSet(f, T)
<1> DEFINE Bad == {s \in SUBSET S : SumFunctionOnSet(f, s \cup T)
                                      # SumFunctionOnSet(f, s) + SumFunctionOnSet(f, T)}
<1> SUFFICES ASSUME Bad # {} PROVE FALSE
  OBVIOUS
<1>1. \A s \in SUBSET S : /\ IsFiniteSet(s) /\ IsFiniteSet(s \cup T)
                          /\ SumFunctionOnSet(f, s) \in Nat
                          /\ SumFunctionOnSet(f, s \cup T) \in Nat
  BY FS_Subset, FS_Union, SumType
<1>2. PICK t \in Bad : \A u \in Bad : Cardinality(t) <= Cardinality(u)
  <2>1. \A u \in Bad : IsFiniteSet(u)
    BY <1>1
  <2> HIDE DEF Bad
  <2> QED BY <2>1, LeastSet
<1>3. SumFunctionOnSet(f, T) \in Nat
  BY SumType
<1>4. t # {}
  <2>1. {} \cup T = T
    OBVIOUS
  <2> QED BY <1>2, <1>3, <2>1, SumOfNone
<1>5. PICK x : x \in t
  BY <1>4
<1> DEFINE r == t \ {x}
<1>6. Cardinality(r) < Cardinality(t) /\ Cardinality(r) \in Nat /\ Cardinality(t) \in Nat
  BY <1>1, <1>2, <1>5, Smaller
<1>7. r \in SUBSET S /\ r \notin Bad
  <2>1. r \in SUBSET S
    BY <1>2
  <2> HIDE DEF Bad, r
  <2> QED BY <1>2, <1>6, <2>1
<1>8. SumFunctionOnSet(f, t) = f[x] + SumFunctionOnSet(f, r)
  BY <1>1, <1>2, <1>5, SumWithout
<1>9. SumFunctionOnSet(f, t \cup T) = f[x] + SumFunctionOnSet(f, r \cup T)
  <2>1. (t \cup T) \ {x} = r \cup T /\ x \in t \cup T
    BY <1>2, <1>5
  <2>2. IsFiniteSet(t \cup T) /\ \A y \in t \cup T : f[y] \in Nat
    BY <1>1, <1>2
  <2> HIDE DEF r
  <2> QED BY <2>1, <2>2, SumWithout
<1>10. /\ SumFunctionOnSet(f, r \cup T) = SumFunctionOnSet(f, r) + SumFunctionOnSet(f, T)
       /\ SumFunctionOnSet(f, r) \in Nat /\ f[x] \in Nat
  BY <1>1, <1>2, <1>5, <1>7
<1> HIDE DEF r
<1> QED BY <1>2, <1>3, <1>8, <1>9, <1>10

\* One value changes, and the sum by as much.
LEMMA SumChanges ==
  ASSUME NEW D, IsFiniteSet(D), NEW f \in [D -> Nat], NEW g \in [D -> Nat], NEW x \in D,
         \A y \in D \ {x} : g[y] = f[y]
  PROVE  SumFunction(g) + f[x] = SumFunction(f) + g[x]
<1> DEFINE r == D \ {x}
<1>1. IsFiniteSet(r)
  BY FS_Subset
<1>2. /\ SumFunctionOnSet(f, D) = f[x] + SumFunctionOnSet(f, r)
      /\ SumFunctionOnSet(g, D) = g[x] + SumFunctionOnSet(g, r)
  BY SumWithout
<1>3. SumFunctionOnSet(f, r) = SumFunctionOnSet(g, r)
  BY <1>1, SumAgrees
<1>4. SumFunctionOnSet(f, r) \in Nat /\ f[x] \in Nat /\ g[x] \in Nat
  BY <1>1, SumType
<1>5. SumFunction(f) = SumFunctionOnSet(f, D) /\ SumFunction(g) = SumFunctionOnSet(g, D)
  BY DEF SumFunction
<1> HIDE DEF r
<1> QED BY <1>2, <1>3, <1>4, <1>5

LEMMA SumFunctionType ==
  ASSUME NEW D, IsFiniteSet(D), NEW f \in [D -> Nat]
  PROVE  SumFunction(f) \in Nat
<1>1. SumFunction(f) = SumFunctionOnSet(f, D)
  BY DEF SumFunction
<1> QED BY <1>1, SumType

LEMMA SumOfZeros ==
  ASSUME NEW D, IsFiniteSet(D), NEW f, f = [x \in D |-> 0]
  PROVE  SumFunction(f) = 0
<1> DEFINE Bad == {s \in SUBSET D : SumFunctionOnSet(f, s) # 0}
<1>1. Bad = {}
  <2> SUFFICES ASSUME Bad # {} PROVE FALSE
    OBVIOUS
  <2>1. \A s \in SUBSET D : IsFiniteSet(s)
    BY FS_Subset
  <2>2. PICK t \in Bad : \A u \in Bad : Cardinality(t) <= Cardinality(u)
    <3>1. \A u \in Bad : IsFiniteSet(u)
      BY <2>1
    <3> HIDE DEF Bad
    <3> QED BY <3>1, LeastSet
  <2>3. t # {}
    BY <2>2, SumOfNone
  <2> DEFINE x == AnyOf(t)
             r == t \ {x}
  <2>4. x \in t
    BY <2>3, AnyOfIn
  <2>5. Cardinality(r) < Cardinality(t) /\ Cardinality(r) \in Nat /\ Cardinality(t) \in Nat
    BY <2>1, <2>2, <2>4, Smaller
  <2>6. r \in SUBSET D /\ r \notin Bad
    <3>1. r \in SUBSET D
      BY <2>2
    <3> HIDE DEF Bad, r
    <3> QED BY <2>2, <2>5, <3>1
  <2>7. SumFunctionOnSet(f, t) = f[x] + SumFunctionOnSet(f, r)
    BY <2>1, <2>2, <2>3, SumStep
  <2>8. SumFunctionOnSet(f, r) = 0 /\ f[x] = 0
    BY <2>2, <2>4, <2>6
  <2> HIDE DEF x, r
  <2> QED BY <2>2, <2>7, <2>8
<1> QED BY <1>1 DEF SumFunction

\* A sum of smaller values is smaller.
LEMMA SumSmaller ==
  ASSUME NEW D, IsFiniteSet(D), NEW f \in [D -> Nat], NEW g \in [D -> Nat],
         \A x \in D : f[x] <= g[x]
  PROVE  SumFunction(f) <= SumFunction(g)
<1> DEFINE Bad == {s \in SUBSET D : ~ (SumFunctionOnSet(f, s) <= SumFunctionOnSet(g, s))}
<1>1. Bad = {}
  <2> SUFFICES ASSUME Bad # {} PROVE FALSE
    OBVIOUS
  <2>1. \A s \in SUBSET D : /\ IsFiniteSet(s) /\ SumFunctionOnSet(f, s) \in Nat
                            /\ SumFunctionOnSet(g, s) \in Nat
    BY FS_Subset, SumType
  <2>2. PICK t \in Bad : \A u \in Bad : Cardinality(t) <= Cardinality(u)
    <3>1. \A u \in Bad : IsFiniteSet(u)
      BY <2>1
    <3> HIDE DEF Bad
    <3> QED BY <3>1, LeastSet
  <2>3. t # {}
    BY <2>2, SumOfNone
  <2> DEFINE x == AnyOf(t)
             r == t \ {x}
  <2>4. x \in t /\ x \in D
    BY <2>2, <2>3, AnyOfIn
  <2>5. Cardinality(r) < Cardinality(t) /\ Cardinality(r) \in Nat /\ Cardinality(t) \in Nat
    BY <2>1, <2>2, <2>4, Smaller
  <2>6. r \in SUBSET D /\ r \notin Bad
    <3>1. r \in SUBSET D
      BY <2>2
    <3> HIDE DEF Bad, r
    <3> QED BY <2>2, <2>5, <3>1
  <2>7. /\ SumFunctionOnSet(f, t) = f[x] + SumFunctionOnSet(f, r)
        /\ SumFunctionOnSet(g, t) = g[x] + SumFunctionOnSet(g, r)
    BY <2>1, <2>2, <2>3, SumStep
  <2>8. SumFunctionOnSet(f, r) <= SumFunctionOnSet(g, r)
    BY <2>6
  <2>9. /\ SumFunctionOnSet(f, r) \in Nat /\ SumFunctionOnSet(g, r) \in Nat
        /\ f[x] \in Nat /\ g[x] \in Nat /\ f[x] <= g[x]
    BY <2>1, <2>4, <2>6
  <2> HIDE DEF x, r
  <2> QED BY <2>2, <2>7, <2>8, <2>9
<1> QED BY <1>1 DEF SumFunction

\* A sum over other names of the same things.
LEMMA SumRenamed ==
  ASSUME NEW S, IsFiniteSet(S), NEW f, NEW g, NEW h,
         \A x \in S : f[x] \in Nat /\ g[h[x]] = f[x],
         \A x, y \in S : h[x] = h[y] => x = y
  PROVE  SumFunctionOnSet(g, {h[x] : x \in S}) = SumFunctionOnSet(f, S)
<1> DEFINE Names(s) == {h[x] : x \in s}
           Bad == {s \in SUBSET S : ~ /\ IsFiniteSet(Names(s))
                                      /\ SumFunctionOnSet(g, Names(s)) = SumFunctionOnSet(f, s)}
<1>1. Bad = {}
  <2> SUFFICES ASSUME Bad # {} PROVE FALSE
    OBVIOUS
  <2>1. \A s \in SUBSET S : IsFiniteSet(s)
    BY FS_Subset
  <2>2. PICK t \in Bad : \A u \in Bad : Cardinality(t) <= Cardinality(u)
    <3>1. \A u \in Bad : IsFiniteSet(u)
      BY <2>1
    <3> HIDE DEF Bad
    <3> QED BY <3>1, LeastSet
  <2>3. t # {}
    <3>1. Names({}) = {}
      OBVIOUS
    <3>2. SumFunctionOnSet(g, {}) = SumFunctionOnSet(f, {}) /\ IsFiniteSet({})
      BY SumOfNone, FS_EmptySet
    <3> QED BY <2>2, <3>1, <3>2
  <2>4. PICK x : x \in t
    BY <2>3
  <2> DEFINE r == t \ {x}
  <2>5. Cardinality(r) < Cardinality(t) /\ Cardinality(r) \in Nat /\ Cardinality(t) \in Nat
    BY <2>1, <2>2, <2>4, Smaller
  <2>6. r \in SUBSET S /\ r \notin Bad
    <3>1. r \in SUBSET S
      BY <2>2
    <3> HIDE DEF Bad, r
    <3> QED BY <2>2, <2>5, <3>1
  <2>7. /\ IsFiniteSet(Names(r))
        /\ SumFunctionOnSet(g, Names(r)) = SumFunctionOnSet(f, r)
    BY <2>6
  <2>8. h[x] \notin Names(r) /\ Names(t) = Names(r) \cup {h[x]}
    BY <2>2, <2>4
  <2>9. \A z \in Names(r) \cup {h[x]} : g[z] \in Nat
    BY <2>2, <2>4
  <2>10. /\ IsFiniteSet(Names(t))
         /\ SumFunctionOnSet(g, Names(t)) = g[h[x]] + SumFunctionOnSet(g, Names(r))
    <3> HIDE DEF Names
    <3>1. SumFunctionOnSet(g, Names(r) \cup {h[x]}) = g[h[x]] + SumFunctionOnSet(g, Names(r))
      BY <2>7, <2>8, <2>9, SumWith
    <3>2. IsFiniteSet(Names(r) \cup {h[x]})
      BY <2>7, FS_AddElement
    <3> QED BY <2>8, <3>1, <3>2
  <2>11. SumFunctionOnSet(f, t) = f[x] + SumFunctionOnSet(f, r)
    <3>1. IsFiniteSet(t) /\ \A z \in t : f[z] \in Nat
      BY <2>1, <2>2
    <3> QED BY <2>4, <3>1, SumWithout
  <2>12. g[h[x]] = f[x]
    BY <2>2, <2>4
  <2> HIDE DEF Names, r
  <2> QED BY <2>2, <2>7, <2>10, <2>11, <2>12
<1> QED BY <1>1

-----------------------------------------------------------------------------
(***************************************************************************)
(* Sums of the first values of a sequence.                                 *)
(***************************************************************************)
FirstSum(w, k) == SumFunctionOnSet(w, 1..k)

LEMMA FirstSums ==
  ASSUME NEW n \in Nat, NEW w \in [1..n -> Nat], NEW k \in 0..n
  PROVE  /\ FirstSum(w, k) \in Nat
         /\ FirstSum(w, 0) = 0
         /\ k < n => FirstSum(w, k + 1) = FirstSum(w, k) + w[k + 1]
<1>1. \A i, j \in 0..n : IsFiniteSet((i + 1)..j) /\ \A x \in (i + 1)..j : w[x] \in Nat
  <2> TAKE i, j \in 0..n
  <2>1. i + 1 \in Int /\ j \in Int
    OBVIOUS
  <2>2. IsFiniteSet((i + 1)..j)
    BY <2>1, FS_Interval
  <2>3. \A x \in (i + 1)..j : x \in 1..n
    OBVIOUS
  <2> QED BY <2>2, <2>3
<1>2. \A i, j \in 0..n : SumFunctionOnSet(w, (i + 1)..j) \in Nat
  BY <1>1, SumType
<1>3. \A j \in 0..n : FirstSum(w, j) \in Nat
  <2> TAKE j \in 0..n
  <2>1. SumFunctionOnSet(w, (0 + 1)..j) \in Nat /\ 0 + 1 = 1
    BY <1>2
  <2> QED BY <2>1 DEF FirstSum
<1>4. FirstSum(w, 0) = 0
  <2>1. 1..0 = {}
    OBVIOUS
  <2> QED BY <2>1, SumOfNone DEF FirstSum
<1>5. ASSUME k < n PROVE FirstSum(w, k + 1) = FirstSum(w, k) + w[k + 1]
  <2>1. 1..(k + 1) = 1..k \cup {k + 1} /\ k + 1 \notin 1..k /\ k \in Nat
    OBVIOUS
  <2>2. IsFiniteSet(1..k) /\ \A x \in 1..k \cup {k + 1} : w[x] \in Nat
    <3>1. 1 \in Int /\ k \in Int
      OBVIOUS
    <3>2. \A x \in 1..k \cup {k + 1} : x \in 1..n
      BY <1>5
    <3> QED BY <3>1, <3>2, FS_Interval
  <2>3. SumFunctionOnSet(w, 1..k \cup {k + 1}) = w[k + 1] + SumFunctionOnSet(w, 1..k)
    BY <2>1, <2>2, SumWith
  <2>4. SumFunctionOnSet(w, 1..k) \in Nat /\ w[k + 1] \in Nat
    <3>1. k \in 0..n /\ k + 1 \in 1..n
      BY <1>5
    <3> QED BY <1>3, <3>1 DEF FirstSum
  <2>5. FirstSum(w, k + 1) = w[k + 1] + FirstSum(w, k)
    BY <2>1, <2>3 DEF FirstSum
  <2>6. FirstSum(w, k) \in Nat
    BY <2>4 DEF FirstSum
  <2> QED BY <2>4, <2>5, <2>6
<1> QED BY <1>3, <1>4, <1>5

LEMMA FirstSumsGrow ==
  ASSUME NEW n \in Nat, NEW w \in [1..n -> Nat], NEW k \in 0..n, NEW j \in 0..k
  PROVE  FirstSum(w, j) <= FirstSum(w, k)
<1>1. 1..k = 1..j \cup (j + 1)..k /\ 1..j \cap (j + 1)..k = {}
  OBVIOUS
<1>2. /\ IsFiniteSet(1..j) /\ IsFiniteSet((j + 1)..k)
      /\ \A x \in 1..j \cup (j + 1)..k : w[x] \in Nat
  <2>1. 1 \in Int /\ k \in Int /\ j \in Int /\ j + 1 \in Int
    OBVIOUS
  <2>2. \A x \in 1..j \cup (j + 1)..k : x \in 1..n
    OBVIOUS
  <2> QED BY <2>1, <2>2, FS_Interval
<1>3. SumFunctionOnSet(w, 1..j \cup (j + 1)..k)
        = SumFunctionOnSet(w, 1..j) + SumFunctionOnSet(w, (j + 1)..k)
  BY <1>1, <1>2, SumOfBoth
<1>4. SumFunctionOnSet(w, 1..j) \in Nat /\ SumFunctionOnSet(w, (j + 1)..k) \in Nat
  BY <1>2, SumType
<1>5. FirstSum(w, k) = FirstSum(w, j) + SumFunctionOnSet(w, (j + 1)..k)
  BY <1>1, <1>3 DEF FirstSum
<1>6. FirstSum(w, j) \in Nat
  BY <1>4 DEF FirstSum
<1> QED BY <1>4, <1>5, <1>6

-----------------------------------------------------------------------------
(***************************************************************************)
(* Each element of a finite set has a rank: how many are ahead of it.  If  *)
(* of any two one is ahead, and what is ahead of it is ahead of the other  *)
(* too, no two have the same rank, and every rank is somebody's.           *)
(***************************************************************************)
LEMMA Ranks ==
  ASSUME NEW S, IsFiniteSet(S), NEW Ahead \in [S -> SUBSET S],
         \A x \in S : x \notin Ahead[x],
         \A x, y \in S : x # y => x \in Ahead[y] \/ y \in Ahead[x],
         \A x \in S : \A y \in Ahead[x] : Ahead[y] \subseteq Ahead[x]
  PROVE  /\ \A x \in S : Cardinality(Ahead[x]) \in 0..(Cardinality(S) - 1)
         /\ \A x, y \in S : Cardinality(Ahead[x]) = Cardinality(Ahead[y]) => x = y
         /\ \A k \in 1..Cardinality(S) : \E x \in S : Cardinality(Ahead[x]) = k - 1
<1> DEFINE n == Cardinality(S)
<1>1. n \in Nat
  BY FS_CardinalityType
<1>2. \A x \in S : /\ IsFiniteSet(Ahead[x]) /\ Cardinality(Ahead[x]) \in Nat
  BY FS_Subset, FS_CardinalityType
<1>3. \A x \in S : Cardinality(Ahead[x]) < n
  <2> TAKE x \in S
  <2>1. Ahead[x] \in SUBSET (S \ {x})
    OBVIOUS
  <2>2. IsFiniteSet(S \ {x}) /\ Cardinality(S \ {x}) = n - 1
    BY FS_RemoveElement
  <2>3. Cardinality(Ahead[x]) <= n - 1
    BY <2>1, <2>2, FS_Subset
  <2> QED BY <1>1, <1>2, <2>3
<1>4. ASSUME NEW x \in S, NEW y \in Ahead[x]
      PROVE  Cardinality(Ahead[y]) < Cardinality(Ahead[x])
  <2>1. Ahead[y] \in SUBSET (Ahead[x] \ {y})
    OBVIOUS
  <2>2. /\ IsFiniteSet(Ahead[x] \ {y})
        /\ Cardinality(Ahead[x] \ {y}) = Cardinality(Ahead[x]) - 1
    BY <1>2, FS_RemoveElement
  <2>3. Cardinality(Ahead[y]) <= Cardinality(Ahead[x]) - 1
    BY <2>1, <2>2, FS_Subset
  <2>4. Cardinality(Ahead[y]) \in Nat /\ Cardinality(Ahead[x]) \in Nat
    BY <1>2
  <2> QED BY <2>3, <2>4
<1>5. ASSUME NEW x \in S, NEW y \in S, Cardinality(Ahead[x]) = Cardinality(Ahead[y]), x # y
      PROVE  FALSE
  <2>1. Cardinality(Ahead[y]) \in Nat /\ Cardinality(Ahead[x]) \in Nat
    BY <1>2
  <2>2. CASE x \in Ahead[y]
    BY <1>4, <1>5, <2>1, <2>2
  <2>3. CASE y \in Ahead[x]
    BY <1>4, <1>5, <2>1, <2>3
  <2> QED BY <1>5, <2>2, <2>3
<1> DEFINE T == 0..(n - 1)
           rank == [x \in S |-> Cardinality(Ahead[x])]
<1>6. rank \in [S -> T]
  <2>1. \A x \in S : Cardinality(Ahead[x]) \in T
    <3> HIDE DEF n
    <3> QED BY <1>1, <1>2, <1>3
  <2> HIDE DEF T
  <2> QED BY <2>1
<1>7. IsFiniteSet(T) /\ Cardinality(T) = n
  <2> HIDE DEF n
  <2>1. 0 \in Int /\ n - 1 \in Int /\ (0 > n - 1 <=> n = 0)
    BY <1>1
  <2>2. IsFiniteSet(T) /\ Cardinality(T) = IF 0 > n - 1 THEN 0 ELSE (n - 1) - 0 + 1
    BY <2>1, FS_Interval
  <2> QED BY <1>1, <2>1, <2>2
<1>8. rank \in Injection(S, T)
  <2>1. \A x, y \in S : rank[x] = rank[y] => x = y
    BY <1>5
  <2> HIDE DEF rank, T
  <2> QED BY <1>6, <2>1 DEF Injection, IsInjective
<1>9. rank \in Surjection(S, T)
  <2> HIDE DEF rank, T
  <2> QED BY <1>7, <1>8, FS_Injection
<1>10. \A k \in 1..n : \E x \in S : Cardinality(Ahead[x]) = k - 1
  <2> TAKE k \in 1..n
  <2>1. k - 1 \in T
    <3> HIDE DEF n
    <3> QED BY <1>1
  <2>2. \E x \in S : rank[x] = k - 1
    <3> HIDE DEF rank, T
    <3> QED BY <1>9, <2>1 DEF Surjection
  <2> QED BY <2>2
<1>11. \A x \in S : Cardinality(Ahead[x]) \in 0..(n - 1)
  <2> HIDE DEF n
  <2> QED BY <1>1, <1>2, <1>3
<1> QED BY <1>5, <1>10, <1>11
=============================================================================
