------------------------------ MODULE NatFacts ------------------------------
(***************************************************************************)
(* The least-number principle, the existence of a greatest element of a    *)
(* bounded set, and induction, each stated for sets of naturals so that it *)
(* can be cited without instantiating an operator; sums of functions over  *)
(* finite sets, of rows and of tables of numbers; division, least and      *)
(* greatest of a few numbers; powers of two.                               *)
(***************************************************************************)
EXTENDS Integers, FiniteSetsExt, FiniteSetTheorems, WellFoundedInduction, TLAPS

\* Every non-empty set of naturals has a least element.
LEMMA LeastNat ==
    ASSUME NEW T \in SUBSET Nat, T # {}
    PROVE  \E x \in T : \A y \in T : x <= y
<1> DEFINE R == {p \in Nat \X Nat : p[1] < p[2]}
<1>1. IsWellFoundedOn(R, Nat)
  BY NatLessThanWellFounded DEF OpToRel
<1>2. \E x \in T : \A y \in T : ~ (<<y, x>> \in R)
  <2> HIDE DEF R
  <2> QED
    BY <1>1, WFMin
<1>3. PICK x \in T : \A y \in T : ~ (<<y, x>> \in R)
  BY <1>2
<1>4. ASSUME NEW y \in T PROVE x <= y
  <2>1. x \in Nat /\ y \in Nat
    OBVIOUS
  <2>2. ~ (<<y, x>> \in R)
    BY <1>3
  <2>3. ~ (y < x)
    BY <2>1, <2>2
  <2>4. QED
    BY <2>1, <2>3
<1>5. QED
  BY <1>4

\* Every non-empty subset of 0..n has a greatest element.
LEMMA GreatestNat ==
    ASSUME NEW n \in Nat, NEW T \in SUBSET (0..n), T # {}
    PROVE  \E x \in T : \A y \in T : y <= x
<1> DEFINE U == {n - x : x \in T}
<1>1. U \in SUBSET Nat /\ U # {}
  <2>1. \A x \in T : n - x \in Nat
    OBVIOUS
  <2>2. PICK t \in T : TRUE
    OBVIOUS
  <2>3. n - t \in U
    OBVIOUS
  <2>4. QED
    BY <2>1, <2>3
<1>2. PICK u \in U : \A w \in U : u <= w
  BY <1>1, LeastNat
<1>3. PICK x \in T : u = n - x
  OBVIOUS
<1>4. \A y \in T : n - x <= n - y
  BY <1>2, <1>3
<1>5. \A y \in T : y <= x
  BY <1>4
<1>6. QED
  BY <1>5

\* A set that holds 0 and the successor of each of its naturals holds Nat.
LEMMA NatSetInduction ==
    ASSUME NEW S, 0 \in S, \A n \in Nat : n \in S => n + 1 \in S
    PROVE  Nat \subseteq S
<1>1. SUFFICES ASSUME Nat \ S # {} PROVE FALSE
  OBVIOUS
<1>2. PICK x \in Nat \ S : \A y \in Nat \ S : x <= y
  BY <1>1, LeastNat
<1>3. x # 0 /\ x - 1 \in Nat /\ x - 1 \in S
  BY <1>2
<1>4. QED
  BY <1>2, <1>3

\* A set of sets that holds {} and every subset of S that it holds without one
\* of its elements holds S: induction over the subsets of a finite set.
LEMMA SubsetInduction ==
    ASSUME NEW S, IsFiniteSet(S), NEW P, {} \in P,
           \A s \in SUBSET S : s # {} /\ (\A x \in s : s \ {x} \in P) => s \in P
    PROVE  S \in P
<1> DEFINE N == {n \in Nat : \A s \in SUBSET S : Cardinality(s) = n => s \in P}
<1>1. 0 \in N
  BY FS_Subset, FS_EmptySet
<1>2. ASSUME NEW n \in Nat, n \in N PROVE n + 1 \in N
  <2>1. SUFFICES ASSUME NEW s \in SUBSET S, Cardinality(s) = n + 1 PROVE s \in P
    OBVIOUS
  <2>2. IsFiniteSet(s) /\ s # {}
    BY <2>1, FS_Subset, FS_EmptySet
  <2>3. ASSUME NEW x \in s PROVE s \ {x} \in P
    <3>1. Cardinality(s \ {x}) = Cardinality(s) - 1
      BY <2>2, FS_RemoveElement
    <3>2. Cardinality(s \ {x}) = n
      BY <2>1, <3>1
    <3>3. QED
      BY <1>2, <3>2
  <2>4. QED
    BY <2>2, <2>3
<1>3. Nat \subseteq N
  <2> HIDE DEF N
  <2> QED
    BY <1>1, <1>2, NatSetInduction
<1>4. QED
  BY <1>3, FS_Subset, FS_CardinalityType

\* A function on a finite set is greatest somewhere.
LEMMA GreatestValue ==
    ASSUME NEW S, IsFiniteSet(S), S # {}, NEW f, \A x \in S : f[x] \in Int
    PROVE  \E x \in S : \A y \in S : f[y] <= f[x]
<1> DEFINE P == {s \in SUBSET S : s # {} => \E x \in s : \A y \in s : f[y] <= f[x]}
<1>1. {} \in P
  OBVIOUS
<1>2. ASSUME NEW s \in SUBSET S, s # {}, \A x \in s : s \ {x} \in P PROVE s \in P
  <2>1. PICK x \in s : TRUE
    BY <1>2
  <2>2. CASE s = {x}
    <3>1. f[x] <= f[x]
      BY <2>1
    <3>2. QED
      BY <2>2, <3>1
  <2>3. CASE s # {x}
    <3>1. s \ {x} \in P /\ s \ {x} # {}
      BY <1>2, <2>1, <2>3
    <3>2. PICK z \in s \ {x} : \A y \in s \ {x} : f[y] <= f[z]
      BY <3>1
    <3>3. \A y \in s : f[y] \in Int
      BY <1>2
    <3>4. CASE f[x] <= f[z]
      <4>1. \A y \in s : f[y] <= f[z]
        BY <3>2, <3>4
      <4>2. QED
        BY <3>2, <4>1
    <3>5. CASE f[z] < f[x]
      <4>1. \A y \in s : f[y] <= f[x]
        BY <2>1, <3>2, <3>3, <3>5
      <4>2. QED
        BY <2>1, <4>1
    <3>6. QED
      BY <2>1, <3>2, <3>3, <3>4, <3>5
  <2>4. QED
    BY <2>2, <2>3
<1> HIDE DEF P
<1>3. S \in P
  BY ONLY IsFiniteSet(S), <1>1, <1>2, SubsetInduction
<1>4. QED
  BY <1>3 DEF P

-----------------------------------------------------------------------------
(* SumFunctionOnSet.                                                       *)

Pick(s) == CHOOSE x \in s : TRUE

(* The equation of the recursion in MapThenFoldSet, for sums of f, over a  *)
(* set D of sets.                                                          *)
Adds(f, D, g) ==
    g = [s \in D |-> IF s = {} THEN 0 ELSE f[Pick(s)] + g[s \ {Pick(s)}]]

Small(S, n) == {s \in SUBSET S : Cardinality(s) <= n}

\* What the fold picks of a non-empty set is in it.
LEMMA PickIn == ASSUME NEW s, s # {} PROVE Pick(s) \in s
BY DEF Pick

\* Without the picked element a set is one smaller.
LEMMA SmallStep ==
    ASSUME NEW S, IsFiniteSet(S), NEW n \in Nat, NEW s \in Small(S, n + 1), s # {}
    PROVE  s \ {Pick(s)} \in Small(S, n)
<1>1. Pick(s) \in s
  BY PickIn
<1>2. IsFiniteSet(s)
  BY FS_Subset DEF Small
<1>3. Cardinality(s \ {Pick(s)}) = Cardinality(s) - 1 /\ Cardinality(s) \in Nat
  BY <1>1, <1>2, FS_RemoveElement, FS_CardinalityType
<1>4. QED
  BY <1>3 DEF Small

\* The recursion equation of a sum over a finite set has a solution.
LEMMA AddsExists ==
    ASSUME NEW f, NEW S, IsFiniteSet(S)
    PROVE  \E g : Adds(f, SUBSET S, g)
<1> DEFINE N == {n \in Nat : \E g : Adds(f, Small(S, n), g)}
<1>1. 0 \in N
  <2> DEFINE g == [s \in Small(S, 0) |-> 0]
  <2>1. \A s \in Small(S, 0) : s = {}
    BY FS_Subset, FS_EmptySet, FS_CardinalityType DEF Small
  <2>2. Adds(f, Small(S, 0), g)
    BY <2>1 DEF Adds
  <2> QED
    BY <2>2
<1>2. ASSUME NEW n \in Nat, n \in N PROVE n + 1 \in N
  <2>1. PICK g : Adds(f, Small(S, n), g)
    BY <1>2
  <2> DEFINE h == [s \in Small(S, n + 1) |->
                      IF s = {} THEN 0 ELSE f[Pick(s)] + g[s \ {Pick(s)}]]
  <2>2. ASSUME NEW s \in Small(S, n) PROVE h[s] = g[s]
    <3>1. s \in Small(S, n + 1)
      BY FS_Subset, FS_CardinalityType DEF Small
    <3>2. QED
      BY <2>1, <3>1 DEF Adds
  <2>3. ASSUME NEW s \in Small(S, n + 1)
        PROVE  h[s] = IF s = {} THEN 0 ELSE f[Pick(s)] + h[s \ {Pick(s)}]
    <3>1. s # {} => s \ {Pick(s)} \in Small(S, n)
      BY SmallStep
    <3>2. s # {} => h[s \ {Pick(s)}] = g[s \ {Pick(s)}]
      BY <3>1, <2>2
    <3>3. QED
      BY <3>2
  <2>4. Adds(f, Small(S, n + 1), h)
    BY <2>3 DEF Adds
  <2>5. QED
    BY <2>4
<1>3. Cardinality(S) \in N
  <2> HIDE DEF N
  <2> QED
    BY <1>1, <1>2, NatSetInduction, FS_CardinalityType
<1>4. Small(S, Cardinality(S)) = SUBSET S
  BY FS_Subset DEF Small
<1>5. QED
  BY <1>3, <1>4

\* Solutions for a set and for a subset of it agree on the subset.
LEMMA AddsAgree ==
    ASSUME NEW f, NEW S, IsFiniteSet(S), NEW T \in SUBSET S, NEW g, NEW h,
           Adds(f, SUBSET S, g), Adds(f, SUBSET T, h)
    PROVE  h[T] = g[T]
<1> DEFINE P == {s \in SUBSET T : h[s] = g[s]}
<1>1. IsFiniteSet(T)
  BY FS_Subset
<1>2. {} \in P
  BY DEF Adds
<1>3. ASSUME NEW s \in SUBSET T, s # {}, \A x \in s : s \ {x} \in P PROVE s \in P
  <2>1. h[s \ {Pick(s)}] = g[s \ {Pick(s)}]
    BY <1>3, PickIn
  <2>2. h[s] = f[Pick(s)] + h[s \ {Pick(s)}] /\ g[s] = f[Pick(s)] + g[s \ {Pick(s)}]
    BY <1>3 DEF Adds
  <2>3. QED
    BY <2>1, <2>2
<1>4. T \in P
  <2> HIDE DEF P
  <2> QED
    BY <1>1, <1>2, <1>3, SubsetInduction
<1>5. QED
  BY <1>4

\* SumFunctionOnSet is the value of a solution of the equation.
LEMMA SumIsAdds ==
    ASSUME NEW f, NEW S, IsFiniteSet(S)
    PROVE  \E g : Adds(f, SUBSET S, g) /\ SumFunctionOnSet(f, S) = g[S]
<1>1. \E g : Adds(f, SUBSET S, g)
  BY AddsExists
<1>2. SumFunctionOnSet(f, S) = (CHOOSE g : Adds(f, SUBSET S, g))[S]
  BY DEF SumFunctionOnSet, FoldFunctionOnSet, MapThenFoldSet, Adds, Pick
<1>3. QED
  BY <1>1, <1>2

\* The sum over no index is 0.
LEMMA SumEmpty == ASSUME NEW f PROVE SumFunctionOnSet(f, {}) = 0
<1>1. PICK g : Adds(f, SUBSET {}, g) /\ SumFunctionOnSet(f, {}) = g[{}]
  BY SumIsAdds, FS_EmptySet
<1>2. QED
  BY <1>1 DEF Adds

\* A sum is the picked element's term and the sum over the rest.
LEMMA SumPick ==
    ASSUME NEW f, NEW S, IsFiniteSet(S), S # {}
    PROVE  SumFunctionOnSet(f, S) = f[Pick(S)] + SumFunctionOnSet(f, S \ {Pick(S)})
<1> DEFINE T == S \ {Pick(S)}
<1>1. IsFiniteSet(T)
  BY FS_Subset
<1>2. PICK g : Adds(f, SUBSET S, g) /\ SumFunctionOnSet(f, S) = g[S]
  BY SumIsAdds
<1>3. PICK h : Adds(f, SUBSET T, h) /\ SumFunctionOnSet(f, T) = h[T]
  BY <1>1, SumIsAdds
<1>4. h[T] = g[T]
  <2> HIDE DEF T
  <2> T \in SUBSET S
    BY DEF T
  <2> QED
    BY <1>2, <1>3, AddsAgree
<1>5. g[S] = f[Pick(S)] + g[T]
  BY <1>2 DEF Adds
<1>6. QED
  BY <1>2, <1>3, <1>4, <1>5

\* The sum of integers is an integer.
LEMMA SumInt ==
    ASSUME NEW f, NEW S, IsFiniteSet(S), \A x \in S : f[x] \in Int
    PROVE  SumFunctionOnSet(f, S) \in Int
<1> DEFINE P == {s \in SUBSET S : SumFunctionOnSet(f, s) \in Int}
<1>1. {} \in P
  BY SumEmpty
<1>2. ASSUME NEW s \in SUBSET S, s # {}, \A x \in s : s \ {x} \in P PROVE s \in P
  <2>1. Pick(s) \in s /\ IsFiniteSet(s)
    BY <1>2, PickIn, FS_Subset
  <2>2. SumFunctionOnSet(f, s) = f[Pick(s)] + SumFunctionOnSet(f, s \ {Pick(s)})
    BY <1>2, <2>1, SumPick
  <2>3. QED
    BY <1>2, <2>1, <2>2
<1>3. S \in P
  <2>1. \A s \in SUBSET S : s # {} /\ (\A y \in s : s \ {y} \in P) => s \in P
    BY <1>2
  <2> HIDE DEF P
  <2>2. QED
    BY ONLY IsFiniteSet(S), <1>1, <2>1, SubsetInduction
<1>4. QED
  BY <1>3

\* The sum of naturals is a natural number.
LEMMA SumNat ==
    ASSUME NEW f, NEW S, IsFiniteSet(S), \A x \in S : f[x] \in Nat
    PROVE  SumFunctionOnSet(f, S) \in Nat
<1> DEFINE P == {s \in SUBSET S : SumFunctionOnSet(f, s) \in Nat}
<1>1. {} \in P
  BY SumEmpty
<1>2. ASSUME NEW s \in SUBSET S, s # {}, \A x \in s : s \ {x} \in P PROVE s \in P
  <2>1. Pick(s) \in s /\ IsFiniteSet(s)
    BY <1>2, PickIn, FS_Subset
  <2>2. SumFunctionOnSet(f, s) = f[Pick(s)] + SumFunctionOnSet(f, s \ {Pick(s)})
    BY <1>2, <2>1, SumPick
  <2>3. QED
    BY <1>2, <2>1, <2>2
<1>3. S \in P
  <2>1. \A s \in SUBSET S : s # {} /\ (\A y \in s : s \ {y} \in P) => s \in P
    BY <1>2
  <2> HIDE DEF P
  <2>2. QED
    BY ONLY IsFiniteSet(S), <1>1, <2>1, SubsetInduction
<1>4. QED
  BY <1>3

\* Any element can be split off, not only the one the fold picks.
LEMMA SumRemove ==
    ASSUME NEW f, NEW S, IsFiniteSet(S), \A y \in S : f[y] \in Int, NEW x \in S
    PROVE  SumFunctionOnSet(f, S) = f[x] + SumFunctionOnSet(f, S \ {x})
<1> DEFINE P == {s \in SUBSET S : \A y \in s :
                     SumFunctionOnSet(f, s) = f[y] + SumFunctionOnSet(f, s \ {y})}
<1>1. {} \in P
  OBVIOUS
<1>2. ASSUME NEW s \in SUBSET S, s # {}, \A z \in s : s \ {z} \in P PROVE s \in P
  <2> DEFINE p == Pick(s)
  <2>1. IsFiniteSet(s) /\ p \in s
    BY <1>2, PickIn, FS_Subset
  <2>2. SumFunctionOnSet(f, s) = f[p] + SumFunctionOnSet(f, s \ {p})
    BY <1>2, <2>1, SumPick
  <2> HIDE DEF p
  <2>3. ASSUME NEW y \in s, y # p
        PROVE  SumFunctionOnSet(f, s) = f[y] + SumFunctionOnSet(f, s \ {y})
    <3> DEFINE r == (s \ {y}) \ {p}
    <3>1. SumFunctionOnSet(f, s \ {p}) = f[y] + SumFunctionOnSet(f, (s \ {p}) \ {y})
      BY <1>2, <2>1, <2>3
    <3>2. SumFunctionOnSet(f, s \ {y}) = f[p] + SumFunctionOnSet(f, r)
      BY <1>2, <2>1, <2>3
    <3>3. (s \ {p}) \ {y} = r
      OBVIOUS
    <3>4. IsFiniteSet(r) /\ \A z \in r : f[z] \in Int
      BY <2>1, FS_Subset
    <3>5. SumFunctionOnSet(f, r) \in Int /\ f[p] \in Int /\ f[y] \in Int
      BY <2>1, <3>4, SumInt
    <3>6. QED
      <4> DEFINE a == SumFunctionOnSet(f, r)
      <4>1. SumFunctionOnSet(f, s \ {p}) = f[y] + a
        BY <3>1, <3>3
      <4> HIDE DEF a, r
      <4>2. a \in Int
        BY <3>5 DEF a
      <4>3. f[p] + (f[y] + a) = f[y] + (f[p] + a)
        BY <4>2, <3>5
      <4>4. QED
        BY <2>2, <3>2, <4>1, <4>3 DEF a
  <2>4. QED
    BY <2>2, <2>3
<1>3. S \in P
  <2>1. \A s \in SUBSET S : s # {} /\ (\A y \in s : s \ {y} \in P) => s \in P
    BY <1>2
  <2> HIDE DEF P
  <2>2. QED
    BY ONLY IsFiniteSet(S), <1>1, <2>1, SubsetInduction
<1>4. QED
  BY <1>3

\* Functions that agree on a set have the same sum over it.
LEMMA SumSame ==
    ASSUME NEW f, NEW g, NEW S, IsFiniteSet(S), \A x \in S : f[x] = g[x]
    PROVE  SumFunctionOnSet(f, S) = SumFunctionOnSet(g, S)
<1> DEFINE P == {s \in SUBSET S : SumFunctionOnSet(f, s) = SumFunctionOnSet(g, s)}
<1>1. {} \in P
  BY SumEmpty
<1>2. ASSUME NEW s \in SUBSET S, s # {}, \A x \in s : s \ {x} \in P PROVE s \in P
  <2>1. Pick(s) \in s /\ IsFiniteSet(s)
    BY <1>2, PickIn, FS_Subset
  <2>2. /\ SumFunctionOnSet(f, s) = f[Pick(s)] + SumFunctionOnSet(f, s \ {Pick(s)})
        /\ SumFunctionOnSet(g, s) = g[Pick(s)] + SumFunctionOnSet(g, s \ {Pick(s)})
    BY <1>2, <2>1, SumPick
  <2>3. QED
    BY <1>2, <2>1, <2>2
<1>3. S \in P
  <2>1. \A s \in SUBSET S : s # {} /\ (\A y \in s : s \ {y} \in P) => s \in P
    BY <1>2
  <2> HIDE DEF P
  <2>2. QED
    BY ONLY IsFiniteSet(S), <1>1, <2>1, SubsetInduction
<1>4. QED
  BY <1>3

\* A change at one place changes the sum by as much.
LEMMA SumUpdate ==
    ASSUME NEW f, NEW g, NEW S, IsFiniteSet(S), NEW x \in S,
           \A y \in S : f[y] \in Int /\ g[y] \in Int,
           \A y \in S \ {x} : f[y] = g[y]
    PROVE  SumFunctionOnSet(g, S) = SumFunctionOnSet(f, S) - f[x] + g[x]
<1> DEFINE T == S \ {x}
<1>1. IsFiniteSet(T)
  BY FS_Subset
<1>2. /\ SumFunctionOnSet(f, S) = f[x] + SumFunctionOnSet(f, T)
      /\ SumFunctionOnSet(g, S) = g[x] + SumFunctionOnSet(g, T)
  BY SumRemove
<1> HIDE DEF T
<1>3. SumFunctionOnSet(f, T) = SumFunctionOnSet(g, T)
  BY <1>1, SumSame DEF T
<1>4. SumFunctionOnSet(f, T) \in Int
  BY <1>1, SumInt DEF T
<1>5. f[x] \in Int /\ g[x] \in Int
  OBVIOUS
<1>6. QED
  BY <1>2, <1>3, <1>4, <1>5

\* Index sets that differ only where the function is 0 give the same sum.
LEMMA SumWiden ==
    ASSUME NEW f, NEW S, IsFiniteSet(S), NEW T \in SUBSET S,
           \A x \in S : f[x] \in Int, \A x \in S \ T : f[x] = 0
    PROVE  SumFunctionOnSet(f, T) = SumFunctionOnSet(f, S)
<1> DEFINE P == {s \in SUBSET S : T \subseteq s => SumFunctionOnSet(f, T) = SumFunctionOnSet(f, s)}
<1>1. {} \in P
  OBVIOUS
<1>2. ASSUME NEW s \in SUBSET S, s # {}, \A x \in s : s \ {x} \in P PROVE s \in P
  <2>1. SUFFICES ASSUME T \subseteq s, s # T
                 PROVE  SumFunctionOnSet(f, T) = SumFunctionOnSet(f, s)
    OBVIOUS
  <2>2. PICK x \in s : x \notin T
    BY <2>1
  <2>3. IsFiniteSet(s) /\ IsFiniteSet(s \ {x})
    BY FS_Subset
  <2>4. SumFunctionOnSet(f, T) = SumFunctionOnSet(f, s \ {x})
    BY <1>2, <2>1, <2>2
  <2>5. SumFunctionOnSet(f, s) = f[x] + SumFunctionOnSet(f, s \ {x}) /\ f[x] = 0
    BY <2>2, <2>3, SumRemove
  <2>6. SumFunctionOnSet(f, s \ {x}) \in Int
    BY <2>3, SumInt
  <2>7. QED
    BY <2>4, <2>5, <2>6
<1>3. S \in P
  <2>1. \A s \in SUBSET S : s # {} /\ (\A y \in s : s \ {y} \in P) => s \in P
    BY <1>2
  <2> HIDE DEF P
  <2>2. QED
    BY ONLY IsFiniteSet(S), <1>1, <2>1, SubsetInduction
<1>4. QED
  BY <1>3
\* A sum over 1..n + 1 is the sum over 1..n and the last term.
LEMMA SumExtend ==
    ASSUME NEW n \in Nat, NEW f, NEW g, \A i \in 1 .. n : f[i] = g[i],
           \A i \in 1 .. n + 1 : g[i] \in Int
    PROVE  SumFunctionOnSet(g, 1 .. n + 1) = SumFunctionOnSet(f, 1 .. n) + g[n + 1]
<1>1. IsFiniteSet(1 .. n) /\ IsFiniteSet(1 .. n + 1)
  BY FS_Interval
<1>2. (1 .. n + 1) \ {n + 1} = 1 .. n
  OBVIOUS
<1>3. SumFunctionOnSet(g, 1 .. n + 1) = g[n + 1] + SumFunctionOnSet(g, 1 .. n)
  BY <1>1, <1>2, SumRemove
<1>4. SumFunctionOnSet(g, 1 .. n) = SumFunctionOnSet(f, 1 .. n)
  BY <1>1, SumSame
<1>5. SumFunctionOnSet(g, 1 .. n) \in Int
  BY <1>1, SumInt
<1>6. QED
  BY <1>3, <1>4, <1>5

-----------------------------------------------------------------------------
(* SumFunction: sums over the whole domain of a function.                  *)

(* Integer-valued on a finite domain S.                                    *)
Summand(f, S) == IsFiniteSet(S) /\ f \in [S -> Int]

\* The sum of a function is its sum over its domain, an integer.
LEMMA FunSum ==
    ASSUME NEW S, NEW f, Summand(f, S)
    PROVE  SumFunction(f) = SumFunctionOnSet(f, S) /\ SumFunction(f) \in Int
<1>1. DOMAIN f = S /\ \A x \in S : f[x] \in Int
  BY DEF Summand
<1>2. SumFunction(f) = SumFunctionOnSet(f, S)
  BY <1>1 DEF SumFunction, SumFunctionOnSet, FoldFunction
<1>3. QED
  BY <1>1, <1>2, SumInt DEF Summand

\* Sums add up.
LEMMA FunSumPlus ==
    ASSUME NEW S, NEW f, NEW g, NEW h, Summand(f, S), Summand(g, S), Summand(h, S),
           \A x \in S : h[x] = f[x] + g[x]
    PROVE  SumFunction(h) = SumFunction(f) + SumFunction(g)
<1> DEFINE P == {s \in SUBSET S : SumFunctionOnSet(h, s)
                                    = SumFunctionOnSet(f, s) + SumFunctionOnSet(g, s)}
<1>1. {} \in P
  BY SumEmpty
<1>2. ASSUME NEW s \in SUBSET S, s # {}, \A x \in s : s \ {x} \in P PROVE s \in P
  <2> DEFINE p == Pick(s)
             r == s \ {p}
  <2>1. p \in s /\ p \in S /\ IsFiniteSet(s) /\ IsFiniteSet(r)
    BY <1>2, PickIn, FS_Subset DEF Summand
  <2>2. /\ SumFunctionOnSet(f, s) = f[p] + SumFunctionOnSet(f, r)
        /\ SumFunctionOnSet(g, s) = g[p] + SumFunctionOnSet(g, r)
        /\ SumFunctionOnSet(h, s) = h[p] + SumFunctionOnSet(h, r)
    BY <1>2, <2>1, SumPick
  <2>3. SumFunctionOnSet(h, r) = SumFunctionOnSet(f, r) + SumFunctionOnSet(g, r)
    BY <1>2, <2>1
  <2> HIDE DEF p, r
  <2>4. \A x \in r : f[x] \in Int /\ g[x] \in Int
    BY DEF Summand, r
  <2>5. SumFunctionOnSet(f, r) \in Int /\ SumFunctionOnSet(g, r) \in Int
    BY <2>1, <2>4, SumInt
  <2>6. f[p] \in Int /\ g[p] \in Int /\ h[p] = f[p] + g[p]
    BY <2>1 DEF Summand
  <2>7. SumFunctionOnSet(h, s) = SumFunctionOnSet(f, s) + SumFunctionOnSet(g, s)
    BY <2>2, <2>3, <2>5, <2>6
  <2>8. QED
    BY <2>7
<1>3. S \in P
  <2>1. \A s \in SUBSET S : s # {} /\ (\A y \in s : s \ {y} \in P) => s \in P
    BY <1>2
  <2>2. IsFiniteSet(S)
    BY DEF Summand
  <2> HIDE DEF P
  <2>3. QED
    BY ONLY <2>2, <1>1, <2>1, SubsetInduction
<1>4. QED
  BY <1>3, FunSum

\* The greater function has the greater sum.
LEMMA FunSumMono ==
    ASSUME NEW S, NEW f, NEW g, Summand(f, S), Summand(g, S), \A x \in S : f[x] <= g[x]
    PROVE  SumFunction(f) <= SumFunction(g)
<1> DEFINE P == {s \in SUBSET S : SumFunctionOnSet(f, s) <= SumFunctionOnSet(g, s)}
<1>1. {} \in P
  BY SumEmpty
<1>2. ASSUME NEW s \in SUBSET S, s # {}, \A x \in s : s \ {x} \in P PROVE s \in P
  <2> DEFINE p == Pick(s)
             r == s \ {p}
  <2>1. p \in s /\ p \in S /\ IsFiniteSet(s) /\ IsFiniteSet(r)
    BY <1>2, PickIn, FS_Subset DEF Summand
  <2>2. /\ SumFunctionOnSet(f, s) = f[p] + SumFunctionOnSet(f, r)
        /\ SumFunctionOnSet(g, s) = g[p] + SumFunctionOnSet(g, r)
    BY <1>2, <2>1, SumPick
  <2>3. SumFunctionOnSet(f, r) <= SumFunctionOnSet(g, r)
    BY <1>2, <2>1
  <2> HIDE DEF p, r
  <2>4. \A x \in r : f[x] \in Int /\ g[x] \in Int
    BY DEF Summand, r
  <2>5. SumFunctionOnSet(f, r) \in Int /\ SumFunctionOnSet(g, r) \in Int
    BY <2>1, <2>4, SumInt
  <2>6. f[p] \in Int /\ g[p] \in Int /\ f[p] <= g[p]
    BY <2>1 DEF Summand
  <2>7. SumFunctionOnSet(f, s) <= SumFunctionOnSet(g, s)
    BY <2>2, <2>3, <2>5, <2>6
  <2>8. QED
    BY <2>7
<1>3. S \in P
  <2>1. \A s \in SUBSET S : s # {} /\ (\A y \in s : s \ {y} \in P) => s \in P
    BY <1>2
  <2>2. IsFiniteSet(S)
    BY DEF Summand
  <2> HIDE DEF P
  <2>3. QED
    BY ONLY <2>2, <1>1, <2>1, SubsetInduction
<1>4. QED
  BY <1>3, FunSum

\* Products distribute over sums of integers.
LEMMA Distrib ==
    ASSUME NEW k \in Int, NEW a \in Int, NEW b \in Int
    PROVE  k * (a + b) = k * a + k * b /\ k * a \in Int
OBVIOUS

\* A common factor comes out of the sum.
LEMMA FunSumScale ==
    ASSUME NEW S, NEW f, NEW g, Summand(f, S), Summand(g, S), NEW k \in Int,
           \A x \in S : g[x] = k * f[x]
    PROVE  SumFunction(g) = k * SumFunction(f)
<1> DEFINE P == {s \in SUBSET S : SumFunctionOnSet(g, s) = k * SumFunctionOnSet(f, s)}
<1>1. {} \in P
  BY SumEmpty
<1>2. ASSUME NEW s \in SUBSET S, s # {}, \A x \in s : s \ {x} \in P PROVE s \in P
  <2> DEFINE p == Pick(s)
             r == s \ {p}
  <2>1. p \in s /\ p \in S /\ IsFiniteSet(s) /\ IsFiniteSet(r)
    BY <1>2, PickIn, FS_Subset DEF Summand
  <2>2. /\ SumFunctionOnSet(f, s) = f[p] + SumFunctionOnSet(f, r)
        /\ SumFunctionOnSet(g, s) = g[p] + SumFunctionOnSet(g, r)
    BY <1>2, <2>1, SumPick
  <2>3. SumFunctionOnSet(g, r) = k * SumFunctionOnSet(f, r)
    BY <1>2, <2>1
  <2> HIDE DEF p, r
  <2>4. \A x \in r : f[x] \in Int
    BY DEF Summand, r
  <2>5. SumFunctionOnSet(f, r) \in Int
    BY <2>1, <2>4, SumInt
  <2>6. f[p] \in Int /\ g[p] = k * f[p]
    BY <2>1 DEF Summand
  <2>7. SumFunctionOnSet(g, s) = k * SumFunctionOnSet(f, s)
    BY <2>2, <2>3, <2>5, <2>6, Distrib
  <2>8. QED
    BY <2>7
<1>3. S \in P
  <2>1. \A s \in SUBSET S : s # {} /\ (\A y \in s : s \ {y} \in P) => s \in P
    BY <1>2
  <2>2. IsFiniteSet(S)
    BY DEF Summand
  <2> HIDE DEF P
  <2>3. QED
    BY ONLY <2>2, <1>1, <2>1, SubsetInduction
<1>4. QED
  BY <1>3, FunSum

\* A constant is summed as often as the domain has elements.
LEMMA FunSumConst ==
    ASSUME NEW S, NEW f, Summand(f, S), NEW k \in Int, \A x \in S : f[x] = k
    PROVE  SumFunction(f) = k * Cardinality(S)
<1> DEFINE P == {s \in SUBSET S : SumFunctionOnSet(f, s) = k * Cardinality(s)}
<1>1. {} \in P
  BY SumEmpty, FS_EmptySet
<1>2. ASSUME NEW s \in SUBSET S, s # {}, \A x \in s : s \ {x} \in P PROVE s \in P
  <2> DEFINE p == Pick(s)
             r == s \ {p}
  <2>1. p \in s /\ p \in S /\ IsFiniteSet(s) /\ IsFiniteSet(r)
    BY <1>2, PickIn, FS_Subset DEF Summand
  <2>2. SumFunctionOnSet(f, s) = f[p] + SumFunctionOnSet(f, r)
    BY <1>2, <2>1, SumPick
  <2>3. SumFunctionOnSet(f, r) = k * Cardinality(r)
    BY <1>2, <2>1
  <2>4. Cardinality(r) = Cardinality(s) - 1 /\ Cardinality(s) \in Nat
    BY <2>1, FS_RemoveElement, FS_CardinalityType
  <2> HIDE DEF p, r
  <2>5. f[p] = k
    BY <2>1
  <2>6. k + k * Cardinality(r) = k * Cardinality(s)
    <3>1. Cardinality(s) = 1 + Cardinality(r) /\ Cardinality(r) \in Int /\ k * 1 = k
      BY <2>4
    <3>2. QED
      BY <3>1, Distrib
  <2>7. SumFunctionOnSet(f, s) = k * Cardinality(s)
    BY <2>2, <2>3, <2>5, <2>6
  <2>8. QED
    BY <2>7
<1>3. S \in P
  <2>1. \A s \in SUBSET S : s # {} /\ (\A y \in s : s \ {y} \in P) => s \in P
    BY <1>2
  <2>2. IsFiniteSet(S)
    BY DEF Summand
  <2> HIDE DEF P
  <2>3. QED
    BY ONLY <2>2, <1>1, <2>1, SubsetInduction
<1>4. QED
  BY <1>3, FunSum

\* The sum of naturals is a natural number.
LEMMA FunSumNat ==
    ASSUME NEW S, IsFiniteSet(S), NEW f \in [S -> Nat]
    PROVE  SumFunction(f) \in Nat
<1>1. Summand(f, S) /\ \A x \in S : f[x] \in Nat
  BY DEF Summand
<1>2. QED
  BY <1>1, FunSum, SumNat

\* Two sums may be taken in either order.
LEMMA FunSumSwap ==
    ASSUME NEW S, NEW T, IsFiniteSet(S), IsFiniteSet(T), NEW m \in [S -> [T -> Int]]
    PROVE  SumFunction([x \in S |-> SumFunction(m[x])])
             = SumFunction([y \in T |-> SumFunction([x \in S |-> m[x][y]])])
<1> DEFINE F == [x \in S |-> SumFunction(m[x])]
           Col == [y \in T |-> [x \in S |-> m[x][y]]]
           G(s) == [y \in T |-> SumFunctionOnSet(Col[y], s)]
           P == {s \in SUBSET S : SumFunctionOnSet(F, s) = SumFunction(G(s))}
<1>1. ASSUME NEW x \in S PROVE Summand(m[x], T) /\ F[x] = SumFunction(m[x]) /\ F[x] \in Int
  <2>1. Summand(m[x], T)
    BY DEF Summand
  <2>2. QED
    BY <2>1, FunSum
<1>2. ASSUME NEW y \in T
      PROVE  Summand(Col[y], S) /\ \A x \in S : Col[y][x] = m[x][y] /\ Col[y][x] \in Int
  BY DEF Summand
<1>3. ASSUME NEW s \in SUBSET S
      PROVE  Summand(G(s), T) /\ \A y \in T : G(s)[y] = SumFunctionOnSet(Col[y], s)
  <2>1. IsFiniteSet(s)
    BY FS_Subset
  <2>2. ASSUME NEW y \in T PROVE SumFunctionOnSet(Col[y], s) \in Int
    <3>1. \A x \in s : Col[y][x] \in Int
      BY <1>2
    <3> HIDE DEF Col
    <3>2. QED
      BY <2>1, <3>1, SumInt
  <2> HIDE DEF Col
  <2>3. QED
    BY <2>2 DEF Summand
<1> HIDE DEF F, Col, G
<1>4. {} \in P
  <2>1. Summand(G({}), T) /\ \A y \in T : G({})[y] = 0
    BY <1>3, SumEmpty
  <2>2. SumFunction(G({})) = 0 * Cardinality(T)
    BY <2>1, FunSumConst
  <2>3. SumFunction(G({})) = 0
    BY <2>2, FS_CardinalityType
  <2>4. QED
    BY <2>3, SumEmpty
<1>5. ASSUME NEW s \in SUBSET S, s # {}, \A x \in s : s \ {x} \in P PROVE s \in P
  <2> DEFINE p == Pick(s)
             r == s \ {p}
  <2>1. p \in s /\ p \in S /\ IsFiniteSet(s) /\ r \in SUBSET S /\ r \in P
    BY <1>5, PickIn, FS_Subset
  <2>2. SumFunctionOnSet(F, s) = F[p] + SumFunctionOnSet(F, r)
    BY <1>5, <2>1, SumPick
  <2>3. SumFunctionOnSet(F, r) = SumFunction(G(r))
    BY <2>1
  <2>4. ASSUME NEW y \in T PROVE G(s)[y] = m[p][y] + G(r)[y]
    <3>1. SumFunctionOnSet(Col[y], s) = Col[y][p] + SumFunctionOnSet(Col[y], r)
      BY <1>5, <2>1, SumPick
    <3>2. QED
      BY <1>2, <1>3, <2>1, <3>1
  <2> HIDE DEF p, r
  <2>5. SumFunction(G(s)) = SumFunction(m[p]) + SumFunction(G(r))
    BY <1>1, <1>3, <2>1, <2>4, FunSumPlus
  <2>6. SumFunctionOnSet(F, s) = SumFunction(G(s))
    BY <1>1, <2>1, <2>2, <2>3, <2>5
  <2>7. QED
    BY <2>6
<1>6. SumFunctionOnSet(F, S) = SumFunction(G(S))
  <2>1. \A s \in SUBSET S : s # {} /\ (\A y \in s : s \ {y} \in P) => s \in P
    BY <1>5
  <2>2. S \in P
    <3> HIDE DEF P
    <3> QED
      BY ONLY IsFiniteSet(S), <1>4, <2>1, SubsetInduction
  <2>3. QED
    BY <2>2
<1>7. SumFunction(F) = SumFunctionOnSet(F, S)
  <2>1. Summand(F, S)
    <3>1. F \in [S -> Int]
      BY <1>1 DEF F
    <3>2. QED
      BY <3>1 DEF Summand
  <2>2. QED
    BY <2>1, FunSum
<1>8. G(S) = [y \in T |-> SumFunction([x \in S |-> m[x][y]])]
  <2>1. \A y \in T : SumFunctionOnSet(Col[y], S) = SumFunction(Col[y])
    BY <1>2, FunSum
  <2>2. \A y \in T : Col[y] = [x \in S |-> m[x][y]]
    BY DEF Col
  <2>3. QED
    BY <2>1, <2>2 DEF G
<1>9. QED
  BY <1>6, <1>7, <1>8 DEF F

-----------------------------------------------------------------------------
(* Sums over the interval [b, e) and over tables of such rows.             *)

Row(f, b, e) == SumFunction([c \in b..(e - 1) |-> f[c]])
Grid(t, W, b, e) == SumFunction([w \in W |-> Row(t[w], b, e)])

(* Integers throughout the interval.                                       *)
IntRow(f, b, e) == b \in Int /\ e \in Int /\ \A c \in b..(e - 1) : f[c] \in Int
IntGrid(t, W, b, e) == IsFiniteSet(W) /\ \A w \in W : IntRow(t[w], b, e)

\* A row's sum is a sum over the interval.
LEMMA RowSum ==
    ASSUME NEW f, NEW b, NEW e, IntRow(f, b, e)
    PROVE  /\ Summand([c \in b..(e - 1) |-> f[c]], b..(e - 1))
           /\ Row(f, b, e) \in Int
           /\ Row(f, b, e) = SumFunctionOnSet(f, b..(e - 1))
<1> DEFINE I == b..(e - 1)
           g == [c \in I |-> f[c]]
<1>1. IsFiniteSet(I) /\ \A c \in I : f[c] \in Int
  BY FS_Interval DEF IntRow
<1>2. \A c \in I : g[c] = f[c]
  OBVIOUS
<1>3. Summand(g, I)
  BY <1>1 DEF Summand
<1>4. Row(f, b, e) = SumFunction(g)
  BY DEF Row
<1> HIDE DEF g, I
<1>5. SumFunctionOnSet(g, I) = SumFunctionOnSet(f, I)
  BY <1>1, <1>2, SumSame
<1>6. QED
  BY <1>3, <1>4, <1>5, FunSum DEF g, I

\* An empty row.
LEMMA RowEmpty ==
    ASSUME NEW f, NEW b \in Int, NEW e \in Int, e <= b
    PROVE  Row(f, b, e) = 0 /\ IntRow(f, b, e)
<1>1. IntRow(f, b, e) /\ b..(e - 1) = {}
  BY DEF IntRow
<1>2. QED
  BY <1>1, RowSum, SumEmpty

\* One more term.
LEMMA RowStep ==
    ASSUME NEW f, NEW b, NEW e, b <= e, IntRow(f, b, e + 1), e \in Int
    PROVE  IntRow(f, b, e) /\ Row(f, b, e + 1) = Row(f, b, e) + f[e]
<1>1. b \in Int /\ e + 1 - 1 = e /\ e \in b..e
  BY DEF IntRow
<1>2. \A c \in b..e : f[c] \in Int
  BY <1>1 DEF IntRow
<1>3. IntRow(f, b, e) /\ (b..e) \ {e} = b..(e - 1)
  BY <1>1, <1>2 DEF IntRow
<1>4. IsFiniteSet(b..e)
  BY <1>1, FS_Interval
<1>5. SumFunctionOnSet(f, b..e) = f[e] + SumFunctionOnSet(f, b..(e - 1))
  BY <1>1, <1>2, <1>3, <1>4, SumRemove
<1>6. Row(f, b, e + 1) = f[e] + Row(f, b, e) /\ Row(f, b, e) \in Int
  <2>1. Row(f, b, e + 1) = SumFunctionOnSet(f, b..(e + 1 - 1))
    <3> DEFINE n == e + 1
    <3>1. IntRow(f, b, n)
      OBVIOUS
    <3> HIDE DEF n
    <3>2. Row(f, b, n) = SumFunctionOnSet(f, b..(n - 1))
      BY <3>1, RowSum
    <3>3. QED
      BY <3>2 DEF n
  <2>2. Row(f, b, e) = SumFunctionOnSet(f, b..(e - 1)) /\ Row(f, b, e) \in Int
    BY <1>3, RowSum
  <2>3. QED
    BY <1>1, <1>5, <2>1, <2>2
<1>7. QED
  BY <1>1, <1>2, <1>3, <1>6

\* Rows that agree have the same sum.
LEMMA RowSame ==
    ASSUME NEW f, NEW g, NEW b, NEW e, \A c \in b..(e - 1) : f[c] = g[c]
    PROVE  Row(f, b, e) = Row(g, b, e)
<1>1. [c \in b..(e - 1) |-> f[c]] = [c \in b..(e - 1) |-> g[c]]
  OBVIOUS
<1>2. QED
  BY <1>1 DEF Row

\* Adjacent rows.
LEMMA RowJoin ==
    ASSUME NEW f, NEW b, NEW m \in Int, NEW e, b <= m, m <= e, IntRow(f, b, e)
    PROVE  /\ IntRow(f, b, m) /\ IntRow(f, m, e)
           /\ Row(f, b, e) = Row(f, b, m) + Row(f, m, e)
<1>1. b \in Int /\ e \in Int /\ IntRow(f, b, m) /\ IntRow(f, m, e)
  BY DEF IntRow
<1> DEFINE S == {n \in Nat : m + n <= e =>
                    Row(f, b, m + n) = Row(f, b, m) + Row(f, m, m + n)}
<1>2. 0 \in S
  <2>1. Row(f, m, m) = 0 /\ Row(f, b, m) \in Int
    <3>1. m <= m
      OBVIOUS
    <3>2. Row(f, m, m) = 0
      BY <3>1, RowEmpty, Zenon
    <3>3. QED
      BY <1>1, <3>2, RowSum
  <2>2. m + 0 = m
    OBVIOUS
  <2>3. QED
    BY <2>1, <2>2
<1>3. ASSUME NEW n \in Nat, n \in S PROVE n + 1 \in S
  <2> SUFFICES ASSUME m + (n + 1) <= e
               PROVE  Row(f, b, m + (n + 1)) = Row(f, b, m) + Row(f, m, m + (n + 1))
    OBVIOUS
  <2> DEFINE k == m + n
  <2>1. k \in Int /\ m + (n + 1) = k + 1 /\ b <= k /\ m <= k /\ k <= e
    BY <1>1
  <2>2. Row(f, b, k) = Row(f, b, m) + Row(f, m, k)
    BY <1>3, <2>1
  <2> HIDE DEF k
  <2>3. IntRow(f, b, k + 1) /\ IntRow(f, m, k + 1) /\ f[k] \in Int
    BY <1>1, <2>1 DEF IntRow
  <2>4. /\ Row(f, b, k + 1) = Row(f, b, k) + f[k]
        /\ Row(f, m, k + 1) = Row(f, m, k) + f[k] /\ IntRow(f, m, k)
    BY <2>1, <2>3, RowStep
  <2>5. Row(f, b, m) \in Int /\ Row(f, m, k) \in Int
    BY <1>1, <2>4, RowSum
  <2>6. QED
    BY <2>1, <2>2, <2>3, <2>4, <2>5
<1>4. e - m \in S
  <2> HIDE DEF S
  <2>1. e - m \in Nat
    BY <1>1
  <2>2. QED
    BY <1>2, <1>3, <2>1, NatSetInduction
<1>5. QED
  BY <1>1, <1>4

\* A table's sum is a sum of its rows' sums.
LEMMA GridSum ==
    ASSUME NEW t, NEW W, NEW b, NEW e, IntGrid(t, W, b, e)
    PROVE  Summand([w \in W |-> Row(t[w], b, e)], W) /\ Grid(t, W, b, e) \in Int
<1>1. Summand([w \in W |-> Row(t[w], b, e)], W)
  BY RowSum DEF IntGrid, Summand
<1>2. QED
  BY <1>1, FunSum DEF Grid

\* Adjacent tables.
LEMMA GridJoin ==
    ASSUME NEW t, NEW W, NEW b, NEW m \in Int, NEW e, b <= m, m <= e, IntGrid(t, W, b, e)
    PROVE  /\ IntGrid(t, W, b, m) /\ IntGrid(t, W, m, e)
           /\ Grid(t, W, b, e) = Grid(t, W, b, m) + Grid(t, W, m, e)
<1>1. ASSUME NEW w \in W
      PROVE  /\ IntRow(t[w], b, m) /\ IntRow(t[w], m, e)
             /\ Row(t[w], b, e) = Row(t[w], b, m) + Row(t[w], m, e)
  BY RowJoin DEF IntGrid
<1>2. IntGrid(t, W, b, m) /\ IntGrid(t, W, m, e)
  BY <1>1 DEF IntGrid
<1> DEFINE f == [w \in W |-> Row(t[w], b, m)]
           g == [w \in W |-> Row(t[w], m, e)]
           h == [w \in W |-> Row(t[w], b, e)]
<1>3. Summand(f, W) /\ Summand(g, W) /\ Summand(h, W)
  BY <1>2, GridSum
<1>4. \A w \in W : h[w] = f[w] + g[w]
  BY <1>1
<1> HIDE DEF f, g, h
<1>5. SumFunction(h) = SumFunction(f) + SumFunction(g)
  BY <1>3, <1>4, FunSumPlus
<1>6. QED
  BY <1>2, <1>5 DEF f, g, h, Grid

\* Tables that agree on the interval have the same sum.
LEMMA GridSame ==
    ASSUME NEW t, NEW u, NEW W, NEW b, NEW e, \A w \in W, c \in b..(e - 1) : t[w][c] = u[w][c]
    PROVE  Grid(t, W, b, e) = Grid(u, W, b, e)
<1>1. \A w \in W : Row(t[w], b, e) = Row(u[w], b, e)
  BY RowSame
<1>2. [w \in W |-> Row(t[w], b, e)] = [w \in W |-> Row(u[w], b, e)]
  BY <1>1
<1>3. QED
  BY <1>2 DEF Grid

(* The table u is k times the table t.                                     *)
Multiple(u, t, k, W, b, e) == \A w \in W, c \in b..(e - 1) : u[w][c] = k * t[w][c]

\* A table that is a multiple of another.
LEMMA GridScale ==
    ASSUME NEW t, NEW u, NEW W, NEW b, NEW e, IntGrid(t, W, b, e), NEW k \in Int,
           Multiple(u, t, k, W, b, e)
    PROVE  IntGrid(u, W, b, e) /\ Grid(u, W, b, e) = k * Grid(t, W, b, e)
<1>0. \A w \in W, c \in b..(e - 1) : u[w][c] = k * t[w][c]
  BY DEF Multiple
<1>1. IntGrid(u, W, b, e)
  BY <1>0, Distrib DEF IntGrid, IntRow
<1>2. ASSUME NEW w \in W PROVE Row(u[w], b, e) = k * Row(t[w], b, e)
  <2> DEFINE I == b..(e - 1)
             f == [c \in I |-> t[w][c]]
             g == [c \in I |-> u[w][c]]
  <2>1. Summand(f, I) /\ Summand(g, I)
    BY <1>1, RowSum DEF IntGrid
  <2>2. \A c \in I : g[c] = k * f[c]
    BY <1>0
  <2> HIDE DEF f, g, I
  <2>3. SumFunction(g) = k * SumFunction(f)
    BY <2>1, <2>2, FunSumScale
  <2>4. QED
    BY <2>3 DEF f, g, I, Row
<1> DEFINE F == [w \in W |-> Row(t[w], b, e)]
           G == [w \in W |-> Row(u[w], b, e)]
<1>3. Summand(F, W) /\ Summand(G, W)
  BY <1>1, GridSum
<1>4. \A w \in W : G[w] = k * F[w]
  BY <1>2
<1> HIDE DEF F, G
<1>5. SumFunction(G) = k * SumFunction(F)
  BY <1>3, <1>4, FunSumScale
<1>6. QED
  BY <1>1, <1>5 DEF F, G, Grid

\* A table of zeros.
LEMMA GridZero ==
    ASSUME NEW t, NEW W, NEW b \in Int, NEW e \in Int, IsFiniteSet(W),
           \A w \in W, c \in b..(e - 1) : t[w][c] = 0
    PROVE  IntGrid(t, W, b, e) /\ Grid(t, W, b, e) = 0
<1>1. IntGrid(t, W, b, e)
  BY DEF IntGrid, IntRow
<1> DEFINE k == 0
<1>2. k \in Int /\ Multiple(t, t, k, W, b, e)
  BY DEF Multiple
<1>3. Grid(t, W, b, e) \in Int
  BY <1>1, GridSum
<1>4. Grid(t, W, b, e) = k * Grid(t, W, b, e)
  <2> HIDE DEF k
  <2> QED
    BY <1>1, <1>2, GridScale
<1>5. QED
  BY <1>1, <1>3, <1>4

-----------------------------------------------------------------------------
(* Numbers.                                                                *)

\* The greater of two integers.
LEMMA Max2 ==
    ASSUME NEW a \in Int, NEW b \in Int
    PROVE  Max({a, b}) = IF a >= b THEN a ELSE b
BY DEF Max

\* The lesser of two integers.
LEMMA Min2 ==
    ASSUME NEW a \in Int, NEW b \in Int
    PROVE  Min({a, b}) = IF a <= b THEN a ELSE b
BY DEF Min

\* The least of three integers is one of them, and not above any.
LEMMA Min3 ==
    ASSUME NEW a \in Int, NEW b \in Int, NEW c \in Int
    PROVE  /\ Min({a, b, c}) \in {a, b, c}
           /\ Min({a, b, c}) <= a /\ Min({a, b, c}) <= b /\ Min({a, b, c}) <= c
BY DEF Min

\* Division by a positive number rounds down.
LEMMA DivBounds ==
    ASSUME NEW a \in Int, NEW b \in Nat \ {0}
    PROVE  a \div b \in Int /\ (a \div b) * b <= a /\ a < (a \div b) * b + b
OBVIOUS

\* Division keeps naturals natural and does not make them greater.
LEMMA DivNat ==
    ASSUME NEW a \in Nat, NEW b \in Nat \ {0}
    PROVE  a \div b \in Nat /\ a \div b <= a
OBVIOUS

\* What fits b times into a is not above the quotient.
LEMMA DivGreatest ==
    ASSUME NEW a \in Int, NEW b \in Nat \ {0}, NEW c \in Int, c * b <= a
    PROVE  c <= a \div b
OBVIOUS

\* The remainder.
LEMMA DivMod ==
    ASSUME NEW a \in Int, NEW b \in Nat \ {0}
    PROVE  a = (a \div b) * b + (a % b) /\ a % b \in 0 .. b - 1
OBVIOUS

\* Products of naturals are natural.
LEMMA MulNat ==
    ASSUME NEW a \in Nat, NEW b \in Nat
    PROVE  a * b \in Nat
OBVIOUS

\* Multiplication by a natural number is monotonic.
LEMMA MulMono ==
    ASSUME NEW a \in Int, NEW b \in Int, NEW c \in Nat, a <= b
    PROVE  a * c <= b * c
OBVIOUS

\* A positive factor cancels.
LEMMA CancelLess ==
    ASSUME NEW a \in Int, NEW b \in Int, NEW k \in Nat \ {0}, a * k < b * k
    PROVE  a < b
<1>1. SUFFICES ASSUME b <= a PROVE FALSE
  OBVIOUS
<1>2. b * k <= a * k /\ a * k \in Int /\ b * k \in Int
  BY <1>1, MulMono
<1>3. QED
  BY <1>2

\* A positive factor cancels from a weak inequality too.
LEMMA CancelLeq ==
    ASSUME NEW a \in Int, NEW b \in Int, NEW k \in Nat \ {0}, k * a <= k * b
    PROVE  a <= b
<1>1. SUFFICES ASSUME b + 1 <= a PROVE FALSE
  OBVIOUS
<1>2. (b + 1) * k <= a * k
  BY <1>1, MulMono
<1>3. k * (b + 1) = k * b + k * 1 /\ k * 1 = k /\ (b + 1) * k = k * (b + 1) /\ a * k = k * a
  BY Distrib
<1>4. k * b \in Int /\ k * a \in Int
  BY Distrib
<1>5. QED
  BY <1>2, <1>3, <1>4

\* A row of zeros.
LEMMA RowZero ==
    ASSUME NEW f, NEW b, NEW e, b \in Int, e \in Int, \A c \in b..(e - 1) : f[c] = 0
    PROVE  Row(f, b, e) = 0 /\ IntRow(f, b, e)
<1>1. IntRow(f, b, e)
  BY DEF IntRow
<1> DEFINE I == b..(e - 1)
           g == [c \in I |-> f[c]]
<1>2. Summand(g, I) /\ Row(f, b, e) = SumFunction(g)
  BY <1>1, RowSum DEF Row
<1>3. (\A c \in I : g[c] = 0) /\ IsFiniteSet(I)
  BY <1>2 DEF Summand
<1> HIDE DEF g, I
<1>4. SumFunction(g) = 0 * Cardinality(I) /\ Cardinality(I) \in Nat
  <2>1. 0 \in Int
    OBVIOUS
  <2>2. QED
    BY <1>2, <1>3, <2>1, FunSumConst, FS_CardinalityType
<1>5. QED
  BY <1>1, <1>2, <1>4

(* f and g agree in the interval but for x.                                *)
AgreeBut(f, g, x, b, e) == x \in b..(e - 1) /\ \A c \in (b..(e - 1)) \ {x} : f[c] = g[c]

\* One term changes.
LEMMA RowUpdate ==
    ASSUME NEW f, NEW g, NEW b, NEW e, IntRow(f, b, e), IntRow(g, b, e), NEW x,
           AgreeBut(f, g, x, b, e)
    PROVE  Row(g, b, e) = Row(f, b, e) - f[x] + g[x]
<1> DEFINE I == b..(e - 1)
<1>1. /\ Row(f, b, e) = SumFunctionOnSet(f, I) /\ Row(g, b, e) = SumFunctionOnSet(g, I)
      /\ IsFiniteSet(I)
  BY RowSum DEF Summand
<1>2. \A c \in I : f[c] \in Int /\ g[c] \in Int
  BY DEF IntRow
<1>3. x \in I /\ IsFiniteSet(I) /\ \A c \in I \ {x} : f[c] = g[c]
  BY <1>1 DEF AgreeBut
<1> HIDE DEF I
<1>4. SumFunctionOnSet(g, I) = SumFunctionOnSet(f, I) - f[x] + g[x]
  BY ONLY <1>2, <1>3, SumUpdate
<1>5. QED
  BY <1>1, <1>4

(* g is f moved up by p places, with zeros below.                          *)
MovedRow(g, f, p, n) ==
    (\A c \in 0..(p - 1) : g[c] = 0) /\ (\A c \in 0..(n - 1) : g[p + c] = f[c])

\* A row that is moved up keeps its sum.
LEMMA RowShift ==
    ASSUME NEW f, NEW g, NEW p \in Nat, NEW n \in Nat, IntRow(f, 0, n), MovedRow(g, f, p, n)
    PROVE  Row(g, 0, p + n) = Row(f, 0, n)
<1> DEFINE S == {k \in Nat : k <= n => Row(g, 0, p + k) = Row(f, 0, k) /\ IntRow(g, 0, p + k)}
<1>1. 0 \in S
  <2>1. Row(g, 0, p) = 0 /\ IntRow(g, 0, p)
    BY RowZero DEF MovedRow
  <2>2. 0 \in Int /\ 0 <= 0 /\ p + 0 = p
    OBVIOUS
  <2>3. Row(f, 0, 0) = 0
    BY <2>2, RowEmpty, Zenon
  <2>4. QED
    BY <2>1, <2>2, <2>3
<1>2. ASSUME NEW k \in Nat, k \in S PROVE k + 1 \in S
  <2> SUFFICES ASSUME k + 1 <= n
               PROVE  Row(g, 0, p + (k + 1)) = Row(f, 0, k + 1) /\ IntRow(g, 0, p + (k + 1))
    OBVIOUS
  <2> DEFINE m == p + k
  <2>1. m \in Int /\ p + (k + 1) = m + 1 /\ 0 <= m /\ k \in 0..(n - 1) /\ k \in Int /\ 0 <= k
    OBVIOUS
  <2>2. Row(g, 0, m) = Row(f, 0, k) /\ IntRow(g, 0, m) /\ g[m] = f[k]
    BY <1>2, <2>1 DEF MovedRow
  <2>3. IntRow(f, 0, k + 1) /\ f[k] \in Int
    BY <2>1 DEF IntRow
  <2> HIDE DEF m
  <2>4. IntRow(g, 0, m + 1)
    BY <2>1, <2>2, <2>3 DEF IntRow
  <2>5. Row(g, 0, m + 1) = Row(g, 0, m) + g[m]
    BY <2>1, <2>4, RowStep
  <2>6. Row(f, 0, k + 1) = Row(f, 0, k) + f[k]
    BY <2>1, <2>3, RowStep
  <2>7. QED
    BY <2>1, <2>2, <2>4, <2>5, <2>6
<1>3. n \in S
  <2> HIDE DEF S
  <2>1. QED
    BY <1>1, <1>2, NatSetInduction
<1>4. QED
  BY <1>3

(* f's terms are k times the differences of v.                             *)
Differences(f, v, k, b, e) ==
    /\ \A c \in (b - 1)..(e - 1) : v[c] \in Int
    /\ \A c \in b..(e - 1) : f[c] = k * (v[c] - v[c - 1])

\* Differences that telescope, with a common factor.
LEMMA RowTelescopes ==
    ASSUME NEW f, NEW v, NEW k \in Int, NEW b \in Int, NEW e \in Int, b <= e,
           Differences(f, v, k, b, e)
    PROVE  IntRow(f, b, e) /\ Row(f, b, e) = k * (v[e - 1] - v[b - 1])
<1>0. /\ \A c \in (b - 1)..(e - 1) : v[c] \in Int
      /\ \A c \in b..(e - 1) : f[c] = k * (v[c] - v[c - 1])
  BY DEF Differences
<1>1. ASSUME NEW c \in b..(e - 1) PROVE f[c] \in Int /\ v[c] \in Int /\ v[c - 1] \in Int
  <2>1. c \in (b - 1)..(e - 1) /\ c - 1 \in (b - 1)..(e - 1)
    OBVIOUS
  <2>2. v[c] \in Int /\ v[c - 1] \in Int
    BY <1>0, <2>1
  <2>3. v[c] - v[c - 1] \in Int
    BY <2>2
  <2>4. QED
    BY <1>0, <2>2, <2>3, Distrib
<1>2. IntRow(f, b, e)
  BY <1>1 DEF IntRow
<1> DEFINE S == {n \in Nat : b + n <= e => Row(f, b, b + n) = k * (v[(b + n) - 1] - v[b - 1])}
<1>3. 0 \in S
  <2>1. b + 0 = b /\ b <= b /\ v[b - 1] \in Int
    BY <1>0
  <2>2. Row(f, b, b) = 0
    BY <2>1, RowEmpty, Zenon
  <2>3. k * (v[b - 1] - v[b - 1]) = 0
    <3>1. v[b - 1] - v[b - 1] = 0
      BY <2>1
    <3>2. QED
      BY <3>1
  <2>4. QED
    BY <2>1, <2>2, <2>3
<1>4. ASSUME NEW n \in Nat, n \in S PROVE n + 1 \in S
  <2> SUFFICES ASSUME b + (n + 1) <= e
               PROVE  Row(f, b, b + (n + 1)) = k * (v[(b + (n + 1)) - 1] - v[b - 1])
    OBVIOUS
  <2> DEFINE m == b + n
  <2>1. m \in b..(e - 1) /\ b + (n + 1) = m + 1 /\ (m + 1) - 1 = m /\ b <= m /\ m \in Int
    OBVIOUS
  <2>2. Row(f, b, m) = k * (v[m - 1] - v[b - 1])
    BY <1>4, <2>1
  <2> HIDE DEF m
  <2>3. IntRow(f, b, m + 1)
    BY <1>1, <2>1 DEF IntRow
  <2>4. Row(f, b, m + 1) = Row(f, b, m) + f[m]
    BY <2>1, <2>3, RowStep
  <2>5. f[m] = k * (v[m] - v[m - 1]) /\ v[m] \in Int /\ v[m - 1] \in Int /\ v[b - 1] \in Int
    BY <1>0, <1>1, <2>1
  <2> DEFINE x == v[m - 1] - v[b - 1]
             y == v[m] - v[m - 1]
  <2>6. x \in Int /\ y \in Int /\ x + y = v[m] - v[b - 1]
    BY <2>5
  <2>7. Row(f, b, m + 1) = k * x + k * y
    BY <2>2, <2>4, <2>5
  <2> HIDE DEF x, y
  <2>8. k * (x + y) = k * x + k * y
    BY <2>6, Distrib
  <2>9. QED
    BY <2>1, <2>6, <2>7, <2>8
<1>5. e - b \in S
  <2> HIDE DEF S
  <2>1. e - b \in Nat
    OBVIOUS
  <2>2. QED
    BY <1>3, <1>4, <2>1, NatSetInduction
<1>6. b + (e - b) = e
  OBVIOUS
<1>7. QED
  BY <1>2, <1>5, <1>6

\* Bounds of terms add up to bounds of the sums.
LEMMA RowBounds ==
    ASSUME NEW f, NEW g, NEW b, NEW e, NEW d \in Nat \ {0}, NEW l \in {0, 1}, b <= e,
           IntRow(f, b, e), IntRow(g, b, e),
           \A c \in b..(e - 1) : d * (f[c] - l) <= g[c] /\ g[c] + 1 <= d * (f[c] + 1)
    PROVE  /\ d * (Row(f, b, e) - l * (e - b)) <= Row(g, b, e)
           /\ Row(g, b, e) + (e - b) <= d * (Row(f, b, e) + (e - b))
<1>0. b \in Int /\ e \in Int
  BY DEF IntRow
<1> DEFINE Bounded(n) == /\ d * (Row(f, b, b + n) - l * n) <= Row(g, b, b + n)
                         /\ Row(g, b, b + n) + n <= d * (Row(f, b, b + n) + n)
           S == {n \in Nat : b + n <= e => Bounded(n)}
<1>1. 0 \in S
  <2>1. b + 0 = b /\ b <= b
    BY <1>0
  <2>2. Row(f, b, b) = 0 /\ Row(g, b, b) = 0
    BY <1>0, <2>1, RowEmpty, Zenon
  <2>3. d * (0 - l * 0) = 0 /\ d * (0 + 0) = 0
    OBVIOUS
  <2>4. QED
    BY <2>1, <2>2, <2>3
<1>2. ASSUME NEW n \in Nat, n \in S PROVE n + 1 \in S
  <2> SUFFICES ASSUME b + (n + 1) <= e PROVE Bounded(n + 1)
    OBVIOUS
  <2> DEFINE m == b + n
             F == Row(f, b, m)
             G == Row(g, b, m)
  <2>1. m \in b..(e - 1) /\ b + (n + 1) = m + 1 /\ b <= m /\ m \in Int
    BY <1>0
  <2>2. d * (F - l * n) <= G /\ G + n <= d * (F + n)
    BY <1>0, <1>2, <2>1
  <2>3. d * (f[m] - l) <= g[m] /\ g[m] + 1 <= d * (f[m] + 1)
    BY <2>1
  <2> HIDE DEF m
  <2>4. IntRow(f, b, m + 1) /\ IntRow(g, b, m + 1) /\ f[m] \in Int /\ g[m] \in Int
    BY <2>1 DEF IntRow
  <2>5. /\ Row(f, b, m + 1) = F + f[m] /\ Row(g, b, m + 1) = G + g[m]
        /\ IntRow(f, b, m) /\ IntRow(g, b, m)
    BY <2>1, <2>4, RowStep
  <2>6. F \in Int /\ G \in Int
    BY <2>5, RowSum
  <2> HIDE DEF F, G
  <2>7. l * n \in Int /\ l * (n + 1) = l * n + l
    OBVIOUS
  <2> DEFINE x == F - l * n
             y == f[m] - l
             p == F + n
             q == f[m] + 1
  <2>8. x \in Int /\ y \in Int /\ x + y = (F + f[m]) - l * (n + 1)
    BY <2>4, <2>6, <2>7
  <2>9. p \in Int /\ q \in Int /\ p + q = (F + f[m]) + (n + 1)
    BY <2>4, <2>6
  <2>10. d * x <= G /\ d * y <= g[m] /\ G + n <= d * p /\ g[m] + 1 <= d * q
    BY <2>2, <2>3
  <2> HIDE DEF x, y, p, q
  <2>11. d * (x + y) = d * x + d * y /\ d * (p + q) = d * p + d * q
    BY <2>8, <2>9, Distrib
  <2>12. d * x \in Int /\ d * y \in Int /\ d * p \in Int /\ d * q \in Int
    BY <2>8, <2>9, Distrib
  <2>13. d * (x + y) <= G + g[m] /\ (G + g[m]) + (n + 1) <= d * (p + q)
    BY <2>4, <2>6, <2>10, <2>11, <2>12
  <2>14. QED
    BY <2>1, <2>5, <2>8, <2>9, <2>13
<1>3. e - b \in S
  <2> HIDE DEF S
  <2>1. e - b \in Nat
    BY <1>0
  <2>2. QED
    BY <1>1, <1>2, <2>1, NatSetInduction
<1>4. b + (e - b) = e /\ b + (e - b) <= e
  BY <1>0
<1>5. QED
  BY <1>3, <1>4

-----------------------------------------------------------------------------
(* Powers of two.                                                          *)

\* 2^n counts the subsets of a set of n elements.
LEMMA PowSubsets ==
    ASSUME NEW n \in Nat
    PROVE  IsFiniteSet(SUBSET (1 .. n)) /\ Cardinality(SUBSET (1 .. n)) = 2 ^ n
<1>1. IsFiniteSet(1 .. n) /\ Cardinality(1 .. n) = n
  BY FS_Interval
<1>2. QED
  BY <1>1, FS_SUBSET

\* ... so that it is a number,
LEMMA PowNat == ASSUME NEW n \in Nat PROVE 2 ^ n \in Nat
  BY PowSubsets, FS_CardinalityType

\* ... one at first,
LEMMA PowZero == 2 ^ 0 = 1
  BY SMT

\* ... that doubles with each element more.
LEMMA PowNext ==
    ASSUME NEW n \in Nat
    PROVE  2 ^ (n + 1) = 2 * 2 ^ n
<1> DEFINE A == SUBSET (1 .. n)
           B == {a \cup {n + 1} : a \in A}
           f == [a \in A |-> a \cup {n + 1}]
<1>1. SUBSET (1 .. n + 1) = A \cup B
  <2>1. ASSUME NEW s \in SUBSET (1 .. n + 1) PROVE s \in A \cup B
    <3>1. CASE n + 1 \in s
      <4>1. s \ {n + 1} \in A /\ s = (s \ {n + 1}) \cup {n + 1}
        BY <3>1
      <4>2. QED
        BY <4>1
    <3>2. CASE n + 1 \notin s
      BY <3>2
    <3>3. QED
      BY <3>1, <3>2
  <2>2. \A a \in A : a \in SUBSET (1 .. n + 1) /\ a \cup {n + 1} \in SUBSET (1 .. n + 1)
    OBVIOUS
  <2>3. \A s \in A \cup B : s \in SUBSET (1 .. n + 1)
    BY <2>2
  <2> HIDE DEF A, B
  <2>4. QED
    BY <2>1, <2>3, Zenon
<1>2. A \cap B = {}
  <2>1. n + 1 \notin 1 .. n
    OBVIOUS
  <2>2. QED
    BY <2>1
<1>3. f \in Bijection(A, B)
  <2>1. \A a \in A : n + 1 \notin a
    OBVIOUS
  <2>2. \A a, b \in A : f[a] = f[b] => a = b
    <3> TAKE a, b \in A
    <3>1. a = (a \cup {n + 1}) \ {n + 1} /\ b = (b \cup {n + 1}) \ {n + 1}
      BY <2>1
    <3>2. QED
      BY <3>1
  <2>3. f \in [A -> B] /\ \A b \in B : \E a \in A : f[a] = b
    OBVIOUS
  <2> HIDE DEF f, A, B
  <2>4. QED
    BY <2>2, <2>3 DEF Bijection, Injection, Surjection, IsInjective
<1>4. IsFiniteSet(A) /\ Cardinality(A) = 2 ^ n /\ 2 ^ n \in Nat
  BY PowSubsets, PowNat
<1>5. Cardinality(SUBSET (1 .. n + 1)) = 2 ^ (n + 1)
  BY PowSubsets
<1> HIDE DEF A, B, f
<1>6. IsFiniteSet(B) /\ Cardinality(B) = Cardinality(A)
  BY <1>3, <1>4, FS_Bijection DEF ExistsBijection
<1>7. Cardinality(A \cup B) = Cardinality(A) + Cardinality(B) - 0
  BY <1>2, <1>4, <1>6, FS_Union, FS_EmptySet
<1> DEFINE p == 2 ^ n
           q == 2 ^ (n + 1)
<1>8. p \in Nat /\ Cardinality(A) = p /\ Cardinality(B) = p /\ Cardinality(A \cup B) = q
  BY <1>1, <1>4, <1>5, <1>6, Zenon
<1> HIDE DEF p, q
<1>9. q = 2 * p
  BY <1>7, <1>8
<1>10. QED
  BY <1>9, Zenon DEF p, q

\* A power of two is at least one.
LEMMA PowPositive ==
    ASSUME NEW n \in Nat
    PROVE  2 ^ n \in Nat \ {0}
<1> DEFINE S == {k \in Nat : 2 ^ k \in Nat \ {0}}
<1>1. 0 \in S
  BY PowZero
<1>2. ASSUME NEW k \in Nat, k \in S PROVE k + 1 \in S
  BY <1>2, PowNext
<1> HIDE DEF S
<1>3. Nat \subseteq S
  BY <1>1, <1>2, NatSetInduction
<1>4. QED
  BY <1>3 DEF S

\* Powers multiply.
LEMMA PowSum ==
    ASSUME NEW m \in Nat, NEW n \in Nat
    PROVE  2 ^ (m + n) = 2 ^ m * 2 ^ n
<1> DEFINE S == {k \in Nat : 2 ^ (m + k) = 2 ^ m * 2 ^ k}
<1>1. 0 \in S
  <2>1. m + 0 = m /\ 2 ^ m \in Nat
    BY PowNat
  <2>2. QED
    BY <2>1, PowZero
<1>2. ASSUME NEW k \in Nat, k \in S PROVE k + 1 \in S
  <2> DEFINE a == 2 ^ m
             b == 2 ^ k
  <2>1. a \in Nat /\ b \in Nat
    BY PowNat
  <2>2. m + (k + 1) = (m + k) + 1 /\ m + k \in Nat
    OBVIOUS
  <2>3. 2 ^ ((m + k) + 1) = 2 * 2 ^ (m + k) /\ 2 ^ (k + 1) = 2 * b
    BY <2>2, PowNext
  <2>4. 2 ^ (m + k) = a * b
    BY <1>2
  <2> HIDE DEF a, b
  <2>5. 2 * (a * b) = a * (2 * b)
    BY <2>1
  <2>6. 2 ^ (m + (k + 1)) = a * 2 ^ (k + 1)
    BY <2>2, <2>3, <2>4, <2>5
  <2>7. QED
    BY <2>6 DEF a
<1> HIDE DEF S
<1>3. Nat \subseteq S
  BY <1>1, <1>2, NatSetInduction
<1>4. QED
  BY <1>3 DEF S

\* ... and grow.
LEMMA PowMono ==
    ASSUME NEW m \in Nat, NEW n \in Nat, m <= n
    PROVE  2 ^ m <= 2 ^ n
<1> DEFINE d == n - m
           a == 2 ^ m
           b == 2 ^ d
<1>1. d \in Nat /\ n = m + d
  OBVIOUS
<1> HIDE DEF d
<1>2. 2 ^ n = a * b /\ a \in Nat /\ b \in Nat \ {0}
  BY <1>1, PowSum, PowNat, PowPositive
<1> HIDE DEF a, b
<1>3. a * 1 <= a * b
  BY <1>2, MulMono
<1>4. QED
  BY <1>2, <1>3 DEF a

=============================================================================
