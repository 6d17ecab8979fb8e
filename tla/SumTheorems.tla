---------------------------- MODULE SumTheorems -----------------------------
(***************************************************************************)
(* Sums of a function over a finite set of indices: what the theorems      *)
(* about conserved amounts rest on.  The models take SumFunctionOnSet from *)
(* the community module Functions, where it is a recursive function over   *)
(* the subsets of the indices that takes some element out each time.       *)
(*                                                                         *)
(* Induction is over sets of numbers and of subsets, never over an         *)
(* operator: the set of counterexamples has a least element.               *)
(***************************************************************************)
EXTENDS Functions, FiniteSets, FiniteSetTheorems, WellFoundedInduction, TLAPS

\* The element the recursion takes out of a set.
Pick(s) == CHOOSE x \in s : TRUE

\* The equation of the recursion, which defines the sums of all subsets of S.
Sums(it, f, S) ==
    it = [s \in SUBSET S |-> IF s = {} THEN 0
                             ELSE f[Pick(s)] + it[s \ {Pick(s)}]]

\* A set of numbers with 0 and the successor of its elements holds them all.
LEMMA SetOfNumbers ==
    ASSUME NEW T, 0 \in T, \A n \in Nat : n \in T => n + 1 \in T
    PROVE  \A n \in Nat : n \in T
<1> SUFFICES ASSUME NEW m \in Nat \ T PROVE FALSE
    OBVIOUS
<1> DEFINE Out == Nat \ T
<1>1. Out \subseteq Nat /\ Out # {}
    OBVIOUS
<1>2. \E x \in Out : \A y \in Out : ~(<<y, x>> \in OpToRel(<, Nat))
  <2> HIDE DEF Out
  <2> QED BY <1>1, NatLessThanWellFounded, WFMin
<1>3. PICK x \in Out : \A y \in Out : ~(y < x)
    BY <1>2 DEF OpToRel
<1>4. x \in Nat /\ x \notin T
    OBVIOUS
<1>5. x # 0 /\ x - 1 \in Nat /\ (x - 1) + 1 = x
    BY <1>4
<1>6. x - 1 \in T
    BY <1>3, <1>4, <1>5
<1> QED BY <1>4, <1>5, <1>6

\* What holds of the empty set and is kept when one element of S is added
\* holds of the finite set S.
LEMMA SubsetInduction ==
    ASSUME NEW S, IsFiniteSet(S), NEW T, {} \in T,
           \A s \in SUBSET S : \A x \in S \ s : s \in T => s \cup {x} \in T
    PROVE  S \in T
<1> DEFINE N == {n \in Nat : \A s \in SUBSET S : Cardinality(s) = n => s \in T}
<1>1. \A s \in SUBSET S : IsFiniteSet(s)
    BY FS_Subset
<1>2. 0 \in N
  <2>1. \A s \in SUBSET S : Cardinality(s) = 0 => s = {}
      BY <1>1, FS_EmptySet
  <2> QED BY <2>1
<1>3. ASSUME NEW n \in Nat, n \in N
      PROVE  n + 1 \in N
  <2> SUFFICES ASSUME NEW s \in SUBSET S, Cardinality(s) = n + 1
               PROVE  s \in T
      OBVIOUS
  <2>1. s # {}
      BY <1>1, FS_EmptySet
  <2>2. PICK x : x \in s
      BY <2>1
  <2>3. Cardinality(s \ {x}) = Cardinality(s) - 1
      BY <1>1, <2>2, FS_RemoveElement
  <2>4. s \ {x} \in T
      BY <1>3, <2>3
  <2>5. (s \ {x}) \cup {x} = s
      BY <2>2
  <2> QED BY <2>2, <2>4, <2>5
<1>4. \A n \in Nat : n \in N
  <2>1. \A n \in Nat : n \in N => n + 1 \in N
      BY <1>3
  <2> HIDE DEF N
  <2> QED BY <1>2, <2>1, SetOfNumbers
<1> QED BY <1>1, <1>4, FS_CardinalityType

-----------------------------------------------------------------------------
(* The recursion is well defined.                                          *)

\* The equation has a solution.
LEMMA SumsExist ==
    ASSUME NEW f, NEW S, IsFiniteSet(S), \A x \in S : f[x] \in Int
    PROVE  \E it : Sums(it, f, S)
<1> DEFINE Body(g, s) == IF s = {} THEN 0 ELSE f[Pick(s)] + g[s \ {Pick(s)}]
           Small(n) == {s \in SUBSET S : Cardinality(s) <= n}
           N == {n \in Nat : \E g \in [SUBSET S -> Int] :
                    \A s \in Small(n) : g[s] = Body(g, s)}
<1>1. \A s \in SUBSET S : IsFiniteSet(s) /\ Cardinality(s) \in Nat
    BY FS_Subset, FS_CardinalityType
<1>2. \A s \in SUBSET S : s # {} =>
        /\ Pick(s) \in s /\ s \ {Pick(s)} \in SUBSET S
        /\ Cardinality(s \ {Pick(s)}) = Cardinality(s) - 1
    BY <1>1, FS_RemoveElement DEF Pick
<1>3. 0 \in N
  <2> DEFINE g == [s \in SUBSET S |-> 0]
  <2>1. \A s \in Small(0) : s = {}
      BY <1>1, FS_EmptySet
  <2>2. g \in [SUBSET S -> Int] /\ \A s \in Small(0) : g[s] = Body(g, s)
      BY <2>1
  <2> HIDE DEF g
  <2> QED BY <2>2
<1>4. ASSUME NEW n \in Nat, n \in N
      PROVE  n + 1 \in N
  <2>1. PICK g \in [SUBSET S -> Int] : \A s \in Small(n) : g[s] = Body(g, s)
      BY <1>4
  <2> DEFINE h == [s \in SUBSET S |-> Body(g, s)]
  <2>2. h \in [SUBSET S -> Int]
      BY <1>2, <2>1
  <2>3. \A s \in Small(n) : h[s] = g[s]
      BY <2>1
  <2>4. ASSUME NEW s \in Small(n + 1)
        PROVE  h[s] = Body(h, s)
    <3>1. CASE s = {}
        BY <3>1
    <3>2. CASE s # {}
      <4>1. s \ {Pick(s)} \in Small(n)
          BY <1>1, <1>2, <2>4, <3>2
      <4>2. h[s] = f[Pick(s)] + g[s \ {Pick(s)}]
          BY <2>4, <3>2
      <4> HIDE DEF h
      <4> QED BY <2>3, <3>2, <4>1, <4>2
    <3> QED BY <3>1, <3>2
  <2> HIDE DEF h
  <2>5. \E k \in [SUBSET S -> Int] : \A s \in Small(n + 1) : k[s] = Body(k, s)
      BY <2>2, <2>4
  <2> HIDE DEF Small, Body
  <2> QED BY <2>5
<1>5. \A n \in Nat : n \in N
  <2>1. \A n \in Nat : n \in N => n + 1 \in N
      BY <1>4
  <2> HIDE DEF N
  <2> QED BY <1>3, <2>1, SetOfNumbers
<1>6. PICK g \in [SUBSET S -> Int] :
        \A s \in Small(Cardinality(S)) : g[s] = Body(g, s)
    BY <1>1, <1>5
<1>7. \A s \in SUBSET S : s \in Small(Cardinality(S))
    BY <1>1, FS_Subset
<1>8. g = [s \in SUBSET S |-> Body(g, s)]
    BY <1>6, <1>7
<1> QED BY <1>8 DEF Sums

\* Solutions for two functions and sets agree wherever the functions do.
LEMMA SumsAgree ==
    ASSUME NEW f, NEW g, NEW A, NEW B, NEW i, NEW j, NEW S,
           Sums(i, f, A), Sums(j, g, B), IsFiniteSet(S),
           S \subseteq A, S \subseteq B, \A x \in S : f[x] = g[x]
    PROVE  i[S] = j[S]
<1> DEFINE N == {n \in Nat : \A s \in SUBSET S :
                    Cardinality(s) = n => i[s] = j[s]}
<1>1. \A s \in SUBSET S : IsFiniteSet(s) /\ Cardinality(s) \in Nat
    BY FS_Subset, FS_CardinalityType
<1>2. i[{}] = 0 /\ j[{}] = 0
    BY DEF Sums
<1>3. \A s \in SUBSET S : s # {} =>
        /\ i[s] = f[Pick(s)] + i[s \ {Pick(s)}]
        /\ j[s] = g[Pick(s)] + j[s \ {Pick(s)}]
    BY DEF Sums
<1>4. 0 \in N
    BY <1>1, <1>2, FS_EmptySet
<1>5. ASSUME NEW n \in Nat, n \in N
      PROVE  n + 1 \in N
  <2> SUFFICES ASSUME NEW s \in SUBSET S, Cardinality(s) = n + 1
               PROVE  i[s] = j[s]
      OBVIOUS
  <2>1. s # {}
      BY <1>1, FS_EmptySet
  <2>2. Pick(s) \in s
      BY <2>1 DEF Pick
  <2>3. Cardinality(s \ {Pick(s)}) = n
      BY <1>1, <2>2, FS_RemoveElement
  <2>4. i[s \ {Pick(s)}] = j[s \ {Pick(s)}]
      BY <1>5, <2>3
  <2> QED BY <1>3, <2>1, <2>2, <2>4
<1>6. \A n \in Nat : n \in N
  <2>1. \A n \in Nat : n \in N => n + 1 \in N
      BY <1>5
  <2> HIDE DEF N
  <2> QED BY <1>4, <2>1, SetOfNumbers
<1> QED BY <1>1, <1>6

\* The sum of the community module is the value of such a solution.
LEMMA SumIs ==
    ASSUME NEW f, NEW S, IsFiniteSet(S), \A x \in S : f[x] \in Int
    PROVE  \E it : Sums(it, f, S) /\ SumFunctionOnSet(f, S) = it[S]
<1> DEFINE it == CHOOSE i : Sums(i, f, S)
<1>1. SumFunctionOnSet(f, S) = it[S]
    BY DEF SumFunctionOnSet, FoldFunctionOnSet, MapThenFoldSet, Pick, Sums
<1>2. Sums(it, f, S)
    BY SumsExist
<1> HIDE DEF it
<1> QED BY <1>1, <1>2

-----------------------------------------------------------------------------
(* The equations of a sum.                                                 *)

\* The sum over no index is zero.
LEMMA SumEmpty ==
    ASSUME NEW f
    PROVE  SumFunctionOnSet(f, {}) = 0
<1>1. PICK it : Sums(it, f, {}) /\ SumFunctionOnSet(f, {}) = it[{}]
    BY SumIs, FS_EmptySet
<1> QED BY <1>1 DEF Sums

\* A sum depends on the function at the summed indices only.
LEMMA SumSame ==
    ASSUME NEW f, NEW g, NEW S, IsFiniteSet(S),
           \A x \in S : f[x] = g[x], \A x \in S : f[x] \in Int
    PROVE  SumFunctionOnSet(f, S) = SumFunctionOnSet(g, S)
<1>1. PICK i : Sums(i, f, S) /\ SumFunctionOnSet(f, S) = i[S]
    BY SumIs
<1>2. PICK j : Sums(j, g, S) /\ SumFunctionOnSet(g, S) = j[S]
    BY SumIs
<1> QED BY <1>1, <1>2, SumsAgree

\* Taking out the element of the recursion.
LEMMA SumPick ==
    ASSUME NEW f, NEW S, IsFiniteSet(S), S # {}, \A x \in S : f[x] \in Int
    PROVE  /\ Pick(S) \in S
           /\ SumFunctionOnSet(f, S) =
                f[Pick(S)] + SumFunctionOnSet(f, S \ {Pick(S)})
<1> DEFINE R == S \ {Pick(S)}
<1>1. Pick(S) \in S
    BY DEF Pick
<1>2. PICK i : Sums(i, f, S) /\ SumFunctionOnSet(f, S) = i[S]
    BY SumIs
<1>3. IsFiniteSet(R) /\ R \subseteq S
    BY FS_Subset
<1>4. PICK j : Sums(j, f, R) /\ SumFunctionOnSet(f, R) = j[R]
    BY <1>3, SumIs
<1>5. i[R] = j[R]
    BY <1>2, <1>3, <1>4, SumsAgree
<1>6. i[S] = f[Pick(S)] + i[R]
    BY <1>2 DEF Sums
<1> QED BY <1>1, <1>2, <1>4, <1>5, <1>6

\* A sum of integers is an integer.
LEMMA SumType ==
    ASSUME NEW f, NEW S, IsFiniteSet(S), \A x \in S : f[x] \in Int
    PROVE  SumFunctionOnSet(f, S) \in Int
<1> DEFINE Sum(s) == SumFunctionOnSet(f, s)
           N == {n \in Nat : \A s \in SUBSET S :
                    Cardinality(s) = n => Sum(s) \in Int}
<1>1. \A s \in SUBSET S : IsFiniteSet(s) /\ Cardinality(s) \in Nat
    BY FS_Subset, FS_CardinalityType
<1>2. \A s \in SUBSET S : \A x \in s : Cardinality(s \ {x}) = Cardinality(s) - 1
    BY <1>1, FS_RemoveElement
<1>3. Sum({}) = 0
    BY SumEmpty
<1>4. \A s \in SUBSET S : s # {} =>
        Pick(s) \in s /\ Sum(s) = f[Pick(s)] + Sum(s \ {Pick(s)})
    BY <1>1, SumPick
<1> HIDE DEF Sum
<1>5. 0 \in N
    BY <1>1, <1>3, FS_EmptySet
<1>6. ASSUME NEW n \in Nat, n \in N
      PROVE  n + 1 \in N
  <2> SUFFICES ASSUME NEW s \in SUBSET S, Cardinality(s) = n + 1
               PROVE  Sum(s) \in Int
      OBVIOUS
  <2>1. s # {}
      BY <1>1, FS_EmptySet
  <2>2. Pick(s) \in s /\ Sum(s) = f[Pick(s)] + Sum(s \ {Pick(s)})
      BY <1>4, <2>1
  <2>3. Cardinality(s \ {Pick(s)}) = n
      BY <1>2, <2>2
  <2>4. Sum(s \ {Pick(s)}) \in Int
      BY <1>6, <2>3
  <2> QED BY <2>2, <2>4
<1>7. \A n \in Nat : n \in N
  <2>1. \A n \in Nat : n \in N => n + 1 \in N
      BY <1>6
  <2> HIDE DEF N
  <2> QED BY <1>5, <2>1, SetOfNumbers
<1> QED BY <1>1, <1>7 DEF Sum

\* Any element may be taken out of a sum first.
LEMMA SumPoint ==
    ASSUME NEW f, NEW S, IsFiniteSet(S), \A x \in S : f[x] \in Int, NEW x \in S
    PROVE  SumFunctionOnSet(f, S) = f[x] + SumFunctionOnSet(f, S \ {x})
<1> DEFINE Sum(s) == SumFunctionOnSet(f, s)
           N == {n \in Nat : \A s \in SUBSET S :
                    Cardinality(s) = n => \A y \in s : Sum(s) = f[y] + Sum(s \ {y})}
<1>1. \A s \in SUBSET S : IsFiniteSet(s) /\ Cardinality(s) \in Nat
    BY FS_Subset, FS_CardinalityType
<1>2. \A s \in SUBSET S : \A y \in s : Cardinality(s \ {y}) = Cardinality(s) - 1
    BY <1>1, FS_RemoveElement
<1>3. \A s \in SUBSET S : Sum(s) \in Int
    BY <1>1, SumType
<1>4. \A s \in SUBSET S : s # {} =>
        Pick(s) \in s /\ Sum(s) = f[Pick(s)] + Sum(s \ {Pick(s)})
    BY <1>1, SumPick
<1> HIDE DEF Sum
<1>5. 0 \in N
    BY <1>1, FS_EmptySet
<1>6. ASSUME NEW n \in Nat, n \in N
      PROVE  n + 1 \in N
  <2> SUFFICES ASSUME NEW s \in SUBSET S, Cardinality(s) = n + 1, NEW y \in s
               PROVE  Sum(s) = f[y] + Sum(s \ {y})
      OBVIOUS
  <2> DEFINE p == Pick(s)
             r == (s \ {p}) \ {y}
  <2>1. p \in s /\ Sum(s) = f[p] + Sum(s \ {p})
      BY <1>4
  <2>2. r = (s \ {y}) \ {p} /\ r \in SUBSET S
      OBVIOUS
  <2>3. Cardinality(s \ {p}) = n /\ Cardinality(s \ {y}) = n
      BY <1>2, <2>1
  <2> HIDE DEF p
  <2>4. CASE y = p
      BY <2>1, <2>4
  <2>5. CASE y # p
    <3>1. Sum(s \ {p}) = f[y] + Sum(r)
        BY <1>6, <2>3, <2>5
    <3>2. Sum(s \ {y}) = f[p] + Sum((s \ {y}) \ {p})
        BY <1>6, <2>1, <2>3, <2>5
    <3>3. Sum(r) \in Int /\ f[y] \in Int /\ f[p] \in Int
        BY <1>3, <2>1, <2>2
    <3> HIDE DEF r
    <3> QED BY <2>1, <2>2, <3>1, <3>2, <3>3
  <2> QED BY <2>4, <2>5
<1>7. \A n \in Nat : n \in N
  <2>1. \A n \in Nat : n \in N => n + 1 \in N
      BY <1>6
  <2> HIDE DEF N
  <2> QED BY <1>5, <2>1, SetOfNumbers
<1>8. \A n \in Nat : \A s \in SUBSET S :
        Cardinality(s) = n => \A y \in s : Sum(s) = f[y] + Sum(s \ {y})
    BY <1>7
<1>9. S \in SUBSET S /\ Cardinality(S) \in Nat
    BY <1>1
<1>10. \A y \in S : Sum(S) = f[y] + Sum(S \ {y})
    BY <1>8, <1>9
<1> QED BY <1>10 DEF Sum

\* One summand more.
LEMMA SumAdd ==
    ASSUME NEW f, NEW S, IsFiniteSet(S), NEW x, x \notin S,
           \A y \in S \cup {x} : f[y] \in Int
    PROVE  SumFunctionOnSet(f, S \cup {x}) = f[x] + SumFunctionOnSet(f, S)
<1> DEFINE R == S \cup {x}
<1>1. IsFiniteSet(R) /\ x \in R /\ R \ {x} = S
    BY FS_AddElement
<1>2. \A y \in R : f[y] \in Int
    OBVIOUS
<1> HIDE DEF R
<1>3. SumFunctionOnSet(f, R) = f[x] + SumFunctionOnSet(f, R \ {x})
    BY <1>1, <1>2, SumPoint
<1> QED BY <1>1, <1>3 DEF R

\* Changing one summand changes the sum by the difference.
LEMMA SumChange ==
    ASSUME NEW f, NEW g, NEW S, IsFiniteSet(S), NEW x \in S,
           \A y \in S : f[y] \in Int, g[x] \in Int,
           \A y \in S \ {x} : g[y] = f[y]
    PROVE  SumFunctionOnSet(g, S) = SumFunctionOnSet(f, S) + (g[x] - f[x])
<1> DEFINE R == S \ {x}
<1>1. IsFiniteSet(R)
    BY FS_RemoveElement
<1>2. \A y \in S : g[y] \in Int
    OBVIOUS
<1>3. SumFunctionOnSet(f, S) = f[x] + SumFunctionOnSet(f, R)
    BY SumPoint
<1>4. SumFunctionOnSet(g, S) = g[x] + SumFunctionOnSet(g, R)
    BY <1>2, SumPoint
<1>5. SumFunctionOnSet(g, R) = SumFunctionOnSet(f, R)
    BY <1>1, SumSame
<1>6. SumFunctionOnSet(f, R) \in Int
    BY <1>1, SumType
<1> QED BY <1>3, <1>4, <1>5, <1>6

\* Equal summands.
LEMMA SumConstant ==
    ASSUME NEW f, NEW S, IsFiniteSet(S), NEW c \in Int, \A x \in S : f[x] = c
    PROVE  SumFunctionOnSet(f, S) = Cardinality(S) * c
<1> DEFINE T == {s \in SUBSET S : SumFunctionOnSet(f, s) = Cardinality(s) * c}
<1>1. {} \in T
    BY SumEmpty, FS_EmptySet
<1>2. ASSUME NEW s \in SUBSET S, NEW x \in S \ s, s \in T
      PROVE  s \cup {x} \in T
  <2>1. IsFiniteSet(s) /\ Cardinality(s) \in Nat
      BY FS_Subset, FS_CardinalityType
  <2>2. Cardinality(s \cup {x}) = Cardinality(s) + 1
      BY <2>1, FS_AddElement
  <2>3. SumFunctionOnSet(f, s \cup {x}) = c + SumFunctionOnSet(f, s)
    <3>1. \A y \in s \cup {x} : f[y] \in Int
        OBVIOUS
    <3>2. f[x] = c
        OBVIOUS
    <3> QED BY <2>1, <3>1, <3>2, SumAdd
  <2>4. c + Cardinality(s) * c = (Cardinality(s) + 1) * c
      BY <2>1
  <2> QED BY <1>2, <2>2, <2>3, <2>4
<1>3. S \in T
  <2>1. \A s \in SUBSET S : \A x \in S \ s : s \in T => s \cup {x} \in T
      BY <1>2
  <2> HIDE DEF T
  <2> QED BY <1>1, <2>1, SubsetInduction
<1> QED BY <1>3

\* More summands, none of them positive: the sum is not greater, and the same
\* when they are all zero.
LEMMA SumMore ==
    ASSUME NEW f, NEW T, IsFiniteSet(T), NEW S \in SUBSET T,
           \A x \in T : f[x] \in Int, \A x \in T \ S : f[x] <= 0
    PROVE  /\ SumFunctionOnSet(f, T) <= SumFunctionOnSet(f, S)
           /\ (\A x \in T \ S : f[x] = 0) =>
                SumFunctionOnSet(f, T) = SumFunctionOnSet(f, S)
<1> DEFINE R == T \ S
           Sum(s) == SumFunctionOnSet(f, s)
           Zero == \A x \in R : f[x] = 0
           N == {s \in SUBSET R : /\ Sum(S \cup s) <= Sum(S)
                                  /\ Zero => Sum(S \cup s) = Sum(S)}
<1>1. IsFiniteSet(S) /\ IsFiniteSet(R)
    BY FS_Subset
<1>2. Sum(S) \in Int
    BY <1>1, SumType
<1>3. {} \in N
    BY <1>2
<1>4. ASSUME NEW s \in SUBSET R, NEW x \in R \ s, s \in N
      PROVE  s \cup {x} \in N
  <2>1. /\ IsFiniteSet(S \cup s) /\ x \notin S \cup s
        /\ \A y \in (S \cup s) \cup {x} : f[y] \in Int
    <3>1. S \cup s \in SUBSET T
        OBVIOUS
    <3> QED BY <3>1, FS_Subset
  <2>2. Sum((S \cup s) \cup {x}) = f[x] + Sum(S \cup s)
      BY <2>1, SumAdd
  <2>3. Sum(S \cup s) \in Int
      BY <2>1, SumType
  <2>4. f[x] \in Int /\ f[x] <= 0 /\ (Zero => f[x] = 0)
      OBVIOUS
  <2>5. S \cup (s \cup {x}) = (S \cup s) \cup {x}
      OBVIOUS
  <2>6. Sum(S \cup s) <= Sum(S) /\ (Zero => Sum(S \cup s) = Sum(S))
      BY <1>4
  <2> HIDE DEF Sum, Zero
  <2>7. /\ Sum(S \cup (s \cup {x})) <= Sum(S)
        /\ Zero => Sum(S \cup (s \cup {x})) = Sum(S)
      BY <1>2, <2>2, <2>3, <2>4, <2>5, <2>6
  <2>8. s \cup {x} \in SUBSET R
      BY <1>4
  <2> QED BY <2>7, <2>8
<1>5. R \in N
  <2>1. \A s \in SUBSET R : \A x \in R \ s : s \in N => s \cup {x} \in N
      BY <1>4
  <2> HIDE DEF N, R
  <2> QED BY <1>1, <1>3, <2>1, SubsetInduction
<1>6. S \cup R = T
    OBVIOUS
<1> QED BY <1>5, <1>6
=============================================================================
