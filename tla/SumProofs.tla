----------------------------- MODULE SumProofs ------------------------------
(***************************************************************************)
(* Induction, and the sums the models take of the parts of a list: the     *)
(* sizes of the entries of a replay buffer, the lengths of the chunks of   *)
(* the app's queue.  A sum over a set is SumFunctionOnSet of module        *)
(* Functions, which adds f[x] for the elements x in the order CHOOSE takes *)
(* them; the lemmas say that the order makes no difference.                *)
(*                                                                         *)
(* The induction theorems of the library take the property as an operator. *)
(* Here it is a set, the naturals that have the property, and the rule     *)
(* follows from the least element outside of it.                           *)
(***************************************************************************)
EXTENDS Integers, FiniteSets, Functions, FiniteSetTheorems,
        WellFoundedInduction, TLAPS

LessThan == {p \in Nat \X Nat : p[1] < p[2]}

(* The order of the naturals, as a relation, has no descending chain.      *)
LEMMA LessThanWellFounded == IsWellFoundedOn(LessThan, Nat)
<1>1. OpToRel(<, Nat) = LessThan
  BY Zenon DEF OpToRel, LessThan
<1> QED BY <1>1, NatLessThanWellFounded, Zenon

(* Some natural is the least of those in T.                                *)
LEMMA LeastElement ==
  ASSUME NEW T \in SUBSET Nat, T # {}
  PROVE  \E n \in T : \A m \in T : n <= m
<1>1. PICK n \in T : \A m \in T : <<m, n>> \notin LessThan
  BY LessThanWellFounded, WFMin
<1>2. ASSUME NEW m \in T PROVE n <= m
  <2>1. ~(m < n)
    BY <1>1 DEF LessThan
  <2> QED BY <2>1
<1> QED BY <1>2

(* A bounded set of naturals has a greatest element.                       *)
LEMMA GreatestElement ==
  ASSUME NEW T \in SUBSET Nat, T # {}, NEW b \in Nat, \A n \in T : n <= b
  PROVE  \E n \in T : \A m \in T : m <= n
<1> DEFINE Above == {k \in Nat : \A n \in T : n <= k}
<1>1. PICK k \in Above : \A j \in Above : k <= j
  BY LeastElement
<1>2. ASSUME k \notin T PROVE FALSE
  <2>1. \A n \in T : n \in Nat /\ n <= k /\ n # k
    BY <1>1, <1>2
  <2>2. k # 0
    <3>1. PICK n \in T : TRUE
      OBVIOUS
    <3> QED BY <2>1, <3>1
  <2>3. k - 1 \in Above
    BY <1>1, <2>1, <2>2
  <2> QED BY <1>1, <2>3
<1> QED BY <1>1, <1>2

(* Induction over the naturals.                                            *)
LEMMA Induction ==
  ASSUME NEW S, 0 \in S, \A n \in Nat : n \in S => n + 1 \in S
  PROVE  Nat \subseteq S
<1> SUFFICES ASSUME ~(Nat \subseteq S) PROVE FALSE
  OBVIOUS
<1>1. PICK n \in Nat \ S : \A m \in Nat \ S : n <= m
  BY LeastElement
<1>2. n - 1 \in Nat /\ n - 1 \in S
  BY <1>1
<1> QED BY <1>1, <1>2

-----------------------------------------------------------------------------
(* The subsets of S of at most n elements.                                 *)
Upto(S, n) == {s \in SUBSET S : Cardinality(s) <= n}

(* The element of s a sum takes first.                                     *)
Some(s) == CHOOSE x \in s : TRUE

(* g[s] is the sum of f over s, for every set s of D.                      *)
IsSum(g, f, D) ==
  g = [s \in D |-> IF s = {} THEN 0 ELSE f[Some(s)] + g[s \ {Some(s)}]]

(* A set is one element smaller without the one a sum takes first.         *)
LEMMA SomeRemoved ==
  ASSUME NEW S, IsFiniteSet(S), NEW n \in Nat, NEW s \in SUBSET S, s # {}
  PROVE  /\ Some(s) \in s
         /\ Cardinality(s \ {Some(s)}) = Cardinality(s) - 1
         /\ s \ {Some(s)} \in SUBSET S
         /\ s \in Upto(S, n + 1) => s \ {Some(s)} \in Upto(S, n)
<1>1. IsFiniteSet(s) /\ Some(s) \in s
  BY FS_Subset DEF Some
<1>2. Cardinality(s) \in Nat /\ Cardinality(s \ {Some(s)}) = Cardinality(s) - 1
  BY <1>1, FS_RemoveElement, FS_CardinalityType
<1> QED BY <1>1, <1>2 DEF Upto

(* The recursion that defines a sum has a solution ...                     *)
LEMMA SumExists ==
  ASSUME NEW S, IsFiniteSet(S), NEW f
  PROVE  \E g : IsSum(g, f, SUBSET S)
<1> DEFINE K == {n \in Nat : \E g : IsSum(g, f, Upto(S, n))}
<1>1. 0 \in K
  <2>1. \A s \in Upto(S, 0) : s = {}
    BY FS_Subset, FS_EmptySet, FS_CardinalityType DEF Upto
  <2> DEFINE g == [s \in Upto(S, 0) |-> 0]
  <2>2. IsSum(g, f, Upto(S, 0))
    BY <2>1 DEF IsSum
  <2> QED BY <2>2
<1>2. ASSUME NEW n \in Nat, n \in K PROVE n + 1 \in K
  <2>1. PICK g : IsSum(g, f, Upto(S, n))
    BY <1>2
  <2> DEFINE h == [s \in Upto(S, n + 1) |->
                     IF s = {} THEN 0 ELSE f[Some(s)] + g[s \ {Some(s)}]]
  <2>2. Upto(S, n) \subseteq Upto(S, n + 1)
    BY FS_Subset, FS_CardinalityType DEF Upto
  <2>3. \A s \in Upto(S, n) : h[s] = g[s]
    BY <2>1, <2>2 DEF IsSum
  <2>4. ASSUME NEW s \in Upto(S, n + 1), s # {}
        PROVE  h[s] = f[Some(s)] + h[s \ {Some(s)}]
    <3>1. s \ {Some(s)} \in Upto(S, n)
      BY <2>4, SomeRemoved DEF Upto
    <3> QED BY <3>1, <2>3, <2>4
  <2>5. ASSUME NEW s \in Upto(S, n + 1), s = {} PROVE h[s] = 0
    BY <2>5
  <2>6. h = [s \in Upto(S, n + 1) |->
               IF s = {} THEN 0 ELSE f[Some(s)] + h[s \ {Some(s)}]]
    <3> HIDE DEF h
    <3>1. h = [s \in Upto(S, n + 1) |-> h[s]]
      BY DEF h
    <3> QED BY <2>4, <2>5, <3>1
  <2>7. IsSum(h, f, Upto(S, n + 1))
    <3> HIDE DEF h
    <3> QED BY <2>6 DEF IsSum
  <2> HIDE DEF h
  <2> QED BY <2>7
<1>3. Cardinality(S) \in K
  <2> HIDE DEF K
  <2>1. Nat \subseteq K
    BY <1>1, <1>2, Induction
  <2> QED BY <2>1, FS_CardinalityType
<1>4. Upto(S, Cardinality(S)) = SUBSET S
  BY FS_Subset DEF Upto
<1> QED BY <1>3, <1>4

(* ... and only one, whatever set it is solved for.                        *)
LEMMA SumUnique ==
  ASSUME NEW S, IsFiniteSet(S), NEW T \in SUBSET S, NEW e, NEW f,
         \A x \in T : e[x] = f[x],
         NEW g, IsSum(g, e, SUBSET T), NEW h, IsSum(h, f, SUBSET S)
  PROVE  g[T] = h[T]
<1> DEFINE K == {n \in Nat : \A s \in SUBSET T : Cardinality(s) = n => g[s] = h[s]}
<1>1. 0 \in K
  BY FS_Subset, FS_EmptySet DEF IsSum
<1>2. ASSUME NEW n \in Nat, n \in K PROVE n + 1 \in K
  <2> SUFFICES ASSUME NEW s \in SUBSET T, Cardinality(s) = n + 1 PROVE g[s] = h[s]
    OBVIOUS
  <2>1. s # {}
    BY FS_EmptySet
  <2>2. Some(s) \in s /\ Cardinality(s \ {Some(s)}) = n
    BY <2>1, SomeRemoved
  <2>3. g[s \ {Some(s)}] = h[s \ {Some(s)}]
    BY <1>2, <2>2
  <2>4. g[s] = e[Some(s)] + g[s \ {Some(s)}]
    BY <2>1 DEF IsSum
  <2>5. h[s] = f[Some(s)] + h[s \ {Some(s)}]
    BY <2>1 DEF IsSum
  <2> QED BY <2>2, <2>3, <2>4, <2>5
<1>3. Nat \subseteq K
  <2> HIDE DEF K
  <2> QED BY <1>1, <1>2, Induction
<1>4. IsFiniteSet(T) /\ Cardinality(T) \in Nat
  BY FS_Subset, FS_CardinalityType
<1> QED BY <1>3, <1>4


(* SumFunctionOnSet is the sum of f.                                       *)
LEMMA SumIs ==
  ASSUME NEW S, IsFiniteSet(S), NEW f
  PROVE  \E g : IsSum(g, f, SUBSET S) /\ SumFunctionOnSet(f, S) = g[S]
<1>1. PICK g : IsSum(g, f, SUBSET S)
  BY SumExists
<1> QED BY <1>1 DEF IsSum, SumFunctionOnSet, FoldFunctionOnSet, MapThenFoldSet, Some

(* The sum over nothing.                                                   *)
LEMMA SumEmpty ==
  ASSUME NEW f
  PROVE  SumFunctionOnSet(f, {}) = 0
  BY SumIs, FS_EmptySet DEF IsSum

(* A sum depends on the values of the function on the set only.            *)
LEMMA SumSame ==
  ASSUME NEW S, IsFiniteSet(S), NEW e, NEW f, \A x \in S : e[x] = f[x]
  PROVE  SumFunctionOnSet(e, S) = SumFunctionOnSet(f, S)
<1>1. PICK g : IsSum(g, e, SUBSET S) /\ SumFunctionOnSet(e, S) = g[S]
  BY SumIs
<1>2. PICK h : IsSum(h, f, SUBSET S) /\ SumFunctionOnSet(f, S) = h[S]
  BY SumIs
<1>3. g[S] = h[S]
  BY <1>1, <1>2, SumUnique
<1> QED BY <1>1, <1>2, <1>3

(* A sum is the element it takes first and the sum of the others ...       *)
LEMMA SumStep ==
  ASSUME NEW S, IsFiniteSet(S), S # {}, NEW f
  PROVE  SumFunctionOnSet(f, S) = f[Some(S)] + SumFunctionOnSet(f, S \ {Some(S)})
<1> DEFINE R == S \ {Some(S)}
<1>1. R \in SUBSET S /\ IsFiniteSet(R)
  BY FS_Subset
<1>2. PICK g : IsSum(g, f, SUBSET S) /\ SumFunctionOnSet(f, S) = g[S]
  BY SumIs
<1>3. PICK h : IsSum(h, f, SUBSET R) /\ SumFunctionOnSet(f, R) = h[R]
  BY <1>1, SumIs
<1>4. h[R] = g[R]
  <2> HIDE DEF R
  <2>1. \A x \in R : f[x] = f[x]
    OBVIOUS
  <2>2. IsSum(g, f, SUBSET S) /\ IsSum(h, f, SUBSET R)
    BY <1>2, <1>3
  <2> QED BY <1>1, <2>1, <2>2, SumUnique
<1>5. g[S] = f[Some(S)] + g[R]
  BY <1>2 DEF IsSum
<1> QED BY <1>2, <1>3, <1>4, <1>5

(* Integers add up to an integer.                                          *)
LEMMA SumInt ==
  ASSUME NEW S, IsFiniteSet(S), NEW f, \A x \in S : f[x] \in Int
  PROVE  SumFunctionOnSet(f, S) \in Int
<1> DEFINE sum(s) == SumFunctionOnSet(f, s)
           K == {n \in Nat : \A s \in SUBSET S : Cardinality(s) = n => sum(s) \in Int}
<1> HIDE DEF sum
<1>1. 0 \in K
  <2>1. \A s \in SUBSET S : Cardinality(s) = 0 => s = {}
    BY FS_Subset, FS_EmptySet
  <2>2. sum({}) = 0
    BY SumEmpty DEF sum
  <2> QED BY <2>1, <2>2
<1>2. ASSUME NEW n \in Nat, n \in K PROVE n + 1 \in K
  <2> SUFFICES ASSUME NEW s \in SUBSET S, Cardinality(s) = n + 1 PROVE sum(s) \in Int
    OBVIOUS
  <2>1. IsFiniteSet(s) /\ s # {}
    BY FS_Subset, FS_EmptySet
  <2>2. Some(s) \in s /\ Cardinality(s \ {Some(s)}) = n
    BY <2>1, SomeRemoved
  <2>3. sum(s) = f[Some(s)] + sum(s \ {Some(s)})
    BY <2>1, SumStep DEF sum
  <2> QED BY <1>2, <2>2, <2>3
<1>3. Nat \subseteq K
  <2> HIDE DEF K
  <2> QED BY <1>1, <1>2, Induction
<1> QED BY <1>3, FS_CardinalityType DEF sum

(* ... and just as well any element and the sum of the others.             *)
LEMMA SumRemove ==
  ASSUME NEW S, IsFiniteSet(S), NEW f, \A x \in S : f[x] \in Int, NEW y \in S
  PROVE  SumFunctionOnSet(f, S) = f[y] + SumFunctionOnSet(f, S \ {y})
<1> DEFINE sum(s) == SumFunctionOnSet(f, s)
           P(s) == \A x \in s : sum(s) = f[x] + sum(s \ {x})
           K == {n \in Nat : \A s \in SUBSET S : Cardinality(s) = n => P(s)}
<1>0. \A s \in SUBSET S : IsFiniteSet(s) /\ sum(s) \in Int
  BY FS_Subset, SumInt
<1> HIDE DEF sum
<1>1. 0 \in K
  BY FS_Subset, FS_EmptySet
<1>2. ASSUME NEW n \in Nat, n \in K PROVE n + 1 \in K
  <2> SUFFICES ASSUME NEW s \in SUBSET S, Cardinality(s) = n + 1, NEW x \in s
               PROVE  sum(s) = f[x] + sum(s \ {x})
    OBVIOUS
  <2> DEFINE o == Some(s)
             t == s \ {o}
             u == s \ {x}
  <2>1. IsFiniteSet(s) /\ s # {} /\ o \in s
    BY <1>0 DEF Some
  <2>2. P(t) /\ P(u)
    <3>1. ASSUME NEW z \in s PROVE Cardinality(s \ {z}) = n
      <4>1. Cardinality(s \ {z}) = Cardinality(s) - 1
        BY <1>0, FS_RemoveElement
      <4> QED BY <4>1
    <3> HIDE DEF o, P
    <3> QED BY <1>2, <2>1, <3>1
  <2>3. sum(s) = f[o] + sum(t)
    BY <2>1, SumStep DEF sum
  <2> HIDE DEF o
  <2>4. CASE x = o
    BY <2>4, <2>3
  <2>5. CASE x # o
    <3>1. x \in t /\ o \in u /\ t \ {x} = u \ {o}
      BY <2>5, <2>1
    <3>2. sum(t) = f[x] + sum(t \ {x})
      BY <2>2, <3>1
    <3>3. sum(u) = f[o] + sum(t \ {x})
      BY <2>2, <3>1
    <3>4. f[x] \in Int /\ f[o] \in Int /\ sum(t \ {x}) \in Int
      BY <1>0, <2>1
    <3> DEFINE rest == sum(t \ {x})
    <3>5. sum(t) = f[x] + rest /\ sum(u) = f[o] + rest /\ rest \in Int
      BY <3>2, <3>3, <3>4
    <3> HIDE DEF rest, t, u
    <3>6. sum(s) = f[x] + sum(u)
      BY <2>3, <3>4, <3>5
    <3> QED BY <3>6 DEF u
  <2> QED BY <2>4, <2>5
<1>3. Nat \subseteq K
  <2> HIDE DEF K
  <2> QED BY <1>1, <1>2, Induction
<1>4. P(S)
  BY <1>3, FS_CardinalityType
<1> QED BY <1>4 DEF sum

(* Numbers that are not negative do not add up to a negative one, and to   *)
(* zero if they are all zero.                                              *)
LEMMA SumNat ==
  ASSUME NEW S, IsFiniteSet(S), NEW f, \A x \in S : f[x] \in Nat
  PROVE  /\ SumFunctionOnSet(f, S) \in Nat
         /\ (\A x \in S : f[x] = 0) => SumFunctionOnSet(f, S) = 0
<1> DEFINE sum(s) == SumFunctionOnSet(f, s)
           P(s) == sum(s) \in Nat /\ ((\A x \in s : f[x] = 0) => sum(s) = 0)
           K == {n \in Nat : \A s \in SUBSET S : Cardinality(s) = n => P(s)}
<1> HIDE DEF sum
<1>1. 0 \in K
  <2>1. \A s \in SUBSET S : Cardinality(s) = 0 => s = {}
    BY FS_Subset, FS_EmptySet
  <2>2. sum({}) = 0
    BY SumEmpty DEF sum
  <2> QED BY <2>1, <2>2
<1>2. ASSUME NEW n \in Nat, n \in K PROVE n + 1 \in K
  <2> SUFFICES ASSUME NEW s \in SUBSET S, Cardinality(s) = n + 1 PROVE P(s)
    OBVIOUS
  <2> DEFINE o == Some(s)
             t == s \ {o}
  <2>1. IsFiniteSet(s) /\ s # {}
    BY FS_Subset, FS_EmptySet
  <2>2. o \in s /\ Cardinality(t) = n
    BY <2>1, SomeRemoved
  <2>3. sum(s) = f[o] + sum(t)
    BY <2>1, SumStep DEF sum
  <2> HIDE DEF o
  <2>4. P(t)
    BY <1>2, <2>2
  <2> QED BY <2>2, <2>3, <2>4
<1>3. Nat \subseteq K
  <2> HIDE DEF K
  <2> QED BY <1>1, <1>2, Induction
<1>4. P(S)
  BY <1>3, FS_CardinalityType
<1> QED BY <1>4 DEF sum

(* A sum over the images of the elements of S, none of which coincide.     *)
LEMMA SumImage ==
  ASSUME NEW S, IsFiniteSet(S), NEW e, \A x \in S : e[x] \in Int,
         NEW h, \A x, y \in S : h[x] = h[y] => x = y,
         NEW f, \A x \in S : f[h[x]] = e[x]
  PROVE  SumFunctionOnSet(f, {h[x] : x \in S}) = SumFunctionOnSet(e, S)
<1> DEFINE image(s) == {h[x] : x \in s}
           P(s) == SumFunctionOnSet(f, image(s)) = SumFunctionOnSet(e, s)
           K == {n \in Nat : \A s \in SUBSET S : Cardinality(s) = n => P(s)}
<1>1. 0 \in K
  <2>1. \A s \in SUBSET S : Cardinality(s) = 0 => s = {}
    BY FS_Subset, FS_EmptySet
  <2>2. image({}) = {}
    OBVIOUS
  <2>3. P({})
    BY <2>2, SumEmpty
  <2> HIDE DEF P
  <2> QED BY <2>1, <2>3
<1>2. ASSUME NEW n \in Nat, n \in K PROVE n + 1 \in K
  <2> SUFFICES ASSUME NEW s \in SUBSET S, Cardinality(s) = n + 1 PROVE P(s)
    OBVIOUS
  <2> DEFINE o == Some(s)
             t == s \ {o}
  <2>1. IsFiniteSet(s) /\ s # {}
    BY FS_Subset, FS_EmptySet
  <2>2. o \in s /\ Cardinality(t) = n
    BY <2>1, SomeRemoved
  <2>3. SumFunctionOnSet(e, s) = e[o] + SumFunctionOnSet(e, t)
    BY <2>1, SumStep
  <2> HIDE DEF o
  <2>4. P(t)
    <3> HIDE DEF P
    <3> QED BY <1>2, <2>2
  <2>5. IsFiniteSet(image(s))
    <3> DEFINE k == [x \in s |-> h[x]]
    <3>1. k \in Surjection(s, image(s))
      BY DEF Surjection
    <3> QED BY <2>1, <3>1, FS_Surjection
  <2>6. image(s) \ {h[o]} = image(t) /\ h[o] \in image(s)
    BY <2>2
  <2>7. \A z \in image(s) : f[z] \in Int
    OBVIOUS
  <2>8. SumFunctionOnSet(f, image(s)) = f[h[o]] + SumFunctionOnSet(f, image(t))
    <3> HIDE DEF image
    <3> QED BY <2>5, <2>6, <2>7, SumRemove
  <2>9. f[h[o]] = e[o]
    BY <2>2
  <2> HIDE DEF image, t
  <2> QED BY <2>3, <2>4, <2>8, <2>9
<1>3. Nat \subseteq K
  <2> HIDE DEF K
  <2> QED BY <1>1, <1>2, Induction
<1>4. P(S)
  <2> HIDE DEF P
  <2> QED BY <1>3, FS_CardinalityType
<1> QED BY <1>4
=============================================================================
