---------------------------- MODULE SumTheorems ----------------------------
(***************************************************************************)
(* The sum of the values of a function over a finite set                   *)
(* (SumFunctionOnSet of the community modules), for every function and     *)
(* every set: loads summed over racks, changes over requests, adjustments  *)
(* over rows.  The community modules compute a sum by taking an element    *)
(* out of the set until none is left, and CHOOSE tells which; that this    *)
(* recursion has a value, and that the order of the elements does not      *)
(* matter, is shown from a least counterexample.                           *)
(***************************************************************************)
EXTENDS Functions, FiniteSetTheorems, WellFoundedInduction, TLAPS

First(s) == CHOOSE x \in s : TRUE

(* The function that SumFunctionOnSet(f, S) computes on the subsets of S. *)
Iterates(f, D, sum) ==
  sum = [s \in D |-> IF s = {} THEN 0 ELSE f[First(s)] + sum[s \ {First(s)}]]

OnSubsets(f, S, sum) == Iterates(f, SUBSET S, sum)

UpTo(S, n) == {s \in SUBSET S : Cardinality(s) <= n}
-----------------------------------------------------------------------------
LEMMA LeastNat ==
  ASSUME NEW S, S \subseteq Nat, S # {}
  PROVE  \E x \in S : \A y \in S : x <= y
<1> DEFINE R == {p \in Nat \X Nat : p[1] < p[2]}
<1>1. IsWellFoundedOn(R, Nat)
  BY NatLessThanWellFounded DEF OpToRel
<1>2. PICK x \in S : \A y \in S : <<y, x>> \notin R
  BY <1>1, WFMin
<1>3. ASSUME NEW y \in S PROVE x <= y
  <2>1. x \in Nat /\ y \in Nat /\ <<y, x>> \in Nat \X Nat
    OBVIOUS
  <2>2. ~(<<y, x>>[1] < <<y, x>>[2])
    BY <1>2, <2>1
  <2> QED BY <2>1, <2>2
<1> QED BY <1>3

LEMMA FirstOut ==
  ASSUME NEW s, IsFiniteSet(s), s # {}
  PROVE  /\ First(s) \in s
         /\ IsFiniteSet(s \ {First(s)})
         /\ Cardinality(s) \in Nat /\ Cardinality(s \ {First(s)}) \in Nat
         /\ Cardinality(s \ {First(s)}) = Cardinality(s) - 1
<1>1. First(s) \in s
  BY DEF First
<1>2. IsFiniteSet(s \ {First(s)}) /\ Cardinality(s \ {First(s)}) = Cardinality(s) - 1
  BY <1>1, FS_RemoveElement
<1> QED BY <1>1, <1>2, FS_CardinalityType

(* The recursion has a value on the subsets of up to n elements. *)
LEMMA IterationExists ==
  ASSUME NEW f, NEW S, IsFiniteSet(S), NEW n \in Nat
  PROVE  \E sum : Iterates(f, UpTo(S, n), sum)
<1> DEFINE Bad == {k \in Nat : ~ \E sum : Iterates(f, UpTo(S, k), sum)}
<1> SUFFICES ASSUME Bad # {} PROVE FALSE
  OBVIOUS
<1>1. PICK m \in Bad : \A k \in Bad : m <= k
  <2> HIDE DEF Bad
  <2>1. Bad \subseteq Nat
    BY DEF Bad
  <2> QED BY <2>1, LeastNat
<1>2. \A s \in SUBSET S : IsFiniteSet(s) /\ Cardinality(s) \in Nat
  BY FS_Subset, FS_CardinalityType
<1>3. CASE m = 0
  <2> DEFINE sum == [s \in UpTo(S, 0) |-> 0]
  <2>1. \A s \in UpTo(S, 0) : s = {}
    <3> SUFFICES ASSUME NEW s \in UpTo(S, 0) PROVE s = {}
      OBVIOUS
    <3>1. IsFiniteSet(s) /\ Cardinality(s) = 0
      BY <1>2 DEF UpTo
    <3> QED BY <3>1, FS_EmptySet
  <2>2. Iterates(f, UpTo(S, 0), sum)
    BY <2>1 DEF Iterates
  <2> QED BY <1>3, <2>2
<1>4. CASE m # 0
  <2>1. m \in Nat /\ m - 1 \in Nat /\ ~(m <= m - 1)
    BY <1>4
  <2>2. m - 1 \notin Bad
    BY <1>1, <2>1
  <2>3. PICK small : Iterates(f, UpTo(S, m - 1), small)
    BY <2>1, <2>2
  <2> DEFINE sum == [s \in UpTo(S, m) |->
                       IF s = {} THEN 0
                       ELSE f[First(s)] + small[s \ {First(s)}]]
  <2>4. ASSUME NEW s \in UpTo(S, m), s # {}
        PROVE  /\ s \ {First(s)} \in UpTo(S, m)
               /\ sum[s \ {First(s)}] = small[s \ {First(s)}]
    <3> DEFINE t == s \ {First(s)}
    <3>1. t \in UpTo(S, m - 1) /\ t \in UpTo(S, m)
      BY <1>2, <2>1, <2>4, FirstOut DEF UpTo
    <3>2. small[t] = IF t = {} THEN 0 ELSE f[First(t)] + small[t \ {First(t)}]
      BY <2>3, <3>1 DEF Iterates
    <3> QED BY <3>1, <3>2
  <2>5. Iterates(f, UpTo(S, m), sum)
    BY <2>4 DEF Iterates
  <2> QED BY <2>5
<1> QED BY <1>3, <1>4

LEMMA SumUnfolds ==
  ASSUME NEW f, NEW S
  PROVE  SumFunctionOnSet(f, S) = (CHOOSE sum : OnSubsets(f, S, sum))[S]
BY Zenon
   DEF SumFunctionOnSet, FoldFunctionOnSet, MapThenFoldSet, OnSubsets, Iterates,
       First

LEMMA SumIterates ==
  ASSUME NEW f, NEW S, IsFiniteSet(S)
  PROVE  \E sum : OnSubsets(f, S, sum)
<1>1. Cardinality(S) \in Nat
  BY FS_CardinalityType
<1>2. UpTo(S, Cardinality(S)) = SUBSET S
  <2>1. \A s \in SUBSET S : Cardinality(s) <= Cardinality(S)
    BY FS_Subset
  <2>2. \A s \in SUBSET S : s \in UpTo(S, Cardinality(S))
    BY <2>1 DEF UpTo
  <2>3. UpTo(S, Cardinality(S)) \subseteq SUBSET S
    BY DEF UpTo
  <2> QED BY <2>2, <2>3
<1>3. PICK sum : Iterates(f, UpTo(S, Cardinality(S)), sum)
  BY <1>1, IterationExists
<1>4. OnSubsets(f, S, sum)
  BY <1>2, <1>3 DEF OnSubsets
<1> QED BY <1>4

(* Induction over the subsets of a finite set. *)
LEMMA SubsetInduction ==
  ASSUME NEW S, IsFiniteSet(S), NEW P,
         \A s \in SUBSET S : (\A x \in s : s \ {x} \in P) => s \in P
  PROVE  \A s \in SUBSET S : s \in P
<1> SUFFICES ASSUME (SUBSET S) \ P # {} PROVE FALSE
  OBVIOUS
<1> DEFINE Bad == {Cardinality(s) : s \in (SUBSET S) \ P}
<1>1. \A s \in SUBSET S : IsFiniteSet(s) /\ Cardinality(s) \in Nat
  BY FS_Subset, FS_CardinalityType
<1>2. PICK m \in Bad : \A k \in Bad : m <= k
  <2>1. Bad \subseteq Nat /\ Bad # {}
    BY <1>1
  <2> HIDE DEF Bad
  <2> QED BY <2>1, LeastNat
<1>3. PICK s \in (SUBSET S) \ P : Cardinality(s) = m
  OBVIOUS
<1>4. ASSUME NEW x \in s PROVE s \ {x} \in P
  <2>1. s \ {x} \in SUBSET S /\ Cardinality(s \ {x}) = m - 1 /\ m \in Nat
    BY <1>1, <1>3, FS_RemoveElement
  <2>2. Cardinality(s \ {x}) \notin Bad
    BY <1>2, <2>1
  <2> QED BY <2>1, <2>2
<1> QED BY <1>3, <1>4

LEMMA IterationUnique ==
  ASSUME NEW f, NEW S, IsFiniteSet(S), NEW T \in SUBSET S,
         NEW a, OnSubsets(f, S, a), NEW b, OnSubsets(f, T, b)
  PROVE  a[T] = b[T]
<1> DEFINE P == {t \in SUBSET T : a[t] = b[t]}
<1>1. IsFiniteSet(T)
  BY FS_Subset
<1>2. ASSUME NEW t \in SUBSET T, \A x \in t : t \ {x} \in P
      PROVE  t \in P
  <2>1. t \in SUBSET S /\ (t # {} => First(t) \in t)
    BY DEF First
  <2>2. a[t] = IF t = {} THEN 0 ELSE f[First(t)] + a[t \ {First(t)}]
    BY <2>1 DEF OnSubsets, Iterates
  <2>3. b[t] = IF t = {} THEN 0 ELSE f[First(t)] + b[t \ {First(t)}]
    BY DEF OnSubsets, Iterates
  <2>4. t # {} => a[t \ {First(t)}] = b[t \ {First(t)}]
    BY <1>2, <2>1
  <2> QED BY <2>2, <2>3, <2>4
<1> HIDE DEF P
<1>3. \A t \in SUBSET T : t \in P
  BY <1>1, <1>2, SubsetInduction
<1> QED BY <1>3 DEF P

(* The recursion that defines the sum. *)
LEMMA SumRecursion ==
  ASSUME NEW f, NEW S, IsFiniteSet(S)
  PROVE  /\ SumFunctionOnSet(f, {}) = 0
         /\ S # {} => SumFunctionOnSet(f, S) =
                        f[First(S)] + SumFunctionOnSet(f, S \ {First(S)})
<1>1. ASSUME NEW T \in SUBSET S
      PROVE  /\ IsFiniteSet(T)
             /\ OnSubsets(f, T, CHOOSE sum : OnSubsets(f, T, sum))
             /\ SumFunctionOnSet(f, T) =
                  (CHOOSE sum : OnSubsets(f, T, sum))[T]
  <2>1. IsFiniteSet(T)
    BY FS_Subset
  <2>2. \E sum : OnSubsets(f, T, sum)
    BY <2>1, SumIterates
  <2> QED BY <2>1, <2>2, SumUnfolds
<1>2. PICK all : all = CHOOSE sum : OnSubsets(f, S, sum)
  OBVIOUS
<1>3. OnSubsets(f, S, all) /\ SumFunctionOnSet(f, S) = all[S]
  BY <1>1, <1>2
<1>4. \A T \in SUBSET S : SumFunctionOnSet(f, T) = all[T]
  <2> SUFFICES ASSUME NEW T \in SUBSET S PROVE SumFunctionOnSet(f, T) = all[T]
    OBVIOUS
  <2>1. PICK sum : sum = CHOOSE it : OnSubsets(f, T, it)
    OBVIOUS
  <2>2. OnSubsets(f, T, sum) /\ SumFunctionOnSet(f, T) = sum[T]
    BY <1>1, <2>1
  <2>3. all[T] = sum[T]
    BY <1>3, <2>2, IterationUnique
  <2> QED BY <2>2, <2>3
<1>5. all[{}] = 0 /\ (S # {} => all[S] = f[First(S)] + all[S \ {First(S)}])
  BY <1>3 DEF OnSubsets, Iterates
<1> QED BY <1>4, <1>5
-----------------------------------------------------------------------------
(* A sum of integers is an integer; of naturals, a natural. *)
LEMMA SumIsInt ==
  ASSUME NEW f, NEW S, IsFiniteSet(S), \A x \in S : f[x] \in Int
  PROVE  SumFunctionOnSet(f, S) \in Int
<1> DEFINE P == {s \in SUBSET S : SumFunctionOnSet(f, s) \in Int}
<1>1. ASSUME NEW s \in SUBSET S, \A x \in s : s \ {x} \in P
      PROVE  s \in P
  <2>1. IsFiniteSet(s) /\ (s # {} => First(s) \in s)
    BY FS_Subset DEF First
  <2>2. s # {} => /\ SumFunctionOnSet(f, s) =
                       f[First(s)] + SumFunctionOnSet(f, s \ {First(s)})
                  /\ SumFunctionOnSet(f, s \ {First(s)}) \in Int
                  /\ f[First(s)] \in Int
    BY <1>1, <2>1, SumRecursion
  <2>3. s = {} => SumFunctionOnSet(f, s) = 0
    BY <2>1, SumRecursion
  <2> QED BY <2>2, <2>3
<1> HIDE DEF P
<1>2. \A s \in SUBSET S : s \in P
  BY <1>1, SubsetInduction
<1> QED BY <1>2 DEF P

(* Any element may be taken out first. *)
LEMMA SumRemove ==
  ASSUME NEW f, NEW S, IsFiniteSet(S), \A x \in S : f[x] \in Int, NEW y \in S
  PROVE  SumFunctionOnSet(f, S) = f[y] + SumFunctionOnSet(f, S \ {y})
<1> DEFINE Sum(s) == SumFunctionOnSet(f, s)
           P == {s \in SUBSET S : \A x \in s : Sum(s) = f[x] + Sum(s \ {x})}
<1>1. ASSUME NEW s \in SUBSET S, \A x \in s : s \ {x} \in P
      PROVE  s \in P
  <2> SUFFICES ASSUME NEW x \in s PROVE Sum(s) = f[x] + Sum(s \ {x})
    OBVIOUS
  <2>1. PICK z \in s : z = First(s)
    BY DEF First
  <2>2. Sum(s) = f[z] + Sum(s \ {z})
    BY <2>1, FS_Subset, SumRecursion
  <2>3. CASE x # z
    <3>1. Sum(s \ {z}) = f[x] + Sum((s \ {z}) \ {x})
      BY <1>1, <2>3
    <3>2. Sum(s \ {x}) = f[z] + Sum((s \ {x}) \ {z})
      BY <1>1, <2>3
    <3>3. (s \ {x}) \ {z} = (s \ {z}) \ {x}
      OBVIOUS
    <3>4. Sum((s \ {z}) \ {x}) \in Int
      <4>1. (s \ {z}) \ {x} \in SUBSET S
        OBVIOUS
      <4> QED BY <4>1, FS_Subset, SumIsInt
    <3>5. f[x] \in Int /\ f[z] \in Int
      OBVIOUS
    <3>6. PICK rest \in Int : rest = Sum((s \ {z}) \ {x})
      BY <3>4
    <3>7. Sum(s \ {z}) = f[x] + rest /\ Sum(s \ {x}) = f[z] + rest
      BY <3>1, <3>2, <3>3, <3>6
    <3> HIDE DEF Sum
    <3> QED BY <2>2, <3>5, <3>7
  <2> QED BY <2>2, <2>3
<1> HIDE DEF P
<1>2. \A s \in SUBSET S : s \in P
  BY <1>1, SubsetInduction
<1> QED BY <1>2 DEF P

LEMMA SumAddElement ==
  ASSUME NEW f, NEW S, IsFiniteSet(S), \A x \in S : f[x] \in Int,
         NEW y, y \notin S, f[y] \in Int
  PROVE  SumFunctionOnSet(f, S \cup {y}) = f[y] + SumFunctionOnSet(f, S)
<1> DEFINE T == S \cup {y}
<1>1. IsFiniteSet(T) /\ y \in T /\ T \ {y} = S /\ \A x \in T : f[x] \in Int
  BY FS_AddElement
<1> HIDE DEF T
<1> QED BY <1>1, SumRemove DEF T

(* Functions that agree on the set have the same sum. *)
LEMMA SumAgrees ==
  ASSUME NEW f, NEW g, NEW S, IsFiniteSet(S), \A x \in S : f[x] = g[x]
  PROVE  SumFunctionOnSet(f, S) = SumFunctionOnSet(g, S)
<1> DEFINE P == {s \in SUBSET S : SumFunctionOnSet(f, s) = SumFunctionOnSet(g, s)}
<1>1. ASSUME NEW s \in SUBSET S, \A x \in s : s \ {x} \in P
      PROVE  s \in P
  <2>1. IsFiniteSet(s) /\ (s # {} => First(s) \in s)
    BY FS_Subset DEF First
  <2>2. s # {} => /\ SumFunctionOnSet(f, s) =
                       f[First(s)] + SumFunctionOnSet(f, s \ {First(s)})
                  /\ SumFunctionOnSet(g, s) =
                       g[First(s)] + SumFunctionOnSet(g, s \ {First(s)})
    BY <2>1, SumRecursion
  <2>3. s # {} => /\ SumFunctionOnSet(f, s \ {First(s)}) =
                       SumFunctionOnSet(g, s \ {First(s)})
                  /\ f[First(s)] = g[First(s)]
    BY <1>1, <2>1
  <2>4. s = {} => SumFunctionOnSet(f, s) = 0 /\ SumFunctionOnSet(g, s) = 0
    BY <2>1, SumRecursion
  <2> QED BY <2>2, <2>3, <2>4
<1> HIDE DEF P
<1>2. \A s \in SUBSET S : s \in P
  BY <1>1, SubsetInduction
<1> QED BY <1>2 DEF P

(* A change of one value changes the sum by as much. *)
LEMMA SumChanges ==
  ASSUME NEW f, NEW g, NEW S, IsFiniteSet(S), NEW y \in S,
         \A x \in S : f[x] \in Int /\ g[x] \in Int,
         \A x \in S : x # y => g[x] = f[x]
  PROVE  SumFunctionOnSet(g, S) = SumFunctionOnSet(f, S) + (g[y] - f[y])
<1>1. IsFiniteSet(S \ {y}) /\ \A x \in S \ {y} : f[x] = g[x] /\ f[x] \in Int
  BY FS_Subset
<1>2. PICK rest \in Int : rest = SumFunctionOnSet(f, S \ {y})
  BY <1>1, SumIsInt
<1>3. SumFunctionOnSet(g, S \ {y}) = rest
  BY <1>1, <1>2, SumAgrees
<1>4. SumFunctionOnSet(f, S) = f[y] + rest /\ SumFunctionOnSet(g, S) = g[y] + rest
  BY <1>2, <1>3, SumRemove
<1>5. f[y] \in Int /\ g[y] \in Int
  OBVIOUS
<1> QED BY <1>4, <1>5

(* Sums keep order. *)
LEMMA SumBelow ==
  ASSUME NEW f, NEW g, NEW S, IsFiniteSet(S),
         \A x \in S : f[x] \in Int /\ g[x] \in Int /\ f[x] <= g[x]
  PROVE  SumFunctionOnSet(f, S) <= SumFunctionOnSet(g, S)
<1> DEFINE P == {s \in SUBSET S : SumFunctionOnSet(f, s) <= SumFunctionOnSet(g, s)}
<1>1. ASSUME NEW s \in SUBSET S, \A x \in s : s \ {x} \in P
      PROVE  s \in P
  <2>1. IsFiniteSet(s)
    BY FS_Subset
  <2>2. CASE s = {}
    <3>1. SumFunctionOnSet(f, {}) = 0 /\ SumFunctionOnSet(g, {}) = 0
      BY <2>1, SumRecursion
    <3> QED BY <2>2, <3>1
  <2>3. CASE s # {}
    <3>1. PICK x \in s : x = First(s)
      BY <2>3 DEF First
    <3>2. IsFiniteSet(s \ {x}) /\ \A z \in s \ {x} : f[z] \in Int /\ g[z] \in Int
      BY <2>1, FS_Subset
    <3>3. PICK a \in Int, b \in Int : /\ a = SumFunctionOnSet(f, s \ {x})
                                      /\ b = SumFunctionOnSet(g, s \ {x})
      BY <3>2, SumIsInt
    <3>4. a <= b
      BY <1>1, <3>3
    <3>5. SumFunctionOnSet(f, s) = f[x] + a /\ SumFunctionOnSet(g, s) = g[x] + b
      BY <2>1, <2>3, <3>1, <3>3, SumRecursion
    <3>6. f[x] \in Int /\ g[x] \in Int /\ f[x] <= g[x]
      OBVIOUS
    <3> QED BY <3>4, <3>5, <3>6
  <2> QED BY <2>2, <2>3
<1> HIDE DEF P
<1>2. \A s \in SUBSET S : s \in P
  BY <1>1, SubsetInduction
<1> QED BY <1>2 DEF P

LEMMA SumIsNat ==
  ASSUME NEW f, NEW S, IsFiniteSet(S), \A x \in S : f[x] \in Nat
  PROVE  SumFunctionOnSet(f, S) \in Nat
<1> DEFINE P == {s \in SUBSET S : SumFunctionOnSet(f, s) \in Nat}
<1>1. ASSUME NEW s \in SUBSET S, \A x \in s : s \ {x} \in P
      PROVE  s \in P
  <2>1. IsFiniteSet(s) /\ (s # {} => First(s) \in s)
    BY FS_Subset DEF First
  <2>2. s # {} => /\ SumFunctionOnSet(f, s) =
                       f[First(s)] + SumFunctionOnSet(f, s \ {First(s)})
                  /\ SumFunctionOnSet(f, s \ {First(s)}) \in Nat
                  /\ f[First(s)] \in Nat
    BY <1>1, <2>1, SumRecursion
  <2>3. s = {} => SumFunctionOnSet(f, s) = 0
    BY <2>1, SumRecursion
  <2> QED BY <2>2, <2>3
<1> HIDE DEF P
<1>2. \A s \in SUBSET S : s \in P
  BY <1>1, SubsetInduction
<1> QED BY <1>2 DEF P

LEMMA SumOfZeros ==
  ASSUME NEW f, NEW S, IsFiniteSet(S), \A x \in S : f[x] = 0
  PROVE  SumFunctionOnSet(f, S) = 0
<1> DEFINE P == {s \in SUBSET S : SumFunctionOnSet(f, s) = 0}
<1>1. ASSUME NEW s \in SUBSET S, \A x \in s : s \ {x} \in P
      PROVE  s \in P
  <2>1. IsFiniteSet(s) /\ (s # {} => First(s) \in s)
    BY FS_Subset DEF First
  <2>2. s # {} => /\ SumFunctionOnSet(f, s) =
                       f[First(s)] + SumFunctionOnSet(f, s \ {First(s)})
                  /\ SumFunctionOnSet(f, s \ {First(s)}) = 0
                  /\ f[First(s)] = 0
    BY <1>1, <2>1, SumRecursion
  <2>3. s = {} => SumFunctionOnSet(f, s) = 0
    BY <2>1, SumRecursion
  <2> QED BY <2>2, <2>3
<1> HIDE DEF P
<1>2. \A s \in SUBSET S : s \in P
  BY <1>1, SubsetInduction
<1> QED BY <1>2 DEF P
(* The sum of sums. *)
LEMMA SumPlus ==
  ASSUME NEW f, NEW g, NEW h, NEW S, IsFiniteSet(S),
         \A x \in S : f[x] \in Int /\ g[x] \in Int /\ h[x] = f[x] + g[x]
  PROVE  SumFunctionOnSet(h, S) = SumFunctionOnSet(f, S) + SumFunctionOnSet(g, S)
<1> DEFINE P == {s \in SUBSET S : SumFunctionOnSet(h, s) =
                                    SumFunctionOnSet(f, s) + SumFunctionOnSet(g, s)}
<1>1. ASSUME NEW s \in SUBSET S, \A x \in s : s \ {x} \in P
      PROVE  s \in P
  <2>1. IsFiniteSet(s)
    BY FS_Subset
  <2>2. CASE s = {}
    <3>1. /\ SumFunctionOnSet(f, {}) = 0 /\ SumFunctionOnSet(g, {}) = 0
          /\ SumFunctionOnSet(h, {}) = 0
      BY <2>1, SumRecursion
    <3> QED BY <2>2, <3>1
  <2>3. CASE s # {}
    <3>1. PICK x \in s : x = First(s)
      BY <2>3 DEF First
    <3>2. IsFiniteSet(s \ {x}) /\ \A z \in s \ {x} : f[z] \in Int /\ g[z] \in Int
      BY <2>1, FS_Subset
    <3>3. PICK a \in Int, b \in Int : /\ a = SumFunctionOnSet(f, s \ {x})
                                      /\ b = SumFunctionOnSet(g, s \ {x})
      BY <3>2, SumIsInt
    <3>4. SumFunctionOnSet(h, s \ {x}) = a + b
      BY <1>1, <3>3
    <3>5. /\ SumFunctionOnSet(f, s) = f[x] + a
          /\ SumFunctionOnSet(g, s) = g[x] + b
          /\ SumFunctionOnSet(h, s) = h[x] + (a + b)
      BY <2>1, <2>3, <3>1, <3>3, <3>4, SumRecursion
    <3>6. f[x] \in Int /\ g[x] \in Int /\ h[x] = f[x] + g[x]
      OBVIOUS
    <3> QED BY <3>5, <3>6
  <2> QED BY <2>2, <2>3
<1> HIDE DEF P
<1>2. \A s \in SUBSET S : s \in P
  BY <1>1, SubsetInduction
<1> QED BY <1>2 DEF P

(* Elements of value zero do not count. *)
LEMMA SumOverPart ==
  ASSUME NEW f, NEW S, IsFiniteSet(S), \A x \in S : f[x] \in Int,
         NEW T \in SUBSET S, \A x \in S \ T : f[x] = 0
  PROVE  SumFunctionOnSet(f, S) = SumFunctionOnSet(f, T)
<1> DEFINE P == {s \in SUBSET (S \ T) :
                   SumFunctionOnSet(f, T \cup s) = SumFunctionOnSet(f, T)}
<1>1. ASSUME NEW s \in SUBSET (S \ T), \A x \in s : s \ {x} \in P
      PROVE  s \in P
  <2>1. CASE s = {}
    <3>1. T \cup s = T
      BY <2>1
    <3> QED BY <3>1
  <2>2. CASE s # {}
    <3>1. PICK x \in s : TRUE
      BY <2>2
    <3>2. PICK U : U = T \cup s
      OBVIOUS
    <3>3. /\ U \in SUBSET S /\ x \in U /\ U \ {x} = T \cup (s \ {x})
          /\ f[x] = 0 /\ \A z \in U : f[z] \in Int
      BY <3>1, <3>2
    <3>4. IsFiniteSet(U) /\ IsFiniteSet(T)
      <4>1. U \in SUBSET S /\ T \in SUBSET S /\ IsFiniteSet(S)
        BY <3>3
      <4>2. IsFiniteSet(U)
        BY <4>1, FS_Subset
      <4>3. IsFiniteSet(T)
        BY <4>1, FS_Subset
      <4> QED BY <4>2, <4>3
    <3>5. SumFunctionOnSet(f, U) = 0 + SumFunctionOnSet(f, T \cup (s \ {x}))
      BY <3>3, <3>4, SumRemove
    <3>6. SumFunctionOnSet(f, T \cup (s \ {x})) = SumFunctionOnSet(f, T)
      BY <1>1, <3>1
    <3>7. SumFunctionOnSet(f, T) \in Int
      BY <3>4, SumIsInt
    <3> QED BY <3>2, <3>5, <3>6, <3>7
  <2> QED BY <2>1, <2>2
<1>2. \A s \in SUBSET (S \ T) : s \in P
  <2>1. IsFiniteSet(S \ T)
    BY FS_Subset
  <2>2. PICK R : R = S \ T
    OBVIOUS
  <2> HIDE DEF P
  <2>3. IsFiniteSet(R)
    BY <2>1, <2>2
  <2>4. \A s \in SUBSET R : (\A x \in s : s \ {x} \in P) => s \in P
    BY <1>1, <2>2
  <2>5. \A s \in SUBSET R : s \in P
    BY <2>3, <2>4, SubsetInduction
  <2> QED BY <2>2, <2>5
<1>3. S \ T \in P /\ T \cup (S \ T) = S
  BY <1>2
<1> QED BY <1>3
=============================================================================
