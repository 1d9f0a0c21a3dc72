------------------------------ MODULE Sums_proofs ------------------------------
(***************************************************************************)
(* Sums over finite sets.  The library's induction theorems take an        *)
(* operator as a parameter; WFMin speaks of sets, and gives induction for  *)
(* a statement written as a set of numbers.                                *)
(***************************************************************************)
EXTENDS Sums, FiniteSetTheorems, TLAPS

(***************************************************************************)
(* A non-empty set of natural numbers has a least element.                 *)
(***************************************************************************)
NatLess == {p \in Nat \X Nat : p[1] < p[2]}

LEMMA Least ==
  ASSUME NEW T \in SUBSET Nat, T # {}
  PROVE  \E n \in T : \A m \in T : n <= m
<1>1. IsWellFoundedOn(NatLess, Nat)
  BY NatLessThanWellFounded DEF NatLess, OpToRel
<1>2. PICK n \in T : \A m \in T : ~(<<m, n>> \in NatLess)
  BY <1>1, WFMin
<1>3. \A m \in Nat, k \in Nat : m < k => <<m, k>> \in NatLess
  BY DEF NatLess
<1>4. ASSUME NEW m \in T PROVE n <= m
  <2>1. m \in Nat /\ n \in Nat /\ ~(m < n)
    BY <1>2, <1>3
  <2> QED
    BY <2>1
<1> QED
  BY <1>4

(***************************************************************************)
(* A set of natural numbers with 0 and every successor is all of them.     *)
(***************************************************************************)
LEMMA Induction ==
  ASSUME NEW P \in SUBSET Nat, 0 \in P, \A n \in P : n + 1 \in P
  PROVE  P = Nat
<1>1. SUFFICES ASSUME Nat \ P # {} PROVE FALSE
  OBVIOUS
<1>2. PICK n \in Nat \ P : \A m \in Nat \ P : n <= m
  BY <1>1, Least
<1>3. n - 1 \in Nat /\ n - 1 \in P /\ (n - 1) + 1 = n
  BY <1>2
<1> QED
  BY <1>2, <1>3

-----------------------------------------------------------------------------
(***************************************************************************)
(* The function MapThenSumSet is defined by, and that there is one.        *)
(***************************************************************************)
Pick(T) == CHOOSE x \in T : TRUE

SumStep(f, g, T) == IF T = {} THEN 0 ELSE f[Pick(T)] + g[T \ {Pick(T)}]

SumGraph(f, S, g) == g = [T \in SUBSET S |-> SumStep(f, g, T)]

UpToSize(S, n) == {T \in SUBSET S : Cardinality(T) <= n}

LEMMA PickIn == \A T : T # {} => Pick(T) \in T
  BY DEF Pick

LEMMA PickRemoved ==
  ASSUME NEW S, IsFiniteSet(S), NEW T \in SUBSET S, T # {}
  PROVE  /\ IsFiniteSet(T) /\ Cardinality(T) \in Nat
         /\ T \ {Pick(T)} \in SUBSET S
         /\ Cardinality(T \ {Pick(T)}) \in Nat
         /\ Cardinality(T \ {Pick(T)}) = Cardinality(T) - 1
<1>1. IsFiniteSet(T)
  BY FS_Subset
<1>2. Cardinality(T \ {Pick(T)}) = Cardinality(T) - 1 /\ IsFiniteSet(T \ {Pick(T)})
  BY <1>1, FS_RemoveElement, PickIn
<1> QED
  BY <1>1, <1>2, FS_CardinalityType

LEMMA SumsExist ==
  ASSUME NEW D, NEW f \in [D -> Int], NEW S \in SUBSET D, IsFiniteSet(S)
  PROVE  \E g \in [SUBSET S -> Int] : SumGraph(f, S, g)
<1> DEFINE Upto(n) == \E g \in [UpToSize(S, n) -> Int] :
                         \A T \in UpToSize(S, n) : g[T] = SumStep(f, g, T)
           P == {n \in Nat : Upto(n)}
<1>1. Upto(0)
  <2>1. \A T \in UpToSize(S, 0) : T = {}
    BY FS_Subset, FS_CardinalityType, FS_EmptySet DEF UpToSize
  <2>2. \A T \in UpToSize(S, 0) : [X \in UpToSize(S, 0) |-> 0][T] = SumStep(f, [X \in UpToSize(S, 0) |-> 0], T)
    BY <2>1 DEF SumStep
  <2> QED
    BY <2>2
<1>2. ASSUME NEW n \in Nat, Upto(n) PROVE Upto(n + 1)
  <2>1. PICK g \in [UpToSize(S, n) -> Int] : \A T \in UpToSize(S, n) : g[T] = SumStep(f, g, T)
    BY <1>2
  <2> DEFINE h == [T \in UpToSize(S, n + 1) |-> SumStep(f, g, T)]
  <2>2. ASSUME NEW T \in UpToSize(S, n + 1), T # {}
        PROVE  T \ {Pick(T)} \in UpToSize(S, n) /\ Pick(T) \in D
    <3>1. T \in SUBSET S /\ Cardinality(T) <= n + 1
      BY DEF UpToSize
    <3>2. /\ Cardinality(T) \in Nat
          /\ T \ {Pick(T)} \in SUBSET S
          /\ Cardinality(T \ {Pick(T)}) = Cardinality(T) - 1
      BY <2>2, <3>1, PickRemoved
    <3>3. Cardinality(T \ {Pick(T)}) <= n
      BY <3>1, <3>2
    <3> QED
      BY <2>2, <3>1, <3>2, <3>3, PickIn DEF UpToSize
  <2>3. \A T \in UpToSize(S, n) : T \in UpToSize(S, n + 1)
    BY FS_Subset, FS_CardinalityType DEF UpToSize
  <2>4. \A T \in UpToSize(S, n) : h[T] = g[T]
    BY <2>1, <2>3
  <2>5. h \in [UpToSize(S, n + 1) -> Int]
    <3>1. \A T \in UpToSize(S, n + 1) : SumStep(f, g, T) \in Int
      BY <2>2 DEF SumStep
    <3> QED
      BY <3>1
  <2>6. \A T \in UpToSize(S, n + 1) : h[T] = SumStep(f, h, T)
    BY <2>2, <2>4 DEF SumStep
  <2> HIDE DEF h
  <2> QED
    BY <2>5, <2>6
<1>3. P = Nat
  <2> HIDE DEF Upto
  <2>1. P \in SUBSET Nat /\ 0 \in P /\ \A n \in P : n + 1 \in P
    BY <1>1, <1>2
  <2> HIDE DEF P
  <2> QED
    BY <2>1, Induction
<1>4. Upto(Cardinality(S))
  BY <1>3, FS_CardinalityType
<1>5. UpToSize(S, Cardinality(S)) = SUBSET S
  BY FS_Subset DEF UpToSize
<1>6. PICK g \in [SUBSET S -> Int] : \A T \in SUBSET S : g[T] = SumStep(f, g, T)
  BY <1>4, <1>5
<1>7. SumGraph(f, S, g)
  BY <1>6 DEF SumGraph
<1> QED
  BY <1>7

LEMMA SumsAgree ==
  ASSUME NEW f, NEW U, IsFiniteSet(U), NEW S \in SUBSET U, NEW g, NEW h,
         SumGraph(f, S, g), SumGraph(f, U, h)
  PROVE  g[S] = h[S]
<1> DEFINE Bad == {n \in Nat : \E T \in SUBSET S : Cardinality(T) = n /\ g[T] # h[T]}
<1>1. SUFFICES ASSUME g[S] # h[S] PROVE FALSE
  OBVIOUS
<1>2. IsFiniteSet(S)
  BY FS_Subset
<1>3. Cardinality(S) \in Bad
  BY <1>1, <1>2, FS_Subset, FS_CardinalityType
<1>4. PICK n \in Bad : \A m \in Bad : n <= m
  <2>1. Bad \in SUBSET Nat /\ Bad # {}
    BY <1>3
  <2> HIDE DEF Bad
  <2> QED
    BY <2>1, Least
<1>5. PICK X \in SUBSET S : Cardinality(X) = n /\ g[X] # h[X]
  BY <1>4
<1>6. g[X] = SumStep(f, g, X) /\ h[X] = SumStep(f, h, X)
  BY <1>5 DEF SumGraph
<1>7. X # {}
  BY <1>5, <1>6 DEF SumStep
<1>8. /\ X \ {Pick(X)} \in SUBSET S
      /\ Cardinality(X \ {Pick(X)}) \in Nat
      /\ Cardinality(X \ {Pick(X)}) = n - 1
  BY <1>2, <1>5, <1>7, PickRemoved
<1>9. n - 1 \notin Bad
  BY <1>4
<1>10. g[X \ {Pick(X)}] = h[X \ {Pick(X)}]
  BY <1>8, <1>9
<1> QED
  BY <1>5, <1>6, <1>10 DEF SumStep

LEMMA SumIs ==
  ASSUME NEW D, NEW f \in [D -> Int], NEW U \in SUBSET D, IsFiniteSet(U), NEW g, SumGraph(f, U, g),
         NEW S \in SUBSET U
  PROVE  SumOver(f, S) = g[S]
<1>1. ASSUME NEW k, SumGraph(f, S, k) PROVE k[S] = g[S]
  BY <1>1, SumsAgree
<1>2. \E k : SumGraph(f, S, k)
  BY SumsExist, FS_Subset
<1>3. (CHOOSE k : SumGraph(f, S, k))[S] = g[S]
  BY <1>1, <1>2
<1> QED
  BY <1>3 DEF SumOver, MapThenSumSet, MapThenFoldSet, SumGraph, SumStep, Pick

(***************************************************************************)
(* What a sum of integers is: nothing, or an element and the rest.         *)
(***************************************************************************)
LEMMA SumUnfold ==
  ASSUME NEW D, NEW f \in [D -> Int], NEW S \in SUBSET D, IsFiniteSet(S)
  PROVE  /\ SumOver(f, S) \in Int
         /\ SumOver(f, {}) = 0
         /\ S # {} => SumOver(f, S) = f[Pick(S)] + SumOver(f, S \ {Pick(S)})
<1>1. PICK g \in [SUBSET S -> Int] : SumGraph(f, S, g)
  BY SumsExist
<1>2. \A T \in SUBSET S : SumOver(f, T) = g[T]
  BY <1>1, SumIs
<1>3. \A T \in SUBSET S : g[T] = SumStep(f, g, T)
  BY <1>1 DEF SumGraph
<1> QED
  BY <1>2, <1>3 DEF SumStep

LEMMA SumEmpty ==
  ASSUME NEW D, NEW f \in [D -> Int]
  PROVE  SumOver(f, {}) = 0
  BY SumUnfold, FS_EmptySet

LEMMA SumInt ==
  ASSUME NEW D, NEW f \in [D -> Int], NEW S \in SUBSET D, IsFiniteSet(S)
  PROVE  SumOver(f, S) \in Int
  BY SumUnfold

LEMMA SumAdd ==
  ASSUME NEW D, NEW f \in [D -> Int], NEW S \in SUBSET D, IsFiniteSet(S),
         NEW x \in D, x \notin S
  PROVE  SumOver(f, S \cup {x}) = SumOver(f, S) + f[x]
<1> DEFINE Adds(T) == \A y \in D \ T : SumOver(f, T \cup {y}) = SumOver(f, T) + f[y]
           Bad == {n \in Nat : \E T \in SUBSET S : Cardinality(T) = n /\ ~Adds(T)}
<1>1. SUFFICES ASSUME NEW T \in SUBSET S PROVE Adds(T)
  OBVIOUS
<1>2. SUFFICES ASSUME ~Adds(T) PROVE FALSE
  OBVIOUS
<1> HIDE DEF Adds
<1>3. Cardinality(T) \in Bad
  BY <1>2, FS_Subset, FS_CardinalityType
<1>4. PICK n \in Bad : \A m \in Bad : n <= m
  <2>1. Bad \in SUBSET Nat /\ Bad # {}
    BY <1>3
  <2> HIDE DEF Bad
  <2> QED
    BY <2>1, Least
<1>5. PICK X \in SUBSET S : Cardinality(X) = n /\ ~Adds(X)
  BY <1>4
<1>6. \A Y \in SUBSET S : Cardinality(Y) < n => Adds(Y)
  <2>1. ASSUME NEW Y \in SUBSET S, Cardinality(Y) < n, ~Adds(Y) PROVE FALSE
    <3>1. Cardinality(Y) \in Bad
      BY <2>1, FS_Subset, FS_CardinalityType
    <3>2. n \in Nat /\ Cardinality(Y) \in Nat /\ n <= Cardinality(Y)
      BY <1>4, <3>1
    <3> QED
      BY <2>1, <3>2
  <2> QED
    BY <2>1
<1>7. PICK y \in D \ X : SumOver(f, X \cup {y}) # SumOver(f, X) + f[y]
  BY <1>5 DEF Adds
<1> DEFINE U == X \cup {y}
           z == Pick(U)
<1>8. IsFiniteSet(X) /\ IsFiniteSet(U) /\ Cardinality(X) \in Nat
  BY FS_Subset, FS_AddElement, FS_CardinalityType
<1>9. z \in U
  BY PickIn
<1>10. SumOver(f, U) = f[z] + SumOver(f, U \ {z})
  BY <1>8, SumUnfold
<1>11. SumOver(f, X) \in Int /\ f[y] \in Int /\ f[z] \in Int
  BY <1>8, <1>9, SumUnfold
<1>12. CASE z = y
  <2>1. U \ {z} = X
    BY <1>12
  <2>2. SumOver(f, U) = f[y] + SumOver(f, X)
    BY <1>10, <1>12, <2>1
  <2> HIDE DEF z
  <2> QED
    BY <1>7, <1>11, <2>2
<1>13. CASE z # y
  <2> DEFINE Y == X \ {z}
  <2>1. z \in X /\ U \ {z} = Y \cup {y} /\ X = Y \cup {z} /\ y \notin Y /\ z \notin Y
    BY <1>9, <1>13
  <2>2. Cardinality(Y) = Cardinality(X) - 1
    <3>1. z \in X /\ IsFiniteSet(X)
      BY <1>8, <2>1
    <3> HIDE DEF z
    <3> QED
      BY <3>1, FS_RemoveElement
  <2>3. Y \in SUBSET S /\ Cardinality(Y) < n
    BY <1>5, <1>8, <2>2
  <2>4. SumOver(f, Y \cup {y}) = SumOver(f, Y) + f[y] /\ SumOver(f, Y \cup {z}) = SumOver(f, Y) + f[z]
    BY <1>6, <2>1, <2>3 DEF Adds
  <2>5. SumOver(f, Y) \in Int
    BY <2>3, FS_Subset, SumInt
  <2> HIDE DEF Y, U, z
  <2>6. SumOver(f, U) = f[z] + (SumOver(f, Y) + f[y]) /\ SumOver(f, X) = SumOver(f, Y) + f[z]
    BY <1>10, <2>1, <2>4
  <2> QED
    BY <1>7, <1>11, <2>5, <2>6 DEF U
<1> QED
  BY <1>12, <1>13

LEMMA SumRemove ==
  ASSUME NEW D, NEW f \in [D -> Int], NEW S \in SUBSET D, IsFiniteSet(S), NEW x \in S
  PROVE  SumOver(f, S) = SumOver(f, S \ {x}) + f[x]
<1>1. S = (S \ {x}) \cup {x} /\ x \notin S \ {x} /\ S \ {x} \in SUBSET D /\ x \in D
  OBVIOUS
<1>2. IsFiniteSet(S \ {x})
  BY FS_Subset
<1> QED
  BY <1>1, <1>2, SumAdd

(***************************************************************************)
(* Leaving elements out does not raise a sum of natural numbers.           *)
(***************************************************************************)
LEMMA SumSubset ==
  ASSUME NEW D, NEW f \in [D -> Nat], NEW S \in SUBSET D, IsFiniteSet(S), NEW T \in SUBSET S
  PROVE  0 <= SumOver(f, T) /\ SumOver(f, T) <= SumOver(f, S)
<1> DEFINE Below(X) == \A Y \in SUBSET X : 0 <= SumOver(f, Y) /\ SumOver(f, Y) <= SumOver(f, X)
           Bad == {n \in Nat : \E X \in SUBSET S : Cardinality(X) = n /\ ~Below(X)}
<1>0. f \in [D -> Int]
  OBVIOUS
<1>1. SUFFICES ASSUME ~Below(S) PROVE FALSE
  OBVIOUS
<1> HIDE DEF Below
<1>3. Cardinality(S) \in Bad
  BY <1>1, FS_Subset, FS_CardinalityType
<1>4. PICK n \in Bad : \A m \in Bad : n <= m
  <2>1. Bad \in SUBSET Nat /\ Bad # {}
    BY <1>3
  <2> HIDE DEF Bad
  <2> QED
    BY <2>1, Least
<1>5. PICK X \in SUBSET S : Cardinality(X) = n /\ ~Below(X)
  BY <1>4
<1>6. ASSUME NEW x \in X PROVE Below(X \ {x})
  <2>1. IsFiniteSet(X) /\ IsFiniteSet(X \ {x}) /\ Cardinality(X \ {x}) = n - 1
    BY <1>5, FS_Subset, FS_RemoveElement
  <2>2. Cardinality(X \ {x}) \in Nat /\ n \in Nat
    BY <2>1, FS_CardinalityType
  <2>3. SUFFICES ASSUME ~Below(X \ {x}) PROVE FALSE
    OBVIOUS
  <2>4. n - 1 \in Bad
    BY <2>1, <2>2, <2>3
  <2> QED
    BY <1>4, <2>2, <2>4
<1>7. PICK Y \in SUBSET X : ~(0 <= SumOver(f, Y) /\ SumOver(f, Y) <= SumOver(f, X))
  BY <1>5 DEF Below
<1>8. IsFiniteSet(X) /\ IsFiniteSet(Y)
  BY FS_Subset
<1>9. CASE X = {}
  BY <1>0, <1>7, <1>9, SumEmpty
<1>10. CASE Y # X
  <2>1. PICK x \in X : x \notin Y
    BY <1>10
  <2>2. Y \in SUBSET (X \ {x})
    BY <2>1
  <2>3. 0 <= SumOver(f, Y) /\ SumOver(f, Y) <= SumOver(f, X \ {x})
    BY <1>6, <2>2 DEF Below
  <2>4. SumOver(f, X) = SumOver(f, X \ {x}) + f[x]
    BY <1>0, <1>8, SumRemove
  <2>5. SumOver(f, Y) \in Int /\ SumOver(f, X \ {x}) \in Int /\ f[x] \in Nat
    BY <1>0, <1>8, SumInt, FS_Subset
  <2> QED
    BY <1>7, <2>3, <2>4, <2>5
<1>11. CASE Y = X /\ X # {}
  <2>1. PICK x \in X : TRUE
    BY <1>11
  <2>2. 0 <= SumOver(f, X \ {x})
    BY <1>6 DEF Below
  <2>3. SumOver(f, X) = SumOver(f, X \ {x}) + f[x]
    BY <1>0, <1>8, SumRemove
  <2>4. SumOver(f, X \ {x}) \in Int /\ f[x] \in Nat
    BY <1>0, <1>8, SumInt, FS_Subset
  <2> QED
    BY <1>7, <1>11, <2>2, <2>3, <2>4
<1> QED
  BY <1>9, <1>10, <1>11

(***************************************************************************)
(* The sum depends on what f is on S alone.                                *)
(***************************************************************************)
LEMMA SumSame ==
  ASSUME NEW D, NEW f \in [D -> Int], NEW g \in [D -> Int], NEW S \in SUBSET D, IsFiniteSet(S),
         \A x \in S : f[x] = g[x]
  PROVE  SumOver(f, S) = SumOver(g, S)
<1> DEFINE Same(T) == SumOver(f, T) = SumOver(g, T)
           Bad == {n \in Nat : \E T \in SUBSET S : Cardinality(T) = n /\ ~Same(T)}
<1>1. SUFFICES ASSUME ~Same(S) PROVE FALSE
  OBVIOUS
<1>2. Cardinality(S) \in Bad /\ Bad \in SUBSET Nat
  BY <1>1, FS_CardinalityType
<1>3. PICK n \in Bad : \A m \in Bad : n <= m
  BY <1>2, Least
<1>4. PICK T \in SUBSET S : Cardinality(T) = n /\ ~Same(T)
  OBVIOUS
<1>5. IsFiniteSet(T) /\ T \in SUBSET D
  BY FS_Subset
<1>6. T # {}
  BY <1>4, SumEmpty
<1>7. PICK x \in T : TRUE
  BY <1>6
<1> DEFINE R == T \ {x}
<1>8. /\ SumOver(f, T) = SumOver(f, R) + f[x]
      /\ SumOver(g, T) = SumOver(g, R) + g[x]
  BY <1>5, SumRemove
<1>9. R \in SUBSET S /\ Cardinality(R) = n - 1 /\ Cardinality(R) \in Nat
  <2>1. IsFiniteSet(R) /\ Cardinality(R) = Cardinality(T) - 1
    BY <1>5, FS_RemoveElement
  <2> QED
    BY <1>4, <2>1, FS_CardinalityType
<1>10. Same(R)
  BY <1>3, <1>9
<1>11. f[x] = g[x]
  OBVIOUS
<1> QED
  BY <1>4, <1>8, <1>10, <1>11

(***************************************************************************)
(* The sum over two sets without a common element is the sum of both.      *)
(***************************************************************************)
LEMMA SumUnion ==
  ASSUME NEW D, NEW f \in [D -> Int], NEW U \in SUBSET D, IsFiniteSet(U),
         NEW S \in SUBSET D, IsFiniteSet(S), U \cap S = {}
  PROVE  SumOver(f, U \cup S) = SumOver(f, U) + SumOver(f, S)
<1> DEFINE Splits(T) == SumOver(f, U \cup T) = SumOver(f, U) + SumOver(f, T)
           Bad == {n \in Nat : \E T \in SUBSET S : Cardinality(T) = n /\ ~Splits(T)}
<1>1. SUFFICES ASSUME ~Splits(S) PROVE FALSE
  OBVIOUS
<1>2. Cardinality(S) \in Bad /\ Bad \in SUBSET Nat
  BY <1>1, FS_CardinalityType
<1>3. PICK n \in Bad : \A m \in Bad : n <= m
  BY <1>2, Least
<1>4. PICK T \in SUBSET S : Cardinality(T) = n /\ ~Splits(T)
  OBVIOUS
<1>5. IsFiniteSet(T) /\ T \in SUBSET D
  BY FS_Subset
<1>6. T # {}
  <2>1. U \cup {} = U /\ SumOver(f, U) \in Int /\ SumOver(f, {}) = 0
    BY SumInt, SumEmpty
  <2> QED
    BY <1>4, <2>1
<1>7. PICK x \in T : TRUE
  BY <1>6
<1> DEFINE R == T \ {x}
<1>8. SumOver(f, T) = SumOver(f, R) + f[x]
  BY <1>5, SumRemove
<1>9. R \in SUBSET S /\ IsFiniteSet(R) /\ Cardinality(R) = n - 1 /\ Cardinality(R) \in Nat
  <2>1. IsFiniteSet(R) /\ Cardinality(R) = Cardinality(T) - 1
    BY <1>5, FS_RemoveElement
  <2> QED
    BY <1>4, <2>1, FS_CardinalityType
<1>10. Splits(R)
  <2> HIDE DEF Splits, R
  <2>1. Cardinality(R) \notin Bad
    <3>1. n \in Nat /\ ~(n <= n - 1)
      BY <1>2
    <3> QED
      BY <1>3, <1>9, <3>1
  <2> QED
    BY <1>9, <2>1
<1>11. SumOver(f, U \cup T) = SumOver(f, U \cup R) + f[x]
  <2>1. U \cup T = (U \cup R) \cup {x} /\ x \notin U \cup R /\ x \in D /\ U \cup R \in SUBSET D
    OBVIOUS
  <2>2. IsFiniteSet(U \cup R)
    BY <1>9, FS_Union
  <2> HIDE DEF R
  <2> QED
    BY <2>1, <2>2, SumAdd
<1>12. /\ SumOver(f, R) \in Int /\ SumOver(f, U) \in Int /\ f[x] \in Int
       /\ SumOver(f, T) \in Int /\ SumOver(f, U \cup T) \in Int
  <2>1. IsFiniteSet(U \cup T) /\ U \cup T \in SUBSET D /\ R \in SUBSET D /\ x \in D
    BY <1>5, FS_Union
  <2> HIDE DEF R
  <2> QED
    BY <1>5, <1>9, <2>1, SumInt
<1> HIDE DEF R
<1> QED
  BY <1>4, <1>8, <1>10, <1>11, <1>12

(***************************************************************************)
(* Elements may be renamed: the sum of g over what S is mapped to, one to  *)
(* one and with the same values, is the sum of f over S.                   *)
(***************************************************************************)
LEMMA SumInjected ==
  ASSUME NEW D, NEW E, NEW f \in [D -> Int], NEW g \in [E -> Int], NEW S \in SUBSET D, IsFiniteSet(S),
         NEW i, \A x \in S : i[x] \in E /\ g[i[x]] = f[x], \A x, y \in S : i[x] = i[y] => x = y
  PROVE  /\ IsFiniteSet({i[x] : x \in S})
         /\ SumOver(g, {i[x] : x \in S}) = SumOver(f, S)
<1> DEFINE Image(T) == {i[x] : x \in T}
           Same(T) == IsFiniteSet(Image(T)) /\ SumOver(g, Image(T)) = SumOver(f, T)
           Bad == {n \in Nat : \E T \in SUBSET S : Cardinality(T) = n /\ ~Same(T)}
<1>1. SUFFICES ASSUME ~Same(S) PROVE FALSE
  OBVIOUS
<1> HIDE DEF Same
<1>2. Cardinality(S) \in Bad /\ Bad \in SUBSET Nat
  BY <1>1, FS_CardinalityType
<1>3. PICK n \in Bad : \A m \in Bad : n <= m
  <2> HIDE DEF Bad
  <2> QED
    BY <1>2, Least
<1>4. PICK T \in SUBSET S : Cardinality(T) = n /\ ~Same(T)
  OBVIOUS
<1>5. IsFiniteSet(T) /\ T \in SUBSET D
  BY FS_Subset
<1>6. T # {}
  <2>1. Image({}) = {}
    OBVIOUS
  <2>2. Same({})
    BY <2>1, SumEmpty, FS_EmptySet DEF Same
  <2> QED
    BY <1>4, <2>2
<1>7. PICK x \in T : TRUE
  BY <1>6
<1> DEFINE R == T \ {x}
<1>8. SumOver(f, T) = SumOver(f, R) + f[x]
  BY <1>5, SumRemove
<1>9. R \in SUBSET S /\ Cardinality(R) = n - 1 /\ Cardinality(R) \in Nat
  <2>1. IsFiniteSet(R) /\ Cardinality(R) = Cardinality(T) - 1
    BY <1>5, FS_RemoveElement
  <2> QED
    BY <1>4, <2>1, FS_CardinalityType
<1>10. Same(R)
  BY <1>3, <1>9
<1>11. Image(T) = Image(R) \cup {i[x]} /\ i[x] \notin Image(R) /\ Image(R) \in SUBSET E
  OBVIOUS
<1>12. i[x] \in E /\ g[i[x]] = f[x]
  OBVIOUS
<1>13. IsFiniteSet(Image(R)) /\ SumOver(g, Image(R)) = SumOver(f, R)
  BY <1>10 DEF Same
<1>14. IsFiniteSet(Image(T)) /\ SumOver(g, Image(T)) = SumOver(g, Image(R)) + g[i[x]]
  <2> HIDE DEF Image, R
  <2> QED
    BY <1>11, <1>12, <1>13, SumAdd, FS_AddElement
<1>15. Same(T)
  <2> HIDE DEF Image, R
  <2> QED
    BY <1>8, <1>12, <1>13, <1>14 DEF Same
<1> QED
  BY <1>4, <1>15
=============================================================================
