-------------------------------- MODULE Sums --------------------------------
(***************************************************************************)
(* What the folds of the community modules compute when they add up: the   *)
(* sum of an integer for every element of a finite set.  A fold takes the  *)
(* elements in an order of its own and is a function defined by recursion  *)
(* on subsets; here such a function is shown to exist, to be the only one, *)
(* and to give a sum that depends on no order.                             *)
(***************************************************************************)
EXTENDS Integers, FiniteSetTheorems, WellFoundedInduction, TLAPS

\* The element a fold takes first.
Pick(s) == CHOOSE x \in s : TRUE

\* it gives the sum of w over each subset of S, as MapThenFoldSet defines it.
IsSums(it, w, S) ==
  it = [s \in SUBSET S |-> IF s = {} THEN 0
                           ELSE w[CHOOSE x \in s : TRUE] + it[s \ {CHOOSE x \in s : TRUE}]]

SumOver(w, S) == (CHOOSE it : IsSums(it, w, S))[S]

-----------------------------------------------------------------------------
\* The sums over the subsets of at most n elements.
LevelSums(h, w, S, n) ==
  h = [s \in {t \in SUBSET S : Cardinality(t) <= n} |->
         IF s = {} THEN 0 ELSE w[Pick(s)] + h[s \ {Pick(s)}]]

LEMMA Picked ==
  ASSUME NEW s, s # {}, IsFiniteSet(s)
  PROVE  /\ Pick(s) \in s /\ IsFiniteSet(s \ {Pick(s)})
         /\ Cardinality(s) \in Nat /\ Cardinality(s \ {Pick(s)}) = Cardinality(s) - 1
<1>1. Pick(s) \in s BY DEF Pick
<1> QED BY <1>1, FS_RemoveElement, FS_CardinalityType

LEMMA SumsExist ==
  ASSUME NEW S, IsFiniteSet(S), NEW w
  PROVE  \E it : IsSums(it, w, S)
<1> DEFINE Bad == {n \in Nat : ~\E h : LevelSums(h, w, S, n)}
<1>0. \A s \in SUBSET S : IsFiniteSet(s) /\ Cardinality(s) \in Nat /\ Cardinality(s) <= Cardinality(S)
  BY FS_Subset, FS_CardinalityType
<1>1. Bad = {}
  <2> SUFFICES ASSUME Bad # {} PROVE FALSE OBVIOUS
  <2>1. PICK n \in Bad : \A m \in Bad : ~(<<m, n>> \in OpToRel(<, Nat))
    <3>1. Bad \subseteq Nat OBVIOUS
    <3> HIDE DEF Bad
    <3> QED BY <3>1, NatLessThanWellFounded, WFMin
  <2>2. n \in Nat /\ ~\E h : LevelSums(h, w, S, n) OBVIOUS
  <2>3. CASE n = 0
    <3>1. {t \in SUBSET S : Cardinality(t) <= 0} = {{}}
      BY <1>0, FS_EmptySet
    <3>2. LevelSums([s \in {{}} |-> 0], w, S, 0)
      BY <3>1 DEF LevelSums
    <3> QED BY <2>2, <2>3, <3>2
  <2>4. CASE n # 0
    <3>1. n - 1 \in Nat /\ n - 1 < n BY <2>2, <2>4
    <3>2. n - 1 \notin Bad BY <2>1, <2>2, <3>1 DEF OpToRel
    <3>3. PICK h : LevelSums(h, w, S, n - 1) BY <3>1, <3>2
    <3> DEFINE Low == {t \in SUBSET S : Cardinality(t) <= n - 1}
               High == {t \in SUBSET S : Cardinality(t) <= n}
               g == [s \in High |-> IF s \in Low THEN h[s] ELSE w[Pick(s)] + h[s \ {Pick(s)}]]
    <3>4. h = [s \in Low |-> IF s = {} THEN 0 ELSE w[Pick(s)] + h[s \ {Pick(s)}]]
      BY <3>3 DEF LevelSums
    <3>5. {} \in Low /\ Low \subseteq High BY <1>0, <2>2, <3>1, FS_EmptySet
    <3>6. ASSUME NEW s \in High, s # {} PROVE s \ {Pick(s)} \in Low
      BY <1>0, <2>2, <3>6, Picked
    <3> HIDE DEF Low, High
    <3>7. ASSUME NEW s \in High
          PROVE  g[s] = IF s = {} THEN 0 ELSE w[Pick(s)] + g[s \ {Pick(s)}]
      <4>1. CASE s = {} BY <3>4, <3>5, <4>1
      <4>2. CASE s # {}
        <5>1. s \ {Pick(s)} \in Low BY <3>6, <4>2
        <5>2. g[s \ {Pick(s)}] = h[s \ {Pick(s)}] BY <3>5, <5>1
        <5>3. g[s] = w[Pick(s)] + h[s \ {Pick(s)}] BY <3>4, <4>2
        <5> QED BY <4>2, <5>2, <5>3
      <4> QED BY <4>1, <4>2
    <3>8. g = [s \in High |-> IF s = {} THEN 0 ELSE w[Pick(s)] + g[s \ {Pick(s)}]]
      <4>1. g = [s \in High |-> g[s]] OBVIOUS
      <4> HIDE DEF g
      <4> QED BY <3>7, <4>1
    <3> HIDE DEF g
    <3>9. LevelSums(g, w, S, n) BY <3>8 DEF LevelSums, High
    <3> QED BY <2>2, <3>9
  <2> QED BY <2>3, <2>4
<1>2. Cardinality(S) \in Nat BY FS_CardinalityType
<1>3. PICK h : LevelSums(h, w, S, Cardinality(S)) BY <1>1, <1>2
<1>4. {t \in SUBSET S : Cardinality(t) <= Cardinality(S)} = SUBSET S BY <1>0
<1>5. IsSums(h, w, S) BY <1>3, <1>4 DEF LevelSums, IsSums, Pick
<1> QED BY <1>5

\* Induction over the subsets of a finite set: no smallest bad one, no bad one.
LEMMA SubsetInduction ==
  ASSUME NEW S, IsFiniteSet(S), NEW Bad \in SUBSET SUBSET S,
         \A s \in Bad : \E t \in Bad : Cardinality(t) < Cardinality(s)
  PROVE  Bad = {}
<1> SUFFICES ASSUME Bad # {} PROVE FALSE OBVIOUS
<1>1. \A s \in Bad : Cardinality(s) \in Nat BY FS_Subset, FS_CardinalityType
<1> DEFINE Sizes == {Cardinality(s) : s \in Bad}
<1>2. Sizes \subseteq Nat /\ Sizes # {} BY <1>1
<1>3. PICK n \in Sizes : \A m \in Sizes : ~(<<m, n>> \in OpToRel(<, Nat))
  <2> HIDE DEF Sizes
  <2> QED BY <1>2, NatLessThanWellFounded, WFMin
<1>4. PICK s \in Bad : n = Cardinality(s) OBVIOUS
<1>5. PICK t \in Bad : Cardinality(t) < n BY <1>4
<1>6. Cardinality(t) \in Sizes OBVIOUS
<1> HIDE DEF Sizes
<1> QED BY <1>2, <1>3, <1>5, <1>6 DEF OpToRel

\* One step of the sums.
LEMMA SumsStep ==
  ASSUME NEW S, NEW w, NEW it, IsSums(it, w, S)
  PROVE  /\ it[{}] = 0
         /\ \A s \in SUBSET S : s # {} => it[s] = w[Pick(s)] + it[s \ {Pick(s)}]
<1>1. \A s \in SUBSET S : it[s] = IF s = {} THEN 0 ELSE w[Pick(s)] + it[s \ {Pick(s)}]
  BY DEF IsSums, Pick
<1> QED BY <1>1

LEMMA SumsAreIntegers ==
  ASSUME NEW S, IsFiniteSet(S), NEW w, \A x \in S : w[x] \in Int, NEW it, IsSums(it, w, S)
  PROVE  \A s \in SUBSET S : it[s] \in Int
<1>0. it[{}] = 0 /\ \A s \in SUBSET S : s # {} => it[s] = w[Pick(s)] + it[s \ {Pick(s)}]
  BY SumsStep
<1> DEFINE Bad == {s \in SUBSET S : it[s] \notin Int}
<1>1. ASSUME NEW s \in Bad PROVE \E t \in Bad : Cardinality(t) < Cardinality(s)
  <2>1. s \in SUBSET S /\ it[s] \notin Int OBVIOUS
  <2>8. it[{}] \in Int BY <1>0
  <2>2. s # {} BY <2>1, <2>8
  <2>3. IsFiniteSet(s) BY <2>1, FS_Subset
  <2>4. Pick(s) \in s /\ Cardinality(s) \in Nat /\ Cardinality(s \ {Pick(s)}) = Cardinality(s) - 1
    BY <2>2, <2>3, Picked
  <2>5. it[s] = w[Pick(s)] + it[s \ {Pick(s)}] BY <1>0, <2>1, <2>2
  <2>6. it[s \ {Pick(s)}] \notin Int BY <2>1, <2>4, <2>5
  <2>7. s \ {Pick(s)} \in Bad BY <2>1, <2>6
  <2> HIDE DEF Bad
  <2> QED BY <2>4, <2>7
<1>2. Bad \in SUBSET SUBSET S OBVIOUS
<1>3. Bad = {}
  <2> HIDE DEF Bad
  <2> QED BY <1>1, <1>2, SubsetInduction
<1> QED BY <1>3

\* Two sums of the same integers are the same, whatever else they are the sums of.
LEMMA SumsAgree ==
  ASSUME NEW S, IsFiniteSet(S), NEW T, IsFiniteSet(T), NEW w, NEW u, NEW it, NEW jt,
         IsSums(it, w, S), IsSums(jt, u, T), \A x \in S \cap T : w[x] = u[x]
  PROVE  \A s \in SUBSET (S \cap T) : it[s] = jt[s]
<1>4. it[{}] = 0 /\ \A s \in SUBSET S : s # {} => it[s] = w[Pick(s)] + it[s \ {Pick(s)}]
  BY SumsStep
<1>5. jt[{}] = 0 /\ \A s \in SUBSET T : s # {} => jt[s] = u[Pick(s)] + jt[s \ {Pick(s)}]
  BY SumsStep
<1>0. /\ it[{}] = 0 /\ \A s \in SUBSET S : s # {} => it[s] = w[Pick(s)] + it[s \ {Pick(s)}]
      /\ jt[{}] = 0 /\ \A s \in SUBSET T : s # {} => jt[s] = u[Pick(s)] + jt[s \ {Pick(s)}]
  BY <1>4, <1>5
<1> DEFINE Bad == {s \in SUBSET (S \cap T) : it[s] # jt[s]}
<1>1. ASSUME NEW s \in Bad PROVE \E t \in Bad : Cardinality(t) < Cardinality(s)
  <2>1. s \in SUBSET S /\ s \in SUBSET T /\ it[s] # jt[s] OBVIOUS
  <2>2. s # {} BY <1>0, <2>1
  <2>3. IsFiniteSet(s) BY <2>1, FS_Subset
  <2>4. Pick(s) \in s /\ Cardinality(s) \in Nat /\ Cardinality(s \ {Pick(s)}) = Cardinality(s) - 1
    BY <2>2, <2>3, Picked
  <2>5. it[s] = w[Pick(s)] + it[s \ {Pick(s)}] BY <1>0, <2>1, <2>2
  <2>6. jt[s] = u[Pick(s)] + jt[s \ {Pick(s)}] BY <1>0, <2>1, <2>2
  <2>7. it[s \ {Pick(s)}] # jt[s \ {Pick(s)}] BY <2>1, <2>4, <2>5, <2>6
  <2>8. s \ {Pick(s)} \in Bad BY <2>1, <2>7
  <2> HIDE DEF Bad
  <2> QED BY <2>4, <2>8
<1>2. Bad \in SUBSET SUBSET S OBVIOUS
<1>3. Bad = {}
  <2> HIDE DEF Bad
  <2> QED BY <1>1, <1>2, SubsetInduction
<1> QED BY <1>3

\* Any element may be taken first.
LEMMA AnyFirst ==
  ASSUME NEW S, IsFiniteSet(S), NEW w, \A x \in S : w[x] \in Int, NEW it, IsSums(it, w, S),
         NEW C \in SUBSET S, NEW z \in C
  PROVE  it[C] = w[z] + it[C \ {z}]
<1> DEFINE Bad == {s \in SUBSET S : \E x \in s : it[s] # w[x] + it[s \ {x}]}
<1>9. \A s \in SUBSET S : it[s] \in Int BY SumsAreIntegers
<1>0. it[{}] = 0 /\ \A s \in SUBSET S : s # {} => it[s] = w[Pick(s)] + it[s \ {Pick(s)}]
  BY SumsStep
<1>1. ASSUME NEW s \in Bad PROVE \E t \in Bad : Cardinality(t) < Cardinality(s)
  <2>1. s \in SUBSET S OBVIOUS
  <2>2. PICK x \in s : it[s] # w[x] + it[s \ {x}] OBVIOUS
  <2> DEFINE y == Pick(s)
  <2>3. IsFiniteSet(s) BY <2>1, FS_Subset
  <2>4. y \in s /\ Cardinality(s) \in Nat /\ Cardinality(s \ {y}) = Cardinality(s) - 1
    BY <2>2, <2>3, Picked
  <2>5. it[s] = w[y] + it[s \ {y}] BY <1>0, <2>1, <2>2
  <2>6. x # y BY <2>2, <2>5
  <2>7. Cardinality(s \ {x}) = Cardinality(s) - 1
    BY <2>3, FS_RemoveElement
  <2>8. CASE s \ {y} \in Bad
    <3> HIDE DEF Bad
    <3> QED BY <2>4, <2>8
  <2>9. CASE s \ {x} \in Bad
    <3> HIDE DEF Bad
    <3> QED BY <2>4, <2>7, <2>9
  <2>10. CASE s \ {y} \notin Bad /\ s \ {x} \notin Bad
    <3>1. it[s \ {y}] = w[x] + it[(s \ {y}) \ {x}] BY <2>1, <2>6, <2>10
    <3>2. it[s \ {x}] = w[y] + it[(s \ {x}) \ {y}] BY <2>1, <2>4, <2>6, <2>10
    <3>3. (s \ {y}) \ {x} = (s \ {x}) \ {y} OBVIOUS
    <3>4. w[x] \in Int /\ w[y] \in Int BY <2>1, <2>4
    <3>5. (s \ {x}) \ {y} \in SUBSET S BY <2>1
    <3>6. it[(s \ {x}) \ {y}] \in Int BY <1>9, <3>5
    <3> HIDE DEF y
    <3> DEFINE r == it[(s \ {x}) \ {y}]
    <3>8. it[s \ {y}] = w[x] + r /\ it[s \ {x}] = w[y] + r /\ r \in Int BY <3>1, <3>2, <3>3, <3>6
    <3> HIDE DEF r
    <3>7. it[s] = w[x] + it[s \ {x}] BY <2>5, <3>4, <3>8
    <3> QED BY <2>2, <3>7
  <2> QED BY <2>8, <2>9, <2>10
<1>2. Bad \in SUBSET SUBSET S OBVIOUS
<1>3. Bad = {}
  <2> HIDE DEF Bad
  <2> QED BY <1>1, <1>2, SubsetInduction
<1> QED BY <1>3

-----------------------------------------------------------------------------
\* What is needed of sums.

LEMMA TheSums ==
  ASSUME NEW S, IsFiniteSet(S), NEW w
  PROVE  IsSums(CHOOSE it : IsSums(it, w, S), w, S)
BY SumsExist

LEMMA SumIsInteger ==
  ASSUME NEW S, IsFiniteSet(S), NEW w, \A x \in S : w[x] \in Int
  PROVE  SumOver(w, S) \in Int
<1> DEFINE it == CHOOSE g : IsSums(g, w, S)
<1>1. IsSums(it, w, S) BY TheSums
<1> HIDE DEF it
<1>2. it[S] \in Int BY <1>1, SumsAreIntegers
<1> QED BY <1>2 DEF SumOver, it

LEMMA SumOfNone == ASSUME NEW w PROVE SumOver(w, {}) = 0
<1> DEFINE it == CHOOSE g : IsSums(g, w, {})
<1>1. IsSums(it, w, {}) BY TheSums, FS_EmptySet
<1> HIDE DEF it
<1>2. it[{}] = 0 BY <1>1, SumsStep
<1> QED BY <1>2 DEF SumOver, it

LEMMA SumOfSame ==
  ASSUME NEW S, IsFiniteSet(S), NEW w, NEW u, \A x \in S : w[x] = u[x]
  PROVE  SumOver(w, S) = SumOver(u, S)
<1> DEFINE it == CHOOSE g : IsSums(g, w, S)
           jt == CHOOSE g : IsSums(g, u, S)
<1>1. IsSums(it, w, S) /\ IsSums(jt, u, S) BY TheSums
<1> HIDE DEF it, jt
<1>2. \A s \in SUBSET (S \cap S) : it[s] = jt[s] BY <1>1, SumsAgree
<1>3. it[S] = jt[S] BY <1>2
<1> QED BY <1>3 DEF SumOver, it, jt

\* The sum over one element more.
LEMMA SumWith ==
  ASSUME NEW S, IsFiniteSet(S), NEW x, x \notin S, NEW w, \A y \in S \cup {x} : w[y] \in Int
  PROVE  SumOver(w, S \cup {x}) = SumOver(w, S) + w[x]
<1> DEFINE T == S \cup {x}
           it == CHOOSE g : IsSums(g, w, S)
           jt == CHOOSE g : IsSums(g, w, T)
<1>1. IsFiniteSet(T) BY FS_AddElement
<1>2. IsSums(it, w, S) /\ IsSums(jt, w, T)
  <2> HIDE DEF T
  <2> QED BY <1>1, TheSums
<1>3. T \ {x} = S /\ x \in T /\ S \in SUBSET (S \cap T) OBVIOUS
<1> HIDE DEF it, jt
<1>4. it[S] = jt[S]
  <2> HIDE DEF T
  <2>1. \A s \in SUBSET (S \cap T) : it[s] = jt[s] BY <1>1, <1>2, SumsAgree
  <2> QED BY <1>3, <2>1
<1>5. \A y \in T : w[y] \in Int OBVIOUS
<1>6. SumOver(w, S) = it[S] /\ SumOver(w, T) = jt[T] BY DEF SumOver, it, jt
<1>7. jt[T] = w[x] + jt[T \ {x}]
  <2> HIDE DEF T
  <2>0. IsSums(jt, w, T) BY <1>2
  <2>2. \A y \in T : w[y] \in Int BY <1>5
  <2>1. T \in SUBSET T /\ x \in T BY <1>3
  <2> QED BY <1>1, <2>0, <2>1, <2>2, AnyFirst
<1>8. it[S] \in Int /\ w[x] \in Int
  BY <1>2, SumsAreIntegers
<1>10. jt[T] = w[x] + jt[S] BY <1>3, <1>7
<1> HIDE DEF T
<1>9. SumOver(w, T) = SumOver(w, S) + w[x] BY <1>4, <1>6, <1>8, <1>10
<1> QED BY <1>9 DEF T

\* Every set but the empty one is one of fewer elements and another element.
LEMMA OneLess ==
  ASSUME NEW S, IsFiniteSet(S), S # {}
  PROVE  \E x \in S : /\ S = (S \ {x}) \cup {x} /\ IsFiniteSet(S \ {x})
                      /\ Cardinality(S \ {x}) < Cardinality(S)
<1>1. PICK x \in S : TRUE OBVIOUS
<1>2. IsFiniteSet(S \ {x}) /\ Cardinality(S \ {x}) = Cardinality(S) - 1 /\ Cardinality(S) \in Nat
  BY FS_RemoveElement, FS_CardinalityType
<1>3. S = (S \ {x}) \cup {x} OBVIOUS
<1>4. Cardinality(S \ {x}) < Cardinality(S) BY <1>2
<1> QED BY <1>2, <1>3, <1>4

LEMMA SumOfUnion ==
  ASSUME NEW A, IsFiniteSet(A), NEW B, IsFiniteSet(B), A \cap B = {},
         NEW w, \A y \in A \cup B : w[y] \in Int
  PROVE  SumOver(w, A \cup B) = SumOver(w, A) + SumOver(w, B)
<1> DEFINE Bad == {C \in SUBSET B : SumOver(w, A \cup C) # SumOver(w, A) + SumOver(w, C)}
<1>0. SumOver(w, A) \in Int
  <2>1. \A y \in A : w[y] \in Int OBVIOUS
  <2> QED BY <2>1, SumIsInteger
<1>1. ASSUME NEW C \in Bad PROVE \E D \in Bad : Cardinality(D) < Cardinality(C)
  <2>1. C \in SUBSET B /\ SumOver(w, A \cup C) # SumOver(w, A) + SumOver(w, C) OBVIOUS
  <2>2. IsFiniteSet(C) BY <2>1, FS_Subset
  <2>3. C # {}
    <3> SUFFICES ASSUME C = {} PROVE FALSE OBVIOUS
    <3>1. A \cup C = A /\ SumOver(w, C) = 0 BY SumOfNone
    <3> QED BY <1>0, <2>1, <3>1
  <2>4. PICK x \in C : /\ C = (C \ {x}) \cup {x} /\ IsFiniteSet(C \ {x})
                       /\ Cardinality(C \ {x}) < Cardinality(C)
    BY <2>2, <2>3, OneLess
  <2> DEFINE D == C \ {x}
  <2>5. D \in SUBSET B /\ IsFiniteSet(D) /\ Cardinality(D) < Cardinality(C) BY <2>1, <2>4
  <2>6. x \notin D /\ x \notin A \cup D /\ A \cup C = (A \cup D) \cup {x} /\ C = D \cup {x} /\ x \in B
    BY <2>1, <2>4
  <2>7. /\ \A y \in D \cup {x} : w[y] \in Int
        /\ \A y \in (A \cup D) \cup {x} : w[y] \in Int
        /\ \A y \in D : w[y] \in Int
    BY <2>1, <2>6
  <2> HIDE DEF D
  <2>8. SumOver(w, D \cup {x}) = SumOver(w, D) + w[x] BY <2>5, <2>6, <2>7, SumWith
  <2>9. SumOver(w, (A \cup D) \cup {x}) = SumOver(w, A \cup D) + w[x]
    <3>1. IsFiniteSet(A \cup D) BY <2>5, FS_Union
    <3> DEFINE E == A \cup D
    <3>2. IsFiniteSet(E) /\ x \notin E /\ \A y \in E \cup {x} : w[y] \in Int BY <2>6, <2>7, <3>1
    <3> HIDE DEF E
    <3>3. SumOver(w, E \cup {x}) = SumOver(w, E) + w[x] BY <3>2, SumWith
    <3> QED BY <3>3 DEF E
  <2>10. SumOver(w, D) \in Int /\ w[x] \in Int BY <2>5, <2>7, SumIsInteger
  <2>11. SumOver(w, A \cup C) = SumOver(w, A \cup D) + w[x] BY <2>6, <2>9
  <2>12. SumOver(w, C) = SumOver(w, D) + w[x] BY <2>6, <2>8
  <2>13. SumOver(w, A \cup D) # SumOver(w, A) + SumOver(w, D)
    BY <1>0, <2>1, <2>10, <2>11, <2>12
  <2>14. D \in Bad BY <2>5, <2>13
  <2> HIDE DEF Bad
  <2> QED BY <2>5, <2>14
<1>2. Bad \in SUBSET SUBSET B OBVIOUS
<1>3. Bad = {}
  <2> HIDE DEF Bad
  <2> QED BY <1>1, <1>2, SubsetInduction
<1>4. B \notin Bad BY <1>3
<1> QED BY <1>4

LEMMA SumOfDifferences ==
  ASSUME NEW S, IsFiniteSet(S), NEW w, NEW u, NEW v,
         \A x \in S : w[x] \in Int /\ u[x] \in Int /\ v[x] = w[x] - u[x]
  PROVE  SumOver(v, S) = SumOver(w, S) - SumOver(u, S)
<1> DEFINE Bad == {C \in SUBSET S : SumOver(v, C) # SumOver(w, C) - SumOver(u, C)}
<1>1. ASSUME NEW C \in Bad PROVE \E D \in Bad : Cardinality(D) < Cardinality(C)
  <2>1. C \in SUBSET S /\ SumOver(v, C) # SumOver(w, C) - SumOver(u, C) OBVIOUS
  <2>2. IsFiniteSet(C) BY <2>1, FS_Subset
  <2>3. C # {}
    <3> SUFFICES ASSUME C = {} PROVE FALSE OBVIOUS
    <3>1. SumOver(w, C) = 0 /\ SumOver(u, C) = 0 /\ SumOver(v, C) = 0 BY SumOfNone
    <3> QED BY <2>1, <3>1
  <2>4. PICK x \in C : /\ C = (C \ {x}) \cup {x} /\ IsFiniteSet(C \ {x})
                       /\ Cardinality(C \ {x}) < Cardinality(C)
    BY <2>2, <2>3, OneLess
  <2> DEFINE D == C \ {x}
  <2>5. /\ D \in SUBSET S /\ IsFiniteSet(D) /\ Cardinality(D) < Cardinality(C)
        /\ x \notin D /\ C = D \cup {x} /\ x \in S
    BY <2>1, <2>4
  <2>6. /\ \A y \in D \cup {x} : w[y] \in Int
        /\ \A y \in D \cup {x} : u[y] \in Int
        /\ \A y \in D \cup {x} : v[y] \in Int
    BY <2>5
  <2> HIDE DEF D
  <2>7. SumOver(w, D \cup {x}) = SumOver(w, D) + w[x] BY <2>5, <2>6, SumWith
  <2>8. SumOver(u, D \cup {x}) = SumOver(u, D) + u[x] BY <2>5, <2>6, SumWith
  <2>9. SumOver(v, D \cup {x}) = SumOver(v, D) + v[x] BY <2>5, <2>6, SumWith
  <2>10. /\ SumOver(w, D) \in Int /\ SumOver(u, D) \in Int /\ SumOver(v, D) \in Int
    <3>1. /\ \A y \in D : w[y] \in Int
          /\ \A y \in D : u[y] \in Int
          /\ \A y \in D : v[y] \in Int
      BY <2>6
    <3> QED BY <2>5, <3>1, SumIsInteger
  <2>11. w[x] \in Int /\ u[x] \in Int /\ v[x] = w[x] - u[x] BY <2>5
  <2>12. SumOver(v, D) # SumOver(w, D) - SumOver(u, D)
    <3>1. SumOver(v, D \cup {x}) # SumOver(w, D \cup {x}) - SumOver(u, D \cup {x}) BY <2>1, <2>5
    <3> QED BY <2>7, <2>8, <2>9, <2>10, <2>11, <3>1
  <2>13. D \in Bad BY <2>5, <2>12
  <2> HIDE DEF Bad
  <2> QED BY <2>5, <2>13
<1>2. Bad \in SUBSET SUBSET S OBVIOUS
<1>3. Bad = {}
  <2> HIDE DEF Bad
  <2> QED BY <1>1, <1>2, SubsetInduction
<1>4. S \notin Bad BY <1>3
<1> QED BY <1>4

\* A sum is that of the sums of its parts; home says whose part an element is in.
LEMMA SumOfParts ==
  ASSUME NEW U, IsFiniteSet(U), NEW P, IsFiniteSet(P), NEW home, \A x \in U : home[x] \in P,
         NEW w, \A x \in U : w[x] \in Int,
         NEW t, \A p \in P : t[p] = SumOver(w, {x \in U : home[x] = p})
  PROVE  SumOver(w, U) = SumOver(t, P)
<1> DEFINE Part(Q) == {x \in U : home[x] \in Q}
           Bad == {Q \in SUBSET P : SumOver(w, Part(Q)) # SumOver(t, Q)}
<1>0. \A C \in SUBSET U : IsFiniteSet(C) /\ SumOver(w, C) \in Int
  <2> SUFFICES ASSUME NEW C \in SUBSET U PROVE IsFiniteSet(C) /\ SumOver(w, C) \in Int OBVIOUS
  <2>1. IsFiniteSet(C) /\ \A x \in C : w[x] \in Int BY FS_Subset
  <2> QED BY <2>1, SumIsInteger
<1>1. ASSUME NEW Q \in Bad PROVE \E R \in Bad : Cardinality(R) < Cardinality(Q)
  <2>1. Q \in SUBSET P /\ SumOver(w, Part(Q)) # SumOver(t, Q) OBVIOUS
  <2>2. IsFiniteSet(Q) BY <2>1, FS_Subset
  <2>3. Q # {}
    <3> SUFFICES ASSUME Q = {} PROVE FALSE OBVIOUS
    <3>1. Part(Q) = {} /\ SumOver(w, {}) = 0 /\ SumOver(t, {}) = 0 BY SumOfNone
    <3> QED BY <2>1, <3>1
  <2>4. PICK p \in Q : /\ Q = (Q \ {p}) \cup {p} /\ IsFiniteSet(Q \ {p})
                       /\ Cardinality(Q \ {p}) < Cardinality(Q)
    BY <2>2, <2>3, OneLess
  <2> DEFINE R == Q \ {p}
             A == Part(R)
             B == {x \in U : home[x] = p}
  <2>5. /\ R \in SUBSET P /\ IsFiniteSet(R) /\ Cardinality(R) < Cardinality(Q)
        /\ p \notin R /\ Q = R \cup {p} /\ p \in P
    BY <2>1, <2>4
  <2>6. Part(Q) = A \cup B /\ A \cap B = {} /\ A \in SUBSET U /\ B \in SUBSET U BY <2>4
  <2>7. SumOver(w, A) \in Int /\ SumOver(w, B) \in Int BY <1>0, <2>6
  <2>8. SumOver(w, A \cup B) = SumOver(w, A) + SumOver(w, B)
    <3>1. IsFiniteSet(A) /\ IsFiniteSet(B) /\ A \cap B = {} BY <1>0, <2>6
    <3>2. \A y \in A \cup B : w[y] \in Int BY <2>6
    <3> HIDE DEF A, B
    <3> QED BY <3>1, <3>2, SumOfUnion
  <2>9. t[p] = SumOver(w, B) BY <2>5
  <2>10. \A r \in R \cup {p} : t[r] \in Int
    <3> SUFFICES ASSUME NEW r \in P PROVE t[r] \in Int BY <2>5
    <3>1. {x \in U : home[x] = r} \in SUBSET U OBVIOUS
    <3> QED BY <1>0, <3>1
  <2> HIDE DEF A, B, R
  <2>11. SumOver(t, R \cup {p}) = SumOver(t, R) + t[p] BY <2>5, <2>10, SumWith, ZenonT(100)
  <2>12. SumOver(t, R) \in Int BY <2>5, <2>10, SumIsInteger
  <2>13. SumOver(w, A) # SumOver(t, R)
    BY <2>1, <2>5, <2>6, <2>7, <2>8, <2>9, <2>11, <2>12
  <2>14. R \in Bad BY <2>5, <2>13 DEF A
  <2> HIDE DEF Bad
  <2> QED BY <2>5, <2>14
<1>2. Bad \in SUBSET SUBSET P OBVIOUS
<1>3. Bad = {}
  <2> HIDE DEF Bad
  <2> QED BY <1>1, <1>2, SubsetInduction
<1>4. P \notin Bad BY <1>3
<1>5. Part(P) = U OBVIOUS
<1> QED BY <1>4, <1>5
=============================================================================
