----------------------------- MODULE SumTheorems -----------------------------
(***************************************************************************)
(* Sums of the values of a function over a finite set, as MapThenSumSet    *)
(* takes them: the value does not depend on the order in which elements    *)
(* are chosen, so that one element may be taken out or changed.            *)
(*                                                                         *)
(* Each induction is an argument by a smallest counterexample: a least     *)
(* natural number, or a set of which no proper subset is one.              *)
(***************************************************************************)
EXTENDS Integers, FiniteSets, FiniteSetsExt, FiniteSetTheorems, TLAPS

SumOver(f, S) == MapThenSumSet(LAMBDA a : f[a], S)

Pick(S) == CHOOSE x \in S : TRUE

(* The step of the fold, and a function that takes it for each set of F.   *)
Partial(f, g, s) == IF s = {} THEN 0 ELSE f[Pick(s)] + g[s \ {Pick(s)}]
Sums(f, g, F) == g = [s \in F |-> Partial(f, g, s)]

-----------------------------------------------------------------------------
(* A set of naturals without a first element is empty.                     *)
LEMMA LeastNat ==
  ASSUME NEW B \in SUBSET Nat, B # {}
  PROVE  \E n \in B : n = 0 \/ n - 1 \notin B
<1> DEFINE R == OpToRel(<, Nat)
<1>1. IsWellFoundedOn(R, Nat)
  BY NatLessThanWellFounded
<1>2. \A m, n \in Nat : m < n => <<m, n>> \in R
  BY DEF OpToRel
<1> HIDE DEF R
<1>3. PICK n \in B : \A m \in B : ~(<<m, n>> \in R)
  BY <1>1, WFMin
<1>4. n \in Nat /\ (n # 0 => n - 1 \in Nat /\ n - 1 < n)
  BY <1>3
<1>5. n # 0 => <<n - 1, n>> \in R
  BY <1>2, <1>4
<1> QED
  BY <1>3, <1>5

(* Among subsets of a finite set one has no proper subset among them.      *)
LEMMA LeastSubset ==
  ASSUME NEW S, IsFiniteSet(S), NEW B \in SUBSET (SUBSET S), B # {}
  PROVE  \E T \in B : \A U \in SUBSET T : U # T => U \notin B
<1> DEFINE R == StrictSubsetOrdering(S)
<1>1. IsWellFoundedOn(R, SUBSET S)
  BY FS_StrictSubsetOrderingWellFounded, FS_FiniteSubsetsOfFinite
<1>2. \A U, T \in SUBSET S : U \subseteq T /\ U # T => <<U, T>> \in R
  BY DEF StrictSubsetOrdering
<1> HIDE DEF R
<1>3. PICK T \in B : \A U \in B : ~(<<U, T>> \in R)
  BY <1>1, WFMin
<1> QED
  BY <1>2, <1>3

LEMMA Picked == \A S : S # {} => Pick(S) \in S
BY DEF Pick

-----------------------------------------------------------------------------
(* The fold is defined: there is a function that takes its steps.          *)
LEMMA SumsExist ==
  ASSUME NEW f, NEW S, IsFiniteSet(S)
  PROVE  \E g : Sums(f, g, SUBSET S)
<1> DEFINE F(n) == {s \in SUBSET S : Cardinality(s) <= n}
           B == {n \in Nat : ~ \E g : Sums(f, g, F(n))}
<1>1. \A s \in SUBSET S : IsFiniteSet(s) /\ Cardinality(s) \in Nat
  BY FS_Subset, FS_CardinalityType
<1>2. \E g : Sums(f, g, F(0))
  <2> DEFINE g == [s \in F(0) |-> 0]
  <2>1. \A s \in F(0) : s = {}
    BY <1>1, FS_EmptySet
  <2>2. \A s \in F(0) : Partial(f, g, s) = 0
    BY <2>1 DEF Partial
  <2>3. Sums(f, g, F(0))
    BY <2>2 DEF Sums
  <2> QED
    BY <2>3
<1>3. ASSUME NEW n \in Nat, NEW g, Sums(f, g, F(n)) PROVE \E h : Sums(f, h, F(n + 1))
  <2> DEFINE h == [s \in F(n + 1) |-> Partial(f, g, s)]
  <2>1. \A s \in F(n) : h[s] = g[s]
    <3>1. \A s \in F(n) : s \in F(n + 1)
      BY <1>1
    <3>2. \A s \in F(n) : g[s] = Partial(f, g, s)
      BY <1>3 DEF Sums
    <3> QED
      BY <3>1, <3>2
  <2>2. ASSUME NEW s \in F(n + 1), s # {} PROVE s \ {Pick(s)} \in F(n)
    BY <1>1, <2>2, Picked, FS_RemoveElement
  <2> HIDE DEF F
  <2>3. ASSUME NEW s \in F(n + 1) PROVE Partial(f, h, s) = Partial(f, g, s)
    <3>1. CASE s = {}
      BY <3>1 DEF Partial
    <3>2. CASE s # {}
      <4>1. h[s \ {Pick(s)}] = g[s \ {Pick(s)}]
        BY <2>1, <2>2, <3>2
      <4> QED
        BY <4>1 DEF Partial
    <3> QED
      BY <3>1, <3>2
  <2>4. Sums(f, h, F(n + 1))
    BY <2>3 DEF Sums
  <2> QED
    BY <2>4
<1>4. B = {}
  <2>1. SUFFICES ASSUME B # {} PROVE FALSE
    OBVIOUS
  <2> HIDE DEF F
  <2>2. PICK n \in B : n = 0 \/ n - 1 \notin B
    BY <2>1, LeastNat
  <2>3. n # 0 /\ n - 1 \in Nat
    BY <1>2, <2>2
  <2>4. \E g : Sums(f, g, F(n - 1))
    BY <2>2, <2>3
  <2>5. \E h : Sums(f, h, F((n - 1) + 1))
    BY <1>3, <2>3, <2>4
  <2>6. (n - 1) + 1 = n
    BY <2>2
  <2> QED
    BY <2>2, <2>5, <2>6
<1>5. F(Cardinality(S)) = SUBSET S
  BY <1>1, FS_Subset
<1>6. Cardinality(S) \in Nat
  BY FS_CardinalityType
<1> HIDE DEF F
<1>7. \E g : Sums(f, g, F(Cardinality(S)))
  BY <1>4, <1>6
<1> QED
  BY <1>5, <1>7

(* Two such functions agree, if the values do.                             *)
LEMMA SumsAgree ==
  ASSUME NEW S, IsFiniteSet(S), NEW e, NEW f, \A x \in S : e[x] = f[x],
         NEW g, Sums(e, g, SUBSET S), NEW h, Sums(f, h, SUBSET S)
  PROVE  g[S] = h[S]
<1> DEFINE B == {T \in SUBSET S : g[T] # h[T]}
<1>1. B \in SUBSET (SUBSET S)
  OBVIOUS
<1>2. SUFFICES ASSUME B # {} PROVE FALSE
  OBVIOUS
<1>3. PICK T \in B : \A U \in SUBSET T : U # T => U \notin B
  <2> HIDE DEF B
  <2> QED
    BY <1>1, <1>2, LeastSubset
<1>4. g[T] = Partial(e, g, T) /\ h[T] = Partial(f, h, T) /\ g[T] # h[T] /\ T \subseteq S
  BY <1>3 DEF Sums
<1>5. T # {} /\ Pick(T) \in T
  BY <1>4, Picked DEF Partial
<1>6. g[T \ {Pick(T)}] = h[T \ {Pick(T)}] /\ e[Pick(T)] = f[Pick(T)]
  BY <1>3, <1>4, <1>5
<1> QED
  BY <1>4, <1>5, <1>6 DEF Partial

(* The operator of the models takes these steps.                           *)
LEMMA SumIsFold ==
  ASSUME NEW f, NEW S, IsFiniteSet(S)
  PROVE  \E g : Sums(f, g, SUBSET S) /\ SumOver(f, S) = g[S]
<1> DEFINE g == CHOOSE g : Sums(f, g, SUBSET S)
<1>1. Sums(f, g, SUBSET S)
  BY SumsExist
<1>2. SumOver(f, S) = g[S]
  BY DEF SumOver, MapThenSumSet, MapThenFoldSet, Sums, Partial, Pick
<1> QED
  BY <1>1, <1>2

LEMMA SumStep ==
  ASSUME NEW f, NEW S, IsFiniteSet(S), NEW g, Sums(f, g, SUBSET S), NEW U \in SUBSET S
  PROVE  g[U] = SumOver(f, U)
<1>1. IsFiniteSet(U)
  BY FS_Subset
<1>2. PICK h : Sums(f, h, SUBSET U) /\ SumOver(f, U) = h[U]
  BY <1>1, SumIsFold
<1> DEFINE k == [s \in SUBSET U |-> g[s]]
<1>3. ASSUME NEW s \in SUBSET U PROVE g[s] = Partial(f, k, s)
  <2>1. g[s] = Partial(f, g, s)
    BY DEF Sums
  <2>2. s # {} => k[s \ {Pick(s)}] = g[s \ {Pick(s)}]
    OBVIOUS
  <2> QED
    BY <2>1, <2>2 DEF Partial
<1>4. Sums(f, k, SUBSET U)
  BY <1>3 DEF Sums
<1>5. k[U] = h[U]
  <2> HIDE DEF k
  <2> QED
    BY <1>1, <1>2, <1>4, SumsAgree
<1> QED
  BY <1>2, <1>5

-----------------------------------------------------------------------------
(* Nothing adds up to nothing.                                             *)
LEMMA SumEmpty == \A f : SumOver(f, {}) = 0
<1>1. TAKE f
<1>2. PICK g : Sums(f, g, SUBSET {}) /\ SumOver(f, {}) = g[{}]
  BY SumIsFold, FS_EmptySet
<1> QED
  BY <1>2 DEF Sums, Partial

(* The sum depends on the values in the set only.                          *)
LEMMA SumEqual ==
  ASSUME NEW S, IsFiniteSet(S), NEW e, NEW f, \A x \in S : e[x] = f[x]
  PROVE  SumOver(e, S) = SumOver(f, S)
<1>1. PICK g : Sums(e, g, SUBSET S) /\ SumOver(e, S) = g[S]
  BY SumIsFold
<1>2. PICK h : Sums(f, h, SUBSET S) /\ SumOver(f, S) = h[S]
  BY SumIsFold
<1>3. g[S] = h[S]
  BY <1>1, <1>2, SumsAgree
<1> QED
  BY <1>1, <1>2, <1>3

(* The fold takes the element it picks, whichever that is.                 *)
LEMMA SumPick ==
  ASSUME NEW f, NEW S, IsFiniteSet(S), S # {}
  PROVE  SumOver(f, S) = f[Pick(S)] + SumOver(f, S \ {Pick(S)})
<1>1. PICK g : Sums(f, g, SUBSET S) /\ SumOver(f, S) = g[S]
  BY SumIsFold
<1>2. g[S] = f[Pick(S)] + g[S \ {Pick(S)}]
  BY <1>1 DEF Sums, Partial
<1> DEFINE U == S \ {Pick(S)}
<1>3. g[U] = SumOver(f, U)
  <2>1. U \in SUBSET S
    OBVIOUS
  <2>2. Sums(f, g, SUBSET S)
    BY <1>1
  <2> HIDE DEF U
  <2> QED
    BY <2>1, <2>2, SumStep
<1> QED
  BY <1>1, <1>2, <1>3

(* A sum of integers is an integer.                                        *)
LEMMA SumInt ==
  ASSUME NEW S, IsFiniteSet(S), NEW f, \A x \in S : f[x] \in Int
  PROVE  SumOver(f, S) \in Int
<1> DEFINE B == {T \in SUBSET S : SumOver(f, T) \notin Int}
<1>1. B \in SUBSET (SUBSET S)
  OBVIOUS
<1>2. SUFFICES ASSUME B # {} PROVE FALSE
  OBVIOUS
<1>3. PICK T \in B : \A U \in SUBSET T : U # T => U \notin B
  <2> HIDE DEF B
  <2> QED
    BY <1>1, <1>2, LeastSubset
<1>4. IsFiniteSet(T) /\ T \subseteq S /\ SumOver(f, T) \notin Int
  BY <1>3, FS_Subset
<1>5. T # {} /\ Pick(T) \in T
  BY <1>4, SumEmpty, Picked
<1>6. SumOver(f, T \ {Pick(T)}) \in Int
  BY <1>3, <1>4, <1>5
<1>7. SumOver(f, T) = f[Pick(T)] + SumOver(f, T \ {Pick(T)})
  BY <1>4, <1>5, SumPick
<1> QED
  BY <1>4, <1>5, <1>6, <1>7

(* Any element may be the first.                                           *)
LEMMA SumRemove ==
  ASSUME NEW S, IsFiniteSet(S), NEW f, \A x \in S : f[x] \in Int, NEW a \in S
  PROVE  SumOver(f, S) = f[a] + SumOver(f, S \ {a})
<1> DEFINE B == {T \in SUBSET S : \E b \in T : SumOver(f, T) # f[b] + SumOver(f, T \ {b})}
<1>1. B \in SUBSET (SUBSET S)
  OBVIOUS
<1>2. SUFFICES ASSUME B # {} PROVE FALSE
  OBVIOUS
<1>3. PICK T \in B : \A U \in SUBSET T : U # T => U \notin B
  <2> HIDE DEF B
  <2> QED
    BY <1>1, <1>2, LeastSubset
<1>4. IsFiniteSet(T) /\ T \subseteq S
  BY <1>3, FS_Subset
<1>5. PICK b \in T : SumOver(f, T) # f[b] + SumOver(f, T \ {b})
  BY <1>3
<1> DEFINE p == Pick(T)
<1>6. p \in T /\ SumOver(f, T) = f[p] + SumOver(f, T \ {p})
  BY <1>4, <1>5, SumPick, Picked
<1> HIDE DEF p
<1> DEFINE R == (T \ {p}) \ {b}
<1>7. p # b /\ R = (T \ {b}) \ {p}
  BY <1>5, <1>6
<1>8. \A U \in SUBSET T : U # T => \A c \in U : SumOver(f, U) = f[c] + SumOver(f, U \ {c})
  BY <1>3, <1>4
<1>9. SumOver(f, T \ {p}) = f[b] + SumOver(f, R) /\ SumOver(f, T \ {b}) = f[p] + SumOver(f, R)
  <2>1. T \ {p} \in SUBSET T /\ T \ {p} # T /\ b \in T \ {p}
    BY <1>6, <1>7
  <2>2. T \ {b} \in SUBSET T /\ T \ {b} # T /\ p \in T \ {b}
    BY <1>6, <1>7
  <2> HIDE DEF B
  <2> QED
    BY <1>7, <1>8, <2>1, <2>2
<1>10. f[p] \in Int /\ f[b] \in Int /\ SumOver(f, R) \in Int
  <2>1. IsFiniteSet(R) /\ \A x \in R : f[x] \in Int
    BY <1>4, FS_Subset
  <2> QED
    BY <1>4, <1>5, <1>6, <2>1, SumInt
<1> QED
  BY <1>5, <1>6, <1>9, <1>10

(* Zeros add up to zero.                                                   *)
LEMMA SumZero ==
  ASSUME NEW S, IsFiniteSet(S), NEW f, \A x \in S : f[x] = 0
  PROVE  SumOver(f, S) = 0
<1> DEFINE B == {T \in SUBSET S : SumOver(f, T) # 0}
<1>1. B \in SUBSET (SUBSET S)
  OBVIOUS
<1>2. SUFFICES ASSUME B # {} PROVE FALSE
  OBVIOUS
<1>3. PICK T \in B : \A U \in SUBSET T : U # T => U \notin B
  <2> HIDE DEF B
  <2> QED
    BY <1>1, <1>2, LeastSubset
<1>4. IsFiniteSet(T) /\ T \subseteq S /\ SumOver(f, T) # 0
  BY <1>3, FS_Subset
<1>5. T # {} /\ Pick(T) \in T
  BY <1>4, SumEmpty, Picked
<1>6. SumOver(f, T \ {Pick(T)}) = 0
  BY <1>3, <1>4, <1>5
<1>7. SumOver(f, T) = f[Pick(T)] + SumOver(f, T \ {Pick(T)})
  BY <1>4, <1>5, SumPick
<1> QED
  BY <1>4, <1>5, <1>6, <1>7

(* What one element more adds.                                             *)
LEMMA SumAdd ==
  ASSUME NEW S, IsFiniteSet(S), NEW a, a \notin S, NEW f, \A x \in S \cup {a} : f[x] \in Int
  PROVE  SumOver(f, S \cup {a}) = f[a] + SumOver(f, S)
<1> DEFINE T == S \cup {a}
<1>1. IsFiniteSet(T) /\ a \in T /\ T \ {a} = S
  BY FS_AddElement
<1> HIDE DEF T
<1>2. \A x \in T : f[x] \in Int
  BY DEF T
<1>3. SumOver(f, T) = f[a] + SumOver(f, T \ {a})
  BY <1>1, <1>2, SumRemove
<1> QED
  BY <1>1, <1>3 DEF T

(* A value that changes changes the sum as much.                           *)
LEMMA SumChange ==
  ASSUME NEW S, IsFiniteSet(S), NEW a \in S, NEW e, NEW f,
         \A x \in S : e[x] \in Int /\ f[x] \in Int, \A x \in S \ {a} : e[x] = f[x]
  PROVE  SumOver(f, S) = SumOver(e, S) + f[a] - e[a]
<1>1. SumOver(e, S) = e[a] + SumOver(e, S \ {a})
  BY SumRemove
<1>2. SumOver(f, S) = f[a] + SumOver(f, S \ {a})
  BY SumRemove
<1> DEFINE U == S \ {a}
<1>3. SumOver(e, U) = SumOver(f, U) /\ SumOver(e, U) \in Int
  <2>1. IsFiniteSet(U) /\ \A x \in U : e[x] = f[x] /\ e[x] \in Int
    BY FS_RemoveElement
  <2> HIDE DEF U
  <2> QED
    BY <2>1, SumEqual, SumInt
<1> QED
  BY <1>1, <1>2, <1>3

(* A sum of naturals is one.                                               *)
LEMMA SumNat ==
  ASSUME NEW S, IsFiniteSet(S), NEW f, \A x \in S : f[x] \in Nat
  PROVE  SumOver(f, S) \in Nat
<1> DEFINE B == {T \in SUBSET S : SumOver(f, T) \notin Nat}
<1>1. B \in SUBSET (SUBSET S)
  OBVIOUS
<1>2. SUFFICES ASSUME B # {} PROVE FALSE
  OBVIOUS
<1>3. PICK T \in B : \A U \in SUBSET T : U # T => U \notin B
  <2> HIDE DEF B
  <2> QED
    BY <1>1, <1>2, LeastSubset
<1>4. IsFiniteSet(T) /\ T \subseteq S /\ SumOver(f, T) \notin Nat
  BY <1>3, FS_Subset
<1>5. T # {} /\ Pick(T) \in T
  BY <1>4, SumEmpty, Picked
<1>6. SumOver(f, T \ {Pick(T)}) \in Nat
  BY <1>3, <1>4, <1>5
<1>7. SumOver(f, T) = f[Pick(T)] + SumOver(f, T \ {Pick(T)})
  BY <1>4, <1>5, SumPick
<1> QED
  BY <1>4, <1>5, <1>6, <1>7

-----------------------------------------------------------------------------
(* Sets without a common element are counted one by one.                   *)
LEMMA CountUnion ==
  ASSUME NEW S, IsFiniteSet(S), NEW F, \A a \in S : IsFiniteSet(F[a]),
         \A a, b \in S : a # b => F[a] \cap F[b] = {},
         NEW f, \A a \in S : f[a] = Cardinality(F[a])
  PROVE  /\ IsFiniteSet(UNION {F[a] : a \in S})
         /\ Cardinality(UNION {F[a] : a \in S}) = SumOver(f, S)
<1> DEFINE All(T) == UNION {F[a] : a \in T}
           B == {T \in SUBSET S : ~(IsFiniteSet(All(T)) /\ Cardinality(All(T)) = SumOver(f, T))}
<1>1. B \in SUBSET (SUBSET S)
  OBVIOUS
<1>2. SUFFICES ASSUME B # {} PROVE FALSE
  OBVIOUS
<1>3. PICK T \in B : \A U \in SUBSET T : U # T => U \notin B
  <2> HIDE DEF B
  <2> QED
    BY <1>1, <1>2, LeastSubset
<1>4. IsFiniteSet(T) /\ T \subseteq S
  BY <1>3, FS_Subset
<1>5. T # {}
  <2>1. SUFFICES ASSUME T = {} PROVE FALSE
    OBVIOUS
  <2>2. All(T) = {}
    BY <2>1
  <2>3. IsFiniteSet({}) /\ Cardinality({}) = 0
    BY FS_EmptySet
  <2>4. SumOver(f, T) = 0
    BY <2>1, SumEmpty
  <2>5. IsFiniteSet(All(T)) /\ Cardinality(All(T)) = SumOver(f, T)
    BY <2>2, <2>3, <2>4
  <2> HIDE DEF All
  <2> QED
    BY <1>3, <2>5
<1>6. PICK a \in T : TRUE
  BY <1>5
<1> DEFINE U == T \ {a}
<1>7. U \in SUBSET T /\ U # T /\ U \in SUBSET S /\ IsFiniteSet(U) /\ a \notin U /\ U \cup {a} = T
  BY <1>4, <1>6, FS_Subset
<1>8. IsFiniteSet(All(U)) /\ Cardinality(All(U)) = SumOver(f, U)
  <2>1. U \notin B
    <3> HIDE DEF B, U
    <3> QED
      BY <1>3, <1>7
  <2> HIDE DEF U, All
  <2> QED
    BY <1>7, <2>1
<1>9. All(T) = F[a] \cup All(U) /\ F[a] \cap All(U) = {}
  <2>1. \A b \in U : b \in S /\ b # a /\ F[a] \cap F[b] = {}
    BY <1>4, <1>6
  <2> QED
    BY <2>1
<1>10. IsFiniteSet(F[a]) /\ f[a] = Cardinality(F[a]) /\ Cardinality(F[a]) \in Int
  BY <1>4, <1>6, FS_CardinalityType
<1> HIDE DEF All
<1>11. IsFiniteSet(All(T)) /\ Cardinality(All(T)) = Cardinality(F[a]) + Cardinality(All(U))
  <2>1. /\ IsFiniteSet(F[a] \cup All(U))
        /\ Cardinality(F[a] \cup All(U)) = Cardinality(F[a]) + Cardinality(All(U)) - Cardinality(F[a] \cap All(U))
    BY <1>8, <1>10, FS_Union
  <2>2. Cardinality(F[a] \cap All(U)) = 0
    BY <1>9, FS_EmptySet
  <2>3. Cardinality(All(U)) \in Int
    BY <1>8, FS_CardinalityType
  <2> QED
    BY <1>9, <1>10, <2>1, <2>2, <2>3
<1>12. SumOver(f, T) = f[a] + SumOver(f, U)
  <2>1. \A x \in T : f[x] \in Int
    BY <1>4, FS_CardinalityType
  <2> QED
    BY <1>4, <1>6, <2>1, SumRemove
<1>13. IsFiniteSet(All(T)) /\ Cardinality(All(T)) = SumOver(f, T)
  BY <1>8, <1>10, <1>11, <1>12
<1> QED
  BY <1>3, <1>13
=============================================================================
