---------------------------- MODULE SumsProofs ----------------------------
(***************************************************************************)
(* What a sum over a finite set is, whatever the order in which its fold   *)
(* takes the members.                                                      *)
(*                                                                         *)
(* The fold is a recursive function on the subsets of the set, and that    *)
(* such a function exists has to be shown first.  Induction over finite    *)
(* sets is used in the form "a family of finite sets has a minimal         *)
(* member" (MinimalSet): of the subsets that break a claim take a minimal  *)
(* one, and see that it does not break it.                                 *)
(***************************************************************************)
EXTENDS Sums, FiniteSets, FiniteSetTheorems, WellFoundedInduction, TLAPS

\* Of some subsets of a finite set, one contains no other.
LEMMA MinimalSet ==
    ASSUME NEW A, IsFiniteSet(A), NEW B \in SUBSET (SUBSET A), B # {}
    PROVE  \E T \in B : \A U \in B : U \subseteq T => U = T
<1>1. IsWellFoundedOn(StrictSubsetOrdering(A), SUBSET A)
  <2>1. IsWellFoundedOn(StrictSubsetOrdering(A), FiniteSubsetsOf(A))
    BY FS_StrictSubsetOrderingWellFounded
  <2> QED BY <2>1, FS_FiniteSubsetsOfFinite
<1>2. PICK T \in B : \A U \in B : ~ (<<U, T>> \in StrictSubsetOrdering(A))
  BY <1>1, WFMin
<1>3. ASSUME NEW U \in B, U \subseteq T PROVE U = T
  BY <1>2, <1>3 DEF StrictSubsetOrdering
<1> QED BY <1>3

\* The member the fold takes first, and the recursive function of the fold.
Pick(S) == CHOOSE x \in S : TRUE
Iter(W, S, iter) ==
    iter = [T \in SUBSET S |->
        IF T = {} THEN 0 ELSE LET x == CHOOSE x \in T : TRUE IN W[x] + iter[T \ {x}]]
Fold(W, S) == CHOOSE iter : Iter(W, S, iter)

\* A sum is the value of its fold at the whole set.
LEMMA SumIsFold ==
    ASSUME NEW W, NEW S
    PROVE  SumOver(W, S) = Fold(W, S)[S]
BY DEF SumOver, MapThenSumSet, MapThenFoldSet, Fold, Iter

\* A set that is not empty is larger without the member picked.
LEMMA PickLess ==
    ASSUME NEW S, S # {}
    PROVE  Pick(S) \in S /\ S \ {Pick(S)} \subseteq S /\ S \ {Pick(S)} # S
BY DEF Pick

\* The equations of the fold's function.
LEMMA IterStep ==
    ASSUME NEW W, NEW S, NEW iter, Iter(W, S, iter), NEW T \in SUBSET S
    PROVE  /\ T = {} => iter[T] = 0
           /\ T # {} => iter[T] = W[Pick(T)] + iter[T \ {Pick(T)}]
<1>1. iter[T] = IF T = {} THEN 0 ELSE W[Pick(T)] + iter[T \ {Pick(T)}]
  BY DEF Iter, Pick
<1> QED BY <1>1

\* Two such functions agree where both are defined.
LEMMA IterAgree ==
    ASSUME NEW W, NEW S, NEW T, IsFiniteSet(S), NEW i, NEW j,
           Iter(W, S, i), Iter(W, T, j), NEW V \in SUBSET (S \cap T)
    PROVE  i[V] = j[V]
<1> DEFINE B == {U \in SUBSET (S \cap T) : i[U] # j[U]}
<1> SUFFICES ASSUME B # {} PROVE FALSE
  OBVIOUS
<1>1. B \in SUBSET (SUBSET S)
  OBVIOUS
<1>2. PICK U \in B : \A X \in B : X \subseteq U => X = U
  <2> HIDE DEF B
  <2> QED BY <1>1, MinimalSet
<1>3. U \in SUBSET S /\ U \in SUBSET T /\ i[U] # j[U]
  BY <1>2
<1>4. U # {}
  BY <1>3, IterStep
<1>5. i[U \ {Pick(U)}] = j[U \ {Pick(U)}]
  <2>1. U \ {Pick(U)} \notin B
    BY <1>2, <1>4, PickLess
  <2> QED BY <1>3, <2>1
<1>6. /\ i[U] = W[Pick(U)] + i[U \ {Pick(U)}]
      /\ j[U] = W[Pick(U)] + j[U \ {Pick(U)}]
  BY <1>3, <1>4, IterStep
<1> QED BY <1>3, <1>5, <1>6

\* Such a function exists for every finite set.
LEMMA IterExists ==
    ASSUME NEW W, NEW S, IsFiniteSet(S)
    PROVE  Iter(W, S, Fold(W, S))
<1> DEFINE B == {T \in SUBSET S : ~ \E iter : Iter(W, T, iter)}
<1>1. B = {}
  <2> SUFFICES ASSUME B # {} PROVE FALSE
    OBVIOUS
  <2>0. B \in SUBSET (SUBSET S)
    OBVIOUS
  <2>1. PICK T \in B : \A X \in B : X \subseteq T => X = T
    <3> HIDE DEF B
    <3> QED BY <2>0, MinimalSet
  <2>2. T \in SUBSET S /\ IsFiniteSet(T)
    BY <2>1, FS_Subset
  <2> DEFINE less(U) == U \ {Pick(U)}
             f == [U \in SUBSET T |-> IF U = {} THEN 0 ELSE W[Pick(U)] + Fold(W, less(U))[less(U)]]
  <2>3. ASSUME NEW V \in SUBSET T, V # T PROVE Iter(W, V, Fold(W, V)) /\ IsFiniteSet(V)
    <3>1. \E iter : Iter(W, V, iter)
      BY <2>1, <2>2, <2>3
    <3>2. Iter(W, V, Fold(W, V))
      BY <3>1 DEF Fold
    <3> QED BY <2>2, <3>2, FS_Subset
  <2>4. ASSUME NEW V \in SUBSET T, V # T PROVE f[V] = Fold(W, V)[V]
    <3>1. Iter(W, V, Fold(W, V)) /\ IsFiniteSet(V)
      BY <2>3, <2>4
    <3>2. CASE V = {}
      <4>1. Fold(W, V)[V] = 0
        BY <3>1, <3>2, IterStep
      <4> QED BY <3>2, <4>1
    <3>3. CASE V # {}
      <4>1. Fold(W, V)[V] = W[Pick(V)] + Fold(W, V)[less(V)]
        BY <3>1, <3>3, IterStep
      <4>2. less(V) \in SUBSET T /\ less(V) # T /\ less(V) \subseteq V
        BY <2>4, <3>3, PickLess
      <4>3. Iter(W, less(V), Fold(W, less(V)))
        BY <2>3, <4>2
      <4>4. Fold(W, V)[less(V)] = Fold(W, less(V))[less(V)]
        BY <3>1, <4>2, <4>3, IterAgree
      <4> QED BY <3>3, <4>1, <4>4
    <3> QED BY <3>2, <3>3
  <2>5. ASSUME NEW U \in SUBSET T, U # {} PROVE f[U] = W[Pick(U)] + f[less(U)]
    <3>1. less(U) \in SUBSET T /\ less(U) # T
      BY <2>5, PickLess
    <3>2. f[less(U)] = Fold(W, less(U))[less(U)]
      BY <2>4, <3>1
    <3> QED BY <2>5, <3>2
  <2>6. Iter(W, T, f)
    <3>1. f = [U \in SUBSET T |-> IF U = {} THEN 0 ELSE W[Pick(U)] + f[less(U)]]
      <4>1. ASSUME NEW U \in SUBSET T
            PROVE  f[U] = IF U = {} THEN 0 ELSE W[Pick(U)] + f[less(U)]
        BY <2>5
      <4>2. f = [U \in SUBSET T |-> f[U]]
        OBVIOUS
      <4> HIDE DEF f
      <4> QED BY <4>1, <4>2
    <3> HIDE DEF f
    <3> QED BY <3>1 DEF Iter, Pick
  <2> QED BY <2>1, <2>6
<1>2. \E iter : Iter(W, S, iter)
  BY <1>1
<1> QED BY <1>2 DEF Fold

-----------------------------------------------------------------------------
(* The laws of a sum.  From here on its fold is not looked at any more.     *)

\* Nothing sums to 0, and a sum is what the member picked has and the rest has.
LEMMA SumStep ==
    ASSUME NEW W, NEW S, IsFiniteSet(S)
    PROVE  /\ S = {} => SumOver(W, S) = 0
           /\ S # {} => SumOver(W, S) = W[Pick(S)] + SumOver(W, S \ {Pick(S)})
<1>1. Iter(W, S, Fold(W, S))
  BY IterExists
<1>2. S = {} => SumOver(W, S) = 0
  BY <1>1, IterStep, SumIsFold
<1>3. ASSUME S # {} PROVE SumOver(W, S) = W[Pick(S)] + SumOver(W, S \ {Pick(S)})
  <2> DEFINE R == S \ {Pick(S)}
  <2>1. SumOver(W, S) = W[Pick(S)] + Fold(W, S)[R]
    BY <1>1, <1>3, IterStep, SumIsFold
  <2>2. IsFiniteSet(R)
    BY FS_Subset
  <2>3. Iter(W, R, Fold(W, R))
    BY <2>2, IterExists
  <2>4. Fold(W, S)[R] = Fold(W, R)[R]
    BY <1>1, <2>3, IterAgree
  <2> QED BY <2>1, <2>4, SumIsFold
<1> QED BY <1>2, <1>3

\* Sums of integers are integers, sums of natural numbers natural numbers.
LEMMA SumTyped ==
    ASSUME NEW W, NEW S, IsFiniteSet(S), NEW N \in {Nat, Int}, \A x \in S : W[x] \in N
    PROVE  SumOver(W, S) \in N
<1> DEFINE B == {T \in SUBSET S : SumOver(W, T) \notin N}
<1> SUFFICES ASSUME B # {} PROVE FALSE
  OBVIOUS
<1>1. B \in SUBSET (SUBSET S)
  OBVIOUS
<1>2. PICK T \in B : \A X \in B : X \subseteq T => X = T
  <2> HIDE DEF B
  <2> QED BY <1>1, MinimalSet
<1>3. T \in SUBSET S /\ IsFiniteSet(T) /\ SumOver(W, T) \notin N
  BY <1>2, FS_Subset
<1>4. T # {}
  <2>1. 0 \in N
    OBVIOUS
  <2> QED BY <1>3, <2>1, SumStep
<1>5. SumOver(W, T \ {Pick(T)}) \in N
  <2>1. T \ {Pick(T)} \notin B
    BY <1>2, <1>4, PickLess
  <2> QED BY <1>3, <2>1
<1>6. SumOver(W, T) = W[Pick(T)] + SumOver(W, T \ {Pick(T)}) /\ W[Pick(T)] \in N
  BY <1>3, <1>4, SumStep, PickLess
<1>7. \A m, n \in N : m + n \in N
  OBVIOUS
<1> QED BY <1>3, <1>5, <1>6, <1>7

\* Any member may be taken first.
LEMMA SumRemove ==
    ASSUME NEW W, NEW S, IsFiniteSet(S), \A x \in S : W[x] \in Int, NEW y \in S
    PROVE  SumOver(W, S) = W[y] + SumOver(W, S \ {y})
<1> DEFINE B == {T \in SUBSET S : \E z \in T : SumOver(W, T) # W[z] + SumOver(W, T \ {z})}
<1>1. B = {}
  <2> SUFFICES ASSUME B # {} PROVE FALSE
    OBVIOUS
  <2>1. B \in SUBSET (SUBSET S)
    OBVIOUS
  <2>2. PICK T \in B : \A X \in B : X \subseteq T => X = T
    <3> HIDE DEF B
    <3> QED BY <2>1, MinimalSet
  <2>3. PICK z \in T : SumOver(W, T) # W[z] + SumOver(W, T \ {z})
    BY <2>2
  <2>4. PICK x \in T : x = Pick(T)
    BY PickLess
  <2>5. T \in SUBSET S /\ IsFiniteSet(T)
    BY <2>2, FS_Subset
  <2>6. SumOver(W, T) = W[x] + SumOver(W, T \ {x})
    BY <2>4, <2>5, SumStep
  <2>7. x # z
    BY <2>3, <2>6
  <2>8. SumOver(W, T \ {x}) = W[z] + SumOver(W, (T \ {x}) \ {z})
    <3>1. T \ {x} \notin B
      BY <2>2
    <3> QED BY <2>5, <2>7, <3>1
  <2>9. SumOver(W, T \ {z}) = W[x] + SumOver(W, (T \ {z}) \ {x})
    <3>1. T \ {z} \notin B
      BY <2>2
    <3> QED BY <2>5, <2>7, <3>1
  <2>10. (T \ {x}) \ {z} = (T \ {z}) \ {x}
    OBVIOUS
  <2>11. PICK n \in Int : n = SumOver(W, (T \ {z}) \ {x})
    <3>1. IsFiniteSet((T \ {z}) \ {x})
      BY <2>5, FS_Subset
    <3> QED BY <2>5, <3>1, SumTyped
  <2>12. W[x] \in Int /\ W[z] \in Int
    BY <2>5
  <2>13. SumOver(W, T) = W[x] + (W[z] + n)
    BY <2>6, <2>8, <2>10, <2>11
  <2>14. SumOver(W, T) # W[z] + (W[x] + n)
    BY <2>3, <2>9, <2>11
  <2>15. \A i, j \in Int : i + (j + n) = j + (i + n)
    OBVIOUS
  <2> QED BY <2>12, <2>13, <2>14, <2>15
<1> QED BY <1>1

\* A sum with one member more.
LEMMA SumAdd ==
    ASSUME NEW W, NEW S, IsFiniteSet(S), NEW y, y \notin S,
           \A x \in S \cup {y} : W[x] \in Int
    PROVE  SumOver(W, S \cup {y}) = SumOver(W, S) + W[y]
<1>1. IsFiniteSet(S \cup {y})
  BY FS_AddElement
<1>2. (S \cup {y}) \ {y} = S
  OBVIOUS
<1>3. SumOver(W, S \cup {y}) = W[y] + SumOver(W, S)
  BY <1>1, <1>2, SumRemove
<1>4. SumOver(W, S) \in Int
  BY SumTyped
<1> QED BY <1>3, <1>4

\* Only the amounts of the members count.
LEMMA SumSame ==
    ASSUME NEW W, NEW V, NEW S, IsFiniteSet(S), \A x \in S : W[x] = V[x]
    PROVE  SumOver(W, S) = SumOver(V, S)
<1> DEFINE B == {T \in SUBSET S : SumOver(W, T) # SumOver(V, T)}
<1> SUFFICES ASSUME B # {} PROVE FALSE
  OBVIOUS
<1>1. B \in SUBSET (SUBSET S)
  OBVIOUS
<1>2. PICK T \in B : \A X \in B : X \subseteq T => X = T
  <2> HIDE DEF B
  <2> QED BY <1>1, MinimalSet
<1>3. T \in SUBSET S /\ IsFiniteSet(T) /\ SumOver(W, T) # SumOver(V, T)
  BY <1>2, FS_Subset
<1>4. T # {}
  BY <1>3, SumStep
<1>5. SumOver(W, T \ {Pick(T)}) = SumOver(V, T \ {Pick(T)})
  <2>1. T \ {Pick(T)} \notin B
    BY <1>2, <1>4, PickLess
  <2> QED BY <1>3, <2>1
<1>6. W[Pick(T)] = V[Pick(T)]
  BY <1>3, <1>4, PickLess
<1>7. /\ SumOver(W, T) = W[Pick(T)] + SumOver(W, T \ {Pick(T)})
      /\ SumOver(V, T) = V[Pick(T)] + SumOver(V, T \ {Pick(T)})
  BY <1>3, <1>4, SumStep
<1> QED BY <1>3, <1>5, <1>6, <1>7

\* The sum of two sets with no common member is the sum of their sums.
LEMMA SumUnion ==
    ASSUME NEW W, NEW S, NEW R, IsFiniteSet(S), IsFiniteSet(R), S \cap R = {},
           \A x \in S \cup R : W[x] \in Int
    PROVE  SumOver(W, S \cup R) = SumOver(W, S) + SumOver(W, R)
<1> DEFINE B == {T \in SUBSET R : SumOver(W, S \cup T) # SumOver(W, S) + SumOver(W, T)}
<1> SUFFICES ASSUME B # {} PROVE FALSE
  OBVIOUS
<1>1. B \in SUBSET (SUBSET R)
  OBVIOUS
<1>2. PICK T \in B : \A X \in B : X \subseteq T => X = T
  <2> HIDE DEF B
  <2> QED BY <1>1, MinimalSet
<1>3. T \in SUBSET R /\ IsFiniteSet(T) /\ SumOver(W, S \cup T) # SumOver(W, S) + SumOver(W, T)
  BY <1>2, FS_Subset
<1>4. SumOver(W, S) \in Int
  BY SumTyped
<1>5. T # {}
  <2> SUFFICES ASSUME T = {} PROVE FALSE
    OBVIOUS
  <2>1. SumOver(W, T) = 0 /\ S \cup T = S
    BY <1>3, SumStep
  <2>2. SumOver(W, S) # SumOver(W, S) + 0
    BY <1>3, <2>1
  <2>3. \A i \in Int : i = i + 0
    OBVIOUS
  <2> QED BY <1>4, <2>2, <2>3
<1>6. PICK y \in T : TRUE
  BY <1>5
<1> DEFINE U == T \ {y}
<1>7. SumOver(W, S \cup U) = SumOver(W, S) + SumOver(W, U)
  <2>1. U \notin B
    BY <1>2, <1>6
  <2> QED BY <1>3, <2>1
<1>8. SumOver(W, T) = W[y] + SumOver(W, U)
  BY <1>3, SumRemove
<1>9. SumOver(W, S \cup T) = SumOver(W, S \cup U) + W[y]
  <2>1. IsFiniteSet(S \cup U) /\ y \notin S \cup U /\ (S \cup U) \cup {y} = S \cup T
    <3>1. IsFiniteSet(U)
      BY <1>3, FS_Subset
    <3> QED BY <1>3, <3>1, FS_Union
  <2> QED BY <1>3, <2>1, SumAdd
<1>10. W[y] \in Int /\ SumOver(W, U) \in Int
  <2>1. IsFiniteSet(U) /\ U \subseteq R
    BY <1>3, FS_Subset
  <2> QED BY <1>3, <2>1, SumTyped
<1> QED BY <1>3, <1>4, <1>7, <1>8, <1>9, <1>10

\* A part sums to no more than the whole, when no amount is negative.
LEMMA SumMonotone ==
    ASSUME NEW W, NEW S, NEW R \in SUBSET S, IsFiniteSet(S), \A x \in S : W[x] \in Nat
    PROVE  SumOver(W, R) <= SumOver(W, S)
<1>1. IsFiniteSet(R) /\ IsFiniteSet(S \ R) /\ R \cap (S \ R) = {} /\ R \cup (S \ R) = S
  BY FS_Subset
<1>2. SumOver(W, R \cup (S \ R)) = SumOver(W, R) + SumOver(W, S \ R)
  BY <1>1, SumUnion
<1>3. SumOver(W, R) \in Nat /\ SumOver(W, S \ R) \in Nat
  BY <1>1, SumTyped
<1>4. \A m, n \in Nat : m <= m + n
  OBVIOUS
<1>5. SumOver(W, S) = SumOver(W, R) + SumOver(W, S \ R)
  BY <1>1, <1>2
<1> QED BY <1>3, <1>4, <1>5
=============================================================================
