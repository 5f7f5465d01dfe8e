------------------------------ MODULE FiniteSums ------------------------------
(* Facts about the sums that the community modules' MapThenSumSet computes *)
(* over a finite set.  MapThenSumSet takes the elements in the order in    *)
(* which CHOOSE gives them; the proofs need that the order does not matter *)
(* and what one element more or less changes.                              *)
EXTENDS Integers, FiniteSets, FiniteSetsExt, FiniteSetTheorems, WellFoundedInduction, TLAPS

(* Every set of numbers that is not empty has a least one.                 *)
LEMMA LeastNumber ==
  ASSUME NEW S \in SUBSET Nat, S # {}
  PROVE  \E n \in S : \A m \in S : n <= m
<1> DEFINE R == {p \in Nat \X Nat : p[1] < p[2]}
<1>0. IsWellFoundedOn(R, Nat)
  BY NatLessThanWellFounded, Zenon DEF OpToRel
<1> HIDE DEF R
<1>1. PICK x \in S : \A y \in S : ~(<<y, x>> \in R)
  BY <1>0, WFMin
<1>2. \A y \in S : x <= y
  <2> SUFFICES ASSUME NEW y \in S, y < x PROVE FALSE
    OBVIOUS
  <2>1. <<y, x>> \in R
    BY DEF R
  <2> QED
    BY <2>1, <1>1
<1> QED
  BY <1>2

(* Among finite sets there is one with the fewest elements.                *)
LEMMA SmallestSet ==
  ASSUME NEW C, C # {}, \A T \in C : IsFiniteSet(T)
  PROVE  \E T \in C : \A U \in C : Cardinality(T) <= Cardinality(U)
<1> DEFINE N == {Cardinality(T) : T \in C}
<1>1. N \in SUBSET Nat /\ N # {}
  BY FS_CardinalityType
<1>2. PICK n \in N : \A m \in N : n <= m
  BY <1>1, LeastNumber
<1>3. PICK T \in C : n = Cardinality(T)
  BY <1>2
<1> QED
  BY <1>2, <1>3

(* F[V] is the sum of h over V, for every part V of S.                     *)
Sums(F, h, S) ==
  /\ F \in [SUBSET S -> Nat]
  /\ F[{}] = 0
  /\ \A V \in SUBSET S : \A x \in V : F[V] = h[x] + F[V \ {x}]

(* The recursion of MapThenSumSet.                                         *)
Chosen(s) == CHOOSE x \in s : TRUE
SumsInOrder(F, h, S) ==
  F = [s \in SUBSET S |-> IF s = {} THEN 0 ELSE h[Chosen(s)] + F[s \ {Chosen(s)}]]

(* One element more.                                                       *)
LEMMA SumsOneMore ==
  ASSUME NEW h, NEW U, NEW x, x \notin U, h[x] \in Nat,
         \A y \in U : h[y] \in Nat,
         NEW F, Sums(F, h, U)
  PROVE  \E G : Sums(G, h, U \cup {x})
<1> DEFINE T == U \cup {x}
           G == [V \in SUBSET T |-> IF x \in V THEN h[x] + F[V \ {x}] ELSE F[V]]
<1>1. \A V \in SUBSET T : V \ {x} \in SUBSET U /\ (x \notin V => V \in SUBSET U)
  OBVIOUS
<1>2. /\ F \in [SUBSET U -> Nat]
      /\ F[{}] = 0
      /\ \A V \in SUBSET U : \A y \in V : F[V] = h[y] + F[V \ {y}]
  BY DEF Sums
<1>3. G \in [SUBSET T -> Nat]
  BY <1>1, <1>2
<1>4. G[{}] = 0
  BY <1>2
<1>5. ASSUME NEW V \in SUBSET T, NEW y \in V
      PROVE  G[V] = h[y] + G[V \ {y}]
  <2>0. V \ {y} \in SUBSET T
    OBVIOUS
  <2>1. CASE x \notin V
    <3>1. x \notin V \ {y} /\ V \in SUBSET U
      BY <2>1
    <3>2. G[V] = F[V] /\ G[V \ {y}] = F[V \ {y}]
      BY <3>1, <2>0, <2>1
    <3> QED
      BY <3>1, <3>2, <1>2
  <2>2. CASE y = x
    <3>1. G[V] = h[x] + F[V \ {x}] /\ G[V \ {y}] = F[V \ {x}]
      BY <2>0, <2>2
    <3> QED
      BY <3>1, <2>2
  <2>3. CASE x \in V /\ y # x
    <3>1. G[V] = h[x] + F[V \ {x}]
      BY <2>3
    <3>2. G[V \ {y}] = h[x] + F[(V \ {y}) \ {x}]
      BY <2>0, <2>3
    <3>3. V \ {x} \in SUBSET U /\ y \in V \ {x} /\ (V \ {y}) \ {x} = (V \ {x}) \ {y}
      BY <2>3
    <3>4. F[V \ {x}] = h[y] + F[(V \ {x}) \ {y}]
      BY <3>3, <1>2
    <3>5. h[y] \in Nat /\ F[(V \ {x}) \ {y}] \in Nat
      BY <3>3, <1>2
    <3>6. G[V \ {y}] = h[x] + F[(V \ {x}) \ {y}]
      BY ONLY <3>2, <3>3
    <3> HIDE DEF G, T
    <3> QED
      BY ONLY <3>1, <3>4, <3>5, <3>6, h[x] \in Nat
  <2> QED
    BY <2>1, <2>2, <2>3
<1> HIDE DEF G
<1>6. Sums(G, h, T)
  BY <1>3, <1>4, <1>5 DEF Sums
<1> QED
  BY <1>6

(* The sums over the parts of a finite set exist.                          *)
LEMMA SumsExist ==
  ASSUME NEW h, NEW S, IsFiniteSet(S), \A x \in S : h[x] \in Nat
  PROVE  \E F : Sums(F, h, S)
<1> DEFINE C == {T \in SUBSET S : ~\E F : Sums(F, h, T)}
<1> SUFFICES ASSUME C # {} PROVE FALSE
  OBVIOUS
<1>1. \A T \in C : IsFiniteSet(T)
  BY FS_Subset
<1>2. PICK T \in C : \A U \in C : Cardinality(T) <= Cardinality(U)
  BY <1>1, SmallestSet
<1>3. T \in SUBSET S /\ ~\E F : Sums(F, h, T)
  OBVIOUS
<1>4. CASE T = {}
  <2> DEFINE F == [V \in SUBSET {} |-> 0]
  <2>1. Sums(F, h, {})
    BY DEF Sums
  <2> QED
    BY <2>1, <1>3, <1>4
<1>5. CASE T # {}
  <2>1. PICK x \in T : TRUE
    BY <1>5
  <2>2. IsFiniteSet(T)
    BY <1>1
  <2>3. Cardinality(T \ {x}) = Cardinality(T) - 1 /\ Cardinality(T) \in Nat
    BY <2>1, <2>2, FS_RemoveElement, FS_CardinalityType
  <2>4. T \ {x} \notin C
    BY <1>2, <2>3
  <2>5. PICK F : Sums(F, h, T \ {x})
    BY <2>4
  <2>6. (T \ {x}) \cup {x} = T /\ x \notin T \ {x} /\ h[x] \in Nat /\ \A y \in T \ {x} : h[y] \in Nat
    BY <2>1
  <2>7. \E G : Sums(G, h, (T \ {x}) \cup {x})
    BY ONLY <2>5, <2>6, SumsOneMore
  <2> QED
    BY <2>6, <2>7, <1>3
<1> QED
  BY <1>4, <1>5

(* The order of CHOOSE is one of the orders.                               *)
LEMMA SumsAnyOrder ==
  ASSUME NEW h, NEW S, NEW F, Sums(F, h, S)
  PROVE  SumsInOrder(F, h, S)
<1>1. /\ F \in [SUBSET S -> Nat]
      /\ F[{}] = 0
      /\ \A V \in SUBSET S : \A x \in V : F[V] = h[x] + F[V \ {x}]
  BY DEF Sums
<1>2. \A V \in SUBSET S : V # {} => Chosen(V) \in V
  BY DEF Chosen
<1>3. \A V \in SUBSET S :
        F[V] = IF V = {} THEN 0 ELSE h[Chosen(V)] + F[V \ {Chosen(V)}]
  BY <1>1, <1>2
<1> QED
  BY <1>1, <1>3 DEF SumsInOrder

(* What the recursion computes.                                            *)
LEMMA SumsUnique ==
  ASSUME NEW h, NEW S, IsFiniteSet(S), NEW F, Sums(F, h, S),
         NEW T \in SUBSET S, NEW G, SumsInOrder(G, h, T)
  PROVE  \A V \in SUBSET T : G[V] = F[V]
<1> DEFINE C == {V \in SUBSET T : G[V] # F[V]}
<1> SUFFICES ASSUME C # {} PROVE FALSE
  OBVIOUS
<1>1. \A V \in C : IsFiniteSet(V)
  BY FS_Subset
<1>2. PICK V \in C : \A U \in C : Cardinality(V) <= Cardinality(U)
  BY <1>1, SmallestSet
<1>3. G[V] = IF V = {} THEN 0 ELSE h[Chosen(V)] + G[V \ {Chosen(V)}]
  <2>1. V \in SUBSET T
    OBVIOUS
  <2>2. G = [s \in SUBSET T |-> IF s = {} THEN 0 ELSE h[Chosen(s)] + G[s \ {Chosen(s)}]]
    BY DEF SumsInOrder
  <2> HIDE DEF C
  <2> QED
    BY ONLY <2>1, <2>2, Zenon
<1>4. CASE V = {}
  BY <1>3, <1>4 DEF Sums
<1>5. CASE V # {}
  <2>1. Chosen(V) \in V
    BY <1>5 DEF Chosen
  <2>2. Cardinality(V \ {Chosen(V)}) = Cardinality(V) - 1 /\ Cardinality(V) \in Nat
    BY <1>1, <2>1, FS_RemoveElement, FS_CardinalityType
  <2>3. V \ {Chosen(V)} \notin C
    BY <1>2, <2>2
  <2>4. G[V \ {Chosen(V)}] = F[V \ {Chosen(V)}]
    BY <2>3
  <2>5. F[V] = h[Chosen(V)] + F[V \ {Chosen(V)}]
    BY <2>1 DEF Sums
  <2> QED
    BY <1>3, <1>5, <2>4, <2>5
<1> QED
  BY <1>4, <1>5

(* The sum over a part depends on the summands in it only.                 *)
LEMMA SumsSame ==
  ASSUME NEW S, IsFiniteSet(S), NEW T \in SUBSET S, NEW h, NEW k,
         \A x \in T : h[x] = k[x] /\ h[x] \in Nat,
         NEW F, Sums(F, h, S), NEW G, Sums(G, k, S)
  PROVE  F[T] = G[T]
<1>1. IsFiniteSet(T)
  BY FS_Subset
<1>2. PICK K : Sums(K, h, T)
  BY <1>1, SumsExist
<1>3. /\ K \in [SUBSET T -> Nat]
      /\ K[{}] = 0
      /\ \A V \in SUBSET T : \A x \in V : K[V] = h[x] + K[V \ {x}]
  BY <1>2 DEF Sums
<1>4. \A V \in SUBSET T : \A x \in V : K[V] = k[x] + K[V \ {x}]
  BY <1>3
<1>5. Sums(K, k, T)
  BY <1>3, <1>4 DEF Sums
<1>6. SumsInOrder(K, h, T) /\ SumsInOrder(K, k, T)
  BY <1>2, <1>5, SumsAnyOrder
<1>7. K[T] = F[T]
  BY <1>6, SumsUnique
<1>8. K[T] = G[T]
  BY <1>6, SumsUnique
<1> QED
  BY <1>7, <1>8

(* MapThenSumSet of a function.                                            *)
SumOver(h, T) == MapThenSumSet(LAMBDA x : h[x], T)

(* It is the sum, in whatever order.                                       *)
LEMMA SumSetIs ==
  ASSUME NEW h, NEW S, IsFiniteSet(S), \A x \in S : h[x] \in Nat,
         NEW F, Sums(F, h, S), NEW T \in SUBSET S
  PROVE  SumOver(h, T) = F[T]
<1> DEFINE iter[s \in SUBSET T] ==
             IF s = {} THEN 0
             ELSE h[CHOOSE x \in s : TRUE] + iter[s \ {CHOOSE x \in s : TRUE}]
<1>1. SumOver(h, T) = iter[T]
  BY DEF SumOver, MapThenSumSet, MapThenFoldSet
<1>2. IsFiniteSet(T) /\ \A x \in T : h[x] \in Nat
  BY FS_Subset
<1>3. PICK K : SumsInOrder(K, h, T)
  BY <1>2, SumsExist, SumsAnyOrder
<1>4. \E K0 : K0 = [s \in SUBSET T |-> IF s = {} THEN 0
             ELSE h[CHOOSE x \in s : TRUE] + K0[s \ {CHOOSE x \in s : TRUE}]]
  BY <1>3 DEF SumsInOrder, Chosen
<1>5. iter = [s \in SUBSET T |-> IF s = {} THEN 0
             ELSE h[CHOOSE x \in s : TRUE] + iter[s \ {CHOOSE x \in s : TRUE}]]
  BY <1>4, Zenon DEF iter
<1> HIDE DEF iter
<1>6. SumsInOrder(iter, h, T)
  BY <1>5 DEF SumsInOrder, Chosen
<1>7. iter[T] = F[T]
  BY <1>6, SumsUnique
<1> QED
  BY <1>1, <1>7

-----------------------------------------------------------------------------
(* Counting.                                                               *)

(* An injective function keeps the size of a set.                          *)
LEMMA ImageSize ==
  ASSUME NEW S, IsFiniteSet(S), NEW f, \A x, y \in S : f[x] = f[y] => x = y
  PROVE  /\ IsFiniteSet({f[x] : x \in S})
         /\ Cardinality({f[x] : x \in S}) = Cardinality(S)
<1> DEFINE T == {f[x] : x \in S}
           g == [x \in S |-> f[x]]
<1>1. g \in [S -> T] /\ (\A x, y \in S : g[x] = g[y] => x = y) /\ \A z \in T : \E x \in S : g[x] = z
  OBVIOUS
<1> HIDE DEF T, g
<1>2. g \in Bijection(S, T)
  BY <1>1 DEF Bijection, Injection, Surjection, IsInjective
<1>3. ExistsBijection(S, T)
  BY <1>2 DEF ExistsBijection
<1> QED
  BY <1>3, FS_Bijection DEF T

(* The size of a union of disjoint sets is the sum of their sizes.         *)
LEMMA UnionSize ==
  ASSUME NEW S, IsFiniteSet(S), NEW B, NEW h,
         \A x \in S : IsFiniteSet(B[x]) /\ Cardinality(B[x]) = h[x],
         \A x, y \in S : x # y => B[x] \cap B[y] = {},
         NEW F, Sums(F, h, S)
  PROVE  /\ IsFiniteSet(UNION {B[x] : x \in S})
         /\ Cardinality(UNION {B[x] : x \in S}) = F[S]
<1> DEFINE U(T) == UNION {B[x] : x \in T}
           C == {T \in SUBSET S : ~(IsFiniteSet(U(T)) /\ Cardinality(U(T)) = F[T])}
<1> SUFFICES ASSUME C # {} PROVE FALSE
  OBVIOUS
<1>1. \A T \in C : IsFiniteSet(T)
  BY FS_Subset
<1>2. PICK T \in C : \A V \in C : Cardinality(T) <= Cardinality(V)
  BY <1>1, SmallestSet
<1>3. T \in SUBSET S /\ ~(IsFiniteSet(U(T)) /\ Cardinality(U(T)) = F[T])
  OBVIOUS
<1>4. CASE T = {}
  <2>1. U(T) = {} /\ F[T] = 0
    BY <1>4 DEF Sums
  <2> QED
    BY <2>1, <1>3, FS_EmptySet
<1>5. CASE T # {}
  <2>1. PICK x \in T : TRUE
    BY <1>5
  <2>2. IsFiniteSet(T) /\ x \in S
    BY <1>1
  <2>3. Cardinality(T \ {x}) = Cardinality(T) - 1 /\ Cardinality(T) \in Nat
    BY <2>1, <2>2, FS_RemoveElement, FS_CardinalityType
  <2>4. T \ {x} \notin C /\ T \ {x} \in SUBSET S
    BY <1>2, <2>3
  <2>5. IsFiniteSet(U(T \ {x})) /\ Cardinality(U(T \ {x})) = F[T \ {x}]
    BY <2>4
  <2>6. U(T) = U(T \ {x}) \cup B[x]
    BY <2>1
  <2>7. U(T \ {x}) \cap B[x] = {}
    BY <1>3, <2>2
  <2>8. IsFiniteSet(B[x]) /\ Cardinality(B[x]) = h[x]
    BY <2>2
  <2>9. F[T] = h[x] + F[T \ {x}]
    BY <1>3, <2>1 DEF Sums
  <2> HIDE DEF U
  <2>10. /\ IsFiniteSet(U(T))
         /\ Cardinality(U(T)) = Cardinality(U(T \ {x})) + Cardinality(B[x]) - Cardinality({})
    <3> DEFINE V == U(T \ {x})
               D == B[x]
    <3>1. IsFiniteSet(V) /\ IsFiniteSet(D) /\ U(T) = V \cup D /\ V \cap D = {}
      BY <2>5, <2>6, <2>7, <2>8
    <3> HIDE DEF V, D
    <3>2. /\ IsFiniteSet(V \cup D)
          /\ Cardinality(V \cup D) = Cardinality(V) + Cardinality(D) - Cardinality(V \cap D)
      BY ONLY <3>1, FS_Union
    <3> QED
      BY <3>1, <3>2 DEF V, D
  <2>11. Cardinality({}) = 0 /\ Cardinality(B[x]) \in Nat /\ Cardinality(U(T \ {x})) \in Nat
    BY <2>5, <2>8, FS_EmptySet, FS_CardinalityType
  <2>12. Cardinality(U(T)) = F[T]
    BY ONLY <2>5, <2>8, <2>9, <2>10, <2>11
  <2> QED
    BY <1>3, <2>10, <2>12
<1> QED
  BY <1>4, <1>5

(* A sequence without repetitions that is as long as a set, of whose       *)
(* elements it consists, has all of them.                                  *)
LEMMA FullSequence ==
  ASSUME NEW S, IsFiniteSet(S), NEW q, NEW n \in Nat, n = Cardinality(S),
         \A i \in 1 .. n : q[i] \in S,
         \A i, j \in 1 .. n : q[i] = q[j] => i = j
  PROVE  \A x \in S : \E i \in 1 .. n : q[i] = x
<1> DEFINE T == {q[i] : i \in 1 .. n}
<1>1. IsFiniteSet(1 .. n) /\ Cardinality(1 .. n) = n
  BY FS_Interval
<1>2. Cardinality(T) = n /\ T \in SUBSET S
  BY <1>1, ImageSize
<1>3. S = T
  BY <1>2, FS_Subset
<1> QED
  BY <1>3

=============================================================================
