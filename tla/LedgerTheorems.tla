--------------------------- MODULE LedgerTheorems ---------------------------
(***************************************************************************)
(* What the proofs about ledgers share.                                    *)
(*                                                                         *)
(* First, what the folds of the model compute, over any finite set.  A     *)
(* fold is a recursive function on the subsets of its set, so that an      *)
(* induction over it is one over finite sets; the library's induction      *)
(* theorems take the predicate as an operator, so the principle is stated  *)
(* here of a set Q of the subsets that satisfy it, and proved from the     *)
(* well-foundedness of <.                                                  *)
(*                                                                         *)
(* Then, for any op-set: the stages of Build, the replay of memberships,   *)
(* the registers of a read model, bindings and aliases; what one more op   *)
(* changes of all that; and what is shown of devices, groups and members.  *)
(***************************************************************************)
EXTENDS Projection, Integers, FiniteSetTheorems, WellFoundedInduction, TLAPS

(* A set of numbers has a least one.                                       *)
LEMMA LeastNat ==
  ASSUME NEW B, B \subseteq Nat, B # {}
  PROVE  \E n \in B : \A m \in B : n <= m
<1> DEFINE R == {ss \in Nat \X Nat : ss[1] < ss[2]}
<1>1. IsWellFoundedOn(R, Nat)
  BY NatLessThanWellFounded DEF OpToRel
<1>2. PICK n \in B : \A m \in B : <<m, n>> \notin R
  <2> HIDE DEF R
  <2> QED
    BY <1>1, WFMin
<1>3. \A m \in B : ~(m < n)
  BY <1>2
<1> QED
  BY <1>2, <1>3

(* Induction over numbers, with a set for the predicate.                   *)
LEMMA InductionOnNat ==
  ASSUME NEW Q, 0 \in Q, \A n \in Nat : n \in Q => n + 1 \in Q
  PROVE  \A n \in Nat : n \in Q
<1> SUFFICES ASSUME {n \in Nat : n \notin Q} # {} PROVE FALSE
  OBVIOUS
<1>1. PICK n \in {k \in Nat : k \notin Q} : \A m \in {k \in Nat : k \notin Q} : n <= m
  <2> DEFINE B == {k \in Nat : k \notin Q}
  <2> B \subseteq Nat /\ B # {}
    OBVIOUS
  <2> HIDE DEF B
  <2> QED
    BY LeastNat DEF B
<1>2. n # 0 /\ n - 1 \in Nat
  BY <1>1
<1>3. n - 1 \in Q
  BY <1>1, <1>2
<1> QED
  BY <1>1, <1>2, <1>3

(* Induction over finite sets: a set holds when it does without one of     *)
(* its elements.                                                           *)
LEMMA FiniteInduction ==
  ASSUME NEW S, IsFiniteSet(S), NEW Q, {} \in Q,
         \A T \in SUBSET S : (\A x \in T : T \ {x} \in Q) => T \in Q
  PROVE  \A T \in SUBSET S : T \in Q
<1> DEFINE Upto(n) == \A T \in SUBSET S : Cardinality(T) = n => T \in Q
           N == {n \in Nat : Upto(n)}
<1>1. 0 \in N
  <2> SUFFICES ASSUME NEW T \in SUBSET S, Cardinality(T) = 0 PROVE T \in Q
    OBVIOUS
  <2> QED
    BY FS_Subset, FS_EmptySet
<1>2. ASSUME NEW n \in Nat, n \in N PROVE n + 1 \in N
  <2> SUFFICES ASSUME NEW T \in SUBSET S, Cardinality(T) = n + 1 PROVE T \in Q
    OBVIOUS
  <2>1. IsFiniteSet(T) /\ T # {}
    BY FS_Subset, FS_EmptySet
  <2>2. ASSUME NEW x \in T PROVE T \ {x} \in Q
    <3>1. Cardinality(T \ {x}) = Cardinality(T) - 1
      BY <2>1, FS_RemoveElement
    <3> QED
      BY <1>2, <3>1
  <2> QED
    BY <2>2
<1> HIDE DEF N
<1>3. \A n \in Nat : n \in N
  BY <1>1, <1>2, InductionOnNat
<1>4. \A n \in Nat : Upto(n)
  BY <1>3 DEF N
<1> SUFFICES ASSUME NEW T \in SUBSET S PROVE T \in Q
  OBVIOUS
<1>5. Cardinality(T) \in Nat
  BY FS_Subset, FS_CardinalityType
<1> QED
  BY <1>4, <1>5

(* An induction over the sum: a set Q of subsets that contains {} and, with*)
(* T, every T \cup {x}.                                                    *)
LEMMA InductionByInsert ==
  ASSUME NEW S, IsFiniteSet(S), NEW Q, {} \in Q,
         \A T \in SUBSET S : \A x \in S : T \in Q /\ x \notin T => T \cup {x} \in Q
  PROVE  S \in Q
<1>1. ASSUME NEW T \in SUBSET S, \A x \in T : T \ {x} \in Q PROVE T \in Q
  <2>1. CASE T = {}
    BY <2>1
  <2>2. CASE T # {}
    <3>1. PICK x \in T : TRUE
      BY <2>2
    <3>2. T \ {x} \in Q /\ T \ {x} \in SUBSET S /\ x \in S /\ (T \ {x}) \cup {x} = T
      BY <1>1, <3>1
    <3> QED
      BY <3>2
  <2> QED
    BY <2>1, <2>2
<1>2. \A T \in SUBSET S : T \in Q
  BY <1>1, FiniteInduction
<1> QED
  BY <1>2

(* A finite set that is totally ordered has a greatest element.            *)
TotalOrder(leq, S) ==
    /\ \A x, y \in S : <<x, y>> \in leq \/ <<y, x>> \in leq
    /\ \A x, y, z \in S : <<x, y>> \in leq /\ <<y, z>> \in leq => <<x, z>> \in leq

(* A finite set has a greatest element under a total order.                *)
LEMMA GreatestExists ==
  ASSUME NEW S, IsFiniteSet(S), S # {}, NEW leq, TotalOrder(leq, S)
  PROVE  \E m \in S : \A x \in S : <<x, m>> \in leq
<1> DEFINE Q == {T \in SUBSET S : T # {} => \E m \in T : \A x \in T : <<x, m>> \in leq}
<1>1. {} \in Q
  OBVIOUS
<1>2. ASSUME NEW T \in SUBSET S, NEW y \in S, T \in Q, y \notin T PROVE T \cup {y} \in Q
  <2>1. CASE T = {}
    BY <2>1 DEF TotalOrder
  <2>2. CASE T # {}
    <3>1. PICK m \in T : \A x \in T : <<x, m>> \in leq
      BY <1>2, <2>2
    <3>2. CASE <<y, m>> \in leq
      BY <3>1, <3>2
    <3>3. CASE <<m, y>> \in leq
      <4>1. \A x \in T \cup {y} : <<x, y>> \in leq
        BY <3>1, <3>3 DEF TotalOrder
      <4> QED
        BY <4>1
    <3> QED
      BY <3>1, <3>2, <3>3 DEF TotalOrder
  <2> QED
    BY <2>1, <2>2
<1> HIDE DEF Q
<1>3. S \in Q
  BY <1>1, <1>2, InductionByInsert
<1> QED
  BY <1>3 DEF Q

(* The arguments of a fold whose values are in V, and the function on the  *)
(* subsets of S that it stands for.                                        *)
Foldable(S, V, base, step, pick) ==
  /\ IsFiniteSet(S)
  /\ base \in V
  /\ step \in [S \X V -> V]
  /\ \A T \in SUBSET S : T # {} => pick[T] \in T

IsFold(g, S, V, base, step, pick) ==
  /\ g \in [SUBSET S -> V]
  /\ \A T \in SUBSET S :
        g[T] = IF T = {} THEN base ELSE step[<<pick[T], g[T \ {pick[T]}]>>]

(* There is a function that folds every subset.                            *)
LEMMA FoldExists ==
  ASSUME NEW S, NEW V, NEW base, NEW step, NEW pick, Foldable(S, V, base, step, pick)
  PROVE  \E g : IsFold(g, S, V, base, step, pick)
<1> USE DEF Foldable
<1> DEFINE Small(n) == {T \in SUBSET S : Cardinality(T) <= n}
           On(g, n) == /\ g \in [SUBSET S -> V]
                       /\ \A T \in Small(n) :
                            g[T] = IF T = {} THEN base ELSE step[<<pick[T], g[T \ {pick[T]}]>>]
           N == {n \in Nat : \E g : On(g, n)}
<1>1. 0 \in N
  <2> DEFINE g == [T \in SUBSET S |-> base]
  <2>1. \A T \in Small(0) : T = {}
    BY FS_Subset, FS_EmptySet, FS_CardinalityType
  <2>2. On(g, 0)
    BY <2>1
  <2> HIDE DEF On, g
  <2> QED
    BY <2>2
<1>2. ASSUME NEW n \in Nat, n \in N PROVE n + 1 \in N
  <2>1. PICK g : On(g, n)
    BY <1>2
  <2> DEFINE h == [T \in SUBSET S |-> IF T = {} THEN base ELSE step[<<pick[T], g[T \ {pick[T]}]>>]]
  <2>2. ASSUME NEW T \in SUBSET S, T # {} PROVE <<pick[T], g[T \ {pick[T]}]>> \in S \X V
    BY <2>1, <2>2
  <2>3. h \in [SUBSET S -> V]
    BY <2>2
  <2>4. \A T \in Small(n) : h[T] = g[T]
    BY <2>1
  <2>5. ASSUME NEW T \in Small(n + 1), T # {}
        PROVE  h[T] = step[<<pick[T], h[T \ {pick[T]}]>>]
    <3>1. IsFiniteSet(T) /\ pick[T] \in T
      BY <2>5, FS_Subset
    <3>2. Cardinality(T \ {pick[T]}) = Cardinality(T) - 1 /\ Cardinality(T) \in Nat
      BY <3>1, FS_RemoveElement, FS_CardinalityType
    <3>3. T \ {pick[T]} \in Small(n)
      BY <3>2
    <3> QED
      BY <2>4, <2>5, <3>3
  <2>6. On(h, n + 1)
    BY <2>3, <2>5
  <2> HIDE DEF On, h
  <2>7. \E f : On(f, n + 1)
    BY <2>6
  <2> QED
    BY <2>7
<1> HIDE DEF N
<1>3. Cardinality(S) \in N
  BY <1>1, <1>2, InductionOnNat, FS_CardinalityType
<1>4. PICK g : On(g, Cardinality(S))
  BY <1>3 DEF N
<1>5. \A T \in SUBSET S : T \in Small(Cardinality(S))
  BY FS_Subset
<1>6. IsFold(g, S, V, base, step, pick)
  BY <1>4, <1>5 DEF IsFold
<1> QED
  BY <1>6

-----------------------------------------------------------------------------
(* Sums: SumFunctionOnSet adds up f[x] for the x of a finite set.          *)

Summable(f, S) == IsFiniteSet(S) /\ \A x \in S : f[x] \in Int

Choice(T) == CHOOSE x \in T : TRUE

AddUp(f, T, g) == IF T = {} THEN 0 ELSE f[Choice(T)] + g[T \ {Choice(T)}]

IsSum(g, f, S) == g \in [SUBSET S -> Int] /\ \A T \in SUBSET S : g[T] = AddUp(f, T, g)

(* What can be summed over a set can be over its subsets.                  *)
LEMMA SummableSubset ==
  ASSUME NEW f, NEW S, Summable(f, S), NEW T, T \subseteq S
  PROVE  Summable(f, T)
BY FS_Subset DEF Summable

(* There is a function that sums over every subset,                        *)
LEMMA SumExists ==
  ASSUME NEW f, NEW S, Summable(f, S)
  PROVE  \E g : IsSum(g, f, S)
<1> DEFINE step == [a \in S \X Int |-> f[a[1]] + a[2]]
           pick == [T \in SUBSET S |-> Choice(T)]
<1>1. step \in [S \X Int -> Int]
  BY DEF Summable
<1>2. \A T \in SUBSET S : T # {} => pick[T] = Choice(T) /\ Choice(T) \in T
  BY DEF Choice
<1>3. \A x \in S, n \in Int : step[<<x, n>>] = f[x] + n
  OBVIOUS
<1> HIDE DEF step, pick
<1>4. Foldable(S, Int, 0, step, pick)
  BY <1>1, <1>2 DEF Foldable, Summable
<1>5. PICK g : IsFold(g, S, Int, 0, step, pick)
  BY <1>4, FoldExists
<1>6. g \in [SUBSET S -> Int]
  BY <1>5 DEF IsFold
<1>7. ASSUME NEW T \in SUBSET S PROVE g[T] = AddUp(f, T, g)
  <2>1. CASE T = {}
    BY <1>5, <2>1 DEF IsFold, AddUp
  <2>2. CASE T # {}
    <3>1. g[T] = step[<<Choice(T), g[T \ {Choice(T)}]>>]
      BY <1>2, <1>5, <2>2 DEF IsFold
    <3>2. Choice(T) \in S /\ g[T \ {Choice(T)}] \in Int
      BY <1>2, <1>6, <2>2
    <3> QED
      BY <1>3, <2>2, <3>1, <3>2 DEF AddUp
  <2> QED
    BY <2>1, <2>2
<1>8. IsSum(g, f, S)
  BY <1>6, <1>7 DEF IsSum
<1> QED
  BY <1>8

(* which the library's fold is the value of.                               *)
LEMMA SumIsFold ==
  ASSUME NEW f, NEW S, Summable(f, S)
  PROVE  \E g : /\ \A T \in SUBSET S : g[T] = AddUp(f, T, g)
                /\ SumFunctionOnSet(f, S) = g[S]
<1> DEFINE Is(g) == g = [T \in SUBSET S |-> IF T = {} THEN 0 ELSE f[Choice(T)] + g[T \ {Choice(T)}]]
<1>1. PICK g : IsSum(g, f, S)
  BY SumExists
<1>2. Is(g)
  BY <1>1 DEF IsSum, AddUp
<1>3. SumFunctionOnSet(f, S) = (CHOOSE h : Is(h))[S]
  BY DEF SumFunctionOnSet, FoldFunctionOnSet, MapThenFoldSet, Choice
<1> HIDE DEF Is
<1>4. Is(CHOOSE h : Is(h))
  BY <1>2
<1> DEFINE h == CHOOSE k : Is(k)
<1>5. \A T \in SUBSET S : h[T] = AddUp(f, T, h)
  BY <1>4 DEF Is, AddUp
<1> QED
  BY <1>3, <1>5

(* The sum over a subset is what the sum over the set computes for it.     *)
LEMMA SumOfSubset ==
  ASSUME NEW f, NEW S, Summable(f, S)
  PROVE  \E g : IsSum(g, f, S) /\ \A T \in SUBSET S : SumFunctionOnSet(f, T) = g[T]
<1>1. PICK g : IsSum(g, f, S)
  BY SumExists
<1>2. ASSUME NEW T \in SUBSET S PROVE SumFunctionOnSet(f, T) = g[T]
  <2>1. Summable(f, T) /\ IsFiniteSet(T)
    BY SummableSubset DEF Summable
  <2>2. PICK h : /\ \A U \in SUBSET T : h[U] = AddUp(f, U, h)
                 /\ SumFunctionOnSet(f, T) = h[T]
    BY <2>1, SumIsFold
  <2> DEFINE Q == {U \in SUBSET T : h[U] = g[U]}
  <2>3. {} \in Q
    BY <1>1, <2>2 DEF IsSum, AddUp
  <2>4. ASSUME NEW U \in SUBSET T, \A x \in U : U \ {x} \in Q PROVE U \in Q
    <3>1. CASE U = {}
      BY <2>3, <3>1
    <3>2. CASE U # {}
      <4>1. Choice(U) \in U
        BY <3>2 DEF Choice
      <4>2. h[U \ {Choice(U)}] = g[U \ {Choice(U)}]
        BY <2>4, <4>1
      <4>3. h[U] = AddUp(f, U, h) /\ g[U] = AddUp(f, U, g)
        BY <1>1, <2>2 DEF IsSum
      <4> QED
        BY <3>2, <4>2, <4>3 DEF AddUp
    <3> QED
      BY <3>1, <3>2
  <2> HIDE DEF Q
  <2>5. \A U \in SUBSET T : U \in Q
    BY <2>1, <2>3, <2>4, FiniteInduction
  <2> QED
    BY <2>2, <2>5 DEF Q
<1> QED
  BY <1>1, <1>2

(* The empty sum.                                                          *)
LEMMA SumEmpty == ASSUME NEW f PROVE SumFunctionOnSet(f, {}) = 0
<1>1. Summable(f, {})
  BY FS_EmptySet DEF Summable
<1>2. PICK g : IsSum(g, f, {}) /\ \A T \in SUBSET {} : SumFunctionOnSet(f, T) = g[T]
  BY <1>1, SumOfSubset
<1>3. g[{}] = AddUp(f, {}, g) /\ SumFunctionOnSet(f, {}) = g[{}]
  BY <1>2 DEF IsSum
<1> QED
  BY <1>3 DEF AddUp

(* A sum of integers is one.                                               *)
LEMMA SumInt ==
  ASSUME NEW f, NEW S, Summable(f, S)
  PROVE  SumFunctionOnSet(f, S) \in Int
<1>1. PICK g : IsSum(g, f, S) /\ \A T \in SUBSET S : SumFunctionOnSet(f, T) = g[T]
  BY SumOfSubset
<1>2. g \in [SUBSET S -> Int] /\ SumFunctionOnSet(f, S) = g[S]
  BY <1>1 DEF IsSum
<1> QED
  BY <1>2

(* A sum without one of its terms.                                         *)
LEMMA SumRemove ==
  ASSUME NEW f, NEW S, Summable(f, S), NEW x \in S
  PROVE  SumFunctionOnSet(f, S) = f[x] + SumFunctionOnSet(f, S \ {x})
<1>1. PICK g : IsSum(g, f, S) /\ \A T \in SUBSET S : SumFunctionOnSet(f, T) = g[T]
  BY SumOfSubset
<1>2. g \in [SUBSET S -> Int] /\ \A T \in SUBSET S : g[T] = AddUp(f, T, g)
  BY <1>1 DEF IsSum
<1> DEFINE Q == {T \in SUBSET S : \A y \in T : g[T] = f[y] + g[T \ {y}]}
<1>3. {} \in Q
  OBVIOUS
<1>4. ASSUME NEW T \in SUBSET S, \A y \in T : T \ {y} \in Q PROVE T \in Q
  <2> SUFFICES ASSUME NEW y \in T PROVE g[T] = f[y] + g[T \ {y}]
    OBVIOUS
  <2>1. PICK a \in T : g[T] = f[a] + g[T \ {a}]
    BY <1>2 DEF Choice, AddUp
  <2>2. CASE y = a
    BY <2>1, <2>2
  <2>3. CASE y # a
    <3>1. g[T \ {a}] = f[y] + g[(T \ {a}) \ {y}]
      BY <1>4, <2>1, <2>3
    <3>2. g[T \ {y}] = f[a] + g[(T \ {y}) \ {a}]
      BY <1>4, <2>1, <2>3
    <3>3. (T \ {a}) \ {y} = (T \ {y}) \ {a}
      OBVIOUS
    <3> DEFINE r == g[(T \ {y}) \ {a}]
    <3>4. f[a] \in Int /\ f[y] \in Int /\ r \in Int
      BY <1>2 DEF Summable
    <3>5. g[T \ {a}] = f[y] + r /\ g[T \ {y}] = f[a] + r
      BY <3>1, <3>2, <3>3
    <3> HIDE DEF r
    <3> QED
      BY <2>1, <3>4, <3>5
  <2> QED
    BY <2>2, <2>3
<1> HIDE DEF Q
<1>5. S \in Q
  BY <1>3, <1>4, FiniteInduction DEF Summable
<1>6. g[S] = f[x] + g[S \ {x}]
  BY <1>5 DEF Q
<1> QED
  BY <1>1, <1>6

(* A sum with one more term.                                               *)
LEMMA SumInsert ==
  ASSUME NEW f, NEW S, Summable(f, S), NEW x, x \notin S, f[x] \in Int
  PROVE  SumFunctionOnSet(f, S \cup {x}) = f[x] + SumFunctionOnSet(f, S)
<1>1. Summable(f, S \cup {x})
  BY FS_AddElement DEF Summable
<1>2. (S \cup {x}) \ {x} = S
  OBVIOUS
<1> QED
  BY <1>1, <1>2, SumRemove

(* Sums of equal terms are equal.                                          *)
LEMMA SumSame ==
  ASSUME NEW f, NEW g, NEW S, Summable(f, S), \A x \in S : g[x] = f[x]
  PROVE  SumFunctionOnSet(g, S) = SumFunctionOnSet(f, S)
<1> DEFINE Q == {T \in SUBSET S : SumFunctionOnSet(g, T) = SumFunctionOnSet(f, T)}
<1>1. {} \in Q
  BY SumEmpty
<1>2. ASSUME NEW T \in SUBSET S, NEW x \in S, T \in Q, x \notin T PROVE T \cup {x} \in Q
  <2>1. Summable(f, T) /\ f[x] \in Int
    BY SummableSubset DEF Summable
  <2>2. Summable(g, T) /\ g[x] \in Int
    BY <2>1 DEF Summable
  <2>3. /\ SumFunctionOnSet(f, T \cup {x}) = f[x] + SumFunctionOnSet(f, T)
        /\ SumFunctionOnSet(g, T \cup {x}) = g[x] + SumFunctionOnSet(g, T)
    BY <1>2, <2>1, <2>2, SumInsert
  <2> QED
    BY <1>2, <2>3
<1> HIDE DEF Q
<1>3. S \in Q
  BY <1>1, <1>2, InductionByInsert DEF Summable
<1> QED
  BY <1>3 DEF Q

(* A sum of sums, term by term.                                            *)
LEMMA SumAdd ==
  ASSUME NEW f, NEW g, NEW h, NEW S, Summable(f, S), Summable(g, S),
         \A x \in S : h[x] = f[x] + g[x]
  PROVE  SumFunctionOnSet(h, S) = SumFunctionOnSet(f, S) + SumFunctionOnSet(g, S)
<1> DEFINE Q == {T \in SUBSET S : SumFunctionOnSet(h, T)
                                     = SumFunctionOnSet(f, T) + SumFunctionOnSet(g, T)}
<1>1. {} \in Q
  BY SumEmpty
<1>2. ASSUME NEW T \in SUBSET S, NEW x \in S, T \in Q, x \notin T PROVE T \cup {x} \in Q
  <2>1. Summable(f, T) /\ f[x] \in Int /\ Summable(g, T) /\ g[x] \in Int
    BY SummableSubset DEF Summable
  <2>2. Summable(h, T) /\ h[x] = f[x] + g[x] /\ h[x] \in Int
    BY <2>1 DEF Summable
  <2>3. /\ SumFunctionOnSet(f, T \cup {x}) = f[x] + SumFunctionOnSet(f, T)
        /\ SumFunctionOnSet(g, T \cup {x}) = g[x] + SumFunctionOnSet(g, T)
        /\ SumFunctionOnSet(h, T \cup {x}) = h[x] + SumFunctionOnSet(h, T)
    BY <1>2, <2>1, <2>2, SumInsert
  <2>4. SumFunctionOnSet(f, T) \in Int /\ SumFunctionOnSet(g, T) \in Int
    BY <2>1, SumInt
  <2>5. SumFunctionOnSet(h, T \cup {x})
           = SumFunctionOnSet(f, T \cup {x}) + SumFunctionOnSet(g, T \cup {x})
    BY <1>2, <2>1, <2>2, <2>3, <2>4
  <2> QED
    BY <2>5
<1> HIDE DEF Q
<1>3. S \in Q
  BY <1>1, <1>2, InductionByInsert DEF Summable
<1> QED
  BY <1>3 DEF Q

(* A sum of zeros.                                                         *)
LEMMA SumZero ==
  ASSUME NEW f, NEW S, IsFiniteSet(S), \A x \in S : f[x] = 0
  PROVE  SumFunctionOnSet(f, S) = 0
<1>1. Summable(f, S)
  BY DEF Summable
<1> DEFINE Q == {T \in SUBSET S : SumFunctionOnSet(f, T) = 0}
<1>2. {} \in Q
  BY SumEmpty
<1>3. ASSUME NEW T \in SUBSET S, NEW x \in S, T \in Q, x \notin T PROVE T \cup {x} \in Q
  <2>1. Summable(f, T) /\ f[x] = 0
    BY <1>1, SummableSubset
  <2>2. SumFunctionOnSet(f, T \cup {x}) = f[x] + SumFunctionOnSet(f, T)
    BY <1>3, <2>1, SumInsert
  <2> QED
    BY <1>3, <2>1, <2>2
<1> HIDE DEF Q
<1>4. S \in Q
  BY <1>2, <1>3, InductionByInsert
<1> QED
  BY <1>4 DEF Q

(* A sum of naturals is one.                                               *)
LEMMA SumNat ==
  ASSUME NEW f, NEW S, Summable(f, S), \A x \in S : f[x] >= 0
  PROVE  SumFunctionOnSet(f, S) >= 0
<1> DEFINE Q == {T \in SUBSET S : SumFunctionOnSet(f, T) >= 0}
<1>1. {} \in Q
  BY SumEmpty
<1>2. ASSUME NEW T \in SUBSET S, NEW x \in S, T \in Q, x \notin T PROVE T \cup {x} \in Q
  <2>1. Summable(f, T) /\ f[x] \in Int /\ SumFunctionOnSet(f, T) \in Int
    BY SummableSubset, SumInt DEF Summable
  <2>2. SumFunctionOnSet(f, T \cup {x}) = f[x] + SumFunctionOnSet(f, T)
    BY <1>2, <2>1, SumInsert
  <2>3. SumFunctionOnSet(f, T \cup {x}) >= 0
    BY <1>2, <2>1, <2>2
  <2> QED
    BY <2>3
<1> HIDE DEF Q
<1>3. S \in Q
  BY <1>1, <1>2, InductionByInsert DEF Summable
<1> QED
  BY <1>3 DEF Q

(* Amounts of one sign that add up to zero are all zero.                   *)
LEMMA SumNatZero ==
  ASSUME NEW f, NEW S, Summable(f, S), \A x \in S : f[x] >= 0, SumFunctionOnSet(f, S) = 0,
         NEW x \in S
  PROVE  f[x] = 0
<1>1. SumFunctionOnSet(f, S) = f[x] + SumFunctionOnSet(f, S \ {x})
  BY SumRemove
<1>2. Summable(f, S \ {x})
  BY SummableSubset
<1>3. SumFunctionOnSet(f, S \ {x}) \in Int /\ SumFunctionOnSet(f, S \ {x}) >= 0
  BY <1>2, SumInt, SumNat
<1>4. f[x] \in Int /\ f[x] >= 0
  BY DEF Summable
<1> QED
  BY <1>1, <1>3, <1>4

(* A sum over two disjoint sets.                                           *)
LEMMA SumUnion ==
  ASSUME NEW f, NEW S, NEW U, Summable(f, S), Summable(f, U), S \cap U = {}
  PROVE  SumFunctionOnSet(f, S \cup U) = SumFunctionOnSet(f, S) + SumFunctionOnSet(f, U)
<1> DEFINE Q == {T \in SUBSET U : SumFunctionOnSet(f, S \cup T)
                                     = SumFunctionOnSet(f, S) + SumFunctionOnSet(f, T)}
<1>1. {} \in Q
  <2>1. S \cup {} = S /\ SumFunctionOnSet(f, S) \in Int /\ SumFunctionOnSet(f, {}) = 0
    BY SumEmpty, SumInt
  <2> QED
    BY <2>1
<1>2. ASSUME NEW T \in SUBSET U, NEW x \in U, T \in Q, x \notin T PROVE T \cup {x} \in Q
  <2>1. Summable(f, T) /\ f[x] \in Int
    BY SummableSubset DEF Summable
  <2>2. Summable(f, S \cup T)
    BY <2>1, FS_Union DEF Summable
  <2>3. x \notin S \cup T /\ S \cup (T \cup {x}) = (S \cup T) \cup {x}
    BY <1>2
  <2>4. /\ SumFunctionOnSet(f, T \cup {x}) = f[x] + SumFunctionOnSet(f, T)
        /\ SumFunctionOnSet(f, (S \cup T) \cup {x}) = f[x] + SumFunctionOnSet(f, S \cup T)
    BY <1>2, <2>1, <2>2, <2>3, SumInsert
  <2>5. SumFunctionOnSet(f, S) \in Int /\ SumFunctionOnSet(f, T) \in Int
    BY <2>1, SumInt
  <2>6. SumFunctionOnSet(f, S \cup T) = SumFunctionOnSet(f, S) + SumFunctionOnSet(f, T)
    BY <1>2
  <2> HIDE DEF Q
  <2>7. SumFunctionOnSet(f, S \cup (T \cup {x}))
           = SumFunctionOnSet(f, S) + SumFunctionOnSet(f, T \cup {x})
    <3> DEFINE s == SumFunctionOnSet(f, S)
               t == SumFunctionOnSet(f, T)
    <3>1. s \in Int /\ t \in Int /\ f[x] \in Int
      BY <2>1, <2>5
    <3>2. SumFunctionOnSet(f, S \cup (T \cup {x})) = f[x] + (s + t)
      BY <2>3, <2>4, <2>6
    <3>3. SumFunctionOnSet(f, T \cup {x}) = f[x] + t
      BY <2>4
    <3> HIDE DEF s, t
    <3>4. f[x] + (s + t) = s + (f[x] + t)
      BY <3>1
    <3> QED
      BY <3>2, <3>3, <3>4 DEF s
  <2> QED
    BY <2>7 DEF Q
<1> HIDE DEF Q
<1>3. U \in Q
  BY <1>1, <1>2, InductionByInsert DEF Summable
<1> QED
  BY <1>3 DEF Q

(* Adding up class by class: each x of S is in the class r[x].             *)
Class(r, S, p) == {x \in S : r[x] = p}

(* A sum over the classes of its terms.                                    *)
LEMMA SumByParts ==
  ASSUME NEW f, NEW S, Summable(f, S), NEW P, IsFiniteSet(P),
         NEW r, \A x \in S : r[x] \in P,
         NEW h, \A p \in P : h[p] = SumFunctionOnSet(f, Class(r, S, p))
  PROVE  SumFunctionOnSet(h, P) = SumFunctionOnSet(f, S)
<1> DEFINE In(R) == {x \in S : r[x] \in R}
           Q == {R \in SUBSET P : SumFunctionOnSet(h, R) = SumFunctionOnSet(f, In(R))}
<1>1. ASSUME NEW p \in P PROVE h[p] \in Int /\ Summable(f, Class(r, S, p))
  <2>1. Summable(f, Class(r, S, p))
    BY SummableSubset DEF Class
  <2> QED
    BY <2>1, SumInt
<1>2. ASSUME NEW R \in SUBSET P PROVE Summable(h, R) /\ Summable(f, In(R))
  <2>1. Summable(f, In(R))
    BY SummableSubset
  <2>2. Summable(h, R)
    BY <1>1, FS_Subset DEF Summable
  <2> QED
    BY <2>1, <2>2
<1>3. {} \in Q
  <2>1. In({}) = {}
    OBVIOUS
  <2> QED
    BY <2>1, SumEmpty
<1>4. ASSUME NEW R \in SUBSET P, NEW p \in P, R \in Q, p \notin R PROVE R \cup {p} \in Q
  <2> DEFINE C == Class(r, S, p)
  <2>1. In(R \cup {p}) = In(R) \cup C /\ In(R) \cap C = {}
    BY <1>4 DEF Class
  <2>2. SumFunctionOnSet(f, In(R) \cup C) = SumFunctionOnSet(f, In(R)) + SumFunctionOnSet(f, C)
    BY <1>1, <1>2, <2>1, SumUnion
  <2>3. SumFunctionOnSet(h, R \cup {p}) = h[p] + SumFunctionOnSet(h, R)
    BY <1>1, <1>2, <1>4, SumInsert
  <2>4. SumFunctionOnSet(h, R) = SumFunctionOnSet(f, In(R)) /\ h[p] = SumFunctionOnSet(f, C)
    BY <1>4
  <2>5. SumFunctionOnSet(h, R) \in Int /\ h[p] \in Int
    BY <1>1, <1>2, SumInt
  <2> HIDE DEF In, C, Q
  <2>6. SumFunctionOnSet(h, R \cup {p}) = SumFunctionOnSet(f, In(R \cup {p}))
    <3>1. SumFunctionOnSet(f, In(R \cup {p})) = SumFunctionOnSet(h, R) + h[p]
      BY <2>1, <2>2, <2>4
    <3>2. h[p] + SumFunctionOnSet(h, R) = SumFunctionOnSet(h, R) + h[p]
      BY <2>5
    <3> QED
      BY <2>3, <3>1, <3>2
  <2> QED
    BY <2>6 DEF Q
<1>5. In(P) = S
  OBVIOUS
<1> HIDE DEF Q, In
<1>6. P \in Q
  BY <1>3, <1>4, InductionByInsert
<1> QED
  BY <1>5, <1>6 DEF Q

(* Adding up a table by its rows or by its columns.                        *)
Row(F, x, Y) == [y \in Y |-> F[<<x, y>>]]
Col(F, y, X) == [x \in X |-> F[<<x, y>>]]

Table(F, X, Y) ==
    /\ IsFiniteSet(X) /\ IsFiniteSet(Y)
    /\ \A x \in X, y \in Y : F[<<x, y>>] \in Int

(* The sum over a table, by rows and by columns.                           *)
LEMMA SumExchange ==
  ASSUME NEW X, NEW Y, NEW F, Table(F, X, Y),
         NEW a, \A x \in X : a[x] = SumFunctionOnSet(Row(F, x, Y), Y),
         NEW b, \A y \in Y : b[y] = SumFunctionOnSet(Col(F, y, X), X)
  PROVE  SumFunctionOnSet(a, X) = SumFunctionOnSet(b, Y)
<1> USE DEF Table
<1> DEFINE Part(T) == [y \in Y |-> SumFunctionOnSet(Col(F, y, X), T)]
           Q == {T \in SUBSET X : SumFunctionOnSet(a, T) = SumFunctionOnSet(Part(T), Y)}
<1>1. ASSUME NEW x \in X PROVE Summable(Row(F, x, Y), Y) /\ a[x] \in Int
  <2>1. Summable(Row(F, x, Y), Y)
    BY DEF Summable, Row
  <2> QED
    BY <2>1, SumInt
<1>2. ASSUME NEW T \in SUBSET X PROVE Summable(a, T) /\ Summable(Part(T), Y)
  <2>1. Summable(a, T)
    BY <1>1, FS_Subset DEF Summable
  <2>2. ASSUME NEW y \in Y PROVE SumFunctionOnSet(Col(F, y, X), T) \in Int
    <3>1. Summable(Col(F, y, X), T)
      BY FS_Subset DEF Summable, Col
    <3> QED
      BY <3>1, SumInt
  <2>3. Summable(Part(T), Y)
    BY <2>2 DEF Summable
  <2> QED
    BY <2>1, <2>3
<1>3. {} \in Q
  <2>1. \A y \in Y : Part({})[y] = 0
    BY SumEmpty
  <2>2. SumFunctionOnSet(Part({}), Y) = 0
    BY <2>1, SumZero
  <2> QED
    BY <2>2, SumEmpty
<1>4. ASSUME NEW T \in SUBSET X, NEW x \in X, T \in Q, x \notin T PROVE T \cup {x} \in Q
  <2>1. SumFunctionOnSet(a, T \cup {x}) = a[x] + SumFunctionOnSet(a, T)
    BY <1>1, <1>2, <1>4, SumInsert
  <2>2. ASSUME NEW y \in Y PROVE Part(T \cup {x})[y] = Row(F, x, Y)[y] + Part(T)[y]
    <3>1. Summable(Col(F, y, X), T) /\ Col(F, y, X)[x] \in Int /\ Col(F, y, X)[x] = F[<<x, y>>]
      BY FS_Subset DEF Summable, Col
    <3>2. SumFunctionOnSet(Col(F, y, X), T \cup {x}) = Col(F, y, X)[x] + SumFunctionOnSet(Col(F, y, X), T)
      BY <1>4, <3>1, SumInsert
    <3> QED
      BY <3>1, <3>2 DEF Row
  <2> HIDE DEF Part
  <2>3. SumFunctionOnSet(Part(T \cup {x}), Y)
           = SumFunctionOnSet(Row(F, x, Y), Y) + SumFunctionOnSet(Part(T), Y)
    <3>1. Summable(Row(F, x, Y), Y) /\ Summable(Part(T), Y)
      BY <1>1, <1>2
    <3>2. \A f, g, h : Summable(f, Y) /\ Summable(g, Y) /\ (\A y \in Y : h[y] = f[y] + g[y])
             => SumFunctionOnSet(h, Y) = SumFunctionOnSet(f, Y) + SumFunctionOnSet(g, Y)
      BY SumAdd
    <3> QED
      BY <2>2, <3>1, <3>2
  <2>4. a[x] = SumFunctionOnSet(Row(F, x, Y), Y) /\ SumFunctionOnSet(a, T) = SumFunctionOnSet(Part(T), Y)
    BY <1>4
  <2> HIDE DEF Q
  <2>5. SumFunctionOnSet(a, T \cup {x}) = SumFunctionOnSet(Part(T \cup {x}), Y)
    BY <2>1, <2>3, <2>4
  <2> QED
    BY <2>5 DEF Q
<1>5. ASSUME NEW y \in Y PROVE Part(X)[y] = b[y]
  OBVIOUS
<1>6. SumFunctionOnSet(b, Y) = SumFunctionOnSet(Part(X), Y)
  <2> HIDE DEF Part
  <2> QED
    BY <1>2, <1>5, SumSame
<1> HIDE DEF Q, Part
<1>7. X \in Q
  BY <1>3, <1>4, InductionByInsert
<1> QED
  BY <1>6, <1>7 DEF Q

(* The columns of the table add up to zero each, and so do its rows taken  *)
(* together.                                                               *)
LEMMA SumOfTable ==
  ASSUME NEW X, NEW Y, NEW F, Table(F, X, Y),
         NEW a, \A x \in X : a[x] = SumFunctionOnSet(Row(F, x, Y), Y),
         \A y \in Y : SumFunctionOnSet(Col(F, y, X), X) = 0
  PROVE  SumFunctionOnSet(a, X) = 0
<1> DEFINE b == [y \in Y |-> 0]
<1>1. \A y \in Y : b[y] = SumFunctionOnSet(Col(F, y, X), X)
  OBVIOUS
<1>2. \A y \in Y : b[y] = 0
  OBVIOUS
<1> HIDE DEF b
<1>3. SumFunctionOnSet(a, X) = SumFunctionOnSet(b, Y)
  BY <1>1, SumExchange
<1> QED
  BY <1>2, <1>3, SumZero DEF Table

(* A single amount among zeros.                                            *)
LEMMA SumSingle ==
  ASSUME NEW S, IsFiniteSet(S), NEW x \in S, NEW n \in Int,
         NEW h, \A y \in S : h[y] = IF y = x THEN n ELSE 0
  PROVE  SumFunctionOnSet(h, S) = n
<1>1. Summable(h, S)
  BY DEF Summable
<1>2. SumFunctionOnSet(h, S) = h[x] + SumFunctionOnSet(h, S \ {x})
  BY <1>1, SumRemove
<1>3. IsFiniteSet(S \ {x}) /\ \A y \in S \ {x} : h[y] = 0
  BY FS_Subset
<1>4. SumFunctionOnSet(h, S \ {x}) = 0
  BY <1>3, SumZero
<1> QED
  BY <1>2, <1>4

(* Zeros may be left out.                                                  *)
LEMMA SumNonZero ==
  ASSUME NEW f, NEW S, Summable(f, S), NEW T, T \subseteq S, \A x \in S \ T : f[x] = 0
  PROVE  SumFunctionOnSet(f, T) = SumFunctionOnSet(f, S)
<1>1. Summable(f, T) /\ Summable(f, S \ T) /\ T \cup (S \ T) = S /\ T \cap (S \ T) = {}
  BY SummableSubset
<1>2. SumFunctionOnSet(f, S) = SumFunctionOnSet(f, T) + SumFunctionOnSet(f, S \ T)
  BY <1>1, SumUnion
<1>3. SumFunctionOnSet(f, S \ T) = 0
  BY <1>1, SumZero DEF Summable
<1>4. SumFunctionOnSet(f, T) \in Int
  BY <1>1, SumInt
<1> QED
  BY <1>2, <1>3, <1>4
-----------------------------------------------------------------------------
(* What a read model is taken of: finitely many ops, whose readings and    *)
(* content ids are ordered by numbers, and whose claims name user ids.     *)
OpSet(S) ==
    /\ IsFiniteSet(S)
    /\ \A op \in S :
          /\ op.hlc \in Nat /\ op.id \in Int
          /\ op.kind = "AddAlias" => {op.alias, op.canonical} \subseteq {"id", "user"} \X Nat

(* Part of an op-set is one.                                               *)
LEMMA OpSetSubset == ASSUME NEW S, OpSet(S), NEW T, T \subseteq S PROVE OpSet(T)
BY FS_Subset DEF OpSet

(* Ops are ordered by numbers.                                             *)
LEMMA OpsHaveOrder ==
  ASSUME NEW S, OpSet(S), NEW op \in S
  PROVE  op.hlc \in Nat /\ op.id \in Int
BY DEF OpSet

(* The last of some ops exists.                                            *)
LEMMA LatestIsLatest ==
  ASSUME NEW S, OpSet(S), S # {}
  PROVE  /\ Latest(S) \in S
         /\ \A op \in S : AtOrBefore(OrderOf(op), OrderOf(Latest(S)))
<1> DEFINE leq == {ab \in S \X S : AtOrBefore(OrderOf(ab[1]), OrderOf(ab[2]))}
<1>1. \A a, b \in S : <<a, b>> \in leq <=> AtOrBefore(OrderOf(a), OrderOf(b))
  OBVIOUS
<1>2. \A a \in S : a.hlc \in Nat /\ a.id \in Int
  BY OpsHaveOrder
<1> HIDE DEF leq
<1>3. TotalOrder(leq, S)
  BY <1>1, <1>2 DEF TotalOrder, AtOrBefore, OrderOf
<1>4. \E m \in S : \A a \in S : <<a, m>> \in leq
  BY <1>3, GreatestExists DEF OpSet
<1>5. \E m \in S : \A a \in S : AtOrBefore(OrderOf(a), OrderOf(m))
  BY <1>1, <1>4
<1> QED
  BY <1>5 DEF Latest

(* So does the first of some.                                              *)
LEMMA EarliestIsEarliest ==
  ASSUME NEW S, OpSet(S), S # {}
  PROVE  /\ Earliest(S) \in S
         /\ \A op \in S : AtOrBefore(OrderOf(Earliest(S)), OrderOf(op))
<1> DEFINE geq == {q \in S \X S : AtOrBefore(OrderOf(q[2]), OrderOf(q[1]))}
<1>1. \A x, y \in S : <<x, y>> \in geq <=> AtOrBefore(OrderOf(y), OrderOf(x))
  OBVIOUS
<1> HIDE DEF geq
<1>2. TotalOrder(geq, S)
  BY <1>1, OpsHaveOrder DEF TotalOrder, AtOrBefore, OrderOf
<1>3. \E m \in S : \A x \in S : <<x, m>> \in geq
  BY <1>2, GreatestExists DEF OpSet
<1> QED
  BY <1>1, <1>3 DEF Earliest

-----------------------------------------------------------------------------
(* The stages of Build.                                                    *)

Who(S) == Identities(CollectDevices(S), Standing(S, CollectDevices(S)))

Live(S) == Standing(S, CollectDevices(S))

Rights(S) == Grants(Who(S), Founders(Who(S), Live(S)), Live(S))

(* A later stage changes nothing of what the earlier ones found.           *)
LEMMA Stages ==
  ASSUME NEW S
  PROVE  /\ Build(S).devices = CollectDevices(S)
         /\ Build(S).aliases = Who(S).aliases
         /\ Build(S).founders = Founders(Who(S), Live(S))
         /\ Build(S).friend_decls = FriendDecls(Who(S), Live(S))
         /\ Build(S).membership = Membership(Who(S), Founders(Who(S), Live(S)), Live(S))
         /\ Build(S).expenses
               = Bindings(Rights(S), Live(S), "CreateExpense", LAMBDA op : op.expense)
         /\ Build(S).settlements
               = Bindings(Rights(S), Live(S), "RecordSettlement", LAMBDA op : op.settlement)
         /\ Rights(S).devices = CollectDevices(S)
         /\ Rights(S).aliases = Who(S).aliases
         /\ Rights(S).friend_decls = FriendDecls(Who(S), Live(S))
         /\ Rights(S).membership = Membership(Who(S), Founders(Who(S), Live(S)), Live(S))
         /\ Who(S).devices = CollectDevices(S)
<1>1. Build(S) = Contexts(Rights(S), Live(S))
  BY DEF Build, FromDevices, Staged, Rights, Who, Live
<1>2. Rights(S) = Grants(Who(S), Founders(Who(S), Live(S)), Live(S)) /\ Who(S).devices = CollectDevices(S)
  BY DEF Rights, Who, Identities
<1> HIDE DEF Rights, Who, Live
<1> QED
  BY <1>1, <1>2 DEF Contexts, Grants

(* The same rights decide the same.                                        *)
LEMMA ResolveSame ==
  ASSUME NEW a, NEW b, a.aliases = b.aliases, NEW u
  PROVE  Resolve(a, u) = Resolve(b, u)
BY DEF Resolve

(* The same device keys and aliases name the same actor.                   *)
LEMMA ActorSame ==
  ASSUME NEW a, NEW b, a.aliases = b.aliases, a.devices = b.devices, NEW op
  PROVE  Actor(a, op) = Actor(b, op)
BY DEF Actor, Resolve

(* What is entitled is standing, and what creates is authorized alike by   *)
(* the bindings and by the fold.                                           *)
LEMMA EntitledStands ==
  ASSUME NEW S, NEW op \in S, Entitled(Build(S), op)
  PROVE  op \in Live(S) /\ ~RevokedAt(Build(S).devices, op)
<1>1. ~RevokedAt(Build(S).devices, op)
  BY DEF Entitled
<1>2. Build(S).devices = CollectDevices(S)
  BY Stages
<1> QED
  BY <1>1, <1>2 DEF Live, Standing

-----------------------------------------------------------------------------
(* Registers of the read model.                                            *)

Readings(W) == IsFiniteSet(W) /\ \A w \in W : w.hlc \in Nat

(* Among writes with readings there is a last one for each key.            *)
LEMMA LastWriteExists ==
  ASSUME NEW W, Readings(W), NEW k \in {w.key : w \in W}
  PROVE  /\ LastWrite(W, k) \in W
         /\ LastWrite(W, k).key = k
         /\ \A x \in W : x.key = k => x.hlc <= LastWrite(W, k).hlc
<1> DEFINE K == {w \in W : w.key = k}
           leq == {ab \in K \X K : ab[1].hlc <= ab[2].hlc}
<1>1. IsFiniteSet(K) /\ K # {} /\ \A a \in K : a.hlc \in Nat
  BY FS_Subset DEF Readings
<1>2. \A a, b \in K : <<a, b>> \in leq <=> a.hlc <= b.hlc
  OBVIOUS
<1> HIDE DEF leq
<1>3. TotalOrder(leq, K)
  <2> HIDE DEF K
  <2> QED
    BY <1>1, <1>2 DEF TotalOrder
<1>4. \E m \in K : \A a \in K : <<a, m>> \in leq
  <2> HIDE DEF K
  <2> QED
    BY <1>1, <1>3, GreatestExists
<1>5. \E w \in W : w.key = k /\ \A x \in W : x.key = k => x.hlc <= w.hlc
  BY <1>2, <1>4
<1> QED
  BY <1>5 DEF LastWrite

(* The values of a function on a finite set are finitely many.             *)
LEMMA FiniteImage ==
  ASSUME NEW S, IsFiniteSet(S), NEW f, NEW W, W = {f[x] : x \in S}
  PROVE  IsFiniteSet(W)
<1> DEFINE g == [x \in S |-> f[x]]
<1>1. g \in Surjection(S, W)
  BY DEF Surjection
<1> HIDE DEF g
<1> QED
  BY <1>1, FS_Surjection

(* The writes of an op-set have readings.                                  *)
LEMMA WritesHaveReadings ==
  ASSUME NEW O, OpSet(O)
  PROVE  /\ Readings(ProfileWrites(O))
         /\ Readings(GroupWrites(O))
         /\ Readings(VersionWrites(O))
         /\ Readings(SettlementWrites(O))
         /\ Readings(ClosedWrites(O))
<1>1. \A op \in O : op.hlc \in Nat
  BY OpsHaveOrder
<1>2. \A K \in SUBSET O : IsFiniteSet(K)
  BY FS_Subset DEF OpSet
<1>3. Readings(ProfileWrites(O))
  <2> DEFINE f == [op \in O |-> Write(op.user, op, op.name)]
             K == OfKind(O, "UpsertProfile")
  <2>1. ProfileWrites(O) = {f[op] : op \in K} /\ K \in SUBSET O
    BY DEF ProfileWrites, OfKind
  <2>2. \A op \in O : f[op].hlc = op.hlc
    BY DEF Write
  <2> HIDE DEF f, K
  <2> QED
    BY <1>1, <1>2, <2>1, <2>2, FiniteImage DEF Readings
<1>4. Readings(GroupWrites(O))
  <2> DEFINE f == [op \in O |-> Write(op.expense, op, op.group)]
             K == OfKind(O, "CreateExpense")
  <2>1. GroupWrites(O) = {f[op] : op \in K} /\ K \in SUBSET O
    BY DEF GroupWrites, OfKind
  <2>2. \A op \in O : f[op].hlc = op.hlc
    BY DEF Write
  <2> HIDE DEF f, K
  <2> QED
    BY <1>1, <1>2, <2>1, <2>2, FiniteImage DEF Readings
<1>5. Readings(VersionWrites(O))
  <2> DEFINE f == [op \in O |-> Write(op.expense, op, op.fields)]
             K == OfKind(O, "CreateExpense") \cup OfKind(O, "EditExpense")
  <2>1. VersionWrites(O) = {f[op] : op \in K} /\ K \in SUBSET O
    BY DEF VersionWrites, OfKind
  <2>2. \A op \in O : f[op].hlc = op.hlc
    BY DEF Write
  <2> HIDE DEF f, K
  <2> QED
    BY <1>1, <1>2, <2>1, <2>2, FiniteImage DEF Readings
<1>6. Readings(SettlementWrites(O))
  <2> DEFINE f == [op \in O |-> Write(op.settlement, op, SettlementData(op))]
             K == OfKind(O, "RecordSettlement")
  <2>1. SettlementWrites(O) = {f[op] : op \in K} /\ K \in SUBSET O
    BY DEF SettlementWrites, OfKind
  <2>2. \A op \in O : f[op].hlc = op.hlc
    BY DEF Write
  <2> HIDE DEF f, K
  <2> QED
    BY <1>1, <1>2, <2>1, <2>2, FiniteImage DEF Readings
<1>7. Readings(ClosedWrites(O))
  <2> DEFINE f == [op \in O |-> Write(op.group, op, op.until_ms)]
             K == OfKind(O, "SetClosedPeriod")
  <2>1. ClosedWrites(O) = {f[op] : op \in K} /\ K \in SUBSET O
    BY DEF ClosedWrites, OfKind
  <2>2. \A op \in O : f[op].hlc = op.hlc
    BY DEF Write
  <2> HIDE DEF f, K
  <2> QED
    BY <1>1, <1>2, <2>1, <2>2, FiniteImage DEF Readings
<1> QED
  BY <1>3, <1>4, <1>5, <1>6, <1>7

-----------------------------------------------------------------------------
(* The parts of a read model.                                              *)

UsersOf(f) ==
    [u \in DOMAIN f.profiles |->
        [name          |-> f.profiles[u].value,
         agreement_pub |-> ValueOr(f.agreement_keys, u, "none")]]

ExpensesOf(f) ==
    [e \in (DOMAIN f.expense_version \ f.expense_voided) \cap DOMAIN f.expense_group |->
        [group     |-> f.expense_group[e].value,
         fields    |-> f.expense_version[e].value,
         locked    |-> ValueOr(f.expense_locked, e, FALSE),
         published |-> e \in f.expense_published]]

SettlementsOf(f) ==
    [s \in DOMAIN f.settlements \ f.settlement_voided |-> f.settlements[s].value]

(* What Assemble takes from the folder and what from the authority.        *)
LEMMA Assembled ==
  ASSUME NEW f, NEW auth
  PROVE  /\ Assemble(f, auth).users = UsersOf(f)
         /\ Assemble(f, auth).expenses = ExpensesOf(f)
         /\ Assemble(f, auth).settlements = SettlementsOf(f)
         /\ Assemble(f, auth).aliases = auth.aliases
         /\ \A g \in DOMAIN Assemble(f, auth).groups :
               Assemble(f, auth).groups[g].members = CurrentMembers(auth, g)
BY DEF Assemble, UsersOf, ExpensesOf, SettlementsOf

Fold(S) == FolderOf(EntitledOps(S, Build(S)))

(* The same of a projection.                                               *)
LEMMA ModelParts ==
  ASSUME NEW S
  PROVE  /\ Project(S).users = UsersOf(Fold(S))
         /\ Project(S).expenses = ExpensesOf(Fold(S))
         /\ Project(S).settlements = SettlementsOf(Fold(S))
         /\ Project(S).aliases = Build(S).aliases
         /\ \A g \in DOMAIN Project(S).groups :
               Project(S).groups[g].members = CurrentMembers(Build(S), g)
BY Assembled DEF Project, ReadModel, Fold

(* What the registers of a folder are the last writes of.                  *)
LEMMA FolderParts ==
  ASSUME NEW O
  PROVE  /\ FolderOf(O).profiles = LastWrites(ProfileWrites(O))
         /\ FolderOf(O).expense_group = LastWrites(GroupWrites(O))
         /\ FolderOf(O).expense_version = LastWrites(VersionWrites(O))
         /\ FolderOf(O).expense_locked = LastWrites(LockWrites(O))
         /\ FolderOf(O).expense_published = Published(O)
         /\ FolderOf(O).expense_voided = Voided(O)
         /\ FolderOf(O).settlements = LastWrites(SettlementWrites(O))
         /\ FolderOf(O).settlement_voided = VoidedSettlements(O)
BY DEF FolderOf

(* The value of a register is that of its last write.                      *)
LEMMA RegisterValue ==
  ASSUME NEW W
  PROVE  /\ DOMAIN LastWrites(W) = {w.key : w \in W}
         /\ \A k \in DOMAIN LastWrites(W) : LastWrites(W)[k].value = LastWrite(W, k).value
BY DEF LastWrites

-----------------------------------------------------------------------------
(* The replay of the membership changes.                                   *)

Event(who, op) ==
    [group |-> op.group, user |-> Resolve(who, op.user), at |-> OrderOf(op), member |-> op.member]

Replayed(who, op, events) ==
    IF IsMemberAsOf(events, op.group, Actor(who, op), OrderOf(op))
    THEN events \cup {Event(who, op)}
    ELSE events

Seeds(founders) ==
    {[group |-> g, user |-> founders[g], at |-> MinOrder, member |-> TRUE] : g \in DOMAIN founders}

Changes(live) == OfKind(live, "SetMembership")

(* g replays every subset of the changes M.                                *)
IsReplay(g, who, founders, M) ==
    \A T \in SUBSET M :
        g[T] = IF T = {} THEN Seeds(founders) ELSE Replayed(who, Latest(T), g[T \ {Latest(T)}])

(* The equation the library's fold is the solution of.                     *)
Solves(g, who, founders, M) ==
    g = [T \in SUBSET M |-> IF T = {} THEN Seeds(founders)
                            ELSE Replayed(who, Latest(T), g[T \ {Latest(T)}])]

(* There is a function that replays every subset,                          *)
LEMMA ReplayExists ==
  ASSUME NEW who, NEW founders, NEW M, OpSet(M)
  PROVE  \E g : Solves(g, who, founders, M)
<1> DEFINE V == SUBSET (Seeds(founders) \cup {Event(who, op) : op \in M})
           step == [a \in M \X V |-> Replayed(who, a[1], a[2])]
           pick == [T \in SUBSET M |-> Latest(T)]
           base == Seeds(founders)
<1>1. \A T \in SUBSET M : T # {} => pick[T] = Latest(T) /\ Latest(T) \in T
  BY LatestIsLatest, OpSetSubset
<1>2. step \in [M \X V -> V]
  <2> SUFFICES ASSUME NEW op \in M, NEW events \in V PROVE Replayed(who, op, events) \in V
    OBVIOUS
  <2> QED
    BY DEF Replayed
<1>3. \A op \in M, events \in V : step[<<op, events>>] = Replayed(who, op, events)
  OBVIOUS
<1>4. base \in V
  OBVIOUS
<1> HIDE DEF V, step, pick, base
<1>5. Foldable(M, V, base, step, pick)
  BY <1>1, <1>2, <1>4 DEF Foldable, OpSet
<1>6. PICK g : IsFold(g, M, V, base, step, pick)
  BY <1>5, FoldExists
<1>7. g = [T \in SUBSET M |-> g[T]]
  BY <1>6 DEF IsFold
<1>8. ASSUME NEW T \in SUBSET M
      PROVE  g[T] = IF T = {} THEN Seeds(founders) ELSE Replayed(who, Latest(T), g[T \ {Latest(T)}])
  <2>1. CASE T = {}
    BY <1>6, <2>1 DEF IsFold, base
  <2>2. CASE T # {}
    <3>1. g[T] = step[<<Latest(T), g[T \ {Latest(T)}]>>]
      BY <1>1, <1>6, <2>2 DEF IsFold
    <3>2. Latest(T) \in M /\ g[T \ {Latest(T)}] \in V
      BY <1>1, <1>6, <2>2 DEF IsFold
    <3> QED
      BY <1>3, <2>2, <3>1, <3>2
  <2> QED
    BY <2>1, <2>2
<1>9. Solves(g, who, founders, M)
  BY <1>7, <1>8 DEF Solves
<1> QED
  BY <1>9

(* and the membership is its value.                                        *)
LEMMA MembershipIsReplay ==
  ASSUME NEW who, NEW founders, NEW live, OpSet(live)
  PROVE  \E g : /\ IsReplay(g, who, founders, Changes(live))
                /\ Membership(who, founders, live) = g[Changes(live)]
<1> DEFINE M == Changes(live)
           h == CHOOSE g : Solves(g, who, founders, M)
<1>1. OpSet(M)
  BY OpSetSubset DEF Changes, OfKind
<1>2. Membership(who, founders, live) = h[M]
  BY DEF Membership, MapThenFoldSet, Solves, Seeds, Replayed, Event, Changes
<1>3. Solves(h, who, founders, M)
  BY <1>1, ReplayExists
<1>4. IsReplay(h, who, founders, M)
  BY <1>3 DEF Solves, IsReplay
<1> QED
  BY <1>2, <1>4

(* What holds of the founders' seeds, and of a change's event when it      *)
(* holds of those before it, holds of all events: the good ones are a set. *)
LEMMA ReplayInduction ==
  ASSUME NEW who, NEW founders, NEW live, OpSet(live), NEW Good,
         Seeds(founders) \subseteq Good,
         \A op \in Changes(live) : \A events \in SUBSET Good :
            IsMemberAsOf(events, op.group, Actor(who, op), OrderOf(op)) => Event(who, op) \in Good
  PROVE  Membership(who, founders, live) \subseteq Good
<1> DEFINE M == Changes(live)
<1>1. OpSet(M)
  BY OpSetSubset DEF Changes, OfKind
<1>2. PICK g : IsReplay(g, who, founders, M) /\ Membership(who, founders, live) = g[M]
  BY MembershipIsReplay
<1> DEFINE Q == {T \in SUBSET M : g[T] \subseteq Good}
<1>3. {} \in Q
  BY <1>2 DEF IsReplay
<1>4. ASSUME NEW T \in SUBSET M, \A x \in T : T \ {x} \in Q PROVE T \in Q
  <2>1. CASE T = {}
    BY <1>3, <2>1
  <2>2. CASE T # {}
    <3>1. Latest(T) \in T
      BY <1>1, <2>2, LatestIsLatest, OpSetSubset
    <3>2. g[T] = Replayed(who, Latest(T), g[T \ {Latest(T)}])
      BY <1>2, <2>2 DEF IsReplay
    <3>3. g[T \ {Latest(T)}] \subseteq Good
      BY <1>4, <3>1
    <3>4. g[T] \subseteq Good
      BY <3>1, <3>2, <3>3 DEF Replayed
    <3> QED
      BY <3>4
  <2> QED
    BY <2>1, <2>2
<1> HIDE DEF Q
<1>5. M \in Q
  <2>1. IsFiniteSet(M) /\ M \in SUBSET M
    BY <1>1 DEF OpSet
  <2>2. \A T \in SUBSET M : (\A x \in T : T \ {x} \in Q) => T \in Q
    BY <1>4
  <2> HIDE DEF M
  <2>3. \A T \in SUBSET M : T \in Q
    BY <1>3, <2>1, <2>2, FiniteInduction
  <2> QED
    BY <2>1, <2>3
<1> QED
  BY <1>2, <1>5 DEF Q

(* What is read of an expense and of a settlement.                         *)
LEMMA ExpenseShown ==
  ASSUME NEW S, NEW O, O = EntitledOps(S, Build(S)), NEW e \in DOMAIN Project(S).expenses
  PROVE  /\ e \in DOMAIN LastWrites(GroupWrites(O))
         /\ e \in DOMAIN LastWrites(VersionWrites(O))
         /\ Project(S).expenses[e].group = LastWrites(GroupWrites(O))[e].value
         /\ Project(S).expenses[e].fields = LastWrites(VersionWrites(O))[e].value
<1>1. Project(S).expenses = ExpensesOf(FolderOf(O))
  BY ModelParts DEF Fold
<1> DEFINE f == FolderOf(O)
<1>2. f.expense_group = LastWrites(GroupWrites(O)) /\ f.expense_version = LastWrites(VersionWrites(O))
  BY FolderParts
<1> HIDE DEF f
<1>3. /\ e \in DOMAIN f.expense_group /\ e \in DOMAIN f.expense_version
      /\ ExpensesOf(f)[e].group = f.expense_group[e].value
      /\ ExpensesOf(f)[e].fields = f.expense_version[e].value
  BY <1>1 DEF ExpensesOf, f
<1> QED
  BY <1>1, <1>2, <1>3 DEF f

(* A settlement is what its register holds.                                *)
LEMMA SettlementShown ==
  ASSUME NEW S, NEW O, O = EntitledOps(S, Build(S)), NEW s \in DOMAIN Project(S).settlements
  PROVE  /\ s \in DOMAIN LastWrites(SettlementWrites(O))
         /\ Project(S).settlements[s] = LastWrites(SettlementWrites(O))[s].value
<1>1. Project(S).settlements = SettlementsOf(FolderOf(O))
  BY ModelParts DEF Fold
<1> DEFINE f == FolderOf(O)
<1>2. f.settlements = LastWrites(SettlementWrites(O))
  BY FolderParts
<1> HIDE DEF f
<1>3. s \in DOMAIN f.settlements /\ SettlementsOf(f)[s] = f.settlements[s].value
  BY <1>1 DEF SettlementsOf, f
<1> QED
  BY <1>1, <1>2, <1>3 DEF f

-----------------------------------------------------------------------------
(* The binding create and the register's last write.                       *)

(* The rights before the bindings decide creates as the full ones do.      *)
LEMMA MayCreateSame ==
  ASSUME NEW a, NEW b, a.aliases = b.aliases, a.devices = b.devices,
         a.friend_decls = b.friend_decls, a.membership = b.membership,
         NEW op, NEW users
  PROVE  MayCreate(a, op, users) <=> MayCreate(b, op, users)
<1>1. Actor(a, op) = Actor(b, op)
  BY ActorSame
<1>2. PartiesOf(a, users) = PartiesOf(b, users)
  BY ResolveSame DEF PartiesOf
<1> QED
  BY <1>1, <1>2 DEF MayCreate, FriendOpOk, IsFriend

Creates(S, kind) == {op \in OfKind(Live(S), kind) : MayCreate(Rights(S), op, Users(op))}

(* The creates that are bound are those that are folded.                   *)
LEMMA CreatesAgree ==
  ASSUME NEW S, NEW kind \in {"CreateExpense", "RecordSettlement"}
  PROVE  OfKind(EntitledOps(S, Build(S)), kind) = Creates(S, kind)
<1>1. ASSUME NEW op
      PROVE  MayCreate(Build(S), op, Users(op)) <=> MayCreate(Rights(S), op, Users(op))
  BY Stages, MayCreateSame
<1>2. ASSUME NEW op \in S, op.kind = kind
      PROVE  Entitled(Build(S), op) <=> op \in Live(S) /\ MayCreate(Rights(S), op, Users(op))
  <2>1. Entitled(Build(S), op) <=> /\ ~RevokedAt(Build(S).devices, op)
                                   /\ MayCreate(Build(S), op, Users(op))
    BY <1>2 DEF Entitled
  <2>2. op \in Live(S) <=> ~RevokedAt(Build(S).devices, op)
    BY Stages DEF Live, Standing
  <2> QED
    BY <1>1, <2>1, <2>2
<1>3. Live(S) \subseteq S
  BY DEF Live, Standing
<1> QED
  BY <1>2, <1>3 DEF Creates, OfKind, EntitledOps

(* No two ops of C share a reading.                                        *)
Apart(C) == \A x, y \in C : x.hlc = y.hlc => x = y

(* With distinct readings the binding create is the one read last.         *)
LEMMA BindingIsLast ==
  ASSUME NEW C, OpSet(C), Apart(C), NEW op \in C, \A x \in C : x.hlc <= op.hlc
  PROVE  BindingCreate(C) = op
<1> DEFINE Binds(b) == \A x \in C : x.hlc < b.hlc \/ (x.hlc = b.hlc /\ x.id >= b.id)
<1>1. \A x \in C : x.hlc \in Nat /\ x.id \in Int
  BY OpsHaveOrder
<1>2. \A x, y \in C : x.hlc = y.hlc => x = y
  BY DEF Apart
<1>3. Binds(op)
  BY <1>1, <1>2
<1>4. \A b \in C : Binds(b) => b = op
  BY <1>1, <1>2
<1>5. BindingCreate(C) = CHOOSE b \in C : Binds(b)
  BY DEF BindingCreate
<1> HIDE DEF Binds
<1> QED
  BY <1>3, <1>4, <1>5

(* An expense's shown context is the one it is bound to.                   *)
LEMMA ExpenseBound ==
  ASSUME NEW S, OpSet(S), NEW e \in DOMAIN Project(S).expenses,
         Apart({op \in OfKind(S, "CreateExpense") : op.expense = e})
  PROVE  /\ e \in DOMAIN Build(S).expenses
         /\ Build(S).expenses[e].group = Project(S).expenses[e].group
<1> DEFINE C == Creates(S, "CreateExpense")
           W == GroupWrites(EntitledOps(S, Build(S)))
           O == {op \in C : op.expense = e}
<1>1. OpSet(EntitledOps(S, Build(S))) /\ OpSet(O) /\ Apart(O)
  BY OpSetSubset DEF EntitledOps, Creates, Live, Standing, OfKind, Apart
<1>2. e \in DOMAIN LastWrites(W) /\ Project(S).expenses[e].group = LastWrites(W)[e].value
  BY ExpenseShown
<1>3. W = {Write(op.expense, op, op.group) : op \in C}
  BY CreatesAgree DEF GroupWrites
<1>4. Readings(W)
  BY <1>1, WritesHaveReadings
<1>5. /\ LastWrite(W, e) \in W /\ LastWrite(W, e).key = e
      /\ \A x \in W : x.key = e => x.hlc <= LastWrite(W, e).hlc
      /\ LastWrites(W)[e].value = LastWrite(W, e).value
  <2> HIDE DEF W
  <2> QED
    BY <1>2, <1>4, LastWriteExists, RegisterValue
<1>6. PICK op \in C : LastWrite(W, e) = Write(op.expense, op, op.group)
  BY <1>3, <1>5
<1>7. op.expense = e /\ LastWrite(W, e).hlc = op.hlc /\ LastWrite(W, e).value = op.group
  BY <1>5, <1>6 DEF Write
<1>8. \A x \in O : x.hlc <= op.hlc
  <2> SUFFICES ASSUME NEW x \in O PROVE x.hlc <= op.hlc
    OBVIOUS
  <2>1. Write(x.expense, x, x.group) \in W
    BY <1>3
  <2> QED
    BY <1>5, <1>7, <2>1 DEF Write
<1>9. BindingCreate(O) = op
  <2>1. op \in O
    BY <1>7
  <2> HIDE DEF O
  <2> QED
    BY <1>1, <1>8, <2>1, BindingIsLast
<1>10. /\ e \in DOMAIN Build(S).expenses
       /\ Build(S).expenses[e].group = BindingCreate(O).group
  <2>1. Build(S).expenses = Bindings(Rights(S), Live(S), "CreateExpense", LAMBDA x : x.expense)
    BY Stages
  <2> QED
    BY <1>7, <2>1 DEF Bindings, Creates
<1> QED
  BY <1>2, <1>5, <1>7, <1>9, <1>10

(* So is a settlement's.                                                   *)
LEMMA SettlementBound ==
  ASSUME NEW S, OpSet(S), NEW s \in DOMAIN Project(S).settlements,
         Apart({op \in OfKind(S, "RecordSettlement") : op.settlement = s})
  PROVE  /\ s \in DOMAIN Build(S).settlements
         /\ Build(S).settlements[s].group = Project(S).settlements[s].group
<1> DEFINE C == Creates(S, "RecordSettlement")
           W == SettlementWrites(EntitledOps(S, Build(S)))
           O == {op \in C : op.settlement = s}
<1>1. OpSet(EntitledOps(S, Build(S))) /\ OpSet(O) /\ Apart(O)
  BY OpSetSubset DEF EntitledOps, Creates, Live, Standing, OfKind, Apart
<1>2. s \in DOMAIN LastWrites(W) /\ Project(S).settlements[s] = LastWrites(W)[s].value
  BY SettlementShown
<1>3. W = {Write(op.settlement, op, SettlementData(op)) : op \in C}
  BY CreatesAgree DEF SettlementWrites
<1>4. Readings(W)
  BY <1>1, WritesHaveReadings
<1>5. /\ LastWrite(W, s) \in W /\ LastWrite(W, s).key = s
      /\ \A x \in W : x.key = s => x.hlc <= LastWrite(W, s).hlc
      /\ LastWrites(W)[s].value = LastWrite(W, s).value
  <2> HIDE DEF W
  <2> QED
    BY <1>2, <1>4, LastWriteExists, RegisterValue
<1>6. PICK op \in C : LastWrite(W, s) = Write(op.settlement, op, SettlementData(op))
  BY <1>3, <1>5
<1>7. op.settlement = s /\ LastWrite(W, s).hlc = op.hlc /\ LastWrite(W, s).value.group = op.group
  BY <1>5, <1>6 DEF Write, SettlementData
<1>8. \A x \in O : x.hlc <= op.hlc
  <2> SUFFICES ASSUME NEW x \in O PROVE x.hlc <= op.hlc
    OBVIOUS
  <2>1. Write(x.settlement, x, SettlementData(x)) \in W
    BY <1>3
  <2> QED
    BY <1>5, <1>7, <2>1 DEF Write
<1>9. BindingCreate(O) = op
  <2>1. op \in O
    BY <1>7
  <2> HIDE DEF O
  <2> QED
    BY <1>1, <1>8, <2>1, BindingIsLast
<1>10. /\ s \in DOMAIN Build(S).settlements
       /\ Build(S).settlements[s].group = BindingCreate(O).group
  <2>1. Build(S).settlements = Bindings(Rights(S), Live(S), "RecordSettlement", LAMBDA x : x.settlement)
    BY Stages
  <2> QED
    BY <1>7, <2>1 DEF Bindings, Creates
<1> QED
  BY <1>2, <1>5, <1>7, <1>9, <1>10

-----------------------------------------------------------------------------
(* Aliases: everybody in a component resolves to its smallest id.          *)

Nodes(edges) == UNION {{e[1], e[2]} : e \in edges}

Closed(edges, C) == \A e \in edges : e[1] \in C <=> e[2] \in C

(* The nodes are the ends of edges.                                        *)
LEMMA NodesAre ==
  ASSUME NEW edges
  PROVE  \A u : u \in Nodes(edges) <=> \E e \in edges : u = e[1] \/ u = e[2]
BY DEF Nodes

(* A component is the smallest closed set around its member.               *)
LEMMA InComponent ==
  ASSUME NEW edges, NEW u, NEW v
  PROVE  v \in Component(edges, u) <=>
            /\ v \in Nodes(edges)
            /\ \A C \in SUBSET Nodes(edges) : u \in C /\ Closed(edges, C) => v \in C
BY DEF Component, Nodes, Closed

(* A component is the same seen from each of its members.                  *)
LEMMA ComponentOfMember ==
  ASSUME NEW edges, NEW u \in Nodes(edges), NEW v \in Component(edges, u)
  PROVE  Component(edges, v) = Component(edges, u)
<1>1. ASSUME NEW C \in SUBSET Nodes(edges), Closed(edges, C) PROVE v \in C <=> u \in C
  <2>1. CASE u \in C
    BY <1>1, <2>1, InComponent
  <2>2. CASE u \notin C
    <3> DEFINE D1 == Nodes(edges) \ C
    <3>1. D1 \in SUBSET Nodes(edges) /\ u \in D1
      BY <2>2
    <3>2. Closed(edges, D1)
      BY <1>1, NodesAre DEF Closed
    <3>3. v \in D1
      <4> HIDE DEF D1
      <4> QED
        BY <3>1, <3>2, InComponent
    <3> QED
      BY <2>2, <3>3
  <2> QED
    BY <2>1, <2>2
<1>2. \A w : w \in Component(edges, v) <=> w \in Component(edges, u)
  BY <1>1, InComponent
<1> QED
  BY <1>2 DEF Component

(* More edges only enlarge a component.                                    *)
LEMMA ComponentGrows ==
  ASSUME NEW old, NEW new, old \subseteq new, NEW u \in Nodes(old)
  PROVE  Component(old, u) \subseteq Component(new, u)
<1> SUFFICES ASSUME NEW v \in Component(old, u) PROVE v \in Component(new, u)
  OBVIOUS
<1>1. Nodes(old) \subseteq Nodes(new)
  BY NodesAre
<1>2. v \in Nodes(old)
  BY InComponent
<1>3. ASSUME NEW C \in SUBSET Nodes(new), u \in C, Closed(new, C) PROVE v \in C
  <2> DEFINE B == C \cap Nodes(old)
  <2>1. B \in SUBSET Nodes(old) /\ u \in B
    BY <1>3
  <2>2. Closed(old, B)
    BY <1>3, NodesAre DEF Closed
  <2>3. v \in B
    <3> HIDE DEF B
    <3> QED
      BY <2>1, <2>2, InComponent
  <2> QED
    BY <2>3
<1> QED
  BY <1>1, <1>2, <1>3, InComponent

(* Edges between user ids.                                                 *)
UserEdges(edges) ==
    /\ IsFiniteSet(edges)
    /\ \A e \in edges : e[1] \in {"id", "user"} \X Nat /\ e[2] \in {"id", "user"} \X Nat

(* Among finitely many ids there is a smallest.                            *)
LEMMA SmallestExists ==
  ASSUME NEW U, IsFiniteSet(U), U # {}, U \subseteq {"id", "user"} \X Nat
  PROVE  SmallestUser(U) \in U
<1> DEFINE leq == {ab \in U \X U : SortsAtOrBefore(ab[2], ab[1])}
<1>1. \A a, b \in U : <<a, b>> \in leq <=> SortsAtOrBefore(b, a)
  OBVIOUS
<1>2. \A a \in U : a[1] \in {"id", "user"} /\ a[2] \in Nat
  OBVIOUS
<1> HIDE DEF leq
<1>3. TotalOrder(leq, U)
  BY <1>1, <1>2 DEF TotalOrder, SortsAtOrBefore
<1>4. \E m \in U : \A a \in U : <<a, m>> \in leq
  BY <1>3, GreatestExists
<1>5. \E m \in U : \A a \in U : SortsAtOrBefore(m, a)
  BY <1>1, <1>4
<1> QED
  BY <1>5 DEF SmallestUser

(* Finitely many edges have finitely many ends.                            *)
LEMMA NodesFinite ==
  ASSUME NEW edges, UserEdges(edges)
  PROVE  IsFiniteSet(Nodes(edges)) /\ Nodes(edges) \subseteq {"id", "user"} \X Nat
<1> DEFINE f1 == [e \in edges |-> e[1]]
           f2 == [e \in edges |-> e[2]]
           N1 == {f1[e] : e \in edges}
           N2 == {f2[e] : e \in edges}
<1>1. IsFiniteSet(N1) /\ IsFiniteSet(N2)
  <2> HIDE DEF f1, f2
  <2> QED
    BY FiniteImage DEF UserEdges
<1>2. Nodes(edges) = N1 \cup N2
  BY NodesAre
<1>3. Nodes(edges) \subseteq {"id", "user"} \X Nat
  BY NodesAre DEF UserEdges
<1> HIDE DEF N1, N2
<1> QED
  BY <1>1, <1>2, <1>3, FS_Union

(* What a user resolves to under some edges.                               *)
Canon(edges, u) == IF u \in Nodes(edges) THEN SmallestUser(Component(edges, u)) ELSE u

(* Resolving is looking up the smallest id of one's component,             *)
LEMMA ResolveIsCanon ==
  ASSUME NEW edges, NEW auth, auth.aliases = ResolveAliases(edges), NEW u
  PROVE  Resolve(auth, u) = Canon(edges, u)
BY DEF Resolve, ResolveAliases, Canon, Nodes

(* which belongs to the component.                                         *)
LEMMA CanonInComponent ==
  ASSUME NEW edges, UserEdges(edges), NEW u \in Nodes(edges)
  PROVE  Canon(edges, u) \in Component(edges, u)
<1>1. u \in Component(edges, u) /\ Component(edges, u) \subseteq Nodes(edges)
  BY InComponent
<1>2. IsFiniteSet(Component(edges, u)) /\ Component(edges, u) \subseteq {"id", "user"} \X Nat
  BY <1>1, NodesFinite, FS_Subset
<1> QED
  BY <1>1, <1>2, SmallestExists DEF Canon

(* More edges merge further.                                               *)
LEMMA CanonMerges ==
  ASSUME NEW old, NEW new, UserEdges(old), old \subseteq new, NEW u
  PROVE  Canon(new, Canon(old, u)) = Canon(new, u)
<1>1. CASE u \notin Nodes(old)
  BY <1>1 DEF Canon
<1>2. CASE u \in Nodes(old)
  <2> DEFINE c == Canon(old, u)
  <2>1. c \in Component(new, u)
    BY <1>2, CanonInComponent, ComponentGrows
  <2>2. u \in Nodes(new)
    BY <1>2, NodesAre
  <2> HIDE DEF c
  <2>3. c \in Nodes(new) /\ Component(new, c) = Component(new, u)
    BY <2>1, <2>2, InComponent, ComponentOfMember
  <2>4. Canon(new, c) = Canon(new, u)
    BY <2>2, <2>3 DEF Canon
  <2> QED
    BY <2>4 DEF c
<1> QED
  BY <1>1, <1>2

AliasEdges(S) ==
    {<<op.alias, op.canonical>> : op \in {o \in OfKind(Live(S), "AddAlias") :
        AliasAuthorized(RawActor(CollectDevices(S), o), o.alias, o.canonical)}}

(* The aliases of a read model come from the claims and merges in its op-  *)
(* set.                                                                    *)
LEMMA AliasesAre ==
  ASSUME NEW S
  PROVE  Project(S).aliases = ResolveAliases(AliasEdges(S))
<1>1. Project(S).aliases = Who(S).aliases
  BY ModelParts, Stages
<1> QED
  BY <1>1 DEF Who, Identities, AliasEdges, Live

(* These are finitely many edges between user ids.                         *)
LEMMA AliasEdgesOfUsers ==
  ASSUME NEW S, OpSet(S)
  PROVE  UserEdges(AliasEdges(S))
<1> DEFINE L == {o \in OfKind(Live(S), "AddAlias") :
                    AliasAuthorized(RawActor(CollectDevices(S), o), o.alias, o.canonical)}
           f == [op \in L |-> <<op.alias, op.canonical>>]
           E == AliasEdges(S)
<1>1. IsFiniteSet(L)
  BY FS_Subset DEF OpSet, OfKind, Live, Standing
<1>2. E = {f[op] : op \in L}
  BY DEF AliasEdges
<1>3. ASSUME NEW e \in E PROVE e[1] \in {"id", "user"} \X Nat /\ e[2] \in {"id", "user"} \X Nat
  <2>1. PICK op \in L : e = <<op.alias, op.canonical>>
    BY <1>3 DEF AliasEdges
  <2>2. op \in S /\ op.kind = "AddAlias"
    BY <2>1 DEF OfKind, Live, Standing
  <2>3. op.alias \in {"id", "user"} \X Nat /\ op.canonical \in {"id", "user"} \X Nat
    BY <2>2 DEF OpSet
  <2> QED
    BY <2>1, <2>3
<1>4. IsFiniteSet(E)
  <2> HIDE DEF L, f, E
  <2> QED
    BY <1>1, <1>2, FiniteImage
<1> QED
  BY <1>3, <1>4 DEF UserEdges

(* To resolve twice is to resolve once.                                    *)
LEMMA ResolvedIsResolved ==
  ASSUME NEW S, OpSet(S), NEW u
  PROVE  Resolve(Project(S), Resolve(Project(S), u)) = Resolve(Project(S), u)
<1>1. \A v : Resolve(Project(S), v) = Canon(AliasEdges(S), v)
  BY AliasesAre, ResolveIsCanon
<1>2. Canon(AliasEdges(S), Canon(AliasEdges(S), u)) = Canon(AliasEdges(S), u)
  BY AliasEdgesOfUsers, CanonMerges
<1> QED
  BY <1>1, <1>2

-----------------------------------------------------------------------------
(* Devices are made of certificates and revocations.                       *)

AuthorizedBy(certs) ==
    [d \in {op.device : op \in certs} |->
         LET cands == {[hlc |-> op.hlc, identity |-> op.identity, site |-> op.site]
                           : op \in {o \in certs : o.device = d}}
         IN  CHOOSE c \in cands : \A e \in cands : CertAtOrBefore(e, c)]

DevicesOf(certs, revokes) ==
    [authorized |-> AuthorizedBy(certs),
     revoked |-> [d \in {op.device : op \in revokes} |->
         Min({op.hlc : op \in {o \in revokes : o.device = d}})]]

(* Devices are made of what their owners signed.                           *)
LEMMA DevicesAre ==
  ASSUME NEW S
  PROVE  CollectDevices(S)
            = DevicesOf(SelfSigned(S, "AuthorizeDevice"), SelfSigned(S, "RevokeDevice"))
BY DEF CollectDevices, DevicesOf, AuthorizedBy

(* A device is revoked as of an op when some revocation is not after it.   *)
LEMMA RevokedIs ==
  ASSUME NEW S, OpSet(S), NEW op, op.hlc \in Nat
  PROVE  RevokedAt(CollectDevices(S), op) <=>
            \E r \in SelfSigned(S, "RevokeDevice") : r.device = op.author /\ r.hlc <= op.hlc
<1> DEFINE R == SelfSigned(S, "RevokeDevice")
           H == {r.hlc : r \in {o \in R : o.device = op.author}}
<1>1. /\ DOMAIN CollectDevices(S).revoked = {r.device : r \in R}
      /\ op.author \in {r.device : r \in R} => CollectDevices(S).revoked[op.author] = Min(H)
  BY DevicesAre DEF DevicesOf
<1>2. H \subseteq Nat
  BY OpsHaveOrder DEF SelfSigned, OfKind
<1>3. CASE op.author \in {r.device : r \in R}
  <2>1. H # {}
    BY <1>3
  <2>2. Min(H) \in H /\ \A h \in H : Min(H) <= h
    <3> HIDE DEF H
    <3>1. \E h \in H : \A k \in H : h <= k
      BY <1>2, <2>1, LeastNat
    <3> QED
      BY <3>1 DEF Min
  <2>3. RevokedAt(CollectDevices(S), op) <=> op.hlc >= Min(H)
    BY <1>1, <1>3 DEF RevokedAt
  <2>4. (\E h \in H : h <= op.hlc) <=> op.hlc >= Min(H)
    <3> HIDE DEF H
    <3>1. Min(H) \in Nat /\ \A h \in H : h \in Nat
      BY <1>2, <2>2
    <3> QED
      BY <2>2, <3>1
  <2> QED
    BY <2>3, <2>4
<1>4. CASE op.author \notin {r.device : r \in R}
  BY <1>1, <1>4 DEF RevokedAt
<1> QED
  BY <1>3, <1>4

-----------------------------------------------------------------------------
(* One more op: what T = S \cup {op} changes of what was decided over S.    *)

(* Only certificates and revocations concern the devices.                  *)
LEMMA OneDevices ==
  ASSUME NEW S, NEW op, op.kind \notin {"AuthorizeDevice", "RevokeDevice"},
         NEW T, T = S \cup {op}
  PROVE  /\ CollectDevices(T) = CollectDevices(S)
         /\ Live(T) = Live(S) \cup {o \in {op} : ~RevokedAt(CollectDevices(S), o)}
<1>1. /\ SelfSigned(T, "AuthorizeDevice") = SelfSigned(S, "AuthorizeDevice")
      /\ SelfSigned(T, "RevokeDevice") = SelfSigned(S, "RevokeDevice")
  BY DEF SelfSigned, OfKind
<1>2. CollectDevices(T) = CollectDevices(S)
  BY <1>1, DevicesAre
<1> QED
  BY <1>2 DEF Live, Standing

(* Of the other kinds the standing ops are the same.                       *)
LEMMA OneKind ==
  ASSUME NEW S, NEW op, op.kind \notin {"AuthorizeDevice", "RevokeDevice"},
         NEW T, T = S \cup {op}
  PROVE  /\ \A kind : kind # op.kind => OfKind(Live(T), kind) = OfKind(Live(S), kind)
         /\ op \in Live(T) => OfKind(Live(T), op.kind) = OfKind(Live(S), op.kind) \cup {op}
         /\ op \notin Live(T) => OfKind(Live(T), op.kind) = OfKind(Live(S), op.kind)
<1>1. Live(T) = Live(S) \cup {o \in {op} : ~RevokedAt(CollectDevices(S), o)}
  BY OneDevices
<1> QED
  BY <1>1 DEF OfKind

(* What changes nobody's devices and names.                                *)
Nameless(op) == op.kind \notin {"AuthorizeDevice", "RevokeDevice", "AddAlias"}

LEMMA OnePeople ==
  ASSUME NEW S, NEW op, Nameless(op), NEW T, T = S \cup {op}
  PROVE  Who(T) = Who(S)
<1>1. CollectDevices(T) = CollectDevices(S)
  BY OneDevices DEF Nameless
<1>2. OfKind(Live(T), "AddAlias") = OfKind(Live(S), "AddAlias")
  BY OneKind DEF Nameless
<1>3. AliasEdges(T) = AliasEdges(S)
  BY <1>1, <1>2 DEF AliasEdges
<1>4. ASSUME NEW X
      PROVE  Who(X) = [devices |-> CollectDevices(X), aliases |-> ResolveAliases(AliasEdges(X))]
  BY DEF Who, Identities, AliasEdges, Live
<1> QED
  BY <1>1, <1>3, <1>4

(* Friends are friends unless somebody declares it.                        *)
LEMMA OneFriends ==
  ASSUME NEW S, NEW op, Nameless(op), op.kind # "DeclareFriend", NEW T, T = S \cup {op}
  PROVE  FriendDecls(Who(T), Live(T)) = FriendDecls(Who(S), Live(S))
<1>1. OfKind(Live(T), "DeclareFriend") = OfKind(Live(S), "DeclareFriend")
  BY OneKind DEF Nameless
<1>2. Who(T) = Who(S)
  BY OnePeople
<1> QED
  BY <1>1, <1>2 DEF FriendDecls

(* No op of S names the group.                                             *)
Unnamed(S, g) ==
    \A o \in S : o.kind \in {"CreateGroup", "SetMembership", "CreateExpense", "RecordSettlement"} =>
        o.group # g

(* Groups keep their founders,                                             *)
LEMMA OneFounders ==
  ASSUME NEW S, NEW op, Nameless(op), op.kind # "CreateGroup", NEW T, T = S \cup {op}
  PROVE  Founders(Who(T), Live(T)) = Founders(Who(S), Live(S))
<1>1. OfKind(Live(T), "CreateGroup") = OfKind(Live(S), "CreateGroup")
  BY OneKind DEF Nameless
<1>2. Who(T) = Who(S)
  BY OnePeople
<1> QED
  BY <1>1, <1>2 DEF Founders

(* The first of one op is that op.                                         *)
LEMMA EarliestOfOne ==
  ASSUME NEW op, op.hlc \in Nat, op.id \in Int
  PROVE  Earliest({op}) = op
BY DEF Earliest, AtOrBefore, OrderOf

(* and a new one is founded by its creator.                                *)
LEMMA OneGroup ==
  ASSUME NEW S, NEW op, op.kind = "CreateGroup", Unnamed(S, op.group),
         op.hlc \in Nat, op.id \in Int, NEW T, T = S \cup {op}
  PROVE  LET fS == Founders(Who(S), Live(S))
             fT == Founders(Who(T), Live(T))
         IN  /\ op \in Live(T) => op.group \in DOMAIN fT /\ fT[op.group] = Actor(Who(S), op)
             /\ \A h : h # op.group => /\ h \in DOMAIN fT <=> h \in DOMAIN fS
                                       /\ fT[h] = fS[h] \/ h \notin DOMAIN fS
<1> DEFINE fS == Founders(Who(S), Live(S))
           fT == Founders(Who(T), Live(T))
           CS == OfKind(Live(S), "CreateGroup")
           CT == OfKind(Live(T), "CreateGroup")
           Of(C, h) == {o \in C : o.group = h}
<1>1. Who(T) = Who(S)
  BY OnePeople DEF Nameless
<1>2. CT = CS \/ CT = CS \cup {op}
  BY OneKind
<1>3. \A o \in CS : o.group # op.group
  BY DEF Unnamed, OfKind, Live, Standing
<1>4. /\ DOMAIN fS = {o.group : o \in CS} /\ DOMAIN fT = {o.group : o \in CT}
      /\ \A h \in DOMAIN fS : fS[h] = Actor(Who(S), Earliest(Of(CS, h)))
      /\ \A h \in DOMAIN fT : fT[h] = Actor(Who(S), Earliest(Of(CT, h)))
  BY <1>1 DEF Founders
<1>5. ASSUME NEW h, h # op.group PROVE Of(CT, h) = Of(CS, h)
  BY <1>2, <1>5
<1>6. ASSUME op \in Live(T) PROVE op \in CT /\ Of(CT, op.group) = {op}
  <2>1. CT = CS \cup {op}
    BY <1>6, OneKind
  <2> QED
    BY <1>3, <2>1
<1>7. Earliest({op}) = op
  BY EarliestOfOne
<1> HIDE DEF fS, fT, CS, CT
<1>8. ASSUME op \in Live(T) PROVE op.group \in DOMAIN fT /\ fT[op.group] = Actor(Who(S), op)
  <2>1. op \in CT /\ Of(CT, op.group) = {op}
    BY <1>6, <1>8
  <2> QED
    BY <1>4, <1>7, <2>1
<1>9. ASSUME NEW h, h # op.group
      PROVE  /\ h \in DOMAIN fT <=> h \in DOMAIN fS
             /\ fT[h] = fS[h] \/ h \notin DOMAIN fS
  <2>1. Of(CT, h) = Of(CS, h)
    BY <1>5, <1>9
  <2>2. h \in DOMAIN fT <=> h \in DOMAIN fS
    BY <1>4, <2>1
  <2> QED
    BY <1>4, <2>1, <2>2
<1> QED
  BY <1>8, <1>9 DEF fS, fT

(* Two replays of the same changes agree.                                  *)
LEMMA ReplaysAgree ==
  ASSUME NEW who, NEW founders, NEW M, OpSet(M), NEW N, M \subseteq N,
         NEW g, IsReplay(g, who, founders, M), NEW h, IsReplay(h, who, founders, N)
  PROVE  g[M] = h[M]
<1> DEFINE Q == {A \in SUBSET M : g[A] = h[A]}
<1>1. {} \in Q
  BY DEF IsReplay
<1>2. ASSUME NEW A \in SUBSET M, \A x \in A : A \ {x} \in Q PROVE A \in Q
  <2>1. CASE A = {}
    BY <1>1, <2>1
  <2>2. CASE A # {}
    <3>1. Latest(A) \in A
      BY <2>2, LatestIsLatest, OpSetSubset
    <3>2. g[A] = Replayed(who, Latest(A), g[A \ {Latest(A)}])
      BY <2>2 DEF IsReplay
    <3>3. h[A] = Replayed(who, Latest(A), h[A \ {Latest(A)}])
      BY <2>2 DEF IsReplay
    <3>4. g[A \ {Latest(A)}] = h[A \ {Latest(A)}]
      BY <1>2, <3>1
    <3> QED
      BY <3>2, <3>3, <3>4
  <2> QED
    BY <2>1, <2>2
<1> HIDE DEF Q
<1>3. \A A \in SUBSET M : (\A x \in A : A \ {x} \in Q) => A \in Q
  BY <1>2
<1>4. IsFiniteSet(M) /\ M \in SUBSET M
  BY DEF OpSet
<1>5. M \in Q
  BY <1>1, <1>3, <1>4, FiniteInduction
<1> QED
  BY <1>5 DEF Q

(* An event is a seed or a change that was granted, and the seeds are      *)
(* events.                                                                 *)
LEMMA EventsAre ==
  ASSUME NEW who, NEW founders, NEW live, OpSet(live)
  PROVE  /\ Seeds(founders) \subseteq Membership(who, founders, live)
         /\ Membership(who, founders, live)
               \subseteq Seeds(founders) \cup {Event(who, op) : op \in Changes(live)}
<1> DEFINE M == Changes(live)
           E == Seeds(founders) \cup {Event(who, op) : op \in M}
<1>1. OpSet(M)
  BY OpSetSubset DEF Changes, OfKind
<1>2. PICK g : IsReplay(g, who, founders, M) /\ Membership(who, founders, live) = g[M]
  BY MembershipIsReplay
<1> DEFINE Q == {A \in SUBSET M : Seeds(founders) \subseteq g[A] /\ g[A] \subseteq E}
<1>3. {} \in Q
  BY <1>2 DEF IsReplay
<1>4. ASSUME NEW A \in SUBSET M, \A x \in A : A \ {x} \in Q PROVE A \in Q
  <2>1. CASE A = {}
    BY <1>3, <2>1
  <2>2. CASE A # {}
    <3>1. Latest(A) \in A
      BY <1>1, <2>2, LatestIsLatest, OpSetSubset
    <3>2. g[A] = Replayed(who, Latest(A), g[A \ {Latest(A)}])
      BY <1>2, <2>2 DEF IsReplay
    <3>3. /\ Seeds(founders) \subseteq g[A \ {Latest(A)}]
          /\ g[A \ {Latest(A)}] \subseteq E
      BY <1>4, <3>1
    <3>4. Event(who, Latest(A)) \in E
      BY <3>1
    <3> HIDE DEF E
    <3> QED
      BY <3>2, <3>3, <3>4 DEF Replayed
  <2> QED
    BY <2>1, <2>2
<1>5. IsFiniteSet(M) /\ M \in SUBSET M
  BY <1>1 DEF OpSet
<1> HIDE DEF Q
<1>6. \A A \in SUBSET M : (\A x \in A : A \ {x} \in Q) => A \in Q
  BY <1>4
<1> HIDE DEF M
<1>7. M \in Q
  BY <1>3, <1>5, <1>6, FiniteInduction
<1> QED
  BY <1>2, <1>7 DEF Q, M

(* Whether somebody is in a group is a matter of the group's events.       *)
SameBut(g, m, n) == \A e : e.group # g => (e \in m <=> e \in n)

LEMMA MemberOfGroup ==
  ASSUME NEW g, NEW m, NEW n, SameBut(g, m, n), NEW h, h # g, NEW u, NEW at
  PROVE  IsMemberAsOf(m, h, u, at) <=> IsMemberAsOf(n, h, u, at)
<1> DEFINE Past(x) == {e \in x : e.group = h /\ e.user = u /\ AtOrBefore(e.at, at)}
<1>1. Past(m) = Past(n)
  BY DEF SameBut
<1>2. \A x : IsMemberAsOf(x, h, u, at)
               <=> \E e \in Past(x) : e.member /\ \A f \in Past(x) : AtOrBefore(f.at, e.at)
  BY DEF IsMemberAsOf
<1> HIDE DEF Past
<1> QED
  BY <1>1, <1>2

(* A change later than all is replayed last.                               *)
LEMMA OneChange ==
  ASSUME NEW S, OpSet(S), NEW op, op.kind = "SetMembership", \A o \in S : o.hlc < op.hlc,
         NEW T, T = S \cup {op}, OpSet(T), op \in Live(T)
  PROVE  LET mS == Membership(Who(S), Founders(Who(S), Live(S)), Live(S))
             mT == Membership(Who(T), Founders(Who(T), Live(T)), Live(T))
         IN  mT = Replayed(Who(S), op, mS)
<1> DEFINE F == Founders(Who(S), Live(S))
           MS == Changes(Live(S))
           MT == Changes(Live(T))
<1>1. Who(T) = Who(S) /\ Founders(Who(T), Live(T)) = F
  BY OnePeople, OneFounders DEF Nameless
<1>2. MT = MS \cup {op} /\ MS \subseteq S /\ MT \subseteq T
  BY OneKind DEF Changes, OfKind, Live, Standing
<1>3. OpSet(Live(S)) /\ OpSet(Live(T)) /\ OpSet(MS) /\ OpSet(MT)
  BY <1>2, OpSetSubset DEF Live, Standing
<1>4. PICK gS : IsReplay(gS, Who(S), F, MS) /\ Membership(Who(S), F, Live(S)) = gS[MS]
  BY <1>3, MembershipIsReplay
<1>5. PICK gT : IsReplay(gT, Who(S), F, MT) /\ Membership(Who(S), F, Live(T)) = gT[MT]
  BY <1>3, MembershipIsReplay
<1> HIDE DEF F, MS, MT
<1>6. gT[MS] = gS[MS]
  BY <1>2, <1>3, <1>4, <1>5, ReplaysAgree
<1>7. Latest(MT) = op
  <2>1. Latest(MT) \in MT /\ AtOrBefore(OrderOf(op), OrderOf(Latest(MT)))
    BY <1>2, <1>3, LatestIsLatest
  <2>2. op.hlc \in Nat /\ Latest(MT).hlc \in Nat
    BY <1>2, <2>1, OpsHaveOrder
  <2>3. ~(Latest(MT).hlc < op.hlc)
    BY <2>1, <2>2 DEF AtOrBefore, OrderOf
  <2> QED
    BY <1>2, <2>1, <2>3
<1>8. MT \ {op} = MS
  <2>1. op \notin S
    <3>1. op \in T
      OBVIOUS
    <3> QED
      BY <3>1, OpsHaveOrder
  <2> QED
    BY <1>2, <2>1
<1>9. gT[MT] = Replayed(Who(S), op, gT[MS])
  <2>1. MT # {} /\ MT \in SUBSET MT
    BY <1>2
  <2>2. gT[MT] = Replayed(Who(S), Latest(MT), gT[MT \ {Latest(MT)}])
    BY <1>5, <2>1 DEF IsReplay
  <2> QED
    BY <1>7, <1>8, <2>2
<1> QED
  BY <1>1, <1>4, <1>5, <1>6, <1>9 DEF F

(* What grants, admits and befriends nobody: at most it founds a group     *)
(* that no earlier op names.                                               *)
Quiet(S, op) ==
    /\ Nameless(op) /\ op.kind \notin {"DeclareFriend", "SetMembership"}
    /\ op.kind = "CreateGroup" => Unnamed(S, op.group)

Founds(op, g) == op.kind = "CreateGroup" /\ op.group = g

(* The members of all other groups are the same.                           *)
LEMMA OneMembership ==
  ASSUME NEW S, OpSet(S), NEW op, Quiet(S, op), NEW T, T = S \cup {op}, OpSet(T),
         NEW g, ~Founds(op, g), NEW u, NEW at
  PROVE  LET mS == Membership(Who(S), Founders(Who(S), Live(S)), Live(S))
             mT == Membership(Who(T), Founders(Who(T), Live(T)), Live(T))
         IN  IsMemberAsOf(mT, g, u, at) <=> IsMemberAsOf(mS, g, u, at)
<1> DEFINE fS == Founders(Who(S), Live(S))
           fT == Founders(Who(T), Live(T))
           MS == Changes(Live(S))
<1>1. Who(T) = Who(S) /\ Changes(Live(T)) = MS /\ MS \subseteq S
  <2>1. Who(T) = Who(S)
    BY OnePeople DEF Quiet
  <2>2. Changes(Live(T)) = MS
    BY OneKind DEF Quiet, Nameless, Changes
  <2>3. MS \subseteq S
    BY DEF Changes, OfKind, Live, Standing
  <2> QED
    BY <2>1, <2>2, <2>3
<1>2. OpSet(Live(S)) /\ OpSet(Live(T)) /\ OpSet(MS)
  BY <1>1, OpSetSubset DEF Live, Standing
<1>3. CASE op.kind # "CreateGroup"
  <2>1. fT = fS
    BY <1>3, OneFounders DEF Quiet
  <2>2. PICK gS : IsReplay(gS, Who(S), fS, MS) /\ Membership(Who(S), fS, Live(S)) = gS[MS]
    BY <1>2, MembershipIsReplay
  <2>3. PICK gT : IsReplay(gT, Who(S), fS, MS) /\ Membership(Who(S), fS, Live(T)) = gT[MS]
    BY <1>1, <1>2, MembershipIsReplay
  <2> HIDE DEF fS, fT, MS
  <2>4. gT[MS] = gS[MS]
    BY <1>2, <2>2, <2>3, ReplaysAgree
  <2> QED
    BY <1>1, <2>1, <2>2, <2>3, <2>4 DEF fS, fT
<1>4. CASE op.kind = "CreateGroup"
  <2> DEFINE n == op.group
  <2>1. /\ \A h : h # n => /\ h \in DOMAIN fT <=> h \in DOMAIN fS
                           /\ fT[h] = fS[h] \/ h \notin DOMAIN fS
        /\ \A o \in MS : o.group # n
    <3>1. Unnamed(S, op.group) /\ op.hlc \in Nat /\ op.id \in Int
      BY <1>4, OpsHaveOrder DEF Quiet
    <3>2. \A o \in MS : o.group # n
      BY <3>1, <1>1 DEF Unnamed, Changes, OfKind
    <3> QED
      BY <1>4, <3>1, <3>2, OneGroup
  <2>2. PICK gS : IsReplay(gS, Who(S), fS, MS) /\ Membership(Who(S), fS, Live(S)) = gS[MS]
    BY <1>2, MembershipIsReplay
  <2>3. PICK gT : IsReplay(gT, Who(S), fT, MS) /\ Membership(Who(S), fT, Live(T)) = gT[MS]
    BY <1>1, <1>2, MembershipIsReplay
  <2> HIDE DEF fS, fT, MS, n
  <2> DEFINE Q == {A \in SUBSET MS : SameBut(n, gT[A], gS[A])}
  <2>4. {} \in Q
    <3>1. gT[{}] = Seeds(fT) /\ gS[{}] = Seeds(fS)
      BY <2>2, <2>3 DEF IsReplay
    <3>2. SameBut(n, Seeds(fT), Seeds(fS))
      BY <2>1 DEF SameBut, Seeds
    <3> QED
      BY <3>1, <3>2
  <2>5. ASSUME NEW A \in SUBSET MS, \A x \in A : A \ {x} \in Q PROVE A \in Q
    <3>1. CASE A = {}
      BY <2>4, <3>1
    <3>2. CASE A # {}
      <4> DEFINE m == Latest(A)
                 B == A \ {m}
      <4>1. m \in A
        BY <1>2, <3>2, LatestIsLatest, OpSetSubset
      <4>2. /\ gS[A] = Replayed(Who(S), m, gS[B])
            /\ gT[A] = Replayed(Who(S), m, gT[B])
        BY <2>2, <2>3, <3>2 DEF IsReplay
      <4>3. SameBut(n, gT[B], gS[B])
        BY <2>5, <4>1
      <4>4. m.group # n
        BY <2>1, <4>1
      <4> HIDE DEF m, B
      <4>5. IsMemberAsOf(gT[B], m.group, Actor(Who(S), m), OrderOf(m))
              <=> IsMemberAsOf(gS[B], m.group, Actor(Who(S), m), OrderOf(m))
        BY <4>3, <4>4, MemberOfGroup
      <4>6. SameBut(n, gT[A], gS[A])
        BY <4>2, <4>3, <4>5 DEF Replayed, SameBut
      <4> QED
        BY <4>6
    <3> QED
      BY <3>1, <3>2
  <2>6. IsFiniteSet(MS) /\ MS \in SUBSET MS
    BY <1>2 DEF OpSet
  <2>7. \A A \in SUBSET MS : (\A x \in A : A \ {x} \in Q) => A \in Q
    BY <2>5
  <2>8. SameBut(n, gT[MS], gS[MS])
    <3> HIDE DEF Q
    <3>1. MS \in Q
      BY <2>4, <2>6, <2>7, FiniteInduction
    <3> QED
      BY <3>1 DEF Q
  <2>9. g # n
    BY <1>4 DEF Founds, n
  <2>10. IsMemberAsOf(gT[MS], g, u, at) <=> IsMemberAsOf(gS[MS], g, u, at)
    BY <2>8, <2>9, MemberOfGroup
  <2> QED
    BY <1>1, <2>2, <2>3, <2>10 DEF fS, fT
<1> QED
  BY <1>3, <1>4

(* So is what they may do there, and who they are.                         *)
LEMMA OneRights ==
  ASSUME NEW S, OpSet(S), NEW op, Quiet(S, op), NEW T, T = S \cup {op}, OpSet(T)
  PROVE  /\ \A o : Actor(Rights(T), o) = Actor(Rights(S), o)
         /\ \A u : Resolve(Rights(T), u) = Resolve(Rights(S), u)
         /\ \A users : PartiesOf(Rights(T), users) = PartiesOf(Rights(S), users)
         /\ \A a, ps : FriendOpOk(Rights(T), a, ps) <=> FriendOpOk(Rights(S), a, ps)
         /\ \A g, u, at : ~Founds(op, g) =>
               (IsMemberAsOf(Rights(T).membership, g, u, at)
                  <=> IsMemberAsOf(Rights(S).membership, g, u, at))
<1>1. Who(T) = Who(S)
  BY OnePeople DEF Quiet
<1>2. ASSUME NEW X
      PROVE  /\ Rights(X).aliases = Who(X).aliases
             /\ Rights(X).devices = Who(X).devices
             /\ Rights(X).friend_decls = FriendDecls(Who(X), Live(X))
             /\ Rights(X).membership = Membership(Who(X), Founders(Who(X), Live(X)), Live(X))
  BY Stages
<1>3. Rights(T).friend_decls = Rights(S).friend_decls
  BY <1>2, OneFriends DEF Quiet
<1>4. ASSUME NEW u PROVE Resolve(Rights(T), u) = Resolve(Rights(S), u)
  BY <1>1, <1>2, ResolveSame
<1>5. ASSUME NEW o PROVE Actor(Rights(T), o) = Actor(Rights(S), o)
  BY <1>1, <1>2, ActorSame
<1>6. ASSUME NEW users PROVE PartiesOf(Rights(T), users) = PartiesOf(Rights(S), users)
  BY <1>4 DEF PartiesOf
<1>7. ASSUME NEW a, NEW ps PROVE FriendOpOk(Rights(T), a, ps) <=> FriendOpOk(Rights(S), a, ps)
  BY <1>3 DEF FriendOpOk, IsFriend
<1>8. ASSUME NEW g, NEW u, NEW at, ~Founds(op, g)
      PROVE  IsMemberAsOf(Rights(T).membership, g, u, at)
                <=> IsMemberAsOf(Rights(S).membership, g, u, at)
  BY <1>2, <1>8, OneMembership
<1> QED
  BY <1>4, <1>5, <1>6, <1>7, <1>8

(* A group that no op names is no context of any.                          *)
LEMMA NotFounded ==
  ASSUME NEW S, NEW op, Quiet(S, op), NEW o \in S,
         o.kind \in {"CreateExpense", "RecordSettlement"}
  PROVE  ~Founds(op, o.group)
BY DEF Quiet, Founds, Unnamed

-----------------------------------------------------------------------------
(* Devices are shown with what one of their certificates says.             *)
CertsNumbered(S) ==
    \A c \in SelfSigned(S, "AuthorizeDevice") : c.identity \in Nat /\ c.site \in Nat

(* Of the certificates for a device one is the last.                       *)
LEMMA LastCertificate ==
  ASSUME NEW S, OpSet(S), CertsNumbered(S), NEW certs, certs = SelfSigned(S, "AuthorizeDevice"),
         NEW d \in {c.device : c \in certs}
  PROVE  \E c \in certs :
            /\ c.device = d
            /\ AuthorizedBy(certs)[d] = [hlc |-> c.hlc, identity |-> c.identity, site |-> c.site]
<1>1. /\ IsFiniteSet(certs)
      /\ \A c \in certs : c.hlc \in Nat /\ c.identity \in Nat /\ c.site \in Nat
  <2>1. certs \subseteq S
    BY DEF SelfSigned, OfKind
  <2>2. IsFiniteSet(certs)
    BY <2>1, FS_Subset DEF OpSet
  <2> QED
    BY <2>1, <2>2 DEF OpSet, CertsNumbered
<1> DEFINE tuple == [c \in certs |-> [hlc |-> c.hlc, identity |-> c.identity, site |-> c.site]]
           its == {c \in certs : c.device = d}
           cands == {tuple[c] : c \in its}
           leq == {q \in cands \X cands : CertAtOrBefore(q[1], q[2])}
<1>2. AuthorizedBy(certs)[d] = CHOOSE c \in cands : \A e \in cands : CertAtOrBefore(e, c)
  <2>1. cands = {[hlc |-> op.hlc, identity |-> op.identity, site |-> op.site]
                    : op \in {o \in certs : o.device = d}}
    OBVIOUS
  <2>2. AuthorizedBy(certs)[d]
          = LET cs == {[hlc |-> op.hlc, identity |-> op.identity, site |-> op.site]
                          : op \in {o \in certs : o.device = d}}
            IN  CHOOSE c \in cs : \A e \in cs : CertAtOrBefore(e, c)
    BY DEF AuthorizedBy
  <2> QED
    BY <2>1, <2>2
<1>3. cands # {} /\ IsFiniteSet(cands)
  <2>1. its # {} /\ IsFiniteSet(its)
    BY <1>1, FS_Subset
  <2> HIDE DEF its, tuple
  <2> QED
    BY <2>1, FiniteImage
<1>4. \A e \in cands : e.hlc \in Nat /\ e.identity \in Nat /\ e.site \in Nat
  BY <1>1
<1>5. \A e \in cands : \E c \in certs :
         c.device = d /\ e = [hlc |-> c.hlc, identity |-> c.identity, site |-> c.site]
  OBVIOUS
<1>6. \A x, y \in cands : <<x, y>> \in leq <=> CertAtOrBefore(x, y)
  OBVIOUS
<1> HIDE DEF cands, leq
<1>7. TotalOrder(leq, cands)
  BY <1>4, <1>6 DEF TotalOrder, CertAtOrBefore
<1>8. \E m \in cands : \A x \in cands : <<x, m>> \in leq
  BY <1>3, <1>7, GreatestExists
<1>9. AuthorizedBy(certs)[d] \in cands
  BY <1>2, <1>6, <1>8
<1> QED
  BY <1>5, <1>9

(* What is shown of a device is its certificate's.                         *)
LEMMA DevicesShown ==
  ASSUME NEW S, OpSet(S), CertsNumbered(S)
  PROVE  /\ DOMAIN Project(S).devices = {c.device : c \in SelfSigned(S, "AuthorizeDevice")}
         /\ \A d \in DOMAIN Project(S).devices :
               /\ \E c \in SelfSigned(S, "AuthorizeDevice") :
                     c.device = d /\ Project(S).devices[d].identity = c.identity
               /\ Project(S).devices[d].identity = IdentityOf(CollectDevices(S), d)
               /\ Project(S).devices[d].revoked
                     <=> \E r \in SelfSigned(S, "RevokeDevice") : r.device = d
<1> DEFINE certs == SelfSigned(S, "AuthorizeDevice")
           revokes == SelfSigned(S, "RevokeDevice")
           devs == CollectDevices(S)
<1>1. devs = DevicesOf(certs, revokes)
  BY DevicesAre
<1>2. /\ devs.authorized = AuthorizedBy(certs)
      /\ DOMAIN devs.revoked = {r.device : r \in revokes}
  BY <1>1 DEF DevicesOf
<1>3. Project(S).devices = DeviceRecords(Build(S)) /\ Build(S).devices = devs
  BY Stages DEF Project, ReadModel, Assemble
<1>4. /\ DOMAIN Project(S).devices = DOMAIN devs.authorized
      /\ \A d \in DOMAIN devs.authorized :
            /\ Project(S).devices[d].identity = devs.authorized[d].identity
            /\ Project(S).devices[d].revoked = (d \in DOMAIN devs.revoked)
  <2> DEFINE auth == Build(S)
             records == [d \in DOMAIN auth.devices.authorized |->
                            [identity |-> auth.devices.authorized[d].identity,
                             site     |-> auth.devices.authorized[d].site,
                             revoked  |-> d \in DOMAIN auth.devices.revoked]]
  <2>1. Project(S).devices = records
    BY <1>3 DEF DeviceRecords
  <2>2. \A d \in DOMAIN devs.authorized : records[d].revoked = (d \in DOMAIN devs.revoked)
    BY <1>3
  <2>3. /\ DOMAIN records = DOMAIN devs.authorized
        /\ \A d \in DOMAIN devs.authorized : records[d].identity = devs.authorized[d].identity
    BY <1>3
  <2> HIDE DEF records
  <2> QED
    BY <2>1, <2>2, <2>3
<1>5. certs = SelfSigned(S, "AuthorizeDevice")
  OBVIOUS
<1> HIDE DEF certs, revokes, devs
<1>6. ASSUME NEW d \in {c.device : c \in certs}
      PROVE  \E c \in certs : c.device = d /\ AuthorizedBy(certs)[d].identity = c.identity
  <2>1. PICK c \in certs :
          /\ c.device = d
          /\ AuthorizedBy(certs)[d] = [hlc |-> c.hlc, identity |-> c.identity, site |-> c.site]
    BY <1>5, LastCertificate
  <2> QED
    BY <2>1
<1>7. DOMAIN AuthorizedBy(certs) = {c.device : c \in certs}
  BY DEF AuthorizedBy
<1>8. DOMAIN Project(S).devices = {c.device : c \in certs}
  BY <1>2, <1>4, <1>7
<1>9. \A d \in DOMAIN Project(S).devices :
         \E c \in certs : c.device = d /\ Project(S).devices[d].identity = c.identity
  BY <1>2, <1>4, <1>6, <1>8
<1>10. \A d \in DOMAIN Project(S).devices :
          Project(S).devices[d].identity = IdentityOf(devs, d)
  BY <1>4 DEF IdentityOf
<1>11. \A d \in DOMAIN Project(S).devices :
          Project(S).devices[d].revoked <=> \E r \in revokes : r.device = d
  <2> SUFFICES ASSUME NEW d \in DOMAIN Project(S).devices
               PROVE  Project(S).devices[d].revoked <=> \E r \in revokes : r.device = d
    OBVIOUS
  <2>1. Project(S).devices[d].revoked = (d \in DOMAIN devs.revoked)
    BY <1>4
  <2>2. d \in DOMAIN devs.revoked <=> \E r \in revokes : r.device = d
    BY <1>2
  <2> QED
    BY <2>1, <2>2
<1> QED
  BY <1>8, <1>9, <1>10, <1>11 DEF certs, revokes, devs

(* Groups are shown once they are created, with their members.             *)
LEMMA GroupsShown ==
  ASSUME NEW S, NEW O, O = EntitledOps(S, Build(S))
  PROVE  /\ DOMAIN Project(S).groups = Created(O)
         /\ \A g \in DOMAIN Project(S).groups :
               /\ \E op \in S : op.kind = "CreateGroup" /\ op.group = g
               /\ Project(S).groups[g].members = CurrentMembers(Build(S), g)
               /\ Project(S).groups[g].closed_until_ms
                     = ValueOr(LastWrites(ClosedWrites(O)), g, 0)
<1> DEFINE auth == Build(S)
           f == FolderOf(O)
           shown == [g \in f.group_created |->
                        [name            |-> ValueOr(f.group_name, g, ""),
                         currency        |-> ValueOr(f.group_currency, g, DefaultCurrency),
                         members         |-> CurrentMembers(auth, g),
                         closed_until_ms |-> ValueOr(f.group_closed_until, g, 0)]]
<1>1. Project(S).groups = shown
  BY DEF Project, ReadModel, Assemble
<1>2. f.group_created = Created(O) /\ f.group_closed_until = LastWrites(ClosedWrites(O))
  BY DEF FolderOf
<1>3. \A g \in Created(O) : \E op \in S : op.kind = "CreateGroup" /\ op.group = g
  BY DEF Created, EntitledOps, OfKind
<1> HIDE DEF f, auth
<1>4. /\ DOMAIN shown = Created(O)
      /\ \A g \in Created(O) : /\ shown[g].members = CurrentMembers(auth, g)
                               /\ shown[g].closed_until_ms = ValueOr(f.group_closed_until, g, 0)
  BY <1>2
<1> HIDE DEF shown
<1> QED
  BY <1>1, <1>2, <1>3, <1>4 DEF auth

-----------------------------------------------------------------------------
(* Members and founders.                                                   *)

(* The events of a ledger are finitely many and ordered.                   *)
LEMMA EventsOrdered ==
  ASSUME NEW S, OpSet(S)
  PROVE  /\ IsFiniteSet(Build(S).membership)
         /\ \A e \in Build(S).membership : e.at[1] \in Nat /\ e.at[2] \in Int
<1> DEFINE who == Who(S)
           F == Founders(Who(S), Live(S))
           M == Changes(Live(S))
           seed == [g \in DOMAIN F |->
                      [group |-> g, user |-> F[g], at |-> MinOrder, member |-> TRUE]]
           event == [op \in M |-> Event(who, op)]
           C == OfKind(Live(S), "CreateGroup")
           group == [op \in C |-> op.group]
<1>1. OpSet(Live(S)) /\ OpSet(M) /\ OpSet(C)
  BY OpSetSubset DEF Changes, OfKind, Live, Standing
<1>2. Build(S).membership \subseteq Seeds(F) \cup {Event(who, op) : op \in M}
  BY <1>1, Stages, EventsAre
<1>3. IsFiniteSet(Seeds(F))
  <2>1. DOMAIN F = {group[op] : op \in C}
    BY DEF Founders
  <2>2. IsFiniteSet(DOMAIN F)
    <3> HIDE DEF C, group, F
    <3> QED
      BY <1>1, <2>1, FiniteImage DEF OpSet
  <2>3. Seeds(F) = {seed[g] : g \in DOMAIN F}
    BY DEF Seeds
  <2> HIDE DEF F, seed
  <2> QED
    BY <2>2, <2>3, FiniteImage
<1>4. IsFiniteSet({Event(who, op) : op \in M})
  <2> DEFINE W == {Event(who, op) : op \in M}
  <2>1. IsFiniteSet(M)
    BY <1>1 DEF OpSet
  <2> HIDE DEF M, who
  <2>2. W = {event[op] : op \in M}
    OBVIOUS
  <2> HIDE DEF event, W
  <2>3. IsFiniteSet(W)
    BY <2>1, <2>2, FiniteImage
  <2> QED
    BY <2>3 DEF W
<1>5. \A e \in Seeds(F) : e.at[1] \in Nat /\ e.at[2] \in Int
  BY DEF Seeds, MinOrder
<1>6. \A op \in M : Event(who, op).at[1] \in Nat /\ Event(who, op).at[2] \in Int
  <2> SUFFICES ASSUME NEW op \in M
               PROVE  Event(who, op).at[1] \in Nat /\ Event(who, op).at[2] \in Int
    OBVIOUS
  <2>1. op.hlc \in Nat /\ op.id \in Int
    BY <1>1, OpsHaveOrder
  <2> QED
    BY <2>1 DEF Event, OrderOf
<1> HIDE DEF F, M, who
<1>7. IsFiniteSet(Build(S).membership)
  BY <1>2, <1>3, <1>4, FS_Union, FS_Subset
<1> QED
  BY <1>2, <1>5, <1>6, <1>7

(* Of some of them one is the latest.                                      *)
LEMMA LatestEvent ==
  ASSUME NEW S, OpSet(S), NEW E, E \subseteq Build(S).membership, E # {}
  PROVE  \E e \in E : \A f \in E : AtOrBefore(f.at, e.at)
<1> DEFINE leq == {q \in E \X E : AtOrBefore(q[1].at, q[2].at)}
<1>1. IsFiniteSet(E) /\ \A e \in E : e.at[1] \in Nat /\ e.at[2] \in Int
  BY EventsOrdered, FS_Subset
<1>2. \A x, y \in E : <<x, y>> \in leq <=> AtOrBefore(x.at, y.at)
  OBVIOUS
<1> HIDE DEF leq
<1>3. TotalOrder(leq, E)
  BY <1>1, <1>2 DEF TotalOrder, AtOrBefore
<1>4. \E m \in E : \A x \in E : <<x, m>> \in leq
  BY <1>1, <1>3, GreatestExists
<1> QED
  BY <1>2, <1>4

(* The founder is a member as long as nobody is removed,                   *)
LEMMA FounderStays ==
  ASSUME NEW S, OpSet(S), NEW g \in DOMAIN Build(S).founders,
         \A o \in S : o.kind = "SetMembership" /\ o.group = g => o.member
  PROVE  /\ Build(S).founders[g] \in CurrentMembers(Build(S), g)
         /\ \A at : at[1] \in Nat \ {0} =>
               IsMemberAsOf(Build(S).membership, g, Build(S).founders[g], at)
<1> DEFINE F == Founders(Who(S), Live(S))
           M == Build(S).membership
           u == F[g]
           seed == [group |-> g, user |-> u, at |-> MinOrder, member |-> TRUE]
<1>1. Build(S).founders = F /\ M = Membership(Who(S), F, Live(S))
  BY Stages
<1>2. OpSet(Live(S)) /\ Live(S) \subseteq S
  BY OpSetSubset DEF Live, Standing
<1>3. seed \in M
  <2>1. seed \in Seeds(F)
    BY <1>1 DEF Seeds
  <2> QED
    BY <1>1, <1>2, <2>1, EventsAre
<1>4. \A e \in M : e.group = g => e.member
  <2>1. M \subseteq Seeds(F) \cup {Event(Who(S), op) : op \in Changes(Live(S))}
    BY <1>1, <1>2, EventsAre
  <2>2. \A e \in Seeds(F) : e.member
    BY DEF Seeds
  <2>3. \A op \in Changes(Live(S)) :
           LET e == Event(Who(S), op) IN e.group = g => e.member
    BY <1>2 DEF Event, Changes, OfKind
  <2> HIDE DEF M, F
  <2> QED
    BY <2>1, <2>2, <2>3
<1>5. seed.group = g /\ seed.user = u /\ seed.at = MinOrder
  OBVIOUS
<1> HIDE DEF seed, u
<1>6. u \in CurrentMembers(Build(S), g)
  <2> DEFINE E == {e \in M : e.group = g /\ e.user = u}
  <2>1. E \subseteq M /\ E # {}
    BY <1>3, <1>5
  <2>2. PICK e \in E : \A f \in E : AtOrBefore(f.at, e.at)
    BY <2>1, LatestEvent
  <2>3. e \in M /\ e.group = g /\ e.user = u /\ e.member
        /\ \A f \in M : f.group = g /\ f.user = u => AtOrBefore(f.at, e.at)
    BY <1>4, <2>2
  <2> QED
    BY <2>3 DEF CurrentMembers
<1>7. ASSUME NEW at, at[1] \in Nat \ {0} PROVE IsMemberAsOf(M, g, u, at)
  <2> DEFINE E == {e \in M : e.group = g /\ e.user = u /\ AtOrBefore(e.at, at)}
  <2>1. AtOrBefore(seed.at, at)
    BY <1>5, <1>7 DEF MinOrder, AtOrBefore
  <2>2. E \subseteq M /\ E # {}
    BY <1>3, <1>5, <2>1
  <2>3. PICK e \in E : \A f \in E : AtOrBefore(f.at, e.at)
    BY <2>2, LatestEvent
  <2>4. e.member
    BY <1>4
  <2> QED
    BY <2>3, <2>4 DEF IsMemberAsOf
<1> QED
  BY <1>1, <1>6, <1>7 DEF u

(* and the only op that creates a group founds it.                         *)
LEMMA FoundedAlone ==
  ASSUME NEW S, OpSet(S), NEW op \in Live(S), op.kind = "CreateGroup",
         \A o \in S : o.kind = "CreateGroup" /\ o.group = op.group => o = op
  PROVE  /\ op.group \in DOMAIN Build(S).founders
         /\ Build(S).founders[op.group] = Actor(Build(S), op)
         /\ op.group \in DOMAIN Project(S).groups
<1> DEFINE F == Founders(Who(S), Live(S))
           C == OfKind(Live(S), "CreateGroup")
           auth == Build(S)
<1>1. Live(S) \subseteq S /\ op.hlc \in Nat /\ op.id \in Int
  BY OpsHaveOrder DEF Live, Standing
<1>2. op \in C /\ {o \in C : o.group = op.group} = {op}
  BY <1>1 DEF OfKind
<1>3. op.group \in DOMAIN F /\ F[op.group] = Actor(Who(S), op)
  BY <1>1, <1>2, EarliestOfOne DEF Founders
<1>4. auth.founders = F /\ Actor(auth, op) = Actor(Who(S), op)
  BY Stages, ActorSame
<1>5. ~RevokedAt(auth.devices, op)
  BY Stages DEF Live, Standing
<1>6. Entitled(auth, op)
  <2> HIDE DEF auth, F
  <2> QED
    BY <1>3, <1>4, <1>5 DEF Entitled
<1>7. op \in EntitledOps(S, auth) /\ op \in OfKind(EntitledOps(S, auth), "CreateGroup")
  BY <1>1, <1>6 DEF EntitledOps, OfKind
<1>8. op.group \in Created(EntitledOps(S, auth))
  BY <1>7 DEF Created
<1> QED
  BY <1>3, <1>4, <1>8, GroupsShown

(* A member goes by the name he resolves to, and is a member as of any     *)
(* reading later than all.                                                 *)
LEMMA MembersAct ==
  ASSUME NEW S, OpSet(S), NEW g, NEW u \in CurrentMembers(Build(S), g)
  PROVE  /\ Resolve(Build(S), u) = u
         /\ \A at : at[1] \in Nat /\ (\A o \in S : o.hlc < at[1]) =>
               IsMemberAsOf(Build(S).membership, g, u, at)
<1> DEFINE who == Who(S)
           F == Founders(who, Live(S))
           M == Build(S).membership
           N == Changes(Live(S))
<1>1. /\ OpSet(Live(S)) /\ N \subseteq S /\ Live(S) \subseteq S
      /\ M = Membership(who, F, Live(S)) /\ Build(S).aliases = who.aliases
  BY Stages, OpSetSubset DEF Changes, OfKind, Live, Standing
<1>2. PICK e \in M : /\ e.group = g /\ e.user = u /\ e.member
                     /\ \A f \in M : f.group = g /\ f.user = u => AtOrBefore(f.at, e.at)
  BY DEF CurrentMembers
<1>3. M \subseteq Seeds(F) \cup {Event(who, op) : op \in N}
  BY <1>1, EventsAre
<1>4. /\ \A h \in DOMAIN F : \E v : F[h] = Resolve(who, v)
      /\ DOMAIN F \subseteq {op.group : op \in S}
  BY <1>1 DEF Founders, Actor, OfKind
<1>5. \A f \in Seeds(F) : f.at = MinOrder /\ f.group \in DOMAIN F /\ f.user = F[f.group]
  BY DEF Seeds
<1>6. \A f \in {Event(who, op) : op \in N} : \E o \in S :
         f.at = OrderOf(o) /\ f.user = Resolve(who, o.user)
  BY <1>1 DEF Event
<1> HIDE DEF F, M, N
<1>7. Resolve(Build(S), u) = u
  <2>1. \E v : u = Resolve(who, v)
    BY <1>2, <1>3, <1>4, <1>5, <1>6
  <2>2. Project(S).aliases = Build(S).aliases
    BY ModelParts
  <2>3. \A v : /\ Resolve(Build(S), v) = Resolve(Project(S), v)
               /\ Resolve(who, v) = Resolve(Project(S), v)
    BY <1>1, <2>2, ResolveSame
  <2> HIDE DEF who
  <2> QED
    BY <2>1, <2>3, ResolvedIsResolved
<1>8. ASSUME NEW at, at[1] \in Nat, \A o \in S : o.hlc < at[1]
      PROVE  IsMemberAsOf(M, g, u, at)
  <2>1. \E o \in S : TRUE
    BY <1>2, <1>3, <1>4, <1>5, <1>6
  <2>2. at[1] > 0 /\ \A o \in S : AtOrBefore(OrderOf(o), at)
    BY <1>8, <2>1, OpsHaveOrder DEF AtOrBefore, OrderOf
  <2>3. AtOrBefore(MinOrder, at)
    BY <1>8, <2>2 DEF AtOrBefore, MinOrder
  <2>4. \A f \in M : AtOrBefore(f.at, at)
    BY <1>3, <1>5, <1>6, <2>2, <2>3
  <2> QED
    BY <1>2, <2>4 DEF IsMemberAsOf
<1> QED
  BY <1>7, <1>8 DEF M

-----------------------------------------------------------------------------
(* What a quiet op leaves of an expense it does not create.                *)

Makes(op, e) == op.kind = "CreateExpense" /\ op.expense = e

Amending == {"EditExpense", "PublishExpense", "VoidExpense", "SetExpenseLock"}

(* Its creates are the same,                                               *)
LEMMA OneCreates ==
  ASSUME NEW S, OpSet(S), NEW op, Quiet(S, op), NEW T, T = S \cup {op}, OpSet(T),
         NEW e, ~Makes(op, e)
  PROVE  {o \in Creates(T, "CreateExpense") : o.expense = e}
            = {o \in Creates(S, "CreateExpense") : o.expense = e}
<1> DEFINE K(X) == OfKind(Live(X), "CreateExpense")
<1>1. K(S) \subseteq S /\ \A o \in K(S) : o.kind = "CreateExpense"
  BY DEF OfKind, Live, Standing
<1>2. K(T) = K(S) \/ (K(T) = K(S) \cup {op} /\ op.kind = "CreateExpense")
  <2>1. op.kind \notin {"AuthorizeDevice", "RevokeDevice"}
    BY DEF Quiet, Nameless
  <2> QED
    BY <2>1, OneKind
<1>3. ASSUME NEW o \in K(S)
      PROVE  MayCreate(Rights(T), o, Users(o)) <=> MayCreate(Rights(S), o, Users(o))
  <2>1. ~Founds(op, o.group)
    BY <1>1, NotFounded
  <2>2. /\ Actor(Rights(T), o) = Actor(Rights(S), o)
        /\ PartiesOf(Rights(T), Users(o)) = PartiesOf(Rights(S), Users(o))
        /\ \A a, ps : FriendOpOk(Rights(T), a, ps) <=> FriendOpOk(Rights(S), a, ps)
        /\ \A u, at : IsMemberAsOf(Rights(T).membership, o.group, u, at)
                         <=> IsMemberAsOf(Rights(S).membership, o.group, u, at)
    BY <2>1, OneRights
  <2> QED
    BY <2>2 DEF MayCreate
<1>4. \A X : Creates(X, "CreateExpense")
                = {o \in K(X) : MayCreate(Rights(X), o, Users(o))}
  BY DEF Creates
<1> HIDE DEF K
<1>5. \A o \in K(T) : o.expense = e => o \in K(S)
  BY <1>2 DEF Makes
<1>6. K(S) \subseteq K(T)
  BY <1>2
<1> QED
  BY <1>3, <1>4, <1>5, <1>6

(* A binding create is one of the creates.                                 *)
LEMMA BindingIn ==
  ASSUME NEW C, OpSet(C), C # {}
  PROVE  BindingCreate(C) \in C
<1> DEFINE before == {q \in C \X C : q[1].hlc < q[2].hlc
                                      \/ (q[1].hlc = q[2].hlc /\ q[1].id >= q[2].id)}
<1>1. \A x, y \in C : <<x, y>> \in before
                         <=> x.hlc < y.hlc \/ (x.hlc = y.hlc /\ x.id >= y.id)
  OBVIOUS
<1>2. \A x \in C : x.hlc \in Nat /\ x.id \in Int
  BY OpsHaveOrder
<1> HIDE DEF before
<1>3. TotalOrder(before, C)
  BY <1>1, <1>2 DEF TotalOrder
<1>4. \E m \in C : \A x \in C : <<x, m>> \in before
  BY <1>3, GreatestExists DEF OpSet
<1> QED
  BY <1>1, <1>4 DEF BindingCreate

(* so is what it is bound to,                                              *)
LEMMA OneBinding ==
  ASSUME NEW S, OpSet(S), NEW op, Quiet(S, op), NEW T, T = S \cup {op}, OpSet(T),
         NEW e, ~Makes(op, e)
  PROVE  /\ e \in DOMAIN Build(T).expenses <=> e \in DOMAIN Build(S).expenses
         /\ e \in DOMAIN Build(S).expenses => Build(T).expenses[e] = Build(S).expenses[e]
<1> DEFINE Of(X) == {o \in Creates(X, "CreateExpense") : o.expense = e}
           Bound(X) == [group |-> BindingCreate(Of(X)).group,
                        parties |-> PartiesOf(Rights(X), Users(BindingCreate(Of(X))))]
<1>1. ASSUME NEW X
      PROVE  /\ e \in DOMAIN Build(X).expenses <=> Of(X) # {}
             /\ e \in DOMAIN Build(X).expenses => Build(X).expenses[e] = Bound(X)
  <2>1. Build(X).expenses = Bindings(Rights(X), Live(X), "CreateExpense", LAMBDA x : x.expense)
    BY Stages
  <2> QED
    BY <2>1 DEF Bindings, Creates
<1>2. Of(T) = Of(S)
  BY OneCreates
<1>3. \A users : PartiesOf(Rights(T), users) = PartiesOf(Rights(S), users)
  BY OneRights
<1>4. Bound(T) = Bound(S)
  BY <1>2, <1>3
<1> HIDE DEF Of, Bound
<1> QED
  BY <1>1, <1>2, <1>4

(* and so are the ops that count on it.                                    *)
LEMMA OneEntitled ==
  ASSUME NEW S, OpSet(S), NEW op, Quiet(S, op), NEW T, T = S \cup {op}, OpSet(T),
         NEW e, ~Makes(op, e), NEW o \in S, o.kind \in Amending, o.expense = e
  PROVE  Entitled(Build(T), o) <=> Entitled(Build(S), o)
<1>1. ASSUME NEW X
      PROVE  Entitled(Build(X), o) <=>
                /\ ~RevokedAt(CollectDevices(X), o)
                /\ EntityEntitled(Build(X), Build(X).expenses, e, o)
  BY Stages DEF Entitled, Amending
<1>2. CollectDevices(T) = CollectDevices(S)
  BY OneDevices DEF Quiet, Nameless
<1>3. ASSUME NEW X
      PROVE  /\ Actor(Build(X), o) = Actor(Rights(X), o)
             /\ Build(X).membership = Rights(X).membership
             /\ \A a, ps : FriendOpOk(Build(X), a, ps) <=> FriendOpOk(Rights(X), a, ps)
  <2>1. Build(X).friend_decls = Rights(X).friend_decls
    BY Stages
  <2> QED
    BY <2>1, Stages, ActorSame DEF FriendOpOk, IsFriend
<1>4. ASSUME NEW X
      PROVE  EntityEntitled(Build(X), Build(X).expenses, e, o) <=>
                /\ e \in DOMAIN Build(X).expenses
                /\ LET bound == Build(X).expenses[e]
                   IN  IF bound.group = NoGroup
                       THEN FriendOpOk(Rights(X), Actor(Rights(X), o), bound.parties)
                       ELSE IsMemberAsOf(Rights(X).membership, bound.group,
                                         Actor(Rights(X), o), OrderOf(o))
  BY <1>3 DEF EntityEntitled
<1>5. ASSUME e \in DOMAIN Build(S).expenses
      PROVE  ~Founds(op, Build(S).expenses[e].group)
  <2> DEFINE Of == {c \in Creates(S, "CreateExpense") : c.expense = e}
  <2>1. Of # {} /\ Build(S).expenses[e].group = BindingCreate(Of).group
    <3>1. Build(S).expenses = Bindings(Rights(S), Live(S), "CreateExpense", LAMBDA x : x.expense)
      BY Stages
    <3> QED
      BY <1>5, <3>1 DEF Bindings, Creates
  <2>2. OpSet(Of) /\ Of \subseteq S /\ \A c \in Of : c.kind = "CreateExpense"
    BY OpSetSubset DEF Creates, OfKind, Live, Standing
  <2> HIDE DEF Of
  <2>3. BindingCreate(Of) \in Of
    BY <2>1, <2>2, BindingIn
  <2> QED
    BY <2>1, <2>2, <2>3, NotFounded
<1>6. /\ e \in DOMAIN Build(T).expenses <=> e \in DOMAIN Build(S).expenses
      /\ e \in DOMAIN Build(S).expenses => Build(T).expenses[e] = Build(S).expenses[e]
  BY OneBinding
<1>7. /\ Actor(Rights(T), o) = Actor(Rights(S), o)
      /\ \A a, ps : FriendOpOk(Rights(T), a, ps) <=> FriendOpOk(Rights(S), a, ps)
      /\ \A g, u, at : ~Founds(op, g) =>
            (IsMemberAsOf(Rights(T).membership, g, u, at)
               <=> IsMemberAsOf(Rights(S).membership, g, u, at))
  BY OneRights
<1>8. EntityEntitled(Build(T), Build(T).expenses, e, o)
         <=> EntityEntitled(Build(S), Build(S).expenses, e, o)
  BY <1>4, <1>5, <1>6, <1>7
<1> QED
  BY <1>1, <1>2, <1>8

(* It is shown as it was, unless the op edits or voids it.                 *)
LEMMA OneExpense ==
  ASSUME NEW S, OpSet(S), NEW op, Quiet(S, op), NEW T, T = S \cup {op}, OpSet(T),
         NEW e \in DOMAIN Project(S).expenses, ~Makes(op, e),
         op.kind \in {"EditExpense", "VoidExpense"} => op.expense # e
  PROVE  /\ e \in DOMAIN Project(T).expenses
         /\ Project(T).expenses[e].fields = Project(S).expenses[e].fields
<1> DEFINE O(X) == EntitledOps(X, Build(X))
           V(X) == {o \in O(X) : o.kind \in {"CreateExpense", "EditExpense"} /\ o.expense = e}
           G(X) == {o \in O(X) : o.kind = "CreateExpense" /\ o.expense = e}
           D(X) == {o \in O(X) : o.kind = "VoidExpense" /\ o.expense = e}
           W(X) == VersionWrites(O(X))
           At(X) == {Write(o.expense, o, o.fields) : o \in V(X)}
<1>1. O(S) \subseteq S /\ O(T) \subseteq S \cup {op}
  BY DEF EntitledOps
<1>2. G(T) = G(S)
  <2>1. \A X : G(X) = {o \in Creates(X, "CreateExpense") : o.expense = e}
    BY CreatesAgree DEF OfKind
  <2> QED
    BY <2>1, OneCreates
<1>3. ASSUME NEW o, o.kind \in {"EditExpense", "VoidExpense"}, o.expense = e
      PROVE  o \in O(T) <=> o \in O(S)
  <2>1. CASE o \in S
    <3>1. Entitled(Build(T), o) <=> Entitled(Build(S), o)
      BY <1>3, <2>1, OneEntitled DEF Amending
    <3> QED
      BY <2>1, <3>1 DEF EntitledOps
  <2>2. CASE o \notin S
    BY <1>1, <1>3, <2>2
  <2> QED
    BY <2>1, <2>2
<1>4. V(T) = V(S) /\ D(T) = D(S)
  <2> HIDE DEF O
  <2>1. \A o : o.kind \in {"EditExpense", "VoidExpense"} /\ o.expense = e =>
                (o \in O(T) <=> o \in O(S))
    BY <1>3
  <2>2. \A o : o.kind = "CreateExpense" /\ o.expense = e => (o \in O(T) <=> o \in O(S))
    BY <1>2
  <2> QED
    BY <2>1, <2>2
<1>5. ASSUME NEW X, NEW w PROVE w \in W(X) /\ w.key = e <=> w \in At(X)
  <2> HIDE DEF O
  <2> QED
    BY DEF VersionWrites, Write, OfKind
<1>6. ASSUME NEW X
      PROVE  /\ e \in DOMAIN Project(X).expenses
                   <=> V(X) # {} /\ D(X) = {} /\ G(X) # {}
             /\ e \in DOMAIN Project(X).expenses =>
                   Project(X).expenses[e].fields = LastWrite(W(X), e).value
  <2> DEFINE f == FolderOf(O(X))
  <2>1. Project(X).expenses = ExpensesOf(f)
    BY ModelParts DEF Fold
  <2>2. /\ f.expense_version = LastWrites(W(X)) /\ f.expense_voided = Voided(O(X))
        /\ f.expense_group = LastWrites(GroupWrites(O(X)))
    BY FolderParts
  <2> HIDE DEF f, O
  <2>3. /\ DOMAIN ExpensesOf(f) = (DOMAIN f.expense_version \ f.expense_voided)
                                     \cap DOMAIN f.expense_group
        /\ e \in DOMAIN ExpensesOf(f) => ExpensesOf(f)[e].fields = f.expense_version[e].value
    BY DEF ExpensesOf
  <2>4. e \in DOMAIN f.expense_version <=> V(X) # {}
    <3>1. e \in DOMAIN f.expense_version <=> \E w \in W(X) : w.key = e
      <4>1. DOMAIN f.expense_version = {w.key : w \in W(X)}
        BY <2>2, RegisterValue
      <4> HIDE DEF W
      <4> QED
        BY <4>1
    <3>2. At(X) # {} <=> V(X) # {}
      OBVIOUS
    <3> HIDE DEF W, At, V
    <3> QED
      BY <1>5, <3>1, <3>2
  <2>5. e \in DOMAIN f.expense_group <=> G(X) # {}
    <3>1. DOMAIN f.expense_group = {w.key : w \in GroupWrites(O(X))}
      BY <2>2, RegisterValue
    <3>2. e \in {w.key : w \in GroupWrites(O(X))}
             <=> \E o \in OfKind(O(X), "CreateExpense") : o.expense = e
      <4>1. \A o : Write(o.expense, o, o.group).key = o.expense
        BY DEF Write
      <4> QED
        BY <4>1 DEF GroupWrites
    <3> QED
      BY <3>1, <3>2 DEF OfKind
  <2>6. e \in f.expense_voided <=> D(X) # {}
    BY <2>2 DEF Voided, OfKind
  <2>7. e \in DOMAIN f.expense_version =>
           f.expense_version[e].value = LastWrite(W(X), e).value
    BY <2>2, RegisterValue
  <2> HIDE DEF V, D, G, W
  <2>8. e \in DOMAIN ExpensesOf(f) <=> V(X) # {} /\ D(X) = {} /\ G(X) # {}
    BY <2>3, <2>4, <2>5, <2>6
  <2>9. e \in DOMAIN ExpensesOf(f) => ExpensesOf(f)[e].fields = LastWrite(W(X), e).value
    BY <2>3, <2>7
  <2> QED
    BY <2>1, <2>8, <2>9
<1>7. At(T) = At(S)
  BY <1>4
<1> HIDE DEF O, V, G, D, W, At
<1>8. LastWrite(W(T), e) = LastWrite(W(S), e)
  <2> DEFINE Q(X, w) == w \in W(X) /\ w.key = e /\ \A x \in W(X) : x.key = e => x.hlc <= w.hlc
  <2>1. ASSUME NEW X PROVE LastWrite(W(X), e) = CHOOSE w : Q(X, w)
    BY DEF LastWrite
  <2>2. \A w : Q(T, w) <=> Q(S, w)
    BY <1>5, <1>7
  <2> HIDE DEF Q
  <2> QED
    BY <2>1, <2>2
<1> QED
  BY <1>2, <1>4, <1>6, <1>8

(* What is shown was created,                                              *)
LEMMA ShownIsCreated ==
  ASSUME NEW S, NEW e \in DOMAIN Project(S).expenses
  PROVE  \E o \in S : o.kind = "CreateExpense" /\ o.expense = e
<1> DEFINE O == EntitledOps(S, Build(S))
<1>1. O \subseteq S
  BY DEF EntitledOps
<1> HIDE DEF O
<1>2. e \in DOMAIN LastWrites(GroupWrites(O))
  BY ExpenseShown DEF O
<1>3. \E w \in GroupWrites(O) : w.key = e
  <2>1. DOMAIN LastWrites(GroupWrites(O)) = {w.key : w \in GroupWrites(O)}
    BY RegisterValue
  <2> QED
    BY <1>2, <2>1
<1>4. \A o : Write(o.expense, o, o.group).key = o.expense
  BY DEF Write
<1> QED
  BY <1>1, <1>3, <1>4 DEF GroupWrites, OfKind

(* and a closed period ends where some op says.                            *)
LEMMA ClosedAreWritten ==
  ASSUME NEW S, OpSet(S), \A o \in S : o.kind = "SetClosedPeriod" => o.until_ms \in Nat,
         NEW g \in DOMAIN Project(S).groups
  PROVE  Project(S).groups[g].closed_until_ms \in Nat
<1> DEFINE O == EntitledOps(S, Build(S))
           W == ClosedWrites(O)
<1>1. OpSet(O) /\ O \subseteq S
  BY OpSetSubset DEF EntitledOps
<1>2. Project(S).groups[g].closed_until_ms = ValueOr(LastWrites(W), g, 0)
  BY GroupsShown
<1> HIDE DEF O
<1>3. \A w \in W : w.value \in Nat
  BY <1>1 DEF ClosedWrites, Write, OfKind
<1>4. Readings(W)
  BY <1>1, WritesHaveReadings
<1> HIDE DEF W
<1>5. g \in DOMAIN LastWrites(W) => LastWrites(W)[g].value \in Nat
  BY <1>3, <1>4, RegisterValue, LastWriteExists
<1> QED
  BY <1>2, <1>5 DEF ValueOr
=============================================================================
